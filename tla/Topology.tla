------------------------------ MODULE Topology ------------------------------
(***************************************************************************)
(* The medium-voltage network of one case and the domain operations that   *)
(* build and edit it: the handlers of enm/domain_operations.py with        *)
(* create_node, create_branch and delete_branch of enm/topology_ops.py.    *)
(* A handler works on a copy of the model: one that answers with an error  *)
(* leaves the network as it was and is no step here.                       *)
(*                                                                         *)
(* A ref_id is a hash of the operation, of its parameters and of the refs  *)
(* they name, or the ref of the segment that was split with a suffix.      *)
(* Here it is the tuple of what is hashed, its kind first.                 *)
(*                                                                         *)
(* A switch and a breaker both have the type "switch".  Left out are all   *)
(* SN bays of a station but one FEEDER (another is like the first nN bay), *)
(* the through ports of a branch point, which nothing below reads, what is *)
(* refused for electrical data, and the operations that add devices to a   *)
(* network that is built.                                                  *)
(***************************************************************************)
EXTENDS Integers, Sequences, FiniteSets, SequencesExt

CONSTANTS
    Supplies,   \* catalog_ref and voltage_kv of a grid source
    Foreign,    \* refs an update may name beside those of the model
    Media,      \* segment.rodzaj, as the type of the branch it makes
    Lengths,    \* segment.dlugosc_m: lengths that differ
    Positions,  \* insert_at, quantized
    AtStart,    \* the position with ratio 0
    AtEnd,      \* the position with ratio 1
    TrunkNamed, \* bound: do requests name the trunk, do they not
    PortCounts, \* bound: branch ports of a branch point
    Stations,   \* bound: what is built with a station: a transformer, a
                \* FEEDER field, an nN feeder
    NormalStates, \* bound: states of a section switch
    MaxListed,  \* bound: refs in a list that an update writes
    Updated,    \* bound: collections whose refs updates write
    MaxBuses,   \* bound: buses of a network
    MaxRings,   \* bound: closing segments of a network
    MaxOps,     \* bound: operations that changed it, where
    UpdateCost  \* an update counts as so many

VARIABLES
    buses,          \* their refs, in the order of the list
    branches,       \* per ref its ends, type, status: has it a length
    transformers,   \* per ref its two buses
    sources,        \* per ref its bus
    substations,    \* a list: it may hold one ref twice
    bays,           \* a list: it may hold one ref twice
    branchPoints,   \* per ref what it splits, its bus and its ports
    corridors,      \* a list: it may hold one ref twice
    ops,            \* how many operations changed the network
    rewritten       \* history: where an update has written refs

grid == <<buses, branches, transformers, sources>>
containers == <<substations, bays, branchPoints, corridors>>
topologyVars == <<grid, containers, ops, rewritten>>

ASSUME TopologyAssumption ==
    /\ Media \subseteq {"cable", "line_overhead"}
    /\ AtStart # AtEnd
    /\ TrunkNamed \subseteq BOOLEAN
    /\ PortCounts \subseteq Nat
    /\ Stations \subseteq SUBSET {"transformer", "field", "feeder"}
    /\ NormalStates \subseteq {"closed", "open"}
    /\ {MaxListed, MaxBuses, MaxRings, MaxOps, UpdateCost} \subseteq Nat

TopologyInit ==
    /\ buses = << >> /\ branches = << >> /\ transformers = << >>
    /\ sources = << >> /\ substations = << >> /\ bays = << >>
    /\ branchPoints = << >> /\ corridors = << >>
    /\ ops = 0 /\ rewritten = {}

-----------------------------------------------------------------------------
(* Refs and lists.                                                         *)

NoRef == << >>      \* None

Buses == ToSet(buses)
RefsIn(list) == {list[i].ref : i \in DOMAIN list}

(* One entry of a collection; collection f with the entries of e added; f  *)
(* without the refs of S.                                                  *)
Entry(ref, element) == [r \in {ref} |-> element]
Added(e, f) ==
    [r \in DOMAIN e \cup DOMAIN f |-> IF r \in DOMAIN e THEN e[r] ELSE f[r]]
Without(f, S) == Restrict(f, DOMAIN f \ S)

(* The list without the elements of S, in the same order; and without the  *)
(* first one that has the ref.                                             *)
Minus(list, S) ==
    LET rest[i \in 0..Len(list)] ==
            IF i = 0 THEN << >>
            ELSE IF list[i] \in S THEN rest[i - 1]
            ELSE Append(rest[i - 1], list[i])
    IN  rest[Len(list)]
WithoutRef(list, ref) == RemoveFirstMatch(list, LAMBDA e : e.ref = ref)

(* _all_refs_set: every collection but branch_points.                      *)
AllRefs ==
    UNION {Buses, DOMAIN branches, DOMAIN transformers, DOMAIN sources,
           RefsIn(substations), RefsIn(bays), RefsIn(corridors)}
(* create_node and create_branch refuse a ref that is taken.               *)
Free(refs) == refs \cap AllRefs = {}

Line(b) == branches[b].type # "switch"
Branch(from, to, type, status) ==
    [from |-> from, to |-> to, type |-> type, status |-> status,
     long |-> TRUE]
Counted(n) == ops + n <= MaxOps /\ ops' = ops + n
Changed == Counted(1) /\ UNCHANGED rewritten
Room(n) == Len(buses) + n <= MaxBuses

(* A line needs a positive length: a split at an end makes one half, and   *)
(* that of a line without a length none.                                   *)
LeftFits(b, at) == Line(b) => branches[b].long /\ at # AtStart
RightFits(b, at) == Line(b) => branches[b].long /\ at # AtEnd

Half(side, b) == <<side, b>>
StationHalves == [left |-> "L", right |-> "R"]
SwitchHalves == [left |-> "SL", right |-> "SR"]
PointHalves(type) ==
    IF type = "cable" THEN [left |-> "L_zksn", right |-> "R_zksn"]
    ELSE [left |-> "L_branch_pole", right |-> "R_branch_pole"]

(* The list index of the corridor a request names, or of the first one; 0  *)
(* when there is none.                                                     *)
CorridorIndex(ref) ==
    SelectInSeq(corridors, LAMBDA c : ref \in {NoRef, c.ref})

(* The corridor that is edited when segment b is split.  A branch point    *)
(* takes the first that lists b; a station and a section switch take the   *)
(* ref of that one, and then the first corridor that has the ref.          *)
Lister(b) == SelectInSeq(corridors, LAMBDA c : Contains(c.segments, b))
NamedLister(b) ==
    IF Lister(b) = 0 THEN 0 ELSE CorridorIndex(corridors[Lister(b)].ref)

(* Corridor i, if it lists segment b, gets the parts in its place.         *)
InCorridors(i, b, parts) ==
    LET segs == corridors[i].segments
        k == SelectInSeq(segs, LAMBDA s : s = b)
    IN  IF i = 0 \/ k = 0 THEN corridors
        ELSE [corridors EXCEPT ![i].segments =
                 SubSeq(segs, 1, k - 1) \o parts
                     \o SubSeq(segs, k + 1, Len(segs))]

-----------------------------------------------------------------------------
(* Building the network.                                                   *)

AddGridSource(v) ==
    LET bus == <<"gpz_bus", v>>
        source == <<"gpz_source", v>>
    IN  /\ Changed /\ Room(1)
        /\ sources = << >>
        /\ Free({bus, source})
        /\ buses' = Append(buses, bus)
        /\ sources' = Entry(source, bus)
        /\ substations' =
               Append(substations, [ref |-> <<"gpz", v>>, buses |-> {bus},
                                    transformers |-> {}])
        /\ corridors' =
               Append(corridors, [ref |-> <<"corridor", v>>,
                                  type |-> "radial",
                                  segments |-> << >>, nop |-> NoRef])
        /\ UNCHANGED <<branches, transformers, bays, branchPoints>>

(* Mutant: the far bus of the first segment.                               *)
TrunkEnd_First(trunk) ==
    LET i == CorridorIndex(trunk)
        segs == IF i = 0 THEN << >> ELSE corridors[i].segments
    IN  IF segs # << >> /\ Head(segs) \in DOMAIN branches
        THEN branches[Head(segs)].to
        ELSE IF buses = << >> THEN NoRef ELSE Head(buses)

(* _auto_detect_trunk_end: the far bus of the last segment of the trunk.   *)
(* Without one, or when the branch is missing, the first bus of the model. *)
TrunkEnd(trunk) ==
    LET i == CorridorIndex(trunk)
        segs == IF i = 0 THEN << >> ELSE corridors[i].segments
    IN  IF segs # << >> /\ Last(segs) \in DOMAIN branches
        THEN branches[Last(segs)].to
        ELSE IF buses = << >> THEN NoRef ELSE Head(buses)

(* A new line from an existing bus to a new one.                           *)
NewLine(from, bus, segment, medium) ==
    /\ Changed /\ Room(1)
    /\ from \in Buses
    /\ Free({bus, segment})
    /\ buses' = Append(buses, bus)
    /\ branches' = Added(Entry(segment, Branch(from, bus, medium, "closed")),
                          branches)

ContinueTrunk(trunk, terminal, medium, len) ==
    LET from == IF terminal = NoRef THEN TrunkEnd(trunk) ELSE terminal
        segment == <<"trunk", trunk, from, medium, len>>
        i == CorridorIndex(trunk)
    IN  /\ NewLine(from, <<"downstream", trunk, from, medium, len>>,
                   segment, medium)
        /\ corridors' =
               IF i = 0 THEN corridors
               ELSE [corridors EXCEPT ![i].segments = Append(@, segment)]
        /\ UNCHANGED <<transformers, sources, substations, bays,
                       branchPoints>>

StartBranch(from, medium, len) ==
    NewLine(from, <<"branch_end", from, medium, len>>,
            <<"branch", from, medium, len>>, medium)

StartBranchFromBus(bus, medium, len) ==
    /\ StartBranch(bus, medium, len)
    /\ UNCHANGED <<transformers, sources, containers>>

(* station.BRANCH: the bus of its first FEEDER bay.  A GPZ has none.       *)
StartBranchFromStation(station, medium, len) ==
    LET i == SelectInSeq(bays, LAMBDA f :
                            f.station = station /\ f.role = "FEEDER")
    IN  /\ station[1] = "station"
        /\ i # 0
        /\ StartBranch(bays[i].bus, medium, len)
        /\ UNCHANGED <<transformers, sources, containers>>

(* A branch pole lets its first port be used, a ZKSN all of them.          *)
StartBranchFromPort(point, port, medium, len) ==
    /\ point \in DOMAIN branchPoints
    /\ port \in DOMAIN branchPoints[point].ports
    /\ branchPoints[point].type = "cable" \/ port = 1
    /\ port \notin DOMAIN branchPoints[point].occupied
    /\ LET bus == branchPoints[point].ports[port]
       IN  /\ StartBranch(bus, medium, len)
           /\ branchPoints' =
                  [branchPoints EXCEPT ![point].occupied =
                      Added(Entry(port, <<"branch", bus, medium, len>>), @)]
    /\ UNCHANGED <<transformers, sources, substations, bays, corridors>>

(* The ref of the closing segment does not hash its medium or its length.  *)
ConnectRing(from, to, medium) ==
    LET ring == <<"ring", from, to>>
    IN  /\ Changed
        /\ Cardinality({b \in DOMAIN branches : b[1] = "ring"}) < MaxRings
        /\ {from, to} \subseteq Buses /\ from # to
        /\ Free({ring})
        /\ branches' = Added(Entry(ring, Branch(from, to, medium, "closed")),
                              branches)
        /\ corridors' =
               IF corridors = << >> THEN corridors
               ELSE [corridors EXCEPT ![1].type = "ring"]
        /\ UNCHANGED <<buses, transformers, sources, substations, bays,
                       branchPoints>>

-----------------------------------------------------------------------------
(* Splitting a segment.  The halves are closed, whatever the segment was.  *)

Left(b, node, halves) ==
    Entry(Half(halves.left, b),
          Branch(branches[b].from, node, branches[b].type, "closed"))
Right(b, node, halves) ==
    Entry(Half(halves.right, b),
          Branch(node, branches[b].to, branches[b].type, "closed"))
HalfRefs(b, halves) == {Half(halves.left, b), Half(halves.right, b)}

(* Both halves meet at a new bus; further buses are added with it.         *)
SplitAt(b, at, halves, newBuses, corridor) ==
    /\ Changed /\ Room(Len(newBuses))
    /\ b \in DOMAIN branches /\ Line(b)
    /\ LeftFits(b, at) /\ RightFits(b, at)
    /\ Free(ToSet(newBuses) \cup HalfRefs(b, halves))
    /\ buses' = buses \o newBuses
    /\ branches' = Added(Left(b, newBuses[1], halves),
                   Added(Right(b, newBuses[1], halves),
                         Without(branches, {b})))
    /\ corridors' = InCorridors(corridor, b, <<Half(halves.left, b),
                                               Half(halves.right, b)>>)

Bay(kind, station, bus, role) ==
    [ref |-> <<kind, station>>, station |-> station, bus |-> bus,
     role |-> role]

(* The nN bus and the transformer go to the first substation of the list   *)
(* that has the ref: not the new one, if an older one has it.              *)
WithStation(station, sn, nn, trs) ==
    LET list == Append(substations, [ref |-> station, buses |-> {sn},
                                     transformers |-> {}])
        i == SelectInSeq(list, LAMBDA s : s.ref = station)
    IN  [list EXCEPT ![i].buses = @ \cup {nn},
                     ![i].transformers = @ \cup trs]

(* A station on a segment with some of a transformer, a FEEDER field on    *)
(* its SN bus and an nN feeder.                                            *)
InsertStation(b, at, parts) ==
    LET sn == <<"sn_bus", b, at>>
        nn == <<"nn_bus", b, at>>
        station == <<"station", b, at>>
        tr == <<"transformer", b, at>>
        trs == IF "transformer" \in parts THEN {tr} ELSE {}
        some(part, bay) == IF part \in parts THEN <<bay>> ELSE << >>
    IN  /\ SplitAt(b, at, StationHalves, <<sn, nn>>, NamedLister(b))
        /\ Free(trs)
        /\ transformers' =
               Added([t \in trs |-> [hv |-> sn, lv |-> nn]], transformers)
        /\ substations' = WithStation(station, sn, nn, trs)
        /\ bays' = bays
               \o some("field", Bay("sn_field", station, sn, "FEEDER"))
               \o <<Bay("nn_main", station, nn, "IN")>>
               \o some("feeder", Bay("nn_feeder", station, nn, "FEEDER"))
        /\ UNCHANGED <<sources, branchPoints>>

(* A branch pole on an overhead line, a ZKSN on a cable, with n ports.     *)
(* parent_segment_id is the segment that is removed here.                  *)
InsertBranchPoint(b, at, n) ==
    /\ b \in DOMAIN branches /\ Line(b)
    /\ LET type == branches[b].type
           point == <<"point", b, at, n>>
           bus == <<"point_bus", b, at, n>>
           ports == [i \in 1..n |-> <<"port_bus", b, at, n, i>>]
       IN  /\ SplitAt(b, at, PointHalves(type), <<bus>> \o ports, Lister(b))
           /\ branchPoints' =
                  Added(Entry(point, [type |-> type, parent |-> b,
                                      bus |-> bus, ports |-> ports,
                                      occupied |-> << >>]),
                        branchPoints)
    /\ UNCHANGED <<transformers, sources, substations, bays>>

(* A switch between two new buses.  The answers of create_branch and of    *)
(* the second create_node are not looked at: what is refused is missing,   *)
(* and the corridor lists all three branches.                              *)
InsertSectionSwitch(b, at, status) ==
    LET n1 == <<"switch_node", b, at>>
        n2 == <<"switch_node_2", b, at>>
        switch == <<"section_switch", b, at>>
        left == Half("SL", b)
        right == Half("SR", b)
        parts == Added(Left(b, n1, SwitchHalves),
                 Added(Entry(switch, Branch(n1, n2, "switch", status)),
                       Right(b, n2, SwitchHalves)))
        fits == {r \in {left, switch, right} :
                    /\ Free({r})
                    /\ r = left => LeftFits(b, at)
                    /\ r = right => RightFits(b, at)}
    IN  /\ Changed /\ Room(2)
        /\ b \in DOMAIN branches
        /\ Free({n1})
        /\ buses' = buses \o (IF Free({n2}) THEN <<n1, n2>> ELSE <<n1>>)
        /\ branches' = Added(Restrict(parts, fits), Without(branches, {b}))
        /\ corridors' =
               InCorridors(NamedLister(b), b, <<left, switch, right>>)
        /\ UNCHANGED <<transformers, sources, substations, bays,
                       branchPoints>>

-----------------------------------------------------------------------------
(* Switching and updates.                                                  *)

SetNormalOpenPoint(b, corridor) ==
    LET i == CorridorIndex(corridor)
    IN  /\ Changed
        /\ b \in DOMAIN branches
        /\ branches' = [branches EXCEPT ![b].status = "open"]
        /\ corridors' = IF i = 0 THEN corridors
                        ELSE [corridors EXCEPT ![i].nop = b]
        /\ UNCHANGED <<buses, transformers, sources, substations, bays,
                       branchPoints>>

(* update_element_parameters, one key of a request at a time.  A branch    *)
(* gets a status, or a length, which may be none; of a switch no length is *)
(* kept.                                                                   *)
Written == Counted(UpdateCost) /\ UNCHANGED rewritten

SetStatus(b, status) ==
    /\ Written
    /\ b \in DOMAIN branches
    /\ branches' = [branches EXCEPT ![b].status = status]
    /\ UNCHANGED <<buses, transformers, sources, containers>>

SetLength(b, long) ==
    /\ Written
    /\ b \in DOMAIN branches /\ Line(b)
    /\ branches' = [branches EXCEPT ![b].long = long]
    /\ UNCHANGED <<buses, transformers, sources, containers>>

(* A branch point gets the buses of its ports, or what occupies them.      *)
SetPorts(p, ports) ==
    /\ Written
    /\ p \in DOMAIN branchPoints
    /\ branchPoints' = [branchPoints EXCEPT ![p].ports = ports]
    /\ UNCHANGED <<grid, substations, bays, corridors>>

SetOccupied(p, occupied) ==
    /\ Written
    /\ p \in DOMAIN branchPoints
    /\ branchPoints' = [branchPoints EXCEPT ![p].occupied = occupied]
    /\ UNCHANGED <<grid, substations, bays, corridors>>

(* A corridor, the first with the ref, gets its type or its normal open    *)
(* point.                                                                  *)
SetCorridorType(ref, type) ==
    /\ Written
    /\ ref \in RefsIn(corridors)
    /\ corridors' = [corridors EXCEPT ![CorridorIndex(ref)].type = type]
    /\ UNCHANGED <<grid, substations, bays, branchPoints>>

SetNoPoint(ref, nop) ==
    /\ Written
    /\ ref \in RefsIn(corridors)
    /\ corridors' = [corridors EXCEPT ![CorridorIndex(ref)].nop = nop]
    /\ UNCHANGED <<grid, substations, bays, branchPoints>>

(* No check is made of the refs that an update writes for a source, a      *)
(* station, a bay or a corridor, the first of its list with the ref.       *)
Rewrite(collection) ==
    /\ Counted(UpdateCost)
    /\ collection \in Updated
    /\ rewritten' = rewritten \cup {collection}

RewriteSource(s, bus) ==
    /\ Rewrite("sources")
    /\ s \in DOMAIN sources
    /\ sources' = [sources EXCEPT ![s] = bus]
    /\ UNCHANGED <<buses, branches, transformers, containers>>

StationIndex(ref) == SelectInSeq(substations, LAMBDA s : s.ref = ref)

RewriteStationBuses(ref, refs) ==
    /\ Rewrite("substations")
    /\ ref \in RefsIn(substations)
    /\ substations' =
           [substations EXCEPT ![StationIndex(ref)].buses = refs]
    /\ UNCHANGED <<grid, bays, branchPoints, corridors>>

RewriteStationTransformers(ref, refs) ==
    /\ Rewrite("substations")
    /\ ref \in RefsIn(substations)
    /\ substations' =
           [substations EXCEPT ![StationIndex(ref)].transformers = refs]
    /\ UNCHANGED <<grid, bays, branchPoints, corridors>>

RewriteBay(ref, station, bus, role) ==
    LET i == SelectInSeq(bays, LAMBDA f : f.ref = ref)
    IN  /\ Rewrite("bays")
        /\ i # 0
        /\ bays' = [bays EXCEPT ![i] = [ref |-> ref, station |-> station,
                                        bus |-> bus, role |-> role]]
        /\ UNCHANGED <<grid, substations, branchPoints, corridors>>

RewriteSegments(ref, segments) ==
    /\ Rewrite("corridors")
    /\ ref \in RefsIn(corridors)
    /\ corridors' =
           [corridors EXCEPT ![CorridorIndex(ref)].segments = segments]
    /\ UNCHANGED <<grid, substations, bays, branchPoints>>

-----------------------------------------------------------------------------
(* delete_element.                                                         *)

(* Mutant: a bus takes the branches that start at it, not those that end.  *)
DeadBranches_FromOnly(ref) ==
    {b \in DOMAIN branches : ref \in {b, branches[b].from}}

(* What goes with an element: a bus takes what is connected to it, a       *)
(* transformer its station and the bays of the station, a bus or a parent  *)
(* segment its branch point.  A station does not go with its bus: the code *)
(* asks for the field bus_ref, which a substation does not have.           *)
DeadBranches(ref) ==
    {b \in DOMAIN branches : ref \in {b, branches[b].from, branches[b].to}}
DeadTransformers(ref) ==
    {t \in DOMAIN transformers :
        ref \in {t, transformers[t].hv, transformers[t].lv}}
DeadSources(ref) ==
    {s \in DOMAIN sources : ref = s \/ (ref \in Buses /\ ref = sources[s])}
DeadStations(ref) ==
    {substations[i].ref : i \in {j \in DOMAIN substations :
        substations[j].transformers \cap DeadTransformers(ref) # {}}}
DeadPoints(ref) ==
    {p \in DOMAIN branchPoints :
        \/ ref \in {p, branchPoints[p].bus}
        \/ branchPoints[p].parent \in DeadBranches(ref)}

(* Mutant: the normal open point is not cleared.                           *)
CleanCorridor_KeepsNop(c, dead) ==
    [c EXCEPT !.segments = Minus(@, dead)]

(* References that are cleared when branches go.                           *)
CleanCorridor(c, dead) ==
    [c EXCEPT !.segments = Minus(@, dead),
              !.nop = IF @ \in dead THEN NoRef ELSE @]
CleanPoint(p, dead) ==
    [p EXCEPT !.occupied = Restrict(@, {i \in DOMAIN @ : @[i] \notin dead})]

DeleteElement(ref) ==
    LET dead == DeadBranches(ref)
        deadStations ==
            {s \in ToSet(substations) : s.ref \in DeadStations(ref)}
        deadBays == {f \in ToSet(bays) : f.station \in DeadStations(ref)}
        points == Without(branchPoints, DeadPoints(ref))
    IN  /\ Changed
        /\ ref \in AllRefs \cup DOMAIN branchPoints
        /\ buses' = Minus(buses, {ref})
        /\ branches' = Without(branches, dead)
        /\ transformers' = Without(transformers, DeadTransformers(ref))
        /\ sources' = Without(sources, DeadSources(ref))
        /\ substations' = Minus(WithoutRef(substations, ref), deadStations)
        /\ bays' = Minus(WithoutRef(bays, ref), deadBays)
        /\ branchPoints' =
               [p \in DOMAIN points |-> CleanPoint(points[p], dead)]
        /\ corridors' =
               [i \in DOMAIN WithoutRef(corridors, ref) |->
                  CleanCorridor(WithoutRef(corridors, ref)[i], dead)]

-----------------------------------------------------------------------------
Trunks == (IF TRUE \in TrunkNamed THEN RefsIn(corridors) ELSE {}) \cup
          (IF FALSE \in TrunkNamed THEN {NoRef} ELSE {})
Statuses == {"closed", "open"}
CorridorTypes == {"radial", "ring", "mixed"}
BusRefs == Buses \cup Foreign
BranchRefs == DOMAIN branches \cup Foreign
Lists(S) == UNION {[1..n -> S] : n \in 0..MaxListed}
Sets(S) == {ToSet(list) : list \in Lists(S)}
Occupations == UNION {[S -> BranchRefs] : S \in SUBSET (1..MaxListed)}

Build ==
    \/ \E v \in Supplies : AddGridSource(v)
    \/ \E m \in Media, n \in Lengths :
          \/ \E t \in Trunks, from \in Buses \cup {NoRef} :
                ContinueTrunk(t, from, m, n)
          \/ \E b \in Buses : StartBranchFromBus(b, m, n)
          \/ \E s \in RefsIn(substations) : StartBranchFromStation(s, m, n)
          \/ \E p \in DOMAIN branchPoints :
                \E i \in DOMAIN branchPoints[p].ports :
                    StartBranchFromPort(p, i, m, n)
    \/ \E m \in Media, from, to \in Buses : ConnectRing(from, to, m)
    \/ \E b \in DOMAIN branches, at \in Positions :
          \/ \E parts \in Stations : InsertStation(b, at, parts)
          \/ \E n \in PortCounts : InsertBranchPoint(b, at, n)
          \/ \E s \in NormalStates : InsertSectionSwitch(b, at, s)

Update ==
    \/ \E b \in DOMAIN branches :
          \/ \E t \in Trunks : SetNormalOpenPoint(b, t)
          \/ \E s \in Statuses : SetStatus(b, s)
          \/ \E long \in BOOLEAN : SetLength(b, long)
    \/ \E p \in DOMAIN branchPoints :
          \/ \E ports \in Lists(BusRefs) : SetPorts(p, ports)
          \/ \E occupied \in Occupations : SetOccupied(p, occupied)
    \/ \E ref \in RefsIn(corridors) :
          \/ \E type \in CorridorTypes : SetCorridorType(ref, type)
          \/ \E nop \in BranchRefs \cup {NoRef} : SetNoPoint(ref, nop)

RewriteRefs ==
    \/ \E s \in DOMAIN sources, bus \in BusRefs : RewriteSource(s, bus)
    \/ \E ref \in RefsIn(substations) :
          \/ \E refs \in Sets(BusRefs) : RewriteStationBuses(ref, refs)
          \/ \E refs \in Sets(DOMAIN transformers \cup Foreign) :
                RewriteStationTransformers(ref, refs)
    \/ \E ref \in RefsIn(bays), station \in RefsIn(substations) \cup Foreign,
          bus \in BusRefs, role \in {"FEEDER", "IN"} :
          RewriteBay(ref, station, bus, role)
    \/ \E ref \in RefsIn(corridors), segments \in Lists(BranchRefs) :
          RewriteSegments(ref, segments)

Delete == \E ref \in AllRefs \cup DOMAIN branchPoints : DeleteElement(ref)

TopologyNext == Build \/ Update \/ RewriteRefs \/ Delete

TopologySpec == TopologyInit /\ [][TopologyNext]_topologyVars

-----------------------------------------------------------------------------
(* Properties.  An update may write any refs into a source, a station, a   *)
(* bay or a corridor: nothing is said of the collection from then on, and  *)
(* what it holds does no harm elsewhere.                                   *)

Unwritten(collection) == collection \notin rewritten

(* The buses of branch points' ports are not among these ends: a bus is    *)
(* deleted without a look at them.                                         *)
EndsExist ==
    /\ Cardinality(Buses) = Len(buses)
    /\ \A b \in DOMAIN branches :
          /\ {branches[b].from, branches[b].to} \subseteq Buses
          /\ branches[b].from # branches[b].to
    /\ \A t \in DOMAIN transformers :
          {transformers[t].hv, transformers[t].lv} \subseteq Buses
    /\ \A p \in DOMAIN branchPoints : branchPoints[p].bus \in Buses

SourcesConnected == \A s \in DOMAIN sources : sources[s] \in Buses

(* A station with a transformer goes with it, and the transformer goes     *)
(* with each of its buses.                                                 *)
StationsWhole ==
    \A i \in DOMAIN substations :
        LET s == substations[i]
        IN  s.transformers # {} =>
                /\ s.transformers \subseteq DOMAIN transformers
                /\ s.buses \subseteq Buses
                /\ Unwritten("bays") =>
                      \A f \in ToSet(bays) :
                         f.station = s.ref => f.bus \in s.buses

SwitchPart(s) == s[1] \in {"SL", "SR", "section_switch"}
OnlySwitchPartsMissing ==
    \A i \in DOMAIN corridors :
        \A s \in ToSet(corridors[i].segments) :
            s \in DOMAIN branches \/ SwitchPart(s)

(* Whatever is built, updated and deleted, the buses of branches,          *)
(* transformers and branch points exist.  So do, unless an update has      *)
(* written other refs there, the bus of a source, what a station with a    *)
(* transformer names, and the branches a corridor lists, but for the parts *)
(* that insert_section_switch_sn lists without having made them.           *)
NetworkIntact ==
    /\ EndsExist
    /\ Unwritten("sources") => SourcesConnected
    /\ Unwritten("substations") => StationsWhole
    /\ Unwritten("corridors") => OnlySwitchPartsMissing

(* The segments, each listed once, follow each other in this order and     *)
(* direction.                                                              *)
Chain(segs, bs) ==
    /\ ToSet(segs) \subseteq DOMAIN bs /\ IsInjective(segs)
    /\ \A k \in 1..(Len(segs) - 1) : bs[segs[k]].to = bs[segs[k + 1]].from

ContinueFrom(terminals) ==
    \E t \in Trunks, from \in terminals, m \in Media, n \in Lengths :
        ContinueTrunk(t, from, m, n)
TerminalChosen == ContinueFrom(Buses) /\ ~ContinueFrom({NoRef})
PartRefused ==
    \E b \in DOMAIN branches, at \in Positions, s \in NormalStates :
        /\ InsertSectionSwitch(b, at, s)
        /\ ~ ({Half("SL", b), <<"section_switch", b, at>>, Half("SR", b)}
                  \subseteq DOMAIN branches' \ DOMAIN branches)
WasSplit(b) == b \notin DOMAIN branches' /\ Len(buses') > Len(buses)
SegmentsWritten ==
    \E ref \in RefsIn(corridors), segments \in Lists(BranchRefs) :
        RewriteSegments(ref, segments)

(* A trunk whose segments form a chain keeps forming one: only a deletion, *)
(* a terminal the request names other than the end the code finds itself,  *)
(* a section switch of which a part was refused, and an update of the list *)
(* break it; and after such an update a split, as the segment may be       *)
(* listed by a second corridor, where the split does not look.             *)
TrunkStaysChain ==
    [][\A i \in DOMAIN corridors \cap DOMAIN corridors' :
          Chain(corridors[i].segments, branches) =>
              \/ Chain(corridors'[i].segments, branches')
              \/ Delete \/ TerminalChosen \/ PartRefused
              \/ SegmentsWritten
              \/ /\ ~Unwritten("corridors")
                 /\ \E b \in DOMAIN branches : WasSplit(b)
      ]_topologyVars

(* The branches that normal open points and occupied ports name.           *)
Named ==
    ({corridors[i].nop : i \in DOMAIN corridors} \cup
     UNION {ToSet(branchPoints[p].occupied) : p \in DOMAIN branchPoints})
    \ {NoRef}

(* The normal open point of a corridor and the branch that occupies a port *)
(* stay branches of the model: deleting clears the reference, only a split *)
(* leaves it at a segment that is gone.                                    *)
RefsLostOnlyBySplit ==
    [][\A b \in Named' \cap DOMAIN branches :
          b \in DOMAIN branches' \/ WasSplit(b)]_topologyVars
=============================================================================
