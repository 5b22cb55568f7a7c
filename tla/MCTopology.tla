----------------------------- MODULE MCTopology -----------------------------
(* Topology on a small instance: one medium, one length, and two positions *)
(* on a segment, inside it and at its far end; two grid sources.           *)
EXTENDS Topology

CONSTANTS m500, middle, end, supply1, supply2

MCSupplies == {supply1, supply2}
MCSupplySymmetry == Permutations(MCSupplies)
MCForeign == {<<"foreign">>}
MCMedia == {"cable"}
MCLengths == {m500}
MCPositions == {middle, end}
MCTrunkNamed == {FALSE}
MCPortCounts == {1}
MCStations == {{}, {"transformer", "field"}, {"transformer", "feeder"}}
MCNormalStates == {"closed"}
MCUpdated == {"sources", "substations", "bays", "corridors"}
=============================================================================
