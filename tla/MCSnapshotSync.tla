--------------------------- MODULE MCSnapshotSync ---------------------------
(* A network is its number of trunk segments, as in MCEnmStore, and the    *)
(* identifiers of the two cases begin alike.                               *)
EXTENDS SnapshotSync

CONSTANT MaxSegments

MCHeaderName == [c \in Cases |-> "Model"]
MCContents == 0..MaxSegments
MCOps == {"extend", "delete", "refresh"}
MCEffect ==
    [xo \in MCContents \X MCOps |->
        CASE xo[2] = "refresh" -> xo[1]
          [] xo[2] = "extend" /\ xo[1] < MaxSegments -> xo[1] + 1
          [] xo[2] = "delete" /\ xo[1] > 0 -> xo[1] - 1
          [] OTHER -> OpError]
=============================================================================
