----------------------------- MODULE MCEnmStore -----------------------------
(* A network is its number of trunk segments: extending it adds one,       *)
(* deleting removes one (an error on the empty network), so contents come  *)
(* back under another revision.  All identifiers begin alike.              *)
EXTENDS EnmStore

CONSTANT MaxSegments

MCHeaderName == [c \in Cases |-> "Model"]
MCContents == 0..MaxSegments
MCOps == {"extend", "delete", "refresh"}
MCEffect ==
    [xo \in MCContents \X MCOps |->
        CASE xo[2] = "refresh" -> xo[1]
          [] xo[2] = "extend" /\ xo[1] < MaxSegments -> xo[1] + 1
          [] xo[2] = "delete" /\ xo[1] > 0 -> xo[1] - 1
          [] OTHER -> OpError]
=============================================================================
