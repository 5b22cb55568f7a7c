-------------------------- MODULE MCCanonicalRuns --------------------------
(* The empty network does not pass the validator, one trunk segment is     *)
(* solved, on a branch alone the solver fails.  Of a segment with a second *)
(* one white_box_trace cannot be built, with a branch power_flow_trace.    *)
EXTENDS CanonicalRuns

MCHeaderName == [c \in Cases |-> "Model"]
MCContents == {"empty", "segment", "branch", "segments", "branched"}
MCOps == {"extend", "branch", "refresh"}
MCEffect ==
    [xo \in MCContents \X MCOps |->
        CASE xo[2] = "refresh" -> xo[1]
          [] xo = <<"empty", "extend">> -> "segment"
          [] xo = <<"empty", "branch">> -> "branch"
          [] xo = <<"segment", "extend">> -> "segments"
          [] xo = <<"segment", "branch">> -> "branched"
          [] OTHER -> OpError]
MCValid == MCContents \ {"empty"}
MCSolvable == MCContents \ {"branch"}
MCTraceable == MCContents \ {"segments"}
MCReportable == MCContents \ {"branched"}
=============================================================================
