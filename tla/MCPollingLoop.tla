----------------------------- MODULE MCPollingLoop -----------------------------
(***************************************************************************)
(* Instances of PollingLoop for TLC.                                       *)
(***************************************************************************)
EXTENDS PollingLoop

(* Options that the constructor clamps, and the longest poll interval,     *)
(* whose double exceeds the longest back-off given.                        *)
BoundaryOptions == {<<-1, 0>>, <<60000, 60000>>}
=============================================================================
