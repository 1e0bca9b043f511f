---------------------------- MODULE MCControlPlaneUi ----------------------------
(***************************************************************************)
(* Instances of ControlPlaneUi for TLC.                                    *)
(***************************************************************************)
EXTENDS ControlPlaneUi, TLC

CONSTANTS e1, e2, t1, t2

OneTenant == e1 :> t1 @@ e2 :> t1
=============================================================================
