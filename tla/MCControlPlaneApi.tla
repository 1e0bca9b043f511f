--------------------------- MODULE MCControlPlaneApi ---------------------------
(***************************************************************************)
(* Instances of ControlPlaneApi for TLC.                                   *)
(***************************************************************************)
EXTENDS ControlPlaneApi, TLC

CONSTANTS e1, e2

ToUpper(item) == item

Claims(tenant, subject, roles) ==
  [tenant |-> Absent, actor |-> Absent, roles |-> Absent,
   authTenant |-> tenant, authSubject |-> subject, authRoles |-> roles]

BehindProxy == [devMode |-> FALSE, trustedProxy |-> TRUE, tenant |-> Absent, actor |-> Absent, roles |-> Absent]

(* An approver and a viewer of one tenant, an administrator of another,    *)
(* and somebody whose proxy injects no tenant.                             *)
People ==
  {Claims("t1", "ann", <<"APPROVER">>), Claims("t1", "vic", <<"VIEWER">>),
   Claims("t2", "tom", <<"ADMIN">>), Claims(Absent, "eve", <<"ADMIN">>)}

TwoTenants == e1 :> "t1" @@ e2 :> "t2"

WorkerMoves == {<<e1, "FAILED">>}

AnyConnection == Permutations(Connections)
=============================================================================
