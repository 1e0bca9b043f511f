------------------------------- MODULE Principals -------------------------------
(***************************************************************************)
(* control-plane/auth.ts: who a request of the control plane is made by,   *)
(* and what that principal may do.  Pure functions of the headers and of   *)
(* the environment, for the modules that extend this one.                  *)
(*                                                                         *)
(* A header or variable is Absent, Blank, or a name; the value of a roles  *)
(* header is the sequence of what stands between its commas.               *)
(***************************************************************************)
EXTENDS Sequences

CONSTANTS
  Absent,       \* the header or variable is not there
  Blank,        \* it is there and has no text
  DevSubject,   \* "control-plane-dev"
  Upper(_)      \* trim().toUpperCase() of an item of a roles header

ASSUME ValuesAssumption == Absent # Blank /\ DevSubject \notin {Absent, Blank}

Role == {"VIEWER", "OPERATOR", "APPROVER", "ADMIN"}

(* What resolvePrincipal throws: status 401. *)
Unauthenticated == [error |-> 401]

firstHeader(value) == IF value = Blank THEN Absent ELSE value

Or(value, default) == IF value = Absent THEN default ELSE value

Given(value) == value \notin {Absent, Blank}

Items(raw) == IF raw \in {Absent, Blank} THEN {} ELSE {Upper(raw[i]) : i \in DOMAIN raw}

parseRoles(raw, fallback) == IF Items(raw) \cap Role = {} THEN fallback ELSE Items(raw) \cap Role

(* LOGON_CONTROL_PLANE_DEV_MODE=true: headers, then variables, then ADMIN. *)
DevPrincipal(headers, env) ==
  LET tenant  == Or(firstHeader(headers.tenant), env.tenant)
      subject == Or(Or(firstHeader(headers.actor), env.actor), DevSubject)
  IN  IF Given(tenant)
        THEN [tenant |-> tenant, subject |-> subject,
              roles |-> parseRoles(Or(firstHeader(headers.roles), env.roles), {"ADMIN"})]
        ELSE Unauthenticated

Subject(headers) == firstHeader(headers.authSubject)

(* Behind a trusted proxy: the claims it injected and nothing else. *)
ProxyPrincipal(headers) ==
  IF Given(headers.authTenant) /\ Given(Subject(headers))
    THEN [tenant |-> headers.authTenant, subject |-> Subject(headers),
          roles |-> parseRoles(firstHeader(headers.authRoles), {"VIEWER"})]
    ELSE Unauthenticated

Unconfigured(headers, env) == Unauthenticated

resolvePrincipal(headers, env) ==
  IF env.devMode THEN DevPrincipal(headers, env)
  ELSE IF env.trustedProxy THEN ProxyPrincipal(headers)
  ELSE Unconfigured(headers, env)

Resolved(principal) == principal # Unauthenticated
canRead(principal) == principal.roles \cap Role # {}
canDecide(principal) == principal.roles \cap {"APPROVER", "ADMIN"} # {}
=============================================================================
