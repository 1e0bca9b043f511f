------------------------------ MODULE AccessProofs ------------------------------
(***************************************************************************)
(* What resolvePrincipal() promises for every header and environment, and  *)
(* evaluateToolPolicy and checkToolPermission for every request, tool,     *)
(* permission and time.                                                    *)
(***************************************************************************)
EXTENDS Principals, ToolAccess, TLAPS

(* "Resolves only trusted-proxy claims in production mode": requests with  *)
(* the same claims are made by the same principal, whatever other headers  *)
(* they carry and whatever development identity the environment holds.     *)
THEOREM OnlyClaimsCount ==
  ASSUME NEW h1, NEW h2, NEW env1, NEW env2,
         ~env1.devMode, ~env2.devMode, env1.trustedProxy, env2.trustedProxy,
         h1.authTenant = h2.authTenant, h1.authSubject = h2.authSubject,
         h1.authRoles = h2.authRoles
  PROVE  resolvePrincipal(h1, env1) = resolvePrincipal(h2, env2)
BY Zenon DEF resolvePrincipal, ProxyPrincipal, Subject

(* parseRoles() ends in valid roles, and in the fallback only when no      *)
(* valid role was asked for: unknown roles are never promoted.             *)
LEMMA RolesAreValid ==
  ASSUME NEW raw, NEW fallback, fallback \subseteq Role
  PROVE  /\ parseRoles(raw, fallback) \subseteq Role
         /\ parseRoles(raw, fallback) \subseteq Items(raw) \cup fallback
BY Zenon DEF parseRoles

(* With neither mode configured nobody is resolved.  Behind a proxy nobody *)
(* is without tenant or subject, or decides without having been given a    *)
(* deciding role.                                                          *)
THEOREM FailsClosed ==
  ASSUME NEW headers, NEW env, ~env.devMode,
         Resolved(resolvePrincipal(headers, env))
  PROVE  /\ env.trustedProxy
         /\ Given(resolvePrincipal(headers, env).tenant)
         /\ Given(resolvePrincipal(headers, env).subject)
         /\ resolvePrincipal(headers, env).roles \subseteq Role
         /\ canDecide(resolvePrincipal(headers, env)) =>
              Items(firstHeader(headers.authRoles)) \cap {"APPROVER", "ADMIN"} # {}
<1> DEFINE p == resolvePrincipal(headers, env)
           roles == parseRoles(firstHeader(headers.authRoles), {"VIEWER"})
<1>1. env.trustedProxy
  BY DEF resolvePrincipal, Unconfigured, Resolved
<1>2. p = ProxyPrincipal(headers)
  BY <1>1 DEF resolvePrincipal
<1>3. Given(headers.authTenant) /\ Given(Subject(headers))
  BY <1>2 DEF ProxyPrincipal, Resolved
<1>4. p = [tenant |-> headers.authTenant, subject |-> Subject(headers), roles |-> roles]
  BY <1>2, <1>3 DEF ProxyPrincipal
<1>5. p.tenant = headers.authTenant /\ p.subject = Subject(headers) /\ p.roles = roles
  BY <1>4
<1>6. roles \subseteq Role /\ roles \subseteq Items(firstHeader(headers.authRoles)) \cup {"VIEWER"}
  BY RolesAreValid DEF Role
<1>7. canDecide(p) => Items(firstHeader(headers.authRoles)) \cap {"APPROVER", "ADMIN"} # {}
  BY <1>5, <1>6 DEF canDecide
<1> QED BY <1>1, <1>3, <1>5, <1>6, <1>7

-----------------------------------------------------------------------------
(* A gate that the request asks for is not lost on the way to a tool, and  *)
(* a tool of high impact has one whatever the request says.                *)
THEOREM ToolsKeepTheGate ==
  ASSUME NEW request, NEW tool,
         evaluateExecutionPolicy(request).allowed,
         evaluateToolPolicy(request, tool).allowed,
         \/ evaluateExecutionPolicy(request).requiresApproval
         \/ tool.sideEffect \in highImpact
  PROVE  evaluateToolPolicy(request, tool).requiresApproval
BY DEF evaluateToolPolicy, evaluateExecutionPolicy

(* A permission serves one tenant, one agent and one tool.                 *)
THEOREM PermissionServesOne ==
  ASSUME NEW r1, NEW r2, NEW t1, NEW t2, NEW permission, NEW now1, NEW now2,
         checkToolPermission(r1, t1, permission, now1),
         checkToolPermission(r2, t2, permission, now2)
  PROVE  /\ r1.tenantId = r2.tenantId /\ r1.agentId = r2.agentId
         /\ t1.toolId = t2.toolId /\ t1.requiredPermission = t2.requiredPermission
BY DEF checkToolPermission

(* A permission only lapses: what it does not allow now it never allows    *)
(* later.                                                                  *)
THEOREM PermissionsOnlyLapse ==
  ASSUME NEW request, NEW tool, NEW permission, NEW now \in Int, NEW later \in Int,
         now <= later,
         permission.expiresAt \in Int \cup {None},
         checkToolPermission(request, tool, permission, later)
  PROVE  checkToolPermission(request, tool, permission, now)
<1>1. ASSUME Expired(permission, now) PROVE Expired(permission, later)
  <2>1. permission.expiresAt \in Int
    BY <1>1 DEF Expired
  <2> QED BY <1>1, <2>1 DEF Expired
<1> QED BY <1>1 DEF checkToolPermission
=============================================================================
