------------------------------ MODULE Accounts ------------------------------
(***************************************************************************)
(* User accounts of tenants: registerTenant and the OAuth registration of  *)
(* AuthService, and create, invite, acceptInvite, update and approve of    *)
(* UsersService, over the tables tenants, users, user_invitations and      *)
(* oauth_states.                                                           *)
(*                                                                         *)
(* An administrator's request passes the guards, reads, and writes by id;  *)
(* each query is a step and requests interleave between them.  Sessions    *)
(* models what update does to refresh tokens.                              *)
(***************************************************************************)
EXTENDS Naturals, FiniteSets

CONSTANTS
  Tenants,
  Users,         \* ids of rows of users
  Emails,
  Invites,       \* ids of rows of user_invitations
  Completions,   \* tokens to complete an OAuth registration
  Reqs,          \* HTTP requests in flight at one time
  NewStatuses    \* bound: statuses administrators set with update

Statuses ==
  {"ACTIVE", "INCOMPLETE", "PENDING", "BLOCKED", "INVITED", "DISABLED", "DELETED"}

\* MANAGER and OPERATOR do not differ here.
Roles == {"ADMIN", "OPERATOR"}

ASSUME ConstantsAssumption ==
  /\ IsFiniteSet(Users)
  /\ NewStatuses \subseteq Statuses
  /\ "none" \notin Tenants \cup Users \cup Emails \cup Invites \cup Completions

VARIABLES
  registered,    \* tenants
  user,          \* users
  invite,        \* user_invitations
  completion,    \* oauth_states of mode complete_registration
  req            \* HTTP requests in flight

vars == <<registered, user, invite, completion, req>>

\* from is history: the invitation the account was made from.
NoUser == [status |-> "none", email |-> "none", tenant |-> "none", role |-> "none",
           from |-> "none"]

NoInvite == [status |-> "none", tenant |-> "none", email |-> "none", role |-> "none"]

NoCompletion == [status |-> "none", user |-> "none"]

\* raced is history: an administrator of the tenant has lost the role or the
\* account since the request passed the guards.
IdleReq == [pc |-> "idle", tenant |-> "none", actor |-> "none", user |-> "none",
            email |-> "none", role |-> "none", status |-> "none", item |-> "none",
            atStake |-> FALSE, raced |-> FALSE]

Init ==
  /\ registered = {}
  /\ user = [u \in Users |-> NoUser]
  /\ invite = [i \in Invites |-> NoInvite]
  /\ completion = [c \in Completions |-> NoCompletion]
  /\ req = [r \in Reqs |-> IdleReq]

-----------------------------------------------------------------------------
(* Shared by the operations below *)

IsAdmin(u, t) ==
  user[u].tenant = t /\ user[u].role = "ADMIN" /\ user[u].status = "ACTIVE"

ActiveAdmins(t) == {u \in Users : IsAdmin(u, t)}

\* (tenantId, email) is unique in users.
Taken(t, e) == \E u \in Users : user[u].tenant = t /\ user[u].email = e

\* r has answered: it is over, and every request of a tenant that has lost an
\* administrator by it is raced.
Answered(r) ==
  [q \in Reqs |->
    IF q = r THEN IdleReq
    ELSE [req[q] EXCEPT !.raced = @ \/ \E t \in Tenants :
            t = req[q].tenant /\ ~ (ActiveAdmins(t) \subseteq ActiveAdmins(t)')]]

\* A row of users is inserted.
InsertUser(u, e, t, role, status, from) ==
  /\ user[u].status = "none"
  /\ user' = [user EXCEPT ![u] = [status |-> status, email |-> e, tenant |-> t,
                                  role |-> role, from |-> from]]

-----------------------------------------------------------------------------
(* AuthService.registerTenant *)

RegisterCheck(r, e) ==
  /\ req[r].pc = "idle"
  /\ \A u \in Users : user[u].email # e
  /\ req' = [req EXCEPT ![r] = [IdleReq EXCEPT !.pc = "register", !.email = e]]
  /\ UNCHANGED <<registered, user, invite, completion>>

\* One transaction makes the tenant and its first administrator.
RegisterTenant(r, t, u) ==
  /\ req[r].pc = "register"
  /\ t \notin registered
  /\ registered' = registered \cup {t}
  /\ InsertUser(u, req[r].email, t, "ADMIN", "ACTIVE", "none")
  /\ req' = Answered(r)
  /\ UNCHANGED <<invite, completion>>

-----------------------------------------------------------------------------
(* UsersService, for administrators *)

\* PrivateByDefaultGuard and RolesGuard: the actor is looked up anew.
Admit(r, a, t) ==
  /\ req[r].pc = "idle"
  /\ t \in registered
  /\ IsAdmin(a, t)
  /\ req' = [req EXCEPT ![r] = [IdleReq EXCEPT !.pc = "admitted", !.tenant = t,
                                               !.actor = a]]
  /\ UNCHANGED <<registered, user, invite, completion>>

\* create: a password makes the account ACTIVE at once, and a second
\* administrator takes one who still is.
CreateUser(r, e, role, status, u) ==
  /\ req[r].pc = "admitted"
  /\ status \in {"ACTIVE", "INVITED"}
  /\ role = "ADMIN" => IsAdmin(req[r].actor, req[r].tenant)
  /\ ~ Taken(req[r].tenant, e)
  /\ InsertUser(u, e, req[r].tenant, role, status, "none")
  /\ req' = Answered(r)
  /\ UNCHANGED <<registered, invite, completion>>

\* invite looks for an account that is not deleted ...
InviteCheck(r, e, role) ==
  /\ req[r].pc = "admitted"
  /\ \A u \in Users : user[u].tenant = req[r].tenant /\ user[u].email = e
                        => user[u].status = "DELETED"
  /\ req' = [req EXCEPT ![r].pc = "invite", ![r].email = e, ![r].role = role]
  /\ UNCHANGED <<registered, user, invite, completion>>

\* ... and renews the pending invitation of the e-mail, or makes one.
Invite(r, i) ==
  LET pending == {j \in Invites : /\ invite[j].status = "PENDING"
                                  /\ invite[j].tenant = req[r].tenant
                                  /\ invite[j].email = req[r].email}
  IN
  /\ req[r].pc = "invite"
  /\ IF pending # {} THEN i \in pending ELSE invite[i].status = "none"
  /\ invite' = [invite EXCEPT ![i] =
       [status |-> "PENDING", tenant |-> req[r].tenant, email |-> req[r].email,
        role |-> req[r].role]]
  /\ req' = [req EXCEPT ![r] = IdleReq]
  /\ UNCHANGED <<registered, user, completion>>

\* update reads the target; the input names a role, a status, both or neither
\* ("none").  Whether the last administrator is at stake is decided on this row.
UpdateRead(r, u, role, status) ==
  LET atStake == /\ IsAdmin(u, req[r].tenant)
                 /\ role = "OPERATOR" \/ status \notin {"none", "ACTIVE"}
  IN
  /\ req[r].pc = "admitted"
  /\ user[u].tenant = req[r].tenant
  /\ req' = [req EXCEPT ![r] = [@ EXCEPT
       !.pc = IF role = "ADMIN" THEN "actor" ELSE IF atStake THEN "count" ELSE "write",
       !.user = u, !.role = role, !.status = status, !.atStake = atStake]]
  /\ UNCHANGED <<registered, user, invite, completion>>

\* assertActorIsAdmin, for a promotion to ADMIN.
AssertActorIsAdmin(r) ==
  /\ req[r].pc = "actor"
  /\ IsAdmin(req[r].actor, req[r].tenant)
  /\ req' = [req EXCEPT ![r].pc = IF req[r].atStake THEN "count" ELSE "write"]
  /\ UNCHANGED <<registered, user, invite, completion>>

\* Faulty variant: one administrator is enough.
AssertLastAdminSafeOff(r) ==
  /\ req[r].pc = "count"
  /\ Cardinality(ActiveAdmins(req[r].tenant)) >= 1
  /\ req' = [req EXCEPT ![r].pc = "write"]
  /\ UNCHANGED <<registered, user, invite, completion>>

AssertLastAdminSafe(r) ==
  /\ req[r].pc = "count"
  /\ Cardinality(ActiveAdmins(req[r].tenant)) > 1
  /\ req' = [req EXCEPT ![r].pc = "write"]
  /\ UNCHANGED <<registered, user, invite, completion>>

\* The update itself, by id.
UpdateWrite(r) ==
  LET u == req[r].user IN
  /\ req[r].pc = "write"
  /\ user' = [user EXCEPT ![u] = [@ EXCEPT
       !.role = IF req[r].role = "none" THEN user[u].role ELSE req[r].role,
       !.status = IF req[r].status = "none" THEN user[u].status ELSE req[r].status]]
  /\ req' = Answered(r)
  /\ UNCHANGED <<registered, invite, completion>>

\* approve reads the target ...
ApproveRead(r, u, role) ==
  /\ req[r].pc = "admitted"
  /\ user[u].tenant = req[r].tenant
  /\ user[u].status \in {"PENDING", "INVITED"}
  /\ req' = [req EXCEPT ![r] = [@ EXCEPT !.pc = "approve", !.user = u, !.role = role]]
  /\ UNCHANGED <<registered, user, invite, completion>>

\* ... and activates it by id.
ApproveWrite(r) ==
  /\ req[r].pc = "approve"
  /\ user' = [user EXCEPT ![req[r].user] = [@ EXCEPT
       !.role = req[r].role, !.status = "ACTIVE"]]
  /\ req' = Answered(r)
  /\ UNCHANGED <<registered, invite, completion>>

-----------------------------------------------------------------------------
(* UsersService.acceptInvite *)

AcceptRead(r, i) ==
  /\ req[r].pc = "idle"
  /\ invite[i].status = "PENDING"
  /\ req' = [req EXCEPT ![r] = [IdleReq EXCEPT
       !.pc = "accept", !.tenant = invite[i].tenant, !.email = invite[i].email,
       !.role = invite[i].role, !.item = i]]
  /\ UNCHANGED <<registered, user, invite, completion>>

\* Faulty variant: e-mails are not unique within a tenant.
AcceptWriteTwice(r, u) ==
  /\ req[r].pc = "accept"
  /\ InsertUser(u, req[r].email, req[r].tenant, req[r].role, "ACTIVE", req[r].item)
  /\ invite' = [invite EXCEPT ![req[r].item].status = "ACCEPTED"]
  /\ req' = Answered(r)
  /\ UNCHANGED <<registered, completion>>

\* One transaction inserts the account and marks the invitation read before.
\* Both tables have a unique key in the way.
AcceptWrite(r, u) ==
  LET i == req[r].item IN
  /\ req[r].pc = "accept"
  /\ ~ Taken(req[r].tenant, req[r].email)
  /\ \A j \in Invites \ {i} :
       invite[j].status = "ACCEPTED" /\ invite[j].tenant = req[r].tenant
         => invite[j].email # req[r].email
  /\ InsertUser(u, req[r].email, req[r].tenant, req[r].role, "ACTIVE", i)
  /\ invite' = [invite EXCEPT ![i].status = "ACCEPTED"]
  /\ req' = Answered(r)
  /\ UNCHANGED <<registered, completion>>

-----------------------------------------------------------------------------
(* OAuth registration of AuthService *)

\* createIncompleteOAuthUser looks for the e-mail in every tenant ...
OAuthCheck(r, e) ==
  /\ req[r].pc = "idle"
  /\ \A u \in Users : user[u].email = e => user[u].status = "DELETED"
  /\ req' = [req EXCEPT ![r] = [IdleReq EXCEPT !.pc = "oauth", !.email = e]]
  /\ UNCHANGED <<registered, user, invite, completion>>

\* ... and inserts an account without a tenant, and a completion token for it.
OAuthCreate(r, u, c) ==
  /\ req[r].pc = "oauth"
  /\ completion[c].status = "none"
  /\ InsertUser(u, req[r].email, "none", "OPERATOR", "INCOMPLETE", "none")
  /\ completion' = [completion EXCEPT ![c] = [status |-> "unused", user |-> u]]
  /\ req' = Answered(r)
  /\ UNCHANGED <<registered, invite>>

\* blockNonActiveLogin hands an INCOMPLETE account that logs in a further token.
\* Nobody has the token before the answer, so its insert is no step of its own.
CompletionToken(u, c) ==
  /\ user[u].status = "INCOMPLETE"
  /\ completion[c].status = "none"
  /\ completion' = [completion EXCEPT ![c] = [status |-> "unused", user |-> u]]
  /\ UNCHANGED <<registered, user, invite, req>>

\* completeOAuthRegistration reads the token and the tenant it is sent ...
CompleteRead(r, c, t) ==
  /\ req[r].pc = "idle"
  /\ completion[c].status = "unused"
  /\ t \in registered
  /\ req' = [req EXCEPT ![r] = [IdleReq EXCEPT
       !.pc = "complete", !.tenant = t, !.user = completion[c].user, !.item = c]]
  /\ UNCHANGED <<registered, user, invite, completion>>

\* ... and moves the account there, to wait for approval.
CompleteWrite(r) ==
  LET u == req[r].user IN
  /\ req[r].pc = "complete"
  /\ user[u].tenant # req[r].tenant => ~ Taken(req[r].tenant, user[u].email)
  /\ user' = [user EXCEPT ![u] = [@ EXCEPT
       !.tenant = req[r].tenant, !.role = "OPERATOR", !.status = "PENDING"]]
  /\ completion' = [completion EXCEPT ![req[r].item].status = "used"]
  /\ req' = Answered(r)
  /\ UNCHANGED <<registered, invite>>

-----------------------------------------------------------------------------
\* A check fails, a unique key is broken or a query fails: nothing is written.
Reject(r) ==
  /\ req[r].pc # "idle"
  /\ req' = [req EXCEPT ![r] = IdleReq]
  /\ UNCHANGED <<registered, user, invite, completion>>

Administrate(r) ==
  \/ \E a \in Users, t \in Tenants : Admit(r, a, t)
  \/ \E e \in Emails, role \in Roles, status \in Statuses, u \in Users :
       CreateUser(r, e, role, status, u)
  \/ \E e \in Emails, role \in Roles : InviteCheck(r, e, role)
  \/ \E i \in Invites : Invite(r, i)
  \/ \E u \in Users, role \in Roles \cup {"none"}, status \in NewStatuses \cup {"none"} :
       UpdateRead(r, u, role, status)
  \/ AssertActorIsAdmin(r)
  \/ AssertLastAdminSafe(r)
  \/ UpdateWrite(r)
  \/ \E u \in Users, role \in Roles : ApproveRead(r, u, role)
  \/ ApproveWrite(r)

Enrol(r) ==
  \/ \E e \in Emails : RegisterCheck(r, e) \/ OAuthCheck(r, e)
  \/ \E t \in Tenants, u \in Users : RegisterTenant(r, t, u)
  \/ \E i \in Invites : AcceptRead(r, i)
  \/ \E u \in Users : AcceptWrite(r, u)
  \/ \E u \in Users, c \in Completions : OAuthCreate(r, u, c)
  \/ \E c \in Completions, t \in Tenants : CompleteRead(r, c, t)
  \/ CompleteWrite(r)

Next ==
  \/ \E r \in Reqs : Administrate(r) \/ Enrol(r) \/ Reject(r)
  \/ \E u \in Users, c \in Completions : CompletionToken(u, c)

Spec == Init /\ [][Next]_vars

-----------------------------------------------------------------------------
(* Properties *)

\* An update that demotes, disables or deletes an administrator leaves the
\* tenant another active one, unless an administrator was lost to a request
\* that overlapped it: assertLastAdminSafe, decided on a row read earlier and a
\* count, is enough when nothing overlaps.
UpdateKeepsAnAdmin ==
  [][\A r \in Reqs, t \in registered :
       /\ req[r].pc = "write" /\ req[r].tenant = t /\ ~ req[r].raced
       /\ req'[r].pc = "idle" /\ user' # user
       => ActiveAdmins(t)' # {}]_vars

\* An invitation makes one account, although acceptInvite checks that it is
\* PENDING long before it writes: (tenantId, email) is unique in users. Only an
\* account that an administrator has set back to INCOMPLETE and that has then
\* completed a registration, in another tenant, leaves room for a second one.
InvitationMakesOneUser ==
  \A u, v \in Users :
    /\ u # v
    /\ user[u].from # "none" /\ user[u].from = user[v].from
    => \E c \in Completions : completion[c].status = "used" /\ completion[c].user \in {u, v}
=============================================================================
