--------------------------- MODULE AccountsProofs ---------------------------
(***************************************************************************)
(* Theorems about Accounts, for every set of tenants, users, e-mails,      *)
(* invitations and requests.                                               *)
(***************************************************************************)
EXTENDS Accounts, FiniteSetTheorems, TLAPS

-----------------------------------------------------------------------------
(* Types *)

UserRow ==
  [status : Statuses \cup {"none"}, email : Emails \cup {"none"},
   tenant : Tenants \cup {"none"}, role : Roles \cup {"none"},
   from : Invites \cup {"none"}]

InviteRow ==
  {NoInvite}
    \cup [status : {"PENDING", "ACCEPTED"}, tenant : Tenants, email : Emails, role : Roles]

CompletionRow == {NoCompletion} \cup [status : {"unused", "used"}, user : Users]

\* The steps of an administrator's request, and of the others.
AdminPc == {"admitted", "invite", "actor", "count", "write", "approve"}
OtherPc == {"idle", "register", "accept", "oauth", "complete"}

ReqRow ==
  [pc : AdminPc \cup OtherPc, tenant : Tenants \cup {"none"},
   actor : Users \cup {"none"}, user : Users \cup {"none"},
   email : Emails \cup {"none"}, role : Roles \cup {"none"},
   status : NewStatuses \cup {"none"}, item : Invites \cup Completions \cup {"none"},
   atStake : BOOLEAN, raced : BOOLEAN]

TypeOK ==
  /\ registered \subseteq Tenants
  /\ user \in [Users -> UserRow]
  /\ invite \in [Invites -> InviteRow]
  /\ completion \in [Completions -> CompletionRow]
  /\ req \in [Reqs -> ReqRow]

-----------------------------------------------------------------------------
(* The invariant *)

\* What a request has read still names the rows it was read from: the fields
\* of an invitation are kept once it exists, and so is the user of a token.
Reads(q) ==
  /\ q.pc \in AdminPc \cup {"accept", "complete"} => q.tenant \in Tenants
  /\ q.pc \in AdminPc => q.actor \in Users
  /\ q.pc \in {"actor", "count", "write", "approve", "complete"} => q.user \in Users
  /\ q.pc \in {"register", "invite", "oauth", "accept"} => q.email \in Emails
  /\ q.pc \in {"invite", "approve", "accept"} => q.role \in Roles
  /\ q.pc = "accept" =>
       /\ q.item \in Invites /\ invite[q.item].status # "none"
       /\ q.tenant = invite[q.item].tenant /\ q.email = invite[q.item].email
  /\ q.pc = "complete" =>
       /\ q.item \in Completions /\ completion[q.item].status # "none"
       /\ q.user = completion[q.item].user

\* While no administrator of its tenant was lost, the actor of a request is one,
\* an update that was not found to endanger the last administrator takes nothing
\* from the actor, and one that was has counted two.
AdminsSeen(q) ==
  ~ q.raced =>
    /\ q.pc \in AdminPc => IsAdmin(q.actor, q.tenant)
    /\ q.pc \in {"actor", "count", "write"} /\ ~ q.atStake /\ q.user = q.actor
         => q.role # "OPERATOR" /\ q.status \in {"none", "ACTIVE"}
    /\ q.pc = "write" /\ q.atStake => Cardinality(ActiveAdmins(q.tenant)) > 1

\* An account that has completed a registration.
Moved(u) == \E c \in Completions : completion[c].status = "used" /\ completion[c].user = u

\* An account made from an invitation has its e-mail, and its tenant unless it
\* has moved since.
MadeFrom(u) ==
  user[u].from # "none" =>
    /\ user[u].status # "none"
    /\ invite[user[u].from].status = "ACCEPTED"
    /\ user[u].email = invite[user[u].from].email
    /\ Moved(u) \/ user[u].tenant = invite[user[u].from].tenant

AInv ==
  /\ TypeOK
  /\ \A r \in Reqs : Reads(req[r]) /\ AdminsSeen(req[r])
  /\ \A u \in Users : MadeFrom(u)

-----------------------------------------------------------------------------
(* Records *)

LEMMA IdleShape == IdleReq \in ReqRow /\ IdleReq.pc = "idle" /\ ~ IdleReq.raced
  BY DEF IdleReq, ReqRow, OtherPc

LEMMA IdleReads == Reads(IdleReq) /\ AdminsSeen(IdleReq)
  BY IdleShape DEF Reads, AdminsSeen, AdminPc

LEMMA UserShape ==
  ASSUME TypeOK, NEW u \in Users
  PROVE  /\ user[u].status \in Statuses \cup {"none"} /\ user[u].role \in Roles \cup {"none"}
         /\ user[u].email \in Emails \cup {"none"} /\ user[u].tenant \in Tenants \cup {"none"}
         /\ user[u].from \in Invites \cup {"none"}
  BY DEF TypeOK, UserRow

LEMMA ReqShape ==
  ASSUME TypeOK, NEW r \in Reqs
  PROVE  /\ req[r].pc \in AdminPc \cup OtherPc
         /\ req[r].tenant \in Tenants \cup {"none"}
         /\ req[r].status \in NewStatuses \cup {"none"} /\ req[r].role \in Roles \cup {"none"}
         /\ req[r].atStake \in BOOLEAN /\ req[r].raced \in BOOLEAN
  BY DEF TypeOK, ReqRow

LEMMA AdminsFinite ==
  ASSUME NEW t
  PROVE  IsFiniteSet(ActiveAdmins(t)) /\ Cardinality(ActiveAdmins(t)) \in Nat
  BY FS_Subset, FS_CardinalityType, ConstantsAssumption DEF ActiveAdmins

LEMMA RacedShape ==
  ASSUME NEW q \in ReqRow, NEW b \in BOOLEAN, NEW p, p = [q EXCEPT !.raced = b]
  PROVE  /\ p \in ReqRow /\ p.raced = b
         /\ p.pc = q.pc /\ p.tenant = q.tenant /\ p.actor = q.actor /\ p.user = q.user
         /\ p.email = q.email /\ p.role = q.role /\ p.status = q.status
         /\ p.item = q.item /\ p.atStake = q.atStake
  BY DEF ReqRow

\* An answer ends one request and may mark others as raced.
LEMMA AnsweredShape ==
  ASSUME TypeOK, NEW r \in Reqs, req' = Answered(r)
  PROVE  /\ req' \in [Reqs -> ReqRow] /\ req'[r] = IdleReq
         /\ \A q \in Reqs \ {r} :
              /\ req'[q].pc = req[q].pc /\ req'[q].tenant = req[q].tenant
              /\ req'[q].actor = req[q].actor /\ req'[q].user = req[q].user
              /\ req'[q].email = req[q].email /\ req'[q].role = req[q].role
              /\ req'[q].status = req[q].status /\ req'[q].item = req[q].item
              /\ req'[q].atStake = req[q].atStake
              /\ ~ req'[q].raced =>
                   /\ ~ req[q].raced
                   /\ \A t \in Tenants : t = req[q].tenant =>
                        ActiveAdmins(t) \subseteq ActiveAdmins(t)'
<1> DEFINE Lost(q) == req[q].raced \/ \E t \in Tenants :
                        t = req[q].tenant /\ ~ (ActiveAdmins(t) \subseteq ActiveAdmins(t)')
<1>1. \A q \in Reqs : Lost(q) \in BOOLEAN
  BY ReqShape, Zenon
<1>2. \A q \in Reqs : req'[q] = IF q = r THEN IdleReq ELSE [req[q] EXCEPT !.raced = Lost(q)]
  BY Zenon DEF Answered
<1>3. req' = [q \in Reqs |-> req'[q]]
  BY DEF Answered
<1>4. \A q \in Reqs : ~ Lost(q) =>
        /\ ~ req[q].raced
        /\ \A t \in Tenants : t = req[q].tenant => ActiveAdmins(t) \subseteq ActiveAdmins(t)'
  BY Zenon
<1> HIDE DEF Lost
<1>5. ASSUME NEW q \in Reqs \ {r}
      PROVE  /\ req'[q] \in ReqRow
             /\ req'[q].pc = req[q].pc /\ req'[q].tenant = req[q].tenant
             /\ req'[q].actor = req[q].actor /\ req'[q].user = req[q].user
             /\ req'[q].email = req[q].email /\ req'[q].role = req[q].role
             /\ req'[q].status = req[q].status /\ req'[q].item = req[q].item
             /\ req'[q].atStake = req[q].atStake /\ req'[q].raced = Lost(q)
  <2>1. req[q] \in ReqRow /\ Lost(q) \in BOOLEAN
    BY <1>1 DEF TypeOK
  <2>2. req'[q] = [req[q] EXCEPT !.raced = Lost(q)]
    BY <1>2
  <2> QED
    BY <2>1, <2>2, RacedShape
<1>6. req'[r] = IdleReq
  BY <1>2
<1>7. req' \in [Reqs -> ReqRow]
  BY <1>3, <1>5, <1>6, IdleShape
<1> QED
  BY <1>4, <1>5, <1>6, <1>7, Zenon

-----------------------------------------------------------------------------
(* The kinds of step *)

\* What a step does to invitations and tokens: rows that exist keep what was
\* read from them.
ItemsKept ==
  /\ invite' \in [Invites -> InviteRow]
  /\ \A i \in Invites : invite[i].status # "none" =>
       /\ invite'[i].status # "none"
       /\ invite'[i].tenant = invite[i].tenant /\ invite'[i].email = invite[i].email
       /\ invite[i].status = "ACCEPTED" => invite'[i].status = "ACCEPTED"
  /\ completion' \in [Completions -> CompletionRow]
  /\ \A c \in Completions : completion[c].status # "none" =>
       /\ completion'[c].status # "none" /\ completion'[c].user = completion[c].user
       /\ completion[c].status = "used" => completion'[c].status = "used"

LEMMA SameItems ==
  ASSUME TypeOK, UNCHANGED <<invite, completion>>
  PROVE  ItemsKept
  BY DEF TypeOK, ItemsKept

LEMMA ReadsKept ==
  ASSUME ItemsKept, NEW q, NEW p, Reads(q),
         p.pc = q.pc, p.tenant = q.tenant, p.actor = q.actor, p.user = q.user,
         p.email = q.email, p.role = q.role, p.item = q.item
  PROVE  Reads(p)'
  BY DEF Reads, ItemsKept

LEMMA MovedKept ==
  ASSUME ItemsKept, NEW u, Moved(u)
  PROVE  Moved(u)'
  BY DEF ItemsKept, Moved

\* An account keeps what MadeFrom says of it when it keeps its e-mail and
\* invitation and its tenant, or has moved.
LEMMA MadeKept ==
  ASSUME TypeOK, ItemsKept, NEW u \in Users, MadeFrom(u),
         user'[u].from = user[u].from, user'[u].email = user[u].email,
         user[u].status # "none" => user'[u].status # "none",
         Moved(u)' \/ user'[u].tenant = user[u].tenant
  PROVE  MadeFrom(u)'
<1> SUFFICES ASSUME user[u].from # "none"
             PROVE  MadeFrom(u)'
  BY DEF MadeFrom
<1>1. user[u].from \in Invites
  BY UserShape
<1>2. Moved(u) => Moved(u)'
  BY MovedKept
<1> QED
  BY <1>1, <1>2 DEF MadeFrom, ItemsKept

\* A request goes on with what it has read and the accounts are left alone.
LEMMA Advance ==
  ASSUME AInv, NEW r \in Reqs, NEW q \in ReqRow, req' = [req EXCEPT ![r] = q],
         UNCHANGED <<registered, user>>, ItemsKept, Reads(q)', AdminsSeen(q)
  PROVE  AInv'
<1>1. TypeOK'
  BY DEF AInv, TypeOK, ItemsKept
<1>2. \A s \in Reqs : req'[s] = IF s = r THEN q ELSE req[s]
  BY DEF AInv, TypeOK
<1>3. ASSUME NEW s \in Reqs
      PROVE  Reads(req[s])'
  <2>1. CASE s = r
    BY <1>2, <2>1 DEF Reads
  <2>2. CASE s # r
    BY <1>2, <2>2, ReadsKept DEF AInv, Reads
  <2> QED
    BY <2>1, <2>2
<1>4. ASSUME NEW s \in Reqs
      PROVE  AdminsSeen(req[s])'
  BY <1>2 DEF AInv, AdminsSeen, ActiveAdmins, IsAdmin
<1>5. ASSUME NEW u \in Users
      PROVE  MadeFrom(u)'
  BY MadeKept DEF AInv
<1> QED
  BY <1>1, <1>3, <1>4, <1>5 DEF AInv

\* A request answers, and the accounts may have changed.
LEMMA Answer ==
  ASSUME AInv, NEW r \in Reqs, req' = Answered(r), registered' \subseteq Tenants,
         user' \in [Users -> UserRow], ItemsKept, \A u \in Users : MadeFrom(u)'
  PROVE  AInv'
<1>0. TypeOK
  BY DEF AInv
<1>1. TypeOK'
  BY <1>0, AnsweredShape DEF TypeOK, ItemsKept
<1>2. ASSUME NEW s \in Reqs
      PROVE  Reads(req[s])' /\ AdminsSeen(req[s])'
  <2>1. CASE s = r
    <3>1. req'[s] = IdleReq
      BY <1>0, <2>1, AnsweredShape
    <3> QED
      BY <3>1, IdleShape DEF Reads, AdminsSeen, AdminPc
  <2>2. CASE s # r
    <3>1. PICK q, p : q = req[s] /\ p = req'[s]
      OBVIOUS
    <3>2. /\ p.pc = q.pc /\ p.tenant = q.tenant /\ p.actor = q.actor /\ p.user = q.user
          /\ p.email = q.email /\ p.role = q.role /\ p.status = q.status /\ p.item = q.item
          /\ p.atStake = q.atStake
      BY <1>0, <2>2, <3>1, AnsweredShape
    <3>3. Reads(q)
      BY <3>1 DEF AInv
    <3>4. Reads(p)'
      BY <3>2, <3>3, ReadsKept
    <3>5. Reads(req[s])'
      BY <3>1, <3>4
    <3>6. ASSUME ~ p.raced, p.pc \in AdminPc
          PROVE  /\ IsAdmin(p.actor, p.tenant)'
                 /\ p.pc \in {"actor", "count", "write"} /\ ~ p.atStake /\ p.user = p.actor
                      => p.role # "OPERATOR" /\ p.status \in {"none", "ACTIVE"}
                 /\ p.pc = "write" /\ p.atStake => Cardinality(ActiveAdmins(p.tenant))' > 1
      <4>1. q.tenant \in Tenants /\ q.actor \in Users
        BY <3>2, <3>3, <3>6 DEF Reads
      <4>2. ~ q.raced /\ ActiveAdmins(q.tenant) \subseteq ActiveAdmins(q.tenant)'
        BY <1>0, <2>2, <3>1, <3>6, <4>1, AnsweredShape
      <4>3. AdminsSeen(q)
        BY <3>1 DEF AInv
      <4>4. IsAdmin(q.actor, q.tenant)'
        BY <3>2, <3>6, <4>1, <4>2, <4>3 DEF AdminsSeen, ActiveAdmins
      <4>5. /\ Cardinality(ActiveAdmins(q.tenant)) <= Cardinality(ActiveAdmins(q.tenant)')
            /\ Cardinality(ActiveAdmins(q.tenant)) \in Nat
            /\ Cardinality(ActiveAdmins(q.tenant)') \in Nat
        BY <4>2, AdminsFinite, FS_Subset, FS_CardinalityType, ConstantsAssumption DEF ActiveAdmins
      <4>6. Cardinality(ActiveAdmins(q.tenant)) > 1 => Cardinality(ActiveAdmins(q.tenant)') > 1
        BY <4>5
      <4> QED
        BY <3>2, <3>6, <4>2, <4>3, <4>4, <4>6 DEF AdminsSeen
    <3>7. AdminsSeen(req[s])'
      BY <3>1, <3>6 DEF AdminsSeen, AdminPc
    <3> QED
      BY <3>5, <3>7
  <2> QED
    BY <2>1, <2>2
<1> QED
  BY <1>1, <1>2 DEF AInv

\* A row of users that did not exist is inserted.
LEMMA Inserted ==
  ASSUME AInv, NEW u \in Users, NEW e \in Emails, NEW t \in Tenants \cup {"none"},
         NEW role \in Roles, NEW status \in Statuses, NEW from \in Invites \cup {"none"},
         InsertUser(u, e, t, role, status, from), ItemsKept,
         from # "none" => /\ invite'[from].status = "ACCEPTED"
                          /\ e = invite'[from].email /\ t = invite'[from].tenant
  PROVE  /\ user' \in [Users -> UserRow]
         /\ \A v \in Users : MadeFrom(v)'
         /\ \A v \in Users : v # u => user'[v] = user[v]
         /\ user'[u].from = from
<1>0. PICK x : x = [status |-> status, email |-> e, tenant |-> t, role |-> role, from |-> from]
  OBVIOUS
<1>1. /\ x \in UserRow /\ x.status = status /\ x.email = e /\ x.tenant = t /\ x.from = from
      /\ status # "none"
  BY <1>0 DEF UserRow, Statuses
<1>2. user' = [user EXCEPT ![u] = x]
  BY <1>0 DEF InsertUser
<1>3. user' \in [Users -> UserRow] /\ user'[u] = x /\ \A v \in Users : v # u => user'[v] = user[v]
  BY <1>1, <1>2 DEF AInv, TypeOK
<1>4. MadeFrom(u)'
  BY <1>1, <1>3 DEF MadeFrom
<1>5. ASSUME NEW v \in Users, v # u
      PROVE  MadeFrom(v)'
  BY <1>3, <1>5, MadeKept DEF AInv
<1> QED
  BY <1>1, <1>3, <1>4, <1>5

\* A row of users is changed by id, and keeps its e-mail and its invitation.
LEMMA Changed ==
  ASSUME AInv, NEW u \in Users, NEW x \in UserRow, user' = [user EXCEPT ![u] = x], ItemsKept,
         x.from = user[u].from, x.email = user[u].email,
         user[u].status # "none" => x.status # "none",
         Moved(u)' \/ x.tenant = user[u].tenant
  PROVE  /\ user' \in [Users -> UserRow]
         /\ \A v \in Users : MadeFrom(v)'
<1>1. user' \in [Users -> UserRow] /\ user'[u] = x /\ \A v \in Users : v # u => user'[v] = user[v]
  BY DEF AInv, TypeOK
<1>2. ASSUME NEW v \in Users
      PROVE  MadeFrom(v)'
  <2>1. CASE v = u
    BY <1>1, <2>1, MadeKept DEF AInv
  <2>2. CASE v # u
    BY <1>1, <2>2, MadeKept DEF AInv
  <2> QED
    BY <2>1, <2>2
<1> QED
  BY <1>1, <1>2

-----------------------------------------------------------------------------
(* Administrators' requests *)

LEMMA AdmitStep ==
  ASSUME AInv, NEW r \in Reqs, NEW a \in Users, NEW t \in Tenants, Admit(r, a, t)
  PROVE  AInv'
<1>1. PICK q : q = [IdleReq EXCEPT !.pc = "admitted", !.tenant = t, !.actor = a]
  OBVIOUS
<1>2. q \in ReqRow /\ q.pc = "admitted" /\ q.tenant = t /\ q.actor = a
  BY <1>1 DEF IdleReq, ReqRow, AdminPc
<1>3. Reads(q)' /\ AdminsSeen(q)
  BY <1>2 DEF Admit, Reads, AdminsSeen
<1>4. req' = [req EXCEPT ![r] = q] /\ UNCHANGED <<registered, user>> /\ ItemsKept
  BY <1>1, SameItems DEF Admit, AInv
<1> QED
  BY <1>2, <1>3, <1>4, Advance

LEMMA InviteCheckStep ==
  ASSUME AInv, NEW r \in Reqs, NEW e \in Emails, NEW role \in Roles, InviteCheck(r, e, role)
  PROVE  AInv'
<1>1. PICK p, q : p = req[r] /\ q = [p EXCEPT !.pc = "invite", !.email = e, !.role = role]
  OBVIOUS
<1>2. /\ q \in ReqRow /\ q.pc = "invite" /\ q.tenant = p.tenant /\ q.actor = p.actor
      /\ q.email = e /\ q.role = role /\ q.raced = p.raced
  BY <1>1 DEF AInv, TypeOK, ReqRow, AdminPc
<1>3. Reads(p) /\ AdminsSeen(p) /\ p.pc = "admitted"
  BY <1>1 DEF AInv, InviteCheck
<1>4. Reads(q)' /\ AdminsSeen(q)
  BY <1>2, <1>3 DEF Reads, AdminsSeen, AdminPc
<1>5. UNCHANGED <<registered, user>> /\ ItemsKept
  BY SameItems DEF InviteCheck, AInv
<1>6. req' = [req EXCEPT ![r] = q]
  BY <1>1 DEF InviteCheck
<1> QED
  BY <1>2, <1>4, <1>5, <1>6, Advance

\* The pending invitation that is renewed has the tenant and the e-mail of the
\* request already, and a new one was read by nobody.
LEMMA InviteStep ==
  ASSUME AInv, NEW r \in Reqs, NEW i \in Invites, Invite(r, i)
  PROVE  AInv'
<1>1. PICK q : q = req[r]
  OBVIOUS
<1>2. Reads(q) /\ q.pc = "invite"
  BY <1>1 DEF AInv, Invite
<1>3. q.tenant \in Tenants /\ q.email \in Emails /\ q.role \in Roles
  BY <1>2 DEF Reads, AdminPc
<1>4. PICK x : x = [status |-> "PENDING", tenant |-> q.tenant, email |-> q.email, role |-> q.role]
  OBVIOUS
<1>5. x \in InviteRow /\ x.status = "PENDING" /\ x.tenant = q.tenant /\ x.email = q.email
  BY <1>3, <1>4 DEF InviteRow
<1>6. invite' = [invite EXCEPT ![i] = x] /\ UNCHANGED <<registered, user, completion>>
  BY <1>1, <1>4 DEF Invite
<1>7. \/ invite[i].status = "none"
      \/ invite[i].status = "PENDING" /\ invite[i].tenant = q.tenant /\ invite[i].email = q.email
  BY <1>1 DEF Invite
<1>8. ItemsKept
  BY <1>5, <1>6, <1>7 DEF AInv, TypeOK, ItemsKept
<1>9. req' = [req EXCEPT ![r] = IdleReq]
  BY DEF Invite
<1>10. Reads(IdleReq)' /\ AdminsSeen(IdleReq)
  BY IdleShape DEF Reads, AdminsSeen, AdminPc
<1> QED
  BY <1>6, <1>8, <1>9, <1>10, IdleShape, Advance

\* The status and the role an update writes keep the actor who is its own
\* target an administrator, unless update goes on to count them.
LEMMA UpdateReadStep ==
  ASSUME AInv, NEW r \in Reqs, NEW u \in Users, NEW role \in Roles \cup {"none"},
         NEW status \in NewStatuses \cup {"none"}, UpdateRead(r, u, role, status)
  PROVE  AInv'
<1>1. PICK p, b, pc : /\ p = req[r]
                      /\ b = (/\ IsAdmin(u, p.tenant)
                              /\ role = "OPERATOR" \/ status \notin {"none", "ACTIVE"})
                      /\ pc = IF role = "ADMIN" THEN "actor" ELSE IF b THEN "count" ELSE "write"
  OBVIOUS
<1>2. PICK q : q = [p EXCEPT !.pc = pc, !.user = u, !.role = role, !.status = status, !.atStake = b]
  OBVIOUS
<1>3. b \in BOOLEAN
  BY <1>1, Zenon
<1>4. pc \in {"actor", "count", "write"} /\ (b => pc # "write")
  BY <1>1
<1>5. p \in ReqRow /\ pc \in AdminPc
  BY <1>1, <1>4 DEF AInv, TypeOK, AdminPc
<1>6. /\ q \in ReqRow /\ q.pc = pc /\ q.tenant = p.tenant /\ q.actor = p.actor
      /\ q.user = u /\ q.role = role /\ q.status = status /\ q.atStake = b /\ q.raced = p.raced
  BY <1>2, <1>3, <1>5 DEF ReqRow
<1>7. Reads(p) /\ AdminsSeen(p) /\ p.pc = "admitted"
  BY <1>1 DEF AInv, UpdateRead
<1>8. Reads(q)'
  BY <1>4, <1>6, <1>7 DEF Reads, AdminPc
<1>9. AdminsSeen(q)
  <2> SUFFICES ASSUME ~ p.raced
               PROVE  AdminsSeen(q)
    BY <1>6 DEF AdminsSeen
  <2>1. IsAdmin(p.actor, p.tenant)
    BY <1>7 DEF AdminsSeen, AdminPc
  <2>2. ~ b /\ u = p.actor => role # "OPERATOR" /\ status \in {"none", "ACTIVE"}
    BY <1>1, <2>1
  <2> QED
    BY <1>4, <1>6, <2>1, <2>2 DEF AdminsSeen
<1>10. UNCHANGED <<registered, user>> /\ ItemsKept
  BY SameItems DEF UpdateRead, AInv
<1>11. req' = [req EXCEPT ![r] = q]
  BY <1>1, <1>2 DEF UpdateRead
<1> QED
  BY <1>6, <1>8, <1>9, <1>10, <1>11, Advance

LEMMA AssertStep ==
  ASSUME AInv, NEW r \in Reqs, AssertActorIsAdmin(r) \/ AssertLastAdminSafe(r)
  PROVE  AInv'
<1>1. PICK p, pc : /\ p = req[r] /\ pc \in {"count", "write"}
                   /\ req' = [req EXCEPT ![r].pc = pc]
                   /\ p.pc \in {"actor", "count"}
                   /\ pc = "write" /\ p.atStake => Cardinality(ActiveAdmins(p.tenant)) > 1
  BY DEF AssertActorIsAdmin, AssertLastAdminSafe
<1>2. PICK q : q = [p EXCEPT !.pc = pc]
  OBVIOUS
<1>3. /\ q \in ReqRow /\ q.pc = pc /\ q.tenant = p.tenant /\ q.actor = p.actor
      /\ q.user = p.user /\ q.role = p.role /\ q.status = p.status /\ q.atStake = p.atStake
      /\ q.raced = p.raced
  BY <1>1, <1>2 DEF AInv, TypeOK, ReqRow, AdminPc
<1>4. Reads(p) /\ AdminsSeen(p)
  BY <1>1 DEF AInv
<1>5. Reads(q)' /\ AdminsSeen(q)
  BY <1>1, <1>3, <1>4 DEF Reads, AdminsSeen, AdminPc
<1>6. UNCHANGED <<registered, user>> /\ ItemsKept
  BY SameItems DEF AssertActorIsAdmin, AssertLastAdminSafe, AInv
<1>7. req' = [req EXCEPT ![r] = q]
  BY <1>1, <1>2
<1> QED
  BY <1>3, <1>5, <1>6, <1>7, Advance

LEMMA ApproveReadStep ==
  ASSUME AInv, NEW r \in Reqs, NEW u \in Users, NEW role \in Roles, ApproveRead(r, u, role)
  PROVE  AInv'
<1>1. PICK p, q : p = req[r] /\ q = [p EXCEPT !.pc = "approve", !.user = u, !.role = role]
  OBVIOUS
<1>2. /\ q \in ReqRow /\ q.pc = "approve" /\ q.tenant = p.tenant /\ q.actor = p.actor
      /\ q.user = u /\ q.role = role /\ q.raced = p.raced
  BY <1>1 DEF AInv, TypeOK, ReqRow, AdminPc
<1>3. Reads(p) /\ AdminsSeen(p) /\ p.pc = "admitted"
  BY <1>1 DEF AInv, ApproveRead
<1>4. Reads(q)' /\ AdminsSeen(q)
  BY <1>2, <1>3 DEF Reads, AdminsSeen, AdminPc
<1>5. UNCHANGED <<registered, user>> /\ ItemsKept
  BY SameItems DEF ApproveRead, AInv
<1>6. req' = [req EXCEPT ![r] = q]
  BY <1>1 DEF ApproveRead
<1> QED
  BY <1>2, <1>4, <1>5, <1>6, Advance

LEMMA CreateUserStep ==
  ASSUME AInv, NEW r \in Reqs, NEW e \in Emails, NEW role \in Roles, NEW status \in Statuses,
         NEW u \in Users, CreateUser(r, e, role, status, u)
  PROVE  AInv'
<1>1. req[r].tenant \in Tenants
  BY DEF AInv, Reads, CreateUser, AdminPc
<1>2. ItemsKept /\ registered' \subseteq Tenants
  BY SameItems DEF AInv, TypeOK, CreateUser
<1>3. user' \in [Users -> UserRow] /\ \A v \in Users : MadeFrom(v)'
  BY <1>1, <1>2, Inserted DEF CreateUser
<1> QED
  BY <1>2, <1>3, Answer DEF CreateUser

LEMMA UpdateWriteStep ==
  ASSUME AInv, NEW r \in Reqs, UpdateWrite(r) \/ ApproveWrite(r)
  PROVE  AInv'
<1>1. PICK u : u = req[r].user
  OBVIOUS
<1>2. u \in Users
  BY <1>1 DEF AInv, Reads, UpdateWrite, ApproveWrite
<1>3. PICK x : x = user[u]
  OBVIOUS
<1>4. x \in UserRow
  BY <1>2, <1>3 DEF AInv, TypeOK
<1>5. PICK role \in Roles \cup {"none"}, status \in Statuses \cup {"none"} :
        /\ x.status # "none" => status # "none"
        /\ user' = [user EXCEPT ![u] = [x EXCEPT !.role = role, !.status = status]]
  <2>1. CASE UpdateWrite(r)
    <3>1. /\ req[r].role \in Roles \cup {"none"} /\ x.role \in Roles \cup {"none"}
          /\ req[r].status \in Statuses \cup {"none"} /\ x.status \in Statuses \cup {"none"}
      BY <1>4, ReqShape, ConstantsAssumption DEF AInv, UserRow
    <3>2. PICK role, status :
            /\ role = IF req[r].role = "none" THEN x.role ELSE req[r].role
            /\ status = IF req[r].status = "none" THEN x.status ELSE req[r].status
      OBVIOUS
    <3>3. user' = [user EXCEPT ![u] = [x EXCEPT !.role = role, !.status = status]]
      BY <1>1, <1>3, <2>1, <3>2 DEF UpdateWrite
    <3>4. /\ role \in Roles \cup {"none"} /\ status \in Statuses \cup {"none"}
          /\ x.status # "none" => status # "none"
      BY <3>1, <3>2
    <3> QED
      BY <3>3, <3>4
  <2>2. CASE ApproveWrite(r)
    <3>1. req[r].role \in Roles /\ "ACTIVE" \in Statuses
      BY <2>2 DEF AInv, Reads, ApproveWrite, Statuses
    <3>2. user' = [user EXCEPT ![u] = [x EXCEPT !.role = req[r].role, !.status = "ACTIVE"]]
      BY <1>1, <1>3, <2>2 DEF ApproveWrite
    <3> QED
      BY <3>1, <3>2
  <2> QED
    BY <2>1, <2>2
<1>6. PICK y : y = [x EXCEPT !.role = role, !.status = status]
  OBVIOUS
<1>7. /\ y \in UserRow /\ y.from = x.from /\ y.email = x.email /\ y.tenant = x.tenant
      /\ y.status = status
  BY <1>4, <1>6 DEF UserRow
<1>8. ItemsKept /\ registered' \subseteq Tenants
  BY SameItems DEF AInv, TypeOK, UpdateWrite, ApproveWrite
<1>9. user' \in [Users -> UserRow] /\ \A v \in Users : MadeFrom(v)'
  BY <1>2, <1>3, <1>5, <1>6, <1>7, <1>8, Changed
<1> QED
  BY <1>8, <1>9, Answer DEF UpdateWrite, ApproveWrite

-----------------------------------------------------------------------------
(* Registration and invitations *)

LEMMA CheckStep ==
  ASSUME AInv, NEW r \in Reqs, NEW e \in Emails, RegisterCheck(r, e) \/ OAuthCheck(r, e)
  PROVE  AInv'
<1>1. PICK pc \in {"register", "oauth"} :
        req' = [req EXCEPT ![r] = [IdleReq EXCEPT !.pc = pc, !.email = e]]
  BY DEF RegisterCheck, OAuthCheck
<1>2. PICK q : q = [IdleReq EXCEPT !.pc = pc, !.email = e]
  OBVIOUS
<1>3. q \in ReqRow /\ q.pc = pc /\ q.email = e
  BY <1>2 DEF IdleReq, ReqRow, OtherPc
<1>4. Reads(q)' /\ AdminsSeen(q)
  BY <1>3 DEF Reads, AdminsSeen, AdminPc
<1>5. UNCHANGED <<registered, user>> /\ ItemsKept
  BY SameItems DEF RegisterCheck, OAuthCheck, AInv
<1>6. req' = [req EXCEPT ![r] = q]
  BY <1>1, <1>2
<1> QED
  BY <1>3, <1>4, <1>5, <1>6, Advance

LEMMA RegisterTenantStep ==
  ASSUME AInv, NEW r \in Reqs, NEW t \in Tenants, NEW u \in Users, RegisterTenant(r, t, u)
  PROVE  AInv'
<1>1. req[r].email \in Emails
  BY DEF AInv, Reads, RegisterTenant
<1>2. ItemsKept /\ registered' \subseteq Tenants
  BY SameItems DEF AInv, TypeOK, RegisterTenant
<1>3. user' \in [Users -> UserRow] /\ \A v \in Users : MadeFrom(v)'
  BY <1>1, <1>2, Inserted DEF RegisterTenant, Roles, Statuses
<1> QED
  BY <1>2, <1>3, Answer DEF RegisterTenant

LEMMA AcceptReadStep ==
  ASSUME AInv, NEW r \in Reqs, NEW i \in Invites, AcceptRead(r, i)
  PROVE  AInv'
<1>0. invite[i].tenant \in Tenants /\ invite[i].email \in Emails /\ invite[i].role \in Roles
  BY DEF AInv, TypeOK, InviteRow, NoInvite, AcceptRead
<1>1. PICK x, q : /\ x = invite[i]
                  /\ q = [IdleReq EXCEPT !.pc = "accept", !.tenant = x.tenant, !.email = x.email,
                                         !.role = x.role, !.item = i]
  OBVIOUS
<1>2. /\ q \in ReqRow /\ q.pc = "accept" /\ q.tenant = x.tenant /\ q.email = x.email
      /\ q.role = x.role /\ q.item = i
  BY <1>0, <1>1 DEF IdleReq, ReqRow, OtherPc
<1>3. UNCHANGED <<registered, user, invite, completion>> /\ ItemsKept
  BY SameItems DEF AcceptRead, AInv
<1>4. Reads(q)' /\ AdminsSeen(q)
  BY <1>0, <1>1, <1>2, <1>3 DEF Reads, AdminsSeen, AdminPc, AcceptRead
<1>5. req' = [req EXCEPT ![r] = q]
  BY <1>1 DEF AcceptRead
<1> QED
  BY <1>2, <1>3, <1>4, <1>5, Advance

\* Accepting an invitation changes its status and nothing else of it.
LEMMA AcceptItems ==
  ASSUME AInv, NEW i \in Invites, invite[i].status # "none",
         invite' = [invite EXCEPT ![i].status = "ACCEPTED"], UNCHANGED completion
  PROVE  /\ ItemsKept /\ invite'[i].status = "ACCEPTED"
         /\ invite'[i].email = invite[i].email /\ invite'[i].tenant = invite[i].tenant
<1>1. PICK x : x = [invite[i] EXCEPT !.status = "ACCEPTED"]
  OBVIOUS
<1>2. /\ x \in InviteRow /\ x.status = "ACCEPTED"
      /\ x.email = invite[i].email /\ x.tenant = invite[i].tenant
  BY <1>1 DEF AInv, TypeOK, InviteRow, NoInvite
<1>3. invite' = [invite EXCEPT ![i] = x]
  BY <1>1
<1> QED
  BY <1>2, <1>3 DEF AInv, TypeOK, ItemsKept

LEMMA AcceptMakes ==
  ASSUME AInv, NEW r \in Reqs, NEW u \in Users, AcceptWrite(r, u)
  PROVE  /\ req[r].item \in Invites /\ ItemsKept
         /\ user' \in [Users -> UserRow] /\ \A v \in Users : MadeFrom(v)'
         /\ \A v \in Users : v # u => user'[v] = user[v]
         /\ user'[u].from = req[r].item
<1>1. PICK i, e, t, role : /\ i = req[r].item /\ e = req[r].email /\ t = req[r].tenant
                           /\ role = req[r].role
  OBVIOUS
<1>2. /\ i \in Invites /\ e \in Emails /\ t \in Tenants /\ role \in Roles
      /\ e = invite[i].email /\ t = invite[i].tenant /\ invite[i].status # "none"
  BY <1>1 DEF AInv, Reads, AcceptWrite
<1>3. /\ ItemsKept /\ invite'[i].status = "ACCEPTED"
      /\ invite'[i].email = e /\ invite'[i].tenant = t
  BY <1>1, <1>2, AcceptItems DEF AcceptWrite
<1>4. InsertUser(u, e, t, role, "ACTIVE", i) /\ "ACTIVE" \in Statuses
  BY <1>1 DEF AcceptWrite, Statuses
<1> QED
  BY <1>1, <1>2, <1>3, <1>4, Inserted

LEMMA AcceptWriteStep ==
  ASSUME AInv, NEW r \in Reqs, NEW u \in Users, AcceptWrite(r, u)
  PROVE  AInv'
<1>1. registered' \subseteq Tenants
  BY DEF AInv, TypeOK, AcceptWrite
<1> QED
  BY <1>1, AcceptMakes, Answer DEF AcceptWrite

-----------------------------------------------------------------------------
(* OAuth registration *)

LEMMA TokenItems ==
  ASSUME AInv, NEW u \in Users, NEW c \in Completions, completion[c].status = "none",
         completion' = [completion EXCEPT ![c] = [status |-> "unused", user |-> u]],
         UNCHANGED invite
  PROVE  ItemsKept
<1>1. PICK x : x = [status |-> "unused", user |-> u]
  OBVIOUS
<1>2. x \in CompletionRow
  BY <1>1 DEF CompletionRow
<1> QED
  BY <1>1, <1>2 DEF AInv, TypeOK, ItemsKept

LEMMA OAuthCreateStep ==
  ASSUME AInv, NEW r \in Reqs, NEW u \in Users, NEW c \in Completions, OAuthCreate(r, u, c)
  PROVE  AInv'
<1>1. req[r].email \in Emails
  BY DEF AInv, Reads, OAuthCreate
<1>2. ItemsKept /\ registered' \subseteq Tenants
  BY TokenItems DEF AInv, TypeOK, OAuthCreate
<1>3. user' \in [Users -> UserRow] /\ \A v \in Users : MadeFrom(v)'
  BY <1>1, <1>2, Inserted DEF OAuthCreate, Roles, Statuses
<1> QED
  BY <1>2, <1>3, Answer DEF OAuthCreate

LEMMA CompletionTokenStep ==
  ASSUME AInv, NEW u \in Users, NEW c \in Completions, CompletionToken(u, c)
  PROVE  AInv'
<1>1. ItemsKept /\ UNCHANGED <<registered, user, req>>
  BY TokenItems DEF CompletionToken
<1>2. TypeOK'
  BY <1>1 DEF AInv, TypeOK, ItemsKept
<1>3. ASSUME NEW r \in Reqs
      PROVE  Reads(req[r])' /\ AdminsSeen(req[r])'
  <2>1. Reads(req[r])'
    BY <1>1, ReadsKept DEF AInv, Reads
  <2>2. AdminsSeen(req[r])'
    BY <1>1 DEF AInv, AdminsSeen, ActiveAdmins, IsAdmin
  <2> QED
    BY <2>1, <2>2
<1>4. \A v \in Users : MadeFrom(v)'
  BY <1>1, MadeKept DEF AInv
<1> QED
  BY <1>2, <1>3, <1>4 DEF AInv

LEMMA CompleteReadStep ==
  ASSUME AInv, NEW r \in Reqs, NEW c \in Completions, NEW t \in Tenants,
         CompleteRead(r, c, t)
  PROVE  AInv'
<1>0. completion[c].user \in Users
  BY DEF AInv, TypeOK, CompletionRow, NoCompletion, CompleteRead
<1>1. PICK u, q : /\ u = completion[c].user
                  /\ q = [IdleReq EXCEPT !.pc = "complete", !.tenant = t, !.user = u, !.item = c]
  OBVIOUS
<1>2. q \in ReqRow /\ q.pc = "complete" /\ q.tenant = t /\ q.user = u /\ q.item = c
  BY <1>0, <1>1 DEF IdleReq, ReqRow, OtherPc
<1>3. UNCHANGED <<registered, user, invite, completion>> /\ ItemsKept
  BY SameItems DEF CompleteRead, AInv
<1>4. Reads(q)' /\ AdminsSeen(q)
  BY <1>0, <1>1, <1>2, <1>3 DEF Reads, AdminsSeen, AdminPc, CompleteRead
<1>5. req' = [req EXCEPT ![r] = q]
  BY <1>1 DEF CompleteRead
<1> QED
  BY <1>2, <1>3, <1>4, <1>5, Advance

LEMMA CompleteWriteStep ==
  ASSUME AInv, NEW r \in Reqs, CompleteWrite(r)
  PROVE  AInv'
<1>1. PICK u, t, c : u = req[r].user /\ t = req[r].tenant /\ c = req[r].item
  OBVIOUS
<1>2. /\ u \in Users /\ t \in Tenants /\ c \in Completions
      /\ completion[c].status # "none" /\ completion[c].user = u
  BY <1>1 DEF AInv, Reads, CompleteWrite
<1>3. PICK z : z = [completion[c] EXCEPT !.status = "used"]
  OBVIOUS
<1>4. z \in CompletionRow /\ z.status = "used" /\ z.user = u
  BY <1>2, <1>3 DEF AInv, TypeOK, CompletionRow, NoCompletion
<1>5. completion' = [completion EXCEPT ![c] = z] /\ UNCHANGED invite
  BY <1>1, <1>3 DEF CompleteWrite
<1>6. ItemsKept /\ Moved(u)'
  BY <1>2, <1>4, <1>5 DEF AInv, TypeOK, ItemsKept, Moved
<1>7. PICK x, y : x = user[u] /\ y = [x EXCEPT !.tenant = t, !.role = "OPERATOR", !.status = "PENDING"]
  OBVIOUS
<1>8. /\ y \in UserRow /\ y.from = x.from /\ y.email = x.email /\ y.status = "PENDING"
  BY <1>2, <1>7 DEF AInv, TypeOK, UserRow, Statuses, Roles
<1>9. user' = [user EXCEPT ![u] = y]
  BY <1>1, <1>7 DEF CompleteWrite
<1>10. user' \in [Users -> UserRow] /\ \A v \in Users : MadeFrom(v)'
  BY <1>2, <1>6, <1>7, <1>8, <1>9, Changed
<1>11. registered' \subseteq Tenants
  BY DEF AInv, TypeOK, CompleteWrite
<1> QED
  BY <1>6, <1>10, <1>11, Answer DEF CompleteWrite

-----------------------------------------------------------------------------
(* The theorems *)

LEMMA RejectStep ==
  ASSUME AInv, NEW r \in Reqs, Reject(r)
  PROVE  AInv'
<1>1. Reads(IdleReq)' /\ AdminsSeen(IdleReq)
  BY IdleShape DEF Reads, AdminsSeen, AdminPc
<1>2. ItemsKept
  BY SameItems DEF AInv, Reject
<1> QED
  BY <1>1, <1>2, IdleShape, Advance DEF Reject

LEMMA AInit == Init => AInv
<1> SUFFICES ASSUME Init PROVE AInv
  OBVIOUS
<1>1. TypeOK
  BY IdleShape DEF Init, TypeOK, UserRow, NoUser, InviteRow, CompletionRow
<1>2. \A r \in Reqs : Reads(req[r]) /\ AdminsSeen(req[r])
  BY IdleReads DEF Init
<1>3. \A u \in Users : MadeFrom(u)
  BY DEF Init, MadeFrom, NoUser
<1> QED
  BY <1>1, <1>2, <1>3 DEF AInv

LEMMA AStep == AInv /\ [Next]_vars => AInv'
<1> SUFFICES ASSUME AInv, [Next]_vars PROVE AInv'
  OBVIOUS
<1>1. ASSUME NEW r \in Reqs, Administrate(r)
      PROVE  AInv'
  BY <1>1, AdmitStep, CreateUserStep, InviteCheckStep, InviteStep, UpdateReadStep, AssertStep,
     UpdateWriteStep, ApproveReadStep DEF Administrate
<1>2. ASSUME NEW r \in Reqs, Enrol(r)
      PROVE  AInv'
  BY <1>2, CheckStep, RegisterTenantStep, AcceptReadStep, AcceptWriteStep, OAuthCreateStep,
     CompleteReadStep, CompleteWriteStep DEF Enrol
<1>3. CASE UNCHANGED vars
  <2>1. ItemsKept
    BY <1>3, SameItems DEF AInv, vars
  <2>2. \A u \in Users : MadeFrom(u)'
    BY <1>3, <2>1, MadeKept DEF AInv, vars
  <2>3. \A r \in Reqs : Reads(req[r])'
    BY <1>3, <2>1, ReadsKept DEF AInv, Reads, vars
  <2>4. \A r \in Reqs : AdminsSeen(req[r])'
    BY <1>3 DEF AInv, AdminsSeen, ActiveAdmins, IsAdmin, vars
  <2>5. TypeOK'
    BY <1>3 DEF AInv, TypeOK, vars
  <2> QED
    BY <2>2, <2>3, <2>4, <2>5 DEF AInv
<1> QED
  BY <1>1, <1>2, <1>3, RejectStep, CompletionTokenStep DEF Next

\* The rows of every table, and what the requests in flight have read of them,
\* have their types in every reachable state.
LEMMA AccountInvariant == Spec => []AInv
  BY AInit, AStep, PTL DEF Spec

LEMMA MovedStays ==
  ASSUME AInv, [Next]_vars, NEW u, Moved(u)
  PROVE  Moved(u)'
<1>1. CASE UNCHANGED completion
  BY <1>1 DEF Moved
<1>2. ASSUME NEW v \in Users, NEW c \in Completions, completion[c].status = "none",
             completion' = [completion EXCEPT ![c] = [status |-> "unused", user |-> v]]
      PROVE  Moved(u)'
  BY <1>2 DEF AInv, TypeOK, Moved
<1>3. ASSUME NEW r \in Reqs, CompleteWrite(r)
      PROVE  Moved(u)'
  <2>1. PICK d : d = req[r].item
    OBVIOUS
  <2>2. completion' = [completion EXCEPT ![d] = [completion[d] EXCEPT !.status = "used"]]
    BY <1>3, <2>1 DEF CompleteWrite
  <2>3. d \in Completions /\ completion[d].status # "none"
    BY <1>3, <2>1 DEF AInv, Reads, CompleteWrite
  <2>4. PICK z : z = [completion[d] EXCEPT !.status = "used"]
    OBVIOUS
  <2>5. z.status = "used" /\ z.user = completion[d].user
    BY <2>3, <2>4 DEF AInv, TypeOK, CompletionRow, NoCompletion
  <2> QED
    BY <2>2, <2>3, <2>4, <2>5 DEF AInv, TypeOK, Moved
<1>4. ASSUME NEW r \in Reqs, Administrate(r)
      PROVE  UNCHANGED completion
  BY <1>4, Zenon DEF Administrate, Admit, CreateUser, InviteCheck, Invite, UpdateRead, AssertActorIsAdmin,
     AssertLastAdminSafe, UpdateWrite, ApproveRead, ApproveWrite
<1>5. ASSUME NEW r \in Reqs, Enrol(r)
      PROVE  Moved(u)'
  <2>1. CASE \E v \in Users, c \in Completions : OAuthCreate(r, v, c)
    BY <1>2, <2>1 DEF OAuthCreate
  <2>2. CASE CompleteWrite(r)
    BY <1>3, <2>2
  <2>3. CASE \/ \E e \in Emails : RegisterCheck(r, e) \/ OAuthCheck(r, e)
             \/ \E t \in Tenants, v \in Users : RegisterTenant(r, t, v)
             \/ \E i \in Invites : AcceptRead(r, i)
             \/ \E v \in Users : AcceptWrite(r, v)
             \/ \E c \in Completions, t \in Tenants : CompleteRead(r, c, t)
    <3>1. UNCHANGED completion
      BY <2>3, Zenon DEF RegisterCheck, OAuthCheck, RegisterTenant, AcceptRead, AcceptWrite, CompleteRead
    <3> QED
      BY <1>1, <3>1
  <2> QED
    BY <1>5, <2>1, <2>2, <2>3 DEF Enrol
<1>6. ASSUME NEW r \in Reqs, Reject(r)
      PROVE  UNCHANGED completion
  BY <1>6 DEF Reject
<1>7. ASSUME NEW v \in Users, NEW c \in Completions, CompletionToken(v, c)
      PROVE  Moved(u)'
  BY <1>2, <1>7 DEF CompletionToken
<1> QED
  BY <1>1, <1>4, <1>5, <1>6, <1>7 DEF Next, vars

\* Only acceptInvite makes an account from an invitation.
LEMMA FromStays ==
  ASSUME AInv, [Next]_vars, ~ \E r \in Reqs, u \in Users : AcceptWrite(r, u)
  PROVE  \A u \in Users : user'[u].from \in {user[u].from, "none"}
<1>1. CASE UNCHANGED user
  BY <1>1
<1>2. ASSUME NEW u \in Users, NEW e, NEW t, NEW role, NEW status,
             InsertUser(u, e, t, role, status, "none")
      PROVE  \A v \in Users : user'[v].from \in {user[v].from, "none"}
  BY <1>2 DEF InsertUser, AInv, TypeOK
<1>3. ASSUME NEW u, NEW t, NEW role, NEW status,
             user' = [user EXCEPT ![u] = [user[u] EXCEPT !.tenant = t, !.role = role, !.status = status]]
      PROVE  \A v \in Users : user'[v].from \in {user[v].from, "none"}
  BY <1>3 DEF AInv, TypeOK, UserRow
<1>4. ASSUME NEW u, NEW role, NEW status,
             user' = [user EXCEPT ![u] = [user[u] EXCEPT !.role = role, !.status = status]]
      PROVE  \A v \in Users : user'[v].from \in {user[v].from, "none"}
  BY <1>4 DEF AInv, TypeOK, UserRow
<1>5. ASSUME NEW r \in Reqs, Administrate(r)
      PROVE  \A v \in Users : user'[v].from \in {user[v].from, "none"}
  <2>1. CASE \E e \in Emails, role \in Roles, status \in Statuses, u \in Users :
               CreateUser(r, e, role, status, u)
    BY <1>2, <2>1 DEF CreateUser
  <2>2. CASE UpdateWrite(r)
    <3>1. PICK u : u = req[r].user
      OBVIOUS
    <3>2. PICK role : role = IF req[r].role = "none" THEN user[u].role ELSE req[r].role
      OBVIOUS
    <3>3. PICK status : status = IF req[r].status = "none" THEN user[u].status ELSE req[r].status
      OBVIOUS
    <3>4. user' = [user EXCEPT ![u] = [user[u] EXCEPT !.role = role, !.status = status]]
      BY <2>2, <3>1, <3>2, <3>3 DEF UpdateWrite
    <3> QED
      BY <1>4, <3>4
  <2>3. CASE ApproveWrite(r)
    BY <1>4, <2>3 DEF ApproveWrite
  <2>4. CASE \/ \E a \in Users, t \in Tenants : Admit(r, a, t)
             \/ \E e \in Emails, role \in Roles : InviteCheck(r, e, role)
             \/ \E i \in Invites : Invite(r, i)
             \/ \E u \in Users, role \in Roles \cup {"none"}, status \in NewStatuses \cup {"none"} :
                  UpdateRead(r, u, role, status)
             \/ AssertActorIsAdmin(r) \/ AssertLastAdminSafe(r)
             \/ \E u \in Users, role \in Roles : ApproveRead(r, u, role)
    <3>1. UNCHANGED user
      BY <2>4, Zenon DEF Admit, InviteCheck, Invite, UpdateRead, AssertActorIsAdmin,
         AssertLastAdminSafe, ApproveRead
    <3> QED
      BY <1>1, <3>1
  <2> QED
    BY <1>5, <2>1, <2>2, <2>3, <2>4 DEF Administrate
<1>6. ASSUME NEW r \in Reqs, Enrol(r)
      PROVE  \A v \in Users : user'[v].from \in {user[v].from, "none"}
  <2>1. CASE \E t \in Tenants, u \in Users : RegisterTenant(r, t, u)
    BY <1>2, <2>1 DEF RegisterTenant
  <2>2. CASE \E u \in Users, c \in Completions : OAuthCreate(r, u, c)
    BY <1>2, <2>2 DEF OAuthCreate
  <2>3. CASE CompleteWrite(r)
    BY <1>3, <2>3 DEF CompleteWrite
  <2>4. CASE \/ \E e \in Emails : RegisterCheck(r, e) \/ OAuthCheck(r, e)
             \/ \E i \in Invites : AcceptRead(r, i)
             \/ \E c \in Completions, t \in Tenants : CompleteRead(r, c, t)
    <3>1. UNCHANGED user
      BY <2>4, Zenon DEF RegisterCheck, OAuthCheck, AcceptRead, CompleteRead
    <3> QED
      BY <1>1, <3>1
  <2> QED
    BY <1>6, <2>1, <2>2, <2>3, <2>4 DEF Enrol
<1> QED
  BY <1>1, <1>5, <1>6 DEF Next, vars, Reject, CompletionToken

LEMMA OneUserStep ==
  ASSUME AInv, InvitationMakesOneUser, [Next]_vars
  PROVE  InvitationMakesOneUser'
<1> SUFFICES ASSUME NEW u \in Users, NEW v \in Users, u # v,
                    user'[u].from # "none", user'[u].from = user'[v].from
             PROVE  Moved(u)' \/ Moved(v)'
  BY DEF InvitationMakesOneUser, Moved
<1>1. CASE user[u].from = user'[u].from /\ user[v].from = user'[v].from
  <2>1. Moved(u) \/ Moved(v)
    BY <1>1 DEF InvitationMakesOneUser, Moved
  <2> QED
    BY <2>1, MovedStays
<1>2. ASSUME NEW r \in Reqs, NEW w \in Users, NEW x \in Users, w # x, AcceptWrite(r, w),
             user'[w].from = user'[x].from
      PROVE  Moved(x)'
  <2>1. PICK i : i = req[r].item
    OBVIOUS
  <2>2. i \in Invites /\ user'[w].from = i /\ user'[x] = user[x] /\ i # "none"
    BY <1>2, <2>1, AcceptMakes, ConstantsAssumption
  <2>3. user[x].from = i
    BY <1>2, <2>2
  <2>4. /\ user[x].email = invite[i].email
        /\ Moved(x) \/ user[x].tenant = invite[i].tenant
    BY <2>2, <2>3 DEF AInv, MadeFrom
  <2>5. req[r].email = invite[i].email /\ req[r].tenant = invite[i].tenant
    BY <1>2, <2>1 DEF AInv, Reads, AcceptWrite
  <2>6. ~ Taken(req[r].tenant, req[r].email)
    BY <1>2 DEF AcceptWrite
  <2>7. Moved(x)
    BY <2>4, <2>5, <2>6 DEF Taken
  <2> QED
    BY <2>7, MovedStays
<1>3. CASE \E r \in Reqs, w \in Users : AcceptWrite(r, w)
  <2>1. PICK r \in Reqs, w \in Users : AcceptWrite(r, w)
    BY <1>3
  <2>2. \A x \in Users : x # w => user'[x] = user[x]
    BY <2>1, AcceptMakes
  <2> QED
    BY <1>1, <1>2, <2>1, <2>2
<1>4. CASE ~ \E r \in Reqs, w \in Users : AcceptWrite(r, w)
  BY <1>1, <1>4, FromStays
<1> QED
  BY <1>3, <1>4

\* However many requests present an invitation at once, and whatever
\* administrators do to it meanwhile, acceptInvite makes one account of it as
\* long as that account has not moved to another tenant.
THEOREM OneUserPerInvitation == Spec => []InvitationMakesOneUser
<1>1. Init => InvitationMakesOneUser
  BY DEF Init, InvitationMakesOneUser, NoUser
<1> QED
  BY <1>1, OneUserStep, AccountInvariant, PTL DEF Spec

\* The write of an update that no loss of an administrator overlapped leaves its
\* actor an administrator, or the other one it has counted.
LEMMA UpdateKeeps ==
  ASSUME AInv, NEW r \in Reqs, NEW t \in registered, req[r].pc = "write", req[r].tenant = t,
         ~ req[r].raced, UpdateWrite(r)
  PROVE  ActiveAdmins(t)' # {}
<1>1. PICK p, u : p = req[r] /\ u = p.user
  OBVIOUS
<1>2. Reads(p) /\ AdminsSeen(p) /\ p.pc = "write" /\ ~ p.raced /\ p.tenant = t
  BY <1>1 DEF AInv
<1>3. u \in Users /\ p.actor \in Users /\ p.actor \in ActiveAdmins(t)
  BY <1>1, <1>2 DEF Reads, AdminsSeen, AdminPc, ActiveAdmins
<1>4. \A v \in Users : v # u => user'[v] = user[v]
  BY <1>1, <1>3 DEF UpdateWrite, AInv, TypeOK
<1>5. ASSUME NEW v \in ActiveAdmins(t), v # u
      PROVE  ActiveAdmins(t)' # {}
  <2>1. v \in ActiveAdmins(t)'
    BY <1>4, <1>5 DEF ActiveAdmins, IsAdmin
  <2> QED
    BY <2>1
<1>6. CASE p.atStake
  <2>1. Cardinality(ActiveAdmins(t)) > 1
    BY <1>2, <1>6 DEF AdminsSeen
  <2>2. \E v \in ActiveAdmins(t) : v # u
    <3>1. SUFFICES ASSUME ActiveAdmins(t) \subseteq {u} PROVE FALSE
      OBVIOUS
    <3>2. IsFiniteSet({u}) /\ Cardinality({u}) = 1
      BY FS_Singleton
    <3>3. Cardinality(ActiveAdmins(t)) <= 1 /\ Cardinality(ActiveAdmins(t)) \in Nat
      BY <3>1, <3>2, FS_Subset, AdminsFinite
    <3> QED
      BY <2>1, <3>3
  <2> QED
    BY <1>5, <2>2
<1>7. CASE ~ p.atStake /\ u # p.actor
  BY <1>3, <1>5, <1>7
<1>8. CASE ~ p.atStake /\ u = p.actor
  <2>1. p.role # "OPERATOR" /\ p.status \in {"none", "ACTIVE"} /\ p.role \in Roles \cup {"none"}
    BY <1>1, <1>2, <1>8, ReqShape DEF AdminsSeen, AInv
  <2>2. PICK x : x = user[u]
    OBVIOUS
  <2>3. x \in UserRow /\ x.tenant = t /\ x.role = "ADMIN" /\ x.status = "ACTIVE"
    BY <1>3, <1>8, <2>2 DEF AInv, TypeOK, ActiveAdmins, IsAdmin
  <2>4. user' = [user EXCEPT ![u] = [x EXCEPT
          !.role = IF p.role = "none" THEN x.role ELSE p.role,
          !.status = IF p.status = "none" THEN x.status ELSE p.status]]
    BY <1>1, <2>2 DEF UpdateWrite
  <2>5. user'[u].tenant = t /\ user'[u].role = "ADMIN" /\ user'[u].status = "ACTIVE"
    BY <1>3, <2>1, <2>3, <2>4 DEF AInv, TypeOK, UserRow, Roles
  <2>6. u \in ActiveAdmins(t)'
    BY <1>3, <2>5 DEF ActiveAdmins, IsAdmin
  <2> QED
    BY <2>6
<1> QED
  BY <1>6, <1>7, <1>8

\* Of the steps that change accounts only the write of an update ends a request
\* that was at its write.
LEMMA WriteEnds ==
  ASSUME AInv, [Next]_vars, NEW r \in Reqs, req[r].pc = "write", req'[r].pc = "idle",
         user' # user
  PROVE  UpdateWrite(r)
<1>1. ASSUME NEW q \in Reqs, q # r, req' = Answered(q)
      PROVE  FALSE
  BY <1>1, AnsweredShape DEF AInv
<1>2. ASSUME NEW q \in Reqs, Administrate(q), ~ UpdateWrite(q)
      PROVE  FALSE
  <2>1. CASE (\E e \in Emails, role \in Roles, status \in Statuses, u \in Users :
               CreateUser(q, e, role, status, u)) \/ ApproveWrite(q)
    <3>1. req' = Answered(q) /\ req[q].pc # "write"
      BY <2>1 DEF CreateUser, ApproveWrite
    <3> QED
      BY <1>1, <3>1
  <2>2. CASE \/ \E a \in Users, t \in Tenants : Admit(q, a, t)
             \/ \E e \in Emails, role \in Roles : InviteCheck(q, e, role)
             \/ \E i \in Invites : Invite(q, i)
             \/ \E u \in Users, role \in Roles \cup {"none"}, status \in NewStatuses \cup {"none"} :
                  UpdateRead(q, u, role, status)
             \/ AssertActorIsAdmin(q) \/ AssertLastAdminSafe(q)
             \/ \E u \in Users, role \in Roles : ApproveRead(q, u, role)
    BY <2>2, Zenon DEF Admit, InviteCheck, Invite, UpdateRead, AssertActorIsAdmin,
       AssertLastAdminSafe, ApproveRead
  <2> QED
    BY <1>2, <2>1, <2>2 DEF Administrate
<1>3. ASSUME NEW q \in Reqs, Enrol(q)
      PROVE  FALSE
  <2>1. CASE \/ \E t \in Tenants, u \in Users : RegisterTenant(q, t, u)
             \/ \E u \in Users : AcceptWrite(q, u)
             \/ \E u \in Users, c \in Completions : OAuthCreate(q, u, c)
             \/ CompleteWrite(q)
    <3>1. req' = Answered(q) /\ req[q].pc # "write"
      BY <2>1 DEF RegisterTenant, AcceptWrite, OAuthCreate, CompleteWrite
    <3> QED
      BY <1>1, <3>1
  <2>2. CASE \/ \E e \in Emails : RegisterCheck(q, e) \/ OAuthCheck(q, e)
             \/ \E i \in Invites : AcceptRead(q, i)
             \/ \E c \in Completions, t \in Tenants : CompleteRead(q, c, t)
    BY <2>2, Zenon DEF RegisterCheck, OAuthCheck, AcceptRead, CompleteRead
  <2> QED
    BY <1>3, <2>1, <2>2 DEF Enrol
<1>4. ASSUME NEW q \in Reqs, UpdateWrite(q)
      PROVE  q = r
  BY <1>1, <1>4 DEF UpdateWrite
<1> QED
  BY <1>2, <1>3, <1>4 DEF Next, vars, Reject, CompletionToken

\* assertLastAdminSafe, a count made after the row was read, keeps every tenant
\* an administrator against updates, as long as no other request takes one away
\* between the guards and the write.
THEOREM LastAdminSafe == Spec => UpdateKeepsAnAdmin
<1>1. AInv /\ [Next]_vars =>
        \A r \in Reqs, t \in registered :
          /\ req[r].pc = "write" /\ req[r].tenant = t /\ ~ req[r].raced
          /\ req'[r].pc = "idle" /\ user' # user
          => ActiveAdmins(t)' # {}
  BY WriteEnds, UpdateKeeps
<1> QED
  BY <1>1, AccountInvariant, PTL DEF Spec, UpdateKeepsAnAdmin
=============================================================================
