------------------------------ MODULE Sessions ------------------------------
(***************************************************************************)
(* Refresh-token sessions: login, refresh with rotation and reuse          *)
(* detection, logout, the revocations a user or an admin asks for, the     *)
(* password change and reset, disabling a user, and the completion of an   *)
(* OAuth registration, which moves an account to another tenant, over the  *)
(* refresh_tokens, users and password_reset_tokens tables.                 *)
(*                                                                         *)
(* A handler that reads a row and writes after a later await is two steps. *)
(* A $transaction takes effect when it commits; the one whose outcome      *)
(* depends on the rows an earlier statement picked (forgotPassword) is two *)
(* steps as well, as nothing in the code makes MySQL serialize it.  Token  *)
(* values are ids, a password is a version number.  expiresAt only ever    *)
(* refuses a request, which here may also never be sent.                   *)
(***************************************************************************)
EXTENDS Naturals

CONSTANTS
  Users,
  Tenants,
  Tokens,      \* ids of rows of refresh_tokens
  Resets,      \* ids of rows of password_reset_tokens
  Reqs,        \* HTTP requests in flight at one time
  MaxPwd,      \* bound: password changes per user
  MaxMoves,    \* bound: registrations completed per user
  MaxFaults    \* bound: requests that fail half-way

ASSUME ConstantsAssumption ==
  /\ MaxPwd \in Nat
  /\ MaxMoves \in Nat
  /\ MaxFaults \in Nat
  /\ "none" \notin Users \cup Tenants \cup Tokens \cup Resets

VARIABLES
  tenant,   \* users.tenantId
  status,   \* users.status, as far as it matters here
  pwd,      \* users.passwordHash, as a version
  moves,    \* registrations completed, per user
  token,    \* refresh_tokens
  reset,    \* password_reset_tokens
  req,      \* HTTP requests in flight
  faults    \* faults injected so far

vars == <<tenant, status, pwd, moves, token, reset, req, faults>>

account == <<tenant, status, pwd, moves>>

\* waiting is PENDING as completeOAuthRegistration leaves an account, barred any
\* status but ACTIVE that an administrator sets.
Statuses == {"active", "waiting", "barred"}

(***************************************************************************)
(* History makes the properties expressible.  pwd of a token is the        *)
(* password version its session was authenticated with, past what befell   *)
(* the session, or the request that made it:                               *)
(*   raced   all sessions of the user were revoked while the request was   *)
(*           between its read and its write                                *)
(*   spared  all sessions of the user were revoked but this one, which is  *)
(*           a row of another tenant than the revocation asks for          *)
(*   forked  it was rotated from a token that was no longer live           *)
(* A reset token is raced when another one of its user was issued at the   *)
(* same time.                                                              *)
(***************************************************************************)
Marks == {"raced", "spared", "forked"}

Session(st, u, n, f, p, past) ==
  [state |-> st, user |-> u, tenant |-> n, family |-> f, pwd |-> p, past |-> past]

NoToken == Session("none", "none", "none", "none", 0, {})

SessionRow ==
  [state : {"live", "revoked"}, user : Users, tenant : Tenants, family : Tokens,
   pwd : 0 .. MaxPwd, past : SUBSET Marks]

ResetToken(st, u, n, rc) == [state |-> st, user |-> u, tenant |-> n, raced |-> rc]

NoReset == ResetToken("none", "none", "none", FALSE)

ResetRow ==
  [state : {"unused", "used"}, user : Users, tenant : Tenants, raced : BOOLEAN]

\* A request keeps what it has read.
IdleReq == [pc |-> "idle"]

Creating(u, n, p) == [pc |-> "create", user |-> u, tenant |-> n, pwd |-> p, past |-> {}]

Rotating(t, u, n) ==
  [pc |-> "rotate", tok |-> t, user |-> u, tenant |-> n, past |-> {}]

OnToken(pc, t, u) == [pc |-> pc, tok |-> t, user |-> u]

\* from: the tenants whose rows the revocation asks for.
Setting(u, x, from) == [pc |-> "password", user |-> u, reset |-> x, from |-> from]

Forgetting(u, n, seen) == [pc |-> "forgot", user |-> u, tenant |-> n, seen |-> seen]

Disabling(u, n) == [pc |-> "disable", user |-> u, tenant |-> n]

Revoking(u, n) == [pc |-> "revokeAll", user |-> u, tenant |-> n]

Requests ==
  {IdleReq}
    \cup [pc : {"create"}, user : Users, tenant : Tenants, pwd : 0 .. MaxPwd,
          past : SUBSET Marks]
    \cup [pc : {"rotate"}, tok : Tokens, user : Users, tenant : Tenants,
          past : SUBSET Marks]
    \cup [pc : {"reuse", "logout"}, tok : Tokens, user : Users]
    \cup [pc : {"password"}, user : Users, reset : Resets \cup {"none"},
          from : SUBSET Tenants]
    \cup [pc : {"forgot"}, user : Users, tenant : Tenants, seen : SUBSET Resets]
    \cup [pc : {"disable", "revokeAll"}, user : Users, tenant : Tenants]

TypeOK ==
  /\ tenant \in [Users -> Tenants]
  /\ status \in [Users -> Statuses]
  /\ pwd \in [Users -> 0 .. MaxPwd]
  /\ moves \in [Users -> 0 .. MaxMoves]
  /\ token \in [Tokens -> {NoToken} \cup SessionRow]
  /\ reset \in [Resets -> {NoReset} \cup ResetRow]
  /\ req \in [Reqs -> Requests]
  /\ faults \in 0 .. MaxFaults

Init ==
  /\ tenant \in [Users -> Tenants]
  /\ status = [u \in Users |-> "active"]
  /\ pwd = [u \in Users |-> 0]
  /\ moves = [u \in Users |-> 0]
  /\ token = [t \in Tokens |-> NoToken]
  /\ reset = [x \in Resets |-> NoReset]
  /\ req = [r \in Reqs |-> IdleReq]
  /\ faults = 0

-----------------------------------------------------------------------------
(* Shared by the operations below *)

Active(u) == status[u] = "active"

\* revokedAt := now on the rows chosen that have none yet.
Revoked(chosen) ==
  [t \in Tokens |-> IF token[t].state = "live" /\ t \in chosen
                      THEN [token[t] EXCEPT !.state = "revoked"]
                      ELSE token[t]]

RowsOf(u, from) == {t \in Tokens : token[t].user = u /\ token[t].tenant \in from}

\* All sessions of u are revoked that are rows of the tenants asked for; the
\* others are spared.
RevokeAllOf(u, from) ==
  [t \in Tokens |->
    IF token[t].state = "live" /\ token[t].user = u /\ token[t].tenant \notin from
      THEN [token[t] EXCEPT !.past = @ \cup {"spared"}]
      ELSE Revoked(RowsOf(u, from))[t]]

\* The requests of u other than r that still have to create a token.
Overtake(r, u) ==
  [s \in Reqs |->
    IF s = r THEN IdleReq
    ELSE IF req[s].pc \in {"create", "rotate"} /\ req[s].user = u
      THEN [req[s] EXCEPT !.past = @ \cup {"raced"}]
      ELSE req[s]]

-----------------------------------------------------------------------------
(* AuthService.login and issueSession without a rotated session *)

\* Look-up, password check, blockNonActiveLogin and hasActiveTenant, all on the
\* row read here.
LoginRead(r, u) ==
  /\ req[r].pc = "idle"
  /\ Active(u)
  /\ req' = [req EXCEPT ![r] = Creating(u, tenant[u], pwd[u])]
  /\ UNCHANGED <<account, token, reset, faults>>

\* createRefreshToken, in a family of its own.
LoginCreate(r) ==
  /\ req[r].pc = "create"
  /\ \E t \in Tokens :
       /\ token[t].state = "none"
       /\ token' = [token EXCEPT ![t] =
            Session("live", req[r].user, req[r].tenant, t, req[r].pwd, req[r].past)]
  /\ req' = [req EXCEPT ![r] = IdleReq]
  /\ UNCHANGED <<account, reset, faults>>

-----------------------------------------------------------------------------
(* AuthService.refresh *)

\* Faulty variant: revokedAt is not looked at.
RefreshReadRevoked(r, t) ==
  /\ req[r].pc = "idle"
  /\ token[t].state # "none"
  /\ Active(token[t].user)
  /\ req' = [req EXCEPT ![r] = Rotating(t, token[t].user, tenant[token[t].user])]
  /\ UNCHANGED <<account, token, reset, faults>>

\* getValidRefreshSession accepts a token that is live and of an active user.
RefreshRead(r, t) ==
  /\ req[r].pc = "idle"
  /\ token[t].state = "live"
  /\ Active(token[t].user)
  /\ req' = [req EXCEPT ![r] = Rotating(t, token[t].user, tenant[token[t].user])]
  /\ UNCHANGED <<account, token, reset, faults>>

\* Faulty variant: the token presented is not revoked.
RotateKeep(r) ==
  LET t == req[r].tok IN
  /\ req[r].pc = "rotate"
  /\ \E n \in Tokens :
       /\ token[n].state = "none"
       /\ token' = [token EXCEPT ![n] =
            Session("live", req[r].user, req[r].tenant, token[t].family, token[t].pwd,
                    req[r].past \cup token[t].past)]
  /\ req' = [req EXCEPT ![r] = IdleReq]
  /\ UNCHANGED <<account, reset, faults>>

\* rotateRefreshToken: one transaction, keyed by the id read before, that does
\* not look at revokedAt again; the new row is of the tenant the user was in when
\* the session was read.
Rotate(r) ==
  LET t == req[r].tok
      fork == IF token[t].state = "live" THEN {} ELSE {"forked"}
  IN
  /\ req[r].pc = "rotate"
  /\ \E n \in Tokens :
       /\ token[n].state = "none"
       /\ token' = [Revoked({t}) EXCEPT ![n] =
            Session("live", req[r].user, req[r].tenant, token[t].family, token[t].pwd,
                    req[r].past \cup token[t].past \cup fork)]
  /\ req' = [req EXCEPT ![r] = IdleReq]
  /\ UNCHANGED <<account, reset, faults>>

\* A revoked token is presented again ...
ReuseRead(r, t) ==
  /\ req[r].pc = "idle"
  /\ token[t].state = "revoked"
  /\ req' = [req EXCEPT ![r] = OnToken("reuse", t, token[t].user)]
  /\ UNCHANGED <<account, token, reset, faults>>

\* ... and revokeRefreshTokenFamily ends every session of its family.
ReuseRevoke(r) ==
  /\ req[r].pc = "reuse"
  /\ token' = Revoked({t \in Tokens : token[t].family = token[req[r].tok].family})
  /\ req' = [req EXCEPT ![r] = IdleReq]
  /\ UNCHANGED <<account, reset, faults>>

-----------------------------------------------------------------------------
(* Revocations asked for *)

LogoutRead(r, t) ==
  /\ req[r].pc = "idle"
  /\ token[t].state = "live"
  /\ req' = [req EXCEPT ![r] = OnToken("logout", t, token[t].user)]
  /\ UNCHANGED <<account, token, reset, faults>>

LogoutWrite(r) ==
  /\ req[r].pc = "logout"
  /\ token' = Revoked({req[r].tok})
  /\ req' = [req EXCEPT ![r] = IdleReq]
  /\ UNCHANGED <<account, reset, faults>>

\* AuthService.revokeSession: one updateMany by id, tenant and user.  The request
\* was admitted in the tenant of the row, which the user may have left since.
RevokeSession(t) ==
  /\ token[t].state = "live"
  /\ token' = Revoked({t})
  /\ UNCHANGED <<account, reset, req, faults>>

\* AuthService.revokeOtherSessions: all of the user's in the tenant the request
\* was admitted in, but the current one.
RevokeOtherSessions(t, n) ==
  /\ token[t].state = "live"
  /\ token' = Revoked(RowsOf(token[t].user, {n}) \ {t})
  /\ UNCHANGED <<account, reset, req, faults>>

\* UsersService.revokeSessions, by an administrator of tenant n.
RevokeSessions(u, n) ==
  /\ token' = Revoked(RowsOf(u, {n}))
  /\ UNCHANGED <<account, reset, req, faults>>

-----------------------------------------------------------------------------
(* Passwords *)

Unused(u, n) ==
  {x \in Resets : reset[x].state = "unused" /\ reset[x].user = u /\ reset[x].tenant = n}

\* forgotPassword reads the user, and the updateMany of its transaction picks
\* the tokens to use up ...
ForgotPick(r, u) ==
  /\ req[r].pc = "idle"
  /\ Active(u)
  /\ req' = [req EXCEPT ![r] = Forgetting(u, tenant[u], Unused(u, tenant[u]))]
  /\ UNCHANGED <<account, token, reset, faults>>

\* ... and the commit does so and creates a new one.
ForgotCommit(r) ==
  LET u == req[r].user
      n == req[r].tenant
  IN
  /\ req[r].pc = "forgot"
  /\ \E x \in Resets :
       /\ reset[x].state = "none"
       /\ reset' = [y \in Resets |->
            IF y = x
              THEN ResetToken("unused", u, n, ~ (Unused(u, n) \subseteq req[r].seen))
            ELSE IF y \in req[r].seen
              THEN [reset[y] EXCEPT !.state = "used"]
              ELSE reset[y]]
  /\ req' = [req EXCEPT ![r] = IdleReq]
  /\ UNCHANGED <<account, token, faults>>

\* resetPassword reads an unused token and hashes the new password; it will
\* revoke the sessions of the user in any tenant ...
ResetRead(r, x) ==
  /\ req[r].pc = "idle"
  /\ reset[x].state = "unused"
  /\ req' = [req EXCEPT ![r] = Setting(reset[x].user, x, Tenants)]
  /\ UNCHANGED <<account, token, reset, faults>>

\* changePassword reads the user and checks the current password; it will revoke
\* the sessions of the tenant the request was admitted in ...
ChangeRead(r, u) ==
  /\ req[r].pc = "idle"
  /\ Active(u)
  /\ req' = [req EXCEPT ![r] = Setting(u, "none", {tenant[u]})]
  /\ UNCHANGED <<account, token, reset, faults>>

UseUp(x) ==
  IF x = "none" THEN reset ELSE [reset EXCEPT ![x] = [reset[x] EXCEPT !.state = "used"]]

\* Faulty variant: the sessions stay.
PasswordWriteOnly(r) ==
  LET u == req[r].user IN
  /\ req[r].pc = "password"
  /\ pwd[u] < MaxPwd
  /\ pwd' = [pwd EXCEPT ![u] = @ + 1]
  /\ reset' = UseUp(req[r].reset)
  /\ req' = Overtake(r, u)
  /\ UNCHANGED <<tenant, status, moves, token, faults>>

\* ... and one transaction stores the hash, uses up the reset token, if there
\* is one, and revokes the sessions.
PasswordWrite(r) ==
  LET u == req[r].user IN
  /\ req[r].pc = "password"
  /\ pwd[u] < MaxPwd
  /\ pwd' = [pwd EXCEPT ![u] = @ + 1]
  /\ token' = RevokeAllOf(u, req[r].from)
  /\ reset' = UseUp(req[r].reset)
  /\ req' = Overtake(r, u)
  /\ UNCHANGED <<tenant, status, moves, faults>>

-----------------------------------------------------------------------------
(* UsersService.update with a status *)

\* An administrator's request finds the user in its tenant ...
DisableRead(r, u) ==
  /\ req[r].pc = "idle"
  /\ req' = [req EXCEPT ![r] = Disabling(u, tenant[u])]
  /\ UNCHANGED <<account, token, reset, faults>>

\* Faulty variant: only the status is written.
DisableWriteOnly(r) ==
  /\ req[r].pc = "disable"
  /\ status' = [status EXCEPT ![req[r].user] = "barred"]
  /\ req' = [req EXCEPT ![r] = IdleReq]
  /\ UNCHANGED <<tenant, pwd, moves, token, reset, faults>>

\* ... writes the status by id ...
DisableWrite(r) ==
  /\ req[r].pc = "disable"
  /\ status' = [status EXCEPT ![req[r].user] = "barred"]
  /\ req' = [req EXCEPT ![r] = Revoking(req[r].user, req[r].tenant)]
  /\ UNCHANGED <<tenant, pwd, moves, token, reset, faults>>

\* ... and revokes the sessions of its tenant.
DisableRevoke(r) ==
  /\ req[r].pc = "revokeAll"
  /\ token' = RevokeAllOf(req[r].user, {req[r].tenant})
  /\ req' = Overtake(r, req[r].user)
  /\ UNCHANGED <<account, reset, faults>>

\* approve, or update with ACTIVE.
Enable(u) ==
  /\ ~ Active(u)
  /\ status' = [status EXCEPT ![u] = "active"]
  /\ UNCHANGED <<tenant, pwd, moves, token, reset, req, faults>>

-----------------------------------------------------------------------------
\* completeOAuthRegistration, with a completion token the user still has (every
\* login of an INCOMPLETE account makes one, see Accounts): one transaction moves
\* the account, which waits for an approval, and leaves its sessions alone.
Complete(u, n) ==
  /\ moves[u] < MaxMoves
  /\ tenant' = [tenant EXCEPT ![u] = n]
  /\ status' = [status EXCEPT ![u] = "waiting"]
  /\ moves' = [moves EXCEPT ![u] = @ + 1]
  /\ UNCHANGED <<pwd, token, reset, req, faults>>

-----------------------------------------------------------------------------
\* A request is cut off between its read and its write.
RequestFails(r) ==
  /\ faults < MaxFaults
  /\ faults' = faults + 1
  /\ req[r].pc # "idle"
  /\ req' = [req EXCEPT ![r] = IdleReq]
  /\ UNCHANGED <<account, token, reset>>

Next ==
  \/ \E r \in Reqs :
       \/ \E u \in Users : LoginRead(r, u)
       \/ LoginCreate(r)
       \/ \E t \in Tokens : RefreshRead(r, t)
       \/ Rotate(r)
       \/ \E t \in Tokens : ReuseRead(r, t)
       \/ ReuseRevoke(r)
       \/ \E t \in Tokens : LogoutRead(r, t)
       \/ LogoutWrite(r)
       \/ \E u \in Users : ForgotPick(r, u)
       \/ ForgotCommit(r)
       \/ \E x \in Resets : ResetRead(r, x)
       \/ \E u \in Users : ChangeRead(r, u)
       \/ PasswordWrite(r)
       \/ \E u \in Users : DisableRead(r, u)
       \/ DisableWrite(r)
       \/ DisableRevoke(r)
       \/ RequestFails(r)
  \/ \E t \in Tokens : RevokeSession(t)
  \/ \E t \in Tokens, n \in Tenants : RevokeOtherSessions(t, n)
  \/ \E u \in Users, n \in Tenants : RevokeSessions(u, n)
  \/ \E u \in Users : Enable(u)
  \/ \E u \in Users, n \in Tenants : Complete(u, n)

Spec == Init /\ [][Next]_vars

-----------------------------------------------------------------------------
(* Properties *)

Live(t) == token[t].state = "live"

\* A password change or reset ends every session authenticated with the old
\* password, except through a login or a refresh that had read its row before
\* the transaction and wrote after it, and except, once the account has moved,
\* the rows of another tenant than the one changePassword was called in.
OldPasswordEndsSessions ==
  \A t \in Tokens : Live(t) /\ "raced" \notin token[t].past =>
    \/ token[t].pwd = pwd[token[t].user]
    \/ "spared" \in token[t].past /\ moves[token[t].user] > 0

\* Once the update that barred a user is through, the user has no session but
\* what such an overtaken request leaves behind and, once the account has moved,
\* the rows of another tenant than the administrator's.
DisabledHasNoSession ==
  faults = 0 => \A t \in Tokens :
    Live(t) /\ "raced" \notin token[t].past /\ status[token[t].user] = "barred" =>
      \/ \E r \in Reqs : req[r].pc = "revokeAll" /\ req[r].user = token[t].user
      \/ "spared" \in token[t].past /\ moves[token[t].user] > 0

\* A family all of whose tokens are revoked, with no rotation under way, never
\* has a live token again: reuse detection and logout are final then.
DeadFamily(f) ==
  /\ \A t \in Tokens : token[t].family = f => ~ Live(t)
  /\ \A r \in Reqs : req[r].pc = "rotate" => token[req[r].tok].family # f

DeadFamilyStaysDead ==
  [][\A f \in Tokens : token[f].state # "none" /\ DeadFamily(f)
       => DeadFamily(f)']_vars

\* A session has one token that works: two of a family are live only when a
\* refresh rotated a token that another request had rotated or revoked since it
\* was read.
OneLivePerFamily ==
  \A s, t \in Tokens :
    /\ s # t
    /\ Live(s) /\ Live(t)
    /\ token[s].family = token[t].family
    => "forked" \in token[s].past \cup token[t].past

\* A user has two reset tokens of one tenant that still work only when they were
\* asked for at the same time: forgotPassword uses up the ones it can see.
OneUnusedReset ==
  \A x, y \in Resets :
    /\ x # y
    /\ reset[x].state = "unused" /\ reset[y].state = "unused"
    /\ reset[x].user = reset[y].user /\ reset[x].tenant = reset[y].tenant
    => reset[x].raced \/ reset[y].raced
=============================================================================
