--------------------------- MODULE SessionsProofs ---------------------------
(***************************************************************************)
(* Theorems about Sessions, for every set of users, tokens and requests    *)
(* and every bound.                                                        *)
(***************************************************************************)
EXTENDS Sessions, TLAPS

Rows == {NoToken} \cup SessionRow

OfToken == {"rotate", "reuse", "logout"}

IsRaced(x) == "raced" \in x.past

IsSpared(x) == "spared" \in x.past

IsForked(x) == "forked" \in x.past

\* A request that has read a token belongs to the token's user.
ReadTokens ==
  \A r \in Reqs : req[r].pc \in OfToken =>
    /\ token[req[r].tok].state # "none"
    /\ req[r].user = token[req[r].tok].user

\* However requests overlap, a family belongs to one user and starts with the
\* token that names it.
FamilyOfOneUser ==
  \A t \in Tokens : token[t].state # "none" =>
    /\ token[token[t].family].family = token[t].family
    /\ token[token[t].family].user = token[t].user

\* A request that was not overtaken will create a session of the password that
\* is still the user's, or go on with one that was spared.
PasswordsRead ==
  \A r \in Reqs :
    /\ req[r].pc = "create" /\ ~ IsRaced(req[r]) => req[r].pwd = pwd[req[r].user]
    /\ req[r].pc = "rotate" /\ ~ IsRaced(req[r]) /\ ~ IsRaced(token[req[r].tok])
         /\ ~ IsSpared(token[req[r].tok])
         => token[req[r].tok].pwd = pwd[req[r].user]

\* What OldPasswordEndsSessions says but for the moves.
OldSpared ==
  \A t \in Tokens : Live(t) /\ ~ IsRaced(token[t]) /\ ~ IsSpared(token[t])
    => token[t].pwd = pwd[token[t].user]

\* The reset tokens a request has read, and that they exist.
ResetsOf(q) ==
  IF q.pc = "password" THEN {q.reset} \ {"none"} ELSE IF q.pc = "forgot" THEN q.seen ELSE {}

ReadResets ==
  \A r \in Reqs : \A x \in ResetsOf(req[r]) : x \in Resets /\ reset[x].state # "none"

IInv ==
  /\ TypeOK /\ ReadTokens /\ ReadResets
  /\ FamilyOfOneUser /\ PasswordsRead /\ OldSpared

-----------------------------------------------------------------------------
(* Records *)

LEMMA SessionBuilt ==
  ASSUME NEW u \in Users, NEW n \in Tenants, NEW f \in Tokens, NEW p \in 0 .. MaxPwd,
         NEW h \in SUBSET Marks
  PROVE  /\ Session("live", u, n, f, p, h) \in SessionRow
         /\ Session("live", u, n, f, p, h).state = "live"
         /\ Session("live", u, n, f, p, h).user = u
         /\ Session("live", u, n, f, p, h).tenant = n
         /\ Session("live", u, n, f, p, h).family = f
         /\ Session("live", u, n, f, p, h).pwd = p
         /\ Session("live", u, n, f, p, h).past = h
  BY DEF Session, SessionRow

LEMMA RowShape ==
  ASSUME NEW x \in Rows
  PROVE  /\ x = NoToken =>
              x.state = "none" /\ x.user = "none" /\ x.family = "none" /\ x.past = {}
         /\ x.state # "none" => x \in SessionRow
         /\ x \in SessionRow =>
              /\ x.state \in {"live", "revoked"}
              /\ x.user \in Users /\ x.tenant \in Tenants /\ x.family \in Tokens
              /\ x.pwd \in 0 .. MaxPwd /\ x.past \in SUBSET Marks
  BY DEF Rows, NoToken, Session, SessionRow

LEMMA RowRevoked ==
  ASSUME NEW x \in SessionRow
  PROVE  /\ [x EXCEPT !.state = "revoked"] \in SessionRow
         /\ [x EXCEPT !.state = "revoked"].state = "revoked"
         /\ [x EXCEPT !.state = "revoked"].user = x.user
         /\ [x EXCEPT !.state = "revoked"].tenant = x.tenant
         /\ [x EXCEPT !.state = "revoked"].family = x.family
         /\ [x EXCEPT !.state = "revoked"].pwd = x.pwd
         /\ [x EXCEPT !.state = "revoked"].past = x.past
  BY DEF SessionRow

LEMMA RowSpared ==
  ASSUME NEW x \in SessionRow, NEW y, y = [x EXCEPT !.past = @ \cup {"spared"}]
  PROVE  /\ y \in SessionRow
         /\ y.state = x.state /\ y.user = x.user /\ y.tenant = x.tenant
         /\ y.family = x.family /\ y.pwd = x.pwd
         /\ y.past = x.past \cup {"spared"}
<1>1. x.past \cup {"spared"} \in SUBSET Marks
  BY DEF SessionRow, Marks
<1> QED BY <1>1 DEF SessionRow

LEMMA ReqShape ==
  ASSUME NEW q \in Requests
  PROVE  /\ q.pc \in OfToken => q.tok \in Tokens /\ q.user \in Users
         /\ q.pc \in {"create", "rotate"} =>
              q.user \in Users /\ q.tenant \in Tenants /\ q.past \in SUBSET Marks
         /\ q.pc = "create" => q.pwd \in 0 .. MaxPwd
         /\ q.pc = "password" =>
              /\ q.user \in Users /\ q.reset \in Resets \cup {"none"}
              /\ q.from \in SUBSET Tenants
         /\ q.pc = "forgot" =>
              q.user \in Users /\ q.tenant \in Tenants /\ q.seen \subseteq Resets
         /\ q.pc \in {"disable", "revokeAll"} => q.user \in Users /\ q.tenant \in Tenants
  BY DEF Requests, IdleReq, OfToken

LEMMA IdleBuilt == IdleReq \in Requests /\ IdleReq.pc = "idle"
  BY DEF Requests, IdleReq

Raced(q) == [q EXCEPT !.past = @ \cup {"raced"}]

LEMMA OvertakenShape ==
  ASSUME NEW q \in Requests, q.pc \in {"create", "rotate"}
  PROVE  /\ Raced(q) \in Requests
         /\ Raced(q).pc = q.pc
         /\ Raced(q).user = q.user
         /\ Raced(q).tenant = q.tenant
         /\ IsRaced(Raced(q))
         /\ Raced(q).past = q.past \cup {"raced"}
         /\ q.pc = "rotate" => Raced(q).tok = q.tok
<1>0. q.past \cup {"raced"} \in SUBSET Marks
  BY ReqShape DEF Marks
<1>1. CASE q.pc = "create"
  <2>1. q \in [pc : {"create"}, user : Users, tenant : Tenants, pwd : 0 .. MaxPwd,
               past : SUBSET Marks]
    BY <1>1 DEF Requests, IdleReq
  <2> QED BY <1>0, <2>1, <1>1 DEF Requests, Raced, IsRaced
<1>2. CASE q.pc = "rotate"
  <2>1. q \in [pc : {"rotate"}, tok : Tokens, user : Users, tenant : Tenants,
               past : SUBSET Marks]
    BY <1>2 DEF Requests, IdleReq
  <2> QED BY <1>0, <2>1, <1>2 DEF Requests, Raced, IsRaced
<1> QED BY <1>1, <1>2

-----------------------------------------------------------------------------
(* Revoking tokens *)

\* x is the row y, perhaps revoked or spared.
From(x, y) ==
  /\ x \in Rows
  /\ x.user = y.user /\ x.tenant = y.tenant /\ x.family = y.family /\ x.pwd = y.pwd
  /\ IsRaced(x) <=> IsRaced(y)
  /\ IsForked(x) <=> IsForked(y)
  /\ IsSpared(y) => IsSpared(x)
  /\ x.state = "none" <=> y.state = "none"
  /\ x.state = "live" => y.state = "live"

RevokedFrom(rows) ==
  /\ rows \in [Tokens -> Rows]
  /\ \A t \in Tokens : From(rows[t], token[t])

LEMMA RevokedOne ==
  ASSUME TypeOK, NEW chosen, NEW t \in Tokens
  PROVE  /\ From(Revoked(chosen)[t], token[t])
         /\ Revoked(chosen)[t].past = token[t].past
         /\ Revoked(chosen)[t].state = "live" => t \notin chosen
<1>1. token[t] \in Rows
  BY DEF TypeOK, Rows
<1>2. CASE token[t].state = "live" /\ t \in chosen
  <2>1. token[t] \in SessionRow
    BY <1>1, <1>2, RowShape
  <2>2. Revoked(chosen)[t] = [token[t] EXCEPT !.state = "revoked"]
    BY <1>2 DEF Revoked
  <2> QED BY <1>2, <2>1, <2>2, RowRevoked DEF Rows, From, IsRaced, IsForked, IsSpared
<1>3. CASE ~ (token[t].state = "live" /\ t \in chosen)
  <2>1. Revoked(chosen)[t] = token[t]
    BY <1>3 DEF Revoked
  <2> QED BY <1>1, <1>3, <2>1 DEF From
<1> QED BY <1>2, <1>3

LEMMA RevokedSome ==
  ASSUME TypeOK, NEW chosen
  PROVE  /\ RevokedFrom(Revoked(chosen))
         /\ \A t \in Tokens : Revoked(chosen)[t].past = token[t].past
         /\ \A t \in Tokens : Revoked(chosen)[t].state = "live" => t \notin chosen
<1> DEFINE rows == Revoked(chosen)
<1>1. rows = [t \in Tokens |-> rows[t]]
  BY DEF Revoked
<1>2. \A t \in Tokens : /\ From(rows[t], token[t])
                        /\ rows[t].past = token[t].past
                        /\ rows[t].state = "live" => t \notin chosen
  BY RevokedOne
<1> HIDE DEF rows
<1>3. /\ RevokedFrom(rows)
      /\ \A t \in Tokens : rows[t].past = token[t].past
      /\ \A t \in Tokens : rows[t].state = "live" => t \notin chosen
  BY <1>1, <1>2 DEF RevokedFrom, From
<1> QED BY <1>3 DEF rows

LEMMA RevokedAll ==
  ASSUME TypeOK, NEW u, NEW from
  PROVE  /\ RevokedFrom(RevokeAllOf(u, from))
         /\ \A t \in Tokens :
              LET x == RevokeAllOf(u, from)[t] IN
              /\ token[t].user = u /\ x.state = "live" => IsSpared(x)
              /\ IsSpared(x) => \/ IsSpared(token[t])
                                \/ /\ token[t].state = "live" /\ token[t].user = u
                                   /\ token[t].tenant \notin from
<1> DEFINE rows == RevokeAllOf(u, from)
           mine == RowsOf(u, from)
<1>1. ASSUME NEW t \in Tokens
      PROVE  /\ From(rows[t], token[t])
             /\ token[t].user = u /\ rows[t].state = "live" => IsSpared(rows[t])
             /\ IsSpared(rows[t]) => \/ IsSpared(token[t])
                                     \/ /\ token[t].state = "live" /\ token[t].user = u
                                        /\ token[t].tenant \notin from
  <2>1. CASE token[t].state = "live" /\ token[t].user = u /\ token[t].tenant \notin from
    <3>1. token[t] \in SessionRow
      BY <2>1, RowShape DEF TypeOK, Rows
    <3>2. rows[t] = [token[t] EXCEPT !.past = @ \cup {"spared"}]
      BY <2>1 DEF RevokeAllOf
    <3>3. PICK y : y = rows[t]
      OBVIOUS
    <3>4. /\ y \in SessionRow
          /\ y.state = token[t].state /\ y.user = token[t].user
          /\ y.tenant = token[t].tenant
          /\ y.family = token[t].family /\ y.pwd = token[t].pwd
          /\ y.past = token[t].past \cup {"spared"}
      BY <3>1, <3>2, <3>3, RowSpared
    <3>5. From(y, token[t]) /\ IsSpared(y)
      BY <2>1, <3>4 DEF From, Rows, IsRaced, IsForked, IsSpared
    <3> QED BY <2>1, <3>3, <3>5
  <2>2. CASE ~ (token[t].state = "live" /\ token[t].user = u /\ token[t].tenant \notin from)
    <3>1. rows[t] = Revoked(mine)[t]
      BY <2>2 DEF RevokeAllOf
    <3>2. /\ From(rows[t], token[t]) /\ rows[t].past = token[t].past
          /\ rows[t].state = "live" => t \notin mine
      BY <3>1, RevokedOne
    <3>3. token[t].user = u /\ rows[t].state = "live" => FALSE
      BY <2>2, <3>2 DEF From, RowsOf
    <3> QED BY <3>2, <3>3 DEF IsSpared
  <2> QED BY <2>1, <2>2
<1>2. rows = [t \in Tokens |-> rows[t]]
  BY DEF RevokeAllOf
<1>3. RevokedFrom(rows)
  <2> HIDE DEF rows
  <2> QED BY <1>1, <1>2 DEF RevokedFrom, From
<1> QED BY <1>1, <1>3

\* req' has the requests of req, some of them over or overtaken.
KeptRequests ==
  /\ req' \in [Reqs -> Requests]
  /\ \A r \in Reqs :
       \/ req'[r] = IdleReq
       \/ req'[r] = req[r]
       \/ /\ req[r].pc \in {"create", "rotate"}
          /\ req'[r] = Raced(req[r])

\* What KeptRequests says of a request that still has something to create.
LEMMA KeptShape ==
  ASSUME TypeOK, KeptRequests, NEW r \in Reqs, req'[r].pc \in OfToken \cup {"create"}
  PROVE  /\ req'[r].pc = req[r].pc
         /\ req'[r].user = req[r].user
         /\ req[r].pc \in OfToken => req'[r].tok = req[r].tok
         /\ req'[r].pc \in {"create", "rotate"} => req'[r].tenant = req[r].tenant
         /\ req'[r].pc \in {"create", "rotate"} /\ ~ IsRaced(req'[r]) => req'[r] = req[r]
<1>1. req[r] \in Requests /\ req'[r] # IdleReq
  BY IdleBuilt DEF TypeOK, OfToken
<1>2. CASE req'[r] = req[r]
  BY <1>2
<1>3. CASE req[r].pc \in {"create", "rotate"} /\ req'[r] = Raced(req[r])
  BY <1>1, <1>3, OvertakenShape DEF OfToken
<1> QED BY <1>1, <1>2, <1>3 DEF KeptRequests

LEMMA OvertakeKeeps ==
  ASSUME TypeOK, NEW r \in Reqs, NEW u, req' = Overtake(r, u)
  PROVE  /\ KeptRequests
         /\ \A s \in Reqs : req'[s].pc \in {"create", "rotate"} /\ ~ IsRaced(req'[s])
              => req'[s].user # u
<1>1. ASSUME NEW s \in Reqs
      PROVE  /\ req'[s] \in Requests
             /\ \/ req'[s] = IdleReq
                \/ req'[s] = req[s]
                \/ req[s].pc \in {"create", "rotate"} /\ req'[s] = Raced(req[s])
             /\ req'[s].pc \in {"create", "rotate"} /\ ~ IsRaced(req'[s]) => req'[s].user # u
  <2>1. req[s] \in Requests
    BY DEF TypeOK
  <2>2. CASE s = r
    <3>1. req'[s] = IdleReq
      BY <2>2 DEF Overtake
    <3> QED BY <3>1, IdleBuilt
  <2>3. CASE s # r /\ req[s].pc \in {"create", "rotate"} /\ req[s].user = u
    <3>1. req'[s] = Raced(req[s])
      BY <2>3 DEF Overtake, Raced
    <3> QED BY <2>1, <2>3, <3>1, OvertakenShape
  <2>4. CASE s # r /\ ~ (req[s].pc \in {"create", "rotate"} /\ req[s].user = u)
    <3>1. req'[s] = req[s]
      BY <2>4 DEF Overtake
    <3> QED BY <2>1, <2>4, <3>1
  <2> QED BY <2>2, <2>3, <2>4
<1>2. req' = [s \in Reqs |-> req'[s]]
  BY DEF Overtake
<1> QED BY <1>1, <1>2 DEF KeptRequests

-----------------------------------------------------------------------------
(* The kinds of step *)

OthersTyped ==
  /\ tenant' \in [Users -> Tenants]
  /\ status' \in [Users -> Statuses]
  /\ moves' \in [Users -> 0 .. MaxMoves]
  /\ reset' \in [Resets -> {NoReset} \cup ResetRow]
  /\ \A x \in Resets : reset[x].state # "none" => reset'[x].state # "none"
  /\ faults' \in 0 .. MaxFaults

\* Sessions are revoked, requests end or are overtaken.
LEMMA RevokeStep ==
  ASSUME IInv, NEW rows, RevokedFrom(rows), token' = rows, UNCHANGED pwd, KeptRequests,
         OthersTyped
  PROVE  IInv'
<1>1. TypeOK'
  BY DEF IInv, TypeOK, RevokedFrom, KeptRequests, OthersTyped, Rows
<1>2. ASSUME NEW t \in Tokens
      PROVE  From(token'[t], token[t])
  BY DEF RevokedFrom
<1>3. ASSUME NEW r \in Reqs, req'[r].pc \in OfToken \cup {"create"}
      PROVE  /\ req'[r].pc = req[r].pc
             /\ req'[r].user = req[r].user
             /\ req[r].pc \in OfToken => req'[r].tok = req[r].tok /\ req[r].tok \in Tokens
             /\ req'[r].pc \in {"create", "rotate"} /\ ~ IsRaced(req'[r]) => req'[r] = req[r]
  BY <1>3, KeptShape, ReqShape DEF IInv, TypeOK
<1>4. ReadTokens'
  BY <1>2, <1>3 DEF IInv, ReadTokens, From
<1>5. FamilyOfOneUser'
  <2>1. ASSUME NEW t \in Tokens, token[t].state # "none"
        PROVE  token[t].family \in Tokens
    BY <2>1, RowShape DEF IInv, TypeOK, Rows
  <2> QED BY <1>2, <2>1 DEF IInv, FamilyOfOneUser, From
<1>6. PasswordsRead'
  <2>1. ASSUME NEW r \in Reqs, req'[r].pc = "create", ~ IsRaced(req'[r])
        PROVE  req'[r].pwd = pwd'[req'[r].user]
    BY <1>3, <2>1 DEF IInv, PasswordsRead
  <2>2. ASSUME NEW r \in Reqs, NEW t, t = req'[r].tok, req'[r].pc = "rotate",
               ~ IsRaced(req'[r]), ~ IsRaced(token'[t]), ~ IsSpared(token'[t])
        PROVE  token'[t].pwd = pwd'[req'[r].user]
    <3>1. req'[r] = req[r] /\ t \in Tokens
      BY <1>3, <2>2 DEF OfToken
    <3>2. ~ IsRaced(token[t]) /\ ~ IsSpared(token[t]) /\ token'[t].pwd = token[t].pwd
      BY <1>2, <2>2, <3>1 DEF From
    <3> QED BY <2>2, <3>1, <3>2 DEF IInv, PasswordsRead
  <2> QED BY <2>1, <2>2 DEF PasswordsRead, IsRaced, IsSpared
<1>7. OldSpared'
  <2>1. ASSUME NEW t \in Tokens, NEW x, x = token'[t], x.state = "live",
               ~ IsRaced(x), ~ IsSpared(x)
        PROVE  x.pwd = pwd'[x.user]
    BY <1>2, <2>1 DEF IInv, OldSpared, Live, From
  <2> QED BY <2>1 DEF OldSpared, Live, IsRaced, IsSpared
<1>8. ReadResets'
  <2>1. ASSUME NEW r \in Reqs
        PROVE  ResetsOf(req'[r]) \in {{}, ResetsOf(req[r])}
    BY OvertakenShape, IdleBuilt DEF IInv, TypeOK, KeptRequests, ResetsOf
  <2> QED BY <2>1 DEF IInv, ReadResets, OthersTyped
<1> QED BY <1>1, <1>4, <1>5, <1>6, <1>7, <1>8 DEF IInv

\* A request goes on with what it has read.
LEMMA ReadStep ==
  ASSUME IInv, NEW r \in Reqs, NEW q \in Requests, req' = [req EXCEPT ![r] = q],
         UNCHANGED <<pwd, token>>, OthersTyped,
         q.pc \in OfToken => token[q.tok].state # "none" /\ q.user = token[q.tok].user,
         q.pc = "create" => q.pwd = pwd[q.user],
         q.pc = "rotate" /\ ~ IsRaced(token[q.tok]) /\ ~ IsSpared(token[q.tok])
           => token[q.tok].pwd = pwd[q.user],
         \A x \in ResetsOf(q) : x \in Resets /\ reset[x].state # "none"
  PROVE  IInv'
<1>1. TypeOK'
  BY DEF IInv, TypeOK, OthersTyped
<1>2. \A s \in Reqs : req'[s] = IF s = r THEN q ELSE req[s]
  BY DEF IInv, TypeOK
<1>3. ReadTokens'
  BY <1>2 DEF IInv, ReadTokens
<1>4. FamilyOfOneUser'
  BY DEF IInv, FamilyOfOneUser
<1>5. PasswordsRead'
  BY <1>2 DEF IInv, PasswordsRead, IsRaced, IsSpared
<1>6. OldSpared'
  BY DEF IInv, OldSpared, Live, IsRaced, IsSpared
<1>7. ReadResets'
  BY <1>2 DEF IInv, ReadResets, OthersTyped
<1> QED BY <1>1, <1>3, <1>4, <1>5, <1>6, <1>7 DEF IInv

\* A request ends with a new session, others may be revoked.
LEMMA CreateStep ==
  ASSUME IInv, NEW r \in Reqs, NEW n \in Tokens, NEW rows, RevokedFrom(rows),
         NEW new \in SessionRow, new.state = "live",
         token[n].state = "none", token' = [rows EXCEPT ![n] = new],
         \/ new.family = n
         \/ /\ token[new.family].family = new.family
            /\ token[new.family].user = new.user /\ token[new.family].state # "none",
         ~ IsRaced(new) /\ ~ IsSpared(new) => new.pwd = pwd[new.user],
         req' = [req EXCEPT ![r] = IdleReq],
         UNCHANGED pwd, OthersTyped
  PROVE  IInv'
<1>1. new \in Rows /\ new.family \in Tokens
  BY DEF Rows, SessionRow
<1>2. TypeOK'
  BY <1>1, IdleBuilt DEF IInv, TypeOK, RevokedFrom, OthersTyped, Rows
<1>3. token'[n] = new
  BY DEF RevokedFrom
<1>4. ASSUME NEW t \in Tokens \ {n}
      PROVE  From(token'[t], token[t])
  BY DEF RevokedFrom
<1>5. \A s \in Reqs : req'[s] = IF s = r THEN IdleReq ELSE req[s]
  BY DEF IInv, TypeOK
<1>6. ASSUME NEW s \in Reqs, req'[s].pc \in OfToken \cup {"create"}
      PROVE  req'[s] = req[s]
  BY <1>5, <1>6, IdleBuilt DEF OfToken
<1>7. ASSUME NEW s \in Reqs, req[s].pc \in OfToken
      PROVE  req[s].tok \in Tokens \ {n}
  BY <1>7, ReqShape DEF IInv, TypeOK, ReadTokens
<1>8. ReadTokens'
  BY <1>4, <1>6, <1>7 DEF IInv, ReadTokens, From
<1>9. FamilyOfOneUser'
  <2>1. ASSUME NEW t \in Tokens \ {n}, token'[t].state # "none"
        PROVE  /\ token'[token'[t].family].family = token'[t].family
               /\ token'[token'[t].family].user = token'[t].user
    <3> DEFINE g == token[t].family
    <3>1. g \in Tokens /\ token[g].family = g /\ token[g].user = token[t].user
      BY <1>4, <2>1, RowShape DEF IInv, TypeOK, Rows, FamilyOfOneUser, From
    <3>2. g # n
      <4>1. token[n] = NoToken
        BY RowShape DEF IInv, TypeOK, Rows, SessionRow
      <4>2. token[n].family = "none" /\ "none" \notin Tokens
        BY <4>1, ConstantsAssumption DEF NoToken, Session
      <4> QED BY <3>1, <4>2
    <3>3. token'[t].family = g /\ token'[t].user = token[t].user
      BY <1>4 DEF From
    <3>4. token'[g].family = g /\ token'[g].user = token[t].user
      BY <1>4, <3>1, <3>2 DEF From
    <3> QED BY <3>3, <3>4
  <2>2. token'[new.family].family = new.family /\ token'[new.family].user = new.user
    BY <1>1, <1>3, <1>4 DEF From
  <2> QED BY <1>3, <2>1, <2>2 DEF FamilyOfOneUser
<1>10. PasswordsRead'
  <2>1. ASSUME NEW s \in Reqs, req'[s].pc = "create", ~ IsRaced(req'[s])
        PROVE  req'[s].pwd = pwd'[req'[s].user]
    BY <1>6, <2>1 DEF IInv, PasswordsRead
  <2>2. ASSUME NEW s \in Reqs, NEW t, t = req'[s].tok, req'[s].pc = "rotate",
               ~ IsRaced(req'[s]), ~ IsRaced(token'[t]), ~ IsSpared(token'[t])
        PROVE  token'[t].pwd = pwd'[req'[s].user]
    <3>1. req'[s] = req[s] /\ t \in Tokens \ {n}
      BY <1>6, <1>7, <2>2 DEF OfToken
    <3>2. ~ IsRaced(token[t]) /\ ~ IsSpared(token[t]) /\ token'[t].pwd = token[t].pwd
      BY <1>4, <2>2, <3>1 DEF From
    <3> QED BY <2>2, <3>1, <3>2 DEF IInv, PasswordsRead
  <2> QED BY <2>1, <2>2 DEF PasswordsRead, IsRaced, IsSpared
<1>11. OldSpared'
  <2>1. ASSUME NEW t \in Tokens, NEW x, x = token'[t], x.state = "live",
               ~ IsRaced(x), ~ IsSpared(x)
        PROVE  x.pwd = pwd'[x.user]
    <3>1. CASE t = n
      BY <1>3, <2>1, <3>1
    <3>2. CASE t # n
      BY <1>4, <2>1, <3>2 DEF IInv, OldSpared, Live, From
    <3> QED BY <3>1, <3>2
  <2> QED BY <2>1 DEF OldSpared, Live, IsRaced, IsSpared
<1>12. ReadResets'
  <2>1. ResetsOf(IdleReq) = {}
    BY IdleBuilt DEF ResetsOf
  <2> QED BY <1>5, <2>1 DEF IInv, ReadResets, OthersTyped
<1> QED BY <1>2, <1>8, <1>9, <1>10, <1>11, <1>12 DEF IInv

LEMMA ResetBuilt ==
  ASSUME NEW u \in Users, NEW n \in Tenants, NEW rc \in BOOLEAN,
         NEW st \in {"unused", "used"}
  PROVE  /\ ResetToken(st, u, n, rc) \in ResetRow
         /\ ResetToken(st, u, n, rc).state = st
  BY DEF ResetToken, ResetRow

LEMMA ResetShape ==
  ASSUME NEW y \in {NoReset} \cup ResetRow
  PROVE  /\ y.state # "none" => y \in ResetRow
         /\ y \in ResetRow =>
              /\ y.state \in {"unused", "used"} /\ y.user \in Users
              /\ y.tenant \in Tenants /\ y.raced \in BOOLEAN
              /\ [y EXCEPT !.state = "used"] \in ResetRow
              /\ [y EXCEPT !.state = "used"].state = "used"
  BY DEF NoReset, ResetToken, ResetRow

\* A password is set: the sessions of the user are revoked or spared and the
\* requests that would still create one are overtaken.
LEMMA PasswordStep ==
  ASSUME IInv, NEW r \in Reqs, PasswordWrite(r)
  PROVE  IInv'
<1> DEFINE u == req[r].user
           x == req[r].reset
           rows == RevokeAllOf(u, req[r].from)
           used == UseUp(x)
<1>1. u \in Users /\ x \in Resets \cup {"none"} /\ (x # "none" => reset[x].state # "none")
  BY ReqShape DEF IInv, TypeOK, PasswordWrite, ReadResets, ResetsOf
<1>2. /\ pwd' = [pwd EXCEPT ![u] = @ + 1] /\ pwd[u] < MaxPwd
      /\ token' = rows /\ req' = Overtake(r, u) /\ reset' = used
      /\ UNCHANGED <<tenant, status, moves, faults>>
  BY DEF PasswordWrite
<1>3. /\ RevokedFrom(rows)
      /\ \A t \in Tokens : token[t].user = u /\ rows[t].state = "live" => IsSpared(rows[t])
  BY RevokedAll DEF IInv
<1> HIDE DEF rows
<1>4. pwd' \in [Users -> 0 .. MaxPwd]
  BY <1>1, <1>2, ConstantsAssumption DEF IInv, TypeOK
<1>5. used \in [Resets -> {NoReset} \cup ResetRow]
      /\ \A y \in Resets : reset[y].state # "none" => used[y].state # "none"
  <2>1. CASE x = "none"
    BY <2>1 DEF IInv, TypeOK, UseUp
  <2>2. CASE x # "none"
    <3> DEFINE new == [reset[x] EXCEPT !.state = "used"]
    <3>1. reset[x] \in ResetRow
      BY <1>1, <2>2, ResetShape DEF IInv, TypeOK
    <3>2. new \in ResetRow /\ new.state = "used"
      BY <3>1, ResetShape
    <3>3. used = [reset EXCEPT ![x] = new]
      BY <2>2 DEF UseUp
    <3> HIDE DEF new, used
    <3> QED BY <3>2, <3>3 DEF IInv, TypeOK
  <2> QED BY <2>1, <2>2
<1>6. KeptRequests /\ \A s \in Reqs : req'[s].pc \in {"create", "rotate"} /\ ~ IsRaced(req'[s])
                        => req'[s].user # u
  BY <1>2, OvertakeKeeps DEF IInv
<1> HIDE DEF used
<1>7. TypeOK'
  BY <1>2, <1>3, <1>4, <1>5, <1>6 DEF IInv, TypeOK, RevokedFrom, KeptRequests, Rows
<1>8. ASSUME NEW t \in Tokens
      PROVE  /\ From(token'[t], token[t])
             /\ token[t].user = u /\ token'[t].state = "live" => IsSpared(token'[t])
  BY <1>2, <1>3 DEF RevokedFrom
<1>9. ASSUME NEW s \in Reqs, req'[s].pc \in OfToken \cup {"create"}
      PROVE  /\ req'[s].pc = req[s].pc
             /\ req'[s].user = req[s].user /\ req[s].user \in Users
             /\ req[s].pc \in OfToken => req'[s].tok = req[s].tok /\ req[s].tok \in Tokens
             /\ req'[s].pc \in {"create", "rotate"} /\ ~ IsRaced(req'[s]) => req'[s] = req[s]
  BY <1>6, <1>9, KeptShape, ReqShape DEF IInv, TypeOK, OfToken
<1>10. \A v \in Users : v # u => pwd'[v] = pwd[v]
  BY <1>2 DEF IInv, TypeOK
<1>11. ReadTokens'
  BY <1>8, <1>9 DEF IInv, ReadTokens, From
<1>12. ASSUME NEW t \in Tokens, token[t].state # "none"
       PROVE  token[t].family \in Tokens /\ token[t].user \in Users
  BY <1>12, RowShape DEF IInv, TypeOK, Rows
<1>13. FamilyOfOneUser'
  BY <1>8, <1>12 DEF IInv, FamilyOfOneUser, From
<1>14. PasswordsRead'
  <2>1. ASSUME NEW s \in Reqs, req'[s].pc = "create", ~ IsRaced(req'[s])
        PROVE  req'[s].pwd = pwd'[req'[s].user]
    BY <1>6, <1>9, <1>10, <2>1 DEF IInv, PasswordsRead
  <2>2. ASSUME NEW s \in Reqs, NEW t, t = req'[s].tok, req'[s].pc = "rotate",
               ~ IsRaced(req'[s]), ~ IsRaced(token'[t]), ~ IsSpared(token'[t])
        PROVE  token'[t].pwd = pwd'[req'[s].user]
    <3>1. req'[s] = req[s] /\ t \in Tokens /\ req[s].user \in Users /\ req[s].user # u
      BY <1>6, <1>9, <2>2 DEF OfToken
    <3>2. ~ IsRaced(token[t]) /\ ~ IsSpared(token[t]) /\ token'[t].pwd = token[t].pwd
      BY <1>8, <2>2, <3>1 DEF From
    <3> QED BY <1>10, <2>2, <3>1, <3>2 DEF IInv, PasswordsRead
  <2> QED BY <2>1, <2>2 DEF PasswordsRead, IsRaced, IsSpared
<1>15. OldSpared'
  <2>1. ASSUME NEW t \in Tokens, NEW y, y = token'[t], y.state = "live",
               ~ IsRaced(y), ~ IsSpared(y)
        PROVE  y.pwd = pwd'[y.user]
    <3>1. /\ From(y, token[t]) /\ token[t].user # u
          /\ token[t].state = "live"
      BY <1>8, <2>1 DEF From
    <3> QED BY <1>10, <1>12, <2>1, <3>1 DEF IInv, OldSpared, Live, From
  <2> QED BY <2>1 DEF OldSpared, Live, IsRaced, IsSpared
<1>16. ReadResets'
  <2>1. ASSUME NEW s \in Reqs
        PROVE  ResetsOf(req'[s]) \in {{}, ResetsOf(req[s])}
    BY <1>6, OvertakenShape, IdleBuilt DEF IInv, TypeOK, KeptRequests, ResetsOf
  <2> QED BY <1>2, <1>5, <2>1 DEF IInv, ReadResets
<1> QED BY <1>7, <1>11, <1>13, <1>14, <1>15, <1>16 DEF IInv

LEMMA SameRows == TypeOK => RevokedFrom(token)
  BY DEF TypeOK, RevokedFrom, Rows, From

LEMMA KeptIdle ==
  ASSUME TypeOK, NEW r \in Reqs, req' = [req EXCEPT ![r] = IdleReq]
  PROVE  KeptRequests
  BY IdleBuilt DEF TypeOK, KeptRequests

LEMMA KeptSame ==
  ASSUME TypeOK, UNCHANGED req
  PROVE  KeptRequests
  BY DEF TypeOK, KeptRequests

\* A request that has read a token.
ReadAs(q, t) ==
  \/ q = Rotating(t, token[t].user, tenant[token[t].user]) /\ token[t].state = "live"
  \/ \E pc \in {"reuse", "logout"} : q = OnToken(pc, t, token[t].user)

LEMMA ReadAsShape ==
  ASSUME TypeOK, NEW t \in Tokens, token[t].state # "none", NEW q, ReadAs(q, t)
  PROVE  /\ q \in Requests /\ q.tok = t /\ q.user = token[t].user /\ q.pc \in OfToken
         /\ q.pc = "rotate" =>
              /\ token[t].state = "live" /\ q.tenant = tenant[q.user] /\ q.past = {}
         /\ ResetsOf(q) = {} /\ token[t].user \in Users
<1>1. token[t].user \in Users
  BY RowShape DEF TypeOK, Rows
<1>2. tenant[token[t].user] \in Tenants
  BY <1>1 DEF TypeOK
<1>3. CASE q = Rotating(t, token[t].user, tenant[token[t].user]) /\ token[t].state = "live"
  BY <1>1, <1>2, <1>3 DEF Requests, OfToken, Rotating, ResetsOf
<1>4. CASE \E pc \in {"reuse", "logout"} : q = OnToken(pc, t, token[t].user)
  BY <1>1, <1>4 DEF Requests, OfToken, OnToken, ResetsOf
<1> QED BY <1>3, <1>4 DEF ReadAs

\* A request that reads a token goes on with it.
LEMMA TokenRead ==
  ASSUME IInv, NEW r \in Reqs, NEW t \in Tokens, token[t].state # "none",
         NEW q, ReadAs(q, t), req' = [req EXCEPT ![r] = q],
         UNCHANGED <<tenant, status, moves, pwd, token, reset, faults>>
  PROVE  IInv'
<1>1. /\ q \in Requests /\ q.tok = t /\ q.user = token[t].user /\ q.pc \in OfToken
      /\ q.pc = "rotate" => token[t].state = "live"
      /\ ResetsOf(q) = {}
  BY ReadAsShape DEF IInv
<1>2. q.pc = "rotate" /\ ~ IsRaced(token[q.tok]) /\ ~ IsSpared(token[q.tok])
        => token[q.tok].pwd = pwd[q.user]
  BY <1>1 DEF IInv, OldSpared, Live
<1>3. OthersTyped
  BY DEF IInv, TypeOK, OthersTyped
<1>4. q.pc # "create"
  BY <1>1 DEF OfToken
<1> QED BY <1>1, <1>2, <1>3, <1>4, ReadStep

\* A request goes on without a token.
LEMMA OtherRead ==
  ASSUME IInv, NEW r \in Reqs, NEW q \in Requests, req' = [req EXCEPT ![r] = q],
         q.pc \notin OfToken, q.pc = "create" => q.pwd = pwd[q.user],
         \A x \in ResetsOf(q) : x \in Resets /\ reset[x].state # "none",
         UNCHANGED <<pwd, token>>, OthersTyped
  PROVE  IInv'
  BY ReadStep DEF OfToken

\* A login, and what it creates.
LEMMA LoginShape ==
  ASSUME IInv, NEW r \in Reqs, LoginCreate(r)
  PROVE  \E t \in Tokens, new \in SessionRow :
           /\ token[t].state = "none" /\ token' = [token EXCEPT ![t] = new]
           /\ new.state = "live" /\ new.family = t /\ new.user = req[r].user
           /\ new.tenant = req[r].tenant /\ new.pwd = req[r].pwd
           /\ new.past = req[r].past
<1>1. PICK t \in Tokens :
        /\ token[t].state = "none"
        /\ token' = [token EXCEPT ![t] =
             Session("live", req[r].user, req[r].tenant, t, req[r].pwd, req[r].past)]
  BY DEF LoginCreate
<1>2. /\ req[r].user \in Users /\ req[r].tenant \in Tenants
      /\ req[r].pwd \in 0 .. MaxPwd /\ req[r].past \in SUBSET Marks
  BY ReqShape DEF IInv, TypeOK, LoginCreate
<1>3. PICK new :
        new = Session("live", req[r].user, req[r].tenant, t, req[r].pwd, req[r].past)
  OBVIOUS
<1>4. /\ new \in SessionRow /\ new.state = "live" /\ new.family = t
      /\ new.user = req[r].user
      /\ new.tenant = req[r].tenant /\ new.pwd = req[r].pwd /\ new.past = req[r].past
  BY <1>2, <1>3, SessionBuilt
<1>5. token[t].state = "none" /\ token' = [token EXCEPT ![t] = new]
  BY <1>1, <1>3
<1> QED BY <1>4, <1>5

LEMMA LoginCreateStep ==
  ASSUME IInv, NEW r \in Reqs, LoginCreate(r)
  PROVE  IInv'
<1>1. PICK t \in Tokens, new \in SessionRow :
           /\ token[t].state = "none" /\ token' = [token EXCEPT ![t] = new]
           /\ new.state = "live" /\ new.family = t /\ new.user = req[r].user
           /\ new.tenant = req[r].tenant /\ new.pwd = req[r].pwd
           /\ new.past = req[r].past
  BY LoginShape
<1>2. ~ IsRaced(new) => new.pwd = pwd[new.user]
  BY <1>1 DEF IInv, PasswordsRead, LoginCreate, IsRaced
<1>3. OthersTyped /\ UNCHANGED pwd /\ req' = [req EXCEPT ![r] = IdleReq]
  BY DEF IInv, TypeOK, LoginCreate, OthersTyped, account
<1>4. RevokedFrom(token)
  BY SameRows DEF IInv
<1> QED BY <1>1, <1>2, <1>3, <1>4, CreateStep

\* A rotation of t, and what it creates.
LEMMA RotateOf ==
  ASSUME IInv, NEW r \in Reqs, Rotate(r), NEW t, t = req[r].tok
  PROVE  /\ t \in Tokens /\ token[t].state # "none" /\ token[t] \in SessionRow
         /\ req[r].user = token[t].user
<1>1. t \in Tokens /\ token[t].state # "none" /\ req[r].user = token[t].user
  BY ReqShape DEF IInv, TypeOK, ReadTokens, Rotate, OfToken
<1>2. token[t] \in SessionRow
  BY <1>1, RowShape DEF IInv, TypeOK, Rows
<1> QED BY <1>1, <1>2

LEMMA RotateShape ==
  ASSUME IInv, NEW r \in Reqs, Rotate(r), NEW t, t = req[r].tok
  PROVE  /\ t \in Tokens /\ token[t].state # "none" /\ token[t] \in SessionRow
         /\ req[r].user = token[t].user
         /\ \E n \in Tokens, new \in SessionRow :
              /\ token[n].state = "none" /\ token' = [Revoked({t}) EXCEPT ![n] = new]
              /\ new.state = "live" /\ new.family = token[t].family
              /\ new.user = req[r].user
              /\ new.tenant = req[r].tenant /\ new.pwd = token[t].pwd
              /\ IsRaced(new) <=> IsRaced(req[r]) \/ IsRaced(token[t])
              /\ IsSpared(new) <=> IsSpared(req[r]) \/ IsSpared(token[t])
              /\ IsForked(new) <=> \/ IsForked(req[r]) \/ IsForked(token[t])
                                   \/ token[t].state # "live"
<1>1. t \in Tokens /\ req[r].user \in Users /\ req[r].tenant \in Tenants
      /\ req[r].past \in SUBSET Marks
      /\ token[t].state # "none" /\ req[r].user = token[t].user
  BY ReqShape DEF IInv, TypeOK, ReadTokens, Rotate, OfToken
<1>2. /\ token[t] \in SessionRow
      /\ token[t].family \in Tokens /\ token[t].pwd \in 0 .. MaxPwd
      /\ token[t].past \in SUBSET Marks
  BY <1>1, RowShape DEF IInv, TypeOK, Rows
<1>3. PICK fork : fork = IF token[t].state = "live" THEN {} ELSE {"forked"}
  OBVIOUS
<1>4. PICK h : h = req[r].past \cup token[t].past \cup fork
  OBVIOUS
<1>5. h \in SUBSET Marks
  BY <1>1, <1>2, <1>3, <1>4 DEF Marks
<1>6. PICK n \in Tokens :
        /\ token[n].state = "none"
        /\ token' = [Revoked({t}) EXCEPT ![n] =
             Session("live", req[r].user, req[r].tenant, token[t].family, token[t].pwd, h)]
  BY <1>3, <1>4 DEF Rotate
<1>7. PICK new :
        new = Session("live", req[r].user, req[r].tenant, token[t].family, token[t].pwd, h)
  OBVIOUS
<1>8. /\ new \in SessionRow /\ new.state = "live" /\ new.family = token[t].family
      /\ new.user = req[r].user
      /\ new.tenant = req[r].tenant /\ new.pwd = token[t].pwd /\ new.past = h
  BY <1>1, <1>2, <1>5, <1>7, SessionBuilt
<1>9. /\ IsRaced(new) <=> IsRaced(req[r]) \/ IsRaced(token[t])
      /\ IsSpared(new) <=> IsSpared(req[r]) \/ IsSpared(token[t])
      /\ IsForked(new) <=> \/ IsForked(req[r]) \/ IsForked(token[t])
                           \/ token[t].state # "live"
  BY <1>3, <1>4, <1>8 DEF IsRaced, IsSpared, IsForked
<1>10. token[n].state = "none" /\ token' = [Revoked({t}) EXCEPT ![n] = new]
  BY <1>6, <1>7
<1> QED BY <1>1, <1>2, <1>8, <1>9, <1>10

LEMMA RotateStep ==
  ASSUME IInv, NEW r \in Reqs, Rotate(r)
  PROVE  IInv'
<1>0. PICK t, f : t = req[r].tok /\ f = token[t].family
  OBVIOUS
<1>1. PICK n \in Tokens, new \in SessionRow :
        /\ token[n].state = "none" /\ token' = [Revoked({t}) EXCEPT ![n] = new]
        /\ new.state = "live" /\ new.family = f /\ new.user = req[r].user
        /\ new.pwd = token[t].pwd
        /\ IsRaced(new) <=> IsRaced(req[r]) \/ IsRaced(token[t])
        /\ IsSpared(new) <=> IsSpared(req[r]) \/ IsSpared(token[t])
  BY <1>0, RotateShape
<1>2. t \in Tokens /\ token[t].state # "none" /\ req[r].user = token[t].user
      /\ token[t] \in SessionRow
  BY <1>0, RotateOf
<1>3. f \in Tokens
  BY <1>0, <1>2 DEF SessionRow
<1>4. ~ IsRaced(new) /\ ~ IsSpared(new) => new.pwd = pwd[new.user]
  BY <1>0, <1>1 DEF IInv, PasswordsRead, Rotate
<1>5. token[f].family = f /\ token[f].user = new.user /\ token[f].state # "none"
  <2>1. token[f].family = f /\ token[f].user = new.user
    BY <1>0, <1>1, <1>2 DEF IInv, FamilyOfOneUser
  <2>2. token[f] # NoToken
    BY <1>3, <2>1, ConstantsAssumption DEF NoToken, Session
  <2> QED BY <1>3, <2>1, <2>2 DEF IInv, TypeOK, SessionRow
<1>6. OthersTyped /\ UNCHANGED pwd /\ req' = [req EXCEPT ![r] = IdleReq]
  BY DEF IInv, TypeOK, Rotate, OthersTyped, account
<1>7. RevokedFrom(Revoked({t}))
  BY RevokedSome DEF IInv
<1> QED BY <1>1, <1>4, <1>5, <1>6, <1>7, CreateStep

LEMMA ForgotCommitStep ==
  ASSUME IInv, NEW r \in Reqs, ForgotCommit(r)
  PROVE  IInv'
<1> DEFINE u == req[r].user
           m == req[r].tenant
           seen == req[r].seen
           rc == ~ (Unused(u, m) \subseteq seen)
<1>1. PICK x \in Resets : reset' = [y \in Resets |->
        IF y = x THEN ResetToken("unused", u, m, rc)
        ELSE IF y \in seen THEN [reset[y] EXCEPT !.state = "used"] ELSE reset[y]]
  BY DEF ForgotCommit
<1>2. u \in Users /\ m \in Tenants /\ rc \in BOOLEAN /\ \A y \in seen : y \in Resets /\ reset[y].state # "none"
  BY ReqShape DEF IInv, TypeOK, ForgotCommit, ReadResets, ResetsOf
<1> HIDE DEF u, m, seen, rc
<1>3. ASSUME NEW y \in Resets
      PROVE  /\ reset'[y] \in {NoReset} \cup ResetRow
             /\ reset[y].state # "none" => reset'[y].state # "none"
  <2>1. CASE y = x
    BY <1>1, <1>2, <2>1, ResetBuilt
  <2>2. CASE y # x /\ y \in seen
    <3>1. reset'[y] = [reset[y] EXCEPT !.state = "used"] /\ reset[y] \in ResetRow
      BY <1>1, <1>2, <2>2, ResetShape DEF IInv, TypeOK
    <3> QED BY <3>1, ResetShape
  <2>3. CASE y # x /\ y \notin seen
    BY <1>1, <2>3 DEF IInv, TypeOK
  <2> QED BY <2>1, <2>2, <2>3
<1>4. reset' = [y \in Resets |-> reset'[y]]
  BY <1>1
<1>5. OthersTyped
  BY <1>3, <1>4 DEF IInv, TypeOK, OthersTyped, ForgotCommit, account
<1>6. req' = [req EXCEPT ![r] = IdleReq] /\ UNCHANGED <<pwd, token>>
  BY DEF ForgotCommit, account
<1>7. IdleReq.pc \notin OfToken \cup {"create"} /\ ResetsOf(IdleReq) = {}
  BY IdleBuilt DEF OfToken, ResetsOf
<1> QED BY <1>5, <1>6, <1>7, IdleBuilt, OtherRead

-----------------------------------------------------------------------------
(* The invariant *)

LEMMA InitIInv == Init => IInv
<1> SUFFICES ASSUME Init PROVE IInv
  OBVIOUS
<1>1. \A t \in Tokens : token[t] = NoToken /\ NoToken.state = "none"
  BY DEF Init, NoToken, Session
<1>2. \A r \in Reqs : req[r] = IdleReq
  BY DEF Init
<1>3. TypeOK
  BY <1>2, IdleBuilt, ConstantsAssumption DEF Init, TypeOK, Statuses
<1>4. ReadTokens /\ ReadResets /\ PasswordsRead
  BY <1>2, IdleBuilt DEF ReadTokens, ReadResets, PasswordsRead, OfToken, ResetsOf
<1>5. FamilyOfOneUser /\ OldSpared
  BY <1>1 DEF FamilyOfOneUser, OldSpared, Live
<1> QED BY <1>3, <1>4, <1>5 DEF IInv

\* The requests that go on without a token.
OtherReads(q) ==
  \/ \E u \in Users :
       \/ q = Creating(u, tenant[u], pwd[u]) /\ Active(u)
       \/ q = Forgetting(u, tenant[u], Unused(u, tenant[u]))
       \/ q = Setting(u, "none", {tenant[u]})
       \/ q = Disabling(u, tenant[u])
  \/ \E x \in Resets : q = Setting(reset[x].user, x, Tenants) /\ reset[x].state = "unused"

LEMMA OtherReadsShape ==
  ASSUME TypeOK, NEW q, OtherReads(q)
  PROVE  /\ q \in Requests
         /\ q.pc \in {"create", "forgot", "password", "disable"}
         /\ q.pc = "create" =>
              q.pwd = pwd[q.user] /\ q.tenant = tenant[q.user] /\ q.past = {} /\ Active(q.user)
         /\ q.pc = "password" => tenant[q.user] \in q.from
         /\ q.pc = "disable" => q.tenant = tenant[q.user]
         /\ \A x \in ResetsOf(q) : x \in Resets /\ reset[x].state # "none"
<1>1. CASE \E x \in Resets : q = Setting(reset[x].user, x, Tenants) /\ reset[x].state = "unused"
  <2>1. PICK x \in Resets : q = Setting(reset[x].user, x, Tenants) /\ reset[x].state = "unused"
    BY <1>1
  <2>2. reset[x].user \in Users
    BY <2>1, ResetShape DEF TypeOK
  <2>3. tenant[reset[x].user] \in Tenants
    BY <2>2 DEF TypeOK
  <2> QED BY <2>1, <2>2, <2>3 DEF Requests, Setting, ResetsOf
<1>2. ASSUME NEW u \in Users,
             \/ q = Creating(u, tenant[u], pwd[u]) /\ Active(u)
             \/ q = Forgetting(u, tenant[u], Unused(u, tenant[u]))
             \/ q = Setting(u, "none", {tenant[u]})
             \/ q = Disabling(u, tenant[u])
      PROVE  /\ q \in Requests
             /\ q.pc \in {"create", "forgot", "password", "disable"}
             /\ q.pc = "create" =>
                  /\ q.pwd = pwd[q.user] /\ q.tenant = tenant[q.user] /\ q.past = {}
                  /\ Active(q.user)
             /\ q.pc = "password" => tenant[q.user] \in q.from
             /\ q.pc = "disable" => q.tenant = tenant[q.user]
             /\ \A x \in ResetsOf(q) : x \in Resets /\ reset[x].state # "none"
  <2>1. tenant[u] \in Tenants /\ pwd[u] \in 0 .. MaxPwd
    BY DEF TypeOK
  <2>2. CASE q = Creating(u, tenant[u], pwd[u]) /\ Active(u)
    BY <2>1, <2>2 DEF Requests, Creating, ResetsOf
  <2>3. CASE q = Forgetting(u, tenant[u], Unused(u, tenant[u]))
    BY <2>1, <2>3 DEF Requests, Forgetting, ResetsOf, Unused
  <2>4. CASE q = Setting(u, "none", {tenant[u]})
    BY <2>1, <2>4 DEF Requests, Setting, ResetsOf
  <2>5. CASE q = Disabling(u, tenant[u])
    BY <2>1, <2>5 DEF Requests, Disabling, ResetsOf
  <2> QED BY <1>2, <2>2, <2>3, <2>4, <2>5
<1>3. CASE \E u \in Users :
             \/ q = Creating(u, tenant[u], pwd[u]) /\ Active(u)
             \/ q = Forgetting(u, tenant[u], Unused(u, tenant[u]))
             \/ q = Setting(u, "none", {tenant[u]})
             \/ q = Disabling(u, tenant[u])
  BY <1>2, <1>3
<1> QED BY <1>1, <1>3 DEF OtherReads

(***************************************************************************)
(* The steps sorted by what they do to the sessions; what each invariant   *)
(* below has to be shown for.                                              *)
(***************************************************************************)
Same == UNCHANGED <<tenant, status, moves, pwd, reset, faults>>

\* Requests read.
ReadingStep(r) ==
  /\ req[r].pc = "idle" /\ Same /\ UNCHANGED token
  /\ \E q :
       /\ req' = [req EXCEPT ![r] = q]
       /\ OtherReads(q) \/ \E t \in Tokens : token[t].state # "none" /\ ReadAs(q, t)
       /\ q.pc = "rotate" => Active(q.user)

\* Sessions are revoked one by one or by a filter.
RevokingStep ==
  /\ Same
  /\ \E chosen : token' = Revoked(chosen)
  /\ \/ UNCHANGED req
     \/ \E r \in Reqs : req[r].pc \in {"reuse", "logout"} /\ req' = [req EXCEPT ![r] = IdleReq]

\* A request ends that leaves the sessions alone.
EndingStep(r) ==
  /\ req' = [req EXCEPT ![r] = IdleReq]
  /\ UNCHANGED <<tenant, status, moves, pwd, token>>
  /\ ForgotCommit(r) \/ RequestFails(r)

\* The account changes, and nothing else.
AccountStep ==
  /\ UNCHANGED <<pwd, token, reset, req, faults>>
  /\ \/ \E u \in Users : Enable(u)
     \/ \E u \in Users, n \in Tenants : Complete(u, n)

LEMMA Steps ==
  ASSUME TypeOK, [Next]_vars
  PROVE  \/ \E r \in Reqs :
              \/ ReadingStep(r) \/ EndingStep(r)
              \/ LoginCreate(r) \/ Rotate(r)
              \/ PasswordWrite(r) \/ DisableWrite(r) \/ DisableRevoke(r)
         \/ RevokingStep \/ AccountStep \/ UNCHANGED vars
<1>1. ASSUME NEW r \in Reqs, NEW u \in Users,
             LoginRead(r, u) \/ ForgotPick(r, u) \/ ChangeRead(r, u) \/ DisableRead(r, u)
      PROVE  ReadingStep(r)
  <2>1. /\ \E q : req' = [req EXCEPT ![r] = q] /\ OtherReads(q)
        /\ req[r].pc = "idle" /\ Same /\ UNCHANGED token
    <3>1. CASE LoginRead(r, u)
      BY <3>1 DEF LoginRead, OtherReads, account, Same
    <3>2. CASE ForgotPick(r, u)
      BY <3>2 DEF ForgotPick, OtherReads, account, Same
    <3>3. CASE ChangeRead(r, u)
      BY <3>3 DEF ChangeRead, OtherReads, account, Same
    <3>4. CASE DisableRead(r, u)
      BY <3>4 DEF DisableRead, OtherReads, account, Same
    <3> QED BY <1>1, <3>1, <3>2, <3>3, <3>4
  <2>2. PICK q : req' = [req EXCEPT ![r] = q] /\ OtherReads(q)
    BY <2>1
  <2>3. q.pc # "rotate"
    BY <2>2, OtherReadsShape
  <2> QED BY <2>1, <2>2, <2>3 DEF ReadingStep
<1>2. ASSUME NEW r \in Reqs, NEW x \in Resets, ResetRead(r, x)
      PROVE  ReadingStep(r)
  <2>1. PICK q : q = Setting(reset[x].user, x, Tenants)
    OBVIOUS
  <2>2. OtherReads(q) /\ req' = [req EXCEPT ![r] = q]
    BY <1>2, <2>1 DEF ResetRead, OtherReads
  <2>3. q.pc # "rotate"
    BY <2>2, OtherReadsShape
  <2> QED BY <1>2, <2>2, <2>3 DEF ReadingStep, ResetRead, account, Same
<1>3. ASSUME NEW r \in Reqs, NEW t \in Tokens,
             RefreshRead(r, t) \/ ReuseRead(r, t) \/ LogoutRead(r, t)
      PROVE  ReadingStep(r)
  <2>1. CASE RefreshRead(r, t)
    <3>1. PICK q : q = Rotating(t, token[t].user, tenant[token[t].user])
      OBVIOUS
    <3>2. ReadAs(q, t) /\ q.user = token[t].user /\ token[t].state # "none"
      BY <2>1, <3>1 DEF RefreshRead, ReadAs, Rotating
    <3> QED BY <2>1, <3>1, <3>2 DEF RefreshRead, ReadingStep, account, Same
  <2>2. CASE ReuseRead(r, t)
    <3>1. PICK q : q = OnToken("reuse", t, token[t].user)
      OBVIOUS
    <3>2. ReadAs(q, t) /\ q.pc # "rotate" /\ token[t].state # "none"
      BY <2>2, <3>1 DEF ReuseRead, ReadAs, OnToken
    <3> QED BY <2>2, <3>1, <3>2 DEF ReuseRead, ReadingStep, account, Same
  <2>3. CASE LogoutRead(r, t)
    <3>1. PICK q : q = OnToken("logout", t, token[t].user)
      OBVIOUS
    <3>2. ReadAs(q, t) /\ q.pc # "rotate" /\ token[t].state # "none"
      BY <2>3, <3>1 DEF LogoutRead, ReadAs, OnToken
    <3> QED BY <2>3, <3>1, <3>2 DEF LogoutRead, ReadingStep, account, Same
  <2> QED BY <1>3, <2>1, <2>2, <2>3
<1>4. ASSUME NEW r \in Reqs, ReuseRevoke(r) \/ LogoutWrite(r)
      PROVE  RevokingStep
  BY <1>4 DEF ReuseRevoke, LogoutWrite, RevokingStep, account, Same
<1>5. ASSUME NEW t \in Tokens, RevokeSession(t)
      PROVE  RevokingStep
  BY <1>5 DEF RevokeSession, RevokingStep, account, Same
<1>6. ASSUME NEW t \in Tokens, NEW n \in Tenants, RevokeOtherSessions(t, n)
      PROVE  RevokingStep
  BY <1>6 DEF RevokeOtherSessions, RevokingStep, account, Same
<1>7. ASSUME NEW u \in Users, NEW n \in Tenants, RevokeSessions(u, n)
      PROVE  RevokingStep
  BY <1>7 DEF RevokeSessions, RevokingStep, account, Same
<1>8. ASSUME NEW r \in Reqs, ForgotCommit(r) \/ RequestFails(r)
      PROVE  EndingStep(r)
  BY <1>8 DEF ForgotCommit, RequestFails, EndingStep, account
<1>9. ASSUME NEW u \in Users, Enable(u)
      PROVE  AccountStep
  BY <1>9 DEF Enable, AccountStep
<1>10. ASSUME NEW u \in Users, NEW n \in Tenants, Complete(u, n)
       PROVE  AccountStep
  BY <1>10 DEF Complete, AccountStep
<1> QED BY <1>1, <1>2, <1>3, <1>4, <1>5, <1>6, <1>7, <1>8, <1>9, <1>10 DEF Next

LEMMA RevokingShape ==
  ASSUME TypeOK, RevokingStep
  PROVE  /\ RevokedFrom(token') /\ \A t \in Tokens : token'[t].past = token[t].past
         /\ KeptRequests
         /\ \A r \in Reqs : req[r].pc = "revokeAll" => req'[r] = req[r]
         /\ UNCHANGED <<tenant, status, moves, pwd, reset, faults>>
<1>1. PICK chosen : token' = Revoked(chosen)
  BY DEF RevokingStep
<1>2. RevokedFrom(token') /\ \A t \in Tokens : token'[t].past = token[t].past
  BY <1>1, RevokedSome
<1>3. KeptRequests /\ \A r \in Reqs : req[r].pc = "revokeAll" => req'[r] = req[r]
  <2>1. CASE UNCHANGED req
    BY <2>1, KeptSame
  <2>2. CASE \E r \in Reqs : req[r].pc \in {"reuse", "logout"} /\ req' = [req EXCEPT ![r] = IdleReq]
    BY <2>2, KeptIdle DEF TypeOK
  <2> QED BY <2>1, <2>2 DEF RevokingStep
<1> QED BY <1>2, <1>3 DEF RevokingStep, Same

LEMMA ReadingIInv ==
  ASSUME IInv, NEW r \in Reqs, ReadingStep(r)
  PROVE  IInv'
<1>1. PICK q :
       /\ req' = [req EXCEPT ![r] = q]
       /\ OtherReads(q) \/ \E t \in Tokens : token[t].state # "none" /\ ReadAs(q, t)
  BY DEF ReadingStep
<1>2. UNCHANGED <<tenant, status, moves, pwd, token, reset, faults>> /\ OthersTyped
  BY DEF ReadingStep, Same, OthersTyped, IInv, TypeOK
<1>3. CASE OtherReads(q)
  <2>1. /\ q \in Requests /\ q.pc \notin OfToken
        /\ q.pc = "create" => q.pwd = pwd[q.user]
        /\ \A x \in ResetsOf(q) : x \in Resets /\ reset[x].state # "none"
    BY <1>3, OtherReadsShape DEF IInv, OfToken
  <2> QED BY <1>1, <1>2, <2>1, OtherRead
<1>4. CASE \E t \in Tokens : token[t].state # "none" /\ ReadAs(q, t)
  BY <1>1, <1>2, <1>4, TokenRead
<1> QED BY <1>1, <1>3, <1>4

LEMMA NextIInv == IInv /\ [Next]_vars => IInv'
<1> SUFFICES ASSUME IInv, [Next]_vars PROVE IInv'
  OBVIOUS
<1>t. TypeOK
  BY DEF IInv
<1>1. ASSUME NEW r \in Reqs, RequestFails(r)
      PROVE  IInv'
  <2>1. IdleReq \in Requests /\ IdleReq.pc \notin OfToken \cup {"create"} /\ ResetsOf(IdleReq) = {}
    BY IdleBuilt DEF OfToken, ResetsOf
  <2>2. req' = [req EXCEPT ![r] = IdleReq] /\ UNCHANGED <<pwd, token>> /\ OthersTyped
    BY <1>1, ConstantsAssumption DEF IInv, TypeOK, OthersTyped, RequestFails, account
  <2> QED BY <2>1, <2>2, OtherRead
<1>2. ASSUME RevokingStep
      PROVE  IInv'
  <2>1. RevokedFrom(token') /\ UNCHANGED pwd /\ KeptRequests /\ OthersTyped
    BY <1>2, <1>t, RevokingShape DEF OthersTyped, TypeOK
  <2> QED BY <2>1, RevokeStep
<1>3. ASSUME NEW r \in Reqs, DisableWrite(r)
      PROVE  IInv'
  <2>1. PICK q : q = Revoking(req[r].user, req[r].tenant)
    OBVIOUS
  <2>2. q \in Requests /\ q.pc = "revokeAll" /\ ResetsOf(q) = {}
    BY <1>3, <1>t, <2>1, ReqShape DEF Requests, Revoking, ResetsOf, DisableWrite, TypeOK
  <2>3. OthersTyped /\ UNCHANGED <<pwd, token>> /\ req' = [req EXCEPT ![r] = q]
    BY <1>3, <1>t, <2>1 DEF DisableWrite, OthersTyped, TypeOK, Statuses
  <2> QED BY <2>2, <2>3, OtherRead DEF OfToken
<1>4. ASSUME NEW r \in Reqs, DisableRevoke(r)
      PROVE  IInv'
  <2>1. KeptRequests
    BY <1>4, <1>t, OvertakeKeeps DEF DisableRevoke
  <2>2. RevokedFrom(token') /\ UNCHANGED pwd
    BY <1>4, <1>t, RevokedAll DEF DisableRevoke, account
  <2>3. OthersTyped
    BY <1>4, <1>t DEF DisableRevoke, TypeOK, OthersTyped, account
  <2> QED BY <2>1, <2>2, <2>3, RevokeStep
<1>5. ASSUME AccountStep
      PROVE  IInv'
  <2>1. RevokedFrom(token') /\ UNCHANGED pwd /\ KeptRequests
    BY <1>5, <1>t, SameRows, KeptSame DEF AccountStep
  <2>2. UNCHANGED <<reset, faults>>
    BY <1>5 DEF AccountStep
  <2>3. /\ tenant' \in [Users -> Tenants] /\ status' \in [Users -> Statuses]
        /\ moves' \in [Users -> 0 .. MaxMoves]
    <3>1. ASSUME NEW u \in Users, Enable(u)
          PROVE  /\ tenant' \in [Users -> Tenants] /\ status' \in [Users -> Statuses]
                 /\ moves' \in [Users -> 0 .. MaxMoves]
      BY <1>t, <3>1 DEF Enable, TypeOK, Statuses
    <3>2. ASSUME NEW u \in Users, NEW n \in Tenants, Complete(u, n)
          PROVE  /\ tenant' \in [Users -> Tenants] /\ status' \in [Users -> Statuses]
                 /\ moves' \in [Users -> 0 .. MaxMoves]
      BY <1>t, <3>2, ConstantsAssumption DEF Complete, TypeOK, Statuses
    <3> QED BY <1>5, <3>1, <3>2 DEF AccountStep
  <2>4. OthersTyped
    BY <1>t, <2>2, <2>3 DEF OthersTyped, TypeOK
  <2> QED BY <2>1, <2>4, RevokeStep
<1>6. ASSUME UNCHANGED vars
      PROVE  IInv'
  <2>1. RevokedFrom(token') /\ UNCHANGED pwd /\ KeptRequests /\ OthersTyped
    BY <1>6, <1>t, SameRows, KeptSame DEF vars, OthersTyped, TypeOK
  <2> QED BY <2>1, RevokeStep
<1>7. ASSUME NEW r \in Reqs, EndingStep(r)
      PROVE  IInv'
  BY <1>1, <1>7, ForgotCommitStep DEF EndingStep
<1> QED BY <1>t, <1>2, <1>3, <1>4, <1>5, <1>6, <1>7, Steps,
           ReadingIInv, LoginCreateStep, RotateStep, PasswordStep

\* The checked invariants, and what requests have read, hold in every reachable
\* state.
THEOREM SessionInvariant == Spec => []IInv
  BY InitIInv, NextIInv, PTL DEF Spec

\* Every reachable state has its declared types.
THEOREM TypeCorrect == Spec => []TypeOK
<1>1. IInv => TypeOK
  BY DEF IInv
<1> QED BY <1>1, SessionInvariant, PTL

-----------------------------------------------------------------------------
(* Accounts that move *)

\* What is of another tenant than its user belongs to an account that has moved.
Stayed ==
  /\ \A t \in Tokens : token[t].state # "none" /\ moves[token[t].user] = 0
       => token[t].tenant = tenant[token[t].user]
  /\ \A r \in Reqs : moves[req[r].user] = 0 =>
       /\ req[r].pc \in {"create", "rotate", "disable", "revokeAll"}
            => req[r].tenant = tenant[req[r].user]
       /\ req[r].pc = "password" => tenant[req[r].user] \in req[r].from

SparedHasMoved ==
  /\ \A t \in Tokens : IsSpared(token[t]) => moves[token[t].user] > 0
  /\ \A r \in Reqs : req[r].pc \in {"create", "rotate"} => ~ IsSpared(req[r])

MovesInv == Stayed /\ SparedHasMoved

Moving == {"create", "rotate", "disable", "revokeAll", "password"}

LEMMA NatMoves ==
  ASSUME TypeOK, NEW u \in Users
  PROVE  moves[u] \in Nat /\ (moves[u] > 0 <=> moves[u] # 0)
  BY ConstantsAssumption DEF TypeOK

\* Sessions stay, are revoked or spared, requests stay, end or are overtaken.
LEMMA MovesKept ==
  ASSUME IInv, MovesInv, RevokedFrom(token'), KeptRequests, UNCHANGED <<tenant, moves>>,
         \A t \in Tokens : IsSpared(token'[t]) =>
           \/ IsSpared(token[t])
           \/ token[t].state # "none" /\ token[t].tenant # tenant[token[t].user]
           \/ token[t].state # "none" /\ moves[token[t].user] > 0
  PROVE  MovesInv'
<1>1. ASSUME NEW t \in Tokens
      PROVE  /\ From(token'[t], token[t])
             /\ token[t].state # "none" => token[t].user \in Users
  BY RowShape DEF RevokedFrom, IInv, TypeOK, Rows
<1>2. ASSUME NEW r \in Reqs, req'[r].pc \in Moving
      PROVE  /\ req'[r].pc = req[r].pc /\ req'[r].user = req[r].user
             /\ req'[r].pc # "password" => req'[r].tenant = req[r].tenant
             /\ req'[r].pc = "password" => req'[r].from = req[r].from
             /\ req'[r].pc \in {"create", "rotate"} => (IsSpared(req'[r]) => IsSpared(req[r]))
  <2>1. req[r] \in Requests /\ req'[r] # IdleReq
    BY <1>2, IdleBuilt DEF IInv, TypeOK, Moving
  <2>2. CASE req'[r] = req[r]
    BY <2>2
  <2>3. CASE req[r].pc \in {"create", "rotate"} /\ req'[r] = Raced(req[r])
    BY <1>2, <2>1, <2>3, OvertakenShape DEF IsSpared
  <2> QED BY <2>1, <2>2, <2>3 DEF KeptRequests
<1>3. Stayed'
  <2>1. ASSUME NEW t \in Tokens, token'[t].state # "none", moves[token'[t].user] = 0
        PROVE  token'[t].tenant = tenant[token'[t].user]
    BY <1>1, <2>1 DEF MovesInv, Stayed, From
  <2>2. ASSUME NEW r \in Reqs, moves[req'[r].user] = 0,
               req'[r].pc \in {"create", "rotate", "disable", "revokeAll"}
        PROVE  req'[r].tenant = tenant[req'[r].user]
    BY <1>2, <2>2 DEF MovesInv, Stayed, Moving
  <2>3. ASSUME NEW r \in Reqs, moves[req'[r].user] = 0, req'[r].pc = "password"
        PROVE  tenant[req'[r].user] \in req'[r].from
    BY <1>2, <2>3 DEF MovesInv, Stayed, Moving
  <2> QED BY <2>1, <2>2, <2>3 DEF Stayed
<1>4. SparedHasMoved'
  <2>1. ASSUME NEW t \in Tokens, IsSpared(token'[t])
        PROVE  moves[token'[t].user] > 0
    <3>1. token'[t].user = token[t].user
      BY <1>1 DEF From
    <3>2. CASE token[t].state # "none" /\ token[t].tenant # tenant[token[t].user]
      BY <1>1, <3>1, <3>2, NatMoves DEF IInv, MovesInv, Stayed
    <3>3. CASE IsSpared(token[t])
      BY <3>1, <3>3 DEF MovesInv, SparedHasMoved
    <3> QED BY <2>1, <3>1, <3>2, <3>3
  <2>2. ASSUME NEW r \in Reqs, req'[r].pc \in {"create", "rotate"}
        PROVE  ~ IsSpared(req'[r])
    BY <1>2, <2>2 DEF MovesInv, SparedHasMoved, Moving
  <2> QED BY <2>1, <2>2 DEF SparedHasMoved, IsSpared
<1> QED BY <1>3, <1>4 DEF MovesInv

\* A request goes on with what it has read.
LEMMA MovesRead ==
  ASSUME IInv, MovesInv, NEW r \in Reqs, NEW q, req' = [req EXCEPT ![r] = q],
         UNCHANGED <<tenant, moves, token>>,
         moves[q.user] = 0 =>
           /\ q.pc \in {"create", "rotate", "disable", "revokeAll"} => q.tenant = tenant[q.user]
           /\ q.pc = "password" => tenant[q.user] \in q.from,
         q.pc \in {"create", "rotate"} => ~ IsSpared(q)
  PROVE  MovesInv'
<1>1. \A s \in Reqs : req'[s] = IF s = r THEN q ELSE req[s]
  BY DEF IInv, TypeOK
<1>2. Stayed'
  BY <1>1 DEF MovesInv, Stayed
<1>3. SparedHasMoved'
  BY <1>1 DEF MovesInv, SparedHasMoved, IsSpared
<1> QED BY <1>2, <1>3 DEF MovesInv

\* A request ends with a new session.
LEMMA MovesCreate ==
  ASSUME IInv, MovesInv, NEW r \in Reqs, NEW n \in Tokens, NEW rows, RevokedFrom(rows),
         \A t \in Tokens : rows[t].past = token[t].past,
         NEW new \in SessionRow, token' = [rows EXCEPT ![n] = new],
         req' = [req EXCEPT ![r] = IdleReq], UNCHANGED <<tenant, moves>>,
         moves[new.user] = 0 => new.tenant = tenant[new.user],
         IsSpared(new) => moves[new.user] > 0
  PROVE  MovesInv'
<1>1. \A s \in Reqs : req'[s] = IF s = r THEN IdleReq ELSE req[s]
  BY DEF IInv, TypeOK
<1>2. /\ token'[n] = new
      /\ \A t \in Tokens : t # n => /\ From(token'[t], token[t])
                                    /\ token'[t].past = token[t].past
  BY DEF RevokedFrom
<1>3. ASSUME NEW t \in Tokens, token'[t].state # "none", moves[token'[t].user] = 0
      PROVE  token'[t].tenant = tenant[token'[t].user]
  BY <1>2, <1>3 DEF MovesInv, Stayed, From
<1>4. ASSUME NEW s \in Reqs, moves[req'[s].user] = 0
      PROVE  /\ req'[s].pc \in {"create", "rotate", "disable", "revokeAll"}
                  => req'[s].tenant = tenant[req'[s].user]
             /\ req'[s].pc = "password" => tenant[req'[s].user] \in req'[s].from
  BY <1>1, <1>4, IdleBuilt DEF MovesInv, Stayed
<1>5. ASSUME NEW t \in Tokens, IsSpared(token'[t])
      PROVE  moves[token'[t].user] > 0
  BY <1>2, <1>5 DEF MovesInv, SparedHasMoved, From, IsSpared
<1>6. ASSUME NEW s \in Reqs, req'[s].pc \in {"create", "rotate"}
      PROVE  ~ IsSpared(req'[s])
  BY <1>1, <1>6, IdleBuilt DEF MovesInv, SparedHasMoved
<1> QED BY <1>3, <1>4, <1>5, <1>6 DEF MovesInv, Stayed, SparedHasMoved, IsSpared

LEMMA MovesNext ==
  ASSUME IInv, MovesInv, [Next]_vars
  PROVE  MovesInv'
<1>t. TypeOK
  BY DEF IInv
<1>s. RevokedFrom(token)
  BY <1>t, SameRows
<1>1. ASSUME NEW r \in Reqs, ReadingStep(r)
      PROVE  MovesInv'
  <2>1. PICK q :
         /\ req' = [req EXCEPT ![r] = q]
         /\ OtherReads(q) \/ \E t \in Tokens : token[t].state # "none" /\ ReadAs(q, t)
    BY <1>1 DEF ReadingStep
  <2>2. UNCHANGED <<tenant, moves, token>>
    BY <1>1 DEF ReadingStep, Same
  <2>3. CASE OtherReads(q)
    BY <1>t, <2>1, <2>2, <2>3, OtherReadsShape, MovesRead DEF IsSpared
  <2>4. CASE \E t \in Tokens : token[t].state # "none" /\ ReadAs(q, t)
    <3>1. /\ q.pc \in OfToken
          /\ q.pc = "rotate" => q.tenant = tenant[q.user] /\ q.past = {}
      BY <1>t, <2>4, ReadAsShape
    <3> QED BY <2>1, <2>2, <3>1, MovesRead DEF IsSpared, OfToken
  <2> QED BY <2>1, <2>3, <2>4
<1>2. ASSUME NEW r \in Reqs, LoginCreate(r)
      PROVE  MovesInv'
  <2>1. PICK t \in Tokens, new \in SessionRow :
           /\ token' = [token EXCEPT ![t] = new]
           /\ new.user = req[r].user /\ new.tenant = req[r].tenant
           /\ new.past = req[r].past
    BY <1>2, LoginShape
  <2>2. /\ moves[new.user] = 0 => new.tenant = tenant[new.user]
        /\ ~ IsSpared(new)
    BY <1>2, <2>1 DEF LoginCreate, MovesInv, Stayed, SparedHasMoved, IsSpared
  <2>3. req' = [req EXCEPT ![r] = IdleReq] /\ UNCHANGED <<tenant, moves>>
    BY <1>2 DEF LoginCreate, account
  <2> QED BY <1>s, <2>1, <2>2, <2>3, MovesCreate
<1>3. ASSUME NEW r \in Reqs, Rotate(r)
      PROVE  MovesInv'
  <2>0. PICK t : t = req[r].tok
    OBVIOUS
  <2>1. PICK n \in Tokens, new \in SessionRow :
           /\ token' = [Revoked({t}) EXCEPT ![n] = new]
           /\ new.user = req[r].user /\ new.tenant = req[r].tenant
           /\ IsSpared(new) <=> IsSpared(req[r]) \/ IsSpared(token[t])
    BY <1>3, <2>0, RotateShape
  <2>2. t \in Tokens /\ req[r].user = token[t].user
    BY <1>3, <2>0, RotateOf
  <2>3. /\ moves[new.user] = 0 => new.tenant = tenant[new.user]
        /\ IsSpared(new) => moves[new.user] > 0
    BY <1>3, <2>1, <2>2 DEF Rotate, MovesInv, Stayed, SparedHasMoved
  <2>4. req' = [req EXCEPT ![r] = IdleReq] /\ UNCHANGED <<tenant, moves>>
    BY <1>3 DEF Rotate, account
  <2>5. /\ RevokedFrom(Revoked({t}))
        /\ \A s \in Tokens : Revoked({t})[s].past = token[s].past
    BY <1>t, RevokedSome
  <2> QED BY <2>1, <2>3, <2>4, <2>5, MovesCreate
<1>4. ASSUME NEW r \in Reqs, NEW u, u = req[r].user, NEW from, tenant[u] \in from \/ moves[u] # 0,
             u \in Users, token' = RevokeAllOf(u, from), req' = Overtake(r, u),
             UNCHANGED <<tenant, moves>>
      PROVE  MovesInv'
  <2>1. KeptRequests
    BY <1>4, <1>t, OvertakeKeeps
  <2>2. /\ RevokedFrom(token')
        /\ \A t \in Tokens : IsSpared(token'[t]) =>
             \/ IsSpared(token[t])
             \/ token[t].state = "live" /\ token[t].user = u /\ token[t].tenant \notin from
    BY <1>4, <1>t, RevokedAll
  <2>3. moves[u] # 0 => moves[u] > 0
    BY <1>4, <1>t, NatMoves
  <2>4. ASSUME NEW t \in Tokens, IsSpared(token'[t])
        PROVE  \/ IsSpared(token[t])
               \/ token[t].state # "none" /\ token[t].tenant # tenant[token[t].user]
               \/ token[t].state # "none" /\ moves[token[t].user] > 0
    BY <1>4, <2>2, <2>3, <2>4
  <2> QED BY <1>4, <2>1, <2>2, <2>4, MovesKept
<1>5. ASSUME NEW r \in Reqs, PasswordWrite(r)
      PROVE  MovesInv'
  <2>1. /\ req[r].user \in Users
        /\ moves[req[r].user] = 0 => tenant[req[r].user] \in req[r].from
    BY <1>5, <1>t, ReqShape DEF PasswordWrite, TypeOK, MovesInv, Stayed
  <2> QED BY <1>4, <1>5, <2>1 DEF PasswordWrite
<1>6. ASSUME NEW r \in Reqs, DisableRevoke(r)
      PROVE  MovesInv'
  <2>1. /\ req[r].user \in Users
        /\ moves[req[r].user] = 0 => tenant[req[r].user] \in {req[r].tenant}
    BY <1>6, <1>t, ReqShape DEF DisableRevoke, TypeOK, MovesInv, Stayed
  <2> QED BY <1>4, <1>6, <2>1 DEF DisableRevoke, account
<1>7. ASSUME NEW r \in Reqs, DisableWrite(r)
      PROVE  MovesInv'
  <2>1. PICK q : q = Revoking(req[r].user, req[r].tenant)
    OBVIOUS
  <2>2. /\ q.pc = "revokeAll" /\ q.user = req[r].user /\ q.tenant = req[r].tenant
    BY <2>1 DEF Revoking
  <2>3. moves[q.user] = 0 => q.tenant = tenant[q.user]
    BY <1>7, <2>2 DEF DisableWrite, MovesInv, Stayed
  <2>4. req' = [req EXCEPT ![r] = q] /\ UNCHANGED <<tenant, moves, token>>
    BY <1>7, <2>1 DEF DisableWrite
  <2> QED BY <2>2, <2>3, <2>4, MovesRead
<1>8. ASSUME NEW r \in Reqs, EndingStep(r)
      PROVE  MovesInv'
  BY <1>8, IdleBuilt, MovesRead DEF EndingStep
<1>9. ASSUME RevokingStep
      PROVE  MovesInv'
  <2>1. /\ RevokedFrom(token') /\ KeptRequests /\ UNCHANGED <<tenant, moves>>
        /\ \A t \in Tokens : token'[t].past = token[t].past
    BY <1>9, <1>t, RevokingShape
  <2> QED BY <2>1, MovesKept DEF IsSpared
<1>10. ASSUME UNCHANGED <<tenant, moves, token, req>>
       PROVE  MovesInv'
  BY <1>10 DEF MovesInv, Stayed, SparedHasMoved, IsSpared
<1>11. ASSUME NEW u \in Users, NEW n \in Tenants, Complete(u, n)
       PROVE  MovesInv'
  <2>1. /\ UNCHANGED <<token, req>> /\ moves'[u] > 0
        /\ \A v : v # u => moves'[v] = moves[v] /\ tenant'[v] = tenant[v]
    BY <1>11, <1>t, NatMoves DEF Complete, TypeOK
  <2>2. Stayed'
    <3>1. ASSUME NEW v, moves'[v] = 0
          PROVE  moves[v] = 0 /\ tenant'[v] = tenant[v]
      BY <2>1, <3>1
    <3> QED BY <2>1, <3>1 DEF MovesInv, Stayed
  <2>3. SparedHasMoved'
    BY <2>1 DEF MovesInv, SparedHasMoved, IsSpared
  <2> QED BY <2>2, <2>3 DEF MovesInv
<1>12. ASSUME AccountStep
       PROVE  MovesInv'
  BY <1>10, <1>11, <1>12 DEF AccountStep, Enable
<1> QED BY <1>t, <1>1, <1>2, <1>3, <1>5, <1>6, <1>7, <1>8, <1>9, <1>10, <1>12, Steps DEF vars

\* Only sessions of accounts that have moved are spared.
THEOREM SparedMoved == Spec => []MovesInv
<1>1. Init => MovesInv
  BY IdleBuilt DEF Init, MovesInv, Stayed, SparedHasMoved, NoToken, Session, IsSpared
<1> QED BY <1>1, MovesNext, SessionInvariant, PTL DEF Spec

\* changePassword and resetPassword end every session of the old password but
\* those of a login or a refresh they have overtaken and, of an account that has
\* moved to another tenant, the rows that changePassword does not ask for.
THEOREM PasswordChangeEndsSessions == Spec => []OldPasswordEndsSessions
<1>1. IInv /\ MovesInv => OldPasswordEndsSessions
  BY DEF IInv, MovesInv, OldSpared, SparedHasMoved, OldPasswordEndsSessions, IsRaced, IsSpared
<1> QED BY <1>1, SessionInvariant, SparedMoved, PTL

-----------------------------------------------------------------------------
(* Families with one live token *)

\* Sessions stay or are revoked.
LEMMA OneLiveKept ==
  ASSUME OneLivePerFamily, RevokedFrom(token')
  PROVE  OneLivePerFamily'
<1>1. ASSUME NEW s \in Tokens, NEW t \in Tokens, s # t, token'[s].state = "live",
             token'[t].state = "live", token'[s].family = token'[t].family
      PROVE  IsForked(token'[s]) \/ IsForked(token'[t])
  <2>1. From(token'[s], token[s]) /\ From(token'[t], token[t])
    BY DEF RevokedFrom
  <2>2. IsForked(token[s]) \/ IsForked(token[t])
    BY <1>1, <2>1 DEF From, OneLivePerFamily, Live, IsForked
  <2> QED BY <2>1, <2>2 DEF From
<1> QED BY <1>1 DEF OneLivePerFamily, Live, IsForked

\* A session is added to those of rows, whose like may not be live unless forked.
LEMMA OneLiveAdded ==
  ASSUME OneLivePerFamily, NEW rows, RevokedFrom(rows), NEW n \in Tokens, NEW new,
         token' = [rows EXCEPT ![n] = new],
         \A s \in Tokens : s # n /\ rows[s].state = "live" /\ rows[s].family = new.family
           => IsForked(rows[s]) \/ IsForked(new)
  PROVE  OneLivePerFamily'
<1>1. token'[n] = new /\ \A s \in Tokens : s # n => token'[s] = rows[s]
  BY DEF RevokedFrom
<1>2. ASSUME NEW s \in Tokens, NEW t \in Tokens, s # t, token'[s].state = "live",
             token'[t].state = "live", token'[s].family = token'[t].family
      PROVE  IsForked(token'[s]) \/ IsForked(token'[t])
  <2>1. CASE s = n \/ t = n
    BY <1>1, <1>2, <2>1
  <2>2. CASE s # n /\ t # n
    <3>1. From(rows[s], token[s]) /\ From(rows[t], token[t])
      BY DEF RevokedFrom
    <3>2. IsForked(token[s]) \/ IsForked(token[t])
      BY <1>1, <1>2, <2>2, <3>1 DEF From, OneLivePerFamily, Live, IsForked
    <3> QED BY <1>1, <2>2, <3>1, <3>2 DEF From
  <2> QED BY <2>1, <2>2
<1> QED BY <1>2 DEF OneLivePerFamily, Live, IsForked

LEMMA OneLiveNext ==
  ASSUME IInv, OneLivePerFamily, [Next]_vars
  PROVE  OneLivePerFamily'
<1>t. TypeOK
  BY DEF IInv
<1>s. RevokedFrom(token)
  BY <1>t, SameRows
<1>1. ASSUME UNCHANGED token
      PROVE  OneLivePerFamily'
  BY <1>1, <1>s, OneLiveKept
<1>2. ASSUME NEW r \in Reqs, LoginCreate(r)
      PROVE  OneLivePerFamily'
  <2>1. PICK n \in Tokens, new \in SessionRow :
           /\ token[n].state = "none" /\ token' = [token EXCEPT ![n] = new]
           /\ new.family = n
    BY <1>2, LoginShape
  <2>2. ASSUME NEW s \in Tokens, token[s].state = "live", token[s].family = n
        PROVE  FALSE
    <3>1. token[n].family = n
      BY <2>2 DEF IInv, FamilyOfOneUser
    <3>2. token[n] = NoToken
      BY <1>t, <2>1, RowShape DEF TypeOK, Rows, SessionRow
    <3> QED BY <3>1, <3>2, ConstantsAssumption DEF NoToken, Session
  <2>3. \A s \in Tokens : s # n /\ token[s].state = "live" /\ token[s].family = new.family
          => IsForked(token[s]) \/ IsForked(new)
    BY <2>1, <2>2
  <2>4. PICK rows : rows = token
    OBVIOUS
  <2>5. RevokedFrom(rows) /\ token' = [rows EXCEPT ![n] = new]
    BY <1>s, <2>1, <2>4
  <2>6. \A s \in Tokens : s # n /\ rows[s].state = "live" /\ rows[s].family = new.family
          => IsForked(rows[s]) \/ IsForked(new)
    BY <2>3, <2>4
  <2> QED BY <2>5, <2>6, OneLiveAdded
<1>3. ASSUME NEW r \in Reqs, Rotate(r)
      PROVE  OneLivePerFamily'
  <2>0. PICK t : t = req[r].tok
    OBVIOUS
  <2>1. PICK n \in Tokens, new \in SessionRow :
           /\ token' = [Revoked({t}) EXCEPT ![n] = new]
           /\ new.family = token[t].family
           /\ IsForked(new) <=> \/ IsForked(req[r]) \/ IsForked(token[t])
                                \/ token[t].state # "live"
    BY <1>3, <2>0, RotateShape
  <2>2. PICK rows : rows = Revoked({t})
    OBVIOUS
  <2>3. /\ RevokedFrom(rows)
        /\ \A s \in Tokens : rows[s].state = "live" => s # t
    BY <1>t, <2>2, RevokedSome
  <2>4. ASSUME NEW s \in Tokens, s # n, rows[s].state = "live", rows[s].family = new.family
        PROVE  IsForked(rows[s]) \/ IsForked(new)
    <3>1. From(rows[s], token[s]) /\ s # t
      BY <2>3, <2>4 DEF RevokedFrom
    <3>2. CASE token[t].state = "live"
      <4>0. t \in Tokens
        BY <1>3, <2>0, RotateOf
      <4>1. IsForked(token[s]) \/ IsForked(token[t])
        BY <2>1, <2>4, <3>1, <3>2, <4>0 DEF From, OneLivePerFamily, Live, IsForked
      <4> QED BY <2>1, <3>1, <4>1 DEF From
    <3> QED BY <2>1, <3>2
  <2>5. \A s \in Tokens : s # n /\ rows[s].state = "live" /\ rows[s].family = new.family
          => IsForked(rows[s]) \/ IsForked(new)
    BY <2>4
  <2>6. token' = [rows EXCEPT ![n] = new]
    BY <2>1, <2>2
  <2> QED BY <2>3, <2>5, <2>6, OneLiveAdded
<1>4. ASSUME NEW r \in Reqs, PasswordWrite(r) \/ DisableRevoke(r)
      PROVE  OneLivePerFamily'
  <2>1. RevokedFrom(token')
    BY <1>4, <1>t, RevokedAll DEF PasswordWrite, DisableRevoke
  <2> QED BY <2>1, OneLiveKept
<1>5. ASSUME RevokingStep
      PROVE  OneLivePerFamily'
  BY <1>5, <1>t, RevokingShape, OneLiveKept
<1> QED BY <1>t, <1>1, <1>2, <1>3, <1>4, <1>5, Steps
        DEF ReadingStep, EndingStep, DisableWrite, AccountStep, vars

\* A family has one live token, unless a refresh rotated one that was no longer
\* live when its transaction ran: rotateRefreshToken does not look again.
THEOREM OneLiveToken == Spec => []OneLivePerFamily
<1>1. Init => OneLivePerFamily
  BY DEF Init, OneLivePerFamily, Live, NoToken, Session
<1> QED BY <1>1, OneLiveNext, SessionInvariant, PTL DEF Spec

-----------------------------------------------------------------------------
(* Families that have ended *)

LEMMA DeadKept ==
  ASSUME IInv, NEW f, DeadFamily(f), RevokedFrom(token'), KeptRequests
  PROVE  DeadFamily(f)'
<1>1. ASSUME NEW t \in Tokens, token'[t].family = f
      PROVE  token'[t].state # "live"
  BY <1>1 DEF DeadFamily, RevokedFrom, From, Live
<1>2. ASSUME NEW r \in Reqs, req'[r].pc = "rotate"
      PROVE  token'[req'[r].tok].family # f
  <2>1. req[r].pc = "rotate" /\ req'[r].tok = req[r].tok /\ req[r].tok \in Tokens
    BY <1>2, KeptShape, ReqShape DEF IInv, TypeOK, OfToken
  <2> QED BY <2>1 DEF DeadFamily, RevokedFrom, From
<1> QED BY <1>1, <1>2 DEF DeadFamily, Live

LEMMA DeadRead ==
  ASSUME IInv, NEW f, DeadFamily(f), NEW r \in Reqs, NEW q,
         req' = [req EXCEPT ![r] = q], UNCHANGED token,
         q.pc = "rotate" => token[q.tok].family # f
  PROVE  DeadFamily(f)'
  BY DEF IInv, TypeOK, DeadFamily, Live

LEMMA DeadCreate ==
  ASSUME IInv, NEW f, DeadFamily(f), NEW r \in Reqs, NEW n \in Tokens,
         NEW rows, RevokedFrom(rows), NEW new \in SessionRow, new.family # f,
         token[n].state = "none", token' = [rows EXCEPT ![n] = new],
         req' = [req EXCEPT ![r] = IdleReq]
  PROVE  DeadFamily(f)'
<1>1. ASSUME NEW t \in Tokens
      PROVE  /\ t = n => token'[t].family # f
             /\ t # n => /\ token'[t].family = token[t].family
                         /\ token'[t].state = "live" => token[t].state = "live"
  BY DEF RevokedFrom, From
<1>2. ASSUME NEW s \in Reqs, req'[s].pc = "rotate"
      PROVE  /\ req[s].pc = "rotate" /\ req'[s] = req[s]
             /\ req[s].tok \in Tokens \ {n}
  <2>1. req'[s] = req[s]
    BY <1>2, IdleBuilt DEF IInv, TypeOK
  <2> QED BY <1>2, <2>1, ReqShape DEF IInv, TypeOK, ReadTokens, OfToken
<1>3. ASSUME NEW t \in Tokens, token'[t].family = f
      PROVE  token'[t].state # "live"
  BY <1>1, <1>3 DEF DeadFamily, Live
<1>4. ASSUME NEW s \in Reqs, req'[s].pc = "rotate"
      PROVE  token'[req'[s].tok].family # f
  BY <1>1, <1>2, <1>4 DEF DeadFamily
<1> QED BY <1>3, <1>4 DEF DeadFamily, Live

LEMMA DeadNext ==
  ASSUME IInv, [Next]_vars, NEW f \in Tokens, token[f].state # "none", DeadFamily(f)
  PROVE  DeadFamily(f)'
<1>t. TypeOK
  BY DEF IInv
<1>s. RevokedFrom(token)
  BY <1>t, SameRows
<1>1. ASSUME NEW r \in Reqs, LoginCreate(r)
      PROVE  DeadFamily(f)'
  <2>1. PICK n \in Tokens, new \in SessionRow :
           /\ token[n].state = "none" /\ token' = [token EXCEPT ![n] = new]
           /\ new.family = n
    BY <1>1, LoginShape
  <2>2. req' = [req EXCEPT ![r] = IdleReq] /\ new.family # f
    BY <1>1, <2>1 DEF LoginCreate
  <2> QED BY <1>s, <2>1, <2>2, DeadCreate
<1>2. ASSUME NEW r \in Reqs, Rotate(r)
      PROVE  DeadFamily(f)'
  <2>0. PICK t : t = req[r].tok
    OBVIOUS
  <2>1. PICK n \in Tokens, new \in SessionRow :
           /\ token[n].state = "none" /\ token' = [Revoked({t}) EXCEPT ![n] = new]
           /\ new.family = token[t].family
    BY <1>2, <2>0, RotateShape
  <2>2. req' = [req EXCEPT ![r] = IdleReq] /\ token[t].family # f
    BY <1>2, <2>0 DEF Rotate, DeadFamily
  <2>3. RevokedFrom(Revoked({t}))
    BY <1>t, RevokedSome
  <2> QED BY <2>1, <2>2, <2>3, DeadCreate
<1>3. ASSUME NEW r \in Reqs, ReadingStep(r)
      PROVE  DeadFamily(f)'
  <2>1. PICK q :
         /\ req' = [req EXCEPT ![r] = q]
         /\ OtherReads(q) \/ \E t \in Tokens : token[t].state # "none" /\ ReadAs(q, t)
    BY <1>3 DEF ReadingStep
  <2>2. q.pc = "rotate" => token[q.tok].family # f
    <3>1. SUFFICES ASSUME q.pc = "rotate" PROVE token[q.tok].family # f
      OBVIOUS
    <3>2. PICK t \in Tokens : token[t].state # "none" /\ ReadAs(q, t)
      BY <1>t, <2>1, <3>1, OtherReadsShape
    <3>3. q.tok = t /\ token[t].state = "live"
      BY <1>t, <3>1, <3>2, ReadAsShape
    <3> QED BY <3>3 DEF DeadFamily, Live
  <2> QED BY <1>3, <2>1, <2>2, DeadRead DEF ReadingStep
<1>4. ASSUME NEW r \in Reqs, PasswordWrite(r) \/ DisableRevoke(r)
      PROVE  DeadFamily(f)'
  <2>1. KeptRequests
    BY <1>4, <1>t, OvertakeKeeps DEF PasswordWrite, DisableRevoke
  <2>2. RevokedFrom(token')
    BY <1>4, <1>t, RevokedAll DEF PasswordWrite, DisableRevoke
  <2> QED BY <2>1, <2>2, DeadKept
<1>5. ASSUME NEW r \in Reqs, DisableWrite(r)
      PROVE  DeadFamily(f)'
  <2>1. PICK q : q = Revoking(req[r].user, req[r].tenant)
    OBVIOUS
  <2>2. q.pc # "rotate"
    BY <2>1 DEF Revoking
  <2> QED BY <1>5, <2>1, <2>2, DeadRead DEF DisableWrite
<1>6. ASSUME NEW r \in Reqs, EndingStep(r)
      PROVE  DeadFamily(f)'
  BY <1>6, IdleBuilt, DeadRead DEF EndingStep
<1>7. ASSUME RevokingStep
      PROVE  DeadFamily(f)'
  BY <1>7, <1>t, RevokingShape, DeadKept
<1>8. ASSUME UNCHANGED <<token, req>>
      PROVE  DeadFamily(f)'
  BY <1>8, <1>t, <1>s, KeptSame, DeadKept
<1> QED BY <1>t, <1>1, <1>2, <1>3, <1>4, <1>5, <1>6, <1>7, <1>8, Steps DEF AccountStep, vars

\* Once a family has no live token and no rotation under way - the reuse of a
\* rotated token was detected, or its user logged out - it never has one again.
THEOREM DeadFamiliesStayDead == Spec => DeadFamilyStaysDead
<1>1. IInv /\ [Next]_vars =>
        \A f \in Tokens : token[f].state # "none" /\ DeadFamily(f) => DeadFamily(f)'
  BY DeadNext
<1> QED BY <1>1, SessionInvariant, PTL DEF Spec, DeadFamilyStaysDead

-----------------------------------------------------------------------------
(* Reset tokens *)

\* ForgotCommit is the one step that adds an unused token. Unless one was added
\* since its updateMany picked, the new token is the only one left.
LEMMA ForgotUsesUp ==
  ASSUME IInv, OneUnusedReset, NEW r \in Reqs, ForgotCommit(r)
  PROVE  OneUnusedReset'
<1> DEFINE u == req[r].user
           m == req[r].tenant
           seen == req[r].seen
           rc == ~ (Unused(u, m) \subseteq seen)
<1>1. PICK n \in Resets : reset' = [y \in Resets |->
        IF y = n THEN ResetToken("unused", u, m, rc)
        ELSE IF y \in seen THEN [reset[y] EXCEPT !.state = "used"] ELSE reset[y]]
  BY DEF ForgotCommit
<1>2. /\ rc \in BOOLEAN
      /\ \A y \in seen : y \in Resets /\ reset[y].state # "none"
      /\ rc \/ \A y \in Resets :
                 reset[y].state = "unused" /\ reset[y].user = u /\ reset[y].tenant = m => y \in seen
  BY ReqShape DEF IInv, TypeOK, ForgotCommit, ReadResets, ResetsOf, Unused
<1> HIDE DEF u, m, seen, rc
<1>3. reset'[n].raced = rc /\ reset'[n].user = u /\ reset'[n].tenant = m
  BY <1>1 DEF ResetToken
<1>4. ASSUME NEW y \in Resets, y # n, reset'[y].state = "unused"
      PROVE  y \notin seen /\ reset'[y] = reset[y]
  <2>1. y \notin seen
    <3>1. SUFFICES ASSUME y \in seen PROVE FALSE
      OBVIOUS
    <3>2. reset'[y] = [reset[y] EXCEPT !.state = "used"] /\ reset[y] \in ResetRow
      BY <1>1, <1>2, <1>4, <3>1, ResetShape DEF IInv, TypeOK
    <3>3. reset'[y].state = "used"
      BY <3>2, ResetShape
    <3> QED BY <1>4, <3>3
  <2> QED BY <1>1, <1>4, <2>1
<1>5. SUFFICES ASSUME NEW x \in Resets, NEW y \in Resets, x # y,
                      reset'[x].state = "unused", reset'[y].state = "unused",
                      reset'[x].user = reset'[y].user,
                      reset'[x].tenant = reset'[y].tenant
               PROVE  reset'[x].raced \/ reset'[y].raced
  BY DEF OneUnusedReset
<1>6. CASE x # n /\ y # n
  BY <1>4, <1>5, <1>6 DEF OneUnusedReset
<1>7. CASE x = n
  BY <1>2, <1>3, <1>4, <1>5, <1>7
<1>8. CASE y = n
  BY <1>2, <1>3, <1>4, <1>5, <1>8
<1> QED BY <1>6, <1>7, <1>8

\* resetPassword and changePassword only use tokens up.
LEMMA PasswordUsesUp ==
  ASSUME IInv, OneUnusedReset, NEW r \in Reqs, PasswordWrite(r)
  PROVE  OneUnusedReset'
<1>0. PICK x : x = req[r].reset
  OBVIOUS
<1>1. CASE x = "none"
  BY <1>0, <1>1 DEF PasswordWrite, UseUp, OneUnusedReset
<1>2. CASE x # "none"
  <2>1. x \in Resets /\ reset[x] \in ResetRow
    <3>1. x \in ResetsOf(req[r])
      BY <1>0, <1>2 DEF PasswordWrite, ResetsOf
    <3> QED BY <3>1, ResetShape DEF IInv, TypeOK, ReadResets
  <2>2. PICK new : new = [reset[x] EXCEPT !.state = "used"]
    OBVIOUS
  <2>3. reset' = [reset EXCEPT ![x] = new] /\ new.state = "used"
    BY <1>0, <1>2, <2>1, <2>2, ResetShape DEF PasswordWrite, UseUp
  <2>4. \A y \in Resets : reset'[y].state = "unused" => reset'[y] = reset[y]
    BY <2>3 DEF IInv, TypeOK
  <2>5. SUFFICES ASSUME NEW y \in Resets, NEW z \in Resets, y # z,
                        reset'[y].state = "unused", reset'[z].state = "unused",
                        reset'[y].user = reset'[z].user,
                        reset'[y].tenant = reset'[z].tenant
                 PROVE  reset'[y].raced \/ reset'[z].raced
    BY DEF OneUnusedReset
  <2>6. reset'[y] = reset[y] /\ reset'[z] = reset[z]
    BY <2>4, <2>5
  <2> QED BY <2>5, <2>6 DEF OneUnusedReset
<1> QED BY <1>1, <1>2

\* However requests overlap, a user has two working reset tokens of one tenant
\* only when forgotPassword was asked for both at the same time.
THEOREM ResetsUsedUp == Spec => []OneUnusedReset
<1>1. Init => OneUnusedReset
  <2>1. NoReset.state = "none"
    BY DEF NoReset, ResetToken
  <2> QED BY <2>1 DEF Init, OneUnusedReset
<1>2. IInv /\ OneUnusedReset /\ [Next]_vars => OneUnusedReset'
  <2> SUFFICES ASSUME IInv, OneUnusedReset, [Next]_vars PROVE OneUnusedReset'
    OBVIOUS
  <2>1. CASE UNCHANGED reset
    BY <2>1 DEF OneUnusedReset
  <2>2. CASE \E r \in Reqs : ForgotCommit(r)
    BY <2>2, ForgotUsesUp
  <2>3. CASE \E r \in Reqs : PasswordWrite(r)
    BY <2>3, PasswordUsesUp
  <2>4. TypeOK
    BY DEF IInv
  <2>5. UNCHANGED reset \/ \E r \in Reqs : ForgotCommit(r) \/ PasswordWrite(r)
    BY <2>4, Steps DEF ReadingStep, EndingStep, RevokingStep, AccountStep, Same, LoginCreate, Rotate,
       DisableWrite, DisableRevoke, RequestFails, vars
  <2> QED BY <2>1, <2>2, <2>3, <2>5
<1> QED BY <1>1, <1>2, SessionInvariant, PTL DEF Spec

-----------------------------------------------------------------------------
(* Users who are barred *)

\* A session of u may be live: the user is not barred, or an update that barred
\* the user has its second write still to do.
Open(u) ==
  status[u] # "barred" \/ \E r \in Reqs : req[r].pc = "revokeAll" /\ req[r].user = u

\* No request but an overtaken one will create a session of a user whose
\* sessions have ended.
OpenToCome ==
  \A r \in Reqs :
    /\ req[r].pc = "create" /\ ~ IsRaced(req[r]) => Open(req[r].user)
    /\ req[r].pc = "rotate" /\ ~ IsRaced(req[r]) /\ ~ IsRaced(token[req[r].tok])
         /\ ~ IsSpared(token[req[r].tok])
         => Open(req[r].user)

OpenNow ==
  \A t \in Tokens : Live(t) /\ ~ IsRaced(token[t]) /\ ~ IsSpared(token[t])
    => Open(token[t].user)

ClosedInv == faults = 0 => OpenToCome /\ OpenNow

\* Sessions are revoked or spared, requests end or are overtaken; Open may only
\* end for users without sessions that are not spared and requests that create one.
LEMMA ClosedKept ==
  ASSUME IInv, faults = 0, ClosedInv, RevokedFrom(token'), KeptRequests,
         \A u \in Users : Open(u) => Open(u)'
           \/ /\ \A t \in Tokens : token'[t].user = u /\ token'[t].state = "live"
                   => IsSpared(token'[t])
              /\ \A r \in Reqs : req'[r].pc \in {"create", "rotate"} /\ ~ IsRaced(req'[r])
                   => req'[r].user # u
  PROVE  ClosedInv'
<1>1. ASSUME NEW r \in Reqs, req'[r].pc \in {"create", "rotate"}, ~ IsRaced(req'[r])
      PROVE  req'[r] = req[r] /\ req[r].user \in Users /\ (req[r].pc = "rotate" => req[r].tok \in Tokens)
  BY <1>1, KeptShape, ReqShape DEF IInv, TypeOK, OfToken
<1>2. ASSUME NEW t \in Tokens
      PROVE  /\ From(token'[t], token[t])
             /\ token[t].state = "live" => token[t].user \in Users
  BY RowShape DEF RevokedFrom, IInv, TypeOK, Rows
<1>3. ASSUME NEW r \in Reqs, NEW u, u = req'[r].user, ~ IsRaced(req'[r]),
             \/ req'[r].pc = "create"
             \/ /\ req'[r].pc = "rotate" /\ ~ IsRaced(token'[req'[r].tok])
                /\ ~ IsSpared(token'[req'[r].tok])
      PROVE  Open(u)'
  <2>1. /\ req'[r] = req[r] /\ u \in Users
        /\ req[r].pc = "rotate" => From(token'[req[r].tok], token[req[r].tok])
    BY <1>1, <1>2, <1>3
  <2>2. Open(u)
    BY <1>3, <2>1 DEF ClosedInv, OpenToCome, From
  <2> QED BY <1>3, <2>1, <2>2
<1>4. OpenToCome'
  BY <1>3 DEF OpenToCome, Open, IsRaced, IsSpared
<1>5. ASSUME NEW t \in Tokens, NEW u, u = token'[t].user, token'[t].state = "live",
             ~ IsRaced(token'[t]), ~ IsSpared(token'[t])
      PROVE  Open(u)'
  <2>1. u \in Users /\ Open(u)
    BY <1>2, <1>5 DEF ClosedInv, OpenNow, Live, From
  <2> QED BY <1>5, <2>1
<1>6. OpenNow'
  BY <1>5 DEF OpenNow, Live, Open, IsRaced, IsSpared
<1> QED BY <1>4, <1>6 DEF ClosedInv

\* A request goes on with what it has read: it saw an active user if it will
\* create a session.
LEMMA ClosedRead ==
  ASSUME IInv, faults = 0, ClosedInv, NEW r \in Reqs, req[r].pc # "revokeAll", NEW q \in Requests,
         req' = [req EXCEPT ![r] = q], UNCHANGED token,
         q.pc \in {"create", "rotate"} => status[q.user] # "barred",
         \A u \in Users : status[u] # "barred" /\ status'[u] = "barred"
           => q.pc = "revokeAll" /\ q.user = u
  PROVE  ClosedInv'
<1>1. /\ req'[r] = q
      /\ \A s \in Reqs : s # r => req'[s] = req[s]
  BY DEF IInv, TypeOK
<1>2. ASSUME NEW u \in Users, Open(u)
      PROVE  Open(u)'
  BY <1>1, <1>2 DEF Open
<1>3. ASSUME NEW s \in Reqs, req'[s].pc \in {"create", "rotate"}
      PROVE  /\ req'[s].user \in Users
             /\ \/ s # r /\ req'[s] = req[s]
                \/ s = r /\ req'[s] = q
  BY <1>1, <1>3, ReqShape DEF IInv, TypeOK, OfToken
<1>4. ASSUME NEW s \in Reqs, NEW u, u = req'[s].user, ~ IsRaced(req'[s]),
             \/ req'[s].pc = "create"
             \/ /\ req'[s].pc = "rotate" /\ ~ IsRaced(token[req'[s].tok])
                /\ ~ IsSpared(token[req'[s].tok])
      PROVE  Open(u)'
  <2>1. CASE s # r
    <3>1. u \in Users /\ Open(u)
      BY <1>3, <1>4, <2>1 DEF ClosedInv, OpenToCome
    <3> QED BY <1>2, <3>1
  <2>2. CASE s = r
    <3>1. u \in Users /\ status[u] # "barred"
      BY <1>1, <1>3, <1>4, <2>2
    <3> QED BY <1>2, <3>1 DEF Open
  <2> QED BY <2>1, <2>2
<1>5. OpenToCome'
  BY <1>4 DEF OpenToCome, Open, IsRaced, IsSpared
<1>6. ASSUME NEW t \in Tokens, NEW u, u = token[t].user, token[t].state = "live",
             ~ IsRaced(token[t]), ~ IsSpared(token[t])
      PROVE  Open(u)'
  <2>1. u \in Users /\ Open(u)
    BY <1>6, RowShape DEF IInv, TypeOK, Rows, ClosedInv, OpenNow, Live
  <2> QED BY <1>2, <2>1
<1>7. OpenNow'
  BY <1>6 DEF OpenNow, Live, Open, IsRaced, IsSpared
<1> QED BY <1>5, <1>7 DEF ClosedInv

\* A request ends with a new session of its user.
LEMMA ClosedCreate ==
  ASSUME IInv, faults = 0, ClosedInv, NEW r \in Reqs, req[r].pc # "revokeAll", NEW n \in Tokens,
         token[n].state = "none", NEW rows, RevokedFrom(rows), NEW new,
         token' = [rows EXCEPT ![n] = new], new.user \in Users,
         ~ IsRaced(new) /\ ~ IsSpared(new) => Open(new.user),
         req' = [req EXCEPT ![r] = IdleReq], UNCHANGED status
  PROVE  ClosedInv'
<1>1. /\ req'[r] = IdleReq
      /\ \A s \in Reqs : s # r => req'[s] = req[s]
  BY DEF IInv, TypeOK
<1>2. ASSUME NEW u \in Users, Open(u)
      PROVE  Open(u)'
  BY <1>1, <1>2 DEF Open
<1>3. /\ token'[n] = new
      /\ \A t \in Tokens \ {n} :
           /\ From(token'[t], token[t])
           /\ token[t].state = "live" => token[t].user \in Users
  BY RowShape DEF RevokedFrom, IInv, TypeOK, Rows
<1>4. ASSUME NEW s \in Reqs, req'[s].pc \in {"create", "rotate"}
      PROVE  /\ s # r /\ req'[s] = req[s] /\ req[s].user \in Users
             /\ req[s].pc = "rotate" => req[s].tok \in Tokens \ {n}
  BY <1>1, <1>4, IdleBuilt, ReqShape DEF IInv, TypeOK, ReadTokens, OfToken
<1>5. ASSUME NEW s \in Reqs, NEW u, u = req'[s].user, ~ IsRaced(req'[s]),
             \/ req'[s].pc = "create"
             \/ /\ req'[s].pc = "rotate" /\ ~ IsRaced(token'[req'[s].tok])
                /\ ~ IsSpared(token'[req'[s].tok])
      PROVE  Open(u)'
  <2>1. u \in Users /\ Open(u)
    BY <1>3, <1>4, <1>5 DEF ClosedInv, OpenToCome, From
  <2> QED BY <1>2, <2>1
<1>6. OpenToCome'
  BY <1>5 DEF OpenToCome, Open, IsRaced, IsSpared
<1>7. ASSUME NEW t \in Tokens, NEW u, u = token'[t].user, token'[t].state = "live",
             ~ IsRaced(token'[t]), ~ IsSpared(token'[t])
      PROVE  Open(u)'
  <2>1. CASE t = n
    BY <1>2, <1>3, <1>7, <2>1
  <2>2. CASE t # n
    <3>1. u \in Users /\ Open(u)
      BY <1>3, <1>7, <2>2 DEF ClosedInv, OpenNow, Live, From
    <3> QED BY <1>2, <3>1
  <2> QED BY <2>1, <2>2
<1>8. OpenNow'
  BY <1>7 DEF OpenNow, Live, Open, IsRaced, IsSpared
<1> QED BY <1>6, <1>8 DEF ClosedInv

LEMMA ClosedNext == IInv /\ ClosedInv /\ [Next]_vars => ClosedInv'
<1> SUFFICES ASSUME IInv, ClosedInv, [Next]_vars, faults' = 0 PROVE ClosedInv'
  BY DEF ClosedInv
<1>t. TypeOK /\ RevokedFrom(token)
  BY SameRows DEF IInv
<1>0. ASSUME NEW r \in Reqs, RequestFails(r)
      PROVE  FALSE
  <2>1. faults' = faults + 1 /\ faults \in Nat
    BY <1>0, <1>t, ConstantsAssumption DEF RequestFails, TypeOK
  <2> QED BY <2>1
<1>1. ASSUME NEW r \in Reqs, LoginCreate(r)
      PROVE  ClosedInv'
  <2>1. PICK n \in Tokens, new \in SessionRow :
           /\ token[n].state = "none" /\ token' = [token EXCEPT ![n] = new]
           /\ new.user = req[r].user /\ new.past = req[r].past
    BY <1>1, LoginShape
  <2>2. /\ req[r].pc = "create" /\ req' = [req EXCEPT ![r] = IdleReq]
        /\ UNCHANGED status /\ faults = 0
    BY <1>1 DEF LoginCreate, account
  <2>3. new.user \in Users /\ (~ IsRaced(new) => Open(new.user))
    BY <2>1, <2>2 DEF SessionRow, ClosedInv, OpenToCome, IsRaced
  <2> QED BY <1>t, <2>1, <2>2, <2>3, ClosedCreate
<1>2. ASSUME NEW r \in Reqs, Rotate(r)
      PROVE  ClosedInv'
  <2>0. PICK t : t = req[r].tok
    OBVIOUS
  <2>1. PICK n \in Tokens, new \in SessionRow :
           /\ token[n].state = "none" /\ token' = [Revoked({t}) EXCEPT ![n] = new]
           /\ new.user = req[r].user
           /\ IsRaced(new) <=> IsRaced(req[r]) \/ IsRaced(token[t])
           /\ IsSpared(new) <=> IsSpared(req[r]) \/ IsSpared(token[t])
    BY <1>2, <2>0, RotateShape
  <2>2. /\ req[r].pc = "rotate" /\ req' = [req EXCEPT ![r] = IdleReq]
        /\ UNCHANGED status /\ faults = 0
    BY <1>2 DEF Rotate, account
  <2>3. new.user \in Users /\ (~ IsRaced(new) /\ ~ IsSpared(new) => Open(new.user))
    BY <2>0, <2>1, <2>2 DEF SessionRow, ClosedInv, OpenToCome
  <2>4. RevokedFrom(Revoked({t}))
    BY <1>t, RevokedSome
  <2> QED BY <2>1, <2>2, <2>3, <2>4, ClosedCreate
<1>3. ASSUME NEW r \in Reqs, ReadingStep(r)
      PROVE  ClosedInv'
  <2>1. PICK q :
         /\ req' = [req EXCEPT ![r] = q]
         /\ OtherReads(q) \/ \E t \in Tokens : token[t].state # "none" /\ ReadAs(q, t)
         /\ q.pc = "rotate" => Active(q.user)
    BY <1>3 DEF ReadingStep
  <2>2. /\ UNCHANGED <<status, token, faults>> /\ req[r].pc = "idle"
    BY <1>3 DEF ReadingStep, Same
  <2>3. q \in Requests
    BY <1>t, <2>1, OtherReadsShape, ReadAsShape
  <2>4. q.pc = "create" => Active(q.user)
    <3>1. CASE OtherReads(q)
      BY <1>t, <3>1, OtherReadsShape
    <3>2. CASE \E t \in Tokens : token[t].state # "none" /\ ReadAs(q, t)
      BY <1>t, <3>2, ReadAsShape DEF OfToken
    <3> QED BY <2>1, <3>1, <3>2
  <2>5. q.pc \in {"create", "rotate"} => status[q.user] # "barred"
    BY <2>1, <2>4 DEF Active
  <2> QED BY <2>1, <2>2, <2>3, <2>5, ClosedRead
<1>4. ASSUME RevokingStep
      PROVE  ClosedInv'
  <2>1. /\ RevokedFrom(token') /\ KeptRequests /\ UNCHANGED <<status, faults>>
        /\ \A r \in Reqs : req[r].pc = "revokeAll" => req'[r] = req[r]
    BY <1>4, <1>t, RevokingShape
  <2>2. \A u \in Users : Open(u) => Open(u)'
    BY <2>1 DEF Open
  <2> QED BY <2>1, <2>2, ClosedKept
<1>5. ASSUME NEW r \in Reqs, PasswordWrite(r) \/ DisableRevoke(r)
      PROVE  ClosedInv'
  <2>1. PICK u : u = req[r].user
    OBVIOUS
  <2>2. PICK from : req' = Overtake(r, u) /\ token' = RevokeAllOf(u, from) /\ UNCHANGED <<status, faults>>
    BY <1>5, <2>1 DEF PasswordWrite, DisableRevoke, account
  <2>3. /\ RevokedFrom(token')
        /\ \A t \in Tokens : token'[t].user = u /\ token'[t].state = "live" => IsSpared(token'[t])
    BY <1>t, <2>2, RevokedAll DEF RevokedFrom, From
  <2>4. /\ KeptRequests
        /\ \A s \in Reqs : req'[s].pc \in {"create", "rotate"} /\ ~ IsRaced(req'[s]) => req'[s].user # u
    BY <1>t, <2>2, OvertakeKeeps
  <2>5. ASSUME NEW v \in Users, v # u, Open(v)
        PROVE  Open(v)'
    <3>1. ASSUME NEW s \in Reqs, req[s].pc = "revokeAll", req[s].user = v
          PROVE  req'[s] = req[s]
      BY <2>1, <2>2, <2>5, <3>1 DEF Overtake
    <3> QED BY <2>2, <2>5, <3>1 DEF Open
  <2> QED BY <2>2, <2>3, <2>4, <2>5, ClosedKept
<1>6. ASSUME NEW r \in Reqs, DisableWrite(r)
      PROVE  ClosedInv'
  <2>1. PICK q, u : q = Revoking(u, req[r].tenant) /\ u = req[r].user
    OBVIOUS
  <2>2. q \in Requests /\ q.pc = "revokeAll" /\ q.user = u
    BY <1>6, <1>t, <2>1, ReqShape DEF Requests, Revoking, DisableWrite, TypeOK
  <2>3. /\ req[r].pc # "revokeAll" /\ faults = 0 /\ UNCHANGED token
        /\ req' = [req EXCEPT ![r] = q]
    BY <1>6, <2>1 DEF DisableWrite
  <2>4. \A v \in Users : status[v] # "barred" /\ status'[v] = "barred" => v = u
    BY <1>6, <1>t, <2>1 DEF DisableWrite, TypeOK
  <2> QED BY <2>2, <2>3, <2>4, ClosedRead
<1>7. ASSUME NEW r \in Reqs, ForgotCommit(r)
      PROVE  ClosedInv'
  BY <1>7, IdleBuilt, ClosedRead DEF ForgotCommit, account
<1>8. ASSUME UNCHANGED <<token, req, faults>>,
             \A u \in Users : status[u] # "barred" => status'[u] # "barred"
      PROVE  ClosedInv'
  BY <1>8, <1>t, KeptSame, ClosedKept DEF Open
<1>9. ASSUME AccountStep
      PROVE  ClosedInv'
  <2>1. ASSUME NEW u \in Users, NEW st \in {"active", "waiting"}, status' = [status EXCEPT ![u] = st]
        PROVE  \A v \in Users : status[v] # "barred" => status'[v] # "barred"
    BY <1>t, <2>1 DEF TypeOK
  <2>2. \A v \in Users : status[v] # "barred" => status'[v] # "barred"
    BY <1>9, <2>1 DEF AccountStep, Enable, Complete
  <2> QED BY <1>8, <1>9, <2>2 DEF AccountStep
<1>10. CASE UNCHANGED vars
  BY <1>8, <1>10 DEF vars
<1> QED BY <1>t, <1>0, <1>1, <1>2, <1>3, <1>4, <1>5, <1>6, <1>7, <1>9, <1>10, Steps DEF EndingStep

\* Unless a request is cut off, a user has no session once the update that
\* barred the user has made both its writes, but what a login or a refresh it
\* has overtaken leaves behind and, of an account that has moved to another
\* tenant, the rows that the update does not ask for.
THEOREM DisablingEndsSessions == Spec => []DisabledHasNoSession
<1>1. Init => ClosedInv
  BY IdleBuilt DEF Init, ClosedInv, OpenToCome, OpenNow, Live, NoToken, Session, Open
<1>2. ClosedInv /\ MovesInv => DisabledHasNoSession
  BY DEF ClosedInv, OpenNow, Open, MovesInv, SparedHasMoved, DisabledHasNoSession, IsRaced, IsSpared
<1> QED BY <1>1, <1>2, ClosedNext, SessionInvariant, SparedMoved, PTL DEF Spec
=============================================================================
