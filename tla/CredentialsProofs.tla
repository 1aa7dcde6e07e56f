------------------------- MODULE CredentialsProofs -------------------------
(***************************************************************************)
(* Proofs about Credentials and LoginAttempts, for every set of codes,     *)
(* challenges, states, providers and requests in flight: an account keeps  *)
(* a way in, the second factor that is asked for was confirmed, what may   *)
(* be used once lets nobody in twice, and wrong passwords are limited.     *)
(***************************************************************************)
EXTENDS Credentials, LoginAttempts, FiniteSetTheorems, TLAPS

-----------------------------------------------------------------------------
(* What a request in flight holds *)

\* The shapes of a request, by what it does.
CallType ==
  {Quiet} \cup
  [pc : {"spend", "challenge", "disable", "mark", "exchange"}, holds : SUBSET OneTime] \cup
  [pc : {"confirm"}, holds : {{}}, secret : Nat] \cup
  [pc : {"unlink"}, holds : {{}}, provider : Providers]

CallsOK == call \in [Calls -> CallType]

NatsOK == secret \in Nat /\ setups \in Nat

\* What a request that is not idle holds is a set of one-time things.
LEMMA CallFields ==
  ASSUME NEW x \in CallType
  PROVE  /\ x.pc = "idle" <=> x = Quiet
         /\ x.pc # "idle" => x.holds \in SUBSET OneTime
         /\ x.pc \in {"confirm", "disable", "unlink"} => x # Quiet
         /\ x.pc \in {"spend", "challenge", "mark", "exchange"} => x \in [pc : {"spend", "challenge", "disable", "mark", "exchange"}, holds : SUBSET OneTime]
         /\ x.pc = "confirm" => x.secret \in Nat
  BY DEF CallType, Quiet

\* Requests that begin, and those that go on, have one of the shapes.
LEMMA HoldingType ==
  ASSUME NEW pc \in {"spend", "challenge", "disable", "mark", "exchange"},
         NEW things \in SUBSET OneTime
  PROVE  Holding(pc, things) \in CallType
  BY DEF Holding, CallType

LEMMA CallsStep ==
  ASSUME CallsOK, NatsOK, [CredentialNext]_credentialVars
  PROVE  CallsOK' /\ NatsOK'
<1> USE DEF CallsOK, NatsOK
<1>q. Quiet \in CallType
  BY DEF CallType
<1>1. ASSUME NEW r \in Calls, call' = [call EXCEPT ![r] = Quiet]
      PROVE  CallsOK'
  BY <1>1, <1>q
<1>2. ASSUME NEW r \in Calls, NEW pc \in {"spend", "challenge", "disable", "mark", "exchange"},
             NEW things \in SUBSET OneTime,
             call' = [call EXCEPT ![r] = Holding(pc, things)]
      PROVE  CallsOK'
  BY <1>2, HoldingType
<1>3. ASSUME NEW r \in Calls, NEW pc \in {"challenge", "exchange"},
             call[r].pc \in {"spend", "mark"},
             call' = [call EXCEPT ![r].pc = pc]
      PROVE  CallsOK'
  <2>1. [call[r] EXCEPT !.pc = pc] \in CallType
    BY <1>3, CallFields DEF CallType
  <2> QED
    BY <1>3, <2>1
<1>4. CASE UNCHANGED credentialVars
  BY <1>4 DEF credentialVars
<1>5. CASE UNCHANGED <<call, secret, setups>>
  BY <1>5
<1>6. CASE BeginMfaSetup
  BY <1>6 DEF BeginMfaSetup
<1>7. CASE ResetMfa
  BY <1>7 DEF ResetMfa
<1>8. ASSUME NEW c \in Challenges, NEW r \in Calls,
             VerifyTotp(r, c) \/ UseChallenge(r, c) \/ \E k \in Codes : VerifyRecovery(r, c, k)
      PROVE  CallsOK' /\ NatsOK'
  <2>1. CASE VerifyTotp(r, c)
    <3>1. {c} \in SUBSET OneTime
      BY DEF OneTime
    <3> QED
      BY <2>1, <3>1, <1>2 DEF VerifyTotp
  <2>2. CASE UseChallenge(r, c)
    BY <2>2, <1>1 DEF UseChallenge
  <2>3. ASSUME NEW k \in Codes, VerifyRecovery(r, c, k)
        PROVE  CallsOK' /\ NatsOK'
    <3>1. {c, k} \in SUBSET OneTime
      BY DEF OneTime
    <3> QED
      BY <2>3, <3>1, <1>2 DEF VerifyRecovery
  <2> QED
    BY <1>8, <2>1, <2>2, <2>3
<1>9. ASSUME NEW r \in Calls, ConfirmRead(r)
      PROVE  CallsOK' /\ NatsOK'
  BY <1>9 DEF ConfirmRead, CallType
<1>10. ASSUME NEW r \in Calls, DisableRead(r) \/ DisableWrite(r) \/ CallFails(r)
       PROVE  CallsOK' /\ NatsOK'
  BY <1>10, <1>1, <1>2 DEF DisableRead, DisableWrite, CallFails
<1>11. ASSUME NEW r \in Calls, NEW k \in Codes, ConfirmWrite(r, k) \/ SpendCode(r, k)
       PROVE  CallsOK' /\ NatsOK'
  BY <1>11, <1>1, <1>3 DEF ConfirmWrite, SpendCode
<1>12. ASSUME NEW r \in Calls, NEW s \in States,
              CallbackRead(r, s) \/ CallbackMark(r, s) \/ LinkProvider(r, s) \/ OAuthLogin(r, s)
       PROVE  CallsOK' /\ NatsOK'
  BY <1>12, <1>1, <1>2, <1>3
     DEF CallbackRead, CallbackMark, LinkProvider, OAuthLogin, OneTime
<1>13. ASSUME NEW r \in Calls, NEW p \in Providers, UnlinkRead(r, p)
       PROVE  CallsOK' /\ NatsOK'
  BY <1>13 DEF UnlinkRead, CallType
<1>14. ASSUME NEW r \in Calls, UnlinkWrite(r)
       PROVE  CallsOK' /\ NatsOK'
  BY <1>14, <1>1 DEF UnlinkWrite
<1>15. ASSUME LoginSession \/ SetPassword \/ (\E x \in OneTime : LoginChallenge(x) \/ TokenExpires(x))
              \/ \E s \in States, m \in Modes, p \in Providers : StartOAuth(s, m, p)
       PROVE  UNCHANGED <<call, secret, setups>>
  BY <1>15 DEF LoginSession, SetPassword, LoginChallenge, TokenExpires, StartOAuth
<1> QED
  BY <1>4, <1>5, <1>6, <1>7, <1>8, <1>9, <1>10, <1>11, <1>12, <1>13, <1>14, <1>15
     DEF CredentialNext, SecondFactorNext, SecondFactorCall, OAuthNext, OAuthCall, OneTime

-----------------------------------------------------------------------------
(* A way in *)

\* Without a race one request at most unlinks, and what it read still holds:
\* when its provider is gone there is the password or another one.
UnlinkSafe ==
  "unlink" \notin raced =>
    \A r \in Calls : call[r].pc = "unlink" =>
      /\ password \/ linked \ {call[r].provider} # {}
      /\ \A q \in Calls \ {r} : call[q].pc # "unlink"

WayInv == CallsOK /\ UnlinkSafe /\ AlwaysAWayIn

\* A step that takes neither password nor provider away, and lets no request
\* begin to unlink, keeps what was read.
LEMMA WayKept ==
  ASSUME WayInv, CallsOK',
         password => password', linked \subseteq linked', raced \subseteq raced',
         \A r \in Calls : call'[r].pc = "unlink" => call'[r] = call[r]
  PROVE  WayInv'
  BY DEF WayInv, UnlinkSafe, AlwaysAWayIn

LEMMA UnlinkReadWay ==
  ASSUME WayInv, CallsOK', NEW r \in Calls, NEW p \in Providers, UnlinkRead(r, p)
  PROVE  WayInv'
<1>1. \A q \in Calls : q # r => call'[q] = call[q]
  BY DEF UnlinkRead, WayInv, CallsOK
<1>2. call'[r] = [pc |-> "unlink", holds |-> {}, provider |-> p]
  BY DEF UnlinkRead, WayInv, CallsOK
<1>3. call'[r].provider = p
  BY <1>2
<1>4. raced \subseteq raced' /\ UNCHANGED <<password, linked>>
  BY DEF UnlinkRead
<1>5. (\E q \in Calls : call[q].pc = "unlink") => "unlink" \in raced'
  BY DEF UnlinkRead
<1>6. password \/ linked \ {p} # {}
  BY DEF UnlinkRead
<1> QED
  BY <1>1, <1>3, <1>4, <1>5, <1>6 DEF WayInv, UnlinkSafe, AlwaysAWayIn

LEMMA UnlinkWriteWay ==
  ASSUME WayInv, CallsOK', NEW r \in Calls, UnlinkWrite(r)
  PROVE  WayInv'
<1>1. \A q \in Calls : call'[q] = IF q = r THEN Quiet ELSE call[q]
  BY DEF UnlinkWrite, WayInv, CallsOK
<1>2. Quiet.pc # "unlink"
  BY DEF Quiet
<1>3. UNCHANGED <<password, raced>>
  BY DEF UnlinkWrite
<1>4. "unlink" \notin raced => \A q \in Calls : call'[q].pc # "unlink"
  BY <1>1, <1>2 DEF WayInv, UnlinkSafe, UnlinkWrite
<1>5. "unlink" \notin raced => password \/ linked' # {}
  BY DEF WayInv, UnlinkSafe, UnlinkWrite
<1> QED
  BY <1>3, <1>4, <1>5 DEF WayInv, UnlinkSafe, AlwaysAWayIn

\* What a step that is not about unlinking does to the requests in flight.
LEMMA OthersWay ==
  ASSUME CallsOK, CredentialNext,
         ~ \E r \in Calls : UnlinkWrite(r) \/ \E p \in Providers : UnlinkRead(r, p)
  PROVE  /\ password => password'
         /\ linked \subseteq linked' /\ raced \subseteq raced'
         /\ \A r \in Calls : call'[r].pc = "unlink" => call'[r] = call[r]
<1> DEFINE Keeps == /\ password => password'
                   /\ linked \subseteq linked' /\ raced \subseteq raced'
                   /\ \A r \in Calls : call'[r].pc = "unlink" => call'[r] = call[r]
<1> USE DEF CallsOK
<1>q. Quiet.pc # "unlink"
  BY DEF Quiet
<1>h. ASSUME NEW pc, NEW things PROVE Holding(pc, things).pc = pc
  BY DEF Holding
<1>1. CASE SecondFactorNext
  <2>1. CASE LoginSession \/ BeginMfaSetup \/ ResetMfa
    BY <2>1 DEF LoginSession, BeginMfaSetup, ResetMfa
  <2>2. ASSUME NEW c \in Challenges, LoginChallenge(c) \/ TokenExpires(c)
        PROVE  Keeps
    BY <2>2 DEF LoginChallenge, TokenExpires
  <2>3. ASSUME NEW r \in Calls, NEW c \in Challenges, VerifyTotp(r, c)
        PROVE  Keeps
    BY <2>3, <1>h DEF VerifyTotp
  <2>4. ASSUME NEW r \in Calls, NEW c \in Challenges, UseChallenge(r, c)
        PROVE  Keeps
    BY <2>4, <1>q DEF UseChallenge
  <2>5. ASSUME NEW r \in Calls, NEW c \in Challenges, NEW k \in Codes, VerifyRecovery(r, c, k)
        PROVE  Keeps
    BY <2>5, <1>h DEF VerifyRecovery
  <2>6. ASSUME NEW r \in Calls, ConfirmRead(r) \/ DisableRead(r) \/ DisableWrite(r) \/ CallFails(r)
        PROVE  Keeps
    BY <2>6, <1>q, <1>h DEF ConfirmRead, DisableRead, DisableWrite, CallFails
  <2>7. ASSUME NEW r \in Calls, NEW k \in Codes, ConfirmWrite(r, k)
        PROVE  Keeps
    BY <2>7, <1>q DEF ConfirmWrite
  <2>8. ASSUME NEW r \in Calls, NEW k \in Codes, SpendCode(r, k)
        PROVE  Keeps
    <3>1. call'[r].pc = "challenge"
      BY <2>8, CallFields DEF SpendCode
    <3> QED
      BY <2>8, <3>1 DEF SpendCode
  <2> QED
    BY <1>1, <2>1, <2>2, <2>3, <2>4, <2>5, <2>6, <2>7, <2>8
       DEF SecondFactorNext, SecondFactorCall
<1>2. CASE OAuthNext
  <2>1. CASE SetPassword
    BY <2>1 DEF SetPassword
  <2>2. ASSUME NEW s \in States, NEW m \in Modes, NEW p \in Providers,
               StartOAuth(s, m, p) \/ TokenExpires(s)
        PROVE  Keeps
    BY <2>2 DEF StartOAuth, TokenExpires
  <2>9. ASSUME NEW s \in States, TokenExpires(s)
        PROVE  Keeps
    BY <2>9 DEF TokenExpires
  <2>3. ASSUME NEW r \in Calls, NEW s \in States, CallbackRead(r, s)
        PROVE  Keeps
    BY <2>3, <1>h DEF CallbackRead
  <2>4. ASSUME NEW r \in Calls, NEW s \in States, CallbackMark(r, s)
        PROVE  Keeps
    <3>1. call'[r].pc = "exchange"
      BY <2>4, CallFields DEF CallbackMark
    <3> QED
      BY <2>4, <3>1 DEF CallbackMark
  <2>5. ASSUME NEW r \in Calls, NEW s \in States, LinkProvider(r, s) \/ OAuthLogin(r, s)
        PROVE  Keeps
    BY <2>5, <1>q DEF LinkProvider, OAuthLogin
  <2>6. ASSUME NEW r \in Calls, CallFails(r)
        PROVE  Keeps
    BY <2>6, <1>q DEF CallFails
  <2> QED
    BY <1>2, <2>1, <2>2, <2>3, <2>4, <2>5, <2>6, <2>9 DEF OAuthNext, OAuthCall
<1> QED
  BY <1>1, <1>2 DEF CredentialNext

\* There is always a password or a provider to sign in with, whatever requests
\* and failures come in between, unless two requests unlinked at once:
\* unlinkOAuthProvider.
THEOREM WayInKept == CredentialSpec => []AlwaysAWayIn
<1>1. CredentialInit => NatsOK /\ WayInv
  BY DEF CredentialInit, NatsOK, WayInv, CallsOK, CallType, UnlinkSafe, AlwaysAWayIn, Quiet
<1>2. NatsOK /\ WayInv /\ [CredentialNext]_credentialVars => NatsOK' /\ WayInv'
  <2> SUFFICES ASSUME NatsOK, WayInv, [CredentialNext]_credentialVars
               PROVE  NatsOK' /\ WayInv'
    OBVIOUS
  <2>1. CallsOK' /\ NatsOK'
    BY CallsStep DEF WayInv
  <2>2. CASE UNCHANGED credentialVars
    BY <2>1, <2>2, WayKept DEF credentialVars
  <2>3. ASSUME NEW r \in Calls, UnlinkWrite(r) \/ \E p \in Providers : UnlinkRead(r, p)
        PROVE  WayInv'
    BY <2>1, <2>3, UnlinkReadWay, UnlinkWriteWay
  <2>4. CASE CredentialNext /\ ~ \E r \in Calls : UnlinkWrite(r) \/ \E p \in Providers : UnlinkRead(r, p)
    BY <2>1, <2>4, OthersWay, WayKept DEF WayInv
  <2> QED
    BY <2>1, <2>2, <2>3, <2>4
<1>3. WayInv => AlwaysAWayIn
  BY DEF WayInv
<1> QED
  BY <1>1, <1>2, <1>3, PTL DEF CredentialSpec

-----------------------------------------------------------------------------
(* The second factor *)

\* When the second factor is on, the secret is the one whose code switched it
\* on, unless it was replaced between the check of that code and the write:
\* beginMfaSetup, confirmMfa, disableMfa and UsersService.resetMfa.
THEOREM ConfirmedSecret == CredentialSpec => []SecretConfirmed
<1>1. CredentialInit => SecretConfirmed
  BY DEF CredentialInit, SecretConfirmed
<1>2. SecretConfirmed /\ [CredentialNext]_credentialVars => SecretConfirmed'
  <2> SUFFICES ASSUME SecretConfirmed, [CredentialNext]_credentialVars
               PROVE  SecretConfirmed'
    OBVIOUS
  <2> USE DEF SecretConfirmed
  <2>1. CASE UNCHANGED credentialVars
    BY <2>1 DEF credentialVars
  <2>2. CASE LoginSession \/ BeginMfaSetup \/ ResetMfa \/ SetPassword
    BY <2>2 DEF LoginSession, BeginMfaSetup, ResetMfa, SetPassword
  <2>3. ASSUME NEW x, LoginChallenge(x) \/ TokenExpires(x) \/ \E m \in Modes, p \in Providers : StartOAuth(x, m, p)
        PROVE  SecretConfirmed'
    BY <2>3 DEF LoginChallenge, TokenExpires, StartOAuth
  <2>4. ASSUME NEW r \in Calls, NEW x,
               VerifyTotp(r, x) \/ UseChallenge(r, x) \/ \E k \in Codes : VerifyRecovery(r, x, k)
        PROVE  SecretConfirmed'
    BY <2>4 DEF VerifyTotp, UseChallenge, VerifyRecovery
  <2>5. ASSUME NEW r \in Calls,
               ConfirmRead(r) \/ DisableRead(r) \/ DisableWrite(r) \/ CallFails(r) \/ UnlinkWrite(r)
        PROVE  SecretConfirmed'
    BY <2>5 DEF ConfirmRead, DisableRead, DisableWrite, CallFails, UnlinkWrite
  <2>6. ASSUME NEW r \in Calls, NEW k \in Codes, ConfirmWrite(r, k) \/ SpendCode(r, k)
        PROVE  SecretConfirmed'
    <3>1. CASE ConfirmWrite(r, k)
      <4>1. confirmed' = call[r].secret /\ secret' = secret
        BY <3>1 DEF ConfirmWrite
      <4>2. secret # call[r].secret => "mfa" \in raced'
        BY <3>1 DEF ConfirmWrite
      <4> QED
        BY <4>1, <4>2
    <3>2. CASE SpendCode(r, k)
      BY <3>2 DEF SpendCode
    <3> QED
      BY <2>6, <3>1, <3>2
  <2>7. ASSUME NEW r \in Calls, NEW s \in States,
               CallbackRead(r, s) \/ CallbackMark(r, s) \/ LinkProvider(r, s) \/ OAuthLogin(r, s)
        PROVE  SecretConfirmed'
    BY <2>7 DEF CallbackRead, CallbackMark, LinkProvider, OAuthLogin
  <2>8. ASSUME NEW r \in Calls, NEW p \in Providers, UnlinkRead(r, p)
        PROVE  SecretConfirmed'
    BY <2>8 DEF UnlinkRead
  <2> HIDE DEF SecretConfirmed
  <2>9. CASE SecondFactorNext
    BY <2>2, <2>3, <2>4, <2>5, <2>6, <2>9 DEF SecondFactorNext, SecondFactorCall
  <2>10. CASE OAuthNext
    BY <2>2, <2>3, <2>5, <2>7, <2>8, <2>10 DEF OAuthNext, OAuthCall
  <2> QED
    BY <2>1, <2>9, <2>10 DEF CredentialNext
<1> QED
  BY <1>1, <1>2, PTL DEF CredentialSpec

-----------------------------------------------------------------------------
(* What may be used once *)

Holds(r, x) == call[r].pc # "idle" /\ x \in call[r].holds

OnceOK ==
  /\ once \in [OneTime -> {"none", "open", "used", "gone"}]
  /\ admitted \in [OneTime -> Nat]

\* What was used up by letting somebody in can be read as unused no more, and
\* what was never issued is in nobody's hands.
SpentIsClosed ==
  \A x \in OneTime :
    /\ once[x] \in {"none", "open"} => admitted[x] = 0
    /\ once[x] = "none" => \A r \in Calls : ~ Holds(r, x)

\* Without a race it is in the hands of one request, and has let nobody in.
OneHolder ==
  \A x \in OneTime \ raced : \A r \in Calls : Holds(r, x) =>
    /\ admitted[x] = 0
    /\ \A q \in Calls \ {r} : ~ Holds(q, x)

\* Where a request has come to, by what it holds: a recovery code is marked
\* before the challenge, a state before the provider is asked.
HeldInOrder ==
  \A r \in Calls :
    /\ call[r].pc = "spend" => \E c \in Challenges, k \in Codes : call[r].holds = {c, k}
    /\ call[r].pc = "challenge" => \E c \in Challenges :
         /\ call[r].holds \cap Challenges = {c}
         /\ \A x \in call[r].holds \ {c} : once[x] \in {"used", "gone"}
    /\ call[r].pc = "mark" => \E s \in States : call[r].holds = {s}
    /\ call[r].pc = "exchange" => \A x \in call[r].holds : once[x] \in {"used", "gone"}

OnceInv == CallsOK /\ OnceOK /\ SpentIsClosed /\ OneHolder /\ HeldInOrder /\ OneTimeOnly

\* Nothing that was issued is ever unissued, and nothing closed opens again.
MovesOn ==
  \A x \in OneTime :
    \/ once'[x] = once[x]
    \/ once[x] = "none" /\ once'[x] = "open"
    \/ once[x] # "none" /\ once'[x] \in {"used", "gone"}

\* A request stays as it is, ends, or begins with nothing in its hands.
TakesNothing(r) ==
  \/ call'[r] = call[r]
  \/ call'[r].pc = "idle"
  \/ call'[r].pc \in {"confirm", "disable", "unlink"} /\ call'[r].holds = {}

\* Steps that neither take a one-time thing nor let anybody in.
LEMMA QuietOnce ==
  ASSUME OnceInv, CallsOK', OnceOK', MovesOn, admitted' = admitted, raced \subseteq raced',
         \A r \in Calls : TakesNothing(r)
  PROVE  OnceInv'
<1>1. \A r \in Calls : \A x : Holds(r, x)' => Holds(r, x) /\ call'[r] = call[r]
  BY DEF TakesNothing, Holds
<1>2. SpentIsClosed'
  BY <1>1 DEF OnceInv, SpentIsClosed, MovesOn, OnceOK
<1>3. OneHolder'
  BY <1>1 DEF OnceInv, OneHolder
<1>4. HeldInOrder'
  <2> SUFFICES ASSUME NEW r \in Calls, call'[r] = call[r], call[r].pc # "idle"
               PROVE  /\ call[r].pc = "spend" => \E c \in Challenges, k \in Codes : call[r].holds = {c, k}
                      /\ call[r].pc = "challenge" => \E c \in Challenges :
                           /\ call[r].holds \cap Challenges = {c}
                           /\ \A x \in call[r].holds \ {c} : once'[x] \in {"used", "gone"}
                      /\ call[r].pc = "mark" => \E s \in States : call[r].holds = {s}
                      /\ call[r].pc = "exchange" => \A x \in call[r].holds : once'[x] \in {"used", "gone"}
    BY DEF HeldInOrder, TakesNothing
  <2>1. \A x \in call[r].holds : x \in OneTime
    BY CallFields DEF OnceInv, CallsOK
  <2>2. \A x \in call[r].holds : once[x] \in {"used", "gone"} => once'[x] \in {"used", "gone"}
    BY <2>1 DEF MovesOn
  <2> QED
    BY <2>2 DEF OnceInv, HeldInOrder
<1>5. OneTimeOnly'
  BY DEF OnceInv, OneTimeOnly
<1> QED
  BY <1>2, <1>3, <1>4, <1>5 DEF OnceInv

\* An idle request reads things as unused; whoever has read one too is raced.
LEMMA ReadOnce ==
  ASSUME OnceInv, CallsOK', NEW r \in Calls, call[r] = Quiet,
         NEW pc \in {"spend", "challenge", "mark"}, NEW things \in SUBSET OneTime,
         \A x \in things : once[x] = "open",
         call' = [call EXCEPT ![r] = Holding(pc, things)],
         raced' = raced \cup {x \in things : HeldBy(x, r)},
         UNCHANGED <<once, admitted>>,
         pc = "spend" => \E c \in Challenges, k \in Codes : things = {c, k},
         pc = "challenge" => \E c \in Challenges : things = {c},
         pc = "mark" => \E s \in States : things = {s}
  PROVE  OnceInv'
<1>1. \A q \in Calls : q # r => call'[q] = call[q]
  BY DEF OnceInv, CallsOK
<1>2. call'[r].pc = pc /\ call'[r].holds = things
  BY DEF OnceInv, CallsOK, Holding
<1>3. \A x : Holds(r, x)' <=> x \in things
  BY <1>2 DEF Holds
<1>4. \A q \in Calls : q # r => \A x : Holds(q, x)' <=> Holds(q, x)
  BY <1>1 DEF Holds
<1>5. \A x \in things : x \notin raced' => \A q \in Calls \ {r} : ~ Holds(q, x)
  BY DEF HeldBy, Holds
<1>6. SpentIsClosed'
  BY <1>3, <1>4 DEF OnceInv, SpentIsClosed
<1>7. OneHolder'
  <2> SUFFICES ASSUME NEW x \in OneTime, x \notin raced', NEW q \in Calls, Holds(q, x)'
               PROVE  admitted[x] = 0 /\ \A o \in Calls \ {q} : ~ Holds(o, x)'
    BY DEF OneHolder
  <2>1. CASE x \in things
    BY <2>1, <1>3, <1>4, <1>5 DEF OnceInv, SpentIsClosed
  <2>2. CASE x \notin things
    BY <2>2, <1>3, <1>4 DEF OnceInv, OneHolder
  <2> QED
    BY <2>1, <2>2
<1>8. HeldInOrder'
  <2>1. pc = "challenge" => \E c \in Challenges : things \cap Challenges = {c} /\ things \ {c} = {}
    OBVIOUS
  <2> QED
    BY <1>1, <1>2, <2>1 DEF OnceInv, HeldInOrder
<1>9. OneTimeOnly'
  BY DEF OnceInv, OneTimeOnly
<1>10. OnceOK'
  BY DEF OnceInv, OnceOK
<1> QED
  BY <1>6, <1>7, <1>8, <1>9, <1>10 DEF OnceInv

\* A request marks one thing it holds as used and goes on.
LEMMA MarkOnce ==
  ASSUME OnceInv, CallsOK', NEW r \in Calls, NEW x \in OneTime,
         Holds(r, x), once' = [once EXCEPT ![x] = "used"],
         \A q \in Calls : q # r => call'[q] = call[q],
         call'[r].holds = call[r].holds, call'[r].pc \in {"challenge", "exchange"},
         UNCHANGED <<admitted, raced>>,
         call'[r].pc = "challenge" =>
           \E c \in Challenges : call[r].holds \cap Challenges = {c} /\ call[r].holds \subseteq {c, x},
         call'[r].pc = "exchange" => call[r].holds = {x}
  PROVE  OnceInv'
<1>1. \A q \in Calls : \A y : Holds(q, y)' <=> Holds(q, y)
  BY DEF Holds
<1>2. OnceOK' /\ once'[x] = "used" /\ \A y \in OneTime : y # x => once'[y] = once[y]
  BY DEF OnceInv, OnceOK
<1>3. SpentIsClosed'
  BY <1>1, <1>2 DEF OnceInv, SpentIsClosed
<1>4. OneHolder'
  BY <1>1 DEF OnceInv, OneHolder
<1>5. HeldInOrder'
  <2>1. \A q \in Calls : call[q].pc # "idle" => call[q].holds \in SUBSET OneTime
    BY CallFields DEF OnceInv, CallsOK
  <2>2. ASSUME NEW q \in Calls, q # r, call[q].pc # "idle", NEW y \in call[q].holds,
               once[y] \in {"used", "gone"}
        PROVE  once'[y] \in {"used", "gone"}
    BY <2>1, <2>2, <1>2
  <2>3. call'[r].pc = "challenge" => \E c \in Challenges :
          call[r].holds \cap Challenges = {c} /\ \A y \in call[r].holds \ {c} : once'[y] = "used"
    BY <1>2
  <2>4. call'[r].pc = "exchange" => \A y \in call[r].holds : once'[y] = "used"
    BY <1>2
  <2> QED
    BY <2>2, <2>3, <2>4 DEF OnceInv, HeldInOrder
<1>6. OneTimeOnly'
  BY DEF OnceInv, OneTimeOnly
<1> QED
  BY <1>2, <1>3, <1>4, <1>5, <1>6 DEF OnceInv

\* A request is let in: all it holds is marked by then.
LEMMA AdmitOnce ==
  ASSUME OnceInv, CallsOK', OnceOK', MovesOn, NEW r \in Calls, call[r].pc # "idle",
         admitted' = Admit(r), call' = [call EXCEPT ![r] = Quiet], raced' = raced,
         \A x \in call[r].holds : once'[x] \in {"used", "gone"}
  PROVE  OnceInv'
<1>1. \A q \in Calls : q # r => call'[q] = call[q] /\ \A x : Holds(q, x)' <=> Holds(q, x)
  BY DEF Holds, OnceInv, CallsOK
<1>2. call'[r].pc = "idle" /\ \A x : ~ Holds(r, x)'
  BY DEF Holds, OnceInv, CallsOK, Quiet
<1>3. \A x \in OneTime : admitted'[x] = IF Holds(r, x) THEN admitted[x] + 1 ELSE admitted[x]
  BY DEF Admit, Holds, OnceInv, OnceOK
<1>4. SpentIsClosed'
  <2> SUFFICES ASSUME NEW x \in OneTime
               PROVE  /\ once'[x] \in {"none", "open"} => admitted'[x] = 0
                      /\ once'[x] = "none" => \A q \in Calls : ~ Holds(q, x)'
    BY DEF SpentIsClosed
  <2>1. once'[x] \in {"none", "open"} => once[x] \in {"none", "open"} /\ ~ Holds(r, x)
    BY DEF MovesOn, OnceInv, OnceOK, Holds
  <2>2. once'[x] = "none" => once[x] = "none"
    BY DEF MovesOn
  <2> QED
    BY <1>1, <1>2, <1>3, <2>1, <2>2 DEF OnceInv, SpentIsClosed
<1>5. OneHolder'
  <2> SUFFICES ASSUME NEW x \in OneTime, x \notin raced, NEW q \in Calls, Holds(q, x)'
               PROVE  admitted'[x] = 0 /\ \A o \in Calls \ {q} : ~ Holds(o, x)'
    BY DEF OneHolder
  <2>1. q # r /\ Holds(q, x)
    BY <1>1, <1>2
  <2>2. ~ Holds(r, x) /\ admitted[x] = 0 /\ \A o \in Calls \ {q} : ~ Holds(o, x)
    BY <2>1 DEF OnceInv, OneHolder
  <2> QED
    BY <1>1, <1>2, <1>3, <2>2
<1>6. HeldInOrder'
  <2>1. \A q \in Calls : call[q].pc # "idle" => call[q].holds \in SUBSET OneTime
    BY CallFields DEF OnceInv, CallsOK
  <2>2. ASSUME NEW q \in Calls, call[q].pc # "idle", NEW y \in call[q].holds,
               once[y] \in {"used", "gone"}
        PROVE  once'[y] \in {"used", "gone"}
    BY <2>1, <2>2 DEF MovesOn
  <2> QED
    BY <1>1, <1>2, <2>2 DEF OnceInv, HeldInOrder
<1>7. OneTimeOnly'
  <2> SUFFICES ASSUME NEW x \in OneTime, x \notin raced
               PROVE  admitted'[x] <= 1
    BY DEF OneTimeOnly
  <2>1. Holds(r, x) => admitted[x] = 0
    BY DEF OnceInv, OneHolder
  <2>2. admitted[x] <= 1 /\ admitted[x] \in Nat
    BY DEF OnceInv, OneTimeOnly, OnceOK
  <2> QED
    BY <1>3, <2>1, <2>2
<1> QED
  BY <1>4, <1>5, <1>6, <1>7 DEF OnceInv

LEMMA NextOnce ==
  ASSUME OnceInv, NatsOK, [CredentialNext]_credentialVars
  PROVE  OnceInv'
<1>0. CallsOK /\ OnceOK /\ HeldInOrder
  BY DEF OnceInv
<1>c. CallsOK'
  BY <1>0, CallsStep
<1>q. Quiet.pc = "idle"
  BY DEF Quiet
<1>w. WithoutCodes \in [OneTime -> {"none", "open", "used", "gone"}]
  BY <1>0 DEF WithoutCodes, OnceOK
<1>1. CASE UNCHANGED <<call, once, admitted>> /\ raced \subseteq raced'
  <2>1. MovesOn /\ OnceOK'
    BY <1>0, <1>1 DEF MovesOn, OnceOK
  <2> QED
    BY <1>1, <1>c, <2>1, QuietOnce DEF TakesNothing
<1>2. ASSUME NEW x \in OneTime,
             \/ once[x] = "none" /\ once' = [once EXCEPT ![x] = "open"]
             \/ once[x] = "open" /\ once' = [once EXCEPT ![x] = "used"],
             UNCHANGED <<call, admitted, raced>>
      PROVE  OnceInv'
  <2>1. MovesOn /\ OnceOK'
    BY <1>0, <1>2 DEF MovesOn, OnceOK
  <2> QED
    BY <1>2, <1>c, <2>1, QuietOnce DEF TakesNothing
<1>3. ASSUME NEW r \in Calls, NEW x \in CallType,
             x.pc = "idle" \/ (x.pc \in {"confirm", "disable", "unlink"} /\ x.holds = {}),
             call' = [call EXCEPT ![r] = x], UNCHANGED <<once, admitted>>, raced \subseteq raced'
      PROVE  OnceInv'
  <2>1. \A q \in Calls : TakesNothing(q)
    BY <1>0, <1>3 DEF TakesNothing, CallsOK
  <2>2. MovesOn /\ OnceOK'
    BY <1>0, <1>3 DEF MovesOn, OnceOK
  <2> QED
    BY <1>3, <1>c, <2>1, <2>2, QuietOnce
<1>4. CASE ResetMfa
  <2>1. OnceOK' /\ MovesOn
    BY <1>0, <1>w, <1>4 DEF ResetMfa, OnceOK, MovesOn, WithoutCodes
  <2> QED
    BY <1>4, <1>c, <2>1, QuietOnce DEF ResetMfa, TakesNothing
<1>5. ASSUME NEW r \in Calls, DisableWrite(r)
      PROVE  OnceInv'
  <2>1. OnceOK' /\ MovesOn
    BY <1>0, <1>w, <1>5 DEF DisableWrite, OnceOK, MovesOn, WithoutCodes
  <2>2. \A q \in Calls : TakesNothing(q)
    BY <1>0, <1>q, <1>5 DEF DisableWrite, TakesNothing, CallsOK
  <2> QED
    BY <1>5, <1>c, <2>1, <2>2, QuietOnce DEF DisableWrite
<1>6. ASSUME NEW r \in Calls, NEW k \in Codes, ConfirmWrite(r, k)
      PROVE  OnceInv'
  <2>0. k \in OneTime
    BY DEF OneTime
  <2>1. OnceOK' /\ MovesOn
    BY <1>0, <1>w, <1>6, <2>0 DEF ConfirmWrite, OnceOK, MovesOn, WithoutCodes
  <2>2. \A q \in Calls : TakesNothing(q)
    BY <1>0, <1>q, <1>6 DEF ConfirmWrite, TakesNothing, CallsOK
  <2>3. raced \subseteq raced' /\ admitted' = admitted
    BY <1>6 DEF ConfirmWrite
  <2> QED
    BY <1>c, <2>1, <2>2, <2>3, QuietOnce
<1>7. ASSUME NEW r \in Calls, NEW c \in Challenges, VerifyTotp(r, c)
      PROVE  OnceInv'
  <2>1. {c} \in SUBSET OneTime
    BY DEF OneTime
  <2>2. raced' = raced \cup {x \in {c} : HeldBy(x, r)}
    <3>1. CASE HeldBy(c, r)
      BY <1>7, <3>1 DEF VerifyTotp
    <3>2. CASE ~ HeldBy(c, r)
      BY <1>7, <3>2 DEF VerifyTotp
    <3> QED
      BY <3>1, <3>2
  <2>3. \A x \in {c} : once[x] = "open"
    BY <1>7 DEF VerifyTotp
  <2> QED
    BY <1>7, <1>c, <2>1, <2>2, <2>3, ReadOnce DEF VerifyTotp
<1>8. ASSUME NEW r \in Calls, NEW c \in Challenges, NEW k \in Codes, VerifyRecovery(r, c, k)
      PROVE  OnceInv'
  <2>1. {c, k} \in SUBSET OneTime
    BY DEF OneTime
  <2>2. \A x \in {c, k} : once[x] = "open"
    BY <1>8 DEF VerifyRecovery
  <2> QED
    BY <1>8, <1>c, <2>1, <2>2, ReadOnce DEF VerifyRecovery
<1>9. ASSUME NEW r \in Calls, NEW s \in States, CallbackRead(r, s)
      PROVE  OnceInv'
  <2>1. {s} \in SUBSET OneTime
    BY DEF OneTime
  <2>2. raced' = raced \cup {x \in {s} : HeldBy(x, r)}
    <3>1. CASE HeldBy(s, r)
      BY <1>9, <3>1 DEF CallbackRead
    <3>2. CASE ~ HeldBy(s, r)
      BY <1>9, <3>2 DEF CallbackRead
    <3> QED
      BY <3>1, <3>2
  <2>3. \A x \in {s} : once[x] = "open"
    BY <1>9 DEF CallbackRead
  <2> QED
    BY <1>9, <1>c, <2>1, <2>2, <2>3, ReadOnce DEF CallbackRead
<1>10. ASSUME NEW r \in Calls, NEW k \in Codes, SpendCode(r, k)
       PROVE  OnceInv'
  <2>1. k \in OneTime /\ Holds(r, k)
    BY <1>10 DEF SpendCode, OneTime, Holds
  <2>2. call'[r].pc = "challenge" /\ call'[r].holds = call[r].holds
    BY <1>0, <1>10, CallFields DEF SpendCode, CallsOK
  <2>3. \A q \in Calls : q # r => call'[q] = call[q]
    BY <1>0, <1>10 DEF SpendCode, CallsOK
  <2>4. PICK c \in Challenges, j \in Codes : call[r].holds = {c, j}
    BY <1>0, <1>10 DEF SpendCode, HeldInOrder
  <2>5. k = j
    BY <1>10, <2>4, OneTimeAssumption DEF SpendCode
  <2>6. call[r].holds \cap Challenges = {c} /\ call[r].holds \subseteq {c, k}
    BY <2>4, <2>5, OneTimeAssumption
  <2> QED
    BY <1>10, <1>c, <2>1, <2>2, <2>3, <2>6, MarkOnce DEF SpendCode
<1>11. ASSUME NEW r \in Calls, NEW s \in States, CallbackMark(r, s)
       PROVE  OnceInv'
  <2>1. s \in OneTime /\ Holds(r, s)
    BY <1>11 DEF CallbackMark, OneTime, Holds
  <2>2. call'[r].pc = "exchange" /\ call'[r].holds = call[r].holds
    BY <1>0, <1>11, CallFields DEF CallbackMark, CallsOK
  <2>3. \A q \in Calls : q # r => call'[q] = call[q]
    BY <1>0, <1>11 DEF CallbackMark, CallsOK
  <2>4. call[r].holds = {s}
    BY <1>0, <1>11 DEF CallbackMark, HeldInOrder
  <2> QED
    BY <1>11, <1>c, <2>1, <2>2, <2>3, <2>4, MarkOnce DEF CallbackMark
<1>12. ASSUME NEW r \in Calls, NEW c \in Challenges, UseChallenge(r, c)
       PROVE  OnceInv'
  <2>1. PICK d \in Challenges : /\ call[r].holds \cap Challenges = {d}
                                /\ \A x \in call[r].holds \ {d} : once[x] \in {"used", "gone"}
    BY <1>0, <1>12 DEF UseChallenge, HeldInOrder
  <2>2. c = d /\ c \in OneTime
    BY <1>12, <2>1 DEF UseChallenge, OneTime
  <2>3. c \in call[r].holds /\ call[r].pc # "idle"
    BY <1>12 DEF UseChallenge
  <2>4. once[c] # "none"
    BY <2>2, <2>3 DEF OnceInv, SpentIsClosed, Holds
  <2>5. once'[c] = "used" /\ \A x \in OneTime : x # c => once'[x] = once[x]
    BY <1>0, <1>12, <2>2 DEF UseChallenge, OnceOK
  <2>6. MovesOn
    BY <2>4, <2>5 DEF MovesOn
  <2>7. call[r].holds \in SUBSET OneTime
    BY <1>0, <2>3, CallFields DEF CallsOK
  <2>8. \A x \in call[r].holds : once'[x] \in {"used", "gone"}
    BY <2>1, <2>2, <2>5, <2>7
  <2>9. OnceOK'
    <3>1. Admit(r) \in [OneTime -> Nat]
      BY <1>0 DEF OnceOK, Admit
    <3> QED
      BY <1>0, <1>12, <3>1 DEF UseChallenge, OnceOK
  <2> QED
    BY <1>12, <1>c, <2>3, <2>6, <2>8, <2>9, AdmitOnce DEF UseChallenge
<1>13. ASSUME NEW r \in Calls, NEW s \in States, LinkProvider(r, s) \/ OAuthLogin(r, s)
       PROVE  OnceInv'
  <2>1. /\ call[r].pc = "exchange" /\ UNCHANGED <<once, raced>>
        /\ admitted' = Admit(r) /\ call' = [call EXCEPT ![r] = Quiet]
    BY <1>13 DEF LinkProvider, OAuthLogin
  <2>2. \A x \in call[r].holds : once'[x] \in {"used", "gone"}
    BY <1>0, <2>1 DEF HeldInOrder
  <2>3. MovesOn /\ OnceOK'
    BY <1>0, <2>1 DEF MovesOn, OnceOK, Admit
  <2> QED
    BY <1>c, <2>1, <2>2, <2>3, AdmitOnce
<1>14. CASE LoginSession \/ BeginMfaSetup \/ SetPassword \/ UNCHANGED credentialVars
  BY <1>1, <1>14 DEF LoginSession, BeginMfaSetup, SetPassword, credentialVars
<1>15. ASSUME NEW x \in OneTime,
              LoginChallenge(x) \/ TokenExpires(x) \/ \E m \in Modes, p \in Providers : StartOAuth(x, m, p)
       PROVE  OnceInv'
  BY <1>2, <1>15 DEF LoginChallenge, TokenExpires, StartOAuth
<1>16. ASSUME NEW r \in Calls, CallFails(r) \/ UnlinkWrite(r)
       PROVE  OnceInv'
  <2>1. Quiet \in CallType
    BY DEF CallType
  <2>2. call' = [call EXCEPT ![r] = Quiet] /\ UNCHANGED <<once, admitted>> /\ raced \subseteq raced'
    BY <1>16 DEF CallFails, UnlinkWrite
  <2> QED
    BY <1>3, <1>q, <2>1, <2>2
<1>17. ASSUME NEW r \in Calls, ConfirmRead(r)
       PROVE  OnceInv'
  <2> DEFINE x == [pc |-> "confirm", holds |-> {}, secret |-> secret]
  <2>1. x \in CallType /\ x.pc = "confirm" /\ x.holds = {}
    BY DEF CallType, NatsOK
  <2>2. call' = [call EXCEPT ![r] = x] /\ UNCHANGED <<once, admitted, raced>>
    BY <1>17 DEF ConfirmRead
  <2> HIDE DEF x
  <2> QED
    BY <1>3, <2>1, <2>2
<1>18. ASSUME NEW r \in Calls, DisableRead(r)
       PROVE  OnceInv'
  <2> DEFINE x == Holding("disable", {})
  <2>1. x \in CallType /\ x.pc = "disable" /\ x.holds = {}
    BY HoldingType DEF Holding
  <2>2. call' = [call EXCEPT ![r] = x] /\ UNCHANGED <<once, admitted, raced>>
    BY <1>18 DEF DisableRead
  <2> HIDE DEF x
  <2> QED
    BY <1>3, <2>1, <2>2
<1>19. ASSUME NEW r \in Calls, NEW p \in Providers, UnlinkRead(r, p)
       PROVE  OnceInv'
  <2> DEFINE x == [pc |-> "unlink", holds |-> {}, provider |-> p]
  <2>1. x \in CallType /\ x.pc = "unlink" /\ x.holds = {}
    BY DEF CallType
  <2>2. call' = [call EXCEPT ![r] = x] /\ UNCHANGED <<once, admitted>> /\ raced \subseteq raced'
    BY <1>19 DEF UnlinkRead
  <2> HIDE DEF x
  <2> QED
    BY <1>3, <2>1, <2>2
<1>20. CASE SecondFactorNext
  BY <1>4, <1>5, <1>6, <1>7, <1>8, <1>10, <1>12, <1>14, <1>15, <1>16, <1>17, <1>18, <1>20
     DEF SecondFactorNext, SecondFactorCall, OneTime
<1>21. CASE OAuthNext
  BY <1>9, <1>11, <1>13, <1>14, <1>15, <1>16, <1>19, <1>21 DEF OAuthNext, OAuthCall, OneTime
<1> QED
  BY <1>14, <1>20, <1>21 DEF CredentialNext

\* A recovery code, a challenge and an OAuth state each let one request in,
\* whatever fails half-way and however often a setup replaces the codes, unless
\* two requests read it as unused at once: verifyMfaLogin, verifyMfaOrRecovery
\* and handleOAuthCallback.
THEOREM OnceOnly == CredentialSpec => []OneTimeOnly
<1>1. CredentialInit => NatsOK /\ OnceInv
  BY DEF CredentialInit, NatsOK, OnceInv, CallsOK, CallType, OnceOK, SpentIsClosed, OneHolder,
         HeldInOrder, OneTimeOnly, Holds, Quiet
<1>2. NatsOK /\ OnceInv /\ [CredentialNext]_credentialVars => NatsOK' /\ OnceInv'
  BY CallsStep, NextOnce DEF OnceInv
<1>3. OnceInv => OneTimeOnly
  BY DEF OnceInv
<1> QED
  BY <1>1, <1>2, <1>3, PTL DEF CredentialSpec

-----------------------------------------------------------------------------
(* The limit on wrong passwords: a request counts against it from the moment *)
(* it is let in, not when the counter is incremented, so the invariant adds  *)
(* the requests that still verify a password to those already counted.       *)

Verifying == {a \in Attempts : attempt[a] = "verify"}

\* What Redis misses of the wrong passwords are the calls that failed.
CountLags == tried <= failures + faults

\* The requests let in, counted or not, are within the limit.
LetIn == tried + Cardinality(Verifying) <= MaxAttempts - 1 + Cardinality(Attempts) + faults

LoginInv == LoginTypeOK /\ CountLags /\ LetIn

-----------------------------------------------------------------------------
\* There are finitely many requests, and no more verify than there are.
LEMMA VerifyingBound ==
  /\ Cardinality(Attempts) \in Nat
  /\ IsFiniteSet(Verifying)
  /\ Cardinality(Verifying) \in Nat
  /\ Cardinality(Verifying) <= Cardinality(Attempts)
  <1>1. IsFiniteSet(Attempts)
    BY LoginAssumption
  <1>2. Verifying \subseteq Attempts
    BY DEF Verifying
  <1>3. QED
    BY <1>1, <1>2, FS_Subset, FS_CardinalityType

\* The same after a step.
LEMMA VerifyingBoundNext ==
  /\ IsFiniteSet(Verifying')
  /\ Cardinality(Verifying') \in Nat
  /\ Cardinality(Verifying') <= Cardinality(Attempts)
  <1>1. IsFiniteSet(Attempts)
    BY LoginAssumption
  <1>2. Verifying' \subseteq Attempts
    BY DEF Verifying
  <1>3. QED
    BY <1>1, <1>2, FS_Subset, FS_CardinalityType

\* A request that is let in is one more that verifies.
LEMMA OneEnters ==
  ASSUME NEW a \in Attempts, LoginTypeOK, attempt[a] = "idle",
         attempt' = [attempt EXCEPT ![a] = "verify"]
  PROVE  Cardinality(Verifying') = Cardinality(Verifying) + 1
  <1>1. Verifying' = Verifying \cup {a}
    BY DEF Verifying, LoginTypeOK
  <1>2. a \notin Verifying
    BY DEF Verifying
  <1>3. QED
    BY <1>1, <1>2, VerifyingBound, FS_AddElement

\* A request that leaves the verification is one less.
LEMMA OneLeaves ==
  ASSUME NEW a \in Attempts, NEW s \in {"idle", "expire"}, LoginTypeOK,
         attempt[a] = "verify", attempt' = [attempt EXCEPT ![a] = s]
  PROVE  Cardinality(Verifying') = Cardinality(Verifying) - 1
  <1>1. Verifying' = Verifying \ {a}
    BY DEF Verifying, LoginTypeOK
  <1>2. a \in Verifying
    BY DEF Verifying
  <1>3. QED
    BY <1>1, <1>2, VerifyingBound, FS_RemoveElement

\* A request that is past the verification does not count.
LEMMA NoneLeaves ==
  ASSUME NEW a \in Attempts, LoginTypeOK,
         attempt[a] = "expire", attempt' = [attempt EXCEPT ![a] = "idle"]
  PROVE  Verifying' = Verifying
  BY DEF Verifying, LoginTypeOK

-----------------------------------------------------------------------------
\* Every step of a request keeps the invariant: being let in by Redis needs a
\* count below the limit, being let in by the map is a fault that pays for it.
LEMMA RequestKeeps ==
  ASSUME NEW a \in Attempts, LoginInv, LoginStep(a)
  PROVE  LoginInv'
  <1> USE LoginAssumption, VerifyingBound, VerifyingBoundNext
  <1>1. CASE AssertCanAttempt(a)
    <2>1. LoginTypeOK' /\ CountLags'
      BY <1>1 DEF AssertCanAttempt, LoginInv, LoginTypeOK, CountLags
    <2>2. LetIn'
      BY <1>1 DEF AssertCanAttempt, LoginInv, LoginTypeOK, CountLags, LetIn
    <2>3. QED
      BY <2>1, <2>2 DEF LoginInv
  <1>2. CASE AssertLocally(a)
    <2>1. LoginTypeOK' /\ CountLags'
      BY <1>2 DEF AssertLocally, Fault, LoginInv, LoginTypeOK, CountLags
    <2>2. Cardinality(Verifying') = Cardinality(Verifying) + 1
      BY <1>2, OneEnters DEF AssertLocally, LoginInv
    <2>3. LetIn'
      BY <1>2, <2>2 DEF AssertLocally, Fault, LoginInv, LoginTypeOK, LetIn
    <2>4. QED
      BY <2>1, <2>3 DEF LoginInv
  <1>3. CASE RecordFailedAttempt(a)
    <2>1. LoginTypeOK' /\ CountLags'
      BY <1>3 DEF RecordFailedAttempt, LoginInv, LoginTypeOK, CountLags
    <2>2. Cardinality(Verifying') = Cardinality(Verifying) - 1
      BY <1>3, OneLeaves DEF RecordFailedAttempt, LoginInv
    <2>3. LetIn'
      BY <1>3, <2>2 DEF RecordFailedAttempt, LoginInv, LoginTypeOK, LetIn
    <2>4. QED
      BY <2>1, <2>3 DEF LoginInv
  <1>4. CASE Expire(a)
    <2>1. LoginTypeOK' /\ CountLags'
      BY <1>4 DEF Expire, LoginInv, LoginTypeOK, CountLags
    <2>2. Verifying' = Verifying
      BY <1>4, NoneLeaves DEF Expire, LoginInv
    <2>3. LetIn'
      BY <1>4, <2>2 DEF Expire, LoginInv, LetIn
    <2>4. QED
      BY <2>1, <2>3 DEF LoginInv
  <1>5. CASE RecordLocally(a)
    <2>1. LoginTypeOK' /\ CountLags'
      BY <1>5 DEF RecordLocally, Fault, LoginInv, LoginTypeOK, CountLags
    <2>2. CASE attempt[a] = "verify"
      <3>1. Cardinality(Verifying') = Cardinality(Verifying) - 1
        BY <1>5, <2>2, OneLeaves DEF RecordLocally, LoginInv
      <3>2. LetIn'
        BY <1>5, <2>2, <3>1 DEF RecordLocally, Fault, LoginInv, LoginTypeOK, LetIn
      <3>3. QED
        BY <2>1, <3>2 DEF LoginInv
    <2>3. CASE attempt[a] = "expire"
      <3>1. Verifying' = Verifying
        BY <1>5, <2>3, NoneLeaves DEF RecordLocally, LoginInv
      <3>2. LetIn'
        BY <1>5, <2>3, <3>1 DEF RecordLocally, Fault, LoginInv, LoginTypeOK, LetIn
      <3>3. QED
        BY <2>1, <3>2 DEF LoginInv
    <2>4. QED
      BY <1>5, <2>2, <2>3 DEF RecordLocally
  <1>6. CASE Clear(a)
    <2>1. expires' \in BOOLEAN
      BY <1>6, Zenon DEF Clear
    <2>2. LoginTypeOK'
      BY <1>6, <2>1 DEF Clear, LoginInv, LoginTypeOK
    <2>3. CountLags' /\ LetIn'
      BY <1>6 DEF Clear, LoginInv, LoginTypeOK, CountLags, LetIn
    <2>4. QED
      BY <2>2, <2>3 DEF LoginInv
  <1>7. CASE ClearLocally(a)
    <2>1. LoginTypeOK' /\ CountLags'
      BY <1>7 DEF ClearLocally, Fault, LoginInv, LoginTypeOK, CountLags
    <2>2. Cardinality(Verifying') = Cardinality(Verifying) - 1
      BY <1>7, OneLeaves DEF ClearLocally, LoginInv
    <2>3. LetIn'
      BY <1>7, <2>2 DEF ClearLocally, Fault, LoginInv, LoginTypeOK, LetIn
    <2>4. QED
      BY <2>1, <2>3 DEF LoginInv
  <1>8. QED
    BY <1>1, <1>2, <1>3, <1>4, <1>5, <1>6, <1>7 DEF LoginStep

\* The end of a window and a restart only give the limit back.
LEMMA RestKeeps ==
  ASSUME LoginInv, KeyExpires \/ EntryExpires \/ Restart
  PROVE  LoginInv'
  <1> USE LoginAssumption, VerifyingBound, VerifyingBoundNext
  <1>1. CASE KeyExpires
    <2>1. expires' \in BOOLEAN
      BY <1>1, Zenon DEF KeyExpires
    <2>2. LoginTypeOK'
      BY <1>1, <2>1 DEF KeyExpires, LoginInv, LoginTypeOK
    <2>3. CountLags' /\ LetIn'
      BY <1>1 DEF KeyExpires, LoginInv, LoginTypeOK, CountLags, LetIn
    <2>4. QED
      BY <2>2, <2>3 DEF LoginInv
  <1>2. CASE EntryExpires
    <2>1. Verifying' = Verifying
      BY <1>2 DEF EntryExpires, Verifying
    <2>2. QED
      BY <1>2, <2>1 DEF EntryExpires, LoginInv, LoginTypeOK, CountLags, LetIn
  <1>3. CASE Restart
    <2>1. Verifying' = {}
      BY <1>3 DEF Restart, Verifying
    <2>2. Cardinality(Verifying') = 0
      BY <2>1, FS_EmptySet
    <2>3. LoginTypeOK' /\ CountLags'
      BY <1>3 DEF Restart, Fault, LoginInv, LoginTypeOK, CountLags
    <2>4. LetIn'
      BY <1>3, <2>2 DEF Restart, Fault, LoginInv, LoginTypeOK, LetIn
    <2>5. QED
      BY <2>3, <2>4 DEF LoginInv
  <1>4. QED
    BY <1>1, <1>2, <1>3

\* The invariant of the counter: what was tried and what is still being
\* verified is within the limit of assertCanAttempt.
THEOREM LoginInvariant == LoginSpec => []LoginInv
  <1>1. LoginInit => LoginInv
    <2>1. SUFFICES ASSUME LoginInit PROVE LoginInv
      OBVIOUS
    <2>2. Verifying = {}
      BY <2>1 DEF LoginInit, Verifying
    <2>3. Cardinality(Verifying) = 0
      BY <2>2, FS_EmptySet
    <2>4. expires \in BOOLEAN
      BY <2>1, Zenon DEF LoginInit
    <2>5. LoginTypeOK
      BY <2>1, <2>4 DEF LoginInit, LoginTypeOK
    <2>6. CountLags /\ LetIn
      BY <2>1, <2>3, VerifyingBound, LoginAssumption DEF LoginInit, CountLags, LetIn
    <2>7. QED
      BY <2>5, <2>6 DEF LoginInv
  <1>2. LoginInv /\ [LoginNext]_loginVars => LoginInv'
    <2>1. SUFFICES ASSUME LoginInv, [LoginNext]_loginVars PROVE LoginInv'
      OBVIOUS
    <2>2. CASE LoginNext
      BY <2>1, <2>2, RequestKeeps, RestKeeps DEF LoginNext
    <2>3. CASE UNCHANGED loginVars
      BY <2>1, <2>3 DEF loginVars, LoginInv, LoginTypeOK, CountLags, LetIn, Verifying
    <2>4. QED
      BY <2>1, <2>2, <2>3
  <1>3. QED
    BY <1>1, <1>2, PTL DEF LoginSpec

\* However many login requests run at once, the wrong passwords let through
\* between two windows exceed the limit by at most the requests in flight and
\* the failed calls to Redis.
THEOREM WrongPasswordsLimited == LoginSpec => []GuessesLimited
  <1>1. LoginInv => GuessesLimited
    BY VerifyingBound, LoginAssumption DEF LoginInv, LoginTypeOK, LetIn, GuessesLimited
  <1>2. QED
    BY <1>1, LoginInvariant, PTL
=============================================================================
