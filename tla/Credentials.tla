---------------------------- MODULE Credentials ----------------------------
(***************************************************************************)
(* How one account is signed in to: password, second factor (MfaService    *)
(* with recovery codes and challenges) and linked OAuth providers, as      *)
(* AuthService keeps them. LoginAttempts has the limit on passwords,       *)
(* Sessions what becomes of the sessions that are issued here, Accounts    *)
(* the accounts that OAuth registers.                                      *)
(*                                                                         *)
(* A one-time thing (recovery code, challenge, OAuth state) is read as     *)
(* unused by one query and marked by id in another. A secret is numbered   *)
(* by the setup that generated it; 0 is none. A request whose codes are    *)
(* wrong changes nothing and is left out.                                  *)
(***************************************************************************)
EXTENDS Naturals, Sequences, FiniteSets

CONSTANTS
  Providers,    \* GOOGLE and GITHUB
  Configured,   \* those with a client id and secret
  Answers,      \* what providers answer when a code is exchanged, by provider
  Codes,        \* recovery codes; confirmMfa makes one of them (ten in the code)
  Challenges,   \* ids of mfa_challenges
  States,       \* ids of oauth_states
  MaxSetups,    \* bound: calls of beginMfaSetup
  Calls         \* HTTP requests in flight at one time

\* Recovery codes and challenges are rows of two tables, told apart by their ids.
ASSUME OneTimeAssumption == Codes \cap Challenges = {}

VARIABLES
  password,     \* the account has a password
  linked,       \* its oauth_accounts
  secret,       \* mfaSecret
  enabled,      \* mfaEnabled
  setups,       \* setups so far
  once,         \* codes, challenges and states: none, open, used, gone
  oauth,        \* mode and provider of a state
  call,         \* HTTP requests in flight
  confirmed,    \* history: the secret whose code enabled the second factor
  admitted,     \* history: how often a one-time thing let somebody in
  bare,         \* history: sign-ins without a code although mfaEnabled was read
  raced         \* history: what two requests used at once, and "mfa", "unlink"

credentialVars ==
  <<password, linked, secret, enabled, setups, once, oauth, call,
    confirmed, admitted, bare, raced>>

OneTime == Codes \cup Challenges \cup States

Modes == {"login", "link"}

Quiet == [pc |-> "idle"]

\* A registered account has a password; one that OAuth registered, a provider.
CredentialInit ==
  /\ \/ password = TRUE /\ linked = {}
     \/ password = FALSE /\ \E p \in Providers : linked = {p}
  /\ secret = 0 /\ enabled = FALSE /\ setups = 0
  /\ once = [x \in OneTime |-> "none"]
  /\ oauth = [s \in States |-> [mode |-> "none", provider |-> "none"]]
  /\ call = [r \in Calls |-> Quiet]
  /\ confirmed = 0 /\ bare = {} /\ raced = {}
  /\ admitted = [x \in OneTime |-> 0]

\* Others that have read x as unused.
HeldBy(x, r) ==
  \E q \in Calls \ {r} : call[q].pc # "idle" /\ x \in call[q].holds

Holding(pc, things) == [pc |-> pc, holds |-> things]

-----------------------------------------------------------------------------
(* Signing in with a password and a code *)

\* resetPassword; an account that OAuth registered gets one here.
SetPassword ==
  /\ password' = TRUE
  /\ UNCHANGED <<linked, secret, enabled, setups, once, oauth, call, confirmed, admitted, bare, raced>>

\* login: with the second factor a challenge, else a session.
LoginChallenge(c) ==
  /\ password /\ enabled /\ secret # 0
  /\ once[c] = "none"
  /\ once' = [once EXCEPT ![c] = "open"]
  /\ UNCHANGED <<password, linked, secret, enabled, setups, oauth, call, confirmed, admitted, bare, raced>>

LoginSession ==
  /\ password /\ ~(enabled /\ secret # 0)
  /\ bare' = IF enabled THEN bare \cup {"password"} ELSE bare
  /\ UNCHANGED <<password, linked, secret, enabled, setups, once, oauth, call, confirmed, admitted, raced>>

\* verifyMfaLogin reads challenge and user, and checks a code of the secret ...
VerifyTotp(r, c) ==
  /\ call[r] = Quiet
  /\ once[c] = "open" /\ enabled /\ secret # 0
  /\ call' = [call EXCEPT ![r] = Holding("challenge", {c})]
  /\ raced' = IF HeldBy(c, r) THEN raced \cup {c} ELSE raced
  /\ UNCHANGED <<password, linked, secret, enabled, setups, once, oauth, confirmed, admitted, bare>>

\* ... or verifyMfaOrRecovery looks for a recovery code ...
VerifyRecovery(r, c, k) ==
  /\ call[r] = Quiet
  /\ once[c] = "open" /\ enabled /\ secret # 0
  /\ once[k] = "open"
  /\ call' = [call EXCEPT ![r] = Holding("spend", {c, k})]
  /\ raced' = raced \cup {x \in {c, k} : HeldBy(x, r)}
  /\ UNCHANGED <<password, linked, secret, enabled, setups, once, oauth, confirmed, admitted, bare>>

\* ... and marks it by id, which fails when it has been deleted.
SpendCode(r, k) ==
  /\ call[r].pc = "spend"
  /\ k \in call[r].holds /\ once[k] # "gone"
  /\ once' = [once EXCEPT ![k] = "used"]
  /\ call' = [call EXCEPT ![r].pc = "challenge"]
  /\ UNCHANGED <<password, linked, secret, enabled, setups, oauth, confirmed, admitted, bare, raced>>

\* Who is let in has used up everything the request holds.
Admit(r) == [x \in OneTime |-> admitted[x] + (IF x \in call[r].holds THEN 1 ELSE 0)]

\* Faulty variant: the challenge stays open.
UseChallengeOpen(r, c) ==
  /\ call[r].pc = "challenge"
  /\ c \in call[r].holds
  /\ admitted' = Admit(r)
  /\ call' = [call EXCEPT ![r] = Quiet]
  /\ UNCHANGED <<password, linked, secret, enabled, setups, once, oauth, confirmed, bare, raced>>

\* The challenge is marked and a session issued.
UseChallenge(r, c) ==
  /\ call[r].pc = "challenge"
  /\ c \in call[r].holds
  /\ once' = [once EXCEPT ![c] = "used"]
  /\ admitted' = Admit(r)
  /\ call' = [call EXCEPT ![r] = Quiet]
  /\ UNCHANGED <<password, linked, secret, enabled, setups, oauth, confirmed, bare, raced>>

-----------------------------------------------------------------------------
(* The second factor *)

\* Faulty variant: the second factor stays on while the secret is replaced.
BeginMfaSetupOn ==
  /\ setups < MaxSetups
  /\ setups' = setups + 1
  /\ secret' = setups'
  /\ UNCHANGED <<password, linked, enabled, once, oauth, call, confirmed, admitted, bare, raced>>

\* A new secret, with the second factor off until it is confirmed.
BeginMfaSetup ==
  /\ setups < MaxSetups
  /\ setups' = setups + 1
  /\ secret' = setups'
  /\ enabled' = FALSE
  /\ UNCHANGED <<password, linked, once, oauth, call, confirmed, admitted, bare, raced>>

ConfirmRead(r) ==
  /\ call[r] = Quiet
  /\ secret # 0
  /\ call' = [call EXCEPT ![r] = [pc |-> "confirm", holds |-> {}, secret |-> secret]]
  /\ UNCHANGED <<password, linked, secret, enabled, setups, once, oauth, confirmed, admitted, bare, raced>>

\* Recovery codes are deleted, used ones too.
WithoutCodes == [x \in OneTime |-> IF x \in Codes /\ once[x] # "none" THEN "gone" ELSE once[x]]

\* confirmMfa: old recovery codes go, new ones come, the second factor is on.
ConfirmWrite(r, k) ==
  /\ call[r].pc = "confirm"
  /\ once[k] = "none"
  /\ once' = [WithoutCodes EXCEPT ![k] = "open"]
  /\ enabled' = TRUE
  /\ confirmed' = call[r].secret
  /\ raced' = IF secret # call[r].secret THEN raced \cup {"mfa"} ELSE raced
  /\ call' = [call EXCEPT ![r] = Quiet]
  /\ UNCHANGED <<password, linked, secret, setups, oauth, admitted, bare>>

DisableRead(r) ==
  /\ call[r] = Quiet
  /\ secret # 0
  /\ call' = [call EXCEPT ![r] = Holding("disable", {})]
  /\ UNCHANGED <<password, linked, secret, enabled, setups, once, oauth, confirmed, admitted, bare, raced>>

DisableWrite(r) ==
  /\ call[r].pc = "disable"
  /\ enabled' = FALSE /\ secret' = 0
  /\ once' = WithoutCodes
  /\ call' = [call EXCEPT ![r] = Quiet]
  /\ UNCHANGED <<password, linked, setups, oauth, confirmed, admitted, bare, raced>>

\* UsersService.resetMfa, which also ends the challenges that are open.
ResetMfa ==
  /\ secret # 0 \/ enabled
  /\ enabled' = FALSE /\ secret' = 0
  /\ once' = [x \in OneTime |-> IF x \in Challenges /\ once[x] = "open" THEN "used" ELSE WithoutCodes[x]]
  /\ UNCHANGED <<password, linked, setups, oauth, call, confirmed, admitted, bare, raced>>

-----------------------------------------------------------------------------
(* OAuth *)

\* The address of a Google profile, if Google has verified it.
ExchangeGoogle(a) == IF a.token /\ a.profile /\ a.verified THEN a.email ELSE "none"

\* Of a GitHub user the primary address that is verified, else the first that
\* is, else the one of the profile, of which nothing says whether it is.
ExchangeGitHub(a) ==
  LET verified == SelectSeq(a.list, LAMBDA e : e.verified)
      primary == SelectSeq(verified, LAMBDA e : e.primary)
  IN IF ~(a.token /\ a.profile /\ a.listed) THEN "none"
     ELSE (primary \o verified \o <<[email |-> a.email]>>)[1].email

\* The e-mail of the identity behind a code, or "none": a token, the profile and
\* the list of addresses are asked for one after the other, and each may fail.
Exchange(p, a) ==
  IF p \notin Configured THEN "none"
  ELSE IF p = "GOOGLE" THEN ExchangeGoogle(a) ELSE ExchangeGitHub(a)

\* Without a configuration nobody is sent to the provider, though the state exists.
AuthorizationUrl(s) == oauth[s].provider \in Configured

StartOAuth(s, m, p) ==
  /\ once[s] = "none"
  /\ once' = [once EXCEPT ![s] = "open"]
  /\ oauth' = [oauth EXCEPT ![s] = [mode |-> m, provider |-> p]]
  /\ UNCHANGED <<password, linked, secret, enabled, setups, call, confirmed, admitted, bare, raced>>

CallbackRead(r, s) ==
  /\ call[r] = Quiet
  /\ once[s] = "open" /\ AuthorizationUrl(s)
  /\ call' = [call EXCEPT ![r] = Holding("mark", {s})]
  /\ raced' = IF HeldBy(s, r) THEN raced \cup {s} ELSE raced
  /\ UNCHANGED <<password, linked, secret, enabled, setups, once, oauth, confirmed, admitted, bare>>

\* The state is used up before the provider is asked.
CallbackMark(r, s) ==
  /\ call[r].pc = "mark"
  /\ s \in call[r].holds
  /\ once' = [once EXCEPT ![s] = "used"]
  /\ call' = [call EXCEPT ![r].pc = "exchange"]
  /\ UNCHANGED <<password, linked, secret, enabled, setups, oauth, confirmed, admitted, bare, raced>>

\* Only an identity with the e-mail of the account ("own") is linked to it.
LinkProvider(r, s) ==
  /\ call[r].pc = "exchange"
  /\ s \in call[r].holds /\ oauth[s].mode = "link"
  /\ \E a \in Answers[oauth[s].provider] : Exchange(oauth[s].provider, a) = "own"
  /\ linked' = linked \cup {oauth[s].provider}
  /\ admitted' = Admit(r)
  /\ call' = [call EXCEPT ![r] = Quiet]
  /\ UNCHANGED <<password, secret, enabled, setups, once, oauth, confirmed, bare, raced>>

\* An account that is linked gets a session at once; otherwise the callback is
\* answered with 404.
OAuthLogin(r, s) ==
  /\ call[r].pc = "exchange"
  /\ s \in call[r].holds /\ oauth[s].mode = "login"
  /\ oauth[s].provider \in linked
  /\ \E a \in Answers[oauth[s].provider] : Exchange(oauth[s].provider, a) # "none"
  /\ bare' = IF enabled THEN bare \cup {"oauth"} ELSE bare
  /\ admitted' = Admit(r)
  /\ call' = [call EXCEPT ![r] = Quiet]
  /\ UNCHANGED <<password, linked, secret, enabled, setups, once, oauth, confirmed, raced>>

\* Faulty variant: the provider that goes counts as one that remains.
UnlinkReadAny(r, p) ==
  /\ call[r] = Quiet
  /\ password \/ linked # {}
  /\ call' = [call EXCEPT ![r] = [pc |-> "unlink", holds |-> {}, provider |-> p]]
  /\ raced' = IF \E q \in Calls : call[q].pc = "unlink" THEN raced \cup {"unlink"} ELSE raced
  /\ UNCHANGED <<password, linked, secret, enabled, setups, once, oauth, confirmed, admitted, bare>>

UnlinkRead(r, p) ==
  /\ call[r] = Quiet
  /\ password \/ linked \ {p} # {}
  /\ call' = [call EXCEPT ![r] = [pc |-> "unlink", holds |-> {}, provider |-> p]]
  /\ raced' = IF \E q \in Calls : call[q].pc = "unlink" THEN raced \cup {"unlink"} ELSE raced
  /\ UNCHANGED <<password, linked, secret, enabled, setups, once, oauth, confirmed, admitted, bare>>

UnlinkWrite(r) ==
  /\ call[r].pc = "unlink"
  /\ linked' = linked \ {call[r].provider}
  /\ call' = [call EXCEPT ![r] = Quiet]
  /\ UNCHANGED <<password, secret, enabled, setups, once, oauth, confirmed, admitted, bare, raced>>

-----------------------------------------------------------------------------
\* A challenge or state passes its expiresAt.
TokenExpires(x) ==
  /\ once[x] = "open"
  /\ once' = [once EXCEPT ![x] = "used"]
  /\ UNCHANGED <<password, linked, secret, enabled, setups, oauth, call, confirmed, admitted, bare, raced>>

\* A query or the exchange fails, or the process ends.
CallFails(r) ==
  /\ call[r] # Quiet
  /\ call' = [call EXCEPT ![r] = Quiet]
  /\ UNCHANGED <<password, linked, secret, enabled, setups, once, oauth, confirmed, admitted, bare, raced>>

SecondFactorCall(r) ==
  \/ \E c \in Challenges :
       \/ VerifyTotp(r, c) \/ UseChallenge(r, c)
       \/ \E k \in Codes : VerifyRecovery(r, c, k)
  \/ ConfirmRead(r) \/ DisableRead(r) \/ DisableWrite(r)
  \/ \E k \in Codes : ConfirmWrite(r, k) \/ SpendCode(r, k)

SecondFactorNext ==
  \/ LoginSession \/ BeginMfaSetup \/ ResetMfa
  \/ \E c \in Challenges : LoginChallenge(c) \/ TokenExpires(c)
  \/ \E r \in Calls : SecondFactorCall(r) \/ CallFails(r)

OAuthCall(r) ==
  \/ \E s \in States : CallbackRead(r, s) \/ CallbackMark(r, s) \/ LinkProvider(r, s) \/ OAuthLogin(r, s)
  \/ \E p \in Providers : UnlinkRead(r, p)
  \/ UnlinkWrite(r)

OAuthNext ==
  \/ SetPassword
  \/ \E s \in States, m \in Modes, p \in Providers : StartOAuth(s, m, p)
  \/ \E s \in States : TokenExpires(s)
  \/ \E r \in Calls : OAuthCall(r) \/ CallFails(r)

CredentialNext == SecondFactorNext \/ OAuthNext

CredentialSpec == CredentialInit /\ [][CredentialNext]_credentialVars

-----------------------------------------------------------------------------
(* Properties *)

\* The second factor that is asked for is one the user has shown to own: when it
\* is on, the secret is the one whose code switched it on, unless a setup, a
\* disable or a reset came between the check of that code and the write.
SecretConfirmed == enabled /\ "mfa" \notin raced => secret = confirmed

\* A recovery code, a challenge and an OAuth state each let one request in,
\* whatever fails half-way, unless two requests read it as unused at once.
OneTimeOnly == \A x \in OneTime \ raced : admitted[x] <= 1

\* There is always a password or a provider to sign in with, unless two
\* requests unlinked providers at once.
AlwaysAWayIn == password \/ linked # {} \/ "unlink" \in raced

\* "Usuarios com MFA ativo recebem token temporario de desafio; a sessao final
\* so e emitida apos TOTP ou codigo de recuperacao valido": no session comes
\* from a provider alone while the second factor is on.
ProviderNotEnough == "oauth" \notin bare
=============================================================================
