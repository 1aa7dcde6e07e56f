--------------------------- MODULE MCCredentials ---------------------------
(* The second factor and the providers of one account, and the limit on its  *)
(* login. None of the three changes what the others read, but for enabled in *)
(* the history of OAuthLogin, and each property is about one of them: so one *)
(* is explored with the others at rest (part), not all their interleavings.  *)
EXTENDS Credentials, LoginAttempts, TLC

VARIABLE part

MCGitHub(email, listed, list) ==
  [token |-> TRUE, profile |-> TRUE, email |-> email, listed |-> listed, list |-> list]

MCEmail(email, primary, verified) == [email |-> email, primary |-> primary, verified |-> verified]

\* Addresses of the account and others, verified or not, and answers that fail.
MCAnswers ==
  [GOOGLE |-> {[token |-> TRUE, profile |-> TRUE, email |-> e, verified |-> v] :
                 e \in {"own", "other"}, v \in BOOLEAN},
   GITHUB |-> {MCGitHub("other", TRUE, <<MCEmail("other", FALSE, TRUE), MCEmail("own", TRUE, TRUE)>>),
               MCGitHub("own", TRUE, <<MCEmail("other", TRUE, FALSE)>>),
               MCGitHub("none", FALSE, << >>)}]

MCVars == <<credentialVars, loginVars, part>>

MCInit ==
  /\ part \in {"login", "factor", "oauth"}
  /\ CredentialInit
  /\ LoginInit

MCNext ==
  /\ UNCHANGED part
  /\ \/ part = "factor" /\ SecondFactorNext /\ UNCHANGED loginVars
     \/ part = "oauth" /\ OAuthNext /\ UNCHANGED loginVars
     \/ part = "login" /\ LoginNext /\ UNCHANGED credentialVars

MCSpec == MCInit /\ [][MCNext]_MCVars /\ LoginFairness

\* The whole account at once, without the limit on its login.
AccountSpec ==
  /\ part = "oauth" /\ CredentialInit /\ LoginInit
  /\ [][CredentialNext /\ UNCHANGED <<loginVars, part>>]_MCVars
=============================================================================
