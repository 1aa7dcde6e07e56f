CONSTANTS
  Providers = {"GOOGLE", "GITHUB"}
  Configured = {"GOOGLE", "GITHUB"}
  Answers <- MCAnswers
  Codes = {k1, k2}
  Challenges = {c1}
  States = {s1, s2}
  MaxSetups = 2
  Calls = {r1, r2}
  MaxAttempts = 2
  Attempts = {a1, a2}
  MaxFaults = 2
SPECIFICATION MCSpec
INVARIANTS SecretConfirmed OneTimeOnly AlwaysAWayIn GuessesLimited
PROPERTIES LockEnds
CHECK_DEADLOCK FALSE
