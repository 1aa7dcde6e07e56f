CONSTANTS
  Providers = {"GOOGLE", "GITHUB"}
  Configured = {"GOOGLE", "GITHUB"}
  Answers <- MCAnswers
  Codes = {k1}
  Challenges = {c1}
  States = {s1}
  MaxSetups = 1
  Calls = {r1}
  MaxAttempts = 2
  Attempts = {a1, a2}
  MaxFaults = 2
SPECIFICATION AccountSpec
INVARIANTS ProviderNotEnough
CHECK_DEADLOCK FALSE
