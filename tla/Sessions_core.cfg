CONSTANTS
  Users = {u1}
  Tenants = {n1, n2}
  Tokens = {t1, t2, t3}
  Resets = {x1}
  Reqs = {r1, r2}
  MaxPwd = 1
  MaxMoves = 1
  MaxFaults = 1
SPECIFICATION Spec
CONSTRAINT Bounded
SYMMETRY Symmetry
INVARIANTS OldPasswordEndsSessions DisabledHasNoSession OneLivePerFamily
PROPERTIES DeadFamilyStaysDead
