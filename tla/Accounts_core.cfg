CONSTANTS
  Tenants = {t1}
  Users = {u1, u2, u3}
  Emails = {e1, e2}
  Invites = {i1}
  Completions = {c1, c2}
  Reqs = {r1, r2}
  NewStatuses = {"DELETED"}
SPECIFICATION Spec
SYMMETRY Symmetry
INVARIANTS InvitationMakesOneUser
PROPERTIES UpdateKeepsAnAdmin
CHECK_DEADLOCK FALSE
