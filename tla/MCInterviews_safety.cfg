\* Two users, three requests at a time, three interviews and workspaces.
CONSTANTS
  User = {u1, u2}
  Workspace = {w1, w2, w3}
  Interview = {i1, i2, i3}
  Request = {r1, r2, r3}
  NoUser = NoUser
  NoWorkspace = NoWorkspace
SPECIFICATION Spec
SYMMETRY Symmetry
INVARIANTS
  TypeOK
  InterviewsWhole
  WorkspacesInUse
  OneWorkspaceUnlessRaced
PROPERTY ImplementsBook
CHECK_DEADLOCK FALSE
