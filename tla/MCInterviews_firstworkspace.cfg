\* One user, two requests at a time, three interviews and workspaces.
CONSTANTS
  User = {u1}
  Workspace = {w1, w2, w3}
  Interview = {i1, i2, i3}
  Request = {r1, r2}
  NoUser = NoUser
  NoWorkspace = NoWorkspace
SPECIFICATION Spec
PROPERTY FirstWorkspaceReturned
CHECK_DEADLOCK FALSE
