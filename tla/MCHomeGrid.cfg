CONSTANTS
    r = r
    x = x
    y = y
    w1 = w1
    w2 = w2
    Nodes = {r, x, y}
    NoNode = NoNode
    Workspaces = {w1, w2}
    NoWorkspace = NoWorkspace
    WorkspaceOf <- TwoWorkspaces
    Files <- SomeFiles
    DefaultTree <- OneLeaf
    Absent = Absent
    Overtaking = FALSE
    Budgets <- SomeBudgets
SPECIFICATION FairSpec
INVARIANT PathIsRooted
INVARIANT LockHasItsCall
PROPERTY LockIsReleased
 
CHECK_DEADLOCK FALSE
