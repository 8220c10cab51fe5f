SPECIFICATION Spec
CONSTANTS
  l1 = l1
  l2 = l2
  l3 = l3
  Links = {l1, l3}
  Prio <- MCPrio
  Cores = {c1}
  NoLink = NoLink
  Thunk = Thunk
  Zero = Zero
INVARIANTS
  AlwaysValid
