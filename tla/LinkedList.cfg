SPECIFICATION Spec
CONSTANTS
  Heads = {h1, h2}
  Nodes = {n1, n2, n3}
  Poison1 = Poison1
  Poison2 = Poison2
INVARIANTS RingsCoherent QueriesAgree
