SPECIFICATION Spec
CONSTANTS
  h1 = h1
  h2 = h2
  c1 = c1
  c2 = c2
  p1 = p1
  p2 = p2
  p3 = p3
  Handlers = {h1, h2}
  Containers = {c1, c2}
  Pids = {p1, p2, p3}
  Self = Self
  Free = Free
  Other = Other
  Nices = {5, 100}
  NoRequest = NoRequest
  Reuse = FALSE
  Faults = TRUE
INVARIANT TypeOK
PROPERTY SuccessMeansReniced
PROPERTY NoBystander
SYMMETRY Symmetry
