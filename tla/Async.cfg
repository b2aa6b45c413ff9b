CONSTANTS
  f = f
  g = g
  d = d
  w = w
  c1 = c1
  c2 = c2
  e1 = e1
  e2 = e2
  q = q
  s = s
  t = t
  l = l
  None = None
  Calls = {c1, c2, e1, e2, q}
  Callers = {c1, c2, q}
  Settlers = {e1, e2}
  Main = {q}
  Signals = {s}
  Timeouts = {t}
  Linkeds = {l}
  Deferreds = {f, g}
  Deriveds = {d}
  Winner = w
  MaxGroup = 2
  parent <- MCparent
  sources <- MCsources
  derivedFrom <- MCderivedFrom
  Programs <- MCPrograms
SPECIFICATION Spec
CHECK_DEADLOCK FALSE
INVARIANTS RegistrationsExact CancellationDelivered WaitsHaveReason FailuresSurface SelectionAnswers
