CONSTANTS
  b1 = b1
  b2 = b2
  t1 = t1
  t2 = t2
  t3 = t3
  c1 = c1
  c2 = c2
  c3 = c3
  p1 = p1
  p2 = p2
  None = None
  Browsers = {b1, b2}
  Tabs = {t1, t2, t3}
  Calls = {c1, c2, c3}
  Past = {p1, p2}
  BrowserOf <- MCBrowserOf
  InitialJars <- MCJars
  Workloads <- SignOutWorkload
  Fragile = {c1, c2}
  Aging = {c1}
  Lapsing = {}
SPECIFICATION Spec
INVARIANTS ReuseMeansRotated
