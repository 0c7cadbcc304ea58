\* One command at a time over a cache that is upgraded twice.
SPECIFICATION Spec
CONSTANTS
  Procs = {p1}
  Images = {i1, i2}
  MaxVersion = 3
  Size <- DistinctSizes
  None = None
INVARIANTS IndexIsOfOneCache LookupMatchesSession StaleOnlyBesideNewer
