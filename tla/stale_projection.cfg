\* Two images of one cache, one command at a time.
SPECIFICATION Spec
CONSTANTS
  Procs = {p1}
  Images = {i1, i2}
  MaxVersion = 2
  Size <- DistinctSizes
  None = None
INVARIANT StoredProjectionFresh
