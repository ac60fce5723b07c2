\* Three versions of a document, all combinations; a merge is one step, after
\* which there is nothing to do, so deadlock is not checked.
SPECIFICATION Spec
CONSTANTS
  v = v
  w = w
  Keys = {"a", "b", "c", "x", "y"}
  Values = {v, w}
  Paths <- MCPaths
  Documents <- MCDocuments
  Unmerged = Unmerged
  Opened = Opened
  Missing = Missing
INVARIANTS CleanIsOverlay DisjointEditsMerge NothingSilentlyLost OrderIsImmaterial RecursionAgrees
CHECK_DEADLOCK FALSE
