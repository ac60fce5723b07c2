\* Two saves at once, each declaring that its table repeats the other's.
SPECIFICATION Spec
CONSTANTS
  Workers = {w1, w2}
  Accounts = {ann}
  Board = {}
  Titles <- Titled
  Stem <- Suggests
  Declarable <- Named
  NoUrl = NoUrl
  NoDocument = NoDocument
  f = f
  g = g
  z = z
  Tags = {tag}
  MaxTables = 2
  MaxSaves = 2
  NewDocuments <- Bare
  MaxEntries = 1
  Ceiling = 1
  SavesAtOnce = TRUE
SYMMETRY Symmetry
INVARIANT FoldLosesNothing
