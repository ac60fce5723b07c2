\* Two workers: tables are created side by side, saves run one at a time.
SPECIFICATION Spec
CONSTANTS
  Workers = {w1, w2}
  Accounts = {ann}
  Board = {}
  Titles <- Titled
  Stem <- Suggests
  Declarable <- Named
  NoUrl = NoUrl
  NoDocument = NoDocument
  f = f
  g = g
  z = z
  Tags = {tag, topic}
  MaxTables = 3
  MaxSaves = 2
  NewDocuments <- Bare
  MaxEntries = 1
  Ceiling = 1
  SavesAtOnce = FALSE
SYMMETRY Symmetry
INVARIANTS TypeOK RowsFollowDocuments FoldLosesNothing TagsCountThePublic
INVARIANT DraftsBounded
PROPERTY AddressesStay
