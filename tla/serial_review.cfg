\* One worker; the source editor, a form and a program beside a reviewer.
SPECIFICATION Spec
CONSTANTS
  Entries = {e1, e2}
  Parameters = params
  Prose = {params}
  Values = {v1, v2}
  Absent = Absent
  Users = {ann, bob, rita}
  Author = ann
  Board = {rita}
  Standing = {rita}
  Editors = {ann}
  Programs = {bob}
  Surfaces = {"source", "metadata", "entries", "api"}
  Runs = {}
  None = None
  Modes = {"upsert", "replace"}
  ListedEntries = TRUE
  Bare = TRUE
  Workers = 1
  Crashes = FALSE
  MaxRevisions = 3
  MaxTouched = 1
SYMMETRY Symmetry
INVARIANTS OfferedDraftQueued SearchedIsConfirmed ReviewedWasRead
PROPERTIES SaveIsThePatch PublishedWasRead
