\* Two workers save a form each: the second overwrites the first.
SPECIFICATION Spec
CONSTANTS
  Entries = {e1, e2}
  Parameters = params
  Prose = {params}
  Values = {v1}
  Absent = Absent
  Users = {ann, bob, rita}
  Author = ann
  Board = {rita}
  Standing = {rita}
  Editors = {ann, bob}
  Programs = {}
  Surfaces = {"entries"}
  Runs = {}
  None = None
  Modes = {"upsert"}
  ListedEntries = FALSE
  Bare = FALSE
  Workers = 2
  Crashes = FALSE
  MaxRevisions = 3
  MaxTouched = 1
SYMMETRY Symmetry
PROPERTIES NothingUntouchedIsLost
