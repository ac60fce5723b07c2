\* One worker: the forms, PUT, the entries endpoint and restores, by accounts
\* with and without standing.
SPECIFICATION Spec
CONSTANTS
  Entries = {e1, e2}
  Parameters = params
  Prose = {params}
  Values = {v1, v2}
  Absent = Absent
  Users = {ann, bob, rita}
  Author = ann
  Board = {rita}
  Standing = {ann, rita}
  Editors = {ann, bob}
  Programs = {bob}
  Surfaces = {"metadata", "entries", "api"}
  Runs = {}
  None = None
  Modes = {"upsert", "replace"}
  ListedEntries = FALSE
  Bare = FALSE
  Workers = 1
  Crashes = FALSE
  MaxRevisions = 3
  MaxTouched = 1
SYMMETRY Symmetry
INVARIANTS TypeOK FlagsDescribeHead
PROPERTIES EditsAreAtomic NothingUntouchedIsLost ParametersFrozen
