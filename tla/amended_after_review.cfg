\* A generator run goes on after a reviewer confirmed its revision.
SPECIFICATION Spec
CONSTANTS
  Entries = {e1, e2}
  Parameters = params
  Prose = {params}
  Values = {v1}
  Absent = Absent
  Users = {ann, bob, rita}
  Author = ann
  Board = {rita}
  Standing = {rita}
  Editors = {}
  Programs = {bob}
  Surfaces = {}
  Runs = {r1}
  None = None
  Modes = {"upsert", "replace"}
  ListedEntries = FALSE
  Bare = FALSE
  Workers = 1
  Crashes = FALSE
  MaxRevisions = 3
  MaxTouched = 1
SYMMETRY Symmetry
INVARIANTS SearchedIsConfirmed
