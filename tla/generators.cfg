\* Two workers and only the entries endpoint, whose row lock is enough; one
\* of the programs has standing, and its runs amend their revisions.  Deadlock
\* is not checked: with nobody to review, the history stops at MaxRevisions.
SPECIFICATION FairSpec
CONSTANTS
  Entries = {e1, e2}
  Parameters = params
  Prose = {params}
  Values = {v1}
  Absent = Absent
  Users = {ann, bob}
  Author = ann
  Board = {}
  Standing = {ann}
  Editors = {}
  Programs = {ann, bob}
  Surfaces = {}
  Runs = {r1}
  None = None
  Modes = {"upsert", "mapping", "replace"}
  ListedEntries = FALSE
  Bare = FALSE
  Workers = 2
  Crashes = TRUE
  MaxRevisions = 4
  MaxTouched = 1
INVARIANTS LinearHistory FlagsDescribeHead
PROPERTIES EditsAreAtomic EverySubmissionAnswered
CHECK_DEADLOCK FALSE
