\* Two workers and a family of two proposals, builds within their ninety
\* minutes.  Deadlock is not checked: a closed family leaves nothing to do.
SPECIFICATION FairSpec
CONSTANTS
  Workers = {w1, w2}
  Proposals = {p1, p2}
  Nobody = Nobody
  Nothing = Nothing
  Overrun = FALSE
INVARIANTS TypeOK OneHolder TickedIsFilled
PROPERTIES LeftBehindComesBack BuildsOneAtATime
CHECK_DEADLOCK FALSE
