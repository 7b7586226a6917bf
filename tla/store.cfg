SPECIFICATION StoreSpec
CONSTANTS
  Procs = {c1, c2}
  Issues = {1, 2}
  MaxClock = 1
  MaxSaves = 3
  Absent = Absent
  Torn = Torn
SYMMETRY CommandSymmetry
INVARIANTS  TaskFileHoldsItsIssue NothingLostWithoutRace
