SPECIFICATION FileAndonSpec
CONSTANTS
  p1 = p1
  p2 = p2
  w1 = w1
  w2 = w2
  here = here
  ann = ann
  bob = bob
  x = x
  y = y
  root = root
  other = other
  Unset = Unset
  NoDigest = NoDigest
  Procs = {p1, p2}
  WindowIds = {w1, w2}
  RoundNumbers = {1, 2}
  RoundIds = {1, 2}
  Budgets <- MCBudgets
  Facts <- MCFacts
  Identity = here
  MaxWindows = 2
  MaxFalseHolds = 2
  MaxRecords = 3
  Batches <- MCBatches
  Transcripts <- MCTranscripts
  Policy <- MCPolicy
  Members <- MCMembers
  Roots = {root, other}
  Salts = {}
  MaxMembers = 2
  MaxVotes = 2
  MaxWord = 7
INVARIANTS ExposedIsDurable IntactReopens ImportCountsTrue
PROPERTIES ImplementsLedger
SYMMETRY ProcSymmetry
CHECK_DEADLOCK FALSE
