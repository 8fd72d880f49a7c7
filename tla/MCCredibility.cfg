SPECIFICATION CredibilitySpec
CONSTANTS
  ann = ann
  bob = bob
  x = x
  bad = bad
  worse = worse
  fine = fine
  tool = tool
  None = None
  NoDigest = NoDigest
  Members <- MCMembers
  RoundIds = {}
  Roots = {}
  Salts = {}
  MaxMembers = 2
  MaxVotes = 2
  MaxWord = 7
  Cases <- MCCases
  StratumOf <- MCStratumOf
  DispatchOf <- MCDispatchOf
  MaxSequence = 5
  Requirements <- MCRequirements
  Table <- MCTable
  Reports <- MCReports
  Labellings <- MCLabellings
INVARIANTS NoGainFromWorse EvidenceFresh PromotedNeverRelaxes
CHECK_DEADLOCK FALSE
