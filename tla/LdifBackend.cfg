SPECIFICATION Spec
CONSTANTS
  s1 = s1
  s2 = s2
  s3 = s3
  Sessions <- mcSessions
  Names <- mcNames
  Attributes <- mcAttributes
  Lines <- mcLines
  Cut <- mcCut
  Contents <- mcContents
  Seeds <- mcSeeds
  MaxChanges = 2
SYMMETRY mcSymmetry
INVARIANTS TypeOK QuietFileCurrent AckedWritesSaved
PROPERTIES FileNeverGoesBack
