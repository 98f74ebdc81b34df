CONSTANTS
  None = None
  Email = {"ann", "bob"}
  LegacyUser = {"bob"}
  Spelling = {"plain", "blank"}
  Code = {c1, c2}
  Task = {t1, t2}
  Floor = 1
  Ttl = 2
  Attempts = 2
  Life = 2
  MaxNow = 3
  MaxIssues = 2
  MaxTokens = 3
  NormalEmail <- MCNormalEmail
SYMMETRY MCSymmetry
SPECIFICATION StartSpec
CHECK_DEADLOCK FALSE
INVARIANTS
  AuthTypeOK
  AttemptsAreExact
  OneSignInPerCode
  SignedInStaysSignedIn
  UpgradeCompletes
PROPERTIES
  CodesAreSpaced
