SPECIFICATION Spec
CONSTANTS
  one = one
  uno = uno
  two = two
  nan = nan
  any = any
  snan = snan
  odd = odd
  near = near
  yes = yes
  left = left
  right = right
  shared = shared
  a = a
  b = b
  Object <- MCObject
  Equal <- MCEqual
  Matcher <- MCMatcher
  Accepts <- MCAccepts
  Safe <- MCSafe
  Refuses <- MCRefuses
  Bucket <- MCBucket
  Char <- MCChar
  Box <- MCBox
  Atom <- MCAtom
  AtomType <- MCAtomType
  Nan = {nan}
  Alike <- MCAlike
  Number = {one, two, near}
  Near <- MCNear
  Owned = {one, two, near, yes}
  Approves <- MCApproves
  WalkUnder = 4
  Entry = {1, 2, 3}
  Option = {1, 2, 3}
  MaxValues = 3
  MaxItems = 3
  MaxText = 3
  Length = 3
  MaxLinks = 3
  MaxDepth = 3
  MaxErrors = 1
  keyF = keyF
  keyG = keyG
  keyAlias = keyAlias
  keyOther = keyOther
  keyData = keyData
  keyStray = keyStray
  Coerced <- MCCoerced
  Contracts <- MCContracts
INVARIANTS
  PairingIsMaximum
  ContainmentIsExact
  WalksAlike
  VerdictIsAgreement
  EveryDifferenceIsTold
  SpelledEitherWay
  DriftIsExact
