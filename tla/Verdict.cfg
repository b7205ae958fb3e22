SPECIFICATION MCSpec
CONSTANTS
  root = root
  p = p
  q = q
  Builder = {root, p, q}
  Root = root
  RootKind = {"strict", "soft", "warn"}
  NoOne = NoOne
  MaxDepth = 3
  one_fn = one_fn
  same_fn = same_fn
  other_fn = other_fn
  Thread = {t1, t2}
  Function = {one_fn, same_fn, other_fn}
  Callable = {g, k}
  Code <- CodeOf
  Nothing = Nothing
  Unknown = Unknown
  MaxChanges = 3
  MaxBuilders = 2
  bad = bad
  worse = worse
  top = top
  sub = sub
  stop = stop
  Exc = Exc
  BadExc = BadExc
  WorseExc = WorseExc
  GroupExc = GroupExc
  StopExc = StopExc
  Error = {bad, worse, top, sub, stop}
  NoError = NoError
  Class = {Exc, BadExc, WorseExc, GroupExc, StopExc}
  IsA <- InstanceOf
  Group = {top, sub}
  Escaping = {stop}
  Circumstances <- MCCircumstances
  Wanted <- MCWanted
  Specs <- MCSpecs
CHECK_DEADLOCK FALSE
SYMMETRY Symmetric
INVARIANTS FirstIsKept SilentOnlyInRun NothingLeft ExtensionsHold ErrorsAreRead
PROPERTY NegationAnswers
