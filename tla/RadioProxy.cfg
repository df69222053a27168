CONSTANTS
  s1 = s1
  s2 = s2
  Serial = {s1, s2}
  Asked <- MCAsked
  Vendor = {0, 2}
  MaxReports = 1
  MaxFrameworks = 2
SPECIFICATION FairSpec
CHECK_DEADLOCK FALSE
INVARIANTS
  TypeOK
  AnsweredOnce
  NoneForgotten
  FreshRegistration
  AnsweredInKind
  HeardByTheLiving
  SetIsAnswered
PROPERTY EveryoneAnswered
