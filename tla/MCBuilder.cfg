SPECIFICATION Spec
CONSTANTS
  small = small
  huge = huge
  alice = alice
  nothex = nothex
  coinref = coinref
  badref = badref
  Amounts <- MCAmounts
  Recipients <- MCRecipients
  Encodable <- MCEncodable
  Objects <- MCObjects
  WellFormed <- MCWellFormed
  MaxInputs = 3
  MaxCommands = 2
  MaxArgs = 1
  MaxAmounts = 2
  MaxNested = 0
CONSTRAINT FewCalls
INVARIANTS
  TypeOK
  AmountsDistinct
  UnusedInputsAreOrphans
  ReferencesResolve
  HandlesDenote
PROPERTY FailedCallKeepsBlock
