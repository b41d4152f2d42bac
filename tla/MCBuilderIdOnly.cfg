SPECIFICATION Spec
CONSTANTS
  small = small
  huge = huge
  alice = alice
  nothex = nothex
  coinref = coinref
  badref = badref
  Amounts <- MCAmounts
  Recipients <- MCRecipients
  Encodable <- MCEncodable
  Objects <- MCObjects
  WellFormed <- MCWellFormed
  MaxInputs = 2
  MaxCommands = 2
  MaxArgs = 1
  MaxAmounts = 1
  MaxNested = 0
INVARIANT ObjectByIdAccepted
