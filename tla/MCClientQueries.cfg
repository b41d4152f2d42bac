SPECIFICATION FairSpec
CONSTANTS
  None = None
  Invalid = Invalid
  Ids <- MCIds
  Limit = 2
  Asked <- MCAsked
  Shown <- MCShown
  Filters <- MCFilters
  MaxVersion = 2
  MaxChanges = 2
  MaxErrors = 2
  MaxItems = 5
INVARIANTS
  TypeOK
  FilterIsWhole
  OneInstant
  ListedOnce
PROPERTY PagingEnds
CHECK_DEADLOCK FALSE
