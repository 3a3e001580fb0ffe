\* Two commands of one category, each with a write_interval or that of a get.
CONSTANTS
  Categories = {led}
  Resent = {led}
  ThrowErrors = FALSE
  Values = {0}
  MaxWrites = 2
  MaxLink = 2
  MaxGets = 2
SPECIFICATION FairSpec
INVARIANTS TypeOK OldestFirst ConfirmedShown
PROPERTIES Delivers Delivered
