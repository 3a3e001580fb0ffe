\* Two names and lists of up to two entries; stored under two keys, looked up by three.
CONSTANTS
  a = a
  b = b
  Names = {a, b}
  Scalars = {1, 2}
  Dicts <- MCDicts
  Values <- MCValues
  MaxSet = 2
  MaxKeys = 3
SPECIFICATION Spec
INVARIANTS TypeOK FlatKeysLead DefaultGiven SetsOnlyThere MergeOverlays SavedIsLoaded
