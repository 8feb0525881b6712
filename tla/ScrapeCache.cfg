CONSTANTS
  Keys = {k1, k2, k3}
  Hashes = {k1, k2, k3}
  HashOf <- MCHashOf
  Formats = {html}
  CacheTtl = 1
  MaxEntries = 2
  MaxBytes = 3
  MaxEntryBytes = 2
  MaxTombstones = 2
  Sizes = {1, 2, 3}
  MaxGenerations = 3
  MaxTime = 2
SPECIFICATION Spec
SYMMETRY Symmetric
INVARIANTS TypeOK OrderListsEntries SizesAccounted EntriesHaveTombstones RuledOutStaysOut InsertedIsCached
PROPERTIES AgeNeverRestarts DocumentsSpec
CHECK_DEADLOCK FALSE
