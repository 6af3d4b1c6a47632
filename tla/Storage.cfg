SPECIFICATION Spec
CONSTANTS
  MaxHeight = 6
  HashBits = 6
  LevelSamples = 3
INVARIANTS EncodingsAreFaithful RowsAreFaithful FsckIsComplete TreesAreCanonical TreeReadsAreExact DamageNeverMisleads
CHECK_DEADLOCK FALSE
