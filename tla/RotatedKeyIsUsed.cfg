SPECIFICATION KeysSpec
CONSTANTS
  Entries = {e1}
  Holders = {e1}
  NoHolder = NoHolder
  e1 = e1
  MaxKeys = 3
PROPERTIES
  RotatedKeyIsUsed
