SPECIFICATION DaemonSpec
CONSTANTS
  e1 = e1
  local = local
  c1 = c1
  Entries = {e1}
  CAs = {local, c1}
  ExternalCAs = {c1}
  DefaultCAs = {local}
  Phases = {"certs", "identify"}
  Holders <- MCHolders
  NoHolder = NoHolder
INVARIANTS
  CASavingExcludesRequests
  LockedWhileSaving
  CANoLostWakeup
PROPERTIES
  CAsAreRefined
