SPECIFICATION CertsSpec
CONSTANTS
  Entries = {e1}
  Holders = {e1}
  NoHolder = NoHolder
  e1 = e1
  MaxIssued = 3
INVARIANTS
  CertInHand
  SavesWhatWasIssued
