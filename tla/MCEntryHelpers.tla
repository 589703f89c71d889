--------------------------- MODULE MCEntryHelpers ---------------------------
EXTENDS EntryHelpers, TLC

SymmetricEntries == Permutations(Entries)

=============================================================================
