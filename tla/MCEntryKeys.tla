---------------------------- MODULE MCEntryKeys ----------------------------
EXTENDS EntryKeys

CONSTANT e1    \* the request of the runs

=============================================================================
