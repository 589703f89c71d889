--------------------------- MODULE MCEntryIterate ---------------------------
EXTENDS EntryIterate

CONSTANTS e1, e2    \* the requests of the runs

=============================================================================
