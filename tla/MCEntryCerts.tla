---------------------------- MODULE MCEntryCerts ----------------------------
EXTENDS EntryCerts

CONSTANT e1    \* the request of the runs

=============================================================================
