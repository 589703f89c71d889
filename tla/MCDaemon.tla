------------------------------ MODULE MCDaemon ------------------------------
EXTENDS Daemon

CONSTANTS e1, local, c1    \* a request, an internal CA and one with a helper

MCHolders == {<<c, p>> : c \in CAs, p \in Phases} \cup Entries

=============================================================================
