---------------------------- MODULE MCFileStore ----------------------------
(* A request and two CAs, one of which is made up if it has no file.  Two   *)
(* file names for each (MaxSuffix = 1) and two files at a time are enough    *)
(* for a name that is taken, a file left behind and a duplicate.             *)
EXTENDS FileStore

CONSTANTS e1, c1, c2, v1
MCEntries == {e1}
MCCAs == {c1, c2}
MCBuiltin == {c1}
MCValues == {v1}
MCStamps == 1..2
=============================================================================
