---------------------------- MODULE MCEnrollment -----------------------------
(***************************************************************************)
(* One request, a renewal or a resubmission, a loss and a crash.           *)
(***************************************************************************)
EXTENDS Enrollment

MCCsrs == <<"v1", "v2", "v3">>
MCCerts == <<"c1", "c2", "c3", "c4", "c5">>
MCIds == <<"1", "2", "3", "4", "5">>
MCSerials == <<"5", "6", "7", "8", "9">>
=============================================================================
