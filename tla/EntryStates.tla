---------------------------- MODULE EntryStates ----------------------------
(***************************************************************************)
(* The states of a certificate request ("entry") in certmonger, as        *)
(* declared by enum cm_state, with the classifications of them that the    *)
(* daemon makes: which are rewound when an entry is stopped or started     *)
(* (cm_entry_reset_state), and which are reported as "stuck" to clients    *)
(* (request_prop_get_stuck).  A state is its source name without "CM_".    *)
(***************************************************************************)

\* States in which a helper process of the entry runs: the daemon waits for
\* the helper's output and looks at its result when it has exited.
HelperStates ==
  {"GENERATING_KEY_PAIR", "READING_KEYINFO", "GENERATING_CSR",
   "GENERATING_SCEP_DATA", "SUBMITTING", "PRE_SAVE_CERT", "SAVING_CERT",
   "READING_CERT", "POST_SAVED_CERT", "SAVING_CA_CERTS",
   "SAVING_ONLY_CA_CERTS", "NOTIFYING_VALIDITY", "NOTIFYING_REJECTION",
   "NOTIFYING_ISSUED_SAVE_FAILED", "NOTIFYING_ISSUED_CA_SAVE_FAILED",
   "NOTIFYING_ISSUED_SAVED", "NOTIFYING_ONLY_CA_SAVE_FAILED",
   "NEWLY_ADDED_READING_KEYINFO", "NEWLY_ADDED_READING_CERT"}

\* States from which only a user, or a change at the CA, moves the entry:
\* the ones the "stuck" property of a request reports.
StuckStates ==
  {"NEED_KEYINFO_READ_TOKEN", "NEED_KEYINFO_READ_PIN",
   "NEED_KEY_GEN_PERMS", "NEED_KEY_GEN_TOKEN", "NEED_KEY_GEN_PIN",
   "NEED_CSR_GEN_TOKEN", "NEED_CSR_GEN_PIN",
   "NEED_SCEP_GEN_TOKEN", "NEED_SCEP_GEN_PIN",
   "NEED_SCEP_ENCRYPTION_CERT", "NEED_SCEP_RSA_CLIENT_KEY",
   "NEWLY_ADDED_NEED_KEYINFO_READ_TOKEN", "NEWLY_ADDED_NEED_KEYINFO_READ_PIN",
   "NEED_CA_CERT_SAVE_PERMS", "NEED_CERTSAVE_PERMS",
   "NEED_CERTSAVE_TOKEN", "NEED_CERTSAVE_PIN",
   "NEED_ONLY_CA_CERT_SAVE_PERMS", "NEED_GUIDANCE", "NEED_CA",
   "CA_REJECTED", "CA_UNCONFIGURED"}

\* The remaining states: the next visit starts something or moves on.
PassingStates ==
  {"NEED_KEY_PAIR", "HAVE_KEY_PAIR", "NEED_KEYINFO", "HAVE_KEYINFO",
   "NEED_CSR", "HAVE_CSR", "NEED_SCEP_DATA", "HAVE_SCEP_DATA",
   "NEED_TO_SUBMIT", "CA_WORKING", "CA_UNREACHABLE",
   "NEED_TO_SAVE_CERT", "START_SAVING_CERT", "SAVED_CERT",
   "NEED_TO_SAVE_CA_CERTS", "START_SAVING_CA_CERTS", "NEED_TO_READ_CERT",
   "NEED_TO_SAVE_ONLY_CA_CERTS", "START_SAVING_ONLY_CA_CERTS",
   "NEED_TO_NOTIFY_VALIDITY", "NEED_TO_NOTIFY_REJECTION",
   "NEED_TO_NOTIFY_ISSUED_SAVE_FAILED",
   "NEED_TO_NOTIFY_ISSUED_CA_SAVE_FAILED", "NEED_TO_NOTIFY_ISSUED_SAVED",
   "NEED_TO_NOTIFY_ONLY_CA_SAVE_FAILED", "MONITORING",
   "NEWLY_ADDED", "NEWLY_ADDED_START_READING_KEYINFO",
   "NEWLY_ADDED_START_READING_CERT", "NEWLY_ADDED_DECIDING"}

States == HelperStates \cup StuckStates \cup PassingStates

\* Mutant: an interrupted saving starts over with the submission.
InterruptedSubmission_OrSaving ==
  {"NEED_TO_SUBMIT", "SUBMITTING", "CA_WORKING", "CA_UNREACHABLE",
   "CA_UNCONFIGURED", "NEED_CA", "SAVING_CERT"}

\* States in which a submission is under way; what it came to is lost.
InterruptedSubmission ==
  {"NEED_TO_SUBMIT", "SUBMITTING", "CA_WORKING", "CA_UNREACHABLE",
   "CA_UNCONFIGURED", "NEED_CA"}

\* Mutant: an interrupted saving of the certificate counts as done.
InterruptedReading_OrSaving == {"READING_CERT", "SAVING_CERT"}

\* States in which the saved certificate is being read back.
InterruptedReading == {"READING_CERT"}

\* Mutant: the hook that runs after the saving is not considered.
InterruptedTelling_ButHook == {"NOTIFYING_ISSUED_SAVED"}

\* States in which everything is saved, and that remains to be told.
InterruptedTelling == {"POST_SAVED_CERT", "NOTIFYING_ISSUED_SAVED"}

\* The stable state that an in-progress state is rewound to.
Reset(s) ==
  CASE s \in {"GENERATING_KEY_PAIR", "NEED_KEY_GEN_TOKEN", "NEED_KEY_GEN_PIN",
              "NEED_KEY_GEN_PERMS"} -> "NEED_KEY_PAIR"
    [] s \in {"READING_KEYINFO", "NEED_KEYINFO_READ_TOKEN",
              "NEED_KEYINFO_READ_PIN"} -> "NEED_KEYINFO"
    [] s \in {"NEED_CSR", "NEED_CSR_GEN_TOKEN", "NEED_CSR_GEN_PIN",
              "GENERATING_CSR"} -> "HAVE_KEYINFO"
    [] s \in {"NEED_SCEP_GEN_TOKEN", "NEED_SCEP_GEN_PIN",
              "NEED_SCEP_ENCRYPTION_CERT", "NEED_SCEP_RSA_CLIENT_KEY",
              "GENERATING_SCEP_DATA"} -> "NEED_SCEP_DATA"
    [] s \in InterruptedSubmission -> "HAVE_CSR"
    [] s \in InterruptedReading -> "NEED_TO_READ_CERT"
    [] s \in {"START_SAVING_CERT", "PRE_SAVE_CERT", "SAVING_CERT",
              "NEED_CERTSAVE_PERMS", "NEED_CERTSAVE_TOKEN",
              "NEED_CERTSAVE_PIN"} -> "NEED_TO_SAVE_CERT"
    [] s \in {"START_SAVING_CA_CERTS", "SAVING_CA_CERTS",
              "NEED_CA_CERT_SAVE_PERMS"} -> "NEED_TO_SAVE_CA_CERTS"
    [] s \in InterruptedTelling -> "NEED_TO_NOTIFY_ISSUED_SAVED"
    [] s = "NOTIFYING_ISSUED_CA_SAVE_FAILED"
                                        -> "NEED_TO_NOTIFY_ISSUED_CA_SAVE_FAILED"
    [] s = "NOTIFYING_ISSUED_SAVE_FAILED" -> "NEED_TO_NOTIFY_ISSUED_SAVE_FAILED"
    [] s = "NOTIFYING_REJECTION"        -> "NEED_TO_NOTIFY_REJECTION"
    [] s = "NOTIFYING_ONLY_CA_SAVE_FAILED"
                                        -> "NEED_TO_NOTIFY_ONLY_CA_SAVE_FAILED"
    [] s = "NEED_TO_NOTIFY_VALIDITY"    -> "MONITORING"
    [] s = "NOTIFYING_VALIDITY"         -> "NEED_TO_NOTIFY_VALIDITY"
    [] s \in {"START_SAVING_ONLY_CA_CERTS", "SAVING_ONLY_CA_CERTS",
              "NEED_ONLY_CA_CERT_SAVE_PERMS"} -> "NEED_TO_SAVE_ONLY_CA_CERTS"
    [] s \in {"NEWLY_ADDED_START_READING_KEYINFO", "NEWLY_ADDED_READING_KEYINFO",
              "NEWLY_ADDED_NEED_KEYINFO_READ_TOKEN",
              "NEWLY_ADDED_NEED_KEYINFO_READ_PIN",
              "NEWLY_ADDED_START_READING_CERT", "NEWLY_ADDED_READING_CERT",
              "NEWLY_ADDED_DECIDING"} -> "NEWLY_ADDED"
    [] OTHER -> s

=============================================================================
