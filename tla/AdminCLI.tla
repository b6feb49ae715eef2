------------------------------ MODULE AdminCLI ------------------------------
(***************************************************************************)
(* run_cli of scripts/admin/delete.py with its icgc-delete command whole:  *)
(* the settings are built and the deleter connects with them               *)
(* (AdminSettings), and only in the else branch of that try, once both     *)
(* checks passed, the operator is asked and delete_file runs               *)
(* (BucketDeleter).  An invocation runs one command at a time; the         *)
(* settings file and the bucket are shared by all of them.                 *)
(***************************************************************************)
EXTENDS DCCOpsEnv

CONSTANTS
    Procs, Keys, AccountId, AccountSecret, DccOpsDirs, MaxInterrupts,
    Uuids, EventualDeletes, MaxFailures, MaxLogLines

VARIABLES
    file, cli, dccops, expected, interrupts,        \* AdminSettings
    objects, lagging, log, proc, failures, removed    \* BucketDeleter

settingsVars == <<file, cli, dccops, expected, interrupts>>
deleterVars == <<objects, lagging, log, proc, failures, removed>>
vars == <<settingsVars, deleterVars>>

S == INSTANCE AdminSettings
D == INSTANCE BucketDeleter

\* p runs no command: neither part is in the middle of one, and no
\* connected deleter is waiting for its prompt.
Idle(p) ==
    /\ cli[p].pc = "idle"
    /\ cli[p].outcome # "connected"
    /\ proc[p].pc = "idle"

Init == S!Init /\ D!Init

\* A command starts from the shell.
StartCommand(p) ==
    /\ Idle(p)
    /\ S!SaveAccessKeys(p) \/ S!LoadDccOpsSettings(p) \/ S!IcgcDeleteConnect(p)
    /\ UNCHANGED deleterVars

\* A step of building the settings, writing them, or connecting.
SettingsStep(p) ==
    /\ \/ S!Construct(p) \/ S!Reread(p) \/ S!Truncate(p) \/ S!Flush(p)
       \/ S!SetAccessId(p) \/ S!SetSecretKey(p) \/ S!Connect(p) \/ S!Interrupt(p)
    /\ UNCHANGED deleterVars

\* icgc-delete, else branch: the deleter was built, so the operator is
\* asked, and delete_file runs on yes.
Prompt(p) ==
    /\ cli[p].pc = "idle"
    /\ cli[p].outcome = "connected"
    /\ D!IcgcDelete(p) \/ D!DeclineDelete(p)
    /\ cli' = [cli EXCEPT ![p].outcome = "none"]
    /\ UNCHANGED <<file, dccops, expected, interrupts>>

\* A remote call of delete_file, or its failure.
DeleterStep(p) ==
    /\ \/ D!LookupFile(p) \/ D!DeleteKey(p) \/ D!VerifyDeleted(p)
       \/ D!LookupRedactedList(p) \/ D!CreateRedactedList(p)
       \/ D!ReadRedactedList(p) \/ D!WriteRedactedList(p) \/ D!RemoteFailure(p)
    /\ UNCHANGED settingsVars

Next ==
    \/ \E p \in Procs : StartCommand(p) \/ SettingsStep(p) \/ Prompt(p) \/ DeleterStep(p)
    \/ \E u \in Uuids : D!Propagate(u) /\ UNCHANGED settingsVars

Spec == Init /\ [][Next]_vars

(***************************************************************************)
(* Properties                                                              *)
(***************************************************************************)

\* Both parts keep their types.
TypeOK == S!TypeOK /\ D!TypeOK

\* The settings part: a pair reported saved stays in the settings file
\* (AdminSettings), with icgc-delete building its settings in between.
SavedKeysPersist == S!SavedKeysPersist

\* The deleter part: every uuid on the redacted list names a file the tool
\* removed and that is gone, with stale lookups and failing remote calls
\* (BucketDeleter).
RedactedListSound == D!RedactedListSound

\* The settings part: every save-access-keys that ended reported success
\* unless interrupted, with earlier commands, icgc-delete among them,
\* interrupted while they wrote the file (AdminSettings).
SaveCompletesUnlessInterrupted == S!SaveCompletesUnlessInterrupted

\* When no remote call fails and lookups are consistent, the call order of
\* delete_file (lookup, delete_key, lookup, record) implements the atomic
\* delete-and-record of AtomicDeletion, one invocation at a time, whatever
\* the settings commands before it did.  A failure or a stale lookup between
\* delete_key and the record breaks it (spec.md 4.3).
ImplementsAtomicDeletion == D!ImplementsAtomicDeletion

=============================================================================
