--------------------------- MODULE BucketDeleter ---------------------------
(***************************************************************************)
(* The icgc-delete command of scripts/admin/delete.py: run_cli builds an   *)
(* ICGCBucketDeleter, asks for confirmation, and calls delete_file, which  *)
(* looks the key data/<uuid> up, deletes it, looks it up again and, if it  *)
(* is gone, records the uuid on the redacted list object                   *)
(* (_record_redacted_key) by a read-modify-write of the whole object.      *)
(*                                                                         *)
(* Every remote S3 call is one atomic step.  Several invocations of the    *)
(* command (Procs) may run at once: nothing in the code serialises them.   *)
(* The bucket may answer lookups of a just-deleted key from a stale        *)
(* replica (EventualDeletes), and any remote call may raise or the         *)
(* operator may interrupt the script (at most MaxFailures times).          *)
(***************************************************************************)
EXTENDS Naturals, Sequences, SequencesExt

CONSTANTS
    Uuids,            \* file uuids; the object of u is data/<u>
    Procs,            \* concurrent invocations of `delete.py icgc-delete`
    NONE,             \* no object / no value
    EventualDeletes,  \* TRUE: lookups may not yet see a completed delete
    MaxFailures,      \* bound on remote-call failures and interrupts
    MaxLogLines       \* bound on the redacted list, so the model is finite

ASSUME EventualDeletes \in BOOLEAN
ASSUME MaxFailures \in Nat /\ MaxLogLines \in Nat \ {0}

VARIABLES
    objects,   \* uuids whose key data/<uuid> exists in the bucket
    lagging,   \* deleted uuids that a lookup may still report as present
    log,       \* the redacted_file_uuids object: NONE or its lines
    proc,      \* proc[p]: the step p is at, its uuid, the list it read
    failures,  \* remote failures and interrupts so far
    removed    \* history: uuids whose object the tool has removed

vars == <<objects, lagging, log, proc, failures, removed>>

Outcomes == {"none", "declined", "notFound", "incomplete", "deleted", "failed"}
Steps == {"idle", "lookup", "delete", "verify",
          "lookupList", "createList", "readList", "writeList"}

\* The steps at which p is waiting on a remote call.
RemoteSteps == Steps \ {"idle"}

\* The lines of the redacted list; an absent object has none.
LogLines == IF log = NONE THEN <<>> ELSE log

\* "{}\n{}".format(old_string, file_uuid): one more line.
WithLine(old, u) == Append(old, u)

\* bucket.lookup("data/<uuid>") returns a key (TRUE) or None (FALSE); a
\* stale replica may still return the key of a deleted object.
get_key_by_file_uuid(u) ==
    IF u \in objects THEN {TRUE}
    ELSE IF u \in lagging THEN {TRUE, FALSE}
    ELSE {FALSE}

TypeOK ==
    /\ objects \subseteq Uuids
    /\ lagging \subseteq Uuids \ objects
    /\ log = NONE \/ log \in Seq(Uuids)
    /\ proc \in [Procs -> [pc : Steps, uuid : Uuids \cup {NONE},
                           old : Seq(Uuids) \cup {NONE}, outcome : Outcomes]]
    /\ failures \in 0..MaxFailures
    /\ removed \subseteq Uuids

\* The bucket holds some files; the redacted list, if any, names one file
\* removed by an earlier run.
Init ==
    /\ objects \in SUBSET Uuids
    /\ lagging = {}
    /\ log \in {NONE} \cup {<<u>> : u \in Uuids \ objects}
    /\ proc = [p \in Procs |-> [pc |-> "idle", uuid |-> NONE,
                                old |-> NONE, outcome |-> "none"]]
    /\ failures = 0
    /\ removed = ToSet(LogLines)

\* The steps after delete_key and before the list is written: the uuid
\* is deleted but not yet on the list.
Pending == {"verify", "lookupList", "createList", "readList", "writeList"}

Goto(p, step) == proc' = [proc EXCEPT ![p].pc = step]

\* p's command ends with result.
Finish(p, result) ==
    proc' = [proc EXCEPT ![p].pc = "idle", ![p].outcome = result]

\* run_cli, icgc-delete: the deleter is built and the operator answers yes.
IcgcDelete(p) ==
    /\ proc[p].pc = "idle"
    /\ Len(LogLines) < MaxLogLines
    /\ \E u \in Uuids :
         proc' = [proc EXCEPT ![p] = [pc |-> "lookup", uuid |-> u,
                                      old |-> NONE, outcome |-> "none"]]
    /\ UNCHANGED <<objects, lagging, log, failures, removed>>

\* The operator answers anything but y/yes: "DID NOT delete File".
DeclineDelete(p) ==
    /\ proc[p].pc = "idle"
    /\ \E u \in Uuids :
         proc' = [proc EXCEPT ![p] = [pc |-> "idle", uuid |-> u,
                                      old |-> NONE, outcome |-> "declined"]]
    /\ UNCHANGED <<objects, lagging, log, failures, removed>>

\* Mutation: the FileNotFound early return dropped.
LookupFileNoGuard(p) ==
    /\ proc[p].pc = "lookup"
    /\ Goto(p, "delete")
    /\ UNCHANGED <<objects, lagging, log, failures, removed>>

\* delete_file: key = get_key_by_file_uuid(uuid); no key raises FileNotFound.
LookupFile(p) ==
    /\ proc[p].pc = "lookup"
    /\ \E found \in get_key_by_file_uuid(proc[p].uuid) :
         IF found THEN Goto(p, "delete") ELSE Finish(p, "notFound")
    /\ UNCHANGED <<objects, lagging, log, failures, removed>>

\* The store removes data/<u>; lookups may still see it for a while.
Removal(u) ==
    /\ objects' = objects \ {u}
    /\ lagging' = IF EventualDeletes /\ u \in objects
                  THEN lagging \cup {u} ELSE lagging
    /\ removed' = removed \cup ({u} \cap objects)

\* self.bucket.delete_key(key).  S3 deletes of an absent key succeed.
DeleteKey(p) ==
    /\ proc[p].pc = "delete"
    /\ Removal(proc[p].uuid)
    /\ Goto(p, "verify")
    /\ UNCHANGED <<log, failures>>

\* delete_file: a key still found raises ICGCDIncompleteError, otherwise
\* the uuid is recorded.
VerifyDeleted(p) ==
    /\ proc[p].pc = "verify"
    /\ \E found \in get_key_by_file_uuid(proc[p].uuid) :
         IF found THEN Finish(p, "incomplete") ELSE Goto(p, "lookupList")
    /\ UNCHANGED <<objects, lagging, log, failures, removed>>

\* _record_redacted_key: bucket.lookup(redacted_list_filename).
LookupRedactedList(p) ==
    /\ proc[p].pc = "lookupList"
    /\ Goto(p, IF log = NONE THEN "createList" ELSE "readList")
    /\ UNCHANGED <<objects, lagging, log, failures, removed>>

\* No list yet: a new key whose contents are the uuid alone.
CreateRedactedList(p) ==
    /\ proc[p].pc = "createList"
    /\ log' = <<proc[p].uuid>>
    /\ Finish(p, "deleted")
    /\ UNCHANGED <<objects, lagging, failures, removed>>

\* The list exists: look it up again and read all of its contents.
ReadRedactedList(p) ==
    /\ proc[p].pc = "readList"
    /\ proc' = [proc EXCEPT ![p].pc = "writeList", ![p].old = LogLines]
    /\ UNCHANGED <<objects, lagging, log, failures, removed>>

\* Overwrite the list with what was read plus the new line.
WriteRedactedList(p) ==
    /\ proc[p].pc = "writeList"
    /\ log' = WithLine(proc[p].old, proc[p].uuid)
    /\ Finish(p, "deleted")
    /\ UNCHANGED <<objects, lagging, failures, removed>>

\* A boto call raises (S3ResponseError, network error: not caught by
\* run_cli) or the operator interrupts the script: p stops where it is.
\* The call may have failed before the store acted, or after: a delete or
\* a write of the list that landed and whose answer was lost.
RemoteFailure(p) ==
    LET u == proc[p].uuid IN
    /\ proc[p].pc \in RemoteSteps
    /\ failures < MaxFailures
    /\ failures' = failures + 1
    /\ Finish(p, "failed")
    /\ \/ UNCHANGED <<objects, lagging, log, removed>>
       \/ proc[p].pc = "delete" /\ Removal(u) /\ UNCHANGED log
       \/ /\ proc[p].pc = "createList"
          /\ log' = <<u>>
          /\ UNCHANGED <<objects, lagging, removed>>
       \/ /\ proc[p].pc = "writeList"
          /\ log' = WithLine(proc[p].old, u)
          /\ UNCHANGED <<objects, lagging, removed>>

\* The store: every replica catches up with the delete of u.
Propagate(u) ==
    /\ u \in lagging
    /\ lagging' = lagging \ {u}
    /\ UNCHANGED <<objects, log, proc, failures, removed>>

Next ==
    \/ \E p \in Procs :
         \/ IcgcDelete(p)
         \/ DeclineDelete(p)
         \/ LookupFile(p)
         \/ DeleteKey(p)
         \/ VerifyDeleted(p)
         \/ LookupRedactedList(p)
         \/ CreateRedactedList(p)
         \/ ReadRedactedList(p)
         \/ WriteRedactedList(p)
         \/ RemoteFailure(p)
    \/ \E u \in Uuids : Propagate(u)

Spec == Init /\ [][Next]_vars

(***************************************************************************)
(* Properties                                                              *)
(***************************************************************************)

Quiescent == \A p \in Procs : proc[p].pc = "idle"

\* The redacted list is an audit trail: every write of the object by
\* _record_redacted_key keeps all the lines it had and adds to them.  The
\* read-modify-write of the object (and the create after a lookup that
\* found no list) is what this is about.
RedactedListAppendOnly ==
    [][log # NONE => log' # NONE /\ IsPrefix(log, log')]_log

\* Every uuid on the redacted list names a file the tool removed and that
\* is no longer in the bucket: delete_file records only after delete_key
\* and the second lookup, and never for a file it did not find.
RedactedListSound ==
    \A i \in DOMAIN LogLines :
        LogLines[i] \in removed /\ LogLines[i] \notin objects

\* Each uuid is on the redacted list at most once: spec.md section 8 says
\* deleting an existing identifier appends exactly one line, and a
\* repeated delete fails with FileNotFound.  About delete_file's lookup
\* and delete_key racing with another invocation for the same uuid.
RedactedListNoDuplicates == IsInjective(LogLines)

\* Refinement: the list as it will be once every pending record lands.
RedactedView ==
    LogLines \o SetToSeq({proc[p].uuid : p \in {q \in Procs : proc[q].pc \in Pending}})

AD == INSTANCE AtomicDeletion WITH stored <- objects, redacted <- RedactedView

\* icgc-delete implements the atomic delete-and-record of AtomicDeletion:
\* a file is deleted only if found, and each deletion adds its uuid to the
\* list exactly once, in the order the deletions happened.
ImplementsAtomicDeletion == AD!Spec

=============================================================================
