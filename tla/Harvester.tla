----------------------------- MODULE Harvester -----------------------------
(***************************************************************************)
(* harvest.py (object-store-service and dcc-storage-server, one script):   *)
(* a cron job lists the top level of the log directory once, sorted by     *)
(* name, and for every objectstore.*.log file uploads it to the audit      *)
(* bucket under <instance>/<name> and then moves it into archive/.         *)
(*                                                                         *)
(* Several hosts run the script against the one audit bucket; on a host,   *)
(* runs started by cron may overlap.  The logger rotates a new log into    *)
(* the directory at any time; a run may be killed, or put_object raise,    *)
(* at any step (at most MaxCrashes times); archive/ may be missing.        *)
(* A rotated log is named by its rotation order, 1..MaxLogs, so listing    *)
(* sorted by name is listing sorted by number.                             *)
(***************************************************************************)
EXTENDS Naturals, Sequences, SequencesExt

CONSTANTS
    Hosts,           \* machines running the harvester
    Runs,            \* cron runs; HostOf[r] is the host run r belongs to
    HostOf,
    Instance,        \* Instance[h]: OBJECTSTORE_INSTANCE on h (or "default")
    Other,           \* files of the log directory the pattern does not match
    MaxLogs,         \* rotated logs objectstore.1.log .. objectstore.<n>.log
    ArchiveDirInit,  \* whether archive/ exists on a host: a subset of BOOLEAN
    MaxCrashes,      \* bound on killed runs and failed uploads
    NONE

Names == 1..MaxLogs
Keys == {Instance[h] : h \in Hosts} \X Names

VARIABLES
    source,     \* source[h]: the files at the top level of h's log directory
    archive,    \* archive[h]: the logs moved into h's archive/
    archiveDir, \* archiveDir[h]: archive/ exists on h
    rotated,    \* rotated[h]: the logs the logger has written on h so far
    audit,      \* audit[k]: the host whose log the object k holds, or NONE
    run,        \* run[r]: its step and the files of its listing still to do
    crashes

vars == <<source, archive, archiveDir, rotated, audit, run, crashes>>

\* Mutation: all_files(source) with its default pattern '*'.
MatchesAll(f) == TRUE

\* fnmatch(name, 'objectstore.*.log'): the rotated logs, not the active
\* objectstore.log or anything else in the directory.
Matches(f) == f \in Names

TypeOK ==
    /\ source \in [Hosts -> SUBSET (Names \cup Other)]
    /\ archive \in [Hosts -> SUBSET Names]
    /\ archiveDir \in [Hosts -> BOOLEAN]
    /\ rotated \in [Hosts -> SUBSET Names]
    /\ audit \in [Keys -> Hosts \cup {NONE}]
    /\ run \in [Runs -> [pc : {"idle", "upload", "move"}, todo : Seq(Names)]]
    /\ crashes \in 0..MaxCrashes

\* Each host has rotated some logs, none harvested yet.
Init ==
    /\ rotated \in [Hosts -> {1..n : n \in 0..MaxLogs}]
    /\ source = [h \in Hosts |-> rotated[h] \cup Other]
    /\ archive = [h \in Hosts |-> {}]
    /\ archiveDir \in [Hosts -> ArchiveDirInit]
    /\ audit = [k \in Keys |-> NONE]
    /\ run = [r \in Runs |-> [pc |-> "idle", todo |-> <<>>]]
    /\ crashes = 0

\* The logger rotates the next log into the directory.
Rotate(h) ==
    /\ rotated[h] # Names
    /\ LET f == Cardinality(rotated[h]) + 1 IN
       /\ rotated' = [rotated EXCEPT ![h] = @ \cup {f}]
       /\ source' = [source EXCEPT ![h] = @ \cup {f}]
    /\ UNCHANGED <<archive, archiveDir, audit, run, crashes>>

\* Mutation: the loop body moves the log first and uploads it after.
StartMoveFirst(r) ==
    LET todo == SetToSortSeq({f \in source[HostOf[r]] : Matches(f)}, <) IN
    /\ run[r].pc = "idle"
    /\ todo # <<>>
    /\ run' = [run EXCEPT ![r] = [pc |-> "move", todo |-> todo]]
    /\ UNCHANGED <<source, archive, archiveDir, rotated, audit, crashes>>

\* all_files(source, 'objectstore.*.log', True): os.walk's first level,
\* files.sort(), the names that match.  The listing is taken once.
Start(r) ==
    LET todo == SetToSortSeq({f \in source[HostOf[r]] : Matches(f)}, <) IN
    /\ run[r].pc = "idle"
    /\ todo # <<>>
    /\ run' = [run EXCEPT ![r] = [pc |-> "upload", todo |-> todo]]
    /\ UNCHANGED <<source, archive, archiveDir, rotated, audit, crashes>>

\* The run ends: the loop is done or an exception ended the script.
Stop(r) == run' = [run EXCEPT ![r] = [pc |-> "idle", todo |-> <<>>]]

\* Mutation: keyval = fname, the instance prefix left out (every host
\* writes under the key of the default instance).
UploadNoInstance(r) ==
    LET h == HostOf[r]
        f == Head(run[r].todo)
    IN
    /\ run[r].pc = "upload"
    /\ \/ /\ f \notin source[h]
          /\ Stop(r)
          /\ UNCHANGED audit
       \/ /\ f \in source[h]
          /\ audit' = [audit EXCEPT ![<<"default", f>>] = h]
          /\ run' = [run EXCEPT ![r].pc = "move"]
    /\ UNCHANGED <<source, archive, archiveDir, rotated, crashes>>

\* open(p, 'rb') raises IOError if p has gone (another run moved it);
\* otherwise put_object(Key=instance + '/' + fname) stores the log.
Upload(r) ==
    LET h == HostOf[r]
        f == Head(run[r].todo)
    IN
    /\ run[r].pc = "upload"
    /\ \/ /\ f \notin source[h]
          /\ Stop(r)
          /\ UNCHANGED audit
       \/ /\ f \in source[h]
          /\ audit' = [audit EXCEPT ![<<Instance[h], f>>] = h]
          /\ run' = [run EXCEPT ![r].pc = "move"]
    /\ UNCHANGED <<source, archive, archiveDir, rotated, crashes>>

\* Mutation: shutil.copy in place of shutil.move, the log left in place.
MoveCopies(r) ==
    LET h == HostOf[r]
        f == Head(run[r].todo)
        rest == Tail(run[r].todo)
    IN
    /\ run[r].pc = "move"
    /\ \/ /\ (f \notin source[h] \/ ~archiveDir[h])
          /\ Stop(r)
          /\ UNCHANGED <<source, archive>>
       \/ /\ f \in source[h] /\ archiveDir[h]
          /\ archive' = [archive EXCEPT ![h] = @ \cup {f}]
          /\ run' = [run EXCEPT ![r] = [pc |-> IF rest = <<>> THEN "idle"
                                                  ELSE "upload",
                                          todo |-> rest]]
          /\ UNCHANGED source
    /\ UNCHANGED <<archiveDir, rotated, audit, crashes>>

\* shutil.move(p, source + '/archive/' + fname): it raises if p has gone or
\* archive/ is missing, which ends the script; otherwise the loop goes on
\* with the next file of the listing.
Move(r) ==
    LET h == HostOf[r]
        f == Head(run[r].todo)
        rest == Tail(run[r].todo)
    IN
    /\ run[r].pc = "move"
    /\ \/ /\ (f \notin source[h] \/ ~archiveDir[h])
          /\ Stop(r)
          /\ UNCHANGED <<source, archive>>
       \/ /\ f \in source[h] /\ archiveDir[h]
          /\ source' = [source EXCEPT ![h] = @ \ {f}]
          /\ archive' = [archive EXCEPT ![h] = @ \cup {f}]
          /\ run' = [run EXCEPT ![r] = [pc |-> IF rest = <<>> THEN "idle"
                                                  ELSE "upload",
                                          todo |-> rest]]
    /\ UNCHANGED <<archiveDir, rotated, audit, crashes>>

\* put_object raises (uncaught) or the run is killed: the script ends.
Crash(r) ==
    /\ run[r].pc # "idle"
    /\ crashes < MaxCrashes
    /\ crashes' = crashes + 1
    /\ Stop(r)
    /\ UNCHANGED <<source, archive, archiveDir, rotated, audit>>

Next ==
    \/ \E h \in Hosts : Rotate(h)
    \/ \E r \in Runs : Start(r) \/ Upload(r) \/ Move(r) \/ Crash(r)

\* cron keeps starting the script, and a started run keeps going; the
\* logger and failures are not required to happen.
Fairness == \A r \in Runs : WF_vars(Start(r)) /\ WF_vars(Upload(r)) /\ WF_vars(Move(r))

Spec == Init /\ [][Next]_vars
FairSpec == Spec /\ Fairness

(***************************************************************************)
(* Properties                                                              *)
(***************************************************************************)

\* On a host with an archive/ directory, every rotated log eventually
\* leaves the log directory, archived, with its audit object in place,
\* although runs overlap and crash and logs are rotated after a run has
\* taken its listing.  (Nothing creates archive/: without it no log is
\* ever moved.)
EveryLogHarvested ==
    \A h \in Hosts : \A f \in Names :
        (archiveDir[h] /\ f \in source[h]) ~> (f \notin source[h] /\ f \in archive[h]
                            /\ audit[<<Instance[h], f>>] = h)

\* Refinement: the logs of h still in its directory, those whose audit
\* object holds h's log, and those in archive/.
LA == INSTANCE LogAudit WITH
        pending <- [h \in Hosts |-> source[h] \cap Names],
        uploaded <- [h \in Hosts |-> {f \in Names : audit[<<Instance[h], f>>] = h}],
        archived <- archive

\* The harvester implements LogAudit: a log leaves the directory only into
\* archive/ and only once uploaded, and no upload is ever lost or taken
\* over by another host's log of the same name.  About overlapping runs,
\* crashes between put_object and shutil.move, the instance prefix of the
\* key, and the move (not a copy) into archive/.
HarvestRefines == LA!Spec

=============================================================================
