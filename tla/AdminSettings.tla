---------------------------- MODULE AdminSettings ----------------------------
(***************************************************************************)
(* ICGCStorageSettings and the commands of scripts/admin/delete.py that    *)
(* use it: save-access-keys, load-dccops-settings and the settings part of *)
(* icgc-delete (building the deleter: has_valid_keys, S3 validation).      *)
(*                                                                         *)
(* Each invocation (Procs) keeps its own SafeConfigParser, read from the   *)
(* settings file when it is built, and writes the whole parser back on     *)
(* every change.  open(name, 'w') empties the file at once and the new     *)
(* contents land when it is closed, so each write is two steps: Truncate   *)
(* and Flush.  Invocations share nothing but the file.                     *)
(***************************************************************************)
EXTENDS Naturals, Sequences, DCCOpsEnv

CONSTANTS
    Procs,          \* concurrent invocations of delete.py
    Keys,           \* access ids and secret keys
    AccountId,      \* the pair the S3 account accepts
    AccountSecret,
    DccOpsDirs,     \* dcc-ops directories load-dccops-settings may be given
    MaxInterrupts   \* bound on commands interrupted (Ctrl-C, kill)

ASSUME AccountId \in Keys /\ AccountSecret \in Keys

\* DCCOps_OPTION_NAME_ACCESS_ID / _SECRET_KEY of defaults.py: the options
\* of the settings file and the boardwalk variables imported into them.
AccessIdName == "aws_access_key_id"
SecretKeyName == "aws_secret_access_key"

VARIABLES
    file,      \* the settings file .aws-settings: NONE or its contents
    cli,       \* cli[p]: the command p runs and where it is
    dccops,    \* the dcc-ops directory on disk
    expected,  \* history: the pair the last completed command saved, or
               \* NONE once a command stopped half-way through saving
    interrupts \* commands interrupted so far

vars == <<file, cli, dccops, expected, interrupts>>

\* Contents of a config: whether the AWS_KEYS section exists, its options;
\* options exist only inside the section (set() raises NoSectionError).
Config == {c \in [section : BOOLEAN, id : Keys \cup {NONE}, secret : Keys \cup {NONE}] :
             ~c.section => c.id = NONE /\ c.secret = NONE}
EmptyConfig == [section |-> FALSE, id |-> NONE, secret |-> NONE]

Pc == {"idle", "construct", "reread", "truncate", "flush",
       "setId", "setSecret", "connect"}
Cmd == {"none", "save", "load", "delete"}
Outcome == {"none", "saved", "ioError", "crashed", "interrupted",
            "invalidConfig", "s3Error", "connected"}
Pair == (Keys \cup {NONE}) \X (Keys \cup {NONE})

PairOf(c) == IF c = NONE THEN <<NONE, NONE>> ELSE <<c.id, c.secret>>

TypeOK ==
    /\ file \in Config \cup {NONE}
    /\ cli \in [Procs -> [pc : Pc, cmd : Cmd, parser : Config, ret : Pc,
                          id : Keys \cup {NONE}, secret : Keys \cup {NONE},
                          before : Pair, outcome : Outcome]]
    /\ dccops \in DccOpsDirs
    /\ expected \in Pair \cup {NONE}
    /\ interrupts \in 0..MaxInterrupts

\* The file may be absent, empty, or written by an earlier run.
Init ==
    /\ file \in {NONE, EmptyConfig, [EmptyConfig EXCEPT !.section = TRUE],
                 [section |-> TRUE, id |-> AccountId, secret |-> AccountSecret]}
    /\ cli = [p \in Procs |-> [pc |-> "idle", cmd |-> "none",
                               parser |-> EmptyConfig, ret |-> "idle",
                               id |-> NONE, secret |-> NONE,
                               before |-> <<NONE, NONE>>, outcome |-> "none"]]
    /\ dccops \in DccOpsDirs
    /\ expected = PairOf(file)
    /\ interrupts = 0

\* A command starts: it will build ICGCStorageSettings(SETTINGS_FILENAME).
Start(p, cmd, id, secret) ==
    cli' = [cli EXCEPT ![p] = [@ EXCEPT !.pc = "construct", !.cmd = cmd,
                                        !.id = id, !.secret = secret,
                                        !.before = PairOf(file),
                                        !.outcome = "none"]]

\* p's command ends with result.
Done(p, result) ==
    cli' = [cli EXCEPT ![p].pc = "idle", ![p].outcome = result]

\* The step of each command once its settings object is built.
AfterConstruct(cmd) == IF cmd = "delete" THEN "connect" ELSE "setId"

\* save-access-keys S3_ACCESS_ID S3_SECRET_KEY
SaveAccessKeys(p) ==
    /\ cli[p].pc = "idle"
    /\ \E id, secret \in Keys : Start(p, "save", id, secret)
    /\ UNCHANGED <<file, dccops, expected, interrupts>>

\* load-dccops-settings DIR: DCCOpsSettings(DIR) reads the three .env
\* files; an IOError is reported, a ValueError is not caught.  The two
\* boardwalk values are looked up later, after the settings are built.
LoadDccOpsSettings(p) ==
    LET env == DCCOpsSettings(dccops) IN
    /\ cli[p].pc = "idle"
    /\ CASE env.err = "IOError" ->
              cli' = [cli EXCEPT ![p].cmd = "load", ![p].before = PairOf(file),
                                 ![p].outcome = "ioError"]
         [] env.err = "ValueError" ->
              cli' = [cli EXCEPT ![p].cmd = "load", ![p].before = PairOf(file),
                                 ![p].outcome = "crashed"]
         [] OTHER ->
              Start(p, "load", get_env_var(env.vars, "boardwalk", AccessIdName),
                               get_env_var(env.vars, "boardwalk", SecretKeyName))
    /\ UNCHANGED <<file, dccops, expected, interrupts>>

\* icgc-delete BUCKET FILE_UUID: ICGCBucketDeleter(BUCKET, settings).
IcgcDeleteConnect(p) ==
    /\ cli[p].pc = "idle"
    /\ Start(p, "delete", NONE, NONE)
    /\ UNCHANGED <<file, dccops, expected, interrupts>>

\* Mutation: _init_sections not called for an existing file.
ConstructNoInitSections(p) ==
    LET c == cli[p] IN
    /\ c.pc = "construct"
    /\ IF file # NONE
       THEN /\ cli' = [cli EXCEPT ![p].parser = file, ![p].pc = AfterConstruct(c.cmd)]
            /\ UNCHANGED file
       ELSE /\ file' = EmptyConfig
            /\ cli' = [cli EXCEPT ![p].parser = [EmptyConfig EXCEPT !.section = TRUE],
                                  ![p].pc = "truncate", ![p].ret = "reread"]
    /\ UNCHANGED <<dccops, expected, interrupts>>

\* ICGCStorageSettings.__init__: an existing file is read and, without the
\* AWS_KEYS section, the section is added and written (_init_sections);
\* a missing one is created empty (_create) and then given the section,
\* after which the file is read again into the parser.
Construct(p) ==
    LET c == cli[p] IN
    /\ c.pc = "construct"
    /\ CASE file # NONE /\ file.section ->
              /\ cli' = [cli EXCEPT ![p].parser = file,
                                    ![p].pc = AfterConstruct(c.cmd)]
              /\ UNCHANGED file
         [] file # NONE ->
              /\ cli' = [cli EXCEPT ![p].parser = [file EXCEPT !.section = TRUE],
                                    ![p].pc = "truncate",
                                    ![p].ret = AfterConstruct(c.cmd)]
              /\ UNCHANGED file
         [] OTHER ->
              /\ file' = EmptyConfig
              /\ cli' = [cli EXCEPT ![p].parser = [EmptyConfig EXCEPT !.section = TRUE],
                                    ![p].pc = "truncate", ![p].ret = "reread"]
    /\ UNCHANGED <<dccops, expected, interrupts>>

\* config_parser.read(file) after _create: what the file holds now is
\* merged over the parser.
Reread(p) ==
    LET c == cli[p] IN
    /\ c.pc = "reread"
    /\ cli' = [cli EXCEPT ![p].parser =
                   [section |-> c.parser.section \/ file.section,
                    id      |-> IF file.id # NONE THEN file.id ELSE c.parser.id,
                    secret  |-> IF file.secret # NONE THEN file.secret
                                ELSE c.parser.secret],
                          ![p].pc = AfterConstruct(c.cmd)]
    /\ UNCHANGED <<file, dccops, expected, interrupts>>

\* open(self.filename, 'w'): the file is emptied.
Truncate(p) ==
    /\ cli[p].pc = "truncate"
    /\ file' = EmptyConfig
    /\ cli' = [cli EXCEPT ![p].pc = "flush"]
    /\ UNCHANGED <<dccops, expected, interrupts>>

\* config_parser.write(f) and close: the whole parser lands in the file.
\* The last write of save-access-keys or load-dccops-settings ends the
\* command, which reports success.
Flush(p) ==
    LET c == cli[p] IN
    /\ c.pc = "flush"
    /\ file' = c.parser
    /\ IF c.ret = "idle"
       THEN /\ Done(p, "saved")
            /\ expected' = <<c.id, c.secret>>
       ELSE /\ cli' = [cli EXCEPT ![p].pc = c.ret]
            /\ UNCHANGED expected
    /\ UNCHANGED <<dccops, interrupts>>

\* set_access_id(value) -> _update_setting: set the option, write the
\* file.  For load-dccops-settings the value comes from get_env_var, whose
\* KeyError is not caught; set() raises NoSectionError, not caught either,
\* when the parser has no AWS_KEYS section.
SetAccessId(p) ==
    LET c == cli[p] IN
    /\ c.pc = "setId"
    /\ IF c.id = NONE \/ ~c.parser.section
       THEN Done(p, "crashed")
       ELSE cli' = [cli EXCEPT ![p].parser.id = c.id, ![p].pc = "truncate",
                               ![p].ret = "setSecret"]
    /\ UNCHANGED <<file, dccops, expected, interrupts>>

\* Mutation: set_secret_key updates option_name_access_id (copy-paste).
SetSecretKeyWrongOption(p) ==
    LET c == cli[p] IN
    /\ c.pc = "setSecret"
    /\ IF c.secret = NONE
       THEN Done(p, "crashed") /\ expected' = NONE
       ELSE /\ cli' = [cli EXCEPT ![p].parser.id = c.secret,
                                  ![p].pc = "truncate", ![p].ret = "idle"]
            /\ UNCHANGED expected
    /\ UNCHANGED <<file, dccops, interrupts>>

\* set_secret_key(value): as set_access_id, for the secret key option.
SetSecretKey(p) ==
    LET c == cli[p] IN
    /\ c.pc = "setSecret"
    /\ IF c.secret = NONE
       THEN Done(p, "crashed") /\ expected' = NONE
       ELSE /\ cli' = [cli EXCEPT ![p].parser.secret = c.secret,
                                  ![p].pc = "truncate", ![p].ret = "idle"]
            /\ UNCHANGED expected
    /\ UNCHANGED <<file, dccops, interrupts>>

\* has_valid_keys: both options are set in the AWS_KEYS section.
has_valid_keys(k) == k.id # NONE /\ k.secret # NONE

\* ICGCBucketDeleter.__init__: without both options has_valid_keys fails
\* (ICGCDInvalidConfigFileError); get_bucket(validate=True) raises
\* S3ResponseError unless the account accepts the pair.  Both are reported.
Connect(p) ==
    LET k == cli[p].parser IN
    /\ cli[p].pc = "connect"
    /\ Done(p, CASE ~has_valid_keys(k) -> "invalidConfig"
                 [] <<k.id, k.secret>> = <<AccountId, AccountSecret>> -> "connected"
                 [] OTHER -> "s3Error")
    /\ UNCHANGED <<file, dccops, expected, interrupts>>

\* save-access-keys or load-dccops-settings has begun writing its keys:
\* set_access_id's write or anything after it.
KeysWriteStarted(c) ==
    \/ c.pc = "setSecret"
    \/ c.pc \in {"truncate", "flush"} /\ c.ret \in {"setSecret", "idle"}

\* KeyboardInterrupt (Ctrl-C) or a kill while p's command runs: run_cli
\* catches neither.  The file keeps what the last write or truncation
\* left: between open(..., 'w') and the write it is empty.
Interrupt(p) ==
    /\ cli[p].pc # "idle"
    /\ interrupts < MaxInterrupts
    /\ interrupts' = interrupts + 1
    /\ Done(p, "interrupted")
    /\ expected' = IF KeysWriteStarted(cli[p]) THEN NONE ELSE expected
    /\ UNCHANGED <<file, dccops>>

Next ==
    \E p \in Procs :
        \/ SaveAccessKeys(p)
        \/ LoadDccOpsSettings(p)
        \/ IcgcDeleteConnect(p)
        \/ Construct(p)
        \/ Reread(p)
        \/ Truncate(p)
        \/ Flush(p)
        \/ SetAccessId(p)
        \/ SetSecretKey(p)
        \/ Connect(p)
        \/ Interrupt(p)

Spec == Init /\ [][Next]_vars

(***************************************************************************)
(* Properties                                                              *)
(***************************************************************************)

Quiescent == \A p \in Procs : cli[p].pc = "idle"

\* spec.md section 8: once save-access-keys (or load-dccops-settings) has
\* reported success, the settings file holds exactly the pair it saved
\* until another command saves a pair; building the settings in another
\* invocation (icgc-delete) never loses it.
SavedKeysPersist ==
    Quiescent /\ expected # NONE => PairOf(file) = expected

\* spec.md section 4.4: save-access-keys "always succeeds or raises on I/O
\* failure".  Every save-access-keys that has ended reported success
\* unless it was interrupted, whatever the file held when it began:
\* missing, empty because an interrupted write truncated it, or without
\* the AWS_KEYS section.  ICGCStorageSettings.__init__ (_create,
\* _init_sections) must give the parser the section that set() needs.
SaveCompletesUnlessInterrupted ==
    \A p \in Procs :
        cli[p].cmd = "save" /\ cli[p].pc = "idle" /\ cli[p].outcome # "none"
            => cli[p].outcome \in {"saved", "interrupted"}

\* spec.md sections 4.4 and 8: a load-dccops-settings that fails leaves
\* the settings as they were.  Stated for the last command of each
\* invocation, so it is checked with one invocation at a time.
FailedImportLeavesSettings ==
    Quiescent =>
        \A p \in Procs :
            cli[p].cmd = "load" /\ cli[p].outcome \in {"ioError", "crashed"}
                => PairOf(file) = cli[p].before

=============================================================================
