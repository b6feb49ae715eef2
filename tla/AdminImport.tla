---------------------------- MODULE AdminImport ----------------------------
(***************************************************************************)
(* Start-up of scripts/admin/delete.py: `import defaults`, then the class  *)
(* bodies and def statements run, reading attributes of defaults; then     *)
(* run_cli dispatches one command, whose code reads more of them.  An      *)
(* attribute defaults.py does not define raises AttributeError.            *)
(***************************************************************************)
EXTENDS FiniteSets

CONSTANT DefaultsNames   \* the names defaults.py assigns

VARIABLES
    pc,    \* "start", "loaded", "done" or "AttributeError"
    cmd    \* the sub-command run_cli dispatched, or "none"

vars == <<pc, cmd>>

\* defaults.<name> read while delete.py is imported: the class attributes
\* of ICGCStorageSettings and the default argument of _sync_settings.
ImportRefs == {"CONFIG_SECTION_AWS_KEYS", "DCCOps_OPTION_NAME_ACCESS_ID",
               "DCCOps_OPTION_NAME_SECRET_KEY", "DCCOps_ENV_FILENAME"}

\* defaults.<name> read by the code each sub-command runs.
CommandRefs ==
    [save   |-> {"SETTINGS_FILENAME", "CONFIG_SECTION_AWS_KEYS"},
     delete |-> {"SETTINGS_FILENAME", "CONFIG_SECTION_AWS_KEYS",
                 "METADATA_FILE_ROOT_FOLDER", "REDACTED_LIST_FILENAME"},
     load   |-> {"SETTINGS_FILENAME", "CONFIG_SECTION_AWS_KEYS",
                 "DCCOps_BOARDWALK_SUB_DIR", "DCCOps_ACTION_SERVICE_SUB_DIR",
                 "DCCOps_REDWOOD_SUB_DIR", "DCCOps_OPTION_NAME_ACCESS_ID",
                 "DCCOps_OPTION_NAME_SECRET_KEY"}]

Resolves(refs) == refs \subseteq DefaultsNames

Init == pc = "start" /\ cmd = "none"

\* import delete (python delete.py ...): module body up to run_cli().
ImportModule ==
    /\ pc = "start"
    /\ pc' = IF Resolves(ImportRefs) THEN "loaded" ELSE "AttributeError"
    /\ UNCHANGED cmd

\* run_cli(): one sub-command, parsed by argparse.
RunCommand ==
    /\ pc = "loaded"
    /\ \E c \in DOMAIN CommandRefs :
         /\ cmd' = c
         /\ pc' = IF Resolves(CommandRefs[c]) THEN "done" ELSE "AttributeError"

Next == ImportModule \/ RunCommand

Spec == Init /\ [][Next]_vars

\* Every sub-command of the admin tool gets past resolving the constants it
\* takes from defaults.py (spec.md section 4.4 describes all three working).
CommandsResolveDefaults == pc # "AttributeError"

=============================================================================
