--------------------------- MODULE MCAdminImport ---------------------------
(* The names scripts/admin/defaults.py assigns, lines 5-18.               *)
EXTENDS AdminImport

MCDefaultsNames ==
    {"SETTINGS_FILENAME", "CONFIG_SECTION_AWS_KEYS",
     "DCCOPS_AWS_KEY_FILENAME", "DCCOPS_DEFAULT_CONFIG_SECTION",
     "DCCOPS_OPTION_NAME_ACCESS_ID", "DCCOPS_OPTION_NAME_SECRET_KEY",
     "DCCOPS_ENV_FILENAME", "DCCOPS_BOARDWALK_SUB_DIR",
     "DCCOPS_ACTION_SERVICE_SUB_DIR", "DCCOPS_REDWOOD_SUB_DIR",
     "METADATA_FILE_ROOT_FOLDER", "REDACTED_LIST_FILENAME"}

=============================================================================
