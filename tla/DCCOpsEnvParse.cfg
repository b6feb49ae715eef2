\* Every dcc-ops directory of MCDCCOpsDirs, compared with the spec's importer.
CONSTANTS
    k1 = k1
    k2 = k2
    NONE = NONE
    EnvNames <- MCEnvNames
    EnvValues <- MCKeys
SPECIFICATION Spec
INVARIANT ImportMatchesSpec
