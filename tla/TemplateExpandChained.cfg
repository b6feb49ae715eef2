CONSTANTS
    A = A
    B = B
    NONE = NONE
    EnvNames <- MCEnvNames
    Inputs <- MCInputs
    Envs <- MCEnvs
    Pythons = {"py2", "py3"}
SPECIFICATION Spec
INVARIANT PlaceholdersExpandedOnce
\* main runs once and returns or raises: the model stops there.
CHECK_DEADLOCK FALSE
