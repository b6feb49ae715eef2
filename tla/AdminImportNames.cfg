\* delete.py started against the repository's defaults.py.
CONSTANTS
    DefaultsNames <- MCDefaultsNames
SPECIFICATION Spec
INVARIANT CommandsResolveDefaults
