-------------------------- MODULE MCAdminSettings --------------------------
(* Model-checking instance of AdminSettings: two keys, the account         *)
(* accepting <<k1, k2>>, and the dcc-ops directories of MCDCCOpsDirs.      *)
EXTENDS AdminSettings, MCDCCOpsDirs

CONSTANTS p1, p2

MCOneProc == {p1}
MCTwoProcs == {p1, p2}

=============================================================================
