---------------------------- MODULE MCAdminCLI ----------------------------
(* Model-checking instance of AdminCLI: the keys and dcc-ops directories  *)
(* of MCDCCOpsDirs, the account accepting <<k1, k2>>, two files.          *)
EXTENDS AdminCLI, MCDCCOpsDirs

CONSTANTS p1, p2, u1, u2

MCOneProc == {p1}
MCUuids == {u1, u2}

=============================================================================
