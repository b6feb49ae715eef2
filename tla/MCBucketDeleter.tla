-------------------------- MODULE MCBucketDeleter --------------------------
(* Model-checking instance of BucketDeleter: the constants the .cfg files  *)
(* give values to, and the symmetry of uuids and invocations.              *)
EXTENDS BucketDeleter, TLC

CONSTANTS u1, u2, u3, p1, p2

MCUuids == {u1, u2, u3}
MCOneProc == {p1}
MCTwoProcs == {p1, p2}

Symmetry == Permutations(MCUuids)

=============================================================================
