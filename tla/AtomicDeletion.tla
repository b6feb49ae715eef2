--------------------------- MODULE AtomicDeletion ---------------------------
(***************************************************************************)
(* What the admin tool's delete promises (delete.py, ICGCBucketDeleter     *)
(* docstring and delete_file docstring): deleting a file that is in the    *)
(* bucket removes it and records its uuid on the redacted list, as one     *)
(* indivisible step; deleting a file that is not there changes nothing.    *)
(* BucketDeleter is checked to implement this specification.               *)
(***************************************************************************)
EXTENDS Sequences, Functions

CONSTANT Uuids       \* file uuids that may be stored under data/

VARIABLES
    stored,          \* uuids whose object data/<uuid> is in the bucket
    redacted         \* the lines of the redacted list, oldest first

vars == <<stored, redacted>>

\* A redacted list only ever names files that are gone, each once.
Init ==
    /\ stored \subseteq Uuids
    /\ redacted \in Seq(Uuids)
    /\ IsInjective(redacted)
    /\ \A i \in DOMAIN redacted : redacted[i] \notin stored

\* Deleting a present file removes it and appends its uuid, together.
Delete(u) ==
    /\ u \in stored
    /\ stored' = stored \ {u}
    /\ redacted' = Append(redacted, u)

Next == \E u \in Uuids : Delete(u)

Spec == Init /\ [][Next]_vars

=============================================================================
