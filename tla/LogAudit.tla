------------------------------ MODULE LogAudit ------------------------------
(***************************************************************************)
(* What harvest.py promises (spec.md 4.5, 8): each rotated log of a host   *)
(* is uploaded to the audit bucket under that host's instance, and only a  *)
(* log whose upload is in place is moved out of the log directory into     *)
(* archive/.  An upload, once made, stays: no other host's log takes its   *)
(* key.  Harvester is checked to implement this specification.             *)
(***************************************************************************)
CONSTANTS
    Hosts,       \* machines running the harvester
    Names        \* names of rotated logs

VARIABLES
    pending,     \* pending[h]: h's logs still in its log directory
    uploaded,    \* uploaded[h]: h's logs whose audit object holds them
    archived     \* archived[h]: h's logs moved into archive/

vars == <<pending, uploaded, archived>>

Init ==
    /\ pending \in [Hosts -> SUBSET Names]
    /\ uploaded = [h \in Hosts |-> {}]
    /\ archived = [h \in Hosts |-> {}]

\* The logger writes a log of a new name.
Rotate(h, f) ==
    /\ f \notin pending[h] \cup uploaded[h] \cup archived[h]
    /\ pending' = [pending EXCEPT ![h] = @ \cup {f}]
    /\ UNCHANGED <<uploaded, archived>>

\* put_object(Key=instance + '/' + fname).
Upload(h, f) ==
    /\ f \in pending[h] \ uploaded[h]
    /\ uploaded' = [uploaded EXCEPT ![h] = @ \cup {f}]
    /\ UNCHANGED <<pending, archived>>

\* shutil.move(p, backup), of an uploaded log only.
Archive(h, f) ==
    /\ f \in pending[h] \cap uploaded[h]
    /\ pending' = [pending EXCEPT ![h] = @ \ {f}]
    /\ archived' = [archived EXCEPT ![h] = @ \cup {f}]
    /\ UNCHANGED uploaded

Next == \E h \in Hosts, f \in Names : Rotate(h, f) \/ Upload(h, f) \/ Archive(h, f)

Spec == Init /\ [][Next]_vars

=============================================================================
