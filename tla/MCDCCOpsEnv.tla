---------------------------- MODULE MCDCCOpsEnv ----------------------------
(* DCCOpsSettings checked against the contract of spec.md section 4.2     *)
(* over the directories of MCDCCOpsDirs, one directory per initial state. *)
EXTENDS MCDCCOpsDirs

VARIABLE dir

Init == dir \in MCAllDirs
Next == UNCHANGED dir
Spec == Init /\ [][Next]_dir

\* Reading a directory with DCCOpsSettings fails exactly when the spec's
\* importer fails (a missing .env) and otherwise yields the same
\* namespaced variables: the split at the first "=" of each line.
ImportMatchesSpec ==
    LET code == DCCOpsSettings(dir)
        spec == SpecImport(dir)
    IN /\ code.err = spec.err
       /\ code.err = "none" => code.vars = spec.vars

=============================================================================
