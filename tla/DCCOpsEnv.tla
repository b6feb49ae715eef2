----------------------------- MODULE DCCOpsEnv -----------------------------
(***************************************************************************)
(* DCCOpsSettings of scripts/admin/delete.py: the .env file of each of     *)
(* three dcc-ops sub-directories is read line by line; a line with an "="  *)
(* is split at "=" into a name and a value and stored as                   *)
(* "<repo>.<name>".  A line is abstracted to how many "=" it holds, the    *)
(* name before the first and the text after it; a directory to the lines  *)
(* of each sub-directory's .env file, or NONE where that file is missing.  *)
(***************************************************************************)
EXTENDS Naturals, Sequences, TLC

CONSTANTS
    EnvNames,    \* variable names appearing in the .env files
    EnvValues,   \* the text after the first "=" of a line
    NONE

\* DCCOpsRepo and the sub-directory each is read from (defaults.py).
Repos == <<"boardwalk", "action_service", "redwood">>
SubDir == [r \in {"boardwalk", "action_service", "redwood"} |->
             IF r = "action_service" THEN "action" ELSE r]

Line == [eqs : 0..2, name : EnvNames, value : EnvValues]

\* The outcome of reading: the exception raised ("none" if none) and the
\* variables gathered, a function from <<repo, name>> to value.
Result(err, vars) == [err |-> err, vars |-> vars]

\* _sync_settings over the remaining lines of one file: a line without "="
\* is skipped; `var_name, var_setting = setting.split('=')` stores one with
\* exactly one "=", later lines overwriting earlier ones, and raises
\* ValueError (too many values to unpack) for a line with more.
RECURSIVE SyncLines(_, _, _)
SyncLines(vars, repo, lines) ==
    IF lines = <<>> THEN Result("none", vars)
    ELSE LET l == Head(lines) IN
         CASE l.eqs = 0 -> SyncLines(vars, repo, Tail(lines))
           [] l.eqs = 1 -> SyncLines((<<repo, l.name>> :> l.value) @@ vars,
                                     repo, Tail(lines))
           [] OTHER     -> Result("ValueError", vars)

\* DCCOpsSettings.__init__: the three repos in order; open() of a missing
\* .env raises IOError, and the first error ends the import.
RECURSIVE SyncRepos(_, _, _)
SyncRepos(vars, dir, i) ==
    IF i > Len(Repos) THEN Result("none", vars)
    ELSE LET repo == Repos[i] IN
         IF dir[SubDir[repo]] = NONE THEN Result("IOError", vars)
         ELSE LET next == SyncLines(vars, repo, dir[SubDir[repo]]) IN
              IF next.err # "none" THEN next
              ELSE SyncRepos(next.vars, dir, i + 1)

DCCOpsSettings(dir) == SyncRepos(<<>>, dir, 1)

\* Mutation: the "<repo>.<name>" key returned in place of its value.
get_env_var_KeyNotValue(vars, repo, name) ==
    IF <<repo, name>> \in DOMAIN vars THEN name ELSE NONE

\* get_env_var: the value of "<repo>.<name>", or NONE where the lookup
\* raises KeyError.
get_env_var(vars, repo, name) ==
    IF <<repo, name>> \in DOMAIN vars THEN vars[<<repo, name>>] ELSE NONE

(***************************************************************************)
(* The contract of spec.md section 4.2: the first "=" splits a line, so a  *)
(* value may itself hold "="; lines without "=" are ignored, later         *)
(* duplicates overwrite, and only a missing file fails the import.         *)
(***************************************************************************)
RECURSIVE SpecLines(_, _, _)
SpecLines(vars, repo, lines) ==
    IF lines = <<>> THEN vars
    ELSE LET l == Head(lines) IN
         IF l.eqs = 0 THEN SpecLines(vars, repo, Tail(lines))
         ELSE SpecLines((<<repo, l.name>> :> l.value) @@ vars, repo, Tail(lines))

SpecImport(dir) ==
    IF \E r \in DOMAIN SubDir : dir[SubDir[r]] = NONE THEN Result("IOError", <<>>)
    ELSE LET bw == SpecLines(<<>>, "boardwalk", dir["boardwalk"])
             ac == SpecLines(bw, "action_service", dir["action"])
         IN Result("none", SpecLines(ac, "redwood", dir["redwood"]))

=============================================================================
