--------------------------- MODULE MCDCCOpsDirs ---------------------------
(* dcc-ops directories for the model-checking runs: two key values and    *)
(* .env files covering each way the import can go.                        *)
EXTENDS DCCOpsEnv

CONSTANTS k1, k2

MCKeys == {k1, k2}
MCEnvNames == {"aws_access_key_id", "aws_secret_access_key", "other"}

EnvLine(eqs, name, v) == [eqs |-> eqs, name |-> name, value |-> v]
IdLine(v) == EnvLine(1, "aws_access_key_id", v)
SecretLine(v) == EnvLine(1, "aws_secret_access_key", v)
CommentLine == EnvLine(0, "other", k1)
\* e.g. DATABASE_URL=postgres://host/db?sslmode=require
TwoEqualsLine == EnvLine(2, "other", k1)

Dir(bw, ac, rw) == [boardwalk |-> bw, action |-> ac, redwood |-> rw]
\* Both keys, the account's pair.
GoodDir == Dir(<<CommentLine, IdLine(k1), SecretLine(k2)>>, <<>>, <<>>)
\* The redwood .env is missing.
MissingFileDir == Dir(<<IdLine(k1), SecretLine(k2)>>, <<>>, NONE)
\* The action .env has a value containing "=".
TwoEqualsDir == Dir(<<IdLine(k1), SecretLine(k2)>>, <<TwoEqualsLine>>, <<>>)
\* Boardwalk sets the access id but not the secret key.
IdOnlyDir == Dir(<<IdLine(k2)>>, <<>>, <<>>)
\* A later duplicate overrides an earlier one.
DuplicateDir == Dir(<<IdLine(k2), SecretLine(k2), IdLine(k1)>>, <<>>, <<>>)

MCAllDirs == {GoodDir, MissingFileDir, TwoEqualsDir, IdOnlyDir, DuplicateDir}
MCGoodDirs == {GoodDir}

=============================================================================
