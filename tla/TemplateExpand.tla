--------------------------- MODULE TemplateExpand ---------------------------
(***************************************************************************)
(* score-server-docker/tools/expand.py: copy a template file line by line, *)
(* replacing each ${NAME} by the value of NAME in the environment, and     *)
(* raise at the end if any NAME was not defined.                           *)
(*                                                                         *)
(* A line, and a value, is a sequence of tokens: a character of Chars, or  *)
(* a name N of EnvNames, standing for the text "${N}".  Chars holds the    *)
(* characters re.sub gives a meaning to in a replacement ("\\", "n", "1")  *)
(* and one it does not ("q"); "NL" is a newline put into a line.  No       *)
(* character of Chars is "$", "{" or "}", so placeholders are only formed  *)
(* by name tokens.                                                         *)
(***************************************************************************)
EXTENDS Naturals, Sequences, SequencesExt

CONSTANTS
    EnvNames,   \* variable names; the token N is the text ${N}
    Inputs,     \* input files: sequences of lines
    Envs,       \* environments: [EnvNames -> values \cup {NONE}]
    Pythons,    \* interpreters the script may run under: "py2", "py3"
    NONE

Chars == {"q", "n", "1", "\\"}
Tokens == Chars \cup EnvNames \cup {"NL"}

VARIABLES
    input,    \* the input file (NONE: it does not exist)
    env,      \* os.environ
    py,       \* the interpreter
    ins,      \* the lines of the input still to read
    out,      \* the output file (NONE: not opened)
    missing,  \* has_missing_env_vars
    status    \* "start", "running", or how main ended

vars == <<input, env, py, ins, out, missing, status>>

\* ENV_PATTERN.findall(line): the names of the line's placeholders, in
\* order, repeats included.
extract_env_vars(line) == SelectSeq(line, LAMBDA t : t \in EnvNames)

\* does_env_exist(N)
does_env_exist(e, n) == e[n] # NONE

\* re.sub's processing of the replacement string (sre_parse.parse_template):
\* "\n" is a newline, "\\" a backslash, "\1" a group the pattern does not
\* have (re.error), a trailing "\" is re.error, "\q" is kept under Python 2
\* and re.error under Python 3.7+, and "\" before "$" is kept.
RECURSIVE Template(_, _)
Template(v, p) ==
    LET Ok(s) == [err |-> FALSE, text |-> s]
        Err == [err |-> TRUE, text |-> <<>>]
        With(prefix, r) == IF r.err THEN r ELSE Ok(prefix \o r.text)
    IN
    IF v = <<>> THEN Ok(<<>>)
    ELSE IF Head(v) # "\\" THEN With(<<Head(v)>>, Template(Tail(v), p))
    ELSE IF Len(v) = 1 THEN Err
    ELSE LET c == v[2]
             rest == Template(Tail(Tail(v)), p)
         IN CASE c = "n"  -> With(<<"NL">>, rest)
              [] c = "\\" -> With(<<"\\">>, rest)
              [] c = "1"  -> Err
              [] c = "q"  -> IF p = "py2" THEN With(<<"\\", "q">>, rest) ELSE Err
              [] OTHER    -> With(<<"\\", c>>, rest)

\* re.sub(r'\${N}', repl, line) with repl already processed: every
\* occurrence of ${N} replaced, the result not scanned again.
Sub(line, n, repl) ==
    FlattenSeq([i \in DOMAIN line |-> IF line[i] = n THEN repl ELSE <<line[i]>>])

\* The inner loop of main over the names found in the original line, each
\* substituted into the line as substituted so far.  err: re.error raised.
RECURSIVE SubstituteAll(_, _, _, _)
SubstituteAll(line, names, e, p) ==
    IF names = <<>> THEN [err |-> FALSE, line |-> line, missing |-> FALSE]
    ELSE LET n == Head(names) IN
         IF ~does_env_exist(e, n)
         THEN [SubstituteAll(line, Tail(names), e, p) EXCEPT !.missing = TRUE]
         ELSE LET t == Template(e[n], p) IN
              IF t.err THEN [err |-> TRUE, line |-> line, missing |-> FALSE]
              ELSE SubstituteAll(Sub(line, n, t.text), Tail(names), e, p)

Init ==
    /\ input \in Inputs \cup {NONE}
    /\ env \in Envs
    /\ py \in Pythons
    /\ ins = <<>>
    /\ out = NONE
    /\ missing = FALSE
    /\ status = "start"

\* main up to the loop: a missing input raises before the output is
\* touched; otherwise open(output_filename, 'w') empties the output.
Open ==
    /\ status = "start"
    /\ \/ /\ input = NONE
          /\ status' = "inputDNE"
          /\ UNCHANGED <<ins, out>>
       \/ /\ input # NONE
          /\ status' = "running"
          /\ ins' = input
          /\ out' = <<>>
    /\ UNCHANGED <<input, env, py, missing>>

\* Mutation: fail fast, raising at the first undefined name.
ExpandLineFailFast ==
    LET r == SubstituteAll(Head(ins), extract_env_vars(Head(ins)), env, py) IN
    /\ status = "running"
    /\ ins # <<>>
    /\ \/ /\ r.err
          /\ status' = "reError"
          /\ UNCHANGED <<ins, out, missing>>
       \/ /\ ~r.err
          /\ out' = Append(out, r.line)
          /\ ins' = Tail(ins)
          /\ missing' = (missing \/ r.missing)
          /\ status' = IF r.missing THEN "raised" ELSE status
    /\ UNCHANGED <<input, env, py>>

\* One iteration of `for line in ins`: an uncaught re.error ends main
\* before the line is written; otherwise the line is written and an
\* undefined name is remembered.
ExpandLine ==
    LET r == SubstituteAll(Head(ins), extract_env_vars(Head(ins)), env, py) IN
    /\ status = "running"
    /\ ins # <<>>
    /\ \/ /\ r.err
          /\ status' = "reError"
          /\ UNCHANGED <<ins, out, missing>>
       \/ /\ ~r.err
          /\ out' = Append(out, r.line)
          /\ ins' = Tail(ins)
          /\ missing' = (missing \/ r.missing)
          /\ UNCHANGED status
    /\ UNCHANGED <<input, env, py>>

\* fo.close(), then raise if a name was undefined.
Finish ==
    /\ status = "running"
    /\ ins = <<>>
    /\ status' = IF missing THEN "raised" ELSE "done"
    /\ UNCHANGED <<input, env, py, ins, out, missing>>

Next == Open \/ ExpandLine \/ Finish

Spec == Init /\ [][Next]_vars

(***************************************************************************)
(* spec.md 4.6: each ${NAME} of the input with a value is replaced by the  *)
(* literal value, the others are left as they are.                         *)
(***************************************************************************)
SpecExpandLine(line, e) ==
    FlattenSeq([i \in DOMAIN line |->
                  IF line[i] \in EnvNames /\ does_env_exist(e, line[i])
                  THEN e[line[i]] ELSE <<line[i]>>])

Undefined(line, e) == {line[i] : i \in {j \in DOMAIN line : line[j] \in EnvNames}}
                        \ {n \in EnvNames : does_env_exist(e, n)}

\* main returned or raised after reading the whole of an existing input.
Ended == status \in {"done", "raised", "reError"}

(***************************************************************************)
(* Properties                                                              *)
(***************************************************************************)

\* Fail at end: once main has got past the loop, every input line was
\* written, main raised exactly when some placeholder of the input was
\* undefined, and each undefined placeholder is left in its line.
\* About the has_missing_env_vars flag and the loop going on past an
\* undefined name.
FailAtEnd ==
    status \in {"done", "raised"} =>
        /\ Len(out) = Len(input)
        /\ (status = "raised") <=>
              (\E i \in DOMAIN input : Undefined(input[i], env) # {})
        /\ \A i \in DOMAIN input : \A n \in Undefined(input[i], env) :
              \E j \in DOMAIN out[i] : out[i][j] = n

\* Values are copied literally: where no value holds a placeholder, the
\* output is the spec's literal substitution and the script does not fail
\* on a value.  About re.sub taking the value as a replacement template.
ValuesCopiedLiterally ==
    (Ended /\ \A n \in EnvNames : env[n] = NONE \/ extract_env_vars(env[n]) = <<>>)
        => /\ status # "reError"
           /\ out = [i \in DOMAIN input |-> SpecExpandLine(input[i], env)]

\* Each placeholder is expanded once: where no value holds a backslash,
\* the output is the spec's single-pass substitution.  About substituting
\* the names one after another into the partly substituted line.
PlaceholdersExpandedOnce ==
    (Ended /\ \A n \in EnvNames : env[n] = NONE \/ \A i \in DOMAIN env[n] : env[n][i] # "\\")
        => out = [i \in DOMAIN input |-> SpecExpandLine(input[i], env)]

=============================================================================
