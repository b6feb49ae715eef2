------------------------- MODULE MCTemplateExpand -------------------------
EXTENDS TemplateExpand, TLC

CONSTANTS A, B

MCEnvNames == {A, B}
\* Lines of up to two tokens: plain text and the two placeholders.
MCLines == UNION {[1..k -> {"q", A, B}] : k \in 0..2}
\* Input files of one or two such lines.
MCInputs == UNION {[1..k -> MCLines] : k \in 1..2}
\* Values: plain text, each escape re.sub treats differently, a trailing
\* backslash, and values holding a placeholder (escaped or not).
MCValues == {<<"q">>, <<"\\", "n">>, <<"\\", "\\">>, <<"\\", "1">>,
             <<"\\", "q">>, <<"\\">>, <<A>>, <<B>>, <<"\\", B>>}
MCEnvs == [MCEnvNames -> MCValues \cup {NONE}]
=============================================================================
