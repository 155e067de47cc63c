--------------------------- MODULE MCTestSession ---------------------------
EXTENDS TestSession

MCCases == 1..3

\* A timeout, an error of the command line mod, a crash without and one with an
\* exit code, and a failure the strategy takes for fatal.
MCFailures ==
    [type : {"timeout"}, code : {0}, p0 : {FALSE}]
        \cup [type : {"adapter"}, code : {1}, p0 : BOOLEAN]
        \cup [type : {"crash"}, code : {0, 1}, p0 : {FALSE}]
=============================================================================
