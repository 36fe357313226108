---------------------------- MODULE MCSmtpServer ----------------------------
EXTENDS SmtpServer, TLC

CONSTANTS c1, c2, c3

MCConns == {c1, c2, c3}

\* Shutdown only.
MCCallsShutdown == {<<"Shutdown">>}
\* Shutdown only, or Close only.
MCCallsOne == {<<"Shutdown">>, <<"Close">>}

MCSymmetry == Permutations(MCConns)
====
