-------------------------- MODULE MCNodeTxExecutor --------------------------
(* Two writes on two store nodes; the throwables are the ones the tests of  *)
(* patches/0002 make their sessions throw.                                  *)
EXTENDS NodeTxExecutor

CONSTANTS e1, e2, s1, s2

MCEntries  == {e1, e2}
MCSessions == {s1, s2}

\* RuntimeException(HgStoreClientException(status)), a bare status, and an
\* interrupt.
TestThrowables == {<<"plain", "plain">>, <<"plain", "plain", "deadline">>,
                   <<"cancelled">>, <<"plain", "interrupted">>}

Ended == pc = "done" /\ UNCHANGED vars
MCSpec == Init /\ [][Next \/ Ended]_vars
============================================================================
