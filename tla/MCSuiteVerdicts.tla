--------------------------- MODULE MCSuiteVerdicts ---------------------------
(* TLC instance: five sections, two runs, lists of one id or twice that id. *)
EXTENDS SuiteVerdicts

\* S: a query under a repeated name.  L: two tiles and their union.  P: the
\* pair of slices of L and the repeated query of K, on their own to keep the
\* instance small.  J: a plan and a ~page loop of hg_j8.  K: the K5 requests.
MCOrder == <<"S", "L", "P", "J", "K">>
Req(kind, title) == [ask |-> kind, name |-> title]
MCSteps == [s \in {"S", "L", "P", "J", "K"} |->
    CASE s = "S" -> <<Req("query", "age"), Req("query", "age")>>
      [] s = "L" -> <<Req("tile", "range 0"), Req("tile", "range 1"), Req("union", "tiles")>>
      [] s = "P" -> <<Req("disjoint", "pair"), Req("repeat", "x10")>>
      [] s = "J" -> <<Req("plan", "neq"), Req("pages", "size=7")>>
      [] s = "K" -> <<Req("baseline", "baseline"), Req("script", "K5"),
                      Req("again", "after commit"),
                      Req("again", "after commit [2nd run/cache]"), Req("cleanup", "none")>>]
MCTitles == UNION {{MCSteps[s][k].name : k \in DOMAIN MCSteps[s]} : s \in DOMAIN MCSteps}
MCSelections == {{"S"}, {"L"}, {"P"}, {"J"}, {"K"}, {"S", "L"}}
One == [x \in {"a"} |-> 1]
Two == [x \in {"a"} |-> 2]
MCAnswers == {One, Two}
MCGold == [x \in {"a"} |-> 1]
MCFresh == [x \in {"fx"} |-> 2]

\* The last run is over and no late script is left.
Ended == pc = "idle" /\ runs = MaxRuns /\ (\A b \in Backends : ~late[b]) /\ UNCHANGED vars
MCSpec == Init /\ [][Next \/ Ended]_vars
=============================================================================
