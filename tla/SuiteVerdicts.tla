---------------------------- MODULE SuiteVerdicts ----------------------------
(***************************************************************************)
(* suite/hg_suite.py: one process at a time asks a server the queries of   *)
(* the selected sections, names every answer, classifies it inline against *)
(* an earlier report (run --expect) and dumps its own report; compare      *)
(* classifies two reports.  Section K writes to the graph and cleans up,   *)
(* so a run depends on what earlier runs of the same server left behind.   *)
(*                                                                         *)
(* What a query asks is data: Steps gives the requests of every section.   *)
(* An id list is a bag of ids, its md5 the bag itself.  suite/hg_j8.py uses *)
(* the same Report for execution plans and for ~page loops.                *)
(***************************************************************************)
EXTENDS Integers, Sequences, FiniteSets, Bags, FiniteSetsExt, SequencesExt

CONSTANTS
    Backends,    \* servers the suite is run against
    Titles,      \* names of queries
    Order,       \* the sections, in the order of SECTIONS
    Steps,       \* requests of each section, a sequence of [ask, name]
    Selections,  \* values of --sections, as sets
    Answers,     \* bags of ids a query may be answered with
    Gold,        \* bag of the ids COMBO_GOLD matches on the loaded data
    Fresh,       \* bag of the ids the K5 script adds and COMBO_GOLD matches
    MaxPages,    \* max_pages of a ~page loop
    MaxRuns      \* bound: runs of the suite

Kinds == {"query", "tile", "union", "disjoint", "repeat", "plan", "pages",
          "baseline", "script", "again", "cleanup"}

IsFiniteBag(bag) == IsABag(bag) /\ IsFiniteSet(BagToSet(bag))

ASSUME SuiteAssumption ==
    /\ MaxRuns \in Nat /\ MaxPages \in Nat \ {0}
    /\ \A a \in Answers \cup {Gold, Fresh} : IsFiniteBag(a)
    /\ \A s \in DOMAIN Steps : Steps[s] \in Seq([ask : Kinds, name : Titles])
    /\ Order \in Seq(DOMAIN Steps)
    /\ \A i, j \in DOMAIN Order : Order[i] = Order[j] => i = j

\* K5 comes as a whole: the script right after its baseline, and its cleanup
\* before another baseline.
ASSUME ScriptAssumption ==
    \A s \in DOMAIN Steps : \A k \in DOMAIN Steps[s] : Steps[s][k].ask = "script" =>
        /\ k > 1 /\ Steps[s][k - 1].ask = "baseline"
        /\ \E j \in DOMAIN Steps[s] : /\ j > k /\ Steps[s][j].ask = "cleanup"
                                     /\ \A m \in k..j : Steps[s][m].ask # "baseline"

VARIABLES
    pc,        \* "idle", "run" (asking) or "exit" (report dumped)
    backend,   \* server of this run
    todo,      \* requests still to be made
    cases,     \* Report.cases
    expect,    \* the report read by --expect, or NoReport
    tally,     \* Report.tally
    tiles,     \* ids of the range tiles so far, or Failed
    base,      \* size of the K5 baseline, or -1
    files,     \* reports on disk, of runs with --out that came to their end
    runs,      \* runs started
    fresh,     \* per server: the K5 vertices are in its graph
    late,      \* per server: a K5 script whose client gave up is still running
    lost       \* history, per server: a cleanup was lost or a script outlived its run

run    == <<pc, backend, todo, cases, expect, tally, tiles, base>>
server == <<fresh, late, lost>>
vars   == <<run, files, runs, server>>

Classes  == {"OK", "DUP", "MISMATCH", "TARGET-ERR", "ORACLE-ERR", "BOTH-ERR", "NEW"}
Failed   == [err |-> TRUE,  ids |-> EmptyBag]
Got(bag) == [err |-> FALSE, ids |-> bag]
NoReport == <<"none">>

----------------------------------------------------------------------------
(* Reports.                                                                *)

\* case: n, uniq and hash of an answer; scalar: all three are the value.  What a
\* step records is told apart by the part, a prefix or suffix of the name.
Case(step, part, answer) ==
    [key |-> <<step.sec, step.name, part, 1>>, asked |-> step,
     err |-> answer.err, ids |-> answer.ids,
     n |-> BagCardinality(answer.ids), uniq |-> Cardinality(BagToSet(answer.ids))]
Scalar(step, part, value) ==
    [key |-> <<step.sec, step.name, part, 1>>, asked |-> step,
     err |-> FALSE, ids |-> EmptyBag, n |-> value, uniq |-> value]

Keys(report) == {report[i].key : i \in DOMAIN report}

\* Mutant: a repeated name is left as it is.
Named_AsIs(report, rec) == rec

\* _name: the first free one of name, "name #2", "name #3" ...
Named(report, rec) ==
    LET copy(i) == <<rec.key[1], rec.key[2], rec.key[3], i>>
    IN  [rec EXCEPT !.key = copy(Min({i \in 1..Len(report) + 1 : copy(i) \notin Keys(report)}))]

\* A dict built from a report keeps the last case of a key.
Entry(report, key) == report[Max({i \in DOMAIN report : report[i].key = key})]

\* Mutant: repetitions are not compared.
SameSet_AsSets(o, t) == BagToSet(o.ids) = BagToSet(t.ids) /\ o.uniq = t.uniq

SameSet(o, t) == <<o.n, o.uniq, o.ids>> = <<t.n, t.uniq, t.ids>>

Classify(o, t) ==
    IF o.err /\ t.err THEN "BOTH-ERR"
    ELSE IF t.err THEN "TARGET-ERR"
    ELSE IF o.err THEN "ORACLE-ERR"
    ELSE IF SameSet(o, t) THEN "OK"
    ELSE IF t.n # t.uniq /\ o.n = o.uniq THEN "DUP" ELSE "MISMATCH"

\* _emit, for a case against the report of --expect.
InlineClass(rec) ==
    IF rec.key \in Keys(expect) THEN Classify(Entry(expect, rec.key), rec) ELSE "NEW"

\* compare: the number of rows of each class.
Compared(O, T) ==
    [c \in Classes \cup {"MISSING"} |->
        CASE c = "NEW"     -> Cardinality({j \in DOMAIN T : T[j].key \notin Keys(O)})
          [] c = "MISSING" -> Cardinality({i \in DOMAIN O : O[i].key \notin Keys(T)})
          [] OTHER         -> Cardinality({i \in DOMAIN O :
                                 /\ O[i].key \in Keys(T)
                                 /\ Classify(O[i], Entry(T, O[i].key)) = c})]

\* compare's exit status is 0.
Clean(O, T) == \A c \in Classes \cup {"MISSING"} : c # "OK" => Compared(O, T)[c] = 0

----------------------------------------------------------------------------
Init ==
    /\ pc = "idle" /\ backend \in Backends /\ todo = <<>>
    /\ cases = <<>> /\ expect = NoReport /\ tally = [c \in Classes |-> 0]
    /\ tiles = Got(EmptyBag) /\ base = -1
    /\ files = <<>> /\ runs = 0
    /\ fresh = [b \in Backends |-> FALSE]
    /\ late = [b \in Backends |-> FALSE]
    /\ lost = [b \in Backends |-> FALSE]

\* The requests of the selected sections, always in the order of SECTIONS.  (The
\* main of hg_j8.py runs its sections in the order of its argument, repetitions
\* included: of its runs only those are meant that name each section at most
\* once and in this one order, which is that of its default.)
Request(s, k) == [sec |-> s, no |-> k, ask |-> Steps[s][k].ask, name |-> Steps[s][k].name]
Section(s) == [k \in DOMAIN Steps[s] |-> Request(s, k)]
Programs(sel) ==
    LET upto[i \in 0..Len(Order)] ==
            IF i = 0 THEN <<>>
            ELSE IF Order[i] \in sel THEN upto[i - 1] \o Section(Order[i]) ELSE upto[i - 1]
    IN  upto
Program(sel) == Programs(sel)[Len(Order)]

StartRun(b, sel, oracle) ==
    /\ pc = "idle" /\ runs < MaxRuns
    /\ pc' = "run" /\ runs' = runs + 1
    /\ backend' = b /\ todo' = Program(sel)
    /\ cases' = <<>> /\ expect' = oracle /\ tally' = [c \in Classes |-> 0]
    /\ tiles' = Got(EmptyBag) /\ base' = -1
    /\ UNCHANGED <<files, server>>

\* The next request is made; its answer gives the cases recs.
Ask(kind) == pc = "run" /\ todo # <<>> /\ Head(todo).ask = kind
Step == Head(todo)

\* Mutant: a case that agrees with the oracle is counted and not recorded.
Emit_Deviations(recs) ==
    LET new == [k \in DOMAIN recs |-> Named(cases, recs[k])]
    IN  /\ cases' = cases \o SelectSeq(new, LAMBDA c : expect = NoReport \/ InlineClass(c) # "OK")
        /\ tally' = IF expect = NoReport THEN tally
                    ELSE [c \in Classes |->
                            tally[c] + Cardinality({k \in DOMAIN new : InlineClass(new[k]) = c})]
        /\ todo' = Tail(todo)
        /\ UNCHANGED <<pc, backend, expect, files, runs>>

Emit(recs) ==
    LET new == [k \in DOMAIN recs |-> Named(cases, recs[k])]
    IN  /\ cases' = cases \o new
        /\ tally' = IF expect = NoReport THEN tally
                    ELSE [c \in Classes |->
                            tally[c] + Cardinality({k \in DOMAIN new : InlineClass(new[k]) = c})]
        /\ todo' = Tail(todo)
        /\ UNCHANGED <<pc, backend, expect, files, runs>>

\* HG.http: an answer, or a status or an exception that makes it an error.
Outcomes == {Failed} \cup {Got(a) : a \in Answers}

\* Any plain query: the server answers something or an error.
Query ==
    /\ Ask("query")
    /\ \E answer \in Outcomes : Emit(<<Case(Step, "ids", answer)>>)
    /\ UNCHANGED <<tiles, base, server>>

\* Mutant: a later tile starts the union anew.
AddTile_Anew(sofar, tile) ==
    IF tile.err THEN Failed ELSE IF sofar.err THEN tile ELSE Got(sofar.ids (+) tile.ids)

AddTile(sofar, tile) ==
    IF tile.err \/ sofar.err THEN Failed ELSE Got(sofar.ids (+) tile.ids)

\* L3: one slice of the range.
Tile ==
    /\ Ask("tile")
    /\ \E answer \in Outcomes :
          /\ Emit(<<Case(Step, "ids", answer)>>)
          /\ tiles' = AddTile(tiles, answer)
    /\ UNCHANGED <<base, server>>

\* L3: the union of the slices, no request of its own.
Union ==
    /\ Ask("union")
    /\ Emit(<<Case(Step, "ids", tiles)>>)
    /\ UNCHANGED <<tiles, base, server>>

\* L3: two slices joined, where a failed one counts as empty.
Disjoint ==
    /\ Ask("disjoint")
    /\ \E one, two \in Outcomes :
          Emit(<<Case(Step, "ids", Got(one.ids (+) two.ids))>>)
    /\ UNCHANGED <<tiles, base, server>>

\* K3: one query ten times; an error counts as one more result.
Repeat ==
    /\ Ask("repeat")
    /\ \E results \in SUBSET Outcomes :
          results # {} /\ Emit(<<Scalar(Step, "distinct", Cardinality(results))>>)
    /\ UNCHANGED <<tiles, base, server>>

\* hg_j8 P: the last line of explain(), as a list of one.
Plan ==
    /\ Ask("plan")
    /\ \E answer \in {Failed} \cup {Got(a) : a \in {x \in Answers : BagCardinality(x) = 1}} :
          Emit(<<Case(Step, "ids", answer)>>)
    /\ UNCHANGED <<tiles, base, server>>

\* hg_j8 G, page_all: the ids of all pages, and how many there were; -1 and no
\* ids if a page fails.  The loop ends without a token, or, in silence, at its bound.
AllPages(pages) == Got(FoldFunction((+), EmptyBag, pages))

PageAll ==
    /\ Ask("pages")
    /\ \/ \E count \in 1..MaxPages : \E pages \in [1..count -> Answers] :
             Emit(<<Case(Step, "ids", AllPages(pages)), Scalar(Step, "pages", count)>>)
       \/ Emit(<<Case(Step, "ids", Failed), Scalar(Step, "pages", -1)>>)
    /\ UNCHANGED <<tiles, base, server>>

\* What COMBO_GOLD matches now.
Matches == IF fresh[backend] THEN Gold (+) Fresh ELSE Gold

\* K5: COMBO_GOLD before the script; the scalars refer to its size.
Baseline ==
    /\ Ask("baseline")
    /\ \E answer \in {Failed, Got(Matches)} :
          /\ Emit(<<Case(Step, "ids", answer)>>)
          /\ base' = IF answer.err THEN -1 ELSE BagCardinality(answer.ids)
    /\ UNCHANGED <<tiles, server>>

\* K5: the script adds the vertices, queries, commits and queries again.
Added == BagCardinality(Gold (+) Fresh)
ScriptAnswered ==
    /\ Ask("script")
    /\ fresh' = [fresh EXCEPT ![backend] = TRUE]
    /\ Emit(<<Case(Step, "before", Got(Gold (+) Fresh)),
              Case(Step, "after", Got(Gold (+) Fresh)),
              Scalar(Step, "gain", Added - base),
              Scalar(Step, "change", 0)>>)
    /\ UNCHANGED <<tiles, base, late, lost>>

\* The script is refused, its answer is lost, or the client gives up on it
\* while the server still runs it: one case, and no word of the other three.
ScriptFailed ==
    /\ Ask("script")
    /\ \/ UNCHANGED server
       \/ fresh' = [fresh EXCEPT ![backend] = TRUE] /\ UNCHANGED <<late, lost>>
       \/ late' = [late EXCEPT ![backend] = TRUE] /\ UNCHANGED <<fresh, lost>>
    /\ Emit(<<Case(Step, "before", Failed)>>)
    /\ UNCHANGED <<tiles, base>>

\* K5: COMBO_GOLD after the commit.
Again ==
    /\ Ask("again")
    /\ \E answer \in {Failed, Got(Matches)} : Emit(<<Case(Step, "ids", answer)>>)
    /\ UNCHANGED <<tiles, base, server>>

\* Mutant: no cleanup after a script that failed.
Cleanup_AfterSuccess ==
    /\ Ask("cleanup")
    /\ IF \E i \in DOMAIN cases : cases[i].key[3] = "after"
       THEN fresh' = [fresh EXCEPT ![backend] = FALSE] ELSE UNCHANGED fresh
    /\ todo' = Tail(todo)
    /\ UNCHANGED <<pc, backend, cases, expect, tally, tiles, base, files, runs, late, lost>>

\* K5: the vertices are dropped; nobody looks at the answer.
Cleanup ==
    /\ Ask("cleanup")
    /\ \/ fresh' = [fresh EXCEPT ![backend] = FALSE] /\ UNCHANGED lost
       \/ lost' = [lost EXCEPT ![backend] = @ \/ fresh[backend]] /\ UNCHANGED fresh
    /\ todo' = Tail(todo)
    /\ UNCHANGED <<pc, backend, cases, expect, tally, tiles, base, files, runs, late>>

\* With --out the report is written.
Dump ==
    /\ pc = "run" /\ todo = <<>>
    /\ pc' = "exit" /\ files' \in {files, Append(files, cases)}
    /\ UNCHANGED <<backend, todo, cases, expect, tally, tiles, base, runs, server>>

\* The exit status, Clean or the tally, changes nothing.
Exit ==
    /\ pc = "exit"
    /\ pc' = "idle"
    /\ UNCHANGED <<backend, todo, cases, expect, tally, tiles, base, files, runs, server>>

\* The process is killed: no report, and no cleanup of what it added.
Killed ==
    /\ pc = "run"
    /\ pc' = "idle" /\ todo' = <<>>
    /\ lost' = [lost EXCEPT ![backend] = @ \/ fresh[backend]]
    /\ UNCHANGED <<backend, cases, expect, tally, tiles, base, files, runs, fresh, late>>

\* A script the client gave up on comes to its commit.
LateCommit(b) ==
    /\ late[b]
    /\ late' = [late EXCEPT ![b] = FALSE] /\ fresh' = [fresh EXCEPT ![b] = TRUE]
    /\ lost' = [lost EXCEPT ![b] = TRUE]
    /\ UNCHANGED <<run, files, runs>>

RunStep == \/ Query \/ Tile \/ Union \/ Disjoint \/ Repeat \/ Plan \/ PageAll
           \/ Baseline \/ ScriptAnswered \/ ScriptFailed \/ Again \/ Cleanup
           \/ Dump \/ Exit

Next ==
    \/ \E b \in Backends, sel \in Selections :
          \E oracle \in {NoReport} \cup {files[f] : f \in DOMAIN files} : StartRun(b, sel, oracle)
    \/ RunStep
    \/ Killed
    \/ \E b \in Backends : LateCommit(b)

Spec == Init /\ [][Next]_vars

----------------------------------------------------------------------------
Requests == [sec : DOMAIN Steps, no : Nat, ask : Kinds, name : Titles]

TypeOK ==
    /\ pc \in {"idle", "run", "exit"} /\ backend \in Backends
    /\ todo \in Seq(Requests)
    /\ cases \in Seq(ToSet(cases)) /\ \A i \in DOMAIN cases : cases[i].err \in BOOLEAN
    /\ tiles.err \in BOOLEAN /\ IsABag(tiles.ids) /\ base \in Int
    /\ tally \in [Classes -> Nat] /\ \A c \in Classes : tally[c] <= Len(cases)
    /\ files \in Seq(ToSet(files)) /\ Len(files) <= runs /\ runs \in 0..MaxRuns
    /\ {fresh, late, lost} \subseteq [Backends -> BOOLEAN]

\* run --expect and compare agree on the same two reports, case by case as
\* the run goes on: equal counts of every class a run can see (a case the
\* target never came to, MISSING, is seen by compare only).
InlineAgrees ==
    pc # "idle" /\ expect # NoReport =>
        \A c \in Classes : tally[c] = Compared(expect, cases)[c]

\* compare exits with 0 only for two runs that asked the same requests in the
\* same order and recorded the same answer to each.
CleanMeansSame ==
    pc = "exit" /\ expect # NoReport /\ Clean(expect, cases) =>
        /\ Len(expect) = Len(cases)
        /\ \A i \in DOMAIN cases : /\ cases[i].asked = expect[i].asked
                                   /\ ~cases[i].err /\ ~expect[i].err
                                   /\ cases[i].ids = expect[i].ids /\ cases[i].n = expect[i].n

\* The ids of the tiles among the first i cases of a report.
IsTile(rec) == rec.asked.ask = "tile"
TileIds(report) ==
    LET upto[i \in 0..Len(report)] ==
            IF i = 0 THEN EmptyBag
            ELSE IF IsTile(report[i]) THEN upto[i - 1] (+) report[i].ids ELSE upto[i - 1]
    IN  upto

\* The union of the tiles is an error as soon as one tile is, wherever it
\* comes, and otherwise all of their ids with their repetitions.
UnionIsComplete ==
    \A u \in DOMAIN cases : cases[u].asked.ask = "union" =>
        /\ cases[u].err <=> \E i \in 1..u - 1 : IsTile(cases[i]) /\ cases[i].err
        /\ ~cases[u].err => cases[u].ids = TileIds(cases)[u - 1]

\* "runs stay idempotent": the K5 script gains its fresh vertices over the
\* baseline in every run, whatever runs came before it and whichever of their
\* answers were lost, unless one of their cleanups was lost or one of their
\* scripts was still running when its client gave up on it.
RunsStayIdempotent ==
    \A i \in DOMAIN cases : cases[i].key[3] = "gain" =>
        \/ cases[i].n = BagCardinality(Fresh)
        \/ \E k \in 1..i : cases[k].asked.ask = "baseline" /\ cases[k].err
        \/ lost[backend]
=============================================================================
