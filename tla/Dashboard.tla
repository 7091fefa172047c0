------------------------------- MODULE Dashboard ------------------------------
(***************************************************************************)
(* The dashboard (web/static/app.js): a page that reads the newest runs of *)
(* the log, groups the samples of an experiment and shows percentiles.     *)
(*                                                                         *)
(* refresh() asks and, when the answers are there, renders; nothing keeps  *)
(* two of them apart, so a refresh can render after one that started       *)
(* later.  The script of the page runs one callback at a time.  Of the     *)
(* three answers a refresh awaits, that of /api/results matters here.      *)
(***************************************************************************)
EXTENDS SharedLog, SequencesExt

CONSTANTS
  Limit,      \* the page limit of /api/results
  Controls,   \* settings of filter and grouping the user may choose
  MaxFlight,  \* bound on the refreshes under way
  MaxFails    \* bound on the refreshes that fail

ASSUME DashboardAssumption ==
  /\ Limit \in Nat \ {0} /\ MaxFlight \in Nat \ {0} /\ MaxFails \in Nat
  /\ Controls \subseteq [op: Operation, grouped: BOOLEAN] /\ Controls # {}

VARIABLES
  flight,    \* refreshes under way, in the order they started
  view,      \* lastRuns, the notice, and the settings they are rendered with
  controls,  \* what the filter and the grouping are set to
  auto,      \* the auto-refresh box
  fails      \* refreshes that failed so far

page == <<flight, view, controls, auto, fails>>

(***************************************************************************)
(* GET /api/results: the newest runs, newest first, and how many there are.*)
(***************************************************************************)
Page(t) ==
  LET runs == Reverse(SubSeq(t, IF Len(t) > Limit THEN Len(t) - Limit + 1 ELSE 1, Len(t)))
  IN  [runs |-> runs, total |-> Len(t), truncated |-> Len(t) > Len(runs)]

Empty == [runs |-> <<>>, total |-> 0, truncated |-> FALSE]

\* overtaken is history: another refresh has rendered since this one started.
Asked == [answered |-> FALSE, page |-> Empty, overtaken |-> FALSE]

DashInit ==
  /\ \E c \in Controls : controls = c /\ view = [page |-> Empty, controls |-> c, banner |-> FALSE]
  /\ flight = <<Asked>> /\ auto = TRUE /\ fails = 0

refresh == Len(flight) < MaxFlight /\ flight' = Append(flight, Asked)

\* Mutation: the timer stops after a failure.
Bug_Tick == ~view.banner /\ auto /\ refresh /\ UNCHANGED <<table, view, controls, auto, fails>>

\* setInterval.
Tick == auto /\ refresh /\ UNCHANGED <<table, view, controls, auto, fails>>

ToggleAuto == auto' = ~auto /\ UNCHANGED <<table, flight, view, controls, fails>>

\* Mutation: choosing a filter does not refresh.
Bug_Choose(c) ==
  /\ c # controls /\ controls' = c
  /\ UNCHANGED <<table, flight, view, auto, fails>>

\* A filter or the grouping is changed.
Choose(c) ==
  /\ c # controls /\ controls' = c /\ refresh
  /\ UNCHANGED <<table, view, auto, fails>>

\* A group is opened or closed, or a column is shown or hidden: renderResults(lastRuns)
\* with what the controls are now.
Rerender ==
  /\ view' = [view EXCEPT !.controls = controls]
  /\ UNCHANGED <<table, flight, controls, auto, fails>>

\* The server reads the log for a refresh.
Answer(i) ==
  /\ ~flight[i].answered
  /\ flight' = [flight EXCEPT ![i].answered = TRUE, ![i].page = Page(table)]
  /\ UNCHANGED <<table, view, controls, auto, fails>>

\* renderConnection, renderResults and renderTruncated, in one callback.
Render(i) ==
  /\ flight[i].answered
  /\ view' = [page |-> flight[i].page, controls |-> controls, banner |-> FALSE]
  /\ flight' = [k \in DOMAIN RemoveAt(flight, i) |->
                  [RemoveAt(flight, i)[k] EXCEPT !.overtaken = TRUE]]
  /\ UNCHANGED <<table, controls, auto, fails>>

\* Mutation: the table is cleared when a refresh fails.
Bug_Fail(i) ==
  /\ fails < MaxFails /\ fails' = fails + 1
  /\ view' = [view EXCEPT !.banner = TRUE, !.page = Empty]
  /\ flight' = RemoveAt(flight, i)
  /\ UNCHANGED <<table, controls, auto>>

\* One of the three answers is an error: the banner, and all else as it was.
Fail(i) ==
  /\ fails < MaxFails /\ fails' = fails + 1
  /\ view' = [view EXCEPT !.banner = TRUE]
  /\ flight' = RemoveAt(flight, i)
  /\ UNCHANGED <<table, controls, auto>>

DashNext ==
  \/ Tick \/ ToggleAuto \/ Rerender
  \/ \E c \in Controls : Choose(c)
  \/ \E i \in DOMAIN flight : Answer(i) \/ Render(i) \/ Fail(i)

-----------------------------------------------------------------------------
(***************************************************************************)
(* What is shown.                                                          *)
(***************************************************************************)
\* Mutation: the operations of an experiment share a group.
Bug_experimentKey(run) == <<run.exp>>

experimentKey(run) == IF run.exp = 0 THEN <<>> ELSE <<run.exp, run.op>>

\* The rows of the page that pass the filter.
Filtered == {i \in DOMAIN view.page.runs : view.controls.op \in {"", view.page.runs[i].op}}

\* The samples of a group, the highest sample first.
Group(key) ==
  LET rows  == view.page.runs
      S     == {i \in Filtered : experimentKey(rows[i]) = key}
      order == Ordered(S, [i \in S |-> -rows[i].idx])
  IN  [k \in DOMAIN order |-> rows[order[k]]]

\* The groups with a summary row: of two samples or more.
SummaryRows ==
  IF view.controls.grouped
  THEN {k \in {experimentKey(view.page.runs[i]) : i \in Filtered} : k # <<>> /\ Len(Group(k)) >= 2}
  ELSE {}

\* "p50 / p99" of TLS hs cli of some samples.
HandshakeCell(samples) == summarize([i \in DOMAIN samples |-> samples[i].hs])

DashTypeOK ==
  /\ Len(flight) <= MaxFlight /\ fails \in 0..MaxFails /\ auto \in BOOLEAN
  /\ controls \in Controls /\ view.controls \in Controls
  /\ \A p \in {view.page} \cup {flight[i].page : i \in DOMAIN flight} :
       Len(p.runs) <= Limit /\ (p.truncated <=> p.total > Len(p.runs))

\* A filter that was chosen is in effect, or a refresh that will apply it is under way,
\* or one has failed and the page says so.
FilterTakesEffect ==
  view.controls = controls \/ flight # <<>> \/ view.banner

\* How far the log was when a page was read.
Age(p) == p.total + Cardinality({i \in DOMAIN p.runs : p.runs[i].client # 0})

\* The page shows an older state of the log than before only when a refresh renders
\* that another one has overtaken: a single refresh, a failing one and a click never
\* take anything back.
RegressOnlyByOverlap ==
  [][Age(view'.page) < Age(view.page)
       => \E i \in DOMAIN flight : flight[i].overtaken /\ view'.page = flight[i].page]_view

\* Nothing newer is in the log than what the page shows.
Newest == view.page = Page(table) /\ ~view.banner

\* However refreshes overlapped and failed: with auto-refresh on, the page comes to show
\* the newest runs for good once the log is quiet.
CatchesUp == (<>[]auto /\ <>[][UNCHANGED table]_table) => <>[]Newest
=============================================================================
