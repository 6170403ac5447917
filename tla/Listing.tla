-------------------------------- MODULE Listing --------------------------------
(***************************************************************************)
(* The paginated lists of the API, GET /logs, /drift/alerts, /metrics,     *)
(* /test-cases and /evals/runs, and a client that walks one page by page   *)
(* as the Logs and Evals pages of the dashboard do, refetching on a timer. *)
(*                                                                         *)
(* All five count the rows that meet the conditions in one statement and   *)
(* fetch one page in another, ORDER BY a time DESC without a second key.   *)
(* A row is its id, the time it is sorted by and, as one tag, the columns  *)
(* that equality conditions look at.                                       *)
(***************************************************************************)
EXTENDS Integers, FiniteSets

CONSTANTS
    Endpoints,   \* those of "logs", "alerts", "metrics", "cases", "runs" looked at
    Tags,        \* combinations of the columns filtered for equality
    PageSize,    \* page_size
    AskedTimes,  \* the times a client sets as bounds
    Offsets,     \* the UTC offsets in which it may write them
    NoBound,     \* "no such condition"
    MaxTime,     \* bound: the times of rows
    MaxRows,     \* bound: rows ever inserted
    MaxFaults    \* bound: failed requests, changed tags, resets, walks given up,
                 \* steps back

ASSUME ListingAssumption ==
    /\ PageSize \in Nat \ {0}
    /\ AskedTimes \subseteq Int /\ Offsets \subseteq Int
    /\ NoBound \notin Int /\ NoBound \notin [local : Int, offset : Int]
    /\ MaxTime \in Nat /\ MaxRows \in Nat /\ MaxFaults \in Nat

VARIABLES
    endpoint,    \* the list that is walked
    rows,        \* the committed rows of its table
    inserted,    \* rows ever inserted, the last id given
    walk,        \* the client: its conditions, page, request and last response
    start,       \* history: the ids in the list when the walk began
    shown,       \* history: the ids it has been shown since
    intact,      \* history: no row has left the list since
    faults       \* faults so far

vars == <<endpoint, rows, inserted, walk, start, shown, intact, faults>>
history == <<start, shown, intact>>

Times == 1..MaxTime
Row == [id : 1..MaxRows, time : Times, tag : Tags]
Ids(some) == {r.id : r \in some}

-------------------------------------------------------------------------------
(* Conditions *)

\* A time as a client writes it: the local time and its UTC offset.
Written(t, offset) == IF t = NoBound THEN NoBound ELSE [local |-> t + offset, offset |-> offset]

\* Mutant: the offset is dropped instead of being applied.
NaiveUtc_DropsOffset(raw) == IF raw = NoBound THEN NoBound ELSE raw.local

\* The columns hold naive UTC times: a time with an offset is converted, one
\* without (offset 0) is taken as UTC.
NaiveUtc(raw) == IF raw = NoBound THEN NoBound ELSE raw.local - raw.offset

NotBefore(bound, r) == bound = NoBound \/ bound <= r.time
NotAfter(bound, r) == bound = NoBound \/ r.time <= bound

\* A condition that is not asked for is left out of the WHERE clause: tags then
\* holds every tag, and a bound is NoBound.
Conditions(f, r) == r.tag \in f.tags /\ NotBefore(f.from, r) /\ NotAfter(f.to, r)

TagConditions == {{t} : t \in Tags} \cup {Tags}
Bounds == AskedTimes \cup {NoBound}
Filter == [tags : TagConditions, from : Int \cup {NoBound}, to : Int \cup {NoBound}]

List == {r \in rows : Conditions(walk.filter, r)}

-------------------------------------------------------------------------------
(* The order *)

\* Mutant: the direction of ORDER BY is forgotten.
Firsts_Ascending(list, n) ==
    {top \in SUBSET list :
        /\ Cardinality(top) = IF n <= Cardinality(list) THEN n ELSE Cardinality(list)
        /\ \A r \in top, s \in list \ top : s.time >= r.time}

\* The first n rows of a list under ORDER BY time DESC; which of the rows of one
\* time are among them is the database's choice, made anew by every statement.
Firsts(list, n) ==
    {top \in SUBSET list :
        /\ Cardinality(top) = IF n <= Cardinality(list) THEN n ELSE Cardinality(list)
        /\ \A r \in top, s \in list \ top : s.time <= r.time}

\* Mutant: a 0-based page number.
Skipped_ZeroBased(page) == page * PageSize

\* OFFSET (page - 1) * page_size
Skipped(page) == (page - 1) * PageSize

\* What OFFSET and LIMIT may return.
Pages(list, page) ==
    {rest \in SUBSET list :
        \E before \in Firsts(list, Skipped(page)) :
            /\ before \cap rest = {}
            /\ before \cup rest \in Firsts(list, Skipped(page) + PageSize)}

\* The rows that come before r whatever the choice, and those that no choice
\* can move.
Newer(list, r) == {s \in list : s.time > r.time}
Untied(list, r) == \A s \in list : s.time = r.time => s = r

-------------------------------------------------------------------------------
(* The client and the requests it makes *)

Init ==
    /\ endpoint \in Endpoints
    /\ rows = {} /\ inserted = 0
    /\ walk = [pc |-> "none", filter |-> [tags |-> Tags, from |-> NoBound, to |-> NoBound],
               meant |-> [tags |-> Tags, from |-> NoBound, to |-> NoBound],
               page |-> 1, total |-> 0, items |-> {}]
    /\ start = {} /\ shown = {} /\ intact = TRUE
    /\ faults = 0

Fault == faults < MaxFaults /\ faults' = faults + 1

\* The client with a request for a page on its way. The last response stays on
\* the screen meanwhile, but nothing is decided by it any more.
AskingFor(filter, meant, page) ==
    [pc |-> "asked", filter |-> filter, meant |-> meant, page |-> page,
     total |-> 0, items |-> {}]
Asking(page) == AskingFor(walk.filter, walk.meant, page)

\* Mutant: the page is kept when the conditions change.
FirstPage_Kept == walk.page

\* setPage(1), which every change of a condition comes with.
FirstPage == 1

\* A walk begins, or begins anew with other conditions, and asks for its first page.
Begin(filter, meant) ==
    /\ \/ walk.pc = "none" /\ UNCHANGED faults
       \/ walk.pc \in {"shown", "failed"} /\ Fault
    /\ walk' = AskingFor(filter, meant, FirstPage)
    /\ start' = Ids({r \in rows : Conditions(filter, r)})
    /\ shown' = {} /\ intact' = TRUE
    /\ UNCHANGED <<endpoint, rows, inserted>>

BeginWithTags ==
    \E tags \in TagConditions :
        LET filter == [tags |-> tags, from |-> NoBound, to |-> NoBound]
        IN Begin(filter, filter)

BeginWithTimes ==
    \E tags \in TagConditions, from \in Bounds, to \in Bounds, offset \in Offsets :
        Begin([tags |-> tags, from |-> NaiveUtc(Written(from, offset)),
               to |-> NaiveUtc(Written(to, offset))],
              [tags |-> tags, from |-> from, to |-> to])

\* GET /logs: application, model and status, and bounds of created_at
ListLogs == endpoint = "logs" /\ BeginWithTimes

\* GET /metrics: application, model and period type, and bounds of period_start
ListMetrics == endpoint = "metrics" /\ BeginWithTimes

\* GET /drift/alerts: status and severity
ListAlerts == endpoint = "alerts" /\ BeginWithTags

\* GET /test-cases: suite
ListTestCases == endpoint = "cases" /\ BeginWithTags

\* GET /evals/runs: suite
ListEvalRuns == endpoint = "runs" /\ BeginWithTags

\* Mutant: the total counts the table without the conditions.
CountOf_Table == Cardinality(rows)
CountOf == Cardinality(List)

\* The first statement of the request.
Count ==
    /\ walk.pc = "asked"
    /\ walk' = [walk EXCEPT !.pc = "counted", !.total = CountOf]
    /\ UNCHANGED <<endpoint, rows, inserted, history, faults>>

\* The second statement, the response, and the page on the screen.
Fetch ==
    /\ walk.pc = "counted"
    /\ \E page \in Pages(List, walk.page) :
        /\ walk' = [walk EXCEPT !.pc = "shown", !.items = page]
        /\ shown' = shown \cup Ids(page)
    /\ UNCHANGED <<endpoint, rows, inserted, start, intact, faults>>

\* The request fails at the API or on the way.
RequestFails ==
    /\ walk.pc \in {"asked", "counted"} /\ Fault
    /\ walk' = [walk EXCEPT !.pc = "failed", !.total = 0]
    /\ UNCHANGED <<endpoint, rows, inserted, history>>

\* refetchInterval, or the retry button: the same page again.
Refetch ==
    /\ walk.pc \in {"shown", "failed"}
    /\ walk' = Asking(walk.page)
    /\ UNCHANGED <<endpoint, rows, inserted, history, faults>>

\* Mutant: a page more when the last one is full.
HasNext_PastFullPage == walk.page * PageSize <= walk.total

\* Mutant: the last page cannot be reached.
HasNext_NotToTheLast == (walk.page + 1) * PageSize < walk.total

\* page < pages, where pages = max(1, ceil(total / page_size))
HasNext == walk.page * PageSize < walk.total

NextPage ==
    /\ walk.pc = "shown" /\ HasNext
    /\ walk' = Asking(walk.page + 1)
    /\ UNCHANGED <<endpoint, rows, inserted, history, faults>>

\* Mutant: the button works on the first page as well.
PrevPage_NoFloor ==
    /\ walk.pc = "shown" /\ Fault
    /\ walk' = Asking(walk.page - 1)
    /\ UNCHANGED <<endpoint, rows, inserted, history>>

PrevPage ==
    /\ walk.pc = "shown" /\ walk.page > 1 /\ Fault
    /\ walk' = Asking(walk.page - 1)
    /\ UNCHANGED <<endpoint, rows, inserted, history>>

-------------------------------------------------------------------------------
(* The table meanwhile *)

\* A row leaves the list.
Watch == intact' = (intact /\ Ids(List) \subseteq Ids(List'))

\* A row is committed. Its time is given before the commit, by the start of its
\* transaction, by the worker that computed it or by the seed, so a row may
\* come to stand anywhere in the order, next to rows of the same time too.
Insert ==
    /\ inserted < MaxRows /\ inserted' = inserted + 1
    /\ \E t \in Times, tag \in Tags :
        rows' = rows \cup {[id |-> inserted', time |-> t, tag |-> tag]}
    /\ UNCHANGED <<endpoint, walk, history, faults>>

\* PATCH /drift/alerts/{id}: the only change of a column a list filters by.
Retag ==
    /\ endpoint = "alerts" /\ Fault
    /\ \E r \in rows : \E tag \in Tags \ {r.tag} :
        rows' = (rows \ {r}) \cup {[r EXCEPT !.tag = tag]}
    /\ UNCHANGED <<endpoint, inserted, walk, start, shown>>
    /\ Watch

\* The seed's TRUNCATE waits for the lock that a request's transaction holds
\* from its first statement on.
Reset ==
    /\ walk.pc # "counted" /\ rows # {} /\ Fault
    /\ rows' = {}
    /\ UNCHANGED <<endpoint, inserted, walk, start, shown>>
    /\ Watch

-------------------------------------------------------------------------------
Client == \/ ListLogs \/ ListMetrics \/ ListAlerts \/ ListTestCases \/ ListEvalRuns
          \/ Refetch \/ NextPage \/ PrevPage
Next == Client \/ Count \/ Fetch \/ RequestFails \/ Insert \/ Retag \/ Reset

Spec == Init /\ [][Next]_vars

\* The API answers what it is asked, the page refetches on its timer, and the
\* reader goes on: the next button is used if it keeps being there, even though
\* each refetch takes it away for a moment.
FairSpec ==
    /\ Spec
    /\ WF_vars(Count) /\ WF_vars(Fetch) /\ WF_vars(Refetch)
    /\ SF_vars(NextPage)

-------------------------------------------------------------------------------
(* Properties *)

\* The type invariant.
TypeOK ==
    /\ endpoint \in Endpoints
    /\ inserted \in 0..MaxRows
    /\ rows \subseteq Row /\ \A r \in rows : r.id <= inserted
    /\ \A r, s \in rows : r.id = s.id => r = s
    /\ walk \in [pc : {"none", "asked", "counted", "shown", "failed"},
                 filter : Filter, meant : Filter,
                 page : Nat \ {0}, total : Nat, items : SUBSET Row]
    /\ start \subseteq 1..MaxRows /\ shown \subseteq 1..MaxRows
    /\ intact \in BOOLEAN /\ faults \in 0..MaxFaults

\* The rows the client has paged past.
Passed == IF walk.pc = "shown" THEN Skipped(walk.page + 1) ELSE Skipped(walk.page)

\* The rows that the reader is still to see: of the list since the walk began,
\* alone at their time, and not shown so far.
Unread == {r \in List : r.id \in start \ shown /\ Untied(List, r)}

\* Rows that arrive during a walk push unread rows onto later pages, never behind
\* the reader: as long as nothing leaves the list, they are still ahead.
NoneBehind == intact => \A r \in Unread : Cardinality(Newer(List, r)) >= Passed

\* The total and the page are of two snapshots, and still the page has every row
\* that the total promises for it, on all lists whose rows stay what they are (a
\* status changed by PATCH may take a row from the page that the total counted).
PageFull ==
    walk.pc = "shown" /\ endpoint # "alerts" =>
        Cardinality(walk.items) = PageSize
        \/ Skipped(walk.page) + Cardinality(walk.items) >= walk.total

\* "No logs match", which hides the page buttons, is only ever the answer of an
\* empty list: the buttons and a change of conditions lead to no page past the
\* last one, unless rows have left the list.
EmptyPageMeansEmptyList ==
    walk.pc = "shown" /\ intact /\ walk.items = {} => walk.total = 0

\* The rows on a page lie between the instants that the client meant, in
\* whatever time zone it wrote them.
PageMeansInstants ==
    walk.pc = "shown" => \A r \in walk.items : Conditions(walk.meant, r)

-------------------------------------------------------------------------------
(***************************************************************************)
(* The inductive invariant. While the list stays intact the rows the walk  *)
(* began with are in it, and the page asked for is not past its end; a     *)
(* total is not more than the rows that are there when the page is         *)
(* fetched, which a reset cannot change and a PATCH can.                   *)
(***************************************************************************)
IInv ==
    /\ TypeOK /\ IsFiniteSet(rows)
    /\ NoneBehind /\ PageFull /\ EmptyPageMeansEmptyList /\ PageMeansInstants
    /\ walk.filter = walk.meant
    /\ intact => /\ start \subseteq Ids(List)
                 /\ walk.page = 1 \/ Skipped(walk.page) < Cardinality(List)
    /\ walk.pc \in {"counted", "shown"}
          /\ (intact \/ (walk.pc = "counted" /\ endpoint # "alerts"))
       => walk.total <= Cardinality(List)

\* A reader for whom there is no next page has been shown every row of the list
\* that is not tied, unless one leaves or rows arrived after the total was counted.
LastPageMeansAllShown ==
    walk.pc = "shown" /\ intact /\ ~HasNext =>
        Unread = {} \/ walk.total < Cardinality(List)

\* A reader who goes on has at some point been shown every row that was in the
\* list at the beginning, unless it is tied with another or a row leaves.
AllShown == Unread # {} ~> Unread = {} \/ ~intact
===============================================================================
