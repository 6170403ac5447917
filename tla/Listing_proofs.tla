---------------------------- MODULE Listing_proofs ----------------------------
(***************************************************************************)
(* Proofs about Listing: what a client that walks a paginated list may     *)
(* rely on, for every page size, any conditions, rows and bounds.          *)
(***************************************************************************)
EXTENDS Listing, FiniteSetTheorems, FunctionTheorems, TLAPS

-------------------------------------------------------------------------------
(* Sets of rows *)

(***************************************************************************)
(* A set of rows with different ids is not larger than one that has all    *)
(* their ids.                                                              *)
(***************************************************************************)
LEMMA IdsCount ==
  ASSUME NEW A, NEW B, IsFiniteSet(B),
         \A r, s \in A : r.id = s.id => r = s,
         \A r \in A : \E s \in B : s.id = r.id
  PROVE  IsFiniteSet(A) /\ Cardinality(A) <= Cardinality(B)
<1> DEFINE f == [r \in A |-> CHOOSE s \in B : s.id = r.id]
<1>1. \A r \in A : f[r] \in B /\ f[r].id = r.id
  OBVIOUS
<1>2. f \in [A -> B]
  BY <1>1
<1>3. \A r, s \in A : f[r] = f[s] => r = s
  BY <1>1
<1> HIDE DEF f
<1>4. f \in Injection(A, B)
  BY <1>2, <1>3, Fun_IsInj
<1> QED BY <1>4, FS_Injection

(***************************************************************************)
(* The first n rows of a list are n, or all of it when it has no more.     *)
(***************************************************************************)
LEMMA FirstsCount ==
  ASSUME NEW list, IsFiniteSet(list), NEW n \in Nat, NEW top \in Firsts(list, n)
  PROVE  /\ top \subseteq list /\ IsFiniteSet(top)
         /\ Cardinality(list) \in Nat
         /\ Cardinality(top) = IF n <= Cardinality(list) THEN n ELSE Cardinality(list)
         /\ n >= Cardinality(list) => top = list
         /\ \A r \in top, s \in list \ top : s.time <= r.time
<1>1. /\ top \subseteq list
      /\ Cardinality(top) = IF n <= Cardinality(list) THEN n ELSE Cardinality(list)
      /\ \A r \in top, s \in list \ top : s.time <= r.time
  BY DEF Firsts
<1>2. IsFiniteSet(top) /\ (Cardinality(list) = Cardinality(top) => list = top)
  BY <1>1, FS_Subset
<1>3. Cardinality(list) \in Nat
  BY FS_CardinalityType
<1> QED BY <1>1, <1>2, <1>3

(***************************************************************************)
(* The offsets of neighbouring pages are one page size apart, and the      *)
(* first page skips nothing.                                               *)
(***************************************************************************)
LEMMA SkippedStep ==
  ASSUME NEW page \in Nat \ {0}
  PROVE  /\ Skipped(page) \in Nat
         /\ PageSize \in Nat \ {0}
         /\ Skipped(page + 1) = Skipped(page) + PageSize
         /\ page * PageSize = Skipped(page + 1)
         /\ page = 1 => Skipped(page) = 0
         /\ page > 1 => page - 1 \in Nat \ {0} /\ Skipped(page) = Skipped(page - 1) + PageSize
<1>1. PageSize \in Nat \ {0}
  BY ListingAssumption
<1>2. \A p \in Nat : p * PageSize \in Nat /\ (p + 1) * PageSize = p * PageSize + PageSize
  BY <1>1
<1>3. page - 1 \in Nat /\ (page - 1) + 1 = page /\ (page + 1) - 1 = page
  OBVIOUS
<1>4. Skipped(page + 1) = page * PageSize /\ Skipped(page) = (page - 1) * PageSize
  BY <1>3 DEF Skipped
<1>5. page * PageSize = (page - 1) * PageSize + PageSize
  BY <1>2, <1>3
<1>6. page = 1 => Skipped(page) = 0
  BY <1>1, <1>4
<1>7. ASSUME page > 1
      PROVE  page - 1 \in Nat \ {0} /\ Skipped(page) = Skipped(page - 1) + PageSize
  <2>1. page - 1 \in Nat \ {0} /\ page - 2 \in Nat /\ (page - 2) + 1 = page - 1
        /\ (page - 1) - 1 = page - 2
    BY <1>7
  <2>2. (page - 1) * PageSize = (page - 2) * PageSize + PageSize
    BY <1>2, <2>1
  <2> QED BY <2>1, <2>2, <1>4 DEF Skipped
<1> QED BY <1>1, <1>2, <1>3, <1>4, <1>5, <1>6, <1>7

(***************************************************************************)
(* A page is as large as the rows left for it allow.                       *)
(***************************************************************************)
LEMMA PageCount ==
  ASSUME NEW list, IsFiniteSet(list), NEW page \in Nat \ {0}, NEW rest \in Pages(list, page)
  PROVE  /\ rest \subseteq list /\ IsFiniteSet(rest) /\ Cardinality(rest) \in Nat
         /\ Cardinality(list) \in Nat
         /\ \/ Cardinality(rest) = PageSize
            \/ Skipped(page) + Cardinality(rest) >= Cardinality(list)
         /\ Skipped(page) < Cardinality(list) => Cardinality(rest) > 0
<1> DEFINE skip == Skipped(page)
<1>1. skip \in Nat /\ PageSize \in Nat \ {0} /\ skip + PageSize \in Nat
  BY SkippedStep
<1>2. PICK before \in Firsts(list, skip) :
        before \cap rest = {} /\ before \cup rest \in Firsts(list, skip + PageSize)
  BY DEF Pages
<1> HIDE DEF skip
<1>3. /\ Cardinality(list) \in Nat /\ IsFiniteSet(before)
      /\ Cardinality(before) = IF skip <= Cardinality(list) THEN skip ELSE Cardinality(list)
  BY <1>1, <1>2, FirstsCount
<1>4. /\ before \cup rest \subseteq list
      /\ Cardinality(before \cup rest) =
           IF skip + PageSize <= Cardinality(list) THEN skip + PageSize ELSE Cardinality(list)
  BY <1>1, <1>2, FirstsCount
<1>5. IsFiniteSet(rest) /\ Cardinality(rest) \in Nat
  BY <1>4, FS_Subset, FS_CardinalityType
<1>6. Cardinality(before \cup rest) = Cardinality(before) + Cardinality(rest)
  <2>1. Cardinality(before) \in Nat /\ Cardinality(before \cap rest) = 0
    BY <1>2, <1>3, FS_CardinalityType, FS_EmptySet
  <2>2. Cardinality(before \cup rest)
          = Cardinality(before) + Cardinality(rest) - Cardinality(before \cap rest)
    BY <1>3, <1>5, FS_Union
  <2> QED BY <2>1, <2>2, <1>5
<1> QED BY <1>1, <1>3, <1>4, <1>5, <1>6 DEF skip

(***************************************************************************)
(* A row that stands alone at its time, comes after the rows a page skips  *)
(* and is not on the page, comes after the page.                           *)
(***************************************************************************)
LEMMA NotShownIsAhead ==
  ASSUME NEW list, IsFiniteSet(list), \A r \in list : r.time \in Int,
         NEW page \in Nat \ {0}, NEW rest \in Pages(list, page),
         NEW r \in list \ rest, Untied(list, r),
         Cardinality(Newer(list, r)) >= Skipped(page)
  PROVE  Cardinality(Newer(list, r)) >= Skipped(page + 1)
<1> DEFINE newer == Newer(list, r)
           skip == Skipped(page)
<1>1. skip \in Nat /\ PageSize \in Nat \ {0} /\ Skipped(page + 1) = skip + PageSize
  BY SkippedStep
<1>2. newer \subseteq list /\ r \notin newer
  BY DEF Newer
<1>3. IsFiniteSet(newer) /\ Cardinality(newer) \in Nat
  BY <1>2, FS_Subset, FS_CardinalityType
<1>4. PICK before \in Firsts(list, skip) :
        before \cap rest = {} /\ before \cup rest \in Firsts(list, skip + PageSize)
  BY DEF Pages
<1>5. r \notin before
  <2>1. SUFFICES ASSUME r \in before PROVE FALSE
    OBVIOUS
  <2>2. newer \subseteq before
    BY <1>1, <1>4, <2>1, FirstsCount DEF Newer
  <2>3. IsFiniteSet(before) /\ Cardinality(before) <= skip /\ Cardinality(before) \in Nat
    BY <1>1, <1>4, FirstsCount, FS_CardinalityType
  <2>4. Cardinality(newer) <= Cardinality(before)
        /\ (Cardinality(newer) = Cardinality(before) => newer = before)
    BY <2>2, <2>3, FS_Subset
  <2> QED BY <1>1, <1>2, <1>3, <2>1, <2>3, <2>4
<1> DEFINE last == before \cup rest
<1>6. r \in list \ last
  BY <1>5
<1>7. last \subseteq newer
  BY <1>1, <1>4, <1>6, FirstsCount DEF Newer, Untied
<1>8. Cardinality(last) = skip + PageSize
  BY <1>1, <1>4, <1>6, FirstsCount
<1> QED BY <1>1, <1>3, <1>7, <1>8, FS_Subset

(***************************************************************************)
(* When a list keeps its rows, a row that is alone at its time was so      *)
(* before, and it has not come nearer to the top.                          *)
(***************************************************************************)
LEMMA NeverCloser ==
  ASSUME NEW A, NEW B, IsFiniteSet(B),
         \A r, s \in A : r.id = s.id => r = s,
         \A r, s \in B : r.id = s.id => r = s,
         \A r \in A, s \in B : r.id = s.id => r.time = s.time,
         \A r \in A : \E s \in B : s.id = r.id,
         NEW r \in A, NEW q \in B, r.id = q.id, Untied(B, q)
  PROVE  Untied(A, r) /\ Cardinality(Newer(A, r)) <= Cardinality(Newer(B, q))
<1>1. r.time = q.time
  OBVIOUS
<1>2. ASSUME NEW s \in A, s.time = r.time PROVE s = r
  <2>1. PICK t \in B : t.id = s.id
    OBVIOUS
  <2>2. t.time = q.time
    BY <1>1, <1>2, <2>1
  <2>3. t = q
    BY <2>2 DEF Untied
  <2> QED BY <2>1, <2>3
<1>3. \A s \in Newer(A, r) : \E t \in Newer(B, q) : t.id = s.id
  BY <1>1 DEF Newer
<1>4. IsFiniteSet(Newer(B, q))
  BY FS_Subset DEF Newer
<1>5. \A s, t \in Newer(A, r) : s.id = t.id => s = t
  BY DEF Newer
<1>6. Cardinality(Newer(A, r)) <= Cardinality(Newer(B, q))
  BY <1>3, <1>4, <1>5, IdsCount
<1> QED BY <1>2, <1>6 DEF Untied
-------------------------------------------------------------------------------
(* Types *)

(***************************************************************************)
(* Converting what the client wrote gives the instant it meant, for every  *)
(* offset.                                                                 *)
(***************************************************************************)
LEMMA WrittenIsMeant ==
  ASSUME NEW t \in Bounds, NEW offset \in Offsets
  PROVE  NaiveUtc(Written(t, offset)) = t /\ t \in Int \cup {NoBound}
<1>1. t = NoBound \/ t \in Int
  BY ListingAssumption DEF Bounds
<1>2. CASE t = NoBound
  BY <1>2 DEF NaiveUtc, Written
<1>3. CASE t \in Int
  <2>1. offset \in Int /\ t # NoBound
    BY <1>3, ListingAssumption
  <2>2. Written(t, offset) = [local |-> t + offset, offset |-> offset]
    BY <2>1 DEF Written
  <2>3. Written(t, offset) # NoBound
    BY <1>3, <2>1, <2>2, ListingAssumption
  <2> QED BY <1>3, <2>1, <2>2, <2>3 DEF NaiveUtc
<1> QED BY <1>1, <1>2, <1>3

(***************************************************************************)
(* What the five list requests do to the client: a walk begins with the    *)
(* conditions that were meant.                                             *)
(***************************************************************************)
LEMMA BeginsAsMeant ==
  ASSUME ListLogs \/ ListMetrics \/ ListAlerts \/ ListTestCases \/ ListEvalRuns
  PROVE  \E filter \in Filter : Begin(filter, filter)
<1>1. CASE BeginWithTags
  BY <1>1 DEF BeginWithTags, Filter
<1>2. CASE BeginWithTimes
  <2>1. PICK tags \in TagConditions, from \in Bounds, to \in Bounds, offset \in Offsets :
          Begin([tags |-> tags, from |-> NaiveUtc(Written(from, offset)),
                 to |-> NaiveUtc(Written(to, offset))],
                [tags |-> tags, from |-> from, to |-> to])
    BY <1>2 DEF BeginWithTimes
  <2>2. NaiveUtc(Written(from, offset)) = from /\ NaiveUtc(Written(to, offset)) = to
        /\ from \in Int \cup {NoBound} /\ to \in Int \cup {NoBound}
    BY WrittenIsMeant
  <2> QED BY <2>1, <2>2 DEF Filter
<1> QED BY <1>1, <1>2 DEF ListLogs, ListMetrics, ListAlerts, ListTestCases, ListEvalRuns

(***************************************************************************)
(* The list is a finite set of rows with different ids.                    *)
(***************************************************************************)
LEMMA ListTypes ==
  ASSUME TypeOK, IsFiniteSet(rows)
  PROVE  /\ List \subseteq rows /\ List \subseteq Row /\ IsFiniteSet(List)
         /\ Cardinality(List) \in Nat
         /\ \A r, s \in List : r.id = s.id => r = s
         /\ \A r \in rows : r.id \in 1..MaxRows /\ r.time \in Int
<1>1. List \subseteq rows
  BY DEF List
<1>2. \A r \in rows : r.id \in 1..MaxRows /\ r.time \in Int
  BY DEF TypeOK, Row, Times
<1> QED BY <1>1, <1>2, FS_Subset, FS_CardinalityType DEF TypeOK

(***************************************************************************)
(* A client that asks for a page is of the type of clients.                *)
(***************************************************************************)
LEMMA AskingTypes ==
  ASSUME NEW page \in Nat \ {0}, NEW filter \in Filter, NEW meant \in Filter
  PROVE  AskingFor(filter, meant, page) \in
           [pc : {"none", "asked", "counted", "shown", "failed"}, filter : Filter, meant : Filter,
            page : Nat \ {0}, total : Nat, items : SUBSET Row]
BY DEF AskingFor

-------------------------------------------------------------------------------
(* The table changes *)

(***************************************************************************)
(* Whatever happens to the table, as long as rows keep their times, the    *)
(* history notes when one leaves the list, and none leaves it between the  *)
(* two statements of a request (but by a PATCH), the invariant holds on.   *)
(***************************************************************************)
LEMMA TableStep ==
  ASSUME IInv, TypeOK', IsFiniteSet(rows)', UNCHANGED <<endpoint, walk, start, shown>>,
         \A r \in rows, s \in rows' : r.id = s.id => r.time = s.time,
         intact' => intact /\ Ids(List) \subseteq Ids(List'),
         walk.pc = "counted" /\ endpoint # "alerts" => Ids(List) \subseteq Ids(List')
  PROVE  IInv'
<1>1. TypeOK /\ IsFiniteSet(rows)
  BY DEF IInv
<1>2. /\ List \subseteq rows /\ IsFiniteSet(List) /\ Cardinality(List) \in Nat
      /\ \A r, s \in List : r.id = s.id => r = s
  BY <1>1, ListTypes
<1>3. /\ List' \subseteq rows' /\ IsFiniteSet(List') /\ Cardinality(List') \in Nat
      /\ \A r, s \in List' : r.id = s.id => r = s
  <2>1. List' \subseteq rows'
    BY DEF List
  <2> QED BY <2>1, FS_Subset, FS_CardinalityType DEF TypeOK
<1>4. ASSUME Ids(List) \subseteq Ids(List')
      PROVE  /\ \A r \in List : \E s \in List' : s.id = r.id
             /\ Cardinality(List) <= Cardinality(List')
  <2>1. \A r \in List : \E s \in List' : s.id = r.id
    BY <1>4 DEF Ids
  <2> QED BY <1>2, <1>3, <2>1, IdsCount
<1>5. NoneBehind'
  <2>1. SUFFICES ASSUME intact', NEW q \in Unread'
                 PROVE  Cardinality(Newer(List, q))' >= Passed'
    BY DEF NoneBehind
  <2>2. q \in List' /\ q.id \in start \ shown /\ Untied(List', q)
    BY <2>1 DEF Unread, Untied
  <2>3. PICK r \in List : r.id = q.id
    BY <2>1, <2>2 DEF IInv, Ids
  <2>4. \A s \in List, t \in List' : s.id = t.id => s.time = t.time
    BY <1>2, <1>3
  <2>5. Untied(List, r) /\ Cardinality(Newer(List, r)) <= Cardinality(Newer(List', q))
    BY <1>2, <1>3, <1>4, <2>1, <2>2, <2>3, <2>4, NeverCloser
  <2>6. Cardinality(Newer(List, r)) >= Passed
    BY <2>1, <2>2, <2>3, <2>5 DEF IInv, NoneBehind, Unread
  <2>7. /\ Cardinality(Newer(List, r)) \in Nat /\ Cardinality(Newer(List', q)) \in Nat
        /\ Passed \in Nat
    <3>1. Newer(List, r) \subseteq List /\ Newer(List', q) \subseteq List'
      BY DEF Newer
    <3>2. walk.page \in Nat \ {0}
      BY <1>1 DEF TypeOK
    <3>3. Passed \in Nat
      BY <3>2, SkippedStep DEF Passed
    <3> QED BY <1>2, <1>3, <3>1, <3>3, FS_Subset, FS_CardinalityType
  <2>8. Passed' = Passed
    BY DEF Passed, Skipped
  <2> QED BY <2>5, <2>6, <2>7, <2>8 DEF Newer
<1>6. intact' => start' \subseteq Ids(List)'
  BY DEF IInv, Ids
<1>7. intact' => walk'.page = 1 \/ Skipped(walk.page)' < Cardinality(List)'
  <2>1. Skipped(walk.page) \in Nat
    BY <1>1, SkippedStep DEF TypeOK
  <2> QED BY <1>2, <1>3, <1>4, <2>1 DEF IInv, Skipped
<1>8. ASSUME walk'.pc \in {"counted", "shown"},
             intact' \/ (walk'.pc = "counted" /\ endpoint' # "alerts")
      PROVE  walk'.total <= Cardinality(List)'
  <2>1. walk.total \in Nat /\ walk.total <= Cardinality(List)
    BY <1>1, <1>8 DEF IInv, TypeOK
  <2> QED BY <1>2, <1>3, <1>4, <1>8, <2>1
<1>9. PageFull' /\ EmptyPageMeansEmptyList' /\ PageMeansInstants' /\ walk'.filter = walk'.meant
  BY DEF IInv, PageFull, EmptyPageMeansEmptyList, PageMeansInstants, Conditions, NotBefore,
         NotAfter, Skipped
<1> QED BY <1>5, <1>6, <1>7, <1>8, <1>9 DEF IInv
-------------------------------------------------------------------------------
(* The invariant *)

(***************************************************************************)
(* A request for another page, with the same conditions: no row is behind  *)
(* it, and the list reaches to it.                                         *)
(***************************************************************************)
LEMMA AskingStep ==
  ASSUME IInv, TypeOK', NEW page \in Nat \ {0}, walk' = Asking(page),
         UNCHANGED <<endpoint, rows, inserted, history>>,
         Skipped(page) <= Passed,
         intact => page = 1 \/ Skipped(page) < Cardinality(List)
  PROVE  IInv'
<1>1. TypeOK /\ IsFiniteSet(rows) /\ walk.filter \in Filter
  BY DEF IInv, TypeOK
<1>2. walk' = [pc |-> "asked", filter |-> walk.filter, meant |-> walk.meant,
               page |-> page, total |-> 0, items |-> {}]
  BY DEF Asking, AskingFor
<1>3. List' = List /\ Unread' = Unread
  BY <1>2 DEF List, Unread, Conditions, NotBefore, NotAfter, Untied, history
<1>4. Passed' = Skipped(page)
  BY <1>2 DEF Passed, Skipped
<1>5. NoneBehind'
  <2>1. SUFFICES ASSUME intact, NEW r \in Unread
                 PROVE  Cardinality(Newer(List, r)) >= Skipped(page)
    BY <1>3, <1>4 DEF NoneBehind, Newer, history
  <2>2. Cardinality(Newer(List, r)) >= Passed
    BY <2>1 DEF IInv, NoneBehind
  <2>3. Cardinality(Newer(List, r)) \in Nat
    BY <1>1, ListTypes, FS_Subset, FS_CardinalityType DEF Newer
  <2>4. Passed \in Nat /\ Skipped(page) \in Nat
    BY <1>1, SkippedStep DEF Passed, TypeOK
  <2> QED BY <2>2, <2>3, <2>4
<1>6. PageFull' /\ EmptyPageMeansEmptyList' /\ PageMeansInstants' /\ walk'.filter = walk'.meant
  BY <1>2 DEF IInv, PageFull, EmptyPageMeansEmptyList, PageMeansInstants
<1>7. intact' => start' \subseteq Ids(List)'
                 /\ (walk'.page = 1 \/ Skipped(walk.page)' < Cardinality(List)')
  BY <1>2, <1>3 DEF IInv, Ids, Skipped, history
<1>8. walk'.pc = "asked"
  BY <1>2
<1> QED BY <1>1, <1>5, <1>6, <1>7, <1>8 DEF IInv, history

(***************************************************************************)
(* Each request of the client keeps the invariant.                         *)
(***************************************************************************)
LEMMA ClientStep ==
  ASSUME IInv, Client
  PROVE  IInv'
<1>1. TypeOK /\ IsFiniteSet(rows) /\ walk.page \in Nat \ {0} /\ walk.total \in Nat
  BY DEF IInv, TypeOK
<1>2. /\ Cardinality(List) \in Nat
      /\ Skipped(walk.page) \in Nat /\ PageSize \in Nat \ {0}
      /\ Skipped(walk.page + 1) = Skipped(walk.page) + PageSize
      /\ walk.page * PageSize = Skipped(walk.page + 1)
      /\ walk.page > 1 => /\ walk.page - 1 \in Nat \ {0}
                          /\ Skipped(walk.page) = Skipped(walk.page - 1) + PageSize
                          /\ Skipped(walk.page - 1) \in Nat
  BY <1>1, ListTypes, SkippedStep
<1>3. Skipped(walk.page) <= Passed
  BY <1>2 DEF Passed
<1>4. intact => walk.page = 1 \/ Skipped(walk.page) < Cardinality(List)
  BY DEF IInv
<1>5. ASSUME NEW page \in Nat \ {0}, walk' = Asking(page), faults' \in 0..MaxFaults,
             UNCHANGED <<endpoint, rows, inserted, history>>
      PROVE  TypeOK'
  <2>1. walk.filter \in Filter /\ walk.meant \in Filter
    BY <1>1 DEF TypeOK
  <2>2. walk' \in [pc : {"none", "asked", "counted", "shown", "failed"},
                   filter : Filter, meant : Filter,
                   page : Nat \ {0}, total : Nat, items : SUBSET Row]
    BY <1>5, <2>1, AskingTypes DEF Asking
  <2> QED BY <1>1, <1>5, <2>2 DEF TypeOK, history
<1>6. Fault => faults' \in 0..MaxFaults
  BY <1>1, ListingAssumption DEF TypeOK, Fault
<1>7. ASSUME ListLogs \/ ListMetrics \/ ListAlerts \/ ListTestCases \/ ListEvalRuns
      PROVE  IInv'
  <2>1. PICK filter \in Filter : Begin(filter, filter)
    BY <1>7, BeginsAsMeant
  <2>2. walk' = [pc |-> "asked", filter |-> filter, meant |-> filter, page |-> 1,
                 total |-> 0, items |-> {}]
    BY <2>1 DEF Begin, FirstPage, AskingFor
  <2>3. /\ start' = Ids({r \in rows : Conditions(filter, r)})
        /\ shown' = {} /\ intact' = TRUE /\ UNCHANGED <<endpoint, rows, inserted>>
        /\ faults' \in 0..MaxFaults
    BY <1>1, <1>6, <2>1 DEF Begin, TypeOK
  <2>4. List' = {r \in rows : Conditions(filter, r)}
    BY <2>2, <2>3 DEF List, Conditions, NotBefore, NotAfter
  <2>5. start' = Ids(List)' /\ start' \subseteq 1..MaxRows
    BY <1>1, <2>3, <2>4, ListTypes DEF Ids
  <2>6. TypeOK'
    BY <1>1, <2>2, <2>3, <2>5 DEF TypeOK
  <2>7. Passed' = 0
    BY <2>2, SkippedStep DEF Passed, Skipped
  <2>8. NoneBehind'
    <3>1. IsFiniteSet(List')
      BY <1>1, <2>4, FS_Subset
    <3>2. \A r \in List' : Cardinality(Newer(List, r))' >= 0
      <4>1. TAKE r \in List'
      <4>2. Newer(List, r)' \subseteq List'
        BY DEF Newer
      <4> QED BY <3>1, <4>2, FS_Subset, FS_CardinalityType
    <3> QED BY <2>7, <3>2 DEF NoneBehind, Unread
  <2> QED BY <1>1, <2>2, <2>3, <2>5, <2>6, <2>8
          DEF IInv, PageFull, EmptyPageMeansEmptyList, PageMeansInstants
<1>8. ASSUME Refetch PROVE IInv'
  <2>1. walk' = Asking(walk.page) /\ UNCHANGED <<endpoint, rows, inserted, history, faults>>
    BY <1>8 DEF Refetch
  <2>2. TypeOK'
    BY <1>1, <1>5, <2>1 DEF TypeOK
  <2> QED BY <1>1, <1>3, <1>4, <2>1, <2>2, AskingStep
<1>9. ASSUME NextPage PROVE IInv'
  <2>1. /\ walk.pc = "shown" /\ HasNext /\ walk' = Asking(walk.page + 1)
        /\ UNCHANGED <<endpoint, rows, inserted, history, faults>>
    BY <1>9 DEF NextPage
  <2>2. walk.page + 1 \in Nat \ {0}
    BY <1>1
  <2>3. TypeOK'
    BY <1>1, <1>5, <2>1, <2>2 DEF TypeOK
  <2>4. Skipped(walk.page + 1) <= Passed
    BY <1>2, <2>1 DEF Passed
  <2>5. intact => Skipped(walk.page + 1) < Cardinality(List)
    BY <1>1, <1>2, <2>1 DEF IInv, HasNext
  <2> QED BY <2>1, <2>2, <2>3, <2>4, <2>5, AskingStep
<1>10. ASSUME PrevPage PROVE IInv'
  <2>1. /\ walk.page > 1 /\ walk.pc = "shown" /\ walk' = Asking(walk.page - 1)
        /\ UNCHANGED <<endpoint, rows, inserted, history>> /\ faults' \in 0..MaxFaults
    BY <1>6, <1>10 DEF PrevPage
  <2>2. walk.page - 1 \in Nat \ {0}
    BY <1>2, <2>1
  <2>3. TypeOK'
    BY <1>5, <2>1, <2>2
  <2>4. Skipped(walk.page - 1) <= Passed
    BY <1>2, <2>1 DEF Passed
  <2>5. intact => Skipped(walk.page - 1) < Cardinality(List)
    BY <1>1, <1>2, <1>4, <2>1
  <2> QED BY <2>1, <2>2, <2>3, <2>4, <2>5, AskingStep
<1> QED BY <1>7, <1>8, <1>9, <1>10 DEF Client
(***************************************************************************)
(* The first statement of a request keeps the invariant, and so does a     *)
(* request that fails.                                                     *)
(***************************************************************************)
LEMMA CountStep ==
  ASSUME IInv, Count \/ RequestFails
  PROVE  IInv'
<1>1. TypeOK /\ IsFiniteSet(rows) /\ walk.pc \in {"asked", "counted"}
      /\ UNCHANGED <<endpoint, rows, inserted, history>>
  BY DEF IInv, Count, RequestFails
<1>2. Cardinality(List) \in Nat
  BY <1>1, ListTypes
<1>3. faults' \in 0..MaxFaults
  BY <1>1, ListingAssumption DEF TypeOK, Count, RequestFails, Fault
<1>4. /\ walk'.filter = walk.filter /\ walk'.meant = walk.meant
      /\ walk'.page = walk.page /\ walk'.items = walk.items
      /\ walk'.pc \in {"counted", "failed"}
      /\ walk'.total \in Nat /\ (walk'.pc = "counted" => walk'.total = Cardinality(List))
      /\ walk' \in [pc : {"none", "asked", "counted", "shown", "failed"},
                    filter : Filter, meant : Filter,
                    page : Nat \ {0}, total : Nat, items : SUBSET Row]
  <2>1. CASE Count
    <3>1. walk' = [walk EXCEPT !.pc = "counted", !.total = Cardinality(List)]
      BY <2>1 DEF Count, CountOf
    <3> QED BY <1>1, <1>2, <3>1 DEF TypeOK
  <2>2. CASE RequestFails
    <3>1. walk' = [walk EXCEPT !.pc = "failed", !.total = 0]
      BY <2>2 DEF RequestFails
    <3> QED BY <1>1, <3>1 DEF TypeOK
  <2> QED BY <2>1, <2>2
<1>5. TypeOK'
  BY <1>1, <1>3, <1>4 DEF TypeOK, history
<1>6. List' = List /\ Unread' = Unread /\ Passed' = Passed
  BY <1>1, <1>4 DEF List, Unread, Conditions, NotBefore, NotAfter, Untied, Passed, Skipped, history
<1>7. NoneBehind'
  BY <1>1, <1>6 DEF IInv, NoneBehind, Newer, history
<1>8. intact' => start' \subseteq Ids(List)'
                 /\ (walk'.page = 1 \/ Skipped(walk.page)' < Cardinality(List)')
  BY <1>1, <1>4, <1>6 DEF IInv, Ids, Skipped, history
<1>9. walk'.pc = "counted" => walk'.total <= Cardinality(List)'
  BY <1>2, <1>4, <1>6
<1> QED BY <1>1, <1>4, <1>5, <1>7, <1>8, <1>9
        DEF IInv, PageFull, EmptyPageMeansEmptyList, PageMeansInstants

(***************************************************************************)
(* The second statement: the page is full, and what it does not show of    *)
(* the rows still to be seen is ahead of it.                               *)
(***************************************************************************)
LEMMA FetchStep ==
  ASSUME IInv, Fetch
  PROVE  IInv'
<1>1. TypeOK /\ IsFiniteSet(rows) /\ walk.pc = "counted" /\ walk.page \in Nat \ {0}
      /\ UNCHANGED <<endpoint, rows, inserted, start, intact, faults>>
  BY DEF IInv, TypeOK, Fetch
<1>2. PICK page \in Pages(List, walk.page) :
        walk' = [walk EXCEPT !.pc = "shown", !.items = page] /\ shown' = shown \cup Ids(page)
  BY DEF Fetch
<1>3. /\ List \subseteq rows /\ List \subseteq Row /\ IsFiniteSet(List)
      /\ Cardinality(List) \in Nat
      /\ \A r \in rows : r.id \in 1..MaxRows /\ r.time \in Int
  BY <1>1, ListTypes
<1>4. /\ page \subseteq List /\ Cardinality(page) \in Nat
      /\ \/ Cardinality(page) = PageSize
         \/ Skipped(walk.page) + Cardinality(page) >= Cardinality(List)
      /\ Skipped(walk.page) < Cardinality(List) => Cardinality(page) > 0
  BY <1>1, <1>2, <1>3, PageCount
<1>5. /\ walk'.filter = walk.filter /\ walk'.meant = walk.meant /\ walk'.page = walk.page
      /\ walk'.items = page /\ walk'.pc = "shown" /\ walk'.total = walk.total
      /\ walk' \in [pc : {"none", "asked", "counted", "shown", "failed"},
                    filter : Filter, meant : Filter,
                    page : Nat \ {0}, total : Nat, items : SUBSET Row]
  <2>1. page \subseteq Row
    BY <1>3, <1>4
  <2> QED BY <1>1, <1>2, <2>1 DEF TypeOK
<1>6. TypeOK'
  <2>1. Ids(page) \subseteq 1..MaxRows
    BY <1>3, <1>4 DEF Ids
  <2> QED BY <1>1, <1>2, <1>5, <2>1 DEF TypeOK
<1>7. List' = List
  BY <1>1, <1>5 DEF List, Conditions, NotBefore, NotAfter
<1>8. /\ Skipped(walk.page) \in Nat /\ Skipped(walk.page + 1) = Skipped(walk.page) + PageSize
      /\ walk.page = 1 => Skipped(walk.page) = 0
      /\ walk.total \in Nat
  BY <1>1, SkippedStep DEF TypeOK
<1>9. NoneBehind'
  <2>1. SUFFICES ASSUME intact, NEW r \in List, r.id \in start \ shown', Untied(List, r)
                 PROVE  Cardinality(Newer(List, r)) >= Skipped(walk.page + 1)
    BY <1>1, <1>5, <1>7 DEF NoneBehind, Unread, Untied, Newer, Passed, Skipped
  <2>2. r \notin page /\ r \in Unread
    BY <1>2, <2>1 DEF Unread, Ids
  <2>3. Cardinality(Newer(List, r)) >= Skipped(walk.page)
    BY <1>1, <2>1, <2>2 DEF IInv, NoneBehind, Passed
  <2>4. \A s \in List : s.time \in Int
    BY <1>3
  <2>5. r \in List \ page
    BY <2>1, <2>2
  <2> QED BY <1>1, <1>2, <1>3, <2>1, <2>3, <2>4, <2>5, NotShownIsAhead
<1>10. intact \/ endpoint # "alerts" => walk.total <= Cardinality(List)
  BY <1>1 DEF IInv
<1>11. PageFull'
  <2>1. SUFFICES ASSUME endpoint # "alerts"
                 PROVE  \/ Cardinality(page) = PageSize
                        \/ Skipped(walk.page) + Cardinality(page) >= walk.total
    BY <1>1, <1>5 DEF PageFull, Skipped
  <2> QED BY <1>3, <1>4, <1>8, <1>10, <2>1
<1>12. EmptyPageMeansEmptyList'
  <2>1. SUFFICES ASSUME intact, page = {} PROVE walk.total = 0
    BY <1>1, <1>5 DEF EmptyPageMeansEmptyList
  <2>2. Cardinality(page) = 0
    BY <2>1, FS_EmptySet
  <2>3. Cardinality(List) = 0
    BY <1>3, <1>4, <1>8, <2>1, <2>2 DEF IInv
  <2> QED BY <1>8, <1>10, <2>1, <2>3
<1>13. PageMeansInstants'
  <2>1. \A r \in page : Conditions(walk.filter, r)
    BY <1>4 DEF List
  <2>2. walk.filter = walk.meant
    BY DEF IInv
  <2> QED BY <1>5, <2>1, <2>2 DEF PageMeansInstants, Conditions, NotBefore, NotAfter
<1>14. intact' => start' \subseteq Ids(List)'
                  /\ (walk'.page = 1 \/ Skipped(walk.page)' < Cardinality(List)')
  BY <1>1, <1>5, <1>7 DEF IInv, Ids, Skipped
<1>15. intact' => walk'.total <= Cardinality(List)'
  BY <1>1, <1>5, <1>7, <1>10
<1>16. walk'.filter = walk'.meant
  BY <1>5 DEF IInv
<1> QED BY <1>1, <1>5, <1>6, <1>9, <1>11, <1>12, <1>13, <1>14, <1>15, <1>16 DEF IInv
(***************************************************************************)
(* A row that arrives keeps the invariant.                                 *)
(***************************************************************************)
LEMMA InsertStep ==
  ASSUME IInv, Insert
  PROVE  IInv'
<1>1. TypeOK /\ IsFiniteSet(rows)
  BY DEF IInv
<1>2. PICK t \in Times, tag \in Tags :
        rows' = rows \cup {[id |-> inserted', time |-> t, tag |-> tag]}
  BY DEF Insert
<1>3. inserted' = inserted + 1 /\ inserted' \in 1..MaxRows
      /\ UNCHANGED <<endpoint, walk, history, faults>>
  BY <1>1, ListingAssumption DEF Insert, TypeOK
<1> DEFINE new == [id |-> inserted', time |-> t, tag |-> tag]
<1>4. new \in Row /\ new.id = inserted + 1
  BY <1>3 DEF Row
<1>5. \A r \in rows : r.id <= inserted /\ r.id \in Int
  BY <1>1, ListTypes DEF TypeOK
<1>6. inserted \in Int
  BY <1>1 DEF TypeOK
<1> HIDE DEF new
<1>7. \A r, s \in rows' : r.id = s.id => r = s
  BY <1>1, <1>2, <1>4, <1>5, <1>6 DEF TypeOK, new
<1>8. rows' \subseteq Row /\ \A r \in rows' : r.id <= inserted'
  BY <1>1, <1>2, <1>3, <1>4, <1>5, <1>6 DEF TypeOK, new
<1>9. TypeOK'
  BY <1>1, <1>3, <1>7, <1>8 DEF TypeOK, history
<1>10. IsFiniteSet(rows)'
  BY <1>1, <1>2, FS_AddElement
<1>11. Ids(List) \subseteq Ids(List')
  BY <1>2, <1>3 DEF Ids, List, Conditions, NotBefore, NotAfter
<1>12. \A r \in rows, s \in rows' : r.id = s.id => r.time = s.time
  BY <1>2, <1>7
<1> QED BY <1>3, <1>9, <1>10, <1>11, <1>12, TableStep DEF history

(***************************************************************************)
(* A changed status or an emptied table keeps the invariant.               *)
(***************************************************************************)
LEMMA LossStep ==
  ASSUME IInv, Retag \/ Reset
  PROVE  IInv'
<1>1. /\ TypeOK /\ IsFiniteSet(rows) /\ Fault /\ Watch
      /\ UNCHANGED <<endpoint, inserted, walk, start, shown>>
  BY DEF IInv, Retag, Reset
<1>2. /\ rows' \subseteq Row /\ \A r \in rows' : r.id <= inserted
      /\ \A r, s \in rows' : r.id = s.id => r = s
      /\ \A r \in rows, s \in rows' : r.id = s.id => r.time = s.time
      /\ IsFiniteSet(rows')
  <2>1. CASE Reset
    BY <2>1, FS_EmptySet DEF Reset
  <2>2. CASE Retag
    <3>1. PICK r \in rows, tag \in Tags : rows' = (rows \ {r}) \cup {[r EXCEPT !.tag = tag]}
      BY <2>2 DEF Retag
    <3> DEFINE new == [r EXCEPT !.tag = tag]
    <3>2. new \in Row /\ new.id = r.id /\ new.time = r.time
      BY <1>1 DEF TypeOK, Row
    <3> HIDE DEF new
    <3>3. rows' = (rows \ {r}) \cup {new}
      BY <3>1 DEF new
    <3>4. IsFiniteSet(rows')
      BY <1>1, <3>3, FS_RemoveElement, FS_AddElement
    <3> QED BY <1>1, <3>2, <3>3, <3>4 DEF TypeOK
  <2> QED BY <2>1, <2>2
<1>3. TypeOK'
  <2>1. faults' \in 0..MaxFaults
    BY <1>1, ListingAssumption DEF TypeOK, Fault
  <2>2. intact' \in BOOLEAN
    BY <1>1 DEF Watch
  <2> QED BY <1>1, <1>2, <2>1, <2>2 DEF TypeOK
<1>4. intact' => intact /\ Ids(List) \subseteq Ids(List')
  BY <1>1 DEF Watch, Ids
<1>5. ~(walk.pc = "counted" /\ endpoint # "alerts")
  BY DEF Retag, Reset
<1> QED BY <1>1, <1>2, <1>3, <1>4, <1>5, TableStep

(***************************************************************************)
(* Nobody has asked for anything and the table is empty.                   *)
(***************************************************************************)
LEMMA ListingInit == Init => IInv
<1> SUFFICES ASSUME Init PROVE IInv
  OBVIOUS
<1>1. TypeOK
  BY ListingAssumption DEF Init, TypeOK, Filter, TagConditions
<1>2. IsFiniteSet(rows)
  BY FS_EmptySet DEF Init
<1> QED BY <1>1, <1>2 DEF Init, IInv, NoneBehind, Unread, PageFull, EmptyPageMeansEmptyList,
                          PageMeansInstants, List, Ids

-------------------------------------------------------------------------------
(* Theorems *)

(***************************************************************************)
(* The inductive invariant of the lists holds for every page size,         *)
(* whatever rows arrive, leave or are reset meanwhile.                     *)
(***************************************************************************)
THEOREM ListingInvariance == Spec => []IInv
<1>1. ASSUME IInv, [Next]_vars PROVE IInv'
  <2>1. CASE UNCHANGED vars
    <3>1. List' = List /\ Unread' = Unread /\ Passed' = Passed
      BY <2>1 DEF vars, List, Unread, Conditions, NotBefore, NotAfter, Untied, Passed, Skipped
    <3>2. TypeOK' /\ NoneBehind'
      BY <1>1, <2>1, <3>1 DEF vars, IInv, TypeOK, NoneBehind, Newer
    <3>3. PageFull' /\ EmptyPageMeansEmptyList' /\ PageMeansInstants'
      BY <1>1, <2>1 DEF vars, IInv, PageFull, EmptyPageMeansEmptyList, PageMeansInstants,
                        Skipped, Conditions, NotBefore, NotAfter
    <3> QED BY <1>1, <2>1, <3>1, <3>2, <3>3 DEF vars, IInv, Ids, Skipped
  <2>2. CASE Client
    BY <1>1, <2>2, ClientStep
  <2>3. CASE Count \/ RequestFails
    BY <1>1, <2>3, CountStep
  <2>4. CASE Fetch
    BY <1>1, <2>4, FetchStep
  <2>5. CASE Insert
    BY <1>1, <2>5, InsertStep
  <2>6. CASE Retag \/ Reset
    BY <1>1, <2>6, LossStep
  <2> QED BY <1>1, <2>1, <2>2, <2>3, <2>4, <2>5, <2>6 DEF Next
<1> QED BY <1>1, ListingInit, PTL DEF Spec

(***************************************************************************)
(* While nothing leaves the list, rows that a reader has not seen yet are  *)
(* never on a page behind the reader, however many rows arrive.            *)
(***************************************************************************)
THEOREM None_Behind == Spec => []NoneBehind
<1>1. IInv => NoneBehind
  BY DEF IInv
<1> QED BY <1>1, ListingInvariance, PTL

(***************************************************************************)
(* When the last page is on the screen, whatever page the rows that the    *)
(* reader began with have moved to meanwhile, all of them have been shown, *)
(* unless the total was outdated: what makes AllShown more than a hope.    *)
(***************************************************************************)
THEOREM LastPage_MeansAllShown == Spec => []LastPageMeansAllShown
<1>1. IInv => LastPageMeansAllShown
  <2> SUFFICES ASSUME IInv, walk.pc = "shown", intact, ~HasNext,
                      walk.total >= Cardinality(List), NEW r \in Unread
               PROVE  FALSE
    <3>1. IInv => walk.total \in Nat /\ Cardinality(List) \in Nat
      BY ListTypes DEF IInv, TypeOK
    <3> QED BY <3>1 DEF LastPageMeansAllShown
  <2>1. /\ IsFiniteSet(List) /\ Cardinality(List) \in Nat
        /\ walk.page \in Nat \ {0} /\ walk.total \in Nat
    BY ListTypes DEF IInv, TypeOK
  <2>2. Cardinality(Newer(List, r)) >= walk.page * PageSize
    BY <2>1 DEF IInv, NoneBehind, Passed, Skipped
  <2>3. walk.page * PageSize >= walk.total
    BY <2>1, ListingAssumption DEF HasNext
  <2>4. Cardinality(Newer(List, r)) < Cardinality(List)
    <3>1. Newer(List, r) \subseteq List \ {r} /\ r \in List
      <4>1. r.time \in Int
        BY ListTypes DEF IInv, Unread
      <4> QED BY <4>1 DEF Newer, Unread
    <3>2. IsFiniteSet(List \ {r}) /\ Cardinality(List \ {r}) = Cardinality(List) - 1
      BY <2>1, <3>1, FS_RemoveElement
    <3>3. /\ Cardinality(Newer(List, r)) <= Cardinality(List \ {r})
          /\ Cardinality(Newer(List, r)) \in Nat
      BY <3>1, <3>2, FS_Subset, FS_CardinalityType
    <3> QED BY <2>1, <3>2, <3>3
  <2>5. Cardinality(Newer(List, r)) \in Nat /\ walk.page * PageSize \in Nat
    <3>1. Newer(List, r) \subseteq List
      BY DEF Newer
    <3>2. Cardinality(Newer(List, r)) \in Nat
      BY <2>1, <3>1, FS_Subset, FS_CardinalityType
    <3> QED BY <2>1, <3>2, ListingAssumption
  <2> QED BY <2>1, <2>2, <2>3, <2>4, <2>5
<1> QED BY <1>1, ListingInvariance, PTL

(***************************************************************************)
(* A page has all the rows that its total promises, although the two are   *)
(* of different snapshots.                                                 *)
(***************************************************************************)
THEOREM Page_Full == Spec => []PageFull
<1>1. IInv => PageFull
  BY DEF IInv
<1> QED BY <1>1, ListingInvariance, PTL

(***************************************************************************)
(* A reader is told that there is nothing only when there is nothing, as   *)
(* long as no row leaves the list.                                         *)
(***************************************************************************)
THEOREM EmptyPage_MeansEmptyList == Spec => []EmptyPageMeansEmptyList
<1>1. IInv => EmptyPageMeansEmptyList
  BY DEF IInv
<1> QED BY <1>1, ListingInvariance, PTL

(***************************************************************************)
(* For every offset a client writes its times in, the rows it gets lie     *)
(* between the instants it meant.                                          *)
(***************************************************************************)
THEOREM Page_MeansInstants == Spec => []PageMeansInstants
<1>1. IInv => PageMeansInstants
  BY DEF IInv
<1> QED BY <1>1, ListingInvariance, PTL
===============================================================================
