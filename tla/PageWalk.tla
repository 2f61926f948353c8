------------------------------ MODULE PageWalk ------------------------------
(***************************************************************************)
(* A client walks the documents of one filter by cursor, by page number or *)
(* as a stream (cursor.rs, db/documents.rs, services/pages.rs,             *)
(* routes/stream.rs) while operators and the crawler change them.          *)
(*                                                                         *)
(* A row is its value in the column of the walk's sort; a row the filter   *)
(* leaves out, hidden or deleted, is Gone.                                 *)
(***************************************************************************)
EXTENDS Integers, FiniteSets

CONSTANTS
  MaxDoc,       \* documents 1..MaxDoc; the number stands for the id
  Keys,         \* values of a sort column
  Null,         \* a NULL chunk_count
  Gone,
  Sorts,        \* the sorts a walk may ask for
  Kinds,        \* "cursor", "numbered" and "stream" walks
  Limit,        \* rows of a page
  Batch,        \* STREAM_BATCH
  StreamLimit,  \* rows a stream is asked for
  MaxDepth,     \* MAX_OFFSET_DEPTH
  MaxEdits,     \* bound: changes to rows
  MaxFaults     \* bound: failed queries and lost answers

Docs == 1 .. MaxDoc
ChunkSorts == {"chunks_desc", "chunks_asc"}
AllSorts == ChunkSorts \cup {"updated_desc", "updated_asc", "boost_desc", "id_asc", "id_desc"}

ASSUME ConstantsOK ==
  /\ MaxDoc \in Nat /\ Limit \in Nat \ {0} /\ Batch \in Nat \ {0}
  /\ StreamLimit \in Nat /\ MaxDepth \in Nat
  /\ MaxEdits \in Nat /\ MaxFaults \in Nat
  /\ Keys \subseteq Int /\ Keys # {} /\ Null \notin Int /\ Gone \notin Int /\ Null # Gone
  /\ Gone \notin [key : Keys \cup {Null}, id : Docs]
  /\ Sorts \subseteq AllSorts /\ Kinds \subseteq {"cursor", "numbered", "stream"}

VARIABLES
  sort,     \* the sort of the walks of this behaviour
  table,    \* the rows
  walk,     \* what the client has and asks for
  answer,   \* the page that is under way to the client
  seen,     \* history: documents the walk was given
  twice,    \* history: documents it was given again
  touched,  \* history: rows changed since the walk began
  edits,    \* edits still allowed
  faults    \* faults still allowed

given == <<seen, twice>>
vars == <<sort, table, walk, answer, given, touched, edits, faults>>

\* The values of the column a sort reads: only chunk_count may be NULL, and an
\* id sort reads none.
Column(s) ==
  CASE s \in ChunkSorts -> Keys \cup {Null}
    [] s \in {"id_asc", "id_desc"} -> {CHOOSE k \in Keys : TRUE}
    [] OTHER -> Keys

-----------------------------------------------------------------------------
(* The order of the rows (SortOrder::order_by).  A position is a key and an id. *)

Position(d) == [key |-> table[d], id |-> d]

Chunked(p, q) ==
  \/ p.key # Null /\ q.key = Null
  \/ /\ p.key # Null /\ q.key # Null
     /\ IF sort = "chunks_desc" THEN p.key > q.key ELSE p.key < q.key
  \/ p.key = q.key /\ p.id > q.id

Before(p, q) ==
  \/ /\ sort \in {"updated_desc", "boost_desc"}
     /\ p.key > q.key \/ (p.key = q.key /\ p.id > q.id)
  \/ /\ sort = "updated_asc"
     /\ p.key < q.key \/ (p.key = q.key /\ p.id < q.id)
  \/ sort \in ChunkSorts /\ Chunked(p, q)
  \/ sort = "id_asc" /\ p.id < q.id
  \/ sort = "id_desc" /\ p.id > q.id

\* Mutant: the null tail is not said (the row of a NULL is neither < nor > n).
AfterNoTail(c, q) ==
  \/ /\ sort \in {"updated_desc", "boost_desc"}
     /\ q.key < c.key \/ (q.key = c.key /\ q.id < c.id)
  \/ /\ sort = "updated_asc"
     /\ q.key > c.key \/ (q.key = c.key /\ q.id > c.id)
  \/ /\ sort \in ChunkSorts /\ q.key # Null /\ c.key # Null
     /\ \/ IF sort = "chunks_desc" THEN q.key < c.key ELSE q.key > c.key
        \/ q.key = c.key /\ q.id < c.id
  \/ sort = "id_asc" /\ q.id > c.id
  \/ sort = "id_desc" /\ q.id < c.id

\* Mutant: the whole null tail comes after a cursor inside it.
AfterOrInTail(c, q) == AfterNoTail(c, q) \/ (sort \in ChunkSorts /\ q.key = Null)

\* The rows a cursor resumes at (push_keyset).
After(c, q) ==
  \/ /\ sort \in {"updated_desc", "boost_desc"}
     /\ q.key < c.key \/ (q.key = c.key /\ q.id < c.id)
  \/ /\ sort = "updated_asc"
     /\ q.key > c.key \/ (q.key = c.key /\ q.id > c.id)
  \/ /\ sort \in ChunkSorts /\ c.key # Null
     /\ \/ q.key = Null
        \/ q.key # Null /\ IF sort = "chunks_desc" THEN q.key < c.key ELSE q.key > c.key
        \/ q.key = c.key /\ q.id < c.id
  \/ sort \in ChunkSorts /\ c.key = Null /\ q.key = Null /\ q.id < c.id
  \/ sort = "id_asc" /\ q.id > c.id
  \/ sort = "id_desc" /\ q.id < c.id

Rows == {d \in Docs : table[d] # Gone}

\* The first n rows of S, in order, but for the first skip of them (LIMIT, OFFSET).
Slice(S, skip, n) ==
  {d \in S : LET k == Cardinality({e \in S : Before(Position(e), Position(d))})
             IN skip <= k /\ k < skip + n}

LastOf(P) == CHOOSE d \in P : \A e \in P \ {d} : Before(Position(e), Position(d))

\* list_documents: at a cursor or at an offset.
Fetched(at, skip, n) ==
  IF at = Gone THEN Slice(Rows, skip, n)
  ELSE Slice({d \in Rows : After(at, Position(d))}, 0, n)

OffsetForPage(page) == (page - 1) * Limit

-----------------------------------------------------------------------------
(* A walk: at is the cursor (Gone before the first page), page the number of *)
(* the next page, left what a stream has still to send.  It ends with "all"  *)
(* when the server says there is no more, with "cut" otherwise.              *)

Positions == [key : Keys \cup {Null}, id : Docs]
Walk == [kind : {"cursor", "numbered", "stream"}, pc : {"idle", "ready", "asked", "ended"},
         at : Positions \cup {Gone}, page : Nat, left : Nat, end : {"none", "all", "cut"}]
Idle == [kind |-> "cursor", pc |-> "idle", at |-> Gone, page |-> 1, left |-> 0, end |-> "none"]

\* next is next_cursor, Gone when there is no more.
Answer == [got : SUBSET Docs, next : Positions \cup {Gone}]
NoAnswer == [got |-> {}, next |-> Gone]

\* The shape of the state.
TypeOK ==
  /\ sort \in Sorts
  /\ table \in [Docs -> Column(sort) \cup {Gone}]
  /\ walk \in Walk /\ answer \in Answer
  /\ seen \subseteq Docs /\ twice \subseteq seen /\ touched \subseteq Docs
  /\ edits \in Nat /\ faults \in Nat

Init ==
  /\ sort \in Sorts
  /\ table \in [Docs -> Column(sort) \cup {Gone}]
  /\ walk = Idle /\ answer = NoAnswer
  /\ seen = {} /\ twice = {} /\ touched = {}
  /\ edits = MaxEdits /\ faults = MaxFaults

\* A client starts over, with another kind of walk perhaps.
Begin(kind) ==
  /\ walk.pc \in {"idle", "ended"}
  /\ walk' = [Idle EXCEPT !.kind = kind, !.pc = "ready", !.left = StreamLimit]
  /\ seen' = {} /\ twice' = {} /\ touched' = {}
  /\ UNCHANGED <<sort, table, answer, edits, faults>>

Give(P) ==
  /\ seen' = seen \cup P
  /\ twice' = twice \cup (seen \cap P)

Ended(how) == [walk EXCEPT !.pc = "ended", !.end = how]

\* validate_page_depth is about the page; list_documents repeats the check with
\* the extra row in it.
TooDeep == walk.kind = "numbered" /\ OffsetForPage(walk.page) + Limit + 1 > MaxDepth

\* One query for Limit + 1 rows, of which the last is not given, tells whether there
\* is more; the cursor is that of the last row given.
AskPage ==
  /\ walk.pc = "ready" /\ walk.kind # "stream" /\ ~TooDeep
  /\ LET skip == OffsetForPage(walk.page)
         rows == Fetched(walk.at, skip, Limit + 1)
         got == Fetched(walk.at, skip, Limit)
     IN answer' = [got |-> got, next |-> IF rows = got THEN Gone ELSE Position(LastOf(got))]
  /\ walk' = [walk EXCEPT !.pc = "asked"]
  /\ UNCHANGED <<sort, table, given, touched, edits, faults>>

RefuseDeepPage ==
  /\ walk.pc = "ready" /\ TooDeep
  /\ walk' = Ended("cut")
  /\ UNCHANGED <<sort, table, answer, given, touched, edits, faults>>

\* The client takes the page and, if there is one, its next_cursor.
TakePage ==
  /\ walk.pc = "asked"
  /\ Give(answer.got)
  /\ walk' = IF answer.next = Gone THEN Ended("all")
             ELSE IF walk.kind = "cursor" THEN [walk EXCEPT !.pc = "ready", !.at = answer.next]
             ELSE [walk EXCEPT !.pc = "ready", !.page = @ + 1]
  /\ answer' = NoAnswer
  /\ UNCHANGED <<sort, table, touched, edits, faults>>

\* The query fails or its answer is lost; the client asks for the page again.
LosePage ==
  /\ walk.pc = "asked" /\ faults > 0
  /\ faults' = faults - 1
  /\ walk' = [walk EXCEPT !.pc = "ready"]
  /\ answer' = NoAnswer
  /\ UNCHANGED <<sort, table, given, touched, edits>>

\* Mutant: the last batch is not trimmed to what is left.
StreamBatchWhole ==
  /\ walk.pc = "ready" /\ walk.kind = "stream"
  /\ LET got == Fetched(walk.at, 0, Batch)
     IN IF walk.left <= 0 THEN walk' = Ended("cut") /\ UNCHANGED given
        ELSE /\ Give(got)
             /\ walk' = IF Cardinality(got) < Batch THEN Ended("all")
                        ELSE [walk EXCEPT !.left = @ - Batch, !.at = Position(LastOf(got))]
  /\ UNCHANGED <<sort, table, answer, touched, edits, faults>>

\* A stream sends batches until its limit, an empty batch or a short one.
StreamBatch ==
  /\ walk.pc = "ready" /\ walk.kind = "stream"
  /\ LET size == IF walk.left < Batch THEN walk.left ELSE Batch
         got == Fetched(walk.at, 0, size)
     IN IF size = 0 THEN walk' = Ended("cut") /\ UNCHANGED given
        ELSE /\ Give(got)
             /\ walk' = IF Cardinality(got) < size THEN Ended("all")
                        ELSE [walk EXCEPT !.left = @ - size, !.at = Position(LastOf(got))]
  /\ UNCHANGED <<sort, table, answer, touched, edits, faults>>

\* The query fails or the client hangs up, with part of a batch sent perhaps.
StreamBreaks ==
  /\ walk.pc = "ready" /\ walk.kind = "stream" /\ faults > 0
  /\ faults' = faults - 1
  /\ \E n \in 0 .. Batch - 1 : Give(Fetched(walk.at, 0, n))
  /\ walk' = Ended("cut")
  /\ UNCHANGED <<sort, table, answer, touched, edits>>

\* A row changes its sort key, appears, is hidden or deleted.
Change(d) ==
  /\ edits > 0 /\ edits' = edits - 1
  /\ \E k \in (Column(sort) \cup {Gone}) \ {table[d]} : table' = [table EXCEPT ![d] = k]
  /\ touched' = touched \cup {d}
  /\ UNCHANGED <<sort, walk, answer, given, faults>>

Next ==
  \/ \E kind \in Kinds : Begin(kind)
  \/ AskPage \/ RefuseDeepPage \/ TakePage \/ LosePage
  \/ StreamBatch \/ StreamBreaks
  \/ \E d \in Docs : Change(d)

Spec == Init /\ [][Next]_vars

-----------------------------------------------------------------------------
(* Properties *)

\* A walk by cursor or stream, or one by number over rows nobody changed.
Steady == walk.kind # "numbered" \/ touched = {}

\* A document that nobody changed during a walk is given to the client once at
\* most, whatever happened to the rows around it, ties and the null tail of the
\* chunk sorts included (push_keyset against order_by).
NoRowTwice == Steady => twice \subseteq touched

\* When the server says that there is no more (has_more false, a short batch),
\* every document that was there all along has been given.
WalkComplete ==
  Steady /\ walk.pc = "ended" /\ walk.end = "all" => Rows \ touched \subseteq seen
=============================================================================
