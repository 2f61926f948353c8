----------------------------- MODULE ReaperCycle -----------------------------
(***************************************************************************)
(* One cycle of the reaper (services/prune_reaper.rs, run_cycle): recover  *)
(* the claims a crashed run left, check the index, read the hourly budget  *)
(* and the busy cc-pairs, then work through the due rows batch by batch    *)
(* until a batch deletes nothing.  PruneLifecycle says what happens to one *)
(* row; this module says which rows a cycle takes up, in which order, and  *)
(* how many.                                                               *)
(*                                                                         *)
(* A row is a number: rows are listed by deadline, so row 1 has the oldest *)
(* one.  The trailing hour is a set: rows leave it one by one.             *)
(***************************************************************************)
EXTENDS Naturals, FiniteSets

CONSTANTS
  MaxRow,        \* bound: rows 1..MaxRow are staged
  DueAtStart,    \* rows whose deadline has passed when the behaviour starts
  Reapers,       \* one per backend instance
  None,          \* no row, no cc-pair
  Pairs,         \* cc-pairs
  PairOf,        \* the cc-pair of a row, or None
  Unreadable,    \* rows of documents whose snapshot capture is refused every time
  MaxPerHour,    \* OVIS_PRUNE_MAX_DOCS_PER_HOUR
  BatchSize,     \* OVIS_PRUNE_REAPER_BATCH_SIZE
  MaxFaults      \* bound: crashes and failed statements

Rows == 1 .. MaxRow

ASSUME ConstantsOK ==
  /\ MaxRow \in Nat
  /\ DueAtStart \subseteq Rows
  /\ None \notin Rows \cup Pairs
  /\ PairOf \in [Rows -> Pairs \cup {None}]
  /\ Unreadable \subseteq Rows
  /\ MaxPerHour \in Nat \ {0}
  /\ BatchSize \in Nat \ {0}
  /\ MaxFaults \in Nat

VARIABLES
  state,      \* of the candidate rows; `waiting' and `due' are staged
  present,    \* the rows whose document exists
  old,        \* `deleting' rows older than STUCK_AFTER_MINUTES
  counted,    \* rows with deleted_at in the trailing hour
  cascaded,   \* history: documents the reaper deleted in the trailing hour
  busy,       \* cc-pairs with an IN_PROGRESS index attempt
  cycle,      \* what each reaper is doing, with its local variables
  faults      \* faults still allowed

vars == <<state, present, old, counted, cascaded, busy, cycle, faults>>

PCs == {"idle", "recover", "index", "budget", "busy", "fetch", "row",
        "delete", "mark", "unclaim"}

Cycle == [pc : PCs, budget : 0 .. MaxPerHour, busy : SUBSET Pairs, skipped : SUBSET Rows,
          work : SUBSET Rows, row : Rows \cup {None}, deleted : BOOLEAN]

Resting == [pc |-> "idle", budget |-> 0, busy |-> {}, skipped |-> {}, work |-> {},
            row |-> None, deleted |-> FALSE]

Due == {i \in Rows : state[i] = "due"}

\* ORDER BY stage_expires_at LIMIT n
First(n, S) == {i \in S : Cardinality({j \in S : j < i}) < n}
Oldest(S) == CHOOSE i \in S : \A j \in S : i <= j

Init ==
  /\ state = [i \in Rows |-> IF i \in DueAtStart THEN "due" ELSE "waiting"]
  /\ present = Rows
  /\ old = {}
  /\ counted = {}
  /\ cascaded = {}
  /\ busy \in SUBSET Pairs
  /\ cycle = [r \in Reapers |-> Resting]
  /\ faults = MaxFaults

At(r, pc) == cycle[r].pc = pc
Goto(r, pc) == cycle' = [cycle EXCEPT ![r].pc = pc]
EndCycle(r) == cycle' = [cycle EXCEPT ![r] = Resting]
Fault == faults > 0 /\ faults' = faults - 1
OnlyCycle == UNCHANGED <<state, present, old, counted, cascaded, busy, faults>>

-----------------------------------------------------------------------------
(* Before the batches *)

\* stuck_deleting, less the rows younger than the cutoff.
StartCycle(r) ==
  /\ At(r, "idle")
  /\ cycle' = [cycle EXCEPT ![r] = [Resting EXCEPT !.pc = "recover", !.work = old]]
  /\ OnlyCycle

\* Mutant: every row goes back to staged.
RecoverBlindly(r) ==
  LET i == Oldest(cycle[r].work) IN
  /\ At(r, "recover") /\ cycle[r].work # {}
  /\ cycle' = [cycle EXCEPT ![r].work = @ \ {i}]
  /\ state' = [state EXCEPT ![i] = "due"]
  /\ old' = old \ {i}
  /\ UNCHANGED <<present, counted, cascaded, busy, faults>>

\* A document that is still there goes back to staged, one that is gone closes
\* its row.  The look at the document and the update are one step here.
RecoverRow(r) ==
  LET i == Oldest(cycle[r].work) IN
  /\ At(r, "recover") /\ cycle[r].work # {}
  /\ cycle' = [cycle EXCEPT ![r].work = @ \ {i}]
  /\ IF state[i] = "deleting"
       THEN /\ state' = [state EXCEPT ![i] = IF i \in present THEN "due" ELSE "deleted"]
            /\ counted' = IF i \in present THEN counted ELSE counted \cup {i}
            /\ old' = old \ {i}
       ELSE UNCHANGED <<state, counted, old>>
  /\ UNCHANGED <<present, cascaded, busy, faults>>

RecoveryDone(r) ==
  /\ At(r, "recover") /\ cycle[r].work = {}
  /\ Goto(r, "index")
  /\ OnlyCycle

\* Read-only, unreachable or without a trash: the cycle halts.
CheckIndex(r) ==
  /\ At(r, "index")
  /\ Goto(r, "budget") \/ EndCycle(r)
  /\ OnlyCycle

\* Mutant: the budget is the whole ceiling, every cycle.
ReadBudgetFresh(r) ==
  /\ At(r, "budget")
  /\ IF Due = {}
       THEN EndCycle(r)
       ELSE cycle' = [cycle EXCEPT ![r].pc = "busy", ![r].budget = MaxPerHour]
  /\ OnlyCycle

\* deleted_last_hour
ReadBudget(r) ==
  LET left == IF Cardinality(counted) >= MaxPerHour THEN 0
                                                    ELSE MaxPerHour - Cardinality(counted) IN
  /\ At(r, "budget")
  /\ IF Due = {} \/ left = 0
       THEN EndCycle(r)
       ELSE cycle' = [cycle EXCEPT ![r].pc = "busy", ![r].budget = left]
  /\ OnlyCycle

ReadBusy(r) ==
  /\ At(r, "busy")
  /\ cycle' = [cycle EXCEPT ![r].pc = "fetch", ![r].busy = busy]
  /\ OnlyCycle

-----------------------------------------------------------------------------
(* The batches *)

\* As many rows as have been skipped are read on top of the batch.
FetchBatch(r) ==
  LET skipped == cycle[r].skipped
      batch == First(BatchSize, First(BatchSize + Cardinality(skipped), Due) \ skipped) IN
  /\ At(r, "fetch")
  /\ IF batch = {}
       THEN EndCycle(r)
       ELSE cycle' = [cycle EXCEPT ![r].pc = "row", ![r].work = batch, ![r].deleted = FALSE]
  /\ OnlyCycle

Skip(r, i) ==
  /\ cycle' = [cycle EXCEPT ![r].work = @ \ {i}, ![r].skipped = @ \cup {i}]
  /\ UNCHANGED state

\* Mutant: the budget is not looked at between rows.
TakeRowUnbudgeted(r) ==
  LET i == Oldest(cycle[r].work) IN
  /\ At(r, "row") /\ cycle[r].work # {}
  /\ IF PairOf[i] \in cycle[r].busy \/ state[i] # "due"
       THEN Skip(r, i)
       ELSE /\ state' = [state EXCEPT ![i] = "deleting"]
            /\ cycle' = [cycle EXCEPT ![r].pc = "delete", ![r].row = i]
  /\ UNCHANGED <<present, old, counted, cascaded, busy, faults>>

\* Out of budget, cc-pair indexing, or the claim is lost: skipped.
TakeRow(r) ==
  LET i == Oldest(cycle[r].work) IN
  /\ At(r, "row") /\ cycle[r].work # {}
  /\ IF cycle[r].budget = 0 \/ PairOf[i] \in cycle[r].busy \/ state[i] # "due"
       THEN Skip(r, i)
       ELSE /\ state' = [state EXCEPT ![i] = "deleting"]
            /\ cycle' = [cycle EXCEPT ![r].pc = "delete", ![r].row = i]
  /\ UNCHANGED <<present, old, counted, cascaded, busy, faults>>

\* trash_delete: the cascade commits, finds the document gone, or fails.
Delete(r) ==
  LET i == cycle[r].row IN
  /\ At(r, "delete")
  /\ \/ /\ i \in present \ Unreadable
        /\ present' = present \ {i}
        /\ cascaded' = cascaded \cup {i}
        /\ Goto(r, "mark")
        /\ UNCHANGED faults
     \/ /\ i \notin present
        /\ Goto(r, "mark")
        /\ UNCHANGED <<present, cascaded, faults>>
     \/ /\ \/ i \in present \cap Unreadable /\ UNCHANGED faults
           \/ Fault
        /\ Goto(r, "unclaim")
        /\ UNCHANGED <<present, cascaded>>
  /\ UNCHANGED <<state, old, counted, busy>>

Counted(r) ==
  cycle' = [cycle EXCEPT ![r].pc = "row", ![r].row = None, ![r].work = @ \ {cycle[r].row},
                         ![r].budget = @ - 1, ![r].deleted = TRUE]

\* mark_deleted, whose failure is ignored.
MarkDeleted(r) ==
  LET i == cycle[r].row IN
  /\ At(r, "mark")
  /\ Counted(r)
  /\ \/ /\ IF state[i] = "deleting"
             THEN /\ state' = [state EXCEPT ![i] = "deleted"]
                  /\ counted' = counted \cup {i}
                  /\ old' = old \ {i}
             ELSE UNCHANGED <<state, counted, old>>
        /\ UNCHANGED faults
     \/ Fault /\ UNCHANGED <<state, counted, old>>
  /\ UNCHANGED <<present, cascaded, busy>>

\* Mutant: a failure ends the batch.
UnclaimEndsBatch(r) ==
  LET i == cycle[r].row IN
  /\ At(r, "unclaim")
  /\ cycle' = [cycle EXCEPT ![r].pc = "row", ![r].row = None,
                            ![r].work = {}, ![r].skipped = @ \cup {i}]
  /\ IF state[i] = "deleting"
       THEN state' = [state EXCEPT ![i] = "due"] /\ old' = old \ {i}
       ELSE UNCHANGED <<state, old>>
  /\ UNCHANGED <<present, counted, cascaded, busy, faults>>

\* unclaim_deletion after a failure; the row is not tried again in this cycle.
Unclaim(r) ==
  LET i == cycle[r].row IN
  /\ At(r, "unclaim")
  /\ cycle' = [cycle EXCEPT ![r].pc = "row", ![r].row = None,
                            ![r].work = @ \ {i}, ![r].skipped = @ \cup {i}]
  /\ IF state[i] = "deleting"
       THEN state' = [state EXCEPT ![i] = "due"] /\ old' = old \ {i}
       ELSE UNCHANGED <<state, old>>
  /\ UNCHANGED <<present, counted, cascaded, busy, faults>>

\* A batch that deleted nothing ends the cycle.
EndBatch(r) ==
  /\ At(r, "row") /\ cycle[r].work = {}
  /\ IF cycle[r].deleted THEN Goto(r, "fetch") ELSE EndCycle(r)
  /\ OnlyCycle

-----------------------------------------------------------------------------
(* The rest of the system *)

Crash(r) ==
  /\ ~At(r, "idle")
  /\ Fault
  /\ EndCycle(r)
  /\ UNCHANGED <<state, present, old, counted, cascaded, busy>>

BecomesDue(i) ==
  /\ state[i] = "waiting"
  /\ \A j \in Rows : j < i => state[j] # "waiting"
  /\ state' = [state EXCEPT ![i] = "due"]
  /\ UNCHANGED <<present, old, counted, cascaded, busy, cycle, faults>>

Restore(i) ==
  /\ state[i] \in {"waiting", "due"}
  /\ state' = [state EXCEPT ![i] = "restored"]
  /\ UNCHANGED <<present, old, counted, cascaded, busy, cycle, faults>>

\* Somebody else deletes the document.
RemoveDocument(i) ==
  /\ i \in present
  /\ present' = present \ {i}
  /\ UNCHANGED <<state, old, counted, cascaded, busy, cycle, faults>>

IndexAttempt(p) ==
  /\ busy' = IF p \in busy THEN busy \ {p} ELSE busy \cup {p}
  /\ UNCHANGED <<state, present, old, counted, cascaded, cycle, faults>>

ClaimAges(i) ==
  /\ state[i] = "deleting" /\ i \notin old
  /\ \A r \in Reapers : cycle[r].row # i
  /\ old' = old \cup {i}
  /\ UNCHANGED <<state, present, counted, cascaded, busy, cycle, faults>>

\* An hour has passed since the cascade; deleted_at is not earlier than it.
HourPasses(i) ==
  /\ \/ i \in cascaded /\ cascaded' = cascaded \ {i} /\ UNCHANGED counted
     \/ i \in counted \ cascaded /\ counted' = counted \ {i} /\ UNCHANGED cascaded
  /\ UNCHANGED <<state, present, old, busy, cycle, faults>>

-----------------------------------------------------------------------------
Steps(r) ==
  \/ RecoverRow(r) \/ RecoveryDone(r) \/ CheckIndex(r) \/ ReadBudget(r) \/ ReadBusy(r)
  \/ FetchBatch(r) \/ TakeRow(r) \/ Delete(r) \/ MarkDeleted(r) \/ Unclaim(r) \/ EndBatch(r)

World ==
  \/ \E i \in Rows : \/ BecomesDue(i) \/ Restore(i) \/ RemoveDocument(i)
                     \/ ClaimAges(i) \/ HourPasses(i)
  \/ \E p \in Pairs : IndexAttempt(p)

Next ==
  \/ \E r \in Reapers : StartCycle(r) \/ Steps(r) \/ Crash(r)
  \/ World

Spec == Init /\ [][Next]_vars

\* The timer fires for ever and a cycle runs on; now and then the index can be
\* written; time passes.
Fairness ==
  /\ \A r \in Reapers : /\ WF_vars(StartCycle(r)) /\ WF_vars(Steps(r))
                        /\ SF_vars(CheckIndex(r) /\ Goto(r, "budget"))
  /\ \A i \in Rows : WF_vars(BecomesDue(i)) /\ WF_vars(ClaimAges(i)) /\ WF_vars(HourPasses(i))

FairSpec == Spec /\ Fairness

-----------------------------------------------------------------------------
(* Properties *)

\* The shape of the state: rows, the trailing hour and each cycle's locals.
TypeOK ==
  /\ state \in [Rows -> {"waiting", "due", "deleting", "deleted", "restored"}]
  /\ present \subseteq Rows
  /\ old \subseteq Rows
  /\ counted \subseteq Rows
  /\ cascaded \subseteq Rows
  /\ busy \subseteq Pairs
  /\ cycle \in [Reapers -> Cycle]
  /\ faults \in 0 .. MaxFaults

\* Each crash or failed statement costs the ceiling one document at most: the one
\* whose cascade committed and whose row did not get its deleted_at.
OvershootBounded == Cardinality(cascaded) <= MaxPerHour + (MaxFaults - faults)

\* No row says `deleted' while its document is there, whatever crashes did to the
\* run that claimed it, and a document the reaper took away has a row that says
\* so or is still to be recovered.
RowsTellTheTruth ==
  /\ \A i \in Rows : state[i] = "deleted" => i \notin present
  /\ \A i \in cascaded : state[i] \in {"deleting", "deleted"}

\* Rows that are blocked for good (their document is never captured, their cc-pair
\* indexes again and again) do not starve the due rows behind them as long as they
\* are fewer than a batch: whatever the budget, the failures and the crashes, a row
\* behind them is deleted or restored in the end.  A whole batch of them at the
\* head does starve the rest, since the cycle ends with the first batch that
\* deleted nothing.
DeferredIsResolved ==
  \A i \in Rows \ Unreadable : \A blocked \in SUBSET (1 .. i - 1) :
    /\ Cardinality(blocked) < BatchSize
    /\ Unreadable \cap (1 .. i - 1) \subseteq blocked
    => ((<>[](\A j \in (1 .. i) \ blocked : PairOf[j] \notin busy))
          => (state[i] \in {"due", "deleting"} ~> state[i] \in {"deleted", "restored"}))
=============================================================================
