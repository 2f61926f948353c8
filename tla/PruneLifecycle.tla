--------------------------- MODULE PruneLifecycle ---------------------------
(***************************************************************************)
(* The staged-deletion lifecycle of OVIS: candidate rows in                *)
(* ovis.prune_candidate, the hidden flag of the documents they speak of,   *)
(* the exclusion list and the trash snapshot, driven by concurrent         *)
(* operators (HTTP handlers of services/prune.rs), reapers (the background *)
(* task of services/prune_reaper.rs, one per backend instance) and         *)
(* scanners (the candidate writes of services/prune_scan.rs).              *)
(*                                                                         *)
(* Postgres gives atomic statements and the handlers are sequences of      *)
(* them, so every statement (or HTTP call to Onyx) is one action and a     *)
(* handler is a program counter.  Between two statements any other actor   *)
(* may run.  A candidate id stands for a bigserial row; a deadline is the  *)
(* boolean `due'; a row older than STUCK_AFTER_MINUTES is `old'.           *)
(***************************************************************************)
EXTENDS Naturals

CONSTANTS
  Docs, NoDoc,      \* document ids
  Ids, NoId,        \* candidate row ids: the bound on rows ever inserted
  Operators,        \* concurrent lifecycle requests
  Reapers,          \* reaper tasks, one per running backend instance
  Scanners,         \* scan writers
  RememberArgs,     \* values of the remember / exclude_future arguments tried
  GraceIsZero,      \* OVIS_PRUNE_GRACE_DAYS = 0
  MaxFaults,        \* bound: crashes, dropped requests and failed calls
  MaxCrawls,        \* bound: times the crawler brings a removed document back
  OwnerPatches      \* PATCH /pages/{id} may change the hidden flag

ASSUME ConstantsOK ==
  /\ NoDoc \notin Docs
  /\ NoId \notin Ids
  /\ Operators \cap Reapers = {}
  /\ Operators \cap Scanners = {}
  /\ Reapers \cap Scanners = {}
  /\ RememberArgs \subseteq {"no", "yes"}
  /\ GraceIsZero \in BOOLEAN
  /\ OwnerPatches \in BOOLEAN
  /\ MaxFaults \in Nat
  /\ MaxCrawls \in Nat

VARIABLES
  doc,      \* public.document: absent, or the hidden flag
  cand,     \* ovis.prune_candidate
  excl,     \* ovis.prune_exclusions: the reason, or "none"
  trash,    \* ovis.trash_document: hidden flag in the live snapshot, or "none"
  op,       \* what each actor is doing, with the values it has read
  faults,   \* faults still allowed
  crawls,   \* re-crawls still allowed
  owner,    \* history: the visibility given by somebody other than pruning
  last      \* history: the last thing that created or removed the document

vars == <<doc, cand, excl, trash, op, faults, crawls, owner, last>>

Actors == Operators \cup Reapers \cup Scanners

Flags == {"visible", "hidden"}
Flag(hidden) == IF hidden THEN "hidden" ELSE "visible"

\* OPEN_STATES, and the states that close a row.
OpenStates == {"candidate", "staged", "deleting"}
RowStates == OpenStates \cup {"none", "deleted", "dismissed", "restored"}

Row == [doc : Docs \cup {NoDoc}, state : RowStates, prev : BOOLEAN,
        due : BOOLEAN, old : BOOLEAN, remember : BOOLEAN]

NoRow == [doc |-> NoDoc, state |-> "none", prev |-> FALSE,
          due |-> FALSE, old |-> FALSE, remember |-> FALSE]

StagePCs   == {"st_read", "st_hide", "st_mark", "st_check", "st_unhide", "st_rem"}
RestorePCs == {"rs_mark", "rs_show", "rs_reopen"}
DismissPCs == {"dm_mark", "dm_excl"}
ReapPCs    == {"rp_claim", "rp_capture", "rp_commit", "rp_unclaim", "rp_mark", "rp_excl"}
RecoverPCs == {"rc_exists", "rc_mark"}
ScanPCs    == {"sc_open", "sc_write"}
PCs == {"idle", "ex_mark", "rr_insert"} \cup StagePCs \cup RestorePCs
         \cup DismissPCs \cup ReapPCs \cup RecoverPCs \cup ScanPCs

\* prev is the hidden flag the actor has read; arg the remember or
\* exclude_future value it carries ("none": the handler sets neither).
Op == [pc : PCs, id : Ids \cup {NoId}, doc : Docs \cup {NoDoc},
       prev : BOOLEAN, arg : {"none", "no", "yes"}]

Idle == [pc |-> "idle", id |-> NoId, doc |-> NoDoc, prev |-> FALSE, arg |-> "none"]

Exists(d) == doc[d] # "absent"

\* The partial unique index ix_ovis_prune_candidate_open_doc is over these rows.
OpenRow(d) == \E i \in Ids : cand[i].doc = d /\ cand[i].state \in OpenStates

Init ==
  /\ doc \in [Docs -> Flags]
  /\ cand = [i \in Ids |-> NoRow]
  /\ excl = [d \in Docs |-> "none"]
  /\ trash = [d \in Docs |-> "none"]
  /\ op = [a \in Actors |-> Idle]
  /\ faults = MaxFaults
  /\ crawls = MaxCrawls
  /\ owner = doc
  /\ last = [d \in Docs |-> "crawled"]

-----------------------------------------------------------------------------
(* Shorthands of the actions *)

Goto(a, pc) == op' = [op EXCEPT ![a].pc = pc]
Finish(a)   == op' = [op EXCEPT ![a] = Idle]

Begin(a, pc, i, prev, arg) ==
  /\ op[a].pc = "idle"
  /\ op' = [op EXCEPT ![a] = [pc |-> pc, id |-> i, doc |-> cand[i].doc,
                              prev |-> prev, arg |-> arg]]
  /\ UNCHANGED <<doc, cand, excl, trash, faults, crawls, owner, last>>

BeginDoc(a, pc, d, arg) ==
  /\ op[a].pc = "idle"
  /\ op' = [op EXCEPT ![a] = [pc |-> pc, id |-> NoId, doc |-> d,
                              prev |-> FALSE, arg |-> arg]]
  /\ UNCHANGED <<doc, cand, excl, trash, faults, crawls, owner, last>>

Fault == faults > 0 /\ faults' = faults - 1

OnlyOp     == UNCHANGED <<doc, cand, excl, trash, faults, crawls, owner, last>>
OnlyOpDoc  == UNCHANGED <<cand, excl, trash, crawls, owner, last>>
OnlyOpCand == UNCHANGED <<doc, excl, trash, faults, crawls, owner, last>>

\* An INSERT of a candidate row for d, refused by the unique index or by the
\* bound on rows.
FreeId(i) == cand[i].state = "none"
Opened(d) == [NoRow EXCEPT !.doc = d, !.state = "candidate"]

-----------------------------------------------------------------------------
(* services/prune.rs: requests resolve their selection, then act on the rows *)
(* as they were read (resolve_for, resolve_selection).                       *)

Stage(o, i) ==
  /\ cand[i].state = "candidate"
  /\ Begin(o, "st_read", i, FALSE, "none")

ScheduleDelete(o, i) ==
  \E remember \in RememberArgs :
     \/ /\ cand[i].state = "candidate"
        /\ Begin(o, "st_read", i, FALSE, remember)
     \/ /\ cand[i].state = "staged"
        /\ Begin(o, "ex_mark", i, FALSE, remember)

Restore(o, i) ==
  /\ cand[i].state = "staged"
  /\ Begin(o, "rs_mark", i, cand[i].prev, "none")

Dismiss(o, i) ==
  /\ cand[i].state = "candidate"
  /\ \E forever \in RememberArgs : Begin(o, "dm_mark", i, FALSE, forever)

\* DELETE /prune/exclusions/{id} is one statement.
DeleteExclusion(d) ==
  /\ excl[d] # "none"
  /\ excl' = [excl EXCEPT ![d] = "none"]
  /\ UNCHANGED <<doc, cand, trash, op, faults, crawls, owner, last>>

-----------------------------------------------------------------------------
(* stage_one: read hidden, hide, flip the row, undo when the flip is lost    *)

ReadHidden(a) ==
  /\ op[a].pc = "st_read"
  /\ IF Exists(op[a].doc)
       THEN op' = [op EXCEPT ![a].pc = "st_hide",
                             ![a].prev = (doc[op[a].doc] = "hidden")]
       ELSE Finish(a)
  /\ OnlyOp

\* Mutant: the hide is started but not waited for.
HideLater(a) ==
  /\ op[a].pc = "st_hide"
  /\ IF Exists(op[a].doc) THEN Goto(a, "st_mark") ELSE Finish(a)
  /\ OnlyOp

\* set_hidden(true): done; refused because the document is gone; or failed, in
\* which case Onyx may or may not have applied it.
Hide(a) ==
  LET d == op[a].doc IN
  /\ op[a].pc = "st_hide"
  /\ \/ /\ Exists(d)
        /\ doc' = [doc EXCEPT ![d] = "hidden"]
        /\ Goto(a, "st_mark")
        /\ UNCHANGED faults
     \/ /\ ~Exists(d)
        /\ Finish(a)
        /\ UNCHANGED <<doc, faults>>
     \/ /\ Exists(d)
        /\ Fault
        /\ doc' \in {doc, [doc EXCEPT ![d] = "hidden"]}
        /\ Finish(a)
  /\ OnlyOpDoc

\* Mutant: prev_hidden is not written.
StagedRowNoPrev(row, prev) ==
  [row EXCEPT !.state = "staged", !.due = GraceIsZero]

\* The row a successful mark_staged writes; the deadline is now() + grace.
StagedRow(row, prev) ==
  [row EXCEPT !.state = "staged", !.prev = prev, !.due = GraceIsZero]

MarkStaged(a) ==
  LET i == op[a].id IN
  /\ op[a].pc = "st_mark"
  /\ IF cand[i].state = "candidate"
       THEN /\ cand' = [cand EXCEPT ![i] = StagedRow(@, op[a].prev)]
            /\ IF op[a].arg = "none" THEN Finish(a) ELSE Goto(a, "st_rem")
       ELSE Goto(a, "st_check") /\ UNCHANGED cand
  /\ OnlyOpCand

CheckLostRace(a) ==
  /\ op[a].pc = "st_check"
  /\ IF cand[op[a].id].state \in {"staged", "deleting"} \/ op[a].prev
       THEN Finish(a)
       ELSE Goto(a, "st_unhide")
  /\ OnlyOp

\* The result of this set_hidden is ignored.
UnhideLostRace(a) ==
  LET d == op[a].doc IN
  /\ op[a].pc = "st_unhide"
  /\ Finish(a)
  /\ IF Exists(d) THEN doc' = [doc EXCEPT ![d] = "visible"] ELSE UNCHANGED doc
  /\ UNCHANGED faults
  /\ OnlyOpDoc

SetRemember(a) ==
  LET i == op[a].id IN
  /\ op[a].pc = "st_rem"
  /\ Finish(a)
  /\ IF cand[i].state = "staged"
       THEN cand' = [cand EXCEPT ![i].remember = (op[a].arg = "yes")]
       ELSE UNCHANGED cand
  /\ OnlyOpCand

-----------------------------------------------------------------------------
(* restore, dismiss, expedite                                                *)

\* Mutant: WHERE state IN ('staged', 'deleting').
MarkRestoredClaimed(o) ==
  LET i == op[o].id IN
  /\ op[o].pc = "rs_mark"
  /\ IF cand[i].state \in {"staged", "deleting"}
       THEN cand' = [cand EXCEPT ![i].state = "restored"] /\ Goto(o, "rs_show")
       ELSE UNCHANGED cand /\ Finish(o)
  /\ OnlyOpCand

MarkRestored(o) ==
  LET i == op[o].id IN
  /\ op[o].pc = "rs_mark"
  /\ IF cand[i].state = "staged"
       THEN cand' = [cand EXCEPT ![i].state = "restored"] /\ Goto(o, "rs_show")
       ELSE UNCHANGED cand /\ Finish(o)
  /\ OnlyOpCand

\* set_hidden(prev_hidden) on the way out of the waiting room.
ShowAgain(o) ==
  LET d == op[o].doc
      back == [doc EXCEPT ![d] = Flag(op[o].prev)] IN
  /\ op[o].pc = "rs_show"
  /\ \/ Exists(d) /\ doc' = back /\ Finish(o) /\ UNCHANGED faults
     \/ ~Exists(d) /\ Goto(o, "rs_reopen") /\ UNCHANGED <<doc, faults>>
     \/ Exists(d) /\ Fault /\ doc' \in {doc, back} /\ Goto(o, "rs_reopen")
  /\ OnlyOpDoc

\* sqlx_reopen_staged; the unique index refuses a second open row and the
\* error is ignored.
Reopen(o) ==
  LET i == op[o].id IN
  /\ op[o].pc = "rs_reopen"
  /\ Finish(o)
  /\ IF cand[i].state = "restored" /\ ~OpenRow(cand[i].doc)
       THEN cand' = [cand EXCEPT ![i].state = "staged"]
       ELSE UNCHANGED cand
  /\ OnlyOpCand

MarkDismissed(o) ==
  LET i == op[o].id IN
  /\ op[o].pc = "dm_mark"
  /\ IF cand[i].state = "candidate"
       THEN /\ cand' = [cand EXCEPT ![i].state = "dismissed"]
            /\ IF op[o].arg = "yes" THEN Goto(o, "dm_excl") ELSE Finish(o)
       ELSE UNCHANGED cand /\ Finish(o)
  /\ OnlyOpCand

ExcludeForever(o) ==
  /\ op[o].pc = "dm_excl"
  /\ excl' = [excl EXCEPT ![op[o].doc] = "user_excluded"]
  /\ Finish(o)
  /\ UNCHANGED <<doc, cand, trash, faults, crawls, owner, last>>

\* LEAST(stage_expires_at, now()): never extends a deadline.
ExpediteStaged(o) ==
  LET i == op[o].id IN
  /\ op[o].pc = "ex_mark"
  /\ Finish(o)
  /\ IF cand[i].state = "staged"
       THEN cand' = [cand EXCEPT ![i].due = TRUE,
                                 ![i].remember = (op[o].arg = "yes")]
       ELSE UNCHANGED cand
  /\ OnlyOpCand

-----------------------------------------------------------------------------
(* prune_reaper.rs: reap_due and delete_one                                  *)

Remembered(i) == IF cand[i].remember THEN "yes" ELSE "no"

\* A row of the due list, as read; the batch is worked through later.
ListDue(r, i) ==
  /\ cand[i].state = "staged" /\ cand[i].due
  /\ Begin(r, "rp_claim", i, cand[i].prev, Remembered(i))

\* Mutant: the number of rows the claim changed is not looked at.
ClaimUnchecked(r) ==
  LET i == op[r].id IN
  /\ op[r].pc = "rp_claim"
  /\ Goto(r, "rp_capture")
  /\ IF cand[i].state = "staged" /\ cand[i].due
       THEN cand' = [cand EXCEPT ![i].state = "deleting", ![i].old = FALSE]
       ELSE UNCHANGED cand
  /\ OnlyOpCand

ClaimForDeletion(r) ==
  LET i == op[r].id IN
  /\ op[r].pc = "rp_claim"
  /\ IF cand[i].state = "staged" /\ cand[i].due
       THEN /\ cand' = [cand EXCEPT ![i].state = "deleting", ![i].old = FALSE]
            /\ Goto(r, "rp_capture")
       ELSE UNCHANGED cand /\ Finish(r)
  /\ OnlyOpCand

\* capture reads the row and every chunk; a short read is refused.
Capture(r) ==
  /\ op[r].pc = "rp_capture"
  /\ \/ Exists(op[r].doc) /\ Goto(r, "rp_commit") /\ UNCHANGED faults
     \/ ~Exists(op[r].doc) /\ Goto(r, "rp_mark") /\ UNCHANGED faults
     \/ Fault /\ Goto(r, "rp_unclaim")
  /\ UNCHANGED <<doc, cand, excl, trash, crawls, owner, last>>

\* Mutant: the cascade runs before the row is copied.
DeleteThenTrash(r) ==
  LET d == op[r].doc IN
  /\ op[r].pc = "rp_commit"
  /\ Exists(d)
  /\ doc' = [doc EXCEPT ![d] = "absent"]
  /\ trash' = [trash EXCEPT ![d] = doc'[d]]
  /\ last' = [last EXCEPT ![d] = "reaped"]
  /\ Goto(r, "rp_mark")
  /\ UNCHANGED <<cand, excl, faults, crawls, owner>>

\* Mutant: the trash is off and nothing is copied.
DeleteOnly(r) ==
  LET d == op[r].doc IN
  /\ op[r].pc = "rp_commit"
  /\ Exists(d)
  /\ doc' = [doc EXCEPT ![d] = "absent"]
  /\ last' = [last EXCEPT ![d] = "reaped"]
  /\ Goto(r, "rp_mark")
  /\ UNCHANGED <<cand, excl, trash, faults, crawls, owner>>

\* trash_and_delete: snapshot row and cascade in one transaction, with the
\* snapshot's hidden flag set to prev_hidden.
TrashAndDelete(r) ==
  LET d == op[r].doc IN
  /\ op[r].pc = "rp_commit"
  /\ \/ /\ Exists(d)
        /\ trash' = [trash EXCEPT ![d] = Flag(op[r].prev)]
        /\ doc' = [doc EXCEPT ![d] = "absent"]
        /\ last' = [last EXCEPT ![d] = "reaped"]
        /\ Goto(r, "rp_mark")
        /\ UNCHANGED faults
     \/ /\ ~Exists(d)
        /\ Goto(r, "rp_mark")
        /\ UNCHANGED <<doc, trash, last, faults>>
     \/ /\ Fault
        /\ Goto(r, "rp_unclaim")
        /\ UNCHANGED <<doc, trash, last>>
  /\ UNCHANGED <<cand, excl, crawls, owner>>

\* Mutant: a failed deletion is only logged.
UnclaimForgotten(r) == op[r].pc = "rp_unclaim" /\ Finish(r) /\ OnlyOp

UnclaimDeletion(r) ==
  LET i == op[r].id IN
  /\ op[r].pc = "rp_unclaim"
  /\ Finish(r)
  /\ IF cand[i].state = "deleting"
       THEN cand' = [cand EXCEPT ![i].state = "staged"]
       ELSE UNCHANGED cand
  /\ OnlyOpCand

\* mark_deleted: delete_one ignores its failure, recovery does not (a failure
\* there is Abort).
MarkDeleted(r) ==
  LET i == op[r].id IN
  /\ op[r].pc \in {"rp_mark", "rc_mark"}
  /\ \/ /\ IF cand[i].state = "deleting"
             THEN cand' = [cand EXCEPT ![i].state = "deleted"]
             ELSE UNCHANGED cand
        /\ UNCHANGED faults
     \/ op[r].pc = "rp_mark" /\ Fault /\ UNCHANGED cand
  /\ IF op[r].arg = "yes" THEN Goto(r, "rp_excl") ELSE Finish(r)
  /\ UNCHANGED <<doc, excl, trash, crawls, owner, last>>

RememberExclusion(r) ==
  /\ op[r].pc = "rp_excl"
  /\ excl' = [excl EXCEPT ![op[r].doc] = "deleted_with_remember"]
  /\ Finish(r)
  /\ UNCHANGED <<doc, cand, trash, faults, crawls, owner, last>>

-----------------------------------------------------------------------------
(* prune_reaper.rs: recover_stuck_deleting and restage_recrawled             *)

ListStuck(r, i) ==
  /\ cand[i].state = "deleting" /\ cand[i].old
  /\ Begin(r, "rc_exists", i, cand[i].prev, Remembered(i))

CheckExists(r) ==
  /\ op[r].pc = "rc_exists"
  /\ Goto(r, IF Exists(op[r].doc) THEN "rp_unclaim" ELSE "rc_mark")
  /\ OnlyOp

\* recrawled_exclusions
FindRecrawled(r, d) ==
  /\ excl[d] = "deleted_with_remember"
  /\ Exists(d)
  /\ ~OpenRow(d)
  /\ BeginDoc(r, "rr_insert", d, "yes")

\* insert_restage_candidate skips the exclusion check on purpose; then
\* stage_one runs on the new row.
InsertRestage(r) ==
  LET d == op[r].doc IN
  /\ op[r].pc = "rr_insert"
  /\ \/ /\ ~OpenRow(d)
        /\ \E i \in Ids :
             /\ FreeId(i)
             /\ cand' = [cand EXCEPT ![i] = Opened(d)]
             /\ op' = [op EXCEPT ![r].pc = "st_read", ![r].id = i]
     \/ /\ OpenRow(d) \/ \A i \in Ids : ~FreeId(i)
        /\ UNCHANGED cand
        /\ Finish(r)
  /\ OnlyOpCand

-----------------------------------------------------------------------------
(* Scan writes: upsert_candidates reads the exclusion list, then the open    *)
(* rows, then inserts.  Updating an open candidate changes its reasons only. *)

ScanReadsExclusions(s, d) ==
  /\ Exists(d)
  /\ excl[d] = "none"
  /\ BeginDoc(s, "sc_open", d, "none")

ScanReadsOpenRows(s) ==
  /\ op[s].pc = "sc_open"
  /\ IF OpenRow(op[s].doc) THEN Finish(s) ELSE Goto(s, "sc_write")
  /\ OnlyOp

\* ON CONFLICT DO NOTHING
ScanInserts(s) ==
  LET d == op[s].doc IN
  /\ op[s].pc = "sc_write"
  /\ Finish(s)
  /\ \/ /\ ~OpenRow(d)
        /\ \E i \in Ids : FreeId(i) /\ cand' = [cand EXCEPT ![i] = Opened(d)]
     \/ /\ OpenRow(d) \/ \A i \in Ids : ~FreeId(i)
        /\ UNCHANGED cand
  /\ OnlyOpCand

\* close_stale_candidates, one row of the UPDATE: which candidates a finished
\* scan no longer flags is the scanner's business.
CloseStale(s, i) ==
  /\ op[s].pc = "idle"
  /\ cand[i].state = "candidate"
  /\ cand' = [cand EXCEPT ![i].state = "dismissed"]
  /\ UNCHANGED <<doc, excl, trash, op, faults, crawls, owner, last>>

-----------------------------------------------------------------------------
(* The rest of the world *)

\* Onyx's crawler brings a removed document back, visible.
Crawl(d) ==
  /\ ~Exists(d) /\ crawls > 0
  /\ crawls' = crawls - 1
  /\ doc' = [doc EXCEPT ![d] = "visible"]
  /\ owner' = [owner EXCEPT ![d] = "visible"]
  /\ last' = [last EXCEPT ![d] = "crawled"]
  /\ UNCHANGED <<cand, excl, trash, op, faults>>

\* DELETE /pages/{id}, or Onyx removing a connector's documents.
RemoveDocument(d) ==
  /\ Exists(d)
  /\ doc' = [doc EXCEPT ![d] = "absent"]
  /\ last' = [last EXCEPT ![d] = "removed"]
  /\ UNCHANGED <<cand, excl, trash, op, faults, crawls, owner>>

PatchHidden(d, flag) ==
  /\ OwnerPatches
  /\ Exists(d) /\ doc[d] # flag
  /\ doc' = [doc EXCEPT ![d] = flag]
  /\ owner' = [owner EXCEPT ![d] = flag]
  /\ UNCHANGED <<cand, excl, trash, op, faults, crawls, last>>

\* trash::restore, seen from here as the commit that re-inserts the row; the
\* steps around it are in module TrashStore.
RestoreFromTrash(d) ==
  /\ trash[d] # "none"
  /\ ~Exists(d)
  /\ doc' = [doc EXCEPT ![d] = trash[d]]
  /\ trash' = [trash EXCEPT ![d] = "none"]
  /\ last' = [last EXCEPT ![d] = "untrashed"]
  /\ UNCHANGED <<cand, excl, op, faults, crawls, owner>>

PurgeTrash(d) ==
  /\ trash[d] # "none"
  /\ trash' = [trash EXCEPT ![d] = "none"]
  /\ last' = [last EXCEPT ![d] = IF Exists(d) THEN @ ELSE "removed"]
  /\ UNCHANGED <<doc, cand, excl, op, faults, crawls, owner>>

\* stage_expires_at <= now() becomes true.
GraceElapses(i) ==
  /\ cand[i].state = "staged" /\ ~cand[i].due
  /\ cand' = [cand EXCEPT ![i].due = TRUE]
  /\ UNCHANGED <<doc, excl, trash, op, faults, crawls, owner, last>>

\* STUCK_AFTER_MINUTES have passed since the claim.  A claim that a reaper is
\* still working on is younger than that: one deletion takes seconds.
ClaimAges(i) ==
  /\ cand[i].state = "deleting" /\ ~cand[i].old
  /\ \A r \in Reapers : op[r].id # i
  /\ cand' = [cand EXCEPT ![i].old = TRUE]
  /\ UNCHANGED <<doc, excl, trash, op, faults, crawls, owner, last>>

\* The process dies, the client hangs up and the handler is dropped, or a
\* statement fails and `?' leaves the handler.
Abort(a) ==
  /\ op[a].pc # "idle"
  /\ Fault
  /\ Finish(a)
  /\ UNCHANGED <<doc, cand, excl, trash, crawls, owner, last>>

-----------------------------------------------------------------------------
StageSteps(a) ==
  ReadHidden(a) \/ Hide(a) \/ MarkStaged(a) \/ CheckLostRace(a)
    \/ UnhideLostRace(a) \/ SetRemember(a)

OperatorSteps(o) ==
  StageSteps(o) \/ MarkRestored(o) \/ ShowAgain(o) \/ Reopen(o)
    \/ MarkDismissed(o) \/ ExcludeForever(o) \/ ExpediteStaged(o)

Requests(o) ==
  \E i \in Ids : Stage(o, i) \/ ScheduleDelete(o, i) \/ Restore(o, i) \/ Dismiss(o, i)

ReaperSteps(r) ==
  StageSteps(r) \/ ClaimForDeletion(r) \/ Capture(r) \/ TrashAndDelete(r)
    \/ UnclaimDeletion(r) \/ MarkDeleted(r) \/ RememberExclusion(r)
    \/ CheckExists(r) \/ InsertRestage(r)

ReaperPicks(r) ==
  \/ \E i \in Ids : ListDue(r, i) \/ ListStuck(r, i)
  \/ \E d \in Docs : FindRecrawled(r, d)

ScannerSteps(s) == ScanReadsOpenRows(s) \/ ScanInserts(s)

ScannerPicks(s) ==
  \/ \E d \in Docs : ScanReadsExclusions(s, d)
  \/ \E i \in Ids : CloseStale(s, i)

World ==
  \/ \E d \in Docs : \/ Crawl(d) \/ RemoveDocument(d) \/ RestoreFromTrash(d)
                     \/ PurgeTrash(d) \/ DeleteExclusion(d)
                     \/ \E flag \in Flags : PatchHidden(d, flag)
  \/ \E i \in Ids : GraceElapses(i) \/ ClaimAges(i)

Next ==
  \/ \E o \in Operators : Requests(o) \/ OperatorSteps(o)
  \/ \E r \in Reapers : ReaperPicks(r) \/ ReaperSteps(r)
  \/ \E s \in Scanners : ScannerPicks(s) \/ ScannerSteps(s)
  \/ \E a \in Actors : Abort(a)
  \/ World

Spec == Init /\ [][Next]_vars

\* A spawned task and an accepted request run to their next await; the reaper's
\* timer fires for ever, each cycle looks at the due, the stuck and the
\* recrawled rows, and time passes.  Operators and scanners owe nothing.
Fairness ==
  /\ \A a \in Operators : WF_vars(OperatorSteps(a))
  /\ \A s \in Scanners : WF_vars(ScannerSteps(s))
  /\ \A r \in Reapers :
       /\ WF_vars(ReaperSteps(r))
       /\ \A i \in Ids : SF_vars(ListDue(r, i)) /\ SF_vars(ListStuck(r, i))
       /\ \A d \in Docs : SF_vars(FindRecrawled(r, d))
  /\ \A i \in Ids : WF_vars(GraceElapses(i)) /\ WF_vars(ClaimAges(i))

FairSpec == Spec /\ Fairness

-----------------------------------------------------------------------------
(* Properties *)

\* The shape of the state: candidate rows, documents, exclusions, snapshots and
\* what each handler holds in its local variables.
TypeOK ==
  /\ doc \in [Docs -> Flags \cup {"absent"}]
  /\ cand \in [Ids -> Row]
  /\ excl \in [Docs -> {"none", "user_excluded", "deleted_with_remember"}]
  /\ trash \in [Docs -> Flags \cup {"none"}]
  /\ op \in [Actors -> Op]
  /\ faults \in Nat
  /\ crawls \in Nat
  /\ owner \in [Docs -> Flags]
  /\ last \in [Docs -> {"crawled", "untrashed", "reaped", "removed"}]

\* Where a reaper works on a row that it has claimed, or that a crashed run had.
HoldsClaim(r) == op[r].pc \in {"rp_capture", "rp_commit", "rp_unclaim", "rp_mark",
                               "rc_exists", "rc_mark"}

\* A reaper at work on a deletion works on a row that is still `deleting', whose
\* deadline has passed and which is for the document it is about to cascade:
\* claim_for_deletion's state flip keeps restore, dismissal and scans away from
\* it until the reaper lets go.
ClaimHeld ==
  \A r \in Reapers : HoldsClaim(r) =>
    /\ op[r].id \in Ids
    /\ cand[op[r].id].doc = op[r].doc
    /\ cand[op[r].id].state = "deleting"
    /\ cand[op[r].id].due

\* A document is reaped only out of the waiting room: in the step that cascades
\* it, its row is `deleting' with an elapsed deadline, so a row that restore has
\* closed, that was dismissed, or whose grace is still running never loses its
\* document (pruning.md: "Until that moment, restore is one click/command").
ReapedOnlyWhenDue ==
  [][\A d \in Docs :
       (last'[d] = "reaped" /\ doc[d] # "absent" /\ doc'[d] = "absent") =>
         \E i \in Ids : cand[i].doc = d /\ cand[i].state = "deleting" /\ cand[i].due]_vars

\* The lifecycle implements the waiting room: a document waits while a row of
\* its is staged or being deleted; every step of every handler is a step of the
\* abstract specification or leaves it unchanged, so nothing is reaped before
\* its grace has run out and nothing reaped is without a snapshot (db/trash.rs:
\* "There is no third state where content is lost").
Awaits(d) == {i \in Ids : cand[i].doc = d /\ cand[i].state \in {"staged", "deleting"}}

Room == INSTANCE WaitingRoom WITH
  where   <- [d \in Docs |-> IF ~Exists(d) THEN last[d]
                             ELSE IF Awaits(d) = {} THEN "live" ELSE "waiting"],
  elapsed <- [d \in Docs |-> Exists(d) /\ \E i \in Awaits(d) : cand[i].due],
  saved   <- [d \in Docs |-> trash[d] # "none"]

WaitingRoomSpec == Room!Spec

\* The snapshot keeps the flag the document had before pruning touched it and
\* restore puts that flag back, so leaving the waiting room leaves the document
\* as its owner last saw it (pruning.md: "returns the document exactly as it
\* was").
RestoreExact ==
  [][\A o \in Operators :
       (op[o].pc = "rs_show" /\ op'[o].pc = "idle" /\ faults' = faults) =>
         doc'[op[o].doc] = owner[op[o].doc]]_vars

\* A document in the waiting room serves no search results: while a row is
\* staged its document, if there is one, is hidden (pruning.md: "A staged document
\* serves no search results").
StagedIsHidden ==
  \A i \in Ids : cand[i].state = "staged" => doc[cand[i].doc] # "visible"

\* The reaper comes round: a staged row whose deadline has passed leaves the
\* waiting room, through restore or through deletion, and a claim that a crash
\* left behind is taken up again.
DueIsResolved ==
  \A i \in Ids : (cand[i].state \in {"staged", "deleting"} /\ cand[i].due)
                   ~> cand[i].state \in {"deleted", "restored"}
=============================================================================
