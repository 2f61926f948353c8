----------------------------- MODULE TrashStore -----------------------------
(***************************************************************************)
(* Where a deleted document's content is: public.document and the index    *)
(* chunks in Onyx, the snapshot in ovis.trash_document, and the two queues *)
(* ovis.pending_index_deletes and ovis.pending_index_restores (db/trash.rs,*)
(* db/pending_deletes.rs, db/documents.rs, services/trash.rs, trash_delete *)
(* of services/prune_reaper.rs, the drain task of lib.rs).                 *)
(*                                                                         *)
(* Postgres and the index share no transaction, so each flow is a sequence *)
(* of Postgres transactions and index calls, one action each.  Content is  *)
(* the number of the crawl that produced it; tags and attribution travel   *)
(* with it.  A candidate row is what lets the reaper take the document.    *)
(***************************************************************************)
EXTENDS Naturals

CONSTANTS
  Docs,
  Operators,     \* requests: restore, purge, delete
  Reapers,       \* reaper tasks
  Drains,        \* pending-delete drain tasks
  NoDoc,
  Abortable,     \* actors whose handler may be dropped half way
  MaxVersion,    \* bound: crawls of a document
  MaxFaults,     \* bound: failed calls and dropped handlers
  Troubles       \* what may happen: "crawl" of a document a handler works on,
                 \* "restore" of one whose candidate is due or claimed, "drain" of
                 \* one a request works on, "due" at once (a grace of 0 days),
                 \* "enqueue" failing where its result is not looked at

ASSUME ConstantsOK ==
  /\ NoDoc \notin Docs
  /\ Operators \cap Reapers = {}
  /\ Operators \cap Drains = {}
  /\ Reapers \cap Drains = {}
  /\ Abortable \subseteq Operators \cup Reapers \cup Drains
  /\ MaxVersion \in Nat \ {0}
  /\ MaxFaults \in Nat
  /\ Troubles \subseteq {"crawl", "restore", "drain", "due", "enqueue"}

VARIABLES
  pg,        \* content in public.document, 0 when the row is gone
  chunks,    \* contents that have chunks in the index
  snap,      \* ovis.trash_document
  row,       \* the candidate row: none, due, deleting
  toDelete,  \* ovis.pending_index_deletes
  toRestore, \* ovis.pending_index_restores
  op,        \* what each actor is doing, with the values it has read
  newest,    \* content of the last crawl
  taken,     \* history: content the reaper took and nobody purged, 0 if none
  faults     \* faults still allowed

vars == <<pg, chunks, snap, row, toDelete, toRestore, op, newest, taken, faults>>

Actors == Operators \cup Reapers \cup Drains
Versions == 1 .. MaxVersion

\* whole: the captured content had its chunks in the index.
Snap == [ver : 0 .. MaxVersion, whole : BOOLEAN, restored : BOOLEAN,
         hold : BOOLEAN, expired : BOOLEAN]
NoSnap == [ver |-> 0, whole |-> FALSE, restored |-> FALSE, hold |-> FALSE, expired |-> FALSE]

InTrash(d) == snap[d].ver # 0
Restorable(d) == InTrash(d) /\ ~snap[d].restored

ReapPCs == {"rp_capture", "rp_commit", "rp_clear", "rp_mark"}
RestorePCs == {"rs_exists", "rs_commit", "rs_index", "rs_stamp"}
PCs == {"idle", "dl_clear", "pg_held", "pg_delete", "dr_delete", "dr_clear"}
         \cup ReapPCs \cup RestorePCs

\* ver and whole are the snapshot as captured or as read; exists is restore's
\* look at public.document; overwrite its argument.
Op == [pc : PCs, doc : Docs \cup {NoDoc}, ver : 0 .. MaxVersion, whole : BOOLEAN,
       exists : BOOLEAN, overwrite : BOOLEAN]
Idle == [pc |-> "idle", doc |-> NoDoc, ver |-> 0, whole |-> FALSE,
         exists |-> FALSE, overwrite |-> FALSE]

Init ==
  /\ pg = [d \in Docs |-> 1]
  /\ chunks = [d \in Docs |-> {1}]
  /\ snap = [d \in Docs |-> NoSnap]
  /\ row = [d \in Docs |-> "none"]
  /\ toDelete = {} /\ toRestore = {}
  /\ op = [a \in Actors |-> Idle]
  /\ newest = [d \in Docs |-> 1]
  /\ taken = [d \in Docs |-> 0]
  /\ faults = MaxFaults

At(a, pc) == op[a].pc = pc
Goto(a, pc) == op' = [op EXCEPT ![a].pc = pc]
Finish(a) == op' = [op EXCEPT ![a] = Idle]
Fault == faults > 0 /\ faults' = faults - 1
Working(pcs, d) == \E a \in Actors : op[a].pc \in pcs /\ op[a].doc = d

\* Without that trouble the drain and the handlers take turns on a document.
HasTurn(a, d) ==
  "drain" \in Troubles \/ \A b \in Actors :
    op[b].doc = d => (a \in Drains <=> b \in Drains) \/ op[b].pc \in {"pg_held", "pg_delete"}
BeginWith(a, d, local) == At(a, "idle") /\ HasTurn(a, d) /\ op' = [op EXCEPT ![a] = local]
Begin(a, pc, d) == BeginWith(a, d, [Idle EXCEPT !.pc = pc, !.doc = d])

Postgres == <<pg, snap, row, toDelete, toRestore, newest, taken>>

-----------------------------------------------------------------------------
(* The reaper: capture, snapshot and cascade, clear the index (trash_delete) *)

Claim(r, d) ==
  /\ row[d] = "due"
  /\ Begin(r, "rp_capture", d)
  /\ row' = [row EXCEPT ![d] = "deleting"]
  /\ UNCHANGED <<pg, chunks, snap, toDelete, toRestore, newest, taken, faults>>

\* enqueue on one of the two queues; `let _ =' at every call.
Enqueued(queue, d) == {queue \cup {d}} \cup (IF "enqueue" \in Troubles THEN {queue} ELSE {})

\* The document is gone: its chunks are queued and the row is closed.
AlreadyGone(r, d) ==
  /\ pg[d] = 0
  /\ toDelete' \in Enqueued(toDelete, d)
  /\ row' = [row EXCEPT ![d] = "none"]
  /\ Finish(r)

\* Nothing was deleted: the row goes back for a retry.
Unclaim(r, d) ==
  /\ Fault
  /\ row' = [row EXCEPT ![d] = "due"]
  /\ Finish(r)

Capture(r) ==
  LET d == op[r].doc IN
  /\ At(r, "rp_capture")
  /\ \/ /\ pg[d] # 0
        /\ op' = [op EXCEPT ![r].pc = "rp_commit", ![r].ver = pg[d],
                            ![r].whole = (pg[d] \in chunks[d])]
        /\ UNCHANGED <<row, toDelete, faults>>
     \/ AlreadyGone(r, d) /\ UNCHANGED faults
     \/ Unclaim(r, d) /\ UNCHANGED toDelete
  /\ UNCHANGED <<pg, chunks, snap, toRestore, newest, taken>>

\* Mutant: the conflict clause forgets restored_at = NULL.
SnapshotKeepsStamp(d, ver, whole) ==
  [ver |-> ver, whole |-> whole, restored |-> snap[d].restored, hold |-> snap[d].hold,
   expired |-> FALSE]

\* INSERT ... ON CONFLICT DO UPDATE leaves hold as it is.
Snapshot(d, ver, whole) ==
  [ver |-> ver, whole |-> whole, restored |-> FALSE, hold |-> snap[d].hold, expired |-> FALSE]

TrashAndDelete(r) ==
  LET d == op[r].doc IN
  /\ At(r, "rp_commit")
  /\ \/ /\ pg[d] # 0
        /\ snap' = [snap EXCEPT ![d] = Snapshot(d, op[r].ver, op[r].whole)]
        /\ pg' = [pg EXCEPT ![d] = 0]
        /\ taken' = [taken EXCEPT ![d] = pg[d]]
        /\ Goto(r, "rp_clear")
        /\ UNCHANGED <<row, toDelete, faults>>
     \/ AlreadyGone(r, d) /\ UNCHANGED <<pg, snap, taken, faults>>
     \/ Unclaim(r, d) /\ UNCHANGED <<pg, snap, taken, toDelete>>
  /\ UNCHANGED <<chunks, toRestore, newest>>

\* delete_document_chunks, and enqueue when it fails.
ClearIndex(d) ==
  \/ chunks' = [chunks EXCEPT ![d] = {}] /\ UNCHANGED <<toDelete, faults>>
  \/ Fault /\ toDelete' \in Enqueued(toDelete, d) /\ UNCHANGED chunks

ReaperClears(r) ==
  /\ At(r, "rp_clear")
  /\ ClearIndex(op[r].doc)
  /\ Goto(r, "rp_mark")
  /\ UNCHANGED <<pg, snap, row, toRestore, newest, taken>>

MarkDeleted(r) ==
  LET d == op[r].doc IN
  /\ At(r, "rp_mark")
  /\ row' = [row EXCEPT ![d] = IF @ = "deleting" THEN "none" ELSE @]
  /\ Finish(r)
  /\ UNCHANGED <<pg, chunks, snap, toDelete, toRestore, newest, taken, faults>>

\* Mutant: recovery closes the row and leaves the chunks to nobody.
RecoverForgets(d) ==
  /\ row[d] = "deleting" /\ ~Working(ReapPCs, d)
  /\ row' = [row EXCEPT ![d] = IF pg[d] # 0 THEN "due" ELSE "none"]
  /\ UNCHANGED <<pg, chunks, snap, toDelete, toRestore, op, newest, taken, faults>>

\* recover_stuck_deleting: a claim no live reaper is working on.
Recover(d) ==
  /\ row[d] = "deleting" /\ ~Working(ReapPCs, d)
  /\ IF pg[d] # 0
       THEN row' = [row EXCEPT ![d] = "due"] /\ UNCHANGED toDelete
       ELSE row' = [row EXCEPT ![d] = "none"] /\ toDelete' \in Enqueued(toDelete, d)
  /\ UNCHANGED <<pg, chunks, snap, toRestore, op, newest, taken, faults>>

-----------------------------------------------------------------------------
(* DELETE /pages/{id}: no snapshot (delete_document_cascading)               *)

DeletePage(o, d) ==
  /\ pg[d] # 0
  /\ Begin(o, "dl_clear", d)
  /\ pg' = [pg EXCEPT ![d] = 0]
  /\ UNCHANGED <<chunks, snap, row, toDelete, toRestore, newest, taken, faults>>

DeleteClears(o) ==
  /\ At(o, "dl_clear")
  /\ ClearIndex(op[o].doc)
  /\ Finish(o)
  /\ UNCHANGED <<pg, snap, row, toRestore, newest, taken>>

-----------------------------------------------------------------------------
(* Restore from the trash                                                    *)

StartRestore(o, d) ==
  /\ Restorable(d)
  /\ "restore" \in Troubles \/ row[d] = "none"
  /\ \E overwrite \in BOOLEAN :
       BeginWith(o, d, [pc |-> "rs_exists", doc |-> d, ver |-> snap[d].ver,
                        whole |-> snap[d].whole, exists |-> FALSE, overwrite |-> overwrite])
  /\ UNCHANGED <<chunks, faults>> /\ UNCHANGED Postgres

\* Mutant: a document that exists counts as restored.
CheckExistsSettles(o) ==
  LET exists == pg[op[o].doc] # 0 IN
  /\ At(o, "rs_exists")
  /\ IF exists /\ ~op[o].overwrite
       THEN Goto(o, "rs_stamp")
       ELSE op' = [op EXCEPT ![o].pc = "rs_commit", ![o].exists = exists]
  /\ UNCHANGED <<chunks, faults>> /\ UNCHANGED Postgres

CheckExists(o) ==
  LET exists == pg[op[o].doc] # 0 IN
  /\ At(o, "rs_exists")
  /\ IF exists /\ ~op[o].overwrite
       THEN Finish(o)
       ELSE op' = [op EXCEPT ![o].pc = "rs_commit", ![o].exists = exists]
  /\ UNCHANGED <<chunks, faults>> /\ UNCHANGED Postgres

\* One transaction.  It fails when the document to replace is gone, or when the
\* id has come back since the look.
RestoreRows(o) ==
  LET d == op[o].doc IN
  /\ At(o, "rs_commit")
  /\ IF op[o].exists = (pg[d] # 0)
       THEN /\ pg' = [pg EXCEPT ![d] = op[o].ver]
            /\ taken' = [taken EXCEPT ![d] = 0]
            /\ Goto(o, "rs_index")
       ELSE Finish(o) /\ UNCHANGED <<pg, taken>>
  /\ UNCHANGED <<chunks, snap, row, toDelete, toRestore, newest, faults>>

\* bulk_index_chunks writes chunk ids: chunks of other content with an id that
\* is not among them stay.
RestoreChunks(o) ==
  LET d == op[o].doc IN
  /\ At(o, "rs_index")
  /\ Goto(o, "rs_stamp")
  /\ \/ /\ op[o].whole
        /\ \E left \in SUBSET (chunks[d] \ {op[o].ver}) :
             chunks' = [chunks EXCEPT ![d] = left \cup {op[o].ver}]
        /\ UNCHANGED <<toRestore, faults>>
     \/ ~op[o].whole /\ UNCHANGED <<chunks, toRestore, faults>>
     \/ Fault /\ toRestore' \in Enqueued(toRestore, d) /\ UNCHANGED chunks
  /\ UNCHANGED <<pg, snap, row, toDelete, newest, taken>>

\* Mutant: the stamp is an upsert.
StampAnyway(o) ==
  /\ At(o, "rs_stamp")
  /\ snap' = [snap EXCEPT ![op[o].doc].restored = TRUE]
  /\ Finish(o)
  /\ UNCHANGED <<pg, chunks, row, toDelete, toRestore, newest, taken, faults>>

\* UPDATE ... SET restored_at = now() WHERE document_id = $1
StampRestored(o) ==
  LET d == op[o].doc IN
  /\ At(o, "rs_stamp")
  /\ snap' = [snap EXCEPT ![d].restored = InTrash(d)]
  /\ Finish(o)
  /\ UNCHANGED <<pg, chunks, row, toDelete, toRestore, newest, taken, faults>>

-----------------------------------------------------------------------------
(* Hold and purge                                                            *)

SetHold(d) ==
  /\ Restorable(d)
  /\ snap' = [snap EXCEPT ![d].hold = ~@]
  /\ UNCHANGED <<pg, chunks, row, toDelete, toRestore, op, newest, taken, faults>>

StartPurge(o, d) ==
  /\ InTrash(d)
  /\ Begin(o, "pg_held", d)
  /\ UNCHANGED <<chunks, faults>> /\ UNCHANGED Postgres

SkipHeld(o) ==
  LET d == op[o].doc IN
  /\ At(o, "pg_held")
  /\ IF Restorable(d) /\ snap[d].hold THEN Finish(o) ELSE Goto(o, "pg_delete")
  /\ UNCHANGED <<chunks, faults>> /\ UNCHANGED Postgres

\* due_for_purge
ListExpired(r, d) ==
  /\ Restorable(d) /\ ~snap[d].hold /\ snap[d].expired
  /\ Begin(r, "pg_delete", d)
  /\ UNCHANGED <<chunks, faults>> /\ UNCHANGED Postgres

\* DELETE FROM ovis.trash_document WHERE document_id = ANY($1)
Purge(a) ==
  LET d == op[a].doc IN
  /\ At(a, "pg_delete")
  /\ snap' = [snap EXCEPT ![d] = NoSnap]
  /\ taken' = [taken EXCEPT ![d] = 0]
  /\ Finish(a)
  /\ UNCHANGED <<pg, chunks, row, toDelete, toRestore, newest, faults>>

-----------------------------------------------------------------------------
(* The pending-delete drain                                                  *)

ListPending(q, d) ==
  /\ d \in toDelete
  /\ Begin(q, "dr_delete", d)
  /\ UNCHANGED <<chunks, faults>> /\ UNCHANGED Postgres

\* Mutant: an entry is dropped however the call ended.
DrainGivesUp(q) ==
  LET d == op[q].doc IN
  /\ At(q, "dr_delete")
  /\ \/ chunks' = [chunks EXCEPT ![d] = {}] /\ UNCHANGED faults
     \/ Fault /\ UNCHANGED chunks
  /\ Goto(q, "dr_clear")
  /\ UNCHANGED Postgres

DrainChunks(q) ==
  LET d == op[q].doc IN
  /\ At(q, "dr_delete")
  /\ \/ chunks' = [chunks EXCEPT ![d] = {}] /\ Goto(q, "dr_clear") /\ UNCHANGED faults
     \/ Fault /\ Finish(q) /\ UNCHANGED chunks
  /\ UNCHANGED Postgres

DrainDone(q) ==
  /\ At(q, "dr_clear")
  /\ toDelete' = toDelete \ {op[q].doc}
  /\ Finish(q)
  /\ UNCHANGED <<pg, chunks, snap, row, toRestore, newest, taken, faults>>

-----------------------------------------------------------------------------
(* The rest of the system *)

\* A candidate of this document is staged and its grace is over.  A grace of a
\* day or more outlasts every request on the document.
BecomesDue(d) ==
  /\ pg[d] # 0 /\ row[d] = "none"
  /\ "due" \in Troubles \/ ~Working(RestorePCs, d)
  /\ row' = [row EXCEPT ![d] = "due"]
  /\ UNCHANGED <<pg, chunks, snap, toDelete, toRestore, op, newest, taken, faults>>

\* The candidate is restored before the reaper takes it.
Unstage(d) ==
  /\ row[d] = "due"
  /\ row' = [row EXCEPT ![d] = "none"]
  /\ UNCHANGED <<pg, chunks, snap, toDelete, toRestore, op, newest, taken, faults>>

Expire(d) ==
  /\ InTrash(d) /\ ~snap[d].expired
  /\ snap' = [snap EXCEPT ![d].expired = TRUE]
  /\ UNCHANGED <<pg, chunks, row, toDelete, toRestore, op, newest, taken, faults>>

\* Onyx indexes the document: its row and all its chunks.
Crawl(d) ==
  /\ newest[d] < MaxVersion
  /\ "crawl" \in Troubles \/ (pg[d] = 0 /\ ~Working(PCs \ {"idle"}, d))
  /\ newest' = [newest EXCEPT ![d] = @ + 1]
  /\ pg' = [pg EXCEPT ![d] = newest'[d]]
  /\ chunks' = [chunks EXCEPT ![d] = {newest'[d]}]
  /\ UNCHANGED <<snap, row, toDelete, toRestore, op, taken, faults>>

Abort(a) ==
  /\ ~At(a, "idle")
  /\ Fault
  /\ Finish(a)
  /\ UNCHANGED chunks /\ UNCHANGED Postgres

-----------------------------------------------------------------------------
ReaperSteps(r) ==
  Capture(r) \/ TrashAndDelete(r) \/ ReaperClears(r) \/ MarkDeleted(r) \/ Purge(r)

OperatorSteps(o) ==
  DeleteClears(o) \/ CheckExists(o) \/ RestoreRows(o) \/ RestoreChunks(o) \/ StampRestored(o)
    \/ SkipHeld(o) \/ Purge(o)

DrainSteps(q) == DrainChunks(q) \/ DrainDone(q)

World(d) == SetHold(d) \/ BecomesDue(d) \/ Unstage(d) \/ Expire(d) \/ Crawl(d) \/ Recover(d)

Next ==
  \/ \E r \in Reapers : ReaperSteps(r) \/ \E d \in Docs : Claim(r, d) \/ ListExpired(r, d)
  \/ \E o \in Operators : OperatorSteps(o) \/ \E d \in Docs :
       DeletePage(o, d) \/ StartRestore(o, d) \/ StartPurge(o, d)
  \/ \E q \in Drains : DrainSteps(q) \/ \E d \in Docs : ListPending(q, d)
  \/ \E a \in Abortable : Abort(a)
  \/ \E d \in Docs : World(d)

Spec == Init /\ [][Next]_vars

\* Requests and tasks run on, both timers fire for ever, and each drain pass
\* starts with the oldest entries.
Fairness ==
  /\ \A r \in Reapers : WF_vars(ReaperSteps(r))
  /\ \A o \in Operators : WF_vars(OperatorSteps(o))
  /\ \A q \in Drains : /\ WF_vars(DrainSteps(q))
                       /\ \A d \in Docs : WF_vars(ListPending(q, d))
  /\ \A d \in Docs : WF_vars(Recover(d))

FairSpec == Spec /\ Fairness

-----------------------------------------------------------------------------
(* Properties *)

\* The shape of the state: content, snapshots, queues and handlers' locals.
TypeOK ==
  /\ pg \in [Docs -> 0 .. MaxVersion]
  /\ chunks \in [Docs -> SUBSET Versions]
  /\ snap \in [Docs -> Snap]
  /\ \A d \in Docs : ~InTrash(d) => snap[d] = NoSnap
  /\ row \in [Docs -> {"none", "due", "deleting"}]
  /\ toDelete \subseteq Docs
  /\ toRestore \subseteq Docs
  /\ op \in [Actors -> Op]
  /\ newest \in [Docs -> Versions]
  /\ taken \in [Docs -> 0 .. MaxVersion]
  /\ faults \in 0 .. MaxFaults

\* What the reaper took is in the trash, restorable, as it was when it was taken,
\* until it is restored or purged (trash.rs: "There is no third state where
\* content is lost").
NoThirdState ==
  \A d \in Docs : taken[d] # 0 => Restorable(d) /\ snap[d].ver = taken[d]

\* The flows amount to the vault of module Vault: content moves into the trash in
\* one step, comes back as a restore found it there, and its copy goes only when
\* the content is back or somebody purges it (trash.rs: "The snapshot and the
\* deletion share one transaction").
Vaulted == INSTANCE Vault WITH
  live  <- pg,
  kept  <- [d \in Docs |-> IF Restorable(d) THEN snap[d].ver ELSE 0],
  owed  <- [d \in Docs |-> taken[d] # 0],
  asked <- [d \in Docs |-> {op[a].ver : a \in {b \in Actors : /\ op[b].pc \in RestorePCs
                                                              /\ op[b].doc = d}}],
  made  <- newest

VaultSpec == Vaulted!Spec

\* Chunks whose document is gone are on the way out: a handler is still to clear
\* them, the drain has them on its list, or a claim is left for recovery to find
\* (api.md: "the id is queued and retried — no silent orphans").
OrphansAreQueued ==
  \A d \in Docs : (pg[d] = 0 /\ chunks[d] # {}) =>
    \/ d \in toDelete \/ row[d] # "none"
    \/ Working({"dl_clear", "rp_clear", "rs_index", "rs_stamp"}, d)

\* The drain and recovery get there: chunks without a document do not stay.
OrphansAreCleared ==
  \A d \in Docs : (pg[d] = 0 /\ chunks[d] # {}) ~> (pg[d] # 0 \/ chunks[d] = {})
=============================================================================
