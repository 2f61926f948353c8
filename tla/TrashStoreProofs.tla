--------------------------- MODULE TrashStoreProofs ---------------------------
(***************************************************************************)
(* What the trash keeps for every number of documents, reapers and drains, *)
(* crawls and faults: its types; what the reaper took can be restored when *)
(* nothing else writes the document meanwhile; and, with one request at a  *)
(* time whose handler is not dropped, no chunk is left to nobody.          *)
(***************************************************************************)
EXTENDS TrashStore, TLAPS

(***************************************************************************)
(* What a step writes to the locals of its actor.                          *)
(***************************************************************************)
LEMMA IdleIsOp == Idle \in Op
BY ConstantsOK DEF Idle, Op, PCs

LEMMA NoSnapIsSnap == NoSnap \in Snap /\ NoSnap.ver = 0 /\ ~NoSnap.restored
BY ConstantsOK DEF NoSnap, Snap

LEMMA SnapSame ==
  ASSUME NEW s \in Snap, NEW t \in Snap, s.ver = t.ver, s.whole = t.whole,
         s.restored = t.restored, s.hold = t.hold, s.expired = t.expired
  PROVE  s = t
BY DEF Snap

LEMMA NoSnapUnstamped == [NoSnap EXCEPT !.restored = FALSE] = NoSnap
<1>1. NoSnap \in Snap /\ NoSnap.restored = FALSE
  BY NoSnapIsSnap DEF NoSnap
<1> DEFINE s == [NoSnap EXCEPT !.restored = FALSE]
<1>2. /\ s \in Snap /\ s.ver = NoSnap.ver /\ s.whole = NoSnap.whole
      /\ s.restored = NoSnap.restored /\ s.hold = NoSnap.hold /\ s.expired = NoSnap.expired
  BY <1>1 DEF Snap
<1> HIDE DEF s
<1>3. s = NoSnap
  BY <1>1, <1>2, SnapSame
<1> QED BY <1>3 DEF s

\* What an actor knows about the document it works on.
LocalOK(o) ==
  /\ IF o.pc = "idle" THEN o.doc = NoDoc ELSE o.doc \in Docs
  /\ o.pc \in {"rp_commit"} \cup RestorePCs => o.ver # 0

Typed == TypeOK /\ \A a \in Actors : LocalOK(op[a])

StepsTo(a, o) == op' = [op EXCEPT ![a] = o]

LEMMA StepsToType ==
  ASSUME Typed, NEW a \in Actors, NEW o \in Op, StepsTo(a, o), LocalOK(o)
  PROVE  /\ op' \in [Actors -> Op]
         /\ op'[a] = o
         /\ \A b \in Actors \ {a} : op'[b] = op[b]
         /\ \A b \in Actors : LocalOK(op'[b])
BY DEF StepsTo, Typed, TypeOK

LEMMA FinishSteps ==
  ASSUME NEW a \in Actors, Finish(a)
  PROVE  StepsTo(a, Idle) /\ LocalOK(Idle)
BY DEF Finish, StepsTo, LocalOK, Idle, RestorePCs

LEMMA GotoSteps ==
  ASSUME Typed, NEW a \in Actors, NEW pc \in PCs \ {"idle", "rp_commit"}, Goto(a, pc),
         ~At(a, "idle"), pc \in RestorePCs => op[a].pc \in RestorePCs
  PROVE  \E o \in Op : /\ StepsTo(a, o) /\ LocalOK(o)
                       /\ o.pc = pc /\ o.doc = op[a].doc /\ o.ver = op[a].ver
<1> DEFINE o == [op[a] EXCEPT !.pc = pc]
<1>1. op[a] \in Op /\ LocalOK(op[a])
  BY DEF Typed, TypeOK
<1>2. o \in Op /\ o.pc = pc /\ o.doc = op[a].doc /\ o.ver = op[a].ver
  BY <1>1 DEF Op
<1>3. StepsTo(a, o)
  BY DEF Goto, StepsTo
<1>4. LocalOK(o)
  BY <1>1, <1>2 DEF LocalOK, At
<1> QED BY <1>2, <1>3, <1>4

LEMMA BeginSteps ==
  ASSUME NEW a \in Actors, NEW pc \in PCs \ ({"idle", "rp_commit"} \cup RestorePCs),
         NEW d \in Docs, Begin(a, pc, d)
  PROVE  \E o \in Op : /\ StepsTo(a, o) /\ LocalOK(o) /\ o.pc = pc /\ o.doc = d
<1> DEFINE o == [Idle EXCEPT !.pc = pc, !.doc = d]
<1>1. o \in Op /\ o.pc = pc /\ o.doc = d
  BY IdleIsOp DEF Idle, Op
<1>2. StepsTo(a, o)
  BY DEF Begin, BeginWith, StepsTo
<1>3. LocalOK(o)
  BY <1>1 DEF LocalOK
<1> QED BY <1>1, <1>2, <1>3

(***************************************************************************)
(* Type correctness.                                                       *)
(***************************************************************************)
StoreOK ==
  /\ pg \in [Docs -> 0 .. MaxVersion]
  /\ chunks \in [Docs -> SUBSET Versions]
  /\ snap \in [Docs -> Snap]
  /\ \A d \in Docs : ~InTrash(d) => snap[d] = NoSnap
  /\ row \in [Docs -> {"none", "due", "deleting"}]
  /\ toDelete \subseteq Docs
  /\ toRestore \subseteq Docs
  /\ newest \in [Docs -> Versions]
  /\ taken \in [Docs -> 0 .. MaxVersion]
  /\ faults \in 0 .. MaxFaults

LEMMA TypedIs == Typed <=> StoreOK /\ op \in [Actors -> Op] /\ \A a \in Actors : LocalOK(op[a])
BY DEF Typed, TypeOK, StoreOK

LEMMA TypedInit == Init => Typed
<1> SUFFICES ASSUME Init PROVE Typed
  OBVIOUS
<1>1. StoreOK
  BY ConstantsOK, NoSnapIsSnap DEF Init, StoreOK, Versions
<1>2. op \in [Actors -> Op] /\ \A a \in Actors : op[a] = Idle
  BY IdleIsOp DEF Init
<1>3. LocalOK(Idle)
  BY DEF LocalOK, Idle, RestorePCs
<1> QED BY <1>1, <1>2, <1>3, TypedIs

LEMMA FaultTyped ==
  ASSUME faults \in 0 .. MaxFaults, Fault \/ UNCHANGED faults
  PROVE  faults' \in 0 .. MaxFaults
BY ConstantsOK DEF Fault

LEMMA EnqueuedTyped ==
  ASSUME NEW queue \in SUBSET Docs, NEW d \in Docs, NEW q \in Enqueued(queue, d)
  PROVE  q \subseteq Docs /\ ("enqueue" \notin Troubles => q = queue \cup {d})
BY DEF Enqueued

\* A step writes the store, and its actor's locals, within their types.
LEMMA TypedFrom ==
  ASSUME Typed, StoreOK', NEW a \in Actors, NEW o \in Op, StepsTo(a, o), LocalOK(o)
  PROVE  Typed'
<1>1. /\ op' \in [Actors -> Op]
      /\ \A b \in Actors : LocalOK(op'[b])
  BY StepsToType
<1>2. \A b \in Actors : LocalOK(op[b])'
  BY <1>1 DEF LocalOK
<1> QED BY <1>1, <1>2 DEF Typed, TypeOK, StoreOK

LEMMA StoreSame ==
  ASSUME StoreOK, faults' \in 0 .. MaxFaults, UNCHANGED chunks, UNCHANGED Postgres
  PROVE  StoreOK'
BY DEF StoreOK, Postgres, InTrash

(* The three steps that write more of the locals than the pc. *)
Captured(r) ==
  LET d == op[r].doc IN
  /\ pg[d] # 0
  /\ op' = [op EXCEPT ![r].pc = "rp_commit", ![r].ver = pg[d],
                      ![r].whole = (pg[d] \in chunks[d])]

LEMMA CaptureSteps ==
  ASSUME Typed, NEW r \in Actors, Capture(r), Captured(r)
  PROVE  \E o \in Op : /\ StepsTo(r, o) /\ LocalOK(o)
                       /\ o.pc = "rp_commit" /\ o.doc = op[r].doc /\ o.ver = pg[op[r].doc]
<1> DEFINE d == op[r].doc
           v == pg[d]
           w == pg[d] \in chunks[d]
           o == [op[r] EXCEPT !.pc = "rp_commit", !.ver = v, !.whole = w]
<1>1. op[r] \in Op /\ d \in Docs
  BY DEF Typed, TypeOK, LocalOK, Capture, At
<1>2. v \in 0 .. MaxVersion /\ v # 0 /\ w \in BOOLEAN
  BY <1>1 DEF Typed, TypeOK, Captured
<1>3. StepsTo(r, o)
  BY DEF Captured, StepsTo
<1> HIDE DEF v, w
<1>4. o \in Op /\ o.pc = "rp_commit" /\ o.ver = v /\ o.doc = d
  BY <1>1, <1>2 DEF Op, PCs, ReapPCs
<1>5. LocalOK(o)
  BY <1>1, <1>2, <1>4 DEF LocalOK
<1> QED BY <1>3, <1>4, <1>5 DEF v

LEMMA CheckSteps ==
  ASSUME Typed, NEW a \in Actors, CheckExists(a), ~Finish(a)
  PROVE  \E o \in Op : /\ StepsTo(a, o) /\ LocalOK(o)
                       /\ o.pc = "rs_commit" /\ o.doc = op[a].doc /\ o.ver = op[a].ver
<1> DEFINE d == op[a].doc
           o == [op[a] EXCEPT !.pc = "rs_commit", !.exists = (pg[d] # 0)]
<1>1. op[a] \in Op /\ LocalOK(op[a])
  BY DEF Typed, TypeOK
<1>2. o \in Op /\ o.pc = "rs_commit" /\ o.doc = d /\ o.ver = op[a].ver
  BY <1>1 DEF Op, PCs, RestorePCs
<1>3. StepsTo(a, o)
  BY DEF CheckExists, StepsTo
<1>4. LocalOK(o)
  BY <1>1, <1>2 DEF LocalOK, CheckExists, At, RestorePCs
<1> QED BY <1>2, <1>3, <1>4

LEMMA StartSteps ==
  ASSUME Typed, NEW a \in Actors, NEW d \in Docs, StartRestore(a, d)
  PROVE  \E o \in Op : /\ StepsTo(a, o) /\ LocalOK(o)
                       /\ o.pc = "rs_exists" /\ o.doc = d /\ o.ver = snap[d].ver
<1>1. PICK overwrite \in BOOLEAN :
        op' = [op EXCEPT ![a] = [pc |-> "rs_exists", doc |-> d, ver |-> snap[d].ver,
                           whole |-> snap[d].whole, exists |-> FALSE, overwrite |-> overwrite]]
  BY DEF StartRestore, BeginWith
<1> DEFINE o == [pc |-> "rs_exists", doc |-> d, ver |-> snap[d].ver,
                 whole |-> snap[d].whole, exists |-> FALSE, overwrite |-> overwrite]
<1>2. o \in Op /\ o.pc = "rs_exists" /\ o.doc = d /\ o.ver = snap[d].ver /\ o.ver # 0
  BY DEF Op, PCs, RestorePCs, StartRestore, Restorable, InTrash, Typed, TypeOK, Snap
<1>3. StepsTo(a, o)
  BY <1>1 DEF StepsTo
<1> HIDE DEF o
<1> QED BY <1>2, <1>3 DEF LocalOK

(* The values steps write. *)
LEMMA SnapshotTyped ==
  ASSUME Typed, NEW d \in Docs, NEW v \in 1 .. MaxVersion, NEW w \in BOOLEAN
  PROVE  Snapshot(d, v, w) \in Snap /\ Snapshot(d, v, w).ver = v /\ v # 0
           /\ ~Snapshot(d, v, w).restored
BY ConstantsOK DEF Typed, TypeOK, Snapshot, Snap

LEMMA ReaperTyped ==
  ASSUME Typed, NEW r \in Actors, ReaperSteps(r)
  PROVE  Typed'
<1> DEFINE d == op[r].doc
<1>1. StoreOK /\ op[r] \in Op /\ LocalOK(op[r]) /\ op \in [Actors -> Op]
  BY TypedIs
<1>2. d \in Docs /\ ~At(r, "idle")
  BY <1>1 DEF LocalOK, ReaperSteps, Capture, TrashAndDelete, ReaperClears, MarkDeleted, Purge, At
<1> HIDE DEF d
<1>3. CASE Capture(r)
  <2>1. CASE pg[d] # 0 /\ op' = [op EXCEPT ![r].pc = "rp_commit", ![r].ver = pg[d],
                                           ![r].whole = (pg[d] \in chunks[d])]
               /\ UNCHANGED <<row, toDelete, faults>>
    <3>1. StoreOK'
      BY <1>1, <1>3, <2>1, StoreSame DEF Capture, Postgres, StoreOK
    <3>2. \E o \in Op : StepsTo(r, o) /\ LocalOK(o)
      BY <1>3, <2>1, CaptureSteps DEF Captured, d
    <3> QED BY <3>1, <3>2, TypedFrom
  <2>2. CASE AlreadyGone(r, d) /\ UNCHANGED faults
    <3>1. StoreOK'
      BY <1>1, <1>2, <1>3, <2>2, EnqueuedTyped DEF Capture, AlreadyGone, StoreOK, InTrash
    <3> QED BY <2>2, <3>1, FinishSteps, IdleIsOp, TypedFrom DEF AlreadyGone
  <2>3. CASE Unclaim(r, d) /\ UNCHANGED toDelete
    <3>1. StoreOK'
      BY <1>1, <1>2, <1>3, <2>3, FaultTyped DEF Capture, Unclaim, StoreOK, InTrash
    <3> QED BY <2>3, <3>1, FinishSteps, IdleIsOp, TypedFrom DEF Unclaim
  <2> QED BY <1>3, <2>1, <2>2, <2>3 DEF Capture, d
<1>4. CASE TrashAndDelete(r)
  <2>1. CASE Goto(r, "rp_clear")
    <3>1. op[r].ver \in 1 .. MaxVersion /\ op[r].whole \in BOOLEAN
      BY <1>1, <1>4, ConstantsOK DEF TrashAndDelete, At, LocalOK, Op
    <3>2. /\ snap' = [snap EXCEPT ![d] = Snapshot(d, op[r].ver, op[r].whole)]
          /\ pg' = [pg EXCEPT ![d] = 0] /\ taken' = [taken EXCEPT ![d] = pg[d]]
          /\ UNCHANGED <<chunks, row, toDelete, toRestore, newest, faults>>
      <4>1. ~Finish(r)
        BY <1>1, <2>1 DEF Goto, Finish, Idle, Op
      <4> QED BY <1>4, <4>1 DEF TrashAndDelete, AlreadyGone, Unclaim, d
    <3>3. /\ Snapshot(d, op[r].ver, op[r].whole) \in Snap
          /\ Snapshot(d, op[r].ver, op[r].whole).ver # 0
      BY <1>2, <3>1, SnapshotTyped
    <3>4. StoreOK'
      BY <1>1, <1>2, <3>2, <3>3, ConstantsOK DEF StoreOK, InTrash
    <3>5. "rp_clear" \in PCs \ {"idle", "rp_commit"} /\ "rp_clear" \notin RestorePCs
      BY DEF PCs, ReapPCs, RestorePCs
    <3> QED BY <1>2, <2>1, <3>4, <3>5, GotoSteps, TypedFrom
  <2>2. CASE AlreadyGone(r, d) /\ UNCHANGED <<pg, snap, taken, faults>>
    <3>1. StoreOK'
      BY <1>1, <1>2, <1>4, <2>2, EnqueuedTyped DEF TrashAndDelete, AlreadyGone, StoreOK, InTrash
    <3> QED BY <2>2, <3>1, FinishSteps, IdleIsOp, TypedFrom DEF AlreadyGone
  <2>3. CASE Unclaim(r, d) /\ UNCHANGED <<pg, snap, taken, toDelete>>
    <3>1. StoreOK'
      BY <1>1, <1>2, <1>4, <2>3, FaultTyped DEF TrashAndDelete, Unclaim, StoreOK, InTrash
    <3> QED BY <2>3, <3>1, FinishSteps, IdleIsOp, TypedFrom DEF Unclaim
  <2> QED BY <1>4, <2>1, <2>2, <2>3 DEF TrashAndDelete, d
<1>5. CASE ReaperClears(r)
  <2>1. StoreOK'
    BY <1>1, <1>2, <1>5, FaultTyped, EnqueuedTyped DEF ReaperClears, ClearIndex, StoreOK, InTrash, d
  <2>2. "rp_mark" \in PCs \ {"idle", "rp_commit"} /\ "rp_mark" \notin RestorePCs
    BY DEF PCs, ReapPCs, RestorePCs
  <2> QED BY <1>2, <1>5, <2>1, <2>2, GotoSteps, TypedFrom DEF ReaperClears
<1>6. CASE MarkDeleted(r)
  <2>1. StoreOK'
    BY <1>1, <1>2, <1>6 DEF MarkDeleted, StoreOK, InTrash, d
  <2> QED BY <1>6, <2>1, FinishSteps, IdleIsOp, TypedFrom DEF MarkDeleted
<1>7. CASE Purge(r)
  <2>1. StoreOK'
    BY <1>1, <1>2, <1>7, NoSnapIsSnap, ConstantsOK DEF Purge, StoreOK, InTrash, d
  <2> QED BY <1>7, <2>1, FinishSteps, IdleIsOp, TypedFrom DEF Purge
<1> QED BY <1>3, <1>4, <1>5, <1>6, <1>7 DEF ReaperSteps

LEMMA OperatorTyped ==
  ASSUME Typed, NEW o \in Actors, OperatorSteps(o)
  PROVE  Typed'
<1> DEFINE d == op[o].doc
<1>1. StoreOK /\ op[o] \in Op /\ LocalOK(op[o])
  BY TypedIs
<1>2. d \in Docs /\ ~At(o, "idle")
  BY <1>1 DEF LocalOK, OperatorSteps, DeleteClears, CheckExists, RestoreRows, RestoreChunks,
       StampRestored, SkipHeld, Purge, At
<1>3. CASE DeleteClears(o)
  <2>1. StoreOK'
    BY <1>1, <1>2, <1>3, FaultTyped, EnqueuedTyped DEF DeleteClears, ClearIndex, StoreOK, InTrash
  <2> QED BY <1>3, <2>1, FinishSteps, IdleIsOp, TypedFrom DEF DeleteClears
<1>4. CASE CheckExists(o)
  <2>1. StoreOK'
    BY <1>1, <1>4, StoreSame DEF CheckExists, StoreOK
  <2>2. CASE Finish(o)
    BY <2>1, <2>2, FinishSteps, IdleIsOp, TypedFrom
  <2>3. CASE ~Finish(o)
    BY <1>4, <2>1, <2>3, CheckSteps, TypedFrom
  <2> QED BY <2>2, <2>3
<1>5. CASE RestoreRows(o)
  <2>1. StoreOK'
    BY <1>1, <1>2, <1>5, ConstantsOK DEF RestoreRows, StoreOK, InTrash, Op
  <2>2. "rs_index" \in PCs \ {"idle", "rp_commit"} /\ op[o].pc \in RestorePCs
    BY <1>5 DEF PCs, RestorePCs, RestoreRows, At
  <2>3. Goto(o, "rs_index") \/ Finish(o)
    BY <1>5 DEF RestoreRows
  <2>4. CASE Goto(o, "rs_index")
    BY <1>2, <2>1, <2>2, <2>4, GotoSteps, TypedFrom
  <2> QED BY <2>1, <2>3, <2>4, FinishSteps, IdleIsOp, TypedFrom
<1>6. CASE RestoreChunks(o)
  <2>1. op[o].ver \in Versions /\ op[o].pc \in RestorePCs /\ Goto(o, "rs_stamp")
    BY <1>1, <1>6, ConstantsOK DEF LocalOK, RestoreChunks, At, RestorePCs, Op, Versions
  <2>2. faults' \in 0 .. MaxFaults
    BY <1>1, <1>6, FaultTyped DEF RestoreChunks, StoreOK
  <2>3. toRestore' \subseteq Docs
    BY <1>1, <1>2, <1>6, EnqueuedTyped DEF RestoreChunks, StoreOK
  <2>4. chunks' \in [Docs -> SUBSET Versions]
    <3>1. chunks' = chunks \/ \E left \in SUBSET (chunks[d] \ {op[o].ver}) :
             chunks' = [chunks EXCEPT ![d] = left \cup {op[o].ver}]
      BY <1>6 DEF RestoreChunks
    <3>2. chunks[d] \subseteq Versions
      BY <1>1, <1>2 DEF StoreOK
    <3> HIDE DEF d
    <3> QED BY <1>1, <2>1, <3>1, <3>2 DEF StoreOK
  <2>5. StoreOK'
    BY <1>1, <1>6, <2>2, <2>3, <2>4 DEF RestoreChunks, StoreOK, InTrash
  <2>6. "rs_stamp" \in PCs \ {"idle", "rp_commit"}
    BY DEF PCs, RestorePCs
  <2> QED BY <1>2, <2>1, <2>5, <2>6, GotoSteps, TypedFrom
<1>7. CASE StampRestored(o)
  <2> DEFINE t == InTrash(d)
             s == [snap[d] EXCEPT !.restored = t]
  <2>3. snap' = [snap EXCEPT ![d] = s]
    BY <1>7 DEF StampRestored
  <2>5. t \in BOOLEAN /\ (snap[d] = NoSnap => ~t) /\ snap[d] \in Snap
    BY <1>1, <1>2, NoSnapIsSnap DEF StoreOK, InTrash
  <2> HIDE DEF t
  <2>1. s \in Snap /\ s.ver = snap[d].ver
    BY <2>5 DEF Snap
  <2>2. snap[d] = NoSnap => s = NoSnap
    <3>1. CASE snap[d] = NoSnap
      <4>1. t = FALSE
        BY <2>5, <3>1
      <4>2. [NoSnap EXCEPT !.restored = FALSE] = NoSnap
        BY NoSnapUnstamped
      <4> QED BY <3>1, <4>1, <4>2
    <3> QED BY <3>1
  <2> HIDE DEF s
  <2>4. StoreOK'
    BY <1>1, <1>2, <1>7, <2>1, <2>2, <2>3 DEF StampRestored, StoreOK, InTrash
  <2> QED BY <1>7, <2>4, FinishSteps, IdleIsOp, TypedFrom DEF StampRestored
<1>8. CASE SkipHeld(o)
  <2>1. StoreOK'
    BY <1>1, <1>8, StoreSame DEF SkipHeld, StoreOK
  <2>2. "pg_delete" \in PCs \ {"idle", "rp_commit"} /\ "pg_delete" \notin RestorePCs
    BY DEF PCs, RestorePCs
  <2>3. Goto(o, "pg_delete") \/ Finish(o)
    BY <1>8 DEF SkipHeld
  <2>4. CASE Goto(o, "pg_delete")
    BY <1>2, <2>1, <2>2, <2>4, GotoSteps, TypedFrom
  <2> QED BY <2>1, <2>3, <2>4, FinishSteps, IdleIsOp, TypedFrom
<1>9. CASE Purge(o)
  BY <1>9, ReaperTyped DEF ReaperSteps
<1> QED BY <1>3, <1>4, <1>5, <1>6, <1>7, <1>8, <1>9 DEF OperatorSteps

LEMMA DrainTyped ==
  ASSUME Typed, NEW q \in Actors, DrainSteps(q) \/ Abort(q)
  PROVE  Typed'
<1>1. StoreOK /\ op[q] \in Op /\ LocalOK(op[q])
  BY TypedIs
<1>2. CASE Abort(q)
  <2>1. StoreOK'
    BY <1>1, <1>2, FaultTyped, StoreSame DEF Abort, StoreOK
  <2> QED BY <1>2, <2>1, FinishSteps, IdleIsOp, TypedFrom DEF Abort
<1>3. CASE DrainDone(q)
  <2>1. StoreOK'
    BY <1>1, <1>3 DEF DrainDone, StoreOK, InTrash
  <2> QED BY <1>3, <2>1, FinishSteps, IdleIsOp, TypedFrom DEF DrainDone
<1>4. CASE DrainChunks(q)
  <2>1. faults' \in 0 .. MaxFaults
    BY <1>1, <1>4, FaultTyped DEF DrainChunks, StoreOK
  <2>2. StoreOK'
    BY <1>1, <1>4, <2>1 DEF DrainChunks, StoreOK, InTrash, Postgres
  <2>3. "dr_clear" \in PCs \ {"idle", "rp_commit"} /\ "dr_clear" \notin RestorePCs
          /\ ~At(q, "idle")
    BY <1>4 DEF PCs, RestorePCs, DrainChunks, At
  <2>4. Goto(q, "dr_clear") \/ Finish(q)
    BY <1>4 DEF DrainChunks
  <2>5. CASE Goto(q, "dr_clear")
    BY <2>2, <2>3, <2>5, GotoSteps, TypedFrom
  <2> QED BY <2>2, <2>4, <2>5, FinishSteps, IdleIsOp, TypedFrom
<1> QED BY <1>2, <1>3, <1>4 DEF DrainSteps

\* What an actor begins: a claim, a delete, a restore, a purge, a drain.
Begins(a, d) ==
  Claim(a, d) \/ ListExpired(a, d) \/ DeletePage(a, d) \/ StartRestore(a, d)
    \/ StartPurge(a, d) \/ ListPending(a, d)

LEMMA BeginsTyped ==
  ASSUME Typed, NEW a \in Actors, NEW d \in Docs, Begins(a, d)
  PROVE  Typed'
<1>1. StoreOK /\ op[a] \in Op
  BY TypedIs
<1>2. StoreOK'
  BY <1>1, StoreSame, ConstantsOK DEF Begins, Claim, ListExpired, DeletePage, StartRestore,
       StartPurge, ListPending, StoreOK, InTrash, Postgres
<1>3. CASE StartRestore(a, d)
  BY <1>2, <1>3, StartSteps, TypedFrom
<1>4. CASE ~StartRestore(a, d)
  <2>1. PICK pc \in {"rp_capture", "pg_delete", "dl_clear", "pg_held", "dr_delete"} : Begin(a, pc, d)
    BY <1>4 DEF Begins, Claim, ListExpired, DeletePage, StartPurge, ListPending
  <2>2. pc \in PCs \ ({"idle", "rp_commit"} \cup RestorePCs)
    BY DEF PCs, ReapPCs, RestorePCs
  <2> QED BY <1>2, <2>1, <2>2, BeginSteps, TypedFrom
<1> QED BY <1>3, <1>4

LEMMA WorldTyped ==
  ASSUME Typed, NEW d \in Docs, World(d)
  PROVE  Typed'
<1>1. StoreOK /\ op \in [Actors -> Op] /\ \A a \in Actors : LocalOK(op[a])
  BY TypedIs
<1>2. UNCHANGED op
  BY DEF World, SetHold, BecomesDue, Unstage, Expire, Crawl, Recover
<1>3. CASE SetHold(d) \/ Expire(d)
  <2>1. PICK s \in Snap : /\ s.ver = snap[d].ver /\ InTrash(d)
                          /\ snap' = [snap EXCEPT ![d] = s]
                          /\ UNCHANGED <<pg, chunks, row, toDelete, toRestore, newest, taken, faults>>
    <3>1. CASE SetHold(d)
      <4> DEFINE s == [snap[d] EXCEPT !.hold = ~snap[d].hold]
      <4>1. s \in Snap /\ s.ver = snap[d].ver
        BY <1>1 DEF StoreOK, Snap
      <4>2. snap' = [snap EXCEPT ![d] = s]
        BY <3>1 DEF SetHold
      <4> HIDE DEF s
      <4> QED BY <3>1, <4>1, <4>2 DEF SetHold, Restorable
    <3>2. CASE Expire(d)
      <4> DEFINE s == [snap[d] EXCEPT !.expired = TRUE]
      <4>1. s \in Snap /\ s.ver = snap[d].ver
        BY <1>1 DEF StoreOK, Snap
      <4>2. snap' = [snap EXCEPT ![d] = s]
        BY <3>2 DEF Expire
      <4> HIDE DEF s
      <4> QED BY <3>2, <4>1, <4>2 DEF Expire
    <3> QED BY <1>3, <3>1, <3>2
  <2>2. StoreOK'
    BY <1>1, <2>1 DEF StoreOK, InTrash
  <2> QED BY <1>1, <1>2, <2>2, TypedIs DEF Typed, TypeOK, StoreOK, LocalOK
<1>4. CASE ~(SetHold(d) \/ Expire(d))
  <2>1. StoreOK'
    <3>1. CASE BecomesDue(d)
      BY <1>1, <3>1 DEF BecomesDue, StoreOK, InTrash
    <3>2. CASE Unstage(d)
      BY <1>1, <3>2 DEF Unstage, StoreOK, InTrash
    <3>3. CASE Crawl(d)
      <4>1. newest[d] + 1 \in Versions
        BY <1>1, <3>3, ConstantsOK DEF Crawl, StoreOK, Versions
      <4>2. /\ newest' = [newest EXCEPT ![d] = newest[d] + 1]
            /\ pg' = [pg EXCEPT ![d] = newest[d] + 1]
            /\ chunks' = [chunks EXCEPT ![d] = {newest[d] + 1}]
        BY <1>1, <3>3 DEF Crawl, StoreOK
      <4>3. newest[d] + 1 \in 0 .. MaxVersion
        BY <4>1, ConstantsOK DEF Versions
      <4> QED BY <1>1, <3>3, <4>1, <4>2, <4>3 DEF Crawl, StoreOK, InTrash
    <3>4. CASE Recover(d)
      BY <1>1, <3>4, EnqueuedTyped DEF Recover, StoreOK, InTrash
    <3> QED BY <1>4, <3>1, <3>2, <3>3, <3>4 DEF World
  <2> QED BY <1>1, <1>2, <2>1 DEF Typed, TypeOK, StoreOK, LocalOK
<1> QED BY <1>3, <1>4

\* Every step is an actor's beginning, one of its steps or its end half way, or
\* the world's.
LEMMA NextIs ==
  ASSUME Next
  PROVE  \/ \E a \in Actors : \/ ReaperSteps(a) /\ a \in Reapers
                              \/ OperatorSteps(a) /\ a \in Operators
                              \/ DrainSteps(a) /\ a \in Drains
                              \/ Abort(a) /\ a \in Abortable
                              \/ \E d \in Docs : Begins(a, d)
         \/ \E d \in Docs : World(d)
BY ConstantsOK DEF Next, Actors, Begins

LEMMA TypedNext == Typed /\ [Next]_vars => Typed'
<1> SUFFICES ASSUME Typed, [Next]_vars PROVE Typed'
  OBVIOUS
<1>1. CASE Next
  BY <1>1, NextIs, ReaperTyped, OperatorTyped, DrainTyped, BeginsTyped, WorldTyped
<1>2. CASE UNCHANGED vars
  BY <1>2 DEF vars, Typed, TypeOK, LocalOK, InTrash
<1> QED BY <1>1, <1>2

\* The shape of the state, for any number of actors (db/trash.rs, the queues).
THEOREM TrashTyped == Spec => []TypeOK
<1>1. Typed => TypeOK
  BY DEF Typed
<1> QED BY TypedInit, TypedNext, <1>1, PTL DEF Spec

(***************************************************************************)
(* Nothing else writes a document that a handler works on: no crawl, no    *)
(* restore of a claimed document, no candidate due at once.                *)
(***************************************************************************)
Calm == Troubles \cap {"crawl", "restore", "due"} = {}

On(pcs, a, d) == op[a].pc \in pcs /\ op[a].doc = d

Claims ==
  /\ \A a \in Actors, d \in Docs : On(ReapPCs, a, d) => row[d] = "deleting"
  /\ \A a, b \in Actors, d \in Docs : On(ReapPCs, a, d) /\ On(ReapPCs, b, d) => a = b
  /\ \A a \in Actors, d \in Docs : On(RestorePCs, a, d) => row[d] = "none"
  /\ \A a \in Actors, d \in Docs : On({"rp_commit"}, a, d) => pg[d] \in {0, op[a].ver}
  /\ \A a \in Actors, d \in Docs : On({"rs_index", "rs_stamp"}, a, d) => taken[d] = 0

LEMMA ClaimsInit == Init => Claims /\ NoThirdState
BY DEF Init, Claims, NoThirdState, On, Idle, ReapPCs, RestorePCs

\* What an actor works on after a step of a.
LEMMA OnAfter ==
  ASSUME Typed, NEW a \in Actors, NEW o \in Op, StepsTo(a, o), LocalOK(o)
  PROVE  \A pcs, d : \A b \in Actors :
           /\ b # a => (On(pcs, b, d)' <=> On(pcs, b, d)) /\ op'[b].ver = op[b].ver
           /\ b = a => (On(pcs, b, d)' <=> o.pc \in pcs /\ o.doc = d) /\ op'[b].ver = o.ver
BY StepsToType DEF On

\* A step of an actor keeps the claims of the others when it writes only what
\* its own claim allows.
LEMMA ClaimsStep ==
  ASSUME Typed, Claims, NEW a \in Actors, NEW o \in Op, StepsTo(a, o), LocalOK(o),
         \A d \in Docs : \/ row'[d] = row[d] \/ On(ReapPCs, a, d)
                         \/ row[d] = "due" /\ row'[d] = "deleting",
         \A d \in Docs : pg'[d] \in {pg[d], 0} \/ On(RestorePCs, a, d),
         \A d \in Docs : taken'[d] \in {taken[d], 0} \/ On(ReapPCs, a, d),
         o.pc \in ReapPCs => /\ row'[o.doc] = "deleting"
                             /\ On(ReapPCs, a, o.doc) \/ row[o.doc] = "due",
         o.pc \in RestorePCs => row'[o.doc] = "none",
         o.pc = "rp_commit" => pg'[o.doc] \in {0, o.ver},
         o.pc \in {"rs_index", "rs_stamp"} => taken'[o.doc] = 0
  PROVE  Claims'
<1>1. \A pcs, d : \A b \in Actors :
        /\ b # a => (On(pcs, b, d)' <=> On(pcs, b, d)) /\ op'[b].ver = op[b].ver
        /\ b = a => (On(pcs, b, d)' <=> o.pc \in pcs /\ o.doc = d) /\ op'[b].ver = o.ver
  BY OnAfter
<1>2. \A b \in Actors \ {a}, d \in Docs :
        /\ On(ReapPCs, b, d) => row'[d] = row[d] /\ row[d] = "deleting" /\ ~On(RestorePCs, a, d)
        /\ On(RestorePCs, b, d) => row'[d] = row[d] /\ row[d] = "none" /\ ~On(ReapPCs, a, d)
  BY DEF Claims
<1>3. \A b \in Actors, d \in Docs :
        /\ On({"rp_commit"}, b, d) => On(ReapPCs, b, d)
        /\ On({"rs_index", "rs_stamp"}, b, d) => On(RestorePCs, b, d)
  BY DEF On, ReapPCs, RestorePCs
<1>4. (\A b \in Actors, d \in Docs : On(ReapPCs, b, d) => row[d] = "deleting")'
  BY <1>1, <1>2
<1>5. (\A b, c \in Actors, d \in Docs : On(ReapPCs, b, d) /\ On(ReapPCs, c, d) => b = c)'
  <2> SUFFICES ASSUME NEW b \in Actors, NEW c \in Actors, NEW d \in Docs,
                      On(ReapPCs, b, d)', On(ReapPCs, c, d)'
               PROVE  b = c
    OBVIOUS
  <2>1. CASE b # a /\ c # a
    BY <1>1, <2>1 DEF Claims
  <2>2. ASSUME NEW e \in Actors \ {a}, On(ReapPCs, e, d), o.pc \in ReapPCs, o.doc = d
        PROVE  FALSE
    BY <2>2 DEF Claims
  <2> QED BY <1>1, <2>1, <2>2
<1>6. (\A b \in Actors, d \in Docs : On(RestorePCs, b, d) => row[d] = "none")'
  BY <1>1, <1>2
<1>7. (\A b \in Actors, d \in Docs : On({"rp_commit"}, b, d) => pg[d] \in {0, op[b].ver})'
  <2> SUFFICES ASSUME NEW b \in Actors, NEW d \in Docs, On({"rp_commit"}, b, d)'
               PROVE  pg'[d] \in {0, op'[b].ver}
    OBVIOUS
  <2>1. CASE b = a
    BY <1>1, <2>1
  <2>2. CASE b # a
    BY <1>1, <1>2, <1>3, <2>2 DEF Claims
  <2> QED BY <2>1, <2>2
<1>8. (\A b \in Actors, d \in Docs : On({"rs_index", "rs_stamp"}, b, d) => taken[d] = 0)'
  <2> SUFFICES ASSUME NEW b \in Actors, NEW d \in Docs, On({"rs_index", "rs_stamp"}, b, d)'
               PROVE  taken'[d] = 0
    OBVIOUS
  <2>1. CASE b = a
    BY <1>1, <2>1
  <2>2. CASE b # a
    BY <1>1, <1>2, <1>3, <2>2 DEF Claims
  <2> QED BY <2>1, <2>2
<1> QED BY <1>4, <1>5, <1>6, <1>7, <1>8 DEF Claims

\* An actor that ends works on nothing.
LEMMA ClaimsFinish ==
  ASSUME Typed, Claims, NEW a \in Actors, Finish(a),
         \A d \in Docs : row'[d] = row[d] \/ On(ReapPCs, a, d),
         UNCHANGED pg, \A d \in Docs : taken'[d] \in {taken[d], 0}
  PROVE  Claims'
<1>1. StepsTo(a, Idle) /\ LocalOK(Idle) /\ Idle \in Op
  BY FinishSteps, IdleIsOp
<1>2. Idle.pc \notin ReapPCs /\ Idle.pc \notin RestorePCs /\ Idle.pc # "rp_commit"
        /\ Idle.pc \notin {"rs_index", "rs_stamp"}
  BY DEF Idle, ReapPCs, RestorePCs
<1> QED BY <1>1, <1>2, ClaimsStep

LEMMA ClaimsActor ==
  ASSUME Typed, Claims, NEW a \in Actors,
         ReaperSteps(a) \/ OperatorSteps(a) \/ DrainSteps(a) \/ Abort(a)
  PROVE  Claims'
<1> DEFINE d == op[a].doc
<1>1. /\ op[a] \in Op /\ LocalOK(op[a]) /\ row \in [Docs -> {"none", "due", "deleting"}]
      /\ pg \in [Docs -> 0 .. MaxVersion] /\ taken \in [Docs -> 0 .. MaxVersion]
  BY DEF Typed, TypeOK
<1>2. ASSUME Capture(a) PROVE Claims'
  <2>1. d \in Docs /\ On(ReapPCs, a, d)
    BY <1>1, <1>2 DEF Capture, At, On, LocalOK, ReapPCs
  <2>2. CASE Captured(a) /\ UNCHANGED row
    <3>1. PICK o \in Op : /\ StepsTo(a, o) /\ LocalOK(o) /\ o.pc = "rp_commit" /\ o.doc = d
                          /\ o.ver = pg[d]
      BY <1>2, <2>2, CaptureSteps
    <3>2. UNCHANGED <<row, pg, taken>> /\ row[d] = "deleting"
      BY <1>2, <2>1, <2>2 DEF Capture, Claims
    <3> HIDE DEF d
    <3> QED BY <2>1, <3>1, <3>2, ClaimsStep DEF RestorePCs
  <2>3. CASE AlreadyGone(a, d) \/ Unclaim(a, d)
    BY <1>1, <1>2, <2>1, <2>3, ClaimsFinish DEF AlreadyGone, Unclaim, Capture
  <2> QED BY <1>2, <2>2, <2>3 DEF Capture, Captured
<1>3. ASSUME TrashAndDelete(a) PROVE Claims'
  <2>1. d \in Docs /\ On(ReapPCs, a, d) /\ ~At(a, "idle")
    BY <1>1, <1>3 DEF TrashAndDelete, At, On, LocalOK, ReapPCs
  <2>2. CASE /\ Goto(a, "rp_clear") /\ pg' = [pg EXCEPT ![d] = 0]
             /\ taken' = [taken EXCEPT ![d] = pg[d]] /\ UNCHANGED row
    <3>1. PICK o \in Op : StepsTo(a, o) /\ LocalOK(o) /\ o.pc = "rp_clear" /\ o.doc = d
      BY <2>1, <2>2, GotoSteps DEF PCs, ReapPCs, RestorePCs
    <3>2. row[d] = "deleting"
      BY <2>1 DEF Claims
    <3> HIDE DEF d
    <3> QED BY <1>1, <2>1, <2>2, <3>1, <3>2, ClaimsStep DEF RestorePCs
  <2>3. CASE (AlreadyGone(a, d) \/ Unclaim(a, d)) /\ UNCHANGED <<pg, taken>>
    BY <1>1, <2>1, <2>3, ClaimsFinish DEF AlreadyGone, Unclaim
  <2> QED BY <1>3, <2>2, <2>3 DEF TrashAndDelete
<1>4. ASSUME ReaperClears(a) PROVE Claims'
  <2>1. /\ d \in Docs /\ On(ReapPCs, a, d) /\ ~At(a, "idle") /\ Goto(a, "rp_mark")
        /\ UNCHANGED <<row, pg, taken>>
    BY <1>1, <1>4 DEF ReaperClears, At, On, LocalOK, ReapPCs
  <2>2. PICK o \in Op : StepsTo(a, o) /\ LocalOK(o) /\ o.pc = "rp_mark" /\ o.doc = d
    BY <2>1, GotoSteps DEF PCs, ReapPCs, RestorePCs
  <2>3. row[d] = "deleting"
    BY <2>1 DEF Claims
  <2> HIDE DEF d
  <2> QED BY <2>1, <2>2, <2>3, ClaimsStep DEF RestorePCs
<1>5. ASSUME MarkDeleted(a) PROVE Claims'
  <2>1. d \in Docs /\ On(ReapPCs, a, d)
    BY <1>1, <1>5 DEF MarkDeleted, At, On, LocalOK, ReapPCs
  <2> QED BY <1>1, <1>5, <2>1, ClaimsFinish DEF MarkDeleted
<1>6. ASSUME Purge(a) PROVE Claims'
  BY <1>1, <1>6, ClaimsFinish DEF Purge
<1>7. ASSUME DeleteClears(a) \/ StampRestored(a) \/ DrainDone(a) \/ Abort(a) PROVE Claims'
  <2>1. Finish(a) /\ UNCHANGED <<row, pg, taken>>
    BY <1>7 DEF DeleteClears, StampRestored, DrainDone, Abort, Postgres
  <2> QED BY <2>1, ClaimsFinish
<1>8. ASSUME CheckExists(a) PROVE Claims'
  <2>1. d \in Docs /\ On(RestorePCs, a, d) /\ UNCHANGED <<row, pg, taken>>
    BY <1>1, <1>8 DEF CheckExists, At, On, LocalOK, RestorePCs, Postgres
  <2>2. CASE Finish(a)
    BY <2>1, <2>2, ClaimsFinish
  <2>3. CASE ~Finish(a)
    <3>1. PICK o \in Op : StepsTo(a, o) /\ LocalOK(o) /\ o.pc = "rs_commit" /\ o.doc = d
      BY <1>8, <2>3, CheckSteps
    <3>2. row[d] = "none"
      BY <2>1 DEF Claims
    <3> HIDE DEF d
    <3> QED BY <2>1, <3>1, <3>2, ClaimsStep DEF ReapPCs
  <2> QED BY <2>2, <2>3
<1>9. ASSUME RestoreRows(a) PROVE Claims'
  <2>1. d \in Docs /\ On(RestorePCs, a, d) /\ ~At(a, "idle") /\ op[a].pc \in RestorePCs
    BY <1>1, <1>9 DEF RestoreRows, At, On, LocalOK, RestorePCs
  <2>2. CASE Goto(a, "rs_index") /\ pg' = [pg EXCEPT ![d] = op[a].ver]
               /\ taken' = [taken EXCEPT ![d] = 0] /\ UNCHANGED row
    <3>1. PICK o \in Op : StepsTo(a, o) /\ LocalOK(o) /\ o.pc = "rs_index" /\ o.doc = d
      BY <2>1, <2>2, GotoSteps DEF PCs, ReapPCs, RestorePCs
    <3>2. row[d] = "none"
      BY <2>1 DEF Claims
    <3> HIDE DEF d
    <3> QED BY <1>1, <2>1, <2>2, <3>1, <3>2, ClaimsStep DEF ReapPCs
  <2>3. CASE Finish(a) /\ UNCHANGED <<row, pg, taken>>
    BY <2>3, ClaimsFinish
  <2> QED BY <1>9, <2>2, <2>3 DEF RestoreRows
<1>10. ASSUME RestoreChunks(a) PROVE Claims'
  <2>1. /\ d \in Docs /\ On(RestorePCs, a, d) /\ ~At(a, "idle") /\ op[a].pc \in RestorePCs
        /\ Goto(a, "rs_stamp") /\ UNCHANGED <<row, pg, taken>>
        /\ On({"rs_index", "rs_stamp"}, a, d)
    BY <1>1, <1>10 DEF RestoreChunks, At, On, LocalOK, RestorePCs
  <2>2. PICK o \in Op : StepsTo(a, o) /\ LocalOK(o) /\ o.pc = "rs_stamp" /\ o.doc = d
    BY <2>1, GotoSteps DEF PCs, ReapPCs, RestorePCs
  <2>3. row[d] = "none" /\ taken[d] = 0
    BY <2>1 DEF Claims
  <2> HIDE DEF d
  <2> QED BY <2>1, <2>2, <2>3, ClaimsStep DEF ReapPCs
<1>11. ASSUME SkipHeld(a) \/ DrainChunks(a) PROVE Claims'
  <2>1. UNCHANGED <<row, pg, taken>> /\ ~At(a, "idle")
    BY <1>11 DEF SkipHeld, DrainChunks, Postgres, At
  <2>2. Finish(a) \/ \E pc \in {"pg_delete", "dr_clear"} : Goto(a, pc)
    BY <1>11 DEF SkipHeld, DrainChunks
  <2>3. ASSUME NEW pc \in {"pg_delete", "dr_clear"}, Goto(a, pc) PROVE Claims'
    <3>1. PICK o \in Op : StepsTo(a, o) /\ LocalOK(o) /\ o.pc = pc
      BY <2>1, <2>3, GotoSteps DEF PCs, ReapPCs, RestorePCs
    <3> QED BY <2>1, <3>1, ClaimsStep DEF ReapPCs, RestorePCs
  <2> QED BY <2>1, <2>2, <2>3, ClaimsFinish
<1> QED BY <1>2, <1>3, <1>4, <1>5, <1>6, <1>7, <1>8, <1>9, <1>10, <1>11
        DEF ReaperSteps, OperatorSteps, DrainSteps

LEMMA ClaimsBegins ==
  ASSUME Typed, Claims, Calm, NEW a \in Actors, NEW d \in Docs, Begins(a, d)
  PROVE  Claims'
<1>1. /\ row \in [Docs -> {"none", "due", "deleting"}] /\ pg \in [Docs -> 0 .. MaxVersion]
  BY DEF Typed, TypeOK
<1>2. CASE StartRestore(a, d)
  <2>1. PICK o \in Op : StepsTo(a, o) /\ LocalOK(o) /\ o.pc = "rs_exists" /\ o.doc = d
    BY <1>2, StartSteps
  <2>2. UNCHANGED <<row, pg, taken>> /\ row[d] = "none"
    BY <1>2 DEF StartRestore, Postgres, Calm
  <2> QED BY <2>1, <2>2, ClaimsStep DEF ReapPCs
<1>3. CASE Claim(a, d)
  <2>1. PICK o \in Op : StepsTo(a, o) /\ LocalOK(o) /\ o.pc = "rp_capture" /\ o.doc = d
    BY <1>3, BeginSteps DEF Claim, PCs, ReapPCs, RestorePCs
  <2>2. /\ UNCHANGED <<pg, taken>> /\ row[d] = "due" /\ row' = [row EXCEPT ![d] = "deleting"]
    BY <1>3 DEF Claim
  <2> QED BY <1>1, <2>1, <2>2, ClaimsStep DEF RestorePCs
<1>4. CASE ListExpired(a, d) \/ DeletePage(a, d) \/ StartPurge(a, d) \/ ListPending(a, d)
  <2>1. PICK pc \in {"pg_delete", "dl_clear", "pg_held", "dr_delete"} : Begin(a, pc, d)
    BY <1>4 DEF ListExpired, DeletePage, StartPurge, ListPending
  <2>2. PICK o \in Op : StepsTo(a, o) /\ LocalOK(o) /\ o.pc = pc
    BY <2>1, BeginSteps DEF PCs, ReapPCs, RestorePCs
  <2>3. UNCHANGED <<row, taken>> /\ \A e \in Docs : pg'[e] \in {pg[e], 0}
    BY <1>1, <1>4 DEF ListExpired, DeletePage, StartPurge, ListPending, Postgres
  <2> QED BY <2>2, <2>3, ClaimsStep DEF ReapPCs, RestorePCs
<1> QED BY <1>2, <1>3, <1>4 DEF Begins

LEMMA ClaimsWorld ==
  ASSUME Typed, Claims, Calm, NEW d \in Docs, World(d)
  PROVE  Claims'
<1>1. /\ row \in [Docs -> {"none", "due", "deleting"}] /\ pg \in [Docs -> 0 .. MaxVersion]
      /\ newest \in [Docs -> Versions]
  BY DEF Typed, TypeOK
<1>2. UNCHANGED <<op, taken>>
  BY DEF World, SetHold, BecomesDue, Unstage, Expire, Crawl, Recover
<1>3. \A pcs, a, e : On(pcs, a, e)' <=> On(pcs, a, e)
  BY <1>2 DEF On
<1>4. CASE SetHold(d) \/ Expire(d)
  BY <1>2, <1>3, <1>4 DEF SetHold, Expire, Claims
<1>5. CASE Crawl(d)
  <2>1. \A a \in Actors : ~On({"rp_commit"}, a, d)
    BY <1>5 DEF Crawl, Calm, Working, On, PCs, ReapPCs
  <2>2. UNCHANGED row /\ \A e \in Docs \ {d} : pg'[e] = pg[e]
    BY <1>1, <1>5 DEF Crawl
  <2> QED BY <1>2, <1>3, <2>1, <2>2 DEF Claims
<1>6. CASE BecomesDue(d) \/ Unstage(d) \/ Recover(d)
  <2>1. UNCHANGED pg /\ \A e \in Docs \ {d} : row'[e] = row[e]
    BY <1>1, <1>6 DEF BecomesDue, Unstage, Recover
  <2>2. \A a \in Actors : ~On(ReapPCs, a, d) /\ ~On(RestorePCs, a, d)
    <3>1. CASE BecomesDue(d)
      BY <3>1 DEF BecomesDue, Calm, Working, On, Claims
    <3>2. CASE Unstage(d)
      BY <3>2 DEF Unstage, Claims
    <3>3. CASE Recover(d)
      BY <3>3 DEF Recover, Working, On, Claims
    <3> QED BY <1>6, <3>1, <3>2, <3>3
  <2> QED BY <1>2, <1>3, <2>1, <2>2 DEF Claims
<1> QED BY <1>4, <1>5, <1>6 DEF World

LEMMA ClaimsNext == Calm => (Typed /\ Claims /\ [Next]_vars => Claims')
<1> SUFFICES ASSUME Calm, Typed, Claims, [Next]_vars PROVE Claims'
  OBVIOUS
<1>1. CASE Next
  BY <1>1, NextIs, ClaimsActor, ClaimsBegins, ClaimsWorld
<1>2. CASE UNCHANGED vars
  BY <1>2 DEF vars, Claims, On
<1> QED BY <1>1, <1>2

(***************************************************************************)
(* No third state.                                                         *)
(***************************************************************************)
LEMMA ThirdStateNext == Typed /\ Claims /\ NoThirdState /\ [Next]_vars => NoThirdState'
<1> SUFFICES ASSUME Typed, Claims, NoThirdState, [Next]_vars PROVE NoThirdState'
  OBVIOUS
<1>1. /\ snap \in [Docs -> Snap] /\ taken \in [Docs -> 0 .. MaxVersion]
      /\ pg \in [Docs -> 0 .. MaxVersion]
      /\ \A a \in Actors : op[a] \in Op /\ LocalOK(op[a])
  BY DEF Typed, TypeOK
<1>2. CASE UNCHANGED <<snap, taken>>
  BY <1>2 DEF NoThirdState, Restorable, InTrash
<1>3. ASSUME NEW a \in Actors, TrashAndDelete(a) PROVE NoThirdState'
  <2> DEFINE d == op[a].doc
             s == Snapshot(d, op[a].ver, op[a].whole)
  <2>1. CASE pg[d] # 0 /\ snap' = [snap EXCEPT ![d] = s]
               /\ taken' = [taken EXCEPT ![d] = pg[d]]
    <3>1. d \in Docs /\ On({"rp_commit"}, a, d)
      BY <1>1, <1>3 DEF TrashAndDelete, At, On, LocalOK
    <3>2. op[a].ver = pg[d] /\ op[a].ver \in 1 .. MaxVersion /\ op[a].whole \in BOOLEAN
      BY <1>1, <2>1, <3>1, ConstantsOK DEF Claims, Op
    <3>3. s \in Snap /\ s.ver = pg[d] /\ ~s.restored
      BY <3>1, <3>2, SnapshotTyped
    <3> HIDE DEF d, s
    <3> QED BY <1>1, <2>1, <3>1, <3>3 DEF NoThirdState, Restorable, InTrash
  <2> QED BY <1>2, <1>3, <2>1 DEF TrashAndDelete
<1>4. ASSUME NEW a \in Actors, Purge(a) \/ RestoreRows(a) PROVE NoThirdState'
  <2>1. \A d \in Docs : taken'[d] = 0 \/ (taken'[d] = taken[d] /\ snap'[d] = snap[d])
    <3>1. CASE Purge(a)
      <4>1. PICK e : snap' = [snap EXCEPT ![e] = NoSnap] /\ taken' = [taken EXCEPT ![e] = 0]
        BY <3>1 DEF Purge
      <4> QED BY <1>1, <4>1
    <3>2. CASE RestoreRows(a)
      <4>1. UNCHANGED snap /\ \E d : taken' = taken \/ taken' = [taken EXCEPT ![d] = 0]
        BY <3>2 DEF RestoreRows
      <4> QED BY <1>1, <4>1
    <3> QED BY <1>4, <3>1, <3>2
  <2> QED BY <2>1 DEF NoThirdState, Restorable, InTrash
<1>5. ASSUME NEW a \in Actors, StampRestored(a) PROVE NoThirdState'
  <2>1. op[a].doc \in Docs /\ taken[op[a].doc] = 0
    BY <1>1, <1>5 DEF StampRestored, At, LocalOK, Claims, On
  <2>2. UNCHANGED taken /\ \A d \in Docs \ {op[a].doc} : snap'[d] = snap[d]
    BY <1>1, <1>5 DEF StampRestored
  <2> QED BY <2>1, <2>2 DEF NoThirdState, Restorable, InTrash
<1>6. ASSUME NEW d \in Docs, SetHold(d) \/ Expire(d) PROVE NoThirdState'
  <2>1. UNCHANGED taken
    BY <1>6 DEF SetHold, Expire
  <2>2. \A e \in Docs : snap'[e].ver = snap[e].ver /\ snap'[e].restored = snap[e].restored
    BY <1>1, <1>6 DEF SetHold, Expire, Snap
  <2> QED BY <2>1, <2>2 DEF NoThirdState, Restorable, InTrash
<1>7. CASE UNCHANGED vars
  BY <1>2, <1>7 DEF vars
<1>8. CASE Next
  <2>1. ASSUME NEW a \in Actors, NEW d \in Docs, Begins(a, d) PROVE UNCHANGED <<snap, taken>>
    BY <2>1 DEF Begins, Claim, ListExpired, DeletePage, StartRestore, StartPurge, ListPending,
         Postgres
  <2>2. ASSUME NEW a \in Actors, DrainSteps(a) \/ Abort(a) PROVE UNCHANGED <<snap, taken>>
    BY <2>2 DEF DrainSteps, DrainChunks, DrainDone, Abort, Postgres
  <2>3. ASSUME NEW a \in Actors, ReaperSteps(a) PROVE NoThirdState'
    BY <1>2, <1>3, <1>4, <2>3 DEF ReaperSteps, Capture, ReaperClears, MarkDeleted
  <2>4. ASSUME NEW a \in Actors, OperatorSteps(a) PROVE NoThirdState'
    BY <1>2, <1>4, <1>5, <2>4 DEF OperatorSteps, DeleteClears, CheckExists, RestoreChunks,
         SkipHeld, Postgres
  <2>5. ASSUME NEW d \in Docs, World(d) PROVE NoThirdState'
    BY <1>2, <1>6, <2>5 DEF World, BecomesDue, Unstage, Crawl, Recover
  <2> QED BY <1>2, <1>8, <2>1, <2>2, <2>3, <2>4, <2>5, NextIs
<1> QED BY <1>7, <1>8

\* What the reaper took is restorable as it was taken until it is restored or
\* purged, whatever fails and whatever the queues, requests and drains do, as
\* long as nothing else writes the document (trash_and_delete, restore, purge).
THEOREM NothingIsLost ==
  ASSUME Calm
  PROVE  Spec => []NoThirdState
<1>1. Typed /\ Claims /\ [Next]_vars => Claims'
  BY ClaimsNext
<1> QED BY TypedInit, ClaimsInit, TypedNext, <1>1, ThirdStateNext, PTL DEF Spec

(***************************************************************************)
(* The trash implements the vault.                                         *)
(***************************************************************************)
Kept(d) == IF Restorable(d) THEN snap[d].ver ELSE 0
Asked(d) == {op[a].ver : a \in {b \in Actors : /\ op[b].pc \in RestorePCs
                                              /\ op[b].doc = d}}

\* The vault sees no difference in a document.
Same(d) ==
  /\ pg'[d] = pg[d]
  /\ newest'[d] = newest[d]
  /\ Kept(d)' = Kept(d)
  /\ taken'[d] = 0 <=> taken[d] = 0
  /\ Asked(d)' = Asked(d)

VaultMove(d) ==
  \/ /\ pg[d] = 0 /\ Asked(d) = {} /\ newest'[d] = newest[d] + 1 /\ pg'[d] = newest'[d]
     /\ Kept(d)' = Kept(d) /\ (taken'[d] = 0 <=> taken[d] = 0) /\ Asked(d)' = Asked(d)
  \/ /\ pg[d] # 0 /\ Asked(d) = {} /\ pg'[d] = 0 /\ Kept(d)' = pg[d] /\ taken'[d] # 0
     /\ newest'[d] = newest[d] /\ Asked(d)' = Asked(d)
  \/ /\ pg[d] # 0 /\ pg'[d] = 0 /\ newest'[d] = newest[d]
     /\ Kept(d)' = Kept(d) /\ (taken'[d] = 0 <=> taken[d] = 0) /\ Asked(d)' = Asked(d)
  \/ /\ Kept(d) # 0 /\ Asked(d)' = Asked(d) \cup {Kept(d)} /\ Kept(d)' = Kept(d)
     /\ pg'[d] = pg[d] /\ newest'[d] = newest[d] /\ (taken'[d] = 0 <=> taken[d] = 0)
  \/ /\ pg'[d] \in Asked(d) /\ taken'[d] = 0 /\ Kept(d)' = Kept(d)
     /\ newest'[d] = newest[d] /\ Asked(d)' = Asked(d)
  \/ /\ Asked(d)' \subseteq Asked(d)
     /\ Kept(d)' = Kept(d) \/ (taken[d] = 0 /\ Kept(d)' = 0)
     /\ pg'[d] = pg[d] /\ newest'[d] = newest[d] /\ (taken'[d] = 0 <=> taken[d] = 0)
  \/ /\ Kept(d) # 0 /\ Kept(d)' = 0 /\ taken'[d] = 0
     /\ pg'[d] = pg[d] /\ newest'[d] = newest[d] /\ Asked(d)' = Asked(d)

LEMMA VaultMoves ==
  ASSUME Typed, Typed', NEW d \in Docs, \A e \in Docs \ {d} : Same(e), VaultMove(d)
  PROVE  Vaulted!Next
<1> DEFINE K == [e \in Docs |-> Kept(e)]
           O == [e \in Docs |-> taken[e] # 0]
           A == [e \in Docs |-> Asked(e)]
<1>1. /\ Vaulted!Arrive(d) <=> /\ pg[d] = 0 /\ A[d] = {}
                               /\ newest' = [newest EXCEPT ![d] = newest[d] + 1]
                               /\ pg' = [pg EXCEPT ![d] = newest'[d]]
                               /\ K' = K /\ O' = O /\ A' = A
      /\ Vaulted!Take(d) <=> /\ pg[d] # 0 /\ A[d] = {}
                             /\ K' = [K EXCEPT ![d] = pg[d]] /\ pg' = [pg EXCEPT ![d] = 0]
                             /\ O' = [O EXCEPT ![d] = TRUE] /\ A' = A /\ newest' = newest
      /\ Vaulted!Remove(d) <=> /\ pg[d] # 0 /\ pg' = [pg EXCEPT ![d] = 0]
                               /\ K' = K /\ O' = O /\ A' = A /\ newest' = newest
      /\ Vaulted!Ask(d) <=> /\ K[d] # 0 /\ A' = [A EXCEPT ![d] = A[d] \cup {K[d]}]
                            /\ pg' = pg /\ K' = K /\ O' = O /\ newest' = newest
      /\ Vaulted!GiveBack(d) <=> /\ \E content \in A[d] : pg' = [pg EXCEPT ![d] = content]
                                 /\ O' = [O EXCEPT ![d] = FALSE]
                                 /\ K' = K /\ A' = A /\ newest' = newest
      /\ Vaulted!EndRestore(d) <=> /\ \E rest \in SUBSET A[d] : A' = [A EXCEPT ![d] = rest]
                                   /\ K' = K \/ (~O[d] /\ K' = [K EXCEPT ![d] = 0])
                                   /\ pg' = pg /\ O' = O /\ newest' = newest
      /\ Vaulted!Purge(d) <=> /\ K[d] # 0 /\ K' = [K EXCEPT ![d] = 0]
                              /\ O' = [O EXCEPT ![d] = FALSE]
                              /\ pg' = pg /\ A' = A /\ newest' = newest
  BY DEF Vaulted!Arrive, Vaulted!Take, Vaulted!Remove, Vaulted!Ask, Vaulted!GiveBack,
     Vaulted!EndRestore, Vaulted!Purge, Kept, Asked
<1>2. K[d] = Kept(d) /\ (O[d] <=> taken[d] # 0) /\ A[d] = Asked(d)
  OBVIOUS
<1>3. K' = [K EXCEPT ![d] = Kept(d)'] /\ (Kept(d)' = Kept(d) => K' = K)
  BY DEF Same
<1>4. A' = [A EXCEPT ![d] = Asked(d)'] /\ (Asked(d)' = Asked(d) => A' = A)
  BY DEF Same
<1>5. \A b \in BOOLEAN : (taken'[d] # 0 <=> b) => O' = [O EXCEPT ![d] = b]
  BY DEF Same
<1>6. (taken'[d] = 0 <=> taken[d] = 0) => O' = O
  BY DEF Same
<1>7. pg' = [pg EXCEPT ![d] = pg'[d]] /\ (pg'[d] = pg[d] => pg' = pg)
  BY DEF Typed, TypeOK, Same
<1>8. newest' = [newest EXCEPT ![d] = newest'[d]] /\ (newest'[d] = newest[d] => newest' = newest)
  BY DEF Typed, TypeOK, Same
<1> HIDE DEF K, O, A
<1>9. /\ taken'[d] # 0 => O' = [O EXCEPT ![d] = TRUE]
      /\ taken'[d] = 0 => O' = [O EXCEPT ![d] = FALSE]
  BY <1>5
<1>10. \/ Vaulted!Arrive(d) \/ Vaulted!Take(d) \/ Vaulted!Remove(d) \/ Vaulted!Ask(d)
       \/ Vaulted!GiveBack(d) \/ Vaulted!EndRestore(d) \/ Vaulted!Purge(d)
  BY <1>1, <1>2, <1>3, <1>4, <1>6, <1>7, <1>8, <1>9 DEF VaultMove
<1> QED BY <1>10 DEF Vaulted!Next

LEMMA VaultStutters ==
  ASSUME Typed, Typed', \A d \in Docs : Same(d)
  PROVE  UNCHANGED Vaulted!vvars
<1>1. pg' = pg /\ newest' = newest
  BY DEF Typed, TypeOK, Same
<1>2. \A d \in Docs : /\ (IF Restorable(d) THEN snap[d].ver ELSE 0)' = IF Restorable(d) THEN snap[d].ver ELSE 0
                      /\ (taken[d] # 0)' <=> taken[d] # 0
  BY DEF Same, Kept
<1>3. \A d \in Docs : {op[a].ver : a \in {b \in Actors : op[b].pc \in RestorePCs /\ op[b].doc = d}}'
                        = {op[a].ver : a \in {b \in Actors : op[b].pc \in RestorePCs /\ op[b].doc = d}}
  BY DEF Same, Asked
<1> QED BY <1>1, <1>2, <1>3 DEF Vaulted!vvars

InVault == [Vaulted!Next]_(Vaulted!vvars)

\* One document moves, or none.
LEMMA OneMoves ==
  ASSUME Typed, Typed', NEW d \in Docs, \A e \in Docs \ {d} : Same(e), VaultMove(d) \/ Same(d)
  PROVE  InVault
<1>1. CASE VaultMove(d)
  BY <1>1, VaultMoves DEF InVault
<1>2. CASE Same(d)
  BY <1>2, VaultStutters DEF InVault
<1> QED BY <1>1, <1>2

\* What a step of a leaves restores at work with.
LEMMA AskedAfter ==
  ASSUME Typed, NEW a \in Actors, NEW o \in Op, StepsTo(a, o), LocalOK(o), NEW d
  PROVE  /\ On(RestorePCs, a, d) /\ o.pc \in RestorePCs /\ o.doc = d /\ o.ver = op[a].ver
              => Asked(d)' = Asked(d)
         /\ ~On(RestorePCs, a, d) /\ ~(o.pc \in RestorePCs /\ o.doc = d)
              => Asked(d)' = Asked(d)
         /\ ~On(RestorePCs, a, d) /\ o.pc \in RestorePCs /\ o.doc = d
              => Asked(d)' = Asked(d) \cup {o.ver}
         /\ ~(o.pc \in RestorePCs /\ o.doc = d) => Asked(d)' \subseteq Asked(d)
<1>1. \A v : v \in Asked(d) <=> \E b \in Actors : On(RestorePCs, b, d) /\ op[b].ver = v
  BY DEF Asked, On
<1>2. \A v : v \in Asked(d)' <=> \E b \in Actors : On(RestorePCs, b, d)' /\ op'[b].ver = v
  BY DEF Asked, On
<1>3. \A b \in Actors :
        /\ b # a => (On(RestorePCs, b, d)' <=> On(RestorePCs, b, d)) /\ op'[b].ver = op[b].ver
        /\ b = a => (On(RestorePCs, b, d)' <=> o.pc \in RestorePCs /\ o.doc = d) /\ op'[b].ver = o.ver
  BY OnAfter
<1>4. ASSUME On(RestorePCs, a, d), o.pc \in RestorePCs, o.doc = d, o.ver = op[a].ver
      PROVE  \A v : v \in Asked(d)' <=> v \in Asked(d)
  BY <1>1, <1>2, <1>3, <1>4
<1>5. ASSUME ~On(RestorePCs, a, d), ~(o.pc \in RestorePCs /\ o.doc = d)
      PROVE  \A v : v \in Asked(d)' <=> v \in Asked(d)
  BY <1>1, <1>2, <1>3, <1>5
<1>6. ASSUME ~On(RestorePCs, a, d), o.pc \in RestorePCs, o.doc = d
      PROVE  \A v : v \in Asked(d)' <=> v \in Asked(d) \/ v = o.ver
  BY <1>1, <1>2, <1>3, <1>6
<1>7. ASSUME ~(o.pc \in RestorePCs /\ o.doc = d)
      PROVE  \A v : v \in Asked(d)' => v \in Asked(d)
  BY <1>1, <1>2, <1>3, <1>7
<1> HIDE DEF Asked
<1> QED BY <1>4, <1>5, <1>6, <1>7

\* A step of an actor that restores nothing, before or after.
LEMMA AskedSame ==
  ASSUME Typed, NEW a \in Actors, NEW o \in Op, StepsTo(a, o), LocalOK(o),
         op[a].pc \notin RestorePCs, o.pc \notin RestorePCs
  PROVE  \A d : Asked(d)' = Asked(d)
<1>1. \A d : ~On(RestorePCs, a, d)
  BY DEF On
<1> QED BY <1>1, AskedAfter

\* A restore goes on with what it has read.
LEMMA AskedOn ==
  ASSUME Typed, NEW a \in Actors, NEW o \in Op, StepsTo(a, o), LocalOK(o),
         op[a].pc \in RestorePCs, o.pc \in RestorePCs, o.doc = op[a].doc, o.ver = op[a].ver
  PROVE  \A d : Asked(d)' = Asked(d)
<1>1. \A d : On(RestorePCs, a, d) <=> o.doc = d
  BY DEF On
<1> QED BY <1>1, AskedAfter

\* A handler that ends, whatever it was.
LEMMA AskedEnds ==
  ASSUME Typed, NEW a \in Actors, Finish(a)
  PROVE  /\ \A d : Asked(d)' \subseteq Asked(d)
         /\ \A d : d # op[a].doc => Asked(d)' = Asked(d)
         /\ op[a].pc \notin RestorePCs => \A d : Asked(d)' = Asked(d)
<1>1. StepsTo(a, Idle) /\ LocalOK(Idle) /\ Idle \in Op /\ Idle.pc \notin RestorePCs
  BY FinishSteps, IdleIsOp DEF Idle, RestorePCs
<1>2. \A d : d # op[a].doc \/ op[a].pc \notin RestorePCs => ~On(RestorePCs, a, d)
  BY DEF On
<1> HIDE DEF Asked
<1> QED BY <1>1, <1>2, AskedAfter

LEMMA KeptSame ==
  ASSUME NEW d, snap'[d].ver = snap[d].ver, snap'[d].restored = snap[d].restored
  PROVE  Kept(d)' = Kept(d)
BY DEF Kept, Restorable, InTrash

\* A step that writes neither library nor trash, and ends a restore at most.
LEMMA QuietEnds ==
  ASSUME Typed, Typed', NEW a \in Actors, Finish(a), UNCHANGED <<pg, snap, newest, taken>>
  PROVE  InVault
<1>1. /\ \A d : Asked(d)' \subseteq Asked(d)
      /\ \A d : d # op[a].doc => Asked(d)' = Asked(d)
  BY AskedEnds
<1>2. \A d \in Docs : Kept(d)' = Kept(d) /\ (taken'[d] = 0 <=> taken[d] = 0)
                        /\ pg'[d] = pg[d] /\ newest'[d] = newest[d]
  BY KeptSame
<1>3. \A d \in Docs : d # op[a].doc => Same(d)
  BY <1>1, <1>2 DEF Same
<1>4. CASE op[a].doc \in Docs
  <2> PICK d \in Docs : d = op[a].doc
    BY <1>4
  <2>1. /\ Asked(d)' \subseteq Asked(d) /\ Kept(d)' = Kept(d) /\ (taken'[d] = 0 <=> taken[d] = 0)
        /\ pg'[d] = pg[d] /\ newest'[d] = newest[d]
    BY <1>1, <1>2
  <2>2. VaultMove(d)
    BY <2>1 DEF VaultMove
  <2> QED BY <1>3, <1>4, <2>2, OneMoves
<1>5. CASE op[a].doc \notin Docs
  BY <1>3, <1>5, VaultStutters DEF InVault
<1> QED BY <1>4, <1>5

LEMMA QuietVault ==
  ASSUME Typed, Typed', \A d : Asked(d)' = Asked(d), UNCHANGED <<pg, newest, taken>>,
         \A d \in Docs : snap'[d].ver = snap[d].ver /\ snap'[d].restored = snap[d].restored
  PROVE  InVault
<1>1. \A d \in Docs : Same(d)
  BY KeptSame DEF Same
<1> QED BY <1>1, VaultStutters DEF InVault

LEMMA PurgeInVault ==
  ASSUME Typed, Typed', NoThirdState, NEW a \in Actors, Purge(a)
  PROVE  InVault
<1>0. op[a].doc \in Docs
  BY DEF Typed, TypeOK, LocalOK, Purge, At
<1> PICK d \in Docs : d = op[a].doc
  BY <1>0
<1>1. /\ snap \in [Docs -> Snap] /\ taken \in [Docs -> 0 .. MaxVersion]
      /\ op[a].pc \notin RestorePCs
  BY DEF Typed, TypeOK, LocalOK, Purge, At, RestorePCs
<1>2. \A e : Asked(e)' = Asked(e)
  BY <1>1, AskedEnds DEF Purge
<1>3. /\ snap' = [snap EXCEPT ![d] = NoSnap] /\ taken' = [taken EXCEPT ![d] = 0]
      /\ UNCHANGED <<pg, newest>>
  BY DEF Purge
<1>4. Kept(d)' = 0 /\ taken'[d] = 0
  BY <1>1, <1>3, NoSnapIsSnap DEF Kept, Restorable, InTrash
<1>5. \A e \in Docs \ {d} : Same(e)
  BY <1>1, <1>2, <1>3, KeptSame DEF Same
<1>6. CASE Kept(d) # 0
  <2>1. VaultMove(d)
    BY <1>2, <1>3, <1>4, <1>6 DEF VaultMove
  <2> QED BY <1>1, <1>5, <2>1, OneMoves
<1>7. CASE Kept(d) = 0
  <2>1. taken[d] = 0
    BY <1>1, <1>7 DEF NoThirdState, Kept, Restorable, InTrash
  <2>2. Same(d)
    BY <1>2, <1>3, <1>4, <1>7, <2>1 DEF Same
  <2> QED BY <1>1, <1>5, <2>2, OneMoves
<1> QED BY <1>6, <1>7

\* Every action of an actor, in the vault.
LEMMA ReaperInVault ==
  ASSUME Typed, Typed', Claims, NoThirdState, NEW a \in Actors, ReaperSteps(a)
  PROVE  InVault
<1>1. /\ op[a] \in Op /\ LocalOK(op[a]) /\ snap \in [Docs -> Snap]
      /\ pg \in [Docs -> 0 .. MaxVersion] /\ taken \in [Docs -> 0 .. MaxVersion]
  BY DEF Typed, TypeOK
<1>2. ASSUME Finish(a), UNCHANGED <<pg, snap, newest, taken>> PROVE InVault
  BY <1>2, QuietEnds
<1>3. CASE Capture(a)
  <2>1. CASE Captured(a)
    <3>1. PICK o \in Op : StepsTo(a, o) /\ LocalOK(o) /\ o.pc = "rp_commit"
      BY <1>3, <2>1, CaptureSteps
    <3>2. op[a].pc \notin RestorePCs /\ UNCHANGED <<pg, snap, newest, taken>>
      BY <1>3 DEF Capture, At, RestorePCs
    <3>3. \A e : Asked(e)' = Asked(e)
      BY <3>1, <3>2, AskedSame DEF RestorePCs
    <3> QED BY <3>2, <3>3, QuietVault
  <2>2. CASE AlreadyGone(a, op[a].doc) \/ Unclaim(a, op[a].doc)
    BY <1>2, <1>3, <2>2 DEF Capture, AlreadyGone, Unclaim
  <2> QED BY <1>3, <2>1, <2>2 DEF Capture, Captured
<1>4. CASE TrashAndDelete(a)
  <2>0. op[a].doc \in Docs
    BY <1>1, <1>4 DEF LocalOK, TrashAndDelete, At
  <2> PICK d \in Docs : d = op[a].doc
    BY <2>0
  <2> DEFINE s == Snapshot(d, op[a].ver, op[a].whole)
  <2>1. CASE /\ pg[d] # 0 /\ snap' = [snap EXCEPT ![d] = s] /\ pg' = [pg EXCEPT ![d] = 0]
             /\ taken' = [taken EXCEPT ![d] = pg[d]] /\ Goto(a, "rp_clear") /\ UNCHANGED newest
    <3>1. d \in Docs /\ On({"rp_commit"}, a, d) /\ On(ReapPCs, a, d) /\ ~At(a, "idle")
      BY <1>1, <1>4 DEF TrashAndDelete, At, On, LocalOK, ReapPCs
    <3>2. op[a].ver = pg[d] /\ op[a].ver \in 1 .. MaxVersion /\ op[a].whole \in BOOLEAN
      BY <1>1, <2>1, <3>1, ConstantsOK DEF Claims, Op
    <3>3. s \in Snap /\ s.ver = pg[d] /\ s.ver # 0 /\ ~s.restored
      BY <3>1, <3>2, SnapshotTyped
    <3>4. \A b \in Actors : ~On(RestorePCs, b, d)
      BY <3>1 DEF Claims
    <3>5. Asked(d) = {}
      BY <3>4 DEF Asked, On
    <3>6. PICK o \in Op : StepsTo(a, o) /\ LocalOK(o) /\ o.pc = "rp_clear"
      BY <2>1, <3>1, GotoSteps DEF PCs, ReapPCs, RestorePCs
    <3>7. \A e : Asked(e)' = Asked(e)
      BY <1>4, <3>6, AskedSame DEF TrashAndDelete, At, RestorePCs
    <3> HIDE DEF s
    <3>8. Kept(d)' = pg[d] /\ pg'[d] = 0 /\ taken'[d] # 0
      BY <1>1, <2>1, <3>1, <3>3 DEF Kept, Restorable, InTrash
    <3>9. VaultMove(d)
      BY <2>1, <3>5, <3>7, <3>8 DEF VaultMove
    <3>10. \A e \in Docs \ {d} : Same(e)
      BY <1>1, <2>1, <3>1, <3>7, KeptSame DEF Same
    <3> QED BY <3>1, <3>9, <3>10, OneMoves
  <2>2. CASE (AlreadyGone(a, d) \/ Unclaim(a, d)) /\ UNCHANGED <<pg, snap, taken>>
    BY <1>2, <1>4, <2>2 DEF TrashAndDelete, AlreadyGone, Unclaim
  <2> QED BY <1>4, <2>1, <2>2 DEF TrashAndDelete
<1>5. CASE ReaperClears(a)
  <2>1. /\ ~At(a, "idle") /\ op[a].pc \notin RestorePCs /\ Goto(a, "rp_mark")
        /\ UNCHANGED <<pg, snap, newest, taken>>
    BY <1>5 DEF ReaperClears, At, RestorePCs
  <2>2. PICK o \in Op : StepsTo(a, o) /\ LocalOK(o) /\ o.pc = "rp_mark"
    BY <2>1, GotoSteps DEF PCs, ReapPCs, RestorePCs
  <2>3. \A e : Asked(e)' = Asked(e)
    BY <2>1, <2>2, AskedSame DEF RestorePCs
  <2> QED BY <2>1, <2>3, QuietVault
<1>6. CASE MarkDeleted(a)
  BY <1>2, <1>6 DEF MarkDeleted
<1>7. CASE Purge(a)
  BY <1>7, PurgeInVault
<1> QED BY <1>3, <1>4, <1>5, <1>6, <1>7 DEF ReaperSteps

LEMMA RestoreInVault ==
  ASSUME Typed, Typed', Claims, NEW a \in Actors,
         CheckExists(a) \/ RestoreRows(a) \/ RestoreChunks(a) \/ StampRestored(a)
  PROVE  InVault
<1>0. op[a].doc \in Docs
  BY DEF Typed, TypeOK, LocalOK, CheckExists, RestoreRows, RestoreChunks, StampRestored, At,
     RestorePCs
<1> PICK d \in Docs : d = op[a].doc
  BY <1>0
<1>1. /\ op[a] \in Op /\ snap \in [Docs -> Snap]
      /\ pg \in [Docs -> 0 .. MaxVersion] /\ taken \in [Docs -> 0 .. MaxVersion]
      /\ op[a].pc \in RestorePCs /\ ~At(a, "idle")
  BY DEF Typed, TypeOK, LocalOK, CheckExists, RestoreRows, RestoreChunks, StampRestored, At,
     RestorePCs
<1>2. ASSUME NEW pc \in RestorePCs, Goto(a, pc) PROVE \A e : Asked(e)' = Asked(e)
  <2>1. pc \in PCs \ {"idle", "rp_commit"}
    BY DEF PCs, RestorePCs
  <2>2. PICK o \in Op : /\ StepsTo(a, o) /\ LocalOK(o) /\ o.pc = pc
                        /\ o.doc = op[a].doc /\ o.ver = op[a].ver
    BY <1>1, <1>2, <2>1, GotoSteps
  <2> QED BY <1>1, <2>2, AskedOn
<1>3. CASE CheckExists(a)
  <2>1. UNCHANGED <<pg, snap, newest, taken>>
    BY <1>3 DEF CheckExists, Postgres
  <2>2. CASE ~Finish(a)
    <3>1. PICK o \in Op : /\ StepsTo(a, o) /\ LocalOK(o) /\ o.pc = "rs_commit"
                          /\ o.doc = op[a].doc /\ o.ver = op[a].ver
      BY <1>3, <2>2, CheckSteps
    <3>2. \A e : Asked(e)' = Asked(e)
      BY <1>1, <3>1, AskedOn DEF RestorePCs
    <3> QED BY <2>1, <3>2, QuietVault
  <2> QED BY <2>1, <2>2, QuietEnds
<1>4. CASE RestoreRows(a)
  <2>1. CASE Finish(a) /\ UNCHANGED <<pg, taken>>
    BY <1>4, <2>1, QuietEnds DEF RestoreRows
  <2>2. CASE /\ pg' = [pg EXCEPT ![d] = op[a].ver] /\ taken' = [taken EXCEPT ![d] = 0]
             /\ Goto(a, "rs_index")
    <3>1. \A e : Asked(e)' = Asked(e)
      BY <1>2, <2>2 DEF RestorePCs
    <3>2. op[a].ver \in Asked(d) /\ UNCHANGED <<snap, newest>>
      BY <1>1, <1>4 DEF Asked, RestoreRows
    <3>3. pg'[d] = op[a].ver /\ taken'[d] = 0 /\ \A e \in Docs : Kept(e)' = Kept(e)
      BY <1>1, <2>2, <3>2, KeptSame
    <3>4. VaultMove(d)
      BY <1>1, <3>1, <3>2, <3>3 DEF VaultMove
    <3>5. \A e \in Docs \ {d} : Same(e)
      BY <1>1, <2>2, <3>1, <3>2, <3>3 DEF Same
    <3> QED BY <1>1, <3>4, <3>5, OneMoves
  <2> QED BY <1>4, <2>1, <2>2 DEF RestoreRows
<1>5. CASE RestoreChunks(a)
  <2>1. Goto(a, "rs_stamp") /\ UNCHANGED <<pg, snap, newest, taken>>
    BY <1>5 DEF RestoreChunks
  <2>2. \A e : Asked(e)' = Asked(e)
    BY <1>2, <2>1 DEF RestorePCs
  <2> QED BY <2>1, <2>2, QuietVault
<1>6. CASE StampRestored(a)
  <2>1. /\ Finish(a) /\ UNCHANGED <<pg, newest, taken>>
        /\ snap' = [snap EXCEPT ![d].restored = InTrash(d)]
    BY <1>6 DEF StampRestored
  <2>2. /\ \A e : Asked(e)' \subseteq Asked(e)
        /\ \A e : e # d => Asked(e)' = Asked(e)
    BY <2>1, AskedEnds
  <2>3. taken[d] = 0
    BY <1>1, <1>6 DEF StampRestored, At, Claims, On
  <2>4. snap'[d].ver = snap[d].ver /\ snap'[d].restored = InTrash(d)
    BY <1>1, <2>1 DEF Snap, InTrash
  <2>5. Kept(d)' = 0
    BY <2>4 DEF Kept, Restorable, InTrash
  <2>6. VaultMove(d)
    BY <1>1, <2>1, <2>2, <2>3, <2>5 DEF VaultMove
  <2>7. \A e \in Docs \ {d} : Same(e)
    BY <1>1, <2>1, <2>2, KeptSame DEF Same
  <2> QED BY <1>1, <2>6, <2>7, OneMoves
<1> QED BY <1>3, <1>4, <1>5, <1>6

LEMMA ActorInVault ==
  ASSUME Typed, Typed', Claims, NoThirdState, NEW a \in Actors,
         ReaperSteps(a) \/ OperatorSteps(a) \/ DrainSteps(a) \/ Abort(a)
  PROVE  InVault
<1>1. CASE DeleteClears(a) \/ DrainDone(a) \/ Abort(a)
  BY <1>1, QuietEnds DEF DeleteClears, DrainDone, Abort, Postgres
<1>2. CASE SkipHeld(a) \/ DrainChunks(a)
  <2>1. /\ UNCHANGED <<pg, snap, newest, taken>> /\ ~At(a, "idle") /\ op[a].pc \notin RestorePCs
        /\ Finish(a) \/ \E pc \in {"pg_delete", "dr_clear"} : Goto(a, pc)
    BY <1>2 DEF SkipHeld, DrainChunks, Postgres, At, RestorePCs
  <2>2. ASSUME NEW pc \in {"pg_delete", "dr_clear"}, Goto(a, pc) PROVE InVault
    <3>1. PICK o \in Op : StepsTo(a, o) /\ LocalOK(o) /\ o.pc = pc
      BY <2>1, <2>2, GotoSteps DEF PCs, ReapPCs, RestorePCs
    <3>2. \A e : Asked(e)' = Asked(e)
      BY <2>1, <3>1, AskedSame DEF RestorePCs
    <3> QED BY <2>1, <3>2, QuietVault
  <2> QED BY <2>1, <2>2, QuietEnds
<1> QED BY <1>1, <1>2, ReaperInVault, PurgeInVault, RestoreInVault DEF OperatorSteps, DrainSteps

LEMMA BeginInVault ==
  ASSUME Typed, Typed', NEW a \in Actors, NEW d \in Docs, Begins(a, d)
  PROVE  InVault
<1>1. pg \in [Docs -> 0 .. MaxVersion] /\ snap \in [Docs -> Snap]
  BY DEF Typed, TypeOK
<1>2. CASE StartRestore(a, d)
  <2>1. PICK o \in Op : /\ StepsTo(a, o) /\ LocalOK(o) /\ o.pc = "rs_exists" /\ o.doc = d
                        /\ o.ver = snap[d].ver
    BY <1>2, StartSteps
  <2>2. /\ \A e : ~On(RestorePCs, a, e)
        /\ Kept(d) = snap[d].ver /\ Kept(d) # 0 /\ UNCHANGED <<pg, snap, newest, taken>>
    BY <1>2 DEF StartRestore, BeginWith, At, On, RestorePCs, Kept, Restorable, InTrash, Postgres
  <2>3. Asked(d)' = Asked(d) \cup {Kept(d)} /\ \A e : e # d => Asked(e)' = Asked(e)
    BY <2>1, <2>2, AskedAfter DEF RestorePCs
  <2>4. \A e \in Docs : Kept(e)' = Kept(e)
    BY <2>2, KeptSame
  <2>5. VaultMove(d)
    BY <2>2, <2>3, <2>4 DEF VaultMove
  <2>6. \A e \in Docs \ {d} : Same(e)
    BY <2>2, <2>3, <2>4 DEF Same
  <2> QED BY <2>5, <2>6, OneMoves
<1>3. CASE ~StartRestore(a, d)
  <2>1. PICK pc \in {"rp_capture", "pg_delete", "dl_clear", "pg_held", "dr_delete"} : Begin(a, pc, d)
    BY <1>3 DEF Begins, Claim, ListExpired, DeletePage, StartPurge, ListPending
  <2>2. pc \in PCs \ ({"idle", "rp_commit"} \cup RestorePCs)
    BY DEF PCs, ReapPCs, RestorePCs
  <2>3. PICK o \in Op : StepsTo(a, o) /\ LocalOK(o) /\ o.pc = pc
    BY <2>1, <2>2, BeginSteps
  <2>4. op[a].pc \notin RestorePCs
    BY <2>1 DEF Begin, BeginWith, At, RestorePCs
  <2>5. \A e : Asked(e)' = Asked(e)
    BY <2>2, <2>3, <2>4, AskedSame
  <2>6. CASE DeletePage(a, d)
    <3>1. pg[d] # 0 /\ pg' = [pg EXCEPT ![d] = 0] /\ UNCHANGED <<snap, newest, taken>>
      BY <2>6 DEF DeletePage
    <3>2. \A e \in Docs : Kept(e)' = Kept(e)
      BY <3>1, KeptSame
    <3>3. VaultMove(d)
      BY <1>1, <2>5, <3>1, <3>2 DEF VaultMove
    <3>4. \A e \in Docs \ {d} : Same(e)
      BY <1>1, <2>5, <3>1, <3>2 DEF Same
    <3> QED BY <3>3, <3>4, OneMoves
  <2>7. CASE ~DeletePage(a, d)
    <3>1. UNCHANGED <<pg, snap, newest, taken>>
      BY <1>3, <2>7 DEF Begins, Claim, ListExpired, StartPurge, ListPending, Postgres
    <3> QED BY <2>5, <3>1, QuietVault
  <2> QED BY <2>6, <2>7
<1> QED BY <1>2, <1>3

LEMMA WorldInVault ==
  ASSUME Typed, Typed', Calm, NEW d \in Docs, World(d)
  PROVE  InVault
<1>1. /\ pg \in [Docs -> 0 .. MaxVersion] /\ snap \in [Docs -> Snap] /\ newest \in [Docs -> Versions]
      /\ UNCHANGED <<op, taken>>
  BY DEF Typed, TypeOK, World, SetHold, BecomesDue, Unstage, Expire, Crawl, Recover
<1>2. \A e : Asked(e)' = Asked(e)
  BY <1>1 DEF Asked
<1>3. CASE Crawl(d)
  <2>1. \A b \in Actors : op[b].doc = d => op[b].pc \notin RestorePCs
    BY <1>3 DEF Crawl, Calm, Working, PCs, RestorePCs
  <2>2. Asked(d) = {} /\ pg[d] = 0
    BY <1>3, <2>1 DEF Asked, Crawl, Calm
  <2>3. /\ newest' = [newest EXCEPT ![d] = newest[d] + 1] /\ pg' = [pg EXCEPT ![d] = newest'[d]]
        /\ UNCHANGED snap
    BY <1>1, <1>3 DEF Crawl
  <2>4. \A e \in Docs : Kept(e)' = Kept(e)
    BY <2>3, KeptSame
  <2>5. VaultMove(d)
    BY <1>1, <1>2, <2>2, <2>3, <2>4 DEF VaultMove
  <2>6. \A e \in Docs \ {d} : Same(e)
    BY <1>1, <1>2, <2>3, <2>4 DEF Same
  <2> QED BY <2>5, <2>6, OneMoves
<1>4. CASE ~Crawl(d)
  <2>1. UNCHANGED <<pg, newest>>
    BY <1>4 DEF World, SetHold, BecomesDue, Unstage, Expire, Recover
  <2>2. \A e \in Docs : snap'[e].ver = snap[e].ver /\ snap'[e].restored = snap[e].restored
    BY <1>1, <1>4 DEF World, SetHold, BecomesDue, Unstage, Expire, Recover, Snap
  <2> QED BY <1>1, <1>2, <2>1, <2>2, QuietVault
<1> QED BY <1>3, <1>4

\* The flows of the trash, whatever fails or is dropped half way, amount to a
\* vault: snapshot and deletion are one step and keep what was there, a restore
\* gives back what it found, and the copy goes only when the content is back or
\* somebody purges it, as long as nothing else writes the document
\* (trash_and_delete, restore, mark_restored, purge).
THEOREM ImplementsVault ==
  ASSUME Calm
  PROVE  Spec => VaultSpec
<1>1. Init => Vaulted!Init
  <2> SUFFICES ASSUME Init PROVE Vaulted!Init
    OBVIOUS
  <2>1. \A d \in Docs : ~Restorable(d) /\ taken[d] = 0
    BY NoSnapIsSnap DEF Init, Restorable, InTrash
  <2>2. \A a \in Actors : op[a].pc \notin RestorePCs
    BY DEF Init, Idle, RestorePCs
  <2> QED BY <2>1, <2>2 DEF Init, Vaulted!Init
<1>2. Typed /\ Typed' /\ Claims /\ NoThirdState /\ [Next]_vars
        => [Vaulted!Next]_(Vaulted!vvars)
  <2> SUFFICES ASSUME Typed, Typed', Claims, NoThirdState, [Next]_vars PROVE InVault
    BY DEF InVault
  <2>1. CASE Next
    BY <2>1, NextIs, ActorInVault, BeginInVault, WorldInVault
  <2>2. CASE UNCHANGED vars
    <3>1. UNCHANGED <<op, pg, snap, newest, taken>> /\ \A d : Asked(d)' = Asked(d)
      BY <2>2 DEF vars, Asked
    <3> QED BY <3>1, QuietVault
  <2> QED BY <2>1, <2>2
<1>3. Typed /\ Claims /\ [Next]_vars => Claims'
  BY ClaimsNext
<1> QED BY TypedInit, ClaimsInit, TypedNext, <1>1, <1>2, <1>3, ThirdStateNext, PTL
        DEF Spec, VaultSpec, Vaulted!Spec

(***************************************************************************)
(* No chunk is left to nobody: one request at a time, which is not dropped *)
(* half way, no trouble, and turns between the drains and the handlers.    *)
(***************************************************************************)
Orderly ==
  /\ Troubles = {}
  /\ \A a, b \in Operators : a = b
  /\ Abortable \cap Operators = {}

DrainPCs == {"dr_delete", "dr_clear"}
PurgePCs == {"pg_held", "pg_delete"}
RequestPCs == {"dl_clear", "pg_held"} \cup RestorePCs

\* Who runs what, and whose turn it is.
Turns ==
  /\ \A a \in Actors : op[a].pc \in DrainPCs <=> a \in Drains /\ op[a].pc # "idle"
  /\ \A a \in Actors : op[a].pc \in RequestPCs => a \in Operators
  /\ \A q \in Drains, b \in Actors \ Drains, d \in Docs :
       On(DrainPCs, q, d) /\ op[b].doc = d => op[b].pc \in PurgePCs
  /\ \A q \in Drains, d \in Docs : On({"dr_clear"}, q, d) => chunks[d] = {}
  /\ \A a \in Actors, d \in Docs : On({"rs_index", "rs_stamp"}, a, d) => pg[d] # 0

Orphan(d) == pg[d] = 0 /\ chunks[d] # {}

\* Whoever is to clear the chunks of a document that is gone.
Owed(d) ==
  \/ d \in toDelete
  \/ \E a \in Actors : On({"dl_clear", "rp_clear"}, a, d)
  \/ row[d] = "deleting" /\ \A a \in Actors : ~On(ReapPCs, a, d)

OrphansOwed == \A d \in Docs : Orphan(d) => Owed(d)

LEMMA TurnsInit == Init => Turns /\ OrphansOwed
BY ConstantsOK DEF Init, Turns, OrphansOwed, Orphan, On, Idle, DrainPCs, RequestPCs, RestorePCs,
   Actors

\* A step of an actor that is not beginning anything keeps the turns.
LEMMA TurnsStep ==
  ASSUME Typed, Turns, NEW a \in Actors, NEW o \in Op, StepsTo(a, o), LocalOK(o),
         o.pc \in DrainPCs <=> a \in Drains /\ o.pc # "idle",
         o.pc \in RequestPCs => a \in Operators,
         \/ o.pc = "idle"
         \/ /\ o.doc = op[a].doc
            /\ op[a].pc \in PurgePCs => o.pc \in PurgePCs
         \/ \A b \in Actors : op[b].doc = o.doc =>
              (a \in Drains <=> b \in Drains) \/ op[b].pc \in PurgePCs,
         \A d \in Docs : (\E q \in Drains : On({"dr_clear"}, q, d)) =>
            chunks'[d] \subseteq chunks[d],
         o.pc = "dr_clear" => chunks'[o.doc] = {},
         \A d \in Docs : pg'[d] = 0 => \/ pg[d] = 0
                                       \/ \A b \in Actors \ {a} : ~On({"rs_index", "rs_stamp"}, b, d),
         o.pc \in {"rs_index", "rs_stamp"} => pg'[o.doc] # 0
  PROVE  Turns'
<1>1. \A pcs, d : \A b \in Actors :
        /\ b # a => (On(pcs, b, d)' <=> On(pcs, b, d)) /\ op'[b].ver = op[b].ver
        /\ b = a => (On(pcs, b, d)' <=> o.pc \in pcs /\ o.doc = d) /\ op'[b].ver = o.ver
  BY OnAfter
<1>2. op'[a] = o /\ \A b \in Actors \ {a} : op'[b] = op[b]
  BY StepsToType
<1>3. \A b \in Actors : op'[b].pc \in DrainPCs <=> b \in Drains /\ op'[b].pc # "idle"
  BY <1>2 DEF Turns
<1>4. \A b \in Actors : op'[b].pc \in RequestPCs => b \in Operators
  BY <1>2 DEF Turns
<1>5. ASSUME NEW q \in Drains, NEW b \in Actors \ Drains, NEW d \in Docs,
             On(DrainPCs, q, d)', op'[b].doc = d
      PROVE  op'[b].pc \in PurgePCs
  <2>1. q \in Actors
    BY DEF Actors
  <2>2. CASE q # a /\ b # a
    BY <1>1, <1>2, <1>5, <2>1, <2>2 DEF Turns
  <2>3. CASE b = a
    <3>1. On(DrainPCs, q, d) /\ o.doc = d /\ op[q].doc = d /\ q # a
      BY <1>1, <1>2, <1>5, <2>1, <2>3 DEF On
    <3>2. o.pc # "idle" /\ op[q].pc \notin PurgePCs
      BY <3>1, ConstantsOK DEF LocalOK, On, DrainPCs, PurgePCs
    <3>3. o.doc = op[a].doc /\ (op[a].pc \in PurgePCs => o.pc \in PurgePCs)
      BY <2>1, <2>3, <3>1, <3>2
    <3>4. op[a].pc \in PurgePCs
      BY <2>3, <3>1, <3>3 DEF Turns
    <3> QED BY <1>2, <2>3, <3>3, <3>4
  <2>4. CASE q = a
    <3>1. op'[b] = op[b] /\ op[b].doc = d /\ o.doc = d /\ o.pc \in DrainPCs
      BY <1>1, <1>2, <1>5, <2>1, <2>4
    <3>2. CASE o.doc = op[a].doc /\ op[a].pc # "idle"
      <4>1. On(DrainPCs, a, d)
        BY <2>4, <2>1, <3>1, <3>2 DEF Turns, On
      <4> QED BY <1>5, <2>4, <3>1, <4>1 DEF Turns
    <3>3. CASE \A c \in Actors : op[c].doc = o.doc =>
                 (a \in Drains <=> c \in Drains) \/ op[c].pc \in PurgePCs
      BY <1>5, <2>4, <3>1, <3>3
    <3>4. o.pc # "idle"
      BY <3>1 DEF DrainPCs
    <3>5. op[a].pc = "idle" => op[a].doc # d
      BY ConstantsOK DEF Typed, LocalOK
    <3> QED BY <3>1, <3>2, <3>3, <3>4, <3>5
  <2> QED BY <2>2, <2>3, <2>4
<1>6. ASSUME NEW q \in Drains, NEW d \in Docs, On({"dr_clear"}, q, d)' PROVE chunks'[d] = {}
  <2>1. q \in Actors
    BY DEF Actors
  <2>2. CASE q = a
    BY <1>1, <1>6, <2>1, <2>2
  <2>3. CASE q # a
    BY <1>1, <1>6, <2>1, <2>3 DEF Turns
  <2> QED BY <2>2, <2>3
<1>7. ASSUME NEW b \in Actors, NEW d \in Docs, On({"rs_index", "rs_stamp"}, b, d)'
      PROVE  pg'[d] # 0
  <2>1. CASE b = a
    BY <1>1, <1>7, <2>1
  <2>2. CASE b # a
    BY <1>1, <1>7, <2>2 DEF Turns
  <2> QED BY <2>1, <2>2
<1> QED BY <1>3, <1>4, <1>5, <1>6, <1>7 DEF Turns

\* A step of an actor keeps what is owed.
LEMMA OwedStep ==
  ASSUME Typed, OrphansOwed, NEW a \in Actors, NEW o \in Op, StepsTo(a, o), LocalOK(o),
         \A d \in Docs : Orphan(d)' => Orphan(d) \/ (o.pc \in {"dl_clear", "rp_clear"} /\ o.doc = d),
         \A d \in toDelete : d \in toDelete' \/ ~Orphan(d)',
         \A d \in Docs : On({"dl_clear", "rp_clear"}, a, d) =>
            \/ d \in toDelete' \/ ~Orphan(d)'
            \/ /\ row'[d] = "deleting" /\ o.pc \notin ReapPCs
               /\ \A b \in Actors \ {a} : ~On(ReapPCs, b, d),
         \A d \in Docs : row[d] = "deleting" /\ (\A b \in Actors : ~On(ReapPCs, b, d)) =>
            row'[d] = "deleting" /\ ~(o.pc \in ReapPCs /\ o.doc = d)
  PROVE  OrphansOwed'
<1>1. \A pcs, d : \A b \in Actors :
        /\ b # a => (On(pcs, b, d)' <=> On(pcs, b, d)) /\ op'[b].ver = op[b].ver
        /\ b = a => (On(pcs, b, d)' <=> o.pc \in pcs /\ o.doc = d) /\ op'[b].ver = o.ver
  BY OnAfter
<1> SUFFICES ASSUME NEW d \in Docs, Orphan(d)' PROVE Owed(d)'
  BY DEF OrphansOwed
<1>2. CASE o.pc \in {"dl_clear", "rp_clear"} /\ o.doc = d
  BY <1>1, <1>2 DEF Owed
<1>3. CASE Orphan(d) /\ d \in toDelete
  BY <1>3 DEF Owed
<1>4. ASSUME Orphan(d), NEW b \in Actors, On({"dl_clear", "rp_clear"}, b, d) PROVE Owed(d)'
  <2>1. CASE b # a
    BY <1>1, <1>4, <2>1 DEF Owed
  <2>2. CASE b = a
    BY <1>1, <1>4, <2>2 DEF Owed
  <2> QED BY <2>1, <2>2
<1>5. CASE Orphan(d) /\ row[d] = "deleting" /\ \A b \in Actors : ~On(ReapPCs, b, d)
  BY <1>1, <1>5 DEF Owed
<1> QED BY <1>2, <1>3, <1>4, <1>5 DEF OrphansOwed, Owed

\* An actor that ends.
LEMMA EndOwes ==
  ASSUME Typed, Turns, OrphansOwed, NEW a \in Actors, Finish(a),
         UNCHANGED pg, \A d \in Docs : chunks'[d] \subseteq chunks[d],
         \A d \in toDelete : d \in toDelete' \/ ~Orphan(d)',
         \A d \in Docs : On({"dl_clear", "rp_clear"}, a, d) =>
            \/ d \in toDelete' \/ ~Orphan(d)'
            \/ row'[d] = "deleting" /\ \A b \in Actors \ {a} : ~On(ReapPCs, b, d),
         \A d \in Docs : row'[d] = row[d] \/ On(ReapPCs, a, d)
  PROVE  Turns' /\ OrphansOwed'
<1>1. StepsTo(a, Idle) /\ LocalOK(Idle) /\ Idle \in Op /\ Idle.pc = "idle"
  BY FinishSteps, IdleIsOp DEF Idle
<1>2. Turns'
  <2>1. Idle.pc \notin DrainPCs /\ Idle.pc \notin RequestPCs /\ Idle.pc # "dr_clear"
          /\ Idle.pc \notin {"rs_index", "rs_stamp"}
    BY <1>1 DEF DrainPCs, RequestPCs, RestorePCs
  <2> QED BY <1>1, <2>1, TurnsStep
<1>3. OrphansOwed'
  <2>1. Idle.pc \notin ReapPCs
    BY <1>1 DEF ReapPCs
  <2> QED BY <1>1, <2>1, OwedStep DEF Orphan
<1> QED BY <1>2, <1>3

LEMMA ReaperOwes ==
  ASSUME Orderly, Typed, Claims, Turns, OrphansOwed, NEW a \in Actors, a \in Reapers,
         ReaperSteps(a)
  PROVE  Turns' /\ OrphansOwed'
<1> DEFINE d == op[a].doc
<1>1. /\ op[a] \in Op /\ LocalOK(op[a]) /\ row \in [Docs -> {"none", "due", "deleting"}]
      /\ pg \in [Docs -> 0 .. MaxVersion] /\ chunks \in [Docs -> SUBSET Versions]
      /\ a \notin Drains
  BY ConstantsOK DEF Typed, TypeOK
<1>2. ASSUME AlreadyGone(a, d) \/ Unclaim(a, d), On(ReapPCs, a, d), op[a].pc \notin {"rp_clear"},
             d \in Docs, UNCHANGED <<pg, chunks>>, Unclaim(a, d) => UNCHANGED toDelete
      PROVE  Turns' /\ OrphansOwed'
  <2>1. /\ Finish(a) /\ \A e \in toDelete : e \in toDelete'
        /\ \A e \in Docs : row'[e] = row[e] \/ On(ReapPCs, a, e)
    <3>1. Finish(a) /\ \E s : row' = [row EXCEPT ![d] = s]
      BY <1>2 DEF AlreadyGone, Unclaim
    <3>2. toDelete' = toDelete \/ toDelete' = toDelete \cup {d}
      BY <1>2 DEF AlreadyGone, Unclaim, Enqueued
    <3>3. \A e \in Docs : row'[e] = row[e] \/ e = d
      BY <1>1, <3>1
    <3> QED BY <1>2, <3>1, <3>2, <3>3
  <2>2. \A e \in Docs : ~On({"dl_clear", "rp_clear"}, a, e)
    BY <1>2 DEF On, ReapPCs
  <2> HIDE DEF d
  <2> QED BY <1>2, <2>1, <2>2, EndOwes
<1>3. CASE Capture(a)
  <2>1. d \in Docs /\ On(ReapPCs, a, d) /\ op[a].pc = "rp_capture"
    BY <1>1, <1>3 DEF Capture, At, On, LocalOK, ReapPCs
  <2>2. CASE Captured(a) /\ UNCHANGED <<row, toDelete>>
    <3>1. PICK o \in Op : /\ StepsTo(a, o) /\ LocalOK(o) /\ o.pc = "rp_commit" /\ o.doc = d
      BY <1>3, <2>2, CaptureSteps
    <3>2. UNCHANGED <<pg, chunks, row, toDelete>>
      BY <1>3, <2>2 DEF Capture
    <3>3. \A e \in Docs : ~On({"dl_clear", "rp_clear"}, a, e)
      BY <2>1 DEF On
    <3>4. o.pc \notin DrainPCs /\ o.pc \notin RequestPCs /\ op[a].pc \notin PurgePCs
      BY <2>1, <3>1 DEF DrainPCs, RequestPCs, RestorePCs, PurgePCs
    <3>5. Turns'
      BY <1>1, <3>1, <3>2, <3>4, TurnsStep
    <3> HIDE DEF d
    <3> QED BY <2>1, <3>1, <3>2, <3>3, <3>5, OwedStep DEF Orphan
  <2>3. CASE (AlreadyGone(a, d) \/ (Unclaim(a, d) /\ UNCHANGED toDelete)) /\ UNCHANGED <<pg, chunks>>
    <3>1. Unclaim(a, d) => UNCHANGED toDelete
      BY <1>1, <2>1, <2>3 DEF AlreadyGone, Unclaim
    <3> QED BY <1>2, <2>1, <2>3, <3>1
  <2> QED BY <1>3, <2>2, <2>3 DEF Capture, Captured
<1>4. CASE TrashAndDelete(a)
  <2>1. /\ d \in Docs /\ On(ReapPCs, a, d) /\ op[a].pc = "rp_commit" /\ UNCHANGED chunks
        /\ ~At(a, "idle")
    BY <1>1, <1>4 DEF TrashAndDelete, At, On, LocalOK, ReapPCs
  <2>2. CASE Goto(a, "rp_clear") /\ pg' = [pg EXCEPT ![d] = 0] /\ UNCHANGED <<row, toDelete>>
    <3>1. PICK o \in Op : StepsTo(a, o) /\ LocalOK(o) /\ o.pc = "rp_clear" /\ o.doc = d
      BY <2>1, <2>2, GotoSteps DEF PCs, ReapPCs, RestorePCs
    <3>2. o.pc \notin DrainPCs /\ o.pc \notin RequestPCs /\ op[a].pc \notin PurgePCs
            /\ o.pc # "dr_clear" /\ o.pc \notin {"rs_index", "rs_stamp"}
      BY <2>1, <3>1 DEF DrainPCs, RequestPCs, RestorePCs, PurgePCs
    <3>3. row[d] = "deleting"
      BY <2>1 DEF Claims
    <3>4. \A b \in Actors : ~On({"rs_index", "rs_stamp"}, b, d)
      BY <2>1, <3>3 DEF Claims, On, RestorePCs
    <3>5. \A e \in Docs : ~On({"dl_clear", "rp_clear"}, a, e)
      BY <2>1 DEF On
    <3>6. \A e \in Docs : pg'[e] = 0 => pg[e] = 0 \/ e = d
      BY <1>1, <2>2
    <3> HIDE DEF d
    <3>7. Turns'
      BY <1>1, <2>1, <3>1, <3>2, <3>4, <3>6, TurnsStep DEF d
    <3> QED BY <2>1, <2>2, <3>1, <3>5, <3>6, <3>7, OwedStep DEF Orphan
  <2>3. CASE (AlreadyGone(a, d) \/ (Unclaim(a, d) /\ UNCHANGED toDelete)) /\ UNCHANGED pg
    <3>1. Unclaim(a, d) => UNCHANGED toDelete
      BY <1>1, <2>1, <2>3 DEF AlreadyGone, Unclaim
    <3> QED BY <1>2, <2>1, <2>3, <3>1
  <2> QED BY <1>4, <2>2, <2>3 DEF TrashAndDelete
<1>5. CASE ReaperClears(a)
  <2>1. /\ d \in Docs /\ On(ReapPCs, a, d) /\ ~At(a, "idle") /\ Goto(a, "rp_mark")
        /\ op[a].pc = "rp_clear" /\ UNCHANGED <<row, pg>>
    BY <1>1, <1>5 DEF ReaperClears, At, On, LocalOK, ReapPCs
  <2>2. PICK o \in Op : StepsTo(a, o) /\ LocalOK(o) /\ o.pc = "rp_mark" /\ o.doc = d
    BY <2>1, GotoSteps DEF PCs, ReapPCs, RestorePCs
  <2>3. /\ \A e \in Docs : chunks'[e] \subseteq chunks[e]
        /\ \A e \in toDelete : e \in toDelete'
        /\ d \in toDelete' \/ chunks'[d] = {}
    BY <1>1, <1>5, <2>1, EnqueuedTyped DEF ReaperClears, ClearIndex, Orderly, Typed, TypeOK
  <2>4. o.pc \notin DrainPCs /\ o.pc \notin RequestPCs /\ op[a].pc \notin PurgePCs
          /\ o.pc # "dr_clear" /\ o.pc \notin {"rs_index", "rs_stamp"}
    BY <2>1, <2>2 DEF DrainPCs, RequestPCs, RestorePCs, PurgePCs
  <2>5. Turns'
    BY <1>1, <2>1, <2>2, <2>3, <2>4, TurnsStep
  <2>6. \A e \in Docs : On({"dl_clear", "rp_clear"}, a, e) => e = d
    BY DEF On
  <2> HIDE DEF d
  <2> QED BY <2>1, <2>2, <2>3, <2>5, <2>6, OwedStep DEF Orphan
<1>6. CASE MarkDeleted(a)
  <2>1. d \in Docs /\ On(ReapPCs, a, d) /\ \A e \in Docs : ~On({"dl_clear", "rp_clear"}, a, e)
    BY <1>1, <1>6 DEF MarkDeleted, At, On, LocalOK, ReapPCs
  <2> QED BY <1>1, <1>6, <2>1, EndOwes DEF MarkDeleted
<1>7. CASE Purge(a)
  <2>1. \A e \in Docs : ~On({"dl_clear", "rp_clear"}, a, e)
    BY <1>7 DEF Purge, At, On
  <2> QED BY <1>7, <2>1, EndOwes DEF Purge
<1> QED BY <1>3, <1>4, <1>5, <1>6, <1>7 DEF ReaperSteps

LEMMA OperatorOwes ==
  ASSUME Orderly, Typed, Claims, Turns, OrphansOwed, NEW a \in Actors, a \in Operators,
         OperatorSteps(a)
  PROVE  Turns' /\ OrphansOwed'
<1> DEFINE d == op[a].doc
<1>1. /\ op[a] \in Op /\ LocalOK(op[a]) /\ row \in [Docs -> {"none", "due", "deleting"}]
      /\ pg \in [Docs -> 0 .. MaxVersion] /\ chunks \in [Docs -> SUBSET Versions]
      /\ a \notin Drains
  BY ConstantsOK DEF Typed, TypeOK
<1>2. CASE DeleteClears(a)
  <2>1. d \in Docs /\ UNCHANGED <<row, pg>> /\ Finish(a)
    BY <1>1, <1>2 DEF DeleteClears, At, LocalOK
  <2>2. /\ \A e \in Docs : chunks'[e] \subseteq chunks[e]
        /\ \A e \in toDelete : e \in toDelete'
        /\ d \in toDelete' \/ chunks'[d] = {}
    BY <1>1, <1>2, <2>1, EnqueuedTyped DEF DeleteClears, ClearIndex, Orderly, Typed, TypeOK
  <2>3. \A e \in Docs : On({"dl_clear", "rp_clear"}, a, e) => e = d
    BY DEF On
  <2> HIDE DEF d
  <2> QED BY <2>1, <2>2, <2>3, EndOwes DEF Orphan
<1>3. ASSUME \A e \in Docs : ~On({"dl_clear", "rp_clear"}, a, e), Finish(a),
             UNCHANGED <<pg, chunks, row, toDelete>>
      PROVE  Turns' /\ OrphansOwed'
  BY <1>3, EndOwes
<1>4. CASE CheckExists(a)
  <2>1. /\ d \in Docs /\ UNCHANGED <<pg, chunks, row, toDelete>> /\ op[a].pc = "rs_exists"
        /\ \A e \in Docs : ~On({"dl_clear", "rp_clear"}, a, e)
    BY <1>1, <1>4 DEF CheckExists, At, LocalOK, Postgres, On
  <2>2. CASE ~Finish(a)
    <3>1. PICK o \in Op : StepsTo(a, o) /\ LocalOK(o) /\ o.pc = "rs_commit" /\ o.doc = d
      BY <1>4, <2>2, CheckSteps
    <3>2. o.pc \notin DrainPCs /\ op[a].pc \notin PurgePCs /\ o.pc # "dr_clear"
            /\ o.pc \notin {"rs_index", "rs_stamp"} /\ o.pc \notin ReapPCs
      BY <2>1, <3>1 DEF DrainPCs, PurgePCs, ReapPCs
    <3>3. Turns'
      BY <1>1, <2>1, <3>1, <3>2, TurnsStep
    <3> HIDE DEF d
    <3> QED BY <2>1, <3>1, <3>2, <3>3, OwedStep DEF Orphan
  <2> QED BY <1>3, <2>1, <2>2
<1>5. CASE RestoreRows(a)
  <2>1. /\ d \in Docs /\ UNCHANGED <<chunks, row, toDelete>> /\ op[a].pc = "rs_commit"
        /\ \A e \in Docs : ~On({"dl_clear", "rp_clear"}, a, e)
        /\ op[a].ver # 0 /\ op[a].pc \in RestorePCs /\ ~At(a, "idle")
    BY <1>1, <1>5 DEF RestoreRows, At, LocalOK, On, RestorePCs
  <2>2. CASE Goto(a, "rs_index") /\ pg' = [pg EXCEPT ![d] = op[a].ver]
    <3>1. PICK o \in Op : StepsTo(a, o) /\ LocalOK(o) /\ o.pc = "rs_index" /\ o.doc = d
      BY <2>1, <2>2, GotoSteps DEF PCs, RestorePCs
    <3>2. o.pc \notin DrainPCs /\ op[a].pc \notin PurgePCs /\ o.pc # "dr_clear"
            /\ o.pc \notin ReapPCs
      BY <2>1, <3>1 DEF DrainPCs, PurgePCs, ReapPCs
    <3>3. pg'[d] # 0 /\ \A e \in Docs : pg'[e] = 0 => pg[e] = 0
      BY <1>1, <2>1, <2>2
    <3> HIDE DEF d
    <3>4. Turns'
      BY <1>1, <2>1, <3>1, <3>2, <3>3, TurnsStep DEF d
    <3> QED BY <2>1, <3>1, <3>2, <3>3, <3>4, OwedStep DEF Orphan
  <2>3. CASE Finish(a) /\ UNCHANGED pg
    BY <1>3, <2>1, <2>3
  <2> QED BY <1>5, <2>2, <2>3 DEF RestoreRows
<1>6. CASE RestoreChunks(a)
  <2>1. /\ d \in Docs /\ UNCHANGED <<pg, row, toDelete>> /\ op[a].pc = "rs_index"
        /\ \A e \in Docs : ~On({"dl_clear", "rp_clear"}, a, e)
        /\ op[a].pc \in RestorePCs /\ ~At(a, "idle") /\ Goto(a, "rs_stamp")
        /\ On({"rs_index", "rs_stamp"}, a, d)
    BY <1>1, <1>6 DEF RestoreChunks, At, LocalOK, On, RestorePCs
  <2>2. PICK o \in Op : StepsTo(a, o) /\ LocalOK(o) /\ o.pc = "rs_stamp" /\ o.doc = d
    BY <2>1, GotoSteps DEF PCs, RestorePCs
  <2>3. o.pc \notin DrainPCs /\ op[a].pc \notin PurgePCs /\ o.pc # "dr_clear"
          /\ o.pc \notin ReapPCs
    BY <2>1, <2>2 DEF DrainPCs, PurgePCs, ReapPCs
  <2>4. pg[d] # 0
    BY <2>1 DEF Turns
  <2>5. \A e \in Docs \ {d} : chunks'[e] = chunks[e]
    <3>1. chunks' = chunks \/ \E left \in SUBSET (chunks[d] \ {op[a].ver}) :
             chunks' = [chunks EXCEPT ![d] = left \cup {op[a].ver}]
      BY <1>6 DEF RestoreChunks
    <3> HIDE DEF d
    <3> QED BY <1>1, <3>1
  <2>6. \A q \in Drains : ~On({"dr_clear"}, q, d)
    <3>1. \A q \in Drains : On({"dr_clear"}, q, d) => On(DrainPCs, q, d)
      BY DEF On, DrainPCs
    <3> QED BY <1>1, <2>1, <2>3, <3>1 DEF Turns
  <2>7. Turns'
    <3> HIDE DEF d
    <3> QED BY <1>1, <2>1, <2>2, <2>3, <2>4, <2>5, <2>6, TurnsStep DEF d
  <2> HIDE DEF d
  <2> QED BY <2>1, <2>2, <2>3, <2>4, <2>5, <2>7, OwedStep DEF Orphan
<1>7. CASE StampRestored(a) \/ Purge(a)
  <2>1. Finish(a) /\ UNCHANGED <<pg, chunks, row, toDelete>>
          /\ \A e \in Docs : ~On({"dl_clear", "rp_clear"}, a, e)
    BY <1>7 DEF StampRestored, Purge, At, On
  <2> QED BY <1>3, <2>1
<1>8. CASE SkipHeld(a)
  <2>1. /\ d \in Docs /\ UNCHANGED <<pg, chunks, row, toDelete>> /\ op[a].pc = "pg_held"
        /\ \A e \in Docs : ~On({"dl_clear", "rp_clear"}, a, e) /\ ~At(a, "idle")
        /\ (Finish(a) \/ Goto(a, "pg_delete"))
    BY <1>1, <1>8 DEF SkipHeld, At, LocalOK, Postgres, On
  <2>2. CASE Goto(a, "pg_delete")
    <3>1. PICK o \in Op : StepsTo(a, o) /\ LocalOK(o) /\ o.pc = "pg_delete" /\ o.doc = d
      BY <2>1, <2>2, GotoSteps DEF PCs, RestorePCs
    <3>2. o.pc \notin DrainPCs /\ o.pc \in PurgePCs /\ o.pc # "dr_clear"
            /\ o.pc \notin {"rs_index", "rs_stamp"} /\ o.pc \notin ReapPCs
            /\ o.pc \notin RequestPCs
      BY <2>1, <3>1 DEF DrainPCs, PurgePCs, ReapPCs, RequestPCs, RestorePCs
    <3>3. Turns'
      BY <1>1, <2>1, <3>1, <3>2, TurnsStep
    <3> HIDE DEF d
    <3> QED BY <2>1, <3>1, <3>2, <3>3, OwedStep DEF Orphan
  <2> QED BY <1>3, <2>1, <2>2
<1> QED BY <1>2, <1>4, <1>5, <1>6, <1>7, <1>8 DEF OperatorSteps

LEMMA DrainOwes ==
  ASSUME Orderly, Typed, Claims, Turns, OrphansOwed, NEW a \in Actors,
         (DrainSteps(a) /\ a \in Drains) \/ (Abort(a) /\ a \in Abortable)
  PROVE  Turns' /\ OrphansOwed'
<1> DEFINE d == op[a].doc
<1>1. /\ op[a] \in Op /\ LocalOK(op[a]) /\ row \in [Docs -> {"none", "due", "deleting"}]
      /\ pg \in [Docs -> 0 .. MaxVersion] /\ chunks \in [Docs -> SUBSET Versions]
      /\ toDelete \subseteq Docs
  BY DEF Typed, TypeOK
<1>2. CASE Abort(a) /\ a \in Abortable
  <2>1. Finish(a) /\ UNCHANGED <<pg, chunks, row, toDelete>>
    BY <1>2 DEF Abort, Postgres
  <2>2. \A e \in Docs : On({"dl_clear", "rp_clear"}, a, e) => On(ReapPCs, a, e)
    <3>1. op[a].pc # "dl_clear"
      BY <1>2 DEF Turns, Orderly, RequestPCs
    <3> QED BY <3>1 DEF On, ReapPCs
  <2>3. \A e \in Docs : On(ReapPCs, a, e) =>
          row[e] = "deleting" /\ \A b \in Actors \ {a} : ~On(ReapPCs, b, e)
    BY DEF Claims
  <2> QED BY <2>1, <2>2, <2>3, EndOwes
<1>3. CASE DrainDone(a) /\ a \in Drains
  <2>1. /\ d \in Docs /\ chunks[d] = {} /\ Finish(a) /\ UNCHANGED <<pg, chunks, row>>
        /\ toDelete' = toDelete \ {d} /\ \A e \in Docs : ~On({"dl_clear", "rp_clear"}, a, e)
    BY <1>1, <1>3 DEF DrainDone, At, LocalOK, Turns, On
  <2> HIDE DEF d
  <2> QED BY <1>1, <2>1, EndOwes DEF Orphan
<1>4. CASE DrainChunks(a) /\ a \in Drains
  <2>1. /\ d \in Docs /\ UNCHANGED <<pg, row, toDelete>> /\ op[a].pc = "dr_delete"
        /\ \A e \in Docs : ~On({"dl_clear", "rp_clear"}, a, e) /\ ~At(a, "idle")
    BY <1>1, <1>4 DEF DrainChunks, At, LocalOK, Postgres, On
  <2>2. CASE chunks' = [chunks EXCEPT ![d] = {}] /\ Goto(a, "dr_clear")
    <3>1. PICK o \in Op : StepsTo(a, o) /\ LocalOK(o) /\ o.pc = "dr_clear" /\ o.doc = d
      BY <2>1, <2>2, GotoSteps DEF PCs, RestorePCs
    <3>2. o.pc \in DrainPCs /\ op[a].pc \notin PurgePCs /\ o.pc \notin RequestPCs
            /\ o.pc \notin {"rs_index", "rs_stamp"} /\ o.pc \notin ReapPCs
      BY <2>1, <3>1 DEF DrainPCs, PurgePCs, ReapPCs, RequestPCs, RestorePCs
    <3>3. chunks'[d] = {} /\ \A e \in Docs : chunks'[e] \subseteq chunks[e]
      BY <1>1, <2>1, <2>2
    <3> HIDE DEF d
    <3>4. Turns'
      BY <1>4, <2>1, <3>1, <3>2, <3>3, TurnsStep DEF d
    <3> QED BY <2>1, <3>1, <3>2, <3>3, <3>4, OwedStep DEF Orphan
  <2>3. CASE Finish(a) /\ UNCHANGED chunks
    BY <2>1, <2>3, EndOwes
  <2> QED BY <1>4, <2>2, <2>3 DEF DrainChunks
<1> QED BY <1>2, <1>3, <1>4 DEF DrainSteps

LEMMA BeginsOwe ==
  ASSUME Orderly, Typed, Claims, Turns, OrphansOwed, NEW a \in Actors, NEW d \in Docs,
         \/ a \in Reapers /\ (Claim(a, d) \/ ListExpired(a, d))
         \/ a \in Operators /\ (DeletePage(a, d) \/ StartRestore(a, d) \/ StartPurge(a, d))
         \/ a \in Drains /\ ListPending(a, d)
  PROVE  Turns' /\ OrphansOwed'
<1>1. /\ row \in [Docs -> {"none", "due", "deleting"}] /\ pg \in [Docs -> 0 .. MaxVersion]
  BY DEF Typed, TypeOK
<1>2. /\ UNCHANGED <<chunks, toDelete>> /\ op[a].pc = "idle" /\ HasTurn(a, d)
  BY DEF Claim, ListExpired, DeletePage, StartRestore, StartPurge, ListPending, Begin, BeginWith,
     At, Postgres
<1>3. \A b \in Actors : op[b].doc = d => (a \in Drains <=> b \in Drains) \/ op[b].pc \in PurgePCs
  BY <1>2 DEF HasTurn, Orderly, PurgePCs
<1>4. \A e \in Docs : ~On({"dl_clear", "rp_clear"}, a, e)
  BY <1>2 DEF On
<1>5. PICK o \in Op :
        /\ StepsTo(a, o) /\ LocalOK(o) /\ o.doc = d
        /\ \/ o.pc = "rp_capture" /\ Claim(a, d) /\ a \in Reapers
           \/ o.pc = "pg_delete" /\ ListExpired(a, d) /\ a \in Reapers
           \/ o.pc = "dl_clear" /\ DeletePage(a, d) /\ a \in Operators
           \/ o.pc = "rs_exists" /\ StartRestore(a, d) /\ a \in Operators
           \/ o.pc = "pg_held" /\ StartPurge(a, d) /\ a \in Operators
           \/ o.pc = "dr_delete" /\ ListPending(a, d) /\ a \in Drains
  <2>1. CASE StartRestore(a, d) /\ a \in Operators
    BY <2>1, StartSteps
  <2>2. ASSUME NEW pc \in {"rp_capture", "pg_delete", "dl_clear", "pg_held", "dr_delete"},
               Begin(a, pc, d)
        PROVE  \E o \in Op : StepsTo(a, o) /\ LocalOK(o) /\ o.pc = pc /\ o.doc = d
    BY <2>2, BeginSteps DEF PCs, ReapPCs, RestorePCs
  <2> QED BY <2>1, <2>2 DEF Claim, ListExpired, DeletePage, StartPurge, ListPending
<1>6. /\ o.pc \in DrainPCs <=> a \in Drains /\ o.pc # "idle"
      /\ o.pc \in RequestPCs => a \in Operators
      /\ o.pc # "dr_clear" /\ o.pc \notin {"rs_index", "rs_stamp"}
  BY <1>5, ConstantsOK DEF DrainPCs, RequestPCs, RestorePCs
<1>7. \A e \in Docs : pg'[e] = 0 => pg[e] = 0 \/ (o.pc = "dl_clear" /\ e = d)
  BY <1>1, <1>5 DEF Claim, ListExpired, DeletePage, StartRestore, StartPurge, ListPending, Postgres
<1>8. o.pc = "dl_clear" => \A b \in Actors \ {a}, e \in Docs : ~On({"rs_index", "rs_stamp"}, b, e)
  BY <1>5, ConstantsOK DEF Turns, Orderly, On, RequestPCs, RestorePCs
<1>9. Turns'
  BY <1>2, <1>3, <1>5, <1>6, <1>7, <1>8, TurnsStep
<1>10. \A e \in Docs : row[e] = "deleting" =>
         row'[e] = "deleting" /\ ~(o.pc \in ReapPCs /\ o.doc = e)
  BY <1>1, <1>5 DEF Claim, ListExpired, DeletePage, StartRestore, StartPurge, ListPending,
     Postgres, ReapPCs
<1>11. OrphansOwed'
  BY <1>2, <1>4, <1>5, <1>7, <1>10, OwedStep DEF Orphan
<1> QED BY <1>9, <1>11

LEMMA WorldOwes ==
  ASSUME Orderly, Typed, Claims, Turns, OrphansOwed, NEW d \in Docs, World(d)
  PROVE  Turns' /\ OrphansOwed'
<1>1. /\ row \in [Docs -> {"none", "due", "deleting"}] /\ pg \in [Docs -> 0 .. MaxVersion]
      /\ newest \in [Docs -> Versions] /\ toDelete \subseteq Docs
      /\ chunks \in [Docs -> SUBSET Versions]
  BY DEF Typed, TypeOK
<1>2. UNCHANGED op
  BY DEF World, SetHold, BecomesDue, Unstage, Expire, Crawl, Recover
<1>3. \A pcs, a, e : On(pcs, a, e)' <=> On(pcs, a, e)
  BY <1>2 DEF On
<1>4. CASE SetHold(d) \/ Expire(d)
  BY <1>2, <1>3, <1>4 DEF SetHold, Expire, Turns, OrphansOwed, Orphan, Owed
<1>5. CASE BecomesDue(d) \/ Unstage(d)
  <2>1. /\ UNCHANGED <<pg, chunks, toDelete>>
        /\ \A e \in Docs : row[e] = "deleting" => row'[e] = "deleting"
    BY <1>1, <1>5 DEF BecomesDue, Unstage
  <2> QED BY <1>2, <1>3, <2>1 DEF Turns, OrphansOwed, Orphan, Owed
<1>6. CASE Recover(d)
  <2>1. UNCHANGED <<pg, chunks>> /\ \A e \in Docs \ {d} : row'[e] = row[e]
    BY <1>1, <1>6 DEF Recover
  <2>2. \A e \in toDelete : e \in toDelete'
    BY <1>6 DEF Recover, Enqueued
  <2>3. pg[d] # 0 \/ d \in toDelete'
    BY <1>1, <1>6, EnqueuedTyped DEF Recover, Orderly
  <2> QED BY <1>2, <1>3, <2>1, <2>2, <2>3 DEF Turns, OrphansOwed, Orphan, Owed
<1>7. CASE Crawl(d)
  <2>1. \A a \in Actors : op[a].doc = d => op[a].pc = "idle"
    BY <1>7 DEF Crawl, Orderly, Working, Typed, TypeOK, Op
  <2>2. pg'[d] # 0
    <3>1. newest[d] + 1 # 0 /\ pg' = [pg EXCEPT ![d] = newest[d] + 1]
      BY <1>1, <1>7, ConstantsOK DEF Crawl, Versions
    <3> QED BY <1>1, <3>1
  <2>3. /\ UNCHANGED <<row, toDelete>>
        /\ \A e \in Docs \ {d} : pg'[e] = pg[e] /\ chunks'[e] = chunks[e]
    BY <1>1, <1>7 DEF Crawl
  <2>4. \A a \in Actors : ~On({"dr_clear"}, a, d)
    BY <2>1 DEF On
  <2>5. Turns'
    BY <1>2, <1>3, <2>2, <2>3, <2>4 DEF Turns, Actors
  <2> QED BY <1>3, <2>2, <2>3, <2>5 DEF OrphansOwed, Orphan, Owed
<1> QED BY <1>4, <1>5, <1>6, <1>7 DEF World

LEMMA OwedNext ==
  ASSUME Orderly
  PROVE  Typed /\ Claims /\ Turns /\ OrphansOwed /\ [Next]_vars => Turns' /\ OrphansOwed'
<1> SUFFICES ASSUME Typed, Claims, Turns, OrphansOwed, [Next]_vars PROVE Turns' /\ OrphansOwed'
  OBVIOUS
<1>1. CASE UNCHANGED vars
  BY <1>1 DEF vars, Turns, OrphansOwed, Orphan, Owed, On
<1>2. CASE Next
  <2>1. Abortable \subseteq Actors /\ Reapers \subseteq Actors /\ Operators \subseteq Actors
          /\ Drains \subseteq Actors
    BY ConstantsOK DEF Actors
  <2> QED BY <1>2, <2>1, ReaperOwes, OperatorOwes, DrainOwes, BeginsOwe, WorldOwes DEF Next
<1> QED BY <1>1, <1>2

\* Chunks of a document that is gone are always on the way out: a handler or the
\* drain is to clear them, or a claim waits for recovery (enqueue,
\* recover_stuck_deleting, the drain of lib.rs).
THEOREM NoOrphanUnseen ==
  ASSUME Orderly
  PROVE  Spec => []OrphansAreQueued
<1>1. Typed /\ Claims /\ [Next]_vars => Claims'
  BY ClaimsNext DEF Calm, Orderly
<1>2. Typed /\ Claims /\ Turns /\ OrphansOwed /\ [Next]_vars => Turns' /\ OrphansOwed'
  BY OwedNext
<1>3. OrphansOwed => OrphansAreQueued
  BY DEF OrphansOwed, OrphansAreQueued, Orphan, Owed, On, Working
<1> QED BY TypedInit, ClaimsInit, TurnsInit, TypedNext, <1>1, <1>2, <1>3, PTL DEF Spec
=============================================================================
