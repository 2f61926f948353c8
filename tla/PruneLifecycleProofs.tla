------------------------ MODULE PruneLifecycleProofs ------------------------
(***************************************************************************)
(* The lifecycle keeps its types; with one reaper running it never reaps a *)
(* document whose row is not claimed and due, and it implements the        *)
(* waiting room of every document; undisturbed, it hides what it has       *)
(* staged and gives back what it restores.                                 *)
(***************************************************************************)
EXTENDS PruneLifecycle, TLAPS

(***************************************************************************)
(* Records of the two record types, and the updates the actions make.      *)
(***************************************************************************)
LEMMA IdleIsOp == Idle \in Op
BY DEF Idle, Op, PCs

LEMMA OpPc ==
  ASSUME NEW r \in Op, NEW pc \in PCs
  PROVE  /\ [r EXCEPT !.pc = pc] \in Op
         /\ [r EXCEPT !.pc = pc].pc = pc
         /\ [r EXCEPT !.pc = pc].id = r.id
         /\ [r EXCEPT !.pc = pc].doc = r.doc
BY DEF Op

LEMMA NoRowIsRow == NoRow \in Row
BY DEF NoRow, Row, RowStates, OpenStates

LEMMA OpenedIsRow ==
  ASSUME NEW d \in Docs \cup {NoDoc}
  PROVE  /\ Opened(d) \in Row
         /\ Opened(d).doc = d
         /\ Opened(d).state = "candidate"
BY NoRowIsRow DEF Opened, NoRow, Row, RowStates, OpenStates

LEMMA RowState ==
  ASSUME NEW r \in Row, NEW s \in RowStates
  PROVE  /\ [r EXCEPT !.state = s] \in Row
         /\ [r EXCEPT !.state = s].state = s
         /\ [r EXCEPT !.state = s].doc = r.doc
         /\ [r EXCEPT !.state = s].due = r.due
BY DEF Row

LEMMA StagedRowIsRow ==
  ASSUME NEW r \in Row, NEW prev \in BOOLEAN
  PROVE  /\ StagedRow(r, prev) \in Row
         /\ StagedRow(r, prev).state = "staged"
         /\ StagedRow(r, prev).doc = r.doc
BY ConstantsOK DEF StagedRow, Row, RowStates, OpenStates

(***************************************************************************)
(* What the shorthands of the actions do to op.                            *)
(***************************************************************************)
LEMMA FinishType ==
  ASSUME NEW a \in Actors, op \in [Actors -> Op], Finish(a)
  PROVE  /\ op' \in [Actors -> Op]
         /\ op'[a] = Idle
         /\ \A b \in Actors \ {a} : op'[b] = op[b]
BY IdleIsOp DEF Finish

LEMMA GotoType ==
  ASSUME NEW a \in Actors, NEW pc \in PCs, op \in [Actors -> Op], Goto(a, pc)
  PROVE  /\ op' \in [Actors -> Op]
         /\ op'[a].pc = pc
         /\ op'[a].id = op[a].id
         /\ op'[a].doc = op[a].doc
         /\ \A b \in Actors \ {a} : op'[b] = op[b]
<1>1. op' = [op EXCEPT ![a] = [op[a] EXCEPT !.pc = pc]]
  BY DEF Goto
<1>2. op[a] \in Op
  OBVIOUS
<1> QED
  BY <1>1, <1>2, OpPc

(***************************************************************************)
(* Type correctness.                                                       *)
(***************************************************************************)
LEMMA TypeInit == Init => TypeOK
BY ConstantsOK, NoRowIsRow, IdleIsOp DEF Init, TypeOK, Flags

LEMMA BeginType ==
  ASSUME TypeOK, NEW a \in Actors, NEW pc \in PCs, NEW i \in Ids, NEW prev \in BOOLEAN,
         NEW arg \in {"none", "no", "yes"}, Begin(a, pc, i, prev, arg)
  PROVE  TypeOK'
<1>1. cand[i].doc \in Docs \cup {NoDoc}
  BY DEF TypeOK, Row
<1>2. [pc |-> pc, id |-> i, doc |-> cand[i].doc, prev |-> prev, arg |-> arg] \in Op
  BY <1>1 DEF Op
<1>3. op' \in [Actors -> Op]
  BY <1>2 DEF TypeOK, Begin
<1> QED
  BY <1>3 DEF TypeOK, Begin

LEMMA BeginDocType ==
  ASSUME TypeOK, NEW a \in Actors, NEW pc \in PCs, NEW d \in Docs,
         NEW arg \in {"none", "no", "yes"}, BeginDoc(a, pc, d, arg)
  PROVE  TypeOK'
<1>1. [pc |-> pc, id |-> NoId, doc |-> d, prev |-> FALSE, arg |-> arg] \in Op
  BY DEF Op
<1>2. op' \in [Actors -> Op]
  BY <1>1 DEF TypeOK, BeginDoc
<1> QED
  BY <1>2 DEF TypeOK, BeginDoc

(* One step of an actor that only moves its program counter. *)
LEMMA OpOnlyType ==
  ASSUME TypeOK, op' \in [Actors -> Op], OnlyOp
  PROVE  TypeOK'
BY DEF TypeOK, OnlyOp

LEMMA CandType ==
  ASSUME TypeOK, op' \in [Actors -> Op], cand' \in [Ids -> Row], OnlyOpCand
  PROVE  TypeOK'
BY DEF TypeOK, OnlyOpCand

LEMMA DocType ==
  ASSUME TypeOK, op' \in [Actors -> Op], doc' \in [Docs -> Flags \cup {"absent"}],
         faults' \in Nat, OnlyOpDoc
  PROVE  TypeOK'
BY DEF TypeOK, OnlyOpDoc

LEMMA FaultType ==
  ASSUME faults \in Nat, Fault \/ UNCHANGED faults
  PROVE  faults' \in Nat
BY DEF Fault

LEMMA SetState ==
  ASSUME cand \in [Ids -> Row], NEW i, NEW s \in RowStates,
         cand' = [cand EXCEPT ![i].state = s]
  PROVE  /\ cand' \in [Ids -> Row]
         /\ i \in Ids => /\ cand'[i].state = s
                         /\ cand'[i].doc = cand[i].doc
                         /\ cand'[i].due = cand[i].due
         /\ \A j \in Ids \ {i} : cand'[j] = cand[j]
<1>1. CASE i \in Ids
  <2> DEFINE row == [cand[i] EXCEPT !.state = s]
  <2>1. row \in Row /\ row.state = s /\ row.doc = cand[i].doc /\ row.due = cand[i].due
    BY <1>1, RowState
  <2>2. cand' = [cand EXCEPT ![i] = row]
    OBVIOUS
  <2> HIDE DEF row
  <2>3. cand' \in [Ids -> Row] /\ cand'[i] = row /\ \A j \in Ids \ {i} : cand'[j] = cand[j]
    BY <1>1, <2>1, <2>2
  <2> QED
    BY <2>1, <2>3
<1>2. CASE i \notin Ids
  <2>1. cand' = cand
    BY <1>2
  <2> QED
    BY <1>2, <2>1
<1> QED
  BY <1>1, <1>2

LEMMA StageStepsType ==
  ASSUME TypeOK, NEW a \in Actors, StageSteps(a)
  PROVE  TypeOK'
<1> USE DEF PCs, StagePCs
<1>t. /\ op \in [Actors -> Op] /\ cand \in [Ids -> Row] /\ faults \in Nat
      /\ doc \in [Docs -> Flags \cup {"absent"}]
  BY DEF TypeOK
<1>p. op[a] \in Op /\ op[a].prev \in BOOLEAN
  BY <1>t DEF Op
<1>1. CASE ReadHidden(a)
  <2>1. CASE Exists(op[a].doc)
    <3> DEFINE new == [op[a] EXCEPT !.pc = "st_hide", !.prev = (doc[op[a].doc] = "hidden")]
    <3>1. new \in Op
      BY <1>p DEF Op
    <3>2. op' = [op EXCEPT ![a] = new]
      BY <1>1, <2>1 DEF ReadHidden
    <3>3. op' \in [Actors -> Op]
      BY <1>t, <3>1, <3>2
    <3> QED
      BY <1>1, <3>3, OpOnlyType DEF ReadHidden
  <2>2. CASE ~Exists(op[a].doc)
    BY <1>t, <1>1, <2>2, FinishType, OpOnlyType DEF ReadHidden
  <2> QED
    BY <2>1, <2>2
<1>2. CASE Hide(a)
  <2>1. op' \in [Actors -> Op]
    BY <1>t, <1>2, FinishType, GotoType DEF Hide
  <2>2. doc' \in [Docs -> Flags \cup {"absent"}]
    BY <1>t, <1>2 DEF Hide, Flags
  <2>3. faults' \in Nat
    BY <1>t, <1>2, FaultType DEF Hide
  <2> QED
    BY <1>2, <2>1, <2>2, <2>3, DocType DEF Hide
<1>3. CASE MarkStaged(a)
  <2>1. op' \in [Actors -> Op]
    BY <1>t, <1>3, FinishType, GotoType DEF MarkStaged
  <2>2. cand' \in [Ids -> Row]
    <3>1. \A row \in Row : StagedRow(row, op[a].prev) \in Row
      BY <1>p, StagedRowIsRow
    <3> QED
      BY <1>t, <1>3, <3>1 DEF MarkStaged
  <2> QED
    BY <1>3, <2>1, <2>2, CandType DEF MarkStaged
<1>4. CASE CheckLostRace(a)
  BY <1>t, <1>4, FinishType, GotoType, OpOnlyType DEF CheckLostRace
<1>5. CASE UnhideLostRace(a)
  <2>1. op' \in [Actors -> Op]
    BY <1>t, <1>5, FinishType DEF UnhideLostRace
  <2>2. doc' \in [Docs -> Flags \cup {"absent"}]
    BY <1>t, <1>5 DEF UnhideLostRace, Flags
  <2> QED
    BY <1>t, <1>5, <2>1, <2>2, DocType DEF UnhideLostRace
<1>6. CASE SetRemember(a)
  <2>1. op' \in [Actors -> Op]
    BY <1>t, <1>6, FinishType DEF SetRemember
  <2>2. cand' \in [Ids -> Row]
    <3>1. \A row \in Row : [row EXCEPT !.remember = (op[a].arg = "yes")] \in Row
      BY DEF Row
    <3> QED
      BY <1>t, <1>6, <3>1 DEF SetRemember
  <2> QED
    BY <1>6, <2>1, <2>2, CandType DEF SetRemember
<1> QED
  BY <1>1, <1>2, <1>3, <1>4, <1>5, <1>6 DEF StageSteps

LEMMA OperatorStepsType ==
  ASSUME TypeOK, NEW o \in Operators, OperatorSteps(o)
  PROVE  TypeOK'
<1> USE DEF PCs, RestorePCs, DismissPCs, RowStates, OpenStates
<1>a. o \in Actors
  BY DEF Actors
<1>t. /\ op \in [Actors -> Op] /\ cand \in [Ids -> Row] /\ faults \in Nat
      /\ doc \in [Docs -> Flags \cup {"absent"}]
  BY DEF TypeOK
<1>p. op[o] \in Op /\ op[o].prev \in BOOLEAN
  BY <1>t, <1>a DEF Op
<1>1. CASE StageSteps(o)
  BY <1>a, <1>1, StageStepsType
<1>2. CASE MarkRestored(o)
  <2>1. op' \in [Actors -> Op]
    BY <1>a, <1>t, <1>2, FinishType, GotoType DEF MarkRestored
  <2>2. cand' \in [Ids -> Row]
    BY <1>t, <1>2, SetState DEF MarkRestored
  <2> QED
    BY <1>2, <2>1, <2>2, CandType DEF MarkRestored
<1>3. CASE ShowAgain(o)
  <2>1. op' \in [Actors -> Op]
    BY <1>a, <1>t, <1>3, FinishType, GotoType DEF ShowAgain
  <2>2. doc' \in [Docs -> Flags \cup {"absent"}]
    <3>1. Flag(op[o].prev) \in Flags
      BY DEF Flag, Flags
    <3> QED
      BY <1>t, <1>3, <3>1 DEF ShowAgain
  <2>3. faults' \in Nat
    BY <1>t, <1>3, FaultType DEF ShowAgain
  <2> QED
    BY <1>3, <2>1, <2>2, <2>3, DocType DEF ShowAgain
<1>4. CASE Reopen(o)
  <2>1. op' \in [Actors -> Op]
    BY <1>a, <1>t, <1>4, FinishType DEF Reopen
  <2>2. cand' \in [Ids -> Row]
    BY <1>t, <1>4, SetState DEF Reopen
  <2> QED
    BY <1>4, <2>1, <2>2, CandType DEF Reopen
<1>5. CASE MarkDismissed(o)
  <2>1. op' \in [Actors -> Op]
    BY <1>a, <1>t, <1>5, FinishType, GotoType DEF MarkDismissed
  <2>2. cand' \in [Ids -> Row]
    BY <1>t, <1>5, SetState DEF MarkDismissed
  <2> QED
    BY <1>5, <2>1, <2>2, CandType DEF MarkDismissed
<1>6. CASE ExcludeForever(o)
  <2>1. op' \in [Actors -> Op]
    BY <1>a, <1>t, <1>6, FinishType DEF ExcludeForever
  <2> QED
    BY <1>6, <2>1 DEF ExcludeForever, TypeOK
<1>7. CASE ExpediteStaged(o)
  <2>1. op' \in [Actors -> Op]
    BY <1>a, <1>t, <1>7, FinishType DEF ExpediteStaged
  <2>2. cand' \in [Ids -> Row]
    <3>1. \A row \in Row :
            [row EXCEPT !.due = TRUE, !.remember = (op[o].arg = "yes")] \in Row
      BY DEF Row
    <3>2. CASE cand' = cand
      BY <1>t, <3>2
    <3>3. CASE cand' # cand
      <4> DEFINE i == op[o].id
                 row == [cand[i] EXCEPT !.due = TRUE, !.remember = (op[o].arg = "yes")]
      <4>1. cand' = [cand EXCEPT ![i] = row]
        BY <1>t, <1>7, <3>3 DEF ExpediteStaged
      <4>2. i \in Ids => row \in Row
        BY <1>t, <3>1
      <4> QED
        BY <1>t, <4>1, <4>2
    <3> QED
      BY <3>2, <3>3
  <2> QED
    BY <1>7, <2>1, <2>2, CandType DEF ExpediteStaged
<1> QED
  BY <1>1, <1>2, <1>3, <1>4, <1>5, <1>6, <1>7 DEF OperatorSteps

LEMMA RequestsType ==
  ASSUME TypeOK, NEW o \in Operators, Requests(o)
  PROVE  TypeOK'
<1> USE DEF PCs, StagePCs, RestorePCs, DismissPCs
<1>a. o \in Actors
  BY DEF Actors
<1>r. RememberArgs \subseteq {"none", "no", "yes"}
  BY ConstantsOK
<1> PICK i \in Ids : Stage(o, i) \/ ScheduleDelete(o, i) \/ Restore(o, i) \/ Dismiss(o, i)
  BY DEF Requests
<1>1. CASE Stage(o, i)
  BY <1>a, <1>1, BeginType DEF Stage
<1>2. CASE ScheduleDelete(o, i)
  BY <1>a, <1>r, <1>2, BeginType DEF ScheduleDelete
<1>3. CASE Restore(o, i)
  <2>1. cand[i].prev \in BOOLEAN
    BY DEF TypeOK, Row
  <2> QED
    BY <1>a, <1>3, <2>1, BeginType DEF Restore
<1>4. CASE Dismiss(o, i)
  BY <1>a, <1>r, <1>4, BeginType DEF Dismiss
<1> QED
  BY <1>1, <1>2, <1>3, <1>4

LEMMA ReaperStepsType ==
  ASSUME TypeOK, NEW r \in Reapers, ReaperSteps(r)
  PROVE  TypeOK'
<1> USE DEF PCs, StagePCs, ReapPCs, RecoverPCs, RowStates, OpenStates
<1>a. r \in Actors
  BY DEF Actors
<1>t. /\ op \in [Actors -> Op] /\ cand \in [Ids -> Row] /\ faults \in Nat
      /\ doc \in [Docs -> Flags \cup {"absent"}]
  BY DEF TypeOK
<1>p. op[r] \in Op /\ op[r].prev \in BOOLEAN /\ op[r].doc \in Docs \cup {NoDoc}
  BY <1>t, <1>a DEF Op
<1>1. CASE StageSteps(r)
  BY <1>a, <1>1, StageStepsType
<1>2. CASE ClaimForDeletion(r)
  <2>1. op' \in [Actors -> Op]
    BY <1>a, <1>t, <1>2, FinishType, GotoType DEF ClaimForDeletion
  <2>2. cand' \in [Ids -> Row]
    <3>1. \A row \in Row : [row EXCEPT !.state = "deleting", !.old = FALSE] \in Row
      BY DEF Row
    <3>2. CASE cand' = cand
      BY <1>t, <3>2
    <3>3. CASE cand' # cand
      <4> DEFINE i == op[r].id
                 row == [cand[i] EXCEPT !.state = "deleting", !.old = FALSE]
      <4>1. cand' = [cand EXCEPT ![i] = row]
        BY <1>t, <1>2, <3>3 DEF ClaimForDeletion
      <4>2. i \in Ids => row \in Row
        BY <1>t, <3>1
      <4> QED
        BY <1>t, <4>1, <4>2
    <3> QED
      BY <3>2, <3>3
  <2> QED
    BY <1>2, <2>1, <2>2, CandType DEF ClaimForDeletion
<1>3. CASE Capture(r)
  <2>1. op' \in [Actors -> Op]
    BY <1>a, <1>t, <1>3, GotoType DEF Capture
  <2>2. faults' \in Nat
    BY <1>t, <1>3, FaultType DEF Capture
  <2> QED
    BY <1>3, <2>1, <2>2 DEF Capture, TypeOK
<1>4. CASE TrashAndDelete(r)
  <2>1. op' \in [Actors -> Op]
    BY <1>a, <1>t, <1>4, GotoType DEF TrashAndDelete
  <2>2. faults' \in Nat
    BY <1>t, <1>4, FaultType DEF TrashAndDelete
  <2>3. Flag(op[r].prev) \in Flags
    BY DEF Flag, Flags
  <2>4. /\ doc' \in [Docs -> Flags \cup {"absent"}]
        /\ trash' \in [Docs -> Flags \cup {"none"}]
        /\ last' \in [Docs -> {"crawled", "untrashed", "reaped", "removed"}]
    BY <1>4, <2>3 DEF TrashAndDelete, TypeOK
  <2> QED
    BY <1>4, <2>1, <2>2, <2>4 DEF TrashAndDelete, TypeOK
<1>5. CASE UnclaimDeletion(r)
  <2>1. op' \in [Actors -> Op]
    BY <1>a, <1>t, <1>5, FinishType DEF UnclaimDeletion
  <2>2. cand' \in [Ids -> Row]
    BY <1>t, <1>5, SetState DEF UnclaimDeletion
  <2> QED
    BY <1>5, <2>1, <2>2, CandType DEF UnclaimDeletion
<1>6. CASE MarkDeleted(r)
  <2>1. op' \in [Actors -> Op]
    BY <1>a, <1>t, <1>6, FinishType, GotoType DEF MarkDeleted
  <2>2. faults' \in Nat
    BY <1>t, <1>6, FaultType DEF MarkDeleted
  <2>3. cand' \in [Ids -> Row]
    BY <1>t, <1>6, SetState DEF MarkDeleted
  <2> QED
    BY <1>6, <2>1, <2>2, <2>3 DEF MarkDeleted, TypeOK
<1>7. CASE RememberExclusion(r)
  <2>1. op' \in [Actors -> Op]
    BY <1>a, <1>t, <1>7, FinishType DEF RememberExclusion
  <2> QED
    BY <1>7, <2>1 DEF RememberExclusion, TypeOK
<1>8. CASE CheckExists(r)
  <2>1. op' \in [Actors -> Op]
    BY <1>a, <1>t, <1>8, GotoType DEF CheckExists
  <2> QED
    BY <1>8, <2>1, OpOnlyType DEF CheckExists
<1>9. CASE InsertRestage(r)
  <2>1. CASE /\ UNCHANGED cand
             /\ Finish(r)
    <3>1. op' \in [Actors -> Op]
      BY <1>a, <1>t, <2>1, FinishType
    <3>2. cand' \in [Ids -> Row]
      BY <1>t, <2>1
    <3> QED
      BY <1>9, <3>1, <3>2, CandType DEF InsertRestage
  <2>2. ASSUME NEW i \in Ids, cand' = [cand EXCEPT ![i] = Opened(op[r].doc)],
               op' = [op EXCEPT ![r].pc = "st_read", ![r].id = i]
        PROVE  TypeOK'
    <3>1. \A p \in Op : [p EXCEPT !.pc = "st_read", !.id = i] \in Op
      BY DEF Op
    <3>2. op' = [op EXCEPT ![r] = [op[r] EXCEPT !.pc = "st_read", !.id = i]]
      BY <2>2, <1>a, <1>t
    <3>3. op' \in [Actors -> Op]
      BY <1>t, <1>p, <3>1, <3>2
    <3>4. cand' \in [Ids -> Row]
      BY <1>t, <1>p, <2>2, OpenedIsRow
    <3> QED
      BY <1>9, <3>3, <3>4, CandType DEF InsertRestage
  <2> QED
    BY <1>9, <2>1, <2>2 DEF InsertRestage
<1> QED
  BY <1>1, <1>2, <1>3, <1>4, <1>5, <1>6, <1>7, <1>8, <1>9 DEF ReaperSteps

LEMMA ReaperPicksType ==
  ASSUME TypeOK, NEW r \in Reapers, ReaperPicks(r)
  PROVE  TypeOK'
<1> USE DEF PCs, ReapPCs, RecoverPCs
<1>a. r \in Actors
  BY DEF Actors
<1>1. ASSUME NEW i \in Ids, ListDue(r, i) \/ ListStuck(r, i)
      PROVE  TypeOK'
  <2>1. cand[i].prev \in BOOLEAN
    BY DEF TypeOK, Row
  <2>2. Remembered(i) \in {"none", "no", "yes"}
    BY DEF Remembered
  <2> QED
    BY <1>a, <1>1, <2>1, <2>2, BeginType DEF ListDue, ListStuck
<1>2. ASSUME NEW d \in Docs, FindRecrawled(r, d)
      PROVE  TypeOK'
  BY <1>a, <1>2, BeginDocType DEF FindRecrawled
<1> QED
  BY <1>1, <1>2 DEF ReaperPicks

LEMMA ScannerType ==
  ASSUME TypeOK, NEW s \in Scanners, ScannerPicks(s) \/ ScannerSteps(s)
  PROVE  TypeOK'
<1> USE DEF PCs, ScanPCs, RowStates, OpenStates
<1>a. s \in Actors
  BY DEF Actors
<1>t. op \in [Actors -> Op] /\ cand \in [Ids -> Row]
  BY DEF TypeOK
<1>p. op[s].doc \in Docs \cup {NoDoc}
  BY <1>t, <1>a DEF Op
<1>1. ASSUME NEW d \in Docs, ScanReadsExclusions(s, d)
      PROVE  TypeOK'
  BY <1>a, <1>1, BeginDocType DEF ScanReadsExclusions
<1>2. ASSUME NEW i \in Ids, CloseStale(s, i)
      PROVE  TypeOK'
  <2>1. cand' \in [Ids -> Row]
    BY <1>t, <1>2, SetState DEF CloseStale
  <2> QED
    BY <1>2, <2>1 DEF CloseStale, TypeOK
<1>3. CASE ScanReadsOpenRows(s)
  BY <1>a, <1>t, <1>3, FinishType, GotoType, OpOnlyType DEF ScanReadsOpenRows
<1>4. CASE ScanInserts(s)
  <2>1. op' \in [Actors -> Op]
    BY <1>a, <1>t, <1>4, FinishType DEF ScanInserts
  <2>2. cand' \in [Ids -> Row]
    BY <1>t, <1>p, <1>4, OpenedIsRow DEF ScanInserts
  <2> QED
    BY <1>4, <2>1, <2>2, CandType DEF ScanInserts
<1> QED
  BY <1>1, <1>2, <1>3, <1>4 DEF ScannerPicks, ScannerSteps

LEMMA WorldType ==
  ASSUME TypeOK, World
  PROVE  TypeOK'
<1>1. ASSUME NEW d \in Docs, Crawl(d)
      PROVE  TypeOK'
  BY <1>1 DEF Crawl, TypeOK, Flags
<1>2. ASSUME NEW d \in Docs, RemoveDocument(d)
      PROVE  TypeOK'
  BY <1>2 DEF RemoveDocument, TypeOK, Flags
<1>3. ASSUME NEW d \in Docs, RestoreFromTrash(d)
      PROVE  TypeOK'
  BY <1>3 DEF RestoreFromTrash, TypeOK, Flags
<1>4. ASSUME NEW d \in Docs, PurgeTrash(d)
      PROVE  TypeOK'
  BY <1>4 DEF PurgeTrash, TypeOK, Flags
<1>5. ASSUME NEW d \in Docs, DeleteExclusion(d)
      PROVE  TypeOK'
  BY <1>5 DEF DeleteExclusion, TypeOK
<1>6. ASSUME NEW d \in Docs, NEW flag \in Flags, PatchHidden(d, flag)
      PROVE  TypeOK'
  BY <1>6 DEF PatchHidden, TypeOK
<1>7. ASSUME NEW i \in Ids, GraceElapses(i)
      PROVE  TypeOK'
  <2>1. \A row \in Row : [row EXCEPT !.due = TRUE] \in Row
    BY DEF Row
  <2>2. cand' \in [Ids -> Row]
    BY <1>7, <2>1 DEF GraceElapses, TypeOK
  <2> QED
    BY <1>7, <2>2 DEF GraceElapses, TypeOK
<1>8. ASSUME NEW i \in Ids, ClaimAges(i)
      PROVE  TypeOK'
  <2>1. \A row \in Row : [row EXCEPT !.old = TRUE] \in Row
    BY DEF Row
  <2>2. cand' \in [Ids -> Row]
    BY <1>8, <2>1 DEF ClaimAges, TypeOK
  <2> QED
    BY <1>8, <2>2 DEF ClaimAges, TypeOK
<1> QED
  BY <1>1, <1>2, <1>3, <1>4, <1>5, <1>6, <1>7, <1>8 DEF World

LEMMA AbortType ==
  ASSUME TypeOK, NEW a \in Actors, Abort(a)
  PROVE  TypeOK'
<1>1. op' \in [Actors -> Op]
  BY FinishType DEF Abort, TypeOK
<1>2. faults' \in Nat
  BY FaultType DEF Abort, TypeOK
<1> QED
  BY <1>1, <1>2 DEF Abort, TypeOK

(***************************************************************************)
(* Rows, documents, exclusions, snapshots and the handlers' local values   *)
(* keep their types, for any number of documents, operators, reapers and   *)
(* scanners (db/prune.rs, services/prune.rs, services/prune_reaper.rs).    *)
(***************************************************************************)
THEOREM TypeCorrect == Spec => []TypeOK
<1>1. TypeOK /\ [Next]_vars => TypeOK'
  <2> SUFFICES ASSUME TypeOK, [Next]_vars
               PROVE  TypeOK'
    OBVIOUS
  <2>1. ASSUME NEW o \in Operators, Requests(o) \/ OperatorSteps(o)
        PROVE  TypeOK'
    BY <2>1, RequestsType, OperatorStepsType
  <2>2. ASSUME NEW r \in Reapers, ReaperPicks(r) \/ ReaperSteps(r)
        PROVE  TypeOK'
    BY <2>2, ReaperPicksType, ReaperStepsType
  <2>3. ASSUME NEW s \in Scanners, ScannerPicks(s) \/ ScannerSteps(s)
        PROVE  TypeOK'
    BY <2>3, ScannerType
  <2>4. ASSUME NEW a \in Actors, Abort(a)
        PROVE  TypeOK'
    BY <2>4, AbortType
  <2>5. CASE World
    BY <2>5, WorldType
  <2>6. CASE UNCHANGED vars
    BY <2>6 DEF vars, TypeOK
  <2> QED
    BY <2>1, <2>2, <2>3, <2>4, <2>5, <2>6 DEF Next
<1> QED
  BY TypeInit, <1>1, PTL DEF Spec

-----------------------------------------------------------------------------
(***************************************************************************)
(* With one reaper a claim is exclusive.  ClaimHeld alone is not           *)
(* inductive: a claim starts from a row as it was listed, so what was      *)
(* listed must still be a row of the same document (Listed), and recovery  *)
(* takes up claims it did not make, so every claim must be of a due row    *)
(* (DeletingIsDue).                                                        *)
(***************************************************************************)
OneReaper == \A r1, r2 \in Reapers : r1 = r2

Listed ==
  \A r \in Reapers : op[r].pc = "rp_claim" =>
    /\ op[r].id \in Ids
    /\ cand[op[r].id].doc = op[r].doc
    /\ cand[op[r].id].state # "none"

DeletingIsDue == \A i \in Ids : cand[i].state = "deleting" => cand[i].due

ClaimInv == Listed /\ DeletingIsDue /\ ClaimHeld

(***************************************************************************)
(* Most steps leave claimed rows alone and give no reaper a claim.         *)
(***************************************************************************)
KeepsRows ==
  \A i \in Ids :
    /\ cand[i].state # "none" =>
         cand'[i].state # "none" /\ cand'[i].doc = cand[i].doc
    /\ cand[i].state = "deleting" => cand'[i].state = "deleting"
    /\ cand'[i].state = "deleting" => cand[i].state = "deleting"
    /\ cand[i].state = "deleting" /\ cand[i].due => cand'[i].due

ClaimsNothing(r) ==
  /\ op'[r].pc = "rp_claim" =>
       op[r].pc = "rp_claim" /\ op'[r].id = op[r].id /\ op'[r].doc = op[r].doc
  /\ HoldsClaim(r)' =>
       HoldsClaim(r) /\ op'[r].id = op[r].id /\ op'[r].doc = op[r].doc

LEMMA QuietStep ==
  ASSUME ClaimInv, KeepsRows, \A r \in Reapers : ClaimsNothing(r)
  PROVE  ClaimInv'
<1>1. Listed'
  BY DEF ClaimInv, Listed, KeepsRows, ClaimsNothing
<1>2. DeletingIsDue'
  BY DEF ClaimInv, DeletingIsDue, KeepsRows
<1>3. ClaimHeld'
  BY DEF ClaimInv, ClaimHeld, KeepsRows, ClaimsNothing
<1> QED
  BY <1>1, <1>2, <1>3 DEF ClaimInv

LEMMA SameCand == ASSUME UNCHANGED cand PROVE KeepsRows
BY DEF KeepsRows

(* A row may change its state as long as it is not claimed and not created. *)
LEMMA StateKeepsRows ==
  ASSUME TypeOK, NEW i, NEW s \in RowStates \ {"none", "deleting"},
         i \in Ids => cand[i].state # "deleting",
         cand' = [cand EXCEPT ![i].state = s]
  PROVE  KeepsRows
<1>1. cand \in [Ids -> Row]
  BY DEF TypeOK
<1>2. s \in RowStates
  OBVIOUS
<1> QED
  BY <1>1, <1>2, SetState DEF KeepsRows

LEMMA OpenedKeepsRows ==
  ASSUME TypeOK, NEW i \in Ids, NEW d \in Docs \cup {NoDoc}, FreeId(i),
         cand' = [cand EXCEPT ![i] = Opened(d)]
  PROVE  KeepsRows
<1>1. cand \in [Ids -> Row]
  BY DEF TypeOK
<1>2. Opened(d).state = "candidate"
  BY OpenedIsRow
<1> QED
  BY <1>1, <1>2 DEF KeepsRows, FreeId

LEMMA OthersClaimNothing ==
  ASSUME TypeOK, NEW a \in Actors, \A b \in Actors \ {a} : op'[b] = op[b],
         a \in Reapers => ClaimsNothing(a)
  PROVE  \A r \in Reapers : ClaimsNothing(r)
BY DEF ClaimsNothing, HoldsClaim, Actors

LEMMA FinishClaimsNothing ==
  ASSUME TypeOK, NEW a \in Actors, Finish(a)
  PROVE  \A r \in Reapers : ClaimsNothing(r)
<1>1. op \in [Actors -> Op]
  BY DEF TypeOK
<1>2. op'[a].pc = "idle" /\ \A b \in Actors \ {a} : op'[b] = op[b]
  BY <1>1, FinishType DEF Idle
<1>3. ClaimsNothing(a)
  BY <1>2 DEF ClaimsNothing, HoldsClaim
<1> QED
  BY <1>2, <1>3, OthersClaimNothing

LEMMA GotoClaimsNothing ==
  ASSUME TypeOK, NEW a \in Actors, NEW pc \in PCs, Goto(a, pc),
         pc \in {"rp_capture", "rp_commit", "rp_unclaim", "rp_mark", "rc_exists", "rc_mark"}
           => HoldsClaim(a),
         pc # "rp_claim"
  PROVE  \A r \in Reapers : ClaimsNothing(r)
<1>1. op \in [Actors -> Op]
  BY DEF TypeOK
<1>2. /\ op'[a].pc = pc /\ op'[a].id = op[a].id /\ op'[a].doc = op[a].doc
      /\ \A b \in Actors \ {a} : op'[b] = op[b]
  BY <1>1, GotoType
<1>3. ClaimsNothing(a)
  BY <1>2 DEF ClaimsNothing, HoldsClaim
<1> QED
  BY <1>2, <1>3, OthersClaimNothing

LEMMA StageStepsClaim ==
  ASSUME TypeOK, ClaimInv, NEW a \in Actors, StageSteps(a)
  PROVE  ClaimInv'
<1> USE DEF PCs, StagePCs
<1>t. op \in [Actors -> Op] /\ cand \in [Ids -> Row]
  BY DEF TypeOK
<1>1. \A r \in Reapers : ClaimsNothing(r)
  <2>1. CASE ReadHidden(a)
    <3>1. CASE Finish(a)
      BY <3>1, FinishClaimsNothing
    <3>2. CASE op' = [op EXCEPT ![a].pc = "st_hide",
                                ![a].prev = (doc[op[a].doc] = "hidden")]
      <4> DEFINE new == [op[a] EXCEPT !.pc = "st_hide", !.prev = (doc[op[a].doc] = "hidden")]
      <4>1. new.pc = "st_hide"
        BY <1>t DEF Op
      <4>2. op' = [op EXCEPT ![a] = new]
        BY <3>2
      <4> HIDE DEF new
      <4>3. op'[a].pc = "st_hide" /\ \A b \in Actors \ {a} : op'[b] = op[b]
        BY <1>t, <4>1, <4>2
      <4>4. ClaimsNothing(a)
        BY <4>3 DEF ClaimsNothing, HoldsClaim
      <4> QED
        BY <4>3, <4>4, OthersClaimNothing
    <3> QED
      BY <2>1, <3>1, <3>2 DEF ReadHidden
  <2>2. CASE ~ReadHidden(a)
    BY <2>2, FinishClaimsNothing, GotoClaimsNothing
       DEF StageSteps, Hide, MarkStaged, CheckLostRace, UnhideLostRace, SetRemember
  <2> QED
    BY <2>1, <2>2
<1>2. KeepsRows
  <2>1. CASE UNCHANGED cand
    BY <2>1, SameCand
  <2>2. CASE MarkStaged(a) /\ cand' # cand
    <3>1. op[a].prev \in BOOLEAN
      BY <1>t DEF Op
    <3>2. \A row \in Row : /\ StagedRow(row, op[a].prev).state = "staged"
                           /\ StagedRow(row, op[a].prev).doc = row.doc
      BY <3>1, StagedRowIsRow
    <3> QED
      BY <1>t, <2>2, <3>2 DEF MarkStaged, KeepsRows
  <2>3. CASE SetRemember(a) /\ cand' # cand
    <3> DEFINE i == op[a].id
               row == [cand[i] EXCEPT !.remember = (op[a].arg = "yes")]
    <3>1. cand' = [cand EXCEPT ![i] = row] /\ cand[i].state = "staged"
      BY <2>3 DEF SetRemember
    <3>2. i \in Ids => row.state = cand[i].state /\ row.doc = cand[i].doc
      BY <1>t DEF Row
    <3> HIDE DEF row, i
    <3> QED
      BY <1>t, <3>1, <3>2 DEF KeepsRows
  <2> QED
    BY <2>1, <2>2, <2>3
       DEF StageSteps, ReadHidden, Hide, CheckLostRace, UnhideLostRace, OnlyOp, OnlyOpDoc
<1> QED
  BY <1>1, <1>2, QuietStep

LEMMA OperatorClaim ==
  ASSUME TypeOK, ClaimInv, NEW o \in Operators, Requests(o) \/ OperatorSteps(o)
  PROVE  ClaimInv'
<1> USE DEF PCs, RestorePCs, DismissPCs, RowStates, OpenStates
<1>a. o \in Actors /\ o \notin Reapers
  BY ConstantsOK DEF Actors
<1>t. op \in [Actors -> Op] /\ cand \in [Ids -> Row]
  BY DEF TypeOK
<1>1. CASE Requests(o)
  <2>1. UNCHANGED cand /\ \A r \in Reapers : op'[r] = op[r]
    BY <1>a, <1>t, <1>1 DEF Requests, Stage, ScheduleDelete, Restore, Dismiss, Begin, Actors
  <2> QED
    BY <2>1, SameCand, QuietStep DEF ClaimsNothing, HoldsClaim
<1>2. CASE StageSteps(o)
  BY <1>a, <1>2, StageStepsClaim
<1>3. CASE OperatorSteps(o) /\ ~StageSteps(o)
  <2>1. \A r \in Reapers : ClaimsNothing(r)
    BY <1>a, <1>3, FinishClaimsNothing, GotoClaimsNothing
       DEF OperatorSteps, MarkRestored, ShowAgain, Reopen, MarkDismissed,
           ExcludeForever, ExpediteStaged
  <2>2. CASE UNCHANGED cand
    BY <2>1, <2>2, SameCand, QuietStep
  <2>3. CASE MarkRestored(o) /\ cand' # cand
    BY <2>1, <2>3, StateKeepsRows, QuietStep DEF MarkRestored
  <2>4. CASE Reopen(o) /\ cand' # cand
    BY <2>1, <2>4, StateKeepsRows, QuietStep DEF Reopen
  <2>5. CASE MarkDismissed(o) /\ cand' # cand
    BY <2>1, <2>5, StateKeepsRows, QuietStep DEF MarkDismissed
  <2>6. CASE ExpediteStaged(o) /\ cand' # cand
    <3> DEFINE i == op[o].id
               row == [cand[i] EXCEPT !.due = TRUE, !.remember = (op[o].arg = "yes")]
    <3>1. cand' = [cand EXCEPT ![i] = row] /\ cand[i].state = "staged"
      BY <1>t, <2>6 DEF ExpediteStaged
    <3>2. i \in Ids => row.state = cand[i].state /\ row.doc = cand[i].doc
      BY <1>t DEF Row
    <3> HIDE DEF row, i
    <3>3. KeepsRows
      BY <1>t, <3>1, <3>2 DEF KeepsRows
    <3> QED
      BY <2>1, <3>3, QuietStep
  <2> QED
    BY <1>3, <2>2, <2>3, <2>4, <2>5, <2>6
       DEF OperatorSteps, ShowAgain, ExcludeForever, OnlyOpDoc
<1> QED
  BY <1>1, <1>2, <1>3

LEMMA ScannerClaim ==
  ASSUME TypeOK, ClaimInv, NEW s \in Scanners, ScannerPicks(s) \/ ScannerSteps(s)
  PROVE  ClaimInv'
<1> USE DEF PCs, ScanPCs, RowStates, OpenStates
<1>a. s \in Actors /\ s \notin Reapers
  BY ConstantsOK DEF Actors
<1>t. op \in [Actors -> Op] /\ op[s].doc \in Docs \cup {NoDoc}
  BY <1>a DEF TypeOK, Op
<1>1. \A r \in Reapers : op'[r] = op[r]
  BY <1>a, <1>t, FinishType, GotoType
     DEF ScannerPicks, ScannerSteps, ScanReadsExclusions, BeginDoc, CloseStale,
         ScanReadsOpenRows, ScanInserts, Actors
<1>2. \A r \in Reapers : ClaimsNothing(r)
  BY <1>1 DEF ClaimsNothing, HoldsClaim
<1>3. CASE UNCHANGED cand
  BY <1>2, <1>3, SameCand, QuietStep
<1>4. ASSUME NEW i \in Ids, CloseStale(s, i)
      PROVE  ClaimInv'
  BY <1>2, <1>4, StateKeepsRows, QuietStep DEF CloseStale
<1>5. CASE ScanInserts(s) /\ cand' # cand
  BY <1>t, <1>2, <1>5, OpenedKeepsRows, QuietStep DEF ScanInserts
<1> QED
  BY <1>3, <1>4, <1>5
     DEF ScannerPicks, ScannerSteps, ScanReadsExclusions, BeginDoc, ScanReadsOpenRows, OnlyOp

LEMMA WorldClaim ==
  ASSUME TypeOK, ClaimInv, World
  PROVE  ClaimInv'
<1>t. cand \in [Ids -> Row]
  BY DEF TypeOK
<1>1. UNCHANGED op
  BY DEF World, Crawl, RemoveDocument, RestoreFromTrash, PurgeTrash, DeleteExclusion,
         PatchHidden, GraceElapses, ClaimAges
<1>2. \A r \in Reapers : ClaimsNothing(r)
  BY <1>1 DEF ClaimsNothing, HoldsClaim
<1>3. CASE UNCHANGED cand
  BY <1>2, <1>3, SameCand, QuietStep
<1>4. ASSUME NEW i \in Ids, GraceElapses(i)
      PROVE  ClaimInv'
  <2>1. \A row \in Row : LET new == [row EXCEPT !.due = TRUE]
                         IN  new.state = row.state /\ new.doc = row.doc /\ new.due
    BY DEF Row
  <2>2. KeepsRows
    BY <1>t, <1>4, <2>1 DEF GraceElapses, KeepsRows
  <2> QED
    BY <1>2, <2>2, QuietStep
<1>5. ASSUME NEW i \in Ids, ClaimAges(i)
      PROVE  ClaimInv'
  <2>1. \A row \in Row : LET new == [row EXCEPT !.old = TRUE]
                         IN  new.state = row.state /\ new.doc = row.doc /\ new.due = row.due
    BY DEF Row
  <2>2. KeepsRows
    BY <1>t, <1>5, <2>1 DEF ClaimAges, KeepsRows
  <2> QED
    BY <1>2, <2>2, QuietStep
<1> QED
  BY <1>3, <1>4, <1>5
     DEF World, Crawl, RemoveDocument, RestoreFromTrash, PurgeTrash, DeleteExclusion, PatchHidden

LEMMA ReaperPicksClaim ==
  ASSUME OneReaper, TypeOK, ClaimInv, NEW r \in Reapers, ReaperPicks(r)
  PROVE  ClaimInv'
<1>a. r \in Actors
  BY DEF Actors
<1>t. op \in [Actors -> Op] /\ cand \in [Ids -> Row]
  BY DEF TypeOK
<1>1. ASSUME NEW i \in Ids, ListDue(r, i) \/ ListStuck(r, i)
      PROVE  ClaimInv'
  <2>1. /\ op'[r].pc \in {"rp_claim", "rc_exists"}
        /\ op'[r].id = i /\ op'[r].doc = cand[i].doc
        /\ UNCHANGED cand
    BY <1>a, <1>t, <1>1 DEF ListDue, ListStuck, Begin
  <2>2. /\ op'[r].pc = "rp_claim" => cand[i].state = "staged"
        /\ op'[r].pc = "rc_exists" => cand[i].state = "deleting"
    BY <1>a, <1>t, <1>1 DEF ListDue, ListStuck, Begin
  <2> QED
    BY <2>1, <2>2 DEF OneReaper, ClaimInv, Listed, DeletingIsDue, ClaimHeld, HoldsClaim
<1>2. ASSUME NEW d \in Docs, FindRecrawled(r, d)
      PROVE  ClaimInv'
  <2>1. op'[r].pc = "rr_insert" /\ UNCHANGED cand
    BY <1>a, <1>t, <1>2 DEF FindRecrawled, BeginDoc
  <2>2. \A q \in Reapers : ClaimsNothing(q)
    BY <2>1 DEF OneReaper, ClaimsNothing, HoldsClaim
  <2> QED
    BY <2>1, <2>2, SameCand, QuietStep
<1> QED
  BY <1>1, <1>2 DEF ReaperPicks

LEMMA ReaperStepsClaim ==
  ASSUME OneReaper, TypeOK, ClaimInv, NEW r \in Reapers, ReaperSteps(r)
  PROVE  ClaimInv'
<1> USE DEF PCs, StagePCs, ReapPCs, RecoverPCs, RowStates, OpenStates
<1>a. r \in Actors
  BY DEF Actors
<1>t. op \in [Actors -> Op] /\ cand \in [Ids -> Row] /\ op[r].doc \in Docs \cup {NoDoc}
  BY <1>a DEF TypeOK, Op
<1>1. CASE StageSteps(r)
  BY <1>a, <1>1, StageStepsClaim
<1>2. CASE ClaimForDeletion(r)
  <2>1. CASE Finish(r) /\ UNCHANGED cand
    BY <1>a, <2>1, FinishClaimsNothing, SameCand, QuietStep
  <2>2. CASE ~(Finish(r) /\ UNCHANGED cand)
    <3> DEFINE i == op[r].id
               row == [cand[i] EXCEPT !.state = "deleting", !.old = FALSE]
    <3>1. /\ i \in Ids /\ cand[i].doc = op[r].doc
          /\ cand[i].state = "staged" /\ cand[i].due
          /\ cand' = [cand EXCEPT ![i] = row]
          /\ Goto(r, "rp_capture")
      BY <1>2, <1>t, <2>2 DEF ClaimForDeletion, ClaimInv, Listed
    <3>2. row.state = "deleting" /\ row.doc = cand[i].doc /\ row.due = cand[i].due
      BY <1>t, <3>1 DEF Row
    <3> HIDE DEF row
    <3>3. cand'[i] = row /\ \A j \in Ids \ {i} : cand'[j] = cand[j]
      BY <1>t, <3>1
    <3>4. op'[r].pc = "rp_capture" /\ op'[r].id = i /\ op'[r].doc = op[r].doc
      BY <1>a, <1>t, <3>1, GotoType
    <3> HIDE DEF i
    <3>5. Listed' /\ ClaimHeld'
      BY <3>1, <3>2, <3>3, <3>4 DEF OneReaper, Listed, ClaimHeld, HoldsClaim
    <3>6. DeletingIsDue'
      BY <3>1, <3>2, <3>3 DEF ClaimInv, DeletingIsDue
    <3> QED
      BY <3>5, <3>6 DEF ClaimInv
  <2> QED
    BY <2>1, <2>2
<1>3. CASE Capture(r)
  <2>1. HoldsClaim(r) /\ UNCHANGED cand
    BY <1>3 DEF Capture, HoldsClaim
  <2>2. \A q \in Reapers : ClaimsNothing(q)
    BY <1>a, <1>3, <2>1, GotoClaimsNothing DEF Capture
  <2> QED
    BY <2>1, <2>2, SameCand, QuietStep
<1>4. CASE TrashAndDelete(r)
  <2>1. HoldsClaim(r) /\ UNCHANGED cand
    BY <1>4 DEF TrashAndDelete, HoldsClaim
  <2>2. \A q \in Reapers : ClaimsNothing(q)
    BY <1>a, <1>4, <2>1, GotoClaimsNothing DEF TrashAndDelete
  <2> QED
    BY <2>1, <2>2, SameCand, QuietStep
<1>5. CASE UnclaimDeletion(r) \/ MarkDeleted(r)
  <2>1. /\ op'[r].pc \in {"idle", "rp_excl"}
    BY <1>a, <1>t, <1>5, FinishType, GotoType DEF UnclaimDeletion, MarkDeleted, Idle
  <2>2. CASE UNCHANGED cand
    <3>1. \A q \in Reapers : ClaimsNothing(q)
      BY <2>1 DEF OneReaper, ClaimsNothing, HoldsClaim
    <3> QED
      BY <2>2, <3>1, SameCand, QuietStep
  <2>3. ASSUME NEW s \in {"staged", "deleted"},
               cand' = [cand EXCEPT ![op[r].id].state = s]
        PROVE  ClaimInv'
    <3>1. Listed' /\ ClaimHeld'
      BY <2>1 DEF OneReaper, Listed, ClaimHeld, HoldsClaim
    <3>2. \A i \in Ids : cand'[i].state = "deleting" => cand'[i] = cand[i]
      BY <1>t, <2>3, SetState
    <3>3. DeletingIsDue'
      BY <3>2 DEF ClaimInv, DeletingIsDue
    <3> QED
      BY <3>1, <3>3 DEF ClaimInv
  <2> QED
    BY <1>5, <2>2, <2>3 DEF UnclaimDeletion, MarkDeleted
<1>6. CASE RememberExclusion(r)
  BY <1>a, <1>6, FinishClaimsNothing, SameCand, QuietStep DEF RememberExclusion
<1>7. CASE CheckExists(r)
  <2>1. HoldsClaim(r) /\ UNCHANGED cand
    BY <1>7 DEF CheckExists, HoldsClaim, OnlyOp
  <2>2. \A q \in Reapers : ClaimsNothing(q)
    BY <1>a, <1>7, <2>1, GotoClaimsNothing DEF CheckExists
  <2> QED
    BY <2>1, <2>2, SameCand, QuietStep
<1>8. CASE InsertRestage(r)
  <2>1. CASE UNCHANGED cand /\ Finish(r)
    BY <1>a, <2>1, FinishClaimsNothing, SameCand, QuietStep
  <2>2. ASSUME NEW i \in Ids, FreeId(i), cand' = [cand EXCEPT ![i] = Opened(op[r].doc)],
               op' = [op EXCEPT ![r].pc = "st_read", ![r].id = i]
        PROVE  ClaimInv'
    <3>1. \A p \in Op : [p EXCEPT !.pc = "st_read", !.id = i].pc = "st_read"
      BY DEF Op
    <3>2. op' = [op EXCEPT ![r] = [op[r] EXCEPT !.pc = "st_read", !.id = i]]
      BY <2>2, <1>a, <1>t
    <3>3. op'[r].pc = "st_read"
      BY <1>a, <1>t, <3>1, <3>2
    <3>4. \A q \in Reapers : ClaimsNothing(q)
      BY <3>3 DEF OneReaper, ClaimsNothing, HoldsClaim
    <3> QED
      BY <1>t, <2>2, <3>4, OpenedKeepsRows, QuietStep
  <2> QED
    BY <1>8, <2>1, <2>2 DEF InsertRestage
<1> QED
  BY <1>1, <1>2, <1>3, <1>4, <1>5, <1>6, <1>7, <1>8 DEF ReaperSteps

LEMMA ClaimStep ==
  ASSUME OneReaper, TypeOK, ClaimInv, [Next]_vars
  PROVE  ClaimInv'
<1>1. ASSUME NEW o \in Operators, Requests(o) \/ OperatorSteps(o)
      PROVE  ClaimInv'
  BY <1>1, OperatorClaim
<1>2. ASSUME NEW r \in Reapers, ReaperPicks(r) \/ ReaperSteps(r)
      PROVE  ClaimInv'
  BY <1>2, ReaperPicksClaim, ReaperStepsClaim
<1>3. ASSUME NEW s \in Scanners, ScannerPicks(s) \/ ScannerSteps(s)
      PROVE  ClaimInv'
  BY <1>3, ScannerClaim
<1>4. ASSUME NEW a \in Actors, Abort(a)
      PROVE  ClaimInv'
  BY <1>4, FinishClaimsNothing, SameCand, QuietStep DEF Abort
<1>5. CASE World
  BY <1>5, WorldClaim
<1>6. CASE UNCHANGED vars
  <2>1. UNCHANGED cand /\ \A r \in Reapers : ClaimsNothing(r)
    BY <1>6 DEF vars, ClaimsNothing, HoldsClaim
  <2> QED
    BY <2>1, SameCand, QuietStep
<1> QED
  BY <1>1, <1>2, <1>3, <1>4, <1>5, <1>6 DEF Next

LEMMA ClaimInit == ASSUME Init PROVE ClaimInv
BY DEF Init, Idle, NoRow, ClaimInv, Listed, DeletingIsDue, ClaimHeld, HoldsClaim, Actors

LEMMA ClaimInvariant ==
  ASSUME OneReaper
  PROVE  Spec => [](TypeOK /\ ClaimInv)
<1>1. Init => ClaimInv
  BY ClaimInit
<1>2. TypeOK /\ ClaimInv /\ [Next]_vars => ClaimInv'
  BY ClaimStep
<1> QED
  BY TypeCorrect, <1>1, <1>2, PTL DEF Spec

(***************************************************************************)
(* As long as one backend instance runs its reaper, whatever operators,    *)
(* scanners, crawler, crashes and failed calls do: a deletion in progress  *)
(* is a deletion of a claimed, due row of the same document.               *)
(***************************************************************************)
THEOREM ClaimIsExclusive ==
  ASSUME OneReaper
  PROVE  Spec => []ClaimHeld
<1>1. ClaimInv => ClaimHeld
  BY DEF ClaimInv
<1> QED
  BY ClaimInvariant, <1>1, PTL

(* The only step that takes a document away as `reaped' is a reaper's. *)
LEMMA OnlyTrashAndDeleteReaps ==
  ASSUME TypeOK, [Next]_vars, NEW d \in Docs,
         last'[d] = "reaped", doc[d] # "absent", doc'[d] = "absent"
  PROVE  \E r \in Reapers : TrashAndDelete(r) /\ op[r].doc = d
<1>t. doc \in [Docs -> Flags \cup {"absent"}]
  BY DEF TypeOK
<1>d. doc' # doc
  OBVIOUS
<1>1. ASSUME NEW a \in Actors, StageSteps(a)
      PROVE  FALSE
  BY <1>t, <1>1 DEF StageSteps, ReadHidden, Hide, MarkStaged, CheckLostRace, UnhideLostRace,
                    SetRemember, OnlyOp, OnlyOpCand
<1>2. ASSUME NEW o \in Operators, Requests(o) \/ OperatorSteps(o)
      PROVE  FALSE
  <2>1. CASE Requests(o)
    BY <1>d, <2>1 DEF Requests, Stage, ScheduleDelete, Restore, Dismiss, Begin
  <2>2. CASE OperatorSteps(o) /\ ~StageSteps(o)
    <3>1. Flag(op[o].prev) # "absent"
      BY DEF Flag
    <3> QED
      BY <1>t, <2>2, <3>1
         DEF OperatorSteps, MarkRestored, ShowAgain, Reopen, MarkDismissed, ExcludeForever,
             ExpediteStaged, OnlyOpCand
  <2>3. CASE StageSteps(o)
    BY <1>1, <2>3 DEF Actors
  <2> QED
    BY <1>2, <2>1, <2>2, <2>3
<1>3. ASSUME NEW r \in Reapers, ReaperPicks(r) \/ ReaperSteps(r)
      PROVE  TrashAndDelete(r) /\ op[r].doc = d
  <2>1. CASE ReaperPicks(r)
    BY <1>d, <2>1 DEF ReaperPicks, ListDue, ListStuck, FindRecrawled, Begin, BeginDoc
  <2>2. CASE StageSteps(r)
    BY <1>1, <2>2 DEF Actors
  <2>3. CASE TrashAndDelete(r)
    BY <1>t, <2>3 DEF TrashAndDelete
  <2>4. CASE ReaperSteps(r) /\ ~StageSteps(r) /\ ~TrashAndDelete(r)
    BY <1>d, <2>4
       DEF ReaperSteps, ClaimForDeletion, Capture, UnclaimDeletion, MarkDeleted,
           RememberExclusion, CheckExists, InsertRestage, OnlyOp, OnlyOpCand
  <2> QED
    BY <1>3, <2>1, <2>2, <2>3, <2>4
<1>4. ASSUME NEW s \in Scanners, ScannerPicks(s) \/ ScannerSteps(s)
      PROVE  FALSE
  BY <1>d, <1>4 DEF ScannerPicks, ScannerSteps, ScanReadsExclusions, BeginDoc, CloseStale,
                    ScanReadsOpenRows, ScanInserts, OnlyOp, OnlyOpCand
<1>5. ASSUME NEW a \in Actors, Abort(a)
      PROVE  FALSE
  BY <1>d, <1>5 DEF Abort
<1>6. CASE World
  BY <1>t, <1>6 DEF World, Crawl, RemoveDocument, RestoreFromTrash, PurgeTrash,
     DeleteExclusion, PatchHidden, GraceElapses, ClaimAges, TypeOK, Flags
<1>7. CASE UNCHANGED vars
  BY <1>d, <1>7 DEF vars
<1> QED
  BY <1>2, <1>3, <1>4, <1>5, <1>6, <1>7 DEF Next

(***************************************************************************)
(* As long as one backend instance runs its reaper, no document is reaped  *)
(* outside the waiting room or before its grace has run out.               *)
(***************************************************************************)
THEOREM NothingReapedEarly ==
  ASSUME OneReaper
  PROVE  Spec => ReapedOnlyWhenDue
<1> DEFINE Reaped(d) == last'[d] = "reaped" /\ doc[d] # "absent" /\ doc'[d] = "absent"
           Due(d) == \E i \in Ids :
                       cand[i].doc = d /\ cand[i].state = "deleting" /\ cand[i].due
<1>1. TypeOK /\ ClaimInv /\ [Next]_vars => [\A d \in Docs : Reaped(d) => Due(d)]_vars
  <2> SUFFICES ASSUME TypeOK, ClaimInv, [Next]_vars, NEW d \in Docs, Reaped(d)
               PROVE  Due(d)
    OBVIOUS
  <2>1. PICK r \in Reapers : TrashAndDelete(r) /\ op[r].doc = d
    BY OnlyTrashAndDeleteReaps
  <2>2. HoldsClaim(r)
    BY <2>1 DEF TrashAndDelete, HoldsClaim
  <2> QED
    BY <2>1, <2>2 DEF ClaimInv, ClaimHeld
<1>2. ReapedOnlyWhenDue <=> [][\A d \in Docs : Reaped(d) => Due(d)]_vars
  BY DEF ReapedOnlyWhenDue
<1> HIDE DEF Reaped, Due
<1> QED
  BY ClaimInvariant, <1>1, <1>2, PTL DEF Spec

-----------------------------------------------------------------------------
(***************************************************************************)
(* The lifecycle implements the waiting room.  A step either moves one row *)
(* and leaves the documents where they are, or moves one document and      *)
(* leaves the rows; the room sees the row or the document move.            *)
(***************************************************************************)
IsOpen(i) == cand[i].state \in OpenStates
Standing(i) == cand[i].state \in {"staged", "deleting"}

\* The unique index; and a document that is gone was reaped or removed.
OneOpenRow == \A i, j \in Ids : IsOpen(i) /\ IsOpen(j) /\ cand[i].doc = cand[j].doc => i = j
GoneSomehow == \A d \in Docs : ~Exists(d) => last[d] \in {"reaped", "removed"}

RowStep(i) ==
  /\ \A j \in Ids \ {i} : cand'[j] = cand[j]
  /\ \/ /\ ~IsOpen(i) /\ \A j \in Ids : IsOpen(j) => cand[j].doc # cand'[i].doc
        /\ cand'[i].doc = cand[i].doc \/ cand'[i].state = "candidate"
     \/ /\ cand'[i].doc = cand[i].doc /\ (IsOpen(i)' => IsOpen(i))
        /\ Standing(i) /\ Standing(i)' /\ cand[i].due => cand'[i].due

RowsStep ==
  /\ UNCHANGED <<last, trash>> /\ \A d \in Docs : Exists(d)' <=> Exists(d)
  /\ UNCHANGED cand \/ \E i \in Ids : RowStep(i)

DocStep(d) ==
  /\ UNCHANGED cand
  /\ \A e \in Docs \ {d} : doc'[e] = doc[e] /\ last'[e] = last[e] /\ trash'[e] = trash[e]
  /\ \/ Exists(d) /\ ~Exists(d)' /\ last'[d] = "removed" /\ trash'[d] = trash[d]
     \/ /\ Exists(d) /\ ~Exists(d)' /\ last'[d] = "reaped" /\ trash'[d] # "none"
        /\ \E i \in Awaits(d) : cand[i].due
     \/ /\ ~Exists(d) /\ Exists(d)'
        /\ trash'[d] = trash[d] \/ (trash[d] # "none" /\ trash'[d] = "none")
     \/ /\ (Exists(d)' <=> Exists(d)) /\ trash[d] # "none" /\ trash'[d] = "none"
        /\ last'[d] = IF Exists(d) THEN last[d] ELSE "removed"

Moves == RowsStep \/ \E d \in Docs : DocStep(d)

\* Setting the flag of a document that is there neither removes nor adds one.
LEMMA FlagOnly ==
  ASSUME TypeOK, NEW d, Exists(d), NEW f \in Flags, doc' = [doc EXCEPT ![d] = f]
  PROVE  \A e \in Docs : Exists(e)' <=> Exists(e)
BY DEF TypeOK, Exists, Flags

LEMMA RowOf ==
  ASSUME TypeOK, NEW i \in Ids
  PROVE  /\ cand[i] \in Row
         /\ \A s \in RowStates \ OpenStates : cand' = [cand EXCEPT ![i].state = s] => RowStep(i)
<1>1. cand \in [Ids -> Row] /\ cand[i] \in Row
  BY DEF TypeOK
<1>2. ASSUME NEW s \in RowStates \ OpenStates, cand' = [cand EXCEPT ![i].state = s]
      PROVE  RowStep(i)
  <2>1. /\ cand'[i].state = s /\ cand'[i].doc = cand[i].doc
        /\ \A j \in Ids \ {i} : cand'[j] = cand[j]
    BY <1>1, <1>2, SetState
  <2> QED BY <2>1 DEF RowStep, IsOpen, Standing, OpenStates
<1> QED BY <1>1, <1>2

\* The steps that end a row, or leave the rows alone.
LEMMA ClosedMoves ==
  ASSUME TypeOK, NEW i, UNCHANGED <<doc, last, trash>>,
         \/ UNCHANGED cand
         \/ \E s \in RowStates \ OpenStates : cand' = [cand EXCEPT ![i].state = s]
  PROVE  RowsStep
<1>1. CASE UNCHANGED cand
  BY <1>1 DEF RowsStep, Exists
<1>2. CASE i \in Ids /\ ~UNCHANGED cand
  BY <1>2, RowOf DEF RowsStep, Exists
<1>3. i \notin Ids => UNCHANGED cand
  BY DEF TypeOK
<1> QED BY <1>1, <1>2, <1>3

\* A row that is opened, or opened again, when its document has none.
LEMMA OpenedMoves ==
  ASSUME TypeOK, NEW i \in Ids, ~IsOpen(i), UNCHANGED <<doc, last, trash>>,
         \/ /\ ~OpenRow(cand[i].doc) /\ cand' = [cand EXCEPT ![i].state = "staged"]
         \/ \E d \in Docs \cup {NoDoc} : ~OpenRow(d) /\ cand' = [cand EXCEPT ![i] = Opened(d)]
  PROVE  RowsStep
<1>t. cand \in [Ids -> Row]
  BY DEF TypeOK
<1>1. ASSUME ~OpenRow(cand[i].doc), cand' = [cand EXCEPT ![i].state = "staged"]
      PROVE  RowStep(i)
  <2>1. cand'[i].doc = cand[i].doc /\ \A j \in Ids \ {i} : cand'[j] = cand[j]
    BY <1>t, <1>1, SetState DEF RowStates, OpenStates
  <2> QED BY <1>1, <2>1 DEF RowStep, OpenRow, IsOpen
<1>2. ASSUME NEW d \in Docs \cup {NoDoc}, ~OpenRow(d), cand' = [cand EXCEPT ![i] = Opened(d)]
      PROVE  RowStep(i)
  <2>1. /\ cand'[i].doc = d /\ cand'[i].state = "candidate"
        /\ \A j \in Ids \ {i} : cand'[j] = cand[j]
    BY <1>t, <1>2, OpenedIsRow
  <2> QED BY <1>2, <2>1 DEF RowStep, OpenRow, IsOpen
<1> QED BY <1>1, <1>2 DEF RowsStep, Exists

\* A row that stays open, and due when it was.
LEMMA KeptMoves ==
  ASSUME TypeOK, NEW i, NEW new, UNCHANGED <<doc, last, trash>>,
         i \in Ids => /\ new.doc = cand[i].doc /\ IsOpen(i)
                      /\ cand[i].due => new.due,
         cand' = [cand EXCEPT ![i] = new]
  PROVE  RowsStep
<1>t. cand \in [Ids -> Row]
  BY DEF TypeOK
<1>1. CASE i \in Ids
  <2>1. cand'[i] = new /\ \A j \in Ids \ {i} : cand'[j] = cand[j]
    BY <1>t, <1>1
  <2> QED BY <1>1, <2>1 DEF RowsStep, RowStep, Exists
<1>2. CASE i \notin Ids
  BY <1>t, <1>2 DEF RowsStep, Exists
<1> QED BY <1>1, <1>2

LEMMA StageMoves ==
  ASSUME TypeOK, NEW a \in Actors, StageSteps(a)
  PROVE  RowsStep
<1>t. op \in [Actors -> Op] /\ cand \in [Ids -> Row]
  BY DEF TypeOK
<1>1. CASE ReadHidden(a) \/ CheckLostRace(a)
  BY <1>1 DEF ReadHidden, CheckLostRace, OnlyOp, RowsStep, Exists
<1>2. CASE Hide(a) \/ UnhideLostRace(a)
  <2>1. UNCHANGED <<cand, last, trash>>
    BY <1>2 DEF Hide, UnhideLostRace, OnlyOpDoc
  <2>2. \/ UNCHANGED doc
        \/ Exists(op[a].doc) /\ \E f \in Flags : doc' = [doc EXCEPT ![op[a].doc] = f]
    BY <1>2 DEF Hide, UnhideLostRace, Flags
  <2>3. \A e \in Docs : Exists(e)' <=> Exists(e)
    BY <2>2, FlagOnly DEF Exists
  <2> QED BY <2>1, <2>3 DEF RowsStep
<1>3. CASE MarkStaged(a)
  <2> DEFINE i == op[a].id
  <2>1. UNCHANGED <<doc, last, trash>>
    BY <1>3 DEF MarkStaged, OnlyOpCand
  <2>2. CASE i \in Ids /\ cand' # cand
    <3>1. cand[i].state = "candidate" /\ cand' = [cand EXCEPT ![i] = StagedRow(@, op[a].prev)]
      BY <1>3, <2>2 DEF MarkStaged
    <3>2. StagedRow(cand[i], op[a].prev).state = "staged"
          /\ StagedRow(cand[i], op[a].prev).doc = cand[i].doc
      BY <1>t, <2>2, StagedRowIsRow DEF Op
    <3>3. RowStep(i)
      BY <1>t, <2>2, <3>1, <3>2 DEF RowStep, IsOpen, Standing, OpenStates
    <3> QED BY <2>1, <2>2, <3>3 DEF RowsStep, Exists
  <2>3. CASE i \notin Ids \/ cand' = cand
    <3>1. cand' = cand
      BY <1>t, <1>3, <2>3 DEF MarkStaged
    <3> QED BY <2>1, <3>1 DEF RowsStep, Exists
  <2> QED BY <2>2, <2>3
<1>4. CASE SetRemember(a)
  <2> DEFINE i == op[a].id
             new == [cand[i] EXCEPT !.remember = (op[a].arg = "yes")]
  <2>1. UNCHANGED <<doc, last, trash>>
    BY <1>4 DEF SetRemember, OnlyOpCand
  <2>2. UNCHANGED cand \/ (cand[i].state = "staged" /\ cand' = [cand EXCEPT ![i] = new])
    BY <1>4 DEF SetRemember
  <2>3. i \in Ids => new.doc = cand[i].doc /\ (cand[i].due => new.due)
    BY <1>t DEF Row
  <2> HIDE DEF new, i
  <2> QED BY <2>1, <2>2, <2>3, KeptMoves, ClosedMoves DEF IsOpen, OpenStates
<1> QED BY <1>1, <1>2, <1>3, <1>4 DEF StageSteps

LEMMA OperatorMoves ==
  ASSUME TypeOK, NEW o \in Operators, Requests(o) \/ OperatorSteps(o)
  PROVE  RowsStep
<1>a. o \in Actors /\ op[o] \in Op /\ cand \in [Ids -> Row]
  BY DEF Actors, TypeOK
<1>c. {"restored", "dismissed", "deleted"} \subseteq RowStates \ OpenStates
  BY DEF RowStates, OpenStates
<1>1. CASE Requests(o) \/ ExcludeForever(o)
  BY <1>1 DEF Requests, Stage, ScheduleDelete, Restore, Dismiss, Begin, ExcludeForever, RowsStep,
     Exists
<1>2. CASE StageSteps(o)
  BY <1>a, <1>2, StageMoves
<1>3. CASE MarkRestored(o) \/ MarkDismissed(o)
  BY <1>c, <1>3, ClosedMoves DEF MarkRestored, MarkDismissed, OnlyOpCand
<1>4. CASE ShowAgain(o)
  <2> DEFINE f == Flag(op[o].prev)
  <2>1. f \in Flags /\ UNCHANGED <<cand, last, trash>>
    BY <1>4 DEF Flag, Flags, ShowAgain, OnlyOpDoc
  <2>2. UNCHANGED doc \/ (Exists(op[o].doc) /\ doc' = [doc EXCEPT ![op[o].doc] = f])
    BY <1>4 DEF ShowAgain
  <2> HIDE DEF f
  <2>3. \A e \in Docs : Exists(e)' <=> Exists(e)
    BY <2>1, <2>2, FlagOnly DEF Exists
  <2> QED BY <2>1, <2>3 DEF RowsStep
<1>5. CASE Reopen(o)
  <2> DEFINE i == op[o].id
  <2>1. UNCHANGED <<doc, last, trash>>
    BY <1>5 DEF Reopen, OnlyOpCand
  <2>2. \/ UNCHANGED cand
        \/ /\ cand[i].state = "restored" /\ ~OpenRow(cand[i].doc)
           /\ cand' = [cand EXCEPT ![i].state = "staged"]
    BY <1>5 DEF Reopen
  <2>3. i \notin Ids => UNCHANGED cand
    BY <1>a, <2>2
  <2> HIDE DEF i
  <2> QED BY <2>1, <2>2, <2>3, ClosedMoves, OpenedMoves DEF IsOpen, OpenStates
<1>6. CASE ExpediteStaged(o)
  <2> DEFINE i == op[o].id
             new == [cand[i] EXCEPT !.due = TRUE, !.remember = (op[o].arg = "yes")]
  <2>1. UNCHANGED <<doc, last, trash>>
    BY <1>6 DEF ExpediteStaged, OnlyOpCand
  <2>2. UNCHANGED cand \/ (cand[i].state = "staged" /\ cand' = [cand EXCEPT ![i] = new])
    BY <1>6 DEF ExpediteStaged
  <2>3. i \in Ids => new.doc = cand[i].doc /\ new.due
    BY <1>a DEF Row
  <2> HIDE DEF new, i
  <2> QED BY <2>1, <2>2, <2>3, KeptMoves, ClosedMoves DEF IsOpen, OpenStates
<1> QED BY <1>1, <1>2, <1>3, <1>4, <1>5, <1>6 DEF OperatorSteps

LEMMA ScannerMoves ==
  ASSUME TypeOK, NEW s \in Scanners, ScannerPicks(s) \/ ScannerSteps(s)
  PROVE  RowsStep
<1>1. CASE UNCHANGED <<cand, doc, last, trash>>
  BY <1>1 DEF RowsStep, Exists
<1>2. CASE ScanInserts(s) /\ ~UNCHANGED cand
  <2>1. PICK i \in Ids : FreeId(i) /\ cand' = [cand EXCEPT ![i] = Opened(op[s].doc)]
    BY <1>2 DEF ScanInserts
  <2>2. UNCHANGED <<doc, last, trash>> /\ ~OpenRow(op[s].doc)
    BY <1>2 DEF ScanInserts, OnlyOpCand
  <2>3. op[s].doc \in Docs \cup {NoDoc}
    BY DEF TypeOK, Op, Actors
  <2> QED BY <2>1, <2>2, <2>3, OpenedMoves DEF FreeId, IsOpen, OpenStates
<1>3. ASSUME NEW i \in Ids, CloseStale(s, i) PROVE RowsStep
  <2>1. "dismissed" \in RowStates \ OpenStates
    BY DEF RowStates, OpenStates
  <2> QED BY <1>3, <2>1, ClosedMoves DEF CloseStale
<1> QED BY <1>1, <1>2, <1>3 DEF ScannerPicks, ScannerSteps, ScanReadsExclusions, BeginDoc,
      ScanReadsOpenRows, ScanInserts, OnlyOp, OnlyOpCand

LEMMA ReaperMoves ==
  ASSUME TypeOK, ClaimInv, NEW r \in Reapers, ReaperPicks(r) \/ ReaperSteps(r)
  PROVE  Moves
<1>a. r \in Actors /\ op[r] \in Op /\ cand \in [Ids -> Row]
  BY DEF Actors, TypeOK
<1>1. CASE UNCHANGED <<cand, doc, last, trash>>
  BY <1>1 DEF Moves, RowsStep, Exists
<1>2. CASE StageSteps(r)
  BY <1>a, <1>2, StageMoves DEF Moves
<1>3. CASE ClaimForDeletion(r) \/ UnclaimDeletion(r)
  <2> DEFINE i == op[r].id
             claimed == [cand[i] EXCEPT !.state = "deleting", !.old = FALSE]
             freed == [cand[i] EXCEPT !.state = "staged"]
  <2>1. UNCHANGED <<doc, last, trash>>
    BY <1>3 DEF ClaimForDeletion, UnclaimDeletion, OnlyOpCand
  <2>2. \/ UNCHANGED cand
        \/ /\ cand[i].state \in {"staged", "deleting"}
           /\ \E new \in {claimed, freed} : cand' = [cand EXCEPT ![i] = new]
    BY <1>3 DEF ClaimForDeletion, UnclaimDeletion
  <2>3. i \in Ids => \A new \in {claimed, freed} :
                       new.doc = cand[i].doc /\ (cand[i].due => new.due)
    BY <1>a DEF Row
  <2> HIDE DEF i, claimed, freed
  <2> QED BY <2>1, <2>2, <2>3, KeptMoves, ClosedMoves DEF Moves, IsOpen, OpenStates
<1>4. CASE MarkDeleted(r)
  <2>1. "deleted" \in RowStates \ OpenStates
    BY DEF RowStates, OpenStates
  <2> QED BY <1>4, <2>1, ClosedMoves DEF MarkDeleted, Moves
<1>5. CASE InsertRestage(r) /\ ~UNCHANGED cand
  <2>1. PICK i \in Ids : FreeId(i) /\ cand' = [cand EXCEPT ![i] = Opened(op[r].doc)]
    BY <1>5 DEF InsertRestage
  <2>2. UNCHANGED <<doc, last, trash>> /\ ~OpenRow(op[r].doc)
    BY <1>5 DEF InsertRestage, OnlyOpCand
  <2>3. op[r].doc \in Docs \cup {NoDoc}
    BY <1>a DEF Op
  <2> QED BY <2>1, <2>2, <2>3, OpenedMoves DEF FreeId, IsOpen, OpenStates, Moves
<1>6. CASE TrashAndDelete(r) /\ ~UNCHANGED <<cand, doc, last, trash>>
  <2>1. op[r].doc \in Docs
    BY <1>6 DEF TrashAndDelete, TypeOK
  <2>2. PICK d \in Docs : d = op[r].doc
    BY <2>1
  <2>3. /\ Exists(d) /\ UNCHANGED cand
        /\ trash' = [trash EXCEPT ![d] = Flag(op[r].prev)]
        /\ doc' = [doc EXCEPT ![d] = "absent"]
        /\ last' = [last EXCEPT ![d] = "reaped"]
    BY <1>6, <2>2 DEF TrashAndDelete
  <2>4. op[r].id \in Awaits(d) /\ cand[op[r].id].due
    BY <1>6, <2>2 DEF TrashAndDelete, HoldsClaim, ClaimInv, ClaimHeld, Awaits
  <2>5. Flag(op[r].prev) # "none"
    BY DEF Flag
  <2>6. /\ ~Exists(d)' /\ last'[d] = "reaped" /\ trash'[d] # "none"
        /\ \A e \in Docs \ {d} : doc'[e] = doc[e] /\ last'[e] = last[e] /\ trash'[e] = trash[e]
    BY <2>3, <2>5 DEF TypeOK, Exists
  <2> QED BY <2>3, <2>4, <2>6 DEF DocStep, Moves
<1> QED BY <1>1, <1>2, <1>3, <1>4, <1>5, <1>6
      DEF ReaperPicks, ListDue, ListStuck, FindRecrawled, Begin, BeginDoc, ReaperSteps, Capture,
          RememberExclusion, CheckExists, InsertRestage, OnlyOp, OnlyOpCand

LEMMA WorldMoves ==
  ASSUME TypeOK, World
  PROVE  Moves
<1>t. /\ cand \in [Ids -> Row] /\ doc \in [Docs -> Flags \cup {"absent"}]
      /\ trash \in [Docs -> Flags \cup {"none"}]
      /\ last \in [Docs -> {"crawled", "untrashed", "reaped", "removed"}]
  BY DEF TypeOK
<1>1. ASSUME NEW d \in Docs, Crawl(d) \/ RestoreFromTrash(d) PROVE DocStep(d)
  BY <1>t, <1>1 DEF Crawl, RestoreFromTrash, DocStep, Exists, Flags
<1>2. ASSUME NEW d \in Docs, RemoveDocument(d) PROVE DocStep(d)
  BY <1>t, <1>2 DEF RemoveDocument, DocStep, Exists
<1>3. ASSUME NEW d \in Docs, PurgeTrash(d) PROVE DocStep(d)
  BY <1>t, <1>3 DEF PurgeTrash, DocStep, Exists
<1>4. ASSUME NEW d \in Docs,
             DeleteExclusion(d) \/ \E f \in Flags : PatchHidden(d, f)
      PROVE  RowsStep
  <2>1. CASE DeleteExclusion(d)
    BY <2>1 DEF DeleteExclusion, RowsStep, Exists
  <2>2. ASSUME NEW f \in Flags, PatchHidden(d, f) PROVE RowsStep
    BY <2>2, FlagOnly DEF PatchHidden, RowsStep
  <2> QED BY <1>4, <2>1, <2>2
<1>5. ASSUME NEW i \in Ids, GraceElapses(i) \/ ClaimAges(i) PROVE RowsStep
  <2>1. \A row \in Row : /\ [row EXCEPT !.due = TRUE].doc = row.doc /\ [row EXCEPT !.due = TRUE].due
                         /\ [row EXCEPT !.old = TRUE].doc = row.doc
                         /\ row.due => [row EXCEPT !.old = TRUE].due
    BY DEF Row
  <2> QED BY <1>t, <1>5, <2>1, KeptMoves DEF GraceElapses, ClaimAges, IsOpen, OpenStates
<1> QED BY <1>1, <1>2, <1>3, <1>4, <1>5 DEF World, Moves

LEMMA NextMoves ==
  ASSUME TypeOK, ClaimInv, [Next]_vars
  PROVE  Moves
<1>1. CASE UNCHANGED vars
  BY <1>1 DEF vars, Moves, RowsStep, Exists
<1>2. ASSUME NEW a \in Actors, Abort(a) PROVE Moves
  BY <1>2 DEF Abort, Moves, RowsStep, Exists
<1>3. ASSUME NEW o \in Operators, Requests(o) \/ OperatorSteps(o) PROVE Moves
  BY <1>3, OperatorMoves DEF Moves
<1>4. ASSUME NEW s \in Scanners, ScannerPicks(s) \/ ScannerSteps(s) PROVE Moves
  BY <1>4, ScannerMoves DEF Moves
<1> QED BY <1>1, <1>2, <1>3, <1>4, ReaperMoves, WorldMoves DEF Next

LEMMA RoomInvStep ==
  ASSUME TypeOK, OneOpenRow, GoneSomehow, Moves
  PROVE  OneOpenRow' /\ GoneSomehow'
<1>1. ASSUME NEW i \in Ids, RowStep(i) PROVE OneOpenRow'
  <2> SUFFICES ASSUME NEW j \in Ids, NEW k \in Ids, IsOpen(j)', IsOpen(k)',
                      cand'[j].doc = cand'[k].doc, j # k
               PROVE  FALSE
    BY DEF OneOpenRow
  <2>1. ASSUME NEW n \in Ids, n # i, IsOpen(i)', IsOpen(n)', cand'[i].doc = cand'[n].doc
        PROVE  FALSE
    <3>1. cand'[n] = cand[n] /\ IsOpen(n)
      BY <1>1, <2>1 DEF RowStep, IsOpen
    <3> QED BY <1>1, <2>1, <3>1 DEF RowStep, OneOpenRow
  <2>2. CASE j # i /\ k # i
    BY <1>1, <2>2 DEF RowStep, OneOpenRow, IsOpen
  <2> QED BY <2>1, <2>2
<1>2. UNCHANGED cand => OneOpenRow'
  BY DEF OneOpenRow, IsOpen
<1>3. CASE RowsStep
  BY <1>1, <1>2, <1>3 DEF RowsStep, GoneSomehow
<1>4. ASSUME NEW d \in Docs, DocStep(d) PROVE OneOpenRow' /\ GoneSomehow'
  BY <1>2, <1>4 DEF DocStep, GoneSomehow, Exists
<1> QED BY <1>3, <1>4 DEF Moves

(***************************************************************************)
(* The room's view of one document.                                        *)
(***************************************************************************)
Where(d) == IF ~Exists(d) THEN last[d] ELSE IF Awaits(d) = {} THEN "live" ELSE "waiting"
Elapsed(d) == Exists(d) /\ \E i \in Awaits(d) : cand[i].due
Saved(d) == trash[d] # "none"

LEMMA RoomMoves ==
  ASSUME NEW d \in Docs,
         \A e \in Docs \ {d} : /\ Where(e)' = Where(e)
                               /\ Elapsed(e)' <=> Elapsed(e)
                               /\ Saved(e)' <=> Saved(e),
         \/ /\ Where(d) = "live" /\ Where(d)' = "waiting" /\ (Saved(d)' <=> Saved(d))
         \/ /\ Where(d) = "waiting" /\ ~Elapsed(d) /\ Where(d)' = "waiting" /\ Elapsed(d)'
            /\ Saved(d)' <=> Saved(d)
         \/ /\ Where(d) = "waiting" /\ Where(d)' = "live" /\ ~Elapsed(d)'
            /\ Saved(d)' <=> Saved(d)
         \/ /\ Where(d) = "waiting" /\ Elapsed(d) /\ Where(d)' = "reaped" /\ ~Elapsed(d)'
            /\ Saved(d)'
         \/ /\ Where(d) \in {"live", "waiting"} /\ Where(d)' = "removed" /\ ~Elapsed(d)'
            /\ Saved(d)' <=> Saved(d)
         \/ /\ Where(d) \in {"reaped", "removed"}
            /\ (Where(d)' = "live" /\ ~Elapsed(d)') \/ Where(d)' = "waiting"
            /\ (Saved(d)' <=> Saved(d)) \/ (Saved(d) /\ ~Saved(d)')
         \/ /\ Saved(d) /\ ~Saved(d)' /\ (Elapsed(d)' <=> Elapsed(d))
            /\ Where(d)' = IF Where(d) = "reaped" THEN "removed" ELSE Where(d)
  PROVE  Room!Next
<1> DEFINE W == [e \in Docs |-> Where(e)]
           E == [e \in Docs |-> Elapsed(e)]
           S == [e \in Docs |-> Saved(e)]
<1>1. /\ Room!Enter(d) <=> /\ W[d] = "live"
                           /\ \E over \in BOOLEAN : /\ W' = [W EXCEPT ![d] = "waiting"]
                                                    /\ E' = [E EXCEPT ![d] = over]
                           /\ S' = S
      /\ Room!Elapse(d) <=> /\ W[d] = "waiting" /\ ~E[d]
                            /\ W' = [W EXCEPT ![d] = "waiting"] /\ E' = [E EXCEPT ![d] = TRUE]
                            /\ S' = S
      /\ Room!Leave(d) <=> /\ W[d] = "waiting"
                           /\ W' = [W EXCEPT ![d] = "live"] /\ E' = [E EXCEPT ![d] = FALSE]
                           /\ S' = S
      /\ Room!Reap(d) <=> /\ W[d] = "waiting" /\ E[d]
                          /\ W' = [W EXCEPT ![d] = "reaped"] /\ E' = [E EXCEPT ![d] = FALSE]
                          /\ S' = [S EXCEPT ![d] = TRUE]
      /\ Room!Remove(d) <=> /\ W[d] \in {"live", "waiting"}
                            /\ W' = [W EXCEPT ![d] = "removed"] /\ E' = [E EXCEPT ![d] = FALSE]
                            /\ S' = S
      /\ Room!Return(d) <=> /\ W[d] \in {"reaped", "removed"}
                            /\ \/ W' = [W EXCEPT ![d] = "live"] /\ E' = [E EXCEPT ![d] = FALSE]
                               \/ \E over \in BOOLEAN : /\ W' = [W EXCEPT ![d] = "waiting"]
                                                        /\ E' = [E EXCEPT ![d] = over]
                            /\ S' = S \/ (S[d] /\ S' = [S EXCEPT ![d] = FALSE])
      /\ Room!Purge(d) <=> /\ S[d] /\ S' = [S EXCEPT ![d] = FALSE]
                           /\ W' = [W EXCEPT ![d] = IF W[d] = "reaped" THEN "removed" ELSE W[d]]
                           /\ E' = [E EXCEPT ![d] = E[d]]
  BY DEF Room!Enter, Room!Elapse, Room!Leave, Room!Reap, Room!Remove, Room!Return, Room!Purge,
     Room!Move, Where, Elapsed, Saved
<1>2. W[d] = Where(d) /\ (E[d] <=> Elapsed(d)) /\ (S[d] <=> Saved(d))
  OBVIOUS
<1>3. W' = [W EXCEPT ![d] = Where(d)']
  OBVIOUS
<1>4. \A b \in BOOLEAN : (Elapsed(d)' <=> b) => E' = [E EXCEPT ![d] = b]
  BY DEF Elapsed
<1>5. \A b \in BOOLEAN : (Saved(d)' <=> b) => S' = [S EXCEPT ![d] = b]
  BY DEF Saved
<1>6. (Saved(d)' <=> Saved(d)) => S' = S
  BY DEF Saved
<1>7. E[d] \in BOOLEAN /\ Elapsed(d)' \in BOOLEAN
  BY DEF Elapsed
<1> HIDE DEF W, E, S
<1> QED BY <1>1, <1>2, <1>3, <1>4, <1>5, <1>6, <1>7 DEF Room!Next

\* A document whose rows and whose own state are left alone looks the same.
LEMMA LooksTheSame ==
  ASSUME NEW d \in Docs, last'[d] = last[d], Exists(d)' <=> Exists(d),
         \A i \in Ids : /\ i \in Awaits(d)' <=> i \in Awaits(d)
                        /\ i \in Awaits(d) => (cand'[i].due <=> cand[i].due)
  PROVE  Where(d)' = Where(d) /\ (Elapsed(d)' <=> Elapsed(d))
<1>1. Awaits(d)' = Awaits(d)
  BY DEF Awaits
<1>2. \A i \in Awaits(d) : i \in Ids
  BY DEF Awaits
<1> QED BY <1>1, <1>2 DEF Where, Elapsed

LEMMA RoomStutters ==
  ASSUME \A d \in Docs : /\ Where(d)' = Where(d)
                         /\ Elapsed(d)' <=> Elapsed(d)
                         /\ Saved(d)' <=> Saved(d)
  PROVE  UNCHANGED Room!wvars
BY DEF Room!wvars, Where, Elapsed, Saved

LEMMA RowStepInRoom ==
  ASSUME TypeOK, OneOpenRow, NEW i \in Ids, RowStep(i),
         UNCHANGED <<last, trash>>, \A d \in Docs : Exists(d)' <=> Exists(d)
  PROVE  [Room!Next]_(Room!wvars)
<1>s. \A d \in Docs : Saved(d)' <=> Saved(d)
  BY DEF Saved
<1>o. \A j \in Ids \ {i} : cand'[j] = cand[j]
  BY DEF RowStep
<1>1. ASSUME NEW d \in Docs, ~Standing(i) \/ cand[i].doc # d, ~Standing(i)' \/ cand'[i].doc # d
      PROVE  Where(d)' = Where(d) /\ (Elapsed(d)' <=> Elapsed(d))
  <2>1. i \notin Awaits(d) /\ i \notin Awaits(d)'
    BY <1>1 DEF Awaits, Standing
  <2>2. \A j \in Ids : /\ j \in Awaits(d)' <=> j \in Awaits(d)
                       /\ j \in Awaits(d) => (cand'[j].due <=> cand[j].due)
    BY <1>o, <2>1 DEF Awaits
  <2> QED BY <2>2, LooksTheSame
<1>2. CASE ~Standing(i) /\ ~Standing(i)'
  BY <1>s, <1>1, <1>2, RoomStutters
<1>3. CASE Standing(i) \/ Standing(i)'
  <2>1. cand'[i].doc = cand[i].doc
    BY <1>3 DEF RowStep, IsOpen, Standing, OpenStates
  <2>2. \A e \in Docs : e # cand[i].doc => Where(e)' = Where(e) /\ (Elapsed(e)' <=> Elapsed(e))
    BY <1>1, <2>1
  <2>3. CASE cand[i].doc \notin Docs
    BY <1>s, <2>2, <2>3, RoomStutters
  <2>4. ASSUME NEW d \in Docs, d = cand[i].doc PROVE [Room!Next]_(Room!wvars)
    <3>1. CASE ~Exists(d)
      <4>1. Where(d)' = Where(d) /\ ~Elapsed(d)' /\ ~Elapsed(d)
        BY <3>1 DEF Where, Elapsed
      <4> QED BY <1>s, <2>2, <2>4, <4>1, RoomStutters
    <3>2. CASE Exists(d) /\ Standing(i)'
      <4>1. i \in Awaits(d)' /\ Where(d)' = "waiting"
        BY <2>1, <2>4, <3>2 DEF Awaits, Standing, Where
      <4>2. ASSUME Elapsed(d) PROVE Elapsed(d)'
        <5>1. PICK j \in Awaits(d) : cand[j].due
          BY <4>2 DEF Elapsed
        <5>2. j \in Awaits(d)' /\ cand'[j].due
          <6>1. CASE j = i
            <7>1. Standing(i)
              BY <5>1, <6>1 DEF Awaits, Standing
            <7> QED BY <3>2, <4>1, <5>1, <6>1, <7>1 DEF RowStep, IsOpen, Standing, OpenStates
          <6>2. CASE j # i
            BY <1>o, <5>1, <6>2 DEF Awaits
          <6> QED BY <6>1, <6>2
        <5> QED BY <3>2, <5>2 DEF Elapsed
      <4>3. Where(d) \in {"live", "waiting"}
        BY <3>2 DEF Where
      <4>4. CASE Where(d) = "waiting" /\ (Elapsed(d)' <=> Elapsed(d))
        BY <1>s, <2>2, <2>4, <4>1, <4>4, RoomStutters
      <4>5. CASE Where(d) = "live" \/ ~(Elapsed(d)' <=> Elapsed(d))
        BY <1>s, <2>2, <2>4, <4>1, <4>2, <4>3, <4>5, RoomMoves
      <4> QED BY <4>3, <4>4, <4>5
    <3>3. CASE Exists(d) /\ ~Standing(i)'
      <4>1. Standing(i) /\ i \in Awaits(d) /\ Where(d) = "waiting"
        BY <1>3, <2>4, <3>3 DEF Awaits, Standing, Where
      <4>2. ASSUME NEW j \in Awaits(d)' PROVE FALSE
        <5>1. j \in Ids /\ j # i
          BY <3>3, <4>2 DEF Awaits, Standing
        <5>2. IsOpen(j) /\ cand[j].doc = d
          BY <1>o, <4>2, <5>1 DEF Awaits, IsOpen, OpenStates
        <5> QED BY <2>4, <4>1, <5>1, <5>2 DEF OneOpenRow, IsOpen, Standing, OpenStates
      <4>3. Where(d)' = "live" /\ ~Elapsed(d)'
        BY <3>3, <4>2 DEF Where, Elapsed
      <4> QED BY <1>s, <2>2, <2>4, <4>1, <4>3, RoomMoves
    <3> QED BY <3>1, <3>2, <3>3
  <2> QED BY <2>3, <2>4
<1> QED BY <1>2, <1>3

LEMMA DocStepInRoom ==
  ASSUME TypeOK, GoneSomehow, NEW d \in Docs, DocStep(d)
  PROVE  Room!Next
<1>1. \A e \in Docs : Awaits(e)' = Awaits(e)
  BY DEF DocStep, Awaits
<1>2. \A e \in Docs \ {d} : /\ Where(e)' = Where(e)
                            /\ Elapsed(e)' <=> Elapsed(e)
                            /\ Saved(e)' <=> Saved(e)
  BY <1>1 DEF DocStep, Where, Elapsed, Saved, Exists
<1>3. CASE Exists(d) /\ ~Exists(d)'
  <2>1. Where(d) \in {"live", "waiting"} /\ Where(d)' = last'[d] /\ ~Elapsed(d)'
    BY <1>3 DEF Where, Elapsed
  <2>2. CASE last'[d] = "removed" /\ trash'[d] = trash[d]
    BY <1>2, <2>1, <2>2, RoomMoves DEF Saved
  <2>3. CASE last'[d] = "reaped" /\ trash'[d] # "none" /\ \E i \in Awaits(d) : cand[i].due
    <3>1. Where(d) = "waiting" /\ Elapsed(d) /\ Saved(d)'
      BY <1>3, <2>3 DEF Where, Elapsed, Saved
    <3> QED BY <1>2, <2>1, <2>3, <3>1, RoomMoves
  <2> QED BY <1>3, <2>2, <2>3 DEF DocStep
<1>4. CASE ~Exists(d) /\ Exists(d)'
  <2>1. Where(d) \in {"reaped", "removed"}
    BY <1>4 DEF Where, GoneSomehow
  <2>2. (Where(d)' = "live" /\ ~Elapsed(d)') \/ Where(d)' = "waiting"
    BY <1>4 DEF Where, Elapsed
  <2>3. (Saved(d)' <=> Saved(d)) \/ (Saved(d) /\ ~Saved(d)')
    BY <1>4 DEF DocStep, Saved
  <2> QED BY <1>2, <2>1, <2>2, <2>3, RoomMoves
<1>5. CASE Exists(d)' <=> Exists(d)
  <2>1. Saved(d) /\ ~Saved(d)' /\ last'[d] = IF Exists(d) THEN last[d] ELSE "removed"
    BY <1>5 DEF DocStep, Saved
  <2>2. Elapsed(d)' <=> Elapsed(d)
    BY <1>1, <1>5 DEF DocStep, Elapsed
  <2>3. Where(d)' = IF Where(d) = "reaped" THEN "removed" ELSE Where(d)
    BY <1>1, <1>5, <2>1 DEF Where, GoneSomehow
  <2> QED BY <1>2, <2>1, <2>2, <2>3, RoomMoves
<1> QED BY <1>3, <1>4, <1>5

(***************************************************************************)
(* The lifecycle implements the waiting room, whatever fails: a document   *)
(* is deleted only out of it, after its grace, together with the snapshot  *)
(* it can come back from.                                                  *)
(***************************************************************************)
THEOREM ImplementsWaitingRoom ==
  ASSUME OneReaper
  PROVE  Spec => WaitingRoomSpec
<1>1. Init => Room!Init /\ OneOpenRow /\ GoneSomehow
  <2> SUFFICES ASSUME Init PROVE Room!Init /\ OneOpenRow /\ GoneSomehow
    OBVIOUS
  <2>1. \A d \in Docs : Exists(d) /\ Awaits(d) = {} /\ trash[d] = "none"
    BY DEF Init, Exists, Awaits, NoRow, Flags
  <2>2. OneOpenRow /\ GoneSomehow
    BY <2>1 DEF Init, OneOpenRow, GoneSomehow, IsOpen, NoRow, OpenStates
  <2> QED BY <2>1, <2>2 DEF Room!Init
<1>2. TypeOK /\ ClaimInv /\ OneOpenRow /\ GoneSomehow /\ [Next]_vars
        => OneOpenRow' /\ GoneSomehow' /\ [Room!Next]_(Room!wvars)
  <2> SUFFICES ASSUME TypeOK, ClaimInv, OneOpenRow, GoneSomehow, [Next]_vars
               PROVE  OneOpenRow' /\ GoneSomehow' /\ [Room!Next]_(Room!wvars)
    OBVIOUS
  <2>1. Moves
    BY NextMoves
  <2>2. ASSUME RowsStep, UNCHANGED cand PROVE [Room!Next]_(Room!wvars)
    <3>1. \A d \in Docs : Where(d)' = Where(d) /\ (Elapsed(d)' <=> Elapsed(d))
      BY <2>2, LooksTheSame DEF RowsStep, Awaits
    <3> QED BY <2>2, <3>1, RoomStutters DEF RowsStep, Saved
  <2>3. [Room!Next]_(Room!wvars)
    BY <2>1, <2>2, RowStepInRoom, DocStepInRoom DEF Moves, RowsStep
  <2> QED BY <2>1, <2>3, RoomInvStep
<1> QED BY <1>1, <1>2, ClaimInvariant, PTL DEF Spec, WaitingRoomSpec, Room!Spec

(***************************************************************************)
(* What is deleted out of the waiting room has its snapshot for as long as *)
(* nothing brings it back and nobody purges it.  That is an argument about *)
(* the room alone, and the lifecycle inherits it.                          *)
(***************************************************************************)
ReapedIsSaved == \A d \in Docs : Where(d) = "reaped" => Saved(d)

LEMMA RoomSaves ==
  ASSUME ReapedIsSaved, [Room!Next]_(Room!wvars)
  PROVE  ReapedIsSaved'
<1> DEFINE W == [e \in Docs |-> Where(e)]
           S == [e \in Docs |-> Saved(e)]
<1>1. ReapedIsSaved <=> \A e \in Docs : W[e] = "reaped" => S[e]
  BY DEF ReapedIsSaved
<1>2. ReapedIsSaved' <=> \A e \in Docs : W'[e] = "reaped" => S'[e]
  BY DEF ReapedIsSaved
<1>3. ASSUME NEW d \in Docs,
             Room!Enter(d) \/ Room!Elapse(d) \/ Room!Leave(d) \/ Room!Remove(d) \/ Room!Return(d)
      PROVE  /\ \E place \in {"live", "waiting", "removed"} : W' = [W EXCEPT ![d] = place]
             /\ S' = S \/ S' = [S EXCEPT ![d] = FALSE]
  BY <1>3 DEF Room!Enter, Room!Elapse, Room!Leave, Room!Remove, Room!Return, Room!Move, Where, Saved
<1>4. ASSUME NEW d \in Docs, Room!Reap(d)
      PROVE  W' = [W EXCEPT ![d] = "reaped"] /\ S' = [S EXCEPT ![d] = TRUE]
  BY <1>4 DEF Room!Reap, Room!Move, Where, Saved
<1>5. ASSUME NEW d \in Docs, Room!Purge(d)
      PROVE  /\ W' = [W EXCEPT ![d] = IF W[d] = "reaped" THEN "removed" ELSE W[d]]
             /\ S' = [S EXCEPT ![d] = FALSE]
  BY <1>5 DEF Room!Purge, Room!Move, Where, Saved
<1>6. UNCHANGED Room!wvars => W' = W /\ S' = S
  BY DEF Room!wvars, Where, Saved
<1>7. /\ W = [e \in Docs |-> W[e]] /\ S = [e \in Docs |-> S[e]]
  OBVIOUS
<1> HIDE DEF W, S
<1>8. ASSUME NEW d \in Docs, NEW place, W' = [W EXCEPT ![d] = place], place # "reaped",
             S' = S \/ S' = [S EXCEPT ![d] = FALSE]
      PROVE  ReapedIsSaved'
  BY <1>1, <1>2, <1>7, <1>8
<1>9. ASSUME NEW d \in Docs, Room!Reap(d) PROVE ReapedIsSaved'
  BY <1>1, <1>2, <1>4, <1>7, <1>9
<1>10. ASSUME NEW d \in Docs, Room!Purge(d) PROVE ReapedIsSaved'
  <2>1. (IF W[d] = "reaped" THEN "removed" ELSE W[d]) # "reaped"
    OBVIOUS
  <2> QED BY <1>5, <1>8, <1>10, <2>1
<1>11. CASE Room!Next
  BY <1>3, <1>8, <1>9, <1>10, <1>11 DEF Room!Next
<1> QED BY <1>1, <1>2, <1>6, <1>11

\* A document the reaper deleted, and that nothing has brought back, purged or
\* deleted since, has a restorable snapshot, whatever fails (trash.rs: "There is
\* no third state where content is lost"); it follows from the waiting room.
THEOREM ReapedComesBack ==
  ASSUME OneReaper
  PROVE  Spec => []ReapedIsSaved
<1>1. Room!Init => ReapedIsSaved
  <2> DEFINE W == [e \in Docs |-> Where(e)]
  <2>1. Room!Init => W = [e \in Docs |-> "live"]
    BY DEF Room!Init, Where
  <2>2. \A e \in Docs : W[e] = Where(e)
    OBVIOUS
  <2> HIDE DEF W
  <2> QED BY <2>1, <2>2 DEF ReapedIsSaved
<1>2. ReapedIsSaved /\ [Room!Next]_(Room!wvars) => ReapedIsSaved'
  BY RoomSaves
<1> QED BY <1>1, <1>2, ImplementsWaitingRoom, PTL DEF WaitingRoomSpec, Room!Spec

-----------------------------------------------------------------------------
(***************************************************************************)
(* Undisturbed pruning: requests come one at a time, no call fails and no  *)
(* process dies, nothing is deleted with `remember', the crawler brings    *)
(* nothing back and owners do not touch the flag.  Reapers and scanners    *)
(* may be any number: a claim is then never left behind, so the recovery   *)
(* of stuck claims finds nothing and no two reapers hold one row.          *)
(***************************************************************************)
Undisturbed ==
  /\ \A o, p \in Operators : o = p
  /\ MaxFaults = 0 /\ MaxCrawls = 0
  /\ ~OwnerPatches
  /\ "yes" \notin RememberArgs

Claiming == {"rp_capture", "rp_commit", "rp_mark"}
Claims(r, i) == op[r].pc \in Claiming /\ op[r].id = i
Waits(d) == \E i \in Ids : cand[i].doc = d /\ Standing(i)
AsOwned(d) == Exists(d) => doc[d] = owner[d]

\* What was saved is the owner's flag; a staged document is hidden and not in
\* the trash; a claim is never left behind, so nobody takes it for stuck.
RowOK(i) ==
  /\ cand[i].state # "none" => cand[i].doc \in Docs
  /\ ~cand[i].remember
  /\ cand[i].state \in {"staged", "deleting", "restored"} => Flag(cand[i].prev) = owner[cand[i].doc]
  /\ cand[i].state = "staged" => doc[cand[i].doc] # "visible" /\ trash[cand[i].doc] = "none"
  /\ cand[i].state = "deleting" =>
       cand[i].due /\ ~cand[i].old /\ \E r \in Reapers : Claims(r, i)

\* The operator has saved the owner's flag before it hides, and while it hides
\* or shows the document no row of it waits.
Hiding == {"st_hide", "st_mark", "st_check", "st_unhide"}
OperatorOK(o) ==
  /\ op[o].pc \in {"idle", "ex_mark", "dm_mark"} \cup StagePCs \cup RestorePCs
  /\ op[o].arg # "yes"
  /\ op[o].pc # "idle" => /\ op[o].id \in Ids /\ cand[op[o].id].state # "none"
                          /\ cand[op[o].id].doc = op[o].doc
  /\ op[o].pc \in Hiding \cup RestorePCs => Flag(op[o].prev) = owner[op[o].doc]
  /\ op[o].pc \in Hiding \cup {"st_read", "rs_show", "rs_reopen"} => ~Waits(op[o].doc)
  /\ op[o].pc \in {"st_mark", "st_check"} => doc[op[o].doc] # "visible"
  /\ op[o].pc \in {"st_mark", "st_check", "rs_show", "rs_reopen"} => trash[op[o].doc] = "none"
  /\ op[o].pc = "st_unhide" => ~op[o].prev
  /\ op[o].pc = "rs_reopen" => ~Exists(op[o].doc)

ReaperOK(r) ==
  /\ op[r].pc \in {"idle", "rp_claim"} \cup Claiming
  /\ op[r].pc # "idle" =>
       /\ op[r].id \in Ids /\ op[r].arg # "yes"
       /\ cand[op[r].id].doc = op[r].doc /\ cand[op[r].id].prev = op[r].prev
       /\ cand[op[r].id].state \notin {"none", "candidate"}
  /\ op[r].pc \in Claiming => cand[op[r].id].state = "deleting"
  /\ op[r].pc = "rp_mark" => AsOwned(op[r].doc)

\* A document that no row keeps and nobody is hiding or showing has its
\* owner's flag, and so has what is in the trash.
Handles(o, d) == op[o].pc \in {"st_mark", "st_check", "st_unhide", "rs_show"} /\ op[o].doc = d
DocOK(d) ==
  /\ trash[d] # "none" => ~Exists(d) /\ trash[d] = owner[d]
  /\ AsOwned(d) \/ Waits(d) \/ \E o \in Operators : Handles(o, d)
  /\ excl[d] # "deleted_with_remember"

OneClaim ==
  \A r, q \in Reapers :
    op[r].pc \in Claiming /\ op[q].pc \in Claiming /\ op[r].id = op[q].id => r = q

CalmInv ==
  /\ faults = 0 /\ crawls = 0 /\ OneOpenRow
  /\ \A i \in Ids : RowOK(i)
  /\ \A o \in Operators : OperatorOK(o)
  /\ \A r \in Reapers : ReaperOK(r)
  /\ \A s \in Scanners : op[s].pc # "idle" => op[s].doc \in Docs
  /\ \A d \in Docs : DocOK(d)
  /\ OneClaim

\* A step of one actor, or of nobody, that writes nothing shared.
LEMMA OnlyOpCalm ==
  ASSUME CalmInv, NEW a, \A b \in Actors \ {a} : op'[b] = op[b],
         UNCHANGED <<doc, cand, excl, trash, faults, crawls, owner>>,
         a \in Operators => OperatorOK(a)' /\ \A d \in Docs : Handles(a, d) => Handles(a, d)' \/ AsOwned(d),
         a \in Reapers => /\ ReaperOK(a)'
                          /\ op'[a].pc \in Claiming <=> op[a].pc \in Claiming
                          /\ op[a].pc \in Claiming => op'[a].id = op[a].id,
         a \in Scanners => (op'[a].pc # "idle" => op'[a].doc \in Docs)
  PROVE  CalmInv'
<1>1. \A i \in Ids : RowOK(i)'
  <2>1. ASSUME NEW r \in Reapers, NEW i, Claims(r, i) PROVE Claims(r, i)'
    BY <2>1 DEF Claims, Actors
  <2>2. ASSUME NEW i \in Ids PROVE RowOK(i)'
    <3>1. RowOK(i)
      BY DEF CalmInv
    <3> QED BY <2>1, <3>1 DEF RowOK
  <2> QED BY <2>2
<1>2. \A o \in Operators : OperatorOK(o)'
  <2>1. ASSUME NEW o \in Operators, o # a PROVE OperatorOK(o)'
    <3>1. OperatorOK(o) /\ op'[o] = op[o]
      BY <2>1 DEF CalmInv, Actors
    <3> QED BY <3>1 DEF OperatorOK, Waits, Standing, Exists
  <2> QED BY <2>1
<1>3. \A r \in Reapers : ReaperOK(r)'
  <2>1. ASSUME NEW r \in Reapers, r # a PROVE ReaperOK(r)'
    <3>1. ReaperOK(r) /\ op'[r] = op[r]
      BY <2>1 DEF CalmInv, Actors
    <3> QED BY <3>1 DEF ReaperOK, AsOwned, Exists
  <2> QED BY <2>1
<1>4. \A d \in Docs : DocOK(d)'
  <2> SUFFICES ASSUME NEW d \in Docs PROVE DocOK(d)'
    OBVIOUS
  <2>1. DocOK(d)
    BY DEF CalmInv
  <2>2. ASSUME NEW o \in Operators, Handles(o, d) PROVE Handles(o, d)' \/ AsOwned(d)
    BY <2>2 DEF Handles, Actors
  <2> QED BY <2>1, <2>2 DEF DocOK, AsOwned, Waits, Standing, Exists
<1>5. OneClaim'
  <2>1. ASSUME NEW r \in Reapers, op'[r].pc \in Claiming
        PROVE  op[r].pc \in Claiming /\ op'[r].id = op[r].id
    BY <2>1 DEF Actors
  <2> QED BY <2>1 DEF CalmInv, OneClaim
<1>6. \A s \in Scanners : op'[s].pc # "idle" => op'[s].doc \in Docs
  BY DEF CalmInv, Actors
<1> QED BY <1>1, <1>2, <1>3, <1>4, <1>5, <1>6 DEF CalmInv, OneOpenRow, IsOpen

\* A step that writes one row.  A row that waits no more leaves its document
\* with its owner's flag, or with an operator at work on it.
LEMMA RowCalm ==
  ASSUME CalmInv, OneOpenRow', NEW a, \A b \in Actors \ {a} : op'[b] = op[b],
         UNCHANGED <<doc, excl, trash, faults, crawls, owner>>,
         NEW i \in Ids, \A j \in Ids \ {i} : cand'[j] = cand[j],
         cand[i].state # "none" => cand'[i].state # "none" /\ cand'[i].doc = cand[i].doc,
         cand[i].state \notin {"none", "candidate"} =>
           cand'[i].state \notin {"none", "candidate"} /\ cand'[i].prev = cand[i].prev,
         RowOK(i)',
         Standing(i)' /\ ~Standing(i) => Operators = {a},
         Standing(i) /\ ~Standing(i)' =>
           AsOwned(cand[i].doc) \/ (a \in Operators /\ Handles(a, cand[i].doc)'),
         \A r \in Reapers \ {a} : Claims(r, i) => cand'[i].state = "deleting",
         a \in Operators => /\ OperatorOK(a)'
                            /\ \A d \in Docs : Handles(a, d) => Handles(a, d)' \/ AsOwned(d) \/ Waits(d)',
         a \in Reapers => /\ ReaperOK(a)'
                          /\ op'[a].pc \in Claiming =>
                               \A r \in Reapers \ {a} : ~Claims(r, op'[a].id)
                          /\ op[a].pc \in Claiming => op[a].id = i,
         a \in Scanners => (op'[a].pc # "idle" => op'[a].doc \in Docs)
  PROVE  CalmInv'
<1>1. \A j \in Ids : RowOK(j)'
  <2>1. ASSUME NEW j \in Ids, j # i PROVE RowOK(j)'
    <3>1. RowOK(j) /\ cand'[j] = cand[j]
      BY <2>1 DEF CalmInv
    <3>2. ASSUME NEW r \in Reapers, Claims(r, j) PROVE Claims(r, j)'
      BY <2>1, <3>2 DEF Claims, Actors
    <3> QED BY <3>1, <3>2 DEF RowOK
  <2> QED BY <2>1
<1>2. \A o \in Operators : OperatorOK(o)'
  <2>1. ASSUME NEW o \in Operators, o # a PROVE OperatorOK(o)'
    <3>1. OperatorOK(o) /\ op'[o] = op[o]
      BY <2>1 DEF CalmInv, Actors
    <3>2. Standing(i)' => Standing(i)
      BY <2>1
    <3>3. Waits(op[o].doc)' => Waits(op[o].doc)
      <4> SUFFICES ASSUME NEW j \in Ids, cand'[j].doc = op[o].doc, Standing(j)'
                   PROVE  Waits(op[o].doc)
        BY <3>1 DEF Waits, Standing
      <4>1. Standing(j) /\ cand'[j].doc = cand[j].doc
        BY <3>2 DEF Standing
      <4> QED BY <4>1 DEF Waits
    <3>4. op[o].pc # "idle" => cand'[op[o].id].state # "none" /\ cand'[op[o].id].doc = op[o].doc
      BY <3>1 DEF OperatorOK
    <3> QED BY <3>1, <3>3, <3>4 DEF OperatorOK, Exists
  <2> QED BY <2>1
<1>3. \A r \in Reapers : ReaperOK(r)'
  <2>1. ASSUME NEW r \in Reapers, r # a PROVE ReaperOK(r)'
    <3>1. ReaperOK(r) /\ op'[r] = op[r]
      BY <2>1 DEF CalmInv, Actors
    <3>2. op[r].pc # "idle" => /\ cand'[op[r].id].doc = op[r].doc /\ cand'[op[r].id].prev = op[r].prev
                               /\ cand'[op[r].id].state \notin {"none", "candidate"}
      BY <3>1 DEF ReaperOK
    <3>3. op[r].pc \in Claiming => cand'[op[r].id].state = "deleting"
      BY <2>1, <3>1 DEF ReaperOK, Claims, Claiming
    <3> QED BY <3>1, <3>2, <3>3 DEF ReaperOK, AsOwned, Exists
  <2> QED BY <2>1
<1>4. \A d \in Docs : DocOK(d)'
  <2> SUFFICES ASSUME NEW d \in Docs PROVE DocOK(d)'
    OBVIOUS
  <2>1. DocOK(d)
    BY DEF CalmInv
  <2>2. ASSUME NEW o \in Operators, Handles(o, d)
        PROVE  Handles(o, d)' \/ AsOwned(d) \/ Waits(d)'
    BY <2>2 DEF Handles, Actors
  <2>3. ASSUME Waits(d), ~Waits(d)' PROVE AsOwned(d) \/ \E o \in Operators : Handles(o, d)'
    <3>1. PICK j \in Ids : cand[j].doc = d /\ Standing(j)
      BY <2>3 DEF Waits
    <3>2. j = i
      BY <2>3, <3>1 DEF Waits, Standing
    <3>3. cand'[i].doc = d
      BY <3>1, <3>2 DEF Standing
    <3>4. ~Standing(i)'
      BY <2>3, <3>3 DEF Waits, Standing
    <3> QED BY <3>1, <3>2, <3>3, <3>4 DEF Standing, Handles
  <2>4. AsOwned(d)' <=> AsOwned(d)
    BY DEF AsOwned, Exists
  <2> QED BY <2>1, <2>2, <2>3, <2>4 DEF DocOK, Exists
<1>5. OneClaim'
  BY DEF CalmInv, OneClaim, Claims, Actors
<1>6. \A s \in Scanners : op'[s].pc # "idle" => op'[s].doc \in Docs
  BY DEF CalmInv, Actors
<1> QED BY <1>1, <1>2, <1>3, <1>4, <1>5, <1>6 DEF CalmInv

\* A step that writes one document, its snapshot or its exclusion.
LEMMA DocCalm ==
  ASSUME CalmInv, NEW a, \A b \in Actors \ {a} : op'[b] = op[b],
         UNCHANGED <<cand, faults, crawls, owner>>,
         NEW d \in Docs, \A e \in Docs \ {d} : doc'[e] = doc[e] /\ trash'[e] = trash[e],
         \A e \in Docs : excl'[e] # "deleted_with_remember",
         trash'[d] # "none" => ~Exists(d)' /\ trash'[d] = owner[d],
         AsOwned(d)' \/ Waits(d) \/ (a \in Operators /\ Handles(a, d)'),
         (\E i \in Ids : cand[i].doc = d /\ cand[i].state = "staged") =>
           doc'[d] # "visible" /\ trash'[d] = "none",
         AsOwned(d) => AsOwned(d)' \/ (a \in Operators /\ \A r \in Reapers : op[r].pc = "rp_mark" => op[r].doc # d),
         a \in Operators => /\ OperatorOK(a)'
                            /\ Operators = {a}
                            /\ \A e \in Docs \ {d} : Handles(a, e) => Handles(a, e)',
         a \notin Operators => \A o \in Operators : op[o].pc # "idle" /\ op[o].doc = d => OperatorOK(o)',
         a \in Reapers => /\ ReaperOK(a)'
                          /\ op'[a].pc \in Claiming <=> op[a].pc \in Claiming
                          /\ op[a].pc \in Claiming => op'[a].id = op[a].id,
         a \in Scanners => (op'[a].pc # "idle" => op'[a].doc \in Docs)
  PROVE  CalmInv'
<1>1. \A i \in Ids : RowOK(i)'
  <2>1. ASSUME NEW r \in Reapers, NEW i, Claims(r, i) PROVE Claims(r, i)'
    BY <2>1 DEF Claims, Actors
  <2>2. ASSUME NEW i \in Ids PROVE RowOK(i)'
    <3>1. RowOK(i)
      BY DEF CalmInv
    <3> QED BY <2>1, <3>1 DEF RowOK
  <2> QED BY <2>2
<1>2. \A o \in Operators : OperatorOK(o)'
  <2>1. ASSUME NEW o \in Operators, o # a PROVE OperatorOK(o)'
    <3>1. OperatorOK(o) /\ op'[o] = op[o] /\ a \notin Operators
      BY <2>1 DEF CalmInv, Actors
    <3>2. op[o].pc # "idle" => op[o].doc \in Docs
      BY <3>1 DEF OperatorOK, CalmInv, RowOK
    <3>3. CASE op[o].pc = "idle" \/ op[o].doc # d
      BY <3>1, <3>2, <3>3 DEF OperatorOK, Waits, Standing, Exists, Hiding, RestorePCs
    <3> QED BY <3>1, <3>3
  <2> QED BY <2>1
<1>3. \A r \in Reapers : ReaperOK(r)'
  <2>1. ASSUME NEW r \in Reapers, r # a PROVE ReaperOK(r)'
    <3>1. ReaperOK(r) /\ op'[r] = op[r]
      BY <2>1 DEF CalmInv, Actors
    <3>2. op[r].pc = "rp_mark" => op[r].doc \in Docs
      BY <3>1 DEF ReaperOK, CalmInv, RowOK
    <3>3. op[r].pc = "rp_mark" => AsOwned(op[r].doc)'
      BY <3>1, <3>2 DEF ReaperOK, AsOwned, Exists
    <3> QED BY <3>1, <3>3 DEF ReaperOK
  <2> QED BY <2>1
<1>4. \A e \in Docs : DocOK(e)'
  <2>1. ASSUME NEW e \in Docs, e # d PROVE DocOK(e)'
    <3>1. DocOK(e)
      BY DEF CalmInv
    <3>2. ASSUME NEW o \in Operators, Handles(o, e) PROVE Handles(o, e)'
      BY <2>1, <3>2 DEF Handles, Actors
    <3> QED BY <2>1, <3>1, <3>2 DEF DocOK, AsOwned, Exists, Waits, Standing
  <2>2. DocOK(d)'
    <3>1. DocOK(d)
      BY DEF CalmInv
    <3> QED BY <3>1 DEF DocOK, Waits, Standing
  <2> QED BY <2>1, <2>2
<1>5. OneClaim'
  <2>1. ASSUME NEW r \in Reapers, op'[r].pc \in Claiming
        PROVE  op[r].pc \in Claiming /\ op'[r].id = op[r].id
    BY <2>1 DEF Actors
  <2> QED BY <2>1 DEF CalmInv, OneClaim
<1>6. \A s \in Scanners : op'[s].pc # "idle" => op'[s].doc \in Docs
  BY DEF CalmInv, Actors
<1> QED BY <1>1, <1>2, <1>3, <1>4, <1>5, <1>6 DEF CalmInv, OneOpenRow, IsOpen

(***************************************************************************)
(* What the actions write, field by field.                                 *)
(***************************************************************************)
LEMMA RowFields ==
  ASSUME cand \in [Ids -> Row], NEW i \in Ids
  PROVE  /\ \A s \in RowStates : cand' = [cand EXCEPT ![i].state = s] =>
              cand'[i] = [cand[i] EXCEPT !.state = s]
         /\ \A s \in RowStates, b \in BOOLEAN :
              LET new == [cand[i] EXCEPT !.state = s, !.old = b] IN
              /\ new.state = s /\ new.old = b /\ new.doc = cand[i].doc /\ new.prev = cand[i].prev
              /\ new.due = cand[i].due /\ new.remember = cand[i].remember
         /\ \A s \in RowStates :
              LET new == [cand[i] EXCEPT !.state = s] IN
              /\ new.state = s /\ new.doc = cand[i].doc /\ new.prev = cand[i].prev
              /\ new.due = cand[i].due /\ new.old = cand[i].old /\ new.remember = cand[i].remember
         /\ \A b \in BOOLEAN :
              LET new == [cand[i] EXCEPT !.due = TRUE, !.remember = b] IN
              /\ new.state = cand[i].state /\ new.doc = cand[i].doc /\ new.prev = cand[i].prev
              /\ new.due /\ new.remember = b
         /\ LET new == [cand[i] EXCEPT !.due = TRUE] IN
              /\ new.state = cand[i].state /\ new.doc = cand[i].doc /\ new.prev = cand[i].prev
              /\ new.due /\ new.remember = cand[i].remember
         /\ \A b \in BOOLEAN :
              LET new == [cand[i] EXCEPT !.remember = b] IN
              /\ new.state = cand[i].state /\ new.doc = cand[i].doc /\ new.prev = cand[i].prev
              /\ new.due = cand[i].due /\ new.remember = b
         /\ \A b \in BOOLEAN :
              LET new == StagedRow(cand[i], b) IN
              /\ new.state = "staged" /\ new.doc = cand[i].doc /\ new.prev = b
              /\ new.remember = cand[i].remember
         /\ \A d : LET new == Opened(d) IN
              /\ new.state = "candidate" /\ new.doc = d /\ ~new.remember
<1>1. cand[i] \in Row
  OBVIOUS
<1> QED BY <1>1 DEF Row, StagedRow, Opened, NoRow

LEMMA OpFields ==
  ASSUME op \in [Actors -> Op], NEW a \in Actors
  PROVE  /\ \A pc \in PCs : Goto(a, pc) =>
              /\ \A b \in Actors \ {a} : op'[b] = op[b]
              /\ op'[a].pc = pc /\ op'[a].id = op[a].id /\ op'[a].doc = op[a].doc
              /\ op'[a].prev = op[a].prev /\ op'[a].arg = op[a].arg
         /\ Finish(a) => /\ \A b \in Actors \ {a} : op'[b] = op[b]
                         /\ op'[a].pc = "idle" /\ op'[a].arg = "none" /\ op'[a].doc = NoDoc
         /\ \A pc \in PCs, i \in Ids, prev \in BOOLEAN : \A arg : Begin(a, pc, i, prev, arg) =>
              /\ \A b \in Actors \ {a} : op'[b] = op[b]
              /\ op[a].pc = "idle" /\ op'[a].pc = pc /\ op'[a].id = i /\ op'[a].doc = cand[i].doc
              /\ op'[a].prev = prev /\ op'[a].arg = arg
              /\ UNCHANGED <<doc, cand, excl, trash, faults, crawls, owner>>
         /\ \A pc, d, arg : BeginDoc(a, pc, d, arg) =>
              /\ \A b \in Actors \ {a} : op'[b] = op[b]
              /\ op[a].pc = "idle" /\ op'[a].pc = pc /\ op'[a].doc = d /\ op'[a].arg = arg
              /\ UNCHANGED <<doc, cand, excl, trash, faults, crawls, owner>>
<1>1. op[a] \in Op
  OBVIOUS
<1> QED BY <1>1 DEF Op, Goto, Finish, Idle, Begin, BeginDoc

\* The actor's document is one, and what the types say of it.
LEMMA Known ==
  ASSUME TypeOK, CalmInv
  PROVE  /\ \A o \in Operators : op[o].pc # "idle" => op[o].id \in Ids /\ op[o].doc \in Docs
         /\ \A r \in Reapers : op[r].pc # "idle" => op[r].id \in Ids /\ op[r].doc \in Docs
         /\ \A d \in Docs : doc[d] \in {"visible", "hidden", "absent"} /\ owner[d] \in Flags
         /\ \A a \in Actors : op[a].prev \in BOOLEAN /\ op[a] \in Op
         /\ cand \in [Ids -> Row] /\ op \in [Actors -> Op]
         /\ Operators \subseteq Actors /\ Reapers \subseteq Actors /\ Scanners \subseteq Actors
<1>1. \A o \in Operators : op[o].pc # "idle" => op[o].id \in Ids /\ op[o].doc \in Docs
  BY DEF CalmInv, OperatorOK, RowOK
<1>2. \A r \in Reapers : op[r].pc # "idle" => op[r].id \in Ids /\ op[r].doc \in Docs
  BY DEF CalmInv, ReaperOK, RowOK
<1>3. \A a \in Actors : op[a].prev \in BOOLEAN /\ op[a] \in Op
  BY DEF TypeOK, Op
<1> QED BY <1>1, <1>2, <1>3 DEF TypeOK, Flags, Actors

(***************************************************************************)
(* Requests and the reads of the operator's handlers.                      *)
(***************************************************************************)
LEMMA RequestsCalm ==
  ASSUME Undisturbed, TypeOK, CalmInv, NEW o \in Operators, Requests(o)
  PROVE  CalmInv'
<1>k. o \in Actors /\ o \notin Reapers /\ o \notin Scanners
  BY ConstantsOK DEF Actors
<1>1. ASSUME NEW i \in Ids, NEW pc \in {"st_read", "ex_mark", "rs_mark", "dm_mark"},
             NEW prev \in BOOLEAN, NEW arg, arg # "yes", Begin(o, pc, i, prev, arg),
             cand[i].state \in {"candidate", "staged"},
             pc = "st_read" => cand[i].state = "candidate",
             pc = "rs_mark" => cand[i].state = "staged" /\ prev = cand[i].prev
      PROVE  CalmInv'
  <2>1. pc \in PCs
    BY DEF PCs, StagePCs, RestorePCs, DismissPCs
  <2>2. /\ \A b \in Actors \ {o} : op'[b] = op[b]
        /\ op[o].pc = "idle" /\ op'[o].pc = pc /\ op'[o].id = i /\ op'[o].doc = cand[i].doc
        /\ op'[o].prev = prev /\ op'[o].arg = arg
        /\ UNCHANGED <<doc, cand, excl, trash, faults, crawls, owner>>
    BY <1>k, <1>1, <2>1, OpFields DEF TypeOK
  <2>3. pc = "st_read" => ~Waits(cand[i].doc)
    BY <1>1 DEF CalmInv, OneOpenRow, IsOpen, Waits, Standing, OpenStates
  <2>4. RowOK(i)
    BY DEF CalmInv
  <2>5. OperatorOK(o)'
    BY <1>1, <2>2, <2>3, <2>4 DEF OperatorOK, RowOK, StagePCs, RestorePCs, DismissPCs, Hiding, Waits, Standing
  <2>6. \A d \in Docs : ~Handles(o, d)
    BY <2>2 DEF Handles
  <2> QED BY <1>k, <2>2, <2>5, <2>6, OnlyOpCalm
<1>2. \A i \in Ids : cand[i].prev \in BOOLEAN
  BY DEF TypeOK, Row
<1> QED BY <1>1, <1>2 DEF Undisturbed, Requests, Stage, ScheduleDelete, Restore, Dismiss
LEMMA ReadsCalm ==
  ASSUME Undisturbed, TypeOK, CalmInv, NEW o \in Operators, ReadHidden(o) \/ CheckLostRace(o)
  PROVE  CalmInv'
<1>k. o \in Actors /\ o \notin Reapers /\ o \notin Scanners
  BY ConstantsOK DEF Actors
<1>1. /\ UNCHANGED <<doc, cand, excl, trash, faults, crawls, owner>>
      /\ op[o].pc \in {"st_read", "st_check"}
  BY DEF ReadHidden, CheckLostRace, OnlyOp
<1>2. OperatorOK(o) /\ op[o].doc \in Docs /\ op[o].id \in Ids /\ DocOK(op[o].doc)
  BY <1>1, Known DEF CalmInv
<1>3. ~Waits(op[o].doc) /\ cand[op[o].id].doc = op[o].doc
  BY <1>1, <1>2 DEF OperatorOK, Hiding
<1>4. CASE ReadHidden(o) /\ Exists(op[o].doc)
  <2>1. op' = [op EXCEPT ![o].pc = "st_hide", ![o].prev = (doc[op[o].doc] = "hidden")]
        /\ op[o].pc = "st_read"
    BY <1>4 DEF ReadHidden
  <2>2. /\ \A b \in Actors \ {o} : op'[b] = op[b]
        /\ op'[o].pc = "st_hide" /\ op'[o].id = op[o].id /\ op'[o].doc = op[o].doc
        /\ op'[o].prev = (doc[op[o].doc] = "hidden") /\ op'[o].arg = op[o].arg
    BY <1>k, <2>1, Known DEF Op
  <2>3. \A d \in Docs, p \in Operators : ~Handles(p, d)
    BY <2>1 DEF Handles, Undisturbed
  <2>4. doc[op[o].doc] = owner[op[o].doc]
    BY <1>2, <1>3, <1>4, <2>3 DEF DocOK, AsOwned
  <2>5. Flag(op'[o].prev) = owner[op[o].doc]
    BY <1>2, <1>4, <2>2, <2>4, Known DEF Flag, Exists
  <2>6. OperatorOK(o)'
    BY <1>1, <1>2, <1>3, <2>1, <2>2, <2>5 DEF OperatorOK, StagePCs, Hiding, RestorePCs, Waits, Standing
  <2> QED BY <1>1, <1>k, <2>2, <2>3, <2>6, OnlyOpCalm
<1>5. CASE Finish(o)
  <2>1. (\A b \in Actors \ {o} : op'[b] = op[b]) /\ op'[o].pc = "idle" /\ op'[o].arg = "none"
    BY <1>k, <1>5, OpFields DEF TypeOK
  <2>2. OperatorOK(o)'
    BY <2>1 DEF OperatorOK, Hiding, RestorePCs
  <2>3. ASSUME NEW d \in Docs, Handles(o, d) PROVE AsOwned(d)
    <3>1. op[o].pc = "st_check" /\ d = op[o].doc
      BY <1>1, <2>3 DEF Handles
    <3>2. op[o].prev \/ cand[op[o].id].state \in {"staged", "deleting"}
      BY <1>1, <3>1, <2>1, <1>k, Known DEF CheckLostRace, ReadHidden, Goto, Op
    <3>3. op[o].prev
      BY <1>2, <1>3, <3>2 DEF Waits, Standing
    <3>4. owner[d] = "hidden" /\ doc[d] # "visible"
      BY <1>2, <3>1, <3>3 DEF OperatorOK, Hiding, Flag
    <3> QED BY <1>2, <3>1, <3>4, Known DEF AsOwned, Exists
  <2> QED BY <1>1, <1>k, <2>1, <2>2, <2>3, OnlyOpCalm
<1>6. CASE Goto(o, "st_unhide") /\ CheckLostRace(o) /\ ~op[o].prev
  <2>1. /\ \A b \in Actors \ {o} : op'[b] = op[b]
        /\ op'[o].pc = "st_unhide" /\ op'[o].id = op[o].id /\ op'[o].doc = op[o].doc
        /\ op'[o].prev = op[o].prev /\ op'[o].arg = op[o].arg
    BY <1>k, <1>6, OpFields DEF TypeOK, PCs, StagePCs
  <2>2. op[o].pc = "st_check"
    BY <1>6 DEF CheckLostRace
  <2>3. OperatorOK(o)'
    BY <1>1, <1>2, <1>3, <1>6, <2>1, <2>2 DEF OperatorOK, StagePCs, Hiding, RestorePCs, Waits, Standing
  <2>4. \A d \in Docs : Handles(o, d) => Handles(o, d)'
    BY <2>1 DEF Handles
  <2> QED BY <1>1, <1>k, <2>1, <2>3, <2>4, OnlyOpCalm
<1> QED BY <1>4, <1>5, <1>6 DEF ReadHidden, CheckLostRace

(***************************************************************************)
(* The operator hides and shows documents.                                 *)
(***************************************************************************)
LEMMA HideCalm ==
  ASSUME Undisturbed, TypeOK, CalmInv, NEW o \in Operators, Hide(o) \/ UnhideLostRace(o) \/ ShowAgain(o)
  PROVE  /\ CalmInv'
         /\ (op[o].pc = "rs_show" /\ op'[o].pc = "idle") => doc'[op[o].doc] = owner[op[o].doc]
<1>k. o \in Actors /\ o \notin Reapers /\ o \notin Scanners /\ Operators = {o}
  BY ConstantsOK DEF Actors, Undisturbed
<1>1. /\ UNCHANGED <<cand, excl, trash, faults, crawls, owner>>
      /\ op[o].pc \in {"st_hide", "st_unhide", "rs_show"}
  <2>1. ~Fault
    BY DEF CalmInv, Fault
  <2> QED BY <2>1 DEF Hide, UnhideLostRace, ShowAgain, OnlyOpDoc
<1>d. PICK d \in Docs : d = op[o].doc
  BY <1>1, Known
<1>2. OperatorOK(o) /\ d = op[o].doc /\ d \in Docs /\ op[o].id \in Ids /\ DocOK(d)
  BY <1>1, <1>d, Known DEF CalmInv
<1>3. ~Waits(d) /\ cand[op[o].id].doc = d /\ Flag(op[o].prev) = owner[d]
  BY <1>1, <1>2 DEF OperatorOK, Hiding, RestorePCs
<1>4. DOMAIN doc = Docs
  BY DEF TypeOK
<1>5. ASSUME NEW r \in Reapers, op[r].pc = "rp_mark" PROVE op[r].doc # d
  <2>1. ReaperOK(r)
    BY DEF CalmInv
  <2> QED BY <1>3, <1>5, <2>1 DEF ReaperOK, Claiming, Waits, Standing
<1>6. ~\E i \in Ids : cand[i].doc = d /\ cand[i].state = "staged"
  BY <1>3 DEF Waits, Standing
<1>7. ASSUME NEW f, doc' = [doc EXCEPT ![d] = f],
             \A b \in Actors \ {o} : op'[b] = op[b], OperatorOK(o)',
             f # "absent", Exists(d),
             f = owner[d] \/ Handles(o, d)'
      PROVE  CalmInv'
  <2>1. doc'[d] = f /\ \A e \in Docs \ {d} : doc'[e] = doc[e] /\ trash'[e] = trash[e]
    BY <1>1, <1>4, <1>7, <1>2
  <2>2. \A e \in Docs : excl'[e] # "deleted_with_remember"
    BY <1>1 DEF CalmInv, DocOK
  <2>3. trash'[d] = "none"
    BY <1>1, <1>2, <1>7 DEF DocOK
  <2>4. AsOwned(d)' \/ Handles(o, d)'
    BY <1>1, <1>7, <2>1 DEF AsOwned
  <2>5. \A e \in Docs \ {d} : ~Handles(o, e)
    BY <1>2 DEF Handles
  <2> QED BY <1>1, <1>2, <1>5, <1>6, <1>7, <1>k, <2>1, <2>2, <2>3, <2>4, <2>5, DocCalm
<1>8. ASSUME UNCHANGED doc, ~Exists(d), \A b \in Actors \ {o} : op'[b] = op[b], OperatorOK(o)'
      PROVE  CalmInv'
  <2>1. \A e \in Docs : Handles(o, e) => AsOwned(e)
    BY <1>2, <1>8 DEF Handles, AsOwned
  <2> QED BY <1>1, <1>8, <1>k, <2>1, OnlyOpCalm
<1>9. CASE Finish(o)
  <2>1. (\A b \in Actors \ {o} : op'[b] = op[b]) /\ op'[o].pc = "idle" /\ op'[o].arg = "none"
    BY <1>k, <1>9, OpFields DEF TypeOK
  <2>2. OperatorOK(o)'
    BY <2>1 DEF OperatorOK, Hiding, RestorePCs
  <2>3. op[o].pc = "st_unhide" => owner[d] = "visible"
    BY <1>2, <1>3 DEF OperatorOK, Flag
  <2>4. \/ UNCHANGED doc /\ ~Exists(d) /\ op[o].pc # "rs_show"
        \/ Exists(d) /\ doc' = [doc EXCEPT ![d] = owner[d]]
    <3>1. ~Fault
      BY DEF CalmInv, Fault
    <3>2. ~Goto(o, "st_mark") /\ ~Goto(o, "rs_reopen")
      BY <1>k, <2>1, OpFields DEF TypeOK, PCs, StagePCs, RestorePCs
    <3> QED BY <1>2, <1>3, <2>3, <3>1, <3>2 DEF Hide, UnhideLostRace, ShowAgain
  <2>5. owner[d] # "absent"
    BY <1>2, Known DEF Flags
  <2>6. Exists(d) => doc'[d] = owner[d] \/ op[o].pc # "rs_show"
    BY <1>2, <1>4, <2>4
  <2> QED BY <1>2, <1>4, <1>7, <1>8, <2>1, <2>2, <2>4, <2>5, <2>6
<1>10. CASE ~Finish(o) /\ Hide(o)
  <2>1. Exists(d) /\ doc' = [doc EXCEPT ![d] = "hidden"] /\ Goto(o, "st_mark")
    BY <1>2, <1>10 DEF Hide, CalmInv, Fault
  <2>2. /\ \A b \in Actors \ {o} : op'[b] = op[b]
        /\ op'[o].pc = "st_mark" /\ op'[o].id = op[o].id /\ op'[o].doc = d
        /\ op'[o].prev = op[o].prev /\ op'[o].arg = op[o].arg
    BY <1>2, <1>k, <2>1, OpFields DEF TypeOK, PCs, StagePCs
  <2>3. trash[d] = "none"
    BY <1>2, <2>1 DEF DocOK
  <2>4. doc'[d] = "hidden"
    BY <1>2, <1>4, <2>1
  <2>5. op[o].pc = "st_hide"
    BY <1>10 DEF Hide
  <2>6. OperatorOK(o)'
    BY <1>1, <1>2, <1>3, <2>2, <2>3, <2>4, <2>5 DEF OperatorOK, StagePCs, Hiding, RestorePCs, Waits, Standing
  <2>7. Handles(o, d)'
    BY <2>2 DEF Handles
  <2> QED BY <1>7, <2>1, <2>2, <2>5, <2>6, <2>7
<1>11. CASE ~Finish(o) /\ ShowAgain(o)
  <2>1. ~Exists(d) /\ UNCHANGED doc /\ Goto(o, "rs_reopen") /\ op[o].pc = "rs_show"
    BY <1>2, <1>11 DEF ShowAgain, CalmInv, Fault
  <2>2. /\ \A b \in Actors \ {o} : op'[b] = op[b]
        /\ op'[o].pc = "rs_reopen" /\ op'[o].id = op[o].id /\ op'[o].doc = d
        /\ op'[o].prev = op[o].prev /\ op'[o].arg = op[o].arg
    BY <1>2, <1>k, <2>1, OpFields DEF TypeOK, PCs, RestorePCs
  <2>3. OperatorOK(o)'
    BY <1>1, <1>2, <1>3, <2>1, <2>2
       DEF OperatorOK, StagePCs, Hiding, RestorePCs, Waits, Standing, Exists
  <2> QED BY <1>8, <2>1, <2>2, <2>3
<1> QED BY <1>9, <1>10, <1>11 DEF UnhideLostRace

(***************************************************************************)
(* The operator writes rows.                                               *)
(***************************************************************************)
LEMMA MarkStagedCalm ==
  ASSUME Undisturbed, TypeOK, CalmInv, OneOpenRow', NEW o \in Operators, MarkStaged(o)
  PROVE  CalmInv'
<1>k. o \in Actors /\ o \notin Reapers /\ o \notin Scanners /\ Operators = {o}
  BY ConstantsOK DEF Actors, Undisturbed
<1>1. UNCHANGED <<doc, excl, trash, faults, crawls, owner>> /\ op[o].pc = "st_mark"
  BY DEF MarkStaged, OnlyOpCand
<1>2. PICK i \in Ids, d \in Docs : i = op[o].id /\ d = op[o].doc
  BY <1>1, Known
<1>3. OperatorOK(o) /\ RowOK(i)
  BY DEF CalmInv
<1>4. /\ ~Waits(d) /\ cand[i].doc = d /\ Flag(op[o].prev) = owner[d]
      /\ doc[d] # "visible" /\ trash[d] = "none" /\ op[o].arg # "yes"
  BY <1>1, <1>2, <1>3 DEF OperatorOK, Hiding
<1>5. CASE cand[i].state = "candidate"
  <2>1. /\ cand' = [cand EXCEPT ![i] = StagedRow(@, op[o].prev)]
        /\ Finish(o) \/ Goto(o, "st_rem")
    BY <1>2, <1>5 DEF MarkStaged
  <2>2. /\ cand'[i] = StagedRow(cand[i], op[o].prev)
        /\ \A j \in Ids \ {i} : cand'[j] = cand[j]
    BY <2>1, Known
  <2>3. /\ cand'[i].state = "staged" /\ cand'[i].doc = d /\ cand'[i].prev = op[o].prev
        /\ cand'[i].remember = cand[i].remember
    BY <1>k, <1>4, <2>2, Known, RowFields
  <2>4. RowOK(i)'
    BY <1>1, <1>3, <1>4, <2>3 DEF RowOK
  <2>5. /\ \A b \in Actors \ {o} : op'[b] = op[b]
        /\ op'[o].pc \in {"idle", "st_rem"} /\ op'[o].arg # "yes"
        /\ op'[o].pc # "idle" => op'[o].id = i /\ op'[o].doc = d
    BY <1>k, <1>2, <1>4, <2>1, OpFields DEF TypeOK, PCs, StagePCs
  <2>6. OperatorOK(o)'
    BY <2>3, <2>5 DEF OperatorOK, Hiding, RestorePCs, StagePCs
  <2>7. Waits(d)'
    BY <2>3 DEF Waits, Standing
  <2>8. \A e \in Docs : Handles(o, e) => Waits(e)'
    BY <1>2, <2>7 DEF Handles
  <2>9. ~Standing(i) /\ \A r \in Reapers : ~Claims(r, i)
    BY <1>5 DEF CalmInv, ReaperOK, Claims, Claiming, Standing
  <2> QED BY <1>1, <1>4, <1>5, <1>k, <2>2, <2>3, <2>4, <2>5, <2>6, <2>8, <2>9, RowCalm
<1>6. CASE cand[i].state # "candidate"
  <2>1. UNCHANGED cand /\ Goto(o, "st_check")
    BY <1>2, <1>6 DEF MarkStaged
  <2>2. /\ \A b \in Actors \ {o} : op'[b] = op[b]
        /\ op'[o].pc = "st_check" /\ op'[o].id = op[o].id /\ op'[o].doc = op[o].doc
        /\ op'[o].prev = op[o].prev /\ op'[o].arg = op[o].arg
    BY <1>k, <2>1, OpFields DEF TypeOK, PCs, StagePCs
  <2>3. OperatorOK(o)'
    BY <1>1, <1>3, <2>1, <2>2 DEF OperatorOK, StagePCs, Hiding, RestorePCs, Waits, Standing
  <2>4. \A e \in Docs : Handles(o, e) => Handles(o, e)'
    BY <2>2 DEF Handles
  <2> QED BY <1>1, <1>k, <2>1, <2>2, <2>3, <2>4, OnlyOpCalm
<1> QED BY <1>5, <1>6

\* The handlers that end with the row, or go on to show the document.
LEMMA LeaveCalm ==
  ASSUME Undisturbed, TypeOK, CalmInv, OneOpenRow', NEW o \in Operators,
         \/ MarkRestored(o) \/ Reopen(o) \/ MarkDismissed(o) \/ SetRemember(o) \/ ExpediteStaged(o)
  PROVE  CalmInv'
<1>k. o \in Actors /\ o \notin Reapers /\ o \notin Scanners /\ Operators = {o}
  BY ConstantsOK DEF Actors, Undisturbed
<1>1. /\ UNCHANGED <<doc, excl, trash, faults, crawls, owner>>
      /\ op[o].pc \in {"rs_mark", "rs_reopen", "dm_mark", "st_rem", "ex_mark"}
  BY DEF MarkRestored, Reopen, MarkDismissed, SetRemember, ExpediteStaged, OnlyOpCand
<1>2. PICK i \in Ids, d \in Docs : i = op[o].id /\ d = op[o].doc
  BY <1>1, Known
<1>3. OperatorOK(o) /\ RowOK(i) /\ cand[i].doc = d /\ cand[i].state # "none" /\ op[o].arg # "yes"
  BY <1>1, <1>2 DEF CalmInv, OperatorOK
<1>4. \A e \in Docs : ~Handles(o, e)
  BY <1>1 DEF Handles
<1>5. ASSUME Finish(o)
      PROVE  (\A b \in Actors \ {o} : op'[b] = op[b]) /\ OperatorOK(o)'
  <2>1. (\A b \in Actors \ {o} : op'[b] = op[b]) /\ op'[o].pc = "idle" /\ op'[o].arg = "none"
    BY <1>k, <1>5, OpFields DEF TypeOK
  <2> QED BY <2>1 DEF OperatorOK, Hiding, RestorePCs
<1>6. ASSUME UNCHANGED cand, Finish(o) PROVE CalmInv'
  BY <1>1, <1>4, <1>5, <1>6, <1>k, OnlyOpCalm
<1>7. ASSUME NEW new, cand' = [cand EXCEPT ![i] = new], Finish(o), RowOK(i)',
             new.doc = d, new.state = cand[i].state, new.prev = cand[i].prev
      PROVE  CalmInv'
  <2>1. cand'[i] = new /\ \A j \in Ids \ {i} : cand'[j] = cand[j]
    BY <1>7, Known
  <2>2. \A r \in Reapers : Claims(r, i) => cand'[i].state = "deleting"
    BY <1>7, <2>1 DEF CalmInv, ReaperOK, Claims
  <2>3. Standing(i)' <=> Standing(i)
    BY <1>7, <2>1 DEF Standing
  <2> QED BY <1>1, <1>3, <1>4, <1>5, <1>7, <1>k, <2>1, <2>2, <2>3, RowCalm
<1>8. CASE SetRemember(o) \/ ExpediteStaged(o)
  <2>1. \/ /\ cand[i].state = "staged" /\ Finish(o)
           /\ \/ cand' = [cand EXCEPT ![i] = [cand[i] EXCEPT !.remember = FALSE]]
              \/ cand' = [cand EXCEPT ![i] = [cand[i] EXCEPT !.due = TRUE, !.remember = FALSE]]
        \/ UNCHANGED cand /\ Finish(o)
    BY <1>2, <1>3, <1>8 DEF SetRemember, ExpediteStaged
  <2>2. ASSUME NEW new \in {[cand[i] EXCEPT !.remember = FALSE],
                            [cand[i] EXCEPT !.due = TRUE, !.remember = FALSE]},
               cand[i].state = "staged", cand' = [cand EXCEPT ![i] = new]
        PROVE  /\ RowOK(i)'
               /\ new.doc = d /\ new.state = cand[i].state /\ new.prev = cand[i].prev
    <3>1. /\ new.doc = d /\ new.state = cand[i].state /\ new.prev = cand[i].prev
          /\ ~new.remember
      <4>1. cand[i] \in Row
        BY Known
      <4> QED BY <1>3, <2>2, <4>1 DEF Row
    <3>2. cand'[i] = new
      BY <2>2, Known
    <3> QED BY <1>1, <1>3, <2>2, <3>1, <3>2 DEF RowOK
  <2> QED BY <1>6, <1>7, <2>1, <2>2
<1>9. CASE MarkDismissed(o) /\ cand[i].state = "candidate"
  <2>1. cand' = [cand EXCEPT ![i].state = "dismissed"] /\ Finish(o)
    BY <1>2, <1>3, <1>9 DEF MarkDismissed
  <2>2. /\ cand'[i].state = "dismissed" /\ cand'[i].doc = d /\ ~cand'[i].remember
        /\ \A j \in Ids \ {i} : cand'[j] = cand[j]
    BY <1>3, <2>1, Known, RowFields DEF RowStates, OpenStates, RowOK
  <2>3. RowOK(i)'
    BY <2>2 DEF RowOK
  <2>4. ~Standing(i) /\ ~Standing(i)' /\ \A r \in Reapers : ~Claims(r, i)
    BY <1>9, <2>2 DEF CalmInv, ReaperOK, Claims, Claiming, Standing
  <2> QED BY <1>1, <1>3, <1>4, <1>5, <1>9, <1>k, <2>1, <2>2, <2>3, <2>4, RowCalm
<1>10. CASE Reopen(o) /\ cand[i].state = "restored" /\ ~OpenRow(cand[i].doc)
  <2>1. cand' = [cand EXCEPT ![i].state = "staged"] /\ Finish(o) /\ op[o].pc = "rs_reopen"
    BY <1>2, <1>10 DEF Reopen
  <2>2. /\ cand'[i].state = "staged" /\ cand'[i].doc = d /\ ~cand'[i].remember
        /\ cand'[i].prev = cand[i].prev
        /\ \A j \in Ids \ {i} : cand'[j] = cand[j]
    BY <1>3, <2>1, Known, RowFields DEF RowStates, OpenStates, RowOK
  <2>3. trash[d] = "none" /\ doc[d] # "visible"
    BY <1>2, <1>3, <2>1 DEF OperatorOK, Exists
  <2>4. RowOK(i)'
    BY <1>1, <1>3, <1>10, <2>2, <2>3 DEF RowOK
  <2>5. ~Standing(i) /\ Standing(i)' /\ \A r \in Reapers : ~Claims(r, i)
    BY <1>10, <2>2 DEF CalmInv, ReaperOK, Claims, Claiming, Standing
  <2> QED BY <1>1, <1>3, <1>4, <1>5, <1>10, <1>k, <2>1, <2>2, <2>4, <2>5, RowCalm
<1>11. CASE MarkRestored(o) /\ cand[i].state = "staged"
  <2>1. cand' = [cand EXCEPT ![i].state = "restored"] /\ Goto(o, "rs_show") /\ op[o].pc = "rs_mark"
    BY <1>2, <1>11 DEF MarkRestored
  <2>2. /\ cand'[i].state = "restored" /\ cand'[i].doc = d /\ ~cand'[i].remember
        /\ cand'[i].prev = cand[i].prev
        /\ \A j \in Ids \ {i} : cand'[j] = cand[j]
    BY <1>3, <2>1, Known, RowFields DEF RowStates, OpenStates, RowOK
  <2>3. RowOK(i)'
    BY <1>1, <1>3, <1>11, <2>2 DEF RowOK
  <2>4. /\ \A b \in Actors \ {o} : op'[b] = op[b]
        /\ op'[o].pc = "rs_show" /\ op'[o].id = i /\ op'[o].doc = d
        /\ op'[o].prev = op[o].prev /\ op'[o].arg = op[o].arg
    BY <1>k, <1>2, <2>1, OpFields DEF TypeOK, PCs, RestorePCs
  <2>5. trash[d] = "none"
    BY <1>3, <1>11 DEF RowOK
  <2>6. ~Waits(d)'
    BY <1>3, <1>11, <2>2 DEF CalmInv, OneOpenRow, IsOpen, OpenStates, Waits, Standing
  <2>7. Flag(op[o].prev) = owner[d]
    BY <1>2, <1>3, <2>1 DEF OperatorOK, RestorePCs
  <2>8. OperatorOK(o)'
    BY <1>1, <1>3, <2>2, <2>4, <2>5, <2>6, <2>7 DEF OperatorOK, StagePCs, Hiding, RestorePCs
  <2>9. Standing(i) /\ ~Standing(i)' /\ Handles(o, cand[i].doc)' /\ \A r \in Reapers : ~Claims(r, i)
    BY <1>3, <1>11, <2>2, <2>4 DEF CalmInv, ReaperOK, Claims, Claiming, Standing, Handles
  <2> QED BY <1>1, <1>3, <1>4, <1>11, <1>k, <2>2, <2>3, <2>4, <2>8, <2>9, RowCalm
<1> QED BY <1>2, <1>6, <1>8, <1>9, <1>10, <1>11 DEF MarkRestored, Reopen, MarkDismissed

(***************************************************************************)
(* The reapers.                                                            *)
(***************************************************************************)
LEMMA ReaperReadsCalm ==
  ASSUME TypeOK, CalmInv, NEW r \in Reapers,
         Capture(r) \/ \E i \in Ids : ListDue(r, i)
  PROVE  CalmInv'
<1>k. r \in Actors /\ r \notin Operators /\ r \notin Scanners
  BY ConstantsOK DEF Actors
<1>1. ReaperOK(r)
  BY DEF CalmInv
<1>2. ASSUME NEW i \in Ids, ListDue(r, i) PROVE CalmInv'
  <2>1. /\ \A b \in Actors \ {r} : op'[b] = op[b]
        /\ op[r].pc = "idle" /\ op'[r].pc = "rp_claim" /\ op'[r].id = i /\ op'[r].doc = cand[i].doc
        /\ op'[r].prev = cand[i].prev /\ op'[r].arg = Remembered(i)
        /\ UNCHANGED <<doc, cand, excl, trash, faults, crawls, owner>>
    <3>1. cand[i].prev \in BOOLEAN /\ "rp_claim" \in PCs
      BY DEF TypeOK, Row, PCs, ReapPCs
    <3>2. Begin(r, "rp_claim", i, cand[i].prev, Remembered(i))
      BY <1>2 DEF ListDue
    <3> QED BY <1>k, <3>1, <3>2, Known, OpFields
  <2>2. cand[i].state = "staged" /\ ~cand[i].remember
    BY <1>2 DEF ListDue, CalmInv, RowOK
  <2>3. ReaperOK(r)'
    BY <2>1, <2>2 DEF ReaperOK, Claiming, Remembered
  <2> QED BY <1>k, <2>1, <2>3, OnlyOpCalm DEF Claiming
<1>3. CASE Capture(r)
  <2>1. /\ UNCHANGED <<doc, cand, excl, trash, faults, crawls, owner>>
        /\ op[r].pc = "rp_capture"
        /\ \/ Goto(r, "rp_commit")
           \/ Goto(r, "rp_mark") /\ ~Exists(op[r].doc)
    BY <1>3 DEF Capture, CalmInv, Fault
  <2>2. /\ \A b \in Actors \ {r} : op'[b] = op[b]
        /\ op'[r].pc \in {"rp_commit", "rp_mark"} /\ op'[r].id = op[r].id /\ op'[r].doc = op[r].doc
        /\ op'[r].prev = op[r].prev /\ op'[r].arg = op[r].arg
        /\ op'[r].pc = "rp_mark" => ~Exists(op[r].doc)
    BY <1>k, <2>1, OpFields DEF TypeOK, PCs, ReapPCs
  <2>3. ReaperOK(r)'
    BY <1>1, <2>1, <2>2 DEF ReaperOK, Claiming, AsOwned, Exists
  <2> QED BY <1>k, <2>1, <2>2, <2>3, OnlyOpCalm DEF Claiming
<1> QED BY <1>2, <1>3

LEMMA ClaimCalm ==
  ASSUME TypeOK, CalmInv, OneOpenRow', NEW r \in Reapers,
         ClaimForDeletion(r) \/ (MarkDeleted(r) /\ op[r].pc = "rp_mark")
  PROVE  CalmInv'
<1>k. r \in Actors /\ r \notin Operators /\ r \notin Scanners
  BY ConstantsOK DEF Actors
<1>1. UNCHANGED <<doc, excl, trash, faults, crawls, owner>> /\ op[r].pc \in {"rp_claim", "rp_mark"}
  BY DEF ClaimForDeletion, MarkDeleted, OnlyOpCand, CalmInv, Fault
<1>2. PICK i \in Ids, d \in Docs : i = op[r].id /\ d = op[r].doc
  BY <1>1, Known
<1>3. /\ ReaperOK(r) /\ RowOK(i) /\ cand[i].doc = d /\ cand[i].prev = op[r].prev
      /\ cand[i].state \notin {"none", "candidate"} /\ op[r].arg # "yes"
  BY <1>1, <1>2 DEF CalmInv, ReaperOK
<1>4. ASSUME Finish(r)
      PROVE  (\A b \in Actors \ {r} : op'[b] = op[b]) /\ ReaperOK(r)' /\ op'[r].pc = "idle"
  <2>1. (\A b \in Actors \ {r} : op'[b] = op[b]) /\ op'[r].pc = "idle"
    BY <1>k, <1>4, OpFields DEF TypeOK
  <2> QED BY <2>1 DEF ReaperOK, Claiming
<1>5. CASE ClaimForDeletion(r) /\ cand[i].state = "staged" /\ cand[i].due
  <2>1. /\ cand' = [cand EXCEPT ![i] = [cand[i] EXCEPT !.state = "deleting", !.old = FALSE]]
        /\ Goto(r, "rp_capture") /\ op[r].pc = "rp_claim"
    BY <1>2, <1>5 DEF ClaimForDeletion
  <2>2. /\ cand'[i].state = "deleting" /\ cand'[i].doc = d /\ cand'[i].prev = cand[i].prev
        /\ cand'[i].due /\ ~cand'[i].old /\ ~cand'[i].remember
        /\ \A j \in Ids \ {i} : cand'[j] = cand[j]
    BY <1>3, <1>5, <2>1, Known DEF Row, RowOK
  <2>3. /\ \A b \in Actors \ {r} : op'[b] = op[b]
        /\ op'[r].pc = "rp_capture" /\ op'[r].id = i /\ op'[r].doc = d
        /\ op'[r].prev = op[r].prev /\ op'[r].arg = op[r].arg
    BY <1>k, <1>2, <2>1, OpFields DEF TypeOK, PCs, ReapPCs
  <2>4. Claims(r, i)'
    BY <2>3 DEF Claims, Claiming
  <2>5. RowOK(i)'
    BY <1>1, <1>3, <1>5, <2>2, <2>4 DEF RowOK
  <2>6. ReaperOK(r)'
    BY <1>3, <2>2, <2>3 DEF ReaperOK, Claiming
  <2>7. \A q \in Reapers : ~Claims(q, i)
    BY <1>5 DEF CalmInv, ReaperOK, Claims
  <2>8. Standing(i) /\ Standing(i)' /\ op[r].pc \notin Claiming /\ op'[r].id = i
    BY <1>5, <2>1, <2>2, <2>3 DEF Standing, Claiming
  <2> QED BY <1>1, <1>3, <1>5, <1>k, <2>2, <2>3, <2>5, <2>6, <2>7, <2>8, RowCalm
<1>6. CASE ClaimForDeletion(r) /\ ~(cand[i].state = "staged" /\ cand[i].due)
  <2>1. UNCHANGED cand /\ Finish(r) /\ op[r].pc = "rp_claim"
    BY <1>2, <1>6 DEF ClaimForDeletion
  <2> QED BY <1>1, <1>4, <1>k, <2>1, OnlyOpCalm DEF Claiming
<1>7. CASE MarkDeleted(r) /\ op[r].pc = "rp_mark"
  <2>1. /\ cand' = [cand EXCEPT ![i].state = "deleted"] /\ Finish(r) /\ cand[i].state = "deleting"
        /\ AsOwned(d)
    BY <1>2, <1>3, <1>7 DEF MarkDeleted, CalmInv, Fault, ReaperOK, Claiming
  <2>2. /\ cand'[i].state = "deleted" /\ cand'[i].doc = d /\ cand'[i].prev = cand[i].prev
        /\ ~cand'[i].remember
        /\ \A j \in Ids \ {i} : cand'[j] = cand[j]
    BY <1>3, <2>1, Known DEF Row, RowOK
  <2>3. RowOK(i)'
    BY <1>3, <2>2 DEF RowOK
  <2>4. \A q \in Reapers \ {r} : ~Claims(q, i)
    BY <1>2, <1>7 DEF CalmInv, OneClaim, Claims, Claiming
  <2>5. Standing(i) /\ ~Standing(i)' /\ op'[r].pc \notin Claiming
    BY <1>4, <2>1, <2>2 DEF Standing, Claiming
  <2> QED BY <1>1, <1>2, <1>3, <1>4, <1>k, <2>1, <2>2, <2>3, <2>4, <2>5, RowCalm
<1> QED BY <1>5, <1>6, <1>7

LEMMA CascadeCalm ==
  ASSUME TypeOK, CalmInv, NEW r \in Reapers, TrashAndDelete(r)
  PROVE  CalmInv'
<1>k. r \in Actors /\ r \notin Operators /\ r \notin Scanners
  BY ConstantsOK DEF Actors
<1>1. /\ UNCHANGED <<cand, excl, crawls, owner, faults>> /\ op[r].pc = "rp_commit"
      /\ Goto(r, "rp_mark")
  BY DEF TrashAndDelete, CalmInv, Fault
<1>2. PICK i \in Ids, d \in Docs : i = op[r].id /\ d = op[r].doc
  BY <1>1, Known
<1>3. /\ ReaperOK(r) /\ RowOK(i) /\ cand[i].doc = d /\ cand[i].prev = op[r].prev
      /\ cand[i].state = "deleting" /\ Flag(op[r].prev) = owner[d]
  BY <1>1, <1>2 DEF CalmInv, ReaperOK, RowOK, Claiming
<1>4. /\ \A b \in Actors \ {r} : op'[b] = op[b]
      /\ op'[r].pc = "rp_mark" /\ op'[r].id = i /\ op'[r].doc = d
      /\ op'[r].prev = op[r].prev /\ op'[r].arg = op[r].arg
  BY <1>k, <1>1, <1>2, OpFields DEF TypeOK, PCs, ReapPCs
<1>5. ~Exists(d)' => ReaperOK(r)'
  BY <1>1, <1>3, <1>4 DEF ReaperOK, Claiming, AsOwned, Exists
<1>6. CASE ~Exists(d) /\ UNCHANGED <<doc, trash>>
  <2>1. ~Exists(d)'
    BY <1>6 DEF Exists
  <2> QED BY <1>1, <1>4, <1>5, <1>6, <1>k, <2>1, <1>2, OnlyOpCalm DEF Claiming
<1>7. CASE /\ trash' = [trash EXCEPT ![d] = Flag(op[r].prev)]
           /\ doc' = [doc EXCEPT ![d] = "absent"]
  <2>1. /\ doc'[d] = "absent" /\ trash'[d] = owner[d]
        /\ \A e \in Docs \ {d} : doc'[e] = doc[e] /\ trash'[e] = trash[e]
    BY <1>3, <1>7 DEF TypeOK
  <2>2. ~Exists(d)' /\ AsOwned(d)'
    BY <2>1 DEF Exists, AsOwned
  <2>3. Waits(d)
    BY <1>3 DEF Waits, Standing
  <2>4. ~\E j \in Ids : cand[j].doc = d /\ cand[j].state = "staged"
    BY <1>3 DEF CalmInv, OneOpenRow, IsOpen, OpenStates
  <2>5. ASSUME NEW o \in Operators, op[o].pc # "idle", op[o].doc = d PROVE OperatorOK(o)'
    <3>1. OperatorOK(o) /\ op'[o] = op[o] /\ op[o].pc \notin Hiding \cup {"st_read", "rs_show", "rs_reopen"}
      BY <1>4, <1>k, <2>3, <2>5 DEF CalmInv, OperatorOK, Actors
    <3> QED BY <1>1, <2>5, <3>1 DEF OperatorOK, Hiding, RestorePCs
  <2>6. \A e \in Docs : excl'[e] # "deleted_with_remember"
    BY <1>1 DEF CalmInv, DocOK
  <2> QED BY <1>1, <1>4, <1>5, <1>k, <1>2, <2>1, <2>2, <2>4, <2>5, <2>6, DocCalm DEF Claiming
<1> QED BY <1>2, <1>6, <1>7 DEF TrashAndDelete, CalmInv, Fault

\* Nothing is stuck, nothing is remembered: the rest of the cycle has no work.
LEMMA ReaperCalm ==
  ASSUME Undisturbed, TypeOK, CalmInv, OneOpenRow', NEW r \in Reapers, ReaperPicks(r) \/ ReaperSteps(r)
  PROVE  CalmInv'
<1>1. ReaperOK(r)
  BY DEF CalmInv
<1>2. \A i \in Ids : ~ListStuck(r, i)
  BY DEF ListStuck, CalmInv, RowOK
<1>3. \A d \in Docs : ~FindRecrawled(r, d)
  BY DEF FindRecrawled, CalmInv, DocOK
<1>4. op[r].pc \in {"idle", "rp_claim", "rp_capture", "rp_commit", "rp_mark"}
  BY <1>1 DEF ReaperOK, Claiming
<1>5. /\ ~StageSteps(r) /\ ~UnclaimDeletion(r) /\ ~RememberExclusion(r) /\ ~CheckExists(r)
      /\ ~InsertRestage(r) /\ op[r].pc # "rc_mark"
  BY <1>4 DEF StageSteps, ReadHidden, Hide, MarkStaged, CheckLostRace, UnhideLostRace, SetRemember,
     UnclaimDeletion, RememberExclusion, CheckExists, InsertRestage
<1>6. MarkDeleted(r) => op[r].pc = "rp_mark"
  BY <1>5 DEF MarkDeleted
<1> QED BY <1>2, <1>3, <1>5, <1>6, ReaperReadsCalm, ClaimCalm, CascadeCalm DEF ReaperPicks, ReaperSteps

(***************************************************************************)
(* The scanners and the rest of the world.                                 *)
(***************************************************************************)
LEMMA ScannerCalm ==
  ASSUME TypeOK, CalmInv, OneOpenRow', NEW s \in Scanners, ScannerPicks(s) \/ ScannerSteps(s)
  PROVE  CalmInv'
<1>k. s \in Actors /\ s \notin Operators /\ s \notin Reapers
  BY ConstantsOK DEF Actors
<1>1. ASSUME NEW d \in Docs, ScanReadsExclusions(s, d) PROVE CalmInv'
  <2>1. /\ \A b \in Actors \ {s} : op'[b] = op[b]
        /\ op'[s].doc = d
        /\ UNCHANGED <<doc, cand, excl, trash, faults, crawls, owner>>
    BY <1>k, <1>1, OpFields DEF ScanReadsExclusions, TypeOK
  <2> QED BY <1>k, <2>1, OnlyOpCalm
<1>2. CASE ScanReadsOpenRows(s)
  <2>1. UNCHANGED <<doc, cand, excl, trash, faults, crawls, owner>> /\ op[s].pc = "sc_open"
    BY <1>2 DEF ScanReadsOpenRows, OnlyOp
  <2>2. /\ \A b \in Actors \ {s} : op'[b] = op[b]
        /\ op'[s].pc = "idle" \/ op'[s].doc = op[s].doc
    BY <1>k, <1>2, OpFields DEF ScanReadsOpenRows, TypeOK, PCs, ScanPCs
  <2>3. op[s].doc \in Docs
    BY <2>1 DEF CalmInv
  <2> QED BY <1>k, <2>1, <2>2, <2>3, OnlyOpCalm
<1>3. CASE ScanInserts(s)
  <2>1. UNCHANGED <<doc, excl, trash, faults, crawls, owner>> /\ op[s].doc \in Docs
    BY <1>3 DEF ScanInserts, OnlyOpCand, CalmInv
  <2>2. (\A b \in Actors \ {s} : op'[b] = op[b]) /\ op'[s].pc = "idle"
    BY <1>k, <1>3, OpFields DEF ScanInserts, TypeOK
  <2>3. CASE UNCHANGED cand
    BY <1>k, <2>1, <2>2, <2>3, OnlyOpCalm
  <2>4. ASSUME NEW i \in Ids, FreeId(i), cand' = [cand EXCEPT ![i] = Opened(op[s].doc)]
        PROVE  CalmInv'
    <3>1. cand'[i] = Opened(op[s].doc) /\ \A j \in Ids \ {i} : cand'[j] = cand[j]
      BY <2>4, Known
    <3>2. cand'[i].state = "candidate" /\ cand'[i].doc = op[s].doc /\ ~cand'[i].remember
      BY <2>4, <3>1, Known, RowFields
    <3>3. RowOK(i)'
      BY <2>1, <3>2 DEF RowOK
    <3>4. ~Standing(i) /\ ~Standing(i)' /\ \A r \in Reapers : ~Claims(r, i)
      BY <2>4, <3>2 DEF FreeId, Standing, CalmInv, ReaperOK, Claims, Claiming
    <3> QED BY <1>k, <2>1, <2>2, <2>4, <3>1, <3>2, <3>3, <3>4, RowCalm DEF FreeId
  <2> QED BY <1>3, <2>3, <2>4 DEF ScanInserts
<1>4. ASSUME NEW i \in Ids, CloseStale(s, i) PROVE CalmInv'
  <2>1. /\ cand[i].state = "candidate" /\ cand' = [cand EXCEPT ![i].state = "dismissed"]
        /\ UNCHANGED <<op, doc, excl, trash, faults, crawls, owner>>
    BY <1>4 DEF CloseStale
  <2>2. RowOK(i)
    BY DEF CalmInv
  <2>3. /\ cand'[i].state = "dismissed" /\ cand'[i].doc = cand[i].doc /\ ~cand'[i].remember
        /\ \A j \in Ids \ {i} : cand'[j] = cand[j]
    BY <2>1, <2>2, Known DEF Row, RowOK
  <2>4. RowOK(i)'
    BY <2>1, <2>2, <2>3 DEF RowOK
  <2>5. ~Standing(i) /\ ~Standing(i)' /\ \A r \in Reapers : ~Claims(r, i)
    BY <2>1, <2>3 DEF CalmInv, ReaperOK, Claims, Claiming, Standing
  <2>6. op'[s].pc # "idle" => op'[s].doc \in Docs
    BY <2>1 DEF CalmInv
  <2> QED BY <1>k, <2>1, <2>3, <2>4, <2>5, <2>6, RowCalm
<1> QED BY <1>1, <1>2, <1>3, <1>4 DEF ScannerPicks, ScannerSteps

LEMMA WorldCalm ==
  ASSUME Undisturbed, TypeOK, CalmInv, OneOpenRow', World
  PROVE  CalmInv'
<1>k. PICK a : a \notin Actors
  BY NoSetContainsEverything
<1>a. a \notin Operators /\ a \notin Reapers /\ a \notin Scanners
  BY <1>k DEF Actors
<1>t. DOMAIN doc = Docs /\ DOMAIN trash = Docs /\ DOMAIN excl = Docs
  BY DEF TypeOK
<1>1. ASSUME NEW d \in Docs, RemoveDocument(d) PROVE CalmInv'
  <2>1. /\ doc'[d] = "absent" /\ \A e \in Docs \ {d} : doc'[e] = doc[e]
        /\ UNCHANGED <<op, cand, excl, trash, faults, crawls, owner>> /\ Exists(d)
    BY <1>1, <1>t DEF RemoveDocument
  <2>2. ~Exists(d)' /\ AsOwned(d)'
    BY <2>1 DEF Exists, AsOwned
  <2>3. DocOK(d) /\ \A e \in Docs : DocOK(e)
    BY DEF CalmInv
  <2>4. trash'[d] = "none" /\ \A e \in Docs : excl'[e] # "deleted_with_remember"
    BY <2>1, <2>3 DEF DocOK
  <2>5. ASSUME NEW o \in Operators, op[o].pc # "idle", op[o].doc = d PROVE OperatorOK(o)'
    <3>1. OperatorOK(o)
      BY DEF CalmInv
    <3> QED BY <2>1, <2>2, <2>5, <3>1 DEF OperatorOK, Waits, Standing
  <2> QED BY <1>a, <2>1, <2>2, <2>4, <2>5, DocCalm
<1>2. ASSUME NEW d \in Docs, RestoreFromTrash(d) \/ PurgeTrash(d) PROVE CalmInv'
  <2>1. /\ trash[d] # "none" /\ trash'[d] = "none"
        /\ \A e \in Docs \ {d} : doc'[e] = doc[e] /\ trash'[e] = trash[e]
        /\ doc'[d] = doc[d] \/ doc'[d] = trash[d]
        /\ UNCHANGED <<op, cand, excl, faults, crawls, owner>>
    BY <1>2, <1>t DEF RestoreFromTrash, PurgeTrash
  <2>2. ~Exists(d) /\ trash[d] = owner[d] /\ \A e \in Docs : excl'[e] # "deleted_with_remember"
    BY <2>1 DEF CalmInv, DocOK
  <2>3. AsOwned(d)'
    BY <2>1, <2>2 DEF AsOwned, Exists
  <2>4. ~\E i \in Ids : cand[i].doc = d /\ cand[i].state = "staged"
    BY <2>1 DEF CalmInv, RowOK
  <2>5. ASSUME NEW o \in Operators, op[o].pc # "idle", op[o].doc = d PROVE OperatorOK(o)'
    <3>1. OperatorOK(o) /\ op[o].pc \notin {"st_mark", "st_check", "rs_show", "rs_reopen"}
      BY <2>1, <2>5 DEF CalmInv, OperatorOK
    <3> QED BY <2>1, <2>5, <3>1 DEF OperatorOK, Waits, Standing
  <2> QED BY <1>a, <2>1, <2>2, <2>3, <2>4, <2>5, DocCalm
<1>3. ASSUME NEW d \in Docs, DeleteExclusion(d) PROVE CalmInv'
  <2>1. /\ UNCHANGED <<op, cand, doc, trash, faults, crawls, owner>>
        /\ \A e \in Docs : excl'[e] = excl[e] \/ excl'[e] = "none"
    BY <1>3, <1>t DEF DeleteExclusion
  <2>2. /\ \A e \in Docs : excl'[e] # "deleted_with_remember"
        /\ trash'[d] # "none" => ~Exists(d)' /\ trash'[d] = owner[d]
    BY <2>1 DEF CalmInv, DocOK, Exists
  <2>3. ASSUME NEW e \in Docs PROVE DocOK(e)'
    <3>1. DocOK(e)
      BY DEF CalmInv
    <3> QED BY <2>1, <2>2, <3>1 DEF DocOK, Exists, AsOwned, Waits, Standing, Handles
  <2> QED BY <2>1, <2>3 DEF CalmInv, OneOpenRow, IsOpen, RowOK, OperatorOK, ReaperOK, OneClaim, Claims,
         Waits, Standing, AsOwned, Exists
<1>4. ASSUME NEW i \in Ids, GraceElapses(i) PROVE CalmInv'
  <2>1. /\ cand[i].state = "staged" /\ cand' = [cand EXCEPT ![i].due = TRUE]
        /\ UNCHANGED <<op, doc, excl, trash, faults, crawls, owner>>
    BY <1>4 DEF GraceElapses
  <2>2. RowOK(i)
    BY DEF CalmInv
  <2>3. /\ cand'[i].state = "staged" /\ cand'[i].doc = cand[i].doc /\ ~cand'[i].remember
        /\ cand'[i].prev = cand[i].prev
        /\ \A j \in Ids \ {i} : cand'[j] = cand[j]
    BY <2>1, <2>2, Known DEF Row, RowOK
  <2>4. RowOK(i)'
    BY <2>1, <2>2, <2>3 DEF RowOK
  <2>5. Standing(i) /\ Standing(i)' /\ \A r \in Reapers : ~Claims(r, i)
    BY <2>1, <2>3 DEF CalmInv, ReaperOK, Claims, Claiming, Standing
  <2> QED BY <1>a, <2>1, <2>3, <2>4, <2>5, RowCalm
<1>5. ASSUME NEW i \in Ids, ClaimAges(i) PROVE FALSE
  BY <1>5 DEF ClaimAges, CalmInv, RowOK, Claims
<1>6. ASSUME NEW d \in Docs, Crawl(d) \/ \E f \in Flags : PatchHidden(d, f) PROVE FALSE
  BY <1>6 DEF Crawl, PatchHidden, CalmInv, Undisturbed
<1> QED BY <1>1, <1>2, <1>3, <1>4, <1>5, <1>6 DEF World

(***************************************************************************)
(* Every step, and what it does to the unique index.                       *)
(***************************************************************************)
LEMMA CalmClaims ==
  ASSUME CalmInv
  PROVE  ClaimInv
<1>1. \A r \in Reapers : HoldsClaim(r) <=> op[r].pc \in Claiming
  BY DEF CalmInv, ReaperOK, HoldsClaim, Claiming
<1>2. ClaimHeld
  BY <1>1 DEF ClaimHeld, CalmInv, ReaperOK, RowOK, Claiming
<1> QED BY <1>2 DEF ClaimInv, Listed, DeletingIsDue, CalmInv, ReaperOK, RowOK

LEMMA CalmStep ==
  ASSUME Undisturbed, TypeOK, CalmInv, GoneSomehow, [Next]_vars
  PROVE  CalmInv' /\ GoneSomehow'
<1>1. OneOpenRow' /\ GoneSomehow'
  BY CalmClaims, NextMoves, RoomInvStep DEF CalmInv
<1>2. CASE UNCHANGED vars
  <2>1. UNCHANGED <<doc, cand, excl, trash, op, faults, crawls, owner>>
    BY <1>2 DEF vars
  <2> QED BY <1>1, <2>1 DEF CalmInv, OneOpenRow, IsOpen, RowOK, OperatorOK, ReaperOK, OneClaim, Claims,
         Waits, Standing, AsOwned, Exists, DocOK, Handles
<1>3. ASSUME NEW o \in Operators, Requests(o) \/ OperatorSteps(o) PROVE CalmInv'
  <2>1. ~ExcludeForever(o) 
    BY DEF ExcludeForever, CalmInv, OperatorOK, StagePCs, RestorePCs
  <2> QED BY <1>1, <1>3, <2>1, RequestsCalm, ReadsCalm, HideCalm, MarkStagedCalm, LeaveCalm
          DEF OperatorSteps, StageSteps
<1>4. ASSUME NEW a \in Actors, Abort(a) PROVE FALSE
  BY <1>4 DEF Abort, Fault, CalmInv
<1> QED BY <1>1, <1>2, <1>3, <1>4, ReaperCalm, ScannerCalm, WorldCalm DEF Next

LEMMA CalmInit ==
  ASSUME Undisturbed, Init
  PROVE  CalmInv /\ GoneSomehow
<1>1. \A i \in Ids : cand[i].state = "none" /\ ~cand[i].remember
  BY DEF Init, NoRow
<1>2. \A a \in Actors : op[a].pc = "idle" /\ op[a].arg = "none"
  BY DEF Init, Idle
<1>3. \A d \in Docs : Exists(d) /\ AsOwned(d) /\ trash[d] = "none" /\ excl[d] = "none"
  BY DEF Init, Exists, AsOwned, Flags
<1>4. faults = 0 /\ crawls = 0
  BY DEF Init, Undisturbed
<1> QED BY <1>1, <1>2, <1>3, <1>4
        DEF CalmInv, GoneSomehow, OneOpenRow, IsOpen, OpenStates, RowOK, OperatorOK, ReaperOK, DocOK,
            OneClaim, Claiming, Hiding, RestorePCs, Actors

LEMMA CalmInvariant ==
  ASSUME Undisturbed
  PROVE  Spec => [](TypeOK /\ CalmInv)
<1>1. Init => CalmInv /\ GoneSomehow
  BY CalmInit
<1>2. TypeOK /\ CalmInv /\ GoneSomehow /\ [Next]_vars => CalmInv' /\ GoneSomehow'
  BY CalmStep
<1> QED BY TypeCorrect, <1>1, <1>2, PTL DEF Spec

(***************************************************************************)
(* While nothing disturbs pruning, a document in the waiting room serves   *)
(* no search results: with one request at a time stage_one and restore     *)
(* never show a document that a row of it stages, however many reapers and *)
(* scanners run beside them.                                               *)
(***************************************************************************)
THEOREM StagedStaysHidden ==
  ASSUME Undisturbed
  PROVE  Spec => []StagedIsHidden
<1>1. CalmInv => StagedIsHidden
  BY DEF CalmInv, RowOK, StagedIsHidden
<1> QED BY CalmInvariant, <1>1, PTL

\* The actors' steps leave each other's local variables alone.
LEMMA OwnOnly ==
  ASSUME TypeOK, NEW a \in Actors,
         \/ ReaperPicks(a) \/ ReaperSteps(a) \/ ScannerPicks(a) \/ ScannerSteps(a)
  PROVE  \A b \in Actors \ {a} : op'[b] = op[b]
<1>1. op \in [Actors -> Op]
  BY DEF TypeOK
<1>2. CASE StageSteps(a)
  BY <1>1, <1>2 DEF StageSteps, ReadHidden, Hide, MarkStaged, CheckLostRace, UnhideLostRace,
     SetRemember, Goto, Finish
<1>3. CASE ReaperSteps(a) /\ ~StageSteps(a)
  BY <1>1, <1>3 DEF ReaperSteps, ClaimForDeletion, Capture, TrashAndDelete, UnclaimDeletion,
     MarkDeleted, RememberExclusion, CheckExists, InsertRestage, Goto, Finish
<1>4. CASE ReaperPicks(a) \/ ScannerPicks(a)
  BY <1>1, <1>4 DEF ReaperPicks, ListDue, ListStuck, FindRecrawled, ScannerPicks,
     ScanReadsExclusions, CloseStale, Begin, BeginDoc
<1>5. CASE ScannerSteps(a)
  BY <1>1, <1>5 DEF ScannerSteps, ScanReadsOpenRows, ScanInserts, Goto, Finish
<1> QED BY <1>2, <1>3, <1>4, <1>5

LEMMA ShowAgainEnds ==
  ASSUME Undisturbed, TypeOK, CalmInv, [Next]_vars, NEW o \in Operators,
         op[o].pc = "rs_show", op'[o].pc = "idle"
  PROVE  ShowAgain(o)
<1>k. o \in Actors /\ o \notin Reapers /\ o \notin Scanners /\ Operators = {o}
  BY ConstantsOK DEF Actors, Undisturbed
<1>1. op'[o] # op[o]
  OBVIOUS
<1>2. ASSUME NEW r \in Reapers PROVE ~(ReaperPicks(r) \/ ReaperSteps(r))
  BY <1>k, <1>1, OwnOnly DEF Actors
<1>3. ASSUME NEW s \in Scanners PROVE ~(ScannerPicks(s) \/ ScannerSteps(s))
  BY <1>k, <1>1, OwnOnly DEF Actors
<1>4. ~World /\ ~UNCHANGED vars
  BY <1>1 DEF World, Crawl, RemoveDocument, RestoreFromTrash, PurgeTrash, DeleteExclusion,
     PatchHidden, GraceElapses, ClaimAges, vars
<1>5. \A a \in Actors : ~Abort(a)
  BY DEF Abort, Fault, CalmInv
<1>6. ~Requests(o)
  BY DEF Requests, Stage, ScheduleDelete, Restore, Dismiss, Begin
<1>7. OperatorSteps(o) => ShowAgain(o)
  BY DEF OperatorSteps, StageSteps, ReadHidden, Hide, MarkStaged, CheckLostRace, UnhideLostRace,
     SetRemember, MarkRestored, Reopen, MarkDismissed, ExcludeForever, ExpediteStaged
<1> QED BY <1>k, <1>2, <1>3, <1>4, <1>5, <1>6, <1>7 DEF Next

(***************************************************************************)
(* While nothing disturbs pruning, restore leaves the document with the    *)
(* flag its owner gave it: the flag that stage_one read is the owner's,    *)
(* and no later stage, claim or scan overwrites what was saved.            *)
(***************************************************************************)
THEOREM RestoreGivesBack ==
  ASSUME Undisturbed
  PROVE  Spec => RestoreExact
<1>1. ASSUME TypeOK, CalmInv, [Next]_vars, NEW o \in Operators,
             op[o].pc = "rs_show", op'[o].pc = "idle"
      PROVE  doc'[op[o].doc] = owner[op[o].doc]
  BY <1>1, ShowAgainEnds, HideCalm
<1>2. TypeOK /\ CalmInv /\ [Next]_vars =>
        [\A o \in Operators :
           (op[o].pc = "rs_show" /\ op'[o].pc = "idle" /\ faults' = faults) =>
             doc'[op[o].doc] = owner[op[o].doc]]_vars
  BY <1>1
<1> QED BY CalmInvariant, <1>2, PTL DEF Spec, RestoreExact

(***************************************************************************)
(* While nothing disturbs pruning, several backend instances delete side   *)
(* by side and no row is claimed twice or given back in mid-deletion: what *)
(* breaks the claim with two reapers is the recovery of stuck claims.      *)
(***************************************************************************)
THEOREM ManyReapersClaim ==
  ASSUME Undisturbed
  PROVE  Spec => []ClaimHeld
<1>1. CalmInv => ClaimHeld
  BY CalmClaims DEF ClaimInv
<1> QED BY CalmInvariant, <1>1, PTL
=============================================================================
