-------------------------- MODULE ReaperCycleProofs --------------------------
(***************************************************************************)
(* What the cycle keeps for every number of rows, ceiling, batch size and  *)
(* number of faults: its types with any number of reapers; with one, rows  *)
(* that tell the truth about their documents and an hourly ceiling that    *)
(* each fault can raise by one.                                            *)
(***************************************************************************)
EXTENDS ReaperCycle, OrderLemmas

OneReaper == \E r : Reapers = {r}

(***************************************************************************)
(* Rows by deadline.                                                       *)
(***************************************************************************)
LEMMA RowsFinite == \A S \in SUBSET Rows : IsFiniteSet(S) /\ Cardinality(S) \in Nat
<1>1. IsFiniteSet(Rows)
  BY ConstantsOK, FS_Interval DEF Rows
<1>2. \A S \in SUBSET Rows : IsFiniteSet(S)
  BY <1>1, FS_Subset
<1> QED BY <1>2, FS_CardinalityType

LEMMA OldestIn ==
  ASSUME NEW S \in SUBSET Rows, S # {}
  PROVE  Oldest(S) \in S
<1>1. S \in SUBSET Int /\ IsFiniteSet(S)
  BY ConstantsOK, RowsFinite DEF Rows
<1>2. \E i \in S : \A j \in S : i <= j
  BY <1>1, LeastExists
<1> QED BY <1>2 DEF Oldest

LEMMA Smaller ==
  ASSUME NEW S \in SUBSET Rows, NEW T \in SUBSET S
  PROVE  Cardinality(T) <= Cardinality(S)
BY RowsFinite, FS_Subset

LEMMA OneMore ==
  ASSUME NEW S, IsFiniteSet(S), NEW i
  PROVE  /\ IsFiniteSet(S \cup {i})
         /\ Cardinality(S \cup {i}) \in Nat
         /\ Cardinality(S \cup {i}) <= Cardinality(S) + 1
<1>1. Cardinality(S) \in Nat
  BY FS_CardinalityType
<1>2. Cardinality(S \cup {i}) = IF i \in S THEN Cardinality(S) ELSE Cardinality(S) + 1
  BY FS_AddElement
<1>3. IsFiniteSet(S \cup {i})
  BY FS_AddElement
<1> QED BY <1>1, <1>2, <1>3

(***************************************************************************)
(* What a step writes to the locals of its reaper.                         *)
(***************************************************************************)
LEMMA RestingIsCycle == Resting \in Cycle
BY ConstantsOK DEF Resting, Cycle, PCs

\* c is what r's locals are after the step; the other reapers keep theirs.
Becomes(r, c) == cycle' = [cycle EXCEPT ![r] = c]

LEMMA BecomesTyped ==
  ASSUME cycle \in [Reapers -> Cycle], NEW r \in Reapers, NEW c \in Cycle, Becomes(r, c)
  PROVE  /\ cycle' \in [Reapers -> Cycle]
         /\ cycle'[r] = c
         /\ \A q \in Reapers \ {r} : cycle'[q] = cycle[q]
BY DEF Becomes

(***************************************************************************)
(* Type correctness, with what a reaper knows about the row in its hands.  *)
(***************************************************************************)
InHand(c, docs) ==
  /\ c.pc \in {"delete", "mark", "unclaim"} => c.row \in Rows
  /\ c.pc \in {"delete", "mark"} => c.budget > 0
  /\ c.pc = "mark" => c.row \notin docs

Shape == TypeOK /\ \A r \in Reapers : InHand(cycle[r], present)

LEMMA ShapeInit == Init => Shape
<1> SUFFICES ASSUME Init PROVE Shape
  OBVIOUS
<1>1. cycle \in [Reapers -> Cycle] /\ \A r \in Reapers : cycle[r] = Resting
  BY RestingIsCycle DEF Init
<1>2. TypeOK
  BY <1>1, ConstantsOK DEF Init, TypeOK
<1>3. InHand(Resting, present)
  BY DEF InHand, Resting
<1> QED BY <1>1, <1>2, <1>3 DEF Shape

\* A step of r that leaves the documents there or takes some away.
LEMMA ShapeStep ==
  ASSUME Shape, NEW r \in Reapers, NEW c \in Cycle, Becomes(r, c), InHand(c, present'),
         state' \in [Rows -> {"waiting", "due", "deleting", "deleted", "restored"}],
         present' \subseteq present, old' \subseteq Rows, counted' \subseteq Rows,
         cascaded' \subseteq Rows, busy' \subseteq Pairs, faults' \in 0 .. MaxFaults
  PROVE  Shape'
<1>1. /\ cycle' \in [Reapers -> Cycle]
      /\ cycle'[r] = c
      /\ \A q \in Reapers \ {r} : cycle'[q] = cycle[q]
  BY BecomesTyped DEF Shape, TypeOK
<1>2. TypeOK'
  BY <1>1 DEF Shape, TypeOK
<1>3. ASSUME NEW q \in Reapers PROVE InHand(cycle[q], present)'
  <2>1. CASE q = r
    BY <1>1, <2>1 DEF InHand
  <2>2. CASE q # r
    BY <1>1, <2>2 DEF InHand, Shape
  <2> QED BY <2>1, <2>2
<1> QED BY <1>2, <1>3 DEF Shape

\* The same for a step that writes nothing but the reaper's locals.
LEMMA ShapeLocal ==
  ASSUME Shape, NEW r \in Reapers, NEW c \in Cycle, Becomes(r, c), OnlyCycle,
         c.pc \notin {"delete", "mark", "unclaim"}
  PROVE  Shape'
<1>1. InHand(c, present')
  BY DEF InHand
<1> QED BY <1>1, ShapeStep DEF OnlyCycle, Shape, TypeOK

LEMMA FaultTyped ==
  ASSUME faults \in 0 .. MaxFaults, Fault \/ UNCHANGED faults
  PROVE  faults' \in 0 .. MaxFaults /\ faults' <= faults
BY ConstantsOK DEF Fault

LEMMA EndShape ==
  ASSUME Shape, NEW r \in Reapers, EndCycle(r), OnlyCycle
  PROVE  Shape'
<1>1. Becomes(r, Resting) /\ Resting.pc = "idle"
  BY DEF EndCycle, Becomes, Resting
<1> QED BY <1>1, RestingIsCycle, ShapeLocal

LEMMA GotoShape ==
  ASSUME Shape, NEW r \in Reapers, NEW pc \in PCs, Goto(r, pc), OnlyCycle,
         pc \notin {"delete", "mark", "unclaim"}
  PROVE  Shape'
<1> DEFINE c == [cycle[r] EXCEPT !.pc = pc]
<1>1. c \in Cycle /\ c.pc = pc
  BY DEF Shape, TypeOK, Cycle
<1>2. Becomes(r, c)
  BY DEF Goto, Becomes
<1> QED BY <1>1, <1>2, ShapeLocal

LEMMA BeforeBatchesShape ==
  ASSUME Shape, NEW r \in Reapers,
         StartCycle(r) \/ RecoveryDone(r) \/ CheckIndex(r) \/ ReadBudget(r) \/ ReadBusy(r)
           \/ FetchBatch(r) \/ EndBatch(r)
  PROVE  Shape'
<1>1. cycle[r] \in Cycle /\ TypeOK
  BY DEF Shape, TypeOK
<1>2. CASE StartCycle(r)
  <2> DEFINE c == [Resting EXCEPT !.pc = "recover", !.work = old]
  <2>1. c \in Cycle /\ c.pc = "recover"
    BY <1>1, RestingIsCycle DEF Cycle, TypeOK, PCs
  <2>2. Becomes(r, c) /\ OnlyCycle
    BY <1>2 DEF StartCycle, Becomes
  <2> QED BY <2>1, <2>2, ShapeLocal
<1>3. CASE RecoveryDone(r)
  BY <1>3, GotoShape DEF RecoveryDone, PCs
<1>4. CASE CheckIndex(r)
  BY <1>4, GotoShape, EndShape DEF CheckIndex, PCs
<1>5. CASE ReadBudget(r)
  <2>1. CASE EndCycle(r)
    BY <1>5, <2>1, EndShape DEF ReadBudget
  <2>2. CASE ~EndCycle(r)
    <3> DEFINE n == Cardinality(counted)
               c == [cycle[r] EXCEPT !.pc = "busy", !.budget = MaxPerHour - n]
    <3>1. n \in Nat /\ n < MaxPerHour
      <4>1. n \in Nat
        BY <1>1, RowsFinite DEF TypeOK
      <4>2. ~(n >= MaxPerHour)
        BY <1>5, <2>2 DEF ReadBudget
      <4> QED BY <4>1, <4>2, ConstantsOK
    <3>2. MaxPerHour - n \in 0 .. MaxPerHour
      BY <3>1, ConstantsOK
    <3>3. Becomes(r, c) /\ OnlyCycle
      BY <1>5, <2>2, <3>1 DEF ReadBudget, Becomes
    <3> HIDE DEF n
    <3>4. c \in Cycle /\ c.pc = "busy"
      BY <1>1, <3>2 DEF Cycle, PCs
    <3> QED BY <3>3, <3>4, ShapeLocal
  <2> QED BY <2>1, <2>2
<1>6. CASE ReadBusy(r)
  <2> DEFINE c == [cycle[r] EXCEPT !.pc = "fetch", !.busy = busy]
  <2>1. c \in Cycle /\ c.pc = "fetch"
    BY <1>1 DEF Cycle, TypeOK, PCs
  <2>2. Becomes(r, c) /\ OnlyCycle
    BY <1>6 DEF ReadBusy, Becomes
  <2> QED BY <2>1, <2>2, ShapeLocal
<1>7. CASE FetchBatch(r)
  <2>1. CASE EndCycle(r)
    BY <1>7, <2>1, EndShape DEF FetchBatch
  <2>2. CASE ~EndCycle(r)
    <3>1. PICK batch \in SUBSET Rows :
            cycle' = [cycle EXCEPT ![r].pc = "row", ![r].work = batch, ![r].deleted = FALSE]
      BY <1>7, <2>2 DEF FetchBatch, First, Due
    <3> DEFINE c == [cycle[r] EXCEPT !.pc = "row", !.work = batch, !.deleted = FALSE]
    <3>2. c \in Cycle /\ c.pc = "row"
      BY <1>1 DEF Cycle, PCs
    <3>3. Becomes(r, c) /\ OnlyCycle
      BY <1>7, <3>1 DEF FetchBatch, Becomes
    <3> QED BY <3>2, <3>3, ShapeLocal
  <2> QED BY <2>1, <2>2
<1>8. CASE EndBatch(r)
  BY <1>8, GotoShape, EndShape DEF EndBatch, PCs
<1> QED BY <1>2, <1>3, <1>4, <1>5, <1>6, <1>7, <1>8

LEMMA RecoverShape ==
  ASSUME Shape, NEW r \in Reapers, RecoverRow(r)
  PROVE  Shape'
<1> DEFINE i == Oldest(cycle[r].work)
           c == [cycle[r] EXCEPT !.work = cycle[r].work \ {i}]
<1>1. cycle[r] \in Cycle /\ TypeOK
  BY DEF Shape, TypeOK
<1>2. i \in Rows
  BY <1>1, OldestIn DEF RecoverRow, Cycle
<1>3. Becomes(r, c)
  BY DEF RecoverRow, Becomes
<1>4. c \in Cycle /\ c.pc = "recover"
  BY <1>1 DEF Cycle, RecoverRow, At
<1>5. InHand(c, present')
  BY <1>4 DEF InHand
<1>6. /\ state' \in [Rows -> {"waiting", "due", "deleting", "deleted", "restored"}]
      /\ old' \subseteq Rows /\ counted' \subseteq Rows
  BY <1>1, <1>2 DEF RecoverRow, TypeOK
<1> QED BY <1>1, <1>3, <1>4, <1>5, <1>6, ShapeStep DEF RecoverRow, TypeOK

LEMMA TakeShape ==
  ASSUME Shape, NEW r \in Reapers, TakeRow(r)
  PROVE  Shape'
<1> DEFINE i == Oldest(cycle[r].work)
<1>1. cycle[r] \in Cycle /\ TypeOK
  BY DEF Shape, TypeOK
<1>2. i \in Rows
  BY <1>1, OldestIn DEF TakeRow, Cycle
<1>3. CASE Skip(r, i)
  <2> DEFINE c == [cycle[r] EXCEPT !.work = cycle[r].work \ {i},
                                   !.skipped = cycle[r].skipped \cup {i}]
  <2>1. Becomes(r, c)
    BY <1>3 DEF Skip, Becomes
  <2>2. c \in Cycle /\ c.pc = "row"
    BY <1>1, <1>2 DEF Cycle, TakeRow, At
  <2> QED BY <1>3, <2>1, <2>2, ShapeLocal DEF Skip, TakeRow, OnlyCycle
<1>4. CASE ~Skip(r, i)
  <2> DEFINE c == [cycle[r] EXCEPT !.pc = "delete", !.row = i]
  <2>1. /\ Becomes(r, c) /\ cycle[r].budget # 0
        /\ state' = [state EXCEPT ![i] = "deleting"]
        /\ UNCHANGED <<present, old, counted, cascaded, busy, faults>>
    BY <1>4 DEF TakeRow, Becomes
  <2>2. c \in Cycle /\ c.row = i /\ c.budget = cycle[r].budget /\ c.pc = "delete"
    BY <1>1, <1>2 DEF Cycle, PCs
  <2>3. InHand(c, present')
    BY <1>1, <1>2, <2>1, <2>2 DEF InHand, Cycle
  <2>4. state' \in [Rows -> {"waiting", "due", "deleting", "deleted", "restored"}]
    BY <1>1, <2>1 DEF TypeOK
  <2> HIDE DEF c, i
  <2> QED BY <1>1, <2>1, <2>2, <2>3, <2>4, ShapeStep DEF TypeOK
<1> QED BY <1>3, <1>4

LEMMA DeleteShape ==
  ASSUME Shape, NEW r \in Reapers, Delete(r)
  PROVE  Shape'
<1>1. cycle[r] \in Cycle /\ TypeOK /\ cycle[r].row \in Rows /\ cycle[r].budget > 0
  BY DEF Shape, TypeOK, InHand, Delete, At
<1>2. PICK pc \in {"mark", "unclaim"} :
        /\ Goto(r, pc) /\ (Fault \/ UNCHANGED faults)
        /\ present' \subseteq present /\ cascaded' \subseteq cascaded \cup {cycle[r].row}
        /\ pc = "mark" => cycle[r].row \notin present'
  BY DEF Delete
<1> DEFINE c == [cycle[r] EXCEPT !.pc = pc]
<1>3. c \in Cycle /\ c.pc = pc /\ c.row = cycle[r].row /\ c.budget = cycle[r].budget
  BY <1>1 DEF Cycle, PCs
<1>4. Becomes(r, c)
  BY <1>2 DEF Goto, Becomes
<1>5. InHand(c, present')
  BY <1>1, <1>2, <1>3 DEF InHand
<1>6. faults' \in 0 .. MaxFaults
  BY <1>1, <1>2, FaultTyped DEF TypeOK
<1> HIDE DEF c
<1>7. cascaded' \subseteq Rows
  BY <1>1, <1>2 DEF TypeOK
<1> QED BY <1>1, <1>2, <1>3, <1>4, <1>5, <1>6, <1>7, ShapeStep DEF Delete, TypeOK

LEMMA MarkShape ==
  ASSUME Shape, NEW r \in Reapers, MarkDeleted(r)
  PROVE  Shape'
<1> DEFINE i == cycle[r].row
           c == [cycle[r] EXCEPT !.pc = "row", !.row = None, !.work = cycle[r].work \ {i},
                                 !.budget = cycle[r].budget - 1, !.deleted = TRUE]
<1>1. cycle[r] \in Cycle /\ TypeOK /\ i \in Rows /\ cycle[r].budget > 0
  BY DEF Shape, TypeOK, InHand, MarkDeleted, At
<1>2. cycle[r].budget - 1 \in 0 .. MaxPerHour
  BY <1>1, ConstantsOK DEF Cycle
<1>3. Becomes(r, c)
  BY DEF MarkDeleted, Counted, Becomes
<1>4. c \in Cycle /\ c.pc = "row"
  BY <1>1, <1>2 DEF Cycle, PCs
<1>5. InHand(c, present')
  BY <1>4 DEF InHand
<1>6. /\ state' \in [Rows -> {"waiting", "due", "deleting", "deleted", "restored"}]
      /\ old' \subseteq Rows /\ counted' \subseteq Rows
  BY <1>1 DEF MarkDeleted, TypeOK
<1>7. faults' \in 0 .. MaxFaults
  BY <1>1, FaultTyped DEF MarkDeleted, TypeOK
<1> HIDE DEF c
<1> QED BY <1>1, <1>3, <1>4, <1>5, <1>6, <1>7, ShapeStep DEF MarkDeleted, TypeOK

LEMMA UnclaimShape ==
  ASSUME Shape, NEW r \in Reapers, Unclaim(r)
  PROVE  Shape'
<1> DEFINE i == cycle[r].row
           c == [cycle[r] EXCEPT !.pc = "row", !.row = None, !.work = cycle[r].work \ {i},
                                 !.skipped = cycle[r].skipped \cup {i}]
<1>1. cycle[r] \in Cycle /\ TypeOK /\ i \in Rows
  BY DEF Shape, TypeOK, InHand, Unclaim, At
<1>2. Becomes(r, c)
  BY DEF Unclaim, Becomes
<1>3. c \in Cycle /\ c.pc = "row"
  BY <1>1 DEF Cycle, PCs
<1>4. InHand(c, present')
  BY <1>3 DEF InHand
<1>5. /\ state' \in [Rows -> {"waiting", "due", "deleting", "deleted", "restored"}]
      /\ old' \subseteq Rows
  BY <1>1 DEF Unclaim, TypeOK
<1> HIDE DEF c
<1> QED BY <1>1, <1>2, <1>3, <1>4, <1>5, ShapeStep DEF Unclaim, TypeOK

LEMMA CrashShape ==
  ASSUME Shape, NEW r \in Reapers, Crash(r)
  PROVE  Shape'
<1>1. TypeOK /\ Becomes(r, Resting) /\ InHand(Resting, present')
  BY DEF Shape, Crash, EndCycle, Becomes, InHand, Resting
<1>2. faults' \in 0 .. MaxFaults
  BY <1>1, FaultTyped DEF Crash, TypeOK
<1> QED BY <1>1, <1>2, RestingIsCycle, ShapeStep DEF Crash, TypeOK

LEMMA WorldShape ==
  ASSUME Shape, World
  PROVE  Shape'
<1>1. TypeOK
  BY DEF Shape
<1>2. present' \subseteq present /\ UNCHANGED <<cycle, faults>>
  BY DEF World, BecomesDue, Restore, RemoveDocument, ClaimAges, HourPasses, IndexAttempt
<1>3. state' \in [Rows -> {"waiting", "due", "deleting", "deleted", "restored"}]
  BY <1>1 DEF World, BecomesDue, Restore, RemoveDocument, ClaimAges, HourPasses, IndexAttempt,
              TypeOK
<1>4. old' \subseteq Rows /\ counted' \subseteq Rows /\ cascaded' \subseteq Rows
        /\ busy' \subseteq Pairs
  BY <1>1 DEF World, BecomesDue, Restore, RemoveDocument, ClaimAges, HourPasses, IndexAttempt,
              TypeOK
<1>5. TypeOK'
  BY <1>1, <1>2, <1>3, <1>4 DEF TypeOK
<1> QED BY <1>2, <1>5 DEF Shape, InHand

LEMMA ShapeNext == Shape /\ [Next]_vars => Shape'
<1> SUFFICES ASSUME Shape, [Next]_vars PROVE Shape'
  OBVIOUS
<1>1. ASSUME NEW r \in Reapers, StartCycle(r) \/ Steps(r) \/ Crash(r) PROVE Shape'
  BY <1>1, BeforeBatchesShape, RecoverShape, TakeShape, DeleteShape, MarkShape, UnclaimShape,
     CrashShape DEF Steps
<1>2. CASE UNCHANGED vars
  BY <1>2 DEF vars, Shape, TypeOK, InHand
<1> QED BY <1>1, <1>2, WorldShape DEF Next

\* The shape of the state, for any number of reapers (run_cycle).
THEOREM CycleTyped == Spec => []TypeOK
<1>1. Shape => TypeOK
  BY DEF Shape
<1> QED BY ShapeInit, ShapeNext, <1>1, PTL DEF Spec

(***************************************************************************)
(* Rows tell the truth: while a reaper holds a row it is claimed and       *)
(* young, so no other recovery can give it back.                           *)
(***************************************************************************)
Held(c) ==
  /\ c.pc \in {"delete", "mark", "unclaim"} => state[c.row] = "deleting" /\ c.row \notin old
  /\ c.pc \in {"delete", "unclaim"} => c.row \notin cascaded

Truth ==
  /\ RowsTellTheTruth
  /\ cascaded \cap present = {}
  /\ \A i \in old : state[i] = "deleting"
  /\ \A r \in Reapers : Held(cycle[r])

LEMMA TruthInit == Init => Truth
BY ConstantsOK DEF Init, Truth, RowsTellTheTruth, Held, Resting

\* A step of the only reaper that leaves it with nothing in its hands, or with
\* what it had.
LEMMA TruthLocal ==
  ASSUME Shape, Truth, NEW r, Reapers = {r}, OnlyCycle, cycle' \in [Reapers -> Cycle],
         cycle'[r].pc \notin {"delete", "mark", "unclaim"}
  PROVE  Truth'
BY DEF Truth, Held, OnlyCycle, RowsTellTheTruth

LEMMA TruthStep ==
  ASSUME Shape, Shape', Truth, NEW r, Reapers = {r}, StartCycle(r) \/ Steps(r) \/ Crash(r)
  PROVE  Truth'
<1>1. /\ TypeOK /\ cycle[r] \in Cycle /\ InHand(cycle[r], present)
      /\ cycle' \in [Reapers -> Cycle] /\ Held(cycle[r])
  BY DEF Shape, TypeOK, Truth
<1>2. CASE EndCycle(r) /\ OnlyCycle
  <2>1. cycle'[r].pc = "idle"
    BY <1>1, <1>2 DEF EndCycle, Resting, TypeOK
  <2> QED BY <1>1, <1>2, <2>1, TruthLocal
<1>3. CASE StartCycle(r) \/ RecoveryDone(r) \/ CheckIndex(r) \/ ReadBudget(r) \/ ReadBusy(r)
             \/ FetchBatch(r) \/ EndBatch(r)
  <2>1. CASE ~EndCycle(r)
    <3>1. OnlyCycle
      BY <1>3 DEF StartCycle, RecoveryDone, CheckIndex, ReadBudget, ReadBusy, FetchBatch, EndBatch
    <3>2. cycle'[r].pc \in {"recover", "index", "budget", "busy", "fetch", "row"}
      <4>1. CASE \E pc \in {"index", "budget", "fetch"} : Goto(r, pc)
        BY <1>1, <4>1 DEF TypeOK, Goto
      <4>2. CASE StartCycle(r)
        BY <1>1, <4>2 DEF TypeOK, StartCycle, Resting
      <4>3. CASE ReadBudget(r) /\ ~EndCycle(r)
        <5>1. PICK b : cycle' = [cycle EXCEPT ![r].pc = "busy", ![r].budget = b]
          BY <4>3 DEF ReadBudget
        <5> QED BY <1>1, <5>1 DEF TypeOK
      <4>4. CASE ReadBusy(r)
        BY <1>1, <4>4 DEF TypeOK, ReadBusy
      <4>5. CASE FetchBatch(r) /\ ~EndCycle(r)
        <5>1. PICK w : cycle' = [cycle EXCEPT ![r].pc = "row", ![r].work = w,
                                              ![r].deleted = FALSE]
          BY <4>5 DEF FetchBatch
        <5> QED BY <1>1, <5>1 DEF TypeOK
      <4> QED BY <1>3, <2>1, <4>1, <4>2, <4>3, <4>4, <4>5
                 DEF RecoveryDone, CheckIndex, EndBatch
    <3> QED BY <1>1, <3>1, <3>2, TruthLocal
  <2>2. CASE EndCycle(r)
    BY <1>2, <1>3, <2>2 DEF StartCycle, RecoveryDone, CheckIndex, ReadBudget, ReadBusy, FetchBatch,
                            EndBatch
  <2> QED BY <2>1, <2>2
<1>4. CASE RecoverRow(r)
  <2> DEFINE i == Oldest(cycle[r].work)
  <2>1. i \in Rows
    BY <1>1, <1>4, OldestIn DEF RecoverRow, Cycle
  <2>2. cycle'[r].pc = "recover"
    BY <1>1, <1>4 DEF RecoverRow, At, TypeOK
  <2>3. Held(cycle[r])'
    BY <2>2 DEF Held
  <2> HIDE DEF i
  <2>4. CASE state[i] = "deleting"
    <3>1. /\ state' = [state EXCEPT ![i] = IF i \in present THEN "due" ELSE "deleted"]
          /\ old' = old \ {i} /\ UNCHANGED <<present, cascaded>>
      BY <1>4, <2>4 DEF RecoverRow, i
    <3>2. RowsTellTheTruth'
      BY <1>1, <2>1, <3>1 DEF Truth, RowsTellTheTruth, TypeOK
    <3> QED BY <1>1, <2>3, <3>1, <3>2 DEF Truth, TypeOK, Held
  <2>5. CASE state[i] # "deleting"
    <3>1. UNCHANGED <<state, old, present, cascaded>>
      BY <1>4, <2>5 DEF RecoverRow, i
    <3> QED BY <2>3, <3>1 DEF Truth, RowsTellTheTruth, Held
  <2> QED BY <2>4, <2>5
<1>5. CASE TakeRow(r)
  <2> DEFINE i == Oldest(cycle[r].work)
  <2>1. i \in Rows
    BY <1>1, <1>5, OldestIn DEF TakeRow, Cycle
  <2>2. CASE Skip(r, i)
    <3>1. OnlyCycle /\ cycle'[r].pc = "row"
      BY <1>1, <1>5, <2>2 DEF TakeRow, Skip, OnlyCycle, At, TypeOK
    <3> QED BY <1>1, <3>1, TruthLocal
  <2>3. CASE ~Skip(r, i)
    <3>1. /\ state[i] = "due" /\ state' = [state EXCEPT ![i] = "deleting"]
          /\ cycle' = [cycle EXCEPT ![r].pc = "delete", ![r].row = i]
          /\ UNCHANGED <<present, old, counted, cascaded, busy, faults>>
      BY <1>5, <2>3 DEF TakeRow
    <3>2. cycle'[r].row = i
      BY <1>1, <3>1 DEF TypeOK
    <3> HIDE DEF i
    <3>3. i \notin cascaded /\ i \notin old
      BY <2>1, <3>1 DEF Truth, RowsTellTheTruth
    <3>4. state'[i] = "deleting" /\ \A j \in Rows \ {i} : state'[j] = state[j]
      BY <1>1, <2>1, <3>1 DEF TypeOK
    <3>5. Held(cycle[r])'
      BY <3>1, <3>2, <3>3, <3>4 DEF Held
    <3>6. RowsTellTheTruth'
      BY <3>1, <3>4, <2>1, <3>3 DEF Truth, RowsTellTheTruth, TypeOK
    <3> QED BY <1>1, <3>1, <3>3, <3>4, <3>5, <3>6 DEF Truth, TypeOK
  <2> QED BY <2>2, <2>3
<1>6. CASE Delete(r)
  <2>1. PICK pc \in {"mark", "unclaim"} : Goto(r, pc)
    BY <1>6 DEF Delete
  <2>2. cycle'[r].pc = pc /\ cycle'[r].row = cycle[r].row
    BY <1>1, <2>1 DEF Goto, TypeOK, Cycle
  <2>3. /\ cycle[r].row \in Rows /\ state[cycle[r].row] = "deleting"
        /\ cycle[r].row \notin old /\ cycle[r].row \notin cascaded
    BY <1>1, <1>6 DEF Held, InHand, Delete, At
  <2>4. /\ present' \subseteq present /\ UNCHANGED <<state, old>>
        /\ \/ cascaded' = cascaded
           \/ /\ cascaded' = cascaded \cup {cycle[r].row} /\ cycle[r].row \notin present'
              /\ Goto(r, "mark")
    BY <1>6 DEF Delete
  <2>5. Goto(r, "mark") => cycle'[r].pc = "mark"
    BY <1>1 DEF Goto, TypeOK, Cycle
  <2>6. Held(cycle[r])'
    BY <2>2, <2>3, <2>4, <2>5 DEF Held
  <2>7. RowsTellTheTruth' /\ (cascaded \cap present = {})'
    BY <2>3, <2>4 DEF Truth, RowsTellTheTruth
  <2> QED BY <2>4, <2>6, <2>7 DEF Truth
<1>7. CASE MarkDeleted(r)
  <2> DEFINE i == cycle[r].row
  <2>1. /\ i \in Rows /\ state[i] = "deleting" /\ i \notin old /\ i \notin present
    BY <1>1, <1>7 DEF Held, InHand, MarkDeleted, At
  <2>2. cycle'[r].pc = "row"
    BY <1>1, <1>7 DEF MarkDeleted, Counted, TypeOK
  <2>3. Held(cycle[r])'
    BY <2>2 DEF Held
  <2>4. /\ UNCHANGED <<present, cascaded>> /\ old' \subseteq old
        /\ state' = state \/ state' = [state EXCEPT ![i] = "deleted"]
    BY <1>7 DEF MarkDeleted
  <2> HIDE DEF i
  <2>5. \A j \in Rows : state'[j] = state[j] \/ (j = i /\ state'[j] = "deleted")
    BY <1>1, <2>1, <2>4 DEF TypeOK
  <2>6. RowsTellTheTruth'
    BY <1>1, <2>1, <2>4, <2>5 DEF Truth, RowsTellTheTruth, TypeOK
  <2>7. \A j \in old' : state'[j] = "deleting"
    BY <1>1, <2>1, <2>4, <2>5 DEF Truth, TypeOK
  <2> QED BY <2>3, <2>4, <2>6, <2>7 DEF Truth
<1>8. CASE Unclaim(r)
  <2> DEFINE i == cycle[r].row
  <2>1. i \in Rows /\ state[i] = "deleting" /\ i \notin old /\ i \notin cascaded
    BY <1>1, <1>8 DEF Held, InHand, Unclaim, At
  <2>2. cycle'[r].pc = "row"
    BY <1>1, <1>8 DEF Unclaim, TypeOK
  <2>3. Held(cycle[r])'
    BY <2>2 DEF Held
  <2>4. /\ UNCHANGED <<present, cascaded>> /\ old' = old \ {i}
        /\ state' = [state EXCEPT ![i] = "due"]
    BY <1>8, <2>1 DEF Unclaim
  <2> HIDE DEF i
  <2>5. RowsTellTheTruth'
    BY <1>1, <2>1, <2>4 DEF Truth, RowsTellTheTruth, TypeOK
  <2>6. \A j \in old' : state'[j] = "deleting"
    BY <1>1, <2>1, <2>4 DEF Truth, TypeOK
  <2> QED BY <2>3, <2>4, <2>5, <2>6 DEF Truth
<1>9. CASE Crash(r)
  <2>1. /\ cycle'[r].pc = "idle"
        /\ UNCHANGED <<state, present, old, counted, cascaded>>
    BY <1>1, <1>9 DEF Crash, EndCycle, Resting, TypeOK
  <2>2. Held(cycle[r])'
    BY <2>1 DEF Held
  <2> QED BY <2>1, <2>2 DEF Truth, RowsTellTheTruth
<1> QED BY <1>3, <1>4, <1>5, <1>6, <1>7, <1>8, <1>9 DEF Steps

LEMMA TruthWorld ==
  ASSUME Shape, Truth, NEW r, Reapers = {r}, World
  PROVE  Truth'
<1>1. TypeOK /\ InHand(cycle[r], present) /\ Held(cycle[r]) /\ UNCHANGED cycle
  BY DEF Shape, Truth, World, BecomesDue, Restore, RemoveDocument, ClaimAges, HourPasses,
         IndexAttempt
<1>2. CASE \E i \in Rows : BecomesDue(i) \/ Restore(i)
  <2>1. PICK i \in Rows, s \in {"due", "restored"} :
          /\ state[i] \in {"waiting", "due"} /\ state' = [state EXCEPT ![i] = s]
          /\ UNCHANGED <<present, old, cascaded>>
    BY <1>2 DEF BecomesDue, Restore
  <2>2. state'[i] = s /\ \A j \in Rows \ {i} : state'[j] = state[j]
    BY <1>1, <2>1 DEF TypeOK
  <2>3. RowsTellTheTruth'
    BY <2>1, <2>2 DEF Truth, RowsTellTheTruth
  <2>4. \A j \in old' : state'[j] = "deleting"
    BY <1>1, <2>1, <2>2 DEF Truth, TypeOK
  <2>5. Held(cycle[r])'
    BY <1>1, <2>1, <2>2 DEF Held, InHand
  <2> QED BY <2>1, <2>3, <2>4, <2>5 DEF Truth
<1>3. CASE \E i \in Rows : RemoveDocument(i)
  BY <1>1, <1>3 DEF RemoveDocument, Truth, RowsTellTheTruth, Held
<1>4. CASE \E i \in Rows : ClaimAges(i)
  BY <1>1, <1>4 DEF ClaimAges, Truth, RowsTellTheTruth, Held
<1>5. CASE \E i \in Rows : HourPasses(i)
  BY <1>1, <1>5 DEF HourPasses, Truth, RowsTellTheTruth, Held
<1>6. CASE \E p \in Pairs : IndexAttempt(p)
  BY <1>1, <1>6 DEF IndexAttempt, Truth, RowsTellTheTruth, Held
<1> QED BY <1>2, <1>3, <1>4, <1>5, <1>6 DEF World

LEMMA TruthNext ==
  ASSUME OneReaper
  PROVE  Shape /\ Shape' /\ Truth /\ [Next]_vars => Truth'
<1> SUFFICES ASSUME Shape, Shape', Truth, [Next]_vars PROVE Truth'
  OBVIOUS
<1>1. PICK r : Reapers = {r}
  BY DEF OneReaper
<1>2. CASE UNCHANGED vars
  BY <1>2 DEF vars, Truth, RowsTellTheTruth, Held
<1> QED BY <1>1, <1>2, TruthStep, TruthWorld DEF Next

\* With one reaper, whatever crashes and failed statements do to its cycles
\* (mark_deleted, unclaim_deletion, recover_stuck_deleting).
THEOREM TruthIsTold ==
  ASSUME OneReaper
  PROVE  Spec => []RowsTellTheTruth
<1>1. Shape /\ Shape' /\ Truth /\ [Next]_vars => Truth'
  BY TruthNext
<1>2. Truth => RowsTellTheTruth
  BY DEF Truth
<1> QED BY ShapeInit, ShapeNext, TruthInit, <1>1, <1>2, PTL DEF Spec

(***************************************************************************)
(* The hourly ceiling: every document of the trailing hour without a       *)
(* deleted_at stands for a fault or is the one in hand, and what the       *)
(* reaper may still take is what the ceiling leaves.                       *)
(***************************************************************************)
Used == MaxFaults - faults

\* Documents taken and not counted, the one in hand left aside.
Loose(c) == {i \in cascaded \ counted : ~(c.pc = "mark" /\ i = c.row)}

\* Documents the reaper may still take before it reads the budget again.
Ahead(c) == IF c.pc \in {"busy", "fetch", "row", "delete", "unclaim"} THEN c.budget
            ELSE IF c.pc = "mark" THEN c.budget - 1 ELSE 0

Ceiling ==
  \A r \in Reapers :
    /\ Cardinality(Loose(cycle[r])) <= Used
    /\ Cardinality(cascaded) + Ahead(cycle[r]) <= MaxPerHour + Used

LEMMA AheadType ==
  ASSUME NEW c \in Cycle, c.pc = "mark" => c.budget > 0
  PROVE  Ahead(c) \in Nat
BY ConstantsOK DEF Ahead, Cycle

LEMMA CeilingInit == Init => Ceiling
<1> SUFFICES ASSUME Init, NEW r \in Reapers
             PROVE  /\ Cardinality(Loose(cycle[r])) <= Used
                    /\ Cardinality(cascaded) + Ahead(cycle[r]) <= MaxPerHour + Used
  BY DEF Ceiling
<1>1. Loose(cycle[r]) = {} /\ cascaded = {} /\ Ahead(cycle[r]) = 0 /\ Used = 0
  BY ConstantsOK DEF Init, Loose, Ahead, Resting, Used
<1> QED BY <1>1, ConstantsOK, FS_EmptySet

\* A step that adds to the sum no more than it costs in faults.
LEMMA CeilingFrom ==
  ASSUME Shape, Shape', NEW r, Reapers = {r}, Ceiling,
         Cardinality(Loose(cycle[r])') - Cardinality(Loose(cycle[r])) <= faults - faults',
         Cardinality(cascaded') + Ahead(cycle'[r]) - (Cardinality(cascaded) + Ahead(cycle[r]))
           <= faults - faults'
  PROVE  Ceiling'
<1>1. /\ cycle[r] \in Cycle /\ cycle'[r] \in Cycle
      /\ faults \in Nat /\ faults' \in Nat /\ MaxPerHour \in Nat /\ MaxFaults \in Nat
  BY ConstantsOK DEF Shape, TypeOK
<1>2. Ahead(cycle[r]) \in Nat /\ Ahead(cycle'[r]) \in Nat
  BY <1>1, AheadType DEF Shape, InHand
<1>3. Loose(cycle[r]) \subseteq Rows /\ Loose(cycle[r])' \subseteq Rows
        /\ cascaded \subseteq Rows /\ cascaded' \subseteq Rows
  BY DEF Loose, Shape, TypeOK
<1>4. /\ Cardinality(Loose(cycle[r])) \in Nat /\ Cardinality(Loose(cycle[r])') \in Nat
      /\ Cardinality(cascaded) \in Nat /\ Cardinality(cascaded') \in Nat
  BY <1>3, RowsFinite
<1>5. /\ Cardinality(Loose(cycle[r])) <= MaxFaults - faults
      /\ Cardinality(cascaded) + Ahead(cycle[r]) <= MaxPerHour + (MaxFaults - faults)
  BY DEF Ceiling, Used
<1>6. /\ Cardinality(Loose(cycle[r])') <= MaxFaults - faults'
      /\ Cardinality(cascaded') + Ahead(cycle'[r]) <= MaxPerHour + (MaxFaults - faults')
  BY <1>1, <1>2, <1>4, <1>5
<1>7. Ahead(cycle'[r]) = Ahead(cycle[r])'
  BY DEF Ahead
<1> QED BY <1>6, <1>7 DEF Ceiling, Used

\* Most steps take no document and leave the reaper no more to take.
LEMMA CeilingQuiet ==
  ASSUME Shape, Shape', NEW r, Reapers = {r}, Ceiling, cascaded' \subseteq cascaded,
         Loose(cycle[r])' \subseteq Loose(cycle[r]), Ahead(cycle'[r]) <= Ahead(cycle[r]),
         faults' <= faults
  PROVE  Ceiling'
<1>1. Loose(cycle[r]) \subseteq Rows /\ cascaded \subseteq Rows
        /\ Loose(cycle[r])' \subseteq Rows /\ cascaded' \subseteq Rows
  BY DEF Loose, Shape, TypeOK
<1>2. /\ Cardinality(Loose(cycle[r])') <= Cardinality(Loose(cycle[r]))
      /\ Cardinality(cascaded') <= Cardinality(cascaded)
  BY <1>1, Smaller
<1>3. /\ Cardinality(Loose(cycle[r])) \in Nat /\ Cardinality(Loose(cycle[r])') \in Nat
      /\ Cardinality(cascaded) \in Nat /\ Cardinality(cascaded') \in Nat
  BY <1>1, RowsFinite
<1>4. Ahead(cycle[r]) \in Nat /\ Ahead(cycle'[r]) \in Nat
  BY AheadType DEF Shape, InHand, TypeOK
<1>5. faults \in Nat /\ faults' \in Nat
  BY DEF Shape, TypeOK
<1>6. /\ Cardinality(Loose(cycle[r])') - Cardinality(Loose(cycle[r])) <= faults - faults'
      /\ Cardinality(cascaded') + Ahead(cycle'[r]) - (Cardinality(cascaded) + Ahead(cycle[r]))
           <= faults - faults'
  BY <1>2, <1>3, <1>4, <1>5
<1> QED BY <1>6, CeilingFrom

LEMMA CeilingResting ==
  ASSUME Shape, Shape', NEW r, Reapers = {r}, Ceiling, cycle[r].pc # "mark", EndCycle(r),
         UNCHANGED <<cascaded, counted>>, faults' <= faults
  PROVE  Ceiling'
<1>1. cycle'[r] = Resting
  BY DEF Shape, TypeOK, EndCycle
<1>2. Ahead(cycle'[r]) = 0
  BY <1>1 DEF Ahead, Resting
<1>3. Ahead(cycle[r]) \in Nat
  BY AheadType DEF Shape, InHand, TypeOK
<1>4. Loose(cycle[r])' \subseteq Loose(cycle[r])
  BY DEF Loose
<1> QED BY <1>2, <1>3, <1>4, CeilingQuiet

LEMMA CeilingStep ==
  ASSUME Shape, Shape', Truth, Ceiling, NEW r, Reapers = {r},
         StartCycle(r) \/ Steps(r) \/ Crash(r)
  PROVE  Ceiling'
<1>1. /\ TypeOK /\ cycle[r] \in Cycle /\ InHand(cycle[r], present) /\ Held(cycle[r])
      /\ cycle'[r] \in Cycle /\ Ahead(cycle[r]) \in Nat /\ faults \in Nat /\ faults' \in Nat
  BY AheadType DEF Shape, TypeOK, Truth, InHand
<1>2. CASE StartCycle(r) \/ RecoveryDone(r) \/ CheckIndex(r) \/ ReadBusy(r) \/ FetchBatch(r)
             \/ EndBatch(r)
  <2>1. OnlyCycle /\ cycle[r].pc # "mark"
    BY <1>2 DEF StartCycle, RecoveryDone, CheckIndex, ReadBusy, FetchBatch, EndBatch, At
  <2>2. CASE EndCycle(r)
    BY <2>1, <2>2, <1>1, CeilingResting DEF OnlyCycle
  <2>3. CASE StartCycle(r)
    <3>1. cycle'[r].pc = "recover"
      BY <1>1, <2>3 DEF TypeOK, StartCycle, Resting
    <3>2. Ahead(cycle'[r]) = 0
      BY <3>1 DEF Ahead
    <3>3. Loose(cycle[r])' \subseteq Loose(cycle[r])
      BY <2>1 DEF Loose, OnlyCycle
    <3> QED BY <1>1, <2>1, <3>2, <3>3, CeilingQuiet DEF OnlyCycle
  <2>4. CASE RecoveryDone(r) \/ (CheckIndex(r) /\ ~EndCycle(r))
    <3>1. cycle'[r].pc \in {"index", "budget"}
      <4>1. PICK pc \in {"index", "budget"} : Goto(r, pc)
        BY <2>4 DEF RecoveryDone, CheckIndex
      <4> QED BY <1>1, <4>1 DEF Goto, TypeOK
    <3>2. Ahead(cycle'[r]) = 0
      BY <3>1 DEF Ahead
    <3>3. Loose(cycle[r])' \subseteq Loose(cycle[r])
      BY <2>1 DEF Loose, OnlyCycle
    <3> QED BY <1>1, <2>1, <3>2, <3>3, CeilingQuiet DEF OnlyCycle
  <2>5. CASE ReadBusy(r) \/ (FetchBatch(r) /\ ~EndCycle(r)) \/ (EndBatch(r) /\ ~EndCycle(r))
    <3>1. /\ cycle[r].pc \in {"busy", "fetch", "row"} /\ cycle'[r].pc \in {"fetch", "row"}
          /\ cycle'[r].budget = cycle[r].budget
      <4>1. CASE ReadBusy(r)
        BY <1>1, <4>1 DEF TypeOK, ReadBusy, At, Cycle
      <4>2. CASE FetchBatch(r) /\ ~EndCycle(r)
        <5>1. PICK w : cycle' = [cycle EXCEPT ![r].pc = "row", ![r].work = w,
                                              ![r].deleted = FALSE]
          BY <4>2 DEF FetchBatch
        <5> QED BY <1>1, <4>2, <5>1 DEF TypeOK, FetchBatch, At, Cycle
      <4>3. CASE EndBatch(r) /\ ~EndCycle(r)
        BY <1>1, <4>3 DEF TypeOK, EndBatch, Goto, At, Cycle
      <4> QED BY <2>5, <4>1, <4>2, <4>3
    <3>2. Ahead(cycle'[r]) = Ahead(cycle[r])
      BY <3>1 DEF Ahead
    <3>3. Loose(cycle[r])' \subseteq Loose(cycle[r])
      BY <2>1 DEF Loose, OnlyCycle
    <3> QED BY <1>1, <2>1, <3>2, <3>3, CeilingQuiet DEF OnlyCycle
  <2> QED BY <1>2, <2>2, <2>3, <2>4, <2>5
<1>3. CASE ReadBudget(r)
  <2>1. OnlyCycle /\ cycle[r].pc = "budget"
    BY <1>3 DEF ReadBudget, At
  <2>2. CASE EndCycle(r)
    BY <1>1, <2>1, <2>2, CeilingResting DEF OnlyCycle
  <2>3. CASE ~EndCycle(r)
    <3>1. /\ Cardinality(counted) \in Nat /\ Cardinality(cascaded) \in Nat
          /\ Cardinality(cascaded \ counted) \in Nat
      BY <1>1, RowsFinite DEF TypeOK
    <3>2. /\ ~(Cardinality(counted) >= MaxPerHour)
          /\ cycle' = [cycle EXCEPT ![r].pc = "busy",
                                    ![r].budget = MaxPerHour - Cardinality(counted)]
      BY <1>3, <2>3 DEF ReadBudget
    <3>3. Ahead(cycle[r])' = MaxPerHour - Cardinality(counted)
      BY <1>1, <3>2 DEF Ahead, TypeOK, Cycle
    <3>4. Loose(cycle[r]) = cascaded \ counted /\ Loose(cycle[r])' \subseteq Loose(cycle[r])
      BY <2>1 DEF Loose, OnlyCycle
    <3>5. Cardinality(cascaded) <= Cardinality(cascaded \ counted) + Cardinality(counted)
      <4>1. /\ IsFiniteSet(cascaded \ counted) /\ IsFiniteSet(counted)
            /\ (cascaded \ counted) \cup counted \subseteq Rows
            /\ cascaded \subseteq (cascaded \ counted) \cup counted
        BY <1>1, RowsFinite DEF TypeOK
      <4>2. Cardinality((cascaded \ counted) \cup counted)
              = Cardinality(cascaded \ counted) + Cardinality(counted)
                - Cardinality((cascaded \ counted) \cap counted)
        BY <4>1, FS_Union
      <4>3. (cascaded \ counted) \cap counted = {} /\ Cardinality({}) = 0
        BY FS_EmptySet
      <4>4. Cardinality(cascaded) <= Cardinality((cascaded \ counted) \cup counted)
        BY <4>1, Smaller
      <4>5. Cardinality((cascaded \ counted) \cap counted) = 0
        BY <4>3
      <4> QED BY <3>1, <4>2, <4>4, <4>5
    <3>6. Cardinality(cascaded \ counted) <= Used /\ Used \in Nat /\ Used' = Used
      <4>1. Cardinality(Loose(cycle[r])) <= Used
        BY DEF Ceiling
      <4>2. Used \in Nat /\ Used' = Used
        BY <1>1, <2>1, ConstantsOK DEF Used, OnlyCycle, TypeOK
      <4> QED BY <3>4, <4>1, <4>2
    <3>7. Cardinality(cascaded') + Ahead(cycle[r])' <= MaxPerHour + Used'
      BY <2>1, <3>1, <3>3, <3>5, <3>6, ConstantsOK DEF OnlyCycle
    <3>8. Cardinality(Loose(cycle[r])') <= Used'
      <4>1. Loose(cycle[r])' = cascaded \ counted
        BY <1>1, <2>1, <3>2 DEF Loose, OnlyCycle, TypeOK, Cycle
      <4> QED BY <3>6, <4>1
    <3> QED BY <3>7, <3>8 DEF Ceiling
  <2> QED BY <2>2, <2>3
<1>4. CASE RecoverRow(r)
  <2>1. /\ counted \subseteq counted' /\ UNCHANGED <<cascaded, faults>>
        /\ cycle[r].pc = "recover" /\ cycle'[r].pc = "recover"
    BY <1>1, <1>4 DEF RecoverRow, At, TypeOK
  <2>2. Loose(cycle[r])' \subseteq Loose(cycle[r]) /\ Ahead(cycle'[r]) = Ahead(cycle[r])
    BY <2>1 DEF Loose, Ahead
  <2> QED BY <1>1, <2>1, <2>2, CeilingQuiet
<1>5. CASE TakeRow(r)
  <2>1. /\ UNCHANGED <<cascaded, counted, faults>> /\ cycle[r].pc = "row"
        /\ cycle'[r].pc \in {"row", "delete"} /\ cycle'[r].budget = cycle[r].budget
    BY <1>1, <1>5 DEF TakeRow, Skip, At, TypeOK, Cycle
  <2>2. Loose(cycle[r])' \subseteq Loose(cycle[r]) /\ Ahead(cycle'[r]) = Ahead(cycle[r])
    BY <2>1 DEF Loose, Ahead
  <2> QED BY <1>1, <2>1, <2>2, CeilingQuiet
<1>6. CASE Delete(r)
  <2> DEFINE i == cycle[r].row
  <2>1. i \in Rows /\ cycle[r].budget \in Nat /\ cycle[r].budget > 0 /\ cycle[r].pc = "delete"
    BY <1>1, <1>6, ConstantsOK DEF InHand, Delete, At, Cycle
  <2>2. PICK pc \in {"mark", "unclaim"} : Goto(r, pc)
    BY <1>6 DEF Delete
  <2>3. /\ cycle'[r].pc = pc /\ cycle'[r].row = i /\ cycle'[r].budget = cycle[r].budget
    BY <1>1, <2>2 DEF Goto, TypeOK, Cycle
  <2>4. UNCHANGED counted /\ faults' <= faults
    BY <1>1, <1>6 DEF Delete, Fault
  <2>5. Goto(r, "mark") => cycle'[r].pc = "mark"
    BY <1>1 DEF Goto, TypeOK, Cycle
  <2>6. \/ cascaded' = cascaded
        \/ cascaded' = cascaded \cup {i} /\ pc = "mark" /\ faults' = faults
    BY <1>6, <2>3, <2>5 DEF Delete
  <2> HIDE DEF i
  <2>7. Ahead(cycle[r]) = cycle[r].budget /\ Ahead(cycle'[r]) <= cycle[r].budget
    BY <2>1, <2>3 DEF Ahead
  <2>8. CASE cascaded' = cascaded
    <3>1. Loose(cycle[r])' \subseteq Loose(cycle[r])
      BY <2>1, <2>4, <2>8 DEF Loose
    <3> QED BY <2>4, <2>7, <2>8, <3>1, CeilingQuiet
  <2>9. CASE cascaded' = cascaded \cup {i} /\ pc = "mark" /\ faults' = faults
    <3>1. Loose(cycle[r])' \subseteq Loose(cycle[r])
      BY <2>1, <2>3, <2>4, <2>9 DEF Loose
    <3>2. Ahead(cycle'[r]) = cycle[r].budget - 1
      BY <2>3, <2>9 DEF Ahead
    <3>3. Cardinality(cascaded') <= Cardinality(cascaded) + 1
      BY <1>1, <2>9, RowsFinite, FS_AddElement DEF TypeOK
    <3>4. /\ Loose(cycle[r]) \subseteq Rows /\ cascaded \subseteq Rows
          /\ Loose(cycle[r])' \subseteq Rows /\ cascaded' \subseteq Rows
      BY DEF Loose, Shape, TypeOK
    <3>5. /\ Cardinality(Loose(cycle[r])') \in Nat /\ Cardinality(Loose(cycle[r])) \in Nat
          /\ Cardinality(Loose(cycle[r])') <= Cardinality(Loose(cycle[r]))
          /\ Cardinality(cascaded) \in Nat /\ Cardinality(cascaded') \in Nat
      BY <3>1, <3>4, Smaller, RowsFinite
    <3>6. /\ Cardinality(Loose(cycle[r])') - Cardinality(Loose(cycle[r])) <= faults - faults'
          /\ Cardinality(cascaded') + Ahead(cycle'[r]) - (Cardinality(cascaded) + Ahead(cycle[r]))
               <= faults - faults'
      BY <1>1, <2>1, <2>7, <2>9, <3>2, <3>3, <3>5
    <3> QED BY <3>6, CeilingFrom
  <2> QED BY <2>6, <2>8, <2>9
<1>7. CASE MarkDeleted(r)
  <2> DEFINE i == cycle[r].row
  <2>1. /\ i \in Rows /\ state[i] = "deleting" /\ cycle[r].pc = "mark"
        /\ cycle[r].budget \in Nat
    BY <1>1, <1>7, ConstantsOK DEF InHand, Held, MarkDeleted, At, Cycle
  <2>2. cycle'[r].pc = "row" /\ cycle'[r].budget = cycle[r].budget - 1
    BY <1>1, <1>7 DEF MarkDeleted, Counted, TypeOK, Cycle
  <2>3. UNCHANGED cascaded
    BY <1>7 DEF MarkDeleted
  <2>4. Ahead(cycle'[r]) = Ahead(cycle[r])
    BY <2>1, <2>2 DEF Ahead
  <2>5. CASE counted' = counted \cup {i} /\ UNCHANGED faults
    <3>1. Loose(cycle[r])' \subseteq Loose(cycle[r])
      BY <2>1, <2>2, <2>3, <2>5 DEF Loose
    <3> QED BY <1>1, <2>3, <2>4, <2>5, <3>1, CeilingQuiet
  <2>6. CASE UNCHANGED counted /\ Fault
    <3> HIDE DEF i
    <3>1. Loose(cycle[r])' \subseteq Loose(cycle[r]) \cup {i}
      BY <2>2, <2>3, <2>6 DEF Loose, i
    <3>2. /\ Loose(cycle[r]) \cup {i} \subseteq Rows /\ cascaded \subseteq Rows
          /\ Loose(cycle[r]) \subseteq Rows /\ Loose(cycle[r])' \subseteq Rows
      BY <2>1 DEF Loose, Shape, TypeOK
    <3>3. /\ Cardinality(Loose(cycle[r])') <= Cardinality(Loose(cycle[r]) \cup {i})
          /\ Cardinality(Loose(cycle[r]) \cup {i}) \in Nat
          /\ Cardinality(Loose(cycle[r])') \in Nat
          /\ Cardinality(Loose(cycle[r])) \in Nat /\ Cardinality(cascaded) \in Nat
      BY <3>1, <3>2, Smaller, RowsFinite
    <3>4. Cardinality(Loose(cycle[r]) \cup {i}) <= Cardinality(Loose(cycle[r])) + 1
      BY <3>2, RowsFinite, OneMore
    <3>5. faults - faults' = 1
      BY <1>1, <2>6 DEF Fault
    <3>6. /\ Cardinality(Loose(cycle[r])') - Cardinality(Loose(cycle[r])) <= faults - faults'
          /\ Cardinality(cascaded') + Ahead(cycle'[r]) - (Cardinality(cascaded) + Ahead(cycle[r]))
               <= faults - faults'
      <4>1. Cardinality(Loose(cycle[r])') <= Cardinality(Loose(cycle[r])) + 1
        BY <3>3, <3>4
      <4>2. Cardinality(Loose(cycle[r])') - Cardinality(Loose(cycle[r])) <= faults - faults'
        BY <3>3, <3>5, <4>1
      <4>3. Cardinality(cascaded') + Ahead(cycle'[r])
              - (Cardinality(cascaded) + Ahead(cycle[r])) = 0
        BY <1>1, <2>3, <2>4, <3>3
      <4> QED BY <3>5, <4>2, <4>3
    <3> QED BY <3>6, CeilingFrom
  <2> QED BY <1>7, <2>1, <2>5, <2>6 DEF MarkDeleted
<1>8. CASE Unclaim(r)
  <2>1. /\ UNCHANGED <<cascaded, counted, faults>> /\ cycle[r].pc = "unclaim"
        /\ cycle'[r].pc = "row" /\ cycle'[r].budget = cycle[r].budget
    BY <1>1, <1>8 DEF Unclaim, At, TypeOK, Cycle
  <2>2. Loose(cycle[r])' \subseteq Loose(cycle[r]) /\ Ahead(cycle'[r]) = Ahead(cycle[r])
    BY <2>1 DEF Loose, Ahead
  <2> QED BY <1>1, <2>1, <2>2, CeilingQuiet
<1>9. CASE Crash(r)
  <2> DEFINE i == cycle[r].row
  <2>1. /\ UNCHANGED <<cascaded, counted>> /\ faults - faults' = 1 /\ cycle'[r] = Resting
    BY <1>1, <1>9 DEF Crash, Fault, EndCycle, TypeOK
  <2>2. Ahead(cycle'[r]) = 0
    BY <2>1 DEF Ahead, Resting
  <2> HIDE DEF i
  <2>3. Loose(cycle[r])' \subseteq Loose(cycle[r]) \cup {i}
    BY <2>1 DEF Loose, i
  <2>4. /\ Loose(cycle[r]) \subseteq Rows /\ Loose(cycle[r])' \subseteq Rows
        /\ cascaded \subseteq Rows
    BY DEF Loose, Shape, TypeOK
  <2>5. /\ IsFiniteSet(Loose(cycle[r])) /\ Cardinality(Loose(cycle[r])) \in Nat
        /\ Cardinality(Loose(cycle[r])') \in Nat /\ Cardinality(cascaded) \in Nat
    BY <2>4, RowsFinite
  <2>6. /\ IsFiniteSet(Loose(cycle[r]) \cup {i})
        /\ Cardinality(Loose(cycle[r]) \cup {i}) \in Nat
        /\ Cardinality(Loose(cycle[r]) \cup {i}) <= Cardinality(Loose(cycle[r])) + 1
    BY <2>5, OneMore
  <2>7. Cardinality(Loose(cycle[r])') <= Cardinality(Loose(cycle[r]) \cup {i})
    BY <2>3, <2>6, FS_Subset
  <2>8. /\ Cardinality(Loose(cycle[r])') - Cardinality(Loose(cycle[r])) <= faults - faults'
        /\ Cardinality(cascaded') + Ahead(cycle'[r]) - (Cardinality(cascaded) + Ahead(cycle[r]))
             <= faults - faults'
    <3>1. Cardinality(Loose(cycle[r])') <= Cardinality(Loose(cycle[r])) + 1
      BY <2>5, <2>6, <2>7
    <3>2. Cardinality(Loose(cycle[r])') - Cardinality(Loose(cycle[r])) <= faults - faults'
      BY <2>1, <2>5, <3>1
    <3>3. Cardinality(cascaded') = Cardinality(cascaded)
      BY <2>1
    <3>4. ASSUME NEW n \in Nat, NEW m \in Nat PROVE n + 0 - (n + m) <= 1
      OBVIOUS
    <3> QED BY <1>1, <2>1, <2>2, <2>5, <3>2, <3>3, <3>4
  <2> QED BY <2>8, CeilingFrom
<1> QED BY <1>2, <1>3, <1>4, <1>5, <1>6, <1>7, <1>8, <1>9 DEF Steps

LEMMA CeilingWorld ==
  ASSUME Shape, Shape', Ceiling, NEW r, Reapers = {r}, World
  PROVE  Ceiling'
<1>1. UNCHANGED <<cycle, faults>> /\ cascaded' \subseteq cascaded
        /\ cascaded' \ counted' \subseteq cascaded \ counted
  BY DEF World, BecomesDue, Restore, RemoveDocument, ClaimAges, HourPasses, IndexAttempt
<1>2. Loose(cycle[r])' \subseteq Loose(cycle[r])
  BY <1>1 DEF Loose
<1>3. Ahead(cycle[r]) \in Nat /\ faults \in Nat
  BY AheadType DEF Shape, InHand, TypeOK
<1> QED BY <1>1, <1>2, <1>3, CeilingQuiet

LEMMA CeilingNext ==
  ASSUME OneReaper
  PROVE  Shape /\ Shape' /\ Truth /\ Ceiling /\ [Next]_vars => Ceiling'
<1> SUFFICES ASSUME Shape, Shape', Truth, Ceiling, [Next]_vars PROVE Ceiling'
  OBVIOUS
<1>1. PICK r : Reapers = {r}
  BY DEF OneReaper
<1>2. CASE UNCHANGED vars
  BY <1>2 DEF vars, Ceiling, Loose, Ahead, Used
<1> QED BY <1>1, <1>2, CeilingStep, CeilingWorld DEF Next

\* The ceiling holds over every trailing hour, across cycles, batches and
\* restarts: each crash or failed statement costs one document at most
\* (deleted_last_hour, mark_deleted).
THEOREM CeilingHolds ==
  ASSUME OneReaper
  PROVE  Spec => []OvershootBounded
<1>1. Shape /\ Shape' /\ Truth /\ [Next]_vars => Truth'
  BY TruthNext
<1>2. Shape /\ Shape' /\ Truth /\ Ceiling /\ [Next]_vars => Ceiling'
  BY CeilingNext
<1>3. Shape /\ Ceiling => OvershootBounded
  <2> SUFFICES ASSUME Shape, Ceiling PROVE OvershootBounded
    OBVIOUS
  <2>1. PICK r \in Reapers : Reapers = {r}
    BY DEF OneReaper
  <2>2. Ahead(cycle[r]) \in Nat /\ Cardinality(cascaded) \in Nat /\ faults \in Nat
    BY AheadType, RowsFinite DEF Shape, InHand, TypeOK
  <2> QED BY <2>2, ConstantsOK DEF Ceiling, Used, OvershootBounded
<1> QED BY ShapeInit, ShapeNext, TruthInit, CeilingInit, <1>1, <1>2, <1>3, PTL DEF Spec
=============================================================================
