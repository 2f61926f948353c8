--------------------------- MODULE PruneScanProofs ---------------------------
(***************************************************************************)
(* A scan never skips a page: for every number of runners, scans, phases   *)
(* and documents, and any number of failures, a checkpoint is backed by    *)
(* the rows written before it, and a finished scan has seen its scope.     *)
(* With one instance that can run the scans they are run in order, and     *)
(* then a scan closes no document it has flagged and obeys its             *)
(* cancellation.                                                           *)
(***************************************************************************)
EXTENDS PruneScan, OrderLemmas

(***************************************************************************)
(* The helpers of the model, over the documents and the phases.            *)
(***************************************************************************)
LEMMA DocsOK ==
  /\ Docs \subseteq Int /\ IsFiniteSet(Docs)
  /\ Phases \subseteq Int /\ IsFiniteSet(Phases)
  /\ Scans \subseteq Int /\ IsFiniteSet(Scans)
BY ConstantsOK, FS_Interval DEF Docs, Phases, Scans

LEMMA LeastOK ==
  ASSUME NEW S \in SUBSET Int, IsFiniteSet(S), S # {}
  PROVE  Least(S) \in S /\ \A x \in S : Least(S) <= x
BY LeastExists DEF Least

LEMMA GreatestOK ==
  ASSUME NEW S \in SUBSET Int, IsFiniteSet(S), S # {}
  PROVE  Greatest(S) \in S /\ \A x \in S : Greatest(S) >= x
BY GreatestExists DEF Greatest

\* The first n of a set leave out nothing that is below one of them ...
LEMMA FirstIsLower ==
  ASSUME NEW S \in SUBSET Docs, NEW n \in Nat, NEW d \in First(n, S), NEW e \in S, e <= d
  PROVE  e \in First(n, S)
<1> DEFINE Below(x) == {j \in S : j < x}
<1>1. d \in S /\ Cardinality(Below(d)) < n
  BY DEF First
<1>2. Below(e) \subseteq Below(d)
  <2> SUFFICES ASSUME NEW j \in S, j < e PROVE j < d
    OBVIOUS
  <2>1. j \in Int /\ e \in Int /\ d \in Int
    BY <1>1, DocsOK
  <2> QED BY <2>1
<1>3. IsFiniteSet(Below(d)) /\ IsFiniteSet(Below(e))
  BY DocsOK, FS_Subset
<1>4. Cardinality(Below(e)) <= Cardinality(Below(d))
  BY <1>2, <1>3, FS_Subset
<1>5. Cardinality(Below(e)) \in Nat /\ Cardinality(Below(d)) \in Nat
  BY <1>3, FS_CardinalityType
<1>6. Cardinality(Below(e)) < n
  BY <1>1, <1>4, <1>5
<1> QED BY <1>6 DEF First

\* ... and are none only when the set is empty.
LEMMA FirstOfSome ==
  ASSUME NEW S \in SUBSET Docs, S # {}, NEW n \in Nat \ {0}
  PROVE  First(n, S) # {}
<1>1. S \in SUBSET Int /\ IsFiniteSet(S)
  BY DocsOK, FS_Subset
<1>2. PICK d \in S : \A e \in S : d <= e
  BY <1>1, LeastExists
<1>3. {j \in S : j < d} = {}
  <2> SUFFICES ASSUME NEW j \in S PROVE ~(j < d)
    OBVIOUS
  <2>1. j \in Int /\ d \in Int /\ d <= j
    BY <1>1, <1>2
  <2> QED BY <2>1
<1>4. Cardinality({j \in S : j < d}) < n
  BY <1>3, FS_EmptySet
<1> QED BY <1>4 DEF First

(***************************************************************************)
(* Types.                                                                  *)
(***************************************************************************)
LEMMA NextToRunOK ==
  ASSUME NextToRun # {}
  PROVE  Least(NextToRun) \in NextToRun /\ Least(NextToRun) \in Scans
<1>1. NextToRun \subseteq Scans
  BY DEF NextToRun
<1>2. NextToRun \in SUBSET Int /\ IsFiniteSet(NextToRun)
  BY <1>1, DocsOK, FS_Subset
<1> QED BY <1>1, <1>2, LeastOK

LEMMA UnbornOK ==
  ASSUME {s \in Scans : scan[s].status = "absent"} # {}
  PROVE  LET u == {s \in Scans : scan[s].status = "absent"} IN
         Least(u) \in Scans /\ scan[Least(u)].status = "absent"
<1> DEFINE u == {s \in Scans : scan[s].status = "absent"}
<1>1. u \in SUBSET Int /\ IsFiniteSet(u) /\ u # {}
  BY DocsOK, FS_Subset
<1>2. Least(u) \in u
  <2> HIDE DEF u
  <2> QED BY <1>1, LeastOK
<1> QED BY <1>2

LEMMA WantedOK ==
  ASSUME NEW w \in SUBSET Detectors
  PROVE  UNION {PhasesOf[v] : v \in w} \subseteq Phases
BY ConstantsOK

LEMMA LeftOK ==
  ASSUME TypeOK, NEW r \in Runners, run[r].scan \in Scans, Left(r) # {}
  PROVE  Least(Left(r)) \in Left(r) /\ Least(Left(r)) \in Phases /\ Left(r) \subseteq Phases
<1>1. scan[run[r].scan].wants \in SUBSET Detectors
  BY DEF TypeOK, Scan
<1>2. Left(r) \subseteq Phases
  BY <1>1, WantedOK DEF Left, Wanted
<1>3. Left(r) \in SUBSET Int /\ IsFiniteSet(Left(r))
  BY <1>2, DocsOK, FS_Subset
<1> QED BY <1>2, <1>3, LeastOK

LEMMA PageOK ==
  ASSUME TypeOK, NEW r \in Runners, run[r].scan \in Scans, NEW p
  PROVE  Page(r, p) \subseteq scan[run[r].scan].scope /\ Page(r, p) \subseteq Docs
BY DEF TypeOK, Scan, Page, First

LEMMA LookupOK ==
  ASSUME TypeOK, NEW r \in Runners, run[r].scan \in Scans, NEW p,
         NEW page \in SUBSET Docs, NEW blind
  PROVE  Lookup(r, p, page, blind) \subseteq Hit
<1> SUFFICES ASSUME NEW d \in page
             PROVE  [doc |-> d, 
                     reasons |-> (IF Open(d) THEN row[d].reasons ELSE {}) \cup Flags(r, p, d, blind),
                     row |-> IF Open(d) THEN row[d].n ELSE 0] \in Hit
  BY DEF Lookup
<1>1. row[d] \in Row
  BY DEF TypeOK
<1>2. row[d].reasons \subseteq Reasons /\ row[d].n \in Nat
  BY <1>1 DEF Row
<1>3. Flags(r, p, d, blind) \subseteq Reasons
  BY DEF Flags, TypeOK, Scan, Reasons
<1> QED BY <1>2, <1>3 DEF Hit

LEMMA StampOK ==
  ASSUME TypeOK, NEW s \in Scans, NEW h \in Hit
  PROVE  Stamp(s, h) \in Row
<1>1. h.doc \in Docs /\ h.reasons \in SUBSET Reasons /\ h.row \in Nat
  BY DEF Hit
<1>2. row[h.doc] \in Row
  BY <1>1 DEF TypeOK
<1>3. s \in 0 .. MaxScan /\ 0 \in 0 .. MaxScan
  BY ConstantsOK DEF Scans
<1>4. /\ row[h.doc].n \in Nat
      /\ row[h.doc].state \in {"none", "candidate", "staged", "closed"}
      /\ row[h.doc].closer \in 0 .. MaxScan
  BY <1>2 DEF Row
<1>5. CASE h.row = 0
  <2>1. Stamp(s, h) = [row[h.doc] EXCEPT !.n = @ + 1, !.state = "candidate", !.scan = s,
                                         !.reasons = h.reasons, !.closer = 0]
    BY <1>5, <1>2 DEF Stamp, Row
  <2>2. row[h.doc].n + 1 \in Nat
    BY <1>4
  <2>3. ASSUME NEW k \in Nat
        PROVE  [row[h.doc] EXCEPT !.n = k, !.state = "candidate", !.scan = s,
                                  !.reasons = h.reasons, !.closer = 0] \in Row
    BY <1>1, <1>2, <1>3 DEF Row
  <2> QED BY <2>1, <2>2, <2>3
<1>6. CASE h.row # 0
  <2>1. Stamp(s, h) = [row[h.doc] EXCEPT !.scan = s, !.reasons = h.reasons]
    BY <1>6, <1>2 DEF Stamp, Row
  <2> QED BY <2>1, <1>1, <1>2, <1>3, <1>4 DEF Row
<1> QED BY <1>5, <1>6

LEMMA WrittenOK ==
  ASSUME TypeOK, NEW s \in Scans, NEW H \in SUBSET Hit
  PROVE  Written(s, H) \in [Docs -> Row]
<1> SUFFICES ASSUME NEW d \in Docs PROVE Written(s, H)[d] \in Row
  BY DEF Written
<1> DEFINE now == {h \in H : h.doc = d /\ Lands(h)}
<1>1. CASE now = {}
  BY <1>1 DEF Written, TypeOK
<1>2. CASE now # {}
  <2>1. (CHOOSE h \in now : TRUE) \in Hit
    BY <1>2
  <2>2. Stamp(s, CHOOSE h \in now : TRUE) \in Row
    BY <2>1, StampOK
  <2> QED BY <1>2, <2>2 DEF Written
<1> QED BY <1>1, <1>2

LEMMA PartlyWrittenOK ==
  ASSUME NEW H \in SUBSET Hit, NEW G \in PartlyWritten(H)
  PROVE  G \subseteq H
BY DEF PartlyWritten

LEMMA DocOfHits ==
  ASSUME NEW H \in SUBSET Hit
  PROVE  {h.doc : h \in H} \subseteq Docs
BY DEF Hit

LEMMA GreatestOfPage ==
  ASSUME NEW S \in SUBSET Docs, S # {}
  PROVE  Greatest(S) \in S /\ Greatest(S) \in Docs /\ \A d \in S : d <= Greatest(S)
<1>1. S \in SUBSET Int /\ IsFiniteSet(S)
  BY DocsOK, FS_Subset
<1>2. Greatest(S) \in S /\ \A x \in S : Greatest(S) >= x
  BY <1>1, GreatestOK
<1>3. \A x \in S : x \in Int
  BY <1>1
<1> QED BY <1>2, <1>3

(***************************************************************************)
(* The inductive invariant.  What a runner at work relies on, in terms of  *)
(* the scan's row c, the runner's own state u and the pages J written for  *)
(* the scan: priming such an operator is priming its arguments.            *)
(***************************************************************************)
LeftOf(c, u) == (UNION {PhasesOf[w] : w \in c.wants}) \ u.done
NextPhase(c, u) == Least(LeftOf(c, u))
PageOf(c, u, p) ==
  First(PageSize, {d \in c.scope : d > (IF u.phase = p THEN u.cursor ELSE 0)})

BackedBy(J, scope, done, phase, cursor) ==
  /\ \A p \in done : scope \subseteq J[p]
  /\ phase # 0 => {d \in scope : d <= cursor} \subseteq J[phase]

Walking == {"page", "write", "save", "close", "finish"}

Sound(c, u, J) ==
  /\ c.status # "absent"
  /\ u.pc \in Walking => BackedBy(J, c.scope, u.done, u.phase, u.cursor)
  /\ u.pc \in {"write", "save"} =>
       /\ LeftOf(c, u) # {}
       /\ u.page # {}
       /\ u.page = PageOf(c, u, NextPhase(c, u))
  /\ u.pc = "save" => u.page \subseteq J[NextPhase(c, u)]
  /\ u.pc \in {"close", "finish"} => LeftOf(c, u) = {}

RunOK(r) ==
  run[r].pc # "idle" =>
    /\ run[r].scan \in Scans
    /\ Sound(scan[run[r].scan], run[r], judged[run[r].scan])

RunsOK == \A r \in Runners : RunOK(r)

\* Failed runs are counted no lower in the history than in the scan's row.
RetriesCounted == \A s \in Scans : scan[s].retries <= losses[s]

IInv == TypeOK /\ RunsOK /\ CheckpointBacked /\ DoneIsComplete /\ RetriesCounted

LEMMA RunTyped ==
  ASSUME TypeOK, NEW r \in Runners
  PROVE  run[r] \in Run
BY DEF TypeOK

LEMMA ScanRowTyped ==
  ASSUME TypeOK, NEW s \in Scans
  PROVE  scan[s] \in Scan
BY DEF TypeOK

\* The phase a runner is in, and its page, while it writes and saves.
LEMMA AtPage ==
  ASSUME TypeOK, RunsOK, NEW r \in Runners, run[r].pc \in {"write", "save"}
  PROVE  /\ run[r].scan \in Scans
         /\ Left(r) # {} /\ Least(Left(r)) \in Left(r) /\ Least(Left(r)) \in Phases
         /\ Left(r) = LeftOf(scan[run[r].scan], run[r])
         /\ run[r].page # {} /\ run[r].page \subseteq Docs
         /\ run[r].page \subseteq scan[run[r].scan].scope
         /\ run[r].page = Page(r, Least(Left(r)))
<1>1. run[r].scan \in Scans /\ Sound(scan[run[r].scan], run[r], judged[run[r].scan])
  BY DEF RunsOK, RunOK
<1>2. Left(r) = LeftOf(scan[run[r].scan], run[r])
  BY DEF Left, Wanted, LeftOf
<1>3. Left(r) # {} /\ run[r].page # {}
  BY <1>1, <1>2 DEF Sound
<1>4. Least(Left(r)) \in Left(r) /\ Least(Left(r)) \in Phases
  BY <1>1, <1>3, LeftOK
<1>5. run[r].page = Page(r, Least(Left(r)))
  BY <1>1, <1>2 DEF Sound, NextPhase, PageOf, Page, CursorIn
<1>6. run[r].page \subseteq scan[run[r].scan].scope /\ run[r].page \subseteq Docs
  BY <1>1, <1>5, PageOK
<1> QED BY <1>1, <1>2, <1>3, <1>4, <1>5, <1>6

LEMMA ConstantsTyped ==
  /\ Unborn \in Scan /\ NoRow \in Row /\ Resting \in Run
  /\ 0 \in 0 .. MaxScan /\ 0 \in 0 .. LastPhase /\ 0 \in 0 .. MaxDoc
  /\ Scans \subseteq 0 .. MaxScan /\ Phases \subseteq 0 .. LastPhase /\ Docs \subseteq 0 .. MaxDoc
  /\ Scans = 0 .. MaxScan \ {0}
BY ConstantsOK DEF Unborn, NoRow, Resting, Scan, Row, Run, Statuses, PCs, Scans, Phases, Docs

LEMMA InitTyped == Init => TypeOK
<1> SUFFICES ASSUME Init PROVE TypeOK
  OBVIOUS
<1>1. row \in [Docs -> Row] /\ match \in [Docs -> SUBSET Detectors]
  BY ConstantsOK DEF Init
<1>2. edits \in 0 .. MaxEdits /\ faults \in 0 .. MaxFaults
  BY ConstantsOK DEF Init
<1>3. scan \in [Scans -> Scan] /\ run \in [Runners -> Run]
  BY ConstantsTyped DEF Init
<1> QED BY <1>1, <1>2, <1>3 DEF Init, TypeOK

LEMMA RunEdited ==
  ASSUME TypeOK, NEW r \in Runners, NEW pc \in PCs
  PROVE  [run EXCEPT ![r].pc = pc] \in [Runners -> Run]
<1>1. run[r] \in Run
  BY DEF TypeOK
<1>2. [run[r] EXCEPT !.pc = pc] \in Run
  BY <1>1 DEF Run
<1> QED BY <1>2 DEF TypeOK

LEMMA ScanEdited ==
  ASSUME TypeOK, NEW s \in Scans, NEW st \in Statuses
  PROVE  [scan EXCEPT ![s].status = st] \in [Scans -> Scan]
<1>1. scan[s] \in Scan
  BY DEF TypeOK
<1>2. [scan[s] EXCEPT !.status = st] \in Scan
  BY <1>1 DEF Scan
<1> QED BY <1>2 DEF TypeOK

LEMMA SavedTyped ==
  ASSUME TypeOK, NEW s \in Scans, NEW done \in SUBSET Phases, NEW phase \in 0 .. LastPhase,
         NEW cursor \in 0 .. MaxDoc
  PROVE  Saved(s, done, phase, cursor) \in [Scans -> Scan]
<1>1. scan[s] \in Scan
  BY DEF TypeOK
<1>2. [scan[s] EXCEPT !.done = done, !.phase = phase, !.cursor = cursor, !.retries = 0] \in Scan
  BY <1>1 DEF Scan
<1> QED BY <1>2 DEF TypeOK, Saved

LEMMA RetryTyped ==
  ASSUME TypeOK, NEW s \in Scans, NEW c \in Scan
  PROVE  Retry(s, c) \in [Scans -> Scan]
<1>1. [c EXCEPT !.retries = @ + 1] \in Scan
  BY DEF Scan
<1>2. [scan EXCEPT ![s] = [c EXCEPT !.retries = @ + 1]] \in [Scans -> Scan]
  BY <1>1 DEF TypeOK
<1>3. [scan EXCEPT ![s].status = "failed"] \in [Scans -> Scan]
  BY ScanEdited DEF Statuses
<1> QED BY <1>2, <1>3 DEF Retry

\* The actions of the runner that only move its program counter on.
LEMMA FailsTyped ==
  ASSUME TypeOK, NEW r \in Runners, Fails(r)
  PROVE  run' \in [Runners -> Run] /\ faults' \in 0 .. MaxFaults
<1>1. faults' \in 0 .. MaxFaults
  BY ConstantsOK DEF Fails, Fault, TypeOK
<1>2. run' = [run EXCEPT ![r].pc = "error"]
  BY DEF Fails, Goto
<1> QED BY <1>1, <1>2, RunEdited DEF PCs

LEMMA FaultTyped ==
  ASSUME TypeOK, Fault
  PROVE  faults' \in 0 .. MaxFaults
BY ConstantsOK DEF Fault, TypeOK

LEMMA EndRunTyped ==
  ASSUME TypeOK, NEW r \in Runners, EndRun(r)
  PROVE  run' \in [Runners -> Run]
BY ConstantsTyped DEF EndRun, TypeOK

LEMMA GotoTyped ==
  ASSUME TypeOK, NEW r \in Runners, NEW pc \in PCs, Goto(r, pc)
  PROVE  run' \in [Runners -> Run]
BY RunEdited DEF Goto

\* What the other actors do keeps the types.
LEMMA OthersTyped ==
  ASSUME TypeOK, Others
  PROVE  TypeOK'
<1> USE DEF rows, history
<1>1. ASSUME NEW o \in Operators, CheckSlot(o) PROVE TypeOK'
  BY <1>1 DEF CheckSlot, TypeOK
<1>2. ASSUME NEW o \in Operators, Insert(o) PROVE TypeOK'
  <2>1. creator' \in [Operators -> {"idle", "checked"}]
    BY <1>2 DEF Insert, TypeOK
  <2>2. scan' \in [Scans -> Scan] /\ faults' \in 0 .. MaxFaults
    <3> DEFINE u == {s \in Scans : scan[s].status = "absent"}
    <3>1. CASE Fault /\ UNCHANGED scan
      BY <3>1, FaultTyped DEF TypeOK
    <3>2. ASSUME NEW q \in Requests, u # {}, UNCHANGED faults,
                 scan' = [scan EXCEPT ![Least(u)] =
                   [Unborn EXCEPT !.status = "queued", !.wants = q.wants, !.scope = q.scope]]
          PROVE  scan' \in [Scans -> Scan] /\ faults' \in 0 .. MaxFaults
      <4>1. Least(u) \in Scans
        BY <3>2, UnbornOK
      <4>2. q.wants \in SUBSET Detectors /\ q.scope \in SUBSET Docs
        BY ConstantsOK
      <4>3. [Unborn EXCEPT !.status = "queued", !.wants = q.wants, !.scope = q.scope] \in Scan
        BY <4>2, ConstantsTyped DEF Unborn, Scan, Statuses
      <4> HIDE DEF u
      <4> QED BY <3>2, <4>1, <4>3 DEF TypeOK
    <3> QED BY <1>2, <3>1, <3>2 DEF Insert
  <2> QED BY <1>2, <2>1, <2>2 DEF Insert, TypeOK
<1>3. ASSUME NEW s \in Scans, Cancel(s) PROVE TypeOK'
  BY <1>3, ScanEdited DEF Cancel, TypeOK, Statuses
<1>4. ASSUME NEW r \in Runners, Crash(r) PROVE TypeOK'
  <2>1. run' \in [Runners -> Run] /\ faults' \in 0 .. MaxFaults
    BY <1>4, EndRunTyped, FaultTyped DEF Crash
  <2> QED BY <1>4, <2>1 DEF Crash, TypeOK
<1>5. ASSUME NEW d \in Docs, Change(d) PROVE TypeOK'
  <2>1. edits' \in 0 .. MaxEdits
    BY <1>5, ConstantsOK DEF Change, Edit, TypeOK
  <2>2. match' \in [Docs -> SUBSET Detectors]
    BY <1>5 DEF Change, TypeOK
  <2> QED BY <1>5, <2>1, <2>2 DEF Change, TypeOK
<1>6. ASSUME NEW d \in Docs, Stage(d) PROVE TypeOK'
  <2>1. edits' \in 0 .. MaxEdits
    BY <1>6, ConstantsOK DEF Stage, Edit, TypeOK
  <2>2. [row[d] EXCEPT !.state = "staged"] \in Row
    <3>1. row[d] \in Row
      BY DEF TypeOK
    <3> QED BY <3>1 DEF Row
  <2>3. row' \in [Docs -> Row]
    BY <1>6, <2>2 DEF Stage, TypeOK
  <2> QED BY <1>6, <2>1, <2>3 DEF Stage, TypeOK
<1>7. ASSUME NEW d \in Docs, Dismiss(d) PROVE TypeOK'
  <2>1. edits' \in 0 .. MaxEdits
    BY <1>7, ConstantsOK DEF Dismiss, Edit, TypeOK
  <2>2. [row[d] EXCEPT !.state = "closed"] \in Row
    <3>1. row[d] \in Row
      BY DEF TypeOK
    <3> QED BY <3>1 DEF Row
  <2>3. row' \in [Docs -> Row] /\ excluded' \subseteq Docs
    BY <1>7, <2>2 DEF Dismiss, TypeOK
  <2> QED BY <1>7, <2>1, <2>3 DEF Dismiss, TypeOK
<1>8. ASSUME NEW d \in Docs, Commit(d) PROVE TypeOK'
  <2>1. edits' \in 0 .. MaxEdits
    BY <1>8, ConstantsOK DEF Commit, Edit, TypeOK
  <2>2. row[d] \in Row /\ row[d].n + 1 \in Nat
    BY DEF TypeOK, Row
  <2>3. [row[d] EXCEPT !.reasons = @ \cup {Foreign}] \in Row
    BY <2>2 DEF Row, Reasons
  <2>4. ASSUME NEW k \in Nat
        PROVE  [NoRow EXCEPT !.n = k, !.state = "candidate", !.reasons = {Foreign}] \in Row
    BY ConstantsTyped DEF NoRow, Row, Reasons
  <2>5. ASSUME Open(d) PROVE row' \in [Docs -> Row]
    <3>1. row' = [row EXCEPT ![d] = [row[d] EXCEPT !.reasons = row[d].reasons \cup {Foreign}]]
      BY <1>8, <2>5 DEF Commit
    <3> QED BY <2>3, <3>1 DEF TypeOK
  <2>6. ASSUME ~Open(d) PROVE row' \in [Docs -> Row]
    <3>1. row' = [row EXCEPT ![d] =
            [NoRow EXCEPT !.n = row[d].n + 1, !.state = "candidate", !.reasons = {Foreign}]]
      BY <1>8, <2>6 DEF Commit
    <3> QED BY <2>2, <2>4, <3>1 DEF TypeOK
  <2>7. row' \in [Docs -> Row]
    BY <2>5, <2>6
  <2> QED BY <1>8, <2>1, <2>7 DEF Commit, TypeOK
<1> QED BY <1>1, <1>2, <1>3, <1>4, <1>5, <1>6, <1>7, <1>8 DEF Others

\* What the steps of a runner do keeps the types.
LEMMA RunnerTyped ==
  ASSUME TypeOK, RunsOK, NEW r \in Runners, RunnerStep(r)
  PROVE  TypeOK'
<1> USE DEF rows, history
<1> DEFINE s == run[r].scan
<1>1. CASE Poll(r)
  <2>1. Least(NextToRun) \in 0 .. MaxScan
    BY <1>1, NextToRunOK, ConstantsTyped DEF Poll
  <2>2. [Resting EXCEPT !.pc = "polled", !.scan = Least(NextToRun)] \in Run
    BY <2>1, ConstantsTyped DEF Resting, Run, PCs
  <2>3. run' \in [Runners -> Run]
    BY <1>1, <2>2 DEF Poll, TypeOK
  <2> QED BY <1>1, <2>3 DEF Poll, TypeOK
<1> SUFFICES ASSUME run[r].pc # "idle", s \in Scans PROVE TypeOK'
  BY <1>1 DEF RunnerStep, RunsOK, RunOK, Mark, Load, ReadPage, EndPhase, WritePage, SavePage,
       SaveLast, Close, Finish, Stop, HandleError, At
<1>s. scan[s] \in Scan /\ run[r] \in Run
  BY DEF TypeOK
<1>p. /\ scan[s].done \in SUBSET Phases /\ scan[s].phase \in 0 .. LastPhase
      /\ scan[s].cursor \in 0 .. MaxDoc /\ scan[s].wants \in SUBSET Detectors
      /\ run[r].done \in SUBSET Phases /\ run[r].phase \in 0 .. LastPhase
      /\ run[r].cursor \in 0 .. MaxDoc /\ run[r].hits \in SUBSET Hit
      /\ run[r].page \in SUBSET Docs
  BY <1>s DEF Scan, Run
<1>2. CASE Mark(r)
  <2>1. run' \in [Runners -> Run]
    BY <1>2, EndRunTyped, GotoTyped DEF Mark, PCs
  <2>2. faults' = faults \/ Fault
    BY <1>2 DEF Mark
  <2>3. faults' \in 0 .. MaxFaults
    BY <2>2, FaultTyped DEF TypeOK
  <2>4. scan' = scan \/ scan' = [scan EXCEPT ![s].status = "running"]
    BY <1>2 DEF Mark
  <2>5. scan' \in [Scans -> Scan]
    <3>1. {"running", "done", "cancelled"} \subseteq Statuses
      BY DEF Statuses
    <3>2. \A st \in Statuses : [scan EXCEPT ![s].status = st] \in [Scans -> Scan]
      BY ScanEdited
    <3>3. scan \in [Scans -> Scan]
      BY DEF TypeOK
    <3> HIDE DEF s
    <3> QED BY <2>4, <3>1, <3>2, <3>3
  <2> QED BY <1>2, <2>1, <2>3, <2>5 DEF Mark, TypeOK
<1>3. CASE Load(r)
  <2>1. CASE EndRun(r) /\ UNCHANGED faults
    <3>1. run' \in [Runners -> Run]
      BY <2>1, EndRunTyped
    <3> QED BY <1>3, <2>1, <3>1 DEF Load, TypeOK
  <2>2. CASE Fails(r)
    <3>1. run' \in [Runners -> Run] /\ faults' \in 0 .. MaxFaults
      BY <2>2, FailsTyped
    <3> QED BY <1>3, <3>1 DEF Load, TypeOK
  <2>3. CASE /\ run' = [run EXCEPT ![r].pc = "page", ![r].done = scan[s].done,
                                   ![r].phase = scan[s].phase, ![r].cursor = scan[s].cursor]
             /\ UNCHANGED faults
    <3>1. [run[r] EXCEPT !.pc = "page", !.done = scan[s].done, !.phase = scan[s].phase,
                         !.cursor = scan[s].cursor] \in Run
      BY <1>s, <1>p DEF Run, PCs
    <3>2. run' \in [Runners -> Run]
      BY <2>3, <3>1 DEF TypeOK
    <3> QED BY <1>3, <2>3, <3>2 DEF Load, TypeOK
  <2> QED BY <1>3, <2>1, <2>2, <2>3 DEF Load
<1>4. CASE ReadPage(r)
  <2> DEFINE p == Least(Left(r))
  <2>0. p \in Phases /\ Page(r, p) \subseteq Docs
    BY <1>4, LeftOK, PageOK DEF ReadPage
  <2>1. CASE Fails(r)
    <3>1. run' \in [Runners -> Run] /\ faults' \in 0 .. MaxFaults
      BY <2>1, FailsTyped
    <3> QED BY <1>4, <3>1 DEF ReadPage, TypeOK
  <2>2. ASSUME NEW hits \in SUBSET Hit, faults' \in 0 .. MaxFaults,
               run' = [run EXCEPT ![r].pc = "write", ![r].page = Page(r, p), ![r].hits = hits]
        PROVE  TypeOK'
    <3>1. [run[r] EXCEPT !.pc = "write", !.page = Page(r, p), !.hits = hits] \in Run
      BY <1>s, <2>0, <2>2 DEF Run, PCs
    <3>2. run' \in [Runners -> Run]
      BY <2>2, <3>1 DEF TypeOK
    <3> QED BY <1>4, <2>2, <3>2 DEF ReadPage, TypeOK
  <2>3. \A blind : Lookup(r, p, Page(r, p), blind) \in SUBSET Hit
    BY <2>0, LookupOK
  <2>4. faults' = faults \/ Fault => faults' \in 0 .. MaxFaults
    BY FaultTyped DEF TypeOK
  <2> HIDE DEF p
  <2> QED BY <1>4, <2>1, <2>2, <2>3, <2>4 DEF ReadPage, p
<1>5. CASE EndPhase(r)
  <2>1. Least(Left(r)) \in Phases
    BY <1>5, LeftOK DEF EndPhase
  <2>2. [run[r] EXCEPT !.done = @ \cup {Least(Left(r))}, !.phase = 0, !.cursor = 0] \in Run
    BY <1>s, <1>p, <2>1, ConstantsTyped DEF Run
  <2>3. run' \in [Runners -> Run]
    BY <1>5, <2>2 DEF EndPhase, TypeOK
  <2> QED BY <1>5, <2>3 DEF EndPhase, TypeOK
<1>6. CASE WritePage(r)
  <2>1. Least(Left(r)) \in Phases
    BY <1>6, AtPage DEF WritePage, At
  <2> DEFINE Kept ==
        /\ row' \in [Docs -> Row] /\ found' \in [Scans -> SUBSET Docs]
        /\ judged' \in [Scans -> [Phases -> SUBSET Docs]] /\ late' \in [Scans -> Nat]
        /\ run' \in [Runners -> Run] /\ faults' \in 0 .. MaxFaults
  <2>2. Kept
    <3>1. ASSUME NEW H \in SUBSET Hit, row' = Written(s, H),
                 found' = [found EXCEPT ![s] = @ \cup {h.doc : h \in H}]
          PROVE  row' \in [Docs -> Row] /\ found' \in [Scans -> SUBSET Docs]
      <4>1. {h.doc : h \in H} \subseteq Docs
        BY DocOfHits
      <4> QED BY <3>1, <4>1, WrittenOK DEF TypeOK
    <3>2. CASE /\ row' = Written(s, run[r].hits)
               /\ found' = [found EXCEPT ![s] = @ \cup {h.doc : h \in run[r].hits}]
               /\ judged' = [judged EXCEPT ![s][Least(Left(r))] = @ \cup run[r].page]
               /\ late' = [late EXCEPT ![s] = IF scan[s].status = "cancelled" THEN @ + 1 ELSE @]
               /\ Goto(r, "save")
               /\ UNCHANGED faults
      <4>1. judged' \in [Scans -> [Phases -> SUBSET Docs]]
        BY <3>2, <1>p, <2>1 DEF TypeOK
      <4>2. late' \in [Scans -> Nat]
        BY <3>2 DEF TypeOK
      <4>3. run' \in [Runners -> Run]
        BY <3>2, GotoTyped DEF PCs
      <4>4. row' \in [Docs -> Row] /\ found' \in [Scans -> SUBSET Docs]
        BY <3>1, <3>2, <1>p
      <4> QED BY <3>2, <4>1, <4>2, <4>3, <4>4 DEF TypeOK
    <3>3. ASSUME NEW H \in PartlyWritten(run[r].hits), row' = Written(s, H),
                 found' = [found EXCEPT ![s] = @ \cup {h.doc : h \in H}], Fails(r),
                 UNCHANGED <<judged, late>>
          PROVE  Kept
      <4>1. H \in SUBSET Hit
        BY <1>p, PartlyWrittenOK
      <4> QED BY <3>1, <3>3, <4>1, FailsTyped DEF TypeOK
    <3> HIDE DEF Kept
    <3> QED BY <1>6, <3>2, <3>3 DEF WritePage
  <2> QED BY <1>6, <2>2 DEF WritePage, TypeOK
<1>7. CASE SavePage(r)
  <2> DEFINE p == Least(Left(r))
  <2> DEFINE last == Greatest(run[r].page)
  <2>1. p \in 0 .. LastPhase /\ last \in 0 .. MaxDoc
    BY <1>7, AtPage, GreatestOfPage, ConstantsTyped DEF SavePage, At
  <2>2. CASE Fails(r) /\ UNCHANGED <<scan, losses>>
    <3>1. run' \in [Runners -> Run] /\ faults' \in 0 .. MaxFaults
      BY <2>2, FailsTyped
    <3> QED BY <1>7, <2>2, <3>1 DEF SavePage, TypeOK
  <2>3. CASE /\ scan' = Saved(s, run[r].done, p, last)
             /\ losses' = [losses EXCEPT ![s] = 0]
             /\ run' = [run EXCEPT ![r].pc = IF scan[s].status = "cancelled" THEN "stop" ELSE "page",
                               ![r].phase = p, ![r].cursor = last, ![r].page = {}, ![r].hits = {}]
             /\ UNCHANGED faults
    <3>1. ASSUME NEW pc \in PCs
          PROVE  [run[r] EXCEPT !.pc = pc, !.phase = p, !.cursor = last, !.page = {},
                                !.hits = {}] \in Run
      BY <1>s, <2>1 DEF Run
    <3>2. (IF scan[s].status = "cancelled" THEN "stop" ELSE "page") \in PCs
      BY DEF PCs
    <3>3. run' \in [Runners -> Run]
      BY <2>3, <3>1, <3>2 DEF TypeOK
    <3>4. scan' \in [Scans -> Scan]
      BY <2>1, <2>3, <1>p, SavedTyped
    <3> QED BY <1>7, <2>3, <3>3, <3>4 DEF SavePage, TypeOK
  <2> QED BY <1>7, <2>2, <2>3 DEF SavePage
<1>8. CASE SaveLast(r)
  <2>1. CASE Fails(r) /\ UNCHANGED <<scan, losses>>
    <3>1. run' \in [Runners -> Run] /\ faults' \in 0 .. MaxFaults
      BY <2>1, FailsTyped
    <3> QED BY <1>8, <2>1, <3>1 DEF SaveLast, TypeOK
  <2>2. CASE /\ scan' = Saved(s, run[r].done, run[r].phase, run[r].cursor)
             /\ losses' = [losses EXCEPT ![s] = 0]
             /\ Goto(r, "close")
             /\ UNCHANGED faults
    <3>1. run' \in [Runners -> Run]
      BY <2>2, GotoTyped DEF PCs
    <3>2. scan' \in [Scans -> Scan]
      BY <2>2, <1>p, SavedTyped
    <3> QED BY <1>8, <2>2, <3>1, <3>2 DEF SaveLast, TypeOK
  <2> QED BY <1>8, <2>1, <2>2 DEF SaveLast
<1>9. CASE Close(r)
  <2>1. run' \in [Runners -> Run]
    BY <1>9, GotoTyped DEF Close, PCs
  <2>2. row' \in [Docs -> Row]
    <3>1. ASSUME NEW d \in Docs
          PROVE  [row[d] EXCEPT !.state = "closed", !.closer = s] \in Row /\ row[d] \in Row
      <4>1. row[d] \in Row /\ s \in 0 .. MaxScan
        BY ConstantsTyped DEF TypeOK
      <4> QED BY <4>1 DEF Row
    <3>2. CASE UNCHANGED row
      BY <3>2 DEF TypeOK
    <3>3. CASE row' = [d \in Docs |-> IF d \in Stale(s)
                         THEN [row[d] EXCEPT !.state = "closed", !.closer = s] ELSE row[d]]
      BY <3>1, <3>3
    <3> QED BY <1>9, <3>2, <3>3 DEF Close
  <2>3. faults' \in 0 .. MaxFaults
    BY <1>9, FaultTyped DEF Close, TypeOK
  <2> QED BY <1>9, <2>1, <2>2, <2>3 DEF Close, TypeOK
<1>10. CASE Finish(r) \/ Stop(r)
  <2>1. run' \in [Runners -> Run]
    BY <1>10, EndRunTyped DEF Finish, Stop
  <2>2. faults' = faults \/ Fault
    BY <1>10 DEF Finish, Stop
  <2>3. faults' \in 0 .. MaxFaults
    BY <2>2, FaultTyped DEF TypeOK
  <2>4. \/ scan' = scan
        \/ scan' = [scan EXCEPT ![s].status = "done"]
        \/ scan' = [scan EXCEPT ![s].status = "cancelled"]
    BY <1>10 DEF Finish, Stop
  <2>5. scan' \in [Scans -> Scan]
    <3>1. {"running", "done", "cancelled"} \subseteq Statuses
      BY DEF Statuses
    <3>2. \A st \in Statuses : [scan EXCEPT ![s].status = st] \in [Scans -> Scan]
      BY ScanEdited
    <3>3. scan \in [Scans -> Scan]
      BY DEF TypeOK
    <3> HIDE DEF s
    <3> QED BY <2>4, <3>1, <3>2, <3>3
  <2> QED BY <1>10, <2>1, <2>3, <2>5 DEF Finish, Stop, TypeOK
<1>11. CASE HandleError(r)
  <2>1. run' \in [Runners -> Run]
    BY <1>11, EndRunTyped DEF HandleError
  <2>2. [scan[s] EXCEPT !.done = {}, !.phase = 0, !.cursor = 0, !.retries = 0] \in Scan
    BY <1>s, ConstantsTyped DEF Scan
  <2>3. scan' \in [Scans -> Scan] /\ faults' \in 0 .. MaxFaults
    BY <1>11, <1>s, <2>2, FaultTyped, RetryTyped DEF HandleError, TypeOK
  <2>4. losses' \in [Scans -> Nat]
    BY <1>11 DEF HandleError, TypeOK
  <2> QED BY <1>11, <2>1, <2>3, <2>4 DEF HandleError, TypeOK
<1> QED BY <1>1, <1>2, <1>3, <1>4, <1>5, <1>6, <1>7, <1>8, <1>9, <1>10, <1>11 DEF RunnerStep

(***************************************************************************)
(* What every step keeps: a scan's detectors and scope are fixed when it is *)
(* created, and pages that were written stay written.                      *)
(***************************************************************************)
Grows ==
  \A s \in Scans :
    /\ \A p \in Phases : judged[s][p] \subseteq judged'[s][p]
    /\ \/ /\ scan'[s].wants = scan[s].wants /\ scan'[s].scope = scan[s].scope
          /\ scan[s].status # "absent" => scan'[s].status # "absent"
       \/ /\ scan[s].status = "absent" /\ scan'[s].status = "queued"
          /\ scan'[s].done = {} /\ scan'[s].phase = 0

\* How a step may change the stored checkpoints ...
CheckpointStep ==
  \A s \in Scans :
    \/ /\ scan'[s].done = scan[s].done /\ scan'[s].phase = scan[s].phase
       /\ scan'[s].cursor = scan[s].cursor
    \/ scan'[s].done = {} /\ scan'[s].phase = 0
    \/ /\ scan[s].status # "absent"
       /\ BackedBy(judged[s], scan[s].scope, scan'[s].done, scan'[s].phase, scan'[s].cursor)

\* ... and finish a scan.
DoneStep ==
  \A s \in Scans : scan'[s].status = "done" =>
    \/ scan[s].status = "done"
    \/ scan[s].status # "absent" /\ \A p \in Wanted(s) : scan[s].scope \subseteq judged[s][p]

LEMMA BackedStays ==
  ASSUME NEW J \in [Phases -> SUBSET Docs], NEW J2 \in [Phases -> SUBSET Docs],
         \A p \in Phases : J[p] \subseteq J2[p],
         NEW scope, NEW done \in SUBSET Phases, NEW phase \in 0 .. LastPhase, NEW cursor,
         BackedBy(J, scope, done, phase, cursor)
  PROVE  BackedBy(J2, scope, done, phase, cursor)
<1>1. phase # 0 => phase \in Phases
  BY ConstantsOK DEF Phases
<1>2. \A p \in done : J[p] \subseteq J2[p]
  OBVIOUS
<1> QED BY <1>1, <1>2 DEF BackedBy

LEMMA NextPhaseOK ==
  ASSUME NEW c \in Scan, NEW u, LeftOf(c, u) # {}
  PROVE  /\ NextPhase(c, u) \in LeftOf(c, u)
         /\ NextPhase(c, u) \in Phases
         /\ LeftOf(c, u) \subseteq Phases
<1>1. LeftOf(c, u) \subseteq Phases
  BY WantedOK DEF LeftOf, Scan
<1>2. LeftOf(c, u) \in SUBSET Int /\ IsFiniteSet(LeftOf(c, u))
  BY <1>1, DocsOK, FS_Subset
<1> QED BY <1>1, <1>2, LeastOK DEF NextPhase

LEMMA SoundStays ==
  ASSUME NEW c \in Scan, NEW c2 \in Scan, NEW u \in Run,
         NEW J \in [Phases -> SUBSET Docs], NEW J2 \in [Phases -> SUBSET Docs],
         Sound(c, u, J), c2.wants = c.wants, c2.scope = c.scope, c2.status # "absent",
         \A p \in Phases : J[p] \subseteq J2[p]
  PROVE  Sound(c2, u, J2)
<1>1. LeftOf(c2, u) = LeftOf(c, u)
  BY DEF LeftOf
<1>2. NextPhase(c2, u) = NextPhase(c, u) /\ \A p : PageOf(c2, u, p) = PageOf(c, u, p)
  BY <1>1 DEF NextPhase, PageOf
<1>3. u.pc \in Walking => BackedBy(J2, c2.scope, u.done, u.phase, u.cursor)
  BY BackedStays DEF Sound, Run
<1>4. u.pc = "save" => u.page \subseteq J2[NextPhase(c, u)]
  BY NextPhaseOK DEF Sound
<1> QED BY <1>1, <1>2, <1>3, <1>4 DEF Sound

LEMMA RunStays ==
  ASSUME TypeOK, TypeOK', Grows, NEW q \in Runners, RunOK(q), run'[q] = run[q]
  PROVE  RunOK(q)'
<1> SUFFICES ASSUME run[q].pc # "idle"
             PROVE  Sound(scan'[run[q].scan], run[q], judged'[run[q].scan]) /\ run[q].scan \in Scans
  BY DEF RunOK
<1> DEFINE s == run[q].scan
<1>1. s \in Scans /\ Sound(scan[s], run[q], judged[s])
  BY DEF RunOK
<1>2. scan[s].status # "absent"
  BY <1>1 DEF Sound
<1>3. /\ scan'[s].wants = scan[s].wants /\ scan'[s].scope = scan[s].scope
      /\ scan'[s].status # "absent"
      /\ \A p \in Phases : judged[s][p] \subseteq judged'[s][p]
  BY <1>1, <1>2 DEF Grows
<1>4. /\ scan[s] \in Scan /\ scan'[s] \in Scan /\ run[q] \in Run
      /\ judged[s] \in [Phases -> SUBSET Docs] /\ judged'[s] \in [Phases -> SUBSET Docs]
  BY <1>1 DEF TypeOK
<1> HIDE DEF s
<1>5. Sound(scan'[s], run[q], judged'[s])
  BY <1>1, <1>3, <1>4, SoundStays
<1> QED BY <1>1, <1>5 DEF s

\* A runner that is not walking needs nothing but a scan.
LEMMA RunParked ==
  ASSUME Grows, NEW q \in Runners, RunOK(q), run[q].pc # "idle",
         \/ run'[q].pc = "idle"
         \/ run'[q].pc \in {"load", "stop", "error"} /\ run'[q].scan = run[q].scan
  PROVE  RunOK(q)'
BY DEF RunOK, Sound, Walking, Grows

LEMMA CheckpointsStay ==
  ASSUME TypeOK, TypeOK', CheckpointBacked, Grows, CheckpointStep
  PROVE  CheckpointBacked'
<1> SUFFICES ASSUME NEW s \in Scans
             PROVE  BackedBy(judged'[s], scan'[s].scope, scan'[s].done, scan'[s].phase,
                             scan'[s].cursor)
  BY DEF CheckpointBacked, Backed, BackedBy
<1>1. /\ judged[s] \in [Phases -> SUBSET Docs] /\ judged'[s] \in [Phases -> SUBSET Docs]
      /\ scan'[s].done \in SUBSET Phases /\ scan'[s].phase \in 0 .. LastPhase
  BY DEF TypeOK, Scan
<1>2. CASE scan'[s].done = {} /\ scan'[s].phase = 0
  BY <1>2 DEF BackedBy
<1>3. CASE /\ scan'[s].scope = scan[s].scope
           /\ BackedBy(judged[s], scan[s].scope, scan'[s].done, scan'[s].phase, scan'[s].cursor)
  <2>1. \A p \in Phases : judged[s][p] \subseteq judged'[s][p]
    BY DEF Grows
  <2> QED BY <1>1, <1>3, <2>1, BackedStays
<1>4. BackedBy(judged[s], scan[s].scope, scan[s].done, scan[s].phase, scan[s].cursor)
  BY DEF CheckpointBacked, Backed, BackedBy
<1> QED BY <1>2, <1>3, <1>4 DEF CheckpointStep, Grows

LEMMA DoneStays ==
  ASSUME TypeOK, TypeOK', DoneIsComplete, Grows, DoneStep
  PROVE  DoneIsComplete'
<1> SUFFICES ASSUME NEW s \in Scans, scan'[s].status = "done", NEW p \in Wanted(s)'
             PROVE  scan'[s].scope \subseteq judged'[s][p]
  BY DEF DoneIsComplete
<1>1. scan[s].status # "absent" /\ \A o \in Wanted(s) : scan[s].scope \subseteq judged[s][o]
  BY DEF DoneStep, DoneIsComplete
<1>2. scan'[s].wants = scan[s].wants /\ scan'[s].scope = scan[s].scope
  BY <1>1 DEF Grows
<1>3. p \in Wanted(s)
  BY <1>2 DEF Wanted
<1>4. p \in Phases
  BY <1>3, WantedOK DEF Wanted, TypeOK, Scan
<1> QED BY <1>1, <1>2, <1>3, <1>4 DEF Grows

\* The steps of one runner, or of none.
LEMMA StepKeeps ==
  ASSUME IInv, TypeOK', Grows, CheckpointStep, DoneStep, RetriesCounted',
         \A q \in Runners : run'[q] = run[q] \/ RunOK(q)'
  PROVE  IInv'
<1>1. CheckpointBacked' /\ DoneIsComplete'
  BY CheckpointsStay, DoneStays DEF IInv
<1>2. RunsOK'
  BY RunStays DEF IInv, RunsOK
<1> QED BY <1>1, <1>2 DEF IInv

LEMMA SameScans ==
  ASSUME scan' = scan, judged' = judged
  PROVE  Grows /\ CheckpointStep /\ DoneStep
BY DEF Grows, CheckpointStep, DoneStep

LEMMA StatusOnly ==
  ASSUME TypeOK, NEW s \in Scans, NEW st \in Statuses \ {"absent"}, judged' = judged,
         scan' = [scan EXCEPT ![s].status = st]
  PROVE  /\ Grows /\ CheckpointStep
         /\ st # "done" => DoneStep
         /\ \A t \in Scans : scan'[t].retries = scan[t].retries
<1>1. \A t \in Scans : /\ scan'[t].wants = scan[t].wants /\ scan'[t].scope = scan[t].scope
                       /\ scan'[t].done = scan[t].done /\ scan'[t].phase = scan[t].phase
                       /\ scan'[t].cursor = scan[t].cursor /\ scan'[t].retries = scan[t].retries
                       /\ scan'[t].status \in {scan[t].status, st}
  BY DEF TypeOK, Scan
<1> QED BY <1>1 DEF Grows, CheckpointStep, DoneStep

LEMMA OthersKeep ==
  ASSUME IInv, Others
  PROVE  IInv'
<1> USE DEF rows, history
<1>t. TypeOK /\ TypeOK'
  BY OthersTyped DEF IInv
<1>1. CASE UNCHANGED <<scan, run, judged, losses>>
  <2>1. RetriesCounted'
    BY <1>1 DEF IInv, RetriesCounted
  <2> QED BY <1>1, <1>t, <2>1, SameScans, StepKeeps
<1>2. ASSUME NEW o \in Operators, Insert(o) PROVE IInv'
  <2> DEFINE u == {s \in Scans : scan[s].status = "absent"}
  <2>1. ASSUME NEW q \in Requests, u # {},
               scan' = [scan EXCEPT ![Least(u)] =
                 [Unborn EXCEPT !.status = "queued", !.wants = q.wants, !.scope = q.scope]]
        PROVE  IInv'
    <3> DEFINE s == Least(u)
    <3>1. s \in Scans /\ scan[s].status = "absent"
      BY <2>1, UnbornOK
    <3>2. /\ scan'[s].status = "queued" /\ scan'[s].done = {} /\ scan'[s].phase = 0
          /\ scan'[s].retries = 0
          /\ \A t \in Scans \ {s} : scan'[t] = scan[t]
      BY <2>1, <3>1 DEF TypeOK, Unborn, IInv
    <3>3. UNCHANGED <<run, judged, losses>>
      BY <1>2 DEF Insert
    <3> HIDE DEF s
    <3>4. Grows
      <4> SUFFICES ASSUME NEW t \in Scans
                   PROVE  \/ scan'[t] = scan[t]
                          \/ /\ scan[t].status = "absent" /\ scan'[t].status = "queued"
                             /\ scan'[t].done = {} /\ scan'[t].phase = 0
        BY <3>3 DEF Grows
      <4> QED BY <3>1, <3>2
    <3>5. CheckpointStep
      BY <3>1, <3>2 DEF CheckpointStep
    <3>6. DoneStep
      BY <3>1, <3>2 DEF DoneStep
    <3>7. RetriesCounted'
      <4>1. \A t \in Scans : losses[t] \in Nat /\ scan[t].retries <= losses[t]
        BY <1>t DEF IInv, RetriesCounted, TypeOK
      <4>2. losses' = losses
        BY <3>3
      <4>3. \A t \in Scans : scan'[t].retries <= losses[t]
        BY <3>1, <3>2, <4>1
      <4> QED BY <4>2, <4>3 DEF RetriesCounted
    <3> QED BY <1>t, <3>3, <3>4, <3>5, <3>6, <3>7, StepKeeps
  <2>2. CASE UNCHANGED scan
    BY <1>1, <1>2, <2>2 DEF Insert
  <2> QED BY <1>2, <2>1, <2>2 DEF Insert
<1>3. ASSUME NEW s \in Scans, Cancel(s) PROVE IInv'
  <2>1. scan' = [scan EXCEPT ![s].status = "cancelled"] /\ UNCHANGED <<run, judged, losses>>
    BY <1>3 DEF Cancel
  <2>2. "cancelled" \in Statuses \ {"absent"}
    BY DEF Statuses
  <2>3. Grows /\ CheckpointStep /\ DoneStep /\ \A t \in Scans : scan'[t].retries = scan[t].retries
    BY <1>t, <2>1, <2>2, StatusOnly
  <2>4. RetriesCounted'
    BY <2>1, <2>3 DEF RetriesCounted, IInv
  <2> QED BY <1>t, <2>1, <2>3, <2>4, StepKeeps
<1>4. ASSUME NEW r \in Runners, Crash(r) PROVE IInv'
  <2>1. UNCHANGED <<scan, judged, losses>> /\ run' = [run EXCEPT ![r] = Resting]
    BY <1>4 DEF Crash, EndRun
  <2>2. Grows /\ CheckpointStep /\ DoneStep
    BY <2>1, SameScans
  <2>3. RetriesCounted'
    BY <2>1 DEF IInv, RetriesCounted
  <2>4. \A q \in Runners : run'[q] = run[q] \/ RunOK(q)'
    BY <2>1, <1>t DEF RunOK, Resting, TypeOK
  <2> QED BY <1>t, <2>2, <2>3, <2>4, StepKeeps
<1>5. (\E o \in Operators : CheckSlot(o))
        \/ (\E d \in Docs : Change(d) \/ Stage(d) \/ Dismiss(d) \/ Commit(d))
      => UNCHANGED <<scan, run, judged, losses>>
  BY DEF CheckSlot, Change, Stage, Dismiss, Commit
<1> QED BY <1>1, <1>2, <1>3, <1>4, <1>5 DEF Others

\* A step of runner r leaves the other runners alone.
LEMMA RunnerKeeps ==
  ASSUME IInv, NEW r \in Runners, TypeOK', Grows, CheckpointStep, DoneStep, RetriesCounted',
         NEW u, run' = [run EXCEPT ![r] = u], RunOK(r)'
  PROVE  IInv'
<1>1. \A q \in Runners : run'[q] = run[q] \/ RunOK(q)'
  BY DEF IInv, TypeOK
<1> QED BY <1>1, StepKeeps

\* Ways for a run to end, or to go on without walking.
LEMMA RunRests ==
  ASSUME IInv, NEW r \in Runners, TypeOK', Grows, CheckpointStep, DoneStep, RetriesCounted',
         \/ EndRun(r)
         \/ run[r].pc # "idle" /\ \E pc \in {"load", "stop", "error"} : Goto(r, pc)
  PROVE  IInv'
<1>1. CASE EndRun(r)
  <2>1. run' = [run EXCEPT ![r] = Resting] /\ RunOK(r)'
    BY <1>1 DEF EndRun, RunOK, Resting, IInv, TypeOK
  <2> QED BY <2>1, RunnerKeeps
<1>2. ASSUME run[r].pc # "idle", NEW pc \in {"load", "stop", "error"}, Goto(r, pc) PROVE IInv'
  <2>1. run' = [run EXCEPT ![r] = [run[r] EXCEPT !.pc = pc]]
    BY <1>2 DEF Goto
  <2>2. run[r] \in Run /\ run'[r] = [run[r] EXCEPT !.pc = pc]
    BY <2>1 DEF IInv, TypeOK
  <2>3. run'[r].pc = pc /\ run'[r].scan = run[r].scan
    BY <2>2 DEF Run
  <2>4. RunOK(r)'
    BY <1>2, <2>3, RunParked DEF IInv, RunsOK
  <2> QED BY <2>1, <2>4, RunnerKeeps
<1> QED BY <1>1, <1>2

(***************************************************************************)
(* The pages.  A page takes up where the cursor is, and nothing lies       *)
(* between two pages: what is written up to its last document is all of    *)
(* the scope up to there.                                                  *)
(***************************************************************************)
LEMMA EmptyPageIsTheEnd ==
  ASSUME NEW c \in Scan, NEW u \in Run, NEW J \in [Phases -> SUBSET Docs], NEW p \in Phases,
         BackedBy(J, c.scope, u.done, u.phase, u.cursor), PageOf(c, u, p) = {}
  PROVE  c.scope \subseteq J[p]
<1> DEFINE from == IF u.phase = p THEN u.cursor ELSE 0
<1> DEFINE S == {d \in c.scope : d > from}
<1>1. S \in SUBSET Docs /\ c.scope \subseteq Docs
  BY DEF Scan
<1>2. PageOf(c, u, p) = First(PageSize, S)
  BY DEF PageOf
<1>3. PageSize \in Nat \ {0}
  BY ConstantsOK
<1>4. S = {}
  <2> HIDE DEF S
  <2> QED BY <1>1, <1>2, <1>3, FirstOfSome
<1> SUFFICES ASSUME NEW d \in c.scope PROVE d \in J[p]
  OBVIOUS
<1>5. d \in Nat \ {0} /\ u.cursor \in Nat /\ p # 0
  BY <1>1, ConstantsOK DEF Docs, Run, Phases
<1>6. ~(d > from)
  BY <1>4
<1>7. u.phase = p /\ d <= u.cursor
  BY <1>5, <1>6
<1> QED BY <1>5, <1>7 DEF BackedBy

LEMMA PageReachesItsLast ==
  ASSUME NEW c \in Scan, NEW u \in Run, NEW J \in [Phases -> SUBSET Docs], NEW p \in Phases,
         BackedBy(J, c.scope, u.done, u.phase, u.cursor),
         PageOf(c, u, p) # {}, PageOf(c, u, p) \subseteq J[p]
  PROVE  BackedBy(J, c.scope, u.done, p, Greatest(PageOf(c, u, p)))
<1> DEFINE from == IF u.phase = p THEN u.cursor ELSE 0
<1> DEFINE S == {d \in c.scope : d > from}
<1> DEFINE last == Greatest(PageOf(c, u, p))
<1>1. S \in SUBSET Docs /\ c.scope \subseteq Docs
  BY DEF Scan
<1>2. PageOf(c, u, p) = First(PageSize, S)
  BY DEF PageOf
<1>3. PageSize \in Nat
  BY ConstantsOK
<1>4. last \in PageOf(c, u, p) /\ last \in Docs
  BY <1>1, <1>2, GreatestOfPage DEF First
<1>5. ASSUME NEW d \in c.scope, d <= last PROVE d \in J[p]
  <2>1. d \in Nat \ {0} /\ u.cursor \in Nat /\ p # 0
    BY <1>1, ConstantsOK DEF Docs, Run, Phases
  <2>2. CASE d > from
    <3>1. d \in S
      BY <2>2
    <3>2. d \in First(PageSize, S)
      <4> HIDE DEF S, last
      <4> QED BY <1>1, <1>2, <1>3, <1>4, <1>5, <3>1, FirstIsLower
    <3> QED BY <1>2, <3>2
  <2>3. CASE ~(d > from)
    <3>1. u.phase = p /\ d <= u.cursor
      BY <2>1, <2>3
    <3> QED BY <2>1, <3>1 DEF BackedBy
  <2> QED BY <2>2, <2>3
<1> QED BY <1>5 DEF BackedBy

LEMMA StartsKeep ==
  ASSUME IInv, TypeOK', NEW r \in Runners, Poll(r) \/ Mark(r) \/ Load(r)
  PROVE  IInv'
<1> USE DEF rows, history
<1> DEFINE s == run[r].scan
<1>t. TypeOK /\ run[r] \in Run
  BY DEF IInv, TypeOK
<1>k. ASSUME UNCHANGED <<scan, judged, losses>>
      PROVE  Grows /\ CheckpointStep /\ DoneStep /\ RetriesCounted'
  BY <1>k, SameScans DEF IInv, RetriesCounted
<1>1. CASE Poll(r)
  <2> DEFINE u == [Resting EXCEPT !.pc = "polled", !.scan = Least(NextToRun)]
  <2>1. run' = [run EXCEPT ![r] = u] /\ UNCHANGED <<scan, judged, losses>>
    BY <1>1 DEF Poll
  <2>2. Least(NextToRun) \in Scans /\ scan[Least(NextToRun)].status # "absent"
    BY <1>1, NextToRunOK DEF Poll, NextToRun
  <2>3. run'[r] = u /\ u.pc = "polled" /\ u.scan = Least(NextToRun)
    BY <2>1, <1>t DEF TypeOK, Resting
  <2> HIDE DEF u
  <2>4. RunOK(r)'
    BY <2>1, <2>2, <2>3 DEF RunOK, Sound, Walking
  <2> QED BY <1>k, <2>1, <2>4, RunnerKeeps
<1> SUFFICES ASSUME run[r].pc # "idle", s \in Scans, Sound(scan[s], run[r], judged[s]) PROVE IInv'
  BY <1>1 DEF IInv, RunsOK, RunOK, Mark, Load, At
<1>2. CASE Mark(r)
  <2>1. CASE scan' = [scan EXCEPT ![s].status = "running"] /\ Goto(r, "load")
    <3>1. judged' = judged /\ losses' = losses /\ "running" \in Statuses \ {"absent"}
      BY <1>2 DEF Mark, Statuses
    <3> HIDE DEF s
    <3>2. /\ Grows /\ CheckpointStep /\ DoneStep
          /\ \A t \in Scans : scan'[t].retries = scan[t].retries
      BY <1>t, <2>1, <3>1, StatusOnly DEF s
    <3>3. RetriesCounted'
      BY <3>1, <3>2 DEF IInv, RetriesCounted
    <3> QED BY <2>1, <3>2, <3>3, RunRests
  <2>2. CASE EndRun(r) /\ UNCHANGED scan
    BY <1>2, <1>k, <2>2, RunRests DEF Mark
  <2> QED BY <1>2, <2>1, <2>2 DEF Mark
<1>3. CASE Load(r)
  <2>0. UNCHANGED <<scan, judged, losses>>
    BY <1>3 DEF Load
  <2>1. CASE EndRun(r) \/ Fails(r)
    BY <1>k, <2>0, <2>1, RunRests DEF Fails
  <2>2. CASE run' = [run EXCEPT ![r].pc = "page", ![r].done = scan[s].done,
                                ![r].phase = scan[s].phase, ![r].cursor = scan[s].cursor]
    <3> DEFINE u == [run[r] EXCEPT !.pc = "page", !.done = scan[s].done,
                                   !.phase = scan[s].phase, !.cursor = scan[s].cursor]
    <3>1. run' = [run EXCEPT ![r] = u]
      BY <2>2
    <3>2. /\ u.pc = "page" /\ u.scan = s /\ u.done = scan[s].done
          /\ u.phase = scan[s].phase /\ u.cursor = scan[s].cursor
      BY <1>t DEF Run
    <3>3. BackedBy(judged[s], scan[s].scope, scan[s].done, scan[s].phase, scan[s].cursor)
      BY DEF IInv, CheckpointBacked, Backed, BackedBy
    <3> HIDE DEF u
    <3>4. Sound(scan[s], u, judged[s])
      BY <3>2, <3>3 DEF Sound
    <3>5. run'[r] = u
      BY <1>t, <3>1 DEF TypeOK
    <3>6. RunOK(r)'
      BY <2>0, <3>2, <3>4, <3>5 DEF RunOK
    <3> QED BY <1>k, <2>0, <3>1, <3>6, RunnerKeeps
  <2> QED BY <1>3, <2>1, <2>2 DEF Load
<1> QED BY <1>1, <1>2, <1>3

\* What a runner at work has, for the steps that follow.
LEMMA Working ==
  ASSUME IInv, NEW r \in Runners, run[r].pc # "idle"
  PROVE  /\ run[r].scan \in Scans
         /\ Sound(scan[run[r].scan], run[r], judged[run[r].scan])
         /\ scan[run[r].scan] \in Scan /\ run[r] \in Run
         /\ judged[run[r].scan] \in [Phases -> SUBSET Docs]
         /\ Left(r) = LeftOf(scan[run[r].scan], run[r])
         /\ Least(Left(r)) = NextPhase(scan[run[r].scan], run[r])
         /\ \A p : Page(r, p) = PageOf(scan[run[r].scan], run[r], p)
<1>1. run[r].scan \in Scans /\ Sound(scan[run[r].scan], run[r], judged[run[r].scan])
  BY DEF IInv, RunsOK, RunOK
<1>2. Left(r) = LeftOf(scan[run[r].scan], run[r])
  BY DEF Left, Wanted, LeftOf
<1>3. \A p : Page(r, p) = PageOf(scan[run[r].scan], run[r], p)
  BY DEF Page, PageOf, CursorIn
<1>4. /\ scan[run[r].scan] \in Scan /\ run[r] \in Run
      /\ judged[run[r].scan] \in [Phases -> SUBSET Docs]
  BY <1>1 DEF IInv, TypeOK
<1> QED BY <1>1, <1>2, <1>3, <1>4 DEF NextPhase

LEMMA ReadsKeep ==
  ASSUME IInv, TypeOK', NEW r \in Runners, ReadPage(r) \/ EndPhase(r)
  PROVE  IInv'
<1> USE DEF rows, history
<1> DEFINE s == run[r].scan
<1> DEFINE p == Least(Left(r))
<1>1. run[r].pc = "page" /\ Left(r) # {} /\ UNCHANGED <<scan, judged, losses>>
  BY DEF ReadPage, EndPhase, At
<1>2. /\ s \in Scans /\ Sound(scan[s], run[r], judged[s])
      /\ scan[s] \in Scan /\ run[r] \in Run /\ judged[s] \in [Phases -> SUBSET Docs]
      /\ Left(r) = LeftOf(scan[s], run[r]) /\ p = NextPhase(scan[s], run[r])
      /\ Page(r, p) = PageOf(scan[s], run[r], p)
  BY <1>1, Working
<1>3. p \in Left(r) /\ p \in Phases /\ Left(r) \subseteq Phases
  BY <1>1, <1>2, LeftOK DEF IInv
<1>4. BackedBy(judged[s], scan[s].scope, run[r].done, run[r].phase, run[r].cursor)
  BY <1>1, <1>2 DEF Sound, Walking
<1>k. Grows /\ CheckpointStep /\ DoneStep /\ RetriesCounted'
  BY <1>1, SameScans DEF IInv, RetriesCounted
<1>5. ASSUME NEW u, u \in Run, u.scan = s, Sound(scan[s], u, judged[s]), run' = [run EXCEPT ![r] = u]
      PROVE  IInv'
  <2>1. run'[r] = u
    BY <1>5 DEF IInv, TypeOK
  <2>2. RunOK(r)'
    BY <1>1, <1>2, <1>5, <2>1 DEF RunOK
  <2> QED BY <1>k, <1>5, <2>2, RunnerKeeps
<1>6. CASE ReadPage(r)
  <2>1. CASE Fails(r)
    BY <1>1, <1>k, <2>1, RunRests DEF Fails
  <2>2. ASSUME NEW hits,
               run' = [run EXCEPT ![r].pc = "write", ![r].page = Page(r, p), ![r].hits = hits]
        PROVE  IInv'
    <3> DEFINE u == [run[r] EXCEPT !.pc = "write", !.page = Page(r, p), !.hits = hits]
    <3>1. run' = [run EXCEPT ![r] = u]
      BY <2>2
    <3>2. /\ u.pc = "write" /\ u.scan = s /\ u.done = run[r].done /\ u.phase = run[r].phase
          /\ u.cursor = run[r].cursor /\ u.page = Page(r, p)
      BY <1>2 DEF Run
    <3>3. u \in Run
      BY <3>1 DEF IInv, TypeOK
    <3> HIDE DEF u
    <3>4. LeftOf(scan[s], u) = Left(r)
      BY <1>2, <3>2 DEF LeftOf
    <3>5. NextPhase(scan[s], u) = p
      BY <3>4 DEF NextPhase
    <3>6. PageOf(scan[s], u, p) = Page(r, p)
      BY <1>2, <3>2 DEF PageOf
    <3>7. Page(r, p) # {}
      BY <1>6 DEF ReadPage
    <3> HIDE DEF s, p
    <3>8. Sound(scan[s], u, judged[s])
      BY <1>1, <1>2, <1>4, <3>2, <3>4, <3>5, <3>6, <3>7 DEF Sound
    <3> QED BY <1>5, <3>1, <3>2, <3>3, <3>8
  <2> QED BY <1>6, <2>1, <2>2 DEF ReadPage
<1>7. CASE EndPhase(r)
  <2> DEFINE u == [run[r] EXCEPT !.done = @ \cup {p}, !.phase = 0, !.cursor = 0]
  <2>1. run' = [run EXCEPT ![r] = u] /\ Page(r, p) = {}
    BY <1>7 DEF EndPhase
  <2>2. u.pc = "page" /\ u.scan = s /\ u.done = run[r].done \cup {p} /\ u.phase = 0
    BY <1>1, <1>2 DEF Run
  <2>3. u \in Run
    BY <2>1 DEF IInv, TypeOK
  <2> HIDE DEF u, s, p
  <2>4. scan[s].scope \subseteq judged[s][p]
    BY <1>2, <1>3, <1>4, <2>1, EmptyPageIsTheEnd
  <2>5. BackedBy(judged[s], scan[s].scope, u.done, u.phase, u.cursor)
    BY <1>4, <2>2, <2>4 DEF BackedBy
  <2>6. Sound(scan[s], u, judged[s])
    BY <1>2, <2>2, <2>5 DEF Sound
  <2> QED BY <1>5, <2>1, <2>2, <2>3, <2>6
<1> QED BY <1>6, <1>7

LEMMA WriteKeeps ==
  ASSUME IInv, TypeOK', NEW r \in Runners, WritePage(r)
  PROVE  IInv'
<1> USE DEF rows, history
<1> DEFINE s == run[r].scan
<1> DEFINE p == Least(Left(r))
<1>1. run[r].pc = "write" /\ UNCHANGED <<scan, losses>>
  BY DEF WritePage, At
<1>2. /\ s \in Scans /\ Sound(scan[s], run[r], judged[s])
      /\ scan[s] \in Scan /\ run[r] \in Run /\ judged[s] \in [Phases -> SUBSET Docs]
      /\ Left(r) = LeftOf(scan[s], run[r]) /\ p = NextPhase(scan[s], run[r])
  BY <1>1, Working
<1>3. p \in Phases
  BY <1>1, AtPage DEF IInv
<1>4. RetriesCounted'
  BY <1>1 DEF IInv, RetriesCounted
<1>5. CASE Fails(r) /\ UNCHANGED judged
  <2>1. Grows /\ CheckpointStep /\ DoneStep
    BY <1>1, <1>5, SameScans
  <2> QED BY <1>1, <1>4, <1>5, <2>1, RunRests DEF Fails
<1>6. CASE /\ judged' = [judged EXCEPT ![s][p] = @ \cup run[r].page]
           /\ Goto(r, "save")
  <2> DEFINE u == [run[r] EXCEPT !.pc = "save"]
  <2>1. run' = [run EXCEPT ![r] = u]
    BY <1>6 DEF Goto
  <2>2. /\ u.pc = "save" /\ u.scan = s /\ u.done = run[r].done /\ u.phase = run[r].phase
        /\ u.cursor = run[r].cursor /\ u.page = run[r].page
    BY <1>2 DEF Run
  <2>3. run'[r] = u
    BY <2>1 DEF IInv, TypeOK
  <2> HIDE DEF u
  <2>4. /\ \A t \in Scans : \A o \in Phases : judged[t][o] \subseteq judged'[t][o]
        /\ run[r].page \subseteq judged'[s][p]
    <3> HIDE DEF s, p
    <3>1. judged \in [Scans -> [Phases -> SUBSET Docs]]
      BY DEF IInv, TypeOK
    <3> QED BY <1>2, <1>3, <1>6, <3>1
  <2>5. Grows
    BY <1>1, <2>4 DEF Grows
  <2>6. CheckpointStep /\ DoneStep
    BY <1>1 DEF CheckpointStep, DoneStep
  <2>7. judged'[s] \in [Phases -> SUBSET Docs]
    BY <1>2 DEF TypeOK
  <2>8. BackedBy(judged'[s], scan[s].scope, run[r].done, run[r].phase, run[r].cursor)
    <3>1. BackedBy(judged[s], scan[s].scope, run[r].done, run[r].phase, run[r].cursor)
      BY <1>1, <1>2 DEF Sound, Walking
    <3>2. run[r].done \in SUBSET Phases /\ run[r].phase \in 0 .. LastPhase
      BY <1>2 DEF Run
    <3>3. \A o \in Phases : judged[s][o] \subseteq judged'[s][o]
      BY <1>2, <2>4
    <3> HIDE DEF s
    <3> QED BY <1>2, <2>7, <3>1, <3>2, <3>3, BackedStays
  <2>9. LeftOf(scan[s], u) = Left(r) /\ NextPhase(scan[s], u) = p
        /\ PageOf(scan[s], u, p) = PageOf(scan[s], run[r], p)
    BY <1>2, <2>2 DEF LeftOf, NextPhase, PageOf
  <2> HIDE DEF s, p
  <2>10. Sound(scan[s], u, judged'[s])
    BY <1>1, <1>2, <2>2, <2>4, <2>8, <2>9 DEF Sound
  <2>11. RunOK(r)'
    BY <1>1, <1>2, <2>2, <2>3, <2>10 DEF RunOK
  <2> QED BY <1>4, <2>1, <2>5, <2>6, <2>11, RunnerKeeps
<1> QED BY <1>5, <1>6 DEF WritePage

\* Storing a checkpoint that is backed.
LEMMA SavedSteps ==
  ASSUME IInv, TypeOK', NEW s \in Scans, scan[s].status # "absent", judged' = judged,
         NEW done, NEW phase, NEW cursor,
         BackedBy(judged[s], scan[s].scope, done, phase, cursor),
         scan' = Saved(s, done, phase, cursor), losses' = [losses EXCEPT ![s] = 0]
  PROVE  /\ Grows /\ CheckpointStep /\ DoneStep /\ RetriesCounted'
         /\ scan'[s].wants = scan[s].wants /\ scan'[s].scope = scan[s].scope
         /\ scan'[s].status = scan[s].status
<1>1. TypeOK
  BY DEF IInv
<1>2. /\ scan'[s].done = done /\ scan'[s].phase = phase /\ scan'[s].cursor = cursor
      /\ scan'[s].retries = 0 /\ scan'[s].status = scan[s].status
      /\ scan'[s].wants = scan[s].wants /\ scan'[s].scope = scan[s].scope
  BY <1>1 DEF Saved, TypeOK, Scan
<1>3. \A t \in Scans \ {s} : scan'[t] = scan[t] /\ losses'[t] = losses[t]
  BY <1>1 DEF Saved, TypeOK
<1>4. losses'[s] = 0
  BY <1>1 DEF TypeOK
<1>5. Grows
  BY <1>2, <1>3 DEF Grows
<1>6. CheckpointStep
  <2> SUFFICES ASSUME NEW t \in Scans
               PROVE  \/ scan'[t] = scan[t]
                      \/ /\ scan[t].status # "absent"
                         /\ BackedBy(judged[t], scan[t].scope, scan'[t].done, scan'[t].phase,
                                     scan'[t].cursor)
    BY DEF CheckpointStep
  <2> QED BY <1>2, <1>3
<1>7. DoneStep
  BY <1>2, <1>3 DEF DoneStep
<1>8. RetriesCounted'
  BY <1>2, <1>3, <1>4 DEF RetriesCounted, IInv
<1> QED BY <1>2, <1>5, <1>6, <1>7, <1>8

LEMMA SavesKeep ==
  ASSUME IInv, TypeOK', NEW r \in Runners, SavePage(r) \/ SaveLast(r)
  PROVE  IInv'
<1> USE DEF rows, history
<1> DEFINE s == run[r].scan
<1> DEFINE p == Least(Left(r))
<1>1. run[r].pc \in {"save", "page"} /\ UNCHANGED judged
  BY DEF SavePage, SaveLast, At
<1>2. /\ s \in Scans /\ Sound(scan[s], run[r], judged[s])
      /\ scan[s] \in Scan /\ run[r] \in Run /\ judged[s] \in [Phases -> SUBSET Docs]
      /\ Left(r) = LeftOf(scan[s], run[r]) /\ p = NextPhase(scan[s], run[r])
  BY <1>1, Working
<1>3. BackedBy(judged[s], scan[s].scope, run[r].done, run[r].phase, run[r].cursor)
  BY <1>1, <1>2 DEF Sound, Walking
<1>4. scan[s].status # "absent"
  BY <1>2 DEF Sound
<1>5. CASE Fails(r) /\ UNCHANGED <<scan, losses>>
  <2>1. Grows /\ CheckpointStep /\ DoneStep /\ RetriesCounted'
    BY <1>1, <1>5, SameScans DEF IInv, RetriesCounted
  <2> QED BY <1>1, <1>5, <2>1, RunRests DEF Fails
<1>6. CASE SavePage(r) /\ ~Fails(r)
  <2> DEFINE last == Greatest(run[r].page)
  <2> DEFINE u == [run[r] EXCEPT !.pc = IF scan[s].status = "cancelled" THEN "stop" ELSE "page",
                     !.phase = p, !.cursor = last, !.page = {}, !.hits = {}]
  <2>1. /\ run[r].pc = "save" /\ scan' = Saved(s, run[r].done, p, last)
        /\ losses' = [losses EXCEPT ![s] = 0]
        /\ run' = [run EXCEPT ![r] = u]
    BY <1>6 DEF SavePage, At
  <2>2. /\ u.pc \in {"stop", "page"} /\ u.scan = s /\ u.done = run[r].done /\ u.phase = p
        /\ u.cursor = last
    BY <1>2 DEF Run
  <2>3. run'[r] = u
    BY <2>1 DEF IInv, TypeOK
  <2>4. p \in Phases /\ run[r].page # {} /\ run[r].page = PageOf(scan[s], run[r], p)
        /\ run[r].page \subseteq judged[s][p]
    BY <1>2, <2>1, AtPage DEF IInv, Sound
  <2> HIDE DEF u, s, p
  <2>5. BackedBy(judged[s], scan[s].scope, run[r].done, p, last)
    BY <1>2, <1>3, <2>4, PageReachesItsLast
  <2> HIDE DEF last
  <2>6. /\ Grows /\ CheckpointStep /\ DoneStep /\ RetriesCounted'
        /\ scan'[s].wants = scan[s].wants /\ scan'[s].scope = scan[s].scope
        /\ scan'[s].status = scan[s].status
    BY <1>1, <1>2, <1>4, <2>1, <2>5, SavedSteps
  <2>7. Sound(scan'[s], u, judged[s])
    BY <1>4, <2>2, <2>5, <2>6 DEF Sound
  <2>8. RunOK(r)'
    BY <1>1, <1>2, <2>2, <2>3, <2>7 DEF RunOK
  <2> QED BY <2>1, <2>6, <2>8, RunnerKeeps
<1>7. CASE SaveLast(r) /\ ~Fails(r)
  <2> DEFINE u == [run[r] EXCEPT !.pc = "close"]
  <2>1. /\ Left(r) = {} /\ scan' = Saved(s, run[r].done, run[r].phase, run[r].cursor)
        /\ losses' = [losses EXCEPT ![s] = 0]
        /\ run' = [run EXCEPT ![r] = u]
    BY <1>7 DEF SaveLast, Goto
  <2>2. /\ u.pc = "close" /\ u.scan = s /\ u.done = run[r].done /\ u.phase = run[r].phase
        /\ u.cursor = run[r].cursor
    BY <1>2 DEF Run
  <2>3. run'[r] = u
    BY <2>1 DEF IInv, TypeOK
  <2> HIDE DEF u, s, p
  <2>4. /\ Grows /\ CheckpointStep /\ DoneStep /\ RetriesCounted'
        /\ scan'[s].wants = scan[s].wants /\ scan'[s].scope = scan[s].scope
        /\ scan'[s].status = scan[s].status
    BY <1>1, <1>2, <1>3, <1>4, <2>1, SavedSteps
  <2>5. LeftOf(scan'[s], u) = {}
    BY <1>2, <2>1, <2>2, <2>4 DEF LeftOf
  <2>6. Sound(scan'[s], u, judged[s])
    BY <1>3, <1>4, <2>2, <2>4, <2>5 DEF Sound
  <2>7. RunOK(r)'
    BY <1>1, <1>2, <2>2, <2>3, <2>6 DEF RunOK
  <2> QED BY <2>1, <2>4, <2>7, RunnerKeeps
<1>8. Fails(r) => UNCHANGED <<scan, losses>>
  <2>1. SUFFICES ASSUME Fails(r) PROVE UNCHANGED <<scan, losses>>
    OBVIOUS
  <2>2. faults' # faults
    BY <2>1, ConstantsOK DEF Fails, Fault, IInv, TypeOK
  <2> QED BY <2>2 DEF SavePage, SaveLast
<1> QED BY <1>5, <1>6, <1>7, <1>8

\* The error path: what it does to the scan's row.
LEMMA RetrySteps ==
  ASSUME IInv, TypeOK', NEW s \in Scans, scan[s].status # "absent", judged' = judged,
         NEW c \in Scan, c.wants = scan[s].wants, c.scope = scan[s].scope,
         c.status = scan[s].status, c.retries <= scan[s].retries,
         \/ c.done = {} /\ c.phase = 0
         \/ c = scan[s],
         scan' = Retry(s, c), losses' = [losses EXCEPT ![s] = @ + 1]
  PROVE  /\ Grows /\ CheckpointStep /\ DoneStep /\ RetriesCounted'
         /\ scan'[s].status = "failed" /\ scan[s].status # "failed" => losses'[s] > MaxRetries
         /\ \A t \in Scans \ {s} : scan'[t] = scan[t]
<1>1. TypeOK
  BY DEF IInv
<1>2. /\ scan[s] \in Scan /\ losses[s] \in Nat /\ scan[s].retries <= losses[s]
      /\ c.retries \in Nat /\ scan[s].retries \in Nat /\ MaxRetries \in Nat
  BY ConstantsOK DEF IInv, TypeOK, RetriesCounted, Scan
<1>3. \A t \in Scans \ {s} : scan'[t] = scan[t] /\ losses'[t] = losses[t]
  BY <1>1 DEF Retry, TypeOK
<1>4. losses'[s] = losses[s] + 1
  BY <1>1 DEF TypeOK
<1>5. CASE c.retries + 1 <= MaxRetries
  <2>1. scan' = [scan EXCEPT ![s] = [c EXCEPT !.retries = @ + 1]]
    BY <1>5 DEF Retry
  <2>2. scan'[s] = [c EXCEPT !.retries = @ + 1]
    BY <1>1, <2>1 DEF TypeOK
  <2>3. /\ scan'[s].wants = c.wants /\ scan'[s].scope = c.scope /\ scan'[s].status = c.status
        /\ scan'[s].done = c.done /\ scan'[s].phase = c.phase /\ scan'[s].cursor = c.cursor
        /\ scan'[s].retries = c.retries + 1
    BY <2>2 DEF Scan
  <2>4. Grows
    BY <1>3, <2>3 DEF Grows
  <2>5. CheckpointStep
    BY <1>3, <2>3 DEF CheckpointStep
  <2>6. DoneStep
    BY <1>3, <2>3 DEF DoneStep
  <2>7. RetriesCounted'
    BY <1>2, <1>3, <1>4, <2>3 DEF RetriesCounted, IInv
  <2> QED BY <1>3, <2>3, <2>4, <2>5, <2>6, <2>7
<1>6. CASE ~(c.retries + 1 <= MaxRetries)
  <2>1. scan' = [scan EXCEPT ![s].status = "failed"] /\ "failed" \in Statuses \ {"absent"}
    BY <1>6 DEF Retry, Statuses
  <2>2. /\ Grows /\ CheckpointStep /\ DoneStep
        /\ \A t \in Scans : scan'[t].retries = scan[t].retries
    BY <1>1, <2>1, StatusOnly
  <2>3. RetriesCounted'
    BY <1>2, <1>3, <1>4, <2>2 DEF RetriesCounted, IInv
  <2>4. losses'[s] > MaxRetries
    BY <1>2, <1>4, <1>6
  <2> QED BY <1>3, <2>2, <2>3, <2>4
<1> QED BY <1>5, <1>6

\* The two checkpoints the error path may go on from.
LEMMA ErrorSteps ==
  ASSUME IInv, TypeOK', NEW r \in Runners, HandleError(r), ~UNCHANGED scan
  PROVE  /\ Grows /\ CheckpointStep /\ DoneStep /\ RetriesCounted'
         /\ \A t \in Scans : scan'[t].status = "failed" /\ scan[t].status # "failed"
              => losses'[t] > MaxRetries
<1> USE DEF history
<1> DEFINE s == run[r].scan
<1> DEFINE wiped == [scan[s] EXCEPT !.done = {}, !.phase = 0, !.cursor = 0, !.retries = 0]
<1>1. run[r].pc # "idle" /\ judged' = judged /\ losses' = [losses EXCEPT ![s] = @ + 1]
  BY DEF HandleError, At
<1>2. s \in Scans /\ scan[s] \in Scan /\ scan[s].status # "absent"
  BY <1>1, Working DEF Sound
<1>3. /\ wiped \in Scan /\ wiped.wants = scan[s].wants /\ wiped.scope = scan[s].scope
      /\ wiped.status = scan[s].status /\ wiped.retries <= scan[s].retries
      /\ wiped.done = {} /\ wiped.phase = 0
      /\ scan[s].retries <= scan[s].retries
  <2>1. scan[s].retries \in Nat
    BY <1>2 DEF Scan
  <2>2. wiped \in Scan /\ wiped.retries = 0
    BY <1>2, ConstantsTyped DEF Scan
  <2>3. /\ wiped.wants = scan[s].wants /\ wiped.scope = scan[s].scope
        /\ wiped.status = scan[s].status /\ wiped.done = {} /\ wiped.phase = 0
    BY <1>2 DEF Scan
  <2> HIDE DEF wiped
  <2> QED BY <2>1, <2>2, <2>3
<1>4. scan' = Retry(s, scan[s]) \/ scan' = Retry(s, wiped)
  BY DEF HandleError
<1> HIDE DEF s, wiped
<1>5. /\ Grows /\ CheckpointStep /\ DoneStep /\ RetriesCounted'
      /\ scan'[s].status = "failed" /\ scan[s].status # "failed" => losses'[s] > MaxRetries
      /\ \A t \in Scans \ {s} : scan'[t] = scan[t]
  BY <1>1, <1>2, <1>3, <1>4, RetrySteps
<1>6. \A t \in Scans : t = s \/ scan'[t] = scan[t]
  BY <1>5
<1> QED BY <1>5, <1>6

LEMMA EndsKeep ==
  ASSUME IInv, TypeOK', NEW r \in Runners,
         Close(r) \/ Finish(r) \/ Stop(r) \/ HandleError(r)
  PROVE  IInv'
<1> USE DEF rows, history
<1> DEFINE s == run[r].scan
<1>1. run[r].pc \in {"close", "finish", "stop", "error"} /\ UNCHANGED judged
  BY DEF Close, Finish, Stop, HandleError, At
<1>2. /\ s \in Scans /\ Sound(scan[s], run[r], judged[s])
      /\ scan[s] \in Scan /\ run[r] \in Run
      /\ Left(r) = LeftOf(scan[s], run[r])
  BY <1>1, Working
<1>t. TypeOK
  BY DEF IInv
<1>k. ASSUME UNCHANGED scan, \A t \in Scans : losses[t] <= losses'[t]
      PROVE  Grows /\ CheckpointStep /\ DoneStep /\ RetriesCounted'
  <2>1. Grows /\ CheckpointStep /\ DoneStep
    BY <1>1, <1>k, SameScans
  <2>2. \A t \in Scans : /\ scan[t].retries <= losses[t] /\ scan[t].retries \in Nat
                         /\ losses[t] \in Nat /\ losses'[t] \in Nat
    BY DEF IInv, RetriesCounted, TypeOK, Scan
  <2>3. RetriesCounted'
    BY <1>k, <2>2 DEF RetriesCounted
  <2> QED BY <2>1, <2>3
<1>l. losses' = losses => \A t \in Scans : losses[t] <= losses'[t]
  BY DEF IInv, TypeOK
<1>3. CASE Close(r)
  <2> DEFINE u == [run[r] EXCEPT !.pc = "finish"]
  <2>1. run' = [run EXCEPT ![r] = u] /\ UNCHANGED <<scan, losses>> /\ run[r].pc = "close"
    BY <1>3 DEF Close, Goto, At
  <2>2. /\ u.pc = "finish" /\ u.scan = s /\ u.done = run[r].done /\ u.phase = run[r].phase
        /\ u.cursor = run[r].cursor
    BY <1>2 DEF Run
  <2>3. run'[r] = u
    BY <2>1 DEF IInv, TypeOK
  <2> HIDE DEF u
  <2>4. LeftOf(scan[s], u) = LeftOf(scan[s], run[r])
    BY <2>2 DEF LeftOf
  <2>5. Sound(scan[s], u, judged[s])
    BY <1>2, <2>1, <2>2, <2>4 DEF Sound, Walking
  <2>6. RunOK(r)'
    BY <1>1, <1>2, <2>1, <2>2, <2>3, <2>5 DEF RunOK
  <2> QED BY <1>k, <1>l, <2>1, <2>6, RunnerKeeps
<1>4. CASE Finish(r)
  <2>1. EndRun(r) /\ losses' = losses /\ run[r].pc = "finish"
    BY <1>4 DEF Finish, At
  <2>2. CASE UNCHANGED scan
    BY <1>k, <1>l, <2>1, <2>2, RunRests
  <2>3. CASE scan' = [scan EXCEPT ![s].status = "done"]
    <3>1. "done" \in Statuses \ {"absent"}
      BY DEF Statuses
    <3>2. scan[s].status # "absent" /\ \A p \in Wanted(s) : scan[s].scope \subseteq judged[s][p]
      BY <1>2, <2>1 DEF Sound, Walking, BackedBy, Left
    <3> HIDE DEF s
    <3>3. Grows /\ CheckpointStep /\ \A t \in Scans : scan'[t].retries = scan[t].retries
      BY <1>1, <1>2, <1>t, <2>3, <3>1, StatusOnly
    <3>4. \A t \in Scans \ {s} : scan'[t] = scan[t]
      BY <1>t, <2>3 DEF TypeOK
    <3>5. DoneStep
      BY <3>2, <3>4 DEF DoneStep
    <3>6. RetriesCounted'
      BY <2>1, <3>3 DEF RetriesCounted, IInv
    <3> QED BY <2>1, <3>3, <3>5, <3>6, RunRests
  <2> QED BY <1>4, <2>2, <2>3 DEF Finish
<1>5. CASE Stop(r)
  <2>1. EndRun(r) /\ losses' = losses
    BY <1>5 DEF Stop
  <2>2. CASE UNCHANGED scan
    BY <1>k, <1>l, <2>1, <2>2, RunRests
  <2>3. CASE scan' = [scan EXCEPT ![s].status = "cancelled"]
    <3>1. "cancelled" \in Statuses \ {"absent"}
      BY DEF Statuses
    <3> HIDE DEF s
    <3>2. Grows /\ CheckpointStep /\ DoneStep /\ \A t \in Scans : scan'[t].retries = scan[t].retries
      BY <1>1, <1>2, <1>t, <2>3, <3>1, StatusOnly
    <3>3. RetriesCounted'
      BY <2>1, <3>2 DEF RetriesCounted, IInv
    <3> QED BY <2>1, <3>2, <3>3, RunRests
  <2> QED BY <1>5, <2>2, <2>3 DEF Stop
<1>6. CASE HandleError(r)
  <2>1. EndRun(r) /\ losses' = [losses EXCEPT ![s] = @ + 1]
    BY <1>6 DEF HandleError
  <2>2. CASE UNCHANGED scan
    <3>1. \A t \in Scans : losses[t] <= losses'[t]
      BY <1>t, <2>1 DEF TypeOK
    <3> QED BY <1>k, <2>1, <2>2, <3>1, RunRests
  <2>3. CASE ~UNCHANGED scan
    BY <1>6, <2>1, <2>3, ErrorSteps, RunRests
  <2> QED BY <2>2, <2>3
<1> QED BY <1>3, <1>4, <1>5, <1>6

(***************************************************************************)
(* The theorems.                                                           *)
(***************************************************************************)
LEMMA InitKeeps == Init => IInv
<1> SUFFICES ASSUME Init PROVE IInv
  OBVIOUS
<1>1. TypeOK
  BY InitTyped
<1>2. RunsOK
  BY DEF Init, RunsOK, RunOK, Resting
<1>3. CheckpointBacked /\ DoneIsComplete /\ RetriesCounted
  BY DEF Init, Unborn, CheckpointBacked, Backed, DoneIsComplete, RetriesCounted
<1> QED BY <1>1, <1>2, <1>3 DEF IInv

LEMMA NextKeeps ==
  ASSUME IInv, [Next]_vars
  PROVE  IInv'
<1>1. CASE UNCHANGED vars
  <2>1. RunsOK' <=> RunsOK
    BY <1>1 DEF vars, history, RunsOK, RunOK
  <2>2. TypeOK' /\ RetriesCounted' /\ CheckpointBacked' /\ DoneIsComplete'
    BY <1>1 DEF vars, rows, history, IInv, TypeOK, RetriesCounted, CheckpointBacked, Backed,
         DoneIsComplete, Wanted
  <2> QED BY <2>1, <2>2 DEF IInv
<1>2. CASE Others
  BY <1>2, OthersKeep
<1>3. ASSUME NEW r \in Runners, RunnerStep(r) PROVE IInv'
  <2>1. TypeOK'
    BY <1>3, RunnerTyped DEF IInv
  <2> QED BY <1>3, <2>1, StartsKeep, ReadsKeep, WriteKeeps, SavesKeep, EndsKeep DEF RunnerStep
<1> QED BY <1>1, <1>2, <1>3 DEF Next

LEMMA Invariance == Spec => []IInv
<1>1. IInv /\ [Next]_vars => IInv'
  BY NextKeeps
<1> QED BY InitKeeps, <1>1, PTL DEF Spec

\* The type invariant, whatever runs side by side and whatever fails.
THEOREM ScanTyped == Spec => []TypeOK
BY Invariance, PTL DEF IInv

\* A stored checkpoint is backed by the candidates written before it: no page is
\* skipped after a crash, a failure or a second runner (execute, scan_checkpoint).
THEOREM NoPageSkipped == Spec => []CheckpointBacked
BY Invariance, PTL DEF IInv

\* A scan that ends as done has examined its whole scope in every phase.
THEOREM DoneMeansComplete == Spec => []DoneIsComplete
BY Invariance, PTL DEF IInv

\* Only the error path marks a scan failed, and only past the retry budget with no
\* page saved in between (run_scan, MAX_SCAN_RETRIES).
THEOREM FailuresDoNotAddUp == Spec => FailedOnlyAfterRetries
<1> DEFINE A == \A s \in Scans : scan'[s].status = "failed" /\ scan[s].status # "failed"
                  => losses'[s] > MaxRetries
<1>1. ASSUME IInv, IInv', [Next]_vars PROVE [A]_vars
  <2>1. CASE UNCHANGED scan
    BY <2>1
  <2>2. ASSUME NEW s \in Scans, NEW st \in {"running", "done", "cancelled"},
               scan' = [scan EXCEPT ![s].status = st]
        PROVE  A
    BY <1>1, <2>2 DEF IInv, TypeOK, Scan
  <2>3. ASSUME NEW s \in Scans, NEW done, NEW phase, NEW cursor,
               scan' = Saved(s, done, phase, cursor)
        PROVE  A
    <3>1. TypeOK
      BY <1>1 DEF IInv
    <3>2. \A t \in Scans : scan'[t].status = scan[t].status
      BY <2>3, <3>1 DEF TypeOK, Scan, Saved
    <3> QED BY <3>2
  <2>4. CASE Others
    <3>1. ASSUME NEW o \in Operators, Insert(o) PROVE A
      <4> DEFINE u == {s \in Scans : scan[s].status = "absent"}
      <4>1. ASSUME NEW q \in Requests, u # {},
                   scan' = [scan EXCEPT ![Least(u)] =
                     [Unborn EXCEPT !.status = "queued", !.wants = q.wants, !.scope = q.scope]]
            PROVE  A
        <5>1. Least(u) \in Scans
          BY <4>1, UnbornOK
        <5> HIDE DEF u
        <5> QED BY <1>1, <4>1, <5>1 DEF IInv, TypeOK, Unborn
      <4> QED BY <2>1, <3>1, <4>1 DEF Insert
    <3> QED BY <2>1, <2>2, <2>4, <3>1 DEF Others, CheckSlot, Cancel, Crash, Change, Stage, Dismiss,
          Commit
  <2>5. ASSUME NEW r \in Runners, RunnerStep(r) PROVE A
    <3>1. run[r].pc # "idle" => run[r].scan \in Scans
      BY <1>1 DEF IInv, RunsOK, RunOK
    <3>2. CASE HandleError(r)
      BY <1>1, <2>1, <3>2, ErrorSteps DEF IInv
    <3>3. CASE Mark(r) \/ Finish(r) \/ Stop(r)
      BY <2>1, <2>2, <3>1, <3>3 DEF Mark, Finish, Stop, At
    <3>4. CASE SavePage(r) \/ SaveLast(r)
      BY <2>1, <2>3, <3>1, <3>4 DEF SavePage, SaveLast, At
    <3>5. CASE UNCHANGED scan
      BY <2>1, <3>5
    <3> QED BY <2>5, <3>2, <3>3, <3>4, <3>5 DEF RunnerStep, Poll, Load, ReadPage, EndPhase,
          WritePage, Close
  <2> HIDE DEF A
  <2> QED BY <1>1, <2>1, <2>4, <2>5 DEF Next, vars
<1> QED BY <1>1, Invariance, PTL DEF Spec, FailedOnlyAfterRetries

(***************************************************************************)
(* One instance that can run the scans.  Scans are run in the order they   *)
(* were created: a run begins when every earlier scan is over.             *)
(***************************************************************************)
Newer == Runners \ Older
OneRunner == \E r : Newer = {r}

Over(s) == scan[s].status \in {"done", "cancelled", "failed"}
Begun(s) == scan[s].status # "absent" /\ \A t \in Scans : t < s => Over(t)

Ordered ==
  /\ \A s, t \in Scans : s < t /\ scan[t].status # "absent" => scan[s].status # "absent"
  /\ \A s \in Scans : scan[s].status = "running" \/ found[s] # {} => Begun(s)
  /\ \A d \in Docs : row[d].scan # 0 => Begun(row[d].scan)
  /\ \A r \in Runners : run[r].pc # "idle" => Begun(run[r].scan)

\* Where a step of a runner leads it.
LEMMA RunMoves ==
  ASSUME IInv, NEW r \in Runners, RunnerStep(r)
  PROVE  /\ \A q \in Runners : q # r => run'[q] = run[q]
         /\ \/ run'[r].pc = "idle"
            \/ run'[r].scan = run[r].scan /\ run[r].pc # "idle"
            \/ Poll(r) /\ run'[r].pc = "polled" /\ run'[r].scan = Least(NextToRun)
         /\ run'[r].pc = "load" => Mark(r) /\ Active(run[r].scan)
         /\ run'[r].pc = "page" => \/ Load(r) /\ r \in Newer
                                   \/ EndPhase(r)
                                   \/ SavePage(r) /\ scan[run[r].scan].status # "cancelled"
         /\ run'[r].pc = "write" => ReadPage(r)
         /\ run'[r].pc = "stop" => run[r].pc = "save"
         /\ run'[r].pc \in {"save", "close", "finish"} => run[r].pc \in Walking
<1> USE DEF At
<1>t. run \in [Runners -> Run]
  BY DEF IInv, TypeOK
<1>g. ASSUME NEW pc, Goto(r, pc)
      PROVE  /\ run'[r].pc = pc /\ run'[r].scan = run[r].scan
             /\ \A q \in Runners : q # r => run'[q] = run[q]
  BY <1>t, <1>g DEF Goto, Run
<1>e. ASSUME EndRun(r)
      PROVE  /\ run'[r].pc = "idle"
             /\ \A q \in Runners : q # r => run'[q] = run[q]
  BY <1>t, <1>e DEF EndRun, Resting
<1>f. ASSUME Fails(r)
      PROVE  /\ run'[r].pc = "error" /\ run'[r].scan = run[r].scan
             /\ \A q \in Runners : q # r => run'[q] = run[q]
  BY <1>f, <1>g DEF Fails
<1>1. CASE Poll(r)
  <2>1. run'[r] = [Resting EXCEPT !.pc = "polled", !.scan = Least(NextToRun)]
    BY <1>t, <1>1 DEF Poll
  <2>2. run'[r].pc = "polled" /\ run'[r].scan = Least(NextToRun)
    BY <2>1 DEF Resting
  <2>3. \A q \in Runners : q # r => run'[q] = run[q]
    BY <1>t, <1>1 DEF Poll
  <2> QED BY <1>1, <2>2, <2>3
<1>2. CASE Mark(r)
  BY <1>2, <1>g, <1>e DEF Mark
<1>3. CASE Load(r)
  <2>1. CASE r \notin Older /\ ~Fails(r)
    <3>1. /\ run'[r].pc = "page" /\ run'[r].scan = run[r].scan
          /\ \A q \in Runners : q # r => run'[q] = run[q]
      BY <1>t, <1>3, <2>1 DEF Load, Run
    <3> QED BY <1>3, <2>1, <3>1 DEF Load, Newer
  <2> QED BY <1>3, <1>e, <1>f, <2>1 DEF Load
<1>4. CASE ReadPage(r)
  <2>1. ASSUME NEW page, NEW hits,
               run' = [run EXCEPT ![r].pc = "write", ![r].page = page, ![r].hits = hits]
        PROVE  /\ run'[r].pc = "write" /\ run'[r].scan = run[r].scan
               /\ \A q \in Runners : q # r => run'[q] = run[q]
    BY <1>t, <2>1 DEF Run
  <2>2. \/ Fails(r)
        \/ \E page, hits :
             run' = [run EXCEPT ![r].pc = "write", ![r].page = page, ![r].hits = hits]
    BY <1>4 DEF ReadPage
  <2> QED BY <1>4, <1>f, <2>1, <2>2 DEF ReadPage
<1>5. CASE EndPhase(r)
  <2>1. /\ run'[r].pc = run[r].pc /\ run'[r].scan = run[r].scan
        /\ \A q \in Runners : q # r => run'[q] = run[q]
    BY <1>t, <1>5 DEF EndPhase, Run
  <2> QED BY <1>5, <2>1 DEF EndPhase
<1>6. CASE WritePage(r)
  BY <1>6, <1>g, <1>f DEF WritePage, Walking
<1>7. CASE SavePage(r)
  <2>1. ASSUME NEW pc, NEW phase, NEW cursor,
               run' = [run EXCEPT ![r].pc = pc, ![r].phase = phase, ![r].cursor = cursor,
                                  ![r].page = {}, ![r].hits = {}]
        PROVE  /\ run'[r].pc = pc /\ run'[r].scan = run[r].scan
               /\ \A q \in Runners : q # r => run'[q] = run[q]
    BY <1>t, <2>1 DEF Run
  <2>2. \/ Fails(r)
        \/ \E phase, cursor :
             run' = [run EXCEPT
                 ![r].pc = IF scan[run[r].scan].status = "cancelled" THEN "stop" ELSE "page",
                 ![r].phase = phase, ![r].cursor = cursor, ![r].page = {}, ![r].hits = {}]
    BY <1>7 DEF SavePage
  <2>3. run[r].pc = "save"
    BY <1>7 DEF SavePage
  <2>4. CASE Fails(r)
    BY <1>f, <2>3, <2>4
  <2>5. CASE ~Fails(r)
    <3>1. PICK phase, cursor :
             run' = [run EXCEPT
                 ![r].pc = IF scan[run[r].scan].status = "cancelled" THEN "stop" ELSE "page",
                 ![r].phase = phase, ![r].cursor = cursor, ![r].page = {}, ![r].hits = {}]
      BY <2>2, <2>5
    <3>2. CASE scan[run[r].scan].status = "cancelled"
      <4>1. run' = [run EXCEPT ![r].pc = "stop", ![r].phase = phase, ![r].cursor = cursor,
                               ![r].page = {}, ![r].hits = {}]
        BY <3>1, <3>2
      <4>2. /\ run'[r].pc = "stop" /\ run'[r].scan = run[r].scan
            /\ \A q \in Runners : q # r => run'[q] = run[q]
        BY <2>1, <4>1
      <4> QED BY <1>7, <2>3, <4>2
    <3>3. CASE scan[run[r].scan].status # "cancelled"
      <4>1. run' = [run EXCEPT ![r].pc = "page", ![r].phase = phase, ![r].cursor = cursor,
                               ![r].page = {}, ![r].hits = {}]
        BY <3>1, <3>3
      <4>2. /\ run'[r].pc = "page" /\ run'[r].scan = run[r].scan
            /\ \A q \in Runners : q # r => run'[q] = run[q]
        BY <2>1, <4>1
      <4> QED BY <1>7, <2>3, <3>3, <4>2
    <3> QED BY <3>2, <3>3
  <2> QED BY <2>4, <2>5
<1>8. CASE SaveLast(r)
  BY <1>8, <1>g, <1>f DEF SaveLast, Walking
<1>9. CASE Close(r)
  <2>1. run[r].pc = "close" /\ Goto(r, "finish")
    BY <1>9 DEF Close
  <2> QED BY <1>g, <2>1 DEF Walking
<1>10. CASE Finish(r) \/ Stop(r) \/ HandleError(r)
  BY <1>10, <1>e DEF Finish, Stop, HandleError
<1> QED BY <1>1, <1>2, <1>3, <1>4, <1>5, <1>6, <1>7, <1>8, <1>9, <1>10 DEF RunnerStep

\* What a step of a runner makes of the status of its scan.
LEMMA StatusMoves ==
  ASSUME IInv, NEW r \in Runners, RunnerStep(r)
  PROVE  \/ \A t \in Scans : scan'[t].status = scan[t].status
         \/ /\ run[r].pc # "idle" /\ run[r].scan \in Scans
            /\ \A t \in Scans : t # run[r].scan => scan'[t].status = scan[t].status
            /\ \/ Mark(r) /\ Active(run[r].scan) /\ scan'[run[r].scan].status = "running"
               \/ Finish(r) /\ scan'[run[r].scan].status = "done"
               \/ run[r].pc = "stop" /\ run'[r].pc = "idle"
                    /\ scan'[run[r].scan].status = "cancelled"
               \/ HandleError(r) /\ scan'[run[r].scan].status = "failed"
<1> USE DEF At
<1> DEFINE s == run[r].scan
<1>t. scan \in [Scans -> Scan]
  BY DEF IInv, TypeOK
<1>s. run[r].pc # "idle" => s \in Scans
  BY DEF IInv, RunsOK, RunOK
<1>1. ASSUME s \in Scans, NEW st, scan' = [scan EXCEPT ![s].status = st]
      PROVE  scan'[s].status = st /\ \A t \in Scans : t # s => scan'[t].status = scan[t].status
  BY <1>t, <1>1 DEF Scan
<1>2. ASSUME s \in Scans, NEW done, NEW phase, NEW cursor, scan' = Saved(s, done, phase, cursor)
      PROVE  \A t \in Scans : scan'[t].status = scan[t].status
  BY <1>t, <1>2 DEF Scan, Saved
<1>3. CASE Mark(r) \/ Finish(r) \/ Stop(r)
  <2>1. CASE UNCHANGED scan
    BY <2>1
  <2>2. CASE Mark(r) /\ ~UNCHANGED scan
    BY <1>s, <1>1, <2>2 DEF Mark
  <2>3. CASE Finish(r) /\ ~UNCHANGED scan
    BY <1>s, <1>1, <2>3 DEF Finish
  <2>4. CASE Stop(r) /\ ~UNCHANGED scan
    <3>1. run'[r].pc = "idle"
      BY <2>4 DEF Stop, EndRun, Resting, IInv, TypeOK
    <3> QED BY <1>s, <1>1, <2>4, <3>1 DEF Stop
  <2> QED BY <1>3, <2>1, <2>2, <2>3, <2>4
<1>4. CASE SavePage(r)
  BY <1>4, <1>s, <1>2 DEF SavePage
<1>5. CASE SaveLast(r)
  BY <1>5, <1>s, <1>2 DEF SaveLast
<1>6. CASE HandleError(r)
  <2> DEFINE wiped == [scan[s] EXCEPT !.done = {}, !.phase = 0, !.cursor = 0, !.retries = 0]
  <2>1. run[r].pc # "idle" /\ s \in Scans
    BY <1>6, <1>s DEF HandleError
  <2>2. UNCHANGED scan \/ scan' = Retry(s, scan[s]) \/ scan' = Retry(s, wiped)
    BY <1>6 DEF HandleError
  <2>3. ASSUME NEW c \in {scan[s], wiped}, scan' = [scan EXCEPT ![s] = [c EXCEPT !.retries = @ + 1]]
        PROVE  \A t \in Scans : scan'[t].status = scan[t].status
    <3>1. c.status = scan[s].status /\ [c EXCEPT !.retries = @ + 1].status = c.status
      BY <1>t, <2>1, <2>3 DEF Scan
    <3>2. scan'[s] = [c EXCEPT !.retries = @ + 1]
      BY <1>t, <2>1, <2>3
    <3>3. \A t \in Scans : t # s => scan'[t] = scan[t]
      BY <1>t, <2>1, <2>3
    <3> QED BY <3>1, <3>2, <3>3
  <2>4. \/ UNCHANGED scan
        \/ scan' = [scan EXCEPT ![s].status = "failed"]
        \/ \E c \in {scan[s], wiped} : scan' = [scan EXCEPT ![s] = [c EXCEPT !.retries = @ + 1]]
    BY <2>2 DEF Retry
  <2> HIDE DEF wiped
  <2> QED BY <1>6, <1>1, <2>1, <2>3, <2>4
<1>7. CASE UNCHANGED scan
  BY <1>7
<1> QED BY <1>3, <1>4, <1>5, <1>6, <1>7 DEF RunnerStep, Poll, Load, ReadPage, EndPhase, WritePage,
      Close

\* A scan that is over stays so, and a scan that begins has only such before it.
StatusStep ==
  \A s \in Scans : /\ Over(s) => Over(s)'
                   /\ scan[s].status # "absent" => scan'[s].status # "absent"

LEMMA BegunStays ==
  ASSUME StatusStep, NEW s \in Scans, Begun(s)
  PROVE  Begun(s)'
BY DEF StatusStep, Begun

LEMMA OrderedStays ==
  ASSUME Ordered, StatusStep, TypeOK', IInv',
         \A s, t \in Scans : s < t /\ scan'[t].status # "absent" => scan[s].status # "absent",
         \A s \in Scans : scan'[s].status = "running" \/ found'[s] # {} => Begun(s),
         \A d \in Docs : row'[d].scan \in {0, row[d].scan} \/ Begun(row'[d].scan),
         \A r \in Runners : \/ run'[r].pc = "idle"
                            \/ run[r].pc # "idle" /\ run'[r].scan = run[r].scan
                            \/ Begun(run'[r].scan)
  PROVE  Ordered'
<1>1. \A s \in Scans : Begun(s) => Begun(s)'
  BY BegunStays
<1>2. \A s, t \in Scans : s < t /\ scan'[t].status # "absent" => scan'[s].status # "absent"
  BY DEF StatusStep
<1>3. \A s \in Scans : scan'[s].status = "running" \/ found'[s] # {} => Begun(s)'
  BY <1>1
<1>4. ASSUME NEW d \in Docs, row'[d].scan # 0 PROVE Begun(row[d].scan)'
  <2>1. row'[d].scan \in Scans
    BY <1>4, ConstantsTyped DEF TypeOK, Row
  <2>2. PICK s \in Scans : s = row'[d].scan
    BY <2>1
  <2>3. Begun(s)
    BY <1>4, <2>2 DEF Ordered
  <2>4. Begun(s)'
    BY <1>1, <2>3
  <2> QED BY <2>2, <2>4 DEF Begun, Over
<1>5. ASSUME NEW r \in Runners, run'[r].pc # "idle" PROVE Begun(run[r].scan)'
  <2>1. run'[r].scan \in Scans
    BY <1>5 DEF IInv, RunsOK, RunOK
  <2>2. PICK s \in Scans : s = run'[r].scan
    BY <2>1
  <2>3. Begun(s)
    BY <1>5, <2>2 DEF Ordered
  <2>4. Begun(s)'
    BY <1>1, <2>3
  <2> QED BY <2>2, <2>4 DEF Begun, Over
<1>6. Ordered' <=>
        /\ \A s, t \in Scans : s < t /\ scan'[t].status # "absent" => scan'[s].status # "absent"
        /\ \A s \in Scans : scan'[s].status = "running" \/ found'[s] # {} => Begun(s)'
        /\ \A d \in Docs : row'[d].scan # 0 => Begun(row[d].scan)'
        /\ \A r \in Runners : run'[r].pc # "idle" => Begun(run[r].scan)'
  BY DEF Ordered
<1> QED BY <1>2, <1>3, <1>4, <1>5, <1>6

\* What a write makes of a row: it is left alone, or stamped by a hit that lands.
LEMMA WrittenRow ==
  ASSUME NEW s, NEW H, NEW d \in Docs
  PROVE  \/ Written(s, H)[d] = row[d] /\ \A h \in H : h.doc = d => ~Lands(h)
         \/ \E h \in H : h.doc = d /\ Lands(h) /\ Written(s, H)[d] = Stamp(s, h)
<1> DEFINE now == {h \in H : h.doc = d /\ Lands(h)}
<1>1. Written(s, H)[d] = IF now = {} THEN row[d] ELSE Stamp(s, CHOOSE h \in now : TRUE)
  BY DEF Written
<1>2. CASE now = {}
  BY <1>1, <1>2
<1>3. CASE now # {}
  <2>1. PICK h \in now : h = CHOOSE g \in now : TRUE
    BY <1>3
  <2> QED BY <1>1, <1>3, <2>1
<1> QED BY <1>2, <1>3

LEMMA StampFields ==
  ASSUME TypeOK, NEW s \in Scans, NEW h \in Hit
  PROVE  /\ Stamp(s, h).scan = s
         /\ h.row = 0 => /\ Stamp(s, h).n = row[h.doc].n + 1 /\ Stamp(s, h).state = "candidate"
                         /\ Stamp(s, h).closer = 0
         /\ h.row # 0 => /\ Stamp(s, h).n = row[h.doc].n /\ Stamp(s, h).state = row[h.doc].state
                         /\ Stamp(s, h).closer = row[h.doc].closer
<1>1. row[h.doc] \in Row
  BY DEF TypeOK, Hit
<1> QED BY <1>1 DEF Stamp, Row

\* A page, or what a failure leaves of it, is written by one set of hits.
LEMMA WritePageMoves ==
  ASSUME IInv, NEW r \in Runners, WritePage(r)
  PROVE  LET s == run[r].scan IN
         /\ run[r].pc = "write" /\ s \in Scans /\ run[r].hits \subseteq Hit
         /\ \E H \in SUBSET run[r].hits :
              /\ row' = Written(s, H)
              /\ found' = [found EXCEPT ![s] = @ \cup {h.doc : h \in H}]
         /\ UNCHANGED <<scan, excluded, match>>
         /\ \/ late' = late
            \/ /\ late' = [late EXCEPT ![s] = IF scan[s].status = "cancelled" THEN @ + 1 ELSE @]
               /\ run'[r].pc = "save"
<1> DEFINE s == run[r].scan
<1>1. run[r].pc = "write" /\ UNCHANGED <<scan, excluded, match>>
  BY DEF WritePage, At
<1>2. s \in Scans /\ run[r].hits \subseteq Hit
  BY <1>1 DEF IInv, TypeOK, Run, RunsOK, RunOK
<1>3. CASE \E H \in PartlyWritten(run[r].hits) :
             /\ row' = Written(s, H)
             /\ found' = [found EXCEPT ![s] = @ \cup {h.doc : h \in H}]
             /\ late' = late
  <2>1. PartlyWritten(run[r].hits) \subseteq SUBSET run[r].hits
    BY <1>2, PartlyWrittenOK
  <2> QED BY <1>1, <1>2, <1>3, <2>1
<1>4. CASE /\ row' = Written(s, run[r].hits)
           /\ found' = [found EXCEPT ![s] = @ \cup {h.doc : h \in run[r].hits}]
           /\ late' = [late EXCEPT ![s] = IF scan[s].status = "cancelled" THEN @ + 1 ELSE @]
           /\ Goto(r, "save")
  <2>1. run'[r].pc = "save"
    BY <1>4 DEF Goto, IInv, TypeOK
  <2> QED BY <1>1, <1>2, <1>4, <2>1
<1> QED BY <1>3, <1>4 DEF WritePage

\* What the other actors do to the rows, the documents flagged and the runs.
LEMMA OthersMoves ==
  ASSUME TypeOK, Others
  PROVE  /\ found' = found /\ late' = late
         /\ \/ row' = row
            \/ \E d \in Docs : Stage(d) \/ Dismiss(d) \/ Commit(d)
         /\ \A d \in Docs : row'[d].scan \in {0, row[d].scan}
         /\ \A r \in Runners : run'[r].pc = "idle" \/ run'[r] = run[r]
<1> USE DEF rows, history
<1>1. found' = found /\ late' = late
  BY DEF Others, CheckSlot, Insert, Cancel, Crash, Change, Stage, Dismiss, Commit
<1>2. row' = row \/ \E e \in Docs : Stage(e) \/ Dismiss(e) \/ Commit(e)
  BY DEF Others, CheckSlot, Insert, Cancel, Crash, Change
<1>3. ASSUME NEW e \in Docs, Stage(e) \/ Dismiss(e) \/ Commit(e)
      PROVE  /\ row'[e].scan \in {0, row[e].scan}
             /\ \A d \in Docs : d # e => row'[d] = row[d]
  <2>1. row[e] \in Row /\ row \in [Docs -> Row]
    BY DEF TypeOK
  <2>2. CASE Stage(e)
    BY <2>1, <2>2 DEF Stage, Row
  <2>3. CASE Dismiss(e)
    BY <2>1, <2>3 DEF Dismiss, Row
  <2>4. CASE Commit(e)
    BY <2>1, <2>4 DEF Commit, Row, NoRow
  <2> QED BY <1>3, <2>2, <2>3, <2>4
<1>4. run' = run \/ \E r \in Runners : Crash(r)
  BY DEF Others, CheckSlot, Insert, Cancel, Change, Stage, Dismiss, Commit
<1>5. ASSUME NEW r \in Runners, Crash(r)
      PROVE  run'[r].pc = "idle" /\ \A q \in Runners : q # r => run'[q] = run[q]
  BY <1>5 DEF Crash, EndRun, Resting, TypeOK
<1> QED BY <1>1, <1>2, <1>3, <1>4, <1>5

LEMMA OrderedOthers ==
  ASSUME IInv, IInv', Ordered, Others
  PROVE  Ordered'
<1> USE DEF rows, history
<1>t. TypeOK /\ TypeOK'
  BY DEF IInv
<1>1. ASSUME StatusStep, found' = found,
             \A s, t \in Scans : s < t /\ scan'[t].status # "absent" => scan[s].status # "absent",
             \A s \in Scans : scan'[s].status = "running" => scan[s].status = "running",
             \A d \in Docs : row'[d].scan \in {0, row[d].scan},
             \A r \in Runners : run'[r].pc = "idle" \/ run'[r] = run[r]
      PROVE  Ordered'
  <2>1. \A s \in Scans : scan'[s].status = "running" \/ found'[s] # {} => Begun(s)
    BY <1>1 DEF Ordered
  <2>2. \A r \in Runners : run'[r].pc = "idle" \/ (run[r].pc # "idle" /\ run'[r].scan = run[r].scan)
    BY <1>1
  <2> QED BY <1>t, <1>1, <2>1, <2>2, OrderedStays
<1>2. CASE scan' = scan
  <2>1. StatusStep
    BY <1>2 DEF StatusStep, Over
  <2>2. \A s, t \in Scans : s < t /\ scan'[t].status # "absent" => scan[s].status # "absent"
    BY <1>2 DEF Ordered
  <2> QED BY <1>t, <1>1, <1>2, <2>1, <2>2, OthersMoves
<1>3. ASSUME NEW o \in Operators, Insert(o), scan' # scan PROVE Ordered'
  <2> DEFINE u == {s \in Scans : scan[s].status = "absent"}
  <2>1. PICK q \in Requests :
          /\ u # {}
          /\ scan' = [scan EXCEPT ![Least(u)] =
               [Unborn EXCEPT !.status = "queued", !.wants = q.wants, !.scope = q.scope]]
    BY <1>3 DEF Insert
  <2>2. Least(u) \in Scans /\ scan[Least(u)].status = "absent" /\ \A s \in u : Least(u) <= s
    <3>1. u \in SUBSET Int /\ IsFiniteSet(u)
      BY DocsOK, FS_Subset
    <3> HIDE DEF u
    <3>2. \A s \in u : Least(u) <= s
      BY <2>1, <3>1, LeastOK
    <3> QED BY <2>1, <3>2, UnbornOK DEF u
  <2>3. /\ scan'[Least(u)].status = "queued"
        /\ \A t \in Scans : t # Least(u) => scan'[t] = scan[t]
    BY <1>t, <2>1, <2>2 DEF TypeOK, Unborn
  <2>4. /\ found' = found /\ row' = row /\ run' = run
    BY <1>3 DEF Insert
  <2>5. StatusStep
    BY <2>2, <2>3 DEF StatusStep, Over
  <2>6. \A s, t \in Scans : s < t /\ scan'[t].status # "absent" => scan[s].status # "absent"
    <3> SUFFICES ASSUME NEW s \in Scans, NEW t \in Scans, s < t, scan'[t].status # "absent",
                        scan[s].status = "absent"
                 PROVE  FALSE
      OBVIOUS
    <3>1. t = Least(u)
      BY <2>3 DEF Ordered
    <3>2. t <= s
      BY <2>2, <3>1
    <3> QED BY <3>2, DocsOK
  <2>7. \A s \in Scans : scan'[s].status = "running" => scan[s].status = "running"
    BY <2>2, <2>3
  <2> HIDE DEF u
  <2> QED BY <1>1, <2>4, <2>5, <2>6, <2>7
<1>4. ASSUME NEW s \in Scans, Cancel(s) PROVE Ordered'
  <2>1. \A t \in Scans : scan'[t].status = IF t = s THEN "cancelled" ELSE scan[t].status
    BY <1>t, <1>4 DEF Cancel, TypeOK, Scan
  <2>2. Active(s) /\ found' = found /\ row' = row /\ run' = run
    BY <1>4 DEF Cancel
  <2>3. StatusStep
    BY <2>1, <2>2 DEF StatusStep, Over
  <2>4. \A x, t \in Scans : x < t /\ scan'[t].status # "absent" => scan[x].status # "absent"
    BY <2>1, <2>2 DEF Ordered, Active
  <2>5. \A t \in Scans : scan'[t].status = "running" => scan[t].status = "running"
    BY <2>1
  <2> QED BY <1>1, <2>2, <2>3, <2>4, <2>5
<1>5. scan' = scan \/ (\E o \in Operators : Insert(o)) \/ (\E s \in Scans : Cancel(s))
  BY DEF Others, CheckSlot, Crash, Change, Stage, Dismiss, Commit
<1> QED BY <1>2, <1>3, <1>4, <1>5

LEMMA StatusTyped ==
  ASSUME TypeOK
  PROVE  \A s \in Scans : scan[s].status \in Statuses
BY DEF TypeOK, Scan

\* The scan a runner takes up: every earlier one is over.
LEMMA PollBegins ==
  ASSUME TypeOK, Ordered, NextToRun # {}
  PROVE  Begun(Least(NextToRun))
<1> DEFINE x == Least(NextToRun)
<1>1. x \in NextToRun /\ x \in Scans
  BY NextToRunOK
<1>2. \A s \in NextToRun : x <= s
  <2>1. NextToRun \subseteq Scans
    BY DEF NextToRun
  <2>2. NextToRun \in SUBSET Int /\ IsFiniteSet(NextToRun)
    BY <2>1, DocsOK, FS_Subset
  <2> QED BY <2>2, LeastOK
<1> SUFFICES Begun(x)
  OBVIOUS
<1> HIDE DEF x
<1>3. CASE scan[x].status = "running"
  BY <1>1, <1>3 DEF Ordered
<1>4. CASE scan[x].status # "running"
  <2>1. /\ scan[x].status = "queued" /\ \A s \in Scans : scan[s].status # "running"
        /\ NextToRun = {s \in Scans : scan[s].status = "queued"}
    BY <1>1, <1>4 DEF NextToRun
  <2>2. ASSUME NEW t \in Scans, t < x PROVE Over(t)
    <3>1. scan[t].status # "absent"
      BY <1>1, <2>1, <2>2 DEF Ordered
    <3>2. scan[t].status # "queued"
      <4>1. t \in Int /\ x \in Int
        BY <1>1, DocsOK
      <4> QED BY <1>2, <2>1, <2>2, <4>1
    <3> QED BY <2>1, <3>1, <3>2, StatusTyped DEF Statuses, Over
  <2> QED BY <2>1, <2>2 DEF Begun
<1> QED BY <1>3, <1>4

\* What a step of a runner makes of the rows, and of the documents flagged.
LEMMA RowMoves ==
  ASSUME IInv, NEW r \in Runners, RunnerStep(r)
  PROVE  \/ row' = row /\ found' = found
         \/ WritePage(r)
         \/ Close(r) /\ found' = found
BY DEF RunnerStep, Poll, Mark, Load, ReadPage, EndPhase, SavePage, SaveLast, Close, Finish, Stop,
       HandleError, rows, history

LEMMA ScanStamps ==
  ASSUME IInv, NEW r \in Runners, RunnerStep(r)
  PROVE  /\ \A d \in Docs : \/ row'[d].scan = row[d].scan
                            \/ row'[d].scan = run[r].scan /\ run[r].scan \in Scans /\ WritePage(r)
         /\ \A s \in Scans : \/ found'[s] = found[s]
                             \/ s = run[r].scan /\ WritePage(r)
<1>t. TypeOK
  BY DEF IInv
<1>1. CASE WritePage(r)
  <2> DEFINE s == run[r].scan
  <2>1. s \in Scans /\ run[r].hits \subseteq Hit
    BY <1>1, WritePageMoves
  <2>2. PICK H \in SUBSET run[r].hits :
          /\ row' = Written(s, H)
          /\ found' = [found EXCEPT ![s] = @ \cup {h.doc : h \in H}]
    BY <1>1, WritePageMoves
  <2> HIDE DEF s
  <2>3. \A t \in Scans : t # s => found'[t] = found[t]
    BY <1>t, <2>2 DEF TypeOK
  <2>4. ASSUME NEW d \in Docs PROVE row'[d].scan = row[d].scan \/ row'[d].scan = s
    <3>1. CASE row'[d] = row[d]
      BY <3>1
    <3>2. CASE \E h \in H : row'[d] = Stamp(s, h)
      BY <1>t, <2>1, <3>2, StampFields
    <3> QED BY <2>2, <3>1, <3>2, WrittenRow
  <2> QED BY <1>1, <2>1, <2>3, <2>4 DEF s
<1>2. CASE Close(r) /\ found' = found
  <2>1. ASSUME NEW d \in Docs PROVE row'[d].scan = row[d].scan
    <3>1. row[d] \in Row
      BY <1>t DEF TypeOK
    <3>2. row' = row \/ row'[d] = row[d]
            \/ row'[d] = [row[d] EXCEPT !.state = "closed", !.closer = run[r].scan]
      BY <1>2 DEF Close
    <3> QED BY <3>1, <3>2 DEF Row
  <2> QED BY <1>2, <2>1
<1> QED BY <1>1, <1>2, RowMoves

LEMMA RunnerStatusStep ==
  ASSUME IInv, NEW r \in Runners, RunnerStep(r)
  PROVE  /\ StatusStep
         /\ \A t \in Scans : scan'[t].status # "absent" => scan[t].status # "absent"
         /\ \A t \in Scans : scan'[t].status = "running" =>
              scan[t].status = "running" \/ (t = run[r].scan /\ run[r].pc # "idle")
         /\ \A t \in Scans : scan'[t].status = "cancelled" =>
              scan[t].status = "cancelled" \/ (t = run[r].scan /\ run[r].pc = "stop")
<1>1. CASE \A t \in Scans : scan'[t].status = scan[t].status
  BY <1>1 DEF StatusStep, Over
<1>2. CASE ~\A t \in Scans : scan'[t].status = scan[t].status
  <2> DEFINE s == run[r].scan
  <2>1. /\ run[r].pc # "idle" /\ s \in Scans
        /\ \A t \in Scans : t # s => scan'[t].status = scan[t].status
        /\ \/ Active(s) /\ scan'[s].status = "running"
           \/ scan'[s].status = "done"
           \/ run[r].pc = "stop" /\ scan'[s].status = "cancelled"
           \/ scan'[s].status = "failed"
    BY <1>2, StatusMoves
  <2>2. scan[s].status # "absent"
    BY <2>1 DEF IInv, RunsOK, RunOK, Sound
  <2> HIDE DEF s
  <2>3. Over(s) => scan'[s].status \in {"done", "cancelled", "failed"}
    BY <2>1 DEF Over, Active
  <2>4. StatusStep
    BY <2>1, <2>3 DEF StatusStep, Over
  <2> QED BY <2>1, <2>2, <2>4 DEF s
<1> QED BY <1>1, <1>2

LEMMA OrderedRunner ==
  ASSUME IInv, IInv', Ordered, NEW r \in Runners, RunnerStep(r)
  PROVE  Ordered'
<1>t. TypeOK /\ TypeOK'
  BY DEF IInv
<1>b. run[r].pc # "idle" => Begun(run[r].scan)
  BY DEF Ordered
<1>w. WritePage(r) => run[r].pc # "idle"
  BY DEF WritePage, At
<1>1. /\ StatusStep
      /\ \A s, t \in Scans : s < t /\ scan'[t].status # "absent" => scan[s].status # "absent"
  BY RunnerStatusStep DEF Ordered
<1>2. \A s \in Scans : scan'[s].status = "running" \/ found'[s] # {} => Begun(s)
  BY <1>b, <1>w, RunnerStatusStep, ScanStamps DEF Ordered
<1>3. \A d \in Docs : row'[d].scan \in {0, row[d].scan} \/ Begun(row'[d].scan)
  <2> SUFFICES ASSUME NEW d \in Docs, row'[d].scan # row[d].scan PROVE Begun(row'[d].scan)
    OBVIOUS
  <2>1. row'[d].scan = run[r].scan /\ WritePage(r)
    BY ScanStamps
  <2> QED BY <1>b, <1>w, <2>1
<1>4. \A q \in Runners : \/ run'[q].pc = "idle"
                         \/ run[q].pc # "idle" /\ run'[q].scan = run[q].scan
                         \/ Begun(run'[q].scan)
  <2> SUFFICES ASSUME NEW q \in Runners, run'[q].pc # "idle",
                      ~(run[q].pc # "idle" /\ run'[q].scan = run[q].scan)
               PROVE  Begun(run'[q].scan)
    OBVIOUS
  <2>1. q = r /\ Poll(r) /\ run'[r].scan = Least(NextToRun)
    BY RunMoves
  <2>2. Begun(Least(NextToRun))
    BY <1>t, <2>1, PollBegins DEF Poll
  <2> QED BY <2>1, <2>2
<1> QED BY <1>t, <1>1, <1>2, <1>3, <1>4, OrderedStays

(***************************************************************************)
(* The run at work is the last that has flagged anything.                  *)
(***************************************************************************)
Taken(r) == run[r].pc \notin {"idle", "polled"}
Latest ==
  /\ \A r \in Older : run[r].pc \in {"idle", "polled", "load", "error"}
  /\ \A r \in Newer : Taken(r) =>
       /\ \A t \in Scans : run[r].scan < t => found[t] = {}
       /\ \A d \in Docs : row[d].scan <= run[r].scan

LEMMA LatestOthers ==
  ASSUME IInv, IInv', Latest, Others
  PROVE  Latest'
<1>t. TypeOK /\ TypeOK'
  BY DEF IInv
<1>1. \A r \in Older : run'[r].pc \in {"idle", "polled", "load", "error"}
  BY <1>t, OthersMoves, ConstantsOK DEF Latest
<1>2. ASSUME NEW r \in Newer, run'[r].pc \notin {"idle", "polled"}
      PROVE  /\ \A t \in Scans : run'[r].scan < t => found'[t] = {}
             /\ \A d \in Docs : row'[d].scan <= run'[r].scan
  <2>1. r \in Runners
    BY DEF Newer
  <2>2. run'[r] = run[r] /\ found' = found /\ \A d \in Docs : row'[d].scan \in {0, row[d].scan}
    BY <1>t, <1>2, <2>1, OthersMoves
  <2>3. 0 <= run[r].scan
    BY <1>t, <2>1, ConstantsOK DEF TypeOK, Run
  <2> QED BY <1>2, <2>2, <2>3 DEF Latest, Taken
<1> QED BY <1>1, <1>2 DEF Latest, Taken

LEMMA LatestRunner ==
  ASSUME OneRunner, IInv, IInv', Ordered, Latest, NEW r \in Runners, RunnerStep(r)
  PROVE  Latest'
<1>t. TypeOK /\ TypeOK'
  BY DEF IInv
<1>s. run[r].pc # "idle" => run[r].scan \in Scans
  BY DEF IInv, RunsOK, RunOK
<1>1. ASSUME NEW q \in Older
      PROVE  run'[q].pc \in {"idle", "polled", "load", "error"}
  <2>1. CASE q = r
    <3>1. run[r].pc \in {"idle", "polled", "load", "error"}
      BY <2>1 DEF Latest
    <3>2. ~EndPhase(r) /\ ~SavePage(r) /\ ~ReadPage(r) /\ r \notin Newer
      BY <2>1, <3>1 DEF EndPhase, SavePage, ReadPage, At, Newer
    <3>3. run'[r].pc \in PCs
      BY <1>t DEF TypeOK, Run
    <3> QED BY <2>1, <3>1, <3>2, <3>3, RunMoves DEF PCs, Walking
  <2>2. CASE q # r
    <3>1. q \in Runners
      BY ConstantsOK
    <3> QED BY <2>2, <3>1, RunMoves DEF Latest
  <2> QED BY <2>1, <2>2
<1>2. ASSUME NEW q \in Newer, run'[q].pc \notin {"idle", "polled"}
      PROVE  /\ \A t \in Scans : run'[q].scan < t => found'[t] = {}
             /\ \A d \in Docs : row'[d].scan <= run'[q].scan
  <2>1. q \in Runners
    BY DEF Newer
  <2>2. CASE q # r
    <3>1. r \in Older
      BY <2>2 DEF OneRunner, Newer
    <3>2. ~WritePage(r)
      BY <3>1 DEF Latest, WritePage, At
    <3>3. run'[q] = run[q]
      BY <2>1, <2>2, RunMoves
    <3>4. \A d \in Docs : row'[d].scan = row[d].scan
      BY <3>2, ScanStamps
    <3>5. \A t \in Scans : found'[t] = found[t]
      BY <3>2, ScanStamps
    <3> QED BY <1>2, <3>3, <3>4, <3>5 DEF Latest, Taken
  <2>3. CASE q = r
    <3>1. run'[r].scan = run[r].scan /\ run[r].pc # "idle" /\ run[r].scan \in Scans
      BY <1>2, <1>s, <2>3, RunMoves
    <3> DEFINE s == run[r].scan
    <3>2. s \in Int /\ s >= 0
      BY <3>1, <1>t, ConstantsOK DEF TypeOK, Run
    <3>3. /\ \A t \in Scans : s < t => found[t] = {}
          /\ \A d \in Docs : row[d].scan <= s
      <4>1. CASE Taken(r)
        BY <2>3, <4>1 DEF Latest
      <4>2. CASE ~Taken(r)
        <5>1. run[r].pc = "polled"
          BY <3>1, <4>2 DEF Taken
        <5>2. Mark(r)
          BY <5>1 DEF RunnerStep, Poll, Load, ReadPage, EndPhase, WritePage, SavePage, SaveLast,
             Close, Finish, Stop, HandleError, At
        <5>3. Active(s)
          <6>1. EndRun(r) => run'[r].pc = "idle"
            BY <1>t DEF EndRun, Resting, TypeOK
          <6> QED BY <1>2, <2>3, <5>2, <6>1 DEF Mark
        <5>4. ~Over(s)
          BY <5>3 DEF Active, Over
        <5>5. ASSUME NEW t \in Scans, s < t, Begun(t) PROVE FALSE
          BY <3>1, <5>4, <5>5 DEF Begun
        <5>6. ASSUME NEW d \in Docs PROVE row[d].scan <= s
          <6>1. row[d].scan \in 0 .. MaxScan
            BY <1>t DEF TypeOK, Row
          <6>2. CASE row[d].scan = 0
            BY <3>2, <6>2
          <6>3. CASE row[d].scan # 0
            <7>1. row[d].scan \in Scans /\ Begun(row[d].scan)
              BY <6>1, <6>3, ConstantsTyped DEF Ordered
            <7>2. ~(s < row[d].scan)
              BY <5>5, <7>1
            <7> QED BY <3>2, <6>1, <7>2, ConstantsOK
          <6> QED BY <6>2, <6>3
        <5> QED BY <5>5, <5>6 DEF Ordered
      <4> QED BY <4>1, <4>2
    <3>4. \A d \in Docs : row'[d].scan <= s
      BY <3>2, <3>3, ScanStamps
    <3>5. \A t \in Scans : s < t => found'[t] = {}
      <4> SUFFICES ASSUME NEW t \in Scans, s < t PROVE found'[t] = {}
        OBVIOUS
      <4>1. t # s
        BY <3>2
      <4> QED BY <3>3, <4>1, ScanStamps
    <3> QED BY <2>3, <3>1, <3>4, <3>5
  <2> QED BY <2>2, <2>3
<1> QED BY <1>1, <1>2 DEF Latest, Taken

(***************************************************************************)
(* A row that is open or carries a policy's reason was not closed by a     *)
(* scan; a flagged document that is a candidate carries the stamp of that  *)
(* scan or of a later one, unless a policy has added its reason; and what  *)
(* a runner is about to write rests on rows that no scan has closed since. *)
(***************************************************************************)
Named(d) == Foreign \in row[d].reasons
RowsNumbered ==
  \A d \in Docs : /\ Open(d) => row[d].n # 0 /\ row[d].closer = 0
                  /\ Named(d) => row[d].closer = 0
FoundIsMarked ==
  \A s \in Scans : \A d \in found[s] :
    row[d].state = "candidate" => s <= row[d].scan \/ Named(d)
HitOK(h) ==
  IF h.row = 0 THEN Open(h.doc) => Named(h.doc)
  ELSE row[h.doc].closer = 0 /\ (row[h.doc].n = h.row \/ Named(h.doc))
HitsOK == \A r \in Runners : run[r].pc = "write" => \A h \in run[r].hits : HitOK(h)
Marked == RowsNumbered /\ FoundIsMarked /\ HitsOK /\ FlaggedSurvives

\* What the decisions of operators and policies do to a row.
LEMMA EditedRow ==
  ASSUME TypeOK, NEW d \in Docs, Stage(d) \/ Dismiss(d) \/ Commit(d)
  PROVE  /\ \A e \in Docs : e # d => row'[e] = row[e]
         /\ found' = found /\ run' = run
         /\ \/ /\ Open(d) /\ row'[d].state \in {"staged", "closed"}
               /\ row'[d].n = row[d].n /\ row'[d].closer = row[d].closer
               /\ row'[d].reasons = row[d].reasons
            \/ /\ row'[d].state = "candidate" /\ Foreign \in row'[d].reasons
               /\ \/ Open(d) /\ row'[d].n = row[d].n /\ row'[d].closer = row[d].closer
                  \/ row'[d].n = row[d].n + 1 /\ row'[d].closer = 0
<1> USE DEF history
<1>1. row[d] \in Row /\ row \in [Docs -> Row]
  BY DEF TypeOK
<1>2. CASE Stage(d)
  <2>1. /\ row[d].state = "candidate" /\ found' = found /\ run' = run
        /\ row' = [row EXCEPT ![d].state = "staged"]
    BY <1>2 DEF Stage
  <2>2. row'[d] = [row[d] EXCEPT !.state = "staged"] /\ \A e \in Docs : e # d => row'[e] = row[e]
    BY <1>1, <2>1
  <2> QED BY <1>1, <2>1, <2>2 DEF Row, Open
<1>3. CASE Dismiss(d)
  <2>1. /\ Open(d) /\ found' = found /\ run' = run
        /\ row' = [row EXCEPT ![d].state = "closed"]
    BY <1>3 DEF Dismiss
  <2>2. row'[d] = [row[d] EXCEPT !.state = "closed"] /\ \A e \in Docs : e # d => row'[e] = row[e]
    BY <1>1, <2>1
  <2> QED BY <1>1, <2>1, <2>2 DEF Row
<1>4. CASE Commit(d)
  <2>1. /\ row[d].state # "staged" /\ found' = found /\ run' = run
        /\ \A e \in Docs : e # d => row'[e] = row[e]
    BY <1>1, <1>4 DEF Commit
  <2>2. CASE Open(d)
    <3>1. row'[d] = [row[d] EXCEPT !.reasons = @ \cup {Foreign}]
      BY <1>1, <1>4, <2>2 DEF Commit
    <3>2. row[d].state = "candidate"
      BY <2>1, <2>2 DEF Open
    <3> QED BY <1>1, <2>1, <2>2, <3>1, <3>2 DEF Row
  <2>3. CASE ~Open(d)
    <3>1. row'[d] = [NoRow EXCEPT !.n = row[d].n + 1, !.state = "candidate", !.reasons = {Foreign}]
      BY <1>1, <1>4, <2>3 DEF Commit
    <3> QED BY <2>1, <3>1 DEF NoRow
  <2> QED BY <2>2, <2>3
<1> QED BY <1>2, <1>3, <1>4

LEMMA MarkedOthers ==
  ASSUME IInv, IInv', Marked, Others
  PROVE  Marked'
<1>t. TypeOK /\ TypeOK'
  BY DEF IInv
<1>h. \A r \in Runners : run'[r].pc = "write" => run[r].pc = "write" /\ run'[r].hits = run[r].hits
  BY <1>t, OthersMoves
<1>d. \A r \in Runners : \A h \in run[r].hits : h.doc \in Docs
  BY <1>t DEF TypeOK, Run, Hit
<1>1. CASE row' = row
  <2>1. found' = found
    BY <1>t, OthersMoves
  <2>2. RowsNumbered' /\ FoundIsMarked' /\ FlaggedSurvives'
    BY <1>1, <2>1 DEF Marked, RowsNumbered, FoundIsMarked, FlaggedSurvives, Open, Named
  <2>3. HitsOK'
    BY <1>1, <1>h DEF Marked, HitsOK, HitOK, Open, Named
  <2> QED BY <2>2, <2>3 DEF Marked
<1>2. ASSUME NEW d \in Docs, Stage(d) \/ Dismiss(d) \/ Commit(d) PROVE Marked'
  <2>1. /\ \A e \in Docs : e # d => row'[e] = row[e]
        /\ found' = found
        /\ \/ /\ Open(d) /\ row'[d].state \in {"staged", "closed"}
              /\ row'[d].n = row[d].n /\ row'[d].closer = row[d].closer
              /\ row'[d].reasons = row[d].reasons
           \/ /\ row'[d].state = "candidate" /\ Foreign \in row'[d].reasons
              /\ \/ Open(d) /\ row'[d].n = row[d].n /\ row'[d].closer = row[d].closer
                 \/ row'[d].n = row[d].n + 1 /\ row'[d].closer = 0
    BY <1>t, <1>2, EditedRow
  <2>2. \A e \in Docs : row[e].n \in Nat
    BY <1>t DEF TypeOK, Row
  <2>3. RowsNumbered'
    <3>1. \A e \in Docs : e # d => /\ Open(e)' => row'[e].n # 0 /\ row'[e].closer = 0
                                   /\ Named(e)' => row'[e].closer = 0
      BY <2>1 DEF Marked, RowsNumbered, Open, Named
    <3>2. /\ Open(d)' => row'[d].n # 0 /\ row'[d].closer = 0
          /\ Named(d)' => row'[d].closer = 0
      BY <2>1, <2>2 DEF Marked, RowsNumbered, Open, Named
    <3> QED BY <3>1, <3>2 DEF RowsNumbered
  <2>4. FoundIsMarked'
    <3> SUFFICES ASSUME NEW s \in Scans, NEW e \in found[s], row'[e].state = "candidate"
                 PROVE  s <= row'[e].scan \/ Named(e)'
      BY <2>1 DEF FoundIsMarked
    <3>1. e \in Docs
      BY <1>t DEF TypeOK
    <3>2. CASE e = d
      BY <2>1, <3>2 DEF Named
    <3>3. CASE e # d
      BY <2>1, <3>1, <3>3 DEF Marked, FoundIsMarked, Named
    <3> QED BY <3>2, <3>3
  <2>5. HitsOK'
    <3> SUFFICES ASSUME NEW r \in Runners, run[r].pc = "write", NEW h \in run[r].hits
                 PROVE  HitOK(h)'
      BY <1>h DEF HitsOK
    <3>1. HitOK(h) /\ h.doc \in Docs
      BY <1>d DEF Marked, HitsOK
    <3>2. CASE h.doc # d
      BY <2>1, <3>1, <3>2 DEF HitOK, Open, Named
    <3>3. CASE h.doc = d
      BY <2>1, <3>1, <3>3 DEF HitOK, Open, Named, Marked, RowsNumbered
    <3> QED BY <3>2, <3>3
  <2>6. FlaggedSurvives'
    BY <2>1 DEF Marked, FlaggedSurvives
  <2> QED BY <2>3, <2>4, <2>5, <2>6 DEF Marked
<1> QED BY <1>t, <1>1, <1>2, OthersMoves

\* The hits of a page that was just read.
LEMMA ReadHits ==
  ASSUME IInv, Marked, NEW r \in Runners, ReadPage(r), run'[r].pc = "write"
  PROVE  \A h \in run'[r].hits : HitOK(h)
<1> DEFINE p == Least(Left(r))
<1>t. TypeOK
  BY DEF IInv
<1>1. run[r].pc = "page" /\ run[r] \in Run
  BY <1>t DEF ReadPage, At, TypeOK
<1>2. run[r].scan \in Scans
  BY <1>1 DEF IInv, RunsOK, RunOK
<1>3. Page(r, p) \subseteq Docs
  BY <1>t, <1>2, PageOK
<1>4. ASSUME NEW blind,
             run' = [run EXCEPT ![r].pc = "write", ![r].page = Page(r, p),
                                ![r].hits = Lookup(r, p, Page(r, p), blind)]
      PROVE  \A h \in run'[r].hits : HitOK(h)
  <2>1. run'[r].hits = Lookup(r, p, Page(r, p), blind)
    BY <1>t, <1>1, <1>4 DEF TypeOK, Run
  <2> SUFFICES ASSUME NEW h \in Lookup(r, p, Page(r, p), blind) PROVE HitOK(h)
    BY <2>1
  <2>2. PICK d \in Page(r, p) : h.doc = d /\ h.row = IF Open(d) THEN row[d].n ELSE 0
    BY DEF Lookup
  <2>3. d \in Docs
    BY <1>3, <2>2
  <2> QED BY <2>2, <2>3 DEF HitOK, Marked, RowsNumbered
<1>5. ~Fails(r)
  BY <1>t, <1>1 DEF Fails, Goto, TypeOK, Run
<1> QED BY <1>4, <1>5 DEF ReadPage

LEMMA MarkedWrite ==
  ASSUME OneRunner, IInv, IInv', Latest, Marked, NEW r \in Runners, WritePage(r)
  PROVE  RowsNumbered' /\ FoundIsMarked' /\ FlaggedSurvives'
<1> DEFINE s == run[r].scan
<1>t. TypeOK /\ TypeOK'
  BY DEF IInv
<1>1. run[r].pc = "write" /\ s \in Scans /\ run[r].hits \subseteq Hit
  BY WritePageMoves
<1>2. PICK H \in SUBSET run[r].hits :
        /\ row' = Written(s, H)
        /\ found' = [found EXCEPT ![s] = @ \cup {h.doc : h \in H}]
  BY WritePageMoves
<1>3. \A h \in H : h \in Hit /\ HitOK(h)
  BY <1>1 DEF Marked, HitsOK
<1>4. r \in Newer
  BY <1>1 DEF Latest, Newer
<1>5. \A t \in Scans : s < t => found[t] = {}
  BY <1>1, <1>4 DEF Latest, Taken
<1> HIDE DEF s
<1>6. ASSUME NEW d \in Docs
      PROVE  \/ row'[d] = row[d] /\ \A h \in H : h.doc = d => ~Lands(h)
             \/ /\ row'[d].scan = s /\ row'[d].closer = 0 /\ row'[d].n # 0
  <2>1. CASE row'[d] = row[d] /\ \A h \in H : h.doc = d => ~Lands(h)
    BY <2>1
  <2>2. ASSUME NEW h \in H, h.doc = d, Lands(h), row'[d] = Stamp(s, h)
        PROVE  row'[d].scan = s /\ row'[d].closer = 0 /\ row'[d].n # 0
    <3>1. row[d].n \in Nat
      BY <1>t DEF TypeOK, Row
    <3>2. CASE h.row = 0
      BY <1>t, <1>1, <1>3, <2>2, <3>1, <3>2, StampFields
    <3>3. CASE h.row # 0
      <4>1. row[d].n = h.row /\ row[d].closer = 0
        BY <1>3, <2>2, <3>3 DEF Lands, HitOK
      <4> QED BY <1>t, <1>1, <1>3, <2>2, <3>3, <4>1, StampFields
    <3> QED BY <3>2, <3>3
  <2> QED BY <1>2, <2>1, <2>2, WrittenRow
<1>7. RowsNumbered'
  <2> SUFFICES ASSUME NEW d \in Docs
               PROVE  /\ Open(d)' => row'[d].n # 0 /\ row'[d].closer = 0
                      /\ Named(d)' => row'[d].closer = 0
    BY DEF RowsNumbered
  <2>1. CASE row'[d] = row[d]
    BY <2>1 DEF Marked, RowsNumbered, Open, Named
  <2> QED BY <1>6, <2>1
<1>8. ASSUME NEW t \in Scans, NEW d \in found'[t]
      PROVE  d \in Docs /\ (d \in found[t] \/ (t = s /\ \E h \in H : h.doc = d))
  BY <1>t, <1>1, <1>2, <1>8 DEF TypeOK
<1>9. ASSUME NEW h \in H, NEW d \in Docs, h.doc = d, ~Lands(h)
      PROVE  Named(d) /\ row[d].closer = 0
  <2>1. CASE h.row = 0
    BY <1>3, <1>9, <2>1 DEF Lands, HitOK, Marked, RowsNumbered
  <2>2. CASE h.row # 0
    BY <1>3, <1>9, <2>2 DEF Lands, HitOK, Marked, RowsNumbered
  <2> QED BY <2>1, <2>2
<1>10. FoundIsMarked'
  <2> SUFFICES ASSUME NEW t \in Scans, NEW d \in found'[t], row'[d].state = "candidate"
               PROVE  t <= row'[d].scan \/ Named(d)'
    BY DEF FoundIsMarked
  <2>1. d \in Docs /\ (d \in found[t] \/ (t = s /\ \E h \in H : h.doc = d))
    BY <1>8
  <2>2. CASE row'[d] = row[d] /\ \A h \in H : h.doc = d => ~Lands(h)
    <3>1. CASE d \in found[t]
      BY <2>1, <2>2, <3>1 DEF Marked, FoundIsMarked, Named
    <3>2. ASSUME NEW h \in H, h.doc = d PROVE Named(d)'
      <4>1. Named(d)
        BY <1>9, <2>1, <2>2, <3>2
      <4> QED BY <2>2, <4>1 DEF Named
    <3> QED BY <2>1, <3>1, <3>2
  <2>3. CASE row'[d].scan = s
    <3>1. s \in Int /\ t \in Int
      BY <1>1, DocsOK
    <3>2. ~(s < t)
      BY <1>5, <2>1, <3>1
    <3> QED BY <2>3, <3>1, <3>2
  <2> QED BY <1>6, <2>1, <2>2, <2>3
<1>11. FlaggedSurvives'
  <2> SUFFICES ASSUME NEW d \in Docs, row'[d].closer # 0, d \in found'[row'[d].closer]
               PROVE  FALSE
    BY DEF FlaggedSurvives
  <2>1. row'[d] = row[d] /\ \A h \in H : h.doc = d => ~Lands(h)
    BY <1>6
  <2>2. row[d].closer \in Scans
    BY <1>t, <2>1, ConstantsTyped DEF TypeOK, Row
  <2>3. d \in found[row[d].closer] \/ \E h \in H : h.doc = d
    BY <1>8, <2>1, <2>2
  <2> QED BY <1>9, <2>1, <2>3 DEF Marked, FlaggedSurvives
<1> QED BY <1>7, <1>10, <1>11

LEMMA MarkedClose ==
  ASSUME Label[Foreign] \notin Detectors, IInv, IInv', Latest, Marked, NEW r \in Runners, Close(r)
  PROVE  RowsNumbered' /\ FoundIsMarked' /\ FlaggedSurvives'
<1> DEFINE s == run[r].scan
<1>t. TypeOK /\ TypeOK'
  BY DEF IInv
<1>1. run[r].pc = "close" /\ found' = found
  BY DEF Close, At, history
<1>2. s \in Scans /\ s # 0
  BY <1>1, ConstantsTyped DEF IInv, RunsOK, RunOK
<1>3. \A d \in Docs : row[d].scan <= s
  BY <1>1 DEF Latest, Newer, Taken
<1>4. ASSUME NEW d \in Stale(s)
      PROVE  d \notin found[s] /\ ~Named(d)
  <2>1. /\ d \in Docs /\ row[d].state = "candidate" /\ row[d].scan # s
        /\ \A w \in row[d].reasons : Label[w] \in scan[s].wants
    BY <1>t, <1>2 DEF Stale, EveryReasonRan, TypeOK, Scan
  <2>2. scan[s].wants \subseteq Detectors
    BY <1>t, <1>2 DEF TypeOK, Scan
  <2>3. ~Named(d)
    BY <2>1, <2>2 DEF Named
  <2>4. row[d].scan \in Int /\ s \in Int
    <3>1. row[d].scan \in 0 .. MaxScan
      BY <1>t, <2>1 DEF TypeOK, Row
    <3>2. row[d].scan \in Int
      BY <3>1
    <3> HIDE DEF s
    <3> QED BY <1>2, <3>2, DocsOK
  <2>5. ~(s <= row[d].scan)
    BY <1>3, <2>1, <2>4
  <2> QED BY <1>2, <2>1, <2>3, <2>5 DEF Marked, FoundIsMarked
<1>5. ASSUME NEW d \in Docs
      PROVE  \/ row'[d] = row[d]
             \/ /\ d \in Stale(s) /\ row'[d].state = "closed" /\ row'[d].closer = s
                /\ row'[d].reasons = row[d].reasons
  <2>1. row[d] \in Row
    BY <1>t DEF TypeOK
  <2>2. \/ row'[d] = row[d]
        \/ d \in Stale(s) /\ row'[d] = [row[d] EXCEPT !.state = "closed", !.closer = s]
    BY DEF Close
  <2> QED BY <2>1, <2>2 DEF Row
<1> HIDE DEF s
<1>6. RowsNumbered'
  BY <1>4, <1>5 DEF Marked, RowsNumbered, Open, Named
<1>7. FoundIsMarked'
  <2>1. \A t \in Scans : found[t] \subseteq Docs
    BY <1>t DEF TypeOK
  <2> QED BY <1>1, <1>5, <2>1 DEF Marked, FoundIsMarked, Named
<1>8. FlaggedSurvives'
  BY <1>1, <1>4, <1>5 DEF Marked, FlaggedSurvives
<1> QED BY <1>6, <1>7, <1>8

LEMMA MarkedRunner ==
  ASSUME OneRunner, Label[Foreign] \notin Detectors,
         IInv, IInv', Latest, Latest', Marked, NEW r \in Runners, RunnerStep(r)
  PROVE  Marked'
<1>t. TypeOK
  BY DEF IInv
<1>o. \A q \in Runners : q # r /\ run[q].pc = "write" => run'[q] = run[q] /\ r \in Older
  BY RunMoves DEF Latest, OneRunner, Newer
<1>1. CASE row' = row /\ found' = found
  <2>1. RowsNumbered' /\ FoundIsMarked' /\ FlaggedSurvives'
    BY <1>1 DEF Marked, RowsNumbered, FoundIsMarked, FlaggedSurvives, Open, Named
  <2>2. ASSUME NEW q \in Runners, run'[q].pc = "write", NEW h \in run'[q].hits PROVE HitOK(h)
    <3>1. CASE q # r
      BY <2>2, <3>1, RunMoves DEF Marked, HitsOK
    <3>2. CASE q = r
      BY <2>2, <3>2, RunMoves, ReadHits
    <3> QED BY <3>1, <3>2
  <2>3. HitsOK'
    BY <1>1, <2>2 DEF HitsOK, HitOK, Open, Named
  <2> QED BY <2>1, <2>3 DEF Marked
<1>2. CASE WritePage(r) \/ (Close(r) /\ found' = found)
  <2>1. RowsNumbered' /\ FoundIsMarked' /\ FlaggedSurvives'
    BY <1>2, MarkedWrite, MarkedClose
  <2>2. r \in Newer /\ ~ReadPage(r)
    BY <1>2 DEF WritePage, Close, ReadPage, At, Latest, Newer
  <2>3. \A q \in Runners : run'[q].pc # "write"
    <3> SUFFICES ASSUME NEW q \in Runners, run'[q].pc = "write" PROVE FALSE
      OBVIOUS
    <3>1. q # r
      BY <2>2, RunMoves
    <3>2. run[q].pc = "write"
      BY <3>1, RunMoves
    <3> QED BY <2>2, <3>1, <3>2, <1>o DEF Newer
  <2> QED BY <2>1, <2>3 DEF Marked, HitsOK
<1> QED BY <1>1, <1>2, RowMoves

(***************************************************************************)
(* After a scan is marked cancelled, at most one page is written for it.   *)
(***************************************************************************)
LateOK ==
  \A s \in Scans :
    \/ late[s] = 0
    \/ /\ late[s] = 1 /\ Over(s)
       /\ \A r \in Newer : run[r].scan = s =>
            /\ run[r].pc # "load"
            /\ run[r].pc \in {"page", "write"} => scan[s].status # "cancelled"

\* Nobody but a runner changes the row of a scan that is over.
LEMMA OthersLeaveOver ==
  ASSUME TypeOK, Others, NEW s \in Scans, Over(s)
  PROVE  scan'[s] = scan[s]
<1>1. ASSUME NEW o \in Operators, Insert(o), scan' # scan PROVE scan'[s] = scan[s]
  <2> DEFINE u == {x \in Scans : scan[x].status = "absent"}
  <2>1. u # {} /\ \E new : scan' = [scan EXCEPT ![Least(u)] = new]
    BY <1>1 DEF Insert
  <2>2. scan[Least(u)].status = "absent" /\ Least(u) \in Scans
    BY <2>1, UnbornOK
  <2>3. Least(u) # s
    BY <2>2 DEF Over
  <2> HIDE DEF u
  <2> QED BY <2>1, <2>2, <2>3 DEF TypeOK
<1>2. ASSUME NEW x \in Scans, Cancel(x) PROVE scan'[s] = scan[s]
  <2>1. x # s
    BY <1>2 DEF Cancel, Active, Over
  <2> QED BY <1>2, <2>1 DEF Cancel, TypeOK
<1>3. scan' = scan \/ (\E o \in Operators : Insert(o)) \/ (\E x \in Scans : Cancel(x))
  BY DEF Others, CheckSlot, Crash, Change, Stage, Dismiss, Commit
<1> QED BY <1>1, <1>2, <1>3

LEMMA OverStays ==
  ASSUME IInv, Next, NEW s \in Scans, Over(s)
  PROVE  Over(s)'
<1>1. ASSUME Others PROVE Over(s)'
  BY <1>1, OthersLeaveOver DEF IInv, Over
<1>2. ASSUME NEW r \in Runners, RunnerStep(r) PROVE Over(s)'
  BY <1>2, RunnerStatusStep DEF StatusStep
<1> QED BY <1>1, <1>2 DEF Next

\* A runner that may be on a scan that has had its late page is not about to
\* write another.
LEMMA LateRun ==
  ASSUME OneRunner, IInv, Latest, Next, NEW s \in Scans, Over(s), NEW q \in Newer,
         run'[q].scan = s,
         run[q].scan = s => /\ run[q].pc # "load"
                            /\ run[q].pc \in {"page", "write"} => scan[s].status # "cancelled"
  PROVE  /\ run'[q].pc # "load"
         /\ run'[q].pc \in {"page", "write"} => scan'[s].status # "cancelled"
<1>q. q \in Runners
  BY DEF Newer
<1>t. TypeOK
  BY DEF IInv
<1>1. ASSUME Others
      PROVE  /\ run'[q].pc # "load"
             /\ run'[q].pc \in {"page", "write"} => scan'[s].status # "cancelled"
  <2>1. scan'[s] = scan[s]
    BY <1>t, <1>1, OthersLeaveOver
  <2>2. run'[q].pc = "idle" \/ run'[q] = run[q]
    BY <1>t, <1>q, <1>1, OthersMoves
  <2> QED BY <2>1, <2>2
<1>2. ASSUME NEW r \in Runners, RunnerStep(r), r # q
      PROVE  /\ run'[q].pc # "load"
             /\ run'[q].pc \in {"page", "write"} => scan'[s].status # "cancelled"
  <2>1. run'[q] = run[q]
    BY <1>q, <1>2, RunMoves
  <2>2. r \in Older
    BY <1>2 DEF OneRunner, Newer
  <2>3. scan'[s].status = "cancelled" => scan[s].status = "cancelled"
    BY <1>2, <2>2, RunnerStatusStep DEF Latest
  <2> QED BY <2>1, <2>3
<1>3. ASSUME RunnerStep(q)
      PROVE  /\ run'[q].pc # "load"
             /\ run'[q].pc \in {"page", "write"} => scan'[s].status # "cancelled"
  <2>1. CASE run'[q].pc = "idle" \/ run'[q].pc = "polled"
    BY <2>1
  <2>2. CASE run'[q].pc \notin {"idle", "polled"}
    <3>1. run[q].scan = s
      BY <1>q, <1>3, <2>2, RunMoves
    <3>2. run'[q].pc # "load"
      BY <1>q, <1>3, <3>1, RunMoves DEF Active, Over
    <3>3. ASSUME run'[q].pc \in {"page", "write"}
          PROVE  run[q].pc # "stop" /\ scan[s].status # "cancelled"
      <4>1. \/ Load(q) \/ EndPhase(q) \/ ReadPage(q)
            \/ SavePage(q) /\ scan[s].status # "cancelled"
        BY <1>q, <1>3, <3>1, <3>3, RunMoves
      <4>2. run[q].pc = "page" \/ (run[q].pc = "save" /\ scan[s].status # "cancelled")
        BY <3>1, <4>1 DEF Load, EndPhase, ReadPage, SavePage, At
      <4> QED BY <3>1, <4>2
    <3>4. run'[q].pc \in {"page", "write"} => scan'[s].status # "cancelled"
      BY <1>q, <1>3, <3>3, RunnerStatusStep
    <3> QED BY <3>2, <3>4
  <2> QED BY <2>1, <2>2
<1> QED BY <1>1, <1>2, <1>3 DEF Next

LEMMA LateMoves ==
  ASSUME IInv, Next
  PROVE  \/ late' = late
         \/ \E r \in Runners :
              /\ WritePage(r) /\ run[r].scan \in Scans /\ run[r].pc = "write"
              /\ late' = [late EXCEPT ![run[r].scan] =
                            IF scan[run[r].scan].status = "cancelled" THEN @ + 1 ELSE @]
              /\ run'[r].pc = "save"
<1>1. ASSUME Others PROVE late' = late
  BY <1>1, OthersMoves DEF IInv
<1>2. ASSUME NEW r \in Runners, RunnerStep(r), ~WritePage(r) PROVE late' = late
  BY <1>2 DEF RunnerStep, Poll, Mark, Load, ReadPage, EndPhase, SavePage, SaveLast, Close, Finish,
     Stop, HandleError, history
<1> QED BY <1>1, <1>2, WritePageMoves DEF Next

LEMMA LateKept ==
  ASSUME OneRunner, IInv, IInv', Latest, LateOK, Next
  PROVE  LateOK'
<1> SUFFICES ASSUME NEW s \in Scans
             PROVE  \/ late'[s] = 0
                    \/ /\ late'[s] = 1 /\ Over(s)'
                       /\ \A r \in Newer : run'[r].scan = s =>
                            /\ run'[r].pc # "load"
                            /\ run'[r].pc \in {"page", "write"} => scan'[s].status # "cancelled"
  BY DEF LateOK
<1>t. TypeOK
  BY DEF IInv
<1>1. CASE late'[s] = late[s]
  <2>1. CASE late[s] = 0
    BY <1>1, <2>1
  <2>2. CASE late[s] # 0
    <3>1. /\ late[s] = 1 /\ Over(s)
          /\ \A r \in Newer : run[r].scan = s =>
               /\ run[r].pc # "load"
               /\ run[r].pc \in {"page", "write"} => scan[s].status # "cancelled"
      BY <2>2 DEF LateOK
    <3>2. Over(s)'
      BY <3>1, OverStays
    <3>3. \A r \in Newer : run'[r].scan = s =>
            /\ run'[r].pc # "load"
            /\ run'[r].pc \in {"page", "write"} => scan'[s].status # "cancelled"
      BY <3>1, LateRun
    <3> QED BY <1>1, <3>1, <3>2, <3>3
  <2> QED BY <2>1, <2>2
<1>2. CASE late'[s] # late[s]
  <2>1. PICK r \in Runners :
          /\ WritePage(r) /\ run[r].scan \in Scans /\ run[r].pc = "write"
          /\ late' = [late EXCEPT ![run[r].scan] =
                        IF scan[run[r].scan].status = "cancelled" THEN @ + 1 ELSE @]
          /\ run'[r].pc = "save"
    BY <1>2, LateMoves
  <2>2. /\ run[r].scan = s /\ scan[s].status = "cancelled" /\ late'[s] = late[s] + 1
    BY <1>t, <1>2, <2>1 DEF TypeOK
  <2>3. r \in Newer
    BY <2>1 DEF Latest, Newer
  <2>4. late[s] = 0
    BY <2>1, <2>2, <2>3 DEF LateOK
  <2>5. Over(s)'
    BY <2>2, OverStays DEF Over
  <2>6. \A q \in Newer : q = r
    BY <2>3 DEF OneRunner
  <2> QED BY <2>1, <2>2, <2>4, <2>5, <2>6
<1> QED BY <1>1, <1>2

(***************************************************************************)
(* With one instance that can run the scans.                               *)
(***************************************************************************)
OneRunnerInv == IInv /\ Ordered /\ Latest /\ LateOK

LEMMA OneRunnerInit ==
  ASSUME OneRunner, Init
  PROVE  OneRunnerInv
<1>1. IInv
  BY InitKeeps
<1>2. \A r \in Runners : run[r].pc = "idle"
  BY DEF Init, Resting
<1>3. \A d \in Docs : row[d].scan = 0
  BY ConstantsOK DEF Init
<1>4. \A s \in Scans : scan[s].status = "absent" /\ found[s] = {} /\ late[s] = 0
  BY DEF Init, Unborn
<1>5. Ordered
  BY <1>2, <1>3, <1>4 DEF Ordered
<1>6. Latest
  BY <1>2, ConstantsOK DEF Latest, Newer, Taken
<1>7. LateOK
  BY <1>4 DEF LateOK
<1> QED BY <1>1, <1>5, <1>6, <1>7 DEF OneRunnerInv

LEMMA OneRunnerNext ==
  ASSUME OneRunner, OneRunnerInv, [Next]_vars
  PROVE  OneRunnerInv'
<1>1. IInv'
  BY NextKeeps DEF OneRunnerInv
<1>2. CASE UNCHANGED vars
  BY <1>1, <1>2 DEF OneRunnerInv, vars, rows, history, Ordered, Latest, LateOK, Begun, Over, Taken
<1>3. CASE Next
  <2>1. Ordered'
    BY <1>1, <1>3, OrderedOthers, OrderedRunner DEF OneRunnerInv, Next
  <2>2. Latest'
    BY <1>1, <1>3, LatestOthers, LatestRunner DEF OneRunnerInv, Next
  <2>3. LateOK'
    BY <1>1, <1>3, LateKept DEF OneRunnerInv
  <2> QED BY <1>1, <2>1, <2>2, <2>3 DEF OneRunnerInv
<1> QED BY <1>2, <1>3

LEMMA OneRunnerInvariance ==
  ASSUME OneRunner
  PROVE  Spec => []OneRunnerInv
<1>1. Init => OneRunnerInv
  BY OneRunnerInit
<1>2. OneRunnerInv /\ [Next]_vars => OneRunnerInv'
  BY OneRunnerNext
<1> QED BY <1>1, <1>2, PTL DEF Spec

\* While a scan says cancelled, no more pages are written for it than there are
\* instances that can run it (the status scan_checkpoint gives back to execute).
THEOREM CancelHolds ==
  ASSUME OneRunner
  PROVE  Spec => []CancelBounded
<1>1. ASSUME OneRunnerInv PROVE CancelBounded
  <2>1. Cardinality(Runners \ Older) = 1
    BY FS_Singleton DEF OneRunner, Newer
  <2>2. \A s \in Scans : late[s] = 0 \/ late[s] = 1
    BY <1>1 DEF OneRunnerInv, LateOK
  <2> QED BY <2>1, <2>2 DEF CancelBounded
<1> QED BY <1>1, OneRunnerInvariance, PTL

\* A scan never closes a document it has flagged, whatever operators and policies
\* do to the rows meanwhile (close_stale_candidates), unless the reason a policy
\* writes is taken for one of the detectors.
THEOREM FlagsSurvive ==
  ASSUME OneRunner, Label[Foreign] \notin Detectors
  PROVE  Spec => []FlaggedSurvives
<1>1. Init => Marked
  <2> SUFFICES ASSUME Init PROVE Marked
    OBVIOUS
  <2>1. \A d \in Docs : row[d].closer = 0 /\ (row[d].n = 0 => row[d].state = "none")
    BY ConstantsOK DEF Init
  <2> QED BY <2>1 DEF Init, Marked, RowsNumbered, FoundIsMarked, HitsOK, FlaggedSurvives, Open,
        Resting
<1>2. ASSUME OneRunnerInv, OneRunnerInv', Marked, [Next]_vars PROVE Marked'
  <2>1. CASE UNCHANGED vars
    BY <1>2, <2>1 DEF vars, rows, history, Marked, RowsNumbered, FoundIsMarked, HitsOK, HitOK,
       FlaggedSurvives, Open, Named
  <2>2. CASE Others
    BY <1>2, <2>2, MarkedOthers DEF OneRunnerInv
  <2>3. ASSUME NEW r \in Runners, RunnerStep(r) PROVE Marked'
    BY <1>2, <2>3, MarkedRunner DEF OneRunnerInv
  <2> QED BY <1>2, <2>1, <2>2, <2>3 DEF Next
<1>3. Marked => FlaggedSurvives
  BY DEF Marked
<1> QED BY <1>1, <1>2, <1>3, OneRunnerInvariance, PTL DEF Spec

=============================================================================
