------------------------ MODULE DuplicateKeepersProofs ------------------------
(***************************************************************************)
(* Pruning duplicates never deletes the last copy, as long as the policy's *)
(* auto band does not go by near-duplicates: for every number of documents,*)
(* group detectors, scans and commits at a time.                           *)
(***************************************************************************)
EXTENDS DuplicateKeepers, OrderLemmas

LEMMA DocsOK ==
  /\ Docs \subseteq Nat /\ Docs \subseteq Int /\ IsFiniteSet(Docs) /\ Cardinality(Docs) = MaxDoc
  /\ Docs \subseteq 0 .. MaxDoc
<1>1. MaxDoc \in Nat
  BY ConstantsOK
<1>2. IsFiniteSet(1 .. MaxDoc) /\ Cardinality(1 .. MaxDoc) = MaxDoc
  BY <1>1, FS_Interval
<1> QED BY <1>1, <1>2 DEF Docs

LEMMA SizeOK ==
  ASSUME NEW M \in SUBSET Docs
  PROVE  IsFiniteSet(M) /\ Cardinality(M) \in 0 .. MaxDoc
<1>1. IsFiniteSet(M) /\ Cardinality(M) <= Cardinality(Docs)
  BY DocsOK, FS_Subset
<1>2. Cardinality(M) \in Nat /\ MaxDoc \in Nat
  BY <1>1, FS_CardinalityType, ConstantsOK
<1> QED BY <1>1, <1>2, DocsOK

\* The least member of a set of copies is not spare, and is below the spare ones.
LEMMA KeeperExists ==
  ASSUME NEW M \in SUBSET Docs, M # {}
  PROVE  \E k \in M : k \notin Spares(M)
<1>1. M \in SUBSET Int /\ IsFiniteSet(M)
  BY DocsOK, FS_Subset
<1>2. PICK k \in M : \A y \in M : k <= y
  BY <1>1, LeastExists
<1>3. \A y \in M : y \in Int /\ k \in Int
  BY <1>1
<1>4. \A y \in M : ~(y < k)
  BY <1>2, <1>3
<1> QED BY <1>4 DEF Spares

(***************************************************************************)
(* The inductive invariant: what a scan holds is a group of one key or a   *)
(* pair, of which the least member is the keeper.                          *)
(***************************************************************************)
Work == {g \in Groups : g.key # NoKey} \cup Pairs

ScanOK(s) ==
  /\ scan[s].todo \subseteq Work
  /\ scan[s].pc \in {"group", "flag"} =>
       /\ scan[s].unit \in Work
       /\ scan[s].members # {}
       /\ scan[s].unit \notin Pairs =>
            \A d \in scan[s].members : KeyOf[scan[s].unit.method][d] = scan[s].unit.key

ScansOK == \A s \in Scanners : ScanOK(s)

LEMMA WorkOK ==
  /\ Groups \subseteq Unit /\ Pairs \subseteq Unit /\ NoUnit \in Unit
  /\ \A u \in Work : u \notin Pairs => u \in Groups /\ u.method \in Methods /\ u.key # NoKey
  /\ \A u \in Pairs : u.pair \in Near
<1>1. Groups \subseteq Unit
  BY DEF Groups, Unit
<1>2. Pairs \subseteq Unit
  BY ConstantsOK DEF Pairs, Unit
<1>3. NoUnit \in Unit
  BY DEF NoUnit, Unit
<1>4. \A u \in Groups : u.method \in Methods
  BY DEF Groups
<1>5. \A u \in Pairs : u.pair \in Near
  BY DEF Pairs
<1> QED BY <1>1, <1>2, <1>3, <1>4, <1>5 DEF Work

\* The members of a unit of work are live copies of the same thing.
LEMMA MembersOK ==
  ASSUME TypeOK, NEW s \in Scanners, NEW u \in Work
  PROVE  /\ Members(s, u) \subseteq live /\ Members(s, u) \subseteq Docs
         /\ \A d, e \in Members(s, u) : Family[d] = Family[e]
         /\ u \notin Pairs => \A d \in Members(s, u) : KeyOf[u.method][d] = u.key
<1>1. live \subseteq Docs /\ scan[s] \in Scan
  BY DEF TypeOK
<1>2. CASE u \in Pairs
  <2>1. Members(s, u) = u.pair \cap live
    BY <1>2 DEF Members
  <2>2. u.pair \in Near
    BY <1>2, WorkOK
  <2> QED BY <1>1, <1>2, <2>1, <2>2, ConstantsOK
<1>3. CASE u \notin Pairs
  <2>1. Members(s, u) = {d \in scan[s].scope \cap live : KeyOf[u.method][d] = u.key}
    BY <1>3 DEF Members
  <2>2. u.method \in Methods /\ u.key # NoKey
    BY <1>3, WorkOK
  <2> QED BY <1>1, <1>3, <2>1, <2>2, ConstantsOK
<1> QED BY <1>2, <1>3

(***************************************************************************)
(* Types.                                                                  *)
(***************************************************************************)
LEMMA ConstantsTyped ==
  /\ NoMember \in Member /\ NoScan \in Scan /\ NoCommit \in Commit
  /\ MaxScans \in 0 .. MaxScans /\ MaxEdits \in 0 .. MaxEdits
BY ConstantsOK, WorkOK DEF NoMember, Member, NoScan, Scan, NoCommit, Commit

LEMMA InitTyped == Init => TypeOK
BY ConstantsTyped DEF Init, TypeOK

LEMMA EditTyped ==
  ASSUME TypeOK, Edit
  PROVE  edits' \in 0 .. MaxEdits
BY ConstantsOK DEF TypeOK, Edit

LEMMA UpsertedOK ==
  ASSUME TypeOK, NEW D
  PROVE  /\ Upserted(D) \in [Docs -> {"none", "candidate", "staged"}]
         /\ \A d \in Docs : Upserted(D)[d] # "none" => Open(d) \/ d \in D
BY DEF TypeOK, Upserted, Open

LEMMA ReadBandOK ==
  ASSUME TypeOK, NEW c \in Committers, NEW ids, ids # {},
         ids = First(PageSize, {d \in Band : d > commit[c].cursor})
  PROVE  ids \subseteq Band /\ ids \subseteq Docs /\ Greatest(ids) \in 0 .. MaxDoc
<1>1. ids \subseteq Band /\ ids \subseteq Docs
  BY DEF First, Band, TypeOK
<1>2. ids \in SUBSET Int /\ IsFiniteSet(ids)
  BY <1>1, DocsOK, FS_Subset
<1>3. Greatest(ids) \in ids
  BY <1>2, GreatestExists DEF Greatest
<1> QED BY <1>1, <1>3, DocsOK

LEMMA NextTyped ==
  ASSUME TypeOK, ScansOK, Next
  PROVE  TypeOK'
<1> USE DEF profile, lifecycle
<1>1. ASSUME NEW s \in Scanners, StartScan(s) PROVE TypeOK'
  <2>1. PICK sc \in Scopes :
          scan' = [scan EXCEPT ![s] = [NoScan EXCEPT !.pc = "read", !.scope = sc, !.todo = Work]]
    BY <1>1 DEF StartScan, Work
  <2>2. [NoScan EXCEPT !.pc = "read", !.scope = sc, !.todo = Work] \in Scan
    <3>1. sc \in SUBSET Docs /\ Work \subseteq Unit
      BY ConstantsOK, WorkOK DEF Work
    <3> QED BY <3>1, ConstantsTyped DEF NoScan, Scan
  <2>3. scan' \in [Scanners -> Scan]
    BY <2>1, <2>2 DEF TypeOK
  <2>4. scans' \in 0 .. MaxScans
    BY <1>1, ConstantsOK DEF StartScan, TypeOK
  <2> QED BY <1>1, <2>3, <2>4 DEF StartScan, TypeOK
<1>2. ASSUME NEW s \in Scanners, Read(s) PROVE TypeOK'
  <2>1. PICK u \in scan[s].todo :
          scan' = [scan EXCEPT ![s].todo = @ \ {u},
            ![s].unit = IF Cardinality(Members(s, u)) > 1 THEN u ELSE NoUnit,
            ![s].members = IF Cardinality(Members(s, u)) > 1 THEN Members(s, u) ELSE {},
            ![s].pc = IF Cardinality(Members(s, u)) > 1 THEN "group" ELSE "read"]
    BY <1>2 DEF Read
  <2>2. scan[s] \in Scan /\ u \in Work
    BY <1>2 DEF TypeOK, ScansOK, ScanOK
  <2>3. u \in Unit /\ NoUnit \in Unit /\ Members(s, u) \subseteq Docs
    BY <2>2, WorkOK, MembersOK DEF Scan
  <2>4. ASSUME NEW v \in Unit, NEW M \in SUBSET Docs, NEW pc \in {"group", "read"}
        PROVE  [scan[s] EXCEPT !.todo = @ \ {u}, !.unit = v, !.members = M, !.pc = pc] \in Scan
    BY <2>2 DEF Scan
  <2>5. scan' \in [Scanners -> Scan]
    BY <2>1, <2>3, <2>4 DEF TypeOK
  <2> QED BY <1>2, <2>5 DEF Read, TypeOK
<1>3. ASSUME NEW s \in Scanners, EndScan(s) PROVE TypeOK'
  BY <1>3, ConstantsTyped DEF EndScan, TypeOK
<1>4. ASSUME NEW s \in Scanners, RecordUnit(s) PROVE TypeOK'
  <2>1. scan[s] \in Scan /\ scan[s].members \in SUBSET Docs /\ scan[s].unit \in Work
    BY <1>4 DEF TypeOK, Scan, ScansOK, ScanOK, RecordUnit
  <2>2. [scan[s] EXCEPT !.pc = "flag"] \in Scan
    BY <2>1 DEF Scan
  <2>3. scan' \in [Scanners -> Scan]
    BY <1>4, <2>2 DEF RecordUnit, TypeOK
  <2>4. ASSUME NEW m \in Methods
        PROVE  Grouped(scan[s].members, group[m]) \in [Docs -> Member]
    <3>1. group[m] \in [Docs -> Member] /\ Cardinality(scan[s].members) \in 0 .. MaxDoc
      BY <2>1, SizeOK DEF TypeOK
    <3>2. \A d \in Docs : [size |-> Cardinality(scan[s].members),
                           keeper |-> d \notin Spares(scan[s].members),
                           cross |-> Spans(scan[s].members)] \in Member
      BY <3>1 DEF Member, Spans
    <3> QED BY <3>1, <3>2 DEF Grouped
  <2>5. group' \in [Methods -> [Docs -> Member]]
    BY <1>4, <2>1, <2>4, WorkOK DEF RecordUnit, TypeOK
  <2>6. similar' \subseteq Docs /\ spanning' \subseteq Docs
    BY <1>4, <2>1 DEF RecordUnit, TypeOK
  <2> QED BY <1>4, <2>3, <2>5, <2>6 DEF RecordUnit, TypeOK
<1>5. ASSUME NEW s \in Scanners, FlagUnit(s) PROVE TypeOK'
  <2>1. [scan[s] EXCEPT !.pc = "read", !.unit = NoUnit, !.members = {}] \in Scan
    BY WorkOK DEF TypeOK, Scan
  <2>2. scan' \in [Scanners -> Scan]
    BY <1>5, <2>1 DEF FlagUnit, TypeOK
  <2>3. candidate' \in [Docs -> {"none", "candidate", "staged"}]
    BY <1>5, UpsertedOK DEF FlagUnit
  <2> QED BY <1>5, <2>2, <2>3 DEF FlagUnit, TypeOK
<1>6. ASSUME NEW c \in Committers, StartCommit(c) PROVE TypeOK'
  <2>1. [NoCommit EXCEPT !.pc = "page"] \in Commit
    BY ConstantsTyped DEF NoCommit, Commit
  <2> QED BY <1>6, <2>1 DEF StartCommit, TypeOK
<1>7. ASSUME NEW c \in Committers, ReadBand(c) PROVE TypeOK'
  <2> DEFINE ids == First(PageSize, {d \in Band : d > commit[c].cursor})
  <2>1. commit' = [commit EXCEPT ![c] =
          IF ids = {} THEN NoCommit ELSE [pc |-> "flag", cursor |-> Greatest(ids), ids |-> ids]]
    BY <1>7 DEF ReadBand
  <2>2. ids # {} => [pc |-> "flag", cursor |-> Greatest(ids), ids |-> ids] \in Commit
    BY ReadBandOK DEF Commit
  <2> HIDE DEF ids
  <2>3. commit' \in [Committers -> Commit]
    BY <2>1, <2>2, ConstantsTyped DEF TypeOK
  <2> QED BY <1>7, <2>3 DEF ReadBand, TypeOK
<1>8. ASSUME NEW c \in Committers, FlagBand(c) PROVE TypeOK'
  <2>1. [commit[c] EXCEPT !.pc = "page", !.ids = {}] \in Commit
    BY DEF TypeOK, Commit
  <2>2. commit' \in [Committers -> Commit]
    BY <1>8, <2>1 DEF FlagBand, TypeOK
  <2>3. candidate' \in [Docs -> {"none", "candidate", "staged"}]
    BY <1>8, UpsertedOK DEF FlagBand
  <2> QED BY <1>8, <2>2, <2>3 DEF FlagBand, TypeOK
<1>9. ASSUME NEW d \in Docs, Stage(d) \/ Reap(d) PROVE TypeOK'
  BY <1>9 DEF Stage, Reap, TypeOK
<1>10. ASSUME NEW d \in Docs, Keep(d) \/ Restore(d) \/ Arrive(d) PROVE TypeOK'
  <2>1. edits' \in 0 .. MaxEdits
    BY <1>10, EditTyped DEF Keep, Restore, Arrive
  <2> QED BY <1>10, <2>1 DEF Keep, Restore, Arrive, TypeOK
<1> QED BY <1>1, <1>2, <1>3, <1>4, <1>5, <1>6, <1>7, <1>8, <1>9, <1>10 DEF Next

(***************************************************************************)
(* What the scans hold.                                                    *)
(***************************************************************************)
LEMMA ReadStep ==
  ASSUME TypeOK, NEW s \in Scanners, Read(s)
  PROVE  \E u \in scan[s].todo :
           /\ scan'[s].todo = scan[s].todo \ {u}
           /\ scan'[s].scope = scan[s].scope
           /\ \/ /\ scan'[s].pc = "group" /\ scan'[s].unit = u
                 /\ scan'[s].members = Members(s, u) /\ Members(s, u) # {}
              \/ /\ scan'[s].pc = "read" /\ scan'[s].members = {}
           /\ \A t \in Scanners \ {s} : scan'[t] = scan[t]
<1>1. PICK u \in scan[s].todo :
        scan' = [scan EXCEPT ![s].todo = @ \ {u},
          ![s].unit = IF Cardinality(Members(s, u)) > 1 THEN u ELSE NoUnit,
          ![s].members = IF Cardinality(Members(s, u)) > 1 THEN Members(s, u) ELSE {},
          ![s].pc = IF Cardinality(Members(s, u)) > 1 THEN "group" ELSE "read"]
  BY DEF Read
<1>2. \A t \in Scanners \ {s} : scan'[t] = scan[t]
  BY <1>1 DEF TypeOK
<1>3. scan[s] \in Scan
  BY DEF TypeOK
<1>4. /\ scan'[s].todo = scan[s].todo \ {u} /\ scan'[s].scope = scan[s].scope
      /\ scan'[s].unit = IF Cardinality(Members(s, u)) > 1 THEN u ELSE NoUnit
      /\ scan'[s].members = IF Cardinality(Members(s, u)) > 1 THEN Members(s, u) ELSE {}
      /\ scan'[s].pc = IF Cardinality(Members(s, u)) > 1 THEN "group" ELSE "read"
  BY <1>1, <1>3 DEF TypeOK, Scan
<1>5. CASE Cardinality(Members(s, u)) > 1
  <2>1. Members(s, u) # {}
    BY <1>5, FS_EmptySet
  <2> QED BY <1>2, <1>4, <1>5, <2>1
<1>6. CASE ~(Cardinality(Members(s, u)) > 1)
  BY <1>2, <1>4, <1>6
<1> QED BY <1>5, <1>6

LEMMA ScansStay ==
  ASSUME TypeOK, ScansOK, Next
  PROVE  ScansOK'
<1> SUFFICES ASSUME NEW t \in Scanners PROVE ScanOK(t)'
  BY DEF ScansOK
<1>0. ScanOK(t)
  BY DEF ScansOK
<1>1. CASE scan'[t] = scan[t]
  BY <1>0, <1>1 DEF ScanOK
<1>2. ASSUME NEW s \in Scanners, StartScan(s), t = s PROVE ScanOK(t)'
  <2>1. PICK sc \in Scopes :
          scan' = [scan EXCEPT ![s] = [NoScan EXCEPT !.pc = "read", !.scope = sc, !.todo = Work]]
    BY <1>2 DEF StartScan, Work
  <2>2. scan'[s].todo = Work /\ scan'[s].pc = "read"
    BY <2>1 DEF TypeOK, NoScan
  <2> QED BY <1>2, <2>2 DEF ScanOK
<1>3. ASSUME NEW s \in Scanners, Read(s), t = s PROVE ScanOK(t)'
  <2>1. PICK u \in scan[s].todo :
           /\ scan'[s].todo = scan[s].todo \ {u}
           /\ \/ /\ scan'[s].pc = "group" /\ scan'[s].unit = u
                 /\ scan'[s].members = Members(s, u) /\ Members(s, u) # {}
              \/ /\ scan'[s].pc = "read"
    BY <1>3, ReadStep
  <2>2. u \in Work /\ scan'[s].todo \subseteq Work
    BY <1>0, <1>3, <2>1 DEF ScanOK
  <2>3. u \notin Pairs => \A d \in Members(s, u) : KeyOf[u.method][d] = u.key
    BY <2>2, MembersOK
  <2> QED BY <1>3, <2>1, <2>2, <2>3 DEF ScanOK
<1>4. ASSUME NEW s \in Scanners, EndScan(s) \/ FlagUnit(s), t = s PROVE ScanOK(t)'
  <2>1. scan'[s].pc \in {"idle", "read"} /\ scan'[s].todo \subseteq scan[s].todo
    BY <1>4 DEF EndScan, FlagUnit, TypeOK, NoScan, Scan
  <2> QED BY <1>0, <1>4, <2>1 DEF ScanOK
<1>5. ASSUME NEW s \in Scanners, RecordUnit(s), t = s PROVE ScanOK(t)'
  <2>1. /\ scan'[s].todo = scan[s].todo /\ scan'[s].unit = scan[s].unit
        /\ scan'[s].members = scan[s].members /\ scan[s].pc = "group"
    BY <1>5 DEF RecordUnit, TypeOK, Scan
  <2> QED BY <1>0, <1>5, <2>1 DEF ScanOK
<1>6. ASSUME NEW s \in Scanners, t # s,
             StartScan(s) \/ Read(s) \/ EndScan(s) \/ RecordUnit(s) \/ FlagUnit(s)
      PROVE  ScanOK(t)'
  <2>1. scan'[t] = scan[t]
    BY <1>6, ReadStep DEF StartScan, EndScan, RecordUnit, FlagUnit, TypeOK
  <2> QED BY <1>1, <2>1
<1>7. ASSUME NEW c \in Committers, StartCommit(c) \/ ReadBand(c) \/ FlagBand(c) PROVE ScanOK(t)'
  BY <1>1, <1>7 DEF StartCommit, ReadBand, FlagBand
<1>8. ASSUME NEW d \in Docs, Stage(d) \/ Reap(d) \/ Keep(d) \/ Restore(d) \/ Arrive(d)
      PROVE  ScanOK(t)'
  BY <1>1, <1>8 DEF Stage, Reap, Keep, Restore, Arrive
<1> QED BY <1>2, <1>3, <1>4, <1>5, <1>6, <1>7, <1>8 DEF Next

(***************************************************************************)
(* A spare copy has a better one.  A document that stays has its better    *)
(* copy unless that copy is reaped, and a copy that is reaped is spare     *)
(* itself: its own better copy then does.                                  *)
(***************************************************************************)
Better(d, L) == \E e \in L : e < d /\ Family[e] = Family[d]

LEMMA BetterStays ==
  ASSUME TypeOK, SpareHasABetter, Next, NEW d \in Docs, Better(d, live)
  PROVE  Better(d, live')
<1>1. PICK e \in live : e < d /\ Family[e] = Family[d]
  BY DEF Better
<1>2. CASE live \subseteq live'
  BY <1>1, <1>2 DEF Better
<1>3. ASSUME NEW x \in Docs, Reap(x) PROVE Better(d, live')
  <2>1. live' = live \ {x} /\ Spare(x)
    BY <1>3 DEF Reap, Spare, Open
  <2>2. CASE e # x
    BY <1>1, <2>1, <2>2 DEF Better
  <2>3. CASE e = x
    <3>1. PICK f \in live : f < x /\ Family[f] = Family[x]
      BY <2>1 DEF SpareHasABetter
    <3>2. f \in Int /\ x \in Int /\ d \in Int /\ e \in Int
      BY DocsOK DEF TypeOK
    <3>3. f # x /\ f < d
      BY <1>1, <2>3, <3>1, <3>2
    <3> QED BY <1>1, <2>1, <2>3, <3>1, <3>3 DEF Better
  <2> QED BY <2>2, <2>3
<1>4. (\A x \in Docs : ~Reap(x)) => live \subseteq live'
  BY DEF Next, StartScan, Read, EndScan, RecordUnit, FlagUnit, StartCommit, ReadBand, FlagBand,
       Stage, Keep, Restore, Arrive, lifecycle
<1> QED BY <1>2, <1>3, <1>4

\* A step that makes no new spare copy, except among those a scan reads.
LEMMA SparesStay ==
  ASSUME TypeOK, TypeOK', SpareHasABetter, Next,
         \A d \in Docs : Spare(d)' => Spare(d) \/ Better(d, live)
  PROVE  SpareHasABetter'
<1>1. \A d \in Docs : Spare(d) => Better(d, live)
  BY DEF SpareHasABetter, Better
<1>2. \A d \in Docs : Spare(d)' => Better(d, live')
  BY <1>1, BetterStays
<1> QED BY <1>2 DEF SpareHasABetter, Better

\* The parts of Spare, by name.
HeldByScan(d) == \E s \in Scanners : scan[s].pc # "idle" /\ d \in Spares(scan[s].members)
HeldByGroup(d) == \E m \in Methods : group[m][d].size > 1 /\ ~group[m][d].keeper
HeldByCommit(d) == \E c \in Committers : d \in commit[c].ids

LEMMA SpareParts ==
  \A d : Spare(d) <=> Open(d) \/ HeldByGroup(d) \/ HeldByScan(d) \/ HeldByCommit(d)
BY DEF Spare, HeldByScan, HeldByGroup, HeldByCommit

LEMMA SparePartsLater ==
  \A d : Spare(d)' <=> Open(d)' \/ HeldByGroup(d)' \/ HeldByScan(d)' \/ HeldByCommit(d)'
BY DEF Spare, HeldByScan, HeldByGroup, HeldByCommit

\* Only Read gives a scan new members, and only ReadBand a commit new ids.
LEMMA HeldByScanStep ==
  ASSUME TypeOK, ScansOK, Next, NEW d \in Docs, HeldByScan(d)'
  PROVE  HeldByScan(d) \/ Better(d, live)
<1>1. PICK s \in Scanners : scan'[s].pc # "idle" /\ d \in Spares(scan'[s].members)
  BY DEF HeldByScan
<1>2. CASE scan[s].pc # "idle" /\ scan'[s].members = scan[s].members
  BY <1>1, <1>2 DEF HeldByScan
<1>3. scan'[s].members # {}
  BY <1>1 DEF Spares
<1>4. CASE Read(s)
  <2>1. PICK u \in scan[s].todo : scan'[s].members = Members(s, u)
    BY <1>3, <1>4, ReadStep
  <2>2. u \in Work
    BY <1>4, <2>1 DEF ScansOK, ScanOK
  <2>3. PICK e \in Members(s, u) : e < d
    BY <1>1, <2>1 DEF Spares
  <2>4. d \in Members(s, u)
    BY <1>1, <2>1 DEF Spares
  <2>5. e \in live /\ Family[e] = Family[d]
    BY <2>2, <2>3, <2>4, MembersOK
  <2> QED BY <2>3, <2>5 DEF Better
<1>5. CASE RecordUnit(s)
  BY <1>2, <1>5 DEF RecordUnit, TypeOK, Scan
<1>6. CASE StartScan(s) \/ EndScan(s) \/ FlagUnit(s)
  <2>1. CASE StartScan(s)
    <3>1. PICK sc \in Scopes :
            scan' = [scan EXCEPT ![s] = [NoScan EXCEPT !.pc = "read", !.scope = sc, !.todo = Work]]
      BY <2>1 DEF StartScan, Work
    <3>2. scan'[s].members = {}
      BY <3>1 DEF NoScan, TypeOK
    <3> QED BY <1>3, <3>2
  <2>2. CASE EndScan(s)
    <3>1. scan'[s].members = {}
      BY <2>2 DEF EndScan, NoScan, TypeOK
    <3> QED BY <1>3, <3>1
  <2>3. CASE FlagUnit(s)
    <3>1. scan'[s].members = {}
      BY <2>3 DEF FlagUnit, TypeOK, Scan
    <3> QED BY <1>3, <3>1
  <2> QED BY <1>6, <2>1, <2>2, <2>3
<1>7. CASE scan'[s] = scan[s]
  BY <1>1, <1>2, <1>7
<1>8. ASSUME NEW t \in Scanners, t # s,
             StartScan(t) \/ Read(t) \/ EndScan(t) \/ RecordUnit(t) \/ FlagUnit(t)
      PROVE  scan'[s] = scan[s]
  BY <1>8, ReadStep DEF StartScan, EndScan, RecordUnit, FlagUnit, TypeOK
<1>9. ASSUME NEW c \in Committers, StartCommit(c) \/ ReadBand(c) \/ FlagBand(c)
      PROVE  scan'[s] = scan[s]
  BY <1>9 DEF StartCommit, ReadBand, FlagBand
<1>10. ASSUME NEW x \in Docs, Stage(x) \/ Reap(x) \/ Keep(x) \/ Restore(x) \/ Arrive(x)
       PROVE  scan'[s] = scan[s]
  BY <1>10 DEF Stage, Reap, Keep, Restore, Arrive
<1> QED BY <1>4, <1>5, <1>6, <1>7, <1>8, <1>9, <1>10 DEF Next

LEMMA HeldByCommitStep ==
  ASSUME TypeOK, Next, NEW d \in Docs, HeldByCommit(d)'
  PROVE  HeldByCommit(d) \/ d \in Band
<1>1. PICK c \in Committers : d \in commit'[c].ids
  BY DEF HeldByCommit
<1>2. CASE d \in commit[c].ids
  BY <1>2 DEF HeldByCommit
<1>3. CASE ReadBand(c)
  <2> DEFINE ids == First(PageSize, {x \in Band : x > commit[c].cursor})
  <2>1. commit' = [commit EXCEPT ![c] =
          IF ids = {} THEN NoCommit ELSE [pc |-> "flag", cursor |-> Greatest(ids), ids |-> ids]]
    BY <1>3 DEF ReadBand
  <2>2. ids \subseteq Band
    BY DEF First
  <2> HIDE DEF ids
  <2>3. commit'[c].ids = ids
    BY <1>1, <2>1 DEF TypeOK, NoCommit
  <2> QED BY <1>1, <2>2, <2>3
<1>4. CASE StartCommit(c) \/ FlagBand(c)
  <2>1. commit'[c].ids = {}
    BY <1>4 DEF StartCommit, FlagBand, NoCommit, TypeOK, Commit
  <2> QED BY <1>1, <2>1
<1>5. CASE commit'[c] = commit[c]
  BY <1>1, <1>2, <1>5
<1>6. ASSUME NEW t \in Committers, t # c, StartCommit(t) \/ ReadBand(t) \/ FlagBand(t)
      PROVE  commit'[c] = commit[c]
  BY <1>6 DEF StartCommit, ReadBand, FlagBand, TypeOK
<1>7. ASSUME NEW s \in Scanners,
             StartScan(s) \/ Read(s) \/ EndScan(s) \/ RecordUnit(s) \/ FlagUnit(s)
      PROVE  commit'[c] = commit[c]
  BY <1>7 DEF StartScan, Read, EndScan, RecordUnit, FlagUnit
<1>8. ASSUME NEW x \in Docs, Stage(x) \/ Reap(x) \/ Keep(x) \/ Restore(x) \/ Arrive(x)
      PROVE  commit'[c] = commit[c]
  BY <1>8 DEF Stage, Reap, Keep, Restore, Arrive
<1> QED BY <1>3, <1>4, <1>5, <1>6, <1>7, <1>8 DEF Next

LEMMA HeldByGroupStep ==
  ASSUME TypeOK, ScansOK, Next, NEW d \in Docs, HeldByGroup(d)'
  PROVE  HeldByGroup(d) \/ HeldByScan(d)
<1>1. PICK m \in Methods : group'[m][d].size > 1 /\ ~group'[m][d].keeper
  BY DEF HeldByGroup
<1>2. CASE group' = group
  BY <1>1, <1>2 DEF HeldByGroup
<1>3. ASSUME NEW s \in Scanners, RecordUnit(s), group' # group
      PROVE  HeldByGroup(d) \/ HeldByScan(d)
  <2> DEFINE M == scan[s].members
  <2>1. /\ group' = [group EXCEPT ![scan[s].unit.method] = Grouped(M, @)]
        /\ scan[s].pc = "group"
    BY <1>3 DEF RecordUnit, profile
  <2>2. group[m] \in [Docs -> Member]
    BY DEF TypeOK
  <2>3. group'[m][d] = group[m][d] \/ group'[m][d] = Grouped(M, group[m])[d]
    BY <2>1 DEF TypeOK
  <2>4. Grouped(M, group[m])[d] =
          IF d \in M THEN [size |-> Cardinality(M), keeper |-> d \notin Spares(M), cross |-> Spans(M)]
          ELSE group[m][d]
    BY DEF Grouped
  <2>5. CASE group'[m][d] = group[m][d]
    BY <1>1, <2>5 DEF HeldByGroup
  <2>6. CASE group'[m][d] # group[m][d]
    <3>1. d \in Spares(M)
      <4>1. d \in M /\ group'[m][d] = [size |-> Cardinality(M), keeper |-> d \notin Spares(M),
                                      cross |-> Spans(M)]
        BY <2>3, <2>4, <2>6
      <4>2. group'[m][d].keeper = (d \notin Spares(M))
        BY <4>1
      <4> QED BY <1>1, <4>2
    <3> QED BY <2>1, <3>1 DEF HeldByScan
  <2> QED BY <2>5, <2>6
<1>4. (\A s \in Scanners : ~RecordUnit(s)) => group' = group
  BY DEF Next, StartScan, Read, EndScan, FlagUnit, StartCommit, ReadBand, FlagBand, Stage, Reap,
       Keep, Restore, Arrive, profile
<1> QED BY <1>2, <1>3, <1>4

LEMMA OpenStep ==
  ASSUME TypeOK, ScansOK, Next, NEW d \in Docs, Open(d)'
  PROVE  Open(d) \/ HeldByScan(d) \/ HeldByCommit(d)
<1>1. CASE candidate' = candidate
  BY <1>1 DEF Open
<1>2. ASSUME NEW s \in Scanners, FlagUnit(s) PROVE Open(d) \/ HeldByScan(d)
  <2>1. Open(d) \/ d \in Flagged(s)
    BY <1>2, UpsertedOK DEF FlagUnit, Open
  <2> QED BY <1>2, <2>1 DEF Flagged, HeldByScan, FlagUnit
<1>3. ASSUME NEW c \in Committers, FlagBand(c) PROVE Open(d) \/ HeldByCommit(d)
  <2>1. Open(d) \/ d \in commit[c].ids
    BY <1>3, UpsertedOK DEF FlagBand, Open
  <2> QED BY <2>1 DEF HeldByCommit
<1>4. ASSUME NEW x \in Docs, Stage(x) \/ Reap(x) \/ Keep(x) PROVE Open(d)
  BY <1>4 DEF Stage, Reap, Keep, Open, TypeOK
<1>5. \/ candidate' = candidate
      \/ \E s \in Scanners : FlagUnit(s)
      \/ \E c \in Committers : FlagBand(c)
      \/ \E x \in Docs : Stage(x) \/ Reap(x) \/ Keep(x)
  BY DEF Next, StartScan, Read, EndScan, RecordUnit, StartCommit, ReadBand, Restore, Arrive, lifecycle
<1> QED BY <1>1, <1>2, <1>3, <1>4, <1>5

LEMMA SpareStays ==
  ASSUME TypeOK, TypeOK', ScansOK, SpareHasABetter, Next, NearSignal \notin AutoBand
  PROVE  SpareHasABetter'
<1>1. ASSUME NEW d \in Docs, Spare(d)' PROVE Spare(d) \/ Better(d, live)
  <2>1. CASE Open(d)'
    BY <2>1, OpenStep, SpareParts
  <2>2. CASE HeldByGroup(d)'
    BY <2>2, HeldByGroupStep, SpareParts
  <2>3. CASE HeldByScan(d)'
    BY <2>3, HeldByScanStep, SpareParts
  <2>4. CASE HeldByCommit(d)'
    <3>1. d \in Band => HeldByGroup(d)
      <4> SUFFICES ASSUME d \in Band PROVE HeldByGroup(d)
        OBVIOUS
      <4>0. Matches(d)
        BY DEF Band
      <4>1. PICK m \in Methods : InGroup(m, d)
        BY <4>0, Zenon DEF Matches
      <4>2. group[m][d].size > 1 /\ ~group[m][d].keeper
        BY <4>1 DEF InGroup
      <4> QED BY <4>2 DEF HeldByGroup
    <3> QED BY <2>4, <3>1, HeldByCommitStep, SpareParts
  <2> QED BY <1>1, <2>1, <2>2, <2>3, <2>4, SparePartsLater
<1> QED BY <1>1, SparesStay

(***************************************************************************)
(* The recorded groups.                                                    *)
(***************************************************************************)
LEMMA ClusterStays ==
  ASSUME TypeOK, TypeOK', ScansOK, ClusterHasKeeper, Next
  PROVE  ClusterHasKeeper'
<1>1. CASE group' = group
  BY <1>1 DEF ClusterHasKeeper
<1>2. ASSUME NEW s \in Scanners, RecordUnit(s), group' # group PROVE ClusterHasKeeper'
  <2> DEFINE M == scan[s].members
  <2> DEFINE u == scan[s].unit
  <2>1. /\ group' = [group EXCEPT ![u.method] = Grouped(M, @)]
        /\ scan[s].pc = "group" /\ u \notin Pairs
    BY <1>2 DEF RecordUnit, profile
  <2>2. /\ u \in Work /\ M # {} /\ \A d \in M : KeyOf[u.method][d] = u.key
        /\ M \in SUBSET Docs
    BY <2>1 DEF ScansOK, ScanOK, TypeOK, Scan
  <2>3. u.method \in Methods
    BY <2>1, <2>2, WorkOK
  <2> HIDE DEF M, u
  <2>4. PICK k \in M : k \notin Spares(M)
    BY <2>2, KeeperExists
  <2>5. \A d \in Docs : group'[u.method][d] =
          IF d \in M THEN [size |-> Cardinality(M), keeper |-> d \notin Spares(M), cross |-> Spans(M)]
          ELSE group[u.method][d]
    BY <2>1, <2>3 DEF Grouped, TypeOK
  <2>6. \A m \in Methods \ {u.method} : group'[m] = group[m]
    BY <2>1 DEF TypeOK
  <2>7. group'[u.method][k].keeper /\ k \in Docs
    <3>1. group'[u.method][k] =
            [size |-> Cardinality(M), keeper |-> k \notin Spares(M), cross |-> Spans(M)]
      BY <2>2, <2>4, <2>5
    <3>2. group'[u.method][k].keeper = (k \notin Spares(M))
      BY <3>1
    <3> QED BY <2>2, <2>4, <3>2
  <2>8. SUFFICES ASSUME NEW m \in Methods, NEW d \in Docs, group'[m][d].size > 1
                 PROVE  \E e \in Docs : KeyOf[m][e] = KeyOf[m][d] /\ group'[m][e].keeper
    BY DEF ClusterHasKeeper
  <2>9. CASE m # u.method
    <3>1. group'[m] = group[m]
      BY <2>6, <2>9
    <3> QED BY <2>8, <3>1 DEF ClusterHasKeeper
  <2>10. CASE m = u.method /\ d \in M
    <3>1. KeyOf[m][k] = KeyOf[m][d]
      BY <2>2, <2>4, <2>10
    <3> QED BY <2>7, <2>10, <3>1
  <2>11. CASE m = u.method /\ d \notin M
    <3>1. group[m][d].size > 1
      BY <2>5, <2>8, <2>11
    <3>2. PICK e \in Docs : KeyOf[m][e] = KeyOf[m][d] /\ group[m][e].keeper
      BY <3>1 DEF ClusterHasKeeper
    <3>3. CASE e \in M
      <4>1. KeyOf[m][k] = KeyOf[m][d]
        BY <2>2, <2>4, <2>11, <3>2, <3>3
      <4> QED BY <2>7, <2>11, <4>1
    <3>4. CASE e \notin M
      <4>1. group'[m][e].keeper
        BY <2>5, <2>11, <3>2, <3>4
      <4> QED BY <3>2, <4>1
    <3> QED BY <3>3, <3>4
  <2> QED BY <2>9, <2>10, <2>11
<1>3. (\A s \in Scanners : ~RecordUnit(s)) => group' = group
  BY DEF Next, StartScan, Read, EndScan, FlagUnit, StartCommit, ReadBand, FlagBand, Stage, Reap,
       Keep, Restore, Arrive, profile
<1> QED BY <1>1, <1>2, <1>3

(***************************************************************************)
(* The theorems.                                                           *)
(***************************************************************************)
Base == TypeOK /\ ScansOK /\ ClusterHasKeeper

LEMMA InitBase == Init => Base /\ SpareHasABetter
<1> SUFFICES ASSUME Init PROVE Base /\ SpareHasABetter
  OBVIOUS
<1>1. TypeOK
  BY InitTyped
<1>2. ScansOK
  BY DEF Init, ScansOK, ScanOK, NoScan
<1>3. \A m \in Methods, d \in Docs : group[m][d] = NoMember
  BY DEF Init
<1>4. ClusterHasKeeper
  BY <1>3 DEF ClusterHasKeeper, NoMember
<1>5. SpareHasABetter
  BY <1>3 DEF Init, SpareHasABetter, Spare, Open, NoMember, NoScan, NoCommit
<1> QED BY <1>1, <1>2, <1>4, <1>5 DEF Base

LEMMA StutterBase ==
  ASSUME Base, UNCHANGED vars
  PROVE  Base' /\ (SpareHasABetter => SpareHasABetter')
<1> USE DEF vars, profile, lifecycle
<1>1. TypeOK' /\ ClusterHasKeeper'
  BY DEF Base, TypeOK, ClusterHasKeeper
<1>2. ScansOK'
  BY DEF Base, ScansOK, ScanOK
<1>3. SpareHasABetter => SpareHasABetter'
  BY DEF SpareHasABetter, Spare, Open
<1> QED BY <1>1, <1>2, <1>3 DEF Base

LEMMA BaseInvariant == Spec => []Base
<1>1. Base /\ [Next]_vars => Base'
  <2> SUFFICES ASSUME Base, [Next]_vars PROVE Base'
    OBVIOUS
  <2>1. CASE Next
    BY <2>1, NextTyped, ScansStay, ClusterStays DEF Base
  <2> QED BY <2>1, StutterBase
<1>2. Init => Base
  BY InitBase
<1> QED BY <1>1, <1>2, PTL DEF Spec

\* The type invariant, whatever scans and commits overlap.
THEOREM DuplicatesTyped == Spec => []TypeOK
BY BaseInvariant, PTL DEF Base

\* A recorded group has a keeper, however scans of different scopes and their
\* failures overlap (set_dup_groups).
THEOREM GroupsShowAKeeper == Spec => []ClusterHasKeeper
BY BaseInvariant, PTL DEF Base

\* NearSignal and AutoBand are constants: what is assumed always is assumed once.
LEMMA SparesBase == Spec => [](NearSignal \notin AutoBand => SpareHasABetter)
<1> DEFINE P == NearSignal \notin AutoBand => SpareHasABetter
<1>1. Base /\ P /\ Base' /\ [Next]_vars => P'
  <2> SUFFICES ASSUME Base, NearSignal \notin AutoBand, SpareHasABetter, Base', [Next]_vars
               PROVE  SpareHasABetter'
    OBVIOUS
  <2>1. CASE Next
    BY <2>1, SpareStays DEF Base
  <2> QED BY <2>1, StutterBase
<1>2. Init => P
  BY InitBase
<1> HIDE DEF P
<1>3. Spec => []P
  BY <1>1, <1>2, BaseInvariant, PTL DEF Spec
<1> QED BY <1>3 DEF P

\* Without near-duplicates in the auto band, every spare copy has a better one,
\* for scans of any scope and commits in between (select_keeper, set_dup_groups).
THEOREM SparesAreSpare == Spec /\ [](NearSignal \notin AutoBand) => []SpareHasABetter
BY SparesBase, PTL

\* Without near-duplicates in the auto band, pruning keeps a copy of everything it
\* deletes (select_keeper, exemption_predicate, the reaper).
THEOREM ACopyStays == Spec /\ [](NearSignal \notin AutoBand) => LastCopyKept
<1> DEFINE A == \A d \in live \ live' : \E e \in live' : Family[e] = Family[d]
<1>1. Base /\ SpareHasABetter /\ [Next]_vars => [A]_vars
  <2> SUFFICES ASSUME Base, SpareHasABetter, Next, NEW d \in live \ live'
               PROVE  \E e \in live' : Family[e] = Family[d]
    OBVIOUS
  <2>1. d \in Docs /\ TypeOK
    BY DEF Base, TypeOK
  <2>2. \E x \in Docs : Reap(x)
    BY DEF Next, StartScan, Read, EndScan, RecordUnit, FlagUnit, StartCommit, ReadBand,
         FlagBand, Stage, Keep, Restore, Arrive, lifecycle
  <2>3. Open(d)
    BY <2>2 DEF Reap, Open
  <2>4. Better(d, live)
    BY <2>1, <2>3 DEF SpareHasABetter, Spare, Better
  <2>5. Better(d, live')
    BY <2>1, <2>4, BetterStays
  <2> QED BY <2>5 DEF Better
<1> QED BY <1>1, BaseInvariant, SparesAreSpare, PTL DEF Spec, LastCopyKept

=============================================================================
