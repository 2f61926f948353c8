------------------------------ MODULE TuiProofs ------------------------------
(***************************************************************************)
(* The client keeps its types, shows the answer to the query on display    *)
(* once nothing is under way, and deletes only what a modal has named: for *)
(* every list, page size, channel capacity, number of keys and of failing  *)
(* requests.                                                               *)
(***************************************************************************)
EXTENDS Tui, OrderLemmas, SequenceTheorems, TLAPS

(***************************************************************************)
(* Numbers in their order.                                                 *)
(***************************************************************************)
LEMMA InOrderIsASequence ==
  ASSUME NEW S \in SUBSET Int, IsFiniteSet(S)
  PROVE  /\ Cardinality(S) \in Nat
         /\ InOrder(S) \in [1 .. Cardinality(S) -> S]
         /\ \A i, j \in 1 .. Cardinality(S) : i < j => InOrder(S)[i] < InOrder(S)[j]
<1> DEFINE n == Cardinality(S)
           UpTo(d) == {e \in S : e <= d}
           rank == [d \in S |-> Cardinality(UpTo(d))]
<1>0. \A d \in S : d \in Int
  OBVIOUS
<1>1. n \in Nat
  BY FS_CardinalityType
<1>2. \A d \in S : IsFiniteSet(UpTo(d)) /\ Cardinality(UpTo(d)) \in 1 .. n
  <2> SUFFICES ASSUME NEW d \in S PROVE IsFiniteSet(UpTo(d)) /\ Cardinality(UpTo(d)) \in 1 .. n
    OBVIOUS
  <2>1. IsFiniteSet(UpTo(d)) /\ Cardinality(UpTo(d)) <= n
    BY FS_Subset
  <2>2. d \in UpTo(d)
    OBVIOUS
  <2>3. Cardinality(UpTo(d)) \in Nat /\ Cardinality(UpTo(d)) # 0
    BY <2>1, <2>2, FS_CardinalityType, FS_EmptySet
  <2> QED BY <1>1, <2>1, <2>3
<1>3. \A d, e \in S : d < e => rank[d] < rank[e]
  <2> SUFFICES ASSUME NEW d \in S, NEW e \in S, d < e
               PROVE  Cardinality(UpTo(d)) < Cardinality(UpTo(e))
    OBVIOUS
  <2>1. UpTo(d) \in SUBSET UpTo(e) /\ e \in UpTo(e) /\ e \notin UpTo(d)
    <3>1. d \in Int /\ e \in Int /\ \A x \in S : x \in Int
      BY <1>0
    <3>2. \A x \in S : x <= d => x <= e
      BY <3>1
    <3>3. ~(e <= d) /\ e <= e
      BY <3>1
    <3> QED BY <3>2, <3>3
  <2>2. /\ Cardinality(UpTo(d)) <= Cardinality(UpTo(e))
        /\ Cardinality(UpTo(e)) # Cardinality(UpTo(d))
    BY <1>2, <2>1, FS_Subset
  <2> QED BY <1>2, <2>2
<1>4. rank \in [S -> 1 .. n]
  BY <1>2
<1> HIDE DEF rank
<1>5. rank \in Injection(S, 1 .. n)
  <2>1. ASSUME NEW d \in S, NEW e \in S, rank[d] = rank[e] PROVE d = e
    <3>1. rank[d] \in Int /\ rank[e] \in Int
      BY <1>4
    <3>2. ~(d < e) /\ ~(e < d)
      BY <1>3, <2>1, <3>1
    <3> QED BY <1>0, <3>2
  <2>2. \A d, e \in S : rank[d] = rank[e] => d = e
    BY <2>1
  <2> QED BY <1>4, <2>2 DEF Injection, IsInjective
<1>6. IsFiniteSet(1 .. n) /\ Cardinality(1 .. n) = n
  BY <1>1, FS_Interval
<1>7. rank \in Surjection(S, 1 .. n)
  BY <1>5, <1>6, FS_Injection
<1> DEFINE s == [i \in 1 .. n |-> CHOOSE d \in S : rank[d] = i]
<1>8. \A i \in 1 .. n : s[i] \in S /\ rank[s[i]] = i
  BY <1>7 DEF Surjection
<1>9. s \in [1 .. n -> S]
  BY <1>8
<1>10. ASSUME NEW i \in 1 .. n, NEW j \in 1 .. n, i < j PROVE s[i] < s[j]
  <2>1. s[i] \in S /\ s[j] \in S /\ rank[s[i]] = i /\ rank[s[j]] = j
    BY <1>8
  <2>2. s[i] # s[j]
    BY <1>10, <2>1
  <2>3. ~(s[j] < s[i])
    <3>1. s[j] < s[i] => rank[s[j]] < rank[s[i]]
      BY <1>3, <2>1
    <3> QED BY <1>10, <2>1, <3>1
  <2>4. s[i] \in Int /\ s[j] \in Int
    BY <1>0, <2>1
  <2> QED BY <2>2, <2>3, <2>4
<1> HIDE DEF s
<1>11. \E t \in [1 .. n -> S] : \A i, j \in DOMAIN t : i < j => t[i] < t[j]
  <2>1. DOMAIN s = 1 .. n
    BY <1>9
  <2> QED BY <1>9, <1>10, <2>1
<1>12. /\ InOrder(S) \in [1 .. n -> S]
       /\ \A i, j \in DOMAIN InOrder(S) : i < j => InOrder(S)[i] < InOrder(S)[j]
  BY <1>11 DEF InOrder
<1> QED BY <1>1, <1>12

LEMMA DocsFinite ==
  ASSUME NEW S \in SUBSET Docs
  PROVE  S \in SUBSET Int /\ IsFiniteSet(S)
<1>1. Docs \in SUBSET Int /\ IsFiniteSet(Docs)
  BY ConstantsOK, FS_Interval DEF Docs
<1> QED BY <1>1, FS_Subset

LEMMA InOrderTyped ==
  ASSUME NEW S \in SUBSET Docs
  PROVE  /\ InOrder(S) \in Seq(Docs)
         /\ S # {} => Len(InOrder(S)) \in DOMAIN InOrder(S)
<1>1. S \in SUBSET Int /\ IsFiniteSet(S)
  BY DocsFinite
<1>2. Cardinality(S) \in Nat /\ InOrder(S) \in [1 .. Cardinality(S) -> S]
  BY <1>1, InOrderIsASequence
<1>3. InOrder(S) \in Seq(Docs) /\ Len(InOrder(S)) = Cardinality(S)
  BY <1>2
<1>4. S # {} => Cardinality(S) \in 1 .. Cardinality(S)
  BY <1>1, <1>2, FS_EmptySet
<1> QED BY <1>2, <1>3, <1>4

\* The first of some documents are none only if there are none.
LEMMA FirstOfNone ==
  ASSUME NEW S \in SUBSET Docs, S # {}
  PROVE  FirstOf(S) # {}
<1>1. S \in SUBSET Int /\ IsFiniteSet(S)
  BY DocsFinite
<1>2. PICK x \in S : \A y \in S : x <= y
  BY <1>1, LeastExists
<1>3. {e \in S : e < x} = {}
  <2>1. \A y \in S : y \in Int /\ x \in Int /\ x <= y
    BY <1>1, <1>2
  <2> QED BY <2>1
<1>4. Cardinality({e \in S : e < x}) < PageSize
  BY <1>3, ConstantsOK, FS_EmptySet
<1> QED BY <1>4 DEF FirstOf

(***************************************************************************)
(* Commands, events and the state of the screen have their types.          *)
(***************************************************************************)
LEMMA OtherTyped == NoQuery \in Queries /\ SortOf[NoQuery] \in Sorts /\ Other \in Commands
<1>1. NoQuery \in Queries
  BY ConstantsOK DEF NoQuery
<1>2. SortOf[NoQuery] \in Sorts
  BY <1>1 DEF Sorts
<1>3. 0 \in 0 .. MaxDoc
  BY ConstantsOK
<1> QED BY <1>1, <1>2, <1>3 DEF Other, Commands

LEMMA LoadTyped ==
  ASSUME NEW q \in Queries, NEW at \in 0 .. MaxDoc, NEW srt \in Sorts, NEW append \in BOOLEAN
  PROVE  /\ Load(q, at, srt, append) \in Commands
         /\ Load(q, at, srt, append).t = "load" /\ Load(q, at, srt, append).q = q
         /\ Load(q, at, srt, append).append = append
BY OtherTyped DEF Load, Other, Commands

LEMMA CommandsTyped ==
  /\ Action \in Commands /\ Action.t = "action"
  /\ \A q \in Queries : Search(q) \in Commands /\ Search(q).t = "search" /\ Search(q).q = q
  /\ \A ids \in SUBSET Docs : Delete(ids) \in Commands /\ Delete(ids).t = "delete"
BY OtherTyped DEF Action, Search, Delete, Other, Commands

LEMMA EventTyped ==
  ASSUME NEW cmd \in Commands, NEW rows \in Seq(Docs), NEW next \in 0 .. MaxDoc,
         NEW t \in {"pages", "hits", "deleted", "done", "other", "failed"},
         \/ t = "failed" \/ (cmd.t = "load" /\ t = "pages")
         \/ (cmd.t = "search" /\ t = "hits" /\ next = 0)
         \/ (cmd.t \notin {"load", "search"} /\ t \notin {"pages", "hits"})
  PROVE  Event(cmd, t, rows, next) \in Events
<1> DEFINE e == Event(cmd, t, rows, next)
<1>1. /\ cmd.t \in {"load", "search", "action", "delete", "other"} /\ cmd.q \in Queries
      /\ cmd.append \in BOOLEAN /\ (cmd.append => cmd.t = "load")
  BY DEF Commands
<1>2. /\ e.t = t /\ e.append = cmd.append /\ e.next = next
      /\ e.list = (cmd.t \in {"load", "search"})
      /\ e = [t |-> t, q |-> cmd.q, append |-> cmd.append, list |-> cmd.t \in {"load", "search"},
              rows |-> rows, next |-> next, kept |-> {}]
  BY DEF Event
<1>3. e \in [t : {"pages", "hits", "deleted", "done", "other", "failed"}, q : Queries,
             append : BOOLEAN, list : BOOLEAN, rows : Seq(Docs), next : 0 .. MaxDoc,
             kept : SUBSET Docs]
  BY <1>1, <1>2
<1> HIDE DEF e
<1>4. /\ e.t \in {"pages", "hits"} => e.list
      /\ e.list => e.t \in {"pages", "hits", "failed"}
      /\ e.t = "hits" => ~e.append /\ e.next = 0
  BY <1>1, <1>2
<1>5. e \in Events
  BY <1>3, <1>4 DEF Events
<1> QED BY <1>5 DEF e

LEMMA RestingTyped ==
  /\ Resting \in [pc : {"idle", "busy", "send"}, cmd : Commands, event : Events]
  /\ Resting.pc = "idle"
<1>1. <<>> \in Seq(Docs) /\ 0 \in 0 .. MaxDoc
  BY ConstantsOK
<1>2. Event(Other, "other", <<>>, 0) \in Events
  <2>1. Other.t = "other"
    BY DEF Other
  <2> QED BY <1>1, <2>1, OtherTyped, EventTyped
<1> QED BY <1>2, OtherTyped DEF Resting

AppOK(a) == a \in Apps /\ a.sel <= Len(a.items)
OutOK(s) == s \in Seq(Commands) /\ Len(s) <= 2

LEMMA ReloadTyped ==
  ASSUME NEW a \in Apps
  PROVE  /\ Reload(a) \in Seq(Commands) /\ OutOK(Reload(a)) /\ OutOK(<<Other>> \o Reload(a))
         /\ a.sel <= Len(a.items) => AppOK(Reloading(a))
<1>1. a.q \in Queries /\ SortOf[a.q] \in Sorts /\ 0 \in 0 .. MaxDoc
  BY ConstantsOK DEF Apps, Sorts
<1>2. Load(a.q, 0, SortOf[a.q], FALSE) \in Commands /\ Search(a.q) \in Commands
  BY <1>1, LoadTyped, CommandsTyped
<1>3. Reload(a) \in Seq(Commands) /\ Len(Reload(a)) <= 1
  <2>1. \A c \in Commands : <<c>> \in Seq(Commands) /\ Len(<<c>>) = 1
    OBVIOUS
  <2>2. <<>> \in Seq(Commands) /\ Len(<<>>) = 0
    OBVIOUS
  <2>3. Len(<<>>) <= 1 /\ \A c \in Commands : Len(<<c>>) <= 1
    OBVIOUS
  <2> QED BY <1>2, <2>1, <2>2, <2>3, Zenon DEF Reload
<1>4. OutOK(<<Other>> \o Reload(a))
  <2>1. <<Other>> \in Seq(Commands) /\ Len(<<Other>>) = 1
    BY OtherTyped
  <2> QED BY <1>3, <2>1 DEF OutOK
<1>5. (Reload(a) # <<>>) \in BOOLEAN
  OBVIOUS
<1> HIDE DEF Reload
<1>6. ASSUME a.sel <= Len(a.items) PROVE AppOK(Reloading(a))
  BY <1>5, <1>6 DEF AppOK, Reloading, Apps
<1> QED BY <1>3, <1>4, <1>6 DEF OutOK

LEMMA StartTyped == AppOK(Start)
<1>1. <<>> \in Seq(Docs) /\ 0 \in 0 .. MaxDoc
  BY ConstantsOK
<1> QED BY <1>1, OtherTyped DEF AppOK, Start, Apps, Sources

LEMMA SelectedTyped ==
  ASSUME AppOK(app)
  PROVE  Selected \subseteq Docs /\ Targets \subseteq Docs
<1>1. Selected \subseteq Docs
  <2>1. app.items \in Seq(Docs) /\ app.sel \in Nat /\ app.sel <= Len(app.items)
    BY DEF AppOK, Apps
  <2>2. app.sel # 0 => app.items[app.sel] \in Docs
    BY <2>1
  <2> QED BY <2>2 DEF Selected
<1> QED BY <1>1 DEF Targets, AppOK, Apps

\* What is left of a list is in the list, and the cursor is on it.
LEMMA WithoutTyped ==
  ASSUME AppOK(app), NEW ids
  PROVE  /\ AppOK(Without(ids))
         /\ \A f \in {"source", "q", "next", "overlay", "queryDue"} : Without(ids)[f] = app[f]
<1> DEFINE K == {i \in DOMAIN app.items : app.items[i] \notin ids}
           kept == InOrder(K)
           left == [k \in DOMAIN kept |-> app.items[kept[k]]]
<1>1. app.items \in Seq(Docs) /\ app.sel \in Nat
  BY DEF AppOK, Apps
<1>2. K \in SUBSET Int /\ IsFiniteSet(K)
  <2>1. DOMAIN app.items \in SUBSET Int /\ IsFiniteSet(DOMAIN app.items)
    <3>1. DOMAIN app.items = 1 .. Len(app.items) /\ Len(app.items) \in Nat
      BY <1>1
    <3>2. IsFiniteSet(1 .. Len(app.items))
      BY <3>1, FS_Interval
    <3>3. (1 .. Len(app.items)) \in SUBSET Int
      BY <3>1
    <3> QED BY <3>1, <3>2, <3>3
  <2>2. K \in SUBSET (DOMAIN app.items)
    OBVIOUS
  <2> QED BY <2>1, <2>2, FS_Subset
<1> HIDE DEF K
<1>3. Cardinality(K) \in Nat /\ kept \in [1 .. Cardinality(K) -> K]
  BY <1>2, InOrderIsASequence
<1> HIDE DEF kept
<1>4. left \in Seq(Docs) /\ Len(left) \in Nat /\ (left # <<>> => Len(left) # 0)
  <2>1. \A k \in 1 .. Cardinality(K) : app.items[kept[k]] \in Docs
    <3>1. \A i \in K : i \in DOMAIN app.items
      BY DEF K
    <3>2. \A i \in DOMAIN app.items : app.items[i] \in Docs
      BY <1>1
    <3> QED BY <1>3, <3>1, <3>2
  <2>2. left \in [1 .. Cardinality(K) -> Docs]
    BY <1>3, <2>1
  <2>3. left \in Seq(Docs)
    BY <1>3, <2>2
  <2> HIDE DEF left
  <2> QED BY <2>3
<1>5. Without(ids) =
        [app EXCEPT !.items = left, !.marks = @ \ ids,
           !.sel = IF left = <<>> THEN 0 ELSE IF @ > Len(left) THEN Len(left) ELSE @]
  BY DEF Without, left, kept, K
<1> HIDE DEF left
<1>6. app \in Apps
  BY DEF AppOK
<1>7. /\ Without(ids).items = left /\ Without(ids).sel \in Nat
      /\ Without(ids).sel <= Len(left)
  BY <1>1, <1>4, <1>5, <1>6 DEF Apps
<1>8. Without(ids) \in Apps
  BY <1>1, <1>4, <1>5, <1>6 DEF Apps
<1>9. \A f \in {"source", "q", "next", "overlay", "queryDue"} : Without(ids)[f] = app[f]
  BY <1>5, <1>6 DEF Apps
<1> QED BY <1>7, <1>8, <1>9 DEF AppOK

(***************************************************************************)
(* Every step keeps the types.                                             *)
(***************************************************************************)
LoopOnly == UNCHANGED <<cmds, worker, events, gone, shown, failed>>

LEMMA LoopTyped ==
  ASSUME TypeOK, LoopOnly, AppOK(app'), OutOK(out'), named' \subseteq Docs,
         unasked' \in BOOLEAN, mixed' \in BOOLEAN, keys' \in Nat, faults' \in Nat
  PROVE  TypeOK'
BY DEF TypeOK, LoopOnly, AppOK, OutOK

LEMMA OutTyped ==
  /\ OutOK(<<>>)
  /\ \A c \in Commands : OutOK(<<c>>)
  /\ \A c, d \in Commands : OutOK(<<c, d>>)
<1>1. OutOK(<<>>)
  BY DEF OutOK
<1>2. ASSUME NEW c \in Commands PROVE OutOK(<<c>>)
  BY DEF OutOK
<1>3. ASSUME NEW c \in Commands, NEW d \in Commands PROVE OutOK(<<c, d>>)
  BY DEF OutOK
<1> QED BY <1>1, <1>2, <1>3

LEMMA MovedTyped ==
  ASSUME TypeOK, NEW from \in Apps, NEW i \in Nat, i <= Len(from.items), Moved(from, i)
  PROVE  /\ LoopOnly /\ AppOK(app') /\ OutOK(out') /\ mixed' \in BOOLEAN
         /\ app'.source = from.source /\ app'.q = from.q /\ app'.next = from.next
         /\ app'.overlay = from.overlay /\ app'.queryDue = from.queryDue
<1>1. PICK due \in {from.detailDue, TRUE} :
        LET a == [from EXCEPT !.sel = i, !.detailDue = due] IN
        IF NextPageDue(a)
        THEN /\ Does([a EXCEPT !.loading = TRUE], <<Load(a.q, a.next, a.cursorSort, TRUE)>>)
             /\ mixed' = (mixed \/ FirstUnderWay)
        ELSE Does(a, <<>>) /\ UNCHANGED mixed
  BY DEF Moved
<1> DEFINE a == [from EXCEPT !.sel = i, !.detailDue = due]
<1>2. AppOK(a) /\ AppOK([a EXCEPT !.loading = TRUE])
  <2>1. due \in BOOLEAN
    BY DEF Apps
  <2> QED BY <2>1 DEF AppOK, Apps
<1>3. /\ a.source = from.source /\ a.q = from.q /\ a.next = from.next
      /\ a.overlay = from.overlay /\ a.queryDue = from.queryDue
  BY DEF Apps
<1>4. OutOK(<<Load(a.q, a.next, a.cursorSort, TRUE)>>) /\ OutOK(<<>>)
  <2>1. a.q \in Queries /\ a.next \in 0 .. MaxDoc /\ a.cursorSort \in Sorts
    BY <1>2 DEF AppOK, Apps
  <2>2. Load(a.q, a.next, a.cursorSort, TRUE) \in Commands
    BY <2>1, LoadTyped
  <2> QED BY <2>2, OutTyped
<1>5. a \in Apps
  BY <1>2 DEF AppOK
<1>6. mixed' \in BOOLEAN
  BY <1>1 DEF TypeOK
<1>7. CASE NextPageDue(a)
  <2>1. Does([a EXCEPT !.loading = TRUE], <<Load(a.q, a.next, a.cursorSort, TRUE)>>)
    BY <1>1, <1>7
  <2>2. /\ app' = [a EXCEPT !.loading = TRUE] /\ LoopOnly
        /\ out' = <<Load(a.q, a.next, a.cursorSort, TRUE)>>
    BY <2>1 DEF Does, LoopOnly
  <2> HIDE DEF a
  <2>3. /\ app'.source = a.source /\ app'.q = a.q /\ app'.next = a.next
        /\ app'.overlay = a.overlay /\ app'.queryDue = a.queryDue
    BY <1>5, <2>2 DEF Apps
  <2> QED BY <1>2, <1>3, <1>4, <1>6, <2>2, <2>3
<1>8. CASE ~NextPageDue(a)
  <2>1. Does(a, <<>>)
    BY <1>1, <1>8
  <2>2. app' = a /\ LoopOnly /\ out' = <<>>
    BY <2>1 DEF Does, LoopOnly
  <2> HIDE DEF a
  <2> QED BY <1>2, <1>3, <1>4, <1>6, <2>2
<1> QED BY <1>7, <1>8

LEMMA KeysTyped ==
  ASSUME TypeOK, Keys \/ Deadlines
  PROVE  TypeOK'
<1>1. /\ app \in Apps /\ AppOK(app) /\ Selected \subseteq Docs /\ Targets \subseteq Docs
      /\ named \subseteq Docs /\ unasked \in BOOLEAN /\ mixed \in BOOLEAN
      /\ app.q \in Queries /\ app.previous \in Queries /\ app.targets \subseteq Docs
  BY SelectedTyped DEF TypeOK, AppOK, Apps
<1>2. keys' \in Nat /\ faults' \in Nat
  <2>1. ASSUME NEW overlay, Key(overlay) PROVE keys' \in Nat /\ faults' \in Nat
    BY <2>1 DEF Key, TypeOK
  <2>2. CASE Deadlines
    BY <2>2 DEF Deadlines, DetailDue, QueryDue, TypeOK
  <2> QED BY <2>1, <2>2 DEF Keys, Move, OpenFilter, ToggleSearch, Type, SubmitInput, CancelInput,
        Rescope, ClearFilter, Return, Refresh, Elsewhere, Mark, MarkAllOrNone, ConfirmDelete,
        AnswerYes, AnswerNo
<1>3. ASSUME NEW a, NEW commands, Does(a, commands), AppOK(a), OutOK(commands),
             named' \subseteq Docs, unasked' \in BOOLEAN, mixed' \in BOOLEAN
      PROVE  TypeOK'
  BY <1>2, <1>3, LoopTyped DEF Does, LoopOnly
<1>4. ASSUME NEW a, AppOK(a), Reloads(a), NothingNamed PROVE TypeOK'
  <2>1. AppOK(Reloading(a)) /\ OutOK(Reload(a))
    BY <1>4, ReloadTyped DEF AppOK
  <2>2. unasked' \in BOOLEAN /\ named' \subseteq Docs /\ mixed' \in BOOLEAN
    BY <1>1, <1>4 DEF Reloads, NothingNamed
  <2> QED BY <1>3, <1>4, <2>1, <2>2 DEF Reloads
<1>5. CASE Move \/ Mark
  <2>1. PICK from \in Apps, i \in Nat : i <= Len(from.items) /\ Moved(from, i)
    <3>1. CASE Move
      BY <1>1, <3>1 DEF Move, Apps
    <3>2. CASE Mark
      <4> DEFINE from == [app EXCEPT !.marks = (@ \ Selected) \cup (Selected \ @)]
                 i == IF app.sel < Len(app.items) THEN app.sel + 1 ELSE app.sel
      <4>1. from \in Apps /\ from.items = app.items
        BY <1>1 DEF Apps
      <4>2. i \in Nat /\ i <= Len(app.items)
        BY <1>1 DEF AppOK, Apps
      <4>3. Moved(from, i)
        BY <3>2 DEF Mark
      <4> QED BY <4>1, <4>2, <4>3
    <3> QED BY <1>5, <3>1, <3>2
  <2>2. LoopOnly /\ AppOK(app') /\ OutOK(out') /\ mixed' \in BOOLEAN
    BY <2>1, MovedTyped
  <2>3. named' \subseteq Docs /\ unasked' \in BOOLEAN
    BY <1>1, <1>5 DEF Move, Mark
  <2> QED BY <1>2, <2>2, <2>3, LoopTyped
<1>6. CASE SubmitInput \/ Rescope \/ ClearFilter \/ Return \/ QueryDue
  <2>1. \E a : AppOK(a) /\ Reloads(a)
    <3>1. AppOK([app EXCEPT !.overlay = "none"])
      BY <1>1 DEF AppOK, Apps
    <3>2. \A q \in Queries : AppOK([app EXCEPT !.q = q])
      BY <1>1 DEF AppOK, Apps
    <3>3. \A q \in Queries : AppOK([app EXCEPT !.q = q, !.source = "list"])
      BY <1>1 DEF AppOK, Apps, Sources
    <3>4. AppOK([app EXCEPT !.queryDue = FALSE])
      BY <1>1 DEF AppOK, Apps
    <3>5. Blank \subseteq Queries
      BY ConstantsOK
    <3> QED BY <1>1, <1>6, <3>1, <3>2, <3>3, <3>4, <3>5 DEF SubmitInput, Rescope, ClearFilter,
          Return, QueryDue
  <2>2. NothingNamed
    BY <1>6 DEF SubmitInput, Rescope, ClearFilter, Return, QueryDue
  <2> QED BY <1>4, <2>1, <2>2
<1>7. CASE Refresh
  <2>1. AppOK(Reloading(app)) /\ OutOK(<<Other>> \o Reload(app))
    BY <1>1, ReloadTyped DEF AppOK
  <2>2. unasked' \in BOOLEAN /\ named' \subseteq Docs /\ mixed' \in BOOLEAN
    BY <1>1, <1>7 DEF Refresh, NothingNamed
  <2> QED BY <1>3, <1>7, <2>1, <2>2 DEF Refresh
<1>8. ASSUME NEW a, NEW commands, Does(a, commands), AppOK(a), OutOK(commands), Plain
      PROVE  TypeOK'
  BY <1>1, <1>3, <1>8 DEF Plain
<1>9. OutOK(<<>>) /\ OutOK(<<Other>>) /\ OutOK(<<Other, Other>>) /\ OutOK(<<Action>>)
  BY OutTyped, OtherTyped, CommandsTyped
<1>10. CASE OpenFilter \/ ToggleSearch
  <2>1. \A s \in Sources :
          AppOK([app EXCEPT !.source = s, !.overlay = "input", !.previous = app.q])
    BY <1>1 DEF AppOK, Apps
  <2>2. "list" \in Sources /\ "search" \in Sources
    BY DEF Sources
  <2> QED BY <1>8, <1>9, <1>10, <2>1, <2>2 DEF OpenFilter, ToggleSearch
<1>11. CASE Type \/ CancelInput
  <2>1. \A q \in Queries :
          /\ AppOK([app EXCEPT !.q = q, !.queryDue = TRUE])
          /\ AppOK([app EXCEPT !.q = q, !.overlay = "none", !.queryDue = TRUE])
    BY <1>1 DEF AppOK, Apps
  <2> QED BY <1>1, <1>8, <1>9, <1>11, <2>1 DEF Type, CancelInput
<1>12. CASE MarkAllOrNone
  <2>1. SX!ToSet(app.items) \subseteq Docs
    BY <1>1 DEF SX!ToSet, Apps
  <2>2. \A marks \in SUBSET Docs : AppOK([app EXCEPT !.marks = marks])
    BY <1>1 DEF AppOK, Apps
  <2> QED BY <1>8, <1>9, <1>12, <2>1, <2>2 DEF MarkAllOrNone
<1>13. CASE ConfirmDelete
  <2>1. AppOK([app EXCEPT !.overlay = "confirm", !.targets = Targets])
    BY <1>1 DEF AppOK, Apps
  <2> QED BY <1>8, <1>9, <1>13, <2>1 DEF ConfirmDelete
<1>14. AppOK([app EXCEPT !.overlay = "none"]) /\ AppOK([app EXCEPT !.detailDue = FALSE])
  BY <1>1 DEF AppOK, Apps
<1>15. CASE AnswerYes
  <2>1. OutOK(<<Delete(app.targets)>>)
    BY <1>1, OutTyped, CommandsTyped
  <2>2. named' \subseteq Docs /\ unasked' \in BOOLEAN /\ mixed' \in BOOLEAN
    BY <1>1, <1>15 DEF AnswerYes
  <2> QED BY <1>3, <1>14, <1>15, <2>1, <2>2 DEF AnswerYes
<1>16. CASE AnswerNo \/ DetailDue \/ Elsewhere
  BY <1>1, <1>8, <1>9, <1>14, <1>16 DEF AnswerNo, DetailDue, Elsewhere
<1> QED BY <1>5, <1>6, <1>7, <1>10, <1>11, <1>12, <1>13, <1>15, <1>16 DEF Keys, Deadlines

LEMMA SeqFacts ==
  ASSUME NEW S, NEW s \in Seq(S)
  PROVE  /\ Len(s) \in Nat
         /\ \A x \in S : Append(s, x) \in Seq(S) /\ Len(Append(s, x)) = Len(s) + 1
         /\ s # <<>> => Head(s) \in S /\ Tail(s) \in Seq(S) /\ Len(Tail(s)) = Len(s) - 1
OBVIOUS

LEMMA SendTyped ==
  ASSUME TypeOK, Send
  PROVE  TypeOK'
<1>1. out \in Seq(Commands) /\ Len(out) <= 2 /\ cmds \in Seq(Commands) /\ Cap \in Nat
  BY ConstantsOK DEF TypeOK
<1>2. /\ out # <<>> /\ Len(cmds) < Cap /\ cmds' = Append(cmds, Head(out)) /\ out' = Tail(out)
      /\ UNCHANGED <<app, worker, events, gone, shown, failed, unasked, mixed, named, keys, faults>>
  BY DEF Send, history
<1>3. Head(out) \in Commands /\ out' \in Seq(Commands) /\ Len(out') <= 2
  BY <1>1, <1>2, SeqFacts
<1>4. cmds' \in Seq(Commands) /\ Len(cmds') <= Cap
  BY <1>1, <1>2, <1>3, SeqFacts
<1> QED BY <1>2, <1>3, <1>4 DEF TypeOK

\* Applying an event: only the fields it names move.
LEMMA AppliedTyped ==
  ASSUME AppOK(app), NEW e \in Events
  PROVE  AppOK(Applied(e))
<1>1. /\ app \in Apps /\ e.rows \in Seq(Docs) /\ e.q \in Queries /\ SortOf[e.q] \in Sorts
      /\ e.next \in 0 .. MaxDoc /\ app.items \in Seq(Docs) /\ app.sel \in Nat
      /\ app.sel <= Len(app.items)
  BY DEF AppOK, Apps, Events, Sorts
<1>2. AppOK(Extended(e))
  <2>1. /\ app.items \o e.rows \in Seq(Docs)
        /\ Len(app.items \o e.rows) = Len(app.items) + Len(e.rows)
        /\ Len(app.items) \in Nat /\ Len(e.rows) \in Nat
    BY <1>1, ConcatProperties, LenProperties
  <2> DEFINE both == app.items \o e.rows
  <2>2. both \in Seq(Docs) /\ app.sel <= Len(both)
    <3>1. \A m, n, k \in Nat : k <= m => k <= m + n
      OBVIOUS
    <3>2. app.sel <= Len(app.items) + Len(e.rows)
      BY <1>1, <2>1, <3>1
    <3> QED BY <2>1, <3>2
  <2>3. Extended(e) = [app EXCEPT !.items = both, !.source = "list", !.next = e.next,
                         !.cursorSort = SortOf[e.q], !.loading = FALSE]
    BY <1>1 DEF Extended, Apps
  <2> HIDE DEF both
  <2>4. Extended(e) \in Apps /\ Extended(e).items = both /\ Extended(e).sel = app.sel
    BY <1>1, <2>2, <2>3 DEF Apps, Sources
  <2> QED BY <2>2, <2>4 DEF AppOK
<1>3. ASSUME NEW s \in Sources PROVE AppOK(Replaced(e, s))
  <2>1. e.rows # <<>> => Len(e.rows) \in Nat /\ Len(e.rows) # 0
    BY <1>1
  <2>2. (app.detailDue \/ e.rows # <<>>) \in BOOLEAN
    OBVIOUS
  <2>3. Replaced(e, s) \in Apps
    BY <1>1, <1>3, <2>2 DEF Replaced, Apps
  <2>4. Replaced(e, s).items = e.rows /\ Replaced(e, s).sel = IF e.rows = <<>> THEN 0 ELSE 1
    BY <1>1 DEF Replaced, Apps
  <2>5. Len(e.rows) \in Nat /\ Replaced(e, s).sel <= Len(e.rows)
    BY <1>1, <2>1, <2>4
  <2> QED BY <2>3, <2>4, <2>5 DEF AppOK
<1>4. \A ids : AppOK(Without(ids))
  BY WithoutTyped
<1>5. "list" \in Sources /\ "search" \in Sources
  BY DEF Sources
<1> QED BY <1>2, <1>3, <1>4, <1>5 DEF Applied

LEMMA ApplyTyped ==
  ASSUME TypeOK, Apply
  PROVE  TypeOK'
<1> DEFINE e == Head(events)
<1>1. AppOK(app) /\ events \in Seq(Events) /\ Len(events) <= Cap /\ events # <<>>
  BY DEF TypeOK, AppOK, Apply
<1>2. e \in Events /\ Tail(events) \in Seq(Events) /\ Len(Tail(events)) <= Cap
  BY <1>1, ConstantsOK, SeqFacts
<1>3. /\ app' = Applied(e) /\ events' = Tail(events)
      /\ out' = IF e.t = "done" THEN <<Other, Other>> ELSE <<>>
      /\ shown' = IF e.t = "hits" \/ (e.t = "pages" /\ ~e.append)
                  THEN <<app'.source, e.q>> ELSE shown
      /\ failed' = IF e.list /\ ~e.append THEN e.t = "failed" ELSE failed
      /\ UNCHANGED <<cmds, worker, gone, unasked, mixed, named, keys, faults>>
  BY DEF Apply
<1> HIDE DEF e
<1>4. AppOK(app') /\ app'.source \in Sources /\ e.q \in Queries
  <2>1. AppOK(Applied(e))
    BY <1>1, <1>2, AppliedTyped
  <2> QED BY <1>2, <1>3, <2>1 DEF AppOK, Apps, Events
<1>5. OutOK(out')
  BY <1>3, OutTyped, OtherTyped
<1>6. shown' \in Sources \X Queries /\ failed' \in BOOLEAN
  BY <1>3, <1>4 DEF TypeOK
<1> QED BY <1>2, <1>3, <1>4, <1>5, <1>6 DEF TypeOK, AppOK, OutOK

\* What the server answers.
LEMMA PageTyped ==
  ASSUME TypeOK, NEW cmd \in Commands
  PROVE  /\ cmd.t = "load" => Listed(cmd) \in Events
         /\ cmd.t = "search" => Hits(cmd) \in Events
<1>1. /\ <<>> \in Seq(Docs) /\ 0 \in 0 .. MaxDoc /\ Docs \subseteq 0 .. MaxDoc
      /\ Match[cmd.q] \subseteq Docs
  BY ConstantsOK DEF Docs, Commands
<1>2. \A S \in SUBSET Docs : FirstOf(S) \in SUBSET Docs
  BY DEF FirstOf
<1>3. ASSUME cmd.t = "load" PROVE Page(cmd) \in Events
  <2> DEFINE matching == {d \in Match[cmd.q] \ gone : d > cmd.at}
             rows == InOrder(FirstOf(matching))
             next == IF FirstOf(matching) = matching THEN 0 ELSE rows[Len(rows)]
  <2>1. matching \in SUBSET Docs
    BY <1>1
  <2> HIDE DEF matching
  <2>2. /\ rows \in Seq(Docs)
        /\ FirstOf(matching) # {} => Len(rows) \in DOMAIN rows
    BY <1>2, <2>1, InOrderTyped
  <2>3. FirstOf(matching) # matching => FirstOf(matching) # {}
    BY <2>1, FirstOfNone DEF FirstOf
  <2> HIDE DEF rows
  <2>4. next \in 0 .. MaxDoc
    <3>1. \A i \in DOMAIN rows : rows[i] \in Docs
      BY <2>2
    <3> QED BY <1>1, <2>2, <2>3, <3>1
  <2>5. Page(cmd) = Event(cmd, "pages", rows, next)
    BY DEF Page, matching, rows
  <2> HIDE DEF next
  <2> QED BY <1>3, <2>2, <2>4, <2>5, EventTyped
<1>4. ASSUME cmd.t = "load" PROVE Listed(cmd) \in Events
  BY <1>1, <1>3, <1>4, EventTyped DEF Listed
<1>5. ASSUME cmd.t = "search" PROVE Hits(cmd) \in Events
  <2>1. InOrder(FirstOf(Match[cmd.q] \ gone)) \in Seq(Docs)
    BY <1>1, <1>2, InOrderTyped
  <2> QED BY <1>1, <1>5, <2>1, EventTyped DEF Hits
<1> QED BY <1>4, <1>5

LEMMA WorkerTyped ==
  ASSUME TypeOK, Worker
  PROVE  TypeOK'
<1> DEFINE W == [pc : {"idle", "busy", "send"}, cmd : Commands, event : Events]
<1>1. /\ cmds \in Seq(Commands) /\ Len(cmds) <= Cap /\ events \in Seq(Events) /\ Len(events) <= Cap
      /\ worker \in W /\ worker.cmd \in Commands /\ worker.event \in Events
      /\ worker.cmd.ids \subseteq Docs /\ gone \subseteq Docs
  BY DEF TypeOK, Commands
<1>2. CASE Take
  <2>1. /\ cmds # <<>> /\ worker' = [worker EXCEPT !.pc = "busy", !.cmd = Head(cmds)]
        /\ cmds' = Tail(cmds)
        /\ UNCHANGED <<app, out, events, gone, shown, failed, unasked, mixed, named, keys, faults>>
    BY <1>2 DEF Take, history
  <2>2. Head(cmds) \in Commands /\ cmds' \in Seq(Commands) /\ Len(cmds') <= Cap
    BY <1>1, <2>1, ConstantsOK, SeqFacts
  <2>3. worker' \in W
    BY <1>1, <2>1, <2>2
  <2> QED BY <2>1, <2>2, <2>3 DEF TypeOK
<1>3. ASSUME NEW e \in Events, NEW cost, Reply(e, cost), faults - cost \in Nat, gone' \subseteq Docs
      PROVE  TypeOK'
  <2>1. /\ worker' = [worker EXCEPT !.pc = "send", !.cmd = Other, !.event = e]
        /\ faults' \in Nat
        /\ UNCHANGED <<app, out, cmds, events, shown, failed, unasked, mixed, named, keys>>
    BY <1>3 DEF Reply, history
  <2>2. worker' \in W
    BY <1>1, <2>1, OtherTyped
  <2> QED BY <1>3, <2>1, <2>2 DEF TypeOK
<1>4. faults \in Nat /\ faults - 0 \in Nat /\ (faults > 0 => faults - 1 \in Nat)
  BY DEF TypeOK
<1>5. <<>> \in Seq(Docs) /\ 0 \in 0 .. MaxDoc
  BY ConstantsOK
<1>6. CASE Answer
  <2> DEFINE cmd == worker.cmd
  <2>1. /\ cmd.t = "load" => Listed(cmd) \in Events
        /\ cmd.t = "search" => Hits(cmd) \in Events
        /\ cmd.t \notin {"load", "search"} =>
             /\ Event(cmd, "other", <<>>, 0) \in Events /\ Event(cmd, "done", <<>>, 0) \in Events
             /\ Event(cmd, "deleted", <<>>, 0) \in Events
    BY <1>1, <1>5, PageTyped, EventTyped
  <2>2. ASSUME cmd.t = "delete", NEW kept \in SUBSET cmd.ids, kept = {} \/ faults > 0,
               gone' = gone \cup (cmd.ids \ kept),
               Reply([Event(cmd, "deleted", <<>>, 0) EXCEPT !.kept = kept],
                     IF kept = {} THEN 0 ELSE 1)
        PROVE  TypeOK'
    <3>1. [Event(cmd, "deleted", <<>>, 0) EXCEPT !.kept = kept] \in Events
      BY <1>1, <2>1, <2>2 DEF Events, Event
    <3>2. gone' \subseteq Docs
      BY <1>1, <2>2
    <3>3. faults - (IF kept = {} THEN 0 ELSE 1) \in Nat
      BY <1>4, <2>2
    <3> QED BY <1>3, <2>2, <3>1, <3>2, <3>3
  <2>3. ASSUME NEW e \in Events, Reply(e, 0), UNCHANGED gone PROVE TypeOK'
    BY <1>1, <1>3, <1>4, <2>3
  <2> QED BY <1>6, <2>1, <2>2, <2>3 DEF Answer
<1>7. CASE Fail
  <2>1. Event(worker.cmd, "failed", <<>>, 0) \in Events
    BY <1>1, <1>5, EventTyped
  <2>2. gone' \subseteq Docs
    BY <1>1, <1>7 DEF Fail
  <2> QED BY <1>3, <1>4, <1>7, <2>1, <2>2 DEF Fail
<1>8. CASE Deliver
  <2>1. /\ Len(events) < Cap /\ events' = Append(events, worker.event) /\ worker' = Resting
        /\ UNCHANGED <<app, out, cmds, gone, shown, failed, unasked, mixed, named, keys, faults>>
    BY <1>8 DEF Deliver, history
  <2>2. events' \in Seq(Events) /\ Len(events') <= Cap
    BY <1>1, <2>1, ConstantsOK, SeqFacts
  <2>3. worker' \in W
    BY <2>1, RestingTyped
  <2> QED BY <2>1, <2>2, <2>3 DEF TypeOK
<1> QED BY <1>2, <1>6, <1>7, <1>8 DEF Worker

LEMMA InitTyped == Init => TypeOK
<1> SUFFICES ASSUME Init PROVE TypeOK
  OBVIOUS
<1>1. app \in Apps /\ app.sel <= Len(app.items) /\ OutOK(out)
  BY StartTyped, ReloadTyped DEF Init, AppOK
<1>2. worker \in [pc : {"idle", "busy", "send"}, cmd : Commands, event : Events]
  BY RestingTyped DEF Init
<1>3. shown \in Sources \X Queries
  BY OtherTyped DEF Init, Sources
<1>4. /\ cmds \in Seq(Commands) /\ Len(cmds) <= Cap
      /\ events \in Seq(Events) /\ Len(events) <= Cap
  BY ConstantsOK DEF Init
<1>5. keys \in Nat /\ faults \in Nat
  BY ConstantsOK DEF Init
<1> QED BY <1>1, <1>2, <1>3, <1>4, <1>5 DEF TypeOK, OutOK, Init

LEMMA StepTyped == TypeOK /\ [Next]_vars => TypeOK'
<1> SUFFICES ASSUME TypeOK, [Next]_vars PROVE TypeOK'
  OBVIOUS
<1>1. CASE Next
  BY <1>1, KeysTyped, SendTyped, ApplyTyped, WorkerTyped DEF Next
<1>2. CASE UNCHANGED vars
  BY <1>2 DEF vars, TypeOK
<1> QED BY <1>1, <1>2

\* The screen, the channels and the worker keep their shape: the cursor stays
\* inside the list whatever replaces, extends or shortens it, and neither channel
\* holds more than it has room for (PagesState, UiCmd, DataEvent).
THEOREM ClientTyped == Spec => []TypeOK
BY InitTyped, StepTyped, PTL DEF Spec

(***************************************************************************)
(* The requests under way, from the oldest to the newest: an event on the  *)
(* channel, what the worker has in hand, a command on the channel, a       *)
(* command the handler has still to send.                                  *)
(***************************************************************************)
FirstC == {c \in Commands : First(c)}
NextC == {c \in Commands : c.t = "load" /\ c.append}
FirstE == {e \in Events : e.list /\ ~e.append}
NextE == {e \in Events : e.list /\ e.append}

\* Nothing in s is of F; the last of F in s is asked with q; nothing of N is
\* behind anything of F.
None(s, F) == \A i \in DOMAIN s : s[i] \notin F
LastIs(s, F, q) ==
  \A i \in DOMAIN s : s[i] \in F /\ (\A j \in DOMAIN s : i < j => s[j] \notin F) => s[i].q = q
Turns(s, F, N) == \A i, j \in DOMAIN s : i < j /\ s[i] \in F => s[j] \notin N

InHand(C, E) ==
  \/ worker.pc = "busy" /\ worker.cmd \in C
  \/ worker.pc = "send" /\ worker.event \in E
AskedInHand == IF worker.pc = "busy" THEN worker.cmd.q ELSE worker.event.q

NoneUnderWay(C, E) == None(out, C) /\ None(cmds, C) /\ ~InHand(C, E) /\ None(events, E)

\* The newest request for a first page, if any, asks with q.
NewestIs(q) ==
  /\ LastIs(out, FirstC, q)
  /\ None(out, FirstC) => LastIs(cmds, FirstC, q)
  /\ None(out, FirstC) /\ None(cmds, FirstC) /\ InHand(FirstC, FirstE) => AskedInHand = q
  /\ None(out, FirstC) /\ None(cmds, FirstC) /\ ~InHand(FirstC, FirstE) => LastIs(events, FirstE, q)

\* No request for a next page is behind one for a first page.
InTurn ==
  /\ Turns(events, FirstE, NextE) /\ Turns(cmds, FirstC, NextC) /\ Turns(out, FirstC, NextC)
  /\ ~None(events, FirstE) => ~InHand(NextC, NextE)
  /\ ~None(events, FirstE) \/ InHand(FirstC, FirstE) => None(cmds, NextC)
  /\ ~None(events, FirstE) \/ InHand(FirstC, FirstE) \/ ~None(cmds, FirstC) => None(out, NextC)

\* What the list shows is not what is on display, and is not yet asked for.
Dirty == app.queryDue \/ app.overlay = "input" \/ unasked

ListInv ==
  /\ \A q \in Queries : ~Dirty /\ q = app.q => NewestIs(q)
  /\ ~mixed => InTurn
  /\ ~Dirty /\ ~failed /\ ~mixed /\ NoneUnderWay(FirstC, FirstE) =>
       /\ shown = <<app.source, app.q>>
       /\ app.next # 0 \/ ~NoneUnderWay(NextC, NextE) => app.source = "list"

(***************************************************************************)
(* What joining and leaving a channel does to it.                          *)
(***************************************************************************)
LEMMA NilLane ==
  \A F, N, q : None(<<>>, F) /\ LastIs(<<>>, F, q) /\ Turns(<<>>, F, N)
BY DEF None, LastIs, Turns

LEMMA NoneLane ==
  ASSUME NEW s, NEW F, None(s, F)
  PROVE  /\ \A q : LastIs(s, F, q)
         /\ \A N : Turns(s, F, N)
BY DEF None, LastIs, Turns

LEMMA NoneBehind ==
  ASSUME NEW s, NEW N, None(s, N)
  PROVE  \A F : Turns(s, F, N)
BY DEF None, Turns

LEMMA OneLane ==
  ASSUME NEW c, NEW F, NEW q
  PROVE  /\ None(<<c>>, F) <=> c \notin F
         /\ LastIs(<<c>>, F, q) <=> (c \in F => c.q = q)
<1>1. DOMAIN <<c>> = {1} /\ <<c>>[1] = c /\ ~(1 < 1)
  OBVIOUS
<1> QED BY <1>1 DEF None, LastIs

LEMMA TwoLane ==
  ASSUME NEW c, NEW d, NEW F, NEW q
  PROVE  /\ None(<<c, d>>, F) <=> c \notin F /\ d \notin F
         /\ d \in F /\ d.q = q => LastIs(<<c, d>>, F, q)
<1>1. DOMAIN <<c, d>> = {1, 2} /\ <<c, d>>[1] = c /\ <<c, d>>[2] = d /\ 1 < 2 /\ ~(2 < 2)
  OBVIOUS
<1> QED BY <1>1 DEF None, LastIs

LEMMA PairOfTwo ==
  ASSUME NEW S, NEW x \in S, NEW y \in S
  PROVE  <<x>> \o <<y>> = <<x, y>>
<1>1. /\ <<x>> \in Seq(S) /\ <<y>> \in Seq(S) /\ <<x, y>> \in Seq(S)
      /\ Len(<<x>>) = 1 /\ Len(<<y>>) = 1 /\ Len(<<x, y>>) = 2
      /\ <<x>>[1] = x /\ <<y>>[1] = y /\ <<x, y>>[1] = x /\ <<x, y>>[2] = y
  OBVIOUS
<1> DEFINE z == <<x>> \o <<y>>
<1>2. /\ z \in Seq(S) /\ Len(z) = 1 + 1
      /\ \A i \in 1 .. 1 + 1 : z[i] = IF i <= 1 THEN <<x>>[i] ELSE <<y>>[i - 1]
  BY <1>1, ConcatProperties
<1>3. z[1] = x /\ z[2] = y
  BY <1>1, <1>2
<1> HIDE DEF z
<1>4. Len(z) = Len(<<x, y>>) /\ \A i \in 1 .. Len(z) : z[i] = <<x, y>>[i]
  BY <1>1, <1>2, <1>3
<1>5. z = <<x, y>>
  BY <1>1, <1>2, <1>4, SeqEqual
<1> QED BY <1>5 DEF z

LEMMA AppendLane ==
  ASSUME NEW S, NEW s \in Seq(S), NEW x \in S, NEW F, NEW N, NEW q
  PROVE  /\ None(Append(s, x), F) <=> None(s, F) /\ x \notin F
         /\ LastIs(Append(s, x), F, q) <=> IF x \in F THEN x.q = q ELSE LastIs(s, F, q)
         /\ Turns(s, F, N) /\ (None(s, F) \/ x \notin N) => Turns(Append(s, x), F, N)
<1> DEFINE t == Append(s, x)
           n == Len(s)
<1>1. /\ n \in Nat /\ DOMAIN s = 1 .. n /\ DOMAIN t = 1 .. n + 1
      /\ \A i \in 1 .. n : t[i] = s[i]
      /\ t[n + 1] = x
  OBVIOUS
<1> HIDE DEF t, n
<1>2. \A i \in 1 .. n + 1 : i \in 1 .. n \/ i = n + 1
  BY <1>1
<1>3. /\ 1 .. n \subseteq 1 .. n + 1 /\ n + 1 \in 1 .. n + 1
      /\ \A i \in 1 .. n : i < n + 1 /\ ~(n + 1 < i)
  BY <1>1
<1>4. None(t, F) <=> None(s, F) /\ x \notin F
  BY <1>1, <1>2, <1>3 DEF None
<1>5. LastIs(t, F, q) <=> IF x \in F THEN x.q = q ELSE LastIs(s, F, q)
  <2>1. CASE x \in F
    <3>1. ~(n + 1 < n + 1) /\ \A i \in 1 .. n + 1 : i # n + 1 => i < n + 1
      BY <1>1
    <3> QED BY <1>1, <1>2, <1>3, <2>1, <3>1 DEF LastIs
  <2>2. CASE x \notin F
    <3>1. ASSUME LastIs(t, F, q) PROVE LastIs(s, F, q)
      BY <1>1, <1>2, <1>3, <2>2, <3>1 DEF LastIs
    <3>2. ASSUME LastIs(s, F, q) PROVE LastIs(t, F, q)
      BY <1>1, <1>2, <1>3, <2>2, <3>2 DEF LastIs
    <3> QED BY <2>2, <3>1, <3>2
  <2> QED BY <2>1, <2>2
<1>6. ASSUME Turns(s, F, N), None(s, F) \/ x \notin N PROVE Turns(t, F, N)
  <2> SUFFICES ASSUME NEW i \in DOMAIN t, NEW j \in DOMAIN t, i < j, t[i] \in F
               PROVE  t[j] \notin N
    BY DEF Turns
  <2>1. i \in 1 .. n
    BY <1>1
  <2>2. CASE j \in 1 .. n
    BY <1>1, <1>6, <2>1, <2>2 DEF Turns
  <2>3. CASE j = n + 1
    BY <1>1, <1>6, <2>1, <2>3 DEF None
  <2> QED BY <1>1, <1>2, <2>2, <2>3
<1> QED BY <1>4, <1>5, <1>6 DEF t

LEMMA TailLane ==
  ASSUME NEW S, NEW s \in Seq(S), s # <<>>, NEW F, NEW N, NEW q
  PROVE  /\ None(s, F) <=> Head(s) \notin F /\ None(Tail(s), F)
         /\ LastIs(s, F, q) => /\ LastIs(Tail(s), F, q)
                               /\ None(Tail(s), F) /\ Head(s) \in F => Head(s).q = q
         /\ Turns(s, F, N) => Turns(Tail(s), F, N) /\ (Head(s) \in F => None(Tail(s), N))
<1> DEFINE t == Tail(s)
           n == Len(s)
<1>1. /\ n \in Nat \ {0} /\ DOMAIN s = 1 .. n /\ DOMAIN t = 1 .. n - 1
      /\ \A i \in 1 .. n - 1 : t[i] = s[i + 1]
      /\ Head(s) = s[1]
  OBVIOUS
<1> HIDE DEF t, n
<1>2. /\ 1 \in 1 .. n
      /\ \A i \in 1 .. n - 1 : i + 1 \in 1 .. n /\ 1 < i + 1
      /\ \A i \in 1 .. n : i = 1 \/ \E k \in 1 .. n - 1 : i = k + 1
      /\ \A i, j \in 1 .. n - 1 : i < j <=> i + 1 < j + 1
  <2>1. ASSUME NEW i \in 1 .. n PROVE i = 1 \/ \E k \in 1 .. n - 1 : i = k + 1
    <3>1. i # 1 => i - 1 \in 1 .. n - 1 /\ i = (i - 1) + 1
      BY <1>1
    <3> QED BY <3>1
  <2> QED BY <1>1, <2>1
<1>3. None(s, F) <=> s[1] \notin F /\ None(t, F)
  BY <1>1, <1>2 DEF None
<1>4. ASSUME LastIs(s, F, q) PROVE LastIs(t, F, q) /\ (None(t, F) /\ s[1] \in F => s[1].q = q)
  <2>1. ASSUME NEW i \in 1 .. n - 1, t[i] \in F, \A j \in 1 .. n - 1 : i < j => t[j] \notin F
        PROVE  t[i].q = q
    <3>1. \A j \in 1 .. n : i + 1 < j => s[j] \notin F
      <4> SUFFICES ASSUME NEW j \in 1 .. n, i + 1 < j PROVE s[j] \notin F
        OBVIOUS
      <4>1. j - 1 \in 1 .. n - 1 /\ i < j - 1 /\ (j - 1) + 1 = j
        BY <1>1
      <4> QED BY <1>1, <2>1, <4>1
    <3> QED BY <1>1, <1>2, <1>4, <2>1, <3>1 DEF LastIs
  <2>2. ASSUME None(t, F), s[1] \in F PROVE s[1].q = q
    <3>1. \A j \in 1 .. n : 1 < j => s[j] \notin F
      <4> SUFFICES ASSUME NEW j \in 1 .. n, 1 < j PROVE s[j] \notin F
        OBVIOUS
      <4>1. j - 1 \in 1 .. n - 1 /\ (j - 1) + 1 = j
        BY <1>1
      <4> QED BY <1>1, <2>2, <4>1 DEF None
    <3> QED BY <1>1, <1>2, <1>4, <2>2, <3>1 DEF LastIs
  <2> QED BY <1>1, <2>1, <2>2 DEF LastIs
<1>5. ASSUME Turns(s, F, N) PROVE Turns(t, F, N) /\ (s[1] \in F => None(t, N))
  <2>1. ASSUME NEW i \in 1 .. n - 1, NEW j \in 1 .. n - 1, i < j, t[i] \in F PROVE t[j] \notin N
    <3>1. i + 1 \in DOMAIN s /\ j + 1 \in DOMAIN s /\ i + 1 < j + 1
      BY <1>1, <2>1
    <3>2. s[i + 1] \in F /\ t[j] = s[j + 1]
      BY <1>1, <2>1
    <3> QED BY <1>5, <3>1, <3>2 DEF Turns
  <2>2. ASSUME s[1] \in F, NEW j \in 1 .. n - 1 PROVE t[j] \notin N
    <3>1. 1 \in DOMAIN s /\ j + 1 \in DOMAIN s /\ 1 < j + 1 /\ t[j] = s[j + 1]
      BY <1>1
    <3> QED BY <1>5, <2>2, <3>1 DEF Turns
  <2> QED BY <1>1, <2>1, <2>2 DEF Turns, None
<1> QED BY <1>1, <1>3, <1>4, <1>5 DEF t

(***************************************************************************)
(* What is under way keeps its order from the handler to the events.       *)
(***************************************************************************)
Passes ==
  /\ UNCHANGED <<app, shown, failed, unasked, mixed>>
  /\ NoneUnderWay(FirstC, FirstE)' => NoneUnderWay(FirstC, FirstE)
  /\ NoneUnderWay(NextC, NextE) => NoneUnderWay(NextC, NextE)'
  /\ \A q \in Queries : NewestIs(q) => NewestIs(q)'
  /\ InTurn => InTurn'

LEMMA SendPasses ==
  ASSUME TypeOK, Send
  PROVE  Passes
<1> DEFINE x == Head(out)
<1>1. /\ UNCHANGED <<app, worker, events, shown, failed, unasked, mixed>>
      /\ cmds' = Append(cmds, x) /\ out' = Tail(out) /\ out # <<>>
      /\ out \in Seq(Commands) /\ cmds \in Seq(Commands) /\ x \in Commands
  BY SeqFacts DEF Send, history, TypeOK
<1>2. ASSUME NEW F
      PROVE  /\ None(out, F) <=> x \notin F /\ None(out', F)
             /\ None(cmds', F) <=> None(cmds, F) /\ x \notin F
  BY <1>1, TailLane, AppendLane
<1>3. ASSUME NEW q
      PROVE  /\ LastIs(out, FirstC, q) => /\ LastIs(out', FirstC, q)
                                          /\ None(out', FirstC) /\ x \in FirstC => x.q = q
             /\ LastIs(cmds', FirstC, q) <=>
                  IF x \in FirstC THEN x.q = q ELSE LastIs(cmds, FirstC, q)
  BY <1>1, TailLane, AppendLane
<1>4. /\ Turns(out, FirstC, NextC) =>
           Turns(out', FirstC, NextC) /\ (x \in FirstC => None(out', NextC))
      /\ Turns(cmds, FirstC, NextC) /\ (None(cmds, FirstC) \/ x \notin NextC)
           => Turns(cmds', FirstC, NextC)
  BY <1>1, TailLane, AppendLane
<1> HIDE DEF x
<1>5. ASSUME NEW q \in Queries, NewestIs(q) PROVE NewestIs(q)'
  BY <1>1, <1>2, <1>3, <1>5 DEF NewestIs, InHand, AskedInHand
<1>6. InTurn => InTurn'
  BY <1>1, <1>2, <1>4 DEF InTurn, InHand
<1>7. \A C, E : NoneUnderWay(C, E)' <=> NoneUnderWay(C, E)
  BY <1>1, <1>2 DEF NoneUnderWay, InHand
<1> QED BY <1>1, <1>5, <1>6, <1>7 DEF Passes

LEMMA TakePasses ==
  ASSUME TypeOK, Take
  PROVE  Passes
<1> DEFINE x == Head(cmds)
<1>1. /\ UNCHANGED <<app, out, events, shown, failed, unasked, mixed>>
      /\ cmds' = Tail(cmds) /\ cmds # <<>> /\ cmds \in Seq(Commands)
      /\ worker.pc = "idle" /\ worker'.pc = "busy" /\ worker'.cmd = x
  BY DEF Take, history, TypeOK
<1>2. ASSUME NEW F PROVE None(cmds, F) <=> x \notin F /\ None(cmds', F)
  BY <1>1, TailLane
<1>3. ASSUME NEW q
      PROVE  LastIs(cmds, FirstC, q) => /\ LastIs(cmds', FirstC, q)
                                        /\ None(cmds', FirstC) /\ x \in FirstC => x.q = q
  BY <1>1, TailLane
<1>4. Turns(cmds, FirstC, NextC) =>
        Turns(cmds', FirstC, NextC) /\ (x \in FirstC => None(cmds', NextC))
  BY <1>1, TailLane
<1> HIDE DEF x
<1>5. ASSUME NEW q \in Queries, NewestIs(q) PROVE NewestIs(q)'
  BY <1>1, <1>2, <1>3, <1>5 DEF NewestIs, InHand, AskedInHand
<1>6. InTurn => InTurn'
  BY <1>1, <1>2, <1>4 DEF InTurn, InHand
<1>7. \A C, E : NoneUnderWay(C, E)' <=> NoneUnderWay(C, E)
  BY <1>1, <1>2 DEF NoneUnderWay, InHand
<1> QED BY <1>1, <1>5, <1>6, <1>7 DEF Passes

\* An answer is of the kind of its request.
LEMMA ReplyPasses ==
  ASSUME TypeOK, worker.pc = "busy", NEW e \in Events,
         e.list = (worker.cmd.t \in {"load", "search"}), e.append = worker.cmd.append,
         e.q = worker.cmd.q,
         worker'.pc = "send", worker'.event = e,
         UNCHANGED <<app, out, cmds, events, shown, failed, unasked, mixed>>
  PROVE  Passes
<1>1. worker.cmd \in Commands
  BY DEF TypeOK
<1>2. (e \in FirstE <=> worker.cmd \in FirstC) /\ (e \in NextE <=> worker.cmd \in NextC)
  <2>1. /\ worker.cmd.append \in BOOLEAN
        /\ worker.cmd.append => worker.cmd.t = "load"
    BY <1>1 DEF Commands
  <2> QED BY <1>1, <2>1 DEF FirstE, FirstC, NextE, NextC, First
<1>3. ASSUME NEW q \in Queries, NewestIs(q) PROVE NewestIs(q)'
  BY <1>2, <1>3 DEF NewestIs, InHand, AskedInHand
<1>4. InTurn => InTurn'
  BY <1>2 DEF InTurn, InHand
<1>5. /\ NoneUnderWay(FirstC, FirstE)' => NoneUnderWay(FirstC, FirstE)
      /\ NoneUnderWay(NextC, NextE) => NoneUnderWay(NextC, NextE)'
  BY <1>2 DEF NoneUnderWay, InHand
<1> QED BY <1>3, <1>4, <1>5 DEF Passes

LEMMA AnswerPasses ==
  ASSUME TypeOK, TypeOK', Answer \/ Fail
  PROVE  Passes
<1>1. \E t, rows, next, e, cost :
        /\ e.list = Event(worker.cmd, t, rows, next).list
        /\ e.append = Event(worker.cmd, t, rows, next).append
        /\ e.q = Event(worker.cmd, t, rows, next).q
        /\ Reply(e, cost) /\ worker.pc = "busy"
  <2>1. CASE Fail
    BY <2>1 DEF Fail
  <2>2. CASE Answer
    <3>1. CASE worker.cmd.t = "load" /\ Reply(Listed(worker.cmd), 0)
      BY <2>2, <3>1 DEF Answer, Listed, Page
    <3>2. CASE worker.cmd.t = "search" /\ Reply(Hits(worker.cmd), 0)
      BY <2>2, <3>2 DEF Answer, Hits
    <3>3. CASE \/ Reply(Event(worker.cmd, "other", <<>>, 0), 0)
               \/ Reply(Event(worker.cmd, "done", <<>>, 0), 0)
      BY <2>2, <3>3 DEF Answer
    <3>4. CASE \E kept, cost :
                 Reply([Event(worker.cmd, "deleted", <<>>, 0) EXCEPT !.kept = kept], cost)
      <4>1. PICK kept, cost :
              Reply([Event(worker.cmd, "deleted", <<>>, 0) EXCEPT !.kept = kept], cost)
        BY <3>4
      <4> DEFINE e == [Event(worker.cmd, "deleted", <<>>, 0) EXCEPT !.kept = kept]
      <4>2. /\ e.list = Event(worker.cmd, "deleted", <<>>, 0).list
            /\ e.append = Event(worker.cmd, "deleted", <<>>, 0).append
            /\ e.q = Event(worker.cmd, "deleted", <<>>, 0).q
        BY DEF Event
      <4>3. worker.pc = "busy"
        BY <2>2 DEF Answer
      <4> HIDE DEF e
      <4>4. Reply(e, cost)
        BY <4>1 DEF e
      <4> QED BY <4>2, <4>3, <4>4
    <3> QED BY <2>2, <3>1, <3>2, <3>3, <3>4 DEF Answer
  <2> QED BY <2>1, <2>2
<1>2. PICK t, rows, next, e, cost :
        /\ e.list = Event(worker.cmd, t, rows, next).list
        /\ e.append = Event(worker.cmd, t, rows, next).append
        /\ e.q = Event(worker.cmd, t, rows, next).q
        /\ Reply(e, cost) /\ worker.pc = "busy"
  BY <1>1
<1>3. /\ e.list = (worker.cmd.t \in {"load", "search"}) /\ e.append = worker.cmd.append
      /\ e.q = worker.cmd.q
  BY <1>2 DEF Event
<1>4. /\ worker' = [worker EXCEPT !.pc = "send", !.cmd = Other, !.event = e]
      /\ UNCHANGED <<app, out, cmds, events, shown, failed, unasked, mixed>>
  BY <1>2 DEF Reply, history
<1>5. worker'.pc = "send" /\ worker'.event = e /\ worker'.event \in Events
  BY <1>4 DEF TypeOK
<1> QED BY <1>2, <1>3, <1>4, <1>5, ReplyPasses

LEMMA DeliverPasses ==
  ASSUME TypeOK, Deliver
  PROVE  Passes
<1> DEFINE x == worker.event
<1>1. /\ UNCHANGED <<app, out, cmds, shown, failed, unasked, mixed>>
      /\ events' = Append(events, x) /\ events \in Seq(Events) /\ x \in Events
      /\ worker.pc = "send" /\ worker'.pc = "idle"
  BY RestingTyped DEF Deliver, history, TypeOK
<1>2. ASSUME NEW F PROVE None(events', F) <=> None(events, F) /\ x \notin F
  <2>1. events \in Seq(Events) /\ x \in Events
    BY <1>1
  <2> HIDE DEF x
  <2>2. None(Append(events, x), F) <=> None(events, F) /\ x \notin F
    BY <2>1, AppendLane
  <2> QED BY <1>1, <2>2
<1>3. ASSUME NEW q
      PROVE  LastIs(events', FirstE, q) <=>
               IF x \in FirstE THEN x.q = q ELSE LastIs(events, FirstE, q)
  BY <1>1, AppendLane
<1>4. Turns(events, FirstE, NextE) /\ (None(events, FirstE) \/ x \notin NextE)
        => Turns(events', FirstE, NextE)
  BY <1>1, AppendLane
<1>5. worker.event = x
  OBVIOUS
<1> HIDE DEF x
<1>6. ASSUME NEW q \in Queries, NewestIs(q) PROVE NewestIs(q)'
  BY <1>1, <1>2, <1>3, <1>5, <1>6 DEF NewestIs, InHand, AskedInHand
<1>7. InTurn => InTurn'
  BY <1>1, <1>2, <1>4, <1>5 DEF InTurn, InHand
<1>8. /\ NoneUnderWay(FirstC, FirstE)' => NoneUnderWay(FirstC, FirstE)
      /\ NoneUnderWay(NextC, NextE) => NoneUnderWay(NextC, NextE)'
  BY <1>1, <1>2, <1>5 DEF NoneUnderWay, InHand
<1> QED BY <1>1, <1>6, <1>7, <1>8 DEF Passes

(***************************************************************************)
(* The event loop applies the oldest of what is under way.                 *)
(***************************************************************************)
LEMMA OtherAsksNothing ==
  /\ Other \notin FirstC /\ Other \notin NextC /\ Action \notin FirstC /\ Action \notin NextC
  /\ \A ids \in SUBSET Docs : Delete(ids) \notin FirstC /\ Delete(ids) \notin NextC
BY CommandsTyped DEF FirstC, NextC, First, Other

LEMMA AppliedIs ==
  ASSUME AppOK(app), NEW e \in Events
  PROVE  /\ Applied(e).q = app.q /\ Applied(e).overlay = app.overlay
         /\ Applied(e).queryDue = app.queryDue
         /\ e.t = "pages" => Applied(e).source = "list"
         /\ e.t = "hits" => Applied(e).source = "search" /\ Applied(e).next = e.next
         /\ e.t \notin {"pages", "hits"} =>
              Applied(e).source = app.source /\ Applied(e).next = app.next
<1>1. app \in Apps /\ e.append \in BOOLEAN
  BY DEF AppOK, Events
<1>2. CASE e.t = "pages"
  BY <1>1, <1>2 DEF Applied, Extended, Replaced, Apps
<1>3. CASE e.t = "hits"
  BY <1>1, <1>3 DEF Applied, Replaced, Apps
<1>4. CASE e.t = "deleted"
  <2>1. Applied(e) = Without(Targets \ e.kept)
    BY <1>4 DEF Applied
  <2>2. \A f \in {"source", "q", "next", "overlay", "queryDue"} :
          Without(Targets \ e.kept)[f] = app[f]
    BY WithoutTyped
  <2> QED BY <1>4, <2>1, <2>2
<1>5. CASE e.t \notin {"pages", "hits", "deleted"}
  BY <1>5 DEF Applied
<1> QED BY <1>2, <1>3, <1>4, <1>5

LEMMA ApplyKeeps ==
  ASSUME TypeOK, ListInv, Apply
  PROVE  ListInv'
<1> DEFINE x == Head(events)
<1>1. /\ events # <<>> /\ events \in Seq(Events) /\ x \in Events /\ out = <<>>
      /\ events' = Tail(events) /\ app' = Applied(x)
      /\ out' = IF x.t = "done" THEN <<Other, Other>> ELSE <<>>
      /\ shown' = IF x.t = "hits" \/ (x.t = "pages" /\ ~x.append)
                  THEN <<app'.source, x.q>> ELSE shown
      /\ failed' = IF x.list /\ ~x.append THEN x.t = "failed" ELSE failed
      /\ UNCHANGED <<cmds, worker, unasked, mixed>>
  BY SeqFacts DEF Apply, TypeOK
<1>2. ASSUME NEW F
      PROVE  None(events, F) <=> x \notin F /\ None(events', F)
  <2>1. None(events, F) <=> Head(events) \notin F /\ None(Tail(events), F)
    BY <1>1, TailLane
  <2> QED BY <1>1, <2>1
<1>3. ASSUME NEW q
      PROVE  LastIs(events, FirstE, q) => /\ LastIs(events', FirstE, q)
                                          /\ None(events', FirstE) /\ x \in FirstE => x.q = q
  BY <1>1, TailLane
<1>4. Turns(events, FirstE, NextE) =>
        Turns(events', FirstE, NextE) /\ (x \in FirstE => None(events', NextE))
  BY <1>1, TailLane
<1> HIDE DEF x
<1>5. /\ None(out, FirstC) /\ None(out, NextC) /\ None(out', FirstC) /\ None(out', NextC)
  BY <1>1, NilLane, TwoLane, OtherAsksNothing
<1>6. (\A q : LastIs(out', FirstC, q)) /\ Turns(out', FirstC, NextC)
  BY <1>5, NoneLane
<1>7. /\ app'.q = app.q /\ app'.overlay = app.overlay /\ app'.queryDue = app.queryDue
      /\ x.t = "pages" => app'.source = "list"
      /\ x.t = "hits" => app'.source = "search" /\ app'.next = x.next
      /\ x.t \notin {"pages", "hits"} => app'.source = app.source /\ app'.next = app.next
  <2>1. AppOK(app)
    BY DEF TypeOK, AppOK
  <2> QED BY <1>1, <2>1, AppliedIs
<1>8. Dirty' <=> Dirty
  BY <1>1, <1>7 DEF Dirty
<1>9. /\ x.append \in BOOLEAN /\ x.list \in BOOLEAN
      /\ x.t \in {"pages", "hits"} => x.list
      /\ x.list => x.t \in {"pages", "hits", "failed"}
      /\ x.t = "hits" => ~x.append /\ x.next = 0
      /\ x \in FirstE <=> x.list /\ ~x.append
      /\ x \in NextE <=> x.list /\ x.append
  BY <1>1 DEF Events, FirstE, NextE
<1>10. ASSUME NEW q \in Queries, NewestIs(q) PROVE NewestIs(q)'
  BY <1>1, <1>2, <1>3, <1>5, <1>6, <1>10 DEF NewestIs, InHand, AskedInHand
<1>11. InTurn => InTurn'
  BY <1>1, <1>2, <1>4, <1>5, <1>6 DEF InTurn, InHand
<1>12. ASSUME ~Dirty, ~failed', ~mixed, NoneUnderWay(FirstC, FirstE)'
       PROVE  /\ shown' = <<app'.source, app'.q>>
              /\ app'.next # 0 \/ ~NoneUnderWay(NextC, NextE)' => app'.source = "list"
  <2>1. /\ None(cmds, FirstC) /\ ~InHand(FirstC, FirstE) /\ None(events', FirstE)
    BY <1>1, <1>12 DEF NoneUnderWay, InHand
  <2>2. CASE x \in FirstE
    <3>1. app.q \in Queries /\ NewestIs(app.q)
      BY <1>12 DEF ListInv, TypeOK, Apps
    <3>2. LastIs(events, FirstE, app.q)
      BY <1>5, <2>1, <3>1 DEF NewestIs
    <3>3. x.q = app.q
      BY <1>3, <2>1, <2>2, <3>2
    <3>4. x.t \in {"pages", "hits"}
      BY <1>1, <1>9, <1>12, <2>2
    <3>5. NoneUnderWay(NextC, NextE)'
      <4>1. InTurn /\ ~None(events, FirstE)
        BY <1>2, <1>12, <2>2 DEF ListInv
      <4>2. None(events', NextE) /\ ~InHand(NextC, NextE) /\ None(cmds, NextC)
        BY <1>4, <2>2, <4>1 DEF InTurn
      <4> QED BY <1>1, <1>5, <4>2 DEF NoneUnderWay, InHand
    <3> QED BY <1>1, <1>7, <1>9, <2>2, <3>3, <3>4, <3>5
  <2>3. CASE x \notin FirstE
    <3>1. NoneUnderWay(FirstC, FirstE) /\ ~failed
      BY <1>1, <1>2, <1>5, <1>9, <1>12, <2>1, <2>3 DEF NoneUnderWay
    <3>2. /\ shown = <<app.source, app.q>>
          /\ app.next # 0 \/ ~NoneUnderWay(NextC, NextE) => app.source = "list"
      BY <1>12, <3>1 DEF ListInv
    <3>3. shown' = shown
      BY <1>1, <1>9, <2>3
    <3>4. CASE x.t = "pages"
      <4>1. ~None(events, NextE)
        BY <1>2, <1>9, <2>3, <3>4
      <4>2. ~NoneUnderWay(NextC, NextE)
        BY <4>1 DEF NoneUnderWay
      <4> QED BY <1>7, <3>2, <3>3, <3>4, <4>2
    <3>5. CASE x.t # "pages"
      <4>1. x.t # "hits"
        BY <1>9, <2>3
      <4>2. NoneUnderWay(NextC, NextE) => NoneUnderWay(NextC, NextE)'
        BY <1>1, <1>2, <1>5 DEF NoneUnderWay, InHand
      <4> QED BY <1>7, <3>2, <3>3, <3>5, <4>1, <4>2
    <3> QED BY <3>4, <3>5
  <2> QED BY <2>2, <2>3
<1>13. \A q \in Queries : ~Dirty' /\ q = app'.q => NewestIs(q)'
  BY <1>7, <1>8, <1>10 DEF ListInv
<1>14. ~mixed' => InTurn'
  BY <1>1, <1>11 DEF ListInv
<1> QED BY <1>1, <1>8, <1>12, <1>13, <1>14 DEF ListInv

(***************************************************************************)
(* What a handler adds behind it.                                          *)
(***************************************************************************)

\* A handler that asks for no list, and leaves the one on display or owes a reload.
LEMMA QuietHandler ==
  ASSUME TypeOK, ListInv, LoopOnly, out = <<>>, None(out', FirstC), None(out', NextC),
         mixed' = mixed,
         Dirty' \/ (~Dirty /\ app'.q = app.q /\ app'.source = app.source /\ app'.next = app.next)
  PROVE  ListInv'
<1>1. UNCHANGED <<cmds, worker, events, shown, failed>>
  BY DEF LoopOnly
<1>2. None(out, FirstC) /\ None(out, NextC)
  BY NilLane
<1>3. (\A q : LastIs(out', FirstC, q)) /\ Turns(out', FirstC, NextC)
  BY NoneLane
<1>4. ASSUME NEW q \in Queries, NewestIs(q) PROVE NewestIs(q)'
  BY <1>1, <1>2, <1>3, <1>4 DEF NewestIs, InHand, AskedInHand
<1>5. InTurn => InTurn'
  BY <1>1, <1>3 DEF InTurn, InHand
<1>6. /\ NoneUnderWay(FirstC, FirstE)' <=> NoneUnderWay(FirstC, FirstE)
      /\ NoneUnderWay(NextC, NextE)' <=> NoneUnderWay(NextC, NextE)
  BY <1>1, <1>2 DEF NoneUnderWay, InHand
<1>7. \A q \in Queries : ~Dirty' /\ q = app'.q => NewestIs(q)'
  BY <1>4 DEF ListInv
<1>8. ~mixed' => InTurn'
  BY <1>5 DEF ListInv
<1>9. ~Dirty' /\ ~failed' /\ ~mixed' /\ NoneUnderWay(FirstC, FirstE)' =>
        /\ shown' = <<app'.source, app'.q>>
        /\ app'.next # 0 \/ ~NoneUnderWay(NextC, NextE)' => app'.source = "list"
  BY <1>1, <1>6 DEF ListInv
<1> QED BY <1>7, <1>8, <1>9 DEF ListInv

\* A handler that reloads: its request is the newest.
LEMMA ReloadHandler ==
  ASSUME TypeOK, ListInv, LoopOnly, out = <<>>, None(out', NextC), mixed' = mixed,
         Dirty' \/ (~None(out', FirstC) /\ LastIs(out', FirstC, app'.q))
  PROVE  ListInv'
<1>1. UNCHANGED <<cmds, worker, events>>
  BY DEF LoopOnly
<1>2. Turns(out', FirstC, NextC)
  BY NoneBehind
<1>3. InTurn => InTurn'
  BY <1>1, <1>2 DEF InTurn, InHand
<1>4. \A q \in Queries : ~Dirty' /\ q = app'.q => NewestIs(q)'
  BY <1>1 DEF NewestIs, InHand, AskedInHand
<1>5. ~mixed' => InTurn'
  BY <1>3 DEF ListInv
<1>6. ~Dirty' => ~NoneUnderWay(FirstC, FirstE)'
  BY DEF NoneUnderWay
<1> QED BY <1>4, <1>5, <1>6 DEF ListInv

\* A handler that asks for the next page of the list on display.
LEMMA NextPageHandler ==
  ASSUME TypeOK, ListInv, LoopOnly, out = <<>>, NEW c \in NextC, out' = <<c>>,
         mixed' = (mixed \/ FirstUnderWay), unasked' = unasked, app.next # 0,
         app'.q = app.q, app'.source = app.source, app'.next = app.next,
         app'.overlay = app.overlay, app'.queryDue = app.queryDue
  PROVE  ListInv'
<1>1. UNCHANGED <<cmds, worker, events, shown, failed>> /\ (Dirty' <=> Dirty)
  BY DEF LoopOnly, Dirty
<1>2. None(out, FirstC) /\ None(out, NextC) /\ None(out', FirstC)
  <2>1. c \notin FirstC
    BY DEF NextC, FirstC, First
  <2> QED BY <2>1, NilLane, OneLane
<1>3. (\A q : LastIs(out', FirstC, q)) /\ Turns(out', FirstC, NextC)
  BY <1>2, NoneLane
<1>4. ASSUME NEW q \in Queries, NewestIs(q) PROVE NewestIs(q)'
  BY <1>1, <1>2, <1>3, <1>4 DEF NewestIs, InHand, AskedInHand
<1>5. ~FirstUnderWay => None(cmds, FirstC) /\ ~InHand(FirstC, FirstE) /\ None(events, FirstE)
  BY DEF FirstUnderWay, None, InHand, FirstC, FirstE
<1>6. ASSUME ~mixed' PROVE InTurn'
  BY <1>1, <1>3, <1>5, <1>6 DEF InTurn, InHand, ListInv
<1>7. NoneUnderWay(FirstC, FirstE)' <=> NoneUnderWay(FirstC, FirstE)
  BY <1>1, <1>2 DEF NoneUnderWay, InHand
<1>8. \A q \in Queries : ~Dirty' /\ q = app'.q => NewestIs(q)'
  BY <1>1, <1>4 DEF ListInv
<1>9. ~Dirty' /\ ~failed' /\ ~mixed' /\ NoneUnderWay(FirstC, FirstE)' =>
        shown' = <<app'.source, app'.q>> /\ app'.source = "list"
  BY <1>1, <1>7 DEF ListInv
<1> QED BY <1>6, <1>8, <1>9 DEF ListInv

LEMMA ReloadAsks ==
  ASSUME NEW a \in Apps
  PROVE  /\ None(Reload(a), NextC) /\ None(<<Other>> \o Reload(a), NextC)
         /\ Reload(a) # <<>> =>
              /\ ~None(Reload(a), FirstC) /\ LastIs(Reload(a), FirstC, a.q)
              /\ ~None(<<Other>> \o Reload(a), FirstC)
              /\ LastIs(<<Other>> \o Reload(a), FirstC, a.q)
<1>1. Reload(a) = <<>> \/ \E c \in FirstC : c.q = a.q /\ c \notin NextC /\ Reload(a) = <<c>>
  <2>1. a.q \in Queries /\ SortOf[a.q] \in Sorts /\ 0 \in 0 .. MaxDoc
    BY ConstantsOK DEF Apps, Sorts
  <2> DEFINE c == Load(a.q, 0, SortOf[a.q], FALSE)
             d == Search(a.q)
  <2>2. c \in Commands /\ c.t = "load" /\ c.append = FALSE /\ c.q = a.q
    BY <2>1, LoadTyped
  <2>3. d \in Commands /\ d.t = "search" /\ d.q = a.q
    BY <2>1, CommandsTyped
  <2>4. Reload(a) = <<>> \/ Reload(a) = <<c>> \/ Reload(a) = <<d>>
    BY DEF Reload
  <2> HIDE DEF c, d
  <2>5. c \in FirstC /\ c \notin NextC /\ d \in FirstC /\ d \notin NextC
    BY <2>2, <2>3 DEF FirstC, NextC, First
  <2> QED BY <2>2, <2>3, <2>4, <2>5
<1>2. CASE Reload(a) = <<>>
  <2>1. <<Other>> \o <<>> = <<Other>>
    BY OtherTyped
  <2> QED BY <1>2, <2>1, NilLane, OneLane, OtherAsksNothing
<1>3. ASSUME NEW c \in FirstC, c.q = a.q, c \notin NextC, Reload(a) = <<c>>
      PROVE  /\ None(Reload(a), NextC) /\ None(<<Other>> \o Reload(a), NextC)
             /\ ~None(Reload(a), FirstC) /\ LastIs(Reload(a), FirstC, a.q)
             /\ ~None(<<Other>> \o Reload(a), FirstC)
             /\ LastIs(<<Other>> \o Reload(a), FirstC, a.q)
  <2>1. <<Other>> \o <<c>> = <<Other, c>>
    <3>1. Other \in Commands /\ c \in Commands
      BY OtherTyped DEF FirstC
    <3> QED BY <3>1, PairOfTwo
  <2>2. None(<<c>>, NextC) /\ ~None(<<c>>, FirstC) /\ LastIs(<<c>>, FirstC, a.q)
    BY <1>3, OneLane
  <2>3. /\ None(<<Other, c>>, NextC) /\ ~None(<<Other, c>>, FirstC)
        /\ LastIs(<<Other, c>>, FirstC, a.q)
    BY <1>3, TwoLane, OtherAsksNothing
  <2> QED BY <1>3, <2>1, <2>2, <2>3
<1> QED BY <1>1, <1>2, <1>3

LEMMA KeysKeepList ==
  ASSUME TypeOK, ListInv, Keys \/ Deadlines
  PROVE  ListInv'
<1>1. /\ app \in Apps /\ AppOK(app) /\ out = <<>>
      /\ unasked \in BOOLEAN /\ mixed \in BOOLEAN /\ app.targets \subseteq Docs
  BY DEF TypeOK, AppOK, Apps, Keys, Deadlines, Move, OpenFilter, ToggleSearch, Type, SubmitInput,
       CancelInput, Rescope, ClearFilter, Return, Refresh, Elsewhere, Mark, MarkAllOrNone,
       ConfirmDelete, AnswerYes, AnswerNo, DetailDue, QueryDue, Key
<1>2. ASSUME NEW a \in Apps, NEW commands, Does(Reloading(a), commands),
             commands = Reload(a) \/ commands = <<Other>> \o Reload(a),
             unasked' = (Reload(a) = <<>>), mixed' = mixed
      PROVE  ListInv'
  <2>1. app' = Reloading(a) /\ out' = commands /\ LoopOnly
    BY <1>2 DEF Does, LoopOnly
  <2>2. app'.q = a.q
    BY <2>1 DEF Reloading, Apps
  <2>3. None(out', NextC) /\ (~Dirty' => ~None(out', FirstC) /\ LastIs(out', FirstC, app'.q))
    BY <1>2, <2>1, <2>2, ReloadAsks DEF Dirty
  <2> QED BY <1>1, <1>2, <2>1, <2>3, ReloadHandler
<1>3. ASSUME NEW a \in Apps, Reloads(a), NothingNamed PROVE ListInv'
  BY <1>2, <1>3 DEF Reloads, NothingNamed
<1>4. ASSUME NEW a, NEW commands, Does(a, commands), None(commands, FirstC), None(commands, NextC),
             mixed' = mixed, unasked' = unasked,
             \/ a.queryDue \/ a.overlay = "input"
             \/ /\ app.overlay # "input" /\ a.queryDue = app.queryDue
                /\ a.q = app.q /\ a.source = app.source /\ a.next = app.next
      PROVE  ListInv'
  <2>1. app' = a /\ out' = commands /\ LoopOnly
    BY <1>4 DEF Does, LoopOnly
  <2>2. Dirty' \/ (~Dirty /\ app'.q = app.q /\ app'.source = app.source /\ app'.next = app.next)
    BY <1>4, <2>1 DEF Dirty
  <2> QED BY <1>1, <1>4, <2>1, <2>2, QuietHandler
<1>5. ASSUME NEW from \in Apps, NEW i \in Nat, i <= Len(from.items), Moved(from, i),
             app.overlay # "input", unasked' = unasked,
             from.q = app.q, from.source = app.source, from.next = app.next,
             from.overlay = app.overlay, from.queryDue = app.queryDue
      PROVE  ListInv'
  <2>1. /\ LoopOnly /\ app'.source = app.source /\ app'.q = app.q /\ app'.next = app.next
        /\ app'.overlay = app.overlay /\ app'.queryDue = app.queryDue
    BY <1>5, MovedTyped
  <2>2. \/ out' = <<>> /\ mixed' = mixed
        \/ /\ app.next # 0 /\ mixed' = (mixed \/ FirstUnderWay)
           /\ \E c \in NextC : out' = <<c>>
    <3>1. PICK due \in {from.detailDue, TRUE} :
            LET a == [from EXCEPT !.sel = i, !.detailDue = due] IN
            IF NextPageDue(a)
            THEN /\ Does([a EXCEPT !.loading = TRUE], <<Load(a.q, a.next, a.cursorSort, TRUE)>>)
                 /\ mixed' = (mixed \/ FirstUnderWay)
            ELSE Does(a, <<>>) /\ UNCHANGED mixed
      BY <1>5 DEF Moved
    <3> DEFINE a == [from EXCEPT !.sel = i, !.detailDue = due]
               c == Load(a.q, a.next, a.cursorSort, TRUE)
    <3>2. a.q \in Queries /\ a.next \in 0 .. MaxDoc /\ a.cursorSort \in Sorts /\ a.next = app.next
      BY <1>5 DEF Apps
    <3> HIDE DEF a
    <3>3. c \in Commands /\ c.t = "load" /\ c.append = TRUE
      BY <3>2, LoadTyped
    <3>4. c \in NextC
      BY <3>3 DEF NextC
    <3>5. CASE NextPageDue(a)
      <4>1. out' = <<c>> /\ mixed' = (mixed \/ FirstUnderWay)
        BY <3>1, <3>5 DEF a, Does
      <4> QED BY <3>2, <3>4, <3>5, <4>1 DEF NextPageDue
    <3>6. CASE ~NextPageDue(a)
      BY <3>1, <3>6 DEF a, Does
    <3> QED BY <3>5, <3>6
  <2>3. CASE out' = <<>> /\ mixed' = mixed
    <3>1. None(out', FirstC) /\ None(out', NextC)
      BY <2>3, NilLane
    <3>2. Dirty' \/ (~Dirty /\ app'.q = app.q /\ app'.source = app.source /\ app'.next = app.next)
      BY <1>5, <2>1 DEF Dirty
    <3> QED BY <1>1, <2>1, <2>3, <3>1, <3>2, QuietHandler
  <2>4. CASE /\ app.next # 0 /\ mixed' = (mixed \/ FirstUnderWay)
             /\ \E c \in NextC : out' = <<c>>
    BY <1>1, <1>5, <2>1, <2>4, NextPageHandler
  <2> QED BY <2>2, <2>3, <2>4
<1>6. CASE Move
  <2>1. PICK i \in DOMAIN app.items : Moved(app, i)
    BY <1>6 DEF Move
  <2>2. i \in Nat /\ i <= Len(app.items)
    BY <1>1, <2>1 DEF Apps
  <2> QED BY <1>1, <1>5, <1>6, <2>1, <2>2 DEF Move, Key
<1>7. CASE Mark
  <2> DEFINE from == [app EXCEPT !.marks = (@ \ Selected) \cup (Selected \ @)]
             i == IF app.sel < Len(app.items) THEN app.sel + 1 ELSE app.sel
  <2>1. /\ from \in Apps /\ from.items = app.items /\ from.q = app.q /\ from.source = app.source
        /\ from.next = app.next /\ from.overlay = app.overlay /\ from.queryDue = app.queryDue
    BY <1>1, SelectedTyped DEF Apps
  <2>2. i \in Nat /\ i <= Len(app.items)
    BY <1>1 DEF AppOK, Apps
  <2>3. Moved(from, i) /\ unasked' = unasked /\ app.overlay = "none"
    BY <1>7 DEF Mark, Key
  <2> HIDE DEF from, i
  <2> QED BY <1>5, <2>1, <2>2, <2>3
<1>8. CASE SubmitInput \/ Rescope \/ ClearFilter \/ Return \/ QueryDue
  <2>1. /\ [app EXCEPT !.overlay = "none"] \in Apps
        /\ [app EXCEPT !.queryDue = FALSE] \in Apps
        /\ \A q \in Queries : /\ [app EXCEPT !.q = q] \in Apps
                              /\ [app EXCEPT !.q = q, !.source = "list"] \in Apps
    BY <1>1 DEF Apps, Sources
  <2>2. Blank \subseteq Queries
    BY ConstantsOK
  <2>3. \E a \in Apps : Reloads(a)
    BY <1>1, <1>8, <2>1, <2>2 DEF SubmitInput, Rescope, ClearFilter, Return, QueryDue
  <2>4. NothingNamed
    BY <1>8 DEF SubmitInput, Rescope, ClearFilter, Return, QueryDue
  <2> QED BY <1>3, <2>3, <2>4
<1>9. CASE Refresh
  BY <1>1, <1>2, <1>9 DEF Refresh, NothingNamed
<1>10. None(<<>>, FirstC) /\ None(<<>>, NextC)
  BY NilLane
<1>11. CASE OpenFilter \/ ToggleSearch \/ Type \/ CancelInput
  <2>1. \A s, p : [app EXCEPT !.source = s, !.overlay = "input", !.previous = p].overlay = "input"
    BY <1>1 DEF Apps
  <2>2. \A q : /\ [app EXCEPT !.q = q, !.queryDue = TRUE].queryDue
               /\ [app EXCEPT !.q = q, !.overlay = "none", !.queryDue = TRUE].queryDue
    BY <1>1 DEF Apps
  <2>3. mixed' = mixed /\ unasked' = unasked
    BY <1>11 DEF OpenFilter, ToggleSearch, Type, CancelInput, Plain
  <2>4. \E a : Does(a, <<>>) /\ (a.queryDue \/ a.overlay = "input")
    BY <1>11, <2>1, <2>2 DEF OpenFilter, ToggleSearch, Type, CancelInput
  <2> QED BY <1>4, <1>10, <2>3, <2>4
<1>12. CASE MarkAllOrNone \/ ConfirmDelete \/ AnswerNo \/ AnswerYes \/ Elsewhere
  <2>1. /\ app.overlay # "input" /\ mixed' = mixed /\ unasked' = unasked
    BY <1>12 DEF MarkAllOrNone, ConfirmDelete, AnswerNo, AnswerYes, Elsewhere, Key, Plain
  <2>2. \A commands \in {<<>>, <<Other>>, <<Other, Other>>, <<Action>>,
                      <<Delete(app.targets)>>} :
          None(commands, FirstC) /\ None(commands, NextC)
    <3>1. None(<<Other, Other>>, FirstC) /\ None(<<Other, Other>>, NextC)
      BY TwoLane, OtherAsksNothing
    <3>2. /\ None(<<Action>>, FirstC) /\ None(<<Action>>, NextC)
          /\ None(<<Other>>, FirstC) /\ None(<<Other>>, NextC)
      BY OneLane, OtherAsksNothing
    <3>3. None(<<Delete(app.targets)>>, FirstC) /\ None(<<Delete(app.targets)>>, NextC)
      BY <1>1, OneLane, OtherAsksNothing
    <3> QED BY <1>10, <3>1, <3>2, <3>3
  <2>3. ASSUME NEW a,
               NEW commands \in {<<>>, <<Other>>, <<Other, Other>>, <<Action>>,
                               <<Delete(app.targets)>>},
               Does(a, commands), a.queryDue = app.queryDue,
               a.q = app.q, a.source = app.source, a.next = app.next
        PROVE  ListInv'
    BY <1>4, <2>1, <2>2, <2>3
  <2>4. CASE MarkAllOrNone
    <3>1. \A marks : LET a == [app EXCEPT !.marks = marks] IN
            a.queryDue = app.queryDue /\ a.q = app.q /\ a.source = app.source /\ a.next = app.next
      BY <1>1 DEF Apps
    <3> QED BY <2>3, <2>4, <3>1 DEF MarkAllOrNone
  <2>5. CASE ConfirmDelete
    <3>1. LET a == [app EXCEPT !.overlay = "confirm", !.targets = Targets] IN
            a.queryDue = app.queryDue /\ a.q = app.q /\ a.source = app.source /\ a.next = app.next
      BY <1>1 DEF Apps
    <3> QED BY <2>3, <2>5, <3>1 DEF ConfirmDelete
  <2>6. CASE AnswerNo \/ AnswerYes
    <3>1. LET a == [app EXCEPT !.overlay = "none"] IN
            a.queryDue = app.queryDue /\ a.q = app.q /\ a.source = app.source /\ a.next = app.next
      BY <1>1 DEF Apps
    <3> QED BY <2>3, <2>6, <3>1 DEF AnswerNo, AnswerYes
  <2>7. CASE Elsewhere
    BY <2>3, <2>7 DEF Elsewhere
  <2> QED BY <1>12, <2>4, <2>5, <2>6, <2>7
<1>13. CASE DetailDue
  <2>1. /\ app' = [app EXCEPT !.detailDue = FALSE] /\ out' = <<Other, Other>> /\ LoopOnly
        /\ mixed' = mixed /\ unasked' = unasked
    BY <1>13 DEF DetailDue, Does, Plain, LoopOnly
  <2>2. /\ app'.q = app.q /\ app'.source = app.source /\ app'.next = app.next
        /\ app'.overlay = app.overlay /\ app'.queryDue = app.queryDue
    BY <1>1, <2>1 DEF Apps
  <2>3. None(out', FirstC) /\ None(out', NextC)
    BY <2>1, TwoLane, OtherAsksNothing
  <2>4. Dirty' \/ (~Dirty /\ app'.q = app.q /\ app'.source = app.source /\ app'.next = app.next)
    BY <2>1, <2>2 DEF Dirty
  <2> QED BY <1>1, <2>1, <2>3, <2>4, QuietHandler
<1> QED BY <1>6, <1>7, <1>8, <1>9, <1>11, <1>12, <1>13 DEF Keys, Deadlines

LEMMA InitList == Init => ListInv
<1> SUFFICES ASSUME Init PROVE ListInv
  OBVIOUS
<1>1. /\ app = Start /\ out = <<Other>> \o Reload(Start) /\ cmds = <<>> /\ events = <<>>
      /\ worker = Resting
  BY DEF Init
<1>2. Start \in Apps /\ Reload(Start) # <<>>
  BY StartTyped DEF AppOK, Reload, Start
<1>3. None(out, NextC) /\ ~None(out, FirstC) /\ LastIs(out, FirstC, app.q)
  BY <1>1, <1>2, ReloadAsks
<1>4. /\ Turns(out, FirstC, NextC) /\ Turns(cmds, FirstC, NextC) /\ Turns(events, FirstE, NextE)
      /\ None(events, FirstE) /\ None(cmds, NextC)
  BY <1>1, <1>3, NoneBehind, NilLane
<1>5. \A C, E : ~InHand(C, E)
  BY <1>1, RestingTyped DEF InHand
<1>6. \A q \in Queries : q = app.q => NewestIs(q)
  BY <1>3 DEF NewestIs
<1>7. InTurn
  BY <1>3, <1>4, <1>5 DEF InTurn
<1>8. ~NoneUnderWay(FirstC, FirstE)
  BY <1>3 DEF NoneUnderWay
<1> QED BY <1>6, <1>7, <1>8 DEF ListInv

LEMMA PassesKeeps ==
  ASSUME ListInv, Passes
  PROVE  ListInv'
<1>1. Dirty' <=> Dirty
  BY DEF Passes, Dirty
<1>2. \A q \in Queries : ~Dirty' /\ q = app'.q => NewestIs(q)'
  BY <1>1 DEF Passes, ListInv
<1>3. ~mixed' => InTurn'
  BY DEF Passes, ListInv
<1>4. ~Dirty' /\ ~failed' /\ ~mixed' /\ NoneUnderWay(FirstC, FirstE)' =>
        /\ shown' = <<app'.source, app'.q>>
        /\ app'.next # 0 \/ ~NoneUnderWay(NextC, NextE)' => app'.source = "list"
  BY <1>1 DEF Passes, ListInv
<1> QED BY <1>2, <1>3, <1>4 DEF ListInv

\* Once nothing is under way the list is the answer to the query on display: an
\* answer that comes late is of an older request and is replaced by the newest one's,
\* because the worker takes one command at a time and both channels keep their order
\* (reload_pages, data::spawn, apply).
THEOREM TheListIsTheQuery == Spec => []ListMatchesQuery
<1>1. ListInv /\ TypeOK /\ TypeOK' /\ [Next]_vars => ListInv'
  <2> SUFFICES ASSUME ListInv, TypeOK, TypeOK', [Next]_vars PROVE ListInv'
    OBVIOUS
  <2>1. CASE Next
    <3>1. CASE Send \/ Worker
      BY <3>1, SendPasses, TakePasses, AnswerPasses, DeliverPasses, PassesKeeps DEF Worker
    <3> QED BY <2>1, <3>1, KeysKeepList, ApplyKeeps DEF Next
  <2>2. CASE UNCHANGED vars
    <3>1. Passes
      BY <2>2 DEF vars, Passes, NoneUnderWay, NewestIs, InTurn, InHand, AskedInHand
    <3> QED BY <3>1, PassesKeeps
  <2> QED BY <2>1, <2>2
<1>2. ListInv /\ TypeOK => ListMatchesQuery
  <2> SUFFICES ASSUME ListInv, TypeOK, Quiet, app.overlay = "none", ~failed, ~unasked, ~mixed
               PROVE  shown = <<app.source, app.q>>
    BY DEF ListMatchesQuery
  <2>1. NoneUnderWay(FirstC, FirstE) /\ ~Dirty
    BY NilLane DEF Quiet, NoneUnderWay, InHand, Dirty
  <2> QED BY <2>1 DEF ListInv
<1> QED BY InitTyped, StepTyped, InitList, <1>1, <1>2, PTL DEF Spec

(***************************************************************************)
(* Commands under way that ask to delete nothing outside S.                *)
(***************************************************************************)
Safe(s, S) == \E T : s \in Seq(T) /\ \A c \in T : c.ids \subseteq S

LEMMA SafeIntro ==
  ASSUME NEW S, NEW s, NEW T, s \in Seq(T), \A c \in T : c.ids \subseteq S
  PROVE  Safe(s, S)
BY DEF Safe

LEMMA SafeNil == \A S : Safe(<<>>, S)
<1> SUFFICES ASSUME NEW S PROVE Safe(<<>>, S)
  OBVIOUS
<1> DEFINE T == {}
<1>1. <<>> \in Seq(T) /\ \A c \in T : c.ids \subseteq S
  OBVIOUS
<1> HIDE DEF T
<1> QED BY <1>1, SafeIntro

LEMMA SafeOne ==
  ASSUME NEW S, NEW c, c.ids \subseteq S
  PROVE  Safe(<<c>>, S)
<1> DEFINE T == {c}
<1>1. <<c>> \in Seq(T) /\ \A d \in T : d.ids \subseteq S
  OBVIOUS
<1> HIDE DEF T
<1> QED BY <1>1, SafeIntro

LEMMA SafeTwo ==
  ASSUME NEW S, NEW c, NEW d, c.ids \subseteq S, d.ids \subseteq S
  PROVE  Safe(<<c, d>>, S)
<1> DEFINE T == {c, d}
<1>1. <<c, d>> \in Seq(T) /\ \A e \in T : e.ids \subseteq S
  OBVIOUS
<1> HIDE DEF T
<1> QED BY <1>1, SafeIntro

LEMMA SafeConcat ==
  ASSUME NEW S, NEW s, NEW t, Safe(s, S), Safe(t, S)
  PROVE  Safe(s \o t, S)
<1>1. PICK T : s \in Seq(T) /\ \A c \in T : c.ids \subseteq S
  BY DEF Safe
<1>2. PICK U : t \in Seq(U) /\ \A c \in U : c.ids \subseteq S
  BY DEF Safe
<1>3. s \in Seq(T \cup U) /\ t \in Seq(T \cup U)
  BY <1>1, <1>2
<1>4. s \o t \in Seq(T \cup U) /\ \A c \in T \cup U : c.ids \subseteq S
  BY <1>1, <1>2, <1>3
<1> QED BY <1>4 DEF Safe

LEMMA SafeAppend ==
  ASSUME NEW S, NEW s, NEW c, Safe(s, S), c.ids \subseteq S
  PROVE  Safe(Append(s, c), S)
<1>1. PICK T : s \in Seq(T) /\ \A d \in T : d.ids \subseteq S
  BY DEF Safe
<1>2. s \in Seq(T \cup {c})
  BY <1>1
<1>3. Append(s, c) \in Seq(T \cup {c}) /\ \A d \in T \cup {c} : d.ids \subseteq S
  BY <1>1, <1>2
<1> QED BY <1>3 DEF Safe

LEMMA SafeTaken ==
  ASSUME NEW S, NEW s, Safe(s, S), s # <<>>
  PROVE  Head(s).ids \subseteq S /\ Safe(Tail(s), S)
<1>1. PICK T : s \in Seq(T) /\ \A d \in T : d.ids \subseteq S
  BY DEF Safe
<1>2. Head(s) \in T /\ Tail(s) \in Seq(T)
  BY <1>1
<1> QED BY <1>1, <1>2 DEF Safe

LEMMA SafeInMore ==
  ASSUME NEW S, NEW R, S \subseteq R, NEW s, Safe(s, S)
  PROVE  Safe(s, R)
<1>1. PICK T : s \in Seq(T) /\ \A d \in T : d.ids \subseteq S
  BY DEF Safe
<1>2. \A d \in T : d.ids \subseteq R
  BY <1>1
<1> QED BY <1>1, <1>2 DEF Safe

\* No command but Delete names documents.
LEMMA IdsOf ==
  /\ Other.ids = {} /\ Action.ids = {}
  /\ \A q, at, srt, append : Load(q, at, srt, append).ids = {}
  /\ \A q : Search(q).ids = {}
  /\ \A ids : Delete(ids).ids = ids
BY DEF Other, Action, Load, Search, Delete

LEMMA ReloadSafe ==
  ASSUME NEW S, NEW a
  PROVE  Safe(Reload(a), S) /\ Safe(<<Other>> \o Reload(a), S)
<1>1. Safe(Reload(a), S)
  BY SafeNil, SafeOne, IdsOf DEF Reload
<1>2. Safe(<<Other>>, S)
  BY SafeOne, IdsOf
<1> QED BY <1>1, <1>2, SafeConcat

(***************************************************************************)
(* The inductive invariant: every delete that is under way was named.      *)
(***************************************************************************)
IInv ==
  /\ Safe(out, named)
  /\ Safe(cmds, named)
  /\ DOMAIN worker = {"pc", "cmd", "event"}
  /\ worker = [f \in {"pc", "cmd", "event"} |-> worker[f]]
  /\ worker.cmd.ids \subseteq named
  /\ gone \subseteq named

LEMMA InitKeeps == Init => IInv
<1> SUFFICES ASSUME Init PROVE IInv
  OBVIOUS
<1>1. Safe(out, named)
  BY ReloadSafe DEF Init
<1>2. Safe(cmds, named)
  BY SafeNil DEF Init
<1>3. /\ DOMAIN worker = {"pc", "cmd", "event"}
      /\ worker = [f \in {"pc", "cmd", "event"} |-> worker[f]]
      /\ worker.cmd.ids = {}
  BY IdsOf DEF Init, Resting
<1> QED BY <1>1, <1>2, <1>3 DEF IInv, Init

\* A handler sends what it has to send; it deletes nothing by itself.
LEMMA HandlerKeeps ==
  ASSUME IInv, UNCHANGED <<cmds, worker, gone>>, named \subseteq named', Safe(out', named')
  PROVE  IInv'
<1>1. Safe(cmds, named')
  BY SafeInMore DEF IInv
<1>2. worker.cmd.ids \subseteq named'
  BY DEF IInv
<1> QED BY <1>1, <1>2 DEF IInv

LEMMA KeysKeep ==
  ASSUME IInv, Keys \/ Deadlines
  PROVE  IInv'
<1> USE IdsOf, SafeNil, SafeOne, SafeTwo, ReloadSafe
<1>1. UNCHANGED <<cmds, worker, gone>>
  BY DEF Keys, Deadlines, Move, OpenFilter, ToggleSearch, Type, SubmitInput, CancelInput, Rescope,
       ClearFilter, Return, Refresh, Elsewhere, Mark, MarkAllOrNone, ConfirmDelete, AnswerYes,
       AnswerNo, DetailDue, QueryDue, Moved, Does, Reloads
<1>2. CASE AnswerYes
  <2>1. named' = named \cup app.targets /\ out' = <<Delete(app.targets)>>
    BY <1>2 DEF AnswerYes, Does
  <2>2. Safe(out', named')
    BY <2>1
  <2> QED BY <1>1, <2>1, <2>2, HandlerKeeps
<1>3. ASSUME named' = named, Safe(out', named) PROVE IInv'
  BY <1>1, <1>3, HandlerKeeps
<1>4. ASSUME NEW a, NEW i, Moved(a, i) PROVE Safe(out', named)
  <2>1. \/ out' = <<>>
        \/ \E q, at, srt : out' = <<Load(q, at, srt, TRUE)>>
    BY <1>4 DEF Moved, Does
  <2>2. \A q, at, srt : Safe(<<Load(q, at, srt, TRUE)>>, named)
    <3> SUFFICES ASSUME NEW q, NEW at, NEW srt PROVE Safe(<<Load(q, at, srt, TRUE)>>, named)
      OBVIOUS
    <3>1. Load(q, at, srt, TRUE).ids \subseteq named
      BY IdsOf
    <3> QED BY <3>1, SafeOne
  <2>3. ASSUME NEW q, NEW at, NEW srt, out' = <<Load(q, at, srt, TRUE)>>
        PROVE  Safe(out', named)
    <3>1. Safe(<<Load(q, at, srt, TRUE)>>, named)
      BY <2>2
    <3> QED BY <2>3, <3>1, Zenon
  <2>4. out' = <<>> => Safe(out', named)
    BY SafeNil
  <2> HIDE IdsOf, SafeNil, SafeOne, SafeTwo, ReloadSafe
  <2> QED BY <2>1, <2>3, <2>4, Zenon
<1>5. CASE Move \/ Mark
  BY <1>3, <1>4, <1>5 DEF Move, Mark
<1>6. ASSUME NEW a, Reloads(a) PROVE Safe(out', named)
  BY <1>6 DEF Reloads, Does
<1>7. CASE SubmitInput \/ Rescope \/ ClearFilter \/ Return \/ QueryDue
  BY <1>3, <1>6, <1>7 DEF SubmitInput, Rescope, ClearFilter, Return, QueryDue, NothingNamed
<1>8. CASE Refresh
  BY <1>3, <1>8 DEF Refresh, NothingNamed, Does
<1>9. CASE OpenFilter \/ ToggleSearch \/ Type \/ CancelInput \/ MarkAllOrNone \/ ConfirmDelete
             \/ AnswerNo
  BY <1>3, <1>9 DEF OpenFilter, ToggleSearch, Type, CancelInput, MarkAllOrNone, ConfirmDelete,
       AnswerNo, Plain, Does
<1>10. CASE Elsewhere \/ DetailDue
  BY <1>3, <1>10 DEF Elsewhere, DetailDue, Plain, Does
<1> QED BY <1>2, <1>5, <1>7, <1>8, <1>9, <1>10 DEF Keys, Deadlines

LEMMA ChannelsKeep ==
  ASSUME IInv, Send \/ Apply
  PROVE  IInv'
<1> USE DEF history
<1>1. CASE Send
  <2>1. /\ out # <<>> /\ cmds' = Append(cmds, Head(out)) /\ out' = Tail(out)
        /\ UNCHANGED <<worker, gone, named>>
    BY <1>1 DEF Send
  <2>2. Head(out).ids \subseteq named /\ Safe(Tail(out), named)
    BY <2>1, SafeTaken DEF IInv
  <2>3. Safe(cmds', named)
    BY <2>1, <2>2, SafeAppend DEF IInv
  <2> QED BY <2>1, <2>2, <2>3 DEF IInv
<1>2. CASE Apply
  <2>1. UNCHANGED <<cmds, worker, gone, named>> /\ (out' = <<Other, Other>> \/ out' = <<>>)
    BY <1>2 DEF Apply
  <2>2. Safe(out', named)
    BY <2>1, SafeNil, SafeTwo, IdsOf
  <2> QED BY <2>1, <2>2, HandlerKeeps
<1> QED BY <1>1, <1>2

LEMMA WorkerKeeps ==
  ASSUME IInv, Worker
  PROVE  IInv'
<1> USE DEF history
<1>1. CASE Take
  <2>1. /\ cmds # <<>> /\ cmds' = Tail(cmds) /\ UNCHANGED <<out, gone, named>>
        /\ worker' = [worker EXCEPT !.pc = "busy", !.cmd = Head(cmds)]
    BY <1>1 DEF Take
  <2>2. Head(cmds).ids \subseteq named /\ Safe(Tail(cmds), named)
    BY <2>1, SafeTaken DEF IInv
  <2>3. /\ DOMAIN worker' = {"pc", "cmd", "event"}
        /\ worker' = [f \in {"pc", "cmd", "event"} |-> worker'[f]]
        /\ worker'.cmd = Head(cmds)
    BY <2>1 DEF IInv
  <2> QED BY <2>1, <2>2, <2>3 DEF IInv
<1>2. ASSUME NEW e, worker' = [worker EXCEPT !.pc = "send", !.cmd = Other, !.event = e],
             UNCHANGED <<out, cmds, named>>, gone' \subseteq named
      PROVE  IInv'
  <2>1. /\ DOMAIN worker' = {"pc", "cmd", "event"}
        /\ worker' = [f \in {"pc", "cmd", "event"} |-> worker'[f]]
        /\ worker'.cmd = Other
    BY <1>2 DEF IInv
  <2> QED BY <1>2, <2>1, IdsOf DEF IInv
<1>3. CASE Answer
  <2>1. gone' \subseteq named
    BY <1>3 DEF Answer, IInv
  <2>2. UNCHANGED <<out, cmds, named>>
        /\ \E e : worker' = [worker EXCEPT !.pc = "send", !.cmd = Other, !.event = e]
    BY <1>3 DEF Answer, Reply
  <2> QED BY <1>2, <2>1, <2>2
<1>4. CASE Fail
  <2>1. gone' \subseteq named
    BY <1>4 DEF Fail, IInv
  <2>2. UNCHANGED <<out, cmds, named>>
        /\ \E e : worker' = [worker EXCEPT !.pc = "send", !.cmd = Other, !.event = e]
    BY <1>4 DEF Fail, Reply
  <2> QED BY <1>2, <2>1, <2>2
<1>5. CASE Deliver
  <2>1. worker' = Resting /\ UNCHANGED <<out, cmds, gone, named>>
    BY <1>5 DEF Deliver
  <2>2. /\ DOMAIN worker' = {"pc", "cmd", "event"}
        /\ worker' = [f \in {"pc", "cmd", "event"} |-> worker'[f]]
        /\ worker'.cmd.ids = {}
    BY <2>1, IdsOf DEF Resting
  <2> QED BY <2>1, <2>2 DEF IInv
<1> QED BY <1>1, <1>3, <1>4, <1>5 DEF Worker

\* The server deletes only what a confirmed modal named, whatever answers, reloads
\* and keys come between the modal and the delete (Mutation::Delete).
THEOREM OnlyTheNamedGo == Spec => []DeletesAreNamed
<1>1. IInv /\ [Next]_vars => IInv'
  <2> SUFFICES ASSUME IInv, [Next]_vars PROVE IInv'
    OBVIOUS
  <2>1. CASE Next
    BY <2>1, KeysKeep, ChannelsKeep, WorkerKeeps DEF Next
  <2>2. CASE UNCHANGED vars
    BY <2>2 DEF vars, IInv
  <2> QED BY <2>1, <2>2
<1>2. IInv => DeletesAreNamed
  BY DEF IInv, DeletesAreNamed
<1> QED BY InitKeeps, <1>1, <1>2, PTL DEF Spec

=============================================================================
