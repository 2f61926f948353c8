--------------------------- MODULE DuplicateKeepers ---------------------------
(***************************************************************************)
(* Which copy of a duplicated document survives: the group phases of a     *)
(* scan (services/prune_scan.rs) choose a keeper and flag the other        *)
(* copies, a committed policy (services/prune_triage.rs, db/profile.rs)    *)
(* flags what the recorded groups and similarities say, and the lifecycle  *)
(* deletes what is flagged, brings it back, or lets it be.                 *)
(*                                                                         *)
(* A document is its rank: the preference of select_keeper with the id as  *)
(* the tie-break, so that the least member of a group is its keeper.       *)
(* Content, URLs and connectors do not change here.                        *)
(***************************************************************************)
EXTENDS Naturals, FiniteSets

CONSTANTS
  MaxDoc,       \* documents 1..MaxDoc
  Methods,      \* the group detectors: content hash, canonical URL
  NoKey,        \* the key of a document that has none
  KeyOf,        \* the key of a document under a method
  Near,         \* pairs {a, b} that MinHash finds similar
  Family,       \* what a document is a copy of
  Connector,    \* the connector of a document
  Scopes,       \* what a scan may be asked to cover
  Scanners, Committers,
  AutoBand,     \* the signals of the policy's auto band
  NearSignal,   \* the near_duplicate signal
  Guarded,      \* cross_connector_review_only
  PageSize,     \* documents in a page of the band
  MaxScans,     \* bound: scans started
  MaxEdits      \* bound: decisions, restores and arrivals by others

Docs == 1 .. MaxDoc

\* What a scan works through: the groups, which have a key, and the pairs.
Unit == [method : Methods \cup {NearSignal}, key : {KeyOf[m][d] : m \in Methods, d \in Docs}
                                                  \cup {NoKey}, pair : SUBSET Docs]
Groups == {[method |-> m, key |-> KeyOf[m][d], pair |-> {}] : m \in Methods, d \in Docs}
Pairs == {[method |-> NearSignal, key |-> NoKey, pair |-> p] : p \in Near}
NoUnit == [method |-> NearSignal, key |-> NoKey, pair |-> {}]

ASSUME ConstantsOK ==
  /\ MaxDoc \in Nat
  /\ DOMAIN KeyOf = Methods
  /\ \A m \in Methods : DOMAIN KeyOf[m] = Docs
  /\ \A m \in Methods : \A d, e \in Docs :
       KeyOf[m][d] = KeyOf[m][e] /\ KeyOf[m][d] # NoKey => Family[d] = Family[e]
  /\ Near \subseteq SUBSET Docs
  /\ \A p \in Near : \A d, e \in p : Family[d] = Family[e]
  /\ Scopes \subseteq SUBSET Docs
  /\ NearSignal \notin Methods
  /\ Guarded \in BOOLEAN
  /\ PageSize \in Nat \ {0}
  /\ MaxScans \in Nat /\ MaxEdits \in Nat

VARIABLES
  live,       \* public.document
  group,      \* ovis.doc_dup_group, one row per method and document
  similar,    \* documents with a max_jaccard above the policy's threshold ...
  spanning,   \* ... and those whose pair is recorded as spanning connectors
  candidate,  \* the open candidate row of a document, or none
  excluded,   \* ovis.prune_exclusions
  trash,      \* documents the reaper has deleted
  scan,       \* what each scan is doing
  commit,     \* what each policy commit is doing
  scans, edits \* scans and edits still allowed

profile == <<group, similar, spanning>>
lifecycle == <<live, candidate, excluded, trash>>
vars == <<profile, lifecycle, scan, commit, scans, edits>>

NoMember == [size |-> 0, keeper |-> FALSE, cross |-> FALSE]
Member == [size : 0 .. MaxDoc, keeper : BOOLEAN, cross : BOOLEAN]

\* members are the rows a scan has read for a group or a pair.
Scan == [pc : {"idle", "read", "group", "flag"}, scope : SUBSET Docs,
         todo : SUBSET Unit, unit : Unit,
         members : SUBSET Docs]
NoScan == [pc |-> "idle", scope |-> {}, todo |-> {}, unit |-> NoUnit, members |-> {}]

Commit == [pc : {"idle", "page", "flag"}, cursor : 0 .. MaxDoc, ids : SUBSET Docs]
NoCommit == [pc |-> "idle", cursor |-> 0, ids |-> {}]

Init ==
  /\ live \in SUBSET Docs
  /\ group = [m \in Methods |-> [d \in Docs |-> NoMember]]
  /\ similar = {}
  /\ spanning = {}
  /\ candidate = [d \in Docs |-> "none"]
  /\ excluded = {}
  /\ trash = {}
  /\ scan = [s \in Scanners |-> NoScan]
  /\ commit = [c \in Committers |-> NoCommit]
  /\ scans = MaxScans
  /\ edits = MaxEdits

Open(d) == candidate[d] # "none"
Edit == edits > 0 /\ edits' = edits - 1

\* select_keeper takes the least member; the others are spare.
Spares(M) == {d \in M : \E e \in M : e < d}
Greatest(S) == CHOOSE i \in S : \A j \in S : i >= j
First(n, S) == {i \in S : Cardinality({j \in S : j < i}) < n}

-----------------------------------------------------------------------------
(* A scan walks the groups, then the pairs *)

StartScan(s) ==
  /\ scan[s].pc = "idle" /\ scans > 0
  /\ \E sc \in Scopes :
       scan' = [scan EXCEPT ![s] = [NoScan EXCEPT !.pc = "read", !.scope = sc,
                                    !.todo = {g \in Groups : g.key # NoKey} \cup Pairs]]
  /\ scans' = scans - 1
  /\ UNCHANGED <<profile, lifecycle, commit, edits>>

\* The members of a group in scope; both sides of a pair, whatever the scope.
Members(s, u) ==
  IF u \in Pairs THEN u.pair \cap live
  ELSE {d \in scan[s].scope \cap live : KeyOf[u.method][d] = u.key}

\* A unit with fewer than two members left is passed over.
Read(s) ==
  /\ scan[s].pc = "read"
  /\ \E u \in scan[s].todo :
       scan' = [scan EXCEPT
         ![s].todo = @ \ {u},
         ![s].unit = IF Cardinality(Members(s, u)) > 1 THEN u ELSE NoUnit,
         ![s].members = IF Cardinality(Members(s, u)) > 1 THEN Members(s, u) ELSE {},
         ![s].pc = IF Cardinality(Members(s, u)) > 1 THEN "group" ELSE "read"]
  /\ UNCHANGED <<profile, lifecycle, commit, scans, edits>>

EndScan(s) ==
  /\ scan[s].pc = "read" /\ scan[s].todo = {}
  /\ scan' = [scan EXCEPT ![s] = NoScan]
  /\ UNCHANGED <<profile, lifecycle, commit, scans, edits>>

Spans(M) == \E d, e \in M : Connector[d] # Connector[e]

\* Mutant: the keeper is not recorded as a member of its group.
GroupedSpares(M, old) ==
  [d \in Docs |-> IF d \in Spares(M)
     THEN [size |-> Cardinality(M), keeper |-> FALSE, cross |-> Spans(M)] ELSE old[d]]

\* set_dup_groups writes the members' rows and never removes one.
Grouped(M, old) ==
  [d \in Docs |-> IF d \in M THEN [size |-> Cardinality(M), keeper |-> d \notin Spares(M),
                                   cross |-> Spans(M)] ELSE old[d]]

\* Record the group, or both sides of the pair.  A failure is only logged.
RecordUnit(s) ==
  LET u == scan[s].unit
      M == scan[s].members IN
  /\ scan[s].pc = "group"
  /\ scan' = [scan EXCEPT ![s].pc = "flag"]
  /\ \/ UNCHANGED profile
     \/ /\ u \notin Pairs
        /\ group' = [group EXCEPT ![u.method] = Grouped(M, @)]
        /\ UNCHANGED <<similar, spanning>>
     \/ /\ u \in Pairs
        /\ similar' = similar \cup M
        /\ spanning' \in {spanning, IF Spans(M) THEN spanning \cup M ELSE spanning}
        /\ UNCHANGED group
  /\ UNCHANGED <<lifecycle, commit, scans, edits>>

\* upsert_candidates: an open row keeps its state, an exclusion is respected.
Upserted(D) ==
  [d \in Docs |-> IF d \in D \ excluded /\ ~Open(d) THEN "candidate" ELSE candidate[d]]

\* Mutant: every member of a pair is flagged.
FlaggedBoth(s) == IF scan[s].unit \in Pairs THEN scan[s].members
                  ELSE Spares(scan[s].members)

\* Everything but the keeper; of a pair, only what is in scope.
Flagged(s) == Spares(scan[s].members) \cap scan[s].scope

FlagUnit(s) ==
  /\ scan[s].pc = "flag"
  /\ candidate' = Upserted(Flagged(s))
  /\ scan' = [scan EXCEPT ![s].pc = "read", ![s].unit = NoUnit, ![s].members = {}]
  /\ UNCHANGED <<live, excluded, trash, profile, commit, scans, edits>>

-----------------------------------------------------------------------------
(* Committing the auto band of a policy *)

\* Mutant: the keeper matches too.
InGroupAny(m, d) == group[m][d].size > 1 /\ (Guarded => ~group[m][d].cross)

InGroup(m, d) ==
  group[m][d].size > 1 /\ ~group[m][d].keeper /\ (Guarded => ~group[m][d].cross)

IsNear(d) == d \in similar /\ (Guarded => d \notin spanning)

Matches(d) ==
  \/ \E m \in Methods \cap AutoBand : InGroup(m, d)
  \/ NearSignal \in AutoBand /\ IsNear(d)

\* exemption_predicate: no open row, no exclusion, and the document exists.
Band == {d \in live \ excluded : Matches(d) /\ ~Open(d)}

\* simulate; the caller's count is the one it has just been shown.
StartCommit(c) ==
  /\ commit[c].pc = "idle" /\ Band # {}
  /\ commit' = [commit EXCEPT ![c] = [NoCommit EXCEPT !.pc = "page"]]
  /\ UNCHANGED <<profile, lifecycle, scan, scans, edits>>

\* documents_in_band, scan_documents_by_ids, signals_for_documents
ReadBand(c) ==
  LET ids == First(PageSize, {d \in Band : d > commit[c].cursor}) IN
  /\ commit[c].pc = "page"
  /\ commit' = [commit EXCEPT ![c] =
       IF ids = {} THEN NoCommit ELSE [pc |-> "flag", cursor |-> Greatest(ids), ids |-> ids]]
  /\ UNCHANGED <<profile, lifecycle, scan, scans, edits>>

FlagBand(c) ==
  /\ commit[c].pc = "flag"
  /\ candidate' = Upserted(commit[c].ids)
  /\ commit' = [commit EXCEPT ![c].pc = "page", ![c].ids = {}]
  /\ UNCHANGED <<live, excluded, trash, profile, scan, scans, edits>>

-----------------------------------------------------------------------------
(* The lifecycle, and the crawler *)

Stage(d) ==
  /\ candidate[d] = "candidate" /\ d \in live
  /\ candidate' = [candidate EXCEPT ![d] = "staged"]
  /\ UNCHANGED <<live, excluded, trash, profile, scan, commit, scans, edits>>

\* Mutant: the row of a deleted document is left as deleting.
ReapOpen(d) ==
  /\ candidate[d] = "staged"
  /\ candidate' = [candidate EXCEPT ![d] = "deleting"]
  /\ live' = live \ {d}
  /\ trash' = IF d \in live THEN trash \cup {d} ELSE trash
  /\ UNCHANGED <<excluded, profile, scan, commit, scans, edits>>

\* The reaper deletes; a row whose document is gone is closed.
Reap(d) ==
  /\ candidate[d] = "staged"
  /\ candidate' = [candidate EXCEPT ![d] = "none"]
  /\ live' = live \ {d}
  /\ trash' = IF d \in live THEN trash \cup {d} ELSE trash
  /\ UNCHANGED <<excluded, profile, scan, commit, scans, edits>>

\* Dismissed, restored from staging, or kept for good.
Keep(d) ==
  /\ Edit
  /\ Open(d)
  /\ candidate' = [candidate EXCEPT ![d] = "none"]
  /\ excluded' \in {excluded, excluded \cup {d}}
  /\ UNCHANGED <<live, trash, profile, scan, commit, scans>>

\* The document comes back; what was recorded about it is still there.
Restore(d) ==
  /\ Edit
  /\ d \in trash
  /\ trash' = trash \ {d}
  /\ live' = live \cup {d}
  /\ UNCHANGED <<candidate, excluded, profile, scan, commit, scans>>

\* The crawler finds a document.
Arrive(d) ==
  /\ Edit
  /\ d \notin live
  /\ live' = live \cup {d}
  /\ UNCHANGED <<candidate, excluded, trash, profile, scan, commit, scans>>

-----------------------------------------------------------------------------

Next ==
  \/ \E s \in Scanners :
       StartScan(s) \/ Read(s) \/ EndScan(s) \/ RecordUnit(s) \/ FlagUnit(s)
  \/ \E c \in Committers : StartCommit(c) \/ ReadBand(c) \/ FlagBand(c)
  \/ \E d \in Docs : Stage(d) \/ Reap(d) \/ Keep(d) \/ Restore(d) \/ Arrive(d)

Spec == Init /\ [][Next]_vars

-----------------------------------------------------------------------------
(* Properties *)

\* Every variable holds what its table or its fields can hold.
TypeOK ==
  /\ live \subseteq Docs
  /\ group \in [Methods -> [Docs -> Member]]
  /\ similar \subseteq Docs
  /\ spanning \subseteq Docs
  /\ candidate \in [Docs -> {"none", "candidate", "staged"}]
  /\ excluded \subseteq Docs
  /\ trash \subseteq Docs
  /\ scan \in [Scanners -> Scan]
  /\ commit \in [Committers -> Commit]
  /\ scans \in 0 .. MaxScans
  /\ edits \in 0 .. MaxEdits

\* Pruning never deletes the last copy: when the reaper takes a document, a copy
\* of the same content stays (select_keeper, the keeper's row in doc_dup_group).
LastCopyKept ==
  [][\A d \in live \ live' : \E e \in live' : Family[e] = Family[d]]_vars

\* A spare copy: flagged, recorded as one, or read by a scan or a commit that is
\* about to flag it.
Spare(d) ==
  \/ Open(d)
  \/ \E m \in Methods : group[m][d].size > 1 /\ ~group[m][d].keeper
  \/ \E s \in Scanners : scan[s].pc # "idle" /\ d \in Spares(scan[s].members)
  \/ \E c \in Committers : d \in commit[c].ids

\* Whatever prune holds for a spare copy, now or from an earlier scan, has a better
\* copy that is there: deleting the keeper of one group never strands another.
SpareHasABetter ==
  \A d \in Docs : Spare(d) => \E e \in live : e < d /\ Family[e] = Family[d]

\* Every recorded group shows the copy it keeps: a group of the cluster review
\* has a keeper, however the scans that recorded its rows overlapped.
ClusterHasKeeper ==
  \A m \in Methods, d \in Docs : group[m][d].size > 1 =>
    \E e \in Docs : KeyOf[m][e] = KeyOf[m][d] /\ group[m][e].keeper

=============================================================================
