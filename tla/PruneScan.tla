------------------------------ MODULE PruneScan ------------------------------
(***************************************************************************)
(* The scan runner (services/prune_scan.rs) over the scan rows and the     *)
(* candidate rows of db/prune.rs: poll, resume from the checkpoint, walk   *)
(* the phases page by page, close what no longer matches, finish; with     *)
(* cancellation, the retry budget, crashes and a build that cannot read    *)
(* the scan's configuration.                                               *)
(*                                                                         *)
(* A document is its place in the keyset order; in the group phases it     *)
(* stands for a group, the copy that is flagged.  A reason is the detector *)
(* that found it; Label is the name the reason carries in the row.         *)
(***************************************************************************)
EXTENDS Naturals, FiniteSets

CONSTANTS
  MaxDoc,        \* documents 1..MaxDoc
  MaxScan,       \* bound: scans 1..MaxScan are created
  Runners,       \* one per backend instance
  Older,         \* instances whose build cannot read the scans' configuration
  Operators,     \* requests that create a scan
  Detectors,
  Foreign,       \* the reason a committed policy writes
  LastPhase,     \* phases 1..LastPhase, in order
  PhasesOf,      \* the phases a detector needs; it flags in the last of them
  Content,       \* detectors that read a document's text
  AtFirst,       \* what the detectors may say of the documents at the start
  RowsAtFirst,   \* candidate rows older than the scans of the behaviour
  Label,         \* the detector name its reasons carry
  Requests,      \* what a request may ask for: [wants, scope]
  PageSize,
  MaxRetries,    \* MAX_SCAN_RETRIES
  MaxFaults,     \* bound: failed statements and crashes
  MaxEdits       \* bound: changes to documents and rows by others

Docs == 1 .. MaxDoc
Scans == 1 .. MaxScan
Phases == 1 .. LastPhase
Reasons == Detectors \cup {Foreign}

VARIABLES
  scan,       \* ovis.prune_scan
  row,        \* the last candidate row of each document
  excluded,   \* ovis.prune_exclusions
  match,      \* what the detectors would say of each document now
  run,        \* what each runner is doing, with its local variables
  creator,    \* create_scan: the slot was seen free
  judged,     \* history: documents whose page a scan has written, by phase
  found,      \* history: documents a scan has flagged
  late,       \* history: pages written for a scan while its row said cancelled
  losses,     \* history: runs of a scan that failed since its last saved page
  edits,      \* edits still allowed
  faults      \* faults still allowed

rows == <<row, excluded, match>>
history == <<judged, found, late, losses>>
vars == <<scan, rows, run, creator, history, edits, faults>>

Statuses == {"absent", "queued", "running", "done", "cancelled", "failed"}

\* done, phase and cursor are the checkpoint; phase 0 is None.
Scan == [status : Statuses, wants : SUBSET Detectors, scope : SUBSET Docs,
         done : SUBSET Phases, phase : 0 .. LastPhase, cursor : 0 .. MaxDoc, retries : Nat]
Unborn == [status |-> "absent", wants |-> {}, scope |-> {}, done |-> {}, phase |-> 0,
           cursor |-> 0, retries |-> 0]

\* n tells the rows of a document apart; closer is the scan that closed the row
\* as no_longer_matches.
Row == [n : Nat, state : {"none", "candidate", "staged", "closed"}, scan : 0 .. MaxScan,
        reasons : SUBSET Reasons, closer : 0 .. MaxScan]
NoRow == [n |-> 0, state |-> "none", scan |-> 0, reasons |-> {}, closer |-> 0]

ASSUME ConstantsOK ==
  /\ MaxDoc \in Nat /\ MaxScan \in Nat /\ LastPhase \in Nat
  /\ Older \subseteq Runners
  /\ Foreign \notin Detectors
  /\ PhasesOf \in [Detectors -> (SUBSET Phases) \ {{}}]
  /\ Content \subseteq Detectors
  /\ AtFirst \subseteq [Docs -> SUBSET Detectors]
  /\ RowsAtFirst \in [Docs -> Row]
  /\ \A d \in Docs : RowsAtFirst[d].scan = 0 /\ RowsAtFirst[d].closer = 0
  /\ \A d \in Docs : RowsAtFirst[d].n = 0 => RowsAtFirst[d].state = "none"
  /\ DOMAIN Label = Reasons
  /\ Requests \subseteq [wants : SUBSET Detectors, scope : SUBSET Docs]
  /\ PageSize \in Nat \ {0}
  /\ MaxRetries \in Nat /\ MaxFaults \in Nat /\ MaxEdits \in Nat

\* row 0 is an insert; the reasons of an update are merged already.
Hit == [doc : Docs, reasons : SUBSET Reasons, row : Nat]

PCs == {"idle", "polled", "load", "page", "write", "save", "close", "finish",
        "stop", "error"}
Run == [pc : PCs, scan : 0 .. MaxScan, done : SUBSET Phases, phase : 0 .. LastPhase,
        cursor : 0 .. MaxDoc, page : SUBSET Docs, hits : SUBSET Hit]
Resting == [pc |-> "idle", scan |-> 0, done |-> {}, phase |-> 0, cursor |-> 0,
            page |-> {}, hits |-> {}]

Init ==
  /\ scan = [s \in Scans |-> Unborn]
  /\ row = RowsAtFirst
  /\ excluded = {}
  /\ match \in AtFirst
  /\ run = [r \in Runners |-> Resting]
  /\ creator = [o \in Operators |-> "idle"]
  /\ judged = [s \in Scans |-> [p \in Phases |-> {}]]
  /\ found = [s \in Scans |-> {}]
  /\ late = [s \in Scans |-> 0]
  /\ losses = [s \in Scans |-> 0]
  /\ edits = MaxEdits
  /\ faults = MaxFaults

Active(s) == scan[s].status \in {"queued", "running"}
Open(d) == row[d].state \in {"candidate", "staged"}
Least(S) == CHOOSE i \in S : \A j \in S : i <= j
Greatest(S) == CHOOSE i \in S : \A j \in S : i >= j
First(n, S) == {i \in S : Cardinality({j \in S : j < i}) < n}

At(r, pc) == run[r].pc = pc
Goto(r, pc) == run' = [run EXCEPT ![r].pc = pc]
EndRun(r) == run' = [run EXCEPT ![r] = Resting]
Fault == faults > 0 /\ faults' = faults - 1
Edit == edits > 0 /\ edits' = edits - 1
Fails(r) == Fault /\ Goto(r, "error")

-----------------------------------------------------------------------------
(* The scan rows: POST /prune/scans and its cancellation *)

\* create_scan first looks for an active scan ...
CheckSlot(o) ==
  /\ creator[o] = "idle"
  /\ \A s \in Scans : ~Active(s)
  /\ creator' = [creator EXCEPT ![o] = "checked"]
  /\ UNCHANGED <<scan, rows, run, history, edits, faults>>

\* ... and then inserts its own; MaxScan bounds the number of scans.
Insert(o) ==
  LET unborn == {s \in Scans : scan[s].status = "absent"} IN
  /\ creator[o] = "checked"
  /\ creator' = [creator EXCEPT ![o] = "idle"]
  /\ \/ \E q \in Requests :
          /\ unborn # {}
          /\ scan' = [scan EXCEPT ![Least(unborn)] =
                        [Unborn EXCEPT !.status = "queued", !.wants = q.wants, !.scope = q.scope]]
          /\ UNCHANGED faults
     \/ Fault /\ UNCHANGED scan
  /\ UNCHANGED <<rows, run, history, edits>>

\* A queued scan is cancelled at once; the runner of a running one finds out
\* when it saves its page.
Cancel(s) ==
  /\ Active(s)
  /\ scan' = [scan EXCEPT ![s].status = "cancelled"]
  /\ UNCHANGED <<rows, run, creator, history, edits, faults>>

-----------------------------------------------------------------------------
(* The runner takes up a scan *)

\* Mutant: only queued scans are taken up.
NextQueued == {s \in Scans : scan[s].status = "queued"}

\* next_scan_to_run: the running scan, else the oldest queued one.
NextToRun ==
  LET with(status) == {s \in Scans : scan[s].status = status} IN
  IF with("running") # {} THEN with("running") ELSE with("queued")

Poll(r) ==
  /\ At(r, "idle") /\ NextToRun # {}
  /\ run' = [run EXCEPT ![r] = [Resting EXCEPT !.pc = "polled", !.scan = Least(NextToRun)]]
  /\ UNCHANGED <<scan, rows, creator, history, edits, faults>>

\* scan_mark_running; a scan cancelled since the poll is let go.
Mark(r) ==
  LET s == run[r].scan IN
  /\ At(r, "polled")
  /\ \/ /\ Active(s)
        /\ scan' = [scan EXCEPT ![s].status = "running"]
        /\ Goto(r, "load")
        /\ UNCHANGED faults
     \/ ~Active(s) /\ EndRun(r) /\ UNCHANGED <<scan, faults>>
     \/ Fault /\ EndRun(r) /\ UNCHANGED scan
  /\ UNCHANGED <<rows, creator, history, edits>>

\* Mutant: the phase the checkpoint is in counts as done.
LoadAsDone(r) ==
  LET c == scan[run[r].scan] IN
  /\ At(r, "load")
  /\ run' = [run EXCEPT ![r].pc = "page", ![r].done = c.done \cup ({c.phase} \ {0}),
                        ![r].phase = 0, ![r].cursor = 0]
  /\ UNCHANGED <<scan, rows, creator, history, edits, faults>>

\* The start of execute: parse the configuration, restore the checkpoint.  A
\* build that cannot parse it leaves the scan alone, as running.
Load(r) ==
  LET c == scan[run[r].scan] IN
  /\ At(r, "load")
  /\ \/ r \in Older /\ EndRun(r) /\ UNCHANGED faults
     \/ /\ r \notin Older
        /\ run' = [run EXCEPT ![r].pc = "page", ![r].done = c.done, ![r].phase = c.phase,
                              ![r].cursor = c.cursor]
        /\ UNCHANGED faults
     \/ Fails(r)
  /\ UNCHANGED <<scan, rows, creator, history, edits>>

-----------------------------------------------------------------------------
(* The runner walks the phases *)

\* The phases a scan runs; a near-duplicate scan walks the documents too.
Wanted(s) == UNION {PhasesOf[w] : w \in scan[s].wants}
Left(r) == Wanted(run[r].scan) \ run[r].done

\* The checkpoint's cursor counts only in the checkpoint's phase.
CursorIn(r, p) == IF run[r].phase = p THEN run[r].cursor ELSE 0

Page(r, p) ==
  First(PageSize, {d \in scan[run[r].scan].scope : d > CursorIn(r, p)})

\* The detectors that flag d in phase p; the text of the documents in blind could
\* not be read, and the walk goes on without it.
Flags(r, p, d, blind) ==
  {w \in scan[run[r].scan].wants \cap match[d] :
     Greatest(PhasesOf[w]) = p /\ ~(d \in blind /\ w \in Content)}

\* The lookups of upsert_candidates: excluded documents and rows past candidate
\* are skipped, the reasons of an open candidate are merged.
Lookup(r, p, page, blind) ==
  LET before(d) == IF Open(d) THEN row[d].reasons ELSE {} IN
  {[doc |-> d, reasons |-> before(d) \cup Flags(r, p, d, blind),
    row |-> IF Open(d) THEN row[d].n ELSE 0] :
     d \in {e \in page \ excluded : Flags(r, p, e, blind) # {} /\ row[e].state # "staged"}}

\* Read a page, run the detectors, look up the rows.
ReadPage(r) ==
  LET p == Least(Left(r)) IN
  /\ At(r, "page") /\ Left(r) # {} /\ Page(r, p) # {}
  /\ \/ /\ run' = [run EXCEPT ![r].pc = "write", ![r].page = Page(r, p),
                              ![r].hits = Lookup(r, p, Page(r, p), {})]
        /\ UNCHANGED faults
     \/ \E blind \in SUBSET Page(r, p) :
          /\ Fault
          /\ Lookup(r, p, Page(r, p), blind) # Lookup(r, p, Page(r, p), {})
          /\ run' = [run EXCEPT ![r].pc = "write", ![r].page = Page(r, p),
                                ![r].hits = Lookup(r, p, Page(r, p), blind)]
     \/ Fails(r)
  /\ UNCHANGED <<scan, rows, creator, history, edits>>

\* An empty page ends the phase, in memory only.
EndPhase(r) ==
  LET p == Least(Left(r)) IN
  /\ At(r, "page") /\ Left(r) # {} /\ Page(r, p) = {}
  /\ run' = [run EXCEPT ![r].done = @ \cup {p}, ![r].phase = 0, ![r].cursor = 0]
  /\ UNCHANGED <<scan, rows, creator, history, edits, faults>>

\* An insert loses to a row opened since the lookup; an update goes by id, in
\* whatever state the row is by now.
Lands(h) == IF h.row = 0 THEN ~Open(h.doc) ELSE row[h.doc].n = h.row

\* Mutant: a candidate found again keeps the scan that found it first.
StampFirst(s, h) ==
  [row[h.doc] EXCEPT !.n = IF h.row = 0 THEN @ + 1 ELSE @,
                     !.state = IF h.row = 0 THEN "candidate" ELSE @,
                     !.scan = IF h.row = 0 THEN s ELSE @,
                     !.reasons = h.reasons,
                     !.closer = IF h.row = 0 THEN 0 ELSE @]

\* The written row carries the scan that found it last.
Stamp(s, h) ==
  [row[h.doc] EXCEPT !.n = IF h.row = 0 THEN @ + 1 ELSE @,
                     !.state = IF h.row = 0 THEN "candidate" ELSE @,
                     !.scan = s,
                     !.reasons = h.reasons,
                     !.closer = IF h.row = 0 THEN 0 ELSE @]

\* The rows after the hits in H are written for scan s.
Written(s, H) ==
  [d \in Docs |-> LET now == {h \in H : h.doc = d /\ Lands(h)} IN
     IF now = {} THEN row[d] ELSE Stamp(s, CHOOSE h \in now : TRUE)]

\* What upsert_candidates has written when it fails: the inserts are one
\* statement and come first, the updates follow one by one.
PartlyWritten(H) ==
  {{}} \cup {{h \in H : h.row = 0 \/ h.doc <= n} : n \in 0 .. MaxDoc}

\* Mutant: a failed write is logged and the page saved all the same.
WritePageAnyway(r) ==
  LET s == run[r].scan
      p == Least(Left(r)) IN
  /\ At(r, "write")
  /\ \/ /\ row' = Written(s, run[r].hits)
        /\ found' = [found EXCEPT ![s] = @ \cup {h.doc : h \in run[r].hits}]
        /\ judged' = [judged EXCEPT ![s][p] = @ \cup run[r].page]
        /\ UNCHANGED faults
     \/ Fault /\ UNCHANGED <<row, found, judged>>
  /\ late' = [late EXCEPT ![s] = IF scan[s].status = "cancelled" THEN @ + 1 ELSE @]
  /\ Goto(r, "save")
  /\ UNCHANGED <<scan, excluded, match, creator, losses, edits>>

WritePage(r) ==
  LET s == run[r].scan
      p == Least(Left(r)) IN
  /\ At(r, "write")
  /\ \/ /\ row' = Written(s, run[r].hits)
        /\ found' = [found EXCEPT ![s] = @ \cup {h.doc : h \in run[r].hits}]
        /\ judged' = [judged EXCEPT ![s][p] = @ \cup run[r].page]
        /\ late' = [late EXCEPT ![s] = IF scan[s].status = "cancelled" THEN @ + 1 ELSE @]
        /\ Goto(r, "save")
        /\ UNCHANGED faults
     \/ \E H \in PartlyWritten(run[r].hits) :
          /\ row' = Written(s, H)
          /\ found' = [found EXCEPT ![s] = @ \cup {h.doc : h \in H}]
          /\ Fails(r)
          /\ UNCHANGED <<judged, late>>
  /\ UNCHANGED <<scan, excluded, match, creator, losses, edits>>

\* Mutant: the stored cursor is one past the page.
SavedPast(s, done, phase, cursor) ==
  [scan EXCEPT ![s].done = done, ![s].phase = phase, ![s].cursor = cursor + 1, ![s].retries = 0]

\* scan_checkpoint with a checkpoint whose retry count is back at zero.
Saved(s, done, phase, cursor) ==
  [scan EXCEPT ![s].done = done, ![s].phase = phase, ![s].cursor = cursor, ![s].retries = 0]

\* Mutant: the status the save returns is not looked at.
SavePageBlind(r) ==
  LET s == run[r].scan
      p == Least(Left(r))
      last == Greatest(run[r].page) IN
  /\ At(r, "save")
  /\ scan' = Saved(s, run[r].done, p, last)
  /\ losses' = [losses EXCEPT ![s] = 0]
  /\ run' = [run EXCEPT ![r].pc = "page", ![r].phase = p, ![r].cursor = last,
                        ![r].page = {}, ![r].hits = {}]
  /\ UNCHANGED <<rows, creator, judged, found, late, edits, faults>>

\* Save the cursor; the status that comes back says whether to stop.
SavePage(r) ==
  LET s == run[r].scan
      p == Least(Left(r))
      last == Greatest(run[r].page) IN
  /\ At(r, "save")
  /\ \/ /\ scan' = Saved(s, run[r].done, p, last)
        /\ losses' = [losses EXCEPT ![s] = 0]
        /\ run' = [run EXCEPT ![r].pc = IF scan[s].status = "cancelled" THEN "stop" ELSE "page",
                              ![r].phase = p, ![r].cursor = last, ![r].page = {}, ![r].hits = {}]
        /\ UNCHANGED faults
     \/ Fails(r) /\ UNCHANGED <<scan, losses>>
  /\ UNCHANGED <<rows, creator, judged, found, late, edits>>

\* The last checkpoint of execute; what it returns is dropped.
SaveLast(r) ==
  LET s == run[r].scan IN
  /\ At(r, "page") /\ Left(r) = {}
  /\ \/ /\ scan' = Saved(s, run[r].done, run[r].phase, run[r].cursor)
        /\ losses' = [losses EXCEPT ![s] = 0]
        /\ Goto(r, "close")
        /\ UNCHANGED faults
     \/ Fails(r) /\ UNCHANGED <<scan, losses>>
  /\ UNCHANGED <<rows, creator, judged, found, late, edits>>

-----------------------------------------------------------------------------
(* The end of a run *)

\* Every reason of the row carries the name of a detector the scan ran.
EveryReasonRan(s, d) == \A w \in row[d].reasons : Label[w] \in scan[s].wants

\* close_stale_candidates closes the candidates in scope the scan did not stamp.
Stale(s) ==
  {d \in scan[s].scope : row[d].state = "candidate" /\ row[d].scan # s /\ EveryReasonRan(s, d)}

\* A failure is logged, and the scan ends all the same.
Close(r) ==
  LET s == run[r].scan IN
  /\ At(r, "close")
  /\ \/ /\ row' = [d \in Docs |-> IF d \in Stale(s)
                     THEN [row[d] EXCEPT !.state = "closed", !.closer = s] ELSE row[d]]
        /\ UNCHANGED faults
     \/ Fault /\ UNCHANGED row
  /\ Goto(r, "finish")
  /\ UNCHANGED <<scan, excluded, match, creator, history, edits>>

\* scan_finish has no guard on the status, and nobody looks at its failure.
Finish(r) ==
  /\ At(r, "finish")
  /\ \/ scan' = [scan EXCEPT ![run[r].scan].status = "done"] /\ UNCHANGED faults
     \/ Fault /\ UNCHANGED scan
  /\ EndRun(r)
  /\ UNCHANGED <<rows, creator, history, edits>>

Stop(r) ==
  /\ At(r, "stop")
  /\ \/ scan' = [scan EXCEPT ![run[r].scan].status = "cancelled"] /\ UNCHANGED faults
     \/ Fault /\ UNCHANGED scan
  /\ EndRun(r)
  /\ UNCHANGED <<rows, creator, history, edits>>

\* Mutant: the retry budget is one short.
RetryShort(s, c) ==
  IF c.retries + 1 < MaxRetries
    THEN [scan EXCEPT ![s] = [c EXCEPT !.retries = @ + 1]]
    ELSE [scan EXCEPT ![s].status = "failed"]

\* Retry from checkpoint c, or give up and keep what is stored.
Retry(s, c) ==
  IF c.retries + 1 <= MaxRetries
    THEN [scan EXCEPT ![s] = [c EXCEPT !.retries = @ + 1]]
    ELSE [scan EXCEPT ![s].status = "failed"]

\* The error path of run_scan.  When its reads fail the checkpoint starts over;
\* when its write fails nothing is stored.
HandleError(r) ==
  LET s == run[r].scan
      wiped == [scan[s] EXCEPT !.done = {}, !.phase = 0, !.cursor = 0, !.retries = 0] IN
  /\ At(r, "error")
  /\ \/ scan' = Retry(s, scan[s]) /\ UNCHANGED faults
     \/ Fault /\ scan' = Retry(s, wiped)
     \/ Fault /\ UNCHANGED scan
  /\ losses' = [losses EXCEPT ![s] = @ + 1]
  /\ EndRun(r)
  /\ UNCHANGED <<rows, creator, judged, found, late, edits>>

\* The backend dies and comes back with its runner idle.
Crash(r) ==
  /\ ~At(r, "idle")
  /\ Fault
  /\ EndRun(r)
  /\ UNCHANGED <<scan, rows, creator, history, edits>>

-----------------------------------------------------------------------------
(* Meanwhile: documents change, candidates are decided, a policy commits *)

Change(d) ==
  /\ Edit
  /\ \E m \in (SUBSET Detectors) \ {match[d]} : match' = [match EXCEPT ![d] = m]
  /\ UNCHANGED <<scan, row, excluded, run, creator, history, faults>>

Stage(d) ==
  /\ Edit
  /\ row[d].state = "candidate"
  /\ row' = [row EXCEPT ![d].state = "staged"]
  /\ UNCHANGED <<scan, excluded, match, run, creator, history, faults>>

Dismiss(d) ==
  /\ Edit
  /\ Open(d)
  /\ row' = [row EXCEPT ![d].state = "closed"]
  /\ excluded' \in {excluded, excluded \cup {d}}
  /\ UNCHANGED <<scan, match, run, creator, history, faults>>

\* A committed policy opens a row, or adds its reason and leaves the stamp.
Commit(d) ==
  /\ Edit
  /\ d \notin excluded /\ row[d].state # "staged"
  /\ row' = [row EXCEPT ![d] =
       IF Open(d) THEN [row[d] EXCEPT !.reasons = @ \cup {Foreign}]
       ELSE [NoRow EXCEPT !.n = row[d].n + 1, !.state = "candidate", !.reasons = {Foreign}]]
  /\ UNCHANGED <<scan, excluded, match, run, creator, history, faults>>

-----------------------------------------------------------------------------

RunnerStep(r) ==
  \/ Poll(r) \/ Mark(r) \/ Load(r)
  \/ ReadPage(r) \/ EndPhase(r) \/ WritePage(r) \/ SavePage(r) \/ SaveLast(r)
  \/ Close(r) \/ Finish(r) \/ Stop(r) \/ HandleError(r)

Others ==
  \/ \E o \in Operators : CheckSlot(o) \/ Insert(o)
  \/ \E s \in Scans : Cancel(s)
  \/ \E r \in Runners : Crash(r)
  \/ \E d \in Docs : Change(d) \/ Stage(d) \/ Dismiss(d) \/ Commit(d)

Next == (\E r \in Runners : RunnerStep(r)) \/ Others

Spec == Init /\ [][Next]_vars

\* The runner is a loop of the backend: it polls every five seconds, and nothing
\* in it waits for anything but the database.
FairSpec == Spec /\ \A r \in Runners : WF_vars(RunnerStep(r))

-----------------------------------------------------------------------------
(* Properties *)

\* Every variable holds what its columns or its fields can hold.
TypeOK ==
  /\ scan \in [Scans -> Scan]
  /\ row \in [Docs -> Row]
  /\ excluded \subseteq Docs
  /\ match \in [Docs -> SUBSET Detectors]
  /\ run \in [Runners -> Run]
  /\ creator \in [Operators -> {"idle", "checked"}]
  /\ judged \in [Scans -> [Phases -> SUBSET Docs]]
  /\ found \in [Scans -> SUBSET Docs]
  /\ late \in [Scans -> Nat]
  /\ losses \in [Scans -> Nat]
  /\ edits \in 0 .. MaxEdits
  /\ faults \in 0 .. MaxFaults

\* What lies behind a checkpoint has been examined and its candidates are written.
Backed(s, done, phase, cursor) ==
  /\ \A p \in done : scan[s].scope \subseteq judged[s][p]
  /\ phase # 0 => {d \in scan[s].scope : d <= cursor} \subseteq judged[s][phase]

\* A stored checkpoint is never ahead of the stored candidates: whatever fails
\* and whoever resumes, no page is skipped (the order of upsert_candidates and
\* scan_checkpoint in every phase of execute).
CheckpointBacked ==
  \A s \in Scans : Backed(s, scan[s].done, scan[s].phase, scan[s].cursor)

\* A scan that says done has examined its whole scope in every phase its
\* detectors need, over any number of failures and restarts.
DoneIsComplete ==
  \A s \in Scans : scan[s].status = "done" =>
    \A p \in Wanted(s) : scan[s].scope \subseteq judged[s][p]

\* A scan never closes, as no longer matching, a document it has flagged itself,
\* before or after a resume (the scan id close_stale_candidates goes by).
FlaggedSurvives ==
  \A d \in Docs : row[d].closer # 0 => d \notin found[row[d].closer]

\* A scan fails only when more than MAX_SCAN_RETRIES of its runs failed with no
\* page saved in between: failures spread over a long scan do not add up.
FailedOnlyAfterRetries ==
  [][\A s \in Scans : scan'[s].status = "failed" /\ scan[s].status # "failed"
       => losses'[s] > MaxRetries]_vars

\* While a scan is marked cancelled, a runner writes at most the page it is on.
CancelBounded == \A s \in Scans : late[s] <= Cardinality(Runners \ Older)

\* Every scan comes to an end, so that the slot is free again: a crash or a
\* failure never leaves one that no runner takes up.
ScanEnds == \A s \in Scans : Active(s) ~> ~Active(s)

=============================================================================
