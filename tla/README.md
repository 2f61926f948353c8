# OVIS: TLA+ models of staged deletion, scans, lists and the full-screen client

OVIS is a browser and pruning tool over the documents of an Onyx installation.
Reading is most of its code; what is hard in it is **deletion**: documents are
flagged by scans and policies, hidden and staged by people, deleted by a
background reaper when a grace period ends, kept in a trash, and restored, while
Onyx's own crawlers, other requests, a second backend instance and crashes go on
around it. Postgres gives atomic statements, the search index is a second store
with no shared transaction, and every handler is a sequence of statements and
HTTP calls. These modules model those sequences, and two places where the reading
side is hard: keyset paging over rows that change, and the asynchronous client in
the terminal.

## Inventory

| part | source | state | operations | module |
|---|---|---|---|---|
| pruning lifecycle | `services/prune.rs`, `db/prune.rs` | `ovis.prune_candidate` (state, prev_hidden, stage_expires_at, remember), `ovis.prune_exclusions`, the hidden flag of `public.document` | stage, restore, dismiss, schedule_delete, exclusions; the compare-and-swap statements they share | `PruneLifecycle` |
| reaper | `services/prune_reaper.rs` | rows in state `deleting`; locals of a cycle (budget, busy pairs, skipped rows) | recover, re-stage re-crawled, claim, capture, trash and cascade, mark, unclaim, purge | `PruneLifecycle`, `ReaperCycle`, `TrashStore` |
| trash | `db/trash.rs`, `services/trash.rs` | `ovis.trash_document`, `ovis.pending_index_restores` | capture, trash_and_delete, restore, hold, purge, expiry | `TrashStore` |
| deletion and index debt | `db/documents.rs`, `db/pending_deletes.rs`, `services/pages.rs`, the drain in `lib.rs` | `public.document`, chunks in the index, `ovis.pending_index_deletes` | cascade, chunk delete, enqueue, drain | `TrashStore` |
| scan runner | `services/prune_scan.rs` | `ovis.prune_scan` (state, checkpoint, attempts), candidate rows and their reasons | create, poll, mark, load, walk, write, checkpoint, close stale, finish, cancel, retry | `PruneScan` |
| duplicate groups and keepers | `services/prune_scan.rs` (group phases), `db/profile.rs` | `ovis.doc_dup_group`, `max_jaccard` of a profile | select_keeper, set_dup_groups, record pair, flag | `DuplicateKeepers` |
| policy commit | `services/prune_triage.rs`, `db/profile.rs` | candidate rows | simulate, documents_in_band, flag page by page | `DuplicateKeepers` |
| lists and cursors | `cursor.rs`, `db/documents.rs`, `services/pages.rs`, `routes/stream.rs` | none on the server; a walk's position at the client | page by cursor, page by number, stream | `PageWalk` |
| full-screen client | `ovis-cli/src/tui` | the pages screen, the overlay, two bounded channels | keys, debounces, the data worker's requests, applying answers | `Tui` |
| triage by a judge | `services/prune_triage.rs` | verdicts on candidates | judge, apply | none |
| detectors | `ovis-prune` | none | quality, url keys, MinHash | data of the scan modules |
| Onyx client, search, embeddings, connectors | `onyx/client.rs`, `search/*`, `services/connectors.rs` | none | calls | none |
| LLM endpoints and narration | `ovis-llm`, `services/llm.rs`, `services/narrate.rs` | providers, models, roles, annotations | discover, probe, assign, narrate | none |
| process state, caches, tasks | `state.rs`, `lib.rs`, `config.rs` | configuration, caches | spawn, refresh, invalidate | none |
| HTTP surface, statistics, other commands, bench, web UI | `routes/*`, `db/stats.rs`, `ovis-cli`, `ovis-bench`, `ui` | none of their own, but for the UI's query cache | translate, read, render | none |

How they meet: requests and the reaper share candidate rows and meet only
through `UPDATE ... WHERE state = ...`; scans and policy commits insert rows under
a partial unique index (one open row per document) and update them by id; hiding
goes through Onyx's HTTP API, outside any transaction; the reaper, restore and
`DELETE /pages/{id}` change `public.document` in a transaction and the chunks
after it; what fails there waits in a queue that a task drains every minute. Two
backend instances share the database during an upgrade. A handler may be dropped
at any await by the timeout layer or by a client that hangs up. The terminal
client is two tasks, an event loop and a data worker, joined by two channels of 64.

What makes each part correct:

- lifecycle: a staged document is hidden; restore gives back the owner's flag;
  at most one open row per document; dismissed and restored rows are not deleted.
- reaper: one claim, one deletion; nothing before its deadline; a due row is
  resolved in the end; a budget per hour; a crash neither loses a row nor
  deletes twice.
- trash: what the reaper took is restorable until restored or purged.
- index debt: chunks of a document that is gone are on a list and leave the index.
- scan runner: no page skipped and none counted that was not written; a done
  scan has seen its scope; a candidate it found is not closed by itself; a
  cancelled one stops; every scan ends.
- duplicates: of every content, a copy stays.
- lists: a document that nobody changed is given once, and given at all.
- client: the list answers the query on display; only what the modal named is
  deleted; nothing waits for ever.

`PROJECT.json` lists the hazards, each at its line.

## Modules

| module | what it is |
|---|---|
| `WaitingRoom` | abstract specification of one document's life under pruning: live, waiting, reaped, removed; grace elapsed; snapshot saved. What `docs/pruning.md` promises, as the code keeps it |
| `PruneLifecycle` | candidate rows, hidden flags, exclusions, the trash as one flag; operators, reapers and scanners statement by statement. Implements `WaitingRoom` |
| `ReaperCycle` | which rows a cycle takes up, in which order and how many: recovery, index check, budget, busy pairs, batches, skipped rows |
| `TrashStore` | where content is: rows, chunks, snapshot and both queues through delete, restore, purge, drain and recovery. Implements `Vault` |
| `Vault` | abstract specification of one document's content: in the library, kept by the trash, owed, asked for by a restore. What `db/trash.rs` says of itself in its head, as the code keeps it |
| `PruneScan` | a scan row, its runners, the walk of the phases, the candidate writes, the closing of stale candidates, retries and cancellation |
| `DuplicateKeepers` | recorded groups and pairs, the keepers chosen for them, a committed band, and what the lifecycle then deletes |
| `PageWalk` | the seven sorts, the keyset predicates, pages by cursor and by number, streams, over rows that change |
| `Tui` | the pages screen, its debounces, the two channels and the data worker |
| `OrderLemmas` | lemmas about least and greatest elements and the first n of a finite set of integers |
| `*Proofs` | theorems about the module of that name |
| `MC*` | model values, tables and symmetry for TLC |

`PruneLifecycle`, `ReaperCycle` and `TrashStore` overlap in the reaper and each
abstracts the others: `PruneLifecycle` takes a snapshot as the flag it restores
and `RestoreFromTrash` as one step; `TrashStore` takes a candidate row as `none`,
`due` or `deleting`; `ReaperCycle` takes one row's recovery as one step (the look
at the document and the update; `PruneLifecycle` has them apart). `PruneScan`
takes a decision on a row, a deletion and a policy commit as one step each, and
`DuplicateKeepers` takes the lifecycle as stage, reap, keep, restore and arrive.
They share no variables and are not composed: the product is beyond TLC and the
interface is those few facts.

**State and actions.** Every statement, transaction or HTTP call is one action; a
handler is a program counter with the values it has read (`op[a]`, `cycle[r]`,
`run[r]`, `scan[s]`, `walk`), so a value read before an await is used as it was
read. The action names are those of the functions where that reads well
(`MarkStaged` is `mark_staged`, `ClaimForDeletion` is `claim_for_deletion`,
`TrashAndDelete` is `trash_and_delete`); `map` in `PROJECT.json` gives the lines
of every definition. `Abort(a)` and `Crash(r)` are the process dying, the handler
being dropped or a `?` leaving it; `Fault` counts those and failed calls. Errors
the code discards (`let _ =`, `.ok()`) are disjuncts that change nothing and go on.

What data becomes:

- a document in `PruneScan` is its place in the keyset order, in
  `DuplicateKeepers` its rank under `select_keeper` (preference, then id), in
  `PageWalk` the value of its row in the column of the sort, with its number as id;
- what a detector says of a text is the variable `match` of `PruneScan`, which
  may change between pages; keys, similarities and connectors of
  `DuplicateKeepers` are constants, so a document does not change its content there;
- a query of `Tui` is filter, sort, mode and scope in one value, and the server
  answers it with the documents it matches; the other screens are the commands
  they put on the channel. The periodic refresh of the activity screen and the
  debounce of the connectors' detail (`mod.rs:245-259`) are left out: they put
  commands on the channel as keys of those screens do;
- in `PruneLifecycle` the look at a re-crawled document before it is staged again
  (`prune_reaper.rs:623`) is not a read of its own: for a document that vanishes there
  the model may insert a row where the code goes on to the next, which adds behaviours
  and removes none;
- events of `Tui` carry the query they answer for the history variable `shown`
  only: the code's events do not, and no action reads it.

Definitions with a comment that begins "Mutant:" are not used by the
specifications: each is the form a plausible bug would give the definition below
it, and shows that the property named with it in `PROJECT.json` would notice.

## Runs

| run | specification and bounds | states | what it shows |
|---|---|---|---|
| `lifecycle_serial` | one operator, two reapers, a scanner; one document, three rows, no faults | 183,042 | staged documents are hidden; restore puts the owner's flag back |
| `lifecycle_concurrent` | one operator, reaper, scanner; two rows; one re-crawl, `remember` set; one fault | 1,347,273 | the claim is exclusive; nothing is reaped outside its waiting room or before its deadline; every step is a step of `WaitingRoom` or a stutter |
| `lifecycle_live` | one operator, reaper, scanner; two rows; grace of zero days, owners patch the flag; one fault; `FairSpec` | 67,767 | a due row is deleted or restored in the end; with a grace of zero, too, every step is a step of `WaitingRoom` |
| `reaper_cycle` | three rows, batch of two, ceiling of one; the oldest document can never be captured, the second has a cc-pair that indexes now and then; two faults, `FairSpec` | 115,496 | a fault costs the ceiling one document at most; rows tell the truth; fewer blocked rows than a batch do not starve the rows behind them |
| `trash_safety` | two requests, reaper, drain; two contents of a document; two faults; any handler may be dropped; enqueue may fail | 510,188 | no third state where content is lost; every step is a step of `Vault` or a stutter |
| `trash_debt` | one request, reaper, drain; two contents; two faults; `FairSpec` | 35,562 | orphan chunks are queued or found by recovery, and leave the index |
| `scan_runner` | one scan, two instances of which one cannot read its configuration; three documents, two phases, pages of two; two faults, one retry, one edit by others; `FairSpec` | 254,087 | no page is skipped, done is complete, a flagged document is not closed, a cancelled scan stops after a page, failures do not add up, every scan ends |
| `duplicates` | four documents, hash and URL groups and a similar pair, two scans of overlapping scopes, a commit of the two group signals, one edit | 1,775,212 | of every content a copy stays |
| `page_walk` | four rows, two keys and NULL, all sorts, all kinds of walk, two edits, one lost answer | 2,046,533 | each untouched document once, and none left out |
| `tui_list` | two documents, two queries, three keys, one failed request; channels of 8; `FairSpec` | 1,330,869 | the list answers the query on display, only named documents are deleted, paging does not get stuck |
| `both_copies_committed` | two similar documents, a policy on near-duplicates | violation | the commit flags both sides of a pair, the reaper deletes both |
| `tui_frozen` | channels of 2, six keys | violation | event loop and worker wait for each other |

**Why these bounds.** Rows and chunks of different documents never meet in a
statement that matters to the lifecycle, so one document carries the
interleavings there. Two rows are what a document needs for an old row and its
successor (the unique index forbids two open ones); the serial run has three. In
`ReaperCycle` three rows are one more than a batch and two more than the hourly
budget, so a cycle ends with rows left, both rows ahead of the third may be blocked
(a whole batch), and the trailing hour is a set from which rows drop one by one. Two
contents distinguish what was captured from what was deleted; two faults allow a crash and a failure in its recovery. In `PruneScan`
three documents are a full page and a short one, two phases let a checkpoint
stand inside and between phases, one retry and two faults reach the end of the
retry budget. In `DuplicateKeepers` four documents are the least in which the
keeper of one group (3, of the URL group) is spare in another (the hash group of
1, 2 and 3) and a pair reaches across; two scopes let a second scan overwrite some
rows of a group. In `PageWalk` four rows over two keys and NULL always tie
somewhere, a page of one gives three resumptions, two edits move a row across a
cursor and back. In `Tui` three keys are a change of query, another during its
answer, and a key on the result. `MaxFaults`, `MaxCrawls`, `MaxEdits`, `MaxScans`,
`MaxKeys`, `Ids`, `MaxRow`, `MaxScan`, `MaxDoc` and `MaxVersion` bound, in guards
or in the sets themselves, what the real system numbers without end.

`CHECK_DEADLOCK FALSE` in every configuration: a system where every row is
closed, the trash empty, the scan done, the user gone and the bounds spent has
nothing to do, and that is a state the real one may rest in.

**Restrictions of the passing runs**, each there because the code fails without
it (see Deviations), none of them hidden in a guard without a name:

- one reaper (one backend instance) in `lifecycle_concurrent`, `lifecycle_live` and
  `reaper_cycle`; `lifecycle_serial` has two, since no claim is left behind there;
- `DeferredIsResolved` speaks of a row with fewer than `BatchSize` rows ahead of it
  that stay blocked (never captured, or of a cc-pair that indexes again and again).
  With a whole batch of them the code starves the rows behind for ever: without
  this premise TLC violates the property in the same run (row 1 is never captured,
  row 2's pair is always busy, row 3 is never looked at);
- one operator, in `lifecycle_serial` no faults: with a second one, or a dropped
  handler, `StagedIsHidden` and `RestoreExact` fail; with two operators the other
  lifecycle properties still hold, in more states than a run should take;
- in `PruneLifecycle` a claim ages past `STUCK_AFTER_MINUTES` only when no live
  reaper works on it (`ClaimAges`; also `ReaperCycle` and `TrashStore`'s
  `Recover`): one deletion takes less than ten minutes. The constant in the code
  rests on the same;
- `TrashStore`'s constant `Troubles` names what the run allows. `trash_safety`
  has `drain` and `enqueue`; `restore` (of a document whose row is due or
  claimed), `due` (a deadline that passes inside a restore) and `crawl` (Onyx
  indexing a document a flow works on) each break `NoThirdState`, and `VaultSpec`
  with it. `trash_debt`
  has none, and requests are not dropped in it;
- one scan and one instance that can run it: two instances of one build may run
  the same scan;
- `duplicates` commits no near-duplicate signal: `both_copies_committed` does;
- `ListMatchesQuery` speaks of a list whose request succeeded, was made at all
  (an empty search asks for nothing) and was not mixed with a next page of another
  list; `tui_list`'s channels are larger than three keys can fill. `LoadingEnds` speaks of
  behaviours in which no request for a list fails. `NoRowTwice`
  and `WalkComplete` speak of numbered walks only when nothing changed: offsets
  shift, and the code promises nothing else.

**Fairness.** Weak fairness of a handler's steps: the runtime polls what it has
accepted. Strong fairness of the reaper's picks (`ListDue`, `ListStuck`,
`FindRecrawled`): its timer fires for ever and each cycle reads all of them, but
a row may leave and re-enter the list between two looks. Weak fairness of time
(`GraceElapses`, `ClaimAges`, `HourPasses`, `BecomesDue`). `CheckIndex` is
strongly fair in its success: an index that can never be written halts the reaper
for ever, by design. Weak fairness of `ListPending` and `Recover`: `drain` takes
the oldest entries of each pass. Weak fairness of a scan runner: a loop that polls
every five seconds and waits for the database alone. Weak fairness of both tasks
of the client and of its deadlines: `select!` is fair between ready branches,
requests have timeouts. Operators, scanners, owners, crawlers, requesters of
scans and the user's keys owe nothing.

## Proofs

Checked by TLAPS for every value of the constants that satisfies the module's
`ConstantsOK`, so for any number of documents, rows, actors, faults and edits.
Further assumptions are named in the theorem.

| theorem | says | assuming |
|---|---|---|
| `PruneLifecycleProofs!TypeCorrect` | `[]TypeOK` | |
| `PruneLifecycleProofs!ClaimIsExclusive` | `[]ClaimHeld` | `OneReaper` |
| `PruneLifecycleProofs!NothingReapedEarly` | `ReapedOnlyWhenDue` | `OneReaper` |
| `PruneLifecycleProofs!ImplementsWaitingRoom` | `WaitingRoomSpec` | `OneReaper` |
| `PruneLifecycleProofs!ReapedComesBack` | `[]ReapedIsSaved` (stated in the proof module) | `OneReaper` |
| `PruneLifecycleProofs!StagedStaysHidden` | `[]StagedIsHidden` | `Undisturbed` |
| `PruneLifecycleProofs!RestoreGivesBack` | `RestoreExact` | `Undisturbed` |
| `PruneLifecycleProofs!ManyReapersClaim` | `[]ClaimHeld` | `Undisturbed` |
| `ReaperCycleProofs!CycleTyped` | `[]TypeOK` | |
| `ReaperCycleProofs!TruthIsTold` | `[]RowsTellTheTruth` | `OneReaper` |
| `ReaperCycleProofs!CeilingHolds` | `[]OvershootBounded` | `OneReaper` |
| `TrashStoreProofs!TrashTyped` | `[]TypeOK` | |
| `TrashStoreProofs!NothingIsLost` | `[]NoThirdState` | `Calm` |
| `TrashStoreProofs!ImplementsVault` | `VaultSpec` | `Calm` |
| `TrashStoreProofs!NoOrphanUnseen` | `[]OrphansAreQueued` | `Orderly` |
| `PruneScanProofs!ScanTyped` | `[]TypeOK` | |
| `PruneScanProofs!NoPageSkipped` | `[]CheckpointBacked` | |
| `PruneScanProofs!DoneMeansComplete` | `[]DoneIsComplete` | |
| `PruneScanProofs!FailuresDoNotAddUp` | `FailedOnlyAfterRetries` | |
| `PruneScanProofs!FlagsSurvive` | `[]FlaggedSurvives` | `OneRunner`, `Label[Foreign] \notin Detectors` |
| `PruneScanProofs!CancelHolds` | `[]CancelBounded` | `OneRunner` |
| `DuplicateKeepersProofs!DuplicatesTyped` | `[]TypeOK` | |
| `DuplicateKeepersProofs!GroupsShowAKeeper` | `[]ClusterHasKeeper` | |
| `DuplicateKeepersProofs!SparesAreSpare` | `[]SpareHasABetter` | `NearSignal \notin AutoBand` |
| `DuplicateKeepersProofs!ACopyStays` | `LastCopyKept` | `NearSignal \notin AutoBand` |
| `PageWalkProofs!WalkTyped` | `[]TypeOK` | |
| `PageWalkProofs!NoDocumentTwice` | `[]NoRowTwice` | |
| `PageWalkProofs!NothingLeftOut` | `[]WalkComplete` | |
| `TuiProofs!ClientTyped` | `[]TypeOK` | |
| `TuiProofs!TheListIsTheQuery` | `[]ListMatchesQuery` | |
| `TuiProofs!OnlyTheNamedGo` | `[]DeletesAreNamed` | |

None of the properties is inductive as it stands. The strengthenings, and why
they are needed:

- **`PruneLifecycle`**: `TypeOK /\ ClaimInv`. `ClaimHeld` says nothing of the
  values a reaper has read but not acted on, nor why a row in `deleting` is due.
  `ClaimInv` adds `Listed` (a reaper that has listed a row knows its document) and
  `DeletingIsDue` (a row gets to `deleting` through a claim that tested the
  deadline, and no statement withdraws a deadline). `ReapedOnlyWhenDue` follows
  from the invariant in the state before the step: `TrashAndDelete` is the only
  action that sets `last` to `reaped`. For the refinement, `OneOpenRow` (what the
  unique index keeps: a document has at most one open row, so closing a row takes
  its document out of the room) and `GoneSomehow` (a document that is gone was
  reaped or removed) are added. Every step is then a `RowStep` (one row moves, the
  documents stay) or a `DocStep` (one document moves, the rows stay), and each of
  the two is a step of the room or a stutter; `ClaimHeld` is what makes the cascade
  a `Reap` from a room whose grace has elapsed. `ReapedComesBack` uses the refinement:
  that a reaped document has its snapshot is an invariant of `WaitingRoom` alone, a
  few lines over its seven actions, and the lifecycle inherits it.

  `Undisturbed` is one operator whose requests are not dropped, no failed call, no
  re-crawl, no owner who sets the flag meanwhile and no delete with `remember`; any
  number of documents, rows, reapers and scanners. `lifecycle_serial` satisfies it.
  `CalmInv` says what `stage` and `restore` rest on then: the flag an open row has
  saved is the owner's (`RowOK`); a staged document is hidden and not in the trash,
  and one no row waits for is as its owner left it (`DocOK`); a handler that is
  between two of its statements knows which of these is not true yet
  (`OperatorOK`: it hides or shows a document for which, at that moment, no row
  waits); and a row that is `deleting` is in the hands of exactly one reaper
  (`OneClaim`, `ReaperOK`), so recovery finds none to give back and `ClaimHeld`
  needs no `OneReaper`. The hypotheses are needed: dropping the first or the second
  is deviations 1 and 6, an owner changes the flag itself, a re-crawl brings a removed
  document back under its old rows, and `remember` makes the reaper stage by itself
  what was given back from the trash; TLC violates one of the two properties without
  each of them.
- **`ReaperCycle`**: `Shape` says what a cycle has in hand at each program
  counter; `Truth` adds that the row in hand is claimed and young, so that no
  recovery gives it back; `Ceiling` splits the overshoot: cascades that are not
  counted are no more than the faults spent (a reaper that has cascaded and not
  marked has one in hand), and cascades plus what the cycle's budget still allows
  are no more than the ceiling plus the faults. Cardinality facts come from
  `OrderLemmas` and `FiniteSetTheorems`.
- **`TrashStore`**: `Typed` has the ranges and what each program counter carries.
  `Claims` says that whoever reaps a document holds its row alone, a restore works
  on a document without a row, a reaper about to commit has captured the content
  that is there, and a restore past its commit has nothing left to lose. Those are
  what `Calm` (no crawl, no deadline, no restore of a due row inside a flow) buys;
  `trash_safety` satisfies it. On `Claims` and `NoThirdState` stands the refinement:
  `Vault` takes content away and keeps it in one step, where the code captures, then
  deletes in a second one; it retires a copy only when nothing is owed, where the code
  stamps whatever snapshot is there two statements after the restore's commit. Each
  action of an actor moves one document of the vault or none (`OneMoves`); what
  restores have read and not yet given back is `Asked`, so a restore that outlives a
  purge may still give back what it read. `OrphansOwed` needs `Turns` besides (who may work on
  a document at the same time as the drain, and that the drain removes an entry
  only after the chunks are gone); those hold under `Orderly` (one operator whose
  requests are not dropped, no trouble), which `trash_debt` satisfies.
- **`PruneScan`**: `IInv`. `RunsOK` is `CheckpointBacked` for what a runner has in
  memory: its page is the next one after its cursor, what is behind is written, and
  a runner that is finishing has nothing left. `RetriesCounted` ties the stored
  count to the failed runs. It needs no assumption on the number of runners: two
  instances that run one scan repeat pages but skip none. The other two theorems
  assume one instance that can run the scans (others may be too old to read them).
  `Ordered` says that scans begin in the order they were created, each when all
  before it are over; so the run at work is the `Latest` to have flagged or stamped
  anything. On that, `Marked` gives `FlaggedSurvives`: a flagged candidate carries the
  stamp of that scan or a later one, or a policy's reason, which keeps it open; an
  open row was closed by no scan; and what a runner has looked up and not yet
  written (`HitOK`) is of rows no scan has closed since. It needs that the name a
  policy's reasons carry (`"policy"`, `prune_triage.rs:608`) is no detector's.
  `LateOK` gives `CancelBounded`: a runner on a scan that has had its late page is
  neither on a page of it nor about to load it.
- **`DuplicateKeepers`**: `Base` (types, `ClusterHasKeeper`, and `ScansOK`: the
  members a scan has read are a group or a pair of one content), then
  `SpareHasABetter` on it. That one is the argument of the module: the rank order
  is one order for all groups, so "has a better copy that is there" is kept when
  the better copy is itself deleted, since it was deleted as a spare of a still
  better one. `NearSignal \notin AutoBand` is about constants; it is written under
  `[]` because a temporal proof takes it as such.
- **`PageWalk`**: `WalkInv` adds `GivenSoFar` (what was given and not changed is
  exactly what is not after the cursor) and `PageUnderWay` (the same for the page
  on its way), over lemmas that `Before` is a strict total order of positions for
  each of the seven sorts, that `After` is its converse with the null tail said
  twice, and that the first n of a set are lower-closed.
- **`Tui`**: for `DeletesAreNamed`, every delete in the loop's hands, on the command
  channel or with the worker was named by a modal that was confirmed. For
  `ListMatchesQuery`, `ListInv` follows the requests from the handler through the
  command channel, the worker and the event channel: the newest request for a first
  page asks with the query on display (`NewestIs`), unless a reload is still owed
  (`Dirty`: a debounce, an open input line, a search without text); while nothing is
  `mixed`, no next page is asked for behind a first page (`InTurn`); and when no first
  page is under way the list is the answer, and belongs to the list view if it has a
  next page or one is on its way. Sending, taking, answering and delivering do not
  change what is under way nor its order (`Passes`); a handler adds behind it
  (`QuietHandler`, `ReloadHandler`, `NextPageHandler`); `Apply` takes from the front.
  That is where the argument would break if the worker ran two requests at once, or
  events overtook each other.

Only model-checked: all liveness (`DueIsResolved`, `DeferredIsResolved`,
`OrphansAreCleared`, `ScanEnds`, `LoadingEnds`): fairness and `ENABLED` are out of
the prover's reach. Every safety invariant and every action property of the passing
runs is proved.

## Deviations

What the code does otherwise than its documentation or comments say, or than a
reader would expect. Two have a run that finds them (`both_copies_committed`,
`tui_frozen`). The others were met while modelling; where a change of
configuration or a property shows one, it is in brackets.

Lifecycle, reaper and trash:

1. `services/prune.rs:670` `restore` closes the row before it un-hides; a row
   that is opened and staged in between is then shown [`StagedIsHidden` with two
   operators]. `docs/pruning.md:37-38`: a staged document serves no search results.
2. `prune_reaper.rs:182` `recover_stuck_deleting` looks, then updates by state
   only; with two instances a row is given back while the other deletes
   [`ReapedOnlyWhenDue` with two reapers]. Lines 12–13 say "never be
   cascade-deleted twice, by state, not by hope".
3. `db/trash.rs:480` the cascade does not compare the document with what was
   captured: an overwrite-restore that commits in between is lost; line 187 of the
   reaper takes a document restored after a crash for one that was never deleted,
   and it is deleted again [`NoThirdState` with `restore`]. `trash.rs:10-13`:
   "There is no third state".
4. `db/trash.rs:653` no task reads `ovis.pending_index_restores`, which lines 69–70
   call "retried by a drain task": the chunks of a failed restore stay missing.
5. `db/trash.rs:644` restore writes chunks without another look at the document;
   a delete in between leaves chunks nobody has on a list [`OrphansAreQueued` with
   two operators].
6. `services/prune.rs:531` `stage_one` reads `hidden` in one statement and uses
   it two calls later: a second stage, or a retry after a dropped one, saves
   `hidden = true` as the owner's flag [`RestoreExact` with two operators, or one
   fault].
7. `services/prune.rs:693` the reopening of a row after a failed un-hide may be
   refused by the unique index, and the error is dropped: the row stays
   restored, its document hidden [after `Reopen` the row is `staged`].
8. `db/prune.rs:762` a scan that has read the exclusion list flags a document
   that was dismissed for ever meanwhile [no `ScanInserts` for a `user_excluded`
   document].
9. `prune_reaper.rs:410` `remember` set on a row that the reaper has listed is
   acknowledged and not kept [a row deleted with `remember` leads to `rp_excl`].
10. `db/prune.rs:1213` a remembered document that a person took out of the trash
    is staged again as if the crawler had brought it back [`FindRecrawled` only
    when `last` is `crawled`].
11. `prune_reaper.rs:616` a re-stage that fails after its insert leaves an open
    row nobody stages [a remembered document that exists is staged in the end].
12. `db/prune.rs:1085` the hourly ceiling counts rows, not cascades: a crash
    before `mark_deleted` allows one more (`OvershootBounded` is what holds;
    `docs/pruning.md:287` calls the ceiling hard).
13. `prune_reaper.rs:345` a batch in which every row was deferred or failed ends
    the cycle, whatever is behind it. The comment on line 346, "everything left is
    deferred or failing", is true of that batch only: once its rows stay blocked, no
    row behind them is deleted [`DeferredIsResolved` without its premise].
14. `prune_reaper.rs:285` busy cc-pairs are read once a cycle [no claim while the
    pair is in `busy`].
15. `prune_reaper.rs:523` a re-crawl between capture and commit: the snapshot has
    the old content [`NoThirdState` with `crawl`].
16. `db/trash.rs:658` the restore's last statement stamps whatever snapshot is
    there by then [`NoThirdState` with `due`].
17. `db/documents.rs:804` a delete dropped between its commit and the chunk
    delete has queued nothing [`OrphansAreQueued`, an operator in `Abortable`];
    `db/documents.rs:812` ignores a failed enqueue [`OrphansAreQueued` with
    `enqueue`].
18. `db/pending_deletes.rs:107` the drain does not look whether the document has
    come back; line 109 removes an entry that was queued again while it worked
    [`OrphansAreQueued` with `drain`].
19. `db/trash.rs:869` a purge deletes by id what it selected before; a hold set in
    between is lost [`Purge` never drops a held snapshot].
20. `db/trash.rs:644` an overwrite-restore leaves chunks of the replaced content
    whose ids it does not write [chunks of a document at rest are its content's].

Scans:

21. `prune_scan.rs:207` a scan cancelled after its last page is overwritten with
    `done` or `failed`: `scan_finish` has no guard, and the status that the last
    checkpoint returns is dropped [a cancelled scan stays cancelled].
22. `create_scan` looks for an active scan and then inserts; two requests make two
    active ones. `db/prune.rs:1439` `scan_mark_running` takes a scan that is running
    already, so two instances of one build may run the same scan.
23. The error path of `run_scan` stores an empty checkpoint and statistics when its
    reads fail; lines 269–270 say a failure never wipes them. `examined` goes
    backwards when a page is repeated.
24. When a document's text cannot be read the walk goes on without it, and the
    candidate its text once gave is closed as no longer matching.
25. `close_stale_candidates` compares the detectors requested with the names in the
    reasons. A scan for `url_junk` closes rows of `url_variant`, whose reasons carry
    that name; a row with the reason `duplicate` is never covered, and one reason
    written by a policy pins it open. `docs/pruning.md:102-103` says resolved
    candidates close. It asks for the candidate's own connector, where the scan's
    scope takes any connector of a document. Merged reasons that no longer match stay.
26. `minhash_upsert` is three statements without a transaction, and two instances
    with different settings reset each other's bands.

Duplicates and policies:

27. `prune_scan.rs:1398` both sides of a similar pair are recorded, the keeper of a
    pair is not: a committed band on near-duplicates takes both
    (`both_copies_committed`).
28. `doc_dup_group` rows are never removed: a keeper that was deleted or changed
    since, or a `prefer_keep` that changed between scans, leaves rows that say
    otherwise; `max_jaccard` is never lowered. The theorems rest on contents and
    preferences that do not change. Near-duplicates are pairs: of a chain each link
    loses its weaker side.
29. A scan with a narrow scope records its groups as within one connector and
    overwrites a wider one's rows; a pair whose row is missing passes the
    cross-connector guard; members with no connector count as spanning.
30. `commit` checks `confirm_count` once, before it flags page by page. It then saves
    and activates the policy in two statements; activating a name that was deleted
    meanwhile leaves no active policy, and the result is ignored.

Lists:

31. The deepest numbered page passes `validate_page_depth` and is refused by
    `list_documents`, which counts the extra row (`TooDeep`). The command line uses
    other bounds.

Full-screen client:

32. `data.rs:111` the loop and the worker each await a send on a channel only the
    other one empties (`tui_frozen`; 64 slots each, filled by a held key that sends
    two commands while the server answers in 50 ms, in about ten seconds).
33. A `Deleted` event removes the rows of the *current* targets, not of the ids that
    were confirmed (`mod.rs:1119` says otherwise). The modal lists only targets that
    are on the list, though marks of an older list are deleted too.
34. A failed page leaves `loading` set (`mod.rs:1177` only shows the message), so the
    spinner stays and the next page is not asked for until a reload [`LoadingEnds`
    without its premise]. A next page asked for behind a filter or sort change gives a mixed list
    or a refused cursor (`mixed`). An empty search asks for nothing and leaves the
    old list (`unasked`). An answer to a list or a search under way flips `source`
    under an open input box. Marks survive reloads.
35. A document's detail is applied without a look at the selection; the detail cache
    is not cleared by a delete; moving away and back inside the debounce shows the
    other row's detail.
36. `open_connector_picker` awaits the network inside the event loop.

Parts that are not modelled, where reading them turned something up:

37. Caches: `state.rs:141-144` says a caller must not be shown numbers from before
    its action; a count begun before an invalidation and stored after it is. Two
    counts may run at once behind the in-flight marker. The overview stores a total
    that was cached already, so staleness adds up to two periods. A handler dropped
    between its commit and the invalidation leaves old numbers for a period.
38. LLM: `handshake.rs:147-148` keeps errors for unreachable endpoints, but a failed
    completion is recorded as a missing capability, so an outage during a re-probe
    overwrites a good measurement. A late discovery with an older listing drops models
    that never vanished. Narration looks at the first `limit` clusters only, and a
    first subject that hangs (provider timeout 120 s, request timeout 30 s) stops every
    run before the others.
39. Web UI: the error handlers of the delete mutations put back a snapshot of all
    cached lists without a refetch, so rows another mutation has deleted meanwhile
    come back until the next one.
40. Connectors: `run_once` looks at the parked flag and `delete` at the confirmed
    name, then act on Onyx. A delete between Onyx's switch of index and the next
    runtime refresh clears the chunks of the old index only.

## Not modelled

- **Detectors** (`ovis-prune`): functions of a text, a URL or counts, without state.
  What they may say is `match`, `KeyOf` and `Near`.
- **Triage by a judge**: an LLM's answers are data; its writes are the lifecycle's.
- **Search, embeddings, statistics, connectors, Onyx client**: query building and
  calls. What they change of documents appears as chunk writes, crawls and busy pairs.
- **LLM endpoints, narration, caches, web UI**: read for hazards (37–40), each a small
  race with a bounded effect; no module yet.
- **Other commands, benchmark, rendering, HTTP routes**: one request each, translated;
  the timeout layer is `Abort`.
- Inside modelled parts: audit rows, reasons' wording, tags, attribution and vectors,
  listing of the trash, `RESTAGE_PER_CYCLE`, metrics, the foreign-key guard of the
  reaper, scan statistics and pacing, thresholds on measured values, filters of a list
  beyond one predicate, counts, the other screens of the client. Cancellation of a
  Postgres transaction inside itself: it commits or does not.

Most of the implementation is text in and text out, which is why the map covers a
small share of its lines: what keeps state across an await is in the modules.

## Plan

Done: `PruneLifecycle`, `WaitingRoom`, `ReaperCycle`, `TrashStore`, `PruneScan`,
`DuplicateKeepers`, `PageWalk`, `Tui`, `Vault`, with a proof module for each but the two
abstract ones. Left, in this order:

1. `PruneScan` with two instances of one build, and the properties that still hold.
2. Caches (`state.rs`): fill against invalidation, and the bound on staleness.
3. Model roles and discovery (`services/llm.rs`).
