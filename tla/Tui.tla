--------------------------------- MODULE Tui ---------------------------------
(***************************************************************************)
(* The pages screen of the full-screen client (ovis-cli/src/tui): the      *)
(* event loop and the data worker are two tasks that exchange commands and *)
(* events over two bounded channels.  The inspector and the other screens  *)
(* are the traffic they cause.                                             *)
(*                                                                         *)
(* A query stands for a filter text with a scope and a sort; the server    *)
(* answers it with the documents it matches, in the order of their numbers.*)
(***************************************************************************)
EXTENDS Naturals, Sequences, FiniteSets

SX == INSTANCE SequencesExt

CONSTANTS
  MaxDoc,     \* documents 1..MaxDoc; 0 is no cursor
  Queries,
  Blank,      \* the queries with an empty filter text
  Match,      \* the documents a query matches
  SortOf,     \* the sort a query asks for
  PageSize,
  Near,       \* rows from the end at which the next page is asked for
  Cap,        \* capacity of either channel
  MaxKeys,    \* bound: keys pressed
  MaxFaults   \* bound: requests that fail

Docs == 1 .. MaxDoc

ASSUME ConstantsOK ==
  /\ MaxDoc \in Nat /\ PageSize \in Nat \ {0} /\ Near \in Nat /\ Cap \in Nat \ {0}
  /\ MaxKeys \in Nat /\ MaxFaults \in Nat
  /\ Queries # {} /\ Blank \subseteq Queries /\ Match \in [Queries -> SUBSET Docs]

VARIABLES
  app,      \* PagesState and the overlay
  out,      \* the commands the handler under way has still to send
  cmds,     \* the command channel
  worker,   \* the data worker
  events,   \* the event channel
  gone,     \* documents the server has deleted
  shown,    \* history: what the first page of the list was asked with
  failed,   \* history: the last answer to a request for a first page was an error
  unasked,  \* history: the last reload asked for nothing (a search with no text)
  mixed,    \* history: a next page was asked for while a first page was under way
  named,    \* history: the targets of the modals that were confirmed
  keys, faults

vars == <<app, out, cmds, worker, events, gone, shown, failed, unasked, mixed, named, keys, faults>>
history == <<shown, failed, unasked, mixed, named>>

Sources == {"list", "search"}
NoQuery == CHOOSE q \in Queries : TRUE

(* Commands and events; what a field does not need is at its default. *)

Other == [t |-> "other", q |-> NoQuery, at |-> 0, sort |-> SortOf[NoQuery], append |-> FALSE, ids |-> {}]
Load(q, at, sort, append) ==
  [Other EXCEPT !.t = "load", !.q = q, !.at = at, !.sort = sort, !.append = append]
Search(q) == [Other EXCEPT !.t = "search", !.q = q]
Action == [Other EXCEPT !.t = "action"]
Delete(ids) == [Other EXCEPT !.t = "delete", !.ids = ids]

\* The events carry no query; it is kept here for the history variables alone.
Event(cmd, t, rows, next) ==
  [t |-> t, q |-> cmd.q, append |-> cmd.append, list |-> cmd.t \in {"load", "search"},
   rows |-> rows, next |-> next, kept |-> {}]

Sorts == {SortOf[q] : q \in Queries}

Commands ==
  {c \in [t : {"load", "search", "action", "delete", "other"}, q : Queries, at : 0 .. MaxDoc,
          sort : Sorts, append : BOOLEAN, ids : SUBSET Docs] :
     c.append => c.t = "load"}

\* A list is answered with a list or an error; what a search finds has no next page.
Events ==
  {e \in [t : {"pages", "hits", "deleted", "done", "other", "failed"}, q : Queries,
          append : BOOLEAN, list : BOOLEAN, rows : Seq(Docs), next : 0 .. MaxDoc,
          kept : SUBSET Docs] :
     /\ e.t \in {"pages", "hits"} => e.list
     /\ e.list => e.t \in {"pages", "hits", "failed"}
     /\ e.t = "hits" => ~e.append /\ e.next = 0}

Apps ==
  [source : Sources, q : Queries, previous : Queries, items : Seq(Docs), sel : Nat,
   next : 0 .. MaxDoc, cursorSort : Sorts, loading : BOOLEAN, marks : SUBSET Docs,
   targets : SUBSET Docs, overlay : {"none", "input", "confirm"}, detailDue : BOOLEAN,
   queryDue : BOOLEAN]

TypeOK ==
  /\ app \in Apps /\ app.sel <= Len(app.items)
  /\ out \in Seq(Commands) /\ Len(out) <= 2
  /\ cmds \in Seq(Commands) /\ Len(cmds) <= Cap
  /\ worker \in [pc : {"idle", "busy", "send"}, cmd : Commands, event : Events]
  /\ events \in Seq(Events) /\ Len(events) <= Cap
  /\ gone \subseteq Docs /\ named \subseteq Docs
  /\ shown \in Sources \X Queries /\ {failed, unasked, mixed} \subseteq BOOLEAN
  /\ keys \in Nat /\ faults \in Nat

Resting == [pc |-> "idle", cmd |-> Other, event |-> Event(Other, "other", <<>>, 0)]

\* reload_pages.
Reload(a) ==
  IF a.source = "list" THEN <<Load(a.q, 0, SortOf[a.q], FALSE)>>
  ELSE IF a.q \in Blank THEN <<>>
  ELSE <<Search(a.q)>>

\* Mutant: a search with no text asks for nothing and waits for the answer.
ReloadingAlways(a) == [a EXCEPT !.loading = TRUE]

Reloading(a) == [a EXCEPT !.loading = Reload(a) # <<>>]

Start == [source |-> "list", q |-> NoQuery, previous |-> NoQuery, items |-> <<>>, sel |-> 0,
          next |-> 0, cursorSort |-> SortOf[NoQuery], loading |-> TRUE, marks |-> {},
          targets |-> {}, overlay |-> "none", detailDue |-> FALSE, queryDue |-> FALSE]

Init ==
  /\ app = Start
  /\ out = <<Other>> \o Reload(Start)
  /\ cmds = <<>> /\ events = <<>> /\ worker = Resting
  /\ gone = {}
  /\ shown = <<"list", NoQuery>> /\ failed = FALSE /\ unasked = FALSE /\ mixed = FALSE /\ named = {}
  /\ keys = MaxKeys /\ faults = MaxFaults

-----------------------------------------------------------------------------
(* The event loop.  A handler that has something left to send is blocked; one *)
(* iteration of the loop takes a key, an event or a deadline.                 *)

Send ==
  /\ out # <<>> /\ Len(cmds) < Cap
  /\ cmds' = Append(cmds, Head(out))
  /\ out' = Tail(out)
  /\ UNCHANGED <<app, worker, events, gone, history, keys, faults>>

\* A first page asked for and not yet applied.
First(c) == c.t = "search" \/ (c.t = "load" /\ ~c.append)
FirstUnderWay ==
  \/ \E i \in DOMAIN cmds : First(cmds[i])
  \/ worker.pc = "busy" /\ First(worker.cmd)
  \/ worker.pc = "send" /\ worker.event.list /\ ~worker.event.append
  \/ \E i \in DOMAIN events : events[i].list /\ ~events[i].append

Does(a, commands) ==
  /\ app' = a
  /\ out' = commands
  /\ UNCHANGED <<cmds, worker, events, gone, shown, failed>>

\* A handler that ends in reload_pages.
Reloads(a) == Does(Reloading(a), Reload(a)) /\ unasked' = (Reload(a) = <<>>)

Key(overlay) ==
  /\ out = <<>> /\ app.overlay = overlay
  /\ keys > 0 /\ keys' = keys - 1
  /\ UNCHANGED <<faults>>

Plain == UNCHANGED <<unasked, mixed, named>>
NothingNamed == UNCHANGED <<mixed, named>>

\* move_cursor, jump and after_selection_moved.
NextPageDue(a) == a.sel + Near >= Len(a.items) /\ ~a.loading /\ a.next # 0

\* The inspector follows, unless it shows that row already.
Moved(from, i) ==
  \E due \in {from.detailDue, TRUE} :
    LET a == [from EXCEPT !.sel = i, !.detailDue = due] IN
    IF NextPageDue(a)
    THEN /\ Does([a EXCEPT !.loading = TRUE], <<Load(a.q, a.next, a.cursorSort, TRUE)>>)
         /\ mixed' = (mixed \/ FirstUnderWay)
    ELSE Does(a, <<>>) /\ UNCHANGED mixed

Move == /\ Key("none") /\ \E i \in DOMAIN app.items : Moved(app, i)
        /\ UNCHANGED <<unasked, named>>

OpenFilter == /\ Key("none") /\ Plain
              /\ Does([app EXCEPT !.source = "list", !.overlay = "input", !.previous = app.q], <<>>)

ToggleSearch ==
  /\ Key("none") /\ Plain
  /\ Does([app EXCEPT !.source = IF @ = "search" THEN "list" ELSE "search",
                      !.overlay = "input", !.previous = app.q], <<>>)

\* A text that is edited is not asked for yet.
Type == /\ Key("input") /\ Plain
        /\ \E q \in Queries : Does([app EXCEPT !.q = q, !.queryDue = TRUE], <<>>)

SubmitInput == Key("input") /\ NothingNamed /\ Reloads([app EXCEPT !.overlay = "none"])

\* Mutant: cancelling restores the text and asks for nothing.
CancelQuietly == /\ Key("input") /\ Plain
                 /\ Does([app EXCEPT !.q = app.previous, !.overlay = "none"], <<>>)

CancelInput ==
  /\ Key("input") /\ Plain
  /\ Does([app EXCEPT !.q = app.previous, !.overlay = "none", !.queryDue = TRUE], <<>>)

\* Sort, hidden, search mode and connector scope take effect at once.
Rescope ==
  /\ Key("none") /\ NothingNamed
  /\ \E q \in Queries \ {app.q} : Reloads([app EXCEPT !.q = q])

\* Escape on a filter, or Enter on a connector.
ClearFilter ==
  /\ Key("none") /\ NothingNamed
  /\ \E q \in Blank : Reloads([app EXCEPT !.q = q, !.source = "list"])

\* switch to the pages, when there are none.
Return == Key("none") /\ NothingNamed /\ app.items = <<>> /\ Reloads(app)

Refresh == /\ Key("none") /\ NothingNamed
           /\ Does(Reloading(app), <<Other>> \o Reload(app))
           /\ unasked' = (Reload(app) = <<>>)

\* The other screens, the tabs and the full text of the inspector; connector actions.
Elsewhere ==
  /\ Key("none") /\ Plain
  /\ \E commands \in {<<Other>>, <<Other, Other>>, <<Action>>} : Does(app, commands)

Selected == IF app.sel = 0 THEN {} ELSE {app.items[app.sel]}

\* A row that is marked, or unmarked, leads to the next one.
Mark ==
  /\ Key("none") /\ Selected # {}
  /\ Moved([app EXCEPT !.marks = (@ \ Selected) \cup (Selected \ @)],
           IF app.sel < Len(app.items) THEN app.sel + 1 ELSE app.sel)
  /\ UNCHANGED <<unasked, named>>

MarkAllOrNone ==
  /\ Key("none") /\ Plain
  /\ \E marks \in {SX!ToSet(app.items), {}} : Does([app EXCEPT !.marks = marks], <<>>)

\* delete_targets: the marks if any, else the row under the cursor.
Targets == IF app.marks # {} THEN app.marks ELSE Selected

ConfirmDelete ==
  /\ Key("none") /\ Plain /\ Targets # {}
  /\ Does([app EXCEPT !.overlay = "confirm", !.targets = Targets], <<>>)

\* Mutant: the targets are read again when the modal is answered.
AnswerYesNow ==
  /\ Key("confirm") /\ UNCHANGED <<unasked, mixed>>
  /\ named' = named \cup app.targets
  /\ Does([app EXCEPT !.overlay = "none"], <<Delete(Targets)>>)

AnswerYes ==
  /\ Key("confirm") /\ UNCHANGED <<unasked, mixed>>
  /\ named' = named \cup app.targets
  /\ Does([app EXCEPT !.overlay = "none"], <<Delete(app.targets)>>)

AnswerNo == Key("confirm") /\ Plain /\ Does([app EXCEPT !.overlay = "none"], <<>>)

(* run_deadlines: the debounced requests (the json tab sends one, not two). *)

DetailDue ==
  /\ out = <<>> /\ app.detailDue
  /\ Does([app EXCEPT !.detailDue = FALSE], <<Other, Other>>)
  /\ Plain /\ UNCHANGED <<keys, faults>>

QueryDue ==
  /\ out = <<>> /\ app.queryDue
  /\ Reloads([app EXCEPT !.queryDue = FALSE])
  /\ NothingNamed /\ UNCHANGED <<keys, faults>>

(* apply: what the loop does with an event. *)

\* Mutant: a first page keeps the place of the cursor in the list it replaces.
ReplacedInPlace(e, source) ==
  [app EXCEPT !.items = e.rows, !.detailDue = @ \/ e.rows # <<>>,
     !.source = source, !.next = e.next, !.cursorSort = SortOf[e.q], !.loading = FALSE]

Replaced(e, source) ==
  [app EXCEPT !.items = e.rows, !.sel = IF e.rows = <<>> THEN 0 ELSE 1,
     !.detailDue = @ \/ e.rows # <<>>,
     !.source = source, !.next = e.next, !.cursorSort = SortOf[e.q], !.loading = FALSE]

Extended(e) ==
  [app EXCEPT !.items = @ \o e.rows, !.source = "list", !.next = e.next,
     !.cursorSort = SortOf[e.q], !.loading = FALSE]

\* The numbers of a finite set, from the least on.
InOrder(S) ==
  CHOOSE s \in [1 .. Cardinality(S) -> S] : \A i, j \in DOMAIN s : i < j => s[i] < s[j]

\* PagesState::remove.
Without(ids) ==
  LET kept == InOrder({i \in DOMAIN app.items : app.items[i] \notin ids})
      items == [k \in DOMAIN kept |-> app.items[kept[k]]] IN
  [app EXCEPT !.items = items, !.marks = @ \ ids,
     !.sel = IF items = <<>> THEN 0 ELSE IF @ > Len(items) THEN Len(items) ELSE @]

Applied(e) ==
  CASE e.t = "pages" /\ e.append -> Extended(e)
    [] e.t = "pages" /\ ~e.append -> Replaced(e, "list")
    [] e.t = "hits" -> Replaced(e, "search")
    [] e.t = "deleted" -> Without(Targets \ e.kept)
    [] OTHER -> app

Apply ==
  /\ out = <<>> /\ events # <<>>
  /\ LET e == Head(events) IN
     /\ app' = Applied(e)
     /\ out' = IF e.t = "done" THEN <<Other, Other>> ELSE <<>>
     /\ shown' = IF e.t = "hits" \/ (e.t = "pages" /\ ~e.append)
                 THEN <<app'.source, e.q>> ELSE shown
     /\ failed' = IF e.list /\ ~e.append THEN e.t = "failed" ELSE failed
  /\ events' = Tail(events)
  /\ UNCHANGED <<cmds, worker, gone, unasked, mixed, named, keys, faults>>

-----------------------------------------------------------------------------
(* The data worker: one command at a time. *)

Take ==
  /\ worker.pc = "idle" /\ cmds # <<>>
  /\ worker' = [worker EXCEPT !.pc = "busy", !.cmd = Head(cmds)]
  /\ cmds' = Tail(cmds)
  /\ UNCHANGED <<app, out, events, gone, history, keys, faults>>

FirstOf(S) == {d \in S : Cardinality({e \in S : e < d}) < PageSize}

Page(cmd) ==
  LET matching == {d \in Match[cmd.q] \ gone : d > cmd.at}
      rows == InOrder(FirstOf(matching))
  IN Event(cmd, "pages", rows, IF FirstOf(matching) = matching THEN 0 ELSE rows[Len(rows)])

\* A cursor that another sort has issued is refused (Cursor::decode).
Listed(cmd) ==
  IF cmd.at # 0 /\ cmd.sort # SortOf[cmd.q] THEN Event(cmd, "failed", <<>>, 0) ELSE Page(cmd)

Hits(cmd) == Event(cmd, "hits", InOrder(FirstOf(Match[cmd.q] \ gone)), 0)

Reply(e, cost) ==
  /\ worker' = [worker EXCEPT !.pc = "send", !.cmd = Other, !.event = e]
  /\ faults' = faults - cost
  /\ UNCHANGED <<app, out, cmds, events, history, keys>>

Answer ==
  /\ worker.pc = "busy"
  /\ LET cmd == worker.cmd IN
     \/ cmd.t = "load" /\ Reply(Listed(cmd), 0) /\ UNCHANGED gone
     \/ cmd.t = "search" /\ Reply(Hits(cmd), 0) /\ UNCHANGED gone
     \/ cmd.t = "other" /\ Reply(Event(cmd, "other", <<>>, 0), 0) /\ UNCHANGED gone
     \/ cmd.t = "action" /\ Reply(Event(cmd, "done", <<>>, 0), 0) /\ UNCHANGED gone
     \/ cmd.t = "delete" /\ \E kept \in SUBSET cmd.ids :
          /\ kept = {} \/ faults > 0
          /\ gone' = gone \cup (cmd.ids \ kept)
          /\ Reply([Event(cmd, "deleted", <<>>, 0) EXCEPT !.kept = kept],
                   IF kept = {} THEN 0 ELSE 1)

\* The request fails, or its answer is lost on the way; a delete may be done.
Fail ==
  /\ worker.pc = "busy" /\ faults > 0
  /\ Reply(Event(worker.cmd, "failed", <<>>, 0), 1)
  /\ gone' \in {gone, gone \cup worker.cmd.ids}

Deliver ==
  /\ worker.pc = "send" /\ Len(events) < Cap
  /\ events' = Append(events, worker.event)
  /\ worker' = Resting
  /\ UNCHANGED <<app, out, cmds, gone, history, keys, faults>>

-----------------------------------------------------------------------------
Keys ==
  \/ Move \/ OpenFilter \/ ToggleSearch \/ Type \/ SubmitInput \/ CancelInput
  \/ Rescope \/ ClearFilter \/ Return \/ Refresh \/ Elsewhere
  \/ Mark \/ MarkAllOrNone \/ ConfirmDelete \/ AnswerYes \/ AnswerNo
Deadlines == DetailDue \/ QueryDue
Worker == Take \/ Answer \/ Fail \/ Deliver

Next == Keys \/ Deadlines \/ Send \/ Apply \/ Worker

Spec == Init /\ [][Next]_vars

\* Both tasks run while they can: select! is fair between the branches that are
\* ready, timers fire and requests have timeouts.  The user owes nothing.
FairSpec == Spec /\ WF_vars(Send) /\ WF_vars(Apply) /\ WF_vars(Worker) /\ WF_vars(Deadlines)

-----------------------------------------------------------------------------
(* Properties *)

Quiet == out = <<>> /\ cmds = <<>> /\ events = <<>> /\ worker.pc = "idle" /\ ~app.queryDue

\* When nothing is under way, the list is the answer to the query on display,
\* whatever was typed, cancelled and rescoped while answers came in, unless its
\* request failed or was never made, or a next page was asked for behind a first page (that page
\* is then of another list).
ListMatchesQuery ==
  Quiet /\ app.overlay = "none" /\ ~failed /\ ~unasked /\ ~mixed
    => shown = <<app.source, app.q>>

\* The server deletes only what was marked, or under the cursor, when the modal
\* opened, whatever reloads and answers have made of the list and the cursor
\* since then.
DeletesAreNamed == gone \subseteq named

ListFails == worker.pc = "send" /\ worker.event.list /\ worker.event.t = "failed"

\* `loading' keeps the next page from being asked for; two handlers set it and two
\* answers and an early return clear it.  While no request for a list fails, it is
\* always cleared again: no order of keys, debounces, answers and changes of the
\* source leaves the list unable to ask for its next page.
LoadingEnds == []~ListFails => (app.loading ~> ~app.loading)

\* "A slow request costs a spinner rather than a frozen frame" (tui/mod.rs): the
\* loop, blocked on a full command channel, and the worker, blocked on a full
\* event channel, never wait for each other.
NoMutualWait ==
  ~(out # <<>> /\ Len(cmds) = Cap /\ worker.pc = "send" /\ Len(events) = Cap)
=============================================================================
