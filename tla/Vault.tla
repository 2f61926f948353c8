-------------------------------- MODULE Vault --------------------------------
(***************************************************************************)
(* What the trash promises about one document's content, without index,    *)
(* queues, candidate rows or handlers: content leaves the library into the *)
(* trash in one step, comes back only as a restore found it there, and the *)
(* copy goes only when the content is back or somebody purges it.          *)
(* TrashStore implements it (TrashStore!VaultSpec).                        *)
(***************************************************************************)
EXTENDS Naturals

CONSTANT Docs

VARIABLES
  live,   \* content in the library, 0 if none
  kept,   \* content the trash can give back, 0 if none
  owed,   \* the reaper took the content, and it is neither back nor purged
  asked,  \* contents that restores at work have read from the trash
  made    \* contents crawled so far

vvars == <<live, kept, owed, asked, made>>

Init ==
  /\ live = [d \in Docs |-> 1]
  /\ kept = [d \in Docs |-> 0]
  /\ owed = [d \in Docs |-> FALSE]
  /\ asked = [d \in Docs |-> {}]
  /\ made = [d \in Docs |-> 1]

\* Only a crawl brings new content, and over none.
Arrive(d) ==
  /\ live[d] = 0 /\ asked[d] = {}
  /\ made' = [made EXCEPT ![d] = @ + 1]
  /\ live' = [live EXCEPT ![d] = made'[d]]
  /\ UNCHANGED <<kept, owed, asked>>

\* Snapshot and deletion are one step, and what is kept is what was there.
Take(d) ==
  /\ live[d] # 0 /\ asked[d] = {}
  /\ kept' = [kept EXCEPT ![d] = live[d]]
  /\ live' = [live EXCEPT ![d] = 0]
  /\ owed' = [owed EXCEPT ![d] = TRUE]
  /\ UNCHANGED <<asked, made>>

\* A request deletes without a copy; what the trash owes it still owes.
Remove(d) ==
  /\ live[d] # 0
  /\ live' = [live EXCEPT ![d] = 0]
  /\ UNCHANGED <<kept, owed, asked, made>>

Ask(d) ==
  /\ kept[d] # 0
  /\ asked' = [asked EXCEPT ![d] = @ \cup {kept[d]}]
  /\ UNCHANGED <<live, kept, owed, made>>

GiveBack(d) ==
  /\ \E content \in asked[d] : live' = [live EXCEPT ![d] = content]
  /\ owed' = [owed EXCEPT ![d] = FALSE]
  /\ UNCHANGED <<kept, asked, made>>

\* A restore ends; it takes the copy along only when nothing is owed any more.
EndRestore(d) ==
  /\ \E rest \in SUBSET asked[d] : asked' = [asked EXCEPT ![d] = rest]
  /\ \/ UNCHANGED kept
     \/ ~owed[d] /\ kept' = [kept EXCEPT ![d] = 0]
  /\ UNCHANGED <<live, owed, made>>

\* The only step that loses what is owed.
Purge(d) ==
  /\ kept[d] # 0
  /\ kept' = [kept EXCEPT ![d] = 0]
  /\ owed' = [owed EXCEPT ![d] = FALSE]
  /\ UNCHANGED <<live, asked, made>>

Next ==
  \E d \in Docs : \/ Arrive(d) \/ Take(d) \/ Remove(d) \/ Ask(d)
                  \/ GiveBack(d) \/ EndRestore(d) \/ Purge(d)

Spec == Init /\ [][Next]_vvars
=============================================================================
