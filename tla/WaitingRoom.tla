----------------------------- MODULE WaitingRoom -----------------------------
(***************************************************************************)
(* What the pruning lifecycle promises about one document, without rows,   *)
(* handlers or reapers: it is hidden away only through a waiting room, it  *)
(* is deleted only out of that room once the grace period has run out, and *)
(* what is deleted can be brought back until the trash lets go of it.      *)
(* PruneLifecycle implements it (PruneLifecycle!WaitingRoomSpec).          *)
(***************************************************************************)
CONSTANT Docs

VARIABLES
  where,    \* live, waiting, reaped (by pruning) or removed (by anybody else)
  elapsed,  \* the grace period of a waiting document has run out
  saved     \* the trash holds a restorable snapshot

wvars == <<where, elapsed, saved>>

Init ==
  /\ where = [d \in Docs |-> "live"]
  /\ elapsed = [d \in Docs |-> FALSE]
  /\ saved = [d \in Docs |-> FALSE]

Move(d, place, over) ==
  /\ where' = [where EXCEPT ![d] = place]
  /\ elapsed' = [elapsed EXCEPT ![d] = over]

\* Staging, and a failed restore that puts the document back.
Enter(d) ==
  /\ where[d] = "live"
  /\ \E over \in BOOLEAN : Move(d, "waiting", over)
  /\ UNCHANGED saved

Elapse(d) ==
  /\ where[d] = "waiting" /\ ~elapsed[d]
  /\ Move(d, "waiting", TRUE)
  /\ UNCHANGED saved

Leave(d) ==
  /\ where[d] = "waiting"
  /\ Move(d, "live", FALSE)
  /\ UNCHANGED saved

\* Deletion and snapshot are one step, and only an elapsed document is deleted.
Reap(d) ==
  /\ where[d] = "waiting" /\ elapsed[d]
  /\ Move(d, "reaped", FALSE)
  /\ saved' = [saved EXCEPT ![d] = TRUE]

Remove(d) ==
  /\ where[d] \in {"live", "waiting"}
  /\ Move(d, "removed", FALSE)
  /\ UNCHANGED saved

\* The crawler or the trash brings the document back; an older row may still
\* have it in the waiting room.
Return(d) ==
  /\ where[d] \in {"reaped", "removed"}
  /\ \/ Move(d, "live", FALSE)
     \/ \E over \in BOOLEAN : Move(d, "waiting", over)
  /\ \/ UNCHANGED saved
     \/ saved[d] /\ saved' = [saved EXCEPT ![d] = FALSE]

\* The only irreversible step: the snapshot goes.
Purge(d) ==
  /\ saved[d]
  /\ saved' = [saved EXCEPT ![d] = FALSE]
  /\ Move(d, IF where[d] = "reaped" THEN "removed" ELSE where[d], elapsed[d])

Next ==
  \E d \in Docs : \/ Enter(d) \/ Elapse(d) \/ Leave(d) \/ Reap(d)
                  \/ Remove(d) \/ Return(d) \/ Purge(d)

Spec == Init /\ [][Next]_wvars
=============================================================================
