-------------------------- MODULE TransferLifecycle --------------------------
(***************************************************************************)
(* What the queue promises about each transfer, without workers, locks or  *)
(* sessions: the life an item can lead.  A success comes only from an      *)
(* attempt that was running, is final, and an id that left the queue never *)
(* comes back.                                                             *)
(***************************************************************************)
CONSTANT Items

VARIABLE phase

Phase == {"new", "queued", "active", "paused", "failed", "done", "gone"}

InQueue == {"queued", "active", "paused", "failed"}

Init == phase = [i \in Items |-> "new"]

\* Every item of S moves from a phase of `from` to the phase `to`.
Move(S, from, to) ==
  /\ \A i \in S : phase[i] \in from
  /\ phase' = [i \in Items |-> IF i \in S THEN to ELSE phase[i]]

Enter(S)   == Move(S, {"new"}, "queued") \/ Move(S, {"new"}, "paused")
Start(S)   == Move(S, {"queued"}, "active")
Retry(i)   == Move({i}, {"active"}, "queued")
Pause(i)   == Move({i}, {"queued", "active"}, "paused")
Fail(i)    == Move({i}, {"active"}, "failed")
Succeed(i) == Move({i}, {"active"}, "done")
Resume(S)  == Move(S, {"paused", "failed"}, "queued")
Remove(S)  == Move(S, InQueue, "gone")
\* The user empties the list of finished transfers.
Forget(S)  == Move(S, {"done"}, "gone")

Next ==
  \/ \E S \in SUBSET Items : Enter(S) \/ Start(S) \/ Resume(S) \/ Remove(S)
                             \/ Forget(S)
  \/ \E i \in Items : Retry(i) \/ Pause(i) \/ Fail(i) \/ Succeed(i)

Spec == Init /\ [][Next]_phase
=============================================================================
