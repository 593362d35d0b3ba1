--------------------------- MODULE MCTransferQueue ---------------------------
(* Instances of TransferQueue for TLC.                                     *)
EXTENDS TransferQueue, TLC

MCBatchOf == [i \in Items |-> "batch"]
MCSiteOf == [x \in Items \cup Sessions |-> "site"]
MCMaxTransfers == [s \in Sessions |-> 1]
MCSymmetry == Permutations(Items \ Dirs) \cup Permutations(Sessions)
              \cup Permutations(Generations)

-----------------------------------------------------------------------------
(* Liveness: the user may add, pause and remove but not resume, so that    *)
(* the commands are finitely many without a counter.                       *)

OneWay ==
  \/ Scheduler
  \/ \E i \in Items : RetryDue(i)
  \/ \E i \in Items, g \in Generations : WorkerStep(i, g)
  \/ CommandStep
  \/ \E i \in Items, s \in Sessions, first \in {"queued", "paused"} :
       Add(i, s, first)
  \/ \E i \in Items : Pause(i) \/ Remove(i)
  \/ PauseAll \/ Clear
  \/ SessionStep

(* The scheduler ticks every 400 ms, timers fire, the commands and the     *)
(* session tasks are sequential code without waits, and a worker's         *)
(* protocol operations return.                                             *)
Fairness ==
  /\ WF_vars(\E S \in SUBSET Items, seen \in SUBSET Sessions : Mark(S, seen))
  /\ WF_vars(\E i \in starting, g \in Generations : Register(i, g))
  /\ WF_vars(CommandStep)
  /\ WF_vars(DisconnectStep)
  /\ \A i \in Items : WF_vars(RetryDue(i))
  /\ \A i \in Items, g \in Generations : WF_vars(WorkerStep(i, g))

OneWaySpec == Init /\ [][OneWay]_vars /\ Fairness

\* Unless its session goes away, every item that waits or runs comes to rest:
\* finished, failed, paused or removed. It can be neither starved by the
\* other items nor left behind by the notify-or-tick loop of the scheduler
\* (queue.rs:575-591), a retry (queue.rs:329-338) or a full session.
EveryTransferSettles ==
  \A i \in Items :
    status[i] \in {"queued", "active"} ~>
      status[i] \notin {"queued", "active"} \/ session[i] \notin Connected
=============================================================================
