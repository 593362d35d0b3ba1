---------------------------- MODULE TransferQueue ----------------------------
(***************************************************************************)
(* The transfer queue (transfer/queue.rs) and the control flow of its      *)
(* worker tasks (transfer/worker.rs), at the grain of the queue's locks:   *)
(* one action is what one thread does while it holds `items`, `controls`   *)
(* or `sessions`, so every interleaving the locks allow is a behaviour.    *)
(*                                                                         *)
(* An element of Items is an item id together with the part of the item    *)
(* that never changes (is it a directory, its batch, its site).  The order *)
(* of the Vec and the priorities are left out: the scheduler may start any *)
(* of the ready items.                                                     *)
(***************************************************************************)
EXTENDS Naturals, FiniteSets

CONSTANTS
  Items,        \* ids that `build_item` and `child_of` may hand out
  Dirs,         \* the ids whose item is a directory
  BatchOf,      \* the batch of each id, drag_out's unit of work
  SiteOf,       \* the site of each id and of each session
  Sessions,     \* session ids that `connect` may hand out
  MaxTransfers, \* Session::max_transfers, per session
  MaxRetries,   \* settings.max_retries
  Generations,  \* bound: worker tasks of one item alive at the same time
  NoSession, NoControl, NoItem

ASSUME ItemsAssumption == /\ Dirs \subseteq Items
                          /\ NoItem \notin Items
                          /\ DOMAIN SiteOf = Items \cup Sessions
                          /\ DOMAIN BatchOf = Items
\* An id is a version 4 UUID (queue.rs:188).
ASSUME FinitelyMany == IsFiniteSet(Items)
ASSUME SessionsAssumption == /\ NoSession \notin Sessions
                             /\ MaxTransfers \in [Sessions -> Nat \ {0}]
ASSUME RetryAssumption == MaxRetries \in Nat
ASSUME GenerationsAssumption == NoControl \notin Generations

VARIABLES
  fresh,      \* ids not handed out yet
  status,     \* TransferItem.status, "absent" when the id is not in `items`
  session,    \* TransferItem.session_id
  attempts,   \* TransferItem.attempts
  waiting,    \* TransferItem.retry_after lies in the future
  history,    \* ids in `history`
  controls,   \* the generation whose Control `controls` maps the id to
  starting,   \* dispatch's `to_start`: marked Active, task not spawned yet
  task,       \* per id and generation: a worker task and its Control
  link,       \* life of each session in SessionManager
  command,    \* the multi-step queue command the main thread is executing
  closing     \* the session_disconnect task

itemVars == <<fresh, status, session, attempts, waiting, history>>
vars == <<fresh, status, session, attempts, waiting, history, controls,
          starting, task, link, command, closing>>

Status == {"absent", "queued", "active", "paused", "failed"}

\* A task is live from spawn until the region that ends its Active status.
LivePC == {"spawned", "fetched", "running", "expanded"}
TaskPC == LivePC \cup {"idle", "archiving", "releasing"}

Task == [pc : TaskPC, cancelled : BOOLEAN, pausing : BOOLEAN,
         session : Sessions \cup {NoSession}, attempts : 0 .. MaxRetries + 1]
IdleTask == [pc |-> "idle", cancelled |-> FALSE, pausing |-> FALSE,
             session |-> NoSession, attempts |-> 0]

\* A session is "unbound" between `connect` and `bind_session`.
Link == {"new", "unbound", "open", "closed"}
Connected == {s \in Sessions : link[s] \in {"unbound", "open"}}

Present == {i \in Items : status[i] # "absent"}
Live(i, g) == task[i][g].pc \in LivePC

\* The Control and the cloned item matter to a task only while it is live.
SetPC(i, g, pc) == task' = [task EXCEPT ![i][g].pc = pc]
Settle(i, g, pc) == task' = [task EXCEPT ![i][g] = [IdleTask EXCEPT !.pc = pc]]
EndTask(i, g) == Settle(i, g, "idle")

CommandOp == {"idle", "pause", "resume", "remove", "clear"}
Command == [op : CommandOp, todo : SUBSET Items, dropping : Items \cup {NoItem}]
Idle == [op |-> "idle", todo |-> {}, dropping |-> NoItem]
Closing == [session : Sessions \cup {NoSession}, todo : SUBSET Items,
            unbound : BOOLEAN]
NotClosing == [session |-> NoSession, todo |-> {}, unbound |-> FALSE]

TypeOK ==
  /\ fresh \subseteq Items
  /\ status \in [Items -> Status]
  /\ session \in [Items -> Sessions \cup {NoSession}]
  /\ attempts \in [Items -> 0 .. MaxRetries + 1]
  /\ waiting \in [Items -> BOOLEAN]
  /\ history \subseteq Items
  /\ controls \in [Items -> Generations \cup {NoControl}]
  /\ starting \subseteq Items
  /\ task \in [Items -> [Generations -> Task]]
  /\ link \in [Sessions -> Link]
  /\ command \in Command
  /\ closing \in Closing

Init ==
  /\ fresh = Items
  /\ status = [i \in Items |-> "absent"]
  /\ session = [i \in Items |-> NoSession]
  /\ attempts = [i \in Items |-> 0]
  /\ waiting = [i \in Items |-> FALSE]
  /\ history = {}
  /\ controls = [i \in Items |-> NoControl]
  /\ starting = {}
  /\ task = [i \in Items |-> [g \in Generations |-> IdleTask]]
  /\ link = [s \in Sessions |-> "new"]
  /\ command = Idle
  /\ closing = NotClosing

-----------------------------------------------------------------------------
(* The scheduler task.                                                     *)

ActiveOn(s) == {i \in Items : session[i] = s /\ status[i] = "active"}

\* Slip: dispatch also takes paused items.
ReadyOrPaused(s) == {i \in Items : /\ session[i] = s
                                   /\ status[i] \in {"queued", "paused"}
                                   /\ ~waiting[i]}

Ready(s) == {i \in Items : /\ session[i] = s
                           /\ status[i] = "queued"
                           /\ ~waiting[i]}

\* Slips: the running transfers are not counted; one slot too few.
FreeUncounted(s) == MaxTransfers[s]
FreeShort(s) == IF Cardinality(ActiveOn(s)) + 1 < MaxTransfers[s]
                THEN MaxTransfers[s] - Cardinality(ActiveOn(s)) - 1
                ELSE 0

Free(s) == IF Cardinality(ActiveOn(s)) < MaxTransfers[s]
           THEN MaxTransfers[s] - Cardinality(ActiveOn(s))
           ELSE 0

\* `take(free)` of the ready items of one session.
TakesFree(S, s) ==
  LET taken == S \cap Ready(s) IN
  /\ Cardinality(taken) <= Free(s)
  /\ Cardinality(taken) < Free(s) => taken = Ready(s)

\* The part of dispatch that holds `items`: choose and mark Active. `seen` is
\* `sessions.all()`, read before: sessions may open and close in between.
Mark(S, seen) ==
  /\ starting = {}
  /\ S # {}
  /\ \A s \in seen : link[s] # "new" /\ TakesFree(S, s)
  /\ S \subseteq UNION {Ready(s) : s \in seen}
  /\ status' = [i \in Items |-> IF i \in S THEN "active" ELSE status[i]]
  /\ starting' = S
  /\ UNCHANGED <<fresh, session, attempts, waiting, history, controls, task,
                 link, command, closing>>

\* The part that does not: a new Control for one marked id, then spawn.
Register(i, g) ==
  /\ i \in starting
  /\ task[i][g].pc = "idle"
  /\ controls[i] # g
  /\ controls' = [controls EXCEPT ![i] = g]
  /\ Settle(i, g, "spawned")
  /\ starting' = starting \ {i}
  /\ UNCHANGED <<fresh, status, session, attempts, waiting, history, link,
                 command, closing>>

\* `retry_after` passes.
RetryDue(i) ==
  /\ status[i] = "queued" /\ waiting[i]
  /\ waiting' = [waiting EXCEPT ![i] = FALSE]
  /\ UNCHANGED <<fresh, status, session, attempts, history, controls,
                 starting, task, link, command, closing>>

-----------------------------------------------------------------------------
(* A worker task: generation g of item i.                                  *)

\* What is left of an item that is not in `items` any more.
Forget(S) ==
  /\ status' = [i \in Items |-> IF i \in S THEN "absent" ELSE status[i]]
  /\ session' = [i \in Items |-> IF i \in S THEN NoSession ELSE session[i]]
  /\ attempts' = [i \in Items |-> IF i \in S THEN 0 ELSE attempts[i]]
  /\ waiting' = [i \in Items |-> IF i \in S THEN FALSE ELSE waiting[i]]

\* run: `queue.get(&id)`; a missing item ends the task, its Control stays.
Fetch(i, g) ==
  /\ task[i][g].pc = "spawned"
  /\ IF status[i] = "absent"
     THEN EndTask(i, g)
     ELSE task' = [task EXCEPT ![i][g] =
                     [@ EXCEPT !.pc = "fetched", !.session = session[i],
                               !.attempts = attempts[i]]]
  /\ UNCHANGED <<itemVars, controls, starting, link, command, closing>>

\* run: `queue.sessions.get(s)` on the session of the cloned item.
FindSession(i, g) ==
  /\ task[i][g].pc = "fetched"
  /\ task[i][g].session \in Connected
  /\ SetPC(i, g, "running")
  /\ UNCHANGED <<itemVars, controls, starting, link, command, closing>>

\* complete with Done or Skipped: the item leaves `items`.
Succeed(i, g) ==
  IF status[i] = "absent"
  THEN /\ EndTask(i, g)
       /\ UNCHANGED <<itemVars, controls, starting, link, command, closing>>
  ELSE /\ Forget({i})
       /\ Settle(i, g, "archiving")
       /\ UNCHANGED <<fresh, history, controls, starting, link, command,
                      closing>>

\* complete with Failed: the item stays, for the user to retry. A missing
\* item returns before its Control is removed.
GiveUp(i, g, tried) ==
  /\ IF status[i] = "absent"
     THEN EndTask(i, g) /\ UNCHANGED <<status, attempts>>
     ELSE /\ status' = [status EXCEPT ![i] = "failed"]
          /\ attempts' = [attempts EXCEPT ![i] = tried]
          /\ Settle(i, g, "releasing")
  /\ UNCHANGED <<fresh, session, waiting, history, controls, starting, link,
                 command, closing>>

NoConnection(i, g) ==
  /\ task[i][g].pc = "fetched"
  /\ task[i][g].session \notin Connected
  /\ GiveUp(i, g, attempts[i])

\* transfer_file returns Done or Skipped; a late cancellation is not seen.
FinishFile(i, g) ==
  /\ task[i][g].pc = "running" /\ i \notin Dirs
  /\ Succeed(i, g)

\* expand_directory: the children of the listing enter the queue with the
\* session of the item the task cloned, whether or not the parent is there.
Expand(i, g, kids) ==
  /\ task[i][g].pc = "running" /\ i \in Dirs
  /\ kids \subseteq fresh
  /\ \A k \in kids : BatchOf[k] = BatchOf[i] /\ SiteOf[k] = SiteOf[i]
  /\ fresh' = fresh \ kids
  /\ status' = [k \in Items |-> IF k \in kids THEN "queued" ELSE status[k]]
  /\ session' = [k \in Items |-> IF k \in kids THEN task[i][g].session
                                               ELSE session[k]]
  /\ SetPC(i, g, "expanded")
  /\ UNCHANGED <<attempts, waiting, history, controls, starting, link,
                 command, closing>>

FinishDir(i, g) ==
  /\ task[i][g].pc = "expanded"
  /\ Succeed(i, g)

\* The second lock region of complete.
Archive(i, g) ==
  /\ task[i][g].pc = "archiving"
  /\ history' = history \cup {i}
  /\ Settle(i, g, "releasing")
  /\ UNCHANGED <<fresh, status, session, attempts, waiting, controls,
                 starting, link, command, closing>>

\* Slip: set_paused puts a missing item back.
PauseRevives(i, g) ==
  /\ task[i][g].pc = "running" /\ i \notin Dirs
  /\ task[i][g].cancelled /\ task[i][g].pausing
  /\ status' = [status EXCEPT ![i] = "paused"]
  /\ Settle(i, g, "releasing")
  /\ UNCHANGED <<fresh, session, attempts, waiting, history, controls,
                 starting, link, command, closing>>

\* interrupted said Paused: set_paused.
PauseSeen(i, g) ==
  /\ task[i][g].pc = "running" /\ i \notin Dirs
  /\ task[i][g].cancelled /\ task[i][g].pausing
  /\ status' = IF status[i] = "absent" THEN status
               ELSE [status EXCEPT ![i] = "paused"]
  /\ Settle(i, g, "releasing")
  /\ UNCHANGED <<fresh, session, attempts, waiting, history, controls,
                 starting, link, command, closing>>

\* interrupted said Cancelled: the task removes its own item.
CancelSeen(i, g) ==
  /\ task[i][g].pc = "running" /\ i \notin Dirs
  /\ task[i][g].cancelled /\ ~task[i][g].pausing
  /\ Forget({i})
  /\ EndTask(i, g)
  /\ UNCHANGED <<fresh, history, controls, starting, link, command, closing>>

\* handle_failure of a ConnectionLost, Timeout or Io error with attempts
\* left: schedule_retry. The count comes from the item the task cloned.
FailRetry(i, g) ==
  /\ task[i][g].pc = "running"
  /\ task[i][g].attempts + 1 <= MaxRetries
  /\ IF status[i] = "absent"
     THEN UNCHANGED <<status, attempts, waiting>>
     ELSE /\ status' = [status EXCEPT ![i] = "queued"]
          /\ attempts' = [attempts EXCEPT ![i] = task[i][g].attempts + 1]
          /\ waiting' = [waiting EXCEPT ![i] = TRUE]
  /\ Settle(i, g, "releasing")
  /\ UNCHANGED <<fresh, session, history, controls, starting, link, command,
                 closing>>

\* handle_failure of any other error, or of the last attempt.
FailForGood(i, g) ==
  /\ task[i][g].pc = "running"
  /\ GiveUp(i, g, task[i][g].attempts + 1)

\* `controls.remove(id)`: by id, whoever's Control is there now.
Release(i, g) ==
  /\ task[i][g].pc = "releasing"
  /\ controls' = [controls EXCEPT ![i] = NoControl]
  /\ EndTask(i, g)
  /\ UNCHANGED <<itemVars, starting, link, command, closing>>

WorkerStep(i, g) ==
  \/ Fetch(i, g) \/ FindSession(i, g) \/ NoConnection(i, g)
  \/ FinishFile(i, g) \/ FinishDir(i, g)
  \/ \E kids \in SUBSET fresh : Expand(i, g, kids)
  \/ Archive(i, g) \/ PauseSeen(i, g) \/ CancelSeen(i, g)
  \/ FailRetry(i, g) \/ FailForGood(i, g)
  \/ Release(i, g)

-----------------------------------------------------------------------------
(* Queue commands. The synchronous ones run on the main thread, one after  *)
(* the other; a command that takes several lock regions is `command`.      *)

\* Slip: the token is cancelled and `pausing` forgotten.
CancelledOnly(S, pausing) ==
  [i \in Items |-> [g \in Generations |->
     IF i \in S /\ controls[i] = g /\ Live(i, g)
     THEN [task[i][g] EXCEPT !.cancelled = TRUE]
     ELSE task[i][g]]]

\* cancel() on the Controls registered for the ids of S.
Cancelled(S, pausing) ==
  [i \in Items |-> [g \in Generations |->
     IF i \in S /\ controls[i] = g /\ Live(i, g)
     THEN [task[i][g] EXCEPT !.cancelled = TRUE, !.pausing = pausing]
     ELSE task[i][g]]]

\* Slip: without a Control the item is paused whatever its status.
PauseUnchecked(i) ==
  IF controls[i] # NoControl
  THEN task' = Cancelled({i}, TRUE) /\ UNCHANGED status
  ELSE /\ status' = IF status[i] = "absent" THEN status
                    ELSE [status EXCEPT ![i] = "paused"]
       /\ UNCHANGED task

\* pause(id)
PauseItem(i) ==
  IF controls[i] # NoControl
  THEN task' = Cancelled({i}, TRUE) /\ UNCHANGED status
  ELSE /\ status' = IF status[i] = "queued"
                    THEN [status EXCEPT ![i] = "paused"]
                    ELSE status
       /\ UNCHANGED task

\* Slips: resume whatever the status; resume without a new set of attempts.
RequeuedAny(S, from) ==
  LET again == {i \in S : status[i] # "absent"} IN
  /\ status' = [i \in Items |-> IF i \in again THEN "queued" ELSE status[i]]
  /\ attempts' = [i \in Items |-> IF i \in again THEN 0 ELSE attempts[i]]
  /\ waiting' = [i \in Items |-> IF i \in again THEN FALSE ELSE waiting[i]]
RequeuedSpent(S, from) ==
  LET again == {i \in S : status[i] \in from} IN
  /\ status' = [i \in Items |-> IF i \in again THEN "queued" ELSE status[i]]
  /\ waiting' = [i \in Items |-> IF i \in again THEN FALSE ELSE waiting[i]]
  /\ UNCHANGED attempts

Requeued(S, from) ==
  LET again == {i \in S : status[i] \in from} IN
  /\ status' = [i \in Items |-> IF i \in again THEN "queued" ELSE status[i]]
  /\ attempts' = [i \in Items |-> IF i \in again THEN 0 ELSE attempts[i]]
  /\ waiting' = [i \in Items |-> IF i \in again THEN FALSE ELSE waiting[i]]

Add(i, s, first) ==
  /\ command = Idle
  /\ i \in fresh /\ link[s] = "open"
  /\ SiteOf[i] = SiteOf[s]
  /\ first \in {"queued", "paused"}
  /\ fresh' = fresh \ {i}
  /\ status' = [status EXCEPT ![i] = first]
  /\ session' = [session EXCEPT ![i] = s]
  /\ UNCHANGED <<attempts, waiting, history, controls, starting, task, link,
                 command, closing>>

Pause(i) ==
  /\ command = Idle
  /\ i \notin fresh
  /\ PauseItem(i)
  /\ UNCHANGED <<fresh, session, attempts, waiting, history, controls,
                 starting, link, command, closing>>

Resume(i) ==
  /\ command = Idle
  /\ i \notin fresh
  /\ Requeued({i}, {"paused", "failed"})
  /\ UNCHANGED <<fresh, session, history, controls, starting, task, link,
                 command, closing>>

RetryFailed ==
  /\ command = Idle
  /\ Requeued(Items, {"failed"})
  /\ UNCHANGED <<fresh, session, history, controls, starting, task, link,
                 command, closing>>

RemoveFailed ==
  /\ command = Idle
  /\ Forget({i \in Items : status[i] = "failed"})
  /\ UNCHANGED <<fresh, history, controls, starting, task, link, command,
                 closing>>

ClearHistory ==
  /\ command = Idle
  /\ history' = {}
  /\ UNCHANGED <<fresh, status, session, attempts, waiting, controls,
                 starting, task, link, command, closing>>

\* The snapshot of ids that a multi-step command then works through.
Begin(op, ids) ==
  /\ command = Idle
  /\ command' = [op |-> op, todo |-> ids, dropping |-> NoItem]
  /\ UNCHANGED <<itemVars, controls, starting, link, closing>>

PauseAll ==
  /\ Begin("pause", {i \in Items : status[i] \in {"queued", "active"}})
  /\ UNCHANGED task
ResumeAll ==
  /\ Begin("resume", {i \in Items : status[i] = "paused"})
  /\ UNCHANGED task
Remove(i) ==
  /\ i \notin fresh
  /\ Begin("remove", {i})
  /\ UNCHANGED task
RemoveBatch(b) ==
  /\ Begin("remove", {i \in Present : BatchOf[i] = b})
  /\ UNCHANGED task
\* clear: first every Control is cancelled, then `items` is emptied.
Clear ==
  /\ Begin("clear", {})
  /\ task' = Cancelled(Items, FALSE)

PauseNext(i) ==
  /\ command.op = "pause" /\ i \in command.todo
  /\ PauseItem(i)
  /\ command' = [command EXCEPT !.todo = @ \ {i}]
  /\ UNCHANGED <<fresh, session, attempts, waiting, history, controls,
                 starting, link, closing>>

ResumeNext(i) ==
  /\ command.op = "resume" /\ i \in command.todo
  /\ Requeued({i}, {"paused", "failed"})
  /\ command' = [command EXCEPT !.todo = @ \ {i}]
  /\ UNCHANGED <<fresh, session, history, controls, starting, task, link,
                 closing>>

\* remove(id): cancel the Control of the id, if there is one ...
RemoveCancel(i) ==
  /\ command.op = "remove" /\ i \in command.todo
  /\ command.dropping = NoItem
  /\ task' = Cancelled({i}, FALSE)
  /\ command' = [command EXCEPT !.dropping = i]
  /\ UNCHANGED <<itemVars, controls, starting, link, closing>>

\* ... then take the item out of `items`.
RemoveDrop ==
  /\ command.op = "remove" /\ command.dropping # NoItem
  /\ Forget({command.dropping})
  /\ command' = [command EXCEPT !.todo = @ \ {command.dropping},
                                !.dropping = NoItem]
  /\ UNCHANGED <<fresh, history, controls, starting, task, link, closing>>

ClearDrop ==
  /\ command.op = "clear"
  /\ Forget(Items)
  /\ command' = Idle
  /\ UNCHANGED <<fresh, history, controls, starting, task, link, closing>>

Return ==
  /\ command.op \in {"pause", "resume", "remove"} /\ command.todo = {}
  /\ command' = Idle
  /\ UNCHANGED <<itemVars, controls, starting, task, link, closing>>

CommandStep ==
  \/ \E i \in Items : PauseNext(i) \/ ResumeNext(i) \/ RemoveCancel(i)
  \/ RemoveDrop \/ ClearDrop \/ Return

User ==
  \/ \E i \in Items, s \in Sessions, first \in {"queued", "paused"} :
       Add(i, s, first)
  \/ \E i \in Items : Pause(i) \/ Resume(i) \/ Remove(i)
  \/ RetryFailed \/ RemoveFailed \/ ClearHistory
  \/ PauseAll \/ ResumeAll \/ Clear
  \/ \E b \in {BatchOf[i] : i \in Items} : RemoveBatch(b)

-----------------------------------------------------------------------------
(* Sessions: session_connect and session_disconnect are asynchronous       *)
(* commands and interleave with everything else.  Bound: one disconnect at *)
(* a time.                                                                 *)

Connect(s) ==
  /\ link[s] = "new"
  /\ link' = [link EXCEPT ![s] = "unbound"]
  /\ UNCHANGED <<itemVars, controls, starting, task, command, closing>>

\* bind_session: items of the site that have no session get this one.
Bind(s) ==
  /\ link[s] = "unbound"
  /\ link' = [link EXCEPT ![s] = "open"]
  /\ session' = [i \in Items |->
       IF i \in Present /\ SiteOf[i] = SiteOf[s] /\ session[i] = NoSession
       THEN s ELSE session[i]]
  /\ UNCHANGED <<fresh, status, attempts, waiting, history, controls,
                 starting, task, command, closing>>

\* unbind_session: the snapshot of the session's items ...
UnbindBegin(s) ==
  /\ link[s] = "open" /\ closing.session = NoSession
  /\ closing' = [session |-> s, unbound |-> FALSE,
                 todo |-> {i \in Present : session[i] = s}]
  /\ UNCHANGED <<itemVars, controls, starting, task, link, command>>

\* ... pauses them one by one ...
UnbindPause(i) ==
  /\ i \in closing.todo
  /\ PauseItem(i)
  /\ closing' = [closing EXCEPT !.todo = @ \ {i}]
  /\ UNCHANGED <<fresh, session, attempts, waiting, history, controls,
                 starting, link, command>>

\* ... and takes the session away from all the items that have it by then.
UnbindClear ==
  /\ closing.session # NoSession /\ closing.todo = {} /\ ~closing.unbound
  /\ session' = [i \in Items |-> IF session[i] = closing.session
                                 THEN NoSession ELSE session[i]]
  /\ closing' = [closing EXCEPT !.unbound = TRUE]
  /\ UNCHANGED <<fresh, status, attempts, waiting, history, controls,
                 starting, task, link, command>>

\* SessionManager::disconnect
Disconnect ==
  /\ closing.unbound
  /\ link' = [link EXCEPT ![closing.session] = "closed"]
  /\ closing' = NotClosing
  /\ UNCHANGED <<itemVars, controls, starting, task, command>>

DisconnectStep == UnbindClear \/ Disconnect \/ \E i \in Items : UnbindPause(i)

SessionStep ==
  \/ \E s \in Sessions : Connect(s) \/ Bind(s) \/ UnbindBegin(s)
  \/ DisconnectStep

-----------------------------------------------------------------------------

Scheduler ==
  \/ \E S \in SUBSET Items, seen \in SUBSET Sessions : Mark(S, seen)
  \/ \E i \in starting, g \in Generations : Register(i, g)

Next ==
  \/ Scheduler
  \/ \E i \in Items : RetryDue(i)
  \/ \E i \in Items, g \in Generations : WorkerStep(i, g)
  \/ CommandStep
  \/ User
  \/ SessionStep

Spec == Init /\ [][Next]_vars

-----------------------------------------------------------------------------
(* Safety.                                                                 *)

Owned(i) == i \in starting \/ \E g \in Generations : Live(i, g)

\* An item is Active exactly while one dispatch owns it: the scheduler that
\* marked it, then a single live worker task.  No code checks this; it is
\* what keeps the unconditional status writes of `complete`, `set_paused`
\* and `schedule_retry` (queue.rs:302-347) from landing on an item that was
\* paused, resumed or started again in the meantime.
OneOwner ==
  \A i \in Items :
    /\ \A g, h \in Generations : Live(i, g) /\ Live(i, h) => g = h
    /\ i \in starting => \A g \in Generations : ~Live(i, g)
    /\ status[i] = "active" => Owned(i)
    /\ status[i] # "absent" /\ Owned(i) => status[i] = "active"

\* The attempt count in the item a task cloned when it started is still the
\* item's own when the task fails, although handle_failure
\* (worker.rs:58-80) writes clone + 1 over whatever is there.
AttemptsCurrent ==
  \A i \in Present, g \in Generations :
    task[i][g].pc \in {"fetched", "running", "expanded"} =>
      task[i][g].attempts = attempts[i]

\* An item waiting for a worker still has an attempt left: the retries of
\* one item are bounded however pauses and resumes fall between them.
RetriesLeft ==
  \A i \in Items : status[i] \in {"queued", "active", "paused"} =>
                      attempts[i] <= MaxRetries

\* A transfer told to stop without `pausing` removes its own item
\* (worker.rs:53). While the item is in the queue that happens only under a
\* remove or clear command: no interleaving of pauses, of a disconnect and
\* of restarted transfers makes a task drop an item nobody removed.
OnlyRemovedIsDropped ==
  \A i \in Present, g \in Generations :
    Live(i, g) /\ task[i][g].cancelled /\ ~task[i][g].pausing =>
      command.dropping = i \/ command.op = "clear"

-----------------------------------------------------------------------------
(* Action properties.                                                      *)

\* A paused or failed item starts again only as the user's resume leaves it,
\* with no attempts and no delay: a worker task never revives it.
StoppedStaysStopped ==
  [][\A i \in Items : status[i] \in {"paused", "failed"} =>
       \/ status'[i] \in {status[i], "absent"}
       \/ status'[i] = "queued" /\ attempts'[i] = 0 /\ ~waiting'[i]]_vars

\* The number of Active items of a bound session never grows past its
\* max_transfers. (bind_session itself can exceed it, when it adopts the
\* still Active items of two closed sessions of the same site.)
CapKept ==
  [][\A s \in Sessions :
       link[s] = "open" /\ Cardinality(ActiveOn(s)) <= MaxTransfers[s] =>
         Cardinality(ActiveOn(s))' <= MaxTransfers[s]]_vars

-----------------------------------------------------------------------------
(* The queue implements the life cycle of module TransferLifecycle.        *)

Archived(i) == i \in history
               \/ \E g \in Generations : task[i][g].pc = "archiving"

phase ==
  [i \in Items |-> IF status[i] # "absent" THEN status[i]
                   ELSE IF i \in fresh THEN "new"
                   ELSE IF Archived(i) THEN "done"
                   ELSE "gone"]

Lifecycle == INSTANCE TransferLifecycle WITH Items <- Items, phase <- phase

\* Every behaviour of the queue is one of TransferLifecycle.
LifecycleSpec == Lifecycle!Spec

-----------------------------------------------------------------------------
(* What the user interface says of the queue, and the code does not do.    *)

\* 'Pause all transfers' (src/i18n/en.ts:33): when pause_all returns, no item
\* of the queue is still waiting to be started.
PauseAllStops ==
  command.op = "pause" /\ command.todo = {} =>
    \A i \in Items : status[i] # "queued"

\* 'pause and resume transfers' (README.md:5): pause finds the Control of
\* every transfer that is running.
RunningCanBePaused ==
  \A i \in Present, g \in Generations :
    task[i][g].pc = "running" => controls[i] = g
=============================================================================
