----------------------- MODULE TransferLifecycleProofs -----------------------
(***************************************************************************)
(* The queue implements TransferLifecycle, for every value of its          *)
(* constants, and no step starts a stopped item but the user's resume.     *)
(***************************************************************************)
EXTENDS TransferQueueProofs

\* An archived item is not in `items`: with the parts of IInv about unused
\* ids, what keeps an id that was finished from being "queued" again.
HistoryGone == \A i \in history : status[i] = "absent"

\* The phase of one item, and what StoppedStaysStopped says of one step.
PhaseOf(i) == IF status[i] # "absent" THEN status[i]
              ELSE IF i \in fresh THEN "new"
              ELSE IF Archived(i) THEN "done"
              ELSE "gone"

StoppedStep ==
  \A i \in Items : status[i] \in {"paused", "failed"} =>
    \/ status'[i] \in {status[i], "absent"}
    \/ status'[i] = "queued" /\ attempts'[i] = 0 /\ ~waiting'[i]

\* What the proof shows of each action.
StepOK == (Lifecycle!Next \/ phase' = phase) /\ HistoryGone' /\ StoppedStep

-----------------------------------------------------------------------------

LEMMA MoveOf ==
  ASSUME NEW S \in SUBSET Items, NEW from, NEW to,
         \A i \in S : PhaseOf(i) \in from /\ PhaseOf(i)' = to,
         \A i \in Items \ S : PhaseOf(i)' = PhaseOf(i)
  PROVE  Lifecycle!Move(S, from, to)
<1>1. /\ phase = [i \in Items |-> PhaseOf(i)]
      /\ phase' = [i \in Items |-> PhaseOf(i)']
  BY DEF phase, PhaseOf
<1>2. QED
  BY <1>1 DEF Lifecycle!Move

LEMMA NoMove ==
  ASSUME \A i \in Items : PhaseOf(i)' = PhaseOf(i)
  PROVE  phase' = phase
<1>1. /\ phase = [i \in Items |-> PhaseOf(i)]
      /\ phase' = [i \in Items |-> PhaseOf(i)']
  BY DEF phase, PhaseOf
<1>2. QED
  BY <1>1

LEMMA HistoryKeeps ==
  ASSUME IInv, HistoryGone,
         \A j \in history' : \/ j \in history
                             \/ \E h \in Generations : task[j][h].pc = "archiving",
         history' \subseteq Items,
         \A j \in Items \ fresh : status[j] = "absent" => status'[j] = "absent"
  PROVE  HistoryGone'
<1>1. \A j \in history' : j \in Items \ fresh /\ status[j] = "absent"
  BY DEF IInv, TypeOK, FreshOK, TaskOK, HistoryGone
<1>2. QED
  BY <1>1 DEF HistoryGone

\* An id that is in `items` is neither unused nor archived.
LEMMA PresentPhase ==
  ASSUME IInv, HistoryGone, NEW i \in Items, status[i] # "absent"
  PROVE  i \notin fresh /\ ~Archived(i) /\ PhaseOf(i) = status[i]
  BY DEF IInv, FreshOK, TaskOK, HistoryGone, Archived, PhaseOf

-----------------------------------------------------------------------------
(* Items that leave the queue, stop or start again; nothing is archived.   *)

LEMMA DropsStep ==
  ASSUME IInv, HistoryGone, NEW S, Forget(S),
         fresh' = fresh, history' = history,
         \A j \in Items, h \in Generations :
           task'[j][h].pc = "archiving" <=> task[j][h].pc = "archiving"
  PROVE  StepOK
<1> DEFINE T == {i \in Items : i \in S /\ status[i] # "absent"}
<1>0. /\ \A i \in Items : status'[i] = IF i \in S THEN "absent" ELSE status[i]
      /\ TypeOK
  BY DEF Forget, IInv
<1>1. \A i \in Items : Archived(i)' <=> Archived(i)
  BY DEF Archived
<1>2. \A i \in T : PhaseOf(i) \in Lifecycle!InQueue /\ PhaseOf(i)' = "gone"
  BY <1>0, <1>1, PresentPhase DEF PhaseOf, Lifecycle!InQueue, TypeOK, Status
<1>3. \A i \in Items \ T : PhaseOf(i)' = PhaseOf(i)
  BY <1>0, <1>1 DEF PhaseOf
<1>4. T \in SUBSET Items
  OBVIOUS
<1>5. Lifecycle!Remove(T)
  <2> HIDE DEF T
  <2>1. QED
    BY <1>2, <1>3, <1>4, MoveOf DEF Lifecycle!Remove
<1>6. Lifecycle!Next
  BY <1>4, <1>5 DEF Lifecycle!Next
<1>7. HistoryGone'
  BY <1>0, HistoryKeeps DEF TypeOK
<1>8. QED
  BY <1>0, <1>6, <1>7 DEF StepOK, StoppedStep

LEMMA RequeuedStep ==
  ASSUME IInv, HistoryGone, NEW S \in SUBSET Items,
         NEW from \in SUBSET {"paused", "failed"}, Requeued(S, from),
         UNCHANGED <<fresh, history, task>>
  PROVE  StepOK
<1> DEFINE T == {i \in Items : i \in S /\ status[i] \in from}
<1>0. /\ \A i \in Items :
           /\ status'[i] = IF i \in T THEN "queued" ELSE status[i]
           /\ i \in T => attempts'[i] = 0 /\ ~waiting'[i]
      /\ TypeOK
  BY DEF Requeued, IInv
<1>1. \A i \in Items : Archived(i)' <=> Archived(i)
  BY DEF Archived
<1>2. \A i \in T : PhaseOf(i) \in {"paused", "failed"} /\ PhaseOf(i)' = "queued"
  BY <1>0 DEF PhaseOf
<1>3. \A i \in Items \ T : PhaseOf(i)' = PhaseOf(i)
  BY <1>0, <1>1 DEF PhaseOf
<1>4. T \in SUBSET Items
  OBVIOUS
<1>5. Lifecycle!Resume(T)
  <2> HIDE DEF T
  <2>1. QED
    BY <1>2, <1>3, <1>4, MoveOf DEF Lifecycle!Resume
<1>6. Lifecycle!Next
  BY <1>4, <1>5 DEF Lifecycle!Next
<1>7. HistoryGone'
  BY <1>0, HistoryKeeps DEF TypeOK
<1>8. QED
  BY <1>0, <1>6, <1>7 DEF StepOK, StoppedStep

\* One item of the queue changes its status by a move of the life cycle.
LEMMA OneMoves ==
  ASSUME IInv, HistoryGone, NEW i \in Items, NEW to, to # "absent",
         \/ status[i] = "active" /\ to \in {"queued", "failed"}
         \/ status[i] \in {"queued", "active"} /\ to = "paused",
         \A j \in Items : status'[j] = IF j = i THEN to ELSE status[j],
         fresh' = fresh, history' = history,
         \A j \in Items, h \in Generations :
           task'[j][h].pc = "archiving" <=> task[j][h].pc = "archiving"
  PROVE  StepOK
<1>1. \A j \in Items : Archived(j)' <=> Archived(j)
  BY DEF Archived
<1>2. PhaseOf(i) = status[i] /\ PhaseOf(i)' = to
  BY DEF PhaseOf
<1>3. \A j \in Items \ {i} : PhaseOf(j)' = PhaseOf(j)
  BY <1>1 DEF PhaseOf
<1>4. \A from : status[i] \in from => Lifecycle!Move({i}, from, to)
  BY <1>2, <1>3, MoveOf
<1>5. Lifecycle!Next
  <2>1. CASE to = "queued"
    BY <1>4, <2>1 DEF Lifecycle!Next, Lifecycle!Retry
  <2>2. CASE to = "failed"
    BY <1>4, <2>2 DEF Lifecycle!Next, Lifecycle!Fail
  <2>3. CASE to = "paused"
    BY <1>4, <2>3 DEF Lifecycle!Next, Lifecycle!Pause
  <2>4. QED
    BY <2>1, <2>2, <2>3
<1>6. HistoryGone'
  BY HistoryKeeps DEF IInv, TypeOK
<1>7. QED
  BY <1>5, <1>6 DEF StepOK, StoppedStep

\* A step that neither changes a status nor uses an id nor archives.
LEMMA SameStatus ==
  ASSUME IInv, HistoryGone,
         status' = status, fresh' = fresh, history' = history,
         \A j \in Items, h \in Generations :
           task'[j][h].pc = "archiving" <=> task[j][h].pc = "archiving"
  PROVE  StepOK
<1>1. \A j \in Items : Archived(j)' <=> Archived(j)
  BY DEF Archived
<1>2. phase' = phase
  BY <1>1, NoMove DEF PhaseOf
<1>3. HistoryGone'
  BY HistoryKeeps DEF IInv, TypeOK
<1>4. QED
  BY <1>2, <1>3 DEF StepOK, StoppedStep

-----------------------------------------------------------------------------
(* The scheduler.                                                          *)

LEMMA MarkStep ==
  ASSUME IInv, HistoryGone, NEW S \in SUBSET Items,
         NEW seen \in SUBSET Sessions, Mark(S, seen)
  PROVE  StepOK
<1>1. \A i \in S : status[i] = "queued"
  BY DEF Mark, Ready
<1>2. \A i \in Items : status'[i] = IF i \in S THEN "active" ELSE status[i]
  BY DEF Mark
<1>3. \A i \in Items : Archived(i)' <=> Archived(i)
  BY DEF Mark, Archived
<1>4. \A i \in S : PhaseOf(i) \in {"queued"} /\ PhaseOf(i)' = "active"
  BY <1>1, <1>2 DEF PhaseOf
<1>5. \A i \in Items \ S : PhaseOf(i)' = PhaseOf(i)
  BY <1>2, <1>3 DEF PhaseOf, Mark
<1>6. Lifecycle!Start(S)
  BY <1>4, <1>5, MoveOf DEF Lifecycle!Start
<1>7. Lifecycle!Next
  BY <1>6 DEF Lifecycle!Next
<1>8. HistoryGone'
  BY <1>1, <1>2, HistoryKeeps DEF IInv, TypeOK, Mark
<1>9. StoppedStep
  BY <1>1, <1>2 DEF StoppedStep
<1>10. QED
  BY <1>7, <1>8, <1>9 DEF StepOK

\* Settle with any program counter but "archiving", on a task that is not
\* archiving, archives nothing.
LEMMA SettleArchives ==
  ASSUME IInv, NEW i \in Items, NEW g \in Generations,
         NEW pc \in TaskPC \ {"archiving"}, Settle(i, g, pc),
         task[i][g].pc # "archiving"
  PROVE  \A j \in Items, h \in Generations :
           task'[j][h].pc = "archiving" <=> task[j][h].pc = "archiving"
<1>1. /\ task'[i][g].pc = pc
      /\ \A j \in Items, h \in Generations :
           j # i \/ h # g => task'[j][h] = task[j][h]
  BY SettleTask DEF IInv
<1>2. QED
  BY <1>1

LEMMA RegisterStep ==
  ASSUME IInv, HistoryGone, NEW i \in starting, NEW g \in Generations,
         Register(i, g)
  PROVE  StepOK
<1>1. i \in Items /\ "spawned" \in TaskPC \ {"archiving"}
  BY DEF IInv, TypeOK, TaskPC, LivePC
<1>2. QED
  BY <1>1, SettleArchives, SameStatus DEF Register

-----------------------------------------------------------------------------
(* The actions of a worker task.                                           *)

\* While a task is live its item is active or has left the queue.
LEMMA LiveItem ==
  ASSUME IInv, NEW i \in Items, NEW g \in Generations, Live(i, g)
  PROVE  /\ status[i] \in {"active", "absent"}
         /\ i \notin fresh
         /\ task[i][g].pc \notin {"idle", "archiving", "releasing"}
  BY DEF IInv, OneOwner, Owned, TaskOK, Live, LivePC

LEMMA FetchStep ==
  ASSUME IInv, HistoryGone, NEW i \in Items, NEW g \in Generations,
         Fetch(i, g)
  PROVE  StepOK
<1>1. status' = status /\ fresh' = fresh /\ history' = history
  BY DEF Fetch, itemVars
<1>2. \A j \in Items, h \in Generations :
        task'[j][h].pc = "archiving" <=> task[j][h].pc = "archiving"
  <2>1. CASE status[i] = "absent"
    BY <2>1, SettleArchives DEF Fetch, EndTask, TaskPC
  <2>2. CASE status[i] # "absent"
    <3> DEFINE t == [task[i][g] EXCEPT !.pc = "fetched",
                                       !.session = session[i],
                                       !.attempts = attempts[i]]
    <3>1. task[i][g] \in Task /\ task \in [Items -> [Generations -> Task]]
      BY DEF IInv, TypeOK
    <3>2. t.pc = "fetched"
      BY <3>1 DEF Task
    <3>3. task' = [task EXCEPT ![i][g] = t]
      BY <2>2 DEF Fetch
    <3> HIDE DEF t
    <3>4. QED
      BY <3>1, <3>2, <3>3 DEF Fetch
  <2>3. QED
    BY <2>1, <2>2
<1>3. QED
  BY <1>1, <1>2, SameStatus

LEMMA FindSessionStep ==
  ASSUME IInv, HistoryGone, NEW i \in Items, NEW g \in Generations,
         FindSession(i, g)
  PROVE  StepOK
<1>1. /\ task'[i][g].pc = "running"
      /\ \A j \in Items, h \in Generations :
           j # i \/ h # g => task'[j][h] = task[j][h]
  BY SetPCTask DEF FindSession, IInv, TaskPC, LivePC
<1>2. QED
  BY <1>1, SameStatus DEF FindSession, itemVars

LEMMA SucceedStep ==
  ASSUME IInv, HistoryGone, NEW i \in Items, NEW g \in Generations,
         Live(i, g), Succeed(i, g)
  PROVE  StepOK
<1>1. CASE status[i] = "absent"
  <2>1. Settle(i, g, "idle") /\ status' = status /\ fresh' = fresh
        /\ history' = history
    BY <1>1 DEF Succeed, EndTask, itemVars
  <2>2. QED
    BY <2>1, LiveItem, SettleArchives, SameStatus DEF TaskPC
<1>2. CASE status[i] # "absent"
  <2>1. Forget({i}) /\ Settle(i, g, "archiving") /\ fresh' = fresh
        /\ history' = history
    BY <1>2 DEF Succeed
  <2>2. \A j \in Items : status'[j] = IF j = i THEN "absent" ELSE status[j]
    BY <2>1 DEF Forget
  <2>3. /\ task'[i][g].pc = "archiving"
        /\ \A j \in Items, h \in Generations :
             j # i \/ h # g => task'[j][h] = task[j][h]
    BY <2>1, SettleTask DEF IInv, TaskPC
  <2>4. \A j \in Items \ {i} : Archived(j)' <=> Archived(j)
    BY <2>1, <2>3 DEF Archived
  <2>5. PhaseOf(i) \in {"active"} /\ PhaseOf(i)' = "done"
    BY <1>2, <2>1, <2>2, <2>3, LiveItem DEF PhaseOf, Archived
  <2>6. \A j \in Items \ {i} : PhaseOf(j)' = PhaseOf(j)
    BY <2>1, <2>2, <2>4 DEF PhaseOf
  <2>7. Lifecycle!Succeed(i)
    BY <2>5, <2>6, MoveOf DEF Lifecycle!Succeed
  <2>8. Lifecycle!Next
    BY <2>7 DEF Lifecycle!Next
  <2>9. HistoryGone'
    BY <2>1, <2>2, HistoryKeeps DEF IInv, TypeOK
  <2>10. QED
    BY <2>2, <2>8, <2>9 DEF StepOK, StoppedStep
<1>3. QED
  BY <1>1, <1>2

LEMMA FinishStep ==
  ASSUME IInv, HistoryGone, NEW i \in Items, NEW g \in Generations,
         FinishFile(i, g) \/ FinishDir(i, g)
  PROVE  StepOK
<1>1. Live(i, g) /\ Succeed(i, g)
  BY DEF FinishFile, FinishDir, Live, LivePC
<1>2. QED
  BY <1>1, SucceedStep

LEMMA GiveUpStep ==
  ASSUME IInv, HistoryGone, NEW i \in Items, NEW g \in Generations, NEW n,
         Live(i, g), GiveUp(i, g, n)
  PROVE  StepOK
<1>1. fresh' = fresh /\ history' = history
  BY DEF GiveUp
<1>2. CASE status[i] = "absent"
  BY <1>1, <1>2, LiveItem, SettleArchives, SameStatus
  DEF GiveUp, EndTask, TaskPC
<1>3. CASE status[i] # "absent"
  <2>1. Settle(i, g, "releasing") /\ status' = [status EXCEPT ![i] = "failed"]
    BY <1>3 DEF GiveUp
  <2>2. \A j \in Items : status'[j] = IF j = i THEN "failed" ELSE status[j]
    BY <2>1 DEF IInv, TypeOK
  <2>3. QED
    BY <1>1, <1>3, <2>1, <2>2, LiveItem, SettleArchives, OneMoves DEF TaskPC
<1>4. QED
  BY <1>2, <1>3

LEMMA FailStep ==
  ASSUME IInv, HistoryGone, NEW i \in Items, NEW g \in Generations,
         NoConnection(i, g) \/ FailForGood(i, g)
  PROVE  StepOK
<1>1. Live(i, g) /\ \E n : GiveUp(i, g, n)
  BY DEF NoConnection, FailForGood, Live, LivePC
<1>2. QED
  BY <1>1, GiveUpStep

LEMMA FailRetryStep ==
  ASSUME IInv, HistoryGone, NEW i \in Items, NEW g \in Generations,
         FailRetry(i, g)
  PROVE  StepOK
<1>1. /\ fresh' = fresh /\ history' = history
      /\ Settle(i, g, "releasing") /\ Live(i, g)
  BY DEF FailRetry, Live, LivePC
<1>2. CASE status[i] = "absent"
  BY <1>1, <1>2, LiveItem, SettleArchives, SameStatus DEF FailRetry, TaskPC
<1>3. CASE status[i] # "absent"
  <2>1. \A j \in Items : status'[j] = IF j = i THEN "queued" ELSE status[j]
    BY <1>3 DEF FailRetry, IInv, TypeOK
  <2>2. QED
    BY <1>1, <1>3, <2>1, LiveItem, SettleArchives, OneMoves DEF TaskPC
<1>4. QED
  BY <1>2, <1>3

LEMMA PauseSeenStep ==
  ASSUME IInv, HistoryGone, NEW i \in Items, NEW g \in Generations,
         PauseSeen(i, g)
  PROVE  StepOK
<1>1. /\ fresh' = fresh /\ history' = history
      /\ Settle(i, g, "releasing") /\ Live(i, g)
  BY DEF PauseSeen, Live, LivePC
<1>2. CASE status[i] = "absent"
  BY <1>1, <1>2, LiveItem, SettleArchives, SameStatus DEF PauseSeen, TaskPC
<1>3. CASE status[i] # "absent"
  <2>1. \A j \in Items : status'[j] = IF j = i THEN "paused" ELSE status[j]
    BY <1>3 DEF PauseSeen, IInv, TypeOK
  <2>2. QED
    BY <1>1, <1>3, <2>1, LiveItem, SettleArchives, OneMoves DEF TaskPC
<1>4. QED
  BY <1>2, <1>3

LEMMA CancelSeenStep ==
  ASSUME IInv, HistoryGone, NEW i \in Items, NEW g \in Generations,
         CancelSeen(i, g)
  PROVE  StepOK
<1>1. /\ fresh' = fresh /\ history' = history /\ Forget({i})
      /\ Settle(i, g, "idle") /\ Live(i, g)
  BY DEF CancelSeen, EndTask, Live, LivePC
<1>2. QED
  BY <1>1, LiveItem, SettleArchives, DropsStep DEF TaskPC

LEMMA ExpandStep ==
  ASSUME IInv, HistoryGone, NEW i \in Items, NEW g \in Generations,
         NEW kids \in SUBSET fresh, Expand(i, g, kids)
  PROVE  StepOK
<1>1. /\ kids \in SUBSET Items
      /\ \A k \in Items : status'[k] = IF k \in kids THEN "queued" ELSE status[k]
      /\ fresh' = fresh \ kids /\ history' = history
  BY DEF Expand, IInv, TypeOK
<1>2. \A j \in Items : Archived(j)' <=> Archived(j)
  <2>1. /\ task'[i][g].pc = "expanded" /\ task[i][g].pc = "running"
        /\ \A j \in Items, h \in Generations :
             j # i \/ h # g => task'[j][h] = task[j][h]
    BY SetPCTask DEF Expand, IInv, TaskPC, LivePC
  <2>2. QED
    BY <1>1, <2>1 DEF Archived
<1>3. \A k \in kids : PhaseOf(k) \in {"new"} /\ PhaseOf(k)' = "queued"
  BY <1>1 DEF PhaseOf, IInv, FreshOK
<1>4. \A k \in Items \ kids : PhaseOf(k)' = PhaseOf(k)
  BY <1>1, <1>2 DEF PhaseOf
<1>5. Lifecycle!Enter(kids)
  BY <1>1, <1>3, <1>4, MoveOf DEF Lifecycle!Enter
<1>6. Lifecycle!Next
  BY <1>1, <1>5 DEF Lifecycle!Next
<1>7. HistoryGone'
  BY <1>1, HistoryKeeps DEF IInv, TypeOK
<1>8. StoppedStep
  BY <1>1 DEF StoppedStep, IInv, FreshOK
<1>9. QED
  BY <1>6, <1>7, <1>8 DEF StepOK

\* The item was archived before and after: only the place of that differs.
LEMMA ArchiveStep ==
  ASSUME IInv, HistoryGone, NEW i \in Items, NEW g \in Generations,
         Archive(i, g)
  PROVE  StepOK
<1>1. /\ status' = status /\ fresh' = fresh /\ history' = history \cup {i}
      /\ task[i][g].pc = "archiving"
  BY DEF Archive
<1>2. \A j \in Items, h \in Generations :
        j # i \/ h # g => task'[j][h] = task[j][h]
  BY SettleTask DEF Archive, IInv, TaskPC
<1>3. \A j \in Items : Archived(j)' <=> Archived(j)
  BY <1>1, <1>2 DEF Archived
<1>4. phase' = phase
  BY <1>1, <1>3, NoMove DEF PhaseOf
<1>5. HistoryGone'
  BY <1>1, HistoryKeeps DEF IInv, TypeOK
<1>6. QED
  BY <1>1, <1>4, <1>5 DEF StepOK, StoppedStep

LEMMA ReleaseStep ==
  ASSUME IInv, HistoryGone, NEW i \in Items, NEW g \in Generations,
         Release(i, g)
  PROVE  StepOK
BY SettleArchives, SameStatus DEF Release, EndTask, itemVars, TaskPC

-----------------------------------------------------------------------------
(* Timers, commands and sessions.                                          *)

LEMMA AddStep ==
  ASSUME IInv, HistoryGone, NEW i \in Items, NEW s \in Sessions,
         NEW first \in {"queued", "paused"}, Add(i, s, first)
  PROVE  StepOK
<1>1. /\ i \in fresh /\ fresh' = fresh \ {i} /\ history' = history
      /\ \A j \in Items : status'[j] = IF j = i THEN first ELSE status[j]
  BY DEF Add, IInv, TypeOK
<1>2. \A j \in Items : Archived(j)' <=> Archived(j)
  BY DEF Add, Archived
<1>3. PhaseOf(i) \in {"new"} /\ PhaseOf(i)' = first
  BY <1>1 DEF PhaseOf, IInv, FreshOK
<1>4. \A j \in Items \ {i} : PhaseOf(j)' = PhaseOf(j)
  BY <1>1, <1>2 DEF PhaseOf
<1>5. Lifecycle!Enter({i})
  BY <1>3, <1>4, MoveOf DEF Lifecycle!Enter
<1>6. Lifecycle!Next
  BY <1>5 DEF Lifecycle!Next
<1>7. HistoryGone'
  BY <1>1, HistoryKeeps DEF IInv, TypeOK
<1>8. StoppedStep
  BY <1>1 DEF StoppedStep, IInv, FreshOK
<1>9. QED
  BY <1>6, <1>7, <1>8 DEF StepOK

LEMMA PausesStep ==
  ASSUME IInv, HistoryGone, NEW i \in Items,
         Pause(i) \/ PauseNext(i) \/ UnbindPause(i)
  PROVE  StepOK
<1>1. PauseItem(i) /\ fresh' = fresh /\ history' = history
  BY DEF Pause, PauseNext, UnbindPause
<1>2. \A j \in Items, h \in Generations : task'[j][h].pc = task[j][h].pc
  BY <1>1, PauseItemKeeps DEF IInv
<1>3. CASE status' = status
  BY <1>1, <1>2, <1>3, SameStatus
<1>4. CASE status[i] = "queued" /\ status' = [status EXCEPT ![i] = "paused"]
  <2>1. \A j \in Items : status'[j] = IF j = i THEN "paused" ELSE status[j]
    BY <1>4 DEF IInv, TypeOK
  <2>2. QED
    BY <1>1, <1>2, <1>4, <2>1, OneMoves
<1>5. QED
  BY <1>1, <1>3, <1>4 DEF PauseItem

LEMMA ResumesStep ==
  ASSUME IInv, HistoryGone,
         \/ \E i \in Items : Resume(i) \/ ResumeNext(i)
         \/ RetryFailed
  PROVE  StepOK
<1>1. /\ UNCHANGED <<fresh, history, task>>
      /\ \E S \in SUBSET Items, from \in SUBSET {"paused", "failed"} :
           Requeued(S, from)
  <2>1. \A i \in Items : {i} \in SUBSET Items
    OBVIOUS
  <2>2. QED
    BY <2>1 DEF Resume, ResumeNext, RetryFailed
<1>2. QED
  BY <1>1, RequeuedStep

LEMMA LeavesStep ==
  ASSUME IInv, HistoryGone, RemoveFailed \/ RemoveDrop \/ ClearDrop
  PROVE  StepOK
<1>1. UNCHANGED <<fresh, history, task>> /\ \E S : Forget(S)
  BY DEF RemoveFailed, RemoveDrop, ClearDrop
<1>2. QED
  BY <1>1, DropsStep

\* The finished items of the history are forgotten, but for the one that is
\* just being archived.
LEMMA ClearHistoryStep ==
  ASSUME IInv, HistoryGone, ClearHistory
  PROVE  StepOK
<1> DEFINE T == {i \in history : \A g \in Generations :
                                   task[i][g].pc # "archiving"}
<1>1. /\ UNCHANGED <<fresh, status, task>> /\ history' = {}
      /\ T \in SUBSET Items
  BY DEF ClearHistory, IInv, TypeOK
<1>2. \A i \in T : PhaseOf(i) \in {"done"} /\ PhaseOf(i)' = "gone"
  BY <1>1 DEF PhaseOf, Archived, HistoryGone, IInv, FreshOK
<1>3. \A i \in Items \ T : Archived(i)' <=> Archived(i)
  BY <1>1 DEF Archived
<1>4. \A i \in Items \ T : PhaseOf(i)' = PhaseOf(i)
  BY <1>1, <1>3 DEF PhaseOf
<1>5. Lifecycle!Forget(T)
  <2> HIDE DEF T
  <2>1. QED
    BY <1>1, <1>2, <1>4, MoveOf DEF Lifecycle!Forget
<1>6. Lifecycle!Next
  BY <1>1, <1>5 DEF Lifecycle!Next
<1>7. HistoryGone' /\ StoppedStep
  BY <1>1 DEF HistoryGone, StoppedStep
<1>8. QED
  BY <1>6, <1>7 DEF StepOK

\* What only begins, ends or prepares a command, and what sessions do.
LEMMA QuietStep ==
  ASSUME IInv, HistoryGone,
         \/ PauseAll \/ ResumeAll \/ Clear \/ Return
         \/ \E i \in Items : Remove(i) \/ RemoveCancel(i) \/ RetryDue(i)
         \/ \E b \in {BatchOf[i] : i \in Items} : RemoveBatch(b)
         \/ \E s \in Sessions : Connect(s) \/ Bind(s) \/ UnbindBegin(s)
         \/ UnbindClear \/ Disconnect
  PROVE  StepOK
<1>1. UNCHANGED <<status, fresh, history>>
  BY DEF PauseAll, ResumeAll, Clear, Return, Remove, RemoveCancel, RetryDue,
         RemoveBatch, Begin, Connect, Bind, UnbindBegin, UnbindClear,
         Disconnect, itemVars
<1>2. task' = task \/ \E S \in SUBSET Items : task' = Cancelled(S, FALSE)
  BY DEF PauseAll, ResumeAll, Clear, Return, Remove, RemoveCancel, RetryDue,
         RemoveBatch, Begin, Connect, Bind, UnbindBegin, UnbindClear,
         Disconnect, itemVars
<1>3. \A j \in Items, h \in Generations : task'[j][h].pc = task[j][h].pc
  BY <1>2, CancelledTask DEF IInv
<1>4. QED
  BY <1>1, <1>3, SameStatus

-----------------------------------------------------------------------------

LEMMA NextStep == IInv /\ HistoryGone /\ [Next]_vars => StepOK
<1> SUFFICES ASSUME IInv, HistoryGone, [Next]_vars PROVE StepOK
  OBVIOUS
<1>1. CASE Scheduler
  BY <1>1, MarkStep, RegisterStep DEF Scheduler
<1>2. CASE \E i \in Items : RetryDue(i)
  BY <1>2, QuietStep
<1>3. ASSUME NEW i \in Items, NEW g \in Generations, WorkerStep(i, g)
      PROVE  StepOK
  BY <1>3, FetchStep, FindSessionStep, FailStep, FinishStep, ExpandStep,
     ArchiveStep, PauseSeenStep, CancelSeenStep, FailRetryStep, ReleaseStep
  DEF WorkerStep
<1>4. CASE CommandStep
  BY <1>4, PausesStep, ResumesStep, LeavesStep, QuietStep DEF CommandStep
<1>5. CASE User
  BY <1>5, AddStep, PausesStep, ResumesStep, LeavesStep, ClearHistoryStep,
     QuietStep DEF User
<1>6. CASE SessionStep
  BY <1>6, PausesStep, QuietStep DEF SessionStep, DisconnectStep
<1>7. CASE UNCHANGED vars
  BY <1>7, SameStatus DEF vars
<1>8. QED
  BY <1>1, <1>2, <1>3, <1>4, <1>5, <1>6, <1>7 DEF Next

LEMMA InitStep == Init => HistoryGone /\ Lifecycle!Init
<1> SUFFICES ASSUME Init PROVE HistoryGone /\ Lifecycle!Init
  OBVIOUS
<1>1. HistoryGone
  BY DEF Init, HistoryGone
<1>2. phase = [i \in Items |-> "new"]
  BY DEF Init, phase
<1>3. QED
  BY <1>1, <1>2 DEF Lifecycle!Init

\* An archived item never comes back.
LEMMA HistoryIsGone == Spec => []HistoryGone
<1>1. IInv /\ HistoryGone /\ [Next]_vars => HistoryGone'
  BY NextStep DEF StepOK
<1>2. QED
  BY <1>1, InitStep, Invariant, PTL DEF Spec

\* Every behaviour of the queue is one of TransferLifecycle: a success comes
\* only from an attempt that was running, is final, and an id that left the
\* queue never comes back (queue.rs:302-347, 605-663).
THEOREM ImplementsLifecycle == Spec => LifecycleSpec
<1>1. IInv /\ HistoryGone /\ [Next]_vars => [Lifecycle!Next]_phase
  BY NextStep DEF StepOK
<1>2. QED
  BY <1>1, InitStep, HistoryIsGone, Invariant, PTL
  DEF Spec, LifecycleSpec, Lifecycle!Spec

\* A paused or failed item starts again only as the user's resume leaves it
\* (queue.rs:302-347 write the status of an item without looking at it).
THEOREM StoppedStays == Spec => StoppedStaysStopped
<1>1. IInv /\ HistoryGone /\ [Next]_vars => [StoppedStep]_vars
  BY NextStep DEF StepOK
<1>2. QED
  BY <1>1, HistoryIsGone, Invariant, PTL
  DEF Spec, StoppedStaysStopped, StoppedStep
=============================================================================
