------------------------- MODULE TransferQueueProofs -------------------------
(***************************************************************************)
(* Theorems about TransferQueue for every value of its constants: first    *)
(* the types, the owners and the attempts of the items, then what a worker *)
(* task may do to its item: it counts its attempts from the item's own     *)
(* count, and it drops an item only on the user's command; and the         *)
(* scheduler never fills a session past its limit.                         *)
(***************************************************************************)
EXTENDS TransferQueue, FiniteSetTheorems, TLAPS

\* What a task knows of its item, and what an unused id looks like.
TaskOK ==
  \A i \in Items, g \in Generations :
    /\ task[i][g].pc \in {"fetched", "running", "expanded"} =>
         task[i][g].attempts <= MaxRetries
    /\ task[i][g].pc = "archiving" => status[i] = "absent"
    /\ i \in fresh => task[i][g].pc = "idle"

FreshOK == \A i \in fresh : /\ status[i] = "absent"
                            /\ i \notin starting
                            /\ i \notin history
                            /\ attempts[i] = 0

\* The inductive invariant.
IInv == TypeOK /\ OneOwner /\ RetriesLeft /\ TaskOK /\ FreshOK

LEMMA InitInv == Init => IInv
<1> SUFFICES ASSUME Init PROVE IInv
  OBVIOUS
<1> USE ItemsAssumption, RetryAssumption DEF Init, IdleTask
<1>1. TypeOK
  BY DEF TypeOK, Status, Link, Idle, NotClosing, Command, Closing, CommandOp, Task, TaskPC, LivePC
<1>2. OneOwner /\ RetriesLeft /\ TaskOK /\ FreshOK
  BY DEF OneOwner, Owned, Live, LivePC, RetriesLeft, TaskOK, FreshOK
<1>3. QED
  BY <1>1, <1>2 DEF IInv

-----------------------------------------------------------------------------

\* Settle writes one task and makes it idle but for its program counter.
LEMMA SettleTask ==
  ASSUME TypeOK, NEW i \in Items, NEW g \in Generations, NEW pc \in TaskPC,
         Settle(i, g, pc)
  PROVE  /\ task' \in [Items -> [Generations -> Task]]
         /\ task'[i][g].pc = pc
         /\ \A j \in Items, h \in Generations :
              j # i \/ h # g => task'[j][h] = task[j][h]
<1> DEFINE t == [IdleTask EXCEPT !.pc = pc]
<1>1. t \in Task /\ t.pc = pc
  <2>1. IdleTask \in Task
    BY RetryAssumption DEF Task, TaskPC, IdleTask
  <2>2. QED
    BY <2>1 DEF Task
<1>2. task' = [task EXCEPT ![i][g] = t]
  BY DEF Settle
<1> HIDE DEF t
<1>3. QED
  BY <1>1, <1>2 DEF TypeOK

\* SetPC changes nothing but a program counter.
LEMMA SetPCTask ==
  ASSUME TypeOK, NEW i \in Items, NEW g \in Generations, NEW pc \in TaskPC,
         SetPC(i, g, pc)
  PROVE  /\ task' \in [Items -> [Generations -> Task]]
         /\ task'[i][g].pc = pc
         /\ task'[i][g].attempts = task[i][g].attempts
         /\ \A j \in Items, h \in Generations :
              j # i \/ h # g => task'[j][h] = task[j][h]
<1> DEFINE t == [task[i][g] EXCEPT !.pc = pc]
<1>1. t \in Task /\ t.pc = pc /\ t.attempts = task[i][g].attempts
  <2>1. task[i][g] \in Task
    BY DEF TypeOK
  <2>2. QED
    BY <2>1 DEF Task
<1>2. task' = [task EXCEPT ![i][g] = t]
  BY DEF SetPC
<1> HIDE DEF t
<1>3. QED
  BY <1>1, <1>2 DEF TypeOK

LEMMA MarkInv ==
  ASSUME IInv, NEW S \in SUBSET Items, NEW seen \in SUBSET Sessions,
         Mark(S, seen)
  PROVE  IInv'
<1> USE RetryAssumption DEF IInv, Mark
<1>1. S \subseteq {i \in Items : status[i] = "queued"}
  BY DEF Ready
<1>2. TypeOK'
  BY <1>1 DEF TypeOK, Status
<1>3. OneOwner'
  BY <1>1 DEF TypeOK, OneOwner, Owned, Live
<1>4. (RetriesLeft /\ TaskOK /\ FreshOK)'
  BY <1>1 DEF TypeOK, RetriesLeft, TaskOK, FreshOK
<1>5. QED
  BY <1>2, <1>3, <1>4

LEMMA RegisterInv ==
  ASSUME IInv, NEW i \in starting, NEW g \in Generations, Register(i, g)
  PROVE  IInv'
<1>0. i \in Items /\ "spawned" \in TaskPC /\ TypeOK
  BY DEF IInv, TypeOK, TaskPC, LivePC
<1>1. Settle(i, g, "spawned")
  BY DEF Register
<1>2. /\ task' \in [Items -> [Generations -> Task]]
      /\ task'[i][g].pc = "spawned"
      /\ \A j \in Items, h \in Generations :
           j # i \/ h # g => task'[j][h] = task[j][h]
  BY <1>0, <1>1, SettleTask
<1>3. \A j \in Items, h \in Generations :
        Live(j, h)' <=> (j = i /\ h = g) \/ Live(j, h)
  BY <1>2 DEF Live, LivePC
<1>4. TypeOK'
  BY <1>0, <1>2 DEF Register, TypeOK
<1>5. OneOwner'
  BY <1>0, <1>3 DEF IInv, Register, OneOwner, Owned
<1>6. (RetriesLeft /\ FreshOK)'
  BY DEF IInv, Register, RetriesLeft, FreshOK
<1>7. TaskOK'
  BY <1>0, <1>2 DEF IInv, Register, FreshOK, TaskOK
<1>8. QED
  BY <1>4, <1>5, <1>6, <1>7 DEF IInv

-----------------------------------------------------------------------------
(* Three ways to keep the invariant, and each action is one of them: a     *)
(* command leaves the tasks where they are, a task moves on, a task ends.  *)

LEMMA CommandKeeps ==
  ASSUME IInv, TypeOK',
         starting' = starting, fresh' \subseteq fresh, history' \subseteq history,
         \A j \in Items, h \in Generations :
           /\ task'[j][h].pc = task[j][h].pc
           /\ task'[j][h].attempts = task[j][h].attempts,
         \A j \in Items :
           \/ status'[j] = status[j] /\ attempts'[j] = attempts[j]
           \/ status'[j] = "absent" /\ attempts'[j] = 0
           \/ /\ status[j] \in {"queued", "paused", "failed"}
              /\ status'[j] \in {"queued", "paused"}
              /\ attempts'[j] <= MaxRetries
           \/ /\ j \in fresh \ fresh'
              /\ status'[j] \in {"queued", "paused"}
              /\ attempts'[j] = attempts[j]
  PROVE  IInv'
<1>1. \A j \in Items : j \in fresh => ~Owned(j)
  BY DEF IInv, FreshOK, TaskOK, Owned, Live, LivePC
<1>2. \A j \in Items, h \in Generations : Live(j, h)' <=> Live(j, h)
  BY DEF Live
<1>3. OneOwner'
  BY <1>1, <1>2 DEF IInv, OneOwner, Owned
<1>4. RetriesLeft'
  BY RetryAssumption DEF IInv, RetriesLeft, FreshOK
<1>5. FreshOK'
  BY DEF IInv, FreshOK, TypeOK
<1>6. TaskOK'
  <2>1. \A j \in Items, h \in Generations :
          task[j][h].pc = "archiving" => status'[j] = "absent"
    BY DEF IInv, TaskOK
  <2>2. QED
    BY <2>1 DEF IInv, TaskOK
<1>7. QED
  BY <1>3, <1>4, <1>5, <1>6 DEF IInv

LEMMA TaskMoves ==
  ASSUME IInv, TypeOK', NEW i \in Items, NEW g \in Generations,
         Live(i, g), Live(i, g)', task'[i][g].attempts <= MaxRetries,
         \A j \in Items, h \in Generations :
           j # i \/ h # g => task'[j][h] = task[j][h],
         starting' = starting, fresh' \subseteq fresh, history' = history,
         attempts' = attempts,
         \A j \in Items : \/ status'[j] = status[j]
                          \/ j \in fresh \ fresh' /\ status'[j] = "queued"
  PROVE  IInv'
<1>1. \A j \in Items : j \in fresh => ~Owned(j)
  BY DEF IInv, FreshOK, TaskOK, Owned, Live, LivePC
<1>2. \A j \in Items, h \in Generations : Live(j, h)' <=> Live(j, h)
  BY DEF Live
<1>3. OneOwner'
  BY <1>1, <1>2 DEF IInv, OneOwner, Owned, FreshOK
<1>4. RetriesLeft'
  BY RetryAssumption DEF IInv, RetriesLeft, FreshOK
<1>5. FreshOK'
  BY DEF IInv, FreshOK, TypeOK
<1>6. TaskOK'
  <2>1. i \notin fresh /\ task'[i][g].pc # "archiving"
    BY DEF IInv, TaskOK, Live, LivePC
  <2>2. \A j \in Items, h \in Generations :
          task[j][h].pc = "archiving" => status'[j] = "absent"
    BY DEF IInv, TaskOK
  <2>3. QED
    BY <2>1, <2>2 DEF IInv, TaskOK
<1>7. QED
  BY <1>3, <1>4, <1>5, <1>6 DEF IInv

LEMMA TaskEnds ==
  ASSUME IInv, TypeOK', NEW i \in Items, NEW g \in Generations,
         NEW pc \in {"idle", "archiving", "releasing"},
         task[i][g].pc # "idle", task'[i][g].pc = pc,
         \A j \in Items, h \in Generations :
           j # i \/ h # g => task'[j][h] = task[j][h],
         starting' = starting, fresh' = fresh, history' \subseteq history \cup {i},
         \A j \in Items : j # i => status'[j] = status[j] /\ attempts'[j] = attempts[j],
         Live(i, g) => status'[i] # "active",
         ~Live(i, g) => status'[i] = status[i],
         status[i] = "absent" \/ pc = "archiving" => status'[i] = "absent",
         status'[i] \in {"queued", "active", "paused"} => attempts'[i] <= MaxRetries
  PROVE  IInv'
<1>1. i \notin fresh
  BY DEF IInv, TaskOK
<1>2. \A j \in Items, h \in Generations :
        Live(j, h)' <=> Live(j, h) /\ ~(j = i /\ h = g)
  BY DEF Live, LivePC
<1>3. OneOwner'
  BY <1>2 DEF IInv, OneOwner, Owned
<1>4. RetriesLeft'
  BY DEF IInv, RetriesLeft
<1>5. FreshOK'
  BY <1>1 DEF IInv, FreshOK, TypeOK
<1>6. TaskOK'
  BY <1>1 DEF IInv, TaskOK
<1>7. QED
  BY <1>3, <1>4, <1>5, <1>6 DEF IInv
\* cancel() changes no program counter and no attempt count.
LEMMA CancelledTask ==
  ASSUME TypeOK, NEW S \in SUBSET Items, NEW p \in BOOLEAN,
         task' = Cancelled(S, p)
  PROVE  /\ task' \in [Items -> [Generations -> Task]]
         /\ \A j \in Items, h \in Generations :
              /\ task'[j][h].pc = task[j][h].pc
              /\ task'[j][h].attempts = task[j][h].attempts
<1>1. \A j \in Items, h \in Generations : task[j][h] \in Task
  BY DEF TypeOK
<1>2. ASSUME NEW t \in Task
      PROVE  LET u == [t EXCEPT !.cancelled = TRUE, !.pausing = p]
             IN  u \in Task /\ u.pc = t.pc /\ u.attempts = t.attempts
  BY DEF Task
<1>3. QED
  BY <1>1, <1>2 DEF Cancelled

-----------------------------------------------------------------------------
(* The actions of a worker task.                                           *)

LEMMA FetchInv ==
  ASSUME IInv, NEW i \in Items, NEW g \in Generations, Fetch(i, g)
  PROVE  IInv'
<1>0. TypeOK /\ task[i][g] \in Task
  BY DEF IInv, TypeOK
<1>1. CASE status[i] = "absent"
  <2>1. Settle(i, g, "idle")
    BY <1>1 DEF Fetch, EndTask
  <2>2. /\ task' \in [Items -> [Generations -> Task]]
        /\ task'[i][g].pc = "idle"
        /\ \A j \in Items, h \in Generations :
             j # i \/ h # g => task'[j][h] = task[j][h]
    BY <1>0, <2>1, SettleTask DEF TaskPC
  <2>3. TypeOK'
    BY <1>0, <2>2 DEF Fetch, TypeOK, itemVars
  <2>4. QED
    BY <1>1, <2>2, <2>3, TaskEnds DEF Fetch, itemVars, Live, LivePC
<1>2. CASE status[i] # "absent"
  <2> DEFINE t == [task[i][g] EXCEPT !.pc = "fetched", !.session = session[i],
                                     !.attempts = attempts[i]]
  <2>1. task' = [task EXCEPT ![i][g] = t]
    BY <1>2 DEF Fetch
  <2>2. t \in Task /\ t.pc = "fetched" /\ t.attempts = attempts[i]
    BY <1>0 DEF Task, TypeOK, TaskPC, LivePC
  <2> HIDE DEF t
  <2>3. /\ task' \in [Items -> [Generations -> Task]]
        /\ task'[i][g] = t
        /\ \A j \in Items, h \in Generations :
             j # i \/ h # g => task'[j][h] = task[j][h]
    BY <1>0, <2>1, <2>2 DEF TypeOK
  <2>4. TypeOK'
    BY <1>0, <2>3 DEF Fetch, TypeOK, itemVars
  <2>5. Live(i, g) /\ Live(i, g)'
    BY <2>2, <2>3 DEF Fetch, Live, LivePC
  <2>6. attempts[i] <= MaxRetries
    BY <1>2, <2>5 DEF IInv, OneOwner, Owned, RetriesLeft
  <2>7. QED
    BY <2>2, <2>3, <2>4, <2>5, <2>6, TaskMoves DEF Fetch, itemVars
<1>3. QED
  BY <1>1, <1>2

LEMMA FindSessionInv ==
  ASSUME IInv, NEW i \in Items, NEW g \in Generations, FindSession(i, g)
  PROVE  IInv'
<1>0. TypeOK /\ SetPC(i, g, "running") /\ "running" \in TaskPC
  BY DEF IInv, FindSession, TaskPC, LivePC
<1>1. /\ task' \in [Items -> [Generations -> Task]]
      /\ task'[i][g].pc = "running"
      /\ task'[i][g].attempts = task[i][g].attempts
      /\ \A j \in Items, h \in Generations :
           j # i \/ h # g => task'[j][h] = task[j][h]
  BY <1>0, SetPCTask
<1>2. TypeOK'
  BY <1>0, <1>1 DEF FindSession, TypeOK, itemVars
<1>3. Live(i, g) /\ Live(i, g)' /\ task'[i][g].attempts <= MaxRetries
  BY <1>1 DEF IInv, TaskOK, FindSession, Live, LivePC
<1>4. QED
  BY <1>1, <1>2, <1>3, TaskMoves DEF FindSession, itemVars

LEMMA ExpandInv ==
  ASSUME IInv, NEW i \in Items, NEW g \in Generations,
         NEW kids \in SUBSET fresh, Expand(i, g, kids)
  PROVE  IInv'
<1>0. TypeOK /\ SetPC(i, g, "expanded") /\ "expanded" \in TaskPC
  BY DEF IInv, Expand, TaskPC, LivePC
<1>1. /\ task' \in [Items -> [Generations -> Task]]
      /\ task'[i][g].pc = "expanded"
      /\ task'[i][g].attempts = task[i][g].attempts
      /\ \A j \in Items, h \in Generations :
           j # i \/ h # g => task'[j][h] = task[j][h]
  BY <1>0, SetPCTask
<1>2. task[i][g].session \in Sessions \cup {NoSession}
  BY <1>0 DEF TypeOK, Task
<1>3. TypeOK'
  BY <1>0, <1>1, <1>2 DEF Expand, TypeOK, Status
<1>4. Live(i, g) /\ Live(i, g)' /\ task'[i][g].attempts <= MaxRetries
  BY <1>1 DEF IInv, TaskOK, Expand, Live, LivePC
<1>5. \A j \in Items : \/ status'[j] = status[j]
                       \/ j \in fresh \ fresh' /\ status'[j] = "queued"
  BY DEF Expand
<1>6. QED
  BY <1>1, <1>3, <1>4, <1>5, TaskMoves DEF Expand

LEMMA ForgetType ==
  ASSUME TypeOK, NEW S, Forget(S)
  PROVE  /\ status' \in [Items -> Status]
         /\ session' \in [Items -> Sessions \cup {NoSession}]
         /\ attempts' \in [Items -> 0 .. MaxRetries + 1]
         /\ waiting' \in [Items -> BOOLEAN]
<1>1. 0 \in 0 .. MaxRetries + 1
  BY RetryAssumption
<1>2. QED
  BY <1>1 DEF Forget, TypeOK, Status

LEMMA SucceedInv ==
  ASSUME IInv, NEW i \in Items, NEW g \in Generations, Live(i, g),
         Succeed(i, g)
  PROVE  IInv'
<1>0. TypeOK /\ {"idle", "archiving"} \subseteq TaskPC /\ task[i][g].pc # "idle"
  BY DEF IInv, TaskPC, Live, LivePC
<1>1. PICK pc \in {"idle", "archiving"} : Settle(i, g, pc)
  BY DEF Succeed, EndTask
<1>2. /\ task' \in [Items -> [Generations -> Task]]
      /\ task'[i][g].pc = pc
      /\ \A j \in Items, h \in Generations :
           j # i \/ h # g => task'[j][h] = task[j][h]
  BY <1>0, <1>1, SettleTask
<1>3. TypeOK'
  BY <1>0, <1>2, ForgetType DEF Succeed, TypeOK, itemVars
<1>4. status'[i] = "absent" /\ starting' = starting /\ fresh' = fresh /\ history' = history
  BY <1>0 DEF Succeed, Forget, itemVars, TypeOK
<1>5. \A j \in Items : j # i => status'[j] = status[j] /\ attempts'[j] = attempts[j]
  BY <1>0 DEF Succeed, Forget, itemVars, TypeOK
<1>6. QED
  BY <1>0, <1>2, <1>3, <1>4, <1>5, TaskEnds

LEMMA GiveUpInv ==
  ASSUME IInv, NEW i \in Items, NEW g \in Generations, Live(i, g),
         NEW n \in 0 .. MaxRetries + 1, GiveUp(i, g, n)
  PROVE  IInv'
<1>0. TypeOK /\ {"idle", "releasing"} \subseteq TaskPC /\ task[i][g].pc # "idle"
  BY DEF IInv, TaskPC, Live, LivePC
<1>1. PICK pc \in {"idle", "releasing"} : Settle(i, g, pc)
  BY DEF GiveUp, EndTask
<1>2. /\ task' \in [Items -> [Generations -> Task]]
      /\ task'[i][g].pc = pc
      /\ \A j \in Items, h \in Generations :
           j # i \/ h # g => task'[j][h] = task[j][h]
  BY <1>0, <1>1, SettleTask
<1>3. TypeOK'
  BY <1>0, <1>2 DEF GiveUp, TypeOK, Status
<1>4. /\ status'[i] \in {"absent", "failed"}
      /\ status[i] = "absent" => status'[i] = "absent"
      /\ starting' = starting /\ fresh' = fresh /\ history' = history
  BY <1>0 DEF GiveUp, TypeOK
<1>5. \A j \in Items : j # i => status'[j] = status[j] /\ attempts'[j] = attempts[j]
  BY <1>0 DEF GiveUp, TypeOK
<1>6. QED
  BY <1>0, <1>2, <1>3, <1>4, <1>5, TaskEnds
LEMMA NoConnectionInv ==
  ASSUME IInv, NEW i \in Items, NEW g \in Generations, NoConnection(i, g)
  PROVE  IInv'
<1>1. Live(i, g) /\ attempts[i] \in 0 .. MaxRetries + 1
  BY DEF IInv, TypeOK, NoConnection, Live, LivePC
<1>2. QED
  BY <1>1, GiveUpInv DEF NoConnection

LEMMA FailForGoodInv ==
  ASSUME IInv, NEW i \in Items, NEW g \in Generations, FailForGood(i, g)
  PROVE  IInv'
<1>1. Live(i, g) /\ task[i][g] \in Task /\ task[i][g].attempts <= MaxRetries
  BY DEF IInv, TypeOK, TaskOK, FailForGood, Live, LivePC
<1>2. task[i][g].attempts + 1 \in 0 .. MaxRetries + 1
  BY <1>1, RetryAssumption DEF Task
<1>3. QED
  BY <1>1, <1>2, GiveUpInv DEF FailForGood

LEMMA FinishInv ==
  ASSUME IInv, NEW i \in Items, NEW g \in Generations,
         FinishFile(i, g) \/ FinishDir(i, g)
  PROVE  IInv'
<1>1. Live(i, g) /\ Succeed(i, g)
  BY DEF FinishFile, FinishDir, Live, LivePC
<1>2. QED
  BY <1>1, SucceedInv

LEMMA ArchiveInv ==
  ASSUME IInv, NEW i \in Items, NEW g \in Generations, Archive(i, g)
  PROVE  IInv'
<1>0. TypeOK /\ Settle(i, g, "releasing") /\ "releasing" \in TaskPC
  BY DEF IInv, Archive, TaskPC
<1>1. /\ task' \in [Items -> [Generations -> Task]]
      /\ task'[i][g].pc = "releasing"
      /\ \A j \in Items, h \in Generations :
           j # i \/ h # g => task'[j][h] = task[j][h]
  BY <1>0, SettleTask
<1>2. TypeOK'
  BY <1>0, <1>1 DEF Archive, TypeOK
<1>3. ~Live(i, g) /\ task[i][g].pc # "idle" /\ status[i] = status'[i]
  BY DEF Archive, Live, LivePC
<1>4. status[i] = "absent"
  BY DEF IInv, TaskOK, Archive
<1>5. history' \subseteq history \cup {i} /\ status' = status /\ attempts' = attempts
  BY DEF Archive
<1>6. QED
  BY <1>1, <1>2, <1>3, <1>4, <1>5, TaskEnds DEF Archive

LEMMA PauseSeenInv ==
  ASSUME IInv, NEW i \in Items, NEW g \in Generations, PauseSeen(i, g)
  PROVE  IInv'
<1>0. TypeOK /\ Settle(i, g, "releasing") /\ "releasing" \in TaskPC
  BY DEF IInv, PauseSeen, TaskPC
<1>1. /\ task' \in [Items -> [Generations -> Task]]
      /\ task'[i][g].pc = "releasing"
      /\ \A j \in Items, h \in Generations :
           j # i \/ h # g => task'[j][h] = task[j][h]
  BY <1>0, SettleTask
<1>2. TypeOK'
  BY <1>0, <1>1 DEF PauseSeen, TypeOK, Status
<1>3. Live(i, g) /\ task[i][g].pc # "idle"
  BY DEF PauseSeen, Live, LivePC
<1>4. /\ status'[i] \in {"absent", "paused"}
      /\ status[i] = "absent" => status'[i] = "absent"
      /\ \A j \in Items : j # i => status'[j] = status[j]
  BY <1>0 DEF PauseSeen, TypeOK
<1>5. status'[i] = "paused" => attempts[i] <= MaxRetries
  BY <1>3, <1>4, <1>0 DEF IInv, OneOwner, Owned, RetriesLeft, PauseSeen, TypeOK
<1>6. QED
  BY <1>1, <1>2, <1>3, <1>4, <1>5, TaskEnds DEF PauseSeen

LEMMA CancelSeenInv ==
  ASSUME IInv, NEW i \in Items, NEW g \in Generations, CancelSeen(i, g)
  PROVE  IInv'
<1>0. TypeOK /\ Settle(i, g, "idle") /\ "idle" \in TaskPC
  BY DEF IInv, CancelSeen, TaskPC, EndTask
<1>1. /\ task' \in [Items -> [Generations -> Task]]
      /\ task'[i][g].pc = "idle"
      /\ \A j \in Items, h \in Generations :
           j # i \/ h # g => task'[j][h] = task[j][h]
  BY <1>0, SettleTask
<1>2. TypeOK'
  BY <1>0, <1>1, ForgetType DEF CancelSeen, TypeOK
<1>3. Live(i, g) /\ task[i][g].pc # "idle"
  BY DEF CancelSeen, Live, LivePC
<1>4. status'[i] = "absent"
  BY <1>0 DEF CancelSeen, Forget, TypeOK
<1>5. \A j \in Items : j # i => status'[j] = status[j] /\ attempts'[j] = attempts[j]
  BY <1>0 DEF CancelSeen, Forget, TypeOK
<1>6. QED
  BY <1>1, <1>2, <1>3, <1>4, <1>5, TaskEnds DEF CancelSeen

LEMMA FailRetryInv ==
  ASSUME IInv, NEW i \in Items, NEW g \in Generations, FailRetry(i, g)
  PROVE  IInv'
<1>0. TypeOK /\ Settle(i, g, "releasing") /\ "releasing" \in TaskPC
  BY DEF IInv, FailRetry, TaskPC
<1>a. task[i][g].attempts + 1 \in 0 .. MaxRetries + 1
  BY <1>0, RetryAssumption DEF FailRetry, TypeOK, Task
<1>1. /\ task' \in [Items -> [Generations -> Task]]
      /\ task'[i][g].pc = "releasing"
      /\ \A j \in Items, h \in Generations :
           j # i \/ h # g => task'[j][h] = task[j][h]
  BY <1>0, SettleTask
<1>2. TypeOK'
  <2>1. /\ status' \in [Items -> Status]
        /\ attempts' \in [Items -> 0 .. MaxRetries + 1]
        /\ waiting' \in [Items -> BOOLEAN]
    <3>1. CASE status[i] = "absent"
      BY <1>0, <3>1 DEF FailRetry, TypeOK
    <3>2. CASE status[i] # "absent"
      <4> DEFINE n == task[i][g].attempts + 1
      <4>1. n \in 0 .. MaxRetries + 1 /\ attempts' = [attempts EXCEPT ![i] = n]
        BY <1>a, <3>2 DEF FailRetry
      <4> HIDE DEF n
      <4>2. QED
        BY <1>0, <3>2, <4>1 DEF FailRetry, TypeOK, Status
    <3>3. QED
      BY <3>1, <3>2
  <2>2. QED
    BY <1>0, <1>1, <2>1 DEF FailRetry, TypeOK
<1>3. Live(i, g) /\ task[i][g].pc # "idle"
  BY DEF FailRetry, Live, LivePC
<1>4. /\ status'[i] \in {"absent", "queued"}
      /\ status[i] = "absent" => status'[i] = "absent"
      /\ status'[i] = "queued" => attempts'[i] <= MaxRetries
  BY <1>0 DEF FailRetry, TypeOK
<1>5. \A j \in Items : j # i => status'[j] = status[j] /\ attempts'[j] = attempts[j]
  BY <1>0 DEF FailRetry, TypeOK
<1>6. QED
  BY <1>1, <1>2, <1>3, <1>4, <1>5, TaskEnds DEF FailRetry

LEMMA ReleaseInv ==
  ASSUME IInv, NEW i \in Items, NEW g \in Generations, Release(i, g)
  PROVE  IInv'
<1>0. TypeOK /\ Settle(i, g, "idle") /\ "idle" \in TaskPC
  BY DEF IInv, Release, TaskPC, EndTask
<1>1. /\ task' \in [Items -> [Generations -> Task]]
      /\ task'[i][g].pc = "idle"
      /\ \A j \in Items, h \in Generations :
           j # i \/ h # g => task'[j][h] = task[j][h]
  BY <1>0, SettleTask
<1>2. TypeOK'
  BY <1>0, <1>1 DEF Release, TypeOK, itemVars
<1>3. ~Live(i, g) /\ task[i][g].pc # "idle"
  BY DEF Release, Live, LivePC
<1>4. status' = status /\ attempts' = attempts
  BY DEF Release, itemVars
<1>5. status[i] \in {"queued", "active", "paused"} => attempts[i] <= MaxRetries
  BY DEF IInv, RetriesLeft
<1>6. QED
  BY <1>1, <1>2, <1>3, <1>4, <1>5, TaskEnds DEF Release, itemVars
-----------------------------------------------------------------------------
(* Timers, commands and sessions.                                          *)

LEMMA RetryDueInv ==
  ASSUME IInv, NEW i \in Items, RetryDue(i)
  PROVE  IInv'
<1>1. TypeOK'
  BY DEF IInv, TypeOK, RetryDue
<1>2. QED
  BY <1>1, CommandKeeps DEF RetryDue

LEMMA AddInv ==
  ASSUME IInv, NEW i \in Items, NEW s \in Sessions,
         NEW first \in {"queued", "paused"}, Add(i, s, first)
  PROVE  IInv'
<1>1. TypeOK'
  BY DEF IInv, TypeOK, Add, Status
<1>2. \A j \in Items :
        \/ status'[j] = status[j]
        \/ j \in fresh \ fresh' /\ status'[j] \in {"queued", "paused"}
  BY DEF IInv, TypeOK, Add
<1>3. QED
  BY <1>1, <1>2, CommandKeeps DEF Add

\* pause(id) on its own: what the four actions that call it need of it.
LEMMA PauseItemKeeps ==
  ASSUME TypeOK, NEW i \in Items, PauseItem(i)
  PROVE  /\ status' \in [Items -> Status]
         /\ task' \in [Items -> [Generations -> Task]]
         /\ \A j \in Items, h \in Generations :
              /\ task'[j][h].pc = task[j][h].pc
              /\ task'[j][h].attempts = task[j][h].attempts
         /\ \A j \in Items : \/ status'[j] = status[j]
                             \/ status[j] = "queued" /\ status'[j] = "paused"
<1>1. CASE controls[i] # NoControl
  BY <1>1, CancelledTask DEF PauseItem, TypeOK
<1>2. CASE controls[i] = NoControl
  BY <1>2 DEF PauseItem, TypeOK, Status
<1>3. QED
  BY <1>1, <1>2

\* The bookkeeping of the multi-step commands stays in its type.
LEMMA CommandTypes ==
  ASSUME TypeOK
  PROVE  /\ \A T \in SUBSET Items :
              /\ [command EXCEPT !.todo = T] \in Command
              /\ [closing EXCEPT !.todo = T] \in Closing
         /\ \A i \in Items : [command EXCEPT !.dropping = i] \in Command
         /\ \A T \in SUBSET Items :
              [command EXCEPT !.todo = T, !.dropping = NoItem] \in Command
         /\ \A op \in CommandOp, T \in SUBSET Items :
              [op |-> op, todo |-> T, dropping |-> NoItem] \in Command
         /\ Idle \in Command
         /\ [closing EXCEPT !.unbound = TRUE] \in Closing
         /\ \A s \in Sessions, T \in SUBSET Items :
              [session |-> s, unbound |-> FALSE, todo |-> T] \in Closing
         /\ NotClosing \in Closing
<1>1. command \in Command /\ closing \in Closing
  BY DEF TypeOK
<1>2. \A T \in SUBSET Items :
        /\ [command EXCEPT !.todo = T] \in Command
        /\ [command EXCEPT !.todo = T, !.dropping = NoItem] \in Command
  BY <1>1 DEF Command
<1>3. \A i \in Items : [command EXCEPT !.dropping = i] \in Command
  BY <1>1 DEF Command
<1>4. \A op \in CommandOp, T \in SUBSET Items :
        [op |-> op, todo |-> T, dropping |-> NoItem] \in Command
  BY DEF Command
<1>5. /\ \A T \in SUBSET Items : [closing EXCEPT !.todo = T] \in Closing
      /\ [closing EXCEPT !.unbound = TRUE] \in Closing
  BY <1>1 DEF Closing
<1>6. \A s \in Sessions, T \in SUBSET Items :
        [session |-> s, unbound |-> FALSE, todo |-> T] \in Closing
  BY DEF Closing
<1>7. Idle \in Command /\ NotClosing \in Closing
  BY DEF Command, Idle, CommandOp, Closing, NotClosing
<1>8. QED
  BY <1>2, <1>3, <1>4, <1>5, <1>6, <1>7

LEMMA PausesInv ==
  ASSUME IInv, NEW i \in Items,
         Pause(i) \/ PauseNext(i) \/ UnbindPause(i)
  PROVE  IInv'
<1>1. TypeOK /\ PauseItem(i)
  BY DEF IInv, Pause, PauseNext, UnbindPause
<1>2. /\ UNCHANGED <<fresh, session, attempts, waiting, history, controls,
                      starting, link>>
      /\ command' \in Command /\ closing' \in Closing
  <2>1. command.todo \ {i} \in SUBSET Items /\ closing.todo \ {i} \in SUBSET Items
    BY <1>1 DEF TypeOK, Command, Closing
  <2>2. command \in Command /\ closing \in Closing
    BY <1>1 DEF TypeOK
  <2>3. QED
    BY <1>1, <2>1, <2>2, CommandTypes DEF Pause, PauseNext, UnbindPause
<1>3. TypeOK'
  BY <1>1, <1>2, PauseItemKeeps DEF TypeOK
<1>4. \A j \in Items :
        \/ status'[j] = status[j]
        \/ status[j] = "queued" /\ status'[j] = "paused" /\ attempts[j] <= MaxRetries
  BY <1>1, PauseItemKeeps DEF IInv, RetriesLeft
<1>5. QED
  BY <1>1, <1>2, <1>3, <1>4, PauseItemKeeps, CommandKeeps

LEMMA RequeuedKeeps ==
  ASSUME TypeOK, NEW S \in SUBSET Items,
         NEW from \in SUBSET {"paused", "failed"}, Requeued(S, from)
  PROVE  /\ status' \in [Items -> Status]
         /\ attempts' \in [Items -> 0 .. MaxRetries + 1]
         /\ waiting' \in [Items -> BOOLEAN]
         /\ \A j \in Items :
              \/ status'[j] = status[j] /\ attempts'[j] = attempts[j]
              \/ /\ status[j] \in {"paused", "failed"}
                 /\ status'[j] = "queued" /\ attempts'[j] <= MaxRetries
<1>1. 0 \in 0 .. MaxRetries + 1 /\ 0 <= MaxRetries
  BY RetryAssumption
<1>2. QED
  BY <1>1 DEF Requeued, TypeOK, Status

LEMMA ResumesInv ==
  ASSUME IInv,
         \/ \E i \in Items : Resume(i) \/ ResumeNext(i)
         \/ RetryFailed
  PROVE  IInv'
<1>1. PICK S \in SUBSET Items, from \in SUBSET {"paused", "failed"} :
        Requeued(S, from)
  <2>1. \A i \in Items : {i} \in SUBSET Items
    OBVIOUS
  <2>2. QED
    BY <2>1 DEF Resume, ResumeNext, RetryFailed
<1>2. /\ UNCHANGED <<fresh, session, history, controls, starting, task, link,
                      closing>>
      /\ command' \in Command
  <2>1. TypeOK /\ command \in Command
    BY DEF IInv, TypeOK
  <2>2. \A i \in Items : command.todo \ {i} \in SUBSET Items
    BY <2>1 DEF Command
  <2>3. QED
    BY <2>1, <2>2, CommandTypes DEF Resume, ResumeNext, RetryFailed
<1>3. TypeOK
  BY DEF IInv
<1>4. TypeOK'
  BY <1>1, <1>2, <1>3, RequeuedKeeps DEF TypeOK
<1>5. QED
  BY <1>1, <1>2, <1>3, <1>4, RequeuedKeeps, CommandKeeps

LEMMA DropsInv ==
  ASSUME IInv, RemoveFailed \/ RemoveDrop \/ ClearDrop
  PROVE  IInv'
<1>1. PICK S : Forget(S)
  BY DEF RemoveFailed, RemoveDrop, ClearDrop
<1>2. /\ UNCHANGED <<fresh, history, controls, starting, task, link, closing>>
      /\ command' \in Command
  <2>1. TypeOK /\ command \in Command
    BY DEF IInv, TypeOK
  <2>2. command.todo \ {command.dropping} \in SUBSET Items
    BY <2>1 DEF Command
  <2>3. QED
    BY <2>1, <2>2, CommandTypes DEF RemoveFailed, RemoveDrop, ClearDrop
<1>3. TypeOK
  BY DEF IInv
<1>4. TypeOK'
  BY <1>1, <1>2, <1>3, ForgetType DEF TypeOK
<1>5. \A j \in Items : \/ status'[j] = status[j] /\ attempts'[j] = attempts[j]
                       \/ status'[j] = "absent" /\ attempts'[j] = 0
  BY <1>1, <1>3 DEF Forget, TypeOK
<1>6. QED
  BY <1>2, <1>4, <1>5, CommandKeeps

LEMMA BeginsInv ==
  ASSUME IInv,
         \/ PauseAll \/ ResumeAll \/ Clear \/ ClearHistory \/ Return
         \/ \E i \in Items : Remove(i) \/ RemoveCancel(i)
         \/ \E b \in {BatchOf[i] : i \in Items} : RemoveBatch(b)
  PROVE  IInv'
<1>1. /\ UNCHANGED <<fresh, status, session, attempts, waiting, controls,
                      starting, link, closing>>
      /\ history' \subseteq history
  BY DEF PauseAll, ResumeAll, Clear, ClearHistory, Return, Remove,
         RemoveCancel, RemoveBatch, Begin, itemVars
<1>2. command' \in Command
  <2>1. TypeOK /\ command \in Command
    BY DEF IInv, TypeOK
  <2>2. CASE Return \/ ClearHistory
    BY <2>1, <2>2, CommandTypes DEF Return, ClearHistory
  <2>3. CASE \E i \in Items : RemoveCancel(i)
    BY <2>1, <2>3, CommandTypes DEF RemoveCancel
  <2>4. CASE PauseAll \/ ResumeAll \/ Clear
    BY <2>1, <2>4, CommandTypes
    DEF PauseAll, ResumeAll, Clear, Begin, CommandOp
  <2>5. CASE \/ \E i \in Items : Remove(i)
             \/ \E b \in {BatchOf[i] : i \in Items} : RemoveBatch(b)
    BY <2>1, <2>5, CommandTypes
    DEF Remove, RemoveBatch, Begin, CommandOp, Present
  <2>6. QED
    BY <2>2, <2>3, <2>4, <2>5
<1>3. \/ task' = task
      \/ \E S \in SUBSET Items : task' = Cancelled(S, FALSE)
  BY DEF PauseAll, ResumeAll, Clear, ClearHistory, Return, Remove,
         RemoveCancel, RemoveBatch
<1>4. TypeOK
  BY DEF IInv
<1>5. /\ task' \in [Items -> [Generations -> Task]]
      /\ \A j \in Items, h \in Generations :
           /\ task'[j][h].pc = task[j][h].pc
           /\ task'[j][h].attempts = task[j][h].attempts
  BY <1>3, <1>4, CancelledTask DEF TypeOK
<1>6. TypeOK'
  BY <1>1, <1>2, <1>4, <1>5 DEF TypeOK
<1>7. QED
  BY <1>1, <1>5, <1>6, CommandKeeps

LEMMA SessionsInv ==
  ASSUME IInv,
         \/ \E s \in Sessions : Connect(s) \/ Bind(s) \/ UnbindBegin(s)
         \/ UnbindClear \/ Disconnect
  PROVE  IInv'
<1>1. UNCHANGED <<fresh, status, attempts, waiting, history, controls,
                  starting, task, command>>
  BY DEF Connect, Bind, UnbindBegin, UnbindClear, Disconnect, itemVars
<1>2. /\ session' \in [Items -> Sessions \cup {NoSession}]
      /\ link' \in [Sessions -> Link]
      /\ closing' \in Closing
  <2>1. TypeOK /\ closing \in Closing
    BY DEF IInv, TypeOK
  <2>2. session' \in [Items -> Sessions \cup {NoSession}]
    BY <2>1 DEF TypeOK, Connect, Bind, UnbindBegin, UnbindClear, Disconnect,
                itemVars
  <2>3. link' \in [Sessions -> Link]
    BY <2>1 DEF TypeOK, Connect, Bind, UnbindBegin, UnbindClear, Disconnect,
                Link
  <2>4. closing' \in Closing
    BY <2>1, CommandTypes DEF Connect, Bind, UnbindBegin, UnbindClear,
                              Disconnect, Present
  <2>5. QED
    BY <2>2, <2>3, <2>4
<1>3. TypeOK'
  BY <1>1, <1>2 DEF IInv, TypeOK
<1>4. QED
  BY <1>1, <1>3, CommandKeeps

-----------------------------------------------------------------------------

LEMMA NextInv == IInv /\ [Next]_vars => IInv'
<1> SUFFICES ASSUME IInv, [Next]_vars PROVE IInv'
  OBVIOUS
<1>1. CASE Scheduler
  BY <1>1, MarkInv, RegisterInv DEF Scheduler
<1>2. CASE \E i \in Items : RetryDue(i)
  BY <1>2, RetryDueInv
<1>3. ASSUME NEW i \in Items, NEW g \in Generations, WorkerStep(i, g)
      PROVE  IInv'
  BY <1>3, FetchInv, FindSessionInv, NoConnectionInv, FinishInv, ExpandInv,
     ArchiveInv, PauseSeenInv, CancelSeenInv, FailRetryInv, FailForGoodInv,
     ReleaseInv DEF WorkerStep
<1>4. CASE CommandStep
  BY <1>4, PausesInv, ResumesInv, DropsInv, BeginsInv DEF CommandStep
<1>5. CASE User
  BY <1>5, AddInv, PausesInv, ResumesInv, DropsInv, BeginsInv DEF User
<1>6. CASE SessionStep
  BY <1>6, PausesInv, SessionsInv DEF SessionStep, DisconnectStep
<1>7. CASE UNCHANGED vars
  BY <1>7 DEF vars, IInv, TypeOK, OneOwner, Owned, Live, RetriesLeft, TaskOK,
              FreshOK
<1>8. QED
  BY <1>1, <1>2, <1>3, <1>4, <1>5, <1>6, <1>7 DEF Next

\* The invariant holds in every reachable state, whatever the items, the
\* sessions, their limits and the number of overlapping tasks.
THEOREM Invariant == Spec => []IInv
<1>1. QED
  BY InitInv, NextInv, PTL DEF Spec

\* The state has its type; in particular no attempt count passes the limit.
THEOREM TypeCorrect == Spec => []TypeOK
<1>1. IInv => TypeOK
  BY DEF IInv
<1>2. QED
  BY <1>1, Invariant, PTL

\* An Active item has one owner, whatever overlaps (queue.rs:600-644).
THEOREM OneOwnerAlways == Spec => []OneOwner
<1>1. IInv => OneOwner
  BY DEF IInv
<1>2. QED
  BY <1>1, Invariant, PTL

\* No item waits for an attempt it no longer has (worker.rs:58-80).
THEOREM RetriesBounded == Spec => []RetriesLeft
<1>1. IInv => RetriesLeft
  BY DEF IInv
<1>2. QED
  BY <1>1, Invariant, PTL

-----------------------------------------------------------------------------
(* The task, its item and the command                                      *)

\* A command drops an item only while it works through what it removes.
CommandOK == command.dropping # NoItem =>
               command.op = "remove" /\ command.dropping \in command.todo

\* A task told to stop, without `pausing`.
Stopped(i, g) == Live(i, g) /\ task[i][g].cancelled /\ ~task[i][g].pausing
Removing(i) == command.dropping = i \/ command.op = "clear"

CInv == AttemptsCurrent /\ OnlyRemovedIsDropped /\ CommandOK

\* The pieces of CInv, one for each step.
LEMMA Pieces ==
  ASSUME AttemptsCurrent', CommandOK',
         \A j \in Items, h \in Generations :
           status'[j] # "absent" /\ Stopped(j, h)' => Removing(j)'
  PROVE  CInv'
BY DEF CInv, OnlyRemovedIsDropped, Present, Stopped, Removing

-----------------------------------------------------------------------------
(* A task step: one task goes on or ends, the command does not move, and   *)
(* an item that changes its count has no other live task.                  *)

LEMMA TaskStep ==
  ASSUME IInv, CInv, NEW i \in Items, NEW g \in Generations,
         \A j \in Items, h \in Generations :
           j # i \/ h # g => task'[j][h] = task[j][h],
         \A j \in Items \ fresh : status[j] = "absent" => status'[j] = "absent",
         \A j \in Items \ {i} : attempts'[j] = attempts[j],
         Live(i, g) \/ attempts'[i] = attempts[i],
         command' = command,
         Live(i, g)' /\ status'[i] # "absent" =>
           /\ \/ task'[i][g].pc = "spawned"
              \/ task'[i][g].attempts = attempts'[i]
           /\ Stopped(i, g)' => Removing(i)
  PROVE  CInv'
<1>1. \A j \in Items, h \in Generations :
        j \in fresh => ~Live(j, h)
  BY DEF IInv, TaskOK, Live, LivePC
<1>2. \A h \in Generations : Live(i, g) /\ Live(i, h) => h = g
  BY DEF IInv, OneOwner
<1>3. \A j \in Items, h \in Generations :
        j # i \/ h # g => (Live(j, h)' <=> Live(j, h))
  BY DEF Live
<1>4. AttemptsCurrent'
  <2> SUFFICES ASSUME NEW j \in Items, NEW h \in Generations,
                      status'[j] # "absent",
                      task'[j][h].pc \in {"fetched", "running", "expanded"}
               PROVE  task'[j][h].attempts = attempts'[j]
    BY DEF AttemptsCurrent, Present
  <2>1. Live(j, h)'
    BY DEF Live, LivePC
  <2>2. CASE j = i /\ h = g
    BY <2>1, <2>2
  <2>3. CASE j # i
    BY <1>1, <1>3, <2>1, <2>3 DEF CInv, AttemptsCurrent, Present
  <2>4. CASE j = i /\ h # g
    BY <1>1, <1>2, <1>3, <2>1, <2>4 DEF CInv, AttemptsCurrent, Present
  <2>5. QED
    BY <2>2, <2>3, <2>4
<1>5. CommandOK'
  BY DEF CInv, CommandOK
<1>6. \A j \in Items, h \in Generations :
        status'[j] # "absent" /\ Stopped(j, h)' => Removing(j)'
  <2> SUFFICES ASSUME NEW j \in Items, NEW h \in Generations,
                      status'[j] # "absent", Stopped(j, h)'
               PROVE  Removing(j)'
    OBVIOUS
  <2>1. Live(j, h)' /\ (Removing(j)' <=> Removing(j))
    BY DEF Stopped, Removing
  <2>2. CASE j = i /\ h = g
    BY <2>1, <2>2
  <2>3. CASE j # i \/ h # g
    <3>1. Live(j, h) /\ Stopped(j, h)
      BY <1>3, <2>1, <2>3 DEF Stopped
    <3>2. status[j] # "absent"
      BY <1>1, <1>2, <2>3, <3>1
    <3>3. QED
      BY <2>1, <3>1, <3>2 DEF CInv, OnlyRemovedIsDropped, Present, Stopped,
                              Removing
  <2>4. QED
    BY <2>2, <2>3
<1>7. QED
  BY <1>4, <1>5, <1>6, Pieces

\* A task that ended has nothing to keep.
LEMMA EndStep ==
  ASSUME IInv, CInv, NEW i \in Items, NEW g \in Generations,
         NEW pc \in TaskPC \ LivePC, Settle(i, g, pc),
         \A j \in Items \ fresh : status[j] = "absent" => status'[j] = "absent",
         \A j \in Items \ {i} : attempts'[j] = attempts[j],
         Live(i, g) \/ attempts'[i] = attempts[i],
         command' = command
  PROVE  CInv'
<1>1. /\ task'[i][g].pc = pc
      /\ \A j \in Items, h \in Generations :
           j # i \/ h # g => task'[j][h] = task[j][h]
  BY SettleTask DEF IInv
<1>2. ~Live(i, g)'
  BY <1>1 DEF Live
<1>3. QED
  BY <1>1, <1>2, TaskStep

\* What leaves the queue is absent, and nothing else changes.
LEMMA Forgotten ==
  ASSUME NEW S, Forget(S)
  PROVE  \A j \in Items :
           /\ j \in S => status'[j] = "absent"
           /\ j \notin S => /\ status'[j] = status[j] /\ attempts'[j] = attempts[j]
                            /\ session'[j] = session[j]
BY DEF Forget

LEMMA EndsControl ==
  ASSUME IInv, CInv, NEW i \in Items, NEW g \in Generations,
         \/ NoConnection(i, g) \/ FinishFile(i, g) \/ FinishDir(i, g)
         \/ Archive(i, g) \/ PauseSeen(i, g) \/ CancelSeen(i, g)
         \/ FailRetry(i, g) \/ FailForGood(i, g) \/ Release(i, g)
  PROVE  CInv'
<1>1. TypeOK
  BY DEF IInv
<1>2. command' = command
  BY DEF NoConnection, FinishFile, FinishDir, Archive, PauseSeen, CancelSeen,
         FailRetry, FailForGood, Release, Succeed, GiveUp
<1>3. \E pc \in {"idle", "archiving", "releasing"} : Settle(i, g, pc)
  BY DEF NoConnection, FinishFile, FinishDir, Archive, PauseSeen, CancelSeen,
         FailRetry, FailForGood, Release, Succeed, GiveUp, EndTask
<1>4. \A pc \in {"idle", "archiving", "releasing"} : pc \in TaskPC \ LivePC
  BY DEF TaskPC, LivePC
<1>5. Live(i, g) \/ Archive(i, g) \/ Release(i, g)
  BY DEF NoConnection, FinishFile, FinishDir, PauseSeen, CancelSeen,
         FailRetry, FailForGood, Live, LivePC
<1>6. /\ \A j \in Items : status[j] = "absent" => status'[j] = "absent"
      /\ \A j \in Items \ {i} : attempts'[j] = attempts[j]
  <2>1. CASE NoConnection(i, g) \/ FailForGood(i, g)
    BY <1>1, <2>1 DEF NoConnection, FailForGood, GiveUp, TypeOK
  <2>2. CASE FinishFile(i, g) \/ FinishDir(i, g) \/ CancelSeen(i, g)
    <3>1. Forget({i}) \/ UNCHANGED itemVars
      BY <2>2 DEF FinishFile, FinishDir, CancelSeen, Succeed
    <3>2. CASE Forget({i})
      BY <3>2, Forgotten
    <3>3. CASE UNCHANGED itemVars
      BY <3>3 DEF itemVars
    <3>4. QED
      BY <3>1, <3>2, <3>3
  <2>3. CASE PauseSeen(i, g) \/ FailRetry(i, g)
    BY <1>1, <2>3 DEF PauseSeen, FailRetry, TypeOK
  <2>4. CASE Archive(i, g) \/ Release(i, g)
    BY <2>4 DEF Archive, Release, itemVars
  <2>5. QED
    BY <2>1, <2>2, <2>3, <2>4
<1>7. Live(i, g) \/ attempts' = attempts
  BY <1>5 DEF Archive, Release, itemVars
<1>8. QED
  BY <1>2, <1>3, <1>4, <1>6, <1>7, EndStep

LEMMA RegisterControl ==
  ASSUME IInv, CInv, NEW i \in starting, NEW g \in Generations,
         Register(i, g)
  PROVE  CInv'
<1>0. TypeOK /\ i \in Items /\ "spawned" \in TaskPC
  BY DEF IInv, TypeOK, TaskPC, LivePC
<1>1. /\ task' \in [Items -> [Generations -> Task]]
      /\ task'[i][g].pc = "spawned"
      /\ \A j \in Items, h \in Generations :
           j # i \/ h # g => task'[j][h] = task[j][h]
  BY <1>0, SettleTask DEF Register
<1>2. ~task'[i][g].cancelled
  <2> DEFINE t == [IdleTask EXCEPT !.pc = "spawned"]
  <2>1. task' = [task EXCEPT ![i][g] = t] /\ ~t.cancelled
    BY DEF Register, Settle, IdleTask
  <2> HIDE DEF t
  <2>2. QED
    BY <1>0, <2>1 DEF TypeOK
<1>3. status' = status /\ attempts' = attempts /\ command' = command
  BY DEF Register
<1>4. QED
  BY <1>0, <1>1, <1>2, <1>3, TaskStep DEF Stopped

LEMMA FetchControl ==
  ASSUME IInv, CInv, NEW i \in Items, NEW g \in Generations, Fetch(i, g)
  PROVE  CInv'
<1>1. status' = status /\ attempts' = attempts /\ command' = command
  BY DEF Fetch, itemVars
<1>2. CASE status[i] = "absent"
  BY <1>1, <1>2, EndStep DEF Fetch, EndTask, TaskPC, LivePC
<1>3. CASE status[i] # "absent"
  <2> DEFINE t == [task[i][g] EXCEPT !.pc = "fetched", !.session = session[i],
                                     !.attempts = attempts[i]]
  <2>1. task[i][g] \in Task /\ task \in [Items -> [Generations -> Task]]
    BY DEF IInv, TypeOK
  <2>2. /\ t.attempts = attempts[i] /\ t.cancelled = task[i][g].cancelled
        /\ t.pausing = task[i][g].pausing
    BY <2>1 DEF Task
  <2>3. task' = [task EXCEPT ![i][g] = t]
    BY <1>3 DEF Fetch
  <2> HIDE DEF t
  <2>4. /\ task'[i][g] = t
        /\ \A j \in Items, h \in Generations :
             j # i \/ h # g => task'[j][h] = task[j][h]
    BY <2>1, <2>3
  <2>5. Live(i, g)
    BY DEF Fetch, Live, LivePC
  <2>6. Stopped(i, g)' => Removing(i)
    BY <1>3, <2>2, <2>4, <2>5
    DEF CInv, OnlyRemovedIsDropped, Present, Stopped, Removing
  <2>7. QED
    BY <1>1, <2>2, <2>4, <2>6, TaskStep
<1>4. QED
  BY <1>2, <1>3

\* FindSession and Expand only move the program counter of their task.
LEMMA GoesOnControl ==
  ASSUME IInv, CInv, NEW i \in Items, NEW g \in Generations,
         \/ FindSession(i, g)
         \/ \E kids \in SUBSET fresh : Expand(i, g, kids)
  PROVE  CInv'
<1>0. TypeOK
  BY DEF IInv
<1>1. PICK pc \in {"running", "expanded"} : SetPC(i, g, pc)
  BY DEF FindSession, Expand
<1> DEFINE t == [task[i][g] EXCEPT !.pc = pc]
<1>2. task[i][g] \in Task /\ task' = [task EXCEPT ![i][g] = t]
  BY <1>0, <1>1 DEF TypeOK, SetPC
<1>3. /\ t.attempts = task[i][g].attempts /\ t.pausing = task[i][g].pausing
      /\ t.cancelled = task[i][g].cancelled
  BY <1>2 DEF Task
<1> HIDE DEF t
<1>4. /\ task'[i][g] = t
      /\ \A j \in Items, h \in Generations :
           j # i \/ h # g => task'[j][h] = task[j][h]
  BY <1>0, <1>2 DEF TypeOK
<1>5. attempts' = attempts /\ command' = command
  BY DEF FindSession, Expand, itemVars
<1>6. \A j \in Items \ fresh : status'[j] = status[j]
  BY DEF FindSession, Expand, itemVars
<1>7. Live(i, g) /\ i \notin fresh /\ task[i][g].pc \in {"fetched", "running"}
  BY DEF IInv, TaskOK, FindSession, Expand, Live, LivePC
<1>8. status[i] # "absent" => /\ task[i][g].attempts = attempts[i]
                              /\ Stopped(i, g) => Removing(i)
  BY <1>7 DEF CInv, AttemptsCurrent, OnlyRemovedIsDropped, Present, Stopped,
              Removing
<1>9. Stopped(i, g)' => Stopped(i, g)
  BY <1>3, <1>4, <1>7 DEF Stopped
<1>10. QED
  BY <1>3, <1>4, <1>5, <1>6, <1>7, <1>8, <1>9, TaskStep

-----------------------------------------------------------------------------
(* The other steps: no task starts, goes on or ends.                       *)

LEMMA CommandControl ==
  ASSUME IInv, CInv, CommandOK',
         \A j \in Items, h \in Generations :
           /\ task'[j][h].pc = task[j][h].pc
           /\ task'[j][h].attempts = task[j][h].attempts,
         \A j \in Items :
           \/ status'[j] = "absent"
           \/ status[j] # "absent" /\ attempts'[j] = attempts[j]
           \/ status[j] \in {"paused", "failed"}
           \/ j \in fresh,
         \A j \in Items, h \in Generations :
           status'[j] # "absent" /\ Stopped(j, h)' => Removing(j)'
  PROVE  CInv'
<1>1. \A j \in Items, h \in Generations :
        Live(j, h) => j \notin fresh /\ status[j] \notin {"paused", "failed"}
  BY DEF IInv, OneOwner, Owned, TaskOK, Live, LivePC
<1>2. AttemptsCurrent'
  <2> SUFFICES ASSUME NEW j \in Items, NEW h \in Generations,
                      status'[j] # "absent",
                      task'[j][h].pc \in {"fetched", "running", "expanded"}
               PROVE  task'[j][h].attempts = attempts'[j]
    BY DEF AttemptsCurrent, Present
  <2>1. Live(j, h)
    BY DEF Live, LivePC
  <2>2. QED
    BY <1>1, <2>1 DEF CInv, AttemptsCurrent, Present
<1>3. QED
  BY <1>2, Pieces

\* cancel() makes a task stop without `pausing` only in the set it is
\* applied to, and only when it is not a pause.
LEMMA CancelledStops ==
  ASSUME TypeOK, NEW S \in SUBSET Items, NEW p \in BOOLEAN,
         task' = Cancelled(S, p)
  PROVE  \A j \in Items, h \in Generations :
           Stopped(j, h)' => Stopped(j, h) \/ (j \in S /\ ~p)
<1> SUFFICES ASSUME NEW j \in Items, NEW h \in Generations, Stopped(j, h)',
                    ~(j \in S /\ ~p)
             PROVE  Stopped(j, h)
  OBVIOUS
<1>1. task[j][h] \in Task
  BY DEF TypeOK
<1>2. CASE task'[j][h] = task[j][h]
  BY <1>2 DEF Stopped, Live
<1>3. CASE /\ j \in S
           /\ task'[j][h] = [task[j][h] EXCEPT !.cancelled = TRUE,
                                               !.pausing = p]
  <2>1. [task[j][h] EXCEPT !.cancelled = TRUE, !.pausing = p].pausing = p
    BY <1>1 DEF Task
  <2>2. QED
    BY <1>3, <2>1 DEF Stopped
<1>4. QED
  BY <1>2, <1>3 DEF Cancelled

\* A command that goes on: what it was dropping, or that it clears.
LEMMA CommandGoesOn ==
  ASSUME IInv, NEW i \in Items, command' = [command EXCEPT !.todo = @ \ {i}]
  PROVE  command'.dropping = command.dropping /\ command'.op = command.op
BY DEF IInv, TypeOK, Command

\* Steps that cancel nothing for good and leave the command what it is.
LEMMA HarmlessControl ==
  ASSUME IInv, CInv, CommandOK',
         command'.dropping = command.dropping, command'.op = command.op,
         \/ task' = task
         \/ \E S \in SUBSET Items : task' = Cancelled(S, TRUE),
         \A j \in Items :
           \/ status'[j] = "absent"
           \/ status[j] # "absent" /\ attempts'[j] = attempts[j]
           \/ status[j] \in {"paused", "failed"}
           \/ j \in fresh
  PROVE  CInv'
<1>1. TypeOK
  BY DEF IInv
<1>2. \A j \in Items, h \in Generations :
        /\ task'[j][h].pc = task[j][h].pc
        /\ task'[j][h].attempts = task[j][h].attempts
        /\ Stopped(j, h)' => Stopped(j, h)
  <2>1. CASE task' = task
    BY <2>1 DEF Stopped, Live
  <2>2. CASE \E S \in SUBSET Items : task' = Cancelled(S, TRUE)
    BY <1>1, <2>2, CancelledTask, CancelledStops
  <2>3. QED
    BY <2>1, <2>2
<1>3. \A j \in Items, h \in Generations : Stopped(j, h) => j \notin fresh
  BY DEF IInv, TaskOK, Stopped, Live, LivePC
<1>4. \A j \in Items, h \in Generations :
        status'[j] # "absent" /\ Stopped(j, h)' => Removing(j)'
  <2> SUFFICES ASSUME NEW j \in Items, NEW h \in Generations,
                      status'[j] # "absent", Stopped(j, h)'
               PROVE  Removing(j)'
    OBVIOUS
  <2>1. Stopped(j, h) /\ status[j] # "absent"
    BY <1>2, <1>3
  <2>2. Removing(j)
    BY <2>1 DEF CInv, OnlyRemovedIsDropped, Present, Stopped, Removing
  <2>3. QED
    BY <2>2 DEF Removing
<1>5. QED
  BY <1>2, <1>4, CommandControl

LEMMA HarmlessSteps ==
  ASSUME IInv, CInv,
         \/ \E i \in Items : \/ RetryDue(i) \/ Pause(i) \/ Resume(i)
                             \/ UnbindPause(i)
         \/ \E i \in Items, s \in Sessions, first \in {"queued", "paused"} :
              Add(i, s, first)
         \/ \E S \in SUBSET Items, seen \in SUBSET Sessions : Mark(S, seen)
         \/ \E s \in Sessions : Connect(s) \/ Bind(s) \/ UnbindBegin(s)
         \/ UnbindClear \/ Disconnect
         \/ RetryFailed \/ RemoveFailed \/ ClearHistory \/ UNCHANGED vars
  PROVE  CInv'
<1>1. command' = command
  BY DEF RetryDue, Pause, Resume, UnbindPause, Add, Mark, Connect, Bind,
         UnbindBegin, UnbindClear, Disconnect, RetryFailed, RemoveFailed,
         ClearHistory, vars
<1>2. CommandOK'
  BY <1>1 DEF CInv, CommandOK
<1>3. \/ task' = task
      \/ \E S \in SUBSET Items : task' = Cancelled(S, TRUE)
  BY DEF RetryDue, Pause, PauseItem, Resume, UnbindPause, Add, Mark, Connect,
         Bind, UnbindBegin, UnbindClear, Disconnect, RetryFailed,
         RemoveFailed, ClearHistory, vars
<1>4. TypeOK
  BY DEF IInv
<1>5. \A j \in Items :
        \/ status'[j] = status[j] /\ attempts'[j] = attempts[j]
        \/ status'[j] = "absent"
        \/ status[j] # "absent" /\ attempts'[j] = attempts[j]
        \/ status[j] \in {"paused", "failed"}
        \/ j \in fresh
  <2>1. CASE \E i \in Items : Pause(i) \/ UnbindPause(i)
    BY <1>4, <2>1, PauseItemKeeps DEF Pause, UnbindPause
  <2>2. CASE RetryFailed \/ \E i \in Items : Resume(i)
    BY <1>4, <2>2 DEF RetryFailed, Resume, Requeued
  <2>3. CASE \E i \in Items, s \in Sessions, first \in {"queued", "paused"} :
               Add(i, s, first)
    BY <1>4, <2>3 DEF Add, TypeOK
  <2>4. CASE \E S \in SUBSET Items, seen \in SUBSET Sessions : Mark(S, seen)
    BY <2>4 DEF Mark, Ready
  <2>5. CASE RemoveFailed
    BY <2>5 DEF RemoveFailed, Forget
  <2>6. CASE \/ \E i \in Items : RetryDue(i)
             \/ \E s \in Sessions : Connect(s) \/ Bind(s) \/ UnbindBegin(s)
             \/ UnbindClear \/ Disconnect \/ ClearHistory \/ UNCHANGED vars
    BY <2>6 DEF RetryDue, Connect, Bind, UnbindBegin, UnbindClear,
                Disconnect, ClearHistory, vars, itemVars
  <2>7. QED
    BY <2>1, <2>2, <2>3, <2>4, <2>5, <2>6
<1>6. \A j \in Items :
        \/ status'[j] = "absent"
        \/ status[j] # "absent" /\ attempts'[j] = attempts[j]
        \/ status[j] \in {"paused", "failed"}
        \/ j \in fresh
  BY <1>5
<1>7. QED
  BY <1>1, <1>2, <1>3, <1>6, HarmlessControl

LEMMA GoesOnSteps ==
  ASSUME IInv, CInv, NEW i \in Items, PauseNext(i) \/ ResumeNext(i)
  PROVE  CInv'
<1>0. TypeOK
  BY DEF IInv
<1>1. /\ command'.dropping = command.dropping /\ command'.op = command.op
      /\ command.op # "remove"
  BY CommandGoesOn DEF PauseNext, ResumeNext
<1>2. CommandOK'
  BY <1>1 DEF CInv, CommandOK
<1>3. \/ task' = task
      \/ \E S \in SUBSET Items : task' = Cancelled(S, TRUE)
  BY DEF PauseNext, PauseItem, ResumeNext
<1>4. \A j \in Items :
        \/ status'[j] = "absent"
        \/ status[j] # "absent" /\ attempts'[j] = attempts[j]
        \/ status[j] \in {"paused", "failed"}
        \/ j \in fresh
  <2>1. CASE PauseNext(i)
    BY <1>0, <2>1, PauseItemKeeps DEF PauseNext
  <2>2. CASE ResumeNext(i)
    BY <1>0, <2>2 DEF ResumeNext, Requeued
  <2>3. QED
    BY <2>1, <2>2
<1>5. QED
  BY <1>1, <1>2, <1>3, <1>4, HarmlessControl

\* Idle: nothing is being dropped, so no task of a present item is stopped.
LEMMA NothingStopped ==
  ASSUME CInv, command.dropping = NoItem, command.op # "clear",
         NEW j \in Items, NEW h \in Generations, status[j] # "absent"
  PROVE  ~Stopped(j, h)
BY ItemsAssumption DEF CInv, OnlyRemovedIsDropped, Present, Stopped

LEMMA BeginSteps ==
  ASSUME IInv, CInv,
         \/ PauseAll \/ ResumeAll \/ Return
         \/ \E i \in Items : Remove(i)
         \/ \E b \in {BatchOf[i] : i \in Items} : RemoveBatch(b)
  PROVE  CInv'
<1>1. UNCHANGED <<status, attempts, task>> /\ command'.dropping = NoItem
  BY DEF PauseAll, ResumeAll, Return, Remove, RemoveBatch, Begin, itemVars,
         Idle
<1>2. command.dropping = NoItem /\ command.op # "clear"
  BY DEF PauseAll, ResumeAll, Return, Remove, RemoveBatch, Begin, Idle, CInv,
         CommandOK
<1>3. CommandOK'
  BY <1>1 DEF CommandOK
<1>4. \A j \in Items, h \in Generations :
        status'[j] # "absent" /\ Stopped(j, h)' => Removing(j)'
  BY <1>1, <1>2, NothingStopped DEF Stopped, Live
<1>5. QED
  BY <1>1, <1>3, <1>4, CommandControl

LEMMA ClearControl ==
  ASSUME IInv, CInv, Clear
  PROVE  CInv'
<1>1. UNCHANGED <<status, attempts>> /\ command'.op = "clear"
      /\ command'.dropping = NoItem /\ task' = Cancelled(Items, FALSE)
  BY DEF Clear, Begin, itemVars
<1>2. \A j \in Items, h \in Generations :
        /\ task'[j][h].pc = task[j][h].pc
        /\ task'[j][h].attempts = task[j][h].attempts
  BY <1>1, CancelledTask DEF IInv
<1>3. CommandOK' /\ \A j \in Items : Removing(j)'
  BY <1>1 DEF CommandOK, Removing
<1>4. QED
  BY <1>1, <1>2, <1>3, CommandControl

LEMMA RemoveCancelControl ==
  ASSUME IInv, CInv, NEW i \in Items, RemoveCancel(i)
  PROVE  CInv'
<1>1. /\ UNCHANGED <<status, attempts>> /\ task' = Cancelled({i}, FALSE)
      /\ command.op = "remove" /\ command.dropping = NoItem
      /\ command' = [command EXCEPT !.dropping = i] /\ i \in command.todo
  BY DEF RemoveCancel, itemVars
<1>2. command'.dropping = i /\ command'.op = "remove"
      /\ command'.todo = command.todo
  BY <1>1 DEF IInv, TypeOK, Command
<1>3. CommandOK' /\ Removing(i)'
  BY <1>1, <1>2 DEF CommandOK, Removing
<1>4. \A j \in Items, h \in Generations :
        /\ task'[j][h].pc = task[j][h].pc
        /\ task'[j][h].attempts = task[j][h].attempts
        /\ Stopped(j, h)' => Stopped(j, h) \/ j = i
  <2>1. TypeOK /\ {i} \in SUBSET Items /\ FALSE \in BOOLEAN
    BY DEF IInv
  <2>2. \A j \in Items, h \in Generations :
          Stopped(j, h)' => Stopped(j, h) \/ (j \in {i} /\ ~FALSE)
    BY <1>1, <2>1, CancelledStops
  <2>3. \A j \in Items, h \in Generations :
          /\ task'[j][h].pc = task[j][h].pc
          /\ task'[j][h].attempts = task[j][h].attempts
    BY <1>1, <2>1, CancelledTask
  <2>4. QED
    BY <2>2, <2>3
<1>5. \A j \in Items, h \in Generations :
        status'[j] # "absent" /\ Stopped(j, h)' => Removing(j)'
  BY <1>1, <1>3, <1>4, NothingStopped
<1>6. QED
  BY <1>1, <1>3, <1>4, <1>5, CommandControl

LEMMA DropControl ==
  ASSUME IInv, CInv, RemoveDrop \/ ClearDrop
  PROVE  CInv'
<1>1. task' = task
  BY DEF RemoveDrop, ClearDrop
<1>2. CommandOK'
  <2>1. command'.dropping = NoItem
    <3>1. CASE RemoveDrop
      <4>1. command \in Command
        BY DEF IInv, TypeOK
      <4>2. QED
        BY <3>1, <4>1 DEF RemoveDrop, Command
    <3>2. CASE ClearDrop
      BY <3>2 DEF ClearDrop, Idle
    <3>3. QED
      BY <3>1, <3>2
  <2>2. QED
    BY <2>1 DEF CommandOK
<1>3. \A j \in Items :
        \/ status'[j] = "absent"
        \/ /\ status'[j] = status[j] /\ attempts'[j] = attempts[j]
           /\ command.op = "remove" /\ j # command.dropping
  <2>1. CASE RemoveDrop
    <3>1. Forget({command.dropping}) /\ command.op = "remove"
      BY <2>1 DEF RemoveDrop
    <3>2. QED
      BY <3>1, Forgotten
  <2>2. CASE ClearDrop
    <3>1. Forget(Items)
      BY <2>2 DEF ClearDrop
    <3>2. QED
      BY <3>1, Forgotten
  <2>3. QED
    BY <2>1, <2>2
<1>4. \A j \in Items, h \in Generations :
        status'[j] # "absent" => ~Stopped(j, h)'
  BY <1>1, <1>3 DEF CInv, OnlyRemovedIsDropped, Present, Stopped, Live
<1>5. QED
  BY <1>1, <1>2, <1>3, <1>4, CommandControl

-----------------------------------------------------------------------------

LEMMA ControlInit == Init => CInv
<1> SUFFICES ASSUME Init PROVE CInv
  OBVIOUS
<1>1. QED
  BY DEF Init, CInv, AttemptsCurrent, OnlyRemovedIsDropped, CommandOK,
         Present, Idle

LEMMA ControlNext == IInv /\ CInv /\ [Next]_vars => CInv'
<1> SUFFICES ASSUME IInv, CInv, [Next]_vars PROVE CInv'
  OBVIOUS
<1>1. CASE Scheduler
  BY <1>1, RegisterControl, HarmlessSteps DEF Scheduler
<1>2. CASE \E i \in Items : RetryDue(i)
  BY <1>2, HarmlessSteps
<1>3. ASSUME NEW i \in Items, NEW g \in Generations, WorkerStep(i, g)
      PROVE  CInv'
  BY <1>3, FetchControl, GoesOnControl, EndsControl DEF WorkerStep
<1>4. CASE CommandStep
  BY <1>4, GoesOnSteps, RemoveCancelControl, DropControl, BeginSteps
  DEF CommandStep
<1>5. CASE User
  BY <1>5, HarmlessSteps, BeginSteps, ClearControl DEF User
<1>6. CASE SessionStep
  BY <1>6, HarmlessSteps DEF SessionStep, DisconnectStep
<1>7. CASE UNCHANGED vars
  BY <1>7, HarmlessSteps
<1>8. QED
  BY <1>1, <1>2, <1>3, <1>4, <1>5, <1>6, <1>7 DEF Next

LEMMA ControlInvariant == Spec => []CInv
<1>1. QED
  BY ControlInit, ControlNext, Invariant, PTL DEF Spec

\* handle_failure writes the count of the item the task cloned at its start,
\* and that is still the item's own (worker.rs:58-80).
THEOREM AttemptsAreCurrent == Spec => []AttemptsCurrent
<1>1. CInv => AttemptsCurrent
  BY DEF CInv
<1>2. QED
  BY <1>1, ControlInvariant, PTL

\* A task that finds itself cancelled, not paused, drops an item only under
\* a command that removes it (worker.rs:53).
THEOREM OnlyRemovedAlways == Spec => []OnlyRemovedIsDropped
<1>1. CInv => OnlyRemovedIsDropped
  BY DEF CInv
<1>2. QED
  BY <1>1, ControlInvariant, PTL

-----------------------------------------------------------------------------
(* The limit of a session.  Only dispatch makes an item active, and only   *)
(* bind_session gives a session to an item that had none.                  *)

\* What CapKept says of one step.
CapStep ==
  \A s \in Sessions :
    link[s] = "open" /\ Cardinality(ActiveOn(s)) <= MaxTransfers[s] =>
      Cardinality(ActiveOn(s))' <= MaxTransfers[s]

LEMMA ActiveIsFinite ==
  \A s \in Sessions : IsFiniteSet(ActiveOn(s)) /\ Cardinality(ActiveOn(s)) \in Nat
<1> SUFFICES ASSUME NEW s \in Sessions
             PROVE  IsFiniteSet(ActiveOn(s)) /\ Cardinality(ActiveOn(s)) \in Nat
  OBVIOUS
<1>1. ActiveOn(s) \in SUBSET Items
  BY DEF ActiveOn
<1>2. IsFiniteSet(ActiveOn(s))
  BY <1>1, FinitelyMany, FS_Subset
<1>3. QED
  BY <1>2, FS_CardinalityType

LEMMA NoNewActive ==
  ASSUME \A i \in Items, s \in Sessions :
           link[s] = "open" /\ status'[i] = "active" /\ session'[i] = s =>
             status[i] = "active" /\ session[i] = s
  PROVE  CapStep
<1> SUFFICES ASSUME NEW s \in Sessions, link[s] = "open",
                    Cardinality(ActiveOn(s)) <= MaxTransfers[s]
             PROVE  Cardinality(ActiveOn(s)') <= MaxTransfers[s]
  BY DEF CapStep
<1>1. ActiveOn(s)' \in SUBSET ActiveOn(s)
  BY DEF ActiveOn
<1>2. IsFiniteSet(ActiveOn(s)) /\ Cardinality(ActiveOn(s)) \in Nat
  BY ActiveIsFinite
<1>3. IsFiniteSet(ActiveOn(s)')
      /\ Cardinality(ActiveOn(s)') <= Cardinality(ActiveOn(s))
  BY <1>1, <1>2, FS_Subset
<1>4. Cardinality(ActiveOn(s)') \in Nat
  BY <1>3, FS_CardinalityType
<1>5. MaxTransfers[s] \in Nat
  BY SessionsAssumption
<1>6. QED
  BY <1>2, <1>3, <1>4, <1>5

\* `take(free)` of each session, and the sessions divide the items.
LEMMA MarkCap ==
  ASSUME TypeOK, NEW S \in SUBSET Items, NEW seen \in SUBSET Sessions,
         Mark(S, seen)
  PROVE  CapStep
<1> SUFFICES ASSUME NEW s \in Sessions, link[s] = "open",
                    Cardinality(ActiveOn(s)) <= MaxTransfers[s]
             PROVE  Cardinality(ActiveOn(s)') <= MaxTransfers[s]
  BY DEF CapStep
<1> DEFINE taken == S \cap Ready(s)
<1>1. ActiveOn(s)' = ActiveOn(s) \cup taken
  BY DEF Mark, ActiveOn, Ready, TypeOK
<1>2. /\ IsFiniteSet(ActiveOn(s)) /\ Cardinality(ActiveOn(s)) \in Nat
      /\ IsFiniteSet(taken) /\ Cardinality(taken) \in Nat
  BY FinitelyMany, ActiveIsFinite, FS_Subset, FS_CardinalityType
<1>3. MaxTransfers[s] \in Nat
  BY SessionsAssumption
<1>4. Cardinality(taken) <= Free(s)
  <2>1. CASE s \in seen
    BY <2>1 DEF Mark, TakesFree
  <2>2. CASE s \notin seen
    <3>1. taken = {}
      BY <2>2 DEF Mark, Ready
    <3>2. Free(s) \in Nat
      BY <1>2, <1>3 DEF Free
    <3>3. QED
      BY <3>1, <3>2, FS_EmptySet
  <2>3. QED
    BY <2>1, <2>2
<1>5. Cardinality(ActiveOn(s)) + Cardinality(taken) <= MaxTransfers[s]
  <2> HIDE DEF taken
  <2>1. QED
    BY <1>2, <1>3, <1>4 DEF Free
<1>6. ActiveOn(s) \cap taken = {}
  BY DEF ActiveOn, Ready
<1>7. Cardinality(ActiveOn(s) \cup taken)
        = Cardinality(ActiveOn(s)) + Cardinality(taken)
  <2>1. Cardinality(ActiveOn(s) \cap taken) = 0
    BY <1>6, FS_EmptySet
  <2> HIDE DEF taken
  <2>2. Cardinality(ActiveOn(s) \cup taken)
          = Cardinality(ActiveOn(s)) + Cardinality(taken)
              - Cardinality(ActiveOn(s) \cap taken)
    BY <1>2, FS_Union, Zenon
  <2>3. \A m, n \in Nat : m + n - 0 = m + n
    OBVIOUS
  <2>4. QED
    BY <1>2, <2>1, <2>2, <2>3, Zenon
<1>8. QED
  BY <1>1, <1>5, <1>7

LEMMA CapNext == IInv /\ [Next]_vars => [CapStep]_vars
<1> SUFFICES ASSUME IInv, [Next]_vars PROVE CapStep
  OBVIOUS
<1>0. TypeOK
  BY DEF IInv
<1>1. ASSUME NEW S \in SUBSET Items, NEW seen \in SUBSET Sessions,
             Mark(S, seen)
      PROVE  CapStep
  BY <1>0, <1>1, MarkCap
<1>2. CASE \/ \E i \in starting, g \in Generations : Register(i, g)
           \/ UNCHANGED vars \/ \E i \in Items : RetryDue(i)
  BY <1>2, NoNewActive DEF Register, vars, RetryDue
<1>3. ASSUME NEW i \in Items, NEW g \in Generations, WorkerStep(i, g)
      PROVE  CapStep
  <2>1. CASE \/ Fetch(i, g) \/ FindSession(i, g) \/ Archive(i, g)
             \/ Release(i, g)
    BY <2>1, NoNewActive DEF Fetch, FindSession, Archive, Release, itemVars
  <2>2. CASE FinishFile(i, g) \/ FinishDir(i, g) \/ CancelSeen(i, g)
    BY <2>2, NoNewActive
    DEF FinishFile, FinishDir, CancelSeen, Succeed, Forget, itemVars
  <2>3. CASE NoConnection(i, g) \/ FailForGood(i, g) \/ PauseSeen(i, g)
    BY <1>0, <2>3, NoNewActive
    DEF NoConnection, FailForGood, PauseSeen, GiveUp, TypeOK
  <2>4. CASE FailRetry(i, g)
    BY <1>0, <2>4, NoNewActive DEF FailRetry, TypeOK
  <2>5. CASE \E kids \in SUBSET fresh : Expand(i, g, kids)
    BY <2>5, NoNewActive DEF Expand
  <2>6. QED
    BY <1>3, <2>1, <2>2, <2>3, <2>4, <2>5 DEF WorkerStep
<1>4. CASE \E i \in Items : Pause(i) \/ PauseNext(i) \/ UnbindPause(i)
  <2>1. session' = session /\ \E i \in Items : PauseItem(i)
    BY <1>4 DEF Pause, PauseNext, UnbindPause
  <2>2. \A j \in Items : status'[j] = "active" => status[j] = "active"
    BY <1>0, <2>1, PauseItemKeeps
  <2>3. QED
    BY <2>1, <2>2, NoNewActive
<1>5. CASE RetryFailed \/ \E i \in Items : Resume(i) \/ ResumeNext(i)
  BY <1>5, NoNewActive DEF RetryFailed, Resume, ResumeNext, Requeued
<1>6. CASE RemoveFailed \/ RemoveDrop \/ ClearDrop
  <2>1. /\ \E S \in SUBSET Items : Forget(S)
        /\ UNCHANGED task
    BY <1>0, <1>6 DEF RemoveFailed, RemoveDrop, ClearDrop, TypeOK, Command
  <2>2. \A j \in Items : status'[j] = "active" =>
                            status[j] = "active" /\ session'[j] = session[j]
    BY <2>1, Forgotten
  <2>3. QED
    BY <2>2, NoNewActive
<1>7. CASE \/ PauseAll \/ ResumeAll \/ Clear \/ Return \/ ClearHistory
           \/ \E i \in Items : Remove(i) \/ RemoveCancel(i)
           \/ \E b \in {BatchOf[i] : i \in Items} : RemoveBatch(b)
  BY <1>7, NoNewActive DEF PauseAll, ResumeAll, Clear, Return, ClearHistory,
                          Remove, RemoveCancel, RemoveBatch, Begin, itemVars
<1>8. CASE \E i \in Items, s \in Sessions, first \in {"queued", "paused"} :
             Add(i, s, first)
  BY <1>0, <1>8, NoNewActive DEF Add, TypeOK
<1>9. CASE \/ \E s \in Sessions : Connect(s) \/ Bind(s) \/ UnbindBegin(s)
           \/ UnbindClear \/ Disconnect
  BY <1>9, SessionsAssumption, NoNewActive
  DEF Connect, Bind, UnbindBegin, UnbindClear, Disconnect, itemVars
<1>10. QED
  BY <1>1, <1>2, <1>3, <1>4, <1>5, <1>6, <1>7, <1>8, <1>9
  DEF Next, Scheduler, CommandStep, User, SessionStep, DisconnectStep

\* The number of Active items of a bound session never grows past its
\* max_transfers (queue.rs:605-625).
THEOREM CapIsKept == Spec => CapKept
<1>1. QED
  BY CapNext, Invariant, PTL DEF Spec, CapKept, CapStep
=============================================================================
