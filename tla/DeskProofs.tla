------------------------------ MODULE DeskProofs ------------------------------
(***************************************************************************)
(* Proofs about what lies around the transfers, of MCDesk: the prompts,    *)
(* the throttle, the drag to other programs and the tabs; with what        *)
(* DeskFileProofs says of the other parts, the types of all of them        *)
(* together.  Each section has its inductive invariant, one lemma for each *)
(* step of the part, and what follows from the invariant.                  *)
(***************************************************************************)
EXTENDS DeskFileProofs, FunctionTheorems

-----------------------------------------------------------------------------
(* The prompts of conflicts                                                *)

WorkerType == [pc : {"none", "planning", "asking", "waiting", "writing"},
               policy : Answers \cup {"ask"}, ticket : 0 .. LastPrompt]
InboxType == {NoAnswer} \cup (Answers \X BOOLEAN)

\* A transfer that is listed or worked on has its session.
TabKnown ==
  \A i \in Asking : entry[i] # "gone" \/ worker[i].pc # "none" => tab[i] \in Tabs

\* What PromptCanBeAnswered says of one transfer.
CanBeAnswered(i) ==
  worker[i].pc = "waiting" /\ inbox[i] = NoAnswer /\ entry[i] # "gone" =>
    /\ conflicts[i] = worker[i].ticket
    /\ i \in dialogs \/ \E f \in flying : f[1] = i

\* A prompt has a number.
Numbered == \A i \in Asking : worker[i].pc = "waiting" => worker[i].ticket > 0

PromptInv ==
  /\ PromptTypeOK /\ inbox \in [Asking -> InboxType]
  /\ TabKnown /\ Numbered
  /\ \A i \in Asking : CanBeAnswered(i)

LEMMA PromptInitial == ASSUME PromptInit PROVE PromptInv
<1>1. NoWorker \in WorkerType /\ 0 \in 0 .. LastPrompt /\ NoWorker.pc = "none"
  BY PromptAssumption DEF NoWorker, WorkerType
<1>2. PromptTypeOK
  BY <1>1 DEF PromptInit, PromptTypeOK, WorkerType
<1> QED BY <1>1, <1>2
    DEF PromptInit, PromptInv, InboxType, TabKnown, Numbered, CanBeAnswered

\* The list changes, the workers do not: who is taken out is not asked for.
LEMMA ListChanges ==
  ASSUME PromptInv, UNCHANGED <<worker, inbox, dialogs, flying, apply_all, idle_seen>>,
         tab' \in [Asking -> Tabs \cup {NoTab}],
         entry' \in [Asking -> {"gone", "pending", "failed"}],
         own' \in [Asking -> Answers \cup {"ask"}],
         conflicts' \in [Asking -> 0 .. LastPrompt],
         \A i \in Asking :
           /\ entry'[i] # "gone" \/ worker[i].pc # "none" => tab'[i] \in Tabs
           /\ worker[i].pc = "none" \/ entry'[i] = "gone" \/
                (entry'[i] = entry[i] /\ conflicts'[i] = conflicts[i])
  PROVE  PromptInv'
<1>1. PromptTypeOK' /\ TabKnown' /\ Numbered' /\ (inbox \in [Asking -> InboxType])'
  BY DEF PromptInv, PromptTypeOK, TabKnown, Numbered
<1>2. ASSUME NEW i \in Asking PROVE CanBeAnswered(i)'
  BY DEF PromptInv, CanBeAnswered
<1> QED BY <1>1, <1>2 DEF PromptInv

LEMMA AddTransferKeeps ==
  ASSUME PromptInv, NEW i \in Asking, NEW s \in Tabs, NEW p \in Answers \cup {"ask"},
         AddTransfer(i, s, p)
  PROVE  PromptInv'
<1>1. /\ tab' \in [Asking -> Tabs \cup {NoTab}]
      /\ entry' \in [Asking -> {"gone", "pending", "failed"}]
      /\ own' \in [Asking -> Answers \cup {"ask"}]
      /\ conflicts' \in [Asking -> 0 .. LastPrompt]
  BY DEF AddTransfer, PromptInv, PromptTypeOK
<1>2. ASSUME NEW j \in Asking
      PROVE  /\ entry'[j] # "gone" \/ worker[j].pc # "none" => tab'[j] \in Tabs
             /\ worker[j].pc = "none" \/ entry'[j] = "gone" \/
                  (entry'[j] = entry[j] /\ conflicts'[j] = conflicts[j])
  BY DEF AddTransfer, PromptInv, PromptTypeOK, TabKnown
<1> QED BY <1>1, <1>2, ListChanges DEF AddTransfer, userVars

LEMMA TakeKeeps == ASSUME PromptInv, NEW S \in SUBSET Asking, Take(S) PROVE PromptInv'
<1>1. /\ tab' \in [Asking -> Tabs \cup {NoTab}]
      /\ entry' \in [Asking -> {"gone", "pending", "failed"}]
      /\ own' \in [Asking -> Answers \cup {"ask"}]
      /\ conflicts' \in [Asking -> 0 .. LastPrompt]
  BY PromptAssumption DEF Take, ForgetIds, PromptInv, PromptTypeOK
<1>2. ASSUME NEW j \in Asking
      PROVE  /\ entry'[j] # "gone" \/ worker[j].pc # "none" => tab'[j] \in Tabs
             /\ worker[j].pc = "none" \/ entry'[j] = "gone" \/
                  (entry'[j] = entry[j] /\ conflicts'[j] = conflicts[j])
  BY DEF Take, ForgetIds, PromptInv, PromptTypeOK, TabKnown
<1> QED BY <1>1, <1>2, ListChanges DEF Take, userVars

LEMMA AgainKeeps == ASSUME PromptInv, NEW i \in Asking, Again(i) PROVE PromptInv'
<1>1. /\ tab' \in [Asking -> Tabs \cup {NoTab}]
      /\ entry' \in [Asking -> {"gone", "pending", "failed"}]
      /\ own' \in [Asking -> Answers \cup {"ask"}]
      /\ conflicts' \in [Asking -> 0 .. LastPrompt]
  BY DEF Again, PromptInv, PromptTypeOK
<1>2. ASSUME NEW j \in Asking
      PROVE  /\ entry'[j] # "gone" \/ worker[j].pc # "none" => tab'[j] \in Tabs
             /\ worker[j].pc = "none" \/ entry'[j] = "gone" \/
                  (entry'[j] = entry[j] /\ conflicts'[j] = conflicts[j])
  BY DEF Again, PromptInv, PromptTypeOK, TabKnown
<1> QED BY <1>1, <1>2, ListChanges DEF Again, userVars

\* The task of i goes on, or ends, and leaves what the others wait for.
LEMMA TaskGoesOn ==
  ASSUME PromptInv, NEW i \in Asking, NEW w \in WorkerType,
         worker' = [worker EXCEPT ![i] = w],
         tab' \in [Asking -> Tabs \cup {NoTab}],
         entry' \in [Asking -> {"gone", "pending", "failed"}],
         own' \in [Asking -> Answers \cup {"ask"}],
         apply_all' \in [Tabs -> Answers \cup {"ask"}],
         UNCHANGED <<flying, idle_seen>>, dialogs' \in {dialogs, dialogs \cup {i}},
         conflicts' \in [Asking -> 0 .. LastPrompt],
         inbox' \in [Asking -> InboxType], inbox'[i] = NoAnswer,
         \A j \in Asking \ {i} : /\ inbox'[j] = inbox[j] /\ conflicts'[j] = conflicts[j]
                                 /\ entry'[j] = entry[j] /\ tab'[j] = tab[j],
         entry'[i] # "gone" \/ w.pc # "none" => tab'[i] \in Tabs,
         w.pc = "waiting" => w.ticket > 0 /\ conflicts'[i] = w.ticket /\ i \in dialogs'
  PROVE  PromptInv'
<1>1. worker' \in [Asking -> WorkerType] /\ worker'[i] = w
      /\ \A j \in Asking \ {i} : worker'[j] = worker[j]
  BY DEF PromptInv, PromptTypeOK, WorkerType
<1>2. \A j \in Asking : inbox'[j] # NoAnswer =>
        worker'[j].pc = "waiting" /\ inbox'[j] \in Answers \X BOOLEAN
  BY <1>1 DEF PromptInv, PromptTypeOK
<1>3. PromptTypeOK'
  BY <1>1, <1>2 DEF PromptInv, PromptTypeOK, WorkerType
<1>4. TabKnown' /\ Numbered'
  BY <1>1 DEF PromptInv, TabKnown, Numbered
<1>5. ASSUME NEW j \in Asking PROVE CanBeAnswered(j)'
  BY <1>1 DEF PromptInv, CanBeAnswered
<1> QED BY <1>3, <1>4, <1>5 DEF PromptInv

LEMMA WorkerRecord ==
  ASSUME PromptInv, NEW i \in Asking
  PROVE  /\ worker[i] \in WorkerType
         /\ worker[i] = [pc |-> worker[i].pc, policy |-> worker[i].policy,
                         ticket |-> worker[i].ticket]
         /\ tab[i] \in Tabs \/ (worker[i].pc = "none" /\ entry[i] = "gone")
         /\ worker[i].pc # "waiting" => inbox[i] = NoAnswer
<1>1. worker[i] \in WorkerType
  BY DEF PromptInv, PromptTypeOK, WorkerType
<1> QED BY <1>1 DEF PromptInv, PromptTypeOK, TabKnown, WorkerType

\* The fields of a worker.
LEMMA WorkerFields ==
  ASSUME PromptInv, NEW i \in Asking
  PROVE  /\ worker[i].policy \in Answers \cup {"ask"}
         /\ worker[i].ticket \in 0 .. LastPrompt
<1>1. worker[i] \in WorkerType
  BY DEF PromptInv, PromptTypeOK, WorkerType
<1> QED BY <1>1 DEF WorkerType

Pcs == {"none", "planning", "asking", "waiting", "writing"}
Policies == Answers \cup {"ask"}

LEMMA WithPc ==
  ASSUME NEW r \in WorkerType, NEW pc \in Pcs
  PROVE  [r EXCEPT !.pc = pc] = [pc |-> pc, policy |-> r.policy, ticket |-> r.ticket]
  BY DEF WorkerType, Pcs

LEMMA WithTicket ==
  ASSUME NEW r \in WorkerType, NEW pc \in Pcs, NEW t \in 0 .. LastPrompt
  PROVE  [r EXCEPT !.pc = pc, !.ticket = t] = [pc |-> pc, policy |-> r.policy, ticket |-> t]
<1> DEFINE q == [r EXCEPT !.pc = pc]
<1>1. q = [pc |-> pc, policy |-> r.policy, ticket |-> r.ticket] /\ q \in WorkerType
  BY DEF WorkerType, Pcs
<1>2. [r EXCEPT !.pc = pc, !.ticket = t] = [q EXCEPT !.ticket = t]
  OBVIOUS
<1> HIDE DEF q
<1>3. [q EXCEPT !.ticket = t] = [pc |-> pc, policy |-> r.policy, ticket |-> t]
  BY <1>1 DEF WorkerType
<1> QED BY <1>2, <1>3

LEMMA WithPolicy ==
  ASSUME NEW r \in WorkerType, NEW pc \in Pcs, NEW p \in Policies
  PROVE  [r EXCEPT !.policy = p, !.pc = pc] = [pc |-> pc, policy |-> p, ticket |-> r.ticket]
<1> DEFINE q == [r EXCEPT !.policy = p]
<1>1. q = [pc |-> r.pc, policy |-> p, ticket |-> r.ticket] /\ q \in WorkerType
  BY DEF WorkerType, Policies
<1>2. [r EXCEPT !.policy = p, !.pc = pc] = [q EXCEPT !.pc = pc]
  OBVIOUS
<1> HIDE DEF q
<1>3. [q EXCEPT !.pc = pc] = [pc |-> pc, policy |-> p, ticket |-> r.ticket]
  BY <1>1 DEF WorkerType, Pcs
<1> QED BY <1>2, <1>3

LEMMA WithAnswer ==
  ASSUME NEW r \in WorkerType, NEW pc \in Pcs, NEW p \in Policies
  PROVE  [r EXCEPT !.pc = pc, !.policy = p] = [pc |-> pc, policy |-> p, ticket |-> r.ticket]
<1> DEFINE q == [r EXCEPT !.pc = pc]
<1>1. q = [pc |-> pc, policy |-> r.policy, ticket |-> r.ticket] /\ q \in WorkerType
  BY DEF WorkerType, Pcs
<1>2. [r EXCEPT !.pc = pc, !.policy = p] = [q EXCEPT !.policy = p]
  OBVIOUS
<1> HIDE DEF q
<1>3. [q EXCEPT !.policy = p] = [pc |-> pc, policy |-> p, ticket |-> r.ticket]
  BY <1>1 DEF WorkerType, Policies
<1> QED BY <1>2, <1>3

LEMMA RunKeeps == ASSUME PromptInv, NEW i \in Asking, Run(i) PROVE PromptInv'
<1> DEFINE w == [pc |-> "planning", policy |-> worker[i].policy, ticket |-> worker[i].ticket]
<1>3. [worker[i] EXCEPT !.pc = "planning"] = w
  <2>1. worker[i] \in WorkerType
    BY WorkerRecord
  <2> QED BY <2>1 DEF WorkerType
<1>4. w \in WorkerType /\ w.pc = "planning"
  BY WorkerFields DEF WorkerType
<1> HIDE DEF w
<1>1. worker' = [worker EXCEPT ![i] = w] /\ w \in WorkerType /\ w.pc = "planning"
  BY <1>3, <1>4 DEF Run
<1>2. inbox[i] = NoAnswer /\ tab[i] \in Tabs
  BY WorkerRecord DEF Run
<1> QED BY <1>1, <1>2, TaskGoesOn DEF Run, userVars, PromptInv, PromptTypeOK

LEMMA DecideKeeps == ASSUME PromptInv, NEW i \in Asking, Decide(i) PROVE PromptInv'
<1> DEFINE p == EffectivePolicy(i)
           to == IF p = "ask" THEN "asking" ELSE "writing"
           w == [pc |-> to, policy |-> p, ticket |-> worker[i].ticket]
<1>1. inbox[i] = NoAnswer /\ tab[i] \in Tabs
  BY WorkerRecord DEF Decide
<1>2. p \in Answers \cup {"ask"}
  BY <1>1 DEF EffectivePolicy, PromptInv, PromptTypeOK
<1>3. worker' = [worker EXCEPT ![i].policy = p, ![i].pc = to] /\ to \in {"asking", "writing"}
  BY DEF Decide
<1> HIDE DEF p, to
<1>5. [worker[i] EXCEPT !.policy = p, !.pc = to] = w
  <2>1. worker[i] \in WorkerType
    BY WorkerRecord
  <2>2. to \in Pcs /\ p \in Policies /\ worker[i].ticket \in 0 .. LastPrompt
    BY <1>2, <1>3, WorkerFields DEF Pcs, Policies
  <2> QED BY <2>1, <2>2, WithPolicy, ZenonT(30)
<1>6. w \in WorkerType /\ w.pc \in {"asking", "writing"}
  BY <1>2, <1>3, WorkerFields DEF WorkerType
<1> HIDE DEF w
<1>7. worker \in [Asking -> WorkerType]
  BY DEF PromptInv, PromptTypeOK, WorkerType
<1>4. worker' = [worker EXCEPT ![i] = w] /\ w \in WorkerType /\ w.pc \in {"asking", "writing"}
  BY <1>3, <1>5, <1>6, <1>7
<1> QED BY <1>1, <1>4, TaskGoesOn DEF Decide, userVars, PromptInv, PromptTypeOK

LEMMA OpenKeeps == ASSUME PromptInv, NEW i \in Asking, Open(i) PROVE PromptInv'
<1> DEFINE w == [pc |-> "waiting", policy |-> worker[i].policy,
                 ticket |-> worker[i].ticket + 1]
<1>1. inbox[i] = NoAnswer /\ tab[i] \in Tabs
  BY WorkerRecord DEF Open
<1> DEFINE t == worker[i].ticket
<1>5. t \in 0 .. LastPrompt /\ t < LastPrompt
  BY WorkerFields DEF Open
<1>6. t + 1 \in 0 .. LastPrompt /\ t + 1 > 0
  <2> HIDE DEF t
  <2> QED BY <1>5, PromptAssumption
<1>2. worker[i].ticket + 1 \in 0 .. LastPrompt /\ worker[i].ticket + 1 > 0
  BY <1>6
<1>7. [worker[i] EXCEPT !.pc = "waiting", !.ticket = worker[i].ticket + 1] = w
  <2>1. worker[i] \in WorkerType
    BY WorkerRecord
  <2>2. "waiting" \in Pcs /\ worker[i].policy \in Policies /\ worker[i].ticket + 1 \in 0 .. LastPrompt
    BY <1>2, WorkerFields DEF Pcs, Policies
  <2> QED BY <2>1, <2>2, WithTicket, ZenonT(60)
<1>8. w \in WorkerType /\ w.pc = "waiting" /\ w.ticket = worker[i].ticket + 1
  BY <1>2, WorkerFields DEF WorkerType
<1>9. worker' = [worker EXCEPT ![i].pc = "waiting", ![i].ticket = worker[i].ticket + 1]
  BY DEF Open
<1> HIDE DEF w, t
<1>3. worker' = [worker EXCEPT ![i] = w] /\ w \in WorkerType /\ w.pc = "waiting"
      /\ w.ticket = worker[i].ticket + 1
  BY <1>7, <1>8, <1>9
<1>4. /\ conflicts' \in [Asking -> 0 .. LastPrompt] /\ conflicts'[i] = w.ticket
      /\ \A j \in Asking \ {i} : conflicts'[j] = conflicts[j]
  BY <1>2, <1>3 DEF Open, PromptInv, PromptTypeOK
<1>10. /\ dialogs' = dialogs \cup {i} /\ inbox' = inbox
       /\ UNCHANGED <<tab, entry, own, inbox, flying, apply_all, idle_seen>>
  BY DEF Open
<1>11. /\ tab \in [Asking -> Tabs \cup {NoTab}]
       /\ entry \in [Asking -> {"gone", "pending", "failed"}]
       /\ own \in [Asking -> Answers \cup {"ask"}]
       /\ apply_all \in [Tabs -> Answers \cup {"ask"}]
       /\ inbox \in [Asking -> InboxType]
  BY DEF PromptInv, PromptTypeOK
<1>12. w.ticket > 0 /\ conflicts'[i] = w.ticket /\ i \in dialogs'
  BY <1>2, <1>3, <1>4, <1>10
<1> QED BY <1>1, <1>3, <1>4, <1>10, <1>11, <1>12, TaskGoesOn

LEMMA ReceiveAnswerKeeps ==
  ASSUME PromptInv, NEW i \in Asking, ReceiveAnswer(i) PROVE PromptInv'
<1> DEFINE w == [pc |-> "writing", policy |-> inbox[i][1], ticket |-> worker[i].ticket]
<1>1. inbox[i][1] \in Answers /\ inbox[i][2] \in BOOLEAN /\ tab[i] \in Tabs
  BY WorkerRecord DEF ReceiveAnswer, PromptInv, PromptTypeOK
<1>5. [worker[i] EXCEPT !.pc = "writing", !.policy = inbox[i][1]] = w
  <2>1. worker[i] \in WorkerType
    BY WorkerRecord
  <2>2. "writing" \in Pcs /\ inbox[i][1] \in Policies /\ worker[i].ticket \in 0 .. LastPrompt
    BY <1>1, WorkerFields DEF Pcs, Policies
  <2> QED BY <2>1, <2>2, WithAnswer, ZenonT(60)
<1>6. w \in WorkerType /\ w.pc = "writing"
  BY <1>1, WorkerFields DEF WorkerType
<1>7. worker' = [worker EXCEPT ![i].pc = "writing", ![i].policy = inbox[i][1]]
  BY DEF ReceiveAnswer
<1> HIDE DEF w
<1>2. worker' = [worker EXCEPT ![i] = w] /\ w \in WorkerType /\ w.pc = "writing"
  BY <1>5, <1>6, <1>7
<1>3. apply_all' \in [Tabs -> Answers \cup {"ask"}]
  BY <1>1 DEF ReceiveAnswer, PromptInv, PromptTypeOK
<1>4. /\ inbox' \in [Asking -> InboxType] /\ inbox'[i] = NoAnswer
      /\ \A j \in Asking \ {i} : inbox'[j] = inbox[j]
  BY DEF ReceiveAnswer, PromptInv, InboxType
<1> QED BY <1>1, <1>2, <1>3, <1>4, TaskGoesOn
    DEF ReceiveAnswer, userVars, PromptInv, PromptTypeOK

LEMMA EndsKeeps ==
  ASSUME PromptInv, NEW i \in Asking, NEW to \in {"gone", "pending", "failed"}, Ends(i, to),
         UNCHANGED inbox, inbox[i] = NoAnswer, worker[i].pc # "none"
  PROVE  PromptInv'
<1> DEFINE t == IF entry'[i] = "gone" THEN 0 ELSE worker[i].ticket
           w == [NoWorker EXCEPT !.ticket = t]
<1>6. t \in 0 .. LastPrompt
  BY WorkerFields, PromptAssumption
<1>1. worker' = [worker EXCEPT ![i] = w]
  BY DEF Ends
<1>2. w \in WorkerType /\ w.pc = "none"
  <2> HIDE DEF t
  <2>1. w = [pc |-> "none", policy |-> "ask", ticket |-> t]
    BY DEF NoWorker
  <2> QED BY <1>6, <2>1 DEF WorkerType
<1> HIDE DEF w
<1>3. entry' \in [Asking -> {"gone", "pending", "failed"}]
      /\ \A j \in Asking \ {i} : entry'[j] = entry[j]
  BY DEF Ends, PromptInv, PromptTypeOK
<1>4. tab[i] \in Tabs
  BY WorkerRecord
<1>5. /\ tab' \in [Asking -> Tabs \cup {NoTab}] /\ own' \in [Asking -> Answers \cup {"ask"}]
      /\ \A j \in Asking \ {i} : tab'[j] = tab[j]
      /\ entry'[i] # "gone" => tab'[i] = tab[i]
  BY DEF Ends, ForgetIds, PromptInv, PromptTypeOK
<1>7. /\ UNCHANGED <<conflicts, dialogs, flying, apply_all, idle_seen>>
      /\ conflicts \in [Asking -> 0 .. LastPrompt] /\ inbox \in [Asking -> InboxType]
      /\ apply_all \in [Tabs -> Answers \cup {"ask"}]
  BY DEF Ends, userVars, PromptInv, PromptTypeOK
<1> QED BY <1>1, <1>2, <1>3, <1>4, <1>5, <1>7, TaskGoesOn

LEMMA EndingKeeps ==
  ASSUME PromptInv, NEW i \in Asking, GiveUp(i) \/ SenderLost(i) \/ WriteEnds(i)
  PROVE  PromptInv'
  BY EndsKeeps, WorkerRecord DEF GiveUp, SenderLost, WriteEnds

LEMMA ClickKeeps ==
  ASSUME PromptInv, NEW i \in Asking, NEW a \in Answers, NEW all \in BOOLEAN, Click(i, a, all)
  PROVE  PromptInv'
<1> DEFINE h == <<i, a, all>>
<1>1. h \in Asking \X Answers \X BOOLEAN /\ h[1] = i
  OBVIOUS
<1>2. dialogs' = dialogs \ {i} /\ flying' = flying \cup {h}
  BY DEF Click
<1> HIDE DEF h
<1>3. PromptTypeOK' /\ TabKnown' /\ Numbered' /\ (inbox \in [Asking -> InboxType])'
  BY <1>1, <1>2 DEF Click, PromptInv, PromptTypeOK, TabKnown, Numbered
<1>4. ASSUME NEW j \in Asking PROVE CanBeAnswered(j)'
  BY <1>1, <1>2 DEF Click, PromptInv, CanBeAnswered
<1> QED BY <1>3, <1>4 DEF PromptInv

LEMMA AnswerConflictKeeps ==
  ASSUME PromptInv, NEW f \in flying, AnswerConflict(f)
  PROVE  PromptInv'
<1> DEFINE i == f[1]  h == <<f[2], f[3]>>
           heard == conflicts[i] # 0 /\ conflicts[i] = worker[i].ticket
                      /\ worker[i].pc = "waiting"
<1>1. i \in Asking /\ h \in Answers \X BOOLEAN /\ h # NoAnswer
  BY DEF PromptInv, PromptTypeOK, NoAnswer
<1>2. /\ flying' = flying \ {f} /\ conflicts' = [conflicts EXCEPT ![i] = 0]
      /\ inbox' = IF heard THEN [inbox EXCEPT ![i] = h] ELSE inbox
      /\ UNCHANGED <<tab, entry, own, worker, dialogs, apply_all, idle_seen>>
  BY DEF AnswerConflict
<1> HIDE DEF h
<1>3. inbox' \in [Asking -> InboxType]
      /\ \A j \in Asking \ {i} : inbox'[j] = inbox[j] /\ conflicts'[j] = conflicts[j]
  BY <1>1, <1>2 DEF PromptInv, PromptTypeOK, InboxType
<1>4. heard => inbox'[i] = h
  BY <1>1, <1>2 DEF PromptInv
<1>5. 0 \in 0 .. LastPrompt
  BY PromptAssumption
<1>6. \A j \in Asking : inbox'[j] # NoAnswer =>
        worker'[j].pc = "waiting" /\ inbox'[j] \in Answers \X BOOLEAN
  BY <1>1, <1>2, <1>3, <1>4 DEF PromptInv, PromptTypeOK
<1>7. PromptTypeOK' /\ TabKnown' /\ Numbered'
  BY <1>1, <1>2, <1>5, <1>6 DEF PromptInv, PromptTypeOK, TabKnown, Numbered
<1>8. ASSUME NEW j \in Asking PROVE CanBeAnswered(j)'
  <2>1. CASE j = i
    BY <1>1, <1>2, <1>4, <2>1 DEF PromptInv, PromptTypeOK, CanBeAnswered, Numbered
  <2>2. CASE j # i
    BY <1>2, <1>3, <2>2 DEF PromptInv, CanBeAnswered
  <2> QED BY <2>1, <2>2
<1> QED BY <1>3, <1>7, <1>8 DEF PromptInv

LEMMA SchedulerKeeps == ASSUME PromptInv, SeeIdle \/ ClearApplyAll PROVE PromptInv'
<1>1. /\ UNCHANGED <<tab, entry, own, worker, conflicts, inbox, dialogs, flying>>
      /\ apply_all' \in [Tabs -> Answers \cup {"ask"}] /\ idle_seen' \in BOOLEAN
  BY DEF SeeIdle, ClearApplyAll, userVars, PromptInv, PromptTypeOK
<1> QED BY <1>1 DEF PromptInv, PromptTypeOK, TabKnown, Numbered, CanBeAnswered

LEMMA PromptStep == ASSUME PromptInv, [PromptNext]_promptVars PROVE PromptInv'
<1>1. CASE UNCHANGED promptVars
  BY <1>1 DEF promptVars, PromptInv, PromptTypeOK, TabKnown, Numbered, CanBeAnswered
<1>2. CASE PromptNext
  BY <1>2, AddTransferKeeps, TakeKeeps, AgainKeeps, RunKeeps, DecideKeeps, OpenKeeps,
     ReceiveAnswerKeeps, EndingKeeps, ClickKeeps, AnswerConflictKeeps, SchedulerKeeps
  DEF PromptNext, WorkerGoesOn
<1> QED BY <1>1, <1>2

\* The inductive invariant of the prompts of conflicts.
THEOREM PromptInvariant == PromptSpec => []PromptInv
<1> QED BY PromptInitial, PromptStep, PTL DEF PromptSpec

\* A worker that waits for the user can be answered, after any number of
\* prompts, timeouts, late answers, retries and removals, for any number of
\* transfers that ask side by side.
THEOREM PromptCanBeAnsweredAlways == PromptSpec => []PromptCanBeAnswered
<1>1. PromptInv => PromptCanBeAnswered
  BY DEF PromptInv, CanBeAnswered, PromptCanBeAnswered
<1> QED BY <1>1, PromptInvariant, PTL

-----------------------------------------------------------------------------
(* The throttle                                                            *)

\* There is a largest limit and a largest block, so the slack is a number no
\* burst is above.
LEMMA SlackIsANumber ==
  Slack \in Nat /\ \A l \in Limits : l \in Nat /\ l * BurstTicks \in 0 .. Slack
<1> DEFINE top == CHOOSE l \in Limits : \A k \in Limits : k <= l
           n == Cardinality(Consumers)
<1>1. top \in Nat /\ BurstTicks \in Nat /\ \A l \in Limits : l \in Nat /\ l <= top
  BY ThrottleAssumption
<1>2. Largest \in Nat
  BY ThrottleAssumption DEF Largest
<1>3. n \in Nat
  BY FS_CardinalityType, ThrottleAssumption
<1>4. Slack = top * BurstTicks + n * Largest
  BY DEF Slack
<1> HIDE DEF top, n
<1>5. top * BurstTicks \in Nat /\ n * Largest \in Nat
  BY <1>1, <1>2, <1>3
<1>6. ASSUME NEW l \in Limits PROVE l * BurstTicks \in Nat /\ l * BurstTicks <= top * BurstTicks
  BY <1>1
<1> QED BY <1>1, <1>4, <1>5, <1>6

LEMMA ThrottleInitial == ASSUME ThrottleInit PROVE ThrottleTypeOK
  BY SlackIsANumber, ThrottleAssumption DEF ThrottleInit, ThrottleTypeOK, Awake

\* What the bucket holds at most, and what a block leaves in it.
LEMMA Fills ==
  ASSUME ThrottleTypeOK
  PROVE  /\ Filled \in 0 .. Slack
         /\ \A b \in Blocks : Filled >= b => Filled - b \in 0 .. Slack
<1>1. limit \in Limits /\ limit \in Nat /\ limit * BurstTicks \in 0 .. Slack /\ Slack \in Nat
      /\ age \in Nat /\ tokens \in Nat
  BY SlackIsANumber DEF ThrottleTypeOK
<1>2. age * limit \in Nat
  BY <1>1
<1>3. Filled \in 0 .. Slack
  BY <1>1, <1>2 DEF Filled, Lower
<1> QED BY <1>1, <1>3, ThrottleAssumption

LEMMA Meters ==
  ASSUME ThrottleTypeOK, NEW b \in Nat, Pass(b)
  PROVE  ahead' \in 0 .. Slack + 1 /\ far_ahead' \in 0 .. Slack + 1
BY SlackIsANumber DEF ThrottleTypeOK, Pass, Lower

\* What keeps the types of the sleepers.
LEMMA SleeperTypes ==
  ASSUME ThrottleTypeOK, NEW c \in Consumers,
         NEW s \in [left : Nat, bytes : Blocks \cup {0}], s.bytes = 0 => s.left = 0,
         asleep' = [asleep EXCEPT ![c] = s]
  PROVE  /\ asleep' \in [Consumers -> [left : Nat, bytes : Blocks \cup {0}]]
         /\ \A x \in Consumers : asleep'[x].bytes = 0 => asleep'[x].left = 0
BY DEF ThrottleTypeOK

\* How long a consumer sleeps for what is missing.
LEMMA SleepIsANumber ==
  ASSUME ThrottleTypeOK, NEW b \in Blocks, limit > 0, Filled < b
  PROVE  LET s == [left |-> (b - Filled + limit - 1) \div limit, bytes |-> b]
         IN  s \in [left : Nat, bytes : Blocks \cup {0}] /\ s.bytes # 0
<1>1. limit \in Nat /\ limit > 0 /\ b \in Nat /\ b # 0 /\ Filled \in Nat
  BY Fills, SlackIsANumber, ThrottleAssumption DEF ThrottleTypeOK
<1> DEFINE k == b - Filled + limit - 1
<1>2. k \in Nat
  BY <1>1
<1> HIDE DEF k
<1>3. k \div limit \in Nat
  BY <1>1, <1>2
<1> QED BY <1>1, <1>3 DEF k

LEMMA ConsumeKeeps ==
  ASSUME ThrottleTypeOK, NEW c \in Consumers, NEW b \in Blocks,
         ConsumeUnlimited(c, b) \/ ConsumeNow(c, b) \/ ConsumeLater(c, b)
  PROVE  ThrottleTypeOK'
<1>1. b \in Nat /\ 0 \in 0 .. Slack /\ 0 \in 0 .. BurstTicks
  BY SlackIsANumber, ThrottleAssumption
<1>2. CASE ConsumeUnlimited(c, b)
  BY <1>1, <1>2, Meters DEF ConsumeUnlimited, ThrottleTypeOK
<1>3. CASE ConsumeNow(c, b)
  BY <1>1, <1>3, Meters, Fills DEF ConsumeNow, ThrottleTypeOK
<1>4. CASE ConsumeLater(c, b)
  <2> DEFINE s == [left |-> (b - Filled + limit - 1) \div limit, bytes |-> b]
  <2>1. s \in [left : Nat, bytes : Blocks \cup {0}] /\ s.bytes # 0
    BY <1>4, SleepIsANumber DEF ConsumeLater
  <2>2. /\ asleep' = [asleep EXCEPT ![c] = s] /\ tokens' = 0 /\ age' = 0
        /\ UNCHANGED <<limit, ahead, far_ahead>>
    BY <1>4 DEF ConsumeLater
  <2> HIDE DEF s
  <2>3. /\ asleep' \in [Consumers -> [left : Nat, bytes : Blocks \cup {0}]]
        /\ \A x \in Consumers : asleep'[x].bytes = 0 => asleep'[x].left = 0
    BY <2>1, <2>2, SleeperTypes
  <2> QED BY <1>1, <2>2, <2>3 DEF ThrottleTypeOK
<1> QED BY <1>2, <1>3, <1>4

LEMMA WakeKeeps == ASSUME ThrottleTypeOK, NEW c \in Consumers, Wake(c) PROVE ThrottleTypeOK'
<1>1. Awake \in [left : Nat, bytes : Blocks \cup {0}] /\ Awake.left = 0
  BY DEF Awake
<1>2. asleep' = [asleep EXCEPT ![c] = Awake] /\ Pass(asleep[c].bytes)
      /\ UNCHANGED <<limit, tokens, age>>
  BY DEF Wake
<1>3. asleep[c].bytes \in Nat
  BY ThrottleAssumption DEF ThrottleTypeOK
<1>4. /\ asleep' \in [Consumers -> [left : Nat, bytes : Blocks \cup {0}]]
      /\ \A x \in Consumers : asleep'[x].bytes = 0 => asleep'[x].left = 0
  BY <1>1, <1>2, SleeperTypes
<1>5. ahead' \in 0 .. Slack + 1 /\ far_ahead' \in 0 .. Slack + 1
  BY <1>2, <1>3, Meters
<1> QED BY <1>2, <1>4, <1>5 DEF ThrottleTypeOK

LEMMA TickKeeps == ASSUME ThrottleTypeOK, Tick PROVE ThrottleTypeOK'
<1> DEFINE n == Cardinality(Consumers)
<1>1. /\ limit \in Nat /\ BurstTicks \in Nat /\ age \in 0 .. BurstTicks /\ Slack \in Nat
      /\ n \in Nat
  BY SlackIsANumber, FS_CardinalityType, ThrottleAssumption DEF ThrottleTypeOK
<1>2. age' \in 0 .. BurstTicks
  BY <1>1 DEF Tick, Lower
<1>3. ASSUME NEW c \in Consumers
      PROVE  /\ asleep'[c] \in [left : Nat, bytes : Blocks \cup {0}]
             /\ asleep'[c].bytes = 0 => asleep'[c].left = 0
  <2>1. /\ asleep[c] \in [left : Nat, bytes : Blocks \cup {0}]
        /\ asleep[c].bytes = 0 => asleep[c].left = 0
    BY DEF ThrottleTypeOK
  <2>2. asleep'[c] = [asleep[c] EXCEPT !.left = Higher(asleep[c].left - 1, 0)]
    BY DEF Tick
  <2>3. asleep[c].left \in Nat
    BY <2>1
  <2>4. Higher(asleep[c].left - 1, 0) \in Nat
        /\ (asleep[c].left = 0 => Higher(asleep[c].left - 1, 0) = 0)
    BY <2>3 DEF Higher
  <2> QED BY <2>1, <2>2, <2>4
<1>4. asleep' \in [Consumers -> [left : Nat, bytes : Blocks \cup {0}]]
  BY <1>3 DEF Tick
<1>5. ahead' \in 0 .. Slack + 1
  BY <1>1 DEF Tick, Higher, ThrottleTypeOK
<1>6. far_ahead' \in 0 .. Slack + 1
  <2>1. (n + 1) * limit \in Nat /\ far_ahead' = Higher(far_ahead - (n + 1) * limit, 0)
    BY <1>1 DEF Tick
  <2> DEFINE k == (n + 1) * limit
  <2> HIDE DEF k
  <2>2. k \in Nat /\ far_ahead' = Higher(far_ahead - k, 0)
    BY <2>1 DEF k
  <2> QED BY <1>1, <2>2 DEF Higher, ThrottleTypeOK
<1> QED BY <1>2, <1>3, <1>4, <1>5, <1>6 DEF Tick, ThrottleTypeOK

LEMMA ThrottleStep == ASSUME ThrottleTypeOK, [ThrottleNext]_throttleVars PROVE ThrottleTypeOK'
<1>1. CASE Tick
  BY <1>1, TickKeeps
<1>2. ASSUME NEW l \in Limits, SetLimit(l) PROVE ThrottleTypeOK'
  BY <1>2, SlackIsANumber DEF SetLimit, ThrottleTypeOK
<1>3. CASE UNCHANGED throttleVars
  BY <1>3 DEF throttleVars, ThrottleTypeOK
<1> QED BY <1>1, <1>2, <1>3, ConsumeKeeps, WakeKeeps DEF ThrottleNext

\* The consumers in an order, and what passes that order can have piled up when
\* they have slept: `heap` grows by what each has slept for of its block.
Crowd == Cardinality(Consumers)
Place == CHOOSE q \in [Consumers -> 1 .. Crowd] :
           \A c \in Consumers : \A d \in Consumers : q[c] = q[d] => c = d
SleptFor(c) == asleep[c].bytes - asleep[c].left * limit

IsHeap(heap) ==
  /\ heap \in [0 .. Crowd -> Nat]
  /\ \A i \in 0 .. Crowd : \A k \in i .. Crowd : heap[i] <= heap[k]
  /\ \A c \in Consumers : heap[Place[c] - 1] + SleptFor(c) <= heap[Place[c]]

\* What has passed, what is in the bucket and what is slept for is paid together.
Paid == \E heap : IsHeap(heap) /\ far_ahead + Filled + heap[Crowd] <= Slack

ThrottleInv == ThrottleTypeOK /\ Paid

LEMMA PlacesApart ==
  /\ Crowd \in Nat /\ Place \in [Consumers -> 1 .. Crowd]
  /\ \A c \in Consumers : \A d \in Consumers : Place[c] = Place[d] => c = d
<1>1. Crowd \in Nat /\ ExistsBijection(1 .. Crowd, Consumers)
  BY FS_CardinalityType, ThrottleAssumption DEF Crowd
<1>2. ExistsBijection(Consumers, 1 .. Crowd)
  BY <1>1, Fun_ExistsBijSymmetric
<1>3. PICK q \in Bijection(Consumers, 1 .. Crowd) : TRUE
  BY <1>2 DEF ExistsBijection
<1>4. /\ q \in [Consumers -> 1 .. Crowd]
      /\ \A c \in Consumers : \A d \in Consumers : q[c] = q[d] => c = d
  BY <1>3 DEF Bijection, Injection, IsInjective
<1> QED BY <1>1, <1>4 DEF Place

LEMMA ThrottleNumbers ==
  ASSUME ThrottleTypeOK
  PROVE  /\ Slack \in Nat /\ limit \in Nat /\ far_ahead \in Nat /\ tokens \in Nat
         /\ age \in 0 .. BurstTicks /\ BurstTicks \in Nat /\ Filled \in Nat
         /\ Largest \in Nat /\ \A b \in Blocks : b \in Nat /\ b # 0 /\ b <= Largest
         /\ \A c \in Consumers : /\ asleep[c].left \in Nat /\ asleep[c].bytes \in Nat
                                 /\ asleep[c].bytes <= Largest
                                 /\ asleep[c].bytes = 0 => asleep[c].left = 0
<1>1. Largest \in Nat /\ \A b \in Blocks : b \in Nat /\ b # 0 /\ b <= Largest
  BY ThrottleAssumption DEF Largest
<1>2. ASSUME NEW c \in Consumers
      PROVE  /\ asleep[c].left \in Nat /\ asleep[c].bytes \in Nat /\ asleep[c].bytes <= Largest
             /\ asleep[c].bytes = 0 => asleep[c].left = 0
  <2>1. asleep[c] \in [left : Nat, bytes : Blocks \cup {0}]
    BY DEF ThrottleTypeOK
  <2> QED BY <1>1, <2>1 DEF ThrottleTypeOK
<1>3. limit \in Nat /\ Slack \in Nat /\ Filled \in Nat /\ BurstTicks \in Nat
  BY SlackIsANumber, Fills, ThrottleAssumption DEF ThrottleTypeOK
<1> QED BY <1>1, <1>2, <1>3 DEF ThrottleTypeOK

LEMMA Multiples ==
  ASSUME NEW a \in Nat, NEW b \in Nat, NEW k \in Nat, a <= b
  PROVE  a * k \in Nat /\ b * k \in Nat /\ a * k <= b * k
OBVIOUS

\* A block for every consumer, and a burst, are within the slack.
LEMMA Afresh == ASSUME ThrottleTypeOK, far_ahead = 0 PROVE Paid
<1> DEFINE heap == [i \in 0 .. Crowd |-> i * Largest]
<1>1. Crowd \in Nat /\ Largest \in Nat
  BY PlacesApart, ThrottleNumbers
<1>2. \A i \in 0 .. Crowd : heap[i] = i * Largest /\ i * Largest \in Nat
  BY <1>1
<1>3. heap \in [0 .. Crowd -> Nat]
  BY <1>2
<1>4. ASSUME NEW i \in 0 .. Crowd, NEW k \in i .. Crowd PROVE heap[i] <= heap[k]
  <2>1. i \in Nat /\ k \in Nat /\ i <= k /\ k \in 0 .. Crowd
    BY <1>1
  <2>2. i * Largest <= k * Largest
    BY <1>1, <2>1, Multiples
  <2>3. heap[i] = i * Largest /\ heap[k] = k * Largest
    BY <1>2, <2>1
  <2> HIDE DEF heap
  <2> QED BY <2>2, <2>3
<1>5. ASSUME NEW c \in Consumers PROVE heap[Place[c] - 1] + SleptFor(c) <= heap[Place[c]]
  <2>1. Place[c] \in 1 .. Crowd /\ Place[c] - 1 \in 0 .. Crowd /\ Place[c] \in 0 .. Crowd
    BY PlacesApart
  <2> DEFINE j == Place[c]
             w == asleep[c].left * limit
  <2>2. w \in Nat /\ asleep[c].bytes \in Nat /\ asleep[c].bytes <= Largest
        /\ SleptFor(c) = asleep[c].bytes - w
    BY ThrottleNumbers DEF SleptFor
  <2>3. (j - 1) * Largest + Largest = j * Largest
    BY <1>1, <2>1
  <2>4. heap[j - 1] = (j - 1) * Largest /\ heap[j] = j * Largest
        /\ heap[j - 1] \in Nat
    BY <1>2, <2>1
  <2> HIDE DEF w, heap, j
  <2>5. heap[j - 1] + SleptFor(c) <= heap[j]
    BY <1>1, <2>2, <2>3, <2>4
  <2> QED BY <2>5 DEF j
<1>6. IsHeap(heap)
  <2> HIDE DEF heap
  <2> QED BY <1>3, <1>4, <1>5 DEF IsHeap
<1>7. Filled + heap[Crowd] <= Slack /\ heap[Crowd] \in Nat
  <2> DEFINE top == CHOOSE l \in Limits : \A k \in Limits : k <= l
  <2>1. top \in Nat /\ BurstTicks \in Nat /\ limit \in Nat /\ limit <= top
    BY ThrottleAssumption DEF ThrottleTypeOK
  <2>2. Slack = top * BurstTicks + Crowd * Largest
    BY DEF Slack, Crowd
  <2> HIDE DEF top
  <2>3. limit * BurstTicks <= top * BurstTicks /\ top * BurstTicks \in Nat
        /\ limit * BurstTicks \in Nat
    BY <2>1
  <2>4. tokens + age * limit \in Nat
    BY ThrottleNumbers, <2>1
  <2>5. Filled <= limit * BurstTicks
    BY <2>3, <2>4 DEF Filled, Lower
  <2>6. heap[Crowd] = Crowd * Largest /\ Crowd * Largest \in Nat
    BY <1>1, <1>2
  <2> HIDE DEF heap
  <2> QED BY <2>2, <2>3, <2>5, <2>6, ThrottleNumbers
<1> HIDE DEF heap
<1> QED BY <1>6, <1>7, ThrottleNumbers DEF Paid

\* How the heap follows what one consumer has slept for.
LEMMA HeapMoves ==
  ASSUME ThrottleTypeOK, NEW heap, IsHeap(heap), NEW c \in Consumers, NEW d \in Int,
         limit' = limit, \A x \in Consumers \ {c} : asleep'[x] = asleep[x],
         NEW slept \in Int, SleptFor(c)' = slept,
         heap[Place[c] - 1] <= heap[Place[c]] + d,
         heap[Place[c] - 1] + slept <= heap[Place[c]] + d
  PROVE  \E next : IsHeap(next)' /\ next[Crowd] = heap[Crowd] + d
<1> DEFINE j == Place[c]
           next == [i \in 0 .. Crowd |-> IF j <= i THEN heap[i] + d ELSE heap[i]]
<1>1. /\ Crowd \in Nat /\ j \in 1 .. Crowd /\ j - 1 \in 0 .. Crowd /\ j \in 0 .. Crowd
      /\ heap \in [0 .. Crowd -> Nat]
      /\ \A i \in 0 .. Crowd : \A k \in i .. Crowd : heap[i] <= heap[k]
      /\ heap[j - 1] <= heap[j] + d /\ heap[j - 1] + slept <= heap[j] + d
  BY PlacesApart DEF IsHeap
<1>0. /\ Crowd \in Nat /\ j \in Nat /\ j \in 1 .. Crowd /\ j - 1 \in 0 .. Crowd
      /\ j \in 0 .. Crowd /\ heap[j] \in Nat /\ heap[j - 1] \in Nat
  BY <1>1
<1>2. \A i \in 0 .. Crowd : next[i] = IF j <= i THEN heap[i] + d ELSE heap[i]
  OBVIOUS
<1>3. \A x \in Consumers \ {c} : Place[x] \in 1 .. Crowd /\ Place[x] # j
  BY PlacesApart
<1>4. \A i \in 0 .. Crowd : heap[i] \in Nat
  BY <1>1
<1>5. \A i \in j .. Crowd : heap[j] <= heap[i]
  BY <1>1
<1>6. \A i \in 0 .. j - 1 : heap[i] <= heap[j - 1]
  BY <1>1
<1>7. next \in [0 .. Crowd -> Nat]
  <2> HIDE DEF j
  <2>1. ASSUME NEW i \in 0 .. Crowd, j <= i PROVE heap[i] + d \in Nat
    <3>1. i \in j .. Crowd
      BY <1>0, <2>1
    <3>2. heap[j] <= heap[i] /\ heap[i] \in Nat
      BY <1>4, <1>5, <3>1
    <3>3. heap[j - 1] <= heap[j] + d
      BY <1>1
    <3> QED BY <1>0, <3>2, <3>3
  <2> QED BY <1>4, <2>1
<1> HIDE DEF next, j
<1>8. ASSUME NEW i \in 0 .. Crowd, NEW k \in i .. Crowd PROVE next[i] <= next[k]
  <2>1. i \in Nat /\ k \in Nat /\ i <= k /\ k \in 0 .. Crowd
    BY <1>0
  <2>4. heap[i] <= heap[k] /\ heap[i] \in Nat /\ heap[k] \in Nat
    BY <1>1, <1>4, <2>1
  <2>2. CASE j <= i \/ ~(j <= k)
    <3>1. (j <= i /\ j <= k) \/ (~(j <= i) /\ ~(j <= k))
      BY <1>0, <2>1, <2>2
    <3>2. \/ next[i] = heap[i] /\ next[k] = heap[k]
          \/ next[i] = heap[i] + d /\ next[k] = heap[k] + d
      BY <1>2, <2>1, <3>1
    <3> QED BY <2>4, <3>2
  <2>3. CASE ~(j <= i) /\ j <= k
    <3>1. i \in 0 .. j - 1 /\ k \in j .. Crowd
      BY <1>0, <2>1, <2>3
    <3>2. heap[i] <= heap[j - 1] /\ heap[j] <= heap[k] /\ heap[j - 1] <= heap[j] + d
      BY <1>1, <1>5, <1>6, <3>1
    <3>3. next[i] = heap[i] /\ next[k] = heap[k] + d
      BY <1>2, <2>1, <2>3
    <3> QED BY <1>0, <2>4, <3>2, <3>3
  <2> QED BY <2>2, <2>3
<1>9. ASSUME NEW x \in Consumers PROVE next[Place[x] - 1] + SleptFor(x)' <= next[Place[x]]
  <2>1. CASE x = c
    <3>1. next[j - 1] = heap[j - 1] /\ next[j] = heap[j] + d
      BY <1>1, <1>2
    <3> QED BY <1>1, <2>1, <3>1 DEF j
  <2>2. CASE x # c
    <3> DEFINE m == Place[x]
    <3>1. m \in 1 .. Crowd /\ m # j /\ m \in 0 .. Crowd /\ m - 1 \in 0 .. Crowd
      BY <1>3, <2>2, PlacesApart
    <3>2. heap[m - 1] + SleptFor(x) <= heap[m]
      BY DEF IsHeap
    <3>3. SleptFor(x)' = SleptFor(x) /\ SleptFor(x) \in Int
      BY <2>2, ThrottleNumbers DEF SleptFor
    <3> HIDE DEF m
    <3>4. (j <= m /\ j <= m - 1) \/ (~(j <= m) /\ ~(j <= m - 1))
      BY <1>0, <3>1
    <3>5. \/ next[m] = heap[m] /\ next[m - 1] = heap[m - 1]
          \/ next[m] = heap[m] + d /\ next[m - 1] = heap[m - 1] + d
      BY <1>2, <3>1, <3>4
    <3>6. heap[m] \in Nat /\ heap[m - 1] \in Nat
      BY <1>4, <3>1
    <3>7. next[m - 1] + SleptFor(x) <= next[m]
      BY <3>2, <3>3, <3>5, <3>6
    <3> QED BY <3>3, <3>7 DEF m
  <2> QED BY <2>1, <2>2
<1>10. next[Crowd] = heap[Crowd] + d
  BY <1>1, <1>2
<1> QED BY <1>7, <1>8, <1>9, <1>10, Zenon DEF IsHeap

\* A division with a remainder.
LEMMA RoundedUp ==
  ASSUME NEW k \in Nat, NEW l \in Nat, l > 0
  PROVE  ((k + l - 1) \div l) * l >= k
<1> DEFINE q == (k + l - 1) \div l
           r == (k + l - 1) % l
<1>1. q \in Nat /\ r \in 0 .. l - 1 /\ k + l - 1 = l * q + r
  OBVIOUS
<1> HIDE DEF q, r
<1>2. q * l = l * q /\ l * q \in Nat
  BY <1>1
<1> QED BY <1>1, <1>2 DEF q

\* The meter of what has passed.
LEMMA FarMeter ==
  ASSUME ThrottleTypeOK, NEW b \in Nat, Pass(b)
  PROVE  far_ahead' \in Nat /\ far_ahead' <= far_ahead + b /\ (limit = 0 => far_ahead' = far_ahead)
BY ThrottleNumbers DEF Pass, Lower

LEMMA FilledType ==
  ASSUME ThrottleTypeOK
  PROVE  /\ limit * BurstTicks \in Nat /\ age * limit \in Nat
         /\ Filled <= tokens + age * limit /\ Filled <= limit * BurstTicks
         /\ Filled \in {tokens + age * limit, limit * BurstTicks}
<1>1. limit \in Nat /\ age \in Nat /\ BurstTicks \in Nat /\ tokens \in Nat
  BY ThrottleNumbers
<1>2. limit * BurstTicks \in Nat /\ age * limit \in Nat
  BY <1>1
<1> QED BY <1>1, <1>2 DEF Filled, Lower

LEMMA ConsumePaid ==
  ASSUME ThrottleInv, NEW c \in Consumers, NEW b \in Blocks,
         ConsumeUnlimited(c, b) \/ ConsumeNow(c, b) \/ ConsumeLater(c, b)
  PROVE  Paid'
<1>1. PICK heap : IsHeap(heap) /\ far_ahead + Filled + heap[Crowd] <= Slack
  BY DEF ThrottleInv, Paid
<1>2. /\ ThrottleTypeOK /\ b \in Nat /\ heap[Crowd] \in Nat /\ heap \in [0 .. Crowd -> Nat]
      /\ Crowd \in Nat
  BY <1>1, PlacesApart, ThrottleAssumption DEF ThrottleInv, IsHeap
<1>3. Slack \in Nat /\ far_ahead \in Nat /\ Filled \in Nat
  BY <1>2, ThrottleNumbers
<1>4. CASE ConsumeUnlimited(c, b)
  <2>1. far_ahead' = far_ahead /\ UNCHANGED <<limit, tokens, age, asleep>>
    BY <1>2, <1>4, FarMeter DEF ConsumeUnlimited
  <2> QED BY <1>1, <2>1 DEF Paid, IsHeap, SleptFor, Filled
<1>5. CASE ConsumeNow(c, b)
  <2>1. /\ limit' = limit /\ asleep' = asleep /\ tokens' = Filled - b /\ age' = 0
        /\ far_ahead' \in Nat /\ far_ahead' <= far_ahead + b /\ Filled >= b
    BY <1>2, <1>5, FarMeter DEF ConsumeNow
  <2>2. Filled' \in Int /\ Filled' <= Filled - b
    <3>1. age' * limit' = 0 /\ limit' * BurstTicks \in Nat
      BY <1>2, <2>1, FilledType, ThrottleNumbers
    <3> QED BY <1>2, <1>3, <2>1, <3>1 DEF Filled, Lower
  <2>3. IsHeap(heap)'
    BY <1>1, <2>1 DEF IsHeap, SleptFor
  <2>4. far_ahead' + Filled' + heap[Crowd] <= Slack
    BY <1>1, <1>2, <1>3, <2>1, <2>2
  <2> QED BY <2>3, <2>4 DEF Paid
<1>6. CASE ConsumeLater(c, b)
  <2> DEFINE k == b - Filled + limit - 1
             n == k \div limit
             s == [left |-> n, bytes |-> b]
  <2>1. /\ limit > 0 /\ asleep[c] = Awake /\ Filled < b
        /\ tokens' = 0 /\ age' = 0 /\ asleep' = [asleep EXCEPT ![c] = s]
        /\ UNCHANGED <<limit, ahead, far_ahead>>
    BY <1>6 DEF ConsumeLater
  <2>2. s.left = n /\ s.bytes = b
    OBVIOUS
  <2>3. n * limit >= b - Filled /\ n * limit \in Int
    <3>1. limit \in Nat /\ b - Filled \in Nat
      BY <1>2, <1>3, <2>1, ThrottleNumbers
    <3>2. n * limit >= b - Filled
      BY <2>1, <3>1, RoundedUp
    <3>3. n \in Int
      BY <2>1, <3>1
    <3> HIDE DEF n
    <3> QED BY <3>1, <3>2, <3>3
  <2> HIDE DEF n, s
  <2>4. asleep'[c] = s /\ \A x \in Consumers \ {c} : asleep'[x] = asleep[x]
    BY <1>2, <2>1 DEF ThrottleTypeOK
  <2>5. SleptFor(c)' = b - n * limit
    BY <2>1, <2>2, <2>4 DEF SleptFor
  <2>6. b - n * limit \in Int /\ b - n * limit <= Filled
    BY <1>2, <1>3, <2>3
  <2>7. /\ heap[Place[c] - 1] \in Nat /\ heap[Place[c]] \in Nat
        /\ heap[Place[c] - 1] <= heap[Place[c]]
    <3>1. Place[c] \in 1 .. Crowd
      BY PlacesApart
    <3> QED BY <1>1, <1>2, <3>1 DEF IsHeap
  <2> DEFINE slept == b - n * limit
             d == Filled
  <2>8. /\ slept \in Int /\ d \in Int /\ SleptFor(c)' = slept
        /\ heap[Place[c] - 1] <= heap[Place[c]] + d
        /\ heap[Place[c] - 1] + slept <= heap[Place[c]] + d
    BY <1>3, <2>5, <2>6, <2>7
  <2>9. limit' = limit /\ far_ahead' = far_ahead
    BY <2>1
  <2> HIDE DEF slept
  <2>10. PICK next : IsHeap(next)' /\ next[Crowd] = heap[Crowd] + Filled
    BY <1>1, <1>2, <2>4, <2>8, <2>9, HeapMoves
  <2>11. Filled' = 0
    <3>1. age' * limit' = 0 /\ limit' * BurstTicks \in Nat
      BY <1>2, <2>1, FilledType, ThrottleNumbers
    <3> QED BY <2>1, <3>1 DEF Filled, Lower
  <2>12. far_ahead' + Filled' + next[Crowd] <= Slack
    BY <1>1, <1>2, <1>3, <2>9, <2>10, <2>11
  <2> QED BY <2>10, <2>12 DEF Paid
<1> QED BY <1>4, <1>5, <1>6

LEMMA WakePaid == ASSUME ThrottleInv, NEW c \in Consumers, Wake(c) PROVE Paid'
<1>1. PICK heap : IsHeap(heap) /\ far_ahead + Filled + heap[Crowd] <= Slack
  BY DEF ThrottleInv, Paid
<1> DEFINE b == asleep[c].bytes
           d == 0 - b
<1>2. /\ ThrottleTypeOK /\ b \in Nat /\ heap[Crowd] \in Nat /\ heap \in [0 .. Crowd -> Nat]
      /\ Crowd \in Nat /\ d \in Int /\ asleep[c].left = 0
  <2>1. ThrottleTypeOK
    BY DEF ThrottleInv
  <2>2. b \in Nat /\ Crowd \in Nat
    BY <2>1, PlacesApart, ThrottleNumbers
  <2>3. heap \in [0 .. Crowd -> Nat]
    BY <1>1 DEF IsHeap
  <2> QED BY <2>1, <2>2, <2>3 DEF Wake
<1>3. Slack \in Nat /\ far_ahead \in Nat /\ Filled \in Nat /\ limit \in Nat
  BY <1>2, ThrottleNumbers
<1>4. /\ asleep' = [asleep EXCEPT ![c] = Awake] /\ UNCHANGED <<limit, tokens, age>>
      /\ far_ahead' \in Nat /\ far_ahead' <= far_ahead + b
  BY <1>2, FarMeter DEF Wake
<1>5. asleep'[c] = Awake /\ \A x \in Consumers \ {c} : asleep'[x] = asleep[x]
  BY <1>2, <1>4 DEF ThrottleTypeOK
<1>6. SleptFor(c)' = 0 /\ SleptFor(c) = b
  <2>1. 0 * limit = 0
    BY <1>3
  <2> QED BY <1>2, <1>4, <1>5, <2>1 DEF SleptFor, Awake
<1>7. /\ heap[Place[c] - 1] \in Nat /\ heap[Place[c]] \in Nat
      /\ heap[Place[c] - 1] + SleptFor(c) <= heap[Place[c]]
  <2>1. Place[c] \in 1 .. Crowd
    BY PlacesApart
  <2> QED BY <1>1, <1>2, <2>1 DEF IsHeap
<1>8. /\ heap[Place[c] - 1] <= heap[Place[c]] + d
      /\ heap[Place[c] - 1] + 0 <= heap[Place[c]] + d
  <2>1. b \in Nat /\ heap[Place[c] - 1] + b <= heap[Place[c]]
    BY <1>2, <1>6, <1>7
  <2> HIDE DEF b
  <2> QED BY <1>7, <2>1
<1>9. Filled' = Filled /\ limit' = limit
  BY <1>4 DEF Filled
<1> DEFINE slept == 0
<1>12. slept \in Int /\ SleptFor(c)' = slept /\ heap[Place[c] - 1] + slept <= heap[Place[c]] + d
  BY <1>6, <1>8
<1> HIDE DEF d, slept
<1>10. PICK next : IsHeap(next)' /\ next[Crowd] = heap[Crowd] + d
  BY <1>1, <1>2, <1>5, <1>8, <1>9, <1>12, HeapMoves
<1>11. far_ahead' + Filled' + next[Crowd] <= Slack
  <2>1. far_ahead + Filled + heap[Crowd] <= Slack /\ heap[Crowd] \in Nat /\ b \in Nat
    BY <1>1, <1>2
  <2>2. far_ahead' \in Nat /\ far_ahead' <= far_ahead + b /\ Filled' = Filled
    BY <1>4, <1>9
  <2>3. next[Crowd] = heap[Crowd] + (0 - b)
    BY <1>10 DEF d
  <2> HIDE DEF b
  <2> QED BY <1>3, <2>1, <2>2, <2>3
<1> QED BY <1>10, <1>11 DEF Paid

\* A tick pays for the bucket and for every sleeper.
LEMMA TickPaid == ASSUME ThrottleInv, ThrottleTypeOK', Tick PROVE Paid'
<1>1. PICK heap : IsHeap(heap) /\ far_ahead + Filled + heap[Crowd] <= Slack
  BY DEF ThrottleInv, Paid
<1>2. /\ ThrottleTypeOK /\ heap[Crowd] \in Nat /\ heap \in [0 .. Crowd -> Nat]
      /\ Crowd \in Nat
  BY <1>1, PlacesApart DEF ThrottleInv, IsHeap
<1>3. Slack \in Nat /\ far_ahead \in Nat /\ Filled \in Nat /\ limit \in Nat
  BY <1>2, ThrottleNumbers
<1>4. limit' = limit /\ tokens' = tokens /\ age' = Lower(age + 1, BurstTicks)
  BY DEF Tick
<1>5. far_ahead' = Higher(far_ahead - (Crowd + 1) * limit, 0)
  BY DEF Tick, Crowd
<1>6. CASE far_ahead' = 0
  <2>1. ThrottleTypeOK' /\ (far_ahead = 0)' => Paid'
    BY Afresh, PTL
  <2> QED BY <1>6, <2>1
<1>7. CASE far_ahead' # 0
  <2>0. PICK next : next = [i \in 0 .. Crowd |-> heap[i] + i * limit]
    OBVIOUS
  <2>1. far_ahead' + Crowd * limit + limit = far_ahead /\ far_ahead' \in Nat
    <3> DEFINE m == Crowd * limit
               p == (Crowd + 1) * limit
    <3>1. m \in Nat /\ p = m + limit
      BY <1>2, <1>3
    <3> HIDE DEF m, p
    <3>2. far_ahead' = Higher(far_ahead - p, 0)
      BY <1>5 DEF p
    <3>3. far_ahead' + m + limit = far_ahead /\ far_ahead' \in Nat
      BY <1>3, <1>7, <3>1, <3>2 DEF Higher
    <3> QED BY <3>3 DEF m
  <2>2. \A i \in 0 .. Crowd : heap[i] \in Nat /\ i * limit \in Nat
    BY <1>2, <1>3
  <2>3. \A i \in 0 .. Crowd : next[i] = heap[i] + i * limit
    BY <2>0
  <2>4. next \in [0 .. Crowd -> Nat]
    BY <2>0, <2>2
  <2>5. ASSUME NEW i \in 0 .. Crowd, NEW k \in i .. Crowd PROVE next[i] <= next[k]
    <3>1. k \in 0 .. Crowd /\ heap[i] <= heap[k] /\ i \in Nat /\ k \in Nat /\ i <= k
      BY <1>1, <1>2 DEF IsHeap
    <3>2. i * limit <= k * limit
      BY <1>3, <3>1
    <3> QED BY <2>2, <2>3, <3>1, <3>2
  <2>6. ASSUME NEW c \in Consumers PROVE next[Place[c] - 1] + SleptFor(c)' <= next[Place[c]]
    <3> DEFINE j == Place[c]
               e == heap[j]
               f == heap[j - 1]
               g == j * limit
               h == (j - 1) * limit
    <3>1. j \in 1 .. Crowd /\ j \in 0 .. Crowd /\ j - 1 \in 0 .. Crowd
      BY PlacesApart
    <3>2. /\ next[j] = e + g /\ next[j - 1] = f + h /\ e \in Nat /\ f \in Nat
          /\ g \in Nat /\ h \in Nat
      BY <2>2, <2>3, <3>1
    <3>3. g = h + limit
      BY <1>3, <3>1
    <3>4. SleptFor(c)' <= SleptFor(c) + limit /\ SleptFor(c)' \in Int /\ SleptFor(c) \in Int
          /\ SleptFor(c)' <= SleptFor(c)' + limit
      <4> DEFINE n == asleep[c].left
                 w == n * limit
                 v == (n - 1) * limit
      <4>1. asleep[c] \in [left : Nat, bytes : Blocks \cup {0}] /\ n \in Nat
            /\ asleep[c].bytes \in Nat
        BY <1>2, ThrottleNumbers DEF ThrottleTypeOK
      <4>2. asleep'[c] = [asleep[c] EXCEPT !.left = Higher(n - 1, 0)]
        BY DEF Tick
      <4>3. asleep'[c].left = Higher(n - 1, 0) /\ asleep'[c].bytes = asleep[c].bytes
        BY <4>1, <4>2
      <4>4. w \in Nat /\ v \in Int /\ w = v + limit /\ (n = 0 => w = 0) /\ 0 * limit = 0
        BY <1>3, <4>1
      <4>5. SleptFor(c) = asleep[c].bytes - w
        BY DEF SleptFor
      <4>6. SleptFor(c)' = IF n = 0 THEN asleep[c].bytes - 0 ELSE asleep[c].bytes - v
        BY <1>4, <4>1, <4>3, <4>4 DEF SleptFor, Higher
      <4> HIDE DEF w, v, n
      <4> QED BY <1>3, <4>1, <4>4, <4>5, <4>6
    <3>5. f + SleptFor(c) <= e
      BY <1>1 DEF IsHeap
    <3> HIDE DEF e, f, g, h, j
    <3>6. next[j - 1] + SleptFor(c)' <= next[j]
      BY <1>3, <3>2, <3>3, <3>4, <3>5
    <3> QED BY <3>6 DEF j
  <2>7. IsHeap(next)'
    BY <2>4, <2>5, <2>6 DEF IsHeap
  <2>8. Filled' <= Filled + limit /\ Filled' \in Nat
    <3> DEFINE m == age * limit
               p == age' * limit
               q == limit * BurstTicks
    <3>1. age \in Nat /\ age <= BurstTicks /\ tokens \in Nat /\ BurstTicks \in Nat
      BY <1>2, ThrottleNumbers
    <3>2. age' = age + 1 \/ age' = age
      BY <1>4, <3>1 DEF Lower
    <3>3. m \in Nat /\ q \in Nat /\ (p = m + limit \/ p = m)
      BY <1>3, <3>1, <3>2
    <3>4. Filled = Lower(tokens + m, q) /\ Filled' = Lower(tokens + p, q)
      BY <1>4 DEF Filled
    <3> HIDE DEF m, p, q
    <3> QED BY <1>3, <3>1, <3>3, <3>4 DEF Lower
  <2>9. next[Crowd] = heap[Crowd] + Crowd * limit /\ Crowd * limit \in Nat
    BY <1>2, <2>2, <2>3
  <2>10. PICK x \in Nat, y \in Nat : x = far_ahead' /\ y = Filled'
    BY <2>1, <2>8
  <2>11. x + Crowd * limit + limit = far_ahead /\ y <= Filled + limit
    BY <2>1, <2>8, <2>10
  <2>12. x + y + next[Crowd] <= Slack
    <3>1. PICK m \in Nat : next[Crowd] = heap[Crowd] + m /\ x + m + limit = far_ahead
      BY <2>9, <2>11
    <3>2. far_ahead + Filled + heap[Crowd] <= Slack /\ heap[Crowd] \in Nat
      BY <1>1, <1>2
    <3> QED BY <1>3, <2>11, <3>1, <3>2
  <2>13. far_ahead' + Filled' + next[Crowd] <= Slack
    BY <2>10, <2>12
  <2> QED BY <2>7, <2>13 DEF Paid
<1> QED BY <1>6, <1>7

LEMMA ThrottleInvInitial == ASSUME ThrottleInit PROVE ThrottleInv
<1>1. ThrottleTypeOK /\ far_ahead = 0
  BY ThrottleInitial DEF ThrottleInit
<1> QED BY <1>1, Afresh DEF ThrottleInv

LEMMA ThrottleInvStep == ASSUME ThrottleInv, [ThrottleNext]_throttleVars PROVE ThrottleInv'
<1>1. ThrottleTypeOK'
  BY ThrottleStep DEF ThrottleInv
<1>2. CASE Tick
  BY <1>1, <1>2, TickPaid DEF ThrottleInv
<1>3. ASSUME NEW l \in Limits, SetLimit(l) PROVE Paid'
  <2>1. ThrottleTypeOK' /\ (far_ahead = 0)' => Paid'
    BY Afresh, PTL
  <2> QED BY <1>1, <1>3, <2>1 DEF SetLimit
<1>4. CASE UNCHANGED throttleVars
  BY <1>1, <1>4 DEF throttleVars, ThrottleInv, Paid, IsHeap, SleptFor, Filled
<1>5. ASSUME NEW c \in Consumers, NEW b \in Blocks,
             ConsumeUnlimited(c, b) \/ ConsumeNow(c, b) \/ ConsumeLater(c, b)
      PROVE  Paid'
  BY <1>5, ConsumePaid
<1>6. ASSUME NEW c \in Consumers, Wake(c) PROVE Paid'
  BY <1>6, WakePaid
<1> QED BY <1>1, <1>2, <1>3, <1>4, <1>5, <1>6 DEF ThrottleInv, ThrottleNext

\* The inductive invariant of the throttle: what has passed, what is in the bucket
\* and what the sleepers have slept for are within the slack together.
THEOREM ThrottleInvariant == ThrottleSpec => []ThrottleInv
<1> QED BY ThrottleInvInitial, ThrottleInvStep, PTL DEF ThrottleSpec

\* However many transfers share the limit, in the long run no more passes than
\* the limit for each and once more for the bucket (transfer/throttle.rs:35-48).
THEOREM AtMostOneLimitEachAlways == ThrottleSpec => []AtMostOneLimitEach
<1>1. ASSUME ThrottleInv PROVE AtMostOneLimitEach
  <2>1. PICK heap : IsHeap(heap) /\ far_ahead + Filled + heap[Crowd] <= Slack
    BY <1>1 DEF ThrottleInv, Paid
  <2>2. heap[Crowd] \in Nat /\ Filled \in Nat /\ far_ahead \in Nat /\ Slack \in Nat
    BY <1>1, <2>1, PlacesApart, ThrottleNumbers DEF ThrottleInv, IsHeap
  <2> QED BY <2>1, <2>2 DEF AtMostOneLimitEach
<1> QED BY <1>1, ThrottleInvariant, PTL

-----------------------------------------------------------------------------
(* The drag to other programs                                              *)

Inside(d) == {t \in Things : Within[t] = d}

\* Nothing is in the queue before the drop, what was dragged is in it after.
Begun ==
  /\ drag.pc \in {"idle", "dragging"} => \A t \in Things : thing[t] = "none"
  /\ drag.pc \in {"polling", "removing", "forgetting"} \/ drag.outcome = "dropped" =>
       \A t \in Inside(Top) : thing[t] # "none"
  /\ drag.outcome = "dropped" => drag.pc = "over"

\* A folder brings in what is inside it once, while it waits or is removed.
Nested(d) ==
  /\ expansion[d] # "no" => thing[d] \in {"pending", "removed"}
  /\ expansion[d] = "listing" => \A t \in Inside(d) : thing[t] = "none"
  /\ expansion[d] = "no" /\ thing[d] \in {"none", "pending", "failed"} =>
       \A t \in Inside(d) : thing[t] = "none"
  /\ expansion[d] = "inserted" \/ thing[d] = "done" =>
       \A t \in Inside(d) : thing[t] # "none"

\* What remove_batch has still to remove, and what it will never see.
AllLate ==
  /\ drag.pc = "forgetting" => Listed \subseteq doomed \cup late
  /\ drag.pc = "over" => Listed \subseteq late

DragInv == DragTypeOK /\ Begun /\ AllLate /\ \A d \in Folders : Nested(d)

LEMMA DragInitial == ASSUME DragInit PROVE DragInv
<1>1. /\ drag = [pc |-> "idle", outcome |-> "none"] /\ doomed = {} /\ late = {}
      /\ escape = FALSE
      /\ thing = [t \in Things |-> "none"] /\ expansion = [d \in Folders |-> "no"]
  BY DEF DragInit
<1>2. DragTypeOK
  BY <1>1 DEF DragTypeOK
<1>3. Begun /\ AllLate
  BY <1>1 DEF Begun, AllLate
<1>4. ASSUME NEW d \in Folders PROVE Nested(d)
  BY <1>1, DragAssumption DEF Nested, Inside
<1> QED BY <1>2, <1>3, <1>4 DEF DragInv

\* What is counted as none is none.
LEMMA NoneCounted ==
  ASSUME NEW s, Count(s) = 0
  PROVE  \A t \in Things : thing[t] # s
<1>1. IsFiniteSet({t \in Things : thing[t] = s})
  BY FS_Subset, DragAssumption
<1>2. {t \in Things : thing[t] = s} = {}
  BY <1>1, FS_EmptySet DEF Count
<1> QED BY <1>2

\* The steps of the drag that do not touch the queue.
LEMMA DragKeeps ==
  ASSUME DragInv, StartDrag \/ DropNowhere \/ PressEscape \/ Poll \/ Collect \/ GiveUpDrop
  PROVE  DragInv'
<1>1. UNCHANGED <<thing, expansion, late>>
  BY DEF StartDrag, DropNowhere, PressEscape, Poll, Collect, GiveUpDrop
<1>2. ASSUME NEW d \in Folders PROVE Nested(d)'
  BY <1>1 DEF DragInv, Nested
<1>3. Listed' = Listed
  BY <1>1 DEF Listed
<1>4. CASE StartDrag \/ DropNowhere
  <2>1. DragTypeOK'
    BY <1>1, <1>4 DEF DragInv, DragTypeOK, StartDrag, DropNowhere, Over
  <2>2. /\ \A t \in Things : thing'[t] = "none"
        /\ \/ drag'.pc = "dragging" /\ drag'.outcome = "none"
           \/ drag'.pc = "over" /\ drag'.outcome = "cancelled"
    BY <1>1, <1>4 DEF DragInv, DragTypeOK, Begun, StartDrag, DropNowhere, Over
  <2>3. Begun' /\ AllLate'
    BY <2>2 DEF Begun, AllLate, Listed, Inside
  <2> QED BY <1>2, <2>1, <2>3 DEF DragInv
<1>8. CASE PressEscape
  <2>1. escape' \in BOOLEAN
    BY <1>8, Zenon DEF PressEscape
  <2>2. DragTypeOK'
    BY <1>1, <1>8, <2>1 DEF DragInv, DragTypeOK, PressEscape
  <2>3. Begun' /\ AllLate'
    BY <1>1, <1>3, <1>8 DEF DragInv, Begun, AllLate, PressEscape
  <2> QED BY <1>2, <2>2, <2>3 DEF DragInv
<1>5. CASE Poll
  <2>1. DragTypeOK'
    BY <1>1, <1>5 DEF DragInv, DragTypeOK, Poll, Over
  <2>2. Begun'
    BY <1>1, <1>5 DEF DragInv, Begun, Poll, Over
  <2>3. drag'.pc = "over" => Listed = {}
    BY <1>5, NoneCounted DEF Poll, Over, Listed
  <2>4. AllLate'
    BY <1>3, <1>5, <2>3 DEF AllLate, Poll, Over
  <2> QED BY <1>2, <2>1, <2>2, <2>4 DEF DragInv
<1>6. CASE Collect
  <2>1. DragTypeOK'
    BY <1>1, <1>6 DEF DragInv, DragTypeOK, Collect, Listed
  <2>2. Begun' /\ AllLate'
    BY <1>1, <1>3, <1>6 DEF DragInv, DragTypeOK, Begun, AllLate, Collect
  <2> QED BY <1>2, <2>1, <2>2 DEF DragInv
<1>7. CASE GiveUpDrop
  <2>1. DragTypeOK'
    BY <1>1, <1>7 DEF DragInv, DragTypeOK, GiveUpDrop
  <2>2. Begun' /\ AllLate'
    BY <1>1, <1>3, <1>7 DEF DragInv, DragTypeOK, Begun, AllLate, GiveUpDrop
  <2> QED BY <1>2, <2>1, <2>2 DEF DragInv
<1> QED BY <1>4, <1>5, <1>6, <1>7, <1>8

LEMMA DropKeeps == ASSUME DragInv, Drop PROVE DragInv'
<1>1. /\ drag.pc = "dragging" /\ drag.outcome = "none" /\ doomed = {}
      /\ \A t \in Things : thing[t] = "none"
      /\ UNCHANGED <<expansion, doomed, escape, late>>
  BY DEF Drop, DragInv, Begun, DragTypeOK
<1>2. CASE Over("failed") /\ UNCHANGED thing
  <2>1. DragTypeOK' /\ Begun' /\ AllLate'
    BY <1>1, <1>2 DEF DragInv, DragTypeOK, Begun, AllLate, Over, Listed
  <2>2. ASSUME NEW d \in Folders PROVE Nested(d)'
    BY <1>1, <1>2 DEF DragInv, Nested
  <2> QED BY <2>1, <2>2 DEF DragInv
<1>3. CASE /\ drag' = [drag EXCEPT !.pc = "polling"]
           /\ thing' = [t \in Things |-> IF Within[t] = Top THEN "pending" ELSE thing[t]]
  <2>1. \A t \in Things : thing'[t] = IF Within[t] = Top THEN "pending" ELSE "none"
    BY <1>1, <1>3
  <2>2. drag'.pc = "polling" /\ drag'.outcome = "none"
    BY <1>1, <1>3 DEF DragInv, DragTypeOK
  <2>3. DragTypeOK'
    BY <1>1, <1>3, <2>2 DEF DragInv, DragTypeOK
  <2>4. Begun' /\ AllLate'
    BY <2>1, <2>2 DEF Begun, AllLate, Inside
  <2>5. ASSUME NEW d \in Folders PROVE Nested(d)'
    BY <1>1, <2>1, <2>5, DragAssumption DEF DragInv, Nested, Inside
  <2> QED BY <2>3, <2>4, <2>5 DEF DragInv
<1> QED BY <1>2, <1>3 DEF Drop

\* An item that was in the queue and is not brought in: it waits again, fails,
\* is removed or, a file, ends.  Its folder is done with it.
LEMMA ItemMoves ==
  ASSUME DragInv, NEW t \in Things, t \in Listed, NEW s \in {"pending", "failed", "done", "removed"},
         thing' = [thing EXCEPT ![t] = s], UNCHANGED <<drag, expansion, escape, late>>,
         doomed' \subseteq doomed, \A u \in doomed \ doomed' : u \notin Listed',
         t \in Folders => s # "done",
         t \in Folders /\ expansion[t] # "no" => s \in {"pending", "removed"}
  PROVE  DragInv'
<1>1. /\ thing' \in [Things -> {"none", "pending", "failed", "done", "removed"}]
      /\ thing'[t] = s /\ thing[t] \in {"pending", "failed"}
      /\ \A u \in Things \ {t} : thing'[u] = thing[u]
  BY DEF DragInv, DragTypeOK, Listed
<1>2. DragTypeOK'
  BY <1>1 DEF DragInv, DragTypeOK
<1>3. Begun'
  BY <1>1 DEF DragInv, Begun, Inside
<1>4. AllLate'
  <2>1. Listed' \subseteq Listed
    BY <1>1 DEF Listed
  <2> QED BY <2>1 DEF DragInv, AllLate
<1>5. ASSUME NEW d \in Folders PROVE Nested(d)'
  <2>1. Nested(d) /\ expansion'[d] = expansion[d]
    BY DEF DragInv
  <2>2. \A u \in Inside(d) : (thing'[u] = "none") = (thing[u] = "none")
    BY <1>1 DEF Inside
  <2>3. CASE d = t
    BY <1>1, <2>1, <2>2, <2>3 DEF Nested
  <2>4. CASE d # t
    BY <1>1, <2>1, <2>2, <2>4, DragAssumption DEF Nested
  <2> QED BY <2>3, <2>4
<1> QED BY <1>2, <1>3, <1>4, <1>5 DEF DragInv

LEMMA RemoveKeeps == ASSUME DragInv, NEW t \in Things, RemoveNext(t) PROVE DragInv'
<1>1. /\ t \in doomed /\ doomed' = doomed \ {t} /\ UNCHANGED <<drag, expansion, escape, late>>
      /\ thing' = [thing EXCEPT ![t] = IF t \in Listed THEN "removed" ELSE @]
  BY DEF RemoveNext
<1>2. CASE t \in Listed
  <2>1. thing' = [thing EXCEPT ![t] = "removed"] /\ t \notin Listed'
    BY <1>1, <1>2 DEF DragInv, DragTypeOK, Listed
  <2> QED BY <1>1, <1>2, <2>1, ItemMoves
<1>3. CASE t \notin Listed
  <2>1. thing' = thing /\ Listed' = Listed
    BY <1>1, <1>3 DEF DragInv, DragTypeOK, Listed
  <2>2. DragTypeOK' /\ Begun' /\ AllLate'
    BY <1>1, <1>3, <2>1 DEF DragInv, DragTypeOK, Begun, AllLate
  <2>3. ASSUME NEW d \in Folders PROVE Nested(d)'
    BY <1>1, <2>1 DEF DragInv, Nested
  <2> QED BY <2>2, <2>3 DEF DragInv
<1> QED BY <1>2, <1>3

LEMMA DownloadEndsKeeps == ASSUME DragInv, NEW t \in Things, DownloadEnds(t) PROVE DragInv'
<1>1. PICK s \in {"done", "failed"} : thing' = [thing EXCEPT ![t] = s]
  BY DEF DownloadEnds
<1> QED BY <1>1, ItemMoves DEF DownloadEnds, Listed

LEMMA ActsKeeps == ASSUME DragInv, NEW t \in Things, UserActs(t) PROVE DragInv'
<1>1. PICK s \in {"pending", "removed"} : thing' = [thing EXCEPT ![t] = s]
  BY DEF UserActs
<1> QED BY <1>1, ItemMoves DEF UserActs

\* The steps that only turn to another phase of the expansion of a folder.
LEMMA ListKeeps == ASSUME DragInv, NEW d \in Folders, ListFolder(d) PROVE DragInv'
<1>1. /\ thing[d] = "pending" /\ expansion[d] = "no"
      /\ expansion' = [expansion EXCEPT ![d] = "listing"]
      /\ UNCHANGED <<drag, thing, doomed, escape, late>>
  BY DEF ListFolder
<1>2. /\ DragTypeOK' /\ Listed' = Listed
      /\ expansion'[d] = "listing" /\ \A x \in Folders \ {d} : expansion'[x] = expansion[x]
  BY <1>1 DEF DragInv, DragTypeOK, Listed
<1>3. Begun' /\ AllLate'
  BY <1>1, <1>2 DEF DragInv, Begun, AllLate
<1>4. ASSUME NEW x \in Folders PROVE Nested(x)'
  <2>1. CASE x = d
    BY <1>1, <1>2, <2>1 DEF DragInv, Nested
  <2>2. CASE x # d
    BY <1>1, <1>2, <2>2 DEF DragInv, Nested
  <2> QED BY <2>1, <2>2
<1> QED BY <1>2, <1>3, <1>4 DEF DragInv

LEMMA ListFailsKeeps == ASSUME DragInv, NEW d \in Folders, ListFails(d) PROVE DragInv'
<1>1. /\ expansion[d] = "listing" /\ expansion' = [expansion EXCEPT ![d] = "no"]
      /\ UNCHANGED <<drag, doomed, escape, late>>
      /\ d \in Things /\ Nested(d)
  BY DragAssumption DEF ListFails, DragInv
<1>2. /\ expansion' \in [Folders -> {"no", "listing", "inserted"}]
      /\ expansion'[d] = "no" /\ \A x \in Folders \ {d} : expansion'[x] = expansion[x]
  BY <1>1 DEF DragInv, DragTypeOK
<1>3. /\ thing' \in [Things -> {"none", "pending", "failed", "done", "removed"}]
      /\ \A t \in Things \ {d} : thing'[t] = thing[t]
      /\ thing'[d] = thing[d] \/ (thing[d] = "pending" /\ thing'[d] = "failed")
  BY <1>1 DEF DragInv, DragTypeOK, ListFails
<1>4. DragTypeOK'
  BY <1>1, <1>2, <1>3 DEF DragInv, DragTypeOK
<1>5. Begun' /\ AllLate'
  <2>1. Listed' = Listed
    BY <1>1, <1>3 DEF Listed
  <2>2. \A t \in Things : (thing'[t] = "none") = (thing[t] = "none")
    BY <1>3
  <2> QED BY <1>1, <2>1, <2>2 DEF DragInv, Begun, AllLate, Inside
<1>6. ASSUME NEW x \in Folders PROVE Nested(x)'
  <2>1. \A t \in Inside(x) : (thing'[t] = "none") = (thing[t] = "none")
    BY <1>3 DEF Inside
  <2>2. CASE x = d
    BY <1>1, <1>2, <1>3, <2>1, <2>2 DEF Nested
  <2>3. CASE x # d
    BY <1>1, <1>2, <1>3, <2>1, <2>3, DragAssumption DEF DragInv, Nested
  <2> QED BY <2>2, <2>3
<1> QED BY <1>4, <1>5, <1>6 DEF DragInv

LEMMA DoneKeeps == ASSUME DragInv, NEW d \in Folders, FolderDone(d) PROVE DragInv'
<1>1. /\ expansion[d] = "inserted" /\ expansion' = [expansion EXCEPT ![d] = "no"]
      /\ thing' = [thing EXCEPT ![d] = IF @ = "pending" THEN "done" ELSE @]
      /\ UNCHANGED <<drag, doomed, escape, late>>
      /\ d \in Things /\ Nested(d)
  BY DragAssumption DEF FolderDone, DragInv
<1>2. /\ expansion' \in [Folders -> {"no", "listing", "inserted"}]
      /\ expansion'[d] = "no" /\ \A x \in Folders \ {d} : expansion'[x] = expansion[x]
  BY <1>1 DEF DragInv, DragTypeOK
<1>3. /\ thing' \in [Things -> {"none", "pending", "failed", "done", "removed"}]
      /\ \A t \in Things \ {d} : thing'[t] = thing[t]
      /\ thing'[d] \in {"done", "removed"} /\ thing[d] \in {"pending", "removed"}
  BY <1>1 DEF DragInv, DragTypeOK, Nested
<1>4. DragTypeOK'
  BY <1>1, <1>2, <1>3 DEF DragInv, DragTypeOK
<1>5. Begun' /\ AllLate'
  <2>1. Listed' \subseteq Listed
    BY <1>3 DEF Listed
  <2>2. \A t \in Things : (thing'[t] = "none") = (thing[t] = "none")
    BY <1>3
  <2> QED BY <1>1, <2>1, <2>2 DEF DragInv, Begun, AllLate, Inside
<1>6. ASSUME NEW x \in Folders PROVE Nested(x)'
  <2>1. \A t \in Inside(x) : (thing'[t] = "none") = (thing[t] = "none")
    BY <1>3 DEF Inside
  <2>2. CASE x = d
    BY <1>1, <1>2, <1>3, <2>1, <2>2 DEF Nested
  <2>3. CASE x # d
    BY <1>1, <1>2, <1>3, <2>1, <2>3, DragAssumption DEF DragInv, Nested
  <2> QED BY <2>2, <2>3
<1> QED BY <1>4, <1>5, <1>6 DEF DragInv

LEMMA InsertKeeps == ASSUME DragInv, NEW d \in Folders, InsertChildren(d) PROVE DragInv'
<1>1. /\ expansion[d] = "listing" /\ expansion' = [expansion EXCEPT ![d] = "inserted"]
      /\ thing' = [t \in Things |-> IF Within[t] = d THEN "pending" ELSE thing[t]]
      /\ late' = IF drag.pc \in {"forgetting", "over"} THEN late \cup Inside(d) ELSE late
      /\ UNCHANGED <<drag, doomed, escape>>
      /\ d \in Things /\ Nested(d) /\ d # Top
  BY DragAssumption DEF InsertChildren, DragInv, Inside
<1>2. /\ expansion' \in [Folders -> {"no", "listing", "inserted"}]
      /\ expansion'[d] = "inserted" /\ \A x \in Folders \ {d} : expansion'[x] = expansion[x]
  BY <1>1 DEF DragInv, DragTypeOK
<1>3. /\ \A t \in Inside(d) : thing[t] = "none" /\ thing'[t] = "pending"
      /\ \A t \in Things \ Inside(d) : thing'[t] = thing[t]
      /\ thing[d] \in {"pending", "removed"} /\ d \notin Inside(d)
  BY <1>1 DEF Nested, Inside
<1>4. DragTypeOK'
  <2>1. thing' \in [Things -> {"none", "pending", "failed", "done", "removed"}]
    BY <1>1 DEF DragInv, DragTypeOK
  <2>2. late' \subseteq Things
    BY <1>1 DEF DragInv, DragTypeOK, Inside
  <2> QED BY <1>1, <1>2, <2>1, <2>2 DEF DragInv, DragTypeOK
<1>5. Begun'
  <2>1. drag.pc \notin {"idle", "dragging"}
    BY <1>1, <1>3 DEF DragInv, Begun
  <2>2. \A t \in Inside(Top) : t \notin Inside(d)
    BY <1>1 DEF Inside
  <2> QED BY <1>1, <1>3, <2>1, <2>2 DEF DragInv, Begun, Inside
<1>6. AllLate'
  <2>1. Listed' \subseteq Listed \cup Inside(d)
    BY <1>3 DEF Listed
  <2> QED BY <1>1, <2>1 DEF DragInv, AllLate
<1>7. ASSUME NEW x \in Folders PROVE Nested(x)'
  <2>1. CASE x = d
    BY <1>1, <1>2, <1>3, <2>1 DEF Nested, Inside
  <2>2. CASE x # d /\ x \in Inside(d)
    <3>1. thing[x] = "none" /\ expansion[x] = "no" /\ Nested(x) /\ x \in Things
      BY <1>2, <1>3, <2>2, DragAssumption DEF DragInv, Nested, DragTypeOK
    <3>2. \A t \in Inside(x) : thing[t] = "none" /\ thing'[t] = "none"
      BY <1>3, <2>2, <3>1 DEF Nested, Inside
    <3> QED BY <1>2, <1>3, <2>2, <3>1, <3>2 DEF Nested
  <2>3. CASE x # d /\ x \notin Inside(d)
    <3>1. thing'[x] = thing[x] /\ Nested(x) /\ expansion'[x] = expansion[x]
      BY <1>2, <1>3, <2>3, DragAssumption DEF DragInv
    <3>2. \A t \in Inside(x) : thing'[t] = thing[t]
      BY <1>3, <2>3 DEF Inside
    <3> QED BY <3>1, <3>2 DEF Nested, Inside
  <2> QED BY <2>1, <2>2, <2>3
<1> QED BY <1>4, <1>5, <1>6, <1>7 DEF DragInv

LEMMA DragStep == ASSUME DragInv, [DragNext]_dragVars PROVE DragInv'
<1>1. CASE UNCHANGED dragVars
  BY <1>1 DEF dragVars, DragInv, DragTypeOK, Begun, AllLate, Nested, Listed, Inside
<1>2. CASE DragNext
  BY <1>2, DragKeeps, DropKeeps, RemoveKeeps, DownloadEndsKeeps, ActsKeeps, ListKeeps,
     ListFailsKeeps, DoneKeeps, InsertKeeps DEF DragNext
<1> QED BY <1>1, <1>2

\* The inductive invariant of a drag and its batch (drag_out.rs:303-330).
THEOREM DragInvariant == DragSpec => []DragInv
<1> QED BY DragInitial, DragStep, PTL DEF DragSpec

\* Types; ids to remove are there only while remove_batch runs.
THEOREM DragTypeCorrect == DragSpec => []DragTypeOK
<1>1. DragInv => DragTypeOK
  BY DEF DragInv
<1> QED BY <1>1, DragInvariant, PTL

\* A drop hands over a complete tree, whatever its shape.
THEOREM DropsAreComplete == DragSpec => []DropIsComplete
<1>1. ASSUME DragInv PROVE DropIsComplete
  <2>1. SUFFICES ASSUME drag.outcome = "dropped", NEW t \in Things \ late,
                        Within[t] = Top \/ thing[Within[t]] = "done"
                 PROVE  thing[t] \in {"done", "removed"}
    BY DEF DropIsComplete
  <2>2. drag.pc = "over"
    BY <1>1, <2>1 DEF DragInv, Begun
  <2>3. thing[t] # "none"
    BY <1>1, <2>1, DragAssumption DEF DragInv, Begun, Nested, Inside
  <2>4. t \notin Listed
    BY <1>1, <2>1, <2>2 DEF DragInv, AllLate
  <2> QED BY <1>1, <2>3, <2>4 DEF DragInv, DragTypeOK, Listed
<1> QED BY <1>1, DragInvariant, PTL

\* The two ways for a drag to end: all of it handed over, or nothing left in the
\* queue of what remove_batch saw.
THEOREM DropsEndWell == DragSpec => []DropEndsWell
<1>1. DragInv => CancelledIsGone
  BY DEF DragInv, AllLate, CancelledIsGone
<1>2. DragSpec => []CancelledIsGone
  BY <1>1, DragInvariant, PTL
<1>3. DropIsComplete /\ CancelledIsGone => DropEndsWell
  BY DEF DropEndsWell
<1> QED BY <1>2, <1>3, DropsAreComplete, PTL

-----------------------------------------------------------------------------
(* The tabs                                                                *)

Views == [shown : BOOLEAN, connecting : BOOLEAN, session : 0 .. LastSession,
          path : Dirs \cup {Nowhere}, from : 0 .. LastSession, loading : BOOLEAN,
          back : Seq(Dirs), index : 0 .. MaxBack]
Calls == [kind : {"free", "connect", "local", "list", "disconnect", "close"},
          tab : TabIds \cup {""}, session : 0 .. LastSession, dir : Dirs \cup {Nowhere},
          push : BOOLEAN, stage : {"none", "sent", "done", "refused"}]

\* A pane whose history and whose directory fit to the rest of it.
ViewOK(v) ==
  /\ v \in Views
  /\ v.index <= Len(v.back) /\ Len(v.back) <= MaxBack
  /\ (v.index = 0) <=> (v.back = << >>)
  /\ v.path # Nowhere => v.from # 0

\* A call: a listing is of a session, and what is told to end has ended when
\* the call is answered.
CallOK(c) ==
  /\ c \in Calls /\ c.session <= made
  /\ c.kind # "free" => c.tab \in TabIds
  /\ c.kind = "list" => c.session # 0 /\ c.dir \in Dirs
  /\ c.kind = "connect" /\ c.stage # "done" => c.session = 0
  /\ c.kind \in {"disconnect", "close"} /\ c.stage # "sent" => c.session \notin open

Connects(n, t) == call[n].kind = "connect" /\ call[n].tab = t

\* A tab that connects has no session and waits for one answer.
ConnectsOnce(t) ==
  view[t].shown => \A n \in Slots : Connects(n, t) =>
    /\ view[t].connecting /\ view[t].session = 0
    /\ \A k \in Slots : Connects(k, t) => k = n

TabInv ==
  /\ view \in [TabIds -> Views] /\ call \in [Slots -> Calls]
  /\ \A t \in TabIds : ViewOK(view[t]) /\ ConnectsOnce(t) /\ view[t].session <= made
  /\ \A n \in Slots : CallOK(call[n])
  /\ open \subseteq 1 .. made /\ made \in 0 .. LastSession
  /\ SessionsAreHeld /\ PaneIsOfSession /\ LoadingIsAwaited

LEMMA TabInitial == ASSUME TabInit PROVE TabInv
<1> DEFINE v == [shown |-> TRUE, connecting |-> FALSE, session |-> 0, path |-> Nowhere,
                 from |-> 0, loading |-> FALSE, back |-> << >>, index |-> 0]
<1>1. v \in Views /\ Len(v.back) = 0 /\ v.index = 0 /\ v.path = Nowhere /\ ~v.loading
      /\ v.session = 0
  BY TabAssumption DEF Views
<1>2. ViewOK(v)
  BY <1>1, TabAssumption DEF ViewOK
<1> HIDE DEF v
<1>3. view = [t \in TabIds |-> v]
  BY DEF TabInit, v
<1>4. NoCall \in Calls /\ NoCall.kind = "free" /\ NoCall.session = 0
  BY TabAssumption DEF Calls, NoCall
<1>5. call = [n \in Slots |-> NoCall] /\ open = {} /\ made = 0 /\ 0 \in 0 .. LastSession
  BY TabAssumption DEF TabInit
<1>6. \A n \in Slots : CallOK(call[n])
  BY <1>4, <1>5 DEF CallOK
<1> QED BY <1>1, <1>2, <1>3, <1>4, <1>5, <1>6
    DEF TabInv, ConnectsOnce, Connects, SessionsAreHeld, PaneIsOfSession, LoadingIsAwaited

\* What one step does to one tab, and to the calls of it.
LEMMA TabMoves ==
  ASSUME TabInv, NEW t \in TabIds, NEW v, ViewOK(v), view' = [view EXCEPT ![t] = v],
         call' \in [Slots -> Calls], open' \subseteq 1 .. made', made' \in 0 .. LastSession,
         v.session <= made', made <= made',
         \A n \in Slots : CallOK(call[n])',
         \A n \in Slots : call[n].kind = "list" /\ call[n].tab # t =>
           call'[n].kind = "list" /\ call'[n].tab = call[n].tab,
         v.shown /\ v.loading => \E n \in Slots : call'[n].kind = "list" /\ call'[n].tab = t,
         \A n \in Slots, u \in TabIds \ {t} : Connects(n, u)' => Connects(n, u),
         v.shown => \A n \in Slots : Connects(n, t)' =>
           v.connecting /\ v.session = 0 /\ \A k \in Slots : Connects(k, t)' => k = n,
         \A s \in open' \ orphans' :
           \/ v.shown /\ v.session = s
           \/ \E u \in TabIds \ {t} : view[u].shown /\ view[u].session = s
           \/ \E n \in Slots : call'[n].kind = "connect" /\ call'[n].session = s,
         t \notin crossed' /\ v.shown /\ v.path # Nowhere => v.from = v.session,
         crossed \subseteq crossed' \cup {t}
  PROVE  TabInv'
<1>1. view' \in [TabIds -> Views] /\ view'[t] = v /\ \A u \in TabIds \ {t} : view'[u] = view[u]
  BY DEF TabInv, ViewOK
<1>2. \A u \in TabIds : ViewOK(view[u])'
  BY <1>1 DEF TabInv, ViewOK
<1>7. \A u \in TabIds : (view[u].session <= made)'
  <2>1. view'[t].session <= made'
    BY <1>1
  <2>2. ASSUME NEW u \in TabIds \ {t} PROVE (view[u].session <= made)'
    <3>1. view[u].session <= made /\ view[u].session \in Int /\ view'[u] = view[u]
      BY <1>1 DEF TabInv, Views
    <3> QED BY <3>1, TabAssumption DEF TabInv
  <2> QED BY <2>1, <2>2
<1>3. ASSUME NEW u \in TabIds PROVE ConnectsOnce(u)'
  <2>1. CASE u = t
    BY <1>1, <2>1 DEF ConnectsOnce
  <2>2. CASE u # t
    BY <1>1, <2>2 DEF TabInv, ConnectsOnce
  <2> QED BY <2>1, <2>2
<1>4. SessionsAreHeld'
  BY <1>1 DEF SessionsAreHeld
<1>5. PaneIsOfSession'
  BY <1>1 DEF PaneIsOfSession, TabInv
<1>6. LoadingIsAwaited'
  BY <1>1 DEF LoadingIsAwaited, TabInv
<1> QED BY <1>1, <1>2, <1>3, <1>4, <1>5, <1>6, <1>7 DEF TabInv

\* What the user asks for, and what an answer does: the calls of E are over.
LEMMA TabGoesOn ==
  ASSUME TabInv, NEW t \in TabIds, NEW v, NEW E \in SUBSET Slots,
         ViewOK(v), view' = [view EXCEPT ![t] = v], call' \in [Slots -> Calls],
         UNCHANGED <<open, made>>, orphans \subseteq orphans',
         \A n \in E : call[n].tab = t,
         \A n \in Slots :
           \/ call'[n] = call[n] /\ n \notin E
           \/ /\ call[n] = NoCall \/ n \in E
              /\ CallOK(call'[n]) /\ call'[n].kind # "connect",
         v.shown /\ v.loading => \E n \in Slots : call'[n].kind = "list" /\ call'[n].tab = t,
         v.shown => view[t].shown, v.session <= made,
         \/ v.connecting = view[t].connecting /\ v.session \in {0, view[t].session}
         \/ \E n \in E : call[n].kind = "connect",
         view[t].shown /\ view[t].session \in open \ orphans' =>
           v.shown /\ v.session = view[t].session,
         \A n \in E : call[n].kind = "connect" /\ call[n].session \in open \ orphans' =>
           v.shown /\ v.session = call[n].session,
         t \notin crossed' /\ v.shown /\ v.path # Nowhere => v.from = v.session,
         crossed \subseteq crossed' \cup {t}
  PROVE  TabInv'
<1>1. \A n \in Slots : CallOK(call[n])'
  BY DEF TabInv, CallOK
<1>7. \A n \in Slots : call[n] = NoCall => call[n].kind = "free"
  <2>1. NoCall.kind = "free"
    BY DEF NoCall
  <2> QED BY <2>1
<1>2. \A n \in Slots : call[n].kind = "list" /\ call[n].tab # t =>
        call'[n].kind = "list" /\ call'[n].tab = call[n].tab
  BY <1>7
<1>3. \A n \in Slots : call'[n].kind = "connect" => n \notin E /\ call'[n] = call[n]
  OBVIOUS
<1>4. \A n \in Slots, u \in TabIds : Connects(n, u)' => n \notin E /\ Connects(n, u)
  BY <1>3 DEF Connects
<1>5. ASSUME v.shown, NEW n \in Slots, Connects(n, t)'
      PROVE  v.connecting /\ v.session = 0 /\ \A k \in Slots : Connects(k, t)' => k = n
  <2>1. Connects(n, t) /\ n \notin E
    BY <1>4, <1>5
  <2>2. view[t].connecting /\ view[t].session = 0 /\ \A k \in Slots : Connects(k, t) => k = n
    BY <1>5, <2>1 DEF TabInv, ConnectsOnce
  <2>3. ~ \E k \in E : call[k].kind = "connect"
    BY <2>1, <2>2 DEF Connects
  <2> QED BY <1>4, <2>2, <2>3
<1>6. ASSUME NEW s \in open' \ orphans'
      PROVE  \/ v.shown /\ v.session = s
             \/ \E u \in TabIds \ {t} : view[u].shown /\ view[u].session = s
             \/ \E n \in Slots : call'[n].kind = "connect" /\ call'[n].session = s
  <2>1. s \in open \ orphans
    OBVIOUS
  <2>2. CASE \E u \in TabIds : view[u].shown /\ view[u].session = s
    BY <2>2
  <2>3. CASE \E n \in Slots : call[n].kind = "connect" /\ call[n].session = s
    BY <1>7, <2>3
  <2> QED BY <2>1, <2>2, <2>3 DEF TabInv, SessionsAreHeld
<1>8. made \in 0 .. LastSession /\ open \subseteq 1 .. made
  BY DEF TabInv
<1>9. v.session <= made' /\ made <= made' /\ made' \in 0 .. LastSession /\ open' \subseteq 1 .. made'
  BY <1>8, TabAssumption
<1> QED BY <1>1, <1>2, <1>4, <1>5, <1>6, <1>9, TabMoves

Places == Dirs \cup {Nowhere}

\* One field of a pane.
LEMMA WithLoading ==
  ASSUME NEW p, ViewOK(p), NEW b \in BOOLEAN
  PROVE  LET v == [p EXCEPT !.loading = b]
         IN  /\ ViewOK(v) /\ v.shown = p.shown /\ v.connecting = p.connecting
             /\ v.session = p.session /\ v.path = p.path /\ v.from = p.from /\ v.loading = b
  BY DEF ViewOK, Views

LEMMA WithoutShown ==
  ASSUME NEW p, ViewOK(p)
  PROVE  LET v == [p EXCEPT !.shown = FALSE] IN ViewOK(v) /\ ~v.shown /\
             v.connecting = p.connecting /\ v.session = p.session
  BY DEF ViewOK, Views

\* v is p in another directory, in another session, with another history.
InPlace(v, p, d, s) ==
  /\ ViewOK(v) /\ v.shown = p.shown /\ v.connecting = p.connecting
  /\ v.session = p.session /\ v.path = d /\ v.from = s /\ v.loading = p.loading
  /\ v.back = p.back /\ v.index = p.index
InSession(v, p, b, s) ==
  /\ ViewOK(v) /\ v.shown = p.shown /\ v.connecting = b /\ v.session = s
  /\ v.path = p.path /\ v.from = p.from /\ v.loading = p.loading
WithBack(v, p) ==
  /\ ViewOK(v) /\ v.shown = p.shown /\ v.connecting = p.connecting
  /\ v.session = p.session /\ v.path = p.path /\ v.from = p.from /\ v.loading = p.loading

LEMMA WithPath ==
  ASSUME NEW p, ViewOK(p), NEW d \in Places, NEW s \in 0 .. LastSession,
         d # Nowhere => s # 0
  PROVE  InPlace([p EXCEPT !.path = d, !.from = s], p, d, s)
<1> DEFINE q == [p EXCEPT !.path = d]  v == [p EXCEPT !.path = d, !.from = s]
<1>1. /\ q \in Views /\ q.shown = p.shown /\ q.connecting = p.connecting
      /\ q.session = p.session /\ q.path = d /\ q.loading = p.loading
      /\ q.back = p.back /\ q.index = p.index
  BY DEF ViewOK, Views, Places
<1>2. v = [q EXCEPT !.from = s]
  OBVIOUS
<1> HIDE DEF q
<1>3. /\ v \in Views /\ v.shown = q.shown /\ v.connecting = q.connecting
      /\ v.session = q.session /\ v.path = q.path /\ v.from = s /\ v.loading = q.loading
      /\ v.back = q.back /\ v.index = q.index
  BY <1>1, <1>2 DEF Views
<1> HIDE DEF v
<1>4. InPlace(v, p, d, s)
  BY <1>1, <1>3 DEF ViewOK, InPlace
<1> QED BY <1>4 DEF v

LEMMA WithSession ==
  ASSUME NEW p, ViewOK(p), NEW b \in BOOLEAN, NEW s \in 0 .. LastSession
  PROVE  InSession([p EXCEPT !.connecting = b, !.session = s], p, b, s)
<1> DEFINE q == [p EXCEPT !.connecting = b]
           v == [p EXCEPT !.connecting = b, !.session = s]
<1>1. /\ q \in Views /\ q.shown = p.shown /\ q.connecting = b
      /\ q.from = p.from /\ q.path = p.path /\ q.loading = p.loading
      /\ q.back = p.back /\ q.index = p.index
  BY DEF ViewOK, Views
<1>2. v = [q EXCEPT !.session = s]
  OBVIOUS
<1> HIDE DEF q
<1>3. /\ v \in Views /\ v.shown = q.shown /\ v.connecting = q.connecting
      /\ v.session = s /\ v.path = q.path /\ v.from = q.from /\ v.loading = q.loading
      /\ v.back = q.back /\ v.index = q.index
  BY <1>1, <1>2 DEF Views
<1> HIDE DEF v
<1>4. InSession(v, p, b, s)
  BY <1>1, <1>3 DEF ViewOK, InSession
<1> QED BY <1>4 DEF v

LEMMA WithHistory ==
  ASSUME NEW p, ViewOK(p), NEW h \in Seq(Dirs), NEW i \in 0 .. MaxBack,
         i <= Len(h), Len(h) <= MaxBack, (i = 0) <=> (h = << >>)
  PROVE  WithBack([p EXCEPT !.back = h, !.index = i], p)
<1> DEFINE q == [p EXCEPT !.back = h]  v == [p EXCEPT !.back = h, !.index = i]
<1>1. /\ q \in Views /\ q.shown = p.shown /\ q.connecting = p.connecting
      /\ q.session = p.session
      /\ q.from = p.from /\ q.path = p.path /\ q.loading = p.loading
      /\ q.back = h
  BY DEF ViewOK, Views
<1>2. v = [q EXCEPT !.index = i]
  OBVIOUS
<1> HIDE DEF q
<1>3. /\ v \in Views /\ v.shown = q.shown /\ v.connecting = q.connecting
      /\ v.session = q.session /\ v.path = q.path /\ v.from = q.from /\ v.loading = q.loading
      /\ v.back = q.back /\ v.index = i
  BY <1>1, <1>2 DEF Views
<1> HIDE DEF v
<1>4. WithBack(v, p)
  BY <1>1, <1>3 DEF ViewOK, WithBack
<1> QED BY <1>4 DEF v

\* The history of a pane that has come to a directory.
LEMMA VisitedOK ==
  ASSUME NEW p, ViewOK(p), NEW d \in Dirs, NEW push \in BOOLEAN
  PROVE  WithBack(Visited(p, d, push), p)
<1> DEFINE longer == SubSeq(p.back, 1, p.index) \o <<d>>
           kept == IF Len(longer) > MaxBack THEN Tail(longer) ELSE longer
           i == Len(kept)
<1>1. /\ p.back \in Seq(Dirs) /\ p.index \in 0 .. MaxBack /\ p.index <= Len(p.back)
      /\ MaxBack \in Nat \ {0}
  BY TabAssumption DEF ViewOK, Views
<1>2. longer \in Seq(Dirs) /\ Len(longer) = p.index + 1
  <2> DEFINE b == p.back  j == p.index
  <2> HIDE DEF b, j
  <2>1. SubSeq(b, 1, j) \in Seq(Dirs) /\ Len(SubSeq(b, 1, j)) = j
    BY <1>1 DEF b, j
  <2>2. <<d>> \in Seq(Dirs) /\ Len(<<d>>) = 1
    OBVIOUS
  <2>3. SubSeq(b, 1, j) \o <<d>> \in Seq(Dirs)
        /\ Len(SubSeq(b, 1, j) \o <<d>>) = j + 1
    BY <2>1, <2>2, ConcatProperties, <1>1
  <2> QED BY <2>3 DEF b, j
<1> HIDE DEF longer
<1>3. kept \in Seq(Dirs) /\ i \in 0 .. MaxBack /\ i # 0 /\ kept # << >>
  <2>1. CASE Len(longer) > MaxBack
    <3>1. longer # << >> /\ kept = Tail(longer)
      BY <1>1, <1>2, <2>1
    <3>2. Tail(longer) \in Seq(Dirs) /\ Len(Tail(longer)) = Len(longer) - 1
      BY <1>2, <3>1
    <3>3. Len(kept) = p.index /\ p.index # 0 /\ kept \in Seq(Dirs)
      BY <1>1, <1>2, <2>1, <3>1, <3>2
    <3>4. kept # << >>
      BY <3>3, EmptySeq
    <3> HIDE DEF kept
    <3> QED BY <1>1, <3>3, <3>4
  <2>2. CASE ~ (Len(longer) > MaxBack)
    <3>1. kept = longer
      BY <2>2
    <3> QED BY <1>1, <1>2, <2>2, <3>1
  <2> QED BY <2>1, <2>2
<1> HIDE DEF kept
<1>4. CASE push /\ p.path # d
  <2> DEFINE v == [p EXCEPT !.back = kept, !.index = i]
  <2>1. Visited(p, d, push) = v
    BY <1>4 DEF Visited, kept, longer
  <2>2. i <= Len(kept) /\ Len(kept) <= MaxBack /\ ((i = 0) <=> (kept = << >>))
    BY <1>1, <1>3
  <2> HIDE DEF i
  <2>3. kept \in Seq(Dirs) /\ i \in 0 .. MaxBack
    BY <1>3
  <2>4. WithBack(v, p)
    BY <2>2, <2>3, WithHistory, ZenonT(30)
  <2> HIDE DEF v
  <2> QED BY <2>1, <2>4
<1>5. CASE ~ (push /\ p.path # d) /\ ~push /\ p.back = << >>
  <2> DEFINE h == <<d>>
  <2> DEFINE v == [p EXCEPT !.back = h, !.index = 1]
  <2>1. Visited(p, d, push) = v
    BY <1>5 DEF Visited
  <2>2. h \in Seq(Dirs) /\ Len(h) = 1 /\ h # << >> /\ 1 \in 0 .. MaxBack
    BY <1>1
  <2> HIDE DEF h
  <2>3. 1 <= Len(h) /\ Len(h) <= MaxBack /\ ((1 = 0) <=> (h = << >>))
    BY <1>1, <2>2
  <2>4. WithBack(v, p)
    BY <2>2, <2>3, WithHistory, ZenonT(30)
  <2> HIDE DEF v
  <2> QED BY <2>1, <2>4
<1>6. CASE ~ (push /\ p.path # d) /\ ~ (~push /\ p.back = << >>)
  <2>1. Visited(p, d, push) = p
    BY <1>6 DEF Visited
  <2> QED BY <2>1 DEF WithBack
<1> QED BY <1>4, <1>5, <1>6

LEMMA WithIndex ==
  ASSUME NEW p, ViewOK(p), NEW i \in 1 .. Len(p.back)
  PROVE  LET v == [p EXCEPT !.index = i]
         IN  /\ ViewOK(v) /\ v.shown = p.shown /\ v.connecting = p.connecting
             /\ v.session = p.session /\ v.path = p.path /\ v.from = p.from
<1> DEFINE v == [p EXCEPT !.index = i]
<1>1. i \in 0 .. MaxBack /\ p.back # << >> /\ i <= Len(p.back) /\ i # 0
      /\ Len(p.back) <= MaxBack
  BY TabAssumption DEF ViewOK, Views
<1>2. /\ v \in Views /\ v.shown = p.shown /\ v.connecting = p.connecting
      /\ v.session = p.session /\ v.path = p.path /\ v.from = p.from
      /\ v.back = p.back /\ v.index = i
  BY <1>1 DEF ViewOK, Views
<1>3. ViewOK(v)
  <2> HIDE DEF v
  <2> QED BY <1>1, <1>2 DEF ViewOK
<1> QED BY <1>2, <1>3

LEMMA ViewFields ==
  ASSUME TabInv, NEW t \in TabIds
  PROVE  /\ ViewOK(view[t]) /\ view[t].session \in 0 .. LastSession
         /\ view[t].shown \in BOOLEAN /\ view[t].back \in Seq(Dirs)
         /\ view[t].loading \in BOOLEAN /\ view[t].session <= made
  BY DEF TabInv, ViewOK, Views

Requests == {"connect", "list", "disconnect", "close"}
Sends(c, kind, t) == CallOK(c) /\ c.kind = kind /\ c.tab = t

LEMMA SentOK ==
  ASSUME TabInv, NEW kind \in Requests, NEW t \in TabIds,
         NEW s \in 0 .. made, NEW d \in Places, NEW push \in BOOLEAN,
         kind = "list" => s # 0 /\ d \in Dirs, kind = "connect" => s = 0
  PROVE  Sends(Sent(kind, t, s, d, push), kind, t)
<1> DEFINE c == Sent(kind, t, s, d, push)
<1>1. s \in 0 .. LastSession
  BY TabAssumption DEF TabInv
<1>2. /\ c \in Calls /\ c.kind = kind /\ c.tab = t /\ c.session = s /\ c.stage = "sent"
      /\ c.dir = d
  BY <1>1 DEF Sent, Calls, Places, Requests
<1>3. CallOK(c)
  <2> HIDE DEF c
  <2> QED BY <1>2 DEF CallOK, Requests
<1> QED BY <1>2, <1>3 DEF Sends

\* A call takes a slot that is free.
LEMMA AskTakes ==
  ASSUME NEW calls \in [Slots -> Calls], NEW c, CallOK(c), Ask(calls, c)
  PROVE  /\ call' \in [Slots -> Calls]
         /\ \E n \in Slots : calls[n] = NoCall /\ call'[n] = c
         /\ \A n \in Slots : call'[n] = calls[n] \/ (calls[n] = NoCall /\ call'[n] = c)
  BY DEF Ask, CallOK

LEMMA GoMoves ==
  ASSUME TabInv, NEW t \in TabIds, NEW p, ViewOK(p), p.session <= made, NEW d \in Dirs,
         NEW push \in BOOLEAN, NEW calls \in [Slots -> Calls], Go(t, p, d, push, calls)
  PROVE  \E v :
           /\ ViewOK(v) /\ view' = [view EXCEPT ![t] = v]
           /\ v.shown = p.shown /\ v.connecting = p.connecting /\ v.session = p.session
           /\ v.path = p.path /\ v.from = p.from
           /\ call' \in [Slots -> Calls]
           /\ \A n \in Slots :
                \/ call'[n] = calls[n]
                \/ calls[n] = NoCall /\ CallOK(call'[n]) /\ call'[n].kind # "connect"
           /\ v.loading => \E n \in Slots : call'[n].kind = "list" /\ call'[n].tab = t
<1>1. CASE p.session = 0
  <2> DEFINE v == [p EXCEPT !.loading = FALSE]
  <2>1. view' = [view EXCEPT ![t] = v] /\ call' = calls
    BY <1>1 DEF Go
  <2>2. /\ ViewOK(v) /\ v.shown = p.shown /\ v.connecting = p.connecting
        /\ v.session = p.session /\ v.path = p.path /\ v.from = p.from /\ v.loading = FALSE
    BY WithLoading
  <2> HIDE DEF v
  <2> QED BY <2>1, <2>2
<1>2. CASE p.session # 0
  <2> DEFINE v == [p EXCEPT !.loading = TRUE]
             c == Sent("list", t, p.session, d, push)
  <2>1. view' = [view EXCEPT ![t] = v] /\ Ask(calls, c)
    BY <1>2 DEF Go
  <2>2. /\ ViewOK(v) /\ v.shown = p.shown /\ v.connecting = p.connecting
        /\ v.session = p.session /\ v.path = p.path /\ v.from = p.from /\ v.loading = TRUE
    BY WithLoading
  <2>3. p.session \in 0 .. made
    BY DEF ViewOK, Views, TabInv
  <2>6. "list" \in Requests /\ d \in Places /\ "list" # "connect"
    BY DEF Requests, Places
  <2>4. CallOK(c) /\ c.kind = "list" /\ c.tab = t
    BY <1>2, <2>3, <2>6, SentOK DEF Sends
  <2> HIDE DEF v, c
  <2>5. /\ call' \in [Slots -> Calls]
        /\ \E n \in Slots : calls[n] = NoCall /\ call'[n] = c
        /\ \A n \in Slots : call'[n] = calls[n] \/ (calls[n] = NoCall /\ call'[n] = c)
    BY <2>1, <2>4, AskTakes
  <2> QED BY <2>1, <2>2, <2>4, <2>5
<1> QED BY <1>1, <1>2

LEMMA AskedFor ==
  ASSUME TabInv, NEW t \in TabIds, NEW p, ViewOK(p), NEW d \in Dirs, NEW push \in BOOLEAN,
         p.shown = view[t].shown, p.connecting = view[t].connecting,
         p.session = view[t].session, p.path = view[t].path, p.from = view[t].from,
         Go(t, p, d, push, call), UNCHANGED <<open, made, orphans, crossed>>
  PROVE  TabInv'
<1>1. call \in [Slots -> Calls] /\ p.session <= made
  BY ViewFields DEF TabInv
<1>2. PICK v : /\ ViewOK(v) /\ view' = [view EXCEPT ![t] = v]
               /\ v.shown = p.shown /\ v.connecting = p.connecting /\ v.session = p.session
               /\ v.path = p.path /\ v.from = p.from
               /\ call' \in [Slots -> Calls]
               /\ \A n \in Slots :
                    \/ call'[n] = call[n]
                    \/ call[n] = NoCall /\ CallOK(call'[n]) /\ call'[n].kind # "connect"
               /\ v.loading => \E n \in Slots : call'[n].kind = "list" /\ call'[n].tab = t
  BY <1>1, GoMoves
<1> DEFINE E == {}
<1>3. t \notin crossed' /\ v.shown /\ v.path # Nowhere => v.from = v.session
  BY <1>2 DEF TabInv, PaneIsOfSession
<1>4. E \in SUBSET Slots /\ \A n \in Slots : n \notin E
  OBVIOUS
<1>5. v.session <= made /\ (v.shown => view[t].shown)
      /\ v.connecting = view[t].connecting /\ v.session = view[t].session
  BY <1>1, <1>2
<1>6. \A n \in Slots :
        \/ call'[n] = call[n] /\ n \notin E
        \/ /\ call[n] = NoCall \/ n \in E
           /\ CallOK(call'[n]) /\ call'[n].kind # "connect"
  BY <1>2, <1>4
<1>7. orphans \subseteq orphans' /\ crossed \subseteq crossed' \cup {t}
      /\ (view[t].shown /\ view[t].session \in open \ orphans' =>
            v.shown /\ v.session = view[t].session)
  BY <1>2, <1>5
<1> HIDE DEF E
<1> QED BY <1>2, <1>3, <1>4, <1>5, <1>6, <1>7, TabGoesOn

LEMMA NavigateKeeps ==
  ASSUME TabInv, NEW t \in TabIds, NEW d \in Dirs, NEW push \in BOOLEAN, Navigate(t, d, push)
  PROVE  TabInv'
  BY AskedFor, ViewFields DEF Navigate

LEMMA GoHistoryKeeps ==
  ASSUME TabInv, NEW t \in TabIds, NEW delta \in {-1, 1}, GoHistory(t, delta)
  PROVE  TabInv'
<1> DEFINE i == view[t].index + delta
           p == [view[t] EXCEPT !.index = i]
           d == view[t].back[i]
<1>1. /\ i \in 1 .. Len(view[t].back) /\ Go(t, p, d, FALSE, call)
      /\ UNCHANGED <<open, made, orphans, crossed>>
  BY DEF GoHistory
<1>2. d \in Dirs
  BY <1>1, ViewFields
<1> HIDE DEF i, d
<1>3. /\ ViewOK(p) /\ p.shown = view[t].shown /\ p.connecting = view[t].connecting
      /\ p.session = view[t].session /\ p.path = view[t].path /\ p.from = view[t].from
  BY <1>1, ViewFields, WithIndex
<1> HIDE DEF p
<1> QED BY <1>1, <1>2, <1>3, AskedFor

\* A call that is no connect and no listing, of a tab that stays as it is.
LEMMA AskedToEnd ==
  ASSUME TabInv, NEW t \in TabIds, NEW kind \in {"disconnect", "close"},
         Ask(call, Sent(kind, t, view[t].session, Nowhere, FALSE)),
         UNCHANGED <<view, open, made, orphans, crossed>>
  PROVE  TabInv'
<1> DEFINE c == Sent(kind, t, view[t].session, Nowhere, FALSE)
           v == view[t]
           E == {}
<1>1. view[t].session \in 0 .. made
  BY ViewFields, TabAssumption DEF TabInv
<1>9. /\ kind \in Requests /\ kind # "list" /\ kind # "connect"
      /\ Nowhere \in Places
  BY DEF Requests, Places
<1>11. ASSUME NEW s \in 0 .. made PROVE Sends(Sent(kind, t, s, Nowhere, FALSE), kind, t)
  BY <1>9, SentOK
<1>2. CallOK(c) /\ c.kind = kind
  BY <1>1, <1>11 DEF Sends
<1>3. call \in [Slots -> Calls] /\ Ask(call, c)
  BY DEF TabInv
<1> HIDE DEF c
<1>4. /\ call' \in [Slots -> Calls]
      /\ \A n \in Slots : call'[n] = call[n] \/ (call[n] = NoCall /\ call'[n] = c)
  BY <1>2, <1>3, AskTakes
<1>5. /\ ViewOK(v) /\ view' = [view EXCEPT ![t] = v] /\ v.session <= made
      /\ (v.shown /\ v.loading => \E n \in Slots : call[n].kind = "list" /\ call[n].tab = t)
      /\ (t \notin crossed /\ v.shown /\ v.path # Nowhere => v.from = v.session)
  BY ViewFields DEF TabInv, PaneIsOfSession, LoadingIsAwaited
<1>6. v.shown /\ v.loading => \E n \in Slots : call'[n].kind = "list" /\ call'[n].tab = t
  <2>1. NoCall.kind = "free"
    BY DEF NoCall
  <2> QED BY <1>4, <1>5, <2>1
<1>7. E \in SUBSET Slots /\ \A n \in Slots : n \notin E
  OBVIOUS
<1>8. v = view[t]
  OBVIOUS
<1> HIDE DEF E, v
<1>10. \A n \in Slots :
         \/ call'[n] = call[n] /\ n \notin E
         \/ /\ call[n] = NoCall \/ n \in E
            /\ CallOK(call'[n]) /\ call'[n].kind # "connect"
  BY <1>2, <1>4, <1>7, <1>9
<1> QED BY <1>4, <1>5, <1>6, <1>7, <1>8, <1>10, TabGoesOn

LEMMA DisconnectTabKeeps ==
  ASSUME TabInv, NEW t \in TabIds, DisconnectTab(t) PROVE TabInv'
  BY AskedToEnd DEF DisconnectTab

LEMMA CloseTabKeeps ==
  ASSUME TabInv, NEW t \in TabIds, CloseTab(t) PROVE TabInv'
<1>1. CASE view[t].session # 0
  BY <1>1, AskedToEnd DEF CloseTab
<1>2. CASE view[t].session = 0
  <2> DEFINE v == [view[t] EXCEPT !.shown = FALSE]
             E == {}
  <2>1. ViewOK(v) /\ ~v.shown /\ v.connecting = view[t].connecting /\ v.session = view[t].session
    BY ViewFields, WithoutShown
  <2>2. view' = [view EXCEPT ![t] = v] /\ UNCHANGED <<call, open, made, orphans, crossed>>
    BY <1>2 DEF CloseTab
  <2>3. E \in SUBSET Slots /\ \A n \in Slots : n \notin E
    OBVIOUS
  <2>4. call \in [Slots -> Calls] /\ 0 \notin open /\ view[t].session <= made
    BY ViewFields, TabAssumption DEF TabInv
  <2> HIDE DEF v, E
  <2> QED BY <1>2, <2>1, <2>2, <2>3, <2>4, TabGoesOn
<1> QED BY <1>1, <1>2

LEMMA ConnectSiteKeeps ==
  ASSUME TabInv, NEW t \in TabIds, ConnectSite(t) PROVE TabInv'
<1> DEFINE q == [view[t] EXCEPT !.connecting = TRUE]
           v == [q EXCEPT !.path = Nowhere, !.from = 0]
           c == Sent("connect", t, 0, Nowhere, FALSE)
<1>1. /\ view[t].shown /\ view[t].session = 0 /\ ~view[t].connecting
      /\ view' = [view EXCEPT ![t] = v] /\ Ask(call, c)
      /\ UNCHANGED <<open, made, orphans, crossed>>
  BY DEF ConnectSite, Blank
<1>2. /\ ViewOK(q) /\ q.shown = view[t].shown /\ q.connecting = TRUE
      /\ q.session = view[t].session /\ q.loading = view[t].loading
  BY ViewFields DEF ViewOK, Views
<1> HIDE DEF q
<1>3. Nowhere \in Places /\ "connect" \in Requests /\ "connect" # "list" /\ 0 \in 0 .. LastSession /\ 0 \in 0 .. made
  BY TabAssumption DEF TabInv, Places, Requests
<1>18. ViewOK(q)
  BY <1>2
<1>19. Nowhere # Nowhere => 0 # 0
  OBVIOUS
<1>20. InPlace(v, q, Nowhere, 0)
  BY <1>3, <1>18, <1>19, WithPath, ZenonT(30)
<1>4. /\ ViewOK(v) /\ v.shown = q.shown /\ v.connecting = q.connecting
      /\ v.session = q.session /\ v.path = Nowhere /\ v.loading = q.loading
  <2> HIDE DEF v
  <2> QED BY <1>20 DEF InPlace
<1>5. CallOK(c) /\ c.kind = "connect" /\ c.tab = t
  <2>1. "connect" = "list" => 0 # 0 /\ Nowhere \in Dirs
    BY <1>3
  <2>2. Sends(c, "connect", t)
    BY <1>3, <2>1, SentOK, ZenonT(30)
  <2> QED BY <2>2 DEF Sends
<1> HIDE DEF v, c
<1>6. /\ call' \in [Slots -> Calls]
      /\ \A n \in Slots : call'[n] = call[n] \/ (call[n] = NoCall /\ call'[n] = c)
      /\ \E n \in Slots : call' = [call EXCEPT ![n] = c]
  BY <1>1, <1>5, AskTakes DEF TabInv, Ask
<1>7. \A n \in Slots : call[n] = NoCall => call[n].kind = "free"
  <2>1. NoCall.kind = "free"
    BY DEF NoCall
  <2> QED BY <2>1
<1>8. \A n \in Slots : CallOK(call[n])'
  BY <1>1, <1>5, <1>6 DEF TabInv, CallOK
<1>9. \A n \in Slots : call[n].kind # "free" => call'[n] = call[n]
  BY <1>6, <1>7
<1>10. v.shown /\ v.loading => \E n \in Slots : call'[n].kind = "list" /\ call'[n].tab = t
  BY <1>2, <1>4, <1>9 DEF TabInv, LoadingIsAwaited
<1>11. \A n \in Slots, u \in TabIds \ {t} : Connects(n, u)' => Connects(n, u)
  BY <1>5, <1>6 DEF Connects
<1>12. \A n \in Slots : ~Connects(n, t)
  BY <1>1 DEF TabInv, ConnectsOnce
<1>13. \A n \in Slots, k \in Slots : Connects(n, t)' /\ Connects(k, t)' => k = n
  BY <1>5, <1>6, <1>12 DEF Connects, TabInv
<1>14. ASSUME NEW s \in open' \ orphans'
       PROVE  \/ v.shown /\ v.session = s
              \/ \E u \in TabIds \ {t} : view[u].shown /\ view[u].session = s
              \/ \E n \in Slots : call'[n].kind = "connect" /\ call'[n].session = s
  <2>1. s \in open \ orphans
    BY <1>1
  <2>2. CASE \E u \in TabIds : view[u].shown /\ view[u].session = s
    BY <1>2, <1>4, <2>2
  <2>3. CASE \E n \in Slots : call[n].kind = "connect" /\ call[n].session = s
    BY <1>9, <2>3
  <2> QED BY <2>1, <2>2, <2>3 DEF TabInv, SessionsAreHeld
<1>15. /\ open' \subseteq 1 .. made' /\ made' \in 0 .. LastSession /\ v.session <= made'
       /\ made <= made' /\ crossed \subseteq crossed' \cup {t}
  BY <1>1, <1>2, <1>4, TabAssumption DEF TabInv
<1>16. \A n \in Slots : call[n].kind = "list" /\ call[n].tab # t =>
         call'[n].kind = "list" /\ call'[n].tab = call[n].tab
  BY <1>9
<1>17. v.connecting /\ v.session = 0
  BY <1>1, <1>2, <1>4
<1> QED BY <1>1, <1>4, <1>6, <1>8, <1>10, <1>11, <1>13, <1>14, <1>15, <1>16, <1>17, TabMoves

LEMMA CallFields ==
  ASSUME TabInv, NEW n \in Slots
  PROVE  /\ CallOK(call[n]) /\ call[n] \in Calls /\ call[n].session \in 0 .. LastSession
         /\ call[n].kind # "free" => call[n].tab \in TabIds
  BY DEF TabInv, CallOK, Calls

\* The program answers a call: nothing of the window changes.
LEMMA ReplyKeeps ==
  ASSUME TabInv, NEW n \in Slots, NEW stage \in {"done", "refused"}, NEW s \in 0 .. LastSession,
         s <= made', Reply(n, stage, s), UNCHANGED <<view, orphans, crossed>>,
         call[n].kind # "free", made' \in 0 .. LastSession, made <= made',
         open' \subseteq 1 .. made', call[n].kind = "list" => s # 0,
         call[n].kind = "connect" /\ stage # "done" => s = 0,
         call[n].kind \in {"disconnect", "close"} => s \notin open',
         call[n].kind = "connect" => call[n].session \notin open' \ orphans,
         \A k \in Slots : call[k].kind \in {"disconnect", "close"} /\ call[k].stage # "sent" =>
           call[k].session \notin open',
         \A s2 \in open' \ open : call[n].kind = "connect" /\ s = s2
  PROVE  TabInv'
<1>3. PICK t \in TabIds : t = call[n].tab
  BY CallFields
<1> DEFINE v == view[t]
           c == [call[n] EXCEPT !.stage = stage, !.session = s]
<1>1. /\ c \in Calls /\ c.kind = call[n].kind /\ c.tab = call[n].tab /\ c.session = s /\ c.stage = stage
      /\ c.dir = call[n].dir
  <2> DEFINE q == [call[n] EXCEPT !.stage = stage]
  <2>1. /\ q \in Calls /\ q.kind = call[n].kind /\ q.tab = call[n].tab /\ q.stage = stage
        /\ q.dir = call[n].dir
    BY CallFields DEF Calls
  <2>2. c = [q EXCEPT !.session = s]
    OBVIOUS
  <2> HIDE DEF q
  <2> QED BY <2>1, <2>2 DEF Calls
<1>2. call' = [call EXCEPT ![n] = c]
  BY CallFields DEF Reply, TabInv
<1>4. CallOK(call[n])
  BY CallFields
<1> HIDE DEF c, v
<1>5. /\ call' \in [Slots -> Calls] /\ call'[n] = c
      /\ \A k \in Slots \ {n} : call'[k] = call[k]
  BY <1>1, <1>2 DEF TabInv
<1>6. CallOK(call[n])'
  BY <1>1, <1>4, <1>5 DEF CallOK
<1>7. ASSUME NEW k \in Slots \ {n} PROVE CallOK(call[k])'
  <2>1. CallOK(call[k]) /\ call'[k] = call[k]
    BY <1>5 DEF TabInv
  <2>4. made \in Int /\ made' \in Int
    BY TabAssumption DEF TabInv
  <2>5. call[k].session \in 0 .. LastSession
    BY CallFields
  <2>2. call[k].session \in Int /\ made \in Int /\ made' \in Int
    BY <2>4, <2>5
  <2>3. call[k].session <= made'
    BY <2>1, <2>2 DEF CallOK
  <2> QED BY <2>1, <2>3 DEF CallOK
<1>8. /\ ViewOK(v) /\ view' = [view EXCEPT ![t] = v] /\ v = view[t]
      /\ v.session <= made'
  BY <1>3, ViewFields, TabAssumption DEF v, TabInv
<1>9. \A k \in Slots : call'[k].kind = call[k].kind /\ call'[k].tab = call[k].tab
  BY <1>1, <1>5
<1>10. \A k \in Slots, u \in TabIds : Connects(k, u)' => Connects(k, u)
  BY <1>9 DEF Connects
<1>11. v.shown /\ v.loading => \E k \in Slots : call'[k].kind = "list" /\ call'[k].tab = t
  BY <1>3, <1>8, <1>9 DEF TabInv, LoadingIsAwaited
<1>12. v.shown => \A k \in Slots : Connects(k, t)' =>
         v.connecting /\ v.session = 0 /\ \A m \in Slots : Connects(m, t)' => m = k
  BY <1>8, <1>10 DEF TabInv, ConnectsOnce
<1>13. ASSUME NEW s2 \in open' \ orphans'
       PROVE  \/ v.shown /\ v.session = s2
              \/ \E u \in TabIds \ {t} : view[u].shown /\ view[u].session = s2
              \/ \E k \in Slots : call'[k].kind = "connect" /\ call'[k].session = s2
  <2>1. CASE s2 \notin open
    BY <1>1, <1>5, <2>1
  <2>2. CASE \E u \in TabIds : view[u].shown /\ view[u].session = s2
    BY <1>8, <2>2
  <2>3. CASE \E k \in Slots : call[k].kind = "connect" /\ call[k].session = s2
    BY <1>5, <2>3
  <2> QED BY <2>1, <2>2, <2>3 DEF TabInv, SessionsAreHeld
<1>14. t \notin crossed' /\ v.shown /\ v.path # Nowhere => v.from = v.session
  BY <1>3, <1>8 DEF TabInv, PaneIsOfSession
<1>15. \A k \in Slots : CallOK(call[k])'
  BY <1>6, <1>7
<1>16. \A k \in Slots : call[k].kind = "list" /\ call[k].tab # t =>
         call'[k].kind = "list" /\ call'[k].tab = call[k].tab
  BY <1>9
<1>17. \A k \in Slots, u \in TabIds \ {t} : Connects(k, u)' => Connects(k, u)
  BY <1>10
<1>18. /\ ViewOK(v) /\ view' = [view EXCEPT ![t] = v] /\ v.session <= made'
       /\ call' \in [Slots -> Calls] /\ crossed \subseteq crossed' \cup {t}
  BY <1>5, <1>8
<1> QED BY <1>11, <1>12, <1>13, <1>14, <1>15, <1>16, <1>17, <1>18, TabMoves

LEMMA ServeConnectKeeps ==
  ASSUME TabInv, NEW n \in Slots, ServeConnect(n) PROVE TabInv'
<1>5. call[n].kind = "connect" /\ call[n].session = 0
  BY CallFields DEF ServeConnect, CallOK
<1>6. made \in 0 .. LastSession /\ open \subseteq 1 .. made
  BY DEF TabInv
<1>1. /\ call[n].kind = "connect" /\ call[n].session = 0 /\ made \in 0 .. LastSession
      /\ open \subseteq 1 .. made /\ UNCHANGED <<view, orphans, crossed>>
  BY <1>5, <1>6 DEF ServeConnect
<1>2. \A k \in Slots : call[k].session <= made /\ call[k].session \in Int /\
        (call[k].kind \in {"disconnect", "close"} /\ call[k].stage # "sent" =>
           call[k].session \notin open)
  <2>1. ASSUME NEW k \in Slots
        PROVE  CallOK(call[k]) /\ call[k].session \in 0 .. LastSession
    BY CallFields
  <2> QED BY <2>1 DEF CallOK
<1>3. CASE /\ made < LastSession /\ made' = made + 1
           /\ open' = open \cup {made + 1} /\ Reply(n, "done", made + 1)
  <2>1. /\ made + 1 \in 0 .. LastSession /\ made + 1 <= made' /\ made' \in 0 .. LastSession
        /\ made <= made' /\ open' \subseteq 1 .. made' /\ made + 1 # 0
        /\ call[n].session \notin open' \ orphans
    <3>1. made \in Nat /\ LastSession \in Nat /\ made < LastSession /\ made' = made + 1
      BY <1>1, <1>3, TabAssumption
    <3>2. /\ made + 1 \in 0 .. LastSession /\ made + 1 <= made' /\ made' \in 0 .. LastSession
          /\ made <= made' /\ made + 1 # 0
      BY <3>1
    <3>5. 1 .. made \subseteq 1 .. made' /\ made + 1 \in 1 .. made'
      BY <3>1
    <3>6. open' = open \cup {made + 1} /\ open \subseteq 1 .. made
      BY <1>1, <1>3
    <3>3. open' \subseteq 1 .. made'
      BY <3>5, <3>6
    <3>4. 0 \notin open'
      BY <3>1, <3>3
    <3> QED BY <1>1, <3>2, <3>3, <3>4
  <2>2. \A k \in Slots : call[k].kind \in {"disconnect", "close"} /\ call[k].stage # "sent" =>
          call[k].session \notin open'
    BY <1>1, <1>2, <1>3
  <2>3. \A s2 \in open' \ open : made + 1 = s2
    BY <1>3
  <2> QED BY <1>1, <1>3, <2>1, <2>2, <2>3, ReplyKeeps
<1>4. CASE Reply(n, "refused", 0) /\ UNCHANGED <<open, made>>
  <2>1. /\ 0 \in 0 .. LastSession /\ 0 <= made' /\ made' \in 0 .. LastSession
        /\ made <= made' /\ open' \subseteq 1 .. made'
        /\ call[n].session \notin open' \ orphans
    BY <1>1, <1>4, TabAssumption
  <2>2. \A k \in Slots : call[k].kind \in {"disconnect", "close"} /\ call[k].stage # "sent" =>
          call[k].session \notin open'
    BY <1>2, <1>4
  <2> QED BY <1>1, <1>4, <2>1, <2>2, ReplyKeeps
<1> QED BY <1>3, <1>4 DEF ServeConnect

LEMMA ServeListKeeps ==
  ASSUME TabInv, NEW n \in Slots, ServeList(n) PROVE TabInv'
<1> DEFINE s == call[n].session
<1>1. /\ call[n].kind = "list" /\ s # 0 /\ s <= made /\ s \in 0 .. LastSession
  BY CallFields DEF ServeList, CallOK
<1>2. /\ made' \in 0 .. LastSession /\ made <= made' /\ open' \subseteq 1 .. made'
      /\ s <= made' /\ open' = open
  BY <1>1, TabAssumption DEF ServeList, TabInv
<1>3. \A k \in Slots : call[k].kind \in {"disconnect", "close"} /\ call[k].stage # "sent" =>
        call[k].session \notin open'
  BY <1>2 DEF TabInv, CallOK
<1>4. /\ Reply(n, "done", s) \/ Reply(n, "refused", s)
      /\ UNCHANGED <<view, orphans, crossed>>
  BY DEF ServeList
<1> HIDE DEF s
<1> QED BY <1>1, <1>2, <1>3, <1>4, ReplyKeeps

LEMMA ServeDisconnectKeeps ==
  ASSUME TabInv, NEW n \in Slots, ServeDisconnect(n) PROVE TabInv'
<1> DEFINE s == call[n].session
<1>1. /\ call[n].kind \in {"disconnect", "close"} /\ s <= made /\ s \in 0 .. LastSession
  BY CallFields DEF ServeDisconnect, CallOK
<1>2. /\ made' \in 0 .. LastSession /\ made <= made' /\ open' \subseteq 1 .. made'
      /\ s <= made' /\ open' \subseteq open /\ s \notin open'
  <2>1. made \in 0 .. LastSession /\ open \subseteq 1 .. made
    BY DEF TabInv
  <2>2. open' = open \ {s} /\ made' = made
    BY DEF ServeDisconnect
  <2> HIDE DEF s
  <2>3. open' \subseteq open /\ s \notin open'
    BY <2>2
  <2> QED BY <1>1, <2>1, <2>2, <2>3, TabAssumption
<1>3. \A k \in Slots : call[k].kind \in {"disconnect", "close"} /\ call[k].stage # "sent" =>
        call[k].session \notin open'
  BY <1>2 DEF TabInv, CallOK
<1>4. Reply(n, "done", s) /\ UNCHANGED <<view, orphans, crossed>>
  BY DEF ServeDisconnect
<1> HIDE DEF s
<1> QED BY <1>1, <1>2, <1>3, <1>4, ReplyKeeps

LEMMA NoCallOK == ASSUME TabInv PROVE CallOK(NoCall) /\ NoCall.kind = "free"
<1>1. NoCall \in Calls /\ NoCall.kind = "free" /\ NoCall.session = 0
  BY TabAssumption DEF Calls, NoCall
<1>2. 0 <= made
  BY TabAssumption DEF TabInv
<1> QED BY <1>1, <1>2 DEF CallOK

\* What the answer in slot n may do to its tab t.
AnswerFits(n, t, v) ==
  /\ v.shown => view[t].shown
  /\ \/ v.connecting = view[t].connecting /\ v.session \in {0, view[t].session}
     \/ call[n].kind = "connect"
  /\ view[t].shown /\ view[t].session \in open \ orphans' =>
       v.shown /\ v.session = view[t].session
  /\ call[n].kind = "connect" /\ call[n].session \in open \ orphans' =>
       v.shown /\ v.session = call[n].session
  /\ t \notin crossed' /\ v.shown /\ v.path # Nowhere => v.from = v.session

\* The calls of which that in slot n is over, and perhaps another is new.
AnswerTaken(n) ==
  /\ call' \in [Slots -> Calls]
  /\ \A k \in Slots :
       \/ call'[k] = Without(n)[k]
       \/ Without(n)[k] = NoCall /\ CallOK(call'[k]) /\ call'[k].kind # "connect"

\* The answer to the call in slot n has come to its tab t.
LEMMA AnswerKeeps ==
  ASSUME TabInv, NEW n \in Slots, NEW t \in TabIds, call[n].tab = t, call[n].kind # "free",
         NEW v, ViewOK(v), v.session <= made, view' = [view EXCEPT ![t] = v],
         UNCHANGED <<open, made>>, orphans \subseteq orphans', AnswerTaken(n),
         v.shown /\ v.loading =>
           \/ \E k \in Slots : call'[k].kind = "list" /\ call'[k].tab = t
           \/ view[t].loading /\ call[n].kind # "list",
         AnswerFits(n, t, v),
         crossed \subseteq crossed' \cup {t}
  PROVE  TabInv'
<1> DEFINE E == {n}
<1>1. /\ Without(n)[n] = NoCall /\ \A k \in Slots \ {n} : Without(n)[k] = call[k]
      /\ CallOK(NoCall) /\ NoCall.kind = "free"
  BY NoCallOK DEF Without, TabInv
<1>2. /\ CallOK(call'[n]) /\ call'[n].kind # "connect"
      /\ \A k \in Slots \ {n} :
           call'[k] = call[k] \/ (call[k] = NoCall /\ CallOK(call'[k]) /\ call'[k].kind # "connect")
  BY <1>1 DEF AnswerTaken
<1>3. v.shown /\ v.loading => \E k \in Slots : call'[k].kind = "list" /\ call'[k].tab = t
  <2>1. SUFFICES ASSUME v.shown, view[t].loading, call[n].kind # "list"
                 PROVE  \E k \in Slots : call'[k].kind = "list" /\ call'[k].tab = t
    OBVIOUS
  <2>2. PICK k \in Slots : call[k].kind = "list" /\ call[k].tab = t
    BY <2>1 DEF AnswerFits, TabInv, LoadingIsAwaited
  <2>3. k # n /\ call[k] # NoCall
    BY <1>1, <2>1, <2>2
  <2> QED BY <1>2, <2>2, <2>3
<1>4. E \in SUBSET Slots /\ \A k \in Slots : k \in E <=> k = n
  OBVIOUS
<1> HIDE DEF E
<1>5. \A k \in Slots :
        \/ call'[k] = call[k] /\ k \notin E
        \/ /\ call[k] = NoCall \/ k \in E
           /\ CallOK(call'[k]) /\ call'[k].kind # "connect"
  BY <1>2, <1>4
<1>6. /\ \A k \in E : call[k].tab = t
      /\ \A k \in E : call[k].kind = "connect" /\ call[k].session \in open \ orphans' =>
           v.shown /\ v.session = call[k].session
      /\ \/ v.connecting = view[t].connecting /\ v.session \in {0, view[t].session}
         \/ \E k \in E : call[k].kind = "connect"
  BY <1>4 DEF AnswerFits
<1> QED BY <1>3, <1>4, <1>5, <1>6, TabGoesOn DEF AnswerFits, AnswerTaken

LEMMA WithoutCall ==
  ASSUME TabInv, NEW n \in Slots
  PROVE  Without(n) \in [Slots -> Calls]
  BY NoCallOK DEF Without, TabInv, CallOK

\* The tab t goes on as p, and perhaps waits for a listing.
WentOn(n, t, p) ==
  \E v :
    /\ ViewOK(v) /\ view' = [view EXCEPT ![t] = v]
    /\ v.shown = p.shown /\ v.connecting = p.connecting /\ v.session = p.session
    /\ v.path = p.path /\ v.from = p.from
    /\ AnswerTaken(n)
    /\ v.loading => \E k \in Slots : call'[k].kind = "list" /\ call'[k].tab = t

\* The answer leads to a listing that is pushed on the history.
LEMMA GoAfter ==
  ASSUME TabInv, NEW n \in Slots, NEW t \in TabIds, NEW p, ViewOK(p), p.session <= made,
         NEW d \in Dirs, Go(t, p, d, TRUE, Without(n))
  PROVE  WentOn(n, t, p)
<1> DEFINE push == TRUE  calls == Without(n)
<1>1. push \in BOOLEAN /\ Go(t, p, d, push, calls) /\ calls \in [Slots -> Calls]
  BY WithoutCall
<1> HIDE DEF push
<1>2. calls = Without(n)
  OBVIOUS
<1> HIDE DEF calls
<1> QED BY <1>1, <1>2, GoMoves DEF AnswerTaken, WentOn

LEMMA JustTaken ==
  ASSUME TabInv, NEW n \in Slots, call' = Without(n) PROVE AnswerTaken(n)
  BY WithoutCall DEF AnswerTaken

LEMMA ConnectAnsweredKeeps ==
  ASSUME TabInv, NEW n \in Slots, ConnectAnswered(n) PROVE TabInv'
<1>1. PICK t \in TabIds : t = call[n].tab
  BY CallFields DEF ConnectAnswered, Answered
<1> DEFINE s == call[n].session
           q == [view[t] EXCEPT !.connecting = FALSE, !.session = s]
           p == [q EXCEPT !.back = << >>, !.index = 0]
<1>2. /\ call[n].kind = "connect" /\ call[n].stage \in {"done", "refused"}
      /\ UNCHANGED <<open, made, crossed>> /\ s \in 0 .. LastSession /\ s <= made
      /\ call[n].stage = "refused" => s = 0
  BY CallFields DEF ConnectAnswered, Answered, CallOK
<1>3. /\ ViewOK(view[t]) /\ view[t].session <= made /\ view[t].session \in 0 .. LastSession
      /\ ConnectsOnce(t) /\ Without(n) \in [Slots -> Calls] /\ 0 \notin open
      /\ made \in 0 .. LastSession
      /\ view = [view EXCEPT ![t] = view[t]]
  BY ViewFields, WithoutCall DEF TabInv
<1>4. view[t].shown => view[t].session = 0
  BY <1>1, <1>2, <1>3 DEF ConnectsOnce, Connects
<1>5. t \notin crossed /\ view[t].shown => view[t].path = Nowhere
  BY <1>3, <1>4 DEF TabInv, PaneIsOfSession, ViewOK
<1>6. call' = Without(n) => AnswerTaken(n)
  BY JustTaken
<1>7. CASE /\ ~view[t].shown /\ call' = Without(n) /\ UNCHANGED view
           /\ orphans' = orphans \cup ({s} \ {0})
  <2> DEFINE v == view[t]
  <2>1. /\ ViewOK(v) /\ v.session <= made /\ view' = [view EXCEPT ![t] = v] /\ ~v.shown
    BY <1>3, <1>7
  <2>2. s \notin open \ orphans'
    BY <1>3, <1>7
  <2>3. ~view[t].shown /\ call' = Without(n) /\ orphans \subseteq orphans' /\ call[n].kind # "free"
    BY <1>2, <1>7
  <2> HIDE DEF v
  <2>4. AnswerFits(n, t, v)
    BY <1>2, <2>1, <2>2, <2>3 DEF AnswerFits
  <2> QED BY <1>1, <1>2, <1>6, <2>1, <2>3, <2>4, AnswerKeeps
<1>8. CASE /\ view[t].shown /\ call[n].stage = "refused" /\ call' = Without(n)
           /\ view' = [view EXCEPT ![t].connecting = FALSE, ![t].session = 0]
           /\ UNCHANGED orphans
  <2> DEFINE v == [view[t] EXCEPT !.connecting = FALSE, !.session = 0]
  <2>1. view' = [view EXCEPT ![t] = v]
    BY <1>8 DEF TabInv, Views
  <2>5. FALSE \in BOOLEAN /\ 0 \in 0 .. LastSession /\ ViewOK(view[t])
    BY <1>3, TabAssumption
  <2>2. InSession(v, view[t], FALSE, 0)
    BY <2>5, WithSession, ZenonT(30)
  <2>3. s = 0 /\ call[n].kind # "free" /\ 0 <= made
    BY <1>2, <1>3, <1>8, TabAssumption
  <2> HIDE DEF v
  <2>4. /\ ViewOK(v) /\ v.shown = view[t].shown /\ v.session = 0 /\ v.path = view[t].path
        /\ v.from = view[t].from /\ v.loading = view[t].loading
    BY <2>2 DEF InSession
  <2>6. AnswerFits(n, t, v)
    BY <1>2, <1>3, <1>4, <1>5, <1>8, <2>3, <2>4 DEF AnswerFits
  <2>7. v.session <= made /\ call[n].kind # "list" /\ orphans \subseteq orphans'
        /\ crossed \subseteq crossed' \cup {t}
    BY <1>2, <1>8, <2>3, <2>4
  <2> QED BY <1>1, <1>2, <1>6, <1>8, <2>1, <2>3, <2>4, <2>6, <2>7, AnswerKeeps
<1>9. CASE view[t].shown /\ call[n].stage = "done" /\ UNCHANGED orphans
  <2>11. FALSE \in BOOLEAN /\ s \in 0 .. LastSession /\ ViewOK(view[t])
    BY <1>2, <1>3
  <2>1. InSession(q, view[t], FALSE, s)
    BY <2>11, WithSession, ZenonT(30)
  <2> HIDE DEF q
  <2>2. ViewOK(q) /\ << >> \in Seq(Dirs) /\ Len(<< >>) = 0 /\ 0 \in 0 .. MaxBack
    BY <2>1, TabAssumption DEF InSession
  <2>3. 0 <= Len(<< >>) /\ Len(<< >>) <= MaxBack /\ ((0 = 0) <=> (<< >> = << >>))
    BY <2>2, TabAssumption
  <2>4. WithBack(p, q)
    BY <2>2, <2>3, WithHistory, ZenonT(30)
  <2>10. p = [view[t] EXCEPT !.connecting = FALSE, !.session = s, !.back = << >>, !.index = 0]
    BY DEF q
  <2> HIDE DEF p
  <2>5. /\ ViewOK(p) /\ p.shown = view[t].shown /\ p.session = s
        /\ p.path = view[t].path /\ p.from = view[t].from /\ p.loading = view[t].loading
    BY <2>1, <2>4 DEF InSession, WithBack
  <2>6. call[n].kind # "free" /\ call[n].kind # "list" /\ orphans \subseteq orphans'
        /\ crossed \subseteq crossed' \cup {t} /\ crossed' = crossed
        /\ p.session <= made
    BY <1>2, <1>9, <2>5
  <2>7. CASE \E d \in Dirs : Go(t, p, d, TRUE, Without(n))
    <3>1. PICK d \in Dirs : Go(t, p, d, TRUE, Without(n))
      BY <2>7
    <3>2. PICK v :
           /\ ViewOK(v) /\ view' = [view EXCEPT ![t] = v]
           /\ v.shown = p.shown /\ v.connecting = p.connecting /\ v.session = p.session
           /\ v.path = p.path /\ v.from = p.from
           /\ AnswerTaken(n)
           /\ v.loading => \E k \in Slots : call'[k].kind = "list" /\ call'[k].tab = t
      <4>1. WentOn(n, t, p)
        BY <2>5, <2>6, <3>1, GoAfter
      <4> QED BY <4>1 DEF WentOn
    <3>3. AnswerFits(n, t, v)
      BY <1>2, <1>3, <1>4, <1>5, <1>9, <2>5, <2>6, <3>2 DEF AnswerFits
    <3> QED BY <1>1, <1>2, <2>5, <2>6, <3>2, <3>3, AnswerKeeps
  <2>8. CASE view' = [view EXCEPT ![t] = p] /\ call' = [call EXCEPT ![n].kind = "local"]
    <3> DEFINE c == [call[n] EXCEPT !.kind = "local"]
    <3>1. c \in Calls /\ c.kind = "local" /\ c.session = s /\ c.tab = call[n].tab
      BY CallFields DEF Calls
    <3>2. call' = [call EXCEPT ![n] = c]
      BY <2>8
    <3> HIDE DEF c
    <3>3. CallOK(c)
      BY <1>1, <1>2, <3>1 DEF CallOK
    <3>4. AnswerTaken(n)
      <4>1. call \in [Slots -> Calls] /\ c.kind # "connect" /\ Without(n)[n] = NoCall
            /\ \A k \in Slots \ {n} : Without(n)[k] = call[k]
        BY <3>1 DEF TabInv, Without
      <4> QED BY <3>1, <3>2, <3>3, <4>1 DEF AnswerTaken
    <3>5. AnswerFits(n, t, p)
      BY <1>2, <1>3, <1>4, <1>5, <1>9, <2>5, <2>6 DEF AnswerFits
    <3> QED BY <1>1, <1>2, <2>5, <2>6, <2>8, <3>4, <3>5, AnswerKeeps
  <2>9. \/ \E d \in Dirs : Go(t, p, d, TRUE, Without(n))
        \/ view' = [view EXCEPT ![t] = p] /\ call' = [call EXCEPT ![n].kind = "local"]
    BY <1>1, <1>9, <2>10 DEF ConnectAnswered, Present
  <2> QED BY <2>7, <2>8, <2>9
<1> QED BY <1>1, <1>7, <1>8, <1>9 DEF ConnectAnswered, Present

LEMMA LocalAnsweredKeeps ==
  ASSUME TabInv, NEW n \in Slots, LocalAnswered(n) PROVE TabInv'
<1>1. PICK t \in TabIds : t = call[n].tab
  BY CallFields DEF LocalAnswered, Answered
<1> DEFINE p == view[t]
<1>2. /\ call[n].kind = "local" /\ UNCHANGED <<open, made, orphans, crossed>>
  BY DEF LocalAnswered, Answered
<1>3. /\ ViewOK(p) /\ p.session <= made /\ Without(n) \in [Slots -> Calls]
      /\ view = [view EXCEPT ![t] = p] /\ p = view[t]
      /\ (t \notin crossed /\ p.shown /\ p.path # Nowhere => p.from = p.session)
  BY ViewFields, WithoutCall DEF TabInv, PaneIsOfSession
<1>4. CASE p.shown
  <2>1. PICK d \in Dirs : Go(t, p, d, TRUE, Without(n))
    BY <1>1, <1>4 DEF LocalAnswered, Present
  <2>4. ViewOK(p) /\ p.session <= made
    BY <1>3
  <2> HIDE DEF p
  <2>2. PICK v :
           /\ ViewOK(v) /\ view' = [view EXCEPT ![t] = v]
           /\ v.shown = p.shown /\ v.connecting = p.connecting /\ v.session = p.session
           /\ v.path = p.path /\ v.from = p.from
           /\ AnswerTaken(n)
           /\ v.loading => \E k \in Slots : call'[k].kind = "list" /\ call'[k].tab = t
    <3>1. WentOn(n, t, p)
      BY <2>1, <2>4, GoAfter
    <3> QED BY <3>1 DEF WentOn
  <2>3. AnswerFits(n, t, v)
    BY <1>2, <1>3, <1>4, <2>2 DEF AnswerFits
  <2> QED BY <1>1, <1>2, <1>3, <2>2, <2>3, AnswerKeeps
<1>5. CASE ~p.shown
  <2>1. call' = Without(n) /\ UNCHANGED view
    BY <1>1, <1>5 DEF LocalAnswered, Present
  <2> HIDE DEF p
  <2>2. AnswerFits(n, t, p) /\ AnswerTaken(n) /\ view' = [view EXCEPT ![t] = p]
    BY <1>2, <1>3, <1>5, <2>1, JustTaken DEF AnswerFits
  <2> QED BY <1>1, <1>2, <1>3, <1>5, <2>2, AnswerKeeps
<1> QED BY <1>4, <1>5

LEMMA DisconnectAnsweredKeeps ==
  ASSUME TabInv, NEW n \in Slots, DisconnectAnswered(n) PROVE TabInv'
<1>1. PICK t \in TabIds : t = call[n].tab
  BY CallFields DEF DisconnectAnswered, Answered
<1>2. /\ call[n].kind = "disconnect" /\ UNCHANGED <<open, made>> /\ call' = Without(n)
      /\ call[n].session \notin open
  BY CallFields DEF DisconnectAnswered, Answered, CallOK
<1>3. /\ ViewOK(view[t]) /\ view[t].session <= made /\ view = [view EXCEPT ![t] = view[t]]
      /\ (t \notin crossed /\ view[t].shown /\ view[t].path # Nowhere =>
            view[t].from = view[t].session)
      /\ 0 <= made
  BY ViewFields, TabAssumption DEF TabInv, PaneIsOfSession
<1>4. CASE ~view[t].shown
  <2> DEFINE v == view[t]
  <2>1. ~Present(n) /\ ~v.shown
    BY <1>1, <1>4 DEF Present
  <2>2. UNCHANGED <<view, crossed, orphans>>
    BY <2>1 DEF DisconnectAnswered
  <2>3. view' = [view EXCEPT ![t] = v] /\ ViewOK(v) /\ v.session <= made /\ AnswerTaken(n)
    BY <1>2, <1>3, <2>2, JustTaken
  <2>4. AnswerFits(n, t, v)
    BY <1>2, <1>4 DEF AnswerFits
  <2> HIDE DEF v
  <2> QED BY <1>1, <1>2, <2>1, <2>2, <2>3, <2>4, AnswerKeeps
<1>5. CASE view[t].shown
  <2> DEFINE p == [view[t] EXCEPT !.session = 0, !.back = << >>, !.index = 0]
             q == [view[t] EXCEPT !.session = 0]
             v == Blank(p)
  <2>1. /\ view' = [view EXCEPT ![t] = v]
        /\ crossed' = crossed \ {t}
        /\ orphans' = orphans \cup ({view[t].session} \ {0, call[n].session})
    BY <1>1, <1>5 DEF DisconnectAnswered, Present, Newer
  <2>2. /\ ViewOK(q) /\ q.shown = view[t].shown /\ q.connecting = view[t].connecting
        /\ q.session = 0 /\ q.loading = view[t].loading
    BY <1>3, TabAssumption DEF ViewOK, Views
  <2>3. p = [q EXCEPT !.back = << >>, !.index = 0]
    OBVIOUS
  <2> HIDE DEF q
  <2>4. << >> \in Seq(Dirs) /\ Len(<< >>) = 0 /\ 0 \in 0 .. MaxBack
    BY TabAssumption
  <2>5. 0 <= Len(<< >>) /\ Len(<< >>) <= MaxBack /\ ((0 = 0) <=> (<< >> = << >>)) /\ ViewOK(q)
    BY <2>2, <2>4, TabAssumption
  <2>6. WithBack([q EXCEPT !.back = << >>, !.index = 0], q)
    BY <2>4, <2>5, WithHistory, ZenonT(30)
  <2> HIDE DEF p
  <2>7. WithBack(p, q) /\ v = [p EXCEPT !.path = Nowhere, !.from = 0]
    BY <2>3, <2>6 DEF Blank
  <2>8. ViewOK(p) /\ Nowhere \in Places /\ 0 \in 0 .. LastSession /\ (Nowhere # Nowhere => 0 # 0)
    BY <2>7, TabAssumption DEF WithBack, Places
  <2>9. InPlace([p EXCEPT !.path = Nowhere, !.from = 0], p, Nowhere, 0)
    BY <2>8, WithPath, ZenonT(30)
  <2> HIDE DEF v
  <2>10. InPlace(v, p, Nowhere, 0)
    BY <2>7, <2>9
  <2>11. /\ ViewOK(v) /\ v.shown = view[t].shown /\ v.connecting = view[t].connecting
         /\ v.session = 0 /\ v.path = Nowhere /\ v.loading = view[t].loading
    BY <2>2, <2>7, <2>10 DEF InPlace, WithBack
  <2>12. view[t].session \notin open \ orphans'
    <3>1. 0 \notin open
      BY TabAssumption DEF TabInv
    <3> QED BY <1>2, <2>1, <3>1
  <2>13. AnswerFits(n, t, v)
    BY <1>2, <1>5, <2>11, <2>12 DEF AnswerFits
  <2>14. /\ AnswerTaken(n) /\ v.session <= made /\ orphans \subseteq orphans'
         /\ crossed \subseteq crossed' \cup {t} /\ call[n].kind # "free" /\ call[n].kind # "list"
    BY <1>2, <1>3, <2>1, <2>11, JustTaken
  <2> QED BY <1>1, <1>2, <2>1, <2>11, <2>13, <2>14, AnswerKeeps
<1> QED BY <1>4, <1>5

LEMMA CloseAnsweredKeeps ==
  ASSUME TabInv, NEW n \in Slots, CloseAnswered(n) PROVE TabInv'
<1>1. PICK t \in TabIds : t = call[n].tab
  BY CallFields DEF CloseAnswered, Answered
<1> DEFINE v == [view[t] EXCEPT !.shown = FALSE]
<1>2. /\ call[n].kind = "close" /\ UNCHANGED <<open, made, crossed>> /\ call' = Without(n)
      /\ call[n].session \notin open /\ 0 \notin open
  BY CallFields, TabAssumption DEF CloseAnswered, Answered, CallOK, TabInv
<1>3. /\ view' = [view EXCEPT ![t] = v]
      /\ orphans' = IF view[t].shown
                    THEN orphans \cup ({view[t].session} \ {0, call[n].session}) ELSE orphans
  BY <1>1 DEF CloseAnswered, Present, Newer
<1>4. /\ ViewOK(v) /\ ~v.shown /\ v.connecting = view[t].connecting
      /\ v.session = view[t].session /\ v.session <= made
  BY ViewFields, WithoutShown
<1> HIDE DEF v
<1>5. AnswerFits(n, t, v) /\ AnswerTaken(n) /\ orphans \subseteq orphans'
  BY <1>2, <1>3, <1>4, JustTaken DEF AnswerFits
<1> QED BY <1>1, <1>2, <1>3, <1>4, <1>5, AnswerKeeps

LEMMA ListAnsweredKeeps ==
  ASSUME TabInv, NEW n \in Slots, ListAnswered(n) PROVE TabInv'
<1>1. PICK t \in TabIds : t = call[n].tab
  BY CallFields DEF ListAnswered, Answered
<1> DEFINE s == call[n].session  d == call[n].dir
<1>2. /\ call[n].kind = "list" /\ UNCHANGED <<open, made, orphans>> /\ call' = Without(n)
      /\ s # 0 /\ d \in Dirs /\ s \in 0 .. LastSession /\ call[n].push \in BOOLEAN
  BY CallFields DEF ListAnswered, Answered, CallOK, Calls
<1>3. /\ ViewOK(view[t]) /\ view[t].session <= made /\ view = [view EXCEPT ![t] = view[t]]
      /\ (t \notin crossed /\ view[t].shown /\ view[t].path # Nowhere =>
            view[t].from = view[t].session)
  BY ViewFields, TabAssumption DEF TabInv, PaneIsOfSession
<1>4. AnswerTaken(n)
  BY <1>2, JustTaken
<1>5. CASE ~view[t].shown /\ UNCHANGED <<view, crossed>>
  <2> DEFINE v == view[t]
  <2>1. AnswerFits(n, t, v) /\ view' = [view EXCEPT ![t] = v] /\ ViewOK(v) /\ v.session <= made
        /\ ~v.shown
    BY <1>2, <1>3, <1>5 DEF AnswerFits
  <2> HIDE DEF v
  <2> QED BY <1>1, <1>2, <1>4, <1>5, <2>1, AnswerKeeps
<1>6. CASE UNCHANGED crossed /\ view' = [view EXCEPT ![t].loading = FALSE]
  <2> DEFINE v == [view[t] EXCEPT !.loading = FALSE]
  <2>1. view' = [view EXCEPT ![t] = v]
    BY <1>6
  <2>2. /\ ViewOK(v) /\ v.shown = view[t].shown /\ v.connecting = view[t].connecting
        /\ v.session = view[t].session /\ v.path = view[t].path /\ v.from = view[t].from
        /\ v.loading = FALSE
    BY <1>3, WithLoading
  <2> HIDE DEF v
  <2>3. AnswerFits(n, t, v) /\ v.session <= made
    BY <1>2, <1>3, <1>6, <2>2 DEF AnswerFits
  <2> QED BY <1>1, <1>2, <1>4, <1>6, <2>1, <2>2, <2>3, AnswerKeeps
<1>7. CASE view[t].shown /\ view' = Shown(n) /\ crossed' = Crossed(n)
  <2> DEFINE push == call[n].push
             p == Visited(view[t], d, push)
             q == [p EXCEPT !.path = d, !.from = s]
             v == [q EXCEPT !.loading = FALSE]
  <2>1. view' = [view EXCEPT ![t] = v]
    BY <1>1, <1>7 DEF Shown
  <2>2. WithBack(p, view[t])
    <3>1. push \in BOOLEAN /\ d \in Dirs /\ ViewOK(view[t])
      BY <1>2, <1>3
    <3> HIDE DEF push, d
    <3> QED BY <3>1, VisitedOK, ZenonT(30)
  <2> HIDE DEF p
  <2>3. ViewOK(p) /\ d \in Places /\ (d # Nowhere => s # 0) /\ s \in 0 .. LastSession
    BY <1>2, <2>2 DEF WithBack, Places
  <2>4. InPlace(q, p, d, s)
    <3> HIDE DEF d, s
    <3> QED BY <2>3, WithPath, ZenonT(30)
  <2> HIDE DEF q
  <2>5. ViewOK(q)
    BY <2>4 DEF InPlace
  <2>6. /\ ViewOK(v) /\ v.shown = q.shown /\ v.connecting = q.connecting
        /\ v.session = q.session /\ v.path = q.path /\ v.from = q.from /\ v.loading = FALSE
    BY <2>5, WithLoading
  <2> HIDE DEF v
  <2>7. /\ v.shown = view[t].shown /\ v.connecting = view[t].connecting
        /\ v.session = view[t].session /\ v.from = s
    BY <2>2, <2>4, <2>6 DEF WithBack, InPlace
  <2>8. crossed' = IF s = view[t].session THEN crossed \ {t} ELSE crossed \cup {t}
    BY <1>1, <1>7 DEF Crossed
  <2>9. AnswerFits(n, t, v) /\ v.session <= made /\ crossed \subseteq crossed' \cup {t}
    BY <1>2, <1>3, <1>7, <2>7, <2>8 DEF AnswerFits
  <2> QED BY <1>1, <1>2, <1>4, <2>1, <2>6, <2>9, AnswerKeeps
<1> QED BY <1>1, <1>5, <1>6, <1>7 DEF ListAnswered, Present

LEMMA TabStep == ASSUME TabInv, [TabNext]_tabVars PROVE TabInv'
<1>1. CASE UNCHANGED tabVars
  BY <1>1 DEF tabVars, TabInv, ViewOK, CallOK, ConnectsOnce, Connects, SessionsAreHeld,
     PaneIsOfSession, LoadingIsAwaited
<1>2. CASE TabNext
  BY <1>2, ConnectSiteKeeps, DisconnectTabKeeps, CloseTabKeeps, NavigateKeeps, GoHistoryKeeps,
     ServeConnectKeeps, ServeListKeeps, ServeDisconnectKeeps, ConnectAnsweredKeeps,
     LocalAnsweredKeeps, ListAnsweredKeeps, DisconnectAnsweredKeeps, CloseAnsweredKeeps
  DEF TabNext
<1> QED BY <1>1, <1>2

\* The inductive invariant of the tabs.
THEOREM TabInvariant == TabSpec => []TabInv
<1> QED BY TabInitial, TabStep, PTL DEF TabSpec

\* Every open session has a tab that shows it, or an answer that brings it to
\* one, but for the two ways the model names, for any number of tabs and of
\* answers under way (actions.ts:130-146).
THEOREM SessionsAreHeldAlways == TabSpec => []SessionsAreHeld
<1>1. TabInv => SessionsAreHeld
  BY DEF TabInv
<1> QED BY <1>1, TabInvariant, PTL

\* What a pane shows is a directory of the session its tab has, but where an
\* answer came after a change of the session.
THEOREM PaneIsOfSessionAlways == TabSpec => []PaneIsOfSession
<1>1. TabInv => PaneIsOfSession
  BY DEF TabInv
<1> QED BY <1>1, TabInvariant, PTL

\* A pane that shows that it loads waits for an answer that is under way.
THEOREM LoadingIsAwaitedAlways == TabSpec => []LoadingIsAwaited
<1>1. TabInv => LoadingIsAwaited
  BY DEF TabInv
<1> QED BY <1>1, TabInvariant, PTL

LEMMA TabTypes == ASSUME TabInv PROVE TabTypeOK
<1>1. view \in [TabIds -> Views] /\ open \subseteq 1 .. made /\ made \in 0 .. LastSession
  BY DEF TabInv
<1>2. ASSUME NEW t \in TabIds
      PROVE  /\ view[t].index \in 0 .. Len(view[t].back)
             /\ (view[t].index = 0) = (view[t].back = << >>)
  <2>1. ViewOK(view[t])
    BY DEF TabInv
  <2>2. view[t].index \in Nat /\ view[t].back \in Seq(Dirs)
    BY <2>1, TabAssumption DEF ViewOK, Views
  <2>3. view[t].index \in 0 .. Len(view[t].back)
    BY <2>1, <2>2 DEF ViewOK
  <2> QED BY <2>1, <2>3 DEF ViewOK
<1> QED BY <1>1, <1>2 DEF TabTypeOK, Views

-----------------------------------------------------------------------------
(* The parts of the desk together                                          *)

PartsInv ==
  /\ FileInv /\ PromptInv /\ EditInv /\ SiteInv /\ RecentDistinct
  /\ ThrottleInv /\ SyncInv /\ DragInv /\ TabInv

LEMMA DeskInitial == ASSUME Init PROVE PartsInv
  BY FileInitial, PromptInitial, EditInitial, SiteInitial, RecentInitial,
     ThrottleInvInitial, SyncInitial, DragInitial, TabInitial DEF Init, PartsInv

LEMMA DeskStep == ASSUME PartsInv, [Next]_vars PROVE PartsInv'
<1>1. /\ [FileNext]_fileVars /\ [PromptNext]_promptVars /\ [EditNext]_editVars
      /\ [SiteNext]_siteVars /\ [RecentNext]_recentVars /\ [ThrottleNext]_throttleVars
      /\ [SyncNext]_syncVars /\ [DragNext]_dragVars /\ [TabNext]_tabVars
  BY DEF Next, vars
<1> QED BY <1>1, FileStep, PromptStep, EditStep, SiteStep, RecentStep, ThrottleInvStep,
    SyncStep, DragStep, TabStep DEF PartsInv

\* What is proved of each part holds of all of them together, so the types are
\* right whatever part a behaviour of the run is of.
THEOREM DeskTypeCorrect == Spec => []DeskTypeOK
<1>1. ASSUME PartsInv PROVE DeskTypeOK
  <2>1. TabTypeOK
    BY <1>1, TabTypes DEF PartsInv
  <2> QED BY <1>1, <2>1 DEF PartsInv, FileInv, PromptInv, EditInv, SiteInv, ThrottleInv,
      SyncInv, DragInv, DeskTypeOK
<1> QED BY <1>1, DeskInitial, DeskStep, PTL DEF Spec
=============================================================================
