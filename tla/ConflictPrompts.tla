---------------------------- MODULE ConflictPrompts ----------------------------
(***************************************************************************)
(* The prompts of transfers whose target exists (queue.rs, worker.rs).     *)
(* A worker takes the policy of its item, else the answer the user gave    *)
(* for all conflicts of the session, else the default, here Ask: it leaves *)
(* a sender under the id of its item and waits.  The dialogs of the user   *)
(* interface stay until they are answered, whatever became of the worker,  *)
(* and an answer travels to the queue while the queue goes on.             *)
(***************************************************************************)
EXTENDS Integers, FiniteSets

CONSTANTS Asking,       \* the ids of the transfers, each with a task of its own
          Tabs,         \* the sessions, whose ids are never used again
          Answers,      \* what the user can choose
          LastPrompt,   \* how often a transfer asks (bound)
          NoTab

ASSUME PromptAssumption == NoTab \notin Tabs /\ "ask" \notin Answers /\ LastPrompt \in Nat

VARIABLES
  tab,        \* the session of each listed transfer
  entry,      \* in the list: "gone", "pending" or "failed"
  own,        \* its own policy, "ask" for none: the interface never sends Ask
  worker,     \* its task: [pc, policy, ticket]; ticket numbers its prompts
  conflicts,  \* the ticket of the sender under its id, 0 for none
  inbox,      \* what the receiver of the current ticket holds
  dialogs,    \* the transfers a dialog is open for
  flying,     \* answers on their way from the interface: <<id, answer, all>>
  apply_all,  \* the answer for all of each session, "ask" for none
  idle_seen   \* the scheduler found nothing pending and will clear apply_all

promptVars == <<tab, entry, own, worker, conflicts, inbox, dialogs, flying,
                apply_all, idle_seen>>
userVars == <<dialogs, flying>>

NoAnswer == <<>>
NoWorker == [pc |-> "none", policy |-> "ask", ticket |-> 0]
Idle == \A i \in Asking : entry[i] # "pending"

PromptInit ==
  /\ tab = [i \in Asking |-> NoTab] /\ entry = [i \in Asking |-> "gone"]
  /\ own = [i \in Asking |-> "ask"] /\ worker = [i \in Asking |-> NoWorker]
  /\ conflicts = [i \in Asking |-> 0] /\ inbox = [i \in Asking |-> NoAnswer]
  /\ dialogs = {} /\ flying = {} /\ idle_seen = FALSE
  /\ apply_all = [s \in Tabs |-> "ask"]

-----------------------------------------------------------------------------
(* The list: ids are new, so one is used again only when nothing of it is  *)
(* left.                                                                   *)

AddTransfer(i, s, p) ==
  /\ entry[i] = "gone" /\ worker[i].pc = "none" /\ i \notin dialogs
  /\ \A f \in flying : f[1] # i
  /\ entry' = [entry EXCEPT ![i] = "pending"]
  /\ tab' = [tab EXCEPT ![i] = s] /\ own' = [own EXCEPT ![i] = p]
  /\ UNCHANGED <<worker, conflicts, inbox, userVars, apply_all, idle_seen>>

\* Nothing of a transfer is left but, perhaps, its dialog.
ForgetIds(S) ==
  /\ tab' = [i \in Asking |-> IF i \in S THEN NoTab ELSE tab[i]]
  /\ own' = [i \in Asking |-> IF i \in S THEN "ask" ELSE own[i]]

\* remove and clear: the senders go with the transfers.
Take(S) ==
  /\ S # {} /\ \A i \in S : entry[i] # "gone"
  /\ entry' = [i \in Asking |-> IF i \in S THEN "gone" ELSE entry[i]]
  /\ conflicts' = [i \in Asking |-> IF i \in S THEN 0 ELSE conflicts[i]]
  /\ ForgetIds({i \in S : worker[i].pc = "none"})
  /\ UNCHANGED <<worker, inbox, userVars, apply_all, idle_seen>>

Again(i) ==
  /\ entry[i] = "failed" /\ worker[i].pc = "none"
  /\ entry' = [entry EXCEPT ![i] = "pending"]
  /\ UNCHANGED <<tab, own, worker, conflicts, inbox, userVars, apply_all, idle_seen>>

-----------------------------------------------------------------------------
(* The worker                                                              *)

Run(i) ==
  /\ entry[i] = "pending" /\ worker[i].pc = "none"
  /\ ~idle_seen   \* the scheduler starts the workers
  /\ worker' = [worker EXCEPT ![i].pc = "planning"]
  /\ UNCHANGED <<tab, entry, own, conflicts, inbox, userVars, apply_all, idle_seen>>

\* effective_policy, where site and settings say Ask.
EffectivePolicy(i) == IF own[i] # "ask" THEN own[i] ELSE apply_all[tab[i]]

Decide(i) ==
  /\ worker[i].pc = "planning"
  /\ LET p == EffectivePolicy(i)
     IN  worker' = [worker EXCEPT ![i].policy = p,
                                  ![i].pc = IF p = "ask" THEN "asking" ELSE "writing"]
  /\ UNCHANGED <<tab, entry, own, conflicts, inbox, userVars, apply_all, idle_seen>>

\* Slip: a sender that is there already is kept.
OpenOnce(i) ==
  /\ worker[i].pc = "asking" /\ worker[i].ticket < LastPrompt
  /\ worker' = [worker EXCEPT ![i].pc = "waiting", ![i].ticket = @ + 1]
  /\ conflicts' = [conflicts EXCEPT ![i] = IF @ # 0 THEN @ ELSE worker[i].ticket + 1]
  /\ dialogs' = dialogs \cup {i}
  /\ UNCHANGED <<tab, entry, own, inbox, flying, apply_all, idle_seen>>

\* ask_conflict: its sender replaces what an earlier prompt left behind, its
\* dialog the one that is still open (store.ts, mergeDialog).
Open(i) ==
  /\ worker[i].pc = "asking" /\ worker[i].ticket < LastPrompt
  /\ worker' = [worker EXCEPT ![i].pc = "waiting", ![i].ticket = @ + 1]
  /\ conflicts' = [conflicts EXCEPT ![i] = worker[i].ticket + 1]
  /\ dialogs' = dialogs \cup {i}
  /\ UNCHANGED <<tab, entry, own, inbox, flying, apply_all, idle_seen>>

ReceiveAnswer(i) ==
  /\ worker[i].pc = "waiting" /\ inbox[i] # NoAnswer
  /\ worker' = [worker EXCEPT ![i].pc = "writing", ![i].policy = inbox[i][1]]
  /\ inbox' = [inbox EXCEPT ![i] = NoAnswer]
  /\ apply_all' = IF inbox[i][2] THEN [apply_all EXCEPT ![tab[i]] = inbox[i][1]]
                  ELSE apply_all
  /\ UNCHANGED <<tab, entry, own, conflicts, userVars, idle_seen>>

\* The end of the task: the transfer is finished, failed or waits for a retry,
\* unless it is no longer in the list.
Ends(i, to) ==
  /\ entry' = [entry EXCEPT ![i] = IF @ = "gone" THEN "gone" ELSE to]
  /\ worker' = [worker EXCEPT ![i] = [NoWorker EXCEPT !.ticket =
                             IF entry'[i] = "gone" THEN 0 ELSE worker[i].ticket]]
  /\ ForgetIds({i} \cap {j \in Asking : entry'[j] = "gone"})
  /\ UNCHANGED <<conflicts, userVars, apply_all, idle_seen>>

\* The time is over, which counts as a failure to retry; an answer that is
\* there wins.  The sender stays in `conflicts`.
GiveUp(i) ==
  /\ worker[i].pc = "waiting" /\ inbox[i] = NoAnswer
  /\ \E to \in {"pending", "failed"} : Ends(i, to)
  /\ UNCHANGED inbox

\* The sender was dropped: Cancelled, which is not retried.
SenderLost(i) ==
  /\ worker[i].pc = "waiting" /\ inbox[i] = NoAnswer
  /\ conflicts[i] # worker[i].ticket
  /\ Ends(i, "failed")
  /\ UNCHANGED inbox

WriteEnds(i) ==
  /\ worker[i].pc = "writing"
  /\ \E to \in {"gone", "pending", "failed"} : Ends(i, to)
  /\ UNCHANGED inbox

-----------------------------------------------------------------------------
(* The user                                                                *)

Click(i, a, all) ==
  /\ i \in dialogs
  /\ dialogs' = dialogs \ {i}
  /\ flying' = flying \cup {<<i, a, all>>}
  /\ UNCHANGED <<tab, entry, own, worker, conflicts, inbox, apply_all, idle_seen>>

\* answer_conflict: into the inbox of the waiting worker, or into nothing.
AnswerConflict(f) ==
  LET i == f[1]
      heard == conflicts[i] # 0 /\ conflicts[i] = worker[i].ticket
                 /\ worker[i].pc = "waiting"
  IN  /\ f \in flying /\ flying' = flying \ {f}
      /\ conflicts' = [conflicts EXCEPT ![i] = 0]
      /\ inbox' = IF heard THEN [inbox EXCEPT ![i] = <<f[2], f[3]>>] ELSE inbox
      /\ UNCHANGED <<tab, entry, own, worker, dialogs, apply_all, idle_seen>>

-----------------------------------------------------------------------------
(* The scheduler                                                           *)

\* Slip: only an empty list is idle.
SeeEmpty ==
  /\ ~idle_seen /\ \A i \in Asking : entry[i] = "gone"
  /\ \E s \in Tabs : apply_all[s] # "ask"
  /\ idle_seen' = TRUE
  /\ UNCHANGED <<tab, entry, own, worker, conflicts, inbox, userVars, apply_all>>

\* clear_apply_all_when_idle: under the lock of the items, then under another.
SeeIdle ==
  /\ ~idle_seen /\ Idle /\ \E s \in Tabs : apply_all[s] # "ask"
  /\ idle_seen' = TRUE
  /\ UNCHANGED <<tab, entry, own, worker, conflicts, inbox, userVars, apply_all>>

ClearApplyAll ==
  /\ idle_seen /\ idle_seen' = FALSE
  /\ apply_all' = [s \in Tabs |-> "ask"]
  /\ UNCHANGED <<tab, entry, own, worker, conflicts, inbox, userVars>>

WorkerGoesOn(i) ==
  Decide(i) \/ Open(i) \/ ReceiveAnswer(i) \/ GiveUp(i) \/ SenderLost(i) \/ WriteEnds(i)

PromptNext ==
  \/ \E i \in Asking, s \in Tabs, p \in Answers \cup {"ask"} : AddTransfer(i, s, p)
  \/ \E S \in SUBSET Asking : Take(S)
  \/ \E i \in Asking : Again(i) \/ Run(i) \/ WorkerGoesOn(i)
  \/ \E i \in Asking, a \in Answers, all \in BOOLEAN : Click(i, a, all)
  \/ \E f \in flying : AnswerConflict(f)
  \/ SeeIdle \/ ClearApplyAll

PromptSpec == PromptInit /\ [][PromptNext]_promptVars

\* The scheduler ticks, the calls of the interface arrive, and a worker waits
\* for the user ten minutes at most.
PromptFairness ==
  /\ WF_promptVars(SeeIdle) /\ WF_promptVars(ClearApplyAll)
  /\ \A i \in Asking : WF_promptVars(WorkerGoesOn(i))
-----------------------------------------------------------------------------
\* Types; an answer is in the inbox only while its worker waits for it.
PromptTypeOK ==
  /\ tab \in [Asking -> Tabs \cup {NoTab}]
  /\ entry \in [Asking -> {"gone", "pending", "failed"}]
  /\ own \in [Asking -> Answers \cup {"ask"}]
  /\ worker \in [Asking -> [pc : {"none", "planning", "asking", "waiting", "writing"},
                            policy : Answers \cup {"ask"},
                            ticket : 0..LastPrompt]]
  /\ conflicts \in [Asking -> 0..LastPrompt]
  /\ \A i \in Asking : inbox[i] # NoAnswer =>
       worker[i].pc = "waiting" /\ inbox[i] \in Answers \X BOOLEAN
  /\ dialogs \subseteq Asking /\ flying \subseteq Asking \X Answers \X BOOLEAN
  /\ apply_all \in [Tabs -> Answers \cup {"ask"}]
  /\ idle_seen \in BOOLEAN

\* A worker that waits can be answered, after any number of timeouts, late
\* answers and retries (queue.rs:519-527): its sender is the one under its id
\* and its dialog is open, or its answer is on the way.
PromptCanBeAnswered ==
  \A i \in Asking :
    worker[i].pc = "waiting" /\ inbox[i] = NoAnswer /\ entry[i] # "gone" =>
      /\ conflicts[i] = worker[i].ticket
      /\ i \in dialogs \/ \E f \in flying : f[1] = i

\* Once nothing is pending any more, an answer for all is forgotten, also one
\* that arrives while the scheduler is clearing them (queue.rs:593-598); failed
\* transfers that stay in the list do not keep it.
IdleForgets ==
  <>[]Idle => <>[](\A s \in Tabs : apply_all[s] = "ask")
=============================================================================
