------------------------------- MODULE SftpLogin -------------------------------
(***************************************************************************)
(* How an SFTP connection is made (sftp/process.rs, askpass.rs and the     *)
(* SessionPromptHandler of session.rs): OpenSSH runs as a subprocess and   *)
(* asks its questions through an askpass client, a named pipe and a dialog *)
(* of the user interface, each with a time limit of its own, while the     *)
(* handshake waits for the server.  What ssh does is external: it asks one *)
(* question at a time, it may exit at any time.                            *)
(***************************************************************************)
EXTENDS Integers, FiniteSets

CONSTANT LastAsk  \* how many questions ssh asks (bound)

ASSUME LoginAssumption == LastAsk \in Nat

MaxInteractive == 1  \* MAX_INTERACTIVE_PASSWORD_PROMPTS

Asks == 1 .. LastAsk

\* "secret" is a passphrase: a Secret whose text does not say "password".
Kinds == {"password", "secret", "hostkey", "confirm", "info"}

VARIABLES
  call,     \* the call of connect, then the connection it made
  ssh,      \* the subprocess
  pipe,     \* the askpass server: its loop, which a dropped server stops
  asked,    \* how many questions there were
  ask,      \* of each question: [kind, stage, reply]
  pending,  \* the questions the broker waits for, by prompt id
  mail,     \* what the interface answered to each, once: the oneshot channel
  password, \* what the prompt handler keeps
  uses,     \* password_uses
  prompts   \* interactive_prompts

loginVars == <<call, ssh, pipe, asked, ask, pending, mail, password, uses, prompts>>

LoginInit ==
  /\ call = "none" /\ ssh = "none" /\ pipe = "none"
  /\ asked = 0 /\ pending = {}
  /\ ask = [a \in Asks |-> [kind |-> "info", stage |-> "none", reply |-> "none"]]
  /\ mail = [a \in Asks |-> "empty"]
  /\ password \in {"none", "stored"}
  /\ uses = 0 /\ prompts = 0

InStage(a, stage) == ask[a].stage = stage

-----------------------------------------------------------------------------
(* ssh and the askpass client it starts                                    *)

\* ssh asks when its last question is settled, and starts an askpass client.
SshAsks(kind) ==
  /\ ssh = "running" /\ call = "connecting"
  /\ asked < LastAsk /\ \A a \in 1 .. asked : InStage(a, "over")
  /\ asked' = asked + 1
  /\ ask' = [ask EXCEPT ![asked + 1] =
               [kind |-> kind, stage |-> "opening", reply |-> "none"]]
  /\ UNCHANGED <<call, ssh, pipe, pending, mail, password, uses, prompts>>

\* All CLIENT_RETRIES attempts to open the pipe failed: no answer.
ClientGivesUp(a) ==
  /\ InStage(a, "opening") /\ pipe = "gone"
  /\ ask' = [ask EXCEPT ![a].stage = "over"]
  /\ UNCHANGED <<call, ssh, pipe, asked, pending, mail, password, uses, prompts>>

\* The client passes the reply on to ssh, if that is still there.  A refused
\* host key ends it.
ClientPrints(a) ==
  /\ InStage(a, "replied")
  /\ ask' = [ask EXCEPT ![a].stage = "over"]
  /\ ssh' = IF ask[a].kind = "hostkey" /\ ask[a].reply # "yes" THEN "exited" ELSE ssh
  /\ UNCHANGED <<call, pipe, asked, pending, mail, password, uses, prompts>>

\* The answer of the server to INIT.
SshConnects ==
  /\ ssh = "running" /\ call = "connecting"
  /\ \A a \in 1 .. asked : InStage(a, "over")
  /\ call' = "connected"
  /\ UNCHANGED <<ssh, pipe, asked, ask, pending, mail, password, uses, prompts>>

SshExits ==
  /\ ssh = "running"
  /\ ssh' = "exited"
  /\ UNCHANGED <<call, pipe, asked, ask, pending, mail, password, uses, prompts>>

-----------------------------------------------------------------------------
(* serve_prompt and on_prompt                                              *)

UsesStored(a) == ask[a].kind = "password" /\ password # "none" /\ uses = 0

Refuses(a) == ask[a].kind = "password" /\ ~UsesStored(a) /\ prompts >= MaxInteractive

Reply(a, text) == ask' = [ask EXCEPT ![a].stage = "replied", ![a].reply = text]

\* The pipe server accepts the client (also once more after it was told to
\* stop: its select has no order), and the handler answers by itself, or asks.
Serve(a) ==
  /\ InStage(a, "opening") /\ pipe # "gone"
  /\ \/ ask[a].kind = "info" /\ Reply(a, "ok")
        /\ UNCHANGED <<pending, uses, prompts>>
     \/ UsesStored(a) /\ Reply(a, password) /\ uses' = uses + 1
        /\ UNCHANGED <<pending, prompts>>
     \/ Refuses(a) /\ Reply(a, "cancel") /\ prompts' = prompts + 1
        /\ UNCHANGED <<pending, uses>>
     \/ /\ ask[a].kind # "info" /\ ~UsesStored(a) /\ ~Refuses(a)
        /\ prompts' = IF ask[a].kind = "password" THEN prompts + 1 ELSE prompts
        /\ ask' = [ask EXCEPT ![a].stage = "waiting"]
        /\ pending' = pending \cup {a}
        /\ UNCHANGED uses
  /\ UNCHANGED <<call, ssh, pipe, asked, mail, password>>

\* prompt_answer of the interface; the dialog may be long out of date.
Answer(a, text) ==
  /\ a \in pending
  /\ pending' = pending \ {a}
  /\ mail' = [mail EXCEPT ![a] = text]
  /\ UNCHANGED <<call, ssh, pipe, asked, ask, password, uses, prompts>>

\* Slip: whatever is not a no is a yes.
SettleTrusting(a, outcome) ==
  /\ Reply(a, IF ask[a].kind \in {"hostkey", "confirm"}
              THEN IF outcome = "no" THEN "no" ELSE "yes"
              ELSE outcome)
  /\ UNCHANGED <<call, ssh, pipe, asked, password, uses, prompts>>

\* What on_prompt makes of the outcome of ask, "cancel" being None.
Settle(a, outcome) ==
  /\ Reply(a, IF ask[a].kind \in {"hostkey", "confirm"}
              THEN IF outcome = "yes" THEN "yes" ELSE "no"
              ELSE outcome)
  /\ password' = IF ask[a].kind = "password" /\ outcome # "cancel"
                 THEN "typed" ELSE password
  /\ UNCHANGED <<call, ssh, pipe, asked, uses, prompts>>

Received(a) ==
  /\ InStage(a, "waiting") /\ mail[a] # "empty"
  /\ Settle(a, mail[a])
  /\ UNCHANGED <<pending, mail>>

\* PROMPT_TIMEOUT_SECS are over; an answer sent at that very moment is lost.
Elapsed(a) ==
  /\ InStage(a, "waiting")
  /\ pending' = pending \ {a}
  /\ mail' = [mail EXCEPT ![a] = IF @ = "empty" THEN "expired" ELSE @]
  /\ Settle(a, "cancel")

-----------------------------------------------------------------------------
(* connect                                                                 *)

\* The pipe is there before ssh is started.
Start ==
  /\ call = "none"
  /\ call' = "connecting" /\ pipe' = "listening" /\ ssh' = "running"
  /\ UNCHANGED <<asked, ask, pending, mail, password, uses, prompts>>

\* Dropping the AskpassServer tells the loop of the pipe to stop.
StopPipe == pipe' = IF pipe = "listening" THEN "stopping" ELSE pipe

\* Slip: ssh is only waited for.

ReapWaiting ==
  /\ call = "giving up"
  /\ call' = "failed"
  /\ UNCHANGED <<ssh, pipe, asked, ask, pending, mail, password, uses, prompts>>

\* INIT is not answered within INIT_TIMEOUT_SECS, or ssh has closed stdout.
\* on_close is dropped unused, and with it the AskpassServer.
HandshakeFails ==
  /\ call = "connecting"
  /\ call' = "giving up"
  /\ StopPipe
  /\ UNCHANGED <<ssh, asked, ask, pending, mail, password, uses, prompts>>

\* ssh is given EXIT_GRACE_SECS to exit by itself and is killed.
Reap ==
  /\ call = "giving up"
  /\ call' = "failed"
  /\ ssh' = "exited"
  /\ UNCHANGED <<pipe, asked, ask, pending, mail, password, uses, prompts>>

\* disconnect runs on_close.
CloseConnection ==
  /\ call = "connected"
  /\ call' = "closed"
  /\ ssh' = "exited"
  /\ StopPipe
  /\ UNCHANGED <<asked, ask, pending, mail, password, uses, prompts>>

PipeStops ==
  /\ pipe = "stopping"
  /\ pipe' = "gone"
  /\ UNCHANGED <<call, ssh, asked, ask, pending, mail, password, uses, prompts>>

Said == {"yes", "no", "typed", "cancel"}

LoginNext ==
  \/ \E kind \in Kinds : SshAsks(kind)
  \/ \E a \in Asks :
       \/ ClientGivesUp(a) \/ ClientPrints(a) \/ Serve(a)
       \/ Received(a) \/ Elapsed(a)
       \/ \E text \in Said : Answer(a, text)
  \/ Start \/ SshConnects \/ SshExits
  \/ HandshakeFails \/ Reap \/ CloseConnection \/ PipeStops

\* The timers fire, spawned tasks and the askpass client run.  Neither the
\* user nor the server ever has to do anything.
LoginFairness ==
  /\ \A a \in Asks : /\ WF_loginVars(ClientGivesUp(a)) /\ WF_loginVars(Serve(a))
                     /\ WF_loginVars(ClientPrints(a)) /\ WF_loginVars(Elapsed(a))
  /\ WF_loginVars(HandshakeFails) /\ WF_loginVars(Reap) /\ WF_loginVars(PipeStops)

LoginSpec == LoginInit /\ [][LoginNext]_loginVars /\ LoginFairness
-----------------------------------------------------------------------------
LoginTypeOK ==
  /\ call \in {"none", "connecting", "giving up", "connected", "failed", "closed"}
  /\ ssh \in {"none", "running", "exited"}
  /\ pipe \in {"none", "listening", "stopping", "gone"}
  /\ asked \in 0 .. LastAsk
  /\ ask \in [Asks -> [kind : Kinds,
                       stage : {"none", "opening", "waiting", "replied", "over"},
                       reply : Said \cup {"none", "ok", "stored"}]]
  /\ pending \subseteq {a \in Asks : InStage(a, "waiting")}
  /\ mail \in [Asks -> Said \cup {"empty", "expired"}]
  /\ password \in {"none", "stored", "typed"}
  /\ uses \in 0 .. 1 /\ prompts \in 0 .. LastAsk

\* Every attempt to connect ends, whatever ssh, the server and the user do: a
\* prompt nobody answers cannot hold it (INIT_TIMEOUT_SECS is shorter than
\* PROMPT_TIMEOUT_SECS).
ConnectReturns == call = "connecting" ~> call \in {"connected", "failed"}

\* An attempt that failed and a connection that was closed leave nothing: the
\* subprocess is gone, the pipe too, and no prompt waits for an answer.
NothingIsLeft ==
  call \in {"failed", "closed"} ~>
    ssh = "exited" /\ pipe = "gone" /\ pending = {}
      /\ \A a \in Asks : ask[a].stage \in {"none", "over"}

\* An attempt to connect ends, and when it failed, or its connection was
\* closed, nothing of it is left (client.rs:97, process.rs:205-228,
\* askpass.rs:114-120).
LoginEnds == ConnectReturns /\ NothingIsLeft

\* ssh is told "yes" about a host key only when the user said so to this very
\* question; a prompt that timed out, was cancelled or was answered late is
\* never taken for a yes.
YesIsTheUsers ==
  \A a \in Asks : ask[a].reply = "yes" => mail[a] = "yes"

=============================================================================
