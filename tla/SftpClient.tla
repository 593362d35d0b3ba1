----------------------------- MODULE SftpClient -----------------------------
(***************************************************************************)
(* The multiplexed connection of one SFTP session (Transport, write_loop   *)
(* and read_loop of protocol/sftp/client.rs), with one file being read and *)
(* another one being written over it (SftpReader, SftpWriter).             *)
(*                                                                         *)
(* A request is named by who sent it and a number: n >= 1 asks for the nth *)
(* chunk of the file, 0 closes the handle and stands for every other call  *)
(* that waits for its own answer.  The code numbers them from one counter. *)
(* The window of a user, its in_flight, holds taken + 1 .. sent.           *)
(***************************************************************************)
EXTENDS Integers, Sequences, FiniteSets

CONSTANTS
  Users,     \* who uses the connection: "reader", "writer" or both
  Size,      \* chunks of the files
  Partial,   \* BOOLEAN: the last chunk of the file read is not a full one
  Window,    \* MAX_IN_FLIGHT
  Capacity,  \* packets the channel to write_loop holds
  Pipe       \* requests, and answers, the pipes to the server hold

ASSUME SftpAssumption == /\ Users \subseteq {"reader", "writer"}
                         /\ Size \in Nat /\ Partial \in BOOLEAN
                         /\ Window \in Nat \ {0}
                         /\ Capacity \in Nat \ {0} /\ Pipe \in Nat \ {0}

VARIABLES
  alive,     \* Transport.alive
  link,      \* the ssh process and what it is connected to: "up" or "down"
  readLoop,  \* "running", "draining" after its loop, "ended"
  writeLoop, \* "running" or "ended", its channel closed with it
  channel,   \* the channel to write_loop
  server,    \* requests the server has
  replies,   \* answers on the way back
  answer,    \* the one-shot of each request; "waiting": it is in `pending`
  user,      \* the reader and the writer
  out,       \* chunks the reader gave its caller
  stored     \* chunks of the writer the server has written

vars == <<alive, link, readLoop, writeLoop, channel, server, replies, answer,
          user, out, stored>>

Last == Size + Window + 1
Requests == Users \X (0 .. Last)
Reply == {"ok", "short", "eof", "error"}
Answer == Reply \cup {"none", "waiting", "lost"}

\* pc: reading or writing, `finish` waiting for what is in flight, the call
\* that closes the handle, and the outcome.  step: how far Transport::send is
\* with the next request.
User == [pc : {"moving", "finishing", "closing", "done", "failed"},
         step : {"idle", "checked", "inserted", "sent"},
         sent : 0 .. Last, taken : 0 .. Last, eof : BOOLEAN, error : BOOLEAN,
         stopped : BOOLEAN]

TypeOK ==
  /\ alive \in BOOLEAN
  /\ link \in {"up", "down"}
  /\ readLoop \in {"running", "draining", "ended"}
  /\ writeLoop \in {"running", "ended"}
  /\ channel \in Seq(Requests)
  /\ server \subseteq Requests
  /\ replies \subseteq Requests \X Reply
  /\ answer \in [Requests -> Answer]
  /\ user \in [Users -> User]
  /\ out \in Seq(1 .. Last)
  /\ stored \subseteq 1 .. Last

Init ==
  /\ alive = TRUE /\ link = "up"
  /\ readLoop = "running" /\ writeLoop = "running"
  /\ channel = <<>> /\ server = {} /\ replies = {}
  /\ answer = [r \in Requests |-> "none"]
  /\ user = [u \in Users |-> [pc |-> "moving", step |-> "idle", sent |-> 0,
                              taken |-> 0, eof |-> FALSE, error |-> FALSE,
                              stopped |-> FALSE]]
  /\ out = <<>> /\ stored = {}

-----------------------------------------------------------------------------
(* Transport::send and call, as a user goes through them.                  *)

InFlight(u) == user[u].sent - user[u].taken
Request(u) == <<u, IF user[u].pc = "moving" THEN user[u].sent + 1 ELSE 0>>
Oldest(u) == <<u, user[u].taken + 1>>
Answered(r) == answer[r] \notin {"none", "waiting"}

\* fill_pipeline sends until the window is full or the end was seen; write
\* sends the next chunk once there is room; finish closes the handle.
Wants(u) ==
  /\ user[u].step = "idle"
  /\ \/ user[u].pc = "closing"
     \/ user[u].pc = "moving" /\ InFlight(u) < Window
        /\ IF u = "reader" THEN ~user[u].eof ELSE user[u].sent < Size

\* An error is returned; reader or writer are dropped with what is in flight.
Drop(u) == user' = [user EXCEPT ![u].pc = "failed"]

Link == <<alive, link, readLoop, writeLoop, server, replies>>

Check(u) ==
  /\ Wants(u)
  /\ IF alive THEN user' = [user EXCEPT ![u].step = "checked"] ELSE Drop(u)
  /\ UNCHANGED <<Link, channel, answer, out, stored>>

Insert(u) ==
  /\ user[u].step = "checked" /\ user[u].pc # "failed"
  /\ answer' = [answer EXCEPT ![Request(u)] = "waiting"]
  /\ user' = [user EXCEPT ![u].step = "inserted"]
  /\ UNCHANGED <<Link, channel, out, stored>>

Sent(w) == IF w.pc = "moving" THEN [w EXCEPT !.sent = @ + 1, !.step = "idle"]
                              ELSE [w EXCEPT !.step = "sent"]

Push(u) ==
  /\ user[u].step = "inserted" /\ user[u].pc # "failed"
  /\ IF writeLoop = "running"
     THEN /\ Len(channel) < Capacity
          /\ channel' = Append(channel, Request(u))
          /\ user' = [user EXCEPT ![u] = Sent(@)]
          /\ UNCHANGED answer
     ELSE /\ answer' = [answer EXCEPT ![Request(u)] = "lost"]
          /\ Drop(u)
          /\ UNCHANGED channel
  /\ UNCHANGED <<Link, out, stored>>

-----------------------------------------------------------------------------
(* SftpReader and SftpWriter.                                              *)

Rest == <<Link, channel, answer, stored>>

\* Slip: a one-shot that was closed counts as the end.
ReadTakeLost ==
  \E u \in Users \cap {"reader"} :
  /\ user[u].pc = "moving" /\ user[u].step = "idle"
  /\ InFlight(u) > 0 /\ (InFlight(u) = Window \/ user[u].eof)
  /\ Answered(Oldest(u))
  /\ LET a == answer[Oldest(u)] IN
     IF a = "error"
     THEN Drop(u) /\ UNCHANGED out
     ELSE /\ user' = [user EXCEPT ![u].taken = @ + 1,
                                  ![u].eof = @ \/ a \in {"short", "eof", "lost"}]
          /\ out' = IF a \in {"eof", "lost"} THEN out
                    ELSE Append(out, user[u].taken + 1)
  /\ UNCHANGED Rest

\* read: the oldest answer is awaited when nothing more may be sent.  Data
\* shorter than a chunk is taken for the end, and so is the status EOF; what
\* is still in flight is delivered after it.
ReadTake ==
  \E u \in Users \cap {"reader"} :
  /\ user[u].pc = "moving" /\ user[u].step = "idle"
  /\ InFlight(u) > 0 /\ (InFlight(u) = Window \/ user[u].eof)
  /\ Answered(Oldest(u))
  /\ LET a == answer[Oldest(u)] IN
     IF a \in {"error", "lost"}
     THEN Drop(u) /\ UNCHANGED out
     ELSE /\ user' = [user EXCEPT ![u].taken = @ + 1,
                                  ![u].eof = @ \/ a \in {"short", "eof"}]
          /\ out' = IF a = "eof" THEN out ELSE Append(out, user[u].taken + 1)
  /\ UNCHANGED Rest

\* write: with the window full, the oldest answer is awaited first.
WriteTake ==
  \E u \in Users \cap {"writer"} :
  /\ user[u].pc = "moving" /\ user[u].step = "idle"
  /\ InFlight(u) = Window /\ user[u].sent < Size
  /\ Answered(Oldest(u))
  /\ IF answer[Oldest(u)] = "ok"
     THEN user' = [user EXCEPT ![u].taken = @ + 1] ELSE Drop(u)
  /\ UNCHANGED <<Rest, out>>

\* The transfer is over, or told to stop; finish is called.
AtEnd(u) == IF u = "reader" THEN user[u].eof /\ InFlight(u) = 0
                            ELSE user[u].sent = Size

Finish(u) ==
  /\ user[u].pc = "moving" /\ user[u].step = "idle"
  /\ \E stop \in BOOLEAN :
       /\ stop \/ AtEnd(u)
       /\ user' = [user EXCEPT ![u].pc = "finishing", ![u].stopped = stop]
  /\ UNCHANGED <<Rest, out>>

\* Slip: finish drops the answers it waits for.
DrainBlindly(u) ==
  /\ user[u].pc = "finishing" /\ InFlight(u) > 0
  /\ Answered(Oldest(u))
  /\ user' = [user EXCEPT ![u].taken = @ + 1]
  /\ UNCHANGED <<Rest, out>>

\* finish: everything in flight is awaited; the writer remembers an error.
Drain(u) ==
  /\ user[u].pc = "finishing" /\ InFlight(u) > 0
  /\ Answered(Oldest(u))
  /\ user' = [user EXCEPT ![u].taken = @ + 1,
       ![u].error = @ \/ (u = "writer" /\ answer[Oldest(u)] # "ok")]
  /\ UNCHANGED <<Rest, out>>

Close(u) ==
  /\ user[u].pc = "finishing" /\ InFlight(u) = 0
  /\ user' = [user EXCEPT ![u].pc = "closing"]
  /\ UNCHANGED <<Rest, out>>

Closed(u) ==
  /\ user[u].pc = "closing" /\ user[u].step = "sent"
  /\ Answered(<<u, 0>>)
  /\ user' = [user EXCEPT ![u].pc =
                IF answer[<<u, 0>>] = "ok" /\ ~user[u].error
                THEN "done" ELSE "failed"]
  /\ UNCHANGED <<Rest, out>>

-----------------------------------------------------------------------------
(* The two loops, the server, and the end of the connection.               *)

Theirs == <<answer, user, out>>

WriteLoop ==
  /\ writeLoop = "running" /\ channel # <<>>
  /\ IF link = "up"
     THEN /\ Cardinality(server) < Pipe
          /\ server' = server \cup {Head(channel)}
          /\ channel' = Tail(channel)
          /\ UNCHANGED <<alive, writeLoop>>
     ELSE /\ writeLoop' = "ended" /\ channel' = <<>> /\ alive' = FALSE
          /\ UNCHANGED server
  /\ UNCHANGED <<Theirs, link, readLoop, replies, stored>>

\* The server answers the requests it has in any order, and may refuse any.
\* It reads short only at the end of the file.
Answers(r) ==
  {"error"} \cup
  IF r[1] = "writer" \/ r[2] = 0 \/ r[2] < Size THEN {"ok"}
  ELSE IF r[2] > Size THEN {"eof"}
  ELSE IF Partial THEN {"short"} ELSE {"ok"}

Serve(r) ==
  /\ link = "up" /\ r \in server /\ Cardinality(replies) < Pipe
  /\ server' = server \ {r}
  /\ \E a \in Answers(r) :
       /\ replies' = replies \cup {<<r, a>>}
       /\ stored' = IF r[1] = "writer" /\ r[2] # 0 /\ a = "ok"
                    THEN stored \cup {r[2]} ELSE stored
  /\ UNCHANGED <<Theirs, alive, link, readLoop, writeLoop, channel>>

\* read_loop takes the request out of `pending` and answers it; an answer to
\* nothing is logged.
ReadLoop(p) ==
  /\ readLoop = "running" /\ p \in replies
  /\ replies' = replies \ {p}
  /\ answer' = IF answer[p[1]] = "waiting"
               THEN [answer EXCEPT ![p[1]] = p[2]] ELSE answer
  /\ UNCHANGED <<user, out, alive, link, readLoop, writeLoop, channel, server,
                 stored>>

\* End of file, or a packet of an impossible length.
ReadLoopBreaks ==
  /\ readLoop = "running"
  /\ readLoop' = "draining" /\ alive' = FALSE
  /\ UNCHANGED <<Theirs, link, writeLoop, channel, server, replies, stored>>

\* Slip: nobody is told.
LeaveThem ==
  /\ readLoop = "draining"
  /\ readLoop' = "ended"
  /\ UNCHANGED <<Theirs, alive, link, writeLoop, channel, server, replies,
                 stored>>

\* Everybody in `pending` is told.
ReadLoopDrains ==
  /\ readLoop = "draining"
  /\ readLoop' = "ended"
  /\ answer' = [r \in Requests |-> IF answer[r] = "waiting" THEN "lost"
                                                            ELSE answer[r]]
  /\ UNCHANGED <<user, out, alive, link, writeLoop, channel, server, replies,
                 stored>>

\* The ssh process ends.
LinkBreaks ==
  /\ link = "up"
  /\ link' = "down" /\ server' = {}
  /\ UNCHANGED <<Theirs, alive, readLoop, writeLoop, channel, replies, stored>>

\* disconnect: sends are refused from now on, and the process is killed.  What
\* the server does in between could as well come before.
Disconnect ==
  /\ alive \/ link = "up"
  /\ alive' = FALSE
  /\ link' = "down" /\ server' = {}
  /\ UNCHANGED <<Theirs, readLoop, writeLoop, channel, replies, stored>>

UserStep(u) ==
  Check(u) \/ Insert(u) \/ Push(u) \/ Drain(u) \/ Close(u) \/ Closed(u)

Next ==
  \/ \E u \in Users : UserStep(u) \/ Finish(u)
  \/ ReadTake \/ WriteTake
  \/ WriteLoop
  \/ \E r \in server : Serve(r)
  \/ \E p \in replies : ReadLoop(p)
  \/ ReadLoopBreaks \/ ReadLoopDrains
  \/ LinkBreaks \/ Disconnect

Spec == Init /\ [][Next]_vars

\* The two loops are tasks of their own that nothing else holds up.  The
\* server answers what it is sent, or the connection breaks.
Fairness ==
  /\ WF_vars(WriteLoop)
  /\ WF_vars(\E p \in replies : ReadLoop(p))
  /\ WF_vars(link = "down" /\ ReadLoopBreaks)
  /\ WF_vars(ReadLoopDrains)
  /\ WF_vars(\E r \in server : Serve(r))
  /\ \A u \in Users : WF_vars(UserStep(u))

FairSpec == Spec /\ Fairness

-----------------------------------------------------------------------------
(* Properties.                                                             *)

\* What the reader gave its caller is a beginning of the file in order,
\* whatever order the answers came in; when it says that the file ends, or is
\* closed without having been stopped, it was the whole file.  A connection
\* that is lost is never taken for the end (client.rs:592).
ReadInOrder ==
  \A r \in Users \cap {"reader"} :
  LET u == user[r] IN
  /\ Len(out) <= Size
  /\ \A i \in DOMAIN out : out[i] = i
  /\ (u.pc = "moving" /\ AtEnd(r)) \/ (u.pc = "done" /\ ~u.stopped)
       => Len(out) = Size

\* A writer that closed without an error has every chunk it sent on the
\* server, and all of them unless it was stopped: none of the answers that
\* came while it sent, waited or finished was overlooked (client.rs:665).
WriteIsStored ==
  \A w \in Users \cap {"writer"} :
  LET u == user[w] IN
  u.pc = "done" => /\ 1 .. u.sent \subseteq stored
                   /\ u.stopped \/ u.sent = Size

\* A call that got into `pending` before the connection was given up is
\* answered or told that the connection is lost.  One that passes the check
\* of `alive` before and enters after is not (client.rs:42), hence the
\* second conjunct.
EarlyCallsReturn ==
  \A r \in Requests :
    answer[r] = "waiting" /\ readLoop # "ended" ~> answer[r] # "waiting"
=============================================================================
