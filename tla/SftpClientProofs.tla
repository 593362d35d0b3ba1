-------------------------- MODULE SftpClientProofs --------------------------
(***************************************************************************)
(* Proofs about SftpClient, for files of any size, any window, and pipes   *)
(* and a channel of any capacity.                                          *)
(***************************************************************************)
EXTENDS SftpClient, TLAPS

\* No answer, on its way or given, says what the server cannot have said, and
\* a write that is answered ok was carried out.
Honest ==
  /\ \A r \in Requests :
       answer[r] \in Answers(r) \cup {"none", "waiting", "lost"}
  /\ \A p \in replies : p[2] \in Answers(p[1])
  /\ \A n \in 1 .. Last :
       <<"writer", n>> \in Requests
       /\ (answer[<<"writer", n>>] = "ok" \/ <<<<"writer", n>>, "ok">> \in replies)
       => n \in stored

\* The window, and what a user on its way through send found.
WindowOK(u) ==
  LET w == user[u] IN
  /\ w.taken <= w.sent /\ w.sent - w.taken <= Window /\ w.sent < Last
  /\ u = "writer" => w.sent <= Size
  /\ w.pc = "moving" /\ w.step \in {"checked", "inserted"} =>
       /\ w.sent - w.taken < Window
       /\ u = "reader" => ~w.eof
       /\ u = "writer" => w.sent < Size
  /\ w.pc \in {"closing", "done"} => w.taken = w.sent

\* What is delivered follows what was taken, until the end is seen.
ReaderOK(u) ==
  LET w == user[u] IN
  u = "reader" =>
    /\ Len(out) <= Size
    /\ \A i \in 1 .. Len(out) : out[i] = i
    /\ w.pc = "moving" =>
         IF w.eof THEN Len(out) = Size /\ Size <= w.taken
                  ELSE Len(out) = w.taken
    /\ w.pc \in {"finishing", "closing", "done"} /\ ~w.stopped => Len(out) = Size

\* Every answer the writer took is an acknowledgement, or it knows better.
WriterOK(u) ==
  LET w == user[u] IN
  u = "writer" =>
    /\ w.pc # "failed" /\ ~w.error =>
         \A n \in 1 .. w.taken : answer[<<u, n>>] = "ok"
    /\ w.pc \in {"finishing", "closing", "done"} /\ ~w.stopped => w.sent = Size
    /\ w.pc = "done" => ~w.error

IInv == /\ TypeOK /\ Honest
        /\ \A u \in Users : WindowOK(u) /\ ReaderOK(u) /\ WriterOK(u)

-----------------------------------------------------------------------------
(* Initially.                                                              *)

LEMMA InitIInv == ASSUME Init PROVE IInv
<1>1. Last \in Nat /\ Size < Last
  BY SftpAssumption DEF Last
<1>2. TypeOK
  BY <1>1 DEF Init, TypeOK, User, Answer, Requests
<1>3. Honest
  BY DEF Init, Honest, Requests
<1>4. ASSUME NEW u \in Users PROVE WindowOK(u) /\ ReaderOK(u) /\ WriterOK(u)
  <2>1. /\ user[u].pc = "moving" /\ user[u].step = "idle"
        /\ user[u].sent = 0 /\ user[u].taken = 0
        /\ user[u].eof = FALSE /\ out = <<>>
    BY DEF Init
  <2> QED BY <1>1, <2>1, SftpAssumption DEF WindowOK, ReaderOK, WriterOK, Last
<1> QED BY <1>2, <1>3, <1>4 DEF IInv

-----------------------------------------------------------------------------
(* Every step keeps the types.                                             *)

LEMMA RequestTyped ==
  ASSUME TypeOK, NEW u \in Users, WindowOK(u)
  PROVE  /\ Request(u) \in Requests
         /\ Oldest(u) \in Requests
         /\ <<u, 0>> \in Requests
         /\ user[u].sent + 1 \in 0 .. Last
         /\ user[u].taken + 1 \in 1 .. Last
         /\ user[u].taken + 1 \in 0 .. Last
<1>1. Last \in Nat
  BY SftpAssumption DEF Last
<1>2. user[u].sent \in Nat /\ user[u].taken \in Nat
  BY <1>1 DEF TypeOK, User
<1>3. user[u].sent < Last /\ user[u].taken <= user[u].sent
  BY DEF WindowOK
<1> QED BY <1>1, <1>2, <1>3 DEF Request, Oldest, Requests

\* A user that changes in one place is a user.
LEMMA OneUpdate ==
  ASSUME user \in [Users -> User], NEW u \in Users,
         \/ \E p \in {"closing", "done", "failed"} :
              user' = [user EXCEPT ![u].pc = p]
         \/ \E q \in {"checked", "inserted"} :
              user' = [user EXCEPT ![u].step = q]
         \/ user[u].taken + 1 \in 0 .. Last
            /\ user' = [user EXCEPT ![u].taken = user[u].taken + 1]
         \/ Drop(u)
  PROVE  user' \in [Users -> User]
<1>1. ASSUME NEW p \in {"closing", "done", "failed"},
             user' = [user EXCEPT ![u].pc = p]
      PROVE  user' \in [Users -> User]
  BY <1>1 DEF User
<1>2. ASSUME NEW q \in {"checked", "inserted"},
             user' = [user EXCEPT ![u].step = q]
      PROVE  user' \in [Users -> User]
  BY <1>2 DEF User
<1>3. ASSUME user[u].taken + 1 \in 0 .. Last,
             user' = [user EXCEPT ![u].taken = user[u].taken + 1]
      PROVE  user' \in [Users -> User]
  BY <1>3 DEF User
<1> QED BY <1>1, <1>2, <1>3 DEF Drop

\* So is one that changes in two places.
LEMMA TwoFields ==
  ASSUME NEW w \in User, NEW t \in 0 .. Last, NEW e \in BOOLEAN
  PROVE  /\ [w EXCEPT !.taken = t, !.error = e] \in User
         /\ [w EXCEPT !.taken = t, !.eof = e] \in User
         /\ [w EXCEPT !.pc = "finishing", !.stopped = e] \in User
<1>1. [w EXCEPT !.taken = t, !.error = e] \in User
  BY DEF User
<1>2. [w EXCEPT !.taken = t, !.eof = e] \in User
  BY DEF User
<1>3. [w EXCEPT !.pc = "finishing", !.stopped = e] \in User
  BY DEF User
<1> QED BY <1>1, <1>2, <1>3

LEMMA TwoUpdates ==
  ASSUME user \in [Users -> User], NEW u \in Users,
         NEW t \in 0 .. Last, NEW e \in BOOLEAN,
         \/ user' = [user EXCEPT ![u].taken = t, ![u].error = e]
         \/ user' = [user EXCEPT ![u].taken = t, ![u].eof = e]
         \/ user' = [user EXCEPT ![u].pc = "finishing", ![u].stopped = e]
  PROVE  user' \in [Users -> User]
<1> DEFINE w1 == [user[u] EXCEPT !.taken = t, !.error = e]
           w2 == [user[u] EXCEPT !.taken = t, !.eof = e]
           w3 == [user[u] EXCEPT !.pc = "finishing", !.stopped = e]
<1>1. user[u] \in User
  OBVIOUS
<1>2. w1 \in User /\ w2 \in User /\ w3 \in User
  BY <1>1, TwoFields
<1>3. \/ user' = [user EXCEPT ![u] = w1]
      \/ user' = [user EXCEPT ![u] = w2]
      \/ user' = [user EXCEPT ![u] = w3]
  OBVIOUS
<1> HIDE DEF w1, w2, w3
<1> QED BY <1>2, <1>3

LEMMA StepTypeOK == ASSUME IInv, [Next]_vars PROVE TypeOK'
<1>1. TypeOK /\ Honest
  BY DEF IInv
<1>2. ASSUME NEW u \in Users, UserStep(u) \/ Finish(u) PROVE TypeOK'
  <2>1. WindowOK(u)
    BY DEF IInv
  <2>2. /\ Request(u) \in Requests /\ user[u].sent + 1 \in 0 .. Last
        /\ user[u].taken + 1 \in 0 .. Last
    BY <1>1, <2>1, RequestTyped
  <2>3. CASE Check(u)
    <3>1. CASE user' = [user EXCEPT ![u].step = "checked"]
      BY <1>1, <2>3, <3>1, OneUpdate DEF Check, TypeOK, Link
    <3>2. CASE Drop(u)
      BY <1>1, <2>3, <3>2, OneUpdate DEF Check, TypeOK, Link
    <3> QED BY <2>3, <3>1, <3>2 DEF Check
  <2>4. CASE Insert(u)
    <3>1. user' \in [Users -> User]
      BY <1>1, <2>4, OneUpdate DEF Insert, TypeOK
    <3>2. answer' \in [Requests -> Answer]
      BY <1>1, <2>2, <2>4 DEF Insert, TypeOK, Answer
    <3> QED BY <1>1, <2>4, <3>1, <3>2 DEF Insert, TypeOK, Link
  <2>5. CASE Push(u)
    <3>1. CASE writeLoop = "running"
      <4>1. Sent(user[u]) \in User
        BY <1>1, <2>2 DEF Sent, TypeOK, User
      <4>2. user' = [user EXCEPT ![u] = Sent(user[u])]
        BY <2>5, <3>1 DEF Push
      <4>3. user' \in [Users -> User]
        <5>1. user \in [Users -> User]
          BY <1>1 DEF TypeOK
        <5> QED BY <4>1, <4>2, <5>1
      <4>4. channel' \in Seq(Requests)
        <5>1. channel \in Seq(Requests) /\ channel' = Append(channel, Request(u))
          BY <1>1, <2>5, <3>1 DEF Push, TypeOK
        <5> QED BY <2>2, <5>1
      <4> QED BY <1>1, <2>5, <3>1, <4>3, <4>4 DEF Push, TypeOK, Link
    <3>2. CASE writeLoop # "running"
      <4>1. user' \in [Users -> User]
        BY <1>1, <2>5, <3>2, OneUpdate DEF Push, TypeOK
      <4>2. answer' \in [Requests -> Answer]
        BY <1>1, <2>2, <2>5, <3>2 DEF Push, TypeOK, Answer
      <4> QED BY <1>1, <2>5, <3>2, <4>1, <4>2 DEF Push, TypeOK, Link
    <3> QED BY <3>1, <3>2
  <2>6. CASE Drain(u)
    <3>1. PICK e \in BOOLEAN :
            user' = [user EXCEPT ![u].taken = user[u].taken + 1, ![u].error = e]
      BY <1>1, <2>6 DEF Drain, TypeOK, User
    <3>2. user' \in [Users -> User]
      <4>1. user \in [Users -> User]
        BY <1>1 DEF TypeOK
      <4> QED BY <2>2, <3>1, <4>1, TwoUpdates
    <3> QED BY <1>1, <2>6, <3>2 DEF Drain, TypeOK, Rest, Link
  <2>7. CASE Close(u)
    BY <1>1, <2>7, OneUpdate DEF Close, TypeOK, Rest, Link
  <2>8. CASE Closed(u)
    <3>1. PICK p \in {"done", "failed"} : user' = [user EXCEPT ![u].pc = p]
      BY <2>8 DEF Closed
    <3> QED BY <1>1, <2>8, <3>1, OneUpdate DEF Closed, TypeOK, Rest, Link
  <2>9. CASE Finish(u)
    <3>1. PICK stop \in BOOLEAN :
            user' = [user EXCEPT ![u].pc = "finishing", ![u].stopped = stop]
      BY <2>9 DEF Finish
    <3>2. user' \in [Users -> User]
      <4>1. user \in [Users -> User] /\ 0 \in 0 .. Last
        BY <1>1, SftpAssumption DEF TypeOK, Last
      <4> QED BY <3>1, <4>1, TwoUpdates
    <3> QED BY <1>1, <2>9, <3>2 DEF Finish, TypeOK, Rest, Link
  <2> QED BY <1>2, <2>3, <2>4, <2>5, <2>6, <2>7, <2>8, <2>9 DEF UserStep
<1>3. CASE ReadTake \/ WriteTake
  <2>1. ASSUME NEW u \in Users
        PROVE  user[u].taken + 1 \in 1 .. Last /\ user[u].taken + 1 \in 0 .. Last
    <3>1. WindowOK(u)
      BY DEF IInv
    <3> QED BY <1>1, <3>1, RequestTyped
  <2>2. CASE ReadTake
    <3>1. PICK u \in Users :
            /\ \/ Drop(u) /\ UNCHANGED out
               \/ /\ \E e \in BOOLEAN :
                       user' = [user EXCEPT ![u].taken = user[u].taken + 1,
                                            ![u].eof = e]
                  /\ out' \in {out, Append(out, user[u].taken + 1)}
            /\ UNCHANGED Rest
      BY <1>1, <2>2 DEF ReadTake, TypeOK, User
    <3>2. user' \in [Users -> User]
      <4>1. CASE Drop(u)
        BY <1>1, <4>1, OneUpdate DEF TypeOK
      <4>2. ASSUME NEW e \in BOOLEAN,
                   user' = [user EXCEPT ![u].taken = user[u].taken + 1,
                                        ![u].eof = e]
            PROVE  user' \in [Users -> User]
        <5>1. user \in [Users -> User] /\ user[u].taken + 1 \in 0 .. Last
          BY <1>1, <2>1 DEF TypeOK
        <5> QED BY <4>2, <5>1, TwoUpdates
      <4> QED BY <3>1, <4>1, <4>2
    <3>3. out' \in Seq(1 .. Last)
      <4>1. CASE out' = out
        BY <1>1, <4>1 DEF TypeOK
      <4>2. CASE out' = Append(out, user[u].taken + 1)
        <5>1. user[u].taken + 1 \in 1 .. Last
          BY <2>1
        <5> QED BY <1>1, <4>2, <5>1 DEF TypeOK
      <4> QED BY <3>1, <4>1, <4>2
    <3> QED BY <1>1, <3>1, <3>2, <3>3 DEF TypeOK, Rest, Link
  <2>3. CASE WriteTake
    <3>1. PICK u \in Users :
            \/ Drop(u)
            \/ user' = [user EXCEPT ![u].taken = user[u].taken + 1]
      BY <2>3 DEF WriteTake
    <3>2. user' \in [Users -> User]
      BY <1>1, <2>1, <3>1, OneUpdate DEF TypeOK
    <3> QED BY <1>1, <2>3, <3>2 DEF WriteTake, TypeOK, Rest, Link
  <2> QED BY <1>3, <2>2, <2>3
<1>4. CASE WriteLoop
  <2>1. /\ Head(channel) \in Requests
        /\ Tail(channel) \in Seq(Requests)
        /\ <<>> \in Seq(Requests)
    BY <1>1, <1>4 DEF WriteLoop, TypeOK
  <2>2. server' \subseteq Requests /\ channel' \in Seq(Requests)
        /\ alive' \in BOOLEAN /\ writeLoop' \in {"running", "ended"}
    <3>1. CASE link = "up"
      BY <1>1, <1>4, <2>1, <3>1 DEF WriteLoop, TypeOK
    <3>2. CASE link # "up"
      BY <1>1, <1>4, <2>1, <3>2 DEF WriteLoop, TypeOK
    <3> QED BY <3>1, <3>2
  <2> QED BY <1>1, <1>4, <2>2 DEF WriteLoop, TypeOK, Theirs
<1>5. ASSUME NEW r \in server, Serve(r) PROVE TypeOK'
  <2>1. r \in Requests /\ Answers(r) \subseteq Reply
    BY <1>1 DEF TypeOK, Answers, Reply
  <2>2. r[2] # 0 => r[2] \in 1 .. Last
    BY <2>1, SftpAssumption DEF Requests, Last
  <2>3. server' \subseteq Requests /\ stored' \subseteq 1 .. Last
        /\ replies' \subseteq Requests \X Reply
    <3>1. PICK a \in Answers(r) :
            /\ replies' = replies \cup {<<r, a>>}
            /\ \/ stored' = stored
               \/ r[2] # 0 /\ stored' = stored \cup {r[2]}
      BY <1>5 DEF Serve
    <3>2. /\ server' = server \ {r} /\ <<r, a>> \in Requests \X Reply
          /\ server \subseteq Requests /\ stored \subseteq 1 .. Last
          /\ replies \subseteq Requests \X Reply
      BY <1>1, <1>5, <2>1 DEF Serve, TypeOK
    <3> QED BY <2>2, <3>1, <3>2
  <2> QED BY <1>1, <1>5, <2>3 DEF Serve, TypeOK, Theirs
<1>6. ASSUME NEW p \in replies, ReadLoop(p) PROVE TypeOK'
  <2>1. p[1] \in Requests /\ p[2] \in Reply
    BY <1>1 DEF TypeOK
  <2> QED BY <1>1, <1>6, <2>1 DEF ReadLoop, TypeOK, Answer
<1>7. CASE ReadLoopBreaks
  BY <1>1, <1>7 DEF ReadLoopBreaks, TypeOK, Theirs
<1>8. CASE ReadLoopDrains
  BY <1>1, <1>8 DEF ReadLoopDrains, TypeOK, Answer
<1>9. CASE LinkBreaks \/ Disconnect
  BY <1>1, <1>9 DEF LinkBreaks, Disconnect, TypeOK, Theirs
<1>10. CASE UNCHANGED vars
  BY <1>1, <1>10 DEF TypeOK, vars
<1> QED BY <1>2, <1>3, <1>4, <1>5, <1>6, <1>7, <1>8, <1>9, <1>10 DEF Next

-----------------------------------------------------------------------------
(* Every step keeps the answers honest.                                    *)

LEMMA StepHonest == ASSUME IInv, [Next]_vars PROVE Honest'
<1>1. TypeOK /\ Honest
  BY DEF IInv
<1>2. ASSUME UNCHANGED <<answer, replies, stored>> PROVE Honest'
  BY <1>1, <1>2 DEF Honest
<1>3. ASSUME NEW q \in Requests, UNCHANGED <<replies, stored>>,
             \/ answer' = [answer EXCEPT ![q] = "waiting"]
             \/ answer' = [answer EXCEPT ![q] = "lost"]
      PROVE  Honest'
  BY <1>1, <1>3 DEF Honest, TypeOK
<1>4. ASSUME NEW u \in Users, UserStep(u) \/ Finish(u) PROVE Honest'
  <2>1. Request(u) \in Requests
    BY <1>1, RequestTyped DEF IInv
  <2>2. CASE Insert(u)
    BY <2>1, <2>2, <1>3 DEF Insert, Link
  <2>3. CASE Push(u)
    BY <2>1, <2>3, <1>2, <1>3 DEF Push, Link
  <2>4. CASE Check(u)
    BY <2>4, <1>2 DEF Check, Link
  <2>5. CASE Drain(u) \/ Close(u) \/ Closed(u) \/ Finish(u)
    BY <2>5, <1>2 DEF Drain, Close, Closed, Finish, Rest, Link
  <2> QED BY <1>4, <2>2, <2>3, <2>4, <2>5 DEF UserStep
<1>5. CASE ReadTake \/ WriteTake
  BY <1>5, <1>2 DEF ReadTake, WriteTake, Rest, Link
<1>6. CASE WriteLoop \/ ReadLoopBreaks
  BY <1>6, <1>2 DEF WriteLoop, ReadLoopBreaks, Theirs
<1>7. ASSUME NEW r \in server, Serve(r) PROVE Honest'
  <2>1. r \in Requests /\ answer' = answer
    BY <1>1, <1>7 DEF TypeOK, Serve, Theirs
  <2>2. PICK a \in Answers(r) :
          /\ replies' = replies \cup {<<r, a>>}
          /\ stored' = IF r[1] = "writer" /\ r[2] # 0 /\ a = "ok"
                       THEN stored \cup {r[2]} ELSE stored
    BY <1>7 DEF Serve
  <2>3. stored \subseteq stored'
    BY <2>2
  <2>4. \A p \in replies' : p[2] \in Answers(p[1])
    BY <1>1, <2>2 DEF Honest
  <2>5. ASSUME NEW n \in 1 .. Last, <<"writer", n>> \in Requests,
               \/ answer'[<<"writer", n>>] = "ok"
               \/ <<<<"writer", n>>, "ok">> \in replies'
        PROVE  n \in stored'
    <3>1. CASE <<<<"writer", n>>, "ok">> = <<r, a>>
      <4>1. n # 0
        BY SftpAssumption DEF Last
      <4> QED BY <2>2, <3>1, <4>1
    <3>2. CASE <<<<"writer", n>>, "ok">> # <<r, a>>
      BY <1>1, <2>1, <2>2, <2>3, <2>5, <3>2 DEF Honest
    <3> QED BY <3>1, <3>2
  <2> QED BY <1>1, <2>1, <2>4, <2>5 DEF Honest
<1>8. ASSUME NEW p \in replies, ReadLoop(p) PROVE Honest'
  <2>1. /\ p \in Requests \X Reply /\ p[2] \in Answers(p[1])
        /\ p = <<p[1], p[2]>> /\ p[1] \in Requests
    BY <1>1 DEF TypeOK, Honest
  <2>2. replies' \subseteq replies /\ stored' = stored
    BY <1>8 DEF ReadLoop
  <2>3. \A r \in Requests : answer'[r] = answer[r] \/ (r = p[1] /\ answer'[r] = p[2])
    BY <1>1, <1>8 DEF ReadLoop, TypeOK
  <2>4. \A r \in Requests :
          answer'[r] \in Answers(r) \cup {"none", "waiting", "lost"}
    BY <1>1, <2>1, <2>3 DEF Honest
  <2>5. ASSUME NEW n \in 1 .. Last, <<"writer", n>> \in Requests,
               \/ answer'[<<"writer", n>>] = "ok"
               \/ <<<<"writer", n>>, "ok">> \in replies'
        PROVE  n \in stored'
    BY <1>1, <2>1, <2>2, <2>3, <2>5 DEF Honest
  <2> QED BY <1>1, <2>2, <2>4, <2>5 DEF Honest
<1>9. CASE ReadLoopDrains
  BY <1>1, <1>9 DEF ReadLoopDrains, Honest, TypeOK
<1>10. CASE LinkBreaks \/ Disconnect
  BY <1>10, <1>2 DEF LinkBreaks, Disconnect, Theirs
<1>11. CASE UNCHANGED vars
  BY <1>11, <1>2 DEF vars
<1> QED BY <1>4, <1>5, <1>6, <1>7, <1>8, <1>9, <1>10, <1>11 DEF Next

-----------------------------------------------------------------------------
(* Every step keeps the windows, what the reader gave out, and what the    *)
(* writer knows.                                                           *)

UserOK(u) == WindowOK(u) /\ ReaderOK(u) /\ WriterOK(u)

\* A user that a step leaves where it is, with the answers it took.
LEMMA Untouched ==
  ASSUME IInv, NEW u \in Users,
         user'[u] = user[u],
         u = "reader" => out' = out,
         \A n \in 1 .. user[u].taken :
           answer[<<u, n>>] = "ok" => answer'[<<u, n>>] = "ok"
  PROVE  UserOK(u)'
<1>1. UserOK(u)
  BY DEF IInv, UserOK
<1> QED BY <1>1 DEF UserOK, WindowOK, ReaderOK, WriterOK

\* An error ends a user.
LEMMA Dropped ==
  ASSUME IInv, NEW u \in Users, Drop(u), UNCHANGED out
  PROVE  UserOK(u)'
<1>1. UserOK(u) /\ user \in [Users -> User]
  BY DEF IInv, UserOK, TypeOK
<1>2. /\ user'[u].pc = "failed"
      /\ user'[u].taken = user[u].taken /\ user'[u].sent = user[u].sent
  BY <1>1 DEF Drop, User
<1> QED BY <1>1, <1>2 DEF UserOK, WindowOK, ReaderOK, WriterOK

LEMMA SendOK ==
  ASSUME IInv, TypeOK', NEW u \in Users, Check(u) \/ Insert(u) \/ Push(u)
  PROVE  UserOK(u)'
<1>1. /\ UserOK(u) /\ user \in [Users -> User] /\ answer \in [Requests -> Answer]
      /\ user[u] \in User /\ Last \in Nat
      /\ Last = Size + Window + 1 /\ Size \in Nat /\ Window \in Nat
  BY SftpAssumption DEF IInv, UserOK, TypeOK, Last
<1>2. /\ user[u].sent \in Int /\ user[u].taken \in Int
  BY <1>1 DEF User
<1>3. CASE Check(u)
  <2>1. CASE Drop(u)
    BY <1>3, <2>1, Dropped DEF Check
  <2>2. CASE user' = [user EXCEPT ![u].step = "checked"]
    <3>1. user'[u] = [user[u] EXCEPT !.step = "checked"]
      BY <1>1, <2>2
    <3>2. out' = out /\ answer' = answer /\ Wants(u)
      BY <1>3 DEF Check
    <3> QED BY <1>1, <1>2, <3>1, <3>2
            DEF UserOK, WindowOK, ReaderOK, WriterOK, Wants, InFlight, User
  <2> QED BY <1>3, <2>1, <2>2 DEF Check
<1>4. CASE Insert(u)
  <2>1. user'[u] = [user[u] EXCEPT !.step = "inserted"]
    BY <1>1, <1>4 DEF Insert
  <2>2. out' = out /\ user[u].step = "checked"
    BY <1>4 DEF Insert
  <2>3. \A n \in 1 .. user[u].taken :
          answer[<<u, n>>] = "ok" => answer'[<<u, n>>] = "ok"
    BY <1>1, <1>2, <1>4 DEF Insert, Request, UserOK, WindowOK
  <2> QED BY <1>1, <1>2, <2>1, <2>2, <2>3
          DEF UserOK, WindowOK, ReaderOK, WriterOK, User
<1>5. CASE Push(u)
  <2>1. CASE writeLoop # "running"
    BY <1>5, <2>1, Dropped DEF Push
  <2>2. CASE writeLoop = "running"
    <3>1. /\ user'[u] = Sent(user[u]) /\ out' = out /\ answer' = answer
          /\ user[u].step = "inserted"
      BY <1>1, <1>5, <2>2 DEF Push
    <3>2. CASE user[u].pc = "moving"
      <4>1. user'[u] = [user[u] EXCEPT !.sent = user[u].sent + 1, !.step = "idle"]
        BY <3>1, <3>2 DEF Sent
      <4>2. user[u].taken <= Size
        <5>1. CASE u = "reader"
          BY <1>1, <3>1, <3>2, <5>1 DEF UserOK, WindowOK, ReaderOK
        <5>2. CASE u = "writer"
          BY <1>1, <1>2, <3>1, <3>2, <5>2 DEF UserOK, WindowOK
        <5> QED BY <5>1, <5>2, SftpAssumption
      <4> QED BY <1>1, <1>2, <3>1, <3>2, <4>1, <4>2
              DEF UserOK, WindowOK, ReaderOK, WriterOK, User
    <3>3. CASE user[u].pc # "moving"
      <4>1. user'[u] = [user[u] EXCEPT !.step = "sent"]
        BY <3>1, <3>3 DEF Sent
      <4> QED BY <1>1, <1>2, <3>1, <3>3, <4>1
              DEF UserOK, WindowOK, ReaderOK, WriterOK, User
    <3> QED BY <3>2, <3>3
  <2> QED BY <2>1, <2>2
<1> QED BY <1>3, <1>4, <1>5

LEMMA FinishOK ==
  ASSUME IInv, NEW u \in Users, Finish(u) \/ Drain(u) \/ Close(u) \/ Closed(u)
  PROVE  UserOK(u)'
<1>1. /\ UserOK(u) /\ user \in [Users -> User] /\ answer \in [Requests -> Answer]
      /\ user[u] \in User /\ Honest
  BY DEF IInv, UserOK, TypeOK
<1>2. /\ user[u].sent \in Int /\ user[u].taken \in Int
      /\ user[u].sent \in Nat /\ user[u].taken \in Nat
  BY <1>1, SftpAssumption DEF User, Last
<1>3. out' = out /\ answer' = answer
  BY DEF Finish, Drain, Close, Closed, Rest
<1>4. CASE Finish(u)
  <2>1. PICK stop \in BOOLEAN :
          /\ stop \/ AtEnd(u)
          /\ user'[u] = [user[u] EXCEPT !.pc = "finishing", !.stopped = stop]
    BY <1>1, <1>4 DEF Finish
  <2>2. user[u].pc = "moving"
    BY <1>4 DEF Finish
  <2> QED BY <1>1, <1>2, <1>3, <2>1, <2>2
          DEF UserOK, WindowOK, ReaderOK, WriterOK, User, AtEnd, InFlight
<1>5. CASE Drain(u)
  <2>1. user'[u] = [user[u] EXCEPT !.taken = user[u].taken + 1,
          !.error = user[u].error \/ (u = "writer" /\ answer[Oldest(u)] # "ok")]
    BY <1>1, <1>5 DEF Drain
  <2>2. user[u].pc = "finishing" /\ user[u].sent - user[u].taken > 0
    BY <1>5 DEF Drain, InFlight
  <2>3. WindowOK(u)'
    <3>1. /\ user'[u].taken = user[u].taken + 1 /\ user'[u].pc = "finishing"
          /\ user'[u].sent = user[u].sent
      BY <1>1, <2>1, <2>2 DEF User
    <3> QED BY <1>1, <1>2, <2>2, <3>1, SftpAssumption DEF UserOK, WindowOK, Last
  <2>4. ReaderOK(u)'
    BY <1>1, <1>2, <1>3, <2>1, <2>2 DEF UserOK, ReaderOK, User
  <2>5. ASSUME u = "writer", user'[u].error = FALSE
        PROVE  \A n \in 1 .. user'[u].taken : answer[<<u, n>>] = "ok"
    <3>1. user[u].error = FALSE /\ answer[Oldest(u)] = "ok"
      BY <1>1, <2>1, <2>5 DEF User
    <3>2. \A n \in 1 .. user[u].taken : answer[<<u, n>>] = "ok"
      BY <1>1, <2>2, <2>5, <3>1 DEF UserOK, WriterOK
    <3>3. user'[u].taken = user[u].taken + 1
      BY <1>1, <2>1 DEF User
    <3> QED BY <1>2, <3>1, <3>2, <3>3 DEF Oldest
  <2>6. /\ user'[u].pc = "finishing" /\ user'[u].stopped = user[u].stopped
        /\ user'[u].sent = user[u].sent /\ user'[u].error \in BOOLEAN
    BY <1>1, <2>1, <2>2 DEF User
  <2>7. WriterOK(u)'
    BY <1>1, <1>3, <2>2, <2>5, <2>6 DEF UserOK, WriterOK
  <2> QED BY <2>3, <2>4, <2>7 DEF UserOK
<1>6. CASE Close(u)
  <2>1. user'[u] = [user[u] EXCEPT !.pc = "closing"]
    BY <1>1, <1>6 DEF Close
  <2>2. user[u].pc = "finishing" /\ user[u].sent - user[u].taken = 0
    BY <1>6 DEF Close, InFlight
  <2> QED BY <1>1, <1>2, <1>3, <2>1, <2>2
          DEF UserOK, WindowOK, ReaderOK, WriterOK, User
<1>7. CASE Closed(u)
  <2>1. PICK p \in {"done", "failed"} :
          /\ user'[u] = [user[u] EXCEPT !.pc = p]
          /\ p = "done" => ~user[u].error
    BY <1>1, <1>7 DEF Closed
  <2>2. user[u].pc = "closing"
    BY <1>7 DEF Closed
  <2> QED BY <1>1, <1>2, <1>3, <2>1, <2>2
          DEF UserOK, WindowOK, ReaderOK, WriterOK, User
<1> QED BY <1>4, <1>5, <1>6, <1>7

LEMMA ReadTakeOK ==
  ASSUME IInv, TypeOK', ReadTake
  PROVE  \A u \in Users : UserOK(u)'
<1>1. /\ user \in [Users -> User] /\ answer \in [Requests -> Answer]
      /\ Honest /\ out \in Seq(1 .. Last) /\ Size \in Nat /\ Len(out) \in Nat
      /\ \A u \in Users : UserOK(u) /\ user[u] \in User
  BY SftpAssumption DEF IInv, UserOK, TypeOK
<1>2. answer' = answer
  BY DEF ReadTake, Rest
<1>3. PICK r \in Users \cap {"reader"} :
        /\ user[r].pc = "moving" /\ user[r].step = "idle"
        /\ Answered(Oldest(r)) /\ InFlight(r) > 0
        /\ IF answer[Oldest(r)] \in {"error", "lost"}
           THEN Drop(r) /\ UNCHANGED out
           ELSE /\ user' = [user EXCEPT ![r].taken = @ + 1,
                    ![r].eof = @ \/ answer[Oldest(r)] \in {"short", "eof"}]
                /\ out' = IF answer[Oldest(r)] = "eof" THEN out
                          ELSE Append(out, user[r].taken + 1)
  BY DEF ReadTake
<1>4. ASSUME NEW u \in Users, u # r PROVE UserOK(u)'
  <2>1. user'[u] = user[u] /\ u # "reader"
    BY <1>1, <1>3, <1>4 DEF Drop
  <2> QED BY <1>2, <2>1, Untouched
<1>5. CASE answer[Oldest(r)] \in {"error", "lost"}
  BY <1>3, <1>4, <1>5, Dropped
<1>6. CASE answer[Oldest(r)] \notin {"error", "lost"}
  <2> DEFINE n == user[r].taken + 1
             a == answer[Oldest(r)]
  <2>1. /\ user[r].sent \in Int /\ user[r].taken \in Int /\ n \in Nat
        /\ n \in 1 .. Last
    <3>1. /\ user[r] \in User /\ WindowOK(r) /\ TypeOK /\ Last \in Nat
          /\ r \in Users
      BY <1>1, <1>3, SftpAssumption DEF UserOK, IInv, Last
    <3>2. user[r].sent \in 0 .. Last /\ user[r].taken \in 0 .. Last
      BY <3>1 DEF User
    <3>3. n \in 1 .. Last
      BY <3>1, RequestTyped
    <3> QED BY <3>1, <3>2, <3>3
  <2>0. /\ user[r].pc = "moving" /\ r \in Users /\ r = "reader"
        /\ user[r].sent - user[r].taken > 0 /\ user[r].step = "idle"
    BY <1>1, <1>3 DEF InFlight, User
  <2>2. /\ Oldest(r) \in Requests /\ Oldest(r) = <<"reader", n>>
        /\ WindowOK(r) /\ ReaderOK(r)
    BY <1>1, RequestTyped DEF Oldest, UserOK, IInv
  <2>3. a \in Answers(<<"reader", n>>) /\ a # "error"
    BY <1>1, <1>3, <1>6, <2>2 DEF Honest, Answered
  <2>4. /\ a \in {"ok", "short"} => n <= Size
        /\ a = "short" => n = Size
        /\ a = "eof" => n > Size
        /\ a \in {"ok", "short", "eof"}
    BY <1>1, <2>1, <2>3 DEF Answers
  <2>5. user'[r] = [user[r] EXCEPT !.taken = n,
                                   !.eof = user[r].eof \/ a \in {"short", "eof"}]
    BY <1>1, <1>3, <1>6
  <2>6. /\ user'[r].taken = n /\ user'[r].sent = user[r].sent
        /\ user'[r].pc = "moving" /\ user'[r].step = user[r].step
        /\ user'[r].eof = (user[r].eof \/ a \in {"short", "eof"})
    BY <1>1, <1>3, <2>5 DEF User
  <2>7. WindowOK(r)'
    BY <2>0, <2>1, <2>2, <2>6, SftpAssumption DEF WindowOK, Last
  <2>8. ReaderOK(r)'
    <3>1. CASE a = "eof"
      <4>1. out' = out
        BY <1>3, <1>6, <3>1
      <4>2. user'[r].eof
        BY <2>6, <3>1
      <4>3. Len(out) = Size /\ Size <= n
        BY <1>1, <2>0, <2>1, <2>2, <2>4, <3>1 DEF ReaderOK
      <4> QED BY <2>0, <2>2, <2>6, <4>1, <4>2, <4>3 DEF ReaderOK
    <3>2. CASE a # "eof"
      <4>1. out' = Append(out, n)
        BY <1>3, <1>6, <3>2
      <4>2. /\ Len(out') = Len(out) + 1 /\ out'[Len(out) + 1] = n
            /\ \A i \in 1 .. Len(out) : out'[i] = out[i]
        BY <1>1, <2>1, <4>1
      <4>3. ~user[r].eof /\ Len(out) = user[r].taken
        BY <1>1, <2>0, <2>1, <2>2, <2>4, <3>2 DEF ReaderOK
      <4>4. \A i \in 1 .. Len(out') : out'[i] = i
        BY <1>1, <2>0, <2>2, <4>2, <4>3 DEF ReaderOK
      <4> QED BY <1>1, <2>0, <2>1, <2>4, <2>6, <3>2, <4>2, <4>3, <4>4 DEF ReaderOK
    <3> QED BY <3>1, <3>2
  <2>9. WriterOK(r)'
    BY <1>3 DEF WriterOK
  <2> QED BY <1>3, <1>4, <2>7, <2>8, <2>9 DEF UserOK
<1> QED BY <1>5, <1>6

LEMMA WriteTakeOK ==
  ASSUME IInv, WriteTake
  PROVE  \A u \in Users : UserOK(u)'
<1>1. /\ user \in [Users -> User] /\ answer' = answer /\ out' = out
      /\ \A u \in Users : UserOK(u) /\ user[u] \in User
  BY DEF IInv, UserOK, TypeOK, WriteTake, Rest
<1>2. PICK w \in Users \cap {"writer"} :
        /\ user[w].pc = "moving" /\ user[w].step = "idle"
        /\ InFlight(w) = Window
        /\ IF answer[Oldest(w)] = "ok"
           THEN user' = [user EXCEPT ![w].taken = @ + 1] ELSE Drop(w)
  BY DEF WriteTake
<1>3. ASSUME NEW u \in Users, u # w PROVE UserOK(u)'
  <2>1. user'[u] = user[u]
    BY <1>1, <1>2, <1>3 DEF Drop
  <2> QED BY <1>1, <2>1, Untouched
<1>4. CASE answer[Oldest(w)] # "ok"
  BY <1>1, <1>2, <1>3, <1>4, Dropped
<1>5. CASE answer[Oldest(w)] = "ok"
  <2>1. user'[w] = [user[w] EXCEPT !.taken = user[w].taken + 1]
    BY <1>1, <1>2, <1>5
  <2>2. /\ user'[w].taken = user[w].taken + 1
        /\ user'[w].sent = user[w].sent /\ user'[w].pc = "moving"
        /\ user'[w].step = "idle" /\ user'[w].error = user[w].error
    BY <1>1, <1>2, <2>1 DEF User
  <2>3. /\ w \in Users /\ w = "writer" /\ user[w].pc = "moving"
        /\ user[w].sent - user[w].taken = Window
        /\ WindowOK(w) /\ WriterOK(w)
    BY <1>1, <1>2 DEF InFlight, UserOK
  <2>4. /\ user[w].sent \in Int /\ user[w].taken \in Nat
        /\ Window \in Nat \ {0} /\ Last \in Nat
    BY <1>1, <2>3, SftpAssumption DEF User, Last
  <2>5. WindowOK(w)'
    BY <2>2, <2>3, <2>4, SftpAssumption DEF WindowOK
  <2>6. WriterOK(w)'
    <3>1. ~user[w].error =>
            \A n \in 1 .. user'[w].taken : answer'[<<w, n>>] = "ok"
      <4>1. ~user[w].error => \A n \in 1 .. user[w].taken : answer[<<w, n>>] = "ok"
        BY <2>3 DEF WriterOK
      <4>2. answer[<<w, user[w].taken + 1>>] = "ok"
        BY <1>5 DEF Oldest
      <4>3. \A n \in 1 .. user[w].taken + 1 :
              n \in 1 .. user[w].taken \/ n = user[w].taken + 1
        BY <2>4
      <4> QED BY <1>1, <2>2, <4>1, <4>2, <4>3
    <3> QED BY <2>2, <2>3, <3>1 DEF WriterOK
  <2>7. ReaderOK(w)'
    BY <2>3 DEF ReaderOK
  <2> QED BY <1>2, <1>3, <2>5, <2>6, <2>7 DEF UserOK
<1> QED BY <1>4, <1>5

LEMMA StepUsersOK ==
  ASSUME IInv, TypeOK', [Next]_vars, NEW v \in Users
  PROVE  UserOK(v)'
<1>1. /\ TypeOK /\ user \in [Users -> User] /\ answer \in [Requests -> Answer]
      /\ Last \in Nat /\ \A u \in Users : WindowOK(u)
  BY SftpAssumption DEF IInv, TypeOK, Last
<1>2. \A n \in 1 .. user[v].taken : <<v, n>> \in Requests
  <2>1. user[v] \in User
    BY <1>1
  <2>2. user[v].taken \in 0 .. Last
    BY <2>1 DEF User
  <2> SUFFICES ASSUME NEW n \in 1 .. user[v].taken PROVE <<v, n>> \in Requests
    OBVIOUS
  <2>3. n \in 0 .. Last
    BY <1>1, <2>2
  <2> QED BY <2>3 DEF Requests
<1>3. ASSUME UNCHANGED <<user, out>>,
             \A r \in Requests : answer[r] = "ok" => answer'[r] = "ok"
      PROVE  UserOK(v)'
  BY <1>2, <1>3, Untouched
<1>4. ASSUME NEW u \in Users, UserStep(u) \/ Finish(u) PROVE UserOK(v)'
  <2>1. CASE u = v
    BY <1>4, <2>1, SendOK, FinishOK DEF UserStep
  <2>2. CASE u # v
    <3>1. out' = out
      BY <1>4 DEF UserStep, Check, Insert, Push, Drain, Close, Closed, Finish, Rest
    <3>2. user'[v] = user[v]
      BY <1>1, <1>4, <2>2
         DEF UserStep, Check, Insert, Push, Drain, Close, Closed, Finish, Drop
    <3>3. \/ answer' = answer
          \/ answer' = [answer EXCEPT ![Request(u)] = "waiting"]
          \/ answer' = [answer EXCEPT ![Request(u)] = "lost"]
      BY <1>4 DEF UserStep, Check, Insert, Push, Drain, Close, Closed, Finish, Rest
    <3>4. \A n \in 1 .. user[v].taken : Request(u) # <<v, n>>
      BY <2>2 DEF Request
    <3>5. \A n \in 1 .. user[v].taken : answer'[<<v, n>>] = answer[<<v, n>>]
      BY <1>1, <1>2, <3>3, <3>4
    <3> QED BY <3>1, <3>2, <3>5, Untouched
  <2> QED BY <2>1, <2>2
<1>5. CASE ReadTake \/ WriteTake
  BY <1>5, ReadTakeOK, WriteTakeOK
<1>6. CASE WriteLoop \/ ReadLoopBreaks
  BY <1>3, <1>6 DEF WriteLoop, ReadLoopBreaks, Theirs
<1>7. ASSUME NEW r \in server, Serve(r) PROVE UserOK(v)'
  BY <1>3, <1>7 DEF Serve, Theirs
<1>8. ASSUME NEW p \in replies, ReadLoop(p) PROVE UserOK(v)'
  BY <1>1, <1>3, <1>8 DEF ReadLoop
<1>9. CASE ReadLoopDrains
  BY <1>1, <1>3, <1>9 DEF ReadLoopDrains
<1>10. CASE LinkBreaks \/ Disconnect
  BY <1>3, <1>10 DEF LinkBreaks, Disconnect, Theirs
<1>11. CASE UNCHANGED vars
  BY <1>3, <1>11 DEF vars
<1> QED BY <1>4, <1>5, <1>6, <1>7, <1>8, <1>9, <1>10, <1>11 DEF Next

-----------------------------------------------------------------------------
(* The theorems.                                                           *)

LEMMA Inductive == Spec => []IInv
<1>1. IInv /\ [Next]_vars => IInv'
  <2> SUFFICES ASSUME IInv, [Next]_vars PROVE IInv'
    OBVIOUS
  <2>1. TypeOK' /\ Honest'
    BY StepTypeOK, StepHonest
  <2>2. \A u \in Users : UserOK(u)'
    BY <2>1, StepUsersOK
  <2> QED BY <2>1, <2>2 DEF IInv, UserOK
<1> QED BY <1>1, InitIInv, PTL DEF Spec

\* The connection's tables, the windows and the answers keep their types
\* (client.rs:24, 530, 617).
THEOREM SftpTypeCorrect == Spec => []TypeOK
BY Inductive, PTL DEF IInv

\* Whatever order answers come in, wherever the connection breaks: a reader
\* gives out a beginning of the file, and all of it when it says so
\* (client.rs:581).
THEOREM ReaderCorrect == Spec => []ReadInOrder
<1>1. IInv => ReadInOrder
  <2> SUFFICES ASSUME IInv, NEW r \in Users \cap {"reader"}
               PROVE  LET u == user[r] IN
                      /\ Len(out) <= Size
                      /\ \A i \in DOMAIN out : out[i] = i
                      /\ \/ u.pc = "moving" /\ AtEnd(r)
                         \/ u.pc = "done" /\ ~u.stopped
                         => Len(out) = Size
    BY DEF ReadInOrder
  <2>1. ReaderOK(r) /\ r = "reader" /\ out \in Seq(1 .. Last)
    BY DEF IInv, TypeOK
  <2> QED BY <2>1 DEF ReaderOK, AtEnd
<1> QED BY <1>1, Inductive, PTL

\* A writer that closed without an error left every chunk it sent on the
\* server (client.rs:665).
THEOREM WriterCorrect == Spec => []WriteIsStored
<1>1. IInv => WriteIsStored
  <2> SUFFICES ASSUME IInv, NEW w \in Users \cap {"writer"},
                      user[w].pc = "done"
               PROVE  /\ 1 .. user[w].sent \subseteq stored
                      /\ user[w].stopped \/ user[w].sent = Size
    BY DEF WriteIsStored
  <2>1. /\ WriterOK(w) /\ WindowOK(w) /\ w = "writer" /\ Honest
        /\ user[w] \in User /\ Last \in Nat
    BY SftpAssumption DEF IInv, TypeOK, Last
  <2>2. user[w].taken = user[w].sent /\ user[w].sent \in 0 .. Last
    BY <2>1 DEF WindowOK, User
  <2>3. ASSUME NEW n \in 1 .. user[w].sent PROVE n \in stored
    <3>1. answer[<<"writer", n>>] = "ok"
      BY <2>1, <2>2 DEF WriterOK
    <3>2. n \in 1 .. Last /\ <<"writer", n>> \in Requests
      BY <2>1, <2>2 DEF Requests
    <3> QED BY <2>1, <3>1, <3>2 DEF Honest
  <2> QED BY <2>1, <2>3 DEF WriterOK
<1> QED BY <1>1, Inductive, PTL
=============================================================================
