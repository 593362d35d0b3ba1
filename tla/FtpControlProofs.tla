-------------------------- MODULE FtpControlProofs --------------------------
(***************************************************************************)
(* Proofs about FtpControl: for any operations, in both transfer modes,    *)
(* and with any number of replies left unread.                             *)
(***************************************************************************)
EXTENDS FtpControl, SequenceTheorems, TLAPS

Transfer == {"retr", "stor", "list"}

\* As long as there was no trouble, a reply is unread only while the end of a
\* transfer waits for it.
Steady ==
  ~troubled => IF task # Idle /\ task.cmd = "END" THEN Len(owed) = 1
                                                  ELSE owed = <<>>

\* The operation is at one of its own commands.
AtItsOwn ==
  task # Idle =>
    /\ task.op \in Transfer <=> task.cmd \notin Plain
    /\ task.cmd \in {"TYPE", "REST"} => task.op # "list"
    /\ task.cmd = "END" => owed # <<>>

\* In passive mode data flows only on a connection in step, whose directory
\* is the one asked for.
Bound ==
  Passive /\ task # Idle =>
    /\ task.cmd # "PORT"
    /\ task.cmd \in {"XFER", "DATA"} => owed = <<>>
    /\ task.op = "list" /\ ~task.cwd
         /\ task.cmd \in {"PWD", "EPSV", "PASV", "XFER", "DATA"} => owed # <<>>
    /\ task.cmd = "END" =>
         /\ \E e \in Code :
              owed = <<e>> /\ (task.eof /\ Positive(e) => task.did)
         /\ task.op = "list" => task.cwd /\ task.eof
    /\ task.cmd \in {"LINK", "LINKSIZE"} => task.did

IInv == TypeOK /\ Steady /\ AtItsOwn /\ Bound /\ TransferHonest

LEMMA InitIInv == ASSUME Init PROVE IInv
<1>1. owed \in Seq(Code) /\ troubled \in BOOLEAN /\ (~troubled => owed = <<>>)
  <2>1. <<>> \in Seq(Code) /\ <<200>> \in Seq(Code)
    BY DEF Code
  <2> QED BY <2>1 DEF Init, LoggedIn
<1>2. result \in Result /\ ~result.ok
  BY DEF Init, Result
<1>3. task = Idle
  BY DEF Init
<1> QED BY <1>1, <1>2, <1>3
        DEF IInv, TypeOK, Steady, AtItsOwn, Bound, TransferHonest

-----------------------------------------------------------------------------

\* The next reply, when another one has just been sent.
LEMMA NextReply ==
  ASSUME NEW q \in Seq(Code), NEW r \in Code
  PROVE  LET all == Append(q, r) IN
         /\ all \in Seq(Code) /\ all # <<>>
         /\ Head(all) \in Code /\ Tail(all) \in Seq(Code)
         /\ q = <<>> => Head(all) = r /\ Tail(all) = <<>>
         /\ q # <<>> => Tail(all) # <<>>
<1> DEFINE all == Append(q, r)
<1>1. all \in Seq(Code) /\ Len(all) = Len(q) + 1 /\ Len(q) \in Nat
  OBVIOUS
<1>2. all # <<>>
  BY <1>1
<1> HIDE DEF all
<1>6. Head(all) \in Code /\ Tail(all) \in Seq(Code)
  BY <1>1, <1>2, HeadTailProperties
<1> USE DEF all
<1>3. Len(Tail(all)) = Len(q)
  BY <1>1
<1>4. q = <<>> => Head(all) = r /\ Tail(all) = <<>>
  BY <1>1
<1>5. q # <<>> => Len(q) # 0
  OBVIOUS
<1> QED BY <1>1, <1>2, <1>3, <1>4, <1>5, <1>6

-----------------------------------------------------------------------------

\* What may follow on a reply.
LEMMA WhatFollows ==
  ASSUME NEW t \in Task, t.cmd \in Command, NEW got, NEW left,
         NEW next \in Proceed(t, got, left)
  PROVE  /\ next \in Follow
         /\ t.cmd \in Plain => next \in Plain \cup {"fail", "ok"}
         /\ t.cmd \notin Plain => next \notin Plain
         /\ next = "ok" /\ t.cmd \notin Plain => t.cmd \in {"LINK", "LINKSIZE"}
         /\ next = "again" => t.op = "list" /\ got # NoReply
                              /\ t.cmd \in {"EPSV", "PASV", "PORT", "XFER"}
         /\ next = "DATA" <=> t.cmd = "XFER" /\ got = 150
         /\ t.cmd = "XFER" => next \in {"DATA", "fail", "again"}
         /\ t.cmd = "CWD" => next \in {"PWD", "fail"}
         /\ t.cmd \in {"LINK", "LINKSIZE"} => next \in {"LINKSIZE", "ok", "fail"}
         /\ next = "PORT" => ~Passive
         /\ next = "XFER" => t.cmd = "PORT" \/ left = <<>>
         /\ next = "PWD" => t.cmd = "CWD" /\ Positive(got)
         /\ next \notin {"TYPE", "LINK"}
         /\ next = "REST" => t.cmd = "TYPE"
         /\ next = "LINKSIZE" => t.cmd = "LINK"
<1> DEFINE on == GoesOn(t, got, left)
<1>1. next \in on \/ (next \in Fails(t, got = NoReply)
                      /\ (on = {} \/ Address(t, got)))
  BY DEF Proceed
<1>2. CASE t.cmd \in Setup /\ next \in on
  BY <1>2 DEF GoesOn, AfterSetup, Address, OpenData, Follow,
              Command, Setup, Listing, Plain
<1>3. CASE t.cmd \in Listing /\ next \in on
  BY <1>3 DEF GoesOn, AfterListing, OpenData, Follow,
              Command, Setup, Listing, Plain
<1>4. CASE t.cmd \in Plain /\ next \in on
  BY <1>4 DEF GoesOn, AfterPlain, Follow, Command, Setup, Listing, Plain
<1>5. CASE next \in Fails(t, got = NoReply)
  <2>1. next \in {"fail", "again"}
    BY <1>5 DEF Fails
  <2>2. next = "again" => t.op = "list" /\ got # NoReply
                          /\ t.cmd \in {"EPSV", "PASV", "PORT", "XFER"}
    BY <1>5 DEF Fails, Command, Setup, Listing, Plain
  <2>3. ASSUME t.cmd = "XFER", got = 150 PROVE next = "DATA"
    <3>1. "DATA" \in on
      BY <2>3 DEF GoesOn, AfterSetup, Setup, Follow
    <3> QED BY <1>1, <2>3, <3>1, <2>1
            DEF Address, GoesOn, AfterSetup, Setup, OpenData
  <2> QED BY <2>1, <2>2, <2>3 DEF Follow, Command, Setup, Listing, Plain
<1> QED BY <1>1, <1>2, <1>3, <1>4, <1>5 DEF Command

\* How the state moves on with it.
LEMMA GoOnEffect ==
  ASSUME NEW t \in Task, NEW left \in Seq(Code), NEW next \in Follow,
         result \in Result, GoOn(t, next, left)
  PROVE  /\ task' \in Task \cup {Idle} /\ result' \in Result
         /\ owed' \in Seq(Code)
         /\ next \in {"fail", "ok"} =>
              /\ task' = Idle
              /\ result'.op = t.op /\ result'.did = t.did
              /\ result'.ok => next = "ok" /\ (t.cmd = "END" => t.eof)
         /\ next \notin {"fail", "ok"} =>
              /\ result' = result
              /\ task' \in Task /\ task'.op = t.op /\ task'.cwd = t.cwd
              /\ task'.did = t.did
              /\ task'.cmd = IF next = "again" THEN OpenData ELSE next
              /\ task'.serving = (t.serving /\ next # "again")
         /\ ~t.serving \/ next \notin {"fail", "ok", "again"} => owed' = left
         /\ left # <<>> => owed' # <<>>
<1>1. \A e \in {226, Refused} :
        left \o <<e>> \in Seq(Code) /\ left \o <<e>> # <<>>
  <2>1. \A e \in {226, Refused} : <<e>> \in Seq(Code) /\ <<e>> # <<>>
    BY DEF Code
  <2> QED BY <2>1, ConcatProperties, ConcatEqualIffEmpty
<1>2. owed' \in {left} \cup {left \o <<e>> : e \in {226, Refused}}
  BY DEF GoOn
<1>3. owed' \in Seq(Code) /\ (left # <<>> => owed' # <<>>)
  BY <1>1, <1>2
<1>4. ~t.serving \/ next \notin {"fail", "ok", "again"} => owed' = left
  BY DEF GoOn
<1>5. CASE next \in {"fail", "ok"}
  <2>1. task' = Idle /\ result' = [op |-> t.op, did |-> t.did,
                    ok |-> next = "ok" /\ (t.cmd = "END" => t.eof)]
    BY <1>5 DEF GoOn
  <2>2. t.op \in Operation /\ t.did \in BOOLEAN
    BY DEF Task
  <2>3. (next = "ok" /\ (t.cmd = "END" => t.eof)) \in BOOLEAN
    OBVIOUS
  <2>4. /\ result' \in Result
        /\ result'.op = t.op /\ result'.did = t.did
        /\ result'.ok => next = "ok" /\ (t.cmd = "END" => t.eof)
    BY <2>1, <2>2, <2>3 DEF Result
  <2> QED BY <1>3, <1>4, <1>5, <2>1, <2>4
<1>6. CASE next \notin {"fail", "ok"}
  <2>1. IF next = "again" THEN OpenData \in Command
                          ELSE next \in Command \cup {"DATA"}
    BY <1>6 DEF Follow, OpenData, Command, Setup
  <2>2. task' = [t EXCEPT !.cmd = IF next = "again" THEN OpenData ELSE next,
                          !.plain = t.plain \/ next = "again",
                          !.serving = t.serving /\ next # "again"]
    BY <1>6 DEF GoOn
  <2>3. result' = result
    BY <1>6 DEF GoOn
  <2>4. /\ task' \in Task /\ task'.op = t.op /\ task'.cwd = t.cwd
        /\ task'.did = t.did
        /\ task'.cmd = IF next = "again" THEN OpenData ELSE next
        /\ task'.serving = (t.serving /\ next # "again")
    BY <2>1, <2>2, ZenonT(60) DEF Task
  <2> QED BY <1>3, <1>4, <1>6, <2>3, <2>4
<1> QED BY <1>5, <1>6
-----------------------------------------------------------------------------
(* Every operation keeps the invariant.                                    *)

LEMMA BeginIInv ==
  ASSUME IInv, NEW op \in Ops, Begin(op) PROVE IInv'
<1>1. PICK cmd \in Command, rest \in BOOLEAN, plain \in BOOLEAN :
        /\ <<op, cmd>> \in Begins
        /\ rest => op \in {"retr", "stor"}
        /\ task' = [op |-> op, cmd |-> cmd, rest |-> rest, plain |-> plain,
                    port |-> FALSE, serving |-> FALSE, eof |-> FALSE,
                    cwd |-> FALSE, did |-> FALSE]
  BY DEF Begin
<1>2. op \in Operation
  BY FtpAssumption
<1>3. /\ op \in Transfer <=> cmd \notin Plain
      /\ cmd \in {"TYPE", "CWD"} \cup Plain
      /\ cmd = "TYPE" => op # "list"
  BY <1>1 DEF Begins, Transfer, Plain
<1>4. /\ task' \in Task /\ task'.cmd = cmd /\ task'.op = op
      /\ ~task'.serving
  BY <1>1, <1>2 DEF Task
<1>5. task = Idle /\ owed' = owed /\ result' = result /\ troubled' = troubled
  BY DEF Begin
<1>6. cmd \notin {"END", "DATA", "REST", "EPSV", "PASV", "PORT", "XFER",
                  "PWD", "LINK", "LINKSIZE"}
  BY <1>3 DEF Plain
<1>7. TypeOK' /\ TransferHonest'
  BY <1>4, <1>5 DEF IInv, TypeOK, TransferHonest
<1>8. Steady'
  BY <1>4, <1>5, <1>6 DEF IInv, Steady
<1>9. AtItsOwn'
  BY <1>3, <1>4, <1>6 DEF AtItsOwn
<1>10. Bound'
  BY <1>4, <1>6 DEF Bound
<1> QED BY <1>7, <1>8, <1>9, <1>10 DEF IInv

LEMMA ExchangeIInv ==
  ASSUME IInv, Exchange PROVE IInv'
<1>1. PICK r \in Answers(task), late \in BOOLEAN :
        LET all == Append(owed, r)
            got == IF late THEN NoReply ELSE Head(all)
            left == IF late THEN all ELSE Tail(all)
            t == Served(task, r, all = <<got>>)
        IN /\ \E next \in Proceed(task, got, left) : GoOn(t, next, left)
           /\ troubled' = (troubled \/ late)
  BY DEF Exchange
<1> DEFINE all == Append(owed, r)
           got == IF late THEN NoReply ELSE Head(all)
           left == IF late THEN all ELSE Tail(all)
           t == Served(task, r, all = <<got>>)
<1>2. PICK next \in Proceed(task, got, left) : GoOn(t, next, left)
  BY <1>1
<1>3. /\ task \in Task /\ task # Idle /\ task.cmd \in Command
      /\ owed \in Seq(Code) /\ result \in Result /\ troubled \in BOOLEAN
      /\ r \in Code /\ troubled' = (troubled \/ late)
  BY <1>1 DEF Exchange, IInv, TypeOK, Answers
<1>4. /\ left \in Seq(Code)
      /\ owed = <<>> /\ ~late => got = r /\ left = <<>>
      /\ owed # <<>> \/ late => left # <<>>
      /\ late => got = NoReply
  BY <1>3, NextReply
<1>5. /\ t \in Task /\ t.op = task.op /\ t.cmd = task.cmd
      /\ t.serving = (task.cmd = "XFER" /\ r = 150)
      /\ t.cwd = IF task.cmd = "CWD" THEN Positive(r) ELSE task.cwd
      /\ task.cmd \in {"LINK", "LINKSIZE"} => t.did = task.did
  <2> DEFINE own == all = <<got>>
             did == IF task.cmd \in {"SINGLE", "RNTO"} THEN Positive(r)
                    ELSE IF task.cmd \in {"WHERE", "CHDIR", "SIZE", "HASH",
                                          "XHASH"} THEN own
                    ELSE task.did
             port == IF task.cmd \in {"EPSV", "PASV", "PORT"} THEN Positive(r)
                                                              ELSE task.port
             cwd == IF task.cmd = "CWD" THEN Positive(r) ELSE task.cwd
             serving == task.cmd = "XFER" /\ r = 150
  <2>1. t = [task EXCEPT !.port = port, !.serving = serving, !.cwd = cwd,
                         !.did = did]
    BY DEF Served
  <2>2. /\ port \in BOOLEAN /\ serving \in BOOLEAN /\ cwd \in BOOLEAN
        /\ did \in BOOLEAN
    BY <1>3 DEF Task, Positive
  <2>3. task.cmd \in {"LINK", "LINKSIZE"} => did = task.did
    OBVIOUS
  <2> HIDE DEF t, port, serving, cwd, did
  <2>4. /\ t \in Task /\ t.op = task.op /\ t.cmd = task.cmd
        /\ t.serving = serving /\ t.cwd = cwd /\ t.did = did
    BY <2>1, <2>2, <1>3, ZenonT(60) DEF Task
  <2> QED BY <2>3, <2>4 DEF serving, cwd
<1> HIDE DEF all, got, left, t
<1>6. /\ next \in Follow
      /\ task.cmd \in Plain => next \in Plain \cup {"fail", "ok"}
      /\ task.cmd \notin Plain => next \notin Plain
      /\ next = "ok" /\ task.cmd \notin Plain => task.cmd \in {"LINK", "LINKSIZE"}
      /\ next = "again" => task.op = "list" /\ got # NoReply
                              /\ task.cmd \in {"EPSV", "PASV", "PORT", "XFER"}
      /\ next = "DATA" <=> task.cmd = "XFER" /\ got = 150
      /\ task.cmd = "XFER" => next \in {"DATA", "fail", "again"}
      /\ task.cmd = "CWD" => next \in {"PWD", "fail"}
      /\ task.cmd \in {"LINK", "LINKSIZE"} => next \in {"LINKSIZE", "ok", "fail"}
      /\ next = "PORT" => ~Passive
      /\ next = "XFER" => task.cmd = "PORT" \/ left = <<>>
      /\ next = "PWD" => task.cmd = "CWD" /\ Positive(got)
      /\ next \notin {"TYPE", "LINK"}
      /\ next = "REST" => task.cmd = "TYPE"
      /\ next = "LINKSIZE" => task.cmd = "LINK"
  BY <1>2, <1>3, WhatFollows
<1>7. LET c == IF next = "again" THEN OpenData ELSE next IN
      /\ task' \in Task \cup {Idle} /\ result' \in Result
      /\ owed' \in Seq(Code)
      /\ next \in {"fail", "ok"} =>
           /\ task' = Idle
           /\ result'.op = task.op /\ result'.did = t.did
           /\ result'.ok => next = "ok"
      /\ next \notin {"fail", "ok"} =>
           /\ result' = result
           /\ task' \in Task /\ task'.op = task.op /\ task'.cwd = t.cwd
           /\ task'.did = t.did /\ task'.cmd = c
           /\ task'.serving = (t.serving /\ next # "again")
      /\ ~t.serving \/ next = "DATA" => owed' = left
      /\ left # <<>> => owed' # <<>>
  BY <1>2, <1>3, <1>4, <1>5, <1>6, GoOnEffect
<1>8. /\ OpenData \in {"PORT", "EPSV", "PASV"}
      /\ Passive => OpenData # "PORT"
  BY DEF OpenData
<1>9. Steady /\ AtItsOwn /\ Bound /\ TransferHonest
  BY DEF IInv
<1>10. ~Positive(NoReply)
  BY DEF Positive
<1>11. task.cmd \notin {"DATA", "END"} /\ next # "END"
  BY <1>3, <1>6 DEF Follow, Command, Setup, Listing, Plain
<1>12. task' # Idle => next \notin {"fail", "ok"} /\ task'.cmd # "END"
  BY <1>7, <1>8, <1>11
<1>13. TypeOK'
  <2>1. task' # Idle /\ task'.serving => task'.cmd = "DATA"
    BY <1>5, <1>6, <1>7, <1>12
  <2> QED BY <1>3, <1>7, <2>1 DEF TypeOK
<1>14. Steady'
  <2> SUFFICES ASSUME ~troubled' PROVE owed' = <<>>
    BY <1>12 DEF Steady
  <2>1. ~late /\ owed = <<>>
    BY <1>3, <1>9, <1>11 DEF Steady
  <2>2. got = r /\ left = <<>>
    BY <1>4, <2>1
  <2>3. t.serving => next = "DATA"
    BY <1>5, <1>6, <2>2
  <2> QED BY <1>7, <2>2, <2>3
<1>15. AtItsOwn'
  <2> SUFFICES ASSUME task' # Idle
               PROVE  /\ task'.op \in Transfer <=> task'.cmd \notin Plain
                      /\ task'.cmd \in {"TYPE", "REST"} => task'.op # "list"
    BY <1>12 DEF AtItsOwn
  <2>1. /\ task'.op = task.op
        /\ task'.cmd = IF next = "again" THEN OpenData ELSE next
        /\ next \notin {"fail", "ok"}
    BY <1>7, <1>12
  <2>2. task'.cmd \notin Plain <=> task.cmd \notin Plain
    BY <1>6, <1>8, <2>1 DEF Plain
  <2> QED BY <1>3, <1>6, <1>8, <1>9, <2>1, <2>2 DEF AtItsOwn
<1>16. Bound'
  <2> SUFFICES ASSUME Passive, task' # Idle
               PROVE  /\ task'.cmd # "PORT"
                      /\ task'.cmd \in {"XFER", "DATA"} => owed' = <<>>
                      /\ task'.op = "list" /\ ~task'.cwd
                           /\ task'.cmd \in {"PWD", "EPSV", "PASV", "XFER",
                                             "DATA"} => owed' # <<>>
                      /\ task'.cmd \in {"LINK", "LINKSIZE"} => task'.did
    BY <1>12 DEF Bound
  <2>1. /\ task'.op = task.op /\ task'.cwd = t.cwd /\ task'.did = t.did
        /\ task'.cmd = IF next = "again" THEN OpenData ELSE next
        /\ next \notin {"fail", "ok"}
    BY <1>7, <1>12
  <2>2. task'.cmd # "PORT"
    BY <1>6, <1>8, <2>1
  <2>3. ASSUME task'.cmd \in {"XFER", "DATA"} PROVE owed' = <<>>
    <3>1. next \in {"XFER", "DATA"}
      BY <1>8, <2>1, <2>3
    <3>2. CASE next = "XFER"
      BY <1>3, <1>5, <1>6, <1>7, <1>9, <3>2 DEF Bound
    <3>3. CASE next = "DATA"
      <4>1. task.cmd = "XFER" /\ got = 150 /\ owed = <<>>
        BY <1>3, <1>6, <1>9, <3>3 DEF Bound
      <4>2. ~late
        BY <1>4, <4>1 DEF NoReply
      <4> QED BY <1>4, <1>7, <3>3, <4>1, <4>2
    <3> QED BY <3>1, <3>2, <3>3
  <2>4. ASSUME task'.op = "list", ~task'.cwd,
               task'.cmd \in {"PWD", "EPSV", "PASV", "XFER", "DATA"}
        PROVE  owed' # <<>>
    <3>1. CASE task.cmd = "CWD"
      <4>1. ~Positive(r) /\ next = "PWD"
        BY <1>5, <1>6, <2>1, <2>4, <3>1
      <4>2. got # r
        BY <1>6, <4>1
      <4> QED BY <1>4, <1>7, <4>2
    <3>2. CASE task.cmd # "CWD"
      <4>1. task.cmd \in {"PWD", "EPSV", "PASV", "XFER"}
        BY <1>3, <1>6, <1>9, <2>1, <2>4, <3>2
           DEF AtItsOwn, Bound, Transfer, Command, Setup, Listing
      <4>2. owed # <<>>
        BY <1>3, <1>5, <1>9, <2>1, <2>4, <3>2, <4>1 DEF Bound
      <4> QED BY <1>4, <1>7, <4>2
    <3> QED BY <3>1, <3>2
  <2>5. ASSUME task'.cmd \in {"LINK", "LINKSIZE"} PROVE task'.did
    BY <1>3, <1>5, <1>6, <1>8, <1>9, <2>1, <2>5 DEF Bound
  <2> QED BY <2>2, <2>3, <2>4, <2>5
<1>17. TransferHonest'
  <2>1. CASE next \notin {"fail", "ok"}
    BY <1>7, <1>9, <2>1 DEF TransferHonest
  <2>2. CASE next \in {"fail", "ok"}
    <3> SUFFICES ASSUME Passive, result'.ok, result'.op \in Transfer
                 PROVE  result'.did
      BY DEF TransferHonest, Transfer
    <3>1. next = "ok" /\ task.op \in Transfer /\ result'.did = t.did
      BY <1>7, <2>2
    <3>2. task.cmd \in {"LINK", "LINKSIZE"}
      BY <1>3, <1>6, <1>9, <3>1 DEF AtItsOwn
    <3> QED BY <1>3, <1>5, <1>9, <3>1, <3>2 DEF Bound
  <2> QED BY <2>1, <2>2
<1> QED BY <1>13, <1>14, <1>15, <1>16, <1>17 DEF IInv
LEMMA DataEndsIInv ==
  ASSUME IInv, NEW how \in {"whole", "broken", "stopped"}, DataEnds(how)
  PROVE  IInv'
<1>1. /\ task \in Task /\ task # Idle /\ task.cmd = "DATA"
      /\ owed \in Seq(Code) /\ result \in Result /\ troubled \in BOOLEAN
      /\ result' = result /\ troubled' = troubled
      /\ how = "stopped" => task.op # "list"
  BY DEF DataEnds, IInv, TypeOK
<1>2. PICK e \in {226, Refused} : /\ how = "whole" => e = 226
                                  /\ how = "broken" => e = Refused
                                  /\ owed' = Append(owed, e)
  BY DEF DataEnds
<1>3. e \in Code /\ (how = "broken" => ~Positive(e))
  BY <1>2 DEF Code, Positive, Refused
<1>4. owed' \in Seq(Code) /\ owed' # <<>> /\ (owed = <<>> => owed' = <<e>>)
  <2> DEFINE more == Append(owed, e)
  <2>1. more \in Seq(Code)
    BY <1>1, <1>3
  <2>2. Len(more) = Len(owed) + 1 /\ Len(owed) \in Nat
    BY <1>1, <1>3
  <2>3. more # <<>>
    BY <2>2
  <2>4. owed = <<>> => more = <<e>>
    OBVIOUS
  <2> QED BY <1>2, <2>1, <2>3, <2>4
<1>5. /\ task' \in Task /\ task' # Idle
      /\ task'.cmd = "END" /\ ~task'.serving /\ task'.op = task.op
      /\ task'.eof = (how # "stopped") /\ task'.cwd = task.cwd
      /\ task'.did = (how = "whole" /\ (task.op = "list" => task.cwd))
  <2> DEFINE eof == how # "stopped"
             did == how = "whole" /\ (task.op = "list" => task.cwd)
  <2>1. /\ task' = [task EXCEPT !.cmd = "END", !.serving = FALSE,
                               !.eof = eof, !.did = did]
        /\ eof \in BOOLEAN /\ did \in BOOLEAN
    BY DEF DataEnds
  <2> HIDE DEF eof, did
  <2>2. /\ task' \in Task /\ task'.cmd = "END" /\ task'.serving = FALSE
        /\ task'.op = task.op /\ task'.eof = eof /\ task'.cwd = task.cwd
        /\ task'.did = did
    BY <1>1, <2>1 DEF Task
  <2>3. task' # Idle
    BY <2>1, <1>1 DEF Task, Idle
  <2> QED BY <2>2, <2>3 DEF eof, did
<1>6. TypeOK' /\ TransferHonest'
  BY <1>1, <1>4, <1>5 DEF IInv, TypeOK, TransferHonest
<1>7. Steady'
  BY <1>1, <1>4, <1>5 DEF IInv, Steady
<1>8. AtItsOwn'
  BY <1>1, <1>4, <1>5 DEF IInv, AtItsOwn, Plain
<1>9. Bound'
  <2> SUFFICES ASSUME Passive
               PROVE  /\ owed' = <<e>>
                      /\ task'.eof /\ Positive(e) => task'.did
                      /\ task'.op = "list" => task'.cwd /\ task'.eof
    BY <1>3, <1>5 DEF Bound
  <2>1. owed = <<>> /\ (task.op = "list" => task.cwd)
    BY <1>1 DEF IInv, Bound
  <2> QED BY <1>1, <1>3, <1>4, <1>5, <2>1
<1> QED BY <1>6, <1>7, <1>8, <1>9 DEF IInv

LEMMA DataFailsIInv ==
  ASSUME IInv, DataFails PROVE IInv'
<1>1. PICK next \in Fails(task, FALSE) : GoOn(task, next, owed)
  BY DEF DataFails
<1>2. /\ task \in Task /\ task # Idle /\ task.cmd = "DATA"
      /\ owed \in Seq(Code) /\ result \in Result /\ troubled'
  BY DEF DataFails, IInv, TypeOK
<1>3. /\ next \in {"fail", "again"} /\ next \in Follow
      /\ next = "again" => task.op = "list"
  BY <1>1 DEF Fails, Follow
<1>4. /\ task' \in Task \cup {Idle} /\ result' \in Result
      /\ owed' \in Seq(Code)
      /\ next = "fail" => task' = Idle /\ ~result'.ok
      /\ next = "again" =>
           /\ result' = result /\ task'.op = "list" /\ task'.cwd = task.cwd
           /\ task'.cmd = OpenData /\ ~task'.serving
  BY <1>1, <1>2, <1>3, GoOnEffect
<1>5. OpenData \in {"PORT", "EPSV", "PASV"} /\ (Passive => OpenData # "PORT")
  BY DEF OpenData
<1>6. TypeOK' /\ TransferHonest'
  BY <1>2, <1>3, <1>4 DEF IInv, TypeOK, TransferHonest
<1>7. Steady'
  BY <1>2 DEF Steady
<1>8. AtItsOwn'
  BY <1>3, <1>4, <1>5 DEF AtItsOwn, Transfer, Plain
<1>9. Bound'
  <2>1. Passive /\ task.op = "list" => task.cwd
    BY <1>2 DEF IInv, Bound
  <2> QED BY <1>3, <1>4, <1>5, <2>1 DEF Bound
<1> QED BY <1>6, <1>7, <1>8, <1>9, <1>2 DEF IInv, TypeOK

LEMMA FinishIInv ==
  ASSUME IInv, Finish PROVE IInv'
<1>1. PICK late \in BOOLEAN :
        LET got == IF late THEN NoReply ELSE Head(owed)
            left == IF late THEN owed ELSE Tail(owed)
            good == \/ Positive(got)
                    \/ ~late /\ ~task.eof /\ task.op = "retr"
        IN /\ \E next \in IF ~good THEN Fails(task, late)
                          ELSE IF task.op = "list" THEN {"ok", "LINK"}
                          ELSE {"ok"} :
                GoOn(task, next, left)
           /\ troubled' = (troubled \/ late)
  BY DEF Finish
<1> DEFINE got == IF late THEN NoReply ELSE Head(owed)
           left == IF late THEN owed ELSE Tail(owed)
           good == \/ Positive(got)
                   \/ ~late /\ ~task.eof /\ task.op = "retr"
<1>2. PICK next \in IF ~good THEN Fails(task, late)
                    ELSE IF task.op = "list" THEN {"ok", "LINK"}
                    ELSE {"ok"} : GoOn(task, next, left)
  BY <1>1
<1>3. /\ task \in Task /\ task # Idle /\ task.cmd = "END" /\ ~task.serving
      /\ owed \in Seq(Code) /\ owed # <<>> /\ result \in Result
      /\ troubled \in BOOLEAN /\ troubled' = (troubled \/ late)
  BY <1>1 DEF Finish, IInv, TypeOK, AtItsOwn
<1>4. left \in Seq(Code)
  BY <1>3, HeadTailProperties
<1>5. /\ Len(owed) = 1 /\ ~late => left = <<>>
      /\ \A e \in Code : owed = <<e>> /\ ~late => got = e
  <2>1. Len(owed) = 1 => Tail(owed) = <<>>
    <3> DEFINE rest == Tail(owed)
    <3>1. rest \in Seq(Code) /\ Len(rest) = Len(owed) - 1
      BY <1>3, HeadTailProperties
    <3> HIDE DEF rest
    <3>2. rest = <<>> <=> Len(rest) = 0
      BY <3>1, EmptySeq
    <3>3. Len(owed) = 1 => rest = <<>>
      BY <3>1, <3>2
    <3> QED BY <3>3 DEF rest
  <2>2. \A e \in Code : Head(<<e>>) = e
    OBVIOUS
  <2> QED BY <2>1, <2>2
<1>6. late => ~good
  BY DEF Positive
<1>7. /\ next \in {"fail", "again", "ok", "LINK"} /\ next \in Follow
      /\ next \in {"ok", "LINK"} => good
      /\ next \in {"again", "LINK"} => task.op = "list"
  BY <1>2 DEF Fails, Follow, Command, Listing
<1> HIDE DEF got, left
<1>8. /\ task' \in Task \cup {Idle} /\ result' \in Result
      /\ owed' = left
      /\ next \in {"fail", "ok"} =>
           /\ task' = Idle
           /\ result'.op = task.op /\ result'.did = task.did
           /\ result'.ok => next = "ok" /\ task.eof
      /\ next \in {"again", "LINK"} =>
           /\ result' = result /\ task'.op = task.op
           /\ task'.cwd = task.cwd /\ task'.did = task.did
           /\ task'.cmd = IF next = "again" THEN OpenData ELSE next
           /\ ~task'.serving
  BY <1>2, <1>3, <1>4, <1>7, GoOnEffect
<1>9. OpenData \in {"PORT", "EPSV", "PASV"} /\ (Passive => OpenData # "PORT")
  BY DEF OpenData
<1>10. ASSUME Passive
       PROVE  /\ good /\ task.eof => task.did
              /\ task.op = "list" => task.cwd /\ task.eof
  BY <1>3, <1>5, <1>6, <1>10 DEF IInv, Bound
<1>11. TypeOK'
  BY <1>3, <1>4, <1>7, <1>8 DEF TypeOK
<1>12. Steady'
  BY <1>3, <1>5, <1>7, <1>8, <1>9 DEF IInv, Steady
<1>13. AtItsOwn'
  BY <1>7, <1>8, <1>9 DEF AtItsOwn, Transfer, Plain
<1>14. Bound'
  BY <1>7, <1>8, <1>9, <1>10 DEF Bound
<1>15. TransferHonest'
  <2>1. TransferHonest
    BY DEF IInv
  <2> QED BY <1>7, <1>8, <1>10, <2>1 DEF TransferHonest
<1> QED BY <1>11, <1>12, <1>13, <1>14, <1>15 DEF IInv

LEMMA ReconnectIInv ==
  ASSUME IInv, Reconnect PROVE IInv'
<1>1. /\ task' = Idle /\ result' = result
      /\ troubled' = (owed' # <<>>)
      /\ owed' \in {<<>>, <<200>>}
  BY DEF Reconnect, LoggedIn
<1>2. owed' \in Seq(Code)
  <2>1. <<>> \in Seq(Code) /\ <<200>> \in Seq(Code)
    BY DEF Code
  <2> QED BY <1>1, <2>1
<1> QED BY <1>1, <1>2
        DEF IInv, TypeOK, Steady, AtItsOwn, Bound, TransferHonest

LEMMA Inductive == Spec => []IInv
<1>1. IInv /\ [Next]_vars => IInv'
  <2> SUFFICES ASSUME IInv, [Next]_vars PROVE IInv'
    OBVIOUS
  <2>1. CASE \E op \in Ops : Begin(op)
    BY <2>1, BeginIInv
  <2>2. CASE Exchange
    BY <2>2, ExchangeIInv
  <2>3. CASE \E how \in {"whole", "broken", "stopped"} : DataEnds(how)
    BY <2>3, DataEndsIInv
  <2>4. CASE DataFails
    BY <2>4, DataFailsIInv
  <2>5. CASE Finish
    BY <2>5, FinishIInv
  <2>6. CASE Reconnect
    BY <2>6, ReconnectIInv
  <2>7. CASE UNCHANGED vars
    BY <2>7 DEF vars, IInv, TypeOK, Steady, AtItsOwn, Bound, TransferHonest
  <2> QED BY <2>1, <2>2, <2>3, <2>4, <2>5, <2>6, <2>7 DEF Next
<1> QED BY InitIInv, <1>1, PTL DEF Spec

-----------------------------------------------------------------------------
(* What follows from it.                                                   *)

\* The types, and that the server speaks of a transfer again only after one
\* it accepted.
THEOREM FtpTypeCorrect == Spec => []TypeOK
<1>1. IInv => TypeOK
  BY DEF IInv
<1> QED BY <1>1, Inductive, PTL

\* In both modes, with any operations: only a late reply or a failing data
\* connection leaves a reply unread behind an operation (client.rs:943-1025).
THEOREM InStepAlways == Spec => []InStep
<1>1. IInv => InStep
  BY DEF IInv, Steady, InStep
<1> QED BY <1>1, Inductive, PTL

\* However far the connection is out of step: a passive transfer or listing
\* that ends without an error was complete (client.rs:485-511, 557-604).
THEOREM TransfersHonest == Spec => []TransferHonest
<1>1. IInv => TransferHonest
  BY DEF IInv
<1> QED BY <1>1, Inductive, PTL
=============================================================================
