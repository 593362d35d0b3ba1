----------------------------- MODULE FtpControl -----------------------------
(***************************************************************************)
(* One FTP connection of a session (protocol/ftp/client.rs): operations    *)
(* take its mutex in turn and talk to the server over the control channel, *)
(* where a reply belongs to a command only because it is the next one.     *)
(*                                                                         *)
(* The server answers every command, and says once more how a transfer     *)
(* went when its data connection is closed.  What it said and nobody has   *)
(* read yet is `owed`.  Replies are their codes; 550 stands for every      *)
(* refusal.  A connection that is lost is one that does not reply in time  *)
(* from then on.                                                           *)
(***************************************************************************)
EXTENDS Naturals, Sequences

CONSTANTS
  Ops,      \* the operations that are asked for, of Operation
  Passive,  \* TransferMode: passive or active
  Epsv,     \* features.epsv
  MaxOwed   \* bound: unread replies an operation may start with

\* single: mkdir, rmdir, remove and chmod.  path: realpath and initial_dir.
Operation == {"retr", "stor", "list", "single", "rename", "path", "stat",
              "hash", "keepalive"}

ASSUME FtpAssumption == /\ Ops \subseteq Operation
                        /\ Passive \in BOOLEAN /\ Epsv \in BOOLEAN
                        /\ MaxOwed \in Nat

VARIABLES
  owed,     \* replies the server sent that were not read
  task,     \* the operation that holds the mutex of the connection
  result,   \* what the last operation said, and what the server did
  troubled  \* a reply was late or a data connection failed at some time

vars == <<owed, task, result, troubled>>

Refused == 550
NoReply == 0
Code == {150, 200, 213, 226, 227, 229, 250, 257, 350, Refused}
Positive(code) == code # NoReply /\ code < 400

\* XFER is RETR, STOR, MLSD or LIST; a command that several operations send
\* and that they treat differently has a name for each of them.
Setup == {"TYPE", "REST", "EPSV", "PASV", "PORT", "XFER"}
Listing == {"CWD", "PWD", "LINK", "LINKSIZE"}
Plain == {"SINGLE", "RNFR", "RNTO", "GOTO", "WHERE", "CHDIR", "SIZE", "MDTM",
          "OPTS", "HASH", "XHASH", "NOOP"}
Command == Setup \cup Listing \cup Plain
Follow == Command \cup {"DATA", "fail", "ok", "again"}

\* cmd: the next command, or the data connection, or its end.  plain: LIST
\* has no other form left to try.  port: the server knows where data goes.
\* serving: it will say how the transfer went.  did: it did what was asked.
Task == [op : Operation, cmd : Command \cup {"DATA", "END"}, rest : BOOLEAN,
         plain : BOOLEAN, port : BOOLEAN, serving : BOOLEAN, eof : BOOLEAN,
         cwd : BOOLEAN, did : BOOLEAN]
Idle == [op |-> "none"]
Result == [op : Operation \cup {"none"}, ok : BOOLEAN, did : BOOLEAN]

TypeOK ==
  /\ owed \in Seq(Code)
  /\ task \in Task \cup {Idle}
  /\ task # Idle /\ task.serving => task.cmd = "DATA"
  /\ result \in Result
  /\ troubled \in BOOLEAN

\* connect: a late reply to FEAT or OPTS is passed over, and TYPE I then reads
\* that one.
LoggedIn == {<<>>, <<200>>}

Init ==
  /\ owed \in LoggedIn /\ troubled = (owed # <<>>)
  /\ task = Idle
  /\ result = [op |-> "none", ok |-> FALSE, did |-> FALSE]

-----------------------------------------------------------------------------
(* What the server says, and what an operation does next.                  *)

Answers(t) ==
  {r \in Code :
    \/ r = Refused
    \/ r = 150 /\ t.cmd = "XFER" /\ t.port
    \/ r = 200 /\ t.cmd \in {"TYPE", "PORT", "OPTS", "NOOP"}
    \/ r = 213 /\ t.cmd \in {"SIZE", "LINKSIZE", "MDTM", "HASH", "XHASH"}
    \/ r = 227 /\ t.cmd = "PASV"
    \/ r = 229 /\ t.cmd = "EPSV"
    \/ r = 250 /\ t.cmd \in {"CWD", "GOTO", "CHDIR", "LINK", "SINGLE", "RNTO"}
    \/ r = 257 /\ t.cmd \in {"PWD", "WHERE"}
    \/ r = 350 /\ t.cmd \in {"REST", "RNFR"}}

\* How each operation begins.
Begins == {<<"retr", "TYPE">>, <<"stor", "TYPE">>, <<"list", "CWD">>,
           <<"single", "SINGLE">>, <<"rename", "RNFR">>, <<"path", "GOTO">>,
           <<"path", "WHERE">>, <<"stat", "CHDIR">>, <<"hash", "OPTS">>,
           <<"hash", "XHASH">>, <<"keepalive", "NOOP">>}

\* open_data
OpenData == IF ~Passive THEN "PORT" ELSE IF Epsv THEN "EPSV" ELSE "PASV"

\* An address to connect to. It is the one the server listens on if it is the
\* server's last word.
Address(t, got) == \/ t.cmd = "EPSV" /\ got = 229
                   \/ t.cmd = "PASV" /\ got = 227

\* prepare_transfer, open_passive and open_active: what follows on a reply.
AfterSetup(t, got, left, next) ==
  \/ t.cmd = "TYPE" /\ Positive(got)
     /\ next = IF t.rest THEN "REST" ELSE OpenData
  \/ t.cmd = "REST" /\ got = 350 /\ next = OpenData
  \/ t.cmd = "EPSV" /\ got \notin {229, NoReply} /\ next = "PASV"
  \/ Address(t, got) /\ left = <<>> /\ next = "XFER"
  \/ t.cmd = "PORT" /\ Positive(got) /\ next = "XFER"
  \/ t.cmd = "XFER" /\ got = 150 /\ next = "DATA"

\* list_dir, where PWD may fail, and annotate_symlink, where anything may.
\* One link of a listing is looked at.
AfterListing(t, got, next) ==
  \/ t.cmd = "CWD" /\ Positive(got) /\ next = "PWD"
  \/ t.cmd = "PWD" /\ next = OpenData
  \/ t.cmd = "LINK" /\ ~Positive(got) /\ next = "LINKSIZE"
  \/ t.cmd \in {"LINK", "LINKSIZE"} /\ next = "ok"

\* The other operations. stat takes what it can enter for a directory; a hash
\* without a digest is none.
AfterPlain(t, got, next) ==
  \/ t.cmd \in {"SINGLE", "RNTO", "CHDIR"} /\ Positive(got) /\ next = "ok"
  \/ t.cmd = "RNFR" /\ got = 350 /\ next = "RNTO"
  \/ t.cmd = "GOTO" /\ Positive(got) /\ next = "WHERE"
  \/ t.cmd = "WHERE" /\ got = 257 /\ next = "ok"
  \/ t.cmd = "CHDIR" /\ got = Refused /\ next = "SIZE"
  \/ t.cmd = "SIZE" /\ got = 213 /\ next \in {"MDTM", "ok"}
  \/ t.cmd = "MDTM" /\ next = "ok"
  \/ t.cmd = "OPTS" /\ next = "HASH"
  \/ t.cmd = "HASH" /\ got = 213 /\ next = "ok"
  \/ t.cmd = "XHASH" /\ got \in {213, 250} /\ next = "ok"
  \/ t.cmd = "NOOP" /\ got # NoReply /\ next = "ok"

GoesOn(t, got, left) ==
  {next \in Follow :
    IF t.cmd \in Setup THEN AfterSetup(t, got, left, next)
    ELSE IF t.cmd \in Listing THEN AfterListing(t, got, next)
    ELSE AfterPlain(t, got, next)}

\* LIST -a that failed once the data connection was to be opened, but not by
\* a late reply or a lost connection, may be tried once more as LIST.
Fails(t, late) ==
  {next \in {"fail", "again"} :
    next = "again" =>
      /\ t.op = "list" /\ ~t.plain /\ ~late
      /\ t.cmd \in {"EPSV", "PASV", "PORT", "XFER", "DATA", "END"}}

\* Where the operation goes on with the reply it got: another command, its
\* end or, with "again", the second form of LIST.
Proceed(t, got, left) ==
  LET on == GoesOn(t, got, left) IN
  on \cup IF on = {} \/ Address(t, got) THEN Fails(t, got = NoReply) ELSE {}

-----------------------------------------------------------------------------
(* The operations.                                                         *)

Begin(op) ==
  /\ task = Idle /\ Len(owed) <= MaxOwed
  /\ \E cmd \in Command, rest \in BOOLEAN, plain \in BOOLEAN :
       /\ <<op, cmd>> \in Begins
       /\ rest => op \in {"retr", "stor"}
       /\ plain \/ op = "list"
       /\ task' = [op |-> op, cmd |-> cmd, rest |-> rest, plain |-> plain,
                   port |-> FALSE, serving |-> FALSE, eof |-> FALSE,
                   cwd |-> FALSE, did |-> FALSE]
  /\ UNCHANGED <<owed, result, troubled>>

\* The operation goes on with the state t, and `left` not read.  Where it
\* drops a data connection, the server says what came of that.
GoOn(t, next, left) ==
  IF next \in {"fail", "ok"}
  THEN /\ task' = Idle
       /\ result' = [op |-> t.op, did |-> t.did,
                    ok |-> next = "ok" /\ (t.cmd = "END" => t.eof)]
       /\ owed' \in IF t.serving THEN {left \o <<e>> : e \in {226, Refused}}
                                 ELSE {left}
  ELSE /\ task' = [t EXCEPT !.cmd = IF next = "again" THEN OpenData
                                                       ELSE next,
                            !.plain = @ \/ next = "again",
                            !.serving = @ /\ next # "again"]
       /\ owed' \in IF t.serving /\ next = "again"
                    THEN {left \o <<e>> : e \in {226, Refused}} ELSE {left}
       /\ UNCHANGED result

\* What the server made of the command it answered with r.
Served(t, r, own) ==
  [t EXCEPT
    !.port = IF t.cmd \in {"EPSV", "PASV", "PORT"} THEN Positive(r) ELSE @,
    !.serving = t.cmd = "XFER" /\ r = 150,
    !.cwd = IF t.cmd = "CWD" THEN Positive(r) ELSE @,
    !.did = IF t.cmd \in {"SINGLE", "RNTO"} THEN Positive(r)
            ELSE IF t.cmd \in {"WHERE", "CHDIR", "SIZE", "HASH", "XHASH"} THEN own
            ELSE @]

\* command: the server answers, and the next reply is read unless it is late.
Exchange ==
  /\ task # Idle /\ task.cmd \in Command
  /\ \E r \in Answers(task), late \in BOOLEAN :
       LET all == Append(owed, r)
           got == IF late THEN NoReply ELSE Head(all)
           left == IF late THEN all ELSE Tail(all)
           t == Served(task, r, all = <<got>>)
       IN /\ \E next \in Proceed(task, got, left) : GoOn(t, next, left)
          /\ troubled' = (troubled \/ late)

\* The data connection is used up: the whole file went over it, the server
\* broke off, or the transfer was told to stop.
DataEnds(how) ==
  /\ task # Idle /\ task.cmd = "DATA" /\ task.serving
  /\ how = "stopped" => task.op # "list"
  /\ \E e \in {226, Refused} :
       /\ how = "whole" => e = 226
       /\ how = "broken" => e = Refused
       /\ owed' = Append(owed, e)
  /\ task' = [task EXCEPT !.cmd = "END", !.serving = FALSE,
                          !.eof = how # "stopped",
                          !.did = how = "whole" /\ (task.op = "list" => task.cwd)]
  /\ UNCHANGED <<result, troubled>>

\* TLS, reading, writing or waiting for the connection fails; reader or
\* writer are dropped.
DataFails ==
  /\ task # Idle /\ task.cmd = "DATA"
  /\ \E next \in Fails(task, FALSE) : GoOn(task, next, owed)
  /\ troubled' = TRUE

\* Slips: a transfer that was told to stop does not wait for its reply; what
\* the reply says is not looked at.
FinishUnread ==
  /\ task # Idle /\ task.cmd = "END"
  /\ GoOn(task, "ok", IF task.eof THEN Tail(owed) ELSE owed)
  /\ UNCHANGED troubled

FinishUnchecked ==
  /\ task # Idle /\ task.cmd = "END"
  /\ GoOn(task, "ok", Tail(owed))
  /\ UNCHANGED troubled

\* finish, and the end of fetch_listing.  A reader that was told to stop does
\* not look at what the reply says.
Finish ==
  /\ task # Idle /\ task.cmd = "END"
  /\ \E late \in BOOLEAN :
       LET got == IF late THEN NoReply ELSE Head(owed)
           left == IF late THEN owed ELSE Tail(owed)
           good == \/ Positive(got)
                   \/ ~late /\ ~task.eof /\ task.op = "retr"
       IN /\ \E next \in IF ~good THEN Fails(task, late)
                         ELSE IF task.op = "list" THEN {"ok", "LINK"} ELSE {"ok"} :
               GoOn(task, next, left)
          /\ troubled' = (troubled \/ late)

\* disconnect, and a new connection in its place.
Reconnect ==
  /\ task = Idle
  /\ owed' \in LoggedIn /\ troubled' = (owed' # <<>>)
  /\ UNCHANGED <<task, result>>

Next ==
  \/ \E op \in Ops : Begin(op)
  \/ Exchange
  \/ \E how \in {"whole", "broken", "stopped"} : DataEnds(how)
  \/ DataFails
  \/ Finish
  \/ Reconnect

Spec == Init /\ [][Next]_vars

-----------------------------------------------------------------------------
(* Properties.                                                             *)

\* Refusals, pauses and files broken off by the server leave the connection
\* in step: when an operation ends, every reply was read, unless one was late
\* or a data connection failed at some time.
InStep == task = Idle /\ ~troubled => owed = <<>>

\* A passive transfer or listing that ends without an error was complete,
\* even on a connection that is out of step (client.rs:499): no reply to
\* another command is taken for the start and the end of this one.
TransferHonest ==
  Passive /\ result.ok /\ result.op \in {"retr", "stor", "list"} => result.did

\* 'old name still exists after rename' (live_servers.rs:191): a command that
\* is reported as successful was carried out by the server.
CommandHonest ==
  result.ok /\ result.op \in {"single", "rename", "path", "stat", "hash"}
    => result.did
=============================================================================
