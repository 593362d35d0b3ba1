---------------------------- MODULE ConnectionPool ----------------------------
(***************************************************************************)
(* The connections of one FTP session (session.rs).  A transfer leases a   *)
(* client of its own: the one given back last, or a new connection when    *)
(* none is idle.  A lease that ends is pushed back by a task of its own.   *)
(* Meanwhile the user may disconnect: the pool is drained and its clients  *)
(* are disconnected, then the primary one; leases still out there end when *)
(* their transfers end, and what they give back goes away with the last    *)
(* reference to the session.                                               *)
(***************************************************************************)
EXTENDS Integers, Sequences, SequencesExt, FiniteSets, FiniteSetsExt

CONSTANTS Users,     \* the tasks that lease: transfers, and files opened to edit
          Leases,    \* Leases[u]: how many u takes (a copy inside a site: two)
          Clients    \* the extra connections that can be opened (bound)

ASSUME PoolAssumption ==
  /\ IsFiniteSet(Clients) /\ IsFiniteSet(Users)
  /\ Leases \in [Users -> {1, 2}]

VARIABLES
  session,    \* where disconnect is: the session is in the map while "open"
  primary,    \* the first connection, of listings and commands
  idle_pool,  \* the idle clients, the last one first out
  pooled_count,  \* the connections ever opened for transfers
  opened,     \* the clients behind pooled_count
  quit,       \* those that close disconnected
  user,       \* of each task: [pc, clients], the clients it leases
  returning,  \* clients on their way back, each in a spawned task
  drained,    \* what close took from the pool and has not disconnected
  keepalive,  \* the keepalive task
  peak        \* history: the most clients ever needed at one time

sessionVars == <<session, primary, drained, quit, keepalive>>
poolVars == <<session, primary, idle_pool, pooled_count, opened, quit, user,
              returning, drained, keepalive, peak>>

UserPc == {"away", "leasing", "opening", "working"}

Leased == UNION {user[u].clients : u \in Users}
Opening == {u \in Users : user[u].pc = "opening"}

\* Slip: a client keeps its session alive, idle ones included.
ReferencedByClients ==
  session # "closed" \/ returning # {} \/ keepalive = "pinging" \/ idle_pool # <<>>
    \/ \E u \in Users : user[u].pc # "away"

\* Somebody has an Arc of the session; keepalive has only a Weak of it.
Referenced ==
  \/ session # "closed"
  \/ \E u \in Users : user[u].pc # "away"
  \/ returning # {}
  \/ keepalive = "pinging"

\* The extra connections that exist: a client is dropped, and its socket
\* closed, with the last reference to it.
Connected ==
  (Leased \cup returning \cup drained
     \cup (IF Referenced THEN ToSet(idle_pool) ELSE {})) \ quit

PoolInit ==
  /\ session = "open" /\ primary = "up"
  /\ idle_pool = <<>> /\ pooled_count = 0
  /\ opened = {} /\ quit = {} /\ returning = {} /\ drained = {}
  /\ user = [u \in Users |-> [pc |-> "away", clients |-> {}]]
  /\ keepalive \in {"waiting", "ended"}
  /\ peak = 0

\* The clients in use, on their way back or being opened, in the next state.
NotePeak ==
  LET needed == Cardinality(Leased') + Cardinality(returning')
                  + Cardinality(Opening')
  IN  peak' = IF needed > peak THEN needed ELSE peak

-----------------------------------------------------------------------------
(* The tasks                                                               *)

\* sessions.get(id): only a session still in the map is found.
Get(u) ==
  /\ user[u].pc = "away" /\ session = "open"
  /\ user' = [user EXCEPT ![u].pc = "leasing"]
  /\ UNCHANGED <<idle_pool, pooled_count, opened, returning, peak, sessionVars>>

\* Slips: a task does not count its clients; a new one is opened whether or not
\* one is idle.
PopUncounted(u) ==
  /\ user[u].pc = "leasing" /\ idle_pool # <<>>
  /\ user' = [user EXCEPT ![u].clients = @ \cup {Last(idle_pool)}]
  /\ idle_pool' = Front(idle_pool)
  /\ UNCHANGED <<pooled_count, opened, returning, sessionVars>>
  /\ NotePeak

ConnectAlways(u) ==
  /\ user[u].pc = "leasing"
  /\ user' = [user EXCEPT ![u].pc = "opening"]
  /\ UNCHANGED <<idle_pool, pooled_count, opened, returning, sessionVars>>
  /\ NotePeak

\* transfer_client finds an idle client.
Pop(u) ==
  /\ user[u].pc = "leasing" /\ idle_pool # <<>>
  /\ LET got == user[u].clients \cup {Last(idle_pool)}
     IN user' = [user EXCEPT ![u].clients = got,
                             ![u].pc = IF Cardinality(got) = Leases[u]
                                       THEN "working" ELSE "leasing"]
  /\ idle_pool' = Front(idle_pool)
  /\ UNCHANGED <<pooled_count, opened, returning, sessionVars>>
  /\ NotePeak

\* transfer_client finds none and connects, with the pool unlocked.
Connect(u) ==
  /\ user[u].pc = "leasing" /\ idle_pool = <<>>
  /\ user' = [user EXCEPT ![u].pc = "opening"]
  /\ UNCHANGED <<idle_pool, pooled_count, opened, returning, sessionVars>>
  /\ NotePeak

Opened(u, c) ==
  /\ user[u].pc = "opening" /\ c \notin opened
  /\ opened' = opened \cup {c}
  /\ pooled_count' = pooled_count + 1
  /\ LET got == user[u].clients \cup {c}
     IN user' = [user EXCEPT ![u].clients = got,
                             ![u].pc = IF Cardinality(got) = Leases[u]
                                       THEN "working" ELSE "leasing"]
  /\ UNCHANGED <<idle_pool, returning, sessionVars>>
  /\ NotePeak

\* The task ends, whatever the state of its connections: it needed none, the
\* connection was refused, or the transfer is over.  Drop of each lease spawns
\* its return.
End(u) ==
  /\ user[u].pc # "away"
  /\ returning' = returning \cup user[u].clients
  /\ user' = [user EXCEPT ![u] = [pc |-> "away", clients |-> {}]]
  /\ UNCHANGED <<idle_pool, pooled_count, opened, sessionVars>>
  /\ NotePeak

\* The spawned task gets the lock of the pool.
GiveBack(c) ==
  /\ c \in returning
  /\ returning' = returning \ {c}
  /\ idle_pool' = Append(idle_pool, c)
  /\ UNCHANGED <<pooled_count, opened, user, peak, sessionVars>>

-----------------------------------------------------------------------------
(* The keepalive task and disconnect                                       *)

\* The ticker fires: the task goes on only while it can upgrade its Weak.
Tick ==
  /\ keepalive = "waiting"
  /\ keepalive' = IF Referenced THEN "pinging" ELSE "ended"
  /\ UNCHANGED <<session, primary, drained, quit, idle_pool, pooled_count,
                 opened, user, returning, peak>>

\* keepalive of the primary client returned, with or without an error.
Pinged ==
  /\ keepalive = "pinging"
  /\ keepalive' = "waiting"
  /\ UNCHANGED <<session, primary, drained, quit, idle_pool, pooled_count,
                 opened, user, returning, peak>>

\* disconnect removes the session from the map and close aborts keepalive.
Unregister ==
  /\ session = "open"
  /\ session' = "removed"
  /\ keepalive' = "ended"
  /\ UNCHANGED <<primary, drained, quit, idle_pool, pooled_count, opened,
                 user, returning, peak>>

\* Slip: the pool is copied and not emptied.
DrainCopying ==
  /\ session = "removed"
  /\ session' = "draining"
  /\ drained' = ToSet(idle_pool)
  /\ UNCHANGED <<idle_pool, primary, quit, keepalive, pooled_count, opened,
                 user, returning, peak>>

Drain ==
  /\ session = "removed"
  /\ session' = "draining"
  /\ drained' = ToSet(idle_pool)
  /\ idle_pool' = <<>>
  /\ UNCHANGED <<primary, quit, keepalive, pooled_count, opened, user,
                 returning, peak>>

DisconnectOne(c) ==
  /\ session = "draining" /\ c \in drained
  /\ quit' = quit \cup {c}
  /\ drained' = drained \ {c}
  /\ UNCHANGED <<session, primary, keepalive, idle_pool, pooled_count, opened,
                 user, returning, peak>>

DisconnectPrimary ==
  /\ session = "draining" /\ drained = {}
  /\ session' = "closed"
  /\ primary' = "quit"
  /\ UNCHANGED <<drained, quit, keepalive, idle_pool, pooled_count, opened,
                 user, returning, peak>>

Close ==
  Unregister \/ Drain \/ (\E c \in Clients : DisconnectOne(c)) \/ DisconnectPrimary

PoolNext ==
  \/ \E u \in Users : Get(u) \/ Pop(u) \/ Connect(u) \/ End(u)
                      \/ (\E c \in Clients : Opened(u, c))
  \/ \E c \in Clients : GiveBack(c)
  \/ Tick \/ Pinged \/ Close

\* Spawned tasks run, a task that holds the session ends (every wait of a
\* client has a timeout), and a close that began goes on.  Nobody has to disconnect
\* and no transfer has to begin.
PoolFairness ==
  /\ \A u \in Users : WF_poolVars(End(u))
  /\ \A c \in Clients : WF_poolVars(GiveBack(c)) /\ WF_poolVars(DisconnectOne(c))
  /\ WF_poolVars(Pinged) /\ WF_poolVars(Drain) /\ WF_poolVars(DisconnectPrimary)

PoolSpec == PoolInit /\ [][PoolNext]_poolVars /\ PoolFairness
-----------------------------------------------------------------------------
\* Types; a task has clients only while it leases, and as many as it wants.
PoolTypeOK ==
  /\ session \in {"open", "removed", "draining", "closed"}
  /\ primary \in {"up", "quit"}
  /\ idle_pool \in Seq(Clients)
  /\ pooled_count \in Nat
  /\ opened \subseteq Clients /\ quit \subseteq Clients
  /\ user \in [Users -> [pc : UserPc, clients : SUBSET Clients]]
  /\ \A u \in Users : /\ user[u].pc = "away" => user[u].clients = {}
                      /\ Cardinality(user[u].clients) <= Leases[u]
  /\ returning \subseteq Clients /\ drained \subseteq Clients
  /\ keepalive \in {"waiting", "pinging", "ended"}
  /\ peak \in Nat

\* A client speaks for one task at a time (the FTP control connection cannot
\* be shared): it is leased by one task, or on its way back, or idle, or being
\* disconnected, and it is idle once.
OneHolder ==
  /\ \A u, v \in Users : u # v => user[u].clients \cap user[v].clients = {}
  /\ Leased \cap returning = {}
  /\ (Leased \cup returning) \cap (ToSet(idle_pool) \cup drained) = {}
  /\ ToSet(idle_pool) \cap drained = {}
  /\ IsInjective(idle_pool)

\* A connection that close has sent QUIT on is never leased nor offered again,
\* and none that was opened is forgotten while the session lives.
QuitIsFinal ==
  /\ quit \cap (Leased \cup returning \cup ToSet(idle_pool)) = {}
  /\ opened = Leased \cup returning \cup ToSet(idle_pool) \cup drained \cup quit

\* Every connection that was ever opened for a transfer is in one place and is
\* spoken on by one task, from the lease to QUIT, whatever order leases,
\* returns, keepalive and disconnect take (session.rs:141-241).
InOnePlace == OneHolder /\ QuitIsFinal

\* While the session is open no more connections are opened than were once
\* needed together, counting those on their way back: a client given back is
\* used again before another is opened (transfer_client, session.rs:168-178).
OpenedWhenNeeded == session = "open" => pooled_count <= peak

\* After disconnect every extra connection goes away for good, also those
\* leased while the pool was drained and those opened afterwards by a task
\* that had found the session before.
DisconnectSettles == session = "closed" ~> [](Connected = {})
=============================================================================
