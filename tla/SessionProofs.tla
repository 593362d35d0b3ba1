----------------------------- MODULE SessionProofs -----------------------------
(***************************************************************************)
(* Proofs about what a session keeps besides its clients: the pool of      *)
(* connections for any number of tasks, the cached listings for every tree *)
(* of directories and any number of calls and commands, the making of an   *)
(* SFTP connection for any number of questions; and the types of the three *)
(* together, as MCSession composes them.                                   *)
(***************************************************************************)
EXTENDS MCSession, FiniteSetTheorems, SequenceTheorems, TLAPS

-----------------------------------------------------------------------------
(* The pool of connections                                                 *)

\* A task that still leases or opens has fewer clients than it wants.
Wanting ==
  \A u \in Users : user[u].pc \in {"leasing", "opening"} =>
    Cardinality(user[u].clients) < Leases[u]

\* Before the pool is drained nothing was taken from it to be disconnected.
Undrained == session \in {"open", "removed"} => drained = {} /\ quit = {}

\* Why OpenedWhenNeeded holds: what is being opened was counted as needed.
Counted ==
  /\ pooled_count = Cardinality(opened)
  /\ session = "open" => pooled_count + Cardinality(Opening) <= peak

PoolInv == PoolTypeOK /\ Wanting /\ Undrained /\ OneHolder /\ QuitIsFinal /\ Counted

-----------------------------------------------------------------------------
(* The idle clients as a sequence                                          *)

LEMMA EmptyPool == ToSet(<<>>) = {} /\ IsInjective(<<>>)
  BY DEF ToSet, IsInjective

LEMMA LastLeaves ==
  ASSUME NEW S, NEW s \in Seq(S), s # <<>>
  PROVE  /\ Last(s) \in S /\ Front(s) \in Seq(S)
         /\ ToSet(s) = ToSet(Front(s)) \cup {Last(s)}
         /\ IsInjective(s) => IsInjective(Front(s)) /\ Last(s) \notin ToSet(Front(s))
<1> DEFINE n == Len(s)
<1>1. n \in Nat /\ n > 0 /\ DOMAIN s = 1 .. n
  OBVIOUS
<1>2. /\ Front(s) \in Seq(S) /\ DOMAIN Front(s) = 1 .. (n - 1)
      /\ \A i \in 1 .. (n - 1) : Front(s)[i] = s[i]
  BY <1>1 DEF Front
<1>3. Last(s) \in S /\ Last(s) = s[n]
  BY <1>1 DEF Last
<1>4. ToSet(s) = ToSet(Front(s)) \cup {s[n]}
  BY <1>1, <1>2 DEF ToSet
<1>5. ASSUME IsInjective(s) PROVE IsInjective(Front(s)) /\ s[n] \notin ToSet(Front(s))
  BY <1>1, <1>2, <1>5 DEF IsInjective, ToSet
<1> QED BY <1>2, <1>3, <1>4, <1>5

LEMMA ComesLast ==
  ASSUME NEW S, NEW s \in Seq(S), NEW c \in S
  PROVE  /\ Append(s, c) \in Seq(S)
         /\ ToSet(Append(s, c)) = ToSet(s) \cup {c}
         /\ IsInjective(s) /\ c \notin ToSet(s) => IsInjective(Append(s, c))
<1> DEFINE n == Len(s)  t == Append(s, c)
<1>1. n \in Nat /\ DOMAIN s = 1 .. n /\ \A i \in 1 .. n : s[i] \in ToSet(s)
  BY DEF ToSet
<1>2. /\ t \in Seq(S) /\ DOMAIN t = 1 .. (n + 1)
      /\ \A i \in 1 .. n : t[i] = s[i]
      /\ t[n + 1] = c
  BY <1>1
<1>3. ToSet(t) = ToSet(s) \cup {c}
  BY <1>1, <1>2 DEF ToSet
<1>4. ASSUME IsInjective(s), c \notin ToSet(s) PROVE IsInjective(t)
  <2>1. ASSUME NEW i \in DOMAIN t, NEW j \in DOMAIN t, t[i] = t[j] PROVE i = j
    BY <1>1, <1>2, <1>4, <2>1 DEF IsInjective
  <2> QED BY <2>1 DEF IsInjective
<1> QED BY <1>2, <1>3, <1>4

-----------------------------------------------------------------------------
(* The peak                                                                *)

LEMMA TasksAreFinite ==
  ASSUME NEW f \in [Users -> [pc : UserPc, clients : SUBSET Clients]]
  PROVE  /\ IsFiniteSet(UNION {f[u].clients : u \in Users})
         /\ IsFiniteSet({u \in Users : f[u].pc = "opening"})
         /\ \A u \in Users : IsFiniteSet(f[u].clients)
<1>1. \A u \in Users : f[u].clients \subseteq Clients
  OBVIOUS
<1>2. UNION {f[u].clients : u \in Users} \subseteq Clients
  BY <1>1
<1> QED BY <1>1, <1>2, FS_Subset, PoolAssumption

LEMMA PeakGrows ==
  ASSUME peak \in Nat, NotePeak,
         IsFiniteSet(Leased'), IsFiniteSet(returning'), IsFiniteSet(Opening')
  PROVE  /\ peak' \in Nat /\ peak <= peak'
         /\ Cardinality(Leased') + Cardinality(returning') + Cardinality(Opening') <= peak'
<1>1. /\ Cardinality(Leased') \in Nat /\ Cardinality(returning') \in Nat
      /\ Cardinality(Opening') \in Nat
  BY FS_CardinalityType
<1> QED BY <1>1 DEF NotePeak

\* What a step of a task does to the peak.
LEMMA PeakOfStep ==
  ASSUME peak \in Nat, NotePeak, returning' \subseteq Clients,
         user' \in [Users -> [pc : UserPc, clients : SUBSET Clients]]
  PROVE  /\ peak' \in Nat /\ peak <= peak'
         /\ Cardinality(Leased') + Cardinality(returning') + Cardinality(Opening') <= peak'
<1>1. IsFiniteSet(Leased') /\ IsFiniteSet(Opening')
  BY TasksAreFinite DEF Leased, Opening
<1>2. IsFiniteSet(returning')
  BY FS_Subset, PoolAssumption
<1> QED BY <1>1, <1>2, PeakGrows

-----------------------------------------------------------------------------
(* Initially                                                               *)

LEMMA PoolInitial == ASSUME PoolInit PROVE PoolInv
<1>1. Leased = {} /\ Opening = {}
  BY DEF PoolInit, Leased, Opening
<1>2. \A u \in Users : user[u] = [pc |-> "away", clients |-> {}]
  BY DEF PoolInit
<1>3. Cardinality({}) = 0
  BY FS_EmptySet
<1>4. PoolTypeOK
  <2>1. \A u \in Users : Cardinality(user[u].clients) <= Leases[u]
    BY <1>2, <1>3, PoolAssumption
  <2> QED BY <1>2, <2>1 DEF PoolInit, PoolTypeOK, UserPc
<1>5. Wanting /\ Undrained
  BY <1>2 DEF Wanting, Undrained, PoolInit
<1>6. OneHolder
  BY <1>1, <1>2, EmptyPool DEF OneHolder, PoolInit
<1>7. QuitIsFinal
  BY <1>1, EmptyPool DEF QuitIsFinal, PoolInit
<1>8. Counted
  BY <1>1, <1>3 DEF Counted, PoolInit
<1> QED BY <1>4, <1>5, <1>6, <1>7, <1>8 DEF PoolInv

-----------------------------------------------------------------------------
(* A task that moves on with the clients it has                            *)

LEMMA MovesOn ==
  ASSUME PoolInv, NEW u \in Users, NEW q \in UserPc,
         user' = [user EXCEPT ![u].pc = q],
         UNCHANGED <<idle_pool, pooled_count, opened, returning, sessionVars>>
  PROVE  /\ Leased' = Leased
         /\ user' \in [Users -> [pc : UserPc, clients : SUBSET Clients]]
         /\ OneHolder' /\ QuitIsFinal' /\ Undrained'
<1>1. /\ user \in [Users -> [pc : UserPc, clients : SUBSET Clients]]
      /\ \A v \in Users : user'[v].clients = user[v].clients
      /\ user' \in [Users -> [pc : UserPc, clients : SUBSET Clients]]
  BY DEF PoolInv, PoolTypeOK
<1>2. Leased' = Leased
  BY <1>1 DEF Leased
<1>3. OneHolder'
  BY <1>1, <1>2 DEF PoolInv, OneHolder, sessionVars
<1>4. QuitIsFinal' /\ Undrained'
  BY <1>2 DEF PoolInv, QuitIsFinal, Undrained, sessionVars
<1> QED BY <1>1, <1>2, <1>3, <1>4

LEMMA GetKeeps == ASSUME PoolInv, NEW u \in Users, Get(u) PROVE PoolInv'
<1>1. /\ user[u].pc = "away" /\ user' = [user EXCEPT ![u].pc = "leasing"]
      /\ UNCHANGED <<idle_pool, pooled_count, opened, returning, peak, sessionVars>>
  BY DEF Get
<1>2. /\ user' \in [Users -> [pc : UserPc, clients : SUBSET Clients]]
      /\ OneHolder' /\ QuitIsFinal' /\ Undrained'
  BY <1>1, MovesOn DEF UserPc
<1>3. user[u].clients = {} /\ \A v \in Users : user'[v].clients = user[v].clients
  BY <1>1 DEF PoolInv, PoolTypeOK
<1>4. PoolTypeOK'
  BY <1>1, <1>2, <1>3 DEF PoolInv, PoolTypeOK, sessionVars
<1>5. Wanting'
  <2>1. Cardinality(user[u].clients) = 0
    BY <1>3, FS_EmptySet
  <2>2. ASSUME NEW v \in Users, user'[v].pc \in {"leasing", "opening"}
        PROVE  Cardinality(user'[v].clients) < Leases[v]
    <3>1. user'[v].clients = user[v].clients /\ Leases[v] \in {1, 2}
      BY <1>3, PoolAssumption
    <3>2. CASE v = u
      BY <2>1, <3>1, <3>2
    <3>3. CASE v # u
      BY <1>1, <2>2, <3>1, <3>3 DEF PoolInv, Wanting, PoolTypeOK
    <3> QED BY <3>2, <3>3
  <2> QED BY <2>2 DEF Wanting
<1>6. Opening' = Opening
  BY <1>1 DEF Opening, PoolInv, PoolTypeOK
<1>7. Counted'
  BY <1>1, <1>6 DEF PoolInv, Counted, sessionVars
<1> QED BY <1>2, <1>4, <1>5, <1>7 DEF PoolInv

LEMMA ConnectKeeps == ASSUME PoolInv, NEW u \in Users, Connect(u) PROVE PoolInv'
<1>1. /\ user[u].pc = "leasing" /\ user' = [user EXCEPT ![u].pc = "opening"]
      /\ idle_pool = <<>> /\ NotePeak
      /\ UNCHANGED <<idle_pool, pooled_count, opened, returning, sessionVars>>
  BY DEF Connect
<1>2. /\ Leased' = Leased /\ OneHolder' /\ QuitIsFinal' /\ Undrained'
      /\ user' \in [Users -> [pc : UserPc, clients : SUBSET Clients]]
  BY <1>1, MovesOn DEF UserPc
<1>3. /\ peak' \in Nat
      /\ Cardinality(Leased') + Cardinality(returning') + Cardinality(Opening') <= peak'
  BY <1>1, <1>2, PeakOfStep DEF PoolInv, PoolTypeOK
<1>4. \A v \in Users : user'[v].clients = user[v].clients
  BY <1>1 DEF PoolInv, PoolTypeOK
<1>5. PoolTypeOK'
  BY <1>1, <1>2, <1>3, <1>4 DEF PoolInv, PoolTypeOK, sessionVars
<1>6. Wanting'
  BY <1>1, <1>4 DEF PoolInv, Wanting, PoolTypeOK
<1>7. Counted'
  <2>1. ASSUME session = "open"
        PROVE  pooled_count = Cardinality(Leased) + Cardinality(returning)
    <3>1. opened = Leased \cup returning /\ Leased \cap returning = {}
      BY <1>1, <2>1, EmptyPool DEF PoolInv, QuitIsFinal, OneHolder, Undrained
    <3>2. IsFiniteSet(Leased) /\ IsFiniteSet(returning)
      BY TasksAreFinite, FS_Subset, PoolAssumption DEF PoolInv, PoolTypeOK, Leased
    <3>3. Cardinality(Leased) \in Nat /\ Cardinality(returning) \in Nat
      BY <3>2, FS_CardinalityType
    <3>4. Cardinality(opened) = Cardinality(Leased) + Cardinality(returning)
      <4>1. Cardinality(Leased \cup returning)
              = Cardinality(Leased) + Cardinality(returning) - Cardinality(Leased \cap returning)
        BY <3>2, FS_Union
      <4>2. Cardinality(Leased \cap returning) = 0
        BY <3>1, FS_EmptySet
      <4> QED BY <3>1, <3>3, <4>1, <4>2
    <3> QED BY <3>4 DEF PoolInv, Counted
  <2> QED BY <1>1, <1>2, <1>3, <2>1 DEF PoolInv, Counted, sessionVars
<1> QED BY <1>2, <1>5, <1>6, <1>7 DEF PoolInv

-----------------------------------------------------------------------------
(* A task that gets one client more                                        *)

LEMMA GetsOne ==
  ASSUME PoolInv, NEW u \in Users, NEW c \in Clients, c \notin Leased,
         user[u].pc \in {"leasing", "opening"},
         LET got == user[u].clients \cup {c}
         IN user' = [user EXCEPT ![u].clients = got,
                                 ![u].pc = IF Cardinality(got) = Leases[u]
                                           THEN "working" ELSE "leasing"]
  PROVE  /\ user' \in [Users -> [pc : UserPc, clients : SUBSET Clients]]
         /\ Leased' = Leased \cup {c} /\ Opening' = Opening \ {u} /\ Wanting'
         /\ \A v \in Users : /\ user'[v].pc = "away" => user'[v].clients = {}
                             /\ Cardinality(user'[v].clients) <= Leases[v]
         /\ \A v, w \in Users : v # w => user'[v].clients \cap user'[w].clients = {}
<1> DEFINE got == user[u].clients \cup {c}
           q == IF Cardinality(got) = Leases[u] THEN "working" ELSE "leasing"
<1>1. /\ user \in [Users -> [pc : UserPc, clients : SUBSET Clients]]
      /\ q \in {"working", "leasing"} /\ q \in UserPc
  BY DEF PoolInv, PoolTypeOK, UserPc
<1>2. /\ user'[u].pc = q /\ user'[u].clients = got
      /\ \A v \in Users \ {u} : user'[v] = user[v]
      /\ user' \in [Users -> [pc : UserPc, clients : SUBSET Clients]]
  BY <1>1
<1>3. Leased' = Leased \cup {c} /\ Opening' = Opening \ {u}
  BY <1>1, <1>2 DEF Leased, Opening
<1>4. /\ Cardinality(got) \in Nat /\ Cardinality(got) <= Leases[u]
      /\ q = "leasing" => Cardinality(got) < Leases[u]
  <2>1. /\ IsFiniteSet(user[u].clients) /\ Cardinality(user[u].clients) < Leases[u]
        /\ Leases[u] \in {1, 2} /\ c \notin user[u].clients
    BY <1>1, TasksAreFinite, PoolAssumption DEF PoolInv, Wanting, Leased
  <2>2. Cardinality(user[u].clients) \in Nat
    BY <2>1, FS_CardinalityType
  <2>3. Cardinality(got) = Cardinality(user[u].clients) + 1
    BY <2>1, FS_AddElement
  <2> QED BY <2>1, <2>2, <2>3
<1>5. ASSUME NEW v \in Users
      PROVE  /\ user'[v].pc = "away" => user'[v].clients = {}
             /\ Cardinality(user'[v].clients) <= Leases[v]
             /\ user'[v].pc \in {"leasing", "opening"} =>
                  Cardinality(user'[v].clients) < Leases[v]
  <2>1. CASE v = u
    BY <1>1, <1>2, <1>4, <2>1
  <2>2. CASE v # u
    <3>1. user'[v] = user[v]
      BY <1>2, <2>2
    <3> QED BY <3>1 DEF PoolInv, PoolTypeOK, Wanting
  <2> QED BY <2>1, <2>2
<1>6. ASSUME NEW v \in Users, NEW w \in Users, v # w
      PROVE  user'[v].clients \cap user'[w].clients = {}
  BY <1>2, <1>6 DEF PoolInv, OneHolder, Leased
<1> QED BY <1>2, <1>3, <1>5, <1>6 DEF Wanting

LEMMA PopKeeps == ASSUME PoolInv, NEW u \in Users, Pop(u) PROVE PoolInv'
<1> DEFINE c == Last(idle_pool)
<1>1. /\ user[u].pc = "leasing" /\ idle_pool # <<>> /\ NotePeak
      /\ idle_pool' = Front(idle_pool)
      /\ UNCHANGED <<pooled_count, opened, returning, sessionVars>>
  BY DEF Pop
<1>2. /\ c \in Clients /\ idle_pool' \in Seq(Clients)
      /\ ToSet(idle_pool) = ToSet(idle_pool') \cup {c} /\ c \notin ToSet(idle_pool')
      /\ IsInjective(idle_pool')
  BY <1>1, LastLeaves DEF PoolInv, PoolTypeOK, OneHolder
<1>3. c \notin Leased /\ c \notin returning /\ c \notin drained /\ c \notin quit
  BY <1>2 DEF PoolInv, OneHolder, QuitIsFinal
<1>4. /\ user' \in [Users -> [pc : UserPc, clients : SUBSET Clients]]
      /\ Leased' = Leased \cup {c} /\ Opening' = Opening \ {u} /\ Wanting'
      /\ \A v \in Users : /\ user'[v].pc = "away" => user'[v].clients = {}
                          /\ Cardinality(user'[v].clients) <= Leases[v]
      /\ \A v, w \in Users : v # w => user'[v].clients \cap user'[w].clients = {}
  BY <1>1, <1>2, <1>3, GetsOne DEF Pop
<1>5. peak' \in Nat /\ peak <= peak'
  BY <1>1, <1>4, PeakOfStep DEF PoolInv, PoolTypeOK
<1>6. PoolTypeOK'
  BY <1>1, <1>2, <1>4, <1>5 DEF PoolInv, PoolTypeOK, sessionVars
<1>7. OneHolder'
  BY <1>1, <1>2, <1>3, <1>4 DEF PoolInv, OneHolder, sessionVars
<1>8. QuitIsFinal' /\ Undrained'
  BY <1>1, <1>2, <1>3, <1>4 DEF PoolInv, QuitIsFinal, Undrained, sessionVars
<1>9. Counted'
  <2>1. user[u].pc # "opening"
    BY <1>1
  <2>2. Opening' = Opening
    BY <1>4, <2>1 DEF Opening
  <2>3. IsFiniteSet(Opening)
    BY TasksAreFinite DEF Opening, PoolInv, PoolTypeOK
  <2>4. Cardinality(Opening) \in Nat
    BY <2>3, FS_CardinalityType
  <2> QED BY <1>1, <1>5, <2>2, <2>4 DEF PoolInv, Counted, PoolTypeOK, sessionVars
<1> QED BY <1>4, <1>6, <1>7, <1>8, <1>9 DEF PoolInv

LEMMA OpenedKeeps ==
  ASSUME PoolInv, NEW u \in Users, NEW c \in Clients, Opened(u, c) PROVE PoolInv'
<1>1. /\ user[u].pc = "opening" /\ c \notin opened /\ NotePeak
      /\ opened' = opened \cup {c} /\ pooled_count' = pooled_count + 1
      /\ UNCHANGED <<idle_pool, returning, sessionVars>>
  BY DEF Opened
<1>2. /\ c \notin Leased /\ c \notin returning /\ c \notin ToSet(idle_pool)
      /\ c \notin drained /\ c \notin quit
  BY <1>1 DEF PoolInv, QuitIsFinal
<1>3. /\ user' \in [Users -> [pc : UserPc, clients : SUBSET Clients]]
      /\ Leased' = Leased \cup {c} /\ Opening' = Opening \ {u} /\ Wanting'
      /\ \A v \in Users : /\ user'[v].pc = "away" => user'[v].clients = {}
                          /\ Cardinality(user'[v].clients) <= Leases[v]
      /\ \A v, w \in Users : v # w => user'[v].clients \cap user'[w].clients = {}
  BY <1>1, <1>2, GetsOne DEF Opened
<1>4. peak' \in Nat /\ peak <= peak'
  BY <1>1, <1>3, PeakOfStep DEF PoolInv, PoolTypeOK
<1>5. PoolTypeOK'
  BY <1>1, <1>3, <1>4 DEF PoolInv, PoolTypeOK, sessionVars
<1>6. OneHolder'
  BY <1>1, <1>2, <1>3 DEF PoolInv, OneHolder, sessionVars
<1>7. QuitIsFinal' /\ Undrained'
  BY <1>1, <1>2, <1>3 DEF PoolInv, QuitIsFinal, Undrained, sessionVars
<1>8. Counted'
  <2>1. IsFiniteSet(opened) /\ IsFiniteSet(Opening) /\ u \in Opening
    BY <1>1, TasksAreFinite, FS_Subset, PoolAssumption DEF PoolInv, PoolTypeOK, Opening
  <2>2. Cardinality(opened') = Cardinality(opened) + 1
    BY <1>1, <2>1, FS_AddElement
  <2>3. Cardinality(Opening') = Cardinality(Opening) - 1
    BY <1>3, <2>1, FS_RemoveElement
  <2>4. Cardinality(opened) \in Nat /\ Cardinality(Opening) \in Nat
    BY <2>1, FS_CardinalityType
  <2> QED BY <1>1, <1>4, <2>2, <2>3, <2>4 DEF PoolInv, Counted, PoolTypeOK, sessionVars
<1> QED BY <1>3, <1>5, <1>6, <1>7, <1>8 DEF PoolInv

-----------------------------------------------------------------------------
(* Clients that come back                                                  *)

LEMMA EndKeeps == ASSUME PoolInv, NEW u \in Users, End(u) PROVE PoolInv'
<1> DEFINE mine == user[u].clients
<1>1. /\ user' = [user EXCEPT ![u] = [pc |-> "away", clients |-> {}]]
      /\ returning' = returning \cup mine /\ NotePeak
      /\ UNCHANGED <<idle_pool, pooled_count, opened, sessionVars>>
  BY DEF End
<1>2. /\ user \in [Users -> [pc : UserPc, clients : SUBSET Clients]]
      /\ user' \in [Users -> [pc : UserPc, clients : SUBSET Clients]]
      /\ user'[u].pc = "away" /\ user'[u].clients = {}
      /\ \A v \in Users \ {u} : user'[v] = user[v]
      /\ mine \subseteq Clients /\ mine \subseteq Leased
  BY <1>1 DEF PoolInv, PoolTypeOK, UserPc, Leased
<1>3. Leased' = Leased \ mine
  BY <1>2 DEF PoolInv, OneHolder, Leased
<1>4. Opening' \subseteq Opening
  BY <1>2 DEF Opening
<1>5. peak' \in Nat /\ peak <= peak' /\ returning' \subseteq Clients
  BY <1>1, <1>2, PeakOfStep DEF PoolInv, PoolTypeOK
<1>6. ASSUME NEW v \in Users
      PROVE  /\ user'[v].pc = "away" => user'[v].clients = {}
             /\ Cardinality(user'[v].clients) <= Leases[v]
             /\ user'[v].pc \in {"leasing", "opening"} =>
                  Cardinality(user'[v].clients) < Leases[v]
  <2>1. CASE v = u
    <3>1. Cardinality({}) = 0 /\ Leases[v] \in {1, 2}
      BY FS_EmptySet, PoolAssumption
    <3>2. user'[v].clients = {} /\ user'[v].pc = "away"
      BY <1>2, <2>1
    <3>3. Cardinality(user'[v].clients) = 0
      BY <3>1, <3>2
    <3> QED BY <3>1, <3>2, <3>3
  <2>2. CASE v # u
    <3>1. user'[v] = user[v]
      BY <1>2, <2>2
    <3> QED BY <3>1 DEF PoolInv, PoolTypeOK, Wanting
  <2> QED BY <2>1, <2>2
<1>7. PoolTypeOK' /\ Wanting'
  BY <1>1, <1>2, <1>5, <1>6 DEF PoolInv, PoolTypeOK, Wanting, sessionVars
<1>8. OneHolder'
  <2>1. \A v, w \in Users : v # w => user'[v].clients \cap user'[w].clients = {}
    BY <1>2 DEF PoolInv, OneHolder
  <2> QED BY <1>1, <1>2, <1>3, <2>1 DEF PoolInv, OneHolder, sessionVars
<1>9. QuitIsFinal' /\ Undrained'
  BY <1>1, <1>2, <1>3 DEF PoolInv, QuitIsFinal, Undrained, sessionVars
<1>10. Counted'
  <2>1. IsFiniteSet(Opening) /\ Cardinality(Opening) \in Nat
    BY <1>2, TasksAreFinite, FS_CardinalityType DEF Opening
  <2>2. Cardinality(Opening') \in Nat /\ Cardinality(Opening') <= Cardinality(Opening)
    BY <1>4, <2>1, FS_Subset, FS_CardinalityType
  <2> QED BY <1>1, <1>5, <2>1, <2>2 DEF PoolInv, Counted, PoolTypeOK, sessionVars
<1> QED BY <1>7, <1>8, <1>9, <1>10 DEF PoolInv

LEMMA GiveBackKeeps == ASSUME PoolInv, NEW c \in Clients, GiveBack(c) PROVE PoolInv'
<1>1. /\ c \in returning /\ returning' = returning \ {c}
      /\ idle_pool' = Append(idle_pool, c)
      /\ UNCHANGED <<pooled_count, opened, user, peak, sessionVars>>
  BY DEF GiveBack
<1>2. c \notin Leased /\ c \notin ToSet(idle_pool) /\ c \notin drained /\ c \notin quit
  BY <1>1 DEF PoolInv, OneHolder, QuitIsFinal
<1>3. /\ idle_pool' \in Seq(Clients) /\ ToSet(idle_pool') = ToSet(idle_pool) \cup {c}
      /\ IsInjective(idle_pool')
  BY <1>1, <1>2, ComesLast DEF PoolInv, PoolTypeOK, OneHolder
<1>4. Leased' = Leased /\ Opening' = Opening
  BY <1>1 DEF Leased, Opening
<1>5. PoolTypeOK' /\ Wanting' /\ Undrained' /\ Counted'
  BY <1>1, <1>3, <1>4 DEF PoolInv, PoolTypeOK, Wanting, Undrained, Counted, sessionVars
<1>6. OneHolder'
  BY <1>1, <1>2, <1>3, <1>4 DEF PoolInv, OneHolder, sessionVars
<1>7. QuitIsFinal'
  BY <1>1, <1>2, <1>3, <1>4 DEF PoolInv, QuitIsFinal, sessionVars
<1> QED BY <1>5, <1>6, <1>7 DEF PoolInv

-----------------------------------------------------------------------------
(* Keepalive and disconnect                                                *)

LEMMA KeepaliveKeeps == ASSUME PoolInv, Tick \/ Pinged PROVE PoolInv'
<1>1. /\ keepalive' \in {"waiting", "pinging", "ended"}
      /\ UNCHANGED <<session, primary, drained, quit, idle_pool, pooled_count, opened,
                     user, returning, peak>>
  BY DEF Tick, Pinged
<1>2. Leased' = Leased /\ Opening' = Opening
  BY <1>1 DEF Leased, Opening
<1> QED BY <1>1, <1>2 DEF PoolInv, PoolTypeOK, Wanting, Undrained, OneHolder, QuitIsFinal, Counted

LEMMA CloseKeeps == ASSUME PoolInv, Close PROVE PoolInv'
<1>1. UNCHANGED <<pooled_count, opened, user, returning, peak>>
  BY DEF Close, Unregister, Drain, DisconnectOne, DisconnectPrimary
<1>2. Leased' = Leased /\ Opening' = Opening
  BY <1>1 DEF Leased, Opening
<1>3. session' # "open" /\ session' \in {"removed", "draining", "closed"}
  BY DEF Close, Unregister, Drain, DisconnectOne, DisconnectPrimary
<1>4. Wanting' /\ Counted'
  BY <1>1, <1>2, <1>3 DEF PoolInv, Wanting, Counted
<1>5. CASE Unregister \/ DisconnectPrimary
  <2>1. /\ UNCHANGED <<idle_pool, drained, quit>> /\ primary' \in {"up", "quit"}
        /\ keepalive' \in {"waiting", "pinging", "ended"}
        /\ session' = "closed" \/ (session = "open" /\ session' = "removed")
    BY <1>5 DEF Unregister, DisconnectPrimary, PoolInv, PoolTypeOK
  <2> QED BY <1>1, <1>2, <1>3, <1>4, <2>1
          DEF PoolInv, PoolTypeOK, Undrained, OneHolder, QuitIsFinal
<1>6. CASE Drain
  <2>1. /\ session = "removed" /\ session' = "draining" /\ drained = {} /\ quit = {}
        /\ drained' = ToSet(idle_pool) /\ idle_pool' = <<>>
        /\ UNCHANGED <<primary, quit, keepalive>>
    BY <1>6 DEF Drain, PoolInv, Undrained
  <2>2. idle_pool' \in Seq(Clients) /\ ToSet(idle_pool') = {} /\ IsInjective(idle_pool')
    BY <2>1, EmptyPool
  <2>3. drained' \subseteq Clients
    BY <2>1 DEF ToSet, PoolInv, PoolTypeOK
  <2>4. PoolTypeOK' /\ Undrained'
    BY <1>1, <2>1, <2>2, <2>3 DEF PoolInv, PoolTypeOK, Undrained
  <2>5. OneHolder' /\ QuitIsFinal'
    BY <1>1, <1>2, <2>1, <2>2 DEF PoolInv, OneHolder, QuitIsFinal
  <2> QED BY <1>4, <2>4, <2>5 DEF PoolInv
<1>7. ASSUME NEW c \in Clients, DisconnectOne(c) PROVE PoolInv'
  <2>1. /\ session = "draining" /\ c \in drained
        /\ quit' = quit \cup {c} /\ drained' = drained \ {c}
        /\ UNCHANGED <<session, primary, keepalive, idle_pool>>
    BY <1>7 DEF DisconnectOne
  <2>2. PoolTypeOK' /\ Undrained'
    BY <1>1, <2>1 DEF PoolInv, PoolTypeOK, Undrained
  <2>3. OneHolder' /\ QuitIsFinal'
    BY <1>1, <1>2, <2>1 DEF PoolInv, OneHolder, QuitIsFinal
  <2> QED BY <1>4, <2>2, <2>3 DEF PoolInv
<1> QED BY <1>5, <1>6, <1>7 DEF Close

-----------------------------------------------------------------------------
(* The theorems                                                            *)

LEMMA PoolStep == ASSUME PoolInv, [PoolNext]_poolVars PROVE PoolInv'
<1>1. CASE UNCHANGED poolVars
  BY <1>1 DEF poolVars, PoolInv, PoolTypeOK, Wanting, Undrained, OneHolder, QuitIsFinal,
              Counted, Leased, Opening
<1>2. CASE PoolNext
  BY <1>2, GetKeeps, PopKeeps, ConnectKeeps, OpenedKeeps, EndKeeps, GiveBackKeeps,
     KeepaliveKeeps, CloseKeeps DEF PoolNext
<1> QED BY <1>1, <1>2

\* The inductive invariant of the pool of one session (session.rs:132-240).
THEOREM PoolInvariant == PoolSpec => []PoolInv
<1> QED BY PoolInitial, PoolStep, PTL DEF PoolSpec

\* Types, and no task has more clients than it asked for.
THEOREM PoolTypeCorrect == PoolSpec => []PoolTypeOK
<1>1. PoolInv => PoolTypeOK
  BY DEF PoolInv
<1> QED BY <1>1, PoolInvariant, PTL

\* No two tasks ever speak on one connection, whatever is leased, given back,
\* opened and disconnected at the same time; one that was told to quit is never
\* leased again, and none is forgotten.
THEOREM InOnePlaceAlways == PoolSpec => []InOnePlace
<1>1. PoolInv => InOnePlace
  BY DEF PoolInv, InOnePlace
<1> QED BY <1>1, PoolInvariant, PTL

\* While the session is open, connections are opened only as far as they were
\* needed at one time.
THEOREM OpenedAsNeeded == PoolSpec => []OpenedWhenNeeded
<1>1. PoolInv => OpenedWhenNeeded
  <2>1. ASSUME PoolInv PROVE IsFiniteSet(Opening)
    BY <2>1, TasksAreFinite DEF Opening, PoolInv, PoolTypeOK
  <2>2. ASSUME PoolInv PROVE Cardinality(Opening) \in Nat
    BY <2>1, <2>2, FS_CardinalityType
  <2> QED BY <2>2 DEF PoolInv, Counted, PoolTypeOK, OpenedWhenNeeded
<1> QED BY <1>1, PoolInvariant, PTL

-----------------------------------------------------------------------------
(* The making of an SFTP connection                                        *)

\* What the broker, the interface and ssh have to do with the question a.
Question(a) ==
  /\ a > asked => InStage(a, "none")
  /\ a < asked => InStage(a, "over")
  /\ ask[a].stage \in {"none", "opening", "waiting"} => ask[a].reply = "none"
  /\ ask[a].stage \in {"none", "opening"} => mail[a] = "empty"
  /\ InStage(a, "waiting") => mail[a] # "expired"
  /\ a \in pending => mail[a] = "empty"
  /\ ask[a].reply = "yes" => mail[a] = "yes"
  /\ InStage(a, "opening") => prompts < asked

\* What the questions are not about.
RestOK ==
  /\ call \in {"none", "connecting", "giving up", "connected", "failed", "closed"}
  /\ ssh \in {"none", "running", "exited"}
  /\ pipe \in {"none", "listening", "stopping", "gone"}
  /\ password \in {"none", "stored", "typed"}
  /\ uses \in 0 .. 1

MailType == [Asks -> Said \cup {"empty", "expired"}]

LoginInv ==
  LoginTypeOK /\ prompts <= asked /\ \A a \in Asks : Question(a)


QuestionType == [kind : Kinds,
              stage : {"none", "opening", "waiting", "replied", "over"},
              reply : Said \cup {"none", "ok", "stored"}]

LEMMA LoginTyping ==
  ASSUME LoginInv
  PROVE  /\ asked \in 0 .. LastAsk /\ asked \in Nat
         /\ prompts \in 0 .. asked /\ prompts \in Nat
         /\ ask \in [Asks -> QuestionType] /\ pending \subseteq Asks
         /\ \A a \in Asks : a \in Nat
         /\ RestOK /\ mail \in MailType
<1>1. LastAsk \in Nat /\ asked \in 0 .. LastAsk /\ prompts \in 0 .. LastAsk /\ prompts <= asked
  BY LoginAssumption DEF LoginInv, LoginTypeOK
<1>2. prompts \in 0 .. asked /\ asked \in Nat /\ prompts \in Nat
  BY <1>1
<1>3. \A a \in Asks : a \in Nat
  BY <1>1 DEF Asks
<1> QED BY <1>1, <1>2, <1>3 DEF LoginInv, LoginTypeOK, QuestionType, RestOK, MailType

LEMMA LoginInitial == ASSUME LoginInit PROVE LoginInv
<1>1. LoginTypeOK
  BY LoginAssumption DEF LoginInit, LoginTypeOK, Asks, Kinds, Said, InStage
<1>2. \A a \in Asks : Question(a)
  BY LoginAssumption DEF LoginInit, Question, InStage, Asks
<1> QED BY <1>1, <1>2 DEF LoginInv, LoginInit

\* A step that concerns one question only: the others stay as they were.
LEMMA OneQuestion ==
  ASSUME LoginInv, NEW a \in Asks, NEW w \in QuestionType,
         ask' = [ask EXCEPT ![a] = w],
         UNCHANGED asked, prompts' \in 0 .. asked,
         pending' \subseteq Asks, pending' \ {a} = pending \ {a},
         mail' \in MailType,
         \A b \in Asks \ {a} : mail'[b] = mail[b],
         a \in pending' => w.stage = "waiting",
         RestOK',
         ~InStage(a, "over"), ~InStage(a, "none"), Question(a)'
  PROVE  LoginInv'
<1>1. /\ ask' \in [Asks -> QuestionType] /\ ask'[a] = w
      /\ \A b \in Asks \ {a} : ask'[b] = ask[b]
  BY DEF LoginInv, LoginTypeOK, QuestionType
<1>2. asked \in 0 .. LastAsk /\ asked \in Nat /\ asked' = asked /\ a = asked
  <2>1. ~(a > asked) /\ ~(a < asked)
    BY DEF LoginInv, Question, InStage
  <2>2. asked \in 0 .. LastAsk /\ asked \in Nat /\ a \in Nat
    BY LoginTyping
  <2> QED BY <2>1, <2>2
<1>3. pending' \subseteq {b \in Asks : InStage(b, "waiting")'}
  BY <1>1 DEF LoginInv, LoginTypeOK, InStage
<1>4. LoginTypeOK'
  <2>1. prompts' \in 0 .. LastAsk /\ LastAsk \in Nat
    BY <1>2, LoginAssumption
  <2> QED BY <1>1, <1>2, <1>3, <2>1 DEF LoginTypeOK, QuestionType, RestOK, MailType
<1>5. ASSUME NEW b \in Asks \ {a} PROVE Question(b)'
  <2>1. Question(b) /\ (b \in pending' <=> b \in pending)
    BY DEF LoginInv
  <2>2. ~InStage(b, "opening")
    BY <2>1, <1>2, LoginTyping DEF Question, InStage
  <2> QED BY <2>1, <2>2, <1>1, <1>2 DEF Question, InStage
<1> QED BY <1>2, <1>4, <1>5 DEF LoginInv

\* A step that leaves the questions alone.
LEMMA NoQuestion ==
  ASSUME LoginInv, UNCHANGED <<asked, ask, pending, mail, password, uses, prompts>>,
         call' \in {"none", "connecting", "giving up", "connected", "failed", "closed"},
         ssh' \in {"none", "running", "exited"},
         pipe' \in {"none", "listening", "stopping", "gone"}
  PROVE  LoginInv'
<1>1. LoginTypeOK'
  BY DEF LoginInv, LoginTypeOK, InStage
<1>2. ASSUME NEW a \in Asks PROVE Question(a)'
  BY DEF LoginInv, Question, InStage
<1> QED BY <1>1, <1>2 DEF LoginInv

LEMMA ConnectKeepsQuestions ==
  ASSUME LoginInv,
         \/ Start \/ SshConnects \/ SshExits \/ HandshakeFails \/ Reap
         \/ CloseConnection \/ PipeStops
  PROVE  LoginInv'
<1>1. /\ UNCHANGED <<asked, ask, pending, mail, password, uses, prompts>>
      /\ call' \in {"none", "connecting", "giving up", "connected", "failed", "closed"}
      /\ ssh' \in {"none", "running", "exited"}
      /\ pipe' \in {"none", "listening", "stopping", "gone"}
  BY DEF LoginInv, LoginTypeOK, Start, SshConnects, SshExits, HandshakeFails, Reap,
         CloseConnection, PipeStops, StopPipe
<1> QED BY <1>1, NoQuestion

LEMMA SshAsksKeeps ==
  ASSUME LoginInv, NEW kind \in Kinds, SshAsks(kind) PROVE LoginInv'
<1> DEFINE w == [kind |-> kind, stage |-> "opening", reply |-> "none"]
<1>0. asked \in Nat
  BY LoginTyping
<1> PICK n \in Nat : n = asked + 1
  BY <1>0
<1>1. /\ asked \in Nat /\ n \in Asks /\ n \in Nat /\ asked' = n
      /\ ask' = [ask EXCEPT ![n] = w] /\ w \in QuestionType
      /\ UNCHANGED <<call, ssh, pipe, pending, mail, password, uses, prompts>>
      /\ \A a \in 1 .. asked : InStage(a, "over")
  BY LoginTyping, LoginAssumption DEF SshAsks, Asks, QuestionType, Said
<1>2. /\ ask' \in [Asks -> QuestionType] /\ ask'[n] = w
      /\ \A b \in Asks \ {n} : ask'[b] = ask[b]
  BY <1>1 DEF LoginInv, LoginTypeOK, QuestionType
<1>3. Question(n) /\ n > asked /\ InStage(n, "none") /\ mail[n] = "empty" /\ n \notin pending
  <2>1. Question(n) /\ n > asked
    BY <1>1 DEF LoginInv
  <2>2. InStage(n, "none")
    BY <2>1 DEF Question
  <2>3. mail[n] = "empty"
    BY <2>1, <2>2 DEF Question, InStage
  <2>4. n \notin pending
    BY <2>2 DEF LoginInv, LoginTypeOK, InStage
  <2> QED BY <2>1, <2>2, <2>3, <2>4
<1>4. LoginTypeOK'
  <2>1. pending' \subseteq {b \in Asks : InStage(b, "waiting")'}
    BY <1>1, <1>2, <1>3 DEF LoginInv, LoginTypeOK, InStage
  <2>2. n \in 0 .. LastAsk
    BY <1>1, LoginAssumption DEF Asks
  <2> QED BY <1>1, <1>2, <2>1, <2>2 DEF LoginInv, LoginTypeOK, QuestionType
<1>5. prompts \in Nat /\ prompts <= asked /\ prompts < n
  BY <1>1, LoginTyping
<1>6. Question(n)'
  <2>1. ask'[n].stage = "opening" /\ ask'[n].reply = "none" /\ mail'[n] = "empty"
        /\ n \notin pending' /\ ~(n > asked') /\ ~(n < asked') /\ prompts' < asked'
    BY <1>1, <1>2, <1>3, <1>5
  <2> QED BY <2>1 DEF Question, InStage
<1>7. ASSUME NEW b \in Asks \ {n} PROVE Question(b)'
  <2>1. Question(b) /\ b \in Nat /\ ask'[b] = ask[b]
    BY <1>2, LoginTyping DEF LoginInv
  <2>2. CASE b < n
    <3>1. InStage(b, "over")
      BY <1>1, <2>1, <2>2, LoginAssumption DEF Asks
    <3>2. /\ ~(b > asked') /\ InStage(b, "over")' /\ mail'[b] = mail[b]
          /\ b \in pending' <=> b \in pending
      BY <1>1, <2>1, <2>2, <3>1 DEF InStage
    <3> QED BY <2>1, <3>1, <3>2 DEF Question, InStage
  <2>3. CASE b > n
    <3>1. InStage(b, "none") /\ ~(b < asked')
      BY <1>1, <2>1, <2>3 DEF Question
    <3> QED BY <1>1, <2>1, <3>1 DEF Question, InStage
  <2> QED BY <1>1, <2>1, <2>2, <2>3
<1> QED BY <1>1, <1>4, <1>5, <1>6, <1>7 DEF LoginInv

LEMMA ClientKeeps ==
  ASSUME LoginInv, NEW a \in Asks, ClientGivesUp(a) \/ ClientPrints(a)
  PROVE  LoginInv'
<1> DEFINE w == [ask[a] EXCEPT !.stage = "over"]
<1>1. ask[a] \in QuestionType /\ Question(a) /\ prompts \in 0 .. asked /\ asked \in 0 .. LastAsk
  BY LoginTyping DEF LoginInv
<1>2. /\ ask[a].stage \in {"opening", "replied"}
      /\ ask' = [ask EXCEPT ![a] = w] /\ w \in QuestionType
      /\ w.stage = "over" /\ w.reply = ask[a].reply /\ ask'[a] = w
      /\ UNCHANGED <<call, pipe, asked, pending, mail, password, uses, prompts>>
      /\ ssh' \in {"none", "running", "exited"}
  BY <1>1 DEF ClientGivesUp, ClientPrints, InStage, QuestionType, LoginInv, LoginTypeOK
<1>3. a \notin pending
  BY <1>2 DEF LoginInv, LoginTypeOK, InStage
<1>4. ~(a > asked)
  BY <1>1, <1>2 DEF Question, InStage
<1>5. Question(a)'
  BY <1>1, <1>2, <1>3, <1>4 DEF Question, InStage
<1>6. LoginTypeOK
  BY DEF LoginInv
<1> HIDE DEF w
<1> QED BY <1>1, <1>2, <1>3, <1>5, <1>6, OneQuestion DEF LoginTypeOK, InStage, RestOK, MailType

LEMMA ServeKeeps ==
  ASSUME LoginInv, NEW a \in Asks, Serve(a) PROVE LoginInv'
<1>1. /\ ask[a] \in QuestionType /\ Question(a) /\ asked \in 0 .. LastAsk
      /\ InStage(a, "opening") /\ ask[a].reply = "none" /\ mail[a] = "empty"
      /\ prompts \in 0 .. LastAsk /\ prompts < asked /\ a \notin pending
      /\ pending \subseteq Asks /\ LoginTypeOK
      /\ UNCHANGED <<call, ssh, pipe, asked, mail, password>>
  <2>1. Question(a) /\ LoginTypeOK /\ InStage(a, "opening") /\ a \notin pending
        /\ UNCHANGED <<call, ssh, pipe, asked, mail, password>>
    BY DEF Serve, LoginInv, LoginTypeOK, InStage
  <2>2. ask[a].reply = "none" /\ mail[a] = "empty" /\ prompts < asked
    BY <2>1 DEF Question, InStage
  <2> QED BY <2>1, <2>2, LoginTyping DEF LoginTypeOK
<1>2. ~(a > asked) /\ ~(a < asked)
  BY <1>1 DEF Question, InStage
<1>3. ASSUME NEW text \in {"ok", "stored", "typed", "cancel"}, Reply(a, text),
             UNCHANGED pending, uses' \in 0 .. 1, prompts' \in {prompts, prompts + 1}
      PROVE  LoginInv'
  <2> DEFINE w == [ask[a] EXCEPT !.stage = "replied", !.reply = text]
  <2>1. /\ ask' = [ask EXCEPT ![a] = w] /\ w \in QuestionType /\ ask'[a] = w
        /\ w.stage = "replied" /\ w.reply = text
    BY <1>1, <1>3 DEF Reply, QuestionType, Said, LoginTypeOK
  <2>2. prompts' \in 0 .. asked
    BY <1>1, <1>3
  <2>3. Question(a)'
    BY <1>1, <1>2, <1>3, <2>1 DEF Question, InStage
  <2>4. RestOK' /\ mail' \in MailType /\ asked' = asked
    BY <1>1, <1>3, LoginTyping DEF RestOK
  <2>5. ~InStage(a, "over") /\ ~InStage(a, "none")
    BY <1>1 DEF InStage
  <2> HIDE DEF w
  <2> QED BY <1>1, <1>3, <2>1, <2>2, <2>3, <2>4, <2>5, OneQuestion
<1>4. CASE ask[a].kind = "info" /\ Reply(a, "ok") /\ UNCHANGED <<pending, uses, prompts>>
  <2>1. uses' \in 0 .. 1 /\ prompts' \in {prompts, prompts + 1} /\ UNCHANGED pending
    BY <1>1, <1>4 DEF LoginTypeOK
  <2> QED BY <1>3, <1>4, <2>1
<1>5. CASE UsesStored(a) /\ Reply(a, password) /\ uses' = uses + 1
             /\ UNCHANGED <<pending, prompts>>
  <2>1. password \in {"stored", "typed"} /\ uses' \in 0 .. 1
    <3>1. password # "none" /\ uses = 0 /\ uses' = uses + 1
      BY <1>5 DEF UsesStored
    <3>2. password \in {"none", "stored", "typed"}
      BY <1>1 DEF LoginTypeOK
    <3> QED BY <3>1, <3>2
  <2>2. prompts' \in {prompts, prompts + 1} /\ UNCHANGED pending
    BY <1>5
  <2> QED BY <1>3, <1>5, <2>1, <2>2
<1>6. CASE Refuses(a) /\ Reply(a, "cancel") /\ prompts' = prompts + 1
             /\ UNCHANGED <<pending, uses>>
  <2>1. uses' \in 0 .. 1 /\ prompts' \in {prompts, prompts + 1} /\ UNCHANGED pending
    BY <1>1, <1>6 DEF LoginTypeOK
  <2> QED BY <1>3, <1>6, <2>1
<1>7. CASE /\ prompts' = IF ask[a].kind = "password" THEN prompts + 1 ELSE prompts
           /\ ask' = [ask EXCEPT ![a].stage = "waiting"]
           /\ pending' = pending \cup {a}
           /\ UNCHANGED uses
  <2> DEFINE w == [ask[a] EXCEPT !.stage = "waiting"]
  <2>1. /\ ask' = [ask EXCEPT ![a] = w] /\ w \in QuestionType /\ ask'[a] = w
        /\ w.stage = "waiting" /\ w.reply = ask[a].reply
    BY <1>1, <1>7 DEF QuestionType, LoginTypeOK
  <2>2. prompts' \in 0 .. asked
    BY <1>1, <1>7
  <2>3. Question(a)'
    BY <1>1, <1>2, <1>7, <2>1 DEF Question, InStage
  <2>4. pending' \subseteq Asks /\ pending' \ {a} = pending \ {a}
    BY <1>1, <1>7
  <2>5. RestOK' /\ mail' \in MailType /\ asked' = asked
    BY <1>1, <1>7, LoginTyping DEF RestOK
  <2>6. ~InStage(a, "over") /\ ~InStage(a, "none")
    BY <1>1 DEF InStage
  <2> HIDE DEF w
  <2> QED BY <1>1, <2>1, <2>2, <2>3, <2>4, <2>5, <2>6, OneQuestion
<1> QED BY <1>4, <1>5, <1>6, <1>7 DEF Serve

LEMMA AnswerKeeps ==
  ASSUME LoginInv, NEW a \in Asks, NEW text \in Said, Answer(a, text) PROVE LoginInv'
<1>1. /\ ask[a] \in QuestionType /\ Question(a) /\ asked \in 0 .. LastAsk /\ LoginTypeOK
      /\ InStage(a, "waiting") /\ ask[a].reply = "none" /\ prompts \in 0 .. asked
      /\ pending' = pending \ {a} /\ mail' = [mail EXCEPT ![a] = text]
      /\ UNCHANGED <<call, ssh, pipe, asked, ask, password, uses, prompts>>
  <2>1. InStage(a, "waiting") /\ Question(a) /\ LoginTypeOK
    BY DEF Answer, LoginInv, LoginTypeOK
  <2> QED BY <2>1, LoginTyping DEF Answer, Question, InStage
<1>2. /\ mail' \in MailType /\ mail'[a] = text
      /\ \A b \in Asks \ {a} : mail'[b] = mail[b]
  BY <1>1 DEF LoginTypeOK, MailType
<1>3. ask' = [ask EXCEPT ![a] = ask[a]] /\ ask'[a] = ask[a]
  BY <1>1 DEF LoginTypeOK
<1>4. Question(a)'
  BY <1>1, <1>2 DEF Question, InStage, Said
<1>5. RestOK' /\ asked' = asked /\ prompts' = prompts
  BY <1>1, LoginTyping DEF RestOK
<1>6. /\ pending' \subseteq Asks /\ pending' \ {a} = pending \ {a} /\ a \notin pending'
      /\ ~InStage(a, "over") /\ ~InStage(a, "none")
  BY <1>1, LoginTyping DEF InStage
<1> QED BY <1>1, <1>2, <1>3, <1>4, <1>5, <1>6, OneQuestion

\* What becomes of a question when its outcome is known, or its time is over.
LEMMA SettleKeeps ==
  ASSUME LoginInv, NEW a \in Asks, NEW outcome \in Said, InStage(a, "waiting"),
         Settle(a, outcome), outcome = "yes" => mail'[a] = "yes",
         pending' = pending \ {a},
         mail' \in MailType,
         \A b \in Asks \ {a} : mail'[b] = mail[b]
  PROVE  LoginInv'
<1> DEFINE said == IF ask[a].kind \in {"hostkey", "confirm"}
                   THEN IF outcome = "yes" THEN "yes" ELSE "no" ELSE outcome
           w == [ask[a] EXCEPT !.stage = "replied", !.reply = said]
<1>1. /\ ask[a] \in QuestionType /\ Question(a) /\ asked \in 0 .. LastAsk /\ LoginTypeOK
      /\ prompts \in 0 .. asked
  BY LoginTyping DEF LoginInv
<1>2. said \in Said /\ (said = "yes" => outcome = "yes")
  BY DEF Said
<1>3. /\ ask' = [ask EXCEPT ![a] = w] /\ UNCHANGED <<call, ssh, pipe, asked, uses, prompts>>
      /\ password' \in {"none", "stored", "typed"}
  <2>1. Reply(a, said) /\ UNCHANGED <<call, ssh, pipe, asked, uses, prompts>>
    BY DEF Settle
  <2>2. password' \in {"none", "stored", "typed"}
    BY <1>1 DEF Settle, LoginTypeOK
  <2> QED BY <1>1, <2>1, <2>2 DEF Reply, LoginTypeOK
<1> HIDE DEF said
<1>4. w \in QuestionType /\ w.stage = "replied" /\ w.reply = said /\ ask'[a] = w
  BY <1>1, <1>2, <1>3 DEF QuestionType, LoginTypeOK
<1>5. ~(a > asked) /\ ~(a < asked)
  BY <1>1 DEF Question, InStage
<1> HIDE DEF w
<1>6. Question(a)'
  BY <1>1, <1>2, <1>3, <1>4, <1>5 DEF Question, InStage
<1>7. pending' \subseteq Asks /\ pending' \ {a} = pending \ {a} /\ a \notin pending'
  BY LoginTyping
<1>8. RestOK' /\ asked' = asked /\ prompts' = prompts
  BY <1>3, LoginTyping DEF RestOK
<1>9. ~InStage(a, "over") /\ ~InStage(a, "none")
  BY DEF InStage
<1> QED BY <1>1, <1>3, <1>4, <1>6, <1>7, <1>8, <1>9, OneQuestion

LEMMA OutcomeKeeps ==
  ASSUME LoginInv, NEW a \in Asks, Received(a) \/ Elapsed(a) PROVE LoginInv'
<1>1. Question(a) /\ LoginTypeOK /\ InStage(a, "waiting")
  BY DEF LoginInv, Received, Elapsed
<1>2. CASE Received(a)
  <2>1. mail[a] \in Said /\ pending' = pending \ {a}
    BY <1>1, <1>2 DEF Received, Question, LoginTypeOK
  <2>2. /\ Settle(a, mail[a])
        /\ mail' = mail
    BY <1>2 DEF Received
  <2>3. mail' \in MailType
    BY <2>2, LoginTyping
  <2> QED BY <1>1, <2>1, <2>2, <2>3, SettleKeeps
<1>3. CASE Elapsed(a)
  <2>1. /\ mail' = [mail EXCEPT ![a] = IF mail[a] = "empty" THEN "expired" ELSE mail[a]]
        /\ Settle(a, "cancel") /\ pending' = pending \ {a}
    BY <1>3 DEF Elapsed
  <2>0. mail \in MailType
    BY LoginTyping
  <2>2. /\ mail' \in MailType
        /\ \A b \in Asks \ {a} : mail'[b] = mail[b]
    BY <2>0, <2>1 DEF MailType
  <2>3. "cancel" \in Said
    BY DEF Said
  <2> QED BY <1>1, <2>1, <2>2, <2>3, SettleKeeps
<1> QED BY <1>2, <1>3

LEMMA LoginStep == ASSUME LoginInv, [LoginNext]_loginVars PROVE LoginInv'
<1>1. CASE UNCHANGED loginVars
  BY <1>1, NoQuestion DEF loginVars, LoginInv, LoginTypeOK
<1>2. CASE LoginNext
  BY <1>2, SshAsksKeeps, ClientKeeps, ServeKeeps, AnswerKeeps, OutcomeKeeps,
     ConnectKeepsQuestions DEF LoginNext
<1> QED BY <1>1, <1>2

\* The inductive invariant of the making of one SFTP connection.
THEOREM LoginInvariant == LoginSpec => []LoginInv
<1> QED BY LoginInitial, LoginStep, PTL DEF LoginSpec

\* A yes ssh is told is the user's own, to this very question: none is made up
\* by a timeout, a cancelled dialog or an answer that comes late, however many
\* questions ssh asks.
THEOREM YesIsTheUsersAlways == LoginSpec => []YesIsTheUsers
<1>1. LoginInv => YesIsTheUsers
  BY DEF LoginInv, Question, YesIsTheUsers
<1> QED BY <1>1, LoginInvariant, PTL

-----------------------------------------------------------------------------
(* The cached listings                                                     *)

Step == {s \in [do : {"change", "drop"}, dirs : SUBSET Paths, below : SUBSET Dirs] :
           s.do = "change" => s.dirs \subseteq Dirs}

\* What is still to come drops d.
Drops(steps, d) == \E i \in DOMAIN steps : steps[i].do = "drop" /\ d \in steps[i].dirs

\* The steps of a command drop what they change, afterwards.
Plan ==
  {steps \in Seq(Step) :
     \A i \in DOMAIN steps : steps[i].do = "change" =>
       \A d \in steps[i].dirs :
         \E j \in DOMAIN steps : j > i /\ steps[j].do = "drop" /\ d \in steps[j].dirs}

Owes(d) == \E w \in Writers : d \in due[w]

Planned ==
  todo \in [Writers -> Plan] /\ \A w \in Writers : \A d \in due[w] : Drops(todo[w], d)

\* Why CacheFresh holds: what a listing on its way shows is current as well,
\* or it is late, or some command is about to drop it.
OnItsWay ==
  \A r \in Readers :
    /\ reader[r].pc # "away" => reader[r].dir \in Dirs
    /\ reader[r].pc = "read" =>
         \/ reader[r].seen = version[reader[r].dir]
         \/ reader[r].late
         \/ Owes(reader[r].dir)

CacheInv == CacheTypeOK /\ Planned /\ OnItsWay /\ CacheFresh

-----------------------------------------------------------------------------
(* The steps of the commands                                               *)

LEMMA StepTypes ==
  /\ \A dirs, below \in SUBSET Dirs :
       /\ Move(dirs, below) \in Step /\ Change(dirs) \in Step
       /\ Move(dirs, below).do = "change" /\ Move(dirs, below).dirs = dirs
       /\ Change(dirs).do = "change" /\ Change(dirs).dirs = dirs
  /\ \A p \in Paths : DropPath(p) \in Step /\ DropPath(p).do = "drop" /\ p \in DropPath(p).dirs
  BY CacheAssumption DEF Step, Move, Change, DropPath

LEMMA Single ==
  ASSUME NEW S, NEW c \in S
  PROVE  <<c>> \in Seq(S) /\ Len(<<c>>) = 1 /\ <<c>>[1] = c /\ \A i \in DOMAIN <<c>> : i = 1
<1>1. <<c>> \in Seq(S) /\ Len(<<c>>) = 1 /\ <<c>>[1] = c
  OBVIOUS
<1>2. DOMAIN <<c>> = 1 .. 1
  BY <1>1
<1> QED BY <1>1, <1>2

LEMMA Double ==
  ASSUME NEW S, NEW c \in S
  PROVE  /\ <<c, c>> \in Seq(S)
         /\ \A i \in DOMAIN <<c, c>> : <<c, c>>[i] = c
<1>1. <<c, c>> \in Seq(S) /\ Len(<<c, c>>) = 2 /\ <<c, c>>[1] = c /\ <<c, c>>[2] = c
  OBVIOUS
<1>2. DOMAIN <<c, c>> = 1 .. 2
  BY <1>1
<1> QED BY <1>1, <1>2

LEMMA JoinedLength ==
  ASSUME NEW S, NEW s \in Seq(S), NEW t \in Seq(S)
  PROVE  s \o t \in Seq(S) /\ Len(s \o t) = Len(s) + Len(t)
  OBVIOUS

LEMMA Joined ==
  ASSUME NEW S, NEW s \in Seq(S), NEW t \in Seq(S)
  PROVE  /\ s \o t \in Seq(S) /\ Len(s \o t) = Len(s) + Len(t)
         /\ \A i \in DOMAIN s : i \in DOMAIN (s \o t) /\ (s \o t)[i] = s[i]
         /\ \A i \in DOMAIN t :
              Len(s) + i \in DOMAIN (s \o t) /\ (s \o t)[Len(s) + i] = t[i]
         /\ \A k \in DOMAIN (s \o t) :
              k \in DOMAIN s \/ \E i \in DOMAIN t : k = Len(s) + i
<1>1. s \o t \in Seq(S) /\ Len(s \o t) = Len(s) + Len(t) /\ Len(s) \in Nat /\ Len(t) \in Nat
  OBVIOUS
<1>2. DOMAIN s = 1 .. Len(s) /\ DOMAIN t = 1 .. Len(t) /\ DOMAIN (s \o t) = 1 .. (Len(s) + Len(t))
  BY <1>1
<1>3. ASSUME NEW i \in DOMAIN s PROVE i \in DOMAIN (s \o t) /\ (s \o t)[i] = s[i]
  BY <1>1, <1>2
<1>4. ASSUME NEW i \in DOMAIN t
      PROVE  Len(s) + i \in DOMAIN (s \o t) /\ (s \o t)[Len(s) + i] = t[i]
  BY <1>1, <1>2
<1>5. ASSUME NEW k \in DOMAIN (s \o t), k \notin DOMAIN s
      PROVE  \E i \in DOMAIN t : k = Len(s) + i
  <2>1. k - Len(s) \in DOMAIN t /\ k = Len(s) + (k - Len(s))
    BY <1>1, <1>2, <1>5
  <2> QED BY <2>1
<1> QED BY <1>1, <1>3, <1>4, <1>5

LEMMA OneAndTwo ==
  ASSUME NEW S, NEW s \in Seq(S), NEW t \in Seq(S), Len(s) = 1, Len(t) = 2
  PROVE  /\ s \o t \in Seq(S) /\ DOMAIN (s \o t) = 1 .. 3
         /\ (s \o t)[1] = s[1] /\ (s \o t)[2] = t[1] /\ (s \o t)[3] = t[2]
<1>1. s \o t \in Seq(S) /\ Len(s \o t) = 3
  <2>1. s \o t \in Seq(S) /\ Len(s \o t) = Len(s) + Len(t)
    BY JoinedLength
  <2> QED BY <2>1
<1>2. DOMAIN (s \o t) = 1 .. 3
  BY <1>1
<1>3. 1 \in DOMAIN s /\ 1 \in DOMAIN t /\ 2 \in DOMAIN t
  OBVIOUS
<1> QED BY <1>1, <1>2, <1>3, Joined

\* Steps followed by a plan that drops what they leave open.
LEMMA Followed ==
  ASSUME NEW s \in Seq(Step), NEW t \in Plan,
         \A i \in DOMAIN s : s[i].do = "change" => \A d \in s[i].dirs :
           \/ \E j \in DOMAIN s : j > i /\ s[j].do = "drop" /\ d \in s[j].dirs
           \/ Drops(t, d)
  PROVE  s \o t \in Plan
<1> DEFINE u == s \o t  n == Len(s)
<1>0. t \in Seq(Step)
  BY DEF Plan
<1>1. /\ u \in Seq(Step) /\ n \in Nat /\ DOMAIN s \subseteq Nat /\ DOMAIN t \subseteq Nat \ {0}
      /\ \A i \in DOMAIN s : i <= n
      /\ \A i \in DOMAIN s : i \in DOMAIN u /\ u[i] = s[i]
      /\ \A i \in DOMAIN t : n + i \in DOMAIN u /\ u[n + i] = t[i]
      /\ \A k \in DOMAIN u : k \in DOMAIN s \/ \E i \in DOMAIN t : k = n + i
  BY <1>0, Joined
<1>2. ASSUME NEW k \in DOMAIN u, u[k].do = "change", NEW d \in u[k].dirs
      PROVE  \E j \in DOMAIN u : j > k /\ u[j].do = "drop" /\ d \in u[j].dirs
  <2>1. CASE k \in DOMAIN s
    <3>1. s[k].do = "change" /\ d \in s[k].dirs /\ k <= n
      BY <1>1, <1>2, <2>1
    <3>2. CASE \E j \in DOMAIN s : j > k /\ s[j].do = "drop" /\ d \in s[j].dirs
      BY <1>1, <3>2
    <3>3. CASE Drops(t, d)
      <4> PICK j \in DOMAIN t : t[j].do = "drop" /\ d \in t[j].dirs
        BY <3>3 DEF Drops
      <4>1. n + j \in DOMAIN u /\ u[n + j] = t[j] /\ n + j > k
        BY <1>1, <2>1, <3>1
      <4> QED BY <4>1
    <3> QED BY <2>1, <3>1, <3>2, <3>3
  <2>2. ASSUME NEW i \in DOMAIN t, k = n + i
        PROVE  \E j \in DOMAIN u : j > k /\ u[j].do = "drop" /\ d \in u[j].dirs
    <3>1. t[i].do = "change" /\ d \in t[i].dirs
      BY <1>1, <1>2, <2>2
    <3> PICK j \in DOMAIN t : j > i /\ t[j].do = "drop" /\ d \in t[j].dirs
      BY <3>1 DEF Plan
    <3>2. n + j \in DOMAIN u /\ u[n + j] = t[j] /\ n + j > k
      BY <1>1, <2>2
    <3> QED BY <3>2
  <2> QED BY <1>1, <2>1, <2>2
<1> HIDE DEF u
<1>3. u \in Plan
  BY <1>1, <1>2 DEF Plan
<1> QED BY <1>3 DEF u

LEMMA Invalidates ==
  ASSUME NEW p \in Paths
  PROVE  /\ Invalidate(p) \in Plan
         /\ Drops(Invalidate(p), p) /\ Drops(Invalidate(p), Parent[p])
         /\ Len(Invalidate(p)) = 2 /\ Invalidate(p) \in Seq(Step)
         /\ Invalidate(p)[1] = DropPath(p) /\ Invalidate(p)[2] = DropPath(Parent[p])
<1>1. Parent[p] \in Paths
  BY CacheAssumption
<1>2. DropPath(p) \in Step /\ DropPath(Parent[p]) \in Step
  BY <1>1, StepTypes
<1>3. /\ Invalidate(p) \in Seq(Step) /\ Len(Invalidate(p)) = 2
      /\ DOMAIN Invalidate(p) = {1, 2}
      /\ Invalidate(p)[1] = DropPath(p) /\ Invalidate(p)[2] = DropPath(Parent[p])
  BY <1>2 DEF Invalidate
<1>4. Invalidate(p)[1].do = "drop" /\ Invalidate(p)[2].do = "drop"
  BY <1>1, <1>3, StepTypes
<1>5. Invalidate(p) \in Plan
  <2>1. \A i \in DOMAIN Invalidate(p) : Invalidate(p)[i].do # "change"
    BY <1>3, <1>4
  <2> QED BY <1>3, <2>1 DEF Plan
<1>6. Drops(Invalidate(p), p) /\ Drops(Invalidate(p), Parent[p])
  BY <1>1, <1>3, <1>4, StepTypes DEF Drops
<1> QED BY <1>3, <1>5, <1>6

LEMMA MakePlanned == \A p \in Paths : Make(p) \in Plan
<1> TAKE p \in Paths
<1> DEFINE c == Change({Parent[p]})
<1>0. {Parent[p]} \in SUBSET Dirs /\ {} \in SUBSET Dirs
  BY CacheAssumption
<1>1. c \in Step /\ c.do = "change" /\ c.dirs = {Parent[p]}
  BY <1>0, StepTypes
<1> HIDE DEF c
<1>2. <<c>> \in Seq(Step) /\ \A i \in DOMAIN <<c>> : <<c>>[i] = c
  BY <1>1, Single
<1>3. <<c>> \o Invalidate(p) \in Plan
  BY <1>1, <1>2, Invalidates, Followed
<1> QED BY <1>3 DEF Make, c

LEMMA UploadPlanned == \A p \in Paths : Upload(p) \in Plan
<1> TAKE p \in Paths
<1> DEFINE c == Change({Parent[p]})
           s == <<c, c>>
<1>0. {Parent[p]} \in SUBSET Dirs /\ {} \in SUBSET Dirs
  BY CacheAssumption
<1>1. c \in Step /\ c.do = "change" /\ c.dirs = {Parent[p]}
  BY <1>0, StepTypes
<1> HIDE DEF c
<1>2. s \in Seq(Step) /\ \A i \in DOMAIN s : s[i] = c
  BY <1>1, Double
<1> HIDE DEF s
<1>3. s \o Invalidate(p) \in Plan
  BY <1>1, <1>2, Invalidates, Followed
<1> QED BY <1>3 DEF Upload, c, s

LEMMA RenamePlanned == \A p, q \in Paths : Rename(p, q) \in Plan
<1> TAKE p, q \in Paths
<1> DEFINE dirs == {Parent[p], Parent[q]} \cup ({p} \cap Dirs)
           m == Move(dirs, (Tree(p) \ {p}) \cap Dirs)
           h == <<m>>
           s == h \o Invalidate(p)
<1>0. dirs \in SUBSET Dirs /\ (Tree(p) \ {p}) \cap Dirs \in SUBSET Dirs
  BY CacheAssumption
<1>1. m \in Step /\ m.do = "change" /\ m.dirs = dirs
  BY <1>0, StepTypes
<1> HIDE DEF m
<1>2. h \in Seq(Step) /\ Len(h) = 1
  BY <1>1, Single
<1>3. 1 \in DOMAIN h /\ h[1] = m
  BY <1>1, Single
<1> HIDE DEF h
<1>4. /\ s \in Seq(Step) /\ DOMAIN s = 1 .. 3 /\ s[1] = m
      /\ s[2] = DropPath(p) /\ s[3] = DropPath(Parent[p])
  <2> DEFINE t == Invalidate(p)
  <2>1. t \in Seq(Step) /\ Len(t) = 2
    BY Invalidates
  <2>2. t[1] = DropPath(p) /\ t[2] = DropPath(Parent[p])
    BY Invalidates
  <2> HIDE DEF t
  <2> QED BY <1>2, <1>3, <2>1, <2>2, OneAndTwo DEF t
<1>5. /\ s[2].do = "drop" /\ p \in s[2].dirs
      /\ s[3].do = "drop" /\ Parent[p] \in s[3].dirs
  BY <1>4, StepTypes, CacheAssumption
<1> HIDE DEF s
<1>6. ASSUME NEW i \in DOMAIN s, s[i].do = "change", NEW d \in s[i].dirs
      PROVE  \/ \E j \in DOMAIN s : j > i /\ s[j].do = "drop" /\ d \in s[j].dirs
             \/ Drops(Invalidate(q), d)
  <2>1. i = 1 /\ d \in dirs
    BY <1>1, <1>4, <1>5, <1>6
  <2>2. CASE d = p
    BY <1>4, <1>5, <2>1, <2>2
  <2>3. CASE d = Parent[p]
    BY <1>4, <1>5, <2>1, <2>3
  <2>4. CASE d = Parent[q]
    BY <2>4, Invalidates
  <2> QED BY <2>1, <2>2, <2>3, <2>4
<1>7. s \o Invalidate(q) \in Plan
  BY <1>4, <1>6, Invalidates, Followed
<1> QED BY <1>7 DEF Rename, m, h, s, dirs

\* SetToSeqs lists a finite set completely.
LEMMA Listed ==
  ASSUME NEW S, IsFiniteSet(S), NEW s \in SetToSeqs(S)
  PROVE  s \in Seq(S) /\ \A x \in S : \E i \in DOMAIN s : s[i] = x
<1> DEFINE n == Cardinality(S)
<1>1. n \in Nat
  BY FS_CardinalityType
<1>2. /\ s \in [1 .. n -> S]
      /\ \A i, j \in 1 .. n : i # j => s[i] # s[j]
  BY DEF SetToSeqs
<1>3. Cardinality(1 .. n) = n
  <2>1. Cardinality(1 .. n) = IF 1 > n THEN 0 ELSE n - 1 + 1
    BY <1>1, FS_Interval
  <2> QED BY <1>1, <2>1
<1> HIDE DEF n
<1>4. s \in Injection(1 .. n, S)
  BY <1>2 DEF Injection, IsInjective
<1>5. s \in Surjection(1 .. n, S)
  BY <1>3, <1>4, FS_Injection DEF n
<1>6. s \in Seq(S)
  BY <1>1, <1>2
<1> QED BY <1>2, <1>5, <1>6 DEF Surjection

LEMMA TreeTypes ==
  ASSUME NEW p \in Paths
  PROVE  /\ Tree(p) \subseteq Paths
         /\ IsFiniteSet(Tree(p) \ Dirs) /\ IsFiniteSet(Tree(p) \cap Dirs)
<1>1. Tree(p) \subseteq Paths
  BY DEF Tree
<1>2. Tree(p) \ Dirs \in SUBSET Paths /\ Tree(p) \cap Dirs \in SUBSET Paths
  BY <1>1
<1> QED BY <1>1, <1>2, FS_Subset, CacheAssumption

\* What is below p is in p, or in something that is.
LEMMA InTheTree ==
  ASSUME NEW p \in Paths, NEW q \in Tree(p), q # p
  PROVE  Parent[q] \in Tree(p) \cap Dirs
<1> DEFINE d == Parent[q]
<1>1. q \in Paths /\ p \in Above(q) /\ d \in Dirs /\ d \in Paths
  BY CacheAssumption DEF Tree
<1>2. /\ d # q /\ p \in Dirs
      /\ \A S \in SUBSET Dirs : d \in S /\ (\A e \in S : Parent[e] \in S) => p \in S
  BY <1>1 DEF Above
<1>3. CASE p = d
  BY <1>1, <1>3 DEF Tree
<1>4. ASSUME p # d PROVE p \in Above(d)
  <2>1. Parent[d] # d
    <3>1. ASSUME Parent[d] = d PROVE p \in {d}
      BY <1>1, <1>2, <3>1
    <3> QED BY <1>4, <3>1
  <2>2. ASSUME NEW S \in SUBSET Dirs, Parent[d] \in S, \A e \in S : Parent[e] \in S
        PROVE  p \in S
    <3>1. S \cup {d} \in SUBSET Dirs /\ d \in S \cup {d}
      BY <1>1
    <3>2. \A e \in S \cup {d} : Parent[e] \in S \cup {d}
      BY <2>2
    <3>3. p \in S \cup {d}
      BY <1>2, <3>1, <3>2
    <3> QED BY <1>4, <3>3
  <2> QED BY <1>2, <2>1, <2>2 DEF Above
<1>5. CASE p # d
  BY <1>1, <1>4, <1>5 DEF Tree
<1> QED BY <1>3, <1>5

LEMMA RmdirSteps ==
  ASSUME NEW d \in Dirs
  PROVE  /\ \A k \in 1 .. 3 : Rmdir(d)[k] \in Step
         /\ Rmdir(d)[1].do = "change" /\ Rmdir(d)[1].dirs = {d, Parent[d]}
         /\ Rmdir(d)[2].do = "drop" /\ d \in Rmdir(d)[2].dirs
         /\ Rmdir(d)[3].do = "drop" /\ Parent[d] \in Rmdir(d)[3].dirs
<1> DEFINE c == Change({d, Parent[d]})  h == <<c>>  t == Invalidate(d)
<1>0. d \in Paths /\ Parent[d] \in Paths /\ {d, Parent[d]} \in SUBSET Dirs /\ {} \in SUBSET Dirs
  BY CacheAssumption
<1>1. c \in Step /\ c.do = "change" /\ c.dirs = {d, Parent[d]}
  BY <1>0, StepTypes
<1> HIDE DEF c
<1>2. h \in Seq(Step) /\ Len(h) = 1 /\ h[1] = c
  BY <1>1, Single
<1> HIDE DEF h
<1>3. t \in Seq(Step) /\ Len(t) = 2
  BY <1>0, Invalidates
<1>4. t[1] = DropPath(d) /\ t[2] = DropPath(Parent[d])
  BY <1>0, Invalidates
<1> HIDE DEF t
<1>5. (h \o t)[1] = c /\ (h \o t)[2] = DropPath(d) /\ (h \o t)[3] = DropPath(Parent[d])
  BY <1>2, <1>3, <1>4, OneAndTwo
<1>6. /\ DropPath(d) \in Step /\ DropPath(d).do = "drop" /\ d \in DropPath(d).dirs
      /\ DropPath(Parent[d]) \in Step /\ DropPath(Parent[d]).do = "drop"
      /\ Parent[d] \in DropPath(Parent[d]).dirs
  BY <1>0, StepTypes
<1> DEFINE u == h \o t
<1>7. Rmdir(d) = u
  BY DEF Rmdir, c, h, t
<1> HIDE DEF u
<1>8. u[1] = c /\ u[2] = DropPath(d) /\ u[3] = DropPath(Parent[d])
  BY <1>5 DEF u
<1>9. \A k \in 1 .. 3 : u[k] \in Step
  BY <1>1, <1>6, <1>8
<1> QED BY <1>1, <1>6, <1>7, <1>8, <1>9

LEMMA AFunctionOf ==
  ASSUME NEW S, NEW m \in Nat, NEW f \in [1 .. m -> S]
  PROVE  f \in Seq(S)
  OBVIOUS

\* The rmdirs one after the other, three steps each.
LEMMA RemovalPlanned ==
  ASSUME NEW dirs \in Seq(Dirs), NEW r,
         r = [i \in 1 .. 3 * Len(dirs) |-> Rmdir(dirs[(i + 2) \div 3])[((i + 2) % 3) + 1]]
  PROVE  r \in Plan /\ \A k \in DOMAIN dirs : Drops(r, dirs[k])
<1> DEFINE n == Len(dirs)
<1>1. n \in Nat /\ DOMAIN dirs = 1 .. n /\ DOMAIN r = 1 .. 3 * n
  OBVIOUS
<1>2. ASSUME NEW i \in 1 .. 3 * n
      PROVE  \E k \in 1 .. n, e \in 1 .. 3 :
               i = 3 * k - 3 + e /\ (i + 2) \div 3 = k /\ ((i + 2) % 3) + 1 = e
  <2> DEFINE k == (i + 2) \div 3  e == ((i + 2) % 3) + 1
  <2>1. k \in 1 .. n /\ e \in 1 .. 3 /\ i = 3 * k - 3 + e
    BY <1>1
  <2> QED BY <2>1
<1>3. ASSUME NEW k \in 1 .. n, NEW e \in 1 .. 3
      PROVE  /\ 3 * k - 3 + e \in 1 .. 3 * n
             /\ r[3 * k - 3 + e] = Rmdir(dirs[k])[e]
  <2> DEFINE i == 3 * k - 3 + e
  <2>1. i \in 1 .. 3 * n
    BY <1>1
  <2> PICK l \in 1 .. n, f \in 1 .. 3 :
             i = 3 * l - 3 + f /\ (i + 2) \div 3 = l /\ ((i + 2) % 3) + 1 = f
    BY <1>2, <2>1
  <2>2. l = k /\ f = e
    BY <1>1
  <2>3. r[i] = Rmdir(dirs[(i + 2) \div 3])[((i + 2) % 3) + 1]
    BY <1>1, <2>1
  <2> QED BY <2>1, <2>2, <2>3
<1>4. ASSUME NEW k \in 1 .. n PROVE dirs[k] \in Dirs
  BY <1>1
<1>5. r \in Seq(Step)
  <2>1. \A i \in 1 .. 3 * n : r[i] \in Step
    BY <1>2, <1>3, <1>4, RmdirSteps
  <2>2. 3 * n \in Nat
    BY <1>1
  <2>3. r \in [1 .. 3 * n -> Step]
    BY <1>1, <2>1
  <2> QED BY <2>2, <2>3, AFunctionOf
<1>6. ASSUME NEW i \in DOMAIN r, r[i].do = "change", NEW d \in r[i].dirs
      PROVE  \E j \in DOMAIN r : j > i /\ r[j].do = "drop" /\ d \in r[j].dirs
  <2> PICK k \in 1 .. n, e \in 1 .. 3 : i = 3 * k - 3 + e
    BY <1>1, <1>2
  <2>1. r[i] = Rmdir(dirs[k])[e] /\ dirs[k] \in Dirs
    BY <1>3, <1>4
  <2>2. e = 1
    BY <1>6, <2>1, RmdirSteps
  <2>3. d \in {dirs[k], Parent[dirs[k]]}
    BY <1>6, <2>1, <2>2, RmdirSteps
  <2>4. /\ 3 * k - 3 + 2 \in DOMAIN r /\ r[3 * k - 3 + 2] = Rmdir(dirs[k])[2]
        /\ 3 * k - 3 + 3 \in DOMAIN r /\ r[3 * k - 3 + 3] = Rmdir(dirs[k])[3]
    BY <1>1, <1>3
  <2>5. 3 * k - 3 + 2 > i /\ 3 * k - 3 + 3 > i
    BY <1>1, <2>2
  <2>6. /\ Rmdir(dirs[k])[2].do = "drop" /\ dirs[k] \in Rmdir(dirs[k])[2].dirs
        /\ Rmdir(dirs[k])[3].do = "drop" /\ Parent[dirs[k]] \in Rmdir(dirs[k])[3].dirs
    BY <2>1, RmdirSteps
  <2>7. CASE d = dirs[k]
    BY <2>4, <2>5, <2>6, <2>7
  <2>8. CASE d = Parent[dirs[k]]
    BY <2>4, <2>5, <2>6, <2>8
  <2> QED BY <2>3, <2>7, <2>8
<1>7. ASSUME NEW k \in DOMAIN dirs PROVE Drops(r, dirs[k])
  <2>0. k \in 1 .. n /\ 2 \in 1 .. 3
    BY <1>1
  <2>1. 3 * k - 3 + 2 \in DOMAIN r /\ r[3 * k - 3 + 2] = Rmdir(dirs[k])[2] /\ dirs[k] \in Dirs
    BY <2>0, <1>1, <1>3, <1>4
  <2>2. Rmdir(dirs[k])[2].do = "drop" /\ dirs[k] \in Rmdir(dirs[k])[2].dirs
    BY <2>1, RmdirSteps
  <2> QED BY <2>1, <2>2 DEF Drops
<1> QED BY <1>5, <1>6, <1>7 DEF Plan

LEMMA DeletePlanned ==
  ASSUME NEW p \in Paths, NEW files \in SetToSeqs(Tree(p) \ Dirs),
         NEW dirs \in SetToSeqs(Tree(p) \cap Dirs)
  PROVE  Delete(p, files, dirs) \in Plan
<1> DEFINE f == [i \in DOMAIN files |-> Change({Parent[files[i]]})]
           r == RmdirEach(dirs)
           s == f \o r
<1>1. files \in Seq(Tree(p) \ Dirs)
  <2> DEFINE S == Tree(p) \ Dirs
  <2>1. IsFiniteSet(S) /\ files \in SetToSeqs(S)
    BY TreeTypes
  <2> HIDE DEF S
  <2>2. files \in Seq(S)
    BY <2>1, Listed
  <2> QED BY <2>2 DEF S
<1>2. /\ dirs \in Seq(Tree(p) \cap Dirs) /\ dirs \in Seq(Dirs)
      /\ \A d \in Tree(p) \cap Dirs : \E k \in DOMAIN dirs : dirs[k] = d
  <2>1. /\ dirs \in Seq(Tree(p) \cap Dirs)
        /\ \A d \in Tree(p) \cap Dirs : \E k \in DOMAIN dirs : dirs[k] = d
    <3> DEFINE S == Tree(p) \cap Dirs
    <3>1. IsFiniteSet(S) /\ dirs \in SetToSeqs(S)
      BY TreeTypes
    <3> HIDE DEF S
    <3>2. dirs \in Seq(S) /\ \A d \in S : \E k \in DOMAIN dirs : dirs[k] = d
      BY <3>1, Listed
    <3> QED BY <3>2 DEF S
  <2>2. Tree(p) \cap Dirs \subseteq Dirs
    OBVIOUS
  <2> QED BY <2>1, <2>2, SeqMonotonic
<1>0. r = [i \in 1 .. 3 * Len(dirs) |-> Rmdir(dirs[(i + 2) \div 3])[((i + 2) % 3) + 1]]
  BY DEF RmdirEach
<1> HIDE DEF r
<1>3. r \in Plan /\ r \in Seq(Step) /\ \A k \in DOMAIN dirs : Drops(r, dirs[k])
  <2>1. dirs \in Seq(Dirs)
    BY <1>2
  <2>2. r \in Plan /\ \A k \in DOMAIN dirs : Drops(r, dirs[k])
    BY <1>0, <2>1, RemovalPlanned
  <2> QED BY <2>2 DEF Plan
<1>4. ASSUME NEW i \in DOMAIN files
      PROVE  /\ files[i] \in Tree(p) /\ Change({Parent[files[i]]}) \in Step
             /\ Change({Parent[files[i]]}).dirs = {Parent[files[i]]}
  <2>0. files[i] \in Tree(p) \ Dirs
    BY <1>1, <1>4
  <2>1. files[i] \in Tree(p) /\ files[i] \in Paths
    BY <2>0, TreeTypes
  <2> DEFINE above == {Parent[files[i]]}
  <2>2. above \in SUBSET Dirs /\ {} \in SUBSET Dirs
    BY <2>1, CacheAssumption
  <2> HIDE DEF above
  <2>3. Change(above) \in Step /\ Change(above).dirs = above
    BY <2>2, StepTypes
  <2> QED BY <2>1, <2>3 DEF above
<1>5. f \in Seq(Step) /\ DOMAIN f = DOMAIN files
  <2>1. Len(files) \in Nat /\ DOMAIN files = 1 .. Len(files)
    BY <1>1
  <2>2. f \in [1 .. Len(files) -> Step]
    BY <1>4, <2>1
  <2> QED BY <2>1, <2>2, AFunctionOf
<1>6. ASSUME NEW i \in DOMAIN f, NEW d \in f[i].dirs
      PROVE  Drops(r, d) \/ d = Parent[p]
  <2>1. i \in DOMAIN files /\ files[i] \in Tree(p) /\ d = Parent[files[i]]
    BY <1>4, <1>5, <1>6
  <2>2. CASE files[i] = p
    BY <2>1, <2>2
  <2>3. CASE files[i] # p
    <3>1. d \in Tree(p) \cap Dirs
      BY <2>1, <2>3, InTheTree
    <3> QED BY <1>2, <1>3, <3>1
  <2> QED BY <2>2, <2>3
<1> HIDE DEF f
<1>7. /\ s \in Seq(Step) /\ Len(f) \in Nat
      /\ \A i \in DOMAIN f : i \in DOMAIN s /\ s[i] = f[i] /\ i <= Len(f)
      /\ \A i \in DOMAIN r : i > 0 /\ Len(f) + i \in DOMAIN s /\ s[Len(f) + i] = r[i]
      /\ \A k \in DOMAIN s : k \in DOMAIN f \/ \E i \in DOMAIN r : k = Len(f) + i
  BY <1>3, <1>5, Joined
<1> HIDE DEF s
<1>8. ASSUME NEW k \in DOMAIN s, s[k].do = "change", NEW d \in s[k].dirs
      PROVE  \/ \E j \in DOMAIN s : j > k /\ s[j].do = "drop" /\ d \in s[j].dirs
             \/ Drops(Invalidate(p), d)
  <2>1. CASE k \in DOMAIN f
    <3>1. d \in f[k].dirs /\ k <= Len(f) /\ k \in Nat
      BY <1>5, <1>7, <1>8, <2>1
    <3>2. CASE d = Parent[p]
      BY <3>2, Invalidates
    <3>3. CASE Drops(r, d)
      <4> PICK j \in DOMAIN r : r[j].do = "drop" /\ d \in r[j].dirs
        BY <3>3 DEF Drops
      <4>1. /\ Len(f) + j \in DOMAIN s /\ s[Len(f) + j] = r[j]
            /\ Len(f) + j > k
        BY <1>3, <1>7, <3>1
      <4> QED BY <4>1
    <3> QED BY <1>6, <2>1, <3>1, <3>2, <3>3
  <2>2. ASSUME NEW i \in DOMAIN r, k = Len(f) + i
        PROVE  \E j \in DOMAIN s : j > k /\ s[j].do = "drop" /\ d \in s[j].dirs
    <3>1. r[i].do = "change" /\ d \in r[i].dirs
      BY <1>7, <1>8, <2>2
    <3> PICK j \in DOMAIN r : j > i /\ r[j].do = "drop" /\ d \in r[j].dirs
      BY <1>3, <3>1 DEF Plan
    <3>2. Len(f) + j \in DOMAIN s /\ s[Len(f) + j] = r[j] /\ Len(f) + j > k
      BY <1>3, <1>7, <2>2
    <3> QED BY <3>2
  <2> QED BY <1>7, <2>1, <2>2
<1>9. s \o Invalidate(p) \in Plan
  BY <1>7, <1>8, Invalidates, Followed
<1> QED BY <1>9 DEF Delete, f, r, s

\* Every command, however long, drops from the cache all it changes.
LEMMA CommandsPlanned == Commands \subseteq Plan
<1> SUFFICES ASSUME NEW c \in Commands PROVE c \in Plan
  OBVIOUS
<1>1. CASE c \in {Make(p) : p \in Paths}
  BY <1>1, MakePlanned
<1>2. CASE c \in {Upload(p) : p \in Paths \ Dirs}
  BY <1>2, UploadPlanned
<1>3. CASE c \in {Rename(p, q) : p, q \in {r \in Paths : Above(r) # {}}}
  BY <1>3, RenamePlanned
<1>4. CASE c \in UNION {{Delete(p, files, dirs) : files \in SetToSeqs(Tree(p) \ Dirs),
                   dirs \in {s \in SetToSeqs(Tree(p) \cap Dirs) : InnerFirst(s)}} :
                p \in {q \in Paths : Above(q) # {}}}
  <2> PICK p \in Paths : c \in {Delete(p, files, dirs) :
             files \in SetToSeqs(Tree(p) \ Dirs),
             dirs \in {s \in SetToSeqs(Tree(p) \cap Dirs) : InnerFirst(s)}}
    BY <1>4
  <2> PICK files \in SetToSeqs(Tree(p) \ Dirs), dirs \in SetToSeqs(Tree(p) \cap Dirs) :
             c = Delete(p, files, dirs)
    OBVIOUS
  <2> QED BY DeletePlanned
<1> QED BY <1>1, <1>2, <1>3, <1>4 DEF Commands

-----------------------------------------------------------------------------
(* The listings *)

LEMMA NothingPlanned == <<>> \in Plan /\ \A d : ~Drops(<<>>, d)
<1>1. <<>> \in Seq(Step) /\ DOMAIN <<>> = {}
  BY EmptySeq
<1> QED BY <1>1 DEF Plan, Drops

LEMMA CacheInitial == ASSUME CacheInit PROVE CacheInv
<1>1. Away \in Reader /\ Away.pc = "away"
  BY CacheAssumption DEF Away, Reader
<1>2. CacheTypeOK
  BY <1>1, CacheAssumption DEF CacheInit, CacheTypeOK
<1>3. Planned
  BY NothingPlanned DEF CacheInit, Planned
<1>4. OnItsWay
  BY <1>1 DEF CacheInit, OnItsWay
<1>5. CacheFresh
  BY DEF CacheInit, CacheFresh
<1> QED BY <1>2, <1>3, <1>4, <1>5 DEF CacheInv

\* A call of list that moves on.
LEMMA ReaderMoves ==
  ASSUME CacheInv, NEW r \in Readers, NEW q \in Reader, reader' = [reader EXCEPT ![r] = q],
         UNCHANGED <<version, cache, todo, due, excused>>,
         q.pc # "away" => q.dir \in Dirs,
         q.pc = "read" => q.seen = version[q.dir]
  PROVE  CacheInv'
<1>1. /\ reader' \in [Readers -> Reader] /\ reader'[r] = q
      /\ \A v \in Readers \ {r} : reader'[v] = reader[v]
  BY DEF CacheInv, CacheTypeOK
<1>2. CacheTypeOK' /\ Planned' /\ CacheFresh'
  BY <1>1 DEF CacheInv, CacheTypeOK, Planned, CacheFresh, Drops
<1>3. \A d : Owes(d)' <=> Owes(d)
  BY DEF Owes
<1>4. ASSUME NEW v \in Readers
      PROVE  /\ reader'[v].pc # "away" => reader'[v].dir \in Dirs
             /\ reader'[v].pc = "read" =>
                  \/ reader'[v].seen = version'[reader'[v].dir]
                  \/ reader'[v].late
                  \/ \E w \in Writers : reader'[v].dir \in due'[w]
  <2>1. CASE v = r
    BY <1>1, <2>1
  <2>2. CASE v # r
    BY <1>1, <2>2 DEF CacheInv, OnItsWay, Owes
  <2> QED BY <2>1, <2>2
<1>5. OnItsWay'
  BY <1>4 DEF OnItsWay, Owes
<1> QED BY <1>2, <1>5 DEF CacheInv

LEMMA AwayIsAReader == Away \in Reader /\ Away.pc = "away"
  BY CacheAssumption DEF Away, Reader

LEMMA ListKeeps == ASSUME CacheInv, NEW r \in Readers, NEW d \in Dirs, List(r, d) PROVE CacheInv'
<1> DEFINE q == [Away EXCEPT !.pc = "asked", !.dir = d]
<1>1. q \in Reader /\ q.pc = "asked" /\ q.dir = d
  BY AwayIsAReader DEF Reader
<1> HIDE DEF q
<1> QED BY <1>1, ReaderMoves DEF List, q

LEMMA AnsweredKeeps == ASSUME CacheInv, NEW r \in Readers, Answered(r) PROVE CacheInv'
<1> DEFINE q == [reader[r] EXCEPT !.pc = "read", !.seen = version[reader[r].dir]]
<1>1. reader[r] \in Reader /\ reader[r].dir \in Dirs /\ version[reader[r].dir] \in 0 .. LastChange
  BY DEF Answered, CacheInv, CacheTypeOK, OnItsWay
<1>2. q \in Reader /\ q.dir = reader[r].dir /\ q.seen = version[reader[r].dir]
  BY <1>1 DEF Reader
<1>3. reader' = [reader EXCEPT ![r] = q] /\ UNCHANGED <<version, cache, todo, due, excused>>
  BY DEF Answered, CacheInv, CacheTypeOK
<1> HIDE DEF q
<1> QED BY <1>1, <1>2, <1>3, ReaderMoves

LEMMA ListFailsKeeps == ASSUME CacheInv, NEW r \in Readers, ListFails(r) PROVE CacheInv'
  BY AwayIsAReader, ReaderMoves DEF ListFails

\* What the other calls have seen stays what it was when a listing arrives.
LEMMA PutKeeps == ASSUME CacheInv, NEW r \in Readers, Put(r) PROVE CacheInv'
<1> DEFINE d == reader[r].dir
<1>1. /\ reader[r] \in Reader /\ d \in Dirs /\ reader[r].pc = "read"
      /\ reader[r].seen \in 0 .. LastChange
      /\ \/ reader[r].seen = version[d] \/ reader[r].late \/ Owes(d)
  BY DEF Put, CacheInv, CacheTypeOK, OnItsWay, Reader
<1>2. /\ cache' = [cache EXCEPT ![d] = reader[r].seen]
      /\ reader' = [reader EXCEPT ![r] = Away]
      /\ UNCHANGED <<version, todo, due>>
      /\ excused' \subseteq excused \cup {d} /\ excused \ {d} \subseteq excused'
      /\ reader[r].seen # version[d] /\ reader[r].late => d \in excused'
  BY DEF Put
<1>3. \A e \in Dirs : Owes(e)' <=> Owes(e)
  BY <1>2 DEF Owes
<1>4. CacheTypeOK'
  BY <1>1, <1>2, AwayIsAReader DEF CacheInv, CacheTypeOK
<1>5. Planned'
  BY <1>2 DEF CacheInv, Planned, Drops
<1>6. OnItsWay'
  <2>1. ASSUME NEW v \in Readers
        PROVE  /\ reader'[v].pc # "away" => reader'[v].dir \in Dirs
               /\ reader'[v].pc = "read" =>
                    \/ reader'[v].seen = version'[reader'[v].dir]
                    \/ reader'[v].late
                    \/ \E w \in Writers : reader'[v].dir \in due'[w]
    <3>1. CASE v = r
      BY <1>2, <3>1, AwayIsAReader DEF CacheInv, CacheTypeOK
    <3>2. CASE v # r
      BY <1>2, <3>2 DEF CacheInv, CacheTypeOK, OnItsWay, Owes
    <3> QED BY <3>1, <3>2
  <2> QED BY <2>1 DEF OnItsWay, Owes
<1>7. CacheFresh'
  <2>1. ASSUME NEW e \in Dirs PROVE cache'[e] \in {version'[e], NotCached} \/ e \in excused'
                                     \/ Owes(e)'
    <3>1. CASE e = d
      BY <1>1, <1>2, <1>3, <3>1 DEF CacheInv, CacheTypeOK
    <3>2. CASE e # d
      <4>1. cache'[e] = cache[e] /\ version'[e] = version[e] /\ (e \in excused => e \in excused')
        BY <1>2, <3>2 DEF CacheInv, CacheTypeOK
      <4>2. cache[e] \in {version[e], NotCached} \/ e \in excused \/ Owes(e)
        BY DEF CacheInv, CacheFresh, Owes
      <4> QED BY <1>3, <4>1, <4>2
    <3> QED BY <3>1, <3>2
  <2> QED BY <2>1 DEF CacheFresh, Owes
<1> QED BY <1>4, <1>5, <1>6, <1>7 DEF CacheInv

LEMMA ExpireKeeps == ASSUME CacheInv, NEW d \in Dirs, Expire(d) PROVE CacheInv'
<1>1. /\ cache' = [cache EXCEPT ![d] = NotCached] /\ excused' = excused \ {d}
      /\ UNCHANGED <<version, reader, todo, due>>
  BY DEF Expire
<1>2. CacheTypeOK' /\ Planned' /\ OnItsWay'
  BY <1>1 DEF CacheInv, CacheTypeOK, Planned, OnItsWay, Drops, Owes
<1>3. CacheFresh'
  BY <1>1 DEF CacheInv, CacheTypeOK, CacheFresh
<1> QED BY <1>2, <1>3 DEF CacheInv

-----------------------------------------------------------------------------
(* The commands under way *)

LEMMA OneStepLess ==
  ASSUME NEW s \in Plan, s # <<>>
  PROVE  /\ Head(s) \in Step /\ Tail(s) \in Plan
         /\ Head(s).do = "change" => \A d \in Head(s).dirs : Drops(Tail(s), d)
         /\ \A d : Drops(s, d) =>
              Drops(Tail(s), d) \/ (Head(s).do = "drop" /\ d \in Head(s).dirs)
<1> DEFINE t == Tail(s)  n == Len(s)
<1>1. s \in Seq(Step) /\ n \in Nat /\ n > 0 /\ DOMAIN s = 1 .. n
  BY EmptySeq DEF Plan
<1>2. /\ t \in Seq(Step) /\ DOMAIN t = 1 .. (n - 1) /\ Head(s) = s[1] /\ Head(s) \in Step
      /\ \A i \in 1 .. (n - 1) : t[i] = s[i + 1]
  BY <1>1
<1> HIDE DEF t, n
<1>3. ASSUME NEW j \in DOMAIN s, j > 1 PROVE j - 1 \in DOMAIN t /\ t[j - 1] = s[j]
  BY <1>1, <1>2, <1>3
<1>4. t \in Plan
  <2>1. ASSUME NEW i \in DOMAIN t, t[i].do = "change", NEW d \in t[i].dirs
        PROVE  \E j \in DOMAIN t : j > i /\ t[j].do = "drop" /\ d \in t[j].dirs
    <3>1. i + 1 \in DOMAIN s /\ s[i + 1] = t[i] /\ i \in Nat
      BY <1>1, <1>2
    <3> PICK j \in DOMAIN s : j > i + 1 /\ s[j].do = "drop" /\ d \in s[j].dirs
      BY <2>1, <3>1 DEF Plan
    <3>2. j - 1 \in DOMAIN t /\ t[j - 1] = s[j] /\ j - 1 > i
      BY <1>1, <1>3, <3>1
    <3> QED BY <3>2
  <2> QED BY <1>2, <2>1 DEF Plan
<1>5. ASSUME Head(s).do = "change", NEW d \in Head(s).dirs PROVE Drops(t, d)
  <2>1. 1 \in DOMAIN s /\ s[1].do = "change" /\ d \in s[1].dirs
    BY <1>1, <1>2, <1>5
  <2> PICK j \in DOMAIN s : j > 1 /\ s[j].do = "drop" /\ d \in s[j].dirs
    BY <2>1 DEF Plan
  <2> QED BY <1>3 DEF Drops
<1>6. ASSUME NEW d, Drops(s, d)
      PROVE  Drops(t, d) \/ (Head(s).do = "drop" /\ d \in Head(s).dirs)
  <2> PICK j \in DOMAIN s : s[j].do = "drop" /\ d \in s[j].dirs
    BY <1>6 DEF Drops
  <2>1. CASE j > 1
    <3>1. j - 1 \in DOMAIN t /\ t[j - 1] = s[j]
      BY <1>3, <2>1
    <3> QED BY <3>1 DEF Drops
  <2>2. CASE ~(j > 1)
    <3>1. j = 1
      BY <1>1, <2>2
    <3> QED BY <1>2, <3>1
  <2> QED BY <2>1, <2>2
<1>7. Head(s).do = "change" => \A d \in Head(s).dirs : Drops(t, d)
  BY <1>5
<1>8. \A d : Drops(s, d) => Drops(t, d) \/ (Head(s).do = "drop" /\ d \in Head(s).dirs)
  BY <1>6, Zenon
<1> QED BY <1>2, <1>4, <1>7, <1>8 DEF t

\* What a command owes is what its remaining steps drop.
LEMMA RestPlanned ==
  ASSUME CacheInv, NEW w \in Writers, NEW steps \in Plan, NEW owed \in SUBSET Dirs,
         \A d \in owed : Drops(steps, d), Rest(w, steps, owed)
  PROVE  /\ Planned' /\ due' \in [Writers -> SUBSET Dirs]
         /\ \A v \in Writers : todo'[v] = <<>> => due'[v] = {}
         /\ due'[w] = owed /\ \A v \in Writers \ {w} : due'[v] = due[v]
<1>1. steps = <<>> => owed = {}
  BY NothingPlanned
<1>2. /\ todo' = [todo EXCEPT ![w] = steps]
      /\ due' = [due EXCEPT ![w] = IF steps = <<>> THEN {} ELSE owed]
      /\ due \in [Writers -> SUBSET Dirs]
  BY DEF Rest, CacheInv, CacheTypeOK
<1>3. /\ due' \in [Writers -> SUBSET Dirs] /\ due'[w] = owed
      /\ \A v \in Writers \ {w} : due'[v] = due[v]
  BY <1>1, <1>2
<1>4. /\ todo' \in [Writers -> Plan] /\ todo'[w] = steps
      /\ \A v \in Writers \ {w} : todo'[v] = todo[v]
  BY <1>2 DEF CacheInv, Planned
<1>5. ASSUME NEW v \in Writers
      PROVE  /\ \A d \in due'[v] : Drops(todo'[v], d)
             /\ todo'[v] = <<>> => due'[v] = {}
  <2>1. CASE v = w
    BY <1>1, <1>3, <1>4, <2>1
  <2>2. CASE v # w
    BY <1>3, <1>4, <2>2 DEF CacheInv, CacheTypeOK, Planned
  <2> QED BY <2>1, <2>2
<1> QED BY <1>3, <1>4, <1>5 DEF Planned, Drops

LEMMA StaysLate ==
  ASSUME reader \in [Readers -> Reader], NEW dirs, Late(dirs)
  PROVE  /\ reader' \in [Readers -> Reader]
         /\ \A r \in Readers :
              /\ reader'[r].pc = reader[r].pc /\ reader'[r].dir = reader[r].dir
              /\ reader'[r].seen = reader[r].seen
              /\ reader[r].late => reader'[r].late
              /\ reader[r].pc = "read" /\ reader[r].dir \in dirs => reader'[r].late
<1>1. ASSUME NEW r \in Readers
      PROVE  /\ reader'[r] \in Reader
             /\ reader'[r].pc = reader[r].pc /\ reader'[r].dir = reader[r].dir
             /\ reader'[r].seen = reader[r].seen
             /\ reader[r].late => reader'[r].late
             /\ reader[r].pc = "read" /\ reader[r].dir \in dirs => reader'[r].late
  <2> DEFINE late == IsLate(r, dirs)
  <2>1. reader'[r] = [reader[r] EXCEPT !.late = late] /\ reader[r] \in Reader
    BY DEF Late
  <2>2. late \in BOOLEAN
    BY DEF IsLate
  <2> HIDE DEF late
  <2>3. /\ reader'[r] \in Reader /\ reader'[r].late = late
        /\ reader'[r].pc = reader[r].pc /\ reader'[r].dir = reader[r].dir
        /\ reader'[r].seen = reader[r].seen
    BY <2>1, <2>2 DEF Reader
  <2>4. /\ reader[r].late => late
        /\ reader[r].pc = "read" /\ reader[r].dir \in dirs => late
    BY Zenon DEF late, IsLate
  <2> QED BY <2>3, <2>4, Zenon
<1>2. reader' = [r \in Readers |-> reader'[r]]
  BY DEF Late
<1> QED BY <1>1, <1>2

LEMMA Versions ==
  ASSUME version \in [Dirs -> 0 .. LastChange], NEW step \in Step, step.do = "change",
         Applied(step)
  PROVE  /\ version' \in [Dirs -> 0 .. LastChange]
         /\ \A d \in Dirs \ (step.dirs \cup step.below) : version'[d] = version[d]
<1>1. step.dirs \cup step.below \subseteq Dirs
  BY DEF Step
<1>2. \A d \in step.dirs \cup step.below : version[d] < LastChange
  BY DEF Applied
<1>3. version' = [d \in Dirs |-> version[d] + (IF d \in step.dirs \cup step.below THEN 1 ELSE 0)]
  BY DEF Applied
<1>4. ASSUME NEW d \in Dirs
      PROVE  /\ version'[d] \in 0 .. LastChange
             /\ d \notin step.dirs \cup step.below => version'[d] = version[d]
  BY <1>2, <1>3, CacheAssumption
<1> QED BY <1>3, <1>4

\* A step of a command that changes what `changed` contain, drops the entries of
\* `gone` and gives up dropping those of `left`.
LEMMA CommandKeeps ==
  ASSUME CacheInv, NEW w \in Writers, NEW changed \in SUBSET Dirs,
         NEW gone \in SUBSET Dirs, NEW left \in SUBSET Dirs,
         Planned', due' \in [Writers -> SUBSET Dirs],
         \A v \in Writers : todo'[v] = <<>> => due'[v] = {},
         \A v \in Writers \ {w} : due'[v] = due[v],
         version' \in [Dirs -> 0 .. LastChange],
         \A d \in Dirs \ changed : version'[d] = version[d],
         changed \subseteq due'[w] \cup left, due[w] \subseteq due'[w] \cup left \cup gone,
         cache' \in [Dirs -> (0 .. LastChange) \cup {NotCached}],
         \A d \in Dirs : cache'[d] = IF d \in gone THEN NotCached ELSE cache[d],
         Late(left \cup gone), excused' = (excused \ gone) \cup left
  PROVE  CacheInv'
<1>0. reader \in [Readers -> Reader]
  BY DEF CacheInv, CacheTypeOK
<1>1. /\ reader' \in [Readers -> Reader]
      /\ \A r \in Readers :
           /\ reader'[r].pc = reader[r].pc /\ reader'[r].dir = reader[r].dir
           /\ reader'[r].seen = reader[r].seen
           /\ reader[r].late => reader'[r].late
           /\ reader[r].pc = "read" /\ reader[r].dir \in left \cup gone => reader'[r].late
  BY <1>0, StaysLate
<1>2. ASSUME NEW d \in Dirs, Owes(d) PROVE Owes(d)' \/ d \in left \cup gone
  BY <1>2 DEF Owes
<1>3. ASSUME NEW d \in changed PROVE Owes(d)' \/ d \in left
  BY DEF Owes
<1>4. CacheTypeOK'
  BY <1>1 DEF CacheInv, CacheTypeOK
<1>5. ASSUME NEW r \in Readers
      PROVE  /\ reader'[r].pc # "away" => reader'[r].dir \in Dirs
             /\ reader'[r].pc = "read" =>
                  \/ reader'[r].seen = version'[reader'[r].dir]
                  \/ reader'[r].late
                  \/ \E v \in Writers : reader'[r].dir \in due'[v]
  <2> DEFINE d == reader[r].dir
  <2>1. reader'[r].dir = d /\ (reader[r].pc # "away" => d \in Dirs)
    BY <1>1 DEF CacheInv, OnItsWay
  <2>2. ASSUME reader[r].pc = "read", d \notin left \cup gone
        PROVE  reader[r].seen = version'[d] \/ reader[r].late
                  \/ \E v \in Writers : d \in due'[v]
    <3>1. d \in Dirs /\ (reader[r].seen = version[d] \/ reader[r].late \/ Owes(d))
      BY <2>2 DEF CacheInv, OnItsWay
    <3>2. CASE Owes(d)
      BY <2>2, <3>1, <3>2 DEF Owes
    <3>3. CASE reader[r].seen = version[d]
      BY <2>2, <3>1, <3>3
    <3> QED BY <3>1, <3>2, <3>3
  <2> QED BY <1>1, <2>1, <2>2
<1>6. OnItsWay'
  BY <1>5 DEF OnItsWay, Owes
<1>7. CacheFresh'
  <2>1. ASSUME NEW d \in Dirs
        PROVE  cache'[d] \in {version'[d], NotCached} \/ d \in excused' \/ Owes(d)'
    <3>1. cache[d] \in {version[d], NotCached} \/ d \in excused \/ Owes(d)
      BY DEF CacheInv, CacheFresh, Owes
    <3> QED BY <1>2, <1>3, <3>1
  <2> QED BY <2>1 DEF CacheFresh, Owes
<1> QED BY <1>4, <1>6, <1>7 DEF CacheInv

LEMMA BeginKeeps ==
  ASSUME CacheInv, NEW w \in Writers, NEW command \in Commands, Begin(w, command)
  PROVE  CacheInv'
<1>1. /\ todo[w] = <<>> /\ todo' = [todo EXCEPT ![w] = command]
      /\ UNCHANGED <<version, cache, reader, due, excused>> /\ command \in Plan
  BY CommandsPlanned DEF Begin
<1>2. /\ todo' \in [Writers -> Plan]
      /\ \A v \in Writers \ {w} : todo'[v] = todo[v]
      /\ due[w] = {}
  BY <1>1 DEF CacheInv, CacheTypeOK, Planned
<1>3. CacheTypeOK' /\ Planned' /\ OnItsWay' /\ CacheFresh'
  BY <1>1, <1>2 DEF CacheInv, CacheTypeOK, Planned, OnItsWay, CacheFresh, Owes, Drops
<1> QED BY <1>3 DEF CacheInv

LEMMA NextStep ==
  ASSUME CacheInv, NEW w \in Writers, todo[w] # <<>>
  PROVE  /\ Head(todo[w]) \in Step /\ Tail(todo[w]) \in Plan
         /\ Head(todo[w]).do = "change" =>
              Head(todo[w]).dirs \subseteq Dirs /\ \A d \in Head(todo[w]).dirs : Drops(Tail(todo[w]), d)
         /\ Head(todo[w]).below \subseteq Dirs /\ due[w] \subseteq Dirs
         /\ \A d \in due[w] :
              Drops(Tail(todo[w]), d) \/ (Head(todo[w]).do = "drop" /\ d \in Head(todo[w]).dirs)
<1> DEFINE s == todo[w]
<1>1. s \in Plan /\ due[w] \subseteq Dirs /\ \A d \in due[w] : Drops(s, d)
  BY DEF CacheInv, CacheTypeOK, Planned
<1> HIDE DEF s
<1>2. s # <<>>
  BY DEF s
<1>3. /\ Head(s) \in Step /\ Tail(s) \in Plan
      /\ Head(s).do = "change" => \A d \in Head(s).dirs : Drops(Tail(s), d)
      /\ \A d \in due[w] : Drops(Tail(s), d) \/ (Head(s).do = "drop" /\ d \in Head(s).dirs)
  BY <1>1, <1>2, OneStepLess
<1>4. Head(s).below \subseteq Dirs /\ (Head(s).do = "change" => Head(s).dirs \subseteq Dirs)
  BY <1>3 DEF Step
<1> QED BY <1>1, <1>3, <1>4 DEF s

LEMMA ChangedKeeps == ASSUME CacheInv, NEW w \in Writers, Changed(w) PROVE CacheInv'
<1> DEFINE step == Head(todo[w])  steps == Tail(todo[w])  owed == due[w] \cup step.dirs
<1>1. /\ todo[w] # <<>> /\ step.do = "change" /\ Applied(step) /\ UNCHANGED cache
      /\ excused' = excused \cup step.below /\ Late(step.below) /\ Rest(w, steps, owed)
  BY DEF Changed, Excuse
<1>2. /\ step \in Step /\ steps \in Plan /\ owed \in SUBSET Dirs
      /\ step.below \in SUBSET Dirs /\ step.dirs \in SUBSET Dirs
      /\ \A d \in owed : Drops(steps, d)
  BY <1>1, NextStep
<1> HIDE DEF step, steps
<1>3. /\ Planned' /\ due' \in [Writers -> SUBSET Dirs] /\ due'[w] = owed
      /\ \A v \in Writers : todo'[v] = <<>> => due'[v] = {}
      /\ \A v \in Writers \ {w} : due'[v] = due[v]
  BY <1>1, <1>2, RestPlanned
<1>4. /\ version' \in [Dirs -> 0 .. LastChange]
      /\ \A d \in Dirs \ (step.dirs \cup step.below) : version'[d] = version[d]
  BY <1>1, <1>2, Versions DEF CacheInv, CacheTypeOK
<1> DEFINE changed == step.dirs \cup step.below  gone == {}  left == step.below
<1>5. /\ changed \in SUBSET Dirs /\ left \in SUBSET Dirs /\ gone \in SUBSET Dirs
      /\ changed \subseteq due'[w] \cup left /\ due[w] \subseteq due'[w] \cup left \cup gone
      /\ left \cup gone = left /\ excused' = (excused \ gone) \cup left
      /\ cache' \in [Dirs -> (0 .. LastChange) \cup {NotCached}]
      /\ \A d \in Dirs : cache'[d] = IF d \in gone THEN NotCached ELSE cache[d]
      /\ Late(left \cup gone)
  BY <1>1, <1>2, <1>3 DEF CacheInv, CacheTypeOK
<1> HIDE DEF changed, gone, left, owed
<1>6. \A d \in Dirs \ changed : version'[d] = version[d]
  BY <1>4 DEF changed
<1> QED BY <1>3, <1>4, <1>5, <1>6, CommandKeeps

LEMMA GivesUpKeeps == ASSUME CacheInv, NEW w \in Writers, GivesUp(w) PROVE CacheInv'
<1> DEFINE step == Head(todo[w])
<1>1. /\ todo[w] # <<>> /\ step.do = "change" /\ UNCHANGED cache /\ Rest(w, <<>>, {})
  BY DEF GivesUp
<1>2. step \in Step /\ step.below \in SUBSET Dirs /\ step.dirs \in SUBSET Dirs /\ due[w] \in SUBSET Dirs
  BY <1>1, NextStep
<1>3. /\ Planned' /\ due' \in [Writers -> SUBSET Dirs] /\ due'[w] = {}
      /\ \A v \in Writers : todo'[v] = <<>> => due'[v] = {}
      /\ \A v \in Writers \ {w} : due'[v] = due[v]
  BY <1>1, NothingPlanned, RestPlanned
<1>4. ASSUME NEW changed \in SUBSET Dirs, NEW left \in SUBSET Dirs,
             excused' = excused \cup left, Late(left),
             changed \subseteq left, due[w] \subseteq left,
             version' \in [Dirs -> 0 .. LastChange],
             \A d \in Dirs \ changed : version'[d] = version[d]
      PROVE  CacheInv'
  <2> DEFINE gone == {}
  <2>1. /\ changed \subseteq due'[w] \cup left /\ due[w] \subseteq due'[w] \cup left \cup gone
        /\ left \cup gone = left /\ excused' = (excused \ gone) \cup left
        /\ cache' \in [Dirs -> (0 .. LastChange) \cup {NotCached}] /\ gone \in SUBSET Dirs
        /\ \A d \in Dirs : cache'[d] = IF d \in gone THEN NotCached ELSE cache[d]
    BY <1>1, <1>3, <1>4 DEF CacheInv, CacheTypeOK
  <2> HIDE DEF gone
  <2>2. Late(left \cup gone)
    BY <1>4, <2>1
  <2> QED BY <1>3, <1>4, <2>1, <2>2, CommandKeeps
<1> HIDE DEF step
<1>5. CASE UNCHANGED version /\ Excuse(due[w])
  <2>1. excused' = excused \cup due[w] /\ Late(due[w]) /\ version' = version
    BY <1>5 DEF Excuse
  <2>2. version' \in [Dirs -> 0 .. LastChange] /\ {} \in SUBSET Dirs
    BY <2>1 DEF CacheInv, CacheTypeOK
  <2> QED BY <1>2, <1>4, <2>1, <2>2
<1>6. CASE Applied(step) /\ Excuse(due[w] \cup step.dirs \cup step.below)
  <2> DEFINE left == due[w] \cup step.dirs \cup step.below
             changed == step.dirs \cup step.below
  <2>1. excused' = excused \cup left /\ Late(left)
    BY <1>6 DEF Excuse
  <2>2. /\ version' \in [Dirs -> 0 .. LastChange]
        /\ \A d \in Dirs \ changed : version'[d] = version[d]
    BY <1>1, <1>2, <1>6, Versions DEF CacheInv, CacheTypeOK
  <2>3. left \in SUBSET Dirs /\ changed \in SUBSET Dirs /\ changed \subseteq left /\ due[w] \subseteq left
    BY <1>2
  <2> HIDE DEF left, changed
  <2> QED BY <1>4, <2>1, <2>2, <2>3
<1> QED BY <1>5, <1>6 DEF GivesUp, step

LEMMA DroppedKeeps == ASSUME CacheInv, NEW w \in Writers, Dropped(w) PROVE CacheInv'
<1> DEFINE step == Head(todo[w])  steps == Tail(todo[w])
           gone == step.dirs \cap Dirs  owed == due[w] \ gone
<1>1. /\ todo[w] # <<>> /\ step.do = "drop" /\ UNCHANGED version
      /\ cache' = [d \in Dirs |-> IF d \in gone THEN NotCached ELSE cache[d]]
      /\ Rest(w, steps, owed) /\ Late(gone) /\ excused' = excused \ gone
  BY DEF Dropped
<1>2. /\ steps \in Plan /\ owed \in SUBSET Dirs /\ gone \in SUBSET Dirs
      /\ \A d \in owed : Drops(steps, d)
  BY <1>1, NextStep
<1> HIDE DEF step, steps
<1>3. /\ Planned' /\ due' \in [Writers -> SUBSET Dirs] /\ due'[w] = owed
      /\ \A v \in Writers : todo'[v] = <<>> => due'[v] = {}
      /\ \A v \in Writers \ {w} : due'[v] = due[v]
  BY <1>1, <1>2, RestPlanned
<1> DEFINE changed == {}  left == {}
<1>4. /\ changed \in SUBSET Dirs /\ left \in SUBSET Dirs
      /\ changed \subseteq due'[w] \cup left /\ due[w] \subseteq due'[w] \cup left \cup gone
      /\ left \cup gone = gone /\ excused' = (excused \ gone) \cup left
      /\ \A d \in Dirs \ changed : version'[d] = version[d]
  BY <1>1, <1>3
<1>5. /\ cache' \in [Dirs -> (0 .. LastChange) \cup {NotCached}]
      /\ \A d \in Dirs : cache'[d] = IF d \in gone THEN NotCached ELSE cache[d]
      /\ version' \in [Dirs -> 0 .. LastChange]
  BY <1>1 DEF CacheInv, CacheTypeOK
<1> HIDE DEF gone, owed, changed, left
<1>6. Late(left \cup gone)
  BY <1>1, <1>4
<1> QED BY <1>2, <1>3, <1>4, <1>5, <1>6, CommandKeeps

LEMMA CacheStep == ASSUME CacheInv, [CacheNext]_cacheVars PROVE CacheInv'
<1>1. CASE UNCHANGED cacheVars
  BY <1>1 DEF cacheVars, CacheInv, CacheTypeOK, Planned, OnItsWay, CacheFresh, Owes, Drops
<1>2. CASE CacheNext
  BY <1>2, ListKeeps, AnsweredKeeps, ListFailsKeeps, PutKeeps, ExpireKeeps, BeginKeeps,
     ChangedKeeps, GivesUpKeeps, DroppedKeeps DEF CacheNext
<1> QED BY <1>1, <1>2

\* The inductive invariant of the cached listings of one session.
THEOREM CacheInvariant == CacheSpec => []CacheInv
<1> QED BY CacheInitial, CacheStep, PTL DEF CacheSpec

\* A cached listing that is not what the server has is about to be dropped by
\* the command that changed the directory, or has one of the known causes, for
\* any number of calls and commands under way and every tree of directories.
THEOREM CacheFreshAlways == CacheSpec => []CacheFresh
<1>1. CacheInv => CacheFresh
  BY DEF CacheInv
<1> QED BY <1>1, CacheInvariant, PTL

-----------------------------------------------------------------------------
(* The parts of a session together                                         *)

LEMMA SessionStep ==
  ASSUME PoolInv, CacheInv, LoginInv, [Next]_vars
  PROVE  PoolInv' /\ CacheInv' /\ LoginInv'
<1>1. [PoolNext]_poolVars /\ [CacheNext]_cacheVars /\ [LoginNext]_loginVars
  BY DEF Next, vars
<1> QED BY <1>1, PoolStep, CacheStep, LoginStep

\* What is proved of each part holds of the session they make up; its types
\* are right whatever part a behaviour is of.
THEOREM SessionTypeCorrect == Spec => []SessionTypeOK
<1>1. Init => PoolInv /\ CacheInv /\ LoginInv
  BY PoolInitial, CacheInitial, LoginInitial DEF Init
<1>2. PoolInv /\ CacheInv /\ LoginInv => SessionTypeOK
  BY DEF PoolInv, CacheInv, LoginInv, SessionTypeOK
<1> QED BY <1>1, <1>2, SessionStep, PTL DEF Spec
=============================================================================
