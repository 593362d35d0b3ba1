------------------------------- MODULE Throttle -------------------------------
(***************************************************************************)
(* The bandwidth limit that all transfers share (transfer/throttle.rs): a  *)
(* bucket that fills with time up to half a second's worth.  A consumer    *)
(* that finds too little empties it and sleeps for what is missing; every  *)
(* consumer computes its own sleep, under the lock, and sleeps outside it. *)
(* Time passes in ticks, limits are bytes per tick.                        *)
(***************************************************************************)
EXTENDS Integers, FiniteSets

CONSTANTS Consumers,   \* the transfers that move bytes at one time
          Limits,      \* the limits the user sets, 0 for none
          Blocks,      \* the sizes of what is moved at a time
          BurstTicks   \* BURST_SECS

ASSUME ThrottleAssumption ==
  /\ Limits \subseteq Nat /\ Blocks \subseteq Nat \ {0} /\ BurstTicks \in Nat \ {0}
  /\ IsFiniteSet(Consumers)
  /\ \E top \in Limits : \A l \in Limits : l <= top
  /\ \E top \in Blocks : \A b \in Blocks : b <= top

VARIABLES
  limit,
  tokens,
  age,       \* ticks since `last`; more than BurstTicks make no difference
  asleep,    \* of each consumer: [left, bytes], ticks to sleep for a block
  ahead,     \* history: the bytes passed more than the limit allows, see Ahead
  far_ahead  \* history: the same for a multiple of the limit

throttleVars == <<limit, tokens, age, asleep, ahead, far_ahead>>

Lower(a, b) == IF a < b THEN a ELSE b
Higher(a, b) == IF a > b THEN a ELSE b
Awake == [left |-> 0, bytes |-> 0]
Largest == CHOOSE b \in Blocks : \A c \in Blocks : c <= b

\* What one burst and a block of every consumer may amount to at any limit.
Slack == LET top == CHOOSE l \in Limits : \A k \in Limits : k <= l
         IN  top * BurstTicks + Cardinality(Consumers) * Largest

ThrottleInit ==
  /\ limit \in Limits
  /\ tokens = 0 /\ age = 0
  /\ asleep = [c \in Consumers |-> Awake]
  /\ ahead = 0 /\ far_ahead = 0

\* A block goes through; the meters stop just above what is looked for.
Pass(b) ==
  IF limit = 0 THEN UNCHANGED <<ahead, far_ahead>>
  ELSE /\ ahead' = Lower(ahead + b, Slack + 1)
       /\ far_ahead' = Lower(far_ahead + b, Slack + 1)

Filled == Lower(tokens + age * limit, limit * BurstTicks)

ConsumeUnlimited(c, b) ==
  /\ limit = 0 /\ asleep[c] = Awake
  /\ Pass(b)
  /\ UNCHANGED <<limit, tokens, age, asleep>>

ConsumeNow(c, b) ==
  /\ limit > 0 /\ asleep[c] = Awake /\ Filled >= b
  /\ tokens' = Filled - b /\ age' = 0
  /\ Pass(b)
  /\ UNCHANGED <<limit, asleep>>

\* Slip: what there is stays in the bucket.
ConsumeLaterKeeping(c, b) ==
  /\ limit > 0 /\ asleep[c] = Awake /\ Filled < b
  /\ tokens' = Filled /\ age' = 0
  /\ asleep' = [asleep EXCEPT ![c] = [left |-> (b - Filled + limit - 1) \div limit,
                                      bytes |-> b]]
  /\ UNCHANGED <<limit, ahead, far_ahead>>

ConsumeLater(c, b) ==
  /\ limit > 0 /\ asleep[c] = Awake /\ Filled < b
  /\ tokens' = 0 /\ age' = 0
  /\ asleep' = [asleep EXCEPT ![c] = [left |-> (b - Filled + limit - 1) \div limit,
                                      bytes |-> b]]
  /\ UNCHANGED <<limit, ahead, far_ahead>>

Wake(c) ==
  /\ asleep[c].bytes > 0 /\ asleep[c].left = 0
  /\ asleep' = [asleep EXCEPT ![c] = Awake]
  /\ Pass(asleep[c].bytes)
  /\ UNCHANGED <<limit, tokens, age>>

\* A sleeper may wake late, but time does not wait for it.
Tick ==
  /\ age' = Lower(age + 1, BurstTicks)
  /\ asleep' = [c \in Consumers |-> [asleep[c] EXCEPT !.left = Higher(@ - 1, 0)]]
  /\ ahead' = Higher(ahead - limit, 0)
  /\ far_ahead' = Higher(far_ahead - (Cardinality(Consumers) + 1) * limit, 0)
  /\ UNCHANGED <<limit, tokens>>

\* settings_save; the bucket and the sleepers stay as they are, and what
\* they let through is measured from here.
SetLimit(l) ==
  /\ limit' = l /\ l # limit
  /\ ahead' = 0 /\ far_ahead' = 0
  /\ UNCHANGED <<tokens, age, asleep>>

ThrottleNext ==
  \/ \E c \in Consumers, b \in Blocks :
       ConsumeUnlimited(c, b) \/ ConsumeNow(c, b) \/ ConsumeLater(c, b)
  \/ \E c \in Consumers : Wake(c)
  \/ Tick
  \/ \E l \in Limits : SetLimit(l)

ThrottleSpec == ThrottleInit /\ [][ThrottleNext]_throttleVars
-----------------------------------------------------------------------------
\* Types; a sleeper has a block to move, and there is never more than a burst
\* of any limit in the bucket.
ThrottleTypeOK ==
  /\ limit \in Limits /\ age \in 0..BurstTicks /\ tokens \in 0..Slack
  /\ asleep \in [Consumers -> [left : Nat, bytes : Blocks \cup {0}]]
  /\ \A c \in Consumers : asleep[c].bytes = 0 => asleep[c].left = 0
  /\ ahead \in 0..Slack + 1 /\ far_ahead \in 0..Slack + 1

\* How far the limit can be exceeded: a sleep is paid for by every consumer for
\* itself and once more by the bucket, which fills while they sleep
\* (transfer/throttle.rs:35-48).  In the long run no more passes than the limit
\* for each consumer and once more.
AtMostOneLimitEach == far_ahead <= Slack

\* 'Global bandwidth limit' (en.ts:291): over any time, no more passes than the
\* limit allows but for a burst and one block of every consumer.
WithinTheLimit == ahead <= Slack
=============================================================================
