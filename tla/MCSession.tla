------------------------------- MODULE MCSession -------------------------------
(***************************************************************************)
(* Model checking of what a session keeps besides its clients: the pool of *)
(* connections, the cached listings, and the making of an SFTP connection. *)
(* These share no state, so a behaviour is of one of them: `part` says of  *)
(* which, and the states to check are the sum and not the product.         *)
(***************************************************************************)
EXTENDS ConnectionPool, ListingCache, SftpLogin

VARIABLE part

vars == <<part, poolVars, cacheVars, loginVars>>

MCLeases == [u \in Users |-> IF u = "copy" THEN 2 ELSE 1]

MCParent == [p \in Paths |-> IF p = "f" THEN "b" ELSE IF p = "b" THEN "a" ELSE "root"]

Init ==
  /\ part \in {"pool", "cache", "login"}
  /\ PoolInit /\ CacheInit /\ LoginInit
  /\ part = "pool" \/ keepalive = "ended"
  /\ part = "login" \/ password = "none"

Next ==
  /\ UNCHANGED part
  /\ \/ part = "pool" /\ PoolNext /\ UNCHANGED <<cacheVars, loginVars>>
     \/ part = "cache" /\ CacheNext /\ UNCHANGED <<poolVars, loginVars>>
     \/ part = "login" /\ LoginNext /\ UNCHANGED <<poolVars, cacheVars>>

Spec == Init /\ [][Next]_vars /\ PoolFairness /\ LoginFairness

\* The state of each part has its type.
SessionTypeOK == PoolTypeOK /\ CacheTypeOK /\ LoginTypeOK
=============================================================================
