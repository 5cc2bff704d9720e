-------------------------- MODULE DeliveryContract --------------------------
(***************************************************************************)
(* What a subscriber's queue promises its publishers and its client, with  *)
(* no deque, maps, heaps or clock: the life of each message.               *)
(*                                                                         *)
(*   reserved -> inflight            (push: tag taken, then registered)    *)
(*   waiting  -> inflight | consumed | evicted | ttl_expired               *)
(*   inflight -> waiting | acked | ttl_expired | max_retries | cancelled   *)
(*                                                                         *)
(* The outcomes are final, a message is attempted at most MaxAttempts      *)
(* times, and first attempts are made in the order of publication.         *)
(***************************************************************************)
EXTENDS Integers

CONSTANT MaxAttempts

VARIABLES
  accepted,  \* number of messages accepted so far; a message is its number
  phase,     \* phase[m] : where message m is in its life
  attempts   \* attempts[m] : how often m, still live, was handed to the client

contractVars == <<accepted, phase, attempts>>

Messages == 1 .. accepted
Outcomes == {"acked", "consumed", "evicted", "ttl_expired", "max_retries", "cancelled"}
In(p)    == {m \in Messages : phase[m] = p}

ContractInit ==
  /\ accepted = 0
  /\ phase = [m \in {} |-> "waiting"]
  /\ attempts = [m \in {} |-> 0]

\* A message comes in at phase p.  Waiting messages may be evicted for it.
Accept(p, evicted) ==
  /\ p \in {"waiting", "reserved", "consumed"}
  /\ evicted \subseteq In("waiting")
  /\ accepted' = accepted + 1
  /\ phase' = [m \in 1 .. (accepted + 1) |->
                 IF m = accepted + 1 THEN p
                 ELSE IF m \in evicted THEN "evicted" ELSE phase[m]]
  /\ attempts' = [m \in 1 .. (accepted + 1) |->
                    IF m \in Messages \ evicted THEN attempts[m] ELSE 0]

\* A waiting message is handed to the client.  A message never tried before
\* goes only when no older message that was never tried is waiting.
Deliver(m, p) ==
  /\ m \in In("waiting")
  /\ attempts[m] = 0 => \A o \in In("waiting") : o < m => attempts[o] > 0
  /\ attempts[m] < MaxAttempts
  /\ p \in {"inflight", "consumed"}
  /\ phase' = [phase EXCEPT ![m] = p]
  /\ attempts' = [attempts EXCEPT ![m] = IF p = "inflight" THEN @ + 1 ELSE 0]
  /\ UNCHANGED accepted

\* A reserved message is handed to the client's buffer.
Register(m) ==
  /\ m \in In("reserved")
  /\ phase' = [phase EXCEPT ![m] = "inflight"]
  /\ attempts' = [attempts EXCEPT ![m] = 1]
  /\ UNCHANGED accepted

\* The client acknowledges, or the push is rolled back.
Settle(m, outcome) ==
  /\ m \in In("inflight")
  /\ outcome \in {"acked", "cancelled"}
  /\ phase' = [phase EXCEPT ![m] = outcome]
  /\ attempts' = [attempts EXCEPT ![m] = 0]
  /\ UNCHANGED accepted

\* Maintenance: expired live messages, exhausted and due in-flight ones.
Sweep(expired, exhausted, due) ==
  /\ expired \subseteq In("waiting") \cup In("inflight")
  /\ exhausted \cup due \subseteq In("inflight") \ expired
  /\ \A m \in exhausted : attempts[m] = MaxAttempts
  /\ \A m \in due : attempts[m] < MaxAttempts
  /\ phase' = [m \in Messages |->
                 IF m \in expired THEN "ttl_expired"
                 ELSE IF m \in exhausted THEN "max_retries"
                 ELSE IF m \in due THEN "waiting" ELSE phase[m]]
  /\ attempts' = [m \in Messages |->
                    IF m \in expired \cup exhausted THEN 0 ELSE attempts[m]]
  /\ UNCHANGED accepted

ContractNext ==
  \/ \E p \in {"waiting", "reserved", "consumed"}, S \in SUBSET In("waiting") : Accept(p, S)
  \/ \E m \in Messages, p \in {"inflight", "consumed"} : Deliver(m, p)
  \/ \E m \in Messages : Register(m)
  \/ \E m \in Messages, o \in {"acked", "cancelled"} : Settle(m, o)
  \/ \E E \in SUBSET (In("waiting") \cup In("inflight")) :
       \E X \in SUBSET In("inflight") : \E D \in SUBSET In("inflight") : Sweep(E, X, D)

ContractSpec == ContractInit /\ [][ContractNext]_contractVars
=============================================================================
