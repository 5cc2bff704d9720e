----------------------------- MODULE DrainProofs -----------------------------
(***************************************************************************)
(* Proofs about Drain, for any number of connections and messages.          *)
(***************************************************************************)
EXTENDS Drain, FiniteSetTheorems, TLAPS

-----------------------------------------------------------------------------
(* The inductive invariant.                                                *)

\* The flag is set when main has begun to shut down, and from then on only
\* publishers that were past the check can still register a message.
OnlyLate ==
  /\ shutting_down <=> main # "serving"
  /\ shutting_down => \A m \in Messages : pub[m] = "past" => m \in late

\* A subscription that has left does not come back, and a connection that never
\* had one has nothing in flight.
FreshEmpty ==
  /\ gone \cap subscribed = {}
  /\ \A c \in Conns : c \notin subscribed \cup gone =>
       inflight[c] = {} /\ conn[c] # "replaying"

\* Registered since the count began, by a late publisher or by a replay.
Excused(c) == inflight[c] \subseteq fresh[c] /\ inflight[c] \subseteq late \cup Logged

\* What the count has passed by while it found nothing.
VisitedHonest ==
  main \in {"count", "recount"} /\ total = 0 => \A c \in subscribed \ todo : Excused(c)

\* What wait_for_drain has returned; it returns once.
ReturnHonest ==
  /\ drained = "yes" => shutting_down /\ \A c \in subscribed : Excused(c)
  /\ main \notin {"flush", "exited"} => drained = "none"

\* Why main may be about to sleep, or asleep, and not be woken yet.
SleepCause == (\E c \in subscribed : inflight[c] # {}) \/ missed \/ silent \/ NotifyPending

\* From the moment the count has found a message until the next round.
SleepJustified ==
  /\ main \notin {"count", "recount"} => total = 0
  /\ main = "count" /\ total > 0 => SleepCause
  /\ main = "arm" => SleepCause
  /\ main \in {"armed", "wait"} /\ ~notified => SleepCause

Honest == OnlyLate /\ FreshEmpty /\ VisitedHonest /\ ReturnHonest

Inv == TypeOK /\ Honest /\ SleepJustified

-----------------------------------------------------------------------------

LEMMA InflightFinite ==
  ASSUME TypeOK, NEW c \in Conns
  PROVE  /\ Cardinality(inflight[c]) \in Nat
         /\ Cardinality(inflight[c]) = 0 <=> inflight[c] = {}
  <1>1. inflight[c] \in SUBSET Entries /\ IsFiniteSet(Entries)
    BY DrainAssumption, FS_Union DEF TypeOK, Entries
  <1>2. IsFiniteSet(inflight[c])
    BY <1>1, FS_Subset
  <1> QED
    BY <1>2, FS_CardinalityType, FS_EmptySet

LEMMA InitInv == Init => Inv
  <1> SUFFICES ASSUME Init PROVE Inv
    OBVIOUS
  <1>1. TypeOK
    BY DrainAssumption DEF Init, NoEntries, TypeOK, Outcomes, ConnStates, MainStates
  <1>2. Honest /\ SleepJustified
    BY DrainAssumption DEF Init, NoEntries, Honest, OnlyLate, Excused, FreshEmpty, VisitedHonest, ReturnHonest, SleepJustified
  <1> QED
    BY <1>1, <1>2 DEF Inv

\* Every step keeps the types.
LEMMA TypeStep ==
  ASSUME TypeOK, [Next]_vars
  PROVE  TypeOK'
  <1> USE DEF TypeOK, Entries, Outcomes, ConnStates, MainStates, signals, queues, broker, waiter, history
  <1>1. ASSUME NEW m \in Messages, publish_check(m) PROVE TypeOK'
    BY <1>1 DEF publish_check
  <1>2. ASSUME NEW m \in Messages, publish_register(m) PROVE TypeOK'
    BY <1>2 DEF publish_register, register, Counting, Running
  <1>3. ASSUME NEW m \in Messages, publish_dropped(m) PROVE TypeOK'
    BY <1>3 DEF publish_dropped
  <1>4. ASSUME NEW c \in Conns, NEW e \in Entries, push_encoded(c, e) PROVE TypeOK'
    BY <1>4 DEF push_encoded
  <1>5. ASSUME NEW c \in Conns, NEW e \in Entries, cancel_push_inflight(c, e) PROVE TypeOK'
    BY <1>5 DEF cancel_push_inflight, LeavesSilently, InRound
  <1>6. ASSUME NEW c \in Conns, drop_slow_consumer(c) PROVE TypeOK'
    BY <1>6 DEF drop_slow_consumer, LeavesSilently, InRound
  <1>7. ASSUME NEW c \in Conns, accept(c) PROVE TypeOK'
    BY <1>7 DEF accept
  <1>8. ASSUME NEW c \in Conns, subscribe(c) PROVE TypeOK'
    BY <1>8 DEF subscribe
  <1>9. ASSUME NEW c \in Conns, NEW e \in Entries, replay_register(c, e) PROVE TypeOK'
    BY <1>9 DEF replay_register, register, Counting, Running
  <1>10. ASSUME NEW c \in Conns, replay_ends(c) PROVE TypeOK'
    BY <1>10 DEF replay_ends
  <1>11. ASSUME NEW c \in Conns, NEW e \in Entries, ack_remove(c, e) PROVE TypeOK'
    BY <1>11 DEF ack_remove
  <1>12. ASSUME NEW c \in Conns, ack_notify(c) PROVE TypeOK'
    BY <1>12 DEF ack_notify, notify_waiters
  <1>13. ASSUME NEW c \in Conns, connection_ends(c) PROVE TypeOK'
    BY <1>13 DEF connection_ends
  <1>14. ASSUME NEW c \in Conns, unsubscribe_connection(c) PROVE TypeOK'
    BY <1>14 DEF unsubscribe_connection, LeavesSilently, InRound
  <1>15. ASSUME NEW c \in Conns, count_shard(c) PROVE TypeOK'
    BY <1>15, InflightFinite DEF count_shard
  <1>16. CASE stop_accepting
    BY <1>16 DEF stop_accepting
  <1>17. CASE maintenance_walk
    BY <1>17 DEF maintenance_walk
  <1>18. CASE maintenance_notify
    BY <1>18 DEF maintenance_notify, notify_waiters
  <1>19. CASE maintenance_stops
    BY <1>19 DEF maintenance_stops
  <1>20. CASE begin_shutdown
    BY <1>20 DEF begin_shutdown
  <1>21. CASE signal_tasks
    BY <1>21 DEF signal_tasks, StartCount
  <1>22. CASE counted
    BY <1>22 DEF counted, NoEntries
  <1>23. CASE arm
    BY <1>23 DEF arm
  <1>24. CASE check_remaining
    BY <1>24 DEF check_remaining, StartCount
  <1>25. CASE woken
    BY <1>25 DEF woken, StartCount
  <1>26. CASE timed_out
    BY <1>26 DEF timed_out, StartCount
  <1>27. CASE recounted
    BY <1>27 DEF recounted
  <1>28. CASE flush_and_exit
    BY <1>28 DEF flush_and_exit
  <1>29. CASE deadline
    BY <1>29 DEF deadline, InRound
  <1>30. CASE UNCHANGED vars
    BY <1>30 DEF vars
  <1> QED
    BY <1>1, <1>2, <1>3, <1>4, <1>5, <1>6, <1>7, <1>8, <1>9, <1>10, <1>11, <1>12, <1>13,
       <1>14, <1>15, <1>16, <1>17, <1>18, <1>19, <1>20, <1>21, <1>22, <1>23, <1>24,
       <1>25, <1>26, <1>27, <1>28, <1>29, <1>30 DEF Next, Main, Tasks

\* Every step keeps what the count has passed by within the late publishes and
\* the replays since.
LEMMA HonestStep ==
  ASSUME TypeOK, Honest, [Next]_vars
  PROVE  Honest'
  <1> USE DEF TypeOK, Entries, Honest, OnlyLate, FreshEmpty, Excused, VisitedHonest, ReturnHonest,
              signals, queues, broker, waiter, history
  <1>1. ASSUME NEW m \in Messages, publish_check(m) PROVE Honest'
    BY <1>1 DEF publish_check
  <1>2. ASSUME NEW m \in Messages, publish_register(m) PROVE Honest'
    BY <1>2 DEF publish_register, register, Counting, Running
  <1>3. ASSUME NEW m \in Messages, publish_dropped(m) PROVE Honest'
    BY <1>3 DEF publish_dropped
  <1>4. ASSUME NEW c \in Conns, NEW e \in Entries, push_encoded(c, e) PROVE Honest'
    BY <1>4 DEF push_encoded
  <1>5. ASSUME NEW c \in Conns, NEW e \in Entries, cancel_push_inflight(c, e) PROVE Honest'
    BY <1>5 DEF cancel_push_inflight, LeavesSilently, InRound
  <1>6. ASSUME NEW c \in Conns, drop_slow_consumer(c) PROVE Honest'
    BY <1>6 DEF drop_slow_consumer, LeavesSilently, InRound
  <1>7. ASSUME NEW c \in Conns, accept(c) PROVE Honest'
    BY <1>7 DEF accept
  <1>8. ASSUME NEW c \in Conns, subscribe(c) PROVE Honest'
    BY <1>8 DEF subscribe
  <1>9. ASSUME NEW c \in Conns, NEW e \in Entries, replay_register(c, e) PROVE Honest'
    BY <1>9 DEF replay_register, register, Counting, Running
  <1>10. ASSUME NEW c \in Conns, replay_ends(c) PROVE Honest'
    BY <1>10 DEF replay_ends
  <1>11. ASSUME NEW c \in Conns, NEW e \in Entries, ack_remove(c, e) PROVE Honest'
    BY <1>11 DEF ack_remove
  <1>12. ASSUME NEW c \in Conns, ack_notify(c) PROVE Honest'
    BY <1>12 DEF ack_notify, notify_waiters
  <1>13. ASSUME NEW c \in Conns, connection_ends(c) PROVE Honest'
    BY <1>13 DEF connection_ends
  <1>14. ASSUME NEW c \in Conns, unsubscribe_connection(c) PROVE Honest'
    BY <1>14 DEF unsubscribe_connection, LeavesSilently, InRound
  <1>15. ASSUME NEW c \in Conns, count_shard(c) PROVE Honest'
    BY <1>15, InflightFinite DEF count_shard
  <1>16. CASE stop_accepting
    BY <1>16 DEF stop_accepting
  <1>17. CASE maintenance_walk
    BY <1>17 DEF maintenance_walk
  <1>18. CASE maintenance_notify
    BY <1>18 DEF maintenance_notify, notify_waiters
  <1>19. CASE maintenance_stops
    BY <1>19 DEF maintenance_stops
  <1>20. CASE begin_shutdown
    BY <1>20 DEF begin_shutdown
  <1>21. CASE signal_tasks
    BY <1>21 DEF signal_tasks, StartCount
  <1>22. CASE counted
    BY <1>22 DEF counted, NoEntries
  <1>23. CASE arm
    BY <1>23 DEF arm
  <1>24. CASE check_remaining
    BY <1>24 DEF check_remaining, StartCount
  <1>25. CASE woken
    BY <1>25 DEF woken, StartCount
  <1>26. CASE timed_out
    BY <1>26 DEF timed_out, StartCount
  <1>27. CASE recounted
    BY <1>27 DEF recounted
  <1>28. CASE flush_and_exit
    BY <1>28 DEF flush_and_exit
  <1>29. CASE deadline
    BY <1>29 DEF deadline, InRound
  <1>30. CASE UNCHANGED vars
    BY <1>30 DEF vars
  <1> QED
    BY <1>1, <1>2, <1>3, <1>4, <1>5, <1>6, <1>7, <1>8, <1>9, <1>10, <1>11, <1>12, <1>13,
       <1>14, <1>15, <1>16, <1>17, <1>18, <1>19, <1>20, <1>21, <1>22, <1>23, <1>24,
       <1>25, <1>26, <1>27, <1>28, <1>29, <1>30 DEF Next, Main, Tasks

\* No step takes away the cause of a sleep without waking main or leaving another.
LEMMA SleepStep ==
  ASSUME TypeOK, SleepJustified, [Next]_vars
  PROVE  SleepJustified'
  <1> USE DEF TypeOK, SleepJustified, SleepCause, NotifyPending, signals, queues, broker, waiter, history
  <1>1. ASSUME NEW m \in Messages, publish_check(m) PROVE SleepJustified'
    BY <1>1 DEF publish_check
  <1>2. ASSUME NEW m \in Messages, publish_register(m) PROVE SleepJustified'
    BY <1>2 DEF publish_register, register, Counting, Running
  <1>3. ASSUME NEW m \in Messages, publish_dropped(m) PROVE SleepJustified'
    BY <1>3 DEF publish_dropped
  <1>4. ASSUME NEW c \in Conns, NEW e \in Entries, push_encoded(c, e) PROVE SleepJustified'
    BY <1>4 DEF push_encoded
  <1>5. ASSUME NEW c \in Conns, NEW e \in Entries, cancel_push_inflight(c, e) PROVE SleepJustified'
    <2>1. /\ UNCHANGED <<subscribed, conn, ticker, main, total, notified, missed>>
          /\ inflight' = [inflight EXCEPT ![c] = @ \ {e}]
          /\ silent' = (silent \/ (InRound /\ {d \in subscribed : d = c /\ e \in inflight[c]} # {}))
      BY <1>5 DEF cancel_push_inflight, LeavesSilently
    <2>2. ASSUME InRound, SleepCause PROVE SleepCause'
      <3>1. CASE c \in subscribed /\ e \in inflight[c]
        <4>1. c \in {d \in subscribed : d = c /\ e \in inflight[c]}
          BY <3>1
        <4> QED
          BY <2>1, <2>2, <4>1
      <3>2. CASE ~ (c \in subscribed /\ e \in inflight[c])
        <4>1. \A d \in subscribed : inflight'[d] = inflight[d]
          BY <2>1, <3>2
        <4> QED
          BY <2>1, <2>2, <4>1
      <3> QED
        BY <3>1, <3>2
    <2> QED
      BY <2>1, <2>2 DEF InRound
  <1>6. ASSUME NEW c \in Conns, drop_slow_consumer(c) PROVE SleepJustified'
    BY <1>6 DEF drop_slow_consumer, LeavesSilently, InRound
  <1>7. ASSUME NEW c \in Conns, accept(c) PROVE SleepJustified'
    BY <1>7 DEF accept
  <1>8. ASSUME NEW c \in Conns, subscribe(c) PROVE SleepJustified'
    BY <1>8 DEF subscribe
  <1>9. ASSUME NEW c \in Conns, NEW e \in Entries, replay_register(c, e) PROVE SleepJustified'
    BY <1>9 DEF replay_register, register, Counting, Running
  <1>10. ASSUME NEW c \in Conns, replay_ends(c) PROVE SleepJustified'
    BY <1>10 DEF replay_ends
  <1>11. ASSUME NEW c \in Conns, NEW e \in Entries, ack_remove(c, e) PROVE SleepJustified'
    BY <1>11 DEF ack_remove
  <1>12. ASSUME NEW c \in Conns, ack_notify(c) PROVE SleepJustified'
    BY <1>12 DEF ack_notify, notify_waiters
  <1>13. ASSUME NEW c \in Conns, connection_ends(c) PROVE SleepJustified'
    BY <1>13 DEF connection_ends
  <1>14. ASSUME NEW c \in Conns, unsubscribe_connection(c) PROVE SleepJustified'
    BY <1>14 DEF unsubscribe_connection, LeavesSilently, InRound
  <1>15. ASSUME NEW c \in Conns, count_shard(c) PROVE SleepJustified'
    BY <1>15, InflightFinite DEF count_shard
  <1>16. CASE stop_accepting
    BY <1>16 DEF stop_accepting
  <1>17. CASE maintenance_walk
    BY <1>17 DEF maintenance_walk
  <1>18. CASE maintenance_notify
    BY <1>18 DEF maintenance_notify, notify_waiters
  <1>19. CASE maintenance_stops
    BY <1>19 DEF maintenance_stops
  <1>20. CASE begin_shutdown
    BY <1>20 DEF begin_shutdown
  <1>21. CASE signal_tasks
    BY <1>21 DEF signal_tasks, StartCount
  <1>22. CASE counted
    BY <1>22 DEF counted, NoEntries
  <1>23. CASE arm
    BY <1>23 DEF arm
  <1>24. CASE check_remaining
    BY <1>24 DEF check_remaining, StartCount
  <1>25. CASE woken
    BY <1>25 DEF woken, StartCount
  <1>26. CASE timed_out
    BY <1>26 DEF timed_out, StartCount
  <1>27. CASE recounted
    BY <1>27 DEF recounted
  <1>28. CASE flush_and_exit
    BY <1>28 DEF flush_and_exit
  <1>29. CASE deadline
    BY <1>29 DEF deadline, InRound
  <1>30. CASE UNCHANGED vars
    BY <1>30 DEF vars
  <1> QED
    BY <1>1, <1>2, <1>3, <1>4, <1>5, <1>6, <1>7, <1>8, <1>9, <1>10, <1>11, <1>12, <1>13,
       <1>14, <1>15, <1>16, <1>17, <1>18, <1>19, <1>20, <1>21, <1>22, <1>23, <1>24,
       <1>25, <1>26, <1>27, <1>28, <1>29, <1>30 DEF Next, Main, Tasks

LEMMA NextInv == Inv /\ [Next]_vars => Inv'
  BY TypeStep, HonestStep, SleepStep DEF Inv

LEMMA SpecInv == Spec => []Inv
  BY InitInv, NextInv, PTL DEF Spec

-----------------------------------------------------------------------------
(* The theorems.                                                           *)

\* Whatever publishers, acks, replays, closing and new connections and the
\* maintenance task do while wait_for_drain visits one shard after the other:
\* when it says "drained", each message in flight was registered after that count
\* had begun, by a publisher past its check when begin_shutdown ran or by a replay.
THEOREM DrainIsHonest == Spec => []DrainHonest
  <1>1. Inv => DrainHonest
    BY DEF Inv, Honest, ReturnHonest, Excused, DrainHonest
  <1> QED
    BY <1>1, SpecInv, PTL

\* main never sleeps with nothing in flight for a reason other than the known
\* ones: a notification between its count and the creation of the future, one on
\* its way, or messages that left without one (a closed connection, a dropped slow
\* consumer, a push rolled back).
THEOREM SleepIsExplained == Spec => []SleepExplained
  <1>1. Inv => SleepExplained
    BY DEF Inv, SleepJustified, SleepCause, SleepExplained, InFlight
  <1> QED
    BY <1>1, SpecInv, PTL
=============================================================================
