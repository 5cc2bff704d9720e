-------------------------------- MODULE Drain --------------------------------
(***************************************************************************)
(* Graceful shutdown (blipmqd/src/main.rs, Broker::wait_for_drain): main    *)
(* refuses new publishes, signals the tasks, waits until no QoS1 message is *)
(* in flight or two seconds are over, flushes the log and exits.  Around it *)
(* run publishers that passed the check before it was set, readers that     *)
(* still work off the ACK and SUBSCRIBE frames they have read, offset       *)
(* replays, connections that close, the accept loop and the maintenance     *)
(* task.                                                                    *)
(*                                                                         *)
(* notify_waiters wakes the Notified futures that exist and leaves nothing  *)
(* for later ones.  inflight_message_count visits the shards one after the  *)
(* other; here each connection is a shard of its own with one subscription. *)
(* What a message goes through in its queue is in SubscriberQueue.          *)
(***************************************************************************)
EXTENDS Naturals, FiniteSets

CONSTANTS
  Conns,      \* connections, one push subscription each
  Connected,  \* those that are connected at the start
  Messages,   \* publishes, each a push to one subscription
  Logged      \* logged QoS1 messages an offset replay may push once more

ASSUME DrainAssumption ==
  /\ Connected \subseteq Conns
  /\ IsFiniteSet(Conns) /\ IsFiniteSet(Messages) /\ IsFiniteSet(Logged)
  /\ Messages \cap Logged = {}

\* What can be in flight: a replayed message has a delivery tag of its own.
Entries == Messages \cup Logged

VARIABLES
  shutting_down,  \* Broker::shutting_down
  signalled,      \* the value of the shutdown watch channel
  accepting,      \* the accept loop runs
  conn,           \* connection -> what its tasks do
  subscribed,     \* the connections whose subscription is in its shard
  gone,           \* the connections whose subscription has left it
  inflight,       \* connection -> the in-flight messages of its queue
  pushing,        \* connection -> those registered whose slot has not been tried yet
  slow,           \* the subscriptions a publisher is about to drop
  replay,         \* connection -> what its offset replay has still to push
  pub,            \* message -> how far publish_inner is
  ticker,         \* the maintenance task
  main,           \* how far main is
  todo, total,    \* inflight_message_count: shards to visit, sum so far
  notified,       \* wait_for_drain's future has been notified
  expired,        \* the deadline has passed
  drained,        \* what wait_for_drain returned
  late,           \* history: publishers past the check when it was set
  missed,         \* history, of this round: notify_waiters ran before the future existed
  silent,         \* history, of this round: messages left the count with no notification
  fresh           \* history: connection -> what was registered since the last count began

signals == <<shutting_down, signalled, accepting>>
queues == <<subscribed, gone, inflight, pushing, slow, replay>>
broker == <<signals, queues, conn, pub, ticker>>
waiter == <<main, todo, total, notified, expired, drained>>
history == <<late, missed, silent, fresh>>
vars == <<broker, waiter, history>>

Outcomes == {"none", "yes", "no"}
ConnStates == {"new", "reading", "replaying", "acked", "ended", "closed"}
MainStates == {"serving", "refusing", "count", "arm", "armed", "wait",
               "recount", "flush", "exited"}

TypeOK ==
  /\ shutting_down \in BOOLEAN /\ signalled \in BOOLEAN /\ accepting \in BOOLEAN
  /\ conn \in [Conns -> ConnStates]
  /\ subscribed \subseteq Conns /\ gone \subseteq Conns /\ slow \subseteq Conns
  /\ inflight \in [Conns -> SUBSET Entries]
  /\ pushing \in [Conns -> SUBSET Entries]
  /\ replay \in [Conns -> SUBSET Logged]
  /\ pub \in [Messages -> {"idle", "past", "done"}]
  /\ ticker \in {"idle", "walked", "stopped"}
  /\ main \in MainStates
  /\ todo \subseteq Conns /\ total \in Nat
  /\ notified \in BOOLEAN /\ expired \in BOOLEAN
  /\ drained \in Outcomes
  /\ late \subseteq Messages /\ missed \in BOOLEAN /\ silent \in BOOLEAN
  /\ fresh \in [Conns -> SUBSET Entries]

NoEntries == [c \in Conns |-> {}]

Init ==
  /\ shutting_down = FALSE /\ signalled = FALSE /\ accepting = TRUE
  /\ conn = [c \in Conns |-> IF c \in Connected THEN "reading" ELSE "new"]
  /\ subscribed = Connected /\ gone = {} /\ slow = {}
  /\ inflight = NoEntries /\ pushing = NoEntries /\ replay = NoEntries
  /\ pub = [m \in Messages |-> "idle"]
  /\ ticker = "idle"
  /\ main = "serving"
  /\ todo = {} /\ total = 0 /\ notified = FALSE /\ expired = FALSE /\ drained = "none"
  /\ late = {} /\ missed = FALSE /\ silent = FALSE /\ fresh = NoEntries

\* Tasks run until main returns and the runtime is dropped.
Running == main # "exited"

-----------------------------------------------------------------------------
(* What leaves and what enters the in-flight sets.                         *)

\* From wait_for_drain's first count to its sleep.
InRound == main \in {"count", "arm", "armed", "wait"}

\* A count runs, or was the last one.
Counting == main \in {"count", "recount", "flush"}

\* E leaves the count with nothing to wake the drain.
LeavesSilently(E) ==
  /\ silent' = (silent \/ (InRound /\ E # {}))
  /\ UNCHANGED <<late, missed, fresh>>

\* register_push_inflight
register(c, e) ==
  /\ inflight' = [inflight EXCEPT ![c] = @ \cup {e}]
  /\ pushing' = [pushing EXCEPT ![c] = @ \cup {e}]
  /\ fresh' = IF Counting THEN [fresh EXCEPT ![c] = @ \cup {e}] ELSE fresh
  /\ UNCHANGED <<late, missed, silent>>

\* The slot has room: the frame is encoded into it.
push_encoded(c, e) ==
  /\ Running
  /\ e \in pushing[c]
  /\ pushing' = [pushing EXCEPT ![c] = @ \ {e}]
  /\ UNCHANGED <<signals, subscribed, gone, inflight, slow, replay, conn, pub, ticker,
                 waiter, history>>

\* The slot is full: cancel_push_inflight, which does not notify, and with
\* SlowConsumerPolicy::DropSubscription a publisher, but no replay, notes the
\* subscription for the end of its fan-out.
cancel_push_inflight(c, e) ==
  /\ Running
  /\ e \in pushing[c]
  /\ pushing' = [pushing EXCEPT ![c] = @ \ {e}]
  /\ inflight' = [inflight EXCEPT ![c] = @ \ {e}]
  /\ LeavesSilently({d \in subscribed : d = c /\ e \in inflight[c]})
  /\ slow' \in {slow, IF e \in Messages THEN slow \cup {c} ELSE slow}
  /\ UNCHANGED <<signals, subscribed, gone, replay, conn, pub, ticker, waiter>>

-----------------------------------------------------------------------------
(* Publishers.                                                             *)

\* publish_inner's first test.
publish_check(m) ==
  /\ Running
  /\ pub[m] = "idle"
  /\ pub' = [pub EXCEPT ![m] = IF shutting_down THEN "done" ELSE "past"]
  /\ UNCHANGED <<signals, queues, conn, ticker, waiter, history>>

\* The fan-out pushes a QoS1 message to a subscription it has found, which may
\* have left since; or has found none.
publish_register(m) ==
  /\ Running
  /\ pub[m] = "past"
  /\ pub' = [pub EXCEPT ![m] = "done"]
  /\ \/ \E c \in subscribed \cup gone : register(c, m)
     \/ UNCHANGED <<inflight, pushing, history>>
  /\ UNCHANGED <<signals, subscribed, gone, slow, replay, conn, ticker, waiter>>

\* A QoS0 publish registers nothing; a full slot may cost the subscription.
\* The dead letters of maintenance_tick are such publishes.
publish_dropped(m) ==
  /\ Running
  /\ pub[m] = "past"
  /\ pub' = [pub EXCEPT ![m] = "done"]
  /\ \E c \in subscribed \cup gone : slow' = slow \cup {c}
  /\ UNCHANGED <<signals, subscribed, gone, inflight, pushing, replay, conn, ticker,
                 waiter, history>>

\* unsubscribe_one; it does not notify.
drop_slow_consumer(c) ==
  /\ Running
  /\ c \in slow
  /\ slow' = slow \ {c}
  /\ subscribed' = subscribed \ {c} /\ gone' = gone \cup {c}
  /\ LeavesSilently(IF c \in subscribed THEN inflight[c] ELSE {})
  /\ UNCHANGED <<signals, inflight, pushing, replay, conn, pub, ticker, waiter>>

-----------------------------------------------------------------------------
(* Connections.                                                            *)

\* Tokio's notify_waiters: only a future that exists is woken.
notify_waiters ==
  /\ notified' = (notified \/ main \in {"armed", "wait"})
  /\ missed' = (missed \/ main \in {"count", "arm"})
  /\ UNCHANGED <<main, todo, total, expired, drained, late, silent, fresh>>

\* The accept loop: select! is unbiased, so it may still accept after the
\* signal; the clone it hands out has not seen the change.
accept(c) ==
  /\ Running
  /\ accepting
  /\ conn[c] = "new"
  /\ conn' = [conn EXCEPT ![c] = "reading"]
  /\ UNCHANGED <<signals, queues, pub, ticker, waiter, history>>

stop_accepting ==
  /\ Running
  /\ accepting /\ signalled
  /\ accepting' = FALSE
  /\ UNCHANGED <<shutting_down, signalled, queues, conn, pub, ticker, waiter, history>>

\* A SUBSCRIBE frame; nothing refuses it during shutdown.  With an offset the
\* reader then replays what the log holds for the topic.
subscribe(c) ==
  /\ Running
  /\ conn[c] = "reading" /\ c \notin subscribed \cup gone
  /\ subscribed' = subscribed \cup {c}
  /\ \/ UNCHANGED <<conn, replay>>
     \/ /\ conn' = [conn EXCEPT ![c] = "replaying"]
        /\ \E L \in SUBSET Logged : replay' = [replay EXCEPT ![c] = L]
  /\ UNCHANGED <<signals, gone, inflight, pushing, slow, pub, ticker, waiter, history>>

\* One record of replay_to_subscriber; nothing checks for a shutdown.
replay_register(c, e) ==
  /\ Running
  /\ conn[c] = "replaying" /\ pushing[c] \cap Logged = {}
  /\ e \in replay[c]
  /\ replay' = [replay EXCEPT ![c] = @ \ {e}]
  /\ register(c, e)
  /\ UNCHANGED <<signals, subscribed, gone, slow, conn, pub, ticker, waiter>>

replay_ends(c) ==
  /\ Running
  /\ conn[c] = "replaying" /\ pushing[c] \cap Logged = {}
  /\ replay[c] = {}
  /\ conn' = [conn EXCEPT ![c] = "reading"]
  /\ UNCHANGED <<signals, queues, pub, ticker, waiter, history>>

\* An ACK frame for a delivery: Broker::ack removes the entry ...
ack_remove(c, e) ==
  /\ Running
  /\ conn[c] = "reading" /\ c \in subscribed
  /\ e \in inflight[c] \ pushing[c]
  /\ inflight' = [inflight EXCEPT ![c] = @ \ {e}]
  /\ conn' = [conn EXCEPT ![c] = "acked"]
  /\ UNCHANGED <<signals, subscribed, gone, pushing, slow, replay, pub, ticker,
                 waiter, history>>

\* Slip: an ack does not wake the drain.
ack_silent(c) ==
  /\ Running
  /\ conn[c] = "acked"
  /\ conn' = [conn EXCEPT ![c] = "reading"]
  /\ UNCHANGED <<signals, queues, pub, ticker, waiter, history>>

\* ... and wakes the drain after the queue's lock is released.
ack_notify(c) ==
  /\ Running
  /\ conn[c] = "acked"
  /\ conn' = [conn EXCEPT ![c] = "reading"]
  /\ notify_waiters
  /\ UNCHANGED <<signals, queues, pub, ticker>>

\* The reader sees the signal between two reads, or the peer hangs up; the
\* writer ends after it.
connection_ends(c) ==
  /\ Running
  /\ conn[c] = "reading"
  /\ conn' = [conn EXCEPT ![c] = "ended"]
  /\ UNCHANGED <<signals, queues, pub, ticker, waiter, history>>

\* It does not notify.
unsubscribe_connection(c) ==
  /\ Running
  /\ conn[c] = "ended"
  /\ conn' = [conn EXCEPT ![c] = "closed"]
  /\ subscribed' = subscribed \ {c} /\ gone' = gone \cup ({c} \cap subscribed)
  /\ LeavesSilently(IF c \in subscribed THEN inflight[c] ELSE {})
  /\ UNCHANGED <<signals, inflight, pushing, slow, replay, pub, ticker, waiter>>

-----------------------------------------------------------------------------
(* The maintenance task.                                                   *)

\* The walk over the shards drops what expired or ran out of retries.  Each
\* shard's part is independent of the others, so the walk is one step.  The
\* dead letters it publishes then are QoS0 (publish_dropped) and refused during
\* a shutdown.
maintenance_walk ==
  /\ Running
  /\ ticker = "idle"
  /\ \E D \in SUBSET (UNION {inflight[c] : c \in subscribed}) :
       inflight' = [c \in Conns |-> IF c \in subscribed THEN inflight[c] \ D
                                                        ELSE inflight[c]]
  /\ ticker' = "walked"
  /\ UNCHANGED <<signals, subscribed, gone, pushing, slow, replay, conn, pub, waiter, history>>

maintenance_notify ==
  /\ Running
  /\ ticker = "walked"
  /\ ticker' = "idle"
  /\ notify_waiters
  /\ UNCHANGED <<signals, queues, conn, pub>>

maintenance_stops ==
  /\ Running
  /\ ticker = "idle" /\ signalled
  /\ ticker' = "stopped"
  /\ UNCHANGED <<signals, queues, conn, pub, waiter, history>>

-----------------------------------------------------------------------------
(* main, from Ctrl+C on.                                                   *)

begin_shutdown ==
  /\ main = "serving"
  /\ main' = "refusing"
  /\ shutting_down' = TRUE
  /\ late' = {m \in Messages : pub[m] = "past"}
  /\ UNCHANGED <<signalled, accepting, queues, conn, pub, ticker,
                 todo, total, notified, expired, drained, missed, silent, fresh>>

\* A new round: the future of the one before is gone.
StartCount ==
  /\ todo' = Conns
  /\ notified' = FALSE /\ missed' = FALSE /\ silent' = FALSE

\* shutdown_tx.send(true), and wait_for_drain is entered.
signal_tasks ==
  /\ main = "refusing"
  /\ signalled' = TRUE
  /\ main' = "count"
  /\ StartCount
  /\ UNCHANGED <<shutting_down, accepting, queues, conn, pub, ticker,
                 total, expired, drained, late, fresh>>

\* One shard of inflight_message_count, under its read lock.
count_shard(c) ==
  /\ main \in {"count", "recount"}
  /\ c \in todo
  /\ todo' = todo \ {c}
  /\ total' = total + (IF c \in subscribed THEN Cardinality(inflight[c]) ELSE 0)
  /\ UNCHANGED <<broker, main, notified, expired, drained, history>>

\* Slip: a count of one is taken for none.
counted_off_by_one ==
  /\ main = "count" /\ todo = {}
  /\ total' = 0
  /\ IF total <= 1
     THEN main' = "flush" /\ drained' = "yes" /\ UNCHANGED fresh
     ELSE main' = "arm" /\ fresh' = NoEntries /\ UNCHANGED drained
  /\ UNCHANGED <<broker, todo, notified, expired, late, missed, silent>>

\* The test at the head of the loop.
counted ==
  /\ main = "count" /\ todo = {}
  /\ total' = 0
  /\ IF total = 0
     THEN main' = "flush" /\ drained' = "yes" /\ UNCHANGED fresh
     ELSE main' = "arm" /\ fresh' = NoEntries /\ UNCHANGED drained
  /\ UNCHANGED <<broker, todo, notified, expired, late, missed, silent>>

\* drain_notify.notified()
arm ==
  /\ main = "arm"
  /\ main' = "armed"
  /\ UNCHANGED <<broker, todo, total, notified, expired, drained, history>>

\* The remaining time: wait, or count a last time.
check_remaining ==
  /\ main = "armed"
  /\ IF expired
     THEN main' = "recount" /\ StartCount
     ELSE main' = "wait" /\ UNCHANGED <<todo, notified, missed, silent>>
  /\ UNCHANGED <<broker, total, expired, drained, late, fresh>>

\* select!: the notification ...
woken ==
  /\ main = "wait" /\ notified
  /\ main' = "count"
  /\ StartCount
  /\ UNCHANGED <<broker, total, expired, drained, late, fresh>>

\* Slip: wait for the notification only.
no_timeout ==
  /\ main = "wait" /\ expired /\ notified
  /\ main' = "recount"
  /\ StartCount
  /\ UNCHANGED <<broker, total, expired, drained, late, fresh>>

\* ... or the deadline, whichever is polled ready.
timed_out ==
  /\ main = "wait" /\ expired
  /\ main' = "recount"
  /\ StartCount
  /\ UNCHANGED <<broker, total, expired, drained, late, fresh>>

recounted ==
  /\ main = "recount" /\ todo = {}
  /\ main' = "flush"
  /\ drained' = IF total = 0 THEN "yes" ELSE "no"
  /\ total' = 0
  /\ UNCHANGED <<broker, todo, notified, expired, history>>

\* flush_wal, and main returns, with an error if the flush failed.
flush_and_exit ==
  /\ main = "flush"
  /\ main' = "exited"
  /\ UNCHANGED <<broker, todo, total, notified, expired, drained, history>>

\* Two seconds after wait_for_drain was entered.
deadline ==
  /\ InRound /\ ~expired
  /\ expired' = TRUE
  /\ UNCHANGED <<broker, main, todo, total, notified, drained, history>>

-----------------------------------------------------------------------------

Main ==
  \/ begin_shutdown \/ signal_tasks
  \/ \E c \in Conns : count_shard(c)
  \/ counted \/ arm \/ check_remaining \/ woken \/ timed_out \/ recounted
  \/ flush_and_exit

Tasks ==
  \/ \E m \in Messages : publish_check(m) \/ publish_register(m) \/ publish_dropped(m)
  \/ \E c \in Conns : \/ drop_slow_consumer(c)
                      \/ accept(c) \/ subscribe(c) \/ replay_ends(c)
                      \/ \E e \in Entries : \/ push_encoded(c, e)
                                            \/ cancel_push_inflight(c, e)
                                            \/ replay_register(c, e)
                                            \/ ack_remove(c, e)
                      \/ ack_notify(c) \/ connection_ends(c) \/ unsubscribe_connection(c)
  \/ stop_accepting
  \/ maintenance_walk \/ maintenance_notify \/ maintenance_stops

Next == Main \/ Tasks \/ deadline

\* Tokio polls main whenever it can go on, and its timer fires.
Spec == Init /\ [][Next]_vars /\ WF_vars(Main) /\ WF_vars(deadline)

-----------------------------------------------------------------------------
(* Properties.                                                             *)

InFlight == UNION {inflight[c] : c \in subscribed}

\* A removal that has not notified yet.
NotifyPending == ticker = "walked" \/ \E c \in Conns : conn[c] = "acked"

\* wait_for_drain may say "drained" although messages are in flight: the
\* shard-by-shard count is no snapshot.  But each of them was registered after
\* that count had begun, either by a publisher that was between its check and
\* its registration when begin_shutdown ran, or by the offset replay of a
\* SUBSCRIBE, which nothing refuses during a shutdown.
DrainHonest ==
  drained = "yes" => \A c \in subscribed : inflight[c] \subseteq fresh[c] \cap (late \cup Logged)

\* main sleeps with nothing in flight only if a notification came between the
\* count and the creation of the future, if a notification is on its way, or if
\* messages left the count in this round by one of the three ways that do not
\* notify: the connection closed, a slow consumer's subscription was dropped, or
\* a push was rolled back because the slot was full.
SleepExplained ==
  main = "wait" /\ InFlight = {} /\ ~notified => missed \/ silent \/ NotifyPending

\* Once Ctrl+C was handled the daemon stops, whatever is in flight and
\* whatever notifications were missed.
ShutdownEnds == main # "serving" ~> main = "exited"

\* The comment of wait_for_drain: "the wait wakes immediately when the last
\* in-flight clears", and a notification between the count and the sleep "is
\* not lost (Notify holds a permit if a waiter races)".
WakesWhenDrained ==
  main = "wait" /\ InFlight = {} => notified \/ NotifyPending
=============================================================================
