------------------------------- MODULE Session -------------------------------
(***************************************************************************)
(* One connection (net/src/connection.rs, net/src/server.rs): the reader    *)
(* task with its HELLO and AUTH state and the frame handlers it awaits, the *)
(* writer task, and the slot they share with every publisher of the broker: *)
(* a buffer and a Tokio Notify.  On the broker's side a publish is an       *)
(* append to the log (QoS1) and a push into the slot, and SUBSCRIBE with an *)
(* offset replays the log into it while publishes go on.                    *)
(*                                                                         *)
(* A buffer is the DELIVER frames in it, in order, and the number of its    *)
(* responses.  A frame whose payload does not decode or names an invalid    *)
(* topic, QoS, group or id is "plain": it is answered and changes nothing,  *)
(* as is a PING.  The queues behind a push are in SubscriberQueue, the      *)
(* locks of subscribe in Registry, the file behind the log in Wal.  The     *)
(* slow-consumer policy is DropNewest, as the daemon has it; the connection *)
(* subscribes once.                                                         *)
(*                                                                         *)
(* The log is the message records in the order of the file.  An append takes *)
(* its id first and enters the channel later, so a record may follow one    *)
(* with a larger id.                                                        *)
(***************************************************************************)
EXTENDS Naturals, Sequences, FiniteSets, SequencesExt

CONSTANTS
  Messages,         \* the publishes to the subscribed topic
  Others,           \* those another connection may make; this one may make any
  Durable,          \* those with QoS1; the broker has a log
  SlotLimit,        \* slow_consumer_buffer_bytes, in frames
  MaxBatch,         \* MAX_BATCH_BYTES, in frames
  InbandCapacity,   \* INBAND_CHANNEL_CAPACITY
  MaxAuthFailures,  \* MAX_AUTH_FAILURES
  Offsets,          \* from_offset values
  Foreign,          \* a record of another topic; its append has taken the first id
  Replayer, None    \* no messages

SubTopic   == "topic"
OtherTopic == "other"
Topics     == {SubTopic, OtherTopic}
Qos(m) == IF m \in Durable THEN 1 ELSE 0

Pushers == Messages \cup {Replayer}

ASSUME SessionAssumption ==
  /\ Durable \subseteq Messages /\ Others \subseteq Messages
  /\ Foreign \notin Messages /\ Replayer \notin Messages /\ None \notin Messages /\ None \notin Topics /\ None \notin Offsets
  /\ Offsets \subseteq Nat
  /\ {SlotLimit, MaxBatch, InbandCapacity, MaxAuthFailures} \subseteq Nat \ {0}

VARIABLES
  \* ReaderState
  reader,           \* pc, the message whose publish or the replay it awaits
  hello_performed, authenticated, auth_failures,
  topic_cache,      \* PublishTopicCache: name and resolved handle
  \* between the tasks
  inband,           \* how many responses are in the mpsc channel
  shared, permit,   \* PushSlot: buf and notify
  \* the writer task
  writer, local,
  wire,             \* the deliveries the peer was sent
  \* the broker
  topics,           \* topics with a record
  subscribed,       \* the connection's subscription is in the broker's maps
  log,              \* the message records of the log, in the order of the file
  ids, next_id,     \* record -> its WAL id, 0 for none; Wal::next_id
  pub,              \* message -> publish_inner or publish_durable: pc, resolved handle
  push,             \* pusher -> the push it is at: pc, message, tag
  next_tag,         \* Subscriber::push_next_tag
  inflight,         \* tags in flight in the subscriber's queue
  shutdown,         \* begin_shutdown and the signal that follows it at once
  broken,           \* the stream has failed
  closed,           \* handle_connection_close has run
  \* history
  offset,           \* the offset asked for, once SUBSCRIBE is answered
  outstanding,      \* responses that entered the channel and were not written
  sent,             \* the deliveries encoded, in order
  dropped,          \* messages dropped because the slot was full
  owed,             \* messages whose publish began under the subscription and that
                    \* were neither delivered nor dropped since
  settled           \* tags acked or expired

gate    == <<hello_performed, authenticated, auth_failures>>
slot    == <<shared, permit>>
wside   == <<writer, local, wire, broken>>
wal     == <<log, ids, next_id>>
broker  == <<topics, subscribed, wal, pub, push, next_tag, inflight>>
ends    == <<shutdown, closed>>
history == <<offset, outstanding, sent, dropped, owed, settled>>
vars == <<reader, gate, topic_cache, inband, slot, wside, broker, ends, history>>

\* A buffer and its size, in frames.
Empty == [d |-> <<>>, r |-> 0]
Size(b) == Len(b.d) + b.r

Idle == [pc |-> "idle", msg |-> None, tag |-> 0]

Init ==
  /\ reader = [pc |-> "read", msg |-> None, start |-> 0, records |-> <<>>, fatal |-> FALSE]
  /\ hello_performed = FALSE /\ authenticated = FALSE /\ auth_failures = 0
  /\ topic_cache = [name |-> None, resolved |-> None]
  /\ inband = 0 /\ shared = Empty /\ permit = FALSE
  /\ writer = "collect" /\ local = Empty /\ wire = <<>> /\ broken = FALSE
  /\ topics = {OtherTopic} /\ subscribed = FALSE
  /\ log = <<>> /\ next_id = 2
  /\ ids = [x \in Messages \cup {Foreign} |-> IF x = Foreign THEN 1 ELSE 0]
  /\ pub = [m \in Messages |-> [pc |-> "idle", resolved |-> None]]
  /\ push = [p \in Pushers |-> Idle]
  /\ next_tag = 1 /\ inflight = {}
  /\ shutdown = FALSE /\ closed = FALSE
  /\ offset = None /\ outstanding = 0 /\ sent = <<>> /\ dropped = {} /\ owed = {}
  /\ settled = {}

Delivery(m, tag) == [msg |-> m, tag |-> tag]

-----------------------------------------------------------------------------
(* Publishing: publish_durable, publish_inner and the push branch of its   *)
(* loop.  The reader awaits a publish of its own connection.               *)

\* The handler's choice of path.  QoS1 goes through publish_durable: refused
\* at shutdown, or given an id and handed to the log.
BeginPublish(m, resolved) ==
  /\ pub[m].pc = "idle"
  /\ pub' = [pub EXCEPT ![m] = [pc |-> IF m \notin Durable THEN "fanout"
                                      ELSE IF shutdown THEN "failed" ELSE "append",
                               resolved |-> resolved]]
  /\ IF m \in Durable /\ ~shutdown
     THEN ids' = [ids EXCEPT ![m] = next_id] /\ next_id' = next_id + 1
     ELSE UNCHANGED <<ids, next_id>>
  /\ owed' = IF subscribed THEN owed \cup {m} ELSE owed

\* From another connection.
publish(m) ==
  /\ BeginPublish(m, None)
  /\ UNCHANGED <<reader, gate, topic_cache, inband, slot, wside, topics,
                 subscribed, log, push, next_tag, inflight, ends, offset, outstanding, sent,
                 dropped, settled>>

\* The rest of append_durable: the log has no room or has stopped, or the
\* record is written; its fsync may fail.
append_durable(m) ==
  /\ pub[m].pc = "append"
  /\ \/ /\ pub' = [pub EXCEPT ![m].pc = "failed"]
        /\ UNCHANGED log
     \/ /\ \E pc \in {"fanout", "failed"} : pub' = [pub EXCEPT ![m].pc = pc]
        /\ log' = Append(log, m)
  /\ UNCHANGED <<reader, gate, topic_cache, inband, slot, wside, topics, subscribed,
                 ids, next_id, push, next_tag, inflight, ends, history>>

\* The same for a publish to another topic.
append_foreign ==
  /\ ~ Contains(log, Foreign)
  /\ log' = Append(log, Foreign)
  /\ UNCHANGED <<reader, gate, topic_cache, inband, slot, wside, topics, subscribed,
                 ids, next_id, pub, push, next_tag, inflight, ends, history>>

\* The topic record the fan-out walks: the cached handle, or a lookup.
Found(m) == IF pub[m].resolved # None THEN pub[m].resolved ELSE SubTopic

\* Slip: the message is registered only after it was encoded.
StartPushLate(p, m) ==
  /\ push' = [push EXCEPT ![p] = [pc |-> "encode", msg |-> m, tag |-> IF Qos(m) = 1 THEN next_tag ELSE 0]]
  /\ next_tag' = next_tag + 1
  /\ UNCHANGED inflight

\* The tag is taken and, for QoS1, registered before the frame is encoded.
StartPush(p, m) ==
  /\ push' = [push EXCEPT ![p] = [pc |-> "encode", msg |-> m, tag |-> IF Qos(m) = 1 THEN next_tag ELSE 0]]
  /\ next_tag' = next_tag + 1
  /\ inflight' = IF Qos(m) = 1 THEN inflight \cup {next_tag} ELSE inflight

Done(m) == pub' = [pub EXCEPT ![m] = [pc |-> "done", resolved |-> None]]

\* publish_inner up to the push.
publish_inner(m) ==
  /\ pub[m].pc = "fanout"
  /\ IF ~shutdown /\ subscribed /\ Found(m) = SubTopic /\ SubTopic \in topics
     THEN /\ StartPush(m, m)
          /\ pub' = [pub EXCEPT ![m].pc = "pushing"]
     ELSE /\ Done(m)
          /\ UNCHANGED <<push, next_tag, inflight>>
  /\ UNCHANGED <<reader, gate, topic_cache, inband, slot, wside, topics,
                 subscribed, wal, ends, history>>

Pushed(p) == IF p \in Messages THEN Done(p) ELSE UNCHANGED pub

\* Under the slot's lock: over the limit the delivery is dropped and its tag
\* cancelled, else the frame is encoded.
encode(p) ==
  /\ push[p].pc = "encode"
  /\ owed' = owed \ {push[p].msg}
  /\ IF Size(shared) >= SlotLimit
     THEN /\ push' = [push EXCEPT ![p] = Idle]
          /\ Pushed(p)
          /\ inflight' = inflight \ {push[p].tag}
          /\ dropped' = dropped \cup {push[p].msg}
          /\ UNCHANGED <<shared, sent>>
     ELSE /\ shared' = [shared EXCEPT !.d = Append(@, Delivery(push[p].msg, push[p].tag))]
          /\ sent' = Append(sent, Delivery(push[p].msg, push[p].tag))
          /\ push' = [push EXCEPT ![p].pc = "notify"]
          /\ UNCHANGED <<pub, inflight, dropped>>
  /\ UNCHANGED <<reader, gate, topic_cache, inband, permit, wside, topics,
                 subscribed, wal, next_tag, ends, offset, outstanding, settled>>

\* Slip: notify_waiters, which leaves no permit to a writer that has found the
\* slot empty and is not waiting yet.
notify_waiting(p) ==
  /\ push[p].pc = "notify"
  /\ permit' \in {permit, permit \/ writer = "wait"}
  /\ push' = [push EXCEPT ![p] = Idle]
  /\ Pushed(p)
  /\ UNCHANGED <<reader, gate, topic_cache, inband, shared, wside, topics,
                 subscribed, wal, next_tag, inflight, ends, history>>

\* slot.notify.notify_one(): wakes the writer or leaves one permit.
notify_one(p) ==
  /\ push[p].pc = "notify"
  /\ permit' = TRUE
  /\ push' = [push EXCEPT ![p] = Idle]
  /\ Pushed(p)
  /\ UNCHANGED <<reader, gate, topic_cache, inband, shared, wside, topics,
                 subscribed, wal, next_tag, inflight, ends, history>>

-----------------------------------------------------------------------------
(* The reader task.                                                        *)

\* process_frame is given the next frame.
NextFrame == reader.pc = "read"

\* send_inband comes next, and after it the next frame or the end.
Answer(fatal) == reader' = [reader EXCEPT !.pc = "send", !.fatal = fatal]

\* A frame that is answered and changes nothing: one that does not decode or
\* is invalid, PING, an ACK that is not known, or any but HELLO and AUTH before
\* authentication.
plain_frame ==
  /\ NextFrame
  /\ Answer(FALSE)
  /\ UNCHANGED <<gate, topic_cache, inband, slot, wside, broker, ends, history>>

\* PONG, NACK, DELIVER, or a POLL, for which a push subscriber's queue holds nothing.
ignored_frame ==
  /\ NextFrame
  /\ authenticated
  /\ UNCHANGED <<reader, gate, topic_cache, inband, slot, wside, broker, ends, history>>

\* A HELLO with the right version; any other, and a second one, is answered only.
handle_hello ==
  /\ NextFrame
  /\ ~hello_performed
  /\ hello_performed' = TRUE
  /\ Answer(FALSE)
  /\ UNCHANGED <<authenticated, auth_failures, topic_cache, inband, slot, wside, broker,
                 ends, history>>

\* Slip: the limit on failures is not applied.
auth_unlimited(valid) ==
  /\ NextFrame
  /\ hello_performed /\ ~authenticated
  /\ authenticated' = valid
  /\ auth_failures' = IF valid THEN 0 ELSE auth_failures + 1
  /\ Answer(FALSE)
  /\ UNCHANGED <<hello_performed, topic_cache, inband, slot, wside, broker, ends, history>>

\* An AUTH that decodes, with a key that is known or not.
handle_auth(valid) ==
  /\ NextFrame
  /\ hello_performed /\ ~authenticated
  /\ authenticated' = valid
  /\ auth_failures' = IF valid THEN 0 ELSE auth_failures + 1
  /\ Answer(auth_failures' >= MaxAuthFailures)
  /\ UNCHANGED <<hello_performed, topic_cache, inband, slot, wside, broker, ends, history>>

\* A valid SUBSCRIBE: the live subscription is made first, the replay follows.
handle_subscribe_slot(from) ==
  /\ NextFrame
  /\ authenticated /\ ~subscribed
  /\ topics' = topics \cup {SubTopic}
  /\ subscribed' = TRUE
  /\ IF from = None THEN Answer(FALSE)
     ELSE reader' = [reader EXCEPT !.pc = "iterate", !.msg = from]
  /\ UNCHANGED <<gate, topic_cache, inband, slot, wside, wal, pub, push, next_tag,
                 inflight, ends, history>>

\* Where iterate_from begins to read: the place of the smallest id in the index
\* that is not below from (0 stands for 1), and 0 if there is none.
Start(from) ==
  LET matching == {i \in DOMAIN log : ids[log[i]] >= from}
  IN IF matching = {} THEN 0
     ELSE CHOOSE i \in matching : \A j \in matching : ids[log[i]] <= ids[log[j]]

\* replay_to_subscriber asks for the log from the offset on: iterate_from looks
\* into the index ...
iterate_from ==
  /\ reader.pc = "iterate"
  /\ reader' = [reader EXCEPT !.pc = IF Start(reader.msg) = 0 THEN "replay" ELSE "segments",
                              !.start = Start(reader.msg)]
  /\ UNCHANGED <<gate, topic_cache, inband, slot, wside, broker, ends, history>>

\* ... and reads the files to their end.  When that fails the SUBSCRIBE is
\* answered all the same.
read_segments ==
  /\ reader.pc = "segments"
  /\ \/ reader' = [reader EXCEPT !.pc = "replay",
                                 !.records = SubSeq(log, reader.start, Len(log))]
     \/ reader' = [reader EXCEPT !.pc = "send", !.msg = None, !.start = 0]
  /\ UNCHANGED <<gate, topic_cache, inband, slot, wside, broker, ends, history>>

\* A record of the topic, with an id not below the one the reading began at.
ToPush(m) == m # Foreign /\ ids[m] >= ids[log[reader.start]]

\* Slip: a record of another topic ends the loop.
replay_break ==
  /\ reader.pc = "replay" /\ reader.records # <<>>
  /\ push[Replayer].pc = "idle"
  /\ LET m == Head(reader.records)
     IN IF ToPush(m)
        THEN StartPush(Replayer, m) /\ reader' = [reader EXCEPT !.records = Tail(@)]
        ELSE /\ reader' = [reader EXCEPT !.records = <<>>]
             /\ UNCHANGED <<push, next_tag, inflight>>
  /\ UNCHANGED <<gate, topic_cache, inband, slot, wside, topics, subscribed, wal, pub,
                 ends, history>>

\* The loop over the records: those of other topics or below the first id are
\* skipped.
replay_next ==
  /\ reader.pc = "replay" /\ reader.records # <<>>
  /\ push[Replayer].pc = "idle"
  /\ reader' = [reader EXCEPT !.records = Tail(@)]
  /\ LET m == Head(reader.records)
     IN IF ToPush(m) THEN StartPush(Replayer, m)
        ELSE UNCHANGED <<push, next_tag, inflight>>
  /\ UNCHANGED <<gate, topic_cache, inband, slot, wside, topics, subscribed, wal,
                 pub, ends, history>>

replay_done ==
  /\ reader.pc = "replay" /\ reader.records = <<>>
  /\ push[Replayer].pc = "idle"
  /\ offset' = reader.msg
  /\ reader' = [reader EXCEPT !.pc = "send", !.msg = None, !.start = 0]
  /\ UNCHANGED <<gate, topic_cache, inband, slot, wside, broker, ends,
                 outstanding, sent, dropped, owed, settled>>

\* Broker::resolve_topic
resolve_topic(t) == IF t \in topics THEN t ELSE None

\* Slip: the handle is kept when the name changes.
resolve_sticky(t) ==
  [name |-> t, resolved |-> IF topic_cache.resolved # None THEN topic_cache.resolved
                            ELSE resolve_topic(t)]

\* PublishTopicCache::get_with_resolve
get_with_resolve(t) ==
  [name |-> t, resolved |-> IF topic_cache.name = t /\ topic_cache.resolved # None
                            THEN topic_cache.resolved ELSE resolve_topic(t)]

\* A valid PUBLISH.  QoS0 goes through the cache; QoS1 is durable and does not.
handle_publish(m) ==
  /\ NextFrame
  /\ authenticated
  /\ LET found == get_with_resolve(SubTopic)
     IN IF m \in Durable
        THEN BeginPublish(m, None) /\ UNCHANGED topic_cache
        ELSE BeginPublish(m, found.resolved) /\ topic_cache' = found
  /\ reader' = [reader EXCEPT !.pc = "publishing", !.msg = m]
  /\ UNCHANGED <<gate, inband, slot, wside, topics, subscribed, log, push, next_tag,
                 inflight, ends, offset, outstanding, sent, dropped, settled>>

\* A QoS0 PUBLISH to the other topic, which has subscribers elsewhere.  Bounded
\* to the time when a later publish can meet what it leaves in the cache.
handle_publish_other ==
  /\ NextFrame
  /\ authenticated
  /\ \E m \in Messages \ Durable : pub[m].pc = "idle"
  /\ topic_cache' = get_with_resolve(OtherTopic)
  /\ UNCHANGED <<reader, gate, inband, slot, wside, broker, ends, history>>

\* Success is not answered; a durable publish that failed is.
published ==
  /\ reader.pc = "publishing"
  /\ pub[reader.msg].pc \in {"done", "failed"}
  /\ reader' = [reader EXCEPT !.msg = None,
                  !.pc = IF pub[reader.msg].pc = "done" THEN "read" ELSE "send"]
  /\ UNCHANGED <<gate, topic_cache, inband, slot, wside, broker, ends, history>>

\* An ACK with a known tag; one that is not known is a plain frame.
handle_ack(tag) ==
  /\ NextFrame
  /\ authenticated /\ subscribed /\ tag \in inflight
  /\ inflight' = inflight \ {tag}
  /\ settled' = settled \cup {tag}
  /\ UNCHANGED <<reader, gate, topic_cache, inband, slot, wside, topics, subscribed, wal,
                 pub, push, next_tag, ends, offset, outstanding, sent, dropped, owed>>

\* maintenance_tick: the TTL of an in-flight entry runs out, whether the peer was
\* sent the delivery or not.  An ACK for it is then a plain frame.
maintenance_tick(tag) ==
  /\ subscribed /\ tag \in inflight
  /\ inflight' = inflight \ {tag}
  /\ settled' = settled \cup {tag}
  /\ UNCHANGED <<reader, gate, topic_cache, inband, slot, wside, topics, subscribed, wal,
                 pub, push, next_tag, ends, offset, outstanding, sent, dropped, owed>>

\* send_inband: waits for room, fails when the writer is gone.
send_inband ==
  /\ reader.pc = "send"
  /\ \/ /\ writer # "ended" /\ inband < InbandCapacity
        /\ inband' = inband + 1
        /\ outstanding' = outstanding + 1
        /\ reader' = [reader EXCEPT !.pc = IF reader.fatal THEN "ended" ELSE "read",
                                    !.fatal = FALSE]
     \/ /\ writer = "ended"
        /\ reader' = [reader EXCEPT !.pc = "ended", !.fatal = FALSE]
        /\ UNCHANGED <<inband, outstanding>>
  /\ UNCHANGED <<gate, topic_cache, slot, wside, broker, ends, offset, sent,
                 dropped, owed, settled>>

\* The peer hangs up, or sends what try_decode_frame refuses ...
hang_up ==
  /\ reader.pc = "read"
  /\ reader' = [reader EXCEPT !.pc = "ended"]
  /\ UNCHANGED <<gate, topic_cache, inband, slot, wside, broker, ends, history>>

\* ... or the reader sees the signal, or that the stream has failed.
reader_stops ==
  /\ shutdown \/ broken
  /\ hang_up

-----------------------------------------------------------------------------
(* The writer task.                                                        *)

\* Slip: the slot's bytes replace the local buffer instead of trading places.
Taken == IF shared # Empty THEN <<Empty, shared>> ELSE <<shared, local>>

\* mem::swap, if the slot has bytes: <<shared, local>> after it.
Swapped == IF shared # Empty THEN <<local, shared>> ELSE <<shared, local>>

\* Step 2 stops when the batch is large enough or the channel is empty.
Drained(size) == LET room == IF size < MaxBatch THEN MaxBatch - size ELSE 0
                 IN IF inband < room THEN inband ELSE room

\* Steps 1 and 2: trade buffers if the slot has bytes, then add the responses
\* that are waiting.  Nothing another task does in between can be told from
\* the same done before or after.  "wait" is the time from here to the select
\* and in it.
collect ==
  /\ writer = "collect"
  /\ shared' = Swapped[1]
  /\ LET n == Drained(Size(Swapped[2]))
     IN /\ local' = [Swapped[2] EXCEPT !.r = @ + n]
        /\ inband' = inband - n
  /\ writer' = IF local' # Empty THEN "flush" ELSE "wait"
  /\ UNCHANGED <<reader, gate, topic_cache, permit, wire, broken, broker, ends,
                 history>>

\* Slip: write for write_all, which may take only a part.
flush_short ==
  /\ writer = "flush"
  /\ \E k \in 0 .. Len(local.d) : wire' = wire \o SubSeq(local.d, 1, k)
  /\ outstanding' = outstanding - local.r
  /\ local' = Empty
  /\ writer' = "collect"
  /\ UNCHANGED <<reader, gate, topic_cache, inband, slot, broken, broker, ends, offset,
                 sent, dropped, owed, settled>>

\* Step 3: write_all.
flush ==
  /\ writer = "flush"
  /\ wire' = wire \o local.d
  /\ outstanding' = outstanding - local.r
  /\ local' = Empty
  /\ writer' = "collect"
  /\ UNCHANGED <<reader, gate, topic_cache, inband, slot, broken, broker, ends,
                 offset, sent, dropped, owed, settled>>

\* A write that fails may have sent a part.
write_fails ==
  /\ writer \in {"flush", "last"}
  /\ \E k \in 0 .. Len(local.d) : wire' = wire \o SubSeq(local.d, 1, k)
  /\ local' = Empty
  /\ broken' = TRUE
  /\ writer' = "ended"
  /\ UNCHANGED <<reader, gate, topic_cache, inband, slot, broker, ends, history>>

\* Step 4, a biased select: the signal, the permit, a response ...
wait_ready ==
  /\ writer = "wait"
  /\ IF shutdown
     THEN writer' = "ended" /\ UNCHANGED <<permit, inband, local>>
     ELSE /\ writer' = "collect"
          /\ IF permit
             THEN permit' = FALSE /\ UNCHANGED <<inband, local>>
             ELSE /\ inband > 0
                  /\ local' = [Empty EXCEPT !.r = 1]
                  /\ inband' = inband - 1
                  /\ UNCHANGED permit
  /\ UNCHANGED <<reader, gate, topic_cache, shared, wire, broken, broker, ends,
                 history>>

\* Slip: a closed channel is taken for an empty one.
wait_on ==
  /\ writer = "wait" /\ inband > 0
  /\ UNCHANGED vars

\* ... or the end of the channel, once the reader has dropped its end: a last
\* look at the slot.
wait_closed ==
  /\ writer = "wait"
  /\ reader.pc = "ended" /\ inband = 0 /\ ~permit /\ ~shutdown
  /\ shared' = Swapped[1] /\ local' = Swapped[2]
  /\ writer' = "last"
  /\ UNCHANGED <<reader, gate, topic_cache, inband, permit, wire, broken, broker,
                 ends, history>>

last_write ==
  /\ writer = "last"
  /\ wire' = wire \o local.d
  /\ outstanding' = outstanding - local.r
  /\ local' = Empty
  /\ writer' = "ended"
  /\ UNCHANGED <<reader, gate, topic_cache, inband, slot, broken, broker, ends,
                 offset, sent, dropped, owed, settled>>

-----------------------------------------------------------------------------

\* Connection::run awaits both tasks; then unsubscribe_connection.
close ==
  /\ reader.pc = "ended" /\ writer = "ended" /\ ~closed
  /\ closed' = TRUE
  /\ subscribed' = FALSE
  /\ UNCHANGED <<reader, gate, topic_cache, inband, slot, wside, topics, wal, pub,
                 push, next_tag, inflight, shutdown, history>>

\* main: publishes are refused and the tasks are signalled.  Drain has
\* the two apart.
begin_shutdown ==
  /\ ~shutdown
  /\ shutdown' = TRUE
  /\ UNCHANGED <<reader, gate, topic_cache, inband, slot, wside, broker, closed,
                 history>>

ClientTags == {wire[i].tag : i \in DOMAIN wire} \ {0}

Frame ==
  \/ plain_frame \/ ignored_frame \/ handle_hello
  \/ \E valid \in BOOLEAN : handle_auth(valid)
  \/ \E from \in Offsets \cup {None} : handle_subscribe_slot(from)
  \/ handle_publish_other
  \/ \E m \in Messages : handle_publish(m)
  \/ \E tag \in ClientTags : handle_ack(tag)

Reader ==
  \/ iterate_from \/ read_segments \/ replay_next \/ replay_done
  \/ published \/ send_inband \/ reader_stops
Writer == collect \/ flush \/ write_fails \/ wait_ready \/ wait_closed \/ last_write

Pusher(p) == encode(p) \/ notify_one(p)
Publisher(m) == append_durable(m) \/ publish_inner(m) \/ Pusher(m)

Next ==
  \/ Frame \/ Reader \/ Pusher(Replayer) \/ hang_up \/ Writer \/ close
  \/ \E m \in Others : publish(m)
  \/ \E m \in Messages : Publisher(m)
  \/ append_foreign
  \/ \E tag \in inflight : maintenance_tick(tag)
  \/ begin_shutdown

\* Tokio runs every task that can go on, and the log answers every append (Wal);
\* a write to a peer that does not read is taken to fail in the end.
Fairness ==
  /\ WF_vars(Reader \/ Pusher(Replayer)) /\ SF_vars(reader_stops)
  /\ WF_vars(Writer) /\ WF_vars(close)
  /\ \A m \in Messages : WF_vars(Publisher(m))

Spec == Init /\ [][Next]_vars /\ Fairness

-----------------------------------------------------------------------------
(* Properties.                                                             *)

Deliveries == [msg : Messages, tag : Nat]
Buffers == [d : Seq(Deliveries), r : Nat]

ReaderType ==
  /\ reader \in [pc : {"read", "iterate", "segments", "replay", "publishing", "send", "ended"},
                 msg : Messages \cup Offsets \cup {None}, start : Nat,
                 records : Seq(Messages \cup {Foreign}), fatal : BOOLEAN]
  /\ hello_performed \in BOOLEAN /\ authenticated \in BOOLEAN
  /\ auth_failures \in 0 .. MaxAuthFailures
  /\ topic_cache \in [name : Topics \cup {None}, resolved : Topics \cup {None}]

WriterType ==
  /\ shared \in Buffers /\ local \in Buffers /\ wire \in Seq(Deliveries)
  /\ permit \in BOOLEAN /\ broken \in BOOLEAN
  /\ writer \in {"collect", "flush", "wait", "last", "ended"}
  /\ inband \in 0 .. InbandCapacity /\ outstanding \in Nat /\ sent \in Seq(Deliveries)

Publishes == [pc : {"idle", "append", "fanout", "pushing", "done", "failed"},
              resolved : Topics \cup {None}]
Pushes    == [pc : {"idle", "encode", "notify"}, msg : Messages \cup {None}, tag : Nat]

BrokerType ==
  /\ topics \subseteq Topics
  /\ subscribed \in BOOLEAN /\ shutdown \in BOOLEAN /\ closed \in BOOLEAN
  /\ log \in Seq(Messages \cup {Foreign})
  /\ ids \in [Messages \cup {Foreign} -> Nat] /\ next_id \in Nat
  /\ pub \in [Messages -> Publishes] /\ push \in [Pushers -> Pushes]
  /\ next_tag \in Nat \ {0} /\ inflight \subseteq Nat
  /\ settled \subseteq Nat
  /\ offset \in Offsets \cup {None}
  /\ dropped \subseteq Messages /\ owed \subseteq Messages

TypeOK == ReaderType /\ WriterType /\ BrokerType

\* The deliveries at the peer or on their way, in the order they will be written.
Flow == wire \o local.d \o shared.d

\* Every delivery the broker encoded is written once and in that order, however
\* the two buffers change places; a connection that ends has written a prefix.
InOrderOnce ==
  IF writer # "ended" THEN Flow = sent ELSE IsPrefix(wire, sent)

\* Every response is in one place until it is written: none is lost or sent
\* twice, even one that a swap has put into the slot's buffer.
AnsweredOnce ==
  writer # "ended" => local.r + shared.r + inband = outstanding

\* The writer never waits while the slot has bytes, unless it is about to be
\* woken: by a permit, by a publisher that has yet to notify, by a response or
\* by the signal.
NoSleepOnBytes ==
  writer = "wait" /\ shared # Empty =>
    permit \/ shutdown \/ inband > 0 \/ \E p \in Pushers : push[p].pc = "notify"

InSent(m) == \E i \in DOMAIN sent : sent[i].msg = m

\* iterate_from begins to read behind the i-th record: one with an id that was
\* asked for and is no larger follows it in the file.
PassedBy(i) ==
  \E j \in DOMAIN log : j > i /\ offset <= ids[log[j]] /\ ids[log[j]] <= ids[log[i]]

\* Once a SUBSCRIBE with an offset is answered, every logged message of the
\* topic from that offset on was delivered, by the replay or live, or is being
\* published, or found the slot full, or its publisher was told of a failure.
\* A record that two appends in flight together have put before a smaller id is
\* the one that may be missing.  A publish that ran into the shutdown is left to
\* the next replay.
ReplayGapless ==
  offset # None =>
    \A i \in DOMAIN log :
      ids[log[i]] >= offset /\ log[i] # Foreign /\ ~PassedBy(i) =>
        \/ InSent(log[i]) \/ log[i] \in dropped
        \/ pub[log[i]].pc \in {"fanout", "pushing", "failed"}
        \/ shutdown \/ closed

\* A message is delivered once for its publish and once more only by a replay
\* that was asked for; and one whose publish began under the subscription is
\* delivered or finds the slot full, whatever topic the publisher's cache held
\* before.
DeliveredAsDue ==
  /\ \A m \in Messages :
       Cardinality({i \in DOMAIN sent : sent[i].msg = m}) <=
         (IF offset # None \/ reader.pc = "replay" THEN 2 ELSE 1)
  /\ \A m \in owed : pub[m].pc = "done" => shutdown \/ closed

\* The client can ack every QoS1 delivery it may see until its TTL runs out: the
\* tag is in flight from before the frame is in the slot until it is acked or
\* has expired, whatever happens to the publisher, the replay and the slot.
AckableDelivery ==
  \A i \in DOMAIN Flow : Flow[i].tag # 0 => Flow[i].tag \in inflight \cup settled

\* Nothing reaches the broker before HELLO and a valid key, and a connection
\* that failed too often reads no further frame.
Gate ==
  /\ subscribed \/ settled # {} \/ reader.pc = "publishing" \/ topic_cache.name # None
       => authenticated /\ hello_performed
  /\ auth_failures >= MaxAuthFailures => reader.pc \in {"send", "ended"}

\* When either task has ended, or shutdown was signalled, both end and the
\* subscription is removed.
WindDown == reader.pc = "ended" \/ writer = "ended" \/ shutdown ~> closed /\ ~subscribed
=============================================================================
