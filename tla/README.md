# A TLA+ model of BlipMQ

BlipMQ is a publish/subscribe broker in Rust. Publishers send messages to
topics; subscribers receive them by polling (v1) or by push (v2), at most once
(QoS0) or at least once (QoS1, with acks, retries and TTL). Durable publishes
go through a segmented write-ahead log, from which a restarted broker replays.

This directory holds TLA+ modules for the parts of the broker where order,
time and failure decide whether it is correct, the TLC runs that check them on
small instances, and TLAPS proofs for every size. `PROJECT.json` maps every
definition to the source lines it models and lists runs, hazards, findings and
theorems.

    tlc -config QueuePoll.cfg SubscriberQueue    (one run)
    tlapm SubscriberQueueProofs.tla              (the proofs of one module)

## 1. Inventory

Paths are relative to `src/`.

| Component | State | Operations | Hard because |
|---|---|---|---|
| Subscriber queue, `core/src/lib.rs` 725-775, 1068-1330 | a deque of tags, two maps (waiting, in flight), an expiration heap and a retry heap, one mutex | `enqueue`, `register_push_inflight`, `cancel_push_inflight`, `dequeue`, `ack`, `maintenance_tick` | five structures must agree; heap and deque entries outlive what they point at; publishers, the client and the maintenance task take the lock in any order |
| Write-ahead log, `wal/src/lib.rs` | segment files, in-memory index, id counter, bounded channel, writer task | `append`, `append_durable`, `flush`, the writer loop, `compact_below`, `iterate_from`, `open_with_config` | callers, writer and compactor run concurrently and share index and directory; I/O fails; crashes tear the end |
| Recovery, `core/src/lib.rs` 788-1066, 2267-2700 and `blipmqd/src/main.rs` 184-300 | ack cursors, ack records in the log, the checkpoint file | `publish_durable`, `ack`, `write_checkpoint_to`, `load_checkpoint_from`, `replay_from_wal_with_checkpoint`, `replay_to_subscriber`, the checkpoint task | memory, log and checkpoint tell three versions of the same fact, and a crash picks among them |
| Registry and fan-out, `core/src/lib.rs` 1437-2265 | topics, subscription shards, `connection_subs`, wildcard subscriptions, consumer groups, each under its own lock | `subscribe*`, `unsubscribe*`, `unsubscribe_connection`, `publish` | an update touches three or four locks one after the other |
| Subject patterns, `core/src/lib.rs` 165-276 | none | `SubjectPattern::parse`, `matches`, `is_exact` | pure; wildcard corner cases |
| Session, `net/src/connection.rs`, `net/src/server.rs` | HELLO/AUTH state, topic cache, the slot shared with publishers, the response channel, reader and writer tasks | frame handlers, the writer loop, connection close | two tasks per connection and every publisher share the slot; replay runs beside live fan-out |
| Shutdown, `core/src/lib.rs` 2714-2815, `blipmqd/src/main.rs` 240-364 | shutdown flag, watch channel, drain notification | `begin_shutdown`, `wait_for_drain`, `flush_wal` | a count that is no snapshot; a notification may fall between the count and the wait |
| Frame codec, `net/src/frame.rs` | the read buffer | `try_decode_frame`, `encode_*`, `decode_*`, `encode_deliver_frame` | optional fields behind flag bits, lengths at their limits, a stream cut anywhere |
| Auth, TLS, configuration, metrics, chaos helpers, benchmarks | none, or counters | | sequential, or not part of the broker |

How they interact. A publisher's task runs `publish_inner`: it takes a snapshot
of the topic's subscribers and, for each, either calls `enqueue` on the queue
(poll) or takes a tag, registers the message in flight and encodes the frame
into the connection's buffer (push). `publish_durable` first awaits
`append_durable`, so the writer task's fsync sits between a publish and its
fan-out. A client's `ack` removes the entry from the queue, raises the client's
cursor and spawns a task that appends an ack record, which may be refused. The
writer task trades buffers with the slot, adds the responses that wait in the
channel and writes; SUBSCRIBE with an offset makes the subscription first and
then pushes the log's records into the same slot. The
daemon calls `maintenance_tick` every 200 ms. Every ten seconds it writes a
checkpoint of the cursors and asks the log to delete the segments below the
smallest cursor. On start it opens the log, loads the checkpoint and replays. On Ctrl+C it
refuses new publishes, signals every task, waits for what is in flight, flushes
the log and exits.

What makes each part correct, and what no unit test reaches, is listed line by
line under "hazards" in `PROJECT.json`: interleavings of publisher, client and
maintenance; stale heap records; ids taken in one order and written in
another; a roll during a compaction; crashes between write and fsync; ack
records that never reach the log; checkpoints that are older than the log.

## 2. Modules

| Module | Models | Extends or instantiates |
|---|---|---|
| `Maps` | insertion into and removal from a hash map | |
| `DeliveryContract` | what a queue promises, without its data structures | |
| `SubscriberQueue` | one queue and the push branch of `publish_inner` | `Maps`, `DeliveryContract` by refinement |
| `SubscriberQueueProofs` | theorems about `SubscriberQueue`, the refinement of the contract among them | `SubscriberQueue` |
| `SequenceFacts` | lemmas about sequences that several proofs cite | |
| `DurableLog` | what the log promises, without channel, batches, segments and index | |
| `Wal` | the log: callers, writer, compactor, crash, open | `Maps`, `DurableLog` by refinement |
| `WalProofs` | theorems about `Wal`, the refinement of `DurableLog` among them | `Wal`, `SequenceFacts` |
| `Recovery` | durable publish, acks, checkpoints, compaction, replay | `Maps` |
| `MCRecovery` | symmetry for the `Recovery` run | `Recovery` |
| `RecoveryProofs` | theorems about `Recovery` | `Recovery` |
| `Registry` | who is subscribed to what, and what a publish finds | `Maps` |
| `SubjectPattern` | parsing and matching of subject patterns, and what they mean | |
| `MCRegistry` | the subscriptions of the `Registry` run | `Registry`, `SubjectPattern` |
| `RegistryProofs` | theorems about `Registry` | `Registry`, `SequenceFacts` |
| `Session` | one connection: reader, writer, the slot, and the publishes that reach it | |
| `SessionProofs` | theorems about `Session` | `Session`, `SequenceFacts` |
| `Drain` | shutdown, from Ctrl+C to exit | |
| `DrainProofs` | theorems about `Drain` | `Drain` |
| `FrameCodec` | the wire format and the decode loop | |
| `MCFrameCodec` | the byte streams of the `FrameCodec` run | `FrameCodec` |
| `FrameCodecProofs` | theorems about `FrameCodec` | `FrameCodec`, `SequenceFacts` |

Definitions keep the names of the functions and fields they model. A definition
whose comment begins with "Slip:" is no part of the model: it is a plausible
mistake in the operator that follows it, and is put in its place to see that the
properties notice (`PROJECT.json`, "mutants").

### SubscriberQueue

Every method of `SubscriberQueue` holds the mutex for its whole body, so each
is one action. `next_tag`, `pending`, `pending_entries`, `inflight`,
`expiration_heap` and `retry_heap` are the fields of `SubscriberQueueInner`.
Heaps are sets of <<instant, tag>>: a tick pops exactly what is due. `pushing`
holds the publishers between the three critical sections of a push; `now` is
the clock; `fate` is a history variable that says how each message left.
`maintenance_tick(t)` takes any instant t up to `now`, because the task reads
the clock before it takes the lock; a push's creation time is read likewise.

| Action | Code |
|---|---|
| `enqueue` | `SubscriberQueue::enqueue`, eviction loop included |
| `push_take_tag`, `register_push_inflight`, `push_encode`, `cancel_push_inflight` | the push branch of `publish_inner` and the two methods it calls |
| `dequeue`, `dequeue_none` | `SubscriberQueue::dequeue`, with and without a live entry |
| `ack`, `maintenance_tick` | the methods of that name |
| `Tick` | time |

Payload and WAL id travel with an entry unread, and a message is its tag. The
broker always passes a TTL. Tag and attempt counters are far from their width.
The legacy channel branch of a push takes the same steps with a `try_send` in
place of the encoding.

### Wal

One action for each stretch of code that no other task can see into:
`build_request` (take an id) and `send_request` (enter the channel) are apart,
as are the steps of `roll_segment`, `write_batch` and `compact_below`. A segment
is its header, its records in file order, how many of them are synced, and
whether bytes of a torn record lie behind them: "torn", or "stale" once a write
covered only part of them. A write or fsync may fail (`IoMayFail`); the writer
then ends as `run` does, and everyone who waits for it gets an error. A crash
keeps what is synced, any prefix of the rest and perhaps a torn piece; it may
come at any step. `open_with_config` rebuilds index, `next_id` and the writer's
place; `open_fails` is its error return.

`DurableLog` is the same log as its callers know it: each record is new, queued,
written, synced, deleted or dropped, and each caller was told nothing, Ok or an
error. `Life` and `Answer` read both off the state of `Wal`. A record deleted by a
compaction is "deleted" for good, also when the writer wrote it to a file that
was already gone; that race of the code is in the contract because it is real
(section 6).

Left out: record bytes, lengths and CRC (reduced to the state of the tail),
metrics, and ids near 2^64. Directory entries are taken as durable although the
code does not sync the directory. An fsync that failed is never taken to have
worked: at the end of a batch or in a roll it stops the writer; on a flush request
its caller is told and the writer goes on.

### Recovery

One topic. The log is the set of its records, each with its id, its place in the
file (`pos`) and its segment; `synced` is how far the file is on disk. As in the
code a record takes its id before it enters the channel (`publish_durable`,
`journal_ack`) and its place when the writer takes it (`append_durable`,
`append_ack`), so a smaller id can follow a larger one, and `iterate_from` begins
where the smallest id it was asked for lies. A queue is the set of messages it
holds, which `drop` may shrink at any time (TTL, retries, capacity). `sync` and
`publish_with_wal_id` are the other side of the await. `ack` raises the cursor and
spawns the append of its record, which may be given up.

The checkpoint task captures a snapshot, renames the file (or fails) and compacts
with the snapshot of that later moment. `compact_below` reads the active segment
and the index, `compact_list` the directory, `compact_remove` removes one file,
`compact_fails` ends the round with an error; the writer may roll and write between
any two of them. A crash cuts the log anywhere behind the synced part and leaves
the checkpoint file new, old or unreadable, since neither the file nor its rename
is synced. A client may subscribe before replay, as the recovery tests do, or
after it, as the daemon's clients do.

History: `raced` are the messages in a segment that the compaction took for a
straggler although the writer had just opened it (section 6); `settled` are the
acked messages whose ack record reached the disk, without those that `Forgotten`
names: their ack record was compacted before the record of the message, together
with such a segment or because ids are out of order.

Left out: consumer groups and their shared cursor, several topics
(`replay_to_subscriber` is in `Session`), and the dead letters that a tick publishes
of what it dropped. A batch of the writer is one record, and `compact_below` reads
the active number and the index in one step; `Wal` has both apart. Bounds: `MaxIds`
ids, and after the last crash only the restart is looked at (`Running`).

### Registry

`topics`, `subscribers`, `consumer_groups`, `next_idx`, `subscriptions`,
`connection_subs` and `wildcard_subs` are the maps and lists of `Broker`,
`Topic` and `ConsumerGroup`. Each has its own lock, and an action is what one
call does under one of them; `call`, `closing` and `pub` say how far each
`subscribe`, `unsubscribe_connection` and `publish_inner` is and hold its local
variables; `pub[p].dropping` is the subscription that `unsubscribe_one` has taken
out of its shard. A list whose order nothing depends on (the subscriptions of a
connection, the removed ones, the slow ones) is a set, walked in any order.
`leaving` is a history variable.

| Action | Code |
|---|---|
| `subscribe_topic`, `_group`, `_insert`, `_shard`, `_track` | `subscribe_inner_grouped`, lock by lock |
| `subscribe_pattern` | the entry in the list of patterns, after all of these |
| `close_take`, `close_shard`, `close_topic`, `close_patterns` | `unsubscribe_connection` |
| `publish_resolve`, `_subscribers`, `_groups`, `_pick`, `_wildcards`, `_deliver` | `publish_inner`: lookup, the parts of the snapshot, the fan-out loop |
| `drop_shard`, `drop_topic`, `drop_conn`, `drop_pattern` | `unsubscribe_one` for each consumer found slow; the lock of `connection_subs` is held through the last two |

A reader task makes its subscribe calls one at a time and the connection is
closed after its tasks have ended, as `connection.rs` has it. Any push consumer
may be found slow. Three simplifications: the scan of the patterns, which looks
up one shard after the other, is one step; so is the fan-out loop, whose effect
on the queues is in `SubscriberQueue`; and `wildcard_subs_len` is left out, as it
is stored under the lock of the list, and a publisher that loads an older value
does what an earlier one would have done. Subjects are literal: none is the text
of a pattern (`RegistryAssumption`).

### SubjectPattern

Subjects and patterns are sequences of tokens. `parse`, `is_exact`, `matches`
and `exact_subject_from_pattern` follow the code. The assumption
`MatchesReference` says, for every source and every subject of up to `MaxTokens`
tokens, that matching by segments is what the documentation says a pattern
means; TLC evaluates it before the `registry` run, whose wildcard matches come
from `matches`. Subjects with empty tokens are outside the comparison: the code
takes them to be rejected elsewhere, and nothing rejects them.

### Session

| State | Code |
|---|---|
| `reader`, `hello_performed`, `authenticated`, `auth_failures` | `ReaderState`, with what it awaits |
| `topic_cache` | `PublishTopicCache` |
| `inband` | the bounded response channel |
| `shared`, `permit` | `PushSlot`: the buffer and its `Notify` |
| `writer`, `local`, `wire` | the writer task and its buffer; what the peer was sent |
| `topics`, `subscribed`, `pub`, `push`, `next_tag`, `inflight` | the broker, as far as this connection sees it |
| `log`, `ids`, `next_id` | the records in the order of the file, their ids, and the next one to give |

| Action | Code |
|---|---|
| `plain_frame`, `ignored_frame`, `handle_hello`, `handle_auth`, `handle_subscribe_slot`, `handle_publish`, `handle_publish_other`, `handle_ack` | `process_frame` and the handlers of `server.rs` |
| `iterate_from`, `read_segments`, `replay_next`, `replay_done` | `replay_to_subscriber`, awaited by SUBSCRIBE: the index, the files, the loop |
| `publish`, `append_durable`, `publish_inner`, `encode`, `notify_one` | a publish from another connection or this one: id, log, tag and registration, encoding under the slot's lock, notification |
| `append_foreign`, `maintenance_tick` | a publish to another topic reaches the log; the TTL of an in-flight tag runs out |
| `send_inband`, `published`, `hang_up`, `reader_stops` | the rest of the reader |
| `collect`, `flush`, `wait_ready`, `wait_closed`, `last_write`, `write_fails` | the writer loop, step by step |
| `close`, `begin_shutdown` | `Connection::run` and `handle_connection_close`; the daemon |

The writer *trades* its buffer with the slot's, and the buffer it hands back
may hold a response: this is why a buffer counts responses as well as
deliveries, and why `AnsweredOnce` speaks of the slot. Sizes are in frames. The
connection makes one subscription, without a group; the slow-consumer policy is
the daemon's `DropNewest`. Not modelled: the channel-based push and the
poll-only SUBSCRIBE, which the daemon does not use.

A durable publish takes its id in `BeginPublish` and its place in the file in
`append_durable`, and the record of another topic, which has the first id, may be
written at any time. So the log need not be in id order, and a replay does not read
what lies before the smallest id it was asked for: `ReplayGapless` leaves out exactly
such records (`PassedBy`). A tag whose TTL is over is no longer in flight although
the peer may have been sent its delivery; its ACK is then answered with a 404, which
is a `plain_frame`. `AckableDelivery` therefore holds up to the TTL.

### Drain

`main` is the program counter of `main` from Ctrl+C on; `todo` and `total` are
the loop of `inflight_message_count`, which locks one shard after the other. A
connection is a shard with one subscription. `ack_remove` and `ack_notify`, and
the walk of the maintenance task and its notification, are two steps each.
`notify_waiters` wakes only a future that exists, as Tokio's does; `arm` creates
the future, after the count, as the code does.

A push is `register` and then `push_encoded` or, when the slot is full,
`cancel_push_inflight`, which takes the entry out again and notifies nobody. Two
callers push: a publisher (`publish_register`), also to a subscription that has
left since it was found (`gone`), and the offset replay of a SUBSCRIBE
(`replay_register`), which nothing refuses during a shutdown. With
`DropSubscription` a publisher that met a full slot drops the subscription after
its fan-out (`slow`, `drop_slow_consumer`); the daemon's policy is `DropNewest`, the
library has both. The dead letters of a tick are QoS0 publishes: they register
nothing (`publish_dropped`) and are refused once the flag is set.

History: `late` are the publishers past the check when the flag was set, `fresh`
what was registered since the last count began, `missed` and `silent` say that in
this round a notification came too early or messages left without one.

### FrameCodec

Every payload, `encode_frame`, `encode_deliver_frame`, `try_decode_frame` and
the read loop of `ReaderState::run`, on sequences of bytes with the code's layout.
A byte has `Base` values and the integer fields are 1 or 2 bytes wide, so that
lengths and flags at their limits occur in strings of a few bytes. TLC stops with
an evaluation error where the code would panic on reading past the end.

## 3. Runs

| Run | Bounds | Shows |
|---|---|---|
| `queue_poll` | capacity 2, 3 messages of either QoS, 2 retries, TTL 4, clock to 5 | `TypeOK`, `OneHome`, `PendingReachable`, `RetryArmed`, `FreshInOrder`, `EvictionTight`, the `Contract`, `EverySettles` |
| `queue_push` | 3 pushes, TTL 1 or 2, clock to 3 | `ExpiryArmed`, the `Contract`, `EverySettles` |
| `wal` | 3 appends (the third durable), 1 flush, one record to a segment, channel of 2, fsync every 2 records or at any interval, failing I/O, 1 compaction, 2 crashes | `TypeOK`, `DurableSurvives`, `FlushCovers`, `IndexAgrees`, `IdsUnique`, `CompactionSafe`, `AppendsAnswered`, `LogContract` |
| `recovery` | 2 clients, 2 messages, two records to a segment, 5 ids, 1 checkpoint round, 1 crash | `Retained`, `CursorHonest`, `ReplayComplete`, `AckRemembered` |
| `registry` | 2 connections with a broadcast, two grouped and a wildcard subscription, 1 publish that may find anyone slow; patterns and subjects of up to 4 tokens over 2 words | `MatchesReference`, `NoResidue`, `Reached`, `GroupServedOnce` |
| `session` | 2 messages, one QoS1, by this connection or (the QoS1 one) by another, a record of another topic written at any time, replay from the start, a slot of 2 frames, a batch of 1, a response channel of 1, 1 failed login | `InOrderOnce`, `AnsweredOnce`, `NoSleepOnBytes`, `ReplayGapless`, `DeliveredAsDue`, `AckableDelivery`, `Gate`, `WindDown` |
| `drain` | 2 connections, one of them new, 1 publish, 1 logged message that a replay may push | `DrainHonest`, `SleepExplained`, `ShutdownEnds` |
| `codec` | every PUBLISH, SUBSCRIBE and DELIVER payload of up to 6 bytes over 5 byte values, every type with up to 2 bytes and a whole, partial or invalid frame behind it, cut anywhere | `Reassembly`, `RoundTrip`, `DeliverMirrors` |
| `queue_push_retry`, `wal_compact_race`, `wal_torn_tail`, `recovery_ids` | the smallest that show it | the disagreements of section 6 |

Why the bounds are enough for the cases that matter. With capacity 2 and three
messages an enqueue meets a full queue in every mix of waiting, in-flight and
dead tags. With two retries, a base delay of 1 and a TTL of 4 a message is
delivered, retried, exhausted or expired in each place it can be. The clock
runs past the last expiry, which `EverySettles` needs. Three appends into
segments of one record roll twice; a batch of two overfills one; two crashes
let a log be torn, reopened, written and torn again. In `recovery` five ids are two
messages and three ack records, which fill more than one segment in any order, so
that a compaction deletes a segment, races a roll, or leaves a crash an older
checkpoint to bring back; the proofs hold for any number of rounds and crashes. In
`registry` a group
has a member on each connection, so that it loses one while the other stays; the
publisher can drop a subscription before, during and after the close of its
connection and before its own subscribe call has recorded it. With one publisher
two drops never meet. The instance with two publishers and the subscriptions a,
b and w was checked too (17 million states, five minutes) and is not kept as a run.

In `session` a slot of two frames is full while a push waits for it, and one
that is not empty is traded against a batch with a response in it; the channel
is full while the reader has one more answer. The foreign record with the first
id makes a replay skip when it is written before the topic's own, and makes it
begin behind them when it is written after. In `drain` two shards are enough for a
message to be missed behind the counter; the publisher can pass the check before
the flag is set and register after the count, and so can the replay of either
connection, and each push may be rolled back. In `codec` six bytes hold
a key, a topic or a group together with each optional field of its frame, one
byte short and one too many; the byte values are the lengths 0, 1, 2, one that
is longer than what follows, and one with both flags set that is not text.

`TypeOK` of `Recovery`, `Registry`, `Session` and `Drain` holds in their runs too
and is there for the reader; their cfg files list what could be wrong.

Fairness. `queue_*`: weak fairness of `Tick`, of a maintenance tick with the
current instant (the daemon's 200 ms interval) and of the registration of a
message whose tag was taken (`publish_inner` does not await). Nothing is
assumed of clients: they may never poll and never ack. `wal`: weak fairness of
the writer task, which Tokio schedules whenever it is ready; not of callers, of
the compactor or of a reopening after a crash. `session`: weak
fairness of the reader (apart from what the peer sends, on which nothing is
assumed), of the writer, of the close and of each publisher, which are tasks that
Tokio runs when they are ready. Strong fairness of `reader_stops`: between two
frames the reader may be kept busy, but what it has read is finite, and its
biased select then looks at the signal first. A write to a peer that does not read is
taken to fail in the end, and a stream on which a write failed to fail its reads
as well; without the first, nothing in the code would end the writer. `drain`:
weak fairness of `main` and of the deadline; not of connections, publishers or
the maintenance task, so that the shutdown ends whatever they do. The other runs
have no liveness property.

Deadlock is checked in the queue runs. The other modules come to rest when all
calls are made, crashes used up, the connection closed or the daemon stopped.

The properties in a sentence each stand above their definitions. The ones to
know: `OneHome` (a message is in one place, and never comes back after it
left), `Contract` (the queue with its heaps and tombstones refines
`DeliveryContract`: outcomes are final, attempts are bounded by `max_retries`,
first deliveries are in order), `LogContract` (the log with its writer, rolls and
compactor refines `DurableLog`: a synced record is never dropped, one sync covers
all that was written, and a durable append gets its Ok from the sync that finds
its record written), `DurableSurvives` (what `append_durable`
confirmed is on disk through rolls, failures, crashes and reopening),
`Retained` and `ReplayComplete` (compaction and replay never pass by a message
that a client is still owed, except in the race and the order of section 6),
`ReplayGapless` (offset replay and live fan-out overlap and leave no gap but the one
that order makes), `NoSleepOnBytes` (no delivery is stranded in the slot),
`DrainHonest` (what "drained" overlooks: registrations of late publishers and of
replays after the count began), `SleepExplained` (the ways in which shutdown sleeps
with nothing to wait for: a notification too early, one on its way, or one of three
removals that do not notify; and no other).

A client is "owed" a message when it acked nothing at or above it and no
snapshot taken while the client had no cursor covers it (`Owed`). Both
exceptions are how the code works: cursors are one number, and a client that
has not acked yet has no part in the minimum that `current_snapshot` takes. What
the exceptions cost is in section 6. The exemptions are kept as narrow as the code
allows: `raced`, `Overtaken`, `PassedBy` and `Forgotten` each name the very records
and steps, and each is reached in its run.

## 4. Proofs

All theorems are safety properties of the specifications that the runs check,
proved for every value of the constants that satisfies the named assumptions:
any number of messages, clients, connections, subscriptions, publishers,
segments, crashes and time units.

| Theorem | Property | Theorem | Property |
|---|---|---|---|
| `SubscriberQueueProofs!TypeCorrect` | `TypeOK` | `SessionProofs!DeliveriesInOrder` | `InOrderOnce` |
| `SubscriberQueueProofs!NothingLost` | `OneHome` | `SessionProofs!ResponsesOnce` | `AnsweredOnce` |
| `SubscriberQueueProofs!DequeAgrees` | `PendingReachable` | `SessionProofs!WriterIsWoken` | `NoSleepOnBytes` |
| `SubscriberQueueProofs!ExpiryNeverLost` | `ExpiryArmed` | `SessionProofs!GateHolds` | `Gate` |
| `SubscriberQueueProofs!RetryNeverLost` | `RetryArmed` (polled) | `SessionProofs!DeliveriesAckable` | `AckableDelivery` |
| `SubscriberQueueProofs!FirstTriesInOrder` | `FreshInOrder` | `SessionProofs!ReplayHasNoGap` | `ReplayGapless` |
| `SubscriberQueueProofs!EvictsNoMore` | `EvictionTight` | `SessionProofs!DeliveredOnceEach` | `DeliveredAsDue` |
| `SubscriberQueueProofs!KeepsContract` | `Contract` | `RecoveryProofs!NothingOwedIsCompacted` | `Retained` |
| `DrainProofs!DrainIsHonest` | `DrainHonest` | `RecoveryProofs!CursorsAreHonest` | `CursorHonest` |
| `DrainProofs!SleepIsExplained` | `SleepExplained` | `RecoveryProofs!ReplayIsComplete` | `ReplayComplete` |
| `RegistryProofs!ClosesLeaveNothing` | `NoResidue` | `RecoveryProofs!AcksAreRemembered` | `AckRemembered` |
| `RegistryProofs!PublishReaches` | `Reached` | `RegistryProofs!GroupsServedOnce` | `GroupServedOnce` |
| `WalProofs!TypeCorrect` | `TypeOK` | `WalProofs!DurableRecordsSurvive` | `DurableSurvives` |
| `WalProofs!FlushesCover` | `FlushCovers` | `WalProofs!IndexIsRight` | `IndexAgrees` |
| `WalProofs!IdsAreUnique` | `IdsUnique` | `WalProofs!CompactionIsSafe` | `CompactionSafe` |
| `FrameCodecProofs!StreamComesThrough` | `Reassembly` | `FrameCodecProofs!PayloadsComeBack` | `RoundTrip` |
| `FrameCodecProofs!DeliveredAsPublished` | `DeliverMirrors` | `WalProofs!LogImplementsContract` | `LogContract` |

Each module states one inductive invariant as a conjunction of named parts, has
one lemma for each action or each part, and derives the theorems from
`Spec => []Inv`. TLC checked every invariant on its run before it was proved.

**Queue** (`QueueAssumption`: the constants are naturals and known names;
`BackoffAssumption`: the backoff of every attempt up to `MaxRetries + 1` is a
natural, which the provers cannot derive from exponentiation).

    Inv == TypeOK /\ OneHome /\ PendingReachable /\ ExpiryArmed
           /\ AttemptsBounded /\ PushOnly

None of the parts is inductive alone. `OneHome`
needs `PendingReachable`: a retried message is put back at the end of the
deque, and would be there twice if the deque still held it. `ExpiryArmed` needs
`OneHome`, so that popping an expired record removes the entry it belongs to.
`AttemptsBounded` (a waiting message has been tried fewer than `MaxAttempts`
times) is what lets `dequeue` apply `BackoffAssumption`. `PushOnly` (a polled
queue has no push under way, a reserved tag is not in the deque) keeps a
registration from meeting an entry. `RetryArmed` is added on top for polled
queues; for pushed ones it is false (section 6). The order and the refinement
need besides that what
is in flight has been tried, so that a retry never goes in among the fresh
messages, and that the fresh ones ascend in the deque; the refinement is shown
action by action under the mapping of `Contract`, where the eviction loop is one
step of the contract.

**Drain** (`DrainAssumption`). A count that is no snapshot is honest because,
after the flag is set, publishes register only if they had passed the check
(`OnlyLate`), because a connection that never subscribed has nothing in flight and a
subscription that left does not come back (`FreshEmpty`), and because a shard that
the count has passed by holds only what is `fresh`, from a late publisher or a replay
(`VisitedHonest`); this carries over to what the count returned (`ReturnHonest`).
`SleepJustified` carries the reason to sleep from the count over the creation of
the future to the sleep itself: what was counted is still there, or it left through
one of the ways the property names.

**Session** (`SessionAssumption`). `InOrderOnce` is inductive only with
`LocalEmpty`: between two batches the writer's buffer holds no delivery, so the
buffer it trades in cannot put an old one behind a younger one. Cancelling a push
is harmless because the tags of pushes that are registered and not encoded are
different from each other and from every encoded one (`TagInv`); a tag that is no
longer in flight was acked or has expired. `ReplayGapless` rests on `GapInv`: a record
that a replay asks for and that no smaller id follows is delivered, being published,
or still to come, in the files, in the batch or at hand; appends that go on in the
meantime can put a record behind the place where the reading began, never one before
it that was still due. `DeliveredAsDue` counts each message over both buffers, the
wire, the pushes under way and the rest of the replay.

**Wal** (`WalAssumption`: appends are numbered from 1, the limits are naturals,
and 0, which stands for "no flush", names no flush).

    Inv == Types /\ Bounded /\ ClosedInv /\ WriterInv /\ BatchInv /\ OffsetInv
           /\ SegmentsInv /\ PlaceInv /\ FreshInv /\ IdsUnique /\ IndexInv
           /\ CompactInv /\ FlushInv /\ DurableSurvives /\ FlushCovers

A durable append is answered by the sync of its own batch (`WriterInv`), and by
then the batch is in the active file or lost with it (`BatchInv`): this is
`DurableSurvives`. `FlushCovers` needs that every segment but the active one is
synced (`SegmentsInv`, which the sync at the start of a roll provides) and that
what was queued before a flush is, while the flush waits in the channel, in a
file, in the batch or ahead of it in the channel (`FlushInv`). `PlaceInv`: a
record is in one place at a time; with it a record's entry in the index names
its only segment (`IndexInv`), at the place the writer's offset says
(`OffsetInv`). `FreshInv`: every id in use is below `next_id`, also after
`open_with_config` took `next_id` from what a crash left; the callers that still
held larger ids were told of an error. `CompactInv`: the files a compaction
visited do not come back, and the largest ids it read still bound the segments
older than the one it saw active, because records are added to the active one
only. Segments from that one on are outside `CompactionSafe`, and the code does
delete such a one (section 6). `Bounded` says that there is a largest id, which
`Max` needs; it is proved, as nothing assumes that `Appends` is finite.

The refinement of `DurableLog` rests on two more inductive parts. `LostInv`: the
record of a deleted segment is in no other file and no longer in the channel.
`WaitInv`: the durable appends that wait are exactly those whose record is in the
channel or in the batch of a writer that runs, and a sync at the end of a batch
has all its durable appends to answer; so nobody is forgotten and nobody is
answered early. `MovingStep` says when a record comes under way and when it leaves;
then `send_request` is `Queue` or `Refuse`, `write_all` is `Write`, the three syncs
are `Sync`, `compact_delete` is `Delete`, `writer_stops` is `Stop`, `crash` is
`Crash`, and every other step is a stutter (`RestRefines`). That one `Sync` makes
every written record synced, in whichever segment, is `SegmentsInv`.

**Recovery** (`RecoveryAssumption`).

    Inv == TypeOK /\ LogInv /\ MemoryInv /\ FreshInv
           /\ CursorInv /\ CompactInv /\ KeptInv /\ SettledInv

`LogInv`: positions and segments grow together, ids need not; but an ack record has
a higher id than the message it acks and lies behind it in the file, because it is
made after that was written. `MemoryInv`: what memory holds was given an id in this
run of the broker, below `next_id`; this is needed because ids may be given again
after a crash (section 6). `FreshInv`: between taking its id and being written a
message shares it with nobody of this run, and nobody has acked it. `CursorInv`: every
version of the cursors, in memory, in a snapshot, in the file and in the log, covers
only what clients acked or did not claim. `CompactInv` follows a compaction from its
first look to its last removal: nobody is owed what is in a segment older than the
one seen active that was chosen (`Doomed`), and nobody will be, since cursors only
grow; and the segments before a chosen one are chosen too unless an id written out
of order holds them back, which is the case `Forgotten` names. `KeptInv` extends
`Retained` to messages that are only queued for the disk, and `SettledInv` says that
the ack record of a message outlives it. `ReplayComplete` follows: what is owed is in
a file, above the snapshot and above the client's rebuilt cursor, and lies behind the
record `iterate_from` begins at unless it is `Overtaken`.

**Registry** (`RegistryAssumption`: finitely many subscriptions; a subject is no
pattern; a wildcard subscription has no group). `CallInv` and `TopicInv` say what
each subscribe call has put where. `CloseInv` and `DropInv` say what the two
removals hold in their local variables, and that a publisher can know a wildcard
subscription only after its call is complete; without that a drop could overtake
the entry in the list of patterns and leave it behind. `ResidueInv`: whoever took a
subscription out of its shard is still on its way to the topic and to the
patterns, and until then the connection, or the close, knows it; `NoResidue` is
this at the end of the way. `KeepInv`: what nobody has begun to remove is in every
map that a publish looks into. `SnapshotInv` and `MustInv` follow one publish
through its locks: nobody and no group twice, and everyone who was there and stays
is found, in the snapshot or in a group still to be asked.

**FrameCodec** (`CodecAssumption`: a byte has at least four bits, the fields at
least one byte, and the largest frame holds a header and is counted by the length
field). The theorems hold for any stream, any size of a byte and any widths, the
code's 256 and 2, 4 and 8 among them.

    CodecInv == Types /\ Reassembly

`Types` says that every frame taken out is one a peer may send (`Sendable`: its
id and its length fit their fields); `Reassembly` needs it to encode the frames
again. `DecodeEncoded` and `DecodeStep` are the two directions between a frame and
its bytes: decoding what `encode_frame` wrote, with anything behind it, gives the
frame and what was behind it; and what `try_decode_frame` takes off the buffer is
what `encode_frame` writes of the frame it returns. `RoundTrip` and
`DeliverMirrors` are then facts about single frames. For each payload one lemma
says which bytes its encoder writes and that its decoder reads them back
(`PublishEncoded`), one what a decoder has checked when it succeeds
(`PublishDecoded`); together they give the round trip (`PublishAgain`).
The integer fields, `Power` and `Joined` are recursive functions on naturals;
what they compute is proved from the least natural for which it would be wrong
(`LeastNat`, `Induction`), on a set in place of a predicate.

The proof found that a byte must have four bits: with `Base` a multiple of 4
alone, the flags of a qos byte can fall on the bits of the qos. With the code's
0x80 and 0x40 they do not.

Only model-checked: the comparison of subject matching with its reference, and
liveness (`EverySettles`, `AppendsAnswered`, `WindDown`, `ShutdownEnds`), which
the prover does not treat.

## 5. Plan

Done: the subscriber queue and the log with their contracts, recovery, the
registry with subject patterns, the session, shutdown, the codec; the proofs of
section 4. None of the modules declares a RECURSIVE operator.

Left:

- `Recovery`: the shared cursor of a consumer group.
- `Recovery` on top of `DurableLog`. It keeps its own log, because its compaction
  needs ids and segments, which the contract leaves out.

## 6. Where the code and its documents disagree

The first four are runs that TLC finds violated; the lines are quoted in
`PROJECT.json`.

- **Retry of pushed messages** (`queue_push_retry`). A pushed QoS1 message gets
  an expiration record and no retry record: it is never retried and leaves only
  by ack, roll-back or TTL.
- **Compaction during a roll** (`wal_compact_race`). `compact_below` reads the
  active segment's number before it lists the directory; the segment a roll
  creates in between is deleted as a straggler. The writer goes on writing to a
  file without a name, so messages that `publish_durable` confirmed are gone at the
  next start, owed or not: in `Recovery` these are the messages in `raced`, and
  without that exemption TLC finds `Retained` violated.
- **Torn tail** (`wal_torn_tail`). `open_with_config` does not truncate a torn
  record. A shorter record written over it leaves its remains, which the next
  open reads as a record with a wrong CRC, and refuses the log.
- **Ids** (`recovery_ids`). `next_id` is rebuilt from the records found; after
  compaction and a crash that leaves the active segment empty, ids start over,
  below the cursors of the checkpoint.

Four more have a configuration of their own and are not among the runs:

- **Capacity** (`QueueCapacity.cfg`, `SubscriberQueue`). Only waiting messages
  are evicted; a client that polls without acking makes the queue hold more than
  its capacity.
- **iterate_from** (`WalIterate.cfg`, `Wal`). Ids are taken before records enter
  the channel, so a smaller id can follow a larger one in the file.
  `iterate_from` starts at the place of the smallest and does not see what was
  written before it. Both replays inherit this: a confirmed message can be missing
  from the recovery of a client that is owed it (`Overtaken` in `Recovery`) and from
  the offset replay of a SUBSCRIBE (`PassedBy` in `Session`). The same order lets a
  compaction remove an ack record before its message, which is then delivered again
  when the checkpoint is lost too (`Forgotten`).
- **Unacked messages after a crash** (`RecoveryUnacked.cfg`, `MCRecovery`). A
  client that acks a later message first is not sent the earlier one after a crash.
- **Drain wake-up** (`DrainWakeup.cfg`, `Drain`). The comment of `wait_for_drain`
  says that a notification between the count and the sleep is kept. The future
  is created after the count and `notify_waiters` keeps nothing, so it
  is lost; and a connection that closes, a slow consumer that is dropped and a push
  that is rolled back take messages out of flight and do not notify at
  all. Either way the daemon sleeps until the next notification or its two
  seconds are over, and then finds nothing in flight (`SleepExplained`,
  `ShutdownEnds`).

Met while reading, with no run: SUBSCRIBE is not refused during a shutdown and its
offset replay registers messages without a look at the flag, so that
`wait_for_drain` can return true with messages in flight that were published long
before (`DrainHonest` says which); an in-flight tag expires although its delivery
was written, and the client's ACK gets a 404 (`docs/PROTOCOL.md` 336 tells it to
expect one); `docs/RECOVERY.md` 86-87 says that ack state is in memory only, while
acks are journalled and checkpointed; `blipmqd/src/main.rs` 268-269 speaks of a final
checkpoint in the shutdown sequence, which writes none; an empty partition key,
said to be rejected, falls back to round-robin; and a PUBLISH within eight bytes
of the frame limit is accepted although its DELIVER, which carries the tag twice,
cannot be encoded.

## 7. Not modelled

Authentication and TLS (a fixed key set and a library; what a connection does
with the answer is in `Session`), configuration, metrics endpoints, chaos helpers
and benchmarks. Within the modelled parts: the durability of directory entries,
the buffering inside Tokio's `File`, memory limits, publishes to the text of a
pattern, the shared cursor of a consumer group, several subscriptions on one
slot, the wrap-around of 64-bit counters, and the dead letters that
`Broker::maintenance_tick` publishes, with a `dlq_suffix`, of what the queues dropped:
they are QoS0, outside the log, to a topic of their own, and after the walk, so they
are publishes like any other.
