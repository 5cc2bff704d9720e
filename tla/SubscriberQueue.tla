--------------------------- MODULE SubscriberQueue ---------------------------
(***************************************************************************)
(* The per-subscriber queue of the broker (core/src/lib.rs,                *)
(* SubscriberQueue).  Every method takes the queue's mutex for its whole   *)
(* body, so each is one action; what interleaves is the order in which the *)
(* publishers, the subscriber's client and the maintenance task take it.   *)
(*                                                                         *)
(* A message is identified by its delivery tag: payload and WAL id travel  *)
(* with the entry unread.  An entry's "tag" field is always the key it is  *)
(* stored under, so it is not repeated in the record.  The code always     *)
(* passes Some(ttl) (publish_inner falls back to the broker default).      *)
(*                                                                         *)
(* A binary heap is the set of its elements: it never holds two equal      *)
(* ones, because a tag is pushed with one expiry and, between two pops,    *)
(* with one retry time; peek/pop in order up to `now' removes exactly the  *)
(* elements that are due.                                                  *)
(***************************************************************************)
EXTENDS Integers, Sequences, FiniteSets, Functions, Maps

CONSTANTS
  Kind,        \* "poll": v1 subscriber; "push": v2 subscriber (buffer or channel)
  DefaultQos,  \* the QoS the subscription was made with
  Capacity,    \* BrokerConfig::per_subscriber_queue_capacity
  MaxRetries,  \* BrokerConfig::max_retries
  BaseDelay,   \* BrokerConfig::retry_base_delay
  Ttls,        \* the TTLs publishers use (per-message or broker default)
  MaxTag,      \* bound: number of messages
  LastPublish, \* bound: no message is accepted after this instant
  MaxTime      \* bound: the clock stops here

QoSLevel == {"AtMostOnce", "AtLeastOnce"}

ASSUME QueueAssumption ==
  /\ Kind \in {"poll", "push"}
  /\ DefaultQos \in QoSLevel
  /\ Capacity \in Nat /\ MaxRetries \in Nat /\ BaseDelay \in Nat
  /\ Ttls \subseteq Nat
  /\ MaxTag \in Nat /\ LastPublish \in Nat /\ MaxTime \in Nat

VARIABLES
  next_tag,         \* the queue's next_tag, or a push subscriber's push_next_tag
  pending,          \* VecDeque<DeliveryTag>; may hold tags whose entry is gone
  pending_entries,  \* HashMap<DeliveryTag, QueueEntry>
  inflight,         \* HashMap<DeliveryTag, QueueEntry>
  expiration_heap,  \* set of <<expires_at, tag>>
  retry_heap,       \* set of <<next_delivery_at, tag>>
  pushing,          \* publish_inner under way: tag -> "tagged" or "registered"
  now,              \* the monotonic clock
  fate              \* history: how each message that left the queue left it

vars == <<next_tag, pending, pending_entries, inflight, expiration_heap,
          retry_heap, pushing, now, fate>>

Tags == 1 .. (next_tag - 1)

QueueEntry == [qos : QoSLevel, created_at : Nat, ttl : Nat,
               delivery_attempts : Nat, next_delivery_at : Nat]

Fates == {"acked", "consumed", "evicted", "ttl_expired", "max_retries", "cancelled"}

expires_at(e) == e.created_at + e.ttl

-----------------------------------------------------------------------------

Init ==
  /\ next_tag = 1
  /\ pending = <<>>
  /\ pending_entries = NoKeys
  /\ inflight = NoKeys
  /\ expiration_heap = {}
  /\ retry_heap = {}
  /\ pushing = NoKeys
  /\ now = 0
  /\ fate = NoKeys

\* The tags the eviction loop of enqueue has popped after k iterations.
Popped(k) == {pending[i] : i \in 1..k}

\* pending_entries.len() + inflight.len() after k pops.
StoredAfter(k) ==
  Cardinality(DOMAIN pending_entries \ Popped(k)) + Cardinality(DOMAIN inflight)

\* Slip: `>' for `>=' in the loop's condition.
EvictionStopsLate(k) ==
  /\ k = Len(pending) \/ StoredAfter(k) <= Capacity
  /\ \A j \in 0 .. (k - 1) : StoredAfter(j) > Capacity

\* The loop pops the front until there is room or the deque is empty.
EvictionStopsAt(k) ==
  /\ k = Len(pending) \/ StoredAfter(k) < Capacity
  /\ \A j \in 0 .. (k - 1) : StoredAfter(j) >= Capacity

EffectiveQos(message_qos) ==
  IF DefaultQos = "AtLeastOnce" /\ message_qos = "AtLeastOnce"
  THEN "AtLeastOnce" ELSE "AtMostOnce"

\* Slip: the new tag is put at the front of the deque.
push_front(q, tag) == <<tag>> \o q

push_back(q, tag) == Append(q, tag)

\* Slip: the deque gets the counter after it was advanced.
enqueue_advanced(message_qos, ttl) ==
  /\ Kind = "poll"
  /\ next_tag <= MaxTag /\ now <= LastPublish
  /\ pending' = push_back(pending, next_tag + 1)
  /\ next_tag' = next_tag + 1
  /\ UNCHANGED <<pending_entries, inflight, expiration_heap, retry_heap, pushing, now, fate>>

enqueue(message_qos, ttl) ==
  /\ Kind = "poll"
  /\ next_tag <= MaxTag /\ now <= LastPublish
  /\ \E k \in 0 .. Len(pending) :
       /\ EvictionStopsAt(k)
       /\ LET tag   == next_tag
              entry == [qos |-> EffectiveQos(message_qos), created_at |-> now,
                        ttl |-> ttl, delivery_attempts |-> 0,
                        next_delivery_at |-> now]
          IN /\ pending' = push_back(SubSeq(pending, k + 1, Len(pending)), tag)
             /\ pending_entries' = Put(Drop(pending_entries, Popped(k)), tag, entry)
             /\ expiration_heap' = expiration_heap \cup {<<expires_at(entry), tag>>}
             /\ fate' = PutAll(fate, Popped(k) \cap DOMAIN pending_entries, "evicted")
             /\ next_tag' = next_tag + 1
  /\ UNCHANGED <<inflight, retry_heap, pushing, now>>

-----------------------------------------------------------------------------
(* The push branch of publish_inner.  A publisher takes a tag, registers a  *)
(* QoS1 message in flight, then encodes the frame or finds the consumer's   *)
(* buffer (or channel) full and rolls back.  The three steps are separate   *)
(* critical sections; publishers, acks and maintenance interleave.          *)

\* A QoS0 frame is handed to the buffer, or dropped, without touching the queue.
push_take_tag(qos) ==
  /\ Kind = "push"
  /\ next_tag <= MaxTag /\ now <= LastPublish
  /\ next_tag' = next_tag + 1
  /\ \/ /\ qos = "AtLeastOnce"
        /\ pushing' = Put(pushing, next_tag, "tagged")
        /\ UNCHANGED fate
     \/ /\ qos = "AtMostOnce"
        /\ fate' = Put(fate, next_tag, "consumed")
        /\ UNCHANGED pushing
  /\ UNCHANGED <<pending, pending_entries, inflight, expiration_heap, retry_heap, now>>

\* Slip: the push is not counted as an attempt.
register_uncounted(tag, ttl, created) ==
  /\ tag \in DOMAIN pushing /\ pushing[tag] = "tagged"
  /\ inflight' = Put(inflight, tag,
                     [qos |-> "AtLeastOnce", created_at |-> created, ttl |-> ttl,
                      delivery_attempts |-> 0, next_delivery_at |-> created])
  /\ expiration_heap' = expiration_heap \cup {<<created + ttl, tag>>}
  /\ pushing' = Put(pushing, tag, "registered")
  /\ UNCHANGED <<next_tag, pending, pending_entries, retry_heap, now, fate>>

\* created is the instant read before the lock is taken: it may lie behind the clock.
register_push_inflight(tag, ttl, created) ==
  /\ tag \in DOMAIN pushing /\ pushing[tag] = "tagged"
  /\ LET entry == [qos |-> "AtLeastOnce", created_at |-> created, ttl |-> ttl,
                   delivery_attempts |-> 1, next_delivery_at |-> created]
     IN /\ inflight' = Put(inflight, tag, entry)
        /\ expiration_heap' = expiration_heap \cup {<<expires_at(entry), tag>>}
  /\ pushing' = Put(pushing, tag, "registered")
  /\ UNCHANGED <<next_tag, pending, pending_entries, retry_heap, now, fate>>

\* The buffer is below slow_consumer_buffer_bytes: the frame goes out.
push_encode(tag) ==
  /\ tag \in DOMAIN pushing /\ pushing[tag] = "registered"
  /\ pushing' = Drop(pushing, {tag})
  /\ UNCHANGED <<next_tag, pending, pending_entries, inflight, expiration_heap,
                 retry_heap, now, fate>>

\* The buffer is full: the registration is rolled back.  The heap entry
\* stays behind as a tombstone.
cancel_push_inflight(tag) ==
  /\ tag \in DOMAIN pushing /\ pushing[tag] = "registered"
  /\ pushing' = Drop(pushing, {tag})
  /\ inflight' = Drop(inflight, {tag})
  /\ fate' = PutAll(fate, {tag} \cap DOMAIN inflight, "cancelled")
  /\ UNCHANGED <<next_tag, pending, pending_entries, expiration_heap,
                 retry_heap, now>>

-----------------------------------------------------------------------------
\* base_delay * 2^(attempts - 1), the exponent capped at 31.  (checked_mul falls
\* back to base_delay only for a Duration no configuration reaches.)
Backoff(attempts) ==
  BaseDelay * 2^(IF attempts - 1 > 31 THEN 31 ELSE attempts - 1)

ASSUME BackoffAssumption ==
  \A attempts \in 1 .. (MaxRetries + 1) : Backoff(attempts) \in Nat

\* Position of the first tag in the deque that still has an entry.
FirstLive(i) ==
  /\ pending[i] \in DOMAIN pending_entries
  /\ \A j \in 1 .. (i - 1) : pending[j] \notin DOMAIN pending_entries

\* Slip: the tag is read with front() and stays in the deque.
rest_with_front(i) == SubSeq(pending, i, Len(pending))

\* The deque once the first i tags are popped.
rest_after(i) == SubSeq(pending, i + 1, Len(pending))

\* poll(): pop dead tags, then deliver the first live one.
dequeue ==
  /\ \E i \in 1 .. Len(pending) :
       /\ FirstLive(i)
       /\ LET tag   == pending[i]
              entry == pending_entries[tag]
              tried == entry.delivery_attempts + 1
              again == [entry EXCEPT !.delivery_attempts = tried,
                                     !.next_delivery_at = now + Backoff(tried)]
          IN /\ pending' = rest_after(i)
             /\ pending_entries' = Drop(pending_entries, {tag})
             /\ \/ /\ entry.qos = "AtMostOnce"
                   /\ fate' = Put(fate, tag, "consumed")
                   /\ UNCHANGED <<inflight, retry_heap>>
                \/ /\ entry.qos = "AtLeastOnce"
                   /\ inflight' = Put(inflight, tag, again)
                   /\ retry_heap' = retry_heap \cup {<<again.next_delivery_at, tag>>}
                   /\ UNCHANGED fate
  /\ UNCHANGED <<next_tag, expiration_heap, pushing, now>>

\* poll() on a deque of dead tags: all are popped and nothing is returned.
dequeue_none ==
  /\ pending # <<>>
  /\ \A i \in 1 .. Len(pending) : pending[i] \notin DOMAIN pending_entries
  /\ pending' = <<>>
  /\ UNCHANGED <<next_tag, pending_entries, inflight, expiration_heap,
                 retry_heap, pushing, now, fate>>

\* The client may send any tag; an unknown one changes nothing.
ack(tag) ==
  /\ tag \in DOMAIN inflight
  /\ inflight' = Drop(inflight, {tag})
  /\ fate' = Put(fate, tag, "acked")
  /\ UNCHANGED <<next_tag, pending, pending_entries, expiration_heap,
                 retry_heap, pushing, now>>

-----------------------------------------------------------------------------
(* maintenance_tick(t): t is the instant the maintenance task read before   *)
(* it took the queue's lock, so it may lie behind the clock.                *)

\* Slip: the loop breaks on expires_at >= now for the entry, not for the heap.
Expired_strictly(m, t) ==
  {tag \in DOMAIN m : /\ <<expires_at(m[tag]), tag>> \in expiration_heap
                      /\ expires_at(m[tag]) < t}

\* Entries of map m whose own expiration record is due at t.
Expired(m, t) ==
  {tag \in DOMAIN m : /\ <<expires_at(m[tag]), tag>> \in expiration_heap
                      /\ expires_at(m[tag]) <= t}

\* Slip: a record due at the next instant is popped too.
NotDue_early(heap, t) == {r \in heap : r[1] > t + 1}

\* What is left of a heap when every record due at t has been popped.
NotDue(heap, t) == {r \in heap : r[1] > t}

\* Slip: entries the expiration pass dropped are still retried.
RetryDue_expired(t) ==
  {tag \in DOMAIN inflight :
     /\ <<inflight[tag].next_delivery_at, tag>> \in retry_heap
     /\ inflight[tag].next_delivery_at <= t}

\* In-flight entries whose own retry record is due at t, once the expired
\* ones are gone.
RetryDue(t) ==
  {tag \in DOMAIN inflight \ Expired(inflight, t) :
     /\ <<inflight[tag].next_delivery_at, tag>> \in retry_heap
     /\ inflight[tag].next_delivery_at <= t}

\* Slip: `>' for `>='.
Exhausted_late(t) == {tag \in RetryDue(t) : inflight[tag].delivery_attempts > MaxRetries}

Exhausted(t) == {tag \in RetryDue(t) : inflight[tag].delivery_attempts >= MaxRetries}

\* s lists the tags of S once each, in the order the retry heap yields them.
HeapOrder(s, S) ==
  /\ Range(s) = S
  /\ \A i, j \in 1 .. Len(s) :
       i < j => \/ inflight[s[i]].next_delivery_at < inflight[s[j]].next_delivery_at
                \/ /\ inflight[s[i]].next_delivery_at = inflight[s[j]].next_delivery_at
                   /\ s[i] < s[j]

maintenance_tick(t) ==
  LET ttl_dropped   == Expired(pending_entries, t) \cup Expired(inflight, t)
      retry_dropped == Exhausted(t)
      retried       == RetryDue(t) \ Exhausted(t)
      restored      == [tag \in retried |->
                          [inflight[tag] EXCEPT !.next_delivery_at = t]]
      kept          == Drop(pending_entries, Expired(pending_entries, t))
  IN /\ \E s \in [1 .. Cardinality(retried) -> retried] :
          HeapOrder(s, retried) /\ pending' = pending \o s
     /\ pending_entries' = [tag \in DOMAIN kept \cup retried |->
                              IF tag \in retried THEN restored[tag] ELSE kept[tag]]
     /\ inflight' = Drop(inflight, Expired(inflight, t) \cup RetryDue(t))
     /\ expiration_heap' = NotDue(expiration_heap, t)
     /\ retry_heap' = NotDue(retry_heap, t)
     /\ fate' = PutAll(PutAll(fate, ttl_dropped, "ttl_expired"),
                       retry_dropped, "max_retries")
     /\ UNCHANGED <<next_tag, pushing, now>>

\* Time passes.  Bound: the clock waits at LastPublish for publishers that
\* have a tag and no entry yet.
Tick ==
  /\ now < MaxTime
  /\ now = LastPublish => \A tag \in DOMAIN pushing : pushing[tag] # "tagged"
  /\ now' = now + 1
  /\ UNCHANGED <<next_tag, pending, pending_entries, inflight, expiration_heap,
                 retry_heap, pushing, fate>>

-----------------------------------------------------------------------------

Next ==
  \/ \E q \in QoSLevel, ttl \in Ttls : enqueue(q, ttl)
  \/ \E q \in QoSLevel : push_take_tag(q)
  \/ \E tag \in Tags, ttl \in Ttls, created \in 0 .. now : register_push_inflight(tag, ttl, created)
  \/ \E tag \in Tags : push_encode(tag)
  \/ \E tag \in Tags : cancel_push_inflight(tag)
  \/ dequeue
  \/ dequeue_none
  \/ \E tag \in Tags : ack(tag)
  \/ \E t \in 0 .. now : maintenance_tick(t)
  \/ Tick

Spec == Init /\ [][Next]_vars

\* The daemon ticks maintenance every 200 ms with the current instant, time
\* passes, and publish_inner, which never awaits, finishes what it began.
\* Nothing is assumed of publishers starting, of clients polling or of acks.
FairSpec ==
  /\ Spec
  /\ WF_vars(Tick)
  /\ WF_vars(maintenance_tick(now))
  /\ WF_vars(\E tag \in Tags, ttl \in Ttls, created \in 0 .. now :
               register_push_inflight(tag, ttl, created))

-----------------------------------------------------------------------------
(* Properties.                                                             *)

MaxAttempts == IF MaxRetries = 0 THEN 1 ELSE MaxRetries

\* Every field holds a value of its Rust type.
TypeOK ==
  /\ next_tag \in Nat \ {0}
  /\ pending \in Seq(Tags)
  /\ DOMAIN pending_entries \subseteq Tags
  /\ \A tag \in DOMAIN pending_entries : pending_entries[tag] \in QueueEntry
  /\ DOMAIN inflight \subseteq Tags
  /\ \A tag \in DOMAIN inflight : inflight[tag] \in QueueEntry
  /\ expiration_heap \subseteq Nat \X Tags
  /\ retry_heap \subseteq Nat \X Tags
  /\ DOMAIN pushing \subseteq Tags
  /\ \A tag \in DOMAIN pushing : pushing[tag] \in {"tagged", "registered"}
  /\ now \in Nat
  /\ DOMAIN fate \subseteq Tags
  /\ \A tag \in DOMAIN fate : fate[tag] \in Fates

Unregistered == {tag \in DOMAIN pushing : pushing[tag] = "tagged"}

\* Every message is at every moment in exactly one place: being pushed, waiting,
\* in flight, or gone for one recorded reason.  None is lost between the maps,
\* duplicated, or comes back after it left, whatever the order in which
\* publishers, acks, cancellations and maintenance take the queue's lock.
OneHome ==
  /\ Tags = Unregistered \cup DOMAIN pending_entries \cup DOMAIN inflight \cup DOMAIN fate
  /\ DOMAIN pending_entries \cap DOMAIN inflight = {}
  /\ DOMAIN fate \cap (DOMAIN pending_entries \cup DOMAIN inflight) = {}
  /\ Unregistered \cap (DOMAIN pending_entries \cup DOMAIN inflight \cup DOMAIN fate) = {}

Unique(s) == \A i, j \in 1 .. Len(s) : s[i] = s[j] => i = j

\* The deque and the maps agree: a waiting message is in the deque, no tag is in
\* it twice, and no in-flight message is.  Otherwise dequeue would never find a
\* message (it only walks the deque), or would skip or deliver one twice.
PendingReachable ==
  /\ DOMAIN pending_entries \subseteq Range(pending)
  /\ Unique(pending)
  /\ Range(pending) \cap DOMAIN inflight = {}

\* Every in-flight message has the retry record that will wake it: the heap's
\* record and the entry's next_delivery_at agree, so that maintenance does not
\* take the record for a stale one and leave the message in flight for good.
RetryArmed ==
  \A tag \in DOMAIN inflight : <<inflight[tag].next_delivery_at, tag>> \in retry_heap

\* Every message in the queue, waiting or in flight, retried or not, still has
\* its expiration record.
ExpiryArmed ==
  /\ \A tag \in DOMAIN pending_entries :
       <<expires_at(pending_entries[tag]), tag>> \in expiration_heap
  /\ \A tag \in DOMAIN inflight :
       <<expires_at(inflight[tag]), tag>> \in expiration_heap

\* Messages never tried are in the deque in the order of publication, also
\* when retried ones have been put back between them.
FreshInOrder ==
  \A i, j \in 1 .. Len(pending) :
    (/\ i < j
     /\ \A n \in {i, j} : /\ pending[n] \in DOMAIN pending_entries
                         /\ pending_entries[pending[n]].delivery_attempts = 0)
    => pending[i] < pending[j]

\* The comment on enqueue's loop, "Bound total number of stored messages":
\* waiting and in-flight messages together never exceed the capacity.
StoredBounded ==
  Cardinality(DOMAIN pending_entries) + Cardinality(DOMAIN inflight) <= Capacity

\* An enqueue makes room for its message and no more: it never touches messages
\* in flight, drops the front of the deque before what is behind it, evicts only
\* from a full queue, and ends over the capacity only with nothing left to evict.
EvictionTight ==
  [][next_tag' # next_tag =>
       LET evicted == DOMAIN pending_entries \ DOMAIN pending_entries'
           kept    == DOMAIN pending_entries \cap DOMAIN pending_entries'
           total   == Cardinality(DOMAIN pending_entries') + Cardinality(DOMAIN inflight')
       IN /\ inflight' = inflight
          /\ \A i, j \in 1 .. Len(pending) :
               pending[i] \in evicted /\ pending[j] \in kept => i < j
          /\ evicted # {} => total >= Capacity
          /\ total > Capacity => kept = {}]_vars

\* Every message published eventually leaves the queue, acked or not, polled or
\* not: its TTL catches it in the deque, in flight or between two retries.
EverySettles ==
  \A m \in 1 .. MaxTag : (m \in Tags) ~> (m \in DOMAIN fate)

\* The queue keeps the delivery contract: final outcomes, at most MaxAttempts
\* attempts, first attempts in order.
phaseOf(tag) ==
  IF tag \in DOMAIN pending_entries THEN "waiting"
  ELSE IF tag \in DOMAIN inflight THEN "inflight"
  ELSE IF tag \in DOMAIN fate THEN fate[tag] ELSE "reserved"

attemptsOf(tag) ==
  IF tag \in DOMAIN pending_entries THEN pending_entries[tag].delivery_attempts
  ELSE IF tag \in DOMAIN inflight THEN inflight[tag].delivery_attempts ELSE 0

C == INSTANCE DeliveryContract WITH
       accepted <- next_tag - 1,
       phase    <- [tag \in Tags |-> phaseOf(tag)],
       attempts <- [tag \in Tags |-> attemptsOf(tag)]

Contract == C!ContractSpec
=============================================================================
