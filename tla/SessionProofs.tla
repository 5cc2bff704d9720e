---------------------------- MODULE SessionProofs ----------------------------
(***************************************************************************)
(* Proofs about Session, for every set of messages, whichever of them are  *)
(* durable or published from elsewhere, every set of offsets and every     *)
(* size of the slot, the batch and the channel.                            *)
(***************************************************************************)
EXTENDS Session, SequenceFacts, FiniteSetTheorems, WellFoundedInduction

-----------------------------------------------------------------------------
(* The inductive invariant.                                                *)

\* What the reader awaits, and that the answer to the last AUTH is the last one.
ReaderInv ==
  /\ authenticated => hello_performed
  /\ auth_failures >= MaxAuthFailures /\ reader.pc = "send" => reader.fatal
  /\ reader.pc = "publishing" => reader.msg \in Messages
  /\ reader.pc \in {"iterate", "segments", "replay"} => reader.msg \in Offsets

\* A reading that has begun at a record.
ReadInv ==
  /\ reader.pc = "segments" \/ (reader.pc = "replay" /\ reader.records # <<>>)
       => reader.start \in DOMAIN log
  /\ reader.records = <<>> \/ reader.pc = "replay"
  /\ Range(reader.records) \subseteq Range(log)

\* Between two batches the writer's own buffer has no delivery in it: the swap
\* that trades it for the slot's can put none behind a younger one.
LocalEmpty ==
  /\ writer \in {"collect", "wait", "ended"} => local.d = <<>>
  /\ writer = "wait" => local.r = 0

BufferInv == LocalEmpty /\ InOrderOnce /\ AnsweredOnce

PushInv ==
  /\ \A p \in Pushers : push[p].pc # "idle" => push[p].msg \in Messages
  /\ \A m \in Messages : push[m].pc # "idle" => push[m].msg = m

USE DEF gate, slot, wside, wal, broker, ends, history

\* A set of numbers has a smallest one.
LEMMA SmallestOf ==
  ASSUME NEW T, T \subseteq Nat, T # {}
  PROVE  \E x \in T : \A y \in T : x <= y
  <1> DEFINE R == {p \in Nat \X Nat : p[1] < p[2]}
  <1>1. IsWellFoundedOn(R, Nat)
    BY NatLessThanWellFounded DEF OpToRel
  <1>2. \A a, b \in Nat : a < b => <<a, b>> \in R
    OBVIOUS
  <1> HIDE DEF R
  <1>3. PICK x \in T : \A y \in T : ~ (<<y, x>> \in R)
    BY <1>1, WFMin
  <1>4. \A y \in T : ~ (y < x)
    BY <1>2, <1>3
  <1> QED
    BY <1>4

\* What the index gives iterate_from: no place, or that of the smallest id asked
\* for.
LEMMA IndexFacts ==
  ASSUME log \in Seq(Messages \cup {Foreign}), ids \in [Messages \cup {Foreign} -> Nat], NEW from \in Nat
  PROVE  /\ Start(from) \in Nat
         /\ \/ Start(from) = 0 /\ \A i \in DOMAIN log : ~ (ids[log[i]] >= from)
            \/ /\ Start(from) # 0 /\ Start(from) \in DOMAIN log /\ ids[log[Start(from)]] >= from
               /\ \A i \in DOMAIN log : ids[log[i]] >= from => ids[log[Start(from)]] <= ids[log[i]]
  <1> DEFINE matching == {i \in DOMAIN log : ids[log[i]] >= from}
             T == {ids[log[i]] : i \in matching}
  <1>1. DOMAIN log = 1 .. Len(log) /\ Len(log) \in Nat /\ \A i \in DOMAIN log : ids[log[i]] \in Nat
    BY SeqFacts
  <1>2. CASE matching = {}
    BY <1>1, <1>2 DEF Start
  <1>3. CASE matching # {}
    <2>1. T \subseteq Nat /\ T # {}
      BY <1>1, <1>3
    <2>2. PICK x \in T : \A y \in T : x <= y
      BY <2>1, SmallestOf
    <2>3. \E i \in matching : \A j \in matching : ids[log[i]] <= ids[log[j]]
      BY <2>2
    <2>4. Start(from) = CHOOSE i \in matching : \A j \in matching : ids[log[i]] <= ids[log[j]]
      BY <1>3 DEF Start
    <2>5. Start(from) \in matching /\ \A j \in matching : ids[log[Start(from)]] <= ids[log[j]]
      BY <2>3, <2>4
    <2> QED
      BY <1>1, <2>5
  <1> QED
    BY <1>2, <1>3

LEMMA ReaderTypeStep ==
  ASSUME TypeOK, ReaderInv, ReadInv, Gate, [Next]_vars
  PROVE  ReaderType'
  <1> USE SessionAssumption DEF TypeOK
  <1>1. CASE plain_frame
    BY <1>1 DEF ReaderType, plain_frame, Answer
  <1>2. CASE handle_hello
    BY <1>2 DEF ReaderType, handle_hello, Answer
  <1>3. ASSUME NEW valid \in BOOLEAN, handle_auth(valid) PROVE ReaderType'
    <2>1. auth_failures' \in 0 .. MaxAuthFailures
      BY <1>3 DEF ReaderType, Gate, handle_auth, NextFrame
    <2>2. (auth_failures' >= MaxAuthFailures) \in BOOLEAN
      OBVIOUS
    <2> QED
      BY <1>3, <2>1, <2>2 DEF ReaderType, handle_auth, Answer
  <1>4. ASSUME NEW from \in Offsets \cup {None}, handle_subscribe_slot(from) PROVE ReaderType'
    <2>1. CASE from = None
      BY <1>4, <2>1 DEF ReaderType, handle_subscribe_slot, Answer
    <2>2. CASE from # None
      BY <1>4, <2>2 DEF ReaderType, handle_subscribe_slot
    <2> QED
      BY <2>1, <2>2
  <1>5. CASE handle_publish_other
    BY <1>5 DEF ReaderType, handle_publish_other, get_with_resolve, resolve_topic, Topics
  <1>6. ASSUME NEW m \in Messages, handle_publish(m) PROVE ReaderType'
    <2>1. topic_cache' \in [name : Topics \cup {None}, resolved : Topics \cup {None}]
      BY <1>6 DEF ReaderType, handle_publish, get_with_resolve, resolve_topic, Topics
    <2>2. reader' = [reader EXCEPT !.pc = "publishing", !.msg = m] /\ UNCHANGED gate
      BY <1>6 DEF handle_publish
    <2> QED
      BY <2>1, <2>2 DEF ReaderType
  <1>7. CASE iterate_from \/ read_segments
    <2>1. CASE iterate_from
      <3>1. reader.msg \in Nat
        BY <2>1 DEF iterate_from, ReaderInv
      <3>2. Start(reader.msg) \in Nat
        BY <3>1, IndexFacts DEF BrokerType
      <3> QED
        BY <2>1, <3>2 DEF ReaderType, iterate_from
    <2>2. CASE read_segments
      <3>1. /\ log \in Seq(Messages \cup {Foreign}) /\ reader.start \in DOMAIN log
            /\ DOMAIN log = 1 .. Len(log) /\ Len(log) \in Nat
        BY <2>2, SeqFacts DEF ReadInv, read_segments, BrokerType
      <3>2. SubSeq(log, reader.start, Len(log)) \in Seq(Messages \cup {Foreign})
        BY <3>1, FromFacts
      <3> QED
        <4>1. PICK r \in Seq(Messages \cup {Foreign}) : r = SubSeq(log, reader.start, Len(log))
          BY <3>2
        <4>2. /\ \/ reader' = [reader EXCEPT !.pc = "replay", !.records = r]
                 \/ reader' = [reader EXCEPT !.pc = "send", !.msg = None, !.start = 0]
              /\ UNCHANGED <<gate, topic_cache>>
          BY <2>2, <4>1 DEF read_segments
        <4>3. CASE reader' = [reader EXCEPT !.pc = "replay", !.records = r]
          BY <4>1, <4>2, <4>3 DEF ReaderType
        <4>4. CASE reader' = [reader EXCEPT !.pc = "send", !.msg = None, !.start = 0]
          <5>1. 0 \in Nat
            OBVIOUS
          <5> QED
            BY <4>2, <4>4, <5>1 DEF ReaderType
        <4> QED
          BY <4>2, <4>3, <4>4
    <2> QED
      BY <1>7, <2>1, <2>2
  <1>8. CASE replay_next
    <2>1. Tail(reader.records) \in Seq(Messages \cup {Foreign})
      BY <1>8, TailFacts DEF ReaderType, replay_next
    <2> QED
      BY <1>8, <2>1 DEF ReaderType, replay_next
  <1>9. CASE replay_done
    BY <1>9 DEF ReaderType, replay_done
  <1>10. CASE published
    BY <1>10 DEF ReaderType, published
  <1>11. CASE send_inband
    BY <1>11 DEF ReaderType, send_inband
  <1>12. CASE hang_up
    BY <1>12 DEF ReaderType, hang_up
  <1>13. CASE UNCHANGED <<reader, hello_performed, authenticated, auth_failures, topic_cache>>
    BY <1>13 DEF ReaderType
  <1>14. CASE ignored_frame \/ (\E tag \in ClientTags : handle_ack(tag))
    BY <1>13, <1>14 DEF ignored_frame, handle_ack
  <1>15. CASE Writer
    BY <1>13, <1>15 DEF Writer, collect, flush, write_fails, wait_ready, wait_closed, last_write
  <1>16. CASE close \/ begin_shutdown \/ UNCHANGED vars
    BY <1>13, <1>16 DEF close, begin_shutdown, vars
  <1>17. CASE (\E m \in Others : publish(m)) \/ (\E m \in Messages : append_durable(m) \/ publish_inner(m))
              \/ append_foreign \/ (\E tag \in inflight : maintenance_tick(tag))
    BY <1>13, <1>17 DEF publish, append_durable, publish_inner, append_foreign, maintenance_tick
  <1>18. ASSUME NEW p \in Pushers, Pusher(p) PROVE ReaderType'
    BY <1>13, <1>18 DEF Pusher, encode, notify_one
  <1> QED
    BY <1>1, <1>2, <1>3, <1>4, <1>5, <1>6, <1>7, <1>8, <1>9, <1>10, <1>11, <1>12, <1>14, <1>15,
       <1>16, <1>17, <1>18 DEF Next, Frame, Reader, Publisher, Pushers, reader_stops

\* The batch takes no more responses than the channel holds.
LEMMA DrainedFacts ==
  ASSUME TypeOK, NEW size \in Nat
  PROVE  Drained(size) \in Nat /\ Drained(size) <= inband
  BY SessionAssumption DEF Drained, TypeOK, WriterType

\* What collect leaves in the two buffers.
LEMMA SwappedFacts ==
  ASSUME TypeOK
  PROVE  /\ Swapped[1] \in Buffers /\ Swapped[2] \in Buffers /\ Size(Swapped[2]) \in Nat
         /\ Swapped[1].r + Swapped[2].r = shared.r + local.r
         /\ local.d = <<>> => Swapped[2].d = shared.d /\ Swapped[1].d = <<>>
         /\ Swapped[2] = Empty => Swapped[1] = Empty
  <1>1. shared \in Buffers /\ local \in Buffers
    BY DEF TypeOK, WriterType
  <1>2. CASE shared # Empty
    <2>1. Swapped[1] = local /\ Swapped[2] = shared
      BY <1>2 DEF Swapped
    <2> QED
      BY <1>1, <1>2, <2>1 DEF Buffers, Size
  <1>3. CASE shared = Empty
    <2>1. Swapped[1] = shared /\ Swapped[2] = local
      BY <1>3 DEF Swapped
    <2> QED
      BY <1>1, <1>3, <2>1 DEF Buffers, Size, Empty
  <1> QED
    BY <1>2, <1>3

LEMMA WriterTypeStep ==
  ASSUME TypeOK, AnsweredOnce, PushInv, [Next]_vars
  PROVE  WriterType'
  <1> USE SessionAssumption DEF TypeOK
  <1>1. CASE send_inband
    BY <1>1 DEF WriterType, send_inband
  <1>2. CASE collect
    <2> DEFINE n == Drained(Size(Swapped[2]))
    <2>1. n \in Nat /\ n <= inband
      BY SwappedFacts, DrainedFacts
    <2> HIDE DEF n
    <2>2. local' = [Swapped[2] EXCEPT !.r = @ + n] /\ inband' = inband - n /\ shared' = Swapped[1]
      BY <1>2 DEF collect, n
    <2>3. local' \in Buffers /\ shared' \in Buffers
      <3>1. PICK b \in Buffers : b = Swapped[2]
        BY SwappedFacts
      <3>2. [b EXCEPT !.r = @ + n] \in Buffers
        BY <2>1 DEF Buffers
      <3> QED
        BY <2>2, <3>1, <3>2, SwappedFacts
    <2>4. inband' \in 0 .. InbandCapacity
      BY <2>1, <2>2 DEF WriterType
    <2> QED
      BY <1>2, <2>3, <2>4 DEF WriterType, collect
  <1>3. ASSUME writer \in {"flush", "last"}, wire' = wire \o local.d, outstanding' = outstanding - local.r,
               local' = Empty, writer' \in {"collect", "ended"},
               UNCHANGED <<shared, permit, broken, inband, sent>>
        PROVE  WriterType'
    <2>1. wire' \in Seq(Deliveries)
      BY <1>3, ConcatFacts DEF WriterType, Buffers
    <2>2. outstanding' \in Nat
      <3>1. inband \in Nat /\ shared.r \in Nat /\ local.r \in Nat /\ outstanding \in Nat
        BY DEF WriterType, Buffers
      <3>2. outstanding >= local.r
        BY <1>3, <3>1 DEF AnsweredOnce
      <3> QED
        BY <1>3, <3>1, <3>2
    <2>3. Empty \in Buffers
      BY DEF Empty, Buffers
    <2> QED
      BY <1>3, <2>1, <2>2, <2>3 DEF WriterType
  <1>4. CASE flush
    BY <1>3, <1>4 DEF flush
  <1>5. CASE last_write
    BY <1>3, <1>5 DEF last_write
  <1>6. CASE write_fails
    <2>1. PICK k \in 0 .. Len(local.d) : wire' = wire \o SubSeq(local.d, 1, k)
      BY <1>6 DEF write_fails
    <2>2. wire' \in Seq(Deliveries)
      BY <2>1, ConcatFacts, PartFacts DEF WriterType, Buffers
    <2>3. Empty \in Buffers
      BY DEF Empty, Buffers
    <2> QED
      BY <1>6, <2>2, <2>3 DEF WriterType, write_fails
  <1>7. CASE wait_ready
    <2>1. [Empty EXCEPT !.r = 1] \in Buffers
      <3>1. [Empty EXCEPT !.r = 1] = [d |-> <<>>, r |-> 1] /\ <<>> \in Seq(Deliveries)
        BY DEF Empty
      <3> QED
        BY <3>1 DEF Buffers
    <2>2. local' \in Buffers
      BY <1>7, <2>1 DEF WriterType, wait_ready
    <2>3. inband' = inband \/ (inband > 0 /\ inband' = inband - 1)
      BY <1>7 DEF wait_ready
    <2>4. inband' \in 0 .. InbandCapacity
      BY <2>3 DEF WriterType
    <2>5. permit' \in BOOLEAN
      BY <1>7 DEF WriterType, wait_ready
    <2> QED
      BY <1>7, <2>2, <2>4, <2>5 DEF WriterType, wait_ready
  <1>8. CASE wait_closed
    BY <1>8, SwappedFacts DEF WriterType, wait_closed
  <1>9. ASSUME NEW p \in Pushers, encode(p) PROVE WriterType'
    <2> DEFINE e == Delivery(push[p].msg, push[p].tag)
    <2>1. e \in Deliveries
      BY <1>9 DEF BrokerType, encode, Delivery, Deliveries, Pushes, PushInv
    <2> HIDE DEF e
    <2>2. \/ UNCHANGED <<shared, sent>>
          \/ shared' = [shared EXCEPT !.d = Append(@, e)] /\ sent' = Append(sent, e)
      BY <1>9 DEF encode, e
    <2>3. sent' \in Seq(Deliveries)
      <3>1. Append(sent, e) \in Seq(Deliveries)
        BY <2>1, AppendFacts DEF WriterType
      <3> QED
        BY <2>2, <3>1 DEF WriterType
    <2>4. shared' \in Buffers
      <3>1. Append(shared.d, e) \in Seq(Deliveries)
        BY <2>1, AppendFacts DEF WriterType, Buffers
      <3> QED
        BY <2>2, <3>1 DEF WriterType, Buffers
    <2> QED
      BY <1>9, <2>3, <2>4 DEF WriterType, encode
  <1>10. ASSUME NEW p \in Pushers, notify_one(p) PROVE WriterType'
    BY <1>10 DEF WriterType, notify_one
  <1>11. CASE UNCHANGED <<shared, local, wire, permit, broken, writer, inband, outstanding, sent>>
    BY <1>11 DEF WriterType
  <1>12. CASE Frame
    BY <1>11, <1>12 DEF Frame, plain_frame, ignored_frame, handle_hello, handle_auth,
       handle_subscribe_slot, handle_publish_other, handle_publish, handle_ack
  <1>13. CASE iterate_from \/ read_segments \/ replay_next \/ replay_done \/ published \/ hang_up
    BY <1>11, <1>13 DEF iterate_from, read_segments, replay_next, replay_done, published, hang_up
  <1>14. CASE close \/ begin_shutdown \/ UNCHANGED vars
    BY <1>11, <1>14 DEF close, begin_shutdown, vars
  <1>15. CASE (\E m \in Others : publish(m)) \/ (\E m \in Messages : append_durable(m) \/ publish_inner(m))
              \/ append_foreign \/ (\E tag \in inflight : maintenance_tick(tag))
    BY <1>11, <1>15 DEF publish, append_durable, publish_inner, append_foreign, maintenance_tick
  <1> QED
    BY <1>1, <1>2, <1>4, <1>5, <1>6, <1>7, <1>8, <1>9, <1>10, <1>12, <1>13, <1>14, <1>15
       DEF Next, Reader, Writer, Publisher, Pusher, Pushers, reader_stops

\* The pc of a publish or a push, and what it may change to.
LEMMA BrokerTypeStep ==
  ASSUME TypeOK, ReaderInv, PushInv, [Next]_vars
  PROVE  BrokerType'
  <1> USE SessionAssumption DEF TypeOK
  <1>1. ASSUME NEW from \in Offsets \cup {None}, handle_subscribe_slot(from) PROVE BrokerType'
    BY <1>1 DEF BrokerType, handle_subscribe_slot, Topics
  <1>2. ASSUME NEW m \in Messages, NEW resolved \in Topics \cup {None}, BeginPublish(m, resolved),
               UNCHANGED <<topics, subscribed, shutdown, closed, log, push, next_tag, inflight, settled,
                           offset, dropped>>
        PROVE  BrokerType'
    <2>1. ids' \in [Messages \cup {Foreign} -> Nat] /\ next_id' \in Nat
      BY <1>2 DEF BrokerType, BeginPublish
    <2>2. pub' \in [Messages -> Publishes]
      BY <1>2 DEF BrokerType, BeginPublish, Publishes
    <2>3. owed' \subseteq Messages
      BY <1>2 DEF BrokerType, BeginPublish
    <2> QED
      BY <1>2, <2>1, <2>2, <2>3 DEF BrokerType
  <1>3. ASSUME NEW m \in Messages, handle_publish(m) PROVE BrokerType'
    <2>1. get_with_resolve(SubTopic).resolved \in Topics \cup {None}
      BY DEF ReaderType, get_with_resolve, resolve_topic, Topics
    <2> QED
      BY <1>2, <1>3, <2>1 DEF handle_publish
  <1>4. ASSUME NEW m \in Others, publish(m) PROVE BrokerType'
    BY <1>2, <1>4 DEF publish
  <1>5. ASSUME NEW tag \in ClientTags, handle_ack(tag) PROVE BrokerType'
    BY <1>5 DEF BrokerType, handle_ack
  <1>6. ASSUME NEW p \in Pushers, NEW m \in Messages, StartPush(p, m),
               pub' \in [Messages -> Publishes],
               UNCHANGED <<topics, subscribed, shutdown, closed, wal, settled, offset, dropped, owed>>
        PROVE  BrokerType'
    <2>1. push' \in [Pushers -> Pushes]
      BY <1>6 DEF BrokerType, StartPush, Pushes
    <2>2. next_tag' \in Nat \ {0} /\ inflight' \subseteq Nat
      BY <1>6 DEF BrokerType, StartPush
    <2> QED
      BY <1>6, <2>1, <2>2 DEF BrokerType
  <1>7. CASE replay_next
    <2>1. CASE ToPush(Head(reader.records))
      <3>1. Head(reader.records) \in Messages /\ Replayer \in Pushers
        BY <1>7, <2>1, TailFacts DEF ReaderType, replay_next, Pushers, ToPush
      <3> QED
        BY <1>6, <1>7, <2>1, <3>1 DEF replay_next, BrokerType
    <2>2. CASE ~ ToPush(Head(reader.records))
      BY <1>7, <2>2 DEF replay_next, BrokerType
    <2> QED
      BY <2>1, <2>2
  <1>8. CASE replay_done
    BY <1>8 DEF BrokerType, replay_done, ReaderInv
  <1>9. ASSUME NEW m \in Messages, publish_inner(m) PROVE BrokerType'
    <2>1. pub' \in [Messages -> Publishes]
      <3>1. CASE pub' = [pub EXCEPT ![m].pc = "pushing"]
        BY <3>1 DEF BrokerType, Publishes
      <3>2. CASE Done(m)
        BY <3>2 DEF BrokerType, Done, Publishes
      <3> QED
        BY <1>9, <3>1, <3>2 DEF publish_inner
    <2>2. m \in Pushers
      BY DEF Pushers
    <2>3. CASE StartPush(m, m)
      BY <1>6, <1>9, <2>1, <2>2, <2>3 DEF publish_inner
    <2>4. CASE UNCHANGED <<push, next_tag, inflight>>
      BY <1>9, <2>1, <2>4 DEF publish_inner, BrokerType
    <2> QED
      BY <1>9, <2>3, <2>4 DEF publish_inner
  <1>10. ASSUME NEW p \in Pushers, Pusher(p) PROVE BrokerType'
    <2>1. pub' \in [Messages -> Publishes]
      <3>1. CASE pub' = pub
        BY <3>1 DEF BrokerType
      <3>2. CASE p \in Messages /\ Done(p)
        BY <3>2 DEF BrokerType, Done, Publishes
      <3> QED
        BY <1>10, <3>1, <3>2 DEF Pusher, encode, notify_one, Pushed
    <2>2. push' \in [Pushers -> Pushes]
      <3>1. CASE push' = [push EXCEPT ![p] = Idle]
        BY <3>1 DEF BrokerType, Idle, Pushes
      <3>2. CASE push' = [push EXCEPT ![p].pc = "notify"]
        BY <3>2 DEF BrokerType, Pushes
      <3> QED
        BY <1>10, <3>1, <3>2 DEF Pusher, encode, notify_one
    <2>3. inflight' \subseteq Nat
      BY <1>10 DEF BrokerType, Pusher, encode, notify_one
    <2>4. dropped' \subseteq Messages /\ owed' \subseteq Messages
      BY <1>10 DEF PushInv, BrokerType, Pusher, encode, notify_one
    <2> QED
      BY <1>10, <2>1, <2>2, <2>3, <2>4 DEF BrokerType, Pusher, encode, notify_one
  <1>11. CASE close \/ begin_shutdown
    BY <1>11 DEF BrokerType, close, begin_shutdown
  <1>12. CASE UNCHANGED <<topics, subscribed, wal, pub, push, next_tag, inflight, shutdown, closed,
                          offset, dropped, owed, settled>>
    BY <1>12 DEF BrokerType
  <1>13. CASE plain_frame \/ ignored_frame \/ handle_hello \/ (\E valid \in BOOLEAN : handle_auth(valid))
              \/ handle_publish_other
    BY <1>12, <1>13 DEF plain_frame, ignored_frame, handle_hello, handle_auth, handle_publish_other
  <1>14. CASE iterate_from \/ read_segments \/ published \/ send_inband \/ hang_up
    BY <1>12, <1>14 DEF iterate_from, read_segments, published, send_inband, hang_up
  <1>15. CASE Writer
    BY <1>12, <1>15 DEF Writer, collect, flush, write_fails, wait_ready, wait_closed, last_write
  <1>16. CASE UNCHANGED vars
    BY <1>12, <1>16 DEF vars
  <1>17. ASSUME NEW m \in Messages, append_durable(m) PROVE BrokerType'
    <2>1. log' \in Seq(Messages \cup {Foreign})
      <3>1. Append(log, m) \in Seq(Messages \cup {Foreign})
        BY AppendFacts DEF BrokerType
      <3>2. log' = log \/ log' = Append(log, m)
        BY <1>17 DEF append_durable
      <3> QED
        BY <3>1, <3>2 DEF BrokerType
    <2>2. pub' \in [Messages -> Publishes]
      <3>1. PICK pc \in {"fanout", "failed"} : pub' = [pub EXCEPT ![m].pc = pc]
        BY <1>17 DEF append_durable
      <3> QED
        BY <3>1 DEF BrokerType, Publishes
    <2> QED
      BY <1>17, <2>1, <2>2 DEF BrokerType, append_durable
  <1>18. CASE append_foreign
    <2>1. log' \in Seq(Messages \cup {Foreign})
      BY <1>18, AppendFacts DEF BrokerType, append_foreign
    <2> QED
      BY <1>18, <2>1 DEF BrokerType, append_foreign
  <1>19. ASSUME NEW tag \in inflight, maintenance_tick(tag) PROVE BrokerType'
    BY <1>19 DEF BrokerType, maintenance_tick
  <1> QED
    BY <1>1, <1>3, <1>4, <1>5, <1>7, <1>8, <1>9, <1>10, <1>11, <1>13, <1>14, <1>15, <1>16, <1>17,
       <1>18, <1>19
       DEF Next, Frame, Reader, Publisher, Pushers, reader_stops

-----------------------------------------------------------------------------
(* HELLO, AUTH and what the reader awaits.                                 *)

LEMMA ReaderStep ==
  ASSUME TypeOK, ReaderInv, Gate, [Next]_vars
  PROVE  ReaderInv' /\ Gate'
  <1> USE SessionAssumption
  <1>0. /\ reader \in [pc : {"read", "iterate", "segments", "replay", "publishing", "send", "ended"},
                       msg : Messages \cup Offsets \cup {None}, start : Nat,
                       records : Seq(Messages \cup {Foreign}), fatal : BOOLEAN]
        /\ auth_failures \in Nat /\ MaxAuthFailures \in Nat \ {0}
    BY DEF TypeOK, ReaderType
  <1>1. CASE plain_frame
    BY <1>0, <1>1 DEF ReaderInv, Gate, plain_frame, NextFrame, Answer
  <1>2. CASE handle_hello
    BY <1>0, <1>2 DEF ReaderInv, Gate, handle_hello, NextFrame, Answer
  <1>3. ASSUME NEW valid \in BOOLEAN, handle_auth(valid) PROVE ReaderInv' /\ Gate'
    <2>1. /\ reader'.pc = "send" /\ reader'.fatal = (auth_failures' >= MaxAuthFailures)
          /\ hello_performed /\ ~authenticated
          /\ hello_performed' /\ UNCHANGED <<subscribed, settled, topic_cache>>
      BY <1>0, <1>3 DEF handle_auth, Answer
    <2>2. reader.pc = "read"
      BY <1>3 DEF handle_auth, NextFrame
    <2> QED
      BY <2>1, <2>2 DEF ReaderInv, Gate
  <1>4. ASSUME NEW from \in Offsets \cup {None}, handle_subscribe_slot(from) PROVE ReaderInv' /\ Gate'
    <2>1. /\ reader.pc = "read" /\ authenticated
          /\ \/ reader'.pc = "send"
             \/ reader'.pc = "iterate" /\ reader'.msg = from /\ from \in Offsets
          /\ UNCHANGED <<hello_performed, authenticated, auth_failures, settled, topic_cache>>
      BY <1>0, <1>4 DEF handle_subscribe_slot, NextFrame, Answer
    <2> QED
      BY <2>1 DEF ReaderInv, Gate
  <1>5. CASE handle_publish_other
    BY <1>0, <1>5 DEF ReaderInv, Gate, handle_publish_other, NextFrame
  <1>6. ASSUME NEW m \in Messages, handle_publish(m) PROVE ReaderInv' /\ Gate'
    <2>1. /\ reader.pc = "read" /\ authenticated
          /\ reader'.pc = "publishing" /\ reader'.msg = m
          /\ UNCHANGED <<hello_performed, authenticated, auth_failures, settled, subscribed>>
      BY <1>0, <1>6 DEF handle_publish, NextFrame
    <2> QED
      BY <2>1 DEF ReaderInv, Gate
  <1>7. ASSUME NEW tag \in ClientTags, handle_ack(tag) PROVE ReaderInv' /\ Gate'
    BY <1>7 DEF ReaderInv, Gate, handle_ack
  <1>19. ASSUME NEW tag \in inflight, maintenance_tick(tag) PROVE ReaderInv' /\ Gate'
    BY <1>19 DEF ReaderInv, Gate, maintenance_tick
  <1>8. CASE iterate_from \/ read_segments
    <2>1. /\ reader.pc \in {"iterate", "segments"}
          /\ \/ reader'.pc = "send"
             \/ reader'.pc \in {"segments", "replay"} /\ reader'.msg = reader.msg
          /\ UNCHANGED <<hello_performed, authenticated, auth_failures, settled, subscribed, topic_cache>>
      BY <1>0, <1>8 DEF iterate_from, read_segments
    <2> QED
      BY <2>1 DEF ReaderInv, Gate
  <1>9. CASE replay_next
    <2>1. /\ reader'.pc = reader.pc /\ reader'.msg = reader.msg /\ reader'.fatal = reader.fatal
          /\ UNCHANGED <<hello_performed, authenticated, auth_failures, settled, subscribed, topic_cache>>
      BY <1>0, <1>9 DEF replay_next
    <2> QED
      BY <2>1 DEF ReaderInv, Gate
  <1>10. CASE replay_done \/ published
    <2>1. /\ reader.pc \in {"replay", "publishing"}
          /\ reader'.pc \in {"read", "send"}
          /\ UNCHANGED <<hello_performed, authenticated, auth_failures, settled, subscribed, topic_cache>>
      BY <1>0, <1>10 DEF replay_done, published
    <2> QED
      BY <2>1 DEF ReaderInv, Gate
  <1>11. CASE send_inband
    <2>1. /\ reader.pc = "send"
          /\ reader'.pc = "ended" \/ (reader'.pc = "read" /\ ~reader.fatal)
          /\ UNCHANGED <<hello_performed, authenticated, auth_failures, settled, subscribed, topic_cache>>
      BY <1>0, <1>11 DEF send_inband
    <2> QED
      BY <2>1 DEF ReaderInv, Gate
  <1>12. CASE hang_up
    BY <1>0, <1>12 DEF ReaderInv, Gate, hang_up
  <1>13. CASE close
    BY <1>13 DEF ReaderInv, Gate, close
  <1>14. CASE UNCHANGED <<reader, hello_performed, authenticated, auth_failures, topic_cache,
                          subscribed, settled>>
    BY <1>14 DEF ReaderInv, Gate
  <1>15. CASE ignored_frame \/ begin_shutdown \/ UNCHANGED vars
    BY <1>14, <1>15 DEF ignored_frame, begin_shutdown, vars
  <1>16. CASE Writer
    BY <1>14, <1>16 DEF Writer, collect, flush, write_fails, wait_ready, wait_closed, last_write
  <1>17. CASE (\E m \in Others : publish(m)) \/ (\E m \in Messages : append_durable(m) \/ publish_inner(m)) \/ append_foreign
    BY <1>14, <1>17 DEF publish, append_durable, publish_inner, append_foreign
  <1>18. ASSUME NEW p \in Pushers, Pusher(p) PROVE ReaderInv' /\ Gate'
    BY <1>14, <1>18 DEF Pusher, encode, notify_one
  <1> QED
    BY <1>1, <1>2, <1>3, <1>4, <1>5, <1>6, <1>7, <1>8, <1>9, <1>10, <1>11, <1>12, <1>13, <1>15,
       <1>16, <1>17, <1>18, <1>19 DEF Next, Frame, Reader, Publisher, Pushers, reader_stops

-----------------------------------------------------------------------------
(* The buffers and the writer.                                             *)

\* What is written, wholly or in part, is a prefix of what is on its way.
LEMMA FlowFacts ==
  ASSUME TypeOK
  PROVE  /\ Flow \in Seq(Deliveries)
         /\ Flow = wire \o (local.d \o shared.d)
         /\ \A k \in 0 .. Len(local.d) : IsPrefix(wire \o SubSeq(local.d, 1, k), Flow)
         /\ IsPrefix(wire, Flow) /\ IsPrefix(wire \o local.d, Flow)
  <1> DEFINE a == wire
             b == local.d
             c == shared.d
  <1>1. a \in Seq(Deliveries) /\ b \in Seq(Deliveries) /\ c \in Seq(Deliveries)
    BY DEF TypeOK, WriterType, Buffers
  <1>2. Flow = (a \o b) \o c
    BY DEF Flow
  <1> HIDE DEF a, b, c
  <1>3. (a \o b) \o c = a \o (b \o c)
    BY <1>1
  <1>4. (a \o b) \o c \in Seq(Deliveries) /\ IsPrefix(a \o b, (a \o b) \o c)
        /\ IsPrefix(a, a \o (b \o c))
    BY <1>1, ConcatFacts, PrefixFacts
  <1>5. ASSUME NEW k \in 0 .. Len(b) PROVE IsPrefix(a \o SubSeq(b, 1, k), (a \o b) \o c)
    <2> DEFINE x == SubSeq(b, 1, k)
               y == SubSeq(b, k + 1, Len(b))
    <2>1. x \in Seq(Deliveries) /\ y \in Seq(Deliveries) /\ b = x \o y
      BY <1>1, PartFacts, SplitFacts
    <2> HIDE DEF x, y
    <2>2. (a \o b) \o c = (a \o x) \o (y \o c)
      <3>1. ASSUME NEW u \in Seq(Deliveries), NEW v \in Seq(Deliveries), NEW w \in Seq(Deliveries)
            PROVE  (u \o v) \o w = u \o (v \o w)
        OBVIOUS
      <3>2. a \o x \in Seq(Deliveries)
        BY <1>1, <2>1, ConcatFacts
      <3>3. a \o (x \o y) = (a \o x) \o y
        BY <1>1, <2>1, <3>1, Zenon
      <3>4. ((a \o x) \o y) \o c = (a \o x) \o (y \o c)
        BY <1>1, <2>1, <3>1, <3>2, Zenon
      <3> QED
        BY <2>1, <3>3, <3>4, Zenon
    <2>3. IsPrefix(a \o x, (a \o x) \o (y \o c))
      BY <1>1, <2>1, ConcatFacts, PrefixFacts
    <2> QED
      BY <2>2, <2>3 DEF x
  <1> QED
    BY <1>2, <1>3, <1>4, <1>5 DEF a, b, c

BufferVars == <<shared, local, wire, writer, inband, outstanding, sent>>

LEMMA SendBuffer ==
  ASSUME TypeOK, BufferInv, send_inband
  PROVE  BufferInv'
  <1>1. /\ UNCHANGED <<shared, local, wire, writer, sent>>
        /\ \/ inband' = inband + 1 /\ outstanding' = outstanding + 1
           \/ writer = "ended" /\ UNCHANGED <<inband, outstanding>>
    BY DEF send_inband
  <1>2. AnsweredOnce'
    <2> DEFINE sr == shared.r
               lr == local.r
    <2>1. sr \in Nat /\ lr \in Nat /\ inband \in Nat /\ (writer # "ended" => lr + sr + inband = outstanding)
      BY DEF AnsweredOnce, BufferInv, TypeOK, WriterType, Buffers
    <2>2. local'.r = lr /\ shared'.r = sr /\ writer' = writer
      BY <1>1
    <2> HIDE DEF sr, lr
    <2>3. writer # "ended" => lr + sr + inband' = outstanding'
      BY <1>1, <2>1
    <2> QED
      BY <2>2, <2>3 DEF AnsweredOnce
  <1> QED
    BY <1>1, <1>2 DEF BufferInv, LocalEmpty, InOrderOnce, Flow

LEMMA CollectBuffer ==
  ASSUME TypeOK, BufferInv, collect
  PROVE  /\ BufferInv'
         /\ writer' = "wait" => shared' = Empty
  <1> DEFINE n == Drained(Size(Swapped[2]))
             a == Swapped[1]
             b == Swapped[2]
  <1>1. n \in Nat /\ n <= inband
    BY SwappedFacts, DrainedFacts
  <1>2. /\ writer = "collect" /\ shared' = a
        /\ local' = [b EXCEPT !.r = @ + n] /\ inband' = inband - n
        /\ writer' = IF local' # Empty THEN "flush" ELSE "wait"
        /\ UNCHANGED <<wire, outstanding, sent>>
    BY DEF collect
  <1>3. /\ local.d = <<>> /\ wire \o local.d \o shared.d = sent
        /\ local.r + shared.r + inband = outstanding
    BY <1>2 DEF BufferInv, LocalEmpty, InOrderOnce, Flow, AnsweredOnce
  <1>4. /\ a \in Buffers /\ b \in Buffers /\ a.r + b.r = shared.r + local.r
        /\ b.d = shared.d /\ a.d = <<>>
        /\ b = Empty => a = Empty
    BY <1>3, SwappedFacts
  <1>5. /\ wire \in Seq(Deliveries) /\ shared.d \in Seq(Deliveries) /\ inband \in Nat
        /\ shared.r \in Nat /\ local.r \in Nat /\ outstanding \in Nat
    BY DEF TypeOK, WriterType, Buffers
  <1> HIDE DEF n, a, b
  <1>6. /\ local'.d = shared.d /\ local'.r = b.r + n /\ shared'.d = <<>> /\ shared'.r = a.r
        /\ a.r \in Nat /\ b.r \in Nat
    BY <1>1, <1>2, <1>4 DEF Buffers
  <1>7. wire \o local'.d \o shared'.d = sent
    BY <1>3, <1>5, <1>6
  <1>8. local'.r + shared'.r + inband' = outstanding
    <2> DEFINE ar == a.r
               br == b.r
               sr == shared.r
               lr == local.r
    <2>1. /\ ar \in Nat /\ br \in Nat /\ sr \in Nat /\ lr \in Nat
          /\ ar + br = sr + lr /\ lr + sr + inband = outstanding
      BY <1>3, <1>4, <1>5, <1>6
    <2>2. local'.r = br + n /\ shared'.r = ar
      BY <1>6
    <2> HIDE DEF ar, br, sr, lr
    <2>3. br + n + ar + (inband - n) = outstanding
      BY <1>1, <1>5, <2>1
    <2> QED
      BY <1>2, <2>2, <2>3
  <1>9. writer' = "wait" => local'.d = <<>> /\ local'.r = 0 /\ shared' = Empty
    <2> SUFFICES ASSUME writer' = "wait" PROVE local'.d = <<>> /\ local'.r = 0 /\ shared' = Empty
      OBVIOUS
    <2>1. local' = Empty
      BY <1>2
    <2>2. local'.d = <<>> /\ local'.r = 0
      BY <2>1 DEF Empty
    <2>3. b.d = <<>> /\ b.r = 0
      BY <1>1, <1>4, <1>6, <2>2
    <2>4. b = Empty
      BY <1>4, <2>3 DEF Buffers, Empty
    <2> QED
      BY <1>2, <1>4, <2>2, <2>4
  <1>10. writer' \in {"flush", "wait"}
    BY <1>2
  <1> QED
    BY <1>2, <1>7, <1>8, <1>9, <1>10 DEF BufferInv, LocalEmpty, InOrderOnce, Flow, AnsweredOnce

\* flush and last_write
LEMMA WriteBuffer ==
  ASSUME TypeOK, BufferInv, flush \/ last_write
  PROVE  BufferInv'
  <1>1. /\ writer \in {"flush", "last"} /\ writer' \in {"collect", "ended"}
        /\ wire' = wire \o local.d /\ outstanding' = outstanding - local.r
        /\ local' = Empty /\ UNCHANGED <<shared, inband, sent>>
    BY DEF flush, last_write
  <1>2. Flow = sent /\ local.r + shared.r + inband = outstanding
    BY <1>1 DEF BufferInv, InOrderOnce, AnsweredOnce
  <1>3. /\ wire \in Seq(Deliveries) /\ shared.d \in Seq(Deliveries) /\ local.d \in Seq(Deliveries)
        /\ inband \in Nat /\ shared.r \in Nat /\ local.r \in Nat /\ outstanding \in Nat
    BY DEF TypeOK, WriterType, Buffers
  <1>4. local'.d = <<>> /\ local'.r = 0
    BY <1>1 DEF Empty
  <1>5. wire' \o local'.d \o shared'.d = sent'
    <2>1. wire \o local.d \in Seq(Deliveries)
      BY <1>3, ConcatFacts
    <2>2. (wire \o local.d) \o <<>> = wire \o local.d
      BY <2>1
    <2> QED
      BY <1>1, <1>2, <1>4, <2>2 DEF Flow
  <1>6. local'.r + shared'.r + inband' = outstanding'
    BY <1>1, <1>2, <1>3, <1>4
  <1>7. IsPrefix(wire', sent')
    BY <1>1, <1>2, FlowFacts
  <1> QED
    BY <1>1, <1>4, <1>5, <1>6, <1>7 DEF BufferInv, LocalEmpty, InOrderOnce, Flow, AnsweredOnce

LEMMA FailBuffer ==
  ASSUME TypeOK, BufferInv, write_fails
  PROVE  BufferInv'
  <1>1. /\ writer \in {"flush", "last"} /\ writer' = "ended" /\ local' = Empty
        /\ UNCHANGED <<shared, inband, sent, outstanding>>
    BY DEF write_fails
  <1>2. PICK k \in 0 .. Len(local.d) : wire' = wire \o SubSeq(local.d, 1, k)
    BY DEF write_fails
  <1>3. Flow = sent
    BY <1>1 DEF BufferInv, InOrderOnce
  <1>4. IsPrefix(wire', sent')
    BY <1>1, <1>2, <1>3, FlowFacts
  <1> QED
    BY <1>1, <1>4 DEF BufferInv, LocalEmpty, InOrderOnce, AnsweredOnce, Empty

LEMMA WaitBuffer ==
  ASSUME TypeOK, BufferInv, wait_ready
  PROVE  BufferInv'
  <1>1. /\ writer = "wait" /\ UNCHANGED <<shared, wire, sent, outstanding>>
        /\ \/ writer' = "ended" /\ UNCHANGED <<inband, local>>
           \/ writer' = "collect" /\ UNCHANGED <<inband, local>>
           \/ writer' = "collect" /\ local' = [Empty EXCEPT !.r = 1] /\ inband' = inband - 1
    BY DEF wait_ready
  <1>2. local.d = <<>> /\ local.r = 0 /\ Flow = sent /\ local.r + shared.r + inband = outstanding
    BY <1>1 DEF BufferInv, LocalEmpty, InOrderOnce, AnsweredOnce
  <1>3. /\ local'.d = <<>>
        /\ local'.r + inband' = local.r + inband
    <2>1. [Empty EXCEPT !.r = 1].d = <<>> /\ [Empty EXCEPT !.r = 1].r = 1
      BY DEF Empty
    <2>2. inband \in Nat
      BY DEF TypeOK, WriterType
    <2>3. CASE UNCHANGED <<inband, local>>
      BY <1>2, <2>3
    <2>4. CASE local' = [Empty EXCEPT !.r = 1] /\ inband' = inband - 1
      <3>1. local'.d = <<>> /\ local'.r = 1
        BY <2>1, <2>4
      <3> QED
        BY <1>2, <2>2, <2>4, <3>1
    <2> QED
      BY <1>1, <2>3, <2>4
  <1>4. Flow' = sent' /\ IsPrefix(wire', sent')
    BY <1>1, <1>2, <1>3, FlowFacts DEF Flow
  <1>5. writer' # "ended" => local'.r + shared'.r + inband' = outstanding'
    <2>1. local'.r \in Nat /\ inband' \in Int /\ shared.r \in Nat /\ local.r \in Nat /\ inband \in Nat
      BY <1>1, <1>2 DEF TypeOK, WriterType, Buffers, Empty
    <2> QED
      BY <1>1, <1>2, <1>3, <2>1
  <1> QED
    BY <1>1, <1>3, <1>4, <1>5 DEF BufferInv, LocalEmpty, InOrderOnce, AnsweredOnce

LEMMA ClosedBuffer ==
  ASSUME TypeOK, BufferInv, wait_closed
  PROVE  BufferInv'
  <1>1. /\ writer = "wait" /\ writer' = "last" /\ shared' = Swapped[1] /\ local' = Swapped[2]
        /\ UNCHANGED <<inband, wire, sent, outstanding>>
    BY DEF wait_closed
  <1>2. local.d = <<>> /\ local.r = 0 /\ Flow = sent /\ local.r + shared.r + inband = outstanding
    BY <1>1 DEF BufferInv, LocalEmpty, InOrderOnce, AnsweredOnce
  <1>3. /\ shared'.r + local'.r = shared.r + local.r
        /\ local'.d = shared.d /\ shared'.d = <<>>
        /\ shared' \in Buffers /\ local' \in Buffers
    BY <1>1, <1>2, SwappedFacts
  <1>4. wire \in Seq(Deliveries) /\ shared.d \in Seq(Deliveries)
    BY DEF TypeOK, WriterType, Buffers
  <1>5. Flow' = sent'
    BY <1>1, <1>2, <1>3, <1>4 DEF Flow
  <1>6. local'.r + shared'.r + inband' = outstanding'
    <2>1. /\ local'.r \in Nat /\ shared'.r \in Nat
          /\ shared.r \in Nat /\ local.r \in Nat /\ inband \in Nat
      BY <1>3 DEF TypeOK, WriterType, Buffers
    <2> QED
      BY <1>1, <1>2, <1>3, <2>1
  <1> QED
    BY <1>1, <1>5, <1>6 DEF BufferInv, LocalEmpty, InOrderOnce, AnsweredOnce

LEMMA EncodeBuffer ==
  ASSUME TypeOK, PushInv, BufferInv, NEW p \in Pushers, encode(p)
  PROVE  BufferInv'
  <1> DEFINE e == Delivery(push[p].msg, push[p].tag)
  <1>1. e \in Deliveries
    BY DEF TypeOK, BrokerType, encode, Delivery, Deliveries, Pushes, PushInv
  <1> HIDE DEF e
  <1>2. /\ UNCHANGED <<local, wire, writer, inband, outstanding>>
        /\ \/ UNCHANGED <<shared, sent>>
           \/ shared' = [shared EXCEPT !.d = Append(@, e)] /\ sent' = Append(sent, e)
    BY DEF encode, e
  <1>3. CASE UNCHANGED <<shared, sent>>
    BY <1>2, <1>3 DEF BufferInv, LocalEmpty, InOrderOnce, AnsweredOnce, Flow
  <1>4. CASE shared' = [shared EXCEPT !.d = Append(@, e)] /\ sent' = Append(sent, e)
    <2>1. /\ wire \in Seq(Deliveries) /\ sent \in Seq(Deliveries)
          /\ local.d \in Seq(Deliveries) /\ shared.d \in Seq(Deliveries)
          /\ shared'.d = Append(shared.d, e) /\ shared'.r = shared.r
      BY <1>4 DEF TypeOK, WriterType, Buffers
    <2>2. (wire \o local.d) \o Append(shared.d, e) = Append((wire \o local.d) \o shared.d, e)
      <3> DEFINE a == wire \o local.d
                 c == shared.d
      <3>1. a \in Seq(Deliveries) /\ c \in Seq(Deliveries)
        BY <2>1, ConcatFacts
      <3> HIDE DEF a, c
      <3>2. a \o Append(c, e) = Append(a \o c, e)
        BY <1>1, <3>1
      <3> QED
        BY <3>2 DEF a, c
    <2>3. writer # "ended" => Flow' = sent'
      BY <1>2, <1>4, <2>1, <2>2 DEF BufferInv, InOrderOnce, Flow
    <2>4. writer = "ended" => IsPrefix(wire', sent')
      BY <1>1, <1>2, <1>4, <2>1, PrefixAppend DEF BufferInv, InOrderOnce
    <2> QED
      BY <1>2, <2>1, <2>3, <2>4 DEF BufferInv, LocalEmpty, InOrderOnce, AnsweredOnce
  <1> QED
    BY <1>2, <1>3, <1>4

LEMMA BufferStep ==
  ASSUME TypeOK, PushInv, BufferInv, [Next]_vars
  PROVE  BufferInv'
  <1>1. CASE UNCHANGED BufferVars
    BY <1>1 DEF BufferVars, BufferInv, LocalEmpty, InOrderOnce, AnsweredOnce, Flow
  <1>2. CASE Frame
    BY <1>1, <1>2 DEF BufferVars, Frame, plain_frame, ignored_frame, handle_hello, handle_auth,
       handle_subscribe_slot, handle_publish_other, handle_publish, handle_ack
  <1>3. CASE iterate_from \/ read_segments \/ replay_next \/ replay_done \/ published \/ hang_up
    BY <1>1, <1>3 DEF BufferVars, iterate_from, read_segments, replay_next, replay_done, published, hang_up
  <1>4. CASE close \/ begin_shutdown \/ UNCHANGED vars
    BY <1>1, <1>4 DEF BufferVars, close, begin_shutdown, vars
  <1>5. CASE (\E m \in Others : publish(m)) \/ (\E m \in Messages : append_durable(m) \/ publish_inner(m))
              \/ append_foreign \/ (\E tag \in inflight : maintenance_tick(tag))
    BY <1>1, <1>5 DEF BufferVars, publish, append_durable, publish_inner, append_foreign, maintenance_tick
  <1>6. ASSUME NEW p \in Pushers, notify_one(p) PROVE BufferInv'
    BY <1>1, <1>6 DEF BufferVars, notify_one
  <1> QED
    BY <1>2, <1>3, <1>4, <1>5, <1>6, SendBuffer, CollectBuffer, WriteBuffer, FailBuffer, WaitBuffer,
       ClosedBuffer, EncodeBuffer DEF Next, Reader, Writer, Publisher, Pusher, Pushers, reader_stops

-----------------------------------------------------------------------------
(* Publishes and their pushes.                                             *)

\* A publish is at its push while the push is under way; what a pusher is about
\* to announce was encoded; and the replay's pushes are made by the reader.
PublishInv ==
  /\ \A m \in Messages : pub[m].pc = "pushing" <=> push[m].pc # "idle"
  /\ \A p \in Pushers : push[p].pc = "notify" => InSent(push[p].msg)
  /\ push[Replayer].pc # "idle" => reader.pc = "replay"

\* What was sent stays sent.
LEMMA SentFacts ==
  ASSUME TypeOK, PushInv, NEW p \in Pushers, encode(p)
  PROVE  /\ \A m : InSent(m) => InSent(m)'
         /\ push'[p].pc = "notify" => InSent(push[p].msg)' /\ push'[p].msg = push[p].msg
         /\ \/ push'[p].pc = "notify" /\ pub' = pub
            \/ push'[p].pc = "idle" /\ Pushed(p) /\ dropped' = dropped \cup {push[p].msg}
         /\ \A q \in Pushers : q # p => push'[q] = push[q]
         /\ push[p].pc = "encode" /\ p \in DOMAIN push'
         /\ dropped \subseteq dropped'
  <1> DEFINE e == Delivery(push[p].msg, push[p].tag)
  <1>1. e \in Deliveries /\ e.msg = push[p].msg /\ sent \in Seq(Deliveries)
    BY DEF TypeOK, BrokerType, WriterType, encode, Delivery, Deliveries, Pushes, PushInv
  <1>2. push \in [Pushers -> Pushes]
    BY DEF TypeOK, BrokerType
  <1>3. CASE Size(shared) >= SlotLimit
    <2>1. /\ sent' = sent /\ push' = [push EXCEPT ![p] = Idle] /\ push[p].pc = "encode"
          /\ Pushed(p) /\ dropped' = dropped \cup {push[p].msg}
      BY <1>3 DEF encode
    <2> QED
      BY <1>2, <2>1 DEF Idle, InSent
  <1>4. CASE ~ (Size(shared) >= SlotLimit)
    <2>1. /\ sent' = Append(sent, e) /\ push' = [push EXCEPT ![p].pc = "notify"] /\ push[p].pc = "encode"
          /\ pub' = pub /\ dropped' = dropped
      BY <1>4 DEF encode
    <2> HIDE DEF e
    <2>2. /\ Len(sent') = Len(sent) + 1 /\ sent'[Len(sent) + 1] = e
          /\ \A i \in 1 .. Len(sent) : sent'[i] = sent[i]
          /\ DOMAIN sent = 1 .. Len(sent) /\ DOMAIN sent' = 1 .. Len(sent') /\ Len(sent) \in Nat
      BY <1>1, <2>1, AppendFacts, SeqFacts
    <2>3. \A m : InSent(m) => InSent(m)'
      BY <2>2 DEF InSent
    <2>4. ASSUME NEW m, m = e.msg PROVE InSent(m)'
      BY <2>2, <2>4 DEF InSent
    <2>5. InSent(push[p].msg)'
      <3>1. push'[p].msg = push[p].msg
        BY <1>2, <2>1 DEF Pushes
      <3> QED
        BY <1>1, <2>4, <3>1 DEF InSent
    <2> QED
      BY <1>2, <2>1, <2>3, <2>5 DEF Pushes
  <1> QED
    BY <1>3, <1>4

\* What the steps other than encode do to publishes and pushes.
LEMMA StartFacts ==
  ASSUME TypeOK, NEW p \in Pushers, NEW m \in Messages, StartPush(p, m)
  PROVE  /\ push'[p].pc = "encode" /\ push'[p].msg = m
         /\ \A q \in Pushers : q # p => push'[q] = push[q]
  BY DEF TypeOK, BrokerType, StartPush

LEMMA NotifyFacts ==
  ASSUME TypeOK, NEW p \in Pushers, notify_one(p)
  PROVE  /\ push'[p].pc = "idle" /\ push[p].pc = "notify"
         /\ \A q \in Pushers : q # p => push'[q] = push[q]
         /\ Pushed(p) /\ UNCHANGED <<reader, sent>>
  BY DEF TypeOK, BrokerType, notify_one, Idle

LEMMA PushedFacts ==
  ASSUME TypeOK, NEW p \in Pushers, Pushed(p)
  PROVE  /\ p \in Messages => pub'[p].pc = "done"
         /\ \A m \in Messages : m # p => pub'[m] = pub[m]
  <1>1. CASE p \in Messages
    BY <1>1 DEF TypeOK, BrokerType, Pushed, Done
  <1>2. CASE p \notin Messages
    BY <1>2 DEF Pushed
  <1> QED
    BY <1>1, <1>2

LEMMA BeginFacts ==
  ASSUME TypeOK, NEW m \in Messages, NEW resolved, BeginPublish(m, resolved)
  PROVE  /\ pub[m].pc = "idle" /\ pub'[m].pc \in {"append", "fanout", "failed"}
         /\ pub'[m].resolved = resolved
         /\ \A n \in Messages : n # m => pub'[n] = pub[n]
         /\ \A x \in Messages \cup {Foreign} : x # m => ids'[x] = ids[x]
         /\ owed' = IF subscribed THEN owed \cup {m} ELSE owed
  BY DEF TypeOK, BrokerType, BeginPublish

\* append_durable: the record is added at the end of the log, or the append failed.
LEMMA AppendedFacts ==
  ASSUME TypeOK, NEW m \in Messages, append_durable(m)
  PROVE  /\ pub[m].pc = "append" /\ pub'[m].pc \in {"fanout", "failed"}
         /\ pub'[m].resolved = pub[m].resolved
         /\ \A n \in Messages : n # m => pub'[n] = pub[n]
         /\ log' = log \/ log' = Append(log, m)
         /\ UNCHANGED <<reader, gate, topic_cache, inband, slot, wside, topics, subscribed,
                        ids, next_id, push, next_tag, inflight, ends, history>>
  <1>1. pub \in [Messages -> Publishes]
    BY DEF TypeOK, BrokerType
  <1>2. PICK pc \in {"fanout", "failed"} : pub' = [pub EXCEPT ![m].pc = pc]
    BY DEF append_durable
  <1>3. pub'[m].pc = pc /\ pub'[m].resolved = pub[m].resolved /\ \A n \in Messages : n # m => pub'[n] = pub[n]
    BY <1>1, <1>2 DEF Publishes
  <1>4. pub[m].pc = "append" /\ (log' = log \/ log' = Append(log, m))
    BY DEF append_durable
  <1> QED
    BY <1>3, <1>4 DEF append_durable

\* publish_inner: the fan-out pushes to the subscriber, or finds none.
LEMMA FanoutFacts ==
  ASSUME TypeOK, NEW m \in Messages, publish_inner(m)
  PROVE  /\ pub[m].pc = "fanout"
         /\ \A n \in Messages : n # m => pub'[n] = pub[n]
         /\ pub'[m].resolved \in {None, pub[m].resolved}
         /\ \/ StartPush(m, m) /\ pub'[m].pc = "pushing"
            \/ /\ pub'[m].pc = "done" /\ UNCHANGED <<push, next_tag, inflight>>
               /\ ~ (~shutdown /\ subscribed /\ Found(m) = SubTopic /\ SubTopic \in topics)
         /\ UNCHANGED <<reader, sent, log, subscribed, topics, topic_cache, ends, offset, dropped, owed>>
  <1>1. pub \in [Messages -> Publishes]
    BY DEF TypeOK, BrokerType
  <1>2. CASE ~shutdown /\ subscribed /\ Found(m) = SubTopic /\ SubTopic \in topics
    BY <1>1, <1>2 DEF publish_inner, Publishes
  <1>3. CASE ~ (~shutdown /\ subscribed /\ Found(m) = SubTopic /\ SubTopic \in topics)
    BY <1>1, <1>3 DEF publish_inner, Done
  <1> QED
    BY <1>2, <1>3

PushVars == <<pub, push, sent>>

LEMMA PublishStep ==
  ASSUME TypeOK, PushInv, PublishInv, [Next]_vars
  PROVE  PushInv' /\ PublishInv'
  <1> USE SessionAssumption
  <1>0. /\ reader \in [pc : {"read", "iterate", "segments", "replay", "publishing", "send", "ended"},
                       msg : Messages \cup Offsets \cup {None}, start : Nat,
                       records : Seq(Messages \cup {Foreign}), fatal : BOOLEAN]
        /\ Messages \subseteq Pushers /\ Replayer \in Pushers
        /\ \A p \in Pushers : p \in Messages \/ p = Replayer
    BY DEF TypeOK, ReaderType, Pushers
  <1>1. ASSUME NEW m \in Messages, NEW resolved, BeginPublish(m, resolved), UNCHANGED <<push, sent>>,
               reader'.pc = reader.pc \/ reader.pc # "replay"
        PROVE  PushInv' /\ PublishInv'
    <2>1. push[m].pc = "idle"
      BY <1>0, <1>1, BeginFacts DEF PublishInv, TypeOK, BrokerType, Pushes
    <2> QED
      BY <1>0, <1>1, <2>1, BeginFacts DEF PushInv, PublishInv, InSent
  <1>2. ASSUME NEW m \in Messages, handle_publish(m) PROVE PushInv' /\ PublishInv'
    <2>1. PICK resolved : BeginPublish(m, resolved)
      BY <1>2 DEF handle_publish
    <2>2. UNCHANGED <<push, sent>> /\ reader.pc = "read"
      BY <1>2 DEF handle_publish, NextFrame
    <2> QED
      BY <1>1, <2>1, <2>2
  <1>3. ASSUME NEW m \in Others, publish(m) PROVE PushInv' /\ PublishInv'
    BY <1>1, <1>3 DEF publish
  <1>4. ASSUME NEW m \in Messages, publish_inner(m) PROVE PushInv' /\ PublishInv'
    <2>1. push[m].pc = "idle" /\ m \in Pushers
      BY <1>0, <1>4, FanoutFacts DEF PublishInv
    <2>2. CASE StartPush(m, m) /\ pub'[m].pc = "pushing"
      <3>1. PushInv'
        BY <1>0, <2>1, <2>2, StartFacts DEF PushInv
      <3>2. PublishInv'
        BY <1>0, <1>4, <2>1, <2>2, StartFacts, FanoutFacts DEF PublishInv, InSent
      <3> QED
        BY <3>1, <3>2
    <2>3. CASE pub'[m].pc = "done" /\ UNCHANGED push
      BY <1>0, <1>4, <2>1, <2>3, FanoutFacts DEF PushInv, PublishInv, InSent
    <2> QED
      BY <1>4, <2>2, <2>3, FanoutFacts
  <1>5. CASE replay_next
    <2>1. /\ reader.pc = "replay" /\ reader'.pc = "replay" /\ UNCHANGED <<pub, sent>>
          /\ push[Replayer].pc = "idle"
      BY <1>0, <1>5 DEF replay_next
    <2>2. CASE ToPush(Head(reader.records))
      <3>1. Head(reader.records) \in Messages /\ StartPush(Replayer, Head(reader.records))
        BY <1>0, <1>5, <2>2, TailFacts DEF replay_next, ToPush
      <3>2. PICK m \in Messages : StartPush(Replayer, m)
        BY <3>1
      <3>3. PushInv'
        BY <1>0, <2>1, <3>2, StartFacts DEF PushInv
      <3>4. PublishInv'
        BY <1>0, <2>1, <3>2, StartFacts DEF PublishInv, InSent
      <3> QED
        BY <3>3, <3>4
    <2>3. CASE ~ ToPush(Head(reader.records))
      <3>1. UNCHANGED push
        BY <1>5, <2>3 DEF replay_next
      <3> QED
        BY <2>1, <3>1 DEF PushInv, PublishInv, InSent
    <2> QED
      BY <2>2, <2>3
  <1>6. ASSUME NEW p \in Pushers, encode(p) PROVE PushInv' /\ PublishInv'
    <2>1. reader' = reader
      BY <1>6 DEF encode
    <2>2. CASE push'[p].pc = "notify" /\ pub' = pub
      <3>1. PushInv'
        BY <1>0, <1>6, <2>2, SentFacts DEF PushInv
      <3>2. PublishInv'
        BY <1>0, <1>6, <2>1, <2>2, SentFacts DEF PublishInv
      <3> QED
        BY <3>1, <3>2
    <2>3. CASE push'[p].pc = "idle" /\ Pushed(p)
      <3>1. PushInv'
        BY <1>0, <1>6, <2>3, SentFacts DEF PushInv
      <3>2. PublishInv'
        BY <1>0, <1>6, <2>1, <2>3, SentFacts, PushedFacts DEF PublishInv
      <3> QED
        BY <3>1, <3>2
    <2> QED
      BY <1>6, <2>2, <2>3, SentFacts
  <1>7. ASSUME NEW p \in Pushers, notify_one(p) PROVE PushInv' /\ PublishInv'
    <2>1. PushInv'
      BY <1>0, <1>7, NotifyFacts DEF PushInv
    <2>2. PublishInv'
      BY <1>0, <1>7, NotifyFacts, PushedFacts DEF PublishInv, InSent
    <2> QED
      BY <2>1, <2>2
  <1>8. ASSUME UNCHANGED PushVars,
               reader'.pc = reader.pc \/ push[Replayer].pc = "idle" \/ reader.pc # "replay"
        PROVE PushInv' /\ PublishInv'
    BY <1>8 DEF PushVars, PushInv, PublishInv, InSent
  <1>9. CASE plain_frame \/ ignored_frame \/ handle_hello \/ (\E valid \in BOOLEAN : handle_auth(valid))
             \/ handle_publish_other \/ (\E tag \in ClientTags : handle_ack(tag))
             \/ (\E from \in Offsets \cup {None} : handle_subscribe_slot(from))
    <2>1. UNCHANGED PushVars /\ reader.pc = "read"
      BY <1>9 DEF PushVars, NextFrame, plain_frame, ignored_frame, handle_hello, handle_auth,
         handle_subscribe_slot, handle_publish_other, handle_ack
    <2> QED
      BY <1>8, <2>1
  <1>10. CASE iterate_from \/ read_segments \/ replay_done \/ published \/ send_inband \/ hang_up
    <2>1. UNCHANGED PushVars /\ (reader.pc # "replay" \/ push[Replayer].pc = "idle")
      BY <1>10 DEF PushVars, iterate_from, read_segments, replay_done, published, send_inband, hang_up
    <2> QED
      BY <1>8, <2>1
  <1>11. CASE Writer
    BY <1>8, <1>11 DEF PushVars, Writer, collect, flush, write_fails, wait_ready, wait_closed, last_write
  <1>12. CASE close \/ begin_shutdown \/ append_foreign \/ (\E tag \in inflight : maintenance_tick(tag))
              \/ UNCHANGED vars
    BY <1>8, <1>12 DEF PushVars, close, begin_shutdown, append_foreign, maintenance_tick, vars
  <1>13. ASSUME NEW m \in Messages, append_durable(m) PROVE PushInv' /\ PublishInv'
    <2>1. push[m].pc = "idle"
      BY <1>0, <1>13, AppendedFacts DEF PublishInv, TypeOK, BrokerType, Pushes
    <2> QED
      BY <1>0, <1>13, <2>1, AppendedFacts DEF PushInv, PublishInv, InSent
  <1> QED
    BY <1>2, <1>3, <1>4, <1>5, <1>6, <1>7, <1>9, <1>10, <1>11, <1>12, <1>13
       DEF Next, Frame, Reader, Publisher, Pusher, Pushers, reader_stops

-----------------------------------------------------------------------------
(* The writer's sleep.                                                     *)

LEMMA SleepStep ==
  ASSUME TypeOK, BufferInv, PushInv, PublishInv, NoSleepOnBytes, [Next]_vars
  PROVE  NoSleepOnBytes'
  <1> USE SessionAssumption
  <1>0. /\ Messages \subseteq Pushers /\ Replayer \in Pushers
        /\ inband \in Nat
    BY DEF TypeOK, WriterType, Pushers
  <1>1. CASE collect
    BY <1>1, CollectBuffer DEF NoSleepOnBytes
  <1>2. CASE flush \/ write_fails \/ wait_ready \/ wait_closed \/ last_write
    <2>1. writer' # "wait"
      BY <1>2 DEF flush, write_fails, wait_ready, wait_closed, last_write
    <2> QED
      BY <2>1 DEF NoSleepOnBytes
  <1>3. CASE send_inband
    BY <1>0, <1>3 DEF NoSleepOnBytes, send_inband
  <1>4. ASSUME NEW p \in Pushers, encode(p) PROVE NoSleepOnBytes'
    <2>1. UNCHANGED <<writer, permit, shutdown, inband>>
      BY <1>4 DEF encode
    <2>2. CASE push'[p].pc = "notify"
      BY <2>2 DEF NoSleepOnBytes
    <2>3. CASE push'[p].pc = "idle"
      <3>1. shared' = shared
        BY <1>4, <2>3 DEF encode, TypeOK, BrokerType, Pushes
      <3> QED
        BY <1>4, <2>1, <3>1, SentFacts DEF NoSleepOnBytes
    <2> QED
      BY <1>4, <2>2, <2>3, SentFacts
  <1>5. ASSUME NEW p \in Pushers, notify_one(p) PROVE NoSleepOnBytes'
    BY <1>5 DEF NoSleepOnBytes, notify_one
  <1>6. ASSUME NEW m \in Messages, publish_inner(m) PROVE NoSleepOnBytes'
    <2>1. UNCHANGED <<writer, shared, permit, shutdown, inband>>
      BY <1>6 DEF publish_inner
    <2>2. \A q \in Pushers : push[q].pc = "notify" => push'[q].pc = "notify"
      BY <1>0, <1>6, FanoutFacts, StartFacts DEF PublishInv
    <2> QED
      BY <2>1, <2>2 DEF NoSleepOnBytes
  <1>7. CASE replay_next
    <2>1. UNCHANGED <<writer, shared, permit, shutdown, inband>> /\ push[Replayer].pc = "idle"
      BY <1>7 DEF replay_next
    <2>2. \A q \in Pushers : q # Replayer => push'[q] = push[q]
      BY <1>7 DEF replay_next, StartPush, TypeOK, BrokerType
    <2> QED
      BY <2>1, <2>2 DEF NoSleepOnBytes
  <1>8. CASE UNCHANGED <<writer, shared, permit, inband, push>> /\ (shutdown => shutdown')
    BY <1>8 DEF NoSleepOnBytes
  <1>9. CASE Frame
    BY <1>8, <1>9 DEF Frame, plain_frame, ignored_frame, handle_hello, handle_auth,
       handle_subscribe_slot, handle_publish_other, handle_publish, handle_ack
  <1>10. CASE iterate_from \/ read_segments \/ replay_done \/ published \/ hang_up
    BY <1>8, <1>10 DEF iterate_from, read_segments, replay_done, published, hang_up
  <1>11. CASE close \/ begin_shutdown \/ UNCHANGED vars
    BY <1>8, <1>11 DEF close, begin_shutdown, vars
  <1>12. CASE (\E m \in Others : publish(m)) \/ (\E m \in Messages : append_durable(m))
              \/ append_foreign \/ (\E tag \in inflight : maintenance_tick(tag))
    BY <1>8, <1>12 DEF publish, append_durable, append_foreign, maintenance_tick
  <1> QED
    BY <1>1, <1>2, <1>3, <1>4, <1>5, <1>6, <1>7, <1>9, <1>10, <1>11, <1>12
       DEF Next, Reader, Writer, Publisher, Pusher, Pushers, reader_stops

-----------------------------------------------------------------------------
(* Tags.                                                                   *)

\* What was encoded, wherever it now is, was given a tag that was taken, and a
\* QoS1 tag is in flight, acked or expired.  A tag whose frame is about to be encoded
\* belongs to one pusher alone and is on no frame yet, so that cancelling it
\* takes nothing from a delivery the client can see.
Known(tag) == tag < next_tag /\ (tag # 0 => tag \in inflight \cup settled)

Carried == Range(wire) \cup Range(local.d) \cup Range(shared.d)

TagInv ==
  /\ Carried \subseteq Range(sent)
  /\ \A d \in Range(sent) : Known(d.tag)
  /\ \A p \in Pushers : push[p].pc = "encode" =>
       /\ Known(push[p].tag)
       /\ push[p].tag # 0 => \A d \in Range(sent) : d.tag # push[p].tag
       /\ push[p].tag # 0 => \A q \in Pushers : push[q].pc = "encode" /\ push[q].tag = push[p].tag => q = p

LEMMA CarriedStep ==
  ASSUME TypeOK, PushInv, BufferInv, Carried \subseteq Range(sent), [Next]_vars
  PROVE  Carried' \subseteq Range(sent') /\ Range(sent) \subseteq Range(sent')
  <1>0. /\ wire \in Seq(Deliveries) /\ local.d \in Seq(Deliveries) /\ shared.d \in Seq(Deliveries)
        /\ sent \in Seq(Deliveries) /\ Range(<<>>) = {}
    BY DEF TypeOK, WriterType, Buffers, Range
  <1>1. CASE collect
    <2>1. local.d = <<>>
      BY <1>1 DEF collect, BufferInv, LocalEmpty
    <2>2. local'.d = shared.d /\ shared'.d = <<>> /\ UNCHANGED <<wire, sent>>
      BY <1>1, <2>1, SwappedFacts DEF collect, Buffers
    <2> QED
      BY <1>0, <2>2 DEF Carried
  <1>2. CASE flush \/ last_write
    <2>1. wire' = wire \o local.d /\ local'.d = <<>> /\ UNCHANGED <<shared, sent>>
      BY <1>2 DEF flush, last_write, Empty
    <2> QED
      BY <1>0, <2>1, ConcatFacts DEF Carried
  <1>3. CASE write_fails
    <2>1. PICK k \in 0 .. Len(local.d) : wire' = wire \o SubSeq(local.d, 1, k)
      BY <1>3 DEF write_fails
    <2>2. Range(wire') \subseteq Range(wire) \cup Range(local.d)
      <3> DEFINE part == SubSeq(local.d, 1, k)
      <3>1. part \in Seq(Deliveries) /\ Range(part) \subseteq Range(local.d)
        BY <1>0, PartFacts
      <3> HIDE DEF part
      <3>2. Range(wire \o part) = Range(wire) \cup Range(part)
        BY <1>0, <3>1, ConcatFacts
      <3> QED
        BY <2>1, <3>1, <3>2 DEF part
    <2>3. local'.d = <<>> /\ UNCHANGED <<shared, sent>>
      BY <1>3 DEF write_fails, Empty
    <2> QED
      BY <1>0, <2>2, <2>3 DEF Carried
  <1>4. CASE wait_ready
    <2>1. /\ local' = local \/ local' = [Empty EXCEPT !.r = 1]
          /\ UNCHANGED <<wire, shared, sent>>
      BY <1>4 DEF wait_ready
    <2>2. [Empty EXCEPT !.r = 1].d = <<>>
      BY DEF Empty
    <2> QED
      BY <1>0, <2>1, <2>2 DEF Carried
  <1>5. CASE wait_closed
    <2>1. local.d = <<>>
      BY <1>5 DEF wait_closed, BufferInv, LocalEmpty
    <2>2. local'.d = shared.d /\ shared'.d = <<>> /\ UNCHANGED <<wire, sent>>
      BY <1>5, <2>1, SwappedFacts DEF wait_closed
    <2> QED
      BY <1>0, <2>2 DEF Carried
  <1>6. ASSUME NEW p \in Pushers, encode(p) PROVE Carried' \subseteq Range(sent') /\ Range(sent) \subseteq Range(sent')
    <2> DEFINE e == Delivery(push[p].msg, push[p].tag)
    <2>1. e \in Deliveries
      BY <1>6 DEF TypeOK, BrokerType, encode, Delivery, Deliveries, Pushes, PushInv
    <2> HIDE DEF e
    <2>2. /\ UNCHANGED <<local, wire>>
          /\ \/ UNCHANGED <<shared, sent>>
             \/ shared' = [shared EXCEPT !.d = Append(@, e)] /\ sent' = Append(sent, e)
      BY <1>6 DEF encode, e
    <2>3. CASE UNCHANGED <<shared, sent>>
      BY <2>2, <2>3 DEF Carried
    <2>4. CASE shared' = [shared EXCEPT !.d = Append(@, e)] /\ sent' = Append(sent, e)
      <3>1. shared'.d = Append(shared.d, e)
        BY <2>4 DEF TypeOK, WriterType, Buffers
      <3>2. Range(sent') = Range(sent) \cup {e} /\ Range(shared'.d) = Range(shared.d) \cup {e}
        BY <1>0, <2>1, <2>4, <3>1, AppendFacts
      <3> QED
        BY <2>2, <3>2 DEF Carried
    <2> QED
      BY <2>2, <2>3, <2>4
  <1>7. CASE UNCHANGED <<wire, local, shared, sent>>
    BY <1>7 DEF Carried
  <1>8. CASE Frame
    BY <1>7, <1>8 DEF Frame, plain_frame, ignored_frame, handle_hello, handle_auth,
       handle_subscribe_slot, handle_publish_other, handle_publish, handle_ack
  <1>9. CASE Reader \/ hang_up
    BY <1>7, <1>9 DEF Reader, iterate_from, read_segments, replay_next, replay_done, published, hang_up, send_inband,
       reader_stops
  <1>10. CASE close \/ begin_shutdown \/ UNCHANGED vars
    BY <1>7, <1>10 DEF close, begin_shutdown, vars
  <1>11. CASE (\E m \in Others : publish(m)) \/ (\E m \in Messages : append_durable(m) \/ publish_inner(m))
              \/ append_foreign \/ (\E tag \in inflight : maintenance_tick(tag))
    BY <1>7, <1>11 DEF publish, append_durable, publish_inner, append_foreign, maintenance_tick
  <1>12. ASSUME NEW p \in Pushers, notify_one(p)
         PROVE  Carried' \subseteq Range(sent') /\ Range(sent) \subseteq Range(sent')
    BY <1>7, <1>12 DEF notify_one
  <1> QED
    BY <1>1, <1>2, <1>3, <1>4, <1>5, <1>6, <1>8, <1>9, <1>10, <1>11, <1>12
       DEF Next, Writer, Publisher, Pusher, Pushers

TagVars == <<sent, push, next_tag, inflight, settled>>

LEMMA StartTag ==
  ASSUME TypeOK, TagInv, NEW p \in Pushers, NEW m \in Messages, StartPush(p, m),
         UNCHANGED <<sent, settled>>, Carried' \subseteq Range(sent')
  PROVE  TagInv'
  <1>1. next_tag \in Nat \ {0} /\ push \in [Pushers -> Pushes] /\ \A q \in Pushers : push[q].tag \in Nat
    BY DEF TypeOK, BrokerType, Pushes
  <1>2. /\ push'[p].pc = "encode" /\ push'[p].tag \in {0, next_tag}
        /\ push'[p].tag # 0 => next_tag \in inflight'
        /\ \A q \in Pushers : q # p => push'[q] = push[q]
        /\ next_tag' = next_tag + 1 /\ inflight \subseteq inflight'
    BY <1>1 DEF StartPush
  <1>3. \A d \in Range(sent) : d.tag \in Nat
    <2>1. sent \in Seq(Deliveries)
      BY DEF TypeOK, WriterType
    <2>2. Range(sent) \subseteq Deliveries
      BY <2>1, SeqFacts
    <2> QED
      BY <2>2 DEF Deliveries
  <1>4. \A tag \in Nat : Known(tag) => Known(tag)' /\ tag # next_tag
    BY <1>1, <1>2 DEF Known
  <1>5. \A d \in Range(sent') : Known(d.tag)' /\ d.tag # next_tag
    BY <1>3, <1>4 DEF TagInv
  <1>6. ASSUME NEW tag, tag = push'[p].tag PROVE Known(tag)'
    BY <1>1, <1>2, <1>6 DEF Known
  <1>7. ASSUME NEW q \in Pushers, push'[q].pc = "encode"
        PROVE  /\ Known(push[q].tag)'
               /\ push'[q].tag # 0 => \A d \in Range(sent') : d.tag # push'[q].tag
               /\ push'[q].tag # 0 =>
                    \A o \in Pushers : push'[o].pc = "encode" /\ push'[o].tag = push'[q].tag => o = q
    <2>1. CASE q = p
      <3>1. \A o \in Pushers : o # p /\ push'[o].pc = "encode" => push'[o].tag # next_tag
        BY <1>1, <1>2, <1>4 DEF TagInv
      <3>2. Known(push[q].tag)'
        BY <1>6, <2>1 DEF Known
      <3> QED
        BY <1>2, <1>5, <2>1, <3>1, <3>2
    <2>2. CASE q # p
      <3>1. push'[q] = push[q] /\ Known(push[q].tag) /\ push[q].tag \in Nat
        BY <1>1, <1>2, <1>7, <2>2 DEF TagInv
      <3>2. Known(push[q].tag)' /\ push[q].tag # next_tag
        BY <1>4, <3>1 DEF Known
      <3>3. /\ push'[q].tag # 0 => \A d \in Range(sent') : d.tag # push'[q].tag
            /\ push'[q].tag # 0 =>
                 \A o \in Pushers : push'[o].pc = "encode" /\ push'[o].tag = push'[q].tag => o = q
        BY <1>2, <1>7, <2>2, <3>1, <3>2 DEF TagInv
      <3> QED
        BY <3>2, <3>3
    <2> QED
      BY <2>1, <2>2
  <1> QED
    BY <1>5, <1>7 DEF TagInv

LEMMA EncodeTag ==
  ASSUME TypeOK, PushInv, TagInv, NEW p \in Pushers, encode(p), Carried' \subseteq Range(sent')
  PROVE  TagInv'
  <1> DEFINE e == Delivery(push[p].msg, push[p].tag)
  <1>1. /\ e \in Deliveries /\ e.tag = push[p].tag /\ sent \in Seq(Deliveries)
        /\ push \in [Pushers -> Pushes] /\ push[p].pc = "encode"
    BY DEF TypeOK, WriterType, BrokerType, encode, Delivery, Deliveries, Pushes, PushInv
  <1>2. UNCHANGED <<next_tag, settled>>
    BY DEF encode
  <1>3. \A q \in Pushers : q # p => push'[q] = push[q]
    BY SentFacts
  <1>4. CASE Size(shared) >= SlotLimit
    <2>1. push'[p].pc = "idle" /\ sent' = sent /\ inflight' = inflight \ {push[p].tag}
      BY <1>1, <1>4 DEF encode, Idle
    <2>2. \A tag : Known(tag) /\ (push[p].tag # 0 => tag # push[p].tag) => Known(tag)'
      BY <1>2, <2>1 DEF Known
    <2>3. \A d \in Range(sent') : Known(d.tag)'
      BY <1>1, <2>1, <2>2 DEF TagInv
    <2>4. \A q \in Pushers : push'[q].pc = "encode" =>
            /\ q # p /\ push'[q] = push[q]
            /\ Known(push[q].tag)'
      BY <1>1, <1>3, <2>1, <2>2 DEF TagInv, Known
    <2> QED
      BY <2>1, <2>3, <2>4 DEF TagInv
  <1>5. CASE ~ (Size(shared) >= SlotLimit)
    <2>1. push'[p].pc = "notify" /\ sent' = Append(sent, e) /\ inflight' = inflight
      BY <1>1, <1>5 DEF encode, Pushes
    <2>2. \A tag : Known(tag) => Known(tag)'
      BY <1>2, <2>1 DEF Known
    <2> HIDE DEF e
    <2>3. Range(sent') = Range(sent) \cup {e}
      BY <1>1, <2>1, AppendFacts
    <2>4. Known(push[p].tag) /\ \A d \in Range(sent) : Known(d.tag)
      BY <1>1 DEF TagInv
    <2>5. \A d \in Range(sent') : Known(d.tag)'
      BY <1>1, <2>2, <2>3, <2>4
    <2>6. ASSUME NEW q \in Pushers, push'[q].pc = "encode"
          PROVE  /\ Known(push[q].tag)'
                 /\ push'[q].tag # 0 => \A d \in Range(sent') : d.tag # push'[q].tag
                 /\ push'[q].tag # 0 =>
                      \A o \in Pushers : push'[o].pc = "encode" /\ push'[o].tag = push'[q].tag => o = q
      <3>1. q # p /\ push'[q] = push[q]
        BY <1>3, <2>1, <2>6
      <3>2. Known(push[q].tag)'
        BY <2>2, <2>6, <3>1 DEF TagInv, Known
      <3>3. push[q].tag # 0 => push[q].tag # e.tag
        BY <1>1, <2>6, <3>1 DEF TagInv
      <3> QED
        BY <1>1, <1>3, <2>1, <2>3, <2>6, <3>1, <3>2, <3>3 DEF TagInv
    <2> QED
      BY <2>5, <2>6 DEF TagInv
  <1> QED
    BY <1>4, <1>5

LEMMA TagStep ==
  ASSUME TypeOK, PushInv, BufferInv, TagInv, [Next]_vars
  PROVE  TagInv'
  <1> USE SessionAssumption
  <1>0. Carried' \subseteq Range(sent') /\ Messages \subseteq Pushers /\ Replayer \in Pushers
    BY CarriedStep DEF TagInv, Pushers
  <1>1. ASSUME NEW p \in Pushers, encode(p) PROVE TagInv'
    BY <1>0, <1>1, EncodeTag
  <1>2. ASSUME UNCHANGED <<sent, push, next_tag>>, inflight \cup settled \subseteq inflight' \cup settled'
        PROVE  TagInv'
    <2>1. \A tag : Known(tag) => Known(tag)'
      BY <1>2 DEF Known
    <2>2. \A q \in Pushers : push[q].pc = "encode" => Known(push[q].tag)'
      BY <1>2, <2>1 DEF TagInv, Known
    <2> QED
      BY <1>0, <1>2, <2>1, <2>2 DEF TagInv
  <1>3. ASSUME NEW p \in Pushers, notify_one(p) PROVE TagInv'
    <2>1. UNCHANGED <<sent, next_tag, inflight, settled>>
      BY <1>3 DEF notify_one
    <2>2. \A q \in Pushers : push'[q].pc = "encode" => push'[q] = push[q]
      BY <1>3, NotifyFacts
    <2>3. \A tag : Known(tag) <=> Known(tag)'
      BY <2>1 DEF Known
    <2>4. \A q \in Pushers : push'[q].pc = "encode" => Known(push[q].tag)'
      BY <2>1, <2>2 DEF TagInv, Known
    <2> QED
      BY <1>0, <2>1, <2>2, <2>3, <2>4 DEF TagInv
  <1>4. ASSUME NEW m \in Messages, publish_inner(m) PROVE TagInv'
    <2>1. CASE StartPush(m, m)
      BY <1>0, <1>4, <2>1, StartTag DEF publish_inner
    <2>2. CASE UNCHANGED <<push, next_tag, inflight>>
      BY <1>2, <1>4, <2>2 DEF publish_inner
    <2> QED
      BY <1>4, <2>1, <2>2 DEF publish_inner
  <1>5. CASE replay_next
    <2>1. CASE ToPush(Head(reader.records))
      <3>1. Head(reader.records) \in Messages
        BY <1>5, <2>1, TailFacts DEF replay_next, TypeOK, ReaderType, ToPush
      <3> QED
        BY <1>0, <1>5, <2>1, <3>1, StartTag DEF replay_next
    <2>2. CASE ~ ToPush(Head(reader.records))
      BY <1>2, <1>5, <2>2 DEF replay_next
    <2> QED
      BY <2>1, <2>2
  <1>6. ASSUME NEW tag \in ClientTags, handle_ack(tag) PROVE TagInv'
    BY <1>2, <1>6 DEF handle_ack
  <1>13. ASSUME NEW tag \in inflight, maintenance_tick(tag) PROVE TagInv'
    BY <1>2, <1>13 DEF maintenance_tick
  <1>7. CASE UNCHANGED TagVars
    BY <1>2, <1>7 DEF TagVars
  <1>8. CASE plain_frame \/ ignored_frame \/ handle_hello \/ (\E valid \in BOOLEAN : handle_auth(valid))
             \/ handle_publish_other \/ (\E m \in Messages : handle_publish(m))
             \/ (\E from \in Offsets \cup {None} : handle_subscribe_slot(from))
    BY <1>7, <1>8 DEF TagVars, plain_frame, ignored_frame, handle_hello, handle_auth,
       handle_subscribe_slot, handle_publish_other, handle_publish
  <1>9. CASE iterate_from \/ read_segments \/ replay_done \/ published \/ send_inband \/ hang_up
    BY <1>7, <1>9 DEF TagVars, iterate_from, read_segments, replay_done, published, send_inband, hang_up
  <1>10. CASE Writer
    BY <1>7, <1>10 DEF TagVars, Writer, collect, flush, write_fails, wait_ready, wait_closed, last_write
  <1>11. CASE close \/ begin_shutdown \/ UNCHANGED vars
    BY <1>7, <1>11 DEF TagVars, close, begin_shutdown, vars
  <1>12. CASE (\E m \in Others : publish(m)) \/ (\E m \in Messages : append_durable(m)) \/ append_foreign
    BY <1>7, <1>12 DEF TagVars, publish, append_durable, append_foreign
  <1> QED
    BY <1>1, <1>3, <1>4, <1>5, <1>6, <1>8, <1>9, <1>10, <1>11, <1>12, <1>13
       DEF Next, Frame, Reader, Publisher, Pusher, Pushers, reader_stops

-----------------------------------------------------------------------------
(* The subscription, and what it owes.                                     *)

\* The subscription finds its topic, whatever a publisher's cache held; it is
\* there for the whole of a replay and, until the connection closes, ever after.
SubInv ==
  /\ subscribed => SubTopic \in topics
  /\ topic_cache.resolved \in {None, topic_cache.name}
  /\ \A m \in Messages : pub[m].resolved \in {None, SubTopic}
  /\ closed => reader.pc = "ended"
  /\ reader.pc \in {"iterate", "segments", "replay"} => subscribed /\ offset = None
  /\ offset # None => subscribed \/ closed
  /\ owed # {} => subscribed \/ closed

LEMMA SubStep ==
  ASSUME TypeOK, SubInv, [Next]_vars
  PROVE  SubInv'
  <1> USE SessionAssumption
  <1>0. /\ reader \in [pc : {"read", "iterate", "segments", "replay", "publishing", "send", "ended"},
                       msg : Messages \cup Offsets \cup {None}, start : Nat,
                       records : Seq(Messages \cup {Foreign}), fatal : BOOLEAN]
        /\ \A t : get_with_resolve(t).resolved \in {None, t} \/ topic_cache.name = t
    BY DEF TypeOK, ReaderType, get_with_resolve, resolve_topic
  <1>1. CASE plain_frame
    BY <1>0, <1>1 DEF SubInv, plain_frame, NextFrame, Answer
  <1>2. CASE handle_hello
    BY <1>0, <1>2 DEF SubInv, handle_hello, NextFrame, Answer
  <1>3. ASSUME NEW valid \in BOOLEAN, handle_auth(valid) PROVE SubInv'
    BY <1>0, <1>3 DEF SubInv, handle_auth, NextFrame, Answer
  <1>4. ASSUME NEW from \in Offsets \cup {None}, handle_subscribe_slot(from) PROVE SubInv'
    <2>1. /\ reader.pc = "read" /\ ~subscribed /\ reader'.pc \in {"send", "iterate"}
          /\ SubTopic \in topics' /\ subscribed'
          /\ UNCHANGED <<topic_cache, pub, closed, offset, owed>>
      BY <1>0, <1>4 DEF handle_subscribe_slot, NextFrame, Answer
    <2> QED
      BY <2>1 DEF SubInv
  <1>5. ASSUME NEW t, topic_cache' = get_with_resolve(t) PROVE topic_cache'.resolved \in {None, topic_cache'.name}
    BY <1>5 DEF SubInv, get_with_resolve, resolve_topic
  <1>6. CASE handle_publish_other
    <2>1. UNCHANGED <<reader, topics, subscribed, pub, closed, offset, owed>>
      BY <1>6 DEF handle_publish_other
    <2>2. topic_cache'.resolved \in {None, topic_cache'.name}
      BY <1>5, <1>6 DEF handle_publish_other
    <2> QED
      BY <2>1, <2>2 DEF SubInv
  <1>7. ASSUME NEW m \in Messages, handle_publish(m) PROVE SubInv'
    <2>1. /\ reader.pc = "read" /\ reader'.pc = "publishing"
          /\ UNCHANGED <<topics, subscribed, closed, offset>>
      BY <1>0, <1>7 DEF handle_publish, NextFrame
    <2>2. topic_cache'.resolved \in {None, topic_cache'.name}
      BY <1>5, <1>7 DEF handle_publish, SubInv
    <2>3. PICK resolved \in {None, SubTopic} : BeginPublish(m, resolved)
      <3>1. get_with_resolve(SubTopic).resolved \in {None, SubTopic}
        BY DEF SubInv, get_with_resolve, resolve_topic
      <3> QED
        BY <1>7, <3>1 DEF handle_publish
    <2>4. /\ \A n \in Messages : pub'[n].resolved \in {None, SubTopic}
          /\ owed' # {} => subscribed \/ owed # {}
      BY <2>3, BeginFacts DEF SubInv
    <2> QED
      BY <2>1, <2>2, <2>4 DEF SubInv
  <1>8. ASSUME NEW m \in Others, publish(m) PROVE SubInv'
    <2>1. m \in Messages /\ BeginPublish(m, None)
      BY <1>8 DEF publish
    <2>2. /\ \A n \in Messages : pub'[n].resolved \in {None, SubTopic}
          /\ owed' # {} => subscribed \/ owed # {}
      BY <2>1, BeginFacts DEF SubInv
    <2>3. UNCHANGED <<reader, topic_cache, topics, subscribed, closed, offset>>
      BY <1>8 DEF publish
    <2> QED
      BY <2>2, <2>3 DEF SubInv
  <1>9. ASSUME NEW m \in Messages, publish_inner(m) PROVE SubInv'
    BY <1>9, FanoutFacts DEF SubInv
  <1>10. ASSUME NEW p \in Pushers, Pusher(p) PROVE SubInv'
    <2>1. \A n \in Messages : pub'[n].resolved \in {None, pub[n].resolved}
      <3>1. pub \in [Messages -> Publishes]
        BY DEF TypeOK, BrokerType
      <3>2. pub' = pub \/ (p \in Messages /\ Done(p))
        BY <1>10 DEF Pusher, encode, notify_one, Pushed
      <3> QED
        BY <3>1, <3>2 DEF Done
    <2>2. UNCHANGED <<reader, topic_cache, topics, subscribed, closed, offset>> /\ owed' \subseteq owed
      BY <1>10 DEF Pusher, encode, notify_one
    <2> QED
      BY <2>1, <2>2 DEF SubInv
  <1>11. CASE iterate_from \/ read_segments \/ replay_next
    <2>1. /\ reader.pc \in {"iterate", "segments", "replay"} /\ reader'.pc \in {"segments", "replay", "send"}
          /\ UNCHANGED <<topic_cache, topics, subscribed, pub, closed, offset, owed>>
      BY <1>0, <1>11 DEF iterate_from, read_segments, replay_next
    <2> QED
      BY <2>1 DEF SubInv
  <1>12. CASE replay_done
    <2>1. /\ reader.pc = "replay" /\ reader'.pc = "send"
          /\ UNCHANGED <<topic_cache, topics, subscribed, pub, closed, owed>>
      BY <1>0, <1>12 DEF replay_done
    <2> QED
      BY <2>1 DEF SubInv
  <1>13. CASE published \/ send_inband \/ hang_up
    <2>1. /\ reader.pc \in {"publishing", "send", "read"} /\ reader'.pc \in {"read", "send", "ended"}
          /\ UNCHANGED <<topic_cache, topics, subscribed, pub, closed, offset, owed>>
      BY <1>0, <1>13 DEF published, send_inband, hang_up
    <2> QED
      BY <2>1 DEF SubInv
  <1>14. CASE close
    BY <1>14 DEF SubInv, close
  <1>15. CASE UNCHANGED <<reader, topic_cache, topics, subscribed, pub, closed, offset, owed>>
    BY <1>15 DEF SubInv
  <1>16. CASE ignored_frame \/ begin_shutdown \/ UNCHANGED vars \/ (\E tag \in ClientTags : handle_ack(tag))
              \/ append_foreign \/ (\E tag \in inflight : maintenance_tick(tag))
    BY <1>15, <1>16 DEF ignored_frame, begin_shutdown, vars, handle_ack, append_foreign, maintenance_tick
  <1>18. ASSUME NEW m \in Messages, append_durable(m) PROVE SubInv'
    BY <1>18, AppendedFacts DEF SubInv
  <1>17. CASE Writer
    BY <1>15, <1>17 DEF Writer, collect, flush, write_fails, wait_ready, wait_closed, last_write
  <1> QED
    BY <1>1, <1>2, <1>3, <1>4, <1>6, <1>7, <1>8, <1>9, <1>10, <1>11, <1>12, <1>13, <1>14, <1>16, <1>17,
       <1>18 DEF Next, Frame, Reader, Publisher, Pushers, reader_stops

Covered(m) == InSent(m) \/ m \in dropped \/ shutdown \/ closed
Live(m)    == pub[m].pc \in {"fanout", "pushing", "failed"}

\* The replay has m in its batch, or at hand.
AtHand(m)  == reader.pc = "replay" /\ push[Replayer].pc = "encode" /\ push[Replayer].msg = m
InBatch(m) == reader.pc = "replay" /\ m \in Range(reader.records)
ToReplay(m) == InBatch(m) \/ AtHand(m)

\* It will push m, which it has read or is about to read.
ToCome(m) ==
  \/ AtHand(m)
  \/ InBatch(m) /\ ToPush(m)
  \/ reader.pc = "segments" /\ ToPush(m) /\ \E k \in DOMAIN log : k >= reader.start /\ log[k] = m

\* The i-th record is asked for by a replay from "from", and none that is asked
\* for follows it with an id that is no larger.
Wanted(i, from) ==
  /\ ids[log[i]] >= from
  /\ ~ \E j \in DOMAIN log : j > i /\ from <= ids[log[j]] /\ ids[log[j]] <= ids[log[i]]

Asked(i) ==
  \/ offset # None /\ Wanted(i, offset)
  \/ reader.pc \in {"segments", "replay"} /\ Wanted(i, reader.msg)

\* What was asked for is covered, being published, or still to be replayed.
GapInv ==
  \A i \in DOMAIN log : log[i] # Foreign /\ Asked(i) =>
    Covered(log[i]) \/ Live(log[i]) \/ ToCome(log[i])

\* A message in the log has been published; the log has it once, and the replay
\* has it before it or at hand.
Distinct(s) == \A i, j \in DOMAIN s : s[i] = s[j] /\ s[i] # Foreign => i = j

DistinctInv ==
  /\ Distinct(log) /\ Distinct(reader.records)
  /\ \A i \in DOMAIN log : log[i] # Foreign => pub[log[i]].pc \notin {"idle", "append"}
  /\ push[Replayer].pc = "encode" => push[Replayer].msg \notin Range(reader.records)

\* What is owed is owed until it is encoded or dropped.
OwedInv ==
  \A m \in owed : /\ pub[m].pc = "done" => shutdown \/ closed
                  /\ push[m].pc # "notify"

-----------------------------------------------------------------------------
(* The log, and the reading of it.                                         *)

LEMMA LogStep ==
  ASSUME TypeOK, [Next]_vars
  PROVE  log' = log \/ append_foreign \/ \E m \in Messages : append_durable(m)
  <1>1. CASE Frame
    BY <1>1 DEF Frame, plain_frame, ignored_frame, handle_hello, handle_auth,
       handle_subscribe_slot, handle_publish_other, handle_publish, handle_ack
  <1>2. CASE Reader \/ hang_up
    BY <1>2 DEF Reader, iterate_from, read_segments, replay_next, replay_done, published, hang_up, send_inband,
       reader_stops
  <1>3. CASE Writer
    BY <1>3 DEF Writer, collect, flush, write_fails, wait_ready, wait_closed, last_write
  <1>4. ASSUME NEW p \in Pushers, Pusher(p) PROVE log' = log
    BY <1>4 DEF Pusher, encode, notify_one
  <1>5. ASSUME NEW m \in Messages, publish_inner(m) PROVE log' = log
    BY <1>5 DEF publish_inner
  <1>6. CASE close \/ begin_shutdown \/ UNCHANGED vars \/ (\E m \in Others : publish(m))
             \/ (\E tag \in inflight : maintenance_tick(tag))
    BY <1>6 DEF close, begin_shutdown, vars, publish, maintenance_tick
  <1> QED
    BY <1>1, <1>2, <1>3, <1>4, <1>5, <1>6 DEF Next, Publisher, Pushers

\* The log grows at its end, by nothing or by one record.
LEMMA LogGrows ==
  ASSUME TypeOK, [Next]_vars
  PROVE  /\ DOMAIN log \subseteq DOMAIN log' /\ \A i \in DOMAIN log : log'[i] = log[i]
         /\ Range(log) \subseteq Range(log')
         /\ \A i \in DOMAIN log' : \/ i \in DOMAIN log
                                   \/ log'[i] = Foreign
                                   \/ log'[i] \in Messages /\ append_durable(log'[i])
  <1>1. log \in Seq(Messages \cup {Foreign})
    BY DEF TypeOK, BrokerType
  <1>2. DOMAIN log = 1 .. Len(log) /\ Len(log) \in Nat
    BY <1>1, SeqFacts
  <1>3. ASSUME NEW x \in Messages \cup {Foreign}, log' = Append(log, x)
        PROVE  /\ DOMAIN log' = DOMAIN log \cup {Len(log) + 1} /\ log'[Len(log) + 1] = x
               /\ \A i \in DOMAIN log : log'[i] = log[i]
               /\ Range(log') = Range(log) \cup {x}
    <2>1. /\ log' \in Seq(Messages \cup {Foreign})
          /\ Len(log') = Len(log) + 1 /\ log'[Len(log) + 1] = x
          /\ \A i \in 1 .. Len(log) : log'[i] = log[i]
          /\ Range(log') = Range(log) \cup {x}
      BY <1>1, <1>3, AppendFacts
    <2>2. DOMAIN log' = 1 .. (Len(log) + 1)
      BY <2>1, SeqFacts
    <2>3. 1 .. (Len(log) + 1) = (1 .. Len(log)) \cup {Len(log) + 1}
      BY <1>2
    <2> QED
      BY <1>2, <2>1, <2>2, <2>3
  <1>4. CASE log' = log
    BY <1>4
  <1>5. CASE append_foreign
    BY <1>3, <1>5 DEF append_foreign
  <1>6. ASSUME NEW m \in Messages, append_durable(m), log' # log
        PROVE  /\ DOMAIN log \subseteq DOMAIN log' /\ \A i \in DOMAIN log : log'[i] = log[i]
               /\ Range(log) \subseteq Range(log')
               /\ \A i \in DOMAIN log' : i \in DOMAIN log \/ log'[i] = m
    <2>1. log' = Append(log, m)
      BY <1>6, AppendedFacts
    <2> QED
      BY <1>3, <2>1
  <1> QED
    BY <1>4, <1>5, <1>6, LogStep

\* A record keeps its id.
LEMMA IdsKept ==
  ASSUME TypeOK, DistinctInv, [Next]_vars
  PROVE  \A i \in DOMAIN log : ids'[log[i]] = ids[log[i]]
  <1>0. \A i \in DOMAIN log : log[i] \in Messages \cup {Foreign}
    BY SeqFacts DEF TypeOK, BrokerType
  <1>1. ASSUME NEW n \in Messages, NEW resolved, BeginPublish(n, resolved)
        PROVE  \A i \in DOMAIN log : ids'[log[i]] = ids[log[i]]
    <2>1. pub[n].pc = "idle" /\ \A x \in Messages \cup {Foreign} : x # n => ids'[x] = ids[x]
      BY <1>1, BeginFacts
    <2>2. \A i \in DOMAIN log : log[i] # n
      BY <2>1, SessionAssumption DEF DistinctInv
    <2> QED
      BY <1>0, <2>1, <2>2
  <1>2. CASE \E n \in Messages : handle_publish(n)
    <2>1. PICK n \in Messages : handle_publish(n)
      BY <1>2
    <2>2. PICK resolved : BeginPublish(n, resolved)
      BY <2>1 DEF handle_publish
    <2> QED
      BY <1>1, <2>2
  <1>3. CASE \E n \in Others : publish(n)
    BY <1>1, <1>3, SessionAssumption DEF publish
  <1>4. CASE plain_frame \/ ignored_frame \/ handle_hello \/ (\E valid \in BOOLEAN : handle_auth(valid))
             \/ handle_publish_other \/ (\E tag \in ClientTags : handle_ack(tag))
             \/ (\E from \in Offsets \cup {None} : handle_subscribe_slot(from))
    BY <1>4 DEF plain_frame, ignored_frame, handle_hello, handle_auth,
       handle_subscribe_slot, handle_publish_other, handle_ack
  <1>5. CASE Reader \/ hang_up
    BY <1>5 DEF Reader, iterate_from, read_segments, replay_next, replay_done, published, hang_up, send_inband,
       reader_stops
  <1>6. CASE Writer
    BY <1>6 DEF Writer, collect, flush, write_fails, wait_ready, wait_closed, last_write
  <1>7. ASSUME NEW p \in Pushers, Pusher(p) PROVE ids' = ids
    BY <1>7 DEF Pusher, encode, notify_one
  <1>8. ASSUME NEW m \in Messages, append_durable(m) \/ publish_inner(m) PROVE ids' = ids
    BY <1>8 DEF append_durable, publish_inner
  <1>9. CASE close \/ begin_shutdown \/ UNCHANGED vars \/ append_foreign
             \/ (\E tag \in inflight : maintenance_tick(tag))
    BY <1>9 DEF close, begin_shutdown, vars, append_foreign, maintenance_tick
  <1> QED
    BY <1>2, <1>3, <1>4, <1>5, <1>6, <1>7, <1>8, <1>9 DEF Next, Frame, Publisher, Pushers

\* The place the reading began at, and what is read, stay in the log.
LEMMA ReadStep ==
  ASSUME TypeOK, ReaderInv, ReadInv, [Next]_vars
  PROVE  ReadInv'
  <1> USE SessionAssumption
  <1>0. /\ reader \in [pc : {"read", "iterate", "segments", "replay", "publishing", "send", "ended"},
                       msg : Messages \cup Offsets \cup {None}, start : Nat,
                       records : Seq(Messages \cup {Foreign}), fatal : BOOLEAN]
        /\ log \in Seq(Messages \cup {Foreign}) /\ ids \in [Messages \cup {Foreign} -> Nat]
        /\ DOMAIN log = 1 .. Len(log) /\ Len(log) \in Nat
        /\ Range(<<>>) = {}
    BY SeqFacts DEF TypeOK, ReaderType, BrokerType, Range
  <1>1. CASE reader' = reader
    BY <1>1, LogGrows DEF ReadInv
  <1>2. ASSUME reader.pc # "replay", reader'.records = reader.records, reader'.pc # "segments"
        PROVE  ReadInv'
    BY <1>0, <1>2 DEF ReadInv
  <1>3. CASE plain_frame \/ ignored_frame \/ handle_hello \/ (\E valid \in BOOLEAN : handle_auth(valid))
             \/ handle_publish_other \/ (\E tag \in ClientTags : handle_ack(tag))
             \/ (\E from \in Offsets \cup {None} : handle_subscribe_slot(from))
    <2>1. reader.pc = "read" /\ reader'.records = reader.records /\ reader'.pc # "segments"
      BY <1>0, <1>3 DEF NextFrame, Answer, plain_frame, ignored_frame, handle_hello, handle_auth,
         handle_subscribe_slot, handle_publish_other, handle_ack
    <2> QED
      BY <1>2, <2>1
  <1>4. CASE \E m \in Messages : handle_publish(m)
    <2>1. reader.pc = "read" /\ reader'.records = reader.records /\ reader'.pc # "segments"
      BY <1>0, <1>4 DEF NextFrame, handle_publish
    <2> QED
      BY <1>2, <2>1
  <1>5. CASE published \/ send_inband \/ hang_up
    <2>1. reader.pc # "replay" /\ reader'.records = reader.records /\ reader'.pc # "segments"
      BY <1>0, <1>5 DEF published, send_inband, hang_up
    <2> QED
      BY <1>2, <2>1
  <1>6. CASE iterate_from
    <2>1. reader.msg \in Nat
      BY <1>6 DEF iterate_from, ReaderInv
    <2>2. /\ reader.pc = "iterate" /\ reader'.records = reader.records /\ log' = log
          /\ reader'.start = Start(reader.msg)
          /\ reader'.pc = IF Start(reader.msg) = 0 THEN "replay" ELSE "segments"
      BY <1>0, <1>6 DEF iterate_from
    <2>3. Start(reader.msg) # 0 => Start(reader.msg) \in DOMAIN log
      BY <1>0, <2>1, IndexFacts
    <2> QED
      BY <1>0, <2>2, <2>3 DEF ReadInv
  <1>7. CASE read_segments
    <2>1. reader.start \in DOMAIN log /\ reader.records = <<>>
      BY <1>7 DEF read_segments, ReadInv
    <2>2. PICK r : r = SubSeq(log, reader.start, Len(log))
      OBVIOUS
    <2>3. r \in Seq(Messages \cup {Foreign}) /\ Range(r) \subseteq Range(log)
      <3>0. reader.start \in 1 .. (Len(log) + 1)
        BY <1>0, <2>1
      <3>1. /\ r \in Seq(Messages \cup {Foreign}) /\ Len(r) = Len(log) - reader.start + 1
            /\ \A j \in 1 .. (Len(log) - reader.start + 1) : r[j] = log[reader.start + j - 1]
        <4>1. PICK a \in 1 .. (Len(log) + 1) : a = reader.start
          BY <3>0
        <4>2. log \in Seq(Messages \cup {Foreign})
          BY <1>0
        <4>3. /\ SubSeq(log, a, Len(log)) \in Seq(Messages \cup {Foreign})
              /\ Len(SubSeq(log, a, Len(log))) = Len(log) - a + 1
              /\ \A j \in 1 .. (Len(log) - a + 1) : SubSeq(log, a, Len(log))[j] = log[a + j - 1]
          BY <4>2, FromFacts, Zenon
        <4> QED
          BY <2>2, <4>1, <4>3
      <3>2. DOMAIN r = 1 .. (Len(log) - reader.start + 1)
        BY <3>1, SeqFacts
      <3>3. ASSUME NEW j \in DOMAIN r PROVE r[j] \in Range(log)
        <4>1. reader.start + j - 1 \in DOMAIN log
          BY <1>0, <2>1, <3>2
        <4> QED
          BY <3>1, <3>2, <4>1 DEF Range
      <3> QED
        BY <3>1, <3>3 DEF Range
    <2>4. /\ log' = log
          /\ \/ reader'.pc = "replay" /\ reader'.records = r /\ reader'.start = reader.start
             \/ reader'.pc = "send" /\ reader'.records = <<>>
      BY <1>0, <1>7, <2>1, <2>2 DEF read_segments
    <2> QED
      BY <1>0, <2>1, <2>3, <2>4 DEF ReadInv
  <1>8. CASE replay_next
    <2>1. PICK r : r = Tail(reader.records)
      OBVIOUS
    <2>2. Range(r) \subseteq Range(reader.records)
      BY <1>0, <1>8, <2>1, TailFacts DEF replay_next
    <2>3. /\ reader.pc = "replay" /\ reader.records # <<>> /\ log' = log
          /\ reader'.pc = "replay" /\ reader'.records = r /\ reader'.start = reader.start
      BY <1>0, <1>8, <2>1 DEF replay_next
    <2> QED
      BY <2>2, <2>3 DEF ReadInv
  <1>9. CASE replay_done
    <2>1. reader'.pc = "send" /\ reader'.records = <<>>
      BY <1>0, <1>9 DEF replay_done
    <2> QED
      BY <1>0, <2>1 DEF ReadInv
  <1>10. CASE Writer
    BY <1>1, <1>10 DEF Writer, collect, flush, write_fails, wait_ready, wait_closed, last_write
  <1>11. CASE close \/ begin_shutdown \/ UNCHANGED vars \/ append_foreign
              \/ (\E tag \in inflight : maintenance_tick(tag)) \/ (\E m \in Others : publish(m))
              \/ (\E m \in Messages : append_durable(m) \/ publish_inner(m))
    BY <1>1, <1>11 DEF close, begin_shutdown, vars, append_foreign, maintenance_tick, publish,
       append_durable, publish_inner
  <1>12. ASSUME NEW p \in Pushers, Pusher(p) PROVE ReadInv'
    BY <1>1, <1>12 DEF Pusher, encode, notify_one
  <1> QED
    BY <1>3, <1>4, <1>5, <1>6, <1>7, <1>8, <1>9, <1>10, <1>11, <1>12
       DEF Next, Frame, Reader, Publisher, Pushers, reader_stops

\* A step leaves a message covered, or live, or to be replayed, or covers it, or
\* gives up the replay.
Progress(m) ==
  /\ Covered(m) => Covered(m)'
  /\ Live(m) /\ (subscribed \/ closed) => Live(m)' \/ Covered(m)'
  /\ ToCome(m) => ToCome(m)' \/ Covered(m)' \/ (reader'.pc = "send" /\ offset' = None)

GapVars == <<sent, dropped, shutdown, closed, pub>>

\* While the reader waits, only its own push takes a message from it.
LEMMA ToComeKept ==
  ASSUME TypeOK, ReadInv, DistinctInv, [Next]_vars, NEW m \in Messages, reader' = reader, ToCome(m)
  PROVE  ToCome(m)' \/ AtHand(m)
  <1> USE SessionAssumption
  <1>1. /\ DOMAIN log \subseteq DOMAIN log' /\ \A i \in DOMAIN log : log'[i] = log[i]
        /\ \A i \in DOMAIN log : ids'[log[i]] = ids[log[i]]
    BY LogGrows, IdsKept
  <1>2. ASSUME reader.start \in DOMAIN log, NEW k \in DOMAIN log, log[k] = m, ToPush(m)
        PROVE  ToPush(m)'
    BY <1>1, <1>2 DEF ToPush
  <1>3. CASE InBatch(m) /\ ToPush(m)
    <2>1. reader.records # <<>> /\ reader.pc = "replay"
      BY <1>3 DEF InBatch, Range
    <2>2. reader.start \in DOMAIN log /\ m \in Range(log)
      BY <1>3, <2>1 DEF ReadInv, InBatch
    <2>3. PICK k \in DOMAIN log : log[k] = m
      BY <2>2 DEF Range
    <2> QED
      BY <1>2, <1>3, <2>2, <2>3 DEF ToCome, InBatch
  <1>4. CASE reader.pc = "segments" /\ ToPush(m) /\ \E k \in DOMAIN log : k >= reader.start /\ log[k] = m
    <2>1. PICK k \in DOMAIN log : k >= reader.start /\ log[k] = m
      BY <1>4
    <2>2. reader.start \in DOMAIN log
      BY <1>4 DEF ReadInv
    <2>3. ToPush(m)'
      BY <1>2, <1>4, <2>1, <2>2
    <2> QED
      BY <1>1, <1>4, <2>1, <2>3 DEF ToCome
  <1> QED
    BY <1>3, <1>4 DEF ToCome

LEMMA ProgressStep ==
  ASSUME TypeOK, PushInv, PublishInv, SubInv, ReadInv, DistinctInv, [Next]_vars, NEW m \in Messages
  PROVE  Progress(m)
  <1> USE SessionAssumption
  <1>0. /\ reader \in [pc : {"read", "iterate", "segments", "replay", "publishing", "send", "ended"},
                       msg : Messages \cup Offsets \cup {None}, start : Nat,
                       records : Seq(Messages \cup {Foreign}), fatal : BOOLEAN]
        /\ Messages \subseteq Pushers /\ Replayer \in Pushers
        /\ \A p \in Pushers : p \in Messages \/ p = Replayer
        /\ pub \in [Messages -> Publishes] /\ push \in [Pushers -> Pushes]
        /\ log \in Seq(Messages \cup {Foreign}) /\ DOMAIN log = 1 .. Len(log) /\ Len(log) \in Nat
    BY SeqFacts DEF TypeOK, ReaderType, BrokerType, Pushers
  <1>1. ASSUME UNCHANGED GapVars,
               ToCome(m) => ToCome(m)' \/ (reader'.pc = "send" /\ offset' = None)
        PROVE  Progress(m)
    BY <1>1 DEF GapVars, Progress, Covered, Live, InSent
  <1>2. ASSUME reader.pc \notin {"segments", "replay"} PROVE ~ ToCome(m)
    BY <1>2 DEF ToCome, AtHand, InBatch
  <1>3. ASSUME reader' = reader, push'[Replayer] = push[Replayer] PROVE ToCome(m) => ToCome(m)'
    <2>1. AtHand(m) => AtHand(m)'
      BY <1>3 DEF AtHand
    <2> QED
      BY <1>3, <2>1, ToComeKept DEF ToCome
  <1>4. CASE plain_frame \/ ignored_frame \/ handle_hello \/ (\E valid \in BOOLEAN : handle_auth(valid))
             \/ handle_publish_other \/ (\E tag \in ClientTags : handle_ack(tag))
             \/ (\E from \in Offsets \cup {None} : handle_subscribe_slot(from))
    <2>1. UNCHANGED GapVars /\ reader.pc = "read"
      BY <1>4 DEF GapVars, NextFrame, plain_frame, ignored_frame, handle_hello, handle_auth,
         handle_subscribe_slot, handle_publish_other, handle_ack
    <2> QED
      BY <1>1, <1>2, <2>1
  <1>5. CASE iterate_from \/ published \/ send_inband \/ hang_up
    <2>1. UNCHANGED GapVars /\ reader.pc \notin {"segments", "replay"}
      BY <1>5 DEF GapVars, iterate_from, published, send_inband, hang_up
    <2> QED
      BY <1>1, <1>2, <2>1
  <1>17. CASE read_segments
    <2>1. UNCHANGED GapVars /\ UNCHANGED <<log, ids, offset>> /\ reader.pc = "segments" /\ offset = None
      BY <1>17 DEF GapVars, read_segments, SubInv
    <2>2. CASE reader'.pc = "send"
      BY <1>1, <2>1, <2>2
    <2>3. CASE reader' = [reader EXCEPT !.pc = "replay", !.records = SubSeq(log, reader.start, Len(log))]
      <3>1. PICK r : r = SubSeq(log, reader.start, Len(log))
        OBVIOUS
      <3>2. reader'.pc = "replay" /\ reader'.records = r /\ reader'.start = reader.start
        BY <1>0, <2>3, <3>1
      <3>3. ASSUME ToCome(m) PROVE ToCome(m)'
        <4>1. PICK k \in DOMAIN log : k >= reader.start /\ log[k] = m
          BY <2>1, <3>3 DEF ToCome, AtHand, InBatch
        <4>2. ToPush(m)
          BY <2>1, <3>3 DEF ToCome, AtHand, InBatch
        <4>3. reader.start \in 1 .. (Len(log) + 1) /\ k \in reader.start .. Len(log)
          BY <1>0, <2>1, <4>1 DEF ReadInv
        <4>4. m \in Range(r)
          BY <1>0, <3>1, <4>1, <4>3, FromFacts
        <4>5. ToPush(m)'
          BY <2>1, <3>2, <4>2 DEF ToPush
        <4> QED
          BY <3>2, <4>4, <4>5 DEF ToCome, InBatch
      <3> QED
        BY <1>1, <2>1, <3>3
    <2> QED
      BY <1>0, <1>17, <2>2, <2>3 DEF read_segments
  <1>6. CASE replay_done
    <2>1. UNCHANGED GapVars /\ reader.records = <<>> /\ push[Replayer].pc = "idle" /\ reader.pc = "replay"
      BY <1>6 DEF GapVars, replay_done
    <2>2. ~ ToCome(m)
      BY <2>1 DEF ToCome, AtHand, InBatch, Range
    <2> QED
      BY <1>1, <2>1, <2>2
  <1>7. CASE replay_next
    <2> DEFINE h == Head(reader.records)
               r == Tail(reader.records)
    <2>1. /\ h \in Messages \cup {Foreign} /\ Range(reader.records) = Range(r) \cup {h}
          /\ r \in Seq(Messages \cup {Foreign})
      BY <1>0, <1>7, TailFacts DEF replay_next
    <2> HIDE DEF h, r
    <2>2. /\ UNCHANGED GapVars /\ reader.pc = "replay" /\ push[Replayer].pc = "idle"
          /\ reader'.pc = "replay" /\ reader'.records = r /\ reader'.start = reader.start
          /\ UNCHANGED <<log, ids>>
          /\ ToPush(h) => StartPush(Replayer, h)
      BY <1>0, <1>7 DEF GapVars, replay_next, h, r
    <2>3. ToCome(m) => ToPush(m) /\ (m \in Range(r) \/ m = h)
      BY <2>1, <2>2 DEF ToCome, AtHand, InBatch
    <2>4. m \in Range(r) /\ ToPush(m) => ToCome(m)'
      BY <2>2 DEF ToCome, InBatch, ToPush
    <2>5. m = h /\ ToPush(m) => ToCome(m)'
      BY <1>0, <2>2, StartFacts DEF ToCome, AtHand
    <2> QED
      BY <1>1, <2>2, <2>3, <2>4, <2>5
  <1>8. CASE Writer \/ append_foreign \/ (\E tag \in inflight : maintenance_tick(tag))
    <2>1. UNCHANGED GapVars /\ UNCHANGED <<reader, push>>
      BY <1>8 DEF GapVars, Writer, collect, flush, write_fails, wait_ready, wait_closed, last_write,
         append_foreign, maintenance_tick
    <2> QED
      BY <1>1, <1>3, <2>1
  <1>9. CASE close \/ begin_shutdown
    <2>1. /\ UNCHANGED <<sent, dropped, pub, reader, push>>
          /\ shutdown => shutdown'
          /\ closed => closed'
      BY <1>9 DEF close, begin_shutdown
    <2> QED
      BY <1>3, <2>1 DEF Progress, Covered, Live, InSent
  <1>10. CASE UNCHANGED vars
    BY <1>1, <1>3, <1>10 DEF vars, GapVars
  <1>11. ASSUME NEW n \in Messages, pub[n].pc \in {"idle", "append"},
                pub'[n].pc \in {"append", "fanout", "failed"}, m # n => pub'[m] = pub[m],
                UNCHANGED <<sent, dropped, shutdown, closed, push>>,
                UNCHANGED reader \/ reader.pc = "read"
         PROVE  Progress(m)
    <2>1. Live(m) => Live(m)'
      BY <1>11 DEF Live
    <2>2. ToCome(m) => ToCome(m)'
      BY <1>2, <1>3, <1>11
    <2> QED
      BY <1>11, <2>1, <2>2 DEF Progress, Covered, InSent
  <1>12. CASE \E n \in Messages : handle_publish(n)
    <2>1. PICK n \in Messages : handle_publish(n)
      BY <1>12
    <2>2. PICK resolved : BeginPublish(n, resolved)
      BY <2>1 DEF handle_publish
    <2>3. UNCHANGED <<sent, dropped, shutdown, closed, push>> /\ reader.pc = "read"
      BY <2>1 DEF handle_publish, NextFrame
    <2>4. pub[n].pc = "idle" /\ pub'[n].pc \in {"append", "fanout", "failed"} /\ (m # n => pub'[m] = pub[m])
      BY <2>2, BeginFacts
    <2> QED
      BY <1>11, <2>3, <2>4
  <1>13. ASSUME NEW n \in Others, publish(n) PROVE Progress(m)
    <2>1. n \in Messages /\ BeginPublish(n, None) /\ UNCHANGED <<sent, dropped, shutdown, closed, push, reader>>
      BY <1>13 DEF publish
    <2>2. pub[n].pc = "idle" /\ pub'[n].pc \in {"append", "fanout", "failed"} /\ (m # n => pub'[m] = pub[m])
      BY <2>1, BeginFacts
    <2> QED
      BY <1>11, <2>1, <2>2
  <1>18. ASSUME NEW n \in Messages, append_durable(n) PROVE Progress(m)
    BY <1>11, <1>18, AppendedFacts
  <1>14. ASSUME NEW n \in Messages, publish_inner(n) PROVE Progress(m)
    <2>1. /\ pub[n].pc = "fanout"
          /\ m # n => pub'[m] = pub[m]
          /\ UNCHANGED <<reader, sent, dropped, shutdown, closed, subscribed>>
          /\ push'[Replayer] = push[Replayer]
      BY <1>0, <1>14, FanoutFacts, StartFacts
    <2>2. ToCome(m) => ToCome(m)'
      BY <1>3, <2>1
    <2>3. Covered(m) => Covered(m)'
      BY <2>1 DEF Covered, InSent
    <2>4. CASE pub'[n].pc = "pushing"
      BY <2>1, <2>2, <2>3, <2>4 DEF Progress, Live
    <2>5. CASE /\ pub'[n].pc = "done"
               /\ ~ (~shutdown /\ subscribed /\ Found(n) = SubTopic /\ SubTopic \in topics)
      <3>1. Found(n) = SubTopic
        BY DEF Found, SubInv
      <3>2. subscribed \/ closed => Covered(m)'
        BY <2>1, <2>5, <3>1 DEF SubInv, Covered
      <3> QED
        BY <2>1, <2>2, <2>3, <2>5, <3>2 DEF Progress, Live
    <2> QED
      BY <1>14, <2>4, <2>5, FanoutFacts
  <1>15. ASSUME NEW p \in Pushers, encode(p) PROVE Progress(m)
    <2>1. UNCHANGED <<reader, shutdown, closed>> /\ push[p].pc = "encode"
      BY <1>15 DEF encode
    <2>2. Covered(m) => Covered(m)'
      BY <1>15, <2>1, SentFacts DEF Covered
    <2>3. m = push[p].msg => Covered(m)'
      BY <1>0, <1>15, SentFacts DEF Covered, PushInv
    <2>4. AtHand(m) => AtHand(m)' \/ m = push[p].msg
      BY <1>0, <1>15, <2>1, SentFacts DEF AtHand
    <2>5. pub' = pub \/ Pushed(p)
      BY <1>15, SentFacts
    <2>6. m # p => pub'[m] = pub[m]
      BY <1>15, <2>5, PushedFacts
    <2>7. m = p => m = push[p].msg /\ Live(m)
      BY <1>15, <2>1 DEF PushInv, PublishInv, Live
    <2>8. Live(m) => Live(m)' \/ m = push[p].msg
      BY <2>6, <2>7 DEF Live
    <2>9. ToCome(m) => ToCome(m)' \/ m = push[p].msg
      BY <2>1, <2>4, ToComeKept DEF ToCome
    <2> QED
      BY <2>2, <2>3, <2>8, <2>9 DEF Progress
  <1>16. ASSUME NEW p \in Pushers, notify_one(p) PROVE Progress(m)
    <2>1. UNCHANGED <<reader, shutdown, closed, sent, dropped>> /\ push[p].pc = "notify"
      BY <1>16 DEF notify_one
    <2>2. Covered(m) => Covered(m)'
      BY <2>1 DEF Covered, InSent
    <2>3. m = p => Covered(m) /\ Live(m)
      BY <1>16, <2>1 DEF PushInv, PublishInv, Covered, Live
    <2>4. AtHand(m) => AtHand(m)'
      BY <1>0, <1>16, <2>1, NotifyFacts DEF AtHand
    <2>5. m # p => pub'[m] = pub[m]
      BY <1>16, NotifyFacts, PushedFacts
    <2>6. ToCome(m) => ToCome(m)'
      BY <2>1, <2>4, ToComeKept DEF ToCome
    <2> QED
      BY <2>2, <2>3, <2>5, <2>6 DEF Progress, Live
  <1> QED
    BY <1>4, <1>5, <1>6, <1>7, <1>8, <1>9, <1>10, <1>12, <1>13, <1>14, <1>15, <1>16, <1>17, <1>18
       DEF Next, Frame, Reader, Publisher, Pusher, Pushers, reader_stops

\* Only iterate_from begins a reading, and only the end of one answers for it.
LEMMA ReaderMoves ==
  ASSUME TypeOK, [Next]_vars
  PROVE  \/ iterate_from
         \/ /\ offset' = offset \/ (offset' = reader.msg /\ reader.pc = "replay")
            /\ reader'.pc \in {"segments", "replay"} =>
                 reader.pc \in {"segments", "replay"} /\ reader'.msg = reader.msg
  <1> DEFINE Kept == /\ offset' = offset \/ (offset' = reader.msg /\ reader.pc = "replay")
                     /\ reader'.pc \in {"segments", "replay"} =>
                          reader.pc \in {"segments", "replay"} /\ reader'.msg = reader.msg
  <1>0. reader \in [pc : {"read", "iterate", "segments", "replay", "publishing", "send", "ended"},
                    msg : Messages \cup Offsets \cup {None}, start : Nat,
                    records : Seq(Messages \cup {Foreign}), fatal : BOOLEAN]
    BY DEF TypeOK, ReaderType
  <1>1. CASE plain_frame \/ ignored_frame \/ handle_hello \/ (\E valid \in BOOLEAN : handle_auth(valid))
             \/ handle_publish_other \/ (\E tag \in ClientTags : handle_ack(tag))
             \/ (\E from \in Offsets \cup {None} : handle_subscribe_slot(from))
    BY <1>0, <1>1 DEF NextFrame, Answer, plain_frame, ignored_frame, handle_hello, handle_auth,
       handle_subscribe_slot, handle_publish_other, handle_ack
  <1>2. CASE \E m \in Messages : handle_publish(m)
    BY <1>0, <1>2 DEF handle_publish
  <1>3. CASE read_segments
    <2>1. PICK r : r = SubSeq(log, reader.start, Len(log))
      OBVIOUS
    <2>2. /\ offset' = offset /\ reader.pc = "segments"
          /\ \/ reader' = [reader EXCEPT !.pc = "replay", !.records = r]
             \/ reader' = [reader EXCEPT !.pc = "send", !.msg = None, !.start = 0]
      BY <1>3, <2>1 DEF read_segments
    <2> QED
      BY <1>0, <2>2
  <1>4. CASE replay_next
    BY <1>0, <1>4 DEF replay_next
  <1>5. CASE replay_done
    BY <1>0, <1>5 DEF replay_done
  <1>6. CASE published \/ send_inband \/ hang_up
    BY <1>0, <1>6 DEF published, send_inband, hang_up
  <1>7. CASE UNCHANGED <<reader, offset>>
    BY <1>7
  <1>8. CASE Writer
    BY <1>7, <1>8 DEF Writer, collect, flush, write_fails, wait_ready, wait_closed, last_write
  <1>9. CASE close \/ begin_shutdown \/ UNCHANGED vars \/ append_foreign
              \/ (\E tag \in inflight : maintenance_tick(tag)) \/ (\E m \in Others : publish(m))
              \/ (\E m \in Messages : append_durable(m) \/ publish_inner(m))
    BY <1>7, <1>9 DEF close, begin_shutdown, vars, append_foreign, maintenance_tick, publish,
       append_durable, publish_inner
  <1>10. ASSUME NEW p \in Pushers, Pusher(p) PROVE Kept
    BY <1>7, <1>10 DEF Pusher, encode, notify_one
  <1> QED
    BY <1>1, <1>2, <1>3, <1>4, <1>5, <1>6, <1>8, <1>9, <1>10
       DEF Next, Frame, Reader, Publisher, Pushers, reader_stops

LEMMA GapStep ==
  ASSUME TypeOK, ReaderInv, ReadInv, PushInv, PublishInv, SubInv, DistinctInv, GapInv, [Next]_vars
  PROVE  GapInv'
  <1> USE SessionAssumption
  <1>0. /\ reader \in [pc : {"read", "iterate", "segments", "replay", "publishing", "send", "ended"},
                       msg : Messages \cup Offsets \cup {None}, start : Nat,
                       records : Seq(Messages \cup {Foreign}), fatal : BOOLEAN]
        /\ log \in Seq(Messages \cup {Foreign}) /\ ids \in [Messages \cup {Foreign} -> Nat]
        /\ \A i \in DOMAIN log : log[i] \in Messages \cup {Foreign}
        /\ DOMAIN log = 1 .. Len(log) /\ Len(log) \in Nat
    BY SeqFacts DEF TypeOK, ReaderType, BrokerType
  <1>1. \A m \in Messages : Progress(m)
    BY ProgressStep
  <1>2. \A i : Asked(i) => subscribed \/ closed
    BY DEF Asked, SubInv
  <1>3. ASSUME offset' = offset \/ (offset' = reader.msg /\ reader.pc = "replay"),
               reader'.pc \in {"segments", "replay"} =>
                 reader.pc \in {"segments", "replay"} /\ reader'.msg = reader.msg
        PROVE  GapInv'
    <2>1. /\ DOMAIN log \subseteq DOMAIN log' /\ \A i \in DOMAIN log : log'[i] = log[i]
          /\ \A i \in DOMAIN log : ids'[log[i]] = ids[log[i]]
      BY LogGrows, IdsKept
    <2>2. ASSUME NEW i \in DOMAIN log, NEW from
          PROVE  Wanted(i, from)' => Wanted(i, from)
      BY <2>1 DEF Wanted
    <2>3. ASSUME NEW i \in DOMAIN log, Asked(i)' PROVE Asked(i)
      <3>1. \/ offset' # None /\ Wanted(i, offset)'
            \/ reader'.pc \in {"segments", "replay"} /\ Wanted(i, reader.msg)'
        BY <2>3 DEF Asked
      <3>2. CASE offset' # None /\ Wanted(i, offset)'
        <4>1. PICK from : from = offset'
          OBVIOUS
        <4>2. Wanted(i, from)'
          BY <3>2, <4>1 DEF Wanted
        <4> QED
          BY <1>3, <2>2, <3>2, <4>1, <4>2 DEF Asked
      <3>3. CASE reader'.pc \in {"segments", "replay"} /\ Wanted(i, reader.msg)'
        <4>1. PICK from : from = reader'.msg
          OBVIOUS
        <4>2. Wanted(i, from)'
          BY <3>3, <4>1 DEF Wanted
        <4> QED
          BY <1>3, <2>2, <3>3, <4>1, <4>2 DEF Asked
      <3> QED
        BY <3>1, <3>2, <3>3
    <2>4. ASSUME NEW i \in DOMAIN log', log'[i] # Foreign, Asked(i)'
          PROVE  (Covered(log[i]) \/ Live(log[i]) \/ ToCome(log[i]))'
      <3>1. CASE i \in DOMAIN log
        <4>1. PICK m : m = log[i]
          OBVIOUS
        <4>2. m \in Messages /\ m = log'[i]
          BY <1>0, <2>1, <2>4, <3>1, <4>1
        <4>3. Asked(i) /\ (subscribed \/ closed) /\ (Covered(m) \/ Live(m) \/ ToCome(m))
          BY <1>2, <2>3, <2>4, <3>1, <4>1, <4>2 DEF GapInv
        <4>4. ~ (reader'.pc = "send" /\ offset' = None)
          BY <2>4 DEF Asked
        <4>5. Covered(m)' \/ Live(m)' \/ ToCome(m)'
          BY <1>1, <4>2, <4>3, <4>4 DEF Progress
        <4> QED
          BY <4>2, <4>5 DEF Covered, Live, ToCome, AtHand, InBatch, ToPush, InSent
      <3>2. CASE i \notin DOMAIN log
        <4>1. log'[i] \in Messages /\ append_durable(log'[i])
          BY <2>4, <3>2, LogGrows
        <4>2. pub'[log'[i]].pc \in {"fanout", "failed"}
          BY <4>1, AppendedFacts
        <4> QED
          BY <4>2 DEF Live
      <3> QED
        BY <3>1, <3>2
    <2> QED
      BY <2>4 DEF GapInv
  <1>4. CASE iterate_from
    <2>1. /\ UNCHANGED <<log, ids, offset>> /\ offset = None /\ reader.msg \in Nat
          /\ reader'.start = Start(reader.msg) /\ reader'.msg = reader.msg
          /\ reader'.pc = IF Start(reader.msg) = 0 THEN "replay" ELSE "segments"
      BY <1>0, <1>4 DEF iterate_from, SubInv, ReaderInv
    <2>2. PICK at : at = Start(reader.msg)
      OBVIOUS
    <2>3. \/ at = 0 /\ \A i \in DOMAIN log : ~ (ids[log[i]] >= reader.msg)
          \/ /\ at # 0 /\ at \in DOMAIN log /\ ids[log[at]] >= reader.msg
             /\ \A i \in DOMAIN log : ids[log[i]] >= reader.msg => ids[log[at]] <= ids[log[i]]
      BY <1>0, <2>1, <2>2, IndexFacts
    <2>4. ASSUME NEW i \in DOMAIN log', log'[i] # Foreign, Asked(i)'
          PROVE  ToCome(log[i])'
      <3>1. Wanted(i, reader.msg)'
        BY <2>1, <2>4 DEF Asked
      <3>2. /\ i \in DOMAIN log /\ ids[log[i]] >= reader.msg
            /\ \A j \in DOMAIN log : ~ (j > i /\ reader.msg <= ids[log[j]] /\ ids[log[j]] <= ids[log[i]])
        BY <2>1, <2>4, <3>1 DEF Wanted
      <3>3. at # 0 /\ at \in DOMAIN log /\ ids[log[at]] >= reader.msg /\ ids[log[at]] <= ids[log[i]]
        BY <2>3, <3>2
      <3>4. /\ ids[log[at]] \in Nat /\ ids[log[i]] \in Nat /\ at \in Nat /\ i \in Nat
        BY <1>0, <3>2, <3>3
      <3>5. i >= at
        BY <2>1, <3>2, <3>3, <3>4
      <3>6. ToPush(log[i])'
        BY <2>1, <2>2, <2>4, <3>2, <3>3, <3>4 DEF ToPush
      <3>7. reader'.pc = "segments" /\ reader'.start = at
        BY <2>1, <2>2, <3>3
      <3> QED
        BY <2>1, <3>2, <3>5, <3>6, <3>7 DEF ToCome, ToPush
    <2> QED
      BY <2>4 DEF GapInv
  <1> QED
    BY <1>3, <1>4, ReaderMoves

LEMMA OwedStep ==
  ASSUME TypeOK, PushInv, PublishInv, SubInv, OwedInv, [Next]_vars
  PROVE  OwedInv'
  <1> USE SessionAssumption
  <1>0. /\ Messages \subseteq Pushers /\ Replayer \in Pushers /\ Replayer \notin Messages
        /\ pub \in [Messages -> Publishes] /\ push \in [Pushers -> Pushes] /\ owed \subseteq Messages
    BY DEF TypeOK, BrokerType, Pushers
  <1>1. ASSUME owed' \subseteq owed, UNCHANGED <<pub, push>>, shutdown => shutdown', closed => closed'
        PROVE  OwedInv'
    BY <1>1 DEF OwedInv
  <1>2. ASSUME NEW n \in Messages, NEW resolved, BeginPublish(n, resolved), UNCHANGED <<push, shutdown, closed>>
        PROVE  OwedInv'
    <2>1. /\ pub[n].pc = "idle" /\ pub'[n].pc # "done" /\ owed' \subseteq owed \cup {n}
          /\ \A m \in Messages : m # n => pub'[m] = pub[m]
      BY <1>2, BeginFacts
    <2>2. push[n].pc # "notify"
      BY <2>1 DEF PublishInv
    <2> QED
      BY <1>0, <1>2, <2>1, <2>2 DEF OwedInv
  <1>3. CASE \E n \in Messages : handle_publish(n)
    <2>1. PICK n \in Messages : handle_publish(n)
      BY <1>3
    <2>2. PICK resolved : BeginPublish(n, resolved)
      BY <2>1 DEF handle_publish
    <2> QED
      BY <1>2, <2>1, <2>2 DEF handle_publish
  <1>4. CASE \E n \in Others : publish(n)
    BY <1>2, <1>4 DEF publish
  <1>5. ASSUME NEW n \in Messages, append_durable(n) PROVE OwedInv'
    BY <1>0, <1>5, AppendedFacts DEF OwedInv
  <1>6. ASSUME NEW n \in Messages, publish_inner(n) PROVE OwedInv'
    <2>1. /\ pub[n].pc = "fanout" /\ \A m \in Messages : m # n => pub'[m] = pub[m]
          /\ UNCHANGED <<owed, shutdown, closed>>
      BY <1>6, FanoutFacts
    <2>2. CASE StartPush(n, n) /\ pub'[n].pc = "pushing"
      BY <1>0, <2>1, <2>2, StartFacts DEF OwedInv
    <2>3. CASE /\ pub'[n].pc = "done" /\ UNCHANGED push
               /\ ~ (~shutdown /\ subscribed /\ Found(n) = SubTopic /\ SubTopic \in topics)
      <3>1. Found(n) = SubTopic
        BY DEF Found, SubInv
      <3>2. n \in owed => shutdown \/ closed
        BY <2>3, <3>1 DEF SubInv
      <3> QED
        BY <1>0, <2>1, <2>3, <3>2 DEF OwedInv
    <2> QED
      BY <1>6, <2>2, <2>3, FanoutFacts
  <1>7. ASSUME NEW p \in Pushers, encode(p) PROVE OwedInv'
    <2>1. owed' = owed \ {push[p].msg} /\ push[p].pc = "encode" /\ UNCHANGED <<shutdown, closed>>
      BY <1>7 DEF encode
    <2>2. p \in Messages => p = push[p].msg
      BY <2>1 DEF PushInv
    <2>3. \A m \in Messages : m # p => pub'[m] = pub[m]
      BY <1>7, SentFacts, PushedFacts
    <2>4. \A q \in Pushers : q # p => push'[q] = push[q]
      BY <1>7, SentFacts
    <2> QED
      BY <1>0, <2>1, <2>2, <2>3, <2>4 DEF OwedInv
  <1>8. ASSUME NEW p \in Pushers, notify_one(p) PROVE OwedInv'
    <2>1. UNCHANGED <<owed, shutdown, closed>> /\ push[p].pc = "notify" /\ Pushed(p)
      BY <1>8 DEF notify_one
    <2>2. p \notin owed
      BY <2>1 DEF OwedInv
    <2>3. \A m \in Messages : m # p => pub'[m] = pub[m]
      BY <2>1, PushedFacts
    <2>4. \A q \in Pushers : q # p => push'[q] = push[q]
      BY <1>8, NotifyFacts
    <2> QED
      BY <1>0, <2>1, <2>2, <2>3, <2>4 DEF OwedInv
  <1>9. CASE plain_frame \/ ignored_frame \/ handle_hello \/ (\E valid \in BOOLEAN : handle_auth(valid))
             \/ handle_publish_other \/ (\E tag \in ClientTags : handle_ack(tag))
             \/ (\E from \in Offsets \cup {None} : handle_subscribe_slot(from))
    BY <1>1, <1>9 DEF plain_frame, ignored_frame, handle_hello, handle_auth,
       handle_subscribe_slot, handle_publish_other, handle_ack
  <1>10. CASE iterate_from \/ read_segments \/ replay_done \/ published \/ send_inband \/ hang_up
    BY <1>1, <1>10 DEF iterate_from, read_segments, replay_done, published, send_inband, hang_up
  <1>11. CASE replay_next
    <2>1. UNCHANGED <<owed, pub, shutdown, closed>>
      BY <1>11 DEF replay_next
    <2>2. \A q \in Pushers : q # Replayer => push'[q] = push[q]
      BY <1>0, <1>11 DEF replay_next, StartPush
    <2> QED
      BY <1>0, <2>1, <2>2 DEF OwedInv
  <1>12. CASE Writer
    BY <1>1, <1>12 DEF Writer, collect, flush, write_fails, wait_ready, wait_closed, last_write
  <1>13. CASE close \/ begin_shutdown \/ append_foreign \/ (\E tag \in inflight : maintenance_tick(tag))
              \/ UNCHANGED vars
    BY <1>1, <1>13 DEF close, begin_shutdown, append_foreign, maintenance_tick, vars
  <1> QED
    BY <1>3, <1>4, <1>5, <1>6, <1>7, <1>8, <1>9, <1>10, <1>11, <1>12, <1>13
       DEF Next, Frame, Reader, Publisher, Pusher, Pushers, reader_stops

-----------------------------------------------------------------------------
(* How often a message is delivered.                                       *)

LEMMA DistinctParts ==
  ASSUME NEW S, NEW s \in Seq(S), Distinct(s)
  PROVE  /\ \A a \in 1 .. (Len(s) + 1) : Distinct(SubSeq(s, a, Len(s)))
         /\ s # <<>> => Distinct(Tail(s)) /\ (Head(s) # Foreign => Head(s) \notin Range(Tail(s)))
  <1>0. DOMAIN s = 1 .. Len(s) /\ Len(s) \in Nat
    BY SeqFacts
  <1>1. ASSUME NEW a \in 1 .. (Len(s) + 1) PROVE Distinct(SubSeq(s, a, Len(s)))
    <2> DEFINE r == SubSeq(s, a, Len(s))
    <2>1. /\ r \in Seq(S) /\ Len(r) = Len(s) - a + 1
          /\ \A j \in 1 .. (Len(s) - a + 1) : r[j] = s[a + j - 1]
      BY FromFacts
    <2> HIDE DEF r
    <2>2. DOMAIN r = 1 .. (Len(s) - a + 1)
      BY <2>1, SeqFacts
    <2>3. ASSUME NEW i \in DOMAIN r, NEW j \in DOMAIN r, r[i] = r[j], r[i] # Foreign PROVE i = j
      <3>1. i \in 1 .. (Len(s) - a + 1) /\ j \in 1 .. (Len(s) - a + 1)
        BY <2>2
      <3>2. a + i - 1 \in 1 .. Len(s) /\ a + j - 1 \in 1 .. Len(s)
        BY <1>0, <3>1
      <3>3. r[i] = s[a + i - 1] /\ r[j] = s[a + j - 1]
        BY <2>1, <3>1
      <3>4. a + i - 1 = a + j - 1
        BY <1>0, <2>3, <3>2, <3>3 DEF Distinct
      <3> QED
        BY <1>0, <2>2, <3>4
    <2> QED
      BY <2>3 DEF Distinct, r
  <1>2. ASSUME s # <<>> PROVE Distinct(Tail(s)) /\ (Head(s) # Foreign => Head(s) \notin Range(Tail(s)))
    <2> DEFINE r == Tail(s)
               h == Head(s)
    <2>1. /\ r \in Seq(S) /\ Len(r) = Len(s) - 1 /\ h = s[1] /\ Len(s) >= 1
          /\ \A i \in 1 .. (Len(s) - 1) : r[i] = s[i + 1]
      BY <1>2, TailFacts
    <2> HIDE DEF r, h
    <2>2. DOMAIN r = 1 .. (Len(s) - 1)
      BY <2>1, SeqFacts
    <2>3. ASSUME NEW i \in DOMAIN r, NEW j \in DOMAIN r, r[i] = r[j], r[i] # Foreign PROVE i = j
      <3>1. /\ i + 1 \in DOMAIN s /\ j + 1 \in DOMAIN s
            /\ s[i + 1] = s[j + 1] /\ s[i + 1] # Foreign
        BY <1>0, <2>1, <2>2, <2>3
      <3>2. i + 1 = j + 1
        BY <3>1 DEF Distinct
      <3> QED
        BY <1>0, <2>2, <3>2
    <2>4. ASSUME h # Foreign, h \in Range(r) PROVE FALSE
      <3>1. PICK i \in DOMAIN r : r[i] = h
        BY <2>4 DEF Range
      <3>2. /\ i + 1 \in DOMAIN s /\ 1 \in DOMAIN s /\ s[i + 1] = s[1] /\ s[1] # Foreign
        BY <1>0, <2>1, <2>2, <2>4, <3>1
      <3>3. i + 1 = 1
        BY <3>2 DEF Distinct
      <3> QED
        BY <1>0, <2>2, <3>3
    <2> QED
      BY <2>3, <2>4 DEF Distinct, r, h
  <1> QED
    BY <1>1, <1>2

LEMMA DistinctStep ==
  ASSUME TypeOK, ReaderInv, ReadInv, PushInv, PublishInv, DistinctInv, [Next]_vars
  PROVE  DistinctInv'
  <1> USE SessionAssumption
  <1>0. /\ reader \in [pc : {"read", "iterate", "segments", "replay", "publishing", "send", "ended"},
                       msg : Messages \cup Offsets \cup {None}, start : Nat,
                       records : Seq(Messages \cup {Foreign}), fatal : BOOLEAN]
        /\ log \in Seq(Messages \cup {Foreign})
        /\ \A i \in DOMAIN log : log[i] \in Messages \cup {Foreign}
        /\ Messages \subseteq Pushers /\ Replayer \in Pushers /\ Replayer \notin Messages
        /\ pub \in [Messages -> Publishes]
    BY SeqFacts DEF TypeOK, ReaderType, BrokerType, Pushers
  <1>1. ASSUME reader'.records = reader.records, UNCHANGED log,
               \A m \in Messages : pub'[m].pc \in {"idle", "append"} => pub[m].pc \in {"idle", "append"},
               push'[Replayer].pc = "encode" => push'[Replayer] = push[Replayer]
        PROVE  DistinctInv'
    BY <1>0, <1>1 DEF DistinctInv, Distinct
  <1>2. ASSUME NEW n \in Messages, NEW resolved, BeginPublish(n, resolved),
               reader'.records = reader.records, UNCHANGED <<push, log>>
        PROVE  DistinctInv'
    <2>1. /\ pub[n].pc = "idle" /\ \A m \in Messages : m # n => pub'[m] = pub[m]
      BY <1>2, BeginFacts
    <2> QED
      BY <1>1, <1>2, <2>1
  <1>14. ASSUME NEW x \in Messages \cup {Foreign}, log' = Append(log, x), UNCHANGED <<reader, push>>,
                x # Foreign => pub[x].pc = "append" /\ pub'[x].pc \notin {"idle", "append"},
                \A m \in Messages : m # x => pub'[m] = pub[m]
         PROVE  DistinctInv'
    <2>0. DOMAIN log = 1 .. Len(log) /\ Len(log) \in Nat
      BY <1>0, SeqFacts
    <2>1. /\ log' \in Seq(Messages \cup {Foreign})
          /\ Len(log') = Len(log) + 1 /\ log'[Len(log) + 1] = x
          /\ \A i \in 1 .. Len(log) : log'[i] = log[i]
      BY <1>0, <1>14, AppendFacts
    <2>2. DOMAIN log' = (1 .. Len(log)) \cup {Len(log) + 1}
      <3>1. DOMAIN log' = 1 .. (Len(log) + 1)
        BY <2>1, SeqFacts
      <3> QED
        BY <2>0, <3>1
    <2>3. x # Foreign => \A i \in DOMAIN log : log[i] # x
      BY <1>14 DEF DistinctInv
    <2>4. \A i \in DOMAIN log' : log'[i] # Foreign => pub'[log'[i]].pc \notin {"idle", "append"}
      BY <1>0, <1>14, <2>0, <2>1, <2>2, <2>3 DEF DistinctInv
    <2>5. Distinct(log')
      BY <2>0, <2>1, <2>2, <2>3 DEF DistinctInv, Distinct
    <2> QED
      BY <1>14, <2>4, <2>5 DEF DistinctInv
  <1>15. ASSUME NEW m \in Messages, append_durable(m) PROVE DistinctInv'
    <2>1. CASE log' = Append(log, m)
      BY <1>14, <1>15, <2>1, AppendedFacts
    <2>2. CASE log' = log
      <3>1. \A n \in Messages : pub'[n].pc \in {"idle", "append"} => pub[n].pc \in {"idle", "append"}
        BY <1>15, AppendedFacts
      <3> QED
        BY <1>1, <1>15, <2>2, <3>1, AppendedFacts
    <2> QED
      BY <1>15, <2>1, <2>2, AppendedFacts
  <1>16. CASE append_foreign
    BY <1>14, <1>16 DEF append_foreign
  <1>3. CASE plain_frame \/ ignored_frame \/ handle_hello \/ (\E valid \in BOOLEAN : handle_auth(valid))
             \/ handle_publish_other \/ (\E tag \in ClientTags : handle_ack(tag))
             \/ (\E from \in Offsets \cup {None} : handle_subscribe_slot(from))
    <2>1. UNCHANGED <<log, pub, push>> /\ reader'.records = reader.records
      BY <1>0, <1>3 DEF NextFrame, Answer, plain_frame, ignored_frame, handle_hello, handle_auth,
         handle_subscribe_slot, handle_publish_other, handle_ack
    <2> QED
      BY <1>1, <2>1
  <1>4. CASE published \/ send_inband \/ hang_up \/ replay_done
    <2>1. UNCHANGED <<log, pub, push>> /\ reader'.records = reader.records
      BY <1>0, <1>4 DEF published, send_inband, hang_up, replay_done
    <2> QED
      BY <1>1, <2>1
  <1>5. CASE \E n \in Messages : handle_publish(n)
    <2>1. PICK n \in Messages : handle_publish(n)
      BY <1>5
    <2>2. PICK resolved : BeginPublish(n, resolved)
      BY <2>1 DEF handle_publish
    <2>3. reader'.records = reader.records /\ UNCHANGED <<push, log>>
      BY <1>0, <2>1 DEF handle_publish
    <2> QED
      BY <1>2, <2>2, <2>3
  <1>6. CASE \E n \in Others : publish(n)
    BY <1>2, <1>6 DEF publish
  <1>17. CASE iterate_from
    <2>1. UNCHANGED <<log, pub, push>> /\ reader'.records = reader.records
      BY <1>0, <1>17 DEF iterate_from
    <2> QED
      BY <1>1, <2>1
  <1>7. CASE read_segments
    <2> DEFINE rest == SubSeq(log, reader.start, Len(log))
    <2>1. /\ UNCHANGED <<log, pub, push>> /\ reader.pc = "segments" /\ reader.start \in DOMAIN log
          /\ reader'.records = reader.records \/ reader'.records = rest
      BY <1>0, <1>7 DEF read_segments, ReadInv
    <2>2. Distinct(rest)
      <3>1. reader.start \in 1 .. (Len(log) + 1)
        BY <1>0, <2>1, SeqFacts
      <3> QED
        BY <1>0, <3>1, DistinctParts DEF DistinctInv
    <2>3. push[Replayer].pc # "encode"
      BY <2>1 DEF PublishInv
    <2> HIDE DEF rest
    <2> QED
      BY <2>1, <2>2, <2>3 DEF DistinctInv
  <1>8. CASE replay_next
    <2> DEFINE h == Head(reader.records)
               r == Tail(reader.records)
    <2>1. /\ h \in Messages \cup {Foreign} /\ Distinct(r)
          /\ h # Foreign => h \notin Range(r)
      BY <1>0, <1>8, TailFacts, DistinctParts DEF replay_next, DistinctInv
    <2> HIDE DEF h, r
    <2>2. /\ UNCHANGED <<log, pub>> /\ reader'.records = r /\ push[Replayer].pc = "idle"
          /\ \/ h # Foreign /\ StartPush(Replayer, h)
             \/ UNCHANGED push
      BY <1>0, <1>8 DEF replay_next, ToPush, h, r
    <2>3. push'[Replayer].pc = "encode" => push'[Replayer].msg \notin Range(r)
      BY <1>0, <2>1, <2>2, StartFacts
    <2> QED
      BY <2>1, <2>2, <2>3 DEF DistinctInv
  <1>9. ASSUME NEW n \in Messages, publish_inner(n) PROVE DistinctInv'
    <2>1. push'[Replayer] = push[Replayer]
      BY <1>0, <1>9, FanoutFacts, StartFacts
    <2> QED
      BY <1>1, <1>9, <2>1, FanoutFacts
  <1>10. ASSUME NEW p \in Pushers, encode(p) PROVE DistinctInv'
    <2>1. /\ UNCHANGED <<reader, log>> /\ push'[Replayer].pc = "encode" => push'[Replayer] = push[Replayer]
      BY <1>0, <1>10, SentFacts DEF encode
    <2>2. \A m \in Messages : pub'[m].pc \in {"idle", "append"} => pub[m].pc \in {"idle", "append"}
      BY <1>10, SentFacts, PushedFacts
    <2> QED
      BY <1>1, <1>10, <2>1, <2>2 DEF encode
  <1>11. ASSUME NEW p \in Pushers, notify_one(p) PROVE DistinctInv'
    <2>1. UNCHANGED <<reader, log>>
      BY <1>11 DEF notify_one
    <2>2. push'[Replayer].pc = "encode" => push'[Replayer] = push[Replayer]
      BY <1>0, <1>11, NotifyFacts
    <2>3. \A m \in Messages : pub'[m].pc \in {"idle", "append"} => pub[m].pc \in {"idle", "append"}
      BY <1>11, NotifyFacts, PushedFacts
    <2> QED
      BY <1>1, <2>1, <2>2, <2>3
  <1>12. CASE Writer
    BY <1>1, <1>12 DEF Writer, collect, flush, write_fails, wait_ready, wait_closed, last_write
  <1>13. CASE close \/ begin_shutdown \/ UNCHANGED vars \/ (\E tag \in inflight : maintenance_tick(tag))
    BY <1>1, <1>13 DEF close, begin_shutdown, vars, maintenance_tick
  <1> QED
    BY <1>3, <1>4, <1>5, <1>6, <1>7, <1>8, <1>9, <1>10, <1>11, <1>12, <1>13, <1>15, <1>16, <1>17
       DEF Next, Frame, Reader, Publisher, Pusher, Pushers, reader_stops
-----------------------------------------------------------------------------

\* How often m was encoded, and whether its publish or the replay may yet do so.
Occ(m)        == {i \in DOMAIN sent : sent[i].msg = m}
LiveToCome(m) == pub[m].pc \in {"idle", "append", "fanout"} \/ push[m].pc = "encode"
Replays       == offset # None \/ reader.pc = "replay"

Within(m) ==
  Cardinality(Occ(m)) + (IF LiveToCome(m) THEN 1 ELSE 0) + (IF ToReplay(m) THEN 1 ELSE 0)
    <= (IF Replays THEN 2 ELSE 1)

CountInv == \A m \in Messages : Within(m)

LEMMA OccFacts ==
  ASSUME TypeOK, NEW m
  PROVE  IsFiniteSet(Occ(m)) /\ Cardinality(Occ(m)) \in Nat /\ Len(sent) + 1 \notin Occ(m)
  <1>1. Len(sent) \in Nat /\ DOMAIN sent = 1 .. Len(sent)
    BY SeqFacts DEF TypeOK, WriterType
  <1>2. IsFiniteSet(1 .. Len(sent))
    BY <1>1, FS_Interval
  <1>3. Occ(m) \subseteq 1 .. Len(sent)
    BY <1>1 DEF Occ
  <1>4. IsFiniteSet(Occ(m))
    BY <1>2, <1>3, FS_Subset
  <1>5. Cardinality(Occ(m)) \in Nat
    BY <1>4, FS_CardinalityType
  <1> QED
    BY <1>1, <1>3, <1>4, <1>5

\* The delivery that is encoded was to come, from the publish or from the replay.
LEMMA EncodeCount ==
  ASSUME TypeOK, PushInv, PublishInv, DistinctInv, CountInv, NEW p \in Pushers, encode(p),
         ~ (Size(shared) >= SlotLimit), NEW m \in Messages
  PROVE  Within(m)'
  <1> USE SessionAssumption
  <1> DEFINE e == Delivery(push[p].msg, push[p].tag)
  <1>0. /\ Messages \subseteq Pushers /\ Replayer \in Pushers /\ Replayer \notin Messages
        /\ p \in Messages \/ p = Replayer
        /\ pub \in [Messages -> Publishes] /\ push \in [Pushers -> Pushes]
    BY DEF TypeOK, BrokerType, Pushers
  <1>1. e \in Deliveries /\ e.msg = push[p].msg /\ sent \in Seq(Deliveries)
    BY DEF TypeOK, BrokerType, WriterType, encode, Delivery, Deliveries, Pushes, PushInv
  <1>2. /\ sent' = Append(sent, e) /\ push' = [push EXCEPT ![p].pc = "notify"] /\ push[p].pc = "encode"
        /\ UNCHANGED <<pub, reader, offset>>
    BY DEF encode
  <1> HIDE DEF e
  <1>3. /\ Len(sent') = Len(sent) + 1 /\ sent'[Len(sent) + 1] = e
        /\ \A i \in 1 .. Len(sent) : sent'[i] = sent[i]
        /\ DOMAIN sent = 1 .. Len(sent) /\ DOMAIN sent' = 1 .. Len(sent') /\ Len(sent) \in Nat
    BY <1>1, <1>2, AppendFacts, SeqFacts
  <1>4. /\ push'[p].pc = "notify" /\ push'[p].msg = push[p].msg
        /\ \A q \in Pushers : q # p => push'[q] = push[q]
    BY <1>0, <1>2 DEF Pushes
  <1>5. IsFiniteSet(Occ(m)) /\ Cardinality(Occ(m)) \in Nat /\ Len(sent) + 1 \notin Occ(m)
    BY OccFacts
  <1>6. (LiveToCome(m)' => LiveToCome(m)) /\ (ToReplay(m)' => ToReplay(m)) /\ (Replays' <=> Replays)
    BY <1>0, <1>2, <1>4 DEF LiveToCome, ToReplay, InBatch, AtHand, Replays
  <1>7. Within(m)
    BY DEF CountInv
  <1>8. CASE m # e.msg
    <2>1. Occ(m)' = Occ(m)
      BY <1>3, <1>8 DEF Occ
    <2> QED
      BY <1>5, <1>6, <1>7, <2>1 DEF Within
  <1>9. CASE m = e.msg
    <2>1. Occ(m)' = Occ(m) \cup {Len(sent) + 1}
      BY <1>3, <1>9 DEF Occ
    <2>2. Cardinality(Occ(m) \cup {Len(sent) + 1}) = Cardinality(Occ(m)) + 1
      BY <1>5, FS_AddElement
    <2>3. CASE p \in Messages
      <3>1. p = m
        BY <1>1, <1>2, <1>9, <2>3 DEF PushInv
      <3>2. LiveToCome(m) /\ ~ LiveToCome(m)'
        BY <1>0, <1>2, <1>4, <3>1 DEF LiveToCome, PublishInv
      <3> QED
        BY <1>5, <1>6, <1>7, <2>1, <2>2, <3>2 DEF Within
    <2>4. CASE p = Replayer
      <3>1. reader.pc = "replay" /\ m \notin Range(reader.records)
        BY <1>1, <1>2, <1>9, <2>4 DEF PublishInv, DistinctInv
      <3>2. ToReplay(m) /\ ~ ToReplay(m)'
        BY <1>1, <1>2, <1>4, <1>9, <2>4, <3>1 DEF ToReplay, InBatch, AtHand
      <3> QED
        BY <1>5, <1>6, <1>7, <2>1, <2>2, <3>2 DEF Within
    <2> QED
      BY <1>0, <2>3, <2>4
  <1> QED
    BY <1>8, <1>9

LEMMA CountStep ==
  ASSUME TypeOK, ReaderInv, PushInv, PublishInv, SubInv, DistinctInv, CountInv, [Next]_vars
  PROVE  CountInv'
  <1> USE SessionAssumption
  <1>0. /\ reader \in [pc : {"read", "iterate", "segments", "replay", "publishing", "send", "ended"},
                       msg : Messages \cup Offsets \cup {None}, start : Nat,
                       records : Seq(Messages \cup {Foreign}), fatal : BOOLEAN]
        /\ Messages \subseteq Pushers /\ Replayer \in Pushers /\ Replayer \notin Messages
    BY DEF TypeOK, ReaderType, Pushers
  <1>1. ASSUME UNCHANGED sent,
               \A m \in Messages : LiveToCome(m)' => LiveToCome(m),
               \A m \in Messages : ToReplay(m)' => ToReplay(m),
               Replays => Replays'
        PROVE  CountInv'
    <2> SUFFICES ASSUME NEW m \in Messages PROVE Within(m)'
      BY DEF CountInv
    <2>1. Within(m) /\ Cardinality(Occ(m)) \in Nat
      BY OccFacts DEF CountInv
    <2>2. Occ(m)' = Occ(m)
      BY <1>1 DEF Occ
    <2> QED
      BY <1>1, <2>1, <2>2 DEF Within
  <1>2. ASSUME UNCHANGED <<sent, push, offset>>, reader'.pc # "replay", reader.pc # "replay",
               \A m \in Messages : pub'[m].pc \in {"idle", "append", "fanout"} => pub[m].pc \in {"idle", "append", "fanout"}
        PROVE  CountInv'
    BY <1>1, <1>2 DEF LiveToCome, ToReplay, InBatch, AtHand, Replays
  <1>3. CASE plain_frame \/ ignored_frame \/ handle_hello \/ (\E valid \in BOOLEAN : handle_auth(valid))
             \/ handle_publish_other \/ (\E tag \in ClientTags : handle_ack(tag))
             \/ (\E from \in Offsets \cup {None} : handle_subscribe_slot(from))
    <2>1. UNCHANGED <<sent, pub, push, offset>> /\ reader'.pc # "replay" /\ reader.pc # "replay"
      BY <1>0, <1>3 DEF NextFrame, Answer, plain_frame, ignored_frame, handle_hello, handle_auth,
         handle_subscribe_slot, handle_publish_other, handle_ack
    <2> QED
      BY <1>2, <2>1
  <1>4. CASE published \/ send_inband \/ hang_up
    <2>1. UNCHANGED <<sent, pub, push, offset>> /\ reader'.pc # "replay" /\ reader.pc # "replay"
      BY <1>0, <1>4 DEF published, send_inband, hang_up
    <2> QED
      BY <1>2, <2>1
  <1>5. CASE \E n \in Messages : handle_publish(n)
    <2>1. PICK n \in Messages : handle_publish(n)
      BY <1>5
    <2>2. PICK resolved : BeginPublish(n, resolved)
      BY <2>1 DEF handle_publish
    <2>3. UNCHANGED <<sent, push, offset>> /\ reader'.pc # "replay" /\ reader.pc # "replay"
      BY <1>0, <2>1 DEF handle_publish, NextFrame
    <2> QED
      BY <1>2, <2>2, <2>3, BeginFacts
  <1>6. ASSUME NEW n \in Others, publish(n) PROVE CountInv'
    <2>1. UNCHANGED <<sent, push, offset, reader>> /\ BeginPublish(n, None)
      BY <1>6 DEF publish
    <2>2. \A m \in Messages : pub'[m].pc \in {"idle", "append", "fanout"} => pub[m].pc \in {"idle", "append", "fanout"}
      BY <2>1, BeginFacts
    <2> QED
      BY <1>1, <2>1, <2>2 DEF LiveToCome, ToReplay, InBatch, AtHand, Replays
  <1>7. CASE iterate_from \/ read_segments
    <2>1. UNCHANGED <<sent, pub, push, offset>> /\ reader.pc \in {"iterate", "segments"} /\ offset = None
      BY <1>7 DEF iterate_from, read_segments, SubInv
    <2>2. CASE reader'.pc = "replay"
      <3> SUFFICES ASSUME NEW m \in Messages PROVE Within(m)'
        BY DEF CountInv
      <3>1. Within(m) /\ Cardinality(Occ(m)) \in Nat
        BY OccFacts DEF CountInv
      <3>2. /\ Occ(m)' = Occ(m) /\ (LiveToCome(m)' <=> LiveToCome(m))
            /\ ~ ToReplay(m) /\ ~ Replays /\ Replays'
        BY <2>1, <2>2 DEF Occ, LiveToCome, ToReplay, InBatch, AtHand, Replays
      <3> QED
        BY <3>1, <3>2 DEF Within
    <2>3. CASE reader'.pc # "replay"
      BY <1>2, <2>1, <2>3
    <2> QED
      BY <2>2, <2>3
  <1>8. CASE replay_next
    <2> DEFINE h == Head(reader.records)
               r == Tail(reader.records)
    <2>1. h \in Messages \cup {Foreign} /\ {h} \cup Range(r) \subseteq Range(reader.records)
      <3>1. reader.records \in Seq(Messages \cup {Foreign}) /\ reader.records # <<>>
        BY <1>0, <1>8 DEF replay_next
      <3>2. h = reader.records[1] /\ 1 \in DOMAIN reader.records
        BY <3>1, SeqFacts, TailFacts
      <3>3. Range(r) \subseteq Range(reader.records)
        BY <3>1, TailFacts
      <3>4. h \in Messages \cup {Foreign}
        BY <3>1, TailFacts
      <3> QED
        BY <3>2, <3>3, <3>4 DEF Range
    <2> HIDE DEF h, r
    <2>2. /\ UNCHANGED <<sent, pub, offset>> /\ reader'.records = r /\ push[Replayer].pc = "idle"
          /\ reader'.pc = "replay" /\ reader.pc = "replay"
          /\ \/ h # Foreign /\ StartPush(Replayer, h)
             \/ UNCHANGED push
      BY <1>0, <1>8 DEF replay_next, ToPush, h, r
    <2>3. \A m \in Messages : ToReplay(m)' => ToReplay(m)
      BY <1>0, <2>1, <2>2, StartFacts DEF ToReplay, InBatch, AtHand
    <2>4. \A m \in Messages : push'[m] = push[m]
      BY <1>0, <2>1, <2>2, StartFacts
    <2> QED
      BY <1>1, <2>2, <2>3, <2>4 DEF LiveToCome, Replays
  <1>9. CASE replay_done
    <2>1. /\ UNCHANGED <<sent, pub, push>> /\ reader'.pc # "replay"
          /\ offset' # None
      BY <1>0, <1>9 DEF replay_done, ReaderInv
    <2> QED
      BY <1>1, <2>1 DEF LiveToCome, ToReplay, InBatch, AtHand, Replays
  <1>10. ASSUME NEW n \in Messages, publish_inner(n) PROVE CountInv'
    <2>1. UNCHANGED <<sent, reader, offset>> /\ push'[Replayer] = push[Replayer]
      BY <1>0, <1>10, FanoutFacts, StartFacts
    <2>2. ASSUME NEW m \in Messages PROVE LiveToCome(m)' => LiveToCome(m)
      BY <1>0, <1>10, FanoutFacts, StartFacts DEF LiveToCome
    <2> QED
      BY <1>1, <2>1, <2>2 DEF ToReplay, InBatch, AtHand, Replays
  <1>11. ASSUME NEW p \in Pushers, encode(p) PROVE CountInv'
    <2>1. CASE Size(shared) >= SlotLimit
      <3>1. /\ UNCHANGED <<sent, reader, offset>> /\ Pushed(p) /\ push' = [push EXCEPT ![p] = Idle]
            /\ push \in [Pushers -> Pushes]
        BY <1>11, <2>1 DEF encode, TypeOK, BrokerType
      <3>2. \A q \in Pushers : push'[q].pc = "encode" => push'[q] = push[q]
        BY <3>1 DEF Idle
      <3>3. \A m \in Messages : pub'[m].pc \in {"idle", "append", "fanout"} => pub'[m] = pub[m]
        BY <3>1, PushedFacts
      <3> QED
        BY <1>0, <1>1, <3>1, <3>2, <3>3 DEF LiveToCome, ToReplay, InBatch, AtHand, Replays
    <2> QED
      BY <1>11, <2>1, EncodeCount DEF CountInv
  <1>12. ASSUME NEW p \in Pushers, notify_one(p) PROVE CountInv'
    <2>1. UNCHANGED <<sent, reader, offset>>
      BY <1>12 DEF notify_one
    <2>2. \A q \in Pushers : push'[q].pc = "encode" => push'[q] = push[q]
      BY <1>12, NotifyFacts
    <2>3. \A m \in Messages : pub'[m].pc \in {"idle", "append", "fanout"} => pub'[m] = pub[m]
      BY <1>12, NotifyFacts, PushedFacts
    <2> QED
      BY <1>0, <1>1, <2>1, <2>2, <2>3 DEF LiveToCome, ToReplay, InBatch, AtHand, Replays
  <1>14. ASSUME NEW n \in Messages, append_durable(n) PROVE CountInv'
    <2>1. UNCHANGED <<sent, push, offset, reader>>
      BY <1>14, AppendedFacts
    <2>2. \A m \in Messages : pub'[m].pc \in {"idle", "append", "fanout"} => pub[m].pc \in {"idle", "append", "fanout"}
      BY <1>14, AppendedFacts
    <2> QED
      BY <1>1, <2>1, <2>2 DEF LiveToCome, ToReplay, InBatch, AtHand, Replays
  <1>13. CASE Writer \/ close \/ begin_shutdown \/ UNCHANGED vars \/ append_foreign
              \/ (\E tag \in inflight : maintenance_tick(tag))
    <2>1. UNCHANGED <<sent, push, pub, offset, reader>>
      BY <1>13 DEF Writer, collect, flush, write_fails, wait_ready, wait_closed, last_write,
         close, begin_shutdown, append_foreign, maintenance_tick, vars
    <2> QED
      BY <1>1, <2>1 DEF LiveToCome, ToReplay, InBatch, AtHand, Replays
  <1> QED
    BY <1>3, <1>4, <1>5, <1>6, <1>7, <1>8, <1>9, <1>10, <1>11, <1>12, <1>13, <1>14
       DEF Next, Frame, Reader, Publisher, Pusher, Pushers, reader_stops
-----------------------------------------------------------------------------
(* The specification keeps the invariant.                                  *)

Inv ==
  /\ TypeOK /\ ReaderInv /\ ReadInv /\ Gate /\ BufferInv /\ PushInv /\ PublishInv /\ NoSleepOnBytes
  /\ TagInv /\ SubInv /\ GapInv /\ OwedInv /\ DistinctInv /\ CountInv

LEMMA InitInv == Init => Inv
  <1> SUFFICES ASSUME Init PROVE Inv
    OBVIOUS
  <1> USE SessionAssumption
  <1>0. /\ <<>> \in Seq(Deliveries) /\ <<>> \in Seq(Messages \cup {Foreign}) /\ Len(<<>>) = 0
        /\ DOMAIN <<>> = {} /\ <<>> \o <<>> = <<>> /\ Range(<<>>) = {}
    BY DEF Range
  <1>1. log = <<>> /\ log \in Seq(Messages \cup {Foreign}) /\ DOMAIN log = {}
    BY <1>0 DEF Init
  <1>2. ReaderType
    <2>1. reader \in [pc : {"read", "iterate", "segments", "replay", "publishing", "send", "ended"},
                      msg : Messages \cup Offsets \cup {None}, start : Nat,
                      records : Seq(Messages \cup {Foreign}), fatal : BOOLEAN]
      BY <1>0 DEF Init
    <2>2. auth_failures \in 0 .. MaxAuthFailures
      BY DEF Init
    <2>3. topic_cache \in [name : Topics \cup {None}, resolved : Topics \cup {None}]
      BY DEF Init
    <2> QED
      BY <2>1, <2>2, <2>3 DEF Init, ReaderType
  <1>3. WriterType
    <2>1. Empty \in Buffers
      BY <1>0 DEF Empty, Buffers
    <2>2. inband \in 0 .. InbandCapacity
      BY DEF Init
    <2> QED
      BY <1>0, <2>1, <2>2 DEF Init, WriterType
  <1>4. BrokerType
    <2>1. pub \in [Messages -> Publishes] /\ push \in [Pushers -> Pushes]
      BY DEF Init, Publishes, Pushes, Idle
    <2>2. topics \subseteq Topics
      BY DEF Init, Topics
    <2>3. next_tag \in Nat \ {0} /\ inflight \subseteq Nat /\ settled \subseteq Nat
      BY DEF Init
    <2>4. /\ subscribed \in BOOLEAN /\ shutdown \in BOOLEAN /\ closed \in BOOLEAN
          /\ offset \in Offsets \cup {None} /\ dropped \subseteq Messages /\ owed \subseteq Messages
      BY DEF Init
    <2>5. ids \in [Messages \cup {Foreign} -> Nat] /\ next_id \in Nat
      BY DEF Init
    <2> QED
      BY <1>1, <2>1, <2>2, <2>3, <2>4, <2>5 DEF BrokerType
  <1>5. ReaderInv /\ ReadInv /\ Gate
    BY <1>0 DEF Init, ReaderInv, ReadInv, Gate
  <1>6. BufferInv /\ NoSleepOnBytes
    BY <1>0 DEF Init, BufferInv, LocalEmpty, InOrderOnce, Flow, AnsweredOnce, Empty, NoSleepOnBytes
  <1>7. PushInv /\ PublishInv
    BY DEF Init, PushInv, PublishInv, Pushers, Idle
  <1>8. TagInv
    BY <1>0 DEF Init, TagInv, Carried, Empty, Idle
  <1>9. SubInv
    BY DEF Init, SubInv
  <1>10. GapInv /\ OwedInv /\ DistinctInv
    BY <1>0, <1>1 DEF Init, GapInv, OwedInv, DistinctInv, Distinct, Pushers, Idle
  <1>11. CountInv
    <2> SUFFICES ASSUME NEW m \in Messages PROVE Within(m)
      BY DEF CountInv
    <2>1. Occ(m) = {}
      BY <1>0 DEF Init, Occ
    <2>2. Cardinality(Occ(m)) = 0
      BY <2>1, FS_EmptySet
    <2>3. ~ ToReplay(m) /\ ~ Replays
      BY DEF Init, ToReplay, InBatch, AtHand, Replays
    <2> QED
      BY <2>2, <2>3 DEF Within
  <1> QED
    BY <1>2, <1>3, <1>4, <1>5, <1>6, <1>7, <1>8, <1>9, <1>10, <1>11 DEF Inv, TypeOK

LEMMA NextInv == Inv /\ [Next]_vars => Inv'
  <1> SUFFICES ASSUME Inv, [Next]_vars PROVE Inv'
    OBVIOUS
  <1> USE DEF Inv
  <1>1. TypeOK'
    BY ReaderTypeStep, WriterTypeStep, BrokerTypeStep DEF TypeOK, BufferInv
  <1>2. ReaderInv' /\ Gate' /\ BufferInv' /\ PushInv' /\ PublishInv' /\ NoSleepOnBytes'
    BY ReaderStep, BufferStep, PublishStep, SleepStep
  <1>3. TagInv' /\ SubInv' /\ GapInv' /\ OwedInv' /\ ReadInv'
    BY TagStep, SubStep, GapStep, OwedStep, ReadStep
  <1>4. DistinctInv' /\ CountInv'
    BY DistinctStep, CountStep
  <1> QED
    BY <1>1, <1>2, <1>3, <1>4

LEMMA SpecInv == Spec => []Inv
  BY InitInv, NextInv, PTL DEF Spec

-----------------------------------------------------------------------------
(* The theorems.                                                           *)

\* However many publishers encode into the slot while the writer trades buffers
\* with it, writes, fails or ends: the peer is sent what was encoded, once and
\* in that order.
THEOREM DeliveriesInOrder == Spec => []InOrderOnce
  <1>1. Inv => InOrderOnce
    BY DEF Inv, BufferInv
  <1> QED
    BY <1>1, SpecInv, PTL

\* A response is in the channel, in the writer's buffer or, after a swap, in the
\* slot's, and in one of them only, until it is written.
THEOREM ResponsesOnce == Spec => []AnsweredOnce
  <1>1. Inv => AnsweredOnce
    BY DEF Inv, BufferInv
  <1> QED
    BY <1>1, SpecInv, PTL

\* notify_one after the unlock loses no wakeup: the writer's select never blocks
\* on a slot with bytes in it that nobody is about to announce.
THEOREM WriterIsWoken == Spec => []NoSleepOnBytes
  <1>1. Inv => NoSleepOnBytes
    BY DEF Inv
  <1> QED
    BY <1>1, SpecInv, PTL

\* Nothing is subscribed, settled or published over the connection before HELLO
\* and a valid key, and the last AUTH allowed is the last frame read.
THEOREM GateHolds == Spec => []Gate
  <1>1. Inv => Gate
    BY DEF Inv
  <1> QED
    BY <1>1, SpecInv, PTL

\* An ACK for a delivery the client has, or is being sent, finds its tag unless
\* it was acked or maintenance_tick has removed it: the tag is registered before
\* the frame is encoded, and only a frame that never was encoded has its tag
\* cancelled.
THEOREM DeliveriesAckable == Spec => []AckableDelivery
  <1>1. ASSUME Inv PROVE AckableDelivery
    <2>1. /\ wire \in Seq(Deliveries) /\ local.d \in Seq(Deliveries) /\ shared.d \in Seq(Deliveries)
      BY <1>1 DEF Inv, TypeOK, WriterType, Buffers
    <2>2. wire \o local.d \in Seq(Deliveries) /\ Range(wire \o local.d) = Range(wire) \cup Range(local.d)
      BY <2>1, ConcatFacts
    <2>3. ASSUME NEW s \in Seq(Deliveries), NEW c \in Seq(Deliveries)
          PROVE  Range(s \o c) = Range(s) \cup Range(c)
      BY ConcatFacts
    <2>4. Range(Flow) = Carried
      BY <2>1, <2>2, <2>3, Zenon DEF Flow, Carried
    <2>5. \A i \in DOMAIN Flow : Flow[i] \in Carried
      BY <2>4 DEF Range
    <2> QED
      BY <1>1, <2>5 DEF Inv, TagInv, Known, AckableDelivery
  <1> QED
    BY <1>1, SpecInv, PTL

\* handle_subscribe_slot subscribes before it reads the log: whatever is
\* appended meanwhile, no record from the offset on falls between the replay
\* and the live deliveries.  Only a record that stands in the file before one
\* with a smaller id that was asked for too can be missed by iterate_from.
THEOREM ReplayHasNoGap == Spec => []ReplayGapless
  <1>1. ASSUME Inv PROVE ReplayGapless
    <2> SUFFICES ASSUME offset # None, NEW i \in DOMAIN log, ids[log[i]] >= offset, log[i] # Foreign,
                        ~ PassedBy(i)
                 PROVE  Covered(log[i]) \/ Live(log[i])
      BY DEF ReplayGapless, Covered, Live
    <2>1. ~ ToCome(log[i])
      BY <1>1 DEF Inv, SubInv, ToCome, AtHand, InBatch
    <2>2. Asked(i)
      BY DEF Asked, Wanted, PassedBy
    <2> QED
      BY <1>1, <2>1, <2>2 DEF Inv, GapInv
  <1> QED
    BY <1>1, SpecInv, PTL

\* A message reaches the slot once for its publish, and once more only by a
\* replay the client asked for; and one published under the subscription
\* reaches it, or is counted as dropped.
THEOREM DeliveredOnceEach == Spec => []DeliveredAsDue
  <1>1. ASSUME Inv PROVE DeliveredAsDue
    <2>1. ASSUME NEW m \in Messages
          PROVE  Cardinality(Occ(m)) <= (IF Replays THEN 2 ELSE 1)
      <3>1. Within(m) /\ Cardinality(Occ(m)) \in Nat
        BY <1>1, OccFacts DEF Inv, CountInv
      <3> QED
        BY <3>1 DEF Within
    <2> QED
      BY <1>1, <2>1 DEF Inv, OwedInv, Occ, Replays, DeliveredAsDue
  <1> QED
    BY <1>1, SpecInv, PTL
=============================================================================
