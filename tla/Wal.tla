-------------------------------- MODULE Wal --------------------------------
(***************************************************************************)
(* The segmented write-ahead log (wal/src/lib.rs): callers that take an id *)
(* and then queue a record, the writer task that batches, rolls, writes,   *)
(* indexes and syncs, the compactor that deletes segments, crashes, and    *)
(* open_with_config after one.                                             *)
(*                                                                         *)
(* An append is a number; its bytes are not modelled.  A segment holds at  *)
(* most SegmentRecords of them unless one batch is larger.  Bytes a torn   *)
(* record leaves at a segment's end are its "tail": "torn" when nothing    *)
(* was written over them yet, "stale" when a shorter write left some.      *)
(***************************************************************************)
EXTENDS Integers, Sequences, FiniteSets, SequencesExt, Maps

CONSTANTS
  Appends,          \* 1..n : the calls of append and append_durable, in the order they start
  DurableAppends,   \* those that are append_durable
  Flushes,          \* the calls of flush
  ChannelCapacity,  \* WalConfig::channel_capacity
  SegmentRecords,   \* WalConfig::segment_bytes, in records
  FsyncEveryN,      \* WalConfig::fsync_every_n, 0 for None
  FsyncInterval,    \* whether WalConfig::fsync_interval is set
  IoMayFail,        \* whether writes and fsyncs may fail
  Thresholds,       \* the thresholds compact_below is called with
  MaxCompactions,   \* bound: calls of compact_below
  MaxCrashes        \* bound: crashes

ASSUME WalAssumption ==
  /\ DurableAppends \subseteq Appends /\ Appends \subseteq Nat \ {0} /\ 0 \notin Flushes
  /\ ChannelCapacity \in Nat \ {0} /\ SegmentRecords \in Nat \ {0}
  /\ FsyncEveryN \in Nat /\ FsyncInterval \in BOOLEAN /\ IoMayFail \in BOOLEAN
  /\ Thresholds \subseteq Nat /\ MaxCompactions \in Nat /\ MaxCrashes \in Nat

VARIABLES
  up,          \* "up", "down" (not opened, or crashed), "failed" (open refused the log)
  next_id,     \* WriteAheadLog::next_id
  callers,     \* append -> "idle", "built", "queued", "accepted", "ok" or "err"
  ids,         \* append -> the id build_request gave it, 0 before
  flushes,     \* flush -> "idle", "sent", "ok" or "err"
  before,      \* history: flush -> the appends queued when it was sent
  channel,     \* the mpsc channel: <<"record", append>> or <<"flush", flush>>
  writer,      \* the writer task: pc, batch, flush, current_offset, unflushed_records
  pending_durable_acks,
  current_segment_seq,
  segments,    \* the directory: seq -> [header, recs, synced, tail]
  index,       \* id -> [seq, pos]
  compactor,   \* the compactor: pc, and its locals
  lost,        \* history: the appends whose segment compact_below has deleted
  crashes

vars == <<up, next_id, callers, ids, flushes, before, channel, writer,
          pending_durable_acks, current_segment_seq, segments, index,
          compactor, lost, crashes>>

NoFlush == 0
IdleWriter(n) == [pc |-> "recv", batch |-> <<>>, flush |-> NoFlush, offset |-> n,
                  unflushed |-> 0]
NewSegment(h) == [header |-> h, recs |-> <<>>, synced |-> 0, tail |-> "clean"]
IdleCompactor(n) == [pc |-> "idle", calls |-> n, threshold |-> 0, active |-> 0,
                     max_id |-> NoKeys, to_delete |-> {}, visited |-> {}, deleted |-> {}]

\* Before the first open: no directory.
Init ==
  /\ up = "down"
  /\ next_id = 1
  /\ callers = [a \in Appends |-> "idle"]
  /\ ids = [a \in Appends |-> 0]
  /\ flushes = [f \in Flushes |-> "idle"]
  /\ before = [f \in Flushes |-> {}]
  /\ channel = <<>>
  /\ writer = IdleWriter(0)
  /\ pending_durable_acks = {}
  /\ current_segment_seq = 1
  /\ segments = NoKeys
  /\ index = NoKeys
  /\ compactor = IdleCompactor(0)
  /\ lost = {}
  /\ crashes = 0

-----------------------------------------------------------------------------
(* The callers.  An id is taken in build_request; the record is queued in   *)
(* send_request.  Between the two, other callers run.                       *)

\* Bound: the calls start in the order of their numbers.
build_request(a) ==
  /\ up = "up" /\ callers[a] = "idle"
  /\ \A b \in Appends : b < a => callers[b] # "idle"
  /\ ids' = [ids EXCEPT ![a] = next_id]
  /\ next_id' = next_id + 1
  /\ callers' = [callers EXCEPT ![a] = "built"]
  /\ UNCHANGED <<up, flushes, before, channel, writer, pending_durable_acks,
                 current_segment_seq, segments, index, compactor, lost, crashes>>

\* Slip: the channel's capacity is not checked.
send_unbounded(a) ==
  /\ up = "up" /\ callers[a] = "built"
  /\ channel' = Append(channel, <<"record", a>>)
  /\ callers' = [callers EXCEPT ![a] = IF a \in DurableAppends THEN "queued" ELSE "accepted"]
  /\ UNCHANGED <<up, next_id, ids, flushes, before, writer, pending_durable_acks,
                 current_segment_seq, segments, index, compactor, lost, crashes>>

\* try_send: a full channel is Backpressure, a stopped writer WriterStopped.
send_request(a) ==
  /\ up = "up" /\ callers[a] = "built"
  /\ LET sent == writer.pc # "stopped" /\ Len(channel) < ChannelCapacity
     IN /\ channel' = IF sent THEN Append(channel, <<"record", a>>) ELSE channel
        /\ callers' = [callers EXCEPT ![a] =
             IF ~sent THEN "err" ELSE IF a \in DurableAppends THEN "queued" ELSE "accepted"]
  /\ UNCHANGED <<up, next_id, ids, flushes, before, writer, pending_durable_acks,
                 current_segment_seq, segments, index, compactor, lost, crashes>>

\* What the files hold, and what is in the channel or in the writer's hands.
Stored == UNION {ToSet(segments[s].recs) : s \in DOMAIN segments}
Underway == {a \in Appends : <<"record", a>> \in ToSet(channel)} \cup ToSet(writer.batch)

\* flush() waits for room in the channel.
flush(f) ==
  /\ up = "up" /\ flushes[f] = "idle"
  /\ \/ /\ writer.pc # "stopped" /\ Len(channel) < ChannelCapacity
        /\ channel' = Append(channel, <<"flush", f>>)
        /\ flushes' = [flushes EXCEPT ![f] = "sent"]
        /\ before' = [before EXCEPT ![f] = Stored \cup Underway]
     \/ /\ writer.pc = "stopped"
        /\ flushes' = [flushes EXCEPT ![f] = "err"]
        /\ UNCHANGED <<channel, before>>
  /\ UNCHANGED <<up, next_id, callers, ids, writer, pending_durable_acks,
                 current_segment_seq, segments, index, compactor, lost, crashes>>

-----------------------------------------------------------------------------
(* The writer task.                                                        *)

Linked == current_segment_seq \in DOMAIN segments
Active == segments[current_segment_seq]

\* The active segment becomes seg.  A deleted file still takes the writes and
\* the syncs, but no reader will find it.
OnActive(seg) == IF Linked THEN [segments EXCEPT ![current_segment_seq] = seg] ELSE segments

\* write_batch rolls first when the batch does not fit behind what is there.
AfterCollect(batch) ==
  IF writer.offset > 0 /\ writer.offset + Len(batch) > SegmentRecords
  THEN "roll_sync" ELSE "write"

\* run: take the next message.
recv ==
  /\ up = "up" /\ writer.pc = "recv" /\ channel # <<>>
  /\ channel' = Tail(channel)
  /\ writer' = IF Head(channel)[1] = "record"
               THEN [writer EXCEPT !.pc = "collect", !.batch = <<Head(channel)[2]>>]
               ELSE [writer EXCEPT !.pc = "flush", !.flush = Head(channel)[2]]
  /\ UNCHANGED <<up, next_id, callers, ids, flushes, before, pending_durable_acks,
                 current_segment_seq, segments, index, compactor, lost, crashes>>

\* collect_batch: the records that are there, up to a flush or an empty channel.
\* Callers go on sending meanwhile.
collect_batch ==
  /\ up = "up" /\ writer.pc = "collect"
  /\ \/ /\ channel # <<>> /\ Head(channel)[1] = "record"
        /\ writer' = [writer EXCEPT !.batch = Append(@, Head(channel)[2])]
        /\ channel' = Tail(channel)
     \/ /\ channel # <<>> /\ Head(channel)[1] = "flush"
        /\ writer' = [writer EXCEPT !.flush = Head(channel)[2], !.pc = AfterCollect(writer.batch)]
        /\ channel' = Tail(channel)
     \/ /\ channel = <<>>
        /\ writer' = [writer EXCEPT !.pc = AfterCollect(writer.batch)]
        /\ UNCHANGED channel
  /\ UNCHANGED <<up, next_id, callers, ids, flushes, before, pending_durable_acks,
                 current_segment_seq, segments, index, compactor, lost, crashes>>

\* Slip: flush() of the file without sync_data().
SyncUnforced ==
  /\ callers' = [a \in Appends |-> IF a \in pending_durable_acks THEN "ok" ELSE callers[a]]
  /\ pending_durable_acks' = {}
  /\ UNCHANGED segments

\* Slip: every durable append that waits is answered, also those in the channel.
SyncAnswersAll ==
  /\ segments' = OnActive([Active EXCEPT !.synced = Len(Active.recs)])
  /\ callers' = [a \in Appends |-> IF callers[a] = "queued" THEN "ok" ELSE callers[a]]
  /\ pending_durable_acks' = {}

\* flush_file succeeds: what the file holds is on disk, and the durable appends
\* that wait for it are answered.
SyncOk ==
  /\ segments' = OnActive([Active EXCEPT !.synced = Len(Active.recs)])
  /\ callers' = [a \in Appends |-> IF a \in pending_durable_acks THEN "ok" ELSE callers[a]]
  /\ pending_durable_acks' = {}

\* flush_file fails: they are told.
SyncErr ==
  /\ callers' = [a \in Appends |-> IF a \in pending_durable_acks THEN "err" ELSE callers[a]]
  /\ pending_durable_acks' = {}
  /\ UNCHANGED segments

\* roll_segment, in the steps other tasks can see: sync the old file; create
\* the new one; write its header and publish its number.
\* Slip: the old file is not synced.
roll_unsynced ==
  /\ up = "up" /\ writer.pc = "roll_sync"
  /\ writer' = [writer EXCEPT !.pc = "roll_create"]
  /\ UNCHANGED <<up, next_id, callers, ids, flushes, before, channel, pending_durable_acks,
                 current_segment_seq, segments, index, compactor, lost, crashes>>

roll_sync ==
  /\ up = "up" /\ writer.pc = "roll_sync"
  /\ SyncOk
  /\ writer' = [writer EXCEPT !.pc = "roll_create", !.unflushed = 0]
  /\ UNCHANGED <<up, next_id, ids, flushes, before, channel, current_segment_seq,
                 index, compactor, lost, crashes>>

roll_create ==
  /\ up = "up" /\ writer.pc = "roll_create"
  /\ current_segment_seq + 1 \notin DOMAIN segments
  /\ segments' = Put(segments, current_segment_seq + 1, NewSegment(FALSE))
  /\ writer' = [writer EXCEPT !.pc = "roll_header"]
  /\ UNCHANGED <<up, next_id, callers, ids, flushes, before, channel, pending_durable_acks,
                 current_segment_seq, index, compactor, lost, crashes>>

roll_header ==
  /\ up = "up" /\ writer.pc = "roll_header"
  /\ current_segment_seq' = current_segment_seq + 1
  /\ segments' = IF current_segment_seq' \in DOMAIN segments
                 THEN [segments EXCEPT ![current_segment_seq'].header = TRUE] ELSE segments
  /\ writer' = [writer EXCEPT !.pc = "write", !.offset = 0]
  /\ UNCHANGED <<up, next_id, callers, ids, flushes, before, channel, pending_durable_acks,
                 index, compactor, lost, crashes>>

\* write_all.  Bytes of a torn record beyond the new end stay in the file.
write_all ==
  /\ up = "up" /\ writer.pc = "write"
  /\ \E tail \in IF Linked /\ Active.tail # "clean" THEN {"clean", "stale"} ELSE {"clean"} :
       segments' = OnActive([Active EXCEPT !.recs = @ \o writer.batch, !.tail = tail])
  /\ lost' = IF Linked THEN lost ELSE lost \cup ToSet(writer.batch)
  /\ writer' = [writer EXCEPT !.pc = "index"]
  /\ UNCHANGED <<up, next_id, callers, ids, flushes, before, channel, pending_durable_acks,
                 current_segment_seq, index, compactor, crashes>>

\* The index learns the batch; durable appends make the batch sync at once.
index_batch ==
  /\ up = "up" /\ writer.pc = "index"
  /\ LET n    == Len(writer.batch)
         new  == {ids[a] : a \in ToSet(writer.batch)}
         acks == ToSet(writer.batch) \cap DurableAppends
     IN /\ index' = [id \in DOMAIN index \cup new |->
                       IF id \in new
                       THEN [seq |-> current_segment_seq,
                             pos |-> writer.offset
                                     + CHOOSE i \in 1 .. n : ids[writer.batch[i]] = id]
                       ELSE index[id]]
        /\ pending_durable_acks' = pending_durable_acks \cup acks
        /\ writer' = [writer EXCEPT !.offset = @ + n, !.unflushed = @ + n,
                        !.pc = IF pending_durable_acks' # {} THEN "sync" ELSE "maybe_sync"]
  /\ UNCHANGED <<up, next_id, callers, ids, flushes, before, channel,
                 current_segment_seq, segments, compactor, lost, crashes>>

AfterBatch(w) == [w EXCEPT !.batch = <<>>, !.pc = IF w.flush = NoFlush THEN "recv" ELSE "flush"]

\* maybe_sync: every_n is exact; the interval may or may not have elapsed.
maybe_sync ==
  /\ up = "up" /\ writer.pc = "maybe_sync"
  /\ LET due == FsyncEveryN # 0 /\ writer.unflushed >= FsyncEveryN
     IN \/ /\ due \/ FsyncInterval
           /\ writer' = [writer EXCEPT !.pc = "sync"]
        \/ /\ ~due
           /\ writer' = AfterBatch(writer)
  /\ UNCHANGED <<up, next_id, callers, ids, flushes, before, channel, pending_durable_acks,
                 current_segment_seq, segments, index, compactor, lost, crashes>>

sync_batch ==
  /\ up = "up" /\ writer.pc = "sync"
  /\ SyncOk
  /\ writer' = AfterBatch([writer EXCEPT !.unflushed = 0])
  /\ UNCHANGED <<up, next_id, ids, flushes, before, channel, current_segment_seq,
                 index, compactor, lost, crashes>>

\* A flush request; if its fsync fails the caller is told and the writer goes on.
sync_flush ==
  /\ up = "up" /\ writer.pc = "flush"
  /\ \/ /\ SyncOk
        /\ flushes' = [flushes EXCEPT ![writer.flush] = "ok"]
        /\ writer' = [writer EXCEPT !.pc = "recv", !.flush = NoFlush, !.unflushed = 0]
     \/ /\ IoMayFail
        /\ flushes' = [flushes EXCEPT ![writer.flush] = "err"]
        /\ writer' = [writer EXCEPT !.pc = "recv", !.flush = NoFlush]
        /\ SyncErr
  /\ UNCHANGED <<up, next_id, ids, before, channel, current_segment_seq,
                 index, compactor, lost, crashes>>

\* Slip: the durable appends still in the channel are never answered.
DropFlushes ==
  /\ flushes' = [f \in Flushes |-> IF flushes[f] = "sent" THEN "err" ELSE flushes[f]]
  /\ channel' = <<>>
  /\ UNCHANGED <<callers, pending_durable_acks>>

\* Everyone who waits for the writer task is told that it is gone.
DropWaiters ==
  /\ callers' = [a \in Appends |-> IF callers[a] = "queued" THEN "err" ELSE callers[a]]
  /\ flushes' = [f \in Flushes |-> IF flushes[f] = "sent" THEN "err" ELSE flushes[f]]
  /\ channel' = <<>>
  /\ pending_durable_acks' = {}

\* Any other failed write or fsync, or a new segment whose name is taken
\* (create_new), ends the writer task.
writer_stops ==
  /\ up = "up"
  /\ IoMayFail \/ (writer.pc = "roll_create" /\ current_segment_seq + 1 \in DOMAIN segments)
  /\ writer.pc \in {"roll_sync", "roll_create", "roll_header", "write", "sync"}
  /\ DropWaiters
  /\ writer' = [writer EXCEPT !.pc = "stopped"]
  /\ segments' = IF writer.pc = "write" THEN OnActive([Active EXCEPT !.tail = IF @ = "clean" THEN "torn" ELSE "stale"])
               ELSE segments
  /\ UNCHANGED <<up, next_id, ids, before, current_segment_seq, index, compactor, lost, crashes>>

-----------------------------------------------------------------------------
(* compact_below: the number of the active segment, the index, the directory *)
(* and each file are read or removed at different moments.                   *)

compact_begin(threshold) ==
  /\ up = "up" /\ compactor.pc = "idle" /\ compactor.calls < MaxCompactions
  /\ compactor' = [compactor EXCEPT !.pc = "index", !.calls = @ + 1, !.threshold = threshold,
                                    !.active = current_segment_seq]
  /\ UNCHANGED <<up, next_id, callers, ids, flushes, before, channel, writer,
                 pending_durable_acks, current_segment_seq, segments, index, lost, crashes>>

\* Slip: the smallest id of each segment.
MinIdPerSegment ==
  [seq \in {index[id].seq : id \in DOMAIN index} |->
     Min({id \in DOMAIN index : index[id].seq = seq})]

MaxIdPerSegment ==
  [seq \in {index[id].seq : id \in DOMAIN index} |->
     Max({id \in DOMAIN index : index[id].seq = seq})]

compact_index ==
  /\ up = "up" /\ compactor.pc = "index"
  /\ compactor' = [compactor EXCEPT !.pc = "list", !.max_id = MaxIdPerSegment]
  /\ UNCHANGED <<up, next_id, callers, ids, flushes, before, channel, writer,
                 pending_durable_acks, current_segment_seq, segments, index, lost, crashes>>

\* Segments all of whose records are covered, and files the index knows nothing of.
ToDelete(c) ==
  {seq \in DOMAIN c.max_id : seq # c.active /\ c.max_id[seq] <= c.threshold}
  \cup {seq \in DOMAIN segments \ DOMAIN c.max_id : seq # c.active}

compact_list ==
  /\ up = "up" /\ compactor.pc = "list"
  /\ compactor' = [compactor EXCEPT !.pc = "delete", !.to_delete = ToDelete(compactor)]
  /\ UNCHANGED <<up, next_id, callers, ids, flushes, before, channel, writer,
                 pending_durable_acks, current_segment_seq, segments, index, lost, crashes>>

\* A file that is already gone is passed over.
compact_delete ==
  /\ up = "up" /\ compactor.pc = "delete" /\ compactor.visited # compactor.to_delete
  /\ LET seq == Min(compactor.to_delete \ compactor.visited)
         gone == {seq} \cap DOMAIN segments
     IN /\ segments' = Drop(segments, gone)
        /\ lost' = lost \cup UNION {ToSet(segments[s].recs) : s \in gone}
        /\ compactor' = [compactor EXCEPT !.visited = @ \cup {seq}, !.deleted = @ \cup gone]
  /\ UNCHANGED <<up, next_id, callers, ids, flushes, before, channel, writer,
                 pending_durable_acks, current_segment_seq, index, crashes>>

\* The index forgets the listed segments, if a file was removed at all.
compact_end ==
  /\ up = "up" /\ compactor.pc = "delete" /\ compactor.visited = compactor.to_delete
  /\ index' = IF compactor.deleted = {} THEN index
              ELSE Drop(index, {id \in DOMAIN index : index[id].seq \in compactor.to_delete})
  /\ compactor' = IdleCompactor(compactor.calls)
  /\ UNCHANGED <<up, next_id, callers, ids, flushes, before, channel, writer,
                 pending_durable_acks, current_segment_seq, segments, lost, crashes>>

\* remove_file or read_dir fails: compact_below returns, the index as it was.
compact_fails ==
  /\ up = "up" /\ IoMayFail
  /\ \/ compactor.pc = "list"
     \/ compactor.pc = "delete" /\ compactor.visited # compactor.to_delete
  /\ compactor' = IdleCompactor(compactor.calls)
  /\ UNCHANGED <<up, next_id, callers, ids, flushes, before, channel, writer,
                 pending_durable_acks, current_segment_seq, segments, index, lost, crashes>>

-----------------------------------------------------------------------------
(* Crash and recovery.                                                      *)

\* A crash leaves of a segment all that was synced, and of the rest any prefix,
\* with or without a piece of the next record; a header that was being written
\* is there or not.  The file's name survives.
crash ==
  /\ up = "up" /\ crashes < MaxCrashes
  /\ up' = "down"
  /\ \E kept \in [DOMAIN segments -> 0 .. Cardinality(Appends)],
        torn \in SUBSET DOMAIN segments, formed \in BOOLEAN :
       /\ \A s \in DOMAIN segments : kept[s] \in segments[s].synced .. Len(segments[s].recs)
       /\ \A s \in torn : kept[s] < Len(segments[s].recs)
       /\ segments' = [s \in DOMAIN segments |->
            [header |-> segments[s].header \/ formed,
             recs   |-> SubSeq(segments[s].recs, 1, kept[s]),
             synced |-> kept[s],
             tail   |-> IF s \in torn /\ segments[s].tail = "clean" THEN "torn" ELSE segments[s].tail]]
  /\ callers' = [a \in Appends |-> IF callers[a] \in {"built", "queued"} THEN "err" ELSE callers[a]]
  /\ flushes' = [f \in Flushes |-> IF flushes[f] = "sent" THEN "err" ELSE flushes[f]]
  /\ channel' = <<>>
  /\ pending_durable_acks' = {}
  /\ writer' = IdleWriter(0)
  /\ index' = NoKeys
  /\ compactor' = IdleCompactor(compactor.calls)
  /\ crashes' = crashes + 1
  /\ UNCHANGED <<next_id, ids, before, current_segment_seq, lost>>

\* open_with_config: every header must be valid, every segment readable.  A torn
\* tail reads as the end of the segment; stale bytes behind newer records may
\* read as the end or as a record whose CRC does not match.
Readable(seg) == seg.header
MayBeCorrupt(seg) == ~seg.header \/ seg.tail = "stale"

\* Slip: the last id on disk is given again.
NextIdRepeated(on_disk) == Max({1} \cup {ids[a] : a \in on_disk})

NextId(on_disk) == 1 + Max({0} \cup {ids[a] : a \in on_disk})

\* Slip: the writer starts behind the header, not behind the last record.
TailAtHeader(seq) == 0

TailOffset(seq) == Len(segments[seq].recs)

Position(seq, id) == CHOOSE i \in 1 .. Len(segments[seq].recs) : ids[segments[seq].recs[i]] = id

open_with_config ==
  /\ up = "down"
  /\ \A seq \in DOMAIN segments : Readable(segments[seq])
  /\ up' = "up"
  /\ LET on_disk == Stored
         at(id)  == CHOOSE seq \in DOMAIN segments : id \in {ids[a] : a \in ToSet(segments[seq].recs)}
     IN /\ index' = [id \in {ids[a] : a \in on_disk} |-> [seq |-> at(id), pos |-> Position(at(id), id)]]
        /\ next_id' = NextId(on_disk)
  /\ IF segments = NoKeys
     THEN /\ segments' = [s \in {1} |-> NewSegment(TRUE)]
          /\ current_segment_seq' = 1 /\ writer' = IdleWriter(0)
     ELSE /\ current_segment_seq' = Max(DOMAIN segments)
          /\ writer' = IdleWriter(TailOffset(Max(DOMAIN segments)))
          /\ UNCHANGED segments
  /\ UNCHANGED <<callers, ids, flushes, before, channel, pending_durable_acks,
                 compactor, lost, crashes>>

\* open_with_config returns WalError::Corruption and the daemon exits.
open_fails ==
  /\ up = "down"
  /\ \E seq \in DOMAIN segments : MayBeCorrupt(segments[seq])
  /\ up' = "failed"
  /\ UNCHANGED <<next_id, callers, ids, flushes, before, channel, writer,
                 pending_durable_acks, current_segment_seq, segments, index,
                 compactor, lost, crashes>>

-----------------------------------------------------------------------------

WriterStep ==
  \/ recv \/ collect_batch \/ roll_sync \/ roll_create \/ roll_header \/ write_all \/ index_batch
  \/ maybe_sync \/ sync_batch \/ sync_flush \/ writer_stops

CompactorStep ==
  \/ \E t \in Thresholds : compact_begin(t)
  \/ compact_index \/ compact_list \/ compact_delete \/ compact_end \/ compact_fails

Next ==
  \/ \E a \in Appends : build_request(a)
  \/ \E a \in Appends : send_request(a)
  \/ \E f \in Flushes : flush(f)
  \/ WriterStep
  \/ CompactorStep
  \/ crash
  \/ open_with_config
  \/ open_fails

Spec == Init /\ [][Next]_vars

\* The writer task is scheduled whenever it has something to do.
FairSpec == Spec /\ WF_vars(WriterStep)

-----------------------------------------------------------------------------
(* Properties.                                                             *)

\* Types, the bound of the channel, and a synced prefix no longer than its file.
TypeOK ==
  /\ up \in {"up", "down", "failed"}
  /\ next_id \in Nat \ {0}
  /\ callers \in [Appends -> {"idle", "built", "queued", "accepted", "ok", "err"}]
  /\ ids \in [Appends -> Nat]
  /\ flushes \in [Flushes -> {"idle", "sent", "ok", "err"}]
  /\ Len(channel) <= ChannelCapacity
  /\ writer.batch \in Seq(Appends) /\ writer.flush \in Flushes \cup {NoFlush}
  /\ pending_durable_acks \subseteq DurableAppends
  /\ \A s \in DOMAIN segments : /\ segments[s].recs \in Seq(Appends)
                               /\ segments[s].synced \in 0 .. Len(segments[s].recs)

OnDisk(a) ==
  \E s \in DOMAIN segments : \E i \in 1 .. segments[s].synced : segments[s].recs[i] = a

\* append_durable: "When this returns Ok, the record is durable on disk".  Through
\* batches, rolls, failed writes, crashes and reopening, a confirmed record is
\* in the synced part of a segment, unless compact_below deleted its segment.
DurableSurvives ==
  \A a \in DurableAppends : callers[a] = "ok" => OnDisk(a) \/ a \in lost

\* flush: once it returns Ok, every record queued before it is on disk, also the
\* ones that a roll left in an earlier segment.
FlushCovers ==
  \A f \in Flushes : flushes[f] = "ok" => \A a \in before[f] : OnDisk(a) \/ a \in lost

\* The index and the files agree while the writer, the compactor and recovery
\* change both: an entry leads to the record with its id, and a record in a
\* file has its entry as soon as write_batch is past the insertion.
IndexAgrees ==
  up = "up" =>
    /\ \A id \in DOMAIN index :
         index[id].seq \in DOMAIN segments =>
           /\ index[id].pos \in 1 .. Len(segments[index[id].seq].recs)
           /\ ids[segments[index[id].seq].recs[index[id].pos]] = id
    /\ writer.pc \notin {"index", "stopped"} =>
         \A a \in Stored : ids[a] \in DOMAIN index

\* No two records that are stored or on their way have the same id, also when
\* next_id was rebuilt from a log that lost its end.
IdsUnique ==
  LET present == {a \in Appends : callers[a] \in {"built", "queued"}}
                 \cup Stored \cup Underway
  IN \A a, b \in present : ids[a] = ids[b] => a = b

\* compact_below: "Delete WAL segments where every record has id <=
\* safe_threshold".  A segment older than the one that was active when the
\* compaction began goes only if it holds no record above the threshold.
CompactionSafe ==
  [][\A s \in DOMAIN segments \ DOMAIN segments' :
       s < compactor.active =>
         \A a \in ToSet(segments[s].recs) : ids[a] <= compactor.threshold]_vars

\* Every durable append that was queued is answered, whatever the writer meets.
AppendsAnswered ==
  \A a \in DurableAppends : callers[a] = "queued" ~> callers[a] \in {"ok", "err"}

\* compact_below: "Never deletes the active segment".
ActiveKept == up = "up" => current_segment_seq \in DOMAIN segments

\* The ids iterate_from(from) returns: from the place of the smallest id that
\* is not below from, to the end of the last segment.
IterateFrom(from) ==
  LET matching == {id \in DOMAIN index : id >= from}
      min_id   == Min(matching)
      start    == index[min_id]
  IN IF matching = {} THEN {}
     ELSE {id \in {ids[a] : a \in UNION {
                     {segments[s].recs[i] : i \in (IF s = start.seq THEN start.pos ELSE 1)
                                                  .. Len(segments[s].recs)} :
                     s \in {q \in DOMAIN segments : q >= start.seq}}} : id >= min_id}

\* iterate_from: "Iterate over all records starting at the first record whose id
\* is >= from_id".  No record of the log with such an id is left out.
IterateComplete ==
  up = "up" /\ writer.pc # "index" =>
    \A a \in Stored : ids[a] \in IterateFrom(1)

\* readme.md: "Torn / partial trailing records are treated as not-present rather
\* than fatal".  Only a segment without a header keeps a log from being opened.
TornTailTolerated == up = "failed" => \E s \in DOMAIN segments : ~segments[s].header

-----------------------------------------------------------------------------
(* The log as its callers see it.                                          *)

\* Where the record of a is in its life, and what its caller was told.
Life(a) ==
  IF callers[a] \in {"idle", "built"} THEN "new"
  ELSE IF a \in lost THEN "deleted"
  ELSE IF \E s \in DOMAIN segments : Contains(segments[s].recs, a)
       THEN IF OnDisk(a) THEN "synced" ELSE "written"
  ELSE IF writer.pc # "stopped" /\ (Contains(channel, <<"record", a>>) \/ Contains(writer.batch, a))
       THEN "queued" ELSE "dropped"

Answer(a) ==
  CASE callers[a] \in {"idle", "built", "queued"} -> "none"
    [] callers[a] \in {"accepted", "ok"}          -> "ok"
    [] callers[a] = "err"                         -> "err"

Log == INSTANCE DurableLog
  WITH Records <- Appends, Durable <- DurableAppends,
       life   <- [a \in Appends |-> Life(a)],
       answer <- [a \in Appends |-> Answer(a)]

\* The log implements the abstract durable log: through batching, rolls, failed
\* writes, compaction, crashes and reopening, a record only goes forward in its
\* life, a synced one is never dropped, one sync covers all that was written, and
\* append_durable returns Ok from the sync that finds its record written.
LogContract == Log!LogSpec
=============================================================================
