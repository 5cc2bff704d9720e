------------------------------ MODULE Recovery ------------------------------
(***************************************************************************)
(* What a restarted broker remembers: publish_durable, acks and their      *)
(* journal, checkpoints, compaction and replay (core/src/lib.rs), driven   *)
(* as the daemon (blipmqd/src/main.rs) and the recovery tests drive them.  *)
(*                                                                         *)
(* One topic; a message is a number.  The log (wal/src/lib.rs, see Wal) is *)
(* the set of its records.  A record takes its id before it enters the     *)
(* writer's channel, so the order of the file, pos, is not the order of    *)
(* the ids.  A subscriber's queue (see SubscriberQueue) is the set of      *)
(* messages it holds, waiting or in flight.                                *)
(***************************************************************************)
EXTENDS Integers, FiniteSets, FiniteSetsExt, Maps

CONSTANTS
  Clients,         \* the client ids that subscribe
  Messages,        \* 1..n : the calls of publish_durable, in the order they start
  SegmentRecords,  \* WalConfig::segment_bytes, in records
  MaxIds,          \* bound: the highest id the log gives
  MaxCheckpoints,  \* bound: rounds of the checkpoint task
  MaxCrashes       \* bound: crashes

ASSUME RecoveryAssumption ==
  /\ Messages \subseteq Nat \ {0} /\ 0 \notin Clients
  /\ SegmentRecords \in Nat \ {0}
  /\ MaxIds \in Nat /\ MaxCheckpoints \in Nat /\ MaxCrashes \in Nat

VARIABLES
  up,         \* "down", "opened" (before replay) or "up"
  log,        \* the records written to segments, removed ones until the next start
  files,      \* the segments in the directory
  written,    \* the position of the last record
  synced,     \* records up to this position are on disk
  active,     \* the number of the active segment
  next_id,    \* WriteAheadLog::next_id
  published,  \* message -> "idle", "begun", "queued", "durable", "ok", "stored" or "err"
  ids,        \* message -> its WAL id, 0 before
  attached,   \* the clients with a subscription
  held,       \* client -> the messages in its queue
  cursors,    \* Broker::ack_cursors: client -> highest acked id
  journal,    \* the spawned appends: <<client, acked id, the ack record's id or 0>>
  checkpoint, \* the file checkpoint.snap
  replaced,   \* the checkpoint that file replaced
  task,       \* the checkpoint task: pc, rounds, snapshot, compact_below's locals
  crashes,
  acked,      \* history: client -> the messages it acked
  settled,    \* history: client -> the acked messages whose ack record is on disk
  unclaimed,  \* history: client -> the highest snapshot_id used while it had no cursor
  raced       \* history: messages in a segment that compact_below took for a straggler

memory == <<attached, held, cursors, journal>>
history == <<acked, settled, unclaimed, raced>>
vars == <<up, log, files, written, synced, active, next_id, published, ids, memory,
          checkpoint, replaced, task, crashes, history>>

NoMessage == 0
NoClient == 0

\* CheckpointSnapshot::empty, also what replay starts from without a file.
NoCheckpoint == [snapshot_id |-> 0, cursors |-> NoKeys]

MaxId(records) == Max({0} \cup {r.id : r \in records})

Init ==
  /\ up = "down"
  /\ log = {} /\ files = {} /\ written = 0 /\ synced = 0 /\ active = 1 /\ next_id = 1
  /\ published = [m \in Messages |-> "idle"]
  /\ ids = [m \in Messages |-> 0]
  /\ attached = {} /\ held = [c \in Clients |-> {}]
  /\ cursors = NoKeys /\ journal = {}
  /\ checkpoint = NoCheckpoint /\ replaced = NoCheckpoint
  /\ task = [pc |-> "idle", rounds |-> 0, snap |-> NoCheckpoint, seen |-> 0, segs |-> {}]
  /\ crashes = 0
  /\ acked = [c \in Clients |-> {}]
  /\ settled = [c \in Clients |-> {}]
  /\ unclaimed = [c \in Clients |-> 0]
  /\ raced = {}

\* The broker serves.  Bound: after the last crash only the restart is looked at.
Running == up = "up" /\ crashes < MaxCrashes

-----------------------------------------------------------------------------
(* The log.                                                                *)

\* Records up to position n are on disk.
SyncTo(n) ==
  /\ synced' = n
  /\ settled' = [c \in Clients |-> settled[c] \cup
       {m \in acked[c] : \E r \in log : /\ r.client = c /\ r.acked = ids[m]
                                        /\ r.pos <= n /\ r.seg \in files}]

\* WalEntry: a published message, or a client's ack of one.
MessageEntry(m) == [msg |-> m, client |-> NoClient, acked |-> 0]
AckEntry(c, acked_wal_id) == [msg |-> NoMessage, client |-> c, acked |-> acked_wal_id]

\* The writer puts the record behind the others; a full segment is synced and
\* closed first.  What is written to a segment that was removed goes nowhere.
Append(id, entry) ==
  LET full == Cardinality({r \in log : r.seg = active}) >= SegmentRecords
      seg  == IF full THEN active + 1 ELSE active
  IN /\ log' = log \cup {[id |-> id, pos |-> written + 1, seg |-> seg, msg |-> entry.msg,
                          client |-> entry.client, acked |-> entry.acked]}
     /\ written' = written + 1
     /\ active' = seg
     /\ files' = IF full THEN files \cup {seg} ELSE files
     /\ raced' = IF seg \in files' THEN raced ELSE raced \cup ({entry.msg} \ {NoMessage})
     /\ IF full THEN SyncTo(written) ELSE UNCHANGED <<synced, settled>>

\* The writer's fsync; the publishers that wait for it are answered.
sync ==
  /\ Running /\ synced < written
  /\ SyncTo(written)
  /\ published' = [m \in Messages |-> IF published[m] = "queued" THEN "durable" ELSE published[m]]
  /\ UNCHANGED <<up, log, files, written, active, next_id, ids, memory, checkpoint, replaced, task,
                 crashes, acked, unclaimed, raced>>

-----------------------------------------------------------------------------
(* Publishers and subscribers.                                             *)

\* publish_durable up to build_request, which takes the id.
\* Bound: the calls start in the order of their numbers.
publish_durable(m) ==
  /\ Running /\ published[m] = "idle" /\ next_id <= MaxIds
  /\ \A n \in Messages : n < m => published[n] # "idle"
  /\ ids' = [ids EXCEPT ![m] = next_id]
  /\ next_id' = next_id + 1
  /\ published' = [published EXCEPT ![m] = "begun"]
  /\ UNCHANGED <<up, log, files, written, synced, active, memory, checkpoint, replaced, task,
                 crashes, history>>

\* send_request and the writer's write, in the order of the channel; or the
\* channel is full and the publisher gets an error.
append_durable(m) ==
  /\ Running /\ published[m] = "begun"
  /\ \/ /\ Append(ids[m], MessageEntry(m))
        /\ published' = [published EXCEPT ![m] = "queued"]
     \/ /\ published' = [published EXCEPT ![m] = "err"]
        /\ UNCHANGED <<log, files, written, synced, active, settled, raced>>
  /\ UNCHANGED <<up, next_id, ids, memory, checkpoint, replaced, task, crashes, acked, unclaimed>>

\* ... and from there: the fan-out, then Ok.
publish_with_wal_id(m) ==
  /\ Running /\ published[m] = "durable"
  /\ held' = [c \in Clients |-> IF c \in attached THEN held[c] \cup {m} ELSE held[c]]
  /\ published' = [published EXCEPT ![m] = "ok"]
  /\ UNCHANGED <<up, log, files, written, synced, active, next_id, ids, attached, cursors, journal,
                 checkpoint, replaced, task, crashes, history>>

\* The tests subscribe known clients before they call replay; the daemon's
\* clients come after it.
subscribe(c) ==
  /\ up \in {"opened", "up"} /\ c \notin attached
  /\ attached' = attached \cup {c}
  /\ UNCHANGED <<up, log, files, written, synced, active, next_id, published, ids, held, cursors, journal,
                 checkpoint, replaced, task, crashes, history>>

\* The client's connection ends; its queue goes with it.
unsubscribe_connection(c) ==
  /\ Running /\ c \in attached
  /\ attached' = attached \ {c}
  /\ held' = [held EXCEPT ![c] = {}]
  /\ UNCHANGED <<up, log, files, written, synced, active, next_id, published, ids, cursors, journal,
                 checkpoint, replaced, task, crashes, history>>

\* The queue drops a message: TTL, retries or capacity.  With a dlq_suffix the
\* tick also publishes it, QoS 0 and outside the log, to another topic.
drop(c, m) ==
  /\ Running /\ m \in held[c]
  /\ held' = [held EXCEPT ![c] = @ \ {m}]
  /\ UNCHANGED <<up, log, files, written, synced, active, next_id, published, ids, attached, cursors, journal,
                 checkpoint, replaced, task, crashes, history>>

\* Slip: the cursor takes the next id to deliver.
Raise_next(cs, c, id) == Put(cs, c, id + 1)

Raise(cs, c, id) ==
  Put(cs, c, IF c \in DOMAIN cs /\ cs[c] > id THEN cs[c] ELSE id)

\* Broker::ack, for any message the client holds: it may ack in any order.
ack(c, m) ==
  /\ Running /\ m \in held[c]
  /\ held' = [held EXCEPT ![c] = @ \ {m}]
  /\ cursors' = Raise(cursors, c, ids[m])
  /\ journal' = journal \cup {<<c, ids[m], 0>>}
  /\ acked' = [acked EXCEPT ![c] = @ \cup {m}]
  /\ UNCHANGED <<up, log, files, written, synced, active, next_id, published, ids, attached,
                 checkpoint, replaced, task, crashes, settled, unclaimed, raced>>

\* The spawned task takes an id for the ack record ...
journal_ack(j) ==
  /\ Running /\ j \in journal /\ j[3] = 0 /\ next_id <= MaxIds
  /\ journal' = (journal \ {j}) \cup {<<j[1], j[2], next_id>>}
  /\ next_id' = next_id + 1
  /\ UNCHANGED <<up, log, files, written, synced, active, published, ids, attached, held, cursors,
                 checkpoint, replaced, task, crashes, history>>

\* ... and appends it, or finds the channel full and gives up.
append_ack(j) ==
  /\ Running /\ j \in journal /\ j[3] # 0
  /\ journal' = journal \ {j}
  /\ \/ Append(j[3], AckEntry(j[1], j[2]))
     \/ UNCHANGED <<log, files, written, synced, active, settled, raced>>
  /\ UNCHANGED <<up, next_id, published, ids, attached, held, cursors, checkpoint, replaced, task,
                 crashes, acked, unclaimed>>

-----------------------------------------------------------------------------
(* The checkpoint task.                                                    *)

\* "The smallest acked-wal-id across all known consumers".
current_snapshot ==
  [snapshot_id |-> IF cursors = NoKeys THEN 0 ELSE Min({cursors[c] : c \in DOMAIN cursors}),
   cursors     |-> cursors]

\* Clients without a cursor have no part in the snapshot.
SnapshotUsed ==
  unclaimed' = [c \in Clients |->
                  IF c \in DOMAIN cursors \/ unclaimed[c] > current_snapshot.snapshot_id
                  THEN unclaimed[c] ELSE current_snapshot.snapshot_id]

\* write_checkpoint_to: the snapshot, then (after two awaits) the rename.
checkpoint_capture ==
  /\ Running /\ task.pc = "idle" /\ task.rounds < MaxCheckpoints
  /\ task' = [task EXCEPT !.pc = "captured", !.rounds = @ + 1, !.snap = current_snapshot]
  /\ SnapshotUsed
  /\ UNCHANGED <<up, log, files, written, synced, active, next_id, published, ids, memory,
                 checkpoint, replaced, crashes, acked, settled, raced>>

checkpoint_rename ==
  /\ Running /\ task.pc = "captured"
  /\ checkpoint' = task.snap
  /\ replaced' = checkpoint
  /\ task' = [task EXCEPT !.pc = "written", !.snap = NoCheckpoint]
  /\ UNCHANGED <<up, log, files, written, synced, active, next_id, published, ids, memory, crashes, history>>

\* The write fails: the round ends without compaction.
checkpoint_fails ==
  /\ Running /\ task.pc = "captured"
  /\ task' = [task EXCEPT !.pc = "idle", !.snap = NoCheckpoint]
  /\ UNCHANGED <<up, log, files, written, synced, active, next_id, published, ids, memory, checkpoint,
                 replaced, crashes, history>>

\* Slip: a segment goes when its first record is covered.
CoveredByFirst(safe) ==
  {s \in {r.seg : r \in log} \ {active} : \E r \in log : r.seg = s /\ r.id <= safe}

\* The closed segments all of whose records are covered, by the index.
Covered(safe) ==
  {s \in {r.seg : r \in log} \ {active} : \A r \in log : r.seg = s => r.id <= safe}

\* The threshold is the snapshot of this moment, not the one that was written.
\* compact_below reads which segment is active and what the index holds: the
\* segments it will spare.
compact_below ==
  /\ Running /\ task.pc = "written"
  /\ LET safe == current_snapshot.snapshot_id
     IN task' = IF safe > 0
                THEN [task EXCEPT !.pc = "listing", !.seen = active,
                        !.segs = ({active} \cup {r.seg : r \in log}) \ Covered(safe)]
                ELSE [task EXCEPT !.pc = "idle"]
  /\ SnapshotUsed
  /\ UNCHANGED <<up, log, files, written, synced, active, next_id, published, ids, memory,
                 checkpoint, replaced, crashes, acked, settled, raced>>

\* The round of the checkpoint task is over.
RoundEnded == [task EXCEPT !.pc = "idle", !.seen = 0, !.segs = {}]

\* Then it lists the directory.  A segment the index did not know is taken for a
\* straggler, one the writer has opened in the meantime too.
compact_list ==
  /\ Running /\ task.pc = "listing"
  /\ LET to_delete == files \ task.segs
     IN task' = IF to_delete = {} THEN RoundEnded
                ELSE [task EXCEPT !.pc = "removing", !.segs = to_delete]
  /\ UNCHANGED <<up, log, files, written, synced, active, next_id, published, ids, memory,
                 checkpoint, replaced, crashes, history>>

\* An ack record goes without its message: with a segment that was no straggler,
\* or because a record with a higher id was written before it and holds an older
\* segment back.
Forgotten(c, seg) ==
  {m \in Messages : \E a \in log :
     /\ a.seg = seg /\ a.client = c /\ a.acked = ids[m]
     /\ seg > task.seen \/ \E q \in log : q.pos < a.pos /\ q.id > a.id}

\* It removes the files, one by one.
compact_remove ==
  /\ Running /\ task.pc = "removing"
  /\ LET seg == Min(task.segs)
     IN /\ files' = files \ {seg}
        /\ task' = IF task.segs = {seg} THEN RoundEnded ELSE [task EXCEPT !.segs = @ \ {seg}]
        /\ raced' = IF seg > task.seen
                    THEN raced \cup ({r.msg : r \in {q \in log : q.seg = seg}} \ {NoMessage})
                    ELSE raced
        /\ settled' = [c \in Clients |-> settled[c] \ Forgotten(c, seg)]
  /\ UNCHANGED <<up, log, written, synced, active, next_id, published, ids, memory,
                 checkpoint, replaced, crashes, acked, unclaimed>>

\* An I/O error ends the call.
compact_fails ==
  /\ Running /\ task.pc \in {"listing", "removing"}
  /\ task' = RoundEnded
  /\ UNCHANGED <<up, log, files, written, synced, active, next_id, published, ids, memory,
                 checkpoint, replaced, crashes, history>>

-----------------------------------------------------------------------------
(* Crash and restart.                                                      *)

\* The log keeps what is synced and some prefix of the rest, in the files that
\* are left.  Neither the checkpoint file nor its rename is synced: after the
\* crash the file is the new one, the one before, or unreadable.
crash ==
  /\ up # "down" /\ crashes < MaxCrashes
  /\ up' = "down" /\ crashes' = crashes + 1
  /\ written' \in synced..written
  /\ log' = {r \in log : r.pos <= written' /\ r.seg \in files}
  /\ checkpoint' \in {checkpoint, replaced, NoCheckpoint}
  /\ replaced' = checkpoint'
  /\ published' = [m \in Messages |->
       CASE published[m] \in {"begun", "queued"} -> "err" [] published[m] = "durable" -> "stored"
         [] OTHER -> published[m]]
  /\ attached' = {} /\ held' = [c \in Clients |-> {}]
  /\ cursors' = NoKeys /\ journal' = {}
  /\ task' = [pc |-> "idle", rounds |-> task.rounds, snap |-> NoCheckpoint, seen |-> 0, segs |-> {}]
  /\ UNCHANGED <<files, synced, active, next_id, ids, history>>

\* WriteAheadLog::open_with_config: an empty directory gets segment 1, and the
\* last segment is the active one.
open ==
  /\ up = "down"
  /\ up' = "opened"
  /\ files' = IF files = {} THEN {1} ELSE files
  /\ active' = IF files = {} THEN 1 ELSE Max(files)
  /\ next_id' = MaxId(log) + 1
  /\ synced' = written
  /\ UNCHANGED <<log, written, published, ids, memory, checkpoint, replaced, task, crashes, history>>

\* Slip: replay starts at the snapshot's highest cursor.
ReplayFromHighest == {r \in log : \A c \in DOMAIN checkpoint.cursors : r.id > checkpoint.cursors[c]}

\* iterate_from begins at the record with the smallest id from from_id on and
\* reads on in file order: an earlier record with a higher id is not met.
iterate_from(from_id) ==
  LET above == {r \in log : r.id >= from_id}
      first == {s \in above : \A r \in above : s.id <= r.id}
  IN {r \in above : \A s \in first : r.pos >= s.pos}

\* The records replay walks.
Replayed == iterate_from(checkpoint.snapshot_id + 1)

\* Slip: the ack records of the log are not consulted.
CursorsOfCheckpoint == checkpoint.cursors

\* Pass 1: the checkpoint's cursors, raised by the ack records.
RebuiltCursors ==
  LET of(c) == {checkpoint.cursors[d] : d \in {c} \cap DOMAIN checkpoint.cursors}
               \cup {r.acked : r \in {s \in Replayed : s.client = c}}
  IN [c \in {d \in Clients : of(d) # {}} |-> Max(of(c))]

PastCursor(c, id) == c \in DOMAIN RebuiltCursors => id > RebuiltCursors[c]

\* Pass 2: each subscriber gets the messages past its cursor.
replay_from_wal_with_checkpoint ==
  /\ up = "opened"
  /\ up' = "up"
  /\ cursors' = RebuiltCursors
  /\ held' = [c \in Clients |->
       IF c \in attached
       THEN held[c] \cup {r.msg : r \in {s \in Replayed : s.msg # NoMessage /\ PastCursor(c, s.id)}}
       ELSE held[c]]
  /\ UNCHANGED <<log, files, written, synced, active, next_id, published, ids, attached, journal,
                 checkpoint, replaced, task, crashes, history>>

-----------------------------------------------------------------------------

Next ==
  \/ sync
  \/ \E m \in Messages : publish_durable(m)
  \/ \E m \in Messages : append_durable(m)
  \/ \E m \in Messages : publish_with_wal_id(m)
  \/ \E c \in Clients : subscribe(c)
  \/ \E c \in Clients : unsubscribe_connection(c)
  \/ \E c \in Clients, m \in Messages : drop(c, m)
  \/ \E c \in Clients, m \in Messages : ack(c, m)
  \/ \E j \in journal : journal_ack(j)
  \/ \E j \in journal : append_ack(j)
  \/ checkpoint_capture
  \/ checkpoint_rename
  \/ checkpoint_fails
  \/ compact_below
  \/ compact_list
  \/ compact_remove
  \/ compact_fails
  \/ crash
  \/ open
  \/ replay_from_wal_with_checkpoint

Spec == Init /\ [][Next]_vars

-----------------------------------------------------------------------------
(* Properties.                                                             *)

\* Types of the log's, the broker's and the checkpoint task's state.
Records == [id : Nat \ {0}, pos : Nat \ {0}, seg : Nat \ {0}, msg : Messages \cup {NoMessage},
            client : Clients \cup {NoClient}, acked : Nat]

IsCursorMap(f) == DOMAIN f \subseteq Clients /\ f \in [DOMAIN f -> Nat]
IsSnapshot(s)  == s.snapshot_id \in Nat /\ IsCursorMap(s.cursors)

TypeOK ==
  /\ up \in {"down", "opened", "up"}
  /\ log \subseteq Records
  /\ files \subseteq Nat \ {0} /\ written \in Nat /\ synced \in Nat
  /\ active \in Nat \ {0} /\ next_id \in Nat \ {0}
  /\ published \in [Messages -> {"idle", "begun", "queued", "durable", "ok", "stored", "err"}]
  /\ ids \in [Messages -> Nat]
  /\ attached \subseteq Clients /\ held \in [Clients -> SUBSET Messages]
  /\ IsCursorMap(cursors) /\ journal \subseteq Clients \X Nat \X Nat
  /\ IsSnapshot(checkpoint) /\ IsSnapshot(replaced) /\ IsSnapshot(task.snap)
  /\ task = [pc |-> task.pc, rounds |-> task.rounds, snap |-> task.snap,
             seen |-> task.seen, segs |-> task.segs]
  /\ task.pc \in {"idle", "captured", "written", "listing", "removing"} /\ task.rounds \in Nat
  /\ task.seen \in Nat /\ task.segs \subseteq Nat \ {0}
  /\ crashes \in Nat
  /\ acked \in [Clients -> SUBSET Messages] /\ settled \in [Clients -> SUBSET Messages]
  /\ unclaimed \in [Clients -> Nat] /\ raced \subseteq Messages

\* publish_durable got its record on disk, whether or not it came to say so.
Confirmed == {m \in Messages : published[m] \in {"durable", "ok", "stored"}}

\* The client acked nothing at or above m, and no snapshot taken while it had
\* no cursor covers m.
Owed(c, m) ==
  /\ m \in Confirmed
  /\ ids[m] > unclaimed[c]
  /\ \A n \in acked[c] : ids[n] < ids[m]

\* Compaction and crashes never take a confirmed message that some client is
\* still owed, whatever mix of acks, lost ack records, ids written out of order,
\* checkpoints, compactions and crashes came before.  There is one way to lose it,
\* the roll in the middle of compact_below (see Wal, CompactionSafe): raced.
Retained ==
  \A c \in Clients, m \in Messages :
    Owed(c, m) /\ m \notin raced =>
      \E r \in log : r.msg = m /\ r.seg \in files /\ (up = "up" => r.pos <= synced)

\* A record that replay may begin at has a lower id than m's and was written after it.
Overtaken(m) ==
  \E r, s \in log : /\ r.msg = m /\ r.pos < s.pos
                    /\ checkpoint.snapshot_id < s.id /\ s.id <= r.id

\* Replay gives an attached client every message it is owed: neither an old nor
\* an unreadable checkpoint, nor ack records that outlived it, hide one.  Only a
\* record that iterate_from may begin behind can be missed.
ReplayComplete ==
  [][up = "opened" /\ up' = "up" =>
       \A c \in attached, m \in Messages :
         Owed(c, m) /\ m \notin raced /\ ~ Overtaken(m) => m \in held'[c]]_vars

\* readme.md: "A client that ACKed 80% before a crash sees only the unacked 20%
\* on restart".  A message whose ack record reached the disk is not replayed to
\* its client, even when the checkpoint is lost and the record was compacted
\* (unless it was compacted before the message's, Forgotten).
AckRemembered ==
  [][up = "opened" /\ up' = "up" =>
       \A c \in attached : held'[c] \cap settled[c] = {}]_vars

\* A cursor, in memory, in the file or in the log, never runs ahead of its
\* client: it is the id of a message that client acked.
CursorHonest ==
  LET backed(c, id) == \E m \in acked[c] : ids[m] = id
  IN /\ \A c \in DOMAIN cursors : backed(c, cursors[c])
     /\ \A c \in DOMAIN checkpoint.cursors : backed(c, checkpoint.cursors[c])
     /\ \A r \in log : r.client # NoClient => backed(r.client, r.acked)

\* docs/ARCHITECTURE.md: "Messages that were never ACKed before crash will be
\* redelivered", here to the clients that are back before replay.
UnackedRedelivered ==
  [][up = "opened" /\ up' = "up" =>
       \A c \in attached, m \in Confirmed : m \notin acked[c] => m \in held'[c]]_vars

\* docs/RECOVERY.md: "Monotonically increasing logical record id".  No id is
\* given twice to messages that were confirmed.
IdsNeverReused ==
  \A m, n \in Confirmed : m < n => ids[m] < ids[n]
=============================================================================
