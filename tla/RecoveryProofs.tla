--------------------------- MODULE RecoveryProofs ---------------------------
(***************************************************************************)
(* Proofs about Recovery, for every set of clients and of messages, every  *)
(* size of a segment and any number of checkpoints and crashes.            *)
(***************************************************************************)
EXTENDS Recovery, WellFoundedInduction, TLAPS

-----------------------------------------------------------------------------
(* Extreme elements.                                                       *)

LEMMA LeastNat ==
  ASSUME NEW S \in SUBSET Nat, S # {}
  PROVE  \E x \in S : \A y \in S : x <= y
  <1> DEFINE R == {ss \in Nat \X Nat : ss[1] < ss[2]}
  <1>1. IsWellFoundedOn(R, Nat)
    BY NatLessThanWellFounded DEF OpToRel
  <1>2. \A a, b \in Nat : a < b => <<a, b>> \in R
    OBVIOUS
  <1> HIDE DEF R
  <1>3. PICK x \in S : \A y \in S : ~ (<<y, x>> \in R)
    BY <1>1, WFMin
  <1>4. \A y \in S : ~ (y < x)
    BY <1>2, <1>3
  <1> QED
    BY <1>4

LEMMA MinFacts ==
  ASSUME NEW S \in SUBSET Nat, S # {}
  PROVE  Min(S) \in S /\ \A y \in S : Min(S) <= y
  BY LeastNat DEF Min

LEMMA MaxFacts ==
  ASSUME NEW S \in SUBSET Nat, S # {}, NEW bound \in Nat, \A x \in S : x <= bound
  PROVE  Max(S) \in S /\ \A y \in S : Max(S) >= y
  <1> DEFINE T == {bound - x : x \in S}
  <1>0. \A x \in S : bound - x \in Nat
    OBVIOUS
  <1>1. T \in SUBSET Nat /\ T # {}
    BY <1>0
  <1>2. PICK t \in T : \A u \in T : t <= u
    BY <1>1, LeastNat
  <1>3. PICK x \in S : t = bound - x
    BY <1>2
  <1>4. ASSUME NEW y \in S PROVE x >= y
    <2>1. bound - x <= bound - y
      BY <1>2, <1>3
    <2> QED
      BY <2>1
  <1>5. \E z \in S : \A y \in S : z >= y
    BY <1>4
  <1> QED
    BY <1>5 DEF Max

-----------------------------------------------------------------------------
(* The inductive invariant.                                                *)

Backed(c, id) == \E m \in acked[c] : ids[m] = id

\* The log: positions and segments grow together; a message has its record under
\* the id it was given, and an ack record has a higher id than the message it
\* acks and lies behind its record.  What is in no file is gone at the next start.
LogInv ==
  /\ \A r \in log : r.id < next_id /\ r.pos <= written /\ r.seg <= active
  /\ \A f \in files : f <= active
  /\ \A r, s \in log : r.pos <= s.pos => r.seg <= s.seg
  /\ \A r \in log : r.msg # NoMessage =>
       r.client = NoClient /\ ids[r.msg] = r.id /\ published[r.msg] \notin {"idle", "begun"}
  /\ \A r \in log : r.client # NoClient => r.acked < r.id
  /\ \A r, a \in log : r.msg # NoMessage /\ a.client # NoClient /\ a.acked = r.id => r.pos < a.pos
  /\ synced <= written
  /\ up # "up" => \A r \in log : r.seg \in files
  /\ up = "opened" => synced = written

\* What is in memory belongs to this run of the broker, whose ids are below
\* next_id; after a crash older ids may be above it.
MemoryInv ==
  /\ \A m \in Messages : published[m] \in {"begun", "queued", "durable"} =>
       up = "up" /\ ids[m] # 0 /\ ids[m] < next_id
  /\ \A c \in Clients : \A m \in held[c] : published[m] \notin {"idle", "begun"} /\ ids[m] < next_id
  /\ \A c \in Clients : \A m \in acked[c] : published[m] \notin {"idle", "begun"}
  /\ \A c \in Clients : settled[c] \subseteq acked[c]
  /\ up # "up" => journal = {} /\ \A c \in Clients : held[c] = {}
  /\ \A j \in journal : /\ Backed(j[1], j[2]) /\ j[2] < next_id
                        /\ j[3] # 0 => j[2] < j[3] /\ j[3] < next_id

\* The id of a message that is not written yet is no other message's of this run,
\* and nobody acked it.
FreshInv ==
  \A m \in Messages : published[m] = "begun" =>
    /\ \A r \in log : r.client # NoClient => r.acked # ids[m]
    /\ \A j \in journal : j[2] # ids[m]
    /\ \A c \in Clients : \A n \in held[c] : ids[n] # ids[m]
    /\ \A n \in Messages \ {m} : published[n] \in {"begun", "queued", "durable"} => ids[n] # ids[m]

\* A snapshot covers no more than each client acked, or was declared unclaimed.
Sound(s) ==
  /\ \A c \in DOMAIN s.cursors : Backed(c, s.cursors[c])
  /\ \A c \in Clients : \/ c \in DOMAIN s.cursors /\ s.snapshot_id <= s.cursors[c]
                        \/ s.snapshot_id <= unclaimed[c]

CursorInv ==
  /\ \A c \in DOMAIN cursors : Backed(c, cursors[c])
  /\ Sound(checkpoint) /\ Sound(replaced) /\ Sound(task.snap)
  /\ \A r \in log : r.client # NoClient => Backed(r.client, r.acked)

\* Not claimed: no ack of the client and no snapshot without it reaches m.
Wanted(c, m) == ids[m] > unclaimed[c] /\ \A n \in acked[c] : ids[n] < ids[m]

\* compact_below has chosen the segment, with all its records in the index.
Doomed(seg) ==
  /\ seg < task.seen
  /\ \/ task.pc = "listing" /\ seg \notin task.segs
     \/ task.pc = "removing" /\ seg \in task.segs

\* Nobody wants what is in a chosen segment, then or later; and with a segment
\* the older ones are chosen, unless an id written out of order holds them back.
CompactInv ==
  /\ task.pc \in {"listing", "removing"} => up = "up" /\ task.seen <= active
  /\ task.pc = "listing" => task.seen \in task.segs
  /\ task.pc = "removing" => task.seen \notin task.segs /\ task.segs # {}
  /\ \A r \in log : r.msg # NoMessage /\ Doomed(r.seg) => \A c \in Clients : ~ Wanted(c, r.msg)
  /\ \A r, a \in log :
       Doomed(a.seg) /\ r.seg < a.seg /\ r.seg \in files =>
         Doomed(r.seg) \/ \E q \in log : q.pos < a.pos /\ q.id > a.id

\* A message some client wants is in the log from its append on, and on disk
\* once it is confirmed.
KeptInv ==
  \A c \in Clients, m \in Messages :
    published[m] \in {"queued", "durable", "ok", "stored"} /\ Wanted(c, m) /\ m \notin raced =>
      \E r \in log : /\ r.msg = m /\ r.seg \in files
                     /\ up = "up" /\ published[m] # "queued" => r.pos <= synced

\* While the record of a message is there, so is an ack record that settled it.
SettledInv ==
  \A c \in Clients : \A m \in settled[c] : \A r \in log : r.msg = m /\ r.seg \in files =>
    \E a \in log : /\ a.client = c /\ a.acked = r.id /\ a.seg \in files
                   /\ up = "up" => a.pos <= synced

Inv == /\ TypeOK /\ LogInv /\ MemoryInv /\ FreshInv
       /\ CursorInv /\ CompactInv /\ KeptInv /\ SettledInv

Phases == {"idle", "begun", "queued", "durable", "ok", "stored", "err"}
Entries == [msg : Messages \cup {NoMessage}, client : Clients \cup {NoClient}, acked : Nat]

-----------------------------------------------------------------------------
(* What the operations do.                                                 *)

LEMMA MaxIdFacts ==
  ASSUME TypeOK, LogInv
  PROVE  MaxId(log) \in Nat /\ MaxId(log) < next_id /\ \A r \in log : r.id <= MaxId(log)
  <1> DEFINE S == {0} \cup {r.id : r \in log}
  <1>1. S \in SUBSET Nat /\ S # {} /\ next_id - 1 \in Nat
    BY DEF TypeOK, Records
  <1>2. \A x \in S : x <= next_id - 1
    BY DEF TypeOK, Records, LogInv
  <1>3. \A r \in log : r.id \in S
    OBVIOUS
  <1> HIDE DEF S
  <1>4. Max(S) \in S /\ \A y \in S : Max(S) >= y
    BY <1>1, <1>2, MaxFacts
  <1>5. Max(S) \in Nat /\ Max(S) < next_id /\ \A r \in log : r.id <= Max(S)
    BY <1>1, <1>2, <1>3, <1>4 DEF TypeOK, Records
  <1> QED
    BY <1>5 DEF MaxId, S

\* What open makes of the directory.
LEMMA OpenFacts ==
  ASSUME TypeOK, LogInv, open
  PROVE  /\ files' \subseteq Nat \ {0} /\ active' \in Nat \ {0} /\ files \subseteq files'
         /\ \A f \in files' : f <= active'
         /\ \A r \in log : r.seg \in files /\ r.seg <= active'
  <1>1. /\ files' = IF files = {} THEN {1} ELSE files
        /\ active' = IF files = {} THEN 1 ELSE Max(files)
        /\ \A r \in log : r.seg \in files
    BY DEF open, LogInv
  <1>2. CASE files = {}
    BY <1>1, <1>2
  <1>3. CASE files # {}
    <2>1. files \in SUBSET Nat /\ active \in Nat /\ \A f \in files : f <= active
      BY DEF TypeOK, LogInv
    <2>2. Max(files) \in files /\ \A f \in files : Max(files) >= f
      BY <1>3, <2>1, MaxFacts
    <2> QED
      BY <1>1, <1>3, <2>1, <2>2 DEF TypeOK
  <1> QED
    BY <1>2, <1>3

LEMMA SyncFacts ==
  ASSUME TypeOK, NEW n \in Nat, SyncTo(n)
  PROVE  /\ synced' = n /\ settled' \in [Clients -> SUBSET Messages]
         /\ \A c \in Clients : \A m \in settled'[c] :
              \/ m \in settled[c]
              \/ /\ m \in acked[c]
                 /\ \E a \in log : a.client = c /\ a.acked = ids[m] /\ a.pos <= n /\ a.seg \in files
  BY DEF TypeOK, SyncTo

\* A record is written behind the others; what the rotation syncs was written before.
LEMMA AppendFacts ==
  ASSUME TypeOK, LogInv, NEW id \in Nat \ {0}, NEW entry \in Entries, Append(id, entry)
  PROVE  /\ active' \in Nat \ {0} /\ active <= active' /\ written' = written + 1
         /\ \E e \in Records : /\ e.id = id /\ e.pos = written + 1 /\ e.seg = active'
                               /\ e.msg = entry.msg /\ e.client = entry.client /\ e.acked = entry.acked
                               /\ log' = log \cup {e}
         /\ files' = files \/ (active' = active + 1 /\ files' = files \cup {active'})
         /\ raced \subseteq raced' /\ raced' \subseteq Messages
         /\ active' \in files' \/ entry.msg \in raced' \cup {NoMessage}
         /\ synced' \in Nat /\ synced <= synced' /\ synced' <= written
         /\ settled' \in [Clients -> SUBSET Messages]
         /\ \A c \in Clients : \A m \in settled'[c] :
              \/ m \in settled[c]
              \/ /\ m \in acked[c]
                 /\ \E a \in log : a.client = c /\ a.acked = ids[m] /\ a.pos <= synced' /\ a.seg \in files
  <1> DEFINE full == Cardinality({r \in log : r.seg = active}) >= SegmentRecords
             e == [id |-> id, pos |-> written + 1, seg |-> active', msg |-> entry.msg,
                   client |-> entry.client, acked |-> entry.acked]
  <1>1. /\ active' = IF full THEN active + 1 ELSE active
        /\ written' = written + 1
        /\ log' = log \cup {e}
        /\ files' = IF full THEN files \cup {active'} ELSE files
        /\ raced' = IF active' \in files' THEN raced ELSE raced \cup ({entry.msg} \ {NoMessage})
        /\ IF full THEN SyncTo(written) ELSE UNCHANGED <<synced, settled>>
    BY DEF Append
  <1> HIDE DEF full
  <1>2. active' \in Nat \ {0} /\ active <= active' /\ written \in Nat
    BY <1>1 DEF TypeOK
  <1>3. e \in Records
    BY <1>2 DEF Records, Entries
  <1>4. \E x \in Records : /\ x.id = id /\ x.pos = written + 1 /\ x.seg = active'
                           /\ x.msg = entry.msg /\ x.client = entry.client /\ x.acked = entry.acked
                           /\ log' = log \cup {x}
    BY <1>1, <1>3
  <1> HIDE DEF e
  <1>5. /\ files' = files \/ (active' = active + 1 /\ files' = files \cup {active'})
        /\ raced \subseteq raced' /\ raced' \subseteq Messages
        /\ active' \in files' \/ entry.msg \in raced' \cup {NoMessage}
    BY <1>1 DEF TypeOK, Entries
  <1>6. CASE full
    <2>1. synced <= written /\ written <= written
      BY <1>2 DEF LogInv
    <2>2. SyncTo(written)
      BY <1>1, <1>6
    <2> QED
      BY <1>1, <1>2, <1>4, <1>5, <2>1, <2>2, SyncFacts
  <1>7. CASE ~ full
    BY <1>1, <1>2, <1>4, <1>5, <1>7 DEF TypeOK, LogInv
  <1> QED
    BY <1>6, <1>7

LEMMA RaiseFacts ==
  ASSUME NEW f, IsCursorMap(f), NEW c \in Clients, NEW id \in Nat
  PROVE  /\ IsCursorMap(Raise(f, c, id))
         /\ DOMAIN Raise(f, c, id) = DOMAIN f \cup {c}
         /\ \A d \in DOMAIN f \ {c} : Raise(f, c, id)[d] = f[d]
         /\ Raise(f, c, id)[c] = id \/ (c \in DOMAIN f /\ Raise(f, c, id)[c] = f[c])
  BY DEF IsCursorMap, Raise, Put

LEMMA SnapshotFacts ==
  ASSUME TypeOK
  PROVE  /\ IsSnapshot(current_snapshot) /\ current_snapshot.cursors = cursors
         /\ \A c \in DOMAIN cursors : current_snapshot.snapshot_id <= cursors[c]
  <1> DEFINE S == {cursors[c] : c \in DOMAIN cursors}
  <1>0. DOMAIN cursors \subseteq Clients /\ cursors \in [DOMAIN cursors -> Nat]
    BY DEF TypeOK, IsCursorMap
  <1>1. CASE DOMAIN cursors = {}
    <2>1. cursors = NoKeys
      BY <1>0, <1>1 DEF NoKeys
    <2> QED
      BY <1>0, <1>1, <2>1 DEF current_snapshot, IsSnapshot, IsCursorMap
  <1>2. CASE DOMAIN cursors # {}
    <2>1. cursors # NoKeys
      BY <1>2 DEF NoKeys
    <2>2. S \in SUBSET Nat /\ S # {} /\ \A c \in DOMAIN cursors : cursors[c] \in S
      BY <1>0, <1>2
    <2>3. current_snapshot = [snapshot_id |-> Min(S), cursors |-> cursors]
      BY <2>1 DEF current_snapshot
    <2> HIDE DEF S
    <2>4. Min(S) \in S /\ \A y \in S : Min(S) <= y
      BY <2>2, MinFacts
    <2> QED
      BY <1>0, <2>2, <2>3, <2>4 DEF IsSnapshot, IsCursorMap
  <1> QED
    BY <1>1, <1>2

LEMMA UsedFacts ==
  ASSUME TypeOK, SnapshotUsed
  PROVE  /\ unclaimed' \in [Clients -> Nat]
         /\ \A c \in Clients : unclaimed[c] <= unclaimed'[c]
         /\ \A c \in Clients \ DOMAIN cursors : current_snapshot.snapshot_id <= unclaimed'[c]
  <1> DEFINE safe == current_snapshot.snapshot_id
  <1>1. safe \in Nat
    BY SnapshotFacts DEF IsSnapshot
  <1>2. unclaimed' = [c \in Clients |-> IF c \in DOMAIN cursors \/ unclaimed[c] > safe
                                        THEN unclaimed[c] ELSE safe]
    BY DEF SnapshotUsed
  <1> HIDE DEF safe
  <1>3. unclaimed \in [Clients -> Nat]
    BY DEF TypeOK
  <1>4. /\ unclaimed' \in [Clients -> Nat]
        /\ \A c \in Clients : unclaimed[c] <= unclaimed'[c]
        /\ \A c \in Clients \ DOMAIN cursors : safe <= unclaimed'[c]
    BY <1>1, <1>2, <1>3
  <1> QED
    BY <1>4 DEF safe

\* Pass 1 of replay: the highest of what the file and the log say.
LEMMA RebuiltFacts ==
  ASSUME TypeOK, LogInv, CursorInv
  PROVE  /\ IsCursorMap(RebuiltCursors)
         /\ \A c \in DOMAIN RebuiltCursors : Backed(c, RebuiltCursors[c])
         /\ \A c \in Clients : \A s \in Replayed : s.client = c =>
              c \in DOMAIN RebuiltCursors /\ RebuiltCursors[c] >= s.acked
  <1> DEFINE of(c) == {checkpoint.cursors[d] : d \in {c} \cap DOMAIN checkpoint.cursors}
                      \cup {r.acked : r \in {s \in Replayed : s.client = c}}
  <1>0. /\ DOMAIN checkpoint.cursors \subseteq Clients
        /\ checkpoint.cursors \in [DOMAIN checkpoint.cursors -> Nat]
        /\ Replayed \subseteq log /\ log \subseteq Records
    BY DEF TypeOK, IsSnapshot, IsCursorMap, Replayed, iterate_from
  <1>1. ASSUME NEW c \in Clients, of(c) # {}
        PROVE  Max(of(c)) \in of(c) /\ \A y \in of(c) : Max(of(c)) >= y
    <2> DEFINE bound == IF c \in DOMAIN checkpoint.cursors THEN next_id + checkpoint.cursors[c] ELSE next_id
    <2>1. bound \in Nat /\ next_id <= bound
      BY <1>0 DEF TypeOK
    <2>2. of(c) \in SUBSET Nat
      BY <1>0 DEF Records
    <2>3. ASSUME NEW x \in {checkpoint.cursors[d] : d \in {c} \cap DOMAIN checkpoint.cursors} PROVE x <= bound
      BY <1>0 DEF TypeOK
    <2>4. ASSUME NEW r \in Replayed, r.client = c PROVE r.acked <= bound
      <3>1. r \in log /\ r.client # NoClient /\ r.acked \in Nat /\ r.id \in Nat /\ next_id \in Nat
        BY <1>0, <2>4, RecoveryAssumption DEF Records, NoClient, TypeOK
      <3>2. r.acked < r.id /\ r.id < next_id
        BY <3>1 DEF LogInv
      <3> QED
        BY <2>1, <3>1, <3>2
    <2>5. \A x \in of(c) : x <= bound
      BY <2>3, <2>4
    <2> HIDE DEF of, bound
    <2> QED
      BY <1>1, <2>1, <2>2, <2>5, MaxFacts
  <1>2. RebuiltCursors = [c \in {d \in Clients : of(d) # {}} |-> Max(of(c))]
    BY DEF RebuiltCursors
  <1>3. ASSUME NEW c \in Clients, NEW x \in of(c) PROVE x \in Nat /\ Backed(c, x)
    <2>1. CASE c \in DOMAIN checkpoint.cursors /\ x = checkpoint.cursors[c]
      BY <1>0, <2>1 DEF CursorInv, Sound
    <2>2. CASE \E r \in Replayed : r.client = c /\ x = r.acked
      <3>1. PICK r \in Replayed : r.client = c /\ x = r.acked
        BY <2>2
      <3>2. r \in log /\ r.client # NoClient /\ r.acked \in Nat
        BY <1>0, <3>1, RecoveryAssumption DEF Records, NoClient
      <3> QED
        BY <3>1, <3>2 DEF CursorInv
    <2> QED
      BY <2>1, <2>2
  <1>4. \A c \in Clients : \A s \in Replayed : s.client = c => s.acked \in of(c)
    OBVIOUS
  <1> HIDE DEF of
  <1>5. DOMAIN RebuiltCursors = {d \in Clients : of(d) # {}}
    BY <1>2
  <1>6. \A c \in DOMAIN RebuiltCursors : RebuiltCursors[c] = Max(of(c)) /\ Max(of(c)) \in of(c)
    BY <1>1, <1>2, <1>5
  <1>7. IsCursorMap(RebuiltCursors)
    BY <1>2, <1>3, <1>5, <1>6 DEF IsCursorMap
  <1>8. \A c \in DOMAIN RebuiltCursors : Backed(c, RebuiltCursors[c])
    BY <1>3, <1>5, <1>6
  <1>9. \A c \in Clients : \A s \in Replayed : s.client = c =>
          c \in DOMAIN RebuiltCursors /\ RebuiltCursors[c] >= s.acked
    BY <1>1, <1>4, <1>5, <1>6
  <1> QED
    BY <1>7, <1>8, <1>9
-----------------------------------------------------------------------------
(* What no step does.                                                      *)

\* A message that was published keeps its id; acks, claims and races only grow.
LEMMA StepFacts ==
  ASSUME TypeOK, LogInv, [Next]_vars
  PROVE  /\ \A m \in Messages : published[m] # "idle" => published'[m] # "idle" /\ ids'[m] = ids[m]
         /\ \A m \in Messages : published[m] \notin {"idle", "begun"} => published'[m] \notin {"idle", "begun"}
         /\ \A c \in Clients : acked[c] \subseteq acked'[c] /\ unclaimed[c] <= unclaimed'[c]
         /\ raced \subseteq raced'
  <1> DEFINE Goal ==
        /\ \A m \in Messages : published[m] # "idle" => published'[m] # "idle" /\ ids'[m] = ids[m]
        /\ \A m \in Messages : published[m] \notin {"idle", "begun"} => published'[m] \notin {"idle", "begun"}
        /\ \A c \in Clients : acked[c] \subseteq acked'[c] /\ unclaimed[c] <= unclaimed'[c]
        /\ raced \subseteq raced'
  <1>0. /\ published \in [Messages -> Phases]
        /\ ids \in [Messages -> Nat] /\ acked \in [Clients -> SUBSET Messages]
        /\ unclaimed \in [Clients -> Nat]
    BY DEF TypeOK, Phases
  <1>1. ASSUME UNCHANGED <<published, ids, acked, unclaimed>>, raced \subseteq raced' PROVE Goal
    BY <1>0, <1>1
  <1>2. CASE sync
    BY <1>0, <1>2 DEF sync
  <1>3. ASSUME NEW m \in Messages, publish_durable(m) PROVE Goal
    BY <1>0, <1>3 DEF publish_durable, history
  <1>4. ASSUME NEW m \in Messages, append_durable(m) PROVE Goal
    <2>1. /\ published[m] = "begun" /\ published' \in {[published EXCEPT ![m] = "queued"], [published EXCEPT ![m] = "err"]}
          /\ raced \subseteq raced' /\ UNCHANGED <<ids, acked, unclaimed>>
      <3>1. \A id, entry : Append(id, entry) => raced \subseteq raced'
        BY DEF Append
      <3> QED
        BY <1>4, <3>1 DEF append_durable
    <2> QED
      BY <1>0, <2>1
  <1>5. ASSUME NEW m \in Messages, publish_with_wal_id(m) PROVE Goal
    BY <1>0, <1>5 DEF publish_with_wal_id, history
  <1>6. ASSUME NEW c \in Clients, NEW m \in Messages, ack(c, m) PROVE Goal
    BY <1>0, <1>6 DEF ack
  <1>7. ASSUME NEW j \in journal, append_ack(j) PROVE Goal
    <2>1. \A id, entry : Append(id, entry) => raced \subseteq raced'
      BY DEF Append
    <2> QED
      BY <1>1, <1>7, <2>1 DEF append_ack
  <1>8. CASE checkpoint_capture
    BY <1>0, <1>8, UsedFacts DEF checkpoint_capture
  <1>9. CASE compact_below
    BY <1>0, <1>9, UsedFacts DEF compact_below
  <1>10. CASE compact_remove
    BY <1>1, <1>10 DEF compact_remove
  <1>11. CASE crash
    <2>1. /\ UNCHANGED <<ids, acked, unclaimed, raced>>
          /\ published' = [m \in Messages |->
               CASE published[m] \in {"begun", "queued"} -> "err" [] published[m] = "durable" -> "stored"
                 [] OTHER -> published[m]]
      BY <1>11 DEF crash, history
    <2> QED
      BY <1>0, <2>1
  <1>12. CASE (\E c \in Clients : subscribe(c) \/ unsubscribe_connection(c))
             \/ (\E c \in Clients, m \in Messages : drop(c, m)) \/ (\E j \in journal : journal_ack(j))
             \/ checkpoint_rename \/ checkpoint_fails \/ compact_list \/ compact_fails
             \/ open \/ replay_from_wal_with_checkpoint \/ UNCHANGED vars
    BY <1>1, <1>12 DEF subscribe, unsubscribe_connection, drop, journal_ack, checkpoint_rename,
       checkpoint_fails, compact_list, compact_fails, open, replay_from_wal_with_checkpoint, vars, history
  <1> QED
    BY <1>2, <1>3, <1>4, <1>5, <1>6, <1>7, <1>8, <1>9, <1>10, <1>11, <1>12 DEF Next

LEMMA BackedStep ==
  ASSUME TypeOK, TypeOK', LogInv, MemoryInv, [Next]_vars
  PROVE  /\ \A c \in Clients, id \in Nat : Backed(c, id) => Backed(c, id)'
         /\ \A c \in Clients, m \in Messages : published[m] # "idle" /\ Wanted(c, m)' => Wanted(c, m)
  <1>0. /\ ids \in [Messages -> Nat] /\ acked \in [Clients -> SUBSET Messages]
        /\ unclaimed \in [Clients -> Nat]
    BY DEF TypeOK
  <1>1. \A c \in Clients : \A m \in acked[c] : published[m] # "idle"
    BY DEF MemoryInv
  <1>2. \A c \in Clients, id \in Nat : Backed(c, id) => Backed(c, id)'
    BY <1>0, <1>1, StepFacts DEF Backed
  <1>3. ASSUME NEW c \in Clients, NEW m \in Messages, published[m] # "idle", Wanted(c, m)' PROVE Wanted(c, m)
    <2>1. ids'[m] = ids[m] /\ unclaimed[c] <= unclaimed'[c] /\ ids'[m] > unclaimed'[c]
      BY <1>3, StepFacts DEF Wanted
    <2>2. ids[m] > unclaimed[c]
      <3>1. unclaimed'[c] \in Nat
        BY DEF TypeOK
      <3> QED
        BY <1>0, <2>1, <3>1
    <2>3. ASSUME NEW n \in acked[c] PROVE ids[n] < ids[m]
      BY <1>0, <1>1, <1>3, <2>1, <2>3, StepFacts DEF Wanted
    <2> QED
      BY <2>2, <2>3 DEF Wanted
  <1> QED
    BY <1>2, <1>3

-----------------------------------------------------------------------------
(* Every step keeps the types.                                             *)

LEMMA TypeStep ==
  ASSUME TypeOK, LogInv, MemoryInv, CursorInv, CompactInv, [Next]_vars
  PROVE  TypeOK'
  <1> USE RecoveryAssumption
  <1>1. CASE sync
    <2>1. /\ SyncTo(written) /\ written \in Nat
          /\ published' = [m \in Messages |-> IF published[m] = "queued" THEN "durable" ELSE published[m]]
          /\ UNCHANGED <<up, log, files, written, active, next_id, ids, memory, checkpoint, replaced, task,
                 crashes, acked, unclaimed, raced>>
      BY <1>1 DEF sync, TypeOK
    <2>2. published' \in [Messages -> Phases]
      BY <2>1 DEF TypeOK, Phases
    <2>3. synced' \in Nat /\ settled' \in [Clients -> SUBSET Messages]
      BY <2>1, SyncFacts
    <2> QED
      BY <2>1, <2>2, <2>3 DEF TypeOK, memory, Phases
  <1>2. ASSUME NEW m \in Messages, publish_durable(m) PROVE TypeOK'
    <2>1. /\ ids' \in [Messages -> Nat] /\ published' \in [Messages -> Phases] /\ next_id' \in Nat \ {0}
      BY <1>2 DEF publish_durable, TypeOK, Phases
    <2> QED
      BY <1>2, <2>1 DEF publish_durable, TypeOK, memory, history, Phases
  <1>3. ASSUME NEW m \in Messages, append_durable(m) PROVE TypeOK'
    <2>1. PICK e \in Entries : e = MessageEntry(m)
      BY DEF MessageEntry, Entries
    <2>2. /\ UNCHANGED <<up, next_id, ids, memory, checkpoint, replaced, task, crashes, acked, unclaimed>>
          /\ \/ Append(ids[m], e)
             \/ UNCHANGED <<log, files, written, synced, active, settled, raced>>
      BY <1>3, <2>1 DEF append_durable
    <2>3. published' \in [Messages -> Phases]
      BY <1>3 DEF append_durable, TypeOK, Phases
    <2>4. ids[m] \in Nat \ {0}
      BY <1>3 DEF append_durable, MemoryInv, TypeOK
    <2>5. /\ active' \in Nat \ {0} /\ written' \in Nat /\ synced' \in Nat /\ files' \subseteq Nat \ {0}
          /\ log' \subseteq Records /\ settled' \in [Clients -> SUBSET Messages] /\ raced' \subseteq Messages
      <3>1. CASE Append(ids[m], e)
        BY <2>4, <3>1, AppendFacts DEF TypeOK
      <3>2. CASE UNCHANGED <<log, files, written, synced, active, settled, raced>>
        BY <3>2 DEF TypeOK
      <3> QED
        BY <2>2, <3>1, <3>2
    <2> QED
      BY <2>2, <2>3, <2>5 DEF TypeOK, memory, Phases
  <1>4. ASSUME NEW m \in Messages, publish_with_wal_id(m) PROVE TypeOK'
    BY <1>4 DEF publish_with_wal_id, TypeOK, history
  <1>5. ASSUME NEW c \in Clients, subscribe(c) \/ unsubscribe_connection(c) PROVE TypeOK'
    BY <1>5 DEF subscribe, unsubscribe_connection, TypeOK, history
  <1>6. ASSUME NEW c \in Clients, NEW m \in Messages, drop(c, m) PROVE TypeOK'
    BY <1>6 DEF drop, TypeOK, history
  <1>7. ASSUME NEW c \in Clients, NEW m \in Messages, ack(c, m) PROVE TypeOK'
    <2>1. ids[m] \in Nat
      BY DEF TypeOK
    <2>2. IsCursorMap(cursors')
      BY <1>7, <2>1, RaiseFacts DEF ack, TypeOK
    <2>3. /\ held' \in [Clients -> SUBSET Messages] /\ acked' \in [Clients -> SUBSET Messages]
          /\ journal' \subseteq Clients \X Nat \X Nat
      BY <1>7, <2>1 DEF ack, TypeOK
    <2> QED
      BY <1>7, <2>2, <2>3 DEF ack, TypeOK
  <1>8. ASSUME NEW j \in journal, journal_ack(j) PROVE TypeOK'
    <2>1. journal' \subseteq Clients \X Nat \X Nat /\ next_id' \in Nat \ {0}
      BY <1>8 DEF journal_ack, TypeOK
    <2> QED
      BY <1>8, <2>1 DEF journal_ack, TypeOK, history
  <1>9. ASSUME NEW j \in journal, append_ack(j) PROVE TypeOK'
    <2>0. j[1] \in Clients /\ j[2] \in Nat /\ j[3] \in Nat \ {0}
      BY <1>9 DEF TypeOK, append_ack
    <2>1. PICK e \in Entries : e = AckEntry(j[1], j[2])
      BY <2>0 DEF AckEntry, Entries
    <2>2. /\ journal' \subseteq journal
          /\ \/ Append(j[3], e)
             \/ UNCHANGED <<log, files, written, synced, active, settled, raced>>
          /\ UNCHANGED <<up, next_id, published, ids, attached, held, cursors, checkpoint, replaced, task,
                 crashes, acked, unclaimed>>
      BY <1>9, <2>1 DEF append_ack
    <2>3. /\ active' \in Nat \ {0} /\ written' \in Nat /\ synced' \in Nat /\ files' \subseteq Nat \ {0}
          /\ log' \subseteq Records /\ settled' \in [Clients -> SUBSET Messages] /\ raced' \subseteq Messages
      <3>1. CASE Append(j[3], e)
        BY <2>0, <3>1, AppendFacts DEF TypeOK
      <3>2. CASE UNCHANGED <<log, files, written, synced, active, settled, raced>>
        BY <3>2 DEF TypeOK
      <3> QED
        BY <2>2, <3>1, <3>2
    <2> QED
      BY <2>2, <2>3 DEF TypeOK
  <1>10. CASE checkpoint_capture
    <2>1. PICK snap : snap = current_snapshot
      OBVIOUS
    <2>2. /\ task' = [task EXCEPT !.pc = "captured", !.rounds = @ + 1, !.snap = snap]
          /\ UNCHANGED <<up, log, files, written, synced, active, next_id, published, ids, memory,
                 checkpoint, replaced, crashes, acked, settled, raced>>
      BY <1>10, <2>1 DEF checkpoint_capture
    <2>3. unclaimed' \in [Clients -> Nat] /\ IsSnapshot(snap)
      BY <1>10, <2>1, SnapshotFacts, UsedFacts DEF checkpoint_capture
    <2>4. /\ task'.snap = snap /\ task'.pc = "captured" /\ task'.rounds = task.rounds + 1
          /\ task'.seen = task.seen /\ task'.segs = task.segs
          /\ task' = [pc |-> task'.pc, rounds |-> task'.rounds, snap |-> task'.snap,
                      seen |-> task'.seen, segs |-> task'.segs]
      BY <2>2 DEF TypeOK
    <2> QED
      BY <2>2, <2>3, <2>4 DEF TypeOK, memory
  <1>11. CASE checkpoint_rename \/ checkpoint_fails
    <2>1. IsSnapshot(NoCheckpoint)
      BY DEF IsSnapshot, NoCheckpoint, IsCursorMap, NoKeys
    <2>2. /\ checkpoint' \in {checkpoint, task.snap} /\ replaced' \in {replaced, checkpoint}
          /\ task'.snap = NoCheckpoint /\ task'.pc \in {"written", "idle"} /\ task'.rounds = task.rounds
          /\ task'.seen = task.seen /\ task'.segs = task.segs
          /\ task' = [pc |-> task'.pc, rounds |-> task'.rounds, snap |-> task'.snap,
                      seen |-> task'.seen, segs |-> task'.segs]
      BY <1>11 DEF checkpoint_rename, checkpoint_fails, TypeOK
    <2>3. UNCHANGED <<up, log, files, written, synced, active, next_id, published, ids, memory, crashes, history>>
      BY <1>11 DEF checkpoint_rename, checkpoint_fails
    <2> QED
      BY <2>1, <2>2, <2>3 DEF TypeOK, memory, history
  <1>12. CASE compact_below
    <2>1. /\ unclaimed' \in [Clients -> Nat]
          /\ UNCHANGED <<up, log, files, written, synced, active, next_id, published, ids, memory,
                 checkpoint, replaced, crashes, acked, settled, raced>>
      BY <1>12, UsedFacts DEF compact_below
    <2>2. /\ task'.snap = task.snap /\ task'.pc \in {"listing", "idle"} /\ task'.rounds = task.rounds
          /\ task'.seen \in Nat /\ task'.segs \subseteq {active} \cup {r.seg : r \in log} \cup task.segs
          /\ task' = [pc |-> task'.pc, rounds |-> task'.rounds, snap |-> task'.snap,
                      seen |-> task'.seen, segs |-> task'.segs]
      <3>1. PICK spared : spared = ({active} \cup {r.seg : r \in log}) \ Covered(current_snapshot.snapshot_id)
        OBVIOUS
      <3>2. \/ task' = [task EXCEPT !.pc = "listing", !.seen = active, !.segs = spared]
            \/ task' = [task EXCEPT !.pc = "idle"]
        BY <1>12, <3>1 DEF compact_below
      <3>3. spared \subseteq {active} \cup {r.seg : r \in log}
        BY <3>1
      <3>4. CASE task' = [task EXCEPT !.pc = "listing", !.seen = active, !.segs = spared]
        BY <3>3, <3>4 DEF TypeOK
      <3>5. CASE task' = [task EXCEPT !.pc = "idle"]
        BY <3>5 DEF TypeOK
      <3> QED
        BY <3>2, <3>4, <3>5
    <2>3. task'.segs \subseteq Nat \ {0}
      BY <2>2 DEF TypeOK, Records
    <2> QED
      BY <2>1, <2>2, <2>3 DEF TypeOK, memory
  <1>13. CASE compact_list \/ compact_fails
    <2>1. UNCHANGED <<up, log, files, written, synced, active, next_id, published, ids, memory,
                 checkpoint, replaced, crashes, history>>
      BY <1>13 DEF compact_list, compact_fails
    <2>2. \/ task' = [task EXCEPT !.pc = "idle", !.seen = 0, !.segs = {}]
          \/ task' = [task EXCEPT !.pc = "removing", !.segs = files \ task.segs]
      BY <1>13 DEF compact_list, compact_fails, RoundEnded
    <2>3. /\ task'.snap = task.snap /\ task'.pc \in {"removing", "idle"} /\ task'.rounds = task.rounds
          /\ task'.seen \in Nat /\ task'.segs \subseteq files
          /\ task' = [pc |-> task'.pc, rounds |-> task'.rounds, snap |-> task'.snap,
                      seen |-> task'.seen, segs |-> task'.segs]
      <3>1. CASE task' = [task EXCEPT !.pc = "idle", !.seen = 0, !.segs = {}]
        BY <3>1 DEF TypeOK
      <3>2. CASE task' = [task EXCEPT !.pc = "removing", !.segs = files \ task.segs]
        BY <3>2 DEF TypeOK
      <3> QED
        BY <2>2, <3>1, <3>2
    <2> QED
      BY <2>1, <2>3 DEF TypeOK, memory, history
  <1>14. CASE compact_remove
    <2>1. PICK seg : seg = Min(task.segs)
      OBVIOUS
    <2>2. /\ UNCHANGED <<up, log, written, synced, active, next_id, published, ids, memory,
                 checkpoint, replaced, crashes, acked, unclaimed>>
          /\ files' = files \ {seg}
          /\ \/ task' = [task EXCEPT !.pc = "idle", !.seen = 0, !.segs = {}]
             \/ task' = [task EXCEPT !.segs = @ \ {seg}]
          /\ raced' \subseteq raced \cup ({r.msg : r \in log} \ {NoMessage})
          /\ settled' = [c \in Clients |-> settled[c] \ Forgotten(c, seg)]
      BY <1>14, <2>1 DEF compact_remove, RoundEnded
    <2>3. /\ task'.snap = task.snap /\ task'.pc \in {"idle", task.pc} /\ task'.rounds = task.rounds
          /\ task'.seen \in Nat /\ task'.segs \subseteq task.segs
          /\ task' = [pc |-> task'.pc, rounds |-> task'.rounds, snap |-> task'.snap,
                      seen |-> task'.seen, segs |-> task'.segs]
      <3>1. CASE task' = [task EXCEPT !.pc = "idle", !.seen = 0, !.segs = {}]
        BY <3>1 DEF TypeOK
      <3>2. CASE task' = [task EXCEPT !.segs = @ \ {seg}]
        BY <3>2 DEF TypeOK
      <3> QED
        BY <2>2, <3>1, <3>2
    <2>4. raced' \subseteq Messages /\ settled' \in [Clients -> SUBSET Messages]
      BY <2>2 DEF TypeOK, Records
    <2> QED
      BY <2>2, <2>3, <2>4 DEF TypeOK, memory
  <1>15. CASE crash
    <2>1. IsSnapshot(NoCheckpoint) /\ IsCursorMap(NoKeys)
      BY DEF IsSnapshot, NoCheckpoint, IsCursorMap, NoKeys
    <2>2. /\ log' \subseteq log /\ up' = "down" /\ crashes' = crashes + 1 /\ written' \in synced..written
          /\ checkpoint' \in {checkpoint, replaced, NoCheckpoint} /\ replaced' = checkpoint'
          /\ attached' = {} /\ held' = [c \in Clients |-> {}]
          /\ cursors' = NoKeys /\ journal' = {}
          /\ task' = [pc |-> "idle", rounds |-> task.rounds, snap |-> NoCheckpoint, seen |-> 0, segs |-> {}]
          /\ UNCHANGED <<files, synced, active, next_id, ids, history>>
      BY <1>15 DEF crash
    <2>3. published' \in [Messages -> Phases]
      <3>1. published' = [m \in Messages |->
               CASE published[m] \in {"begun", "queued"} -> "err" [] published[m] = "durable" -> "stored"
                 [] OTHER -> published[m]]
        BY <1>15 DEF crash
      <3> QED
        BY <3>1 DEF TypeOK, Phases
    <2>4. written' \in Nat
      BY <2>2 DEF TypeOK
    <2> QED
      BY <2>1, <2>2, <2>3, <2>4 DEF TypeOK, history, Phases
  <1>16. CASE open
    BY <1>16, MaxIdFacts, OpenFacts DEF open, TypeOK, memory, history
  <1>17. CASE replay_from_wal_with_checkpoint
    <2>1. IsCursorMap(cursors')
      BY <1>17, RebuiltFacts DEF replay_from_wal_with_checkpoint
    <2>2. held' \in [Clients -> SUBSET Messages]
      <3>1. \A s \in Replayed : s.msg # NoMessage => s.msg \in Messages
        BY DEF TypeOK, Records, Replayed, iterate_from
      <3>2. held' = [c \in Clients |->
               IF c \in attached
               THEN held[c] \cup {r.msg : r \in {s \in Replayed : s.msg # NoMessage /\ PastCursor(c, s.id)}}
               ELSE held[c]]
        BY <1>17 DEF replay_from_wal_with_checkpoint
      <3> QED
        BY <3>1, <3>2 DEF TypeOK
    <2> QED
      BY <1>17, <2>1, <2>2 DEF replay_from_wal_with_checkpoint, TypeOK, history
  <1>18. CASE UNCHANGED vars
    BY <1>18 DEF vars, memory, history, TypeOK
  <1> QED
    BY <1>1, <1>2, <1>3, <1>4, <1>5, <1>6, <1>7, <1>8, <1>9, <1>10, <1>11, <1>12, <1>13, <1>14,
       <1>15, <1>16, <1>17, <1>18 DEF Next
-----------------------------------------------------------------------------
(* The log keeps its order.                                                *)

\* An appended record is the last; it brings no message that was acked before.
LEMMA AppendLog ==
  ASSUME TypeOK, LogInv, up = "up", up' = "up", UNCHANGED <<next_id, ids>>,
         NEW id \in Nat \ {0}, NEW entry \in Entries, Append(id, entry), id < next_id,
         entry.msg # NoMessage => /\ entry.client = NoClient /\ ids[entry.msg] = id
                                  /\ published'[entry.msg] \notin {"idle", "begun"}
                                  /\ \A a \in log : a.client # NoClient => a.acked # id,
         entry.client # NoClient => entry.acked < id,
         \A m \in Messages : published[m] \notin {"idle", "begun"} => published'[m] \notin {"idle", "begun"}
  PROVE  LogInv'
  <1>1. PICK e \in Records : /\ e.id = id /\ e.pos = written + 1 /\ e.seg = active'
                             /\ e.msg = entry.msg /\ e.client = entry.client /\ e.acked = entry.acked
                             /\ log' = log \cup {e}
    BY AppendFacts
  <1>2. /\ active' \in Nat \ {0} /\ active <= active' /\ written' = written + 1
        /\ files' = files \/ (active' = active + 1 /\ files' = files \cup {active'})
        /\ synced' \in Nat /\ synced' <= written
    BY AppendFacts
  <1>3. /\ next_id \in Nat /\ active \in Nat /\ written \in Nat /\ files \subseteq Nat
        /\ \A r \in log : /\ r.id \in Nat /\ r.pos \in Nat /\ r.seg \in Nat /\ r.acked \in Nat
                          /\ r.msg \in Messages \cup {NoMessage}
                          /\ r.id < next_id /\ r.pos <= written /\ r.seg <= active
    BY DEF TypeOK, Records, LogInv
  <1>4. \A r \in log' : r.id < next_id' /\ r.pos <= written' /\ r.seg <= active'
    BY <1>1, <1>2, <1>3
  <1>5. ASSUME NEW f \in files' PROVE f <= active'
    <2>1. f \in files \/ f = active'
      BY <1>2
    <2>2. f \in files => f \in Nat /\ f <= active
      BY <1>3 DEF LogInv
    <2> QED
      BY <1>2, <1>3, <2>1, <2>2
  <1>6. ASSUME NEW r \in log', NEW s \in log', r.pos <= s.pos PROVE r.seg <= s.seg
    <2>1. CASE s \in log
      <3>1. r \in log
        BY <1>1, <1>3, <1>6, <2>1
      <3> QED
        BY <1>6, <2>1, <3>1 DEF LogInv
    <2>2. CASE s = e
      BY <1>1, <1>2, <1>3, <2>2
    <2> QED
      BY <1>1, <2>1, <2>2
  <1>7. \A r \in log' : r.msg # NoMessage =>
          r.client = NoClient /\ ids'[r.msg] = r.id /\ published'[r.msg] \notin {"idle", "begun"}
    BY <1>1, <1>3 DEF LogInv
  <1>8. \A r \in log' : r.client # NoClient => r.acked < r.id
    BY <1>1 DEF LogInv
  <1>9. ASSUME NEW r \in log', NEW a \in log', r.msg # NoMessage, a.client # NoClient, a.acked = r.id
        PROVE  r.pos < a.pos
    <2>1. CASE a \in log
      <3>1. r \in log
        BY <1>1, <1>9, <2>1
      <3> QED
        BY <1>9, <2>1, <3>1 DEF LogInv
    <2>2. CASE a = e
      <3>1. r \in log
        BY <1>1, <1>9, <2>2
      <3> QED
        BY <1>1, <1>3, <2>2, <3>1
    <2> QED
      BY <1>1, <2>1, <2>2
  <1>10. synced' <= written'
    BY <1>2, <1>3
  <1> QED
    BY <1>4, <1>5, <1>6, <1>7, <1>8, <1>9, <1>10 DEF LogInv

LEMMA LogStep ==
  ASSUME TypeOK, LogInv, MemoryInv, FreshInv, [Next]_vars
  PROVE  LogInv'
  <1>0. \A r \in log : r.msg # NoMessage => r.msg \in Messages
    BY DEF TypeOK, Records
  \* The records that stay are what they were.
  <1>1. ASSUME log' \subseteq log
        PROVE  /\ \A r \in log' : r.msg # NoMessage =>
                    r.client = NoClient /\ ids'[r.msg] = r.id /\ published'[r.msg] \notin {"idle", "begun"}
               /\ \A r \in log' : r.client # NoClient => r.acked < r.id
               /\ \A r, s \in log' : r.pos <= s.pos => r.seg <= s.seg
               /\ \A r, a \in log' : r.msg # NoMessage /\ a.client # NoClient /\ a.acked = r.id => r.pos < a.pos
    BY <1>0, <1>1, StepFacts DEF LogInv
  <1>2. ASSUME UNCHANGED <<log, active, written, synced>>, files' \subseteq files,
               next_id' \in Nat, next_id <= next_id',
               up' = up \/ (up = "opened" /\ up' = "up"), up # "up" => UNCHANGED files
        PROVE  LogInv'
    <2>1. \A r \in log' : r.id < next_id' /\ r.pos <= written' /\ r.seg <= active'
      BY <1>2 DEF LogInv, TypeOK, Records
    <2> QED
      BY <1>1, <1>2, <2>1 DEF LogInv
  <1>3. CASE sync
    <2>1. synced' = written /\ up' = "up" /\ UNCHANGED <<log, files, written, active, next_id>>
      BY <1>3 DEF sync, SyncTo, Running
    <2>2. written <= written
      BY DEF TypeOK
    <2> QED
      BY <1>1, <2>1, <2>2 DEF LogInv
  <1>4. ASSUME NEW m \in Messages, append_durable(m) PROVE LogInv'
    <2>1. PICK e \in Entries : e = MessageEntry(m)
      BY RecoveryAssumption DEF MessageEntry, Entries
    <2>2. e.msg = m /\ e.client = NoClient
      BY <2>1 DEF MessageEntry
    <2>3. /\ up = "up" /\ up' = "up" /\ published[m] = "begun" /\ UNCHANGED <<next_id, ids>>
          /\ \/ Append(ids[m], e) /\ published' = [published EXCEPT ![m] = "queued"]
             \/ UNCHANGED <<log, files, written, synced, active>>
      BY <1>4, <2>1 DEF append_durable, Running
    <2>4. PICK id \in Nat \ {0} : id = ids[m] /\ id < next_id
      BY <2>3 DEF MemoryInv, TypeOK
    <2>5. \A a \in log : a.client # NoClient => a.acked # id
      BY <2>3, <2>4 DEF FreshInv
    <2>6. CASE Append(ids[m], e) /\ published' = [published EXCEPT ![m] = "queued"]
      <3>1. published'[m] = "queued" /\ Append(id, e)
        BY <2>4, <2>6 DEF TypeOK
      <3> QED
        BY <2>2, <2>3, <2>4, <2>5, <3>1, AppendLog, StepFacts
    <2>7. CASE UNCHANGED <<log, files, written, synced, active>>
      BY <1>2, <2>3, <2>7 DEF TypeOK
    <2> QED
      BY <2>3, <2>6, <2>7
  <1>5. ASSUME NEW j \in journal, append_ack(j) PROVE LogInv'
    <2>0. j[1] \in Clients /\ j[2] \in Nat /\ j[3] \in Nat \ {0}
      BY <1>5 DEF TypeOK, append_ack
    <2>1. PICK e \in Entries : e = AckEntry(j[1], j[2])
      BY <2>0, RecoveryAssumption DEF AckEntry, Entries
    <2>2. e.msg = NoMessage /\ e.acked = j[2]
      BY <2>1 DEF AckEntry
    <2>3. j[2] < j[3] /\ j[3] < next_id
      BY <2>0 DEF MemoryInv
    <2>4. /\ up = "up" /\ up' = up /\ UNCHANGED <<next_id, ids>>
          /\ Append(j[3], e) \/ UNCHANGED <<log, files, written, synced, active>>
      BY <1>5, <2>1 DEF append_ack, Running
    <2>5. CASE Append(j[3], e)
      BY <2>0, <2>2, <2>3, <2>4, <2>5, AppendLog, StepFacts
    <2>6. CASE UNCHANGED <<log, files, written, synced, active>>
      BY <1>2, <2>4, <2>6 DEF TypeOK
    <2> QED
      BY <2>4, <2>5, <2>6
  <1>6. ASSUME NEW m \in Messages, publish_durable(m) PROVE LogInv'
    BY <1>2, <1>6 DEF publish_durable, TypeOK
  <1>7. ASSUME NEW j \in journal, journal_ack(j) PROVE LogInv'
    BY <1>2, <1>7 DEF journal_ack, TypeOK
  <1>8. CASE compact_remove
    <2>1. UNCHANGED <<up, log, active, written, synced, next_id>> /\ files' \subseteq files /\ up = "up"
      BY <1>8 DEF compact_remove, Running
    <2> QED
      BY <1>2, <2>1 DEF TypeOK
  <1>9. CASE crash
    <2>1. /\ up' = "down" /\ log' = {r \in log : r.pos <= written' /\ r.seg \in files}
          /\ written' \in synced..written /\ UNCHANGED <<files, synced, active, next_id>>
      BY <1>9 DEF crash
    <2>2. synced <= written'
      BY <2>1 DEF TypeOK
    <2>3. log' \subseteq log /\ \A r \in log' : r.pos <= written' /\ r.seg \in files'
      BY <2>1
    <2> QED
      BY <1>1, <2>1, <2>2, <2>3 DEF LogInv
  <1>10. CASE open
    <2>1. /\ up' = "opened" /\ next_id' = MaxId(log) + 1 /\ synced' = written /\ UNCHANGED <<log, written>>
          /\ MaxId(log) \in Nat /\ written \in Nat
      BY <1>10, MaxIdFacts DEF open, TypeOK
    <2>2. \A r \in log : r.id \in Nat /\ r.id <= MaxId(log)
      BY MaxIdFacts DEF TypeOK, Records
    <2>3. \A r \in log' : r.id < next_id' /\ r.pos <= written' /\ r.seg <= active' /\ r.seg \in files'
      BY <1>10, <2>1, <2>2, OpenFacts DEF LogInv
    <2>4. \A f \in files' : f <= active'
      BY <1>10, OpenFacts
    <2> QED
      BY <1>1, <2>1, <2>3, <2>4 DEF LogInv
  <1>11. CASE replay_from_wal_with_checkpoint
    BY <1>2, <1>11 DEF replay_from_wal_with_checkpoint, TypeOK
  <1>12. CASE (\E m \in Messages : publish_with_wal_id(m))
             \/ (\E c \in Clients : subscribe(c) \/ unsubscribe_connection(c))
             \/ (\E c \in Clients, m \in Messages : drop(c, m) \/ ack(c, m))
             \/ checkpoint_capture \/ checkpoint_rename \/ checkpoint_fails
             \/ compact_below \/ compact_list \/ compact_fails \/ UNCHANGED vars
    <2>1. UNCHANGED <<up, log, files, active, written, synced, next_id>>
      BY <1>12 DEF publish_with_wal_id, subscribe, unsubscribe_connection, drop, ack,
         checkpoint_capture, checkpoint_rename, checkpoint_fails, compact_below, compact_list,
         compact_fails, vars
    <2> QED
      BY <1>2, <2>1 DEF TypeOK
  <1> QED
    BY <1>3, <1>4, <1>5, <1>6, <1>7, <1>8, <1>9, <1>10, <1>11, <1>12 DEF Next

-----------------------------------------------------------------------------
(* What is in memory stays of this run.                                    *)

\* An append settles only what was acked.
LEMMA AppendSettles ==
  ASSUME TypeOK, LogInv, NEW id \in Nat \ {0}, NEW entry \in Entries, Append(id, entry)
  PROVE  \A c \in Clients : settled'[c] \subseteq settled[c] \cup acked[c]
  BY AppendFacts

LEMMA MemoryStep ==
  ASSUME TypeOK, TypeOK', LogInv, MemoryInv, [Next]_vars
  PROVE  MemoryInv'
  <1> DEFINE P == {"begun", "queued", "durable"}
             Old(m) == published[m] \notin {"idle", "begun"}
  <1>0. /\ published \in [Messages -> Phases]
        /\ ids \in [Messages -> Nat] /\ acked \in [Clients -> SUBSET Messages]
        /\ held \in [Clients -> SUBSET Messages] /\ journal \subseteq Clients \X Nat \X Nat
        /\ settled \in [Clients -> SUBSET Messages] /\ next_id \in Nat
    BY DEF TypeOK, Phases
  <1>1. \A j \in journal : Backed(j[1], j[2])'
    <2> SUFFICES ASSUME NEW j \in journal PROVE Backed(j[1], j[2])'
      OBVIOUS
    <2>1. j[1] \in Clients /\ j[2] \in Nat /\ Backed(j[1], j[2])
      BY <1>0 DEF MemoryInv
    <2> QED
      BY <2>1, BackedStep
  <1>2. ASSUME NEW m \in Messages, published[m] # "idle" PROVE ids'[m] = ids[m]
    BY <1>2, StepFacts
  <1>3. ASSUME NEW m \in Messages, Old(m) PROVE Old(m)' /\ ids'[m] = ids[m]
    BY <1>3, StepFacts
  \* Nothing enters the queues or the journal, and no publish starts.
  <1>4. ASSUME up' = up, next_id <= next_id', next_id' \in Nat,
               \A m \in Messages : published'[m] \in P => published[m] \in P,
               \A c \in Clients : held'[c] \subseteq held[c], UNCHANGED acked,
               \A c \in Clients : settled'[c] \subseteq settled[c] \cup acked[c],
               journal' \subseteq journal
        PROVE  MemoryInv'
    <2>1. ASSUME NEW m \in Messages, published'[m] \in P PROVE up' = "up" /\ ids'[m] # 0 /\ ids'[m] < next_id'
      <3>1. up = "up" /\ ids[m] # 0 /\ ids[m] < next_id /\ ids'[m] = ids[m]
        BY <1>2, <1>4, <2>1 DEF MemoryInv
      <3> QED
        BY <1>0, <1>4, <3>1
    <2>2. ASSUME NEW c \in Clients, NEW m \in held'[c] PROVE Old(m)' /\ ids'[m] < next_id'
      <3>1. m \in Messages /\ Old(m) /\ ids[m] < next_id
        BY <1>0, <1>4, <2>2 DEF MemoryInv
      <3> QED
        BY <1>0, <1>3, <1>4, <3>1
    <2>3. \A c \in Clients : (\A m \in acked'[c] : Old(m)') /\ settled'[c] \subseteq acked'[c]
      BY <1>0, <1>3, <1>4 DEF MemoryInv
    <2>4. up' # "up" => journal' = {} /\ \A c \in Clients : held'[c] = {}
      BY <1>4 DEF MemoryInv
    <2>5. ASSUME NEW j \in journal'
          PROVE  Backed(j[1], j[2])' /\ j[2] < next_id' /\ (j[3] # 0 => j[2] < j[3] /\ j[3] < next_id')
      <3>1. j \in journal /\ j[2] \in Nat /\ j[3] \in Nat
        BY <1>0, <1>4
      <3>2. j[2] < next_id /\ (j[3] # 0 => j[2] < j[3] /\ j[3] < next_id)
        BY <3>1 DEF MemoryInv
      <3> QED
        BY <1>0, <1>1, <1>4, <3>1, <3>2
    <2> QED
      BY <2>1, <2>2, <2>3, <2>4, <2>5 DEF MemoryInv
  <1>5. CASE sync
    <2>1. /\ UNCHANGED <<up, next_id, held, acked, journal>>
          /\ \A m \in Messages : published'[m] \in P => published[m] \in P
      BY <1>0, <1>5 DEF sync, memory
    <2>2. SyncTo(written) /\ written \in Nat
      BY <1>5 DEF sync, TypeOK
    <2>3. \A c \in Clients : settled'[c] \subseteq settled[c] \cup acked[c]
      BY <2>2, SyncFacts
    <2> QED
      BY <1>0, <1>4, <2>1, <2>3
  <1>6. ASSUME NEW m \in Messages, publish_durable(m) PROVE MemoryInv'
    <2>1. /\ up = "up" /\ up' = "up" /\ published[m] = "idle" /\ next_id' = next_id + 1
          /\ ids' = [ids EXCEPT ![m] = next_id] /\ published' = [published EXCEPT ![m] = "begun"]
          /\ UNCHANGED <<held, acked, settled, journal>> /\ next_id # 0
      BY <1>6 DEF publish_durable, memory, history, Running, TypeOK
    <2>2. ASSUME NEW n \in Messages, published'[n] \in P PROVE ids'[n] # 0 /\ ids'[n] < next_id'
      BY <1>0, <2>1, <2>2 DEF MemoryInv
    <2>3. ASSUME NEW c \in Clients, NEW n \in held'[c] PROVE Old(n)' /\ ids'[n] < next_id'
      <3>1. n \in Messages /\ Old(n) /\ ids[n] < next_id
        BY <1>0, <2>1, <2>3 DEF MemoryInv
      <3> QED
        BY <1>0, <1>3, <2>1, <3>1
    <2>4. \A c \in Clients : (\A n \in acked'[c] : Old(n)') /\ settled'[c] \subseteq acked'[c]
      BY <1>0, <1>3, <2>1 DEF MemoryInv
    <2>5. ASSUME NEW j \in journal'
          PROVE  Backed(j[1], j[2])' /\ j[2] < next_id' /\ (j[3] # 0 => j[2] < j[3] /\ j[3] < next_id')
      <3>1. j \in journal /\ j[2] \in Nat /\ j[3] \in Nat
        BY <1>0, <2>1
      <3>2. j[2] < next_id /\ (j[3] # 0 => j[2] < j[3] /\ j[3] < next_id)
        BY <3>1 DEF MemoryInv
      <3> QED
        BY <1>0, <1>1, <2>1, <3>1, <3>2
    <2> QED
      BY <2>1, <2>2, <2>3, <2>4, <2>5 DEF MemoryInv
  <1>7. ASSUME NEW m \in Messages, append_durable(m) PROVE MemoryInv'
    <2>1. PICK e \in Entries : e = MessageEntry(m)
      BY RecoveryAssumption DEF MessageEntry, Entries
    <2>2. /\ published[m] = "begun" /\ UNCHANGED <<up, next_id, held, acked, journal>>
          /\ \/ Append(ids[m], e) \/ UNCHANGED settled
          /\ published' \in {[published EXCEPT ![m] = "queued"], [published EXCEPT ![m] = "err"]}
      BY <1>7, <2>1 DEF append_durable, memory
    <2>3. ids[m] \in Nat \ {0}
      BY <1>0, <2>2 DEF MemoryInv
    <2>4. \A c \in Clients : settled'[c] \subseteq settled[c] \cup acked[c]
      BY <2>2, <2>3, AppendSettles
    <2>5. \A n \in Messages : published'[n] \in P => published[n] \in P
      BY <1>0, <2>2
    <2> QED
      BY <1>0, <1>4, <2>2, <2>4, <2>5
  <1>8. ASSUME NEW m \in Messages, publish_with_wal_id(m) PROVE MemoryInv'
    <2>1. /\ up = "up" /\ published[m] = "durable" /\ UNCHANGED <<up, next_id, ids, acked, settled, journal>>
          /\ held' = [c \in Clients |-> IF c \in attached THEN held[c] \cup {m} ELSE held[c]]
          /\ published' = [published EXCEPT ![m] = "ok"]
      BY <1>8 DEF publish_with_wal_id, history, Running
    <2>2. ids[m] < next_id
      BY <2>1 DEF MemoryInv
    <2>3. \A n \in Messages : published'[n] \in P => ids'[n] # 0 /\ ids'[n] < next_id'
      BY <1>0, <2>1 DEF MemoryInv
    <2>4. \A c \in Clients : \A n \in held'[c] : Old(n)' /\ ids'[n] < next_id'
      BY <1>0, <2>1, <2>2 DEF MemoryInv
    <2>5. \A c \in Clients : (\A n \in acked'[c] : Old(n)') /\ settled'[c] \subseteq acked'[c]
      BY <1>0, <2>1 DEF MemoryInv
    <2>6. \A j \in journal' : Backed(j[1], j[2])' /\ j[2] < next_id' /\ (j[3] # 0 => j[2] < j[3] /\ j[3] < next_id')
      BY <1>1, <2>1 DEF MemoryInv
    <2> QED
      BY <2>1, <2>3, <2>4, <2>5, <2>6 DEF MemoryInv
  <1>9. ASSUME NEW c \in Clients, NEW m \in Messages, ack(c, m) PROVE MemoryInv'
    <2>1. /\ up = "up" /\ m \in held[c] /\ UNCHANGED <<up, next_id, published, ids, settled>>
          /\ held' = [held EXCEPT ![c] = @ \ {m}]
          /\ journal' = journal \cup {<<c, ids[m], 0>>}
          /\ acked' = [acked EXCEPT ![c] = @ \cup {m}]
      BY <1>9 DEF ack, Running
    <2>2. Old(m) /\ ids[m] < next_id
      BY <2>1 DEF MemoryInv
    <2>3. \A d \in Clients : /\ held'[d] \subseteq held[d] /\ acked[d] \subseteq acked'[d]
                             /\ acked'[d] \subseteq acked[d] \cup {m}
      BY <1>0, <2>1
    <2>4. \A d \in Clients : \A n \in held'[d] : Old(n)' /\ ids'[n] < next_id'
      BY <2>1, <2>3 DEF MemoryInv
    <2>5. \A d \in Clients : (\A n \in acked'[d] : Old(n)') /\ settled'[d] \subseteq acked'[d]
      BY <2>1, <2>2, <2>3 DEF MemoryInv
    <2>6. ASSUME NEW j \in journal'
          PROVE  Backed(j[1], j[2])' /\ j[2] < next_id' /\ (j[3] # 0 => j[2] < j[3] /\ j[3] < next_id')
      <3>1. CASE j \in journal
        BY <1>1, <2>1, <3>1 DEF MemoryInv
      <3>2. CASE j = <<c, ids[m], 0>>
        <4>1. j[1] = c /\ j[2] = ids[m] /\ j[3] = 0 /\ m \in acked'[c]
          BY <1>0, <2>1, <3>2
        <4> QED
          BY <2>1, <2>2, <4>1 DEF Backed
      <3> QED
        BY <2>1, <3>1, <3>2
    <2>7. \A n \in Messages : published'[n] \in P => ids'[n] # 0 /\ ids'[n] < next_id'
      BY <2>1 DEF MemoryInv
    <2> QED
      BY <2>1, <2>4, <2>5, <2>6, <2>7 DEF MemoryInv
  <1>10. ASSUME NEW i \in journal, journal_ack(i) PROVE MemoryInv'
    <2>1. /\ up = "up" /\ UNCHANGED <<up, published, ids, held, acked, settled>> /\ next_id' = next_id + 1
          /\ journal' = (journal \ {i}) \cup {<<i[1], i[2], next_id>>}
      BY <1>10 DEF journal_ack, history, Running
    <2>2. ASSUME NEW j \in journal'
          PROVE  Backed(j[1], j[2])' /\ j[2] < next_id' /\ (j[3] # 0 => j[2] < j[3] /\ j[3] < next_id')
      <3>1. CASE j \in journal
        <4>1. j[2] < next_id /\ (j[3] # 0 => j[2] < j[3] /\ j[3] < next_id) /\ j[2] \in Nat /\ j[3] \in Nat
          BY <1>0, <3>1 DEF MemoryInv
        <4> QED
          BY <1>0, <1>1, <2>1, <3>1, <4>1
      <3>2. CASE j = <<i[1], i[2], next_id>>
        <4>1. j[1] = i[1] /\ j[2] = i[2] /\ j[3] = next_id
          BY <3>2
        <4>2. i[2] < next_id /\ i[2] \in Nat
          BY <1>0 DEF MemoryInv
        <4> QED
          BY <1>0, <1>1, <2>1, <4>1, <4>2
      <3> QED
        BY <2>1, <3>1, <3>2
    <2>3. ASSUME NEW n \in Messages, published'[n] \in P PROVE ids'[n] # 0 /\ ids'[n] < next_id'
      <3>1. ids[n] # 0 /\ ids[n] < next_id
        BY <2>1, <2>3 DEF MemoryInv
      <3> QED
        BY <1>0, <2>1, <3>1
    <2>4. ASSUME NEW c \in Clients, NEW n \in held'[c] PROVE Old(n)' /\ ids'[n] < next_id'
      <3>1. n \in Messages /\ Old(n) /\ ids[n] < next_id
        BY <1>0, <2>1, <2>4 DEF MemoryInv
      <3> QED
        BY <1>0, <2>1, <3>1
    <2>5. \A c \in Clients : (\A n \in acked'[c] : Old(n)') /\ settled'[c] \subseteq acked'[c]
      BY <2>1 DEF MemoryInv
    <2> QED
      BY <2>1, <2>2, <2>3, <2>4, <2>5 DEF MemoryInv
  <1>11. ASSUME NEW j \in journal, append_ack(j) PROVE MemoryInv'
    <2>0. j[1] \in Clients /\ j[2] \in Nat /\ j[3] \in Nat \ {0}
      BY <1>11 DEF TypeOK, append_ack
    <2>1. PICK e \in Entries : e = AckEntry(j[1], j[2])
      BY <2>0, RecoveryAssumption DEF AckEntry, Entries
    <2>2. /\ UNCHANGED <<up, next_id, published, held, acked>> /\ journal' \subseteq journal
          /\ Append(j[3], e) \/ UNCHANGED settled
      BY <1>11, <2>1 DEF append_ack
    <2>3. \A c \in Clients : settled'[c] \subseteq settled[c] \cup acked[c]
      BY <2>0, <2>2, AppendSettles
    <2> QED
      BY <1>0, <1>4, <2>2, <2>3
  <1>12. CASE compact_remove
    <2>1. /\ UNCHANGED <<up, next_id, published, held, acked, journal>>
          /\ \A c \in Clients : settled'[c] \subseteq settled[c]
      BY <1>12 DEF compact_remove, memory
    <2> QED
      BY <1>0, <1>4, <2>1
  <1>13. CASE crash
    <2>1. /\ up' = "down" /\ held' = [c \in Clients |-> {}] /\ journal' = {} /\ UNCHANGED <<acked, settled>>
          /\ published' = [m \in Messages |->
               CASE published[m] \in {"begun", "queued"} -> "err" [] published[m] = "durable" -> "stored"
                 [] OTHER -> published[m]]
      BY <1>13 DEF crash, history
    <2>2. \A m \in Messages : published'[m] \notin P
      BY <1>0, <2>1
    <2> QED
      BY <1>0, <1>3, <2>1, <2>2 DEF MemoryInv
  <1>14. CASE open
    <2>1. /\ up = "down" /\ up' = "opened" /\ UNCHANGED <<published, ids, held, journal, acked, settled>>
      BY <1>14 DEF open, memory, history
    <2> QED
      BY <2>1 DEF MemoryInv
  <1>15. CASE replay_from_wal_with_checkpoint
    <2>1. /\ up = "opened" /\ up' = "up" /\ UNCHANGED <<published, ids, next_id, journal, acked, settled>>
          /\ held' = [c \in Clients |->
               IF c \in attached
               THEN held[c] \cup {r.msg : r \in {s \in Replayed : s.msg # NoMessage /\ PastCursor(c, s.id)}}
               ELSE held[c]]
      BY <1>15 DEF replay_from_wal_with_checkpoint, history
    <2>2. \A s \in Replayed : s.msg # NoMessage => Old(s.msg) /\ ids[s.msg] < next_id
      BY DEF Replayed, iterate_from, LogInv
    <2>3. \A c \in Clients : \A n \in held'[c] : Old(n)' /\ ids'[n] < next_id'
      BY <2>1, <2>2 DEF MemoryInv
    <2> QED
      BY <2>1, <2>3 DEF MemoryInv
  <1>16. CASE (\E c \in Clients : subscribe(c) \/ unsubscribe_connection(c))
             \/ (\E c \in Clients, m \in Messages : drop(c, m))
             \/ checkpoint_capture \/ checkpoint_rename \/ checkpoint_fails
             \/ compact_below \/ compact_list \/ compact_fails \/ UNCHANGED vars
    <2>1. /\ UNCHANGED <<up, next_id, published, acked, settled, journal>>
          /\ \A c \in Clients : held'[c] \subseteq held[c]
      BY <1>0, <1>16 DEF subscribe, unsubscribe_connection, drop, checkpoint_capture, checkpoint_rename,
         checkpoint_fails, compact_below, compact_list, compact_fails, vars, memory, history
    <2> QED
      BY <1>0, <1>4, <2>1
  <1> QED
    BY <1>5, <1>6, <1>7, <1>8, <1>9, <1>10, <1>11, <1>12, <1>13, <1>14, <1>15, <1>16 DEF Next

\* No ack meets the id of a message that is not written yet.
LEMMA FreshStep ==
  ASSUME TypeOK, TypeOK', LogInv, MemoryInv, MemoryInv', FreshInv, [Next]_vars
  PROVE  FreshInv'
  <1> DEFINE P == {"begun", "queued", "durable"}
  <1>0. /\ published \in [Messages -> Phases]
        /\ ids \in [Messages -> Nat] /\ held \in [Clients -> SUBSET Messages]
        /\ journal \subseteq Clients \X Nat \X Nat /\ next_id \in Nat
        /\ \A r \in log : r.id \in Nat /\ r.acked \in Nat
    BY DEF TypeOK, Phases, Records
  <1>1. \A m \in Messages : published[m] # "idle" => ids'[m] = ids[m]
    BY StepFacts
  \* No message, ack or delivery enters.
  <1>2. ASSUME \A m \in Messages : published'[m] = "begun" => published[m] = "begun",
               \A m \in Messages : published'[m] \in P => published[m] \in P,
               \A r \in log' : r.client # NoClient => \/ r \in log
                                                      \/ \E j \in journal : r.acked = j[2],
               \A j \in journal' : \/ \E i \in journal : j[2] = i[2]
                                   \/ \E c \in Clients : \E n \in held[c] : j[2] = ids[n],
               \A c \in Clients : \A n \in held'[c] : n \in held[c] \/ published[n] = "durable"
        PROVE  FreshInv'
    <2> SUFFICES ASSUME NEW m \in Messages, published'[m] = "begun"
                 PROVE  /\ \A r \in log' : r.client # NoClient => r.acked # ids'[m]
                        /\ \A j \in journal' : j[2] # ids'[m]
                        /\ \A c \in Clients : \A n \in held'[c] : ids'[n] # ids'[m]
                        /\ \A n \in Messages \ {m} : published'[n] \in P => ids'[n] # ids'[m]
      BY DEF FreshInv
    <2>1. published[m] = "begun" /\ ids'[m] = ids[m]
      BY <1>1, <1>2
    <2>2. \A r \in log' : r.client # NoClient => r.acked # ids[m]
      BY <1>2, <2>1 DEF FreshInv
    <2>3. \A j \in journal' : j[2] # ids[m]
      BY <1>2, <2>1 DEF FreshInv
    <2>4. ASSUME NEW c \in Clients, NEW n \in held'[c] PROVE ids'[n] # ids[m]
      <3>1. n \in Messages /\ published[n] # "idle"
        BY <1>2, <2>4 DEF MemoryInv, TypeOK
      <3>2. ids'[n] = ids[n]
        BY <1>1, <3>1
      <3>3. CASE n \in held[c]
        BY <2>1, <3>2, <3>3 DEF FreshInv
      <3>4. CASE published[n] = "durable"
        BY <2>1, <3>1, <3>2, <3>4 DEF FreshInv
      <3> QED
        BY <1>2, <3>3, <3>4
    <2>5. ASSUME NEW n \in Messages \ {m}, published'[n] \in P PROVE ids'[n] # ids[m]
      BY <1>1, <1>2, <2>1, <2>5 DEF FreshInv
    <2> QED
      BY <2>1, <2>2, <2>3, <2>4, <2>5
  <1>3. ASSUME NEW k \in Messages, publish_durable(k) PROVE FreshInv'
    <2>1. /\ published[k] = "idle" /\ UNCHANGED <<log, held, journal>>
          /\ ids' = [ids EXCEPT ![k] = next_id] /\ published' = [published EXCEPT ![k] = "begun"]
      BY <1>3 DEF publish_durable, memory
    <2> SUFFICES ASSUME NEW m \in Messages, published'[m] = "begun"
                 PROVE  /\ \A r \in log : r.client # NoClient => r.acked # ids'[m]
                        /\ \A j \in journal : j[2] # ids'[m]
                        /\ \A c \in Clients : \A n \in held[c] : ids'[n] # ids'[m]
                        /\ \A n \in Messages \ {m} : published'[n] \in P => ids'[n] # ids'[m]
      BY <2>1 DEF FreshInv
    <2>2. \A c \in Clients : \A n \in held[c] : n \in Messages /\ n # k /\ ids'[n] = ids[n] /\ ids[n] < next_id
      BY <1>0, <2>1 DEF MemoryInv
    <2>3. CASE m = k
      <3>1. ids'[m] = next_id
        BY <1>0, <2>1, <2>3
      <3>2. \A r \in log : r.client # NoClient => r.acked < next_id
        BY <1>0 DEF LogInv
      <3>3. \A j \in journal : j[2] \in Nat /\ j[2] < next_id
        BY <1>0 DEF MemoryInv
      <3>4. \A n \in Messages \ {m} : published'[n] \in P => ids'[n] = ids[n] /\ ids[n] < next_id
        BY <1>0, <2>1, <2>3 DEF MemoryInv
      <3>5. \A r \in log : r.client # NoClient => r.acked # next_id
        BY <1>0, <3>2
      <3>6. \A j \in journal : j[2] # next_id
        BY <1>0, <3>3
      <3>7. \A c \in Clients : \A n \in held[c] : ids'[n] # next_id
        BY <1>0, <2>2
      <3>8. \A n \in Messages \ {m} : published'[n] \in P => ids'[n] # next_id
        BY <1>0, <3>4
      <3> QED
        BY <3>1, <3>5, <3>6, <3>7, <3>8
    <2>4. CASE m # k
      <3>1. published[m] = "begun" /\ ids'[m] = ids[m] /\ ids[m] < next_id
        BY <1>0, <2>1, <2>4 DEF MemoryInv
      <3>2. \A n \in Messages \ {m} : published'[n] \in P => ids'[n] # ids[m]
        <4> SUFFICES ASSUME NEW n \in Messages \ {m}, published'[n] \in P PROVE ids'[n] # ids[m]
          OBVIOUS
        <4>1. CASE n = k
          BY <1>0, <2>1, <3>1, <4>1
        <4>2. CASE n # k
          BY <1>0, <2>1, <3>1, <4>2 DEF FreshInv
        <4> QED
          BY <4>1, <4>2
      <3>3. /\ \A r \in log : r.client # NoClient => r.acked # ids[m]
            /\ \A j \in journal : j[2] # ids[m]
            /\ \A c \in Clients : \A n \in held[c] : ids[n] # ids[m]
        BY <3>1 DEF FreshInv
      <3> QED
        BY <2>2, <3>1, <3>2, <3>3
    <2> QED
      BY <2>3, <2>4
  <1>4. ASSUME NEW m \in Messages, append_durable(m) PROVE FreshInv'
    <2>1. PICK e \in Entries : e = MessageEntry(m)
      BY RecoveryAssumption DEF MessageEntry, Entries
    <2>2. e.client = NoClient
      BY <2>1 DEF MessageEntry
    <2>3. /\ published[m] = "begun" /\ UNCHANGED <<held, journal>>
          /\ Append(ids[m], e) \/ UNCHANGED log
          /\ published' \in {[published EXCEPT ![m] = "queued"], [published EXCEPT ![m] = "err"]}
      BY <1>4, <2>1 DEF append_durable, memory
    <2>4. ids[m] \in Nat \ {0}
      BY <1>0, <2>3 DEF MemoryInv
    <2>5. \A r \in log' : r.client # NoClient => r \in log
      BY <2>2, <2>3, <2>4, AppendFacts
    <2>6. \A n \in Messages : /\ published'[n] = "begun" => published[n] = "begun"
                              /\ published'[n] \in P => published[n] \in P
      BY <1>0, <2>3
    <2> QED
      BY <1>2, <2>3, <2>5, <2>6
  <1>5. ASSUME NEW j \in journal, append_ack(j) PROVE FreshInv'
    <2>0. j[1] \in Clients /\ j[2] \in Nat /\ j[3] \in Nat \ {0}
      BY <1>5 DEF TypeOK, append_ack
    <2>1. PICK e \in Entries : e = AckEntry(j[1], j[2])
      BY <2>0, RecoveryAssumption DEF AckEntry, Entries
    <2>2. e.acked = j[2]
      BY <2>1 DEF AckEntry
    <2>3. /\ journal' \subseteq journal /\ UNCHANGED <<published, held>>
          /\ Append(j[3], e) \/ UNCHANGED log
      BY <1>5, <2>1 DEF append_ack
    <2>4. \A r \in log' : r \in log \/ r.acked = j[2]
      BY <2>0, <2>2, <2>3, AppendFacts
    <2> QED
      BY <1>2, <2>3, <2>4
  <1>6. ASSUME NEW c \in Clients, NEW m \in Messages, ack(c, m) PROVE FreshInv'
    <2>1. /\ m \in held[c] /\ UNCHANGED <<log, published>>
          /\ held' = [held EXCEPT ![c] = @ \ {m}] /\ journal' = journal \cup {<<c, ids[m], 0>>}
      BY <1>6 DEF ack
    <2>2. \A d \in Clients : held'[d] \subseteq held[d]
      BY <1>0, <2>1
    <2>3. \A j \in journal' : j \in journal \/ j[2] = ids[m]
      BY <2>1
    <2> QED
      BY <1>2, <2>1, <2>2, <2>3
  <1>7. ASSUME NEW i \in journal, journal_ack(i) PROVE FreshInv'
    <2>1. UNCHANGED <<log, published, held>> /\ journal' = (journal \ {i}) \cup {<<i[1], i[2], next_id>>}
      BY <1>7 DEF journal_ack
    <2>2. \A j \in journal' : j \in journal \/ j[2] = i[2]
      BY <2>1
    <2> QED
      BY <1>2, <2>1, <2>2
  <1>8. ASSUME NEW m \in Messages, publish_with_wal_id(m) PROVE FreshInv'
    <2>1. /\ published[m] = "durable" /\ UNCHANGED <<log, journal>>
          /\ held' = [c \in Clients |-> IF c \in attached THEN held[c] \cup {m} ELSE held[c]]
          /\ published' = [published EXCEPT ![m] = "ok"]
      BY <1>8 DEF publish_with_wal_id
    <2>2. \A n \in Messages : /\ published'[n] = "begun" => published[n] = "begun"
                              /\ published'[n] \in P => published[n] \in P
      BY <1>0, <2>1
    <2>3. \A c \in Clients : \A n \in held'[c] : n \in held[c] \/ n = m
      BY <2>1
    <2> QED
      BY <1>2, <2>1, <2>2, <2>3
  <1>9. CASE sync
    <2>1. /\ UNCHANGED <<log, held, journal>>
          /\ \A n \in Messages : /\ published'[n] = "begun" => published[n] = "begun"
                                 /\ published'[n] \in P => published[n] \in P
      BY <1>0, <1>9 DEF sync, memory
    <2> QED
      BY <1>2, <2>1
  <1>10. CASE up' # "up" \/ up # "up"
    <2>1. \A m \in Messages : published'[m] # "begun"
      <3>1. CASE up' # "up"
        BY <3>1 DEF MemoryInv
      <3>2. CASE up # "up"
        <4>1. \A m \in Messages : published[m] # "begun"
          BY <3>2 DEF MemoryInv
        <4>2. CASE up' = "up"
          <5>1. UNCHANGED published
            BY <3>2, <4>2 DEF Next, vars, sync, publish_durable, append_durable, publish_with_wal_id, subscribe,
               unsubscribe_connection, drop, ack, journal_ack, append_ack, checkpoint_capture, checkpoint_rename,
               checkpoint_fails, compact_below, compact_list, compact_remove, compact_fails, crash, open,
               replay_from_wal_with_checkpoint, Running
          <5> QED
            BY <4>1, <5>1
        <4> QED
          BY <3>1, <4>2
      <3> QED
        BY <1>10, <3>1, <3>2
    <2> QED
      BY <2>1 DEF FreshInv
  <1>11. CASE (\E c \in Clients : subscribe(c) \/ unsubscribe_connection(c))
             \/ (\E c \in Clients, m \in Messages : drop(c, m))
             \/ checkpoint_capture \/ checkpoint_rename \/ checkpoint_fails
             \/ compact_below \/ compact_list \/ compact_remove \/ compact_fails \/ UNCHANGED vars
    <2>1. /\ UNCHANGED <<log, published, journal>> /\ \A c \in Clients : held'[c] \subseteq held[c]
      BY <1>0, <1>11 DEF subscribe, unsubscribe_connection, drop, checkpoint_capture, checkpoint_rename,
         checkpoint_fails, compact_below, compact_list, compact_remove, compact_fails, vars, memory
    <2> QED
      BY <1>2, <2>1
  <1>12. CASE crash \/ open \/ replay_from_wal_with_checkpoint
    BY <1>10, <1>12 DEF crash, open, replay_from_wal_with_checkpoint
  <1> QED
    BY <1>3, <1>4, <1>5, <1>6, <1>7, <1>8, <1>9, <1>11, <1>12 DEF Next
-----------------------------------------------------------------------------
(* Cursors and snapshots never run ahead.                                  *)

LEMMA SoundStep ==
  ASSUME TypeOK, TypeOK', LogInv, MemoryInv, CursorInv, [Next]_vars,
         NEW s, s \in {checkpoint, replaced, task.snap, NoCheckpoint}
  PROVE  Sound(s)'
  <1>1. IsSnapshot(s) /\ Sound(s)
    <2>1. IsSnapshot(NoCheckpoint) /\ Sound(NoCheckpoint)
      BY DEF IsSnapshot, IsCursorMap, NoCheckpoint, NoKeys, Sound, TypeOK
    <2> QED
      BY <2>1 DEF TypeOK, CursorInv
  <1>2. \A c \in DOMAIN s.cursors : c \in Clients /\ s.cursors[c] \in Nat
    BY <1>1 DEF IsSnapshot, IsCursorMap
  <1>3. \A c \in DOMAIN s.cursors : Backed(c, s.cursors[c])'
    BY <1>1, <1>2, BackedStep DEF Sound
  <1>4. s.snapshot_id \in Nat /\ unclaimed \in [Clients -> Nat] /\ unclaimed' \in [Clients -> Nat]
    BY <1>1 DEF IsSnapshot, TypeOK
  <1>5. \A c \in Clients : s.snapshot_id <= unclaimed[c] => s.snapshot_id <= unclaimed'[c]
    BY <1>4, StepFacts
  <1> QED
    BY <1>1, <1>3, <1>5 DEF Sound

\* Compaction does not touch the snapshot.
LEMMA CompactKeepsSnap ==
  ASSUME TypeOK, compact_below \/ compact_list \/ compact_remove \/ compact_fails
  PROVE  task'.snap = task.snap
  <1>1. PICK old : old = task
    OBVIOUS
  <1>2. old = [pc |-> old.pc, rounds |-> old.rounds, snap |-> old.snap,
               seen |-> old.seen, segs |-> old.segs]
    BY <1>1 DEF TypeOK
  <1>3. \E segs : \/ task' = [old EXCEPT !.pc = "listing", !.seen = active, !.segs = segs]
                  \/ task' = [old EXCEPT !.pc = "removing", !.segs = segs]
                  \/ task' = [old EXCEPT !.segs = segs]
                  \/ task' = [old EXCEPT !.pc = "idle"]
                  \/ task' = [old EXCEPT !.pc = "idle", !.seen = 0, !.segs = segs]
    BY <1>1 DEF compact_below, compact_list, compact_remove, compact_fails, RoundEnded
  <1>4. PICK segs : \/ task' = [old EXCEPT !.pc = "listing", !.seen = active, !.segs = segs]
                    \/ task' = [old EXCEPT !.pc = "removing", !.segs = segs]
                    \/ task' = [old EXCEPT !.segs = segs]
                    \/ task' = [old EXCEPT !.pc = "idle"]
                    \/ task' = [old EXCEPT !.pc = "idle", !.seen = 0, !.segs = segs]
    BY <1>3
  <1> QED
    BY <1>1, <1>2, <1>4

LEMMA CursorStep ==
  ASSUME TypeOK, TypeOK', LogInv, MemoryInv, CursorInv, [Next]_vars
  PROVE  CursorInv'
  <1> USE RecoveryAssumption
  <1>0. /\ \A c \in DOMAIN cursors : c \in Clients /\ cursors[c] \in Nat
        /\ \A r \in log : r.client \in Clients \cup {NoClient} /\ r.acked \in Nat
    BY DEF TypeOK, IsCursorMap, Records
  <1>1. /\ \A c \in DOMAIN cursors : \E m \in acked'[c] : ids'[m] = cursors[c]
        /\ \A r \in log : r.client # NoClient => \E m \in acked'[r.client] : ids'[m] = r.acked
    BY <1>0, BackedStep DEF CursorInv, Backed
  <1>2. ASSUME checkpoint' \in {checkpoint, replaced, task.snap, NoCheckpoint},
               replaced' \in {checkpoint, replaced, task.snap, NoCheckpoint}
        PROVE  Sound(checkpoint)' /\ Sound(replaced)'
    <2>1. PICK s : s = checkpoint'
      OBVIOUS
    <2>2. PICK t : t = replaced'
      OBVIOUS
    <2>3. Sound(s)' /\ Sound(t)'
      BY <1>2, <2>1, <2>2, SoundStep
    <2> QED
      BY <2>1, <2>2, <2>3 DEF Sound, Backed
  <1>3. ASSUME task'.snap \in {task.snap, NoCheckpoint} PROVE Sound(task.snap)'
    <2>1. PICK s : s = task'.snap
      OBVIOUS
    <2>2. Sound(s)'
      BY <1>3, <2>1, SoundStep
    <2> QED
      BY <2>1, <2>2 DEF Sound, Backed
  <1>4. ASSUME UNCHANGED <<cursors, checkpoint, replaced>>, task'.snap = task.snap,
               \A r \in log' : r.client # NoClient => r \in log
        PROVE  CursorInv'
    <2>1. Sound(checkpoint)' /\ Sound(replaced)' /\ Sound(task.snap)'
      BY <1>2, <1>3, <1>4
    <2> QED
      BY <1>1, <1>4, <2>1 DEF CursorInv, Backed
  <1>5. ASSUME NEW m \in Messages, append_durable(m) PROVE CursorInv'
    <2>1. PICK e \in Entries : e = MessageEntry(m)
      BY DEF MessageEntry, Entries
    <2>2. e.client = NoClient
      BY <2>1 DEF MessageEntry
    <2>3. /\ published[m] = "begun" /\ UNCHANGED <<cursors, checkpoint, replaced, task>>
          /\ Append(ids[m], e) \/ UNCHANGED log
      BY <1>5, <2>1 DEF append_durable, memory
    <2>4. ids[m] \in Nat \ {0}
      BY <2>3 DEF MemoryInv, TypeOK
    <2>5. \A r \in log' : r.client # NoClient => r \in log
      BY <2>2, <2>3, <2>4, AppendFacts
    <2> QED
      BY <1>4, <2>3, <2>5
  <1>6. ASSUME NEW c \in Clients, NEW m \in Messages, ack(c, m) PROVE CursorInv'
    <2>1. /\ cursors' = Raise(cursors, c, ids[m]) /\ UNCHANGED <<log, checkpoint, replaced, task, ids>>
          /\ acked' = [acked EXCEPT ![c] = @ \cup {m}]
      BY <1>6 DEF ack
    <2>2. IsCursorMap(cursors) /\ ids[m] \in Nat /\ m \in acked'[c]
      BY <2>1 DEF TypeOK
    <2>3. /\ DOMAIN cursors' = DOMAIN cursors \cup {c}
          /\ \A d \in DOMAIN cursors \ {c} : cursors'[d] = cursors[d]
          /\ cursors'[c] = ids[m] \/ (c \in DOMAIN cursors /\ cursors'[c] = cursors[c])
      <3>1. PICK id \in Nat : id = ids[m]
        BY <2>2
      <3>2. PICK f : f = cursors
        OBVIOUS
      <3>3. cursors' = Raise(f, c, id) /\ IsCursorMap(f)
        BY <2>1, <2>2, <3>1, <3>2
      <3>4. /\ DOMAIN Raise(f, c, id) = DOMAIN f \cup {c}
            /\ \A d \in DOMAIN f \ {c} : Raise(f, c, id)[d] = f[d]
            /\ Raise(f, c, id)[c] = id \/ (c \in DOMAIN f /\ Raise(f, c, id)[c] = f[c])
        BY <3>3, RaiseFacts
      <3> QED
        BY <3>1, <3>2, <3>3, <3>4
    <2>4. \A d \in DOMAIN cursors' : \E n \in acked'[d] : ids'[n] = cursors'[d]
      BY <1>1, <2>1, <2>2, <2>3
    <2>5. Sound(checkpoint)' /\ Sound(replaced)' /\ Sound(task.snap)'
      BY <1>2, <1>3, <2>1
    <2> QED
      BY <1>1, <2>1, <2>4, <2>5 DEF CursorInv, Backed
  <1>7. ASSUME NEW j \in journal, append_ack(j) PROVE CursorInv'
    <2>0. j[1] \in Clients /\ j[2] \in Nat /\ j[3] \in Nat \ {0}
      BY <1>7 DEF TypeOK, append_ack
    <2>1. PICK e \in Entries : e = AckEntry(j[1], j[2])
      BY <2>0 DEF AckEntry, Entries
    <2>2. e.client = j[1] /\ e.acked = j[2]
      BY <2>1 DEF AckEntry
    <2>3. /\ UNCHANGED <<cursors, checkpoint, replaced, task>>
          /\ Append(j[3], e) \/ UNCHANGED log
      BY <1>7, <2>1 DEF append_ack
    <2>4. \A r \in log' : r \in log \/ (r.client = j[1] /\ r.acked = j[2])
      BY <2>0, <2>2, <2>3, AppendFacts
    <2>5. \E m \in acked'[j[1]] : ids'[m] = j[2]
      <3>1. Backed(j[1], j[2])
        BY DEF MemoryInv
      <3> QED
        BY <2>0, <3>1, BackedStep DEF Backed
    <2>6. Sound(checkpoint)' /\ Sound(replaced)' /\ Sound(task.snap)'
      BY <1>2, <1>3, <2>3
    <2> QED
      BY <1>1, <2>3, <2>4, <2>5, <2>6 DEF CursorInv, Backed
  <1>8. CASE checkpoint_capture
    <2>1. /\ task'.snap = current_snapshot /\ SnapshotUsed
          /\ UNCHANGED <<cursors, checkpoint, replaced, log, ids, acked>>
      BY <1>8 DEF checkpoint_capture, memory, TypeOK
    <2>2. PICK s : s = current_snapshot
      OBVIOUS
    <2>3. s.cursors = cursors /\ \A c \in DOMAIN cursors : s.snapshot_id <= cursors[c]
      BY <2>2, SnapshotFacts
    <2>4. \A c \in Clients \ DOMAIN cursors : s.snapshot_id <= unclaimed'[c]
      BY <2>1, <2>2, UsedFacts
    <2>5. Sound(task.snap)'
      BY <1>1, <2>1, <2>2, <2>3, <2>4 DEF Sound, Backed
    <2>6. Sound(checkpoint)' /\ Sound(replaced)'
      BY <1>2, <2>1
    <2> QED
      BY <1>1, <2>1, <2>5, <2>6 DEF CursorInv, Backed
  <1>9. CASE checkpoint_rename \/ checkpoint_fails
    <2>1. /\ checkpoint' \in {checkpoint, task.snap} /\ replaced' \in {replaced, checkpoint}
          /\ task'.snap = NoCheckpoint /\ UNCHANGED <<cursors, log>>
      BY <1>9 DEF checkpoint_rename, checkpoint_fails, memory, TypeOK
    <2>2. Sound(checkpoint)' /\ Sound(replaced)' /\ Sound(task.snap)'
      BY <1>2, <1>3, <2>1
    <2> QED
      BY <1>1, <2>1, <2>2 DEF CursorInv, Backed
  <1>10. CASE compact_below \/ compact_list \/ compact_remove \/ compact_fails
    <2>1. UNCHANGED <<cursors, checkpoint, replaced, log>>
      BY <1>10 DEF compact_below, compact_list, compact_remove, compact_fails, memory
    <2>2. task'.snap = task.snap
      BY <1>10, CompactKeepsSnap
    <2> QED
      BY <1>4, <2>1, <2>2
  <1>11. CASE crash
    <2>1. /\ log' \subseteq log /\ cursors' = NoKeys /\ DOMAIN NoKeys = {}
          /\ checkpoint' \in {checkpoint, replaced, NoCheckpoint} /\ replaced' = checkpoint'
          /\ task'.snap = NoCheckpoint
      BY <1>11 DEF crash, NoKeys
    <2>2. Sound(checkpoint)' /\ Sound(replaced)' /\ Sound(task.snap)'
      BY <1>2, <1>3, <2>1
    <2> QED
      BY <1>1, <2>1, <2>2 DEF CursorInv, Backed
  <1>12. CASE replay_from_wal_with_checkpoint
    <2>1. cursors' = RebuiltCursors /\ UNCHANGED <<log, checkpoint, replaced, task, ids, acked>>
      BY <1>12 DEF replay_from_wal_with_checkpoint, history
    <2>2. \A c \in DOMAIN RebuiltCursors : \E m \in acked[c] : ids[m] = RebuiltCursors[c]
      BY RebuiltFacts DEF Backed
    <2>3. \A c \in DOMAIN cursors' : \E m \in acked'[c] : ids'[m] = cursors'[c]
      BY <2>1, <2>2
    <2>4. Sound(checkpoint)' /\ Sound(replaced)' /\ Sound(task.snap)'
      BY <1>2, <1>3, <2>1
    <2> QED
      BY <1>1, <2>1, <2>3, <2>4 DEF CursorInv, Backed
  <1>13. CASE sync \/ open \/ (\E m \in Messages : publish_durable(m) \/ publish_with_wal_id(m))
             \/ (\E c \in Clients : subscribe(c) \/ unsubscribe_connection(c))
             \/ (\E c \in Clients, m \in Messages : drop(c, m)) \/ (\E j \in journal : journal_ack(j))
             \/ UNCHANGED vars
    BY <1>4, <1>13 DEF sync, open, publish_durable, publish_with_wal_id, subscribe,
       unsubscribe_connection, drop, journal_ack, vars, memory
  <1> QED
    BY <1>5, <1>6, <1>7, <1>8, <1>9, <1>10, <1>11, <1>12, <1>13 DEF Next
-----------------------------------------------------------------------------
(* What compaction has chosen, nobody wants.                               *)

\* When compact_below looks, all that it dooms is at or below the threshold.
LEMMA BelowFacts ==
  ASSUME TypeOK, LogInv, compact_below, task'.pc = "listing"
  PROVE  /\ task'.seen = active /\ task'.seen \in task'.segs
         /\ \A r \in log : Doomed(r.seg)' => r.id <= current_snapshot.snapshot_id
         /\ \A r, a \in log : Doomed(a.seg)' /\ r.seg < a.seg =>
              Doomed(r.seg)' \/ \E q \in log : q.pos < a.pos /\ q.id > a.id
  <1> DEFINE Spared(safe) == ({active} \cup {r.seg : r \in log}) \ Covered(safe)
  <1>1. PICK safe \in Nat : safe = current_snapshot.snapshot_id
    BY SnapshotFacts DEF IsSnapshot
  <1>2. \/ task' = [task EXCEPT !.pc = "listing", !.seen = active, !.segs = Spared(safe)]
        \/ task' = [task EXCEPT !.pc = "idle"]
    BY <1>1 DEF compact_below
  <1>3. task'.seen = active /\ task'.segs = Spared(safe)
    <2>1. PICK spared : spared = Spared(safe)
      OBVIOUS
    <2>2. task' = [task EXCEPT !.pc = "listing", !.seen = active, !.segs = spared] \/ task' = [task EXCEPT !.pc = "idle"]
      BY <1>2, <2>1
    <2> HIDE DEF Spared
    <2> QED
      BY <2>1, <2>2 DEF TypeOK
  <1>4. /\ active \in Nat /\ \A r \in log : r.id \in Nat /\ r.seg \in Nat /\ r.pos \in Nat
    BY DEF TypeOK, Records
  <1>5. \A s : s \in Covered(safe) <=> /\ s \in {r.seg : r \in log} \ {active}
                                       /\ \A r \in log : r.seg = s => r.id <= safe
    BY DEF Covered
  <1>6. \A s \in Nat : Doomed(s)' <=> s < active /\ s \notin Spared(safe)
    BY <1>3 DEF Doomed
  <1>7. ASSUME NEW r \in log, Doomed(r.seg)' PROVE r.id <= safe
    BY <1>4, <1>5, <1>6, <1>7
  <1>8. ASSUME NEW r \in log, NEW a \in log, Doomed(a.seg)', r.seg < a.seg,
               ~ Doomed(r.seg)'
        PROVE  \E q \in log : q.pos < a.pos /\ q.id > a.id
    <2>1. a.seg < active /\ r.seg < active /\ a.id <= safe
      BY <1>4, <1>6, <1>7, <1>8
    <2>2. r.seg \in Spared(safe)
      BY <1>4, <1>6, <1>8, <2>1
    <2>3. r.seg \notin Covered(safe) /\ r.seg # active
      BY <1>4, <2>1, <2>2
    <2>4. PICK q \in log : q.seg = r.seg /\ ~ (q.id <= safe)
      BY <1>5, <2>3
    <2>5. q.id > a.id
      BY <1>4, <2>1, <2>4
    <2>6. ~ (a.pos <= q.pos)
      <3>1. a.pos <= q.pos => a.seg <= q.seg
        BY DEF LogInv
      <3> QED
        BY <1>4, <1>8, <2>4, <3>1
    <2> QED
      BY <1>4, <2>5, <2>6
  <1>9. active \notin Covered(safe)
    BY <1>5
  <1> QED
    BY <1>1, <1>3, <1>7, <1>8, <1>9

LEMMA CompactStep ==
  ASSUME TypeOK, TypeOK', LogInv, MemoryInv, CursorInv, CompactInv, [Next]_vars
  PROVE  CompactInv'
  <1> USE RecoveryAssumption
  <1>0. /\ active \in Nat /\ files \subseteq Nat /\ task.seen \in Nat
        /\ \A r \in log : /\ r.seg \in Nat /\ r.pos \in Nat /\ r.id \in Nat /\ r.seg <= active
                          /\ r.msg # NoMessage => r.msg \in Messages
    BY DEF TypeOK, Records, LogInv
  <1>1. ASSUME NEW r \in log, r.msg # NoMessage, NEW c \in Clients, ~ Wanted(c, r.msg) PROVE ~ Wanted(c, r.msg)'
    <2>1. r.msg \in Messages /\ published[r.msg] # "idle"
      BY <1>0, <1>1 DEF LogInv
    <2> QED
      BY <1>1, <2>1, BackedStep
  \* No compaction is under way.
  <1>2. ASSUME task'.pc \notin {"listing", "removing"} PROVE CompactInv'
    BY <1>2 DEF CompactInv, Doomed
  \* The log grows beyond what was seen.
  <1>3. ASSUME UNCHANGED task, up' = up, active <= active', active' \in Nat,
               \A r \in log' : r \in log \/ r.seg = active', log \subseteq log',
               \A f \in files' : f \in files \/ (f = active' /\ active < active')
        PROVE  CompactInv'
    <2>1. CASE task.pc \notin {"listing", "removing"}
      BY <1>2, <1>3, <2>1
    <2>2. CASE task.pc \in {"listing", "removing"}
      <3>1. up = "up" /\ task.seen <= active /\ task.seen <= active'
        BY <1>0, <1>3, <2>2 DEF CompactInv
      <3>2. \A s : Doomed(s)' <=> Doomed(s)
        BY <1>3 DEF Doomed
      <3>3. ASSUME NEW r \in log', Doomed(r.seg) PROVE r \in log /\ r.seg < task.seen
        BY <1>0, <1>3, <3>1, <3>3 DEF Doomed
      <3>4. ASSUME NEW r \in log', r.msg # NoMessage, Doomed(r.seg), NEW c \in Clients PROVE ~ Wanted(c, r.msg)'
        BY <1>1, <3>3, <3>4 DEF CompactInv
      <3>5. ASSUME NEW r \in log', NEW a \in log', Doomed(a.seg), r.seg < a.seg, r.seg \in files'
            PROVE  Doomed(r.seg) \/ \E q \in log' : q.pos < a.pos /\ q.id > a.id
        <4>1. a \in log /\ a.seg < task.seen
          BY <3>3, <3>5
        <4>2. r \in log /\ r.seg \in files
          BY <1>0, <1>3, <3>1, <3>5, <4>1
        <4>3. Doomed(r.seg) \/ \E q \in log : q.pos < a.pos /\ q.id > a.id
          BY <3>5, <4>1, <4>2 DEF CompactInv
        <4> QED
          BY <1>3, <4>3
      <3> QED
        BY <1>3, <3>1, <3>2, <3>4, <3>5 DEF CompactInv
    <2> QED
      BY <2>1, <2>2
  \* Compaction goes on with the segments it has chosen, as far as they are left.
  <1>4. ASSUME UNCHANGED <<log, up, active>>, up = "up", task'.pc = "removing", files' \subseteq files,
               task'.seen = task.seen, task.seen <= active,
               task'.seen \notin task'.segs, task'.segs # {},
               \A s : Doomed(s)' => Doomed(s),
               \A s \in files' : Doomed(s) => Doomed(s)'
        PROVE  CompactInv'
    <2>1. ASSUME NEW r \in log', r.msg # NoMessage, Doomed(r.seg)', NEW c \in Clients PROVE ~ Wanted(c, r.msg)'
      BY <1>1, <1>4, <2>1 DEF CompactInv
    <2>2. ASSUME NEW r \in log', NEW a \in log', Doomed(a.seg)', r.seg < a.seg, r.seg \in files'
          PROVE  Doomed(r.seg)' \/ \E q \in log' : q.pos < a.pos /\ q.id > a.id
      <3>1. Doomed(r.seg) \/ \E q \in log : q.pos < a.pos /\ q.id > a.id
        BY <1>4, <2>2 DEF CompactInv
      <3> QED
        BY <1>4, <2>2, <3>1
    <2> QED
      BY <1>4, <2>1, <2>2 DEF CompactInv
  <1>5. ASSUME NEW m \in Messages, append_durable(m) PROVE CompactInv'
    <2>1. PICK e \in Entries : e = MessageEntry(m)
      BY DEF MessageEntry, Entries
    <2>2. /\ published[m] = "begun" /\ UNCHANGED <<up, task>>
          /\ Append(ids[m], e) \/ UNCHANGED <<log, files, active>>
      BY <1>5, <2>1 DEF append_durable
    <2>3. ids[m] \in Nat \ {0}
      BY <2>2 DEF MemoryInv, TypeOK
    <2>4. CASE Append(ids[m], e)
      <3>1. /\ active <= active' /\ active' \in Nat
            /\ files' = files \/ (active' = active + 1 /\ files' = files \cup {active'})
            /\ log \subseteq log' /\ \A r \in log' : r \in log \/ r.seg = active'
        BY <2>3, <2>4, AppendFacts
      <3> QED
        BY <1>0, <1>3, <2>2, <3>1
    <2>5. CASE UNCHANGED <<log, files, active>>
      BY <1>0, <1>3, <2>2, <2>5
    <2> QED
      BY <2>2, <2>4, <2>5
  <1>6. ASSUME NEW j \in journal, append_ack(j) PROVE CompactInv'
    <2>0. j[1] \in Clients /\ j[2] \in Nat /\ j[3] \in Nat \ {0}
      BY <1>6 DEF TypeOK, append_ack
    <2>1. PICK e \in Entries : e = AckEntry(j[1], j[2])
      BY <2>0 DEF AckEntry, Entries
    <2>2. /\ UNCHANGED <<up, task>>
          /\ Append(j[3], e) \/ UNCHANGED <<log, files, active>>
      BY <1>6, <2>1 DEF append_ack
    <2>3. CASE Append(j[3], e)
      <3>1. /\ active <= active' /\ active' \in Nat
            /\ files' = files \/ (active' = active + 1 /\ files' = files \cup {active'})
            /\ log \subseteq log' /\ \A r \in log' : r \in log \/ r.seg = active'
        BY <2>0, <2>3, AppendFacts
      <3> QED
        BY <1>0, <1>3, <2>2, <3>1
    <2>4. CASE UNCHANGED <<log, files, active>>
      BY <1>0, <1>3, <2>2, <2>4
    <2> QED
      BY <2>2, <2>3, <2>4
  <1>7. CASE compact_below
    <2>1. /\ up = "up" /\ SnapshotUsed
          /\ UNCHANGED <<up, log, files, active, ids, acked, cursors>>
      BY <1>7 DEF compact_below, memory, Running
    <2>2. CASE task'.pc = "listing"
      <3>1. PICK safe \in Nat : safe = current_snapshot.snapshot_id
        BY SnapshotFacts DEF IsSnapshot
      <3>2. /\ task'.seen = active /\ task'.seen \in task'.segs
            /\ \A r \in log : Doomed(r.seg)' => r.id <= safe
            /\ \A r, a \in log : Doomed(a.seg)' /\ r.seg < a.seg =>
                 Doomed(r.seg)' \/ \E q \in log : q.pos < a.pos /\ q.id > a.id
        BY <1>7, <2>2, <3>1, BelowFacts
      <3>3. ASSUME NEW r \in log, r.msg # NoMessage, Doomed(r.seg)', NEW c \in Clients PROVE ~ Wanted(c, r.msg)'
        <4>1. r.id <= safe /\ r.msg \in Messages /\ ids[r.msg] = r.id
          BY <1>0, <3>2, <3>3 DEF LogInv
        <4>2. CASE c \in DOMAIN cursors
          <5>1. safe <= cursors[c] /\ cursors[c] \in Nat /\ Backed(c, cursors[c])
            BY <3>1, <4>2, SnapshotFacts DEF CursorInv, TypeOK, IsCursorMap
          <5>2. PICK n \in acked[c] : ids[n] = cursors[c]
            BY <5>1 DEF Backed
          <5>3. ~ (ids[n] < ids[r.msg])
            BY <1>0, <3>1, <4>1, <5>1, <5>2
          <5> QED
            BY <2>1, <5>3 DEF Wanted
        <4>3. CASE c \notin DOMAIN cursors
          <5>1. safe <= unclaimed'[c] /\ unclaimed'[c] \in Nat
            BY <2>1, <3>1, <4>3, UsedFacts
          <5> QED
            BY <1>0, <2>1, <4>1, <5>1 DEF Wanted
        <4> QED
          BY <4>2, <4>3
      <3>4. active <= active
        BY <1>0
      <3> QED
        BY <2>1, <2>2, <3>2, <3>3, <3>4 DEF CompactInv
    <2>3. CASE task'.pc # "listing"
      <3>1. PICK spared : spared = ({active} \cup {r.seg : r \in log}) \ Covered(current_snapshot.snapshot_id)
        OBVIOUS
      <3>2. \/ task' = [task EXCEPT !.pc = "listing", !.seen = active, !.segs = spared]
            \/ task' = [task EXCEPT !.pc = "idle"]
        BY <1>7, <3>1 DEF compact_below
      <3>3. task'.pc = "idle"
        BY <2>3, <3>2 DEF TypeOK
      <3> QED
        BY <1>2, <3>3
    <2> QED
      BY <2>2, <2>3
  <1>8. CASE compact_list
    <2>1. /\ up = "up" /\ task.pc = "listing" /\ UNCHANGED <<up, log, files, active>>
          /\ \/ task' = [task EXCEPT !.pc = "idle", !.seen = 0, !.segs = {}]
             \/ /\ files \ task.segs # {}
                /\ task' = [task EXCEPT !.pc = "removing", !.segs = files \ task.segs]
      BY <1>8 DEF compact_list, RoundEnded, Running
    <2>2. CASE task' = [task EXCEPT !.pc = "idle", !.seen = 0, !.segs = {}]
      <3>1. task'.pc = "idle"
        BY <2>2 DEF TypeOK
      <3> QED
        BY <1>2, <3>1
    <2>3. CASE files \ task.segs # {} /\ task' = [task EXCEPT !.pc = "removing", !.segs = files \ task.segs]
      <3>1. task'.pc = "removing" /\ task'.segs = files \ task.segs /\ task'.seen = task.seen
        BY <2>3 DEF TypeOK
      <3>2. task.seen <= active /\ task.seen \in task.segs
        BY <2>1 DEF CompactInv
      <3>3. /\ \A s : Doomed(s)' => Doomed(s)
            /\ \A s \in files : Doomed(s) => Doomed(s)'
        BY <2>1, <3>1 DEF Doomed
      <3> QED
        BY <1>4, <2>1, <2>3, <3>1, <3>2, <3>3
    <2> QED
      BY <2>1, <2>2, <2>3
  <1>9. CASE compact_remove
    <2>1. PICK seg : seg = Min(task.segs)
      OBVIOUS
    <2>2. /\ up = "up" /\ task.pc = "removing" /\ UNCHANGED <<up, log, active>>
          /\ files' = files \ {seg}
          /\ \/ task' = [task EXCEPT !.pc = "idle", !.seen = 0, !.segs = {}]
             \/ task.segs # {seg} /\ task' = [task EXCEPT !.segs = @ \ {seg}]
      BY <1>9, <2>1 DEF compact_remove, RoundEnded, Running
    <2>3. CASE task' = [task EXCEPT !.pc = "idle", !.seen = 0, !.segs = {}]
      <3>1. task'.pc = "idle"
        BY <2>3 DEF TypeOK
      <3> QED
        BY <1>2, <3>1
    <2>4. CASE task.segs # {seg} /\ task' = [task EXCEPT !.segs = @ \ {seg}]
      <3>1. task'.pc = "removing" /\ task'.segs = task.segs \ {seg} /\ task'.seen = task.seen
        BY <2>2, <2>4 DEF TypeOK
      <3>2. task.seen <= active /\ task.seen \notin task.segs /\ task.segs # {}
        BY <2>2 DEF CompactInv
      <3>3. /\ \A s : Doomed(s)' => Doomed(s)
            /\ \A s \in files' : Doomed(s) => Doomed(s)'
        BY <2>2, <3>1 DEF Doomed
      <3>4. task'.segs # {} /\ task'.seen \notin task'.segs /\ files' \subseteq files
        BY <2>2, <2>4, <3>1, <3>2
      <3> QED
        BY <1>4, <2>2, <3>1, <3>2, <3>3, <3>4
    <2> QED
      BY <2>2, <2>3, <2>4
  <1>10. CASE checkpoint_capture \/ checkpoint_rename \/ checkpoint_fails \/ compact_fails \/ crash
    <2>1. task'.pc \in {"captured", "written", "idle"}
      <3>1. PICK snap : snap = current_snapshot
        OBVIOUS
      <3>2. \/ task' = [task EXCEPT !.pc = "captured", !.rounds = @ + 1, !.snap = snap]
            \/ task' = [task EXCEPT !.pc = "written", !.snap = NoCheckpoint]
            \/ task' = [task EXCEPT !.pc = "idle", !.snap = NoCheckpoint]
            \/ task' = [task EXCEPT !.pc = "idle", !.seen = 0, !.segs = {}]
            \/ task'.pc = "idle"
        BY <1>10, <3>1 DEF checkpoint_capture, checkpoint_rename, checkpoint_fails, compact_fails, RoundEnded, crash
      <3>3. CASE task' = [task EXCEPT !.pc = "captured", !.rounds = @ + 1, !.snap = snap]
        BY <3>3 DEF TypeOK
      <3>4. CASE task' = [task EXCEPT !.pc = "written", !.snap = NoCheckpoint]
        BY <3>4 DEF TypeOK
      <3>5. CASE task' = [task EXCEPT !.pc = "idle", !.snap = NoCheckpoint]
        BY <3>5 DEF TypeOK
      <3>6. CASE task' = [task EXCEPT !.pc = "idle", !.seen = 0, !.segs = {}]
        BY <3>6 DEF TypeOK
      <3> QED
        BY <3>2, <3>3, <3>4, <3>5, <3>6
    <2> QED
      BY <1>2, <2>1
  <1>11. CASE open \/ replay_from_wal_with_checkpoint
    <2>1. up # "up" /\ UNCHANGED task
      BY <1>11 DEF open, replay_from_wal_with_checkpoint
    <2>2. task'.pc \notin {"listing", "removing"}
      BY <2>1 DEF CompactInv
    <2> QED
      BY <1>2, <2>2
  <1>12. CASE sync \/ (\E m \in Messages : publish_durable(m) \/ publish_with_wal_id(m))
             \/ (\E c \in Clients : subscribe(c) \/ unsubscribe_connection(c))
             \/ (\E c \in Clients, m \in Messages : drop(c, m) \/ ack(c, m))
             \/ (\E j \in journal : journal_ack(j)) \/ UNCHANGED vars
    <2>1. UNCHANGED <<up, task, active, log, files>>
      BY <1>12 DEF sync, publish_durable, publish_with_wal_id, subscribe, unsubscribe_connection, drop, ack,
         journal_ack, vars
    <2> QED
      BY <1>0, <1>3, <2>1
  <1> QED
    BY <1>5, <1>6, <1>7, <1>8, <1>9, <1>10, <1>11, <1>12 DEF Next
-----------------------------------------------------------------------------
(* What is wanted stays in the log, and what settled it.                   *)

\* A crash leaves all that is on disk.
LEMMA CrashFacts ==
  ASSUME TypeOK, LogInv, crash
  PROVE  /\ log' \subseteq log /\ up' = "down" /\ UNCHANGED files
         /\ \A r \in log : r.pos <= synced /\ r.seg \in files => r \in log'
         /\ up = "opened" => \A r \in log : r.pos <= synced
  <1>1. /\ log' = {r \in log : r.pos <= written' /\ r.seg \in files} /\ written' \in synced..written
        /\ up' = "down" /\ UNCHANGED files
    BY DEF crash
  <1>2. synced \in Nat /\ written \in Nat /\ \A r \in log : r.pos \in Nat
    BY DEF TypeOK, Records
  <1>3. written' \in Nat /\ synced <= written'
    BY <1>1, <1>2
  <1> QED
    BY <1>1, <1>2, <1>3 DEF LogInv

LEMMA KeptStep ==
  ASSUME TypeOK, TypeOK', LogInv, MemoryInv, CompactInv, KeptInv, [Next]_vars
  PROVE  KeptInv'
  <1> USE RecoveryAssumption
  <1> DEFINE K == {"queued", "durable", "ok", "stored"}
  <1>0. /\ published \in [Messages -> Phases]
        /\ ids \in [Messages -> Nat] /\ synced \in Nat /\ synced' \in Nat
        /\ \A r \in log : r.pos \in Nat
    BY DEF TypeOK, Records, Phases
  <1>1. ASSUME NEW c \in Clients, NEW m \in Messages, published[m] \in K, Wanted(c, m)', m \notin raced'
        PROVE  /\ Wanted(c, m)
               /\ \E r \in log : /\ r.msg = m /\ r.seg \in files
                                 /\ up = "up" /\ published[m] # "queued" => r.pos <= synced
    BY <1>1, BackedStep, StepFacts DEF KeptInv
  \* The log loses nothing, and what is confirmed is on disk.
  <1>2. ASSUME log \subseteq log', files \subseteq files',
               \A m \in Messages : published'[m] \in K => published[m] \in K,
               \/ up' # "up"
               \/ \A r \in log : r.pos <= synced'
               \/ /\ up = "up" /\ synced <= synced'
                  /\ \A m \in Messages : published[m] = "queued" => published'[m] \notin K \ {"queued"}
        PROVE  KeptInv'
    <2> SUFFICES ASSUME NEW c \in Clients, NEW m \in Messages, published'[m] \in K, Wanted(c, m)', m \notin raced'
                 PROVE  \E r \in log' : /\ r.msg = m /\ r.seg \in files'
                                        /\ up' = "up" /\ published'[m] # "queued" => r.pos <= synced'
      BY DEF KeptInv
    <2>1. PICK r \in log : /\ r.msg = m /\ r.seg \in files
                           /\ up = "up" /\ published[m] # "queued" => r.pos <= synced
      BY <1>1, <1>2
    <2> QED
      BY <1>0, <1>2, <2>1
  <1>3. CASE sync
    <2>1. /\ UNCHANGED <<log, files>> /\ synced' = written
          /\ \A m \in Messages : published'[m] \in K => published[m] \in K
      BY <1>0, <1>3 DEF sync, SyncTo
    <2>2. \A r \in log : r.pos <= synced'
      BY <2>1 DEF LogInv
    <2> QED
      BY <1>2, <2>1, <2>2
  <1>4. ASSUME NEW n \in Messages, append_durable(n) PROVE KeptInv'
    <2>1. PICK e \in Entries : e = MessageEntry(n)
      BY DEF MessageEntry, Entries
    <2>2. e.msg = n
      BY <2>1 DEF MessageEntry
    <2>3. /\ up = "up" /\ UNCHANGED up /\ published[n] = "begun"
          /\ \/ Append(ids[n], e) /\ published' = [published EXCEPT ![n] = "queued"]
             \/ UNCHANGED <<log, files, synced>> /\ published' = [published EXCEPT ![n] = "err"]
      BY <1>4, <2>1 DEF append_durable, Running
    <2>4. ids[n] \in Nat \ {0}
      BY <2>3 DEF MemoryInv, TypeOK
    <2>5. CASE Append(ids[n], e) /\ published' = [published EXCEPT ![n] = "queued"]
      <3>1. PICK x \in log' : x.msg = n /\ x.seg = active'
        BY <2>2, <2>4, <2>5, AppendFacts
      <3>2. /\ log \subseteq log' /\ files \subseteq files' /\ synced <= synced'
            /\ active' \in files' \/ n \in raced' \cup {NoMessage}
        BY <2>2, <2>4, <2>5, AppendFacts
      <3>3. n # NoMessage
        BY DEF NoMessage
      <3> SUFFICES ASSUME NEW c \in Clients, NEW m \in Messages, published'[m] \in K, Wanted(c, m)', m \notin raced'
                   PROVE  \E r \in log' : /\ r.msg = m /\ r.seg \in files'
                                          /\ up' = "up" /\ published'[m] # "queued" => r.pos <= synced'
        BY DEF KeptInv
      <3>4. CASE m = n
        <4>1. published'[m] = "queued"
          BY <1>0, <2>5, <3>4
        <4> QED
          BY <3>1, <3>2, <3>3, <3>4, <4>1
      <3>5. CASE m # n
        <4>1. published'[m] = published[m]
          BY <1>0, <2>5, <3>5
        <4>2. PICK r \in log : /\ r.msg = m /\ r.seg \in files
                               /\ up = "up" /\ published[m] # "queued" => r.pos <= synced
          BY <1>1, <4>1
        <4> QED
          BY <1>0, <2>3, <3>2, <4>1, <4>2
      <3> QED
        BY <3>4, <3>5
    <2>6. CASE UNCHANGED <<log, files, synced>> /\ published' = [published EXCEPT ![n] = "err"]
      <3>1. \A m \in Messages : /\ published'[m] \in K => published[m] \in K
                                /\ published[m] = "queued" => published'[m] \notin K \ {"queued"}
        BY <1>0, <2>3, <2>6
      <3> QED
        BY <1>0, <1>2, <2>3, <2>6, <3>1
    <2> QED
      BY <2>3, <2>5, <2>6
  <1>5. ASSUME NEW j \in journal, append_ack(j) PROVE KeptInv'
    <2>0. j[1] \in Clients /\ j[2] \in Nat /\ j[3] \in Nat \ {0}
      BY <1>5 DEF TypeOK, append_ack
    <2>1. PICK e \in Entries : e = AckEntry(j[1], j[2])
      BY <2>0 DEF AckEntry, Entries
    <2>2. /\ up = "up" /\ UNCHANGED published
          /\ Append(j[3], e) \/ UNCHANGED <<log, files, synced>>
      BY <1>5, <2>1 DEF append_ack, Running
    <2>3. log \subseteq log' /\ files \subseteq files' /\ synced <= synced'
      BY <1>0, <2>0, <2>2, AppendFacts
    <2> QED
      BY <1>2, <2>2, <2>3
  <1>6. ASSUME NEW n \in Messages, publish_durable(n) \/ publish_with_wal_id(n) PROVE KeptInv'
    <2>1. /\ up = "up" /\ UNCHANGED <<log, files, synced>>
          /\ \/ published[n] = "idle" /\ published' = [published EXCEPT ![n] = "begun"]
             \/ published[n] = "durable" /\ published' = [published EXCEPT ![n] = "ok"]
      BY <1>6 DEF publish_durable, publish_with_wal_id, Running
    <2>2. \A m \in Messages : /\ published'[m] \in K => published[m] \in K
                              /\ published[m] = "queued" => published'[m] \notin K \ {"queued"}
      BY <1>0, <2>1
    <2> QED
      BY <1>0, <1>2, <2>1, <2>2
  <1>7. CASE compact_remove
    <2>1. PICK seg : seg = Min(task.segs)
      OBVIOUS
    <2>2. /\ task.pc = "removing" /\ UNCHANGED <<up, log, synced, published>> /\ files' = files \ {seg}
          /\ seg > task.seen => \A r \in log : r.seg = seg /\ r.msg # NoMessage => r.msg \in raced'
      BY <1>7, <2>1 DEF compact_remove
    <2>3. seg \in task.segs /\ seg # task.seen /\ seg \in Nat /\ task.seen \in Nat
      <3>1. task.segs \in SUBSET Nat /\ task.segs # {} /\ task.seen \notin task.segs
        BY <2>2 DEF TypeOK, CompactInv
      <3> QED
        BY <2>1, <3>1, MinFacts DEF TypeOK
    <2> SUFFICES ASSUME NEW c \in Clients, NEW m \in Messages, published[m] \in K, Wanted(c, m)', m \notin raced'
                 PROVE  \E r \in log : /\ r.msg = m /\ r.seg \in files'
                                       /\ up = "up" /\ published[m] # "queued" => r.pos <= synced
      BY <2>2 DEF KeptInv
    <2>4. PICK r \in log : /\ r.msg = m /\ r.seg \in files
                           /\ up = "up" /\ published[m] # "queued" => r.pos <= synced
      BY <1>1
    <2>5. ASSUME r.seg = seg PROVE FALSE
      <3>1. m # NoMessage
        BY DEF NoMessage
      <3>2. ~ (seg > task.seen)
        BY <2>2, <2>4, <2>5, <3>1
      <3>3. Doomed(r.seg)
        BY <2>2, <2>3, <2>5, <3>2 DEF Doomed
      <3>4. ~ Wanted(c, m)
        BY <2>4, <3>1, <3>3 DEF CompactInv
      <3> QED
        BY <1>1, <3>4
    <2> QED
      BY <2>2, <2>4, <2>5
  <1>8. CASE crash
    <2> SUFFICES ASSUME NEW c \in Clients, NEW m \in Messages, published'[m] \in K, Wanted(c, m)', m \notin raced'
                 PROVE  \E r \in log' : r.msg = m /\ r.seg \in files'
      BY <1>8, CrashFacts DEF KeptInv
    <2>1. /\ up \in {"opened", "up"}
          /\ published' = [n \in Messages |->
               CASE published[n] \in {"begun", "queued"} -> "err" [] published[n] = "durable" -> "stored"
                 [] OTHER -> published[n]]
      BY <1>8 DEF crash, TypeOK
    <2>2. published[m] \in K /\ published[m] # "queued"
      BY <1>0, <2>1 DEF Phases
    <2>3. PICK r \in log : /\ r.msg = m /\ r.seg \in files
                           /\ up = "up" /\ published[m] # "queued" => r.pos <= synced
      BY <1>1, <2>2
    <2>4. r.pos <= synced
      BY <1>8, <2>1, <2>2, <2>3, CrashFacts
    <2> QED
      BY <1>8, <2>3, <2>4, CrashFacts
  <1>9. CASE open
    <2>1. up' = "opened" /\ UNCHANGED <<log, published>> /\ files \subseteq files'
      BY <1>9, OpenFacts DEF open
    <2> QED
      BY <1>2, <2>1
  <1>10. CASE replay_from_wal_with_checkpoint
    <2>1. up = "opened" /\ UNCHANGED <<log, files, synced, published>>
      BY <1>10 DEF replay_from_wal_with_checkpoint
    <2>2. \A r \in log : r.pos <= synced'
      BY <2>1 DEF LogInv
    <2> QED
      BY <1>2, <2>1, <2>2
  <1>11. CASE (\E c \in Clients : subscribe(c) \/ unsubscribe_connection(c))
             \/ (\E c \in Clients, m \in Messages : drop(c, m) \/ ack(c, m)) \/ (\E j \in journal : journal_ack(j))
             \/ checkpoint_capture \/ checkpoint_rename \/ checkpoint_fails
             \/ compact_below \/ compact_list \/ compact_fails \/ UNCHANGED vars
    <2>1. UNCHANGED <<up, log, files, synced, published>>
      BY <1>11 DEF subscribe, unsubscribe_connection, drop, ack, journal_ack,
         checkpoint_capture, checkpoint_rename, checkpoint_fails, compact_below, compact_list, compact_fails, vars
    <2>2. synced <= synced /\ (up = "opened" => \A r \in log : r.pos <= synced')
      BY <1>0, <2>1 DEF LogInv
    <2> QED
      BY <1>2, <2>1, <2>2 DEF TypeOK
  <1> QED
    BY <1>3, <1>4, <1>5, <1>6, <1>7, <1>8, <1>9, <1>10, <1>11 DEF Next

LEMMA SettledStep ==
  ASSUME TypeOK, TypeOK', LogInv, MemoryInv, CompactInv, SettledInv, [Next]_vars
  PROVE  SettledInv'
  <1> USE RecoveryAssumption
  <1>0. /\ settled \in [Clients -> SUBSET Messages] /\ acked \in [Clients -> SUBSET Messages]
        /\ settled' \in [Clients -> SUBSET Messages]
        /\ synced \in Nat /\ synced' \in Nat /\ active \in Nat
        /\ \A r \in log : r.pos \in Nat /\ r.seg \in Nat /\ r.seg <= active
    BY DEF TypeOK, Records, LogInv
  <1>1. \A r \in log : r.msg \in Messages => r.id = ids[r.msg] /\ r.msg # NoMessage
    BY DEF LogInv, NoMessage
  \* No file goes, and no message that was settled is written.
  <1>2. ASSUME log \subseteq log', files \subseteq files',
               \A c \in Clients : \A m \in settled'[c] :
                 /\ \A r \in log' : r.msg = m /\ r.seg \in files' => r \in log /\ r.seg \in files
                 /\ \/ m \in settled[c]
                    \/ \E a \in log : a.client = c /\ a.acked = ids[m] /\ a.pos <= synced' /\ a.seg \in files,
               \/ up' # "up"
               \/ \A r \in log : r.pos <= synced'
               \/ up = "up" /\ synced <= synced'
        PROVE  SettledInv'
    <2> SUFFICES ASSUME NEW c \in Clients, NEW m \in settled'[c], NEW r \in log', r.msg = m, r.seg \in files'
                 PROVE  \E a \in log' : /\ a.client = c /\ a.acked = r.id /\ a.seg \in files'
                                        /\ up' = "up" => a.pos <= synced'
      BY DEF SettledInv
    <2>1. r \in log /\ r.seg \in files /\ m \in Messages
      BY <1>0, <1>2
    <2>2. CASE m \in settled[c]
      <3>1. PICK a \in log : /\ a.client = c /\ a.acked = r.id /\ a.seg \in files
                             /\ up = "up" => a.pos <= synced
        BY <2>1, <2>2 DEF SettledInv
      <3> QED
        BY <1>0, <1>2, <3>1
    <2>3. CASE \E a \in log : a.client = c /\ a.acked = ids[m] /\ a.pos <= synced' /\ a.seg \in files
      <3>1. r.id = ids[m]
        BY <1>1, <2>1
      <3> QED
        BY <1>2, <2>3, <3>1
    <2> QED
      BY <1>2, <2>2, <2>3
  <1>3. CASE sync
    <2>1. SyncTo(written) /\ written \in Nat /\ UNCHANGED <<log, files>>
      BY <1>3 DEF sync, TypeOK
    <2>2. \A r \in log : r.pos <= synced'
      BY <2>1, SyncFacts DEF LogInv
    <2>3. \A c \in Clients : \A m \in settled'[c] :
                 \/ m \in settled[c]
                 \/ \E a \in log : a.client = c /\ a.acked = ids[m] /\ a.pos <= synced' /\ a.seg \in files
      BY <2>1, SyncFacts
    <2> QED
      BY <1>2, <2>1, <2>2, <2>3
  \* A record with a message that is not settled, or none, is appended.
  <1>4. ASSUME up = "up", NEW id \in Nat \ {0}, NEW e \in Entries, Append(id, e),
               \A c \in Clients : e.msg \notin acked[c] \cup settled[c]
        PROVE  SettledInv'
    <2>1. PICK x \in Records : x.msg = e.msg /\ x.seg = active' /\ log' = log \cup {x}
      BY <1>4, AppendFacts
    <2>2. /\ synced <= synced'
          /\ files' = files \/ (active' = active + 1 /\ files' = files \cup {active'})
          /\ \A c \in Clients : \A m \in settled'[c] :
               \/ m \in settled[c]
               \/ /\ m \in acked[c]
                  /\ \E a \in log : a.client = c /\ a.acked = ids[m] /\ a.pos <= synced' /\ a.seg \in files
      BY <1>4, AppendFacts
    <2>3. ASSUME NEW c \in Clients, NEW m \in settled'[c], NEW r \in log', r.msg = m, r.seg \in files'
          PROVE  r \in log /\ r.seg \in files
      <3>1. m # e.msg
        BY <1>4, <2>2
      <3>2. r \in log
        BY <2>1, <2>3, <3>1
      <3> QED
        BY <1>0, <2>2, <2>3, <3>2
    <2> QED
      BY <1>2, <1>4, <2>1, <2>2, <2>3
  <1>5. ASSUME NEW n \in Messages, append_durable(n) PROVE SettledInv'
    <2>1. PICK e \in Entries : e = MessageEntry(n)
      BY DEF MessageEntry, Entries
    <2>2. e.msg = n
      BY <2>1 DEF MessageEntry
    <2>3. /\ up = "up" /\ published[n] = "begun"
          /\ Append(ids[n], e) \/ UNCHANGED <<log, files, synced, settled>>
      BY <1>5, <2>1 DEF append_durable, Running
    <2>4. ids[n] \in Nat \ {0}
      BY <2>3 DEF MemoryInv, TypeOK
    <2>5. \A c \in Clients : n \notin acked[c] \cup settled[c]
      BY <2>3 DEF MemoryInv
    <2>6. CASE Append(ids[n], e)
      BY <1>4, <2>2, <2>3, <2>4, <2>5, <2>6
    <2>7. CASE UNCHANGED <<log, files, synced, settled>>
      BY <1>0, <1>2, <2>3, <2>7
    <2> QED
      BY <2>3, <2>6, <2>7
  <1>6. ASSUME NEW j \in journal, append_ack(j) PROVE SettledInv'
    <2>0. j[1] \in Clients /\ j[2] \in Nat /\ j[3] \in Nat \ {0}
      BY <1>6 DEF TypeOK, append_ack
    <2>1. PICK e \in Entries : e = AckEntry(j[1], j[2])
      BY <2>0 DEF AckEntry, Entries
    <2>2. e.msg = NoMessage
      BY <2>1 DEF AckEntry
    <2>3. /\ up = "up"
          /\ Append(j[3], e) \/ UNCHANGED <<log, files, synced, settled>>
      BY <1>6, <2>1 DEF append_ack, Running
    <2>4. \A c \in Clients : NoMessage \notin acked[c] \cup settled[c]
      BY <1>0 DEF NoMessage
    <2>5. CASE Append(j[3], e)
      BY <1>4, <2>0, <2>2, <2>3, <2>4, <2>5
    <2>6. CASE UNCHANGED <<log, files, synced, settled>>
      BY <1>0, <1>2, <2>3, <2>6
    <2> QED
      BY <2>3, <2>5, <2>6
  <1>7. CASE compact_remove
    <2>1. PICK seg : seg = Min(task.segs)
      OBVIOUS
    <2>2. /\ task.pc = "removing" /\ UNCHANGED <<up, log, synced>> /\ files' = files \ {seg}
          /\ settled' = [c \in Clients |-> settled[c] \ Forgotten(c, seg)]
      BY <1>7, <2>1 DEF compact_remove
    <2>3. seg # task.seen /\ seg \in task.segs /\ seg \in Nat /\ task.seen \in Nat /\ \A s \in task.segs : seg <= s
      <3>1. task.segs \in SUBSET Nat /\ task.segs # {} /\ task.seen \notin task.segs
        BY <2>2 DEF TypeOK, CompactInv
      <3> QED
        BY <2>1, <3>1, MinFacts DEF TypeOK
    <2> SUFFICES ASSUME NEW c \in Clients, NEW m \in settled'[c], NEW r \in log, r.msg = m, r.seg \in files'
                 PROVE  \E a \in log : /\ a.client = c /\ a.acked = r.id /\ a.seg \in files'
                                       /\ up = "up" => a.pos <= synced
      BY <2>2 DEF SettledInv
    <2>4. m \in settled[c] /\ m \in Messages /\ m \notin Forgotten(c, seg) /\ r.seg \in files /\ r.seg # seg
      BY <1>0, <2>2
    <2>5. PICK a \in log : /\ a.client = c /\ a.acked = r.id /\ a.seg \in files
                           /\ up = "up" => a.pos <= synced
      BY <2>4 DEF SettledInv
    <2>6. r.id = ids[m] /\ r.msg # NoMessage /\ a.client # NoClient
      BY <1>1, <2>4, <2>5 DEF NoClient
    <2>7. ASSUME a.seg = seg PROVE FALSE
      <3>1. ~ (seg > task.seen) /\ ~ \E q \in log : q.pos < a.pos /\ q.id > a.id
        BY <2>4, <2>5, <2>6, <2>7 DEF Forgotten
      <3>2. Doomed(a.seg)
        BY <2>2, <2>3, <2>7, <3>1 DEF Doomed
      <3>3. r.pos < a.pos
        BY <2>5, <2>6 DEF LogInv
      <3>4. r.seg <= a.seg
        BY <1>0, <3>3 DEF LogInv
      <3>5. r.seg < a.seg
        BY <1>0, <2>4, <2>7, <3>4
      <3>6. Doomed(r.seg)
        BY <2>4, <3>1, <3>2, <3>5 DEF CompactInv
      <3>7. r.seg \in task.segs
        BY <2>2, <3>6 DEF Doomed
      <3> QED
        BY <1>0, <2>3, <2>7, <3>5, <3>7
    <2> QED
      BY <2>2, <2>5, <2>7
  <1>8. CASE crash
    <2>1. up \in {"opened", "up"} /\ UNCHANGED settled
      BY <1>8 DEF crash, TypeOK, history
    <2> SUFFICES ASSUME NEW c \in Clients, NEW m \in settled'[c], NEW r \in log', r.msg = m, r.seg \in files'
                 PROVE  \E a \in log' : a.client = c /\ a.acked = r.id /\ a.seg \in files'
      BY <1>8, CrashFacts DEF SettledInv
    <2>2. r \in log /\ r.seg \in files
      BY <1>8, CrashFacts
    <2>3. PICK a \in log : /\ a.client = c /\ a.acked = r.id /\ a.seg \in files
                           /\ up = "up" => a.pos <= synced
      BY <2>1, <2>2 DEF SettledInv
    <2>4. a.pos <= synced
      BY <1>8, <2>1, <2>3, CrashFacts
    <2> QED
      BY <1>8, <2>3, <2>4, CrashFacts
  <1>9. CASE open
    <2>1. /\ up # "up" /\ up' = "opened" /\ UNCHANGED <<log, settled>> /\ files \subseteq files'
          /\ \A r \in log : r.seg \in files
      BY <1>9, OpenFacts DEF open, history
    <2> QED
      BY <1>2, <2>1
  <1>10. CASE replay_from_wal_with_checkpoint
    <2>1. up = "opened" /\ UNCHANGED <<log, files, synced, settled>>
      BY <1>10 DEF replay_from_wal_with_checkpoint, history
    <2>2. \A r \in log : r.pos <= synced'
      BY <2>1 DEF LogInv
    <2> QED
      BY <1>2, <2>1, <2>2
  <1>11. CASE (\E m \in Messages : publish_durable(m) \/ publish_with_wal_id(m))
             \/ (\E c \in Clients : subscribe(c) \/ unsubscribe_connection(c))
             \/ (\E c \in Clients, m \in Messages : drop(c, m) \/ ack(c, m)) \/ (\E j \in journal : journal_ack(j))
             \/ checkpoint_capture \/ checkpoint_rename \/ checkpoint_fails
             \/ compact_below \/ compact_list \/ compact_fails \/ UNCHANGED vars
    <2>1. UNCHANGED <<up, log, files, synced, settled>>
      BY <1>11 DEF publish_durable, publish_with_wal_id, subscribe, unsubscribe_connection, drop, ack,
         journal_ack, checkpoint_capture, checkpoint_rename, checkpoint_fails, compact_below, compact_list,
         compact_fails, vars, history
    <2>2. synced <= synced /\ (up = "opened" => \A r \in log : r.pos <= synced')
      BY <1>0, <2>1 DEF LogInv
    <2> QED
      BY <1>2, <2>1, <2>2 DEF TypeOK
  <1> QED
    BY <1>3, <1>5, <1>6, <1>7, <1>8, <1>9, <1>10, <1>11 DEF Next
-----------------------------------------------------------------------------
(* The specification keeps the invariant.                                  *)

LEMMA InitInv == Init => Inv
  <1> SUFFICES ASSUME Init PROVE Inv
    OBVIOUS
  <1> USE RecoveryAssumption
  <1>1. IsCursorMap(NoKeys) /\ IsSnapshot(NoCheckpoint) /\ DOMAIN NoKeys = {}
    BY DEF IsCursorMap, NoKeys, IsSnapshot, NoCheckpoint
  <1>2. TypeOK
    BY <1>1 DEF Init, TypeOK
  <1>3. LogInv /\ MemoryInv /\ FreshInv
    BY DEF Init, LogInv, MemoryInv, FreshInv
  <1>4. Sound(NoCheckpoint)
    BY DEF Init, Sound, NoCheckpoint, NoKeys
  <1>5. CursorInv
    BY <1>1, <1>4 DEF Init, CursorInv
  <1>6. CompactInv /\ KeptInv /\ SettledInv
    BY DEF Init, CompactInv, Doomed, KeptInv, SettledInv
  <1> QED
    BY <1>2, <1>3, <1>5, <1>6 DEF Inv

LEMMA NextInv == Inv /\ [Next]_vars => Inv'
  <1> SUFFICES ASSUME Inv, [Next]_vars PROVE Inv'
    OBVIOUS
  <1> USE DEF Inv
  <1>1. TypeOK'
    BY TypeStep
  <1>2. LogInv' /\ MemoryInv'
    BY <1>1, LogStep, MemoryStep
  <1>3. FreshInv' /\ CursorInv' /\ CompactInv'
    BY <1>1, <1>2, FreshStep, CursorStep, CompactStep
  <1>4. KeptInv' /\ SettledInv'
    BY <1>1, KeptStep, SettledStep
  <1> QED
    BY <1>1, <1>2, <1>3, <1>4

LEMMA SpecInv == Spec => []Inv
  BY InitInv, NextInv, PTL DEF Spec

-----------------------------------------------------------------------------
(* The theorems.                                                           *)

\* compact_below takes its threshold from the cursors of the moment, not from the
\* checkpoint that was written, looks at the index, the directory and the files at
\* different moments, and a crash may bring the older checkpoint back: no confirmed
\* message that a client is owed leaves the log for it, however many rounds and
\* crashes there are, except in a segment that was opened in between.
THEOREM NothingOwedIsCompacted == Spec => []Retained
  <1>1. ASSUME Inv PROVE Retained
    <2> SUFFICES ASSUME NEW c \in Clients, NEW m \in Messages, Owed(c, m), m \notin raced
                 PROVE  \E r \in log : r.msg = m /\ r.seg \in files /\ (up = "up" => r.pos <= synced)
      BY DEF Retained
    <2>1. published[m] \in {"durable", "ok", "stored"} /\ Wanted(c, m)
      BY DEF Owed, Confirmed, Wanted
    <2> QED
      BY <1>1, <2>1 DEF Inv, KeptInv
  <1> QED
    BY <1>1, SpecInv, PTL

\* A cursor in ack_cursors, in checkpoint.snap or in an ack record is the id of a
\* message its client acked, whatever replay rebuilt it from.
THEOREM CursorsAreHonest == Spec => []CursorHonest
  <1>1. ASSUME Inv PROVE CursorHonest
    BY <1>1 DEF Inv, CursorInv, Sound, Backed, CursorHonest
  <1> QED
    BY <1>1, SpecInv, PTL

\* What replay skips, below the snapshot, before the record it begins at or at a
\* cursor, no attached client is owed, unless a record with a lower id was
\* written behind it.
LEMMA ReplayDelivers ==
  ASSUME Inv, replay_from_wal_with_checkpoint, NEW c \in attached, NEW m \in Messages, Owed(c, m),
         m \notin raced, ~ Overtaken(m)
  PROVE  m \in held'[c]
  <1> USE RecoveryAssumption
  <1>0. /\ c \in Clients /\ ids \in [Messages -> Nat] /\ acked \in [Clients -> SUBSET Messages]
        /\ unclaimed \in [Clients -> Nat] /\ IsSnapshot(checkpoint)
        /\ \A r \in log : r.id \in Nat /\ r.pos \in Nat
    BY DEF Inv, TypeOK, Records
  <1>1. published[m] \in {"durable", "ok", "stored"} /\ Wanted(c, m)
    BY DEF Owed, Confirmed, Wanted
  <1>2. PICK r \in log : r.msg = m
    BY <1>0, <1>1 DEF Inv, KeptInv
  <1>3. r.id = ids[m] /\ r.id \in Nat /\ r.msg # NoMessage
    BY <1>0, <1>2 DEF Inv, LogInv, NoMessage
  <1>4. \A id \in Nat : Backed(c, id) => id < r.id
    BY <1>0, <1>1, <1>3 DEF Backed, Wanted
  <1>5. checkpoint.snapshot_id < r.id /\ checkpoint.snapshot_id \in Nat
    <2>1. checkpoint.snapshot_id \in Nat
      BY <1>0 DEF IsSnapshot
    <2>2. CASE c \in DOMAIN checkpoint.cursors /\ checkpoint.snapshot_id <= checkpoint.cursors[c]
      <3>1. checkpoint.cursors[c] \in Nat /\ Backed(c, checkpoint.cursors[c])
        BY <1>0, <2>2 DEF IsSnapshot, IsCursorMap, Inv, CursorInv, Sound
      <3> QED
        BY <1>3, <1>4, <2>1, <2>2, <3>1
    <2>3. CASE checkpoint.snapshot_id <= unclaimed[c]
      BY <1>0, <1>1, <1>3, <2>1, <2>3 DEF Wanted
    <2> QED
      BY <1>0, <2>1, <2>2, <2>3 DEF Inv, CursorInv, Sound
  <1>6. r \in Replayed
    <2> DEFINE above == {x \in log : x.id >= checkpoint.snapshot_id + 1}
    <2>1. r \in above
      BY <1>3, <1>5
    <2>2. ASSUME NEW s \in above, s.id <= r.id PROVE r.pos >= s.pos
      <3>1. checkpoint.snapshot_id < s.id /\ s \in log
        BY <1>0, <1>5
      <3>2. ~ (r.pos < s.pos)
        BY <1>2, <2>2, <3>1 DEF Overtaken
      <3> QED
        BY <1>0, <3>1, <3>2
    <2> QED
      BY <2>1, <2>2 DEF Replayed, iterate_from
  <1>7. PastCursor(c, r.id)
    <2> SUFFICES ASSUME c \in DOMAIN RebuiltCursors PROVE r.id > RebuiltCursors[c]
      BY DEF PastCursor
    <2>1. RebuiltCursors[c] \in Nat /\ Backed(c, RebuiltCursors[c])
      BY RebuiltFacts DEF Inv, IsCursorMap
    <2> QED
      BY <1>3, <1>4, <2>1
  <1>8. m \in {q.msg : q \in {s \in Replayed : s.msg # NoMessage /\ PastCursor(c, s.id)}}
    BY <1>2, <1>3, <1>6, <1>7
  <1> QED
    BY <1>0, <1>8 DEF replay_from_wal_with_checkpoint

\* Only replay brings the broker from "opened" to "up".
LEMMA ReplayOnly ==
  ASSUME [Next]_vars, up = "opened", up' = "up"
  PROVE  replay_from_wal_with_checkpoint
  BY DEF Next, vars, sync, publish_durable, append_durable, publish_with_wal_id, subscribe,
     unsubscribe_connection, drop, ack, journal_ack, append_ack, checkpoint_capture, checkpoint_rename,
     checkpoint_fails, compact_below, compact_list, compact_remove, compact_fails, crash, open, Running

\* replay_from_wal_with_checkpoint gives a client that is attached every
\* confirmed message it is owed, from an old or an unreadable checkpoint too,
\* except what a roll in compact_below took or iterate_from may begin behind.
THEOREM ReplayIsComplete == Spec => ReplayComplete
  <1>1. ASSUME Inv, [Next]_vars
        PROVE  [up = "opened" /\ up' = "up" =>
                 \A c \in attached, m \in Messages :
                   Owed(c, m) /\ m \notin raced /\ ~ Overtaken(m) => m \in held'[c]]_vars
    BY <1>1, ReplayOnly, ReplayDelivers
  <1> QED
    BY <1>1, SpecInv, PTL DEF Spec, ReplayComplete

\* While the record of a settled message is there, so is the ack record that
\* settled it, behind it and with a higher id, so a replay that reads the one
\* reads the other.
LEMMA ReplaySkips ==
  ASSUME Inv, replay_from_wal_with_checkpoint, NEW c \in attached
  PROVE  held'[c] \cap settled[c] = {}
  <1> USE RecoveryAssumption
  <1>0. c \in Clients /\ settled \in [Clients -> SUBSET Messages] /\ held[c] = {}
    BY DEF Inv, TypeOK, MemoryInv, replay_from_wal_with_checkpoint
  <1> SUFFICES ASSUME NEW m \in held'[c], m \in settled[c] PROVE FALSE
    OBVIOUS
  <1>1. PICK s \in Replayed : s.msg # NoMessage /\ s.msg = m /\ PastCursor(c, s.id)
    BY <1>0 DEF replay_from_wal_with_checkpoint
  <1>2. /\ s \in log /\ checkpoint.snapshot_id \in Nat /\ s.id >= checkpoint.snapshot_id + 1
        /\ \A r \in log : r.id \in Nat /\ r.pos \in Nat
    BY DEF Replayed, iterate_from, Inv, TypeOK, Records, IsSnapshot
  <1>3. s.seg \in files
    BY <1>2 DEF Inv, LogInv, replay_from_wal_with_checkpoint
  <1>4. PICK a \in log : a.client = c /\ a.acked = s.id
    <2>1. SettledInv
      BY DEF Inv
    <2>2. \A r \in log : r.msg = m /\ r.seg \in files => \E a \in log : a.client = c /\ a.acked = r.id
      BY <1>0, <2>1 DEF SettledInv
    <2> QED
      BY <1>1, <1>2, <1>3, <2>2
  <1>5. s.id < a.id /\ s.pos < a.pos
    BY <1>0, <1>1, <1>2, <1>4 DEF Inv, LogInv, NoClient
  <1>6. a \in Replayed
    <2> DEFINE above == {x \in log : x.id >= checkpoint.snapshot_id + 1}
               first == {x \in above : \A r \in above : x.id <= r.id}
    <2>1. \A x \in first : s.pos >= x.pos /\ x.pos \in Nat
      BY <1>2 DEF Replayed, iterate_from
    <2>2. a \in above
      BY <1>2, <1>5
    <2>3. \A x \in first : a.pos >= x.pos
      BY <1>2, <1>5, <2>1
    <2> QED
      BY <2>2, <2>3 DEF Replayed, iterate_from
  <1>7. c \in DOMAIN RebuiltCursors /\ RebuiltCursors[c] >= s.id /\ RebuiltCursors[c] \in Nat
    <2>1. c \in DOMAIN RebuiltCursors /\ RebuiltCursors[c] >= a.acked
      BY <1>0, <1>4, <1>6, RebuiltFacts DEF Inv
    <2>2. IsCursorMap(RebuiltCursors)
      BY RebuiltFacts DEF Inv
    <2> QED
      BY <1>4, <2>1, <2>2 DEF IsCursorMap
  <1> QED
    BY <1>1, <1>2, <1>7 DEF PastCursor

\* A message whose ack record reached the disk is not replayed to its client,
\* with the checkpoint lost or the record compacted, unless the ack record was
\* compacted before the message's.
THEOREM AcksAreRemembered == Spec => AckRemembered
  <1>1. ASSUME Inv, [Next]_vars
        PROVE  [up = "opened" /\ up' = "up" => \A c \in attached : held'[c] \cap settled[c] = {}]_vars
    BY <1>1, ReplayOnly, ReplaySkips
  <1> QED
    BY <1>1, SpecInv, PTL DEF Spec, AckRemembered
=============================================================================
