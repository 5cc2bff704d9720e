----------------------------- MODULE WalProofs -----------------------------
(***************************************************************************)
(* Proofs about Wal, for every number of appends, flushes, compactions and *)
(* crashes, every capacity of the channel and every size of a segment.     *)
(***************************************************************************)
EXTENDS Wal, SequenceFacts, WellFoundedInduction

-----------------------------------------------------------------------------
(* Extreme elements.                                                       *)

LEMMA LeastNat ==
  ASSUME NEW S \in SUBSET Nat, S # {}
  PROVE  \E x \in S : \A y \in S : x <= y
  <1> DEFINE R == {ss \in Nat \X Nat : ss[1] < ss[2]}
  <1>1. IsWellFoundedOn(R, Nat)
    BY NatLessThanWellFounded DEF OpToRel
  <1>2. \A a, b \in Nat : a < b => <<a, b>> \in R
    OBVIOUS
  <1> HIDE DEF R
  <1>3. PICK x \in S : \A y \in S : ~ (<<y, x>> \in R)
    BY <1>1, WFMin
  <1>4. \A y \in S : ~ (y < x)
    BY <1>2, <1>3
  <1> QED
    BY <1>4

LEMMA MinFacts ==
  ASSUME NEW S \in SUBSET Nat, S # {}
  PROVE  Min(S) \in S /\ \A y \in S : Min(S) <= y
  BY LeastNat DEF Min

LEMMA MaxFacts ==
  ASSUME NEW S \in SUBSET Nat, S # {}, NEW bound \in Nat, \A x \in S : x <= bound
  PROVE  Max(S) \in S /\ \A y \in S : Max(S) >= y
  <1> DEFINE T == {bound - x : x \in S}
  <1>0. \A x \in S : bound - x \in Nat
    OBVIOUS
  <1>1. T \in SUBSET Nat /\ T # {}
    BY <1>0
  <1>2. PICK t \in T : \A u \in T : t <= u
    BY <1>1, LeastNat
  <1>3. PICK x \in S : t = bound - x
    BY <1>2
  <1>4. ASSUME NEW y \in S PROVE x >= y
    <2>1. bound - x <= bound - y
      BY <1>2, <1>3
    <2> QED
      BY <2>1
  <1>5. \E z \in S : \A y \in S : z >= y
    BY <1>4
  <1> QED
    BY <1>5 DEF Max

-----------------------------------------------------------------------------
(* The inductive invariant.                                                *)

Message == ({"record"} \X Appends) \cup ({"flush"} \X Flushes)

Segment == [header : BOOLEAN, recs : Seq(Appends), synced : Nat,
            tail : {"clean", "torn", "stale"}]

Pcs == {"recv", "collect", "roll_sync", "roll_create", "roll_header", "write",
        "index", "maybe_sync", "sync", "flush", "stopped"}

Writer == [pc : Pcs, batch : Seq(Appends), flush : Flushes \cup {NoFlush},
           offset : Nat, unflushed : Nat]

CompactorType ==
  /\ compactor = [pc |-> compactor.pc, calls |-> compactor.calls,
                  threshold |-> compactor.threshold, active |-> compactor.active,
                  max_id |-> compactor.max_id, to_delete |-> compactor.to_delete,
                  visited |-> compactor.visited, deleted |-> compactor.deleted]
  /\ compactor.pc \in {"idle", "index", "list", "delete"}
  /\ compactor.calls \in Nat /\ compactor.threshold \in Nat /\ compactor.active \in Nat
  /\ compactor.max_id \in [DOMAIN compactor.max_id -> Nat]
  /\ DOMAIN compactor.max_id \subseteq Nat
  /\ compactor.to_delete \subseteq Nat /\ compactor.deleted \subseteq Nat
  /\ compactor.visited \subseteq compactor.to_delete

SegmentsType ==
  /\ DOMAIN segments \subseteq 1 .. current_segment_seq + 1
  /\ segments \in [DOMAIN segments -> Segment]
  /\ \A s \in DOMAIN segments : segments[s].synced <= Len(segments[s].recs)

IndexType ==
  /\ DOMAIN index \subseteq Nat
  /\ index \in [DOMAIN index -> [seq : Nat, pos : Nat]]

Types ==
  /\ up \in {"up", "down", "failed"}
  /\ next_id \in Nat \ {0}
  /\ callers \in [Appends -> {"idle", "built", "queued", "accepted", "ok", "err"}]
  /\ ids \in [Appends -> Nat]
  /\ flushes \in [Flushes -> {"idle", "sent", "ok", "err"}]
  /\ before \in [Flushes -> SUBSET Appends]
  /\ channel \in Seq(Message) /\ Len(channel) <= ChannelCapacity
  /\ writer \in Writer
  /\ pending_durable_acks \subseteq DurableAppends
  /\ current_segment_seq \in Nat \ {0}
  /\ lost \subseteq Appends
  /\ SegmentsType /\ IndexType /\ CompactorType

\* No id is above some number, so that the largest id of a set exists.
Bounded ==
  \E n \in Nat : /\ \A a \in Appends : ids[a] <= n
                 /\ \A id \in DOMAIN index : id <= n

\* Nothing is underway while the log is closed, and what is in the files then
\* is on disk.
ClosedInv ==
  up # "up" =>
    /\ channel = <<>> /\ writer.pc = "recv" /\ compactor.pc = "idle"
    /\ \A a \in Appends : callers[a] \notin {"built", "queued"}
    /\ \A s \in DOMAIN segments : segments[s].synced = Len(segments[s].recs)

\* What the writer holds at each of its steps.  Durable appends wait only for
\* the sync of their own batch.
WriterInv ==
  /\ pending_durable_acks # {} => writer.pc = "sync"
  /\ pending_durable_acks \subseteq ToSet(writer.batch)
  /\ writer.pc \in {"recv", "flush"} => writer.batch = <<>>
  /\ writer.pc \in {"recv", "collect"} => writer.flush = NoFlush
  /\ writer.pc = "flush" => writer.flush # NoFlush
  /\ writer.pc = "stopped" => channel = <<>>

\* The segment s has the record of a.
Holds(s, a) == s \in DOMAIN segments /\ a \in ToSet(segments[s].recs)

\* Once written, the batch is in the active file or lost with it.
BatchInv ==
  writer.pc \in {"index", "maybe_sync", "sync"} =>
    \A a \in ToSet(writer.batch) : a \in lost \/ Holds(current_segment_seq, a)

\* The writer's offset is the end of the active file.
OffsetInv ==
  (up = "up" /\ Linked /\ writer.pc # "stopped") =>
    IF writer.pc = "index"
    THEN /\ Len(Active.recs) = writer.offset + Len(writer.batch)
         /\ \A i \in 1 .. Len(writer.batch) :
              Active.recs[writer.offset + i] = writer.batch[i]
    ELSE Len(Active.recs) = writer.offset

\* The segments: none is newer than the active one but the one a roll is about
\* to start, which is empty; all but the active one are on disk.
SegmentsInv ==
  up = "up" =>
    /\ \A s \in DOMAIN segments :
         s <= current_segment_seq \/ writer.pc \in {"roll_header", "stopped"}
    /\ \A s \in DOMAIN segments :
         (s = current_segment_seq + 1 /\ writer.pc = "roll_header") => segments[s].recs = <<>>
    /\ \A s \in DOMAIN segments :
         (s # current_segment_seq \/ writer.pc \in {"roll_create", "roll_header"}) =>
           segments[s].synced = Len(segments[s].recs)

\* A record is in one place: with its caller, in the channel, in the batch or
\* in one segment; only between write_all and the end of the batch is it in
\* the batch and in the active segment.
PlaceInv ==
  /\ \A s, t \in DOMAIN segments : \A a \in Appends : Holds(s, a) /\ Holds(t, a) => s = t
  /\ \A s \in DOMAIN segments : \A a \in ToSet(writer.batch) :
       Holds(s, a) => /\ s = current_segment_seq
                      /\ writer.pc \in {"index", "maybe_sync", "sync", "stopped"}
  /\ \A i, j \in 1 .. Len(channel) : channel[i] = channel[j] => i = j
  /\ \A i \in 1 .. Len(channel) : \A a \in Appends : channel[i] = <<"record", a>> =>
       /\ a \notin ToSet(writer.batch)
       /\ \A s \in DOMAIN segments : ~Holds(s, a)
       /\ callers[a] \notin {"idle", "built"}
  /\ \A a \in Appends : callers[a] \in {"idle", "built"} =>
       /\ a \notin ToSet(writer.batch)
       /\ \A s \in DOMAIN segments : ~Holds(s, a)

\* Ids: those of the records that are present are below the next one.
Present == {a \in Appends : callers[a] \in {"built", "queued"}} \cup Stored \cup Underway

FreshInv == up = "up" => \A a \in Present : ids[a] < next_id

\* The index leads to the records, and a record's entry names its segment.
Indexed(s, a) ==
  \/ ids[a] \in DOMAIN index /\ index[ids[a]].seq = s
  \/ writer.pc = "index" /\ s = current_segment_seq /\ a \in ToSet(writer.batch)

EntryOk(id) ==
  index[id].seq \in DOMAIN segments =>
    /\ index[id].pos \in 1 .. Len(segments[index[id].seq].recs)
    /\ ids[segments[index[id].seq].recs[index[id].pos]] = id

IndexInv ==
  up = "up" =>
    /\ \A id \in DOMAIN index : id < next_id /\ index[id].seq <= current_segment_seq
    /\ \A id \in DOMAIN index : EntryOk(id)
    /\ \A s \in DOMAIN segments : \A a \in ToSet(segments[s].recs) : Indexed(s, a)

\* The compactor: the files it has visited are gone and do not come back, and
\* what it read of the index still bounds the ids of the older segments.
CompactInv ==
  /\ compactor.pc # "delete" => compactor.visited = {} /\ compactor.to_delete = {}
  /\ compactor.pc \notin {"list", "delete"} => DOMAIN compactor.max_id = {}
  /\ compactor.pc # "idle" => compactor.active <= current_segment_seq
  /\ compactor.visited \cap DOMAIN segments = {}
  /\ \A s \in compactor.visited \cup compactor.to_delete \cup DOMAIN compactor.max_id :
       s <= current_segment_seq
       \/ (s = current_segment_seq + 1 /\ writer.pc \in {"roll_header", "stopped"})
  /\ compactor.pc \in {"list", "delete"} =>
       \A s \in DOMAIN segments : \A a \in ToSet(segments[s].recs) : s < compactor.active =>
         s \in DOMAIN compactor.max_id /\ ids[a] <= compactor.max_id[s]
  /\ \A s \in compactor.to_delete \cap DOMAIN compactor.max_id :
       compactor.max_id[s] <= compactor.threshold

\* A flush comes after the records that were queued before it.
Settled(a) == a \in Stored \/ a \in lost

FlushInv ==
  /\ \A k \in 1 .. Len(channel) : \A f \in Flushes : channel[k] = <<"flush", f>> =>
       /\ flushes[f] = "sent" /\ writer.flush # f
       /\ \A a \in before[f] :
            \/ Settled(a) \/ a \in ToSet(writer.batch)
            \/ \E j \in 1 .. k : channel[j] = <<"record", a>>
  /\ (up = "up" /\ writer.flush # NoFlush /\ writer.pc # "stopped") =>
       /\ flushes[writer.flush] = "sent"
       /\ \A a \in before[writer.flush] : Settled(a) \/ a \in ToSet(writer.batch)

Inv ==
  /\ Types /\ Bounded /\ ClosedInv /\ WriterInv /\ BatchInv /\ OffsetInv /\ SegmentsInv
  /\ PlaceInv /\ FreshInv /\ IdsUnique /\ IndexInv /\ CompactInv /\ FlushInv
  /\ DurableSurvives /\ FlushCovers

-----------------------------------------------------------------------------
(* The elements of a sequence.                                             *)

LEMMA ElementFacts ==
  ASSUME NEW S, NEW s \in Seq(S)
  PROVE  /\ Len(s) \in Nat /\ ToSet(s) \subseteq S
         /\ \A x : x \in ToSet(s) <=> \E i \in 1 .. Len(s) : s[i] = x
  BY DEF ToSet

LEMMA NoElements == ToSet(<<>>) = {}
  BY DEF ToSet

LEMMA OneElement ==
  ASSUME NEW S, NEW e \in S
  PROVE  <<e>> \in Seq(S) /\ ToSet(<<e>>) = {e}
  BY DEF ToSet

LEMMA AddedElement ==
  ASSUME NEW S, NEW s \in Seq(S), NEW e \in S
  PROVE  Append(s, e) \in Seq(S) /\ ToSet(Append(s, e)) = ToSet(s) \cup {e}
  <1>1. ToSet(s) = Range(s) /\ ToSet(Append(s, e)) = Range(Append(s, e))
    BY DEF ToSet, Range
  <1> QED
    BY <1>1, AppendFacts

LEMMA JoinedElements ==
  ASSUME NEW S, NEW s \in Seq(S), NEW t \in Seq(S)
  PROVE  s \o t \in Seq(S) /\ ToSet(s \o t) = ToSet(s) \cup ToSet(t)
  <1>1. ToSet(s) = Range(s) /\ ToSet(t) = Range(t) /\ ToSet(s \o t) = Range(s \o t)
    BY DEF ToSet, Range
  <1> QED
    BY <1>1, ConcatFacts

-----------------------------------------------------------------------------
(* What the steps do to the segments.                                      *)

\* The records and what is synced of them, for the steps that leave them alone.
SameSegments ==
  /\ DOMAIN segments' = DOMAIN segments
  /\ segments' \in [DOMAIN segments -> Segment]
  /\ \A s \in DOMAIN segments : /\ segments'[s].recs = segments[s].recs
                               /\ segments'[s].synced = segments[s].synced

LEMMA OnActiveFacts ==
  ASSUME Types, NEW seg, Linked => seg \in Segment
  PROVE  /\ DOMAIN OnActive(seg) = DOMAIN segments
         /\ OnActive(seg) \in [DOMAIN segments -> Segment]
         /\ \A s \in DOMAIN segments :
              OnActive(seg)[s] = IF s = current_segment_seq THEN seg ELSE segments[s]
  BY DEF Types, SegmentsType, OnActive, Linked

LEMMA SyncedFacts ==
  ASSUME Types, SyncOk
  PROVE  /\ DOMAIN segments' = DOMAIN segments
         /\ segments' \in [DOMAIN segments -> Segment]
         /\ \A s \in DOMAIN segments :
              /\ segments'[s].recs = segments[s].recs
              /\ segments'[s].synced = IF s = current_segment_seq THEN Len(segments[s].recs)
                                       ELSE segments[s].synced
  <1> DEFINE seg == [Active EXCEPT !.synced = Len(Active.recs)]
  <1>1. Linked => /\ seg \in Segment
                  /\ seg.recs = segments[current_segment_seq].recs
                  /\ seg.synced = Len(segments[current_segment_seq].recs)
    <2>1. Linked => /\ Active \in Segment /\ Active = segments[current_segment_seq]
                    /\ Len(Active.recs) \in Nat
      BY DEF Types, SegmentsType, Linked, Active, Segment
    <2> QED
      BY <2>1 DEF Segment
  <1>2. segments' = OnActive(seg)
    BY DEF SyncOk
  <1> HIDE DEF seg
  <1>3. /\ DOMAIN segments' = DOMAIN segments
        /\ segments' \in [DOMAIN segments -> Segment]
        /\ \A s \in DOMAIN segments :
             segments'[s] = IF s = current_segment_seq THEN seg ELSE segments[s]
    BY <1>1, <1>2, OnActiveFacts
  <1> QED
    BY <1>1, <1>3 DEF Linked

LEMMA WrittenFacts ==
  ASSUME Types, write_all
  PROVE  /\ DOMAIN segments' = DOMAIN segments
         /\ segments' \in [DOMAIN segments -> Segment]
         /\ \A s \in DOMAIN segments :
              /\ segments'[s].recs = IF s = current_segment_seq
                                     THEN segments[s].recs \o writer.batch
                                     ELSE segments[s].recs
              /\ segments'[s].synced = segments[s].synced
  <1>0. writer.batch \in Seq(Appends)
    BY DEF Types, Writer
  <1>1. PICK tail \in {"clean", "stale"} :
          segments' = OnActive([Active EXCEPT !.recs = @ \o writer.batch, !.tail = tail])
    BY DEF write_all
  <1> DEFINE seg == [Active EXCEPT !.recs = @ \o writer.batch, !.tail = tail]
  <1>2. Linked => /\ seg \in Segment
                  /\ seg.recs = segments[current_segment_seq].recs \o writer.batch
                  /\ seg.synced = segments[current_segment_seq].synced
    <2> SUFFICES ASSUME Linked
                 PROVE  /\ seg \in Segment
                        /\ seg.recs = segments[current_segment_seq].recs \o writer.batch
                        /\ seg.synced = segments[current_segment_seq].synced
      OBVIOUS
    <2>1. Active \in Segment /\ Active = segments[current_segment_seq]
      BY DEF Types, SegmentsType, Linked, Active
    <2>2. Active.recs \o writer.batch \in Seq(Appends)
      BY <1>0, <2>1, ConcatFacts DEF Segment
    <2> QED
      BY <2>1, <2>2 DEF Segment
  <1>3. segments' = OnActive(seg)
    BY <1>1
  <1> HIDE DEF seg
  <1>4. /\ DOMAIN segments' = DOMAIN segments
        /\ segments' \in [DOMAIN segments -> Segment]
        /\ \A s \in DOMAIN segments :
             segments'[s] = IF s = current_segment_seq THEN seg ELSE segments[s]
    BY <1>2, <1>3, OnActiveFacts
  <1> QED
    BY <1>2, <1>4 DEF Linked

LEMMA TornFacts ==
  ASSUME Types, writer_stops
  PROVE  SameSegments
  <1> DEFINE seg == [Active EXCEPT !.tail = IF @ = "clean" THEN "torn" ELSE "stale"]
  <1>1. Linked => /\ seg \in Segment
                  /\ seg.recs = segments[current_segment_seq].recs
                  /\ seg.synced = segments[current_segment_seq].synced
    BY DEF Types, SegmentsType, Linked, Active, Segment
  <1>2. segments' = OnActive(seg) \/ segments' = segments
    BY DEF writer_stops
  <1> HIDE DEF seg
  <1>3. CASE segments' = OnActive(seg)
    <2>1. /\ DOMAIN segments' = DOMAIN segments
          /\ segments' \in [DOMAIN segments -> Segment]
          /\ \A s \in DOMAIN segments :
               segments'[s] = IF s = current_segment_seq THEN seg ELSE segments[s]
      BY <1>1, <1>3, OnActiveFacts
    <2> QED
      BY <1>1, <2>1 DEF Linked, SameSegments
  <1>4. CASE segments' = segments
    BY <1>4 DEF Types, SegmentsType, SameSegments
  <1> QED
    BY <1>2, <1>3, <1>4

LEMMA CreatedFacts ==
  ASSUME Types, roll_create
  PROVE  /\ DOMAIN segments' = DOMAIN segments \cup {current_segment_seq + 1}
         /\ segments' \in [DOMAIN segments' -> Segment]
         /\ \A s \in DOMAIN segments : segments'[s] = segments[s]
         /\ segments'[current_segment_seq + 1].recs = <<>>
         /\ segments'[current_segment_seq + 1].synced = 0
         /\ current_segment_seq + 1 \notin DOMAIN segments
  BY DEF Types, SegmentsType, roll_create, Put, NewSegment, Segment

LEMMA HeaderFacts ==
  ASSUME Types, roll_header
  PROVE  SameSegments
  BY DEF Types, SegmentsType, roll_header, SameSegments, Segment

LEMMA DeletedFacts ==
  ASSUME Types, compact_delete
  PROVE  \E seq \in Nat :
           /\ seq \in compactor.to_delete /\ seq \notin compactor.visited
           /\ DOMAIN segments' = DOMAIN segments \ {seq}
           /\ segments' \in [DOMAIN segments' -> Segment]
           /\ \A s \in DOMAIN segments' : segments'[s] = segments[s]
           /\ \A a : a \in lost' <=> a \in lost \/ Holds(seq, a)
           /\ compactor'.visited = compactor.visited \cup {seq}
           /\ compactor'.deleted \subseteq compactor.deleted \cup {seq}
           /\ compactor'.to_delete = compactor.to_delete /\ compactor'.pc = "delete"
           /\ compactor'.active = compactor.active /\ compactor'.max_id = compactor.max_id
           /\ compactor'.threshold = compactor.threshold
           /\ compactor'.calls = compactor.calls
  <1> DEFINE seq == Min(compactor.to_delete \ compactor.visited)
             gone == {seq} \cap DOMAIN segments
  <1>1. seq \in Nat /\ seq \in compactor.to_delete /\ seq \notin compactor.visited
    <2>1. compactor.visited # compactor.to_delete
      BY DEF compact_delete
    <2>2. /\ compactor.to_delete \ compactor.visited \in SUBSET Nat
          /\ compactor.to_delete \ compactor.visited # {}
      BY <2>1 DEF Types, CompactorType
    <2>3. seq \in compactor.to_delete \ compactor.visited
      BY <2>2, MinFacts
    <2> QED
      BY <2>2, <2>3
  <1>2. segments' = Drop(segments, gone)
    BY DEF compact_delete
  <1>3. lost' = lost \cup UNION {ToSet(segments[s].recs) : s \in gone}
    BY DEF compact_delete
  <1>4. compactor' = [compactor EXCEPT !.visited = @ \cup {seq}, !.deleted = @ \cup gone]
    BY DEF compact_delete
  <1>5. compactor.pc = "delete"
    BY DEF compact_delete
  <1> HIDE DEF seq
  <1>6. /\ DOMAIN segments' = DOMAIN segments \ {seq}
        /\ segments' \in [DOMAIN segments' -> Segment]
        /\ \A s \in DOMAIN segments' : segments'[s] = segments[s]
    BY <1>2 DEF Drop, Types, SegmentsType
  <1>7. \A a : a \in lost' <=> a \in lost \/ Holds(seq, a)
    BY <1>3 DEF Holds
  <1>8. /\ compactor'.visited = compactor.visited \cup {seq}
        /\ compactor'.deleted \subseteq compactor.deleted \cup {seq}
        /\ compactor'.to_delete = compactor.to_delete /\ compactor'.pc = "delete"
        /\ compactor'.active = compactor.active /\ compactor'.max_id = compactor.max_id
        /\ compactor'.threshold = compactor.threshold
        /\ compactor'.calls = compactor.calls
    BY <1>4, <1>5 DEF Types, CompactorType
  <1> QED
    BY <1>1, <1>6, <1>7, <1>8

\* A crash keeps of every segment a prefix that holds all that was synced.
LEMMA CrashedFacts ==
  ASSUME Types, crash
  PROVE  /\ DOMAIN segments' = DOMAIN segments
         /\ segments' \in [DOMAIN segments -> Segment]
         /\ \A s \in DOMAIN segments :
              /\ Len(segments'[s].recs) \in segments[s].synced .. Len(segments[s].recs)
              /\ segments'[s].synced = Len(segments'[s].recs)
              /\ \A i \in 1 .. Len(segments'[s].recs) : segments'[s].recs[i] = segments[s].recs[i]
              /\ ToSet(segments'[s].recs) \subseteq ToSet(segments[s].recs)
  <1>1. PICK kept \in [DOMAIN segments -> 0 .. Cardinality(Appends)],
             torn \in SUBSET DOMAIN segments, formed \in BOOLEAN :
          /\ \A s \in DOMAIN segments : kept[s] \in segments[s].synced .. Len(segments[s].recs)
          /\ segments' = [s \in DOMAIN segments |->
               [header |-> segments[s].header \/ formed,
                recs   |-> SubSeq(segments[s].recs, 1, kept[s]),
                synced |-> kept[s],
                tail   |-> IF s \in torn /\ segments[s].tail = "clean" THEN "torn"
                           ELSE segments[s].tail]]
    BY DEF crash
  <1>2. DOMAIN segments' = DOMAIN segments
    BY <1>1
  <1>3. ASSUME NEW s \in DOMAIN segments
        PROVE  /\ segments'[s] \in Segment
               /\ Len(segments'[s].recs) \in segments[s].synced .. Len(segments[s].recs)
               /\ segments'[s].synced = Len(segments'[s].recs)
               /\ \A i \in 1 .. Len(segments'[s].recs) :
                    segments'[s].recs[i] = segments[s].recs[i]
               /\ ToSet(segments'[s].recs) \subseteq ToSet(segments[s].recs)
    <2>1. PICK r : r = segments[s].recs
      OBVIOUS
    <2>2. PICK k : k = kept[s]
      OBVIOUS
    <2>3. r \in Seq(Appends) /\ Len(r) \in Nat /\ segments[s].synced \in Nat
          /\ segments[s].header \in BOOLEAN /\ segments[s].tail \in {"clean", "torn", "stale"}
      BY <2>1 DEF Types, SegmentsType, Segment
    <2>4. k \in segments[s].synced .. Len(r) /\ k \in 0 .. Len(r)
      BY <1>1, <2>1, <2>2, <2>3
    <2>5. segments'[s] = [header |-> segments[s].header \/ formed,
                          recs   |-> SubSeq(r, 1, k),
                          synced |-> k,
                          tail   |-> IF s \in torn /\ segments[s].tail = "clean" THEN "torn"
                                     ELSE segments[s].tail]
      BY <1>1, <2>1, <2>2
    <2>6. /\ SubSeq(r, 1, k) \in Seq(Appends) /\ Len(SubSeq(r, 1, k)) = k
          /\ \A i \in 1 .. k : SubSeq(r, 1, k)[i] = r[i]
      BY <2>3, <2>4, PartFacts
    <2>7. segments'[s] \in Segment /\ segments'[s].recs = SubSeq(r, 1, k)
          /\ segments'[s].synced = k
      BY <2>3, <2>4, <2>5, <2>6 DEF Segment
    <2>8. ToSet(SubSeq(r, 1, k)) \subseteq ToSet(r)
      <3> SUFFICES ASSUME NEW x \in ToSet(SubSeq(r, 1, k)) PROVE x \in ToSet(r)
        OBVIOUS
      <3>1. PICK i \in 1 .. k : SubSeq(r, 1, k)[i] = x
        BY <2>6, ElementFacts
      <3>2. i \in 1 .. Len(r) /\ r[i] = x
        BY <2>3, <2>4, <2>6, <3>1
      <3> QED
        BY <2>3, <3>2, ElementFacts
    <2> QED
      BY <2>1, <2>4, <2>6, <2>7, <2>8
  <1>4. segments' \in [DOMAIN segments -> Segment]
    <2>1. segments' = [s \in DOMAIN segments |-> segments'[s]]
      BY <1>1
    <2> QED
      BY <1>3, <2>1
  <1> QED
    BY <1>2, <1>3, <1>4

\* open_with_config keeps the files, or starts the first.
LEMMA OpenedFacts ==
  ASSUME Types, open_with_config
  PROVE  \/ /\ DOMAIN segments = {}
            /\ DOMAIN segments' = {1} /\ segments' \in [{1} -> Segment]
            /\ segments'[1].recs = <<>> /\ segments'[1].synced = 0
            /\ current_segment_seq' = 1 /\ writer' = IdleWriter(0)
         \/ /\ segments' = segments /\ current_segment_seq' \in DOMAIN segments
            /\ \A s \in DOMAIN segments : s <= current_segment_seq'
            /\ writer' = IdleWriter(Len(segments[current_segment_seq'].recs))
  <1>1. CASE segments = NoKeys
    <2>1. segments' = [s \in {1} |-> NewSegment(TRUE)]
          /\ current_segment_seq' = 1 /\ writer' = IdleWriter(0)
      BY <1>1 DEF open_with_config
    <2>2. NewSegment(TRUE) \in Segment /\ NewSegment(TRUE).recs = <<>> /\ NewSegment(TRUE).synced = 0
      BY DEF NewSegment, Segment
    <2>3. DOMAIN segments = {}
      BY <1>1 DEF NoKeys
    <2> QED
      BY <2>1, <2>2, <2>3
  <1>2. CASE segments # NoKeys
    <2>1. DOMAIN segments # {}
      <3>1. segments = [s \in DOMAIN segments |-> segments[s]]
        BY DEF Types, SegmentsType
      <3>2. ASSUME DOMAIN segments = {} PROVE FALSE
        BY <1>2, <3>1, <3>2 DEF NoKeys
      <3> QED
        BY <3>2
    <2>2. /\ DOMAIN segments \in SUBSET Nat /\ current_segment_seq + 1 \in Nat
          /\ \A s \in DOMAIN segments : s <= current_segment_seq + 1
      BY DEF Types, SegmentsType
    <2>3. PICK m : m = Max(DOMAIN segments)
      OBVIOUS
    <2>4. m \in DOMAIN segments /\ \A s \in DOMAIN segments : s <= m
      <3>1. m \in DOMAIN segments /\ \A s \in DOMAIN segments : m >= s
        BY <2>1, <2>2, <2>3, MaxFacts
      <3> QED
        BY <2>2, <3>1
    <2>5. /\ current_segment_seq' = m /\ segments' = segments
          /\ writer' = IdleWriter(Len(segments[m].recs))
      BY <1>2, <2>3 DEF open_with_config, TailOffset
    <2> QED
      BY <2>4, <2>5
  <1> QED
    BY <1>1, <1>2

\* Whatever the step, the segments are as their type says.
LEMMA SegmentsTypeStep ==
  ASSUME Types, [Next]_vars
  PROVE  SegmentsType' /\ current_segment_seq' \in Nat \ {0}
  <1>0. /\ DOMAIN segments \subseteq 1 .. current_segment_seq + 1
        /\ segments \in [DOMAIN segments -> Segment] /\ current_segment_seq \in Nat \ {0}
        /\ \A s \in DOMAIN segments :
             /\ segments[s].recs \in Seq(Appends) /\ Len(segments[s].recs) \in Nat
             /\ segments[s].synced \in Nat /\ segments[s].synced <= Len(segments[s].recs)
    BY DEF Types, SegmentsType, Segment
  <1>1. CASE UNCHANGED <<segments, current_segment_seq>>
    BY <1>0, <1>1 DEF SegmentsType
  <1>2. CASE SyncOk /\ UNCHANGED current_segment_seq
    BY <1>0, <1>2, SyncedFacts DEF SegmentsType
  <1>3. CASE roll_create
    <2>1. current_segment_seq' = current_segment_seq
      BY <1>3 DEF roll_create
    <2> QED
      BY <1>0, <1>3, <2>1, CreatedFacts DEF SegmentsType
  <1>4. CASE SameSegments /\ current_segment_seq' \in {current_segment_seq, current_segment_seq + 1}
    BY <1>0, <1>4 DEF SegmentsType, SameSegments
  <1>5. CASE write_all
    <2>1. current_segment_seq' = current_segment_seq
      BY <1>5 DEF write_all
    <2>2. writer.batch \in Seq(Appends)
      BY DEF Types, Writer
    <2>3. ASSUME NEW s \in DOMAIN segments
          PROVE  segments'[s].synced <= Len(segments'[s].recs)
      <3>1. PICK r : r = segments[s].recs
        OBVIOUS
      <3>2. Len(r \o writer.batch) >= Len(r) /\ Len(r \o writer.batch) \in Nat
        <4>1. /\ r \in Seq(Appends) /\ Len(r) \in Nat /\ Len(writer.batch) \in Nat
              /\ Len(r \o writer.batch) = Len(r) + Len(writer.batch)
          BY <1>0, <2>2, <3>1, ConcatFacts
        <4> QED
          BY <4>1
      <3>3. segments'[s].recs \in {r, r \o writer.batch} /\ segments'[s].synced = segments[s].synced
        BY <1>5, <3>1, WrittenFacts
      <3>4. /\ segments[s].synced \in Nat /\ Len(r) \in Nat /\ segments[s].synced <= Len(r)
        BY <1>0, <3>1
      <3>5. Len(r) <= Len(segments'[s].recs) /\ Len(segments'[s].recs) \in Nat
        BY <3>2, <3>3, <3>4
      <3> QED
        BY <3>3, <3>4, <3>5
    <2> QED
      BY <1>0, <1>5, <2>1, <2>3, WrittenFacts DEF SegmentsType
  <1>6. CASE compact_delete
    <2>1. current_segment_seq' = current_segment_seq
      BY <1>6 DEF compact_delete
    <2> QED
      BY <1>0, <1>6, <2>1, DeletedFacts DEF SegmentsType
  <1>7. CASE crash
    <2>1. current_segment_seq' = current_segment_seq
      BY <1>7 DEF crash
    <2>2. \A s \in DOMAIN segments : segments'[s].recs \in Seq(Appends) /\ Len(segments'[s].recs) \in Nat
      BY <1>7, CrashedFacts DEF Segment
    <2> QED
      BY <1>0, <1>7, <2>1, <2>2, CrashedFacts DEF SegmentsType
  <1>8. CASE open_with_config
    BY <1>0, <1>8, OpenedFacts DEF SegmentsType
  <1>9. CASE writer_stops
    <2>1. SameSegments /\ current_segment_seq' = current_segment_seq
      BY <1>9, TornFacts DEF writer_stops
    <2> QED
      BY <1>4, <2>1
  <1>10. CASE roll_header
    <2>1. SameSegments /\ current_segment_seq' = current_segment_seq + 1
      BY <1>10, HeaderFacts DEF roll_header
    <2> QED
      BY <1>4, <2>1
  <1> QED
    BY <1>1, <1>2, <1>3, <1>5, <1>6, <1>7, <1>8, <1>9, <1>10
    DEF Next, WriterStep, CompactorStep, vars, build_request, send_request, flush, recv,
        collect_batch, roll_sync, index_batch, maybe_sync, sync_batch, sync_flush, SyncErr,
        compact_begin, compact_index, compact_list, compact_end, compact_fails, open_fails

-----------------------------------------------------------------------------
(* What the steps do to the channel and to the writer.                     *)

LEMMA MessageFacts ==
  ASSUME NEW m \in Message
  PROVE  /\ m[1] \in {"record", "flush"} /\ m = <<m[1], m[2]>>
         /\ m[1] = "record" => m[2] \in Appends
         /\ m[1] # "record" => m[1] = "flush" /\ m[2] \in Flushes
  BY DEF Message

\* The writer after a step: where it is, and what it holds.
WriterIs(pc, batch, flush_, offset) ==
  /\ writer' \in Writer /\ writer'.pc = pc /\ writer'.batch = batch
  /\ writer'.flush = flush_ /\ writer'.offset = offset

LEMMA RecvFacts ==
  ASSUME Types, recv
  PROVE  /\ channel # <<>> /\ channel' = Tail(channel) /\ writer.pc = "recv"
         /\ \/ /\ Head(channel)[1] = "record"
               /\ WriterIs("collect", <<Head(channel)[2]>>, writer.flush, writer.offset)
            \/ /\ Head(channel)[1] = "flush"
               /\ WriterIs("flush", writer.batch, Head(channel)[2], writer.offset)
  <1>1. /\ writer \in Writer /\ writer.pc = "recv"
        /\ channel \in Seq(Message) /\ channel # <<>> /\ channel' = Tail(channel)
    BY DEF Types, recv
  <1>2. PICK m \in Message : m = Head(channel)
    BY <1>1, TailFacts
  <1>3. CASE m[1] = "record"
    <2>1. m[2] \in Appends /\ <<m[2]>> \in Seq(Appends)
      BY <1>3, MessageFacts
    <2>2. writer' = [writer EXCEPT !.pc = "collect", !.batch = <<m[2]>>]
      BY <1>2, <1>3 DEF recv
    <2>3. WriterIs("collect", <<m[2]>>, writer.flush, writer.offset)
      BY <1>1, <2>1, <2>2 DEF WriterIs, Writer, Pcs
    <2> QED
      BY <1>1, <1>2, <1>3, <2>3
  <1>4. CASE m[1] # "record"
    <2>1. m[2] \in Flushes /\ m[1] = "flush"
      BY <1>4, MessageFacts
    <2>2. writer' = [writer EXCEPT !.pc = "flush", !.flush = m[2]]
      BY <1>2, <1>4 DEF recv
    <2>3. WriterIs("flush", writer.batch, m[2], writer.offset)
      BY <1>1, <2>1, <2>2 DEF WriterIs, Writer, Pcs
    <2> QED
      BY <1>1, <1>2, <2>1, <2>3
  <1> QED
    BY <1>3, <1>4

LEMMA CollectFacts ==
  ASSUME Types, collect_batch
  PROVE  /\ writer.pc = "collect"
         /\ \/ /\ channel # <<>> /\ Head(channel)[1] = "record" /\ channel' = Tail(channel)
               /\ WriterIs("collect", Append(writer.batch, Head(channel)[2]), writer.flush,
                           writer.offset)
            \/ \E pc \in {"roll_sync", "write"} :
                 /\ channel # <<>> /\ Head(channel)[1] = "flush" /\ channel' = Tail(channel)
                 /\ WriterIs(pc, writer.batch, Head(channel)[2], writer.offset)
            \/ \E pc \in {"roll_sync", "write"} :
                 /\ channel = <<>> /\ channel' = channel
                 /\ WriterIs(pc, writer.batch, writer.flush, writer.offset)
  <1>1. /\ writer \in Writer /\ writer.pc = "collect" /\ channel \in Seq(Message)
        /\ writer.batch \in Seq(Appends)
    BY DEF Types, collect_batch, Writer
  <1>2. PICK pc \in {"roll_sync", "write"} : pc = AfterCollect(writer.batch)
    BY DEF AfterCollect
  <1>3. CASE channel # <<>> /\ Head(channel)[1] = "record"
    <2>1. PICK m \in Message : m = Head(channel)
      BY <1>1, <1>3, TailFacts
    <2>2. m[2] \in Appends /\ Append(writer.batch, m[2]) \in Seq(Appends)
      BY <1>1, <1>3, <2>1, MessageFacts
    <2>3. writer' = [writer EXCEPT !.batch = Append(writer.batch, m[2])] /\ channel' = Tail(channel)
      BY <1>3, <2>1 DEF collect_batch
    <2>4. WriterIs("collect", Append(writer.batch, m[2]), writer.flush, writer.offset)
      BY <1>1, <2>2, <2>3 DEF WriterIs, Writer
    <2> QED
      BY <1>1, <1>3, <2>1, <2>3, <2>4
  <1>4. CASE channel # <<>> /\ Head(channel)[1] # "record"
    <2>1. PICK m \in Message : m = Head(channel)
      BY <1>1, <1>4, TailFacts
    <2>2. m[2] \in Flushes /\ m[1] = "flush"
      BY <1>4, <2>1, MessageFacts
    <2>3. writer' = [writer EXCEPT !.flush = m[2], !.pc = pc] /\ channel' = Tail(channel)
      BY <1>2, <1>4, <2>1 DEF collect_batch
    <2>4. WriterIs(pc, writer.batch, m[2], writer.offset)
      BY <1>1, <1>2, <2>2, <2>3 DEF WriterIs, Writer, Pcs
    <2> QED
      BY <1>1, <1>2, <1>4, <2>1, <2>2, <2>3, <2>4
  <1>5. CASE channel = <<>>
    <2>1. writer' = [writer EXCEPT !.pc = pc] /\ channel' = channel
      BY <1>2, <1>5 DEF collect_batch
    <2>2. WriterIs(pc, writer.batch, writer.flush, writer.offset)
      BY <1>1, <1>2, <2>1 DEF WriterIs, Writer, Pcs
    <2> QED
      BY <1>1, <1>2, <1>5, <2>1, <2>2
  <1> QED
    BY <1>3, <1>4, <1>5

LEMMA RollFacts ==
  ASSUME Types
  PROVE  /\ roll_sync =>
              /\ writer.pc = "roll_sync"
              /\ WriterIs("roll_create", writer.batch, writer.flush, writer.offset)
         /\ roll_create =>
              /\ writer.pc = "roll_create"
              /\ WriterIs("roll_header", writer.batch, writer.flush, writer.offset)
         /\ roll_header =>
              /\ writer.pc = "roll_header"
              /\ WriterIs("write", writer.batch, writer.flush, 0)
         /\ write_all =>
              /\ writer.pc = "write"
              /\ WriterIs("index", writer.batch, writer.flush, writer.offset)
         /\ writer_stops =>
              /\ writer.pc \in {"roll_sync", "roll_create", "roll_header", "write", "sync"}
              /\ WriterIs("stopped", writer.batch, writer.flush, writer.offset)
  <1>0. writer \in Writer
    BY DEF Types
  <1>1. ASSUME roll_sync
        PROVE  /\ writer.pc = "roll_sync"
               /\ WriterIs("roll_create", writer.batch, writer.flush, writer.offset)
    BY <1>0, <1>1 DEF roll_sync, WriterIs, Writer, Pcs
  <1>2. ASSUME roll_create
        PROVE  /\ writer.pc = "roll_create"
               /\ WriterIs("roll_header", writer.batch, writer.flush, writer.offset)
    BY <1>0, <1>2 DEF roll_create, WriterIs, Writer, Pcs
  <1>3. ASSUME roll_header
        PROVE  /\ writer.pc = "roll_header"
               /\ WriterIs("write", writer.batch, writer.flush, 0)
    BY <1>0, <1>3 DEF roll_header, WriterIs, Writer, Pcs
  <1>4. ASSUME write_all
        PROVE  /\ writer.pc = "write"
               /\ WriterIs("index", writer.batch, writer.flush, writer.offset)
    BY <1>0, <1>4 DEF write_all, WriterIs, Writer, Pcs
  <1>5. ASSUME writer_stops
        PROVE  /\ writer.pc \in {"roll_sync", "roll_create", "roll_header", "write", "sync"}
               /\ WriterIs("stopped", writer.batch, writer.flush, writer.offset)
    BY <1>0, <1>5 DEF writer_stops, WriterIs, Writer, Pcs
  <1> QED
    BY <1>1, <1>2, <1>3, <1>4, <1>5

LEMMA BatchFacts ==
  ASSUME Types
  PROVE  /\ index_batch =>
              /\ writer.pc = "index"
              /\ WriterIs(IF pending_durable_acks' # {} THEN "sync" ELSE "maybe_sync",
                          writer.batch, writer.flush, writer.offset + Len(writer.batch))
         /\ maybe_sync =>
              /\ writer.pc = "maybe_sync"
              /\ \/ WriterIs("sync", writer.batch, writer.flush, writer.offset)
                 \/ WriterIs(IF writer.flush = NoFlush THEN "recv" ELSE "flush", <<>>,
                             writer.flush, writer.offset)
         /\ sync_batch =>
              /\ writer.pc = "sync"
              /\ WriterIs(IF writer.flush = NoFlush THEN "recv" ELSE "flush", <<>>,
                          writer.flush, writer.offset)
         /\ sync_flush =>
              /\ writer.pc = "flush"
              /\ WriterIs("recv", writer.batch, NoFlush, writer.offset)
  <1>0. /\ writer \in Writer /\ Len(writer.batch) \in Nat
        /\ writer.offset + Len(writer.batch) \in Nat /\ writer.unflushed + Len(writer.batch) \in Nat
    BY DEF Types, Writer
  <1>1. CASE index_batch
    <2>1. PICK pc \in Pcs : pc = IF pending_durable_acks' # {} THEN "sync" ELSE "maybe_sync"
      BY DEF Pcs
    <2>2. /\ writer' = [writer EXCEPT !.offset = writer.offset + Len(writer.batch),
                          !.unflushed = writer.unflushed + Len(writer.batch), !.pc = pc]
          /\ writer.pc = "index"
      BY <1>1, <2>1 DEF index_batch
    <2>3. WriterIs(pc, writer.batch, writer.flush, writer.offset + Len(writer.batch))
      BY <1>0, <2>2 DEF WriterIs, Writer
    <2> QED
      BY <1>1, <2>1, <2>2, <2>3 DEF maybe_sync, sync_batch, sync_flush
  <1>2. PICK pc \in Pcs : pc = IF writer.flush = NoFlush THEN "recv" ELSE "flush"
    BY DEF Pcs
  <1>3. CASE maybe_sync
    <2>1. \/ writer' = [writer EXCEPT !.pc = "sync"]
          \/ writer' = [writer EXCEPT !.batch = <<>>, !.pc = pc]
      BY <1>2, <1>3 DEF maybe_sync, AfterBatch
    <2>2. writer.pc = "maybe_sync"
      BY <1>3 DEF maybe_sync
    <2>3. CASE writer' = [writer EXCEPT !.pc = "sync"]
      <3>1. WriterIs("sync", writer.batch, writer.flush, writer.offset)
        BY <1>0, <2>3 DEF WriterIs, Writer, Pcs
      <3> QED
        BY <2>2, <3>1 DEF index_batch, sync_batch, sync_flush
    <2>4. CASE writer' = [writer EXCEPT !.batch = <<>>, !.pc = pc]
      <3>1. WriterIs(pc, <<>>, writer.flush, writer.offset)
        BY <1>0, <2>4, <<>> \in Seq(Appends) DEF WriterIs, Writer
      <3> QED
        BY <1>2, <2>2, <3>1 DEF index_batch, sync_batch, sync_flush
    <2> QED
      BY <2>1, <2>3, <2>4
  <1>4. CASE sync_batch
    <2>0. PICK w : w = [writer EXCEPT !.unflushed = 0]
      OBVIOUS
    <2>1. /\ w \in Writer /\ w.batch = writer.batch /\ w.flush = writer.flush
          /\ w.offset = writer.offset
      BY <1>0, <2>0 DEF Writer
    <2>2. writer' = [w EXCEPT !.batch = <<>>, !.pc = pc] /\ writer.pc = "sync"
      BY <1>2, <1>4, <2>0, <2>1 DEF sync_batch, AfterBatch
    <2>3. WriterIs(pc, <<>>, writer.flush, writer.offset)
      BY <2>1, <2>2, <<>> \in Seq(Appends) DEF WriterIs, Writer
    <2> QED
      BY <1>2, <2>2, <2>3 DEF index_batch, maybe_sync, sync_flush
  <1>5. CASE sync_flush
    <2>1. \/ writer' = [writer EXCEPT !.pc = "recv", !.flush = NoFlush, !.unflushed = 0]
          \/ writer' = [writer EXCEPT !.pc = "recv", !.flush = NoFlush]
      BY <1>5 DEF sync_flush
    <2>2. WriterIs("recv", writer.batch, NoFlush, writer.offset)
      <3>1. CASE writer' = [writer EXCEPT !.pc = "recv", !.flush = NoFlush, !.unflushed = 0]
        BY <1>0, <3>1 DEF WriterIs, Writer, Pcs
      <3>2. CASE writer' = [writer EXCEPT !.pc = "recv", !.flush = NoFlush]
        BY <1>0, <3>2 DEF WriterIs, Writer, Pcs
      <3> QED
        BY <2>1, <3>1, <3>2
    <2> QED
      BY <1>5, <2>2 DEF index_batch, maybe_sync, sync_batch, sync_flush
  <1> QED
    BY <1>1, <1>3, <1>4, <1>5

LEMMA IdleFacts ==
  ASSUME NEW n \in Nat, writer' = IdleWriter(n)
  PROVE  WriterIs("recv", <<>>, NoFlush, n)
  BY DEF IdleWriter, WriterIs, Writer, Pcs

LEMMA OpenedWriter ==
  ASSUME Types, open_with_config
  PROVE  /\ up = "down" /\ up' = "up"
         /\ current_segment_seq' \in DOMAIN segments'
         /\ Len(segments'[current_segment_seq'].recs) \in Nat
         /\ WriterIs("recv", <<>>, NoFlush, Len(segments'[current_segment_seq'].recs))
  <1>1. \A s \in DOMAIN segments : Len(segments[s].recs) \in Nat
    BY DEF Types, SegmentsType, Segment
  <1>2. up = "down" /\ up' = "up"
    BY DEF open_with_config
  <1>3. /\ current_segment_seq' \in DOMAIN segments'
        /\ Len(segments'[current_segment_seq'].recs) \in Nat
        /\ writer' = IdleWriter(Len(segments'[current_segment_seq'].recs))
    BY <1>1, OpenedFacts
  <1> QED
    BY <1>2, <1>3, IdleFacts

-----------------------------------------------------------------------------
(* The types.                                                              *)

LEMMA ChannelTypeStep ==
  ASSUME Types, [Next]_vars
  PROVE  channel' \in Seq(Message) /\ Len(channel') <= ChannelCapacity
  <1>0. channel \in Seq(Message) /\ Len(channel) \in Nat /\ Len(channel) <= ChannelCapacity
        /\ ChannelCapacity \in Nat
    BY WalAssumption DEF Types
  <1>1. CASE UNCHANGED channel
    BY <1>0, <1>1
  <1>2. CASE channel' = <<>>
    BY <1>0, <1>2
  <1>3. CASE channel # <<>> /\ channel' = Tail(channel)
    <2>1. channel' \in Seq(Message) /\ Len(channel') = Len(channel) - 1
      BY <1>0, <1>3, TailFacts
    <2> QED
      BY <1>0, <2>1
  <1>4. CASE \E m \in Message : channel' = Append(channel, m) /\ Len(channel) < ChannelCapacity
    <2>1. PICK m \in Message : channel' = Append(channel, m) /\ Len(channel) < ChannelCapacity
      BY <1>4
    <2>2. channel' \in Seq(Message) /\ Len(channel') = Len(channel) + 1
      BY <1>0, <2>1, AppendFacts
    <2> QED
      BY <1>0, <2>1, <2>2
  <1>5. ASSUME NEW a \in Appends, send_request(a)
        PROVE  \/ UNCHANGED channel
               \/ \E m \in Message : channel' = Append(channel, m) /\ Len(channel) < ChannelCapacity
    <2>1. <<"record", a>> \in Message
      BY DEF Message
    <2> QED
      BY <1>5, <2>1 DEF send_request
  <1>6. ASSUME NEW f \in Flushes, flush(f)
        PROVE  \/ UNCHANGED channel
               \/ \E m \in Message : channel' = Append(channel, m) /\ Len(channel) < ChannelCapacity
    <2>1. <<"flush", f>> \in Message
      BY DEF Message
    <2> QED
      BY <1>6, <2>1 DEF flush
  <1> QED
    BY <1>1, <1>2, <1>3, <1>4, <1>5, <1>6
    DEF Next, WriterStep, CompactorStep, vars, build_request, recv,
        collect_batch, roll_sync, roll_create, roll_header, write_all, index_batch, maybe_sync,
        sync_batch, sync_flush, writer_stops, DropWaiters, crash, open_with_config,
        compact_begin, compact_index, compact_list, compact_delete, compact_end, compact_fails,
        open_fails

LEMMA WriterTypeStep ==
  ASSUME Types, [Next]_vars
  PROVE  writer' \in Writer
  <1>1. CASE UNCHANGED writer
    BY <1>1 DEF Types
  <1>2. CASE recv
    BY <1>2, RecvFacts DEF WriterIs
  <1>3. CASE collect_batch
    BY <1>3, CollectFacts DEF WriterIs
  <1>4. CASE roll_sync \/ roll_create \/ roll_header \/ write_all \/ writer_stops
    BY <1>4, RollFacts DEF WriterIs
  <1>5. CASE index_batch \/ maybe_sync \/ sync_batch \/ sync_flush
    BY <1>5, BatchFacts DEF WriterIs
  <1>6. CASE open_with_config
    BY <1>6, OpenedWriter DEF WriterIs
  <1>7. CASE crash
    <2>1. writer' = IdleWriter(0)
      BY <1>7 DEF crash
    <2> QED
      BY <2>1, IdleFacts DEF WriterIs
  <1> QED
    BY <1>1, <1>2, <1>3, <1>4, <1>5, <1>6, <1>7
    DEF Next, WriterStep, CompactorStep, vars, build_request, send_request, flush,
        compact_begin, compact_index, compact_list, compact_delete, compact_end, compact_fails,
        open_fails

LEMMA StoredFacts ==
  ASSUME Types
  PROVE  /\ Stored \subseteq Appends /\ Underway \subseteq Appends
         /\ \A a : a \in Stored <=> \E s \in DOMAIN segments : a \in ToSet(segments[s].recs)
         /\ \A s \in DOMAIN segments :
              /\ ToSet(segments[s].recs) \subseteq Appends /\ Len(segments[s].recs) \in Nat
              /\ \A a : a \in ToSet(segments[s].recs)
                          <=> \E i \in 1 .. Len(segments[s].recs) : segments[s].recs[i] = a
  <1>1. \A s \in DOMAIN segments :
          /\ ToSet(segments[s].recs) \subseteq Appends /\ Len(segments[s].recs) \in Nat
          /\ \A a : a \in ToSet(segments[s].recs)
                      <=> \E i \in 1 .. Len(segments[s].recs) : segments[s].recs[i] = a
    BY ElementFacts DEF Types, SegmentsType, Segment
  <1>2. ToSet(writer.batch) \subseteq Appends
    BY ElementFacts DEF Types, Writer
  <1>3. \A a : a \in Stored <=> \E s \in DOMAIN segments : a \in ToSet(segments[s].recs)
    BY DEF Stored
  <1>4. Stored \subseteq Appends
    BY <1>1, <1>3
  <1>5. Underway \subseteq Appends
    BY <1>2 DEF Underway
  <1> QED
    BY <1>1, <1>3, <1>4, <1>5

\* The largest id of each segment that the index knows.
LEMMA MaxIdFacts ==
  ASSUME Types, Bounded
  PROVE  /\ MaxIdPerSegment \in [DOMAIN MaxIdPerSegment -> Nat]
         /\ DOMAIN MaxIdPerSegment = {index[id].seq : id \in DOMAIN index}
         /\ DOMAIN MaxIdPerSegment \subseteq Nat
         /\ \A id \in DOMAIN index : id <= MaxIdPerSegment[index[id].seq]
  <1> DEFINE D == {index[id].seq : id \in DOMAIN index}
             In(q) == {id \in DOMAIN index : index[id].seq = q}
  <1>0. DOMAIN index \subseteq Nat /\ \A id \in DOMAIN index : index[id].seq \in Nat
    BY DEF Types, IndexType
  <1>1. PICK n \in Nat : \A id \in DOMAIN index : id <= n
    BY DEF Bounded
  <1>2. MaxIdPerSegment = [q \in D |-> Max(In(q))]
    BY DEF MaxIdPerSegment
  <1>3. ASSUME NEW q \in D
        PROVE  Max(In(q)) \in Nat /\ \A id \in In(q) : id <= Max(In(q))
    <2>1. In(q) \in SUBSET Nat /\ In(q) # {} /\ \A x \in In(q) : x <= n
      BY <1>0, <1>1
    <2> HIDE DEF In
    <2>2. Max(In(q)) \in In(q) /\ \A id \in In(q) : Max(In(q)) >= id
      BY <2>1, MaxFacts
    <2> QED
      BY <2>1, <2>2
  <1>4. \A id \in DOMAIN index : index[id].seq \in D /\ id \in In(index[id].seq)
    OBVIOUS
  <1>5. D \subseteq Nat
    BY <1>0
  <1> HIDE DEF D, In
  <1>6. \A id \in DOMAIN index : id <= MaxIdPerSegment[index[id].seq]
    BY <1>2, <1>3, <1>4
  <1>7. DOMAIN MaxIdPerSegment = D /\ MaxIdPerSegment \in [D -> Nat]
    BY <1>2, <1>3
  <1> QED
    BY <1>5, <1>6, <1>7 DEF D

\* What open_with_config rebuilds: every id on disk, in a segment that has it.
LEMMA RebuiltFacts ==
  ASSUME Types, Bounded, open_with_config
  PROVE  /\ DOMAIN index' = {ids[a] : a \in Stored}
         /\ index' \in [DOMAIN index' -> [seq : Nat, pos : Nat]]
         /\ \A id \in DOMAIN index' :
              /\ index'[id].seq \in DOMAIN segments
              /\ index'[id].pos \in 1 .. Len(segments[index'[id].seq].recs)
              /\ ids[segments[index'[id].seq].recs[index'[id].pos]] = id
         /\ next_id' \in Nat \ {0}
         /\ \A a \in Stored : ids[a] < next_id'
  <1> DEFINE D == {ids[a] : a \in Stored}
             In(s) == {ids[a] : a \in ToSet(segments[s].recs)}
             at(id) == CHOOSE seq \in DOMAIN segments : id \in In(seq)
  <1>1. index' = [id \in D |-> [seq |-> at(id), pos |-> Position(at(id), id)]]
    BY DEF open_with_config
  <1>2. next_id' = 1 + Max({0} \cup D)
    BY DEF open_with_config, NextId
  <1>3. \A s \in DOMAIN segments : s \in Nat
    BY DEF Types, SegmentsType
  <1>4. ASSUME NEW id \in D
        PROVE  /\ at(id) \in DOMAIN segments
               /\ Position(at(id), id) \in 1 .. Len(segments[at(id)].recs)
               /\ ids[segments[at(id)].recs[Position(at(id), id)]] = id
    <2>1. PICK a \in Stored : id = ids[a]
      OBVIOUS
    <2>2. \E s \in DOMAIN segments : id \in In(s)
      BY <2>1, StoredFacts
    <2>3. PICK s : s = at(id)
      OBVIOUS
    <2>4. s \in DOMAIN segments /\ id \in In(s)
      BY <2>2, <2>3
    <2>5. PICK b \in ToSet(segments[s].recs) : ids[b] = id
      BY <2>4
    <2>6. \E i \in 1 .. Len(segments[s].recs) : ids[segments[s].recs[i]] = id
      BY <2>4, <2>5, StoredFacts
    <2>7. /\ Position(s, id) \in 1 .. Len(segments[s].recs)
          /\ ids[segments[s].recs[Position(s, id)]] = id
      BY <2>6 DEF Position
    <2> QED
      BY <2>3, <2>4, <2>7
  <1>5. D \subseteq Nat
    BY StoredFacts DEF Types
  <1>6. PICK n \in Nat : \A a \in Appends : ids[a] <= n
    BY DEF Bounded
  <1>7. \A x \in {0} \cup D : x <= n
    BY <1>6, StoredFacts
  <1>8. \A a \in Stored : ids[a] \in D
    OBVIOUS
  <1> HIDE DEF D, at
  <1>9. \A id \in D : Position(at(id), id) \in Nat /\ at(id) \in Nat
    BY <1>3, <1>4, StoredFacts
  <1>10. PICK m : m = Max({0} \cup D)
    OBVIOUS
  <1>11. m \in Nat /\ \A x \in {0} \cup D : x <= m
    <2>1. {0} \cup D \in SUBSET Nat /\ {0} \cup D # {}
      BY <1>5
    <2>2. m \in {0} \cup D /\ \A x \in {0} \cup D : m >= x
      BY <1>7, <1>10, <2>1, MaxFacts
    <2> QED
      BY <2>1, <2>2
  <1>12. next_id' \in Nat \ {0} /\ \A a \in Stored : ids[a] < next_id'
    <2>1. \A a \in Stored : ids[a] <= m /\ ids[a] \in Nat
      BY <1>5, <1>8, <1>11
    <2>2. next_id' = 1 + m
      BY <1>2, <1>10
    <2> QED
      BY <1>11, <2>1, <2>2
  <1>13. DOMAIN index' = D /\ index' \in [D -> [seq : Nat, pos : Nat]]
    BY <1>1, <1>9
  <1>14. \A id \in D : index'[id].seq = at(id) /\ index'[id].pos = Position(at(id), id)
    BY <1>1
  <1> QED
    BY <1>4, <1>12, <1>13, <1>14 DEF D

\* What index_batch adds.
LEMMA IndexedFacts ==
  ASSUME Types, index_batch
  PROVE  \E new \in SUBSET Nat :
           /\ new = {ids[a] : a \in ToSet(writer.batch)}
           /\ DOMAIN index' = DOMAIN index \cup new
           /\ index' \in [DOMAIN index' -> [seq : Nat, pos : Nat]]
           /\ \A id \in DOMAIN index \ new : index'[id] = index[id]
           /\ \A id \in new :
                /\ index'[id].seq = current_segment_seq
                /\ \E i \in 1 .. Len(writer.batch) :
                     index'[id].pos = writer.offset + i /\ ids[writer.batch[i]] = id
  <1> DEFINE n == Len(writer.batch)
             new == {ids[a] : a \in ToSet(writer.batch)}
             pos(id) == CHOOSE i \in 1 .. n : ids[writer.batch[i]] = id
  <1>1. index' = [id \in DOMAIN index \cup new |->
                    IF id \in new
                    THEN [seq |-> current_segment_seq, pos |-> writer.offset + pos(id)]
                    ELSE index[id]]
    BY DEF index_batch
  <1>2. /\ writer.batch \in Seq(Appends) /\ n \in Nat /\ writer.offset \in Nat
        /\ current_segment_seq \in Nat
    BY DEF Types, Writer
  <1>3. ASSUME NEW id \in new PROVE pos(id) \in 1 .. n /\ ids[writer.batch[pos(id)]] = id
    <2>1. PICK a \in ToSet(writer.batch) : ids[a] = id
      OBVIOUS
    <2>2. \E i \in 1 .. n : ids[writer.batch[i]] = id
      BY <1>2, <2>1, ElementFacts
    <2> QED
      BY <2>2
  <1>4. new \in SUBSET Nat
    <2>1. ToSet(writer.batch) \subseteq Appends
      BY <1>2, ElementFacts
    <2> QED
      BY <2>1 DEF Types
  <1>5. index \in [DOMAIN index -> [seq : Nat, pos : Nat]]
    BY DEF Types, IndexType
  <1> HIDE DEF new, pos, n
  <1>6. \A id \in new : writer.offset + pos(id) \in Nat
    BY <1>2, <1>3
  <1>7. /\ DOMAIN index' = DOMAIN index \cup new
        /\ \A id \in DOMAIN index \ new : index'[id] = index[id]
        /\ \A id \in new : index'[id].seq = current_segment_seq
                           /\ index'[id].pos = writer.offset + pos(id)
    BY <1>1
  <1>8. index' \in [DOMAIN index' -> [seq : Nat, pos : Nat]]
    <2>1. index' \in [DOMAIN index \cup new -> [seq : Nat, pos : Nat]]
      BY <1>1, <1>2, <1>5, <1>6
    <2> QED
      BY <1>7, <2>1
  <1>9. \A id \in new : \E i \in 1 .. n :
          index'[id].pos = writer.offset + i /\ ids[writer.batch[i]] = id
    BY <1>3, <1>7
  <1> QED
    BY <1>4, <1>7, <1>8, <1>9 DEF new, n

\* The compactor's steps but compact_delete.
LEMMA CompactorFacts ==
  ASSUME Types, Bounded
  PROVE  /\ \A t \in Thresholds : compact_begin(t) =>
              /\ CompactorType' /\ compactor'.pc = "index"
              /\ compactor'.active = current_segment_seq
              /\ compactor'.max_id = compactor.max_id
              /\ compactor'.visited = compactor.visited
              /\ compactor'.to_delete = compactor.to_delete /\ compactor'.threshold = t
         /\ compact_index =>
              /\ CompactorType' /\ compactor'.pc = "list"
              /\ compactor'.active = compactor.active
              /\ compactor'.max_id = MaxIdPerSegment
              /\ compactor'.visited = compactor.visited
              /\ compactor'.to_delete = compactor.to_delete
              /\ compactor'.threshold = compactor.threshold
         /\ compact_list /\ compactor.visited = {} =>
              /\ CompactorType' /\ compactor'.pc = "delete"
              /\ compactor'.active = compactor.active
              /\ compactor'.max_id = compactor.max_id
              /\ compactor'.visited = {}
              /\ compactor'.to_delete = ToDelete(compactor)
              /\ compactor'.threshold = compactor.threshold
         /\ \A n \in Nat : compactor' = IdleCompactor(n) =>
              /\ CompactorType' /\ compactor'.pc = "idle"
              /\ compactor'.max_id = NoKeys
              /\ compactor'.visited = {} /\ compactor'.to_delete = {}
  <1>0. CompactorType /\ current_segment_seq \in Nat
    BY DEF Types
  <1>1. ASSUME NEW t \in Thresholds, compact_begin(t)
        PROVE  /\ CompactorType' /\ compactor'.pc = "index"
               /\ compactor'.active = current_segment_seq
               /\ compactor'.max_id = compactor.max_id
               /\ compactor'.visited = compactor.visited
               /\ compactor'.to_delete = compactor.to_delete /\ compactor'.threshold = t
    <2>1. compactor.calls + 1 \in Nat /\ t \in Nat
      BY <1>0, WalAssumption DEF CompactorType
    <2>2. compactor' = [compactor EXCEPT !.pc = "index", !.calls = compactor.calls + 1,
                                         !.threshold = t, !.active = current_segment_seq]
      BY <1>1 DEF compact_begin
    <2>3. /\ compactor'.pc = "index" /\ compactor'.calls = compactor.calls + 1
          /\ compactor'.threshold = t /\ compactor'.active = current_segment_seq
          /\ compactor'.max_id = compactor.max_id /\ compactor'.visited = compactor.visited
          /\ compactor'.to_delete = compactor.to_delete
          /\ compactor'.deleted = compactor.deleted
          /\ compactor' = [pc |-> compactor'.pc, calls |-> compactor'.calls,
               threshold |-> compactor'.threshold, active |-> compactor'.active,
               max_id |-> compactor'.max_id, to_delete |-> compactor'.to_delete,
               visited |-> compactor'.visited, deleted |-> compactor'.deleted]
      BY <1>0, <2>2 DEF CompactorType
    <2> QED
      BY <1>0, <2>1, <2>3 DEF CompactorType
  <1>2. ASSUME compact_index
        PROVE  /\ CompactorType' /\ compactor'.pc = "list"
               /\ compactor'.active = compactor.active
               /\ compactor'.max_id = MaxIdPerSegment
               /\ compactor'.visited = compactor.visited
               /\ compactor'.to_delete = compactor.to_delete
               /\ compactor'.threshold = compactor.threshold
    BY <1>0, <1>2, MaxIdFacts DEF compact_index, CompactorType
  <1>3. ASSUME compact_list, compactor.visited = {}
        PROVE  /\ CompactorType' /\ compactor'.pc = "delete"
               /\ compactor'.active = compactor.active
               /\ compactor'.max_id = compactor.max_id
               /\ compactor'.visited = {}
               /\ compactor'.to_delete = ToDelete(compactor)
               /\ compactor'.threshold = compactor.threshold
    <2>1. ToDelete(compactor) \subseteq Nat
      BY <1>0 DEF ToDelete, CompactorType, Types, SegmentsType
    <2> QED
      BY <1>0, <1>3, <2>1 DEF compact_list, CompactorType
  <1>4. ASSUME NEW n \in Nat, compactor' = IdleCompactor(n)
        PROVE  /\ CompactorType' /\ compactor'.pc = "idle"
               /\ compactor'.max_id = NoKeys
               /\ compactor'.visited = {} /\ compactor'.to_delete = {}
    <2>1. NoKeys \in [DOMAIN NoKeys -> Nat] /\ DOMAIN NoKeys \subseteq Nat
      BY DEF NoKeys
    <2> QED
      BY <1>4, <2>1 DEF IdleCompactor, CompactorType
  <1> QED
    BY <1>1, <1>2, <1>3, <1>4

LEMMA CompactorTypeStep ==
  ASSUME Types, Bounded, CompactInv, [Next]_vars
  PROVE  CompactorType'
  <1>0. CompactorType /\ compactor.calls \in Nat
    BY DEF Types, CompactorType
  <1>1. CASE UNCHANGED compactor
    BY <1>0, <1>1 DEF CompactorType
  <1>2. ASSUME NEW t \in Thresholds, compact_begin(t) PROVE CompactorType'
    BY <1>2, CompactorFacts
  <1>3. CASE compact_index
    BY <1>3, CompactorFacts
  <1>4. CASE compact_list
    <2>1. compactor.visited = {}
      BY <1>4 DEF compact_list, CompactInv
    <2> QED
      BY <1>4, <2>1, CompactorFacts
  <1>5. CASE compact_delete
    <2>1. compactor' = [compactor EXCEPT !.visited = compactor'.visited,
                                         !.deleted = compactor'.deleted]
      BY <1>0, <1>5 DEF compact_delete, CompactorType
    <2>2. /\ compactor'.visited \subseteq compactor.to_delete
          /\ compactor'.deleted \subseteq Nat
      BY <1>0, <1>5, DeletedFacts DEF CompactorType
    <2> QED
      BY <1>0, <2>1, <2>2 DEF CompactorType
  <1>6. CASE compactor' = IdleCompactor(compactor.calls)
    BY <1>0, <1>6, CompactorFacts
  <1> QED
    BY <1>1, <1>2, <1>3, <1>4, <1>5, <1>6
    DEF Next, WriterStep, CompactorStep, vars, build_request, send_request, flush, recv,
        collect_batch, roll_sync, roll_create, roll_header, write_all, index_batch, maybe_sync,
        sync_batch, sync_flush, writer_stops, crash, open_with_config, compact_end,
        compact_fails, open_fails

LEMMA IndexTypeStep ==
  ASSUME Types, Bounded, [Next]_vars
  PROVE  IndexType' /\ Bounded' /\ next_id' \in Nat \ {0} /\ ids' \in [Appends -> Nat]
  <1>0. /\ DOMAIN index \subseteq Nat /\ index \in [DOMAIN index -> [seq : Nat, pos : Nat]]
        /\ next_id \in Nat \ {0} /\ ids \in [Appends -> Nat]
    BY DEF Types, IndexType
  <1>1. PICK n \in Nat : /\ \A a \in Appends : ids[a] <= n
                         /\ \A id \in DOMAIN index : id <= n
    BY DEF Bounded
  <1>2. CASE UNCHANGED <<index, ids, next_id>>
    BY <1>0, <1>1, <1>2 DEF IndexType, Bounded
  <1>3. ASSUME NEW a \in Appends, build_request(a)
        PROVE  IndexType' /\ Bounded' /\ next_id' \in Nat \ {0} /\ ids' \in [Appends -> Nat]
    <2>1. /\ ids' = [ids EXCEPT ![a] = next_id] /\ next_id' = next_id + 1 /\ index' = index
      BY <1>3 DEF build_request
    <2>2. n + next_id \in Nat
          /\ \A b \in Appends : ids'[b] <= n + next_id
          /\ \A id \in DOMAIN index' : id <= n + next_id
      BY <1>0, <1>1, <2>1
    <2> QED
      BY <1>0, <2>1, <2>2 DEF IndexType, Bounded
  <1>4. CASE index_batch
    <2>1. ids' = ids /\ next_id' = next_id
      BY <1>4 DEF index_batch
    <2>2. PICK new \in SUBSET Nat :
            /\ new = {ids[a] : a \in ToSet(writer.batch)}
            /\ DOMAIN index' = DOMAIN index \cup new
            /\ index' \in [DOMAIN index' -> [seq : Nat, pos : Nat]]
      BY <1>4, IndexedFacts
    <2>3. ToSet(writer.batch) \subseteq Appends
      BY ElementFacts DEF Types, Writer
    <2>4. \A id \in DOMAIN index' : id <= n /\ id \in Nat
      BY <1>0, <1>1, <2>2, <2>3
    <2> QED
      BY <1>0, <1>1, <2>1, <2>2, <2>4 DEF IndexType, Bounded
  <1>5. CASE compact_end
    <2>1. ids' = ids /\ next_id' = next_id
      BY <1>5 DEF compact_end
    <2>2. /\ DOMAIN index' \subseteq DOMAIN index
          /\ index' \in [DOMAIN index' -> [seq : Nat, pos : Nat]]
      BY <1>0, <1>5 DEF compact_end, Drop
    <2> QED
      BY <1>0, <1>1, <2>1, <2>2 DEF IndexType, Bounded
  <1>6. CASE crash
    <2>1. index' = NoKeys /\ ids' = ids /\ next_id' = next_id
      BY <1>6 DEF crash
    <2> QED
      BY <1>0, <1>1, <2>1 DEF IndexType, Bounded, NoKeys
  <1>7. CASE open_with_config
    <2>1. ids' = ids
      BY <1>7 DEF open_with_config
    <2>2. \A id \in DOMAIN index' : id \in Nat /\ id <= n
      BY <1>0, <1>1, <1>7, RebuiltFacts, StoredFacts
    <2> QED
      BY <1>0, <1>1, <1>7, <2>1, <2>2, RebuiltFacts DEF IndexType, Bounded
  <1> QED
    BY <1>2, <1>3, <1>4, <1>5, <1>6, <1>7
    DEF Next, WriterStep, CompactorStep, vars, send_request, flush, recv,
        collect_batch, roll_sync, roll_create, roll_header, write_all, maybe_sync,
        sync_batch, sync_flush, writer_stops, compact_begin, compact_index, compact_list,
        compact_delete, compact_fails, open_fails

LEMMA CallersTypeStep ==
  ASSUME Types, [Next]_vars
  PROVE  /\ up' \in {"up", "down", "failed"}
         /\ callers' \in [Appends -> {"idle", "built", "queued", "accepted", "ok", "err"}]
         /\ flushes' \in [Flushes -> {"idle", "sent", "ok", "err"}]
         /\ before' \in [Flushes -> SUBSET Appends]
         /\ pending_durable_acks' \subseteq DurableAppends /\ lost' \subseteq Appends
  <1> DEFINE C == {"idle", "built", "queued", "accepted", "ok", "err"}
             F == {"idle", "sent", "ok", "err"}
  <1>0. /\ up \in {"up", "down", "failed"} /\ callers \in [Appends -> C]
        /\ flushes \in [Flushes -> F] /\ before \in [Flushes -> SUBSET Appends]
        /\ pending_durable_acks \subseteq DurableAppends /\ lost \subseteq Appends
    BY DEF Types
  <1>1. up' \in {"up", "down", "failed"}
    BY <1>0
    DEF Next, WriterStep, CompactorStep, vars, build_request, send_request, flush, recv,
        collect_batch, roll_sync, roll_create, roll_header, write_all, index_batch, maybe_sync,
        sync_batch, sync_flush, writer_stops, compact_begin, compact_index, compact_list,
        compact_delete, compact_end, compact_fails, crash, open_with_config, open_fails
  <1>2. callers' \in [Appends -> C]
    <2>1. CASE \E a \in Appends, c \in C : callers' = [callers EXCEPT ![a] = c]
      BY <1>0, <2>1
    <2>2. CASE SyncOk \/ SyncErr
      BY <1>0, <2>2 DEF SyncOk, SyncErr
    <2>3. CASE DropWaiters
      BY <1>0, <2>3 DEF DropWaiters
    <2>4. CASE crash
      BY <1>0, <2>4 DEF crash
    <2>5. CASE UNCHANGED callers
      BY <1>0, <2>5
    <2>6. ASSUME NEW a \in Appends, build_request(a) \/ send_request(a)
          PROVE  \E c \in C : callers' = [callers EXCEPT ![a] = c]
      BY <2>6 DEF build_request, send_request
    <2> QED
      BY <2>1, <2>2, <2>3, <2>4, <2>5, <2>6
      DEF Next, WriterStep, CompactorStep, vars, flush, recv,
          collect_batch, roll_sync, roll_create, roll_header, write_all, index_batch, maybe_sync,
          sync_batch, sync_flush, writer_stops, compact_begin, compact_index, compact_list,
          compact_delete, compact_end, compact_fails, open_with_config, open_fails
  <1>3. flushes' \in [Flushes -> F] /\ before' \in [Flushes -> SUBSET Appends]
    <2>1. CASE UNCHANGED <<flushes, before>>
      BY <1>0, <2>1
    <2>2. ASSUME NEW f \in Flushes, flush(f)
          PROVE  flushes' \in [Flushes -> F] /\ before' \in [Flushes -> SUBSET Appends]
      <3>1. Stored \cup Underway \in SUBSET Appends
        BY StoredFacts
      <3> QED
        BY <1>0, <2>2, <3>1 DEF flush
    <2>3. CASE sync_flush
      BY <1>0, <2>3 DEF sync_flush
    <2>4. CASE writer_stops \/ crash
      BY <1>0, <2>4 DEF writer_stops, DropWaiters, crash
    <2> QED
      BY <2>1, <2>2, <2>3, <2>4
      DEF Next, WriterStep, CompactorStep, vars, build_request, send_request, recv,
          collect_batch, roll_sync, roll_create, roll_header, write_all, index_batch, maybe_sync,
          sync_batch, compact_begin, compact_index, compact_list,
          compact_delete, compact_end, compact_fails, open_with_config, open_fails
  <1>4. pending_durable_acks' \subseteq DurableAppends
    BY <1>0
    DEF Next, WriterStep, CompactorStep, vars, build_request, send_request, flush, recv,
        collect_batch, roll_sync, roll_create, roll_header, write_all, index_batch, maybe_sync,
        sync_batch, sync_flush, writer_stops, compact_begin, compact_index, compact_list,
        compact_delete, compact_end, compact_fails, crash, open_with_config, open_fails,
        SyncOk, SyncErr, DropWaiters
  <1>5. lost' \subseteq Appends
    <2>1. ToSet(writer.batch) \subseteq Appends
      BY ElementFacts DEF Types, Writer
    <2>2. CASE compact_delete
      BY <1>0, <2>2, DeletedFacts, StoredFacts DEF Holds
    <2> QED
      BY <1>0, <2>1, <2>2
      DEF Next, WriterStep, CompactorStep, vars, build_request, send_request, flush, recv,
          collect_batch, roll_sync, roll_create, roll_header, write_all, index_batch, maybe_sync,
          sync_batch, sync_flush, writer_stops, compact_begin, compact_index, compact_list,
          compact_end, compact_fails, crash, open_with_config, open_fails
  <1> QED
    BY <1>1, <1>2, <1>3, <1>4, <1>5

LEMMA TypesStep ==
  ASSUME Types, Bounded, CompactInv, [Next]_vars
  PROVE  Types' /\ Bounded'
  BY SegmentsTypeStep, ChannelTypeStep, WriterTypeStep, CompactorTypeStep, IndexTypeStep,
     CallersTypeStep
  DEF Types

-----------------------------------------------------------------------------
(* The writer.                                                             *)

\* Only open_with_config opens the log, only a crash closes it, and a closed
\* log does nothing.
LEMMA UpFacts ==
  ASSUME [Next]_vars
  PROVE  \/ up = "up" /\ up' = "up"
         \/ open_with_config \/ crash
         \/ up # "up" /\ up' # "up"
            /\ UNCHANGED <<next_id, callers, ids, flushes, before, channel, writer,
                           pending_durable_acks, current_segment_seq, segments, index,
                           compactor, lost, crashes>>
  BY DEF Next, WriterStep, CompactorStep, vars, build_request, send_request, flush, recv,
         collect_batch, roll_sync, roll_create, roll_header, write_all, index_batch, maybe_sync,
         sync_batch, sync_flush, writer_stops, compact_begin, compact_index, compact_list,
         compact_delete, compact_end, compact_fails, open_fails

\* A crash leaves nothing in memory.
LEMMA CrashFacts ==
  ASSUME Types, Bounded, crash
  PROVE  /\ up = "up" /\ up' = "down" /\ channel' = <<>> /\ pending_durable_acks' = {}
         /\ WriterIs("recv", <<>>, NoFlush, 0)
         /\ compactor'.pc = "idle" /\ compactor'.visited = {} /\ compactor'.to_delete = {}
         /\ compactor'.max_id = NoKeys
         /\ \A a \in Appends : /\ callers[a] \in {"built", "queued"} => callers'[a] = "err"
                               /\ callers[a] \notin {"built", "queued"} => callers'[a] = callers[a]
         /\ \A f \in Flushes : /\ flushes'[f] # "sent"
                               /\ flushes'[f] = "ok" => flushes[f] = "ok"
         /\ UNCHANGED <<next_id, ids, before, current_segment_seq, lost>>
  <1>1. /\ up = "up" /\ up' = "down" /\ channel' = <<>> /\ pending_durable_acks' = {}
        /\ writer' = IdleWriter(0) /\ compactor' = IdleCompactor(compactor.calls)
        /\ UNCHANGED <<next_id, ids, before, current_segment_seq, lost>>
    BY DEF crash
  <1>2. \A a \in Appends : /\ callers[a] \in {"built", "queued"} => callers'[a] = "err"
                           /\ callers[a] \notin {"built", "queued"} => callers'[a] = callers[a]
    BY DEF crash
  <1>3. \A f \in Flushes : /\ flushes'[f] # "sent"
                           /\ flushes'[f] = "ok" => flushes[f] = "ok"
    BY DEF crash
  <1>4. compactor.calls \in Nat
    BY DEF Types, CompactorType
  <1> QED
    BY <1>1, <1>2, <1>3, <1>4, IdleFacts, CompactorFacts

LEMMA ClosedStep ==
  ASSUME Types, Bounded, ClosedInv, [Next]_vars
  PROVE  ClosedInv'
  <1>1. CASE up' = "up"
    BY <1>1 DEF ClosedInv
  <1>2. CASE crash
    BY <1>2, CrashFacts, CrashedFacts DEF ClosedInv, WriterIs, Types
  <1>3. CASE open_with_config
    BY <1>3 DEF open_with_config, ClosedInv
  <1>4. CASE /\ up # "up" /\ up' # "up"
             /\ UNCHANGED <<next_id, callers, ids, flushes, before, channel, writer,
                            pending_durable_acks, current_segment_seq, segments, index,
                            compactor, lost, crashes>>
    BY <1>4 DEF ClosedInv
  <1> QED
    BY <1>1, <1>2, <1>3, <1>4, UpFacts

LEMMA WriterStepInv ==
  ASSUME Types, Bounded, ClosedInv, WriterInv, [Next]_vars
  PROVE  WriterInv'
  <1>0. /\ writer.batch \in Seq(Appends) /\ writer.flush \in Flushes \cup {NoFlush}
        /\ NoFlush \notin Flushes
    BY WalAssumption DEF Types, Writer, NoFlush
  <1>1. CASE UNCHANGED <<pending_durable_acks, writer, channel>>
    BY <1>1 DEF WriterInv
  <1>2. ASSUME NEW a \in Appends, send_request(a) PROVE WriterInv'
    BY <1>2 DEF WriterInv, send_request
  <1>3. ASSUME NEW f \in Flushes, flush(f) PROVE WriterInv'
    BY <1>3 DEF WriterInv, flush
  <1>4. CASE recv
    <2>1. pending_durable_acks = {} /\ pending_durable_acks' = {}
      BY <1>4 DEF WriterInv, recv
    <2>2. Head(channel) \in Message
      BY <1>4, RecvFacts, TailFacts DEF Types
    <2>3. Head(channel)[1] = "flush" => Head(channel)[2] # NoFlush
      BY <1>0, <2>2, MessageFacts
    <2> QED
      BY <1>4, <2>1, <2>3, RecvFacts DEF WriterInv, WriterIs
  <1>5. CASE collect_batch
    <2>1. pending_durable_acks = {} /\ pending_durable_acks' = {}
      BY <1>5 DEF WriterInv, collect_batch
    <2> QED
      BY <1>5, <2>1, CollectFacts DEF WriterInv, WriterIs
  <1>6. CASE roll_sync \/ writer_stops
    <2>1. pending_durable_acks' = {} /\ (writer_stops => channel' = <<>>)
      BY <1>6 DEF roll_sync, SyncOk, writer_stops, DropWaiters
    <2> QED
      BY <1>6, <2>1, RollFacts DEF WriterInv, WriterIs
  <1>7. CASE roll_create \/ roll_header \/ write_all
    <2>1. pending_durable_acks = {} /\ pending_durable_acks' = {}
      BY <1>7 DEF WriterInv, roll_create, roll_header, write_all
    <2> QED
      BY <1>7, <2>1, RollFacts DEF WriterInv, WriterIs
  <1>8. CASE index_batch
    <2>1. pending_durable_acks' \subseteq ToSet(writer.batch)
      BY <1>8 DEF index_batch, WriterInv
    <2> QED
      BY <1>8, <2>1, BatchFacts DEF WriterInv, WriterIs
  <1>9. CASE maybe_sync
    <2>1. pending_durable_acks = {} /\ pending_durable_acks' = {}
      BY <1>9 DEF WriterInv, maybe_sync
    <2> QED
      BY <1>9, <2>1, BatchFacts DEF WriterInv, WriterIs
  <1>10. CASE sync_batch \/ sync_flush
    <2>1. pending_durable_acks' = {}
      BY <1>10 DEF sync_batch, sync_flush, SyncOk, SyncErr
    <2> QED
      BY <1>10, <2>1, BatchFacts DEF WriterInv, WriterIs
  <1>11. CASE crash
    BY <1>11, CrashFacts DEF WriterInv, WriterIs
  <1>12. CASE open_with_config
    <2>1. pending_durable_acks = {} /\ pending_durable_acks' = {}
      BY <1>12 DEF open_with_config, ClosedInv, WriterInv
    <2> QED
      BY <1>12, <2>1, OpenedWriter DEF WriterInv, WriterIs
  <1> QED
    BY <1>1, <1>2, <1>3, <1>4, <1>5, <1>6, <1>7, <1>8, <1>9, <1>10, <1>11, <1>12
    DEF Next, WriterStep, CompactorStep, vars, build_request, compact_begin, compact_index,
        compact_list, compact_delete, compact_end, compact_fails, open_fails

-----------------------------------------------------------------------------
(* Where the records are.                                                  *)

SameRecords ==
  /\ DOMAIN segments' = DOMAIN segments
  /\ \A s \in DOMAIN segments : segments'[s].recs = segments[s].recs

LEMMA RecordsStep ==
  ASSUME Types, [Next]_vars
  PROVE  SameRecords \/ write_all \/ roll_create \/ compact_delete \/ crash \/ open_with_config
  <1>1. CASE UNCHANGED segments
    BY <1>1 DEF SameRecords
  <1>2. CASE SyncOk
    BY <1>2, SyncedFacts DEF SameRecords
  <1>3. CASE writer_stops
    BY <1>3, TornFacts DEF SameRecords, SameSegments
  <1>4. CASE roll_header
    BY <1>4, HeaderFacts DEF SameRecords, SameSegments
  <1> QED
    BY <1>1, <1>2, <1>3, <1>4
    DEF Next, WriterStep, CompactorStep, vars, build_request, send_request, flush, recv,
        collect_batch, roll_sync, index_batch, maybe_sync, sync_batch, sync_flush, SyncErr,
        compact_begin, compact_index, compact_list, compact_end, compact_fails, open_fails

\* Records enter a file in write_all alone, and leave one in a compaction or a crash.
LEMMA HoldsFacts ==
  ASSUME Types, [Next]_vars
  PROVE  /\ \A s, a : Holds(s, a)' =>
              \/ Holds(s, a)
              \/ write_all /\ Linked /\ s = current_segment_seq /\ a \in ToSet(writer.batch)
         /\ \A s, a : Holds(s, a) => Holds(s, a)' \/ crash \/ (compact_delete /\ a \in lost')
         /\ write_all /\ Linked =>
              /\ current_segment_seq' = current_segment_seq
              /\ \A a \in ToSet(writer.batch) : Holds(current_segment_seq, a)'
         /\ lost \subseteq lost'
         /\ \A a \in lost' : \/ a \in lost \/ (write_all /\ a \in ToSet(writer.batch))
                             \/ compact_delete
  <1>0. /\ lost \subseteq lost'
        /\ \A a \in lost' : \/ a \in lost \/ (write_all /\ a \in ToSet(writer.batch))
                            \/ compact_delete
    <2>1. CASE compact_delete
      BY <2>1, DeletedFacts
    <2>2. CASE write_all
      BY <2>2 DEF write_all
    <2> QED
      BY <2>1, <2>2
      DEF Next, WriterStep, CompactorStep, vars, build_request, send_request, flush, recv,
          collect_batch, roll_sync, roll_create, roll_header, index_batch, maybe_sync,
          sync_batch, sync_flush, writer_stops, compact_begin, compact_index, compact_list,
          compact_end, compact_fails, crash, open_with_config, open_fails
  <1>1. CASE SameRecords /\ ~write_all
    <2>1. \A s, a : Holds(s, a)' <=> Holds(s, a)
      BY <1>1 DEF SameRecords, Holds
    <2> QED
      BY <1>0, <1>1, <2>1
  <1>2. CASE write_all
    <2>1. \A s \in DOMAIN segments : segments[s].recs \in Seq(Appends)
      BY DEF Types, SegmentsType, Segment
    <2>2. writer.batch \in Seq(Appends)
      BY DEF Types, Writer
    <2>3. \A s \in DOMAIN segments : ToSet(segments[s].recs \o writer.batch)
                                     = ToSet(segments[s].recs) \cup ToSet(writer.batch)
      BY <2>1, <2>2, JoinedElements
    <2>4. \A s, a : Holds(s, a)' <=> \/ Holds(s, a)
                                     \/ Linked /\ s = current_segment_seq /\ a \in ToSet(writer.batch)
      BY <1>2, <2>3, WrittenFacts DEF Holds, Linked
    <2>5. current_segment_seq' = current_segment_seq
      BY <1>2 DEF write_all
    <2>6. Linked => \A a \in ToSet(writer.batch) : Holds(current_segment_seq, a)'
      BY <2>4, <2>5 DEF Holds
    <2> QED
      BY <1>0, <1>2, <2>4, <2>5, <2>6
  <1>3. CASE roll_create
    <2>1. \A s, a : Holds(s, a)' <=> Holds(s, a)
      BY <1>3, CreatedFacts, NoElements DEF Holds
    <2>2. ~write_all
      BY <1>3 DEF roll_create, write_all
    <2> QED
      BY <1>0, <2>1, <2>2
  <1>4. CASE compact_delete
    <2>1. PICK seq \in Nat :
            /\ DOMAIN segments' = DOMAIN segments \ {seq}
            /\ \A s \in DOMAIN segments' : segments'[s] = segments[s]
            /\ \A a : a \in lost' <=> a \in lost \/ Holds(seq, a)
      BY <1>4, DeletedFacts
    <2>2. \A s, a : Holds(s, a)' => Holds(s, a)
      BY <2>1 DEF Holds
    <2>3. \A s, a : Holds(s, a) => Holds(s, a)' \/ a \in lost'
      BY <2>1 DEF Holds
    <2>4. CASE write_all
      BY <1>2, <2>4
    <2> QED
      BY <1>0, <1>4, <2>2, <2>3, <2>4
  <1>5. CASE crash
    <2>1. \A s, a : Holds(s, a)' => Holds(s, a)
      BY <1>5, CrashedFacts DEF Holds
    <2>2. ~write_all
      BY <1>5 DEF crash, write_all
    <2> QED
      BY <1>0, <1>5, <2>1, <2>2
  <1>6. CASE open_with_config
    <2>1. \A s, a : Holds(s, a)' <=> Holds(s, a)
      BY <1>6, OpenedFacts, NoElements DEF Holds
    <2>2. ~write_all
      BY <1>6 DEF open_with_config, write_all
    <2> QED
      BY <1>0, <2>1, <2>2
  <1> QED
    BY <1>1, <1>2, <1>3, <1>4, <1>5, <1>6, RecordsStep

\* The active segment changes when a roll ends and when the log is opened.
LEMMA CurrentFacts ==
  ASSUME [Next]_vars
  PROVE  \/ current_segment_seq' = current_segment_seq /\ ~roll_header
         \/ roll_header /\ current_segment_seq' = current_segment_seq + 1
         \/ open_with_config
  BY DEF Next, WriterStep, CompactorStep, vars, build_request, send_request, flush, recv,
         collect_batch, roll_sync, roll_create, roll_header, write_all, index_batch, maybe_sync,
         sync_batch, sync_flush, writer_stops, compact_begin, compact_index, compact_list,
         compact_delete, compact_end, compact_fails, crash, open_fails

\* Past write_all, a batch stays until it is done.
Written == {"index", "maybe_sync", "sync", "stopped"}

LEMMA WrittenStep ==
  ASSUME Types, Bounded, WriterInv, [Next]_vars, ToSet(writer'.batch) # {}
  PROVE  /\ writer.pc \in Written =>
              /\ current_segment_seq' = current_segment_seq /\ writer'.pc \in Written
              /\ writer'.batch = writer.batch /\ ~write_all
         /\ writer'.pc \in {"index", "maybe_sync", "sync"} =>
              \/ write_all /\ writer'.batch = writer.batch
              \/ writer.pc \in Written \ {"stopped"}
  <1>1. CASE UNCHANGED <<writer, current_segment_seq>> /\ ~write_all
    BY <1>1 DEF Written
  <1>2. CASE recv
    BY <1>2, RecvFacts DEF WriterIs, Written
  <1>3. CASE collect_batch
    BY <1>3, CollectFacts DEF WriterIs, Written
  <1>4. CASE roll_sync \/ roll_create \/ roll_header \/ write_all
    BY <1>4, RollFacts DEF WriterIs, Written
  <1>5. CASE writer_stops
    <2>1. current_segment_seq' = current_segment_seq
      BY <1>5 DEF writer_stops
    <2> QED
      BY <1>5, <2>1, RollFacts DEF WriterIs, Written
  <1>6. CASE index_batch \/ maybe_sync \/ sync_batch \/ sync_flush
    <2>1. current_segment_seq' = current_segment_seq
      BY <1>6 DEF index_batch, maybe_sync, sync_batch, sync_flush
    <2>2. ~write_all
      BY <1>6, BatchFacts DEF write_all
    <2> QED
      BY <1>6, <2>1, <2>2, BatchFacts, NoElements DEF WriterIs, Written
  <1>7. CASE open_with_config
    BY <1>7, OpenedWriter, NoElements DEF WriterIs
  <1>8. CASE crash
    BY <1>8, CrashFacts, NoElements DEF WriterIs
  <1> QED
    BY <1>1, <1>2, <1>3, <1>4, <1>5, <1>6, <1>7, <1>8
    DEF Next, WriterStep, CompactorStep, vars, build_request, send_request, flush,
        compact_begin, compact_index, compact_list, compact_delete, compact_end, compact_fails,
        open_fails

LEMMA BatchStep ==
  ASSUME Types, Bounded, WriterInv, BatchInv, [Next]_vars
  PROVE  BatchInv'
  <1> SUFFICES ASSUME writer'.pc \in {"index", "maybe_sync", "sync"},
                      NEW a \in ToSet(writer'.batch)
               PROVE  a \in lost' \/ Holds(current_segment_seq, a)'
    BY DEF BatchInv
  <1>1. CASE write_all
    <2>1. a \in ToSet(writer.batch)
      BY <1>1, RollFacts DEF WriterIs
    <2>2. CASE Linked
      BY <1>1, <2>1, <2>2, HoldsFacts
    <2>3. CASE ~Linked
      BY <1>1, <2>1, <2>3 DEF write_all
    <2> QED
      BY <2>2, <2>3
  <1>2. CASE ~write_all
    <2>1. /\ writer.pc \in {"index", "maybe_sync", "sync"} /\ writer'.batch = writer.batch
          /\ current_segment_seq' = current_segment_seq
      BY <1>2, WrittenStep DEF Written
    <2>2. ~crash
      BY CrashFacts DEF WriterIs
    <2>3. a \in lost \/ Holds(current_segment_seq, a)
      BY <2>1 DEF BatchInv
    <2>4. PICK c : c = current_segment_seq
      OBVIOUS
    <2>5. a \in lost' \/ Holds(c, a)'
      BY <2>2, <2>3, <2>4, HoldsFacts
    <2> QED
      BY <2>1, <2>4, <2>5 DEF Holds
  <1> QED
    BY <1>1, <1>2

\* A record joins the batch from the head of the channel.
LEMMA BatchGrows ==
  ASSUME Types, Bounded, WriterInv, [Next]_vars, NEW a \in ToSet(writer'.batch)
  PROVE  \/ a \in ToSet(writer.batch)
         \/ /\ channel # <<>> /\ Head(channel) = <<"record", a>> /\ channel' = Tail(channel)
            /\ UNCHANGED <<segments, callers>>
  <1>0. writer.batch \in Seq(Appends) /\ channel \in Seq(Message)
    BY DEF Types, Writer
  <1>1. CASE recv
    <2>1. Head(channel) \in Message
      BY <1>0, <1>1, RecvFacts, TailFacts
    <2>2. UNCHANGED <<segments, callers>> /\ channel # <<>> /\ channel' = Tail(channel)
      BY <1>1 DEF recv
    <2>3. CASE writer'.batch = writer.batch
      BY <2>3
    <2>4. CASE Head(channel)[1] = "record" /\ writer'.batch = <<Head(channel)[2]>>
      <3>1. a = Head(channel)[2]
        BY <2>4, OneElement
      <3> QED
        BY <2>1, <2>2, <2>4, <3>1, MessageFacts
    <2> QED
      BY <1>1, <2>3, <2>4, RecvFacts DEF WriterIs
  <1>2. CASE collect_batch
    <2>1. UNCHANGED <<segments, callers>>
      BY <1>2 DEF collect_batch
    <2>2. CASE writer'.batch = writer.batch
      BY <2>2
    <2>3. CASE /\ channel # <<>> /\ Head(channel)[1] = "record" /\ channel' = Tail(channel)
               /\ writer'.batch = Append(writer.batch, Head(channel)[2])
      <3>1. Head(channel) \in Message
        BY <1>0, <2>3, TailFacts
      <3>2. Head(channel)[2] \in Appends
        BY <2>3, <3>1, MessageFacts
      <3>3. a \in ToSet(writer.batch) \/ a = Head(channel)[2]
        BY <1>0, <2>3, <3>2, AddedElement
      <3> QED
        BY <2>1, <2>3, <3>1, <3>3, MessageFacts
    <2> QED
      BY <1>2, <2>2, <2>3, CollectFacts DEF WriterIs
  <1>3. CASE roll_sync \/ roll_create \/ roll_header \/ write_all \/ writer_stops
    BY <1>3, RollFacts DEF WriterIs
  <1>4. CASE index_batch \/ maybe_sync \/ sync_batch \/ sync_flush
    BY <1>4, BatchFacts, NoElements DEF WriterIs
  <1>5. CASE open_with_config
    BY <1>5, OpenedWriter, NoElements DEF WriterIs
  <1>6. CASE crash
    BY <1>6, CrashFacts, NoElements DEF WriterIs
  <1>7. CASE UNCHANGED writer
    BY <1>7
  <1> QED
    BY <1>1, <1>2, <1>3, <1>4, <1>5, <1>6, <1>7
    DEF Next, WriterStep, CompactorStep, vars, build_request, send_request, flush,
        compact_begin, compact_index, compact_list, compact_delete, compact_end, compact_fails,
        open_fails

\* The channel loses its head to the writer, all to a failure or a crash, and
\* gains a record or a flush at its end.
LEMMA ChannelFacts ==
  ASSUME [Next]_vars
  PROVE  \/ channel' = channel
         \/ channel' = <<>>
         \/ channel # <<>> /\ channel' = Tail(channel) /\ (recv \/ collect_batch)
         \/ \E a \in Appends : /\ send_request(a) /\ callers[a] = "built"
                               /\ channel' = Append(channel, <<"record", a>>)
                               /\ callers'[a] \in {"queued", "accepted"} \/ a \notin DOMAIN callers
                               /\ UNCHANGED <<writer, segments, lost>>
         \/ \E f \in Flushes : /\ flush(f) /\ flushes[f] = "idle"
                               /\ channel' = Append(channel, <<"flush", f>>)
                               /\ before' = [before EXCEPT ![f] = Stored \cup Underway]
                               /\ flushes' = [flushes EXCEPT ![f] = "sent"]
                               /\ UNCHANGED <<writer, callers, segments, lost>>
  <1>1. ASSUME NEW a \in Appends, send_request(a)
        PROVE  \/ channel' = channel
               \/ /\ send_request(a) /\ callers[a] = "built"
                  /\ channel' = Append(channel, <<"record", a>>)
                  /\ callers'[a] \in {"queued", "accepted"} \/ a \notin DOMAIN callers
                  /\ UNCHANGED <<writer, segments, lost>>
    BY <1>1 DEF send_request
  <1>2. ASSUME NEW f \in Flushes, flush(f)
        PROVE  \/ channel' = channel
               \/ /\ flush(f) /\ flushes[f] = "idle"
                  /\ channel' = Append(channel, <<"flush", f>>)
                  /\ before' = [before EXCEPT ![f] = Stored \cup Underway]
                  /\ flushes' = [flushes EXCEPT ![f] = "sent"]
                  /\ UNCHANGED <<writer, callers, segments, lost>>
    BY <1>2 DEF flush
  <1> QED
    BY <1>1, <1>2
    DEF Next, WriterStep, CompactorStep, vars, build_request, recv,
        collect_batch, roll_sync, roll_create, roll_header, write_all, index_batch, maybe_sync,
        sync_batch, sync_flush, writer_stops, DropWaiters, crash, open_with_config,
        compact_begin, compact_index, compact_list, compact_delete, compact_end, compact_fails,
        open_fails

\* How a caller's state may change, and its id.
LEMMA CallersFacts ==
  ASSUME Types, [Next]_vars, NEW a \in Appends
  PROVE  /\ callers'[a] \in {"idle", "built"} => callers[a] \in {"idle", "built"}
         /\ callers'[a] \in {"built", "queued"} =>
              callers[a] \in {"built", "queued"} \/ build_request(a)
         /\ ids'[a] = ids[a] \/ (build_request(a) /\ ids'[a] = next_id)
         /\ build_request(a) => callers[a] = "idle" /\ next_id' = next_id + 1 /\ up = "up"
         /\ callers'[a] = "ok" => callers[a] = "ok" \/ (SyncOk /\ a \in pending_durable_acks)
  <1>0. /\ callers \in [Appends -> {"idle", "built", "queued", "accepted", "ok", "err"}]
        /\ ids \in [Appends -> Nat]
    BY DEF Types
  <1>1. build_request(a) => callers[a] = "idle" /\ next_id' = next_id + 1 /\ up = "up"
    BY DEF build_request
  <1>2. ids'[a] = ids[a] \/ (build_request(a) /\ ids'[a] = next_id)
    <2>1. ASSUME NEW b \in Appends, build_request(b)
          PROVE  ids'[a] = ids[a] \/ (build_request(a) /\ ids'[a] = next_id)
      <3>1. CASE a = b
        BY <1>0, <2>1, <3>1 DEF build_request
      <3>2. CASE a # b
        BY <1>0, <2>1, <3>2 DEF build_request
      <3> QED
        BY <3>1, <3>2
    <2> QED
      BY <2>1
      DEF Next, WriterStep, CompactorStep, vars, send_request, flush, recv,
          collect_batch, roll_sync, roll_create, roll_header, write_all, index_batch, maybe_sync,
          sync_batch, sync_flush, writer_stops, crash, open_with_config,
          compact_begin, compact_index, compact_list, compact_delete, compact_end, compact_fails,
          open_fails
  <1>3. /\ callers'[a] \in {"idle", "built"} => callers[a] \in {"idle", "built"}
        /\ callers'[a] \in {"built", "queued"} =>
             callers[a] \in {"built", "queued"} \/ build_request(a)
        /\ callers'[a] = "ok" => callers[a] = "ok" \/ (SyncOk /\ a \in pending_durable_acks)
    <2>1. CASE UNCHANGED callers
      BY <2>1
    <2>2. ASSUME NEW b \in Appends, build_request(b)
          PROVE  /\ callers'[a] \in {"idle", "built"} => callers[a] \in {"idle", "built"}
                 /\ callers'[a] \in {"built", "queued"} =>
                      callers[a] \in {"built", "queued"} \/ build_request(a)
                 /\ callers'[a] = "ok" => callers[a] = "ok"
      <3>1. CASE a = b
        BY <1>0, <2>2, <3>1 DEF build_request
      <3>2. CASE a # b
        BY <1>0, <2>2, <3>2 DEF build_request
      <3> QED
        BY <3>1, <3>2
    <2>3. ASSUME NEW b \in Appends, send_request(b)
          PROVE  /\ callers'[a] \in {"idle", "built"} => callers[a] \in {"idle", "built"}
                 /\ callers'[a] \in {"built", "queued"} => callers[a] \in {"built", "queued"}
                 /\ callers'[a] = "ok" => callers[a] = "ok"
      BY <1>0, <2>3 DEF send_request
    <2>4. CASE SyncOk
      BY <1>0, <2>4 DEF SyncOk
    <2>5. CASE SyncErr
      BY <1>0, <2>5 DEF SyncErr
    <2>6. CASE DropWaiters
      BY <1>0, <2>6 DEF DropWaiters
    <2>7. CASE crash
      BY <1>0, <2>7 DEF crash
    <2> QED
      BY <2>1, <2>2, <2>3, <2>4, <2>5, <2>6, <2>7
      DEF Next, WriterStep, CompactorStep, vars, flush, recv,
          collect_batch, roll_sync, roll_create, roll_header, write_all, index_batch, maybe_sync,
          sync_batch, sync_flush, writer_stops, open_with_config,
          compact_begin, compact_index, compact_list, compact_delete, compact_end, compact_fails,
          open_fails
  <1> QED
    BY <1>1, <1>2, <1>3

\* Where a message of the channel was before the step.
LEMMA ChannelMoves ==
  ASSUME Types, [Next]_vars, NEW i \in 1 .. Len(channel')
  PROVE  \/ /\ i \in 1 .. Len(channel) /\ channel'[i] = channel[i]
            /\ channel' # Tail(channel)
         \/ /\ i + 1 \in 1 .. Len(channel) /\ channel'[i] = channel[i + 1]
            /\ channel # <<>> /\ channel' = Tail(channel) /\ Head(channel) = channel[1]
         \/ \E a \in Appends : /\ send_request(a) /\ callers[a] = "built"
                               /\ i = Len(channel) + 1 /\ channel'[i] = <<"record", a>>
                               /\ callers'[a] \in {"queued", "accepted"}
                               /\ UNCHANGED <<writer, segments, lost>>
         \/ \E f \in Flushes : /\ flush(f) /\ flushes[f] = "idle"
                               /\ i = Len(channel) + 1 /\ channel'[i] = <<"flush", f>>
                               /\ before'[f] = Stored \cup Underway /\ flushes'[f] = "sent"
                               /\ UNCHANGED <<writer, segments, lost>>
  <1>0. /\ channel \in Seq(Message) /\ Len(channel) \in Nat
        /\ channel # <<>> => Len(Tail(channel)) = Len(channel) - 1
    BY TailFacts DEF Types
  <1>1. CASE channel' = channel
    <2>1. channel # <<>>
      BY <1>0, <1>1
    <2>2. Len(Tail(channel)) # Len(channel)
      BY <1>0, <2>1
    <2> QED
      BY <1>1, <2>2
  <1>2. CASE channel' = <<>>
    BY <1>2
  <1>3. CASE channel # <<>> /\ channel' = Tail(channel)
    <2>1. /\ Len(channel') = Len(channel) - 1 /\ Head(channel) = channel[1]
          /\ \A k \in 1 .. (Len(channel) - 1) : channel'[k] = channel[k + 1]
      BY <1>0, <1>3, TailFacts
    <2>2. i \in 1 .. (Len(channel) - 1) /\ i + 1 \in 1 .. Len(channel)
      BY <1>0, <2>1
    <2> QED
      BY <1>3, <2>1, <2>2
  <1>4. ASSUME NEW m \in Message, channel' = Append(channel, m)
        PROVE  \/ i \in 1 .. Len(channel) /\ channel'[i] = channel[i] /\ channel' # Tail(channel)
               \/ i = Len(channel) + 1 /\ channel'[i] = m
    <2>1. /\ Len(channel') = Len(channel) + 1 /\ channel'[Len(channel) + 1] = m
          /\ \A k \in 1 .. Len(channel) : channel'[k] = channel[k]
      BY <1>0, <1>4, AppendFacts
    <2>2. i \in 1 .. Len(channel) \/ i = Len(channel) + 1
      BY <1>0, <2>1
    <2>3. ASSUME i \in 1 .. Len(channel) PROVE channel' # Tail(channel)
      <3>1. channel # <<>>
        BY <1>0, <2>3
      <3>2. Len(channel') # Len(Tail(channel))
        BY <1>0, <2>1, <3>1
      <3> QED
        BY <3>2
    <2> QED
      BY <2>1, <2>2, <2>3
  <1>5. ASSUME NEW a \in Appends, send_request(a), callers[a] = "built",
               channel' = Append(channel, <<"record", a>>),
               callers'[a] \in {"queued", "accepted"} \/ a \notin DOMAIN callers,
               UNCHANGED <<writer, segments, lost>>
        PROVE  \/ i \in 1 .. Len(channel) /\ channel'[i] = channel[i] /\ channel' # Tail(channel)
               \/ \E b \in Appends : /\ send_request(b) /\ callers[b] = "built"
                                     /\ i = Len(channel) + 1 /\ channel'[i] = <<"record", b>>
                                     /\ callers'[b] \in {"queued", "accepted"}
                                     /\ UNCHANGED <<writer, segments, lost>>
    <2>1. <<"record", a>> \in Message
      BY DEF Message
    <2>2. a \in DOMAIN callers
      BY DEF Types
    <2> QED
      BY <1>4, <1>5, <2>1, <2>2
  <1>6. ASSUME NEW f \in Flushes, flush(f), flushes[f] = "idle",
               channel' = Append(channel, <<"flush", f>>),
               before' = [before EXCEPT ![f] = Stored \cup Underway],
               flushes' = [flushes EXCEPT ![f] = "sent"],
               UNCHANGED <<writer, callers, segments, lost>>
        PROVE  \/ i \in 1 .. Len(channel) /\ channel'[i] = channel[i] /\ channel' # Tail(channel)
               \/ \E g \in Flushes : /\ flush(g) /\ flushes[g] = "idle"
                                     /\ i = Len(channel) + 1 /\ channel'[i] = <<"flush", g>>
                                     /\ before'[g] = Stored \cup Underway /\ flushes'[g] = "sent"
                                     /\ UNCHANGED <<writer, segments, lost>>
    <2>1. <<"flush", f>> \in Message
      BY DEF Message
    <2>2. before'[f] = Stored \cup Underway /\ flushes'[f] = "sent"
      BY <1>6 DEF Types
    <2> QED
      BY <1>4, <1>6, <2>1, <2>2
  <1> QED
    BY <1>1, <1>2, <1>3, <1>5, <1>6, ChannelFacts

LEMMA PlaceStep ==
  ASSUME Types, Bounded, ClosedInv, WriterInv, PlaceInv, FlushInv, [Next]_vars
  PROVE  PlaceInv'
  <1>0. channel \in Seq(Message) /\ Len(channel) \in Nat /\ ToSet(writer.batch) \subseteq Appends
    BY ElementFacts DEF Types, Writer
  <1>1. ASSUME NEW s \in DOMAIN segments', NEW t \in DOMAIN segments', NEW a \in Appends,
               Holds(s, a)', Holds(t, a)'
        PROVE  s = t
    <2>1. CASE Holds(s, a) /\ Holds(t, a)
      BY <2>1 DEF PlaceInv, Holds
    <2>2. CASE write_all /\ a \in ToSet(writer.batch)
      <3>1. ~Holds(s, a) /\ ~Holds(t, a)
        BY <2>2 DEF PlaceInv, Holds, write_all
      <3> QED
        BY <1>1, <3>1, HoldsFacts
    <2> QED
      BY <1>1, <2>1, <2>2, HoldsFacts
  <1>2. ASSUME NEW s \in DOMAIN segments', NEW a \in ToSet(writer'.batch), Holds(s, a)'
        PROVE  s = current_segment_seq' /\ writer'.pc \in Written
    <2>0. ToSet(writer'.batch) # {}
      OBVIOUS
    <2>1. CASE write_all /\ s = current_segment_seq
      <3>1. writer'.pc = "index" /\ current_segment_seq' = current_segment_seq
        BY <2>1, RollFacts DEF WriterIs, write_all
      <3> QED
        BY <2>1, <3>1 DEF Written
    <2>2. CASE Holds(s, a) /\ a \in ToSet(writer.batch)
      <3>1. s = current_segment_seq /\ writer.pc \in Written
        BY <2>2 DEF PlaceInv, Holds, Written
      <3> QED
        BY <2>0, <3>1, WrittenStep
    <2>3. CASE Holds(s, a) /\ a \notin ToSet(writer.batch)
      <3>1. channel # <<>> /\ Head(channel) = <<"record", a>>
        BY <2>3, BatchGrows
      <3>2. 1 \in 1 .. Len(channel) /\ channel[1] = <<"record", a>>
        BY <1>0, <3>1, TailFacts
      <3>3. a \in Appends
        BY <2>3, StoredFacts DEF Holds
      <3> QED
        BY <2>3, <3>2, <3>3 DEF PlaceInv, Holds
    <2> QED
      BY <1>2, <2>1, <2>2, <2>3, HoldsFacts
  <1>3. ASSUME NEW i \in 1 .. Len(channel'), NEW j \in 1 .. Len(channel'), channel'[i] = channel'[j]
        PROVE  i = j
    <2>1. ASSUME NEW k \in 1 .. Len(channel), NEW a \in Appends, callers[a] = "built"
          PROVE  channel[k] # <<"record", a>>
      BY <2>1 DEF PlaceInv
    <2>2. ASSUME NEW k \in 1 .. Len(channel), NEW f \in Flushes, flushes[f] = "idle"
          PROVE  channel[k] # <<"flush", f>>
      BY <2>2 DEF FlushInv
    <2>3. \A k, l \in 1 .. Len(channel) : channel[k] = channel[l] => k = l
      BY DEF PlaceInv
    <2>4. ASSUME NEW k \in 1 .. Len(channel')
          PROVE  \/ k \in 1 .. Len(channel) /\ channel'[k] = channel[k] /\ channel' # Tail(channel)
                 \/ k + 1 \in 1 .. Len(channel) /\ channel'[k] = channel[k + 1]
                    /\ channel' = Tail(channel)
                 \/ k = Len(channel) + 1 /\ \A l \in 1 .. Len(channel) : channel[l] # channel'[k]
      BY <2>1, <2>2, ChannelMoves
    <2>5. CASE i = Len(channel) + 1 /\ \A l \in 1 .. Len(channel) : channel[l] # channel'[i]
      BY <1>3, <2>4, <2>5
    <2>6. CASE j = Len(channel) + 1 /\ \A l \in 1 .. Len(channel) : channel[l] # channel'[j]
      BY <1>3, <2>4, <2>6
    <2>7. CASE i \in 1 .. Len(channel) /\ j \in 1 .. Len(channel) /\ channel[i] = channel[j]
      BY <2>3, <2>7
    <2>8. CASE i + 1 \in 1 .. Len(channel) /\ j + 1 \in 1 .. Len(channel)
               /\ channel[i + 1] = channel[j + 1]
      BY <2>3, <2>8
    <2> QED
      BY <1>3, <2>4, <2>5, <2>6, <2>7, <2>8
  <1>4. ASSUME NEW i \in 1 .. Len(channel'), NEW a \in Appends, channel'[i] = <<"record", a>>
        PROVE  /\ a \notin ToSet(writer'.batch)
               /\ \A s \in DOMAIN segments' : ~Holds(s, a)'
               /\ callers'[a] \notin {"idle", "built"}
    <2>3. ASSUME NEW k \in 1 .. Len(channel), channel[k] = channel'[i],
                 channel # <<>> /\ channel' = Tail(channel) => k # 1
          PROVE  /\ a \notin ToSet(writer'.batch)
                 /\ \A s \in DOMAIN segments' : ~Holds(s, a)'
                 /\ callers'[a] \notin {"idle", "built"}
      <3>1. /\ a \notin ToSet(writer.batch) /\ \A s \in DOMAIN segments : ~Holds(s, a)
            /\ callers[a] \notin {"idle", "built"}
        BY <1>4, <2>3 DEF PlaceInv
      <3>2. callers'[a] \notin {"idle", "built"}
        BY <3>1, CallersFacts
      <3>3. \A s \in DOMAIN segments' : ~Holds(s, a)'
        BY <3>1, HoldsFacts DEF Holds
      <3>4. a \notin ToSet(writer'.batch)
        <4>1. SUFFICES ASSUME a \in ToSet(writer'.batch) PROVE FALSE
          OBVIOUS
        <4>2. channel # <<>> /\ Head(channel) = <<"record", a>> /\ channel' = Tail(channel)
          BY <3>1, <4>1, BatchGrows
        <4>3. 1 \in 1 .. Len(channel) /\ channel[1] = channel[k] /\ k # 1
          BY <1>0, <1>4, <2>3, <4>2, TailFacts
        <4> QED
          BY <4>3 DEF PlaceInv
      <3> QED
        BY <3>2, <3>3, <3>4
    <2>4. ASSUME callers[a] = "built", callers'[a] \in {"queued", "accepted"},
                 UNCHANGED <<writer, segments, lost>>
          PROVE  /\ a \notin ToSet(writer'.batch)
                 /\ \A s \in DOMAIN segments' : ~Holds(s, a)'
                 /\ callers'[a] \notin {"idle", "built"}
      BY <2>4 DEF PlaceInv, Holds
    <2>5. \/ i \in 1 .. Len(channel) /\ channel'[i] = channel[i] /\ channel' # Tail(channel)
          \/ i + 1 \in 1 .. Len(channel) /\ channel'[i] = channel[i + 1]
          \/ callers[a] = "built" /\ callers'[a] \in {"queued", "accepted"}
             /\ UNCHANGED <<writer, segments, lost>>
      BY <1>4, ChannelMoves
    <2>6. i + 1 # 1
      OBVIOUS
    <2> QED
      BY <1>4, <2>3, <2>4, <2>5, <2>6
  <1>5. ASSUME NEW a \in Appends, callers'[a] \in {"idle", "built"}
        PROVE  a \notin ToSet(writer'.batch) /\ \A s \in DOMAIN segments' : ~Holds(s, a)'
    <2>1. callers[a] \in {"idle", "built"}
      BY <1>5, CallersFacts
    <2>2. a \notin ToSet(writer.batch) /\ \A s \in DOMAIN segments : ~Holds(s, a)
      BY <2>1 DEF PlaceInv
    <2>3. \A s \in DOMAIN segments' : ~Holds(s, a)'
      BY <2>2, HoldsFacts DEF Holds
    <2>4. a \notin ToSet(writer'.batch)
      <3>1. SUFFICES ASSUME a \in ToSet(writer'.batch) PROVE FALSE
        OBVIOUS
      <3>2. channel # <<>> /\ Head(channel) = <<"record", a>>
        BY <2>2, <3>1, BatchGrows
      <3>3. 1 \in 1 .. Len(channel) /\ channel[1] = <<"record", a>>
        BY <1>0, <3>2, TailFacts
      <3> QED
        BY <2>1, <3>3 DEF PlaceInv
    <2> QED
      BY <2>3, <2>4
  <1> QED
    BY <1>1, <1>2, <1>3, <1>4, <1>5 DEF PlaceInv, Written

-----------------------------------------------------------------------------
(* The segments and the writer's place in the active one.                  *)

\* The steps that leave the records where they are and the writer where it is.
LEMMA FrameFacts ==
  ASSUME [Next]_vars
  PROVE  \/ UNCHANGED <<writer, current_segment_seq, segments>>
         \/ WriterStep \/ crash \/ open_with_config
         \/ compact_delete /\ UNCHANGED <<writer, current_segment_seq>>
  BY DEF Next, CompactorStep, vars, build_request, send_request, flush,
         compact_begin, compact_index, compact_list, compact_delete, compact_end, compact_fails,
         open_fails

LEMMA OffsetStep ==
  ASSUME Types, Bounded, WriterInv, OffsetInv, SegmentsInv, [Next]_vars
  PROVE  OffsetInv'
  <1>0. /\ writer.batch \in Seq(Appends) /\ Len(writer.batch) \in Nat /\ writer.offset \in Nat
        /\ \A s \in DOMAIN segments : segments[s].recs \in Seq(Appends)
        /\ current_segment_seq \in Nat
    BY DEF Types, Writer, SegmentsType, Segment
  <1> SUFFICES ASSUME up' = "up", current_segment_seq' \in DOMAIN segments',
                      writer'.pc # "stopped"
               PROVE  IF writer'.pc = "index"
                      THEN /\ Len(segments'[current_segment_seq'].recs)
                                = writer'.offset + Len(writer'.batch)
                           /\ \A i \in 1 .. Len(writer'.batch) :
                                segments'[current_segment_seq'].recs[writer'.offset + i]
                                  = writer'.batch[i]
                      ELSE Len(segments'[current_segment_seq'].recs) = writer'.offset
    BY DEF OffsetInv, Linked, Active
  <1>1. CASE UNCHANGED <<writer, current_segment_seq, segments>> /\ up = "up"
    BY <1>1 DEF OffsetInv, Linked, Active
  <1>2. CASE compact_delete /\ UNCHANGED <<writer, current_segment_seq>>
    <2>1. /\ current_segment_seq \in DOMAIN segments
          /\ segments'[current_segment_seq] = segments[current_segment_seq]
      BY <1>2, DeletedFacts
    <2>2. up = "up"
      BY <1>2 DEF compact_delete
    <2> QED
      BY <1>2, <2>1, <2>2 DEF OffsetInv, Linked, Active
  <1>3. CASE roll_header
    <2>1. current_segment_seq' = current_segment_seq + 1 /\ up = "up"
      BY <1>3 DEF roll_header
    <2>2. writer'.pc = "write" /\ writer'.offset = 0 /\ writer.pc = "roll_header"
      BY <1>3, RollFacts DEF WriterIs
    <2>3. /\ current_segment_seq' \in DOMAIN segments
          /\ segments'[current_segment_seq'].recs = segments[current_segment_seq'].recs
      BY <1>3, HeaderFacts DEF SameSegments
    <2>4. segments[current_segment_seq'].recs = <<>>
      BY <2>1, <2>2, <2>3 DEF SegmentsInv
    <2> QED
      BY <2>2, <2>3, <2>4
  <1>4. CASE write_all
    <2>1. current_segment_seq' = current_segment_seq /\ up = "up"
      BY <1>4 DEF write_all
    <2>2. /\ writer'.pc = "index" /\ writer'.offset = writer.offset /\ writer.pc = "write"
          /\ writer'.batch = writer.batch
      BY <1>4, RollFacts DEF WriterIs
    <2>3. PICK r \in Seq(Appends) : r = segments[current_segment_seq].recs
      BY <1>0, <1>4, <2>1, WrittenFacts
    <2>4. PICK t : t = r \o writer.batch /\ segments'[current_segment_seq'].recs = t
      BY <1>4, <2>1, <2>3, WrittenFacts
    <2>5. Len(r) = writer.offset
      BY <1>4, <2>1, <2>2, <2>3, WrittenFacts DEF OffsetInv, Linked, Active
    <2>6. /\ Len(t) = writer.offset + Len(writer.batch)
          /\ \A i \in 1 .. Len(writer.batch) : t[writer.offset + i] = writer.batch[i]
      <3>1. /\ Len(t) = Len(r) + Len(writer.batch)
            /\ \A i \in 1 .. Len(writer.batch) : t[Len(r) + i] = writer.batch[i]
        <4>1. PICK b \in Seq(Appends) : b = writer.batch
          BY <1>0
        <4>2. t = r \o b
          BY <2>4, <4>1
        <4>3. /\ Len(r \o b) = Len(r) + Len(b)
              /\ \A i \in 1 .. Len(b) : (r \o b)[Len(r) + i] = b[i]
          OBVIOUS
        <4>4. ASSUME NEW i \in 1 .. Len(writer.batch)
              PROVE  t[Len(r) + i] = writer.batch[i]
          <5>1. i \in 1 .. Len(b)
            BY <4>1
          <5>2. (r \o b)[Len(r) + i] = b[i]
            BY <4>3, <5>1, Zenon
          <5> QED
            BY <4>1, <4>2, <5>2, Zenon
        <4>5. Len(t) = Len(r) + Len(writer.batch)
          BY <4>1, <4>2, <4>3, Zenon
        <4> QED
          BY <4>4, <4>5
      <3> QED
        BY <2>5, <3>1
    <2> QED
      BY <2>2, <2>4, <2>6
  <1>5. CASE open_with_config
    BY <1>5, OpenedWriter DEF WriterIs
  <1>6. CASE index_batch
    <2>1. /\ current_segment_seq' = current_segment_seq /\ up = "up" /\ segments' = segments
      BY <1>6 DEF index_batch
    <2>2. /\ writer'.pc # "index" /\ writer'.offset = writer.offset + Len(writer.batch)
          /\ writer.pc = "index"
      BY <1>6, BatchFacts DEF WriterIs
    <2> QED
      BY <2>1, <2>2 DEF OffsetInv, Linked, Active
  <1>7. ASSUME up = "up", current_segment_seq' = current_segment_seq,
               current_segment_seq \in DOMAIN segments,
               segments'[current_segment_seq].recs = segments[current_segment_seq].recs,
               writer'.pc # "index", writer.pc \notin {"index", "stopped"},
               writer'.offset = writer.offset
        PROVE  Len(segments'[current_segment_seq'].recs) = writer'.offset
    BY <1>7 DEF OffsetInv, Linked, Active
  <1>8. CASE recv \/ collect_batch
    <2>1. /\ up = "up" /\ current_segment_seq' = current_segment_seq /\ segments' = segments
      BY <1>8 DEF recv, collect_batch
    <2>2. /\ writer'.pc # "index" /\ writer.pc \notin {"index", "stopped"}
          /\ writer'.offset = writer.offset
      BY <1>8, RecvFacts, CollectFacts DEF WriterIs
    <2> QED
      BY <1>7, <2>1, <2>2
  <1>9. CASE roll_sync \/ sync_batch \/ sync_flush
    <2>1. /\ up = "up" /\ current_segment_seq' = current_segment_seq
          /\ SyncOk \/ UNCHANGED segments
      BY <1>9 DEF roll_sync, sync_batch, sync_flush, SyncErr
    <2>2. /\ writer'.pc # "index" /\ writer.pc \notin {"index", "stopped"}
          /\ writer'.offset = writer.offset
      BY <1>9, RollFacts, BatchFacts DEF WriterIs
    <2>3. /\ current_segment_seq \in DOMAIN segments
          /\ segments'[current_segment_seq].recs = segments[current_segment_seq].recs
      BY <2>1, SyncedFacts
    <2> QED
      BY <1>7, <2>1, <2>2, <2>3
  <1>10. CASE roll_create
    <2>1. /\ up = "up" /\ current_segment_seq' = current_segment_seq
      BY <1>10 DEF roll_create
    <2>2. /\ writer'.pc # "index" /\ writer.pc \notin {"index", "stopped"}
          /\ writer'.offset = writer.offset
      BY <1>10, RollFacts DEF WriterIs
    <2>3. current_segment_seq # current_segment_seq + 1
      BY <1>0
    <2>4. /\ current_segment_seq \in DOMAIN segments
          /\ segments'[current_segment_seq].recs = segments[current_segment_seq].recs
      BY <1>10, <2>1, <2>3, CreatedFacts
    <2> QED
      BY <1>7, <2>1, <2>2, <2>4
  <1>11. CASE maybe_sync
    <2>1. /\ up = "up" /\ current_segment_seq' = current_segment_seq /\ segments' = segments
      BY <1>11 DEF maybe_sync
    <2>2. /\ writer'.pc # "index" /\ writer.pc \notin {"index", "stopped"}
          /\ writer'.offset = writer.offset
      BY <1>11, BatchFacts DEF WriterIs
    <2> QED
      BY <1>7, <2>1, <2>2
  <1>12. CASE writer_stops
    BY <1>12, RollFacts DEF WriterIs
  <1>13. up = "up" \/ open_with_config
    BY UpFacts DEF crash
  <1>14. ~crash
    BY DEF crash
  <1> QED
    BY <1>1, <1>2, <1>3, <1>4, <1>5, <1>6, <1>8, <1>9, <1>10, <1>11, <1>12, <1>13, <1>14,
       FrameFacts
    DEF WriterStep

LEMMA SegmentsStep ==
  ASSUME Types, Bounded, ClosedInv, WriterInv, SegmentsInv, [Next]_vars
  PROVE  SegmentsInv'
  <1> DEFINE Early(pc) == pc \in {"roll_create", "roll_header"}
  <1>0. /\ current_segment_seq \in Nat /\ DOMAIN segments \subseteq 1 .. current_segment_seq + 1
        /\ \A s \in DOMAIN segments : s \in Nat /\ s <= current_segment_seq + 1
    BY DEF Types, SegmentsType
  <1> SUFFICES ASSUME up' = "up", NEW s \in DOMAIN segments'
               PROVE  /\ s <= current_segment_seq' \/ writer'.pc \in {"roll_header", "stopped"}
                      /\ (s = current_segment_seq' + 1 /\ writer'.pc = "roll_header") =>
                           segments'[s].recs = <<>>
                      /\ (s # current_segment_seq' \/ Early(writer'.pc)) =>
                           segments'[s].synced = Len(segments'[s].recs)
    BY DEF SegmentsInv
  <1>1. CASE UNCHANGED <<writer, current_segment_seq, segments>> /\ up = "up"
    BY <1>1 DEF SegmentsInv
  <1>2. CASE compact_delete /\ UNCHANGED <<writer, current_segment_seq>>
    <2>1. s \in DOMAIN segments /\ segments'[s] = segments[s] /\ up = "up"
      BY <1>2, DeletedFacts DEF compact_delete
    <2> QED
      BY <1>2, <2>1 DEF SegmentsInv
  <1>3. CASE open_with_config
    <2>1. /\ writer'.pc = "recv"
      BY <1>3, OpenedWriter DEF WriterIs
    <2>2. CASE segments' = segments
      <3>1. segments'[s].synced = Len(segments'[s].recs)
        BY <1>3, <2>2 DEF ClosedInv, open_with_config
      <3>2. s <= current_segment_seq'
        BY <1>3, <2>2, OpenedFacts
      <3> QED
        BY <2>1, <3>1, <3>2
    <2>3. CASE DOMAIN segments' = {1} /\ segments'[1].recs = <<>> /\ segments'[1].synced = 0
               /\ current_segment_seq' = 1
      <3>1. s = 1
        BY <2>3
      <3> QED
        BY <2>1, <2>3, <3>1
    <2> QED
      BY <1>3, <2>2, <2>3, OpenedFacts
  <1>4. CASE roll_header
    <2>1. /\ current_segment_seq' = current_segment_seq + 1 /\ up = "up"
      BY <1>4 DEF roll_header
    <2>2. writer'.pc = "write" /\ writer.pc = "roll_header"
      BY <1>4, RollFacts DEF WriterIs
    <2>3. /\ s \in DOMAIN segments /\ segments'[s].recs = segments[s].recs
          /\ segments'[s].synced = segments[s].synced
      BY <1>4, HeaderFacts DEF SameSegments
    <2>4. segments[s].synced = Len(segments[s].recs)
      BY <2>1, <2>2, <2>3 DEF SegmentsInv
    <2> QED
      BY <1>0, <2>1, <2>2, <2>3, <2>4
  <1>5. CASE roll_create
    <2>1. /\ current_segment_seq' = current_segment_seq /\ up = "up"
      BY <1>5 DEF roll_create
    <2>2. writer'.pc = "roll_header" /\ writer.pc = "roll_create"
      BY <1>5, RollFacts DEF WriterIs
    <2>3. CASE s = current_segment_seq + 1
      <3>1. segments'[s].recs = <<>> /\ segments'[s].synced = 0
        BY <1>5, <2>3, CreatedFacts
      <3> QED
        BY <2>2, <3>1
    <2>4. CASE s # current_segment_seq + 1
      <3>1. s \in DOMAIN segments /\ segments'[s] = segments[s]
        BY <1>5, <2>4, CreatedFacts
      <3>2. segments[s].synced = Len(segments[s].recs)
        BY <2>1, <2>2, <3>1 DEF SegmentsInv
      <3> QED
        BY <2>1, <2>2, <2>4, <3>1, <3>2
    <2> QED
      BY <2>3, <2>4
  <1>6. CASE roll_sync
    <2>1. /\ current_segment_seq' = current_segment_seq /\ up = "up" /\ SyncOk
      BY <1>6 DEF roll_sync
    <2>2. writer'.pc = "roll_create" /\ writer.pc = "roll_sync"
      BY <1>6, RollFacts DEF WriterIs
    <2>3. /\ s \in DOMAIN segments /\ segments'[s].recs = segments[s].recs
          /\ s = current_segment_seq => segments'[s].synced = Len(segments[s].recs)
          /\ s # current_segment_seq => segments'[s].synced = segments[s].synced
      BY <2>1, SyncedFacts
    <2>4. /\ s <= current_segment_seq
          /\ s # current_segment_seq => segments[s].synced = Len(segments[s].recs)
      BY <2>1, <2>2, <2>3 DEF SegmentsInv
    <2> QED
      BY <2>1, <2>2, <2>3, <2>4
  <1>7. ASSUME up = "up", current_segment_seq' = current_segment_seq, s \in DOMAIN segments,
               s # current_segment_seq => /\ segments'[s].recs = segments[s].recs
                                          /\ segments'[s].synced = segments[s].synced,
               ~Early(writer'.pc), writer.pc \in {"roll_header", "stopped"} => writer'.pc = "stopped"
        PROVE  /\ s <= current_segment_seq' \/ writer'.pc \in {"roll_header", "stopped"}
               /\ (s = current_segment_seq' + 1 /\ writer'.pc = "roll_header") =>
                    segments'[s].recs = <<>>
               /\ (s # current_segment_seq' \/ Early(writer'.pc)) =>
                    segments'[s].synced = Len(segments'[s].recs)
    <2>1. s <= current_segment_seq \/ writer'.pc = "stopped"
      BY <1>7 DEF SegmentsInv
    <2>2. s # current_segment_seq => segments[s].synced = Len(segments[s].recs)
      BY <1>7 DEF SegmentsInv
    <2> QED
      BY <1>7, <2>1, <2>2
  <1>8. CASE write_all
    <2>1. current_segment_seq' = current_segment_seq /\ up = "up"
      BY <1>8 DEF write_all
    <2>2. writer'.pc = "index" /\ writer.pc = "write"
      BY <1>8, RollFacts DEF WriterIs
    <2> QED
      BY <1>7, <1>8, <2>1, <2>2, WrittenFacts
  <1>9. CASE writer_stops
    <2>1. current_segment_seq' = current_segment_seq /\ up = "up"
      BY <1>9 DEF writer_stops
    <2>2. writer'.pc = "stopped"
      BY <1>9, RollFacts DEF WriterIs
    <2>3. SameSegments
      BY <1>9, TornFacts
    <2> QED
      BY <1>7, <2>1, <2>2, <2>3 DEF SameSegments
  <1>10. CASE recv \/ collect_batch \/ index_batch \/ maybe_sync
    <2>1. current_segment_seq' = current_segment_seq /\ up = "up" /\ segments' = segments
      BY <1>10 DEF recv, collect_batch, index_batch, maybe_sync
    <2>2. ~Early(writer'.pc) /\ writer.pc \notin {"roll_header", "stopped"}
      BY <1>10, RecvFacts, CollectFacts, BatchFacts DEF WriterIs
    <2> QED
      BY <1>7, <2>1, <2>2
  <1>11. CASE sync_batch \/ sync_flush
    <2>1. current_segment_seq' = current_segment_seq /\ up = "up" /\ (SyncOk \/ segments' = segments)
      BY <1>11 DEF sync_batch, sync_flush, SyncErr
    <2>2. ~Early(writer'.pc) /\ writer.pc \notin {"roll_header", "stopped"}
      BY <1>11, BatchFacts DEF WriterIs
    <2>3. /\ s \in DOMAIN segments
          /\ s # current_segment_seq => /\ segments'[s].recs = segments[s].recs
                                        /\ segments'[s].synced = segments[s].synced
      BY <2>1, SyncedFacts
    <2> QED
      BY <1>7, <2>1, <2>2, <2>3
  <1>12. up = "up" \/ open_with_config
    BY UpFacts DEF crash
  <1>13. ~crash
    BY DEF crash
  <1> QED
    BY <1>1, <1>2, <1>3, <1>4, <1>5, <1>6, <1>8, <1>9, <1>10, <1>11, <1>12, <1>13, FrameFacts
    DEF WriterStep

-----------------------------------------------------------------------------
(* The ids.                                                                *)

LEMMA PresentFacts ==
  ASSUME Types
  PROVE  \A a : a \in Present <=>
           a \in Appends /\ \/ callers[a] \in {"built", "queued"}
                            \/ \E s \in DOMAIN segments : Holds(s, a)
                            \/ a \in ToSet(writer.batch)
                            \/ \E i \in 1 .. Len(channel) : channel[i] = <<"record", a>>
  <1>1. ToSet(writer.batch) \subseteq Appends
    BY ElementFacts DEF Types, Writer
  <1>2. \A m : m \in ToSet(channel) <=> \E i \in 1 .. Len(channel) : channel[i] = m
    BY ElementFacts DEF Types
  <1>3. \A a : a \in Underway <=>
          a \in Appends /\ (\/ a \in ToSet(writer.batch)
                            \/ \E i \in 1 .. Len(channel) : channel[i] = <<"record", a>>)
    BY <1>1, <1>2 DEF Underway
  <1>4. \A a : a \in Stored <=> a \in Appends /\ \E s \in DOMAIN segments : Holds(s, a)
    BY StoredFacts DEF Holds
  <1> QED
    BY <1>3, <1>4 DEF Present

\* A record is present from build_request on.
LEMMA PresentStep ==
  ASSUME Types, Bounded, WriterInv, Types', [Next]_vars, NEW a \in Present'
  PROVE  a \in Appends /\ (a \in Present \/ build_request(a))
  <1>0. /\ a \in Appends
        /\ \/ callers'[a] \in {"built", "queued"}
           \/ \E s \in DOMAIN segments' : Holds(s, a)'
           \/ a \in ToSet(writer'.batch)
           \/ \E i \in 1 .. Len(channel') : channel'[i] = <<"record", a>>
    <2>1. \A m : m \in ToSet(channel') <=> \E i \in 1 .. Len(channel') : channel'[i] = m
      BY ElementFacts DEF Types
    <2>2. CASE a \in Appends /\ callers'[a] \in {"built", "queued"}
      BY <2>2
    <2>3. CASE a \in Stored'
      <3>1. PICK s \in DOMAIN segments' : a \in ToSet(segments'[s].recs)
        BY <2>3 DEF Stored
      <3>2. segments'[s].recs \in Seq(Appends)
        BY DEF Types, SegmentsType, Segment
      <3>3. a \in Appends
        BY <3>1, <3>2, ElementFacts
      <3> QED
        BY <3>1, <3>3 DEF Holds
    <2>4. CASE a \in ToSet(writer'.batch)
      <3>1. a \in Appends
        BY <2>4, ElementFacts DEF Types, Writer
      <3> QED
        BY <2>4, <3>1
    <2>5. CASE a \in Appends /\ <<"record", a>> \in ToSet(channel')
      BY <2>1, <2>5
    <2> QED
      BY <2>2, <2>3, <2>4, <2>5 DEF Present, Underway
  <1>1. CASE callers'[a] \in {"built", "queued"}
    BY <1>0, <1>1, CallersFacts, PresentFacts
  <1>2. CASE a \in ToSet(writer.batch)
    BY <1>0, <1>2, PresentFacts
  <1>3. CASE \E s \in DOMAIN segments' : Holds(s, a)'
    BY <1>0, <1>2, <1>3, HoldsFacts, PresentFacts DEF Holds
  <1>4. CASE \E i \in 1 .. Len(channel) : channel[i] = <<"record", a>>
    BY <1>0, <1>4, PresentFacts
  <1>5. CASE a \in ToSet(writer'.batch)
    <2>1. CASE channel # <<>> /\ Head(channel) = <<"record", a>>
      <3>1. 1 \in 1 .. Len(channel) /\ channel[1] = <<"record", a>>
        BY <2>1, TailFacts DEF Types
      <3> QED
        BY <1>4, <3>1
    <2> QED
      BY <1>2, <1>5, <2>1, BatchGrows
  <1>6. CASE \E i \in 1 .. Len(channel') : channel'[i] = <<"record", a>>
    <2>1. PICK i \in 1 .. Len(channel') : channel'[i] = <<"record", a>>
      BY <1>6
    <2>2. CASE callers[a] = "built"
      BY <1>0, <2>2, PresentFacts
    <2> QED
      BY <1>4, <2>1, <2>2, ChannelMoves
  <1> QED
    BY <1>0, <1>1, <1>3, <1>5, <1>6

LEMMA IdsStep ==
  ASSUME Types, Bounded, Types', ClosedInv, WriterInv, PlaceInv, FreshInv, IdsUnique, [Next]_vars
  PROVE  FreshInv' /\ IdsUnique'
  <1>0. /\ next_id \in Nat /\ ids \in [Appends -> Nat] /\ ids' \in [Appends -> Nat]
        /\ callers \in [Appends -> {"idle", "built", "queued", "accepted", "ok", "err"}]
    BY DEF Types
  <1>1. ASSUME up' = "up", NEW a \in Present' PROVE ids'[a] < next_id'
    <2>1. a \in Appends /\ (a \in Present \/ build_request(a))
      BY PresentStep
    <2>2. CASE open_with_config
      <3>1. ids' = ids /\ up = "down"
        BY <2>2 DEF open_with_config
      <3>2. a \in Present
        BY <2>1, <3>1 DEF build_request
      <3>3. writer.batch = <<>> /\ channel = <<>> /\ callers[a] \notin {"built", "queued"}
        BY <2>1, <3>1 DEF ClosedInv, WriterInv
      <3>4. Len(channel) = 0
        BY <3>3
      <3>5. \E s \in DOMAIN segments : Holds(s, a)
        BY <3>2, <3>3, <3>4, PresentFacts, NoElements
      <3>6. a \in Stored
        BY <3>5, StoredFacts DEF Holds
      <3> QED
        BY <2>2, <3>1, <3>6, RebuiltFacts
    <2>3. CASE ~open_with_config
      <3>1. up = "up"
        BY <1>1, <2>3, UpFacts DEF crash
      <3>2. next_id' \in {next_id, next_id + 1}
        BY <2>3
        DEF Next, WriterStep, CompactorStep, vars, build_request, send_request, flush, recv,
            collect_batch, roll_sync, roll_create, roll_header, write_all, index_batch,
            maybe_sync, sync_batch, sync_flush, writer_stops, compact_begin, compact_index,
            compact_list, compact_delete, compact_end, compact_fails, crash, open_fails
      <3>3. CASE build_request(a)
        <4>1. ids'[a] = next_id /\ next_id' = next_id + 1
          BY <1>0, <2>1, <3>3 DEF build_request
        <4> QED
          BY <1>0, <4>1
      <3>4. CASE ~build_request(a)
        <4>1. ids'[a] = ids[a] /\ ids[a] < next_id
          BY <2>1, <3>1, <3>4, CallersFacts DEF FreshInv
        <4> QED
          BY <1>0, <2>1, <3>2, <4>1
      <3> QED
        BY <3>3, <3>4
    <2> QED
      BY <2>2, <2>3
  <1>2. ASSUME NEW a \in Present', NEW b \in Present', ids'[a] = ids'[b] PROVE a = b
    <2>1. /\ a \in Appends /\ (a \in Present \/ build_request(a))
          /\ b \in Appends /\ (b \in Present \/ build_request(b))
      BY PresentStep
    <2>2. ASSUME NEW x \in Appends, NEW y \in Appends, build_request(x), y \in Present, x # y
          PROVE  ids'[x] # ids'[y]
      <3>1. ids' = [ids EXCEPT ![x] = next_id] /\ up = "up"
        BY <2>2 DEF build_request
      <3>2. ids'[x] = next_id /\ ids'[y] = ids[y]
        BY <1>0, <2>2, <3>1
      <3>3. ids[y] < next_id /\ ids[y] \in Nat
        BY <1>0, <2>2, <3>1 DEF FreshInv
      <3> QED
        BY <1>0, <3>2, <3>3
    <2>3. ASSUME NEW x \in Appends, NEW y \in Appends, build_request(x), build_request(y), x # y
          PROVE  FALSE
      <3>1. callers'[y] = "idle"
        <4>1. callers' = [callers EXCEPT ![x] = "built"] /\ callers[y] = "idle"
          BY <2>3 DEF build_request
        <4> QED
          BY <1>0, <2>3, <4>1
      <3>2. callers'[y] = "built"
        BY <1>0, <2>3 DEF build_request
      <3> QED
        BY <3>1, <3>2
    <2>4. CASE ~build_request(a) /\ ~build_request(b)
      <3>1. ids'[a] = ids[a] /\ ids'[b] = ids[b]
        BY <2>1, <2>4, CallersFacts
      <3>2. a \in Present /\ b \in Present /\ ids[a] = ids[b]
        BY <1>2, <2>1, <2>4, <3>1
      <3> QED
        BY <3>2 DEF IdsUnique, Present
    <2> QED
      BY <1>2, <2>1, <2>2, <2>3, <2>4
  <1>3. FreshInv'
    BY <1>1 DEF FreshInv
  <1>4. IdsUnique'
    BY <1>2 DEF IdsUnique, Present
  <1> QED
    BY <1>3, <1>4

-----------------------------------------------------------------------------
(* The index.                                                              *)

\* While the log is open a file only grows, and a new one is empty.
LEMMA FilesGrow ==
  ASSUME Types, [Next]_vars, ~crash, ~open_with_config, NEW s \in DOMAIN segments'
  PROVE  \/ s = current_segment_seq + 1 /\ roll_create
         \/ /\ s \in DOMAIN segments
            /\ Len(segments[s].recs) \in Nat /\ Len(segments'[s].recs) \in Nat
            /\ Len(segments[s].recs) <= Len(segments'[s].recs)
            /\ \A i \in 1 .. Len(segments[s].recs) : segments'[s].recs[i] = segments[s].recs[i]
  <1>0. \A q \in DOMAIN segments : segments[q].recs \in Seq(Appends) /\ Len(segments[q].recs) \in Nat
    BY DEF Types, SegmentsType, Segment
  <1>1. CASE s \in DOMAIN segments /\ segments'[s].recs = segments[s].recs
    BY <1>0, <1>1
  <1>2. CASE write_all
    <2>1. s \in DOMAIN segments
      BY <1>2, WrittenFacts
    <2>2. PICK b \in Seq(Appends) : b = writer.batch
      BY DEF Types, Writer
    <2>3. PICK r \in Seq(Appends) : r = segments[s].recs
      BY <1>0, <2>1
    <2>4. CASE s = current_segment_seq
      <3>1. segments'[s].recs = r \o b
        BY <1>2, <2>1, <2>2, <2>3, <2>4, WrittenFacts
      <3>2. /\ Len(r) \in Nat /\ Len(r \o b) \in Nat /\ Len(r) <= Len(r \o b)
            /\ \A i \in 1 .. Len(r) : (r \o b)[i] = r[i]
        OBVIOUS
      <3>3. PICK t : t = r \o b
        OBVIOUS
      <3> QED
        BY <2>1, <2>3, <3>1, <3>2
    <2>5. CASE s # current_segment_seq
      BY <1>1, <1>2, <2>1, <2>5, WrittenFacts
    <2> QED
      BY <2>4, <2>5
  <1>3. CASE roll_create
    BY <1>1, <1>3, CreatedFacts
  <1>4. CASE compact_delete
    BY <1>1, <1>4, DeletedFacts
  <1>5. CASE SameRecords
    BY <1>1, <1>5 DEF SameRecords
  <1> QED
    BY <1>2, <1>3, <1>4, <1>5, RecordsStep

\* While the log is open the index gains the batch and loses what compact_end drops.
LEMMA IndexMoves ==
  ASSUME Types, [Next]_vars, ~crash, ~open_with_config
  PROVE  \/ index_batch
         \/ /\ \A id \in DOMAIN index' : id \in DOMAIN index /\ index'[id] = index[id]
            /\ \A id \in DOMAIN index :
                 \/ id \in DOMAIN index'
                 \/ compactor.visited = compactor.to_delete /\ index[id].seq \in compactor.to_delete
  <1>1. CASE compact_end
    BY <1>1 DEF compact_end, Drop
  <1> QED
    BY <1>1
    DEF Next, WriterStep, CompactorStep, vars, build_request, send_request, flush, recv,
        collect_batch, roll_sync, roll_create, roll_header, write_all, maybe_sync, sync_batch,
        sync_flush, writer_stops, compact_begin, compact_index, compact_list, compact_delete,
        compact_fails, open_fails

\* A record that is in a file keeps its id.
LEMMA HeldId ==
  ASSUME Types, PlaceInv, [Next]_vars, NEW a \in Appends, NEW s \in DOMAIN segments, Holds(s, a)
  PROVE  ids'[a] = ids[a]
  <1>1. callers[a] # "idle"
    BY DEF PlaceInv
  <1> QED
    BY <1>1, CallersFacts

LEMMA EntriesStep ==
  ASSUME Types, Bounded, ClosedInv, WriterInv, OffsetInv, PlaceInv, FreshInv, IndexInv,
         [Next]_vars, up = "up", ~crash, NEW id \in DOMAIN index'
  PROVE  id < next_id' /\ index'[id].seq <= current_segment_seq' /\ EntryOk(id)'
  <1>0. /\ next_id \in Nat /\ current_segment_seq \in Nat /\ DOMAIN index \subseteq Nat
        /\ index \in [DOMAIN index -> [seq : Nat, pos : Nat]] /\ ids \in [Appends -> Nat]
    BY DEF Types, IndexType
  <1>1. ~open_with_config
    BY DEF open_with_config
  <1>2. current_segment_seq' \in {current_segment_seq, current_segment_seq + 1}
    BY <1>1, CurrentFacts
  <1>3. next_id' \in {next_id, next_id + 1}
    BY <1>1
    DEF Next, WriterStep, CompactorStep, vars, build_request, send_request, flush, recv,
        collect_batch, roll_sync, roll_create, roll_header, write_all, index_batch,
        maybe_sync, sync_batch, sync_flush, writer_stops, compact_begin, compact_index,
        compact_list, compact_delete, compact_end, compact_fails, crash, open_fails
  <1>4. CASE id \in DOMAIN index /\ index'[id] = index[id]
    <2>1. PICK q \in Nat : q = index[id].seq
      BY <1>0, <1>4
    <2>2. PICK p \in Nat : p = index[id].pos
      BY <1>0, <1>4
    <2>3. /\ id < next_id /\ q <= current_segment_seq
          /\ q \in DOMAIN segments => /\ p \in 1 .. Len(segments[q].recs)
                                      /\ ids[segments[q].recs[p]] = id
      BY <1>4, <2>1, <2>2 DEF IndexInv, EntryOk
    <2>4. id < next_id' /\ q <= current_segment_seq'
      BY <1>0, <1>2, <1>3, <1>4, <2>3
    <2>5. ASSUME q \in DOMAIN segments'
          PROVE  p \in 1 .. Len(segments'[q].recs) /\ ids'[segments'[q].recs[p]] = id
      <3>1. q # current_segment_seq + 1
        BY <1>0, <2>3
      <3>2. /\ q \in DOMAIN segments
            /\ Len(segments[q].recs) \in Nat /\ Len(segments'[q].recs) \in Nat
            /\ Len(segments[q].recs) <= Len(segments'[q].recs)
            /\ \A i \in 1 .. Len(segments[q].recs) : segments'[q].recs[i] = segments[q].recs[i]
        BY <1>1, <2>5, <3>1, FilesGrow
      <3>3. /\ p \in 1 .. Len(segments[q].recs) /\ p \in 1 .. Len(segments'[q].recs)
            /\ segments'[q].recs[p] = segments[q].recs[p]
        BY <2>3, <3>2
      <3>4. PICK a : a = segments[q].recs[p]
        OBVIOUS
      <3>5. a \in Appends /\ Holds(q, a)
        BY <3>2, <3>3, <3>4, StoredFacts DEF Holds
      <3>6. ids'[a] = ids[a]
        BY <3>2, <3>5, HeldId
      <3> QED
        BY <2>3, <3>2, <3>3, <3>4, <3>6
    <2> QED
      BY <1>4, <2>1, <2>2, <2>4, <2>5 DEF EntryOk
  <1>5. CASE index_batch
    <2>1. PICK new \in SUBSET Nat :
            /\ new = {ids[a] : a \in ToSet(writer.batch)}
            /\ DOMAIN index' = DOMAIN index \cup new
            /\ \A i \in DOMAIN index \ new : index'[i] = index[i]
            /\ \A i \in new :
                 /\ index'[i].seq = current_segment_seq
                 /\ \E k \in 1 .. Len(writer.batch) :
                      index'[i].pos = writer.offset + k /\ ids[writer.batch[k]] = i
      BY <1>5, IndexedFacts
    <2>2. CASE id \notin new
      BY <1>4, <2>1, <2>2
    <2>3. CASE id \in new
      <3>1. /\ segments' = segments /\ ids' = ids /\ next_id' = next_id
            /\ current_segment_seq' = current_segment_seq /\ writer.pc = "index"
        BY <1>5 DEF index_batch
      <3>2. PICK k \in 1 .. Len(writer.batch) :
              index'[id].pos = writer.offset + k /\ ids[writer.batch[k]] = id
        BY <2>1, <2>3
      <3>3. /\ writer.batch[k] \in ToSet(writer.batch) /\ writer.batch[k] \in Appends
            /\ Len(writer.batch) \in Nat /\ writer.offset \in Nat
        BY ElementFacts DEF Types, Writer
      <3>4. id < next_id
        BY <3>2, <3>3, PresentFacts DEF FreshInv
      <3>5. ASSUME Linked
            PROVE  /\ index'[id].pos \in 1 .. Len(segments[current_segment_seq].recs)
                   /\ ids[segments[current_segment_seq].recs[index'[id].pos]] = id
        <4>1. /\ Len(segments[current_segment_seq].recs) = writer.offset + Len(writer.batch)
              /\ segments[current_segment_seq].recs[writer.offset + k] = writer.batch[k]
          BY <3>1, <3>5 DEF OffsetInv, Active
        <4>2. writer.offset + k \in 1 .. writer.offset + Len(writer.batch)
          BY <3>3
        <4> QED
          BY <3>2, <4>1, <4>2
      <3>6. index'[id].seq = current_segment_seq
        BY <2>1, <2>3
      <3> QED
        BY <1>0, <3>1, <3>4, <3>5, <3>6 DEF EntryOk, Linked
    <2> QED
      BY <2>2, <2>3
  <1> QED
    BY <1>1, <1>4, <1>5, IndexMoves

LEMMA IndexedStep ==
  ASSUME Types, Bounded, WriterInv, PlaceInv, IdsUnique, IndexInv, CompactInv,
         [Next]_vars, up = "up", ~crash, NEW s \in DOMAIN segments', NEW a \in Appends, Holds(s, a)'
  PROVE  Indexed(s, a)'
  <1>1. ~open_with_config
    BY DEF open_with_config
  <1>2. CASE write_all /\ s = current_segment_seq /\ a \in ToSet(writer.batch)
    <2>1. /\ writer'.pc = "index" /\ writer'.batch = writer.batch
          /\ current_segment_seq' = current_segment_seq
      BY <1>2, RollFacts DEF WriterIs, write_all
    <2> QED
      BY <1>2, <2>1 DEF Indexed
  <1>3. CASE Holds(s, a)
    <2>0. s \in DOMAIN segments /\ a \in ToSet(segments[s].recs)
      BY <1>3 DEF Holds
    <2>1. ids'[a] = ids[a]
      BY <1>3, <2>0, HeldId
    <2>2. Indexed(s, a)
      BY <2>0 DEF IndexInv
    <2>3. CASE index_batch
      <3>1. PICK new \in SUBSET Nat :
              /\ new = {ids[b] : b \in ToSet(writer.batch)}
              /\ DOMAIN index' = DOMAIN index \cup new
              /\ \A i \in DOMAIN index \ new : index'[i] = index[i]
              /\ \A i \in new : index'[i].seq = current_segment_seq
        BY <2>3, IndexedFacts
      <3>2. CASE ids[a] \in new
        <4>1. PICK b \in ToSet(writer.batch) : ids[b] = ids[a]
          BY <3>1, <3>2
        <4>2. b \in Appends
          BY ElementFacts DEF Types, Writer
        <4>3. a \in Present /\ b \in Present
          BY <1>3, <2>0, <4>1, <4>2, PresentFacts
        <4>4. a = b
          BY <4>1, <4>3 DEF IdsUnique, Present
        <4>5. s = current_segment_seq
          BY <1>3, <2>0, <4>4 DEF PlaceInv
        <4> QED
          BY <2>1, <3>1, <3>2, <4>5 DEF Indexed
      <3>3. CASE ids[a] \notin new
        <4>1. a \notin ToSet(writer.batch)
          BY <3>1, <3>3
        <4>2. ids[a] \in DOMAIN index /\ index[ids[a]].seq = s
          BY <2>2, <4>1 DEF Indexed
        <4> QED
          BY <2>1, <3>1, <3>3, <4>2 DEF Indexed
      <3> QED
        BY <3>2, <3>3
    <2>4. CASE ~index_batch /\ ids[a] \in DOMAIN index /\ index[ids[a]].seq = s
      <3>1. ~ (compactor.visited = compactor.to_delete /\ s \in compactor.to_delete)
        BY <2>0 DEF CompactInv
      <3>2. ids[a] \in DOMAIN index' /\ index'[ids[a]] = index[ids[a]]
        BY <1>1, <2>4, <3>1, IndexMoves
      <3> QED
        BY <2>1, <2>4, <3>2 DEF Indexed
    <2>5. CASE ~index_batch /\ writer.pc = "index" /\ s = current_segment_seq
               /\ a \in ToSet(writer.batch)
      <3>1. UNCHANGED <<writer, current_segment_seq>>
        BY <1>1, <2>5, FrameFacts
        DEF WriterStep, recv, collect_batch, roll_sync, roll_create, roll_header, write_all,
            maybe_sync, sync_batch, sync_flush, writer_stops
      <3> QED
        BY <2>5, <3>1 DEF Indexed
    <2> QED
      BY <2>2, <2>3, <2>4, <2>5 DEF Indexed
  <1> QED
    BY <1>2, <1>3, HoldsFacts

LEMMA OpenedIndex ==
  ASSUME Types, Bounded, PlaceInv, IdsUnique, Types', open_with_config, [Next]_vars
  PROVE  IndexInv'
  <1>0. ids' = ids /\ ids \in [Appends -> Nat] /\ current_segment_seq' \in Nat
    BY DEF open_with_config, Types
  <1>1. \A id \in DOMAIN index' : id < next_id'
    BY RebuiltFacts
  <1>2. ASSUME NEW id \in DOMAIN index' PROVE segments' = segments
    BY RebuiltFacts, OpenedFacts
  <1>3. ASSUME NEW id \in DOMAIN index' PROVE index'[id].seq <= current_segment_seq' /\ EntryOk(id)'
    <2>1. /\ index'[id].seq \in DOMAIN segments
          /\ index'[id].pos \in 1 .. Len(segments[index'[id].seq].recs)
          /\ ids[segments[index'[id].seq].recs[index'[id].pos]] = id
      BY RebuiltFacts
    <2>2. index'[id].seq <= current_segment_seq'
      BY <2>1, OpenedFacts
    <2> QED
      BY <1>0, <1>2, <2>1, <2>2 DEF EntryOk
  <1>4. ASSUME NEW s \in DOMAIN segments', NEW a \in ToSet(segments'[s].recs)
        PROVE  Indexed(s, a)'
    <2>1. ~write_all
      BY DEF open_with_config, write_all
    <2>2. Holds(s, a)
      BY <2>1, HoldsFacts DEF Holds
    <2>3. s \in DOMAIN segments /\ a \in Appends /\ a \in Stored
      BY <2>2, StoredFacts DEF Holds
    <2>4. ids[a] \in DOMAIN index'
      BY <2>3, RebuiltFacts
    <2>5. PICK t \in DOMAIN segments :
            /\ t = index'[ids[a]].seq
            /\ \E p \in 1 .. Len(segments[t].recs) : ids[segments[t].recs[p]] = ids[a]
      BY <2>4, RebuiltFacts
    <2>p. PICK p \in 1 .. Len(segments[t].recs) : ids[segments[t].recs[p]] = ids[a]
      BY <2>5
    <2>6. PICK b : ids[b] = ids[a] /\ b = segments[t].recs[p]
      BY <2>p
    <2>7. Holds(t, b) /\ b \in Appends
      BY <2>6, StoredFacts DEF Holds
    <2>8. a \in Present /\ b \in Present
      BY <2>2, <2>3, <2>5, <2>7, PresentFacts
    <2>9. a = b
      BY <2>6, <2>8 DEF IdsUnique, Present
    <2>10. s = t
      BY <2>2, <2>3, <2>7, <2>9 DEF PlaceInv
    <2> QED
      BY <1>0, <2>4, <2>5, <2>10 DEF Indexed
  <1> QED
    BY <1>1, <1>3, <1>4 DEF IndexInv

LEMMA IndexStep ==
  ASSUME Types, Bounded, ClosedInv, WriterInv, OffsetInv, PlaceInv, FreshInv, IdsUnique, IndexInv,
         CompactInv, Types', [Next]_vars
  PROVE  IndexInv'
  <1>1. CASE open_with_config
    BY <1>1, OpenedIndex
  <1>2. CASE up' # "up"
    BY <1>2 DEF IndexInv
  <1>3. CASE up = "up" /\ up' = "up"
    <2>1. ~crash
      BY <1>3 DEF crash
    <2>2. \A s \in DOMAIN segments' : \A a \in ToSet(segments'[s].recs) : a \in Appends /\ Holds(s, a)'
      <3>1. \A s \in DOMAIN segments' : segments'[s].recs \in Seq(Appends)
        BY DEF Types, SegmentsType, Segment
      <3> QED
        BY <3>1, ElementFacts DEF Holds
    <2>3. \A s \in DOMAIN segments' : \A a \in ToSet(segments'[s].recs) : Indexed(s, a)'
      BY <1>3, <2>1, <2>2, IndexedStep
    <2>4. \A id \in DOMAIN index' :
            id < next_id' /\ index'[id].seq <= current_segment_seq' /\ EntryOk(id)'
      BY <1>3, <2>1, EntriesStep
    <2> QED
      BY <2>3, <2>4 DEF IndexInv
  <1> QED
    BY <1>1, <1>2, <1>3, UpFacts DEF crash

-----------------------------------------------------------------------------
(* The compactor.                                                          *)

Planned == compactor.visited \cup compactor.to_delete \cup DOMAIN compactor.max_id

LEMMA CompactStep ==
  ASSUME Types, Bounded, ClosedInv, WriterInv, SegmentsInv, PlaceInv, IndexInv, CompactInv,
         Types', [Next]_vars
  PROVE  CompactInv'
  <1>0. /\ current_segment_seq \in Nat /\ current_segment_seq' \in Nat
        /\ \A s \in DOMAIN segments : s \in Nat /\ s <= current_segment_seq + 1
        /\ compactor.active \in Nat /\ compactor.visited \subseteq Nat
        /\ compactor.to_delete \subseteq Nat /\ DOMAIN compactor.max_id \subseteq Nat
        /\ compactor.visited \subseteq compactor.to_delete
    BY DEF Types, SegmentsType, CompactorType
  <1>1. CASE UNCHANGED compactor /\ ~crash /\ ~compact_delete
    <2>1. CASE open_with_config
      <3>1. compactor.pc = "idle"
        BY <2>1 DEF ClosedInv, open_with_config
      <3>2. /\ compactor.visited = {} /\ compactor.to_delete = {}
            /\ DOMAIN compactor.max_id = {}
        BY <3>1 DEF CompactInv
      <3> QED
        BY <1>1, <3>1, <3>2 DEF CompactInv
    <2>2. CASE ~open_with_config
      <3>1. \/ current_segment_seq' = current_segment_seq /\ ~roll_header
            \/ roll_header /\ current_segment_seq' = current_segment_seq + 1
        BY <2>2, CurrentFacts
      <3>2. ASSUME NEW s \in Planned
            PROVE  \/ s <= current_segment_seq'
                   \/ s = current_segment_seq' + 1 /\ writer'.pc \in {"roll_header", "stopped"}
        <4>1. \/ s <= current_segment_seq
              \/ s = current_segment_seq + 1 /\ writer.pc \in {"roll_header", "stopped"}
          BY DEF CompactInv, Planned
        <4>2. s \in Nat
          BY <1>0 DEF Planned
        <4>3. ASSUME writer.pc \in {"roll_header", "stopped"}, ~roll_header
              PROVE  writer'.pc \in {"roll_header", "stopped"}
          <5>1. CASE writer_stops
            BY <5>1, RollFacts DEF WriterIs
          <5>2. CASE UNCHANGED writer
            BY <4>3, <5>2
          <5> QED
            BY <1>1, <2>2, <4>3, <5>1, <5>2, FrameFacts
            DEF WriterStep, recv, collect_batch, roll_sync, roll_create, write_all, index_batch,
                maybe_sync, sync_batch, sync_flush
        <4>4. CASE current_segment_seq' = current_segment_seq /\ ~roll_header
          BY <4>1, <4>3, <4>4
        <4>5. CASE current_segment_seq' = current_segment_seq + 1
          BY <1>0, <4>1, <4>2, <4>5
        <4> QED
          BY <3>1, <4>4, <4>5
      <3>3. compactor.visited \cap DOMAIN segments' = {}
        <4>1. SUFFICES ASSUME NEW s \in compactor.visited, s \in DOMAIN segments' PROVE FALSE
          OBVIOUS
        <4>2. s \notin DOMAIN segments
          BY DEF CompactInv
        <4>3. s = current_segment_seq + 1 /\ roll_create
          BY <1>1, <2>2, <4>1, <4>2, FilesGrow
        <4>4. writer.pc = "roll_create"
          BY <4>3 DEF roll_create
        <4> QED
          BY <1>0, <4>1, <4>3, <4>4 DEF CompactInv
      <3>4. compactor.pc # "idle" => compactor.active <= current_segment_seq'
        BY <1>0, <3>1 DEF CompactInv
      <3>5. ASSUME compactor.pc \in {"list", "delete"}, NEW s \in DOMAIN segments',
                   NEW a \in ToSet(segments'[s].recs), s < compactor.active
            PROVE  s \in DOMAIN compactor.max_id /\ ids'[a] <= compactor.max_id[s]
        <4>1. s # current_segment_seq
          BY <1>0, <3>5 DEF CompactInv
        <4>2. Holds(s, a)
          BY <4>1, HoldsFacts DEF Holds
        <4>3. s \in DOMAIN segments /\ a \in ToSet(segments[s].recs) /\ a \in Appends
          BY <4>2, StoredFacts DEF Holds
        <4>4. ids'[a] = ids[a]
          BY <4>2, <4>3, HeldId
        <4> QED
          BY <3>5, <4>3, <4>4 DEF CompactInv
      <3> QED
        BY <1>1, <3>2, <3>3, <3>4, <3>5 DEF CompactInv, Planned
    <2> QED
      BY <2>1, <2>2
  <1>2. ASSUME NEW t \in Thresholds, compact_begin(t) PROVE CompactInv'
    <2>1. /\ compactor.pc = "idle" /\ UNCHANGED <<segments, writer, current_segment_seq>>
      BY <1>2 DEF compact_begin
    <2>2. /\ compactor.visited = {} /\ compactor.to_delete = {} /\ DOMAIN compactor.max_id = {}
      BY <2>1 DEF CompactInv
    <2> QED
      BY <1>0, <1>2, <2>1, <2>2, CompactorFacts DEF CompactInv
  <1>3. CASE compact_index
    <2>1. /\ compactor.pc = "index" /\ UNCHANGED <<segments, writer, current_segment_seq, ids>>
          /\ up = "up"
      BY <1>3 DEF compact_index
    <2>2. /\ compactor'.pc = "list" /\ compactor'.active = compactor.active
          /\ compactor'.max_id = MaxIdPerSegment /\ compactor'.visited = {}
          /\ compactor'.to_delete = {}
      BY <1>3, <2>1, CompactorFacts DEF CompactInv
    <2>3. compactor.active <= current_segment_seq
      BY <2>1 DEF CompactInv
    <2>4. ASSUME NEW s \in DOMAIN segments, NEW a \in ToSet(segments[s].recs), s < compactor.active
          PROVE  s \in DOMAIN MaxIdPerSegment /\ ids[a] <= MaxIdPerSegment[s]
      <3>1. s # current_segment_seq
        BY <1>0, <2>3, <2>4
      <3>2. ids[a] \in DOMAIN index /\ index[ids[a]].seq = s
        BY <2>1, <3>1 DEF IndexInv, Indexed
      <3> QED
        BY <3>2, MaxIdFacts
    <2>5. \A s \in DOMAIN MaxIdPerSegment : s <= current_segment_seq
      BY <2>1, MaxIdFacts DEF IndexInv
    <2> QED
      BY <2>1, <2>2, <2>3, <2>4, <2>5 DEF CompactInv
  <1>4. CASE compact_list
    <2>1. /\ compactor.pc = "list" /\ UNCHANGED <<segments, writer, current_segment_seq, ids>>
          /\ up = "up"
      BY <1>4 DEF compact_list
    <2>2. /\ compactor'.pc = "delete" /\ compactor'.active = compactor.active
          /\ compactor'.max_id = compactor.max_id /\ compactor'.visited = {}
          /\ compactor'.to_delete = ToDelete(compactor)
          /\ compactor'.threshold = compactor.threshold
      BY <1>4, <2>1, CompactorFacts DEF CompactInv
    <2>3. \A s \in ToDelete(compactor) : s \in DOMAIN compactor.max_id \/ s \in DOMAIN segments
      BY DEF ToDelete
    <2>4. \A s \in ToDelete(compactor) \cap DOMAIN compactor.max_id :
            compactor.max_id[s] <= compactor.threshold
      BY DEF ToDelete
    <2>5. \A s \in DOMAIN segments :
            \/ s <= current_segment_seq
            \/ s = current_segment_seq + 1 /\ writer.pc \in {"roll_header", "stopped"}
      BY <1>0, <2>1 DEF SegmentsInv
    <2>6. \A s \in DOMAIN compactor.max_id :
            \/ s <= current_segment_seq
            \/ s = current_segment_seq + 1 /\ writer.pc \in {"roll_header", "stopped"}
      BY DEF CompactInv
    <2> QED
      BY <2>1, <2>2, <2>3, <2>4, <2>5, <2>6 DEF CompactInv
  <1>5. CASE compact_delete
    <2>1. /\ UNCHANGED <<writer, current_segment_seq, ids>> /\ compactor.pc = "delete"
      BY <1>5 DEF compact_delete
    <2>2. PICK seq \in Nat :
            /\ seq \in compactor.to_delete
            /\ DOMAIN segments' = DOMAIN segments \ {seq}
            /\ \A s \in DOMAIN segments' : segments'[s] = segments[s]
            /\ compactor'.visited = compactor.visited \cup {seq}
            /\ compactor'.to_delete = compactor.to_delete /\ compactor'.pc = "delete"
            /\ compactor'.active = compactor.active /\ compactor'.max_id = compactor.max_id
            /\ compactor'.threshold = compactor.threshold
      BY <1>5, DeletedFacts
    <2>3. compactor'.visited \cap DOMAIN segments' = {}
      BY <2>2 DEF CompactInv
    <2>4. \A s \in DOMAIN segments' : \A a \in ToSet(segments'[s].recs) : s < compactor.active =>
            s \in DOMAIN compactor.max_id /\ ids[a] <= compactor.max_id[s]
      BY <2>1, <2>2 DEF CompactInv
    <2>5. \A s \in compactor'.visited \cup compactor'.to_delete \cup DOMAIN compactor'.max_id :
            s \in compactor.visited \cup compactor.to_delete \cup DOMAIN compactor.max_id
      BY <2>2
    <2> QED
      BY <2>1, <2>2, <2>3, <2>4, <2>5 DEF CompactInv
  <1>6. CASE compactor' = IdleCompactor(compactor.calls)
    <2>1. /\ compactor'.pc = "idle" /\ compactor'.visited = {} /\ compactor'.to_delete = {}
          /\ DOMAIN compactor'.max_id = {}
      BY <1>6, CompactorFacts DEF Types, CompactorType, NoKeys
    <2> QED
      BY <2>1 DEF CompactInv
  <1> QED
    BY <1>1, <1>2, <1>3, <1>4, <1>5, <1>6
    DEF Next, WriterStep, CompactorStep, vars, build_request, send_request, flush, recv,
        collect_batch, roll_sync, roll_create, roll_header, write_all, index_batch, maybe_sync,
        sync_batch, sync_flush, writer_stops, crash, open_with_config, compact_end,
        compact_fails, open_fails

-----------------------------------------------------------------------------
(* Flushes.                                                                *)

LEMMA SettledFacts ==
  ASSUME Types
  PROVE  \A a : Settled(a) <=> a \in lost \/ \E s \in DOMAIN segments : Holds(s, a)
  BY StoredFacts DEF Settled, Holds

\* A settled record stays settled until a crash, and a record leaves the batch
\* when it is settled.
LEMMA SettledStep ==
  ASSUME Types, Types', [Next]_vars, ~crash, NEW a, Settled(a)
  PROVE  Settled(a)'
  <1>1. CASE a \in lost
    BY <1>1, HoldsFacts DEF Settled
  <1>2. ASSUME NEW s \in DOMAIN segments, Holds(s, a)
        PROVE  Settled(a)'
    <2>1. CASE a \in lost'
      BY <2>1 DEF Settled
    <2>2. CASE Holds(s, a)'
      BY <2>2 DEF Settled, Stored, Holds
    <2> QED
      BY <1>2, <2>1, <2>2, HoldsFacts
  <1> QED
    BY <1>1, <1>2, SettledFacts

LEMMA BatchSettles ==
  ASSUME Types, Bounded, Types', ClosedInv, WriterInv, BatchInv, [Next]_vars, ~crash,
         NEW a \in ToSet(writer.batch)
  PROVE  a \in ToSet(writer'.batch) \/ Settled(a)'
  <1>0. writer.batch \in Seq(Appends) /\ channel \in Seq(Message)
    BY DEF Types, Writer
  <1>1. writer.batch # <<>>
    BY NoElements
  <1>2. CASE writer'.batch = writer.batch
    BY <1>2
  <1>3. CASE recv
    BY <1>1, <1>3 DEF WriterInv, recv
  <1>4. CASE collect_batch
    <2>1. ASSUME channel # <<>>, Head(channel)[1] = "record",
                 writer'.batch = Append(writer.batch, Head(channel)[2])
          PROVE  a \in ToSet(writer'.batch)
      <3>1. Head(channel)[2] \in Appends
        BY <1>0, <2>1, TailFacts, MessageFacts
      <3> QED
        BY <1>0, <2>1, <3>1, AddedElement
    <2> QED
      BY <1>2, <1>4, <2>1, CollectFacts DEF WriterIs
  <1>5. CASE maybe_sync \/ sync_batch
    <2>1. writer.pc \in {"maybe_sync", "sync"}
      BY <1>5, BatchFacts
    <2>2. a \in lost \/ Holds(current_segment_seq, a)
      BY <2>1 DEF BatchInv
    <2>3. Settled(a)
      BY <2>2, SettledFacts DEF Holds
    <2> QED
      BY <2>3, SettledStep
  <1>6. CASE open_with_config
    BY <1>1, <1>6 DEF open_with_config, ClosedInv, WriterInv
  <1>7. CASE roll_sync \/ roll_create \/ roll_header \/ write_all \/ writer_stops
    BY <1>2, <1>7, RollFacts DEF WriterIs
  <1>8. CASE index_batch \/ sync_flush
    BY <1>2, <1>8, BatchFacts DEF WriterIs
  <1> QED
    BY <1>2, <1>3, <1>4, <1>5, <1>6, <1>7, <1>8, FrameFacts DEF WriterStep

\* A record at the head of the channel that the writer takes is in its batch.
LEMMA HeadTaken ==
  ASSUME Types, recv \/ collect_batch, NEW a, channel # <<>>, Head(channel) = <<"record", a>>
  PROVE  a \in ToSet(writer'.batch)
  <1>0. writer.batch \in Seq(Appends) /\ channel \in Seq(Message)
    BY DEF Types, Writer
  <1>1. Head(channel)[1] = "record" /\ Head(channel)[2] = a /\ a \in Appends
    <2>1. Head(channel) \in Message
      BY <1>0, TailFacts
    <2> QED
      BY <2>1, MessageFacts
  <1>2. CASE recv
    <2>1. writer'.batch = <<a>>
      BY <1>1, <1>2, RecvFacts DEF WriterIs
    <2> QED
      BY <1>1, <2>1, OneElement
  <1>3. CASE collect_batch
    <2>1. writer'.batch = Append(writer.batch, a)
      BY <1>1, <1>3, CollectFacts DEF WriterIs
    <2> QED
      BY <1>0, <1>1, <2>1, AddedElement
  <1> QED
    BY <1>2, <1>3

\* How the state of a flush may change, and the records it covers.
LEMMA FlushMoves ==
  ASSUME Types, [Next]_vars, NEW f \in Flushes
  PROVE  /\ flushes[f] = "sent" => \/ flushes'[f] = "sent" \/ writer_stops \/ crash
                                   \/ sync_flush /\ writer.flush = f
         /\ flushes'[f] = "ok" => flushes[f] = "ok" \/ (sync_flush /\ SyncOk /\ writer.flush = f)
         /\ before'[f] = before[f] \/ (flush(f) /\ flushes[f] = "idle")
  <1>0. flushes \in [Flushes -> {"idle", "sent", "ok", "err"}] /\ before \in [Flushes -> SUBSET Appends]
    BY DEF Types
  <1>1. CASE UNCHANGED <<flushes, before>>
    BY <1>1
  <1>2. ASSUME NEW g \in Flushes, flush(g)
        PROVE  /\ flushes[f] = "sent" => flushes'[f] = "sent"
               /\ flushes'[f] = "ok" => flushes[f] = "ok"
               /\ before'[f] = before[f] \/ (flush(f) /\ flushes[f] = "idle")
    <2>1. CASE f = g
      BY <1>0, <1>2, <2>1 DEF flush
    <2>2. CASE f # g
      BY <1>0, <1>2, <2>2 DEF flush
    <2> QED
      BY <2>1, <2>2
  <1>3. CASE sync_flush
    <2>1. before' = before
      BY <1>3 DEF sync_flush
    <2>2. CASE SyncOk /\ flushes' = [flushes EXCEPT ![writer.flush] = "ok"]
      BY <1>0, <1>3, <2>1, <2>2
    <2>3. CASE flushes' = [flushes EXCEPT ![writer.flush] = "err"]
      BY <1>0, <1>3, <2>1, <2>3
    <2> QED
      BY <1>3, <2>2, <2>3 DEF sync_flush
  <1>4. CASE writer_stops
    BY <1>0, <1>4 DEF writer_stops, DropWaiters
  <1>5. CASE crash
    BY <1>0, <1>5, CrashFacts DEF crash
  <1> QED
    BY <1>1, <1>2, <1>3, <1>4, <1>5
    DEF Next, WriterStep, CompactorStep, vars, build_request, send_request, recv,
        collect_batch, roll_sync, roll_create, roll_header, write_all, index_batch, maybe_sync,
        sync_batch, open_with_config,
        compact_begin, compact_index, compact_list, compact_delete, compact_end, compact_fails,
        open_fails

\* Where the flush in the writer's hands comes from.
LEMMA FlushTaken ==
  ASSUME Types, Bounded, [Next]_vars
  PROVE  /\ \/ writer'.flush = writer.flush /\ ~sync_flush
            \/ writer'.flush = NoFlush
            \/ /\ recv \/ collect_batch
               /\ channel # <<>> /\ channel' = Tail(channel)
               /\ Head(channel) = <<"flush", writer'.flush>> /\ writer'.flush \in Flushes
         /\ (writer.pc = "stopped" /\ ~crash /\ ~open_with_config) => writer' = writer
  <1>0. channel \in Seq(Message)
    BY DEF Types
  <1>1. CASE UNCHANGED writer /\ ~sync_flush
    BY <1>1
  <1>2. ASSUME channel # <<>>, Head(channel)[1] = "flush", writer'.flush = Head(channel)[2]
        PROVE  Head(channel) = <<"flush", writer'.flush>> /\ writer'.flush \in Flushes
    BY <1>0, <1>2, TailFacts, MessageFacts
  <1>3. CASE recv
    <2>1. ~sync_flush
      BY <1>3 DEF recv, sync_flush
    <2> QED
      BY <1>2, <1>3, <2>1, RecvFacts DEF WriterIs
  <1>4. CASE collect_batch
    <2>1. ~sync_flush
      BY <1>4 DEF collect_batch, sync_flush
    <2> QED
      BY <1>2, <1>4, <2>1, CollectFacts DEF WriterIs
  <1>5. CASE roll_sync \/ roll_create \/ roll_header \/ write_all \/ writer_stops
    <2>1. ~sync_flush
      BY <1>5, RollFacts DEF sync_flush
    <2> QED
      BY <1>5, <2>1, RollFacts DEF WriterIs
  <1>6. CASE index_batch \/ maybe_sync \/ sync_batch
    <2>1. ~sync_flush
      BY <1>6, BatchFacts DEF sync_flush
    <2> QED
      BY <1>6, <2>1, BatchFacts DEF WriterIs
  <1>7. CASE sync_flush
    BY <1>7, BatchFacts DEF WriterIs
  <1>8. CASE crash
    BY <1>8, CrashFacts DEF WriterIs
  <1>9. CASE open_with_config
    BY <1>9, OpenedWriter DEF WriterIs
  <1> QED
    BY <1>1, <1>3, <1>4, <1>5, <1>6, <1>7, <1>8, <1>9, FrameFacts DEF WriterStep

\* A record that comes before the flush at k in the channel.
Ahead(k, a) ==
  \/ Settled(a) \/ a \in ToSet(writer.batch)
  \/ \E j \in 1 .. k : channel[j] = <<"record", a>>

LEMMA QueuedFlush ==
  ASSUME Types, Bounded, Types', ClosedInv, WriterInv, BatchInv, PlaceInv, FlushInv,
         [Next]_vars, NEW k \in 1 .. Len(channel'), NEW f \in Flushes, channel'[k] = <<"flush", f>>
  PROVE  /\ flushes'[f] = "sent" /\ writer'.flush # f
         /\ \A a \in before'[f] : Ahead(k, a)'
  <1>0. /\ channel \in Seq(Message) /\ Len(channel) \in Nat /\ Len(channel') \in Nat
        /\ NoFlush \notin Flushes
    BY WalAssumption DEF Types, NoFlush
  <1>1. channel' # <<>> /\ ~crash /\ ~writer_stops
    BY <1>0 DEF crash, writer_stops, DropWaiters
  <1>2. ASSUME NEW l \in 1 .. Len(channel), channel[l] = <<"flush", f>>
        PROVE  /\ flushes'[f] = "sent" /\ before'[f] = before[f] /\ writer.flush # f
               /\ \A a \in before[f] : Ahead(l, a)
    <2>1. /\ flushes[f] = "sent" /\ writer.flush # f
          /\ \A a \in before[f] : Ahead(l, a)
      BY <1>2 DEF FlushInv, Ahead
    <2> QED
      BY <1>1, <2>1, FlushMoves
  <1>3. ASSUME NEW a, Settled(a) \/ a \in ToSet(writer.batch)
        PROVE  Settled(a)' \/ a \in ToSet(writer'.batch)
    BY <1>1, <1>3, SettledStep, BatchSettles
  <1>4. CASE k \in 1 .. Len(channel) /\ channel'[k] = channel[k] /\ channel' # Tail(channel)
    <2>1. /\ flushes'[f] = "sent" /\ before'[f] = before[f] /\ writer.flush # f
          /\ \A a \in before[f] : Ahead(k, a)
      BY <1>2, <1>4
    <2>2. writer'.flush # f
      BY <1>0, <1>4, <2>1, FlushTaken
    <2>3. ASSUME NEW j \in 1 .. k PROVE channel'[j] = channel[j]
      <3>1. j \in 1 .. Len(channel') /\ j # Len(channel) + 1
        BY <1>0, <1>4
      <3> QED
        BY <1>4, <3>1, ChannelMoves
    <2> QED
      BY <1>3, <2>1, <2>2, <2>3 DEF Ahead
  <1>5. CASE /\ k + 1 \in 1 .. Len(channel) /\ channel'[k] = channel[k + 1]
             /\ channel # <<>> /\ channel' = Tail(channel) /\ Head(channel) = channel[1]
    <2>1. /\ flushes'[f] = "sent" /\ before'[f] = before[f] /\ writer.flush # f
          /\ \A a \in before[f] : Ahead(k + 1, a)
      BY <1>2, <1>5
    <2>2. /\ Len(channel') = Len(channel) - 1
          /\ \A j \in 1 .. (Len(channel) - 1) : channel'[j] = channel[j + 1]
      BY <1>0, <1>5, TailFacts
    <2>3. recv \/ collect_batch
      <3>1. \A m \in Message : Len(Append(channel, m)) = Len(channel) + 1
        BY <1>0, AppendFacts
      <3>2. \A m \in Message : channel' # Append(channel, m)
        BY <1>0, <2>2, <3>1
      <3>3. /\ \A a \in Appends : channel' # Append(channel, <<"record", a>>)
            /\ \A g \in Flushes : channel' # Append(channel, <<"flush", g>>)
        BY <3>2 DEF Message
      <3>4. channel' # channel
        BY <1>0, <2>2
      <3> QED
        BY <1>1, <3>3, <3>4, ChannelFacts
    <2>4. writer'.flush # f
      <3>1. CASE writer'.flush = writer.flush \/ writer'.flush = NoFlush
        BY <1>0, <2>1, <3>1
      <3>2. CASE Head(channel) = <<"flush", writer'.flush>>
        <4>1. 1 \in 1 .. Len(channel) /\ k + 1 # 1
          BY <1>5
        <4>2. channel[1] # channel[k + 1]
          BY <1>5, <4>1 DEF PlaceInv
        <4> QED
          BY <1>5, <3>2, <4>2
      <3> QED
        BY <3>1, <3>2, FlushTaken
    <2>5. ASSUME NEW a \in before[f] PROVE Ahead(k, a)'
      <3>1. CASE Settled(a) \/ a \in ToSet(writer.batch)
        BY <1>3, <3>1 DEF Ahead
      <3>2. ASSUME NEW j \in 1 .. (k + 1), channel[j] = <<"record", a>>
            PROVE  Ahead(k, a)'
        <4>1. CASE j = 1
          BY <1>5, <2>3, <3>2, <4>1, HeadTaken DEF Ahead
        <4>2. CASE j # 1
          <5>1. j - 1 \in 1 .. k /\ j - 1 \in 1 .. (Len(channel) - 1) /\ (j - 1) + 1 = j
            BY <1>0, <1>5, <4>2
          <5>2. channel'[j - 1] = <<"record", a>>
            BY <2>2, <3>2, <5>1
          <5> QED
            BY <5>1, <5>2 DEF Ahead
        <4> QED
          BY <4>1, <4>2
      <3> QED
        BY <2>1, <3>1, <3>2 DEF Ahead
    <2> QED
      BY <2>1, <2>4, <2>5
  <1>6. ASSUME NEW g \in Flushes, flush(g), flushes[g] = "idle", k = Len(channel) + 1,
               channel'[k] = <<"flush", g>>, before'[g] = Stored \cup Underway,
               flushes'[g] = "sent", UNCHANGED <<writer, segments, lost>>
        PROVE  /\ flushes'[f] = "sent" /\ writer'.flush # f
               /\ \A a \in before'[f] : Ahead(k, a)'
    <2>1. g = f
      BY <1>6
    <2>2. up = "up" /\ writer.pc # "stopped"
      BY <1>0, <1>6, <2>1 DEF flush
    <2>3. writer'.flush # f
      BY <1>0, <1>6, <2>1, <2>2 DEF FlushInv
    <2>4. ASSUME NEW a \in before'[f] PROVE Ahead(k, a)'
      <3>1. CASE a \in Stored
        BY <1>6, <3>1 DEF Ahead, Settled, Stored
      <3>2. CASE a \in ToSet(writer.batch)
        BY <1>6, <3>2 DEF Ahead
      <3>3. CASE <<"record", a>> \in ToSet(channel)
        <4>1. PICK j \in 1 .. Len(channel) : channel[j] = <<"record", a>>
          BY <1>0, <3>3, ElementFacts
        <4>2. j \in 1 .. k /\ j \in 1 .. Len(channel') /\ j # Len(channel) + 1
          BY <1>0, <1>6
        <4>3. channel' # Tail(channel)
          BY <1>0, <1>6, TailFacts
        <4>4. channel'[j] = channel[j]
          BY <4>2, <4>3, ChannelMoves
        <4> QED
          BY <4>1, <4>2, <4>4 DEF Ahead
      <3> QED
        BY <1>6, <2>1, <3>1, <3>2, <3>3 DEF Underway
    <2> QED
      BY <1>6, <2>1, <2>3, <2>4
  <1> QED
    BY <1>4, <1>5, <1>6, ChannelMoves

LEMMA FlushStep ==
  ASSUME Types, Bounded, Types', ClosedInv, WriterInv, BatchInv, PlaceInv, FlushInv, [Next]_vars
  PROVE  FlushInv'
  <1>0. channel \in Seq(Message) /\ Len(channel) \in Nat /\ NoFlush \notin Flushes
        /\ writer.flush \in Flushes \cup {NoFlush}
    BY WalAssumption DEF Types, NoFlush, Writer
  <1>1. ASSUME up' = "up", writer'.flush # NoFlush, writer'.pc # "stopped"
        PROVE  /\ flushes'[writer'.flush] = "sent"
               /\ \A a \in before'[writer'.flush] : Settled(a)' \/ a \in ToSet(writer'.batch)
    <2>1. ~crash /\ ~open_with_config /\ ~writer_stops
      BY <1>1, CrashFacts, OpenedWriter, RollFacts DEF WriterIs
    <2>2. up = "up" /\ writer.pc # "stopped"
      BY <1>1, <2>1, UpFacts, FlushTaken
    <2>3. ASSUME NEW a, Settled(a) \/ a \in ToSet(writer.batch)
          PROVE  Settled(a)' \/ a \in ToSet(writer'.batch)
      BY <2>1, <2>3, SettledStep, BatchSettles
    <2>4. ASSUME NEW f \in Flushes, f = writer'.flush, flushes[f] = "sent", ~sync_flush,
                 \A a \in before[f] : Settled(a) \/ a \in ToSet(writer.batch)
          PROVE  /\ flushes'[writer'.flush] = "sent"
                 /\ \A a \in before'[writer'.flush] : Settled(a)' \/ a \in ToSet(writer'.batch)
      <3>1. flushes'[f] = "sent" /\ before'[f] = before[f]
        BY <2>1, <2>4, FlushMoves
      <3> QED
        BY <2>3, <2>4, <3>1
    <2>5. CASE writer'.flush = writer.flush /\ ~sync_flush
      <3>1. PICK f \in Flushes : f = writer.flush
        BY <1>0, <1>1, <2>5
      <3>2. flushes[f] = "sent" /\ \A a \in before[f] : Settled(a) \/ a \in ToSet(writer.batch)
        BY <1>1, <2>2, <2>5, <3>1 DEF FlushInv
      <3> QED
        BY <2>4, <2>5, <3>1, <3>2
    <2>6. CASE /\ recv \/ collect_batch
               /\ channel # <<>> /\ channel' = Tail(channel)
               /\ Head(channel) = <<"flush", writer'.flush>> /\ writer'.flush \in Flushes
      <3>1. PICK f \in Flushes : f = writer'.flush
        BY <2>6
      <3>2. 1 \in 1 .. Len(channel) /\ channel[1] = <<"flush", f>>
        BY <1>0, <2>6, <3>1, TailFacts
      <3>3. /\ flushes[f] = "sent"
            /\ \A a \in before[f] : \/ Settled(a) \/ a \in ToSet(writer.batch)
                                    \/ \E j \in 1 .. 1 : channel[j] = <<"record", a>>
        BY <3>2 DEF FlushInv
      <3>4. \A a \in before[f] : Settled(a) \/ a \in ToSet(writer.batch)
        BY <3>2, <3>3
      <3>5. ~sync_flush
        BY <2>6 DEF recv, collect_batch, sync_flush
      <3> QED
        BY <2>4, <3>1, <3>3, <3>4, <3>5
    <2> QED
      BY <1>1, <2>5, <2>6, FlushTaken
  <1>2. ASSUME NEW k \in 1 .. Len(channel'), NEW f \in Flushes, channel'[k] = <<"flush", f>>
        PROVE  /\ flushes'[f] = "sent" /\ writer'.flush # f
               /\ \A a \in before'[f] : Ahead(k, a)'
    BY <1>2, QueuedFlush
  <1> QED
    BY <1>1, <1>2 DEF FlushInv, Ahead

-----------------------------------------------------------------------------
(* What is on disk.                                                        *)

\* What is on disk stays there, unless a compaction deletes its segment.
LEMMA OnDiskStep ==
  ASSUME Types, [Next]_vars, NEW a, OnDisk(a)
  PROVE  OnDisk(a)' \/ a \in lost'
  <1>1. PICK s \in DOMAIN segments : \E i \in 1 .. segments[s].synced : segments[s].recs[i] = a
    BY DEF OnDisk
  <1>2. PICK i \in 1 .. segments[s].synced : segments[s].recs[i] = a
    BY <1>1
  <1>3. /\ segments[s].recs \in Seq(Appends) /\ Len(segments[s].recs) \in Nat
        /\ segments[s].synced \in Nat /\ segments[s].synced <= Len(segments[s].recs)
    BY DEF Types, SegmentsType, Segment
  <1>4. i \in 1 .. Len(segments[s].recs)
    BY <1>3
  <1>5. ASSUME s \in DOMAIN segments', segments'[s].recs[i] = a, i \in 1 .. segments'[s].synced
        PROVE  OnDisk(a)'
    BY <1>5 DEF OnDisk
  <1>6. CASE UNCHANGED segments
    BY <1>2, <1>5, <1>6
  <1>7. CASE SyncOk
    <2>1. /\ s \in DOMAIN segments' /\ segments'[s].recs = segments[s].recs
          /\ segments'[s].synced \in {segments[s].synced, Len(segments[s].recs)}
      BY <1>7, SyncedFacts
    <2> QED
      BY <1>2, <1>4, <1>5, <2>1
  <1>8. CASE writer_stops
    BY <1>2, <1>5, <1>8, TornFacts DEF SameSegments
  <1>9. CASE roll_header
    BY <1>2, <1>5, <1>9, HeaderFacts DEF SameSegments
  <1>10. CASE write_all
    <2>1. PICK r : r = segments[s].recs
      OBVIOUS
    <2>2. PICK b : b = writer.batch
      OBVIOUS
    <2>3. /\ s \in DOMAIN segments' /\ segments'[s].recs \in {r, r \o b}
          /\ segments'[s].synced = segments[s].synced
      BY <1>10, <2>1, <2>2, WrittenFacts
    <2>4. b \in Seq(Appends) /\ r \in Seq(Appends) /\ i \in 1 .. Len(r) /\ r[i] = a
      BY <1>2, <1>3, <1>4, <2>1, <2>2 DEF Types, Writer
    <2>5. (r \o b)[i] = a
      BY <2>4, ConcatFacts
    <2> QED
      BY <1>5, <2>3, <2>4, <2>5
  <1>11. CASE roll_create
    BY <1>2, <1>5, <1>11, CreatedFacts
  <1>12. CASE compact_delete
    <2>1. PICK seq \in Nat :
            /\ DOMAIN segments' = DOMAIN segments \ {seq}
            /\ \A t \in DOMAIN segments' : segments'[t] = segments[t]
            /\ \A b : b \in lost' <=> b \in lost \/ Holds(seq, b)
      BY <1>12, DeletedFacts
    <2>2. CASE s = seq
      <3>1. Holds(s, a)
        BY <1>2, <1>4, StoredFacts DEF Holds
      <3> QED
        BY <2>1, <2>2, <3>1
    <2>3. CASE s # seq
      BY <1>2, <1>5, <2>1, <2>3
    <2> QED
      BY <2>2, <2>3
  <1>13. CASE crash
    <2>1. /\ s \in DOMAIN segments' /\ segments'[s].synced = Len(segments'[s].recs)
          /\ Len(segments'[s].recs) \in segments[s].synced .. Len(segments[s].recs)
          /\ \A j \in 1 .. Len(segments'[s].recs) : segments'[s].recs[j] = segments[s].recs[j]
      BY <1>13, CrashedFacts
    <2>2. i \in 1 .. Len(segments'[s].recs)
      BY <1>3, <2>1
    <2> QED
      BY <1>2, <1>5, <2>1, <2>2
  <1>14. CASE open_with_config
    BY <1>2, <1>5, <1>14, OpenedFacts
  <1> QED
    BY <1>6, <1>7, <1>8, <1>9, <1>10, <1>11, <1>12, <1>13, <1>14
    DEF Next, WriterStep, CompactorStep, vars, build_request, send_request, flush, recv,
        collect_batch, roll_sync, index_batch, maybe_sync, sync_batch, sync_flush, SyncErr,
        compact_begin, compact_index, compact_list, compact_end, compact_fails, open_fails

\* A successful sync puts the active segment on disk.
LEMMA SyncedOnDisk ==
  ASSUME Types, SyncOk, NEW s \in DOMAIN segments, NEW a, Holds(s, a),
         s = current_segment_seq \/ segments[s].synced = Len(segments[s].recs)
  PROVE  OnDisk(a)'
  <1>1. PICK i \in 1 .. Len(segments[s].recs) : segments[s].recs[i] = a
    BY StoredFacts DEF Holds
  <1>2. /\ s \in DOMAIN segments' /\ segments'[s].recs = segments[s].recs
        /\ segments'[s].synced = Len(segments[s].recs)
    BY SyncedFacts
  <1> QED
    BY <1>1, <1>2 DEF OnDisk

LEMMA DurableStep ==
  ASSUME Types, WriterInv, BatchInv, DurableSurvives, [Next]_vars
  PROVE  DurableSurvives'
  <1> SUFFICES ASSUME NEW a \in DurableAppends, callers'[a] = "ok"
               PROVE  OnDisk(a)' \/ a \in lost'
    BY DEF DurableSurvives
  <1>0. a \in Appends
    BY WalAssumption
  <1>1. CASE callers[a] = "ok"
    BY <1>1, OnDiskStep, HoldsFacts DEF DurableSurvives
  <1>2. CASE SyncOk /\ a \in pending_durable_acks
    <2>1. writer.pc = "sync" /\ a \in ToSet(writer.batch)
      BY <1>2 DEF WriterInv
    <2>2. a \in lost \/ Holds(current_segment_seq, a)
      BY <2>1 DEF BatchInv
    <2>3. CASE Holds(current_segment_seq, a)
      BY <1>2, <2>3, SyncedOnDisk DEF Holds
    <2> QED
      BY <2>2, <2>3, HoldsFacts
  <1> QED
    BY <1>0, <1>1, <1>2, CallersFacts

LEMMA FlushCoversStep ==
  ASSUME Types, Bounded, WriterInv, SegmentsInv, FlushInv, FlushCovers, [Next]_vars
  PROVE  FlushCovers'
  <1> SUFFICES ASSUME NEW f \in Flushes, flushes'[f] = "ok", NEW a \in before'[f]
               PROVE  OnDisk(a)' \/ a \in lost'
    BY DEF FlushCovers
  <1>1. CASE flushes[f] = "ok"
    <2>1. before'[f] = before[f]
      BY <1>1, FlushMoves
    <2> QED
      BY <1>1, <2>1, OnDiskStep, HoldsFacts DEF FlushCovers
  <1>2. CASE sync_flush /\ SyncOk /\ writer.flush = f
    <2>1. /\ up = "up" /\ writer.pc = "flush" /\ before'[f] = before[f]
          /\ ToSet(writer.batch) = {} /\ writer.flush # NoFlush
      BY <1>2, NoElements DEF sync_flush, WriterInv
    <2>2. Settled(a)
      BY <1>2, <2>1 DEF FlushInv
    <2>3. ASSUME NEW s \in DOMAIN segments, Holds(s, a)
          PROVE  OnDisk(a)'
      <3>1. s = current_segment_seq \/ segments[s].synced = Len(segments[s].recs)
        BY <2>1 DEF SegmentsInv
      <3> QED
        BY <1>2, <2>3, <3>1, SyncedOnDisk
    <2> QED
      BY <2>2, <2>3, SettledFacts, HoldsFacts
  <1> QED
    BY <1>1, <1>2, FlushMoves

-----------------------------------------------------------------------------
(* The theorems.                                                           *)

\* Before the first open there is nothing.
LEMMA InitInv ==
  ASSUME Init
  PROVE  Inv
  <1> USE WalAssumption
  <1>0. /\ writer.pc = "recv" /\ writer.batch = <<>> /\ writer.flush = NoFlush /\ writer.offset = 0
        /\ writer \in Writer /\ ToSet(writer.batch) = {}
    BY NoElements DEF Init, IdleWriter, Writer, Pcs
  <1>1. DOMAIN segments = {} /\ DOMAIN index = {} /\ segments \in [{} -> Segment]
    BY DEF Init, NoKeys
  <1>2. /\ compactor.pc = "idle" /\ compactor.visited = {} /\ compactor.to_delete = {}
        /\ DOMAIN compactor.max_id = {} /\ CompactorType
    BY DEF Init, IdleCompactor, NoKeys, CompactorType
  <1>3. channel = <<>> /\ Len(channel) = 0 /\ up = "down" /\ lost = {}
        /\ pending_durable_acks = {}
    BY DEF Init
  <1>4. Stored = {}
    BY <1>1 DEF Stored
  <1>5. Present = {}
    BY <1>0, <1>3, <1>4, NoElements DEF Present, Underway, Init
  <1>6. Types
    <2>1. SegmentsType /\ IndexType
      BY <1>1 DEF Init, SegmentsType, IndexType, NoKeys
    <2> QED
      BY <1>0, <1>2, <1>3, <2>1 DEF Types, Init
  <1>7. Bounded
    BY <1>1 DEF Bounded, Init
  <1>8. ClosedInv /\ WriterInv /\ BatchInv /\ OffsetInv /\ SegmentsInv
    BY <1>0, <1>1, <1>2, <1>3 DEF ClosedInv, WriterInv, BatchInv, OffsetInv, SegmentsInv, Init
  <1>9. PlaceInv /\ FlushInv
    BY <1>0, <1>1, <1>3 DEF PlaceInv, FlushInv
  <1>10. FreshInv /\ IdsUnique
    BY <1>3, <1>5 DEF FreshInv, IdsUnique, Present
  <1>11. IndexInv /\ CompactInv
    BY <1>1, <1>2, <1>3 DEF IndexInv, CompactInv
  <1>12. DurableSurvives /\ FlushCovers
    BY DEF DurableSurvives, FlushCovers, Init
  <1> QED
    BY <1>6, <1>7, <1>8, <1>9, <1>10, <1>11, <1>12 DEF Inv

\* Every step keeps the inductive invariant.
LEMMA NextInv ==
  ASSUME Inv, [Next]_vars
  PROVE  Inv'
  <1>0. /\ Types /\ Bounded /\ ClosedInv /\ WriterInv /\ BatchInv /\ OffsetInv /\ SegmentsInv
        /\ PlaceInv /\ FreshInv /\ IdsUnique /\ IndexInv /\ CompactInv /\ FlushInv
        /\ DurableSurvives /\ FlushCovers
    BY DEF Inv
  <1>1. Types' /\ Bounded'
    BY <1>0, TypesStep
  <1>2. ClosedInv' /\ WriterInv' /\ BatchInv' /\ OffsetInv' /\ SegmentsInv'
    BY <1>0, ClosedStep, WriterStepInv, BatchStep, OffsetStep, SegmentsStep
  <1>3. PlaceInv' /\ FreshInv' /\ IdsUnique'
    BY <1>0, <1>1, PlaceStep, IdsStep
  <1>4. IndexInv' /\ CompactInv' /\ FlushInv'
    BY <1>0, <1>1, IndexStep, CompactStep, FlushStep
  <1>5. DurableSurvives' /\ FlushCovers'
    BY <1>0, DurableStep, FlushCoversStep
  <1> QED
    BY <1>1, <1>2, <1>3, <1>4, <1>5 DEF Inv

LEMMA SpecInv == Spec => []Inv
  BY InitInv, NextInv, PTL DEF Spec

\* The log's types: try_send keeps the channel within its capacity, and the
\* synced part of a segment is never longer than the file.
THEOREM TypeCorrect == Spec => []TypeOK
  <1>1. Inv => TypeOK
    <2> SUFFICES ASSUME Inv PROVE TypeOK
      OBVIOUS
    <2>1. Types
      BY DEF Inv
    <2>2. ASSUME NEW s \in DOMAIN segments
          PROVE  segments[s].recs \in Seq(Appends) /\ segments[s].synced \in 0 .. Len(segments[s].recs)
      BY <2>1 DEF Types, SegmentsType, Segment
    <2> QED
      BY <2>1, <2>2 DEF Types, TypeOK, Writer
  <1> QED
    BY <1>1, SpecInv, PTL

\* append_durable: a record whose caller was answered Ok is in the synced part
\* of a segment, or compact_below deleted that segment, whatever rolls, failed
\* writes, crashes and openings of the log come between.
THEOREM DurableRecordsSurvive == Spec => []DurableSurvives
  <1>1. Inv => DurableSurvives
    BY DEF Inv
  <1> QED
    BY <1>1, SpecInv, PTL

\* flush: an answer of Ok means that every record in the files, the batch or
\* the channel when the request was queued is on disk.
THEOREM FlushesCover == Spec => []FlushCovers
  <1>1. Inv => FlushCovers
    BY DEF Inv
  <1> QED
    BY <1>1, SpecInv, PTL

\* The index that write_batch extends, open_with_config rebuilds and
\* compact_below prunes leads to the record of every id it has.
THEOREM IndexIsRight == Spec => []IndexAgrees
  <1>1. Inv => IndexAgrees
    <2> SUFFICES ASSUME Inv, up = "up" PROVE IndexAgrees
      BY DEF IndexAgrees
    <2>1. Types /\ IndexInv
      BY DEF Inv
    <2>2. ASSUME NEW id \in DOMAIN index PROVE EntryOk(id)
      BY <2>1 DEF IndexInv
    <2>3. ASSUME writer.pc # "index", NEW a \in Stored PROVE ids[a] \in DOMAIN index
      <3>1. PICK s \in DOMAIN segments : a \in ToSet(segments[s].recs)
        BY <2>1, <2>3, StoredFacts
      <3>2. Indexed(s, a)
        BY <2>1, <3>1 DEF IndexInv
      <3> QED
        BY <2>3, <3>2 DEF Indexed
    <2> QED
      BY <2>2, <2>3 DEF IndexAgrees, EntryOk
  <1> QED
    BY <1>1, SpecInv, PTL

\* build_request gives no id that a record in a file, in the channel or with
\* its caller has, also after open_with_config took next_id from what a crash
\* left of the log.
THEOREM IdsAreUnique == Spec => []IdsUnique
  <1>1. Inv => IdsUnique
    BY DEF Inv
  <1> QED
    BY <1>1, SpecInv, PTL

\* compact_below removes a segment that is older than the active one only when
\* no record in it is above the threshold, although it reads the index, the
\* directory and the files at different moments.
THEOREM CompactionIsSafe == Spec => CompactionSafe
  <1>1. ASSUME Inv, [Next]_vars
        PROVE  [\A s \in DOMAIN segments \ DOMAIN segments' :
                  s < compactor.active =>
                    \A a \in ToSet(segments[s].recs) : ids[a] <= compactor.threshold]_vars
    <2>1. SUFFICES ASSUME NEW s \in DOMAIN segments, s \notin DOMAIN segments',
                          s < compactor.active, NEW a \in ToSet(segments[s].recs)
                   PROVE  ids[a] <= compactor.threshold
      OBVIOUS
    <2>2. Types /\ CompactInv
      BY <1>1 DEF Inv
    <2>3. compact_delete
      BY <1>1, <2>1, <2>2, RecordsStep, WrittenFacts, CreatedFacts, CrashedFacts, OpenedFacts
      DEF SameRecords
    <2>4. s \in compactor.to_delete
      BY <2>1, <2>2, <2>3, DeletedFacts
    <2>5. s \in DOMAIN compactor.max_id /\ ids[a] <= compactor.max_id[s]
      BY <2>1, <2>2, <2>3 DEF CompactInv, compact_delete
    <2>6. compactor.max_id[s] <= compactor.threshold
      BY <2>2, <2>4, <2>5 DEF CompactInv
    <2>7. /\ ids[a] \in Nat /\ compactor.max_id[s] \in Nat /\ compactor.threshold \in Nat
      BY <2>1, <2>2, <2>5, StoredFacts DEF Types, CompactorType
    <2> QED
      BY <2>5, <2>6, <2>7
  <1> QED
    BY <1>1, SpecInv, PTL DEF Spec, CompactionSafe

-----------------------------------------------------------------------------
(* The log implements DurableLog.  Life and Answer say where each record   *)
(* is; the lemmas *Matches build an abstract step from what a step does to *)
(* every record, and the lemmas *Refines show that for each action.        *)

\* The record of a on its way: in the channel, or in the batch of a live writer;
\* in some file; or not yet queued.
InChannel(a) == \E i \in 1 .. Len(channel) : channel[i] = <<"record", a>>
Moving(a) == writer.pc # "stopped" /\ (InChannel(a) \/ a \in ToSet(writer.batch))
Held(a) == \E s \in DOMAIN segments : Holds(s, a)
Fresh(a) == callers[a] \in {"idle", "built"}

LEMMA LifeFacts ==
  ASSUME Types, NEW a \in Appends
  PROVE  /\ Life(a) = IF Fresh(a) THEN "new" ELSE IF a \in lost THEN "deleted"
                      ELSE IF Held(a) THEN IF OnDisk(a) THEN "synced" ELSE "written"
                      ELSE IF Moving(a) THEN "queued" ELSE "dropped"
         /\ OnDisk(a) => Held(a)
  <1>1. Held(a) <=> \E s \in DOMAIN segments : Contains(segments[s].recs, a)
    BY StoredFacts DEF Held, Holds, Contains
  <1>2. a \in ToSet(writer.batch) <=> Contains(writer.batch, a)
    BY ElementFacts DEF Types, Writer, Contains
  <1>3. InChannel(a) <=> Contains(channel, <<"record", a>>)
    BY DEF InChannel, Contains
  <1>4. OnDisk(a) => Held(a)
    <2>1. \A s \in DOMAIN segments : /\ Len(segments[s].recs) \in Nat /\ segments[s].synced \in Nat
                                     /\ segments[s].synced <= Len(segments[s].recs)
      BY DEF Types, SegmentsType, Segment
    <2>2. \A s \in DOMAIN segments : \A i \in 1 .. segments[s].synced : i \in 1 .. Len(segments[s].recs)
      BY <2>1
    <2> QED
      BY <1>1, <2>2 DEF OnDisk, Contains
  <1> QED
    BY <1>1, <1>2, <1>3, <1>4 DEF Life, Fresh, Moving

LEMMA LifeFactsNext ==
  ASSUME Types', NEW a \in Appends
  PROVE  /\ Life(a)' = IF Fresh(a)' THEN "new" ELSE IF a \in lost' THEN "deleted"
                       ELSE IF Held(a)' THEN IF OnDisk(a)' THEN "synced" ELSE "written"
                       ELSE IF Moving(a)' THEN "queued" ELSE "dropped"
         /\ OnDisk(a)' => Held(a)'
  <1>0. /\ \A s \in DOMAIN segments' : segments'[s].recs \in Seq(Appends)
        /\ writer'.batch \in Seq(Appends)
    BY DEF Types, SegmentsType, Segment, Writer
  <1>1. Held(a)' <=> \E s \in DOMAIN segments' : Contains(segments'[s].recs, a)
    BY <1>0, ElementFacts DEF Held, Holds, Contains
  <1>2. a \in ToSet(writer'.batch) <=> Contains(writer'.batch, a)
    BY <1>0, ElementFacts DEF Contains
  <1>3. InChannel(a)' <=> Contains(channel', <<"record", a>>)
    BY DEF InChannel, Contains
  <1>4. OnDisk(a)' => Held(a)'
    <2>1. \A s \in DOMAIN segments' :
            /\ Len(segments'[s].recs) \in Nat /\ segments'[s].synced \in Nat
            /\ segments'[s].synced <= Len(segments'[s].recs)
      BY DEF Types, SegmentsType, Segment
    <2>2. \A s \in DOMAIN segments' :
            \A i \in 1 .. segments'[s].synced : i \in 1 .. Len(segments'[s].recs)
      BY <2>1
    <2> QED
      BY <1>1, <2>2 DEF OnDisk, Contains
  <1> QED
    BY <1>1, <1>2, <1>3, <1>4 DEF Life, Fresh, Moving

LEMMA AnswerFacts ==
  ASSUME Types, NEW a \in Appends
  PROVE  /\ callers[a] \in {"idle", "built", "queued"} => Answer(a) = "none"
         /\ callers[a] \in {"accepted", "ok"} => Answer(a) = "ok"
         /\ callers[a] = "err" => Answer(a) = "err"
         /\ callers[a] \in {"idle", "built", "queued", "accepted", "ok", "err"}
  BY DEF Types, Answer

LEMMA AnswerFactsNext ==
  ASSUME Types', NEW a \in Appends
  PROVE  /\ callers'[a] \in {"idle", "built", "queued"} => Answer(a)' = "none"
         /\ callers'[a] \in {"accepted", "ok"} => Answer(a)' = "ok"
         /\ callers'[a] = "err" => Answer(a)' = "err"
  BY DEF Types, Answer

LEMMA WriteMatches ==
  ASSUME NEW S \in SUBSET Appends, NEW p \in {"written", "deleted"},
         \A a \in S : Life(a) = "queued",
         \A a \in Appends : Life(a)' = IF a \in S THEN p ELSE Life(a),
         \A a \in Appends : Answer(a)' = Answer(a)
  PROVE  Log!LogNext
  <1>1. S \in SUBSET Log!In("queued")
    BY DEF Log!In
  <1>2. Log!Write(S, p)
    BY DEF Log!Write, Log!Move
  <1> QED
    BY <1>1, <1>2 DEF Log!LogNext

LEMMA SyncMatches ==
  ASSUME \A a \in Appends : Life(a)' = IF Life(a) = "written" THEN "synced" ELSE Life(a),
         \A a \in Appends :
           Answer(a)' = IF Answer(a) = "none" /\ Life(a) \in {"written", "synced", "deleted"}
                        THEN "ok" ELSE Answer(a)
  PROVE  Log!LogNext
  <1>1. Log!Sync
    BY DEF Log!Sync, Log!Move, Log!Tell, Log!Waiting, Log!In
  <1> QED
    BY <1>1 DEF Log!LogNext

LEMMA DeleteMatches ==
  ASSUME NEW S \in SUBSET Appends,
         \A a \in S : Life(a) \in {"written", "synced"},
         \A a \in Appends : Life(a)' = IF a \in S THEN "deleted" ELSE Life(a),
         \A a \in Appends : Answer(a)' = Answer(a)
  PROVE  Log!LogNext
  <1>1. S \in SUBSET (Log!In("written") \cup Log!In("synced"))
    BY DEF Log!In
  <1>2. Log!Delete(S)
    BY DEF Log!Delete, Log!Move
  <1> QED
    BY <1>1, <1>2 DEF Log!LogNext

LEMMA SendMatches ==
  ASSUME NEW r \in Appends, Life(r) = "new",
         \A a \in Appends \ {r} : Life(a)' = Life(a) /\ Answer(a)' = Answer(a),
         \/ Life(r)' = "queued" /\ Answer(r)' = IF r \in DurableAppends THEN Answer(r) ELSE "ok"
         \/ Life(r)' = "dropped" /\ Answer(r)' = "err"
  PROVE  Log!LogNext
  <1>1. r \in Log!In("new")
    BY DEF Log!In
  <1>2. Log!Queue(r) \/ Log!Refuse(r)
    BY DEF Log!Queue, Log!Refuse, Log!Move, Log!Tell
  <1> QED
    BY <1>1, <1>2 DEF Log!LogNext

LEMMA StopMatches ==
  ASSUME \A a \in Appends : Life(a)' = IF Life(a) = "queued" THEN "dropped" ELSE Life(a),
         \A a \in Appends : Answer(a)' = IF Answer(a) = "none" /\ Life(a) # "new"
                                         THEN "err" ELSE Answer(a)
  PROVE  Log!LogNext
  <1>1. Log!Stop
    BY DEF Log!Stop, Log!Move, Log!Tell, Log!Waiting, Log!In
  <1> QED
    BY <1>1 DEF Log!LogNext

LEMMA CrashMatches ==
  ASSUME NEW kept \in SUBSET Appends, NEW R \in SUBSET Appends,
         \A a \in kept : Life(a) = "written",
         \A a \in R : Life(a) = "new",
         \A a \in Appends : Life(a)' = IF a \in kept THEN "synced"
                                       ELSE IF Life(a) \in {"queued", "written"} \/ a \in R
                                       THEN "dropped" ELSE Life(a),
         \A a \in Appends : Answer(a)' = IF (Answer(a) = "none" /\ Life(a) # "new") \/ a \in R
                                         THEN "err" ELSE Answer(a)
  PROVE  Log!LogNext
  <1>1. kept \in SUBSET Log!In("written") /\ R \in SUBSET Log!In("new")
    BY DEF Log!In
  <1>2. Log!Crash(kept, R)
    BY DEF Log!Crash, Log!Tell, Log!Waiting, Log!In
  <1> QED
    BY <1>1, <1>2 DEF Log!LogNext

LEMMA StutterMatches ==
  ASSUME \A a \in Appends : Life(a)' = Life(a) /\ Answer(a)' = Answer(a)
  PROVE  UNCHANGED Log!logVars
  BY DEF Log!logVars
\* A deleted record is nowhere else, but for a batch that was just written.
LostInv ==
  \A a \in lost :
    /\ ~Fresh(a) /\ ~InChannel(a) /\ ~Held(a)
    /\ a \in ToSet(writer.batch) => writer.pc \in Written

\* The durable appends that wait are those whose record is on its way, and the
\* sync at the end of a batch has all of the batch to answer.
WaitInv ==
  /\ \A a \in Appends : callers[a] = "queued" => a \in DurableAppends /\ Moving(a)
  /\ \A a \in DurableAppends : Moving(a) => callers[a] = "queued"
  /\ writer.pc = "sync" => ToSet(writer.batch) \cap DurableAppends \subseteq pending_durable_acks
  /\ writer.pc = "maybe_sync" => ToSet(writer.batch) \cap DurableAppends = {}

\* A writer that stopped stays so until the next start.
LEMMA StoppedStep ==
  ASSUME Types, ClosedInv, [Next]_vars
  PROVE  /\ writer.pc = "stopped" => crash \/ (writer' = writer /\ pending_durable_acks' = pending_durable_acks)
         /\ writer'.pc = "stopped" => writer.pc = "stopped" \/ writer_stops
  <1>1. CASE UNCHANGED <<writer, pending_durable_acks>>
    BY <1>1
  <1>2. CASE recv \/ collect_batch
    BY <1>2, RecvFacts, CollectFacts DEF WriterIs
  <1>3. CASE roll_sync \/ roll_create \/ roll_header \/ write_all \/ writer_stops
    BY <1>3, RollFacts DEF WriterIs, writer_stops
  <1>4. CASE index_batch \/ maybe_sync \/ sync_batch \/ sync_flush
    BY <1>4, BatchFacts DEF WriterIs
  <1>5. CASE open_with_config
    BY <1>5, OpenedWriter DEF WriterIs, ClosedInv
  <1>6. CASE crash
    BY <1>6, CrashFacts DEF crash, IdleWriter
  <1> QED
    BY <1>1, <1>2, <1>3, <1>4, <1>5, <1>6
    DEF Next, WriterStep, CompactorStep, vars, build_request, send_request, flush,
        compact_begin, compact_index, compact_list, compact_delete, compact_end, compact_fails,
        open_fails

\* Records are queued in send_request alone.
LEMMA ChannelGains ==
  ASSUME Types, [Next]_vars, NEW a \in Appends, InChannel(a)'
  PROVE  \/ InChannel(a)
         \/ /\ send_request(a) /\ callers[a] = "built" /\ callers'[a] \in {"queued", "accepted"}
            /\ UNCHANGED <<writer, segments, lost>>
  <1>1. PICK i \in 1 .. Len(channel') : channel'[i] = <<"record", a>>
    BY DEF InChannel
  <1>2. CASE \E j \in 1 .. Len(channel) : channel'[i] = channel[j]
    BY <1>1, <1>2 DEF InChannel
  <1>3. ASSUME NEW b \in Appends, channel'[i] = <<"record", b>> PROVE a = b
    BY <1>1, <1>3
  <1>4. ASSUME NEW f \in Flushes, channel'[i] = <<"flush", f>> PROVE FALSE
    BY <1>1, <1>4
  <1> QED
    BY <1>2, <1>3, <1>4, ChannelMoves

LEMMA ChannelLoses ==
  ASSUME Types, [Next]_vars, NEW a \in Appends, InChannel(a)
  PROVE  \/ InChannel(a)' \/ writer_stops \/ crash
         \/ (recv \/ collect_batch) /\ a \in ToSet(writer'.batch)
  <1>0. channel \in Seq(Message) /\ Len(channel) \in Nat
    BY DEF Types
  <1>1. PICK i \in 1 .. Len(channel) : channel[i] = <<"record", a>>
    BY DEF InChannel
  <1>2. ASSUME channel' = channel PROVE InChannel(a)'
    BY <1>1, <1>2 DEF InChannel
  <1>3. CASE (recv \/ collect_batch) /\ channel' = Tail(channel)
    <2>1. channel # <<>>
      BY <1>0, <1>1
    <2>2. CASE i = 1
      <3>1. Head(channel) = <<"record", a>>
        BY <1>0, <1>1, <2>1, <2>2
      <3> QED
        BY <1>3, <2>1, <3>1, HeadTaken
    <2>3. CASE i # 1
      <3>1. i - 1 \in 1 .. Len(Tail(channel)) /\ Tail(channel)[i - 1] = channel[i]
        BY <1>0, <2>1, <2>3
      <3> QED
        BY <1>1, <1>3, <3>1 DEF InChannel
    <2> QED
      BY <2>2, <2>3
  <1>4. ASSUME NEW m \in Message, channel' = Append(channel, m)
        PROVE  InChannel(a)'
    <2>1. i \in 1 .. Len(channel') /\ channel'[i] = channel[i]
      BY <1>0, <1>4
    <2> QED
      BY <1>1, <2>1 DEF InChannel
  <1>5. ASSUME NEW b \in Appends, send_request(b) PROVE InChannel(a)'
    <2>1. <<"record", b>> \in Message
      BY DEF Message
    <2> QED
      BY <1>2, <1>4, <1>5, <2>1 DEF send_request
  <1>6. ASSUME NEW f \in Flushes, flush(f) PROVE InChannel(a)'
    <2>1. <<"flush", f>> \in Message
      BY DEF Message
    <2> QED
      BY <1>2, <1>4, <1>6, <2>1 DEF flush
  <1>7. recv \/ collect_batch => channel' = channel \/ channel' = Tail(channel)
    BY DEF recv, collect_batch
  <1> QED
    BY <1>2, <1>3, <1>5, <1>6, <1>7
    DEF Next, WriterStep, CompactorStep, vars, build_request,
        roll_sync, roll_create, roll_header, write_all, index_batch, maybe_sync,
        sync_batch, sync_flush, open_with_config,
        compact_begin, compact_index, compact_list, compact_delete, compact_end, compact_fails,
        open_fails

\* A batch is kept until the end of maybe_sync or sync_batch.
LEMMA BatchLoses ==
  ASSUME Types, Bounded, ClosedInv, WriterInv, [Next]_vars, ~crash, NEW a \in ToSet(writer.batch)
  PROVE  a \in ToSet(writer'.batch) \/ maybe_sync \/ sync_batch
  <1>0. writer.batch \in Seq(Appends) /\ channel \in Seq(Message) /\ writer.batch # <<>>
    BY NoElements DEF Types, Writer
  <1>1. CASE writer'.batch = writer.batch
    BY <1>1
  <1>2. CASE recv
    BY <1>0, <1>2, RecvFacts DEF WriterInv
  <1>3. CASE collect_batch
    <2>1. CASE /\ channel # <<>> /\ Head(channel)[1] = "record"
               /\ writer'.batch = Append(writer.batch, Head(channel)[2])
      <3>1. Head(channel)[2] \in Appends
        BY <1>0, <2>1, TailFacts, MessageFacts
      <3> QED
        BY <1>0, <2>1, <3>1, AddedElement
    <2> QED
      BY <1>1, <1>3, <2>1, CollectFacts DEF WriterIs
  <1>4. CASE roll_sync \/ roll_create \/ roll_header \/ write_all \/ writer_stops
    BY <1>4, RollFacts DEF WriterIs
  <1>5. CASE index_batch
    BY <1>5, BatchFacts DEF WriterIs
  <1>6. CASE sync_flush
    BY <1>0, <1>6, BatchFacts DEF WriterInv
  <1>7. CASE open_with_config
    BY <1>0, <1>7, OpenedWriter DEF WriterInv, ClosedInv
  <1> QED
    BY <1>1, <1>2, <1>3, <1>4, <1>5, <1>6, <1>7
    DEF Next, WriterStep, CompactorStep, vars, build_request, send_request, flush,
        compact_begin, compact_index, compact_list, compact_delete, compact_end, compact_fails,
        open_fails

\* A record is on its way from send_request until its batch is settled.
LEMMA MovingStep ==
  ASSUME Types, Bounded, ClosedInv, WriterInv, BatchInv, [Next]_vars, NEW a \in Appends
  PROVE  /\ Moving(a)' =>
              \/ Moving(a)
              \/ /\ send_request(a) /\ callers[a] = "built" /\ callers'[a] \in {"queued", "accepted"}
                 /\ UNCHANGED <<writer, segments, lost>>
         /\ Moving(a) =>
              \/ Moving(a)' \/ writer_stops \/ crash
              \/ /\ maybe_sync \/ sync_batch
                 /\ a \in ToSet(writer.batch) /\ (a \in lost \/ Held(a))
  <1>1. ASSUME Moving(a)'
        PROVE  \/ Moving(a)
               \/ /\ send_request(a) /\ callers[a] = "built" /\ callers'[a] \in {"queued", "accepted"}
                  /\ UNCHANGED <<writer, segments, lost>>
    <2>0. ~crash
      BY <1>1, CrashFacts, NoElements DEF Moving, InChannel, WriterIs
    <2>1. writer.pc # "stopped"
      BY <1>1, <2>0, StoppedStep DEF Moving
    <2>2. CASE InChannel(a)'
      BY <2>1, <2>2, ChannelGains DEF Moving
    <2>3. CASE a \in ToSet(writer'.batch)
      <3>1. a \in ToSet(writer.batch) \/ (channel # <<>> /\ Head(channel) = <<"record", a>>)
        BY <2>3, BatchGrows
      <3>2. CASE channel # <<>> /\ Head(channel) = <<"record", a>>
        <4>1. channel \in Seq(Message)
          BY DEF Types
        <4>2. 1 \in 1 .. Len(channel) /\ channel[1] = <<"record", a>>
          BY <3>2, <4>1
        <4> QED
          BY <2>1, <4>2 DEF Moving, InChannel
      <3> QED
        BY <2>1, <3>1, <3>2 DEF Moving
    <2> QED
      BY <1>1, <2>2, <2>3 DEF Moving
  <1>2. ASSUME Moving(a), ~crash, ~writer_stops
        PROVE  \/ Moving(a)'
               \/ /\ maybe_sync \/ sync_batch
                  /\ a \in ToSet(writer.batch) /\ (a \in lost \/ Held(a))
    <2>1. writer'.pc # "stopped"
      BY <1>2, StoppedStep DEF Moving
    <2>2. CASE InChannel(a)
      BY <1>2, <2>1, <2>2, ChannelLoses DEF Moving
    <2>3. CASE a \in ToSet(writer.batch)
      <3>1. a \in ToSet(writer'.batch) \/ maybe_sync \/ sync_batch
        BY <1>2, <2>3, BatchLoses
      <3>2. CASE maybe_sync \/ sync_batch
        <4>1. a \in lost \/ Holds(current_segment_seq, a)
          BY <2>3, <3>2, BatchFacts DEF BatchInv
        <4> QED
          BY <2>3, <3>2, <4>1 DEF Held, Holds
      <3> QED
        BY <2>1, <3>1, <3>2 DEF Moving
    <2> QED
      BY <1>2, <2>2, <2>3 DEF Moving
  <1> QED
    BY <1>1, <1>2
LEMMA LostStep ==
  ASSUME Types, Bounded, ClosedInv, WriterInv, PlaceInv, LostInv, [Next]_vars
  PROVE  LostInv'
  <1> SUFFICES ASSUME NEW a \in lost'
               PROVE  /\ ~Fresh(a)' /\ ~InChannel(a)' /\ ~Held(a)'
                      /\ a \in ToSet(writer'.batch) => writer'.pc \in Written
    BY DEF LostInv
  <1>0. a \in Appends
    BY CallersTypeStep
  <1>1. CASE a \in lost
    <2>0. /\ callers[a] \notin {"idle", "built"} /\ ~InChannel(a) /\ ~Held(a)
          /\ a \in ToSet(writer.batch) => writer.pc \in Written
      BY <1>1 DEF LostInv, Fresh
    <2>1. ~Fresh(a)'
      BY <1>0, <2>0, CallersFacts DEF Fresh
    <2>2. ~InChannel(a)'
      BY <1>0, <2>0, ChannelGains
    <2>3. ASSUME NEW s \in DOMAIN segments', Holds(s, a)' PROVE FALSE
      <3>1. Holds(s, a) \/ (write_all /\ a \in ToSet(writer.batch))
        BY <2>3, HoldsFacts
      <3>2. ~Holds(s, a)
        BY <2>0 DEF Held, Holds
      <3> QED
        BY <2>0, <3>1, <3>2 DEF write_all, Written
    <2>4. ASSUME a \in ToSet(writer'.batch) PROVE writer'.pc \in Written
      <3>1. a \in ToSet(writer.batch) \/ (channel # <<>> /\ Head(channel) = <<"record", a>>)
        BY <2>4, BatchGrows
      <3>2. CASE channel # <<>> /\ Head(channel) = <<"record", a>>
        <4>1. channel \in Seq(Message)
          BY DEF Types
        <4>2. 1 \in 1 .. Len(channel) /\ channel[1] = <<"record", a>>
          BY <3>2, <4>1
        <4> QED
          BY <2>0, <4>2 DEF InChannel
      <3>3. CASE a \in ToSet(writer.batch)
        <4>1. writer.pc \in Written /\ ToSet(writer'.batch) # {}
          BY <2>0, <2>4, <3>3
        <4> QED
          BY <4>1, WrittenStep
      <3> QED
        BY <3>1, <3>2, <3>3
    <2> QED
      BY <2>1, <2>2, <2>3, <2>4 DEF Held
  <1>2. CASE write_all /\ a \in ToSet(writer.batch) /\ a \notin lost
    <2>1. ~Linked /\ callers' = callers /\ channel' = channel
      BY <1>2 DEF write_all
    <2>2. writer.pc = "write" /\ writer'.pc = "index"
      BY <1>2, RollFacts DEF WriterIs
    <2>3. callers[a] \notin {"idle", "built"} /\ \A s \in DOMAIN segments : ~Holds(s, a)
      BY <1>0, <1>2, <2>2 DEF PlaceInv
    <2>4. ~InChannel(a)
      BY <1>0, <1>2 DEF PlaceInv, InChannel
    <2>5. ASSUME NEW s \in DOMAIN segments', Holds(s, a)' PROVE FALSE
      <3>1. Holds(s, a)
        BY <2>1, <2>5, HoldsFacts
      <3> QED
        BY <2>3, <3>1 DEF Holds
    <2> QED
      BY <2>1, <2>2, <2>3, <2>4, <2>5 DEF Fresh, InChannel, Held, Written
  <1>3. CASE compact_delete /\ a \notin lost
    <2>1. PICK seq \in Nat :
            /\ DOMAIN segments' = DOMAIN segments \ {seq}
            /\ \A s \in DOMAIN segments' : segments'[s] = segments[s]
            /\ \A b : b \in lost' <=> b \in lost \/ Holds(seq, b)
      BY <1>3, DeletedFacts
    <2>2. UNCHANGED <<callers, channel, writer>>
      BY <1>3 DEF compact_delete
    <2>3. Holds(seq, a) /\ seq \in DOMAIN segments
      BY <1>3, <2>1 DEF Holds
    <2>4. callers[a] \notin {"idle", "built"}
      BY <1>0, <2>3 DEF PlaceInv
    <2>5. ~InChannel(a)
      BY <1>0, <2>3 DEF PlaceInv, InChannel
    <2>6. a \in ToSet(writer.batch) => writer.pc \in Written
      BY <2>3 DEF PlaceInv, Written
    <2>7. ASSUME NEW s \in DOMAIN segments', Holds(s, a)' PROVE FALSE
      <3>1. Holds(s, a) /\ s \in DOMAIN segments /\ s # seq
        BY <2>1, <2>7 DEF Holds
      <3> QED
        BY <1>0, <2>3, <3>1 DEF PlaceInv
    <2> QED
      BY <2>2, <2>4, <2>5, <2>6, <2>7 DEF Fresh, InChannel, Held
  <1> QED
    BY <1>1, <1>2, <1>3, HoldsFacts

\* How a durable append comes to wait, and how its wait ends.
LEMMA QueuedFacts ==
  ASSUME Types, [Next]_vars, NEW a \in Appends
  PROVE  /\ callers'[a] = "queued" =>
              \/ callers[a] = "queued"
              \/ /\ send_request(a) /\ a \in DurableAppends /\ writer.pc # "stopped"
                 /\ writer' = writer /\ channel' = Append(channel, <<"record", a>>)
         /\ callers[a] = "queued" =>
              \/ callers'[a] = "queued" \/ writer_stops \/ crash
              \/ /\ a \in pending_durable_acks
                 /\ roll_sync \/ sync_batch \/ sync_flush
         /\ send_request(a) => callers'[a] \in {"err", IF a \in DurableAppends THEN "queued" ELSE "accepted"}
         /\ writer_stops \/ crash => callers'[a] # "queued"
         /\ roll_sync \/ sync_batch => (a \in pending_durable_acks => callers'[a] = "ok")
  <1>0. callers \in [Appends -> {"idle", "built", "queued", "accepted", "ok", "err"}]
    BY DEF Types
  <1>1. UNCHANGED callers \/ (\E b \in Appends : build_request(b) \/ send_request(b))
        \/ roll_sync \/ sync_batch \/ sync_flush \/ writer_stops \/ crash
    BY DEF Next, WriterStep, CompactorStep, vars, flush, recv,
        collect_batch, roll_create, roll_header, write_all, index_batch, maybe_sync,
        open_with_config,
        compact_begin, compact_index, compact_list, compact_delete, compact_end, compact_fails,
        open_fails
  <1>2. ASSUME NEW b \in Appends, build_request(b) \/ send_request(b)
        PROVE  /\ callers[b] \in {"idle", "built"} /\ (a # b => callers'[a] = callers[a])
               /\ send_request(b) => callers'[b] \in {"err", IF b \in DurableAppends THEN "queued" ELSE "accepted"}
               /\ build_request(b) => callers'[b] = "built"
               /\ callers'[b] = "queued" =>
                    /\ send_request(b) /\ b \in DurableAppends /\ writer.pc # "stopped"
                    /\ writer' = writer /\ channel' = Append(channel, <<"record", b>>)
    BY <1>0, <1>2 DEF build_request, send_request
  <1>3. ASSUME roll_sync \/ sync_batch \/ sync_flush
        PROVE  /\ callers'[a] = "queued" => callers[a] = "queued"
               /\ a \notin pending_durable_acks => callers'[a] = callers[a]
    BY <1>3 DEF roll_sync, sync_batch, sync_flush, SyncOk, SyncErr
  <1>4. roll_sync \/ sync_batch => (a \in pending_durable_acks => callers'[a] = "ok")
    BY DEF roll_sync, sync_batch, SyncOk
  <1>5. ASSUME writer_stops \/ crash
        PROVE  callers'[a] # "queued"
    BY <1>0, <1>5 DEF writer_stops, DropWaiters, crash
  <1> QED
    BY <1>1, <1>2, <1>3, <1>4, <1>5

LEMMA WaitStep ==
  ASSUME Types, Bounded, ClosedInv, WriterInv, BatchInv, PlaceInv, WaitInv, [Next]_vars
  PROVE  WaitInv'
  <1>0. channel \in Seq(Message) /\ Len(channel) \in Nat /\ DurableAppends \subseteq Appends
    BY WalAssumption DEF Types
  <1>1. ASSUME NEW a \in Appends, callers'[a] = "queued"
        PROVE  a \in DurableAppends /\ Moving(a)'
    <2>1. CASE callers[a] = "queued"
      <3>1. a \in DurableAppends /\ Moving(a)
        BY <2>1 DEF WaitInv
      <3>2. ~writer_stops /\ ~crash
        BY <1>1, QueuedFacts
      <3>3. ASSUME maybe_sync, a \in ToSet(writer.batch) PROVE FALSE
        BY <3>1, <3>3 DEF WaitInv, maybe_sync
      <3>4. ASSUME sync_batch, a \in ToSet(writer.batch) PROVE FALSE
        <4>1. a \in pending_durable_acks
          BY <3>1, <3>4 DEF WaitInv, sync_batch
        <4> QED
          BY <1>1, <3>4, <4>1, QueuedFacts
      <3> QED
        BY <3>1, <3>2, <3>3, <3>4, MovingStep
    <2>2. CASE /\ a \in DurableAppends /\ writer.pc # "stopped"
               /\ writer' = writer /\ channel' = Append(channel, <<"record", a>>)
      <3>1. <<"record", a>> \in Message
        BY DEF Message
      <3>2. Len(channel) + 1 \in 1 .. Len(channel') /\ channel'[Len(channel) + 1] = <<"record", a>>
        BY <1>0, <2>2, <3>1
      <3>3. InChannel(a)'
        BY <3>2 DEF InChannel
      <3> QED
        BY <2>2, <3>3 DEF Moving
    <2> QED
      BY <1>1, <2>1, <2>2, QueuedFacts
  <1>2. ASSUME NEW a \in DurableAppends, Moving(a)'
        PROVE  callers'[a] = "queued"
    <2>0. a \in Appends
      BY <1>0
    <2>1. CASE Moving(a)
      <3>1. callers[a] = "queued"
        BY <2>1 DEF WaitInv
      <3>2. ~crash /\ ~writer_stops
        BY <1>2, CrashFacts, RollFacts, NoElements DEF Moving, InChannel, WriterIs
      <3>3. ASSUME a \in pending_durable_acks, roll_sync \/ sync_batch \/ sync_flush PROVE FALSE
        <4>1. writer.pc = "sync" /\ a \in ToSet(writer.batch)
          BY <3>3 DEF WriterInv
        <4>2. sync_batch
          BY <3>3, <4>1 DEF roll_sync, sync_flush
        <4>3. ToSet(writer'.batch) = {}
          BY <4>2, BatchFacts, NoElements DEF WriterIs
        <4>4. ~InChannel(a)
          BY <2>0, <4>1 DEF PlaceInv, InChannel
        <4>5. channel' = channel
          BY <4>2 DEF sync_batch
        <4> QED
          BY <1>2, <4>3, <4>4, <4>5 DEF Moving, InChannel
      <3> QED
        BY <2>0, <3>1, <3>2, <3>3, QueuedFacts
    <2>2. CASE send_request(a) /\ callers'[a] \in {"queued", "accepted"}
      BY <2>0, <2>2, QueuedFacts
    <2> QED
      BY <1>2, <2>0, <2>1, <2>2, MovingStep
  <1>3. /\ writer'.pc = "sync" => ToSet(writer'.batch) \cap DurableAppends \subseteq pending_durable_acks'
        /\ writer'.pc = "maybe_sync" => ToSet(writer'.batch) \cap DurableAppends = {}
    <2>1. CASE UNCHANGED <<writer, pending_durable_acks>>
      BY <2>1 DEF WaitInv
    <2>2. CASE recv \/ collect_batch
      BY <2>2, RecvFacts, CollectFacts DEF WriterIs
    <2>3. CASE roll_sync \/ roll_create \/ roll_header \/ write_all \/ writer_stops
      BY <2>3, RollFacts DEF WriterIs
    <2>4. CASE index_batch
      <3>1. /\ writer'.batch = writer.batch
            /\ writer'.pc = IF pending_durable_acks' # {} THEN "sync" ELSE "maybe_sync"
        BY <2>4, BatchFacts DEF WriterIs
      <3>2. ToSet(writer.batch) \cap DurableAppends \subseteq pending_durable_acks'
        BY <2>4 DEF index_batch
      <3> QED
        BY <3>1, <3>2
    <2>5. CASE maybe_sync
      <3>1. ToSet(writer.batch) \cap DurableAppends = {}
        BY <2>5 DEF WaitInv, maybe_sync
      <3>2. writer'.batch = writer.batch \/ ToSet(writer'.batch) = {}
        BY <2>5, BatchFacts, NoElements DEF WriterIs
      <3> QED
        BY <3>1, <3>2
    <2>6. CASE sync_batch \/ sync_flush
      BY <2>6, BatchFacts DEF WriterIs
    <2>7. CASE open_with_config
      BY <2>7, OpenedWriter DEF WriterIs
    <2>8. CASE crash
      BY <2>8, CrashFacts DEF WriterIs
    <2> QED
      BY <2>1, <2>2, <2>3, <2>4, <2>5, <2>6, <2>7, <2>8
      DEF Next, WriterStep, CompactorStep, vars, build_request, send_request, flush,
          compact_begin, compact_index, compact_list, compact_delete, compact_end, compact_fails,
          open_fails
  <1> QED
    BY <1>1, <1>2, <1>3 DEF WaitInv
\* What the refinement rests on, before and after a step.
LogInv == Inv /\ LostInv /\ WaitInv

LEMMA LogParts ==
  ASSUME LogInv
  PROVE  /\ Types /\ Bounded /\ ClosedInv /\ WriterInv /\ BatchInv /\ SegmentsInv /\ PlaceInv
         /\ LostInv /\ WaitInv
  BY DEF LogInv, Inv

\* The files as their readers see them.
SameFiles ==
  \A a \in Appends : (Held(a)' <=> Held(a)) /\ (OnDisk(a)' <=> OnDisk(a))

LEMMA FilesFacts ==
  ASSUME Types, DOMAIN segments' = DOMAIN segments,
         \A s \in DOMAIN segments : /\ segments'[s].recs = segments[s].recs
                                    /\ segments'[s].synced = segments[s].synced
  PROVE  SameFiles
  BY DEF SameFiles, Held, Holds, OnDisk

\* A step that leaves the files alone, sends nothing and stops nothing.
LEMMA QuietStep ==
  ASSUME Types, Types', Bounded, ClosedInv, WriterInv, BatchInv, [Next]_vars, ~crash, ~writer_stops,
         NEW a \in Appends, Fresh(a)' <=> Fresh(a), lost' = lost,
         Held(a)' <=> Held(a), OnDisk(a)' <=> OnDisk(a)
  PROVE  Life(a)' = Life(a)
  <1>1. Moving(a)' => Moving(a)
    BY MovingStep DEF Fresh
  <1>2. Moving(a) => Moving(a)' \/ a \in lost \/ Held(a)
    BY MovingStep
  <1> QED
    BY <1>1, <1>2, LifeFacts, LifeFactsNext

LEMMA SendRefines ==
  ASSUME LogInv, Types', [Next]_vars, NEW r \in Appends, send_request(r)
  PROVE  Log!LogNext
  <1>0. /\ Types /\ Bounded /\ ClosedInv /\ WriterInv /\ BatchInv /\ PlaceInv /\ LostInv
    BY LogParts
  <1>1. /\ callers[r] = "built" /\ UNCHANGED <<up, writer, segments, lost>>
        /\ \A a \in Appends \ {r} : callers'[a] = callers[a]
        /\ \/ /\ writer.pc # "stopped" /\ channel' = Append(channel, <<"record", r>>)
              /\ callers'[r] = IF r \in DurableAppends THEN "queued" ELSE "accepted"
           \/ channel' = channel /\ callers'[r] = "err"
    BY <1>0 DEF send_request, Types
  <1>2. SameFiles
    BY <1>0, <1>1, FilesFacts
  <1>3. ~crash /\ ~writer_stops
    <2>1. writer_stops => writer.pc # "stopped" /\ writer'.pc = "stopped"
      BY <1>0, RollFacts DEF WriterIs, writer_stops
    <2> QED
      BY <1>1, <2>1 DEF crash, send_request
  <1>4. ASSUME NEW a \in Appends \ {r} PROVE Life(a)' = Life(a) /\ Answer(a)' = Answer(a)
    <2>1. Fresh(a)' <=> Fresh(a)
      BY <1>1 DEF Fresh
    <2>2. callers'[a] = callers[a]
      BY <1>1
    <2>3. Life(a)' = Life(a)
      BY <1>0, <1>1, <1>2, <1>3, <2>1, QuietStep DEF SameFiles
    <2> QED
      BY <1>0, <2>2, <2>3, AnswerFacts, AnswerFactsNext
  <1>5. /\ Fresh(r) /\ ~Fresh(r)' /\ r \notin lost' /\ ~Held(r)' /\ r \notin ToSet(writer.batch)
        /\ ~InChannel(r)
    BY <1>0, <1>1, <1>2 DEF Fresh, LostInv, PlaceInv, SameFiles, Held, InChannel
  <1>6. Life(r) = "new" /\ Answer(r) = "none"
    BY <1>0, <1>1, <1>5, LifeFacts, AnswerFacts
  <1>7. CASE /\ writer.pc # "stopped" /\ channel' = Append(channel, <<"record", r>>)
             /\ callers'[r] = IF r \in DurableAppends THEN "queued" ELSE "accepted"
    <2>1. channel \in Seq(Message) /\ <<"record", r>> \in Message
      BY <1>0 DEF Types, Message
    <2>2. Len(channel) + 1 \in 1 .. Len(channel') /\ channel'[Len(channel) + 1] = <<"record", r>>
      BY <1>7, <2>1
    <2>3. Moving(r)'
      BY <1>1, <1>7, <2>2 DEF Moving, InChannel
    <2>4. Life(r)' = "queued"
      BY <1>5, <2>3, LifeFactsNext
    <2>5. Answer(r)' = IF r \in DurableAppends THEN Answer(r) ELSE "ok"
      BY <1>6, <1>7, AnswerFactsNext
    <2> QED
      BY <1>4, <1>6, <2>4, <2>5, SendMatches
  <1>8. CASE channel' = channel /\ callers'[r] = "err"
    <2>1. ~Moving(r)'
      BY <1>1, <1>5, <1>8 DEF Moving, InChannel
    <2>2. Life(r)' = "dropped" /\ Answer(r)' = "err"
      BY <1>5, <1>8, <2>1, LifeFactsNext, AnswerFactsNext
    <2> QED
      BY <1>4, <1>6, <2>2, SendMatches
  <1> QED
    BY <1>1, <1>7, <1>8

LEMMA WriteRefines ==
  ASSUME LogInv, Types', [Next]_vars, write_all
  PROVE  Log!LogNext
  <1>0. /\ Types /\ Bounded /\ ClosedInv /\ WriterInv /\ BatchInv /\ PlaceInv /\ LostInv
    BY LogParts
  <1>1. /\ UNCHANGED <<up, callers, channel>> /\ lost' = IF Linked THEN lost ELSE lost \cup ToSet(writer.batch)
        /\ writer.pc = "write" /\ writer'.pc = "index" /\ writer'.batch = writer.batch
    BY <1>0, RollFacts DEF write_all, WriterIs
  <1>2. ToSet(writer.batch) \in SUBSET Appends
    BY <1>0, ElementFacts DEF Types, Writer
  <1>3. \A a \in Appends : /\ Fresh(a)' <=> Fresh(a)
                           /\ Moving(a)' <=> Moving(a)
                           /\ Answer(a)' = Answer(a)
    BY <1>1 DEF Fresh, Moving, InChannel, Answer
  <1>4. ASSUME NEW a \in ToSet(writer.batch)
        PROVE  a \in Appends /\ ~Fresh(a) /\ a \notin lost /\ ~Held(a) /\ Moving(a)
    <2>1. a \in Appends /\ Moving(a)
      BY <1>1, <1>2 DEF Moving
    <2>2. ~Fresh(a) /\ ~Held(a)
      BY <1>0, <1>1, <2>1 DEF PlaceInv, Fresh, Held
    <2>3. a \notin lost
      BY <1>0, <1>1 DEF LostInv, Written
    <2> QED
      BY <2>1, <2>2, <2>3
  <1>5. \A a \in ToSet(writer.batch) : Life(a) = "queued"
    BY <1>0, <1>4, LifeFacts
  <1>6. ASSUME NEW a \in Appends
        PROVE  /\ Held(a)' <=> Held(a) \/ (Linked /\ a \in ToSet(writer.batch))
               /\ OnDisk(a)' <=> OnDisk(a)
    <2>1. Held(a)' => Held(a) \/ (Linked /\ a \in ToSet(writer.batch))
      BY <1>0, HoldsFacts DEF Held, Holds
    <2>2. ~crash /\ ~compact_delete
      BY <1>0, <1>1, DeletedFacts DEF crash, compact_delete
    <2>3. Held(a) => Held(a)'
      <3>1. ASSUME NEW s \in DOMAIN segments, Holds(s, a) PROVE Holds(s, a)'
        BY <1>0, <2>2, <3>1, HoldsFacts
      <3> QED
        BY <3>1 DEF Held, Holds
    <2>4. Linked /\ a \in ToSet(writer.batch) => Held(a)'
      <3>1. ASSUME Linked, a \in ToSet(writer.batch)
            PROVE  Holds(current_segment_seq, a)'
        BY <1>0, <3>1, HoldsFacts
      <3> QED
        BY <3>1 DEF Held, Holds
    <2>5. \A s \in DOMAIN segments :
            /\ segments[s].recs \in Seq(Appends) /\ segments[s].synced \in Nat
            /\ Len(segments[s].recs) \in Nat /\ segments[s].synced <= Len(segments[s].recs)
      BY <1>0 DEF Types, SegmentsType, Segment
    <2>6. writer.batch \in Seq(Appends)
      BY <1>0 DEF Types, Writer
    <2>7. ASSUME NEW s \in DOMAIN segments, NEW i \in 1 .. segments[s].synced
          PROVE  (segments[s].recs \o writer.batch)[i] = segments[s].recs[i]
      <3>1. PICK r : r = segments[s].recs
        OBVIOUS
      <3>2. PICK b : b = writer.batch
        OBVIOUS
      <3>3. r \in Seq(Appends) /\ b \in Seq(Appends) /\ i \in 1 .. Len(r)
        BY <2>5, <2>6, <3>1, <3>2
      <3>4. (r \o b)[i] = r[i]
        BY <3>3, ConcatFacts
      <3> QED
        BY <3>1, <3>2, <3>4
    <2>8. \A s \in DOMAIN segments : \A i \in 1 .. segments[s].synced :
            segments'[s].recs[i] = segments[s].recs[i]
      BY <1>0, <2>7, WrittenFacts
    <2>9. OnDisk(a)' <=> OnDisk(a)
      BY <1>0, <2>8, WrittenFacts DEF OnDisk
    <2> QED
      BY <2>1, <2>3, <2>4, <2>9
  <1>7. CASE Linked
    <2>1. ASSUME NEW a \in Appends
          PROVE  Life(a)' = IF a \in ToSet(writer.batch) THEN "written" ELSE Life(a)
      <3>1. a \in ToSet(writer.batch) => ~Fresh(a) /\ a \notin lost /\ ~Held(a) /\ ~OnDisk(a)
        BY <1>0, <1>4, LifeFacts
      <3> QED
        BY <1>0, <1>1, <1>3, <1>6, <1>7, <3>1, LifeFacts, LifeFactsNext
    <2> QED
      BY <1>2, <1>3, <1>5, <2>1, WriteMatches
  <1>8. CASE ~Linked
    <2>1. ASSUME NEW a \in Appends
          PROVE  Life(a)' = IF a \in ToSet(writer.batch) THEN "deleted" ELSE Life(a)
      <3>1. a \in ToSet(writer.batch) => ~Fresh(a)
        BY <1>4
      <3> QED
        BY <1>0, <1>1, <1>3, <1>6, <1>8, <3>1, LifeFacts, LifeFactsNext
    <2> QED
      BY <1>2, <1>3, <1>5, <2>1, WriteMatches
  <1> QED
    BY <1>7, <1>8
LEMMA SyncRefines ==
  ASSUME LogInv, Types', [Next]_vars, SyncOk, roll_sync \/ sync_batch \/ sync_flush
  PROVE  Log!LogNext
  <1>0. /\ Types /\ Bounded /\ ClosedInv /\ WriterInv /\ BatchInv /\ SegmentsInv /\ PlaceInv
        /\ LostInv /\ WaitInv
    BY LogParts
  <1>1. /\ up = "up" /\ UNCHANGED <<up, channel, lost>>
        /\ writer.pc \in {"roll_sync", "sync", "flush"} /\ writer'.pc # "stopped"
    <2>1. up = "up" /\ UNCHANGED <<up, channel, lost>>
      BY DEF roll_sync, sync_batch, sync_flush
    <2>2. writer.pc \in {"roll_sync", "sync", "flush"} /\ writer'.pc # "stopped"
      BY <1>0, RollFacts, BatchFacts DEF WriterIs
    <2> QED
      BY <2>1, <2>2
  <1>2. \A a \in Appends : callers'[a] = IF a \in pending_durable_acks THEN "ok" ELSE callers[a]
    BY DEF SyncOk
  <1>3. ~crash /\ ~writer_stops
    <2>1. writer_stops => writer'.pc = "stopped"
      BY <1>0, RollFacts DEF WriterIs
    <2> QED
      BY <1>1, <2>1 DEF crash
  <1>4. ASSUME NEW a \in pending_durable_acks
        PROVE  a \in Appends /\ callers[a] = "queued" /\ (a \in lost \/ Held(a))
    <2>1. a \in DurableAppends /\ a \in ToSet(writer.batch) /\ writer.pc = "sync"
      BY <1>0 DEF Types, WriterInv
    <2>2. a \in Appends /\ callers[a] = "queued"
      BY <1>0, <2>1, WalAssumption DEF WaitInv, Moving
    <2>3. a \in lost \/ Holds(current_segment_seq, a)
      BY <1>0, <2>1 DEF BatchInv
    <2> QED
      BY <2>2, <2>3 DEF Held, Holds
  <1>5. ASSUME NEW a \in Appends, callers[a] = "queued", a \in lost \/ Held(a)
        PROVE  a \in pending_durable_acks
    <2>1. a \in DurableAppends /\ Moving(a)
      BY <1>0, <1>5 DEF WaitInv
    <2>2. ~InChannel(a)
      BY <1>0, <1>5 DEF PlaceInv, LostInv, Held, InChannel
    <2>3. a \in ToSet(writer.batch)
      BY <2>1, <2>2 DEF Moving
    <2>4. writer.pc \in Written
      BY <1>0, <1>5, <2>3 DEF PlaceInv, LostInv, Held, Written
    <2>5. writer.pc = "sync"
      BY <1>1, <2>4 DEF Written
    <2> QED
      BY <1>0, <2>1, <2>3, <2>5 DEF WaitInv
  <1>6. ASSUME NEW a \in Appends
        PROVE  (Held(a)' <=> Held(a)) /\ (Held(a) => OnDisk(a)')
    <2>1. Held(a)' <=> Held(a)
      BY <1>0, SyncedFacts DEF Held, Holds
    <2>2. ASSUME NEW s \in DOMAIN segments, Holds(s, a) PROVE OnDisk(a)'
      <3>1. s = current_segment_seq \/ segments[s].synced = Len(segments[s].recs)
        BY <1>0, <1>1 DEF SegmentsInv
      <3> QED
        BY <1>0, <2>2, <3>1, SyncedOnDisk
    <2> QED
      BY <2>1, <2>2 DEF Held
  <1>7. ASSUME NEW a \in Appends
        PROVE  Life(a)' = IF Life(a) = "written" THEN "synced" ELSE Life(a)
    <2>1. Fresh(a)' <=> Fresh(a)
      BY <1>2, <1>4 DEF Fresh
    <2>2. Moving(a)' => Moving(a)
      BY <1>0, <2>1, MovingStep DEF Fresh
    <2>3. Moving(a) => Moving(a)' \/ a \in lost \/ Held(a)
      BY <1>0, <1>3, MovingStep
    <2>4. /\ Life(a) = IF Fresh(a) THEN "new" ELSE IF a \in lost THEN "deleted"
                       ELSE IF Held(a) THEN IF OnDisk(a) THEN "synced" ELSE "written"
                       ELSE IF Moving(a) THEN "queued" ELSE "dropped"
          /\ Life(a)' = IF Fresh(a)' THEN "new" ELSE IF a \in lost' THEN "deleted"
                        ELSE IF Held(a)' THEN IF OnDisk(a)' THEN "synced" ELSE "written"
                        ELSE IF Moving(a)' THEN "queued" ELSE "dropped"
      BY <1>0, LifeFacts, LifeFactsNext
    <2> QED
      BY <1>1, <1>6, <2>1, <2>2, <2>3, <2>4
  <1>8. ASSUME NEW a \in Appends
        PROVE  Answer(a)' = IF Answer(a) = "none" /\ Life(a) \in {"written", "synced", "deleted"}
                            THEN "ok" ELSE Answer(a)
    <2>1. Life(a) \in {"written", "synced", "deleted"} <=> ~Fresh(a) /\ (a \in lost \/ Held(a))
      BY <1>0, LifeFacts
    <2>2. a \in pending_durable_acks <=> callers[a] = "queued" /\ (a \in lost \/ Held(a))
      BY <1>4, <1>5
    <2>3. Fresh(a) <=> callers[a] \in {"idle", "built"}
      BY DEF Fresh
    <2>4. Answer(a) = "none" /\ ~Fresh(a) <=> callers[a] = "queued"
      BY <1>0, <2>3, AnswerFacts
    <2>5. CASE a \in pending_durable_acks
      <3>1. Answer(a)' = "ok"
        BY <1>2, <2>5, AnswerFactsNext
      <3> QED
        BY <2>1, <2>2, <2>4, <2>5, <3>1
    <2>6. CASE a \notin pending_durable_acks
      <3>1. callers'[a] = callers[a]
        BY <1>2, <2>6
      <3>2. Answer(a)' = Answer(a)
        BY <1>0, <3>1, AnswerFacts, AnswerFactsNext
      <3> QED
        BY <2>1, <2>2, <2>4, <2>6, <3>2
    <2> QED
      BY <2>5, <2>6
  <1> QED
    BY <1>7, <1>8, SyncMatches

LEMMA StopRefines ==
  ASSUME LogInv, Types', [Next]_vars, writer_stops
  PROVE  Log!LogNext
  <1>0. /\ Types /\ Bounded /\ ClosedInv /\ WriterInv /\ LostInv /\ WaitInv
    BY LogParts
  <1>1. /\ lost' = lost /\ writer'.pc = "stopped"
        /\ \A a \in Appends : callers'[a] = IF callers[a] = "queued" THEN "err" ELSE callers[a]
    BY <1>0, RollFacts DEF writer_stops, DropWaiters, WriterIs
  <1>2. SameFiles
    BY <1>0, TornFacts, FilesFacts DEF SameSegments
  <1>3. ASSUME NEW a \in Appends
        PROVE  /\ Life(a)' = IF Life(a) = "queued" THEN "dropped" ELSE Life(a)
               /\ Answer(a)' = IF Answer(a) = "none" /\ Life(a) # "new" THEN "err" ELSE Answer(a)
    <2>1. (Fresh(a)' <=> Fresh(a)) /\ (Fresh(a) <=> callers[a] \in {"idle", "built"})
      BY <1>1 DEF Fresh
    <2>2. ~Moving(a)' /\ (Held(a)' <=> Held(a)) /\ (OnDisk(a)' <=> OnDisk(a))
      BY <1>1, <1>2 DEF Moving, SameFiles
    <2>3. Life(a)' = IF Life(a) = "queued" THEN "dropped" ELSE Life(a)
      BY <1>0, <1>1, <2>1, <2>2, LifeFacts, LifeFactsNext
    <2>4. Life(a) = "new" <=> Fresh(a)
      BY <1>0, LifeFacts
    <2>5. CASE callers[a] = "queued"
      BY <1>0, <1>1, <2>1, <2>3, <2>4, <2>5, AnswerFacts, AnswerFactsNext
    <2>6. CASE callers[a] # "queued"
      <3>1. callers'[a] = callers[a]
        BY <1>1, <2>6
      <3>2. Answer(a)' = Answer(a)
        BY <1>0, <3>1, AnswerFacts, AnswerFactsNext
      <3>3. Answer(a) = "none" => Fresh(a)
        BY <1>0, <2>1, <2>6, AnswerFacts
      <3> QED
        BY <2>3, <2>4, <3>2, <3>3
    <2> QED
      BY <2>5, <2>6
  <1> QED
    BY <1>3, StopMatches

LEMMA DeleteRefines ==
  ASSUME LogInv, Types', [Next]_vars, compact_delete
  PROVE  Log!LogNext
  <1>0. /\ Types /\ Bounded /\ ClosedInv /\ WriterInv /\ PlaceInv /\ LostInv
    BY LogParts
  <1>1. PICK seq \in Nat :
          /\ DOMAIN segments' = DOMAIN segments \ {seq}
          /\ \A s \in DOMAIN segments' : segments'[s] = segments[s]
          /\ \A b : b \in lost' <=> b \in lost \/ Holds(seq, b)
    BY <1>0, DeletedFacts
  <1>2. UNCHANGED <<callers, channel, writer>>
    BY DEF compact_delete
  <1> DEFINE S == {a \in Appends : Holds(seq, a)}
  <1>3. \A a \in Appends : /\ Fresh(a)' <=> Fresh(a)
                           /\ Moving(a)' <=> Moving(a)
                           /\ Answer(a)' = Answer(a)
    BY <1>2 DEF Fresh, Moving, InChannel, Answer
  <1>4. ASSUME NEW a \in S
        PROVE  Life(a) \in {"written", "synced"} /\ ~Fresh(a)
    <2>1. Held(a)
      BY DEF Held, Holds
    <2>2. ~Fresh(a) /\ a \notin lost
      BY <1>0, <2>1 DEF Fresh, PlaceInv, LostInv, Held
    <2> QED
      BY <1>0, <2>1, <2>2, LifeFacts
  <1>5. ASSUME NEW a \in Appends \ S
        PROVE  (Held(a)' <=> Held(a)) /\ (OnDisk(a)' <=> OnDisk(a))
    <2>1. \A s \in DOMAIN segments : Holds(s, a) => s # seq
      OBVIOUS
    <2>2. Held(a)' <=> Held(a)
      BY <1>1, <2>1 DEF Held, Holds
    <2>3. \A s \in DOMAIN segments : \A i \in 1 .. segments[s].synced :
            segments[s].recs[i] = a => Holds(s, a)
      <3>1. \A s \in DOMAIN segments : /\ segments[s].synced \in Nat /\ Len(segments[s].recs) \in Nat
                                       /\ segments[s].synced <= Len(segments[s].recs)
        BY <1>0 DEF Types, SegmentsType, Segment
      <3>2. \A s \in DOMAIN segments : \A i \in 1 .. segments[s].synced : i \in 1 .. Len(segments[s].recs)
        BY <3>1
      <3> QED
        BY <1>0, <3>2, StoredFacts DEF Holds
    <2>4. OnDisk(a)' <=> OnDisk(a)
      BY <1>1, <2>1, <2>3 DEF OnDisk
    <2> QED
      BY <2>2, <2>4
  <1>6. ASSUME NEW a \in Appends
        PROVE  Life(a)' = IF a \in S THEN "deleted" ELSE Life(a)
    <2>1. CASE a \in S
      <3>1. a \in lost' /\ ~Fresh(a)'
        BY <1>1, <1>3, <1>4, <2>1
      <3> QED
        BY <2>1, <3>1, LifeFactsNext
    <2>2. CASE a \notin S
      <3>1. a \in lost' <=> a \in lost
        BY <1>1, <2>2
      <3> QED
        BY <1>0, <1>3, <1>5, <2>2, <3>1, LifeFacts, LifeFactsNext
    <2> QED
      BY <2>1, <2>2
  <1>7. S \in SUBSET Appends
    OBVIOUS
  <1> HIDE DEF S
  <1> QED
    BY <1>3, <1>4, <1>6, <1>7, DeleteMatches

LEMMA CrashRefines ==
  ASSUME LogInv, Types', [Next]_vars, crash
  PROVE  Log!LogNext
  <1>0. /\ Types /\ Bounded /\ PlaceInv /\ LostInv
    BY LogParts
  <1>1. /\ lost' = lost /\ \A a \in Appends : ~Moving(a)'
        /\ \A a \in Appends : /\ callers[a] \in {"built", "queued"} => callers'[a] = "err"
                              /\ callers[a] \notin {"built", "queued"} => callers'[a] = callers[a]
    BY <1>0, CrashFacts, NoElements DEF WriterIs, Moving, InChannel
  <1>2. ASSUME NEW a \in Appends
        PROVE  /\ Held(a)' => Held(a) /\ OnDisk(a)'
               /\ OnDisk(a) => OnDisk(a)' \/ a \in lost
    <2>1. ASSUME NEW s \in DOMAIN segments', Holds(s, a)'
          PROVE  Held(a) /\ OnDisk(a)'
      <3>1. /\ s \in DOMAIN segments /\ segments'[s].synced = Len(segments'[s].recs)
            /\ ToSet(segments'[s].recs) \subseteq ToSet(segments[s].recs)
            /\ a \in ToSet(segments'[s].recs)
        BY <1>0, <2>1, CrashedFacts DEF Holds
      <3>2. segments'[s].recs \in Seq(Appends)
        BY DEF Types, SegmentsType, Segment
      <3>3. PICK i \in 1 .. Len(segments'[s].recs) : segments'[s].recs[i] = a
        BY <3>1, <3>2, ElementFacts
      <3> QED
        BY <3>1, <3>3 DEF Held, Holds, OnDisk
    <2>2. OnDisk(a) => OnDisk(a)' \/ a \in lost
      BY <1>0, <1>1, OnDiskStep
    <2> QED
      BY <2>1, <2>2 DEF Held
  <1> DEFINE kept == {a \in Appends : Life(a) = "written" /\ Held(a)'}
             R    == {a \in Appends : callers[a] = "built"}
  <1>3. ASSUME NEW a \in Appends
        PROVE  /\ Fresh(a) <=> callers[a] \in {"idle", "built"}
               /\ Fresh(a)' <=> callers[a] = "idle"
               /\ callers[a] = "built" => a \notin lost /\ ~Held(a)
               /\ Life(a) = "new" <=> Fresh(a)
    <2>1. Fresh(a) <=> callers[a] \in {"idle", "built"}
      BY DEF Fresh
    <2>2. Fresh(a)' <=> callers[a] = "idle"
      BY <1>0, <1>1, AnswerFacts DEF Fresh
    <2>3. callers[a] = "built" => a \notin lost /\ ~Held(a)
      BY <1>0, <2>1 DEF LostInv, PlaceInv, Held
    <2> QED
      BY <1>0, <2>1, <2>2, <2>3, LifeFacts
  <1>4. ASSUME NEW a \in Appends
        PROVE  Life(a)' = IF a \in kept THEN "synced"
                          ELSE IF Life(a) \in {"queued", "written"} \/ a \in R
                          THEN "dropped" ELSE Life(a)
    <2>1. /\ Life(a) = IF Fresh(a) THEN "new" ELSE IF a \in lost THEN "deleted"
                       ELSE IF Held(a) THEN IF OnDisk(a) THEN "synced" ELSE "written"
                       ELSE IF Moving(a) THEN "queued" ELSE "dropped"
          /\ Life(a)' = IF Fresh(a)' THEN "new" ELSE IF a \in lost' THEN "deleted"
                        ELSE IF Held(a)' THEN IF OnDisk(a)' THEN "synced" ELSE "written"
                        ELSE IF Moving(a)' THEN "queued" ELSE "dropped"
          /\ OnDisk(a)' => Held(a)'
      BY <1>0, LifeFacts, LifeFactsNext
    <2> QED
      BY <1>1, <1>2, <1>3, <2>1
  <1>5. ASSUME NEW a \in Appends
        PROVE  Answer(a)' = IF (Answer(a) = "none" /\ Life(a) # "new") \/ a \in R
                            THEN "err" ELSE Answer(a)
    <2>1. CASE callers[a] \in {"built", "queued"}
      BY <1>0, <1>1, <1>3, <2>1, AnswerFacts, AnswerFactsNext
    <2>2. CASE callers[a] \notin {"built", "queued"}
      <3>1. callers'[a] = callers[a]
        BY <1>1, <2>2
      <3>2. Answer(a)' = Answer(a)
        BY <1>0, <3>1, AnswerFacts, AnswerFactsNext
      <3>3. Answer(a) = "none" => Fresh(a)
        BY <1>0, <1>3, <2>2, AnswerFacts
      <3> QED
        BY <1>3, <2>2, <3>2, <3>3
    <2> QED
      BY <2>1, <2>2
  <1>6. /\ kept \in SUBSET Appends /\ R \in SUBSET Appends
        /\ \A a \in kept : Life(a) = "written"
        /\ \A a \in R : Life(a) = "new"
    BY <1>3
  <1> HIDE DEF kept, R
  <1> QED
    BY <1>4, <1>5, <1>6, CrashMatches
\* The other steps show nothing: a record moves between channel and batch, a
\* roll starts a file, the index or the compactor's lists change, the log opens.
LEMMA RestRefines ==
  ASSUME LogInv, Types', [Next]_vars, ~crash, ~writer_stops, ~write_all, ~compact_delete,
         \A a \in Appends : ~send_request(a),
         ~(SyncOk /\ (roll_sync \/ sync_batch \/ sync_flush))
  PROVE  UNCHANGED Log!logVars
  <1>0. /\ Types /\ Bounded /\ ClosedInv /\ WriterInv /\ BatchInv
    BY LogParts
  <1>1. ~roll_sync /\ ~sync_batch /\ (sync_flush => SyncErr)
    BY DEF roll_sync, sync_batch, sync_flush
  <1>2. lost' = lost
    BY <1>1
    DEF Next, WriterStep, CompactorStep, vars, build_request, flush, recv,
        collect_batch, roll_create, roll_header, index_batch, maybe_sync, sync_flush,
        compact_begin, compact_index, compact_list, compact_end, compact_fails,
        open_with_config, open_fails
  <1>3. SameFiles
    <2>1. CASE UNCHANGED segments
      BY <1>0, <2>1, FilesFacts
    <2>2. CASE roll_create
      <3>1. \A a : Held(a)' <=> Held(a)
        BY <1>0, <2>2, CreatedFacts, NoElements DEF Held, Holds
      <3>2. \A a : OnDisk(a)' <=> OnDisk(a)
        BY <1>0, <2>2, CreatedFacts DEF OnDisk
      <3> QED
        BY <3>1, <3>2 DEF SameFiles
    <2>3. CASE roll_header
      BY <1>0, <2>3, HeaderFacts, FilesFacts DEF SameSegments
    <2>4. CASE open_with_config
      <3>1. CASE segments' = segments
        BY <2>1, <3>1
      <3>2. CASE /\ DOMAIN segments = {} /\ DOMAIN segments' = {1}
                 /\ segments'[1].recs = <<>> /\ segments'[1].synced = 0
        BY <3>2, NoElements DEF SameFiles, Held, Holds, OnDisk
      <3> QED
        BY <1>0, <2>4, <3>1, <3>2, OpenedFacts
    <2> QED
      BY <1>1, <2>1, <2>2, <2>3, <2>4
      DEF Next, WriterStep, CompactorStep, vars, build_request, flush, recv,
          collect_batch, index_batch, maybe_sync, sync_flush, SyncErr,
          compact_begin, compact_index, compact_list, compact_end, compact_fails, open_fails
  <1>4. ASSUME NEW a \in Appends
        PROVE  \/ callers'[a] = callers[a]
               \/ callers[a] = "idle" /\ callers'[a] = "built"
    <2>1. ASSUME NEW b \in Appends, build_request(b)
          PROVE  \/ callers'[a] = callers[a]
                 \/ callers[a] = "idle" /\ callers'[a] = "built"
      BY <1>0, <2>1 DEF build_request, Types
    <2>2. CASE sync_flush
      <3>1. pending_durable_acks = {}
        BY <1>0, <2>2 DEF sync_flush, WriterInv
      <3> QED
        BY <1>1, <2>2, <3>1 DEF SyncErr
    <2> QED
      BY <1>1, <2>1, <2>2
      DEF Next, WriterStep, CompactorStep, vars, flush, recv,
          collect_batch, roll_create, roll_header, index_batch, maybe_sync,
          compact_begin, compact_index, compact_list, compact_end, compact_fails,
          open_with_config, open_fails
  <1>5. ASSUME NEW a \in Appends PROVE Life(a)' = Life(a) /\ Answer(a)' = Answer(a)
    <2>1. Fresh(a)' <=> Fresh(a)
      BY <1>4 DEF Fresh
    <2>2. Life(a)' = Life(a)
      BY <1>0, <1>2, <1>3, <2>1, QuietStep DEF SameFiles
    <2>3. Answer(a)' = Answer(a)
      BY <1>0, <1>4, AnswerFacts, AnswerFactsNext
    <2> QED
      BY <2>2, <2>3
  <1> QED
    BY <1>5, StutterMatches

\* append, append_durable, flush, the writer, compact_below and open_with_config
\* together implement the durable log: rolls, batching and index are invisible, a
\* synced record is never dropped, one sync covers every segment, and Ok comes
\* from the sync that found the record written.
THEOREM LogImplementsContract == Spec => LogContract
  <1>1. Init => LogInv /\ Log!LogInit
    <2> SUFFICES ASSUME Init PROVE LogInv /\ Log!LogInit
      OBVIOUS
    <2>1. Inv
      BY InitInv
    <2>2. /\ lost = {} /\ channel = <<>> /\ writer = IdleWriter(0)
          /\ callers = [a \in Appends |-> "idle"]
      BY DEF Init
    <2>3. writer.pc = "recv" /\ ToSet(writer.batch) = {}
      BY <2>2, NoElements DEF IdleWriter
    <2>4. \A a : ~Moving(a)
      BY <2>2, <2>3 DEF Moving, InChannel
    <2>5. LostInv /\ WaitInv
      BY <2>2, <2>3, <2>4, WalAssumption DEF LostInv, WaitInv
    <2>6. \A a \in Appends : Life(a) = "new" /\ Answer(a) = "none"
      BY <2>2 DEF Life, Answer
    <2> QED
      BY <2>1, <2>5, <2>6 DEF LogInv, Log!LogInit
  <1>2. ASSUME LogInv, [Next]_vars
        PROVE  LogInv' /\ [Log!LogNext]_(Log!logVars)
    <2>0. Inv /\ Inv'
      BY <1>2, NextInv DEF LogInv
    <2>1. Types'
      BY <2>0 DEF Inv
    <2>2. LostInv' /\ WaitInv'
      BY <1>2, LogParts, LostStep, WaitStep
    <2>3. Log!LogNext \/ UNCHANGED Log!logVars
      BY <1>2, <2>1, SendRefines, WriteRefines, SyncRefines, StopRefines, DeleteRefines,
         CrashRefines, RestRefines
    <2> QED
      BY <2>0, <2>2, <2>3 DEF LogInv
  <1> QED
    BY <1>1, <1>2, PTL DEF Spec, LogContract, Log!LogSpec
====
