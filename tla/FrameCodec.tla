------------------------------ MODULE FrameCodec ------------------------------
(***************************************************************************)
(* The wire format (net/src/frame.rs) and the loop that takes frames out of *)
(* the bytes a connection reads (ReaderState::run).  The layout is the      *)
(* code's; what is scaled down is the number of values of a byte (Base, 256 *)
(* in the code) and the width of the integer fields (U16, U32, U64: 2, 4    *)
(* and 8 bytes), so that short byte strings reach every branch.  The flags  *)
(* of a qos byte are its two highest bits, as 0x80 and 0x40 are; a byte has *)
(* at least four, so that they are not the two bits of the qos.             *)
(*                                                                         *)
(* A decoder reads the fields in order and stops at the first check that    *)
(* fails.  Reading past the end of its bytes, a panic in the code, is an    *)
(* evaluation error here.                                                   *)
(***************************************************************************)
EXTENDS Integers, Sequences

CONSTANTS
  Base,                \* values of a byte
  U16, U32, U64,       \* bytes of an integer field
  MAX_FRAME_SIZE,
  Streams              \* what a peer may send on a connection

\* The number of values of n bytes.
Power[n \in Nat] == IF n = 0 THEN 1 ELSE Base * Power[n - 1]

ASSUME CodecAssumption ==
  /\ Base \in Nat /\ Base % 16 = 0 /\ Base >= 16
  /\ {U16, U32, U64} \subseteq Nat \ {0}
  /\ MAX_FRAME_SIZE \in 1 + U64 .. Power[U32] - 1
  /\ Streams \subseteq Seq(0 .. Base - 1)

Take(s, n) == SubSeq(s, 1, n)
Drop(s, n) == SubSeq(s, n + 1, Len(s))

\* BufMut::put_u16, put_u32, put_u64 and Buf::get_u16 ...: big-endian.
Put(n, width) == [i \in 1 .. width |-> (n \div Power[width - i]) % Base]
Get(s) ==
  LET value[n \in 0 .. Len(s)] == IF n = 0 THEN 0 ELSE value[n - 1] * Base + s[n]
  IN value[Len(s)]

\* std::str::from_utf8; text is ASCII here.
Utf8(s) == \A i \in DOMAIN s : s[i] < Base \div 2

\* An Option and a Result is a sequence of at most one element; no caller tells
\* the errors apart.
None == <<>>
Some(x) == <<x>>

FitsU16(s) == Len(s) < Power[U16]

\* A length and the bytes it counts.
Prefixed(s) == Put(Len(s), U16) \o s

HIGH_FLAG == Base \div 2
LOW_FLAG  == Base \div 4
Flagged(byte, flag) == (byte \div flag) % 2 = 1
QosOf(byte) == byte % 4
QosByte(qos, high, low) ==
  QosOf(qos) + (IF high # None THEN HIGH_FLAG ELSE 0) + (IF low # None THEN LOW_FLAG ELSE 0)

-----------------------------------------------------------------------------
(* Payloads.                                                               *)

decode_hello(p) == IF Len(p) # U16 THEN None ELSE Some([protocol_version |-> Get(p)])
encode_hello(r) == Some(Put(r.protocol_version, U16))

\* ACK and POLL.
decode_id(p) == IF Len(p) # U64 THEN None ELSE Some([subscription_id |-> Get(p)])
encode_id(r) == Some(Put(r.subscription_id, U64))

decode_auth(p) ==
  LET key == Drop(p, U16)
  IN IF Len(p) < U16 \/ Len(key) # Get(Take(p, U16)) \/ ~Utf8(key)
     THEN None ELSE Some([api_key |-> key])
encode_auth(r) == IF FitsU16(r.api_key) THEN Some(Prefixed(r.api_key)) ELSE None

decode_nack(p) ==
  LET message == Drop(p, 2 * U16)
  IN IF Len(p) < 2 * U16 \/ Len(message) # Get(SubSeq(p, U16 + 1, 2 * U16)) \/ ~Utf8(message)
     THEN None ELSE Some([code |-> Get(Take(p, U16)), message |-> message])
encode_nack(r) ==
  IF FitsU16(r.message) THEN Some(Put(r.code, U16) \o Prefixed(r.message)) ELSE None

\* [qos][ttl, if flagged][key, if flagged][topic][message]
decode_publish(p) ==
  LET has_ttl   == Flagged(p[1], HIGH_FLAG)
      has_key   == Flagged(p[1], LOW_FLAG)
      at_key    == 1 + IF has_ttl THEN U32 ELSE 0
      at_topic  == at_key + IF has_key THEN U16 + Get(SubSeq(p, at_key + 1, at_key + U16)) ELSE 0
      at_text   == at_topic + U16
      at_message == at_text + Get(SubSeq(p, at_topic + 1, at_text))
      topic     == SubSeq(p, at_text + 1, at_message)
  IN IF \/ Len(p) < 1 + U16
        \/ Len(p) < at_key
        \/ has_key /\ (Len(p) < at_key + U16 \/ Len(p) < at_topic)
        \/ Len(p) < at_text
        \/ Len(p) < at_message
        \/ ~Utf8(topic)
     THEN None
     ELSE Some([qos |-> QosOf(p[1]), topic |-> topic, message |-> Drop(p, at_message),
           ttl_ms |-> IF has_ttl THEN Some(Get(SubSeq(p, 2, at_key))) ELSE None,
           partition_key |-> IF has_key THEN Some(SubSeq(p, at_key + U16 + 1, at_topic))
                             ELSE None])

\* Slip: the key goes before the ttl.
encode_publish_key_first(r) ==
  IF ~FitsU16(r.topic) \/ ~\A i \in DOMAIN r.partition_key : FitsU16(r.partition_key[i])
  THEN None
  ELSE Some(<<QosByte(r.qos, r.ttl_ms, r.partition_key)>>
       \o (IF r.partition_key = None THEN <<>> ELSE Prefixed(r.partition_key[1]))
       \o (IF r.ttl_ms = None THEN <<>> ELSE Put(r.ttl_ms[1], U32))
       \o Prefixed(r.topic) \o r.message)

encode_publish(r) ==
  IF ~FitsU16(r.topic) \/ ~\A i \in DOMAIN r.partition_key : FitsU16(r.partition_key[i])
  THEN None
  ELSE Some(<<QosByte(r.qos, r.ttl_ms, r.partition_key)>>
       \o (IF r.ttl_ms = None THEN <<>> ELSE Put(r.ttl_ms[1], U32))
       \o (IF r.partition_key = None THEN <<>> ELSE Prefixed(r.partition_key[1]))
       \o Prefixed(r.topic) \o r.message)

\* [topic][qos][group, if flagged][offset, if flagged]; what follows is ignored.
decode_subscribe(p) ==
  LET at_qos    == U16 + Get(Take(p, U16))
      topic     == SubSeq(p, U16 + 1, at_qos)
      byte      == p[at_qos + 1]
      has_group == Flagged(byte, HIGH_FLAG)
      has_offset == Flagged(byte, LOW_FLAG)
      at_text   == at_qos + 1 + U16
      at_offset == IF has_group THEN at_text + Get(SubSeq(p, at_qos + 2, at_text))
                   ELSE at_qos + 1
      group     == SubSeq(p, at_text + 1, at_offset)
  IN IF \/ Len(p) < U16 + 1
        \/ Len(p) < at_qos + 1
        \/ ~Utf8(topic)
        \/ has_group /\ (Len(p) < at_text \/ Len(p) < at_offset \/ ~Utf8(group))
        \/ has_offset /\ Len(p) < at_offset + U64
     THEN None
     ELSE Some([topic |-> topic, qos |-> QosOf(byte),
           group |-> IF has_group THEN Some(group) ELSE None,
           from_offset |-> IF has_offset
                           THEN Some(Get(SubSeq(p, at_offset + 1, at_offset + U64))) ELSE None])

encode_subscribe(r) ==
  IF ~FitsU16(r.topic) \/ ~\A i \in DOMAIN r.group : FitsU16(r.group[i])
  THEN None
  ELSE Some(Prefixed(r.topic) \o <<QosByte(r.qos, r.group, r.from_offset)>>
       \o (IF r.group = None THEN <<>> ELSE Prefixed(r.group[1]))
       \o (IF r.from_offset = None THEN <<>> ELSE Put(r.from_offset[1], U64)))

\* [qos][tag][topic][message]
decode_deliver(p) ==
  LET at_topic == 1 + U64 + U16
      at_message == at_topic + Get(SubSeq(p, 2 + U64, at_topic))
      topic    == SubSeq(p, at_topic + 1, at_message)
  IN IF Len(p) < at_topic \/ Len(p) < at_message \/ ~Utf8(topic)
     THEN None
     ELSE Some([qos |-> p[1], delivery_tag |-> Get(SubSeq(p, 2, 1 + U64)), topic |-> topic,
           message |-> Drop(p, at_message)])

encode_deliver(r) ==
  IF ~FitsU16(r.topic) THEN None
  ELSE Some(<<r.qos>> \o Put(r.delivery_tag, U64) \o Prefixed(r.topic) \o r.message)

-----------------------------------------------------------------------------
(* Frames: [length][type][correlation id][payload].                        *)

HELLO == 1
AUTH == 2
PUBLISH == 3
SUBSCRIBE == 4
ACK == 5
NACK == 6
PING == 7
PONG == 8
POLL == 9
DELIVER == 10
FrameTypes == HELLO .. DELIVER

Frame(type, id, payload) == [msg_type |-> type, correlation_id |-> id, payload |-> payload]

\* The bytes of a body, behind its length.
Framed(body) == IF Len(body) > MAX_FRAME_SIZE THEN None ELSE Some(Put(Len(body), U32) \o body)

encode_frame(f) == Framed(<<f.msg_type>> \o Put(f.correlation_id, U64) \o f.payload)

\* Slip: the length counts one tag, and the frame has two.
encode_deliver_frame_short(qos, tag, topic, message) ==
  IF ~FitsU16(topic) THEN None
  ELSE LET len == 1 + U64 + 1 + U16 + Len(topic) + Len(message)
       IN IF len > MAX_FRAME_SIZE THEN None
          ELSE Some(Put(len, U32) \o <<DELIVER>> \o Put(tag, U64) \o <<qos>>
                    \o Put(tag, U64) \o Prefixed(topic) \o message)

\* A DELIVER frame in one pass, with the tag as its correlation id.
encode_deliver_frame(qos, tag, topic, message) ==
  IF ~FitsU16(topic) THEN None
  ELSE LET len == 1 + U64 + 1 + U64 + U16 + Len(topic) + Len(message)
       IN IF len > MAX_FRAME_SIZE THEN None
          ELSE Some(Put(len, U32) \o <<DELIVER>> \o Put(tag, U64) \o <<qos>>
                    \o Put(tag, U64) \o Prefixed(topic) \o message)

\* What try_decode_frame returns, unless it fails: a frame or nothing yet, and
\* the bytes it leaves.
Result(frame, rest) == Some([frame |-> frame, rest |-> rest])

\* Slip: the length is compared with all the bytes, itself included.
try_decode_early(src) ==
  LET frame_len == Get(Take(src, U32))
      body      == SubSeq(src, U32 + 1, IF U32 + frame_len <= Len(src) THEN U32 + frame_len ELSE Len(src))
  IN IF Len(src) < U32 THEN Result(None, src)
     ELSE IF frame_len > MAX_FRAME_SIZE \/ frame_len < 1 + U64 THEN None
     ELSE IF Len(src) < frame_len \/ Len(body) < 1 + U64 THEN Result(None, src)
     ELSE IF body[1] \notin FrameTypes THEN None
     ELSE Result(Some(Frame(body[1], Get(SubSeq(body, 2, 1 + U64)), Drop(body, 1 + U64))),
                 IF U32 + frame_len <= Len(src) THEN Drop(src, U32 + frame_len) ELSE <<>>)

try_decode_frame(src) ==
  LET frame_len == Get(Take(src, U32))
      body      == SubSeq(src, U32 + 1, U32 + frame_len)
  IN IF Len(src) < U32 THEN Result(None, src)
     ELSE IF frame_len > MAX_FRAME_SIZE \/ frame_len < 1 + U64 THEN None
     ELSE IF Len(src) < U32 + frame_len THEN Result(None, src)
     ELSE IF body[1] \notin FrameTypes THEN None
     ELSE Result(Some(Frame(body[1], Get(SubSeq(body, 2, 1 + U64)), Drop(body, 1 + U64))),
                 Drop(src, U32 + frame_len))

-----------------------------------------------------------------------------
(* ReaderState::run.                                                       *)

VARIABLES
  input,       \* history: all the peer sends
  network,     \* what of it is still to arrive
  read_buf,
  frames,      \* history: the frames process_frame was given
  pc           \* "read" from the stream, "decode", or "closed"

vars == <<input, network, read_buf, frames, pc>>

Init ==
  /\ input \in Streams /\ network = input
  /\ read_buf = <<>> /\ frames = <<>> /\ pc = "read"

\* read_buf: any part of what has arrived; none when the peer has closed.
read ==
  /\ pc = "read"
  /\ IF network = <<>>
     THEN pc' = "closed" /\ UNCHANGED <<network, read_buf>>
     ELSE \E n \in 1 .. Len(network) :
            /\ read_buf' = read_buf \o Take(network, n)
            /\ network' = Drop(network, n)
            /\ pc' = "decode"
  /\ UNCHANGED <<input, frames>>

\* One turn of the loop over try_decode_frame.
decode_next ==
  /\ pc = "decode"
  /\ LET result == try_decode_frame(read_buf)
     IN IF result = None THEN pc' = "closed" /\ UNCHANGED <<read_buf, frames>>
        ELSE /\ pc' = IF result[1].frame = None THEN "read" ELSE "decode"
             /\ read_buf' = result[1].rest
             /\ frames' = frames \o result[1].frame
  /\ UNCHANGED <<input, network>>

Next == read \/ decode_next

Spec == Init /\ [][Next]_vars

-----------------------------------------------------------------------------
(* Properties.                                                             *)

\* The bytes of some frames, one behind the other.
Joined(fs) ==
  LET bytes[n \in 0 .. Len(fs)] ==
        IF n = 0 THEN <<>> ELSE bytes[n - 1] \o encode_frame(fs[n])[1]
  IN bytes[Len(fs)]

\* However the bytes are cut on their way, the frames taken out so far are
\* those the peer put in, in order, and the rest is still there; and the reader
\* does not go back to reading with a whole frame in its buffer.
Reassembly ==
  /\ Joined(frames) \o read_buf \o network = input
  /\ pc = "read" /\ Len(read_buf) >= U32 => Len(read_buf) < U32 + Get(Take(read_buf, U32))

Decoded(f) ==
  CASE f.msg_type = HELLO -> decode_hello(f.payload)
    [] f.msg_type = AUTH -> decode_auth(f.payload)
    [] f.msg_type = PUBLISH -> decode_publish(f.payload)
    [] f.msg_type = SUBSCRIBE -> decode_subscribe(f.payload)
    [] f.msg_type \in {ACK, POLL} -> decode_id(f.payload)
    [] f.msg_type = NACK -> decode_nack(f.payload)
    [] f.msg_type = DELIVER -> decode_deliver(f.payload)
    [] OTHER -> None

Encoded(type, r) ==
  CASE type = HELLO -> encode_hello(r)
    [] type = AUTH -> encode_auth(r)
    [] type = PUBLISH -> encode_publish(r)
    [] type = SUBSCRIBE -> encode_subscribe(r)
    [] type \in {ACK, POLL} -> encode_id(r)
    [] type = NACK -> encode_nack(r)
    [] type = DELIVER -> encode_deliver(r)

\* A payload that decodes, whatever its bytes, encodes again, in no more bytes,
\* to one that decodes to the same.
RoundTrip ==
  \A i \in DOMAIN frames :
    LET f == frames[i]
        again == Encoded(f.msg_type, Decoded(f)[1])
    IN Decoded(f) # None =>
         /\ again # None
         /\ Len(again[1]) <= Len(f.payload)
         /\ Decoded([f EXCEPT !.payload = again[1]]) = Decoded(f)

\* The one-pass encoding of a delivery is the two-pass one, refused when that
\* is; the client reads from it, in one frame, the message that was published,
\* and finds the tag in both places.
DeliverMirrors ==
  \A i \in DOMAIN frames :
    LET f == frames[i]
        p == Decoded(f)[1]
        tag == f.correlation_id
        r == [qos |-> p.qos, delivery_tag |-> tag, topic |-> p.topic, message |-> p.message]
        frame == Frame(DELIVER, tag, encode_deliver(r)[1])
        bytes == encode_deliver_frame(p.qos, tag, p.topic, p.message)
    IN f.msg_type = PUBLISH /\ Decoded(f) # None =>
         /\ bytes = encode_frame(frame)
         /\ bytes # None =>
              /\ try_decode_frame(bytes[1]) = Result(Some(frame), <<>>)
              /\ Decoded(frame) = Some(r)
=============================================================================
