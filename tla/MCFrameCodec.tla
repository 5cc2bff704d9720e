----------------------------- MODULE MCFrameCodec -----------------------------
EXTENDS FrameCodec

CONSTANTS Bytes, MaxPayload

\* Every byte string over bytes that are lengths, flags, text and no text.
MCPayloads(n) == UNION {[1 .. k -> Bytes] : k \in 0 .. n}

\* A PING, a part of one, and frames that are too short, too long and of no
\* known type.
MCPing == Put(1 + U64, U32) \o <<PING>> \o Put(2, U64)
MCRest ==
  {MCPing, Take(MCPing, U32 - 1), Take(MCPing, U32 + 1), Put(U64, U32) \o <<PING>>,
   Put(MAX_FRAME_SIZE + 1, U32), Put(1 + U64, U32) \o <<DELIVER + 1>> \o Put(2, U64)}

\* A frame of a structured type with any payload, or one of any type with a
\* short payload and something behind it.
MCStreams ==
  {encode_frame(Frame(type, 1, p))[1] :
     type \in {PUBLISH, SUBSCRIBE, DELIVER}, p \in MCPayloads(MaxPayload)}
  \cup {encode_frame(Frame(type, 1, p))[1] \o rest :
          type \in FrameTypes, p \in MCPayloads(2), rest \in MCRest}
=============================================================================
