------------------------ MODULE SubscriberQueueProofs ------------------------
(***************************************************************************)
(* Proofs about SubscriberQueue, for every capacity, retry limit, delay,   *)
(* set of TTLs, number of messages and length of time.                     *)
(***************************************************************************)
EXTENDS SubscriberQueue, FiniteSetTheorems, TLAPS

-----------------------------------------------------------------------------
(* The maps of module Maps, and Range.                                     *)

LEMMA PutFacts ==
  ASSUME NEW f, NEW k, NEW v
  PROVE  /\ DOMAIN Put(f, k, v) = DOMAIN f \cup {k}
         /\ Put(f, k, v)[k] = v
         /\ \A x \in DOMAIN f : x # k => Put(f, k, v)[x] = f[x]
  BY DEF Put

LEMMA DropFacts ==
  ASSUME NEW f, NEW K
  PROVE  /\ DOMAIN Drop(f, K) = DOMAIN f \ K
         /\ \A x \in DOMAIN f \ K : Drop(f, K)[x] = f[x]
  BY DEF Drop

LEMMA PutAllFacts ==
  ASSUME NEW f, NEW K, NEW v
  PROVE  /\ DOMAIN PutAll(f, K, v) = DOMAIN f \cup K
         /\ \A x \in K : PutAll(f, K, v)[x] = v
         /\ \A x \in DOMAIN f \ K : PutAll(f, K, v)[x] = f[x]
  BY DEF PutAll

-----------------------------------------------------------------------------
(* The deque.                                                              *)

LEMMA RangeFacts ==
  ASSUME NEW S, NEW s \in Seq(S)
  PROVE  \A x : x \in Range(s) <=> \E i \in 1 .. Len(s) : s[i] = x
  BY DEF Range

\* Popping the first k elements of a deque without duplicates.
LEMMA RestFacts ==
  ASSUME NEW S, NEW s \in Seq(S), NEW k \in 0 .. Len(s)
  PROVE  LET r == SubSeq(s, k + 1, Len(s)) IN
         /\ r \in Seq(S)
         /\ Len(r) = Len(s) - k
         /\ \A i \in 1 .. (Len(s) - k) : r[i] = s[k + i]
         /\ Range(r) \subseteq Range(s)
         /\ Range(s) \subseteq Range(r) \cup {s[i] : i \in 1 .. k}
         /\ Unique(s) => Unique(r)
  <1> DEFINE r == SubSeq(s, k + 1, Len(s))
  <1>1. /\ r \in Seq(S) /\ Len(r) = Len(s) - k
        /\ \A i \in 1 .. (Len(s) - k) : r[i] = s[k + i]
    OBVIOUS
  <1> HIDE DEF r
  <1>2. ASSUME NEW x \in Range(r) PROVE x \in Range(s)
    <2>1. PICK i \in 1 .. Len(r) : r[i] = x
      BY <1>1, <1>2, RangeFacts
    <2>2. k + i \in 1 .. Len(s) /\ s[k + i] = x
      BY <1>1, <2>1
    <2> QED
      BY <2>2, RangeFacts
  <1>3. ASSUME NEW x \in Range(s), x \notin {s[i] : i \in 1 .. k} PROVE x \in Range(r)
    <2>1. PICK j \in 1 .. Len(s) : s[j] = x
      BY <1>3 DEF Range
    <2>2. j - k \in 1 .. (Len(s) - k) /\ k + (j - k) = j
      BY <1>3, <2>1
    <2>3. r[j - k] = x
      BY <1>1, <2>1, <2>2
    <2> QED
      BY <1>1, <2>2, <2>3, RangeFacts
  <1>4. ASSUME Unique(s) PROVE Unique(r)
    <2> SUFFICES ASSUME NEW i \in 1 .. Len(r), NEW j \in 1 .. Len(r), r[i] = r[j] PROVE i = j
      BY DEF Unique
    <2>1. s[k + i] = s[k + j] /\ k + i \in 1 .. Len(s) /\ k + j \in 1 .. Len(s)
      BY <1>1
    <2> QED
      BY <1>1, <1>4, <2>1 DEF Unique
  <1> QED
    BY <1>1, <1>2, <1>3, <1>4 DEF r

\* Appending a sequence to a deque it shares no element with.
LEMMA ConcatFacts ==
  ASSUME NEW S, NEW s \in Seq(S), NEW t \in Seq(S)
  PROVE  /\ s \o t \in Seq(S)
         /\ Len(s \o t) = Len(s) + Len(t)
         /\ \A i \in 1 .. Len(s) : (s \o t)[i] = s[i]
         /\ \A i \in 1 .. Len(t) : (s \o t)[Len(s) + i] = t[i]
         /\ Range(s \o t) = Range(s) \cup Range(t)
         /\ Unique(s) /\ Unique(t) /\ Range(s) \cap Range(t) = {} => Unique(s \o t)
  <1> DEFINE r == s \o t
  <1>1. /\ r \in Seq(S) /\ Len(r) = Len(s) + Len(t)
        /\ \A i \in 1 .. Len(s) : r[i] = s[i]
        /\ \A i \in 1 .. Len(t) : r[Len(s) + i] = t[i]
    OBVIOUS
  <1> HIDE DEF r
  <1>2. ASSUME NEW i \in 1 .. Len(r)
        PROVE  \/ i \in 1 .. Len(s) /\ r[i] = s[i]
               \/ i - Len(s) \in 1 .. Len(t) /\ r[i] = t[i - Len(s)]
    <2>1. CASE i \in 1 .. Len(s)
      BY <1>1, <2>1
    <2>2. CASE i \notin 1 .. Len(s)
      <3>1. i - Len(s) \in 1 .. Len(t) /\ Len(s) + (i - Len(s)) = i
        BY <1>1, <2>2
      <3> QED
        BY <1>1, <3>1
    <2> QED
      BY <2>1, <2>2
  <1>3. ASSUME NEW x \in Range(r) PROVE x \in Range(s) \cup Range(t)
    <2>1. PICK i \in 1 .. Len(r) : r[i] = x
      BY <1>1, <1>3, RangeFacts
    <2> QED
      BY <1>2, <2>1, RangeFacts
  <1>4. Range(s) \subseteq Range(r)
    BY <1>1 DEF Range
  <1>5. ASSUME NEW x \in Range(t) PROVE x \in Range(r)
    <2>1. PICK i \in 1 .. Len(t) : t[i] = x
      BY <1>5 DEF Range
    <2>2. Len(s) + i \in 1 .. Len(r)
      BY <1>1
    <2> QED
      BY <1>1, <2>1, <2>2, RangeFacts
  <1>6. ASSUME Unique(s), Unique(t), Range(s) \cap Range(t) = {} PROVE Unique(r)
    <2> SUFFICES ASSUME NEW i \in 1 .. Len(r), NEW j \in 1 .. Len(r), r[i] = r[j] PROVE i = j
      BY DEF Unique
    <2>1. \A m \in 1 .. Len(s), n \in 1 .. Len(t) : s[m] # t[n]
      BY <1>6 DEF Range
    <2>2. CASE i \in 1 .. Len(s) /\ j \in 1 .. Len(s)
      BY <2>2, <1>1, <1>6 DEF Unique
    <2>3. CASE i \notin 1 .. Len(s) /\ j \notin 1 .. Len(s)
      <3>1. /\ i - Len(s) \in 1 .. Len(t) /\ r[i] = t[i - Len(s)]
            /\ j - Len(s) \in 1 .. Len(t) /\ r[j] = t[j - Len(s)]
        BY <2>3, <1>2
      <3>2. i - Len(s) = j - Len(s)
        BY <3>1, <1>6 DEF Unique
      <3> QED
        BY <3>2
    <2>4. ~ (i \in 1 .. Len(s) /\ j \notin 1 .. Len(s))
      BY <1>2, <2>1
    <2>5. ~ (j \in 1 .. Len(s) /\ i \notin 1 .. Len(s))
      BY <1>2, <2>1
    <2> QED
      BY <2>2, <2>3, <2>4, <2>5
  <1> QED
    BY <1>1, <1>3, <1>4, <1>5, <1>6 DEF r

\* push_back of an element the deque does not hold.
LEMMA PushBackFacts ==
  ASSUME NEW S, NEW s \in Seq(S), NEW e \in S
  PROVE  /\ push_back(s, e) \in Seq(S)
         /\ Range(push_back(s, e)) = Range(s) \cup {e}
         /\ Unique(s) /\ e \notin Range(s) => Unique(push_back(s, e))
  <1> DEFINE t == <<e>>
  <1>1. /\ push_back(s, e) = s \o t
        /\ t \in Seq(S) /\ Range(t) = {e} /\ Unique(t)
    BY DEF push_back, Range, Unique
  <1> HIDE DEF t
  <1> QED
    BY <1>1, ConcatFacts

-----------------------------------------------------------------------------
(* The inductive invariant.  TypeOK alone is not inductive: the delay of a  *)
(* retry is a number only because attempts are bounded, and OneHome needs   *)
(* the deque not to hold a tag that is in flight.                           *)

\* A message is tried at most MaxAttempts times; one that waits has a try left.
AttemptsBounded ==
  /\ \A tag \in DOMAIN pending_entries :
       pending_entries[tag].delivery_attempts < MaxAttempts
  /\ \A tag \in DOMAIN inflight : inflight[tag].delivery_attempts <= MaxAttempts

\* Only push subscribers have pushes under way, and a tag that is not yet
\* registered is not in the deque.
PushOnly ==
  /\ Kind = "poll" => DOMAIN pushing = {}
  /\ Unregistered \cap Range(pending) = {}

Inv == TypeOK /\ OneHome /\ PendingReachable /\ ExpiryArmed /\ AttemptsBounded /\ PushOnly

LEMMA InitInv == Init => Inv
  <1> SUFFICES ASSUME Init PROVE Inv
    OBVIOUS
  <1>1. /\ DOMAIN pending_entries = {} /\ DOMAIN inflight = {}
        /\ DOMAIN pushing = {} /\ DOMAIN fate = {} /\ Tags = {}
    BY DEF Init, NoKeys, Tags
  <1>2. TypeOK
    BY <1>1 DEF Init, TypeOK
  <1>3. OneHome
    BY <1>1 DEF OneHome, Unregistered
  <1>4. PendingReachable /\ ExpiryArmed /\ AttemptsBounded /\ PushOnly
    BY <1>1 DEF Init, PendingReachable, ExpiryArmed, AttemptsBounded, PushOnly, Range, Unique,
                 Unregistered
  <1> QED
    BY <1>2, <1>3, <1>4 DEF Inv

-----------------------------------------------------------------------------
(* One lemma per action.                                                   *)

\* Taking a tag extends the set of tags by the tag taken.
LEMMA NextTags ==
  ASSUME next_tag \in Nat \ {0}, next_tag' = next_tag + 1
  PROVE  /\ Tags' = Tags \cup {next_tag}
         /\ next_tag \notin Tags
         /\ next_tag' \in Nat \ {0}
  BY DEF Tags

LEMMA EnqueueInv ==
  ASSUME Inv, NEW q \in QoSLevel, NEW ttl \in Ttls, enqueue(q, ttl)
  PROVE  Inv'
  <1> DEFINE entry == [qos |-> EffectiveQos(q), created_at |-> now, ttl |-> ttl,
                       delivery_attempts |-> 0, next_delivery_at |-> now]
  <1>0. PICK k \in 0 .. Len(pending) :
        /\ pending' = push_back(SubSeq(pending, k + 1, Len(pending)), next_tag)
        /\ pending_entries' = Put(Drop(pending_entries, Popped(k)), next_tag, entry)
        /\ expiration_heap' = expiration_heap \cup {<<expires_at(entry), next_tag>>}
        /\ fate' = PutAll(fate, Popped(k) \cap DOMAIN pending_entries, "evicted")
        /\ next_tag' = next_tag + 1
    BY DEF enqueue
  <1> DEFINE gone == Popped(k) \cap DOMAIN pending_entries
             rest == SubSeq(pending, k + 1, Len(pending))
  <1>1. /\ inflight' = inflight /\ retry_heap' = retry_heap
        /\ pushing' = pushing /\ now' = now /\ Kind = "poll"
    BY DEF enqueue
  <1>2. /\ Tags' = Tags \cup {next_tag} /\ next_tag \notin Tags
        /\ next_tag' \in Nat \ {0}
    BY <1>0, NextTags DEF Inv, TypeOK
  <1>3. entry \in QueueEntry /\ expires_at(entry) \in Nat /\ entry.delivery_attempts = 0
    BY QueueAssumption DEF Inv, TypeOK, QueueEntry, EffectiveQos, QoSLevel, expires_at
  <1> HIDE DEF entry
  <1>4. /\ DOMAIN pending_entries' = (DOMAIN pending_entries \ gone) \cup {next_tag}
        /\ pending_entries'[next_tag] = entry
        /\ \A tag \in DOMAIN pending_entries \ gone :
             tag # next_tag => pending_entries'[tag] = pending_entries[tag]
    BY <1>0 DEF Put, Drop
  <1>5. /\ DOMAIN fate' = DOMAIN fate \cup gone
        /\ \A tag \in gone : fate'[tag] = "evicted"
        /\ \A tag \in DOMAIN fate \ gone : fate'[tag] = fate[tag]
    BY <1>0 DEF PutAll
  <1>6. /\ rest \in Seq(Tags) /\ Range(rest) \subseteq Range(pending)
        /\ Range(pending) \subseteq Range(rest) \cup Popped(k)
        /\ Unique(rest) /\ Range(pending) \subseteq Tags
    BY RestFacts, RangeFacts DEF Inv, TypeOK, Popped, PendingReachable
  <1>7. /\ pending' \in Seq(Tags')
        /\ Range(pending') = Range(rest) \cup {next_tag}
        /\ Unique(pending')
    <2>1. rest \in Seq(Tags') /\ next_tag \in Tags'
      BY <1>2, <1>6
    <2>2. next_tag \notin Range(rest)
      BY <1>2, <1>6
    <2>3. pending' = push_back(rest, next_tag)
      BY <1>0
    <2> HIDE DEF rest
    <2> QED
      BY <2>1, <2>2, <2>3, <1>6, PushBackFacts
  <1>8. gone \subseteq DOMAIN pending_entries /\ next_tag \notin gone
    BY <1>2 DEF Inv, TypeOK
  <1>9. TypeOK'
    <2>1. expiration_heap' \subseteq Nat \X Tags'
      BY <1>0, <1>2, <1>3 DEF Inv, TypeOK
    <2>2. \A tag \in DOMAIN pending_entries' : pending_entries'[tag] \in QueueEntry
      BY <1>2, <1>3, <1>4 DEF Inv, TypeOK
    <2>3. \A tag \in DOMAIN fate' : fate'[tag] \in Fates
      BY <1>5 DEF Inv, TypeOK, Fates
    <2> HIDE DEF gone
    <2> QED
      BY <1>1, <1>2, <1>4, <1>5, <1>7, <1>8, <2>1, <2>2, <2>3 DEF Inv, TypeOK
  <1>10. Unregistered' = Unregistered
    BY <1>1 DEF Unregistered
  <1>11. OneHome'
    <2> HIDE DEF gone
    <2>1. next_tag \notin Unregistered \cup DOMAIN inflight \cup DOMAIN fate
      BY <1>2 DEF Inv, OneHome
    <2> QED
      BY <1>1, <1>2, <1>4, <1>5, <1>8, <1>10, <2>1, Zenon DEF Inv, OneHome
  <1>12. PendingReachable'
    <2>1. DOMAIN pending_entries' \subseteq Range(pending')
      BY <1>4, <1>6, <1>7 DEF Inv, PendingReachable
    <2>2. Range(pending') \cap DOMAIN inflight' = {}
      BY <1>1, <1>2, <1>6, <1>7 DEF Inv, PendingReachable, TypeOK
    <2> QED
      BY <2>1, <2>2, <1>7 DEF PendingReachable
  <1>13. ExpiryArmed'
    BY <1>0, <1>1, <1>4 DEF Inv, ExpiryArmed
  <1>14. AttemptsBounded'
    BY <1>1, <1>3, <1>4, QueueAssumption DEF Inv, AttemptsBounded, MaxAttempts
  <1>15. PushOnly'
    BY <1>1, <1>10 DEF Inv, PushOnly, Unregistered
  <1> QED
    BY <1>9, <1>11, <1>12, <1>13, <1>14, <1>15 DEF Inv

LEMMA TakeTagInv ==
  ASSUME Inv, NEW q \in QoSLevel, push_take_tag(q)
  PROVE  Inv'
  <1>1. /\ pending' = pending /\ pending_entries' = pending_entries
        /\ inflight' = inflight /\ expiration_heap' = expiration_heap
        /\ retry_heap' = retry_heap /\ now' = now /\ Kind = "push"
    BY DEF push_take_tag
  <1>2. /\ Tags' = Tags \cup {next_tag} /\ next_tag \notin Tags
        /\ next_tag' \in Nat \ {0}
    BY NextTags DEF Inv, TypeOK, push_take_tag
  <1>3. \/ /\ pushing' = Put(pushing, next_tag, "tagged") /\ fate' = fate
        \/ /\ fate' = Put(fate, next_tag, "consumed") /\ pushing' = pushing
    BY DEF push_take_tag
  <1>4. /\ \A tag \in DOMAIN pushing : tag \in DOMAIN pushing' /\ pushing'[tag] = pushing[tag]
        /\ \A tag \in DOMAIN fate : tag \in DOMAIN fate' /\ fate'[tag] = fate[tag]
        /\ \/ /\ DOMAIN pushing' = DOMAIN pushing \cup {next_tag}
              /\ pushing'[next_tag] = "tagged"
              /\ DOMAIN fate' = DOMAIN fate
           \/ /\ DOMAIN fate' = DOMAIN fate \cup {next_tag}
              /\ fate'[next_tag] = "consumed"
              /\ DOMAIN pushing' = DOMAIN pushing
    BY <1>2, <1>3 DEF Put, Inv, TypeOK
  <1>5. TypeOK'
    <2>1. pending' \in Seq(Tags')
      BY <1>1, <1>2 DEF Inv, TypeOK
    <2>2. \A tag \in DOMAIN pushing' : pushing'[tag] \in {"tagged", "registered"}
      BY <1>4 DEF Inv, TypeOK
    <2>3. \A tag \in DOMAIN fate' : fate'[tag] \in Fates
      BY <1>4 DEF Inv, TypeOK, Fates
    <2> QED
      BY <1>1, <1>2, <1>4, <2>1, <2>2, <2>3 DEF Inv, TypeOK
  <1>6. \/ /\ Unregistered' = Unregistered \cup {next_tag} /\ DOMAIN fate' = DOMAIN fate
        \/ /\ Unregistered' = Unregistered /\ DOMAIN fate' = DOMAIN fate \cup {next_tag}
    BY <1>4 DEF Unregistered
  <1>7. OneHome'
    <2>1. /\ next_tag \notin Unregistered \cup DOMAIN inflight \cup DOMAIN fate
          /\ next_tag \notin DOMAIN pending_entries
      BY <1>2 DEF Inv, OneHome
    <2> QED
      BY <1>1, <1>2, <1>6, <2>1, Zenon DEF Inv, OneHome
  <1>8. PendingReachable' /\ ExpiryArmed' /\ AttemptsBounded'
    BY <1>1 DEF Inv, PendingReachable, ExpiryArmed, AttemptsBounded
  <1>9. PushOnly'
    <2>1. next_tag \notin Range(pending)
      BY <1>2, RangeFacts DEF Inv, TypeOK
    <2> QED
      BY <1>1, <1>6, <2>1 DEF Inv, PushOnly
  <1> QED
    BY <1>5, <1>7, <1>8, <1>9 DEF Inv

LEMMA RegisterInv ==
  ASSUME Inv, NEW tag \in Tags, NEW ttl \in Ttls, NEW created \in 0 .. now,
         register_push_inflight(tag, ttl, created)
  PROVE  Inv'
  <1> DEFINE entry == [qos |-> "AtLeastOnce", created_at |-> created, ttl |-> ttl,
                       delivery_attempts |-> 1, next_delivery_at |-> created]
  <1>1. /\ tag \in DOMAIN pushing /\ pushing[tag] = "tagged"
        /\ inflight' = Put(inflight, tag, entry)
        /\ expiration_heap' = expiration_heap \cup {<<expires_at(entry), tag>>}
        /\ pushing' = Put(pushing, tag, "registered")
        /\ next_tag' = next_tag /\ pending' = pending /\ now' = now
        /\ pending_entries' = pending_entries /\ retry_heap' = retry_heap /\ fate' = fate
    BY DEF register_push_inflight
  <1>2. entry \in QueueEntry /\ expires_at(entry) \in Nat /\ entry.delivery_attempts = 1
    BY QueueAssumption DEF Inv, TypeOK, QueueEntry, QoSLevel, expires_at
  <1> HIDE DEF entry
  <1>3. Tags' = Tags
    BY <1>1 DEF Tags
  <1>4. /\ DOMAIN inflight' = DOMAIN inflight \cup {tag} /\ inflight'[tag] = entry
        /\ \A o \in DOMAIN inflight : o # tag => inflight'[o] = inflight[o]
        /\ DOMAIN pushing' = DOMAIN pushing /\ pushing'[tag] = "registered"
        /\ \A o \in DOMAIN pushing : o # tag => pushing'[o] = pushing[o]
    BY <1>1 DEF Put
  <1>5. tag \in Unregistered /\ Unregistered' = Unregistered \ {tag}
    BY <1>1, <1>4 DEF Unregistered
  <1>6. TypeOK'
    <2>1. /\ \A o \in DOMAIN inflight' : inflight'[o] \in QueueEntry
          /\ \A o \in DOMAIN pushing' : pushing'[o] \in {"tagged", "registered"}
      BY <1>2, <1>4 DEF Inv, TypeOK
    <2>2. expiration_heap' \subseteq Nat \X Tags
      BY <1>1, <1>2 DEF Inv, TypeOK
    <2> QED
      BY <1>1, <1>3, <1>4, <2>1, <2>2 DEF Inv, TypeOK
  <1>7. OneHome'
    BY <1>1, <1>3, <1>4, <1>5, Zenon DEF Inv, OneHome
  <1>8. PendingReachable' /\ PushOnly'
    BY <1>1, <1>4, <1>5 DEF Inv, PendingReachable, PushOnly
  <1>9. ExpiryArmed'
    BY <1>1, <1>4 DEF Inv, ExpiryArmed
  <1>10. AttemptsBounded'
    BY <1>1, <1>2, <1>4, QueueAssumption DEF Inv, AttemptsBounded, MaxAttempts
  <1> QED
    BY <1>6, <1>7, <1>8, <1>9, <1>10 DEF Inv

LEMMA EncodeInv ==
  ASSUME Inv, NEW tag \in Tags, push_encode(tag)
  PROVE  Inv'
  <1>1. /\ tag \in DOMAIN pushing /\ pushing[tag] = "registered"
        /\ pushing' = Drop(pushing, {tag})
        /\ next_tag' = next_tag /\ pending' = pending /\ now' = now
        /\ pending_entries' = pending_entries /\ retry_heap' = retry_heap /\ fate' = fate
        /\ inflight' = inflight /\ expiration_heap' = expiration_heap
    BY DEF push_encode
  <1>2. /\ DOMAIN pushing' = DOMAIN pushing \ {tag}
        /\ \A o \in DOMAIN pushing' : pushing'[o] = pushing[o]
    BY <1>1 DEF Drop
  <1>3. Unregistered' = Unregistered /\ Tags' = Tags
    BY <1>1, <1>2 DEF Unregistered, Tags
  <1>4. TypeOK'
    BY <1>1, <1>2, <1>3 DEF Inv, TypeOK
  <1>5. OneHome' /\ PendingReachable' /\ ExpiryArmed' /\ AttemptsBounded' /\ PushOnly'
    BY <1>1, <1>2, <1>3 DEF Inv, OneHome, PendingReachable, ExpiryArmed, AttemptsBounded, PushOnly
  <1> QED
    BY <1>4, <1>5 DEF Inv

\* cancel_push_inflight and ack both take one message out of flight.
LEMMA LeaveFlight ==
  ASSUME Inv, NEW gone \in SUBSET DOMAIN inflight, NEW how \in Fates,
         inflight' = Drop(inflight, gone), fate' = PutAll(fate, gone, how),
         next_tag' = next_tag, pending' = pending, pending_entries' = pending_entries,
         expiration_heap' = expiration_heap, retry_heap' = retry_heap, now' = now,
         DOMAIN pushing' \subseteq DOMAIN pushing,
         \A o \in DOMAIN pushing' : pushing'[o] = pushing[o],
         Unregistered' = Unregistered
  PROVE  Inv'
  <1>1. /\ DOMAIN inflight' = DOMAIN inflight \ gone
        /\ \A o \in DOMAIN inflight' : inflight'[o] = inflight[o]
    BY DEF Drop
  <1>2. /\ DOMAIN fate' = DOMAIN fate \cup gone
        /\ \A o \in DOMAIN fate' : fate'[o] \in {how, fate[o]}
        /\ \A o \in DOMAIN fate' : o \in DOMAIN fate \/ fate'[o] = how
    BY DEF PutAll
  <1>3. Tags' = Tags
    BY DEF Tags
  <1>4. TypeOK'
    BY <1>1, <1>2, <1>3 DEF Inv, TypeOK
  <1>5. OneHome'
    BY <1>1, <1>2, <1>3, Zenon DEF Inv, OneHome
  <1>6. PendingReachable' /\ ExpiryArmed' /\ AttemptsBounded' /\ PushOnly'
    BY <1>1 DEF Inv, PendingReachable, ExpiryArmed, AttemptsBounded, PushOnly
  <1> QED
    BY <1>4, <1>5, <1>6 DEF Inv

LEMMA CancelInv ==
  ASSUME Inv, NEW tag \in Tags, cancel_push_inflight(tag)
  PROVE  Inv'
  <1> DEFINE gone == {tag} \cap DOMAIN inflight
  <1>1. /\ DOMAIN pushing' = DOMAIN pushing \ {tag}
        /\ \A o \in DOMAIN pushing' : pushing'[o] = pushing[o]
    BY DEF cancel_push_inflight, Drop
  <1>2. Unregistered' = Unregistered
    BY <1>1 DEF cancel_push_inflight, Unregistered
  <1>3. inflight' = Drop(inflight, gone)
    BY DEF cancel_push_inflight, Drop
  <1> QED
    BY <1>1, <1>2, <1>3, LeaveFlight DEF cancel_push_inflight, Fates

LEMMA AckInv ==
  ASSUME Inv, NEW tag \in Tags, ack(tag)
  PROVE  Inv'
  <1> DEFINE gone == {tag}
  <1>1. gone \in SUBSET DOMAIN inflight
    BY DEF ack
  <1>2. fate' = PutAll(fate, gone, "acked")
    BY DEF ack, Put, PutAll
  <1>3. Unregistered' = Unregistered
    BY DEF ack, Unregistered
  <1> QED
    BY <1>1, <1>2, <1>3, LeaveFlight DEF ack, Fates

LEMMA DequeueInv ==
  ASSUME Inv, dequeue
  PROVE  Inv'
  <1>0. PICK i \in 1 .. Len(pending) :
        /\ FirstLive(i)
        /\ LET tag   == pending[i]
               entry == pending_entries[tag]
               tried == entry.delivery_attempts + 1
               again == [entry EXCEPT !.delivery_attempts = tried,
                                      !.next_delivery_at = now + Backoff(tried)]
           IN /\ pending' = rest_after(i)
              /\ pending_entries' = Drop(pending_entries, {tag})
              /\ \/ /\ entry.qos = "AtMostOnce"
                    /\ fate' = Put(fate, tag, "consumed")
                    /\ UNCHANGED <<inflight, retry_heap>>
                 \/ /\ entry.qos = "AtLeastOnce"
                    /\ inflight' = Put(inflight, tag, again)
                    /\ retry_heap' = retry_heap \cup {<<again.next_delivery_at, tag>>}
                    /\ UNCHANGED fate
    BY DEF dequeue
  <1> DEFINE tag   == pending[i]
             entry == pending_entries[tag]
             tried == entry.delivery_attempts + 1
             again == [entry EXCEPT !.delivery_attempts = tried,
                                    !.next_delivery_at = now + Backoff(tried)]
  <1>1. /\ next_tag' = next_tag /\ expiration_heap' = expiration_heap
        /\ pushing' = pushing /\ now' = now
    BY DEF dequeue
  <1>2. Tags' = Tags /\ Unregistered' = Unregistered
    BY <1>1 DEF Tags, Unregistered
  <1>3. tag \in DOMAIN pending_entries /\ tag \in Tags /\ entry \in QueueEntry
    BY <1>0 DEF FirstLive, Inv, TypeOK
  <1>4. tried \in 1 .. MaxAttempts
    BY <1>3, QueueAssumption DEF Inv, AttemptsBounded, MaxAttempts, QueueEntry
  <1>5. Backoff(tried) \in Nat
    BY <1>4, BackoffAssumption, QueueAssumption DEF MaxAttempts
  <1>6. /\ again \in QueueEntry /\ expires_at(again) = expires_at(entry)
        /\ again.delivery_attempts = tried /\ again.next_delivery_at \in Nat
    <2> DEFINE due == now + Backoff(tried)
    <2>1. tried \in Nat /\ due \in Nat
      BY <1>4, <1>5, QueueAssumption DEF Inv, TypeOK, MaxAttempts
    <2>2. again = [entry EXCEPT !.delivery_attempts = tried, !.next_delivery_at = due]
      OBVIOUS
    <2> HIDE DEF entry, tried, due, again
    <2> QED
      BY <1>3, <2>1, <2>2 DEF QueueEntry, expires_at
  <1>7. /\ pending' \in Seq(Tags) /\ Range(pending') \subseteq Range(pending)
        /\ Range(pending) \subseteq Range(pending') \cup {pending[j] : j \in 1 .. i}
        /\ Unique(pending')
    BY <1>0, RestFacts DEF rest_after, Inv, TypeOK, PendingReachable
  <1>8. tag \notin Range(pending')
    <2> SUFFICES ASSUME tag \in Range(pending') PROVE FALSE
      OBVIOUS
    <2>1. PICK j \in 1 .. Len(pending') : pending'[j] = tag
      BY <1>7, RangeFacts
    <2>2. pending \in Seq(Tags) /\ i \in 0 .. Len(pending)
      BY DEF Inv, TypeOK
    <2>3. /\ Len(pending') = Len(pending) - i
          /\ \A n \in 1 .. (Len(pending) - i) : pending'[n] = pending[i + n]
      BY <1>0, <2>2, RestFacts DEF rest_after
    <2>4. pending[i + j] = tag /\ i + j \in 1 .. Len(pending) /\ i + j # i
      BY <2>1, <2>2, <2>3
    <2> QED
      BY <2>4 DEF Inv, PendingReachable, Unique
  <1>9. /\ DOMAIN pending_entries' = DOMAIN pending_entries \ {tag}
        /\ \A o \in DOMAIN pending_entries' : pending_entries'[o] = pending_entries[o]
    BY <1>0 DEF Drop
  <1>10. \/ /\ inflight' = inflight /\ retry_heap' = retry_heap
            /\ DOMAIN fate' = DOMAIN fate \cup {tag} /\ fate'[tag] = "consumed"
            /\ \A o \in DOMAIN fate \ {tag} : fate'[o] = fate[o]
         \/ /\ fate' = fate /\ retry_heap' = retry_heap \cup {<<again.next_delivery_at, tag>>}
            /\ DOMAIN inflight' = DOMAIN inflight \cup {tag} /\ inflight'[tag] = again
            /\ \A o \in DOMAIN inflight \ {tag} : inflight'[o] = inflight[o]
    BY <1>0 DEF Put
  <1> HIDE DEF again, tried, tag
  <1>11. TypeOK'
    <2>1. \A o \in DOMAIN pending_entries' : pending_entries'[o] \in QueueEntry
      BY <1>9 DEF Inv, TypeOK
    <2>2. \A o \in DOMAIN inflight' : inflight'[o] \in QueueEntry
      BY <1>6, <1>10 DEF Inv, TypeOK
    <2>3. \A o \in DOMAIN fate' : fate'[o] \in Fates
      BY <1>10 DEF Inv, TypeOK, Fates
    <2>4. retry_heap' \subseteq Nat \X Tags
      BY <1>3, <1>6, <1>10 DEF Inv, TypeOK
    <2> QED
      BY <1>1, <1>2, <1>3, <1>7, <1>9, <1>10, <2>1, <2>2, <2>3, <2>4 DEF Inv, TypeOK
  <1>12. OneHome'
    <2>1. \/ DOMAIN inflight' = DOMAIN inflight /\ DOMAIN fate' = DOMAIN fate \cup {tag}
          \/ DOMAIN fate' = DOMAIN fate /\ DOMAIN inflight' = DOMAIN inflight \cup {tag}
      BY <1>10
    <2> QED
      BY <1>2, <1>3, <1>9, <2>1, Zenon DEF Inv, OneHome
  <1>13. PendingReachable'
    <2>1. \A o \in DOMAIN pending_entries' : o \notin {pending[j] : j \in 1 .. i}
      BY <1>0, <1>9 DEF FirstLive, tag
    <2>2. DOMAIN pending_entries' \subseteq Range(pending')
      BY <1>7, <1>9, <2>1 DEF Inv, PendingReachable
    <2>3. DOMAIN inflight' \subseteq DOMAIN inflight \cup {tag}
      BY <1>10
    <2> QED
      BY <1>7, <1>8, <2>2, <2>3 DEF Inv, PendingReachable
  <1>14. ExpiryArmed'
    BY <1>1, <1>3, <1>6, <1>9, <1>10 DEF Inv, ExpiryArmed
  <1>15. AttemptsBounded'
    BY <1>4, <1>6, <1>9, <1>10, QueueAssumption DEF Inv, AttemptsBounded, MaxAttempts
  <1>16. PushOnly'
    BY <1>1, <1>2, <1>7 DEF Inv, PushOnly
  <1> QED
    BY <1>11, <1>12, <1>13, <1>14, <1>15, <1>16 DEF Inv

LEMMA DequeueNoneInv ==
  ASSUME Inv, dequeue_none
  PROVE  Inv'
  <1>1. /\ pending' = <<>> /\ UNCHANGED <<next_tag, pending_entries, inflight,
             expiration_heap, retry_heap, pushing, now, fate>>
    BY DEF dequeue_none
  <1>2. DOMAIN pending_entries = {}
    <2>1. \A x \in Range(pending) : x \notin DOMAIN pending_entries
      BY RangeFacts DEF dequeue_none, Inv, TypeOK
    <2> QED
      BY <2>1 DEF Inv, PendingReachable
  <1>3. Tags' = Tags /\ Unregistered' = Unregistered
    BY <1>1 DEF Tags, Unregistered
  <1>4. Range(pending') = {} /\ Unique(pending') /\ pending' \in Seq(Tags')
    BY <1>1 DEF Range, Unique
  <1>5. TypeOK'
    BY <1>1, <1>3, <1>4 DEF Inv, TypeOK
  <1>6. OneHome' /\ ExpiryArmed' /\ AttemptsBounded'
    BY <1>1, <1>3 DEF Inv, OneHome, ExpiryArmed, AttemptsBounded
  <1>7. PendingReachable' /\ PushOnly'
    BY <1>1, <1>2, <1>3, <1>4 DEF Inv, PendingReachable, PushOnly
  <1> QED
    BY <1>5, <1>6, <1>7 DEF Inv

\* What maintenance leaves armed: an entry that has not expired at t keeps its
\* expiration record.
LEMMA NotExpired ==
  ASSUME NEW m, NEW t \in Nat, NEW tag \in DOMAIN m \ Expired(m, t),
         m[tag] \in QueueEntry, <<expires_at(m[tag]), tag>> \in expiration_heap
  PROVE  <<expires_at(m[tag]), tag>> \in NotDue(expiration_heap, t)
  BY DEF Expired, NotDue, QueueEntry, expires_at

LEMMA MaintenanceInv ==
  ASSUME Inv, NEW t \in 0 .. now, maintenance_tick(t)
  PROVE  Inv'
  <1> DEFINE P == Expired(pending_entries, t)
             X == Expired(inflight, t)
             D == RetryDue(t)
             Z == Exhausted(t)
             R == D \ Z
             put_back(tag) == [inflight[tag] EXCEPT !.next_delivery_at = t]
  <1>0. PICK s \in [1 .. Cardinality(R) -> R] : HeapOrder(s, R) /\ pending' = pending \o s
    BY DEF maintenance_tick
  <1>1. /\ next_tag' = next_tag /\ pushing' = pushing /\ now' = now
        /\ expiration_heap' = NotDue(expiration_heap, t)
        /\ retry_heap' = NotDue(retry_heap, t)
    BY DEF maintenance_tick
  <1>2. /\ DOMAIN pending_entries' = (DOMAIN pending_entries \ P) \cup R
        /\ \A tag \in R : pending_entries'[tag] = put_back(tag)
        /\ \A tag \in DOMAIN pending_entries' \ R : pending_entries'[tag] = pending_entries[tag]
    BY DEF maintenance_tick, Drop
  <1>3. /\ DOMAIN inflight' = DOMAIN inflight \ (X \cup D)
        /\ \A tag \in DOMAIN inflight' : inflight'[tag] = inflight[tag]
    BY DEF maintenance_tick, Drop
  <1>4. /\ DOMAIN fate' = DOMAIN fate \cup P \cup X \cup Z
        /\ \A tag \in DOMAIN fate' :
             \/ tag \in DOMAIN fate /\ fate'[tag] = fate[tag]
             \/ fate'[tag] \in {"ttl_expired", "max_retries"}
    BY DEF maintenance_tick, PutAll
  <1>5. /\ P \subseteq DOMAIN pending_entries /\ X \subseteq DOMAIN inflight
        /\ D \subseteq DOMAIN inflight \ X /\ Z \subseteq D
    BY DEF Expired, RetryDue, Exhausted
  <1>6. Tags' = Tags /\ Unregistered' = Unregistered
    BY <1>1 DEF Tags, Unregistered
  <1>7. /\ \A tag \in DOMAIN inflight : inflight[tag] \in QueueEntry
        /\ t \in Nat /\ now \in Nat /\ R \subseteq Tags
    BY <1>5 DEF Inv, TypeOK
  <1>8. /\ \A tag \in R : inflight[tag].delivery_attempts < MaxRetries
        /\ \A tag \in R : /\ put_back(tag) \in QueueEntry
                          /\ put_back(tag).delivery_attempts = inflight[tag].delivery_attempts
                          /\ expires_at(put_back(tag)) = expires_at(inflight[tag])
    <2>1. \A tag \in R : tag \in DOMAIN inflight /\ ~(inflight[tag].delivery_attempts >= MaxRetries)
      BY <1>5 DEF Exhausted
    <2> HIDE DEF R
    <2>2. ASSUME NEW e \in QueueEntry
          PROVE  LET f == [e EXCEPT !.next_delivery_at = t]
                 IN  /\ f \in QueueEntry /\ f.delivery_attempts = e.delivery_attempts
                     /\ expires_at(f) = expires_at(e)
      BY <1>7 DEF QueueEntry, expires_at
    <2>3. \A tag \in R : inflight[tag].delivery_attempts < MaxRetries
      BY <1>7, <2>1, QueueAssumption DEF QueueEntry
    <2> QED
      BY <1>7, <2>1, <2>2, <2>3
  <1>9. s \in Seq(Tags) /\ Range(s) = R /\ Unique(s)
    <2>1. Cardinality(R) \in Nat
      <3>1. IsFiniteSet(Tags)
        BY FS_Interval DEF Tags, Inv, TypeOK
      <3> QED
        BY <3>1, <1>7, FS_Subset, FS_CardinalityType
    <2>2. s \in Seq(R) /\ Len(s) = Cardinality(R) /\ \A i \in 1 .. Len(s) : s[i] \in R
      <3> DEFINE n == Cardinality(R)
      <3>1. n \in Nat /\ s \in [1 .. n -> R]
        BY <1>0, <2>1
      <3> HIDE DEF n, R
      <3>2. s \in Seq(R) /\ Len(s) = n
        BY <3>1
      <3> QED
        BY <3>1, <3>2 DEF n
    <2>3. Range(s) = R
      BY <1>0 DEF HeapOrder
    <2>4. \A tag \in R : inflight[tag].next_delivery_at \in Nat /\ tag \in Nat
      BY <1>5, <1>7 DEF QueueEntry, Tags
    <2> HIDE DEF R
    <2>5. \A i, j \in 1 .. Len(s) : i < j => s[i] # s[j]
      BY <1>0, <2>2, <2>4 DEF HeapOrder
    <2>6. Unique(s)
      BY <2>2, <2>1, <2>5 DEF Unique
    <2>7. s \in Seq(Tags)
      BY <2>2, <1>7
    <2> QED
      BY <2>3, <2>6, <2>7
  <1> HIDE DEF P, X, D, Z, R, put_back
  <1>10. R \subseteq D /\ R \cap Z = {} /\ D = R \cup Z
    BY <1>5 DEF R
  <1>11. /\ pending' \in Seq(Tags) /\ Range(pending') = Range(pending) \cup R
         /\ Unique(pending')
    <2>1. Range(pending) \cap Range(s) = {}
      BY <1>5, <1>9, <1>10 DEF Inv, PendingReachable
    <2>2. pending \in Seq(Tags) /\ Unique(pending)
      BY DEF Inv, TypeOK, PendingReachable
    <2> QED
      BY <1>0, <1>9, <2>1, <2>2, ConcatFacts
  <1>12. TypeOK'
    <2>1. \A tag \in DOMAIN pending_entries' : pending_entries'[tag] \in QueueEntry
      BY <1>2, <1>8 DEF Inv, TypeOK
    <2>2. \A tag \in DOMAIN inflight' : inflight'[tag] \in QueueEntry
      BY <1>3 DEF Inv, TypeOK
    <2>3. \A tag \in DOMAIN fate' : fate'[tag] \in Fates
      BY <1>4 DEF Inv, TypeOK, Fates
    <2>4. expiration_heap' \subseteq Nat \X Tags /\ retry_heap' \subseteq Nat \X Tags
      BY <1>1 DEF Inv, TypeOK, NotDue
    <2> QED
      BY <1>1, <1>2, <1>3, <1>4, <1>5, <1>6, <1>7, <1>10, <1>11, <2>1, <2>2, <2>3, <2>4
         DEF Inv, TypeOK
  <1>13. OneHome'
    BY <1>2, <1>3, <1>4, <1>5, <1>6, <1>10, ZenonT(60) DEF Inv, OneHome
  <1>14. PendingReachable'
    BY <1>2, <1>3, <1>5, <1>10, <1>11 DEF Inv, PendingReachable
  <1>15. ExpiryArmed'
    <2>1. ASSUME NEW tag \in DOMAIN inflight'
          PROVE  <<expires_at(inflight'[tag]), tag>> \in expiration_heap'
      BY <1>1, <1>3, <1>7, NotExpired DEF Inv, ExpiryArmed, X
    <2>2. ASSUME NEW tag \in R
          PROVE  <<expires_at(pending_entries'[tag]), tag>> \in expiration_heap'
      BY <1>1, <1>2, <1>5, <1>7, <1>8, <1>10, NotExpired DEF Inv, ExpiryArmed, X
    <2>3. ASSUME NEW tag \in DOMAIN pending_entries' \ R
          PROVE  <<expires_at(pending_entries'[tag]), tag>> \in expiration_heap'
      BY <1>1, <1>2, <1>7, NotExpired DEF Inv, TypeOK, ExpiryArmed, P
    <2> QED
      BY <2>1, <2>2, <2>3 DEF ExpiryArmed
  <1>16. AttemptsBounded'
    <2>1. \A tag \in R : inflight[tag].delivery_attempts < MaxAttempts
      BY <1>5, <1>7, <1>8, <1>10, QueueAssumption DEF MaxAttempts, QueueEntry
    <2>2. \A tag \in DOMAIN pending_entries' : pending_entries'[tag].delivery_attempts < MaxAttempts
      BY <1>2, <1>8, <2>1 DEF Inv, AttemptsBounded
    <2> QED
      BY <1>3, <2>2 DEF Inv, AttemptsBounded
  <1>17. PushOnly'
    <2>1. Unregistered \cap R = {}
      BY <1>5, <1>10 DEF Inv, OneHome
    <2> QED
      BY <1>1, <1>6, <1>11, <2>1 DEF Inv, PushOnly
  <1> QED
    BY <1>12, <1>13, <1>14, <1>15, <1>16, <1>17 DEF Inv

LEMMA TickInv ==
  ASSUME Inv, Tick
  PROVE  Inv'
  <1>1. /\ now' = now + 1 /\ UNCHANGED <<next_tag, pending, pending_entries, inflight,
             expiration_heap, retry_heap, pushing, fate>>
    BY DEF Tick
  <1>2. Tags' = Tags /\ Unregistered' = Unregistered
    BY <1>1 DEF Tags, Unregistered
  <1>3. TypeOK'
    BY <1>1, <1>2 DEF Inv, TypeOK
  <1>4. OneHome' /\ PendingReachable' /\ ExpiryArmed' /\ AttemptsBounded' /\ PushOnly'
    BY <1>1, <1>2 DEF Inv, OneHome, PendingReachable, ExpiryArmed, AttemptsBounded, PushOnly
  <1> QED
    BY <1>3, <1>4 DEF Inv

LEMMA StutterInv ==
  ASSUME Inv, UNCHANGED vars
  PROVE  Inv'
  <1>1. Tags' = Tags /\ Unregistered' = Unregistered
    BY DEF vars, Tags, Unregistered
  <1>2. TypeOK'
    BY <1>1 DEF vars, Inv, TypeOK
  <1>3. OneHome' /\ PendingReachable' /\ ExpiryArmed' /\ AttemptsBounded' /\ PushOnly'
    BY <1>1 DEF vars, Inv, OneHome, PendingReachable, ExpiryArmed, AttemptsBounded, PushOnly
  <1> QED
    BY <1>2, <1>3 DEF Inv

LEMMA NextInv == Inv /\ [Next]_vars => Inv'
  <1> SUFFICES ASSUME Inv, [Next]_vars PROVE Inv'
    OBVIOUS
  <1>1. ASSUME NEW q \in QoSLevel, NEW ttl \in Ttls, enqueue(q, ttl) PROVE Inv'
    BY <1>1, EnqueueInv
  <1>2. ASSUME NEW q \in QoSLevel, push_take_tag(q) PROVE Inv'
    BY <1>2, TakeTagInv
  <1>3. ASSUME NEW tag \in Tags, NEW ttl \in Ttls, NEW created \in 0 .. now,
         register_push_inflight(tag, ttl, created) PROVE Inv'
    BY <1>3, RegisterInv
  <1>4. ASSUME NEW tag \in Tags, push_encode(tag) PROVE Inv'
    BY <1>4, EncodeInv
  <1>5. ASSUME NEW tag \in Tags, cancel_push_inflight(tag) PROVE Inv'
    BY <1>5, CancelInv
  <1>6. ASSUME NEW tag \in Tags, ack(tag) PROVE Inv'
    BY <1>6, AckInv
  <1>7. ASSUME NEW t \in 0 .. now, maintenance_tick(t) PROVE Inv'
    BY <1>7, MaintenanceInv
  <1> QED
    BY <1>1, <1>2, <1>3, <1>4, <1>5, <1>6, <1>7, DequeueInv, DequeueNoneInv, TickInv, StutterInv
       DEF Next

LEMMA SpecInv == Spec => []Inv
  BY InitInv, NextInv, PTL DEF Spec

-----------------------------------------------------------------------------
(* The theorems.                                                           *)

\* Every field of the queue keeps its type in every reachable state; in
\* particular the retry delay of dequeue is always a number.
THEOREM TypeCorrect == Spec => []TypeOK
  <1>1. Inv => TypeOK
    BY DEF Inv
  <1> QED
    BY <1>1, SpecInv, PTL

\* No message is lost, duplicated or brought back by any interleaving of
\* publishers, acks, cancelled pushes, polls and maintenance, for queues of
\* any size: OneHome is an invariant.
THEOREM NothingLost == Spec => []OneHome
  <1>1. Inv => OneHome
    BY DEF Inv
  <1> QED
    BY <1>1, SpecInv, PTL

\* The deque always leads dequeue to every waiting message exactly once, and
\* never to one in flight.
THEOREM DequeAgrees == Spec => []PendingReachable
  <1>1. Inv => PendingReachable
    BY DEF Inv
  <1> QED
    BY <1>1, SpecInv, PTL

\* No message in the queue is ever without the record that expires it.
THEOREM ExpiryNeverLost == Spec => []ExpiryArmed
  <1>1. Inv => ExpiryArmed
    BY DEF Inv
  <1> QED
    BY <1>1, SpecInv, PTL

-----------------------------------------------------------------------------
(* The retry heap of a polled subscriber.  Push subscribers are excluded:   *)
(* register_push_inflight pushes no retry record.                           *)

PollRetryArmed == Kind = "poll" => RetryArmed

LEMMA RetryArmedStep ==
  ASSUME Inv, RetryArmed, Kind = "poll", [Next]_vars
  PROVE  RetryArmed'
  <1>1. DOMAIN pushing = {}
    BY DEF Inv, PushOnly
  <1>2. ASSUME NEW q \in QoSLevel, NEW ttl \in Ttls, enqueue(q, ttl) PROVE RetryArmed'
    BY <1>2 DEF enqueue, RetryArmed
  <1>3. ASSUME NEW q \in QoSLevel, push_take_tag(q) PROVE RetryArmed'
    BY <1>3 DEF push_take_tag
  <1>4. ASSUME NEW tag \in Tags, NEW ttl \in Ttls, NEW created \in 0 .. now,
         register_push_inflight(tag, ttl, created)
        PROVE  RetryArmed'
    BY <1>1, <1>4 DEF register_push_inflight
  <1>5. ASSUME NEW tag \in Tags, push_encode(tag) \/ cancel_push_inflight(tag)
        PROVE  RetryArmed'
    BY <1>1, <1>5 DEF push_encode, cancel_push_inflight
  <1>6. ASSUME NEW tag \in Tags, ack(tag) PROVE RetryArmed'
    BY <1>6 DEF ack, RetryArmed, Drop
  <1>7. CASE dequeue
    <2>1. PICK tag, again :
            \/ inflight' = inflight /\ retry_heap' = retry_heap
            \/ /\ inflight' = Put(inflight, tag, again)
               /\ retry_heap' = retry_heap \cup {<<again.next_delivery_at, tag>>}
      BY <1>7 DEF dequeue
    <2> QED
      BY <2>1 DEF RetryArmed, Put
  <1>8. CASE dequeue_none
    BY <1>8 DEF dequeue_none, RetryArmed
  <1>9. ASSUME NEW t \in 0 .. now, maintenance_tick(t) PROVE RetryArmed'
    <2>1. /\ inflight' = Drop(inflight, Expired(inflight, t) \cup RetryDue(t))
          /\ retry_heap' = NotDue(retry_heap, t)
      BY <1>9 DEF maintenance_tick
    <2>2. ASSUME NEW tag \in DOMAIN inflight' PROVE <<inflight'[tag].next_delivery_at, tag>> \in retry_heap'
      <3>1. /\ tag \in DOMAIN inflight /\ inflight'[tag] = inflight[tag]
            /\ tag \notin Expired(inflight, t) /\ tag \notin RetryDue(t)
        BY <2>1, <2>2 DEF Drop
      <3>2. inflight[tag].next_delivery_at \in Nat /\ t \in Nat
        BY <3>1 DEF Inv, TypeOK, QueueEntry
      <3>3. <<inflight[tag].next_delivery_at, tag>> \in retry_heap
        BY <3>1 DEF RetryArmed
      <3>4. inflight[tag].next_delivery_at > t
        BY <3>1, <3>2, <3>3 DEF RetryDue
      <3> QED
        BY <2>1, <3>1, <3>3, <3>4 DEF NotDue
    <2> QED
      BY <2>2 DEF RetryArmed
  <1>10. CASE Tick
    BY <1>10 DEF Tick, RetryArmed
  <1>11. CASE UNCHANGED vars
    BY <1>11 DEF vars, RetryArmed
  <1> QED
    BY <1>2, <1>3, <1>4, <1>5, <1>6, <1>7, <1>8, <1>9, <1>10, <1>11 DEF Next

\* In a polled subscriber's queue every message in flight has the retry record
\* that wakes it: maintenance never takes a live record for a stale one.
THEOREM RetryNeverLost == Spec => [](Kind = "poll" => RetryArmed)
  <1>1. Init => PollRetryArmed
    BY DEF Init, NoKeys, RetryArmed, PollRetryArmed
  <1>2. Inv /\ PollRetryArmed /\ [Next]_vars => PollRetryArmed'
    BY RetryArmedStep DEF PollRetryArmed
  <1>3. PollRetryArmed <=> (Kind = "poll" => RetryArmed)
    BY DEF PollRetryArmed
  <1> QED
    BY <1>1, <1>2, <1>3, SpecInv, PTL DEF Spec
-----------------------------------------------------------------------------
(* The contract: the queue implements DeliveryContract, and what that rests *)
(* on, the order of the deque.  Also what an enqueue may evict.             *)

-----------------------------------------------------------------------------
(* Sequences whose elements in a set F ascend.                             *)

LEMMA Elements ==
  ASSUME NEW S, NEW T, S \subseteq T, NEW s \in Seq(S)
  PROVE  s \in Seq(T) /\ Len(s) \in Nat /\ \A i \in 1 .. Len(s) : s[i] \in S
  OBVIOUS

Ascending(s, F) ==
  \A i, j \in 1 .. Len(s) : i < j /\ s[i] \in F /\ s[j] \in F => s[i] < s[j]

\* Popping the front, with or without a smaller F.
LEMMA AscendingRest ==
  ASSUME NEW S, NEW s \in Seq(S), NEW F, NEW G \in SUBSET F, Ascending(s, F),
         NEW k \in 0 .. Len(s)
  PROVE  Ascending(SubSeq(s, k + 1, Len(s)), G)
  <1> DEFINE r == SubSeq(s, k + 1, Len(s))
  <1>1. Len(r) = Len(s) - k /\ \A i \in 1 .. (Len(s) - k) : r[i] = s[k + i]
    BY RestFacts
  <1> HIDE DEF r
  <1>2. ASSUME NEW i \in 1 .. Len(r), NEW j \in 1 .. Len(r), i < j, r[i] \in G, r[j] \in G
        PROVE  r[i] < r[j]
    <2>1. /\ k + i \in 1 .. Len(s) /\ k + j \in 1 .. Len(s) /\ k + i < k + j
          /\ r[i] = s[k + i] /\ r[j] = s[k + j]
      BY <1>1, <1>2
    <2> QED
      BY <1>2, <2>1 DEF Ascending
  <1> QED
    BY <1>2 DEF Ascending, r

\* Appending elements outside F.
LEMMA AscendingConcat ==
  ASSUME NEW S, NEW s \in Seq(S), NEW t \in Seq(S), NEW F, Ascending(s, F),
         \A i \in 1 .. Len(t) : t[i] \notin F
  PROVE  Ascending(s \o t, F)
  <1> DEFINE r == s \o t
  <1>1. /\ Len(r) = Len(s) + Len(t)
        /\ \A i \in 1 .. Len(s) : r[i] = s[i]
        /\ \A i \in 1 .. Len(t) : r[Len(s) + i] = t[i]
    BY ConcatFacts
  <1> HIDE DEF r
  <1>2. ASSUME NEW i \in 1 .. Len(r), r[i] \in F PROVE i \in 1 .. Len(s) /\ r[i] = s[i]
    <2>1. CASE i \in 1 .. Len(s)
      BY <1>1, <2>1
    <2>2. CASE i \notin 1 .. Len(s)
      <3>1. i - Len(s) \in 1 .. Len(t) /\ i = Len(s) + (i - Len(s))
        BY <1>1, <2>2
      <3> QED
        BY <1>1, <1>2, <3>1
    <2> QED
      BY <2>1, <2>2
  <1> QED
    BY <1>2 DEF Ascending, r

\* Appending an element that is larger than all of them.
LEMMA AscendingAppend ==
  ASSUME NEW S \in SUBSET Int, NEW s \in Seq(S), NEW F, NEW e \in S, Ascending(s, F),
         \A i \in 1 .. Len(s) : s[i] < e
  PROVE  Ascending(push_back(s, e), F \cup {e})
  <1> DEFINE r == push_back(s, e)
  <1>1. Len(r) = Len(s) + 1 /\ r[Len(s) + 1] = e /\ \A i \in 1 .. Len(s) : r[i] = s[i]
    BY DEF push_back
  <1> HIDE DEF r
  <1>2. ASSUME NEW i \in 1 .. Len(r), NEW j \in 1 .. Len(r), i < j,
               r[i] \in F \cup {e}, r[j] \in F \cup {e}
        PROVE  r[i] < r[j]
    <2>1. i \in 1 .. Len(s) /\ r[i] = s[i]
      BY <1>1, <1>2
    <2>2. CASE j = Len(s) + 1
      BY <1>1, <2>1, <2>2
    <2>3. CASE j # Len(s) + 1
      <3>1. j \in 1 .. Len(s) /\ r[j] = s[j]
        BY <1>1, <2>3
      <3>2. s[i] \in F /\ s[j] \in F
        BY <1>1, <1>2, <2>1, <3>1
      <3> QED
        BY <1>2, <2>1, <3>1, <3>2 DEF Ascending
    <2> QED
      BY <2>2, <2>3
  <1> QED
    BY <1>2 DEF Ascending, r

-----------------------------------------------------------------------------
(* The order of messages that were never tried.                            *)

FreshTags == {tag \in DOMAIN pending_entries : pending_entries[tag].delivery_attempts = 0}

\* A message in flight was handed out at least once, so that one that a retry
\* puts back is not taken for one never tried.
InflightTried == \A tag \in DOMAIN inflight : inflight[tag].delivery_attempts >= 1

Order == InflightTried /\ Ascending(pending, FreshTags)

LEMMA OrderMeans == FreshInOrder <=> Ascending(pending, FreshTags)
  BY DEF FreshInOrder, Ascending, FreshTags

LEMMA EnqueueOrder ==
  ASSUME Inv, Order, NEW q \in QoSLevel, NEW ttl \in Ttls, enqueue(q, ttl)
  PROVE  Order'
  <1> DEFINE entry == [qos |-> EffectiveQos(q), created_at |-> now, ttl |-> ttl,
                       delivery_attempts |-> 0, next_delivery_at |-> now]
  <1>1. PICK k \in 0 .. Len(pending) :
          /\ pending' = push_back(SubSeq(pending, k + 1, Len(pending)), next_tag)
          /\ pending_entries' = Put(Drop(pending_entries, Popped(k)), next_tag, entry)
          /\ inflight' = inflight
    BY DEF enqueue
  <1> DEFINE rest == SubSeq(pending, k + 1, Len(pending))
             F == FreshTags \ Popped(k)
  <1>2. FreshTags' = F \cup {next_tag}
    <2>1. /\ DOMAIN pending_entries' = (DOMAIN pending_entries \ Popped(k)) \cup {next_tag}
          /\ pending_entries'[next_tag].delivery_attempts = 0
          /\ \A tag \in DOMAIN pending_entries \ Popped(k) :
               tag # next_tag => pending_entries'[tag] = pending_entries[tag]
      BY <1>1 DEF Put, Drop
    <2> QED
      BY <2>1 DEF FreshTags
  <1>3. /\ pending \in Seq(Tags) /\ Tags \in SUBSET Int
        /\ next_tag \in Tags \cup {next_tag} /\ next_tag \in Nat /\ \A tag \in Tags : tag < next_tag
    BY DEF Inv, TypeOK, Tags
  <1>4. rest \in Seq(Tags) /\ Ascending(rest, F)
    BY <1>3, RestFacts, AscendingRest DEF Order
  <1>5. rest \in Seq(Tags \cup {next_tag}) /\ \A i \in 1 .. Len(rest) : rest[i] < next_tag
    <2> HIDE DEF rest, F
    <2>1. \A i \in 1 .. Len(rest) : rest[i] \in Tags
      BY <1>4, Elements
    <2> QED
      BY <1>3, <1>4, <2>1, Elements
  <1>6. pending' = push_back(rest, next_tag) /\ Tags \cup {next_tag} \in SUBSET Int
    BY <1>1, <1>3
  <1> HIDE DEF rest, F
  <1>7. Ascending(pending', F \cup {next_tag})
    BY <1>3, <1>4, <1>5, <1>6, AscendingAppend
  <1> QED
    BY <1>1, <1>2, <1>7 DEF Order, InflightTried

LEMMA DequeueOrder ==
  ASSUME Inv, Order, dequeue
  PROVE  Order'
  <1>1. PICK i \in 1 .. Len(pending) :
          /\ FirstLive(i)
          /\ pending' = rest_after(i)
          /\ pending_entries' = Drop(pending_entries, {pending[i]})
          /\ \/ inflight' = inflight
             \/ inflight' = Put(inflight, pending[i],
                    [pending_entries[pending[i]] EXCEPT
                       !.delivery_attempts = pending_entries[pending[i]].delivery_attempts + 1,
                       !.next_delivery_at =
                         now + Backoff(pending_entries[pending[i]].delivery_attempts + 1)])
    BY DEF dequeue
  <1>2. FreshTags' \in SUBSET FreshTags
    BY <1>1 DEF FreshTags, Drop
  <1>3. pending \in Seq(Tags)
    BY DEF Inv, TypeOK
  <1>4. Ascending(pending', FreshTags')
    BY <1>1, <1>2, <1>3, AscendingRest DEF Order, rest_after
  <1> DEFINE entry == pending_entries[pending[i]]
             tried == entry.delivery_attempts + 1
             due == now + Backoff(tried)
             again == [entry EXCEPT !.delivery_attempts = tried, !.next_delivery_at = due]
  <1>5. entry \in QueueEntry /\ tried \in Nat /\ tried >= 1
    BY <1>1 DEF FirstLive, Inv, TypeOK, QueueEntry
  <1>6. \/ inflight' = inflight
        \/ inflight' = Put(inflight, pending[i], again) /\ again.delivery_attempts >= 1
    <2>1. inflight' = inflight \/ inflight' = Put(inflight, pending[i], again)
      BY <1>1
    <2> HIDE DEF entry, tried, due
    <2> QED
      BY <1>5, <2>1 DEF QueueEntry
  <1> HIDE DEF again
  <1>7. InflightTried'
    BY <1>6 DEF Put, Order, InflightTried
  <1> QED
    BY <1>4, <1>7 DEF Order

LEMMA MaintenanceOrder ==
  ASSUME Inv, Order, NEW t \in 0 .. now, maintenance_tick(t)
  PROVE  Order'
  <1> DEFINE R == RetryDue(t) \ Exhausted(t)
             n == Cardinality(R)
  <1>1. PICK s \in [1 .. n -> R] : pending' = pending \o s
    BY DEF maintenance_tick
  <1>2. R \subseteq DOMAIN inflight /\ R \subseteq Tags /\ n \in Nat
    <2>1. R \subseteq Tags
      BY DEF RetryDue, Inv, TypeOK
    <2>2. IsFiniteSet(Tags)
      BY FS_Interval DEF Tags, Inv, TypeOK
    <2> QED
      BY <2>1, <2>2, FS_Subset, FS_CardinalityType DEF RetryDue
  <1>3. /\ inflight' = Drop(inflight, Expired(inflight, t) \cup RetryDue(t))
        /\ pending_entries' =
             [tag \in (DOMAIN pending_entries \ Expired(pending_entries, t)) \cup R |->
                IF tag \in R THEN [inflight[tag] EXCEPT !.next_delivery_at = t]
                ELSE Drop(pending_entries, Expired(pending_entries, t))[tag]]
    BY DEF maintenance_tick, Drop
  <1>4. \A tag \in R : inflight[tag] \in QueueEntry /\ inflight[tag].delivery_attempts >= 1
    BY <1>2 DEF Inv, TypeOK, Order, InflightTried
  <1> HIDE DEF R, n
  <1>5. InflightTried'
    BY <1>3 DEF Drop, Order, InflightTried
  <1>6. \A tag \in R : pending_entries'[tag].delivery_attempts >= 1
    BY <1>3, <1>4 DEF QueueEntry
  <1>7. FreshTags' \in SUBSET FreshTags /\ FreshTags' \cap R = {}
    <2>1. \A tag \in R : tag \notin FreshTags'
      BY <1>6 DEF FreshTags
    <2>2. \A tag \in DOMAIN pending_entries' :
            \/ tag \in R
            \/ tag \in DOMAIN pending_entries /\ pending_entries'[tag] = pending_entries[tag]
      BY <1>3 DEF Drop
    <2> QED
      BY <2>1, <2>2 DEF FreshTags
  <1>8. s \in Seq(Tags) /\ \A i \in 1 .. Len(s) : s[i] \notin FreshTags'
    <2>1. s \in Seq(R)
      BY <1>1, <1>2
    <2>2. \A i \in 1 .. Len(s) : s[i] \in R
      BY <2>1, Elements
    <2> QED
      BY <1>2, <1>7, <2>1, <2>2, Elements
  <1>9. pending \in Seq(Tags) /\ Ascending(pending, FreshTags')
    BY <1>7 DEF Inv, TypeOK, Order, Ascending
  <1>10. Ascending(pending', FreshTags')
    BY <1>1, <1>8, <1>9, AscendingConcat
  <1> QED
    BY <1>5, <1>10 DEF Order

LEMMA RegisterOrder ==
  ASSUME Inv, Order, NEW tag \in Tags, NEW ttl \in Ttls, NEW created \in 0 .. now,
         register_push_inflight(tag, ttl, created)
  PROVE  Order'
  BY DEF register_push_inflight, Put, Order, InflightTried, FreshTags

LEMMA OrderStep == Inv /\ Order /\ [Next]_vars => Order'
  <1> SUFFICES ASSUME Inv, Order, [Next]_vars PROVE Order'
    OBVIOUS
  <1>1. ASSUME NEW q \in QoSLevel, NEW ttl \in Ttls, enqueue(q, ttl) PROVE Order'
    BY <1>1, EnqueueOrder
  <1>2. ASSUME NEW q \in QoSLevel, push_take_tag(q) PROVE Order'
    BY <1>2 DEF push_take_tag, Order, InflightTried, FreshTags
  <1>3. ASSUME NEW tag \in Tags, NEW ttl \in Ttls, NEW created \in 0 .. now,
               register_push_inflight(tag, ttl, created)
        PROVE  Order'
    BY <1>3, RegisterOrder
  <1>4. ASSUME NEW tag \in Tags, push_encode(tag) PROVE Order'
    BY <1>4 DEF push_encode, Order, InflightTried, FreshTags
  <1>5. ASSUME NEW tag \in Tags, cancel_push_inflight(tag) \/ ack(tag) PROVE Order'
    BY <1>5 DEF cancel_push_inflight, ack, Drop, Order, InflightTried, FreshTags
  <1>6. CASE dequeue_none
    BY <1>6 DEF dequeue_none, Order, InflightTried, FreshTags, Ascending
  <1>7. ASSUME NEW t \in 0 .. now, maintenance_tick(t) PROVE Order'
    BY <1>7, MaintenanceOrder
  <1>8. CASE Tick \/ UNCHANGED vars
    BY <1>8 DEF Tick, vars, Order, InflightTried, FreshTags
  <1> QED
    BY <1>1, <1>2, <1>3, <1>4, <1>5, <1>6, <1>7, <1>8, DequeueOrder DEF Next

LEMMA SpecOrder == Spec => []Order
  <1>1. Init => Order
    BY DEF Init, NoKeys, Order, InflightTried, Ascending
  <1> QED
    BY <1>1, OrderStep, SpecInv, PTL DEF Spec

\* Messages never tried are delivered in the order they were published, however
\* many retried ones maintenance puts back between them.
THEOREM FirstTriesInOrder == Spec => []FreshInOrder
  <1>1. Order => FreshInOrder
    BY OrderMeans DEF Order
  <1> QED
    BY <1>1, SpecOrder, PTL

-----------------------------------------------------------------------------
(* What an enqueue evicts.                                                 *)

\* A push subscriber's queue holds nothing but what is in flight.
PushHoldsNothing == Kind = "push" => DOMAIN pending_entries = {} /\ retry_heap = {}

LEMMA PushHoldsNothingStep == PushHoldsNothing /\ [Next]_vars => PushHoldsNothing'
  <1> SUFFICES ASSUME PushHoldsNothing, [Next]_vars, Kind = "push" PROVE PushHoldsNothing'
    BY DEF PushHoldsNothing
  <1>1. ~ \E q \in QoSLevel, ttl \in Ttls : enqueue(q, ttl)
    BY DEF enqueue
  <1>2. ~ dequeue
    BY DEF dequeue, FirstLive, PushHoldsNothing
  <1>3. ASSUME NEW t \in 0 .. now, maintenance_tick(t) PROVE PushHoldsNothing'
    <2>1. RetryDue(t) = {}
      BY DEF RetryDue, PushHoldsNothing
    <2>2. retry_heap' = {}
      BY <1>3 DEF maintenance_tick, NotDue, PushHoldsNothing
    <2>3. DOMAIN pending_entries' = DOMAIN Drop(pending_entries, Expired(pending_entries, t))
                                      \cup (RetryDue(t) \ Exhausted(t))
      BY <1>3 DEF maintenance_tick
    <2> QED
      BY <2>1, <2>2, <2>3 DEF PushHoldsNothing, Drop
  <1>4. ASSUME NEW tag \in Tags, push_encode(tag) \/ cancel_push_inflight(tag) \/ ack(tag)
        PROVE  PushHoldsNothing'
    BY <1>4 DEF push_encode, cancel_push_inflight, ack, PushHoldsNothing
  <1>5. ASSUME NEW tag \in Tags, NEW ttl \in Ttls, NEW created \in 0 .. now,
               register_push_inflight(tag, ttl, created)
        PROVE  PushHoldsNothing'
    BY <1>5 DEF register_push_inflight, PushHoldsNothing
  <1>6. CASE dequeue_none \/ Tick \/ UNCHANGED vars
    BY <1>6 DEF dequeue_none, Tick, vars, PushHoldsNothing
  <1>7. ASSUME NEW q \in QoSLevel, push_take_tag(q) PROVE PushHoldsNothing'
    BY <1>7 DEF push_take_tag, PushHoldsNothing
  <1> QED
    BY <1>1, <1>2, <1>3, <1>4, <1>5, <1>6, <1>7 DEF Next

\* The two maps are finite, and one more pop takes at most one message out.
LEMMA StoredFacts ==
  ASSUME Inv, NEW k \in 0 .. Len(pending)
  PROVE  /\ IsFiniteSet(DOMAIN pending_entries \ Popped(k))
         /\ StoredAfter(k) \in Nat
         /\ Cardinality(DOMAIN inflight) \in Nat
         /\ k >= 1 => StoredAfter(k) >= StoredAfter(k - 1) - 1
  <1>1. /\ IsFiniteSet(DOMAIN pending_entries) /\ IsFiniteSet(DOMAIN inflight)
    <2>1. IsFiniteSet(Tags)
      BY FS_Interval DEF Tags, Inv, TypeOK
    <2> QED
      BY <2>1, FS_Subset DEF Inv, TypeOK
  <1>2. ASSUME NEW j \in 0 .. Len(pending)
        PROVE  /\ IsFiniteSet(DOMAIN pending_entries \ Popped(j))
               /\ Cardinality(DOMAIN pending_entries \ Popped(j)) \in Nat
    BY <1>1, FS_Difference, FS_CardinalityType
  <1>3. Cardinality(DOMAIN inflight) \in Nat
    BY <1>1, FS_CardinalityType
  <1>4. ASSUME k >= 1 PROVE StoredAfter(k) >= StoredAfter(k - 1) - 1
    <2> DEFINE before == DOMAIN pending_entries \ Popped(k - 1)
               after  == DOMAIN pending_entries \ Popped(k)
    <2>1. k - 1 \in 0 .. Len(pending) /\ 1 .. k = (1 .. (k - 1)) \cup {k}
      BY <1>4 DEF Inv, TypeOK
    <2>2. Popped(k) = Popped(k - 1) \cup {pending[k]}
      BY <2>1 DEF Popped
    <2>3. after = before \ {pending[k]}
      BY <2>2
    <2>4. IsFiniteSet(before) /\ Cardinality(before) \in Nat
      BY <1>2, <2>1
    <2> HIDE DEF before, after
    <2>5. Cardinality(after) >= Cardinality(before) - 1
      <3>1. CASE pending[k] \in before
        <4>1. Cardinality(before \ {pending[k]}) = Cardinality(before) - 1
          BY <2>4, <3>1, FS_RemoveElement
        <4> QED
          BY <2>3, <2>4, <4>1
      <3>2. CASE pending[k] \notin before
        <4>1. after = before
          BY <2>3, <3>2
        <4> QED
          BY <2>4, <4>1
      <3> QED
        BY <3>1, <3>2
    <2>6. Cardinality(after) \in Nat
      BY <1>2 DEF after
    <2> QED
      BY <1>3, <2>4, <2>5, <2>6 DEF StoredAfter, before, after
  <1>5. StoredAfter(k) \in Nat
    <2> DEFINE n == Cardinality(DOMAIN pending_entries \ Popped(k))
               m == Cardinality(DOMAIN inflight)
    <2>1. StoredAfter(k) = n + m /\ n \in Nat /\ m \in Nat
      BY <1>2, <1>3 DEF StoredAfter
    <2> HIDE DEF n, m
    <2> QED
      BY <2>1
  <1> QED
    BY <1>2, <1>3, <1>4, <1>5

LEMMA EnqueueTight ==
  ASSUME Inv, NEW q \in QoSLevel, NEW ttl \in Ttls, enqueue(q, ttl)
  PROVE  LET evicted == DOMAIN pending_entries \ DOMAIN pending_entries'
             kept    == DOMAIN pending_entries \cap DOMAIN pending_entries'
             total   == Cardinality(DOMAIN pending_entries') + Cardinality(DOMAIN inflight')
         IN /\ inflight' = inflight
            /\ \A i, j \in 1 .. Len(pending) :
                 pending[i] \in evicted /\ pending[j] \in kept => i < j
            /\ evicted # {} => total >= Capacity
            /\ total > Capacity => kept = {}
  <1> DEFINE old   == DOMAIN pending_entries
             new   == DOMAIN pending_entries'
             total == Cardinality(DOMAIN pending_entries') + Cardinality(DOMAIN inflight')
  <1>1. PICK k \in 0 .. Len(pending) :
          /\ EvictionStopsAt(k)
          /\ new = (old \ Popped(k)) \cup {next_tag}
          /\ inflight' = inflight
    BY DEF enqueue, Put, Drop
  <1>2. /\ next_tag \notin old
        /\ pending \in Seq(Tags) /\ Len(pending) \in Nat /\ old \subseteq Range(pending)
        /\ Unique(pending)
    BY DEF Inv, TypeOK, Tags, PendingReachable
  <1>3. old \ new = old \cap Popped(k) /\ old \cap new = old \ Popped(k)
    BY <1>1, <1>2
  <1>4. /\ StoredAfter(k) \in Nat
        /\ total = StoredAfter(k) + 1
        /\ k >= 1 => k - 1 \in 0 .. (k - 1) /\ StoredAfter(k - 1) \in Nat
                    /\ StoredAfter(k) >= StoredAfter(k - 1) - 1
    <2> DEFINE left == old \ Popped(k)
    <2>1. /\ IsFiniteSet(left) /\ StoredAfter(k) \in Nat
          /\ Cardinality(DOMAIN inflight) \in Nat
          /\ k >= 1 => StoredAfter(k) >= StoredAfter(k - 1) - 1
      BY StoredFacts
    <2>2. Cardinality(left) \in Nat /\ StoredAfter(k) = Cardinality(left) + Cardinality(DOMAIN inflight)
      BY <2>1, FS_CardinalityType DEF StoredAfter
    <2>3. next_tag \notin left /\ new = left \cup {next_tag}
      BY <1>1, <1>2
    <2> HIDE DEF left
    <2>4. Cardinality(new) = Cardinality(left) + 1
      BY <2>1, <2>3, FS_AddElement
    <2>5. k >= 1 => k - 1 \in 0 .. (k - 1) /\ k - 1 \in 0 .. Len(pending)
      BY <1>2
    <2>6. k >= 1 => StoredAfter(k - 1) \in Nat
      BY <2>5, StoredFacts
    <2> QED
      BY <1>1, <2>1, <2>2, <2>4, <2>5, <2>6
  <1>5. ASSUME NEW i \in 1 .. Len(pending), NEW j \in 1 .. Len(pending),
               pending[i] \in old \ new, pending[j] \in old \cap new
        PROVE  i < j
    <2>1. pending[i] \in Popped(k) /\ pending[j] \notin Popped(k)
      BY <1>3, <1>5
    <2>2. PICK n \in 1 .. k : pending[n] = pending[i]
      BY <2>1 DEF Popped
    <2>3. n = i
      BY <1>2, <2>2 DEF Unique
    <2>4. j \notin 1 .. k
      BY <2>1 DEF Popped
    <2> QED
      BY <1>2, <2>2, <2>3, <2>4
  <1>6. ASSUME old \ new # {} PROVE total >= Capacity
    <2>1. k >= 1
      BY <1>3, <1>6, <1>2 DEF Popped
    <2>2. StoredAfter(k - 1) >= Capacity
      BY <1>1, <1>4, <2>1 DEF EvictionStopsAt
    <2> QED
      BY <1>4, <2>1, <2>2, QueueAssumption
  <1>7. ASSUME total > Capacity PROVE old \cap new = {}
    <2>1. k = Len(pending)
      BY <1>1, <1>4, <1>7, QueueAssumption DEF EvictionStopsAt
    <2>2. \A x \in old : x \in Popped(k)
      BY <1>2, <2>1, RangeFacts DEF Popped
    <2> QED
      BY <1>3, <2>2
  <1> QED
    BY <1>1, <1>5, <1>6, <1>7

\* An enqueue makes room for its own message and no more, in queues of every
\* capacity: it touches nothing in flight, evicts from the front, only when full,
\* and leaves the queue over its capacity only with nothing left to evict.
THEOREM EvictsNoMore == Spec => EvictionTight
  <1> DEFINE evicted == DOMAIN pending_entries \ DOMAIN pending_entries'
             kept    == DOMAIN pending_entries \cap DOMAIN pending_entries'
             total   == Cardinality(DOMAIN pending_entries') + Cardinality(DOMAIN inflight')
             Tight   == /\ inflight' = inflight
                        /\ \A i, j \in 1 .. Len(pending) :
                             pending[i] \in evicted /\ pending[j] \in kept => i < j
                        /\ evicted # {} => total >= Capacity
                        /\ total > Capacity => kept = {}
  <1>1. Inv /\ PushHoldsNothing /\ [Next]_vars => [next_tag' # next_tag => Tight]_vars
    <2> SUFFICES ASSUME Inv, PushHoldsNothing, Next, next_tag' # next_tag PROVE Tight
      OBVIOUS
    <2>1. ASSUME NEW q \in QoSLevel, NEW ttl \in Ttls, enqueue(q, ttl) PROVE Tight
      BY <2>1, EnqueueTight
    <2>2. ASSUME NEW q \in QoSLevel, push_take_tag(q) PROVE Tight
      BY <2>2 DEF push_take_tag, PushHoldsNothing
    <2> QED
      BY <2>1, <2>2 DEF Next, register_push_inflight, push_encode, cancel_push_inflight, dequeue,
         dequeue_none, ack, maintenance_tick, Tick
  <1>2. Init => PushHoldsNothing
    BY DEF Init, NoKeys, PushHoldsNothing
  <1> QED
    BY <1>1, <1>2, PushHoldsNothingStep, SpecInv, PTL DEF Spec, EvictionTight

-----------------------------------------------------------------------------
(* The queue implements the contract.  In the contract a message is its     *)
(* delivery tag, and its phase says which map of the queue holds it.        *)

LEMMA PhaseFacts ==
  ASSUME Inv
  PROVE  /\ C!Messages = Tags
         /\ C!In("waiting") = DOMAIN pending_entries
         /\ C!In("inflight") = DOMAIN inflight
         /\ C!In("reserved") = Unregistered
  <1>1. C!Messages = Tags
    BY DEF C!Messages, Tags
  <1>2. \A p : C!In(p) = {m \in Tags : phaseOf(m) = p}
    BY <1>1 DEF C!In
  <1>3. ASSUME NEW m \in Tags
        PROVE  /\ phaseOf(m) = "waiting" <=> m \in DOMAIN pending_entries
               /\ phaseOf(m) = "inflight" <=> m \in DOMAIN inflight
               /\ phaseOf(m) = "reserved" <=> m \in Unregistered
    <2>1. m \in DOMAIN fate => fate[m] \notin {"waiting", "inflight", "reserved"}
      BY DEF Inv, TypeOK, Fates
    <2>2. /\ m \in Unregistered \/ m \in DOMAIN pending_entries \/ m \in DOMAIN inflight \/ m \in DOMAIN fate
          /\ m \in DOMAIN pending_entries => m \notin DOMAIN inflight
          /\ m \in Unregistered => /\ m \notin DOMAIN pending_entries
                                   /\ m \notin DOMAIN inflight
                                   /\ m \notin DOMAIN fate
      BY DEF Inv, OneHome
    <2> QED
      BY <2>1, <2>2 DEF phaseOf
  <1>4. DOMAIN pending_entries \subseteq Tags /\ DOMAIN inflight \subseteq Tags /\ Unregistered \subseteq Tags
    BY DEF Inv, TypeOK, Unregistered
  <1> QED
    BY <1>1, <1>2, <1>3, <1>4

\* A step that takes the next tag is an Accept if it changes only the phases of
\* the new message and of those it evicts.
LEMMA Accepting ==
  ASSUME Inv, next_tag' = next_tag + 1,
         NEW p \in {"waiting", "reserved", "consumed"},
         NEW gone \in SUBSET DOMAIN pending_entries,
         \A m : m = next_tag => phaseOf(m)' = p /\ attemptsOf(m)' = 0,
         \A m \in Tags : /\ phaseOf(m)' = IF m \in gone THEN "evicted" ELSE phaseOf(m)
                         /\ attemptsOf(m)' = IF m \in gone THEN 0 ELSE attemptsOf(m)
  PROVE  C!ContractNext
  <1>1. /\ Tags' = Tags \cup {next_tag} /\ next_tag \notin Tags
        /\ Tags' = 1 .. (next_tag - 1 + 1) /\ next_tag - 1 + 1 = next_tag
        /\ next_tag' - 1 = next_tag - 1 + 1
    BY NextTags DEF Inv, TypeOK, Tags
  <1>2. gone \in SUBSET C!In("waiting") /\ C!Messages = Tags
    BY PhaseFacts
  <1>3. [m \in Tags |-> phaseOf(m)]' =
          [m \in 1 .. (next_tag - 1 + 1) |->
             IF m = next_tag - 1 + 1 THEN p
             ELSE IF m \in gone THEN "evicted" ELSE [x \in Tags |-> phaseOf(x)][m]]
    BY <1>1
  <1>4. [m \in Tags |-> attemptsOf(m)]' =
          [m \in 1 .. (next_tag - 1 + 1) |->
             IF m \in Tags \ gone THEN [x \in Tags |-> attemptsOf(x)][m] ELSE 0]
    BY <1>1
  <1>5. C!Accept(p, gone)
    BY <1>1, <1>2, <1>3, <1>4 DEF C!Accept
  <1> QED
    BY <1>2, <1>5 DEF C!ContractNext

LEMMA EnqueueAccepts ==
  ASSUME Inv, NEW q \in QoSLevel, NEW ttl \in Ttls, enqueue(q, ttl)
  PROVE  C!ContractNext
  <1> DEFINE entry == [qos |-> EffectiveQos(q), created_at |-> now, ttl |-> ttl,
                       delivery_attempts |-> 0, next_delivery_at |-> now]
  <1>1. PICK k \in 0 .. Len(pending) :
          /\ pending_entries' = Put(Drop(pending_entries, Popped(k)), next_tag, entry)
          /\ fate' = PutAll(fate, Popped(k) \cap DOMAIN pending_entries, "evicted")
          /\ inflight' = inflight /\ next_tag' = next_tag + 1
    BY DEF enqueue
  <1> DEFINE gone == Popped(k) \cap DOMAIN pending_entries
  <1>2. Tags' = Tags \cup {next_tag} /\ next_tag \notin Tags /\ next_tag \in Nat
    BY <1>1, NextTags DEF Inv, TypeOK
  <1>3. /\ DOMAIN pending_entries' = (DOMAIN pending_entries \ gone) \cup {next_tag}
        /\ pending_entries'[next_tag].delivery_attempts = 0
        /\ \A m \in DOMAIN pending_entries \ gone :
             m # next_tag => pending_entries'[m] = pending_entries[m]
        /\ DOMAIN fate' = DOMAIN fate \cup gone
        /\ \A m \in gone : fate'[m] = "evicted"
        /\ \A m \in DOMAIN fate \ gone : fate'[m] = fate[m]
    BY <1>1 DEF Put, Drop, PutAll
  <1>4. gone \cap DOMAIN inflight = {} /\ gone \subseteq DOMAIN pending_entries
    BY DEF Inv, OneHome
  <1> HIDE DEF gone, entry
  <1>5. ASSUME NEW m, m = next_tag PROVE phaseOf(m)' = "waiting" /\ attemptsOf(m)' = 0
    BY <1>1, <1>3, <1>5 DEF phaseOf, attemptsOf
  <1>6. ASSUME NEW m \in Tags
        PROVE  /\ phaseOf(m)' = IF m \in gone THEN "evicted" ELSE phaseOf(m)
               /\ attemptsOf(m)' = IF m \in gone THEN 0 ELSE attemptsOf(m)
    <2>1. m # next_tag
      BY <1>2
    <2>2. CASE m \in gone
      BY <1>1, <1>3, <1>4, <2>1, <2>2 DEF phaseOf, attemptsOf
    <2>3. CASE m \notin gone
      BY <1>1, <1>3, <1>4, <2>1, <2>3 DEF phaseOf, attemptsOf
    <2> QED
      BY <2>2, <2>3
  <1> QED
    BY <1>1, <1>4, <1>5, <1>6, Accepting

LEMMA TakeTagAccepts ==
  ASSUME Inv, NEW q \in QoSLevel, push_take_tag(q)
  PROVE  C!ContractNext
  <1>1. /\ next_tag' = next_tag + 1 /\ next_tag \notin Tags
        /\ pending_entries' = pending_entries /\ inflight' = inflight
        /\ \/ fate' = fate
           \/ fate' = Put(fate, next_tag, "consumed")
    BY NextTags DEF push_take_tag, Inv, TypeOK
  <1>2. /\ next_tag \notin DOMAIN pending_entries
        /\ next_tag \notin DOMAIN inflight
        /\ next_tag \notin DOMAIN fate
    BY <1>1 DEF Inv, TypeOK
  <1>3. \A m \in Tags : phaseOf(m)' = phaseOf(m) /\ attemptsOf(m)' = attemptsOf(m)
    BY <1>1 DEF phaseOf, attemptsOf, Put
  <1>4. \A m : m = next_tag => /\ phaseOf(m)' = IF fate' = fate THEN "reserved" ELSE "consumed"
                               /\ attemptsOf(m)' = 0
    BY <1>1, <1>2 DEF phaseOf, attemptsOf, Put
  <1>5. PICK p \in {"reserved", "consumed"} :
          \A m : m = next_tag => phaseOf(m)' = p /\ attemptsOf(m)' = 0
    BY <1>4
  <1>6. PICK gone \in SUBSET DOMAIN pending_entries : gone = {}
    OBVIOUS
  <1>7. \A m \in Tags : /\ phaseOf(m)' = IF m \in gone THEN "evicted" ELSE phaseOf(m)
                        /\ attemptsOf(m)' = IF m \in gone THEN 0 ELSE attemptsOf(m)
    BY <1>3, <1>6
  <1> QED
    BY <1>1, <1>5, <1>7, Accepting

\* A step that moves one message to phase p, to be counted as tried n times.
MovesTo(m, p, n) ==
  /\ next_tag' = next_tag
  /\ phaseOf(m)' = p /\ attemptsOf(m)' = n
  /\ \A x \in Tags : x # m => phaseOf(x)' = phaseOf(x) /\ attemptsOf(x)' = attemptsOf(x)

LEMMA MovingOne ==
  ASSUME Inv, NEW m \in Tags, NEW p, NEW n, MovesTo(m, p, n)
  PROVE  LET phase    == [x \in Tags |-> phaseOf(x)]
             attempts == [x \in Tags |-> attemptsOf(x)]
         IN /\ phase' = [phase EXCEPT ![m] = p]
            /\ attempts' = [attempts EXCEPT ![m] = n]
            /\ phase[m] = phaseOf(m) /\ attempts[m] = attemptsOf(m)
  <1>1. Tags' = Tags
    BY DEF MovesTo, Tags
  <1> QED
    BY <1>1 DEF MovesTo

LEMMA RegisterRegisters ==
  ASSUME Inv, NEW tag \in Tags, NEW ttl \in Ttls, NEW created \in 0 .. now,
         register_push_inflight(tag, ttl, created)
  PROVE  C!ContractNext
  <1> DEFINE entry == [qos |-> "AtLeastOnce", created_at |-> created, ttl |-> ttl,
                       delivery_attempts |-> 1, next_delivery_at |-> created]
  <1>1. /\ tag \in Unregistered /\ inflight' = Put(inflight, tag, entry)
        /\ next_tag' = next_tag /\ pending_entries' = pending_entries /\ fate' = fate
    BY DEF register_push_inflight, Unregistered
  <1>2. tag \notin DOMAIN pending_entries
    BY <1>1 DEF Inv, OneHome
  <1>3. entry.delivery_attempts = 1
    OBVIOUS
  <1> HIDE DEF entry
  <1>4. MovesTo(tag, "inflight", 1)
    BY <1>1, <1>2, <1>3 DEF MovesTo, phaseOf, attemptsOf, Put
  <1>5. C!Register(tag)
    BY <1>1, <1>4, MovingOne, PhaseFacts DEF C!Register, MovesTo
  <1> QED
    BY <1>5, PhaseFacts DEF C!ContractNext

\* Also when the entry was acked or expired before the push is rolled back:
\* then there is nothing to settle.
LEMMA LeavingSettles ==
  ASSUME Inv, NEW tag \in Tags, ack(tag) \/ cancel_push_inflight(tag)
  PROVE  C!ContractNext \/ UNCHANGED C!contractVars
  <1>1. CASE tag \notin DOMAIN inflight
    <2>1. /\ next_tag' = next_tag /\ pending_entries' = pending_entries
          /\ inflight' = Drop(inflight, {tag})
          /\ fate' = PutAll(fate, {tag} \cap DOMAIN inflight, "cancelled")
      BY <1>1 DEF ack, cancel_push_inflight
    <2>2. \A m \in Tags : phaseOf(m)' = phaseOf(m) /\ attemptsOf(m)' = attemptsOf(m)
      BY <1>1, <2>1 DEF phaseOf, attemptsOf, Drop, PutAll
    <2>3. Tags' = Tags
      BY <2>1 DEF Tags
    <2> QED
      BY <2>1, <2>2, <2>3 DEF C!contractVars
  <1>2. CASE tag \in DOMAIN inflight
    <2>1. PICK o \in {"acked", "cancelled"} :
            /\ next_tag' = next_tag /\ pending_entries' = pending_entries
            /\ inflight' = Drop(inflight, {tag})
            /\ DOMAIN fate' = DOMAIN fate \cup {tag} /\ fate'[tag] = o
            /\ \A m \in DOMAIN fate : m # tag => fate'[m] = fate[m]
      BY <1>2 DEF ack, cancel_push_inflight, PutAll, Put
    <2>2. tag \notin DOMAIN pending_entries
      BY <1>2 DEF Inv, OneHome
    <2>3. MovesTo(tag, o, 0)
      BY <2>1, <2>2 DEF MovesTo, phaseOf, attemptsOf, Drop
    <2>4. C!Settle(tag, o)
      BY <1>2, <2>3, MovingOne, PhaseFacts DEF C!Settle, MovesTo
    <2> QED
      BY <2>4, PhaseFacts DEF C!ContractNext
  <1> QED
    BY <1>1, <1>2

\* What is delivered is the first live message of the deque: if it was never
\* tried, every older one that waits was, because the deque has those in order.
LEMMA DequeueDelivers ==
  ASSUME Inv, Order, dequeue
  PROVE  C!ContractNext
  <1>1. PICK i \in 1 .. Len(pending) :
          /\ FirstLive(i)
          /\ next_tag' = next_tag
          /\ pending_entries' = Drop(pending_entries, {pending[i]})
          /\ \/ inflight' = inflight /\ fate' = Put(fate, pending[i], "consumed")
             \/ /\ fate' = fate
                /\ inflight' = Put(inflight, pending[i],
                    [pending_entries[pending[i]] EXCEPT
                       !.delivery_attempts = pending_entries[pending[i]].delivery_attempts + 1,
                       !.next_delivery_at =
                         now + Backoff(pending_entries[pending[i]].delivery_attempts + 1)])
    BY DEF dequeue
  <1>2. PICK m \in DOMAIN pending_entries : m = pending[i]
    BY <1>1 DEF FirstLive
  <1> DEFINE entry == pending_entries[m]
             tried == entry.delivery_attempts + 1
             due   == now + Backoff(tried)
             again == [entry EXCEPT !.delivery_attempts = tried, !.next_delivery_at = due]
  <1>3. /\ m \in Tags /\ m \in Int /\ m \notin DOMAIN inflight /\ m \notin DOMAIN fate
        /\ entry \in QueueEntry /\ tried \in Nat
    BY <1>2 DEF Inv, TypeOK, OneHome, Tags, QueueEntry
  <1>4. attemptsOf(m) = entry.delivery_attempts /\ entry.delivery_attempts < MaxAttempts
    BY <1>2 DEF attemptsOf, Inv, AttemptsBounded
  <1>5. ASSUME attemptsOf(m) = 0,
               NEW o \in DOMAIN pending_entries, o < m
        PROVE  attemptsOf(o) > 0
    <2>1. attemptsOf(o) \in Nat /\ attemptsOf(o) = pending_entries[o].delivery_attempts
      BY DEF attemptsOf, Inv, TypeOK, QueueEntry
    <2>2. SUFFICES ASSUME attemptsOf(o) = 0 PROVE FALSE
      BY <2>1
    <2>3. o \in FreshTags /\ m \in FreshTags
      BY <1>2, <1>4, <1>5, <2>1, <2>2 DEF FreshTags
    <2>4. PICK j \in 1 .. Len(pending) : pending[j] = o
      BY RangeFacts DEF Inv, TypeOK, PendingReachable
    <2>5. Len(pending) \in Nat /\ o \in Int
      BY DEF Inv, TypeOK, Tags
    <2>6. i < j
      BY <1>1, <1>2, <1>3, <1>5, <2>4, <2>5 DEF FirstLive
    <2>7. m < o
      BY <1>2, <2>3, <2>4, <2>6 DEF Order, Ascending
    <2> QED
      BY <1>3, <1>5, <2>5, <2>7
  <1>6. C!In("waiting") = DOMAIN pending_entries /\ C!Messages = Tags
    BY PhaseFacts
  <1>7. /\ \A o \in Tags : [x \in Tags |-> attemptsOf(x)][o] = attemptsOf(o)
        /\ DOMAIN pending_entries \subseteq Tags
    BY DEF Inv, TypeOK
  <1>8. CASE inflight' = inflight /\ fate' = Put(fate, m, "consumed")
    <2>1. MovesTo(m, "consumed", 0)
      BY <1>1, <1>2, <1>3, <1>8 DEF MovesTo, phaseOf, attemptsOf, Put, Drop
    <2>2. C!Deliver(m, "consumed")
      BY <1>2, <1>3, <1>4, <1>5, <1>6, <1>7, <2>1, MovingOne DEF C!Deliver, MovesTo
    <2> QED
      BY <1>3, <1>6, <2>2 DEF C!ContractNext
  <1>9. CASE fate' = fate /\ inflight' = Put(inflight, m, again)
    <2>1. again.delivery_attempts = tried
      <3> HIDE DEF entry, tried, due
      <3> QED
        BY <1>3 DEF QueueEntry
    <2> HIDE DEF again
    <2>2. MovesTo(m, "inflight", tried)
      BY <1>1, <1>2, <1>3, <1>9, <2>1 DEF MovesTo, phaseOf, attemptsOf, Put, Drop
    <2>3. tried = attemptsOf(m) + 1
      BY <1>4
    <2> HIDE DEF tried, entry
    <2> DEFINE phase    == [x \in Tags |-> phaseOf(x)]
               attempts == [x \in Tags |-> attemptsOf(x)]
    <2>4. /\ phase' = [phase EXCEPT ![m] = "inflight"]
          /\ attempts' = [attempts EXCEPT ![m] = attempts[m] + 1]
          /\ next_tag' - 1 = next_tag - 1
      BY <1>3, <2>2, <2>3, MovingOne DEF MovesTo
    <2>5. /\ attempts[m] = 0 => \A o \in DOMAIN pending_entries : o < m => attempts[o] > 0
          /\ attempts[m] < MaxAttempts
      BY <1>3, <1>4, <1>5, <1>7
    <2>6. C!Deliver(m, "inflight")
      BY <1>6, <2>4, <2>5 DEF C!Deliver
    <2> QED
      BY <1>3, <1>6, <2>6 DEF C!ContractNext
  <1> QED
    BY <1>1, <1>2, <1>8, <1>9

LEMMA MaintenanceSweeps ==
  ASSUME Inv, Order, NEW t \in 0 .. now, maintenance_tick(t)
  PROVE  C!ContractNext
  <1> DEFINE E == Expired(pending_entries, t) \cup Expired(inflight, t)
             X == Exhausted(t)
             D == RetryDue(t) \ Exhausted(t)
             kept == Drop(pending_entries, Expired(pending_entries, t))
             restored == [tag \in D |-> [inflight[tag] EXCEPT !.next_delivery_at = t]]
  <1>1. /\ next_tag' = next_tag
        /\ pending_entries' = [tag \in DOMAIN kept \cup D |->
                                 IF tag \in D THEN restored[tag] ELSE kept[tag]]
        /\ inflight' = Drop(inflight, Expired(inflight, t) \cup RetryDue(t))
        /\ fate' = PutAll(PutAll(fate, E, "ttl_expired"), X, "max_retries")
    BY DEF maintenance_tick
  <1>2. /\ E \subseteq DOMAIN pending_entries \cup DOMAIN inflight
        /\ X \subseteq DOMAIN inflight \ E /\ D \subseteq DOMAIN inflight \ E
        /\ X \cup D = RetryDue(t) /\ X \cap D = {}
        /\ \A m \in DOMAIN pending_entries : m \in E <=> m \in Expired(pending_entries, t)
        /\ \A m \in DOMAIN inflight : m \in E <=> m \in Expired(inflight, t)
    BY DEF Expired, RetryDue, Exhausted, Inv, OneHome
  <1>3. \A m \in DOMAIN inflight : inflight[m] \in QueueEntry
    BY DEF Inv, TypeOK
  <1>4. \A m \in D : restored[m].delivery_attempts = inflight[m].delivery_attempts
    BY <1>2, <1>3 DEF QueueEntry
  <1>5. /\ DOMAIN pending_entries' = (DOMAIN pending_entries \ E) \cup D
        /\ \A m \in D : pending_entries'[m].delivery_attempts = inflight[m].delivery_attempts
        /\ \A m \in DOMAIN pending_entries \ E : m \notin D => pending_entries'[m] = pending_entries[m]
    <2> HIDE DEF restored, D, E
    <2> QED
      BY <1>1, <1>2, <1>4 DEF Drop
  <1>6. /\ DOMAIN inflight' = DOMAIN inflight \ (E \cup X \cup D)
        /\ \A m \in DOMAIN inflight' : inflight'[m] = inflight[m]
    BY <1>1, <1>2 DEF Drop
  <1>7. /\ DOMAIN fate' = DOMAIN fate \cup E \cup X
        /\ \A m \in X : fate'[m] = "max_retries"
        /\ \A m \in E \ X : fate'[m] = "ttl_expired"
        /\ \A m \in DOMAIN fate : m \notin E \cup X => fate'[m] = fate[m]
    BY <1>1 DEF PutAll
  <1>8. /\ DOMAIN pending_entries \cap DOMAIN inflight = {}
        /\ DOMAIN fate \cap (DOMAIN pending_entries \cup DOMAIN inflight) = {}
    BY DEF Inv, OneHome
  <1>9. /\ \A m \in X : inflight[m].delivery_attempts = MaxAttempts
        /\ \A m \in D : inflight[m].delivery_attempts < MaxAttempts
    <2>1. \A m \in DOMAIN inflight : /\ inflight[m].delivery_attempts \in Nat
                                     /\ inflight[m].delivery_attempts >= 1
                                     /\ inflight[m].delivery_attempts <= MaxAttempts
      BY <1>3 DEF Inv, AttemptsBounded, Order, InflightTried, QueueEntry
    <2>2. /\ \A m \in X : inflight[m].delivery_attempts >= MaxRetries
          /\ \A m \in D : ~ (inflight[m].delivery_attempts >= MaxRetries)
      BY DEF Exhausted
    <2> HIDE DEF X, D
    <2> QED
      BY <1>2, <2>1, <2>2, QueueAssumption DEF MaxAttempts
  <1> HIDE DEF E, X, D, kept, restored
  <1>10. ASSUME NEW m \in Tags
         PROVE  /\ phaseOf(m)' = IF m \in E THEN "ttl_expired"
                                 ELSE IF m \in X THEN "max_retries"
                                 ELSE IF m \in D THEN "waiting" ELSE phaseOf(m)
                /\ attemptsOf(m)' = IF m \in E \cup X THEN 0 ELSE attemptsOf(m)
    <2>1. CASE m \in E
      BY <1>2, <1>5, <1>6, <1>7, <1>8, <2>1 DEF phaseOf, attemptsOf
    <2>2. CASE m \in X
      BY <1>2, <1>5, <1>6, <1>7, <1>8, <2>2 DEF phaseOf, attemptsOf
    <2>3. CASE m \in D
      BY <1>2, <1>5, <1>6, <1>7, <1>8, <2>3 DEF phaseOf, attemptsOf
    <2>4. CASE m \notin E \cup X \cup D
      BY <1>2, <1>5, <1>6, <1>7, <1>8, <2>4 DEF phaseOf, attemptsOf
    <2> QED
      BY <2>1, <2>2, <2>3, <2>4
  <1>11. \A m \in DOMAIN inflight : m \in Tags /\ attemptsOf(m) = inflight[m].delivery_attempts
    BY <1>8 DEF attemptsOf, Inv, TypeOK
  <1> DEFINE phase    == [x \in Tags |-> phaseOf(x)]
             attempts == [x \in Tags |-> attemptsOf(x)]
  <1>12. /\ Tags' = Tags
         /\ phase' = [m \in Tags |-> IF m \in E THEN "ttl_expired"
                                     ELSE IF m \in X THEN "max_retries"
                                     ELSE IF m \in D THEN "waiting" ELSE phase[m]]
         /\ attempts' = [m \in Tags |-> IF m \in E \cup X THEN 0 ELSE attempts[m]]
    <2>1. Tags' = Tags
      BY <1>1 DEF Tags
    <2> QED
      BY <1>10, <2>1
  <1>13. /\ \A m \in X : attempts[m] = MaxAttempts
         /\ \A m \in D : attempts[m] < MaxAttempts
    BY <1>2, <1>9, <1>11
  <1>14. C!Sweep(E, X, D)
    BY <1>1, <1>2, <1>12, <1>13, PhaseFacts DEF C!Sweep
  <1> QED
    BY <1>2, <1>14, PhaseFacts DEF C!ContractNext

LEMMA ContractStep == Inv /\ Order /\ [Next]_vars => [C!ContractNext]_(C!contractVars)
  <1> SUFFICES ASSUME Inv, Order, [Next]_vars
               PROVE  C!ContractNext \/ UNCHANGED C!contractVars
    OBVIOUS
  <1>1. ASSUME NEW q \in QoSLevel, NEW ttl \in Ttls, enqueue(q, ttl) PROVE C!ContractNext
    BY <1>1, EnqueueAccepts
  <1>2. ASSUME NEW q \in QoSLevel, push_take_tag(q) PROVE C!ContractNext
    BY <1>2, TakeTagAccepts
  <1>3. ASSUME NEW tag \in Tags, NEW ttl \in Ttls, NEW created \in 0 .. now,
               register_push_inflight(tag, ttl, created)
        PROVE  C!ContractNext
    BY <1>3, RegisterRegisters
  <1>4. ASSUME NEW tag \in Tags, ack(tag) \/ cancel_push_inflight(tag)
        PROVE  C!ContractNext \/ UNCHANGED C!contractVars
    BY <1>4, LeavingSettles
  <1>5. ASSUME NEW t \in 0 .. now, maintenance_tick(t) PROVE C!ContractNext
    BY <1>5, MaintenanceSweeps
  <1>6. ASSUME UNCHANGED <<next_tag, pending_entries, inflight, fate>>
        PROVE  UNCHANGED C!contractVars
    <2>1. Tags' = Tags /\ \A m : phaseOf(m)' = phaseOf(m) /\ attemptsOf(m)' = attemptsOf(m)
      BY <1>6 DEF Tags, phaseOf, attemptsOf
    <2> QED
      BY <1>6, <2>1 DEF C!contractVars
  <1>7. ASSUME NEW tag \in Tags, push_encode(tag) PROVE UNCHANGED C!contractVars
    BY <1>6, <1>7 DEF push_encode
  <1>8. CASE dequeue_none \/ Tick \/ UNCHANGED vars
    BY <1>6, <1>8 DEF dequeue_none, Tick, vars
  <1> QED
    BY <1>1, <1>2, <1>3, <1>4, <1>5, <1>7, <1>8, DequeueDelivers DEF Next

\* The queue implements its delivery contract, for every capacity, retry limit,
\* delay and set of TTLs: a message is attempted at most MaxAttempts times, its
\* outcome is final, and first attempts are made in the order of publication.
THEOREM KeepsContract == Spec => Contract
  <1>1. Init => C!ContractInit
    BY DEF Init, C!ContractInit, Tags
  <1> QED
    BY <1>1, ContractStep, SpecInv, SpecOrder, PTL DEF Spec, Contract, C!ContractSpec
=============================================================================
