--------------------------- MODULE RegistryProofs ---------------------------
(***************************************************************************)
(* Theorems about Registry: closing a connection leaves nothing behind,    *)
(* and a publish finds each subscriber once and each group once, however   *)
(* subscribe calls, closes and drops take their locks in between.          *)
(***************************************************************************)
EXTENDS Registry, SequenceFacts, FiniteSetTheorems

-----------------------------------------------------------------------------
(* The inductive invariant.                                                *)

\* From subscribe_insert on publishers can see the subscriber.
Visible == {"inserted", "sharded", "tracked", "done"}

Unique(s) == \A i, j \in DOMAIN s : s[i] = s[j] => i = j

Members(t, g) == Range(consumer_groups[t][g])

\* Everything is where its subscribe call, as far as it got, has put it.
CallInv ==
  \A s \in Subs :
    /\ call[s] # "idle" => TopicOf[s] \in topics
    /\ call[s] = "group" => GroupOf[s] # NoGroup
    /\ call[s] \notin {"idle", "group"} /\ GroupOf[s] # NoGroup
         => GroupOf[s] \in DOMAIN consumer_groups[TopicOf[s]]
    /\ call[s] = "sharded" => ConnOf[s] # NoConn
    /\ call[s] = "tracked" => Wild(s)
    /\ s \in subscriptions => call[s] \in {"sharded", "tracked", "done"}
    /\ s \in wildcard_subs => call[s] = "done" /\ Wild(s)

TopicInv ==
  \A t \in Topics :
    /\ \A s \in subscribers[t] : TopicOf[s] = t /\ GroupOf[s] = NoGroup /\ call[s] \in Visible
    /\ NoGroup \notin DOMAIN consumer_groups[t]
    /\ \A g \in DOMAIN consumer_groups[t] :
         /\ Unique(consumer_groups[t][g])
         /\ \A s \in Members(t, g) : TopicOf[s] = t /\ GroupOf[s] = g /\ call[s] \in Visible

\* A connection is closed after its calls have returned, and the closing one
\* holds the only list of what it has to remove.
CloseInv ==
  \A c \in Conns :
    /\ \A s \in connection_subs[c] : ConnOf[s] = c /\ call[s] \in {"tracked", "done"}
    /\ closing[c].pc # "open" =>
         connection_subs[c] = {} /\ \A s \in Subs : ConnOf[s] = c => call[s] \in {"idle", "done"}
    /\ closing[c].pc = "open" => closing[c].ids = {} /\ closing[c].removed = {}
    /\ \A s \in closing[c].ids \cup closing[c].removed :
         ConnOf[s] = c /\ call[s] = "done" /\ s \in leaving

\* A publisher knows only subscribers that could be seen, and a pattern only
\* once its subscribe call is complete; what it drops is out of the shards.
DropOf(p) ==
  /\ pub[p].pc # "idle" => pub[p].subject \in Subjects
  /\ \A g \in pub[p].groups : g \in DOMAIN consumer_groups[pub[p].subject]
  /\ \A s \in Range(pub[p].snapshot) \cup pub[p].drops :
       call[s] \in Visible /\ (Wild(s) => call[s] = "done")
  /\ pub[p].dropping # NoSub <=> pub[p].pc \in {"drop_topic", "drop_conn", "drop_pattern"}
  /\ pub[p].dropping # NoSub =>
       /\ pub[p].dropping \in leaving \ subscriptions
       /\ call[pub[p].dropping] \in {"sharded", "tracked", "done"}
       /\ Wild(pub[p].dropping) => call[pub[p].dropping] = "done"

DropInv == \A p \in Publishers : DropOf(p)

\* Whoever takes a subscription out of its shard is on its way to the topic ...
TopicToGo(s) ==
  \/ \E c \in Conns : /\ s \in closing[c].removed
                      /\ closing[c].pc \in {"shards", "topics"}
                      /\ closing[c].pc = "topics" => s \in closing[c].ids
  \/ \E p \in Publishers : pub[p].dropping = s /\ pub[p].pc = "drop_topic"

\* ... and to the patterns; and until then the connection knows it.
ResidueInv ==
  /\ \A t \in Topics : \A s \in subscribers[t] :
       s \in subscriptions \/ call[s] = "inserted" \/ TopicToGo(s)
  /\ \A t \in Topics : \A g \in DOMAIN consumer_groups[t] : \A s \in Members(t, g) :
       s \in subscriptions \/ call[s] = "inserted" \/ TopicToGo(s)
  /\ \A s \in wildcard_subs : s \in subscriptions \/ Removing(s)
  /\ \A s \in subscriptions : ConnOf[s] # NoConn /\ call[s] \in {"tracked", "done"} =>
       \/ s \in connection_subs[ConnOf[s]]
       \/ closing[ConnOf[s]].pc = "shards" /\ s \in closing[ConnOf[s]].ids
  /\ \A s \in Subs : Wild(s) /\ call[s] \in {"sharded", "tracked"} => s \in subscriptions

\* What nobody has begun to remove is in every map that a publish looks into.
KeepInv ==
  \A s \in Subs \ leaving :
    /\ call[s] \in Visible /\ GroupOf[s] = NoGroup => s \in subscribers[TopicOf[s]]
    /\ call[s] \in Visible /\ GroupOf[s] # NoGroup => s \in Members(TopicOf[s], GroupOf[s])
    /\ call[s] \in {"sharded", "tracked", "done"} => s \in subscriptions
    /\ call[s] = "done" /\ Wild(s) => s \in wildcard_subs

\* The snapshot of a publish: nobody twice, no group twice, nobody of a group
\* still to be asked, and a pattern only from the last scan.
SnapshotOf(p) ==
  /\ pub[p].pc \in {"idle", "subscribers"} => pub[p].snapshot = <<>>
  /\ pub[p].pc # "groups" => pub[p].groups = {}
  /\ Unique(pub[p].snapshot)
  /\ \A s \in Range(pub[p].snapshot) :
       /\ TopicOf[s] = pub[p].subject \/ (pub[p].pc = "deliver" /\ Wild(s))
       /\ GroupOf[s] \notin pub[p].groups
       /\ pub[p].pc = "groups_snapshot" => GroupOf[s] = NoGroup
  /\ NoGroup \notin pub[p].groups
  /\ \A r, s \in Range(pub[p].snapshot) : GroupOf[r] = GroupOf[s] /\ GroupOf[r] # NoGroup => r = s

SnapshotInv == \A p \in Publishers : SnapshotOf(p)

Found == {"groups_snapshot", "groups", "wildcards", "deliver"}

\* Whoever was subscribed when the publish began, and stays, is in it.
MustOf(p) ==
  /\ \A s \in pub[p].must : call[s] = "done"
  /\ \A s \in pub[p].must \ leaving :
       /\ TopicOf[s] = pub[p].subject /\ GroupOf[s] = NoGroup /\ pub[p].pc \in Found
            => s \in Range(pub[p].snapshot)
       /\ pub[p].subject \in MatchesOf[s] /\ pub[p].pc = "deliver" => s \in Range(pub[p].snapshot)
       /\ (/\ TopicOf[s] = pub[p].subject /\ GroupOf[s] # NoGroup
           /\ pub[p].pc \in Found \ {"groups_snapshot"})
            => \/ GroupOf[s] \in pub[p].groups
               \/ \E r \in Range(pub[p].snapshot) : GroupOf[r] = GroupOf[s]

MustInv == \A p \in Publishers : MustOf(p)

Inv == /\ TypeOK /\ CallInv /\ TopicInv /\ CloseInv /\ DropInv /\ ResidueInv /\ KeepInv
       /\ SnapshotInv /\ MustInv

-----------------------------------------------------------------------------
(* Sequences without repetitions.                                          *)

LEMMA ToSetIsRange == \A s : ToSet(s) = Range(s)
  BY DEF ToSet, Range

LEMMA ConcatUnique ==
  ASSUME NEW S, NEW s \in Seq(S), NEW t \in Seq(S), Unique(s), Unique(t),
         Range(s) \cap Range(t) = {}
  PROVE  Unique(s \o t)
  <1> DEFINE r == s \o t
  <1>1. /\ Len(s) \in Nat /\ Len(t) \in Nat /\ DOMAIN s = 1 .. Len(s) /\ DOMAIN t = 1 .. Len(t)
        /\ \A x : x \in Range(s) <=> \E i \in 1 .. Len(s) : s[i] = x
        /\ \A x : x \in Range(t) <=> \E i \in 1 .. Len(t) : t[i] = x
    BY SeqFacts
  <1>2. /\ r \in Seq(S) /\ DOMAIN r = 1 .. (Len(s) + Len(t))
        /\ \A i \in 1 .. Len(s) : r[i] = s[i]
        /\ \A i \in 1 .. Len(t) : r[Len(s) + i] = t[i]
    BY ConcatFacts, SeqFacts
  <1> HIDE DEF r
  <1>3. \A i \in DOMAIN r : \/ i \in 1 .. Len(s) /\ r[i] = s[i]
                            \/ i - Len(s) \in 1 .. Len(t) /\ r[i] = t[i - Len(s)]
    <2> SUFFICES ASSUME NEW i \in DOMAIN r, i \notin 1 .. Len(s)
                 PROVE  i - Len(s) \in 1 .. Len(t) /\ r[i] = t[i - Len(s)]
      BY <1>2
    <2>1. i - Len(s) \in 1 .. Len(t) /\ Len(s) + (i - Len(s)) = i
      BY <1>1, <1>2
    <2> QED
      BY <1>2, <2>1
  <1> SUFFICES ASSUME NEW i \in DOMAIN r, NEW j \in DOMAIN r, r[i] = r[j] PROVE i = j
    BY DEF Unique, r
  <1>4. CASE i \in 1 .. Len(s) /\ r[i] = s[i] /\ j \in 1 .. Len(s) /\ r[j] = s[j]
    BY <1>1, <1>4 DEF Unique
  <1>5. CASE /\ i - Len(s) \in 1 .. Len(t) /\ r[i] = t[i - Len(s)]
             /\ j - Len(s) \in 1 .. Len(t) /\ r[j] = t[j - Len(s)]
    <2>1. i - Len(s) = j - Len(s)
      BY <1>1, <1>5 DEF Unique
    <2> QED
      BY <1>1, <1>2, <2>1
  <1>6. CASE r[i] \in Range(s) /\ r[i] \in Range(t)
    BY <1>6
  <1> QED
    BY <1>1, <1>3, <1>4, <1>5, <1>6

LEMMA AppendUnique ==
  ASSUME NEW S, NEW s \in Seq(S), NEW e \in S, Unique(s), e \notin Range(s)
  PROVE  Unique(Append(s, e))
  <1>1. /\ Len(s) \in Nat /\ DOMAIN s = 1 .. Len(s)
        /\ \A x : x \in Range(s) <=> \E i \in 1 .. Len(s) : s[i] = x
    BY SeqFacts
  <1>2. PICK r : r = Append(s, e)
    OBVIOUS
  <1>3. /\ DOMAIN r = 1 .. (Len(s) + 1) /\ r[Len(s) + 1] = e
        /\ \A i \in 1 .. Len(s) : r[i] = s[i]
    BY <1>2, AppendFacts, SeqFacts
  <1> QED
    BY <1>1, <1>2, <1>3 DEF Unique

LEMMA WithoutFacts ==
  ASSUME NEW S, NEW s \in Seq(S), NEW e, Unique(s)
  PROVE  /\ Without(s, e) \in Seq(S) /\ Unique(Without(s, e))
         /\ Range(Without(s, e)) = Range(s) \ {e}
  <1>1. /\ Len(s) \in Nat /\ DOMAIN s = 1 .. Len(s)
        /\ \A x : x \in Range(s) <=> \E i \in 1 .. Len(s) : s[i] = x
    BY SeqFacts
  <1>2. CASE ~ \E i \in DOMAIN s : s[i] = e
    <2>1. Without(s, e) = s /\ e \notin Range(s)
      BY <1>1, <1>2 DEF Without
    <2> QED
      BY <2>1
  <1>3. CASE \E i \in DOMAIN s : s[i] = e
    <2>1. PICK k \in 1 .. Len(s) : s[k] = e /\ Without(s, e) = RemoveAt(s, k)
      BY <1>1, <1>3 DEF Without
    <2> DEFINE a == SubSeq(s, 1, k - 1)
               b == SubSeq(s, k + 1, Len(s))
    <2>2. Without(s, e) = a \o b
      BY <2>1 DEF RemoveAt
    <2>3. /\ a \in Seq(S) /\ Len(a) = k - 1 /\ \A i \in 1 .. (k - 1) : a[i] = s[i]
      BY <1>1, PartFacts
    <2>4. /\ b \in Seq(S) /\ Len(b) = Len(s) - k
          /\ \A i \in 1 .. (Len(s) - k) : b[i] = s[k + i]
      <3>1. PICK q \in 1 .. (Len(s) + 1) : q = k + 1
        BY <1>1
      <3>2. /\ b \in Seq(S) /\ Len(b) = Len(s) - q + 1
            /\ \A i \in 1 .. (Len(s) - q + 1) : b[i] = s[q + i - 1]
        BY <3>1, FromFacts, Zenon
      <3> HIDE DEF b
      <3>3. \A i \in 1 .. (Len(s) - k) : q + i - 1 = k + i
        BY <1>1, <3>1
      <3>4. Len(s) - q + 1 = Len(s) - k
        BY <1>1, <3>1
      <3> QED
        BY <3>2, <3>3, <3>4
    <2> HIDE DEF a, b
    <2>5. \A i \in 1 .. (Len(s) - k) : b[i] = s[k + i] /\ k + i \in 1 .. Len(s) /\ k + i # k
      BY <1>1, <2>1, <2>4
    <2>6. /\ DOMAIN a = 1 .. (k - 1) /\ DOMAIN b = 1 .. (Len(s) - k)
          /\ \A x : x \in Range(a) <=> \E i \in 1 .. (k - 1) : a[i] = x
          /\ \A x : x \in Range(b) <=> \E i \in 1 .. (Len(s) - k) : b[i] = x
      BY <2>3, <2>4, SeqFacts
    <2>7. Unique(a) /\ Unique(b)
      <3>1. \A i, j \in 1 .. (k - 1) : a[i] = a[j] => i = j
        BY <1>1, <2>1, <2>3 DEF Unique
      <3>2. ASSUME NEW i \in 1 .. (Len(s) - k), NEW j \in 1 .. (Len(s) - k), b[i] = b[j]
            PROVE  i = j
        <4>1. k + i \in DOMAIN s /\ k + j \in DOMAIN s /\ s[k + i] = s[k + j]
          BY <1>1, <2>5, <3>2
        <4>2. k + i = k + j
          BY <4>1, Zenon DEF Unique
        <4> QED
          BY <1>1, <4>2
      <3> QED
        BY <2>6, <3>1, <3>2 DEF Unique
    <2>8. ASSUME NEW x \in Range(a), x \in Range(b) PROVE FALSE
      <3>1. PICK i \in 1 .. (k - 1) : s[i] = x
        BY <2>6, <2>3
      <3>2. PICK j \in 1 .. (Len(s) - k) : s[k + j] = x
        BY <2>6, <2>5, <2>8
      <3>3. i \in DOMAIN s /\ k + j \in DOMAIN s /\ i # k + j
        BY <1>1, <2>5
      <3> QED
        BY <3>1, <3>2, <3>3 DEF Unique
    <2>9. \A x : x \in Range(a) \cup Range(b) <=> x \in Range(s) \ {e}
      <3>1. ASSUME NEW x \in Range(a) \cup Range(b) PROVE x \in Range(s) \ {e}
        <4>1. PICK i \in 1 .. Len(s) : i # k /\ s[i] = x
          <5>1. CASE x \in Range(a)
            <6>1. PICK j \in 1 .. (k - 1) : a[j] = x
              BY <2>6, <5>1
            <6>2. j \in 1 .. Len(s) /\ j # k /\ s[j] = x
              BY <1>1, <2>3, <6>1
            <6> QED
              BY <6>2
          <5>2. CASE x \in Range(b)
            <6>1. PICK j \in 1 .. (Len(s) - k) : b[j] = x
              BY <2>6, <5>2
            <6> QED
              BY <2>5, <6>1
          <5> QED
            BY <3>1, <5>1, <5>2
        <4> QED
          BY <1>1, <2>1, <4>1 DEF Unique
      <3>2. ASSUME NEW x \in Range(s), x # e PROVE x \in Range(a) \cup Range(b)
        <4>1. PICK i \in 1 .. Len(s) : s[i] = x /\ i # k
          BY <1>1, <2>1, <3>2
        <4>2. CASE i < k
          <5>1. i \in 1 .. (k - 1)
            BY <1>1, <4>2
          <5> QED
            BY <2>3, <2>6, <4>1, <5>1
        <4>3. CASE i > k
          <5>1. i - k \in 1 .. (Len(s) - k) /\ k + (i - k) = i
            BY <1>1, <4>3
          <5>2. b[i - k] = x
            BY <2>5, <4>1, <5>1
          <5> QED
            BY <2>6, <5>1, <5>2
        <4> QED
          BY <1>1, <4>1, <4>2, <4>3
      <3> QED
        BY <3>1, <3>2
    <2>10. Range(a \o b) = Range(s) \ {e}
      BY <2>3, <2>4, <2>9, ConcatFacts
    <2> QED
      BY <2>2, <2>3, <2>4, <2>7, <2>8, <2>10, ConcatFacts, ConcatUnique
  <1> QED
    BY <1>2, <1>3

\* SetToSeq lists a finite set.
LEMMA SetToSeqFacts ==
  ASSUME NEW S, NEW T \in SUBSET S, IsFiniteSet(S)
  PROVE  SetToSeq(T) \in Seq(S) /\ Unique(SetToSeq(T)) /\ Range(SetToSeq(T)) = T
  <1>1. IsFiniteSet(T)
    BY FS_Subset
  <1>2. Cardinality(T) \in Nat /\ ExistsBijection(1 .. Cardinality(T), T)
    BY <1>1, FS_CardinalityType
  <1>3. PICK n \in Nat : n = Cardinality(T)
    BY <1>2
  <1>4. PICK b \in Bijection(1 .. n, T) : TRUE
    BY <1>2, <1>3 DEF ExistsBijection
  <1>5. \E f \in [1 .. n -> T] : IsInjective(f)
    BY <1>4 DEF Bijection, Injection, Surjection, IsInjective
  <1>6. PICK f \in [1 .. n -> T] : f = SetToSeq(T) /\ IsInjective(f)
    BY <1>3, <1>5 DEF SetToSeq
  <1>7. f \in Seq(S)
    BY <1>6
  <1>8. ASSUME NEW t \in T, \A i \in 1 .. n : f[i] # t PROVE FALSE
    <2>1. IsFiniteSet(1 .. n) /\ Cardinality(1 .. n) = n
      BY FS_Interval
    <2>2. IsFiniteSet(T \ {t}) /\ Cardinality(T \ {t}) = n - 1
      BY <1>1, <1>3, FS_RemoveElement
    <2>3. f \in [1 .. n -> T \ {t}]
      BY <1>8
    <2>4. \E i, j \in 1 .. n : i # j /\ f[i] = f[j]
      BY <2>1, <2>2, <2>3, FS_PigeonHole
    <2> QED
      BY <1>6, <2>4 DEF IsInjective
  <1>9. Range(f) = T
    BY <1>8 DEF Range
  <1> QED
    BY <1>6, <1>7, <1>9 DEF Unique, IsInjective

-----------------------------------------------------------------------------
(* The subscribers and groups of the topics.                               *)

GroupsType ==
  /\ DOMAIN consumer_groups = Topics
  /\ \A t \in Topics : consumer_groups[t] \in [DOMAIN consumer_groups[t] -> Seq(Subs)]

\* A call that is past its group has one to join.
HasGroup(s) ==
  GroupOf[s] = NoGroup \/ GroupOf[s] \in DOMAIN consumer_groups[TopicOf[s]]

LEMMA SubTopics == \A s \in Subs : TopicOf[s] \in Topics /\ GroupOf[s] \in Groups
  BY DEF Topics, Groups

LEMMA MembersAreSubs ==
  ASSUME TypeOK, NEW t \in Topics
  PROVE  /\ subscribers[t] \subseteq Subs
         /\ \A g \in DOMAIN consumer_groups[t] : Members(t, g) \subseteq Subs
  <1>1. \A g \in DOMAIN consumer_groups[t] : consumer_groups[t][g] \in Seq(Subs)
    BY DEF TypeOK, TopicType
  <1>2. \A g \in DOMAIN consumer_groups[t] : Members(t, g) \subseteq Subs
    BY <1>1, SeqFacts DEF Members
  <1> QED
    BY <1>2 DEF TypeOK, TopicType

\* RemoveFromTopic takes s away wherever it is, and nothing else.
LEMMA RemoveFacts ==
  ASSUME TypeOK, TopicInv, NEW s \in Subs, HasGroup(s), RemoveFromTopic(s)
  PROVE  /\ subscribers' \in [Topics -> SUBSET Subs] /\ GroupsType'
         /\ \A t \in Topics :
              /\ subscribers'[t] = subscribers[t] \ {s}
              /\ DOMAIN consumer_groups'[t] = DOMAIN consumer_groups[t]
              /\ \A g \in DOMAIN consumer_groups[t] :
                   Unique(consumer_groups'[t][g]) /\ Members(t, g)' = Members(t, g) \ {s}
  <1>0. TopicOf[s] \in Topics /\ GroupsType /\ subscribers \in [Topics -> SUBSET Subs]
    BY SubTopics DEF TypeOK, TopicType, GroupsType
  <1>1. CASE GroupOf[s] = NoGroup
    <2>1. /\ subscribers' = [subscribers EXCEPT ![TopicOf[s]] = @ \ {s}]
          /\ consumer_groups' = consumer_groups
      BY <1>1 DEF RemoveFromTopic
    <2>2. \A t \in Topics : subscribers'[t] = subscribers[t] \ {s}
      BY <1>0, <2>1 DEF TopicInv
    <2>3. \A t \in Topics : \A g \in DOMAIN consumer_groups[t] : s \notin Members(t, g)
      BY <1>1 DEF TopicInv
    <2>4. \A t \in Topics : \A g \in DOMAIN consumer_groups[t] :
            Unique(consumer_groups'[t][g]) /\ Members(t, g)' = Members(t, g) \ {s}
      <3>1. \A t \in Topics : \A g \in DOMAIN consumer_groups[t] : Members(t, g)' = Members(t, g)
        BY <2>1 DEF Members
      <3> QED
        BY <2>1, <2>3, <3>1 DEF TopicInv
    <2>5. subscribers' \in [Topics -> SUBSET Subs] /\ GroupsType'
      BY <1>0, <2>1 DEF GroupsType
    <2> QED
      BY <2>1, <2>2, <2>4, <2>5
  <1>2. CASE GroupOf[s] # NoGroup
    <2> DEFINE t0 == TopicOf[s]
               g0 == GroupOf[s]
    <2>1. PICK new : new = Without(consumer_groups[t0][g0], s)
      OBVIOUS
    <2>2. /\ consumer_groups' = [consumer_groups EXCEPT ![t0][g0] = new]
          /\ subscribers' = subscribers
      BY <1>2, <2>1 DEF RemoveFromTopic
    <2>3. g0 \in DOMAIN consumer_groups[t0] /\ consumer_groups[t0][g0] \in Seq(Subs)
          /\ Unique(consumer_groups[t0][g0])
      BY <1>0, <1>2 DEF HasGroup, GroupsType, TopicInv
    <2>4. new \in Seq(Subs) /\ Unique(new) /\ Range(new) = Range(consumer_groups[t0][g0]) \ {s}
      BY <2>1, <2>3, WithoutFacts
    <2>5. \A t \in Topics : subscribers'[t] = subscribers[t] \ {s}
      BY <1>2, <2>2 DEF TopicInv
    <2>6. /\ DOMAIN consumer_groups' = Topics
          /\ \A t \in Topics : DOMAIN consumer_groups'[t] = DOMAIN consumer_groups[t]
          /\ \A t \in Topics : \A g \in DOMAIN consumer_groups[t] :
               consumer_groups'[t][g] = IF t = t0 /\ g = g0 THEN new ELSE consumer_groups[t][g]
      BY <1>0, <2>2 DEF GroupsType
    <2>7. ASSUME NEW t \in Topics
          PROVE  consumer_groups'[t] \in [DOMAIN consumer_groups[t] -> Seq(Subs)]
      <3>1. CASE t = t0
        <4>1. consumer_groups'[t] = [consumer_groups[t] EXCEPT ![g0] = new]
          BY <1>0, <2>2, <3>1 DEF GroupsType
        <4> QED
          BY <1>0, <2>4, <4>1 DEF GroupsType
      <3>2. CASE t # t0
        BY <1>0, <2>2, <3>2 DEF GroupsType
      <3> QED
        BY <3>1, <3>2
    <2>8. \A t \in Topics : \A g \in DOMAIN consumer_groups[t] :
            Unique(consumer_groups'[t][g]) /\ Members(t, g)' = Members(t, g) \ {s}
      <3> SUFFICES ASSUME NEW t \in Topics, NEW g \in DOMAIN consumer_groups[t]
                   PROVE  /\ Unique(consumer_groups'[t][g])
                          /\ Range(consumer_groups'[t][g]) = Range(consumer_groups[t][g]) \ {s}
        BY DEF Members
      <3>1. CASE t = t0 /\ g = g0
        BY <2>4, <2>6, <3>1
      <3>2. CASE ~(t = t0 /\ g = g0)
        <4>1. s \notin Range(consumer_groups[t][g])
          BY <3>2 DEF TopicInv, Members
        <4>2. consumer_groups'[t][g] = consumer_groups[t][g]
          BY <2>6, <3>2
        <4> QED
          BY <4>1, <4>2 DEF TopicInv
      <3> QED
        BY <3>1, <3>2
    <2>9. GroupsType'
      BY <2>6, <2>7 DEF GroupsType
    <2>10. subscribers' \in [Topics -> SUBSET Subs]
      BY <1>0, <2>2
    <2> HIDE DEF t0, g0
    <2> QED
      BY <2>5, <2>6, <2>8, <2>9, <2>10
  <1> QED
    BY <1>1, <1>2

\* subscribe_insert adds s to one of them.
LEMMA InsertFacts ==
  ASSUME TypeOK, CallInv, TopicInv, NEW s \in Subs, subscribe_insert(s)
  PROVE  /\ subscribers' \in [Topics -> SUBSET Subs] /\ GroupsType'
         /\ \A t \in Topics :
              /\ subscribers'[t] = IF t = TopicOf[s] /\ GroupOf[s] = NoGroup
                                   THEN subscribers[t] \cup {s} ELSE subscribers[t]
              /\ DOMAIN consumer_groups'[t] = DOMAIN consumer_groups[t]
              /\ \A g \in DOMAIN consumer_groups[t] :
                   /\ Unique(consumer_groups'[t][g])
                   /\ Members(t, g)' = IF t = TopicOf[s] /\ g = GroupOf[s]
                                       THEN Members(t, g) \cup {s} ELSE Members(t, g)
  <1>0. /\ TopicOf[s] \in Topics /\ GroupsType /\ subscribers \in [Topics -> SUBSET Subs]
        /\ call[s] = "topic"
    BY SubTopics DEF TypeOK, TopicType, GroupsType, subscribe_insert
  <1>1. CASE GroupOf[s] = NoGroup
    <2>1. /\ subscribers' = [subscribers EXCEPT ![TopicOf[s]] = @ \cup {s}]
          /\ consumer_groups' = consumer_groups
      BY <1>1 DEF subscribe_insert
    <2>2. \A t \in Topics : subscribers'[t] = IF t = TopicOf[s] /\ GroupOf[s] = NoGroup
                                              THEN subscribers[t] \cup {s} ELSE subscribers[t]
      BY <1>0, <1>1, <2>1
    <2>3. \A t \in Topics : GroupOf[s] \notin DOMAIN consumer_groups[t]
      BY <1>1 DEF TopicInv
    <2>4. \A t \in Topics : \A g \in DOMAIN consumer_groups[t] :
            /\ Unique(consumer_groups'[t][g])
            /\ Members(t, g)' = IF t = TopicOf[s] /\ g = GroupOf[s]
                                THEN Members(t, g) \cup {s} ELSE Members(t, g)
      BY <2>1, <2>3, Zenon DEF TopicInv, Members
    <2>5. subscribers' \in [Topics -> SUBSET Subs] /\ GroupsType'
      BY <1>0, <2>1 DEF GroupsType
    <2> QED
      BY <2>1, <2>2, <2>4, <2>5
  <1>2. CASE GroupOf[s] # NoGroup
    <2> DEFINE t0 == TopicOf[s]
               g0 == GroupOf[s]
    <2>1. PICK new : new = Append(consumer_groups[t0][g0], s)
      OBVIOUS
    <2>2. /\ consumer_groups' = [consumer_groups EXCEPT ![t0][g0] = new]
          /\ subscribers' = subscribers
      BY <1>2, <2>1 DEF subscribe_insert
    <2>3. g0 \in DOMAIN consumer_groups[t0] /\ consumer_groups[t0][g0] \in Seq(Subs)
          /\ Unique(consumer_groups[t0][g0]) /\ s \notin Range(consumer_groups[t0][g0])
      BY <1>0, <1>2 DEF CallInv, GroupsType, TopicInv, Members, Visible
    <2>4. new \in Seq(Subs) /\ Unique(new) /\ Range(new) = Range(consumer_groups[t0][g0]) \cup {s}
      BY <2>1, <2>3, AppendFacts, AppendUnique
    <2>5. \A t \in Topics : subscribers'[t] = IF t = TopicOf[s] /\ GroupOf[s] = NoGroup
                                              THEN subscribers[t] \cup {s} ELSE subscribers[t]
      BY <1>2, <2>2
    <2>6. /\ DOMAIN consumer_groups' = Topics
          /\ \A t \in Topics : DOMAIN consumer_groups'[t] = DOMAIN consumer_groups[t]
          /\ \A t \in Topics : \A g \in DOMAIN consumer_groups[t] :
               consumer_groups'[t][g] = IF t = t0 /\ g = g0 THEN new ELSE consumer_groups[t][g]
      BY <1>0, <2>2 DEF GroupsType
    <2>7. ASSUME NEW t \in Topics
          PROVE  consumer_groups'[t] \in [DOMAIN consumer_groups[t] -> Seq(Subs)]
      <3>1. CASE t = t0
        <4>1. consumer_groups'[t] = [consumer_groups[t] EXCEPT ![g0] = new]
          BY <1>0, <2>2, <3>1 DEF GroupsType
        <4> QED
          BY <1>0, <2>4, <4>1 DEF GroupsType
      <3>2. CASE t # t0
        BY <1>0, <2>2, <3>2 DEF GroupsType
      <3> QED
        BY <3>1, <3>2
    <2>8. \A t \in Topics : \A g \in DOMAIN consumer_groups[t] :
            /\ Unique(consumer_groups'[t][g])
            /\ Members(t, g)' = IF t = TopicOf[s] /\ g = GroupOf[s]
                                THEN Members(t, g) \cup {s} ELSE Members(t, g)
      <3> SUFFICES ASSUME NEW t \in Topics, NEW g \in DOMAIN consumer_groups[t]
                   PROVE  /\ Unique(consumer_groups'[t][g])
                          /\ Range(consumer_groups'[t][g]) =
                               IF t = t0 /\ g = g0 THEN Range(consumer_groups[t][g]) \cup {s}
                               ELSE Range(consumer_groups[t][g])
        BY DEF Members
      <3>1. CASE t = t0 /\ g = g0
        BY <2>4, <2>6, <3>1
      <3>2. CASE ~(t = t0 /\ g = g0)
        BY <2>6, <3>2 DEF TopicInv
      <3> QED
        BY <3>1, <3>2
    <2>9. GroupsType'
      BY <2>6, <2>7 DEF GroupsType
    <2>10. subscribers' \in [Topics -> SUBSET Subs]
      BY <1>0, <2>2
    <2> HIDE DEF t0, g0
    <2> QED
      BY <2>5, <2>6, <2>8, <2>9, <2>10
  <1> QED
    BY <1>1, <1>2

\* subscribe_group makes sure of an empty group, or of the one there is.
LEMMA GroupFacts ==
  ASSUME TypeOK, CallInv, TopicInv, NEW s \in Subs, subscribe_group(s)
  PROVE  /\ GroupsType' /\ DOMAIN next_idx' = Topics
         /\ GroupOf[s] \in DOMAIN consumer_groups'[TopicOf[s]]
         /\ \A t \in Topics :
              /\ DOMAIN consumer_groups[t] \subseteq DOMAIN consumer_groups'[t]
              /\ t # TopicOf[s] => consumer_groups'[t] = consumer_groups[t]
              /\ DOMAIN consumer_groups'[t] \subseteq DOMAIN consumer_groups[t] \cup {GroupOf[s]}
              /\ next_idx'[t] \in [DOMAIN consumer_groups'[t] -> Nat]
              /\ \A g \in DOMAIN consumer_groups'[t] :
                   \/ g \in DOMAIN consumer_groups[t] /\ consumer_groups'[t][g] = consumer_groups[t][g]
                   \/ g = GroupOf[s] /\ t = TopicOf[s] /\ consumer_groups'[t][g] = <<>>
  <1> DEFINE t0 == TopicOf[s]
             g0 == GroupOf[s]
  <1>0. /\ t0 \in Topics /\ GroupsType /\ DOMAIN next_idx = Topics
        /\ \A t \in Topics : next_idx[t] \in [DOMAIN consumer_groups[t] -> Nat]
    BY SubTopics DEF TypeOK, TopicType, GroupsType
  <1>1. CASE g0 \in DOMAIN consumer_groups[t0]
    <2>1. consumer_groups' = consumer_groups /\ next_idx' = next_idx
      BY <1>1 DEF subscribe_group
    <2>2. GroupsType'
      BY <1>0, <2>1 DEF GroupsType
    <2> QED
      BY <1>0, <1>1, <2>1, <2>2
  <1>2. CASE g0 \notin DOMAIN consumer_groups[t0]
    <2>1. PICK cg, ni : cg = Put(consumer_groups[t0], g0, <<>>) /\ ni = Put(next_idx[t0], g0, 0)
      OBVIOUS
    <2>2. /\ consumer_groups' = [consumer_groups EXCEPT ![t0] = cg]
          /\ next_idx' = [next_idx EXCEPT ![t0] = ni]
      BY <1>2, <2>1 DEF subscribe_group
    <2>3. /\ DOMAIN cg = DOMAIN consumer_groups[t0] \cup {g0} /\ cg[g0] = <<>>
          /\ \A g \in DOMAIN consumer_groups[t0] : cg[g] = consumer_groups[t0][g]
      BY <1>2, <2>1 DEF Put
    <2>4. cg \in [DOMAIN consumer_groups[t0] \cup {g0} -> Seq(Subs)]
      BY <1>0, <1>2, <2>1 DEF Put, GroupsType
    <2>5. ni \in [DOMAIN consumer_groups[t0] \cup {g0} -> Nat]
      BY <1>0, <1>2, <2>1 DEF Put
    <2>6. /\ DOMAIN consumer_groups' = Topics /\ DOMAIN next_idx' = Topics
          /\ \A t \in Topics : consumer_groups'[t] = IF t = t0 THEN cg ELSE consumer_groups[t]
          /\ \A t \in Topics : next_idx'[t] = IF t = t0 THEN ni ELSE next_idx[t]
      BY <1>0, <2>2 DEF GroupsType
    <2>7. GroupsType'
      BY <1>0, <2>3, <2>4, <2>6 DEF GroupsType
    <2>8. \A t \in Topics : next_idx'[t] \in [DOMAIN consumer_groups'[t] -> Nat]
      BY <1>0, <2>3, <2>5, <2>6
    <2> HIDE DEF t0, g0
    <2>9. \A t \in Topics :
              /\ DOMAIN consumer_groups[t] \subseteq DOMAIN consumer_groups'[t]
              /\ t # t0 => consumer_groups'[t] = consumer_groups[t]
              /\ DOMAIN consumer_groups'[t] \subseteq DOMAIN consumer_groups[t] \cup {g0}
              /\ \A g \in DOMAIN consumer_groups'[t] :
                   \/ g \in DOMAIN consumer_groups[t] /\ consumer_groups'[t][g] = consumer_groups[t][g]
                   \/ g = g0 /\ t = t0 /\ consumer_groups'[t][g] = <<>>
      BY <2>3, <2>6
    <2> QED
      BY <1>0, <2>3, <2>6, <2>7, <2>8, <2>9 DEF t0, g0
  <1> QED
    BY <1>1, <1>2

-----------------------------------------------------------------------------
(* Types.                                                                  *)

LEMMA TopicTypeStep ==
  ASSUME TypeOK, CallInv, TopicInv, CloseInv, DropInv, [Next]_vars
  PROVE  topics' \subseteq Topics /\ TopicType'
  <1> USE SubTopics
  <1>0. topics \subseteq Topics /\ TopicType
    BY DEF TypeOK
  <1>1. CASE UNCHANGED <<topics, subscribers, consumer_groups, next_idx>>
    BY <1>0, <1>1 DEF TopicType
  <1>2. ASSUME NEW s \in Subs, subscribe_topic(s) PROVE topics' \subseteq Topics /\ TopicType'
    <2>1. /\ topics' = topics \cup {TopicOf[s]}
          /\ UNCHANGED <<subscribers, consumer_groups, next_idx>>
      BY <1>2 DEF subscribe_topic
    <2> QED
      BY <1>0, <2>1 DEF TopicType
  <1>3. ASSUME NEW s \in Subs, subscribe_group(s) PROVE topics' \subseteq Topics /\ TopicType'
    <2>1. topics' = topics /\ subscribers' = subscribers /\ call[s] = "group"
      BY <1>3 DEF subscribe_group
    <2>2. TopicOf[s] \in topics
      BY <2>1 DEF CallInv
    <2>3. /\ GroupsType' /\ DOMAIN next_idx' = Topics
          /\ \A t \in Topics :
               /\ t # TopicOf[s] => consumer_groups'[t] = consumer_groups[t]
               /\ DOMAIN consumer_groups'[t] \subseteq DOMAIN consumer_groups[t] \cup {GroupOf[s]}
               /\ next_idx'[t] \in [DOMAIN consumer_groups'[t] -> Nat]
      BY <1>3, GroupFacts
    <2>4. ASSUME NEW t \in Topics
          PROVE  /\ DOMAIN consumer_groups'[t] \subseteq Groups
                 /\ subscribers'[t] # {} \/ DOMAIN consumer_groups'[t] # {} => t \in topics'
      BY <1>0, <2>1, <2>2, <2>3 DEF TopicType
    <2> QED
      BY <1>0, <2>1, <2>3, <2>4 DEF TopicType, GroupsType
  <1>4. ASSUME NEW s \in Subs, subscribe_insert(s) PROVE topics' \subseteq Topics /\ TopicType'
    <2>1. topics' = topics /\ next_idx' = next_idx /\ call[s] = "topic"
      BY <1>4 DEF subscribe_insert
    <2>2. TopicOf[s] \in topics
      BY <2>1 DEF CallInv
    <2>3. \A t \in Topics :
            /\ DOMAIN consumer_groups'[t] = DOMAIN consumer_groups[t]
            /\ consumer_groups'[t] \in [DOMAIN consumer_groups'[t] -> Seq(Subs)]
            /\ t # TopicOf[s] => subscribers'[t] = subscribers[t]
      <3>1. /\ GroupsType'
            /\ \A t \in Topics : DOMAIN consumer_groups'[t] = DOMAIN consumer_groups[t]
        BY <1>4, InsertFacts
      <3>2. \A t \in Topics : t # TopicOf[s] => subscribers'[t] = subscribers[t]
        BY <1>4, InsertFacts
      <3> QED
        BY <3>1, <3>2 DEF GroupsType
    <2>4. \A t \in Topics : subscribers'[t] # {} \/ DOMAIN consumer_groups'[t] # {} => t \in topics'
      BY <1>0, <2>1, <2>2, <2>3 DEF TopicType
    <2>5. subscribers' \in [Topics -> SUBSET Subs] /\ DOMAIN consumer_groups' = Topics
      BY <1>4, InsertFacts DEF GroupsType
    <2> QED
      BY <1>0, <2>1, <2>3, <2>4, <2>5 DEF TopicType
  <1>5. ASSUME NEW s \in Subs, HasGroup(s), RemoveFromTopic(s), UNCHANGED <<topics, next_idx>>
        PROVE  topics' \subseteq Topics /\ TopicType'
    <2>1. \A t \in Topics :
            /\ DOMAIN consumer_groups'[t] = DOMAIN consumer_groups[t]
            /\ consumer_groups'[t] \in [DOMAIN consumer_groups'[t] -> Seq(Subs)]
            /\ subscribers'[t] # {} \/ DOMAIN consumer_groups'[t] # {} => t \in topics'
      BY <1>0, <1>5, RemoveFacts DEF TopicType, GroupsType
    <2> QED
      BY <1>0, <1>5, <2>1, RemoveFacts DEF TopicType, GroupsType
  <1>6. ASSUME NEW c \in Conns, NEW s \in closing[c].ids, close_topic(c, s)
        PROVE  topics' \subseteq Topics /\ TopicType'
    <2>1. s \in Subs /\ HasGroup(s)
      BY DEF TypeOK, Closings, CloseInv, CallInv, HasGroup
    <2> QED
      BY <1>5, <1>6, <2>1 DEF close_topic
  <1>7. ASSUME NEW p \in Publishers, drop_topic(p) PROVE topics' \subseteq Topics /\ TopicType'
    <2>1. pub[p].dropping \in Subs /\ HasGroup(pub[p].dropping)
      BY <1>7 DEF TypeOK, Pubs, DropInv, DropOf, CallInv, HasGroup, drop_topic
    <2>2. PICK s \in Subs : s = pub[p].dropping
      BY <2>1
    <2> QED
      BY <1>5, <1>7, <2>1, <2>2 DEF drop_topic
  <1>8. ASSUME NEW p \in Publishers, NEW g \in pub[p].groups, publish_pick(p, g)
        PROVE  topics' \subseteq Topics /\ TopicType'
    <2>1. UNCHANGED <<topics, subscribers, consumer_groups>>
      BY <1>8 DEF publish_pick
    <2>2. CASE next_idx' = next_idx
      BY <1>1, <2>1, <2>2
    <2>3. CASE next_idx' # next_idx
      <3> DEFINE t == pub[p].subject
                 ms == consumer_groups[t][g]
      <3>1. PICK pick \in Picks(ms, next_idx[t][g]) :
              next_idx' = [next_idx EXCEPT ![t][g] = pick.next_idx]
        BY <1>8, <2>3 DEF publish_pick
      <3>2. pick.next_idx = next_idx[t][g] \/ pick.next_idx = next_idx[t][g] + 1
        BY DEF Picks, Pick
      <3>3. PICK n : n = pick.next_idx
        OBVIOUS
      <3>4. t \in Topics /\ g \in DOMAIN next_idx[t]
        BY <1>0, <1>8 DEF TopicType, DropInv, DropOf, Topics, publish_pick
      <3>5. n \in Nat
        BY <1>0, <3>2, <3>3, <3>4 DEF TopicType
      <3>6. ASSUME NEW u \in Topics PROVE next_idx'[u] \in [DOMAIN consumer_groups[u] -> Nat]
        <4>1. CASE u = t
          <5>1. next_idx'[u] = [next_idx[u] EXCEPT ![g] = n]
            BY <1>0, <3>1, <3>3, <4>1 DEF TopicType
          <5> QED
            BY <1>0, <3>5, <5>1 DEF TopicType
        <4>2. CASE u # t
          BY <1>0, <3>1, <4>2 DEF TopicType
        <4> QED
          BY <4>1, <4>2
      <3>7. DOMAIN next_idx' = Topics
        BY <1>0, <3>1 DEF TopicType
      <3> QED
        BY <1>0, <2>1, <3>6, <3>7 DEF TopicType
    <2> QED
      BY <2>2, <2>3
  <1> QED
    BY <1>1, <1>2, <1>3, <1>4, <1>6, <1>7, <1>8
       DEF Next, vars, subscribe_shard, subscribe_track, subscribe_pattern, close_take, close_shard,
           close_patterns, publish_resolve, publish_subscribers, publish_groups,
           publish_wildcards, publish_deliver, drop_shard, drop_conn, drop_pattern
-----------------------------------------------------------------------------
(* The steps of a publish.                                                 *)

\* What only publishers change stays as it is, but for publisher p.
Others(p) == \A q \in Publishers \ {p} : pub'[q] = pub[q]

LEMMA PubUpdate ==
  ASSUME TypeOK, NEW p \in Publishers, NEW r \in Pubs, pub' = [pub EXCEPT ![p] = r]
  PROVE  pub' \in [Publishers -> Pubs] /\ Others(p) /\ pub'[p] = r
  BY DEF TypeOK, Others

LEMMA PubFields ==
  ASSUME TypeOK, NEW p \in Publishers
  PROVE  /\ pub[p] \in Pubs /\ pub[p].snapshot \in Seq(Subs) /\ pub[p].groups \in SUBSET Groups
         /\ pub[p].drops \in SUBSET Subs /\ pub[p].must \in SUBSET Subs
         /\ pub[p].dropping \in Subs \cup {NoSub} /\ Range(pub[p].snapshot) \subseteq Subs
  <1>1. pub[p] \in Pubs
    BY DEF TypeOK
  <1>2. pub[p].snapshot \in Seq(Subs)
    BY <1>1 DEF Pubs
  <1>3. Range(pub[p].snapshot) \subseteq Subs
    BY <1>2, SeqFacts
  <1> QED
    BY <1>1, <1>2, <1>3 DEF Pubs

LEMMA ResolveFacts ==
  ASSUME TypeOK, NEW p \in Publishers, NEW u \in Subjects, publish_resolve(p, u)
  PROVE  /\ pub' \in [Publishers -> Pubs] /\ Others(p)
         /\ pub'[p].subject = u /\ pub'[p].must = Established
         /\ pub'[p].pc = (IF u \in topics THEN "subscribers" ELSE "wildcards")
         /\ pub'[p].groups = pub[p].groups /\ pub'[p].snapshot = pub[p].snapshot
         /\ pub'[p].drops = pub[p].drops /\ pub'[p].dropping = pub[p].dropping
  <1>0. pub \in [Publishers -> Pubs]
    BY DEF TypeOK
  <1>1. Established \subseteq Subs
    BY DEF Established
  <1>2. PICK r : r = [pub[p] EXCEPT !.subject = u, !.must = Established,
                                    !.pc = IF u \in topics THEN "subscribers" ELSE "wildcards"]
    OBVIOUS
  <1>3. pub' = [pub EXCEPT ![p] = r]
    BY <1>0, <1>2 DEF publish_resolve
  <1>4. r \in Pubs
    BY <1>0, <1>1, <1>2 DEF Pubs
  <1>5. pub'[p] = r /\ pub' \in [Publishers -> Pubs] /\ Others(p)
    BY <1>3, <1>4, PubUpdate
  <1>6. /\ r.subject = u /\ r.must = Established
        /\ r.pc = (IF u \in topics THEN "subscribers" ELSE "wildcards")
        /\ r.groups = pub[p].groups /\ r.snapshot = pub[p].snapshot
        /\ r.drops = pub[p].drops /\ r.dropping = pub[p].dropping
    BY <1>0, <1>2 DEF Pubs
  <1> QED
    BY <1>5, <1>6

LEMMA SubscribersFacts ==
  ASSUME TypeOK, DropInv, NEW p \in Publishers, publish_subscribers(p)
  PROVE  /\ pub' \in [Publishers -> Pubs] /\ Others(p)
         /\ pub'[p].subject = pub[p].subject /\ pub'[p].must = pub[p].must
         /\ pub[p].pc = "subscribers" /\ pub'[p].pc = "groups_snapshot"
         /\ pub'[p].groups = pub[p].groups
         /\ pub'[p].drops = pub[p].drops /\ pub'[p].dropping = pub[p].dropping
         /\ Unique(pub'[p].snapshot) /\ Range(pub'[p].snapshot) = subscribers[pub[p].subject]
  <1>0. pub \in [Publishers -> Pubs]
    BY DEF TypeOK
  <1>1. subscribers[pub[p].subject] \in SUBSET Subs
    BY DEF TypeOK, TopicType, DropInv, DropOf, Topics, publish_subscribers
  <1>2. PICK q \in Seq(Subs) : /\ q = SetToSeq(subscribers[pub[p].subject])
                               /\ Unique(q) /\ Range(q) = subscribers[pub[p].subject]
    BY <1>1, SetToSeqFacts, RegistryAssumption
  <1>3. PICK r : r = [pub[p] EXCEPT !.snapshot = q, !.pc = "groups_snapshot"]
    OBVIOUS
  <1>4. pub' = [pub EXCEPT ![p] = r] /\ pub[p].pc = "subscribers"
    BY <1>0, <1>2, <1>3 DEF publish_subscribers
  <1>5. r \in Pubs
    <2>1. pub[p] \in Pubs
      BY <1>0
    <2> QED
      BY <2>1, <1>3 DEF Pubs
  <1>6. pub'[p] = r /\ pub' \in [Publishers -> Pubs] /\ Others(p)
    BY <1>4, <1>5, PubUpdate
  <1>7. r.snapshot = q /\ r.pc = "groups_snapshot" /\ r.subject = pub[p].subject /\ r.must = pub[p].must
        /\ r.groups = pub[p].groups /\ r.drops = pub[p].drops /\ r.dropping = pub[p].dropping
    BY <1>0, <1>3 DEF Pubs
  <1> QED
    BY <1>2, <1>4, <1>6, <1>7

LEMMA GroupsFacts ==
  ASSUME TypeOK, DropInv, NEW p \in Publishers, publish_groups(p)
  PROVE  /\ pub' \in [Publishers -> Pubs] /\ Others(p)
         /\ pub'[p].subject = pub[p].subject /\ pub'[p].must = pub[p].must
         /\ pub[p].pc = "groups_snapshot"
         /\ pub'[p].groups = DOMAIN consumer_groups[pub[p].subject]
         /\ pub'[p].pc = (IF pub'[p].groups = {} THEN "wildcards" ELSE "groups")
         /\ pub'[p].drops = pub[p].drops /\ pub'[p].dropping = pub[p].dropping
         /\ pub'[p].snapshot = pub[p].snapshot
  <1>0. pub \in [Publishers -> Pubs]
    BY DEF TypeOK
  <1>1. PICK gs : gs = DOMAIN consumer_groups[pub[p].subject]
    OBVIOUS
  <1>2. gs \in SUBSET Groups
    BY <1>1 DEF TypeOK, TopicType, DropInv, DropOf, Topics, publish_groups
  <1>3. PICK r : r = [pub[p] EXCEPT !.groups = gs, !.pc = IF gs = {} THEN "wildcards" ELSE "groups"]
    OBVIOUS
  <1>4. pub' = [pub EXCEPT ![p] = r] /\ pub[p].pc = "groups_snapshot"
    BY <1>0, <1>1, <1>3 DEF publish_groups
  <1>5. r \in Pubs
    BY <1>0, <1>2, <1>3 DEF Pubs
  <1>6. pub'[p] = r /\ pub' \in [Publishers -> Pubs] /\ Others(p)
    BY <1>4, <1>5, PubUpdate
  <1>7. r.snapshot = pub[p].snapshot /\ r.subject = pub[p].subject /\ r.must = pub[p].must
        /\ r.groups = gs /\ r.drops = pub[p].drops /\ r.dropping = pub[p].dropping
        /\ r.pc = (IF gs = {} THEN "wildcards" ELSE "groups")
    BY <1>0, <1>3 DEF Pubs
  <1> QED
    BY <1>1, <1>4, <1>6, <1>7

\* One member is picked, or none where there is none.
LEMMA PickFacts ==
  ASSUME TypeOK, DropInv, NEW p \in Publishers, NEW g \in pub[p].groups, publish_pick(p, g)
  PROVE  /\ pub' \in [Publishers -> Pubs] /\ Others(p)
         /\ pub'[p].subject = pub[p].subject /\ pub'[p].must = pub[p].must
         /\ pub[p].pc = "groups" /\ pub[p].subject \in Topics
         /\ g \in DOMAIN consumer_groups[pub[p].subject]
         /\ pub'[p].groups = pub[p].groups \ {g}
         /\ pub'[p].pc = (IF pub[p].groups = {g} THEN "wildcards" ELSE "groups")
         /\ pub'[p].drops = pub[p].drops /\ pub'[p].dropping = pub[p].dropping
         /\ \/ Members(pub[p].subject, g) = {} /\ pub'[p].snapshot = pub[p].snapshot
            \/ \E m \in Members(pub[p].subject, g) : pub'[p].snapshot = Append(pub[p].snapshot, m)
  <1>0. pub \in [Publishers -> Pubs]
    BY DEF TypeOK
  <1> DEFINE t  == pub[p].subject
             ms == consumer_groups[t][g]
             after(seq) == [pub EXCEPT ![p].groups = @ \ {g}, ![p].snapshot = @ \o seq,
                              ![p].pc = IF pub[p].groups = {g} THEN "wildcards" ELSE "groups"]
  <1>1. t \in Topics /\ g \in DOMAIN consumer_groups[t] /\ ms \in Seq(Subs) /\ pub[p].pc = "groups"
    <2>1. pub[p].pc = "groups" /\ t \in Topics /\ g \in DOMAIN consumer_groups[t]
      BY DEF DropInv, DropOf, Topics, publish_pick
    <2>2. consumer_groups[t] \in [DOMAIN consumer_groups[t] -> Seq(Subs)]
      BY <2>1 DEF TypeOK, TopicType
    <2> QED
      BY <2>1, <2>2
  <1>2. PICK seq : /\ pub' = after(seq)
                   /\ (seq = <<>> /\ Range(ms) = {}) \/ \E m \in Range(ms) : seq = <<m>>
    <2>1. CASE ms = <<>>
      <3>1. Range(ms) = {}
        BY <2>1 DEF Range
      <3>2. pub' = after(<<>>)
        BY <2>1 DEF publish_pick
      <3> QED
        BY <3>1, <3>2
    <2>2. CASE ms # <<>>
      <3>1. PICK pick \in Picks(ms, next_idx[t][g]) : pub' = after(pick.members)
        BY <2>2 DEF publish_pick
      <3>2. \E m \in Range(ms) : pick.members = <<m>>
        <4>1. Len(ms) \in Nat \ {0} /\ next_idx[t][g] \in Nat
          BY <1>1, <2>2 DEF TypeOK, TopicType
        <4> HIDE DEF ms
        <4>2. PICK n, k \in Nat : n = next_idx[t][g] /\ k = Len(ms) /\ k # 0
          BY <4>1
        <4>3. n % k \in 0 .. (k - 1)
          BY <4>2
        <4>4. PICK j \in 1 .. k : j = (n % k) + 1
          BY <4>2, <4>3
        <4>5. \A i \in 1 .. Len(ms) : ms[i] \in Range(ms)
          BY <1>1, SeqFacts
        <4>6. \E i \in 1 .. Len(ms) : pick.members = <<ms[i]>>
          BY <4>2, <4>4 DEF Picks, Pick
        <4> QED
          BY <4>5, <4>6
      <3> QED
        BY <3>1, <3>2
    <2> QED
      BY <2>1, <2>2
  <1>3. seq \in Seq(Subs) /\ pub[p].snapshot \in Seq(Subs)
    <2>1. Range(ms) \subseteq Subs
      BY <1>1, SeqFacts
    <2>2. seq = <<>> \/ \E m \in Range(ms) : seq = <<m>>
      BY <1>2, Zenon
    <2> HIDE DEF ms
    <2>3. seq \in Seq(Subs)
      <3>1. CASE seq = <<>>
        BY <3>1
      <3>2. ASSUME NEW m \in Subs, seq = <<m>> PROVE seq \in Seq(Subs)
        <4>1. <<m>> \in Seq(Subs)
          OBVIOUS
        <4> QED
          BY <3>2, <4>1
      <3> QED
        BY <2>1, <2>2, <3>1, <3>2
    <2> QED
      BY <2>3, PubFields
  <1>4. PICK sn \in Seq(Subs) :
          /\ sn = pub[p].snapshot \o seq
          /\ \/ Range(ms) = {} /\ sn = pub[p].snapshot
             \/ \E m \in Range(ms) : sn = Append(pub[p].snapshot, m)
    <2>1. PICK old \in Seq(Subs) : old = pub[p].snapshot
      BY <1>3
    <2>2. old \o seq \in Seq(Subs)
      BY <1>3
    <2>3. CASE seq = <<>> /\ Range(ms) = {}
      BY <2>1, <2>2, <2>3
    <2>4. ASSUME NEW m \in Range(ms), seq = <<m>> PROVE old \o seq = Append(old, m)
      <3>1. m \in Subs
        BY <1>1, SeqFacts
      <3> HIDE DEF ms
      <3> QED
        BY <2>4, <3>1
    <2> HIDE DEF ms
    <2> QED
      BY <1>2, <2>1, <2>2, <2>3, <2>4
  <1>5. PICK r : r = [pub[p] EXCEPT !.groups = @ \ {g}, !.snapshot = sn,
                        !.pc = IF pub[p].groups = {g} THEN "wildcards" ELSE "groups"]
    OBVIOUS
  <1>6. pub' = [pub EXCEPT ![p] = r]
    BY <1>0, <1>2, <1>4, <1>5
  <1> HIDE DEF t, ms, after
  <1>7. r \in Pubs
    BY <1>0, <1>4, <1>5 DEF Pubs
  <1>8. pub'[p] = r /\ pub' \in [Publishers -> Pubs] /\ Others(p)
    BY <1>6, <1>7, PubUpdate
  <1>9. r.snapshot = sn /\ r.subject = pub[p].subject /\ r.must = pub[p].must
        /\ r.groups = pub[p].groups \ {g} /\ r.drops = pub[p].drops /\ r.dropping = pub[p].dropping
        /\ r.pc = (IF pub[p].groups = {g} THEN "wildcards" ELSE "groups")
    BY <1>0, <1>5 DEF Pubs
  <1> QED
    BY <1>1, <1>4, <1>8, <1>9 DEF t, ms, Members

LEMMA WildcardsFacts ==
  ASSUME TypeOK, NEW p \in Publishers, publish_wildcards(p)
  PROVE  /\ pub' \in [Publishers -> Pubs] /\ Others(p)
         /\ pub'[p].subject = pub[p].subject /\ pub'[p].must = pub[p].must
         /\ pub[p].pc = "wildcards" /\ pub'[p].pc = "deliver" /\ pub'[p].groups = pub[p].groups
         /\ pub'[p].drops = pub[p].drops /\ pub'[p].dropping = pub[p].dropping
         /\ \E q \in Seq(Subs) : /\ Unique(q) /\ Range(q) = Matching(pub[p].subject)
                                 /\ pub'[p].snapshot = pub[p].snapshot \o q
  <1>0. pub \in [Publishers -> Pubs]
    BY DEF TypeOK
  <1>1. Matching(pub[p].subject) \in SUBSET Subs
    BY DEF Matching, TypeOK
  <1>2. PICK q \in Seq(Subs) : /\ q = SetToSeq(Matching(pub[p].subject))
                               /\ Unique(q) /\ Range(q) = Matching(pub[p].subject)
    BY <1>1, SetToSeqFacts, RegistryAssumption
  <1>3. PICK sn \in Seq(Subs) : sn = pub[p].snapshot \o q
    <2>1. pub[p].snapshot \o q \in Seq(Subs)
      BY PubFields
    <2> QED
      BY <2>1
  <1>4. PICK r : r = [pub[p] EXCEPT !.snapshot = sn, !.pc = "deliver"]
    OBVIOUS
  <1>5. pub' = [pub EXCEPT ![p] = r] /\ pub[p].pc = "wildcards"
    BY <1>0, <1>2, <1>3, <1>4 DEF publish_wildcards
  <1>6. r \in Pubs
    BY <1>0, <1>3, <1>4 DEF Pubs
  <1>7. pub'[p] = r /\ pub' \in [Publishers -> Pubs] /\ Others(p)
    BY <1>5, <1>6, PubUpdate
  <1>8. r.snapshot = sn /\ r.pc = "deliver" /\ r.subject = pub[p].subject /\ r.must = pub[p].must
        /\ r.groups = pub[p].groups /\ r.drops = pub[p].drops /\ r.dropping = pub[p].dropping
    BY <1>0, <1>4 DEF Pubs
  <1> QED
    BY <1>2, <1>3, <1>5, <1>7, <1>8

LEMMA DeliverFacts ==
  ASSUME TypeOK, NEW p \in Publishers, publish_deliver(p)
  PROVE  /\ pub' \in [Publishers -> Pubs] /\ Others(p)
         /\ pub'[p].subject = pub[p].subject /\ pub'[p].must = pub[p].must
         /\ pub[p].pc = "deliver" /\ pub'[p].pc \in {"done", "drop_shard"}
         /\ pub'[p].groups = pub[p].groups /\ pub'[p].snapshot = <<>>
         /\ pub'[p].drops \subseteq Range(pub[p].snapshot) /\ pub'[p].dropping = pub[p].dropping
  <1>0. pub \in [Publishers -> Pubs]
    BY DEF TypeOK
  <1>1. ToSet(pub[p].snapshot) = Range(pub[p].snapshot) /\ Range(pub[p].snapshot) \subseteq Subs
    BY PubFields, ToSetIsRange
  <1>2. PICK slow \in SUBSET Range(pub[p].snapshot) :
          pub' = [pub EXCEPT ![p].drops = slow, ![p].snapshot = <<>>,
                             ![p].pc = IF slow = {} THEN "done" ELSE "drop_shard"]
    <2>1. PICK may \in SUBSET ToSet(pub[p].snapshot) : \E slow \in SUBSET may :
            pub' = [pub EXCEPT ![p].drops = slow, ![p].snapshot = <<>>,
                               ![p].pc = IF slow = {} THEN "done" ELSE "drop_shard"]
      <3>1. {s \in ToSet(pub[p].snapshot) : DropSlow /\ ConnOf[s] # NoConn} \in SUBSET ToSet(pub[p].snapshot)
        OBVIOUS
      <3> QED
        BY <3>1, Zenon DEF publish_deliver
    <2>2. SUBSET may \subseteq SUBSET Range(pub[p].snapshot)
      BY <1>1, <2>1
    <2> QED
      BY <2>1, <2>2, Zenon
  <1>3. PICK r : r = [pub[p] EXCEPT !.drops = slow, !.snapshot = <<>>,
                                    !.pc = IF slow = {} THEN "done" ELSE "drop_shard"]
    OBVIOUS
  <1>4. pub' = [pub EXCEPT ![p] = r] /\ pub[p].pc = "deliver"
    BY <1>0, <1>2, <1>3 DEF publish_deliver
  <1>5. slow \in SUBSET Subs /\ <<>> \in Seq(Subs)
    BY <1>1
  <1>6. r \in Pubs
    BY <1>0, <1>3, <1>5 DEF Pubs
  <1>7. pub'[p] = r /\ pub' \in [Publishers -> Pubs] /\ Others(p)
    BY <1>4, <1>6, PubUpdate
  <1>8. r.snapshot = <<>> /\ r.pc \in {"done", "drop_shard"} /\ r.subject = pub[p].subject
        /\ r.must = pub[p].must /\ r.groups = pub[p].groups /\ r.drops = slow
        /\ r.dropping = pub[p].dropping
    BY <1>0, <1>3 DEF Pubs
  <1> QED
    BY <1>4, <1>7, <1>8

DropSame(p) ==
  /\ pub'[p].subject = pub[p].subject /\ pub'[p].must = pub[p].must
  /\ pub'[p].groups = pub[p].groups /\ pub'[p].snapshot = pub[p].snapshot

LEMMA DropShardFacts ==
  ASSUME TypeOK, NEW p \in Publishers, NEW s \in pub[p].drops, drop_shard(p, s)
  PROVE  /\ pub' \in [Publishers -> Pubs] /\ Others(p) /\ DropSame(p)
         /\ pub[p].pc = "drop_shard" /\ pub'[p].drops = pub[p].drops \ {s} /\ s \in Subs
         /\ \/ /\ s \in subscriptions /\ pub'[p].pc = "drop_topic" /\ pub'[p].dropping = s
               /\ subscriptions' = subscriptions \ {s} /\ leaving' = leaving \cup {s}
            \/ /\ s \notin subscriptions /\ pub'[p].pc \in {"done", "drop_shard"}
               /\ pub'[p].dropping = pub[p].dropping /\ UNCHANGED <<subscriptions, leaving>>
  <1>0. pub \in [Publishers -> Pubs]
    BY DEF TypeOK
  <1>1. s \in Subs /\ pub[p].pc = "drop_shard"
    BY <1>0 DEF Pubs, drop_shard
  <1>2. CASE s \in subscriptions
    <2>1. PICK r : r = [pub[p] EXCEPT !.drops = pub[p].drops \ {s}, !.dropping = s, !.pc = "drop_topic"]
      OBVIOUS
    <2>2. pub' = [pub EXCEPT ![p] = r] /\ subscriptions' = subscriptions \ {s}
          /\ leaving' = leaving \cup {s}
      BY <1>0, <1>2, <2>1 DEF drop_shard
    <2>3. r \in Pubs
      BY <1>0, <1>1, <2>1 DEF Pubs
    <2>4. pub'[p] = r /\ pub' \in [Publishers -> Pubs] /\ Others(p)
      BY <2>2, <2>3, PubUpdate
    <2>5. r.snapshot = pub[p].snapshot /\ r.pc = "drop_topic" /\ r.subject = pub[p].subject
          /\ r.must = pub[p].must /\ r.groups = pub[p].groups /\ r.drops = pub[p].drops \ {s}
          /\ r.dropping = s
      BY <1>0, <2>1 DEF Pubs
    <2> QED
      BY <1>1, <1>2, <2>2, <2>4, <2>5 DEF DropSame
  <1>3. CASE s \notin subscriptions
    <2>1. PICK r : r = [pub[p] EXCEPT !.drops = pub[p].drops \ {s}, !.pc = NextDrop(pub[p].drops \ {s})]
      OBVIOUS
    <2>2. pub' = [pub EXCEPT ![p] = r] /\ UNCHANGED <<subscriptions, leaving>>
      BY <1>0, <1>3, <2>1 DEF drop_shard
    <2>3. NextDrop(pub[p].drops \ {s}) \in {"done", "drop_shard"}
      BY DEF NextDrop
    <2>4. r \in Pubs
      BY <1>0, <1>1, <2>1, <2>3 DEF Pubs
    <2>5. pub'[p] = r /\ pub' \in [Publishers -> Pubs] /\ Others(p)
      BY <2>2, <2>4, PubUpdate
    <2>6. r.snapshot = pub[p].snapshot /\ r.pc \in {"done", "drop_shard"} /\ r.subject = pub[p].subject
          /\ r.must = pub[p].must /\ r.groups = pub[p].groups /\ r.drops = pub[p].drops \ {s}
          /\ r.dropping = pub[p].dropping
      BY <1>0, <2>1, <2>3 DEF Pubs
    <2> QED
      BY <1>1, <1>3, <2>2, <2>5, <2>6 DEF DropSame
  <1> QED
    BY <1>2, <1>3

LEMMA DropFacts ==
  ASSUME TypeOK, NEW p \in Publishers, drop_topic(p) \/ drop_conn(p) \/ drop_pattern(p)
  PROVE  /\ pub' \in [Publishers -> Pubs] /\ Others(p) /\ DropSame(p) /\ pub'[p].drops = pub[p].drops
         /\ \/ /\ drop_topic(p) /\ pub[p].pc = "drop_topic" /\ pub'[p].pc = "drop_conn"
               /\ pub'[p].dropping = pub[p].dropping
            \/ /\ drop_conn(p) /\ pub[p].pc = "drop_conn" /\ pub'[p].pc = "drop_pattern"
               /\ pub'[p].dropping = pub[p].dropping
            \/ /\ drop_pattern(p) /\ pub[p].pc = "drop_pattern"
               /\ pub'[p].pc \in {"done", "drop_shard"} /\ pub'[p].dropping = NoSub
  <1>0. pub \in [Publishers -> Pubs]
    BY DEF TypeOK
  <1>1. CASE drop_topic(p)
    <2>1. PICK r : r = [pub[p] EXCEPT !.pc = "drop_conn"]
      OBVIOUS
    <2>2. pub' = [pub EXCEPT ![p] = r] /\ pub[p].pc = "drop_topic"
      BY <1>0, <1>1, <2>1 DEF drop_topic
    <2>3. r \in Pubs
      BY <1>0, <2>1 DEF Pubs
    <2>4. pub'[p] = r /\ pub' \in [Publishers -> Pubs] /\ Others(p)
      BY <2>2, <2>3, PubUpdate
    <2>5. r.snapshot = pub[p].snapshot /\ r.pc = "drop_conn" /\ r.subject = pub[p].subject
          /\ r.must = pub[p].must /\ r.groups = pub[p].groups /\ r.drops = pub[p].drops
          /\ r.dropping = pub[p].dropping
      BY <1>0, <2>1 DEF Pubs
    <2> QED
      BY <1>1, <2>2, <2>4, <2>5 DEF DropSame
  <1>2. CASE drop_conn(p)
    <2>1. PICK r : r = [pub[p] EXCEPT !.pc = "drop_pattern"]
      OBVIOUS
    <2>2. pub' = [pub EXCEPT ![p] = r] /\ pub[p].pc = "drop_conn"
      BY <1>0, <1>2, <2>1 DEF drop_conn
    <2>3. r \in Pubs
      BY <1>0, <2>1 DEF Pubs
    <2>4. pub'[p] = r /\ pub' \in [Publishers -> Pubs] /\ Others(p)
      BY <2>2, <2>3, PubUpdate
    <2>5. r.snapshot = pub[p].snapshot /\ r.pc = "drop_pattern" /\ r.subject = pub[p].subject
          /\ r.must = pub[p].must /\ r.groups = pub[p].groups /\ r.drops = pub[p].drops
          /\ r.dropping = pub[p].dropping
      BY <1>0, <2>1 DEF Pubs
    <2> QED
      BY <1>2, <2>2, <2>4, <2>5 DEF DropSame
  <1>3. CASE drop_pattern(p)
    <2>1. PICK r : r = [pub[p] EXCEPT !.dropping = NoSub, !.pc = NextDrop(pub[p].drops)]
      OBVIOUS
    <2>2. pub' = [pub EXCEPT ![p] = r] /\ pub[p].pc = "drop_pattern"
      BY <1>0, <1>3, <2>1 DEF drop_pattern
    <2>3. NextDrop(pub[p].drops) \in {"done", "drop_shard"}
      BY DEF NextDrop
    <2>4. r \in Pubs
      BY <1>0, <2>1, <2>3 DEF Pubs
    <2>5. pub'[p] = r /\ pub' \in [Publishers -> Pubs] /\ Others(p)
      BY <2>2, <2>4, PubUpdate
    <2>6. r.snapshot = pub[p].snapshot /\ r.pc \in {"done", "drop_shard"} /\ r.subject = pub[p].subject
          /\ r.must = pub[p].must /\ r.groups = pub[p].groups /\ r.drops = pub[p].drops
          /\ r.dropping = NoSub
      BY <1>0, <2>1, <2>3 DEF Pubs
    <2> QED
      BY <1>3, <2>2, <2>5, <2>6 DEF DropSame
  <1> QED
    BY <1>1, <1>2, <1>3

LEMMA PubTypeStep ==
  ASSUME TypeOK, DropInv, [Next]_vars
  PROVE  pub' \in [Publishers -> Pubs]
  <1>1. CASE pub' = pub
    BY <1>1 DEF TypeOK
  <1> QED
    BY <1>1, ResolveFacts, SubscribersFacts, GroupsFacts, PickFacts, WildcardsFacts, DeliverFacts,
       DropShardFacts, DropFacts
       DEF Next, vars, subscribe_topic, subscribe_group, subscribe_insert, subscribe_shard,
           subscribe_track, subscribe_pattern, close_take, close_shard, close_topic, close_patterns
-----------------------------------------------------------------------------
(* The steps of a close.                                                   *)

OtherConns(c) == \A d \in Conns \ {c} : closing'[d] = closing[d]

LEMMA ClosingFields ==
  ASSUME TypeOK, NEW c \in Conns
  PROVE  closing[c] \in Closings /\ closing[c].ids \in SUBSET Subs /\ closing[c].removed \in SUBSET Subs
  BY DEF TypeOK, Closings

LEMMA ClosingUpdate ==
  ASSUME TypeOK, NEW c \in Conns, NEW r \in Closings, closing' = [closing EXCEPT ![c] = r]
  PROVE  closing' \in [Conns -> Closings] /\ OtherConns(c) /\ closing'[c] = r
  BY DEF TypeOK, OtherConns

LEMMA TakeFacts ==
  ASSUME TypeOK, NEW c \in Conns, close_take(c)
  PROVE  /\ closing' \in [Conns -> Closings] /\ OtherConns(c) /\ closing[c].pc = "open"
         /\ closing'[c].ids = connection_subs[c] /\ closing'[c].removed = closing[c].removed
         /\ closing'[c].pc = (IF connection_subs[c] = {} THEN "closed" ELSE "shards")
         /\ connection_subs' \in [Conns -> SUBSET Subs] /\ connection_subs'[c] = {}
         /\ \A d \in Conns \ {c} : connection_subs'[d] = connection_subs[d]
         /\ connection_subs[c] \in SUBSET Subs
  <1>0. closing[c] \in Closings /\ connection_subs \in [Conns -> SUBSET Subs]
        /\ closing \in [Conns -> Closings]
    BY DEF TypeOK
  <1>1. PICK r : r = [closing[c] EXCEPT !.ids = connection_subs[c],
                        !.pc = IF connection_subs[c] = {} THEN "closed" ELSE "shards"]
    OBVIOUS
  <1>2. closing' = [closing EXCEPT ![c] = r] /\ closing[c].pc = "open"
    BY <1>0, <1>1 DEF close_take
  <1>3. r \in Closings
    BY <1>0, <1>1 DEF Closings
  <1>4. closing' \in [Conns -> Closings] /\ OtherConns(c) /\ closing'[c] = r
    BY <1>2, <1>3, ClosingUpdate
  <1>5. /\ r.ids = connection_subs[c] /\ r.removed = closing[c].removed
        /\ r.pc = (IF connection_subs[c] = {} THEN "closed" ELSE "shards")
    BY <1>0, <1>1 DEF Closings
  <1>6. /\ connection_subs' \in [Conns -> SUBSET Subs] /\ connection_subs'[c] = {}
        /\ \A d \in Conns \ {c} : connection_subs'[d] = connection_subs[d]
        /\ connection_subs[c] \in SUBSET Subs
    BY <1>0 DEF close_take
  <1> QED
    BY <1>2, <1>4, <1>5, <1>6

LEMMA CloseShardFacts ==
  ASSUME TypeOK, NEW c \in Conns, NEW s \in closing[c].ids, close_shard(c, s)
  PROVE  /\ closing' \in [Conns -> Closings] /\ OtherConns(c) /\ closing[c].pc = "shards" /\ s \in Subs
         /\ closing'[c].removed = closing[c].removed \cup ({s} \cap subscriptions)
         /\ \/ /\ closing[c].ids \ {s} # {} /\ closing'[c].pc = "shards"
               /\ closing'[c].ids = closing[c].ids \ {s}
            \/ /\ closing[c].ids \ {s} = {} /\ closing'[c].ids = closing'[c].removed
               /\ closing'[c].pc = (IF closing'[c].removed = {} THEN "closed" ELSE "topics")
  <1>0. closing[c] \in Closings /\ closing \in [Conns -> Closings] /\ s \in Subs
        /\ closing[c].ids \in SUBSET Subs
    BY DEF TypeOK, Closings
  <1>1. PICK rest, gone \in SUBSET Subs :
          /\ rest = closing[c].ids \ {s}
          /\ gone = closing[c].removed \cup ({s} \cap subscriptions)
    BY <1>0 DEF Closings
  <1>2. PICK r : r = [closing[c] EXCEPT !.removed = gone, !.ids = IF rest # {} THEN rest ELSE gone,
                        !.pc = IF rest # {} THEN "shards" ELSE IF gone = {} THEN "closed" ELSE "topics"]
    OBVIOUS
  <1>3. closing' = [closing EXCEPT ![c] = r] /\ closing[c].pc = "shards"
    BY <1>0, <1>1, <1>2 DEF close_shard
  <1>4. r \in Closings
    BY <1>0, <1>1, <1>2 DEF Closings
  <1>5. closing' \in [Conns -> Closings] /\ OtherConns(c) /\ closing'[c] = r
    BY <1>3, <1>4, ClosingUpdate
  <1>6. /\ r.removed = gone /\ r.ids = (IF rest # {} THEN rest ELSE gone)
        /\ r.pc = (IF rest # {} THEN "shards" ELSE IF gone = {} THEN "closed" ELSE "topics")
    BY <1>0, <1>2 DEF Closings
  <1> QED
    BY <1>0, <1>1, <1>3, <1>5, <1>6

LEMMA CloseTopicFacts ==
  ASSUME TypeOK, NEW c \in Conns, NEW s \in closing[c].ids, close_topic(c, s)
  PROVE  /\ closing' \in [Conns -> Closings] /\ OtherConns(c) /\ closing[c].pc = "topics" /\ s \in Subs
         /\ closing'[c].removed = closing[c].removed /\ closing'[c].ids = closing[c].ids \ {s}
         /\ closing'[c].pc = (IF closing[c].ids = {s} THEN "patterns" ELSE "topics")
  <1>0. closing[c] \in Closings /\ closing \in [Conns -> Closings] /\ s \in Subs
        /\ closing[c].ids \in SUBSET Subs
    BY DEF TypeOK, Closings
  <1>1. PICK r : r = [closing[c] EXCEPT !.ids = closing[c].ids \ {s},
                        !.pc = IF closing[c].ids = {s} THEN "patterns" ELSE "topics"]
    OBVIOUS
  <1>2. closing' = [closing EXCEPT ![c] = r] /\ closing[c].pc = "topics"
    BY <1>0, <1>1 DEF close_topic
  <1>3. r \in Closings
    BY <1>0, <1>1 DEF Closings
  <1>4. closing' \in [Conns -> Closings] /\ OtherConns(c) /\ closing'[c] = r
    BY <1>2, <1>3, ClosingUpdate
  <1>5. /\ r.removed = closing[c].removed /\ r.ids = closing[c].ids \ {s}
        /\ r.pc = (IF closing[c].ids = {s} THEN "patterns" ELSE "topics")
    BY <1>0, <1>1 DEF Closings
  <1> QED
    BY <1>0, <1>2, <1>4, <1>5

LEMMA ClosePatternsFacts ==
  ASSUME TypeOK, NEW c \in Conns, close_patterns(c)
  PROVE  /\ closing' \in [Conns -> Closings] /\ OtherConns(c) /\ closing[c].pc = "patterns"
         /\ closing'[c].removed = closing[c].removed /\ closing'[c].ids = closing[c].ids
         /\ closing'[c].pc = "closed"
  <1>0. closing[c] \in Closings /\ closing \in [Conns -> Closings]
    BY DEF TypeOK
  <1>1. PICK r : r = [closing[c] EXCEPT !.pc = "closed"]
    OBVIOUS
  <1>2. closing' = [closing EXCEPT ![c] = r] /\ closing[c].pc = "patterns"
    BY <1>0, <1>1 DEF close_patterns
  <1>3. r \in Closings
    BY <1>0, <1>1 DEF Closings
  <1>4. closing' \in [Conns -> Closings] /\ OtherConns(c) /\ closing'[c] = r
    BY <1>2, <1>3, ClosingUpdate
  <1>5. r.removed = closing[c].removed /\ r.ids = closing[c].ids /\ r.pc = "closed"
    BY <1>0, <1>1 DEF Closings
  <1> QED
    BY <1>2, <1>4, <1>5

\* A subscribe call only goes forward.
LEMMA CallStep ==
  ASSUME TypeOK, [Next]_vars
  PROVE  /\ call' \in [Subs -> CallPc]
         /\ \A s \in Subs :
              /\ call[s] # "idle" => call'[s] # "idle"
              /\ call[s] \in Visible => call'[s] \in Visible
              /\ call[s] \in {"sharded", "tracked", "done"} => call'[s] \in {"sharded", "tracked", "done"}
              /\ call[s] \in {"tracked", "done"} => call'[s] \in {"tracked", "done"}
              /\ call[s] = "done" => call'[s] = "done"
  <1> USE DEF Visible, CallPc
  <1>0. call \in [Subs -> CallPc]
    BY DEF TypeOK
  <1>1. CASE call' = call
    BY <1>0, <1>1
  <1>2. ASSUME NEW s \in Subs, NEW from \in CallPc, NEW to \in CallPc,
               call[s] = from, call' = [call EXCEPT ![s] = to],
               <<from, to>> \in {<<"idle", "topic">>, <<"idle", "group">>, <<"group", "topic">>,
                                 <<"topic", "inserted">>, <<"inserted", "sharded">>,
                                 <<"inserted", "tracked">>, <<"inserted", "done">>,
                                 <<"sharded", "tracked">>, <<"sharded", "done">>, <<"tracked", "done">>}
        PROVE  /\ call' \in [Subs -> CallPc]
               /\ \A r \in Subs :
                    /\ call[r] # "idle" => call'[r] # "idle"
                    /\ call[r] \in Visible => call'[r] \in Visible
                    /\ call[r] \in {"sharded", "tracked", "done"} => call'[r] \in {"sharded", "tracked", "done"}
                    /\ call[r] \in {"tracked", "done"} => call'[r] \in {"tracked", "done"}
                    /\ call[r] = "done" => call'[r] = "done"
    <2>1. call' \in [Subs -> CallPc] /\ call'[s] = to /\ \A r \in Subs \ {s} : call'[r] = call[r]
      BY <1>0, <1>2
    <2> QED
      BY <1>2, <2>1
  <1>3. ASSUME NEW s \in Subs, subscribe_topic(s)
        PROVE  call' = [call EXCEPT ![s] = "topic"] \/ call' = [call EXCEPT ![s] = "group"]
    BY <1>3 DEF subscribe_topic
  <1>4. ASSUME NEW s \in Subs, subscribe_shard(s)
        PROVE  \E to \in {"sharded", "tracked", "done"} : call' = [call EXCEPT ![s] = to]
    BY <1>4 DEF subscribe_shard
  <1>5. ASSUME NEW s \in Subs, subscribe_track(s)
        PROVE  \E to \in {"tracked", "done"} : call' = [call EXCEPT ![s] = to]
    BY <1>5 DEF subscribe_track
  <1>6. ASSUME NEW s \in Subs, subscribe_topic(s) PROVE call[s] = "idle"
    BY <1>6 DEF subscribe_topic, Ready
  <1> QED
    BY <1>1, <1>2, <1>3, <1>4, <1>5, <1>6
       DEF Next, vars, subscribe_group, subscribe_insert, subscribe_shard, subscribe_track,
           subscribe_pattern, close_take, close_shard, close_topic, close_patterns,
           publish_resolve, publish_subscribers, publish_groups, publish_pick,
           publish_wildcards, publish_deliver, drop_shard, drop_topic, drop_conn, drop_pattern
-----------------------------------------------------------------------------
(* What subscribe calls add, and what everything else takes away.          *)

\* s's subscribe call goes on, and every other call stays where it is.
Moves(s, from, to) ==
  /\ call[s] \in from /\ call'[s] \in to /\ \A r \in Subs \ {s} : call'[r] = call[r]
  /\ UNCHANGED <<closing, pub, leaving>>

SubscribeStep == \E s \in Subs : \/ subscribe_topic(s) \/ subscribe_group(s) \/ subscribe_insert(s)
                                 \/ subscribe_shard(s) \/ subscribe_track(s) \/ subscribe_pattern(s)

\* old becomes new, and only what is on its way out is missing there.
Loses(old, new) == new \subseteq old /\ old \ leaving' \subseteq new

Shrinks ==
  /\ UNCHANGED <<topics, call>> /\ leaving \subseteq leaving'
  /\ Loses(subscriptions, subscriptions') /\ Loses(wildcard_subs, wildcard_subs')
  /\ \A t \in Topics :
       /\ Loses(subscribers[t], subscribers'[t])
       /\ DOMAIN consumer_groups'[t] = DOMAIN consumer_groups[t]
       /\ \A g \in DOMAIN consumer_groups[t] :
            Unique(consumer_groups'[t][g]) /\ Loses(Members(t, g), Members(t, g)')

LEMMA SubscribeMoves ==
  ASSUME TypeOK, NEW s \in Subs
  PROVE  /\ subscribe_topic(s) => Moves(s, {"idle"}, {"topic", "group"})
         /\ subscribe_group(s) => Moves(s, {"group"}, {"topic"})
         /\ subscribe_insert(s) => Moves(s, {"topic"}, {"inserted"})
         /\ subscribe_shard(s) => Moves(s, {"inserted"}, {"sharded", "tracked", "done"})
         /\ subscribe_track(s) => Moves(s, {"sharded"}, {"tracked", "done"})
         /\ subscribe_pattern(s) => Moves(s, {"tracked"}, {"done"})
  <1>0. call \in [Subs -> CallPc]
    BY DEF TypeOK
  <1>1. ASSUME NEW from, NEW to, NEW x \in to, call[s] \in from, call' = [call EXCEPT ![s] = x],
               UNCHANGED <<closing, pub, leaving>>
        PROVE  Moves(s, from, to)
    BY <1>0, <1>1 DEF Moves
  <1>2. subscribe_topic(s) => Moves(s, {"idle"}, {"topic", "group"})
    BY <1>1 DEF subscribe_topic, Ready
  <1>3. subscribe_group(s) => Moves(s, {"group"}, {"topic"})
    BY <1>1 DEF subscribe_group
  <1>4. subscribe_insert(s) => Moves(s, {"topic"}, {"inserted"})
    BY <1>1 DEF subscribe_insert
  <1>5. subscribe_shard(s) => Moves(s, {"inserted"}, {"sharded", "tracked", "done"})
    BY <1>1 DEF subscribe_shard
  <1>6. subscribe_track(s) => Moves(s, {"sharded"}, {"tracked", "done"})
    BY <1>1 DEF subscribe_track
  <1>7. subscribe_pattern(s) => Moves(s, {"tracked"}, {"done"})
    BY <1>1 DEF subscribe_pattern
  <1> QED
    BY <1>2, <1>3, <1>4, <1>5, <1>6, <1>7

LEMMA ShrinkStep ==
  ASSUME TypeOK, CallInv, TopicInv, CloseInv, DropInv, [Next]_vars, ~SubscribeStep
  PROVE  Shrinks
  <1> USE DEF Loses
  <1>1. ASSUME UNCHANGED <<subscribers, consumer_groups>>
        PROVE  \A t \in Topics :
                 /\ Loses(subscribers[t], subscribers'[t])
                 /\ DOMAIN consumer_groups'[t] = DOMAIN consumer_groups[t]
                 /\ \A g \in DOMAIN consumer_groups[t] :
                      Unique(consumer_groups'[t][g]) /\ Loses(Members(t, g), Members(t, g)')
    BY <1>1 DEF TopicInv, Members
  <1>2. CASE /\ UNCHANGED <<topics, call, subscribers, consumer_groups>> /\ leaving \subseteq leaving'
             /\ Loses(subscriptions, subscriptions') /\ Loses(wildcard_subs, wildcard_subs')
    BY <1>1, <1>2 DEF Shrinks
  <1>3. ASSUME NEW s \in Subs, s \in leaving, HasGroup(s), RemoveFromTopic(s),
               UNCHANGED <<topics, call, leaving, subscriptions, wildcard_subs>>
        PROVE  Shrinks
    <2>1. \A t \in Topics :
            /\ subscribers'[t] = subscribers[t] \ {s}
            /\ DOMAIN consumer_groups'[t] = DOMAIN consumer_groups[t]
            /\ \A g \in DOMAIN consumer_groups[t] :
                 Unique(consumer_groups'[t][g]) /\ Members(t, g)' = Members(t, g) \ {s}
      BY <1>3, RemoveFacts
    <2> QED
      BY <1>3, <2>1 DEF Shrinks
  <1>4. ASSUME NEW c \in Conns, NEW s \in closing[c].ids, close_topic(c, s) PROVE Shrinks
    <2>1. s \in Subs /\ HasGroup(s) /\ s \in leaving
      BY DEF TypeOK, Closings, CloseInv, CallInv, HasGroup
    <2> QED
      BY <1>3, <1>4, <2>1 DEF close_topic
  <1>5. ASSUME NEW p \in Publishers, drop_topic(p) PROVE Shrinks
    <2>1. pub[p].dropping \in Subs /\ HasGroup(pub[p].dropping) /\ pub[p].dropping \in leaving
      BY <1>5 DEF TypeOK, Pubs, DropInv, DropOf, CallInv, HasGroup, drop_topic
    <2>2. PICK s \in Subs : s = pub[p].dropping
      BY <2>1
    <2> QED
      BY <1>3, <1>5, <2>1, <2>2 DEF drop_topic
  <1>6. ASSUME NEW c \in Conns, NEW s \in closing[c].ids, close_shard(c, s) PROVE Shrinks
    <2>1. s \in leaving
      BY DEF CloseInv
    <2> QED
      BY <1>2, <1>6, <2>1 DEF close_shard
  <1>7. ASSUME NEW c \in Conns, close_patterns(c) PROVE Shrinks
    <2>1. closing[c].removed \subseteq leaving
      BY DEF CloseInv
    <2> QED
      BY <1>2, <1>7, <2>1 DEF close_patterns
  <1>8. ASSUME NEW p \in Publishers, NEW s \in pub[p].drops, drop_shard(p, s) PROVE Shrinks
    BY <1>2, <1>8 DEF drop_shard
  <1>9. ASSUME NEW p \in Publishers, drop_pattern(p) PROVE Shrinks
    <2>1. pub[p].dropping \in leaving
      BY <1>9 DEF DropInv, DropOf, drop_pattern
    <2> QED
      BY <1>2, <1>9, <2>1 DEF drop_pattern
  <1> QED
    BY <1>2, <1>4, <1>5, <1>6, <1>7, <1>8, <1>9
       DEF Next, vars, SubscribeStep, close_take, publish_resolve, publish_subscribers,
           publish_groups, publish_pick, publish_wildcards, publish_deliver, drop_conn

LEMMA TypeStep ==
  ASSUME TypeOK, CallInv, TopicInv, CloseInv, DropInv, [Next]_vars
  PROVE  TypeOK'
  <1>1. topics' \subseteq Topics /\ TopicType' /\ pub' \in [Publishers -> Pubs] /\ call' \in [Subs -> CallPc]
    BY TopicTypeStep, PubTypeStep, CallStep
  <1>2. subscriptions' \subseteq Subs /\ wildcard_subs' \subseteq Subs
    <2>1. CASE SubscribeStep
      BY <2>1 DEF TypeOK, SubscribeStep, subscribe_topic, subscribe_group, subscribe_insert,
                  subscribe_shard, subscribe_track, subscribe_pattern
    <2>2. CASE ~SubscribeStep
      BY <2>2, ShrinkStep DEF Shrinks, Loses, TypeOK
    <2> QED
      BY <2>1, <2>2
  <1>3. leaving' \subseteq Subs
    <2>0. leaving \subseteq Subs
      BY DEF TypeOK
    <2>1. ASSUME NEW c \in Conns, close_take(c) PROVE leaving' \subseteq Subs
      BY <2>0, <2>1, TakeFacts DEF close_take
    <2>2. ASSUME NEW p \in Publishers, NEW s \in pub[p].drops, drop_shard(p, s) PROVE leaving' \subseteq Subs
      BY <2>0, <2>2, DropShardFacts
    <2> QED
      BY <2>0, <2>1, <2>2
         DEF Next, vars, subscribe_topic, subscribe_group, subscribe_insert, subscribe_shard,
             subscribe_track, subscribe_pattern, close_shard, close_topic, close_patterns,
             publish_resolve, publish_subscribers, publish_groups, publish_pick,
             publish_wildcards, publish_deliver, drop_topic, drop_conn, drop_pattern
  <1>4. connection_subs' \in [Conns -> SUBSET Subs]
    <2>0. connection_subs \in [Conns -> SUBSET Subs]
      BY DEF TypeOK
    <2>1. ASSUME NEW c \in Conns, close_take(c) PROVE connection_subs' \in [Conns -> SUBSET Subs]
      BY <2>1, TakeFacts
    <2>2. ASSUME NEW s \in Subs, subscribe_track(s) PROVE connection_subs' \in [Conns -> SUBSET Subs]
      BY <2>0, <2>2 DEF subscribe_track
    <2>3. ASSUME NEW p \in Publishers, drop_conn(p) PROVE connection_subs' \in [Conns -> SUBSET Subs]
      BY <2>0, <2>3 DEF drop_conn
    <2> QED
      BY <2>0, <2>1, <2>2, <2>3
         DEF Next, vars, subscribe_topic, subscribe_group, subscribe_insert, subscribe_shard,
             subscribe_pattern, close_shard, close_topic, close_patterns,
             publish_resolve, publish_subscribers, publish_groups, publish_pick,
             publish_wildcards, publish_deliver, drop_shard, drop_topic, drop_pattern
  <1>5. closing' \in [Conns -> Closings]
    <2>1. CASE closing' = closing
      BY <2>1 DEF TypeOK
    <2> QED
      BY <2>1, TakeFacts, CloseShardFacts, CloseTopicFacts, ClosePatternsFacts
         DEF Next, vars, subscribe_topic, subscribe_group, subscribe_insert, subscribe_shard,
             subscribe_track, subscribe_pattern,
             publish_resolve, publish_subscribers, publish_groups, publish_pick,
             publish_wildcards, publish_deliver, drop_shard, drop_topic, drop_conn, drop_pattern
  <1> QED
    BY <1>1, <1>2, <1>3, <1>4, <1>5 DEF TypeOK

-----------------------------------------------------------------------------
(* Every step keeps every part of the invariant.                           *)

LEMMA CallInvStep ==
  ASSUME TypeOK, CallInv, TopicInv, CloseInv, DropInv, [Next]_vars
  PROVE  CallInv'
  <1> USE SubTopics
  <1>1. CASE ~SubscribeStep
    <2>1. /\ topics' = topics /\ call' = call
          /\ subscriptions' \subseteq subscriptions /\ wildcard_subs' \subseteq wildcard_subs
          /\ \A t \in Topics : DOMAIN consumer_groups'[t] = DOMAIN consumer_groups[t]
      BY <1>1, ShrinkStep DEF Shrinks, Loses
    <2> QED
      BY <2>1 DEF CallInv
  <1>2. ASSUME NEW s \in Subs, subscribe_topic(s) PROVE CallInv'
    <2>1. Moves(s, {"idle"}, {"topic", "group"})
      BY <1>2, SubscribeMoves
    <2>2. /\ topics' = topics \cup {TopicOf[s]} /\ UNCHANGED <<subscriptions, wildcard_subs, consumer_groups>>
          /\ call'[s] = IF GroupOf[s] = NoGroup THEN "topic" ELSE "group"
      BY <1>2 DEF subscribe_topic, TypeOK
    <2> QED
      BY <2>1, <2>2 DEF CallInv, Moves
  <1>3. ASSUME NEW s \in Subs, subscribe_group(s) PROVE CallInv'
    <2>1. Moves(s, {"group"}, {"topic"}) /\ UNCHANGED <<topics, subscriptions, wildcard_subs>>
      BY <1>3, SubscribeMoves DEF subscribe_group
    <2>2. /\ GroupOf[s] \in DOMAIN consumer_groups'[TopicOf[s]]
          /\ \A t \in Topics : DOMAIN consumer_groups[t] \subseteq DOMAIN consumer_groups'[t]
      BY <1>3, GroupFacts
    <2> QED
      BY <2>1, <2>2 DEF CallInv, Moves
  <1>4. ASSUME NEW s \in Subs, subscribe_insert(s) PROVE CallInv'
    <2>1. Moves(s, {"topic"}, {"inserted"}) /\ UNCHANGED <<topics, subscriptions, wildcard_subs>>
      BY <1>4, SubscribeMoves DEF subscribe_insert
    <2>2. \A t \in Topics : DOMAIN consumer_groups'[t] = DOMAIN consumer_groups[t]
      BY <1>4, InsertFacts
    <2> QED
      BY <2>1, <2>2 DEF CallInv, Moves
  <1>5. ASSUME NEW s \in Subs, subscribe_shard(s) PROVE CallInv'
    <2>1. /\ Moves(s, {"inserted"}, {"sharded", "tracked", "done"})
          /\ UNCHANGED <<topics, consumer_groups, wildcard_subs>> /\ subscriptions' = subscriptions \cup {s}
          /\ call'[s] = IF ConnOf[s] # NoConn THEN "sharded" ELSE IF Wild(s) THEN "tracked" ELSE "done"
      BY <1>5, SubscribeMoves DEF subscribe_shard, TypeOK
    <2> QED
      BY <2>1 DEF CallInv, Moves
  <1>6. ASSUME NEW s \in Subs, subscribe_track(s) PROVE CallInv'
    <2>1. /\ Moves(s, {"sharded"}, {"tracked", "done"})
          /\ UNCHANGED <<topics, consumer_groups, wildcard_subs, subscriptions>>
          /\ call'[s] = IF Wild(s) THEN "tracked" ELSE "done"
      BY <1>6, SubscribeMoves DEF subscribe_track, TypeOK
    <2> QED
      BY <2>1 DEF CallInv, Moves
  <1>7. ASSUME NEW s \in Subs, subscribe_pattern(s) PROVE CallInv'
    <2>1. /\ Moves(s, {"tracked"}, {"done"})
          /\ UNCHANGED <<topics, consumer_groups, subscriptions>> /\ wildcard_subs' = wildcard_subs \cup {s}
      BY <1>7, SubscribeMoves DEF subscribe_pattern
    <2> QED
      BY <2>1 DEF CallInv, Moves
  <1> QED
    BY <1>1, <1>2, <1>3, <1>4, <1>5, <1>6, <1>7 DEF SubscribeStep

LEMMA TopicInvStep ==
  ASSUME TypeOK, CallInv, TopicInv, CloseInv, DropInv, [Next]_vars
  PROVE  TopicInv'
  <1> USE SubTopics
  <1>0. /\ \A s \in Subs : call[s] \in Visible => call'[s] \in Visible
        /\ \A t \in Topics : subscribers[t] \subseteq Subs
    BY CallStep DEF TypeOK, TopicType
  <1>m. \A t \in Topics : \A g \in DOMAIN consumer_groups[t] : Members(t, g) \subseteq Subs
    BY MembersAreSubs
  <1>1. CASE UNCHANGED <<subscribers, consumer_groups>>
    <2>1. \A t \in Topics : \A g \in DOMAIN consumer_groups[t] : Members(t, g)' = Members(t, g)
      BY <1>1 DEF Members
    <2> QED
      BY <1>0, <1>m, <1>1, <2>1 DEF TopicInv
  <1>2. CASE ~SubscribeStep
    <2>1. /\ call' = call
          /\ \A t \in Topics :
               /\ subscribers'[t] \subseteq subscribers[t]
               /\ DOMAIN consumer_groups'[t] = DOMAIN consumer_groups[t]
               /\ \A g \in DOMAIN consumer_groups[t] :
                    Unique(consumer_groups'[t][g]) /\ Members(t, g)' \subseteq Members(t, g)
      BY <1>2, ShrinkStep DEF Shrinks, Loses
    <2> QED
      BY <2>1 DEF TopicInv
  <1>3. ASSUME NEW s \in Subs, subscribe_group(s) PROVE TopicInv'
    <2>1. GroupOf[s] # NoGroup /\ subscribers' = subscribers
      BY <1>3 DEF subscribe_group, CallInv
    <2>2. \A t \in Topics :
            /\ DOMAIN consumer_groups'[t] \subseteq DOMAIN consumer_groups[t] \cup {GroupOf[s]}
            /\ \A g \in DOMAIN consumer_groups'[t] :
                 \/ g \in DOMAIN consumer_groups[t] /\ consumer_groups'[t][g] = consumer_groups[t][g]
                 \/ consumer_groups'[t][g] = <<>>
      BY <1>3, GroupFacts
    <2>3. Unique(<<>>) /\ Range(<<>>) = {}
      BY DEF Unique, Range
    <2>4. \A t \in Topics : \A g \in DOMAIN consumer_groups'[t] :
            /\ Unique(consumer_groups'[t][g])
            /\ Members(t, g)' = {} \/ (g \in DOMAIN consumer_groups[t] /\ Members(t, g)' = Members(t, g))
      BY <2>2, <2>3 DEF Members, TopicInv
    <2> QED
      BY <1>0, <1>m, <2>1, <2>2, <2>4 DEF TopicInv
  <1>4. ASSUME NEW s \in Subs, subscribe_insert(s) PROVE TopicInv'
    <2>1. call'[s] \in Visible
      BY <1>4, SubscribeMoves DEF Moves, Visible
    <2>2. \A t \in Topics :
            /\ subscribers'[t] = IF t = TopicOf[s] /\ GroupOf[s] = NoGroup
                                 THEN subscribers[t] \cup {s} ELSE subscribers[t]
            /\ DOMAIN consumer_groups'[t] = DOMAIN consumer_groups[t]
            /\ \A g \in DOMAIN consumer_groups[t] :
                 /\ Unique(consumer_groups'[t][g])
                 /\ Members(t, g)' = IF t = TopicOf[s] /\ g = GroupOf[s]
                                     THEN Members(t, g) \cup {s} ELSE Members(t, g)
      BY <1>4, InsertFacts
    <2>3. ASSUME NEW t \in Topics, NEW r \in subscribers'[t]
          PROVE  TopicOf[r] = t /\ GroupOf[r] = NoGroup /\ call'[r] \in Visible
      <3>1. r \in subscribers[t] \/ (r = s /\ t = TopicOf[s] /\ GroupOf[s] = NoGroup)
        BY <2>2
      <3> QED
        BY <1>0, <2>1, <3>1 DEF TopicInv
    <2>4. ASSUME NEW t \in Topics, NEW g \in DOMAIN consumer_groups[t], NEW r \in Members(t, g)'
          PROVE  TopicOf[r] = t /\ GroupOf[r] = g /\ call'[r] \in Visible
      <3>1. r \in Members(t, g) \/ (r = s /\ t = TopicOf[s] /\ g = GroupOf[s])
        BY <2>2
      <3> QED
        BY <1>0, <1>m, <2>1, <3>1 DEF TopicInv
    <2> QED
      BY <2>2, <2>3, <2>4 DEF TopicInv
  <1> QED
    BY <1>1, <1>2, <1>3, <1>4
       DEF SubscribeStep, subscribe_topic, subscribe_shard, subscribe_track, subscribe_pattern

LEMMA CloseInvStep ==
  ASSUME TypeOK, CallInv, TopicInv, CloseInv, DropInv, [Next]_vars
  PROVE  CloseInv'
  <1>0. /\ \A s \in Subs : /\ call[s] \in {"tracked", "done"} => call'[s] \in {"tracked", "done"}
                           /\ call[s] = "done" => call'[s] = "done"
        /\ \A c \in Conns : /\ connection_subs[c] \subseteq Subs /\ closing[c].ids \subseteq Subs
                            /\ closing[c].removed \subseteq Subs
    BY CallStep, ClosingFields DEF TypeOK
  <1>1. leaving \subseteq leaving'
    <2>1. CASE SubscribeStep
      BY <2>1 DEF SubscribeStep, subscribe_topic, subscribe_group, subscribe_insert, subscribe_shard,
                  subscribe_track, subscribe_pattern
    <2>2. CASE ~SubscribeStep
      BY <2>2, ShrinkStep DEF Shrinks
    <2> QED
      BY <2>1, <2>2
  \* No call of a connection that is no longer open goes on.
  <1>2. ASSUME NEW c \in Conns, closing[c].pc # "open", NEW s \in Subs, ConnOf[s] = c
        PROVE  call'[s] = call[s]
    <2>0. call[s] \in {"idle", "done"}
      BY <1>2 DEF CloseInv
    <2>1. CASE ~SubscribeStep
      BY <2>1, ShrinkStep DEF Shrinks
    <2>2. ASSUME NEW r \in Subs, \/ subscribe_topic(r) \/ subscribe_group(r) \/ subscribe_insert(r)
                                 \/ subscribe_shard(r) \/ subscribe_track(r) \/ subscribe_pattern(r)
          PROVE  call'[s] = call[s]
      <3>1. CASE r # s
        BY <2>2, <3>1, SubscribeMoves DEF Moves
      <3>2. CASE r = s
        <4>1. ConnOf[s] # NoConn
          BY <1>2 DEF Conns
        <4>2. ~subscribe_topic(s)
          BY <1>2, <4>1 DEF subscribe_topic, Ready
        <4> QED
          BY <2>0, <2>2, <3>2, <4>2, SubscribeMoves DEF Moves
      <3> QED
        BY <3>1, <3>2
    <2> QED
      BY <2>1, <2>2 DEF SubscribeStep
  <1>3. CASE UNCHANGED <<connection_subs, closing>>
    BY <1>0, <1>1, <1>2, <1>3 DEF CloseInv
  <1>4. ASSUME NEW s \in Subs, subscribe_track(s) PROVE CloseInv'
    <2>1. /\ closing' = closing /\ call'[s] \in {"tracked", "done"} /\ ConnOf[s] # NoConn
          /\ connection_subs' = [connection_subs EXCEPT ![ConnOf[s]] = @ \cup {s}]
          /\ connection_subs \in [Conns -> SUBSET Subs]
      <3>1. Moves(s, {"sharded"}, {"tracked", "done"})
        BY <1>4, SubscribeMoves
      <3> QED
        BY <1>4, <3>1 DEF subscribe_track, Moves, TypeOK, CallInv
    <2>2. ConnOf[s] \in Conns
      BY <2>1 DEF Conns
    <2>3. \A c \in Conns : connection_subs'[c] = IF c = ConnOf[s] THEN connection_subs[c] \cup {s} ELSE connection_subs[c]
      BY <2>1, <2>2
    <2>4. closing[ConnOf[s]].pc = "open"
      BY <1>4, <2>2 DEF CloseInv, subscribe_track
    <2> QED
      BY <1>0, <1>1, <1>2, <2>1, <2>3, <2>4 DEF CloseInv
  <1>5. ASSUME NEW c \in Conns, close_take(c) PROVE CloseInv'
    <2>1. /\ OtherConns(c) /\ closing[c].pc = "open"
          /\ closing'[c].ids = connection_subs[c] /\ closing'[c].removed = closing[c].removed
          /\ closing'[c].pc # "open" /\ connection_subs'[c] = {}
          /\ \A d \in Conns \ {c} : connection_subs'[d] = connection_subs[d]
      BY <1>5, TakeFacts
    <2>2. /\ \A s \in Subs : ConnOf[s] = c => call[s] \in {"idle", "done"}
          /\ leaving' = leaving \cup connection_subs[c] /\ call' = call
      BY <1>5 DEF close_take
    <2>3. \A s \in connection_subs[c] : ConnOf[s] = c /\ call[s] = "done"
      BY <1>0, <2>2 DEF CloseInv
    <2> QED
      BY <1>0, <1>1, <2>1, <2>2, <2>3 DEF CloseInv, OtherConns
  <1>6. ASSUME NEW c \in Conns, NEW s \in closing[c].ids, close_shard(c, s) PROVE CloseInv'
    <2>1. /\ OtherConns(c) /\ closing[c].pc = "shards" /\ closing'[c].pc # "open"
          /\ closing'[c].removed \subseteq closing[c].removed \cup {s}
          /\ closing'[c].ids \subseteq closing[c].ids \cup closing'[c].removed
      BY <1>6, CloseShardFacts
    <2>2. UNCHANGED <<connection_subs, call, leaving>>
      BY <1>6 DEF close_shard
    <2> QED
      BY <2>1, <2>2 DEF CloseInv, OtherConns
  <1>7. ASSUME NEW c \in Conns, OtherConns(c), closing[c].pc # "open", closing'[c].pc # "open",
               closing'[c].removed = closing[c].removed, closing'[c].ids \subseteq closing[c].ids,
               UNCHANGED <<connection_subs, call, leaving>>
        PROVE  CloseInv'
    BY <1>7 DEF CloseInv, OtherConns
  <1>8. ASSUME NEW c \in Conns, NEW s \in closing[c].ids, close_topic(c, s) PROVE CloseInv'
    <2>1. UNCHANGED <<connection_subs, call, leaving>>
      BY <1>8 DEF close_topic
    <2>2. /\ OtherConns(c) /\ closing[c].pc # "open" /\ closing'[c].pc # "open"
          /\ closing'[c].removed = closing[c].removed /\ closing'[c].ids \subseteq closing[c].ids
      BY <1>8, CloseTopicFacts
    <2> QED
      BY <1>7, <2>1, <2>2
  <1>9. ASSUME NEW c \in Conns, close_patterns(c) PROVE CloseInv'
    <2>1. UNCHANGED <<connection_subs, call, leaving>>
      BY <1>9 DEF close_patterns
    <2>2. /\ OtherConns(c) /\ closing[c].pc # "open" /\ closing'[c].pc # "open"
          /\ closing'[c].removed = closing[c].removed /\ closing'[c].ids \subseteq closing[c].ids
      BY <1>9, ClosePatternsFacts
    <2> QED
      BY <1>7, <2>1, <2>2
  <1>10. ASSUME NEW p \in Publishers, drop_conn(p) PROVE CloseInv'
    <2>1. /\ UNCHANGED <<closing, call, leaving>>
          /\ \A c \in Conns : connection_subs'[c] \subseteq connection_subs[c]
      BY <1>10 DEF drop_conn
    <2> QED
      BY <2>1 DEF CloseInv
  <1> QED
    BY <1>3, <1>4, <1>5, <1>6, <1>8, <1>9, <1>10
       DEF Next, vars, subscribe_topic, subscribe_group, subscribe_insert, subscribe_shard,
           subscribe_pattern, publish_resolve, publish_subscribers, publish_groups, publish_pick,
           publish_wildcards, publish_deliver, drop_shard, drop_topic, drop_pattern

\* Calls go forward, groups stay, and what leaves does not come back.
LEMMA Forward ==
  ASSUME TypeOK, CallInv, TopicInv, CloseInv, DropInv, [Next]_vars
  PROVE  /\ \A t \in Topics : DOMAIN consumer_groups[t] \subseteq DOMAIN consumer_groups'[t]
         /\ leaving \subseteq leaving'
         /\ \A s \in Subs \ subscriptions :
              call[s] \in {"sharded", "tracked", "done"} => s \notin subscriptions'
  <1>1. CASE ~SubscribeStep
    BY <1>1, ShrinkStep DEF Shrinks, Loses
  <1>2. ASSUME NEW s \in Subs, subscribe_group(s)
        PROVE  \A t \in Topics : DOMAIN consumer_groups[t] \subseteq DOMAIN consumer_groups'[t]
    BY <1>2, GroupFacts
  <1>3. ASSUME NEW s \in Subs, subscribe_insert(s)
        PROVE  \A t \in Topics : DOMAIN consumer_groups[t] \subseteq DOMAIN consumer_groups'[t]
    BY <1>3, InsertFacts
  <1>4. SubscribeStep => \A t \in Topics : DOMAIN consumer_groups[t] \subseteq DOMAIN consumer_groups'[t]
    BY <1>2, <1>3 DEF SubscribeStep, subscribe_topic, subscribe_shard, subscribe_track, subscribe_pattern
  <1>5. SubscribeStep => /\ leaving \subseteq leaving'
                         /\ \A s \in Subs \ subscriptions :
                              call[s] \in {"sharded", "tracked", "done"} => s \notin subscriptions'
    BY DEF SubscribeStep, subscribe_topic, subscribe_group, subscribe_insert, subscribe_shard,
           subscribe_track, subscribe_pattern
  <1> QED
    BY <1>1, <1>4, <1>5

LEMMA DropInvStep ==
  ASSUME TypeOK, CallInv, TopicInv, CloseInv, DropInv, SnapshotInv, [Next]_vars
  PROVE  DropInv'
  <1>0. /\ \A s \in Subs :
             /\ call[s] \in Visible => call'[s] \in Visible
             /\ call[s] \in {"sharded", "tracked", "done"} => call'[s] \in {"sharded", "tracked", "done"}
             /\ call[s] = "done" => call'[s] = "done"
        /\ \A t \in Topics : DOMAIN consumer_groups[t] \subseteq DOMAIN consumer_groups'[t]
        /\ leaving \subseteq leaving'
        /\ \A s \in Subs \ subscriptions :
              call[s] \in {"sharded", "tracked", "done"} => s \notin subscriptions'
    BY CallStep, Forward
  <1>f. \A q \in Publishers :
           /\ pub[q].groups \in SUBSET Groups /\ pub[q].drops \in SUBSET Subs
           /\ pub[q].dropping \in Subs \cup {NoSub} /\ Range(pub[q].snapshot) \subseteq Subs
    BY PubFields
  <1>t. /\ Subjects \subseteq Topics
        /\ \A s \in Subs : Wild(s) => TopicOf[s] \notin Subjects /\ GroupOf[s] = NoGroup
        /\ NoSub \notin Subs
    BY RegistryAssumption DEF Topics
  <1>d. \A q \in Publishers : DropOf(q)
    BY DEF DropInv
  <1>i. ASSUME NEW q \in Publishers, pub[q].pc = "idle" PROVE pub[q].groups = {} /\ pub[q].dropping = NoSub
    BY <1>i, <1>d DEF SnapshotInv, SnapshotOf, DropOf
  <1>g. \A q \in Publishers : \A g \in pub[q].groups :
          pub[q].subject \in Subjects /\ g \in DOMAIN consumer_groups'[pub[q].subject]
    <2> SUFFICES ASSUME NEW q \in Publishers, NEW g \in pub[q].groups
                 PROVE  pub[q].subject \in Subjects /\ g \in DOMAIN consumer_groups'[pub[q].subject]
      OBVIOUS
    <2>1. pub[q].subject \in Subjects /\ g \in DOMAIN consumer_groups[pub[q].subject]
      BY <1>i, <1>d DEF DropOf
    <2> QED
      BY <1>0, <1>t, <2>1
  <1>1. ASSUME NEW q \in Publishers, pub'[q].dropping = pub[q].dropping, pub[q].dropping # NoSub
        PROVE  /\ pub'[q].dropping \in leaving' \ subscriptions'
               /\ call'[pub'[q].dropping] \in {"sharded", "tracked", "done"}
               /\ Wild(pub'[q].dropping) => call'[pub'[q].dropping] = "done"
    <2>1. PICK s \in Subs : s = pub[q].dropping
      BY <1>1, <1>f
    <2>2. /\ s \in leaving \ subscriptions /\ call[s] \in {"sharded", "tracked", "done"}
          /\ Wild(s) => call[s] = "done"
      BY <1>1, <1>d, <2>1 DEF DropOf
    <2> QED
      BY <1>0, <1>1, <2>1, <2>2
  <1>2. ASSUME NEW q \in Publishers, NEW s \in Range(pub[q].snapshot) \cup pub[q].drops
        PROVE  call'[s] \in Visible /\ (Wild(s) => call'[s] = "done")
    BY <1>0, <1>d, <1>f DEF DropOf
  <1>3. ASSUME NEW q \in Publishers, pub'[q] = pub[q] PROVE DropOf(q)'
    <2>1. /\ pub'[q].pc # "idle" => pub'[q].subject \in Subjects
          /\ pub'[q].dropping # NoSub <=> pub'[q].pc \in {"drop_topic", "drop_conn", "drop_pattern"}
      BY <1>3, <1>d DEF DropOf
    <2> QED
      BY <1>1, <1>2, <1>3, <1>g, <2>1 DEF DropOf
  <1>4. ASSUME NEW p \in Publishers, Others(p), DropOf(p)' PROVE DropInv'
    BY <1>3, <1>4 DEF DropInv, Others
  <1>5. CASE pub' = pub
    BY <1>3, <1>5 DEF DropInv
  <1>6. ASSUME NEW p \in Publishers, NEW u \in Subjects, publish_resolve(p, u) PROVE DropInv'
    <2>1. /\ Others(p) /\ pub'[p].subject = u
          /\ pub'[p].pc \in {"subscribers", "wildcards"}
          /\ pub'[p].groups = pub[p].groups /\ pub'[p].snapshot = pub[p].snapshot
          /\ pub'[p].drops = pub[p].drops /\ pub'[p].dropping = pub[p].dropping
      BY <1>6, ResolveFacts
    <2>2. pub[p].groups = {} /\ pub[p].dropping = NoSub
      BY <1>i, <1>6 DEF publish_resolve
    <2>3. DropOf(p)'
      BY <1>2, <2>1, <2>2 DEF DropOf
    <2> QED
      BY <1>4, <2>1, <2>3
  <1>7. ASSUME NEW p \in Publishers, publish_subscribers(p) PROVE DropInv'
    <2>1. /\ Others(p) /\ pub'[p].subject = pub[p].subject
          /\ pub[p].pc = "subscribers" /\ pub'[p].pc = "groups_snapshot"
          /\ pub'[p].groups = pub[p].groups
          /\ pub'[p].drops = pub[p].drops /\ pub'[p].dropping = pub[p].dropping
          /\ Range(pub'[p].snapshot) = subscribers[pub[p].subject]
      BY <1>7, SubscribersFacts
    <2>2. pub[p].subject \in Subjects /\ pub[p].dropping = NoSub
      BY <1>d, <2>1 DEF DropOf
    <2>3. \A s \in subscribers[pub[p].subject] : call'[s] \in Visible /\ ~Wild(s)
      BY <1>0, <1>t, <2>2, MembersAreSubs DEF TopicInv
    <2>4. DropOf(p)'
      BY <1>2, <1>g, <2>1, <2>2, <2>3 DEF DropOf
    <2> QED
      BY <1>4, <2>1, <2>4
  <1>8. ASSUME NEW p \in Publishers, publish_groups(p) PROVE DropInv'
    <2>1. /\ Others(p) /\ pub'[p].subject = pub[p].subject /\ pub[p].pc = "groups_snapshot"
          /\ pub'[p].groups = DOMAIN consumer_groups[pub[p].subject]
          /\ pub'[p].pc \in {"wildcards", "groups"}
          /\ pub'[p].drops = pub[p].drops /\ pub'[p].dropping = pub[p].dropping
          /\ pub'[p].snapshot = pub[p].snapshot
      BY <1>8, GroupsFacts
    <2>2. pub[p].subject \in Subjects /\ pub[p].dropping = NoSub
      BY <1>d, <2>1 DEF DropOf
    <2>3. DropOf(p)'
      BY <1>0, <1>2, <1>t, <2>1, <2>2 DEF DropOf
    <2> QED
      BY <1>4, <2>1, <2>3
  <1>9. ASSUME NEW p \in Publishers, NEW g \in pub[p].groups, publish_pick(p, g) PROVE DropInv'
    <2>1. /\ Others(p) /\ pub'[p].subject = pub[p].subject
          /\ pub[p].pc = "groups" /\ pub[p].subject \in Topics
          /\ g \in DOMAIN consumer_groups[pub[p].subject]
          /\ pub'[p].groups = pub[p].groups \ {g} /\ pub'[p].pc \in {"wildcards", "groups"}
          /\ pub'[p].drops = pub[p].drops /\ pub'[p].dropping = pub[p].dropping
          /\ \/ pub'[p].snapshot = pub[p].snapshot
             \/ \E m \in Members(pub[p].subject, g) : pub'[p].snapshot = Append(pub[p].snapshot, m)
      BY <1>9, PickFacts
    <2>2. pub[p].subject \in Subjects /\ pub[p].dropping = NoSub
      BY <1>d, <2>1 DEF DropOf
    <2>3. \A m \in Members(pub[p].subject, g) : m \in Subs /\ call'[m] \in Visible /\ ~Wild(m)
      BY <1>0, <1>t, <2>1, <2>2, MembersAreSubs DEF TopicInv
    <2>4. Range(pub'[p].snapshot) \subseteq Range(pub[p].snapshot) \cup Members(pub[p].subject, g)
      <3>1. CASE pub'[p].snapshot = pub[p].snapshot
        BY <3>1
      <3>2. ASSUME NEW m \in Members(pub[p].subject, g), pub'[p].snapshot = Append(pub[p].snapshot, m)
            PROVE  Range(pub'[p].snapshot) = Range(pub[p].snapshot) \cup {m}
        BY <2>3, <3>2, PubFields, AppendFacts
      <3> QED
        BY <2>1, <3>1, <3>2
    <2>5. DropOf(p)'
      BY <1>2, <1>g, <2>1, <2>2, <2>3, <2>4 DEF DropOf
    <2> QED
      BY <1>4, <2>1, <2>5
  <1>10. ASSUME NEW p \in Publishers, publish_wildcards(p) PROVE DropInv'
    <2>1. /\ Others(p) /\ pub'[p].subject = pub[p].subject
          /\ pub[p].pc = "wildcards" /\ pub'[p].pc = "deliver" /\ pub'[p].groups = pub[p].groups
          /\ pub'[p].drops = pub[p].drops /\ pub'[p].dropping = pub[p].dropping
          /\ \E q \in Seq(Subs) : Range(q) = Matching(pub[p].subject) /\ pub'[p].snapshot = pub[p].snapshot \o q
      BY <1>10, WildcardsFacts
    <2>2. pub[p].subject \in Subjects /\ pub[p].dropping = NoSub
      BY <1>d, <2>1 DEF DropOf
    <2>3. \A m \in Matching(pub[p].subject) : m \in Subs /\ call'[m] = "done"
      BY <1>0 DEF Matching, CallInv, TypeOK
    <2>4. Range(pub'[p].snapshot) = Range(pub[p].snapshot) \cup Matching(pub[p].subject)
      BY <2>1, PubFields, ConcatFacts
    <2>5. DropOf(p)'
      BY <1>2, <1>g, <2>1, <2>2, <2>3, <2>4 DEF DropOf, Visible
    <2> QED
      BY <1>4, <2>1, <2>5
  <1>11. ASSUME NEW p \in Publishers, publish_deliver(p) PROVE DropInv'
    <2>1. /\ Others(p) /\ pub'[p].subject = pub[p].subject
          /\ pub[p].pc = "deliver" /\ pub'[p].pc \in {"done", "drop_shard"}
          /\ pub'[p].groups = pub[p].groups /\ pub'[p].snapshot = <<>>
          /\ pub'[p].drops \subseteq Range(pub[p].snapshot) /\ pub'[p].dropping = pub[p].dropping
      BY <1>11, DeliverFacts
    <2>2. pub[p].subject \in Subjects /\ pub[p].dropping = NoSub
      BY <1>d, <2>1 DEF DropOf
    <2>3. Range(pub'[p].snapshot) = {}
      BY <2>1 DEF Range
    <2>4. DropOf(p)'
      BY <1>2, <1>g, <2>1, <2>2, <2>3 DEF DropOf
    <2> QED
      BY <1>4, <2>1, <2>4
  <1>12. ASSUME NEW p \in Publishers, NEW s \in pub[p].drops, drop_shard(p, s) PROVE DropInv'
    <2>1. /\ Others(p) /\ DropSame(p)
          /\ pub[p].pc = "drop_shard" /\ pub'[p].drops \subseteq pub[p].drops /\ s \in Subs
      BY <1>12, DropShardFacts
    <2>2. pub[p].subject \in Subjects /\ pub[p].dropping = NoSub
      BY <1>d, <2>1 DEF DropOf
    <2>3. CASE /\ s \in subscriptions /\ pub'[p].pc = "drop_topic" /\ pub'[p].dropping = s
               /\ subscriptions' = subscriptions \ {s} /\ leaving' = leaving \cup {s}
      <3>1. call[s] \in {"sharded", "tracked", "done"} /\ (Wild(s) => call[s] = "done")
        BY <1>d, <2>1, <2>3 DEF CallInv, DropOf
      <3>2. /\ s \in leaving' \ subscriptions'
            /\ call'[s] \in {"sharded", "tracked", "done"} /\ (Wild(s) => call'[s] = "done")
        BY <1>0, <2>1, <2>3, <3>1
      <3>3. DropOf(p)'
        BY <1>2, <1>g, <1>t, <2>1, <2>2, <2>3, <3>2 DEF DropOf, DropSame
      <3> QED
        BY <1>4, <2>1, <3>3
    <2>4. CASE pub'[p].pc \in {"done", "drop_shard"} /\ pub'[p].dropping = pub[p].dropping
      <3>1. DropOf(p)'
        BY <1>2, <1>g, <2>1, <2>2, <2>4 DEF DropOf, DropSame
      <3> QED
        BY <1>4, <2>1, <3>1
    <2> QED
      BY <1>12, <2>3, <2>4, DropShardFacts
  <1>13. ASSUME NEW p \in Publishers, drop_topic(p) \/ drop_conn(p) \/ drop_pattern(p) PROVE DropInv'
    <2>1. /\ Others(p) /\ DropSame(p) /\ pub'[p].drops = pub[p].drops
          /\ pub[p].pc \in {"drop_topic", "drop_conn", "drop_pattern"} /\ pub'[p].pc # "idle"
          /\ \/ /\ pub'[p].pc \in {"drop_topic", "drop_conn", "drop_pattern"}
                /\ pub'[p].dropping = pub[p].dropping
             \/ pub'[p].pc \in {"done", "drop_shard"} /\ pub'[p].dropping = NoSub
      BY <1>13, DropFacts
    <2>2. pub[p].subject \in Subjects /\ pub[p].dropping # NoSub
      BY <1>d, <2>1 DEF DropOf
    <2>3. DropOf(p)'
      BY <1>1, <1>2, <1>g, <2>1, <2>2 DEF DropOf, DropSame
    <2> QED
      BY <1>4, <2>1, <2>3
  <1> QED
    BY <1>5, <1>6, <1>7, <1>8, <1>9, <1>10, <1>11, <1>12, <1>13
       DEF Next, vars, subscribe_topic, subscribe_group, subscribe_insert, subscribe_shard,
           subscribe_track, subscribe_pattern, close_take, close_shard, close_topic, close_patterns

LEMMA SnapshotStep ==
  ASSUME TypeOK, CallInv, TopicInv, CloseInv, DropInv, SnapshotInv, [Next]_vars
  PROVE  SnapshotInv'
  <1>t. /\ Subjects \subseteq Topics
        /\ \A s \in Subs : Wild(s) => TopicOf[s] \notin Subjects /\ GroupOf[s] = NoGroup
    BY RegistryAssumption DEF Topics
  <1>s. \A q \in Publishers : SnapshotOf(q)
    BY DEF SnapshotInv
  <1>d. \A q \in Publishers : pub[q].pc # "idle" => pub[q].subject \in Subjects /\ pub[q].subject \in Topics
    BY <1>t DEF DropInv, DropOf
  <1>e. Range(<<>>) = {} /\ Unique(<<>>)
    BY DEF Range, Unique
  <1>3. ASSUME NEW q \in Publishers, pub'[q] = pub[q] PROVE SnapshotOf(q)'
    BY <1>3, <1>s DEF SnapshotOf
  <1>4. ASSUME NEW p \in Publishers, Others(p), SnapshotOf(p)' PROVE SnapshotInv'
    BY <1>3, <1>4 DEF SnapshotInv, Others
  <1>5. CASE pub' = pub
    BY <1>3, <1>5 DEF SnapshotInv
  <1>6. ASSUME NEW p \in Publishers, NEW u \in Subjects, publish_resolve(p, u) PROVE SnapshotInv'
    <2>1. /\ Others(p) /\ pub'[p].pc \in {"subscribers", "wildcards"}
          /\ pub'[p].groups = pub[p].groups /\ pub'[p].snapshot = pub[p].snapshot
      BY <1>6, ResolveFacts
    <2>2. pub[p].groups = {} /\ pub[p].snapshot = <<>>
      BY <1>s, <1>6 DEF publish_resolve, SnapshotOf
    <2>3. SnapshotOf(p)'
      BY <1>e, <2>1, <2>2 DEF SnapshotOf
    <2> QED
      BY <1>4, <2>1, <2>3
  <1>7. ASSUME NEW p \in Publishers, publish_subscribers(p) PROVE SnapshotInv'
    <2>1. /\ Others(p) /\ pub'[p].subject = pub[p].subject
          /\ pub[p].pc = "subscribers" /\ pub'[p].pc = "groups_snapshot"
          /\ pub'[p].groups = pub[p].groups
          /\ Unique(pub'[p].snapshot) /\ Range(pub'[p].snapshot) = subscribers[pub[p].subject]
      BY <1>7, SubscribersFacts
    <2>2. pub[p].groups = {}
      BY <1>s, <2>1 DEF SnapshotOf
    <2>3. \A s \in subscribers[pub[p].subject] : TopicOf[s] = pub[p].subject /\ GroupOf[s] = NoGroup
      BY <1>d, <2>1 DEF TopicInv
    <2>4. SnapshotOf(p)'
      BY <2>1, <2>2, <2>3 DEF SnapshotOf
    <2> QED
      BY <1>4, <2>1, <2>4
  <1>8. ASSUME NEW p \in Publishers, publish_groups(p) PROVE SnapshotInv'
    <2>1. /\ Others(p) /\ pub'[p].subject = pub[p].subject /\ pub[p].pc = "groups_snapshot"
          /\ pub'[p].groups = DOMAIN consumer_groups[pub[p].subject]
          /\ pub'[p].pc = (IF pub'[p].groups = {} THEN "wildcards" ELSE "groups")
          /\ pub'[p].snapshot = pub[p].snapshot
      BY <1>8, GroupsFacts
    <2>2. NoGroup \notin DOMAIN consumer_groups[pub[p].subject]
      BY <1>d, <2>1 DEF TopicInv
    <2>3. SnapshotOf(p)'
      BY <1>s, <2>1, <2>2 DEF SnapshotOf
    <2> QED
      BY <1>4, <2>1, <2>3
  <1>9. ASSUME NEW p \in Publishers, NEW g \in pub[p].groups, publish_pick(p, g) PROVE SnapshotInv'
    <2>1. /\ Others(p) /\ pub'[p].subject = pub[p].subject
          /\ pub[p].pc = "groups" /\ pub[p].subject \in Topics
          /\ g \in DOMAIN consumer_groups[pub[p].subject]
          /\ pub'[p].groups = pub[p].groups \ {g}
          /\ pub'[p].pc = (IF pub[p].groups = {g} THEN "wildcards" ELSE "groups")
          /\ \/ pub'[p].snapshot = pub[p].snapshot
             \/ \E m \in Members(pub[p].subject, g) : pub'[p].snapshot = Append(pub[p].snapshot, m)
      BY <1>9, PickFacts
    <2>2. CASE pub'[p].snapshot = pub[p].snapshot
      <3>1. SnapshotOf(p)'
        BY <1>s, <2>1, <2>2 DEF SnapshotOf
      <3> QED
        BY <1>4, <2>1, <3>1
    <2>3. ASSUME NEW m \in Members(pub[p].subject, g), pub'[p].snapshot = Append(pub[p].snapshot, m)
          PROVE  SnapshotInv'
      <3>1. m \in Subs /\ TopicOf[m] = pub[p].subject /\ GroupOf[m] = g
        BY <2>1, MembersAreSubs DEF TopicInv
      <3>2. m \notin Range(pub[p].snapshot) /\ pub[p].snapshot \in Seq(Subs)
        BY <1>s, <3>1, PubFields DEF SnapshotOf
      <3>3. Unique(pub'[p].snapshot) /\ Range(pub'[p].snapshot) = Range(pub[p].snapshot) \cup {m}
        BY <1>s, <2>3, <3>1, <3>2, AppendFacts, AppendUnique DEF SnapshotOf
      <3>4. \A s \in Range(pub[p].snapshot) : TopicOf[s] = pub[p].subject /\ GroupOf[s] \notin pub[p].groups
        BY <1>s, <2>1 DEF SnapshotOf
      <3>5. /\ pub'[p].pc \in {"wildcards", "groups"} /\ NoGroup \notin pub'[p].groups
            /\ pub'[p].pc # "groups" => pub'[p].groups = {}
        BY <1>s, <2>1 DEF SnapshotOf
      <3>6. \A r, s \in Range(pub'[p].snapshot) : GroupOf[r] = GroupOf[s] /\ GroupOf[r] # NoGroup => r = s
        BY <1>s, <3>1, <3>3, <3>4 DEF SnapshotOf
      <3>7. SnapshotOf(p)'
        BY <2>1, <3>1, <3>3, <3>4, <3>5, <3>6 DEF SnapshotOf
      <3> QED
        BY <1>4, <2>1, <3>7
    <2> QED
      BY <2>1, <2>2, <2>3
  <1>10. ASSUME NEW p \in Publishers, publish_wildcards(p) PROVE SnapshotInv'
    <2>1. /\ Others(p) /\ pub'[p].subject = pub[p].subject
          /\ pub[p].pc = "wildcards" /\ pub'[p].pc = "deliver" /\ pub'[p].groups = pub[p].groups
      BY <1>10, WildcardsFacts
    <2>2. PICK q \in Seq(Subs) : /\ Unique(q) /\ Range(q) = Matching(pub[p].subject)
                                 /\ pub'[p].snapshot = pub[p].snapshot \o q
      BY <1>10, WildcardsFacts
    <2>3. \A s \in Matching(pub[p].subject) : s \in Subs /\ Wild(s)
      BY DEF Matching, TypeOK, CallInv
    <2>4. \A s \in Range(pub[p].snapshot) : TopicOf[s] = pub[p].subject
      BY <1>s, <2>1 DEF SnapshotOf
    <2>5. Range(pub[p].snapshot) \cap Range(q) = {}
      BY <1>d, <1>t, <2>1, <2>2, <2>3, <2>4
    <2>6. /\ Unique(pub'[p].snapshot)
          /\ Range(pub'[p].snapshot) = Range(pub[p].snapshot) \cup Matching(pub[p].subject)
      BY <1>s, <2>2, <2>5, PubFields, ConcatFacts, ConcatUnique DEF SnapshotOf
    <2>7. pub'[p].groups = {}
      BY <1>s, <2>1 DEF SnapshotOf
    <2>8. \A r, s \in Range(pub'[p].snapshot) : GroupOf[r] = GroupOf[s] /\ GroupOf[r] # NoGroup => r = s
      BY <1>s, <1>t, <2>3, <2>6 DEF SnapshotOf
    <2>9. SnapshotOf(p)'
      BY <2>1, <2>3, <2>4, <2>6, <2>7, <2>8 DEF SnapshotOf
    <2> QED
      BY <1>4, <2>1, <2>9
  <1>11. ASSUME NEW p \in Publishers, publish_deliver(p) PROVE SnapshotInv'
    <2>1. /\ Others(p) /\ pub[p].pc = "deliver" /\ pub'[p].pc \in {"done", "drop_shard"}
          /\ pub'[p].groups = pub[p].groups /\ pub'[p].snapshot = <<>>
      BY <1>11, DeliverFacts
    <2>2. SnapshotOf(p)'
      BY <1>e, <1>s, <2>1 DEF SnapshotOf
    <2> QED
      BY <1>4, <2>1, <2>2
  <1>12. ASSUME NEW p \in Publishers, Others(p), DropSame(p),
               pub[p].pc \in {"drop_shard", "drop_topic", "drop_conn", "drop_pattern"},
               pub'[p].pc \in {"done", "drop_shard", "drop_topic", "drop_conn", "drop_pattern"}
        PROVE  SnapshotInv'
    <2>1. SnapshotOf(p)'
      BY <1>s, <1>12 DEF SnapshotOf, DropSame
    <2> QED
      BY <1>4, <1>12, <2>1
  <1>13. ASSUME NEW p \in Publishers, NEW s \in pub[p].drops, drop_shard(p, s) PROVE SnapshotInv'
    BY <1>12, <1>13, DropShardFacts
  <1>14. ASSUME NEW p \in Publishers, drop_topic(p) \/ drop_conn(p) \/ drop_pattern(p) PROVE SnapshotInv'
    BY <1>12, <1>14, DropFacts
  <1> QED
    BY <1>5, <1>6, <1>7, <1>8, <1>9, <1>10, <1>11, <1>13, <1>14
       DEF Next, vars, subscribe_topic, subscribe_group, subscribe_insert, subscribe_shard,
           subscribe_track, subscribe_pattern, close_take, close_shard, close_topic, close_patterns

LEMMA MustStep ==
  ASSUME TypeOK, CallInv, TopicInv, CloseInv, DropInv, KeepInv, MustInv, [Next]_vars
  PROVE  MustInv'
  <1> USE DEF Found
  <1>0. /\ \A s \in Subs : call[s] = "done" => call'[s] = "done"
        /\ leaving \subseteq leaving'
    BY CallStep, Forward
  <1>t. Subjects \subseteq Topics
    BY DEF Topics
  <1>f. \A q \in Publishers : pub[q].must \in SUBSET Subs
    BY PubFields
  <1>m. \A q \in Publishers : MustOf(q)
    BY DEF MustInv
  <1>d. \A q \in Publishers : pub[q].pc # "idle" => pub[q].subject \in Topics
    BY <1>t DEF DropInv, DropOf
  <1>3. ASSUME NEW q \in Publishers, pub'[q] = pub[q] PROVE MustOf(q)'
    BY <1>0, <1>3, <1>f, <1>m DEF MustOf
  <1>4. ASSUME NEW p \in Publishers, Others(p), MustOf(p)' PROVE MustInv'
    BY <1>3, <1>4 DEF MustInv, Others
  <1>5. CASE pub' = pub
    BY <1>3, <1>5 DEF MustInv
  <1>6. ASSUME NEW p \in Publishers, NEW u \in Subjects, publish_resolve(p, u) PROVE MustInv'
    <2>1. /\ Others(p) /\ pub'[p].subject = u /\ pub'[p].must = Established
          /\ pub'[p].pc = (IF u \in topics THEN "subscribers" ELSE "wildcards")
      BY <1>6, ResolveFacts
    <2>2. \A s \in Established : s \in Subs /\ call[s] = "done" /\ call'[s] = "done" /\ TopicOf[s] \in topics
      BY <1>0 DEF Established, CallInv
    <2>3. MustOf(p)'
      BY <2>1, <2>2 DEF MustOf
    <2> QED
      BY <1>4, <2>1, <2>3
  <1>7. ASSUME NEW p \in Publishers, publish_subscribers(p) PROVE MustInv'
    <2>1. /\ Others(p) /\ pub'[p].subject = pub[p].subject /\ pub'[p].must = pub[p].must
          /\ pub[p].pc = "subscribers" /\ pub'[p].pc = "groups_snapshot"
          /\ Range(pub'[p].snapshot) = subscribers[pub[p].subject]
      BY <1>7, SubscribersFacts
    <2>2. \A s \in pub[p].must \ leaving : TopicOf[s] = pub[p].subject /\ GroupOf[s] = NoGroup
                                            => s \in subscribers[pub[p].subject]
      BY <1>f, <1>m DEF KeepInv, MustOf, Visible
    <2>3. MustOf(p)'
      BY <1>0, <1>f, <1>m, <2>1, <2>2 DEF MustOf
    <2> QED
      BY <1>4, <2>1, <2>3
  <1>8. ASSUME NEW p \in Publishers, publish_groups(p) PROVE MustInv'
    <2>1. /\ Others(p) /\ pub'[p].subject = pub[p].subject /\ pub'[p].must = pub[p].must
          /\ pub[p].pc = "groups_snapshot"
          /\ pub'[p].groups = DOMAIN consumer_groups[pub[p].subject]
          /\ pub'[p].pc \in {"wildcards", "groups"} /\ pub'[p].snapshot = pub[p].snapshot
      BY <1>8, GroupsFacts
    <2>2. \A s \in pub[p].must : TopicOf[s] = pub[p].subject /\ GroupOf[s] # NoGroup
                                  => GroupOf[s] \in DOMAIN consumer_groups[pub[p].subject]
      BY <1>f, <1>m DEF CallInv, MustOf
    <2>3. MustOf(p)'
      BY <1>0, <1>f, <1>m, <2>1, <2>2 DEF MustOf
    <2> QED
      BY <1>4, <2>1, <2>3
  <1>9. ASSUME NEW p \in Publishers, NEW g \in pub[p].groups, publish_pick(p, g) PROVE MustInv'
    <2>1. /\ Others(p) /\ pub'[p].subject = pub[p].subject /\ pub'[p].must = pub[p].must
          /\ pub[p].pc = "groups" /\ pub[p].subject \in Topics
          /\ g \in DOMAIN consumer_groups[pub[p].subject]
          /\ pub'[p].groups = pub[p].groups \ {g} /\ pub'[p].pc \in {"wildcards", "groups"}
          /\ \/ Members(pub[p].subject, g) = {} /\ pub'[p].snapshot = pub[p].snapshot
             \/ \E m \in Members(pub[p].subject, g) : pub'[p].snapshot = Append(pub[p].snapshot, m)
      BY <1>9, PickFacts
    <2>2. \A s \in pub[p].must \ leaving : TopicOf[s] = pub[p].subject /\ GroupOf[s] = g /\ g # NoGroup
                                            => s \in Members(pub[p].subject, g)
      BY <1>f, <1>m DEF KeepInv, MustOf, Visible
    <2>3. CASE Members(pub[p].subject, g) = {} /\ pub'[p].snapshot = pub[p].snapshot
      <3>1. MustOf(p)'
        BY <1>0, <1>f, <1>m, <2>1, <2>2, <2>3 DEF MustOf
      <3> QED
        BY <1>4, <2>1, <3>1
    <2>4. ASSUME NEW m \in Members(pub[p].subject, g), pub'[p].snapshot = Append(pub[p].snapshot, m)
          PROVE  MustInv'
      <3>1. m \in Subs /\ GroupOf[m] = g
        BY <2>1, MembersAreSubs DEF TopicInv
      <3>2. Range(pub'[p].snapshot) = Range(pub[p].snapshot) \cup {m}
        BY <2>4, <3>1, PubFields, AppendFacts
      <3>3. ASSUME NEW s \in pub[p].must \ leaving', TopicOf[s] = pub[p].subject, GroupOf[s] # NoGroup
            PROVE  \/ GroupOf[s] \in pub'[p].groups
                   \/ \E r \in Range(pub'[p].snapshot) : GroupOf[r] = GroupOf[s]
        <4>1. CASE GroupOf[s] = g
          BY <3>1, <3>2, <4>1
        <4>2. CASE GroupOf[s] # g
          BY <1>0, <1>m, <2>1, <3>2, <3>3, <4>2 DEF MustOf
        <4> QED
          BY <4>1, <4>2
      <3>4. MustOf(p)'
        BY <1>0, <1>f, <1>m, <2>1, <3>2, <3>3 DEF MustOf
      <3> QED
        BY <1>4, <2>1, <3>4
    <2> QED
      BY <2>1, <2>3, <2>4
  <1>10. ASSUME NEW p \in Publishers, publish_wildcards(p) PROVE MustInv'
    <2>1. /\ Others(p) /\ pub'[p].subject = pub[p].subject /\ pub'[p].must = pub[p].must
          /\ pub[p].pc = "wildcards" /\ pub'[p].pc = "deliver" /\ pub'[p].groups = pub[p].groups
          /\ \E q \in Seq(Subs) : Range(q) = Matching(pub[p].subject) /\ pub'[p].snapshot = pub[p].snapshot \o q
      BY <1>10, WildcardsFacts
    <2>2. Range(pub'[p].snapshot) = Range(pub[p].snapshot) \cup Matching(pub[p].subject)
      BY <2>1, PubFields, ConcatFacts
    <2>3. \A s \in pub[p].must \ leaving : pub[p].subject \in MatchesOf[s] => s \in Matching(pub[p].subject)
      BY <1>f, <1>m DEF KeepInv, MustOf, Matching, Wild
    <2>4. MustOf(p)'
      BY <1>0, <1>f, <1>m, <2>1, <2>2, <2>3 DEF MustOf
    <2> QED
      BY <1>4, <2>1, <2>4
  <1>11. ASSUME NEW p \in Publishers, Others(p), pub'[p].must = pub[p].must,
                pub'[p].pc \in {"done", "drop_shard", "drop_topic", "drop_conn", "drop_pattern"}
         PROVE  MustInv'
    <2>1. MustOf(p)'
      BY <1>0, <1>f, <1>m, <1>11 DEF MustOf
    <2> QED
      BY <1>4, <1>11, <2>1
  <1>12. ASSUME NEW p \in Publishers, publish_deliver(p) PROVE MustInv'
    BY <1>11, <1>12, DeliverFacts
  <1>13. ASSUME NEW p \in Publishers, NEW s \in pub[p].drops, drop_shard(p, s) PROVE MustInv'
    BY <1>11, <1>13, DropShardFacts DEF DropSame
  <1>14. ASSUME NEW p \in Publishers, drop_topic(p) \/ drop_conn(p) \/ drop_pattern(p) PROVE MustInv'
    BY <1>11, <1>14, DropFacts DEF DropSame
  <1> QED
    BY <1>5, <1>6, <1>7, <1>8, <1>9, <1>10, <1>12, <1>13, <1>14
       DEF Next, vars, subscribe_topic, subscribe_group, subscribe_insert, subscribe_shard,
           subscribe_track, subscribe_pattern, close_take, close_shard, close_topic, close_patterns

LEMMA KeepStep ==
  ASSUME TypeOK, CallInv, TopicInv, CloseInv, DropInv, KeepInv, [Next]_vars
  PROVE  KeepInv'
  <1> USE SubTopics
  <1>g. \A s \in Subs : call[s] \in Visible \cup {"topic"} /\ GroupOf[s] # NoGroup
                          => GroupOf[s] \in DOMAIN consumer_groups[TopicOf[s]]
    BY DEF CallInv, Visible
  <1>1. CASE ~SubscribeStep
    <2>1. /\ call' = call /\ leaving \subseteq leaving'
          /\ subscriptions \ leaving' \subseteq subscriptions'
          /\ wildcard_subs \ leaving' \subseteq wildcard_subs'
          /\ \A t \in Topics :
               /\ subscribers[t] \ leaving' \subseteq subscribers'[t]
               /\ \A g \in DOMAIN consumer_groups[t] : Members(t, g) \ leaving' \subseteq Members(t, g)'
      BY <1>1, ShrinkStep DEF Shrinks, Loses
    <2> SUFFICES ASSUME NEW s \in Subs \ leaving'
                 PROVE  /\ call[s] \in Visible /\ GroupOf[s] = NoGroup => s \in subscribers'[TopicOf[s]]
                        /\ call[s] \in Visible /\ GroupOf[s] # NoGroup => s \in Members(TopicOf[s], GroupOf[s])'
                        /\ call[s] \in {"sharded", "tracked", "done"} => s \in subscriptions'
                        /\ call[s] = "done" /\ Wild(s) => s \in wildcard_subs'
      BY <2>1 DEF KeepInv
    <2>2. s \in Subs \ leaving
      BY <2>1
    <2>3. call[s] \in Visible /\ GroupOf[s] # NoGroup => s \in Members(TopicOf[s], GroupOf[s])'
      BY <1>g, <2>1, <2>2 DEF KeepInv
    <2> QED
      BY <2>1, <2>2, <2>3 DEF KeepInv
  <1>2. ASSUME NEW s \in Subs, UNCHANGED <<subscribers, leaving>>,
               \A r \in Subs \ {s} : call'[r] = call[r],
               \A t \in Topics : \A g \in DOMAIN consumer_groups[t] : Members(t, g)' = Members(t, g),
               subscriptions \subseteq subscriptions', wildcard_subs \subseteq wildcard_subs',
               call'[s] \in Visible => call[s] \in Visible,
               call'[s] \in {"sharded", "tracked", "done"} =>
                  call[s] \in {"sharded", "tracked", "done"} \/ s \in subscriptions',
               call'[s] = "done" /\ Wild(s) => call[s] = "done" \/ s \in wildcard_subs'
        PROVE  KeepInv'
    <2>1. \A r \in Subs : /\ call'[r] \in Visible => call[r] \in Visible
                          /\ call'[r] \in {"sharded", "tracked", "done"} =>
                               call[r] \in {"sharded", "tracked", "done"} \/ r \in subscriptions'
                          /\ call'[r] = "done" /\ Wild(r) => call[r] = "done" \/ r \in wildcard_subs'
      BY <1>2
    <2>2. \A r \in Subs : call[r] \in Visible /\ GroupOf[r] # NoGroup =>
             Members(TopicOf[r], GroupOf[r])' = Members(TopicOf[r], GroupOf[r])
      BY <1>2, <1>g
    <2> QED
      BY <1>2, <2>1, <2>2 DEF KeepInv
  <1>3. ASSUME consumer_groups' = consumer_groups
        PROVE  \A t \in Topics : \A g \in DOMAIN consumer_groups[t] : Members(t, g)' = Members(t, g)
    BY <1>3 DEF Members
  <1>4. ASSUME NEW s \in Subs, subscribe_topic(s) PROVE KeepInv'
    <2>1. Moves(s, {"idle"}, {"topic", "group"})
      BY <1>4, SubscribeMoves
    <2> QED
      BY <1>2, <1>3, <1>4, <2>1 DEF subscribe_topic, Moves, Visible
  <1>5. ASSUME NEW s \in Subs, subscribe_group(s) PROVE KeepInv'
    <2>1. Moves(s, {"group"}, {"topic"})
      BY <1>5, SubscribeMoves
    <2>2. call[s] = "group" /\ TopicOf[s] \in Topics
      BY <1>5 DEF subscribe_group
    <2>3. \A t \in Topics : \A g \in DOMAIN consumer_groups'[t] :
            \/ g \in DOMAIN consumer_groups[t] /\ consumer_groups'[t][g] = consumer_groups[t][g]
            \/ g = GroupOf[s] /\ t = TopicOf[s] /\ consumer_groups'[t][g] = <<>>
      BY <1>5, GroupFacts
    <2>4. \A t \in Topics : DOMAIN consumer_groups[t] \subseteq DOMAIN consumer_groups'[t]
      BY <1>5, GroupFacts
    <2>5. \A t \in Topics : \A g \in DOMAIN consumer_groups[t] : consumer_groups'[t][g] = consumer_groups[t][g]
      BY <1>5, <2>3, <2>4 DEF subscribe_group
    <2>6. \A t \in Topics : \A g \in DOMAIN consumer_groups[t] : Members(t, g)' = Members(t, g)
      BY <2>5 DEF Members
    <2> QED
      BY <1>2, <1>5, <2>1, <2>6 DEF subscribe_group, Moves, Visible
  <1>6. ASSUME NEW s \in Subs, subscribe_insert(s) PROVE KeepInv'
    <2>1. Moves(s, {"topic"}, {"inserted"}) /\ UNCHANGED <<subscriptions, wildcard_subs>>
      BY <1>6, SubscribeMoves DEF subscribe_insert
    <2>2. \A t \in Topics :
            /\ subscribers'[t] = IF t = TopicOf[s] /\ GroupOf[s] = NoGroup
                                 THEN subscribers[t] \cup {s} ELSE subscribers[t]
            /\ \A g \in DOMAIN consumer_groups[t] :
                 Members(t, g)' = IF t = TopicOf[s] /\ g = GroupOf[s]
                                  THEN Members(t, g) \cup {s} ELSE Members(t, g)
      BY <1>6, InsertFacts
    <2>3. /\ GroupOf[s] = NoGroup => s \in subscribers'[TopicOf[s]]
          /\ GroupOf[s] # NoGroup => s \in Members(TopicOf[s], GroupOf[s])'
      BY <1>g, <2>1, <2>2 DEF Moves
    <2>4. \A t \in Topics : /\ subscribers[t] \subseteq subscribers'[t]
                            /\ \A g \in DOMAIN consumer_groups[t] : Members(t, g) \subseteq Members(t, g)'
      BY <2>2
    <2>5. \A r \in Subs \ leaving :
             /\ call[r] \in Visible /\ GroupOf[r] = NoGroup => r \in subscribers'[TopicOf[r]]
             /\ call[r] \in Visible /\ GroupOf[r] # NoGroup => r \in Members(TopicOf[r], GroupOf[r])'
      BY <1>g, <2>4 DEF KeepInv
    <2> QED
      BY <2>1, <2>3, <2>5 DEF KeepInv, Moves
  <1>7. ASSUME NEW s \in Subs, subscribe_shard(s) PROVE KeepInv'
    <2>1. /\ Moves(s, {"inserted"}, {"sharded", "tracked", "done"})
          /\ call'[s] = IF ConnOf[s] # NoConn THEN "sharded" ELSE IF Wild(s) THEN "tracked" ELSE "done"
      BY <1>7, SubscribeMoves DEF subscribe_shard, TypeOK
    <2> QED
      BY <1>2, <1>3, <1>7, <2>1 DEF subscribe_shard, Moves, Visible
  <1>8. ASSUME NEW s \in Subs, subscribe_track(s) PROVE KeepInv'
    <2>1. /\ Moves(s, {"sharded"}, {"tracked", "done"})
          /\ call'[s] = IF Wild(s) THEN "tracked" ELSE "done"
      BY <1>8, SubscribeMoves DEF subscribe_track, TypeOK
    <2> QED
      BY <1>2, <1>3, <1>8, <2>1 DEF subscribe_track, Moves, Visible
  <1>9. ASSUME NEW s \in Subs, subscribe_pattern(s) PROVE KeepInv'
    <2>1. Moves(s, {"tracked"}, {"done"})
      BY <1>9, SubscribeMoves
    <2> QED
      BY <1>2, <1>3, <1>9, <2>1 DEF subscribe_pattern, Moves, Visible
  <1> QED
    BY <1>1, <1>4, <1>5, <1>6, <1>7, <1>8, <1>9 DEF SubscribeStep

-----------------------------------------------------------------------------
(* A removal that has begun goes on to the end.                            *)

\* No topic holds s, neither among its subscribers nor in a group.
Gone(s) == \A t \in Topics : /\ s \notin subscribers[t]
                             /\ \A g \in DOMAIN consumer_groups[t] : s \notin Members(t, g)

LEMMA OutOfShard ==
  ASSUME TypeOK, [Next]_vars, NEW s \in subscriptions, s \notin subscriptions'
  PROVE  TopicToGo(s)'
  <1>1. ASSUME NEW c \in Conns, NEW r \in closing[c].ids, close_shard(c, r) PROVE TopicToGo(s)'
    <2>1. s = r
      BY <1>1 DEF close_shard
    <2>2. s \in closing'[c].removed /\ closing'[c].pc \in {"shards", "topics"}
          /\ (closing'[c].pc = "topics" => s \in closing'[c].ids)
      BY <1>1, <2>1, CloseShardFacts
    <2> QED
      BY <2>2 DEF TopicToGo
  <1>2. ASSUME NEW p \in Publishers, NEW r \in pub[p].drops, drop_shard(p, r) PROVE TopicToGo(s)'
    <2>1. s = r
      BY <1>2 DEF drop_shard
    <2>2. pub'[p].dropping = s /\ pub'[p].pc = "drop_topic"
      BY <1>2, <2>1, DropShardFacts
    <2> QED
      BY <2>2 DEF TopicToGo
  <1> QED
    BY <1>1, <1>2
       DEF Next, vars, subscribe_topic, subscribe_group, subscribe_insert, subscribe_shard,
           subscribe_track, subscribe_pattern, close_take, close_topic, close_patterns,
           publish_resolve, publish_subscribers, publish_groups, publish_pick,
           publish_wildcards, publish_deliver, drop_topic, drop_conn, drop_pattern

\* The publisher that is on its way to the topic of s stays on it, or has been there.
LEMMA DropGoes ==
  ASSUME TypeOK, CallInv, TopicInv, DropInv, [Next]_vars, NEW s \in Subs, NEW p \in Publishers,
         pub[p].dropping = s, pub[p].pc = "drop_topic"
  PROVE  Gone(s)' \/ (pub'[p].dropping = s /\ pub'[p].pc = "drop_topic")
  <1>1. CASE pub'[p] = pub[p]
    BY <1>1
  <1>2. CASE drop_topic(p)
    <2>1. RemoveFromTopic(s) /\ HasGroup(s)
      BY <1>2 DEF drop_topic, DropInv, DropOf, CallInv, HasGroup
    <2>2. \A t \in Topics :
            /\ subscribers'[t] = subscribers[t] \ {s}
            /\ DOMAIN consumer_groups'[t] = DOMAIN consumer_groups[t]
            /\ \A g \in DOMAIN consumer_groups[t] : Members(t, g)' = Members(t, g) \ {s}
      BY <2>1, RemoveFacts
    <2> QED
      BY <2>2 DEF Gone
  <1>3. ASSUME NEW q \in Publishers,
               \/ \E u \in Subjects : publish_resolve(q, u)
               \/ publish_subscribers(q) \/ publish_groups(q) \/ publish_wildcards(q)
               \/ publish_deliver(q) \/ drop_topic(q) \/ drop_conn(q) \/ drop_pattern(q)
               \/ \E r \in pub[q].drops : drop_shard(q, r)
               \/ \E g \in pub[q].groups : publish_pick(q, g),
               ~drop_topic(p)
        PROVE  pub'[p] = pub[p]
    <2>1. q # p
      BY <1>3 DEF publish_resolve, publish_subscribers, publish_groups, publish_pick,
                  publish_wildcards, publish_deliver, drop_shard, drop_topic, drop_conn, drop_pattern
    <2>2. Others(q)
      BY <1>3, ResolveFacts, SubscribersFacts, GroupsFacts, PickFacts, WildcardsFacts, DeliverFacts,
         DropShardFacts, DropFacts
    <2> QED
      BY <2>1, <2>2 DEF Others
  <1> QED
    BY <1>1, <1>2, <1>3
       DEF Next, vars, subscribe_topic, subscribe_group, subscribe_insert, subscribe_shard,
           subscribe_track, subscribe_pattern, close_take, close_shard, close_topic, close_patterns

LEMMA CloseGoes ==
  ASSUME TypeOK, CallInv, TopicInv, CloseInv, [Next]_vars, NEW s \in Subs, NEW c \in Conns,
         s \in closing[c].removed, closing[c].pc \in {"shards", "topics"},
         closing[c].pc = "topics" => s \in closing[c].ids
  PROVE  \/ Gone(s)'
         \/ /\ s \in closing'[c].removed /\ closing'[c].pc \in {"shards", "topics"}
            /\ closing'[c].pc = "topics" => s \in closing'[c].ids
  <1>1. CASE closing'[c] = closing[c]
    BY <1>1
  <1>2. ASSUME NEW r \in closing[c].ids, close_shard(c, r)
        PROVE  /\ s \in closing'[c].removed /\ closing'[c].pc \in {"shards", "topics"}
               /\ closing'[c].pc = "topics" => s \in closing'[c].ids
    BY <1>2, CloseShardFacts
  <1>3. CASE close_topic(c, s)
    <2>1. RemoveFromTopic(s) /\ HasGroup(s)
      BY <1>3 DEF close_topic, CloseInv, CallInv, HasGroup
    <2>2. \A t \in Topics :
            /\ subscribers'[t] = subscribers[t] \ {s}
            /\ DOMAIN consumer_groups'[t] = DOMAIN consumer_groups[t]
            /\ \A g \in DOMAIN consumer_groups[t] : Members(t, g)' = Members(t, g) \ {s}
      BY <2>1, RemoveFacts
    <2> QED
      BY <2>2 DEF Gone
  <1>4. ASSUME NEW r \in closing[c].ids, close_topic(c, r), r # s
        PROVE  /\ s \in closing'[c].removed /\ closing'[c].pc \in {"shards", "topics"}
               /\ closing'[c].pc = "topics" => s \in closing'[c].ids
    <2>1. /\ closing[c].pc = "topics" /\ closing'[c].removed = closing[c].removed
          /\ closing'[c].ids = closing[c].ids \ {r}
          /\ closing'[c].pc = (IF closing[c].ids = {r} THEN "patterns" ELSE "topics")
      BY <1>4, CloseTopicFacts
    <2> QED
      BY <1>4, <2>1
  <1>5. ~close_take(c) /\ ~close_patterns(c)
    BY DEF close_take, close_patterns
  <1>6. ASSUME NEW d \in Conns \ {c},
               \/ close_take(d) \/ close_patterns(d)
               \/ \E r \in closing[d].ids : close_shard(d, r) \/ close_topic(d, r)
        PROVE  closing'[c] = closing[c]
    BY <1>6, TakeFacts, CloseShardFacts, CloseTopicFacts, ClosePatternsFacts DEF OtherConns
  <1>7. \/ closing' = closing
        \/ \E d \in Conns : close_take(d) \/ close_patterns(d)
        \/ \E d \in Conns : \E r \in closing[d].ids : close_shard(d, r) \/ close_topic(d, r)
    BY DEF Next, vars, subscribe_topic, subscribe_group, subscribe_insert, subscribe_shard,
           subscribe_track, subscribe_pattern, publish_resolve, publish_subscribers, publish_groups,
           publish_pick, publish_wildcards, publish_deliver, drop_shard, drop_topic, drop_conn, drop_pattern
  <1>8. closing'[c] = closing[c] \/ \E r \in closing[c].ids : close_shard(c, r) \/ close_topic(c, r)
    BY <1>5, <1>6, <1>7
  <1> QED
    BY <1>1, <1>2, <1>3, <1>4, <1>8

LEMMA RemovalGoes ==
  ASSUME TypeOK, CallInv, TopicInv, CloseInv, DropInv, [Next]_vars, NEW s \in Subs
  PROVE  TopicToGo(s) => TopicToGo(s)' \/ Gone(s)'
  BY DropGoes, CloseGoes DEF TopicToGo

\* ... and ends at the patterns.
LEMMA RemovingGoes ==
  ASSUME TypeOK, CloseInv, DropInv, [Next]_vars, NEW s \in Subs, Removing(s)
  PROVE  Removing(s)' \/ s \notin wildcard_subs'
  <1>1. ASSUME NEW c \in Conns, s \in closing[c].removed, closing[c].pc # "closed"
        PROVE  Removing(s)' \/ s \notin wildcard_subs'
    <2>1. CASE closing'[c] = closing[c]
      BY <1>1, <2>1 DEF Removing
    <2>2. ASSUME NEW r \in closing[c].ids, close_shard(c, r) PROVE Removing(s)'
      <3>1. s \in closing'[c].removed /\ closing'[c].pc # "closed"
        BY <1>1, <2>2, CloseShardFacts
      <3> QED
        BY <3>1 DEF Removing
    <2>3. ASSUME NEW r \in closing[c].ids, close_topic(c, r) PROVE Removing(s)'
      <3>1. s \in closing'[c].removed /\ closing'[c].pc # "closed"
        BY <1>1, <2>3, CloseTopicFacts
      <3> QED
        BY <3>1 DEF Removing
    <2>4. CASE close_patterns(c)
      BY <1>1, <2>4 DEF close_patterns
    <2>5. ~close_take(c)
      BY <1>1 DEF close_take, CloseInv
    <2>6. ASSUME NEW d \in Conns \ {c},
                 \/ close_take(d) \/ close_patterns(d)
                 \/ \E r \in closing[d].ids : close_shard(d, r) \/ close_topic(d, r)
          PROVE  closing'[c] = closing[c]
      BY <2>6, TakeFacts, CloseShardFacts, CloseTopicFacts, ClosePatternsFacts DEF OtherConns
    <2> QED
      BY <2>1, <2>2, <2>3, <2>4, <2>5, <2>6
         DEF Next, vars, subscribe_topic, subscribe_group, subscribe_insert, subscribe_shard,
             subscribe_track, subscribe_pattern, publish_resolve, publish_subscribers, publish_groups,
             publish_pick, publish_wildcards, publish_deliver, drop_shard, drop_topic, drop_conn, drop_pattern
  <1>2. ASSUME NEW p \in Publishers, pub[p].dropping = s
        PROVE  Removing(s)' \/ s \notin wildcard_subs'
    <2>0. s # NoSub /\ pub[p].pc \in {"drop_topic", "drop_conn", "drop_pattern"}
      BY <1>2, RegistryAssumption DEF DropInv, DropOf
    <2>1. CASE pub'[p].dropping = s
      BY <2>1 DEF Removing
    <2>2. CASE drop_pattern(p)
      BY <1>2, <2>2 DEF drop_pattern
    <2>3. CASE drop_topic(p) \/ drop_conn(p)
      <3>1. pub'[p].dropping = s
        BY <1>2, <2>0, <2>3, DropFacts DEF drop_topic, drop_conn, drop_pattern
      <3> QED
        BY <2>1, <3>1
    <2>4. ASSUME NEW q \in Publishers,
                 \/ \E u \in Subjects : publish_resolve(q, u)
                 \/ publish_subscribers(q) \/ publish_groups(q) \/ publish_wildcards(q)
                 \/ publish_deliver(q) \/ drop_topic(q) \/ drop_conn(q) \/ drop_pattern(q)
                 \/ \E r \in pub[q].drops : drop_shard(q, r)
                 \/ \E g \in pub[q].groups : publish_pick(q, g),
                 ~(drop_topic(p) \/ drop_conn(p) \/ drop_pattern(p))
          PROVE  pub'[p] = pub[p]
      <3>1. q # p
        BY <2>0, <2>4 DEF publish_resolve, publish_subscribers, publish_groups, publish_pick,
                          publish_wildcards, publish_deliver, drop_shard
      <3>2. Others(q)
        BY <2>4, ResolveFacts, SubscribersFacts, GroupsFacts, PickFacts, WildcardsFacts, DeliverFacts,
           DropShardFacts, DropFacts
      <3> QED
        BY <3>1, <3>2 DEF Others
    <2> QED
      BY <1>2, <2>1, <2>2, <2>3, <2>4
         DEF Next, vars, subscribe_topic, subscribe_group, subscribe_insert, subscribe_shard,
             subscribe_track, subscribe_pattern, close_take, close_shard, close_topic, close_patterns
  <1> QED
    BY <1>1, <1>2 DEF Removing

LEMMA ResidueStep ==
  ASSUME TypeOK, CallInv, TopicInv, CloseInv, DropInv, ResidueInv, [Next]_vars
  PROVE  ResidueInv'
  <1> USE SubTopics
  \* What a topic holds is what it held, or has just been inserted.
  <1>1. ASSUME NEW s \in Subs, ~Gone(s)' PROVE ~Gone(s) \/ call'[s] = "inserted"
    <2>1. CASE ~SubscribeStep
      BY <1>1, <2>1, ShrinkStep DEF Shrinks, Loses, Gone
    <2>2. CASE UNCHANGED <<subscribers, consumer_groups>>
      BY <1>1, <2>2, Zenon DEF Gone, Members
    <2>3. ASSUME NEW r \in Subs, subscribe_group(r) PROVE ~Gone(s)
      <3>1. subscribers' = subscribers
        BY <2>3 DEF subscribe_group
      <3>2. \A t \in Topics : \A g \in DOMAIN consumer_groups'[t] :
              \/ g \in DOMAIN consumer_groups[t] /\ consumer_groups'[t][g] = consumer_groups[t][g]
              \/ consumer_groups'[t][g] = <<>>
        BY <2>3, GroupFacts
      <3>3. Range(<<>>) = {}
        BY DEF Range
      <3> QED
        BY <1>1, <3>1, <3>2, <3>3 DEF Gone, Members
    <2>4. ASSUME NEW r \in Subs, subscribe_insert(r) PROVE ~Gone(s) \/ call'[s] = "inserted"
      <3>1. Moves(r, {"topic"}, {"inserted"})
        BY <2>4, SubscribeMoves
      <3>2. \A t \in Topics :
              /\ subscribers'[t] = IF t = TopicOf[r] /\ GroupOf[r] = NoGroup
                                   THEN subscribers[t] \cup {r} ELSE subscribers[t]
              /\ DOMAIN consumer_groups'[t] = DOMAIN consumer_groups[t]
              /\ \A g \in DOMAIN consumer_groups[t] :
                   Members(t, g)' = IF t = TopicOf[r] /\ g = GroupOf[r]
                                    THEN Members(t, g) \cup {r} ELSE Members(t, g)
        BY <2>4, InsertFacts
      <3>3. CASE s = r
        BY <3>1, <3>3 DEF Moves
      <3>4. CASE s # r
        <4>1. \A t \in Topics : \A g \in DOMAIN consumer_groups'[t] :
                 s \in Members(t, g)' => g \in DOMAIN consumer_groups[t] /\ s \in Members(t, g)
          BY <3>2, <3>4
        <4>2. \A t \in Topics : s \in subscribers'[t] => s \in subscribers[t]
          BY <3>2, <3>4
        <4> QED
          BY <1>1, <4>1, <4>2 DEF Gone
      <3> QED
        BY <3>3, <3>4
    <2> QED
      BY <2>1, <2>2, <2>3, <2>4
         DEF SubscribeStep, subscribe_topic, subscribe_shard, subscribe_track, subscribe_pattern
  <1>2. ASSUME NEW s \in Subs, call[s] = "inserted" PROVE call'[s] = "inserted" \/ s \in subscriptions'
    <2>1. CASE ~SubscribeStep
      BY <1>2, <2>1, ShrinkStep DEF Shrinks
    <2>2. ASSUME NEW r \in Subs, \/ subscribe_topic(r) \/ subscribe_group(r) \/ subscribe_insert(r)
                                 \/ subscribe_track(r) \/ subscribe_pattern(r)
          PROVE  call'[s] = "inserted"
      BY <1>2, <2>2, SubscribeMoves DEF Moves
    <2>3. ASSUME NEW r \in Subs, subscribe_shard(r) PROVE call'[s] = "inserted" \/ s \in subscriptions'
      <3>1. Moves(r, {"inserted"}, {"sharded", "tracked", "done"}) /\ r \in subscriptions'
        BY <2>3, SubscribeMoves DEF subscribe_shard
      <3> QED
        BY <1>2, <3>1 DEF Moves
    <2> QED
      BY <2>1, <2>2, <2>3 DEF SubscribeStep
  <1>3. ASSUME NEW s \in Subs, ~Gone(s)'
        PROVE  s \in subscriptions' \/ call'[s] = "inserted" \/ TopicToGo(s)'
    <2>1. CASE call'[s] = "inserted"
      BY <2>1
    <2>2. CASE ~Gone(s)
      <3>1. s \in subscriptions \/ call[s] = "inserted" \/ TopicToGo(s)
        BY <2>2 DEF Gone, ResidueInv
      <3>2. CASE s \in subscriptions
        BY <3>2, OutOfShard
      <3>3. CASE call[s] = "inserted"
        BY <1>2, <3>3
      <3>4. CASE TopicToGo(s)
        BY <1>3, <3>4, RemovalGoes
      <3> QED
        BY <3>1, <3>2, <3>3, <3>4
    <2> QED
      BY <1>1, <1>3, <2>1, <2>2
  <1>4. TypeOK'
    BY TypeStep
  <1>5. /\ \A t \in Topics : \A s \in subscribers'[t] :
             s \in subscriptions' \/ call'[s] = "inserted" \/ TopicToGo(s)'
        /\ \A t \in Topics : \A g \in DOMAIN consumer_groups'[t] : \A s \in Members(t, g)' :
             s \in subscriptions' \/ call'[s] = "inserted" \/ TopicToGo(s)'
    <2>1. ASSUME NEW t \in Topics, NEW s \in subscribers'[t] PROVE s \in Subs /\ ~Gone(s)'
      BY <1>4 DEF TypeOK, TopicType, Gone
    <2>2. ASSUME NEW t \in Topics, NEW g \in DOMAIN consumer_groups'[t], NEW s \in Members(t, g)'
          PROVE  s \in Subs /\ ~Gone(s)'
      <3>1. consumer_groups'[t][g] \in Seq(Subs)
        BY <1>4 DEF TypeOK, TopicType
      <3>2. s \in Subs
        BY <3>1, SeqFacts DEF Members
      <3> QED
        BY <3>2 DEF Gone
    <2> QED
      BY <1>3, <2>1, <2>2
  <1>6. ASSUME NEW s \in wildcard_subs' PROVE s \in subscriptions' \/ Removing(s)'
    <2>1. s \in Subs
      BY <1>4 DEF TypeOK
    <2>2. TopicToGo(s)' => Removing(s)'
      BY DEF TopicToGo, Removing
    <2>3. CASE s \in wildcard_subs
      <3>1. CASE s \in subscriptions
        BY <2>2, <3>1, OutOfShard
      <3>2. CASE Removing(s)
        BY <1>6, <2>1, <3>2, RemovingGoes
      <3> QED
        BY <2>3, <3>1, <3>2 DEF ResidueInv
    <2>4. CASE s \notin wildcard_subs
      <3>1. CASE ~SubscribeStep
        BY <1>6, <2>4, <3>1, ShrinkStep DEF Shrinks, Loses
      <3>2. CASE subscribe_pattern(s)
        BY <2>1, <3>2 DEF subscribe_pattern, ResidueInv, CallInv
      <3>3. ASSUME NEW r \in Subs, \/ subscribe_topic(r) \/ subscribe_group(r) \/ subscribe_insert(r)
                                   \/ subscribe_shard(r) \/ subscribe_track(r)
                                   \/ (subscribe_pattern(r) /\ r # s)
            PROVE  FALSE
        BY <1>6, <2>4, <3>3 DEF subscribe_topic, subscribe_group, subscribe_insert, subscribe_shard,
                                subscribe_track, subscribe_pattern
      <3> QED
        BY <3>1, <3>2, <3>3 DEF SubscribeStep
    <2> QED
      BY <2>3, <2>4
  <1>7. ASSUME NEW s \in Subs, Wild(s), call'[s] \in {"sharded", "tracked"} PROVE s \in subscriptions'
    <2>1. CASE ~SubscribeStep
      <3>1. call[s] \in {"sharded", "tracked"}
        BY <1>7, <2>1, ShrinkStep DEF Shrinks
      <3>2. s \in subscriptions
        BY <1>7, <3>1 DEF ResidueInv
      <3>3. ASSUME NEW c \in Conns, NEW r \in closing[c].ids, close_shard(c, r) PROVE r # s
        BY <3>1 DEF CloseInv
      <3>4. ASSUME NEW p \in Publishers, NEW r \in pub[p].drops, drop_shard(p, r) PROVE r # s
        BY <1>7, <3>1 DEF DropInv, DropOf
      <3> QED
        BY <2>1, <3>2, <3>3, <3>4
           DEF Next, vars, SubscribeStep, close_take, close_shard, close_topic, close_patterns,
               publish_resolve, publish_subscribers, publish_groups, publish_pick,
               publish_wildcards, publish_deliver, drop_shard, drop_topic, drop_conn, drop_pattern
    <2>2. ASSUME NEW r \in Subs, \/ subscribe_topic(r) \/ subscribe_group(r) \/ subscribe_insert(r)
                                 \/ subscribe_track(r) \/ subscribe_pattern(r)
          PROVE  s \in subscriptions'
      <3>1. subscriptions' = subscriptions
        BY <2>2 DEF subscribe_topic, subscribe_group, subscribe_insert, subscribe_track, subscribe_pattern
      <3>2. call[s] \in {"sharded", "tracked"}
        BY <1>7, <2>2, SubscribeMoves DEF Moves
      <3> QED
        BY <1>7, <3>1, <3>2 DEF ResidueInv
    <2>3. ASSUME NEW r \in Subs, subscribe_shard(r) PROVE s \in subscriptions'
      <3>1. Moves(r, {"inserted"}, {"sharded", "tracked", "done"}) /\ subscriptions' = subscriptions \cup {r}
        BY <2>3, SubscribeMoves DEF subscribe_shard
      <3> QED
        BY <1>7, <3>1 DEF Moves, ResidueInv
    <2> QED
      BY <2>1, <2>2, <2>3 DEF SubscribeStep
  <1>8. ASSUME NEW s \in subscriptions', ConnOf[s] # NoConn, call'[s] \in {"tracked", "done"}
        PROVE  \/ s \in connection_subs'[ConnOf[s]]
               \/ closing'[ConnOf[s]].pc = "shards" /\ s \in closing'[ConnOf[s]].ids
    <2>0. s \in Subs /\ ConnOf[s] \in Conns /\ connection_subs \in [Conns -> SUBSET Subs]
      BY <1>4, <1>8 DEF TypeOK, Conns
    <2>1. PICK k \in Conns : k = ConnOf[s]
      BY <2>0
    <2>2. s \in subscriptions /\ call[s] \in {"tracked", "done"}
            => s \in connection_subs[k] \/ (closing[k].pc = "shards" /\ s \in closing[k].ids)
      BY <1>8, <2>1 DEF ResidueInv
    <2>3. CASE /\ UNCHANGED <<connection_subs, closing>> /\ s \in subscriptions
               /\ call[s] \in {"tracked", "done"}
      BY <2>1, <2>2, <2>3
    <2>4. ASSUME NEW r \in Subs, subscribe_track(r)
          PROVE  s \in connection_subs'[k] \/ (closing'[k].pc = "shards" /\ s \in closing'[k].ids)
      <3>1. /\ Moves(r, {"sharded"}, {"tracked", "done"}) /\ subscriptions' = subscriptions
            /\ connection_subs' = [connection_subs EXCEPT ![ConnOf[r]] = @ \cup {r}]
        BY <2>4, SubscribeMoves DEF subscribe_track
      <3>2. CASE s = r
        BY <2>0, <2>1, <3>1, <3>2
      <3>3. CASE s # r
        <4>1. connection_subs[k] \subseteq connection_subs'[k]
          BY <2>0, <2>1, <3>1
        <4> QED
          BY <1>8, <2>0, <2>2, <3>1, <3>3, <4>1 DEF Moves
      <3> QED
        BY <3>2, <3>3
    <2>5. ASSUME NEW r \in Subs, subscribe_shard(r)
          PROVE  UNCHANGED <<connection_subs, closing>> /\ s \in subscriptions /\ call[s] \in {"tracked", "done"}
      <3>1. /\ Moves(r, {"inserted"}, {"sharded", "tracked", "done"}) /\ subscriptions' = subscriptions \cup {r}
            /\ call'[r] = IF ConnOf[r] # NoConn THEN "sharded" ELSE IF Wild(r) THEN "tracked" ELSE "done"
            /\ UNCHANGED <<connection_subs, closing>>
        BY <2>5, SubscribeMoves DEF subscribe_shard, TypeOK
      <3>2. s # r
        BY <1>8, <3>1
      <3> QED
        BY <1>8, <2>0, <3>1, <3>2 DEF Moves
    <2>6. ASSUME NEW r \in Subs, subscribe_topic(r) \/ subscribe_group(r) \/ subscribe_insert(r)
          PROVE  UNCHANGED <<connection_subs, closing>> /\ s \in subscriptions /\ call[s] \in {"tracked", "done"}
      <3>1. UNCHANGED <<connection_subs, closing, subscriptions>>
        BY <2>6 DEF subscribe_topic, subscribe_group, subscribe_insert
      <3>2. call'[r] \in {"topic", "group", "inserted"} /\ \A x \in Subs \ {r} : call'[x] = call[x]
        BY <2>6, SubscribeMoves DEF Moves
      <3> QED
        BY <1>8, <2>0, <3>1, <3>2
    <2>7. ASSUME NEW r \in Subs, subscribe_pattern(r)
          PROVE  UNCHANGED <<connection_subs, closing>> /\ s \in subscriptions /\ call[s] \in {"tracked", "done"}
      BY <1>8, <2>0, <2>7, SubscribeMoves DEF Moves, subscribe_pattern
    <2>8. CASE ~SubscribeStep
      <3>0. s \in subscriptions /\ call[s] \in {"tracked", "done"}
        BY <1>8, <2>8, ShrinkStep DEF Shrinks, Loses
      <3>1. s \in connection_subs[k] \/ (closing[k].pc = "shards" /\ s \in closing[k].ids)
        BY <2>2, <3>0
      <3>2. ASSUME NEW c \in Conns, close_take(c)
            PROVE  s \in connection_subs'[k] \/ (closing'[k].pc = "shards" /\ s \in closing'[k].ids)
        <4>1. CASE k # c
          BY <3>1, <3>2, <4>1, TakeFacts DEF OtherConns
        <4>2. CASE k = c
          <5>1. s \in connection_subs[c]
            BY <3>1, <3>2, <4>2 DEF close_take
          <5> QED
            BY <3>2, <4>2, <5>1, TakeFacts
        <4> QED
          BY <4>1, <4>2
      <3>3. ASSUME NEW c \in Conns, NEW r \in closing[c].ids, close_shard(c, r)
            PROVE  s \in connection_subs'[k] \/ (closing'[k].pc = "shards" /\ s \in closing'[k].ids)
        <4>1. connection_subs' = connection_subs /\ s # r
          BY <1>8, <3>3 DEF close_shard
        <4>2. CASE k # c
          BY <3>1, <3>3, <4>1, <4>2, CloseShardFacts DEF OtherConns
        <4>3. CASE k = c /\ s \in closing[c].ids
          BY <3>3, <4>1, <4>3, CloseShardFacts
        <4> QED
          BY <3>1, <4>1, <4>2, <4>3
      <3>4. ASSUME NEW c \in Conns, NEW r \in closing[c].ids, close_topic(c, r)
            PROVE  s \in connection_subs'[k] \/ (closing'[k].pc = "shards" /\ s \in closing'[k].ids)
        <4>1. connection_subs' = connection_subs /\ closing[c].pc = "topics"
          BY <3>4 DEF close_topic
        <4> QED
          BY <3>1, <3>4, <4>1, CloseTopicFacts DEF OtherConns
      <3>5. ASSUME NEW c \in Conns, close_patterns(c)
            PROVE  s \in connection_subs'[k] \/ (closing'[k].pc = "shards" /\ s \in closing'[k].ids)
        <4>1. connection_subs' = connection_subs /\ closing[c].pc = "patterns"
          BY <3>5 DEF close_patterns
        <4> QED
          BY <3>1, <3>5, <4>1, ClosePatternsFacts DEF OtherConns
      <3>6. ASSUME NEW p \in Publishers, drop_conn(p)
            PROVE  s \in connection_subs'[k] \/ (closing'[k].pc = "shards" /\ s \in closing'[k].ids)
        <4>1. closing' = closing /\ connection_subs'[k] = connection_subs[k] \ {pub[p].dropping}
          BY <3>6 DEF drop_conn
        <4>2. pub[p].dropping \notin subscriptions
          BY <3>6 DEF drop_conn, DropInv, DropOf
        <4> QED
          BY <3>0, <3>1, <4>1, <4>2
      <3>7. CASE UNCHANGED <<connection_subs, closing>>
        BY <2>1, <3>1, <3>7
      <3> QED
        BY <2>1, <2>8, <3>2, <3>3, <3>4, <3>5, <3>6, <3>7
           DEF Next, vars, SubscribeStep, publish_resolve, publish_subscribers, publish_groups, publish_pick,
               publish_wildcards, publish_deliver, drop_shard, drop_topic, drop_pattern
    <2> QED
      BY <2>1, <2>3, <2>4, <2>5, <2>6, <2>7, <2>8 DEF SubscribeStep
  <1> QED
    BY <1>5, <1>6, <1>7, <1>8 DEF ResidueInv

-----------------------------------------------------------------------------
(* The theorems.                                                           *)

LEMMA InitInv ==
  ASSUME Init
  PROVE  Inv
  <1>e. Range(<<>>) = {} /\ Unique(<<>>) /\ <<>> \in Seq(Subs) /\ DOMAIN NoKeys = {}
    <2>1. Range(<<>>) = {} /\ Unique(<<>>)
      BY DEF Range, Unique
    <2> QED
      BY <2>1 DEF NoKeys
  <1> USE DEF Init
  <1>c. \A c \in Conns : /\ closing[c] = [pc |-> "open", ids |-> {}, removed |-> {}]
                         /\ closing[c].pc = "open" /\ closing[c].ids = {} /\ closing[c].removed = {}
    OBVIOUS
  <1>p. \A p \in Publishers :
          /\ pub[p].pc = "idle" /\ pub[p].groups = {} /\ pub[p].snapshot = <<>>
          /\ pub[p].drops = {} /\ pub[p].dropping = NoSub /\ pub[p].must = {}
    OBVIOUS
  <1>1. TopicType /\ topics \subseteq Topics
    <2>1. \A t \in Topics : subscribers[t] = {} /\ consumer_groups[t] = NoKeys /\ next_idx[t] = NoKeys
      OBVIOUS
    <2>2. NoKeys \in [{} -> Seq(Subs)] /\ NoKeys \in [{} -> Nat]
      BY DEF NoKeys
    <2>3. subscribers \in [Topics -> SUBSET Subs] /\ DOMAIN consumer_groups = Topics /\ DOMAIN next_idx = Topics
      OBVIOUS
    <2> QED
      BY <1>e, <2>1, <2>2, <2>3 DEF TopicType
  <1>2. pub \in [Publishers -> Pubs]
    BY <1>e DEF Pubs
  <1>3. closing \in [Conns -> Closings] /\ call \in [Subs -> CallPc]
    BY DEF Closings, CallPc
  <1>4. TypeOK
    BY <1>1, <1>2, <1>3 DEF TypeOK
  <1>5. CallInv /\ CloseInv /\ KeepInv
    BY <1>c DEF CallInv, CloseInv, KeepInv, Visible
  <1>6. TopicInv /\ ResidueInv
    BY <1>e DEF TopicInv, ResidueInv
  <1>7. DropInv /\ SnapshotInv /\ MustInv
    BY <1>e, <1>p DEF DropInv, DropOf, SnapshotInv, SnapshotOf, MustInv, MustOf
  <1> QED
    BY <1>4, <1>5, <1>6, <1>7 DEF Inv

LEMMA SpecInv == Spec => []Inv
  <1>1. Init => Inv
    BY InitInv
  <1>2. Inv /\ [Next]_vars => Inv'
    BY TypeStep, CallInvStep, TopicInvStep, CloseInvStep, DropInvStep, ResidueStep, KeepStep,
       SnapshotStep, MustStep DEF Inv
  <1> QED
    BY <1>1, <1>2, PTL DEF Spec

\* The registry's maps and lists hold what their types say; in particular a topic
\* with subscribers or groups always has the record where publishers look it up.
THEOREM RegistryTypes == Spec => []TypeOK
  <1>1. Inv => TypeOK
    BY DEF Inv
  <1> QED
    BY <1>1, SpecInv, PTL

\* unsubscribe_connection and unsubscribe_one, which may race for the same
\* subscription: after both, no map, topic, group or pattern list holds it.
THEOREM ClosesLeaveNothing == Spec => []NoResidue
  <1>1. ASSUME Inv, NEW s \in Subs, ConnOf[s] # NoConn, closing[ConnOf[s]].pc = "closed", ~Removing(s)
        PROVE  /\ s \notin subscriptions \cup wildcard_subs \cup subscribers[TopicOf[s]]
               /\ ~InGroups(s)
               /\ s \notin connection_subs[ConnOf[s]]
    <2>1. ConnOf[s] \in Conns
      BY <1>1 DEF Conns
    <2>2. connection_subs[ConnOf[s]] = {} /\ call[s] \in {"idle", "done"}
      BY <1>1, <2>1 DEF Inv, CloseInv
    <2>3. s \notin subscriptions
      BY <1>1, <2>2 DEF Inv, ResidueInv, CallInv
    <2>4. ~TopicToGo(s)
      BY <1>1 DEF TopicToGo, Removing
    <2>5. s \notin wildcard_subs /\ s \notin subscribers[TopicOf[s]]
      BY <1>1, <2>2, <2>3, <2>4, SubTopics DEF Inv, ResidueInv
    <2>6. ~InGroups(s)
      BY <1>1, <2>2, <2>3, <2>4, ToSetIsRange DEF Inv, ResidueInv, InGroups, Members
    <2> QED
      BY <2>2, <2>3, <2>5, <2>6
  <1>2. Inv => NoResidue
    BY <1>1 DEF NoResidue
  <1> QED
    BY <1>2, SpecInv, PTL

\* A set of positions that has no two members has at most one.
LEMMA AtMostOne ==
  ASSUME NEW S, \A i, j \in S : i = j
  PROVE  Cardinality(S) <= 1 /\ (S # {} => Cardinality(S) = 1)
  <1>1. CASE S = {}
    BY <1>1, FS_EmptySet
  <1>2. CASE S # {}
    <2>1. PICK k \in S : TRUE
      BY <1>2
    <2>2. S = {k}
      BY <2>1
    <2> QED
      BY <2>2, FS_Singleton
  <1> QED
    BY <1>1, <1>2

\* publish_inner's fan-out: whoever was subscribed when the publish began, and is
\* not being removed, gets the message once, by its topic or by its pattern,
\* whatever locks subscribe calls, closes and drops take in between.
THEOREM PublishReaches == Spec => []Reached
  <1>1. ASSUME Inv, NEW p \in Publishers, pub[p].pc = "deliver"
        PROVE  /\ \A s \in pub[p].must \ leaving :
                    (GroupOf[s] = NoGroup /\ pub[p].subject \in {TopicOf[s]} \cup MatchesOf[s])
                    => Count(s, pub[p].snapshot) = 1
               /\ \A s \in Subs : Count(s, pub[p].snapshot) <= 1
    <2>1. TypeOK /\ SnapshotOf(p) /\ MustOf(p)
      BY <1>1 DEF Inv, SnapshotInv, MustInv
    <2>2. PICK sn \in Seq(Subs) : sn = pub[p].snapshot
      BY <2>1, PubFields
    <2>3. ASSUME NEW s
          PROVE  Count(s, sn) <= 1 /\ (s \in Range(sn) => Count(s, sn) = 1)
      <3> DEFINE at == {i \in DOMAIN sn : sn[i] = s}
      <3>1. \A i, j \in at : i = j
        BY <2>1, <2>2 DEF SnapshotOf, Unique
      <3>2. s \in Range(sn) => at # {}
        BY <2>2, SeqFacts
      <3> HIDE DEF at
      <3>3. Cardinality(at) <= 1 /\ (at # {} => Cardinality(at) = 1)
        BY <3>1, AtMostOne
      <3> QED
        BY <3>2, <3>3 DEF Count, at
    <2>4. \A s \in pub[p].must \ leaving :
             (GroupOf[s] = NoGroup /\ pub[p].subject \in {TopicOf[s]} \cup MatchesOf[s]) => s \in Range(sn)
      BY <1>1, <2>1, <2>2 DEF MustOf, Found
    <2> QED
      BY <2>2, <2>3, <2>4
  <1>2. Inv => Reached
    BY <1>1 DEF Reached
  <1> QED
    BY <1>2, SpecInv, PTL

\* ConsumerGroup: a publish picks one member of each group of its topic while one
\* stays, and never two, however members join and leave during the fan-out.
THEOREM GroupsServedOnce == Spec => []GroupServedOnce
  <1>1. ASSUME Inv, NEW p \in Publishers, pub[p].pc = "deliver",
               NEW g \in {GroupOf[s] : s \in Subs} \ {NoGroup},
               NEW of, of = {s \in Subs : GroupOf[s] = g /\ TopicOf[s] = pub[p].subject},
               NEW picks, picks = {i \in DOMAIN pub[p].snapshot : pub[p].snapshot[i] \in of}
        PROVE  /\ Cardinality(picks) <= 1
               /\ of \cap (pub[p].must \ leaving) # {} => picks # {}
    <2>1. TypeOK /\ SnapshotOf(p) /\ MustOf(p)
      BY <1>1 DEF Inv, SnapshotInv, MustInv
    <2>2. PICK sn \in Seq(Subs) : sn = pub[p].snapshot
      BY <2>1, PubFields
    <2>3. /\ Range(sn) \subseteq Subs /\ \A i \in DOMAIN sn : sn[i] \in Range(sn)
          /\ \A x \in Range(sn) : \E i \in DOMAIN sn : sn[i] = x
      BY SeqFacts
    <2>4. \A i, j \in picks : i = j
      <3> SUFFICES ASSUME NEW i \in picks, NEW j \in picks PROVE i = j
        OBVIOUS
      <3>1. i \in DOMAIN sn /\ j \in DOMAIN sn /\ GroupOf[sn[i]] = g /\ GroupOf[sn[j]] = g
        BY <1>1, <2>2
      <3>2. sn[i] = sn[j]
        BY <2>1, <2>2, <2>3, <3>1 DEF SnapshotOf
      <3> QED
        BY <2>1, <2>2, <3>1, <3>2 DEF SnapshotOf, Unique
    <2>5. ASSUME NEW s \in of, s \in pub[p].must, s \notin leaving PROVE picks # {}
      <3>1. GroupOf[s] = g /\ TopicOf[s] = pub[p].subject /\ g # NoGroup
        BY <1>1
      <3>2. pub[p].groups = {}
        BY <1>1, <2>1 DEF SnapshotOf
      <3>3. PICK r \in Range(sn) : GroupOf[r] = g
        BY <1>1, <2>1, <2>2, <2>5, <3>1, <3>2 DEF MustOf, Found
      <3>4. ~Wild(r) /\ r \in Subs
        BY <2>3, <3>1, <3>3, RegistryAssumption
      <3>5. TopicOf[r] = pub[p].subject
        BY <2>1, <2>2, <3>3, <3>4 DEF SnapshotOf
      <3> QED
        BY <1>1, <2>2, <2>3, <3>3, <3>4, <3>5
    <2> QED
      BY <2>4, <2>5, AtMostOne
  <1>2. Inv => GroupServedOnce
    BY <1>1 DEF GroupServedOnce
  <1> QED
    BY <1>2, SpecInv, PTL
=============================================================================
