------------------------------ MODULE Registry ------------------------------
(***************************************************************************)
(* Who is subscribed to what (core/src/lib.rs, Broker): a topic's           *)
(* subscribers, its consumer groups, the sharded map of subscriptions, the  *)
(* subscriptions of each connection and the list of wildcard patterns.      *)
(* Each has a lock of its own, and subscribe, unsubscribe_connection,       *)
(* unsubscribe_one and publish_inner take one after the other: an action is *)
(* what happens under one lock.                                             *)
(*                                                                         *)
(* A subscription is the call that makes it.  A push finds its consumer's  *)
(* buffer full or not; what the queues do is in SubscriberQueue.            *)
(* wildcard_subs_len is stored under the lock of wildcard_subs; a publisher *)
(* that loads an older value acts as one that came before the update.       *)
(* A Vec that is only walked or searched is the set of its elements, taken  *)
(* in any order; a group's members and a snapshot are sequences.            *)
(***************************************************************************)
EXTENDS Integers, Sequences, FiniteSets, SequencesExt, Maps

CONSTANTS
  Subs,        \* the subscribe calls
  ConnOf,      \* sub -> its connection, or NoConn (poll mode)
  TopicOf,     \* sub -> its topic; for a pattern, the pattern's own text
  GroupOf,     \* sub -> its consumer group, or NoGroup
  MatchesOf,   \* sub -> the subjects its wildcard pattern matches; {} if exact
  Publishers,  \* the publish calls
  Subjects,    \* what they publish to
  DropSlow,    \* slow_consumer_policy is DropSubscription
  NoConn, NoGroup, NoSub

Conns  == {ConnOf[s] : s \in Subs} \ {NoConn}
Topics == {TopicOf[s] : s \in Subs} \cup Subjects
Wild(s) == MatchesOf[s] # {}

\* A subject is no pattern: none is the synthetic topic of a wildcard.
ASSUME RegistryAssumption ==
  /\ IsFiniteSet(Subs) /\ DropSlow \in BOOLEAN
  /\ \A s \in Subs : /\ MatchesOf[s] \subseteq Subjects
                     /\ s # NoSub
                     /\ Wild(s) => TopicOf[s] \notin Subjects /\ GroupOf[s] = NoGroup

VARIABLES
  topics,           \* TopicShards: the topics that have a record
  subscribers,      \* topic -> Topic::subscribers
  consumer_groups,  \* topic -> (group -> ConsumerGroup::members)
  next_idx,         \* topic -> (group -> ConsumerGroup::next_idx)
  subscriptions,    \* SubscriptionShards
  connection_subs,  \* connection -> its subscriptions, {} when it has no entry
  wildcard_subs,
  call,             \* sub -> how far its subscribe call is
  closing,          \* connection -> unsubscribe_connection: pc, ids, removed
  pub,              \* publisher -> publish_inner: pc and locals, the id unsubscribe_one has
  leaving           \* history: the subscriptions whose removal has begun

vars == <<topics, subscribers, consumer_groups, next_idx, subscriptions,
          connection_subs, wildcard_subs, call, closing, pub, leaving>>

Init ==
  /\ topics = {}
  /\ subscribers = [t \in Topics |-> {}]
  /\ consumer_groups = [t \in Topics |-> NoKeys]
  /\ next_idx = [t \in Topics |-> NoKeys]
  /\ subscriptions = {}
  /\ connection_subs = [c \in Conns |-> {}]
  /\ wildcard_subs = {}
  /\ call = [s \in Subs |-> "idle"]
  /\ closing = [c \in Conns |-> [pc |-> "open", ids |-> {}, removed |-> {}]]
  /\ pub = [p \in Publishers |->
              [pc |-> "idle", subject |-> "", groups |-> {}, snapshot |-> <<>>,
               drops |-> {}, dropping |-> NoSub, must |-> {}]]
  /\ leaving = {}

\* unsubscribe_one keeps the lock of connection_subs until it returns.
ConnMapFree == \A p \in Publishers : pub[p].pc # "drop_pattern"

-----------------------------------------------------------------------------
(* subscribe_inner_grouped and subscribe_pattern.  A connection's reader   *)
(* task makes its calls one at a time, and only while it is open.          *)

Ready(s) ==
  /\ call[s] = "idle"
  /\ ConnOf[s] # NoConn =>
       /\ closing[ConnOf[s]].pc = "open"
       /\ \A r \in Subs : ConnOf[r] = ConnOf[s] => call[r] \in {"idle", "done"}

\* topics.get_or_insert
subscribe_topic(s) ==
  /\ Ready(s)
  /\ topics' = topics \cup {TopicOf[s]}
  /\ call' = [call EXCEPT ![s] = IF GroupOf[s] = NoGroup THEN "topic" ELSE "group"]
  /\ UNCHANGED <<subscribers, consumer_groups, next_idx, subscriptions,
                 connection_subs, wildcard_subs, closing, pub, leaving>>

\* groups.entry(g).or_insert_with
subscribe_group(s) ==
  /\ call[s] = "group"
  /\ LET t == TopicOf[s]
         g == GroupOf[s]
     IN IF g \in DOMAIN consumer_groups[t]
        THEN UNCHANGED <<consumer_groups, next_idx>>
        ELSE /\ consumer_groups' = [consumer_groups EXCEPT ![t] = Put(@, g, <<>>)]
             /\ next_idx' = [next_idx EXCEPT ![t] = Put(@, g, 0)]
  /\ call' = [call EXCEPT ![s] = "topic"]
  /\ UNCHANGED <<topics, subscribers, subscriptions, connection_subs, wildcard_subs,
                 closing, pub, leaving>>

\* subs.insert or members.push: from here on publishers see the subscriber.
subscribe_insert(s) ==
  /\ call[s] = "topic"
  /\ IF GroupOf[s] = NoGroup
     THEN /\ subscribers' = [subscribers EXCEPT ![TopicOf[s]] = @ \cup {s}]
          /\ UNCHANGED consumer_groups
     ELSE /\ consumer_groups' =
               [consumer_groups EXCEPT ![TopicOf[s]][GroupOf[s]] = Append(@, s)]
          /\ UNCHANGED subscribers
  /\ call' = [call EXCEPT ![s] = "inserted"]
  /\ UNCHANGED <<topics, next_idx, subscriptions, connection_subs, wildcard_subs,
                 closing, pub, leaving>>

\* shard.insert
subscribe_shard(s) ==
  /\ call[s] = "inserted"
  /\ subscriptions' = subscriptions \cup {s}
  /\ call' = [call EXCEPT ![s] = IF ConnOf[s] # NoConn THEN "sharded"
                                 ELSE IF Wild(s) THEN "tracked" ELSE "done"]
  /\ UNCHANGED <<topics, subscribers, consumer_groups, next_idx, connection_subs,
                 wildcard_subs, closing, pub, leaving>>

\* conn_map.entry(c).or_default().push
subscribe_track(s) ==
  /\ call[s] = "sharded" /\ ConnMapFree
  /\ connection_subs' = [connection_subs EXCEPT ![ConnOf[s]] = @ \cup {s}]
  /\ call' = [call EXCEPT ![s] = IF Wild(s) THEN "tracked" ELSE "done"]
  /\ UNCHANGED <<topics, subscribers, consumer_groups, next_idx, subscriptions,
                 wildcard_subs, closing, pub, leaving>>

\* wcs.push, by subscribe_pattern.
subscribe_pattern(s) ==
  /\ call[s] = "tracked"
  /\ wildcard_subs' = wildcard_subs \cup {s}
  /\ call' = [call EXCEPT ![s] = "done"]
  /\ UNCHANGED <<topics, subscribers, consumer_groups, next_idx, subscriptions,
                 connection_subs, closing, pub, leaving>>

-----------------------------------------------------------------------------
(* Removal.                                                                *)

\* members.retain(|m| m != s), where no id is twice.
Without(members, s) ==
  IF \E i \in DOMAIN members : members[i] = s
  THEN RemoveAt(members, CHOOSE i \in DOMAIN members : members[i] = s) ELSE members

\* From the topic's broadcast subscribers, or from the members of its group.
RemoveFromTopic(s) ==
  IF GroupOf[s] = NoGroup
  THEN /\ subscribers' = [subscribers EXCEPT ![TopicOf[s]] = @ \ {s}]
       /\ UNCHANGED consumer_groups
  ELSE /\ consumer_groups' = [consumer_groups EXCEPT ![TopicOf[s]][GroupOf[s]] = Without(@, s)]
       /\ UNCHANGED subscribers

\* unsubscribe_connection, after the connection's tasks have ended.
close_take(c) ==
  /\ closing[c].pc = "open" /\ ConnMapFree
  /\ \A s \in Subs : ConnOf[s] = c => call[s] \in {"idle", "done"}
  /\ closing' = [closing EXCEPT ![c].ids = connection_subs[c],
                                ![c].pc = IF connection_subs[c] = {} THEN "closed" ELSE "shards"]
  /\ connection_subs' = [connection_subs EXCEPT ![c] = {}]
  /\ leaving' = leaving \cup connection_subs[c]
  /\ UNCHANGED <<topics, subscribers, consumer_groups, next_idx, subscriptions,
                 wildcard_subs, call, pub>>

\* One id after the other; an id that is gone already is skipped.
close_shard(c, s) ==
  /\ closing[c].pc = "shards" /\ s \in closing[c].ids
  /\ LET rest == closing[c].ids \ {s}
         gone == closing[c].removed \cup ({s} \cap subscriptions)
     IN closing' = [closing EXCEPT ![c].removed = gone,
          ![c].ids = IF rest # {} THEN rest ELSE gone,
          ![c].pc = IF rest # {} THEN "shards"
                    ELSE IF gone = {} THEN "closed" ELSE "topics"]
  /\ subscriptions' = subscriptions \ {s}
  /\ UNCHANGED <<topics, subscribers, consumer_groups, next_idx, connection_subs,
                 wildcard_subs, call, pub, leaving>>

\* The removed ones leave their topics, one after the other ...
close_topic(c, s) ==
  /\ closing[c].pc = "topics" /\ s \in closing[c].ids
  /\ RemoveFromTopic(s)
  /\ closing' = [closing EXCEPT ![c].ids = @ \ {s},
       ![c].pc = IF closing[c].ids = {s} THEN "patterns" ELSE "topics"]
  /\ UNCHANGED <<topics, next_idx, subscriptions, connection_subs, wildcard_subs,
                 call, pub, leaving>>

\* Slip: exact and wildcard subscriptions end alike.
close_patternless(c) ==
  /\ closing[c].pc = "patterns"
  /\ closing' = [closing EXCEPT ![c].pc = "closed"]
  /\ UNCHANGED <<topics, subscribers, consumer_groups, next_idx, subscriptions,
                 connection_subs, wildcard_subs, call, pub, leaving>>

\* ... and the list of patterns.
close_patterns(c) ==
  /\ closing[c].pc = "patterns"
  /\ wildcard_subs' = wildcard_subs \ closing[c].removed
  /\ closing' = [closing EXCEPT ![c].pc = "closed"]
  /\ UNCHANGED <<topics, subscribers, consumer_groups, next_idx, subscriptions,
                 connection_subs, call, pub, leaving>>

-----------------------------------------------------------------------------
(* publish_inner.                                                          *)

\* The subscriptions that are complete and that nobody is removing.
Established == {s \in Subs : call[s] = "done"} \ leaving

\* The topic is looked up; one that has no record has only wildcard subscribers.
publish_resolve(p, subject) ==
  /\ pub[p].pc = "idle"
  /\ pub' = [pub EXCEPT ![p].subject = subject, ![p].must = Established,
                        ![p].pc = IF subject \in topics THEN "subscribers" ELSE "wildcards"]
  /\ UNCHANGED <<topics, subscribers, consumer_groups, next_idx, subscriptions,
                 connection_subs, wildcard_subs, call, closing, leaving>>

publish_subscribers(p) ==
  /\ pub[p].pc = "subscribers"
  /\ pub' = [pub EXCEPT ![p].snapshot = SetToSeq(subscribers[pub[p].subject]),
                        ![p].pc = "groups_snapshot"]
  /\ UNCHANGED <<topics, subscribers, consumer_groups, next_idx, subscriptions,
                 connection_subs, wildcard_subs, call, closing, leaving>>

publish_groups(p) ==
  /\ pub[p].pc = "groups_snapshot"
  /\ LET gs == DOMAIN consumer_groups[pub[p].subject]
     IN pub' = [pub EXCEPT ![p].groups = gs,
                           ![p].pc = IF gs = {} THEN "wildcards" ELSE "groups"]
  /\ UNCHANGED <<topics, subscribers, consumer_groups, next_idx, subscriptions,
                 connection_subs, wildcard_subs, call, closing, leaving>>

\* What a pick yields: the chosen members and the round-robin counter after it.
Pick(chosen, n) == [members |-> chosen, next_idx |-> n]

\* Slip: the key's member is added to the round-robin one.
PicksBoth(ms, n) ==
  {Pick(<<ms[i], ms[(n % Len(ms)) + 1]>>, n + 1) : i \in 1 .. Len(ms)}

\* One member: by the hash of the partition key, which may be any, or, without
\* a key, by the round-robin counter.
Picks(ms, n) ==
  {Pick(<<ms[i]>>, n) : i \in 1 .. Len(ms)} \cup {Pick(<<ms[(n % Len(ms)) + 1]>>, n + 1)}

publish_pick(p, g) ==
  /\ pub[p].pc = "groups" /\ g \in pub[p].groups
  /\ LET t  == pub[p].subject
         ms == consumer_groups[t][g]
         after(seq) == [pub EXCEPT ![p].groups = @ \ {g}, ![p].snapshot = @ \o seq,
                          ![p].pc = IF pub[p].groups = {g} THEN "wildcards" ELSE "groups"]
     IN \/ /\ ms = <<>>
           /\ pub' = after(<<>>)
           /\ UNCHANGED next_idx
        \/ /\ ms # <<>>
           /\ \E pick \in Picks(ms, next_idx[t][g]) :
                /\ pub' = after(pick.members)
                /\ next_idx' = [next_idx EXCEPT ![t][g] = pick.next_idx]
  /\ UNCHANGED <<topics, subscribers, consumer_groups, subscriptions,
                 connection_subs, wildcard_subs, call, closing, leaving>>

\* Slip: exact subscribers alone, when the topic has any.
SkipIfExact(subject) == IF subscribers[subject] # {} THEN {}
                        ELSE {s \in wildcard_subs : subject \in MatchesOf[s]}

\* The patterns that match and still have their subscription.
Matching(subject) == {s \in wildcard_subs \cap subscriptions : subject \in MatchesOf[s]}

publish_wildcards(p) ==
  /\ pub[p].pc = "wildcards"
  /\ pub' = [pub EXCEPT ![p].snapshot = @ \o SetToSeq(Matching(pub[p].subject)),
                        ![p].pc = "deliver"]
  /\ UNCHANGED <<topics, subscribers, consumer_groups, next_idx, subscriptions,
                 connection_subs, wildcard_subs, call, closing, leaving>>

\* The fan-out loop: any push consumer may be found slow.
publish_deliver(p) ==
  /\ pub[p].pc = "deliver"
  /\ LET pushed(s) == ConnOf[s] # NoConn
     IN \E slow \in SUBSET {s \in ToSet(pub[p].snapshot) : DropSlow /\ pushed(s)} :
          pub' = [pub EXCEPT ![p].drops = slow,
                             ![p].snapshot = <<>>,
                             ![p].pc = IF slow = {} THEN "done" ELSE "drop_shard"]
  /\ UNCHANGED <<topics, subscribers, consumer_groups, next_idx, subscriptions,
                 connection_subs, wildcard_subs, call, closing, leaving>>

\* The loop over the slow consumers goes on, or publish_inner returns.
NextDrop(rest) == IF rest = {} THEN "done" ELSE "drop_shard"

\* unsubscribe_one: who takes the subscription out of its shard does the rest.
drop_shard(p, s) ==
  /\ pub[p].pc = "drop_shard" /\ s \in pub[p].drops
  /\ LET rest == pub[p].drops \ {s}
     IN IF s \in subscriptions
        THEN /\ subscriptions' = subscriptions \ {s}
             /\ leaving' = leaving \cup {s}
             /\ pub' = [pub EXCEPT ![p].drops = rest, ![p].dropping = s, ![p].pc = "drop_topic"]
        ELSE /\ pub' = [pub EXCEPT ![p].drops = rest, ![p].pc = NextDrop(rest)]
             /\ UNCHANGED <<subscriptions, leaving>>
  /\ UNCHANGED <<topics, subscribers, consumer_groups, next_idx, connection_subs,
                 wildcard_subs, call, closing>>

drop_topic(p) ==
  /\ pub[p].pc = "drop_topic"
  /\ RemoveFromTopic(pub[p].dropping)
  /\ pub' = [pub EXCEPT ![p].pc = "drop_conn"]
  /\ UNCHANGED <<topics, next_idx, subscriptions, connection_subs, wildcard_subs,
                 call, closing, leaving>>

drop_conn(p) ==
  /\ pub[p].pc = "drop_conn" /\ ConnMapFree
  /\ connection_subs' = [c \in Conns |-> connection_subs[c] \ {pub[p].dropping}]
  /\ pub' = [pub EXCEPT ![p].pc = "drop_pattern"]
  /\ UNCHANGED <<topics, subscribers, consumer_groups, next_idx, subscriptions,
                 wildcard_subs, call, closing, leaving>>

drop_pattern(p) ==
  /\ pub[p].pc = "drop_pattern"
  /\ wildcard_subs' = wildcard_subs \ {pub[p].dropping}
  /\ pub' = [pub EXCEPT ![p].dropping = NoSub, ![p].pc = NextDrop(pub[p].drops)]
  /\ UNCHANGED <<topics, subscribers, consumer_groups, next_idx, subscriptions,
                 connection_subs, call, closing, leaving>>

-----------------------------------------------------------------------------

Next ==
  \/ \E s \in Subs : \/ subscribe_topic(s) \/ subscribe_group(s) \/ subscribe_insert(s)
                     \/ subscribe_shard(s) \/ subscribe_track(s) \/ subscribe_pattern(s)
  \/ \E c \in Conns : close_take(c) \/ close_patterns(c)
  \/ \E c \in Conns : \E s \in closing[c].ids : close_shard(c, s) \/ close_topic(c, s)
  \/ \E p \in Publishers, t \in Subjects : publish_resolve(p, t)
  \/ \E p \in Publishers : \/ publish_subscribers(p) \/ publish_groups(p)
                           \/ publish_wildcards(p) \/ publish_deliver(p)
                           \/ drop_topic(p) \/ drop_conn(p) \/ drop_pattern(p)
  \/ \E p \in Publishers : \E s \in pub[p].drops : drop_shard(p, s)
  \/ \E p \in Publishers : \E g \in pub[p].groups : publish_pick(p, g)

Spec == Init /\ [][Next]_vars

-----------------------------------------------------------------------------
(* Properties.                                                             *)

InGroups(s) == \E t \in Topics : \E g \in DOMAIN consumer_groups[t] :
                 s \in ToSet(consumer_groups[t][g])

Groups   == {GroupOf[s] : s \in Subs}
CallPc   == {"idle", "group", "topic", "inserted", "sharded", "tracked", "done"}
Closings == [pc : {"open", "shards", "topics", "patterns", "closed"},
             ids : SUBSET Subs, removed : SUBSET Subs]
Pubs     == [pc : {"idle", "subscribers", "groups_snapshot", "groups", "wildcards", "deliver",
                   "drop_shard", "drop_topic", "drop_conn", "drop_pattern", "done"},
             subject : Subjects \cup {""}, groups : SUBSET Groups, snapshot : Seq(Subs),
             drops : SUBSET Subs, dropping : Subs \cup {NoSub}, must : SUBSET Subs]

\* A topic with subscribers or groups has its record, where publishers look it up.
TopicType ==
  /\ subscribers \in [Topics -> SUBSET Subs]
  /\ DOMAIN consumer_groups = Topics /\ DOMAIN next_idx = Topics
  /\ \A t \in Topics :
       /\ subscribers[t] # {} \/ DOMAIN consumer_groups[t] # {} => t \in topics
       /\ DOMAIN consumer_groups[t] \subseteq Groups
       /\ consumer_groups[t] \in [DOMAIN consumer_groups[t] -> Seq(Subs)]
       /\ next_idx[t] \in [DOMAIN consumer_groups[t] -> Nat]

TypeOK ==
  /\ topics \subseteq Topics /\ TopicType
  /\ subscriptions \subseteq Subs /\ wildcard_subs \subseteq Subs /\ leaving \subseteq Subs
  /\ connection_subs \in [Conns -> SUBSET Subs]
  /\ call \in [Subs -> CallPc] /\ closing \in [Conns -> Closings]
  /\ pub \in [Publishers -> Pubs]

\* Someone is between the first and the last lock of s's removal.
Removing(s) ==
  \/ \E c \in Conns : s \in closing[c].removed /\ closing[c].pc # "closed"
  \/ \E p \in Publishers : pub[p].dropping = s

\* unsubscribe_connection: "so that we don't leak subscriber state".  When the
\* connection is closed and no publisher is half-way through dropping one of its
\* subscriptions, no map and no list holds one, whichever of the two removals
\* came first and however they met.
NoResidue ==
  \A s \in Subs :
    (/\ ConnOf[s] # NoConn /\ closing[ConnOf[s]].pc = "closed"
     /\ ~Removing(s))
    => /\ s \notin subscriptions \cup wildcard_subs \cup subscribers[TopicOf[s]]
       /\ ~InGroups(s)
       /\ s \notin connection_subs[ConnOf[s]]

Count(s, seq) == Cardinality({i \in DOMAIN seq : seq[i] = s})

\* A publish that begins after a subscription was complete finds the subscriber,
\* by its topic or by its pattern, and delivers to it once, unless its removal
\* begins meanwhile; nobody else's subscribe, close or drop gets in the way.
Reached ==
  \A p \in Publishers : pub[p].pc = "deliver" =>
    /\ \A s \in pub[p].must \ leaving :
         (GroupOf[s] = NoGroup /\ pub[p].subject \in {TopicOf[s]} \cup MatchesOf[s])
         => Count(s, pub[p].snapshot) = 1
    /\ \A s \in Subs : Count(s, pub[p].snapshot) <= 1

\* ConsumerGroup: "a publish goes to exactly one member of each group", as long
\* as one member stays; members that come and go do not make it none or two.
GroupServedOnce ==
  \A p \in Publishers : pub[p].pc = "deliver" =>
    \A g \in {GroupOf[s] : s \in Subs} \ {NoGroup} :
      LET of    == {s \in Subs : GroupOf[s] = g /\ TopicOf[s] = pub[p].subject}
          picks == {i \in DOMAIN pub[p].snapshot : pub[p].snapshot[i] \in of}
      IN /\ Cardinality(picks) <= 1
         /\ of \cap (pub[p].must \ leaving) # {} => picks # {}
=============================================================================
