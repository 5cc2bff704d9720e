----------------------------- MODULE MCRegistry -----------------------------
(***************************************************************************)
(* Registry with two connections.  Connection 1 has a broadcast and a      *)
(* grouped subscription, connection 2 a grouped and a wildcard one, whose  *)
(* matches are those of SubjectPattern.                                    *)
(***************************************************************************)
EXTENDS Registry, SubjectPattern

MCConnOf    == [a |-> 1, b |-> 1, c |-> 2, w |-> 2]
MCTopicOf   == [a |-> "t", b |-> "t", c |-> "t", w |-> "*"]
MCGroupOf   == [a |-> "none", b |-> "g", c |-> "g", w |-> "none"]
MCMatchesOf ==
  [s \in Subs |-> {t \in Subjects : /\ ~is_exact(parse(<<MCTopicOf[s]>>))
                                    /\ matches(parse(<<MCTopicOf[s]>>), <<t>>)}]
=============================================================================
