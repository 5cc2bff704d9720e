---------------------------- MODULE SubjectPattern ----------------------------
(***************************************************************************)
(* Subject patterns (core/src/lib.rs, SubjectPattern).  A subject and the   *)
(* source of a pattern are the sequences of tokens that split('.') makes of *)
(* them, with "" for an empty token.                                        *)
(***************************************************************************)
EXTENDS Naturals, Sequences, SequencesExt

CONSTANTS
  Words,        \* tokens other than "*", ">" and ""
  MaxTokens     \* bound: tokens of a subject or a pattern

ASSUME PatternAssumption == Words \cap {"*", ">", ""} = {} /\ MaxTokens \in Nat

\* parse: a pattern, or none if the source has an empty token or a tail wildcard
\* before its end.  The tail is no segment.
Parses(source) ==
  \A i \in DOMAIN source : source[i] # "" /\ (source[i] = ">" => i = Len(source))
parse(source) ==
  [segments |-> SelectSeq(source, LAMBDA t : t # ">"), has_tail |-> Last(source) = ">"]

is_exact(p) == ~p.has_tail /\ \A i \in DOMAIN p.segments : p.segments[i] # "*"

SegmentMatches(segment, token) == IF segment = "*" THEN token # "" ELSE segment = token

matches(p, subject) ==
  /\ IF p.has_tail THEN Len(subject) > Len(p.segments) ELSE Len(subject) = Len(p.segments)
  /\ \A i \in DOMAIN p.segments : SegmentMatches(p.segments[i], subject[i])

exact_subject_from_pattern(p) == p.segments

-----------------------------------------------------------------------------

Tokenized(tokens) == UNION {[1 .. n -> tokens] : n \in 1 .. MaxTokens}
AllSubjects   == Tokenized(Words \cup {""})
ValidSubjects == Tokenized(Words)
Sources       == Tokenized(Words \cup {"", "*", ">"})

\* "`*` matches a single token; `>` matches one or more remaining tokens": the
\* subjects a pattern stands for, by writing its tail out.
Stands(source, subject) ==
  \E n \in 1 .. MaxTokens :
    LET full == IF Last(source) = ">" THEN Front(source) \o [i \in 1 .. n |-> "*"] ELSE source
    IN /\ Len(full) = Len(subject)
       /\ \A i \in DOMAIN full : full[i] = "*" \/ full[i] = subject[i]

\* Matching by segments agrees with the meaning of the pattern on every subject
\* without empty tokens; and an exact pattern, which is put into the topic map
\* and never matched, would match its topic and nothing else.  TLC evaluates
\* this for every source and subject of up to MaxTokens tokens.
ASSUME MatchesReference ==
  \A source \in Sources : Parses(source) =>
    /\ \A subject \in ValidSubjects :
         matches(parse(source), subject) <=> Stands(source, subject)
    /\ is_exact(parse(source)) =>
         {s \in AllSubjects : matches(parse(source), s)} =
           {exact_subject_from_pattern(parse(source))}
=============================================================================
