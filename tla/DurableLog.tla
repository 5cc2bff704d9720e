----------------------------- MODULE DurableLog -----------------------------
(***************************************************************************)
(* What the write-ahead log promises its callers, with no channel, batch,  *)
(* segment, index or compactor: the life of each record.                   *)
(*                                                                         *)
(*   new -> queued -> written -> synced -> deleted                         *)
(*                                                                         *)
(* A record that is not synced may be dropped, by a full channel, a writer *)
(* that stops or a crash; one that is synced leaves the log only when its  *)
(* segment is deleted.  A durable append is answered Ok by the sync that   *)
(* finds its record written, and by nothing else.                          *)
(***************************************************************************)

CONSTANTS
  Records,  \* the calls of append and append_durable
  Durable   \* those of append_durable

VARIABLES
  life,     \* record -> where it is in its life
  answer    \* record -> what its caller was told: "none", "ok" or "err"

logVars == <<life, answer>>

In(p)   == {r \in Records : life[r] = p}
Waiting == {r \in Records \ In("new") : answer[r] = "none"}

\* The records of S go to p; the callers of T are told what.
Move(S, p)    == [r \in Records |-> IF r \in S THEN p ELSE life[r]]
Tell(T, what) == [r \in Records |-> IF r \in T THEN what ELSE answer[r]]

LogInit ==
  /\ life = [r \in Records |-> "new"]
  /\ answer = [r \in Records |-> "none"]

\* append returns as soon as the record is queued; append_durable waits.
Queue(r) ==
  /\ life' = Move({r}, "queued")
  /\ answer' = Tell({r} \ Durable, "ok")

\* The channel is full or the writer is gone.
Refuse(r) ==
  /\ life' = Move({r}, "dropped")
  /\ answer' = Tell({r}, "err")

\* A batch S of queued records goes to the active segment, or to a file that was deleted.
Write(S, p) ==
  /\ life' = Move(S, p)
  /\ UNCHANGED answer

\* A sync covers everything written so far, in whichever segment, and every
\* durable append whose record was written is answered.
Sync ==
  /\ life' = Move(In("written"), "synced")
  /\ answer' = Tell(Waiting \cap (In("written") \cup In("synced") \cup In("deleted")), "ok")

\* A segment is deleted, with its records S.
Delete(S) ==
  /\ life' = Move(S, "deleted")
  /\ UNCHANGED answer

\* The writer stops: what was not written never will be, and everyone is told.
Stop ==
  /\ life' = Move(In("queued"), "dropped")
  /\ answer' = Tell(Waiting, "err")

\* A crash keeps what was synced and some of what was written.  The callers that
\* wait, and callers R that were about to queue, get no Ok.
Crash(kept, R) ==
  /\ life' = [r \in Records |->
                IF r \in kept THEN "synced"
                ELSE IF r \in In("queued") \cup In("written") \cup R THEN "dropped" ELSE life[r]]
  /\ answer' = Tell(Waiting \cup R, "err")

LogNext ==
  \/ \E S \in SUBSET In("queued"), p \in {"written", "deleted"} : Write(S, p)
  \/ Sync
  \/ \E S \in SUBSET (In("written") \cup In("synced")) : Delete(S)
  \/ \E r \in In("new") : Queue(r) \/ Refuse(r)
  \/ Stop
  \/ \E kept \in SUBSET In("written"), R \in SUBSET In("new") : Crash(kept, R)

LogSpec == LogInit /\ [][LogNext]_logVars
=============================================================================
