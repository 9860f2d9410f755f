----------------------------- MODULE DurableLog -----------------------------
(***************************************************************************)
(* What the event store promises, without files, locks or processes: a     *)
(* session is a log that events enter atomically, each key once and each   *)
(* behind the head of its branch; an event that was promised stays, an     *)
(* event that was not may be forgotten.                                    *)
(***************************************************************************)
EXTENDS EventLog

VARIABLES
  entries,   \* the events of the session
  promised   \* the events whose commit was confirmed to a caller

vars == <<entries, promised>>

Init == entries = {} /\ promised = {}

\* An event enters, with the next number, behind the head its caller had seen.
Enter ==
  /\ \E e \in entries' :
       /\ entries' = entries \cup {e}
       /\ e.seq \notin Seqs(entries) /\ Seqs(entries') = 1 .. e.seq
       /\ ~Duplicate(entries, e)
       /\ Acceptable(entries, e)
  /\ UNCHANGED promised

\* The commit of events that are in the log is confirmed.
Promise ==
  /\ promised \subseteq promised'
  /\ promised' \subseteq promised \cup entries
  /\ UNCHANGED entries

\* A fault takes events nobody was promised.
Forget ==
  /\ entries' \subseteq entries
  /\ promised \cap entries \subseteq entries'
  /\ UNCHANGED promised

Next == Enter \/ Promise \/ Forget

Spec == Init /\ [][Next]_vars
=============================================================================
