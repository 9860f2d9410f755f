------------------------------ MODULE EventLog ------------------------------
(***************************************************************************)
(* The events of one session, as LocalSessionEventStore reads them back:   *)
(* what a line of the JSONL file holds, how the branch heads and the       *)
(* active branch are projected from the lines, and which new line          *)
(* _rebuild_projection accepts after them.                                 *)
(*                                                                         *)
(* A log is a finite set of lines.  Every line carries its own seq, so the *)
(* order in the file is the order of seq, and a line lost from the middle  *)
(* shows as a hole in the numbers.  Payloads are abstracted to what the    *)
(* log itself reads of them: the identity of the event (its idempotency    *)
(* key) and, for the two branch events, the branch they name.              *)
(***************************************************************************)
EXTENDS Naturals, FiniteSets

CONSTANTS
  Key,      \* idempotency keys of the ordinary events
  Main,     \* the main branch declared by session/header
  Fork      \* branch ids that branch/created may introduce

Branch == {Main} \cup Fork

Kinds == {"header", "plain", "created", "activated"}

\* What a caller hands to append: the event and the parent it expects.
OpType == [kind   : Kinds,
           name   : Key \cup Branch,
           fork   : Nat,
           branch : Branch,
           parent : Nat]

\* A line of a session file: an accepted event, its number, its partition.
LineType == [kind   : Kinds,
             name   : Key \cup Branch,
             fork   : Nat,
             branch : Branch,
             parent : Nat,
             seq    : Nat,
             part   : Nat]

\* The idempotency key: the scope (the kind) with the key object.
KeyOf(e) == <<e.kind, e.name, e.fork>>

LineOf(o, n, q) ==
  [kind |-> o.kind, name |-> o.name, fork |-> o.fork, branch |-> o.branch,
   parent |-> o.parent, seq |-> n, part |-> q]

Seqs(D) == {e.seq : e \in D}

\* The numbers the reader expects line after line: 1, 2, 3, ...
Contiguous(D) == Seqs(D) = 1 .. Cardinality(D)

\* branch_heads[b] = h: the last line of b, or the fork point of a branch that
\* has no line of its own yet.
IsHead(D, b, h) ==
  \/ \E e \in D : /\ e.branch = b
                  /\ e.seq = h
                  /\ \A f \in D : f.branch = b => f.seq <= h
  \/ /\ \A f \in D : f.branch # b
     /\ \E e \in D : e.kind = "created" /\ e.name = b /\ e.fork = h

\* b in branch_heads
Known(D, b) == \E e \in D : \/ e.branch = b
                            \/ e.kind = "created" /\ e.name = b

\* active_branch_id: the branch of the last branch/activated, else the main one.
IsActive(D, b) ==
  \/ \E e \in D : /\ e.kind = "activated" /\ e.branch = b
                  /\ \A f \in D : f.kind = "activated" => f.seq <= e.seq
  \/ /\ b = Main
     /\ \A f \in D : f.kind # "activated"

\* Mutant of Duplicate: the idempotency index is kept per branch.
DuplicateOnBranch(D, o) == \E e \in D : e.branch = o.branch /\ KeyOf(e) = KeyOf(o)

\* The key is in the idempotency index of the session.
Duplicate(D, o) == \E e \in D : KeyOf(e) = KeyOf(o)

\* Mutant of Acceptable: any event of the session may be the expected parent.
AcceptableStale(D, o) ==
  IF o.kind = "header"
  THEN D = {}
  ELSE /\ Known(D, o.branch) /\ o.parent \in Seqs(D)
       /\ o.kind = "created" => ~Known(D, o.name) /\ o.fork \in Seqs(D)
       /\ o.kind = "activated" => o.name = o.branch

\* append's checks after deduplication, with _validate_candidate's checks of the
\* branch events; false is an InvariantViolation or a ParentConflict.
Acceptable(D, o) ==
  IF o.kind = "header"
  THEN D = {}
  ELSE /\ IsHead(D, o.branch, o.parent)
       /\ o.kind = "created" => ~Known(D, o.name) /\ o.fork \in Seqs(D)
       /\ o.kind = "activated" => o.name = o.branch
=============================================================================
