---------------------------- MODULE ProfileStore ----------------------------
(***************************************************************************)
(* The preference profile of a conversation.  Facts are appended to a file *)
(* and never changed; the profile is the payload of the latest one, read   *)
(* back by its time stamp.  An update of the model's tool reads the        *)
(* profile, merges what it was told, reads it again, overwrites the fields *)
(* that are not at their default, and appends the result.  The turn guard  *)
(* keeps the updates of one conversation apart.                            *)
(*                                                                         *)
(* A profile is a style, one of the scalar fields, and a set of symbols,   *)
(* one of the lists.  The tool takes any value; the profile class does not *)
(* check assignments, but refuses an unknown style when it is read back.   *)
(***************************************************************************)
EXTENDS Integers, Sequences

CONSTANTS
  Style,      \* the styles that the profile class knows
  Foreign,    \* other values that the model may pass as a style
  Unknown,    \* the default style
  Symbol,     \* favourite symbols
  MaxSeconds, \* bound: time
  MaxFacts    \* bound: facts

VARIABLES
  now,   \* the second
  facts, \* the lines of the file
  told   \* history: the profile that the last update returned to the model

vars == <<now, facts, told>>

Profile == [style : Style \cup Foreign \cup {Unknown}, symbols : SUBSET Symbol]
Default == [style |-> Unknown, symbols |-> {}]

TypeOK == /\ now \in 0 .. MaxSeconds /\ told \in Profile
          /\ facts \in Seq([time : 0 .. MaxSeconds, payload : Profile])
Init == now = 0 /\ facts = <<>> /\ told = Default

\* Facts are sorted by time, latest first; the sort keeps the order of the file
\* among those of one second.

\* Mutant of Latest: the sort is not reversed.
LatestFirst == CHOOSE n \in DOMAIN facts :
                 \A k \in DOMAIN facts : \/ facts[n].time < facts[k].time
                                         \/ facts[k].time = facts[n].time /\ n <= k
Latest == CHOOSE n \in DOMAIN facts :
            \A k \in DOMAIN facts : \/ facts[k].time < facts[n].time
                                    \/ facts[k].time = facts[n].time /\ n <= k

\* A payload that the class refuses reads as the default profile.
Stored == IF facts = <<>> THEN Default
          ELSE LET p == facts[Latest].payload IN IF p.style \in Foreign THEN Default ELSE p

Merged(p, style, symbols) == [style |-> style, symbols |-> p.symbols \cup symbols]
Overwritten(old, new) ==
  [style |-> IF new.style = Unknown THEN old.style ELSE new.style,
   symbols |-> IF new.symbols = {} THEN old.symbols ELSE new.symbols]

\* DefaultMemoryAPI.update_user_profile: without a change no fact is written.
Save(profile) == LET after == Overwritten(Stored, profile) IN
  /\ told' = after
  /\ facts' = IF after = Stored THEN facts ELSE Append(facts, [time |-> now, payload |-> after])

\* The model's tool: a field that it does not mention keeps its value.
Update == \E style \in Style \cup Foreign \cup {Unknown, Stored.style}, symbols \in SUBSET Symbol :
  Len(facts) < MaxFacts /\ Save(Merged(Stored, style, symbols)) /\ UNCHANGED now
Tick == now < MaxSeconds /\ now' = now + 1 /\ UNCHANGED <<facts, told>>

Next == Update \/ Tick
Spec == Init /\ [][Next]_vars

-----------------------------------------------------------------------------
(* Properties *)

\* As long as no two updates fall into one second and no unknown value was
\* passed, a later read returns what the last update returned: nothing that
\* was told before is lost by merging, overwriting and storing it again.
Steady == /\ \A n, k \in DOMAIN facts : facts[n].time = facts[k].time => n = k
          /\ \A n \in DOMAIN facts : facts[n].payload.style \notin Foreign
ReadsLastSteady == Steady /\ facts # <<>> => Stored = told

\* What the last update returned is what a later read returns.
ReadsLast == facts # <<>> => Stored = told
=============================================================================
