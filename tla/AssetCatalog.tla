---------------------------- MODULE AssetCatalog ----------------------------
(***************************************************************************)
(* Naming the asset a user means.  A query is looked up in the catalogue,  *)
(* a file of assets and their aliases behind a cache of the process.  What *)
(* the catalogue does not know is discovered by a model and validated by   *)
(* the market feed, and a single convincing candidate is written to the    *)
(* file, with the query as an alias.                                       *)
(*                                                                         *)
(* Conversations run in threads.  Nothing locks the file: it is read,      *)
(* truncated and written, and the cache is filled with what was read       *)
(* before.  An unreadable file counts as an empty one.                     *)
(*                                                                         *)
(* A catalogue is the set of pairs of an asset and an alias of it, as the  *)
(* file keeps them.  A query is compared with an alias in a normal form of *)
(* Latin letters, digits and Chinese characters, and an alias whose normal *)
(* form has fewer than two of them is not searched.  Legible queries of    *)
(* one normal form are one query here.                                     *)
(***************************************************************************)
EXTENDS Integers, FiniteSets

CONSTANTS
  Asset,      \* assets
  Query,      \* what users ask for
  Legible,    \* of those, the ones whose normal form has two characters or more
  Names,      \* the pairs of an asset and a query that is one of its names
  Symbols,    \* of those, the ones whose query is the asset's symbol, as typed or
              \* in normal form
  Worker,     \* conversations that resolve at the same time
  MaxQueries, \* bound: queries
  MaxFaults   \* bound: deaths of the process

VARIABLES
  file,    \* the catalogue in the file
  whole,   \* the file is readable
  cache,   \* the cached catalogue, at most one
  pc, job, \* where each worker is, and its local variables
  queries, \* queries so far
  faults,  \* deaths so far
  learned, \* history: queries that registered an asset
  said,    \* history: the last asset a worker answered, and what was learned
           \* before it was asked
  spoilt   \* history: a registration overlapped another one or a fill of the
           \* cache, or a death cut the writing of the file short

vars == <<file, whole, cache, pc, job, queries, faults, learned, said, spoilt>>

Catalogs == SUBSET (Asset \X Query)
Writing == {"truncate", "write", "clear"}
Places == {"idle", "look", "store", "exact", "alias", "confirm", "discover", "register"}
            \cup Writing

\* then: where to go with a catalogue; cat: the one looked up first; got: the
\* one in hand; hit: the assets in question.
JobType == [query : Query, then : {"exact", "confirm"}, cat : Catalogs,
            got : Catalogs, hit : SUBSET Asset, known : Catalogs]
NoJob == [query |-> CHOOSE q \in Query : TRUE, then |-> "exact",
          cat |-> {}, got |-> {}, hit |-> {}, known |-> {}]
Nothing == [asset |-> {}, query |-> NoJob.query, known |-> {}]

TypeOK ==
  /\ file \in Catalogs /\ whole \in BOOLEAN /\ cache \subseteq Catalogs
  /\ Cardinality(cache) <= 1
  /\ pc \in [Worker -> Places] /\ job \in [Worker -> JobType]
  /\ queries \in 0 .. MaxQueries /\ faults \in 0 .. MaxFaults /\ learned \in Catalogs
  /\ said \in [asset : SUBSET Asset, query : Query, known : Catalogs] /\ spoilt \in BOOLEAN

Init ==
  /\ \E S \in SUBSET Asset : file = {p \in Names : p[1] \in S}
  /\ whole = TRUE /\ cache = {} /\ pc = [w \in Worker |-> "idle"]
  /\ job = [w \in Worker |-> NoJob] /\ queries = 0 /\ faults = 0
  /\ learned = {} /\ said = Nothing /\ spoilt = FALSE

Readable == IF whole THEN file ELSE {}
Lists(c, a) == \E p \in c : p[1] = a

\* A worker goes to a place; two that overlap there spoil the file or the cache.
Overlap(places) == \E v \in Worker : /\ places[v] \in Writing
                                     /\ \E w \in Worker \ {v} : places[w] \in Writing \cup {"store"}
Goto(w, place) ==
  /\ pc' = [pc EXCEPT ![w] = place] /\ spoilt' = (spoilt \/ Overlap(pc'))
With(w, j) == job' = [job EXCEPT ![w] = j]
Leave(w) == Goto(w, "idle") /\ With(w, NoJob)
Tell(w, a) == said' = [asset |-> {a}, query |-> job[w].query, known |-> job[w].known]

-----------------------------------------------------------------------------
(* get_asset_catalog: the cached catalogue, or else the file's, which then is *)
(* cached                                                                     *)

Ask(w) == \E q \in Query :
  /\ pc[w] = "idle" /\ queries < MaxQueries /\ queries' = queries + 1
  /\ Goto(w, "look") /\ With(w, [NoJob EXCEPT !.query = q, !.known = learned])
  /\ UNCHANGED <<file, whole, cache, faults, learned, said>>

Look(w) ==
  /\ pc[w] = "look" /\ UNCHANGED <<file, whole, cache, queries, faults, learned, said>>
  /\ \/ \E c \in cache : With(w, [job[w] EXCEPT !.got = c]) /\ Goto(w, job[w].then)
     \/ cache = {} /\ With(w, [job[w] EXCEPT !.got = Readable]) /\ Goto(w, "store")
Fill(w) ==
  /\ pc[w] = "store" /\ cache' = {job[w].got} /\ Goto(w, job[w].then)
  /\ UNCHANGED <<file, whole, job, queries, faults, learned, said>>

-----------------------------------------------------------------------------
(* _resolve_market_symbol_internal *)

\* The assets of a catalogue whose symbol a query is.
Exactly(c, q) == {a \in Asset : Lists(c, a) /\ <<a, q>> \in Symbols}

\* A symbol as it was typed names its asset; otherwise, also when only its normal
\* form is one, the text is searched.
Exact(w) == LET j == job[w] IN
  /\ pc[w] = "exact"
  /\ \/ \E a \in Exactly(j.got, j.query) : Tell(w, a) /\ Leave(w)
     \/ With(w, [j EXCEPT !.cat = j.got]) /\ Goto(w, "alias") /\ UNCHANGED said
  /\ UNCHANGED <<file, whole, cache, queries, faults, learned>>

\* resolve_symbols_from_text: the asset whose symbol the text is, or else those
\* with such an alias; nothing finds a text of no legible character.
Found(c, q) ==
  IF Exactly(c, q) # {} THEN Exactly(c, q)
  ELSE {a \in Asset : <<a, q>> \in c /\ q \in Legible}

\* One asset that the query finds is looked up once more, several are for the
\* user to choose from, and without any the model is asked.

\* Mutant of Alias: the best of several is taken.
AliasBest(w) == LET j == job[w]  hits == Found(j.cat, j.query) IN
  /\ pc[w] = "alias"
  /\ \/ \E a \in hits : With(w, [j EXCEPT !.hit = {a}, !.then = "confirm"]) /\ Goto(w, "look")
     \/ hits = {} /\ Goto(w, "discover") /\ UNCHANGED job
  /\ UNCHANGED <<file, whole, cache, queries, faults, learned, said>>
Alias(w) == LET j == job[w]  hits == Found(j.cat, j.query) IN
  /\ pc[w] = "alias"
  /\ \/ /\ Cardinality(hits) = 1 /\ Goto(w, "look")
        /\ With(w, [j EXCEPT !.hit = hits, !.then = "confirm"])
     \/ Cardinality(hits) > 1 /\ Leave(w)
     \/ hits = {} /\ Goto(w, "discover") /\ UNCHANGED job
  /\ UNCHANGED <<file, whole, cache, queries, faults, learned, said>>

Confirm(w) == \E a \in job[w].hit :
  /\ pc[w] = "confirm"
  /\ IF Lists(job[w].got, a) THEN Tell(w, a) /\ Leave(w)
     ELSE Goto(w, "discover") /\ UNCHANGED <<job, said>>
  /\ UNCHANGED <<file, whole, cache, queries, faults, learned>>

\* discover_asset_candidates: up to three assets; none if the model fails or its
\* answer cannot be read.
Candidates == {C \in SUBSET Asset : Cardinality(C) <= 3}

\* _validate_discovered_candidate: the feed knows some of them, now.
Validated(C) == SUBSET C

\* _is_semantically_consistent, and the confidence: the model's names fit the
\* query and the model is sure, or not.
Convincing == BOOLEAN

\* No candidate, several, or one that is not convincing: the user is asked.  A
\* convincing one is the answer; it is registered unless the caller declined.
Discover(w) == \E C \in Candidates : \E V \in Validated(C), sure \in Convincing :
  /\ pc[w] = "discover"
  /\ \/ (Cardinality(V) # 1 \/ ~sure) /\ Leave(w) /\ UNCHANGED said
     \/ Cardinality(V) = 1 /\ sure /\ (\E a \in V : Tell(w, a)) /\ Leave(w)
     \/ /\ Cardinality(V) = 1 /\ sure /\ UNCHANGED said
        /\ With(w, [job[w] EXCEPT !.hit = V]) /\ Goto(w, "register")
  /\ UNCHANGED <<file, whole, cache, queries, faults, learned>>

-----------------------------------------------------------------------------
(* register_discovered_asset *)

\* The file is read; an asset it lists already gets no new alias.  A new one is
\* added with its names, the aliases B of the model and the query as an alias,
\* whether they can be searched or not.
Register(w) == \E a \in job[w].hit, B \in SUBSET Legible : LET j == job[w]  c == Readable IN
  /\ pc[w] = "register"
  /\ IF Lists(c, a) THEN B = {} /\ Tell(w, a) /\ Leave(w)
     ELSE /\ With(w, [j EXCEPT !.got = c \cup {p \in Names : p[1] = a}
                                         \cup {<<a, q>> : q \in B \cup {j.query}}])
          /\ Goto(w, "truncate") /\ UNCHANGED said
  /\ UNCHANGED <<file, whole, cache, queries, faults, learned>>

\* write_text, then the cache is cleared.
Truncate(w) ==
  /\ pc[w] = "truncate" /\ file' = {} /\ whole' = FALSE /\ Goto(w, "write")
  /\ UNCHANGED <<cache, job, queries, faults, learned, said>>
Write(w) ==
  /\ pc[w] = "write" /\ file' = job[w].got /\ whole' = TRUE /\ Goto(w, "clear")
  /\ UNCHANGED <<cache, job, queries, faults, learned, said>>
Clear(w) == \E a \in job[w].hit :
  /\ pc[w] = "clear" /\ cache' = {} /\ Tell(w, a) /\ Leave(w)
  /\ learned' = learned \cup {<<a, job[w].query>>}
  /\ UNCHANGED <<file, whole, queries, faults>>

\* The process dies: what is in the file stays.
Crash ==
  /\ faults < MaxFaults /\ faults' = faults + 1 /\ cache' = {}
  /\ \E w \in Worker : pc[w] # "idle"
  /\ pc' = [w \in Worker |-> "idle"] /\ job' = [w \in Worker |-> NoJob]
  /\ spoilt' = (spoilt \/ ~whole)
  /\ UNCHANGED <<file, whole, queries, learned, said>>

Next == \/ \E w \in Worker : \/ Ask(w) \/ Look(w) \/ Fill(w) \/ Exact(w) \/ Alias(w) \/ Confirm(w)
                             \/ Discover(w) \/ Register(w) \/ Truncate(w) \/ Write(w) \/ Clear(w)
        \/ Crash

Spec == Init /\ [][Next]_vars

-----------------------------------------------------------------------------
(* Properties *)

\* Once a legible query has registered an asset, the same query asked later is
\* never answered with another asset, unless it is that one's symbol: what is
\* learned later, by this query or another, makes it ambiguous at most.  Only a
\* registration that overlaps another thread's, or a death inside the write of
\* the file, can break this.
SameAnswer == ~spoilt /\ said.query \in Legible =>
  \A a \in said.asset : \A p \in said.known :
    p[2] = said.query /\ <<a, said.query>> \notin Symbols => p[1] = a

\* A registration stays in the file, with its query as an alias, and a legible
\* query finds the asset there, unless it is the symbol of a listed one.
RegistrationKept == (\A w \in Worker : pc[w] = "idle") =>
  \A p \in learned :
    /\ p \in Readable
    /\ p[2] \in Legible => p[1] \in Found(Readable, p[2]) \/ Exactly(Readable, p[2]) # {}

\* The same without the condition that the query is legible: the name of a
\* Japanese or Korean company registers an asset that the name does not find
\* again, and the next answer may be another one (AssetCatalog_script.cfg).
EveryAnswerSame == ~spoilt =>
  \A a \in said.asset : \A p \in said.known :
    p[2] = said.query /\ <<a, said.query>> \notin Symbols => p[1] = a
=============================================================================
