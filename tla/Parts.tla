------------------------------- MODULE Parts -------------------------------
(***************************************************************************)
(* The smaller parts of the system side by side.  They share no state that *)
(* either models, so a behaviour is one of a single part, chosen at the    *)
(* start; the variables of the others stay 0.  "pc" and "faults" are those *)
(* of the chosen part.                                                     *)
(***************************************************************************)
EXTENDS Integers, FiniteSets

CONSTANTS
  Prompt, Kept, MaxUsers, MaxCalls, MaxReplies,               \* ContextWindow
  Session, Message, SessionOf, MaxInputs,                     \* LongConn
  Large, MaxParts, MaxRuns,                                   \* Migration
  Style, Foreign, Unknown, Symbol, MaxSeconds, MaxFacts,      \* ProfileStore
  Asset, Query, Legible, Names, Symbols, Worker, MaxQueries,  \* AssetCatalog
  Price, Wing, LeastRows, Lookback, Newest, FibRows, MaxBars, \* MarketLevels
  MaxFaults                                                   \* bound: faults, by part

ASSUME WindowAssumption == Prompt \in Nat /\ Kept \in Nat
ASSUME ConnAssumption == SessionOf \in [Message -> Session]
ASSUME ProfileAssumption == Unknown \notin Foreign
ASSUME CatalogAssumption ==
  /\ IsFiniteSet(Asset) /\ Query # {} /\ Legible \subseteq Query
  /\ Names \subseteq Asset \X Query /\ Symbols \subseteq Names
ASSUME LevelsAssumption ==
  /\ Price \subseteq Nat \ {0}
  /\ {Wing, LeastRows, Lookback, Newest, FibRows, MaxBars} \subseteq Nat \ {0}
  /\ LeastRows > 2 * Wing

VARIABLES
  part,
  log, active, try, cut, shown,
  pending, threads, old, inputs, queued, handled,
  parts, files, temps, blobs, quarantined, backup, run, outcome, unread, runs,
  now, facts, told,
  file, whole, cache, job, queries, learned, said, spoilt,
  bars, close,
  pc, faults

window  == <<log, active, try, cut, shown>>
conn    == <<pending, threads, old, inputs, queued, handled>>
migrate == <<parts, files, temps, blobs, quarantined, backup, run, outcome, unread,
             runs>>
profile == <<now, facts, told>>
catalog == <<file, whole, cache, job, queries, learned, said, spoilt>>
levels  == <<bars, close>>
vars == <<part, window, conn, migrate, profile, catalog, levels, pc, faults>>

Window == INSTANCE ContextWindow WITH Recent <- Kept, MaxFaults <- MaxFaults["window"]
Conn == INSTANCE LongConn WITH MaxFaults <- MaxFaults["conn"]
Migrate == INSTANCE Migration WITH MaxFaults <- MaxFaults["migrate"]
Profiles == INSTANCE ProfileStore
Catalog == INSTANCE AssetCatalog WITH MaxFaults <- MaxFaults["catalog"]
Market == INSTANCE MarketLevels WITH Recent <- Newest

-----------------------------------------------------------------------------
(* One part at a time *)

NoWindow  == log = 0 /\ active = 0 /\ try = 0 /\ cut = 0 /\ shown = 0
NoConn    == pending = 0 /\ threads = 0 /\ old = 0 /\ inputs = 0 /\ queued = 0 /\ handled = 0
NoMigrate == /\ parts = 0 /\ files = 0 /\ temps = 0 /\ blobs = 0 /\ quarantined = 0
             /\ backup = 0 /\ run = 0 /\ outcome = 0 /\ unread = 0 /\ runs = 0
NoProfile == now = 0 /\ facts = 0 /\ told = 0
NoCatalog == /\ file = 0 /\ whole = 0 /\ cache = 0 /\ job = 0 /\ queries = 0
             /\ learned = 0 /\ said = 0 /\ spoilt = 0
NoLevels  == bars = 0 /\ close = 0

Init ==
  /\ part \in {"window", "conn", "migrate", "profile", "catalog", "levels"}
  /\ IF part = "window"  THEN Window!Init   ELSE NoWindow
  /\ IF part = "conn"    THEN Conn!Init     ELSE NoConn
  /\ IF part = "migrate" THEN Migrate!Init  ELSE NoMigrate
  /\ IF part = "profile" THEN Profiles!Init ELSE NoProfile
  /\ IF part = "catalog" THEN Catalog!Init  ELSE NoCatalog
  /\ IF part = "levels"  THEN Market!Init   ELSE NoLevels
  /\ part \in {"conn", "profile", "levels"} => pc = 0
  /\ part \in {"profile", "levels"} => faults = 0

WindowStep  == /\ part = "window" /\ Window!Next
               /\ UNCHANGED <<part, conn, migrate, profile, catalog, levels>>
ConnStep    == /\ part = "conn" /\ Conn!Next
               /\ UNCHANGED <<part, window, migrate, profile, catalog, levels, pc>>
MigrateStep == /\ part = "migrate" /\ Migrate!Next
               /\ UNCHANGED <<part, window, conn, profile, catalog, levels>>
ProfileStep == /\ part = "profile" /\ Profiles!Next
               /\ UNCHANGED <<part, window, conn, migrate, catalog, levels, pc, faults>>
CatalogStep == /\ part = "catalog" /\ Catalog!Next
               /\ UNCHANGED <<part, window, conn, migrate, profile, levels>>
LevelsStep  == /\ part = "levels" /\ Market!Next
               /\ UNCHANGED <<part, window, conn, migrate, profile, catalog, pc, faults>>

Next == WindowStep \/ ConnStep \/ MigrateStep \/ ProfileStep \/ CatalogStep \/ LevelsStep

\* The only part here that promises progress.
Fairness == WF_vars(/\ part = "window" /\ (Window!Build \/ Window!Compact \/ Window!Commit)
                    /\ UNCHANGED <<part, conn, migrate, profile, catalog, levels>>)

Spec == Init /\ [][Next]_vars /\ Fairness

-----------------------------------------------------------------------------
(* The properties of the parts *)

\* The types of every part (a file of its own checks them: Parts_types.cfg).
TypeOK == /\ part = "window" => Window!TypeOK
          /\ part = "conn" => Conn!TypeOK
          /\ part = "migrate" => Migrate!TypeOK
          /\ part = "profile" => Profiles!TypeOK
          /\ part = "catalog" => Catalog!TypeOK
          /\ part = "levels" => Market!TypeOK

\* ContextWindow: every request shows an answered turn, by word or by summary.
NothingForgotten == part = "window" => Window!NothingForgotten

\* ContextWindow: preparing a request comes to an end.
PrepareEnds == (part = "window" /\ Window!Preparing) ~> (part = "window" /\ ~Window!Preparing)

\* LongConn: no queued message waits without its one thread, or is reordered.
Accounted == part = "conn" => Conn!Accounted

\* Migration: a run that ends migrated all or nothing, and a file that was read
\* finds its blobs.
AllOrNothing == part = "migrate" => Migrate!AllOrNothing

\* ProfileStore: what the last update returned is what is read later.
ReadsLastSteady == part = "profile" => Profiles!ReadsLastSteady

\* AssetCatalog: a legible query that registered an asset keeps its meaning.
SameAnswer == part = "catalog" => Catalog!SameAnswer

\* MarketLevels: no repeatedly tested price is missing behind a farther zone, and
\* the nearest levels of each side survive being cut twice.
RepeatedLevelShown == part = "levels" => Market!RepeatedLevelShown /\ Market!NearestShown
=============================================================================
