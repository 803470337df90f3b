----------------------------- MODULE DreamMemory -----------------------------
(***************************************************************************)
(* The stores of the dream memory: memory.json, of which each process has  *)
(* a copy of its own, and the SQLite database, which processes share.  A   *)
(* process opens its store, pruning it, and at its end saves the summary   *)
(* of its session and prunes again.  An empty database imports memory.json *)
(* once.  Processes overlap, and any may be killed between two statements. *)
(* An entry is the time it was made.                                       *)
(***************************************************************************)
EXTENDS Naturals, FiniteSets, FiniteSetsExt

CONSTANTS
  Processes,    \* the processes
  Backend,     \* of each: "sqlite" or "json"
  OldEntries,  \* what memory.json holds at first: times before 0 days of the run
  MaxEntries,  \* Retention.MaxEntries; 0 is no limit
  MaxAge,      \* Retention.MaxAgeDays; 0 is no limit
  MaxClock     \* bound: the time the run lasts

ASSUME DreamAssumption ==
  /\ Backend \in [Processes -> {"sqlite", "json"}]
  /\ MaxEntries \in Nat /\ MaxAge \in Nat /\ MaxClock \in Nat /\ OldEntries \subseteq 0 .. MaxClock

VARIABLES
  day,      \* the clock
  json,     \* memory.json; {} when it is not there
  rows,     \* dream_entries
  stage,    \* where each process is
  copy,     \* jsonStore.entries of each process
  excess,   \* what Prune has counted
  saved,    \* processes that have saved their summary
  pruned,   \* history variable: entries that a prune removed
  early,    \* history variable: those among the newest MaxEntries when it did
  raced,    \* history variable: another process removed rows between a count and its delete
  again     \* history variable: two imports overlapped, or memory.json outlived one or was written once more

dreamVars == <<day, json, rows, stage, copy, excess, saved, pruned, early, raced, again>>

Stages == {"off", "import", "rename", "age", "count", "delete", "open", "over"}

DreamInit ==
  /\ day = (IF OldEntries = {} THEN 0 ELSE Max(OldEntries)) /\ json = OldEntries /\ rows = {}
  /\ stage = [s \in Processes |-> "off"] /\ copy = [s \in Processes |-> {}] /\ excess = [s \in Processes |-> 0]
  /\ saved = {} /\ pruned = {} /\ early = {} /\ raced = FALSE /\ again = FALSE

StageTo(s, step) == stage' = [stage EXCEPT ![s] = step]

Active == MaxEntries > 0 \/ MaxAge > 0
Newest(E, n) == {e \in E : Cardinality({f \in E : f > e}) < n}
Oldest(E, n) == {e \in E : Cardinality({f \in E : f < e}) < n}
TooOld(E) == IF MaxAge = 0 THEN {} ELSE {e \in E : e + MaxAge < day}

-----------------------------------------------------------------------------
(* OpenStore *)

OpenJSON(s) ==
  /\ stage[s] = "off" /\ Backend[s] = "json"
  /\ copy' = [copy EXCEPT ![s] = json]
  /\ StageTo(s, IF Active THEN "age" ELSE "open")
  /\ UNCHANGED <<day, json, rows, excess, saved, pruned, early, raced, again>>

(* The count of importFromJSONIfEmpty, and the file it then reads. *)
OpenSQLite(s) ==
  /\ stage[s] = "off" /\ Backend[s] = "sqlite"
  /\ copy' = [copy EXCEPT ![s] = IF rows = {} THEN json ELSE {}]
  /\ StageTo(s, IF rows = {} /\ json # {} THEN "import" ELSE IF Active THEN "age" ELSE "open")
  /\ UNCHANGED <<day, json, rows, excess, saved, pruned, early, raced, again>>

(* Another process has read memory.json to import it, and not renamed it yet. *)
ImportsBeside(s) == \E o \in Processes \ {s} : stage[o] \in {"import", "rename"}

(* One transaction: all entries, or an error, when an id is there already, for
   which the store is closed and the process does without. *)
Import(s) ==
  /\ stage[s] = "import"
  /\ IF rows \cap copy[s] # {}
     THEN StageTo(s, "over") /\ UNCHANGED rows
     ELSE rows' = rows \cup copy[s] /\ StageTo(s, "rename")
  /\ again' = (again \/ ImportsBeside(s))
  /\ UNCHANGED <<day, json, copy, excess, saved, pruned, early, raced>>

RenameImported(s) ==
  /\ stage[s] = "rename"
  /\ json' = {} /\ StageTo(s, IF Active THEN "age" ELSE "open")
  /\ again' = (again \/ ImportsBeside(s))
  /\ UNCHANGED <<day, rows, copy, excess, saved, pruned, early, raced>>

-----------------------------------------------------------------------------
(* Prune *)

(* jsonStore: under the process's own mutex, from its own copy, in one step. *)
PruneJSON(s) ==
  /\ stage[s] = "age" /\ Backend[s] = "json"
  /\ LET young == copy[s] \ TooOld(copy[s])
         kept == IF MaxEntries > 0 THEN Newest(young, MaxEntries) ELSE young
     IN copy' = [copy EXCEPT ![s] = kept] /\ json' = kept
  /\ StageTo(s, "open") /\ again' = TRUE
  /\ UNCHANGED <<day, rows, excess, saved, pruned, early, raced>>

(* A process that has counted finds its count out of date. *)
Races(s, gone) == gone # {} /\ \E o \in Processes \ {s} : stage[o] = "delete"

PruneAge(s) ==
  /\ stage[s] = "age" /\ Backend[s] = "sqlite"
  /\ rows' = rows \ TooOld(rows) /\ pruned' = pruned \cup TooOld(rows)
  /\ raced' = (raced \/ Races(s, TooOld(rows)))
  /\ StageTo(s, IF MaxEntries > 0 THEN "count" ELSE "open")
  /\ UNCHANGED <<day, json, copy, excess, saved, early, again>>

PruneCount(s) ==
  /\ stage[s] = "count"
  /\ excess' = [excess EXCEPT ![s] = IF Cardinality(rows) > MaxEntries THEN Cardinality(rows) - MaxEntries ELSE 0]
  /\ StageTo(s, "delete")
  /\ UNCHANGED <<day, json, rows, copy, saved, pruned, early, raced, again>>

(* Fault: the statement orders the rows the other way round. *)
PruneNewest(s) ==
  /\ stage[s] = "delete"
  /\ LET gone == Newest(rows, excess[s]) IN
     /\ rows' = rows \ gone /\ pruned' = pruned \cup gone
     /\ early' = early \cup (gone \cap Newest(rows, MaxEntries))
     /\ raced' = (raced \/ Races(s, gone))
  /\ StageTo(s, "open")
  /\ UNCHANGED <<day, json, copy, excess, saved, again>>

PruneExcess(s) ==
  /\ stage[s] = "delete"
  /\ LET gone == Oldest(rows, excess[s]) IN
     /\ rows' = rows \ gone /\ pruned' = pruned \cup gone
     /\ early' = early \cup (gone \cap Newest(rows, MaxEntries))
     /\ raced' = (raced \/ Races(s, gone))
  /\ StageTo(s, "open")
  /\ UNCHANGED <<day, json, copy, excess, saved, again>>

-----------------------------------------------------------------------------
(* consolidate: an entry that is saved, and a prune.  Ids are times in
   nanoseconds: no two entries have the same. *)
Consolidated(s) ==
  /\ stage[s] = "open" /\ s \notin saved /\ day \notin rows \cup json \cup pruned
  /\ saved' = saved \cup {s}
  /\ IF Backend[s] = "json"
     THEN json' = copy[s] \cup {day} /\ copy' = [copy EXCEPT ![s] = json'] /\ again' = TRUE /\ UNCHANGED rows
     ELSE rows' = rows \cup {day} /\ UNCHANGED <<json, copy, again>>
  /\ StageTo(s, IF Active THEN "age" ELSE "over")
  /\ UNCHANGED <<day, excess, pruned, early, raced>>

(* The process ends, with no summary or after it, or is killed. *)
Close(s) ==
  /\ stage[s] \notin {"off", "over"} /\ StageTo(s, "over")
  /\ again' = (again \/ stage[s] = "rename")
  /\ UNCHANGED <<day, json, rows, copy, excess, saved, pruned, early, raced>>

Tick ==
  /\ day < MaxClock /\ day' = day + 1
  /\ UNCHANGED <<json, rows, stage, copy, excess, saved, pruned, early, raced, again>>

SessionStep(s) ==
  \/ OpenJSON(s) \/ OpenSQLite(s) \/ Import(s) \/ RenameImported(s) \/ PruneJSON(s)
  \/ PruneAge(s) \/ PruneCount(s) \/ PruneExcess(s) \/ Consolidated(s) \/ Close(s)

DreamNext == Tick \/ \E s \in Processes : SessionStep(s)

DreamSpec == DreamInit /\ [][DreamNext]_dreamVars

-----------------------------------------------------------------------------
DreamTypeOK ==
  /\ day \in 0 .. MaxClock /\ json \subseteq 0 .. MaxClock /\ rows \subseteq 0 .. MaxClock
  /\ stage \in [Processes -> Stages] /\ copy \in [Processes -> SUBSET (0 .. MaxClock)]
  /\ excess \in [Processes -> Nat]
  /\ saved \subseteq Processes /\ pruned \subseteq 0 .. MaxClock /\ early \subseteq pruned
  /\ raced \in BOOLEAN /\ again \in BOOLEAN

(* Retention keeps what it promises: a prune never removes one of the newest
   MaxEntries rows, unless another process pruned between its count and its
   delete; and what it removed does not come back by another import, unless
   the imports of two processes overlap, from reading memory.json to renaming
   it, one is stopped between importing and renaming it, or a session with the
   other backend writes the file again. *)
RetentionHolds ==
  /\ early # {} => raced
  /\ rows \cap pruned # {} => again
=============================================================================
