------------------------------ MODULE ReplayLog ------------------------------
(***************************************************************************)
(* What the execution stream promises its reader, with no buffer, no       *)
(* connection and no retry: a log that grows until its closing event, and  *)
(* one reader that is handed entries of the log under their index, always  *)
(* further down, and that completes only on the closing entry, with the    *)
(* closing entry's code.  Entries may be missed; none may be invented,     *)
(* renumbered, repeated or reordered.                                      *)
(***************************************************************************)
EXTENDS Integers, Sequences

CONSTANT Entry        \* log entries: records with a kind and a val

VARIABLES
  log,                \* the entries so far
  seen,               \* the entries the reader was handed, with their index
  result,             \* pending, complete or abandoned
  code                \* the code the reader reports

rlVars == <<log, seen, result, code>>

Closes(e) == e.kind = "done"

Init == log = <<>> /\ seen = <<>> /\ result = "pending" /\ code = 0

Grow(e) ==
  /\ log = <<>> \/ ~Closes(log[Len(log)])
  /\ log' = Append(log, e)
  /\ UNCHANGED <<seen, result, code>>

Hand(i) ==
  /\ result = "pending"
  /\ i \in 0 .. Len(log) - 1
  /\ seen = <<>> \/ seen[Len(seen)].id < i
  /\ seen' = Append(seen, [id |-> i, ev |-> log[i + 1]])
  /\ IF Closes(log[i + 1])
     THEN result' = "complete" /\ code' = log[i + 1].val
     ELSE UNCHANGED <<result, code>>
  /\ UNCHANGED log

Abandon ==
  /\ result = "pending"
  /\ result' = "abandoned"
  /\ UNCHANGED <<log, seen, code>>

Next ==
  \/ \E e \in Entry : Grow(e)
  \/ \E i \in 0 .. Len(log) - 1 : Hand(i)
  \/ Abandon

Spec == Init /\ [][Next]_rlVars
=============================================================================
