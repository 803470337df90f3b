----------------------------- MODULE LocalWorkers -----------------------------
(***************************************************************************)
(* The coordinator with local workers: a task is decomposed by the model,  *)
(* every subtask gets an agent loop of its own, at most MaxLocal at a      *)
(* time, and the model makes one answer of what they report.  A worker's   *)
(* events go through a channel that two goroutines read: the collector,    *)
(* which keeps the texts for the result, and forwardWorkerEvents, which    *)
(* passes tool events on to the user.  A worker that fails has a result    *)
(* all the same; one that is cancelled ends the whole task.                *)
(***************************************************************************)
EXTENDS Naturals, Sequences, FiniteSets, SequencesExt, FiniteSetsExt

CONSTANTS
  Replies,     \* answers to the decomposition: the elements of the array, or NoArray
  NoArray,
  MaxSubtasks, \* maxCoordinatorSubtasks
  MaxLocal,    \* Coordinator.MaxWorkers
  PipeCap,     \* capacity of the channel workerEvents
  Script       \* the events of one worker's loop: "text" and "tool"

ASSUME LocalWorkersAssumption ==
  /\ Replies \ {NoArray} \subseteq Seq({"string", "blank", "other"})
  /\ {MaxSubtasks, MaxLocal, PipeCap} \subseteq Nat \ {0}
  /\ Script \in Seq({"text", "tool"})

Places == 1 .. MaxSubtasks
Texts == {k \in DOMAIN Script : Script[k] = "text"}

VARIABLES
  course,   \* where ExecuteWithResults is: decompose, launch, synthesise, done or failed
  subtasks,  \* number of subtasks
  launched,  \* subtasks whose goroutine has been started
  worker,    \* where each is: waiting, started, running, closing or returned
  uttered,   \* events its loop has emitted
  pipe,      \* its workerEvents
  collected, \* texts in its output
  swallowed, \* history variable: texts that forwardWorkerEvents took
  dropped,   \* history variable: texts for which the channel had no room
  outcome,   \* how its loop ended: answer, error, cancelled or none
  report,    \* results[i]: the texts of an answer, or a failure
  endedCtx,  \* the caller's context has ended
  abort      \* the group's first error has cancelled its context

localVars == <<course, subtasks, launched, worker, uttered, pipe, collected, swallowed,
               dropped, outcome, report, endedCtx, abort>>

NoReport == [kind |-> "none", texts |-> <<>>]
Bad == [kind |-> "failure", texts |-> <<>>]
Good(texts) == [kind |-> "answer", texts |-> texts]
All(x) == [i \in Places |-> x]

(* Fault: the limit on the subtasks is not applied. *)
CountOfAll(reply) ==
  LET said == IF reply = NoArray THEN 0 ELSE Cardinality({k \in DOMAIN reply : reply[k] = "string"})
  IN IF said = 0 THEN 1 ELSE said

(* ParseSubtaskDescriptionsJSON: the strings that say something, up to the
   limit; the task itself when there is none, or no array. *)
CountOf(reply) ==
  LET said == IF reply = NoArray THEN 0 ELSE Cardinality({k \in DOMAIN reply : reply[k] = "string"})
  IN IF said = 0 THEN 1 ELSE Min({said, MaxSubtasks})

LocalInit ==
  /\ course = "decompose" /\ subtasks = 0 /\ launched = 0
  /\ worker = All("waiting") /\ uttered = All(0) /\ pipe = All(<<>>) /\ collected = All(<<>>)
  /\ swallowed = All({}) /\ dropped = All({})
  /\ outcome = All("none") /\ report = All(NoReport)
  /\ endedCtx = FALSE /\ abort = FALSE

WorkerTo(i, state) == worker' = [worker EXCEPT ![i] = state]
GroupOver == endedCtx \/ abort
Holding == {i \in Places : worker[i] \in {"started", "running", "closing"}}

-----------------------------------------------------------------------------
(* ExecuteWithResults *)

(* The stream may fail; so may the making of the workers' directories. *)
Decompose ==
  /\ course = "decompose"
  /\ \/ \E reply \in Replies : subtasks' = CountOf(reply) /\ course' = "launch"
     \/ course' = "failed" /\ UNCHANGED subtasks
  /\ UNCHANGED <<launched, worker, uttered, pipe, collected, swallowed, dropped, outcome, report, endedCtx, abort>>

(* sem <- struct{}{}: the loop waits for a slot whatever becomes of the context. *)
Launch ==
  /\ course = "launch" /\ launched < subtasks /\ Cardinality(Holding) < MaxLocal
  /\ launched' = launched + 1 /\ WorkerTo(launched + 1, "started")
  /\ UNCHANGED <<course, subtasks, uttered, pipe, collected, swallowed, dropped, outcome, report, endedCtx, abort>>

(* g.Wait *)
Gather ==
  /\ course = "launch" /\ launched = subtasks
  /\ \A i \in 1 .. subtasks : worker[i] = "returned"
  /\ course' = IF abort THEN "failed" ELSE "synthesise"
  /\ UNCHANGED <<subtasks, launched, worker, uttered, pipe, collected, swallowed, dropped, outcome, report, endedCtx, abort>>

(* The model's summary of all reports, or its failure. *)
Synthesise ==
  /\ course = "synthesise" /\ course' \in {"done", "failed"}
  /\ UNCHANGED <<subtasks, launched, worker, uttered, pipe, collected, swallowed, dropped, outcome, report, endedCtx, abort>>

EndContext ==
  /\ ~endedCtx /\ course \notin {"done", "failed"} /\ endedCtx' = TRUE
  /\ UNCHANGED <<course, subtasks, launched, worker, uttered, pipe, collected, swallowed, dropped, outcome, report, abort>>

-----------------------------------------------------------------------------
(* The goroutine of a subtask, and runWorker *)

(* Fault: the early return leaves the slot taken. *)
BeginAndStay(i) ==
  /\ worker[i] = "started" /\ ~GroupOver /\ WorkerTo(i, "running")
  /\ UNCHANGED <<course, subtasks, launched, uttered, pipe, collected, swallowed, dropped, outcome, report, endedCtx, abort>>

(* A group that is over already is this subtask's error. *)
Begin(i) ==
  /\ worker[i] = "started"
  /\ IF GroupOver
     THEN WorkerTo(i, "returned") /\ report' = [report EXCEPT ![i] = Bad] /\ abort' = TRUE
     ELSE WorkerTo(i, "running") /\ UNCHANGED <<report, abort>>
  /\ UNCHANGED <<course, subtasks, launched, uttered, pipe, collected, swallowed, dropped, outcome, endedCtx>>

(* Loop.emit drops a text when the channel is full; the tool executor waits. *)
Utter(i) ==
  /\ worker[i] = "running" /\ uttered[i] < Len(Script)
  /\ LET k == uttered[i] + 1
         room == Len(pipe[i]) < PipeCap
     IN /\ k \notin Texts => room
        /\ uttered' = [uttered EXCEPT ![i] = k]
        /\ pipe' = [pipe EXCEPT ![i] = IF room THEN Append(@, k) ELSE @]
        /\ dropped' = [dropped EXCEPT ![i] = IF room THEN @ ELSE @ \cup {k}]
  /\ UNCHANGED <<course, subtasks, launched, worker, collected, swallowed, outcome, report, endedCtx, abort>>

(* Run returns, and workerEvents is closed.  The time limit of a request to
   the model counts as an ended context too. *)
LoopReturns(i) ==
  /\ worker[i] = "running" /\ WorkerTo(i, "closing")
  /\ \/ uttered[i] = Len(Script) /\ outcome' = [outcome EXCEPT ![i] = "answer"]
     \/ \E how \in {"error", "cancelled"} : outcome' = [outcome EXCEPT ![i] = how]
  /\ UNCHANGED <<course, subtasks, launched, uttered, pipe, collected, swallowed, dropped, report, endedCtx, abort>>

Collect(i) ==
  /\ pipe[i] # <<>> /\ pipe' = [pipe EXCEPT ![i] = Tail(@)]
  /\ collected' = [collected EXCEPT ![i] = IF Head(pipe[i]) \in Texts THEN Append(@, Head(pipe[i])) ELSE @]
  /\ UNCHANGED <<course, subtasks, launched, worker, uttered, swallowed, dropped, outcome, report, endedCtx, abort>>

(* What is not a tool or compaction event goes nowhere. *)
ForwardEvent(i) ==
  /\ pipe[i] # <<>> /\ pipe' = [pipe EXCEPT ![i] = Tail(@)]
  /\ swallowed' = [swallowed EXCEPT ![i] = @ \cup ({Head(pipe[i])} \cap Texts)]
  /\ UNCHANGED <<course, subtasks, launched, worker, uttered, collected, dropped, outcome, report, endedCtx, abort>>

(* Fault: runWorker does not wait for the collector. *)
DeliverAtOnce(i) ==
  /\ worker[i] = "closing" /\ WorkerTo(i, "returned")
  /\ report' = [report EXCEPT ![i] = IF outcome[i] = "answer" THEN Good(collected[i]) ELSE Bad]
  /\ abort' = (abort \/ outcome[i] = "cancelled")
  /\ UNCHANGED <<course, subtasks, launched, uttered, pipe, collected, swallowed, dropped, outcome, endedCtx>>

(* <-done: the collector has seen the closed channel empty.  Only an ended
   context is an error of the group; the slot is given back. *)
Deliver(i) ==
  /\ worker[i] = "closing" /\ pipe[i] = <<>> /\ WorkerTo(i, "returned")
  /\ report' = [report EXCEPT ![i] = IF outcome[i] = "answer" THEN Good(collected[i]) ELSE Bad]
  /\ abort' = (abort \/ outcome[i] = "cancelled")
  /\ UNCHANGED <<course, subtasks, launched, uttered, pipe, collected, swallowed, dropped, outcome, endedCtx>>

LocalWorkerStep(i) ==
  Begin(i) \/ Utter(i) \/ LoopReturns(i) \/ Collect(i) \/ ForwardEvent(i) \/ Deliver(i)

CoordinatorStep == Decompose \/ Launch \/ Gather \/ Synthesise

LocalProgress == CoordinatorStep \/ \E i \in Places : LocalWorkerStep(i)

LocalNext == LocalProgress \/ EndContext

(* Every worker takes a bounded number of steps; the model's calls end. *)
LocalSpec == LocalInit /\ [][LocalNext]_localVars /\ WF_localVars(LocalProgress)

-----------------------------------------------------------------------------
LocalTypeOK ==
  /\ course \in {"decompose", "launch", "synthesise", "done", "failed"}
  /\ subtasks \in 0 .. MaxSubtasks /\ launched \in 0 .. subtasks
  /\ worker \in [Places -> {"waiting", "started", "running", "closing", "returned"}]
  /\ uttered \in [Places -> 0 .. Len(Script)]
  /\ \A i \in Places : /\ pipe[i] \in Seq(DOMAIN Script) /\ Len(pipe[i]) <= PipeCap
                       /\ collected[i] \in Seq(Texts)
  /\ swallowed \in [Places -> SUBSET Texts] /\ dropped \in [Places -> SUBSET Texts]
  /\ outcome \in [Places -> {"none", "answer", "error", "cancelled"}]
  /\ \A i \in Places : report[i] \in {NoReport, Bad} \/ report[i].kind = "answer"
  /\ endedCtx \in BOOLEAN /\ abort \in BOOLEAN

(* The answer is made of what the workers said: when it is, every subtask has
   its report, and an answer among them holds the texts of its loop in order,
   none twice, all but those the forwarder took or the channel had no room for. *)
MissingOnlyTaken ==
  \A i \in Places :
    /\ course \in {"synthesise", "done"} /\ i <= subtasks => report[i] # NoReport
    /\ report[i].kind = "answer" =>
         LET texts == report[i].texts IN
         /\ ToSet(texts) = Texts \ (swallowed[i] \cup dropped[i])
         /\ \A m, n \in DOMAIN texts : m < n => texts[m] < texts[n]

(* "text deltas from workers are collected into the WorkerResult.Output
   string": what the channel took is in the result. *)
TextsCollected ==
  \A i \in Places : \A k \in Texts :
    report[i].kind = "answer" => k \in ToSet(report[i].texts) \cup dropped[i]

(* A task that was begun ends, in an answer or an error: no worker waits for
   its collector, no subtask for a slot, for ever. *)
LocalRunEnds == course = "launch" ~> course \in {"done", "failed"}
=============================================================================
