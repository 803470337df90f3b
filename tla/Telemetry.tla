------------------------------ MODULE Telemetry ------------------------------
(***************************************************************************)
(* The tracer: a run of the agent loop records its trace, the generation   *)
(* and the tools' spans, which run in parallel, as events in a queue.      *)
(* flushLoop sends what is queued every two seconds, as one batch, without *)
(* holding the queue; Flush, when main returns, closes done and sends the  *)
(* rest itself, without waiting for a batch that flushLoop is sending.     *)
(* os.Exit flushes nothing.  A batch that cannot be sent is not kept.      *)
(***************************************************************************)
EXTENDS Naturals, Sequences, FiniteSets, SequencesExt

CONSTANTS
  Spans,  \* the tool calls of the response
  Trace,  \* the run's trace
  Gen     \* its generation

ASSUME TelemetryAssumption == Trace # Gen /\ {Trace, Gen} \cap Spans = {}

Observations == {Trace, Gen} \cup Spans
TraceEvents == [of : Observations, kind : {"create", "update", "score"}]

VARIABLES
  made,     \* observations that have been started
  finished, \* and ended
  queue,    \* Tracer.queue
  sending,  \* the batch flushLoop is sending
  last,     \* the batch Flush is sending
  flush,    \* where main is: no, closing (done is closed), sending, exited or aborted
  sender,   \* flushLoop: idle, sending or gone
  received, \* what the server has ingested, in its order
  failed,   \* history variable: events of batches that were not ingested
  apart     \* history variable: events of batches that were sent at the same time

traceVars == <<made, finished, queue, sending, last, flush, sender, received, failed, apart>>

Event(o, kind) == [of |-> o, kind |-> kind]
Parent(o) == IF o = Gen THEN Trace ELSE Gen
Exited == flush \in {"exited", "aborted"}

TraceInit ==
  /\ made = {} /\ finished = {} /\ queue = <<>> /\ sending = <<>> /\ last = <<>>
  /\ flush = "no" /\ sender = "idle" /\ received = <<>> /\ failed = {} /\ apart = {}

(* enqueue: under mu, which nobody keeps while a batch is sent. *)
Record(o, kind) ==
  /\ ~Exited
  /\ queue' = Append(queue, Event(o, kind))
  /\ UNCHANGED <<sending, last, flush, sender, received, failed, apart>>

StartTrace == Trace \notin made /\ Record(Trace, "create") /\ made' = made \cup {Trace} /\ UNCHANGED finished

StartGeneration ==
  /\ Trace \in made \ finished /\ Gen \notin made
  /\ Record(Gen, "create") /\ made' = made \cup {Gen} /\ UNCHANGED finished

EndGeneration ==
  /\ Gen \in made \ finished /\ Trace \notin finished
  /\ Record(Gen, "update") /\ finished' = finished \cup {Gen} /\ UNCHANGED made

StartSpan(t) ==
  /\ Gen \in finished /\ Trace \notin finished /\ t \notin made
  /\ Record(t, "create") /\ made' = made \cup {t} /\ UNCHANGED finished

EndSpan(t) ==
  /\ t \in made \ finished
  /\ Record(t, "update") /\ finished' = finished \cup {t} /\ UNCHANGED made

(* The run ends when its tools have; a generation whose stream could not be
   opened stays without its end. *)
EndTrace ==
  /\ Trace \in made \ finished /\ made \cap Spans \subseteq finished
  /\ Record(Trace, "update") /\ finished' = finished \cup {Trace} /\ UNCHANGED made

(* The user's feedback on the last run. *)
Score ==
  /\ Trace \in finished /\ Event(Trace, "score") \notin ToSet(queue \o sending \o last \o received) \cup failed
  /\ Record(Trace, "score") /\ UNCHANGED <<made, finished>>

-----------------------------------------------------------------------------
(* flushLoop *)

(* Fault: the queue keeps what has been taken. *)
TakeBatchKeeping ==
  /\ ~Exited /\ sender = "idle" /\ queue # <<>>
  /\ sending' = queue /\ sender' = "sending"
  /\ apart' = IF last = <<>> THEN apart ELSE apart \cup ToSet(queue \o last)
  /\ UNCHANGED <<made, finished, queue, last, flush, received, failed>>

TakeBatch ==
  /\ ~Exited /\ sender = "idle" /\ queue # <<>>
  /\ sending' = queue /\ queue' = <<>> /\ sender' = "sending"
  /\ apart' = IF last = <<>> THEN apart ELSE apart \cup ToSet(queue \o last)
  /\ UNCHANGED <<made, finished, last, flush, received, failed>>

(* A send that fails, or is answered with an error, is only logged. *)
Outcome(batch) ==
  \/ received' = received \o batch /\ UNCHANGED failed
  \/ failed' = failed \cup ToSet(batch) /\ UNCHANGED received

SendBatch ==
  /\ ~Exited /\ sender = "sending" /\ sender' = "idle" /\ sending' = <<>>
  /\ Outcome(sending)
  /\ UNCHANGED <<made, finished, queue, last, flush, apart>>

StopSender ==
  /\ ~Exited /\ flush # "no" /\ sender = "idle" /\ sender' = "gone"
  /\ UNCHANGED <<made, finished, queue, sending, last, flush, received, failed, apart>>

-----------------------------------------------------------------------------
(* Flush, and the end of the process *)

CloseDone ==
  /\ flush = "no" /\ flush' = "closing"
  /\ UNCHANGED <<made, finished, queue, sending, last, sender, received, failed, apart>>

TakeLast ==
  /\ flush = "closing" /\ last' = queue /\ queue' = <<>>
  /\ flush' = IF queue = <<>> THEN "exited" ELSE "sending"
  /\ apart' = IF sending = <<>> THEN apart ELSE apart \cup ToSet(queue \o sending)
  /\ UNCHANGED <<made, finished, sending, sender, received, failed>>

SendLast ==
  /\ flush = "sending" /\ flush' = "exited" /\ last' = <<>>
  /\ Outcome(last)
  /\ UNCHANGED <<made, finished, queue, sending, sender, apart>>

Abort ==
  /\ flush = "no" /\ flush' = "aborted"
  /\ UNCHANGED <<made, finished, queue, sending, last, sender, received, failed, apart>>

RunStep ==
  \/ StartTrace \/ StartGeneration \/ EndGeneration \/ EndTrace \/ Score
  \/ \E t \in Spans : StartSpan(t) \/ EndSpan(t)

TraceNext ==
  \/ RunStep \/ TakeBatch \/ SendBatch \/ StopSender
  \/ CloseDone \/ TakeLast \/ SendLast \/ Abort

TraceSpec == TraceInit /\ [][TraceNext]_traceVars

-----------------------------------------------------------------------------
TraceTypeOK ==
  /\ finished \subseteq made /\ made \subseteq Observations
  /\ \A seq \in {queue, sending, last, received} : ToSet(seq) \subseteq TraceEvents
  /\ flush \in {"no", "closing", "sending", "exited", "aborted"}
  /\ sender \in {"idle", "sending", "gone"}
  /\ failed \subseteq TraceEvents /\ apart \subseteq TraceEvents

(* The server gets the run's tree as it grew: no event twice, and none before
   the creation of its own observation and of its parent, unless that was in a
   batch that could not be sent or the two were sent at the same time.  What is
   recorded is with the server, or queued, or in a batch under way or failed. *)
TreeArrivesInOrder ==
  LET Before(k) == ToSet(SubSeq(received, 1, k - 1)) IN
  /\ IsInjective(received)
  /\ \A k \in DOMAIN received :
       LET e == received[k]
           needed == {Event(e.of, "create")} \cup
                     (IF e.of = Trace THEN {} ELSE {Event(Parent(e.of), "create")})
       IN needed \ {e} \subseteq Before(k) \cup failed \cup apart
  /\ \A o \in made : Event(o, "create") \in ToSet(queue \o sending \o last \o received) \cup failed
  /\ \A o \in finished : Event(o, "update") \in ToSet(queue \o sending \o last \o received) \cup failed
=============================================================================
