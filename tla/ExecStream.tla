----------------------------- MODULE ExecStream -----------------------------
(***************************************************************************)
(* The execution stream of a worker: one exec job of cmd/ukc-agent, the    *)
(* HTTP handler that replays its events as server-sent events, and the     *)
(* client that reads them and reconnects (ReadExecStream).                 *)
(*                                                                         *)
(* Every lock region of the Go code is one action, so whatever another     *)
(* goroutine can do between two lock regions can happen between two        *)
(* actions.  The byte stream is a queue of frames, one per event; a broken *)
(* connection loses the frames not yet read and may cut the first of them. *)
(***************************************************************************)
EXTENDS Integers, Sequences

CONSTANTS
  MaxReplay,    \* maxStreamReplayEvents: the capacity of a job's history
  MaxRetries,   \* maxRetries of ReadExecStream
  MaxLines,     \* bound of the model: lines the command prints
  WireCap,      \* bound of the model: frames between server and client
  ExitCodes,    \* exit codes of the command
  TornCuts      \* where a broken connection may cut a frame, see Torn

ASSUME ExecStreamAssumption ==
  /\ MaxReplay \in Nat \ {0}
  /\ MaxRetries \in Nat
  /\ MaxLines \in Nat
  /\ WireCap \in Nat \ {0}
  /\ ExitCodes \subseteq Int
  /\ TornCuts \subseteq {"afterId", "inId"}

VARIABLES
  emitted,      \* history variable: every event of the job, in order
  history,      \* job.history, the newest events
  baseIndex,    \* job.baseIndex, the index of the oldest event in history
  done,         \* job.done
  proc,         \* the command: starting, startFailed, running, exited
  pipes,        \* per stream: open, or closed once pipeLines has returned
  registered,   \* the job is in jobRunner.jobs
  srv,          \* the handler: idle, snapshot, deliver, wait, closed
  startIndex,   \* streamSSE's startIndex
  idx,          \* streamSSE's position in the history it measured
  avail,        \* streamSSE's measure of len(history)
  gapWarned,    \* streamSSE's gapWarned
  notified,     \* a token is in the listener's channel
  wire,         \* frames written by the handler and not read by the client
  cli,          \* the client: connecting, reading, or how it returned
  lastEventID,  \* the client's lastEventID; -1 stands for "-1" and for ""
  retries,      \* the client's retries
  out,          \* frames of job events the client has read
  warned,       \* ids of the gap warnings the client has read
  exitCode,     \* the exit code the client returns
  drops,        \* history variable: connections refused or broken
  torn          \* history variable: a break swallowed an event after its id

jobVars == <<emitted, history, baseIndex, done, proc, pipes, registered>>
srvVars == <<srv, startIndex, idx, avail, gapWarned>>
cliVars == <<cli, lastEventID, retries, out, warned, exitCode, drops, torn>>
vars == <<jobVars, srvVars, notified, wire, cliVars>>

Streams == {"stdout", "stderr"}
Returned == {"succeeded", "failed", "rejected", "cancelled"}

(* An output line carries the number of events before it: no two are equal. *)
LineEvent(s) == [kind |-> s, val |-> Len(emitted)]
DoneEvent(code) == [kind |-> "done", val |-> code]
GapEvent == [kind |-> "gap", val |-> 0]
Events == [kind : Streams \cup {"done", "gap"}, val : (0 .. MaxLines) \cup ExitCodes \cup {1}]
Frames == [id : Int, ev : Events]

Subscribed == srv \notin {"idle", "closed"}

Init ==
  /\ emitted = <<>> /\ history = <<>> /\ baseIndex = 0 /\ done = FALSE
  /\ proc = "starting" /\ pipes = [s \in Streams |-> "open"]
  /\ registered = TRUE
  /\ srv = "idle" /\ startIndex = -1 /\ idx = 0 /\ avail = 0
  /\ gapWarned = FALSE /\ notified = FALSE /\ wire = <<>>
  /\ cli = "connecting" /\ lastEventID = -1 /\ retries = 0
  /\ out = <<>> /\ warned = {} /\ exitCode = 0 /\ drops = 0 /\ torn = FALSE

-----------------------------------------------------------------------------
(* The job *)

(* Fault: evicts one event too early. *)
EvictEarly(h) == IF Len(h) >= MaxReplay THEN Tail(h) ELSE h

Evict(h) == IF Len(h) > MaxReplay THEN Tail(h) ELSE h

(* The send to a listener's one-slot channel never blocks. *)
Notify == notified' = (notified \/ Subscribed)

TrySend(ev) ==
  /\ emitted' = Append(emitted, ev)
  /\ history' = Evict(Append(history, ev))
  /\ baseIndex' = IF Len(history) + 1 > MaxReplay THEN baseIndex + 1 ELSE baseIndex
  /\ done' = (done \/ ev.kind = "done")
  /\ Notify
  /\ UNCHANGED <<registered, srvVars, wire, cliVars>>

Start ==
  /\ proc = "starting"
  /\ proc' = "running"
  /\ UNCHANGED <<emitted, history, baseIndex, done, pipes, registered,
                 srvVars, notified, wire, cliVars>>

StartFails ==
  /\ proc = "starting"
  /\ proc' = "startFailed"
  /\ TrySend(LineEvent("stderr"))
  /\ UNCHANGED pipes

Printing(s) == proc = "running" /\ pipes[s] = "open"

PrintLine(s) ==
  /\ Printing(s)
  /\ Len(emitted) < MaxLines
  /\ TrySend(LineEvent(s))
  /\ UNCHANGED <<proc, pipes>>

PipeEnds(s) ==
  /\ Printing(s)
  /\ pipes' = [pipes EXCEPT ![s] = "closed"]
  /\ UNCHANGED <<emitted, history, baseIndex, done, proc, registered,
                 srvVars, notified, wire, cliVars>>

(* A line longer than the scanner's buffer ends pipeLines with an error line.
   Nobody reads the pipe any more, so a command with more to print than the pipe
   holds blocks for ever: it is never assumed that the command goes on. *)
PipeBreaks(s) ==
  /\ Printing(s)
  /\ Len(emitted) < MaxLines
  /\ TrySend(LineEvent("stderr"))
  /\ pipes' = [pipes EXCEPT ![s] = "closed"]
  /\ UNCHANGED proc

EmitFinal(code) ==
  /\ TrySend(DoneEvent(code))
  /\ proc' = "exited"
  /\ UNCHANGED pipes

CommandEnds ==
  \/ proc = "startFailed" /\ EmitFinal(1)
  \/ /\ proc = "running"
     /\ \A s \in Streams : pipes[s] = "closed"
     /\ \E code \in ExitCodes : EmitFinal(code)

(* scheduleRemoval's timer: the grace period is over. *)
GraceExpires ==
  /\ proc = "exited" /\ registered
  /\ registered' = FALSE
  /\ UNCHANGED <<emitted, history, baseIndex, done, proc, pipes,
                 srvVars, notified, wire, cliVars>>

-----------------------------------------------------------------------------
(* The handler *)

(* Fault: warns of the gap without moving past it. *)
AfterGapStays(from, gap) == from

AfterGap(from, gap) == IF gap THEN baseIndex ELSE from

(* One round of streamSSE's outer loop: measure the history, and warn of a
   gap once per connection.  The warning's id is the first missing index. *)
Snapshot ==
  LET from == IF startIndex < 0 THEN baseIndex ELSE startIndex
      gap  == from < baseIndex /\ ~gapWarned
      next == AfterGap(from, gap)
  IN
  /\ srv = "snapshot"
  /\ gap => Len(wire) < WireCap
  /\ wire' = IF gap THEN Append(wire, [id |-> from, ev |-> GapEvent]) ELSE wire
  /\ gapWarned' = (gapWarned \/ gap)
  /\ startIndex' = next
  /\ idx' = next - baseIndex
  /\ avail' = Len(history)
  /\ srv' = "deliver"
  /\ UNCHANGED <<jobVars, notified, cliVars>>

InBatch == 0 <= idx /\ idx < avail

(* Fault: numbers the event by the index expected, not by the index found. *)
FrameAtExpected(i) == [id |-> startIndex, ev |-> history[i + 1]]

(* The event is read at the measured position of the CURRENT history. *)
FrameAt(i) == [id |-> baseIndex + i, ev |-> history[i + 1]]

Deliver ==
  /\ srv = "deliver" /\ InBatch
  /\ Len(wire) < WireCap
  /\ LET f == FrameAt(idx) IN
       /\ wire' = Append(wire, f)
       /\ IF f.ev.kind = "done"
          THEN srv' = "closed" /\ UNCHANGED <<startIndex, idx>>
          ELSE /\ startIndex' = f.id + 1
               /\ idx' = idx + 1
               /\ UNCHANGED srv
  /\ UNCHANGED <<jobVars, avail, gapWarned, notified, cliVars>>

(* Fault: waits for a further event of a job that is over. *)
AfterBatchWaits == "wait"

(* A job that is over ends the stream, sent or not what came after the batch
   was measured.  The listener's token outlives the gap between this check and
   the select that follows it. *)
AfterBatch == IF done THEN "closed" ELSE "wait"

CheckDone ==
  /\ srv = "deliver" /\ ~InBatch
  /\ srv' = AfterBatch
  /\ UNCHANGED <<jobVars, startIndex, idx, avail, gapWarned, notified, wire, cliVars>>

Wake ==
  /\ srv = "wait" /\ notified
  /\ notified' = FALSE
  /\ srv' = "snapshot"
  /\ UNCHANGED <<jobVars, startIndex, idx, avail, gapWarned, wire, cliVars>>

-----------------------------------------------------------------------------
(* The client *)

(* Faults: the acknowledged event again; an absent id taken for event 0's. *)
ResumeAtLast(id) == id
ResumeDefaultZero(id) == IF id = -1 THEN 1 ELSE id + 1

(* streamSSE's reading of the Last-Event-ID header; absent and empty agree. *)
Resume(id) == IF id = -1 THEN -1 ELSE id + 1

(* Fault: one retry too many. *)
RetryOnceMore ==
  IF retries <= MaxRetries
  THEN cli' = "connecting" /\ retries' = retries + 1
  ELSE cli' = "failed" /\ UNCHANGED retries

(* The retry counter counts failures of the whole read and is never reset. *)
Retry ==
  IF retries < MaxRetries
  THEN cli' = "connecting" /\ retries' = retries + 1
  ELSE cli' = "failed" /\ UNCHANGED retries

Connect ==
  /\ cli = "connecting" /\ registered
  /\ cli' = "reading"
  /\ srv' = "snapshot" /\ startIndex' = Resume(lastEventID)
  /\ idx' = 0 /\ avail' = 0 /\ gapWarned' = FALSE
  /\ notified' = FALSE /\ wire' = <<>>
  /\ UNCHANGED <<jobVars, lastEventID, retries, out, warned, exitCode, drops, torn>>

ConnectRejected ==
  /\ cli = "connecting" /\ ~registered
  /\ cli' = "rejected"
  /\ UNCHANGED <<jobVars, srvVars, notified, wire,
                 lastEventID, retries, out, warned, exitCode, drops, torn>>

ConnectFails ==
  /\ cli = "connecting"
  /\ Retry
  /\ drops' = drops + 1
  /\ UNCHANGED <<jobVars, srvVars, notified, wire,
                 lastEventID, out, warned, exitCode, torn>>

ReadFrame ==
  /\ cli = "reading" /\ wire # <<>>
  /\ wire' = Tail(wire)
  /\ LET f == Head(wire) IN
       /\ lastEventID' = f.id
       /\ IF f.ev.kind = "gap"
          THEN warned' = warned \cup {f.id} /\ UNCHANGED out
          ELSE out' = Append(out, f) /\ UNCHANGED warned
       /\ IF f.ev.kind = "done"
          THEN cli' = "succeeded" /\ exitCode' = f.ev.val
          ELSE UNCHANGED <<cli, exitCode>>
  /\ UNCHANGED <<jobVars, srvVars, notified, retries, drops, torn>>

(* The handler returned without a done event: EOF, and another try. *)
StreamEnds ==
  /\ cli = "reading" /\ wire = <<>> /\ srv = "closed"
  /\ Retry
  /\ UNCHANGED <<jobVars, srvVars, notified, wire,
                 lastEventID, out, warned, exitCode, drops, torn>>

(* What a cut frame leaves in lastEventID: its whole id when the cut falls
   after the id line, a proper prefix of the digits when it falls inside. *)
Torn(id) ==
  (IF "afterId" \in TornCuts THEN {id} ELSE {})
    \cup (IF "inId" \in TornCuts
          THEN {-1} \cup {p \in 1 .. id : \E k \in 1 .. id : p = id \div (10 ^ k)}
          ELSE {})

(* The connection breaks.  The request's context ends and with it the
   handler: nothing it still does reaches this client or the job. *)
Break ==
  /\ cli = "reading"
  /\ \/ UNCHANGED <<lastEventID, torn>>
     \/ /\ wire # <<>>
        /\ lastEventID' \in Torn(Head(wire).id)
        /\ torn' = TRUE
  /\ Retry
  /\ drops' = drops + 1
  /\ srv' = "idle" /\ wire' = <<>>
  /\ UNCHANGED <<jobVars, startIndex, idx, avail, gapWarned, notified,
                 out, warned, exitCode>>

(* The caller's context ends. *)
Cancel ==
  /\ cli \in {"connecting", "reading"}
  /\ cli' = "cancelled"
  /\ srv' = "idle" /\ wire' = <<>>
  /\ UNCHANGED <<jobVars, startIndex, idx, avail, gapWarned, notified,
                 lastEventID, retries, out, warned, exitCode, drops, torn>>

-----------------------------------------------------------------------------
JobStep ==
  \/ Start \/ StartFails \/ CommandEnds \/ GraceExpires
  \/ \E s \in Streams : PrintLine(s) \/ PipeEnds(s) \/ PipeBreaks(s)

HandlerStep == Snapshot \/ Deliver \/ CheckDone \/ Wake

ClientStep == Connect \/ ConnectRejected \/ ReadFrame \/ StreamEnds

Next == JobStep \/ HandlerStep \/ ClientStep \/ ConnectFails \/ Break \/ Cancel

(* The handler and the client are scheduled; nothing is assumed of the
   command, of the network failures, or of the caller. *)
Fairness == WF_vars(HandlerStep) /\ WF_vars(ClientStep)

Spec == Init /\ [][Next]_vars
FairSpec == Spec /\ Fairness

-----------------------------------------------------------------------------
TypeOK ==
  /\ emitted \in Seq(Events) /\ history \in Seq(Events)
  /\ baseIndex \in Nat /\ done \in BOOLEAN
  /\ proc \in {"starting", "startFailed", "running", "exited"}
  /\ pipes \in [Streams -> {"open", "closed"}]
  /\ registered \in BOOLEAN
  /\ srv \in {"idle", "snapshot", "deliver", "wait", "closed"}
  /\ startIndex \in Int /\ idx \in Int /\ avail \in Nat
  /\ gapWarned \in BOOLEAN /\ notified \in BOOLEAN
  /\ wire \in Seq(Frames)
  /\ cli \in {"connecting", "reading"} \cup Returned
  /\ lastEventID \in Int /\ retries \in 0 .. MaxRetries
  /\ out \in Seq(Frames) /\ warned \subseteq Int
  /\ exitCode \in Int /\ drops \in Nat /\ torn \in BOOLEAN

(* The history is the newest part of everything emitted, under the right
   indices, never longer than the buffer, and it is closed exactly when the
   final event is its last: trySend, and the only writer of baseIndex. *)
ReplayWindow ==
  /\ Len(history) <= MaxReplay
  /\ baseIndex + Len(history) = Len(emitted)
  /\ \A k \in 1 .. Len(history) : history[k] = emitted[baseIndex + k]
  /\ done <=> Len(history) > 0 /\ history[Len(history)].kind = "done"

(* A gap warning names an event that is really gone from the buffer and that
   the client has not been given: streamSSE's warning branch. *)
NoSpuriousGap ==
  \A g \in warned : g < baseIndex /\ \A k \in DOMAIN out : out[k].id # g

(* When the buffer never overflowed and no break fell between an id line and
   its data line, a client that succeeds has read every event of the job, over
   however many connections. *)
NoLossWithoutEviction ==
  cli = "succeeded" /\ baseIndex = 0 /\ ~torn
    => [k \in DOMAIN out |-> out[k].ev] = emitted

(* The client gives a job up only after MaxRetries network failures, if none
   of them tore a frame: the handler's own early return, when the final event
   arrives between its last read and its check of j.done, costs a client at
   most one retry. *)
GivesUpOnlyAfterDrops == cli = "failed" /\ ~torn => drops >= MaxRetries

(* Once the job has emitted its final event the client returns, one way or
   another: no handler is left waiting for a wake-up that never comes, and no
   client for a stream that never ends. *)
DoneReachesClient == done ~> cli \in Returned

Result ==
  CASE cli = "succeeded" -> "complete"
    [] cli \in {"failed", "rejected", "cancelled"} -> "abandoned"
    [] OTHER -> "pending"

Log == INSTANCE ReplayLog
         WITH Entry <- Events, log <- emitted, seen <- out, result <- Result, code <- exitCode

(* The stream implements the replay-log contract, whatever the evictions,
   breaks and reconnections, unless a break cuts an id line short. *)
Contract == Log!Init /\ [][Log!Next]_(Log!rlVars)
=============================================================================
