------------------------------ MODULE TuiSession ------------------------------
(***************************************************************************)
(* The interactive session: Bubble Tea calls Model.Update with one message *)
(* at a time, while the goroutines it starts run agent.Loop.Run, compact   *)
(* the conversation, and wait for events of the loop.  Every message that  *)
(* is handled is one action; the results of goroutines reach Update in any *)
(* order.                                                                  *)
(*                                                                         *)
(* A run is seen from the outside: it asks for permissions, sends tool     *)
(* events, emits a final event and, some time later, returns.  Events that *)
(* only change what is drawn are left out.                                 *)
(***************************************************************************)
EXTENDS Integers, Sequences, FiniteSets

CONSTANTS
  EventCap,     \* capacity of the event channel
  MaxJobs,      \* bound of the model: jobs that were started and inputs in the queue
  MaxRequests,  \* bound of the model: permission requests of all runs
  MaxPicks,     \* bound of the model: keys of the palette whose message is on its way
  MaxPumps      \* bound of the model: a resize adds a wait only below it

ASSUME TuiSessionAssumption ==
  /\ EventCap \in Nat \ {0}
  /\ {MaxJobs, MaxRequests, MaxPicks, MaxPumps} \subseteq Nat

VARIABLES
  queue,        \* InputArea.MessageQueue
  busy,         \* Model.agentBusy
  prompt,       \* the request of Model.PermPrompt, 0 when nil
  batch,        \* the request of Model.PermBatch, 0 when nil
  diff,         \* the request of the diff being shown, 0 when there is none
  palette,      \* the command palette is open
  picks,        \* messages of the palette that Update has not handled
  runCancel,    \* the run whose cancel function Model.runCancel holds, 0 when nil
  jobs,         \* the goroutines of runAgent and runCompact, and where each is
  cancelled,    \* the runs whose context has ended
  requests,     \* per permission request: its run, kind, status, and whether it was answered
  events,       \* the event channel
  waiters,      \* goroutines blocked in waitForEvent
  inflight      \* events received by waitForEvent and not handled by Update

uiVars == <<prompt, batch, diff, palette, picks>>
loopVars == <<queue, busy, runCancel, jobs>>
chanVars == <<events, waiters, inflight>>
vars == <<uiVars, loopVars, chanVars, cancelled, requests>>

InputKinds == {"prompt", "local", "compact"}
JobIds == DOMAIN jobs
RequestIds == DOMAIN requests

Init ==
  /\ queue = <<>> /\ busy = FALSE /\ runCancel = 0 /\ jobs = <<>>
  /\ prompt = 0 /\ batch = 0 /\ diff = 0 /\ palette = FALSE /\ picks = 0
  /\ cancelled = {} /\ requests = <<>>
  /\ events = <<>> /\ waiters = 1 /\ inflight = {}

-----------------------------------------------------------------------------
(* The goroutines *)

(* A run is working, ended when it has emitted its last event, and returned; a
   compaction is compacting, and compacted.  A job is over when its completion
   message has been handled. *)
JobStates == {"working", "ended", "returned", "compacting", "compacted", "over"}

Becomes(j, state) == jobs' = [jobs EXCEPT ![j] = state]
Open(j) == {q \in RequestIds : requests[q].run = j /\ requests[q].status # "over"}

(* Loop.emit drops what does not fit. *)
Emit(ev) == events' = IF Len(events) < EventCap THEN Append(events, ev) ELSE events

(* Other sends wait for a slot. *)
Send(ev) == Len(events) < EventCap /\ events' = Append(events, ev)

(* makePermitFn, or ExecuteTools for a plan-mode batch: a batch is asked about
   before any call of the response runs.  A diff is a request of edit_file
   whose preview the session will show. *)
Ask(j, kind) ==
  /\ jobs[j] = "working"
  /\ Len(requests) < MaxRequests
  /\ \A q \in Open(j) : kind # "batch" /\ requests[q].kind # "batch"
  /\ Send([kind |-> "ask", of |-> Len(requests) + 1])
  /\ requests' = Append(requests, [run |-> j, kind |-> kind, status |-> "asked", answered |-> FALSE])
  /\ UNCHANGED <<uiVars, loopVars, waiters, inflight, cancelled>>

(* Fault: the end of the run's context is not waited for. *)
AnsweredOnly(q) == requests[q].answered

PermitReady(q) == requests[q].answered \/ requests[q].run \in cancelled

PermitReturns(q) ==
  /\ requests[q].status = "asked" /\ PermitReady(q)
  /\ requests' = [requests EXCEPT ![q].status = "settled"]
  /\ UNCHANGED <<uiVars, loopVars, chanVars, cancelled>>

(* The call is run or refused; its event is sent without looking at the
   context. *)
ToolReports(q) ==
  /\ requests[q].status = "settled"
  /\ Send([kind |-> "tool", of |-> q])
  /\ requests' = [requests EXCEPT ![q].status = "over"]
  /\ UNCHANGED <<uiVars, loopVars, waiters, inflight, cancelled>>

(* Loop.Run's last event.  Input refused by Warden, a command that is answered
   locally and one that is blocked end a run without any. *)
RunEnds(j) ==
  /\ jobs[j] = "working" /\ Open(j) = {}
  /\ \/ \E k \in {"done", "error"} : Emit([kind |-> k, of |-> j])
     \/ /\ \A q \in RequestIds : requests[q].run # j
        /\ UNCHANGED events
  /\ Becomes(j, "ended")
  /\ UNCHANGED <<uiVars, queue, busy, runCancel, waiters, inflight,
                 cancelled, requests>>

CompactEnds(j) ==
  /\ jobs[j] = "compacting"
  /\ Becomes(j, "compacted")
  /\ UNCHANGED <<uiVars, queue, busy, runCancel, chanVars, cancelled, requests>>

(* Run waits for its heartbeat and writes its trace before it returns: the
   completion message follows the last event by as long as that takes.  The
   run's context ends with it. *)
RunReturns(j) ==
  /\ jobs[j] = "ended"
  /\ Becomes(j, "returned")
  /\ cancelled' = cancelled \cup {j}
  /\ UNCHANGED <<uiVars, queue, busy, runCancel, chanVars, requests>>

(* Fault: a wait that nobody started. *)
ReceiveAlways == TRUE

CanReceive == waiters > 0

Receive ==
  /\ events # <<>> /\ CanReceive
  /\ events' = Tail(events)
  /\ inflight' = inflight \cup {Head(events)}
  /\ waiters' = waiters - 1
  /\ UNCHANGED <<uiVars, loopVars, cancelled, requests>>

-----------------------------------------------------------------------------
(* submitInput *)

(* Starts the goroutine of an input that is no local command, after busy was
   reset; js are the jobs and w the waits that the handler leaves behind. *)
Submit(kind, w, js) ==
  /\ busy' = (kind # "local")
  /\ jobs' = IF kind = "local" THEN js
             ELSE Append(js, IF kind = "compact" THEN "compacting" ELSE "working")
  /\ runCancel' = IF kind = "prompt" THEN Len(js) + 1 ELSE runCancel
  /\ waiters' = IF kind = "compact" THEN w + 1 ELSE w

(* Fault: only the first queued input is looked at. *)
FirstOnly(q) == [start |-> IF q = <<>> THEN "local" ELSE q[1], rest |-> SubSeq(q, 2, Len(q))]

(* The loop that empties the queue: local commands are answered in passing, the
   first other input is started.  It dequeues before it looks at agentBusy, so
   the input behind the one that was started is dropped. *)
NextQueued(q) ==
  LET jobAt == {k \in DOMAIN q : q[k] # "local"}
  IN  IF jobAt = {} THEN [start |-> "local", rest |-> <<>>]
      ELSE LET k == CHOOSE k \in jobAt : \A l \in jobAt : k <= l
           IN  [start |-> q[k], rest |-> SubSeq(q, k + 2, Len(q))]

-----------------------------------------------------------------------------
(* Messages of the goroutines *)

(* Fault: a permission request does not renew its wait. *)
RenewedUnlessAsk(ev) == IF ev.kind = "ask" THEN waiters ELSE waiters + 1

(* Every agent event renews the wait that brought it. *)
Renewed(ev) == waiters + 1

(* A request replaces whatever request is shown. *)
ShowRequest(ev) ==
  /\ ev.kind = "ask"
  /\ LET kind == requests[ev.of].kind IN
       /\ prompt' = IF kind = "batch" THEN 0 ELSE ev.of
       /\ batch' = IF kind = "batch" THEN ev.of ELSE 0
       /\ diff' = IF kind = "diff" THEN ev.of ELSE diff
  /\ waiters' = Renewed(ev)
  /\ UNCHANGED <<palette, picks, loopVars>>

ShowTool(ev) ==
  /\ ev.kind = "tool"
  /\ waiters' = Renewed(ev)
  /\ UNCHANGED <<uiVars, loopVars>>

(* DoneEvent starts one queued input. *)
ShowDone(ev) ==
  /\ ev.kind = "done"
  /\ Submit(IF queue = <<>> THEN "local" ELSE Head(queue), Renewed(ev), jobs)
  /\ queue' = SubSeq(queue, 2, Len(queue))
  /\ UNCHANGED uiVars

ShowError(ev) ==
  /\ ev.kind = "error"
  /\ busy' = FALSE /\ queue' = <<>>
  /\ waiters' = Renewed(ev)
  /\ UNCHANGED <<uiVars, runCancel, jobs>>

HandleEvent(ev) ==
  /\ ev \in inflight
  /\ inflight' = inflight \ {ev}
  /\ ShowRequest(ev) \/ ShowTool(ev) \/ ShowDone(ev) \/ ShowError(ev)
  /\ UNCHANGED <<events, cancelled, requests>>

Serve(w, js) ==
  LET next == NextQueued(queue)
  IN  Submit(next.start, w, js) /\ queue' = next.rest

(* agentRunCompleteMsg and compactCompleteMsg: the session is not busy any
   more, and the queue is served.  A compaction leaves one more wait. *)
HandleCompletion(j) ==
  /\ jobs[j] \in {"returned", "compacted"}
  /\ Serve(IF jobs[j] = "compacted" THEN waiters + 1 ELSE waiters, [jobs EXCEPT ![j] = "over"])
  /\ UNCHANGED <<uiVars, events, inflight, cancelled, requests>>

-----------------------------------------------------------------------------
(* The user *)

Resize ==
  /\ waiters + Cardinality(inflight) < MaxPumps
  /\ waiters' = waiters + 1
  /\ UNCHANGED <<uiVars, loopVars, events, inflight, cancelled, requests>>

(* Keys go to the diff, else to the palette, else to a prompt. *)
AtPalette == diff = 0 /\ palette
AtPrompt == diff = 0 /\ ~palette /\ prompt # 0
AtBatch == diff = 0 /\ ~palette /\ prompt = 0 /\ batch # 0
AtInput == diff = 0 /\ ~palette /\ prompt = 0 /\ batch = 0

(* The send to a request's one-slot channel; what is sent makes no difference
   to the session. *)
Respond(q) == requests' = [requests EXCEPT ![q].answered = TRUE]

CancelDiff ==
  /\ diff # 0
  /\ diff' = 0
  /\ UNCHANGED <<prompt, batch, palette, picks, loopVars, chanVars, cancelled, requests>>

(* Applying the accepted hunks may fail; otherwise the request that is shown
   now is answered, whichever request the diff belongs to. *)
ApplyDiff ==
  /\ diff # 0
  /\ diff' = 0
  /\ \/ UNCHANGED <<prompt, requests>>
     \/ /\ prompt # 0
        /\ Respond(prompt)
        /\ prompt' = 0
  /\ UNCHANGED <<batch, palette, picks, loopVars, chanVars, cancelled>>

(* Fault: the prompt stays. *)
PromptStays == prompt

PromptAnswered == 0

AnswerPrompt ==
  /\ AtPrompt
  /\ Respond(prompt)
  /\ prompt' = PromptAnswered
  /\ UNCHANGED <<batch, diff, palette, picks, loopVars, chanVars, cancelled>>

AnswerBatch ==
  /\ AtBatch
  /\ Respond(batch)
  /\ batch' = 0
  /\ UNCHANGED <<prompt, diff, palette, picks, loopVars, chanVars, cancelled>>

Enter(kind) ==
  /\ AtInput /\ Len(jobs) + Len(queue) < MaxJobs
  /\ IF busy
     THEN queue' = Append(queue, kind) /\ UNCHANGED <<busy, jobs, runCancel, waiters>>
     ELSE Submit(kind, waiters, jobs) /\ UNCHANGED queue
  /\ UNCHANGED <<uiVars, events, inflight, cancelled, requests>>

(* Ctrl+C, while busy: the context of the run that was started last ends. *)
Interrupt ==
  /\ AtInput /\ busy /\ runCancel # 0
  /\ cancelled' = cancelled \cup {runCancel}
  /\ runCancel' = 0
  /\ UNCHANGED <<uiVars, queue, busy, jobs, chanVars, requests>>

OpenPalette ==
  /\ AtInput /\ ~busy
  /\ palette' = TRUE
  /\ UNCHANGED <<prompt, batch, diff, picks, loopVars, chanVars, cancelled, requests>>

(* Enter or Escape: the palette answers with a message and stays open until
   that is handled, so a second key makes a second message. *)
PaletteKey ==
  /\ AtPalette /\ picks < MaxPicks
  /\ picks' = picks + 1
  /\ UNCHANGED <<prompt, batch, diff, palette, loopVars, chanVars, cancelled, requests>>

(* Cancelled, a local action, or text put into the input. *)
PaletteCloses ==
  /\ picks > 0
  /\ picks' = picks - 1 /\ palette' = FALSE
  /\ UNCHANGED <<prompt, batch, diff, loopVars, chanVars, cancelled, requests>>

(* A custom command is run without setting busy; compaction sets it. *)
PaletteRuns(kind) ==
  /\ picks > 0 /\ Len(jobs) + Len(queue) < MaxJobs
  /\ picks' = picks - 1 /\ palette' = FALSE
  /\ jobs' = Append(jobs, IF kind = "compact" THEN "compacting" ELSE "working")
  /\ IF kind = "compact"
     THEN busy' = TRUE /\ waiters' = waiters + 1 /\ UNCHANGED runCancel
     ELSE runCancel' = Len(jobs) + 1 /\ UNCHANGED <<busy, waiters>>
  /\ UNCHANGED <<prompt, batch, diff, queue, events, inflight, cancelled, requests>>

-----------------------------------------------------------------------------
Job(j) ==
  \/ RunEnds(j) \/ RunReturns(j) \/ CompactEnds(j) \/ HandleCompletion(j)
  \/ \E kind \in {"tool", "diff", "batch"} : Ask(j, kind)

Permission(q) == PermitReturns(q) \/ ToolReports(q)

User ==
  \/ Resize \/ CancelDiff \/ ApplyDiff \/ Interrupt \/ AnswerPrompt \/ AnswerBatch
  \/ OpenPalette \/ PaletteKey \/ PaletteCloses
  \/ \E kind \in InputKinds : Enter(kind)
  \/ \E kind \in {"prompt", "compact"} : PaletteRuns(kind)

Next ==
  \/ \E j \in JobIds : Job(j)
  \/ \E q \in RequestIds : Permission(q)
  \/ Receive
  \/ \E ev \in inflight : HandleEvent(ev)
  \/ User

(* Goroutines are scheduled and Bubble Tea handles every message; a tool's
   send is served before later ones, hence strong fairness.  A run whose
   context has ended comes to its end.  Nothing is assumed of the user. *)
Fairness ==
  /\ WF_vars(Receive)
  /\ WF_vars(\E ev \in inflight : HandleEvent(ev))
  /\ WF_vars(\E j \in JobIds : RunReturns(j))
  /\ WF_vars(\E j \in JobIds : HandleCompletion(j))
  /\ WF_vars(\E q \in RequestIds : requests[q].run \in cancelled /\ PermitReturns(q))
  /\ SF_vars(\E q \in RequestIds : ToolReports(q))
  /\ WF_vars(\E j \in cancelled : RunEnds(j))

Spec == Init /\ [][Next]_vars
FairSpec == Spec /\ Fairness

-----------------------------------------------------------------------------
Shown == {q \in {prompt, batch} : q # 0}
EventRecords ==
  [kind : {"ask", "tool"}, of : RequestIds] \cup [kind : {"done", "error"}, of : JobIds]

TypeOK ==
  /\ queue \in Seq(InputKinds) /\ busy \in BOOLEAN
  /\ {prompt, batch, diff} \subseteq RequestIds \cup {0}
  /\ palette \in BOOLEAN /\ picks \in Nat
  /\ runCancel \in JobIds \cup {0} /\ cancelled \subseteq JobIds
  /\ jobs \in Seq(JobStates)
  /\ requests \in Seq([run : JobIds, kind : {"tool", "diff", "batch"},
                       status : {"asked", "settled", "over"}, answered : BOOLEAN])
  /\ events \in Seq(EventRecords) /\ waiters \in Nat /\ inflight \subseteq EventRecords

(* A session that refuses or queues input is not left in that state: some
   goroutine is still to report its completion, which serves the queue and ends
   the busy state.  agentRunCompleteMsg, compactCompleteMsg, DoneEvent. *)
NothingStranded == busy \/ queue # <<>> => \E j \in JobIds : jobs[j] # "over"

(* The event channel always has a reader, or Update is about to renew one: the
   tool executor's sends, which look at no context, never wait for ever. *)
EventsPumped == waiters > 0 \/ inflight # {}

(* A prompt on the screen has not been answered yet: a second send to its
   one-slot channel would stop Update, and with it the whole session. *)
ShownUnanswered == \A q \in Shown : ~requests[q].answered

(* A run that is interrupted returns, though its prompts may never be
   answered: makePermitFn's contexts, and a session that goes on reading. *)
InterruptReturns ==
  \A j \in 1 .. MaxJobs :
    j \in cancelled ~> j \in JobIds /\ jobs[j] = "over"

(* Loop: "NOT safe for concurrent use - run one input at a time". *)
OneRunAtATime == Cardinality({j \in JobIds : jobs[j] \in {"working", "ended", "compacting"}}) <= 1
=============================================================================
