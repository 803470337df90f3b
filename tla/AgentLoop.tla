------------------------------ MODULE AgentLoop ------------------------------
(***************************************************************************)
(* The agent loop: Loop.Run takes one user input, asks the model, runs the *)
(* tools the model calls, and repeats until an answer without tool calls;  *)
(* before each request the conversation is compacted to its token limit.   *)
(* ExecuteTools settles a plan-mode batch of permissions and then runs the *)
(* calls of one response in parallel.  /compact and /clear work on the     *)
(* same conversation, between runs: loop.go asks its callers for that.     *)
(*                                                                         *)
(* The event channel is a counter of its occupied slots: the loop drops an *)
(* event when it is full, the tool executor waits for a slot.              *)
(***************************************************************************)
EXTENDS Conversation, FiniteSets

CONSTANTS
  MaxRounds,    \* maxCompactionRounds
  ContextLimit, \* the conversation's contextLimit
  Budget,       \* maxSessionOutputTokens; 0 disables it
  EventCap,     \* capacity of the event channel
  MaxRuns,      \* bound of the model: inputs the user sends
  MaxTurns,     \* bound of the model: model responses in all runs
  MaxCalls,     \* bound of the model: tool calls in one response
  MaxUsage,     \* bound of the model: output tokens of one response
  Sizes         \* bound of the model: sizes of messages

ASSUME AgentLoopAssumption ==
  /\ {MaxRounds, ContextLimit, Budget, MaxRuns, MaxTurns, MaxCalls, MaxUsage} \subseteq Nat
  /\ EventCap \in Nat \ {0}
  /\ Sizes \subseteq Nat \ {0}

VARIABLES
  planMode,       \* the engine is in plan mode
  autoCompaction, \* Loop.autoCompaction
  convo,          \* the messages of convo.Manager
  phase,          \* where Run, or CompactContext, is
  round,          \* ensureContextCompacted's round
  tailCount,      \* runCompactionRound's tailCount
  calls,          \* ids of the calls of the current response
  decisions,      \* per call: unknown, ask, allow, deny; running; done
  turns,          \* model responses so far
  totalOutput,    \* Loop.totalOutput
  runs,           \* inputs so far
  cancelled,      \* the run's context has ended
  queued,         \* events in the channel
  terminal,       \* the current run's DoneEvent or ErrorEvent: none, sent, dropped
  refused,        \* history variable: calls of this response not permitted
  executed,       \* history variable: calls of this response executed
  abandoned       \* history variable: responses whose run ended before their results

config == <<planMode, autoCompaction>>
toolVars == <<calls, decisions, refused, executed>>
vars == <<config, convo, phase, round, tailCount, toolVars, turns, totalOutput,
          runs, cancelled, queued, terminal, abandoned>>

OverBudget(total) == Budget > 0 /\ total > Budget
NeedsCompaction == EstimatedTokens(convo) > ContextLimit
CallIdx == DOMAIN calls
Active == phase \notin {"idle", "compact"}

Init ==
  /\ planMode \in BOOLEAN /\ autoCompaction \in BOOLEAN
  /\ convo = <<>> /\ phase = "idle" /\ round = 0 /\ tailCount = 0
  /\ calls = <<>> /\ decisions = <<>> /\ refused = {} /\ executed = {}
  /\ turns = 0 /\ totalOutput = 0 /\ runs = 0 /\ cancelled = FALSE
  /\ queued = 0 /\ terminal = "none" /\ abandoned = {}

-----------------------------------------------------------------------------
(* Events *)

(* Loop.emit, n times: what does not fit is dropped. *)
Emit(n) == queued' = IF queued + n <= EventCap THEN queued + n ELSE EventCap

(* DefaultToolExecutor.emit waits for a slot. *)
Send == queued < EventCap /\ queued' = queued + 1

(* The last of n events is the one that tells the consumer the run is over. *)
EmitTerminal(n) ==
  /\ Emit(n)
  /\ terminal' = IF queued + n <= EventCap THEN "sent" ELSE "dropped"

NoCalls == calls' = <<>> /\ decisions' = <<>> /\ refused' = {} /\ executed' = {}

Finish(n) ==
  /\ EmitTerminal(n)
  /\ phase' = "idle"
  /\ NoCalls

Consume ==
  /\ queued > 0
  /\ queued' = queued - 1
  /\ UNCHANGED <<config, convo, phase, round, tailCount, toolVars, turns,
                 totalOutput, runs, cancelled, terminal, abandoned>>

(* The heartbeats of an active run, the text deltas of a response. *)
EmitProgress ==
  /\ Active /\ queued < EventCap
  /\ Emit(1)
  /\ UNCHANGED <<config, convo, phase, round, tailCount, toolVars, turns,
                 totalOutput, runs, cancelled, terminal, abandoned>>

-----------------------------------------------------------------------------
(* Run *)

(* Warden's input guard may refuse the input: the run is over without any
   event, its message stays. *)
Run ==
  /\ phase = "idle" /\ runs < MaxRuns
  /\ runs' = runs + 1
  /\ \E s \in Sizes : convo' = Append(convo, UserMessage(s))
  /\ cancelled' = FALSE /\ terminal' = "none" /\ round' = 0
  /\ phase' \in {"idle", "ensure"}
  /\ UNCHANGED <<config, tailCount, toolVars, turns, totalOutput, queued, abandoned>>

Cancel ==
  /\ Active /\ ~cancelled
  /\ cancelled' = TRUE
  /\ UNCHANGED <<config, convo, phase, round, tailCount, toolVars, turns,
                 totalOutput, runs, queued, terminal, abandoned>>

(* Fault: the limit is not looked at again once the rounds are used up. *)
ContextReadyAfterRounds == ~autoCompaction \/ ~NeedsCompaction \/ round = MaxRounds

(* ensureContextCompacted has nothing to do. *)
ContextReady == ~autoCompaction \/ ~NeedsCompaction

EnsureReturns ==
  /\ phase = "ensure" /\ ContextReady
  /\ phase' = "request"
  /\ UNCHANGED <<config, convo, round, tailCount, toolVars, turns, totalOutput,
                 runs, cancelled, queued, terminal, abandoned>>

(* Fault: one round too many. *)
OneMoreRound == round <= MaxRounds

RoundsLeft == round < MaxRounds

EnsureFails ==
  /\ phase = "ensure" /\ ~ContextReady
  /\ ~RoundsLeft \/ Len(convo) <= KeepTail
  /\ Finish(1)
  /\ UNCHANGED <<config, convo, round, tailCount, turns, totalOutput, runs, cancelled, abandoned>>

(* One more round: the cut is made on a snapshot, the summary comes later.
   Where there is no cut the round fails at once. *)
EnsureCompacts ==
  /\ phase = "ensure" /\ ~ContextReady
  /\ RoundsLeft /\ Len(convo) > KeepTail
  /\ IF CompactionCutPoints(convo) = {}
     THEN Finish(3) /\ UNCHANGED tailCount
     ELSE /\ \E cut \in CompactionCutPoints(convo) : tailCount' = Len(convo) - cut
          /\ phase' = "summarise"
          /\ Emit(1)
          /\ UNCHANGED <<toolVars, terminal>>
  /\ UNCHANGED <<config, convo, round, turns, totalOutput, runs, cancelled, abandoned>>

SummaryArrives ==
  /\ phase = "summarise"
  /\ \E s \in Sizes : convo' = Summarise(convo, s, tailCount)
  /\ round' = round + 1
  /\ phase' = "ensure"
  /\ Emit(1)
  /\ UNCHANGED <<config, tailCount, toolVars, turns, totalOutput, runs,
                 cancelled, terminal, abandoned>>

(* The summary's request fails, or the summary is empty. *)
SummaryFails ==
  /\ phase = "summarise"
  /\ Finish(2)
  /\ UNCHANGED <<config, convo, round, tailCount, turns, totalOutput, runs, cancelled, abandoned>>

(* Generate opens the stream of the next response. *)
Generate ==
  /\ phase = "request" /\ ~cancelled
  /\ phase' = "stream"
  /\ UNCHANGED <<config, convo, round, tailCount, toolVars, turns, totalOutput,
                 runs, cancelled, queued, terminal, abandoned>>

StreamFails ==
  /\ phase \in {"request", "stream"}
  /\ Finish(1)
  /\ UNCHANGED <<config, convo, round, tailCount, turns, totalOutput, runs, cancelled, abandoned>>

Ids(n) == [i \in 1 .. n |-> <<turns, i>>]

(* Run's budget check comes before anything of the response is recorded. *)
BudgetExceeded(used) == OverBudget(totalOutput + used)

(* The total is counted up to the first value over the budget. *)
CountUsage(used) ==
  totalOutput' = IF OverBudget(totalOutput + used) THEN Budget + 1 ELSE totalOutput + used

(* The response is complete.  Over budget it is dropped; refused by Warden's
   output guard it stays in the history and its calls are never answered. *)
StreamEnds ==
  /\ phase = "stream"
  /\ \E used \in 0 .. MaxUsage, n \in 0 .. MaxCalls :
       /\ turns + 1 >= MaxTurns => n = 0
       /\ CountUsage(used)
       /\ turns' = turns + 1
       /\ \/ /\ BudgetExceeded(used)
             /\ Finish(1)
             /\ UNCHANGED <<convo, abandoned>>
          \/ /\ ~BudgetExceeded(used)
             /\ convo' = Append(convo, AssistantMessage(Ids(n), 1))
             /\ \/ /\ Finish(2)
                   /\ abandoned' = IF n = 0 THEN abandoned ELSE abandoned \cup {Ids(n)}
                \/ /\ n = 0
                   /\ Finish(2)
                   /\ UNCHANGED abandoned
                \/ /\ n > 0
                   /\ calls' = Ids(n)
                   /\ decisions' = [i \in 1 .. n |-> "unknown"]
                   /\ phase' = "execute"
                   /\ Emit(1)
                   /\ UNCHANGED <<refused, executed, terminal, abandoned>>
  /\ UNCHANGED <<config, round, tailCount, runs, cancelled>>

-----------------------------------------------------------------------------
(* ExecuteTools *)

(* In plan mode every call is allowed, denied, or to be asked about before
   any of them starts. *)
PlanBatch ==
  /\ phase = "execute" /\ planMode
  /\ \E d \in [CallIdx -> {"allow", "deny", "ask"}] :
       /\ decisions' = d
       /\ refused' = {i \in CallIdx : d[i] = "deny"}
       /\ phase' = IF \E i \in CallIdx : d[i] = "ask" THEN "propose" ELSE "tools"
  /\ UNCHANGED <<config, convo, round, tailCount, calls, executed, turns, totalOutput,
                 runs, cancelled, queued, terminal, abandoned>>

SkipBatch ==
  /\ phase = "execute" /\ ~planMode
  /\ phase' = "tools"
  /\ UNCHANGED <<config, convo, round, tailCount, toolVars, turns, totalOutput,
                 runs, cancelled, queued, terminal, abandoned>>

ProposeBatch ==
  /\ phase = "propose"
  /\ Send
  /\ phase' = "batch"
  /\ UNCHANGED <<config, convo, round, tailCount, toolVars, turns, totalOutput,
                 runs, cancelled, terminal, abandoned>>

(* Fault: the decision is applied to every call, not to the batch. *)
ApplyToAll(d) == [i \in CallIdx |-> d]

ApplyToBatch(d) == [i \in CallIdx |-> IF decisions[i] = "ask" THEN d ELSE decisions[i]]

(* The user's one decision on the batch; anything but an allowance denies. *)
DecideBatch ==
  /\ phase = "batch"
  /\ \E d \in {"allow", "deny"} :
       /\ decisions' = ApplyToBatch(d)
       /\ refused' = IF d = "deny" THEN refused \cup {i \in CallIdx : decisions[i] = "ask"}
                                   ELSE refused
  /\ phase' = "tools"
  /\ UNCHANGED <<config, convo, round, tailCount, calls, executed, turns, totalOutput,
                 runs, cancelled, queued, terminal, abandoned>>

(* Fault: only a batch that was not sent yet is given up. *)
CancellableUntilSent == {"propose"}

Cancellable == {"propose", "batch"}

(* The run is cancelled while the batch is open: no call is answered. *)
AbandonBatch ==
  /\ phase \in Cancellable /\ cancelled
  /\ abandoned' = abandoned \cup {calls}
  /\ Finish(1)
  /\ UNCHANGED <<config, convo, round, tailCount, turns, totalOutput, runs, cancelled>>

(* executeSingleTool's permission check, where no batch decided: the user, a
   rule or the end of the run's context answers. *)
CheckPermission(i) ==
  /\ phase = "tools" /\ decisions[i] = "unknown"
  /\ \E d \in {"allow", "deny"} :
       /\ decisions' = [decisions EXCEPT ![i] = d]
       /\ refused' = IF d = "deny" THEN refused \cup {i} ELSE refused
  /\ UNCHANGED <<config, convo, phase, round, tailCount, calls, executed, turns, totalOutput,
                 runs, cancelled, queued, terminal, abandoned>>

(* A denied call is answered without being run. *)
DenyTool(i) ==
  /\ phase = "tools" /\ decisions[i] = "deny"
  /\ Send
  /\ decisions' = [decisions EXCEPT ![i] = "done"]
  /\ UNCHANGED <<config, convo, phase, round, tailCount, calls, refused, executed, turns,
                 totalOutput, runs, cancelled, terminal, abandoned>>

StartTool(i) ==
  /\ phase = "tools" /\ decisions[i] = "allow"
  /\ Send
  /\ decisions' = [decisions EXCEPT ![i] = "running"]
  /\ UNCHANGED <<config, convo, phase, round, tailCount, calls, refused, executed, turns,
                 totalOutput, runs, cancelled, terminal, abandoned>>

(* Warden's action guard blocks the call, or it is executed and succeeds or
   fails: its result is an answer either way. *)
EndTool(i) ==
  /\ phase = "tools" /\ decisions[i] = "running"
  /\ Send
  /\ decisions' = [decisions EXCEPT ![i] = "done"]
  /\ executed' \in {executed, executed \cup {i}}
  /\ UNCHANGED <<config, convo, phase, round, tailCount, calls, refused, turns,
                 totalOutput, runs, cancelled, terminal, abandoned>>

AllDone == \A i \in CallIdx : decisions[i] = "done"

(* Fault: a refused call is left without a result. *)
AnswersOfAllowed ==
  LET allowed == {i \in CallIdx : i \notin refused}
  IN  [k \in 1 .. Cardinality(allowed) |->
         calls[CHOOSE i \in allowed : Cardinality({j \in allowed : j <= i}) = k]]

(* One result for every call, at the call's place. *)
Answers == calls

AppendResults ==
  /\ phase = "tools" /\ AllDone
  /\ \E s \in Sizes : convo' = Append(convo, ToolResultMessage(Answers, s))
  /\ NoCalls
  /\ phase' = "ensure" /\ round' = 0
  /\ UNCHANGED <<config, tailCount, turns, totalOutput, runs, cancelled, queued,
                 terminal, abandoned>>

-----------------------------------------------------------------------------
(* Between runs *)

(* CompactContext, the /compact command; without a cut it changes nothing. *)
StartCompact ==
  /\ phase = "idle"
  /\ \E cut \in CompactionCutPoints(convo) : tailCount' = Len(convo) - cut
  /\ phase' = "compact"
  /\ Emit(1)
  /\ UNCHANGED <<config, convo, round, toolVars, turns, totalOutput, runs,
                 cancelled, terminal, abandoned>>

EndCompact ==
  /\ phase = "compact"
  /\ \/ \E s \in Sizes : convo' = Summarise(convo, s, tailCount)
     \/ UNCHANGED convo
  /\ phase' = "idle"
  /\ Emit(1)
  /\ UNCHANGED <<config, round, tailCount, toolVars, turns, totalOutput, runs,
                 cancelled, terminal, abandoned>>

(* The /clear command: Manager.Reset. *)
Clear ==
  /\ phase = "idle" /\ convo # <<>>
  /\ convo' = <<>>
  /\ UNCHANGED <<config, phase, round, tailCount, toolVars, turns, totalOutput,
                 runs, cancelled, queued, terminal, abandoned>>

-----------------------------------------------------------------------------
Compaction == EnsureReturns \/ EnsureFails \/ EnsureCompacts \/ SummaryArrives \/ SummaryFails

Streaming == Generate \/ StreamFails \/ StreamEnds

Batch == PlanBatch \/ SkipBatch \/ ProposeBatch \/ AbandonBatch

Tool(i) == CheckPermission(i) \/ DenyTool(i) \/ StartTool(i) \/ EndTool(i)

Tools == (\E i \in CallIdx : Tool(i)) \/ AppendResults

Next ==
  \/ Run \/ Cancel \/ Consume \/ EmitProgress
  \/ Compaction \/ Streaming \/ Batch \/ DecideBatch \/ Tools
  \/ StartCompact \/ EndCompact \/ Clear

(* The loop is scheduled and the consumer drains its events.  A stream ends:
   the HTTP client gives it ten minutes.  A goroutine that waits to send an
   event is served before later events, hence strong fairness.  Once the
   run's context has ended, permission checks and tools return; of the user's
   decision on a batch nothing is assumed. *)
Fairness ==
  /\ WF_vars(Consume) /\ WF_vars(Compaction) /\ WF_vars(Streaming)
  /\ SF_vars(Batch)
  /\ SF_vars(cancelled /\ Tools)

Spec == Init /\ [][Next]_vars
FairSpec == Spec /\ Fairness

-----------------------------------------------------------------------------
Phases == {"idle", "ensure", "summarise", "request", "stream", "execute",
           "propose", "batch", "tools", "compact"}

IdSeqs == Seq(Nat \X Nat)
Messages == [role : {"user", "assistant"}, uses : IdSeqs, results : IdSeqs, size : Nat]

TypeOK ==
  /\ planMode \in BOOLEAN /\ autoCompaction \in BOOLEAN
  /\ convo \in Seq(Messages)
  /\ phase \in Phases
  /\ round \in 0 .. MaxRounds /\ tailCount \in Nat
  /\ calls \in IdSeqs
  /\ decisions \in [CallIdx -> {"unknown", "ask", "allow", "deny", "running", "done"}]
  /\ refused \subseteq CallIdx /\ executed \subseteq CallIdx
  /\ turns \in Nat /\ totalOutput \in Nat /\ runs \in Nat
  /\ cancelled \in BOOLEAN
  /\ queued \in 0 .. EventCap
  /\ terminal \in {"none", "sent", "dropped"}
  /\ abandoned \subseteq IdSeqs

(* Whatever was compacted, interrupted or blocked, tool results in the history
   stand directly behind the assistant message that asked for exactly them:
   CompactionCutPoint, Summarise and Run's appends together. *)
ResultsBacked == \A k \in DOMAIN convo : Backed(convo, k)

(* A request to the model shows every tool call answered, except the calls of
   responses whose run ended before it could append their results. *)
OnlyAbandonedUnanswered ==
  phase \in {"request", "stream"} =>
    \A k \in DOMAIN convo : Answered(convo, k) \/ convo[k].uses \in abandoned

(* The provider rejects a request in which a tool call is not answered, as
   CompactionCutPoint's comment says, so none should ever be sent. *)
RequestsPaired ==
  phase \in {"request", "stream"} => \A k \in DOMAIN convo : Answered(convo, k)

(* CompactionCutPoint's second error, no cut without breaking a pair, never
   happens to a history that is long enough. *)
CutExists == Len(convo) > KeepTail => CompactionCutPoints(convo) # {}

(* With automatic compaction no request is larger than the context limit. *)
RequestsFit ==
  autoCompaction /\ phase \in {"request", "stream"} => ~NeedsCompaction

(* A call that a rule or the user refused is not executed, in a batch or
   alone. *)
RefusalsHold == executed \cap refused = {}

(* A cancelled run returns, whatever the user leaves undecided. *)
CancelReturns == cancelled /\ Active ~> ~Active
=============================================================================
