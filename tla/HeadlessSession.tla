--------------------------- MODULE HeadlessSession ---------------------------
(***************************************************************************)
(* One headless process: it runs its inputs one after the other, stops at  *)
(* the first that fails, hands the conversation to the dream worker, waits *)
(* for that worker, writes the result file and exits.  Beside it run a     *)
(* watchdog, which looks at the deadline and every two seconds at the      *)
(* output tokens, and the dream worker.  All three watch one context,      *)
(* which a deadline or a signal ends; os.Exit of any of them is the end of *)
(* all.                                                                    *)
(***************************************************************************)
EXTENDS Integers, Sequences

CONSTANTS
  Sessions,  \* the inputs of a session: "prompt", "aside" (empty, /commands, a refused command) or "bad" (cannot be read)
  MaxTokens  \* the budget of output tokens; a run produces up to one more

ASSUME HeadlessAssumption ==
  /\ Sessions \subseteq Seq({"prompt", "aside", "bad"}) /\ MaxTokens \in Nat \ {0}

VARIABLES
  pc,         \* where runHeadless is
  line,       \* inputs read
  hadErr,     \* an input failed
  exitCode,   \* what os.Exit is to be given for it
  ctx,        \* live, deadline or signal
  tokens,     \* SessionOutputTokens
  watchdog,   \* watching, timeout or budget (it has decided to exit), or gone
  dreamer,    \* the dream worker: off, idle, busy or stopped
  triggered,  \* a session is in its channel
  result,     \* what the session has left in the result file: none, ok or failed
  exit,       \* the exit code, or NoExit
  conf,       \* the inputs and the configuration: a dream worker, a deadline
  inTime,     \* history variable: the inputs had ended while the context was live
  unwritten   \* history variable: who, of main and watchdog, did not get its result written

headlessVars == <<pc, line, hadErr, exitCode, ctx, tokens, watchdog, dreamer, triggered,
                  result, exit, conf, inTime, unwritten>>

None == "none"
NoExit == -1   \* the process has not exited
Codes == {0, 1, 2, 4, 5}

HeadlessInit ==
  /\ pc = "scan" /\ line = 0 /\ hadErr = FALSE /\ exitCode = 1 /\ ctx = "live" /\ tokens = 0
  /\ conf \in [lines : Sessions, dream : BOOLEAN, limit : BOOLEAN]
  /\ watchdog = "watching" /\ dreamer = IF conf.dream THEN "idle" ELSE "off"
  /\ triggered = FALSE /\ result = None /\ exit = NoExit /\ inTime = FALSE
  /\ unwritten = {}

-----------------------------------------------------------------------------
(* runHeadless *)

(* The next input, or the end of them; one that cannot be read ends the session. *)
Scan ==
  /\ pc = "scan"
  /\ IF line = Len(conf.lines)
     THEN pc' = "close" /\ inTime' = (ctx = "live") /\ UNCHANGED line
     ELSE /\ line' = line + 1 /\ UNCHANGED inTime
          /\ pc' = CASE conf.lines[line + 1] = "prompt" -> "run"
                     [] conf.lines[line + 1] = "aside" -> "scan"
                     [] conf.lines[line + 1] = "bad" -> "unread"
  /\ UNCHANGED <<hadErr, exitCode, ctx, tokens, watchdog, dreamer, triggered, result, exit, conf, unwritten>>

(* headlessExitCode of the errors a run may end with. *)
Failure(over) ==
  IF over THEN {4} ELSE IF ctx = "deadline" THEN {4} ELSE IF ctx = "signal" THEN {1} ELSE {1, 5}

(* Loop.Run returns.  The loop itself ends a run that is over the budget. *)
RunOne ==
  /\ pc = "run"
  /\ \E more \in 0 .. 1 : \E fails \in BOOLEAN :
       LET over == tokens + more > MaxTokens IN
       /\ tokens' = tokens + more
       /\ over => fails
       /\ IF fails
          THEN hadErr' = TRUE /\ exitCode' \in Failure(over) /\ pc' = "close"
          ELSE pc' = "scan" /\ UNCHANGED <<hadErr, exitCode>>
  /\ UNCHANGED <<line, ctx, watchdog, dreamer, triggered, result, exit, conf, inTime, unwritten>>

(* Trigger, and a session that failed to read its input does without. *)
Flush ==
  /\ pc \in {"close", "unread"}
  /\ pc' = IF pc = "close" THEN "wait" ELSE "wait unread"
  /\ triggered' = (conf.dream /\ pc = "close")
  /\ UNCHANGED <<line, hadErr, exitCode, ctx, tokens, watchdog, dreamer, result, exit, conf, inTime, unwritten>>

(* Worker.Wait returns when the worker's goroutine has. *)
Wait ==
  /\ pc \in {"wait", "wait unread"} /\ dreamer \in {"off", "stopped"}
  /\ pc' = IF pc = "wait" THEN "result" ELSE "result unread"
  /\ UNCHANGED <<line, hadErr, exitCode, ctx, tokens, watchdog, dreamer, triggered, result, exit, conf, inTime, unwritten>>

(* writeHeadlessResultFile replaces the file as a whole.  A step of it that
   fails is only logged, and without a path there is no file: either way what
   was there stays, and the caller goes on. *)
WriteFile(who, verdict) ==
  \/ result' = verdict /\ UNCHANGED unwritten
  \/ unwritten' = unwritten \cup {who} /\ UNCHANGED result

(* Fault: the outcome of the inputs is left out. *)
WriteResultAnyway ==
  /\ pc = "result" /\ pc' = "exit" /\ WriteFile("main", IF ctx = "live" THEN "ok" ELSE "failed")
  /\ UNCHANGED <<line, hadErr, exitCode, ctx, tokens, watchdog, dreamer, triggered, exit, conf, inTime>>

WriteResult ==
  /\ pc \in {"result", "result unread"}
  /\ pc' = IF pc = "result" THEN "exit" ELSE "exit unread"
  /\ WriteFile("main", IF pc = "result" /\ ~hadErr /\ ctx = "live" THEN "ok" ELSE "failed")
  /\ UNCHANGED <<line, hadErr, exitCode, ctx, tokens, watchdog, dreamer, triggered, exit, conf, inTime>>

(* The context is looked at once more; a success returns from main, which
   still flushes the telemetry. *)
Exit ==
  /\ \/ /\ pc \in {"exit", "exit unread"}
        /\ \/ pc = "exit unread" /\ exit' = 2
           \/ pc = "exit" /\ hadErr /\ exit' = exitCode
           \/ pc = "exit" /\ ~hadErr /\ ctx # "live" /\ exit' = IF ctx = "deadline" THEN 4 ELSE 1
           \/ pc = "exit" /\ ~hadErr /\ ctx = "live" /\ UNCHANGED exit
        /\ pc' = "returned"
     \/ pc = "returned" /\ exit' = 0 /\ UNCHANGED pc
  /\ UNCHANGED <<line, hadErr, exitCode, ctx, tokens, watchdog, dreamer, triggered, result, conf, inTime, unwritten>>

Main == Scan \/ RunOne \/ Flush \/ Wait \/ WriteResult \/ Exit

-----------------------------------------------------------------------------
(* The dream worker.  Its select takes either case when both are ready. *)
Consolidate ==
  /\ \/ dreamer = "idle" /\ triggered /\ dreamer' = "busy" /\ triggered' = FALSE
     \/ dreamer = "busy" /\ dreamer' = "idle" /\ UNCHANGED triggered
  /\ UNCHANGED <<pc, line, hadErr, exitCode, ctx, tokens, watchdog, result, exit, conf, inTime, unwritten>>

StopDreaming ==
  /\ dreamer = "idle" /\ ctx # "live" /\ dreamer' = "stopped"
  /\ UNCHANGED <<pc, line, hadErr, exitCode, ctx, tokens, watchdog, triggered, result, exit, conf, inTime, unwritten>>

(* The watchdog: it decides, writes a result of its own, if it can, and exits. *)
Notice ==
  /\ watchdog = "watching"
  /\ \/ ctx = "deadline" /\ watchdog' = "timeout"
     \/ ctx = "signal" /\ watchdog' = "gone"
     \/ tokens > MaxTokens /\ watchdog' = "budget"
  /\ UNCHANGED <<pc, line, hadErr, exitCode, ctx, tokens, dreamer, triggered, result, exit, conf, inTime, unwritten>>

WatchdogExit ==
  /\ \/ /\ watchdog \in {"timeout", "budget"} /\ watchdog' = "leaving"
        /\ WriteFile("watchdog", "failed") /\ UNCHANGED exit
     \/ watchdog = "leaving" /\ exit' = 4 /\ UNCHANGED <<result, watchdog, unwritten>>
  /\ UNCHANGED <<pc, line, hadErr, exitCode, ctx, tokens, dreamer, triggered, conf, inTime>>

Deadline ==
  /\ conf.limit /\ ctx = "live" /\ ctx' = "deadline"
  /\ UNCHANGED <<pc, line, hadErr, exitCode, tokens, watchdog, dreamer, triggered, result, exit, conf, inTime, unwritten>>

Signal ==
  /\ ctx = "live" /\ pc # "returned" /\ ctx' = "signal"
  /\ UNCHANGED <<pc, line, hadErr, exitCode, tokens, watchdog, dreamer, triggered, result, exit, conf, inTime, unwritten>>

Own == Main \/ Consolidate \/ StopDreaming \/ Notice \/ WatchdogExit \/ Deadline

HeadlessNext == exit = NoExit /\ (Own \/ Signal)

(* Goroutines that can run do, and a deadline that is set comes.  A signal need not. *)
HeadlessSpec ==
  /\ HeadlessInit /\ [][HeadlessNext]_headlessVars
  /\ WF_headlessVars(exit = NoExit /\ Own)
  /\ WF_headlessVars(exit = NoExit /\ Main)
  /\ WF_headlessVars(exit = NoExit /\ Deadline)
  /\ WF_headlessVars(exit = NoExit /\ (Consolidate \/ StopDreaming))

-----------------------------------------------------------------------------
HeadlessTypeOK ==
  /\ pc \in {"scan", "run", "close", "unread", "wait", "wait unread", "result", "result unread",
             "exit", "exit unread", "returned"}
  /\ line \in 0 .. Len(conf.lines) /\ hadErr \in BOOLEAN /\ exitCode \in Codes
  /\ ctx \in {"live", "deadline", "signal"} /\ tokens \in Nat
  /\ watchdog \in {"watching", "timeout", "budget", "leaving", "gone"}
  /\ dreamer \in {"off", "idle", "busy", "stopped"} /\ triggered \in BOOLEAN
  /\ result \in {None, "ok", "failed"} /\ exit \in Codes \cup {NoExit}
  /\ conf \in [lines : Sessions, dream : BOOLEAN, limit : BOOLEAN] /\ inTime \in BOOLEAN
  /\ unwritten \subseteq {"main", "watchdog"}

(* What the orchestrator reads and the exit code it sees agree.  "ok" is only
   written, and code 0 only returned, when every input succeeded in time; a
   result "ok" beside another code means that the context ended after the file
   was written; a "failed" beside code 0 is the watchdog's, which came between;
   and a session only exits without any result when a write was not done.  Code
   0 does not say that there is a result: a failed write is not reported. *)
ResultMatchesExit ==
  /\ result = "ok" => ~hadErr /\ inTime
  /\ exit = 0 => ~hadErr /\ inTime
  /\ exit = 0 => \/ result = "ok"
                 \/ result = "failed" /\ watchdog = "leaving"
                 \/ result = None /\ "main" \in unwritten
  /\ exit \notin {0, NoExit} /\ result = "ok" => ctx # "live"
  /\ exit # NoExit /\ result = None => unwritten # {}

(* A session that is at its end exits, when there is no dream worker to wait
   for or a deadline that stops it. *)
EndsWithoutDreaming == pc \in {"close", "unread"} /\ (~conf.dream \/ conf.limit) ~> exit # NoExit

(* The session exits once its inputs are done: the dream worker may delay it
   by one consolidation. *)
HeadlessEnds == pc \in {"close", "unread"} ~> exit # NoExit
=============================================================================
