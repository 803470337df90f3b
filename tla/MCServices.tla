----------------------------- MODULE MCServices -----------------------------
(* The components that share no state with each other, one at a time: a
   behaviour begins with the choice of a part, and only that part moves.  The
   runs therefore visit the sum of their states, not the product. *)
EXTENDS GitHubJobs, Bridge, HeadlessSession, PermissionRules, DreamMemory,
        LocalWorkers, ModelStream, Telemetry, HostedWorker, InstanceTools, TLC

CONSTANTS Parts, d1, d2, d3, e1, e2, e3, ta, tb, s1, s2, s3, x1, h1, h2, t1, t2, t3

VARIABLE part

-----------------------------------------------------------------------------
(* Jobs: the same issue twice, and another whose directory has the same name. *)
MCPayload ==
  LET D(issue, lines) == [issue |-> issue, sound |-> TRUE, event |-> "issue_comment",
                          action |-> "created", lines |-> lines]
  IN (d1 :> D("a/b.c#1", <<"mention", "text">>)) @@ (d2 :> D("a/b.c#1", <<"mention">>))
     @@ (d3 :> D("a/b-c#1", <<"bare", "text">>))
MCDirOf == [i \in Issues |-> "a-b-c-1"]

(* Bridge: two executions, and a method without a handler, which the reading
   loop answers; the last message cannot be read. *)
MCInbox ==
  LET R(method, id, sound) == [method |-> method, id |-> id, sound |-> sound]
  IN <<R("drover/execute", TRUE, "yes"), R("other", TRUE, "yes"), R("drover/execute", TRUE, "yes"),
       R("ping", TRUE, "no")>>

MCSessions == {<<"prompt", "aside", "bad">>, <<"prompt", "aside", "prompt">>}

(* Rules: two processes that ask and one with an allowlist. *)
MCMode == [e \in Engines |-> IF e = e3 THEN "allowlist" ELSE "default"]

(* Dreaming: two processes with the database, one with the file. *)
MCBackend == [s \in Processes |-> IF s = s3 THEN "json" ELSE "sqlite"]

MCReplies == {NoArray, <<"string", "blank", "string", "other", "string">>}
MCScript == <<"text", "tool", "text">>

(* A response with two blocks that overlap and kinds of events the code skips,
   one with an error behind a thinking block, one that cannot be parsed. *)
MCResponses ==
  LET E(type, index, kind) == [type |-> type, index |-> index, kind |-> kind]
  IN {<<E("ping", 0, "text"), E("start", 0, "text"), E("delta", 0, "text"), E("start", 1, "tool"),
        E("delta", 1, "tool"), E("delta", 0, "text"), E("stop", 0, "text"), E("stop", 1, "tool"),
        E("usage", 0, "text"), E("message_stop", 0, "text")>>,
      <<E("start", 0, "thinking"), E("delta", 0, "thinking"), E("stop", 0, "thinking"),
        E("start", 0, "text"), E("delta", 0, "text"), E("error", 0, "text")>>,
      <<E("start", 0, "tool"), E("stop", 0, "tool"), E("garbled", 0, "text")>>}

(* Tools: two calls in one process, one in another. *)
MCHostOf == [t \in Toolers |-> IF t = t3 THEN h2 ELSE h1]

-----------------------------------------------------------------------------
Keep(p, vars) == IF part = p THEN TRUE ELSE UNCHANGED vars

OthersStay ==
  /\ UNCHANGED part
  /\ Keep("jobs", jobsVars) /\ Keep("bridge", bridgeVars) /\ Keep("headless", headlessVars)
  /\ Keep("rules", permVars) /\ Keep("dream", dreamVars) /\ Keep("local", localVars)
  /\ Keep("stream", streamVars) /\ Keep("trace", traceVars) /\ Keep("hosted", hostedVars)
  /\ Keep("tools", toolsVars)

(* The parts that do not move begin in one state. *)
Init ==
  /\ part \in Parts
  /\ JobsInit /\ BridgeInit /\ HeadlessInit /\ PermInit /\ DreamInit
  /\ LocalInit /\ StreamInit /\ TraceInit /\ HostedInit /\ ToolsInit
  /\ part # "headless" => conf = [lines |-> <<"prompt", "aside", "bad">>, dream |-> FALSE, limit |-> FALSE]
  /\ part # "stream" => Len(response) = 3

Next ==
  \/ part = "jobs" /\ JobsNext /\ OthersStay
  \/ part = "bridge" /\ BridgeNext /\ OthersStay
  \/ part = "headless" /\ HeadlessNext /\ OthersStay
  \/ part = "rules" /\ PermNext /\ OthersStay
  \/ part = "dream" /\ DreamNext /\ OthersStay
  \/ part = "local" /\ LocalNext /\ OthersStay
  \/ part = "stream" /\ StreamNext /\ OthersStay
  \/ part = "trace" /\ TraceNext /\ OthersStay
  \/ part = "hosted" /\ HostedNext /\ OthersStay
  \/ part = "tools" /\ ToolsNext /\ OthersStay

vars == <<part, jobsVars, bridgeVars, headlessVars, permVars, dreamVars, localVars,
          streamVars, traceVars, hostedVars, toolsVars>>

(* The fairness of the parts that promise progress, as their modules state it. *)
Spec ==
  /\ Init /\ [][Next]_vars
  /\ WF_vars(part = "jobs" /\ SomeJob /\ OthersStay)
  /\ WF_vars(part = "headless" /\ exit = NoExit /\ Own /\ OthersStay)
  /\ WF_vars(part = "headless" /\ exit = NoExit /\ Main /\ OthersStay)
  /\ WF_vars(part = "headless" /\ exit = NoExit /\ Deadline /\ OthersStay)
  /\ WF_vars(part = "headless" /\ exit = NoExit /\ (Consolidate \/ StopDreaming) /\ OthersStay)
  /\ WF_vars(part = "local" /\ LocalProgress /\ OthersStay)

-----------------------------------------------------------------------------
(* The types of the variables of every part. *)
ServicesTypeOK ==
  /\ JobsTypeOK /\ BridgeTypeOK /\ HeadlessTypeOK /\ PermTypeOK /\ DreamTypeOK
  /\ LocalTypeOK /\ StreamTypeOK /\ TraceTypeOK /\ HostedTypeOK /\ ToolsTypeOK

(* What a client of the bridge can rely on: whole frames, and a conversation
   the provider accepts unless executions overlapped. *)
BridgeSound == FramesWhole /\ ResultsApartOnlyByOverlap

(* No instance is left running unnoticed, by a hosted run that returned or by
   the instance tools. *)
InstancesSound == HostedGone /\ NothingForgotten

(* What was begun ends: a queued job is answered, a session at its end exits
   when no dream worker can hold it, a task for local workers returns. *)
ServicesEnd == JobAnswered /\ EndsWithoutDreaming /\ LocalRunEnds
=============================================================================
