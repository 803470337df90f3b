----------------------------- MODULE GitHubJobs -----------------------------
(***************************************************************************)
(* The GitHub webhook server and its runner.  A delivery is checked and    *)
(* answered with 202; when its comment mentions the program and no job of  *)
(* its issue is active, a goroutine waits for one of MaxConcurrent slots,  *)
(* posts a placeholder comment, clones the repository into a directory     *)
(* named after repository and issue, lets the agent work there, removes    *)
(* the directory and replaces the placeholder, all under one deadline.     *)
(* The server may be stopped at any time: Shutdown waits for handlers, not *)
(* for jobs, and what a job left in the work directory stays.              *)
(***************************************************************************)
EXTENDS Naturals, Sequences, FiniteSets, FiniteSetsExt

CONSTANTS
  Deliveries,    \* webhook deliveries
  Payload,       \* what each carries: records with the fields below
  DirOf,         \* the directory of an issue: "/" and "." of the name become "-", so issues may share one
  MaxConcurrent, \* maxConcurrent, the capacity of the semaphore
  MaxStops       \* bound: how often the server is stopped and started again

Issues == {Payload[d].issue : d \in Deliveries}
LineKinds == {"mention", "bare", "blank", "at", "text"}
NoClone == "no clone"

ASSUME GitHubJobsAssumption ==
  /\ IsFiniteSet(Deliveries) /\ NoClone \notin Deliveries
  /\ \A d \in Deliveries :
       /\ Payload[d].sound \in BOOLEAN
       /\ Payload[d].event \in {"issue_comment", "pull_request_review_comment", "other"}
       /\ Payload[d].action \in {"created", "edited"}
       /\ Payload[d].lines \in Seq(LineKinds)
  /\ DOMAIN DirOf = Issues
  /\ MaxConcurrent \in Nat \ {0} /\ MaxStops \in Nat

VARIABLES
  hook,      \* where the handling of each delivery is
  active,    \* Server.activeJobs: issues
  busy,      \* jobs that hold a slot of Server.sem
  comment,   \* the comment of each delivery's job: none, placeholder or final
  clones,    \* the delivery whose clone is in each directory, or NoClone
  stops,     \* how often the server has been stopped
  expired,   \* jobs whose deadline has passed
  unreached  \* history variable: jobs with a GitHub call that failed

jobsVars == <<hook, active, busy, comment, clones, stops, expired, unreached>>

Issue(d) == Payload[d].issue
Dir(d) == DirOf[Issue(d)]
Dirs == {DirOf[i] : i \in Issues}
Running == {"post", "clone", "run", "update", "release"}
Steps == {"sent", "refused", "ignored", "accepted", "skipped", "queued", "unmark", "ended", "lost"} \cup Running

(* extractMention: the places of the lines that make the request.  "mention"
   is a line with the name and text behind it, "bare" one with only the name,
   "at" one that starts with another name.  The request ends at an empty line;
   without a mention it is the line after the first bare name, whatever it says. *)
Request(lines) ==
  LET At(kinds) == {i \in DOMAIN lines : lines[i] \in kinds}
      First(S) == IF S = {} THEN Len(lines) + 1 ELSE Min(S)
      start == First(At({"mention"}))
      bare == First(At({"bare"}))
      stop == First({i \in At({"blank"}) : i > start})
  IN IF start \in DOMAIN lines
     THEN {i \in At({"mention", "text"}) : start <= i /\ i < stop}
     ELSE LET after == {i \in At({"text", "at", "bare"}) : i > bare}
          IN IF after = {} THEN {} ELSE {Min(after)}

(* ParseWebhook finds a trigger. *)
Triggers(d) ==
  /\ Payload[d].event \in {"issue_comment", "pull_request_review_comment"}
  /\ Payload[d].action = "created"
  /\ Request(Payload[d].lines) # {}

JobsInit ==
  /\ hook = [d \in Deliveries |-> "sent"] /\ active = {} /\ busy = {}
  /\ comment = [d \in Deliveries |-> "none"] /\ clones = [n \in Dirs |-> NoClone]
  /\ stops = 0 /\ expired = {} /\ unreached = {}

HookTo(d, step) == hook' = [hook EXCEPT ![d] = step]

-----------------------------------------------------------------------------
(* handleWebhook *)

(* Method, length, signature and JSON are checked before the delivery is accepted. *)
Receive(d) ==
  /\ hook[d] = "sent"
  /\ HookTo(d, IF ~Payload[d].sound THEN "refused" ELSE IF Triggers(d) THEN "accepted" ELSE "ignored")
  /\ UNCHANGED <<active, busy, comment, clones, stops, expired, unreached>>

(* Fault: the check for an active job is missing. *)
EnqueueAlways(d) ==
  /\ hook[d] = "accepted"
  /\ HookTo(d, "queued") /\ active' = active \cup {Issue(d)}
  /\ UNCHANGED <<busy, comment, clones, stops, expired, unreached>>

(* Under mu: one job per issue; a delivery that finds one is dropped, though
   it has been answered with 202. *)
Enqueue(d) ==
  /\ hook[d] = "accepted"
  /\ IF Issue(d) \in active
     THEN HookTo(d, "skipped") /\ UNCHANGED active
     ELSE HookTo(d, "queued") /\ active' = active \cup {Issue(d)}
  /\ UNCHANGED <<busy, comment, clones, stops, expired, unreached>>

(* s.sem <- struct{}{}; the deadline starts here. *)
Start(d) ==
  /\ hook[d] = "queued" /\ Cardinality(busy) < MaxConcurrent
  /\ HookTo(d, "post") /\ busy' = busy \cup {d}
  /\ UNCHANGED <<active, comment, clones, stops, expired, unreached>>

(* The deferred calls run last to first: the slot, then the mark. *)
Release(d) ==
  /\ hook[d] = "release" /\ HookTo(d, "unmark")
  /\ busy' = busy \ {d}
  /\ UNCHANGED <<active, comment, clones, stops, expired, unreached>>

Unmark(d) ==
  /\ hook[d] = "unmark" /\ HookTo(d, "ended")
  /\ active' = active \ {Issue(d)}
  /\ UNCHANGED <<busy, comment, clones, stops, expired, unreached>>

-----------------------------------------------------------------------------
(* Runner.Handle *)

(* A call that fails may have reached GitHub all the same; then the comment
   is there, but its number is not known and nothing replaces it. *)
Post(d) ==
  /\ hook[d] = "post"
  /\ \/ d \notin expired /\ HookTo(d, "clone") /\ comment' = [comment EXCEPT ![d] = "placeholder"]
        /\ UNCHANGED unreached
     \/ /\ HookTo(d, "release") /\ unreached' = unreached \cup {d}
        /\ \E reached \in BOOLEAN :
             comment' = IF reached THEN [comment EXCEPT ![d] = "placeholder"] ELSE comment
  /\ UNCHANGED <<active, busy, clones, stops, expired>>

(* git refuses a directory that is not empty; the clean-up of a clone that
   failed removes the directory, whoever it belongs to. *)
Clone(d) ==
  /\ hook[d] = "clone"
  /\ \/ /\ d \notin expired /\ clones[Dir(d)] = NoClone
        /\ clones' = [clones EXCEPT ![Dir(d)] = d] /\ HookTo(d, "run")
     \/ clones' = [clones EXCEPT ![Dir(d)] = NoClone] /\ HookTo(d, "update")
  /\ UNCHANGED <<active, busy, comment, stops, expired, unreached>>

(* The agent loop ends, with an answer or an error, and the clone is removed. *)
Work(d) ==
  /\ hook[d] = "run" /\ HookTo(d, "update")
  /\ clones' = [clones EXCEPT ![Dir(d)] = NoClone]
  /\ UNCHANGED <<active, busy, comment, stops, expired, unreached>>

(* The answer or the error replaces the placeholder, under the same deadline. *)
Update(d) ==
  /\ hook[d] = "update" /\ HookTo(d, "release")
  /\ \/ d \notin expired /\ comment' = [comment EXCEPT ![d] = "final"] /\ UNCHANGED unreached
     \/ unreached' = unreached \cup {d} /\ UNCHANGED comment
  /\ UNCHANGED <<active, busy, clones, stops, expired>>

Expire(d) ==
  /\ hook[d] \in Running \ {"release"} /\ d \notin expired
  /\ expired' = expired \cup {d}
  /\ UNCHANGED <<hook, active, busy, comment, clones, stops, unreached>>

-----------------------------------------------------------------------------
(* The process ends, by a signal or a crash, and is started again: jobs and
   their marks are gone, directories and comments stay. *)
Stop ==
  /\ stops < MaxStops /\ stops' = stops + 1
  /\ hook' = [d \in Deliveries |->
                IF hook[d] \in Running \cup {"accepted", "queued", "unmark"} THEN "lost" ELSE hook[d]]
  /\ active' = {} /\ busy' = {}
  /\ UNCHANGED <<comment, clones, expired, unreached>>

JobStep(d) ==
  \/ Receive(d) \/ Enqueue(d) \/ Start(d) \/ Post(d) \/ Clone(d) \/ Work(d)
  \/ Update(d) \/ Release(d) \/ Unmark(d)

SomeJob == \E d \in Deliveries : JobStep(d)

JobsNext == SomeJob \/ (\E d \in Deliveries : Expire(d)) \/ Stop

(* Every delivery takes a bounded number of steps, so it is enough that some
   goroutine which can run does. *)
JobsSpec == JobsInit /\ [][JobsNext]_jobsVars /\ WF_jobsVars(SomeJob)

-----------------------------------------------------------------------------
JobsTypeOK ==
  /\ hook \in [Deliveries -> Steps]
  /\ active \subseteq Issues /\ busy \subseteq Deliveries
  /\ comment \in [Deliveries -> {"none", "placeholder", "final"}]
  /\ clones \in [Dirs -> Deliveries \cup {NoClone}]
  /\ stops \in 0 .. MaxStops
  /\ expired \subseteq Deliveries /\ unreached \subseteq Deliveries

(* The agent works in its own clone: while a job runs, nobody else's clone is
   in its directory and nobody removes it, unless another issue shares the
   directory's name; a clone that no job runs in is one that a stop left. *)
ClonesOwned ==
  \A d \in Deliveries :
    /\ hook[d] = "run" =>
         \/ clones[Dir(d)] = d
         \/ \E e \in Deliveries : /\ Issue(e) # Issue(d) /\ Dir(e) = Dir(d)
                                  /\ hook[e] \in Running \cup {"unmark", "ended", "lost"}
    /\ clones[Dir(d)] = d => hook[d] \in {"run", "lost"}

(* Every job that is queued replaces its placeholder by an answer, unless its
   deadline passes, a call to GitHub fails or the server is stopped: a slot
   or a mark that is not given back would leave the next job waiting. *)
JobAnswered ==
  \A d \in Deliveries :
    hook[d] = "queued" ~> comment[d] = "final" \/ d \in expired \cup unreached \/ hook[d] = "lost"
=============================================================================
