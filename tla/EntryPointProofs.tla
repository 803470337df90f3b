-------------------------- MODULE EntryPointProofs --------------------------
(***************************************************************************)
(* Proofs about the ways into the program: the webhook server of GitHub    *)
(* jobs, the JSON-RPC bridge of the IDE mode and the headless session.     *)
(***************************************************************************)
EXTENDS GitHubJobs, Bridge, HeadlessSession, SequenceTheorems, FiniteSetTheorems, TLAPS

(***************************************************************************)
(* GitHub jobs.  A job is marked from the moment it is queued until its    *)
(* goroutine is at its end, so that an issue has one job at a time; the    *)
(* clone in a directory then only changes hands when a job of another      *)
(* issue, with the same directory name, is or was under way.               *)
(***************************************************************************)
Marked == Running \cup {"queued", "unmark"}

(* Every job under way is marked, and an issue has one. *)
OneJobPerIssue ==
  /\ \A d \in Deliveries : hook[d] \in Marked => Issue(d) \in active
  /\ \A d, e \in Deliveries :
       hook[d] \in Marked /\ hook[e] \in Marked /\ Issue(d) = Issue(e) => d = e

JobsInv == JobsTypeOK /\ OneJobPerIssue /\ ClonesOwned

LEMMA JobPlaces == \A d \in Deliveries : Dir(d) \in Dirs /\ Issue(d) \in Issues
  BY GitHubJobsAssumption DEF Dir, Dirs, Issue, Issues

LEMMA InitJobs == JobsInit => JobsInv
<1> SUFFICES ASSUME JobsInit PROVE JobsInv
  OBVIOUS
<1>1. JobsTypeOK
  BY GitHubJobsAssumption DEF JobsInit, JobsTypeOK, Steps
<1>2. OneJobPerIssue
  BY DEF JobsInit, OneJobPerIssue, Marked, Running
<1>3. ClonesOwned
  BY JobPlaces, GitHubJobsAssumption DEF JobsInit, ClonesOwned
<1> QED
  BY <1>1, <1>2, <1>3 DEF JobsInv

-----------------------------------------------------------------------------
(* Types *)

LEMMA NextJobsTypes == JobsTypeOK /\ [JobsNext]_jobsVars => JobsTypeOK'
<1> SUFFICES ASSUME JobsTypeOK, [JobsNext]_jobsVars PROVE JobsTypeOK'
  OBVIOUS
<1> USE DEF JobsTypeOK, Steps, Running, HookTo
<1>1. ASSUME NEW d \in Deliveries, JobStep(d) PROVE JobsTypeOK'
  <2>1. CASE Receive(d)
    BY <2>1 DEF Receive
  <2>2. CASE Enqueue(d)
    BY <2>2, JobPlaces DEF Enqueue
  <2>3. CASE Start(d)
    BY <2>3 DEF Start
  <2>4. CASE Post(d)
    BY <2>4 DEF Post
  <2>5. CASE Clone(d)
    BY <2>5, JobPlaces DEF Clone
  <2>6. CASE Work(d)
    BY <2>6, JobPlaces DEF Work
  <2>7. CASE Update(d)
    BY <2>7 DEF Update
  <2>8. CASE Release(d)
    BY <2>8 DEF Release
  <2>9. CASE Unmark(d)
    BY <2>9 DEF Unmark
  <2> QED
    BY <1>1, <2>1, <2>2, <2>3, <2>4, <2>5, <2>6, <2>7, <2>8, <2>9 DEF JobStep
<1>2. ASSUME NEW d \in Deliveries, Expire(d) PROVE JobsTypeOK'
  BY <1>2 DEF Expire
<1>3. CASE Stop
  <2>1. hook' \in [Deliveries -> Steps]
    BY <1>3 DEF Stop
  <2>2. stops' \in 0 .. MaxStops
    BY <1>3, GitHubJobsAssumption DEF Stop
  <2> QED
    BY <1>3, <2>1, <2>2 DEF Stop
<1>4. CASE UNCHANGED jobsVars
  BY <1>4 DEF jobsVars
<1> QED
  BY <1>1, <1>2, <1>3, <1>4 DEF JobsNext, SomeJob

-----------------------------------------------------------------------------
(* What a step of one delivery does to the others. *)

LEMMA StepOfOneJob ==
  ASSUME JobsTypeOK, NEW d \in Deliveries, JobStep(d)
  PROVE  /\ hook' = [hook EXCEPT ![d] = hook'[d]]
         /\ \A e \in Deliveries : e # d => hook'[e] = hook[e]
         /\ hook'[d] # hook[d]
         /\ hook'[d] \in Marked => hook[d] \in Marked \/ Enqueue(d)
         /\ active' = active \/ Enqueue(d) \/ Unmark(d)
<1> USE DEF JobsTypeOK, HookTo, Running, Marked, Steps
<1>1. CASE Receive(d)
  BY <1>1 DEF Receive
<1>2. CASE Enqueue(d)
  BY <1>2 DEF Enqueue
<1>3. CASE Start(d)
  BY <1>3 DEF Start
<1>4. CASE Post(d)
  BY <1>4 DEF Post
<1>5. CASE Clone(d)
  BY <1>5 DEF Clone
<1>6. CASE Work(d)
  BY <1>6 DEF Work
<1>7. CASE Update(d)
  BY <1>7 DEF Update
<1>8. CASE Release(d)
  BY <1>8 DEF Release
<1>9. CASE Unmark(d)
  BY <1>9 DEF Unmark
<1> QED
  BY <1>1, <1>2, <1>3, <1>4, <1>5, <1>6, <1>7, <1>8, <1>9 DEF JobStep

LEMMA NextOneJob == JobsTypeOK /\ OneJobPerIssue /\ [JobsNext]_jobsVars => OneJobPerIssue'
<1> SUFFICES ASSUME JobsTypeOK, OneJobPerIssue, [JobsNext]_jobsVars PROVE OneJobPerIssue'
  OBVIOUS
<1>1. ASSUME NEW d \in Deliveries, JobStep(d) PROVE OneJobPerIssue'
  <2>1. CASE Enqueue(d)
    <3>1. \A e \in Deliveries \ {d} : hook'[e] = hook[e]
      BY <1>1, StepOfOneJob
    <3>2. CASE Issue(d) \in active
      <4>1. hook'[d] \notin Marked /\ active' = active
        BY <2>1, <3>2 DEF Enqueue, HookTo, JobsTypeOK, Marked, Running
      <4> QED
        BY <3>1, <4>1 DEF OneJobPerIssue, Issue
    <3>3. CASE Issue(d) \notin active
      <4>1. active' = active \cup {Issue(d)}
        BY <2>1, <3>3 DEF Enqueue
      <4> QED
        BY <3>1, <3>3, <4>1 DEF OneJobPerIssue, Issue
    <3> QED
      BY <3>2, <3>3
  <2>2. CASE Unmark(d)
    <3>1. \A e \in Deliveries \ {d} : hook'[e] = hook[e]
      BY <1>1, StepOfOneJob
    <3>2. hook[d] \in Marked /\ hook'[d] \notin Marked /\ active' = active \ {Issue(d)}
      BY <2>2 DEF Unmark, HookTo, JobsTypeOK, Marked, Running
    <3> QED
      BY <3>1, <3>2 DEF OneJobPerIssue, Issue
  <2>3. CASE ~Enqueue(d) /\ ~Unmark(d)
    <3>1. active' = active /\ \A e \in Deliveries : hook'[e] \in Marked => hook[e] \in Marked
      BY <1>1, <2>3, StepOfOneJob
    <3> QED
      BY <3>1 DEF OneJobPerIssue, Issue
  <2> QED
    BY <2>1, <2>2, <2>3
<1>2. ASSUME NEW d \in Deliveries, Expire(d) PROVE OneJobPerIssue'
  BY <1>2 DEF Expire, OneJobPerIssue, Issue
<1>3. CASE Stop
  <2>1. \A d \in Deliveries : hook'[d] \notin Marked
    BY <1>3 DEF Stop, Marked, Running
  <2> QED
    BY <2>1 DEF OneJobPerIssue
<1>4. CASE UNCHANGED jobsVars
  BY <1>4 DEF jobsVars, OneJobPerIssue, Issue
<1> QED
  BY <1>1, <1>2, <1>3, <1>4 DEF JobsNext, SomeJob

-----------------------------------------------------------------------------
(* Clones *)

Beyond == Running \cup {"unmark", "ended", "lost"}

LEMMA NextClones == JobsInv /\ [JobsNext]_jobsVars => ClonesOwned'
<1> SUFFICES ASSUME JobsInv, [JobsNext]_jobsVars PROVE ClonesOwned'
  OBVIOUS
<1> USE DEF JobsInv
<1>1. ASSUME NEW d \in Deliveries, JobStep(d) PROVE ClonesOwned'
  <2>1. \A e \in Deliveries : e # d => hook'[e] = hook[e]
    BY <1>1, StepOfOneJob
  <2>2. hook[d] \in Beyond => hook'[d] \in Beyond
    <3> USE DEF Beyond, Running, HookTo, JobsTypeOK
    <3> QED
      BY <1>1 DEF JobStep, Receive, Enqueue, Start, Post, Clone, Work, Update, Release, Unmark
  <2>3. CASE Clone(d)
    <3>1. hook[d] = "clone"
      BY <2>3 DEF Clone
    <3>2. \/ hook'[d] = "run" /\ clones' = [clones EXCEPT ![Dir(d)] = d]
          \/ hook'[d] = "update" /\ clones' = [clones EXCEPT ![Dir(d)] = NoClone]
      BY <2>3 DEF Clone, HookTo, JobsTypeOK
    <3>3. \A e \in Deliveries : e # d /\ hook[e] = "run" => Issue(e) # Issue(d)
      BY <3>1 DEF OneJobPerIssue, Marked, Running
    <3>4. ASSUME NEW e \in Deliveries, hook'[e] = "run"
          PROVE  \/ clones'[Dir(e)] = e
                 \/ \E f \in Deliveries : /\ Issue(f) # Issue(e) /\ Dir(f) = Dir(e)
                                          /\ hook'[f] \in Beyond
      <4>1. CASE e = d
        BY <4>1, <3>2, <3>4, JobPlaces DEF JobsTypeOK
      <4>2. CASE e # d /\ Dir(e) = Dir(d)
        BY <4>2, <2>1, <2>2, <3>1, <3>3, <3>4 DEF Beyond, Running
      <4>3. CASE e # d /\ Dir(e) # Dir(d)
        <5>1. clones'[Dir(e)] = clones[Dir(e)] /\ hook[e] = "run"
          BY <4>3, <2>1, <3>2, <3>4, JobPlaces DEF JobsTypeOK
        <5> QED
          BY <5>1, <2>1, <2>2 DEF ClonesOwned, Beyond
      <4> QED
        BY <4>1, <4>2, <4>3
    <3>5. ASSUME NEW e \in Deliveries, clones'[Dir(e)] = e PROVE hook'[e] \in {"run", "lost"}
      <4>1. CASE Dir(e) = Dir(d)
        BY <4>1, <3>2, <3>5, JobPlaces, GitHubJobsAssumption DEF JobsTypeOK
      <4>2. CASE Dir(e) # Dir(d)
        <5>1. clones[Dir(e)] = e
          BY <4>2, <3>2, <3>5, JobPlaces DEF JobsTypeOK
        <5> QED
          BY <4>2, <5>1, <2>1 DEF ClonesOwned
      <4> QED
        BY <4>1, <4>2
    <3> QED
      BY <3>4, <3>5 DEF ClonesOwned, Beyond, Dir, Issue
  <2>4. CASE Work(d)
    <3>1. hook[d] = "run" /\ hook'[d] = "update" /\ clones' = [clones EXCEPT ![Dir(d)] = NoClone]
      BY <2>4 DEF Work, HookTo, JobsTypeOK
    <3>2. \A e \in Deliveries : e # d /\ hook[e] = "run" => Issue(e) # Issue(d)
      BY <3>1 DEF OneJobPerIssue, Marked, Running
    <3>3. ASSUME NEW e \in Deliveries, hook'[e] = "run"
          PROVE  \/ clones'[Dir(e)] = e
                 \/ \E f \in Deliveries : /\ Issue(f) # Issue(e) /\ Dir(f) = Dir(e)
                                          /\ hook'[f] \in Beyond
      <4>1. e # d /\ hook[e] = "run"
        BY <3>1, <3>3, <2>1
      <4>2. CASE Dir(e) = Dir(d)
        BY <4>1, <4>2, <3>1, <3>2 DEF Beyond, Running
      <4>3. CASE Dir(e) # Dir(d)
        <5>1. clones'[Dir(e)] = clones[Dir(e)]
          BY <4>3, <3>1, JobPlaces DEF JobsTypeOK
        <5> QED
          BY <4>1, <5>1, <2>1, <2>2 DEF ClonesOwned, Beyond
      <4> QED
        BY <4>2, <4>3
    <3>4. ASSUME NEW e \in Deliveries, clones'[Dir(e)] = e PROVE hook'[e] \in {"run", "lost"}
      <4>1. Dir(e) # Dir(d) /\ clones[Dir(e)] = e
        BY <3>1, <3>4, JobPlaces, GitHubJobsAssumption DEF JobsTypeOK
      <4> QED
        BY <4>1, <2>1 DEF ClonesOwned
    <3> QED
      BY <3>3, <3>4 DEF ClonesOwned, Beyond, Dir, Issue
  <2>5. CASE ~Clone(d) /\ ~Work(d)
    <3>1. clones' = clones /\ hook[d] # "run" /\ hook'[d] # "run" /\ hook[d] # "lost"
      <4> USE DEF HookTo, JobsTypeOK
      <4> QED
        BY <1>1, <2>5 DEF JobStep, Receive, Enqueue, Start, Post, Update, Release, Unmark
    <3> QED
      BY <3>1, <2>1, <2>2 DEF ClonesOwned, Beyond, Dir, Issue
  <2> QED
    BY <2>3, <2>4, <2>5
<1>2. ASSUME NEW d \in Deliveries, Expire(d) PROVE ClonesOwned'
  BY <1>2 DEF Expire, ClonesOwned, Dir, Issue
<1>3. CASE Stop
  <2>1. /\ clones' = clones
        /\ \A d \in Deliveries : hook'[d] # "run" /\ (hook[d] \in {"run", "lost"} => hook'[d] = "lost")
    BY <1>3 DEF Stop, Running
  <2> QED
    BY <2>1 DEF ClonesOwned, Dir, Issue
<1>4. CASE UNCHANGED jobsVars
  BY <1>4 DEF jobsVars, ClonesOwned, Dir, Issue
<1> QED
  BY <1>1, <1>2, <1>3, <1>4 DEF JobsNext, SomeJob

-----------------------------------------------------------------------------
(* The marks and the directories of jobs, for any number of deliveries, issues
   and slots, however names of directories coincide (server.go, runner.go). *)
THEOREM OneJobCorrect == JobsSpec => []OneJobPerIssue
<1>1. JobsTypeOK /\ OneJobPerIssue /\ [JobsNext]_jobsVars => (JobsTypeOK /\ OneJobPerIssue)'
  BY NextJobsTypes, NextOneJob
<1>2. JobsInit => JobsTypeOK /\ OneJobPerIssue
  BY InitJobs DEF JobsInv
<1> QED
  BY <1>1, <1>2, PTL DEF JobsSpec

LEMMA NextJobs == JobsInv /\ [JobsNext]_jobsVars => JobsInv'
  BY NextJobsTypes, NextOneJob, NextClones DEF JobsInv

(* The agent works in its own clone: nobody removes or replaces the clone of a
   running job unless another issue shares the directory's name (cloneRepo and
   its clean-up). *)
THEOREM ClonesOwnedCorrect == JobsSpec => []ClonesOwned
<1>1. JobsInv => ClonesOwned
  BY DEF JobsInv
<1> QED
  BY <1>1, InitJobs, NextJobs, PTL DEF JobsSpec

-----------------------------------------------------------------------------
(***************************************************************************)
(* The bridge.  wMu is held between the two writes of a reply and the      *)
(* length of what is written says whether it is, so that every half stands *)
(* at the place of its kind; and an execution that runs alone has the      *)
(* calls it answers at the end of the conversation.                        *)
(***************************************************************************)
HandlerSteps == {"unread", "start", "infer", "tools", "reply", "header", "done"}
Halves == [by : Sent, kind : {"header", "body"}]
Messages == [by : Sent, kind : {"input", "text", "uses", "results"}]

(* What the arguments need of the types; it implies BridgeTypeOK. *)
BridgeTypes ==
  /\ inRead \in 0 .. Len(Inbox) /\ reading \in BOOLEAN
  /\ handler \in [Sent -> HandlerSteps]
  /\ turns \in [Sent -> 0 .. MaxTurns] /\ wMu \in Sent \cup {0}
  /\ wire \in Seq(Halves) /\ dialogue \in Seq(Messages) /\ overlapped \subseteq Sent

(* How far the handling of each message can be. *)
Handled ==
  \A n \in Sent :
    /\ n > inRead => handler[n] = "unread"
    /\ handler[n] \notin {"unread", "done"} => Inbox[n].id
    /\ handler[n] \in {"unread", "start", "infer", "tools"} => turns[n] < MaxTurns

(* Who holds wMu is between its two writes, and nobody else is. *)
OneWriter ==
  /\ \A n \in Sent : handler[n] = "header" => wMu = n
  /\ wMu # 0 => wire # <<>> /\ wire[Len(wire)] = Entry(wMu, "header") /\ handler[wMu] = "header"
  /\ Len(wire) % 2 = IF wMu = 0 THEN 0 ELSE 1

(* The bodies on the wire, at their positions. *)
BodyAt(n) == {i \in DOMAIN wire : wire[i] = Entry(n, "body")}

Paired ==
  \A i \in DOMAIN wire :
    IF i % 2 = 1 THEN wire[i].kind = "header" ELSE wire[i] = Entry(wire[i - 1].by, "body")

AnsweredOnce ==
  \A n \in Sent : IF handler[n] = "done" /\ Inbox[n].id THEN \E i : BodyAt(n) = {i} ELSE BodyAt(n) = {}

(* An execution that runs its tools has its calls last, or has overlapped. *)
CallsLast ==
  /\ \A m, n \in Executing : m # n => m \in overlapped
  /\ \A n \in Sent : handler[n] = "tools" =>
       n \in overlapped \/ (dialogue # <<>> /\ dialogue[Len(dialogue)] = Entry(n, "uses"))

BridgeInv ==
  BridgeTypes /\ Handled /\ OneWriter /\ Paired /\ AnsweredOnce /\ CallsLast /\ ResultsApartOnlyByOverlap

LEMMA SentNumbers == Len(Inbox) \in Nat /\ Sent = 1 .. Len(Inbox) /\ 0 \notin Sent
  BY BridgeAssumption DEF Sent

LEMMA InboxTypes == \A n \in Sent : Inbox[n] \in Received
  BY BridgeAssumption DEF Sent

LEMMA BridgeTypesSuffice == BridgeTypes => BridgeTypeOK
<1> SUFFICES ASSUME BridgeTypes PROVE BridgeTypeOK
  OBVIOUS
<1>1. \A i \in DOMAIN wire : wire[i] \in Halves
  BY DEF BridgeTypes
<1>2. \A i \in DOMAIN dialogue : dialogue[i] \in Messages
  BY DEF BridgeTypes
<1> QED
  BY <1>1, <1>2 DEF BridgeTypes, BridgeTypeOK, Halves, Messages, HandlerSteps

(* The definitions count the bodies; the invariant names their positions. *)
LEMMA FramesFromParts == Paired /\ AnsweredOnce => FramesWhole
<1> SUFFICES ASSUME Paired, AnsweredOnce PROVE FramesWhole
  OBVIOUS
<1>1. ASSUME NEW n \in Sent
      PROVE  Cardinality(BodyAt(n)) = IF handler[n] = "done" /\ Inbox[n].id THEN 1 ELSE 0
  <2>1. CASE handler[n] = "done" /\ Inbox[n].id
    <3>1. PICK i : BodyAt(n) = {i}
      BY <2>1 DEF AnsweredOnce
    <3> QED
      BY <2>1, <3>1, FS_Singleton
  <2>2. CASE ~(handler[n] = "done" /\ Inbox[n].id)
    <3>1. BodyAt(n) = {}
      BY <2>2 DEF AnsweredOnce
    <3> QED
      BY <2>2, <3>1, FS_EmptySet
  <2> QED
    BY <2>1, <2>2
<1> QED
  BY <1>1 DEF FramesWhole, Paired, BodyAt

LEMMA InitBridge == BridgeInit => BridgeInv
<1> SUFFICES ASSUME BridgeInit PROVE BridgeInv
  OBVIOUS
<1>1. BridgeTypes
  BY SentNumbers, BridgeAssumption DEF BridgeInit, BridgeTypes, HandlerSteps
<1>2. Handled
  BY BridgeAssumption DEF BridgeInit, Handled
<1>3. OneWriter /\ Paired /\ AnsweredOnce
  <2>1. DOMAIN wire = {} /\ Len(wire) = 0
    BY DEF BridgeInit
  <2>2. OneWriter
    BY <2>1 DEF BridgeInit, OneWriter
  <2> QED
    BY <2>1, <2>2 DEF BridgeInit, Paired, AnsweredOnce, BodyAt
<1>4. CallsLast /\ ResultsApartOnlyByOverlap
  BY DEF BridgeInit, CallsLast, Executing, ResultsApartOnlyByOverlap
<1> QED
  BY <1>1, <1>2, <1>3, <1>4 DEF BridgeInv

-----------------------------------------------------------------------------
(* The steps of the handling of one message. *)

LEMMA ReadsOne ==
  ASSUME BridgeTypes, Handled, ReadNext
  PROVE  /\ inRead + 1 \in Sent /\ inRead' = inRead + 1 /\ handler[inRead + 1] = "unread"
         /\ \E step \in {"unread", "done", "start", "reply"} :
              /\ handler' = [handler EXCEPT ![inRead + 1] = step]
              /\ step \in {"start", "reply"} => Inbox[inRead + 1].id
              /\ step = "done" => ~Inbox[inRead + 1].id
         /\ UNCHANGED <<turns, wMu, wire, dialogue, overlapped>> /\ reading' \in BOOLEAN
<1>1. inRead \in Nat /\ inRead + 1 \in Sent /\ inRead + 1 > inRead
  BY SentNumbers DEF BridgeTypes, ReadNext
<1>2. handler[inRead + 1] = "unread"
  BY <1>1 DEF Handled
<1>3. handler \in [Sent -> HandlerSteps] /\ handler = [handler EXCEPT ![inRead + 1] = "unread"]
  BY <1>1, <1>2 DEF BridgeTypes
<1>4. CASE Inbox[inRead + 1].sound = "no"
  BY <1>1, <1>2, <1>3, <1>4 DEF ReadNext
<1>5. CASE Inbox[inRead + 1].sound # "no" /\ ~Inbox[inRead + 1].id
  BY <1>1, <1>2, <1>5 DEF ReadNext, HandlerTo, BridgeTypes
<1>6. CASE Inbox[inRead + 1].sound # "no" /\ Inbox[inRead + 1].id
  BY <1>1, <1>2, <1>6 DEF ReadNext, HandlerTo, BridgeTypes
<1> QED
  BY <1>4, <1>5, <1>6

LEMMA NextBridgeTypes == BridgeTypes /\ Handled /\ [BridgeNext]_bridgeVars => BridgeTypes'
<1> SUFFICES ASSUME BridgeTypes, Handled, [BridgeNext]_bridgeVars PROVE BridgeTypes'
  OBVIOUS
<1>e. \A n \in Sent, kind \in {"header", "body"} : Append(wire, Entry(n, kind)) \in Seq(Halves)
  <2> SUFFICES ASSUME NEW n \in Sent, NEW kind \in {"header", "body"} PROVE Append(wire, Entry(n, kind)) \in Seq(Halves)
    OBVIOUS
  <2>1. Entry(n, kind) \in Halves /\ wire \in Seq(Halves)
    BY DEF Entry, Halves, BridgeTypes
  <2> QED
    BY <2>1, AppendProperties
<1>f. \A n \in Sent, kind \in {"input", "text", "uses", "results"} : Append(dialogue, Entry(n, kind)) \in Seq(Messages)
  <2> SUFFICES ASSUME NEW n \in Sent, NEW kind \in {"input", "text", "uses", "results"}
               PROVE Append(dialogue, Entry(n, kind)) \in Seq(Messages)
    OBVIOUS
  <2>1. Entry(n, kind) \in Messages /\ dialogue \in Seq(Messages)
    BY DEF Entry, Messages, BridgeTypes
  <2> QED
    BY <2>1, AppendProperties
<1>g. \A n \in Sent, step \in HandlerSteps : HandlerTo(n, step) => handler' \in [Sent -> HandlerSteps]
  BY DEF HandlerTo, BridgeTypes
<1>s. \A step \in {"unread", "start", "infer", "tools", "reply", "header", "done"} : step \in HandlerSteps
  BY DEF HandlerSteps
<1>1. CASE ReadNext
  <2>1. inRead' \in 0 .. Len(Inbox)
    BY <1>1, SentNumbers DEF ReadNext, BridgeTypes
  <2>2. PICK step \in {"unread", "done", "start", "reply"} : HandlerTo(inRead + 1, step)
    BY <1>1, ReadsOne DEF HandlerTo
  <2>3. handler' \in [Sent -> HandlerSteps]
    BY <1>1, <2>2, <1>g, <1>s, ReadsOne
  <2> QED
    BY <1>1, <2>1, <2>3, ReadsOne DEF BridgeTypes
<1>2. CASE Return
  BY <1>2 DEF Return, BridgeTypes
<1>3. ASSUME NEW n \in Sent, StartLoop(n) PROVE BridgeTypes'
  <2>1. Executing \subseteq Sent
    BY DEF Executing
  <2>2. handler' \in [Sent -> HandlerSteps] /\ dialogue' \in Seq(Messages)
    BY <1>3, <1>f, <1>g, <1>s DEF StartLoop
  <2>3. overlapped' \subseteq Sent
    BY <1>3, <2>1 DEF StartLoop, BridgeTypes
  <2> QED
    BY <1>3, <2>2, <2>3 DEF StartLoop, BridgeTypes
<1>4. ASSUME NEW n \in Sent, Infer(n) PROVE BridgeTypes'
  <2>1. turns' \in [Sent -> 0 .. MaxTurns]
    <3>1. turns[n] < MaxTurns /\ turns[n] \in 0 .. MaxTurns /\ turns' = [turns EXCEPT ![n] = turns[n] + 1]
      BY <1>4 DEF Infer, Handled, BridgeTypes
    <3>2. turns[n] + 1 \in 0 .. MaxTurns
      BY <3>1, BridgeAssumption
    <3> QED
      BY <3>1, <3>2 DEF BridgeTypes
  <2>2. handler' \in [Sent -> HandlerSteps]
    BY <1>4, <1>g, <1>s DEF Infer
  <2>3. dialogue' \in Seq(Messages)
    <3>1. Infer(n) => \/ dialogue' = dialogue \/ dialogue' = Append(dialogue, Entry(n, "text"))
                      \/ dialogue' = Append(dialogue, Entry(n, "uses"))
      BY DEF Infer
    <3>2. dialogue \in Seq(Messages)
      BY DEF BridgeTypes
    <3> QED
      BY <1>4, <3>1, <3>2, <1>f
  <2> QED
    BY <1>4, <2>1, <2>2, <2>3 DEF Infer, BridgeTypes
<1>5. ASSUME NEW n \in Sent, UseTools(n) PROVE BridgeTypes'
  <2>1. handler' \in [Sent -> HandlerSteps]
    BY <1>5, <1>g, <1>s DEF UseTools
  <2>2. dialogue' \in Seq(Messages)
    BY <1>5, <1>f DEF UseTools, BridgeTypes
  <2> QED
    BY <1>5, <2>1, <2>2 DEF UseTools, BridgeTypes
<1>6. ASSUME NEW n \in Sent, SendHeader(n) \/ SendBody(n) PROVE BridgeTypes'
  <2>1. handler' \in [Sent -> HandlerSteps]
    BY <1>6, <1>g, <1>s DEF SendHeader, SendBody
  <2>2. wire' \in Seq(Halves) /\ wMu' \in Sent \cup {0}
    BY <1>6, <1>e DEF SendHeader, SendBody
  <2> QED
    BY <1>6, <2>1, <2>2 DEF SendHeader, SendBody, BridgeTypes
<1>7. CASE UNCHANGED bridgeVars
  BY <1>7 DEF bridgeVars, BridgeTypes
<1> QED
  BY <1>1, <1>2, <1>3, <1>4, <1>5, <1>6, <1>7 DEF BridgeNext, HandlerStep

LEMMA NextHandled == BridgeTypes /\ Handled /\ [BridgeNext]_bridgeVars => Handled'
<1> SUFFICES ASSUME BridgeTypes, Handled, [BridgeNext]_bridgeVars PROVE Handled'
  OBVIOUS
<1> USE DEF HandlerTo
<1>t. handler \in [Sent -> HandlerSteps] /\ turns \in [Sent -> 0 .. MaxTurns] /\ inRead \in Nat /\ MaxTurns \in Nat
  BY SentNumbers, BridgeAssumption DEF BridgeTypes
<1>1. CASE ReadNext
  <2>1. PICK step \in {"unread", "done", "start", "reply"} :
          /\ handler' = [handler EXCEPT ![inRead + 1] = step]
          /\ step \in {"start", "reply"} => Inbox[inRead + 1].id
    BY <1>1, ReadsOne
  <2>2. inRead + 1 \in Sent /\ inRead' = inRead + 1 /\ turns' = turns /\ turns[inRead + 1] < MaxTurns
    BY <1>1, ReadsOne DEF Handled
  <2>3. ASSUME NEW n \in Sent, n > inRead' PROVE n > inRead /\ n # inRead + 1
    BY <1>t, <2>2, <2>3, SentNumbers
  <2> QED
    BY <1>t, <2>1, <2>2, <2>3 DEF Handled
<1>2. CASE Return
  BY <1>2 DEF Return, Handled
<1>3. ASSUME NEW n \in Sent, StartLoop(n) \/ UseTools(n) \/ SendHeader(n) \/ SendBody(n) PROVE Handled'
  BY <1>3, <1>t DEF StartLoop, UseTools, SendHeader, SendBody, Handled
<1>4. ASSUME NEW n \in Sent, Infer(n) PROVE Handled'
  <2>1. /\ handler[n] = "infer" /\ turns' = [turns EXCEPT ![n] = turns[n] + 1] /\ inRead' = inRead
        /\ \/ handler' = [handler EXCEPT ![n] = "reply"]
           \/ handler' = [handler EXCEPT ![n] = "tools"] /\ turns[n] < MaxTurns - 1
    BY <1>4 DEF Infer
  <2>2. handler'[n] = "tools" => turns'[n] < MaxTurns
    BY <1>t, <2>1
  <2>3. Inbox[n].id /\ ~(n > inRead)
    BY <2>1 DEF Handled
  <2> QED
    BY <1>t, <2>1, <2>2, <2>3 DEF Handled
<1>5. CASE UNCHANGED bridgeVars
  BY <1>5 DEF bridgeVars, Handled
<1> QED
  BY <1>1, <1>2, <1>3, <1>4, <1>5 DEF BridgeNext, HandlerStep

-----------------------------------------------------------------------------
(* The wire.  Only the two writes of a reply change it, and each appends one half. *)

LEMMA WireStays ==
  ASSUME BridgeTypes, Handled, [BridgeNext]_bridgeVars,
         ~ \E n \in Sent : SendHeader(n) \/ SendBody(n)
  PROVE  /\ wire' = wire /\ wMu' = wMu
         /\ \A n \in Sent : /\ handler[n] = "header" <=> handler'[n] = "header"
                            /\ Inbox[n].id => (handler[n] = "done" <=> handler'[n] = "done")
<1> USE DEF HandlerTo
<1>t. handler \in [Sent -> HandlerSteps]
  BY DEF BridgeTypes
<1>1. CASE ReadNext
  <2>1. PICK step \in {"unread", "done", "start", "reply"} :
          /\ handler' = [handler EXCEPT ![inRead + 1] = step]
          /\ step = "done" => ~Inbox[inRead + 1].id
    BY <1>1, ReadsOne
  <2>2. handler[inRead + 1] = "unread" /\ inRead + 1 \in Sent
    BY <1>1, ReadsOne
  <2>3. wire' = wire /\ wMu' = wMu
    BY <1>1, ReadsOne
  <2> QED
    BY <1>t, <2>1, <2>2, <2>3
<1>2. CASE Return
  BY <1>2 DEF Return
<1>3. ASSUME NEW n \in Sent, StartLoop(n) \/ Infer(n) \/ UseTools(n)
      PROVE  /\ wire' = wire /\ wMu' = wMu
             /\ handler[n] \in {"start", "infer", "tools"}
             /\ \E step \in {"infer", "tools", "reply"} : handler' = [handler EXCEPT ![n] = step]
  BY <1>3 DEF StartLoop, Infer, UseTools
<1>4. ASSUME NEW n \in Sent, StartLoop(n) \/ Infer(n) \/ UseTools(n)
      PROVE  \A m \in Sent : /\ handler[m] = "header" <=> handler'[m] = "header"
                             /\ handler[m] = "done" <=> handler'[m] = "done"
  <2>1. PICK step \in {"infer", "tools", "reply"} : handler' = [handler EXCEPT ![n] = step]
    BY <1>3, <1>4
  <2> QED
    BY <1>t, <1>3, <1>4, <2>1
<1>5. CASE UNCHANGED bridgeVars
  BY <1>5 DEF bridgeVars
<1> QED
  BY <1>1, <1>2, <1>3, <1>4, <1>5 DEF BridgeNext, HandlerStep

LEMMA SendsHalf ==
  ASSUME BridgeTypes, Handled, OneWriter, NEW n \in Sent, SendHeader(n) \/ SendBody(n)
  PROVE  \E kind \in {"header", "body"} :
           /\ wire' = Append(wire, Entry(n, kind)) /\ Len(wire') = Len(wire) + 1 /\ Len(wire) \in Nat
           /\ DOMAIN wire = 1 .. Len(wire) /\ DOMAIN wire' = 1 .. Len(wire) + 1
           /\ wire'[Len(wire) + 1] = Entry(n, kind) /\ \A i \in DOMAIN wire : wire'[i] = wire[i]
           /\ kind = "header" => /\ handler[n] = "reply" /\ handler' = [handler EXCEPT ![n] = "header"]
                                 /\ wMu = 0 /\ wMu' = n /\ Len(wire) % 2 = 0 /\ (Len(wire) + 1) % 2 = 1
           /\ kind = "body" => /\ handler[n] = "header" /\ handler' = [handler EXCEPT ![n] = "done"]
                               /\ wMu = n /\ wMu' = 0 /\ Len(wire) % 2 = 1 /\ (Len(wire) + 1) % 2 = 0
                               /\ wire # <<>> /\ wire[Len(wire)] = Entry(n, "header")
<1> USE DEF HandlerTo
<1>t. wire \in Seq(Halves) /\ n # 0 /\ Len(wire) \in Nat
  BY SentNumbers DEF BridgeTypes
<1>1. CASE SendHeader(n)
  <2>1. wire' = Append(wire, Entry(n, "header")) /\ Entry(n, "header") \in Halves
    BY <1>1 DEF SendHeader, Entry, Halves
  <2>2. Len(wire) % 2 = 0 /\ (Len(wire) + 1) % 2 = 1
    BY <1>1, <1>t DEF SendHeader, OneWriter
  <2>3. wMu = 0 /\ wMu' = n /\ handler[n] = "reply" /\ handler' = [handler EXCEPT ![n] = "header"]
    BY <1>1 DEF SendHeader
  <2>4. Len(wire') = Len(wire) + 1 /\ wire'[Len(wire) + 1] = Entry(n, "header")
        /\ DOMAIN wire = 1 .. Len(wire) /\ DOMAIN wire' = 1 .. Len(wire) + 1
        /\ \A i \in DOMAIN wire : wire'[i] = wire[i]
    BY <1>t, <2>1
  <2> QED
    BY <1>t, <2>1, <2>2, <2>3, <2>4
<1>2. CASE SendBody(n)
  <2>1. wire' = Append(wire, Entry(n, "body")) /\ Entry(n, "body") \in Halves
    BY <1>2 DEF SendBody, Entry, Halves
  <2>3. wMu = n /\ wMu' = 0 /\ handler[n] = "header" /\ handler' = [handler EXCEPT ![n] = "done"]
    BY <1>2 DEF SendBody, OneWriter
  <2>2. Len(wire) % 2 = 1 /\ (Len(wire) + 1) % 2 = 0
    BY <1>t, <2>3 DEF OneWriter
  <2>5. wire # <<>> /\ wire[Len(wire)] = Entry(n, "header")
    BY <1>t, <2>3 DEF OneWriter
  <2>4. Len(wire') = Len(wire) + 1 /\ wire'[Len(wire) + 1] = Entry(n, "body")
        /\ DOMAIN wire = 1 .. Len(wire) /\ DOMAIN wire' = 1 .. Len(wire) + 1
        /\ \A i \in DOMAIN wire : wire'[i] = wire[i]
    BY <1>t, <2>1
  <2> QED
    BY <1>t, <2>1, <2>2, <2>3, <2>4, <2>5
<1> QED
  BY <1>1, <1>2

LEMMA NextOneWriter ==
  BridgeTypes /\ Handled /\ OneWriter /\ [BridgeNext]_bridgeVars => OneWriter'
<1> SUFFICES ASSUME BridgeTypes, Handled, OneWriter, [BridgeNext]_bridgeVars PROVE OneWriter'
  OBVIOUS
<1>t. handler \in [Sent -> HandlerSteps] /\ wMu \in Sent \cup {0} /\ 0 \notin Sent
  BY SentNumbers DEF BridgeTypes
<1>1. CASE ~ \E n \in Sent : SendHeader(n) \/ SendBody(n)
  <2>1. wire' = wire /\ wMu' = wMu /\ \A n \in Sent : handler[n] = "header" <=> handler'[n] = "header"
    BY <1>1, WireStays
  <2> QED
    BY <1>t, <2>1 DEF OneWriter
<1>2. ASSUME NEW n \in Sent, SendHeader(n) \/ SendBody(n) PROVE OneWriter'
  <2>1. PICK kind \in {"header", "body"} :
           /\ wire' = Append(wire, Entry(n, kind)) /\ Len(wire') = Len(wire) + 1 /\ Len(wire) \in Nat
           /\ wire'[Len(wire) + 1] = Entry(n, kind)
           /\ kind = "header" => /\ handler[n] = "reply" /\ handler' = [handler EXCEPT ![n] = "header"]
                                 /\ wMu = 0 /\ wMu' = n /\ (Len(wire) + 1) % 2 = 1
           /\ kind = "body" => /\ handler[n] = "header" /\ handler' = [handler EXCEPT ![n] = "done"]
                               /\ wMu = n /\ wMu' = 0 /\ (Len(wire) + 1) % 2 = 0
    BY <1>2, SendsHalf
  <2>2. wire' # <<>>
    BY <2>1
  <2>3. \A m \in Sent : handler[m] = "header" => wMu = m
    BY DEF OneWriter
  <2>4. CASE kind = "header"
    <3>1. handler'[n] = "header" /\ \A m \in Sent : handler'[m] = "header" => m = n
      BY <1>t, <2>1, <2>3, <2>4
    <3>2. (Len(wire) + 1) % 2 = 1 /\ wMu' # 0
      BY <1>t, <2>1, <2>4
    <3> QED
      BY <2>1, <2>2, <2>4, <3>1, <3>2 DEF OneWriter
  <2>5. CASE kind = "body"
    <3>1. \A m \in Sent : handler'[m] # "header"
      BY <1>t, <2>1, <2>3, <2>5
    <3> QED
      BY <2>1, <2>2, <2>5, <3>1 DEF OneWriter
  <2> QED
    BY <2>4, <2>5
<1> QED
  BY <1>1, <1>2

LEMMA NextPaired ==
  BridgeTypes /\ Handled /\ OneWriter /\ Paired /\ [BridgeNext]_bridgeVars => Paired'
<1> SUFFICES ASSUME BridgeTypes, Handled, OneWriter, Paired, [BridgeNext]_bridgeVars PROVE Paired'
  OBVIOUS
<1>1. CASE ~ \E n \in Sent : SendHeader(n) \/ SendBody(n)
  BY <1>1, WireStays DEF Paired
<1>2. ASSUME NEW n \in Sent, SendHeader(n) \/ SendBody(n) PROVE Paired'
  <2>1. PICK kind \in {"header", "body"} :
           /\ Len(wire) \in Nat /\ DOMAIN wire = 1 .. Len(wire) /\ DOMAIN wire' = 1 .. Len(wire) + 1
           /\ wire'[Len(wire) + 1] = Entry(n, kind) /\ \A i \in DOMAIN wire : wire'[i] = wire[i]
           /\ kind = "header" => (Len(wire) + 1) % 2 = 1
           /\ kind = "body" => /\ Len(wire) % 2 = 1 /\ (Len(wire) + 1) % 2 = 0
                               /\ wire # <<>> /\ wire[Len(wire)] = Entry(n, "header")
    BY <1>2, SendsHalf
  <2>2. ASSUME NEW i \in DOMAIN wire
        PROVE  IF i % 2 = 1 THEN wire'[i].kind = "header" ELSE wire'[i] = Entry(wire'[i - 1].by, "body")
    <3>1. wire'[i] = wire[i] /\ i \in 1 .. Len(wire)
      BY <2>1
    <3>2. i % 2 # 1 => i - 1 \in DOMAIN wire
      BY <2>1, <3>1
    <3> QED
      BY <2>1, <3>1, <3>2 DEF Paired
  <2>3. DEFINE last == Len(wire) + 1
  <2>4. IF last % 2 = 1 THEN wire'[last].kind = "header" ELSE wire'[last] = Entry(wire'[last - 1].by, "body")
    <3>1. CASE kind = "header"
      BY <2>1, <3>1 DEF Entry
    <3>2. CASE kind = "body"
      <4>1. last - 1 = Len(wire) /\ Len(wire) \in DOMAIN wire
        BY <2>1, <3>2
      <4>2. wire'[last - 1].by = n
        BY <2>1, <3>2, <4>1 DEF Entry
      <4> QED
        BY <2>1, <3>2, <4>2
    <3> QED
      BY <3>1, <3>2
  <2>5. \A i \in DOMAIN wire' : i \in DOMAIN wire \/ i = last
    BY <2>1
  <2> QED
    BY <2>2, <2>4, <2>5 DEF Paired
<1> QED
  BY <1>1, <1>2

LEMMA NextAnsweredOnce ==
  BridgeTypes /\ Handled /\ OneWriter /\ AnsweredOnce /\ [BridgeNext]_bridgeVars => AnsweredOnce'
<1> SUFFICES ASSUME BridgeTypes, Handled, OneWriter, AnsweredOnce, [BridgeNext]_bridgeVars PROVE AnsweredOnce'
  OBVIOUS
<1>t. handler \in [Sent -> HandlerSteps]
  BY DEF BridgeTypes
<1>1. CASE ~ \E n \in Sent : SendHeader(n) \/ SendBody(n)
  <2>1. wire' = wire /\ \A n \in Sent : Inbox[n].id => (handler[n] = "done" <=> handler'[n] = "done")
    BY <1>1, WireStays
  <2> QED
    BY <2>1 DEF AnsweredOnce, BodyAt
<1>2. ASSUME NEW n \in Sent, SendHeader(n) \/ SendBody(n) PROVE AnsweredOnce'
  <2>1. PICK kind \in {"header", "body"} :
           /\ Len(wire) \in Nat /\ DOMAIN wire = 1 .. Len(wire) /\ DOMAIN wire' = 1 .. Len(wire) + 1
           /\ wire'[Len(wire) + 1] = Entry(n, kind) /\ \A i \in DOMAIN wire : wire'[i] = wire[i]
           /\ kind = "header" => handler[n] = "reply" /\ handler' = [handler EXCEPT ![n] = "header"]
           /\ kind = "body" => handler[n] = "header" /\ handler' = [handler EXCEPT ![n] = "done"]
    BY <1>2, SendsHalf
  <2>2. Len(wire) + 1 \notin DOMAIN wire
    BY <2>1
  <2>3. ASSUME NEW m \in Sent
        PROVE  BodyAt(m)' = IF m = n /\ kind = "body" THEN BodyAt(m) \cup {Len(wire) + 1} ELSE BodyAt(m)
    <3>1. Entry(n, kind) = Entry(m, "body") <=> m = n /\ kind = "body"
      BY DEF Entry
    <3>2. DOMAIN wire' = DOMAIN wire \cup {Len(wire) + 1}
      BY <2>1
    <3>3. BodyAt(m)' = {i \in DOMAIN wire' : wire'[i] = Entry(m, "body")}
      BY DEF BodyAt, Entry
    <3> HIDE DEF Entry
    <3> QED
      BY <2>1, <2>2, <3>1, <3>2, <3>3 DEF BodyAt
  <2>4. Inbox[n].id
    BY <2>1 DEF Handled
  <2>5. ASSUME NEW m \in Sent
        PROVE  IF handler'[m] = "done" /\ Inbox[m].id THEN \E i : BodyAt(m)' = {i} ELSE BodyAt(m)' = {}
    <3>1. CASE m = n /\ kind = "body"
      <4>1. BodyAt(n) = {} /\ handler'[n] = "done"
        BY <1>t, <2>1, <3>1 DEF AnsweredOnce
      <4> QED
        BY <2>3, <2>4, <3>1, <4>1
    <3>2. CASE ~(m = n /\ kind = "body")
      <4>1. handler'[m] = "done" <=> handler[m] = "done"
        BY <1>t, <2>1, <3>2
      <4>2. BodyAt(m)' = BodyAt(m)
        BY <2>3, <3>2
      <4> QED
        BY <4>1, <4>2 DEF AnsweredOnce
    <3> QED
      BY <3>1, <3>2
  <2> QED
    BY <2>5 DEF AnsweredOnce
<1> QED
  BY <1>1, <1>2

-----------------------------------------------------------------------------
(* The conversation. *)

LEMMA NextCallsLast ==
  /\ BridgeTypes /\ Handled /\ CallsLast /\ ResultsApartOnlyByOverlap /\ [BridgeNext]_bridgeVars
  => CallsLast' /\ ResultsApartOnlyByOverlap'
<1> SUFFICES ASSUME BridgeTypes, Handled, CallsLast, ResultsApartOnlyByOverlap, [BridgeNext]_bridgeVars
             PROVE  CallsLast' /\ ResultsApartOnlyByOverlap'
  OBVIOUS
<1> USE DEF HandlerTo
<1>t. handler \in [Sent -> HandlerSteps] /\ overlapped \subseteq Sent /\ dialogue \in Seq(Messages)
      /\ Executing \subseteq Sent
  BY DEF BridgeTypes, Executing
(* A step that leaves the conversation alone, and starts nothing. *)
<1>a. ASSUME dialogue' = dialogue, overlapped' = overlapped,
             \A n \in Sent : handler'[n] \in {"infer", "tools"} => handler[n] \in {"infer", "tools"},
             \A n \in Sent : handler'[n] = "tools" => handler[n] = "tools"
      PROVE  CallsLast' /\ ResultsApartOnlyByOverlap'
  <2>1. Executing' \subseteq Executing
    BY <1>a DEF Executing
  <2> QED
    BY <1>a, <2>1 DEF CallsLast, ResultsApartOnlyByOverlap
(* One more message of an execution, or the start of one. *)
<1>b. ASSUME NEW n \in Sent, NEW kind \in {"input", "text", "uses", "results"},
             dialogue' = Append(dialogue, Entry(n, kind)), overlapped \subseteq overlapped',
             \A m \in Executing' \ {n} : m \in Executing,
             \A m \in Executing' \ {n} : n \in Executing' => m \in overlapped' /\ n \in overlapped',
             handler'[n] = "tools" => kind = "uses",
             \A m \in Sent \ {n} : handler'[m] = "tools" => handler[m] = "tools" /\ m \in overlapped',
             kind = "results" => handler[n] = "tools"
      PROVE  CallsLast' /\ ResultsApartOnlyByOverlap'
  <2>1. /\ Len(dialogue) \in Nat /\ Len(dialogue') = Len(dialogue) + 1 /\ dialogue' # <<>>
        /\ DOMAIN dialogue = 1 .. Len(dialogue) /\ DOMAIN dialogue' = 1 .. Len(dialogue) + 1
        /\ dialogue'[Len(dialogue) + 1] = Entry(n, kind)
        /\ \A i \in DOMAIN dialogue : dialogue'[i] = dialogue[i]
    <3>1. Entry(n, kind) \in Messages
      BY DEF Entry, Messages
    <3> QED
      BY <1>t, <1>b, <3>1
  <2>2. \A m, o \in Executing' : m # o => m \in overlapped'
    BY <1>b DEF CallsLast
  <2>3. ASSUME NEW m \in Sent, handler'[m] = "tools"
        PROVE  m \in overlapped' \/ dialogue'[Len(dialogue')] = Entry(m, "uses")
    BY <1>b, <2>1, <2>3
  <2>4. CallsLast'
    <3>1. dialogue' # <<>> /\ Len(dialogue') = Len(dialogue)'
      BY <2>1
    <3> QED
      BY <2>2, <2>3, <3>1 DEF CallsLast, Entry
  <2>5. ASSUME NEW i \in DOMAIN dialogue, dialogue'[i].kind = "results"
        PROVE  (i > 1 /\ dialogue'[i - 1] = Entry(dialogue'[i].by, "uses")) \/ dialogue'[i].by \in overlapped'
    <3>1. dialogue'[i] = dialogue[i]
      BY <2>1
    <3>2. (i > 1 /\ dialogue[i - 1] = Entry(dialogue[i].by, "uses")) \/ dialogue[i].by \in overlapped
      BY <2>5, <3>1 DEF ResultsApartOnlyByOverlap
    <3>3. i > 1 => dialogue'[i - 1] = dialogue[i - 1]
      BY <2>1
    <3> QED
      BY <1>b, <3>1, <3>2, <3>3
  <2>6. ASSUME kind = "results"
        PROVE  (Len(dialogue) + 1 > 1 /\ dialogue'[Len(dialogue)] = Entry(n, "uses")) \/ n \in overlapped'
    <3>1. n \in overlapped \/ (dialogue # <<>> /\ dialogue[Len(dialogue)] = Entry(n, "uses"))
      BY <1>b, <2>6 DEF CallsLast
    <3>2. dialogue # <<>> => Len(dialogue) + 1 > 1 /\ dialogue'[Len(dialogue)] = dialogue[Len(dialogue)]
      BY <1>t, <2>1
    <3> QED
      BY <1>b, <3>1, <3>2
  <2>7. ResultsApartOnlyByOverlap'
    <3> SUFFICES ASSUME NEW i \in DOMAIN dialogue', dialogue'[i].kind = "results"
                 PROVE  (i > 1 /\ dialogue'[i - 1] = Entry(dialogue'[i].by, "uses")) \/ dialogue'[i].by \in overlapped'
      BY DEF ResultsApartOnlyByOverlap, Entry
    <3>1. CASE i \in DOMAIN dialogue
      BY <2>5, <3>1
    <3>2. CASE i = Len(dialogue) + 1
      <4>1. kind = "results" /\ dialogue'[i].by = n /\ i - 1 = Len(dialogue)
        BY <2>1, <3>2 DEF Entry
      <4> QED
        BY <2>6, <3>2, <4>1
    <3> QED
      BY <2>1, <3>1, <3>2
  <2> QED
    BY <2>4, <2>7
<1>1. CASE ReadNext
  <2>1. PICK step \in {"unread", "done", "start", "reply"} : handler' = [handler EXCEPT ![inRead + 1] = step]
    BY <1>1, ReadsOne
  <2> QED
    BY <1>1, <1>a, <1>t, <2>1, ReadsOne
<1>2. CASE Return
  BY <1>2, <1>a DEF Return
<1>3. ASSUME NEW n \in Sent, SendHeader(n) \/ SendBody(n) PROVE CallsLast' /\ ResultsApartOnlyByOverlap'
  BY <1>3, <1>a, <1>t DEF SendHeader, SendBody
<1>4. ASSUME NEW n \in Sent, StartLoop(n) PROVE CallsLast' /\ ResultsApartOnlyByOverlap'
  <2>1. handler[n] = "start" /\ handler' = [handler EXCEPT ![n] = "infer"]
    BY <1>4 DEF StartLoop
  <2>2. Executing' = Executing \cup {n} /\ n \notin Executing
    BY <1>t, <2>1 DEF Executing
  <2>3. overlapped' = IF Executing = {} THEN overlapped ELSE overlapped \cup Executing \cup {n}
    BY <1>4 DEF StartLoop
  <2>4. \A m \in Sent \ {n} : handler'[m] = "tools" => handler[m] = "tools" /\ m \in Executing
    BY <1>t, <2>1 DEF Executing
  <2>5. handler'[n] # "tools" /\ dialogue' = Append(dialogue, Entry(n, "input"))
    BY <1>4, <1>t, <2>1 DEF StartLoop
  <2> QED
    BY <1>b, <2>2, <2>3, <2>4, <2>5
<1>5. ASSUME NEW n \in Sent, Infer(n) \/ UseTools(n) PROVE CallsLast' /\ ResultsApartOnlyByOverlap'
  <2>1. n \in Executing /\ overlapped' = overlapped
    BY <1>5 DEF Infer, UseTools, Executing
  <2>2. PICK step \in {"infer", "tools", "reply"} : handler' = [handler EXCEPT ![n] = step]
    BY <1>5 DEF Infer, UseTools
  <2>3. \A m \in Executing \ {n} : m \in overlapped /\ n \in overlapped
    BY <2>1 DEF CallsLast
  <2>4. \A m \in Executing' \ {n} : m \in Executing
    BY <1>t, <2>2 DEF Executing
  <2>5. \A m \in Sent \ {n} : handler'[m] = "tools" => handler[m] = "tools" /\ m \in Executing
    BY <1>t, <2>2 DEF Executing
  <2>6. CASE UNCHANGED dialogue
    <3>1. handler'[n] = "reply"
      <4>1. dialogue \in Seq(Messages) => \A e \in Messages : Append(dialogue, e) # dialogue
        <5> SUFFICES ASSUME NEW e \in Messages PROVE Append(dialogue, e) # dialogue
          BY <1>t
        <5>1. Len(Append(dialogue, e)) = Len(dialogue) + 1 /\ Len(dialogue) \in Nat
          BY <1>t
        <5> QED
          BY <5>1
      <4>2. Entry(n, "uses") \in Messages /\ Entry(n, "results") \in Messages
        BY DEF Entry, Messages
      <4> QED
        BY <1>5, <1>t, <2>6, <4>1, <4>2 DEF Infer, UseTools
    <3> QED
      BY <1>a, <1>t, <2>1, <2>2, <2>6, <3>1
  <2>7. CASE \E kind \in {"text", "uses", "results"} :
               /\ dialogue' = Append(dialogue, Entry(n, kind))
               /\ handler'[n] = "tools" => kind = "uses"
               /\ kind = "results" => handler[n] = "tools"
    BY <1>b, <2>1, <2>3, <2>4, <2>5, <2>7
  <2>8. \/ UNCHANGED dialogue
        \/ \E kind \in {"text", "uses", "results"} :
               /\ dialogue' = Append(dialogue, Entry(n, kind))
               /\ handler'[n] = "tools" => kind = "uses"
               /\ kind = "results" => handler[n] = "tools"
    <3>1. CASE Infer(n)
      BY <1>t, <3>1 DEF Infer
    <3>2. CASE UseTools(n)
      BY <1>t, <3>2 DEF UseTools
    <3> QED
      BY <1>5, <3>1, <3>2
  <2> QED
    BY <2>6, <2>7, <2>8
<1>6. CASE UNCHANGED bridgeVars
  BY <1>6, <1>a DEF bridgeVars
<1> QED
  BY <1>1, <1>2, <1>3, <1>4, <1>5, <1>6 DEF BridgeNext, HandlerStep

LEMMA NextBridge == BridgeInv /\ [BridgeNext]_bridgeVars => BridgeInv'
  BY NextBridgeTypes, NextHandled, NextOneWriter, NextPaired, NextAnsweredOnce, NextCallsLast DEF BridgeInv

(* The client of the bridge can take the output apart: whatever messages come,
   whichever handlers run at once and however their writes interleave with the
   reading loop's, every header is followed by its own body and every message
   with an id is answered once. *)
THEOREM FramesWholeCorrect == BridgeSpec => []FramesWhole
<1>1. BridgeInv => FramesWhole
  BY FramesFromParts DEF BridgeInv
<1> QED
  BY InitBridge, NextBridge, <1>1, PTL DEF BridgeSpec

(* Results of tool calls are parted from their calls only where two executions
   were under way at once. *)
THEOREM ResultsApartCorrect == BridgeSpec => []ResultsApartOnlyByOverlap
<1>1. BridgeInv => ResultsApartOnlyByOverlap
  BY DEF BridgeInv
<1> QED
  BY InitBridge, NextBridge, <1>1, PTL DEF BridgeSpec

-----------------------------------------------------------------------------
(***************************************************************************)
(* The headless session.  The result file says "ok" only behind inputs     *)
(* that all succeeded; when the watchdog has decided to exit, the context  *)
(* is over or an input has failed, so that it can only replace a result,   *)
(* or exit beside one, that already says so or came in time.               *)
(***************************************************************************)
Told == {"close", "wait", "result", "exit"}  \* the inputs have ended

MainLost == "main" \in unwritten
WatchdogLost == "watchdog" \in unwritten

Outcomes ==
  /\ result = "ok" => ~hadErr /\ inTime /\ pc \in {"exit", "returned"}
  /\ pc \in Told /\ ~hadErr /\ ctx = "live" => inTime
  /\ pc \in {"exit", "exit unread", "returned"} /\ result = None => MainLost
  /\ watchdog = "leaving" /\ result = None => WatchdogLost
  /\ result = "failed" => watchdog = "leaving" \/ pc \in {"exit", "exit unread", "returned"}
  /\ pc = "exit" /\ result = "failed" /\ ~hadErr /\ ctx = "live" => watchdog = "leaving"
  /\ pc = "returned" /\ exit = NoExit =>
       /\ ~hadErr /\ inTime
       /\ result = "failed" => watchdog = "leaving"

Overrun ==
  /\ tokens > MaxTokens => hadErr
  /\ watchdog = "budget" => hadErr
  /\ watchdog = "timeout" => ctx # "live"
  /\ watchdog = "leaving" => hadErr \/ ctx # "live"
  /\ exitCode # 0

HeadlessInv == HeadlessTypeOK /\ Outcomes /\ Overrun /\ ResultMatchesExit

(* The type invariant in three parts, by the kind of the values. *)
PlaceTypes ==
  /\ pc \in {"scan", "run", "close", "unread", "wait", "wait unread", "result", "result unread",
             "exit", "exit unread", "returned"}
  /\ exitCode \in Codes
  /\ ctx \in {"live", "deadline", "signal"}
  /\ watchdog \in {"watching", "timeout", "budget", "leaving", "gone"}
  /\ dreamer \in {"off", "idle", "busy", "stopped"}
  /\ result \in {None, "ok", "failed"} /\ exit \in Codes \cup {NoExit}
  /\ unwritten \subseteq {"main", "watchdog"}

HeadlessFlags == hadErr \in BOOLEAN /\ triggered \in BOOLEAN /\ inTime \in BOOLEAN

CountTypes ==
  /\ tokens \in Nat /\ line \in 0 .. Len(conf.lines)
  /\ conf \in [lines : Sessions, dream : BOOLEAN, limit : BOOLEAN]

LEMMA HeadlessTypeParts == HeadlessTypeOK <=> PlaceTypes /\ HeadlessFlags /\ CountTypes
  BY DEF HeadlessTypeOK, PlaceTypes, HeadlessFlags, CountTypes

LEMMA InitHeadless == HeadlessInit => HeadlessInv
<1> SUFFICES ASSUME HeadlessInit PROVE HeadlessInv
  OBVIOUS
<1>1. PlaceTypes
  BY DEF HeadlessInit, PlaceTypes, Codes, None, NoExit
<1>2. HeadlessFlags
  BY DEF HeadlessInit, HeadlessFlags
<1>3. CountTypes
  <2>1. Len(conf.lines) \in Nat
    BY HeadlessAssumption DEF HeadlessInit
  <2> QED
    BY <2>1 DEF HeadlessInit, CountTypes
<1>4. Outcomes
  BY DEF HeadlessInit, Outcomes, Told, None
<1>5. Overrun
  BY HeadlessAssumption DEF HeadlessInit, Overrun
<1>6. ResultMatchesExit
  BY DEF HeadlessInit, ResultMatchesExit, None, NoExit
<1> QED
  BY <1>1, <1>2, <1>3, <1>4, <1>5, <1>6, HeadlessTypeParts DEF HeadlessInv

(* What the steps with a choice of outcomes do. *)
LEMMA ScanStep ==
  ASSUME HeadlessTypeOK, Scan
  PROVE  /\ pc = "scan" /\ pc' \in {"close", "run", "scan", "unread"}
         /\ pc' = "close" => inTime' = (ctx = "live")
<1>c. CountTypes
  BY HeadlessTypeParts
<1>l. conf.lines \in Seq({"prompt", "aside", "bad"})
  BY <1>c, HeadlessAssumption DEF CountTypes
<1>1. Len(conf.lines) \in Nat /\ line \in 0 .. Len(conf.lines) /\ DOMAIN conf.lines = 1 .. Len(conf.lines)
  BY <1>c, <1>l DEF CountTypes
<1>2. \A n \in DOMAIN conf.lines : conf.lines[n] \in {"prompt", "aside", "bad"}
  BY <1>l
<1>3. CASE line = Len(conf.lines)
  BY <1>3 DEF Scan
<1>4. CASE line # Len(conf.lines)
  <2>1. line + 1 \in DOMAIN conf.lines
    BY <1>1, <1>4
  <2>2. conf.lines[line + 1] \in {"prompt", "aside", "bad"}
    BY <1>2, <2>1
  <2>3. pc' = CASE conf.lines[line + 1] = "prompt" -> "run"
                [] conf.lines[line + 1] = "aside" -> "scan"
                [] conf.lines[line + 1] = "bad" -> "unread"
    BY <1>4 DEF Scan
  <2>4. pc' \in {"run", "scan", "unread"}
    <3>1. CASE conf.lines[line + 1] = "prompt"
      BY <2>3, <3>1
    <3>2. CASE conf.lines[line + 1] = "aside"
      BY <2>3, <3>2
    <3>3. CASE conf.lines[line + 1] = "bad"
      BY <2>3, <3>3
    <3> QED
      BY <2>2, <3>1, <3>2, <3>3
  <2> QED
    BY <2>4 DEF Scan
<1> QED
  BY <1>3, <1>4

LEMMA RunOneStep ==
  ASSUME HeadlessTypeOK, RunOne
  PROVE  /\ pc = "run" /\ tokens' \in Nat /\ tokens \in Nat
         /\ \/ hadErr' = TRUE /\ exitCode' \in {1, 4, 5} /\ pc' = "close"
            \/ ~(tokens' > MaxTokens) /\ hadErr' = hadErr /\ exitCode' = exitCode /\ pc' = "scan"
<1>1. PICK more \in 0 .. 1, fails \in BOOLEAN :
        /\ tokens' = tokens + more
        /\ tokens + more > MaxTokens => fails
        /\ IF fails
           THEN hadErr' = TRUE /\ exitCode' \in Failure(tokens + more > MaxTokens) /\ pc' = "close"
           ELSE pc' = "scan" /\ UNCHANGED <<hadErr, exitCode>>
  BY DEF RunOne
<1>2. Failure(tokens + more > MaxTokens) \subseteq {1, 4, 5}
  BY DEF Failure
<1>3. tokens \in Nat /\ tokens' \in Nat
  <2>1. tokens \in Nat
    BY HeadlessTypeParts DEF CountTypes
  <2> QED
    BY <1>1, <2>1
<1>4. CASE fails
  BY <1>1, <1>2, <1>3, <1>4 DEF RunOne
<1>5. CASE ~fails
  BY <1>1, <1>3, <1>5 DEF RunOne
<1> QED
  BY <1>4, <1>5

LEMMA ResultStep ==
  ASSUME HeadlessTypeOK, WriteResult
  PROVE  /\ UNCHANGED <<hadErr, exitCode, ctx, watchdog, dreamer, exit, inTime>>
         /\ unwritten' \subseteq {"main", "watchdog"} /\ (WatchdogLost' <=> WatchdogLost)
         /\ MainLost => MainLost'
         /\ \/ pc = "result" /\ pc' = "exit"
            \/ pc = "result unread" /\ pc' = "exit unread"
         /\ \/ result' = result /\ MainLost'
            \/ result' = "failed"
            \/ result' = "ok" /\ pc = "result" /\ ~hadErr /\ ctx = "live"
         /\ result' = "failed" => result = "failed" \/ pc = "result unread" \/ hadErr \/ ctx # "live"
<1>1. unwritten \subseteq {"main", "watchdog"}
  BY DEF HeadlessTypeOK
<1>2. \/ unwritten' = unwritten /\ result' = IF pc = "result" /\ ~hadErr /\ ctx = "live" THEN "ok" ELSE "failed"
      \/ unwritten' = unwritten \cup {"main"} /\ result' = result
  BY DEF WriteResult, WriteFile
<1>3. (WatchdogLost' <=> WatchdogLost) /\ (MainLost => MainLost') /\ unwritten' \subseteq {"main", "watchdog"}
  BY <1>1, <1>2 DEF MainLost, WatchdogLost
<1>4. (result' = result /\ MainLost') \/ result' = IF pc = "result" /\ ~hadErr /\ ctx = "live" THEN "ok" ELSE "failed"
  BY <1>2 DEF MainLost
<1> QED
  BY <1>3, <1>4 DEF WriteResult

LEMMA NoticeStep ==
  ASSUME HeadlessTypeOK, Notice
  PROVE  \/ ctx = "deadline" /\ watchdog' = "timeout"
         \/ ctx = "signal" /\ watchdog' = "gone"
         \/ tokens > MaxTokens /\ watchdog' = "budget"
  BY DEF Notice

LEMMA ExitStep ==
  ASSUME HeadlessTypeOK, Exit
  PROVE  /\ UNCHANGED <<hadErr, exitCode, ctx, watchdog, dreamer, result, inTime, unwritten>>
         /\ \/ pc = "exit unread" /\ exit' = 2 /\ pc' = "returned"
            \/ pc = "exit" /\ hadErr /\ exit' = exitCode /\ pc' = "returned"
            \/ pc = "exit" /\ ~hadErr /\ ctx # "live" /\ exit' \in {1, 4} /\ pc' = "returned"
            \/ pc = "exit" /\ ~hadErr /\ ctx = "live" /\ exit' = exit /\ pc' = "returned"
            \/ pc = "returned" /\ exit' = 0 /\ pc' = "returned"
  BY DEF Exit

LEMMA WatchdogStep ==
  ASSUME HeadlessTypeOK, WatchdogExit
  PROVE  /\ UNCHANGED <<pc, hadErr, exitCode, ctx, dreamer, inTime>> /\ watchdog' = "leaving"
         /\ unwritten' \subseteq {"main", "watchdog"} /\ (MainLost' <=> MainLost)
         /\ WatchdogLost => WatchdogLost'
         /\ \/ /\ watchdog \in {"timeout", "budget"} /\ exit' = exit
               /\ result' = "failed" \/ (result' = result /\ WatchdogLost')
            \/ watchdog = "leaving" /\ exit' = 4 /\ result' = result
<1>1. unwritten \subseteq {"main", "watchdog"}
  BY DEF HeadlessTypeOK
<1>2. \/ unwritten' = unwritten
      \/ unwritten' = unwritten \cup {"watchdog"} /\ result' = result
  BY DEF WatchdogExit, WriteFile
<1>3. (MainLost' <=> MainLost) /\ (WatchdogLost => WatchdogLost') /\ unwritten' \subseteq {"main", "watchdog"}
  BY <1>1, <1>2 DEF MainLost, WatchdogLost
<1>4. CASE watchdog = "leaving"
  BY <1>3, <1>4 DEF WatchdogExit
<1>5. CASE watchdog # "leaving"
  <2>1. result' = "failed" \/ (result' = result /\ unwritten' = unwritten \cup {"watchdog"})
    BY <1>5 DEF WatchdogExit, WriteFile
  <2>2. result' = "failed" \/ (result' = result /\ WatchdogLost')
    BY <2>1 DEF WatchdogLost
  <2> QED
    BY <1>3, <1>5, <2>2 DEF WatchdogExit
<1> QED
  BY <1>4, <1>5

LEMMA CodesAreExits == 0 \in Codes /\ {1, 2, 4, 5} \subseteq Codes /\ NoExit \notin Codes
  BY DEF Codes, NoExit

LEMMA NextPlaces == HeadlessTypeOK /\ [HeadlessNext]_headlessVars => PlaceTypes'
<1> SUFFICES ASSUME HeadlessTypeOK, [HeadlessNext]_headlessVars PROVE PlaceTypes'
  OBVIOUS
<1>t. PlaceTypes /\ HeadlessFlags /\ CountTypes
  BY HeadlessTypeParts
<1> USE <1>t DEF PlaceTypes
<1>1. CASE Scan
  <2>1. UNCHANGED <<exitCode, ctx, watchdog, dreamer, result, exit, unwritten>>
    BY <1>1 DEF Scan
  <2> QED
    BY <1>1, <2>1, ScanStep
<1>2. CASE RunOne
  <2>1. UNCHANGED <<ctx, watchdog, dreamer, result, exit, unwritten>>
    BY <1>2 DEF RunOne
  <2>2. pc' \in {"close", "scan"} /\ exitCode' \in Codes
    BY <1>2, RunOneStep DEF Codes
  <2> QED
    BY <2>1, <2>2
<1>3. CASE Flush
  BY <1>3 DEF Flush
<1>4. CASE Wait
  BY <1>4 DEF Wait
<1>5. CASE WriteResult
  BY <1>5, ResultStep
<1>6. CASE Exit
  BY <1>6, ExitStep, CodesAreExits
<1>7. CASE Consolidate
  BY <1>7 DEF Consolidate
<1>8. CASE StopDreaming
  BY <1>8 DEF StopDreaming
<1>9. CASE Notice
  <2>1. UNCHANGED <<pc, exitCode, ctx, dreamer, result, exit, unwritten>>
    BY <1>9 DEF Notice
  <2> QED
    BY <1>9, <2>1, NoticeStep
<1>10. CASE WatchdogExit
  BY <1>10, WatchdogStep, CodesAreExits
<1>11. CASE Deadline
  BY <1>11 DEF Deadline
<1>12. CASE Signal
  BY <1>12 DEF Signal
<1>13. CASE UNCHANGED headlessVars
  BY <1>13 DEF headlessVars
<1> QED
  BY <1>1, <1>2, <1>3, <1>4, <1>5, <1>6, <1>7, <1>8, <1>9, <1>10, <1>11, <1>12, <1>13 DEF HeadlessNext, Own, Main

LEMMA NextFlags == HeadlessTypeOK /\ [HeadlessNext]_headlessVars => HeadlessFlags'
<1> SUFFICES ASSUME HeadlessTypeOK, [HeadlessNext]_headlessVars PROVE HeadlessFlags'
  OBVIOUS
<1>t. PlaceTypes /\ HeadlessFlags /\ CountTypes
  BY HeadlessTypeParts
<1> USE <1>t DEF HeadlessFlags
<1>1. CASE Scan
  BY <1>1 DEF Scan
<1>2. CASE RunOne
  BY <1>2 DEF RunOne, Failure
<1>3. CASE Flush
  BY <1>3 DEF Flush
<1>4. CASE Wait
  BY <1>4 DEF Wait
<1>5. CASE WriteResult
  BY <1>5 DEF WriteResult
<1>6. CASE Exit
  BY <1>6 DEF Exit
<1>7. CASE Consolidate
  BY <1>7 DEF Consolidate
<1>8. CASE StopDreaming
  BY <1>8 DEF StopDreaming
<1>9. CASE Notice
  BY <1>9 DEF Notice
<1>10. CASE WatchdogExit
  BY <1>10 DEF WatchdogExit
<1>11. CASE Deadline
  BY <1>11 DEF Deadline
<1>12. CASE Signal
  BY <1>12 DEF Signal
<1>13. CASE UNCHANGED headlessVars
  BY <1>13 DEF headlessVars
<1> QED
  BY <1>1, <1>2, <1>3, <1>4, <1>5, <1>6, <1>7, <1>8, <1>9, <1>10, <1>11, <1>12, <1>13 DEF HeadlessNext, Own, Main

LEMMA NextCounts == HeadlessTypeOK /\ [HeadlessNext]_headlessVars => CountTypes'
<1> SUFFICES ASSUME HeadlessTypeOK, [HeadlessNext]_headlessVars PROVE CountTypes'
  OBVIOUS
<1>t. PlaceTypes /\ HeadlessFlags /\ CountTypes
  BY HeadlessTypeParts
<1> USE <1>t DEF CountTypes
<1>1. CASE Scan
  <2>1. Len(conf.lines) \in Nat
    BY HeadlessAssumption
  <2> QED
    BY <1>1, <2>1 DEF Scan
<1>2. CASE RunOne
  BY <1>2 DEF RunOne, Failure
<1>3. CASE Flush
  BY <1>3 DEF Flush
<1>4. CASE Wait
  BY <1>4 DEF Wait
<1>5. CASE WriteResult
  BY <1>5 DEF WriteResult
<1>6. CASE Exit
  BY <1>6 DEF Exit
<1>7. CASE Consolidate
  BY <1>7 DEF Consolidate
<1>8. CASE StopDreaming
  BY <1>8 DEF StopDreaming
<1>9. CASE Notice
  BY <1>9 DEF Notice
<1>10. CASE WatchdogExit
  BY <1>10 DEF WatchdogExit
<1>11. CASE Deadline
  BY <1>11 DEF Deadline
<1>12. CASE Signal
  BY <1>12 DEF Signal
<1>13. CASE UNCHANGED headlessVars
  BY <1>13 DEF headlessVars
<1> QED
  BY <1>1, <1>2, <1>3, <1>4, <1>5, <1>6, <1>7, <1>8, <1>9, <1>10, <1>11, <1>12, <1>13 DEF HeadlessNext, Own, Main

LEMMA NextHeadlessTypes == HeadlessTypeOK /\ [HeadlessNext]_headlessVars => HeadlessTypeOK'
<1>1. (HeadlessTypeOK <=> PlaceTypes /\ HeadlessFlags /\ CountTypes)'
  BY DEF HeadlessTypeOK, PlaceTypes, HeadlessFlags, CountTypes
<1> QED
  BY <1>1, NextPlaces, NextFlags, NextCounts

LEMMA NextOutcomes == HeadlessInv /\ [HeadlessNext]_headlessVars => Outcomes'
<1> SUFFICES ASSUME HeadlessInv, [HeadlessNext]_headlessVars PROVE Outcomes'
  OBVIOUS
<1> USE DEF HeadlessInv, Outcomes, Told
<1>t. result \in {None, "ok", "failed"} /\ exitCode # NoExit
  BY HeadlessTypeParts, CodesAreExits DEF PlaceTypes
<1>1. CASE Scan
  <2>1. UNCHANGED <<hadErr, ctx, result, watchdog, exit, unwritten>>
    BY <1>1 DEF Scan
  <2> QED
    BY <1>1, <2>1, ScanStep DEF MainLost, WatchdogLost
<1>2. CASE RunOne
  <2>1. UNCHANGED <<ctx, result, watchdog, exit, inTime, unwritten>>
    BY <1>2 DEF RunOne
  <2> QED
    BY <1>2, <2>1, RunOneStep DEF MainLost, WatchdogLost
<1>3. CASE Flush
  BY <1>3 DEF Flush, MainLost, WatchdogLost
<1>4. CASE Wait
  BY <1>4 DEF Wait, MainLost, WatchdogLost
<1>5. CASE WriteResult
  <2>1. HeadlessTypeOK
    OBVIOUS
  <2>2. result # "ok" /\ (result = "failed" => watchdog = "leaving")
    BY <1>5, <2>1, ResultStep
  <2>3. CASE pc = "result"
    BY <1>5, <1>t, <2>1, <2>2, <2>3, ResultStep DEF None
  <2>4. CASE pc = "result unread"
    BY <1>5, <1>t, <2>1, <2>2, <2>4, ResultStep DEF None
  <2> QED
    BY <1>5, <2>1, <2>3, <2>4, ResultStep
<1>6. CASE exit = NoExit /\ Exit
  <2>1. UNCHANGED <<hadErr, ctx, watchdog, result, inTime, unwritten>> /\ pc' = "returned"
    BY <1>6, ExitStep
  <2>2. (MainLost' <=> MainLost) /\ (WatchdogLost' <=> WatchdogLost)
    BY <2>1 DEF MainLost, WatchdogLost
  <2>3. pc \in {"exit", "exit unread", "returned"}
    BY <1>6, ExitStep
  <2>4. CASE exit' # NoExit
    <3>1. pc \in {"exit", "returned"} \/ result # "ok"
      BY <1>6, ExitStep
    <3> QED
      BY <2>1, <2>2, <2>3, <2>4, <3>1
  <2>5. CASE exit' = NoExit
    <3>1. pc = "exit" /\ ~hadErr /\ ctx = "live"
      BY <1>6, <1>t, <2>5, ExitStep, CodesAreExits
    <3> QED
      BY <1>t, <2>1, <2>2, <3>1
  <2> QED
    BY <2>4, <2>5
<1>7. CASE Consolidate \/ StopDreaming
  <2>1. UNCHANGED <<pc, hadErr, ctx, watchdog, result, exit, inTime, unwritten>>
    BY <1>7 DEF Consolidate, StopDreaming
  <2> QED
    BY <2>1 DEF MainLost, WatchdogLost
<1>8. CASE Notice
  <2>1. UNCHANGED <<pc, hadErr, ctx, result, exit, inTime, unwritten>> /\ watchdog # "leaving" /\ watchdog' # "leaving"
    BY <1>8 DEF Notice
  <2> QED
    BY <2>1 DEF MainLost, WatchdogLost
<1>9. CASE exit = NoExit /\ WatchdogExit
  <2>1. /\ UNCHANGED <<pc, hadErr, ctx, inTime>> /\ watchdog' = "leaving" /\ (MainLost' <=> MainLost)
        /\ result' # "ok" \/ result' = result
    BY <1>9, <1>t, WatchdogStep
  <2>2. result' = None => result = None /\ WatchdogLost'
    BY <1>9, <1>t, WatchdogStep DEF None
  <2>3. exit' = NoExit => exit = NoExit
    BY <1>9
  <2> QED
    BY <1>t, <2>1, <2>2, <2>3
<1>10. CASE Deadline \/ Signal
  <2>1. UNCHANGED <<pc, hadErr, watchdog, result, exit, inTime, unwritten>> /\ ctx' # "live"
    BY <1>10 DEF Deadline, Signal
  <2> QED
    BY <2>1 DEF MainLost, WatchdogLost
<1>11. CASE UNCHANGED headlessVars
  BY <1>11 DEF headlessVars, MainLost, WatchdogLost
<1> QED
  BY <1>1, <1>2, <1>3, <1>4, <1>5, <1>6, <1>7, <1>8, <1>9, <1>10, <1>11 DEF HeadlessNext, Own, Main

LEMMA NextOverrun == HeadlessInv /\ [HeadlessNext]_headlessVars => Overrun'
<1> SUFFICES ASSUME HeadlessInv, [HeadlessNext]_headlessVars PROVE Overrun'
  OBVIOUS
<1> USE DEF HeadlessInv, Overrun
<1>1. CASE Scan \/ Flush \/ Wait \/ WriteResult \/ Exit
  BY <1>1 DEF Scan, Flush, Wait, WriteResult, Exit
<1>2. CASE RunOne
  BY <1>2 DEF RunOne, Failure
<1>3. CASE Consolidate \/ StopDreaming \/ Notice \/ WatchdogExit
  BY <1>3 DEF Consolidate, StopDreaming, Notice, WatchdogExit
<1>4. CASE Deadline \/ Signal
  BY <1>4 DEF Deadline, Signal
<1>5. CASE UNCHANGED headlessVars
  BY <1>5 DEF headlessVars
<1> QED
  BY <1>1, <1>2, <1>3, <1>4, <1>5 DEF HeadlessNext, Own, Main

LEMMA NextResult == HeadlessInv /\ [HeadlessNext]_headlessVars => ResultMatchesExit'
<1> SUFFICES ASSUME HeadlessInv, [HeadlessNext]_headlessVars PROVE ResultMatchesExit'
  OBVIOUS
<1>t. HeadlessTypeOK /\ result \in {None, "ok", "failed"} /\ exitCode # 0 /\ Outcomes /\ Overrun /\ ResultMatchesExit
  BY HeadlessTypeParts DEF HeadlessInv, PlaceTypes, Overrun
<1>1. result' = "ok" => ~hadErr' /\ inTime'
  BY NextOutcomes DEF Outcomes
<1>2. CASE exit = NoExit /\ Exit
  <2>1. UNCHANGED <<result, hadErr, inTime, ctx, watchdog, unwritten>>
    BY <1>2, <1>t, ExitStep
  <2>2. result = None => "main" \in unwritten'
    <3>1. pc \in {"exit", "exit unread", "returned"}
      BY <1>2, <1>t, ExitStep
    <3> QED
      BY <1>t, <2>1, <3>1 DEF Outcomes, MainLost
  <2>3. result = None => unwritten' # {}
    BY <2>2
  <2>4. CASE exit' = 0
    <3>1. pc = "returned"
      BY <1>2, <1>t, <2>4, ExitStep DEF NoExit
    <3>2. ~hadErr /\ inTime /\ (result = "failed" => watchdog = "leaving")
      BY <1>2, <1>t, <3>1 DEF Outcomes
    <3> QED
      BY <1>1, <1>t, <2>1, <2>2, <2>3, <2>4, <3>2 DEF ResultMatchesExit
  <2>5. CASE exit' \notin {0, NoExit}
    <3>1. result # "ok" \/ ctx # "live"
      BY <1>2, <1>t, <2>5, ExitStep DEF Outcomes
    <3> QED
      BY <1>1, <2>1, <2>3, <2>5, <3>1 DEF ResultMatchesExit
  <2>6. CASE exit' = NoExit
    BY <1>1, <2>6 DEF ResultMatchesExit, NoExit
  <2> QED
    BY <2>4, <2>5, <2>6
<1>3. CASE exit = NoExit /\ WatchdogExit
  <2>1. CASE exit' = exit
    BY <1>1, <1>3, <2>1 DEF ResultMatchesExit, NoExit
  <2>2. CASE exit' # exit
    <3>1. watchdog = "leaving" /\ exit' = 4 /\ result' = result /\ hadErr' = hadErr /\ ctx' = ctx
      BY <1>3, <1>t, <2>2, WatchdogStep
    <3>2. hadErr \/ ctx # "live"
      BY <1>t, <3>1 DEF Overrun
    <3>3. result' = None => WatchdogLost'
      BY <1>3, <1>t, <3>1, WatchdogStep DEF Outcomes
    <3>4. result' = None => unwritten' # {}
      BY <3>3 DEF WatchdogLost
    <3> QED
      BY <1>1, <3>1, <3>2, <3>4 DEF ResultMatchesExit
  <2> QED
    BY <2>1, <2>2
<1>4. CASE exit = NoExit /\ exit' = exit
  BY <1>1, <1>4 DEF ResultMatchesExit, NoExit
<1>5. CASE UNCHANGED headlessVars
  BY <1>5, <1>t DEF headlessVars, ResultMatchesExit
<1> QED
  BY <1>2, <1>3, <1>4, <1>5 DEF HeadlessNext, Own, Main, Scan, RunOne, Flush, Wait, WriteResult,
     Consolidate, StopDreaming, Notice, Deadline, Signal

LEMMA NextHeadless == HeadlessInv /\ [HeadlessNext]_headlessVars => HeadlessInv'
  BY NextHeadlessTypes, NextOutcomes, NextOverrun, NextResult DEF HeadlessInv

(* The result file and the exit code of a headless session agree, for every
   list of inputs, every budget and every order of the session, its watchdog,
   its dream worker, the deadline and a signal (runHeadless). *)
THEOREM ResultMatchesExitCorrect == HeadlessSpec => []ResultMatchesExit
<1>1. HeadlessInv => ResultMatchesExit
  BY DEF HeadlessInv
<1> QED
  BY <1>1, InitHeadless, NextHeadless, PTL DEF HeadlessSpec
=============================================================================
