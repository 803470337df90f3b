---------------------------- MODULE ServicesProofs ----------------------------
(***************************************************************************)
(* The local workers, the model's stream and the telemetry, of which each  *)
(* has an inductive invariant of its own; and the composition, whose parts *)
(* keep the invariants that this module and the others prove of them.      *)
(***************************************************************************)
EXTENDS MCServices, EntryPointProofs, PersistentStateProofs

-----------------------------------------------------------------------------

(***************************************************************************)
(* Local workers. The texts a worker has uttered are in its output, in its *)
(* channel, with the forwarder or dropped, each in one place, and the      *)
(* output is older than the channel.                                       *)
(***************************************************************************)
Reports == {NoReport, Bad} \cup {Good(texts) : texts \in Seq(Texts)}

LocalTypes ==
  /\ course \in {"decompose", "launch", "synthesise", "done", "failed"}
  /\ subtasks \in 0 .. MaxSubtasks /\ launched \in 0 .. subtasks
  /\ worker \in [Places -> {"waiting", "started", "running", "closing", "returned"}]
  /\ uttered \in [Places -> 0 .. Len(Script)]
  /\ pipe \in [Places -> Seq(DOMAIN Script)] /\ \A i \in Places : Len(pipe[i]) <= PipeCap
  /\ collected \in [Places -> Seq(Texts)]
  /\ swallowed \in [Places -> SUBSET Texts] /\ dropped \in [Places -> SUBSET Texts]
  /\ outcome \in [Places -> {"none", "answer", "error", "cancelled"}]
  /\ report \in [Places -> Reports]
  /\ endedCtx \in BOOLEAN /\ abort \in BOOLEAN

(* Which subtasks have a worker, and which workers have a report. *)
Launched ==
  /\ course = "decompose" => subtasks = 0
  /\ \A i \in Places : worker[i] = "waiting" <=> i > launched
  /\ \A i \in Places : worker[i] = "returned" <=> report[i] # NoReport
  /\ course \in {"synthesise", "done"} => \A i \in Places : i <= subtasks => worker[i] = "returned"

InTurn(s) == \A m, n \in DOMAIN s : m < n => s[m] < s[n]

Flow(i) ==
  /\ InTurn(pipe[i]) /\ InTurn(collected[i])
  /\ \A p \in ToSet(pipe[i]) : /\ p <= uttered[i] /\ p \notin dropped[i]
                               /\ \A k \in ToSet(collected[i]) \cup swallowed[i] : k < p
  /\ ToSet(collected[i]) \cup swallowed[i] \cup dropped[i] \subseteq 1 .. uttered[i]
  /\ ToSet(collected[i]) \cap (swallowed[i] \cup dropped[i]) = {}
  /\ \A k \in Texts : k <= uttered[i] =>
       k \in ToSet(collected[i]) \cup ToSet(pipe[i]) \cup swallowed[i] \cup dropped[i]

Delivered(i) ==
  /\ worker[i] \in {"waiting", "started", "returned"} => pipe[i] = <<>>
  /\ outcome[i] = "answer" => uttered[i] = Len(Script)
  /\ report[i].kind = "answer" => uttered[i] = Len(Script) /\ report[i].texts = collected[i]

LocalInv == LocalTypes /\ Launched /\ \A i \in Places : Flow(i) /\ Delivered(i)

LEMMA CountInRange == \A reply \in Replies : CountOf(reply) \in 1 .. MaxSubtasks
<1> SUFFICES ASSUME NEW reply \in Replies PROVE CountOf(reply) \in 1 .. MaxSubtasks
  OBVIOUS
<1> DEFINE said == IF reply = NoArray THEN 0 ELSE Cardinality({k \in DOMAIN reply : reply[k] = "string"})
<1>1. said \in Nat
  <2>1. CASE reply = NoArray
    BY <2>1
  <2>2. CASE reply # NoArray
    <3>1. reply \in Seq({"string", "blank", "other"})
      BY <2>2, LocalWorkersAssumption
    <3>2. DOMAIN reply = 1 .. Len(reply) /\ Len(reply) \in Nat
      BY <3>1
    <3>3. IsFiniteSet(1 .. Len(reply))
      BY <3>2, FS_Interval
    <3>4. IsFiniteSet({k \in DOMAIN reply : reply[k] = "string"})
      BY <3>2, <3>3, FS_Subset
    <3> QED
      BY <2>2, <3>4, FS_CardinalityType
  <2> QED
    BY <2>1, <2>2
<1>2. CountOf(reply) = IF said = 0 THEN 1 ELSE Min({said, MaxSubtasks})
  BY DEF CountOf
<1> HIDE DEF said
<1>3. MaxSubtasks \in Nat \ {0}
  BY LocalWorkersAssumption
<1>4. Min({said, MaxSubtasks}) = IF said <= MaxSubtasks THEN said ELSE MaxSubtasks
  BY <1>1, <1>3 DEF Min
<1> QED
  BY <1>1, <1>2, <1>3, <1>4

LEMMA LocalPlaces ==
  /\ MaxSubtasks \in Nat /\ MaxSubtasks > 0 /\ Places = 1 .. MaxSubtasks
  /\ Len(Script) \in Nat /\ DOMAIN Script = 1 .. Len(Script) /\ Texts \subseteq 1 .. Len(Script)
  /\ PipeCap \in Nat /\ PipeCap > 0
  BY LocalWorkersAssumption DEF Places, Texts

LEMMA InitLocal == LocalInit => LocalInv
<1> SUFFICES ASSUME LocalInit PROVE LocalInv
  OBVIOUS
<1>1. <<>> \in Seq(DOMAIN Script) /\ <<>> \in Seq(Texts) /\ Len(<<>>) = 0 /\ DOMAIN <<>> = {} /\ ToSet(<<>>) = {}
  BY DEF ToSet
<1>2. LocalTypes
  <2>1. /\ course = "decompose" /\ subtasks \in 0 .. MaxSubtasks /\ launched \in 0 .. subtasks
    BY LocalPlaces DEF LocalInit
  <2>6. endedCtx \in BOOLEAN /\ abort \in BOOLEAN
    BY DEF LocalInit
  <2>2. /\ worker \in [Places -> {"waiting", "started", "running", "closing", "returned"}]
        /\ outcome \in [Places -> {"none", "answer", "error", "cancelled"}]
        /\ swallowed \in [Places -> SUBSET Texts] /\ dropped \in [Places -> SUBSET Texts]
    BY DEF LocalInit, All
  <2>3. uttered \in [Places -> 0 .. Len(Script)]
    BY LocalPlaces DEF LocalInit, All
  <2>4. /\ pipe \in [Places -> Seq(DOMAIN Script)] /\ \A i \in Places : Len(pipe[i]) <= PipeCap
        /\ collected \in [Places -> Seq(Texts)]
    BY <1>1, LocalPlaces DEF LocalInit, All
  <2>5. report \in [Places -> Reports]
    BY DEF LocalInit, All, Reports
  <2> QED
    BY <2>1, <2>2, <2>3, <2>4, <2>5, <2>6 DEF LocalTypes
<1>3. Launched
  BY LocalPlaces DEF LocalInit, Launched, All
<1>4. ASSUME NEW i \in Places PROVE Flow(i) /\ Delivered(i)
  <2>1. pipe[i] = <<>> /\ collected[i] = <<>> /\ swallowed[i] = {} /\ dropped[i] = {} /\ uttered[i] = 0
        /\ outcome[i] = "none" /\ report[i].kind = "none"
    BY DEF LocalInit, All, NoReport
  <2>2. Flow(i)
    BY <1>1, <2>1, LocalPlaces DEF Flow, InTurn
  <2> QED
    BY <2>1, <2>2 DEF Delivered
<1> QED
  BY <1>2, <1>3, <1>4 DEF LocalInv

LEMMA ReportKinds ==
  /\ NoReport \in Reports /\ Bad \in Reports /\ Bad # NoReport /\ Bad.kind = "failure" /\ NoReport.kind = "none"
  /\ \A s \in Seq(Texts) : Good(s) \in Reports /\ Good(s) # NoReport /\ Good(s).kind = "answer" /\ Good(s).texts = s
<1>1. ASSUME NEW s \in Seq(Texts) PROVE Good(s) \in Reports /\ Good(s) # NoReport
  <2>1. Good(s).kind = "answer" /\ NoReport.kind = "none"
    BY DEF Good, NoReport
  <2> QED
    BY <2>1 DEF Reports
<1>2. Bad # NoReport
  <2>1. Bad.kind = "failure" /\ NoReport.kind = "none"
    BY DEF Bad, NoReport
  <2> QED
    BY <2>1
<1> QED
  BY <1>1, <1>2 DEF Reports, Good, Bad, NoReport

-----------------------------------------------------------------------------
(* The texts of one worker. *)

LEMMA UtterFlows ==
  ASSUME LocalTypes, NEW i \in Places, Utter(i), Flow(i) PROVE Flow(i)'
<1> DEFINE k == uttered[i] + 1
<1>1. uttered[i] \in 0 .. Len(Script) /\ k \in 1 .. Len(Script) /\ pipe[i] \in Seq(DOMAIN Script) /\ Len(pipe[i]) \in Nat
  <2>1. uttered[i] \in 0 .. Len(Script) /\ uttered[i] < Len(Script)
    BY DEF LocalTypes, Utter
  <2>2. k \in 1 .. Len(Script)
    BY <2>1, LocalPlaces
  <2>3. pipe[i] \in Seq(DOMAIN Script)
    BY DEF LocalTypes
  <2>4. Len(pipe[i]) \in Nat
    BY <2>3, LenProperties
  <2> QED
    BY <2>1, <2>2, <2>3, <2>4
<1>2. /\ uttered'[i] = k /\ collected' = collected /\ swallowed' = swallowed
      /\ \/ pipe'[i] = Append(pipe[i], k) /\ dropped'[i] = dropped[i]
         \/ pipe'[i] = pipe[i] /\ dropped'[i] = dropped[i] \cup {k}
  BY DEF LocalTypes, Utter
<1>3. k > uttered[i] /\ \A p \in Nat : p <= uttered[i] => p < k /\ p <= k
  BY <1>1
<1>4. ToSet(pipe[i]) \subseteq Nat /\ ToSet(collected[i]) \cup swallowed[i] \cup dropped[i] \subseteq 1 .. uttered[i]
  <2>1. \A n \in DOMAIN pipe[i] : pipe[i][n] \in 1 .. Len(Script)
    BY <1>1, LocalPlaces
  <2> QED
    BY <2>1 DEF ToSet, Flow
<1>5. k \notin ToSet(collected[i]) \cup swallowed[i] \cup dropped[i] \cup ToSet(pipe[i])
  BY <1>1, <1>3, <1>4 DEF Flow
<1> HIDE DEF k
<1>6. ASSUME NEW t \in Texts, t <= k
      PROVE t = k \/ t \in ToSet(collected[i]) \cup ToSet(pipe[i]) \cup swallowed[i] \cup dropped[i]
  <2>1. t = k \/ t <= uttered[i]
    BY <1>1, <1>6, LocalPlaces DEF k
  <2> QED
    BY <2>1 DEF Flow
<1>7. CASE pipe'[i] = Append(pipe[i], k) /\ dropped'[i] = dropped[i]
  <2>1. /\ DOMAIN pipe[i] = 1 .. Len(pipe[i]) /\ DOMAIN pipe'[i] = 1 .. Len(pipe[i]) + 1
        /\ pipe'[i][Len(pipe[i]) + 1] = k /\ \A n \in 1 .. Len(pipe[i]) : pipe'[i][n] = pipe[i][n]
    BY <1>1, <1>7, LocalPlaces
  <2>2. ToSet(pipe'[i]) = ToSet(pipe[i]) \cup {k}
    <3>1. \A n \in DOMAIN pipe'[i] : n \in DOMAIN pipe[i] \/ n = Len(pipe[i]) + 1
      BY <1>1, <2>1
    <3>2. Len(pipe[i]) + 1 \in DOMAIN pipe'[i] /\ \A n \in DOMAIN pipe[i] : n \in DOMAIN pipe'[i]
      BY <1>1, <2>1
    <3> QED
      BY <2>1, <3>1, <3>2 DEF ToSet
  <2>3. InTurn(pipe'[i])
    <3> SUFFICES ASSUME NEW m \in DOMAIN pipe'[i], NEW n \in DOMAIN pipe'[i], m < n PROVE pipe'[i][m] < pipe'[i][n]
      BY DEF InTurn
    <3>1. m \in DOMAIN pipe[i]
      BY <1>1, <2>1
    <3>2. CASE n \in DOMAIN pipe[i]
      BY <2>1, <3>1, <3>2 DEF Flow, InTurn
    <3>3. CASE n = Len(pipe[i]) + 1
      <4>1. pipe[i][m] \in ToSet(pipe[i])
        BY <3>1 DEF ToSet
      <4>2. pipe[i][m] <= uttered[i]
        BY <4>1 DEF Flow
      <4> QED
        BY <1>3, <1>4, <2>1, <3>1, <3>3, <4>1, <4>2
    <3> QED
      BY <1>1, <2>1, <3>2, <3>3
  <2>4. \A p \in ToSet(pipe'[i]) : p <= k /\ p \notin dropped[i] /\ \A t \in ToSet(collected[i]) \cup swallowed[i] : t < p
    <3>1. \A t \in ToSet(collected[i]) \cup swallowed[i] : t < k
      BY <1>1, <1>3, <1>4
    <3>2. k <= k
      BY <1>1 DEF k
    <3> QED
      BY <1>3, <1>4, <1>5, <2>2, <3>1, <3>2 DEF Flow
  <2>5. 1 .. uttered[i] \subseteq 1 .. k
    BY <1>1 DEF k
  <2> QED
    BY <1>2, <1>4, <1>6, <1>7, <2>2, <2>3, <2>4, <2>5 DEF Flow
<1>8. CASE pipe'[i] = pipe[i] /\ dropped'[i] = dropped[i] \cup {k}
  <2>1. \A p \in ToSet(pipe[i]) : p <= k /\ p \notin dropped[i] \cup {k}
    BY <1>3, <1>4, <1>5 DEF Flow
  <2>2. 1 .. uttered[i] \subseteq 1 .. k /\ k \in 1 .. k
    BY <1>1 DEF k
  <2> QED
    BY <1>2, <1>4, <1>5, <1>6, <1>8, <2>1, <2>2 DEF Flow
<1> QED
  BY <1>2, <1>7, <1>8

(* Taking the head of the channel. *)
LEMMA HeadTaken ==
  ASSUME LocalTypes, NEW i \in Places, pipe[i] # <<>>, Flow(i)
  PROVE  /\ Head(pipe[i]) \in ToSet(pipe[i]) /\ Head(pipe[i]) \in 1 .. Len(Script)
         /\ Tail(pipe[i]) \in Seq(DOMAIN Script) /\ Len(Tail(pipe[i])) <= PipeCap
         /\ InTurn(Tail(pipe[i])) /\ ToSet(pipe[i]) = {Head(pipe[i])} \cup ToSet(Tail(pipe[i]))
         /\ \A p \in ToSet(Tail(pipe[i])) : Head(pipe[i]) < p
<1>1. pipe[i] \in Seq(DOMAIN Script) /\ Len(pipe[i]) \in Nat /\ DOMAIN pipe[i] = 1 .. Len(pipe[i]) /\ Len(pipe[i]) > 0
      /\ Len(pipe[i]) <= PipeCap
  BY DEF LocalTypes
<1> DEFINE h == Head(pipe[i])
           r == Tail(pipe[i])
<1>2. h = pipe[i][1] /\ h \in DOMAIN Script /\ r \in Seq(DOMAIN Script) /\ Len(r) = Len(pipe[i]) - 1
      /\ DOMAIN r = 1 .. Len(pipe[i]) - 1 /\ \A n \in 1 .. Len(pipe[i]) - 1 : r[n] = pipe[i][n + 1]
  <2>1. h \in DOMAIN Script /\ r \in Seq(DOMAIN Script) /\ Len(r) = Len(pipe[i]) - 1
        /\ \A n \in 1 .. Len(r) : r[n] = pipe[i][n + 1]
    BY <1>1, HeadTailProperties
  <2>2. h = pipe[i][1]
    BY <1>1
  <2>3. DOMAIN r = 1 .. Len(r)
    BY <2>1, LenProperties
  <2> QED
    BY <2>1, <2>2, <2>3
<1> HIDE DEF h, r
<1>3. Len(r) <= PipeCap /\ h \in 1 .. Len(Script)
  BY <1>1, <1>2, LocalPlaces
<1>4. h \in ToSet(pipe[i])
  BY <1>1, <1>2 DEF ToSet
<1>5. InTurn(r)
  <2> SUFFICES ASSUME NEW m \in DOMAIN r, NEW n \in DOMAIN r, m < n PROVE r[m] < r[n]
    BY DEF InTurn
  <2>1. m + 1 \in DOMAIN pipe[i] /\ n + 1 \in DOMAIN pipe[i] /\ m + 1 < n + 1
    BY <1>1, <1>2
  <2> QED
    BY <1>2, <2>1 DEF Flow, InTurn
<1>6. \A p \in ToSet(r) : h < p /\ p \in ToSet(pipe[i])
  <2> SUFFICES ASSUME NEW n \in DOMAIN r PROVE h < r[n] /\ r[n] \in ToSet(pipe[i])
    BY DEF ToSet
  <2>1. n + 1 \in DOMAIN pipe[i] /\ 1 \in DOMAIN pipe[i] /\ 1 < n + 1 /\ r[n] = pipe[i][n + 1]
    BY <1>1, <1>2
  <2> QED
    BY <1>2, <2>1 DEF Flow, InTurn, ToSet
<1>7. \A p \in ToSet(pipe[i]) : p = h \/ p \in ToSet(r)
  <2> SUFFICES ASSUME NEW n \in DOMAIN pipe[i] PROVE pipe[i][n] = h \/ pipe[i][n] \in ToSet(r)
    BY DEF ToSet
  <2>1. CASE n = 1
    BY <1>2, <2>1
  <2>2. CASE n # 1
    <3>1. n - 1 \in DOMAIN r /\ r[n - 1] = pipe[i][n]
      BY <1>1, <1>2, <2>2
    <3> QED
      BY <3>1 DEF ToSet
  <2> QED
    BY <2>1, <2>2
<1> QED
  BY <1>2, <1>3, <1>4, <1>5, <1>6, <1>7 DEF h, r

LEMMA CollectFlows ==
  ASSUME LocalTypes, NEW i \in Places, Collect(i), Flow(i) PROVE Flow(i)' /\ collected'[i] \in Seq(Texts)
<1> DEFINE h == Head(pipe[i])
           r == Tail(pipe[i])
<1>1. /\ h \in ToSet(pipe[i]) /\ h \in 1 .. Len(Script)
      /\ InTurn(r) /\ ToSet(pipe[i]) = {h} \cup ToSet(r) /\ \A p \in ToSet(r) : h < p
  BY HeadTaken DEF Collect
<1>2. /\ pipe'[i] = r /\ uttered' = uttered /\ swallowed' = swallowed /\ dropped' = dropped
      /\ collected'[i] = IF h \in Texts THEN Append(collected[i], h) ELSE collected[i]
      /\ collected[i] \in Seq(Texts)
  BY DEF Collect, LocalTypes
<1> HIDE DEF h, r
<1>3. /\ h <= uttered[i] /\ h \notin dropped[i] /\ \A k \in ToSet(collected[i]) \cup swallowed[i] : k < h
      /\ uttered[i] \in Nat
  BY <1>1 DEF Flow, LocalTypes
<1>4. h \notin swallowed[i] /\ h \in 1 .. uttered[i]
  BY <1>1, <1>3
<1>5. CASE h \in Texts
  <2>1. /\ collected'[i] \in Seq(Texts) /\ Len(collected[i]) \in Nat
        /\ DOMAIN collected[i] = 1 .. Len(collected[i]) /\ DOMAIN collected'[i] = 1 .. Len(collected[i]) + 1
        /\ collected'[i][Len(collected[i]) + 1] = h
        /\ \A n \in 1 .. Len(collected[i]) : collected'[i][n] = collected[i][n]
    BY <1>2, <1>5
  <2>2. ToSet(collected'[i]) = ToSet(collected[i]) \cup {h}
    <3>1. \A n \in DOMAIN collected'[i] : n \in DOMAIN collected[i] \/ n = Len(collected[i]) + 1
      BY <2>1
    <3>2. Len(collected[i]) + 1 \in DOMAIN collected'[i] /\ \A n \in DOMAIN collected[i] : n \in DOMAIN collected'[i]
      BY <2>1
    <3> QED
      BY <2>1, <3>1, <3>2 DEF ToSet
  <2>3. InTurn(collected'[i])
    <3> SUFFICES ASSUME NEW m \in DOMAIN collected'[i], NEW n \in DOMAIN collected'[i], m < n
                 PROVE  collected'[i][m] < collected'[i][n]
      BY DEF InTurn
    <3>1. m \in DOMAIN collected[i]
      BY <2>1
    <3>2. CASE n \in DOMAIN collected[i]
      BY <2>1, <3>1, <3>2 DEF Flow, InTurn
    <3>3. CASE n = Len(collected[i]) + 1
      BY <1>3, <2>1, <3>1, <3>3 DEF ToSet
    <3> QED
      BY <2>1, <3>2, <3>3
  <2>4. \A p \in ToSet(r) : \A k \in ToSet(collected'[i]) \cup swallowed[i] : k < p
    BY <1>1, <2>2 DEF Flow
  <2> QED
    BY <1>1, <1>2, <1>3, <1>4, <2>1, <2>2, <2>3, <2>4 DEF Flow
<1>6. CASE h \notin Texts
  BY <1>1, <1>2, <1>6 DEF Flow
<1> QED
  BY <1>5, <1>6

LEMMA ForwardFlows ==
  ASSUME LocalTypes, NEW i \in Places, ForwardEvent(i), Flow(i) PROVE Flow(i)'
<1> DEFINE h == Head(pipe[i])
           r == Tail(pipe[i])
<1>1. /\ h \in ToSet(pipe[i]) /\ h \in 1 .. Len(Script)
      /\ InTurn(r) /\ ToSet(pipe[i]) = {h} \cup ToSet(r) /\ \A p \in ToSet(r) : h < p
  BY HeadTaken DEF ForwardEvent
<1>2. /\ pipe'[i] = r /\ uttered' = uttered /\ collected' = collected /\ dropped' = dropped
      /\ swallowed'[i] = swallowed[i] \cup ({h} \cap Texts)
  BY DEF ForwardEvent, LocalTypes
<1> HIDE DEF h, r
<1>3. /\ h <= uttered[i] /\ h \notin dropped[i] /\ \A k \in ToSet(collected[i]) \cup swallowed[i] : k < h
      /\ uttered[i] \in Nat
  BY <1>1 DEF Flow, LocalTypes
<1>4. h \notin ToSet(collected[i]) /\ h \in 1 .. uttered[i]
  BY <1>1, <1>3
<1> QED
  BY <1>1, <1>2, <1>3, <1>4 DEF Flow

-----------------------------------------------------------------------------
WorkerStates == {"waiting", "started", "running", "closing", "returned"}

(* The types in three parts. *)
RunTypes ==
  /\ course \in {"decompose", "launch", "synthesise", "done", "failed"}
  /\ subtasks \in 0 .. MaxSubtasks /\ launched \in 0 .. subtasks

EventTypes ==
  /\ uttered \in [Places -> 0 .. Len(Script)]
  /\ pipe \in [Places -> Seq(DOMAIN Script)] /\ \A i \in Places : Len(pipe[i]) <= PipeCap
  /\ collected \in [Places -> Seq(Texts)]
  /\ swallowed \in [Places -> SUBSET Texts] /\ dropped \in [Places -> SUBSET Texts]

EndTypes ==
  /\ worker \in [Places -> WorkerStates]
  /\ outcome \in [Places -> {"none", "answer", "error", "cancelled"}]
  /\ report \in [Places -> Reports]
  /\ endedCtx \in BOOLEAN /\ abort \in BOOLEAN

LEMMA LocalParts == LocalTypes <=> RunTypes /\ EventTypes /\ EndTypes
  BY DEF LocalTypes, RunTypes, EventTypes, EndTypes, WorkerStates

LEMMA LocalPartsNext == RunTypes' /\ EventTypes' /\ EndTypes' => LocalTypes'
  BY DEF LocalTypes, RunTypes, EventTypes, EndTypes, WorkerStates, Reports

LEMMA NextRunTypes == LocalInv /\ [LocalNext]_localVars => RunTypes'
<1> SUFFICES ASSUME LocalInv, [LocalNext]_localVars PROVE RunTypes'
  OBVIOUS
<1>t. RunTypes /\ (course = "decompose" => subtasks = 0) /\ MaxSubtasks \in Nat /\ MaxSubtasks > 0
  BY LocalParts, LocalPlaces DEF LocalInv, Launched
<1>1. CASE Decompose
  <2>1. launched = 0 /\ launched' = launched
    BY <1>1, <1>t DEF Decompose, RunTypes
  <2>2. CASE \E reply \in Replies : subtasks' = CountOf(reply) /\ course' = "launch"
    <3>1. subtasks' \in 1 .. MaxSubtasks
      BY <2>2, CountInRange
    <3> QED
      BY <1>t, <2>1, <2>2, <3>1 DEF RunTypes
  <2>3. CASE course' = "failed" /\ UNCHANGED subtasks
    BY <1>t, <2>1, <2>3 DEF RunTypes
  <2> QED
    BY <1>1, <2>2, <2>3 DEF Decompose
<1>2. CASE Launch
  BY <1>2, <1>t DEF Launch, RunTypes
<1>3. CASE Gather \/ Synthesise \/ EndContext
  BY <1>3, <1>t DEF Gather, Synthesise, EndContext, RunTypes
<1>4. ASSUME NEW i \in Places, LocalWorkerStep(i) PROVE RunTypes'
  BY <1>4, <1>t DEF LocalWorkerStep, Begin, Utter, LoopReturns, Collect, ForwardEvent, Deliver, RunTypes
<1>5. CASE UNCHANGED localVars
  BY <1>5, <1>t DEF localVars, RunTypes
<1> QED
  BY <1>1, <1>2, <1>3, <1>4, <1>5 DEF LocalNext, LocalProgress, CoordinatorStep

LEMMA NextEventTypes == LocalInv /\ [LocalNext]_localVars => EventTypes'
<1> SUFFICES ASSUME LocalInv, [LocalNext]_localVars PROVE EventTypes'
  OBVIOUS
<1>t. EventTypes /\ LocalTypes /\ \A i \in Places : Flow(i)
  BY LocalParts DEF LocalInv
<1> USE DEF EventTypes
<1>1. CASE CoordinatorStep \/ EndContext
  BY <1>1, <1>t DEF CoordinatorStep, Decompose, Launch, Gather, Synthesise, EndContext
<1>2. ASSUME NEW i \in Places, Begin(i) \/ LoopReturns(i) \/ Deliver(i) PROVE EventTypes'
  BY <1>2, <1>t DEF Begin, LoopReturns, Deliver
<1>3. ASSUME NEW i \in Places, Utter(i) PROVE EventTypes'
  <2> DEFINE k == uttered[i] + 1
  <2>1. k \in 0 .. Len(Script) /\ k \in DOMAIN Script /\ uttered' = [uttered EXCEPT ![i] = k]
    BY <1>3, <1>t, LocalPlaces DEF Utter
  <2>2. \/ /\ Len(pipe[i]) < PipeCap /\ pipe' = [pipe EXCEPT ![i] = Append(pipe[i], k)] /\ dropped' = dropped
        \/ /\ k \in Texts /\ pipe' = pipe /\ dropped' = [dropped EXCEPT ![i] = dropped[i] \cup {k}]
    <3>1. /\ k \notin Texts => Len(pipe[i]) < PipeCap
          /\ pipe' = [pipe EXCEPT ![i] = IF Len(pipe[i]) < PipeCap THEN Append(pipe[i], k) ELSE pipe[i]]
          /\ dropped' = [dropped EXCEPT ![i] = IF Len(pipe[i]) < PipeCap THEN dropped[i] ELSE dropped[i] \cup {k}]
      BY <1>3 DEF Utter
    <3>2. pipe = [pipe EXCEPT ![i] = pipe[i]] /\ dropped = [dropped EXCEPT ![i] = dropped[i]]
      BY <1>t
    <3> HIDE DEF k
    <3> QED
      BY <3>1, <3>2
  <2>3. collected' = collected /\ swallowed' = swallowed
    BY <1>3 DEF Utter
  <2> HIDE DEF k
  <2>4. uttered' \in [Places -> 0 .. Len(Script)]
    BY <1>t, <2>1
  <2>5. CASE Len(pipe[i]) < PipeCap /\ pipe' = [pipe EXCEPT ![i] = Append(pipe[i], k)] /\ dropped' = dropped
    <3>1. pipe[i] \in Seq(DOMAIN Script)
      BY <1>t
    <3>2. Append(pipe[i], k) \in Seq(DOMAIN Script) /\ Len(Append(pipe[i], k)) = Len(pipe[i]) + 1 /\ Len(pipe[i]) \in Nat
      BY <2>1, <3>1, AppendProperties, LenProperties
    <3>3. Len(Append(pipe[i], k)) <= PipeCap
      BY <2>5, <3>2, LocalPlaces
    <3> QED
      BY <1>t, <2>3, <2>4, <2>5, <3>2, <3>3
  <2>6. CASE k \in Texts /\ pipe' = pipe /\ dropped' = [dropped EXCEPT ![i] = dropped[i] \cup {k}]
    BY <1>t, <2>3, <2>4, <2>6
  <2> QED
    BY <2>2, <2>5, <2>6
<1>4. ASSUME NEW i \in Places, Collect(i) PROVE EventTypes'
  <2>1. pipe' = [pipe EXCEPT ![i] = Tail(pipe[i])] /\ Tail(pipe[i]) \in Seq(DOMAIN Script) /\ Len(Tail(pipe[i])) <= PipeCap
    BY <1>4, <1>t, HeadTaken DEF Collect
  <2>2. collected'[i] \in Seq(Texts) /\ collected' = [collected EXCEPT ![i] = collected'[i]]
    <3>1. collected'[i] \in Seq(Texts)
      BY <1>4, <1>t, CollectFlows
    <3> QED
      BY <1>4, <1>t, <3>1 DEF Collect
  <2>3. collected' \in [Places -> Seq(Texts)]
    BY <1>t, <2>2
  <2> QED
    BY <1>4, <1>t, <2>1, <2>3 DEF Collect
<1>5. ASSUME NEW i \in Places, ForwardEvent(i) PROVE EventTypes'
  <2>1. pipe' = [pipe EXCEPT ![i] = Tail(pipe[i])] /\ Tail(pipe[i]) \in Seq(DOMAIN Script) /\ Len(Tail(pipe[i])) <= PipeCap
    BY <1>5, <1>t, HeadTaken DEF ForwardEvent
  <2>2. swallowed' \in [Places -> SUBSET Texts]
    BY <1>5, <1>t DEF ForwardEvent
  <2> QED
    BY <1>5, <1>t, <2>1, <2>2 DEF ForwardEvent
<1>6. CASE UNCHANGED localVars
  BY <1>6, <1>t DEF localVars
<1> QED
  BY <1>1, <1>2, <1>3, <1>4, <1>5, <1>6 DEF LocalNext, LocalProgress, LocalWorkerStep

LEMMA NextEndTypes == LocalInv /\ [LocalNext]_localVars => EndTypes'
<1> SUFFICES ASSUME LocalInv, [LocalNext]_localVars PROVE EndTypes'
  OBVIOUS
<1>t. EndTypes /\ collected \in [Places -> Seq(Texts)]
  BY LocalParts DEF LocalInv, EventTypes
<1> USE DEF EndTypes, WorkerTo, WorkerStates
<1>1. CASE Decompose \/ Gather \/ Synthesise
  BY <1>1, <1>t DEF Decompose, Gather, Synthesise
<1>2. CASE Launch
  BY <1>2, <1>t DEF Launch
<1>3. CASE EndContext
  BY <1>3, <1>t DEF EndContext
<1>4. ASSUME NEW i \in Places, Begin(i) PROVE EndTypes'
  BY <1>4, <1>t, ReportKinds DEF Begin
<1>5. ASSUME NEW i \in Places, Utter(i) \/ Collect(i) \/ ForwardEvent(i) PROVE EndTypes'
  BY <1>5, <1>t DEF Utter, Collect, ForwardEvent
<1>6. ASSUME NEW i \in Places, LoopReturns(i) PROVE EndTypes'
  BY <1>6, <1>t DEF LoopReturns
<1>7. ASSUME NEW i \in Places, Deliver(i) PROVE EndTypes'
  <2>1. (IF outcome[i] = "answer" THEN Good(collected[i]) ELSE Bad) \in Reports
    BY <1>t, ReportKinds
  <2> QED
    BY <1>7, <1>t, <2>1 DEF Deliver
<1>8. CASE UNCHANGED localVars
  BY <1>8, <1>t DEF localVars
<1> QED
  BY <1>1, <1>2, <1>3, <1>4, <1>5, <1>6, <1>7, <1>8
  DEF LocalNext, LocalProgress, LocalWorkerStep, CoordinatorStep

LEMMA NextLaunched == LocalInv /\ [LocalNext]_localVars => Launched'
<1> SUFFICES ASSUME LocalInv, [LocalNext]_localVars PROVE Launched'
  OBVIOUS
<1>t. /\ RunTypes /\ worker \in [Places -> WorkerStates] /\ report \in [Places -> Reports]
      /\ collected \in [Places -> Seq(Texts)] /\ Launched
  BY LocalParts DEF LocalInv, EventTypes, EndTypes
<1>p. Places = 1 .. MaxSubtasks /\ MaxSubtasks \in Nat
  BY LocalPlaces
<1> USE DEF WorkerTo
<1>1. CASE Decompose
  BY <1>1, <1>t DEF Decompose, Launched
<1>2. CASE Launch
  <2>1. launched + 1 \in Places /\ launched' = launched + 1 /\ worker' = [worker EXCEPT ![launched + 1] = "started"]
    BY <1>2, <1>t, <1>p DEF Launch, RunTypes
  <2>2. \A i \in Places : worker'[i] = "waiting" <=> i > launched'
    BY <1>t, <1>p, <2>1 DEF Launched, RunTypes
  <2>3. worker[launched + 1] = "waiting"
    BY <1>t, <2>1, <1>p DEF Launched, RunTypes
  <2>4. \A i \in Places : worker'[i] = "returned" <=> report'[i] # NoReport
    BY <1>2, <1>t, <2>1, <2>3 DEF Launch, Launched
  <2> QED
    BY <1>2, <2>2, <2>4 DEF Launch, Launched, NoReport
<1>3. CASE Gather \/ Synthesise
  <2>1. UNCHANGED <<subtasks, launched, worker, report>>
    BY <1>3 DEF Gather, Synthesise
  <2>2. course' \in {"synthesise", "done"} => \A i \in Places : i <= subtasks => worker[i] = "returned"
    <3>1. CASE Gather
      BY <1>t, <1>p, <3>1 DEF Gather, RunTypes
    <3>2. CASE Synthesise
      BY <1>t, <3>2 DEF Synthesise, Launched
    <3> QED
      BY <1>3, <3>1, <3>2
  <2>3. course' # "decompose"
    BY <1>3 DEF Gather, Synthesise
  <2> QED
    BY <1>t, <2>1, <2>2, <2>3 DEF Launched, NoReport
<1>4. CASE EndContext \/ UNCHANGED localVars
  BY <1>4, <1>t DEF EndContext, localVars, Launched
<1>5. ASSUME NEW i \in Places, Utter(i) \/ Collect(i) \/ ForwardEvent(i) PROVE Launched'
  BY <1>5, <1>t DEF Utter, Collect, ForwardEvent, Launched
<1>6. ASSUME NEW i \in Places, NEW state \in {"running", "closing"}, worker[i] \in {"started", "running"},
             worker' = [worker EXCEPT ![i] = state],
             UNCHANGED <<course, subtasks, launched, report>>
      PROVE  Launched'
  BY <1>6, <1>t DEF Launched, WorkerStates
<1>7. ASSUME NEW i \in Places, NEW r \in Reports, r # NoReport, worker[i] # "waiting", worker[i] # "returned",
             worker' = [worker EXCEPT ![i] = "returned"], report' = [report EXCEPT ![i] = r],
             UNCHANGED <<course, subtasks, launched>>
      PROVE  Launched'
  BY <1>7, <1>t DEF Launched, WorkerStates
<1>8. ASSUME NEW i \in Places, Begin(i) PROVE Launched'
  BY <1>8, <1>6, <1>7, ReportKinds DEF Begin
<1>9. ASSUME NEW i \in Places, LoopReturns(i) PROVE Launched'
  BY <1>9, <1>6 DEF LoopReturns
<1>10. ASSUME NEW i \in Places, Deliver(i) PROVE Launched'
  <2>1. PICK r : r = IF outcome[i] = "answer" THEN Good(collected[i]) ELSE Bad
    OBVIOUS
  <2>2. r \in Reports /\ r # NoReport
    BY <1>t, <2>1, ReportKinds
  <2> QED
    BY <1>10, <1>7, <2>1, <2>2 DEF Deliver
<1> QED
  BY <1>1, <1>2, <1>3, <1>4, <1>5, <1>8, <1>9, <1>10
  DEF LocalNext, LocalProgress, LocalWorkerStep, CoordinatorStep

(* What a step of one worker, or of the coordinator, leaves to the others. *)
LEMMA FlowKept ==
  ASSUME NEW i \in Places, Flow(i), pipe'[i] = pipe[i], collected'[i] = collected[i], swallowed'[i] = swallowed[i],
         dropped'[i] = dropped[i], uttered'[i] = uttered[i]
  PROVE  Flow(i)'
  BY DEF Flow, InTurn, ToSet

LEMMA NextFlow == LocalInv /\ [LocalNext]_localVars => \A i \in Places : Flow(i)'
<1> SUFFICES ASSUME LocalInv, [LocalNext]_localVars, NEW i \in Places PROVE Flow(i)'
  OBVIOUS
<1>t. LocalTypes /\ EventTypes /\ Flow(i)
  BY LocalParts DEF LocalInv
<1>1. CASE Utter(i) \/ Collect(i) \/ ForwardEvent(i)
  BY <1>1, <1>t, UtterFlows, CollectFlows, ForwardFlows
<1>2. CASE CoordinatorStep \/ EndContext \/ UNCHANGED localVars
  <2>1. UNCHANGED <<pipe, collected, swallowed, dropped, uttered>>
    BY <1>2 DEF CoordinatorStep, Decompose, Launch, Gather, Synthesise, EndContext, localVars
  <2> QED
    BY <1>t, <2>1, FlowKept
<1>3. ASSUME NEW j \in Places, Begin(j) \/ LoopReturns(j) \/ Deliver(j) PROVE Flow(i)'
  <2>1. UNCHANGED <<pipe, collected, swallowed, dropped, uttered>>
    BY <1>3 DEF Begin, LoopReturns, Deliver
  <2> QED
    BY <1>t, <2>1, FlowKept
<1>4. ASSUME NEW j \in Places, j # i, Utter(j) \/ Collect(j) \/ ForwardEvent(j) PROVE Flow(i)'
  <2>1. pipe'[i] = pipe[i] /\ collected'[i] = collected[i] /\ swallowed'[i] = swallowed[i]
        /\ dropped'[i] = dropped[i] /\ uttered'[i] = uttered[i]
    BY <1>4, <1>t DEF Utter, Collect, ForwardEvent, EventTypes
  <2> QED
    BY <1>t, <2>1, FlowKept
<1> QED
  BY <1>1, <1>2, <1>3, <1>4 DEF LocalNext, LocalProgress, LocalWorkerStep

LEMMA NextDelivered == LocalInv /\ [LocalNext]_localVars => \A i \in Places : Delivered(i)'
<1> SUFFICES ASSUME LocalInv, [LocalNext]_localVars, NEW i \in Places PROVE Delivered(i)'
  OBVIOUS
<1>t. /\ EventTypes /\ EndTypes /\ Launched /\ RunTypes /\ Delivered(i) /\ Flow(i)
  BY LocalParts DEF LocalInv
<1> USE DEF WorkerTo
<1>1. CASE Decompose \/ Gather \/ Synthesise \/ EndContext \/ UNCHANGED localVars
  BY <1>1, <1>t DEF Decompose, Gather, Synthesise, EndContext, localVars, Delivered
<1>2. CASE Launch
  <2>1. worker'[i] # worker[i] => i = launched + 1 /\ worker[i] = "waiting"
    BY <1>2, <1>t, LocalPlaces DEF Launch, EndTypes, Launched, RunTypes
  <2> QED
    BY <1>2, <1>t, <2>1 DEF Launch, Delivered
<1>3. ASSUME NEW j \in Places, Begin(j) PROVE Delivered(i)'
  <2>1. Bad.kind # "answer"
    BY DEF Bad
  <2>2. UNCHANGED <<pipe, uttered, outcome, collected>>
    BY <1>3 DEF Begin
  <2>3. report'[i] = report[i] \/ report'[i] = Bad
    BY <1>3, <1>t DEF Begin, EndTypes
  <2>4. worker'[i] = worker[i] \/ (worker[i] = "started" /\ worker'[i] \in {"returned", "running"})
    BY <1>3, <1>t DEF Begin, EndTypes
  <2> QED
    BY <1>t, <2>1, <2>2, <2>3, <2>4 DEF Delivered
<1>4. ASSUME NEW j \in Places, Utter(j) PROVE Delivered(i)'
  <2>1. UNCHANGED <<worker, outcome, report, collected>>
    BY <1>4 DEF Utter
  <2>2. CASE j = i
    <3>1. worker[i] = "running" /\ uttered[i] # Len(Script)
      BY <1>4, <1>t, <2>2, LocalPlaces DEF Utter, EventTypes
    <3> QED
      BY <1>t, <2>1, <3>1 DEF Delivered
  <2>3. CASE j # i
    <3>1. pipe'[i] = pipe[i] /\ uttered'[i] = uttered[i]
      BY <1>4, <1>t, <2>3 DEF Utter, EventTypes
    <3> QED
      BY <1>t, <2>1, <3>1 DEF Delivered
  <2> QED
    BY <2>2, <2>3
<1>5. ASSUME NEW j \in Places, Collect(j) \/ ForwardEvent(j) PROVE Delivered(i)'
  <2>1. UNCHANGED <<worker, outcome, report, uttered>>
    BY <1>5 DEF Collect, ForwardEvent
  <2>2. CASE j = i
    <3>1. worker[i] # "returned" /\ worker[i] # "waiting" /\ worker[i] # "started"
      BY <1>5, <1>t, <2>2 DEF Collect, ForwardEvent, Delivered
    <3>2. report[i].kind # "answer"
      BY <1>t, <3>1 DEF Launched, NoReport
    <3> QED
      BY <1>t, <2>1, <3>1, <3>2 DEF Delivered
  <2>3. CASE j # i
    <3>1. pipe'[i] = pipe[i] /\ collected'[i] = collected[i]
      BY <1>5, <1>t, <2>3 DEF Collect, ForwardEvent, EventTypes
    <3> QED
      BY <1>t, <2>1, <3>1 DEF Delivered
  <2> QED
    BY <2>2, <2>3
<1>6. ASSUME NEW j \in Places, LoopReturns(j) PROVE Delivered(i)'
  <2>1. UNCHANGED <<pipe, uttered, report, collected>>
    BY <1>6 DEF LoopReturns
  <2>2. worker'[i] = worker[i] \/ worker'[i] = "closing"
    BY <1>6, <1>t DEF LoopReturns, EndTypes
  <2>3. outcome'[i] = "answer" => outcome[i] = "answer" \/ uttered[i] = Len(Script)
    BY <1>6, <1>t DEF LoopReturns, EndTypes
  <2> QED
    BY <1>t, <2>1, <2>2, <2>3 DEF Delivered
<1>7. ASSUME NEW j \in Places, Deliver(j) PROVE Delivered(i)'
  <2>1. UNCHANGED <<pipe, uttered, outcome, collected>>
    BY <1>7 DEF Deliver
  <2>2. CASE j = i
    <3>1. pipe[i] = <<>> /\ report'[i] = IF outcome[i] = "answer" THEN Good(collected[i]) ELSE Bad
      BY <1>7, <1>t, <2>2 DEF Deliver, EndTypes
    <3>2. report'[i].kind = "answer" => outcome[i] = "answer" /\ report'[i].texts = collected[i]
      BY <3>1 DEF Good, Bad
    <3> QED
      BY <1>t, <2>1, <3>1, <3>2 DEF Delivered
  <2>3. CASE j # i
    <3>1. worker'[i] = worker[i] /\ report'[i] = report[i]
      BY <1>7, <1>t, <2>3 DEF Deliver, EndTypes
    <3> QED
      BY <1>t, <2>1, <3>1 DEF Delivered
  <2> QED
    BY <2>2, <2>3
<1> QED
  BY <1>1, <1>2, <1>3, <1>4, <1>5, <1>6, <1>7
  DEF LocalNext, LocalProgress, LocalWorkerStep, CoordinatorStep

LEMMA NextLocal == LocalInv /\ [LocalNext]_localVars => LocalInv'
<1> SUFFICES ASSUME LocalInv, [LocalNext]_localVars PROVE LocalInv'
  OBVIOUS
<1>1. LocalTypes' /\ Launched'
  BY NextRunTypes, NextEventTypes, NextEndTypes, LocalPartsNext, NextLaunched
<1>2. \A i \in Places : Flow(i)' /\ Delivered(i)'
  BY NextFlow, NextDelivered
<1> QED
  BY <1>1, <1>2 DEF LocalInv

LEMMA LocalTypesSuffice == LocalTypes => LocalTypeOK
<1> SUFFICES ASSUME LocalTypes PROVE LocalTypeOK
  OBVIOUS
<1>1. \A i \in Places : report[i] \in {NoReport, Bad} \/ report[i].kind = "answer"
  BY DEF LocalTypes, Reports, Good
<1> QED
  BY <1>1 DEF LocalTypes, LocalTypeOK

LEMMA FlowIsWhole == LocalInv => MissingOnlyTaken
<1> SUFFICES ASSUME LocalInv, NEW i \in Places
             PROVE  /\ course \in {"synthesise", "done"} /\ i <= subtasks => report[i] # NoReport
                    /\ report[i].kind = "answer" =>
                         LET texts == report[i].texts IN
                         /\ ToSet(texts) = Texts \ (swallowed[i] \cup dropped[i])
                         /\ \A m, n \in DOMAIN texts : m < n => texts[m] < texts[n]
  BY DEF MissingOnlyTaken
<1>1. course \in {"synthesise", "done"} /\ i <= subtasks => report[i] # NoReport
  BY DEF LocalInv, Launched
<1>2. ASSUME report[i].kind = "answer"
      PROVE  /\ ToSet(collected[i]) = Texts \ (swallowed[i] \cup dropped[i])
             /\ InTurn(collected[i]) /\ report[i].texts = collected[i]
  <2>1. report[i] # NoReport /\ uttered[i] = Len(Script) /\ report[i].texts = collected[i] /\ Flow(i)
    BY <1>2 DEF LocalInv, Delivered, NoReport
  <2>2. pipe[i] = <<>>
    BY <2>1 DEF LocalInv, Launched, Delivered
  <2>3. ToSet(pipe[i]) = {}
    BY <2>2 DEF ToSet
  <2>4. \A k \in Texts : k <= uttered[i]
    BY <2>1, LocalPlaces
  <2>5. ToSet(collected[i]) \subseteq Texts
    <3>1. collected[i] \in Seq(Texts)
      BY DEF LocalInv, LocalTypes
    <3> QED
      BY <3>1, LenProperties, ElementOfSeq DEF ToSet
  <2> QED
    BY <2>1, <2>3, <2>4, <2>5 DEF Flow
<1> QED
  BY <1>1, <1>2 DEF InTurn

(* A worker's report holds all that it said but what the forwarder took or the
   channel had no room for, in order, and an answer has every report: however
   the two readers of a channel, the other workers and the end of the context
   interleave (collector and forwardWorkerEvents of runWorker). *)
THEOREM MissingOnlyTakenHolds == LocalSpec => []MissingOnlyTaken
  BY InitLocal, NextLocal, FlowIsWhole, PTL DEF LocalSpec

-----------------------------------------------------------------------------

(***************************************************************************)
(* The model's stream. An open block holds the deltas since its start;     *)
(* what the driver has sent, and the loop has taken, are the blocks that   *)
(* ended, and the mark of the end comes behind them, when the loop still   *)
(* waits for it.                                                           *)
(***************************************************************************)
BlockOpen(acc, r, n, i) ==
  IF acc = Closed
  THEN \A from \in 1 .. n : Starts(r, from, i) => \E m \in from + 1 .. n : Stops(r, m, i)
  ELSE \E from \in 1 .. n : Begins(r, from, n + 1, i) /\ acc = BlockBetween(r, from, n + 1, i)

Rank(r, n, k) == Cardinality({m \in Ends(r, n) : m <= k})

InPlace(s, r, n) ==
  \A k \in Ends(r, n), i \in Indexes : \A from \in 1 .. k - 1 :
    Stops(r, k, i) /\ Begins(r, from, k, i) => s[Rank(r, n, k)] = BlockBetween(r, from, k, i)

Marker == {TurnCompleted, InferenceError}
Trails == IF driver = "gone" /\ channel # <<>> THEN 1 ELSE 0

Turns ==
  /\ answer \in {"asking", "pausing"} => driver = "off" /\ attempts < MaxAttempts
  /\ driver = "off" => seen = 0 /\ channel = <<>> /\ blocks = <<>> /\ answer \notin {"streaming", "complete"}
  /\ driver \in {"reading", "ended", "failing"} => answer = "streaming"
  /\ answer = "complete" => driver = "gone"
  /\ channel # <<>> => answer = "streaming"
  /\ answer = "streaming" /\ driver = "gone" => channel # <<>>

(* The mark of the end comes last, behind blocks. *)
MarkLast ==
  \A j \in DOMAIN channel :
    IF Trails = 1 /\ j = Len(channel) THEN channel[j] \in Marker ELSE channel[j].kind \in Known

SentOn ==
  answer # "failed" =>
    /\ Len(blocks) + Len(channel) = Cardinality(Ends(response, seen)) + Trails
    /\ InPlace(blocks \o channel, response, seen)

Clean(r, n) == \A k \in 1 .. n : r[k].type \notin {"error", "garbled"}
Over(r, n) == \E k \in 1 .. n : r[k].type = "message_stop"

EndsClean ==
  /\ driver \in {"off", "reading"} => Clean(response, seen)
  /\ driver = "ended" => Clean(response, seen) /\ (cutShort \/ Over(response, seen))
  /\ driver = "gone" /\ channel # <<>> /\ channel[Len(channel)] = TurnCompleted
       => Clean(response, seen) /\ (cutShort \/ Over(response, seen))
  /\ answer = "complete" => Clean(response, seen) /\ (cutShort \/ Over(response, seen))

Blocks == [kind : Known, deltas : SUBSET Nat]

StreamTypes ==
  /\ answer \in {"asking", "pausing", "streaming", "complete", "failed"}
  /\ attempts \in 0 .. MaxAttempts /\ response \in Responses /\ seen \in 0 .. Len(response)
  /\ driver \in {"off", "reading", "ended", "failing", "gone"}
  /\ accs \in [Indexes -> Blocks \cup {Closed}]
  /\ channel \in Seq(Blocks \cup Marker) /\ Len(channel) <= ChannelCap /\ blocks \in Seq(Blocks)
  /\ cutShort \in BOOLEAN

AllOpen == \A i \in Indexes : BlockOpen(accs[i], response, seen, i)

StreamInv == StreamTypes /\ AllOpen /\ Turns /\ MarkLast /\ SentOn /\ EndsClean

-----------------------------------------------------------------------------
(* One more event. *)

LEMMA KnownNotClosed == \A acc \in Blocks : acc # Closed
<1> SUFFICES ASSUME NEW acc \in Blocks PROVE acc # Closed
  OBVIOUS
<1>1. acc.kind \in Known /\ Closed.kind \notin Known
  BY DEF Blocks, Closed, Known
<1> QED
  BY <1>1

LEMMA OpenStarts ==
  ASSUME NEW r, NEW n \in Nat, NEW i, Starts(r, n + 1, i)
  PROVE  BlockOpen([kind |-> r[n + 1].kind, deltas |-> {}], r, n + 1, i)
<1> DEFINE acc == [kind |-> r[n + 1].kind, deltas |-> {}]
<1>1. acc # Closed
  BY KnownNotClosed DEF Starts, Blocks
<1>2. n + 1 \in 1 .. n + 1 /\ n + 1 + 1 .. n + 1 + 1 - 1 = {}
  OBVIOUS
<1>3. DeltasBetween(r, n + 1, n + 1 + 1, i) = {}
  BY <1>2 DEF DeltasBetween
<1>4. Begins(r, n + 1, n + 1 + 1, i) /\ acc = BlockBetween(r, n + 1, n + 1 + 1, i)
  BY <1>2, <1>3 DEF Begins, BlockBetween
<1> HIDE DEF acc
<1>5. BlockOpen(acc, r, n + 1, i)
  BY <1>1, <1>2, <1>4 DEF BlockOpen
<1> QED
  BY <1>5 DEF acc

LEMMA OpenStop ==
  ASSUME NEW r, NEW n \in Nat, NEW i, Stops(r, n + 1, i)
  PROVE  BlockOpen(Closed, r, n + 1, i)
<1> SUFFICES ASSUME NEW from \in 1 .. n + 1, Starts(r, from, i) PROVE \E m \in from + 1 .. n + 1 : Stops(r, m, i)
  BY DEF BlockOpen
<1>1. from # n + 1
  BY DEF Starts, Stops
<1>2. n + 1 \in from + 1 .. n + 1
  BY <1>1
<1> QED
  BY <1>2

LEMMA OpenGoesOn ==
  ASSUME NEW r, NEW n \in Nat, NEW i, NEW acc, BlockOpen(acc, r, n, i), acc # Closed,
         ~Starts(r, n + 1, i), ~Stops(r, n + 1, i)
  PROVE  \E from \in 1 .. n :
           /\ Begins(r, from, n + 1, i) /\ Begins(r, from, n + 1 + 1, i) /\ acc = BlockBetween(r, from, n + 1, i)
           /\ from + 1 .. n + 1 + 1 - 1 = (from + 1 .. n + 1 - 1) \cup {n + 1} /\ n + 1 \notin from + 1 .. n + 1 - 1
<1>1. PICK from \in 1 .. n : Begins(r, from, n + 1, i) /\ acc = BlockBetween(r, from, n + 1, i)
  BY DEF BlockOpen
<1>2. from + 1 .. n + 1 + 1 - 1 = (from + 1 .. n + 1 - 1) \cup {n + 1} /\ n + 1 \notin from + 1 .. n + 1 - 1
  OBVIOUS
<1>3. Begins(r, from, n + 1 + 1, i)
  BY <1>1, <1>2 DEF Begins
<1> QED
  BY <1>1, <1>2, <1>3

LEMMA OpenDelta ==
  ASSUME NEW r, NEW n \in Nat, NEW i, NEW acc \in Blocks, BlockOpen(acc, r, n, i),
         r[n + 1].type = "delta", r[n + 1].index = i
  PROVE  BlockOpen([acc EXCEPT !.deltas = @ \cup {n + 1}], r, n + 1, i)
<1>1. ~Starts(r, n + 1, i) /\ ~Stops(r, n + 1, i) /\ acc # Closed
  BY KnownNotClosed DEF Starts, Stops
<1>2. PICK from \in 1 .. n :
           /\ Begins(r, from, n + 1 + 1, i) /\ acc = BlockBetween(r, from, n + 1, i)
           /\ from + 1 .. n + 1 + 1 - 1 = (from + 1 .. n + 1 - 1) \cup {n + 1} /\ n + 1 \notin from + 1 .. n + 1 - 1
  BY <1>1, OpenGoesOn
<1> DEFINE more == [acc EXCEPT !.deltas = @ \cup {n + 1}]
<1>3. more = BlockBetween(r, from, n + 1 + 1, i)
  <2>1. DeltasBetween(r, from, n + 1 + 1, i) = DeltasBetween(r, from, n + 1, i) \cup {n + 1}
    BY <1>2 DEF DeltasBetween
  <2>2. acc.kind = r[from].kind /\ acc.deltas = DeltasBetween(r, from, n + 1, i)
    BY <1>2 DEF BlockBetween
  <2>3. more = [kind |-> acc.kind, deltas |-> acc.deltas \cup {n + 1}]
    BY DEF Blocks
  <2> QED
    BY <2>1, <2>2, <2>3 DEF BlockBetween
<1>4. more # Closed
  <2>1. more.kind = acc.kind /\ acc.kind \in Known /\ Closed.kind \notin Known
    BY DEF Blocks, Closed, Known
  <2> QED
    BY <2>1
<1>5. from \in 1 .. n + 1
  OBVIOUS
<1> HIDE DEF more
<1>6. BlockOpen(more, r, n + 1, i)
  BY <1>2, <1>3, <1>4, <1>5 DEF BlockOpen
<1> QED
  BY <1>6 DEF more

LEMMA OpenOther ==
  ASSUME NEW r, NEW n \in Nat, NEW i, NEW acc, BlockOpen(acc, r, n, i),
         ~Starts(r, n + 1, i), ~Stops(r, n + 1, i),
         acc = Closed \/ ~(r[n + 1].type = "delta" /\ r[n + 1].index = i)
  PROVE  BlockOpen(acc, r, n + 1, i)
<1>1. CASE acc = Closed
  <2> SUFFICES ASSUME NEW from \in 1 .. n + 1, Starts(r, from, i) PROVE \E m \in from + 1 .. n + 1 : Stops(r, m, i)
    BY <1>1 DEF BlockOpen
  <2>1. from \in 1 .. n
    OBVIOUS
  <2>2. PICK m \in from + 1 .. n : Stops(r, m, i)
    BY <1>1, <2>1 DEF BlockOpen
  <2>3. m \in from + 1 .. n + 1
    BY <2>2
  <2> QED
    BY <2>2, <2>3
<1>2. CASE acc # Closed
  <2>1. PICK from \in 1 .. n :
           /\ Begins(r, from, n + 1 + 1, i) /\ acc = BlockBetween(r, from, n + 1, i)
           /\ from + 1 .. n + 1 + 1 - 1 = (from + 1 .. n + 1 - 1) \cup {n + 1}
    BY <1>2, OpenGoesOn
  <2>2. DeltasBetween(r, from, n + 1 + 1, i) = DeltasBetween(r, from, n + 1, i)
    BY <1>2, <2>1 DEF DeltasBetween
  <2>3. from \in 1 .. n + 1
    OBVIOUS
  <2> QED
    BY <1>2, <2>1, <2>2, <2>3 DEF BlockOpen, BlockBetween
<1> QED
  BY <1>1, <1>2

(* An event ends a block when one is open. *)
LEMMA EndIffOpen ==
  ASSUME NEW r, NEW n \in Nat, NEW i, NEW acc, BlockOpen(acc, r, n, i)
  PROVE  (\E from \in 1 .. n + 1 - 1 : Begins(r, from, n + 1, i)) <=> acc # Closed
<1>0. 1 .. n + 1 - 1 = 1 .. n
  OBVIOUS
<1>1. CASE acc = Closed
  <2> SUFFICES ASSUME NEW from \in 1 .. n, Begins(r, from, n + 1, i) PROVE FALSE
    BY <1>0, <1>1
  <2>1. PICK m \in from + 1 .. n : Stops(r, m, i)
    BY <1>1 DEF BlockOpen, Begins
  <2>2. m \in from + 1 .. n + 1 - 1
    BY <2>1
  <2> QED
    BY <2>1, <2>2 DEF Begins
<1>2. CASE acc # Closed
  BY <1>0, <1>2 DEF BlockOpen
<1> QED
  BY <1>1, <1>2

LEMMA EndsGrow ==
  ASSUME NEW r, NEW n \in Nat
  PROVE  Ends(r, n + 1) = Ends(r, n) \cup
           (IF \E i \in Indexes : Stops(r, n + 1, i) /\ \E from \in 1 .. n + 1 - 1 : Begins(r, from, n + 1, i)
            THEN {n + 1} ELSE {})
<1>1. 1 .. n + 1 = (1 .. n) \cup {n + 1} /\ n + 1 \notin 1 .. n
  OBVIOUS
<1> QED
  BY <1>1 DEF Ends

LEMMA EndsFinite ==
  ASSUME NEW r, NEW n \in Nat
  PROVE  /\ Ends(r, n) \subseteq 1 .. n /\ IsFiniteSet(Ends(r, n)) /\ Cardinality(Ends(r, n)) \in Nat
         /\ \A k : /\ IsFiniteSet({m \in Ends(r, n) : m <= k})
                   /\ Rank(r, n, k) \in Nat /\ Rank(r, n, k) <= Cardinality(Ends(r, n))
         /\ \A k \in Ends(r, n) : Rank(r, n, k) > 0
<1>1. Ends(r, n) \subseteq 1 .. n /\ IsFiniteSet(1 .. n)
  BY FS_Interval DEF Ends
<1>2. IsFiniteSet(Ends(r, n)) /\ Cardinality(Ends(r, n)) \in Nat
  BY <1>1, FS_Subset, FS_CardinalityType
<1>3. ASSUME NEW k
      PROVE  /\ IsFiniteSet({m \in Ends(r, n) : m <= k})
             /\ Rank(r, n, k) \in Nat /\ Rank(r, n, k) <= Cardinality(Ends(r, n))
  <2>1. PICK S : S = {m \in Ends(r, n) : m <= k}
    OBVIOUS
  <2>2. S \subseteq Ends(r, n)
    BY <2>1
  <2>3. IsFiniteSet(S) /\ Cardinality(S) <= Cardinality(Ends(r, n))
    BY <1>2, <2>2, FS_Subset
  <2>4. Cardinality(S) \in Nat
    BY <2>3, FS_CardinalityType
  <2> QED
    BY <2>1, <2>3, <2>4 DEF Rank
<1>4. ASSUME NEW k \in Ends(r, n) PROVE Rank(r, n, k) > 0
  <2>1. PICK S : S = {m \in Ends(r, n) : m <= k}
    OBVIOUS
  <2>2. k \in S
    BY <1>1, <2>1
  <2>3. IsFiniteSet(S)
    BY <1>3, <2>1
  <2>4. Cardinality(S) # 0 /\ Cardinality(S) \in Nat
    BY <2>2, <2>3, FS_EmptySet, FS_CardinalityType
  <2> QED
    BY <2>1, <2>4 DEF Rank
<1> QED
  BY <1>1, <1>2, <1>3, <1>4

LEMMA RanksGrow ==
  ASSUME NEW r, NEW n \in Nat, Ends(r, n + 1) = Ends(r, n) \cup {n + 1}
  PROVE  /\ Cardinality(Ends(r, n + 1)) = Cardinality(Ends(r, n)) + 1
         /\ \A k \in Ends(r, n) : Rank(r, n + 1, k) = Rank(r, n, k)
         /\ Rank(r, n + 1, n + 1) = Cardinality(Ends(r, n)) + 1
<1>1. Ends(r, n) \subseteq 1 .. n /\ IsFiniteSet(Ends(r, n)) /\ n + 1 \notin Ends(r, n)
  BY EndsFinite
<1>2. Cardinality(Ends(r, n) \cup {n + 1}) = Cardinality(Ends(r, n)) + 1
  BY <1>1, FS_AddElement
<1>3. ASSUME NEW k \in Ends(r, n) PROVE {m \in Ends(r, n + 1) : m <= k} = {m \in Ends(r, n) : m <= k}
  BY <1>1
<1>4. {m \in Ends(r, n + 1) : m <= n + 1} = Ends(r, n) \cup {n + 1}
  BY <1>1
<1> QED
  BY <1>2, <1>3, <1>4 DEF Rank

(* What is in place stays there while more is sent. *)
LEMMA InPlaceStays ==
  ASSUME NEW r, NEW n \in Nat, NEW s, NEW t, InPlace(s, r, n),
         \A j \in 1 .. Cardinality(Ends(r, n)) : t[j] = s[j]
  PROVE  InPlace(t, r, n)
<1> SUFFICES ASSUME NEW k \in Ends(r, n), NEW i \in Indexes, NEW from \in 1 .. k - 1,
                    Stops(r, k, i), Begins(r, from, k, i)
             PROVE  t[Rank(r, n, k)] = BlockBetween(r, from, k, i)
  BY DEF InPlace
<1>1. Rank(r, n, k) \in 1 .. Cardinality(Ends(r, n))
  <2>1. Rank(r, n, k) \in Nat /\ Rank(r, n, k) <= Cardinality(Ends(r, n)) /\ Cardinality(Ends(r, n)) \in Nat
    BY EndsFinite
  <2>2. Rank(r, n, k) > 0
    BY EndsFinite
  <2> QED
    BY <2>1, <2>2
<1> QED
  BY <1>1 DEF InPlace

LEMMA SameEnds ==
  ASSUME NEW r, NEW n \in Nat, NEW s, InPlace(s, r, n), Ends(r, n + 1) = Ends(r, n)
  PROVE  InPlace(s, r, n + 1)
  BY DEF InPlace, Rank

LEMMA BlockSent ==
  ASSUME NEW r, NEW n \in Nat, NEW s, NEW t, NEW acc, NEW i \in Indexes, InPlace(s, r, n),
         Stops(r, n + 1, i), BlockOpen(acc, r, n, i), acc # Closed,
         \A j \in 1 .. Cardinality(Ends(r, n)) : t[j] = s[j],
         t[Cardinality(Ends(r, n)) + 1] = acc
  PROVE  InPlace(t, r, n + 1) /\ Cardinality(Ends(r, n + 1)) = Cardinality(Ends(r, n)) + 1
<1>1. Ends(r, n + 1) = Ends(r, n) \cup {n + 1}
  BY EndsGrow, EndIffOpen
<1>2. /\ Cardinality(Ends(r, n + 1)) = Cardinality(Ends(r, n)) + 1
      /\ \A k \in Ends(r, n) : Rank(r, n + 1, k) = Rank(r, n, k)
      /\ Rank(r, n + 1, n + 1) = Cardinality(Ends(r, n)) + 1
  BY <1>1, RanksGrow
<1>3. InPlace(t, r, n)
  BY InPlaceStays
<1>4. ASSUME NEW o \in Indexes, NEW from \in 1 .. n + 1 - 1, Stops(r, n + 1, o), Begins(r, from, n + 1, o)
      PROVE  acc = BlockBetween(r, from, n + 1, o)
  <2>1. o = i
    BY <1>4 DEF Stops
  <2>2. PICK f \in 1 .. n : Begins(r, f, n + 1, i) /\ acc = BlockBetween(r, f, n + 1, i)
    BY DEF BlockOpen
  <2>3. ~(f < from) /\ ~(from < f)
    <3>1. f < from => from \in f + 1 .. n + 1 - 1
      OBVIOUS
    <3>2. from < f => f \in from + 1 .. n + 1 - 1
      OBVIOUS
    <3> QED
      BY <1>4, <2>1, <2>2, <3>1, <3>2 DEF Begins
  <2>4. f = from
    BY <2>3
  <2> QED
    BY <2>1, <2>2, <2>4
<1>5. InPlace(t, r, n + 1)
  <2> SUFFICES ASSUME NEW k \in Ends(r, n + 1), NEW o \in Indexes, NEW from \in 1 .. k - 1,
                      Stops(r, k, o), Begins(r, from, k, o)
               PROVE  t[Rank(r, n + 1, k)] = BlockBetween(r, from, k, o)
    BY DEF InPlace
  <2>1. CASE k \in Ends(r, n)
    BY <1>2, <1>3, <2>1 DEF InPlace
  <2>2. CASE k = n + 1
    BY <1>2, <1>4, <2>2
  <2> QED
    BY <1>1, <2>1, <2>2
<1> QED
  BY <1>2, <1>5

-----------------------------------------------------------------------------
(* The request, the driver and the loop. *)

LEMMA StreamNumbers ==
  ASSUME StreamTypes
  PROVE  /\ response \in Seq(Events) /\ Len(response) \in Nat /\ seen \in Nat /\ MaxAttempts \in Nat /\ MaxAttempts > 0
         /\ ChannelCap \in Nat /\ Len(channel) \in Nat /\ Len(blocks) \in Nat
         /\ DOMAIN channel = 1 .. Len(channel)
         /\ seen < Len(response) => seen + 1 \in 0 .. Len(response) /\ Upcoming \in Events
<1>1. response \in Seq(Events) /\ Len(response) \in Nat /\ seen \in 0 .. Len(response)
  BY ModelStreamAssumption DEF StreamTypes
<1>2. seen < Len(response) => seen + 1 \in 1 .. Len(response)
  BY <1>1
<1>3. Len(channel) \in Nat /\ Len(blocks) \in Nat /\ DOMAIN channel = 1 .. Len(channel)
  BY DEF StreamTypes
<1>4. MaxAttempts \in Nat /\ MaxAttempts > 0 /\ ChannelCap \in Nat
  BY ModelStreamAssumption
<1> QED
  BY <1>1, <1>2, <1>3, <1>4 DEF Upcoming

LEMMA InitStream == StreamInit => StreamInv
<1> SUFFICES ASSUME StreamInit PROVE StreamInv
  OBVIOUS
<1>1. StreamTypes
  <2>1. response \in Seq(Events) /\ Len(response) \in Nat /\ MaxAttempts \in Nat /\ ChannelCap \in Nat
    BY ModelStreamAssumption DEF StreamInit
  <2>2. accs \in [Indexes -> Blocks \cup {Closed}]
    BY DEF StreamInit
  <2>3. <<>> \in Seq(Blocks) /\ <<>> \in Seq(Blocks \cup Marker) /\ Len(<<>>) = 0
    OBVIOUS
  <2>4. attempts \in 0 .. MaxAttempts /\ seen \in 0 .. Len(response) /\ Len(channel) <= ChannelCap
    BY <2>1, <2>3 DEF StreamInit
  <2> QED
    BY <2>2, <2>3, <2>4 DEF StreamInit, StreamTypes
<1>2. seen = 0 /\ 1 .. seen = {} /\ Ends(response, seen) = {} /\ Cardinality({}) = 0
  BY FS_EmptySet DEF StreamInit, Ends
<1>3. AllOpen
  BY <1>2 DEF StreamInit, AllOpen, BlockOpen
<1>4. Turns
  BY ModelStreamAssumption DEF StreamInit, Turns
<1>5. Trails = 0 /\ MarkLast
  BY DEF StreamInit, Trails, MarkLast
<1>6. SentOn
  <2>1. Len(blocks) = 0 /\ Len(channel) = 0
    BY DEF StreamInit
  <2> QED
    BY <1>2, <1>5, <2>1 DEF SentOn, InPlace
<1>7. EndsClean
  BY <1>2 DEF StreamInit, EndsClean, Clean
<1> QED
  BY <1>1, <1>3, <1>4, <1>5, <1>6, <1>7 DEF StreamInv

LEMMA TakeCases ==
  ASSUME Take
  PROVE  \/ Head(channel) = TurnCompleted /\ answer' = "complete" /\ blocks' = blocks
         \/ Head(channel) = InferenceError /\ answer' = "failed" /\ blocks' = <<>>
         \/ Head(channel) \notin Marker /\ answer' = answer /\ blocks' = Append(blocks, Head(channel))
<1>1. CASE Head(channel) = TurnCompleted
  BY <1>1 DEF Take
<1>2. CASE Head(channel) # TurnCompleted /\ Head(channel) = InferenceError
  BY <1>2 DEF Take
<1>3. CASE Head(channel) # TurnCompleted /\ Head(channel) # InferenceError
  BY <1>3 DEF Take, Marker
<1> QED
  BY <1>1, <1>2, <1>3

LEMMA NextStreamTypes == StreamInv /\ [StreamNext]_streamVars => StreamTypes'
<1> SUFFICES ASSUME StreamInv, [StreamNext]_streamVars PROVE StreamTypes'
  OBVIOUS
<1>t. StreamTypes /\ Turns
  BY DEF StreamInv
<1>n. /\ seen \in Nat /\ MaxAttempts \in Nat /\ Len(channel) \in Nat /\ ChannelCap \in Nat
      /\ seen < Len(response) => seen + 1 \in 0 .. Len(response) /\ Upcoming \in Events
  BY <1>t, StreamNumbers
<1> USE DEF StreamTypes
<1>1. CASE Ask
  <2>1. attempts' \in 0 .. MaxAttempts
    BY <1>1, <1>t, <1>n DEF Ask, Turns
  <2> QED
    BY <1>1, <1>t, <2>1 DEF Ask
<1>2. CASE Pause
  BY <1>2, <1>t DEF Pause
<1>3. CASE ReadStart
  <2>1. Upcoming.kind \in Known /\ Upcoming.index \in Indexes
    BY <1>3, <1>n DEF ReadStart, Reading, Events
  <2>2. [kind |-> Upcoming.kind, deltas |-> {}] \in Blocks
    BY <2>1 DEF Blocks
  <2>3. accs' \in [Indexes -> Blocks \cup {Closed}]
    BY <1>3, <1>t, <2>1, <2>2 DEF ReadStart
  <2> QED
    BY <1>3, <1>t, <1>n, <2>3 DEF ReadStart, Reading
<1>4. CASE ReadDelta
  <2>1. Upcoming.index \in Indexes /\ accs[Upcoming.index] \in Blocks
    BY <1>4, <1>t, <1>n DEF ReadDelta, Reading, Events, OpenBlock
  <2>2. [accs[Upcoming.index] EXCEPT !.deltas = @ \cup {seen + 1}] \in Blocks
    BY <1>n, <2>1 DEF Blocks
  <2>3. accs' = [accs EXCEPT ![Upcoming.index] = [accs[Upcoming.index] EXCEPT !.deltas = @ \cup {seen + 1}]]
    BY <1>4 DEF ReadDelta
  <2>4. accs' \in [Indexes -> Blocks \cup {Closed}]
    BY <1>t, <2>1, <2>2, <2>3
  <2> QED
    BY <1>4, <1>t, <1>n, <2>4 DEF ReadDelta, Reading
<1>5. CASE SkipEvent \/ ReadMessageStop \/ ReadError
  BY <1>5, <1>t, <1>n DEF SkipEvent, ReadMessageStop, ReadError, Reading
<1>6. CASE ReadStop
  <2>1. Upcoming.index \in Indexes /\ accs[Upcoming.index] \in Blocks
    BY <1>6, <1>t, <1>n DEF ReadStop, Reading, Events, OpenBlock
  <2>2. Block(accs[Upcoming.index]) = accs[Upcoming.index]
    BY <2>1 DEF Block, Blocks
  <2>3. channel' \in Seq(Blocks \cup Marker) /\ Len(channel') = Len(channel) + 1
    BY <1>6, <1>t, <2>1, <2>2, AppendProperties DEF ReadStop
  <2>4. Len(channel') <= ChannelCap
    BY <1>6, <1>n, <2>3 DEF ReadStop, CanSend
  <2>5. accs' \in [Indexes -> Blocks \cup {Closed}]
    BY <1>6, <1>t, <2>1 DEF ReadStop
  <2> QED
    BY <1>6, <1>t, <1>n, <2>3, <2>4, <2>5 DEF ReadStop, Reading
<1>7. CASE BodyEnds
  BY <1>7, <1>t DEF BodyEnds
<1>8. CASE DriverEnds
  <2>1. PICK mark \in Marker : channel' = Append(channel, mark)
    BY <1>8 DEF DriverEnds, Marker
  <2>2. channel' \in Seq(Blocks \cup Marker) /\ Len(channel') = Len(channel) + 1
    BY <1>t, <2>1, AppendProperties
  <2>3. Len(channel') <= ChannelCap
    BY <1>8, <1>n, <2>2 DEF DriverEnds, CanSend
  <2> QED
    BY <1>8, <1>t, <2>2, <2>3 DEF DriverEnds
<1>9. CASE Take
  <2>1. channel' = Tail(channel) /\ Head(channel) \in Blocks \cup Marker /\ channel' \in Seq(Blocks \cup Marker)
        /\ Len(channel') = Len(channel) - 1
    BY <1>9, <1>t, HeadTailProperties DEF Take
  <2>2. Len(channel') <= ChannelCap
    BY <1>t, <1>n, <2>1
  <2>3. blocks' \in Seq(Blocks) /\ answer' \in {"asking", "pausing", "streaming", "complete", "failed"}
    <3>1. CASE Head(channel) \in Marker
      BY <1>9, <1>t, <3>1, TakeCases, EmptySeq
    <3>2. CASE Head(channel) \notin Marker
      <4>1. blocks' = Append(blocks, Head(channel)) /\ answer' = answer /\ Head(channel) \in Blocks
        BY <1>9, <2>1, <3>2, TakeCases DEF Marker
      <4> QED
        BY <1>t, <4>1, AppendProperties
    <3> QED
      BY <3>1, <3>2
  <2> QED
    BY <1>9, <1>t, <2>1, <2>2, <2>3 DEF Take
<1>10. CASE UNCHANGED streamVars
  BY <1>10, <1>t DEF streamVars
<1> QED
  BY <1>1, <1>2, <1>3, <1>4, <1>5, <1>6, <1>7, <1>8, <1>9, <1>10 DEF StreamNext, ReadStep

LEMMA NextOpen == StreamInv /\ [StreamNext]_streamVars => AllOpen'
<1> SUFFICES ASSUME StreamInv, [StreamNext]_streamVars PROVE AllOpen'
  OBVIOUS
<1>t. StreamTypes /\ AllOpen
  BY DEF StreamInv
<1>n. seen \in Nat /\ (Reading => Upcoming \in Events)
  BY <1>t, StreamNumbers DEF Reading
<1>a. accs \in [Indexes -> Blocks \cup {Closed}]
  BY <1>t DEF StreamTypes
(* The blocks of the other indexes stay as they are. *)
<1>o. ASSUME NEW i \in Indexes, Reading, Upcoming.index # i PROVE BlockOpen(accs[i], response, seen + 1, i)
  <2>1. BlockOpen(accs[i], response, seen, i) /\ response[seen + 1].index # i
    BY <1>o, <1>t DEF AllOpen, Upcoming
  <2> QED
    BY <1>n, <2>1, OpenOther DEF Starts, Stops
<1>s. ASSUME response' = response, seen' = seen + 1,
             \A i \in Indexes : BlockOpen(accs'[i], response, seen + 1, i)
      PROVE  AllOpen'
  BY <1>s DEF AllOpen
<1>1. CASE ReadStart
  <2>1. Upcoming.index \in Indexes /\ Starts(response, seen + 1, Upcoming.index)
    BY <1>1, <1>n DEF ReadStart, Starts, Events, Upcoming
  <2>2. accs' = [accs EXCEPT ![Upcoming.index] = [kind |-> response[seen + 1].kind, deltas |-> {}]]
    BY <1>1 DEF ReadStart, Upcoming
  <2>3. BlockOpen([kind |-> response[seen + 1].kind, deltas |-> {}], response, seen + 1, Upcoming.index)
    BY <1>n, <2>1, OpenStarts
  <2>4. \A i \in Indexes : BlockOpen(accs'[i], response, seen + 1, i)
    BY <1>1, <1>a, <1>o, <2>1, <2>2, <2>3 DEF ReadStart
  <2> QED
    BY <1>1, <1>s, <2>4 DEF ReadStart
<1>2. CASE ReadDelta
  <2>1. Upcoming.index \in Indexes /\ response[seen + 1].type = "delta" /\ response[seen + 1].index = Upcoming.index
        /\ accs[Upcoming.index] \in Blocks
    BY <1>2, <1>n, <1>a DEF ReadDelta, Events, Upcoming, OpenBlock
  <2>2. accs' = [accs EXCEPT ![Upcoming.index] = [accs[Upcoming.index] EXCEPT !.deltas = @ \cup {seen + 1}]]
    BY <1>2 DEF ReadDelta
  <2>3. BlockOpen([accs[Upcoming.index] EXCEPT !.deltas = @ \cup {seen + 1}], response, seen + 1, Upcoming.index)
    BY <1>n, <1>t, <2>1, OpenDelta DEF AllOpen
  <2>4. \A i \in Indexes : BlockOpen(accs'[i], response, seen + 1, i)
    BY <1>2, <1>a, <1>o, <2>1, <2>2, <2>3 DEF ReadDelta
  <2> QED
    BY <1>2, <1>s, <2>4 DEF ReadDelta
<1>3. CASE ReadStop \/ (SkipEvent /\ Upcoming.type = "stop")
  <2>1. Upcoming.index \in Indexes /\ Stops(response, seen + 1, Upcoming.index)
    BY <1>3, <1>n DEF ReadStop, SkipEvent, Stops, Events, Upcoming
  <2>2. BlockOpen(Closed, response, seen + 1, Upcoming.index)
    BY <1>n, <2>1, OpenStop
  <2>3. accs' = [accs EXCEPT ![Upcoming.index] = Closed]
    <3>1. CASE ReadStop
      BY <3>1 DEF ReadStop
    <3>2. CASE SkipEvent /\ Upcoming.type = "stop"
      <4>1. accs' = accs /\ accs[Upcoming.index] = Closed
        BY <3>2 DEF SkipEvent, OpenBlock
      <4> QED
        BY <1>a, <2>1, <4>1
    <3> QED
      BY <1>3, <3>1, <3>2
  <2>4. \A i \in Indexes : BlockOpen(accs'[i], response, seen + 1, i)
    BY <1>3, <1>a, <1>o, <2>1, <2>2, <2>3 DEF ReadStop, SkipEvent
  <2> QED
    BY <1>3, <1>s, <2>4 DEF ReadStop, SkipEvent
<1>4. CASE (SkipEvent /\ Upcoming.type # "stop") \/ ReadMessageStop \/ ReadError
  <2>1. ASSUME NEW i \in Indexes PROVE BlockOpen(accs[i], response, seen + 1, i)
    <3>1. ~Starts(response, seen + 1, i) /\ ~Stops(response, seen + 1, i)
      BY <1>4 DEF SkipEvent, ReadMessageStop, ReadError, Starts, Stops, Upcoming
    <3>2. accs[i] = Closed \/ ~(response[seen + 1].type = "delta" /\ response[seen + 1].index = i)
      BY <1>4 DEF SkipEvent, ReadMessageStop, ReadError, OpenBlock, Upcoming
    <3> QED
      BY <1>n, <1>t, <3>1, <3>2, OpenOther DEF AllOpen
  <2>2. accs' = accs /\ response' = response /\ seen' = seen + 1
    BY <1>4 DEF SkipEvent, ReadMessageStop, ReadError
  <2> QED
    BY <1>s, <2>1, <2>2
<1>5. CASE Ask \/ Pause \/ BodyEnds \/ DriverEnds \/ Take \/ UNCHANGED streamVars
  BY <1>5, <1>t DEF Ask, Pause, BodyEnds, DriverEnds, Take, streamVars, AllOpen
<1> QED
  BY <1>1, <1>2, <1>3, <1>4, <1>5 DEF StreamNext, ReadStep

LEMMA MarkAlone ==
  ASSUME StreamTypes, MarkLast, channel # <<>>, Head(channel) \in Marker PROVE Trails = 1 /\ Len(channel) = 1
<1>1. channel \in Seq(Blocks \cup Marker) /\ Len(channel) \in Nat /\ DOMAIN channel = 1 .. Len(channel)
  BY StreamNumbers DEF StreamTypes
<1>2. 1 \in DOMAIN channel /\ Head(channel) = channel[1]
  BY <1>1
<1>3. channel[1].kind \notin Known
  BY <1>2 DEF Marker, TurnCompleted, InferenceError, Known
<1> QED
  BY <1>2, <1>3 DEF MarkLast

LEMMA NextTurns == StreamInv /\ [StreamNext]_streamVars => Turns' /\ MarkLast'
<1> SUFFICES ASSUME StreamInv, [StreamNext]_streamVars PROVE Turns' /\ MarkLast'
  OBVIOUS
<1>t. StreamTypes /\ Turns /\ MarkLast /\ Len(channel) \in Nat /\ DOMAIN channel = 1 .. Len(channel)
  BY StreamNumbers DEF StreamInv
<1>k. TurnCompleted.kind \notin Known /\ InferenceError.kind \notin Known /\ TurnCompleted # InferenceError
  <2>1. TurnCompleted.kind = "completed" /\ InferenceError.kind = "error"
    BY DEF TurnCompleted, InferenceError
  <2> QED
    BY <2>1 DEF Known
<1>1. CASE Ask
  <2>1. driver = "off" /\ attempts < MaxAttempts /\ channel = <<>> /\ seen = 0 /\ blocks = <<>>
    BY <1>1, <1>t DEF Ask, Turns
  <2>2. attempts' = attempts + 1 /\ UNCHANGED <<seen, channel, blocks>>
    BY <1>1 DEF Ask
  <2>3. attempts' # MaxAttempts => attempts' < MaxAttempts
    BY <1>t, <2>1, <2>2, StreamNumbers DEF StreamTypes
  <2>4. Turns'
    BY <1>1, <2>1, <2>2, <2>3 DEF Ask, Turns
  <2>5. MarkLast'
    BY <2>1, <2>2 DEF MarkLast
  <2> QED
    BY <2>4, <2>5
<1>2. CASE Pause
  BY <1>2, <1>t DEF Pause, Turns, MarkLast, Trails
<1>3. CASE ReadStart \/ ReadDelta \/ SkipEvent \/ ReadMessageStop \/ ReadError \/ BodyEnds
  <2>1. /\ driver = "reading" /\ driver' \in {"reading", "ended", "failing"}
        /\ UNCHANGED <<answer, attempts, channel, blocks>>
    BY <1>3 DEF ReadStart, ReadDelta, SkipEvent, ReadMessageStop, ReadError, BodyEnds, Reading
  <2> QED
    BY <1>t, <2>1 DEF Turns, MarkLast, Trails
<1>4. CASE ReadStop
  <2>1. driver = "reading" /\ driver' = driver /\ UNCHANGED <<answer, attempts, blocks>>
    BY <1>4 DEF ReadStop, Reading
  <2>2. Upcoming.index \in Indexes /\ accs[Upcoming.index] \in Blocks
    BY <1>4, <1>t, StreamNumbers DEF ReadStop, Reading, Events, OpenBlock, StreamTypes
  <2>3. Block(accs[Upcoming.index]).kind \in Known /\ Block(accs[Upcoming.index]) \in Blocks
    BY <2>2 DEF Block, Blocks
  <2>4. channel' = Append(channel, Block(accs[Upcoming.index]))
    BY <1>4 DEF ReadStop
  <2>5. MarkLast'
    <3>1. channel \in Seq(Blocks \cup Marker)
      BY <1>t DEF StreamTypes
    <3>2. /\ DOMAIN channel' = 1 .. Len(channel) + 1
          /\ \A j \in 1 .. Len(channel) : channel'[j] = channel[j]
          /\ channel'[Len(channel) + 1].kind \in Known
      BY <2>3, <2>4, <3>1
    <3>3. \A j \in DOMAIN channel' : j \in DOMAIN channel \/ j = Len(channel) + 1
      BY <1>t, <3>2
    <3> QED
      BY <1>t, <2>1, <3>2, <3>3 DEF MarkLast, Trails
  <2> QED
    BY <1>t, <2>1, <2>5 DEF Turns
<1>5. CASE DriverEnds
  <2>1. PICK mark \in Marker : channel' = Append(channel, mark)
    BY <1>5 DEF DriverEnds, Marker
  <2>2. driver \in {"ended", "failing"} /\ driver' = "gone" /\ UNCHANGED <<answer, attempts, seen, blocks>>
    BY <1>5 DEF DriverEnds
  <2>3. channel \in Seq(Blocks \cup Marker)
    BY <1>t DEF StreamTypes
  <2>4. /\ DOMAIN channel' = 1 .. Len(channel) + 1 /\ Len(channel') = Len(channel) + 1 /\ channel' # <<>>
        /\ \A j \in 1 .. Len(channel) : channel'[j] = channel[j]
        /\ channel'[Len(channel) + 1] = mark
    BY <2>1, <2>3
  <2>5. \A j \in DOMAIN channel' : (j \in DOMAIN channel /\ j # Len(channel) + 1) \/ j = Len(channel) + 1
    BY <1>t, <2>4
  <2>6. MarkLast'
    BY <1>t, <2>2, <2>4, <2>5 DEF MarkLast, Trails, Marker, TurnCompleted, InferenceError
  <2> QED
    BY <1>t, <2>2, <2>4, <2>6 DEF Turns
<1>6. CASE Take
  <2>1. channel # <<>> /\ channel' = Tail(channel) /\ UNCHANGED <<attempts, seen, driver>>
    BY <1>6 DEF Take
  <2>2. channel \in Seq(Blocks \cup Marker) /\ Len(channel) > 0
    BY <1>t, <2>1 DEF StreamTypes
  <2>3. /\ Head(channel) = channel[1] /\ Len(channel') = Len(channel) - 1 /\ channel' \in Seq(Blocks \cup Marker)
        /\ \A j \in 1 .. Len(channel') : channel'[j] = channel[j + 1]
    BY <2>1, <2>2, HeadTailProperties
  <2>4. DOMAIN channel' = 1 .. Len(channel) - 1 /\ (channel' = <<>> <=> Len(channel) = 1)
    BY <1>t, <2>3
  <2>5. Head(channel) \in Marker => Trails = 1 /\ Len(channel) = 1
    BY <1>t, <2>1, MarkAlone
  <2>6. ASSUME Head(channel) \notin Marker, driver = "gone" PROVE channel' # <<>>
    <3>1. Trails = 1
      BY <2>1, <2>6 DEF Trails
    <3>2. channel[Len(channel)] \in Marker
      BY <1>t, <2>2, <3>1 DEF MarkLast
    <3> QED
      BY <2>3, <2>4, <2>6, <3>2
  <2>7. MarkLast'
    <3>1. \A j \in DOMAIN channel' : j + 1 \in DOMAIN channel /\ (j = Len(channel') <=> j + 1 = Len(channel))
      BY <1>t, <2>3, <2>4
    <3>2. DOMAIN channel' # {} => Trails' = Trails
      BY <2>1, <2>4 DEF Trails
    <3> QED
      BY <1>t, <2>3, <2>4, <3>1, <3>2 DEF MarkLast, Marker, TurnCompleted, InferenceError
  <2>8. driver # "off"
    BY <1>t, <2>1 DEF Turns
  <2>9. Turns'
    <3>1. CASE Head(channel) \in Marker
      <4>1. driver = "gone" /\ channel' = <<>> /\ answer' \in {"complete", "failed"}
        BY <1>6, <2>4, <2>5, <3>1, TakeCases DEF Trails
      <4> QED
        BY <1>t, <2>1, <4>1 DEF Turns
    <3>2. CASE Head(channel) \notin Marker
      <4>1. answer' = answer
        BY <1>6, <3>2, TakeCases DEF Marker
      <4> QED
        BY <1>t, <2>1, <2>6, <2>8, <3>2, <4>1 DEF Turns
    <3> QED
      BY <3>1, <3>2
  <2> QED
    BY <2>7, <2>9
<1>7. CASE UNCHANGED streamVars
  BY <1>7, <1>t DEF streamVars, Turns, MarkLast, Trails
<1> QED
  BY <1>1, <1>2, <1>3, <1>4, <1>5, <1>6, <1>7 DEF StreamNext, ReadStep

LEMMA NoEnd ==
  ASSUME StreamInv, \A i \in Indexes : Stops(response, seen + 1, i) => accs[i] = Closed
  PROVE  Ends(response, seen + 1) = Ends(response, seen)
<1>1. seen \in Nat /\ \A i \in Indexes : BlockOpen(accs[i], response, seen, i)
  BY StreamNumbers DEF StreamInv, AllOpen
<1>2. \A i \in Indexes : Stops(response, seen + 1, i) => ~ \E from \in 1 .. seen + 1 - 1 : Begins(response, from, seen + 1, i)
  BY <1>1, EndIffOpen
<1>3. Ends(response, seen + 1) = Ends(response, seen) \cup
           (IF \E i \in Indexes : Stops(response, seen + 1, i) /\ \E from \in 1 .. seen + 1 - 1 : Begins(response, from, seen + 1, i)
            THEN {seen + 1} ELSE {})
  BY <1>1, EndsGrow
<1> QED
  BY <1>2, <1>3

LEMMA JoinedAt ==
  ASSUME StreamTypes, NEW c \in Seq(Blocks \cup Marker)
  PROVE  /\ \A j \in 1 .. Len(blocks) : (blocks \o c)[j] = blocks[j]
         /\ \A j \in 1 .. Len(c) : (blocks \o c)[Len(blocks) + j] = c[j]
         /\ Len(c) \in Nat
         /\ \A j \in 1 .. Len(blocks) + Len(c) : j \in 1 .. Len(blocks) \/ (j - Len(blocks) \in 1 .. Len(c) /\ j = Len(blocks) + (j - Len(blocks)))
<1>1. blocks \in Seq(Blocks \cup Marker) /\ Len(blocks) \in Nat /\ Len(c) \in Nat
  BY StreamNumbers, SeqMonotonic DEF StreamTypes
<1>2. \A j \in 1 .. Len(blocks) + Len(c) : (blocks \o c)[j] = IF j <= Len(blocks) THEN blocks[j] ELSE c[j - Len(blocks)]
  BY <1>1, ConcatProperties
<1> QED
  BY <1>1, <1>2

(* What the driver sends on comes behind what is there. *)
LEMMA SentBehind ==
  ASSUME StreamTypes, NEW b \in Blocks \cup Marker
  PROVE  /\ \A j \in 1 .. Len(blocks) + Len(channel) : (blocks \o Append(channel, b))[j] = (blocks \o channel)[j]
         /\ (blocks \o Append(channel, b))[Len(blocks) + Len(channel) + 1] = b
         /\ Len(Append(channel, b)) = Len(channel) + 1
<1>1. channel \in Seq(Blocks \cup Marker) /\ Len(channel) \in Nat /\ Len(blocks) \in Nat
  BY StreamNumbers DEF StreamTypes
<1> DEFINE c == Append(channel, b)
<1>2. c \in Seq(Blocks \cup Marker) /\ Len(c) = Len(channel) + 1
      /\ c[Len(channel) + 1] = b /\ \A j \in 1 .. Len(channel) : c[j] = channel[j]
  BY <1>1, AppendProperties
<1> HIDE DEF c
<1>3. ASSUME NEW j \in 1 .. Len(blocks) + Len(channel) PROVE (blocks \o c)[j] = (blocks \o channel)[j]
  <2>1. CASE j \in 1 .. Len(blocks)
    BY <1>1, <1>2, <2>1, JoinedAt
  <2>2. CASE j - Len(blocks) \in 1 .. Len(channel)
    <3>1. PICK m \in 1 .. Len(channel) : j = Len(blocks) + m
      BY <1>1, <2>2
    <3>2. m \in 1 .. Len(c)
      BY <1>1, <1>2
    <3> QED
      BY <1>1, <1>2, <3>1, <3>2, JoinedAt
  <2> QED
    BY <1>1, <2>1, <2>2, JoinedAt
<1>4. (blocks \o c)[Len(blocks) + (Len(channel) + 1)] = b
  <2>1. Len(channel) + 1 \in 1 .. Len(c)
    BY <1>1, <1>2
  <2> QED
    BY <1>2, <2>1, JoinedAt
<1>5. Len(blocks) + (Len(channel) + 1) = Len(blocks) + Len(channel) + 1
  BY <1>1
<1> QED
  BY <1>2, <1>3, <1>4, <1>5 DEF c

LEMMA TakenOver ==
  ASSUME StreamTypes, channel # <<>>, Head(channel) \in Blocks
  PROVE  /\ Len(Append(blocks, Head(channel))) + Len(Tail(channel)) = Len(blocks) + Len(channel)
         /\ \A j \in 1 .. Len(blocks) + Len(channel) :
              (Append(blocks, Head(channel)) \o Tail(channel))[j] = (blocks \o channel)[j]
<1>1. channel \in Seq(Blocks \cup Marker) /\ Len(channel) \in Nat /\ Len(blocks) \in Nat /\ blocks \in Seq(Blocks \cup Marker)
      /\ Len(channel) > 0
  BY StreamNumbers, SeqMonotonic DEF StreamTypes
<1> DEFINE d == Append(blocks, Head(channel))
           c == Tail(channel)
<1>2. /\ d \in Seq(Blocks \cup Marker) /\ Len(d) = Len(blocks) + 1
      /\ d[Len(blocks) + 1] = channel[1] /\ \A j \in 1 .. Len(blocks) : d[j] = blocks[j]
  BY <1>1
<1>3. c \in Seq(Blocks \cup Marker) /\ Len(c) = Len(channel) - 1 /\ \A j \in 1 .. Len(c) : c[j] = channel[j + 1]
  BY <1>1, HeadTailProperties
<1> HIDE DEF d, c
<1>4. \A j \in 1 .. Len(d) + Len(c) : (d \o c)[j] = IF j <= Len(d) THEN d[j] ELSE c[j - Len(d)]
  BY <1>2, <1>3, ConcatProperties
<1>5. \A j \in 1 .. Len(blocks) + Len(channel) :
        (blocks \o channel)[j] = IF j <= Len(blocks) THEN blocks[j] ELSE channel[j - Len(blocks)]
  BY <1>1, ConcatProperties
<1>6. ASSUME NEW j \in 1 .. Len(blocks) + Len(channel) PROVE (d \o c)[j] = (blocks \o channel)[j]
  <2>0. j \in 1 .. Len(d) + Len(c)
    BY <1>1, <1>2, <1>3
  <2>1. CASE j \in 1 .. Len(blocks)
    <3>1. j <= Len(d) /\ j <= Len(blocks)
      BY <1>1, <1>2, <2>1
    <3> QED
      BY <1>2, <1>4, <1>5, <2>0, <2>1, <3>1
  <2>2. CASE j = Len(blocks) + 1
    <3>1. j <= Len(d) /\ ~(j <= Len(blocks)) /\ j - Len(blocks) = 1
      BY <1>1, <1>2, <2>2
    <3> QED
      BY <1>2, <1>4, <1>5, <2>0, <2>2, <3>1
  <2>3. CASE j > Len(blocks) + 1
    <3>1. ~(j <= Len(d)) /\ ~(j <= Len(blocks)) /\ j - Len(d) \in 1 .. Len(c) /\ j - Len(d) + 1 = j - Len(blocks)
      BY <1>1, <1>2, <1>3, <2>3
    <3>2. c[j - Len(d)] = channel[j - Len(blocks)]
      BY <1>3, <3>1
    <3>3. (d \o c)[j] = c[j - Len(d)]
      BY <1>4, <2>0, <3>1
    <3>4. (blocks \o channel)[j] = channel[j - Len(blocks)]
      BY <1>5, <3>1
    <3> QED
      BY <3>2, <3>3, <3>4
  <2>4. \A m \in Nat : j \in 1 .. m \/ j = m + 1 \/ j > m + 1
    OBVIOUS
  <2> QED
    BY <1>1, <2>1, <2>2, <2>3, <2>4
<1>7. Len(d) + Len(c) = Len(blocks) + Len(channel)
  BY <1>1, <1>2, <1>3
<1> QED
  BY <1>6, <1>7 DEF d, c

LEMMA NextSentOn == StreamInv /\ [StreamNext]_streamVars => SentOn'
<1> SUFFICES ASSUME StreamInv, [StreamNext]_streamVars PROVE SentOn'
  OBVIOUS
<1>t. StreamTypes /\ Turns /\ MarkLast /\ SentOn /\ AllOpen
  BY DEF StreamInv
<1>n. /\ seen \in Nat /\ Len(channel) \in Nat /\ Len(blocks) \in Nat
      /\ (Reading => Upcoming \in Events)
      /\ Cardinality(Ends(response, seen)) \in Nat
  BY <1>t, StreamNumbers, EndsFinite DEF Reading
<1>1. CASE Ask \/ Pause \/ BodyEnds \/ UNCHANGED streamVars
  <2>1. UNCHANGED <<response, seen, channel, blocks>> /\ (answer = "failed" => answer' = "failed")
    BY <1>1 DEF Ask, Pause, BodyEnds, streamVars
  <2>2. answer' # "failed" => Trails' = Trails
    BY <1>1, <1>t, <2>1 DEF Ask, Pause, BodyEnds, streamVars, Trails, Turns
  <2> QED
    BY <1>t, <2>1, <2>2 DEF SentOn
<1>2. CASE ReadStart \/ ReadDelta \/ SkipEvent \/ ReadMessageStop \/ ReadError
  <2>1. /\ seen' = seen + 1 /\ Reading /\ driver' # "gone"
        /\ UNCHANGED <<answer, response, channel, blocks>>
    BY <1>2 DEF ReadStart, ReadDelta, SkipEvent, ReadMessageStop, ReadError, Reading
  <2>2. \A i \in Indexes : Stops(response, seen + 1, i) => accs[i] = Closed
    BY <1>2 DEF ReadStart, ReadDelta, SkipEvent, ReadMessageStop, ReadError, Stops, Upcoming, OpenBlock
  <2>3. Ends(response, seen + 1) = Ends(response, seen)
    BY <2>2, NoEnd
  <2>4. Trails = 0 /\ Trails' = 0
    BY <2>1 DEF Trails, Reading
  <2>5. InPlace(blocks \o channel, response, seen) => InPlace(blocks \o channel, response, seen + 1)
    BY <1>n, <2>3, SameEnds
  <2> QED
    BY <1>t, <2>1, <2>3, <2>4, <2>5 DEF SentOn
<1>3. CASE ReadStop
  <2>1. Upcoming.index \in Indexes /\ accs[Upcoming.index] \in Blocks /\ Stops(response, seen + 1, Upcoming.index)
    BY <1>3, <1>t, <1>n DEF ReadStop, Events, OpenBlock, StreamTypes, Stops, Upcoming
  <2>2. PICK b \in Blocks : b = accs[Upcoming.index] /\ channel' = Append(channel, b)
    <3>1. Block(accs[Upcoming.index]) = accs[Upcoming.index]
      BY <2>1 DEF Block, Blocks
    <3> QED
      BY <1>3, <2>1, <3>1 DEF ReadStop
  <2>3. /\ seen' = seen + 1 /\ driver = "reading" /\ driver' = driver
        /\ UNCHANGED <<answer, response, blocks>>
    BY <1>3 DEF ReadStop, Reading
  <2>4. Trails = 0 /\ Trails' = 0 /\ answer = "streaming"
    BY <1>t, <2>3 DEF Trails, Turns
  <2>5. Len(blocks) + Len(channel) = Cardinality(Ends(response, seen)) /\ InPlace(blocks \o channel, response, seen)
    BY <1>t, <1>n, <2>4 DEF SentOn
  <2>6. /\ \A j \in 1 .. Cardinality(Ends(response, seen)) : (blocks \o Append(channel, b))[j] = (blocks \o channel)[j]
        /\ (blocks \o Append(channel, b))[Cardinality(Ends(response, seen)) + 1] = b
        /\ Len(Append(channel, b)) = Len(channel) + 1
    BY <1>t, <2>5, SentBehind
  <2>7. BlockOpen(b, response, seen, Upcoming.index) /\ b # Closed
    BY <1>t, <2>1, <2>2, KnownNotClosed DEF AllOpen
  <2>8. /\ InPlace(blocks \o Append(channel, b), response, seen + 1)
        /\ Cardinality(Ends(response, seen + 1)) = Cardinality(Ends(response, seen)) + 1
    BY <1>n, <2>1, <2>5, <2>6, <2>7, BlockSent
  <2>9. Len(blocks) + Len(channel') = Cardinality(Ends(response, seen + 1))
    BY <1>n, <2>2, <2>5, <2>6, <2>8
  <2>10. Cardinality(Ends(response, seen + 1)) + 0 = Cardinality(Ends(response, seen + 1))
    BY <1>n, <2>8
  <2> QED
    BY <2>2, <2>3, <2>4, <2>8, <2>9, <2>10 DEF SentOn
<1>4. CASE DriverEnds
  <2>1. PICK mark \in Marker : channel' = Append(channel, mark)
    BY <1>4 DEF DriverEnds, Marker
  <2>2. driver \in {"ended", "failing"} /\ driver' = "gone" /\ UNCHANGED <<answer, response, seen, blocks>>
    BY <1>4 DEF DriverEnds
  <2>3. channel' # <<>>
    BY <1>t, <2>1 DEF StreamTypes
  <2>4. Trails = 0 /\ Trails' = 1 /\ answer = "streaming"
    BY <1>t, <2>2, <2>3 DEF Trails, Turns
  <2>5. Len(blocks) + Len(channel) = Cardinality(Ends(response, seen)) /\ InPlace(blocks \o channel, response, seen)
    BY <1>t, <1>n, <2>4 DEF SentOn
  <2>6. /\ \A j \in 1 .. Cardinality(Ends(response, seen)) : (blocks \o Append(channel, mark))[j] = (blocks \o channel)[j]
        /\ Len(Append(channel, mark)) = Len(channel) + 1
    BY <1>t, <2>5, SentBehind
  <2>7. InPlace(blocks \o Append(channel, mark), response, seen)
    BY <1>n, <2>5, <2>6, InPlaceStays
  <2>8. Len(blocks) + Len(channel') = Cardinality(Ends(response, seen)) + 1
    BY <1>n, <2>1, <2>5, <2>6
  <2> QED
    BY <2>1, <2>2, <2>4, <2>7, <2>8 DEF SentOn
<1>5. CASE Take
  <2>1. channel # <<>> /\ channel' = Tail(channel) /\ UNCHANGED <<response, seen, driver>>
    BY <1>5 DEF Take
  <2>2. /\ Head(channel) \in Blocks \cup Marker /\ Len(Tail(channel)) = Len(channel) - 1
        /\ channel \in Seq(Blocks \cup Marker) /\ Len(channel) > 0
    BY <1>t, <2>1, HeadTailProperties DEF StreamTypes
  <2>3. answer = "streaming"
    BY <1>t, <2>1 DEF Turns
  <2>4. Len(blocks) + Len(channel) = Cardinality(Ends(response, seen)) + Trails /\ InPlace(blocks \o channel, response, seen)
    BY <1>t, <2>3 DEF SentOn
  <2>5. CASE Head(channel) \in Marker
    <3> SUFFICES ASSUME answer' # "failed" PROVE SentOn'
      BY DEF SentOn
    <3>1. Trails = 1 /\ Len(channel) = 1
      BY <1>t, <2>1, <2>5, MarkAlone
    <3>2. channel' = <<>> /\ Trails' = 0 /\ Len(channel') = 0
      <4>1. Tail(channel) \in Seq(Blocks \cup Marker) /\ Len(Tail(channel)) = 0
        BY <2>1, <2>2, <3>1, HeadTailProperties
      <4>2. Tail(channel) = <<>>
        BY <4>1, EmptySeq
      <4> QED
        BY <2>1, <4>1, <4>2 DEF Trails
    <3>3. blocks' = blocks
      BY <1>5, <2>5, TakeCases DEF Marker
    <3>4. Cardinality(Ends(response, seen)) = Len(blocks)
      BY <1>n, <2>4, <3>1
    <3>5. \A j \in 1 .. Cardinality(Ends(response, seen)) : (blocks \o <<>>)[j] = (blocks \o channel)[j]
      BY <1>t, <2>2, <3>4, JoinedAt
    <3>6. InPlace(blocks \o <<>>, response, seen)
      BY <1>n, <2>4, <3>5, InPlaceStays
    <3>7. Len(blocks) + 0 = Len(blocks) /\ Cardinality(Ends(response, seen)) + 0 = Cardinality(Ends(response, seen))
      BY <1>n
    <3> QED
      BY <2>1, <3>2, <3>3, <3>4, <3>6, <3>7 DEF SentOn
  <2>6. CASE Head(channel) \notin Marker
    <3>1. answer' = answer /\ blocks' = Append(blocks, Head(channel)) /\ Head(channel) \in Blocks
      BY <1>5, <2>2, <2>6, TakeCases DEF Marker
    <3>2. Trails' = Trails
      <4>1. driver = "gone" => channel' # <<>>
        BY NextTurns, <2>1, <2>3, <3>1 DEF Turns
      <4> QED
        BY <2>1, <4>1 DEF Trails
    <3>3. Len(blocks') + Len(channel') = Len(blocks) + Len(channel)
          /\ \A j \in 1 .. Len(blocks) + Len(channel) : (blocks' \o channel')[j] = (blocks \o channel)[j]
      BY <1>t, <2>1, <3>1, TakenOver
    <3>4. Trails \in 0 .. 1
      BY DEF Trails
    <3>5. \A j \in 1 .. Cardinality(Ends(response, seen)) : j \in 1 .. Len(blocks) + Len(channel)
      BY <1>n, <2>4, <3>4
    <3>6. InPlace(blocks' \o channel', response, seen)
      BY <1>n, <2>4, <3>3, <3>5, InPlaceStays
    <3> QED
      BY <2>1, <2>4, <3>2, <3>3, <3>6 DEF SentOn
  <2> QED
    BY <2>5, <2>6
<1> QED
  BY <1>1, <1>2, <1>3, <1>4, <1>5 DEF StreamNext, ReadStep

LEMMA CleanGrows ==
  ASSUME NEW r, NEW n \in Nat
  PROVE  /\ Clean(r, n + 1) <=> Clean(r, n) /\ r[n + 1].type \notin {"error", "garbled"}
         /\ Over(r, n + 1) <=> Over(r, n) \/ r[n + 1].type = "message_stop"
<1>1. \A k : k \in 1 .. n + 1 <=> k \in 1 .. n \/ k = n + 1
  OBVIOUS
<1> QED
  BY <1>1 DEF Clean, Over

LEMMA NextEndsClean == StreamInv /\ [StreamNext]_streamVars => EndsClean'
<1> SUFFICES ASSUME StreamInv, [StreamNext]_streamVars PROVE EndsClean'
  OBVIOUS
<1>t. StreamTypes /\ Turns /\ MarkLast /\ EndsClean
  BY DEF StreamInv
<1>n. /\ seen \in Nat /\ Len(channel) \in Nat
      /\ Clean(response, seen + 1) <=> Clean(response, seen) /\ Upcoming.type \notin {"error", "garbled"}
      /\ Over(response, seen + 1) <=> Over(response, seen) \/ Upcoming.type = "message_stop"
  BY <1>t, StreamNumbers, CleanGrows DEF Upcoming
<1>1. CASE Ask
  BY <1>1, <1>t DEF Ask, Turns, EndsClean
<1>2. CASE Pause
  BY <1>2, <1>t DEF Pause, Turns, EndsClean
<1>3. CASE ReadStart \/ ReadDelta \/ SkipEvent \/ ReadStop
  <2>1. /\ driver = "reading" /\ driver' = driver /\ seen' = seen + 1 /\ UNCHANGED <<answer, response>>
        /\ Upcoming.type \notin {"error", "garbled"}
    BY <1>3 DEF ReadStart, ReadDelta, SkipEvent, ReadStop, Reading
  <2> QED
    BY <1>t, <1>n, <2>1 DEF Turns, EndsClean
<1>4. CASE ReadMessageStop
  BY <1>4, <1>t, <1>n DEF ReadMessageStop, Reading, Turns, EndsClean
<1>5. CASE ReadError
  BY <1>5, <1>t DEF ReadError, Reading, Turns, EndsClean
<1>6. CASE BodyEnds
  BY <1>6, <1>t DEF BodyEnds, Turns, EndsClean
<1>7. CASE DriverEnds
  <2>1. /\ driver \in {"ended", "failing"} /\ driver' = "gone" /\ answer = "streaming"
        /\ UNCHANGED <<answer, response, seen, cutShort>>
    BY <1>7, <1>t DEF DriverEnds, Turns
  <2>2. PICK mark \in Marker : channel' = Append(channel, mark) /\ (mark = TurnCompleted => driver = "ended")
    <3>1. TurnCompleted # InferenceError
      BY DEF TurnCompleted, InferenceError
    <3> QED
      BY <1>7, <3>1 DEF DriverEnds, Marker
  <2>3. channel'[Len(channel')] = mark
    BY <1>t, <2>2, AppendProperties DEF StreamTypes
  <2> QED
    BY <1>t, <2>1, <2>2, <2>3 DEF EndsClean
<1>8. CASE Take
  <2>1. channel # <<>> /\ channel' = Tail(channel) /\ UNCHANGED <<response, seen, driver, cutShort>>
    BY <1>8 DEF Take
  <2>2. /\ channel \in Seq(Blocks \cup Marker) /\ Len(channel) > 0 /\ Head(channel) = channel[1]
        /\ Tail(channel) \in Seq(Blocks \cup Marker) /\ Len(Tail(channel)) = Len(channel) - 1
        /\ \A j \in 1 .. Len(Tail(channel)) : Tail(channel)[j] = channel[j + 1]
    BY <1>t, <2>1, HeadTailProperties DEF StreamTypes
  <2>3. ASSUME channel' # <<>> PROVE channel'[Len(channel')] = channel[Len(channel)]
    <3>1. Len(Tail(channel)) \in 1 .. Len(Tail(channel))
      BY <2>1, <2>2, <2>3, EmptySeq
    <3> QED
      BY <1>n, <2>1, <2>2, <3>1
  <2>4. answer = "streaming"
    BY <1>t, <2>1 DEF Turns
  <2>5. ASSUME answer' = "complete" PROVE Clean(response, seen) /\ (cutShort \/ Over(response, seen))
    <3>1. Head(channel) = TurnCompleted
      BY <1>8, <2>4, <2>5, TakeCases
    <3>2. Trails = 1 /\ Len(channel) = 1
      BY <1>t, <2>1, <3>1, MarkAlone DEF Marker
    <3>3. driver = "gone" /\ channel[Len(channel)] = TurnCompleted
      BY <2>2, <3>1, <3>2 DEF Trails
    <3> QED
      BY <1>t, <2>1, <3>3 DEF EndsClean
  <2> QED
    BY <1>t, <2>1, <2>3, <2>5 DEF EndsClean
<1>9. CASE UNCHANGED streamVars
  BY <1>9, <1>t DEF streamVars, EndsClean
<1> QED
  BY <1>1, <1>2, <1>3, <1>4, <1>5, <1>6, <1>7, <1>8, <1>9 DEF StreamNext, ReadStep

LEMMA NextStream == StreamInv /\ [StreamNext]_streamVars => StreamInv'
  BY NextStreamTypes, NextOpen, NextTurns, NextSentOn, NextEndsClean DEF StreamInv

LEMMA StreamTypesSuffice == StreamInv => StreamTypeOK
<1> SUFFICES ASSUME StreamInv PROVE StreamTypeOK
  OBVIOUS
<1>1. StreamTypes /\ AllOpen /\ seen \in Nat
  BY StreamNumbers DEF StreamInv
<1>2. ASSUME NEW i \in Indexes, accs[i] # Closed
      PROVE  accs[i].kind \in Known /\ accs[i].deltas \subseteq 1 .. seen
  <2>1. accs[i].kind \in Known
    BY <1>1, <1>2 DEF StreamTypes, Blocks
  <2>2. PICK from \in 1 .. seen : accs[i] = BlockBetween(response, from, seen + 1, i)
    BY <1>1, <1>2 DEF AllOpen, BlockOpen
  <2>3. DeltasBetween(response, from, seen + 1, i) \subseteq 1 .. seen
    <3>1. ASSUME NEW k PROVE DeltasBetween(response, from, k, i) \subseteq from + 1 .. k - 1
      BY DEF DeltasBetween
    <3>2. PICK k \in Nat : k = seen + 1
      BY <1>1
    <3>3. from + 1 .. k - 1 \subseteq 1 .. seen
      BY <1>1, <3>2
    <3>4. DeltasBetween(response, from, k, i) \subseteq 1 .. seen
      BY <3>1, <3>3
    <3> QED
      BY <3>2, <3>4
  <2> QED
    BY <2>1, <2>2, <2>3 DEF BlockBetween
<1> QED
  BY <1>1, <1>2 DEF StreamTypes, StreamTypeOK

LEMMA SentIsReceived == StreamInv => ResponseWhole
<1> SUFFICES ASSUME StreamInv, answer = "complete" PROVE ResponseWhole
  BY DEF ResponseWhole
<1>1. /\ blocks \in Seq(Blocks) /\ Len(blocks) \in Nat /\ seen \in Nat
      /\ channel = <<>> /\ Trails = 0
      /\ Clean(response, seen) /\ (cutShort \/ Over(response, seen))
  BY StreamNumbers DEF StreamInv, StreamTypes, Turns, EndsClean, Trails
<1>2. Len(blocks) + 0 = Cardinality(Ends(response, seen)) + 0 /\ InPlace(blocks \o <<>>, response, seen)
  BY <1>1 DEF StreamInv, SentOn
<1>3. blocks \o <<>> = blocks
  BY <1>1, ConcatEmptySeq
<1>4. Len(blocks) = Cardinality(Ends(response, seen))
  BY <1>1, <1>2, EndsFinite
<1>5. AreReceived(blocks, response, seen)
  BY <1>2, <1>3, <1>4 DEF InPlace, AreReceived, Rank
<1> QED
  BY <1>1, <1>5 DEF ResponseWhole, Clean, Over

(* A response that the loop records holds exactly the blocks that arrived
   whole, in the order of their ends, whatever the provider's response, the
   channel's capacity and the number of attempts. *)
THEOREM ResponseWholeHolds == StreamSpec => []ResponseWhole
<1>1. StreamInit => StreamInv
  BY InitStream
<1>2. StreamInv /\ [StreamNext]_streamVars => StreamInv'
  BY NextStream
<1>3. StreamInv => ResponseWhole
  BY SentIsReceived
<1> QED
  BY <1>1, <1>2, <1>3, PTL DEF StreamSpec

-----------------------------------------------------------------------------

(***************************************************************************)
(* The observation trees. Every batch is a sequence of events, each        *)
(* recorded once; what an event leans on is before it in its own batch, in *)
(* one that left before, or apart: sent beside another or failed.          *)
(***************************************************************************)
Placed == ToSet(queue) \cup ToSet(sending) \cup ToSet(last) \cup ToSet(received) \cup failed

TraceTypes ==
  /\ queue \in Seq(TraceEvents) /\ sending \in Seq(TraceEvents)
  /\ last \in Seq(TraceEvents) /\ received \in Seq(TraceEvents)
  /\ finished \subseteq made /\ made \subseteq Observations
  /\ flush \in {"no", "closing", "sending", "exited", "aborted"}
  /\ sender \in {"idle", "sending", "gone"}
  /\ failed \subseteq TraceEvents /\ apart \subseteq TraceEvents

(* A batch is only under way while its sender sends; two at once are apart. *)
Batches ==
  /\ sender # "sending" => sending = <<>>
  /\ flush # "sending" => last = <<>>
  /\ sending # <<>> /\ last # <<>> => ToSet(sending) \cup ToSet(last) \subseteq apart

(* What is recorded, and what has been, say the same. *)
RecordsKept ==
  /\ \A o \in made : Event(o, "create") \in Placed /\ (o # Trace => Parent(o) \in made)
  /\ \A o \in finished : Event(o, "update") \in Placed
  /\ \A e \in Placed : /\ e.kind = "create" => e.of \in made
                       /\ e.kind = "update" => e.of \in finished
                       /\ e.kind = "score" => e.of = Trace

Separate ==
  /\ IsInjective(queue) /\ IsInjective(sending) /\ IsInjective(last) /\ IsInjective(received)
  /\ ToSet(queue) \cap (ToSet(sending) \cup ToSet(last) \cup ToSet(received)) = {}
  /\ ToSet(sending) \cap (ToSet(last) \cup ToSet(received)) = {}
  /\ ToSet(last) \cap ToSet(received) = {}

Needed(e) == {Event(e.of, "create")} \cup (IF e.of = Trace THEN {} ELSE {Event(Parent(e.of), "create")})

Ordered(seq, base) ==
  \A k \in DOMAIN seq : \A e \in Needed(seq[k]) :
    e = seq[k] \/ e \in base \/ \E j \in DOMAIN seq : j < k /\ seq[j] = e

InOrder ==
  /\ Ordered(received, failed \cup apart)
  /\ Ordered(sending, ToSet(received) \cup failed \cup apart)
  /\ Ordered(last, ToSet(received) \cup failed \cup apart)
  /\ Ordered(queue, ToSet(sending) \cup ToSet(last) \cup ToSet(received) \cup failed)

TraceInv == TraceTypes /\ Batches /\ RecordsKept /\ Separate /\ InOrder

LEMMA SeqFacts ==
  ASSUME NEW S, NEW s \in Seq(S)
  PROVE  Len(s) \in Nat /\ DOMAIN s = 1 .. Len(s) /\ \A i \in 1 .. Len(s) : s[i] \in S
  BY LenProperties, ElementOfSeq

LEMMA AppendFacts ==
  ASSUME NEW S, NEW s \in Seq(S), NEW e \in S
  PROVE  /\ Append(s, e) \in Seq(S) /\ Len(Append(s, e)) = Len(s) + 1
         /\ DOMAIN Append(s, e) = 1 .. Len(s) + 1
         /\ Append(s, e)[Len(s) + 1] = e /\ \A i \in 1 .. Len(s) : Append(s, e)[i] = s[i]
         /\ ToSet(Append(s, e)) = ToSet(s) \cup {e}
<1>1. /\ Append(s, e) \in Seq(S) /\ Len(Append(s, e)) = Len(s) + 1 /\ Len(s) \in Nat
      /\ Append(s, e)[Len(s) + 1] = e /\ \A i \in 1 .. Len(s) : Append(s, e)[i] = s[i]
  BY SeqFacts, AppendProperties
<1>2. DOMAIN Append(s, e) = 1 .. Len(s) + 1 /\ DOMAIN s = 1 .. Len(s)
  BY <1>1, SeqFacts
<1>3. 1 .. Len(s) + 1 = 1 .. Len(s) \cup {Len(s) + 1}
  BY <1>1
<1> DEFINE t == Append(s, e)
<1>4. {t[i] : i \in DOMAIN t} = {s[i] : i \in DOMAIN s} \cup {e}
  <2>1. DOMAIN t = DOMAIN s \cup {Len(s) + 1} /\ t[Len(s) + 1] = e /\ \A i \in DOMAIN s : t[i] = s[i]
    BY <1>1, <1>2, <1>3
  <2> HIDE DEF t
  <2> QED
    BY <2>1
<1> QED
  BY <1>1, <1>2, <1>4 DEF ToSet

LEMMA ConcatFacts ==
  ASSUME NEW S, NEW s \in Seq(S), NEW t \in Seq(S)
  PROVE  /\ s \o t \in Seq(S) /\ Len(s \o t) = Len(s) + Len(t)
         /\ DOMAIN (s \o t) = 1 .. Len(s) + Len(t)
         /\ \A i \in 1 .. Len(s) : (s \o t)[i] = s[i]
         /\ \A i \in 1 .. Len(t) : (s \o t)[Len(s) + i] = t[i]
         /\ \A i \in 1 .. Len(s) + Len(t) : i \in 1 .. Len(s) \/ (i - Len(s) \in 1 .. Len(t) /\ i = Len(s) + (i - Len(s)))
         /\ ToSet(s \o t) = ToSet(s) \cup ToSet(t)
<1>1. Len(s) \in Nat /\ Len(t) \in Nat /\ DOMAIN s = 1 .. Len(s) /\ DOMAIN t = 1 .. Len(t)
  BY SeqFacts
<1> DEFINE u == s \o t
<1>2. u \in Seq(S) /\ Len(u) = Len(s) + Len(t)
      /\ \A i \in 1 .. Len(s) + Len(t) : u[i] = IF i <= Len(s) THEN s[i] ELSE t[i - Len(s)]
  BY ConcatProperties
<1>3. DOMAIN u = 1 .. Len(s) + Len(t)
  BY <1>2, SeqFacts
<1> HIDE DEF u
<1>4. /\ \A i \in 1 .. Len(s) : u[i] = s[i]
      /\ \A i \in 1 .. Len(t) : u[Len(s) + i] = t[i]
  BY <1>1, <1>2
<1>5. \A i \in 1 .. Len(s) + Len(t) : i \in 1 .. Len(s) \/ (i - Len(s) \in 1 .. Len(t) /\ i = Len(s) + (i - Len(s)))
  BY <1>1
<1>6. {u[i] : i \in DOMAIN u} = {s[i] : i \in DOMAIN s} \cup {t[i] : i \in DOMAIN t}
  <2>1. ASSUME NEW i \in DOMAIN u PROVE u[i] \in {s[j] : j \in DOMAIN s} \cup {t[j] : j \in DOMAIN t}
    <3>1. CASE i \in 1 .. Len(s)
      BY <1>1, <1>4, <3>1
    <3>2. CASE i - Len(s) \in 1 .. Len(t) /\ i = Len(s) + (i - Len(s))
      <4>1. PICK j \in 1 .. Len(t) : i = Len(s) + j
        BY <3>2
      <4> QED
        BY <1>1, <1>4, <4>1
    <3> QED
      BY <1>3, <1>5, <3>1, <3>2
  <2>2. ASSUME NEW i \in DOMAIN s PROVE i \in DOMAIN u /\ u[i] = s[i]
    BY <1>1, <1>3, <1>4
  <2>3. ASSUME NEW i \in DOMAIN t PROVE Len(s) + i \in DOMAIN u /\ u[Len(s) + i] = t[i]
    BY <1>1, <1>3, <1>4
  <2> QED
    BY <2>1, <2>2, <2>3
<1> QED
  BY <1>2, <1>3, <1>4, <1>5, <1>6 DEF ToSet, u

LEMMA EmptyFacts == ToSet(<<>>) = {} /\ IsInjective(<<>>) /\ \A base : Ordered(<<>>, base)
<1>1. DOMAIN <<>> = {}
  OBVIOUS
<1> QED
  BY <1>1 DEF ToSet, IsInjective, Ordered

LEMMA InjectiveAppend ==
  ASSUME NEW S, NEW s \in Seq(S), NEW e \in S, IsInjective(s), e \notin ToSet(s)
  PROVE  IsInjective(Append(s, e))
<1>1. Len(s) \in Nat /\ DOMAIN s = 1 .. Len(s) /\ \A i \in 1 .. Len(s) : s[i] # e
  BY SeqFacts DEF ToSet
<1> DEFINE t == Append(s, e)
<1>2. DOMAIN t = 1 .. Len(s) + 1 /\ t[Len(s) + 1] = e /\ \A i \in 1 .. Len(s) : t[i] = s[i]
  BY AppendFacts
<1> HIDE DEF t
<1>3. \A i \in DOMAIN t : i \in 1 .. Len(s) \/ i = Len(s) + 1
  BY <1>1, <1>2
<1>4. \A i, j \in 1 .. Len(s) : s[i] = s[j] => i = j
  BY <1>1 DEF IsInjective
<1>5. \A i, j \in DOMAIN t : t[i] = t[j] => i = j
  BY <1>1, <1>2, <1>3, <1>4
<1> QED
  BY <1>5 DEF IsInjective, t

LEMMA InjectiveConcat ==
  ASSUME NEW S, NEW s \in Seq(S), NEW t \in Seq(S), IsInjective(s), IsInjective(t), ToSet(s) \cap ToSet(t) = {}
  PROVE  IsInjective(s \o t)
<1>1. DOMAIN s = 1 .. Len(s) /\ DOMAIN t = 1 .. Len(t) /\ Len(s) \in Nat /\ Len(t) \in Nat
  BY SeqFacts
<1> DEFINE u == s \o t
<1>2. /\ DOMAIN u = 1 .. Len(s) + Len(t)
      /\ \A i \in 1 .. Len(s) : u[i] = s[i]
      /\ \A i \in 1 .. Len(t) : u[Len(s) + i] = t[i]
      /\ \A i \in 1 .. Len(s) + Len(t) : i \in 1 .. Len(s) \/ (i - Len(s) \in 1 .. Len(t) /\ i = Len(s) + (i - Len(s)))
  BY ConcatFacts
<1> HIDE DEF u
<1>3. \A i \in 1 .. Len(s), j \in 1 .. Len(t) : s[i] # t[j]
  BY <1>1 DEF ToSet
<1>4. \A i, j \in 1 .. Len(s) : s[i] = s[j] => i = j
  BY <1>1 DEF IsInjective
<1>5. \A i, j \in 1 .. Len(t) : t[i] = t[j] => i = j
  BY <1>1 DEF IsInjective
<1>6. ASSUME NEW i \in DOMAIN u, NEW j \in DOMAIN u, u[i] = u[j] PROVE i = j
  <2>1. CASE i \in 1 .. Len(s) /\ j \in 1 .. Len(s)
    BY <1>2, <1>4, <1>6, <2>1
  <2>2. CASE i \in 1 .. Len(s) /\ j - Len(s) \in 1 .. Len(t)
    BY <1>2, <1>3, <1>6, <2>2
  <2>3. CASE i - Len(s) \in 1 .. Len(t) /\ j \in 1 .. Len(s)
    BY <1>2, <1>3, <1>6, <2>3
  <2>4. CASE i - Len(s) \in 1 .. Len(t) /\ j - Len(s) \in 1 .. Len(t)
    <3>1. i - Len(s) = j - Len(s)
      BY <1>2, <1>5, <1>6, <2>4
    <3> QED
      BY <1>1, <1>2, <3>1
  <2> QED
    BY <1>2, <2>1, <2>2, <2>3, <2>4
<1> QED
  BY <1>6 DEF IsInjective, u

LEMMA OrderedMore ==
  ASSUME NEW s, NEW base, NEW more, Ordered(s, base), base \subseteq more PROVE Ordered(s, more)
  BY DEF Ordered

LEMMA OrderedAppend ==
  ASSUME NEW S, NEW s \in Seq(S), NEW e \in S, NEW base, Ordered(s, base),
         Needed(e) \subseteq base \cup ToSet(s) \cup {e}
  PROVE  Ordered(Append(s, e), base)
<1>1. Len(s) \in Nat /\ DOMAIN s = 1 .. Len(s)
  BY SeqFacts
<1> DEFINE t == Append(s, e)
<1>2. DOMAIN t = 1 .. Len(s) + 1 /\ t[Len(s) + 1] = e /\ \A i \in 1 .. Len(s) : t[i] = s[i]
  BY AppendFacts
<1> HIDE DEF t
<1>3. ASSUME NEW k \in DOMAIN t, NEW d \in Needed(t[k])
      PROVE  d = t[k] \/ d \in base \/ \E j \in DOMAIN t : j < k /\ t[j] = d
  <2>1. CASE k \in 1 .. Len(s)
    <3>1. d = s[k] \/ d \in base \/ \E j \in DOMAIN s : j < k /\ s[j] = d
      BY <1>1, <1>2, <1>3, <2>1 DEF Ordered
    <3> QED
      BY <1>1, <1>2, <2>1, <3>1
  <2>2. CASE k = Len(s) + 1
    <3>1. d \in base \/ d = e \/ \E j \in 1 .. Len(s) : s[j] = d
      BY <1>1, <1>2, <1>3, <2>2 DEF ToSet
    <3> QED
      BY <1>1, <1>2, <2>2, <3>1
  <2> QED
    BY <1>1, <1>2, <2>1, <2>2
<1> QED
  BY <1>3 DEF Ordered, t

LEMMA OrderedConcat ==
  ASSUME NEW S, NEW s \in Seq(S), NEW t \in Seq(S), NEW base,
         Ordered(s, base), Ordered(t, base \cup ToSet(s))
  PROVE  Ordered(s \o t, base)
<1>1. DOMAIN s = 1 .. Len(s) /\ DOMAIN t = 1 .. Len(t) /\ Len(s) \in Nat /\ Len(t) \in Nat
  BY SeqFacts
<1> DEFINE u == s \o t
<1>2. /\ DOMAIN u = 1 .. Len(s) + Len(t)
      /\ \A i \in 1 .. Len(s) : u[i] = s[i]
      /\ \A i \in 1 .. Len(t) : u[Len(s) + i] = t[i]
      /\ \A i \in 1 .. Len(s) + Len(t) : i \in 1 .. Len(s) \/ (i - Len(s) \in 1 .. Len(t) /\ i = Len(s) + (i - Len(s)))
  BY ConcatFacts
<1> HIDE DEF u
<1>3. ASSUME NEW k \in DOMAIN u, NEW d \in Needed(u[k])
      PROVE  d = u[k] \/ d \in base \/ \E j \in DOMAIN u : j < k /\ u[j] = d
  <2>1. CASE k \in 1 .. Len(s)
    <3>1. d = s[k] \/ d \in base \/ \E j \in DOMAIN s : j < k /\ s[j] = d
      BY <1>1, <1>2, <1>3, <2>1 DEF Ordered
    <3> QED
      BY <1>1, <1>2, <2>1, <3>1
  <2>2. CASE k - Len(s) \in 1 .. Len(t)
    <3>1. PICK i \in 1 .. Len(t) : k = Len(s) + i
      BY <1>1, <1>2, <2>2
    <3>2. u[k] = t[i]
      BY <1>2, <3>1
    <3>3. d = t[i] \/ d \in base \cup ToSet(s) \/ \E j \in DOMAIN t : j < i /\ t[j] = d
      BY <1>1, <1>3, <3>2 DEF Ordered
    <3>4. CASE d \in ToSet(s)
      <4>1. PICK j \in 1 .. Len(s) : s[j] = d
        BY <1>1, <3>4 DEF ToSet
      <4>2. j < k /\ j \in DOMAIN u /\ u[j] = d
        BY <1>1, <1>2, <3>1, <4>1
      <4> QED
        BY <4>2
    <3>5. CASE \E j \in DOMAIN t : j < i /\ t[j] = d
      <4>1. PICK j \in 1 .. Len(t) : j < i /\ t[j] = d
        BY <1>1, <3>5
      <4>2. Len(s) + j < k /\ Len(s) + j \in DOMAIN u /\ u[Len(s) + j] = d
        BY <1>1, <1>2, <3>1, <4>1
      <4> QED
        BY <4>2
    <3> QED
      BY <3>2, <3>3, <3>4, <3>5
  <2> QED
    BY <1>2, <2>1, <2>2
<1> QED
  BY <1>3 DEF Ordered, u

-----------------------------------------------------------------------------
LEMMA PlacedIsAll ==
  TraceTypes => ToSet(queue \o sending \o last \o received) \cup failed = Placed
<1> SUFFICES ASSUME TraceTypes PROVE ToSet(queue \o sending \o last \o received) \cup failed = Placed
  OBVIOUS
<1>1. queue \in Seq(TraceEvents) /\ sending \in Seq(TraceEvents) /\ last \in Seq(TraceEvents) /\ received \in Seq(TraceEvents)
  BY DEF TraceTypes
<1>2. \A s, t \in Seq(TraceEvents) : s \o t \in Seq(TraceEvents) /\ ToSet(s \o t) = ToSet(s) \cup ToSet(t)
  BY ConcatFacts
<1>3. PICK two \in Seq(TraceEvents) : two = queue \o sending /\ ToSet(two) = ToSet(queue) \cup ToSet(sending)
  BY <1>1, <1>2
<1>4. PICK three \in Seq(TraceEvents) : three = two \o last /\ ToSet(three) = ToSet(two) \cup ToSet(last)
  BY <1>1, <1>2
<1>5. ToSet(three \o received) = ToSet(three) \cup ToSet(received)
  BY <1>1, <1>2
<1> QED
  BY <1>3, <1>4, <1>5 DEF Placed

LEMMA InitTrace == TraceInit => TraceInv
<1> SUFFICES ASSUME TraceInit PROVE TraceInv
  OBVIOUS
<1>1. Placed = {}
  BY EmptyFacts DEF TraceInit, Placed
<1>2. TraceTypes
  BY DEF TraceInit, TraceTypes
<1>3. Batches /\ RecordsKept
  BY <1>1 DEF TraceInit, Batches, RecordsKept
<1>4. Separate /\ InOrder
  BY EmptyFacts DEF TraceInit, Separate, InOrder
<1> QED
  BY <1>2, <1>3, <1>4 DEF TraceInv

(* An event is recorded at the end of the queue. *)
LEMMA Recorded ==
  ASSUME TraceInv, NEW o \in Observations, NEW kind \in {"create", "update", "score"}, Record(o, kind),
         Event(o, kind) \notin Placed, Needed(Event(o, kind)) \subseteq Placed \cup {Event(o, kind)}
  PROVE  /\ queue' \in Seq(TraceEvents) /\ Batches' /\ Separate' /\ InOrder'
         /\ Placed' = Placed \cup {Event(o, kind)}
<1> DEFINE e == Event(o, kind)
<1>1. e \in TraceEvents /\ queue \in Seq(TraceEvents)
  BY DEF Event, TraceEvents, TraceInv, TraceTypes
<1>2. queue' = Append(queue, e) /\ UNCHANGED <<sending, last, flush, sender, received, failed, apart>>
  BY DEF Record
<1>3. e \notin Placed /\ Needed(e) \subseteq Placed \cup {e}
  OBVIOUS
<1> HIDE DEF e
<1>4. queue' \in Seq(TraceEvents) /\ ToSet(queue') = ToSet(queue) \cup {e}
  BY <1>1, <1>2, AppendFacts
<1>5. Batches'
  BY <1>2 DEF TraceInv, Batches
<1>6. Separate'
  <2>1. IsInjective(queue')
    BY <1>1, <1>2, <1>3, InjectiveAppend DEF Placed, TraceInv, Separate
  <2>2. ToSet(queue') \cap (ToSet(sending') \cup ToSet(last') \cup ToSet(received')) = {}
    BY <1>2, <1>3, <1>4 DEF Placed, TraceInv, Separate
  <2> QED
    BY <1>2, <2>1, <2>2 DEF TraceInv, Separate
<1>7. InOrder'
  <2> DEFINE base == ToSet(sending) \cup ToSet(last) \cup ToSet(received) \cup failed
  <2>1. Ordered(queue, base) /\ Needed(e) \subseteq base \cup ToSet(queue) \cup {e}
    BY <1>3 DEF TraceInv, InOrder, Placed
  <2> HIDE DEF base
  <2>2. Ordered(queue', base)
    BY <1>1, <1>2, <2>1, OrderedAppend
  <2> QED
    BY <1>2, <2>2 DEF TraceInv, InOrder, base
<1>8. Placed' = Placed \cup {e}
  BY <1>2, <1>4 DEF Placed
<1> QED
  BY <1>4, <1>5, <1>6, <1>7, <1>8 DEF e

LEMMA EventsDiffer ==
  /\ \A o, p \in Observations, k, l \in {"create", "update", "score"} : Event(o, k) = Event(p, l) => o = p /\ k = l
  /\ \A o \in Observations, k \in {"create", "update", "score"} :
       Event(o, k).of = o /\ Event(o, k).kind = k /\ Event(o, k) \in TraceEvents
  /\ Trace \in Observations /\ Gen \in Observations /\ Spans \subseteq Observations /\ Trace # Gen
  /\ Trace \notin Spans /\ Gen \notin Spans
  BY TelemetryAssumption DEF Event, TraceEvents, Observations

LEMMA NextRecords == TraceInv /\ RunStep => TraceInv'
<1> SUFFICES ASSUME TraceInv, RunStep PROVE TraceInv'
  OBVIOUS
<1>t. made \subseteq Observations /\ finished \subseteq made
  BY DEF TraceInv, TraceTypes
<1>k. /\ \A o \in made : Event(o, "create") \in Placed /\ (o # Trace => Parent(o) \in made)
      /\ \A o \in finished : Event(o, "update") \in Placed
      /\ \A e \in Placed : /\ e.kind = "create" => e.of \in made
                           /\ e.kind = "update" => e.of \in finished
                           /\ e.kind = "score" => e.of = Trace
  BY DEF TraceInv, RecordsKept
<1>c. ASSUME NEW o \in Observations, o \notin made, o # Trace => Parent(o) \in made,
             Record(o, "create"), made' = made \cup {o}, UNCHANGED finished
      PROVE  TraceInv'
  <2>1. Event(o, "create") \notin Placed
    BY <1>k, <1>c, EventsDiffer
  <2>2. Needed(Event(o, "create")) \subseteq Placed \cup {Event(o, "create")}
    <3>1. Event(o, "create").of = o
      BY EventsDiffer
    <3>2. o # Trace => Event(Parent(o), "create") \in Placed
      BY <1>k, <1>c
    <3> QED
      BY <3>1, <3>2 DEF Needed
  <2>3. /\ queue' \in Seq(TraceEvents) /\ Batches' /\ Separate' /\ InOrder'
        /\ Placed' = Placed \cup {Event(o, "create")}
    BY <1>c, <2>1, <2>2, Recorded
  <2>4. TraceTypes'
    BY <1>c, <2>3 DEF TraceInv, TraceTypes, Record
  <2>5. RecordsKept'
    <3>1. \A p \in made' : Event(p, "create") \in Placed' /\ (p # Trace => Parent(p) \in made')
      BY <1>k, <1>c, <2>3
    <3>2. \A e \in Placed' : /\ e.kind = "create" => e.of \in made'
                             /\ e.kind = "update" => e.of \in finished'
                             /\ e.kind = "score" => e.of = Trace
      BY <1>k, <1>c, <2>3, EventsDiffer
    <3>3. \A p \in finished' : Event(p, "update") \in Placed'
      BY <1>k, <1>c, <2>3
    <3> QED
      BY <3>1, <3>2, <3>3 DEF RecordsKept, Event, Parent
  <2> QED
    BY <2>3, <2>4, <2>5 DEF TraceInv
<1>u. ASSUME NEW o \in made, o \notin finished, Record(o, "update"), finished' = finished \cup {o}, UNCHANGED made
      PROVE  TraceInv'
  <2>1. Event(o, "update") \notin Placed
    BY <1>k, <1>t, <1>u, EventsDiffer
  <2>2. Needed(Event(o, "update")) \subseteq Placed
    <3>1. Event(o, "update").of = o
      BY <1>t, EventsDiffer
    <3>2. o # Trace => Event(Parent(o), "create") \in Placed
      BY <1>k
    <3> QED
      BY <1>k, <3>1, <3>2 DEF Needed
  <2>3. /\ queue' \in Seq(TraceEvents) /\ Batches' /\ Separate' /\ InOrder'
        /\ Placed' = Placed \cup {Event(o, "update")}
    BY <1>t, <1>u, <2>1, <2>2, Recorded
  <2>4. TraceTypes'
    BY <1>u, <2>3 DEF TraceInv, TraceTypes, Record
  <2>5. RecordsKept'
    <3>1. \A p \in made' : Event(p, "create") \in Placed' /\ (p # Trace => Parent(p) \in made')
      BY <1>k, <1>u, <2>3
    <3>2. \A e \in Placed' : /\ e.kind = "create" => e.of \in made'
                             /\ e.kind = "update" => e.of \in finished'
                             /\ e.kind = "score" => e.of = Trace
      BY <1>k, <1>t, <1>u, <2>3, EventsDiffer
    <3>3. \A p \in finished' : Event(p, "update") \in Placed'
      BY <1>k, <1>u, <2>3
    <3> QED
      BY <3>1, <3>2, <3>3 DEF RecordsKept, Event, Parent
  <2> QED
    BY <2>3, <2>4, <2>5 DEF TraceInv
<1>1. CASE StartTrace
  BY <1>1, <1>c, EventsDiffer DEF StartTrace
<1>2. CASE StartGeneration
  <2>1. Parent(Gen) = Trace /\ Trace \in made
    BY <1>2 DEF StartGeneration, Parent
  <2> QED
    BY <1>2, <1>c, <2>1, EventsDiffer DEF StartGeneration
<1>3. CASE EndGeneration
  BY <1>3, <1>u DEF EndGeneration
<1>4. CASE EndTrace
  BY <1>4, <1>u DEF EndTrace
<1>5. CASE Score
  <2>1. Event(Trace, "score") \notin Placed /\ Trace \in made
    BY <1>5, <1>t, PlacedIsAll DEF Score, TraceInv
  <2>2. Needed(Event(Trace, "score")) \subseteq Placed
    <3>1. Event(Trace, "score").of = Trace
      BY EventsDiffer
    <3> QED
      BY <1>k, <2>1, <3>1 DEF Needed
  <2>3. Record(Trace, "score") /\ UNCHANGED <<made, finished>>
    BY <1>5 DEF Score
  <2>4. /\ queue' \in Seq(TraceEvents) /\ Batches' /\ Separate' /\ InOrder'
        /\ Placed' = Placed \cup {Event(Trace, "score")}
    BY <2>1, <2>2, <2>3, Recorded, EventsDiffer
  <2>5. TraceTypes'
    BY <2>3, <2>4 DEF TraceInv, TraceTypes, Record
  <2>6. RecordsKept'
    <3>1. \A p \in made' : Event(p, "create") \in Placed' /\ (p # Trace => Parent(p) \in made')
      BY <1>k, <2>3, <2>4
    <3>2. \A e \in Placed' : /\ e.kind = "create" => e.of \in made'
                             /\ e.kind = "update" => e.of \in finished'
                             /\ e.kind = "score" => e.of = Trace
      BY <1>k, <2>3, <2>4, EventsDiffer
    <3>3. \A p \in finished' : Event(p, "update") \in Placed'
      BY <1>k, <2>3, <2>4
    <3> QED
      BY <3>1, <3>2, <3>3 DEF RecordsKept, Event, Parent
  <2> QED
    BY <2>4, <2>5, <2>6 DEF TraceInv
<1>6. ASSUME NEW t \in Spans, StartSpan(t) PROVE TraceInv'
  <2>1. Parent(t) = Gen /\ Gen \in made
    BY <1>6, <1>t, EventsDiffer DEF StartSpan, Parent
  <2> QED
    BY <1>6, <1>c, <2>1, EventsDiffer DEF StartSpan
<1>7. ASSUME NEW t \in Spans, EndSpan(t) PROVE TraceInv'
  BY <1>7, <1>u DEF EndSpan
<1> QED
  BY <1>1, <1>2, <1>3, <1>4, <1>5, <1>6, <1>7 DEF RunStep

(* A batch reaches the server or is lost. *)
LEMMA Ingested ==
  ASSUME TraceInv, NEW batch \in Seq(TraceEvents), Outcome(batch), IsInjective(batch),
         ToSet(batch) \cap ToSet(received) = {}, Ordered(batch, ToSet(received) \cup failed \cup apart)
  PROVE  /\ received' \in Seq(TraceEvents) /\ failed' \subseteq TraceEvents
         /\ IsInjective(received') /\ Ordered(received', failed' \cup apart)
         /\ ToSet(received') \subseteq ToSet(received) \cup ToSet(batch)
         /\ ToSet(received') \cup failed' = ToSet(received) \cup failed \cup ToSet(batch)
<1>1. received \in Seq(TraceEvents) /\ failed \subseteq TraceEvents /\ IsInjective(received)
      /\ Ordered(received, failed \cup apart)
  BY DEF TraceInv, TraceTypes, Separate, InOrder
<1>2. CASE received' = received \o batch /\ UNCHANGED failed
  <2> DEFINE base == failed \cup apart
  <2>1. Ordered(received, base) /\ Ordered(batch, base \cup ToSet(received))
    <3>1. base \cup ToSet(received) = ToSet(received) \cup failed \cup apart
      OBVIOUS
    <3> QED
      BY <1>1, <3>1
  <2> HIDE DEF base
  <2>2. Ordered(received \o batch, base)
    BY <1>1, <2>1, OrderedConcat
  <2>3. ToSet(received') = ToSet(received) \cup ToSet(batch) /\ received' \in Seq(TraceEvents)
    BY <1>1, <1>2, ConcatFacts
  <2>4. IsInjective(received')
    BY <1>1, <1>2, InjectiveConcat
  <2> QED
    BY <1>1, <1>2, <2>2, <2>3, <2>4 DEF base
<1>3. CASE failed' = failed \cup ToSet(batch) /\ UNCHANGED received
  <2>1. ToSet(batch) \subseteq TraceEvents
    BY SeqFacts DEF ToSet
  <2>2. Ordered(received, failed' \cup apart)
    BY <1>1, <1>3, OrderedMore
  <2> QED
    BY <1>1, <1>3, <2>1, <2>2
<1> QED
  BY <1>2, <1>3 DEF Outcome

LEMMA SamePlaces ==
  ASSUME RecordsKept, Placed' = Placed, UNCHANGED <<made, finished>> PROVE RecordsKept'
<1>1. /\ \A o \in made' : Event(o, "create") \in Placed' /\ (o # Trace => Parent(o) \in made')
      /\ \A o \in finished' : Event(o, "update") \in Placed'
      /\ \A e \in Placed' : /\ e.kind = "create" => e.of \in made'
                            /\ e.kind = "update" => e.of \in finished'
                            /\ e.kind = "score" => e.of = Trace
  BY DEF RecordsKept
<1> QED
  BY <1>1 DEF RecordsKept, Event, Parent

LEMMA NextTakes == TraceInv /\ (TakeBatch \/ TakeLast) => TraceInv'
<1> SUFFICES ASSUME TraceInv, TakeBatch \/ TakeLast PROVE TraceInv'
  OBVIOUS
<1> USE DEF TraceInv
<1>t. queue \in Seq(TraceEvents) /\ sending \in Seq(TraceEvents) /\ last \in Seq(TraceEvents)
      /\ ToSet(queue) \subseteq TraceEvents /\ ToSet(sending) \subseteq TraceEvents /\ ToSet(last) \subseteq TraceEvents
  BY SeqFacts DEF TraceTypes, ToSet
<1>e. <<>> \in Seq(TraceEvents) /\ ToSet(<<>>) = {}
  BY EmptyFacts
<1>1. CASE TakeBatch
  <2>1. sending = <<>> /\ sending' = queue /\ queue' = <<>> /\ sender' = "sending"
        /\ UNCHANGED <<made, finished, last, flush, received, failed>>
    BY <1>1 DEF TakeBatch, Batches
  <2>2. apart \subseteq apart' /\ apart' \subseteq TraceEvents /\ (last # <<>> => ToSet(queue) \cup ToSet(last) \subseteq apart')
    <3>1. ToSet(queue \o last) = ToSet(queue) \cup ToSet(last)
      BY <1>t, ConcatFacts
    <3> QED
      BY <1>1, <1>t, <3>1 DEF TakeBatch, TraceTypes
  <2>3. ToSet(last) \subseteq apart'
    BY <1>e, <2>2
  <2>4. TraceTypes'
    BY <1>t, <1>e, <2>1, <2>2 DEF TraceTypes
  <2>5. Batches'
    BY <2>1, <2>2 DEF Batches
  <2>6. RecordsKept'
    BY <1>e, <2>1, SamePlaces DEF Placed
  <2>7. Separate'
    BY <1>e, <2>1, EmptyFacts DEF Separate
  <2>8. InOrder'
    <3>1. Ordered(received', failed' \cup apart')
      BY <2>1, <2>2, OrderedMore DEF InOrder
    <3>2. Ordered(sending', ToSet(received') \cup failed' \cup apart')
      <4>1. Ordered(queue, ToSet(sending) \cup ToSet(last) \cup ToSet(received) \cup failed)
        BY DEF InOrder
      <4>2. ToSet(sending) \cup ToSet(last) \cup ToSet(received) \cup failed \subseteq ToSet(received) \cup failed \cup apart'
        BY <1>e, <2>1, <2>3
      <4> QED
        BY <2>1, <4>1, <4>2, OrderedMore
    <3>3. Ordered(last', ToSet(received') \cup failed' \cup apart')
      BY <2>1, <2>2, OrderedMore DEF InOrder
    <3> QED
      BY <2>1, <3>1, <3>2, <3>3, EmptyFacts DEF InOrder
  <2> QED
    BY <2>4, <2>5, <2>6, <2>7, <2>8
<1>2. CASE TakeLast
  <2>1. last = <<>> /\ last' = queue /\ queue' = <<>> /\ flush' = (IF queue = <<>> THEN "exited" ELSE "sending")
        /\ UNCHANGED <<made, finished, sending, sender, received, failed>>
    BY <1>2 DEF TakeLast, Batches
  <2>2. apart \subseteq apart' /\ apart' \subseteq TraceEvents /\ (sending # <<>> => ToSet(queue) \cup ToSet(sending) \subseteq apart')
    <3>1. ToSet(queue \o sending) = ToSet(queue) \cup ToSet(sending)
      BY <1>t, ConcatFacts
    <3> QED
      BY <1>2, <1>t, <3>1 DEF TakeLast, TraceTypes
  <2>3. ToSet(sending) \subseteq apart'
    BY <1>e, <2>2
  <2>4. TraceTypes'
    BY <1>t, <1>e, <2>1, <2>2 DEF TraceTypes
  <2>5. Batches'
    BY <2>1, <2>2 DEF Batches
  <2>6. RecordsKept'
    BY <1>e, <2>1, SamePlaces DEF Placed
  <2>7. Separate'
    BY <1>e, <2>1, EmptyFacts DEF Separate
  <2>8. InOrder'
    <3>1. Ordered(received', failed' \cup apart')
      BY <2>1, <2>2, OrderedMore DEF InOrder
    <3>2. Ordered(last', ToSet(received') \cup failed' \cup apart')
      <4>1. Ordered(queue, ToSet(sending) \cup ToSet(last) \cup ToSet(received) \cup failed)
        BY DEF InOrder
      <4>2. ToSet(sending) \cup ToSet(last) \cup ToSet(received) \cup failed \subseteq ToSet(received) \cup failed \cup apart'
        BY <1>e, <2>1, <2>3
      <4> QED
        BY <2>1, <4>1, <4>2, OrderedMore
    <3>3. Ordered(sending', ToSet(received') \cup failed' \cup apart')
      BY <2>1, <2>2, OrderedMore DEF InOrder
    <3> QED
      BY <2>1, <3>1, <3>2, <3>3, EmptyFacts DEF InOrder
  <2> QED
    BY <2>4, <2>5, <2>6, <2>7, <2>8
<1> QED
  BY <1>1, <1>2

LEMMA NextSends == TraceInv /\ (SendBatch \/ SendLast) => TraceInv'
<1> SUFFICES ASSUME TraceInv, SendBatch \/ SendLast PROVE TraceInv'
  OBVIOUS
<1> USE DEF TraceInv
<1>e. <<>> \in Seq(TraceEvents) /\ ToSet(<<>>) = {}
  BY EmptyFacts
<1>a. ASSUME NEW batch \in {sending, last}, Outcome(batch)
      PROVE  /\ received' \in Seq(TraceEvents) /\ failed' \subseteq TraceEvents
             /\ IsInjective(received') /\ Ordered(received', failed' \cup apart)
             /\ ToSet(received') \subseteq ToSet(received) \cup ToSet(batch)
             /\ ToSet(received') \cup failed' = ToSet(received) \cup failed \cup ToSet(batch)
  <2>1. batch \in Seq(TraceEvents) /\ IsInjective(batch) /\ ToSet(batch) \cap ToSet(received) = {}
        /\ Ordered(batch, ToSet(received) \cup failed \cup apart)
    BY DEF TraceTypes, Separate, InOrder
  <2> QED
    BY <1>a, <2>1, Ingested
<1>1. CASE SendBatch
  <2>1. sending' = <<>> /\ sender' = "idle" /\ Outcome(sending)
        /\ UNCHANGED <<made, finished, queue, last, flush, apart>>
    BY <1>1 DEF SendBatch
  <2>2. /\ received' \in Seq(TraceEvents) /\ failed' \subseteq TraceEvents
        /\ IsInjective(received') /\ Ordered(received', failed' \cup apart)
        /\ ToSet(received') \subseteq ToSet(received) \cup ToSet(sending)
        /\ ToSet(received') \cup failed' = ToSet(received) \cup failed \cup ToSet(sending)
    BY <1>a, <2>1
  <2>3. TraceTypes'
    BY <1>e, <2>1, <2>2 DEF TraceTypes
  <2>4. Batches'
    BY <2>1 DEF Batches
  <2>5. RecordsKept'
    <3>1. Placed' = Placed
      BY <1>e, <2>1, <2>2 DEF Placed
    <3> QED
      BY <2>1, <3>1, SamePlaces
  <2>6. Separate'
    BY <1>e, <2>1, <2>2, EmptyFacts DEF Separate
  <2>7. InOrder'
    <3>1. Ordered(last', ToSet(received') \cup failed' \cup apart')
      <4>1. Ordered(last, ToSet(received) \cup failed \cup apart)
        BY DEF InOrder
      <4>2. ToSet(received) \cup failed \cup apart \subseteq ToSet(received') \cup failed' \cup apart'
        BY <2>1, <2>2
      <4> QED
        BY <2>1, <4>1, <4>2, OrderedMore
    <3>2. Ordered(queue', ToSet(sending') \cup ToSet(last') \cup ToSet(received') \cup failed')
      <4>1. Ordered(queue, ToSet(sending) \cup ToSet(last) \cup ToSet(received) \cup failed)
        BY DEF InOrder
      <4>2. ToSet(sending) \cup ToSet(last) \cup ToSet(received) \cup failed \subseteq
              ToSet(sending') \cup ToSet(last') \cup ToSet(received') \cup failed'
        BY <2>1, <2>2
      <4> QED
        BY <2>1, <4>1, <4>2, OrderedMore
    <3> QED
      BY <2>1, <2>2, <3>1, <3>2, EmptyFacts DEF InOrder
  <2> QED
    BY <2>3, <2>4, <2>5, <2>6, <2>7
<1>2. CASE SendLast
  <2>1. last' = <<>> /\ flush' = "exited" /\ Outcome(last)
        /\ UNCHANGED <<made, finished, queue, sending, sender, apart>>
    BY <1>2 DEF SendLast
  <2>2. /\ received' \in Seq(TraceEvents) /\ failed' \subseteq TraceEvents
        /\ IsInjective(received') /\ Ordered(received', failed' \cup apart)
        /\ ToSet(received') \subseteq ToSet(received) \cup ToSet(last)
        /\ ToSet(received') \cup failed' = ToSet(received) \cup failed \cup ToSet(last)
    BY <1>a, <2>1
  <2>3. TraceTypes'
    BY <1>e, <2>1, <2>2 DEF TraceTypes
  <2>4. Batches'
    BY <2>1 DEF Batches
  <2>5. RecordsKept'
    <3>1. Placed' = Placed
      BY <1>e, <2>1, <2>2 DEF Placed
    <3> QED
      BY <2>1, <3>1, SamePlaces
  <2>6. Separate'
    BY <1>e, <2>1, <2>2, EmptyFacts DEF Separate
  <2>7. InOrder'
    <3>1. Ordered(sending', ToSet(received') \cup failed' \cup apart')
      <4>1. Ordered(sending, ToSet(received) \cup failed \cup apart)
        BY DEF InOrder
      <4>2. ToSet(received) \cup failed \cup apart \subseteq ToSet(received') \cup failed' \cup apart'
        BY <2>1, <2>2
      <4> QED
        BY <2>1, <4>1, <4>2, OrderedMore
    <3>2. Ordered(queue', ToSet(sending') \cup ToSet(last') \cup ToSet(received') \cup failed')
      <4>1. Ordered(queue, ToSet(sending) \cup ToSet(last) \cup ToSet(received) \cup failed)
        BY DEF InOrder
      <4>2. ToSet(sending) \cup ToSet(last) \cup ToSet(received) \cup failed \subseteq
              ToSet(sending') \cup ToSet(last') \cup ToSet(received') \cup failed'
        BY <2>1, <2>2
      <4> QED
        BY <2>1, <4>1, <4>2, OrderedMore
    <3> QED
      BY <2>1, <2>2, <3>1, <3>2, EmptyFacts DEF InOrder
  <2> QED
    BY <2>3, <2>4, <2>5, <2>6, <2>7
<1> QED
  BY <1>1, <1>2

LEMMA NextTrace == TraceInv /\ [TraceNext]_traceVars => TraceInv'
<1> SUFFICES ASSUME TraceInv, [TraceNext]_traceVars PROVE TraceInv'
  OBVIOUS
<1>1. CASE StopSender \/ CloseDone \/ Abort \/ UNCHANGED traceVars
  <2>1. UNCHANGED <<made, finished, queue, sending, last, received, failed, apart>>
    BY <1>1 DEF StopSender, CloseDone, Abort, traceVars
  <2>2. TraceTypes'
    BY <1>1, <2>1 DEF StopSender, CloseDone, Abort, traceVars, TraceInv, TraceTypes
  <2>3. Batches'
    BY <1>1, <2>1 DEF StopSender, CloseDone, Abort, traceVars, TraceInv, Batches
  <2>4. RecordsKept'
    BY <2>1, SamePlaces DEF TraceInv, Placed
  <2>5. Separate' /\ InOrder'
    BY <2>1 DEF TraceInv, Separate, InOrder
  <2> QED
    BY <2>2, <2>3, <2>4, <2>5 DEF TraceInv
<1> QED
  BY <1>1, NextRecords, NextTakes, NextSends DEF TraceNext

LEMMA TraceTypesSuffice == TraceTypes => TraceTypeOK
<1> SUFFICES ASSUME TraceTypes PROVE TraceTypeOK
  OBVIOUS
<1>1. \A seq \in {queue, sending, last, received} : ToSet(seq) \subseteq TraceEvents
  BY SeqFacts DEF TraceTypes, ToSet
<1> QED
  BY <1>1 DEF TraceTypes, TraceTypeOK

LEMMA OrderIsTree == TraceInv => TreeArrivesInOrder
<1> SUFFICES ASSUME TraceInv PROVE TreeArrivesInOrder
  OBVIOUS
<1> USE DEF TraceInv
<1>t. received \in Seq(TraceEvents)
  BY DEF TraceTypes
<1>d. Len(received) \in Nat /\ DOMAIN received = 1 .. Len(received) /\ \A i \in 1 .. Len(received) : received[i] \in TraceEvents
  BY <1>t, SeqFacts
<1>1. ASSUME NEW k \in DOMAIN received
      PROVE  ToSet(SubSeq(received, 1, k - 1)) = {received[j] : j \in 1 .. k - 1}
  <2> DEFINE s == SubSeq(received, 1, k - 1)
  <2>1. /\ s \in Seq(TraceEvents) /\ Len(s) = (IF 1 <= k - 1 THEN k - 1 - 1 + 1 ELSE 0)
        /\ \A i \in 1 .. k - 1 - 1 + 1 : s[i] = received[1 + i - 1]
    <3>1. 1 \in Int /\ k - 1 \in Int /\ \A i \in 1 .. k - 1 : received[i] \in TraceEvents
      BY <1>d
    <3> QED
      BY <3>1, SubSeqProperties
  <2> HIDE DEF s
  <2>2. DOMAIN s = 1 .. k - 1
    <3>1. DOMAIN s = 1 .. Len(s)
      BY <2>1, SeqFacts
    <3> QED
      BY <1>d, <2>1, <3>1
  <2>3. \A i \in 1 .. k - 1 : s[i] = received[i]
    BY <1>d, <2>1
  <2> QED
    BY <2>2, <2>3 DEF ToSet, s
<1>2. ASSUME NEW k \in DOMAIN received
      PROVE  Needed(received[k]) \ {received[k]} \subseteq ToSet(SubSeq(received, 1, k - 1)) \cup failed \cup apart
  <2> SUFFICES ASSUME NEW e \in Needed(received[k]), e # received[k], e \notin failed \cup apart
               PROVE  e \in ToSet(SubSeq(received, 1, k - 1))
    OBVIOUS
  <2>1. PICK j \in DOMAIN received : j < k /\ received[j] = e
    BY DEF InOrder, Ordered
  <2>2. j \in 1 .. k - 1
    BY <1>d, <2>1
  <2> QED
    BY <1>1, <2>1, <2>2
<1>3. /\ \A o \in made : Event(o, "create") \in ToSet(queue \o sending \o last \o received) \cup failed
      /\ \A o \in finished : Event(o, "update") \in ToSet(queue \o sending \o last \o received) \cup failed
  BY PlacedIsAll DEF RecordsKept
<1>4. IsInjective(received)
  BY DEF Separate
<1> QED
  BY <1>2, <1>3, <1>4 DEF TreeArrivesInOrder, Needed

(* The observation tree reaches the server in the order it grew, whatever
   batches are sent side by side or lost: nothing twice, nothing before what it
   hangs from, nothing recorded and forgotten (Tracer's queue and flushes). *)
THEOREM TreeArrivesInOrderHolds == TraceSpec => []TreeArrivesInOrder
  BY InitTrace, NextTrace, OrderIsTree, PTL DEF TraceSpec

-----------------------------------------------------------------------------
(***************************************************************************)
(* The composition.  A step of one part is a step of its own module and    *)
(* leaves the variables of the others alone, so that every part keeps the  *)
(* invariant that is proved of it alone.                                   *)
(***************************************************************************)
ServicesInv ==
  /\ JobsInv /\ BridgeInv /\ HeadlessInv /\ PermInv /\ DreamInv
  /\ LocalInv /\ StreamInv /\ TraceInv /\ HostedInv /\ ToolsInv

LEMMA InitServices == Init => ServicesInv
  BY InitJobs, InitBridge, InitHeadless, InitPerm, InitDream, InitLocal, InitStream, InitTrace,
     InitHosted, InitTools DEF Init, ServicesInv

LEMMA StepOfOnePart ==
  ASSUME [Next]_vars
  PROVE  /\ [JobsNext]_jobsVars /\ [BridgeNext]_bridgeVars /\ [HeadlessNext]_headlessVars
         /\ [PermNext]_permVars /\ [DreamNext]_dreamVars /\ [LocalNext]_localVars
         /\ [StreamNext]_streamVars /\ [TraceNext]_traceVars /\ [HostedNext]_hostedVars
         /\ [ToolsNext]_toolsVars
<1>1. CASE Next
  BY <1>1 DEF Next, OthersStay, Keep
<1>2. CASE UNCHANGED vars
  BY <1>2 DEF vars
<1> QED
  BY <1>1, <1>2

LEMMA NextServices == ServicesInv /\ [Next]_vars => ServicesInv'
<1> SUFFICES ASSUME ServicesInv, [Next]_vars PROVE ServicesInv'
  OBVIOUS
<1> USE StepOfOnePart DEF ServicesInv
<1>1. JobsInv' /\ BridgeInv' /\ HeadlessInv' /\ PermInv' /\ DreamInv'
  BY NextJobs, NextBridge, NextHeadless, NextPerm, NextDream
<1>2. LocalInv' /\ StreamInv' /\ TraceInv' /\ HostedInv' /\ ToolsInv'
  BY NextLocal, NextStream, NextTrace, NextHosted, NextTools
<1> QED
  BY <1>1, <1>2

LEMMA ServicesInvariant == Spec => []ServicesInv
  BY InitServices, NextServices, PTL DEF Spec

(* Every variable of every part stays in its type, so that what the run of the
   composition looks at are states of the parts: for any deliveries, messages,
   processes, replies, responses, spans, hosts and machines. *)
THEOREM ServicesTypeOKHolds == Spec => []ServicesTypeOK
<1>1. ServicesInv => ServicesTypeOK
  BY BridgeTypesSuffice, LocalTypesSuffice, StreamTypesSuffice, TraceTypesSuffice
  DEF ServicesInv, ServicesTypeOK, JobsInv, BridgeInv, HeadlessInv, PermInv, DreamInv, LocalInv,
      TraceInv, HostedInv, ToolsInv
<1> QED
  BY <1>1, ServicesInvariant, PTL

(* What a client of the bridge relies on holds next to the other parts: its
   frames are whole, and a call without a result is an overlap's (server.go). *)
THEOREM BridgeSoundHolds == Spec => []BridgeSound
<1>1. ServicesInv => BridgeSound
  BY FramesFromParts DEF ServicesInv, BridgeInv, BridgeSound
<1> QED
  BY <1>1, ServicesInvariant, PTL

(* No instance runs on unnoticed: one that a hosted run leaves behind, or that
   the tools created, was given up to a failure the code can tell of
   (hosted.go, the instance tools). *)
THEOREM InstancesSoundHolds == Spec => []InstancesSound
<1>1. ServicesInv => InstancesSound
  BY DEF ServicesInv, HostedInv, ToolsInv, Accounted, NothingForgotten, InstancesSound
<1> QED
  BY <1>1, ServicesInvariant, PTL

(* The other invariants of the parts hold in the composition as in the part's
   own module: each part's theorem, under the specification that is checked. *)
THEOREM ServicesSafe ==
  Spec => [](/\ ClonesOwned /\ ResultMatchesExit /\ RulesKept /\ RetentionHolds
             /\ MissingOnlyTaken /\ ResponseWhole /\ TreeArrivesInOrder)
<1>1. ServicesInv => ClonesOwned /\ ResultMatchesExit
  BY DEF ServicesInv, JobsInv, HeadlessInv
<1>2. ServicesInv => RulesKept
  BY AloneKeeps DEF ServicesInv
<1>3. ServicesInv => RetentionHolds
  BY DEF ServicesInv, DreamInv, CountsHold, ImportedOnce, RetentionHolds
<1>4. ServicesInv => MissingOnlyTaken /\ ResponseWhole /\ TreeArrivesInOrder
  BY FlowIsWhole, SentIsReceived, OrderIsTree DEF ServicesInv
<1> QED
  BY <1>1, <1>2, <1>3, <1>4, ServicesInvariant, PTL

(* The composition implements its parts: seen through its own variables, every
   part begins as its module says and makes only the steps of its module. *)
THEOREM PartsImplemented ==
  Spec => /\ JobsInit /\ [][JobsNext]_jobsVars
          /\ BridgeInit /\ [][BridgeNext]_bridgeVars
          /\ HeadlessInit /\ [][HeadlessNext]_headlessVars
          /\ PermInit /\ [][PermNext]_permVars
          /\ DreamInit /\ [][DreamNext]_dreamVars
          /\ LocalInit /\ [][LocalNext]_localVars
          /\ StreamInit /\ [][StreamNext]_streamVars
          /\ TraceInit /\ [][TraceNext]_traceVars
          /\ HostedInit /\ [][HostedNext]_hostedVars
          /\ ToolsInit /\ [][ToolsNext]_toolsVars
<1>1. Init => /\ JobsInit /\ BridgeInit /\ HeadlessInit /\ PermInit /\ DreamInit
              /\ LocalInit /\ StreamInit /\ TraceInit /\ HostedInit /\ ToolsInit
  BY DEF Init
<1>2. [Next]_vars =>
         /\ [JobsNext]_jobsVars /\ [BridgeNext]_bridgeVars /\ [HeadlessNext]_headlessVars
         /\ [PermNext]_permVars /\ [DreamNext]_dreamVars /\ [LocalNext]_localVars
         /\ [StreamNext]_streamVars /\ [TraceNext]_traceVars /\ [HostedNext]_hostedVars
         /\ [ToolsNext]_toolsVars
  BY StepOfOnePart
<1> QED
  BY <1>1, <1>2, PTL DEF Spec
=============================================================================
