-------------------------- MODULE TuiSessionProofs --------------------------
(* Proofs about TuiSession, for every capacity and every bound: the session
   never waits for a completion that cannot come, and the event channel never
   loses its reader. *)
EXTENDS TuiSession, SequenceTheorems, FiniteSetTheorems, WellFoundedInduction, TLAPS

(* What the arguments need to know of the types. *)
LoopTypes ==
  /\ queue \in Seq(InputKinds)
  /\ jobs \in Seq(JobStates)
  /\ waiters \in Nat

SessionInv == LoopTypes /\ NothingStranded /\ EventsPumped

LEMMA InitSession == Init => SessionInv
BY DEF Init, SessionInv, LoopTypes, NothingStranded, EventsPumped

(* What a handler that calls submitInput leaves behind: it is busy only when
   it has started a job. *)
LEMMA SubmitStarts ==
  ASSUME NEW kind \in InputKinds, NEW w \in Nat, NEW js \in Seq(JobStates),
         Submit(kind, w, js)
  PROVE  /\ jobs' \in Seq(JobStates) /\ waiters' \in Nat /\ waiters' >= w
         /\ kind = "local" => ~busy' /\ jobs' = js
         /\ kind # "local" => \E j \in DOMAIN jobs' : jobs'[j] # "over"
<1>1. CASE kind = "local"
  <2>1. jobs' = js /\ waiters' = w
    BY <1>1 DEF Submit
  <2>2. ~busy'
    BY <1>1, Zenon DEF Submit
  <2> QED BY <1>1, <2>1, <2>2
<1>2. CASE kind # "local"
  <2> DEFINE new == IF kind = "compact" THEN "compacting" ELSE "working"
  <2>1. new \in JobStates /\ new # "over"
    BY DEF JobStates
  <2>2. jobs' = Append(js, new)
    BY <1>2 DEF Submit
  <2> HIDE DEF new
  <2>3. jobs' \in Seq(JobStates) /\ Len(js) + 1 \in DOMAIN jobs' /\ jobs'[Len(js) + 1] = new
    BY <2>1, <2>2
  <2>4. waiters' \in Nat /\ waiters' >= w
    BY DEF Submit
  <2> QED BY <1>2, <2>1, <2>3, <2>4
<1> QED BY <1>1, <1>2

(* A set of positions has a least one. *)
LEMMA LeastPosition ==
  ASSUME NEW S, S \subseteq Nat, S # {}
  PROVE  \E i \in S : \A l \in S : i <= l
<1> DEFINE T == {1 .. i : i \in S}
           R == StrictSubsetOrdering(Nat)
<1>1. IsWellFoundedOn(R, FiniteSubsetsOf(Nat))
  BY FS_StrictSubsetOrderingWellFounded
<1>2. T # {} /\ T \subseteq FiniteSubsetsOf(Nat)
  <2>1. ASSUME NEW i \in S PROVE IsFiniteSet(1 .. i) /\ 1 .. i \subseteq Nat
    BY FS_Interval
  <2> QED BY <2>1 DEF FiniteSubsetsOf
<1> HIDE DEF R
<1>3. PICK t \in T : \A u \in T : ~ (<<u, t>> \in R)
  <2> HIDE DEF T
  <2> QED BY <1>1, <1>2, WFMin
<1>4. PICK i \in S : t = 1 .. i
  OBVIOUS
<1>5. ASSUME NEW l \in S PROVE i <= l
  <2>1. CASE l < i
    <3>1. 1 .. l \subseteq 1 .. i /\ 1 .. l # 1 .. i
      <4>1. i \in 1 .. i /\ ~ (i \in 1 .. l)
        BY <2>1
      <4> QED BY <2>1, <4>1
    <3>2. <<1 .. l, 1 .. i>> \in StrictSubsetOrdering(Nat)
      BY <3>1 DEF StrictSubsetOrdering
    <3> QED BY <1>3, <1>4, <3>2 DEF R
  <2> QED BY <2>1
<1> QED BY <1>5

(* The loop that empties the queue leaves nothing behind unless it starts a
   job. *)
LEMMA NextQueuedServes ==
  ASSUME NEW q \in Seq(InputKinds)
  PROVE  /\ NextQueued(q).start \in InputKinds
         /\ NextQueued(q).rest \in Seq(InputKinds)
         /\ NextQueued(q).start = "local" => NextQueued(q).rest = <<>>
<1> DEFINE jobAt == {k \in DOMAIN q : q[k] # "local"}
           k == CHOOSE k \in jobAt : \A l \in jobAt : k <= l
<1>1. CASE jobAt = {}
  BY <1>1 DEF NextQueued, InputKinds
<1>2. CASE jobAt # {}
  <2>1. \E i \in jobAt : \A l \in jobAt : i <= l
    <3>1. jobAt \subseteq Nat
      OBVIOUS
    <3> HIDE DEF jobAt
    <3> QED BY <1>2, <3>1, LeastPosition
  <2>2. k \in jobAt
    <3> HIDE DEF jobAt
    <3> QED BY <2>1
  <2>3. NextQueued(q) = [start |-> q[k], rest |-> SubSeq(q, k + 2, Len(q))]
    BY <1>2 DEF NextQueued
  <2> HIDE DEF k
  <2>4. SubSeq(q, k + 2, Len(q)) \in Seq(InputKinds)
    <3>1. k \in 1 .. Len(q)
      BY <2>2
    <3> QED BY <3>1
  <2>5. q[k] \in InputKinds /\ q[k] # "local"
    BY <2>2
  <2> QED BY <2>3, <2>4, <2>5
<1> QED BY <1>1, <1>2

(* Steps of the goroutines: a job that goes on is not over. *)
LEMMA JobGoesOn ==
  ASSUME SessionInv, NEW j \in JobIds, NEW state \in JobStates \ {"over"},
         Becomes(j, state), UNCHANGED <<queue, busy, waiters, inflight>>
  PROVE  SessionInv'
<1>1. jobs' \in Seq(JobStates) /\ j \in DOMAIN jobs' /\ jobs'[j] = state
  BY DEF Becomes, JobIds, SessionInv, LoopTypes
<1>2. NothingStranded'
  BY <1>1 DEF NothingStranded, JobIds
<1> QED BY <1>1, <1>2 DEF SessionInv, LoopTypes, EventsPumped

(* Steps that change neither the queue nor the jobs, and keep a reader. *)
LEMMA SessionKept ==
  ASSUME SessionInv, UNCHANGED <<queue, jobs>>, busy' => busy,
         waiters' \in Nat, waiters' > 0 \/ inflight' # {} \/ UNCHANGED <<waiters, inflight>>
  PROVE  SessionInv'
<1>1. NothingStranded'
  BY DEF SessionInv, NothingStranded, JobIds
<1> QED BY <1>1 DEF SessionInv, LoopTypes, EventsPumped

(* submitInput, called by a handler that has reset the busy state and whose
   queue is then rest: nothing is stranded if it starts a job, or leaves an
   empty queue, or had a job that was not over all along. *)
LEMMA SubmitKeeps ==
  ASSUME NEW kind \in InputKinds, NEW w \in Nat, NEW js \in Seq(JobStates),
         NEW rest \in Seq(InputKinds), Submit(kind, w, js), queue' = rest,
         w > 0 \/ inflight' # {},
         kind = "local" /\ rest # <<>> => \E j \in DOMAIN js : js[j] # "over"
  PROVE  SessionInv'
<1>1. LoopTypes'
  BY SubmitStarts DEF LoopTypes
<1>2. NothingStranded'
  <2>1. CASE kind = "local"
    BY <2>1, SubmitStarts DEF NothingStranded, JobIds
  <2>2. CASE kind # "local"
    BY <2>2, SubmitStarts DEF NothingStranded, JobIds
  <2> QED BY <2>1, <2>2
<1>3. EventsPumped'
  BY SubmitStarts DEF EventsPumped
<1> QED BY <1>1, <1>2, <1>3 DEF SessionInv

LEMMA JobSteps ==
  ASSUME SessionInv, NEW j \in JobIds, Job(j)
  PROVE  SessionInv'
<1>1. CASE RunEnds(j)
  BY <1>1, JobGoesOn DEF RunEnds, JobStates
<1>2. CASE RunReturns(j)
  BY <1>2, JobGoesOn DEF RunReturns, JobStates, chanVars
<1>3. CASE CompactEnds(j)
  BY <1>3, JobGoesOn DEF CompactEnds, JobStates, chanVars
<1>4. CASE HandleCompletion(j)
  <2> DEFINE js == [jobs EXCEPT ![j] = "over"]
             w == IF jobs[j] = "compacted" THEN waiters + 1 ELSE waiters
             next == NextQueued(queue)
  <2>1. js \in Seq(JobStates) /\ w \in Nat /\ w >= waiters
    BY DEF SessionInv, LoopTypes, JobStates, JobIds
  <2>2. Submit(next.start, w, js) /\ queue' = next.rest
    BY <1>4 DEF HandleCompletion, Serve
  <2>3. /\ next.start \in InputKinds /\ next.rest \in Seq(InputKinds)
        /\ next.start = "local" => next.rest = <<>>
    BY NextQueuedServes DEF SessionInv, LoopTypes
  <2>4. w > 0 \/ inflight' # {}
    BY <1>4, <2>1 DEF HandleCompletion, SessionInv, EventsPumped, LoopTypes
  <2> HIDE DEF js, w, next
  <2> QED BY <2>1, <2>2, <2>3, <2>4, SubmitKeeps
<1>5. ASSUME NEW kind \in {"tool", "diff", "batch"}, Ask(j, kind) PROVE SessionInv'
  BY <1>5, SessionKept DEF Ask, loopVars, SessionInv, LoopTypes
<1> QED BY <1>1, <1>2, <1>3, <1>4, <1>5 DEF Job

LEMMA EventSteps ==
  ASSUME SessionInv, NEW ev \in inflight, HandleEvent(ev)
  PROVE  SessionInv'
<1>1. Renewed(ev) \in Nat /\ Renewed(ev) > 0
  BY DEF Renewed, SessionInv, LoopTypes
<1>2. CASE ShowRequest(ev)
  BY <1>1, <1>2, SessionKept DEF ShowRequest, loopVars
<1>3. CASE ShowTool(ev)
  BY <1>1, <1>3, SessionKept DEF ShowTool, loopVars
<1>4. CASE ShowDone(ev)
  <2> DEFINE kind == IF queue = <<>> THEN "local" ELSE Head(queue)
             rest == SubSeq(queue, 2, Len(queue))
  <2>1. kind \in InputKinds /\ rest \in Seq(InputKinds) /\ (rest # <<>> => queue # <<>>)
    BY DEF SessionInv, LoopTypes, InputKinds
  <2>2. Submit(kind, Renewed(ev), jobs) /\ queue' = rest
    BY <1>4 DEF ShowDone
  <2>3. rest # <<>> => \E j \in DOMAIN jobs : jobs[j] # "over"
    BY <2>1 DEF SessionInv, NothingStranded, JobIds
  <2>4. jobs \in Seq(JobStates)
    BY DEF SessionInv, LoopTypes
  <2> HIDE DEF kind, rest
  <2> QED BY <1>1, <2>1, <2>2, <2>3, <2>4, SubmitKeeps
<1>5. CASE ShowError(ev)
  <2>1. waiters' \in Nat /\ waiters' > 0 /\ queue' = <<>> /\ jobs' = jobs
    BY <1>1, <1>5 DEF ShowError
  <2>2. NothingStranded'
    BY <1>5, <2>1 DEF ShowError, NothingStranded
  <2> QED BY <2>1, <2>2 DEF SessionInv, LoopTypes, EventsPumped
<1> QED BY <1>2, <1>3, <1>4, <1>5 DEF HandleEvent

LEMMA UserSteps ==
  ASSUME SessionInv, User
  PROVE  SessionInv'
<1> USE DEF loopVars, chanVars
<1>1. waiters \in Nat /\ jobs \in Seq(JobStates) /\ queue \in Seq(InputKinds)
  BY DEF SessionInv, LoopTypes
<1>2. CASE Resize
  BY <1>1, <1>2, SessionKept DEF Resize
<1>3. CASE CancelDiff
  BY <1>1, <1>3, SessionKept DEF CancelDiff
<1>4. CASE ApplyDiff
  BY <1>1, <1>4, SessionKept DEF ApplyDiff
<1>5. CASE Interrupt
  BY <1>1, <1>5, SessionKept DEF Interrupt
<1>6. CASE AnswerPrompt
  BY <1>1, <1>6, SessionKept DEF AnswerPrompt
<1>7. CASE AnswerBatch
  BY <1>1, <1>7, SessionKept DEF AnswerBatch
<1>8. CASE OpenPalette \/ PaletteKey \/ PaletteCloses
  BY <1>1, <1>8, SessionKept DEF OpenPalette, PaletteKey, PaletteCloses
<1>9. ASSUME NEW kind \in InputKinds, Enter(kind) PROVE SessionInv'
  <2>1. CASE busy
    <3>1. /\ queue' \in Seq(InputKinds)
          /\ UNCHANGED <<jobs, waiters, inflight>>
      BY <1>1, <1>9, <2>1 DEF Enter
    <3>2. \E j \in JobIds : jobs[j] # "over"
      BY <2>1 DEF SessionInv, NothingStranded
    <3>3. NothingStranded'
      BY <3>1, <3>2 DEF NothingStranded, JobIds
    <3> QED BY <3>1, <3>3 DEF SessionInv, LoopTypes, EventsPumped
  <2>2. CASE ~busy
    <3>1. Submit(kind, waiters, jobs) /\ UNCHANGED <<queue, inflight>>
      BY <1>9, <2>2 DEF Enter
    <3>2. queue # <<>> => \E j \in DOMAIN jobs : jobs[j] # "over"
      BY DEF SessionInv, NothingStranded, JobIds
    <3>3. waiters > 0 \/ inflight' # {}
      BY <3>1 DEF SessionInv, EventsPumped
    <3> QED BY <1>1, <3>1, <3>2, <3>3, SubmitKeeps
  <2> QED BY <2>1, <2>2
<1>10. ASSUME NEW kind \in {"prompt", "compact"}, PaletteRuns(kind) PROVE SessionInv'
  <2> DEFINE new == IF kind = "compact" THEN "compacting" ELSE "working"
  <2>1. new \in JobStates /\ new # "over"
    BY DEF JobStates
  <2>2. jobs' = Append(jobs, new) /\ queue' = queue /\ inflight' = inflight
    BY <1>10 DEF PaletteRuns
  <2>3. waiters' = waiters + 1 \/ waiters' = waiters
    BY <1>10 DEF PaletteRuns
  <2> HIDE DEF new
  <2>4. jobs' \in Seq(JobStates) /\ Len(jobs) + 1 \in DOMAIN jobs' /\ jobs'[Len(jobs) + 1] = new
    BY <1>1, <2>1, <2>2
  <2>5. NothingStranded'
    BY <2>1, <2>4 DEF NothingStranded, JobIds
  <2> QED BY <1>1, <2>2, <2>3, <2>4, <2>5 DEF SessionInv, LoopTypes, EventsPumped
<1> QED
  BY <1>2, <1>3, <1>4, <1>5, <1>6, <1>7, <1>8, <1>9, <1>10 DEF User

LEMMA SessionStep == SessionInv /\ [Next]_vars => SessionInv'
<1> SUFFICES ASSUME SessionInv, [Next]_vars PROVE SessionInv'
  OBVIOUS
<1> USE DEF loopVars, chanVars
<1>1. waiters \in Nat
  BY DEF SessionInv, LoopTypes
<1>2. ASSUME NEW q \in RequestIds, Permission(q) PROVE SessionInv'
  BY <1>1, <1>2, SessionKept DEF Permission, PermitReturns, ToolReports
<1>3. CASE Receive
  <2>1. waiters' \in Nat /\ inflight' # {}
    BY <1>1, <1>3 DEF Receive, CanReceive
  <2> QED BY <1>3, <2>1, SessionKept DEF Receive
<1>4. CASE UNCHANGED vars
  BY <1>1, <1>4, SessionKept DEF vars
<1> QED BY <1>2, <1>3, <1>4, JobSteps, EventSteps, UserSteps DEF Next

THEOREM SessionInvariant == Spec => []SessionInv
<1> QED BY InitSession, SessionStep, PTL DEF Spec

(* Whatever is queued or refused is served: while the session is busy or holds
   inputs, some goroutine's completion is outstanding. *)
THEOREM NothingStrandedHolds == Spec => []NothingStranded
<1>1. SessionInv => NothingStranded
  BY DEF SessionInv
<1> QED BY <1>1, SessionInvariant, PTL

(* The event channel never loses its reader. *)
THEOREM EventsPumpedHolds == Spec => []EventsPumped
<1>1. SessionInv => EventsPumped
  BY DEF SessionInv
<1> QED BY <1>1, SessionInvariant, PTL

-----------------------------------------------------------------------------
(* Prompts *)

Asked(q) == [kind |-> "ask", of |-> q]

RequestRecords ==
  [run : Nat, kind : {"tool", "diff", "batch"},
   status : {"asked", "settled", "over"}, answered : BOOLEAN]
RequestShape == requests \in Seq(RequestRecords)
EventShape == [kind : {"ask", "tool", "done", "error"}, of : Nat]

Unanswered(q) == q \in RequestIds /\ ~requests[q].answered

LEMMA RecordUpdates ==
  ASSUME NEW r \in RequestRecords
  PROVE  /\ [r EXCEPT !.answered = TRUE] \in RequestRecords
         /\ \A st \in {"settled", "over"} : /\ [r EXCEPT !.status = st] \in RequestRecords
                                           /\ [r EXCEPT !.status = st].answered = r.answered
BY DEF RequestRecords

(* One request is replaced by another record. *)
LEMMA RequestUpdated ==
  ASSUME RequestShape, NEW q \in RequestIds, NEW r \in RequestRecords,
         requests' = [requests EXCEPT ![q] = r]
  PROVE  /\ RequestShape' /\ RequestIds' = RequestIds /\ requests'[q] = r
         /\ \A p \in RequestIds \ {q} : requests'[p] = requests[p]
BY DEF RequestShape, RequestIds

(* The question of a request is once in the channel, then received once, then
   on the screen; only there it is answered, and it leaves with the answer. *)
PromptInv ==
  /\ RequestShape /\ events \in Seq(EventShape) /\ inflight \subseteq EventShape
  /\ prompt = 0 \/ batch = 0
  /\ \A q \in {prompt, batch} : q # 0 => Unanswered(q)
  /\ \A i \in DOMAIN events, q \in Nat : events[i] = Asked(q) =>
       /\ Unanswered(q) /\ q \notin {prompt, batch} /\ Asked(q) \notin inflight
       /\ \A k \in DOMAIN events : events[k] = Asked(q) => k = i
  /\ \A q \in Nat : Asked(q) \in inflight => Unanswered(q) /\ q \notin {prompt, batch}

LEMMA InitPrompt == Init => PromptInv
BY DEF Init, PromptInv, RequestShape, RequestIds

(* The screen, the channel and what was received stay. *)
LEMMA PromptSame ==
  ASSUME PromptInv, RequestShape', UNCHANGED <<prompt, batch>>,
         events' = events \/ \E ev \in EventShape : ev.kind # "ask" /\ events' = Append(events, ev),
         inflight' \subseteq inflight,
         \A q \in RequestIds : q \in RequestIds' /\ requests'[q].answered = requests[q].answered
  PROVE  PromptInv'
<1>1. \A q : Unanswered(q) => Unanswered(q)'
  BY DEF Unanswered
<1>2. CASE events' = events
  BY <1>1, <1>2 DEF PromptInv
<1>3. CASE \E ev \in EventShape : ev.kind # "ask" /\ events' = Append(events, ev)
  <2>1. PICK ev \in EventShape : ev.kind # "ask" /\ events' = Append(events, ev)
    BY <1>3
  <2>2. \A q \in Nat : ev # Asked(q)
    BY <2>1 DEF Asked
  <2>3. /\ events' \in Seq(EventShape)
        /\ \A i \in DOMAIN events', q \in Nat : events'[i] = Asked(q) => i \in DOMAIN events /\ events[i] = Asked(q)
    BY <2>1, <2>2 DEF PromptInv
  <2> QED BY <1>1, <2>3 DEF PromptInv
<1> QED BY <1>2, <1>3

LEMMA AskKeeps ==
  ASSUME PromptInv, SessionInv, NEW j \in JobIds, NEW kind \in {"tool", "diff", "batch"}, Ask(j, kind)
  PROVE  PromptInv'
<1>b. PICK m : m = Len(requests) + 1
  OBVIOUS
<1> DEFINE new == [run |-> j, kind |-> kind, status |-> "asked", answered |-> FALSE]
<1>1. /\ events' = Append(events, Asked(m)) /\ requests' = Append(requests, new)
      /\ UNCHANGED <<prompt, batch, inflight>>
  BY <1>b DEF Ask, Send, Asked, uiVars
<1>2. m \in Nat /\ m \notin RequestIds /\ ~new.answered /\ new \in RequestRecords
  BY <1>b DEF PromptInv, RequestShape, RequestRecords, RequestIds, SessionInv, LoopTypes, JobIds
<1>3. Asked(m) \in EventShape
  BY <1>2 DEF Asked, EventShape
<1> HIDE DEF new
<1>c. RequestShape'
  BY <1>1, <1>2 DEF PromptInv, RequestShape
<1>4. /\ m \in RequestIds' /\ requests'[m] = new
      /\ \A q \in RequestIds : q \in RequestIds' /\ requests'[q] = requests[q]
  BY <1>1, <1>b DEF PromptInv, RequestShape, RequestIds
<1>5. Unanswered(m)' /\ \A q : Unanswered(q) => Unanswered(q)'
  BY <1>2, <1>4 DEF Unanswered
<1>6. /\ \A q \in Nat : Asked(q) = Asked(m) => q = m
      /\ m # 0 /\ m \notin {prompt, batch} /\ Asked(m) \notin inflight
      /\ \A i \in DOMAIN events : events[i] # Asked(m)
  <2>1. m # 0
    BY <1>b DEF PromptInv, RequestShape
  <2>2. ~Unanswered(m)
    BY <1>2 DEF Unanswered
  <2>3. m \notin {prompt, batch}
    BY <2>1, <2>2 DEF PromptInv
  <2>4. Asked(m) \notin inflight
    BY <1>2, <2>2 DEF PromptInv
  <2>5. \A i \in DOMAIN events : events[i] # Asked(m)
    BY <1>2, <2>2 DEF PromptInv
  <2>6. \A q \in Nat : Asked(q) = Asked(m) => q = m
    BY DEF Asked
  <2> QED BY <2>1, <2>3, <2>4, <2>5, <2>6
<1>7. /\ events' \in Seq(EventShape) /\ DOMAIN events' = DOMAIN events \cup {Len(events) + 1}
      /\ Len(events) + 1 \notin DOMAIN events
      /\ events'[Len(events) + 1] = Asked(m)
      /\ \A i \in DOMAIN events : events'[i] = events[i]
  BY <1>1, <1>3 DEF PromptInv
<1>8. ASSUME NEW i \in DOMAIN events', NEW q \in Nat, events'[i] = Asked(q)
      PROVE  /\ Unanswered(q)' /\ q \notin {prompt, batch} /\ Asked(q) \notin inflight
             /\ \A k \in DOMAIN events' : events'[k] = Asked(q) => k = i
  <2>1. CASE i = Len(events) + 1
    BY <1>5, <1>6, <1>7, <1>8, <2>1
  <2>2. CASE i \in DOMAIN events
    <3>1. events[i] = Asked(q)
      BY <1>7, <1>8, <2>2
    <3>2. /\ Unanswered(q) /\ q \notin {prompt, batch} /\ Asked(q) \notin inflight
          /\ \A k \in DOMAIN events : events[k] = Asked(q) => k = i
      BY <2>2, <3>1 DEF PromptInv
    <3>3. Asked(q) # Asked(m)
      BY <1>6, <2>2, <3>1
    <3>4. Unanswered(q)'
      BY <1>5, <3>2
    <3>5. \A k \in DOMAIN events' : events'[k] = Asked(q) => k = i
      BY <1>7, <3>2, <3>3
    <3> QED BY <3>2, <3>4, <3>5
  <2> QED BY <1>7, <2>1, <2>2
<1> QED BY <1>1, <1>c, <1>4, <1>5, <1>7, <1>8 DEF PromptInv

LEMMA ReceiveKeeps == ASSUME PromptInv, Receive PROVE PromptInv'
<1>1. /\ events # <<>> /\ events' = Tail(events) /\ inflight' = inflight \cup {Head(events)}
      /\ UNCHANGED <<prompt, batch, requests>>
  BY DEF Receive, uiVars
<1>2. /\ events' \in Seq(EventShape) /\ Head(events) = events[1] /\ 1 \in DOMAIN events
      /\ \A i \in DOMAIN events' : i + 1 \in DOMAIN events /\ i + 1 # 1 /\ events'[i] = events[i + 1]
      /\ \A i, k \in DOMAIN events' : i + 1 = k + 1 => i = k
  BY <1>1 DEF PromptInv
<1>3. events[1] \in EventShape
  BY <1>2 DEF PromptInv
<1>4. ASSUME NEW i \in DOMAIN events', NEW q \in Nat, events'[i] = Asked(q)
      PROVE  /\ Unanswered(q) /\ q \notin {prompt, batch} /\ Asked(q) \notin inflight'
             /\ \A k \in DOMAIN events' : events'[k] = Asked(q) => k = i
  <2>1. events[i + 1] = Asked(q) /\ i + 1 \in DOMAIN events
    BY <1>2, <1>4
  <2>2. /\ Unanswered(q) /\ q \notin {prompt, batch} /\ Asked(q) \notin inflight
        /\ \A k \in DOMAIN events : events[k] = Asked(q) => k = i + 1
    BY <2>1 DEF PromptInv
  <2>3. events[1] # Asked(q)
    BY <1>2, <2>2
  <2> QED BY <1>1, <1>2, <2>2, <2>3
<1>5. \A q \in Nat : Asked(q) \in inflight' => Unanswered(q) /\ q \notin {prompt, batch}
  BY <1>1, <1>2 DEF PromptInv
<1>6. \A q : Unanswered(q) => Unanswered(q)'
  BY <1>1 DEF Unanswered, RequestIds
<1> QED BY <1>1, <1>2, <1>3, <1>4, <1>5, <1>6 DEF PromptInv, RequestShape

(* A request that is shown was in flight, and no copy of its question is left. *)
LEMMA ShowKeeps ==
  ASSUME PromptInv, NEW ev \in inflight, HandleEvent(ev), ShowRequest(ev)
  PROVE  PromptInv'
<1> DEFINE q == ev.of
<1>1. ev = Asked(q) /\ q \in Nat
  BY DEF PromptInv, ShowRequest, EventShape, Asked
<1>2. /\ inflight' = inflight \ {ev} /\ UNCHANGED <<events, requests>>
      /\ (prompt' = q /\ batch' = 0) \/ (prompt' = 0 /\ batch' = q)
  BY DEF HandleEvent, ShowRequest
<1> HIDE DEF q
<1>3. Unanswered(q) /\ \A r : Unanswered(r) => Unanswered(r)' /\ (r \in Nat => r # 0)
  BY <1>1, <1>2 DEF PromptInv, Unanswered, RequestIds, RequestShape
<1>4. /\ \A i \in DOMAIN events : events[i] # Asked(q)
      /\ Asked(q) \notin inflight'
  BY <1>1, <1>2 DEF PromptInv
<1> QED BY <1>1, <1>2, <1>3, <1>4 DEF PromptInv, RequestShape

(* A prompt is answered and leaves the screen. *)
LEMMA RespondKeeps ==
  ASSUME PromptInv, NEW q \in {prompt, batch}, q # 0, Respond(q),
         prompt' = 0, batch' = 0, UNCHANGED <<events, inflight>>
  PROVE  PromptInv'
<1>1. /\ q \in RequestIds /\ RequestShape
      /\ requests' = [requests EXCEPT ![q] = [requests[q] EXCEPT !.answered = TRUE]]
  BY DEF PromptInv, Unanswered, Respond
<1>a. requests[q] \in RequestRecords
  BY <1>1 DEF RequestShape, RequestIds
<1>2. /\ RequestShape' /\ RequestIds' = RequestIds
      /\ \A r \in RequestIds \ {q} : requests'[r] = requests[r]
  BY <1>1, <1>a, RecordUpdates, RequestUpdated
<1>3. \A r : Unanswered(r) /\ r # q => Unanswered(r)' /\ r # 0
  BY <1>2 DEF Unanswered, RequestIds, PromptInv, RequestShape
<1> QED BY <1>2, <1>3 DEF PromptInv

LEMMA PromptStep == PromptInv /\ SessionInv /\ [Next]_vars => PromptInv'
<1> SUFFICES ASSUME PromptInv, SessionInv, [Next]_vars PROVE PromptInv'
  OBVIOUS
<1>0. RequestShape
  BY DEF PromptInv
<1>a. ASSUME UNCHANGED requests
      PROVE  RequestShape' /\ \A r \in RequestIds : r \in RequestIds' /\ requests'[r].answered = requests[r].answered
  BY <1>0, <1>a DEF RequestShape, RequestIds
<1>1. ASSUME UNCHANGED <<prompt, batch, events, requests>>, inflight' \subseteq inflight PROVE PromptInv'
  BY <1>a, <1>1, PromptSame
<1>2. ASSUME NEW j \in JobIds, Job(j) PROVE PromptInv'
  <2>1. CASE RunEnds(j)
    <3>1. /\ UNCHANGED <<prompt, batch, requests, inflight>>
          /\ \/ events' = events
             \/ \E k \in {"done", "error"} : events' = Append(events, [kind |-> k, of |-> j])
      BY <2>1 DEF RunEnds, Emit, uiVars
    <3>2. j \in Nat
      BY DEF JobIds, SessionInv, LoopTypes
    <3>3. \A k \in {"done", "error"} : [kind |-> k, of |-> j] \in EventShape /\ [kind |-> k, of |-> j].kind # "ask"
      BY <3>2 DEF EventShape
    <3> QED BY <1>a, <3>1, <3>3, PromptSame
  <2>2. CASE RunReturns(j) \/ CompactEnds(j) \/ HandleCompletion(j)
    BY <1>1, <2>2 DEF RunReturns, CompactEnds, HandleCompletion, uiVars, chanVars
  <2> QED BY <1>2, <2>1, <2>2, AskKeeps DEF Job
<1>3. ASSUME NEW q \in RequestIds, Permission(q) PROVE PromptInv'
  <2>1. /\ UNCHANGED <<prompt, batch, inflight>>
        /\ \E st \in {"settled", "over"} : requests' = [requests EXCEPT ![q].status = st]
        /\ events' = events \/ events' = Append(events, [kind |-> "tool", of |-> q])
    BY <1>3 DEF Permission, PermitReturns, ToolReports, Send, uiVars, chanVars
  <2>2. RequestShape' /\ \A r \in RequestIds : r \in RequestIds' /\ requests'[r].answered = requests[r].answered
    <3>1. PICK st \in {"settled", "over"} : requests' = [requests EXCEPT ![q] = [requests[q] EXCEPT !.status = st]]
      BY <2>1
    <3>2. requests[q] \in RequestRecords
      BY <1>0 DEF RequestShape, RequestIds
    <3>3. /\ [requests[q] EXCEPT !.status = st] \in RequestRecords
          /\ [requests[q] EXCEPT !.status = st].answered = requests[q].answered
      BY <3>2, RecordUpdates
    <3> QED BY <1>0, <3>1, <3>3, RequestUpdated
  <2>3. [kind |-> "tool", of |-> q] \in EventShape
    BY <1>0 DEF RequestShape, RequestIds, EventShape
  <2> QED BY <2>1, <2>2, <2>3, PromptSame
<1>4. ASSUME NEW ev \in inflight, HandleEvent(ev) PROVE PromptInv'
  <2>1. CASE ShowTool(ev) \/ ShowDone(ev) \/ ShowError(ev)
    BY <1>1, <1>4, <2>1 DEF HandleEvent, ShowTool, ShowDone, ShowError, uiVars
  <2> QED BY <1>4, <2>1, ShowKeeps DEF HandleEvent
<1>5. CASE User
  <2> USE DEF uiVars, chanVars
  <2>1. CASE Resize \/ CancelDiff \/ Interrupt \/ OpenPalette
    BY <1>1, <2>1 DEF Resize, CancelDiff, Interrupt, OpenPalette
  <2>2. CASE PaletteKey \/ PaletteCloses
    BY <1>1, <2>2 DEF PaletteKey, PaletteCloses
  <2>3. CASE \E kind \in InputKinds : Enter(kind)
    BY <1>1, <2>3 DEF Enter
  <2>4. CASE \E kind \in {"prompt", "compact"} : PaletteRuns(kind)
    BY <1>1, <2>4 DEF PaletteRuns
  <2>5. CASE ApplyDiff
    <3>1. /\ UNCHANGED <<batch, events, inflight>>
          /\ UNCHANGED <<prompt, requests>> \/ (prompt # 0 /\ Respond(prompt) /\ prompt' = 0)
      BY <2>5 DEF ApplyDiff
    <3>2. prompt # 0 => batch = 0
      BY DEF PromptInv
    <3> QED BY <1>1, <3>1, <3>2, RespondKeeps
  <2>6. CASE AnswerPrompt
    BY <2>6, RespondKeeps DEF AnswerPrompt, AtPrompt, PromptAnswered, PromptInv
  <2>7. CASE AnswerBatch
    BY <2>7, RespondKeeps DEF AnswerBatch, AtBatch
  <2> QED BY <1>5, <2>1, <2>2, <2>3, <2>4, <2>5, <2>6, <2>7 DEF User
<1>6. CASE UNCHANGED vars
  BY <1>1, <1>6 DEF vars, uiVars, chanVars
<1> QED BY <1>2, <1>3, <1>4, <1>5, <1>6, ReceiveKeeps DEF Next

(* A prompt on the screen has never been answered, whatever is asked, drawn and
   answered in whatever order: Update's send to its channel cannot block. *)
THEOREM ShownUnansweredHolds == Spec => []ShownUnanswered
<1>1. PromptInv => ShownUnanswered
  BY DEF PromptInv, ShownUnanswered, Shown, Unanswered
<1> QED BY <1>1, InitPrompt, PromptStep, SessionInvariant, PTL DEF Spec
-----------------------------------------------------------------------------
(* Types: every reference the session keeps is to a run or a request there is *)

LoopRange == busy \in BOOLEAN /\ runCancel \in JobIds \cup {0} /\ cancelled \subseteq JobIds

LEMMA SubmitRange ==
  ASSUME NEW kind, NEW w, NEW js \in Seq(JobStates), Submit(kind, w, js),
         runCancel \in DOMAIN js \cup {0}
  PROVE  DOMAIN js \subseteq JobIds' /\ runCancel' \in JobIds' \cup {0} /\ busy' \in BOOLEAN
<1>1. busy' \in BOOLEAN
  BY Zenon DEF Submit
<1> DEFINE new == IF kind = "compact" THEN "compacting" ELSE "working"
<1>2. new \in JobStates
  BY DEF JobStates
<1>3. /\ jobs' = IF kind = "local" THEN js ELSE Append(js, new)
      /\ runCancel' = IF kind = "prompt" THEN Len(js) + 1 ELSE runCancel
  BY DEF Submit
<1> HIDE DEF new
<1>4. CASE kind = "local"
  BY <1>1, <1>3, <1>4 DEF JobIds
<1>5. CASE kind # "local"
  <2>1. JobIds' = DOMAIN js \cup {Len(js) + 1}
    BY <1>2, <1>3, <1>5 DEF JobIds
  <2> QED BY <1>1, <1>3, <2>1
<1> QED BY <1>4, <1>5

(* Jobs are never forgotten, so what names one goes on naming one. *)
LEMMA LoopRangeStep == LoopRange /\ SessionInv /\ [Next]_vars => LoopRange' /\ JobIds \subseteq JobIds'
<1> SUFFICES ASSUME LoopRange, SessionInv, [Next]_vars PROVE LoopRange' /\ JobIds \subseteq JobIds'
  OBVIOUS
<1> USE DEF loopVars, chanVars
<1>0. jobs \in Seq(JobStates) /\ queue \in Seq(InputKinds)
  BY DEF SessionInv, LoopTypes
<1>1. ASSUME UNCHANGED <<busy, runCancel, cancelled, jobs>> PROVE LoopRange' /\ JobIds \subseteq JobIds'
  BY <1>1 DEF LoopRange, JobIds
<1>2. ASSUME NEW j \in JobIds, NEW state, Becomes(j, state), UNCHANGED <<busy, runCancel>>,
             cancelled' \subseteq cancelled \cup {j}
      PROVE  LoopRange' /\ JobIds \subseteq JobIds'
  BY <1>0, <1>2 DEF LoopRange, JobIds, Becomes
<1>3. ASSUME NEW kind, NEW w, NEW js \in Seq(JobStates), Submit(kind, w, js),
             DOMAIN js = JobIds, UNCHANGED cancelled
      PROVE  LoopRange' /\ JobIds \subseteq JobIds'
  BY <1>3, SubmitRange DEF LoopRange
<1>4. ASSUME NEW j \in JobIds, Job(j) PROVE LoopRange' /\ JobIds \subseteq JobIds'
  <2>1. CASE RunEnds(j) \/ RunReturns(j) \/ CompactEnds(j)
    BY <1>2, <2>1 DEF RunEnds, RunReturns, CompactEnds
  <2>2. CASE HandleCompletion(j)
    <3> DEFINE js == [jobs EXCEPT ![j] = "over"]
    <3>1. js \in Seq(JobStates) /\ DOMAIN js = JobIds
      BY <1>0 DEF JobStates, JobIds
    <3>2. /\ UNCHANGED cancelled
          /\ \E kind, w : Submit(kind, w, js)
      BY <2>2 DEF HandleCompletion, Serve
    <3> HIDE DEF js
    <3> QED BY <1>3, <3>1, <3>2
  <2>3. CASE \E kind \in {"tool", "diff", "batch"} : Ask(j, kind)
    BY <1>1, <2>3 DEF Ask
  <2> QED BY <1>4, <2>1, <2>2, <2>3 DEF Job
<1>5. ASSUME NEW q \in RequestIds, Permission(q) PROVE LoopRange' /\ JobIds \subseteq JobIds'
  BY <1>1, <1>5 DEF Permission, PermitReturns, ToolReports
<1>6. CASE Receive
  BY <1>1, <1>6 DEF Receive
<1>7. ASSUME NEW ev \in inflight, HandleEvent(ev) PROVE LoopRange' /\ JobIds \subseteq JobIds'
  <2>1. CASE ShowRequest(ev) \/ ShowTool(ev)
    BY <1>1, <1>7, <2>1 DEF HandleEvent, ShowRequest, ShowTool
  <2>2. CASE ShowDone(ev)
    BY <1>0, <1>3, <1>7, <2>2 DEF HandleEvent, ShowDone, JobIds
  <2>3. CASE ShowError(ev)
    BY <1>7, <2>3 DEF HandleEvent, ShowError, LoopRange, JobIds
  <2> QED BY <1>7, <2>1, <2>2, <2>3 DEF HandleEvent
<1>8. CASE User
  <2>1. CASE Resize \/ CancelDiff \/ ApplyDiff \/ AnswerPrompt \/ AnswerBatch
    BY <1>1, <2>1 DEF Resize, CancelDiff, ApplyDiff, AnswerPrompt, AnswerBatch
  <2>2. CASE OpenPalette \/ PaletteKey \/ PaletteCloses
    BY <1>1, <2>2 DEF OpenPalette, PaletteKey, PaletteCloses
  <2>3. CASE Interrupt
    BY <2>3 DEF Interrupt, LoopRange, JobIds
  <2>4. ASSUME NEW kind \in InputKinds, Enter(kind) PROVE LoopRange' /\ JobIds \subseteq JobIds'
    BY <1>0, <1>1, <1>3, <2>4 DEF Enter, JobIds
  <2>5. ASSUME NEW kind \in {"prompt", "compact"}, PaletteRuns(kind)
        PROVE  LoopRange' /\ JobIds \subseteq JobIds'
    <3> DEFINE new == IF kind = "compact" THEN "compacting" ELSE "working"
    <3>1. new \in JobStates
      BY DEF JobStates
    <3>2. jobs' = Append(jobs, new) /\ cancelled' = cancelled
          /\ runCancel' \in {runCancel, Len(jobs) + 1}
      BY <2>5 DEF PaletteRuns
    <3>3. busy' \in BOOLEAN
      BY <2>5, Zenon DEF PaletteRuns, LoopRange
    <3> HIDE DEF new
    <3>4. JobIds' = JobIds \cup {Len(jobs) + 1}
      BY <1>0, <3>1, <3>2 DEF JobIds
    <3> QED BY <3>2, <3>3, <3>4 DEF LoopRange
  <2> QED BY <1>8, <2>1, <2>2, <2>3, <2>4, <2>5 DEF User
<1>9. CASE UNCHANGED vars
  BY <1>1, <1>9 DEF vars
<1> QED BY <1>4, <1>5, <1>6, <1>7, <1>8, <1>9 DEF Next

RequestRange ==
  \A q \in RequestIds : requests[q].run \in JobIds

UiRange ==
  palette \in BOOLEAN /\ picks \in Nat /\ {prompt, batch, diff} \subseteq RequestIds \cup {0}

(* Requests are never forgotten either; the run of one does not change. *)
LEMMA RequestRangeStep ==
  ASSUME RequestRange, RequestShape, SessionInv, LoopRange, [Next]_vars
  PROVE  RequestRange' /\ RequestIds \subseteq RequestIds'
<1>1. JobIds \subseteq JobIds'
  BY LoopRangeStep
<1>2. ASSUME UNCHANGED requests PROVE RequestRange' /\ RequestIds \subseteq RequestIds'
  BY <1>1, <1>2 DEF RequestRange, RequestIds
<1>3. ASSUME NEW q \in RequestIds, NEW r, requests' = [requests EXCEPT ![q] = r],
             r.run = requests[q].run
      PROVE  RequestRange' /\ RequestIds \subseteq RequestIds'
  BY <1>1, <1>3 DEF RequestRange, RequestIds, RequestShape
<1>4. ASSUME NEW q \in RequestIds, NEW st, requests' = [requests EXCEPT ![q].status = st]
      PROVE  RequestRange' /\ RequestIds \subseteq RequestIds'
  <2>1. requests[q] \in RequestRecords
    BY DEF RequestShape, RequestIds
  <2>2. [requests[q] EXCEPT !.status = st].run = requests[q].run
    BY <2>1 DEF RequestRecords
  <2> QED BY <1>3, <1>4, <2>2
<1>5. ASSUME NEW q \in RequestIds, Respond(q) PROVE RequestRange' /\ RequestIds \subseteq RequestIds'
  <2>1. requests[q] \in RequestRecords
    BY DEF RequestShape, RequestIds
  <2>2. [requests[q] EXCEPT !.answered = TRUE].run = requests[q].run
    BY <2>1 DEF RequestRecords
  <2> QED BY <1>3, <1>5, <2>2 DEF Respond
<1>6. ASSUME NEW j \in JobIds, NEW kind \in {"tool", "diff", "batch"}, Ask(j, kind)
      PROVE  RequestRange' /\ RequestIds \subseteq RequestIds'
  <2> DEFINE new == [run |-> j, kind |-> kind, status |-> "asked", answered |-> FALSE]
  <2>1. requests' = Append(requests, new)
    BY <1>6 DEF Ask
  <2>2. new.run = j
    OBVIOUS
  <2>3. new \in RequestRecords
    BY DEF RequestRecords, JobIds, SessionInv, LoopTypes
  <2> HIDE DEF new
  <2>4. /\ RequestIds' = RequestIds \cup {Len(requests) + 1}
        /\ requests'[Len(requests) + 1] = new
        /\ \A q \in RequestIds : requests'[q] = requests[q]
    BY <2>1, <2>3 DEF RequestIds, RequestShape
  <2> QED BY <1>1, <2>2, <2>4 DEF RequestRange
<1>7. CASE \E q \in RequestIds : Permission(q)
  BY <1>4, <1>7 DEF Permission, PermitReturns, ToolReports
<1>8. CASE User
  <2> USE DEF chanVars, loopVars
  <2>1. CASE Resize \/ CancelDiff \/ Interrupt \/ OpenPalette \/ PaletteKey \/ PaletteCloses
    BY <1>2, <2>1 DEF Resize, CancelDiff, Interrupt, OpenPalette, PaletteKey, PaletteCloses
  <2>2. CASE \/ \E kind \in InputKinds : Enter(kind)
             \/ \E kind \in {"prompt", "compact"} : PaletteRuns(kind)
    BY <1>2, <2>2 DEF Enter, PaletteRuns
  <2>3. ASSUME NEW q, Respond(q), q \notin RequestIds PROVE UNCHANGED requests
    BY <2>3 DEF Respond, RequestIds, RequestShape
  <2>4. CASE ApplyDiff
    BY <1>2, <1>5, <2>3, <2>4 DEF ApplyDiff
  <2>5. CASE AnswerPrompt
    BY <1>2, <1>5, <2>3, <2>5 DEF AnswerPrompt
  <2>6. CASE AnswerBatch
    BY <1>2, <1>5, <2>3, <2>6 DEF AnswerBatch
  <2> QED BY <1>8, <2>1, <2>2, <2>4, <2>5, <2>6 DEF User
<1>9. CASE UNCHANGED requests
  BY <1>2, <1>9
<1>10. CASE \E j \in JobIds : Job(j)
  BY <1>2, <1>6, <1>10 DEF Job, RunEnds, RunReturns, CompactEnds, HandleCompletion, chanVars
<1> QED
  BY <1>7, <1>8, <1>9, <1>10 DEF Next, vars, Receive, HandleEvent

ChannelRange == events \in Seq(EventRecords) /\ inflight \subseteq EventRecords

LEMMA ChannelRangeStep ==
  ASSUME ChannelRange, SessionInv, LoopRange, JobIds \subseteq JobIds', RequestIds \subseteq RequestIds',
         RequestShape, RequestShape', [Next]_vars
  PROVE  ChannelRange'
<1> USE DEF chanVars
<1>1. EventRecords \subseteq EventRecords'
  BY DEF EventRecords
<1>2. ASSUME events' = events \/ \E ev \in EventRecords' : events' = Append(events, ev),
             inflight' \subseteq inflight
      PROVE  ChannelRange'
  <2>1. events \in Seq(EventRecords')
    BY <1>1, SeqMonotonic DEF ChannelRange
  <2>2. inflight' \subseteq EventRecords'
    BY <1>1, <1>2 DEF ChannelRange
  <2> HIDE DEF EventRecords
  <2>3. events' \in Seq(EventRecords')
    BY <1>2, <2>1
  <2> QED BY <2>2, <2>3 DEF ChannelRange
<1>3. ASSUME NEW j \in JobIds, Job(j) PROVE ChannelRange'
  <2>1. CASE RunEnds(j)
    <3>1. \A k \in {"done", "error"} : [kind |-> k, of |-> j] \in EventRecords
      BY DEF EventRecords
    <3>2. /\ inflight' = inflight
          /\ events' = events \/ \E k \in {"done", "error"} : events' = Append(events, [kind |-> k, of |-> j])
      BY <2>1 DEF RunEnds, Emit
    <3> QED BY <1>1, <1>2, <3>1, <3>2
  <2>2. CASE RunReturns(j) \/ CompactEnds(j) \/ HandleCompletion(j)
    BY <1>2, <2>2 DEF RunReturns, CompactEnds, HandleCompletion
  <2>3. ASSUME NEW kind \in {"tool", "diff", "batch"}, Ask(j, kind) PROVE ChannelRange'
    <3> DEFINE m == Len(requests) + 1
               new == [run |-> j, kind |-> kind, status |-> "asked", answered |-> FALSE]
    <3>1. requests' = Append(requests, new) /\ inflight' = inflight
          /\ events' = Append(events, [kind |-> "ask", of |-> m])
      BY <2>3 DEF Ask, Send
    <3>2. m \in RequestIds'
      <4> HIDE DEF new
      <4> QED BY <3>1 DEF RequestIds, RequestShape
    <3>3. [kind |-> "ask", of |-> m] \in EventRecords'
      <4> HIDE DEF m
      <4> QED BY <3>2 DEF EventRecords
    <3> QED BY <1>2, <3>1, <3>3
  <2> QED BY <1>3, <2>1, <2>2, <2>3 DEF Job
<1>4. ASSUME NEW q \in RequestIds, Permission(q) PROVE ChannelRange'
  <2>1. [kind |-> "tool", of |-> q] \in EventRecords
    BY DEF EventRecords
  <2>2. inflight' = inflight /\ events' \in {events, Append(events, [kind |-> "tool", of |-> q])}
    BY <1>4 DEF Permission, PermitReturns, ToolReports, Send
  <2> QED BY <1>1, <1>2, <2>1, <2>2
<1>5. CASE Receive
  <2>1. events # <<>> /\ events' = Tail(events) /\ inflight' = inflight \cup {Head(events)}
    BY <1>5 DEF Receive
  <2>2. events' \in Seq(EventRecords) /\ Head(events) \in EventRecords
    BY <2>1 DEF ChannelRange
  <2>3. events' \in Seq(EventRecords')
    BY <1>1, <2>2, SeqMonotonic
  <2> QED BY <1>1, <2>1, <2>2, <2>3 DEF ChannelRange
<1>6. ASSUME NEW ev \in inflight, HandleEvent(ev) PROVE ChannelRange'
  BY <1>2, <1>6 DEF HandleEvent
<1>7. CASE User
  <2>1. UNCHANGED <<events, inflight>>
    BY <1>7 DEF User, Resize, CancelDiff, ApplyDiff, Interrupt, AnswerPrompt, AnswerBatch,
                OpenPalette, PaletteKey, PaletteCloses, Enter, PaletteRuns
  <2> QED BY <1>2, <2>1
<1>8. CASE UNCHANGED vars
  BY <1>2, <1>8 DEF vars
<1> QED BY <1>3, <1>4, <1>5, <1>6, <1>7, <1>8 DEF Next

LEMMA UiRangeStep ==
  ASSUME UiRange, ChannelRange, RequestIds \subseteq RequestIds', [Next]_vars
  PROVE  UiRange'
<1> USE DEF uiVars
<1>1. ASSUME UNCHANGED uiVars PROVE UiRange'
  BY <1>1 DEF UiRange
<1>2. ASSUME {prompt', batch', diff'} \subseteq {prompt, batch, diff, 0},
             palette' \in BOOLEAN, picks' \in Nat
      PROVE  UiRange'
  BY <1>2 DEF UiRange
<1>3. CASE \E j \in JobIds : Job(j)
  BY <1>1, <1>3 DEF Job, RunEnds, RunReturns, CompactEnds, HandleCompletion, Ask
<1>4. CASE \E q \in RequestIds : Permission(q)
  BY <1>1, <1>4 DEF Permission, PermitReturns, ToolReports
<1>5. CASE Receive
  BY <1>1, <1>5 DEF Receive
<1>6. ASSUME NEW ev \in inflight, HandleEvent(ev) PROVE UiRange'
  <2>1. CASE ShowRequest(ev)
    <3>1. ev.of \in RequestIds
      BY <2>1 DEF ShowRequest, ChannelRange, EventRecords
    <3>2. {prompt', batch', diff'} \subseteq {prompt, batch, diff, 0, ev.of} /\ UNCHANGED <<palette, picks>>
      BY <2>1 DEF ShowRequest
    <3> QED BY <3>1, <3>2 DEF UiRange
  <2>2. CASE ShowTool(ev) \/ ShowDone(ev) \/ ShowError(ev)
    BY <1>1, <2>2 DEF ShowTool, ShowDone, ShowError
  <2> QED BY <1>6, <2>1, <2>2 DEF HandleEvent
<1>7. CASE User
  <2>a. palette \in BOOLEAN /\ picks \in Nat
    BY DEF UiRange
  <2>1. CASE \/ Resize \/ Interrupt \/ \E kind \in InputKinds : Enter(kind)
    BY <1>1, <2>1 DEF Resize, Interrupt, Enter
  <2>2. CASE CancelDiff \/ ApplyDiff \/ AnswerPrompt \/ AnswerBatch
    <3>1. {prompt', batch', diff'} \subseteq {prompt, batch, diff, 0} /\ UNCHANGED <<palette, picks>>
      BY <2>2 DEF CancelDiff, ApplyDiff, AnswerPrompt, AnswerBatch, PromptAnswered
    <3> QED BY <1>2, <2>a, <3>1
  <2>3. CASE OpenPalette \/ PaletteKey
    <3>1. UNCHANGED <<prompt, batch, diff>> /\ (picks' = picks \/ picks' = picks + 1)
      BY <2>3 DEF OpenPalette, PaletteKey
    <3>2. palette' \in BOOLEAN
      BY <2>3, <2>a, Zenon DEF OpenPalette, PaletteKey
    <3>3. picks' \in Nat
      BY <2>a, <3>1
    <3> QED BY <1>2, <3>1, <3>2, <3>3
  <2>4. CASE PaletteCloses \/ \E kind \in {"prompt", "compact"} : PaletteRuns(kind)
    <3>1. UNCHANGED <<prompt, batch, diff>> /\ palette' = FALSE /\ picks > 0 /\ picks' = picks - 1
      BY <2>4 DEF PaletteCloses, PaletteRuns
    <3>2. picks' \in Nat
      BY <2>a, <3>1
    <3> QED BY <1>2, <3>1, <3>2
  <2> QED BY <1>7, <2>1, <2>2, <2>3, <2>4 DEF User
<1>8. CASE UNCHANGED vars
  BY <1>1, <1>8 DEF vars
<1> QED BY <1>3, <1>4, <1>5, <1>6, <1>7, <1>8 DEF Next

SessionTyped == LoopRange /\ RequestRange /\ UiRange /\ ChannelRange

LEMMA TypedStep == SessionTyped /\ PromptInv /\ SessionInv /\ [Next]_vars => SessionTyped'
<1> SUFFICES ASSUME SessionTyped, PromptInv, SessionInv, [Next]_vars PROVE SessionTyped'
  OBVIOUS
<1>1. LoopRange /\ RequestRange /\ UiRange /\ ChannelRange
  BY DEF SessionTyped
<1>2. RequestShape /\ RequestShape'
  BY PromptStep DEF PromptInv
<1>3. LoopRange' /\ JobIds \subseteq JobIds'
  BY <1>1, LoopRangeStep
<1>4. RequestRange' /\ RequestIds \subseteq RequestIds'
  BY <1>1, <1>2, RequestRangeStep
<1>5. ChannelRange'
  BY <1>1, <1>2, <1>3, <1>4, ChannelRangeStep
<1>6. UiRange'
  BY <1>1, <1>4, UiRangeStep
<1> QED BY <1>3, <1>4, <1>5, <1>6 DEF SessionTyped

(* The types, references among them: the run of a cancel function, of a
   request and of an event is one that was started, and the request of a prompt
   and of a diff one that was made. *)
THEOREM TypeOKHolds == Spec => []TypeOK
<1>1. Init => SessionTyped
  <2> SUFFICES ASSUME Init PROVE SessionTyped
    OBVIOUS
  <2>1. LoopRange
    BY DEF Init, LoopRange
  <2>2. RequestRange
    BY DEF Init, RequestRange, RequestIds
  <2>3. UiRange
    BY DEF Init, UiRange
  <2>4. ChannelRange
    BY DEF Init, ChannelRange
  <2> QED BY <2>1, <2>2, <2>3, <2>4 DEF SessionTyped
<1>2. ASSUME SessionTyped, PromptInv, SessionInv PROVE TypeOK
  <2>1. /\ queue \in Seq(InputKinds) /\ jobs \in Seq(JobStates) /\ waiters \in Nat
    BY <1>2 DEF SessionInv, LoopTypes
  <2>2. requests \in Seq([run : JobIds, kind : {"tool", "diff", "batch"},
                          status : {"asked", "settled", "over"}, answered : BOOLEAN])
    <3> DEFINE R == [run : JobIds, kind : {"tool", "diff", "batch"},
                     status : {"asked", "settled", "over"}, answered : BOOLEAN]
    <3>1. requests \in Seq(RequestRecords)
      BY <1>2 DEF PromptInv, RequestShape
    <3>2. \A q \in DOMAIN requests : requests[q] \in R
      <4> TAKE q \in DOMAIN requests
      <4>1. requests[q] \in RequestRecords
        BY <3>1
      <4>2. requests[q].run \in JobIds
        BY <1>2 DEF SessionTyped, RequestRange, RequestIds
      <4> QED BY <4>1, <4>2 DEF RequestRecords
    <3> HIDE DEF R
    <3>3. requests \in Seq(R)
      BY <3>1, <3>2
    <3> QED BY <3>3 DEF R
  <2>3. LoopRange /\ UiRange /\ ChannelRange
    BY <1>2 DEF SessionTyped
  <2>4. busy \in BOOLEAN /\ palette \in BOOLEAN
    BY <2>3, Zenon DEF LoopRange, UiRange
  <2>5. picks \in Nat /\ runCancel \in JobIds \cup {0} /\ cancelled \subseteq JobIds
        /\ {prompt, batch, diff} \subseteq RequestIds \cup {0}
    BY <2>3 DEF LoopRange, UiRange
  <2>6. events \in Seq(EventRecords) /\ inflight \subseteq EventRecords
    BY <2>3, Zenon DEF ChannelRange
  <2> HIDE DEF JobIds, RequestIds, EventRecords
  <2> QED BY <2>1, <2>2, <2>4, <2>5, <2>6, Zenon DEF TypeOK
<1> QED BY <1>1, <1>2, InitPrompt, PromptStep, TypedStep, SessionInvariant, PTL DEF Spec
=============================================================================
