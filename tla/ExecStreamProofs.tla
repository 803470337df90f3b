-------------------------- MODULE ExecStreamProofs --------------------------
(***************************************************************************)
(* Proofs about ExecStream for every buffer size, number of lines, retries *)
(* and exit codes.                                                         *)
(***************************************************************************)
EXTENDS ExecStream, SequenceTheorems, TLAPS

LEMMA SumMonotonic ==
  ASSUME NEW m \in Int, NEW b \in Int, NEW c \in Int, NEW i \in Int,
         b <= c, m <= b + i
  PROVE  m <= c + i
OBVIOUS

(* Appending to a bounded window and evicting its oldest element. *)
LEMMA EvictAppend ==
  ASSUME NEW S, NEW h \in Seq(S), NEW e \in S, Len(h) <= MaxReplay
  PROVE  LET w == Evict(Append(h, e)) IN
         /\ w \in Seq(S)
         /\ Len(w) = IF Len(h) + 1 > MaxReplay THEN Len(h) ELSE Len(h) + 1
         /\ \A k \in 1 .. Len(w) :
              w[k] = Append(h, e)[IF Len(h) + 1 > MaxReplay THEN k + 1 ELSE k]
<1> DEFINE a == Append(h, e)
<1>1. /\ a \in Seq(S) /\ Len(a) = Len(h) + 1 /\ a # <<>>
      /\ Len(h) \in Nat
  BY AppendProperties
<1>2. /\ Tail(a) \in Seq(S) /\ Len(Tail(a)) = Len(a) - 1
      /\ \A k \in 1 .. Len(Tail(a)) : Tail(a)[k] = a[k + 1]
  BY <1>1, HeadTailProperties
<1>3. CASE Len(h) + 1 > MaxReplay
  BY <1>1, <1>2, <1>3 DEF Evict
<1>4. CASE ~(Len(h) + 1 > MaxReplay)
  BY <1>1, <1>4, ExecStreamAssumption DEF Evict
<1> QED BY <1>3, <1>4

(* The values an output line and a final event carry are among Events'. *)
LEMMA LineTyped ==
  ASSUME emitted \in Seq(Events), Len(emitted) < MaxLines \/ emitted = <<>>,
         NEW s \in Streams
  PROVE  LineEvent(s) \in Events
<1>1. Len(emitted) \in 0 .. MaxLines
  BY ExecStreamAssumption, LenProperties, EmptySeq
<1> QED BY <1>1 DEF Events, LineEvent

LEMMA DoneTyped ==
  ASSUME NEW code \in ExitCodes \cup {1}
  PROVE  DoneEvent(code) \in Events
BY DEF Events, DoneEvent

(* What TypeOK needs to be inductive: before the command runs nothing has
   been emitted; eviction keeps the history within the buffer, and never makes
   it shorter than a handler has measured it. *)
TypeInv ==
  /\ TypeOK
  /\ Len(history) <= MaxReplay /\ avail <= Len(history)
  /\ proc = "starting" => emitted = <<>>

LEMMA TrySendTyped ==
  ASSUME TypeInv, NEW ev \in Events, TrySend(ev)
  PROVE  /\ emitted' \in Seq(Events) /\ history' \in Seq(Events)
         /\ baseIndex' \in Nat /\ done' \in BOOLEAN
         /\ notified' \in BOOLEAN
         /\ Len(history') <= MaxReplay /\ avail' <= Len(history')
         /\ UNCHANGED <<registered, srvVars, wire, cliVars>>
<1>1. emitted' \in Seq(Events)
  BY AppendProperties DEF TypeInv, TypeOK, TrySend
<1>2. /\ history' \in Seq(Events) /\ Len(history') <= MaxReplay
      /\ Len(history) <= Len(history')
  BY EvictAppend, LenProperties, ExecStreamAssumption DEF TypeInv, TypeOK, TrySend
<1>3. Len(history) \in Nat /\ Len(history') \in Nat
  BY <1>2, LenProperties DEF TypeInv, TypeOK
<1> QED BY <1>1, <1>2, <1>3 DEF TypeInv, TypeOK, TrySend, Notify, srvVars

(* A final event needs no bound on the lines; an output line does. *)
LEMMA JobStepTyped ==
  ASSUME TypeInv, JobStep
  PROVE  TypeInv'
<1> USE DEF jobVars, srvVars, cliVars
<1>1. CASE Start
  BY <1>1 DEF Start, TypeInv, TypeOK
<1>2. CASE StartFails
  <2>1. LineEvent("stderr") \in Events
    BY <1>2, LineTyped DEF StartFails, TypeInv, TypeOK, Streams
  <2> QED BY <1>2, <2>1, TrySendTyped DEF StartFails, TypeInv, TypeOK
<1>3. CASE CommandEnds
  <2>1. PICK code \in ExitCodes \cup {1} : EmitFinal(code)
    BY <1>3 DEF CommandEnds
  <2> QED BY <2>1, DoneTyped, TrySendTyped DEF EmitFinal, TypeInv, TypeOK
<1>4. CASE GraceExpires
  BY <1>4 DEF GraceExpires, TypeInv, TypeOK
<1>5. ASSUME NEW s \in Streams, PrintLine(s) PROVE TypeInv'
  <2>1. LineEvent(s) \in Events
    BY <1>5, LineTyped DEF PrintLine, TypeInv, TypeOK
  <2> QED BY <1>5, <2>1, TrySendTyped DEF PrintLine, Printing, TypeInv, TypeOK
<1>6. ASSUME NEW s \in Streams, PipeEnds(s) PROVE TypeInv'
  BY <1>6 DEF PipeEnds, Printing, TypeInv, TypeOK
<1>7. ASSUME NEW s \in Streams, PipeBreaks(s) PROVE TypeInv'
  <2>1. LineEvent("stderr") \in Events
    BY <1>7, LineTyped DEF PipeBreaks, TypeInv, TypeOK, Streams
  <2> QED BY <1>7, <2>1, TrySendTyped DEF PipeBreaks, Printing, TypeInv, TypeOK
<1> QED BY <1>1, <1>2, <1>3, <1>4, <1>5, <1>6, <1>7 DEF JobStep

LEMMA TornTyped ==
  ASSUME NEW id \in Int
  PROVE  Torn(id) \subseteq Int
<1>1. \A P : {p \in 1 .. id : P} \subseteq Int
  OBVIOUS
<1> QED BY <1>1 DEF Torn

(* Theorem: every reachable state is well typed, and the history never
   outgrows the buffer. *)
THEOREM TypeCorrect == Spec => []TypeInv
<1> USE DEF jobVars, srvVars, cliVars
<1>1. Init => TypeInv
  <2>1. /\ <<>> \in Seq(Events) /\ <<>> \in Seq(Frames)
        /\ \A s : s = <<>> => Len(s) = 0
    BY EmptySeq
  <2>2. [s \in Streams |-> "open"] \in [Streams -> {"open", "closed"}]
    OBVIOUS
  <2>3. Init => /\ emitted \in Seq(Events) /\ history \in Seq(Events)
                /\ wire \in Seq(Frames) /\ out \in Seq(Frames)
    BY <2>1 DEF Init
  <2>4. Init => pipes \in [Streams -> {"open", "closed"}]
    BY <2>2 DEF Init
  <2>5. Init => /\ done \in BOOLEAN /\ registered \in BOOLEAN /\ gapWarned \in BOOLEAN
                /\ notified \in BOOLEAN /\ torn \in BOOLEAN
    BY DEF Init
  <2>6. Init => TypeOK
    BY <2>3, <2>4, <2>5, ExecStreamAssumption DEF Init, TypeOK
  <2> QED BY <2>1, <2>6, ExecStreamAssumption DEF Init, TypeInv
<1>2. TypeInv /\ [Next]_vars => TypeInv'
  <2> SUFFICES ASSUME TypeInv, [Next]_vars PROVE TypeInv'
    OBVIOUS
  <2>1. CASE JobStep
    BY <2>1, JobStepTyped
  <2>2. CASE HandlerStep
    <3>1. CASE Snapshot
      <4>1. GapEvent \in Events
        BY ExecStreamAssumption DEF GapEvent, Events
      <4>2. \A i \in Int : Append(wire, [id |-> i, ev |-> GapEvent]) \in Seq(Frames)
        BY <4>1, AppendProperties DEF Frames, TypeInv, TypeOK
      <4> QED BY <3>1, <4>2, LenProperties DEF Snapshot, AfterGap, TypeInv, TypeOK
    <3>2. CASE Deliver
      <4>1. FrameAt(idx) \in Frames /\ FrameAt(idx).id \in Int
        <5>1. idx + 1 \in 1 .. Len(history)
          BY <3>2, LenProperties DEF Deliver, InBatch, TypeInv, TypeOK
        <5>2. history[idx + 1] \in Events
          BY <5>1, ElementOfSeq DEF TypeInv, TypeOK
        <5> QED BY <5>2 DEF FrameAt, Frames, TypeInv, TypeOK
      <4>2. Append(wire, FrameAt(idx)) \in Seq(Frames)
        BY <4>1, AppendProperties DEF TypeInv, TypeOK
      <4> QED BY <3>2, <4>1, <4>2 DEF Deliver, TypeInv, TypeOK
    <3>3. CASE CheckDone
      BY <3>3 DEF CheckDone, AfterBatch, TypeInv, TypeOK
    <3>4. CASE Wake
      BY <3>4 DEF Wake, TypeInv, TypeOK
    <3> QED BY <2>2, <3>1, <3>2, <3>3, <3>4 DEF HandlerStep
  <2>3. CASE ClientStep
    <3>1. CASE Connect
      <4>1. Resume(lastEventID) \in Int
        BY DEF Resume, TypeInv, TypeOK
      <4>2. wire' \in Seq(Frames) /\ Len(history) \in Nat
        BY <3>1, EmptySeq, LenProperties DEF Connect, TypeInv, TypeOK
      <4>3. gapWarned' \in BOOLEAN /\ notified' \in BOOLEAN
        BY <3>1 DEF Connect
      <4> QED BY <3>1, <4>1, <4>2, <4>3 DEF Connect, TypeInv, TypeOK
    <3>2. CASE ConnectRejected
      BY <3>2 DEF ConnectRejected, TypeInv, TypeOK, Returned
    <3>3. CASE ReadFrame
      <4>1. Head(wire) \in Frames /\ Tail(wire) \in Seq(Frames)
        BY <3>3, HeadTailProperties DEF ReadFrame, TypeInv, TypeOK
      <4>2. Append(out, Head(wire)) \in Seq(Frames)
        BY <4>1, AppendProperties DEF TypeInv, TypeOK
      <4>3. Head(wire).id \in Int /\ Head(wire).ev.val \in Int
        <5>1. Head(wire).id \in Int /\ Head(wire).ev \in Events
          BY <4>1 DEF Frames
        <5>2. \A e \in Events : e.val \in (0 .. MaxLines) \cup ExitCodes \cup {1}
          BY DEF Events
        <5>3. MaxLines \in Int /\ \A x \in ExitCodes : x \in Int
          BY ExecStreamAssumption
        <5> QED BY <5>1, <5>2, <5>3
      <4>4. /\ lastEventID' \in Int /\ warned' \subseteq Int /\ exitCode' \in Int
            /\ out' \in Seq(Frames)
            /\ cli' \in {cli, "succeeded"}
        BY <3>3, <4>2, <4>3 DEF ReadFrame, TypeInv, TypeOK
      <4> QED BY <3>3, <4>1, <4>4 DEF ReadFrame, TypeInv, TypeOK, Returned
    <3>4. CASE StreamEnds
      BY <3>4, ExecStreamAssumption DEF StreamEnds, Retry, TypeInv, TypeOK, Returned
    <3> QED BY <2>3, <3>1, <3>2, <3>3, <3>4 DEF ClientStep
  <2>4. CASE ConnectFails
    BY <2>4, ExecStreamAssumption DEF ConnectFails, Retry, TypeInv, TypeOK, Returned
  <2>5. CASE Break
    <3>1. wire # <<>> => Torn(Head(wire).id) \subseteq Int
      <4> SUFFICES ASSUME wire # <<>> PROVE Torn(Head(wire).id) \subseteq Int
        OBVIOUS
      <4>1. Head(wire) \in Frames
        BY HeadTailProperties DEF TypeInv, TypeOK
      <4> QED BY <4>1, TornTyped DEF Frames
    <3>2. lastEventID' \in Int /\ torn' \in BOOLEAN
      BY <2>5, <3>1 DEF Break, TypeInv, TypeOK
    <3>3. cli' \in {"connecting", "failed"} /\ retries' \in 0 .. MaxRetries
      BY <2>5, ExecStreamAssumption DEF Break, Retry, TypeInv, TypeOK
    <3>4. wire' \in Seq(Frames)
      BY <2>5, EmptySeq DEF Break
    <3> QED BY <2>5, <3>2, <3>3, <3>4 DEF Break, TypeInv, TypeOK, Returned
  <2>6. CASE Cancel
    BY <2>6, EmptySeq DEF Cancel, TypeInv, TypeOK, Returned
  <2>7. CASE UNCHANGED vars
    BY <2>7 DEF vars, TypeInv, TypeOK
  <2> QED BY <2>1, <2>2, <2>3, <2>4, <2>5, <2>6, <2>7 DEF Next
<1> QED BY <1>1, <1>2, PTL DEF Spec

(* Every variable of the stream keeps its type: the retries stay within
   MaxRetries, and the handler's measures stay numbers. *)
THEOREM TypeOKCorrect == Spec => []TypeOK
<1>1. TypeInv => TypeOK
  BY DEF TypeInv
<1> QED
  BY <1>1, TypeCorrect, PTL

-----------------------------------------------------------------------------
(* The inductive invariant behind the contract. *)

(* The job: the history is the newest part of emitted, which only its last
   event can close. *)
Window ==
  /\ ReplayWindow
  /\ done <=> proc = "exited"
  /\ \A k \in 1 .. Len(emitted) :
       /\ emitted[k].kind # "gap"
       /\ emitted[k].kind = "done" => k = Len(emitted) /\ done

(* The handler's next event lies at or after its startIndex: evictions only
   move the event found at a measured position further down the log. *)
Cursor == srv = "deliver" => 0 <= startIndex /\ startIndex <= baseIndex + idx

FrameOK(f) ==
  \/ f.ev.kind = "gap" /\ 0 <= f.id /\ f.id < baseIndex
  \/ /\ f.id \in 0 .. Len(emitted) - 1
     /\ f.ev = emitted[f.id + 1]

(* The connection: frames in flight are numbered after everything the client
   has acknowledged and before everything the handler will still send. *)
InFlight ==
  cli = "reading" =>
    /\ srv # "idle"
    /\ \A k \in 1 .. Len(wire) : FrameOK(wire[k]) /\ lastEventID < wire[k].id
    /\ \A j, k \in 1 .. Len(wire) : j < k => wire[j].id < wire[k].id
    /\ srv # "closed" =>
         \/ startIndex = -1 /\ lastEventID = -1 /\ wire = <<>> /\ srv = "snapshot"
         \/ /\ 0 <= startIndex /\ lastEventID < startIndex
            /\ \A k \in 1 .. Len(wire) : wire[k].id < startIndex

(* The client: what it was given is the log, in order, up to lastEventID. *)
Given ==
  /\ -1 <= lastEventID
  /\ \A k \in 1 .. Len(out) :
       /\ out[k].id \in 0 .. Len(emitted) - 1
       /\ out[k].ev = emitted[out[k].id + 1]
       /\ out[k].id <= lastEventID
  /\ \A j, k \in 1 .. Len(out) : j < k => out[j].id < out[k].id
  /\ \A g \in warned : g < baseIndex /\ g <= lastEventID
                        /\ \A k \in 1 .. Len(out) : out[k].id # g

StreamInv == TypeInv /\ Window /\ Cursor /\ InFlight /\ Given

LEMMA TrySendWindow ==
  ASSUME TypeInv, Window, NEW ev \in Events, ev.kind # "gap", ~done, TrySend(ev),
         proc' = "exited" <=> ev.kind = "done"
  PROVE  /\ Window'
         /\ baseIndex <= baseIndex'
         /\ Len(emitted') = Len(emitted) + 1
         /\ \A k \in 1 .. Len(emitted) : emitted'[k] = emitted[k]
<1> DEFINE full == Len(history) + 1 > MaxReplay
<1>1. /\ Len(emitted) \in Nat /\ Len(history) \in Nat /\ baseIndex \in Nat
      /\ MaxReplay \in Nat \ {0}
  BY LenProperties, ExecStreamAssumption DEF TypeInv, TypeOK
<1>2. /\ Len(emitted') = Len(emitted) + 1
      /\ \A k \in 1 .. Len(emitted) : emitted'[k] = emitted[k]
      /\ emitted'[Len(emitted) + 1] = ev
  BY AppendProperties DEF TrySend, TypeInv, TypeOK
<1>3. /\ Len(history') = IF full THEN Len(history) ELSE Len(history) + 1
      /\ \A k \in 1 .. Len(history') :
           history'[k] = Append(history, ev)[IF full THEN k + 1 ELSE k]
  BY EvictAppend DEF TrySend, TypeInv, TypeOK
<1>4. /\ \A k \in 1 .. Len(history) : Append(history, ev)[k] = history[k]
      /\ Append(history, ev)[Len(history) + 1] = ev
  BY AppendProperties DEF TypeInv, TypeOK
<1>5. baseIndex' = IF full THEN baseIndex + 1 ELSE baseIndex
  BY DEF TrySend
<1>6. baseIndex' + Len(history') = Len(emitted')
  <2>1. baseIndex + Len(history) = Len(emitted)
    BY DEF Window, ReplayWindow
  <2> HIDE DEF full
  <2> QED BY <2>1, <1>1, <1>2, <1>3, <1>5
<1>7. /\ Len(history') <= MaxReplay /\ Len(history') > 0
      /\ Len(history') \in Nat
  BY <1>1, <1>3 DEF Window, ReplayWindow
<1>8. ASSUME NEW k \in 1 .. Len(history') PROVE history'[k] = emitted'[baseIndex' + k]
  <2>1. CASE k = Len(history')
    BY <1>1, <1>2, <1>3, <1>4, <1>5, <1>6, <1>7, <2>1
  <2>2. CASE k < Len(history')
    <3>1. CASE full
      <4>1. history'[k] = history[k + 1] /\ k + 1 \in 1 .. Len(history)
        BY <1>1, <1>3, <1>4, <1>7, <2>2, <3>1
      <4>2. history[k + 1] = emitted[baseIndex + k + 1]
        BY <4>1, <1>1 DEF Window, ReplayWindow
      <4>3. baseIndex + k + 1 \in 1 .. Len(emitted)
        BY <4>1, <1>1 DEF Window, ReplayWindow
      <4>4. baseIndex' + k = baseIndex + k + 1
        BY <1>1, <1>5, <3>1
      <4> QED BY <4>1, <4>2, <4>3, <4>4, <1>2
    <3>2. CASE ~full
      <4>1. history'[k] = history[k] /\ k \in 1 .. Len(history)
        BY <1>1, <1>3, <1>4, <1>7, <2>2, <3>2
      <4>2. history[k] = emitted[baseIndex + k] /\ baseIndex + k \in 1 .. Len(emitted)
        BY <4>1, <1>1 DEF Window, ReplayWindow
      <4> QED BY <4>1, <4>2, <1>2, <1>5, <3>2
    <3> QED BY <3>1, <3>2
  <2> QED BY <1>7, <2>1, <2>2
<1>9. history'[Len(history')] = ev
  BY <1>1, <1>3, <1>4, <1>7
<1>10. done' <=> ev.kind = "done"
  BY DEF TrySend, TypeInv, TypeOK
<1>11. ReplayWindow'
  BY <1>6, <1>7, <1>8, <1>9, <1>10 DEF ReplayWindow
<1>12. \A k \in 1 .. Len(emitted') :
         /\ emitted'[k].kind # "gap"
         /\ emitted'[k].kind = "done" => k = Len(emitted') /\ done'
  <2> TAKE k \in 1 .. Len(emitted')
  <2>1. CASE k = Len(emitted) + 1
    BY <1>2, <1>10, <2>1
  <2>2. CASE k \in 1 .. Len(emitted)
    BY <1>2, <2>2 DEF Window
  <2> QED BY <1>1, <1>2, <2>1, <2>2
<1> QED BY <1>1, <1>2, <1>5, <1>10, <1>11, <1>12 DEF Window

LEMMA JobEffect ==
  ASSUME TypeInv, Window, JobStep
  PROVE  /\ Window'
         /\ baseIndex <= baseIndex'
         /\ Len(emitted) <= Len(emitted')
         /\ \A k \in 1 .. Len(emitted) : emitted'[k] = emitted[k]
         /\ UNCHANGED <<srvVars, wire, cliVars>>
<1> DEFINE Goal == /\ Window'
                   /\ baseIndex <= baseIndex'
                   /\ Len(emitted) <= Len(emitted')
                   /\ \A k \in 1 .. Len(emitted) : emitted'[k] = emitted[k]
                   /\ UNCHANGED <<srvVars, wire, cliVars>>
<1> SUFFICES Goal
  OBVIOUS
<1>1. Len(emitted) \in Nat /\ baseIndex \in Nat
  BY LenProperties DEF TypeInv, TypeOK
<1>2. ASSUME NEW ev \in Events, ev.kind # "gap", proc # "exited", TrySend(ev),
             proc' = "exited" <=> ev.kind = "done"
      PROVE  Goal
  <2>1. ~done
    BY <1>2 DEF Window, TypeInv, TypeOK
  <2> QED BY <1>1, <1>2, <2>1, TrySendWindow DEF TrySend
<1>3. ASSUME UNCHANGED <<emitted, history, baseIndex, done, srvVars, wire, cliVars>>,
             proc' = "exited" <=> proc = "exited"
      PROVE  Goal
  BY <1>1, <1>3 DEF Window, ReplayWindow
<1> HIDE DEF Goal
<1>4. CASE Start \/ GraceExpires
  <2>1. UNCHANGED <<emitted, history, baseIndex, done, srvVars, wire, cliVars>>
    BY <1>4 DEF Start, GraceExpires
  <2>2. proc' = "exited" <=> proc = "exited"
    BY <1>4 DEF Start, GraceExpires
  <2> QED BY <1>3, <2>1, <2>2
<1>5. CASE StartFails
  <2>1. LineEvent("stderr") \in Events
    BY <1>5, LineTyped DEF StartFails, TypeInv, TypeOK, Streams
  <2>2. LineEvent("stderr").kind \notin {"gap", "done"}
    BY DEF LineEvent
  <2>3. proc # "exited" /\ proc' # "exited"
    BY <1>5 DEF StartFails
  <2> QED BY <1>2, <1>5, <2>1, <2>2, <2>3 DEF StartFails
<1>6. CASE CommandEnds
  <2>1. PICK code \in ExitCodes \cup {1} : EmitFinal(code)
    BY <1>6 DEF CommandEnds
  <2>2. DoneEvent(code).kind = "done"
    BY DEF DoneEvent
  <2>3. proc # "exited" /\ proc' = "exited"
    BY <1>6 DEF CommandEnds, EmitFinal
  <2> QED BY <1>2, <2>1, <2>2, <2>3, DoneTyped DEF EmitFinal
<1>7. ASSUME NEW s \in Streams, PrintLine(s) PROVE Goal
  <2>1. LineEvent(s) \in Events
    BY <1>7, LineTyped DEF PrintLine, TypeInv, TypeOK
  <2> QED BY <1>2, <1>7, <2>1 DEF PrintLine, Printing, LineEvent, Streams
<1>8. ASSUME NEW s \in Streams, PipeEnds(s) PROVE Goal
  BY <1>3, <1>8 DEF PipeEnds
<1>9. ASSUME NEW s \in Streams, PipeBreaks(s) PROVE Goal
  <2>1. LineEvent("stderr") \in Events
    BY <1>9, LineTyped DEF PipeBreaks, TypeInv, TypeOK, Streams
  <2> QED BY <1>2, <1>9, <2>1 DEF PipeBreaks, Printing, LineEvent
<1> QED BY <1>4, <1>5, <1>6, <1>7, <1>8, <1>9 DEF JobStep

(* A job step leaves the connection and the client valid: the log only grows
   and only more of it is evicted. *)
LEMMA JobStepSafe ==
  ASSUME StreamInv, JobStep
  PROVE  Cursor' /\ InFlight' /\ Given'
<1>1. /\ baseIndex <= baseIndex' /\ Len(emitted) <= Len(emitted')
      /\ \A k \in 1 .. Len(emitted) : emitted'[k] = emitted[k]
      /\ UNCHANGED <<srvVars, wire, cliVars>>
  BY JobEffect DEF StreamInv
<1>2. /\ baseIndex \in Nat /\ baseIndex' \in Nat /\ idx \in Int /\ startIndex \in Int
      /\ Len(emitted) \in Nat /\ Len(emitted') \in Nat
      /\ warned \subseteq Int /\ lastEventID \in Int
  BY JobStepTyped, LenProperties DEF StreamInv, TypeInv, TypeOK
<1>3. /\ \A k \in 1 .. Len(wire) : wire[k].id \in Int
      /\ \A k \in 1 .. Len(out) : out[k].id \in Int
  <2>1. /\ \A k \in 1 .. Len(wire) : wire[k] \in Frames
        /\ \A k \in 1 .. Len(out) : out[k] \in Frames
    BY ElementOfSeq DEF StreamInv, TypeInv, TypeOK
  <2> QED BY <2>1 DEF Frames
<1>4. Cursor'
  <2>1. UNCHANGED <<srv, startIndex, idx>>
    BY <1>1 DEF srvVars
  <2>2. Cursor
    BY DEF StreamInv
  <2>3. ASSUME 0 <= startIndex, startIndex <= baseIndex + idx
        PROVE  startIndex <= baseIndex' + idx
    <3>1. baseIndex <= baseIndex'
      BY <1>1
    <3>2. idx \in Int /\ startIndex \in Int /\ baseIndex \in Int /\ baseIndex' \in Int
      BY <1>2
    <3> QED BY <2>3, <3>1, <3>2, SumMonotonic
  <2> QED BY <2>1, <2>2, <2>3 DEF Cursor
<1>5. ASSUME NEW f, f.id \in Int, FrameOK(f) PROVE FrameOK(f)'
  BY <1>1, <1>2, <1>5 DEF FrameOK
<1>6. InFlight'
  BY <1>1, <1>3, <1>5 DEF StreamInv, InFlight, srvVars, cliVars
<1>7. Given'
  <2>1. UNCHANGED <<lastEventID, out, warned>>
    BY <1>1 DEF cliVars
  <2>2. Given
    BY DEF StreamInv
  <2>3. ASSUME NEW k \in 1 .. Len(out)
        PROVE  /\ out[k].id \in 0 .. Len(emitted') - 1
               /\ out[k].ev = emitted'[out[k].id + 1]
    <3>1. out[k].id \in 0 .. Len(emitted) - 1 /\ out[k].ev = emitted[out[k].id + 1]
      BY <2>2 DEF Given
    <3>2. out[k].id + 1 \in 1 .. Len(emitted)
      BY <1>2, <1>3, <3>1
    <3> QED BY <1>1, <1>2, <1>3, <3>1, <3>2
  <2>4. \A g \in warned : g < baseIndex'
    BY <1>1, <1>2, <2>2 DEF Given
  <2> QED BY <2>1, <2>2, <2>3, <2>4 DEF Given
<1> QED BY <1>4, <1>6, <1>7

(* A frame the handler reads at a measured position is an entry of the log
   under its own index, at or after the handler's startIndex. *)
LEMMA FrameAtOK ==
  ASSUME StreamInv, srv = "deliver", InBatch
  PROVE  /\ FrameAt(idx).id = baseIndex + idx
         /\ FrameAt(idx).ev = emitted[baseIndex + idx + 1]
         /\ baseIndex + idx \in 0 .. Len(emitted) - 1
         /\ FrameOK(FrameAt(idx))
<1>1. /\ idx \in Int /\ avail \in Nat /\ baseIndex \in Nat /\ avail <= Len(history)
      /\ Len(history) \in Nat /\ Len(emitted) \in Nat
  BY LenProperties DEF StreamInv, TypeInv, TypeOK
<1>2. idx + 1 \in 1 .. Len(history)
  BY <1>1 DEF InBatch
<1>3. /\ history[idx + 1] = emitted[baseIndex + (idx + 1)]
      /\ baseIndex + Len(history) = Len(emitted)
  BY <1>2 DEF StreamInv, Window, ReplayWindow
<1>4. baseIndex + (idx + 1) = baseIndex + idx + 1
  BY <1>1
<1> QED BY <1>1, <1>2, <1>3, <1>4 DEF FrameAt, FrameOK

(* Appending a frame numbered after all those in flight. *)
LEMMA FrameAppended ==
  ASSUME StreamInv, cli = "reading", NEW f \in Frames, FrameOK(f), lastEventID < f.id,
         \A k \in 1 .. Len(wire) : wire[k].id < f.id,
         wire' = Append(wire, f), UNCHANGED <<emitted, baseIndex, lastEventID>>
  PROVE  /\ \A k \in 1 .. Len(wire') : FrameOK(wire[k])' /\ lastEventID' < wire'[k].id
         /\ \A j, k \in 1 .. Len(wire') : j < k => wire'[j].id < wire'[k].id
         /\ \A n \in Int : f.id < n => \A k \in 1 .. Len(wire') : wire'[k].id < n
<1>1. /\ Len(wire) \in Nat /\ Len(wire') = Len(wire) + 1
      /\ \A k \in 1 .. Len(wire) : wire'[k] = wire[k]
      /\ wire'[Len(wire) + 1] = f
  BY AppendProperties, LenProperties DEF StreamInv, TypeInv, TypeOK
<1>2. /\ \A k \in 1 .. Len(wire) : wire[k] \in Frames
      /\ f.id \in Int /\ \A g \in Frames : g.id \in Int
  BY ElementOfSeq DEF StreamInv, TypeInv, TypeOK, Frames
<1>3. \A g : FrameOK(g) => FrameOK(g)'
  BY DEF FrameOK
<1>4. /\ \A k \in 1 .. Len(wire) : FrameOK(wire[k]) /\ lastEventID < wire[k].id
      /\ \A j, k \in 1 .. Len(wire) : j < k => wire[j].id < wire[k].id
  BY DEF StreamInv, InFlight
<1>5. \A k \in 1 .. Len(wire') : k \in 1 .. Len(wire) \/ k = Len(wire) + 1
  BY <1>1
<1>6. ASSUME NEW k \in 1 .. Len(wire')
      PROVE  FrameOK(wire[k])' /\ lastEventID' < wire'[k].id
  <2>1. CASE k \in 1 .. Len(wire)
    BY <1>1, <1>3, <1>4, <2>1
  <2>2. CASE k = Len(wire) + 1
    BY <1>1, <1>3, <2>2
  <2> QED BY <1>5, <2>1, <2>2
<1>7. ASSUME NEW j \in 1 .. Len(wire'), NEW k \in 1 .. Len(wire'), j < k
      PROVE  wire'[j].id < wire'[k].id
  BY <1>1, <1>4, <1>5, <1>7
<1>8. ASSUME NEW n \in Int, f.id < n, NEW k \in 1 .. Len(wire')
      PROVE  wire'[k].id < n
  BY <1>1, <1>2, <1>5, <1>8
<1> QED BY <1>6, <1>7, <1>8

LEMMA HandlerStepSafe ==
  ASSUME StreamInv, HandlerStep
  PROVE  Cursor' /\ InFlight'
<1>1. /\ UNCHANGED <<emitted, baseIndex, lastEventID, cli>>
      /\ srv \in {"snapshot", "deliver", "wait"}
  BY DEF HandlerStep, Snapshot, Deliver, CheckDone, Wake, jobVars, cliVars
<1>2. /\ idx \in Int /\ startIndex \in Int /\ baseIndex \in Nat /\ lastEventID \in Int
      /\ \A k \in 1 .. Len(wire) : wire[k].id \in Int
      /\ Len(wire) \in Nat
  <2>1. \A k \in 1 .. Len(wire) : wire[k] \in Frames
    BY ElementOfSeq DEF StreamInv, TypeInv, TypeOK
  <2> QED BY <2>1, LenProperties DEF StreamInv, TypeInv, TypeOK, Frames
<1>3. CASE Snapshot
  <2> DEFINE from == IF startIndex < 0 THEN baseIndex ELSE startIndex
             gap  == from < baseIndex /\ ~gapWarned
             next == IF gap THEN baseIndex ELSE from
             warning == [id |-> from, ev |-> GapEvent]
  <2>1. /\ startIndex' = next /\ idx' = next - baseIndex /\ srv' = "deliver"
        /\ wire' = IF gap THEN Append(wire, warning) ELSE wire
    BY <1>3 DEF Snapshot, AfterGap
  <2>2. from \in Nat /\ next \in Nat /\ from <= next /\ (gap => from < next)
    BY <1>2
  <2>3. Cursor'
    BY <1>1, <1>2, <2>1, <2>2 DEF Cursor
  <2>4. ASSUME cli = "reading" PROVE InFlight'
    <3>1. /\ lastEventID < from
          /\ \A k \in 1 .. Len(wire) : wire[k].id < from
      <4>1. CASE startIndex = -1 /\ lastEventID = -1 /\ wire = <<>>
        BY <1>2, <4>1, EmptySeq
      <4>2. CASE /\ 0 <= startIndex /\ lastEventID < startIndex
                 /\ \A k \in 1 .. Len(wire) : wire[k].id < startIndex
        BY <1>2, <4>2
      <4> QED BY <1>1, <2>4, <4>1, <4>2 DEF StreamInv, InFlight
    <3>2. CASE ~gap
      BY <1>1, <1>2, <2>1, <2>2, <2>4, <3>1, <3>2 DEF StreamInv, InFlight, FrameOK
    <3>3. CASE gap
      <4>1. warning \in Frames /\ FrameOK(warning)
        BY <2>2, <3>3, ExecStreamAssumption DEF Frames, Events, GapEvent, FrameOK
      <4>2. wire' = Append(wire, warning) /\ warning.id = from
        BY <2>1, <3>3
      <4>3. /\ \A k \in 1 .. Len(wire') : FrameOK(wire[k])' /\ lastEventID' < wire'[k].id
            /\ \A j, k \in 1 .. Len(wire') : j < k => wire'[j].id < wire'[k].id
            /\ \A n \in Int : from < n => \A k \in 1 .. Len(wire') : wire'[k].id < n
        BY <1>1, <2>4, <3>1, <4>1, <4>2, FrameAppended
      <4>4. /\ \A k \in 1 .. Len(wire') : wire'[k].id < next
            /\ 0 <= next /\ lastEventID < next
        BY <1>2, <2>2, <3>1, <3>3, <4>3
      <4> QED BY <1>1, <2>1, <4>3, <4>4 DEF InFlight
    <3> QED BY <3>2, <3>3
  <2>5. cli # "reading" => InFlight'
    BY <1>1 DEF InFlight
  <2> QED BY <2>3, <2>4, <2>5
<1>4. CASE Deliver
  <2>1. /\ srv = "deliver" /\ InBatch /\ wire' = Append(wire, FrameAt(idx))
        /\ \/ srv' = "closed"
           \/ srv' = srv /\ startIndex' = FrameAt(idx).id + 1 /\ idx' = idx + 1
    BY <1>4 DEF Deliver
  <2>2. /\ FrameAt(idx).id = baseIndex + idx /\ FrameOK(FrameAt(idx))
        /\ 0 <= startIndex /\ startIndex <= baseIndex + idx
    BY <2>1, FrameAtOK DEF StreamInv, Cursor
  <2>3. Cursor'
    BY <1>1, <1>2, <2>1, <2>2 DEF Cursor
  <2>4. ASSUME cli = "reading" PROVE InFlight'
    <3>1. /\ lastEventID < startIndex
          /\ \A k \in 1 .. Len(wire) : wire[k].id < startIndex
      BY <1>2, <2>1, <2>2, <2>4 DEF StreamInv, InFlight
    <3>2. /\ lastEventID < FrameAt(idx).id
          /\ \A k \in 1 .. Len(wire) : wire[k].id < FrameAt(idx).id
      BY <1>2, <2>2, <3>1
    <3>3. FrameAt(idx) \in Frames
      <4>1. idx + 1 \in 1 .. Len(history)
        BY <2>1, LenProperties DEF InBatch, StreamInv, TypeInv, TypeOK
      <4>2. history[idx + 1] \in Events
        BY <4>1, ElementOfSeq DEF StreamInv, TypeInv, TypeOK
      <4> QED BY <1>2, <4>2 DEF FrameAt, Frames
    <3>4. /\ \A k \in 1 .. Len(wire') : FrameOK(wire[k])' /\ lastEventID' < wire'[k].id
          /\ \A j, k \in 1 .. Len(wire') : j < k => wire'[j].id < wire'[k].id
          /\ \A n \in Int : FrameAt(idx).id < n => \A k \in 1 .. Len(wire') : wire'[k].id < n
      BY <1>1, <2>1, <2>2, <2>4, <3>2, <3>3, FrameAppended
    <3>5. CASE srv' = "closed"
      BY <3>4, <3>5 DEF InFlight
    <3>6. CASE srv' = srv /\ startIndex' = FrameAt(idx).id + 1 /\ idx' = idx + 1
      <4>1. /\ 0 <= startIndex' /\ lastEventID' < startIndex'
            /\ \A k \in 1 .. Len(wire') : wire'[k].id < startIndex'
        BY <1>1, <1>2, <2>2, <3>2, <3>4, <3>6
      <4> QED BY <2>1, <3>4, <3>6, <4>1 DEF InFlight
    <3> QED BY <2>1, <3>5, <3>6
  <2>5. cli # "reading" => InFlight'
    BY <1>1 DEF InFlight
  <2> QED BY <2>3, <2>4, <2>5
<1>5. CASE CheckDone \/ Wake
  <2>1. /\ UNCHANGED <<startIndex, wire>> /\ srv \in {"deliver", "wait"}
        /\ srv' \in {"closed", "wait", "snapshot"}
    BY <1>5 DEF CheckDone, AfterBatch, Wake
  <2> QED BY <1>1, <2>1 DEF StreamInv, Cursor, InFlight, FrameOK
<1> QED BY <1>3, <1>4, <1>5 DEF HandlerStep

(* The first frame in flight: where the next read takes the client. *)
LEMMA HeadOK ==
  ASSUME StreamInv, cli = "reading", wire # <<>>
  PROVE  /\ Head(wire) \in Frames /\ Head(wire).id \in Int
         /\ FrameOK(Head(wire)) /\ lastEventID < Head(wire).id
         /\ srv # "closed" => 0 <= startIndex /\ Head(wire).id < startIndex
         /\ Len(Tail(wire)) \in Nat
         /\ \A k \in 1 .. Len(Tail(wire)) :
              /\ k + 1 \in 1 .. Len(wire) /\ Tail(wire)[k] = wire[k + 1]
              /\ FrameOK(Tail(wire)[k]) /\ Head(wire).id < Tail(wire)[k].id
<1>1. /\ Head(wire) \in Frames /\ Head(wire) = wire[1] /\ Len(wire) \in Nat
      /\ Len(wire) # 0
      /\ Len(Tail(wire)) = Len(wire) - 1
      /\ \A k \in 1 .. Len(Tail(wire)) : Tail(wire)[k] = wire[k + 1]
  BY HeadTailProperties, LenProperties, EmptySeq DEF StreamInv, TypeInv, TypeOK
<1>2. /\ \A k \in 1 .. Len(wire) : FrameOK(wire[k]) /\ lastEventID < wire[k].id
      /\ \A j, k \in 1 .. Len(wire) : j < k => wire[j].id < wire[k].id
      /\ srv # "closed" => 0 <= startIndex /\ \A k \in 1 .. Len(wire) : wire[k].id < startIndex
  BY DEF StreamInv, InFlight
<1>3. 1 \in 1 .. Len(wire) /\ \A k \in 1 .. Len(Tail(wire)) : k + 1 \in 1 .. Len(wire) /\ 1 < k + 1
  BY <1>1
<1>4. Head(wire).id \in Int
  BY <1>1 DEF Frames
<1> QED BY <1>1, <1>2, <1>3, <1>4

LEMMA ReadFrameSafe ==
  ASSUME StreamInv, ReadFrame
  PROVE  InFlight' /\ Given'
<1> DEFINE f == Head(wire)
<1>1. /\ cli = "reading" /\ wire # <<>> /\ wire' = Tail(wire) /\ lastEventID' = f.id
      /\ UNCHANGED <<emitted, baseIndex, srv, startIndex>>
  BY DEF ReadFrame, jobVars, srvVars
<1>2. /\ lastEventID \in Int /\ startIndex \in Int /\ baseIndex \in Nat /\ Len(emitted) \in Nat
      /\ warned \subseteq Int /\ out \in Seq(Frames)
      /\ \A k \in 1 .. Len(out) : out[k].id \in Int
  <2>1. \A k \in 1 .. Len(out) : out[k] \in Frames
    BY ElementOfSeq DEF StreamInv, TypeInv, TypeOK
  <2> QED BY <2>1, LenProperties DEF StreamInv, TypeInv, TypeOK, Frames
<1>3. Given
  BY DEF StreamInv
<1>4. InFlight'
  <2>1. \A g : FrameOK(g) => FrameOK(g)'
    BY <1>1 DEF FrameOK
  <2>2. /\ \A k \in 1 .. Len(wire') : FrameOK(wire[k])' /\ lastEventID' < wire'[k].id
        /\ srv' # "idle"
    BY <1>1, <2>1, HeadOK DEF StreamInv, InFlight
  <2>3. \A j, k \in 1 .. Len(wire') : j < k => wire'[j].id < wire'[k].id
    <3> TAKE j, k \in 1 .. Len(wire')
    <3>1. /\ j + 1 \in 1 .. Len(wire) /\ k + 1 \in 1 .. Len(wire)
          /\ wire'[j] = wire[j + 1] /\ wire'[k] = wire[k + 1]
          /\ j < k => j + 1 < k + 1
      BY <1>1, HeadOK
    <3> QED BY <1>1, <3>1 DEF StreamInv, InFlight
  <2>4. srv' # "closed" =>
          /\ 0 <= startIndex' /\ lastEventID' < startIndex'
          /\ \A k \in 1 .. Len(wire') : wire'[k].id < startIndex'
    BY <1>1, HeadOK DEF StreamInv, InFlight
  <2> QED BY <2>2, <2>3, <2>4 DEF InFlight
<1>5. /\ -1 <= lastEventID' /\ lastEventID < f.id /\ f.id \in Int /\ f \in Frames
      /\ FrameOK(f)
  BY <1>1, <1>2, <1>3, HeadOK DEF Given
<1>6. CASE f.ev.kind = "gap"
  <2>1. warned' = warned \cup {f.id} /\ out' = out
    BY <1>6 DEF ReadFrame
  <2>2. f.id < baseIndex
    <3>1. \A k \in 1 .. Len(emitted) : emitted[k].kind # "gap"
      BY DEF StreamInv, Window
    <3>2. ~(f.id \in 0 .. Len(emitted) - 1 /\ f.ev = emitted[f.id + 1])
      BY <1>2, <1>6, <3>1
    <3> QED BY <1>5, <3>2 DEF FrameOK
  <2>3. \A k \in 1 .. Len(out) : out[k].id # f.id /\ out[k].id <= f.id
    <3>1. \A k \in 1 .. Len(out) : out[k].id <= lastEventID
      BY <1>3 DEF Given
    <3> QED BY <1>2, <1>5, <3>1
  <2>4. \A g \in warned : /\ g < baseIndex /\ g <= f.id
                         /\ \A k \in 1 .. Len(out) : out[k].id # g
    <3>1. \A g \in warned : /\ g < baseIndex /\ g <= lastEventID
                           /\ \A k \in 1 .. Len(out) : out[k].id # g
      BY <1>3 DEF Given
    <3>2. \A g \in warned : g \in Int /\ g <= f.id
      BY <1>2, <1>5, <3>1
    <3> QED BY <3>1, <3>2
  <2>5. f.id <= f.id
    BY <1>5
  <2>6. \A g \in warned' : /\ g < baseIndex /\ g <= f.id
                          /\ \A k \in 1 .. Len(out) : out[k].id # g
    BY <2>1, <2>2, <2>3, <2>4, <2>5
  <2>7. /\ \A k \in 1 .. Len(out) :
            /\ out[k].id \in 0 .. Len(emitted) - 1
            /\ out[k].ev = emitted[out[k].id + 1]
        /\ \A j, k \in 1 .. Len(out) : j < k => out[j].id < out[k].id
    BY <1>3 DEF Given
  <2> QED BY <1>1, <1>4, <1>5, <2>1, <2>3, <2>6, <2>7 DEF Given
<1>7. CASE f.ev.kind # "gap"
  <2>1. /\ warned' = warned /\ out' = Append(out, f)
        /\ f.id \in 0 .. Len(emitted) - 1 /\ f.ev = emitted[f.id + 1]
    BY <1>5, <1>7 DEF ReadFrame, FrameOK
  <2>2. /\ Len(out') = Len(out) + 1 /\ Len(out) \in Nat
        /\ \A k \in 1 .. Len(out) : out'[k] = out[k]
        /\ out'[Len(out) + 1] = f
    BY <1>2, <1>5, <2>1, AppendProperties, LenProperties
  <2>3. \A k \in 1 .. Len(out') : k \in 1 .. Len(out) \/ k = Len(out) + 1
    BY <2>2
  <2>4. \A k \in 1 .. Len(out) : out[k].id < f.id /\ out[k].id <= f.id
    BY <1>2, <1>3, <1>5 DEF Given
  <2>5. ASSUME NEW k \in 1 .. Len(out')
        PROVE  /\ out'[k].id \in 0 .. Len(emitted) - 1
               /\ out'[k].ev = emitted[out'[k].id + 1]
               /\ out'[k].id <= f.id
    BY <1>3, <1>5, <2>1, <2>2, <2>3, <2>4 DEF Given
  <2>6. ASSUME NEW j \in 1 .. Len(out'), NEW k \in 1 .. Len(out'), j < k
        PROVE  out'[j].id < out'[k].id
    <3>1. j \in 1 .. Len(out)
      BY <2>2, <2>3, <2>6
    <3>2. CASE k \in 1 .. Len(out)
      BY <1>3, <2>2, <2>6, <3>1, <3>2 DEF Given
    <3>3. CASE k = Len(out) + 1
      BY <2>2, <2>4, <3>1, <3>3
    <3> QED BY <2>3, <3>2, <3>3
  <2>7. \A g \in warned : /\ g < baseIndex /\ g < f.id /\ g <= f.id
                         /\ \A k \in 1 .. Len(out') : out'[k].id # g
    <3> TAKE g \in warned
    <3>1. g < baseIndex /\ g <= lastEventID /\ \A k \in 1 .. Len(out) : out[k].id # g
      BY <1>3 DEF Given
    <3>2. g \in Int /\ g < f.id /\ g <= f.id /\ g # f.id
      BY <1>2, <1>5, <3>1
    <3> QED BY <2>2, <2>3, <3>1, <3>2
  <2> QED BY <1>1, <1>4, <1>5, <2>1, <2>5, <2>6, <2>7 DEF Given
<1> QED BY <1>4, <1>6, <1>7

LEMMA InitSafe == Init => Window /\ Cursor /\ InFlight /\ Given
<1> SUFFICES ASSUME Init PROVE Window /\ Cursor /\ InFlight /\ Given
  OBVIOUS
<1>1. Len(emitted) = 0 /\ Len(history) = 0 /\ Len(out) = 0
  BY EmptySeq DEF Init
<1>2. Window
  BY <1>1, ExecStreamAssumption DEF Init, Window, ReplayWindow
<1>3. Cursor /\ InFlight
  BY DEF Init, Cursor, InFlight
<1>4. Given
  BY <1>1 DEF Init, Given
<1> QED BY <1>2, <1>3, <1>4

(* A break that cuts no id line leaves lastEventID where it was or on the
   frame that was cut. *)
LEMMA BreakKeepsOrder ==
  ASSUME StreamInv, "inId" \notin TornCuts \/ ~torn', Break
  PROVE  lastEventID' \in Int /\ lastEventID <= lastEventID'
<1>1. CASE lastEventID' = lastEventID
  BY <1>1 DEF StreamInv, TypeInv, TypeOK
<1>2. CASE wire # <<>> /\ lastEventID' \in Torn(Head(wire).id) /\ torn'
  <2>1. lastEventID' = Head(wire).id
    BY <1>2 DEF Torn
  <2>2. lastEventID \in Int /\ Head(wire).id \in Int /\ lastEventID < Head(wire).id
    BY <1>2, HeadOK DEF Break, StreamInv, TypeInv, TypeOK
  <2> QED BY <2>1, <2>2
<1> QED BY <1>1, <1>2 DEF Break

(* What was torn stays torn, and jobs and handlers tear nothing. *)
LEMMA TornStays ==
  ASSUME TypeInv, [Next]_vars, torn
  PROVE  torn'
<1>1. JobStep => UNCHANGED torn
  BY DEF JobStep, Start, StartFails, CommandEnds, EmitFinal, GraceExpires, PrintLine,
         PipeEnds, PipeBreaks, TrySend, cliVars
<1>2. HandlerStep => UNCHANGED torn
  BY DEF HandlerStep, Snapshot, Deliver, CheckDone, Wake, cliVars
<1>3. ClientStep \/ ConnectFails \/ Cancel => UNCHANGED torn
  BY DEF ClientStep, Connect, ConnectRejected, ReadFrame, StreamEnds, ConnectFails, Cancel
<1>4. Break => torn'
  BY DEF Break
<1> QED BY <1>1, <1>2, <1>3, <1>4 DEF Next, vars, cliVars

(* Every step keeps StreamInv, unless it tears an id line. *)
LEMMA StreamStep ==
  ASSUME StreamInv, TypeInv', [Next]_vars, "inId" \notin TornCuts \/ ~torn'
  PROVE  StreamInv'
<1> SUFFICES Window' /\ Cursor' /\ InFlight' /\ Given'
  BY DEF StreamInv
<1>1. CASE JobStep
  BY <1>1, JobEffect, JobStepSafe DEF StreamInv
<1>2. ASSUME UNCHANGED jobVars PROVE Window'
  BY <1>2 DEF StreamInv, Window, ReplayWindow, jobVars
<1>3. ASSUME UNCHANGED jobVars, UNCHANGED <<lastEventID, out, warned>> PROVE Given'
  BY <1>3 DEF StreamInv, Given, jobVars
<1>4. ASSUME UNCHANGED jobVars, UNCHANGED srvVars PROVE Cursor'
  BY <1>4 DEF StreamInv, Cursor, jobVars, srvVars
<1>5. CASE HandlerStep
  <2>1. UNCHANGED jobVars /\ UNCHANGED cliVars
    BY <1>5 DEF HandlerStep, Snapshot, Deliver, CheckDone, Wake
  <2> QED BY <1>2, <1>3, <1>5, <2>1, HandlerStepSafe DEF cliVars
<1>6. CASE Connect
  <2>1. /\ UNCHANGED jobVars /\ UNCHANGED <<lastEventID, out, warned>>
        /\ srv' = "snapshot" /\ wire' = <<>> /\ Len(wire') = 0
        /\ startIndex' = Resume(lastEventID)
    BY <1>6, EmptySeq DEF Connect
  <2>2. lastEventID \in Int /\ -1 <= lastEventID
    BY DEF StreamInv, TypeInv, TypeOK, Given
  <2>3. \/ startIndex' = -1 /\ lastEventID' = -1
        \/ 0 <= startIndex' /\ lastEventID' < startIndex'
    BY <2>1, <2>2 DEF Resume
  <2>4. Cursor' /\ InFlight'
    BY <2>1, <2>3 DEF Cursor, InFlight
  <2> QED BY <1>2, <1>3, <2>1, <2>4
<1>7. CASE ConnectRejected \/ StreamEnds \/ ConnectFails
  <2>1. /\ UNCHANGED jobVars /\ UNCHANGED srvVars /\ UNCHANGED <<lastEventID, out, warned>>
        /\ cli' # "reading"
    BY <1>7 DEF ConnectRejected, StreamEnds, ConnectFails, Retry
  <2> QED BY <1>2, <1>3, <1>4, <2>1 DEF InFlight
<1>8. CASE ReadFrame
  <2>1. UNCHANGED jobVars /\ UNCHANGED srvVars
    BY <1>8 DEF ReadFrame
  <2> QED BY <1>2, <1>4, <1>8, <2>1, ReadFrameSafe
<1>9. CASE Break
  <2>1. /\ UNCHANGED jobVars /\ UNCHANGED <<out, warned>>
        /\ cli' # "reading" /\ srv' = "idle"
    BY <1>9 DEF Break, Retry
  <2>2. /\ lastEventID' \in Int /\ lastEventID \in Int /\ lastEventID <= lastEventID'
        /\ warned \subseteq Int
        /\ \A k \in 1 .. Len(out) : out[k].id \in Int
    <3>1. \A k \in 1 .. Len(out) : out[k] \in Frames
      BY ElementOfSeq DEF StreamInv, TypeInv, TypeOK
    <3> QED BY <1>9, <3>1, BreakKeepsOrder DEF StreamInv, TypeInv, TypeOK, Frames
  <2>3. Given
    BY DEF StreamInv
  <2>4. /\ -1 <= lastEventID'
        /\ \A k \in 1 .. Len(out) : out[k].id <= lastEventID'
        /\ \A g \in warned : g <= lastEventID'
    <3>1. /\ -1 <= lastEventID
          /\ \A k \in 1 .. Len(out) : out[k].id <= lastEventID
          /\ \A g \in warned : g <= lastEventID
      BY <2>3 DEF Given
    <3> QED BY <2>2, <3>1
  <2>5. Given'
    BY <2>1, <2>3, <2>4 DEF Given, jobVars
  <2> QED BY <1>2, <2>1, <2>5 DEF Cursor, InFlight
<1>10. CASE Cancel
  <2>1. /\ UNCHANGED jobVars /\ UNCHANGED <<lastEventID, out, warned>>
        /\ cli' # "reading" /\ srv' = "idle"
    BY <1>10 DEF Cancel
  <2> QED BY <1>2, <1>3, <2>1 DEF Cursor, InFlight
<1>11. CASE UNCHANGED vars
  <2>1. /\ UNCHANGED jobVars /\ UNCHANGED srvVars /\ UNCHANGED cliVars
        /\ UNCHANGED <<wire, lastEventID, out, warned>>
    BY <1>11 DEF vars, cliVars
  <2> QED BY <1>2, <1>3, <1>4, <2>1
      DEF StreamInv, InFlight, FrameOK, jobVars, srvVars, cliVars
<1> QED BY <1>1, <1>5, <1>6, <1>7, <1>8, <1>9, <1>10, <1>11 DEF Next, ClientStep

(* Theorem: without torn id lines, StreamInv holds in every reachable state:
   the window, the handler's cursor, the frames in flight and what the client
   was given fit together, whatever is evicted, broken and retried. *)
THEOREM StreamSafe ==
  ASSUME "inId" \notin TornCuts
  PROVE  Spec => []StreamInv
<1>1. Init /\ TypeInv => StreamInv
  BY InitSafe DEF StreamInv
<1>2. StreamInv /\ TypeInv' /\ [Next]_vars => StreamInv'
  BY StreamStep
<1> QED BY <1>1, <1>2, TypeCorrect, PTL DEF Spec

(* Theorem: StreamInv holds until a break tears a frame, whatever it may cut. *)
THEOREM UntornSafe == Spec => [](~torn => StreamInv)
<1>1. Init /\ TypeInv => StreamInv
  BY InitSafe DEF StreamInv
<1>2. TypeInv /\ [Next]_vars /\ torn => torn'
  BY TornStays
<1>3. (~torn => StreamInv) /\ TypeInv /\ TypeInv' /\ [Next]_vars => (~torn => StreamInv)'
  BY <1>2, StreamStep
<1> QED BY <1>1, <1>3, TypeCorrect, PTL DEF Spec

(* Theorem: whatever is cut, the history is always the newest part of
   everything emitted, under the right indices. *)
THEOREM ReplayWindowCorrect == Spec => []ReplayWindow
<1>1. Init => Window
  BY InitSafe
<1>2. TypeInv /\ Window /\ [Next]_vars => Window'
  <2> SUFFICES ASSUME TypeInv, Window, [Next]_vars PROVE Window'
    OBVIOUS
  <2>1. CASE JobStep
    BY <2>1, JobEffect
  <2>2. CASE UNCHANGED jobVars
    BY <2>2 DEF Window, ReplayWindow, jobVars
  <2>3. HandlerStep \/ ClientStep \/ ConnectFails \/ Break \/ Cancel => UNCHANGED jobVars
    BY DEF HandlerStep, Snapshot, Deliver, CheckDone, Wake, ClientStep, Connect,
           ConnectRejected, ReadFrame, StreamEnds, ConnectFails, Break, Cancel
  <2> QED BY <2>1, <2>2, <2>3 DEF Next, vars
<1>3. Window => ReplayWindow
  BY DEF Window
<1> QED BY <1>1, <1>2, <1>3, TypeCorrect, PTL DEF Spec

(* Theorem: a gap warning is never spurious, unless an id line is torn. *)
THEOREM NoSpuriousGapCorrect ==
  ASSUME "inId" \notin TornCuts
  PROVE  Spec => []NoSpuriousGap
<1>1. StreamInv => NoSpuriousGap
  <2> SUFFICES ASSUME StreamInv PROVE NoSpuriousGap
    OBVIOUS
  <2>1. DOMAIN out = 1 .. Len(out)
    BY LenProperties DEF StreamInv, TypeInv, TypeOK
  <2> QED BY <2>1 DEF StreamInv, Given, NoSpuriousGap
<1> QED BY <1>1, StreamSafe, PTL

-----------------------------------------------------------------------------
(* The stream implements the replay-log contract. *)

LEMMA JobStepRefines ==
  ASSUME TypeInv, Window, JobStep
  PROVE  Log!Next \/ UNCHANGED Log!rlVars
<1> DEFINE Goal == Log!Next \/ UNCHANGED Log!rlVars
<1> SUFFICES Goal
  OBVIOUS
<1>1. ASSUME NEW ev \in Events, proc # "exited", TrySend(ev) PROVE Goal
  <2>1. /\ emitted' = Append(emitted, ev)
        /\ UNCHANGED <<out, exitCode, cli>>
    BY <1>1 DEF TrySend, cliVars
  <2>2. emitted = <<>> \/ emitted[Len(emitted)].kind # "done"
    <3>1. ~done /\ Len(emitted) \in Nat
      BY <1>1, LenProperties DEF Window, TypeInv, TypeOK
    <3>2. CASE Len(emitted) = 0
      BY <3>2, EmptySeq DEF TypeInv, TypeOK
    <3>3. CASE Len(emitted) \in 1 .. Len(emitted)
      BY <3>1, <3>3 DEF Window
    <3> QED BY <3>1, <3>2, <3>3
  <2>3. Log!Grow(ev)
    BY <2>1, <2>2 DEF Log!Grow, Log!Closes, Result
  <2> QED BY <2>3 DEF Log!Next
<1>2. ASSUME UNCHANGED <<emitted, cliVars>> PROVE Goal
  BY <1>2 DEF Log!rlVars, Result, cliVars
<1> HIDE DEF Goal
<1>3. CASE Start \/ GraceExpires
  BY <1>2, <1>3 DEF Start, GraceExpires
<1>4. CASE StartFails
  <2>1. LineEvent("stderr") \in Events
    BY <1>4, LineTyped DEF StartFails, TypeInv, TypeOK, Streams
  <2> QED BY <1>1, <1>4, <2>1 DEF StartFails
<1>5. CASE CommandEnds
  <2>1. PICK code \in ExitCodes \cup {1} : EmitFinal(code)
    BY <1>5 DEF CommandEnds
  <2>2. proc # "exited"
    BY <1>5 DEF CommandEnds
  <2> QED BY <1>1, <2>1, <2>2, DoneTyped DEF EmitFinal
<1>6. ASSUME NEW s \in Streams, PrintLine(s) PROVE Goal
  <2>1. LineEvent(s) \in Events
    BY <1>6, LineTyped DEF PrintLine, TypeInv, TypeOK
  <2> QED BY <1>1, <1>6, <2>1 DEF PrintLine, Printing
<1>7. ASSUME NEW s \in Streams, PipeEnds(s) PROVE Goal
  BY <1>2, <1>7 DEF PipeEnds
<1>8. ASSUME NEW s \in Streams, PipeBreaks(s) PROVE Goal
  <2>1. LineEvent("stderr") \in Events
    BY <1>8, LineTyped DEF PipeBreaks, TypeInv, TypeOK, Streams
  <2> QED BY <1>1, <1>8, <2>1 DEF PipeBreaks, Printing
<1> QED BY <1>3, <1>4, <1>5, <1>6, <1>7, <1>8 DEF JobStep

LEMMA ReadFrameRefines ==
  ASSUME StreamInv, ReadFrame
  PROVE  Log!Next \/ UNCHANGED Log!rlVars
<1> DEFINE f == Head(wire)
<1>1. /\ cli = "reading" /\ wire # <<>> /\ emitted' = emitted
      /\ Result = "pending"
  BY DEF ReadFrame, jobVars, Result
<1>2. FrameOK(f) /\ lastEventID < f.id /\ f.id \in Int /\ lastEventID \in Int
  BY <1>1, HeadOK DEF StreamInv, TypeInv, TypeOK
<1>3. CASE f.ev.kind = "gap"
  <2>1. UNCHANGED <<out, cli, exitCode>>
    BY <1>3 DEF ReadFrame
  <2> QED BY <1>1, <2>1 DEF Log!rlVars, Result
<1>4. CASE f.ev.kind # "gap"
  <2>1. /\ f.id \in 0 .. Len(emitted) - 1 /\ f.ev = emitted[f.id + 1]
        /\ out' = Append(out, f)
    BY <1>2, <1>4 DEF FrameOK, ReadFrame
  <2>2. f = [id |-> f.id, ev |-> emitted[f.id + 1]]
    BY <1>1, <2>1, HeadOK DEF Frames
  <2>3. out = <<>> \/ out[Len(out)].id < f.id
    <3>1. /\ Len(out) \in Nat /\ (Len(out) = 0 => out = <<>>)
          /\ \A k \in 1 .. Len(out) : out[k] \in Frames
      BY LenProperties, EmptySeq, ElementOfSeq DEF StreamInv, TypeInv, TypeOK
    <3>2. CASE Len(out) \in 1 .. Len(out)
      <4>1. out[Len(out)].id \in Int /\ out[Len(out)].id <= lastEventID
        BY <3>1, <3>2 DEF StreamInv, Given, Frames
      <4> QED BY <1>2, <4>1
    <3> QED BY <3>1, <3>2
  <2>4. IF emitted[f.id + 1].kind = "done"
        THEN Result' = "complete" /\ exitCode' = emitted[f.id + 1].val
        ELSE UNCHANGED <<Result, exitCode>>
    BY <2>1 DEF ReadFrame, Result
  <2>5. Log!Hand(f.id)
    BY <1>1, <2>1, <2>2, <2>3, <2>4 DEF Log!Hand, Log!Closes
  <2> QED BY <2>1, <2>5 DEF Log!Next
<1> QED BY <1>3, <1>4

(* Theorem: the execution stream implements ReplayLog: the client is handed
   entries of the job's log under their own index, each at most once and in
   order, and succeeds only on the final one, with its exit code. *)
THEOREM ContractHolds ==
  ASSUME "inId" \notin TornCuts
  PROVE  Spec => Contract
<1>1. Init => Log!Init
  BY DEF Init, Log!Init, Result
<1>2. StreamInv /\ [Next]_vars => [Log!Next]_(Log!rlVars)
  <2> SUFFICES ASSUME StreamInv, [Next]_vars
               PROVE  Log!Next \/ UNCHANGED Log!rlVars
    OBVIOUS
  <2>1. CASE JobStep
    BY <2>1, JobStepRefines DEF StreamInv
  <2>2. CASE HandlerStep \/ Connect \/ UNCHANGED vars
    <3>1. UNCHANGED <<emitted, out, exitCode, Result>>
      BY <2>2 DEF HandlerStep, Snapshot, Deliver, CheckDone, Wake, Connect,
                  vars, jobVars, cliVars, Result
    <3> QED BY <3>1 DEF Log!rlVars
  <2>3. CASE ReadFrame
    BY <2>3, ReadFrameRefines
  <2>4. CASE ConnectRejected \/ StreamEnds \/ ConnectFails \/ Break \/ Cancel
    <3>1. /\ UNCHANGED <<emitted, out, exitCode>> /\ Result = "pending"
          /\ Result' \in {"pending", "abandoned"}
      BY <2>4 DEF ConnectRejected, StreamEnds, ConnectFails, Break, Cancel, Retry,
                  jobVars, cliVars, Result
    <3> QED BY <3>1 DEF Log!rlVars, Log!Next, Log!Abandon
  <2> QED BY <2>1, <2>2, <2>3, <2>4 DEF Next, ClientStep
<1> QED BY <1>1, <1>2, StreamSafe, PTL DEF Spec, Contract

-----------------------------------------------------------------------------
(* The client gives up only after the failures it may have. *)

(* A client that still reads has the final event ahead of it. *)
Unread ==
  cli \in {"connecting", "reading"} =>
    lastEventID < Len(emitted) /\ (done => lastEventID < Len(emitted) - 1)

(* Once a connection has ended without the final event, which costs the one
   retry no failure accounts for, the job is over, and every later connection
   measures all that is left and delivers it to the end. *)
LastConnection ==
  retries > drops =>
    /\ done
    /\ cli = "reading" =>
         \/ srv = "snapshot" /\ ~gapWarned /\ startIndex < Len(emitted)
         \/ srv = "deliver" /\ InBatch /\ avail = Len(history)
         \/ srv = "closed" /\ wire # <<>> /\ wire[Len(wire)].ev.kind = "done"

RetriesAccounted ==
  /\ retries <= drops + 1
  /\ cli = "failed" => drops >= MaxRetries

GiveUpInv == Unread /\ LastConnection /\ RetriesAccounted

(* A handler ends its stream only when the job is over. *)
ClosedWhenDone == srv = "closed" => done

(* A job that is over changes no more, and the buffer ends in its final event. *)
LEMMA DoneSettled ==
  ASSUME TypeInv, Window, done
  PROVE  /\ Len(history) \in Nat \ {0} /\ Len(emitted) \in Nat /\ baseIndex \in Nat
         /\ baseIndex + Len(history) = Len(emitted)
         /\ history[Len(history)].kind = "done"
         /\ JobStep => UNCHANGED <<emitted, history, baseIndex, done>>
<1>1. /\ Len(history) \in Nat /\ Len(emitted) \in Nat /\ baseIndex \in Nat
      /\ Len(history) > 0 /\ history[Len(history)].kind = "done"
      /\ baseIndex + Len(history) = Len(emitted)
  BY LenProperties DEF TypeInv, TypeOK, Window, ReplayWindow
<1>2. proc = "exited"
  BY DEF Window
<1>3. JobStep => GraceExpires
  BY <1>2 DEF JobStep, Start, StartFails, CommandEnds, PrintLine, PipeEnds, PipeBreaks, Printing
<1>4. JobStep => UNCHANGED <<emitted, history, baseIndex, done>>
  BY <1>3 DEF GraceExpires
<1>5. Len(history) \in Nat \ {0}
  BY <1>1
<1> QED BY <1>1, <1>4, <1>5

LEMMA ClosedStep ==
  ASSUME StreamInv, ClosedWhenDone, [Next]_vars
  PROVE  ClosedWhenDone'
<1>1. CASE JobStep
  <2>1. done => done'
    BY <1>1, DoneSettled DEF StreamInv
  <2> QED BY <1>1, <2>1, JobEffect DEF StreamInv, ClosedWhenDone, srvVars
<1>2. CASE Deliver
  <2>1. CASE FrameAt(idx).ev.kind = "done"
    <3>1. /\ FrameAt(idx).ev = emitted[baseIndex + idx + 1]
          /\ baseIndex + idx + 1 \in 1 .. Len(emitted)
      BY <1>2, FrameAtOK, LenProperties DEF Deliver, StreamInv, TypeInv, TypeOK
    <3>2. done
      BY <2>1, <3>1 DEF StreamInv, Window
    <3> QED BY <1>2, <3>2 DEF Deliver, ClosedWhenDone, jobVars
  <2>2. CASE FrameAt(idx).ev.kind # "done"
    BY <1>2, <2>2 DEF Deliver, ClosedWhenDone, jobVars
  <2> QED BY <2>1, <2>2
<1>3. CASE Snapshot \/ CheckDone \/ Wake
  BY <1>3 DEF Snapshot, CheckDone, Wake, AfterBatch, ClosedWhenDone, jobVars
<1>4. CASE ClientStep \/ ConnectFails \/ Break \/ Cancel \/ UNCHANGED vars
  BY <1>4 DEF ClientStep, Connect, ConnectRejected, ReadFrame, StreamEnds, ConnectFails,
              Break, Cancel, vars, jobVars, srvVars, ClosedWhenDone
<1> QED BY <1>1, <1>2, <1>3, <1>4 DEF Next, HandlerStep

LEMMA UnreadStep ==
  ASSUME StreamInv, StreamInv', Unread, [Next]_vars, ~torn'
  PROVE  Unread'
<1>1. /\ lastEventID \in Int /\ Len(emitted) \in Nat /\ Len(emitted') \in Nat
      /\ done \in BOOLEAN /\ done' \in BOOLEAN
  BY LenProperties DEF StreamInv, TypeInv, TypeOK
<1>2. CASE JobStep
  <2>1. /\ Len(emitted) <= Len(emitted') /\ UNCHANGED <<cli, lastEventID>>
    BY <1>2, JobEffect DEF StreamInv, cliVars
  <2>2. CASE done
    BY <1>2, <2>1, <2>2, DoneSettled DEF StreamInv, Unread
  <2>3. CASE ~done /\ done'
    <3>1. Len(emitted') = Len(emitted) + 1
      <4>1. PICK ev : TrySend(ev)
        BY <1>2, <2>3 DEF JobStep, Start, StartFails, CommandEnds, EmitFinal, GraceExpires,
                          PrintLine, PipeEnds, PipeBreaks
      <4> QED BY <4>1, AppendProperties DEF TrySend, StreamInv, TypeInv, TypeOK
    <3> QED BY <1>1, <2>1, <3>1 DEF Unread
  <2>4. CASE ~done /\ ~done'
    BY <1>1, <2>1, <2>4 DEF Unread
  <2> QED BY <2>2, <2>3, <2>4
<1>3. CASE ReadFrame
  <2> DEFINE f == Head(wire)
  <2>1. /\ cli = "reading" /\ wire # <<>> /\ lastEventID' = f.id /\ f.id \in Int
        /\ FrameOK(f) /\ UNCHANGED <<emitted, baseIndex, done>>
        /\ cli' = "reading" => f.ev.kind # "done"
    BY <1>3, HeadOK DEF ReadFrame, jobVars
  <2>2. /\ baseIndex \in Nat /\ baseIndex <= Len(emitted)
        /\ done => baseIndex <= Len(emitted) - 1
    <3>1. baseIndex \in Nat /\ Len(history) \in Nat /\ baseIndex + Len(history) = Len(emitted)
      BY LenProperties DEF StreamInv, TypeInv, TypeOK, Window, ReplayWindow
    <3> QED BY <1>1, <3>1, DoneSettled DEF StreamInv
  <2>3. CASE f.id < baseIndex
    BY <1>1, <2>1, <2>2, <2>3 DEF Unread
  <2>4. CASE f.id \in 0 .. Len(emitted) - 1 /\ f.ev = emitted[f.id + 1]
    <3>1. done => emitted[Len(emitted)].kind = "done"
      <4>1. \/ Len(history) \in 1 .. Len(history) /\ history[Len(history)] = emitted[Len(emitted)]
            \/ ~done
        BY DoneSettled DEF StreamInv, Window, ReplayWindow
      <4> QED BY <4>1, DoneSettled DEF StreamInv
    <3>2. cli' = "reading" /\ done => f.id + 1 # Len(emitted)
      BY <2>1, <2>4, <3>1
    <3>3. cli' \in {"reading", "succeeded"}
      BY <1>3 DEF ReadFrame
    <3> QED BY <1>1, <2>1, <2>4, <3>2, <3>3 DEF Unread
  <2> QED BY <2>1, <2>3, <2>4 DEF FrameOK
<1>4. CASE HandlerStep \/ Connect \/ ConnectRejected \/ StreamEnds \/ ConnectFails
             \/ Break \/ Cancel \/ UNCHANGED vars
  <2>1. /\ UNCHANGED <<emitted, done, lastEventID>>
        /\ cli' \in {"connecting", "reading"} => cli \in {"connecting", "reading"}
    BY <1>4 DEF HandlerStep, Snapshot, Deliver, CheckDone, Wake, Connect, ConnectRejected,
                StreamEnds, ConnectFails, Break, Cancel, vars, jobVars, cliVars
  <2> QED BY <2>1 DEF Unread
<1> QED BY <1>2, <1>3, <1>4 DEF Next, ClientStep

(* The handler of a connection that was opened behind the final event: it
   measures the buffer to its end and sends all of it. *)
LEMMA LastConnectionServed ==
  ASSUME StreamInv, LastConnection, retries > drops, cli = "reading", HandlerStep
  PROVE  LastConnection'
<1>1. /\ done' = done /\ done /\ UNCHANGED <<emitted, history, baseIndex, retries, drops, cli>>
  BY DEF HandlerStep, Snapshot, Deliver, CheckDone, Wake, jobVars, cliVars, LastConnection
<1>2. /\ Len(history) \in Nat \ {0} /\ Len(emitted) \in Nat /\ baseIndex \in Nat
      /\ baseIndex + Len(history) = Len(emitted)
      /\ history[Len(history)].kind = "done"
      /\ startIndex \in Int /\ idx \in Int /\ avail \in Nat
  BY <1>1, DoneSettled DEF StreamInv, TypeInv, TypeOK
<1>3. CASE Snapshot
  <2> DEFINE from == IF startIndex < 0 THEN baseIndex ELSE startIndex
             gap  == from < baseIndex /\ ~gapWarned
             next == IF gap THEN baseIndex ELSE from
  <2>1. ~gapWarned /\ startIndex < Len(emitted)
    BY <1>3 DEF Snapshot, LastConnection
  <2>2. next \in Nat /\ baseIndex <= next /\ next < Len(emitted)
    BY <1>2, <2>1
  <2>3. srv' = "deliver" /\ idx' = next - baseIndex /\ avail' = Len(history)
    BY <1>3 DEF Snapshot, AfterGap
  <2>4. InBatch' /\ avail' = Len(history')
    BY <1>1, <1>2, <2>2, <2>3 DEF InBatch
  <2> QED BY <1>1, <2>3, <2>4 DEF LastConnection
<1>4. CASE Deliver
  <2>1. /\ srv = "deliver" /\ InBatch /\ avail = Len(history) /\ wire' = Append(wire, FrameAt(idx))
        /\ UNCHANGED avail
    BY <1>4 DEF Deliver, LastConnection
  <2>2. CASE FrameAt(idx).ev.kind = "done"
    <3>1. srv' = "closed"
      BY <1>4, <2>2 DEF Deliver
    <3>2. /\ Len(wire') = Len(wire) + 1 /\ Len(wire) \in Nat /\ wire' \in Seq(Frames)
          /\ wire'[Len(wire')] = FrameAt(idx)
      <4>1. FrameAt(idx) \in Frames
        <5>1. idx + 1 \in 1 .. Len(history)
          BY <1>2, <2>1 DEF InBatch
        <5>2. history[idx + 1] \in Events
          BY <5>1, ElementOfSeq DEF StreamInv, TypeInv, TypeOK
        <5> QED BY <1>2, <5>2 DEF FrameAt, Frames
      <4> QED BY <2>1, <4>1, AppendProperties, LenProperties DEF StreamInv, TypeInv, TypeOK
    <3>3. wire' # <<>>
      BY <3>2, EmptySeq
    <3> QED BY <1>1, <2>2, <3>1, <3>2, <3>3 DEF LastConnection
  <2>3. CASE FrameAt(idx).ev.kind # "done"
    <3>1. srv' = "deliver" /\ idx' = idx + 1
      BY <1>4, <2>1, <2>3 DEF Deliver
    <3>2. idx + 1 # Len(history)
      BY <1>2, <2>3 DEF FrameAt
    <3>3. InBatch'
      BY <1>2, <2>1, <3>1, <3>2 DEF InBatch
    <3> QED BY <1>1, <2>1, <3>1, <3>3 DEF LastConnection
  <2> QED BY <2>2, <2>3
<1>5. CASE CheckDone \/ Wake
  BY <1>5 DEF CheckDone, Wake, LastConnection
<1> QED BY <1>3, <1>4, <1>5 DEF HandlerStep

LEMMA LastConnectionStep ==
  ASSUME StreamInv, ClosedWhenDone, GiveUpInv, [Next]_vars, ~torn'
  PROVE  LastConnection' /\ RetriesAccounted'
<1>1. /\ retries \in Nat /\ drops \in Nat /\ MaxRetries \in Nat /\ retries <= MaxRetries
      /\ lastEventID \in Int /\ Len(emitted) \in Nat
      /\ LastConnection /\ RetriesAccounted
  BY ExecStreamAssumption, LenProperties DEF StreamInv, TypeInv, TypeOK, GiveUpInv
<1>2. CASE JobStep
  <2>1. UNCHANGED <<srvVars, wire, cliVars>>
    BY <1>2, JobEffect DEF StreamInv
  <2>2. RetriesAccounted'
    BY <1>1, <2>1 DEF RetriesAccounted, cliVars
  <2>3. CASE retries > drops
    <3>1. UNCHANGED <<emitted, history, baseIndex, done>>
      BY <1>1, <1>2, <2>3, DoneSettled DEF LastConnection, StreamInv
    <3> QED BY <1>1, <2>1, <2>2, <3>1 DEF LastConnection, InBatch, srvVars, cliVars
  <2>4. CASE ~(retries > drops)
    BY <2>1, <2>2, <2>4 DEF LastConnection, cliVars
  <2> QED BY <2>3, <2>4
<1>3. CASE HandlerStep
  <2>1. UNCHANGED <<cliVars, done>>
    BY <1>3 DEF HandlerStep, Snapshot, Deliver, CheckDone, Wake, jobVars
  <2>2. RetriesAccounted'
    BY <1>1, <2>1 DEF RetriesAccounted, cliVars
  <2>3. CASE retries > drops /\ cli = "reading"
    BY <1>1, <1>3, <2>2, <2>3, LastConnectionServed
  <2>4. CASE ~(retries > drops /\ cli = "reading")
    BY <1>1, <2>1, <2>2, <2>4 DEF LastConnection, cliVars
  <2> QED BY <2>3, <2>4
<1>4. CASE Connect
  <2>1. /\ cli = "connecting" /\ cli' = "reading" /\ srv' = "snapshot" /\ ~gapWarned'
        /\ startIndex' = Resume(lastEventID)
        /\ UNCHANGED <<emitted, done, retries, drops>>
    BY <1>4 DEF Connect, jobVars
  <2>2. RetriesAccounted'
    BY <1>1, <2>1 DEF RetriesAccounted
  <2>3. done => Resume(lastEventID) < Len(emitted)
    BY <1>1, <2>1, DoneSettled DEF GiveUpInv, Unread, Resume, StreamInv
  <2> QED BY <1>1, <2>1, <2>2, <2>3 DEF LastConnection
<1>5. CASE ReadFrame
  <2>1. /\ cli = "reading" /\ wire # <<>> /\ wire' = Tail(wire)
        /\ UNCHANGED <<jobVars, srvVars, retries, drops>>
        /\ cli' \in {"reading", "succeeded"}
        /\ Head(wire).ev.kind = "done" => cli' = "succeeded"
    BY <1>5 DEF ReadFrame
  <2>2. RetriesAccounted'
    BY <1>1, <2>1 DEF RetriesAccounted
  <2>3. CASE cli' = "reading" /\ srv = "closed" /\ retries > drops
    <3>1. wire[Len(wire)].ev.kind = "done"
      BY <1>1, <2>1, <2>3 DEF LastConnection
    <3>2. /\ Head(wire) = wire[1] /\ Len(wire) \in Nat \ {0} /\ Len(Tail(wire)) = Len(wire) - 1
          /\ \A k \in 1 .. Len(Tail(wire)) : Tail(wire)[k] = wire[k + 1]
      BY <2>1, HeadTailProperties, LenProperties, EmptySeq DEF StreamInv, TypeInv, TypeOK
    <3>3. Len(wire) # 1
      BY <2>1, <2>3, <3>1, <3>2
    <3>4. wire' # <<>> /\ wire'[Len(wire')] = wire[Len(wire)]
      BY <2>1, <3>2, <3>3, EmptySeq
    <3> QED BY <1>1, <2>1, <2>2, <2>3, <3>1, <3>4 DEF LastConnection, jobVars, srvVars
  <2>4. CASE ~(cli' = "reading" /\ srv = "closed" /\ retries > drops)
    BY <1>1, <2>1, <2>2, <2>4 DEF LastConnection, InBatch, jobVars, srvVars
  <2> QED BY <2>3, <2>4
<1>6. CASE StreamEnds
  <2>1. /\ cli = "reading" /\ wire = <<>> /\ srv = "closed" /\ Retry
        /\ UNCHANGED <<done, drops>>
    BY <1>6 DEF StreamEnds, jobVars
  <2>2. done /\ ~(retries > drops)
    BY <1>1, <2>1 DEF ClosedWhenDone, LastConnection
  <2> QED BY <1>1, <2>1, <2>2 DEF Retry, LastConnection, RetriesAccounted
<1>7. CASE ConnectFails \/ Break
  <2>1. Retry /\ drops' = drops + 1 /\ UNCHANGED done /\ cli' \in {"connecting", "failed"}
    BY <1>7 DEF ConnectFails, Break, Retry, jobVars
  <2> QED BY <1>1, <2>1 DEF Retry, LastConnection, RetriesAccounted
<1>8. CASE ConnectRejected \/ Cancel
  BY <1>1, <1>8 DEF ConnectRejected, Cancel, LastConnection, RetriesAccounted, jobVars
<1>9. CASE UNCHANGED vars
  BY <1>1, <1>9 DEF vars, jobVars, srvVars, cliVars, LastConnection, RetriesAccounted, InBatch
<1> QED BY <1>2, <1>3, <1>4, <1>5, <1>6, <1>7, <1>8, <1>9 DEF Next, ClientStep

(* Theorem: a client whose frames were not torn gives a job up only after
   MaxRetries failures of the network: the early return of a handler costs it
   at most one retry, because the connection after that delivers the rest. *)
THEOREM GivesUpOnlyAfterDropsCorrect == Spec => []GivesUpOnlyAfterDrops
<1> DEFINE Inv == ~torn => ClosedWhenDone /\ GiveUpInv
<1>1. Init => Inv
  BY EmptySeq, ExecStreamAssumption
     DEF Init, ClosedWhenDone, GiveUpInv, Unread, LastConnection, RetriesAccounted
<1>2. /\ Inv /\ TypeInv /\ [Next]_vars
      /\ ~torn => StreamInv
      /\ (~torn => StreamInv)'
      => Inv'
  BY TornStays, ClosedStep, UnreadStep, LastConnectionStep DEF GiveUpInv
<1>3. Inv => GivesUpOnlyAfterDrops
  BY DEF GivesUpOnlyAfterDrops, GiveUpInv, RetriesAccounted
<1> HIDE DEF Inv
<1> QED BY <1>1, <1>2, <1>3, TypeCorrect, UntornSafe, PTL DEF Spec

-----------------------------------------------------------------------------
(* Nothing is lost as long as nothing is evicted or torn. *)

(* Frames follow each other without a gap: from what the client was given
   through what is in flight to where the handler stands. *)
ReadOn ==
  /\ \A k \in 1 .. Len(wire) : wire[k].id = lastEventID + k
  /\ srv # "closed" =>
       \/ startIndex = -1 /\ lastEventID = -1 /\ wire = <<>> /\ srv = "snapshot"
       \/ startIndex = lastEventID + Len(wire) + 1
  /\ srv = "deliver" => idx = startIndex

Consecutive ==
  /\ Len(out) = lastEventID + 1
  /\ \A k \in 1 .. Len(out) : out[k].id = k - 1
  /\ cli = "reading" => ReadOn
  /\ cli = "succeeded" => Len(out) > 0 /\ out[Len(out)].ev.kind = "done"

LEMMA FrameFollows ==
  ASSUME StreamInv, ReadOn, NEW f \in Frames, f.id = lastEventID + Len(wire) + 1,
         wire' = Append(wire, f), UNCHANGED lastEventID
  PROVE  /\ \A k \in 1 .. Len(wire') : wire'[k].id = lastEventID' + k
         /\ Len(wire') = Len(wire) + 1 /\ Len(wire) \in Nat
<1>1. /\ Len(wire) \in Nat /\ Len(wire') = Len(wire) + 1
      /\ \A k \in 1 .. Len(wire) : wire'[k] = wire[k]
      /\ wire'[Len(wire) + 1] = f
      /\ lastEventID \in Int
  BY AppendProperties, LenProperties DEF StreamInv, TypeInv, TypeOK
<1>2. ASSUME NEW k \in 1 .. Len(wire') PROVE wire'[k].id = lastEventID' + k
  <2>1. CASE k \in 1 .. Len(wire)
    BY <1>1, <2>1 DEF ReadOn
  <2>2. CASE k = Len(wire) + 1
    BY <1>1, <2>2
  <2> QED BY <1>1, <2>1, <2>2
<1> QED BY <1>1, <1>2

LEMMA HandlerReadsOn ==
  ASSUME StreamInv, ReadOn, baseIndex = 0, cli = "reading", HandlerStep
  PROVE  ReadOn'
<1>1. /\ UNCHANGED <<baseIndex, lastEventID>>
      /\ Len(wire) \in Nat /\ lastEventID \in Int /\ -1 <= lastEventID
      /\ startIndex \in Int /\ idx \in Int
  BY LenProperties DEF HandlerStep, Snapshot, Deliver, CheckDone, Wake, jobVars, cliVars,
                       StreamInv, TypeInv, TypeOK, Given
<1>2. CASE Snapshot
  <2> DEFINE from == IF startIndex < 0 THEN baseIndex ELSE startIndex
             gap  == from < baseIndex /\ ~gapWarned
  <2>1. from \in Nat /\ ~gap
    BY <1>1
  <2>2. /\ wire' = wire /\ srv' = "deliver" /\ startIndex' = from /\ idx' = from - baseIndex
    BY <1>2, <2>1 DEF Snapshot, AfterGap
  <2>3. from = lastEventID + Len(wire) + 1
    <3>1. wire = <<>> => Len(wire) = 0
      BY EmptySeq
    <3> QED BY <1>1, <1>2, <3>1 DEF Snapshot, ReadOn
  <2> QED BY <1>1, <2>1, <2>2, <2>3 DEF ReadOn
<1>3. CASE Deliver
  <2>1. /\ srv = "deliver" /\ InBatch /\ wire' = Append(wire, FrameAt(idx))
        /\ \/ srv' = "closed"
           \/ srv' = srv /\ startIndex' = FrameAt(idx).id + 1 /\ idx' = idx + 1
    BY <1>3 DEF Deliver
  <2>2. /\ FrameAt(idx).id = idx /\ idx = lastEventID + Len(wire) + 1
    BY <1>1, <2>1, FrameAtOK DEF ReadOn
  <2>3. FrameAt(idx) \in Frames
    <3>1. idx + 1 \in 1 .. Len(history)
      BY <2>1, LenProperties DEF InBatch, StreamInv, TypeInv, TypeOK
    <3>2. history[idx + 1] \in Events
      BY <3>1, ElementOfSeq DEF StreamInv, TypeInv, TypeOK
    <3> QED BY <1>1, <3>2 DEF FrameAt, Frames, StreamInv, TypeInv, TypeOK
  <2>4. /\ \A k \in 1 .. Len(wire') : wire'[k].id = lastEventID' + k
        /\ Len(wire') = Len(wire) + 1
    BY <1>1, <2>1, <2>2, <2>3, FrameFollows
  <2> QED BY <1>1, <2>1, <2>2, <2>4 DEF ReadOn
<1>4. CASE CheckDone \/ Wake
  <2>1. UNCHANGED <<startIndex, wire>> /\ srv \in {"deliver", "wait"} /\ srv' # "deliver"
    BY <1>4 DEF CheckDone, AfterBatch, Wake
  <2> QED BY <1>1, <2>1 DEF ReadOn
<1> QED BY <1>2, <1>3, <1>4 DEF HandlerStep

LEMMA ReadFrameReadsOn ==
  ASSUME StreamInv, Consecutive, baseIndex = 0, ReadFrame
  PROVE  Consecutive'
<1> DEFINE f == Head(wire)
<1>1. /\ cli = "reading" /\ wire # <<>> /\ wire' = Tail(wire) /\ lastEventID' = f.id
      /\ UNCHANGED <<emitted, srv, startIndex, idx>>
      /\ FrameOK(f) /\ f \in Frames /\ ReadOn
  BY HeadOK DEF ReadFrame, jobVars, srvVars, Consecutive
<1>2. /\ Len(wire) \in Nat \ {0} /\ f = wire[1] /\ Len(Tail(wire)) = Len(wire) - 1
      /\ \A k \in 1 .. Len(Tail(wire)) : Tail(wire)[k] = wire[k + 1]
      /\ lastEventID \in Int /\ startIndex \in Int
  BY <1>1, HeadTailProperties, LenProperties, EmptySeq DEF StreamInv, TypeInv, TypeOK
<1>3. f.id = lastEventID + 1
  BY <1>1, <1>2 DEF ReadOn
<1>4. ReadOn'
  <2>1. ASSUME NEW k \in 1 .. Len(wire') PROVE wire'[k].id = lastEventID' + k
    <3>1. k + 1 \in 1 .. Len(wire) /\ wire'[k] = wire[k + 1]
      BY <1>1, <1>2
    <3>2. wire[k + 1].id = lastEventID + (k + 1)
      BY <1>1, <3>1 DEF ReadOn
    <3> QED BY <1>1, <1>2, <1>3, <3>1, <3>2
  <2>2. srv # "closed" => startIndex = lastEventID + Len(wire) + 1
    BY <1>1 DEF ReadOn
  <2>3. srv # "closed" => startIndex' = lastEventID' + Len(wire') + 1
    BY <1>1, <1>2, <1>3, <2>2
  <2> QED BY <1>1, <2>1, <2>3 DEF ReadOn
<1>5. f.ev.kind # "gap"
  <2>1. -1 <= lastEventID
    BY DEF StreamInv, Given
  <2>2. f.id \in 0 .. Len(emitted) - 1 /\ f.ev = emitted[f.id + 1] /\ Len(emitted) \in Nat
    BY <1>1, <1>2, <1>3, <2>1, LenProperties DEF FrameOK, StreamInv, TypeInv, TypeOK
  <2> QED BY <2>2 DEF StreamInv, Window
<1>6. /\ Len(out') = Len(out) + 1 /\ Len(out) \in Nat
      /\ \A k \in 1 .. Len(out) : out'[k] = out[k]
      /\ out'[Len(out) + 1] = f
  <2>1. out' = Append(out, f)
    BY <1>5 DEF ReadFrame
  <2>2. out \in Seq(Frames)
    BY DEF StreamInv, TypeInv, TypeOK
  <2> QED BY <1>1, <2>1, <2>2, AppendProperties, LenProperties
<1>7. /\ Len(out') = lastEventID' + 1
      /\ \A k \in 1 .. Len(out') : out'[k].id = k - 1
  <2>1. /\ Len(out) = lastEventID + 1
        /\ \A k \in 1 .. Len(out) : out[k].id = k - 1
    BY DEF Consecutive
  <2>2. \A k \in 1 .. Len(out') : k \in 1 .. Len(out) \/ k = Len(out) + 1
    BY <1>6
  <2> QED BY <1>1, <1>2, <1>3, <1>6, <2>1, <2>2
<1>8. cli' = "succeeded" => Len(out') > 0 /\ out'[Len(out')].ev.kind = "done"
  BY <1>1, <1>6 DEF ReadFrame
<1> QED BY <1>4, <1>7, <1>8 DEF Consecutive

(* What was evicted stays evicted. *)
LEMMA EvictedStays ==
  ASSUME TypeInv, Window, [Next]_vars
  PROVE  baseIndex <= baseIndex'
<1>1. JobStep => baseIndex <= baseIndex'
  BY JobEffect
<1>2. ~JobStep => UNCHANGED baseIndex
  BY DEF Next, HandlerStep, Snapshot, Deliver, CheckDone, Wake, ClientStep, Connect,
         ConnectRejected, ReadFrame, StreamEnds, ConnectFails, Break, Cancel, vars, jobVars
<1> QED BY <1>1, <1>2 DEF TypeInv, TypeOK

LEMMA ConsecutiveStep ==
  ASSUME StreamInv, TypeInv', baseIndex' = 0 /\ ~torn', Consecutive, [Next]_vars
  PROVE  Consecutive'
<1>1. baseIndex = 0
  <2>1. TypeInv /\ Window /\ baseIndex \in Nat
    BY DEF StreamInv, TypeInv, TypeOK
  <2>2. baseIndex <= baseIndex'
    BY <2>1, EvictedStays
  <2> QED BY <2>1, <2>2
<1>2. CASE JobStep
  <2>1. UNCHANGED <<srvVars, wire, cliVars>>
    BY <1>2, JobEffect DEF StreamInv
  <2> QED BY <2>1 DEF Consecutive, ReadOn, srvVars, cliVars
<1>3. CASE HandlerStep
  <2>1. UNCHANGED cliVars
    BY <1>3 DEF HandlerStep, Snapshot, Deliver, CheckDone, Wake
  <2> QED BY <1>1, <1>3, <2>1, HandlerReadsOn DEF Consecutive, cliVars
<1>4. CASE Connect
  <2>1. /\ UNCHANGED <<out, lastEventID>> /\ cli' = "reading" /\ wire' = <<>> /\ Len(wire') = 0
        /\ srv' = "snapshot" /\ startIndex' = Resume(lastEventID)
    BY <1>4, EmptySeq DEF Connect
  <2>2. lastEventID \in Int
    BY DEF StreamInv, TypeInv, TypeOK
  <2> QED BY <2>1, <2>2 DEF Consecutive, ReadOn, Resume
<1>5. CASE ReadFrame
  BY <1>1, <1>5, ReadFrameReadsOn
<1>6. CASE ConnectRejected \/ StreamEnds \/ ConnectFails \/ Break \/ Cancel
  <2>1. UNCHANGED <<out, lastEventID>> /\ cli' \notin {"reading", "succeeded"}
    BY <1>6 DEF ConnectRejected, StreamEnds, ConnectFails, Break, Cancel, Retry
  <2> QED BY <2>1 DEF Consecutive
<1>7. CASE UNCHANGED vars
  BY <1>7 DEF vars, srvVars, cliVars, Consecutive, ReadOn
<1> QED BY <1>2, <1>3, <1>4, <1>5, <1>6, <1>7 DEF Next, ClientStep

(* Theorem: as long as the buffer has not overflowed and no frame was torn, a
   client that succeeds was given every event of the job, over however many
   connections. *)
THEOREM NoLossWithoutEvictionCorrect == Spec => []NoLossWithoutEviction
<1> DEFINE Inv == baseIndex = 0 /\ ~torn => Consecutive
<1>1. Init => Inv
  BY EmptySeq DEF Init, Consecutive
<1>2. /\ Inv /\ TypeInv /\ TypeInv' /\ [Next]_vars
      /\ ~torn => StreamInv
      => Inv'
  <2> SUFFICES ASSUME Inv, TypeInv, TypeInv', [Next]_vars, ~torn => StreamInv,
                      baseIndex' = 0, ~torn'
               PROVE  Consecutive'
    OBVIOUS
  <2>1. StreamInv
    BY TornStays
  <2>2. Window /\ baseIndex \in Nat
    BY <2>1 DEF StreamInv, TypeInv, TypeOK
  <2>3. baseIndex <= baseIndex'
    BY <2>2, EvictedStays
  <2>4. Consecutive
    BY <2>2, <2>3, TornStays
  <2> QED BY <2>1, <2>4, ConsecutiveStep
<1>3. Inv /\ TypeInv /\ (~torn => StreamInv) => NoLossWithoutEviction
  <2> SUFFICES ASSUME Inv, ~torn => StreamInv, cli = "succeeded", baseIndex = 0, ~torn
               PROVE  [k \in DOMAIN out |-> out[k].ev] = emitted
    BY DEF NoLossWithoutEviction
  <2>1. /\ Len(out) \in Nat /\ Len(emitted) \in Nat
        /\ DOMAIN out = 1 .. Len(out) /\ emitted \in [1 .. Len(emitted) -> Events]
    BY LenProperties DEF StreamInv, TypeInv, TypeOK
  <2>2. \A k \in 1 .. Len(out) : k \in 1 .. Len(emitted) /\ out[k].ev = emitted[k]
    <3> TAKE k \in 1 .. Len(out)
    <3>1. out[k].id = k - 1
      BY DEF Consecutive
    <3>2. out[k].id \in 0 .. Len(emitted) - 1 /\ out[k].ev = emitted[out[k].id + 1]
      BY DEF StreamInv, Given
    <3>3. (k - 1) + 1 = k
      BY <2>1
    <3> QED BY <2>1, <3>1, <3>2, <3>3
  <2>3. Len(out) = Len(emitted)
    <3>1. Len(out) \in 1 .. Len(out) /\ out[Len(out)].ev.kind = "done"
      BY <2>1 DEF Consecutive
    <3> QED BY <2>1, <2>2, <3>1 DEF StreamInv, Window
  <2> QED BY <2>1, <2>2, <2>3
<1> HIDE DEF Inv
<1> QED BY <1>1, <1>2, <1>3, TypeCorrect, UntornSafe, PTL DEF Spec
=============================================================================
