--------------------------- MODULE AgentLoopProofs ---------------------------
(***************************************************************************)
(* Proofs about AgentLoop.  The inductive invariant says of the history    *)
(* what each operation on it needs: results stand behind their calls, a    *)
(* message never both calls and answers, only the response being worked on *)
(* has open calls, and a pending compaction has a cut that starts no       *)
(* orphan tail.  The lemmas show each operation of Conversation keeps it.  *)
(***************************************************************************)
EXTENDS AgentLoop, SequenceTheorems, TLAPS

Shaped(msgs) ==
  /\ msgs \in Seq(Messages)
  /\ \A k \in 1 .. Len(msgs) :
       /\ msgs[k].role = "user" \/ msgs[k].results = <<>>
       /\ msgs[k].uses = <<>> \/ msgs[k].results = <<>>
       /\ Backed(msgs, k)
  /\ Len(msgs) > 0 => msgs[1].uses = <<>>

(* Every call is answered or given up; where open is TRUE, those of the last
   message may still be worked on. *)
Settled(msgs, given, open) ==
  \A k \in 1 .. Len(msgs) :
    Answered(msgs, k) \/ msgs[k].uses \in given \/ (open /\ k = Len(msgs))

ToolPhases == {"execute", "propose", "batch", "tools"}

HistoryInv ==
  /\ Shaped(convo)
  /\ calls \in IdSeqs /\ turns \in Nat
  /\ Settled(convo, abandoned, phase \in ToolPhases)
  /\ Active => Len(convo) > 0
  /\ phase \in ToolPhases => convo[Len(convo)].uses = calls
  /\ phase \in {"summarise", "compact"} =>
       \E cut \in CompactionCutPoints(convo) : tailCount = Len(convo) - cut

-----------------------------------------------------------------------------
(* Operations on a history *)

LEMMA MessageTypes ==
  ASSUME NEW size \in Nat, NEW ids \in IdSeqs
  PROVE  /\ UserMessage(size) \in Messages
         /\ AssistantMessage(ids, size) \in Messages
         /\ ToolResultMessage(ids, size) \in Messages
<1>1. <<>> \in IdSeqs
  BY DEF IdSeqs
<1> QED
  BY <1>1 DEF UserMessage, AssistantMessage, ToolResultMessage, Messages

LEMMA Appended ==
  ASSUME NEW msgs \in Seq(Messages), NEW m \in Messages
  PROVE  /\ Append(msgs, m) \in Seq(Messages)
         /\ Len(Append(msgs, m)) = Len(msgs) + 1
         /\ \A k \in 1 .. Len(msgs) : Append(msgs, m)[k] = msgs[k]
         /\ Append(msgs, m)[Len(msgs) + 1] = m
  OBVIOUS

(* Appending a message that answers nothing, or exactly the calls of the
   message before it. *)
LEMMA AppendShaped ==
  ASSUME NEW msgs, Shaped(msgs),
         NEW m \in Messages,
         m.role = "user" \/ m.results = <<>>,
         m.uses = <<>> \/ m.results = <<>>,
         m.results # <<>> => Len(msgs) > 0 /\ m.results = msgs[Len(msgs)].uses,
         Len(msgs) = 0 => m.uses = <<>>
  PROVE  Shaped(Append(msgs, m))
<1> DEFINE new == Append(msgs, m)
<1>1. msgs \in Seq(Messages)
  BY DEF Shaped
<1>2. /\ new \in Seq(Messages)
      /\ Len(new) = Len(msgs) + 1
      /\ \A k \in 1 .. Len(msgs) : new[k] = msgs[k]
      /\ new[Len(msgs) + 1] = m
  BY <1>1, Appended
<1>3. Len(msgs) \in Nat
  BY <1>1
<1> HIDE DEF new
<1>4. ASSUME NEW k \in 1 .. Len(new)
      PROVE  /\ new[k].role = "user" \/ new[k].results = <<>>
             /\ new[k].uses = <<>> \/ new[k].results = <<>>
             /\ Backed(new, k)
  <2>1. CASE k = Len(msgs) + 1
    BY <2>1, <1>2, <1>3 DEF Backed
  <2>2. CASE k # Len(msgs) + 1
    <3>1. k \in 1 .. Len(msgs)
      BY <2>2, <1>2, <1>3
    <3>2. new[k] = msgs[k] /\ (k > 1 => new[k - 1] = msgs[k - 1])
      BY <3>1, <1>2, <1>3
    <3> QED
      BY <3>1, <3>2 DEF Shaped, Backed
  <2> QED
    BY <2>1, <2>2
<1>5. new[1].uses = <<>>
  <2>1. CASE Len(msgs) = 0
    BY <2>1, <1>2
  <2>2. CASE Len(msgs) > 0
    BY <2>2, <1>2, <1>3 DEF Shaped
  <2> QED
    BY <2>1, <2>2, <1>3
<1>6. Shaped(new)
  BY <1>2, <1>4, <1>5 DEF Shaped
<1> QED
  BY <1>6 DEF new

(* A sequence with one element put before it. *)
LEMMA Prepended ==
  ASSUME NEW S, NEW x \in S, NEW t \in Seq(S)
  PROVE  /\ Len(<<x>> \o t) = Len(t) + 1
         /\ (<<x>> \o t)[1] = x
         /\ \A k \in 2 .. Len(<<x>> \o t) : (<<x>> \o t)[k] = t[k - 1]
<1>1. <<x>> \in Seq(S) /\ Len(<<x>>) = 1 /\ <<x>>[1] = x
  OBVIOUS
<1>2. Len(<<x>> \o t) = Len(t) + 1
  OBVIOUS
<1>3. (<<x>> \o t)[1] = x
  OBVIOUS
<1>4. ASSUME NEW k \in 2 .. Len(t) + 1 PROVE (<<x>> \o t)[k] = t[k - 1]
  OBVIOUS
<1> QED BY <1>2, <1>3, <1>4

(* Appending closes what was open, if it answers it. *)
LEMMA AppendSettled ==
  ASSUME NEW msgs \in Seq(Messages), NEW given, NEW open \in BOOLEAN, NEW still \in BOOLEAN,
         Settled(msgs, given, open),
         NEW m \in Messages,
         open => Len(msgs) > 0 /\ m.results = msgs[Len(msgs)].uses,
         m.uses = <<>> \/ m.uses \in given \/ still
  PROVE  Settled(Append(msgs, m), given, still)
<1> DEFINE new == Append(msgs, m)
<1>2. /\ Len(new) = Len(msgs) + 1
      /\ \A k \in 1 .. Len(msgs) : new[k] = msgs[k]
      /\ new[Len(msgs) + 1] = m
  BY Appended
<1>3. Len(msgs) \in Nat
  OBVIOUS
<1> HIDE DEF new
<1>4. ASSUME NEW k \in 1 .. Len(new)
      PROVE  Answered(new, k) \/ new[k].uses \in given \/ (still /\ k = Len(new))
  <2>1. CASE k = Len(msgs) + 1
    BY <2>1, <1>2, <1>3 DEF Answered
  <2>2. CASE k # Len(msgs) + 1
    <3>1. k \in 1 .. Len(msgs) /\ new[k] = msgs[k] /\ k < Len(new)
      BY <2>2, <1>2, <1>3
    <3>2. Answered(msgs, k) \/ msgs[k].uses \in given \/ (open /\ k = Len(msgs))
      BY <3>1 DEF Settled
    <3>3. CASE Answered(msgs, k)
      <4>1. CASE msgs[k].uses = <<>>
        BY <4>1, <3>1 DEF Answered
      <4>2. CASE msgs[k].uses # <<>>
        <5>1. k < Len(msgs) /\ msgs[k].uses = msgs[k + 1].results
          BY <4>2, <3>3 DEF Answered
        <5>2. new[k + 1] = msgs[k + 1]
          BY <5>1, <3>1, <1>2, <1>3
        <5> QED
          BY <5>1, <5>2, <3>1 DEF Answered
      <4> QED
        BY <4>1, <4>2
    <3>4. CASE open /\ k = Len(msgs)
      <4>1. new[k + 1] = m
        BY <3>4, <1>2
      <4> QED
        BY <4>1, <3>1, <3>4 DEF Answered
    <3> QED
      BY <3>1, <3>2, <3>3, <3>4
  <2> QED
    BY <2>1, <2>2
<1>5. Settled(new, given, still)
  BY <1>4 DEF Settled
<1> QED
  BY <1>5 DEF new

LEMMA SummariseShape ==
  ASSUME NEW msgs \in Seq(Messages), NEW size \in Nat, NEW cut \in 1 .. Len(msgs)
  PROVE  LET new == Summarise(msgs, size, Len(msgs) - cut)
         IN  /\ new \in Seq(Messages)
             /\ Len(new) = Len(msgs) - cut + 1
             /\ new[1] = UserMessage(size)
             /\ \A k \in 2 .. Len(new) : new[k] = msgs[k + cut - 1]
<1> DEFINE tail == SubSeq(msgs, cut + 1, Len(msgs))
           new == <<UserMessage(size)>> \o tail
<1>0. <<>> \in IdSeqs
  BY DEF IdSeqs
<1>1. UserMessage(size) \in Messages
  BY <1>0, MessageTypes
<1>2. /\ tail \in Seq(Messages)
      /\ Len(tail) = Len(msgs) - cut
      /\ \A k \in 1 .. Len(tail) : tail[k] = msgs[k + cut]
  OBVIOUS
<1>3. <<UserMessage(size)>> \in Seq(Messages) /\ Len(<<UserMessage(size)>>) = 1
      /\ <<UserMessage(size)>>[1] = UserMessage(size)
  BY <1>1
<1>4. new \in Seq(Messages) /\ Len(new) = Len(tail) + 1 /\ new[1] = UserMessage(size)
      /\ \A k \in 2 .. Len(new) : new[k] = tail[k - 1]
  <2>1. Len(tail) \in Nat
    BY <1>2
  <2> HIDE DEF tail
  <2>2. new \in Seq(Messages)
    BY <1>2, <1>3
  <2>3. \A x \in Messages, t \in Seq(Messages) :
          /\ Len(<<x>> \o t) = Len(t) + 1 /\ (<<x>> \o t)[1] = x
          /\ \A k \in 2 .. Len(<<x>> \o t) : (<<x>> \o t)[k] = t[k - 1]
    BY Prepended
  <2>4. /\ Len(new) = Len(tail) + 1 /\ new[1] = UserMessage(size)
        /\ \A k \in 2 .. Len(new) : new[k] = tail[k - 1]
    BY <1>1, <1>2, <2>3, Zenon
  <2> QED
    BY <2>2, <2>4
<1>5. \A k \in 2 .. Len(new) : new[k] = msgs[k + cut - 1]
  <2> TAKE k \in 2 .. Len(new)
  <2>1. k - 1 \in 1 .. Len(tail) /\ new[k] = tail[k - 1]
    BY <1>2, <1>4
  <2>2. tail[k - 1] = msgs[(k - 1) + cut]
    BY <2>1, <1>2
  <2> QED
    BY <2>1, <2>2
<1>6. Summarise(msgs, size, Len(msgs) - cut) = new
  <2>1. /\ Len(msgs) - (Len(msgs) - cut) + 1 = cut + 1
        /\ ~(Len(msgs) <= Len(msgs) - cut)
    OBVIOUS
  <2> QED
    BY <2>1 DEF Summarise
<1> QED
  BY <1>2, <1>4, <1>5, <1>6

(* Compaction at a cut point keeps the history's shape: the kept tail starts
   with no answers, so none of them loses its calls. *)
LEMMA SummariseKeeps ==
  ASSUME NEW msgs, Shaped(msgs), NEW given, Settled(msgs, given, FALSE),
         NEW size \in Nat, NEW cut \in CompactionCutPoints(msgs)
  PROVE  /\ Shaped(Summarise(msgs, size, Len(msgs) - cut))
         /\ Settled(Summarise(msgs, size, Len(msgs) - cut), given, FALSE)
         /\ Len(Summarise(msgs, size, Len(msgs) - cut)) > 0
<1> DEFINE new == Summarise(msgs, size, Len(msgs) - cut)
<1>1. msgs \in Seq(Messages) /\ Len(msgs) \in Nat /\ KeepTail \in Nat \ {0}
  BY ConversationAssumption DEF Shaped
<1>2. /\ cut \in 1 .. Len(msgs) /\ cut < Len(msgs)
      /\ msgs[cut + 1].role = "user" => msgs[cut + 1].results = <<>>
  BY <1>1 DEF CompactionCutPoints, TailStartsWithOrphanToolResults
<1>3. /\ new \in Seq(Messages)
      /\ Len(new) = Len(msgs) - cut + 1
      /\ new[1] = UserMessage(size)
      /\ \A k \in 2 .. Len(new) : new[k] = msgs[k + cut - 1]
  BY <1>1, <1>2, SummariseShape
<1>4. UserMessage(size).uses = <<>> /\ UserMessage(size).results = <<>>
      /\ UserMessage(size).role = "user"
  BY DEF UserMessage
<1> HIDE DEF new
<1>5. msgs[cut + 1].results = <<>>
  BY <1>1, <1>2 DEF Shaped
<1>6. ASSUME NEW k \in 1 .. Len(new)
      PROVE  /\ new[k].role = "user" \/ new[k].results = <<>>
             /\ new[k].uses = <<>> \/ new[k].results = <<>>
             /\ Backed(new, k)
             /\ Answered(new, k) \/ new[k].uses \in given
  <2>1. CASE k = 1
    BY <2>1, <1>3, <1>4 DEF Backed, Answered
  <2>2. CASE k # 1
    <3> DEFINE j == k + cut - 1
    <3>1. k \in 2 .. Len(new) /\ j \in 1 .. Len(msgs) /\ j > cut
      BY <2>2, <1>1, <1>2, <1>3
    <3>2. new[k] = msgs[j]
      BY <3>1, <1>3
    <3>3. /\ msgs[j].role = "user" \/ msgs[j].results = <<>>
          /\ msgs[j].uses = <<>> \/ msgs[j].results = <<>>
          /\ Backed(msgs, j)
      BY <3>1 DEF Shaped
    <3>4. Backed(new, k)
      <4>1. CASE k = 2
        <5>1. j = cut + 1
          BY <4>1, <1>1, <1>2
        <5> QED
          BY <5>1, <1>5, <3>2 DEF Backed
      <4>2. CASE k # 2
        <5>1. new[k - 1] = msgs[j - 1]
          <6>1. k - 1 \in 2 .. Len(new)
            BY <4>2, <3>1, <1>1, <1>2, <1>3
          <6>2. new[k - 1] = msgs[(k - 1) + cut - 1]
            BY <6>1, <1>3
          <6>3. (k - 1) + cut - 1 = j - 1
            BY <1>1, <1>2, <1>3
          <6> QED
            BY <6>2, <6>3
        <5> QED
          BY <5>1, <3>1, <3>2, <3>3 DEF Backed
      <4> QED
        BY <4>1, <4>2
    <3>5. Answered(new, k) \/ new[k].uses \in given
      <4>1. Answered(msgs, j) \/ msgs[j].uses \in given
        BY <3>1 DEF Settled
      <4>2. CASE Answered(msgs, j) /\ msgs[j].uses # <<>>
        <5>1. j < Len(msgs) /\ msgs[j].uses = msgs[j + 1].results
          BY <4>2 DEF Answered
        <5>2. k + 1 \in 2 .. Len(new)
          BY <5>1, <3>1, <1>1, <1>2, <1>3
        <5>3. new[k + 1] = msgs[(k + 1) + cut - 1]
          BY <5>2, <1>3
        <5>4. (k + 1) + cut - 1 = j + 1 /\ k < Len(new)
          BY <5>2, <1>1, <1>2, <1>3
        <5> QED
          BY <5>1, <5>3, <5>4, <3>2 DEF Answered
      <4>3. CASE msgs[j].uses = <<>>
        BY <4>3, <3>2 DEF Answered
      <4> QED
        BY <4>1, <4>2, <4>3, <3>2
    <3> QED
      BY <3>2, <3>3, <3>4, <3>5
  <2> QED
    BY <2>1, <2>2
<1>7. Shaped(new)
  BY <1>3, <1>4, <1>6 DEF Shaped
<1>8. Settled(new, given, FALSE)
  BY <1>6 DEF Settled
<1>9. Len(new) > 0
  BY <1>1, <1>2, <1>3
<1> QED
  BY <1>7, <1>8, <1>9 DEF new

(* Two neighbours never both start an orphan tail, so the cut moves back at
   most once, and the first message answers nothing. *)
LEMMA CutFound ==
  ASSUME NEW msgs, Shaped(msgs), Len(msgs) > KeepTail
  PROVE  CompactionCutPoints(msgs) # {}
<1> DEFINE last == Len(msgs) - KeepTail
<1>1. msgs \in Seq(Messages) /\ Len(msgs) \in Nat /\ KeepTail \in Nat \ {0}
  BY ConversationAssumption DEF Shaped
<1>2. last \in 1 .. Len(msgs) - KeepTail /\ last < Len(msgs)
  BY <1>1
<1>3. CASE ~TailStartsWithOrphanToolResults(msgs, last)
  <2>1. last \in CompactionCutPoints(msgs)
    BY <1>1, <1>2, <1>3 DEF CompactionCutPoints
  <2> QED
    BY <2>1
<1>4. CASE TailStartsWithOrphanToolResults(msgs, last)
  <2>1. msgs[last + 1].results # <<>>
    BY <1>4 DEF TailStartsWithOrphanToolResults
  <2>2. last + 1 \in 1 .. Len(msgs) /\ (last + 1) - 1 = last
    BY <1>1, <1>2
  <2>3. msgs[last + 1].results = msgs[last].uses
    BY <2>1, <2>2 DEF Shaped, Backed
  <2>4. last # 1
    BY <1>1, <2>1, <2>3 DEF Shaped
  <2>5. msgs[last].results = <<>>
    BY <1>1, <1>2, <2>1, <2>3 DEF Shaped
  <2>6. (last - 1) + 1 = last /\ last - 1 \in 1 .. Len(msgs) - KeepTail
        /\ \A c \in (last - 1) + 1 .. Len(msgs) - KeepTail : c = last
    BY <1>1, <1>2, <2>4
  <2>7. ~TailStartsWithOrphanToolResults(msgs, last - 1)
    BY <2>5, <2>6 DEF TailStartsWithOrphanToolResults
  <2>8. last - 1 \in CompactionCutPoints(msgs)
    <3> HIDE DEF last
    <3> QED
      BY <1>4, <2>6, <2>7 DEF CompactionCutPoints
  <2> QED
    BY <2>8
<1> QED
  BY <1>3, <1>4

-----------------------------------------------------------------------------
(* Steps *)

(* A step that leaves the history and the calls alone. *)
LEMMA SameHistory ==
  ASSUME HistoryInv,
         UNCHANGED <<convo, calls, turns, abandoned, tailCount>>,
         (phase' \in ToolPhases) <=> (phase \in ToolPhases),
         Active' => Active,
         phase' \in {"summarise", "compact"} => phase' = phase
  PROVE  HistoryInv'
<1>1. Shaped(convo') /\ calls' \in IdSeqs /\ turns' \in Nat
  BY DEF HistoryInv
<1>2. Settled(convo', abandoned', phase' \in ToolPhases)
  BY DEF HistoryInv, Settled
<1>3. Active' => Len(convo') > 0
  BY DEF HistoryInv
<1>4. phase' \in ToolPhases => convo'[Len(convo')].uses = calls'
  BY DEF HistoryInv
<1>5. phase' \in {"summarise", "compact"} =>
        \E cut \in CompactionCutPoints(convo') : tailCount' = Len(convo') - cut
  BY DEF HistoryInv
<1> QED
  BY <1>1, <1>2, <1>3, <1>4, <1>5 DEF HistoryInv

(* A step after which no response is being worked on and no compaction is
   pending. *)
LEMMA Rests ==
  ASSUME Shaped(convo'), Settled(convo', abandoned', FALSE),
         calls' \in IdSeqs, turns' \in Nat,
         phase' \notin ToolPhases, phase' \notin {"summarise", "compact"},
         Active' => Len(convo') > 0
  PROVE  HistoryInv'
<1>1. Settled(convo', abandoned', phase' \in ToolPhases)
  BY DEF Settled
<1> QED
  BY <1>1 DEF HistoryInv

LEMMA NothingOpen ==
  ASSUME HistoryInv, phase \notin ToolPhases
  PROVE  Settled(convo, abandoned, FALSE)
  BY DEF HistoryInv, Settled

LEMMA GivenUp ==
  ASSUME NEW msgs, NEW given, NEW open, Settled(msgs, given, open),
         NEW ids, Len(msgs) > 0 => msgs[Len(msgs)].uses = ids
  PROVE  Settled(msgs, given \cup {ids}, FALSE)
<1> SUFFICES ASSUME NEW k \in 1 .. Len(msgs)
             PROVE  Answered(msgs, k) \/ msgs[k].uses \in given \cup {ids}
  BY DEF Settled
<1>1. Answered(msgs, k) \/ msgs[k].uses \in given \/ k = Len(msgs)
  BY DEF Settled
<1>2. CASE k = Len(msgs)
  <2>1. Len(msgs) > 0
    BY <1>2
  <2> QED
    BY <1>2, <2>1
<1> QED
  BY <1>1, <1>2

LEMMA EmptyIds == <<>> \in IdSeqs
  BY DEF IdSeqs

LEMMA InitHistory == Init => HistoryInv
<1> SUFFICES ASSUME Init PROVE HistoryInv
  OBVIOUS
<1>1. convo = <<>> /\ Len(convo) = 0 /\ calls = <<>> /\ phase = "idle" /\ turns = 0
  BY DEF Init
<1>2. <<>> \in Seq(Messages)
  OBVIOUS
<1>3. Shaped(convo)
  BY <1>1, <1>2 DEF Shaped
<1>4. Settled(convo, abandoned, phase \in ToolPhases)
  BY <1>1 DEF Settled
<1> QED
  BY <1>1, <1>3, <1>4, EmptyIds DEF HistoryInv, ToolPhases, Active

(* The run, or the compaction, is over and nothing was appended. *)
LEMMA FinishKeeps ==
  ASSUME HistoryInv, UNCHANGED <<convo, turns, abandoned>>,
         phase \notin ToolPhases, phase' = "idle", calls' = <<>>
  PROVE  HistoryInv'
<1>1. Settled(convo, abandoned, FALSE)
  BY NothingOpen
<1> QED
  BY <1>1, Rests, EmptyIds DEF HistoryInv, ToolPhases, Active

LEMMA RunKeeps == HistoryInv /\ Run => HistoryInv'
<1> SUFFICES ASSUME HistoryInv, Run PROVE HistoryInv'
  OBVIOUS
<1>1. PICK s \in Sizes : convo' = Append(convo, UserMessage(s))
  BY DEF Run
<1>2. s \in Nat
  BY AgentLoopAssumption
<1>3. Shaped(convo) /\ convo \in Seq(Messages)
  BY DEF HistoryInv, Shaped
<1>4. UserMessage(s) \in Messages
  BY <1>2, MessageTypes, EmptyIds
<1>5. UserMessage(s).role = "user" /\ UserMessage(s).uses = <<>> /\ UserMessage(s).results = <<>>
  BY DEF UserMessage
<1>6. Shaped(convo')
  BY <1>1, <1>3, <1>4, <1>5, AppendShaped
<1>7. Settled(convo, abandoned, FALSE)
  <2>1. phase \notin ToolPhases
    BY DEF Run, ToolPhases
  <2> QED
    BY <2>1, NothingOpen
<1>8. Settled(convo', abandoned, FALSE)
  BY <1>1, <1>3, <1>4, <1>5, <1>7, AppendSettled
<1>9. Len(convo') > 0
  BY <1>1, <1>3, <1>4, Appended
<1> QED
  BY <1>6, <1>8, <1>9, Rests DEF HistoryInv, Run, toolVars, ToolPhases

LEMMA EnsureCompactsKeeps == HistoryInv /\ EnsureCompacts => HistoryInv'
<1> SUFFICES ASSUME HistoryInv, EnsureCompacts PROVE HistoryInv'
  OBVIOUS
<1>0. UNCHANGED <<convo, turns, abandoned>> /\ phase = "ensure" /\ phase \notin ToolPhases
  BY DEF EnsureCompacts, ToolPhases
<1>1. CASE CompactionCutPoints(convo) = {}
  BY <1>0, <1>1, FinishKeeps DEF EnsureCompacts, Finish, NoCalls
<1>2. CASE CompactionCutPoints(convo) # {}
  <2>1. /\ \E cut \in CompactionCutPoints(convo) : tailCount' = Len(convo) - cut
        /\ phase' = "summarise" /\ calls' = calls
    BY <1>2 DEF EnsureCompacts, toolVars
  <2>2. Settled(convo, abandoned, FALSE)
    BY <1>0, NothingOpen
  <2>3. Settled(convo', abandoned', phase' \in ToolPhases)
    BY <1>0, <2>1, <2>2 DEF Settled
  <2> QED
    BY <1>0, <2>1, <2>3 DEF HistoryInv, ToolPhases, Active
<1> QED
  BY <1>1, <1>2

(* A summary arrives, for the loop or for /compact. *)
LEMMA SummaryKeeps ==
  ASSUME HistoryInv, phase \in {"summarise", "compact"},
         NEW s \in Sizes, convo' = Summarise(convo, s, tailCount),
         UNCHANGED <<calls, turns, abandoned>>,
         phase' \in {"ensure", "idle"}
  PROVE  HistoryInv'
<1>1. PICK cut \in CompactionCutPoints(convo) : tailCount = Len(convo) - cut
  BY DEF HistoryInv
<1>2. s \in Nat
  BY AgentLoopAssumption
<1>3. Shaped(convo) /\ Settled(convo, abandoned, FALSE)
  <2>1. phase \notin ToolPhases
    BY DEF ToolPhases
  <2> QED
    BY <2>1, NothingOpen DEF HistoryInv
<1>4. Shaped(convo') /\ Settled(convo', abandoned, FALSE) /\ Len(convo') > 0
  BY <1>1, <1>2, <1>3, SummariseKeeps
<1> QED
  BY <1>4, Rests DEF HistoryInv, ToolPhases

LEMMA StreamEndsKeeps == HistoryInv /\ StreamEnds => HistoryInv'
<1> SUFFICES ASSUME HistoryInv, StreamEnds PROVE HistoryInv'
  OBVIOUS
<1>0. phase = "stream" /\ phase \notin ToolPhases /\ Len(convo) > 0 /\ turns \in Nat
  <2>1. phase = "stream"
    BY DEF StreamEnds
  <2> QED
    BY <2>1 DEF ToolPhases, HistoryInv, Active
<1>1. Shaped(convo) /\ Settled(convo, abandoned, FALSE) /\ convo \in Seq(Messages)
  <2>1. Settled(convo, abandoned, FALSE)
    BY <1>0, NothingOpen
  <2> QED
    BY <2>1 DEF HistoryInv, Shaped
<1>2. PICK used \in 0 .. MaxUsage, n \in 0 .. MaxCalls :
        /\ turns' = turns + 1
        /\ \/ /\ BudgetExceeded(used)
              /\ Finish(1)
              /\ UNCHANGED <<convo, abandoned>>
           \/ /\ ~BudgetExceeded(used)
              /\ convo' = Append(convo, AssistantMessage(Ids(n), 1))
              /\ \/ /\ Finish(2)
                    /\ abandoned' = IF n = 0 THEN abandoned ELSE abandoned \cup {Ids(n)}
                 \/ /\ n = 0
                    /\ Finish(2)
                    /\ UNCHANGED abandoned
                 \/ /\ n > 0
                    /\ calls' = Ids(n)
                    /\ decisions' = [i \in 1 .. n |-> "unknown"]
                    /\ phase' = "execute"
                    /\ Emit(1)
                    /\ UNCHANGED <<refused, executed, terminal, abandoned>>
  BY DEF StreamEnds
<1>3. n \in Nat /\ turns' \in Nat
  BY <1>0, <1>2, AgentLoopAssumption
<1>4. Ids(n) \in IdSeqs /\ (n = 0 => Ids(n) = <<>>)
  BY <1>0, <1>3 DEF Ids, IdSeqs
<1> DEFINE m == AssistantMessage(Ids(n), 1)
<1>5. m \in Messages /\ m.uses = Ids(n) /\ m.results = <<>>
  BY <1>4, MessageTypes DEF AssistantMessage
<1>6. ASSUME convo' = Append(convo, m)
      PROVE  /\ Shaped(convo')
             /\ Len(convo') > 0 /\ convo'[Len(convo')].uses = Ids(n)
             /\ Settled(convo', abandoned, TRUE)
             /\ Ids(n) = <<>> => Settled(convo', abandoned, FALSE)
             /\ Settled(convo', abandoned \cup {Ids(n)}, FALSE)
  <2> HIDE DEF m
  <2>1. Shaped(convo')
    BY <1>0, <1>1, <1>5, <1>6, AppendShaped
  <2>2. Len(convo') > 0 /\ convo'[Len(convo')].uses = Ids(n)
    BY <1>1, <1>5, <1>6, Appended
  <2>3. Settled(convo', abandoned, TRUE)
    BY <1>1, <1>5, <1>6, AppendSettled
  <2>4. Ids(n) = <<>> => Settled(convo', abandoned, FALSE)
    BY <1>1, <1>5, <1>6, AppendSettled
  <2>5. Settled(convo', abandoned \cup {Ids(n)}, FALSE)
    BY <2>2, <2>3, GivenUp
  <2> QED
    BY <2>1, <2>2, <2>3, <2>4, <2>5
<1>7. CASE BudgetExceeded(used)
  BY <1>0, <1>1, <1>2, <1>3, <1>7, Rests, EmptyIds DEF HistoryInv, Finish, NoCalls, ToolPhases, Active
<1>8. CASE ~BudgetExceeded(used) /\ Finish(2)
  <2>1. convo' = Append(convo, m) /\ phase' = "idle" /\ calls' = <<>>
    BY <1>2, <1>8 DEF Finish, NoCalls
  <2>2. (abandoned' = abandoned /\ Ids(n) = <<>>) \/ abandoned' = abandoned \cup {Ids(n)}
    BY <1>2, <1>4, <1>8 DEF Finish
  <2>3. Settled(convo', abandoned', FALSE)
    BY <2>1, <2>2, <1>6
  <2> QED
    BY <2>1, <2>3, <1>3, <1>6, Rests, EmptyIds DEF ToolPhases, Active
<1>9. CASE ~BudgetExceeded(used) /\ calls' = Ids(n) /\ phase' = "execute"
           /\ abandoned' = abandoned /\ convo' = Append(convo, m)
  <2>1. Settled(convo', abandoned', phase' \in ToolPhases)
    BY <1>6, <1>9 DEF Settled, ToolPhases
  <2> QED
    BY <2>1, <1>3, <1>4, <1>6, <1>9 DEF HistoryInv
<1> QED
  BY <1>2, <1>7, <1>8, <1>9

LEMMA AbandonKeeps == HistoryInv /\ AbandonBatch => HistoryInv'
<1> SUFFICES ASSUME HistoryInv, AbandonBatch PROVE HistoryInv'
  OBVIOUS
<1>1. /\ phase \in ToolPhases /\ UNCHANGED <<convo, turns>>
      /\ abandoned' = abandoned \cup {calls} /\ phase' = "idle" /\ calls' = <<>>
  BY DEF AbandonBatch, Cancellable, Finish, NoCalls, ToolPhases
<1>2. Settled(convo', abandoned', FALSE)
  BY <1>1, GivenUp DEF HistoryInv
<1> QED
  BY <1>1, <1>2, Rests, EmptyIds DEF HistoryInv, ToolPhases, Active

LEMMA AppendResultsKeeps == HistoryInv /\ AppendResults => HistoryInv'
<1> SUFFICES ASSUME HistoryInv, AppendResults PROVE HistoryInv'
  OBVIOUS
<1>1. PICK s \in Sizes : convo' = Append(convo, ToolResultMessage(calls, s))
  BY DEF AppendResults, Answers
<1>2. s \in Nat /\ calls \in IdSeqs
  BY AgentLoopAssumption DEF HistoryInv
<1> DEFINE m == ToolResultMessage(calls, s)
<1>3. m \in Messages /\ m.role = "user" /\ m.uses = <<>> /\ m.results = calls
  BY <1>2, MessageTypes DEF ToolResultMessage
<1>4. /\ Shaped(convo) /\ convo \in Seq(Messages) /\ Len(convo) > 0
      /\ convo[Len(convo)].uses = calls /\ Settled(convo, abandoned, TRUE)
  BY DEF HistoryInv, Shaped, AppendResults, Active, ToolPhases, Settled
<1> HIDE DEF m
<1>5. convo' = Append(convo, m)
  BY <1>1 DEF m
<1>6. Shaped(convo')
  BY <1>3, <1>4, <1>5, AppendShaped
<1>7. Settled(convo', abandoned, FALSE)
  BY <1>3, <1>4, <1>5, AppendSettled
<1>8. Len(convo') > 0
  BY <1>3, <1>4, <1>5, Appended
<1> QED
  BY <1>6, <1>7, <1>8, Rests, EmptyIds DEF HistoryInv, AppendResults, NoCalls, ToolPhases

LEMMA ClearKeeps == HistoryInv /\ Clear => HistoryInv'
<1> SUFFICES ASSUME HistoryInv, Clear PROVE HistoryInv'
  OBVIOUS
<1>1. /\ convo' = <<>> /\ Len(convo') = 0
      /\ UNCHANGED <<calls, turns, abandoned, phase>> /\ phase = "idle"
  BY DEF Clear, toolVars
<1>2. <<>> \in Seq(Messages)
  OBVIOUS
<1>3. Shaped(convo') /\ Settled(convo', abandoned', FALSE)
  BY <1>1, <1>2 DEF Shaped, Settled
<1> QED
  BY <1>1, <1>3, Rests DEF HistoryInv, ToolPhases, Active

LEMMA StartCompactKeeps == HistoryInv /\ StartCompact => HistoryInv'
<1> SUFFICES ASSUME HistoryInv, StartCompact PROVE HistoryInv'
  OBVIOUS
<1>1. /\ UNCHANGED <<convo, calls, turns, abandoned>> /\ phase = "idle" /\ phase' = "compact"
      /\ \E cut \in CompactionCutPoints(convo) : tailCount' = Len(convo) - cut
  BY DEF StartCompact, toolVars
<1>2. Settled(convo, abandoned, FALSE)
  BY <1>1, NothingOpen DEF ToolPhases
<1>3. Settled(convo', abandoned', phase' \in ToolPhases)
  BY <1>1, <1>2 DEF Settled
<1> QED
  BY <1>1, <1>3 DEF HistoryInv, ToolPhases, Active

LEMMA EndCompactKeeps == HistoryInv /\ EndCompact => HistoryInv'
<1> SUFFICES ASSUME HistoryInv, EndCompact PROVE HistoryInv'
  OBVIOUS
<1>1. phase = "compact" /\ phase' = "idle" /\ UNCHANGED <<calls, turns, abandoned, tailCount>>
  BY DEF EndCompact, toolVars
<1>2. CASE UNCHANGED convo
  BY <1>1, <1>2, SameHistory DEF ToolPhases, Active
<1>3. CASE \E s \in Sizes : convo' = Summarise(convo, s, tailCount)
  BY <1>1, <1>3, SummaryKeeps
<1> QED
  BY <1>2, <1>3 DEF EndCompact

(* The steps between the phases of one response. *)
LEMMA ToolStepKeeps ==
  ASSUME HistoryInv,
         \/ PlanBatch \/ SkipBatch \/ ProposeBatch \/ DecideBatch
         \/ \E i \in CallIdx : Tool(i)
  PROVE  HistoryInv'
<1>1. CASE PlanBatch
  BY <1>1, SameHistory DEF PlanBatch, ToolPhases, Active
<1>2. CASE SkipBatch
  BY <1>2, SameHistory DEF SkipBatch, toolVars, ToolPhases, Active
<1>3. CASE ProposeBatch
  BY <1>3, SameHistory DEF ProposeBatch, toolVars, ToolPhases, Active
<1>4. CASE DecideBatch
  BY <1>4, SameHistory DEF DecideBatch, ToolPhases, Active
<1>5. ASSUME NEW i \in CallIdx, Tool(i) PROVE HistoryInv'
  <2>1. CASE CheckPermission(i)
    BY <2>1, SameHistory DEF CheckPermission, ToolPhases, Active
  <2>2. CASE DenyTool(i)
    BY <2>2, SameHistory DEF DenyTool, ToolPhases, Active
  <2>3. CASE StartTool(i)
    BY <2>3, SameHistory DEF StartTool, ToolPhases, Active
  <2>4. CASE EndTool(i)
    BY <2>4, SameHistory DEF EndTool, ToolPhases, Active
  <2> QED
    BY <1>5, <2>1, <2>2, <2>3, <2>4 DEF Tool
<1> QED
  BY <1>1, <1>2, <1>3, <1>4, <1>5

LEMMA StepHistory == HistoryInv /\ [Next]_vars => HistoryInv'
<1> SUFFICES ASSUME HistoryInv, [Next]_vars PROVE HistoryInv'
  OBVIOUS
<1>1. CASE UNCHANGED vars
  BY <1>1, SameHistory DEF vars, toolVars, Active
<1>2. CASE Run
  BY <1>2, RunKeeps
<1>3. CASE Cancel \/ Consume \/ EmitProgress
  BY <1>3, SameHistory DEF Cancel, Consume, EmitProgress, toolVars, Active
<1>4. CASE EnsureReturns \/ Generate
  BY <1>4, SameHistory DEF EnsureReturns, Generate, toolVars, ToolPhases, Active
<1>5. CASE EnsureFails \/ SummaryFails \/ StreamFails
  BY <1>5, FinishKeeps DEF EnsureFails, SummaryFails, StreamFails, Finish, NoCalls, ToolPhases
<1>6. CASE EnsureCompacts
  BY <1>6, EnsureCompactsKeeps
<1>7. CASE SummaryArrives
  BY <1>7, SummaryKeeps DEF SummaryArrives, toolVars
<1>8. CASE StreamEnds
  BY <1>8, StreamEndsKeeps
<1>9. CASE AbandonBatch
  BY <1>9, AbandonKeeps
<1>10. CASE PlanBatch \/ SkipBatch \/ ProposeBatch \/ DecideBatch \/ \E i \in CallIdx : Tool(i)
  BY <1>10, ToolStepKeeps
<1>11. CASE AppendResults
  BY <1>11, AppendResultsKeeps
<1>12. CASE StartCompact \/ EndCompact \/ Clear
  BY <1>12, StartCompactKeeps, EndCompactKeeps, ClearKeeps
<1> QED
  BY <1>1, <1>2, <1>3, <1>4, <1>5, <1>6, <1>7, <1>8, <1>9, <1>10, <1>11, <1>12
     DEF Next, Compaction, Streaming, Batch, Tools

-----------------------------------------------------------------------------
(* Theorems *)

(* The history is well formed in every reachable state, whatever was
   compacted, interrupted, blocked or cleared. *)
THEOREM HistoryCorrect == Spec => []HistoryInv
  BY InitHistory, StepHistory, PTL DEF Spec

(* Tool results always stand behind the calls they answer. *)
THEOREM ResultsBackedCorrect == Spec => []ResultsBacked
<1>1. HistoryInv => ResultsBacked
  <2> SUFFICES ASSUME HistoryInv, NEW k \in DOMAIN convo PROVE Backed(convo, k)
    BY DEF ResultsBacked
  <2>1. convo \in Seq(Messages)
    BY DEF HistoryInv, Shaped
  <2>2. k \in 1 .. Len(convo)
    BY <2>1
  <2> QED
    BY <2>2 DEF HistoryInv, Shaped
<1> QED
  BY <1>1, HistoryCorrect, PTL

(* A history longer than the tail to keep always has a cut. *)
THEOREM CutExistsCorrect == Spec => []CutExists
<1>1. HistoryInv => CutExists
  BY CutFound DEF HistoryInv, CutExists
<1> QED
  BY <1>1, HistoryCorrect, PTL

(* In a request only calls that were given up are without an answer. *)
THEOREM OnlyAbandonedUnansweredCorrect == Spec => []OnlyAbandonedUnanswered
<1>1. HistoryInv => OnlyAbandonedUnanswered
  <2> SUFFICES ASSUME HistoryInv, phase \in {"request", "stream"}, NEW k \in DOMAIN convo
               PROVE  Answered(convo, k) \/ convo[k].uses \in abandoned
    BY DEF OnlyAbandonedUnanswered
  <2>1. convo \in Seq(Messages)
    BY DEF HistoryInv, Shaped
  <2>2. k \in 1 .. Len(convo)
    BY <2>1
  <2>3. Settled(convo, abandoned, FALSE)
    BY NothingOpen DEF ToolPhases
  <2> QED
    BY <2>2, <2>3 DEF Settled
<1> QED
  BY <1>1, HistoryCorrect, PTL

-----------------------------------------------------------------------------
(* Limits and refusals.  What a refused call may still become, and that a
   call is executed only on its way from running to done. *)

RefusalInv ==
  /\ phase \in ToolPhases => DOMAIN decisions = CallIdx
  /\ phase \notin ToolPhases => refused = {}
  /\ phase # "tools" => executed = {}
  /\ refused \subseteq DOMAIN decisions
  /\ executed \subseteq DOMAIN decisions
  /\ \A i \in refused : decisions[i] \in {"deny", "done"}
  /\ \A i \in executed : decisions[i] = "done"
  /\ executed \cap refused = {}

LEMMA RefusalFinish ==
  ASSUME NoCalls, phase' \notin ToolPhases
  PROVE  RefusalInv'
  BY DEF NoCalls, RefusalInv, ToolPhases

LEMMA RefusalSame ==
  ASSUME RefusalInv, UNCHANGED toolVars,
         (phase' \in ToolPhases) <=> (phase \in ToolPhases),
         phase = "tools" => phase' = "tools"
  PROVE  RefusalInv'
  BY DEF RefusalInv, toolVars, CallIdx, ToolPhases

LEMMA RefusalTool ==
  ASSUME RefusalInv, NEW i \in CallIdx, Tool(i)
  PROVE  RefusalInv'
<1>1. phase = "tools" /\ phase' = "tools" /\ calls' = calls /\ DOMAIN decisions = CallIdx
  BY DEF Tool, CheckPermission, DenyTool, StartTool, EndTool, RefusalInv, ToolPhases
<1>2. PICK d \in {"allow", "deny", "running", "done"} :
        /\ decisions' = [decisions EXCEPT ![i] = d]
        /\ \/ decisions[i] = "unknown" /\ d \in {"allow", "deny"} /\ executed' = executed
              /\ refused' = IF d = "deny" THEN refused \cup {i} ELSE refused
           \/ decisions[i] = "deny" /\ d = "done" /\ UNCHANGED <<refused, executed>>
           \/ decisions[i] = "allow" /\ d = "running" /\ UNCHANGED <<refused, executed>>
           \/ decisions[i] = "running" /\ d = "done" /\ refused' = refused
              /\ executed' \in {executed, executed \cup {i}}
  BY DEF Tool, CheckPermission, DenyTool, StartTool, EndTool
<1>3. /\ DOMAIN decisions' = CallIdx /\ decisions'[i] = d
      /\ \A j \in CallIdx \ {i} : decisions'[j] = decisions[j]
  BY <1>1, <1>2
<1>4. /\ refused' \subseteq CallIdx /\ executed' \subseteq CallIdx
      /\ \A j \in refused' : decisions'[j] \in {"deny", "done"}
      /\ \A j \in executed' : decisions'[j] = "done"
      /\ executed' \cap refused' = {}
  BY <1>1, <1>2, <1>3 DEF RefusalInv
<1> QED
  BY <1>1, <1>3, <1>4 DEF RefusalInv, CallIdx, ToolPhases

LEMMA RefusalStep == RefusalInv /\ [Next]_vars => RefusalInv'
<1> SUFFICES ASSUME RefusalInv, [Next]_vars PROVE RefusalInv'
  OBVIOUS
<1>1. CASE UNCHANGED vars \/ Cancel \/ Consume \/ EmitProgress
  BY <1>1, RefusalSame DEF vars, Cancel, Consume, EmitProgress
<1>2. CASE Run \/ EnsureReturns \/ Generate \/ SummaryArrives
  BY <1>2, RefusalSame DEF Run, EnsureReturns, Generate, SummaryArrives, ToolPhases
<1>3. CASE EnsureFails \/ SummaryFails \/ StreamFails \/ AbandonBatch \/ AppendResults
  BY <1>3, RefusalFinish
     DEF EnsureFails, SummaryFails, StreamFails, AbandonBatch, AppendResults, Finish, ToolPhases
<1>4. CASE EnsureCompacts
  <2>1. phase = "ensure" /\ (Finish(3) \/ (phase' = "summarise" /\ UNCHANGED toolVars))
    BY <1>4 DEF EnsureCompacts
  <2>2. CASE Finish(3)
    BY <2>2, RefusalFinish DEF Finish, ToolPhases
  <2>3. CASE phase' = "summarise" /\ UNCHANGED toolVars
    BY <2>1, <2>3, RefusalSame DEF ToolPhases
  <2> QED
    BY <2>1, <2>2, <2>3
<1>5. CASE StreamEnds
  <2>1. PICK n \in 0 .. MaxCalls :
          \/ Finish(1) \/ Finish(2)
          \/ /\ calls' = Ids(n) /\ decisions' = [i \in 1 .. n |-> "unknown"]
             /\ phase' = "execute" /\ UNCHANGED <<refused, executed>>
    BY <1>5 DEF StreamEnds
  <2>2. CASE Finish(1) \/ Finish(2)
    BY <2>2, RefusalFinish DEF Finish, ToolPhases
  <2>3. CASE /\ calls' = Ids(n) /\ decisions' = [i \in 1 .. n |-> "unknown"]
             /\ phase' = "execute" /\ UNCHANGED <<refused, executed>>
    <3>1. refused' = {} /\ executed' = {}
      BY <1>5, <2>3 DEF StreamEnds, RefusalInv, ToolPhases
    <3> QED
      BY <2>3, <3>1 DEF RefusalInv, CallIdx, Ids, ToolPhases
  <2> QED
    BY <2>1, <2>2, <2>3
<1>6. CASE PlanBatch
  <2>1. PICK d \in [CallIdx -> {"allow", "deny", "ask"}] :
          decisions' = d /\ refused' = {i \in CallIdx : d[i] = "deny"}
    BY <1>6 DEF PlanBatch
  <2>2. calls' = calls /\ executed' = {} /\ phase' \in {"propose", "tools"}
    BY <1>6 DEF PlanBatch, RefusalInv
  <2> QED
    BY <2>1, <2>2 DEF RefusalInv, CallIdx, ToolPhases
<1>7. CASE SkipBatch \/ ProposeBatch
  BY <1>7, RefusalSame DEF SkipBatch, ProposeBatch, ToolPhases
<1>8. CASE DecideBatch
  <2>1. PICK d \in {"allow", "deny"} :
          /\ decisions' = [i \in CallIdx |-> IF decisions[i] = "ask" THEN d ELSE decisions[i]]
          /\ refused' = IF d = "deny" THEN refused \cup {i \in CallIdx : decisions[i] = "ask"}
                                     ELSE refused
    BY <1>8 DEF DecideBatch, ApplyToBatch
  <2>2. /\ calls' = calls /\ executed' = {} /\ phase' = "tools" /\ phase = "batch"
        /\ DOMAIN decisions = CallIdx
    BY <1>8 DEF DecideBatch, RefusalInv, ToolPhases
  <2>3. refused \subseteq CallIdx /\ \A i \in refused : decisions[i] \in {"deny", "done"}
    BY <2>2 DEF RefusalInv
  <2>4. refused' \subseteq CallIdx /\ \A i \in refused' : decisions'[i] \in {"deny", "done"}
    BY <2>1, <2>3
  <2> QED
    BY <2>1, <2>2, <2>4 DEF RefusalInv, CallIdx, ToolPhases
<1>9. CASE \E i \in CallIdx : Tool(i)
  BY <1>9, RefusalTool
<1>10. CASE StartCompact \/ EndCompact \/ Clear
  BY <1>10, RefusalSame DEF StartCompact, EndCompact, Clear, ToolPhases
<1> QED
  BY <1>1, <1>2, <1>3, <1>4, <1>5, <1>6, <1>7, <1>8, <1>9, <1>10
     DEF Next, Compaction, Streaming, Batch, Tools

(* A call that a rule or the user refused is never executed. *)
THEOREM RefusalsHoldCorrect == Spec => []RefusalsHold
<1>1. Init => RefusalInv
  BY DEF Init, RefusalInv, ToolPhases
<1>2. RefusalInv => RefusalsHold
  BY DEF RefusalInv, RefusalsHold
<1> QED
  BY <1>1, <1>2, RefusalStep, PTL DEF Spec

(* No request is larger than the context limit. *)
THEOREM LimitsCorrect == Spec => []RequestsFit
<1>1. Init => RequestsFit
  BY DEF Init, RequestsFit
<1>2. RequestsFit /\ [Next]_vars => RequestsFit'
  <2> SUFFICES ASSUME RequestsFit, [Next]_vars
               PROVE  RequestsFit'
    OBVIOUS
  <2>1. CASE phase' = phase /\ UNCHANGED <<autoCompaction, convo>>
    BY <2>1 DEF RequestsFit, NeedsCompaction
  <2>2. CASE phase' \notin {"request", "stream"}
    BY <2>2 DEF RequestsFit
  <2>3. CASE EnsureReturns \/ Generate
    BY <2>3 DEF EnsureReturns, Generate, ContextReady, config, RequestsFit, NeedsCompaction
  <2> QED
    BY <2>1, <2>2, <2>3
       DEF Next, Compaction, Streaming, Batch, Tools, Tool, vars, config, Run, Cancel, Consume,
           EmitProgress, EnsureFails, EnsureCompacts, SummaryArrives, SummaryFails, StreamFails,
           StreamEnds, Finish, PlanBatch, SkipBatch, ProposeBatch, DecideBatch, AbandonBatch,
           CheckPermission, DenyTool, StartTool, EndTool, AppendResults, StartCompact, EndCompact, Clear
<1> QED
  BY <1>1, <1>2, PTL DEF Spec

-----------------------------------------------------------------------------
(* Types.  The history, the calls and the two sets of calls have theirs from
   HistoryInv and RefusalInv; a round is counted only while rounds are left. *)

CallStates == {"unknown", "ask", "allow", "deny", "running", "done"}

DecisionsTyped == decisions \in [CallIdx -> CallStates]

LoopTyped ==
  /\ planMode \in BOOLEAN /\ autoCompaction \in BOOLEAN
  /\ phase \in Phases
  /\ round \in 0 .. MaxRounds /\ (phase = "summarise" => round < MaxRounds)
  /\ tailCount \in Nat
  /\ totalOutput \in Nat /\ runs \in Nat /\ cancelled \in BOOLEAN
  /\ abandoned \subseteq IdSeqs

ChannelTyped == queued \in 0 .. EventCap /\ terminal \in {"none", "sent", "dropped"}

LEMMA EmitTyped ==
  ASSUME ChannelTyped
  PROVE  /\ \A n \in Nat : Emit(n) => queued' \in 0 .. EventCap
         /\ \A n \in Nat : Finish(n) => ChannelTyped'
         /\ Send => queued' \in 0 .. EventCap
<1>1. queued \in 0 .. EventCap /\ EventCap \in Nat
  BY AgentLoopAssumption DEF ChannelTyped
<1>2. ASSUME NEW n \in Nat, Emit(n) PROVE queued' \in 0 .. EventCap
  BY <1>1, <1>2 DEF Emit
<1>3. ASSUME NEW n \in Nat, Finish(n) PROVE ChannelTyped'
  BY <1>2, <1>3 DEF Finish, EmitTerminal, ChannelTyped
<1>4. Send => queued' \in 0 .. EventCap
  BY <1>1 DEF Send
<1> QED
  BY <1>2, <1>3, <1>4

LEMMA ChannelStep == ChannelTyped /\ [Next]_vars => ChannelTyped'
<1> SUFFICES ASSUME ChannelTyped, [Next]_vars PROVE ChannelTyped'
  OBVIOUS
<1>1. CASE UNCHANGED <<queued, terminal>>
  BY <1>1 DEF ChannelTyped
<1>2. CASE UNCHANGED terminal /\ (Emit(1) \/ Send)
  BY <1>2, EmitTyped DEF ChannelTyped
<1>3. CASE Finish(1) \/ Finish(2) \/ Finish(3)
  BY <1>3, EmitTyped
<1>4. CASE Consume
  BY <1>4, AgentLoopAssumption DEF Consume, ChannelTyped
<1>5. CASE Run
  BY <1>5 DEF Run, ChannelTyped
<1>6. CASE StreamEnds
  <2>1. Finish(1) \/ Finish(2) \/ (Emit(1) /\ UNCHANGED terminal)
    BY <1>6 DEF StreamEnds
  <2> QED
    BY <2>1, <1>2, <1>3
<1>7. CASE \/ Cancel \/ EmitProgress \/ EnsureReturns \/ EnsureFails \/ EnsureCompacts
           \/ SummaryArrives \/ SummaryFails \/ Generate \/ StreamFails
  BY <1>1, <1>2, <1>3, <1>7
     DEF Cancel, EmitProgress, EnsureReturns, EnsureFails, EnsureCompacts, SummaryArrives,
         SummaryFails, Generate, StreamFails
<1>8. CASE \/ PlanBatch \/ SkipBatch \/ ProposeBatch \/ AbandonBatch \/ DecideBatch
           \/ AppendResults \/ StartCompact \/ EndCompact \/ Clear \/ UNCHANGED vars
  BY <1>1, <1>2, <1>3, <1>8
     DEF PlanBatch, SkipBatch, ProposeBatch, AbandonBatch, DecideBatch, AppendResults,
         StartCompact, EndCompact, Clear, vars
<1>9. CASE \E i \in CallIdx : Tool(i)
  BY <1>1, <1>2, <1>9 DEF Tool, CheckPermission, DenyTool, StartTool, EndTool
<1> QED
  BY <1>4, <1>5, <1>6, <1>7, <1>8, <1>9 DEF Next, Compaction, Streaming, Batch, Tools

LEMMA DecisionsStep == DecisionsTyped /\ [Next]_vars => DecisionsTyped'
<1> SUFFICES ASSUME DecisionsTyped, [Next]_vars PROVE DecisionsTyped'
  OBVIOUS
<1>1. CASE UNCHANGED toolVars
  BY <1>1 DEF DecisionsTyped, toolVars, CallIdx
<1>2. CASE NoCalls
  <2>1. decisions' = <<>> /\ DOMAIN calls' = {}
    BY <1>2 DEF NoCalls
  <2> QED
    BY <2>1 DEF DecisionsTyped, CallIdx
<1>3. CASE StreamEnds
  <2>1. PICK n \in 0 .. MaxCalls :
          \/ Finish(1) \/ Finish(2)
          \/ calls' = Ids(n) /\ decisions' = [i \in 1 .. n |-> "unknown"]
    BY <1>3 DEF StreamEnds
  <2>2. CASE calls' = Ids(n) /\ decisions' = [i \in 1 .. n |-> "unknown"]
    BY <2>2 DEF DecisionsTyped, CallIdx, CallStates, Ids
  <2> QED
    BY <1>2, <2>1, <2>2 DEF Finish
<1>4. CASE PlanBatch
  BY <1>4 DEF PlanBatch, DecisionsTyped, CallIdx, CallStates
<1>5. CASE DecideBatch
  <2>1. PICK d \in {"allow", "deny"} : decisions' = ApplyToBatch(d) /\ calls' = calls
    BY <1>5 DEF DecideBatch
  <2> QED
    BY <2>1 DEF ApplyToBatch, DecisionsTyped, CallIdx, CallStates
<1>6. ASSUME NEW i \in CallIdx, Tool(i) PROVE DecisionsTyped'
  <2>1. PICK d \in CallStates : decisions' = [decisions EXCEPT ![i] = d] /\ calls' = calls
    BY <1>6 DEF Tool, CheckPermission, DenyTool, StartTool, EndTool, CallStates
  <2> QED
    BY <2>1 DEF DecisionsTyped, CallIdx
<1>7. CASE UNCHANGED vars
  BY <1>1, <1>7 DEF vars
<1>8. CASE \/ Run \/ Cancel \/ Consume \/ EmitProgress \/ EnsureReturns \/ EnsureFails
           \/ EnsureCompacts \/ SummaryArrives \/ SummaryFails \/ Generate \/ StreamFails
  BY <1>1, <1>2, <1>8
     DEF Run, Cancel, Consume, EmitProgress, EnsureReturns, EnsureFails, EnsureCompacts,
         SummaryArrives, SummaryFails, Generate, StreamFails, Finish
<1>9. CASE \/ SkipBatch \/ ProposeBatch \/ AbandonBatch \/ AppendResults
           \/ StartCompact \/ EndCompact \/ Clear
  BY <1>1, <1>2, <1>9
     DEF SkipBatch, ProposeBatch, AbandonBatch, AppendResults, StartCompact, EndCompact, Clear, Finish
<1> QED
  BY <1>3, <1>4, <1>5, <1>6, <1>7, <1>8, <1>9 DEF Next, Compaction, Streaming, Batch, Tools

LEMMA LoopStep == HistoryInv /\ LoopTyped /\ [Next]_vars => LoopTyped'
<1> SUFFICES ASSUME HistoryInv, LoopTyped, [Next]_vars PROVE LoopTyped'
  OBVIOUS
<1> DEFINE rest == <<config, round, tailCount, totalOutput, runs, cancelled, abandoned>>
<1>1. ASSUME UNCHANGED rest, phase' \in Phases, phase' = "summarise" => phase = "summarise"
      PROVE  LoopTyped'
  BY <1>1 DEF LoopTyped, config
<1>2. Len(convo) \in Nat /\ KeepTail \in Nat /\ calls \in IdSeqs /\ turns \in Nat /\ MaxRounds \in Nat
  BY ConversationAssumption, AgentLoopAssumption, LenProperties DEF HistoryInv, Shaped
<1>3. \A cut \in CompactionCutPoints(convo) : Len(convo) - cut \in Nat
  BY <1>2 DEF CompactionCutPoints
<1>4. CASE Run
  <2>1. /\ runs' = runs + 1 /\ round' = 0 /\ phase' \in {"idle", "ensure"}
        /\ UNCHANGED <<tailCount, totalOutput, abandoned>>
    BY <1>4 DEF Run
  <2>2. cancelled' \in BOOLEAN /\ UNCHANGED config
    BY <1>4 DEF Run
  <2>3. runs' \in Nat /\ round' \in 0 .. MaxRounds
    BY <1>2, <2>1 DEF LoopTyped
  <2> QED
    BY <2>1, <2>2, <2>3 DEF LoopTyped, config, Phases
<1>5. CASE Cancel
  BY <1>5 DEF Cancel, LoopTyped, config
<1>6. CASE EnsureCompacts
  BY <1>2, <1>3, <1>6 DEF EnsureCompacts, RoundsLeft, Finish, LoopTyped, config, Phases
<1>7. CASE SummaryArrives
  <2>1. round' = round + 1 /\ phase = "summarise" /\ phase' = "ensure"
    BY <1>7 DEF SummaryArrives
  <2>2. UNCHANGED <<config, tailCount, totalOutput, runs, cancelled, abandoned>>
    BY <1>7 DEF SummaryArrives
  <2>3. round' \in 0 .. MaxRounds
    BY <1>2, <2>1 DEF LoopTyped
  <2> QED
    BY <2>1, <2>2, <2>3 DEF LoopTyped, config, Phases
<1>8. CASE StreamEnds
  <2>1. PICK used \in 0 .. MaxUsage, n \in 0 .. MaxCalls :
          /\ CountUsage(used)
          /\ abandoned' \in {abandoned, abandoned \cup {Ids(n)}}
          /\ phase' \in {"idle", "execute"}
    BY <1>8 DEF StreamEnds, Finish
  <2>2. Ids(n) \in IdSeqs
    BY <1>2, AgentLoopAssumption DEF Ids, IdSeqs
  <2>3. totalOutput' \in Nat
    BY <2>1, AgentLoopAssumption DEF CountUsage, LoopTyped
  <2>4. UNCHANGED <<config, round, tailCount, runs, cancelled>>
    BY <1>8 DEF StreamEnds
  <2> QED
    BY <2>1, <2>2, <2>3, <2>4 DEF LoopTyped, config, Phases
<1>9. CASE AbandonBatch
  BY <1>2, <1>9 DEF AbandonBatch, Finish, LoopTyped, config, Phases
<1>10. CASE AppendResults
  BY <1>2, <1>10 DEF AppendResults, LoopTyped, config, Phases
<1>11. CASE StartCompact
  BY <1>3, <1>11 DEF StartCompact, LoopTyped, config, Phases
<1>12. CASE \/ Consume \/ EmitProgress \/ EnsureReturns \/ EnsureFails \/ SummaryFails
            \/ Generate \/ StreamFails \/ EndCompact \/ Clear
  <2>1. UNCHANGED rest
    BY <1>12 DEF Consume, EmitProgress, EnsureReturns, EnsureFails, SummaryFails,
                 Generate, StreamFails, EndCompact, Clear
  <2>2. phase' = phase \/ phase' \in {"idle", "request", "stream"}
    BY <1>12 DEF Consume, EmitProgress, EnsureReturns, EnsureFails, SummaryFails,
                 Generate, StreamFails, EndCompact, Clear, Finish
  <2> QED
    BY <1>1, <2>1, <2>2 DEF LoopTyped, Phases
<1>13. CASE PlanBatch \/ SkipBatch \/ ProposeBatch \/ DecideBatch \/ UNCHANGED vars
  <2>1. UNCHANGED rest
    BY <1>13 DEF PlanBatch, SkipBatch, ProposeBatch, DecideBatch, vars
  <2>2. phase' = phase \/ phase' \in {"propose", "batch", "tools"}
    BY <1>13 DEF PlanBatch, SkipBatch, ProposeBatch, DecideBatch, vars
  <2> QED
    BY <1>1, <2>1, <2>2 DEF LoopTyped, Phases
<1>14. CASE \E i \in CallIdx : Tool(i)
  <2>1. UNCHANGED rest /\ phase' = phase
    BY <1>14 DEF Tool, CheckPermission, DenyTool, StartTool, EndTool
  <2> QED
    BY <1>1, <2>1 DEF LoopTyped
<1> QED
  BY <1>4, <1>5, <1>6, <1>7, <1>8, <1>9, <1>10, <1>11, <1>12, <1>13, <1>14
     DEF Next, Compaction, Streaming, Batch, Tools

(* Every variable of the loop keeps its type: compaction stays within its
   rounds, the channel within its capacity, and the sets of refused and
   executed calls within the calls of the response. *)
THEOREM TypeOKCorrect == Spec => []TypeOK
<1>1. Init => DecisionsTyped /\ LoopTyped /\ ChannelTyped /\ RefusalInv
  <2> SUFFICES ASSUME Init PROVE DecisionsTyped /\ LoopTyped /\ ChannelTyped /\ RefusalInv
    OBVIOUS
  <2>1. DecisionsTyped
    <3>1. decisions = <<>> /\ DOMAIN calls = {}
      BY DEF Init
    <3> QED
      BY <3>1 DEF DecisionsTyped, CallIdx
  <2>2. planMode \in BOOLEAN /\ autoCompaction \in BOOLEAN /\ cancelled \in BOOLEAN
    BY DEF Init
  <2>3. ChannelTyped /\ round \in 0 .. MaxRounds
    BY AgentLoopAssumption DEF Init, ChannelTyped
  <2>4. LoopTyped
    BY <2>2, <2>3 DEF Init, LoopTyped, Phases
  <2>5. RefusalInv
    BY DEF Init, RefusalInv, ToolPhases
  <2> QED
    BY <2>1, <2>3, <2>4, <2>5
<1>2. HistoryInv /\ DecisionsTyped /\ LoopTyped /\ ChannelTyped /\ RefusalInv => TypeOK
  BY DEF HistoryInv, Shaped, DecisionsTyped, LoopTyped, ChannelTyped, RefusalInv, TypeOK, CallStates
<1> QED
  BY <1>1, <1>2, HistoryCorrect, DecisionsStep, LoopStep, ChannelStep, RefusalStep, PTL DEF Spec
=============================================================================
