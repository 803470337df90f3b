----------------------------- MODULE ModelStream -----------------------------
(***************************************************************************)
(* One request to the model: StreamMessage asks again while the provider   *)
(* answers 429, Stream reads the events of the response from the body, and *)
(* the driver's goroutine gathers their deltas into blocks, which the loop *)
(* takes from a channel.  The body may end early, with or without an       *)
(* error; events the parser does not know, and blocks of a kind it does    *)
(* not know, are passed over.                                              *)
(***************************************************************************)
EXTENDS Naturals, Sequences, FiniteSets

CONSTANTS
  Responses,   \* what the provider may answer: sequences of events, in which a block
               \* ends before another of the same index begins
  MaxAttempts, \* maxStream429Attempts
  ChannelCap   \* capacity of the driver's channel

Kinds == {"text", "tool", "thinking"}
Known == {"text", "tool"}
Indexes == 0 .. 1

(* index and kind are those of the event's block, where it has one. *)
Events ==
  [type : {"start", "delta", "stop", "ping", "usage", "message_stop", "error", "garbled"},
   index : Indexes, kind : Kinds]

ASSUME ModelStreamAssumption ==
  /\ Responses \subseteq Seq(Events)
  /\ MaxAttempts \in Nat \ {0} /\ ChannelCap \in Nat \ {0}

VARIABLES
  answer,   \* what the loop has: asking, pausing, streaming, complete or failed
  attempts, \* requests made
  response, \* what the provider answers
  seen,     \* its events that Stream has read
  driver,   \* the driver's goroutine: off, reading, ended, failing or gone
  accs,     \* textAccs and toolAccs: the open blocks
  channel,  \* what the driver has sent and the loop has not taken
  blocks,   \* streamResponse's blocks
  cutShort  \* history variable: the body came to its end before message_stop, without an error

streamVars == <<answer, attempts, response, seen, driver, accs, channel, blocks, cutShort>>

Closed == [kind |-> "closed", deltas |-> {}]
Block(acc) == [kind |-> acc.kind, deltas |-> acc.deltas]
TurnCompleted == [kind |-> "completed", deltas |-> {}]
InferenceError == [kind |-> "error", deltas |-> {}]

StreamInit ==
  /\ answer = "asking" /\ attempts = 0 /\ response \in Responses /\ seen = 0
  /\ driver = "off" /\ accs = [i \in Indexes |-> Closed] /\ channel = <<>> /\ blocks = <<>>
  /\ cutShort = FALSE

-----------------------------------------------------------------------------
(* StreamMessage *)

(* A request that is accepted, is refused, or is one too many for now. *)
Ask ==
  /\ answer = "asking" /\ attempts' = attempts + 1
  /\ \/ answer' = "streaming" /\ driver' = "reading"
     \/ answer' = "failed" /\ UNCHANGED driver
     \/ answer' = (IF attempts' = MaxAttempts THEN "failed" ELSE "pausing") /\ UNCHANGED driver
  /\ UNCHANGED <<response, seen, accs, channel, blocks, cutShort>>

(* The delay passes, or the run's context ends first. *)
Pause ==
  /\ answer = "pausing" /\ answer' \in {"asking", "failed"}
  /\ UNCHANGED <<attempts, response, seen, driver, accs, channel, blocks, cutShort>>

-----------------------------------------------------------------------------
(* Stream.Next, parseEvent and the driver's goroutine *)

Upcoming == response[seen + 1]
Reading == driver = "reading" /\ seen < Len(response)
CanSend == Len(channel) < ChannelCap
OpenBlock == accs[Upcoming.index] # Closed

(* Events that only change the driver's own records. *)
ReadStart ==
  /\ Reading /\ Upcoming.type = "start" /\ Upcoming.kind \in Known
  /\ accs' = [accs EXCEPT ![Upcoming.index] = [kind |-> Upcoming.kind, deltas |-> {}]]
  /\ seen' = seen + 1
  /\ UNCHANGED <<answer, attempts, response, driver, channel, blocks, cutShort>>

ReadDelta ==
  /\ Reading /\ Upcoming.type = "delta" /\ OpenBlock
  /\ accs' = [accs EXCEPT ![Upcoming.index].deltas = @ \cup {seen + 1}]
  /\ seen' = seen + 1
  /\ UNCHANGED <<answer, attempts, response, driver, channel, blocks, cutShort>>

(* message_start, ping, usage, unknown events and blocks, deltas of no open block. *)
SkipEvent ==
  /\ Reading
  /\ \/ Upcoming.type \in {"ping", "usage"}
     \/ Upcoming.type = "start" /\ Upcoming.kind \notin Known
     \/ Upcoming.type \in {"delta", "stop"} /\ ~OpenBlock
  /\ seen' = seen + 1
  /\ UNCHANGED <<answer, attempts, response, driver, accs, channel, blocks, cutShort>>

(* A block is sent when its end is read. *)
ReadStop ==
  /\ Reading /\ Upcoming.type = "stop" /\ OpenBlock /\ CanSend
  /\ channel' = Append(channel, Block(accs[Upcoming.index]))
  /\ accs' = [accs EXCEPT ![Upcoming.index] = Closed]
  /\ seen' = seen + 1
  /\ UNCHANGED <<answer, attempts, response, driver, blocks, cutShort>>

ReadMessageStop ==
  /\ Reading /\ Upcoming.type = "message_stop"
  /\ seen' = seen + 1 /\ driver' = "ended"
  /\ UNCHANGED <<answer, attempts, response, accs, channel, blocks, cutShort>>

(* Fault: an error event is passed over like an unknown one. *)
ReadErrorSkipped ==
  /\ Reading /\ Upcoming.type \in {"error", "garbled"}
  /\ seen' = seen + 1 /\ driver' = "ended"
  /\ UNCHANGED <<answer, attempts, response, accs, channel, blocks, cutShort>>

ReadError ==
  /\ Reading /\ Upcoming.type \in {"error", "garbled"}
  /\ seen' = seen + 1 /\ driver' = "failing"
  /\ UNCHANGED <<answer, attempts, response, accs, channel, blocks, cutShort>>

(* The body ends: cleanly, which counts as the end of the response, or with an
   error, which the time limit or a cancelled context also is. *)
BodyEnds ==
  /\ driver = "reading"
  /\ \/ driver' = "ended" /\ cutShort' = TRUE
     \/ driver' = "failing" /\ UNCHANGED cutShort
  /\ UNCHANGED <<answer, attempts, response, seen, accs, channel, blocks>>

(* Blocks that are still open are dropped. *)
DriverEnds ==
  /\ driver \in {"ended", "failing"} /\ CanSend /\ driver' = "gone"
  /\ channel' = Append(channel, IF driver = "ended" THEN TurnCompleted ELSE InferenceError)
  /\ UNCHANGED <<answer, attempts, response, seen, accs, blocks, cutShort>>

-----------------------------------------------------------------------------
(* streamResponse: an error comes last, and with it the blocks are given up. *)
Take ==
  /\ channel # <<>> /\ channel' = Tail(channel)
  /\ CASE Head(channel) = TurnCompleted -> answer' = "complete" /\ UNCHANGED blocks
       [] Head(channel) = InferenceError -> answer' = "failed" /\ blocks' = <<>>
       [] OTHER -> blocks' = Append(blocks, Head(channel)) /\ UNCHANGED answer
  /\ UNCHANGED <<attempts, response, seen, driver, accs, cutShort>>

ReadStep ==
  \/ ReadStart \/ ReadDelta \/ SkipEvent \/ ReadStop \/ ReadMessageStop \/ ReadError
  \/ BodyEnds

StreamNext == Ask \/ Pause \/ ReadStep \/ DriverEnds \/ Take

StreamSpec == StreamInit /\ [][StreamNext]_streamVars

-----------------------------------------------------------------------------
StreamTypeOK ==
  /\ answer \in {"asking", "pausing", "streaming", "complete", "failed"}
  /\ attempts \in 0 .. MaxAttempts /\ response \in Responses /\ seen \in 0 .. Len(response)
  /\ driver \in {"off", "reading", "ended", "failing", "gone"}
  /\ \A i \in Indexes : accs[i] = Closed \/ (accs[i].kind \in Known /\ accs[i].deltas \subseteq 1 .. seen)
  /\ Len(channel) <= ChannelCap /\ cutShort \in BOOLEAN

(* The blocks of a response r, said of its events alone: Begins, that the
   block of index i which event k belongs to, or ends, started with event from. *)
Starts(r, from, i) == r[from].type = "start" /\ r[from].kind \in Known /\ r[from].index = i
Stops(r, k, i) == r[k].type = "stop" /\ r[k].index = i
Begins(r, from, k, i) ==
  Starts(r, from, i) /\ \A m \in from + 1 .. k - 1 : ~Starts(r, m, i) /\ ~Stops(r, m, i)

Ends(r, upTo) ==
  {k \in 1 .. upTo : \E i \in Indexes : Stops(r, k, i) /\ \E from \in 1 .. k - 1 : Begins(r, from, k, i)}

DeltasBetween(r, from, k, i) == {m \in from + 1 .. k - 1 : r[m].type = "delta" /\ r[m].index = i}
BlockBetween(r, from, k, i) == [kind |-> r[from].kind, deltas |-> DeltasBetween(r, from, k, i)]

(* One for each end of a block of a known kind, with every delta since that
   block's start, at its place among the ends. *)
AreReceived(bs, r, upTo) ==
  /\ Len(bs) = Cardinality(Ends(r, upTo))
  /\ \A k \in Ends(r, upTo), i \in Indexes : \A from \in 1 .. k - 1 :
       Stops(r, k, i) /\ Begins(r, from, k, i) =>
         bs[Cardinality({m \in Ends(r, upTo) : m <= k})] = BlockBetween(r, from, k, i)

(* A response that the loop records holds exactly the blocks that arrived
   whole, in the order of their ends; it is the provider's whole response
   unless the connection was closed before message_stop without an error. *)
ResponseWhole ==
  answer = "complete" =>
    /\ AreReceived(blocks, response, seen)
    /\ \A k \in 1 .. seen : response[k].type \notin {"error", "garbled"}
    /\ cutShort \/ \E k \in 1 .. seen : response[k].type = "message_stop"
=============================================================================
