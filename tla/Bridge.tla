------------------------------- MODULE Bridge -------------------------------
(***************************************************************************)
(* The JSON-RPC bridge of the IDE mode: a loop reads framed messages from  *)
(* standard input and starts a goroutine per message it has a handler for; *)
(* all of them write frames to standard output, under wMu, and every       *)
(* drover/execute runs an agent loop of its own over the one conversation  *)
(* of the process.  When the reading loop returns the process ends, now or *)
(* later, whatever the handlers are doing.  Request, which nothing in the  *)
(* program calls, and the responses it waits for are left out.             *)
(***************************************************************************)
EXTENDS Naturals, Sequences, FiniteSets

CONSTANTS
  Inbox,     \* what the client sends, in order: a sequence of the records below
  MaxTurns   \* bound: model turns of one execution

(* id: the message has one; sound: it can be parsed, and its parameters too. *)
Received ==
  [method : {"initialize", "ping", "drover/execute", "other"}, id : BOOLEAN,
   sound : {"yes", "params", "no"}]

ASSUME BridgeAssumption == Inbox \in Seq(Received) /\ MaxTurns \in Nat \ {0}

Sent == DOMAIN Inbox

VARIABLES
  inRead,    \* messages read
  reading,   \* Run has not returned
  handler,   \* where the handling of each message is
  turns,     \* model turns of each execution
  wMu,       \* the message whose reply holds wMu, or 0
  wire,      \* what has been written: halves of frames
  dialogue,  \* the messages of the shared conversation, with the execution they come from
  overlapped \* history variable: executions that were under way together

bridgeVars == <<inRead, reading, handler, turns, wMu, wire, dialogue, overlapped>>

Executing == {n \in Sent : handler[n] \in {"infer", "tools"}}
Entry(n, kind) == [by |-> n, kind |-> kind]

BridgeInit ==
  /\ inRead = 0 /\ reading = TRUE /\ handler = [n \in Sent |-> "unread"]
  /\ turns = [n \in Sent |-> 0] /\ wMu = 0 /\ wire = <<>> /\ dialogue = <<>> /\ overlapped = {}

HandlerTo(n, step) == handler' = [handler EXCEPT ![n] = step]

(* A method without a handler is answered by the reading loop itself, which
   reads on when the answer is written; a message without an id is not answered. *)
Loop(n) == Inbox[n].method = "other"
ReadNext ==
  /\ reading /\ inRead < Len(Inbox)
  /\ inRead > 0 => ~(Loop(inRead) /\ handler[inRead] \in {"reply", "header"})
  /\ inRead' = inRead + 1
  /\ LET n == inRead + 1 IN
     IF Inbox[n].sound = "no"
     THEN reading' = FALSE /\ UNCHANGED handler
     ELSE /\ UNCHANGED reading
          /\ HandlerTo(n, IF ~Inbox[n].id THEN "done"
                          ELSE IF Inbox[n].method = "drover/execute" /\ Inbox[n].sound = "yes" THEN "start"
                          ELSE "reply")
  /\ UNCHANGED <<turns, wMu, wire, dialogue, overlapped>>

(* End of the input, a cancelled context or a message that cannot be read. *)
Return ==
  /\ reading /\ reading' = FALSE
  /\ UNCHANGED <<inRead, handler, turns, wMu, wire, dialogue, overlapped>>

(* Loop.Run appends the input. *)
StartLoop(n) ==
  /\ handler[n] = "start" /\ HandlerTo(n, "infer")
  /\ dialogue' = Append(dialogue, Entry(n, "input"))
  /\ overlapped' = IF Executing = {} THEN overlapped ELSE overlapped \cup Executing \cup {n}
  /\ UNCHANGED <<inRead, reading, turns, wMu, wire>>

(* A response is appended when it has ended; one that fails leaves nothing. *)
Infer(n) ==
  /\ handler[n] = "infer"
  /\ turns' = [turns EXCEPT ![n] = @ + 1]
  /\ \/ HandlerTo(n, "reply") /\ dialogue' \in {dialogue, Append(dialogue, Entry(n, "text"))}
     \/ /\ turns[n] < MaxTurns - 1
        /\ HandlerTo(n, "tools") /\ dialogue' = Append(dialogue, Entry(n, "uses"))
  /\ UNCHANGED <<inRead, reading, wMu, wire, overlapped>>

(* A call that could not be run ends the loop without its results. *)
UseTools(n) ==
  /\ handler[n] = "tools"
  /\ \/ HandlerTo(n, "infer") /\ dialogue' = Append(dialogue, Entry(n, "results"))
     \/ HandlerTo(n, "reply") /\ UNCHANGED dialogue
  /\ UNCHANGED <<inRead, reading, turns, wMu, wire, overlapped>>

(* Fault: Send does not take wMu. *)
SendAtOnce(n) ==
  /\ handler[n] = "reply" /\ HandlerTo(n, "header")
  /\ wMu' = n /\ wire' = Append(wire, Entry(n, "header"))
  /\ UNCHANGED <<inRead, reading, turns, dialogue, overlapped>>

(* Send: two writes under wMu. *)
SendHeader(n) ==
  /\ handler[n] = "reply" /\ wMu = 0
  /\ HandlerTo(n, "header") /\ wMu' = n /\ wire' = Append(wire, Entry(n, "header"))
  /\ UNCHANGED <<inRead, reading, turns, dialogue, overlapped>>

SendBody(n) ==
  /\ handler[n] = "header"
  /\ HandlerTo(n, "done") /\ wMu' = 0 /\ wire' = Append(wire, Entry(n, "body"))
  /\ UNCHANGED <<inRead, reading, turns, dialogue, overlapped>>

HandlerStep(n) == StartLoop(n) \/ Infer(n) \/ UseTools(n) \/ SendHeader(n) \/ SendBody(n)

BridgeNext == ReadNext \/ Return \/ \E n \in Sent : HandlerStep(n)

BridgeSpec == BridgeInit /\ [][BridgeNext]_bridgeVars

-----------------------------------------------------------------------------
BridgeTypeOK ==
  /\ inRead \in 0 .. Len(Inbox) /\ reading \in BOOLEAN
  /\ handler \in [Sent -> {"unread", "start", "infer", "tools", "reply", "header", "done"}]
  /\ turns \in [Sent -> 0 .. MaxTurns] /\ wMu \in Sent \cup {0}
  /\ \A i \in DOMAIN wire : wire[i].by \in Sent /\ wire[i].kind \in {"header", "body"}
  /\ \A i \in DOMAIN dialogue : dialogue[i].by \in Sent /\ dialogue[i].kind \in {"input", "text", "uses", "results"}
  /\ overlapped \subseteq Sent

(* The client can take the output apart: every header is directly followed by
   its own body, and a message with an id is answered once, also when several
   handlers and the reading loop answer at the same time. *)
FramesWhole ==
  /\ \A i \in DOMAIN wire :
       IF i % 2 = 1 THEN wire[i].kind = "header"
                    ELSE wire[i] = Entry(wire[i - 1].by, "body")
  /\ \A n \in Sent : Cardinality({i \in DOMAIN wire : wire[i] = Entry(n, "body")}) =
                       IF handler[n] = "done" /\ Inbox[n].id THEN 1 ELSE 0

(* Loop.Run's "the caller should not send another input until Run returns" is
   left to the client: the results of tool calls directly follow the calls
   they answer, as the provider demands, as long as no execution was
   started while another one ran. *)
ResultsApartOnlyByOverlap ==
  \A i \in DOMAIN dialogue :
    dialogue[i].kind = "results" =>
      \/ i > 1 /\ dialogue[i - 1] = Entry(dialogue[i].by, "uses")
      \/ dialogue[i].by \in overlapped
=============================================================================
