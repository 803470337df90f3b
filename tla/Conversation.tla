---------------------------- MODULE Conversation ----------------------------
(***************************************************************************)
(* The conversation history of convo.Manager: the messages, what the model *)
(* provider requires of them, and the place where a prefix of them may be  *)
(* cut off and replaced by a summary.                                      *)
(*                                                                         *)
(* A message keeps what compaction and the pairing rule look at: its role, *)
(* the ids of its tool_use blocks, the ids its tool_result blocks answer,  *)
(* and its estimated size.  Text is left out.                              *)
(***************************************************************************)
EXTENDS Integers, Sequences
LOCAL INSTANCE Functions

CONSTANT KeepTail   \* compactionKeepTail: messages a compaction must keep

ASSUME ConversationAssumption == KeepTail \in Nat \ {0}

UserMessage(size) == [role |-> "user", uses |-> <<>>, results |-> <<>>, size |-> size]
AssistantMessage(ids, size) == [role |-> "assistant", uses |-> ids, results |-> <<>>, size |-> size]
ToolResultMessage(ids, size) == [role |-> "user", uses |-> <<>>, results |-> ids, size |-> size]

EstimatedTokens(msgs) == FoldFunction(LAMBDA m, n : n + m.size, 0, msgs)

(* A tail may not begin with a user message that carries tool results. *)
TailStartsWithOrphanToolResults(msgs, cut) ==
  /\ msgs[cut + 1].role = "user"
  /\ msgs[cut + 1].results # <<>>

(* Faults: the cut is not moved back, or is given up one place too early. *)
NoMoveBack(msgs) == IF Len(msgs) > KeepTail THEN {Len(msgs) - KeepTail} ELSE {}
NotTheFirst(msgs) ==
  {cut \in 2 .. Len(msgs) - KeepTail :
     /\ ~TailStartsWithOrphanToolResults(msgs, cut)
     /\ \A c \in cut + 1 .. Len(msgs) - KeepTail : TailStartsWithOrphanToolResults(msgs, c)}

(* CompactionCutPoint as the set of its answers: the loop moves the cut back
   to the largest one that starts no orphan tail, and reaching 0 is an error,
   here the empty set. *)
CompactionCutPoints(msgs) ==
  {cut \in 1 .. Len(msgs) - KeepTail :
     /\ ~TailStartsWithOrphanToolResults(msgs, cut)
     /\ \A c \in cut + 1 .. Len(msgs) - KeepTail : TailStartsWithOrphanToolResults(msgs, c)}

Summarise(msgs, size, tailCount) ==
  IF Len(msgs) <= tailCount THEN msgs
  ELSE <<UserMessage(size)>> \o SubSeq(msgs, Len(msgs) - tailCount + 1, Len(msgs))

-----------------------------------------------------------------------------
(* The provider's two rules about tool calls. *)

(* Tool results directly follow the assistant message that asked for them. *)
Backed(msgs, k) == msgs[k].results # <<>> => k > 1 /\ msgs[k].results = msgs[k - 1].uses

(* Tool calls are directly followed by their results, all of them, in order. *)
Answered(msgs, k) ==
  msgs[k].uses # <<>> => k < Len(msgs) /\ msgs[k].uses = msgs[k + 1].results
=============================================================================
