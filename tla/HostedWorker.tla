---------------------------- MODULE HostedWorker ----------------------------
(***************************************************************************)
(* One run of a worker on behalf of a hosting service (hostedworker.Run):  *)
(* it creates an instance, runs the worker contract on it and deletes it   *)
(* whatever happened.  The caller may end its context at any time; the     *)
(* cleanup has a context of its own, with a deadline.  Deletions and the   *)
(* stop request may fail, take effect with the answer lost, or hang until  *)
(* their context ends.                                                     *)
(***************************************************************************)
EXTENDS Naturals, Sequences

CONSTANT MaxTries             \* const maxAttempts of cleanupInstance

ASSUME TriesAssumption == MaxTries \in Nat \ {0}

VARIABLES
  hosted,        \* where Run is
  callerLive,   \* ctx.Err() == nil of the caller's context
  cleanupLive,  \* the same of the 30 s context of the cleanup
  instanceUp,   \* the instance exists
  replyLost,    \* history: CreateInstance failed though an instance exists
  round,        \* 1: tryDelete before the stop; 2: after it
  attempt,      \* of tryDelete, from 1
  refused,      \* history: deletions that returned an error
  contract      \* the outcome of RunContract

hostedVars == <<hosted, callerLive, cleanupLive, instanceUp, replyLost, round,
                attempt, refused, contract>>

ContractSteps == <<"health", "upload", "exec", "download">>

HostedStages == {"create", "resolve", "clear", "delete", "pause", "stop",
           "settle", "returned"} \cup {ContractSteps[i] : i \in 1..4}

HostedTypeOK ==
  /\ hosted \in HostedStages
  /\ {callerLive, cleanupLive, instanceUp, replyLost} \subseteq BOOLEAN
  /\ round \in 1..2 /\ attempt \in 1..MaxTries
  /\ refused \in 0..(2 * MaxTries)
  /\ contract \in {"none", "ok", "error"}

HostedInit ==
  /\ hosted = "create" /\ callerLive = TRUE /\ cleanupLive = TRUE
  /\ instanceUp = FALSE /\ replyLost = FALSE
  /\ round = 1 /\ attempt = 1 /\ refused = 0
  /\ contract = "none"

(* The caller cancels the run, or its deadline passes. *)
CallerEnds ==
  /\ hosted # "returned" /\ callerLive
  /\ callerLive' = FALSE
  /\ UNCHANGED <<hosted, cleanupLive, instanceUp, replyLost, round, attempt,
                 refused, contract>>

(* The 30 seconds of the cleanup are over. *)
CleanupExpires ==
  /\ hosted \in {"delete", "pause", "stop", "settle"} /\ cleanupLive
  /\ cleanupLive' = FALSE
  /\ UNCHANGED <<hosted, callerLive, instanceUp, replyLost, round, attempt,
                 refused, contract>>

(* CreateInstance: an instance, none, or one whose answer does not arrive. *)
CreateHosted ==
  /\ hosted = "create"
  /\ \E made \in BOOLEAN, answered \in BOOLEAN :
       /\ made => callerLive
       /\ answered => made
       /\ instanceUp' = made
       /\ replyLost' = (made /\ ~answered)
       /\ hosted' = IF answered THEN "resolve" ELSE "returned"
  /\ UNCHANGED <<callerLive, cleanupLive, round, attempt, refused, contract>>

(* The address, from the answer, its service group or the names: without   *)
(* one Run returns.                                                        *)
ResolveHosted ==
  /\ hosted = "resolve"
  /\ hosted' \in {"clear", "delete"}
  /\ UNCHANGED <<callerLive, cleanupLive, instanceUp, replyLost, round, attempt,
                 refused, contract>>

(* os.RemoveAll(DownloadDir): the earlier result is gone from here on. *)
ClearDownload ==
  /\ hosted = "clear"
  /\ hosted' = "health"
  /\ UNCHANGED <<callerLive, cleanupLive, instanceUp, replyLost, round, attempt,
                 refused, contract>>

(* One step of RunContract: it succeeds, or fails and ends the contract. An *)
(* ended context fails every step; a download is made only when asked for. Then Run       *)
(* announces the instance as destroyed and returns, which runs the cleanup. *)
ContractStep ==
  \E i \in 1..4 :
    /\ hosted = ContractSteps[i]
    /\ \/ /\ callerLive
          /\ hosted' = IF i = 4 THEN "delete" ELSE ContractSteps[i + 1]
          /\ contract' = IF i = 4 THEN "ok" ELSE contract
       \/ /\ i = 3 /\ callerLive          \* no DownloadDir
          /\ hosted' = "delete" /\ contract' = "ok"
       \/ hosted' = "delete" /\ contract' = "error"
    /\ UNCHANGED <<callerLive, cleanupLive, instanceUp, replyLost, round,
                   attempt, refused>>

CleanupContextOfCaller == callerLive

(* The context the cleanup looks at, and passes to its requests. *)
CleanupContext == cleanupLive

(* One DeleteInstance of tryDelete. *)
TryDelete ==
  /\ hosted = "delete"
  /\ \/ /\ CleanupContext
        /\ instanceUp' = FALSE
        /\ \/ hosted' = "returned" /\ UNCHANGED refused
           \/ hosted' = "pause" /\ refused' = refused + 1
     \/ /\ CleanupContext
        /\ hosted' = "pause" /\ refused' = refused + 1
        /\ UNCHANGED instanceUp
     \/ /\ ~CleanupContext
        /\ hosted' = "pause" /\ UNCHANGED <<instanceUp, refused>>
  /\ UNCHANGED <<callerLive, cleanupLive, replyLost, round, attempt,
                 contract>>

(* The wait after a failed attempt: the next attempt, or the end of the round; *)
(* an ended context ends the round at once.                                  *)
PauseDelete ==
  /\ hosted = "pause"
  /\ \/ /\ CleanupContext /\ attempt < MaxTries
        /\ hosted' = "delete" /\ attempt' = attempt + 1
     \/ /\ attempt = MaxTries \/ ~CleanupContext
        /\ hosted' = IF round = 1 THEN "stop" ELSE "returned"
        /\ UNCHANGED attempt
  /\ UNCHANGED <<callerLive, cleanupLive, instanceUp, replyLost, round, refused, contract>>

(* StopInstance, whose error is ignored. *)
StopHosted ==
  /\ hosted = "stop"
  /\ hosted' = "settle"
  /\ UNCHANGED <<callerLive, cleanupLive, instanceUp, replyLost, round, attempt,
                 refused, contract>>

(* The settle time, then the second round unless the context ended. *)
Settle ==
  /\ hosted = "settle"
  /\ IF CleanupContext
     THEN hosted' = "delete" /\ round' = 2 /\ attempt' = 1
     ELSE hosted' = "returned" /\ UNCHANGED <<round, attempt>>
  /\ UNCHANGED <<callerLive, cleanupLive, instanceUp, replyLost, refused, contract>>

HostedNext ==
  \/ CallerEnds \/ CleanupExpires \/ CreateHosted \/ ResolveHosted
  \/ ClearDownload \/ ContractStep \/ TryDelete
  \/ PauseDelete \/ StopHosted \/ Settle

HostedSpec == HostedInit /\ [][HostedNext]_hostedVars

-----------------------------------------------------------------------------
(* A run that returned left no instance behind, however and whenever its   *)
(* caller gave up, unless the creation's answer was lost, every deletion of *)
(* both rounds was refused, or the cleanup ran out of its own time          *)
(* (cleanupInstance and its deferred call, run.go).                         *)
HostedGone ==
  hosted = "returned" /\ instanceUp =>
    replyLost \/ refused = 2 * MaxTries \/ ~cleanupLive
=============================================================================
