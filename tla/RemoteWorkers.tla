---------------------------- MODULE RemoteWorkers ----------------------------
(***************************************************************************)
(* Coordinator mode with remote workers: several drover-code processes of  *)
(* one user, each of which first deletes the worker instances that crashed *)
(* processes left behind, then runs its subtasks, each on an instance of   *)
(* its own that it creates, registers, uses, unregisters and destroys.     *)
(*                                                                         *)
(* The processes share the cloud account and one file of active jobs,      *)
(* which is read and rewritten without a lock: every read, every write and *)
(* every call to the cloud is an action of its own, and a process may die  *)
(* between any two of them.  An instance, its entry in the file and its    *)
(* worker goroutine go by the name of the job.  Process ids are not reused.*)
(***************************************************************************)
EXTENDS Integers, FiniteSets

CONSTANTS
  Clients,        \* the drover-code processes
  Jobs,           \* the subtasks of all processes
  ClientOf,       \* the process of each subtask
  MaxWorkers,     \* Coordinator.MaxWorkers
  RuntimeAccepts  \* the image's runtime takes the token that Provision stores

ASSUME RemoteWorkersAssumption ==
  /\ ClientOf \in [Jobs -> Clients]
  /\ MaxWorkers \in Nat \ {0}
  /\ RuntimeAccepts \in BOOLEAN
  /\ IsFiniteSet(Jobs)

VARIABLES
  phase,      \* where executeWorkers is; crashed when the process is gone
  cancelled,  \* the context of executeWorkers, or its errgroup's, has ended
  listed,     \* instances the reconciliation has listed
  unseen,     \* those it has not examined yet
  active,     \* its copy of the file
  dead,       \* history variable: those whose process was dead when listed
  cloud,      \* instances: none, live, deleted
  file,       \* the entries of the active-jobs file
  step,       \* where runWorkerRemote is
  view,       \* the copy of the file a job is about to change and write back
  erred,      \* jobs whose runWorkerRemote will return an error
  unacked,    \* history variable: a reply about the instance was lost or bad
  exposed,    \* history variable: the entry was lost, or looked for too early
  stale,      \* history variable: the entry was left behind or came back
  killed      \* history variable: deleted by a reconciliation while in use

sweepVars == <<listed, unseen, active, dead>>
clientVars == <<phase, sweepVars>>
jobVars == <<step, view, erred>>
vars == <<cancelled, clientVars, cloud, file, jobVars, unacked, exposed, stale, killed>>

Phases == {"list", "load", "sweep", "toolchain", "spawn", "returned", "crashed"}

(* The calls to the worker runtime, in order. *)
After == [health |-> "upload", upload |-> "exec", exec |-> "download", download |-> "unregLoad"]

Steps == {"idle", "starting", "creating", "domains", "discard", "regLoad", "regSave",
          "unregLoad", "unregSave", "destroy", "returned", "crashed"} \cup DOMAIN After

Registering == {"domains", "regLoad", "regSave"}
InUse(j) == step[j] \in Registering \cup DOMAIN After

alive(c) == phase[c] # "crashed"  \* processAlive

JobsOf(c) == {j \in Jobs : ClientOf[j] = c}
Running(c) == {j \in JobsOf(c) : step[j] \notin {"idle", "returned", "crashed"}}

Init ==
  /\ phase = [c \in Clients |-> "list"]
  /\ cancelled = [c \in Clients |-> FALSE]
  /\ listed = [c \in Clients |-> {}] /\ unseen = [c \in Clients |-> {}]
  /\ active = [c \in Clients |-> {}] /\ dead = [c \in Clients |-> {}]
  /\ cloud = [j \in Jobs |-> "none"] /\ file = {}
  /\ step = [j \in Jobs |-> "idle"] /\ view = [j \in Jobs |-> {}] /\ erred = {}
  /\ unacked = {} /\ exposed = {} /\ stale = {} /\ killed = {}

-----------------------------------------------------------------------------
(* The active-jobs file and the cloud account *)

(* saveActiveJobs replaces the whole file by the writer's copy: what others
   added since the copy was read goes, what they removed comes back. *)
Save(entries, own) ==
  /\ file' = entries
  /\ exposed' = exposed \cup ((file \ entries) \ own)
  /\ stale' = stale \cup ((entries \ file) \ own)

(* DeleteInstance reports an error for a request that may have been served. *)
Deleted(j) == cloud' = [cloud EXCEPT ![j] = "deleted"]
DeleteFails(j) == Deleted(j) \/ UNCHANGED cloud

-----------------------------------------------------------------------------
(* Reconciliation, by a process about to run its workers *)

GoTo(c, p) == phase' = [phase EXCEPT ![c] = p]

(* The reconciliation is over, and its variables with it. *)
EndSweep(c) ==
  /\ listed' = [listed EXCEPT ![c] = {}] /\ unseen' = [unseen EXCEPT ![c] = {}]
  /\ active' = [active EXCEPT ![c] = {}] /\ dead' = [dead EXCEPT ![c] = {}]

List(c) ==
  LET live == {j \in Jobs : cloud[j] = "live"} IN
  /\ phase[c] = "list"
  /\ \/ /\ ~cancelled[c]
        /\ listed' = [listed EXCEPT ![c] = live]
        /\ unseen' = [unseen EXCEPT ![c] = live]
        /\ dead' = [dead EXCEPT ![c] = {j \in live : ~alive(ClientOf[j])}]
        /\ GoTo(c, "load")
     \/ GoTo(c, "toolchain") /\ UNCHANGED <<listed, unseen, dead>>
  /\ UNCHANGED <<cancelled, active, cloud, file, jobVars, unacked, exposed, stale, killed>>

LoadActiveJobs(c) ==
  /\ phase[c] = "load"
  /\ \/ /\ active' = [active EXCEPT ![c] = file]
        /\ exposed' = exposed \cup {j \in listed[c] : step[j] \in Registering}
        /\ GoTo(c, "sweep")
        /\ UNCHANGED <<listed, unseen, dead>>
     \/ GoTo(c, "toolchain") /\ EndSweep(c) /\ UNCHANGED exposed
  /\ UNCHANGED <<cancelled, cloud, file, jobVars, unacked, stale, killed>>

(* Faults: an entry protects an instance for ever; only one's own counts. *)
SparedByEntry(c, j) == j \in active[c]
SparedIfOwn(c, j) == j \in active[c] /\ ClientOf[j] = c

Spared(c, j) == j \in active[c] /\ alive(ClientOf[j])

(* One round of the loop over the listing: the entry that was read, and the
   process as it is now.  An error ends the reconciliation, unsaved. *)
Sweep(c, j) ==
  /\ phase[c] = "sweep" /\ j \in unseen[c]
  /\ \/ /\ Spared(c, j)
        /\ UNCHANGED <<phase, listed, active, dead, cloud, killed>>
        /\ unseen' = [unseen EXCEPT ![c] = @ \ {j}]
     \/ /\ ~Spared(c, j) /\ ~cancelled[c]
        /\ Deleted(j)
        /\ active' = [active EXCEPT ![c] = @ \ {j}]
        /\ unseen' = [unseen EXCEPT ![c] = @ \ {j}]
        /\ killed' = IF InUse(j) THEN killed \cup {j} ELSE killed
        /\ UNCHANGED <<phase, listed, dead>>
     \/ /\ ~Spared(c, j)
        /\ DeleteFails(j)
        /\ killed' = IF InUse(j) /\ cloud' # cloud THEN killed \cup {j} ELSE killed
        /\ GoTo(c, "toolchain") /\ EndSweep(c)
  /\ UNCHANGED <<cancelled, file, jobVars, unacked, exposed, stale>>

(* The end of the reconciliation: entries without an instance, of a process
   that is gone, are dropped once they are old enough. *)
Prune(c) ==
  /\ phase[c] = "sweep" /\ unseen[c] = {}
  /\ \/ \E old \in SUBSET {j \in active[c] \ listed[c] : ~alive(ClientOf[j])} :
          Save(active[c] \ old, {})
     \/ UNCHANGED <<file, exposed, stale>>
  /\ GoTo(c, "toolchain") /\ EndSweep(c)
  /\ UNCHANGED <<cancelled, cloud, jobVars, unacked, killed>>

-----------------------------------------------------------------------------
(* The pool of workers *)

BuildCustomToolchain(c) ==
  /\ phase[c] = "toolchain"
  /\ GoTo(c, "spawn") \/ GoTo(c, "returned")
  /\ UNCHANGED <<cancelled, sweepVars, cloud, file, jobVars,
                 unacked, exposed, stale, killed>>

(* Fault: a slot too many. *)
SlotTooMany(c) == Cardinality(Running(c)) <= MaxWorkers

SlotFree(c) == Cardinality(Running(c)) < MaxWorkers

Move(j, s) == step' = [step EXCEPT ![j] = s]

Spawn(j) ==
  /\ phase[ClientOf[j]] = "spawn"
  /\ step[j] = "idle" /\ SlotFree(ClientOf[j])
  /\ Move(j, "starting")
  /\ UNCHANGED <<cancelled, clientVars, cloud, file, view, erred,
                 unacked, exposed, stale, killed>>

Wait(c) ==
  /\ phase[c] = "spawn"
  /\ \A j \in JobsOf(c) : step[j] = "returned"
  /\ GoTo(c, "returned")
  /\ UNCHANGED <<cancelled, sweepVars, cloud, file, jobVars,
                 unacked, exposed, stale, killed>>

-----------------------------------------------------------------------------
(* A worker goroutine: runWorkerRemote *)

(* The first error of a worker ends the context of the others. *)
Return(j, isError) ==
  /\ Move(j, "returned")
  /\ erred' = erred \ {j}
  /\ cancelled' = [cancelled EXCEPT ![ClientOf[j]] = @ \/ isError]

Begin(j) ==
  /\ step[j] = "starting"
  /\ IF cancelled[ClientOf[j]] THEN Move(j, "returned") ELSE Move(j, "creating")
  /\ UNCHANGED <<cancelled, clientVars, cloud, file, view, erred,
                 unacked, exposed, stale, killed>>

(* CreateInstance: without a reply the instance may exist all the same. *)
Create(j) ==
  /\ step[j] = "creating"
  /\ \/ /\ ~cancelled[ClientOf[j]]
        /\ cloud' = [cloud EXCEPT ![j] = "live"]
        /\ Move(j, "domains")
        /\ UNCHANGED <<cancelled, erred, unacked>>
     \/ /\ \/ UNCHANGED <<cloud, unacked>>
           \/ cloud' = [cloud EXCEPT ![j] = "live"] /\ unacked' = unacked \cup {j}
        /\ Return(j, TRUE)
  /\ UNCHANGED <<clientVars, file, view, exposed, stale, killed>>

(* The rest of Provision: the service group, and the public address. *)
ResolveURL(j) ==
  /\ step[j] = "domains"
  /\ Move(j, "regLoad") \/ Move(j, "discard")
  /\ UNCHANGED <<cancelled, clientVars, cloud, file, view, erred,
                 unacked, exposed, stale, killed>>

DeleteInstance(j) ==
  \/ Deleted(j) /\ UNCHANGED unacked
  \/ DeleteFails(j) /\ unacked' = unacked \cup {j}

(* Fault: returns without deleting what it created. *)
DiscardNothing(j) ==
  /\ step[j] = "discard"
  /\ Return(j, TRUE)
  /\ UNCHANGED <<clientVars, cloud, file, view, unacked, exposed, stale, killed>>

Discard(j) ==
  /\ step[j] = "discard"
  /\ DeleteInstance(j)
  /\ Return(j, TRUE)
  /\ UNCHANGED <<clientVars, file, view, exposed, stale, killed>>

(* The error of RegisterActiveJob is ignored. *)
RegisterLoad(j) ==
  /\ step[j] = "regLoad"
  /\ \/ view' = [view EXCEPT ![j] = file] /\ Move(j, "regSave") /\ UNCHANGED exposed
     \/ exposed' = exposed \cup {j} /\ Move(j, "health") /\ UNCHANGED view
  /\ UNCHANGED <<cancelled, clientVars, cloud, file, erred, unacked, stale, killed>>

RegisterSave(j) ==
  /\ step[j] = "regSave"
  /\ \/ Save(view[j] \cup {j}, {j})
     \/ exposed' = exposed \cup {j} /\ UNCHANGED <<file, stale>>
  /\ Move(j, "health") /\ view' = [view EXCEPT ![j] = {}]
  /\ UNCHANGED <<cancelled, clientVars, cloud, erred, unacked, killed>>

(* A call of the worker contract: WaitReady, UploadWorkspace, Exec,
   DownloadWorkspace.  Only the last may fail without an error. *)
Call(j) ==
  /\ step[j] \in DOMAIN After
  /\ \/ /\ ~cancelled[ClientOf[j]] /\ cloud[j] = "live"
        /\ step[j] = "health" => RuntimeAccepts
        /\ Move(j, After[step[j]])
        /\ UNCHANGED erred
     \/ /\ Move(j, "unregLoad")
        /\ erred' = IF step[j] = "download" THEN erred ELSE erred \cup {j}
  /\ UNCHANGED <<cancelled, clientVars, cloud, file, view, unacked, exposed, stale, killed>>

(* Fault: destroys without unregistering. *)
UnregisterSkipped(j) ==
  /\ step[j] = "unregLoad"
  /\ Move(j, "destroy")
  /\ UNCHANGED <<cancelled, clientVars, cloud, file, view, erred,
                 unacked, exposed, stale, killed>>

(* The deferred cleanup: UnregisterActiveJob, its error ignored, ... *)
UnregisterLoad(j) ==
  /\ step[j] = "unregLoad"
  /\ \/ view' = [view EXCEPT ![j] = file] /\ Move(j, "unregSave") /\ UNCHANGED stale
     \/ stale' = stale \cup {j} /\ Move(j, "destroy") /\ UNCHANGED view
  /\ UNCHANGED <<cancelled, clientVars, cloud, file, erred, unacked, exposed, killed>>

UnregisterSave(j) ==
  /\ step[j] = "unregSave"
  /\ \/ Save(view[j] \ {j}, {j})
     \/ stale' = stale \cup {j} /\ UNCHANGED <<file, exposed>>
  /\ Move(j, "destroy") /\ view' = [view EXCEPT ![j] = {}]
  /\ UNCHANGED <<cancelled, clientVars, cloud, erred, unacked, killed>>

(* ... then Destroy, under a context of its own. *)
Destroy(j) ==
  /\ step[j] = "destroy"
  /\ DeleteInstance(j)
  /\ Return(j, j \in erred)
  /\ UNCHANGED <<clientVars, file, view, exposed, stale, killed>>

-----------------------------------------------------------------------------
(* The environment *)

(* The process is gone, and its memory with it. *)
Crash(c) ==
  /\ alive(c)
  /\ GoTo(c, "crashed") /\ EndSweep(c)
  /\ step' = [j \in Jobs |-> IF j \in JobsOf(c) /\ step[j] # "returned" THEN "crashed" ELSE step[j]]
  /\ view' = [j \in Jobs |-> IF j \in JobsOf(c) THEN {} ELSE view[j]]
  /\ erred' = erred \ JobsOf(c)
  /\ UNCHANGED <<cancelled, cloud, file, unacked, exposed, stale, killed>>

(* The user's context ends. *)
Interrupt(c) ==
  /\ phase[c] \notin {"returned", "crashed"} /\ ~cancelled[c]
  /\ cancelled' = [cancelled EXCEPT ![c] = TRUE]
  /\ UNCHANGED <<clientVars, cloud, file, jobVars, unacked, exposed, stale, killed>>

-----------------------------------------------------------------------------
ClientStep(c) ==
  \/ List(c) \/ LoadActiveJobs(c) \/ (\E j \in Jobs : Sweep(c, j)) \/ Prune(c)
  \/ BuildCustomToolchain(c) \/ (\E j \in JobsOf(c) : Spawn(j)) \/ Wait(c)

JobStep(j) ==
  \/ Begin(j) \/ Create(j) \/ ResolveURL(j) \/ Discard(j)
  \/ RegisterLoad(j) \/ RegisterSave(j) \/ Call(j)
  \/ UnregisterLoad(j) \/ UnregisterSave(j) \/ Destroy(j)

Next ==
  \/ \E c \in Clients : ClientStep(c) \/ Crash(c) \/ Interrupt(c)
  \/ \E j \in Jobs : JobStep(j)

Spec == Init /\ [][Next]_vars

-----------------------------------------------------------------------------
(* What the variables range over. *)
Types ==
  /\ phase \in [Clients -> Phases]
  /\ cancelled \in [Clients -> BOOLEAN]
  /\ listed \in [Clients -> SUBSET Jobs] /\ unseen \in [Clients -> SUBSET Jobs]
  /\ active \in [Clients -> SUBSET Jobs] /\ dead \in [Clients -> SUBSET Jobs]
  /\ cloud \in [Jobs -> {"none", "live", "deleted"}] /\ file \subseteq Jobs
  /\ step \in [Jobs -> Steps] /\ view \in [Jobs -> SUBSET Jobs]
  /\ erred \subseteq Jobs /\ unacked \subseteq Jobs
  /\ exposed \subseteq Jobs /\ stale \subseteq Jobs /\ killed \subseteq Jobs

(* The types, and the bound of the pool: never more than MaxWorkers workers of
   one process between their start and their return. *)
TypeOK == Types /\ \A c \in Clients : Cardinality(Running(c)) <= MaxWorkers

(* Registered jobs of running processes stand in the file, and finished ones
   do not, unless two updates of the file overlapped or one failed. *)
FileFollowsJobs ==
  \A j \in Jobs : alive(ClientOf[j]) =>
    /\ step[j] \in DOMAIN After \cup {"unregLoad", "unregSave"} => j \in file \cup exposed
    /\ step[j] \in {"destroy", "returned"} => j \notin file \/ j \in stale

(* A reconciliation deletes an instance that a running process uses only when
   that job's entry was lost by overlapping updates, could not be written, or
   was looked for before it was written. *)
KilledOnlyByRace == killed \subseteq exposed

(* Whatever way a worker returns, its instance is gone, unless a reply about
   it never came: the calls the clean-up consists of leave no other way out. *)
LeakOnlyOnLostReply ==
  \A j \in Jobs : step[j] = "returned" /\ cloud[j] = "live" => j \in unacked

(* A reconciliation that gets to its end has deleted every instance that a
   crashed process had left when it began. *)
OrphansReclaimed ==
  [][\A c \in Clients : Prune(c) => \A j \in dead[c] : cloud[j] = "deleted"]_vars
=============================================================================
