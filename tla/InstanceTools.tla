---------------------------- MODULE InstanceTools ----------------------------
(***************************************************************************)
(* The instance tools of the agent: ukc_create, ukc_build_template,        *)
(* ukc_delete and ukc_delete_all, called one beside the other, by several  *)
(* processes of one user.  A process reads the registry of instances once  *)
(* and writes it whole at every change (Manager, registry.go); the builder *)
(* of a template is kept as the template.                                  *)
(***************************************************************************)
EXTENDS Naturals, FiniteSets

CONSTANTS
  Hosts,        \* the processes
  Toolers,      \* the tool calls that may be under way
  HostOf,       \* the process of each
  Machines,     \* the UUIDs the platform will give
  NoMachine     \* no instance

ASSUME ToolsAssumption == HostOf \in [Toolers -> Hosts] /\ NoMachine \notin Machines

VARIABLES
  existing,     \* the instances of the platform
  given,        \* the UUIDs used up
  ledger,       \* Manager.entries of each process
  ledgerFile,   \* ukc-instances.json
  images,       \* TemplatesCache.mappings of each process, its values; Unreadable without a manager
  imagesFile,   \* ukc-templates.json; Unreadable when its writing was cut short
  tooling,      \* the step of each call
  working,      \* the instance it works on
  remaining,    \* the instances a delete_all has still to delete
  excuses       \* history: why an instance may run unrecorded

toolsVars == <<existing, given, ledger, ledgerFile, images, imagesFile, tooling,
               working, remaining, excuses>>
cloud == <<existing, given>>
cache == <<images, imagesFile>>

ToolSteps == {"idle", "create", "health", "record", "build", "setup", "template",
          "delete", "forget", "deleteAll"}
Unreadable == {NoMachine}
Reasons == {"unanswered", "noAddress", "refused", "template", "unsaved",
            "cleared", "overwritten", "crashed"}

ToolsTypeOK ==
  /\ existing \subseteq given /\ given \subseteq Machines
  /\ ledger \in [Hosts -> SUBSET given] /\ ledgerFile \subseteq given
  /\ images \in [Hosts -> (SUBSET given) \cup {Unreadable}] /\ imagesFile \in (SUBSET given) \cup {Unreadable}
  /\ tooling \in [Toolers -> ToolSteps]
  /\ working \in [Toolers -> given \cup {NoMachine}]
  /\ remaining \in [Toolers -> SUBSET given]
  /\ excuses \in [Machines -> SUBSET Reasons]

ToolsInit ==
  /\ existing = {} /\ given = {}
  /\ ledger = [h \in Hosts |-> {}] /\ ledgerFile = {}
  /\ images = [h \in Hosts |-> {}] /\ imagesFile = {}
  /\ tooling = [t \in Toolers |-> "idle"]
  /\ working = [t \in Toolers |-> NoMachine]
  /\ remaining = [t \in Toolers |-> {}]
  /\ excuses = [m \in Machines |-> {}]

Excuse(some, reason) ==
  excuses' = [m \in Machines |->
                IF m \in some THEN excuses[m] \cup {reason} ELSE excuses[m]]

(* The call goes on with an instance at a step, or is over. *)
GoOn(t, step, m) ==
  /\ tooling' = [tooling EXCEPT ![t] = step]
  /\ working' = [working EXCEPT ![t] = m]

(* A process that could not read its files has no manager, and so no tools. *)
HasTools(t) == tooling[t] = "idle" /\ images[HostOf[t]] # Unreadable

ToolEnds(t) == GoOn(t, "idle", NoMachine)

(* CreateInstance and InstanceHTTPSURL.  Without an address ukc_create      *)
(* leaves the instance, ukc_build_template deletes it.                     *)
CreateMachine(t, next) ==
  \/ ToolEnds(t) /\ UNCHANGED <<cloud, excuses>>
  \/ \E m \in Machines \ given :
       /\ given' = given \cup {m}
       /\ existing' = existing \cup {m}
       /\ \/ GoOn(t, next, m) /\ UNCHANGED excuses
          \/ ToolEnds(t) /\ Excuse({m}, "unanswered")
          \/ next = "health" /\ ToolEnds(t) /\ Excuse({m}, "noAddress")

(* The deletion of an instance that is given up, its error ignored. *)
DropMachine(t) ==
  /\ ToolEnds(t)
  /\ \/ existing' = existing \ {working[t]} /\ UNCHANGED excuses
     \/ Excuse({working[t]}, "refused") /\ UNCHANGED existing
  /\ UNCHANGED given

(* saveRegistry of a process: the whole map, or an error and the old file. *)
SaveLedger(h, entries, reason, some) ==
  \/ /\ ledgerFile' = entries
     /\ LET dropped == ledgerFile \ (entries \cup ledger[h])
        IN  excuses' = [m \in Machines |-> excuses[m]
              \cup (IF m \in dropped THEN {"overwritten"} ELSE {})
              \cup (IF m \in some /\ reason = "cleared" THEN {reason} ELSE {})]
  \/ Excuse(some, reason) /\ UNCHANGED ledgerFile

(* ukc_create, from an image or from a template the process knows. *)
StartCreate(t) ==
  /\ HasTools(t)
  /\ CreateMachine(t, "health")
  /\ UNCHANGED <<ledger, ledgerFile, cache, remaining>>

CreateHealth(t) ==
  /\ tooling[t] = "health"
  /\ \/ GoOn(t, "record", working[t]) /\ UNCHANGED <<cloud, excuses>>
     \/ DropMachine(t)
  /\ UNCHANGED <<ledger, ledgerFile, cache, remaining>>

RecordMachine(t) ==
  LET h == HostOf[t] entries == ledger[h] \cup {working[t]}
  IN  /\ tooling[t] = "record"
      /\ ledger' = [ledger EXCEPT ![h] = entries]
      /\ SaveLedger(h, entries, "unsaved", {working[t]})
      /\ ToolEnds(t)
      /\ UNCHANGED <<cloud, cache, remaining>>

(* ukc_build_template: the builder becomes the template; it is deleted when *)
(* it stays unhealthy or the setup script fails, not when the cache's file  *)
(* cannot be written.                                                       *)
StartBuild(t) ==
  /\ HasTools(t)
  /\ CreateMachine(t, "build")
  /\ UNCHANGED <<ledger, ledgerFile, cache, remaining>>

BuildSetup(t) ==
  /\ tooling[t] \in {"build", "setup"}
  /\ \/ /\ GoOn(t, IF tooling[t] = "build" THEN "setup" ELSE "template", working[t])
        /\ UNCHANGED <<cloud, excuses>>
     \/ DropMachine(t)
  /\ UNCHANGED <<ledger, ledgerFile, cache, remaining>>

KeepTemplate(t) ==
  \E earlier \in {{}} \cup {{m} : m \in images[HostOf[t]]} :   \* the environment's
  LET known == (images[HostOf[t]] \ earlier) \cup {working[t]}
  IN  /\ tooling[t] = "template"
      /\ images' = [images EXCEPT ![HostOf[t]] = known]
      /\ imagesFile' \in {imagesFile, known, Unreadable}
      /\ Excuse({working[t]}, "template")
      /\ ToolEnds(t)
      /\ UNCHANGED <<cloud, ledger, ledgerFile, remaining>>

(* ukc_delete: the entry is looked up, the instance deleted outside the     *)
(* lock, and the entry removed when that succeeded.                         *)
StartDelete(t) ==
  /\ HasTools(t)
  /\ \E m \in ledger[HostOf[t]] : GoOn(t, "delete", m)
  /\ UNCHANGED <<cloud, ledger, ledgerFile, cache, remaining, excuses>>

DeleteMachine(t) ==
  /\ tooling[t] = "delete"
  /\ \/ existing' = existing \ {working[t]} /\ GoOn(t, "forget", working[t])
     \/ existing' \in {existing, existing \ {working[t]}} /\ ToolEnds(t)
  /\ UNCHANGED <<given, ledger, ledgerFile, cache, remaining, excuses>>

ForgetMachine(t) ==
  LET h == HostOf[t] entries == ledger[h] \ {working[t]}
  IN  /\ tooling[t] = "forget"
      /\ ledger' = [ledger EXCEPT ![h] = entries]
      /\ SaveLedger(h, entries, "unsaved", {})
      /\ ToolEnds(t)
      /\ UNCHANGED <<cloud, cache, remaining>>

(* ukc_delete_all: the ids are read, all deleted side by side, and then the *)
(* registry is emptied, whatever became of the deletions and whatever was   *)
(* recorded meanwhile.                                                      *)
StartDeleteAll(t) ==
  /\ HasTools(t)
  /\ GoOn(t, "deleteAll", NoMachine)
  /\ remaining' = [remaining EXCEPT ![t] = ledger[HostOf[t]]]
  /\ UNCHANGED <<cloud, ledger, ledgerFile, cache, excuses>>

DeleteOne(t) ==
  /\ tooling[t] = "deleteAll"
  /\ \E m \in remaining[t] :
       /\ remaining' = [remaining EXCEPT ![t] = @ \ {m}]
       /\ existing' \in {existing, existing \ {m}}
  /\ UNCHANGED <<given, ledger, ledgerFile, cache, tooling, working, excuses>>

ClearLedger(t) ==
  LET h == HostOf[t]
  IN  /\ tooling[t] = "deleteAll" /\ remaining[t] = {}
      /\ ledger' = [ledger EXCEPT ![h] = {}]
      /\ SaveLedger(h, {}, "cleared", ledger[h])
      /\ ToolEnds(t)
      /\ UNCHANGED <<cloud, cache, remaining>>

(* A process dies, perhaps while it writes the templates' file in place, and *)
(* another is started: it reads both files, or has no tools.                 *)
RestartHost(h) ==
  LET calls == {t \in Toolers : HostOf[t] = h}
  IN  /\ ledger' = [ledger EXCEPT ![h] = ledgerFile]
      /\ imagesFile' \in {imagesFile} \cup {Unreadable : t \in {c \in calls : tooling[c] = "template"}}
      /\ images' = [images EXCEPT ![h] = imagesFile']
      /\ tooling' = [t \in Toolers |-> IF t \in calls THEN "idle" ELSE tooling[t]]
      /\ working' = [t \in Toolers |-> IF t \in calls THEN NoMachine ELSE working[t]]
      /\ remaining' = [t \in Toolers |-> IF t \in calls THEN {} ELSE remaining[t]]
      /\ Excuse({working[t] : t \in calls}, "crashed")
      /\ UNCHANGED <<cloud, ledgerFile>>

ToolsNext ==
  \/ \E t \in Toolers :
       \/ StartCreate(t) \/ CreateHealth(t) \/ RecordMachine(t)
       \/ StartBuild(t) \/ BuildSetup(t) \/ KeepTemplate(t)
       \/ StartDelete(t) \/ DeleteMachine(t) \/ ForgetMachine(t)
       \/ StartDeleteAll(t) \/ DeleteOne(t) \/ ClearLedger(t)
  \/ \E h \in Hosts : RestartHost(h)

ToolsSpec == ToolsInit /\ [][ToolsNext]_toolsVars

-----------------------------------------------------------------------------
(* An instance that runs, is not in the registry's file and is not being    *)
(* worked on is one that: no call was told of (the answer, the address or   *)
(* the process was lost), refused to be deleted, is a template, could not   *)
(* be saved, was dropped by a delete_all that did not delete it, or was     *)
(* overwritten by a process that had read the file before (tool_create.go,  *)
(* tool_delete.go, tool_delete_all.go, templates.go, registry.go).          *)
NothingForgotten ==
  \A m \in existing \ ledgerFile :
    excuses[m] # {} \/ \E t \in Toolers : working[t] = m
=============================================================================
