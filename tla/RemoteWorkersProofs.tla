------------------------- MODULE RemoteWorkersProofs -------------------------
(* Remote workers, for any processes, subtasks and size of the pool: the types
   and the pool's bound, the clean-up of instances, the file of active jobs,
   and what reconciliation may delete and must have deleted. *)
EXTENDS RemoteWorkers, FiniteSetTheorems, TLAPS

(* The calls to the worker runtime. *)
LEMMA AfterDomain ==
  /\ DOMAIN After = {"health", "upload", "exec", "download"}
  /\ \A s \in DOMAIN After : After[s] \in {"upload", "exec", "download", "unregLoad"}
BY DEF After

-----------------------------------------------------------------------------
(* Types and pool *)

(* How a worker returns, and how an instance is deleted. *)
LEMMA ReturnTypes ==
  ASSUME Types, NEW j \in Jobs, NEW isError \in BOOLEAN, Return(j, isError)
  PROVE  /\ step' \in [Jobs -> Steps] /\ erred' \subseteq Jobs
         /\ cancelled' \in [Clients -> BOOLEAN]
<1>1. cancelled' \in [Clients -> BOOLEAN]
  BY RemoteWorkersAssumption, Zenon DEF Types, Return
<1> QED
  BY <1>1 DEF Types, Return, Move, Steps

LEMMA DeleteTypes ==
  ASSUME Types, NEW j \in Jobs, Deleted(j) \/ DeleteFails(j)
  PROVE  cloud' \in [Jobs -> {"none", "live", "deleted"}]
BY DEF Types, Deleted, DeleteFails

(* Every step of the next-state relation, and the stutter, keeps the types. *)
LEMMA TypesStep == Types /\ [Next]_vars => Types'
<1> SUFFICES ASSUME Types, [Next]_vars
             PROVE  Types'
  OBVIOUS
<1>1. ASSUME NEW c \in Clients, List(c) PROVE Types'
  BY <1>1 DEF Types, Phases, List, GoTo, jobVars
<1>2. ASSUME NEW c \in Clients, LoadActiveJobs(c) PROVE Types'
  BY <1>2 DEF Types, Phases, LoadActiveJobs, EndSweep, GoTo, jobVars
<1>3. ASSUME NEW c \in Clients, NEW j \in Jobs, Sweep(c, j) PROVE Types'
  <2>1. cloud' \in [Jobs -> {"none", "live", "deleted"}]
    <3>1. Deleted(j) \/ DeleteFails(j) \/ UNCHANGED cloud
      BY <1>3 DEF Sweep
    <3> QED
      BY <3>1, DeleteTypes DEF Types
  <2>2. killed' \subseteq Jobs
    BY <1>3 DEF Types, Sweep
  <2>3. phase' \in [Clients -> Phases]
    BY <1>3 DEF Types, Phases, Sweep, GoTo
  <2>4. listed' \in [Clients -> SUBSET Jobs] /\ dead' \in [Clients -> SUBSET Jobs]
    BY <1>3 DEF Types, Sweep, EndSweep
  <2>5. unseen' \in [Clients -> SUBSET Jobs] /\ active' \in [Clients -> SUBSET Jobs]
    BY <1>3 DEF Types, Sweep, EndSweep
  <2> QED
    BY <1>3, <2>1, <2>2, <2>3, <2>4, <2>5 DEF Types, Sweep, jobVars
<1>4. ASSUME NEW c \in Clients, Prune(c) PROVE Types'
  BY <1>4 DEF Types, Phases, Prune, EndSweep, Save, GoTo, jobVars
<1>5. ASSUME NEW c \in Clients, BuildCustomToolchain(c) \/ Wait(c) PROVE Types'
  BY <1>5 DEF Types, Phases, BuildCustomToolchain, Wait, GoTo, sweepVars, jobVars
<1>6. ASSUME NEW j \in Jobs, Spawn(j) \/ Begin(j) \/ ResolveURL(j) PROVE Types'
  BY <1>6 DEF Types, Steps, Spawn, Begin, ResolveURL, Move, clientVars, sweepVars
<1>7. ASSUME NEW j \in Jobs, Create(j) PROVE Types'
  <2>1. CASE Return(j, TRUE)
    <3>1. step' \in [Jobs -> Steps] /\ erred' \subseteq Jobs /\ cancelled' \in [Clients -> BOOLEAN]
      BY <2>1, ReturnTypes
    <3> QED
      BY <1>7, <3>1 DEF Types, Create, clientVars, sweepVars
  <2>2. CASE ~Return(j, TRUE)
    <3>1. /\ cloud' = [cloud EXCEPT ![j] = "live"] /\ Move(j, "domains")
          /\ UNCHANGED <<cancelled, erred, unacked>>
      BY <1>7, <2>2 DEF Create
    <3> QED
      BY <1>7, <3>1 DEF Types, Steps, Create, Move, clientVars, sweepVars
  <2> QED
    BY <2>1, <2>2
<1>8. ASSUME NEW j \in Jobs, Discard(j) \/ Destroy(j) PROVE Types'
  <2>1. step' \in [Jobs -> Steps] /\ erred' \subseteq Jobs /\ cancelled' \in [Clients -> BOOLEAN]
    <3>1. CASE Discard(j)
      BY <3>1, ReturnTypes, Zenon DEF Discard
    <3>2. CASE Destroy(j)
      <4>1. (j \in erred) \in BOOLEAN
        OBVIOUS
      <4>2. Return(j, j \in erred)
        BY <3>2, Zenon DEF Destroy
      <4> QED
        BY <4>1, <4>2, ReturnTypes, Zenon
    <3> QED
      BY <1>8, <3>1, <3>2
  <2>2. cloud' \in [Jobs -> {"none", "live", "deleted"}]
    <3>1. Deleted(j) \/ DeleteFails(j)
      BY <1>8 DEF Discard, Destroy, DeleteInstance
    <3> QED
      BY <3>1, DeleteTypes
  <2>3. unacked' \subseteq Jobs
    BY <1>8 DEF Types, Discard, Destroy, DeleteInstance
  <2> QED
    BY <1>8, <2>1, <2>2, <2>3 DEF Types, Discard, Destroy, clientVars, sweepVars
<1>9. ASSUME NEW j \in Jobs, RegisterLoad(j) \/ UnregisterLoad(j) PROVE Types'
  BY <1>9, AfterDomain DEF Types, Steps, RegisterLoad, UnregisterLoad, Move, clientVars, sweepVars
<1>10. ASSUME NEW j \in Jobs, RegisterSave(j) \/ UnregisterSave(j) PROVE Types'
  BY <1>10, AfterDomain DEF Types, Steps, RegisterSave, UnregisterSave, Save, Move, clientVars, sweepVars
<1>11. ASSUME NEW j \in Jobs, Call(j) PROVE Types'
  BY <1>11, AfterDomain DEF Types, Steps, Call, Move, clientVars, sweepVars
<1>12. ASSUME NEW c \in Clients, Crash(c) PROVE Types'
  BY <1>12 DEF Types, Phases, Steps, Crash, EndSweep, GoTo
<1>13. ASSUME NEW c \in Clients, Interrupt(c) PROVE Types'
  BY <1>13 DEF Types, Interrupt, clientVars, sweepVars, jobVars
<1>14. CASE UNCHANGED vars
  BY <1>14 DEF Types, vars, clientVars, sweepVars, jobVars
<1> QED
  BY <1>1, <1>2, <1>3, <1>4, <1>5, <1>6, <1>7, <1>8, <1>9, <1>10, <1>11, <1>12, <1>13, <1>14
     DEF Next, ClientStep, JobStep, JobsOf

(* What a step does to the jobs: it moves nobody, or one worker that is under
   way, or it starts one, or its process dies. *)
LEMMA StepCases ==
  ASSUME [Next]_vars
  PROVE  \/ UNCHANGED step
         \/ \E j \in Jobs : /\ step[j] \notin {"idle", "returned", "crashed"}
                            /\ \E s : step' = [step EXCEPT ![j] = s]
         \/ \E j \in Jobs : Spawn(j)
         \/ \E c \in Clients : Crash(c)
<1>1. ASSUME NEW c \in Clients, \/ List(c) \/ LoadActiveJobs(c) \/ Prune(c) \/ Wait(c)
                                \/ BuildCustomToolchain(c) \/ Interrupt(c)
      PROVE  UNCHANGED step
  BY <1>1 DEF List, LoadActiveJobs, Prune, Wait, BuildCustomToolchain, Interrupt, jobVars
<1>2. ASSUME NEW c \in Clients, NEW j \in Jobs, Sweep(c, j) PROVE UNCHANGED step
  BY <1>2 DEF Sweep, jobVars
<1>3. ASSUME NEW j \in Jobs, JobStep(j)
      PROVE  /\ step[j] \notin {"idle", "returned", "crashed"}
             /\ \E s : step' = [step EXCEPT ![j] = s]
  <2>1. CASE Begin(j) \/ Create(j) \/ ResolveURL(j) \/ Discard(j)
    BY <2>1 DEF Begin, Create, ResolveURL, Discard, Return, Move
  <2>2. CASE RegisterLoad(j) \/ RegisterSave(j) \/ UnregisterLoad(j) \/ UnregisterSave(j)
    BY <2>2 DEF RegisterLoad, RegisterSave, UnregisterLoad, UnregisterSave, Move
  <2>3. CASE Call(j) \/ Destroy(j)
    BY <2>3, AfterDomain DEF Call, Destroy, Return, Move
  <2> QED
    BY <1>3, <2>1, <2>2, <2>3 DEF JobStep
<1>4. CASE UNCHANGED vars
  BY <1>4 DEF vars, jobVars
<1> QED
  BY <1>1, <1>2, <1>3, <1>4 DEF Next, ClientStep, JobsOf

(* Only Spawn fills a slot, and it looks for a free one. *)
LEMMA PoolStep ==
  ASSUME TypeOK, [Next]_vars, NEW c \in Clients
  PROVE  Cardinality(Running(c))' <= MaxWorkers
<1>1. IsFiniteSet(Running(c)) /\ Cardinality(Running(c)) \in Nat
  <2>1. Running(c) \subseteq Jobs
    BY DEF Running, JobsOf
  <2> QED
    BY <2>1, FS_Subset, FS_CardinalityType, RemoteWorkersAssumption
<1>2. ASSUME Running(c)' \subseteq Running(c) PROVE Cardinality(Running(c))' <= MaxWorkers
  <2>1. Cardinality(Running(c)') \in Nat /\ Cardinality(Running(c)') <= Cardinality(Running(c))
    BY <1>1, <1>2, FS_Subset, FS_CardinalityType
  <2> QED
    BY <1>1, <2>1, RemoteWorkersAssumption DEF TypeOK
<1>3. CASE UNCHANGED step
  BY <1>2, <1>3 DEF Running, JobsOf
<1>4. ASSUME NEW j \in Jobs, NEW s, step[j] \notin {"idle", "returned", "crashed"},
             step' = [step EXCEPT ![j] = s]
      PROVE  Cardinality(Running(c))' <= MaxWorkers
  <2>1. Running(c)' \subseteq Running(c)
    BY <1>4 DEF Running, JobsOf, TypeOK, Types
  <2> QED
    BY <1>2, <2>1
<1>5. ASSUME NEW j \in Jobs, Spawn(j) PROVE Cardinality(Running(c))' <= MaxWorkers
  <2>1. CASE ClientOf[j] = c
    <3>1. Running(c)' = Running(c) \cup {j} /\ j \notin Running(c)
      BY <1>5, <2>1 DEF Spawn, Move, Running, JobsOf, TypeOK, Types
    <3>2. Cardinality(Running(c)') = Cardinality(Running(c)) + 1
      BY <1>1, <3>1, FS_AddElement
    <3>3. Cardinality(Running(c)) < MaxWorkers
      BY <1>5, <2>1 DEF Spawn, SlotFree
    <3> QED
      BY <1>1, <3>2, <3>3, RemoteWorkersAssumption
  <2>2. CASE ClientOf[j] # c
    <3>1. Running(c)' \subseteq Running(c)
      BY <1>5, <2>2 DEF Spawn, Move, Running, JobsOf, TypeOK, Types
    <3> QED
      BY <1>2, <3>1
  <2> QED
    BY <2>1, <2>2
<1>6. ASSUME NEW d \in Clients, Crash(d) PROVE Cardinality(Running(c))' <= MaxWorkers
  <2>1. Running(c)' \subseteq Running(c)
    BY <1>6 DEF Crash, Running, JobsOf
  <2> QED
    BY <1>2, <2>1
<1> QED
  BY <1>3, <1>4, <1>5, <1>6, StepCases

(* runWorkerRemote and the errgroup of executeWorkers: the variables keep
   their types, and no process has more than MaxWorkers workers under way. *)
THEOREM TypeOKHolds == Spec => []TypeOK
<1>1. Init => TypeOK
  <2> SUFFICES ASSUME Init PROVE TypeOK
    OBVIOUS
  <2>1. Types
    BY RemoteWorkersAssumption DEF Init, Types, Phases, Steps
  <2>2. ASSUME NEW c \in Clients PROVE Cardinality(Running(c)) <= MaxWorkers
    <3>1. Running(c) = {}
      BY DEF Init, Running, JobsOf
    <3> QED
      BY <3>1, FS_EmptySet, RemoteWorkersAssumption
  <2> QED
    BY <2>1, <2>2 DEF TypeOK
<1>2. TypeOK /\ [Next]_vars => TypeOK'
  BY TypesStep, PoolStep DEF TypeOK
<1> QED
  BY <1>1, <1>2, PTL DEF Spec

-----------------------------------------------------------------------------
(* Jobs and their instances *)

(* A process that is gone runs nothing; a worker that has not called
   CreateInstance has no instance; one that returned has none left; what a
   reconciliation has yet to examine was listed, and so had been created. *)
JobInv ==
  /\ \A j \in Jobs :
       /\ ~alive(ClientOf[j]) => step[j] \in {"returned", "crashed"}
       /\ step[j] \in {"idle", "starting", "creating"} => cloud[j] = "none"
       /\ step[j] = "returned" /\ cloud[j] = "live" => j \in unacked
  /\ \A c \in Clients : \A j \in unseen[c] : j \in listed[c] /\ cloud[j] # "none"

(* What the end of a reconciliation leaves of every process's variables. *)
LEMMA SweepEnds ==
  ASSUME Types, NEW c \in Clients, EndSweep(c)
  PROVE  \A d \in Clients :
           /\ d = c => unseen'[d] = {} /\ dead'[d] = {}
           /\ d # c => /\ unseen'[d] = unseen[d] /\ dead'[d] = dead[d]
                      /\ listed'[d] = listed[d] /\ active'[d] = active[d]
BY DEF Types, EndSweep

LEMMA JobStepInv == Types /\ JobInv /\ [Next]_vars => JobInv'
<1> SUFFICES ASSUME Types, JobInv, [Next]_vars
             PROVE  JobInv'
  OBVIOUS
<1>1. ASSUME NEW c \in Clients, List(c) PROVE JobInv'
  <2>1. \A d \in Clients : alive(d)' <=> alive(d)
    BY <1>1 DEF Types, List, GoTo, alive
  <2>2. \/ UNCHANGED <<listed, unseen>>
        \/ \E live \in SUBSET {j \in Jobs : cloud[j] = "live"} :
             /\ listed' = [listed EXCEPT ![c] = live]
             /\ unseen' = [unseen EXCEPT ![c] = live]
    BY <1>1 DEF List
  <2>3. UNCHANGED <<step, unacked, cloud>>
    BY <1>1 DEF List, jobVars
  <2> QED
    BY <2>1, <2>2, <2>3, RemoteWorkersAssumption DEF Types, JobInv
<1>2. ASSUME NEW c \in Clients, LoadActiveJobs(c) PROVE JobInv'
  <2>1. \A d \in Clients : alive(d)' <=> alive(d)
    BY <1>2 DEF Types, LoadActiveJobs, GoTo, alive
  <2>2. \A d \in Clients : unseen'[d] = {} \/ (unseen'[d] = unseen[d] /\ listed'[d] = listed[d])
    BY <1>2, SweepEnds DEF LoadActiveJobs
  <2>3. UNCHANGED <<step, unacked, cloud>>
    BY <1>2 DEF LoadActiveJobs, jobVars
  <2> QED
    BY <2>1, <2>2, <2>3, RemoteWorkersAssumption DEF Types, JobInv
<1>3. ASSUME NEW c \in Clients, NEW i \in Jobs, Sweep(c, i) PROVE JobInv'
  <2>1. cloud[i] # "none" /\ (UNCHANGED cloud \/ cloud' = [cloud EXCEPT ![i] = "deleted"])
    BY <1>3 DEF Sweep, Deleted, DeleteFails, JobInv
  <2>2. \A d \in Clients : alive(d)' <=> alive(d)
    BY <1>3 DEF Types, Sweep, GoTo, alive
  <2>3. \A d \in Clients : unseen'[d] \subseteq unseen[d] /\ (unseen'[d] = {} \/ listed'[d] = listed[d])
    BY <1>3 DEF Types, Sweep, EndSweep
  <2>4. UNCHANGED <<step, unacked>>
    BY <1>3 DEF Sweep, jobVars
  <2> QED
    BY <2>1, <2>2, <2>3, <2>4, RemoteWorkersAssumption DEF Types, JobInv
<1>4. ASSUME NEW c \in Clients, Prune(c) PROVE JobInv'
  <2>1. \A d \in Clients : alive(d)' <=> alive(d)
    BY <1>4 DEF Types, Prune, GoTo, alive
  <2>2. \A d \in Clients : unseen'[d] = {} \/ (unseen'[d] = unseen[d] /\ listed'[d] = listed[d])
    BY <1>4, SweepEnds DEF Prune
  <2>3. UNCHANGED <<step, unacked, cloud>>
    BY <1>4 DEF Prune, jobVars
  <2> QED
    BY <2>1, <2>2, <2>3, RemoteWorkersAssumption DEF Types, JobInv
<1>5. ASSUME NEW c \in Clients, BuildCustomToolchain(c) \/ Wait(c) PROVE JobInv'
  <2>1. \A d \in Clients : alive(d)' <=> alive(d)
    BY <1>5 DEF Types, BuildCustomToolchain, Wait, GoTo, alive
  <2>2. UNCHANGED <<step, unacked, cloud, listed, unseen>>
    BY <1>5 DEF BuildCustomToolchain, Wait, sweepVars, jobVars
  <2> QED
    BY <2>1, <2>2, RemoteWorkersAssumption DEF JobInv
<1>6. ASSUME NEW j \in Jobs, Spawn(j) PROVE JobInv'
  BY <1>6 DEF Types, JobInv, alive, Spawn, Move, clientVars, sweepVars
<1>7. ASSUME NEW j \in Jobs, Begin(j) PROVE JobInv'
  BY <1>7 DEF Types, JobInv, alive, Begin, Move, clientVars, sweepVars
<1>8. ASSUME NEW j \in Jobs, Create(j) PROVE JobInv'
  <2>1. step[j] = "creating" /\ UNCHANGED <<phase, listed, unseen>>
    BY <1>8 DEF Create, clientVars, sweepVars
  <2>2. \/ step' = [step EXCEPT ![j] = "domains"] /\ unacked' = unacked
        \/ step' = [step EXCEPT ![j] = "returned"] /\ unacked' = unacked /\ cloud' = cloud
        \/ step' = [step EXCEPT ![j] = "returned"] /\ unacked' = unacked \cup {j}
    BY <1>8 DEF Create, Return, Move
  <2>3. cloud' = cloud \/ cloud' = [cloud EXCEPT ![j] = "live"]
    BY <1>8 DEF Create
  <2> QED
    BY <2>1, <2>2, <2>3 DEF Types, JobInv, alive
<1>9. ASSUME NEW j \in Jobs, Discard(j) \/ Destroy(j) PROVE JobInv'
  <2>1. UNCHANGED <<phase, listed, unseen>> /\ step' = [step EXCEPT ![j] = "returned"]
    BY <1>9 DEF Discard, Destroy, Return, Move, clientVars, sweepVars
  <2>2. step[j] \in {"discard", "destroy"}
    BY <1>9 DEF Discard, Destroy
  <2>3. \/ cloud' = [cloud EXCEPT ![j] = "deleted"] /\ unacked' = unacked
        \/ /\ cloud' = cloud \/ cloud' = [cloud EXCEPT ![j] = "deleted"]
           /\ unacked' = unacked \cup {j}
    BY <1>9 DEF Discard, Destroy, DeleteInstance, Deleted, DeleteFails
  <2> QED
    BY <2>1, <2>2, <2>3 DEF Types, JobInv, alive
<1>10. ASSUME NEW j \in Jobs, \/ ResolveURL(j) \/ Call(j) \/ RegisterLoad(j) \/ RegisterSave(j)
                              \/ UnregisterLoad(j) \/ UnregisterSave(j)
       PROVE  JobInv'
  <2>1. /\ UNCHANGED <<phase, listed, unseen, cloud, unacked>>
        /\ step[j] \notin {"idle", "starting", "creating", "returned", "crashed"}
        /\ \E s \in DOMAIN After \cup {"regLoad", "discard", "regSave", "unregLoad", "unregSave", "destroy"} :
             step' = [step EXCEPT ![j] = s]
    <3>1. CASE ResolveURL(j) \/ RegisterLoad(j) \/ UnregisterLoad(j)
      BY <3>1, AfterDomain DEF ResolveURL, RegisterLoad, UnregisterLoad, Move, clientVars, sweepVars
    <3>2. CASE RegisterSave(j) \/ UnregisterSave(j)
      BY <3>2, AfterDomain DEF RegisterSave, UnregisterSave, Move, clientVars, sweepVars
    <3>3. CASE Call(j)
      BY <3>3, AfterDomain DEF Call, Move, clientVars, sweepVars
    <3> QED
      BY <1>10, <3>1, <3>2, <3>3
  <2> QED
    BY <2>1, AfterDomain DEF Types, JobInv, alive
<1>11. ASSUME NEW c \in Clients, Crash(c) PROVE JobInv'
  <2>1. \A d \in Clients : alive(d)' <=> (alive(d) /\ d # c)
    BY <1>11 DEF Types, Crash, GoTo, alive
  <2>2. \A d \in Clients : unseen'[d] = {} \/ (unseen'[d] = unseen[d] /\ listed'[d] = listed[d])
    BY <1>11, SweepEnds DEF Crash
  <2>3. /\ UNCHANGED <<unacked, cloud>>
        /\ \A j \in Jobs : step'[j] = IF ClientOf[j] = c /\ step[j] # "returned" THEN "crashed" ELSE step[j]
    BY <1>11 DEF Crash, JobsOf
  <2> QED
    BY <2>1, <2>2, <2>3, RemoteWorkersAssumption DEF Types, JobInv
<1>12. CASE UNCHANGED vars \/ \E c \in Clients : Interrupt(c)
  BY <1>12 DEF JobInv, alive, Interrupt, vars, clientVars, sweepVars, jobVars
<1> QED
  BY <1>1, <1>2, <1>3, <1>4, <1>5, <1>6, <1>7, <1>8, <1>9, <1>10, <1>11, <1>12
     DEF Next, ClientStep, JobStep, JobsOf

(* The deferred clean-up of runWorkerRemote and that of Provision: a worker
   that returned left no instance behind, unless a reply never came. *)
THEOREM LeakOnlyOnLostReplyHolds == Spec => []LeakOnlyOnLostReply
<1>1. Init => JobInv
  BY RemoteWorkersAssumption DEF Init, JobInv, alive
<1>2. JobInv => LeakOnlyOnLostReply
  BY DEF JobInv, LeakOnlyOnLostReply
<1>3. TypeOK => Types
  BY DEF TypeOK
<1> QED
  BY <1>1, <1>2, <1>3, JobStepInv, TypeOKHolds, PTL DEF Spec

-----------------------------------------------------------------------------
(* The file of active jobs *)

(* From the end of RegisterActiveJob to that of UnregisterActiveJob. *)
Registered == DOMAIN After \cup {"unregLoad", "unregSave"}

FileInv ==
  \A j \in Jobs : alive(ClientOf[j]) =>
    IF step[j] \in Registered THEN j \in file \cup exposed ELSE j \notin file \/ j \in stale

(* A write of the file by j, or by a reconciliation, keeps what is said of the
   other jobs: what it takes away is exposed, what it brings back is stale. *)
LEMMA SaveKeeps ==
  ASSUME NEW entries, NEW own, Save(entries, own), NEW i, i \notin own
  PROVE  /\ i \in file \cup exposed => i \in file' \cup exposed'
         /\ i \notin file \/ i \in stale => i \notin file' \/ i \in stale'
BY DEF Save

LEMMA FileStepInv == Types /\ FileInv /\ [Next]_vars => FileInv'
<1> SUFFICES ASSUME Types, FileInv, [Next]_vars
             PROVE  FileInv'
  OBVIOUS
<1> DEFINE Fine(j) == IF step[j] \in Registered THEN j \in file \cup exposed
                                                ELSE j \notin file \/ j \in stale
<1>1. ASSUME NEW i \in Jobs, UNCHANGED phase,
             \A j \in Jobs \ {i} : step'[j] = step[j],
             \A j \in Jobs \ {i} : Fine(j) => Fine(j)',
             alive(ClientOf[i]) => Fine(i)'
      PROVE  FileInv'
  BY <1>1 DEF FileInv, alive
<1>2. ASSUME UNCHANGED <<step, file, stale>>, exposed \subseteq exposed',
             \A c \in Clients : alive(c)' => alive(c)
      PROVE  FileInv'
  BY <1>2, RemoteWorkersAssumption DEF FileInv
<1>3. ASSUME NEW c \in Clients,
             List(c) \/ LoadActiveJobs(c) \/ BuildCustomToolchain(c) \/ Wait(c) \/ Interrupt(c)
      PROVE  FileInv'
  <2>1. UNCHANGED <<step, file, stale>> /\ exposed \subseteq exposed'
    BY <1>3 DEF List, LoadActiveJobs, BuildCustomToolchain, Wait, Interrupt, jobVars
  <2>2. \A d \in Clients : alive(d)' => alive(d)
    BY <1>3 DEF Types, alive, List, LoadActiveJobs, BuildCustomToolchain, Wait, Interrupt, GoTo, clientVars
  <2> QED
    BY <1>2, <2>1, <2>2
<1>4. ASSUME NEW c \in Clients, NEW j \in Jobs, Sweep(c, j) PROVE FileInv'
  <2>1. UNCHANGED <<step, file, stale, exposed>>
    BY <1>4 DEF Sweep, jobVars
  <2>2. \A d \in Clients : alive(d)' => alive(d)
    BY <1>4 DEF Types, alive, Sweep, GoTo
  <2> QED
    BY <1>2, <2>1, <2>2
<1>5. ASSUME NEW c \in Clients, Prune(c) PROVE FileInv'
  <2>1. UNCHANGED step /\ ((\E entries : Save(entries, {})) \/ UNCHANGED <<file, exposed, stale>>)
    BY <1>5 DEF Prune, jobVars
  <2>2. \A d \in Clients : alive(d)' => alive(d)
    BY <1>5 DEF Types, alive, Prune, GoTo
  <2> QED
    BY <2>1, <2>2, SaveKeeps, RemoteWorkersAssumption DEF FileInv
<1>6. ASSUME NEW j \in Jobs,
             Spawn(j) \/ Begin(j) \/ Create(j) \/ ResolveURL(j) \/ Discard(j) \/ Destroy(j)
      PROVE  FileInv'
  <2>1. UNCHANGED <<phase, file, exposed, stale>>
    BY <1>6 DEF Spawn, Begin, Create, ResolveURL, Discard, Destroy, clientVars
  <2>2. /\ step[j] \in {"idle", "starting", "creating", "domains", "discard", "destroy"}
        /\ \E s \in {"starting", "creating", "domains", "discard", "regLoad", "returned"} :
             step' = [step EXCEPT ![j] = s]
    BY <1>6 DEF Spawn, Begin, Create, ResolveURL, Discard, Destroy, Return, Move
  <2>3. alive(ClientOf[j]) => Fine(j)'
    BY <2>1, <2>2, AfterDomain DEF Types, FileInv, Registered
  <2> QED
    BY <1>1, <2>1, <2>2, <2>3 DEF Types
<1>7. ASSUME NEW j \in Jobs, Call(j) PROVE FileInv'
  <2>1. UNCHANGED <<phase, file, exposed, stale>>
    BY <1>7 DEF Call, clientVars
  <2>2. step[j] \in Registered /\ \E s \in Registered : step' = [step EXCEPT ![j] = s]
    BY <1>7, AfterDomain DEF Call, Move, Registered
  <2>3. alive(ClientOf[j]) => Fine(j)'
    BY <2>1, <2>2 DEF Types, FileInv
  <2> QED
    BY <1>1, <2>1, <2>2, <2>3 DEF Types
<1>8. ASSUME NEW j \in Jobs, RegisterLoad(j) \/ UnregisterLoad(j) PROVE FileInv'
  <2>1. UNCHANGED <<phase, file>> /\ exposed \subseteq exposed' /\ stale \subseteq stale'
    BY <1>8 DEF RegisterLoad, UnregisterLoad, clientVars
  <2>2. \/ step[j] = "regLoad" /\ step' = [step EXCEPT ![j] = "regSave"]
        \/ step[j] = "regLoad" /\ step' = [step EXCEPT ![j] = "health"] /\ j \in exposed'
        \/ step[j] = "unregLoad" /\ step' = [step EXCEPT ![j] = "unregSave"]
        \/ step[j] = "unregLoad" /\ step' = [step EXCEPT ![j] = "destroy"] /\ j \in stale'
    BY <1>8 DEF RegisterLoad, UnregisterLoad, Move
  <2>3. alive(ClientOf[j]) => Fine(j)'
    BY <2>1, <2>2, AfterDomain DEF Types, FileInv, Registered
  <2> QED
    BY <1>1, <2>1, <2>2, <2>3 DEF Types
<1>9. ASSUME NEW j \in Jobs, RegisterSave(j) PROVE FileInv'
  <2>1. UNCHANGED phase /\ step' = [step EXCEPT ![j] = "health"]
    BY <1>9 DEF RegisterSave, Move, clientVars
  <2>2. \/ Save(view[j] \cup {j}, {j})
        \/ exposed' = exposed \cup {j} /\ UNCHANGED <<file, stale>>
    BY <1>9 DEF RegisterSave
  <2>3. alive(ClientOf[j]) => Fine(j)'
    BY <2>1, <2>2, AfterDomain DEF Types, Registered, Save
  <2>4. \A i \in Jobs \ {j} : Fine(i) => Fine(i)'
    BY <2>1, <2>2, SaveKeeps DEF Types
  <2> QED
    BY <1>1, <2>1, <2>3, <2>4 DEF Types
<1>10. ASSUME NEW j \in Jobs, UnregisterSave(j) PROVE FileInv'
  <2>1. UNCHANGED phase /\ step' = [step EXCEPT ![j] = "destroy"]
    BY <1>10 DEF UnregisterSave, Move, clientVars
  <2>2. \/ Save(view[j] \ {j}, {j})
        \/ stale' = stale \cup {j} /\ UNCHANGED <<file, exposed>>
    BY <1>10 DEF UnregisterSave
  <2>3. alive(ClientOf[j]) => Fine(j)'
    BY <2>1, <2>2, AfterDomain DEF Types, Registered, Save
  <2>4. \A i \in Jobs \ {j} : Fine(i) => Fine(i)'
    BY <2>1, <2>2, SaveKeeps DEF Types
  <2> QED
    BY <1>1, <2>1, <2>3, <2>4 DEF Types
<1>11. ASSUME NEW c \in Clients, Crash(c) PROVE FileInv'
  <2>1. UNCHANGED <<file, exposed, stale>> /\ \A d \in Clients : alive(d)' <=> (alive(d) /\ d # c)
    BY <1>11 DEF Types, Crash, GoTo, alive
  <2>2. \A j \in Jobs : ClientOf[j] # c => step'[j] = step[j]
    BY <1>11 DEF Crash, JobsOf
  <2> QED
    BY <2>1, <2>2, RemoteWorkersAssumption DEF FileInv
<1>12. CASE UNCHANGED vars
  BY <1>2, <1>12 DEF vars, clientVars, jobVars, alive
<1> QED
  BY <1>3, <1>4, <1>5, <1>6, <1>7, <1>8, <1>9, <1>10, <1>11, <1>12
     DEF Next, ClientStep, JobStep, JobsOf

(* RegisterActiveJob and UnregisterActiveJob, which read, change and rewrite
   the file without a lock: only overlaps and errors make it differ from the
   jobs of running processes. *)
THEOREM FileFollowsJobsHolds == Spec => []FileFollowsJobs
<1>1. Init => FileInv
  BY AfterDomain, RemoteWorkersAssumption DEF Init, FileInv, Registered
<1>2. FileInv => FileFollowsJobs
  BY AfterDomain DEF FileInv, FileFollowsJobs, Registered
<1>3. TypeOK => Types
  BY DEF TypeOK
<1> QED
  BY <1>1, <1>2, <1>3, FileStepInv, TypeOKHolds, PTL DEF Spec

-----------------------------------------------------------------------------
(* Reconciliation *)

(* What a process that reconciles may rely on while it goes through the
   listing: an instance without an entry is in use only when its entry was lost
   or looked for too early; one that was left by a crash is deleted or still to
   be examined. *)
SweepInv ==
  /\ killed \subseteq exposed
  /\ \A c \in Clients :
       /\ \A j \in unseen[c] :
            phase[c] = "sweep" /\ j \notin active[c] /\ InUse(j) => j \in exposed
       /\ \A j \in dead[c] : /\ ~alive(ClientOf[j]) /\ phase[c] \in {"load", "sweep"}
                             /\ j \in unseen[c] \/ cloud[j] = "deleted"

(* Only Create makes a job's instance one that is used. *)
LEMMA UseBegins ==
  ASSUME Types, [Next]_vars, NEW j \in Jobs
  PROVE  \/ InUse(j)' => InUse(j)
         \/ step[j] = "creating"
<1>1. ASSUME NEW c \in Clients, \/ List(c) \/ LoadActiveJobs(c) \/ Prune(c) \/ Wait(c)
                                \/ BuildCustomToolchain(c) \/ Interrupt(c)
      PROVE  UNCHANGED step
  BY <1>1 DEF List, LoadActiveJobs, Prune, Wait, BuildCustomToolchain, Interrupt, jobVars
<1>2. ASSUME NEW c \in Clients, NEW i \in Jobs, Sweep(c, i) PROVE UNCHANGED step
  BY <1>2 DEF Sweep, jobVars
<1>3. ASSUME NEW i \in Jobs, Spawn(i) \/ Begin(i) \/ Create(i) \/ Discard(i) \/ Destroy(i)
      PROVE  (InUse(j)' => InUse(j)) \/ step[j] = "creating"
  BY <1>3, AfterDomain
     DEF Types, InUse, Registering, Spawn, Begin, Create, Discard, Destroy, Return, Move
<1>4. ASSUME NEW i \in Jobs, \/ ResolveURL(i) \/ Call(i) \/ RegisterLoad(i) \/ RegisterSave(i)
                             \/ UnregisterLoad(i) \/ UnregisterSave(i)
      PROVE  InUse(j)' => InUse(j)
  BY <1>4, AfterDomain
     DEF Types, InUse, Registering, ResolveURL, Call, RegisterLoad, RegisterSave,
         UnregisterLoad, UnregisterSave, Move
<1>5. ASSUME NEW c \in Clients, Crash(c) PROVE InUse(j)' => InUse(j)
  BY <1>5, AfterDomain DEF InUse, Registering, Crash
<1>6. CASE UNCHANGED vars
  BY <1>6 DEF vars, jobVars, InUse
<1> QED
  BY <1>1, <1>2, <1>3, <1>4, <1>5, <1>6 DEF Next, ClientStep, JobStep, JobsOf, InUse

LEMMA SweepStepInv == Types /\ JobInv /\ FileInv /\ SweepInv /\ [Next]_vars => SweepInv'
<1> SUFFICES ASSUME Types, JobInv, FileInv, SweepInv, [Next]_vars
             PROVE  SweepInv'
  OBVIOUS
<1>1. \A c \in Clients : \A j \in unseen[c] : InUse(j)' => InUse(j)
  <2> SUFFICES ASSUME NEW c \in Clients, NEW j \in unseen[c]
               PROVE  InUse(j)' => InUse(j)
    OBVIOUS
  <2>1. j \in Jobs /\ step[j] # "creating"
    BY DEF Types, JobInv
  <2> QED
    BY <2>1, UseBegins
(* A step that leaves the reconciliations alone, or ends some. *)
<1>2. ASSUME exposed \subseteq exposed', UNCHANGED killed,
             \A j \in Jobs : cloud[j] = "deleted" => cloud'[j] = "deleted",
             \A c \in Clients : alive(c)' => alive(c),
             \A c \in Clients :
               \/ unseen'[c] = {} /\ dead'[c] = {}
               \/ /\ unseen'[c] = unseen[c] /\ dead'[c] = dead[c] /\ active'[c] = active[c]
                  /\ phase'[c] = phase[c]
      PROVE  SweepInv'
  BY <1>1, <1>2, RemoteWorkersAssumption DEF SweepInv, Types
<1>3. ASSUME NEW c \in Clients, List(c) PROVE SweepInv'
  <2>1. UNCHANGED <<killed, exposed, cloud, step, active>>
    BY <1>3 DEF List, jobVars
  <2>2. \A d \in Clients : alive(d)' <=> alive(d)
    BY <1>3 DEF Types, List, GoTo, alive
  <2>3. \A d \in Clients \ {c} : /\ unseen'[d] = unseen[d] /\ dead'[d] = dead[d]
                                 /\ phase'[d] = phase[d]
    BY <1>3 DEF Types, List, GoTo
  <2>4. dead[c] = {}
    BY <1>3 DEF SweepInv, List
  <2>5. /\ phase'[c] # "sweep"
        /\ \A j \in dead'[c] : j \in Jobs /\ j \in unseen'[c] /\ ~alive(ClientOf[j]) /\ phase'[c] = "load"
    BY <1>3, <2>4 DEF Types, List, GoTo
  <2> QED
    BY <2>1, <2>2, <2>3, <2>5, RemoteWorkersAssumption DEF SweepInv, Types, InUse
<1>4. ASSUME NEW c \in Clients, LoadActiveJobs(c) PROVE SweepInv'
  <2>1. UNCHANGED <<killed, cloud, step>>
    BY <1>4 DEF LoadActiveJobs, jobVars
  <2>2. \A d \in Clients : alive(d)' <=> alive(d)
    BY <1>4 DEF Types, LoadActiveJobs, GoTo, alive
  <2>3. CASE EndSweep(c)
    <3>1. exposed \subseteq exposed' /\ \A d \in Clients \ {c} : phase'[d] = phase[d]
      BY <1>4 DEF Types, LoadActiveJobs, GoTo
    <3> QED
      BY <1>2, <2>1, <2>2, <2>3, <3>1, SweepEnds
  <2>4. CASE ~EndSweep(c)
    <3>1. /\ UNCHANGED <<listed, unseen, dead>> /\ phase' = [phase EXCEPT ![c] = "sweep"]
          /\ active' = [active EXCEPT ![c] = file]
          /\ exposed' = exposed \cup {j \in listed[c] : step[j] \in Registering}
      BY <1>4, <2>4 DEF LoadActiveJobs, GoTo
    <3>2. ASSUME NEW j \in unseen[c], j \notin file, InUse(j) PROVE j \in exposed'
      <4>1. j \in Jobs /\ j \in listed[c]
        BY DEF JobInv, Types
      <4>2. CASE step[j] \in Registering
        BY <3>1, <4>1, <4>2
      <4>3. CASE step[j] \in DOMAIN After
        <5>1. alive(ClientOf[j])
          BY <4>1, <4>3, AfterDomain DEF JobInv
        <5>2. j \in exposed
          BY <3>2, <4>1, <4>3, <5>1 DEF FileInv, Registered
        <5> QED
          BY <3>1, <5>2
      <4> QED
        BY <3>2, <4>2, <4>3 DEF InUse
    <3> QED
      BY <2>1, <2>2, <3>1, <3>2, RemoteWorkersAssumption DEF SweepInv, Types, InUse
  <2> QED
    BY <2>3, <2>4
<1>5. ASSUME NEW c \in Clients, NEW i \in Jobs, Sweep(c, i) PROVE SweepInv'
  <2>1. UNCHANGED <<step, exposed>> /\ phase[c] = "sweep" /\ i \in unseen[c]
    BY <1>5 DEF Sweep, jobVars
  <2>2. \A d \in Clients : alive(d)' <=> alive(d)
    BY <1>5 DEF Types, Sweep, GoTo, alive
  <2>3. ~Spared(c, i) /\ InUse(i) => i \in exposed
    <3>1. InUse(i) => alive(ClientOf[i])
      BY AfterDomain DEF JobInv, InUse, Registering
    <3> QED
      BY <2>1, <3>1 DEF Spared, SweepInv
  <2>4. killed' \subseteq exposed'
    BY <1>5, <2>1, <2>3 DEF Sweep, SweepInv
  <2>5. \A j \in Jobs : cloud[j] = "deleted" => cloud'[j] = "deleted"
    BY <1>5 DEF Types, Sweep, Deleted, DeleteFails
  <2>6. CASE EndSweep(c)
    <3>1. \A d \in Clients \ {c} : phase'[d] = phase[d]
      BY <1>5 DEF Types, Sweep, GoTo
    <3>2. /\ unseen'[c] = {} /\ dead'[c] = {}
          /\ \A d \in Clients \ {c} : /\ unseen'[d] = unseen[d] /\ dead'[d] = dead[d]
                                      /\ active'[d] = active[d]
      BY <2>6, SweepEnds
    <3> QED
      BY <2>1, <2>2, <2>4, <2>5, <3>1, <3>2, RemoteWorkersAssumption DEF SweepInv, Types, InUse
  <2>7. CASE ~EndSweep(c)
    <3>1. /\ UNCHANGED <<phase, dead>> /\ unseen' = [unseen EXCEPT ![c] = unseen[c] \ {i}]
          /\ active' = active \/ active' = [active EXCEPT ![c] = active[c] \ {i}]
          /\ Spared(c, i) \/ Deleted(i)
      BY <1>5, <2>7 DEF Sweep
    <3>2. i \in dead[c] => cloud'[i] = "deleted"
      BY <3>1 DEF Types, SweepInv, Spared, Deleted
    <3> QED
      BY <2>1, <2>2, <2>4, <2>5, <3>1, <3>2, RemoteWorkersAssumption DEF SweepInv, Types, InUse
  <2> QED
    BY <2>6, <2>7
<1>6. ASSUME NEW c \in Clients, Prune(c) \/ Crash(c) PROVE SweepInv'
  <2>1. UNCHANGED <<killed, cloud>> /\ exposed \subseteq exposed'
    BY <1>6 DEF Prune, Crash, Save
  <2>2. \A d \in Clients : alive(d)' => alive(d)
    BY <1>6 DEF Types, Prune, Crash, GoTo, alive
  <2>3. EndSweep(c) /\ \A d \in Clients \ {c} : phase'[d] = phase[d]
    BY <1>6 DEF Types, Prune, Crash, GoTo
  <2> QED
    BY <1>2, <2>1, <2>2, <2>3, SweepEnds
<1>7. ASSUME NEW c \in Clients, BuildCustomToolchain(c) \/ Wait(c) PROVE SweepInv'
  <2>1. UNCHANGED <<killed, cloud, exposed, step, unseen, dead, active>>
    BY <1>7 DEF BuildCustomToolchain, Wait, sweepVars, jobVars
  <2>2. \A d \in Clients : alive(d)' <=> alive(d)
    BY <1>7 DEF Types, BuildCustomToolchain, Wait, GoTo, alive
  <2>3. /\ phase[c] \notin {"load", "sweep"} /\ phase'[c] # "sweep"
        /\ \A d \in Clients \ {c} : phase'[d] = phase[d]
    BY <1>7 DEF Types, BuildCustomToolchain, Wait, GoTo
  <2> QED
    BY <2>1, <2>2, <2>3, RemoteWorkersAssumption DEF SweepInv, Types, InUse
<1>8. ASSUME NEW j \in Jobs, JobStep(j) \/ Spawn(j) PROVE SweepInv'
  <2>1. UNCHANGED <<phase, listed, unseen, active, dead, killed>> /\ exposed \subseteq exposed'
    <3>1. CASE RegisterLoad(j) \/ RegisterSave(j) \/ UnregisterLoad(j) \/ UnregisterSave(j)
      BY <3>1 DEF RegisterLoad, RegisterSave, UnregisterLoad, UnregisterSave, Save, clientVars, sweepVars
    <3>2. CASE Begin(j) \/ Create(j) \/ ResolveURL(j) \/ Discard(j) \/ Call(j) \/ Destroy(j) \/ Spawn(j)
      BY <3>2 DEF Begin, Create, ResolveURL, Discard, Call, Destroy, Spawn, clientVars, sweepVars
    <3> QED
      BY <1>8, <3>1, <3>2 DEF JobStep
  <2>2. \A i \in Jobs : cloud[i] = "deleted" => cloud'[i] = "deleted"
    <3>1. CASE UNCHANGED cloud \/ cloud' = [cloud EXCEPT ![j] = "deleted"]
      BY <3>1 DEF Types
    <3>2. CASE step[j] = "creating" /\ cloud' = [cloud EXCEPT ![j] = "live"]
      BY <3>2 DEF Types, JobInv
    <3>3. CASE Create(j) \/ Discard(j) \/ Destroy(j)
      BY <3>1, <3>2, <3>3 DEF Create, Discard, Destroy, DeleteInstance, Deleted, DeleteFails
    <3>4. CASE \/ Begin(j) \/ ResolveURL(j) \/ Call(j) \/ RegisterLoad(j) \/ RegisterSave(j)
               \/ UnregisterLoad(j) \/ UnregisterSave(j) \/ Spawn(j)
      BY <3>1, <3>4 DEF Begin, ResolveURL, Call, RegisterLoad, RegisterSave, UnregisterLoad,
                        UnregisterSave, Spawn
    <3> QED
      BY <1>8, <3>3, <3>4 DEF JobStep
  <2> QED
    BY <1>2, <2>1, <2>2 DEF alive
<1>9. CASE UNCHANGED vars \/ \E c \in Clients : Interrupt(c)
  <2>1. UNCHANGED <<phase, unseen, active, dead, killed, cloud, exposed>>
    BY <1>9 DEF vars, Interrupt, clientVars, sweepVars
  <2> QED
    BY <1>2, <2>1 DEF alive
<1> QED
  BY <1>3, <1>4, <1>5, <1>6, <1>7, <1>8, <1>9 DEF Next, ClientStep, JobsOf

(* The inductive invariant of the whole, with what it rests on. *)
WorkersInv == Types /\ JobInv /\ FileInv /\ SweepInv

LEMMA WorkersInvHolds == Spec => []WorkersInv
<1>1. Init => JobInv /\ FileInv /\ SweepInv
  BY AfterDomain, RemoteWorkersAssumption DEF Init, JobInv, FileInv, SweepInv, Registered, alive
<1>2. TypeOK => Types
  BY DEF TypeOK
<1> QED
  BY <1>1, <1>2, TypeOKHolds, JobStepInv, FileStepInv, SweepStepInv, PTL DEF Spec, WorkersInv

(* ReconcileOrphanInstances spares what is registered by a living process: it
   deletes an instance in use only after a race over the file, or between the
   creation of the instance and its registration. *)
THEOREM KilledOnlyByRaceHolds == Spec => []KilledOnlyByRace
<1>1. WorkersInv => KilledOnlyByRace
  BY DEF WorkersInv, SweepInv, KilledOnlyByRace
<1> QED
  BY <1>1, WorkersInvHolds, PTL

(* A ReconcileOrphanInstances that reaches its end has deleted every instance
   whose process had crashed before the listing, whatever runs beside it. *)
THEOREM OrphansReclaimedHolds == Spec => OrphansReclaimed
<1>1. WorkersInv => [\A c \in Clients : Prune(c) => \A j \in dead[c] : cloud[j] = "deleted"]_vars
  BY DEF WorkersInv, SweepInv, Prune
<1> QED
  BY <1>1, WorkersInvHolds, PTL DEF OrphansReclaimed
=============================================================================
