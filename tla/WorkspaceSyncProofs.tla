------------------------ MODULE WorkspaceSyncProofs ------------------------
(***************************************************************************)
(* Proofs about WorkspaceSync.  While no command has failed, the step a    *)
(* sync has reached says which branch is checked out, what is staged and   *)
(* whose writes may be in the tree, the index and the branch; a tree found *)
(* clean stays so, file by file, until the copy overwrites it; and a file  *)
(* that was sent is in every tree and branch as long as every archive came *)
(* back whole.                                                             *)
(***************************************************************************)
EXTENDS WorkspaceSync, TLAPS

(* The types, by the kind of the values. *)
Places ==
  /\ at \in [Workers -> {"upload", "exec", "done", "download", "returned"} \cup Syncing]
  /\ cancelled \in BOOLEAN
  /\ on \in Workers \cup {Home} /\ prev \in Workers \cup {Home, None}
  /\ current \in [Workers -> Workers \cup {Home, None}]
Repository ==
  /\ work \in Trees /\ index \in Trees /\ fork \in Trees /\ refs \in [Workers \cup {Home} -> Trees]
Copies == unsent \in [Workers -> SUBSET Files] /\ copy \in [Workers -> Trees]
History ==
  /\ failed \subseteq Workers /\ late \subseteq Files
  /\ mixed \subseteq Workers /\ accepted \subseteq Workers /\ torn \subseteq Workers

(* gitMu *)
OneSync == \A v, w \in Workers : at[v] \in Syncing /\ at[w] \in Syncing => v = w

LEMMA TypeParts == TypeOK <=> Places /\ Repository /\ Copies /\ History /\ OneSync
BY DEF TypeOK, Types, Places, Repository, Copies, History, OneSync

-----------------------------------------------------------------------------
(* Trees *)

LEMMA BranchType == ASSUME NEW t \in Trees PROVE Branch(t) \in Trees
BY DEF Branch, Trees

(* What git checkout and git merge leave in the tree and the index. *)
LEMMA SwitchResult ==
  ASSUME Repository, NEW t \in Trees, Switch(t)
  PROVE  /\ work' \in Trees /\ index' \in Trees
         /\ \A f \in Files : work'[f] = work[f] \/ work'[f] = t[f]
         /\ \A f \in Files : index'[f] = index[f] \/ index'[f] = t[f]
BY DEF Switch, Repository, Trees

(* An index that agrees with the commit becomes the new commit. *)
LEMMA SwitchClean ==
  ASSUME Repository, on \in Workers \cup {Home}, index = refs[on],
         NEW t \in Trees, Switch(t)
  PROVE  index' = t
BY DEF Switch, Differs, Repository, Trees

(* A file that git replaces had no local changes. *)
LEMMA SwitchKeeps ==
  ASSUME Repository, on \in Workers \cup {Home}, NEW t \in Trees, Switch(t),
         NEW f \in Files \ Ignored, work'[f] # work[f]
  PROVE  work[f] = refs[on][f]
BY DEF Switch, Locked, Differs, Branch, Repository, Trees

(* A merge gives a tree, of what is on one side; a file that only one side has
   changed is taken from there. *)
LEMMA MergeResult ==
  ASSUME Places, Repository, NEW w \in Workers, Merge(w)
  PROVE  \/ UNCHANGED <<work, index, refs>>
         \/ \E t \in Trees :
              /\ Switch(t) /\ refs' \in {refs, [refs EXCEPT ![on] = t]}
              /\ \A f \in Files : refs[on][f] # {} /\ refs[w][f] # {} => t[f] # {}
              /\ \A f \in Files : t[f] \subseteq refs[on][f] \cup refs[w][f]
<1>1. /\ refs[on] \in Trees /\ refs[w] \in Trees /\ fork \in Trees
  BY DEF Places, Repository
<1>2. \A f \in Files \ Contested(w) :
        refs[on][f] # {} /\ refs[w][f] # {} => Merged(w, f) # {}
  <2>1. SUFFICES ASSUME NEW f \in Files \ Contested(w), refs[on][f] # {}, refs[w][f] # {}
                 PROVE  Merged(w, f) # {}
    OBVIOUS
  <2>2. refs[on][f] = fork[f] \/ refs[on][f] = refs[w][f] \/ refs[w][f] = fork[f]
    BY DEF Contested
  <2>3. Merged(w, f) = refs[w][f] \/ Merged(w, f) = refs[on][f]
    BY <2>2 DEF Merged
  <2> QED
    BY <2>1, <2>3
<1>k. \A f \in Files : Merged(w, f) \subseteq refs[on][f] \cup refs[w][f]
  BY DEF Merged
<1>3. [f \in Files |-> Merged(w, f)] \in Trees /\ Conflicted(w) \in Trees
  BY <1>1 DEF Merged, Conflicted, Trees
<1>4. CASE UNCHANGED <<work, index, refs>>
  BY <1>4
<1>5. CASE /\ \A f \in Contested(w) : {} \notin {refs[on][f], refs[w][f], Merged(w, f)}
           /\ Switch([f \in Files |-> Merged(w, f)])
           /\ refs' = [refs EXCEPT ![on] = [f \in Files |-> Merged(w, f)]]
           /\ UNCHANGED failed
  <2> DEFINE t == [f \in Files |-> Merged(w, f)]
  <2>1. \A f \in Files : refs[on][f] # {} /\ refs[w][f] # {} => t[f] # {}
    BY <1>2, <1>5
  <2>2. \A f \in Files : t[f] \subseteq refs[on][f] \cup refs[w][f]
    BY <1>k
  <2> QED
    BY <1>3, <1>5, <2>1, <2>2
<1>6. CASE /\ Contested(w) # {} /\ Switch(Conflicted(w))
           /\ failed' = failed \cup {w} /\ UNCHANGED refs
  <2>1. \A f \in Files : refs[on][f] # {} /\ refs[w][f] # {} => Conflicted(w)[f] # {}
    BY <1>2 DEF Conflicted
  <2>2. \A f \in Files : Conflicted(w)[f] \subseteq refs[on][f] \cup refs[w][f]
    BY <1>k DEF Conflicted
  <2> QED
    BY <1>3, <1>6, <2>1, <2>2
<1> QED
  BY <1>4, <1>5, <1>6 DEF Merge

(* A merge that is not recorded as failed has made its commit. *)
LEMMA MergeHappens ==
  ASSUME Places, Repository, NEW w \in Workers, Merge(w), failed = {}, failed' = {}
  PROVE  \E t \in Trees : Switch(t) /\ refs' = [refs EXCEPT ![on] = t]
<1>1. /\ refs[on] \in Trees /\ refs[w] \in Trees /\ fork \in Trees
  BY DEF Places, Repository
<1>2. [f \in Files |-> Merged(w, f)] \in Trees
  BY <1>1 DEF Merged, Trees
<1>3. /\ Switch([f \in Files |-> Merged(w, f)])
      /\ refs' = [refs EXCEPT ![on] = [f \in Files |-> Merged(w, f)]]
  BY DEF Merge, MergeRefused, Refused, Failed
<1> QED
  BY <1>2, <1>3

LEMMA CopyResult ==
  ASSUME Repository, Copies, NEW w \in Workers, CopyFiles(w)
  PROVE  /\ work' \in Trees
         /\ \A f \in Files : work'[f] = work[f] \/ work'[f] = copy[w][f]
<1>1. \A part \in SUBSET Files : Overwrite(w, part) \in Trees
  BY DEF Overwrite, Repository, Copies, Trees
<1>2. \A part \in SUBSET Files, f \in Files :
        Overwrite(w, part)[f] = work[f] \/ Overwrite(w, part)[f] = copy[w][f]
  BY DEF Overwrite
<1>3. \A done \in SUBSET Files, t \in Trees : Fallback(w, done, t) \in Trees
  BY DEF Fallback, Copies, Trees
<1>4. \A done \in SUBSET Files, t \in Trees, f \in Files :
        Fallback(w, done, t)[f] = t[f] \/ Fallback(w, done, t)[f] = copy[w][f]
  BY DEF Fallback
<1>5. Files \in SUBSET Files
  OBVIOUS
<1>6. \/ work' = Overwrite(w, Files)
      \/ \E part \in SUBSET Files, more \in SUBSET Files : work' = Fallback(w, more, Overwrite(w, part))
  BY <1>5 DEF CopyFiles
<1> QED
  BY <1>1, <1>2, <1>3, <1>4, <1>5, <1>6

LEMMA DownloadResult ==
  ASSUME Copies, NEW w \in Workers, Download(w)
  PROVE  /\ copy' \in [Workers -> Trees] /\ torn' \in {torn, torn \cup {w}}
         /\ torn' = {} => copy' = copy
         /\ \A v \in Workers \ {w} : copy'[v] = copy[v]
         /\ \A f \in Files : copy'[w][f] \subseteq copy[w][f]
<1>1. Archives(copy[w]) \subseteq Trees /\ copy[w] \in Trees
  BY DEF Archives, Copies, Trees
<1>k. \A a \in Archives(copy[w]) \cup {copy[w]}, f \in Files : a[f] \subseteq copy[w][f]
  BY DEF Archives
<1>2. \A a \in Trees : [copy EXCEPT ![w] = a] \in [Workers -> Trees]
  BY DEF Copies
<1>3. CASE UNCHANGED <<copy, torn>>
  BY <1>3 DEF Copies
<1>4. CASE \E archive \in IF w \in Faulty THEN Archives(copy[w]) ELSE {copy[w]} :
             /\ copy' = [copy EXCEPT ![w] = archive]
             /\ torn' = IF archive = copy[w] THEN torn ELSE torn \cup {w}
  <2>1. PICK archive \in IF w \in Faulty THEN Archives(copy[w]) ELSE {copy[w]} :
             /\ copy' = [copy EXCEPT ![w] = archive]
             /\ torn' = IF archive = copy[w] THEN torn ELSE torn \cup {w}
    BY <1>4
  <2>2. archive \in Trees
    BY <1>1
  <2>3. torn' = {} => archive = copy[w]
    BY <2>1
  <2>4. \A f \in Files : archive[f] \subseteq copy[w][f]
    BY <1>k
  <2> QED
    BY <2>1, <2>2, <2>3, <2>4, <1>2 DEF Copies
<1> QED
  BY <1>3, <1>4 DEF Download

-----------------------------------------------------------------------------
(* Where things are *)

LEMMA InitTypes == Init => TypeOK
<1> SUFFICES ASSUME Init PROVE TypeOK
  OBVIOUS
<1>1. Places /\ History /\ OneSync
  BY DEF Init, Places, History, OneSync, Syncing, Checked, None
<1>2. Original \in Trees
  BY DEF Original, Trees, Authors
<1>3. Repository
  BY <1>2, BranchType DEF Init, Repository
<1>4. Copies
  BY DEF Init, Copies, Trees, Sent
<1> QED
  BY <1>1, <1>3, <1>4, TypeParts

(* The steps of the user and of the context leave every worker where it is. *)
Outside == (\E f \in Files : Edit(f)) \/ UserCommit \/ Cancel \/ UNCHANGED vars

LEMMA NextCases ==
  [Next]_vars <=> Outside \/ \E w \in Workers : WorkerStep(w)
BY DEF Next, Outside

LEMMA OutsideStays == Outside => UNCHANGED <<at, on, prev, current, unsent, copy, torn>>
BY DEF Outside, Edit, UserCommit, Cancel, vars, repo, hist

(* A worker's step moves that worker alone; it enters the sync by Lock. *)
LEMMA WorkerMoves ==
  ASSUME Places, NEW w \in Workers, WorkerStep(w)
  PROVE  /\ at' = [at EXCEPT ![w] = at'[w]]
         /\ at'[w] \in {"upload", "exec", "done", "download", "returned"} \cup Syncing
         /\ at'[w] \in Syncing => at[w] \in Syncing \/ \A v \in Workers : at[v] \notin Syncing
<1> USE DEF GoTo, Places, Syncing, Checked
<1>1. CASE \E f \in Files : Upload(w, f)
  BY <1>1 DEF Upload
<1>2. CASE Unpack(w) \/ Exec(w) \/ Abort(w) \/ Download(w)
  BY <1>2 DEF Unpack, Exec, Abort, Download
<1>3. CASE Lock(w) \/ Status(w) \/ ShowCurrent(w) \/ CreateBranch(w)
  BY <1>3 DEF Lock, Status, ShowCurrent, CreateBranch
<1>4. CASE CopyFiles(w) \/ Add(w) \/ Recheck(w) \/ Commit(w)
  BY <1>4 DEF CopyFiles, Add, Recheck, Commit
<1>5. CASE Accept(w) \/ CheckoutCurrent(w) \/ Merge(w) \/ Restore(w)
  BY <1>5 DEF Accept, CheckoutCurrent, Merge, Restore
<1> QED
  BY <1>1, <1>2, <1>3, <1>4, <1>5 DEF WorkerStep, SyncStep

LEMMA NextOneSync == Places /\ OneSync /\ [Next]_vars => OneSync'
<1> SUFFICES ASSUME Places, OneSync, [Next]_vars PROVE OneSync'
  OBVIOUS
<1>1. CASE Outside
  BY <1>1, OutsideStays DEF OneSync
<1>2. ASSUME NEW w \in Workers, WorkerStep(w) PROVE OneSync'
  BY <1>2, WorkerMoves DEF OneSync, Places
<1> QED
  BY <1>1, <1>2, NextCases

(* git checkout is only called with a branch that exists. *)
Targets ==
  \A w \in Workers :
    /\ at[w] = "home" => current[w] \in Workers \cup {Home}
    /\ at[w] \in Checked \ {"branch", "create"} => prev \in Workers \cup {Home}

LEMMA NextTargets == Places /\ OneSync /\ Targets /\ [Next]_vars => Targets'
<1> SUFFICES ASSUME Places, OneSync, Targets, [Next]_vars PROVE Targets'
  OBVIOUS
<1>1. CASE Outside
  BY <1>1, OutsideStays DEF Targets
<1>2. ASSUME NEW w \in Workers, WorkerStep(w) PROVE Targets'
  <2>0. /\ \A v \in Workers \ {w} : at'[v] = at[v]
        /\ at' \in [Workers -> {"upload", "exec", "done", "download", "returned"} \cup Syncing]
    BY <1>2, WorkerMoves DEF Places
  <2>1. CASE (\E f \in Files : Upload(w, f)) \/ Unpack(w) \/ Exec(w) \/ Abort(w) \/ Download(w)
    <3>1. UNCHANGED <<current, prev>> /\ at'[w] \notin Syncing
      BY <2>0, <2>1 DEF Upload, Unpack, Exec, Abort, Download, repo, GoTo, Syncing, Checked, Places
    <3> QED
      BY <2>0, <3>1 DEF Targets, Syncing
  <2>2. CASE Lock(w) \/ Status(w)
    <3>1. UNCHANGED <<current, prev>> /\ at'[w] \in {"status", "returned", "branch"}
      BY <2>2 DEF Lock, Status, repo, GoTo, Places
    <3> QED
      BY <2>0, <3>1 DEF Targets, Checked
  <2>3. CASE ShowCurrent(w)
    <3>1. UNCHANGED prev /\ at[w] = "branch" /\ at'[w] = "create" /\ \A v \in Workers \ {w} : current'[v] = current[v]
      BY <2>3 DEF ShowCurrent, repo, GoTo, Places
    <3> QED
      BY <2>0, <3>1 DEF Targets, Checked
  <2>4. CASE CreateBranch(w)
    <3>1. /\ UNCHANGED current /\ prev' \in {prev, on} /\ at[w] = "create" /\ at'[w] \in {"copy", "returned"}
          /\ at'[w] = "copy" => prev' = on
      BY <2>4 DEF CreateBranch, GoTo, Places
    <3>2. on \in Workers \cup {Home}
      BY DEF Places
    <3> QED
      BY <2>0, <3>1, <3>2 DEF Targets, Checked
  <2>5. CASE CopyFiles(w) \/ Add(w) \/ Recheck(w) \/ Commit(w)
    <3>1. /\ UNCHANGED <<current, prev>> /\ at[w] \in Checked \ {"branch", "create"}
          /\ at'[w] \in {"returned", "add", "recheck", "commit", "accept", "restore"}
      BY <2>5 DEF CopyFiles, Add, Recheck, Commit, repo, GoTo, Places, Checked
    <3> QED
      BY <2>0, <3>1 DEF Targets
  <2>6. CASE Accept(w)
    <3>1. /\ UNCHANGED <<current, prev>> /\ at[w] \in Checked \ {"branch", "create"}
          /\ at'[w] \in {"home", "restore"}
          /\ at'[w] = "home" => current[w] # None
      BY <2>6 DEF Accept, repo, GoTo, Places, Checked
    <3>2. current[w] \in Workers \cup {Home, None}
      BY DEF Places
    <3> QED
      BY <2>0, <3>1, <3>2 DEF Targets
  <2>7. CASE CheckoutCurrent(w) \/ Merge(w) \/ Restore(w)
    <3>1. /\ UNCHANGED current /\ prev' \in {prev, on} /\ at[w] \in Checked \ {"branch", "create"}
          /\ at'[w] \in {"merge", "returned", "restore"}
      BY <2>7 DEF CheckoutCurrent, Merge, Restore, Checkout, repo, GoTo, Places, Checked
    <3>2. on \in Workers \cup {Home}
      BY DEF Places
    <3> QED
      BY <2>0, <3>1, <3>2 DEF Targets
  <2> QED
    BY <1>2, <2>1, <2>2, <2>3, <2>4, <2>5, <2>6, <2>7 DEF WorkerStep, SyncStep
<1> QED
  BY <1>1, <1>2, NextCases

LEMMA CheckoutTargets ==
  ASSUME Targets, NEW w \in Workers, CheckoutCurrent(w) \/ Restore(w)
  PROVE  UNCHANGED repo \/ \E b \in Workers \cup {Home} : Checkout(b)
<1>1. /\ at[w] = "home" \/ at[w] = "restore"
      /\ at[w] = "home" => UNCHANGED repo \/ Checkout(current[w])
      /\ at[w] = "restore" => UNCHANGED repo \/ Checkout(prev)
  BY DEF CheckoutCurrent, Restore
<1> QED
  BY <1>1 DEF Targets, Checked

LEMMA NextPlaces == Places /\ Targets /\ [Next]_vars => Places'
<1> SUFFICES ASSUME Places, Targets, [Next]_vars PROVE Places'
  OBVIOUS
<1>1. CASE Outside
  <2>1. cancelled' \in BOOLEAN
    BY <1>1 DEF Outside, Edit, UserCommit, Cancel, vars, Places
  <2>2. UNCHANGED <<at, on, prev, current>>
    BY <1>1, OutsideStays
  <2> QED
    BY <2>1, <2>2 DEF Places
<1>2. ASSUME NEW w \in Workers, WorkerStep(w) PROVE Places'
  <2>1. at' \in [Workers -> {"upload", "exec", "done", "download", "returned"} \cup Syncing]
    BY <1>2, WorkerMoves DEF Places
  <2>2. CASE (\E f \in Files : Upload(w, f)) \/ Unpack(w) \/ Exec(w) \/ Abort(w) \/ Download(w)
    BY <2>1, <2>2 DEF Upload, Unpack, Exec, Abort, Download, Places, repo
  <2>3. CASE Lock(w) \/ Status(w) \/ ShowCurrent(w) \/ CreateBranch(w)
    BY <2>1, <2>3 DEF Lock, Status, ShowCurrent, CreateBranch, Places, repo
  <2>4. CASE CopyFiles(w) \/ Add(w) \/ Recheck(w) \/ Commit(w) \/ Accept(w) \/ Merge(w)
    BY <2>1, <2>4 DEF CopyFiles, Add, Recheck, Commit, Accept, Merge, Places, repo
  <2>5. CASE CheckoutCurrent(w) \/ Restore(w)
    <3>1. UNCHANGED <<cancelled, current>>
      BY <2>5 DEF CheckoutCurrent, Restore
    <3>2. UNCHANGED repo \/ \E b \in Workers \cup {Home} : Checkout(b)
      BY <2>5, CheckoutTargets
    <3> QED
      BY <2>1, <3>1, <3>2 DEF Places, Checkout, repo
  <2> QED
    BY <1>2, <2>2, <2>3, <2>4, <2>5 DEF WorkerStep, SyncStep
<1> QED
  BY <1>1, <1>2, NextCases

LEMMA NextHistory == History /\ Places /\ [Next]_vars => History'
<1> SUFFICES ASSUME History, Places, [Next]_vars PROVE History'
  OBVIOUS
<1>1. CASE Outside
  BY <1>1 DEF Outside, Edit, UserCommit, Cancel, vars, hist, History
<1>2. ASSUME NEW w \in Workers, WorkerStep(w) PROVE History'
  <2>1. CASE (\E f \in Files : Upload(w, f)) \/ Unpack(w) \/ Exec(w) \/ Abort(w)
    BY <2>1 DEF Upload, Unpack, Exec, Abort, History, hist
  <2>2. CASE Download(w)
    BY <2>2 DEF Download, History
  <2>3. CASE Lock(w) \/ Status(w) \/ ShowCurrent(w) \/ CreateBranch(w)
    BY <2>3 DEF Lock, Status, ShowCurrent, CreateBranch, Failed, History, hist
  <2>4. CASE CopyFiles(w) \/ Add(w) \/ Recheck(w) \/ Commit(w)
    BY <2>4 DEF CopyFiles, Add, Recheck, Commit, Failed, History
  <2>5. CASE Accept(w) \/ CheckoutCurrent(w) \/ Merge(w) \/ Restore(w)
    BY <2>5 DEF Accept, CheckoutCurrent, Merge, Restore, MergeRefused, Refused, Failed, History
  <2> QED
    BY <1>2, <2>1, <2>2, <2>3, <2>4, <2>5 DEF WorkerStep, SyncStep
<1> QED
  BY <1>1, <1>2, NextCases

(* What is committed, staged and on disk stays a tree: each is replaced by
   another of them, or file by file from a worker's copy. *)
LEMMA CheckoutResult ==
  ASSUME Places, Repository, NEW b \in Workers \cup {Home}, Checkout(b)
  PROVE  Repository'
<1>1. refs[b] \in Trees
  BY DEF Repository
<1> QED
  BY <1>1, SwitchResult DEF Checkout, Repository

LEMMA NextRepository == Places /\ Targets /\ Repository /\ Copies /\ [Next]_vars => Repository'
<1> SUFFICES ASSUME Places, Targets, Repository, Copies, [Next]_vars PROVE Repository'
  OBVIOUS
<1>0. Branch(work) \in Trees
  BY BranchType DEF Repository
<1>1. CASE Outside
  <2>1. CASE \E f \in Files : Edit(f)
    BY <2>1 DEF Edit, Repository, Trees, Authors
  <2>2. CASE UserCommit
    BY <1>0, <2>2 DEF UserCommit, Repository
  <2> QED
    BY <1>1, <2>1, <2>2 DEF Outside, Cancel, vars, repo, Repository
<1>2. ASSUME NEW w \in Workers, WorkerStep(w) PROVE Repository'
  <2>1. CASE (\E f \in Files : Upload(w, f)) \/ Unpack(w) \/ Exec(w) \/ Abort(w) \/ Download(w)
    BY <2>1 DEF Upload, Unpack, Exec, Abort, Download, repo, Repository
  <2>2. CASE Lock(w) \/ Status(w) \/ ShowCurrent(w) \/ Recheck(w) \/ Accept(w)
    BY <2>2 DEF Lock, Status, ShowCurrent, Recheck, Accept, repo, Repository
  <2>3. CASE CreateBranch(w)
    BY <2>3 DEF CreateBranch, Repository, Places
  <2>4. CASE CopyFiles(w)
    BY <2>4, CopyResult DEF CopyFiles, Repository
  <2>5. CASE Add(w)
    BY <1>0, <2>5 DEF Add, Repository
  <2>6. CASE Commit(w)
    BY <2>6 DEF Commit, Repository
  <2>7. CASE CheckoutCurrent(w) \/ Restore(w)
    <3>1. UNCHANGED repo \/ \E b \in Workers \cup {Home} : Checkout(b)
      BY <2>7, CheckoutTargets
    <3> QED
      BY <3>1, CheckoutResult DEF repo, Repository
  <2>8. CASE Merge(w)
    <3>1. fork' = fork
      BY <2>8 DEF Merge
    <3> QED
      BY <2>8, <3>1, MergeResult, SwitchResult DEF Repository
  <2> QED
    BY <1>2, <2>1, <2>2, <2>3, <2>4, <2>5, <2>6, <2>7, <2>8 DEF WorkerStep, SyncStep
<1> QED
  BY <1>1, <1>2, NextCases

LEMMA NextCopies == Repository /\ Copies /\ [Next]_vars => Copies'
<1> SUFFICES ASSUME Repository, Copies, [Next]_vars PROVE Copies'
  OBVIOUS
<1>1. CASE Outside
  BY <1>1, OutsideStays DEF Copies
<1>2. ASSUME NEW w \in Workers, WorkerStep(w) PROVE Copies'
  <2>1. CASE \E f \in Files : Upload(w, f)
    <3>1. PICK f \in Files : Upload(w, f)
      BY <2>1
    <3>2. work[f] \in SUBSET Authors
      BY DEF Repository, Trees
    <3> QED
      BY <3>1, <3>2 DEF Upload, Copies, Trees
  <2>2. CASE Exec(w)
    <3>1. [f \in Files |-> IF f \in Writes[w] THEN copy[w][f] \cup {w} ELSE copy[w][f]] \in Trees
      BY DEF Copies, Trees, Authors
    <3> QED
      BY <2>2, <3>1 DEF Exec, Copies
  <2>3. CASE Download(w)
    BY <2>3, DownloadResult DEF Download, Copies
  <2>4. CASE Unpack(w) \/ Abort(w) \/ Lock(w) \/ Status(w) \/ ShowCurrent(w) \/ CreateBranch(w)
    BY <2>4 DEF Unpack, Abort, Lock, Status, ShowCurrent, CreateBranch, Copies
  <2>5. CASE CopyFiles(w) \/ Add(w) \/ Recheck(w) \/ Commit(w) \/ Accept(w)
    BY <2>5 DEF CopyFiles, Add, Recheck, Commit, Accept, Copies
  <2>6. CASE CheckoutCurrent(w) \/ Merge(w) \/ Restore(w)
    BY <2>6 DEF CheckoutCurrent, Merge, Restore, Copies
  <2> QED
    BY <1>2, <2>1, <2>2, <2>3, <2>4, <2>5, <2>6 DEF WorkerStep, SyncStep
<1> QED
  BY <1>1, <1>2, NextCases

(* The inductive invariant of the types. *)
TypeInv == TypeOK /\ Targets

LEMMA InitTypeInv == Init => TypeInv
BY InitTypes DEF TypeInv, Targets, Init, Checked

LEMMA NextTypeInv == TypeInv /\ [Next]_vars => TypeInv'
<1> SUFFICES ASSUME TypeInv, [Next]_vars PROVE TypeInv'
  OBVIOUS
<1>1. Places /\ Repository /\ Copies /\ History /\ OneSync /\ Targets
  BY TypeParts DEF TypeInv
<1>2. Places' /\ Repository' /\ Copies' /\ History' /\ OneSync' /\ Targets'
  BY <1>1, NextPlaces, NextRepository, NextCopies, NextHistory, NextOneSync, NextTargets
<1>3. TypeOK' <=> Places' /\ Repository' /\ Copies' /\ History' /\ OneSync'
  BY DEF TypeOK, Types, Places, Repository, Copies, History, OneSync
<1> QED
  BY <1>2, <1>3 DEF TypeInv

(* Every variable keeps its type and one worker at a time synchronises, for
   any number of workers, files and failures (gitMu, coordinator.go). *)
THEOREM TypeOKHolds == Spec => []TypeOK
<1>1. TypeInv => TypeOK
  BY DEF TypeInv
<1> QED
  BY <1>1, InitTypeInv, NextTypeInv, PTL DEF Spec

-----------------------------------------------------------------------------
(* The branch of the user *)

Calm == failed = {}
AtHome == on = Home /\ index = refs[Home]
OnBranch(w) == on = w /\ prev = Home

(* What each step of a sync finds, while no command has failed. *)
Stage(w) ==
  /\ at[w] \in {"status", "branch", "create", "merge"} => AtHome
  /\ at[w] \in {"copy", "add", "recheck", "commit"} => OnBranch(w)
  /\ at[w] \in {"accept", "home", "restore"} => OnBranch(w) /\ index = refs[w]
  /\ at[w] = "create" => current[w] \in {Home, None}
  /\ at[w] \in Checked \ {"branch", "create"} => current[w] \in {Home, None}
  /\ at[w] = "home" => current[w] = Home

HomeInv ==
  Calm =>
    /\ (\A w \in Workers : at[w] \notin Syncing) => AtHome
    /\ \A w \in Workers : Stage(w)

LEMMA CalmBefore == [Next]_vars /\ Calm' => Calm
<1> SUFFICES ASSUME [Next]_vars PROVE failed \subseteq failed'
  BY DEF Calm
<1>1. CASE Outside
  BY <1>1 DEF Outside, Edit, UserCommit, Cancel, vars, hist
<1>2. ASSUME NEW w \in Workers, WorkerStep(w) PROVE failed \subseteq failed'
  <2>1. CASE (\E f \in Files : Upload(w, f)) \/ Unpack(w) \/ Exec(w) \/ Abort(w) \/ Download(w)
    BY <2>1 DEF Upload, Unpack, Exec, Abort, Download, hist
  <2>2. CASE Lock(w) \/ Status(w) \/ ShowCurrent(w) \/ CreateBranch(w)
    BY <2>2 DEF Lock, Status, ShowCurrent, CreateBranch, Failed, hist
  <2>3. CASE CopyFiles(w) \/ Add(w) \/ Recheck(w) \/ Commit(w)
    BY <2>3 DEF CopyFiles, Add, Recheck, Commit, Failed
  <2>4. CASE Accept(w) \/ CheckoutCurrent(w) \/ Merge(w) \/ Restore(w)
    BY <2>4 DEF Accept, CheckoutCurrent, Merge, Restore, MergeRefused, Refused, Failed
  <2> QED
    BY <1>2, <2>1, <2>2, <2>3, <2>4 DEF WorkerStep, SyncStep
<1> QED
  BY <1>1, <1>2, NextCases

LEMMA NextHome == TypeInv /\ HomeInv /\ [Next]_vars => HomeInv'
<1> SUFFICES ASSUME TypeInv, HomeInv, [Next]_vars, Calm' PROVE
        /\ (\A w \in Workers : at'[w] \notin Syncing) => AtHome'
        /\ \A w \in Workers : Stage(w)'
  BY DEF HomeInv
<1>1. /\ Calm /\ Places /\ Repository /\ OneSync
      /\ (\A w \in Workers : at[w] \notin Syncing) => AtHome
      /\ \A w \in Workers : Stage(w)
  BY CalmBefore, TypeParts DEF TypeInv, HomeInv
<1>a. Home \notin Workers /\ Home # None
  BY WorkspaceSyncAssumption DEF None
<1>2. CASE Outside
  <2>1. UNCHANGED <<at, on, prev, current>>
    BY <1>2, OutsideStays
  <2>2. /\ AtHome => AtHome'
        /\ \A w \in Workers : OnBranch(w) /\ index = refs[w] => index' = refs'[w]
    BY <1>1, <1>2 DEF Outside, Edit, UserCommit, Cancel, vars, repo, AtHome, OnBranch, Repository, Places
  <2> QED
    BY <1>1, <2>1, <2>2 DEF Stage, OnBranch
<1>3. ASSUME NEW w \in Workers, WorkerStep(w) PROVE
        /\ (\A v \in Workers : at'[v] \notin Syncing) => AtHome'
        /\ \A v \in Workers : Stage(v)'
  <2>0. /\ \A v \in Workers \ {w} : at'[v] = at[v]
        /\ at' \in [Workers -> {"upload", "exec", "done", "download", "returned"} \cup Syncing]
        /\ at[w] \in Syncing => \A v \in Workers \ {w} : at[v] \notin Syncing
    BY <1>1, <1>3, WorkerMoves DEF Places, OneSync
  (* A step before the sync changes nothing of this. *)
  <2>1. CASE (\E f \in Files : Upload(w, f)) \/ Unpack(w) \/ Exec(w) \/ Abort(w) \/ Download(w)
    <3>1. UNCHANGED <<index, refs, on, prev, current>> /\ at'[w] \notin Syncing /\ at[w] \notin Syncing
      BY <2>0, <2>1 DEF Upload, Unpack, Exec, Abort, Download, repo, GoTo, Syncing, Checked, Places
    <3> QED
      BY <1>1, <2>0, <3>1 DEF Stage, AtHome, OnBranch, Syncing, Checked
  <2>2. CASE Lock(w)
    <3>1. UNCHANGED <<index, refs, on, prev, current>> /\ at'[w] = "status" /\ AtHome
      BY <1>1, <2>2 DEF Lock, repo, GoTo, Places
    <3> QED
      BY <1>1, <2>0, <3>1 DEF Stage, AtHome, OnBranch, Syncing, Checked
  <2>3. ASSUME at[w] \in Syncing, Stage(w)',
               at'[w] \notin Syncing => AtHome'
        PROVE  /\ (\A v \in Workers : at'[v] \notin Syncing) => AtHome'
               /\ \A v \in Workers : Stage(v)'
    BY <2>0, <2>3 DEF Stage, Syncing, Checked
  <2>4. CASE Status(w) \/ ShowCurrent(w) \/ CreateBranch(w)
    <3>1. CASE Status(w)
      <4>1. /\ UNCHANGED <<index, refs, on, prev, current>> /\ at[w] = "status"
            /\ at'[w] \in {"returned", "branch"}
        BY <1>1, <3>1 DEF Status, repo, GoTo, Places
      <4> QED
        BY <1>1, <2>3, <4>1 DEF Stage, AtHome, OnBranch, Syncing, Checked
    <3>2. CASE ShowCurrent(w)
      <4>1. /\ UNCHANGED <<index, refs, on, prev>> /\ at[w] = "branch" /\ at'[w] = "create"
            /\ current'[w] \in {on, None}
        BY <1>1, <3>2 DEF ShowCurrent, repo, GoTo, Places, Failed, Calm
      <4> QED
        BY <1>1, <2>3, <4>1 DEF Stage, AtHome, OnBranch, Syncing, Checked
    <3>3. CASE CreateBranch(w)
      <4>1. /\ UNCHANGED <<index, current>> /\ at[w] = "create" /\ at'[w] = "copy"
            /\ on' = w /\ prev' = on
        BY <1>1, <3>3 DEF CreateBranch, GoTo, Places, Failed, Calm
      <4> QED
        BY <1>1, <2>3, <4>1 DEF Stage, AtHome, OnBranch, Syncing, Checked
    <3> QED
      BY <2>4, <3>1, <3>2, <3>3
  <2>5. CASE CopyFiles(w) \/ Add(w) \/ Recheck(w)
    <3>1. /\ UNCHANGED <<refs, on, prev, current>> /\ at[w] \in {"copy", "add", "recheck"}
          /\ at'[w] \in {"add", "recheck", "commit", "restore"}
      BY <1>1, <2>5 DEF CopyFiles, Add, Recheck, repo, GoTo, Places, Failed, Calm
    <3>2. at'[w] = "restore" => index' = index /\ index = refs[on]
      BY <1>1, <2>5 DEF CopyFiles, Add, Recheck, repo, GoTo, Places, Failed, Calm, Dirty
    <3> QED
      BY <1>1, <2>3, <3>1, <3>2 DEF Stage, AtHome, OnBranch, Syncing, Checked
  <2>6. CASE Commit(w)
    <3>1. /\ UNCHANGED <<index, on, prev, current>> /\ at[w] = "commit"
          /\ at'[w] \in {"accept", "restore"} /\ refs'[on] = index
      BY <1>1, <2>6 DEF Commit, GoTo, Places, Failed, Calm, Repository
    <3> QED
      BY <1>1, <2>3, <3>1 DEF Stage, AtHome, OnBranch, Syncing, Checked
  <2>7. CASE Accept(w)
    <3>1. /\ UNCHANGED <<index, refs, on, prev, current>> /\ at[w] = "accept"
          /\ at'[w] \in {"home", "restore"}
          /\ at'[w] = "home" => current[w] # None
      BY <1>1, <2>7 DEF Accept, repo, GoTo, Places
    <3> QED
      BY <1>1, <2>3, <3>1 DEF Stage, AtHome, OnBranch, Syncing, Checked
  <2>8. CASE CheckoutCurrent(w) \/ Restore(w)
    <3>1. /\ UNCHANGED <<refs, current>> /\ at[w] \in {"home", "restore"} /\ on' = Home /\ Switch(refs[Home])
          /\ at'[w] \in {"merge", "returned"}
      BY <1>1, <2>8 DEF CheckoutCurrent, Restore, Checkout, GoTo, Places, Refused, Failed, Calm, Stage, OnBranch
    <3>2. index = refs[on] /\ on \in Workers \cup {Home} /\ refs[Home] \in Trees
      BY <1>1, <3>1 DEF Stage, OnBranch, Places, Repository
    <3>3. index' = refs[Home]
      BY <1>1, <3>1, <3>2, SwitchClean
    <3> QED
      BY <1>1, <2>3, <3>1, <3>3 DEF Stage, AtHome, OnBranch, Syncing, Checked
  <2>9. CASE Merge(w)
    <3>1. /\ on' = on /\ at[w] = "merge" /\ at'[w] = "returned"
      BY <1>1, <2>9 DEF Merge, GoTo, Places
    <3>2. AtHome /\ Home \in Workers \cup {Home}
      BY <1>1, <3>1 DEF Stage
    <3>3. \E t \in Trees : Switch(t) /\ refs' = [refs EXCEPT ![on] = t]
      BY <1>1, <2>9, MergeHappens DEF Calm
    <3>4. index' = refs'[Home]
      BY <1>1, <3>2, <3>3, SwitchClean DEF AtHome, Repository
    <3> QED
      BY <1>1, <2>3, <3>1, <3>2, <3>4 DEF Stage, AtHome, Syncing, Checked
  <2> QED
    BY <1>3, <2>1, <2>2, <2>4, <2>5, <2>6, <2>7, <2>8, <2>9 DEF WorkerStep, SyncStep
<1> QED
  BY <1>2, <1>3, NextCases

(* Between syncs the user is back on their branch with nothing staged, unless a
   command failed, for any number of workers, files and edits
   (syncDownloadedWorkspace's ways to return). *)
THEOREM HomeRestoredHolds == Spec => []HomeRestored
<1>1. Init => HomeInv
  BY DEF Init, HomeInv, Calm, AtHome, Stage, Checked
<1>2. HomeInv => HomeRestored
  BY DEF HomeInv, HomeRestored, Calm, AtHome
<1> QED
  BY <1>1, <1>2, InitTypeInv, NextTypeInv, NextHome, PTL DEF Spec

-----------------------------------------------------------------------------
(* Files that were sent *)

Carries(t) == \A f \in Sent : t[f] # {}

SentInv ==
  torn = {} =>
    /\ Carries(work) /\ Carries(index)
    /\ \A b \in Workers \cup {Home} : Carries(refs[b])
    /\ \A w \in Workers :
         /\ at[w] = "upload" => \A f \in Sent \ unsent[w] : copy[w][f] # {}
         /\ at[w] \notin {"upload", "returned"} => Carries(copy[w])

LEMMA BranchCarries == ASSUME NEW t, Carries(t) PROVE Carries(Branch(t))
BY DEF Carries, Branch, Sent

LEMMA InitSent == Init => SentInv
<1> SUFFICES ASSUME Init PROVE SentInv
  OBVIOUS
<1>1. Carries(Original)
  BY DEF Carries, Original, Sent
<1>2. Carries(Branch(Original))
  BY <1>1, BranchCarries
<1>3. \A b \in Workers \cup {Home} : refs[b] = Branch(Original)
  BY DEF Init
<1>4. /\ work = Original /\ index = Branch(Original)
      /\ \A w \in Workers : at[w] = "upload" /\ unsent[w] = Sent
  BY DEF Init
<1> QED
  BY <1>1, <1>2, <1>3, <1>4 DEF SentInv

LEMMA NextSent == TypeInv /\ SentInv /\ [Next]_vars => SentInv'
<1> SUFFICES ASSUME TypeInv, SentInv, [Next]_vars, torn' = {} PROVE
        /\ Carries(work)' /\ Carries(index)'
        /\ \A b \in Workers \cup {Home} : Carries(refs'[b])
        /\ \A w \in Workers :
             /\ at'[w] = "upload" => \A f \in Sent \ unsent'[w] : copy'[w][f] # {}
             /\ at'[w] \notin {"upload", "returned"} => Carries(copy'[w])
  BY DEF SentInv, Carries
<1>0. /\ Places /\ Repository /\ Copies /\ Targets
  BY TypeParts DEF TypeInv
<1>b. \A f \in Sent : f \in Files
  BY DEF Sent
<1>1. CASE Outside
  <2>1. UNCHANGED <<at, unsent, copy, torn>>
    BY <1>1, OutsideStays
  <2>2. /\ Carries(work) /\ Carries(index) /\ Carries(Branch(work))
        /\ \A b \in Workers \cup {Home} : Carries(refs[b])
    BY <2>1, BranchCarries DEF SentInv
  <2>3. Carries(work)'
    <3>1. work' = work \/ \E f \in Files : work' = [work EXCEPT ![f] = @ \cup {User}]
      BY <1>1 DEF Outside, Edit, UserCommit, Cancel, vars, repo
    <3> QED
      BY <2>2, <3>1, <1>0, <1>b DEF Carries, Repository, Trees
  <2>4. index' \in {index, Branch(work)} /\ refs' \in {refs, [refs EXCEPT ![on] = Branch(work)]}
    BY <1>1 DEF Outside, Edit, UserCommit, Cancel, vars, repo
  <2>5. Carries(index)' /\ \A b \in Workers \cup {Home} : Carries(refs'[b])
    BY <2>2, <2>4, <1>0 DEF Carries, Repository
  <2> QED
    BY <2>1, <2>3, <2>5 DEF SentInv
<1>2. ASSUME NEW w \in Workers, WorkerStep(w) PROVE
        /\ Carries(work)' /\ Carries(index)'
        /\ \A b \in Workers \cup {Home} : Carries(refs'[b])
        /\ \A v \in Workers :
             /\ at'[v] = "upload" => \A f \in Sent \ unsent'[v] : copy'[v][f] # {}
             /\ at'[v] \notin {"upload", "returned"} => Carries(copy'[v])
  <2>0. /\ \A v \in Workers \ {w} : at'[v] = at[v]
        /\ at' \in [Workers -> {"upload", "exec", "done", "download", "returned"} \cup Syncing]
    BY <1>0, <1>2, WorkerMoves DEF Places
  <2>1. CASE \E f \in Files : Upload(w, f)
    <3>1. PICK f \in Files : Upload(w, f)
      BY <2>1
    <3>2. /\ UNCHANGED <<at, work, index, refs, torn>> /\ at[w] = "upload"
          /\ copy' = [copy EXCEPT ![w][f] = work[f]]
          /\ unsent' = [unsent EXCEPT ![w] = @ \ {f}]
      BY <3>1 DEF Upload, repo
    <3> QED
      BY <1>0, <1>b, <3>2 DEF SentInv, Carries, Copies, Trees
  <2>2. CASE Exec(w)
    <3>1. /\ UNCHANGED <<work, index, refs, torn, unsent>> /\ at[w] = "exec"
          /\ copy' = [copy EXCEPT ![w] = [f \in Files |-> IF f \in Writes[w] THEN @[f] \cup {w} ELSE @[f]]]
          /\ at'[w] = "done"
      BY <1>0, <2>2 DEF Exec, repo, hist, GoTo, Places
    <3> QED
      BY <1>0, <1>b, <2>0, <3>1 DEF SentInv, Carries, Copies, Trees
  <2>3. CASE Unpack(w) \/ Abort(w) \/ Download(w)
    <3>1. /\ UNCHANGED <<work, index, refs, unsent>> /\ torn = {} /\ copy' = copy
      BY <1>0, <2>3, DownloadResult DEF Unpack, Abort, Download, repo, hist
    <3>2. \/ at[w] = "upload" /\ unsent[w] = {}
          \/ at[w] = "done"
          \/ at'[w] = "returned"
      BY <1>0, <2>3 DEF Unpack, Abort, Download, GoTo, Places
    <3>3. at'[w] # "upload"
      BY <1>0, <2>3 DEF Unpack, Abort, Download, GoTo, Places
    <3> QED
      BY <2>0, <3>1, <3>2, <3>3 DEF SentInv, Carries
  <2>4. ASSUME SyncStep(w), Carries(work)', Carries(index)',
               \A b \in Workers \cup {Home} : Carries(refs'[b])
        PROVE  \A v \in Workers :
             /\ at'[v] = "upload" => \A f \in Sent \ unsent'[v] : copy'[v][f] # {}
             /\ at'[v] \notin {"upload", "returned"} => Carries(copy'[v])
    <3>1. UNCHANGED <<unsent, copy, torn>>
      <4>1. CASE Lock(w) \/ Status(w) \/ ShowCurrent(w) \/ CreateBranch(w)
        BY <4>1 DEF Lock, Status, ShowCurrent, CreateBranch, hist
      <4>2. CASE CopyFiles(w) \/ Add(w) \/ Recheck(w) \/ Commit(w) \/ Accept(w)
        BY <4>2 DEF CopyFiles, Add, Recheck, Commit, Accept
      <4>3. CASE CheckoutCurrent(w) \/ Merge(w) \/ Restore(w)
        BY <4>3 DEF CheckoutCurrent, Merge, Restore
      <4> QED
        BY <2>4, <4>1, <4>2, <4>3 DEF SyncStep
    <3>2. at[w] \notin {"upload", "returned"} /\ at'[w] # "upload"
      <4>1. CASE Lock(w) \/ Status(w) \/ ShowCurrent(w) \/ CreateBranch(w)
        BY <1>0, <4>1 DEF Lock, Status, ShowCurrent, CreateBranch, GoTo, Places
      <4>2. CASE CopyFiles(w) \/ Add(w) \/ Recheck(w) \/ Commit(w) \/ Accept(w)
        BY <1>0, <4>2 DEF CopyFiles, Add, Recheck, Commit, Accept, GoTo, Places
      <4>3. CASE CheckoutCurrent(w) \/ Merge(w) \/ Restore(w)
        BY <1>0, <4>3 DEF CheckoutCurrent, Merge, Restore, GoTo, Places
      <4> QED
        BY <2>4, <4>1, <4>2, <4>3 DEF SyncStep
    <3> QED
      BY <2>0, <3>1, <3>2 DEF SentInv
  <2>5. ASSUME SyncStep(w), torn = {} PROVE
          /\ Carries(work)' /\ Carries(index)'
          /\ \A b \in Workers \cup {Home} : Carries(refs'[b])
    <3>0. /\ Carries(work) /\ Carries(index) /\ Carries(Branch(work))
          /\ \A b \in Workers \cup {Home} : Carries(refs[b])
          /\ at[w] = "copy" => Carries(copy[w])
      BY <2>5, BranchCarries DEF SentInv
    <3>1. CASE Lock(w) \/ Status(w) \/ ShowCurrent(w) \/ Recheck(w) \/ Accept(w)
      BY <3>0, <3>1 DEF Lock, Status, ShowCurrent, Recheck, Accept, repo, Carries
    <3>2. CASE CreateBranch(w)
      BY <1>0, <3>0, <3>2 DEF CreateBranch, Carries, Repository, Places
    <3>3. CASE CopyFiles(w)
      <4>1. \A f \in Files : work'[f] = work[f] \/ work'[f] = copy[w][f]
        BY <1>0, <3>3, CopyResult
      <4>2. UNCHANGED <<index, refs>> /\ at[w] = "copy"
        BY <3>3 DEF CopyFiles
      <4> QED
        BY <1>b, <3>0, <4>1, <4>2 DEF Carries
    <3>4. CASE Add(w) \/ Commit(w)
      <4>1. work' = work /\ index' \in {index, Branch(work)} /\ refs' \in {refs, [refs EXCEPT ![on] = index]}
        BY <3>4 DEF Add, Commit
      <4> QED
        BY <1>0, <3>0, <4>1 DEF Carries, Repository
    <3>5. ASSUME NEW t \in Trees, Carries(t), Switch(t) PROVE Carries(work)' /\ Carries(index)'
      BY <1>0, <1>b, <3>0, <3>5, SwitchResult DEF Carries
    <3>6. CASE CheckoutCurrent(w) \/ Restore(w)
      <4>1. UNCHANGED repo \/ \E b \in Workers \cup {Home} : Checkout(b)
        BY <1>0, <3>6, CheckoutTargets
      <4>2. \A b \in Workers \cup {Home} : refs[b] \in Trees
        BY <1>0 DEF Repository
      <4>3. CASE \E b \in Workers \cup {Home} : Checkout(b)
        BY <3>0, <3>5, <4>2, <4>3 DEF Checkout
      <4>4. CASE UNCHANGED repo
        BY <3>0, <4>4 DEF repo, Carries
      <4> QED
        BY <4>1, <4>3, <4>4
    <3>7. CASE Merge(w)
      <4>1. Carries(refs[on]) /\ Carries(refs[w])
        BY <1>0, <3>0 DEF Places
      <4>2. CASE UNCHANGED <<work, index, refs>>
        BY <3>0, <4>2 DEF Carries
      <4>3. ASSUME NEW t \in Trees, Switch(t), refs' \in {refs, [refs EXCEPT ![on] = t]},
                   \A f \in Files : refs[on][f] # {} /\ refs[w][f] # {} => t[f] # {}
            PROVE  /\ Carries(work)' /\ Carries(index)'
                   /\ \A b \in Workers \cup {Home} : Carries(refs'[b])
        <5>1. Carries(t)
          BY <1>b, <4>1, <4>3 DEF Carries
        <5>2. Carries(work)' /\ Carries(index)'
          BY <3>5, <4>3, <5>1
        <5> QED
          BY <1>0, <3>0, <4>3, <5>1, <5>2 DEF Carries, Repository
      <4> QED
        BY <1>0, <3>7, <4>2, <4>3, MergeResult
    <3> QED
      BY <2>5, <3>1, <3>2, <3>3, <3>4, <3>6, <3>7 DEF SyncStep
  <2>6. CASE SyncStep(w)
    <3>1. torn = {}
      BY <1>0, <2>6 DEF SyncStep, Lock, Status, ShowCurrent, CreateBranch, CopyFiles, Add, Recheck, Commit,
                        Accept, CheckoutCurrent, Merge, Restore, hist
    <3> QED
      BY <2>4, <2>5, <2>6, <3>1
  <2> QED
    BY <1>2, <2>1, <2>2, <2>3, <2>6 DEF WorkerStep
<1> QED
  BY <1>1, <1>2, NextCases

(* As long as every archive came back whole, no file that was sent ever leaves
   the user's branch, whoever edits, commits, fails or is merged when
   (handleDownloadWorkspace's walk, rsync --delete). *)
THEOREM SentFilesStayHolds == Spec => []SentFilesStay
<1>1. SentInv => SentFilesStay
  BY DEF SentInv, SentFilesStay, Carries
<1> QED
  BY <1>1, InitSent, InitTypeInv, NextTypeInv, NextSent, PTL DEF Spec

-----------------------------------------------------------------------------
(* What the user has on disk only *)

(* A tree found clean stays so until the copy, but for the files edited since. *)
CleanInv ==
  \A w \in Workers : at[w] \in {"branch", "create", "copy"} /\ w \notin failed =>
    \A f \in Files \ late : Branch(work)[f] = index[f] /\ index[f] = refs[on][f]

LEMMA NextClean == TypeInv /\ CleanInv /\ [Next]_vars => CleanInv'
<1> SUFFICES ASSUME TypeInv, CleanInv, [Next]_vars PROVE CleanInv'
  OBVIOUS
<1>0. /\ Places /\ Repository /\ OneSync
  BY TypeParts DEF TypeInv
<1>1. CASE Outside
  <2>1. CASE \E f \in Files : Edit(f)
    <3>1. PICK f \in Files : Edit(f)
      BY <2>1
    <3>2. /\ UNCHANGED <<at, failed, index, refs, on>>
          /\ work' = [work EXCEPT ![f] = @ \cup {User}]
          /\ (\E w \in Workers : at[w] \in Checked) => late' = late \cup {f}
          /\ late \subseteq late'
      BY <3>1 DEF Edit
    <3>3. \A g \in Files \ {f} : Branch(work)[g] = Branch(work')[g]
      BY <1>0, <3>2 DEF Branch, Repository, Trees
    <3> QED
      BY <3>2, <3>3 DEF CleanInv, Checked, Branch
  <2>2. CASE UserCommit
    <3>1. UNCHANGED <<at, failed, late, work, on>> /\ index' = Branch(work) /\ refs'[on] = Branch(work)
      BY <1>0, <2>2 DEF UserCommit, hist, Repository, Places
    <3> QED
      BY <3>1 DEF CleanInv, Branch
  <2>3. CASE Cancel \/ UNCHANGED vars
    BY <2>3 DEF Cancel, vars, repo, hist, CleanInv, Branch
  <2> QED
    BY <1>1, <2>1, <2>2, <2>3 DEF Outside
<1>2. ASSUME NEW w \in Workers, WorkerStep(w) PROVE CleanInv'
  <2>0. /\ \A v \in Workers \ {w} : at'[v] = at[v]
        /\ at' \in [Workers -> {"upload", "exec", "done", "download", "returned"} \cup Syncing]
        /\ at[w] \in Syncing => \A v \in Workers \ {w} : at[v] \notin Syncing
    BY <1>0, <1>2, WorkerMoves DEF Places, OneSync
  <2>1. CASE (\E f \in Files : Upload(w, f)) \/ Unpack(w) \/ Exec(w) \/ Abort(w) \/ Download(w) \/ Lock(w)
    <3>1. UNCHANGED <<work, index, refs, on, late, failed>>
      BY <2>1 DEF Upload, Unpack, Exec, Abort, Download, Lock, repo, hist
    <3>2. at'[w] \in {"upload", "exec", "done", "download", "returned", "status"}
      BY <1>0, <2>1 DEF Upload, Unpack, Exec, Abort, Download, Lock, GoTo, Places
    <3> QED
      BY <2>0, <3>1, <3>2 DEF CleanInv, Branch
  <2>2. CASE Status(w)
    <3>1. /\ UNCHANGED <<work, index, refs, on, late>> /\ at[w] = "status"
          /\ at'[w] = "branch" => ~Dirty \/ w \in failed'
      BY <1>0, <2>2 DEF Status, Failed, repo, GoTo, Places
    <3>2. Dirty = (index # refs[on] \/ Branch(work) # index)
      BY DEF Dirty
    <3>3. at'[w] \in {"branch", "returned"}
      BY <1>0, <2>2 DEF Status, GoTo, Places
    <3> QED
      BY <2>0, <3>1, <3>2, <3>3 DEF CleanInv, Branch, Syncing, Checked
  <2>3. CASE ShowCurrent(w) \/ CreateBranch(w)
    <3>1. /\ UNCHANGED <<work, index, late>> /\ at[w] \in {"branch", "create"}
          /\ failed \subseteq failed' /\ refs'[on'] = refs[on]
      BY <1>0, <2>3 DEF ShowCurrent, CreateBranch, Failed, repo, Repository, Places
    <3> QED
      BY <2>0, <3>1 DEF CleanInv, Branch, Syncing, Checked
  <2>4. CASE CopyFiles(w) \/ Add(w) \/ Recheck(w) \/ Commit(w) \/ Accept(w)
    <3>1. at[w] \in Syncing /\ at'[w] \notin {"branch", "create", "copy"}
      BY <1>0, <2>4 DEF CopyFiles, Add, Recheck, Commit, Accept, GoTo, Places, Syncing, Checked
    <3> QED
      BY <2>0, <3>1 DEF CleanInv, Syncing, Checked
  <2>5. CASE CheckoutCurrent(w) \/ Merge(w) \/ Restore(w)
    <3>1. at[w] \in Syncing /\ at'[w] \notin {"branch", "create", "copy"}
      BY <1>0, <2>5 DEF CheckoutCurrent, Merge, Restore, GoTo, Places, Syncing, Checked
    <3> QED
      BY <2>0, <3>1 DEF CleanInv, Syncing, Checked
  <2> QED
    BY <1>2, <2>1, <2>2, <2>3, <2>4, <2>5 DEF WorkerStep, SyncStep
<1> QED
  BY <1>1, <1>2, NextCases

(* One step of EditsKept. *)
EditKept ==
  \A f \in Files :
    /\ User \in work[f] /\ \A b \in DOMAIN refs : User \notin refs[b][f]
    /\ User \notin work'[f]
    => f \in Ignored \cup late \/ \E w \in failed : at[w] = "copy"

LEMMA Branches == TypeInv => DOMAIN refs = Workers \cup {Home}
BY TypeParts DEF TypeInv, Repository

LEMMA NextEdits == TypeInv /\ CleanInv /\ [Next]_vars => EditKept
<1> SUFFICES ASSUME TypeInv, CleanInv, [Next]_vars, NEW f \in Files \ Ignored,
                    User \in work[f], User \notin work'[f], f \notin late,
                    \A b \in Workers \cup {Home} : User \notin refs[b][f]
             PROVE  \E w \in failed : at[w] = "copy"
  BY Branches DEF EditKept
<1>0. /\ Places /\ Repository /\ Copies /\ Targets
  BY TypeParts DEF TypeInv
<1>1. User \notin refs[on][f]
  BY <1>0 DEF Places
<1>2. ~Outside
  <2>1. Outside => work' = work \/ \E g \in Files : work' = [work EXCEPT ![g] = @ \cup {User}]
    BY DEF Outside, Edit, UserCommit, Cancel, vars, repo
  <2> QED
    BY <1>0, <2>1 DEF Repository, Trees
<1>3. PICK w \in Workers : WorkerStep(w)
  BY <1>2, NextCases
<1>4. \A t \in Trees : ~Switch(t)
  BY <1>0, <1>1, SwitchKeeps DEF Places
<1>5. CASE (\E g \in Files : Upload(w, g)) \/ Unpack(w) \/ Exec(w) \/ Abort(w) \/ Download(w)
  BY <1>5 DEF Upload, Unpack, Exec, Abort, Download, repo
<1>6. CASE Lock(w) \/ Status(w) \/ ShowCurrent(w) \/ CreateBranch(w)
  BY <1>6 DEF Lock, Status, ShowCurrent, CreateBranch, repo
<1>7. CASE Add(w) \/ Recheck(w) \/ Commit(w) \/ Accept(w)
  BY <1>7 DEF Add, Recheck, Commit, Accept, repo
<1>8. CASE CheckoutCurrent(w) \/ Restore(w)
  <2>1. UNCHANGED repo \/ \E b \in Workers \cup {Home} : Checkout(b)
    BY <1>0, <1>8, CheckoutTargets
  <2>2. \A b \in Workers \cup {Home} : refs[b] \in Trees
    BY <1>0 DEF Repository
  <2> QED
    BY <1>4, <2>1, <2>2 DEF Checkout, repo
<1>9. CASE Merge(w)
  BY <1>0, <1>4, <1>9, MergeResult
(* The copy: the tree was found clean, so that the edit is committed. *)
<1>10. CASE CopyFiles(w)
  <2>1. at[w] = "copy"
    BY <1>10 DEF CopyFiles
  <2>2. w \in failed
    BY <1>1, <2>1 DEF CleanInv, Branch
  <2> QED
    BY <2>1, <2>2
<1> QED
  BY <1>3, <1>5, <1>6, <1>7, <1>8, <1>9, <1>10 DEF WorkerStep, SyncStep

(* An edit that exists in the working tree only is lost to a sync in no other
   way than those EditsKept names, for any number of workers, files and edits
   (the git status of syncDownloadedWorkspace, and git's own refusals). *)
THEOREM EditsKeptHolds == Spec => EditsKept
<1>1. Init => CleanInv
  BY DEF Init, CleanInv
<1>2. TypeInv /\ CleanInv /\ [Next]_vars => [EditKept]_vars
  BY NextEdits
<1> QED
  BY <1>1, <1>2, InitTypeInv, NextTypeInv, NextClean, PTL DEF Spec, EditsKept, EditKept

-----------------------------------------------------------------------------
(* What gets onto the branch of the user *)

(* The steps of a sync during which its own branch is checked out. *)
Apart == {"copy", "add", "recheck", "commit", "accept", "home", "restore"}

(* What the user's branch may hold of the worker x in f. *)
Vouched(x, f) == x \in accepted \/ \E v \in accepted \cap mixed : x \in copy[v][f]
Fine(t) == \A x \in Workers, f \in Files : x \in t[f] => Vouched(x, f)

(* What w's branch may hold besides: what w wrote, and what it read in another
   worker's sync. *)
Own(w, t) ==
  \A x \in Workers, f \in Files :
    x \in t[f] => x = w \/ Vouched(x, f) \/ (w \in mixed /\ x \in copy[w][f])

(* What git sees in the tree beyond the index is the user's. *)
Staged == \A f \in Files : Branch(work)[f] \subseteq index[f] \cup {User}

SentOnly == \A w \in Workers : unsent[w] \subseteq Sent
AcceptedLate == \A w \in accepted : at[w] \in {"home", "merge", "restore", "returned"}

OwnAt(w) ==
  /\ Own(w, copy[w])
  /\ at[w] = "add" => Own(w, Branch(work))
  /\ at[w] \in Apart => Own(w, index)
  /\ at[w] \in Apart \cup {"merge"} => Own(w, refs[w])
  /\ at[w] \in {"home", "merge"} => w \in accepted

MergeInv ==
  /\ SentOnly /\ AcceptedLate
  /\ Calm =>
       /\ Fine(refs[Home])
       /\ (\A w \in Workers : at[w] # "add") => Staged
       /\ \A w \in Workers : OwnAt(w)

LEMMA InitMerge == Init => MergeInv
<1> SUFFICES ASSUME Init PROVE MergeInv
  OBVIOUS
<1>1. SentOnly /\ AcceptedLate
  BY DEF Init, SentOnly, AcceptedLate
<1>2. \A x \in Workers, f \in Files : x \notin Branch(Original)[f] /\ x \notin Original[f]
  BY WorkspaceSyncAssumption DEF Branch, Original
<1>3. Fine(refs[Home]) /\ Staged
  BY <1>2 DEF Init, Fine, Staged, Branch, Original
<1>4. \A w \in Workers : OwnAt(w)
  BY DEF Init, OwnAt, Own, Apart
<1> QED
  BY <1>1, <1>3, <1>4 DEF MergeInv

(* Accepted workers have left the upload and the task behind, so their copy is
   what it was. *)
LEMMA NextSentOnly == SentOnly /\ [Next]_vars => SentOnly'
<1> SUFFICES ASSUME SentOnly, [Next]_vars PROVE SentOnly'
  OBVIOUS
<1>1. CASE Outside
  BY <1>1, OutsideStays DEF SentOnly
<1>2. ASSUME NEW w \in Workers, WorkerStep(w) PROVE SentOnly'
  <2>1. CASE \E f \in Files : Upload(w, f)
    <3>1. \E f \in Files : unsent' = [unsent EXCEPT ![w] = @ \ {f}]
      BY <2>1 DEF Upload
    <3> QED
      BY <3>1 DEF SentOnly
  <2>2. CASE Unpack(w) \/ Exec(w) \/ Abort(w) \/ Download(w)
    BY <2>2 DEF Unpack, Exec, Abort, Download, SentOnly
  <2>3. CASE Lock(w) \/ Status(w) \/ ShowCurrent(w) \/ CreateBranch(w)
    BY <2>3 DEF Lock, Status, ShowCurrent, CreateBranch, SentOnly
  <2>4. CASE CopyFiles(w) \/ Add(w) \/ Recheck(w) \/ Commit(w)
    BY <2>4 DEF CopyFiles, Add, Recheck, Commit, SentOnly
  <2>5. CASE Accept(w) \/ CheckoutCurrent(w) \/ Merge(w) \/ Restore(w)
    BY <2>5 DEF Accept, CheckoutCurrent, Merge, Restore, SentOnly
  <2> QED
    BY <1>2, <2>1, <2>2, <2>3, <2>4, <2>5 DEF WorkerStep, SyncStep
<1> QED
  BY <1>1, <1>2, NextCases

LEMMA NextAcceptedLate ==
  Places /\ History /\ AcceptedLate /\ [Next]_vars => AcceptedLate' /\ accepted \subseteq accepted'
<1> SUFFICES ASSUME Places, History, AcceptedLate, [Next]_vars PROVE AcceptedLate' /\ accepted \subseteq accepted'
  OBVIOUS
<1>1. CASE Outside
  <2>1. accepted' = accepted
    BY <1>1 DEF Outside, Edit, UserCommit, Cancel, vars, hist
  <2> QED
    BY <1>1, <2>1, OutsideStays DEF AcceptedLate
<1>2. ASSUME NEW w \in Workers, WorkerStep(w) PROVE AcceptedLate' /\ accepted \subseteq accepted'
  <2>0. \A v \in Workers \ {w} : at'[v] = at[v]
    BY <1>2, WorkerMoves DEF Places
  <2> USE DEF GoTo, Places, History
  <2>1. CASE (\E f \in Files : Upload(w, f)) \/ Unpack(w) \/ Exec(w) \/ Abort(w) \/ Download(w)
    BY <2>0, <2>1 DEF Upload, Unpack, Exec, Abort, Download, hist, AcceptedLate
  <2>2. CASE Lock(w) \/ Status(w) \/ ShowCurrent(w) \/ CreateBranch(w)
    BY <2>0, <2>2 DEF Lock, Status, ShowCurrent, CreateBranch, hist, AcceptedLate
  <2>3. CASE CopyFiles(w) \/ Add(w) \/ Recheck(w) \/ Commit(w)
    BY <2>0, <2>3 DEF CopyFiles, Add, Recheck, Commit, AcceptedLate
  <2>4. CASE Accept(w) \/ CheckoutCurrent(w) \/ Merge(w) \/ Restore(w)
    BY <2>0, <2>4 DEF Accept, CheckoutCurrent, Merge, Restore, AcceptedLate
  <2> QED
    BY <1>2, <2>1, <2>2, <2>3, <2>4 DEF WorkerStep, SyncStep
<1> QED
  BY <1>1, <1>2, NextCases

(* A worker's copy changes only until it has been downloaded. *)
LEMMA CopiesKept ==
  ASSUME Copies, [Next]_vars
  PROVE  /\ mixed \subseteq mixed'
         /\ \A v \in Workers : at[v] \notin {"upload", "exec", "done"} => copy'[v] = copy[v]
<1>1. CASE Outside
  BY <1>1, OutsideStays DEF Outside, Edit, UserCommit, Cancel, vars, hist
<1>2. ASSUME NEW w \in Workers, WorkerStep(w)
      PROVE  /\ mixed \subseteq mixed'
             /\ \A v \in Workers : at[v] \notin {"upload", "exec", "done"} => copy'[v] = copy[v]
  <2>1. CASE (\E f \in Files : Upload(w, f)) \/ Exec(w)
    BY <2>1 DEF Upload, Exec, hist, Copies
  <2>2. CASE Download(w)
    BY <2>2, DownloadResult DEF Download
  <2>3. CASE Unpack(w) \/ Abort(w) \/ Lock(w) \/ Status(w) \/ ShowCurrent(w) \/ CreateBranch(w)
    BY <2>3 DEF Unpack, Abort, Lock, Status, ShowCurrent, CreateBranch, hist
  <2>4. CASE CopyFiles(w) \/ Add(w) \/ Recheck(w) \/ Commit(w) \/ Accept(w)
    BY <2>4 DEF CopyFiles, Add, Recheck, Commit, Accept
  <2>5. CASE CheckoutCurrent(w) \/ Merge(w) \/ Restore(w)
    BY <2>5 DEF CheckoutCurrent, Merge, Restore
  <2> QED
    BY <1>2, <2>1, <2>2, <2>3, <2>4, <2>5 DEF WorkerStep, SyncStep
<1> QED
  BY <1>1, <1>2, NextCases

(* The same of a tree after a step. *)
FineNext(t) == \A x \in Workers, f \in Files : x \in t[f] => Vouched(x, f)'
OwnNext(w, t) ==
  \A x \in Workers, f \in Files :
    x \in t[f] => x = w \/ Vouched(x, f)' \/ (w \in mixed' /\ x \in copy'[w][f])

LEMMA Primed ==
  /\ Fine(refs[Home])' <=> FineNext(refs'[Home])
  /\ \A w \in Workers :
       /\ Own(w, copy[w])' <=> OwnNext(w, copy'[w])
       /\ Own(w, Branch(work))' <=> OwnNext(w, Branch(work'))
       /\ Own(w, index)' <=> OwnNext(w, index')
       /\ Own(w, refs[w])' <=> OwnNext(w, refs'[w])
BY DEF Fine, FineNext, Own, OwnNext, Branch

LEMMA VouchedStays ==
  ASSUME Places, Copies, AcceptedLate, History, [Next]_vars
  PROVE  /\ \A x \in Workers, f \in Files : Vouched(x, f) => Vouched(x, f)'
         /\ \A t : Fine(t) => FineNext(t)
         /\ \A t : \A w \in Workers : copy'[w] = copy[w] /\ Own(w, t) => OwnNext(w, t)
<1>1. /\ accepted \subseteq accepted' /\ mixed \subseteq mixed'
      /\ \A v \in accepted : copy'[v] = copy[v]
  BY NextAcceptedLate, CopiesKept DEF AcceptedLate, History
<1>2. \A x \in Workers, f \in Files : Vouched(x, f) => Vouched(x, f)'
  BY <1>1 DEF Vouched
<1>3. \A t : Fine(t) => FineNext(t)
  BY <1>2 DEF Fine, FineNext
<1>4. \A t : \A w \in Workers : copy'[w] = copy[w] /\ Own(w, t) => OwnNext(w, t)
  BY <1>1, <1>2 DEF Own, OwnNext
<1> QED
  BY <1>2, <1>3, <1>4

(* The copy an upload, a task and a download leave. *)
LEMMA NextOwnCopy ==
  ASSUME TypeInv, HomeInv, MergeInv, Calm, [Next]_vars, NEW w \in Workers
  PROVE  Own(w, copy[w])'
<1>0. /\ Places /\ Repository /\ Copies /\ History
      /\ (\A v \in Workers : at[v] \notin Syncing) => AtHome
      /\ SentOnly /\ AcceptedLate /\ Fine(refs[Home]) /\ Own(w, copy[w])
      /\ (\A v \in Workers : at[v] # "add") => Staged
  BY TypeParts DEF TypeInv, HomeInv, MergeInv, OwnAt
<1>1. /\ \A x \in Workers, f \in Files : Vouched(x, f) => Vouched(x, f)'
      /\ mixed \subseteq mixed'
  BY <1>0, VouchedStays, CopiesKept
<1>a. User \notin Workers
  BY WorkspaceSyncAssumption DEF User
<1>2. ASSUME \A x \in Workers, f \in Files : x \in copy'[w][f] => x \in copy[w][f] \/ x = w \/ Vouched(x, f) \/ w \in mixed'
      PROVE  Own(w, copy[w])'
  BY <1>0, <1>1, <1>2 DEF Own
<1>3. CASE copy'[w] = copy[w]
  BY <1>2, <1>3
<1>4. ASSUME NEW f \in Files, Upload(w, f) PROVE Own(w, copy[w])'
  <2>1. /\ copy' = [copy EXCEPT ![w][f] = work[f]] /\ f \in unsent[w]
        /\ (\E v \in Workers : at[v] \in Syncing) => w \in mixed'
    BY <1>4 DEF Upload
  <2>2. /\ copy'[w][f] = work[f]
        /\ \A g \in Files \ {f} : copy'[w][g] = copy[w][g]
    BY <1>0, <2>1 DEF Copies, Trees
  <2>3. CASE \A v \in Workers : at[v] \notin Syncing
    <3>1. AtHome /\ Staged
      BY <1>0, <2>3 DEF Syncing, Checked
    <3>2. Branch(work)[f] = work[f]
      BY <1>0, <2>1 DEF SentOnly, Sent, Branch
    <3>3. \A x \in Workers : x \in work[f] => x \in refs[Home][f]
      BY <1>a, <3>1, <3>2 DEF Staged, AtHome
    <3>4. \A x \in Workers : x \in work[f] => Vouched(x, f)
      BY <1>0, <3>3 DEF Fine
    <3> QED
      BY <1>2, <2>2, <3>4
  <2> QED
    BY <1>2, <2>1, <2>3
<1>5. CASE Exec(w)
  BY <1>0, <1>2, <1>5 DEF Exec, Copies, Trees
<1>6. CASE Download(w)
  BY <1>0, <1>2, <1>6, DownloadResult
<1>7. CASE Outside
  BY <1>3, <1>7, OutsideStays
<1>8. ASSUME NEW v \in Workers, WorkerStep(v), v # w \/ Unpack(w) \/ Abort(w) \/ SyncStep(w)
      PROVE  copy'[w] = copy[w]
  <2>1. CASE v # w /\ ((\E f \in Files : Upload(v, f)) \/ Exec(v))
    BY <1>0, <2>1 DEF Upload, Exec, Copies
  <2>2. CASE v # w /\ Download(v)
    BY <1>0, <2>2, DownloadResult
  <2>3. ASSUME NEW u \in Workers, Unpack(u) \/ Abort(u) PROVE copy'[w] = copy[w]
    BY <2>3 DEF Unpack, Abort
  <2>4. ASSUME NEW u \in Workers, SyncStep(u) PROVE copy'[w] = copy[w]
    <3>1. CASE Lock(u) \/ Status(u) \/ ShowCurrent(u) \/ CreateBranch(u)
      BY <3>1 DEF Lock, Status, ShowCurrent, CreateBranch
    <3>2. CASE CopyFiles(u) \/ Add(u) \/ Recheck(u) \/ Commit(u) \/ Accept(u)
      BY <3>2 DEF CopyFiles, Add, Recheck, Commit, Accept
    <3>3. CASE CheckoutCurrent(u) \/ Merge(u) \/ Restore(u)
      BY <3>3 DEF CheckoutCurrent, Merge, Restore
    <3> QED
      BY <2>4, <3>1, <3>2, <3>3 DEF SyncStep
  <2> QED
    BY <1>8, <2>1, <2>2, <2>3, <2>4 DEF WorkerStep
<1>9. ASSUME NEW v \in Workers, WorkerStep(v) PROVE Own(w, copy[w])'
  BY <1>3, <1>4, <1>5, <1>6, <1>8, <1>9 DEF WorkerStep
<1> QED
  BY <1>7, <1>9, NextCases

LEMMA SwitchStaged ==
  ASSUME Repository, on \in Workers \cup {Home}, Staged, NEW t \in Trees, Switch(t)
  PROVE  Staged'
<1>1. \A f \in Files : \/ work'[f] = work[f] /\ index'[f] = index[f]
                       \/ work'[f] = index'[f]
  BY DEF Switch, Repository, Trees
<1> QED
  BY <1>1 DEF Staged, Branch

(* The user's own commands bring onto a branch only what is on it already, and
   their edits. *)
LEMMA OutsideMerge ==
  ASSUME TypeInv, HomeInv, MergeInv, Calm, Calm', Outside, \A w \in Workers : Own(w, copy[w])'
  PROVE  /\ Fine(refs[Home])' /\ ((\A w \in Workers : at[w] # "add") => Staged)'
         /\ \A w \in Workers : OwnAt(w)'
<1>0. /\ Places /\ Repository /\ Copies /\ OneSync /\ AcceptedLate
      /\ (\A w \in Workers : at[w] \notin Syncing) => AtHome
      /\ \A w \in Workers : Stage(w)
      /\ Fine(refs[Home])
      /\ (\A w \in Workers : at[w] # "add") => Staged
      /\ \A w \in Workers : OwnAt(w)
  BY TypeParts DEF TypeInv, HomeInv, MergeInv
<1>a. User \notin Workers /\ Home \notin Workers
  BY WorkspaceSyncAssumption DEF User
<1>1. /\ UNCHANGED <<at, on, copy, accepted, mixed>>
  BY OutsideStays DEF Outside, Edit, UserCommit, Cancel, vars, hist
<1>2. /\ \A t : Fine(t) => FineNext(t)
      /\ \A t : \A w \in Workers : Own(w, t) => OwnNext(w, t)
  BY <1>1 DEF Fine, FineNext, Own, OwnNext, Vouched
<1>3. CASE \E f \in Files : Edit(f)
  <2>1. PICK f \in Files : work' = [work EXCEPT ![f] = @ \cup {User}] /\ UNCHANGED <<index, refs>>
    BY <1>3 DEF Edit
  <2>2. \A g \in Files : Branch(work')[g] \subseteq Branch(work)[g] \cup {User}
    BY <1>0, <2>1 DEF Branch, Repository, Trees
  <2>3. Staged => Staged'
    BY <2>1, <2>2 DEF Staged
  <2>4. ASSUME NEW w \in Workers, Own(w, Branch(work)) PROVE Own(w, Branch(work'))
    BY <1>a, <2>2, <2>4 DEF Own
  <2>5. \A w \in Workers : OwnAt(w)'
    BY <1>0, <1>1, <1>2, <2>1, <2>4, Primed DEF OwnAt
  <2> QED
    BY <1>0, <1>1, <1>2, <2>1, <2>3, <2>5, Primed
<1>4. CASE UserCommit
  <2>1. index' = Branch(work) /\ refs' = [refs EXCEPT ![on] = Branch(work)] /\ work' = work
    BY <1>4 DEF UserCommit
  <2>2. Staged'
    BY <2>1 DEF Staged
  <2>3. ASSUME NEW t, Fine(t), \A f \in Files : Branch(work)[f] \subseteq t[f] \cup {User}
        PROVE  Fine(Branch(work))
    BY <1>a, <2>3 DEF Fine
  <2>4. ASSUME on = Home PROVE Fine(Branch(work))
    <3>1. AtHome /\ Staged
      BY <1>0, <1>a, <2>4 DEF Stage, AtHome, OnBranch, Syncing, Checked
    <3> QED
      BY <1>0, <2>3, <3>1 DEF Staged, AtHome
  <2>5. Fine(refs'[Home])
    BY <1>0, <2>1, <2>4 DEF Repository, Places
  <2>6. ASSUME NEW w \in Workers, at[w] \in Apart PROVE on = w /\ Own(w, Branch(work))
    <3>1. on = w
      BY <1>0, <2>6 DEF Stage, OnBranch, Apart
    <3>2. CASE at[w] = "add"
      BY <1>0, <3>1, <3>2 DEF OwnAt
    <3>3. CASE at[w] # "add"
      <4>1. \A v \in Workers : at[v] # "add"
        BY <1>0, <2>6, <3>3 DEF OneSync, Apart, Syncing, Checked
      <4>2. Own(w, index) /\ Staged
        BY <1>0, <2>6, <4>1 DEF OwnAt
      <4> QED
        BY <1>a, <3>1, <4>2 DEF Own, Staged
    <3> QED BY <3>1, <3>2, <3>3
  <2>7. ASSUME NEW w \in Workers PROVE OwnAt(w)'
    <3>1. at[w] \in Apart => Own(w, index') /\ Own(w, refs'[w]) /\ Own(w, Branch(work'))
      BY <1>0, <2>1, <2>6, <2>7 DEF Repository, Places
    <3>2. at[w] = "merge" => refs'[w] = refs[w]
      BY <1>0, <1>a, <2>1, <2>7 DEF Stage, AtHome, Repository, Places
    <3>3. "add" \in Apart
      BY DEF Apart
    <3> QED
      BY <1>0, <1>1, <1>2, <2>7, <3>1, <3>2, <3>3, Primed DEF OwnAt
  <2> QED
    BY <1>2, <2>2, <2>5, <2>7, Primed
<1>5. CASE Cancel \/ UNCHANGED vars
  <2>1. UNCHANGED <<work, index, refs>>
    BY <1>5 DEF Cancel, vars, repo
  <2> QED
    <3>1. Staged' <=> Staged
      BY <2>1 DEF Staged, Branch
    <3> QED
      BY <1>0, <1>1, <1>2, <2>1, <3>1, Primed DEF OwnAt
<1> QED
  BY <1>3, <1>4, <1>5 DEF Outside

(* The steps of a sync: what a worker's branch holds gets onto the user's only
   after the acceptance. *)
LEMMA SyncMerge ==
  ASSUME TypeInv, HomeInv, MergeInv, Calm, Calm', [Next]_vars,
         NEW w \in Workers, SyncStep(w), \A v \in Workers : Own(v, copy[v])'
  PROVE  /\ Fine(refs[Home])' /\ ((\A v \in Workers : at[v] # "add") => Staged)'
         /\ \A v \in Workers : OwnAt(v)'
<1>0. /\ Places /\ Repository /\ Copies /\ OneSync /\ Targets /\ History /\ AcceptedLate
      /\ (\A v \in Workers : at[v] \notin Syncing) => AtHome
      /\ \A v \in Workers : Stage(v)
      /\ Fine(refs[Home])
      /\ (\A v \in Workers : at[v] # "add") => Staged
      /\ OwnAt(w)
  BY TypeParts DEF TypeInv, HomeInv, MergeInv
<1>a. Home \notin Workers
  BY WorkspaceSyncAssumption
<1>1. /\ \A v \in Workers \ {w} : at'[v] = at[v] /\ at[v] \notin Syncing
      /\ at' \in [Workers -> {"upload", "exec", "done", "download", "returned"} \cup Syncing]
  <2>1. at[w] \in Syncing \/ \A v \in Workers : at[v] \notin Syncing
    BY DEF SyncStep, Lock, Status, ShowCurrent, CreateBranch, CopyFiles, Add, Recheck, Commit,
           Accept, CheckoutCurrent, Merge, Restore, Syncing, Checked
  <2>2. WorkerStep(w)
    BY DEF WorkerStep
  <2> QED
    BY <1>0, <2>1, <2>2, WorkerMoves DEF Places, OneSync
<1>2. /\ at[w] \notin {"upload", "exec", "done"}
      /\ copy' = copy
  BY DEF SyncStep, Lock, Status, ShowCurrent, CreateBranch, CopyFiles, Add, Recheck, Commit,
         Accept, CheckoutCurrent, Merge, Restore
<1>3. /\ \A t : Fine(t) => FineNext(t)
      /\ \A t : Own(w, t) => OwnNext(w, t)
      /\ \A t : Fine(t) => Own(w, t)
  <2>1. \A t : Fine(t) => Own(w, t)
    BY DEF Fine, Own
  <2> QED
    BY <1>0, <1>2, <2>1, VouchedStays
<1>4. at[w] # "add" => Staged
  BY <1>0, <1>1 DEF Syncing, Checked
<1>5. SUFFICES ASSUME TRUE
               PROVE  /\ FineNext(refs'[Home])
                      /\ at'[w] # "add" => Staged'
                      /\ at'[w] = "add" => OwnNext(w, Branch(work'))
                      /\ at'[w] \in Apart => OwnNext(w, index')
                      /\ at'[w] \in Apart \cup {"merge"} => OwnNext(w, refs'[w])
                      /\ at'[w] \in {"home", "merge"} => w \in accepted'
  <2>1. \A v \in Workers \ {w} : at'[v] \notin Apart \cup {"add", "home", "merge"}
    BY <1>1 DEF Syncing, Checked, Apart
  <2> QED
    BY <1>5, <2>1, Primed DEF OwnAt
<1>6. CASE Lock(w) \/ Status(w) \/ ShowCurrent(w)
  <2>1. /\ UNCHANGED <<work, index, refs>> /\ at[w] # "add"
        /\ at'[w] \in {"status", "returned", "branch", "create"}
    BY <1>0, <1>6 DEF Lock, Status, ShowCurrent, repo, GoTo, Places
  <2>2. Staged'
    BY <1>4, <2>1 DEF Staged, Branch
  <2> QED
    BY <1>0, <1>3, <2>1, <2>2 DEF Apart
<1>7. CASE CreateBranch(w)
  <2>1. /\ UNCHANGED <<work, index>> /\ at[w] = "create" /\ at'[w] = "copy"
        /\ refs' = [refs EXCEPT ![w] = refs[on]]
    BY <1>0, <1>7 DEF CreateBranch, GoTo, Places, Failed, Calm
  <2>2. AtHome
    BY <1>0, <2>1 DEF Stage
  <2>3. refs'[w] = refs[Home] /\ refs'[Home] = refs[Home] /\ index = refs[Home]
    BY <1>0, <1>a, <2>1, <2>2 DEF AtHome, Repository
  <2>4. Staged'
    BY <1>4, <2>1 DEF Staged, Branch
  <2> QED
    BY <1>0, <1>3, <2>1, <2>3, <2>4 DEF Apart
<1>8. CASE CopyFiles(w)
  <2>1. /\ UNCHANGED <<index, refs>> /\ at[w] = "copy" /\ at'[w] = "add"
        /\ work' = Overwrite(w, Files)
    BY <1>0, <1>8 DEF CopyFiles, GoTo, Places, Failed, Calm
  <2>2. Own(w, Branch(work'))
    <3>1. \A f \in Files : Branch(work')[f] \subseteq copy[w][f]
      BY <2>1 DEF Branch, Overwrite
    <3> QED
      BY <1>0, <3>1 DEF OwnAt, Own
  <2>3. Own(w, index) /\ Own(w, refs[w])
    BY <1>0, <2>1 DEF OwnAt, Apart
  <2> QED
    BY <1>0, <1>3, <2>1, <2>2, <2>3
<1>9. CASE Add(w)
  <2>1. /\ UNCHANGED <<work, refs>> /\ at[w] = "add" /\ at'[w] = "recheck" /\ index' = Branch(work)
    BY <1>0, <1>9 DEF Add, GoTo, Places, Failed, Calm
  <2>2. Own(w, Branch(work)) /\ Own(w, refs[w])
    BY <1>0, <2>1 DEF OwnAt, Apart
  <2>3. Staged'
    BY <2>1 DEF Staged, Branch
  <2> QED
    BY <1>0, <1>3, <2>1, <2>2, <2>3
<1>10. CASE Recheck(w)
  <2>1. /\ UNCHANGED <<work, index, refs>> /\ at[w] = "recheck" /\ at'[w] \in {"commit", "restore"}
    BY <1>0, <1>10 DEF Recheck, repo, GoTo, Places
  <2>2. Own(w, index) /\ Own(w, refs[w])
    BY <1>0, <2>1 DEF OwnAt, Apart
  <2>3. Staged'
    BY <1>4, <2>1 DEF Staged, Branch
  <2> QED
    BY <1>0, <1>3, <2>1, <2>2, <2>3
<1>11. CASE Commit(w)
  <2>1. /\ UNCHANGED <<work, index>> /\ at[w] = "commit" /\ at'[w] \in {"accept", "restore"}
        /\ refs' \in {refs, [refs EXCEPT ![on] = index]}
    BY <1>0, <1>11 DEF Commit, GoTo, Places
  <2>2. on = w /\ Own(w, index) /\ Own(w, refs[w])
    BY <1>0, <2>1 DEF OwnAt, Apart, Stage, OnBranch
  <2>3. Staged'
    BY <1>4, <2>1 DEF Staged, Branch
  <2>4. refs'[Home] = refs[Home] /\ refs'[w] \in {refs[w], index}
    BY <1>0, <1>a, <2>1, <2>2 DEF Repository
  <2> QED
    BY <1>0, <1>3, <2>1, <2>2, <2>3, <2>4
<1>12. CASE Accept(w)
  <2>1. /\ UNCHANGED <<work, index, refs>> /\ at[w] = "accept" /\ at'[w] \in {"home", "restore"}
        /\ at'[w] = "home" => w \in accepted'
    BY <1>0, <1>12 DEF Accept, repo, GoTo, Places
  <2>2. Own(w, index) /\ Own(w, refs[w])
    BY <1>0, <2>1 DEF OwnAt, Apart
  <2>3. Staged'
    BY <1>4, <2>1 DEF Staged, Branch
  <2> QED
    BY <1>0, <1>3, <2>1, <2>2, <2>3
<1>13. CASE CheckoutCurrent(w) \/ Restore(w)
  <2>1. /\ UNCHANGED refs /\ at[w] \in {"home", "restore"} /\ Switch(refs[Home])
        /\ at'[w] \in {"merge", "returned", "restore"} /\ (at'[w] = "merge" => at[w] = "home")
        /\ accepted' = accepted /\ at'[w] # "restore"
    BY <1>0, <1>13 DEF CheckoutCurrent, Restore, Checkout, GoTo, Places, Refused, Failed, Calm, Stage, OnBranch
  <2>2. refs[Home] \in Trees /\ on \in Workers \cup {Home} /\ Staged
    BY <1>0, <1>4, <2>1 DEF Repository, Places
  <2>3. Staged'
    BY <1>0, <2>1, <2>2, SwitchStaged
  <2>4. Own(w, refs[w]) /\ (at[w] = "home" => w \in accepted)
    BY <1>0, <2>1 DEF OwnAt, Apart
  <2> QED
    BY <1>0, <1>3, <2>1, <2>3, <2>4 DEF Apart
<1>14. CASE Merge(w)
  <2>1. at[w] = "merge" /\ at'[w] = "returned" /\ accepted' = accepted /\ mixed' = mixed
    BY <1>0, <1>14 DEF Merge, GoTo, Places
  <2>2. AtHome /\ w \in accepted /\ Own(w, refs[w]) /\ Staged
    BY <1>0, <1>4, <2>1 DEF Stage, OwnAt
  <2>3. \A x \in Workers, f \in Files : x \in refs[w][f] => Vouched(x, f)
    BY <2>2 DEF Own, Vouched
  <2>4. CASE UNCHANGED <<work, index, refs>>
    <3>1. Staged'
      BY <2>2, <2>4 DEF Staged, Branch
    <3> QED
      BY <1>0, <1>3, <2>1, <2>4, <3>1 DEF Apart
  <2>5. ASSUME NEW t \in Trees, Switch(t), refs' \in {refs, [refs EXCEPT ![on] = t]},
               \A f \in Files : t[f] \subseteq refs[on][f] \cup refs[w][f]
        PROVE  FineNext(refs'[Home]) /\ Staged'
    <3>1. Fine(t)
      BY <1>0, <2>2, <2>3, <2>5 DEF Fine, AtHome
    <3>2. refs'[Home] \in {refs[Home], t}
      BY <1>0, <2>2, <2>5 DEF Repository, AtHome
    <3>3. Staged'
      BY <1>0, <2>2, <2>5, SwitchStaged DEF Places
    <3> QED
      BY <1>0, <1>3, <3>1, <3>2, <3>3
  <2> QED
    BY <1>0, <1>14, <2>1, <2>4, <2>5, MergeResult DEF Apart
<1> QED
  BY <1>6, <1>7, <1>8, <1>9, <1>10, <1>11, <1>12, <1>13, <1>14 DEF SyncStep

LEMMA NextMerge == TypeInv /\ HomeInv /\ MergeInv /\ [Next]_vars => MergeInv'
<1> SUFFICES ASSUME TypeInv, HomeInv, MergeInv, [Next]_vars PROVE MergeInv'
  OBVIOUS
<1>0. Places /\ Repository /\ Copies /\ History /\ OneSync /\ SentOnly /\ AcceptedLate
  BY TypeParts DEF TypeInv, MergeInv
<1>1. SentOnly' /\ AcceptedLate'
  BY <1>0, NextSentOnly, NextAcceptedLate
<1>2. ASSUME Calm'
      PROVE  /\ Fine(refs[Home])' /\ ((\A w \in Workers : at[w] # "add") => Staged)'
             /\ \A w \in Workers : OwnAt(w)'
  <2>1. Calm
    BY <1>2, CalmBefore
  <2>2. \A w \in Workers : Own(w, copy[w])'
    BY <2>1, NextOwnCopy
  <2>3. CASE Outside
    BY <1>2, <2>1, <2>2, <2>3, OutsideMerge
  <2>4. ASSUME NEW w \in Workers, SyncStep(w)
        PROVE  /\ Fine(refs[Home])' /\ ((\A v \in Workers : at[v] # "add") => Staged)'
               /\ \A v \in Workers : OwnAt(v)'
    BY <1>2, <2>1, <2>2, <2>4, SyncMerge
  (* Before the sync only the copies change. *)
  <2>5. ASSUME NEW w \in Workers,
               (\E f \in Files : Upload(w, f)) \/ Unpack(w) \/ Exec(w) \/ Abort(w) \/ Download(w)
        PROVE  /\ Fine(refs[Home])' /\ ((\A v \in Workers : at[v] # "add") => Staged)'
               /\ \A v \in Workers : OwnAt(v)'
    <3>1. /\ UNCHANGED <<work, index, refs, accepted>> /\ at[w] \notin Syncing /\ at'[w] \notin Syncing
      BY <1>0, <2>5 DEF Upload, Unpack, Exec, Abort, Download, repo, hist, GoTo, Places, Syncing, Checked
    <3>2. \A v \in Workers \ {w} : at'[v] = at[v]
      BY <1>0, <2>5, WorkerMoves DEF WorkerStep, Places
    <3>3. Fine(refs[Home])' /\ ((\A v \in Workers : at[v] # "add") => Staged)'
      <4>1. Fine(refs[Home]) /\ ((\A v \in Workers : at[v] # "add") => Staged)
        BY <2>1 DEF MergeInv
      <4>2. (\A v \in Workers : at'[v] # "add") => \A v \in Workers : at[v] # "add"
        BY <3>1, <3>2 DEF Syncing, Checked
      <4>3. Staged' <=> Staged
        BY <3>1 DEF Staged, Branch
      <4>4. FineNext(refs'[Home])
        BY <1>0, <3>1, <4>1, VouchedStays
      <4> QED
        BY <4>1, <4>2, <4>3, <4>4, Primed
    <3>4. ASSUME NEW v \in Workers, at'[v] \in Syncing PROVE OwnAt(v)'
      <4>1. v # w /\ at'[v] = at[v] /\ at[v] \in Syncing /\ OwnAt(v)
        BY <2>1, <3>1, <3>2, <3>4 DEF MergeInv
      <4>2. copy'[v] = copy[v]
        BY <1>0, <4>1, CopiesKept DEF Syncing, Checked
      <4>3. \A t : Own(v, t) => OwnNext(v, t)
        BY <1>0, <4>2, VouchedStays
      <4> QED
        BY <2>2, <3>1, <4>1, <4>3, Primed DEF OwnAt
    <3>5. ASSUME NEW v \in Workers, at'[v] \notin Syncing PROVE OwnAt(v)'
      BY <2>2, <3>5 DEF OwnAt, Apart, Syncing, Checked
    <3> QED
      BY <3>3, <3>4, <3>5
  <2> QED
    BY <2>3, <2>4, <2>5, NextCases DEF WorkerStep
<1> QED
  BY <1>1, <1>2 DEF MergeInv

(* The user's branch gets of a worker only what was accepted, or what an
   accepted worker read of it in the middle of its sync, for any number of
   workers and files, whatever the user edits and commits meanwhile (the
   acceptance command and git merge of syncDownloadedWorkspace). *)
THEOREM OnlyAcceptedMergedHolds == Spec => []OnlyAcceptedMerged
<1>1. Init => HomeInv
  BY DEF Init, HomeInv, Calm, AtHome, Stage, Checked
<1>2. MergeInv => OnlyAcceptedMerged
  BY DEF MergeInv, Calm, Fine, Vouched, OnlyAcceptedMerged
<1> QED
  BY <1>1, <1>2, InitMerge, InitTypeInv, NextTypeInv, NextHome, NextMerge, PTL DEF Spec
=============================================================================
