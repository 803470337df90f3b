---------------------------- MODULE WorkspaceSync ----------------------------
(***************************************************************************)
(* What happens to the user's repository while remote workers run: each    *)
(* worker is sent a copy of the working tree, changes it, and is then      *)
(* synchronised back, under gitMu: a branch of its own, a copy over the    *)
(* working tree, a commit, the acceptance command and, when it passes, a   *)
(* merge into the branch the user was on.  Uploads do not take gitMu, the  *)
(* user edits and commits meanwhile, and the context may end between any   *)
(* two commands.                                                           *)
(*                                                                         *)
(* The content of a file is the set of the writes it carries; the empty    *)
(* set is no such file.  A branch is the tree of its last commit.          *)
(***************************************************************************)
EXTENDS FiniteSets

CONSTANTS
  Workers,   \* the workers of one coordinator run
  Files,
  Ignored,   \* files that git ignores; the upload leaves them out
  Withheld,  \* files under version control that the upload leaves out
  Writes,    \* the files each worker's task changes
  UserFiles, \* files the user edits meanwhile
  Faulty,    \* workers whose own commands may fail, for another reason than a cancellation
  Home,      \* what HEAD is at first: "main", or "detached"
  AcceptCmd  \* settings.AcceptCmd is set

ASSUME WorkspaceSyncAssumption ==
  /\ Ignored \subseteq Files /\ Withheld \subseteq Files /\ UserFiles \subseteq Files
  /\ Faulty \subseteq Workers
  /\ Writes \in [Workers -> SUBSET Files]
  /\ Home \in {"main", "detached"} /\ Workers \cap {Home, "base", "user"} = {}
  /\ AcceptCmd \in BOOLEAN

VARIABLES
  at,        \* where runWorkerRemote and syncDownloadedWorkspace are
  cancelled, \* the errgroup's context has ended
  work,      \* the working tree
  index,     \* what is staged
  refs,      \* the last commit of each branch; a worker's exists once created
  on,        \* the branch that is checked out
  prev,      \* the one before, for "checkout -"
  fork,      \* the commit at which the last branch was created
  unsent,    \* files an upload has still to read
  copy,      \* a worker's workspace, here or in the cloud
  current,   \* currentBranch, or none
  failed,    \* history variable: a git or copy command of a sync failed
  late,      \* history variable: files edited between a sync's check and its end
  mixed,     \* history variable: workers that read the tree during a sync
  accepted,  \* history variable: workers whose changes were accepted
  torn       \* history variable: workers whose archive came back incomplete

repo == <<work, index, refs, on, prev, fork>>
hist == <<failed, late, mixed, accepted, torn>>
vars == <<at, cancelled, repo, unsent, copy, current, hist>>

Sent == Files \ (Ignored \cup Withheld)
User == "user"
Authors == Workers \cup {"base", User}
Trees == [Files -> SUBSET Authors]
None == "none"

(* The steps of syncDownloadedWorkspace, which hold gitMu. *)
Checked == {"branch", "create", "copy", "add", "recheck", "commit", "accept", "home", "merge", "restore"}
Syncing == Checked \cup {"status"}

Branch(tree) == [f \in Files |-> IF f \in Ignored THEN {} ELSE tree[f]]
Original == [f \in Files |-> {"base"}]

Init ==
  /\ at = [w \in Workers |-> "upload"] /\ cancelled = FALSE
  /\ work = Original /\ index = Branch(Original)
  /\ refs = [b \in Workers \cup {Home} |-> Branch(Original)]
  /\ on = Home /\ prev = None /\ fork = Branch(Original)
  /\ unsent = [w \in Workers |-> Sent] /\ copy = [w \in Workers |-> [f \in Files |-> {}]]
  /\ current = [w \in Workers |-> None]
  /\ failed = {} /\ late = {} /\ mixed = {} /\ accepted = {} /\ torn = {}

GoTo(w, step) == at' = [at EXCEPT ![w] = step]

(* A command fails because the context has ended, or by itself. *)
Failed(w) ==
  /\ cancelled \/ w \in Faulty
  /\ failed' = failed \cup {w}

(* git status --porcelain prints something. *)
Dirty == index # refs[on] \/ Branch(work) # index

-----------------------------------------------------------------------------
(* The worker: upload, headless task, download *)

(* The walk of UploadWorkspaceAt reads one file after the other. *)
Upload(w, f) ==
  /\ at[w] = "upload" /\ f \in unsent[w]
  /\ copy' = [copy EXCEPT ![w][f] = work[f]]
  /\ unsent' = [unsent EXCEPT ![w] = @ \ {f}]
  /\ mixed' = IF \E v \in Workers : at[v] \in Syncing THEN mixed \cup {w} ELSE mixed
  /\ UNCHANGED <<at, cancelled, repo, current, failed, late, accepted, torn>>

(* Fault: the archive counts as sent before the walk has ended. *)
UnpackEarly(w) ==
  /\ at[w] = "upload" /\ ~cancelled
  /\ GoTo(w, "exec")
  /\ UNCHANGED <<cancelled, repo, unsent, copy, current, hist>>

(* The agent empties its workspace and extracts the archive into it. *)
Unpack(w) ==
  /\ at[w] = "upload" /\ unsent[w] = {} /\ ~cancelled
  /\ GoTo(w, "exec")
  /\ UNCHANGED <<cancelled, repo, unsent, copy, current, hist>>

Exec(w) ==
  /\ at[w] = "exec" /\ ~cancelled
  /\ copy' = [copy EXCEPT ![w] = [f \in Files |-> IF f \in Writes[w] THEN @[f] \cup {w} ELSE @[f]]]
  /\ GoTo(w, "done")
  /\ UNCHANGED <<cancelled, repo, unsent, current, hist>>

(* A worker that fails, in the upload or its task, ends the others' context. *)
Abort(w) ==
  /\ at[w] \in {"upload", "exec"}
  /\ GoTo(w, "returned") /\ cancelled' = TRUE
  /\ UNCHANGED <<repo, unsent, copy, current, hist>>

(* The agent's walk may end with an error at any file; the deferred closing of
   the archive then makes it a complete one that lacks the rest. *)
Archives(tree) == {[f \in Files |-> IF f \in walked THEN tree[f] ELSE {}] :
                     walked \in SUBSET {f \in Files : tree[f] # {}}}

(* A download that fails is only reported, and nothing is synchronised. *)
Download(w) ==
  /\ at[w] = "done"
  /\ \/ /\ ~cancelled
        /\ \E archive \in IF w \in Faulty THEN Archives(copy[w]) ELSE {copy[w]} :
             /\ copy' = [copy EXCEPT ![w] = archive]
             /\ torn' = IF archive = copy[w] THEN torn ELSE torn \cup {w}
        /\ GoTo(w, "download")
     \/ GoTo(w, "returned") /\ UNCHANGED <<copy, torn>>
  /\ UNCHANGED <<cancelled, repo, unsent, current, failed, late, mixed, accepted>>

-----------------------------------------------------------------------------
(* git, as the commands of the sync use it *)

(* HEAD moves to the branch b, which now is tree; a file that differs is
   replaced, and the command refuses when such a file has local changes. *)
Differs(tree) == {f \in Files : refs[on][f] # tree[f]}
Locked(tree) == \E f \in Differs(tree) : index[f] # refs[on][f] \/ Branch(work)[f] # index[f]
Switch(tree) ==
  /\ ~Locked(tree)
  /\ work' = [f \in Files |-> IF f \in Differs(tree) THEN tree[f] ELSE work[f]]
  /\ index' = [f \in Files |-> IF f \in Differs(tree) THEN tree[f] ELSE index[f]]

(* Refusing is a failure too. *)
Refused(w, tree) == Locked(tree) /\ failed' = failed \cup {w}

Checkout(b) == Switch(refs[b]) /\ on' = b /\ prev' = on /\ UNCHANGED <<refs, fork>>

-----------------------------------------------------------------------------
(* syncDownloadedWorkspace *)

(* Fault: gitMu is not taken. *)
Unlocked(w) ==
  /\ at[w] = "download"
  /\ GoTo(w, "status")
  /\ UNCHANGED <<cancelled, repo, unsent, copy, current, hist>>

Lock(w) ==
  /\ at[w] = "download" /\ \A v \in Workers : at[v] \notin Syncing
  /\ GoTo(w, "status")
  /\ UNCHANGED <<cancelled, repo, unsent, copy, current, hist>>

(* Fault: the state of the tree is not looked at. *)
StatusUnchecked(w) ==
  /\ at[w] = "status" /\ GoTo(w, "branch")
  /\ UNCHANGED <<cancelled, repo, unsent, copy, current, hist>>

(* A dirty tree is left alone; a status that fails counts as clean. *)
Status(w) ==
  /\ at[w] = "status"
  /\ \/ ~cancelled /\ Dirty /\ GoTo(w, "returned") /\ UNCHANGED failed
     \/ ~cancelled /\ ~Dirty /\ GoTo(w, "branch") /\ UNCHANGED failed
     \/ GoTo(w, "branch") /\ Failed(w)
  /\ UNCHANGED <<cancelled, repo, unsent, copy, current, late, mixed, accepted, torn>>

ShowCurrent(w) ==
  /\ at[w] = "branch"
  /\ \/ /\ ~cancelled
        /\ current' = [current EXCEPT ![w] = IF on = "detached" THEN None ELSE on]
        /\ UNCHANGED failed
     \/ UNCHANGED current /\ Failed(w)
  /\ GoTo(w, "create")
  /\ UNCHANGED <<cancelled, repo, unsent, copy, late, mixed, accepted, torn>>

CreateBranch(w) ==
  /\ at[w] = "create"
  /\ \/ /\ ~cancelled
        /\ refs' = [refs EXCEPT ![w] = refs[on]] /\ on' = w /\ prev' = on /\ fork' = refs[on]
        /\ GoTo(w, "copy") /\ UNCHANGED failed
     \/ UNCHANGED <<refs, on, prev, fork>> /\ GoTo(w, "returned") /\ Failed(w)
  /\ UNCHANGED <<cancelled, work, index, unsent, copy, current, late, mixed, accepted, torn>>

(* rsync --delete makes the tree the copy, and so removes what was never
   sent; when it fails, part of the way, cp overwrites and removes nothing. *)
Overwrite(w, done) == [f \in Files |-> IF f \in done THEN copy[w][f] ELSE work[f]]
Fallback(w, done, tree) ==
  [f \in Files |-> IF f \in done /\ copy[w][f] # {} THEN copy[w][f] ELSE tree[f]]

CopyFiles(w) ==
  /\ at[w] = "copy"
  /\ \/ /\ ~cancelled /\ work' = Overwrite(w, Files)
        /\ GoTo(w, "add") /\ UNCHANGED failed
     \/ /\ \E part \in SUBSET Files : work' = Fallback(w, Files, Overwrite(w, part))
        /\ ~cancelled /\ GoTo(w, "add") /\ Failed(w)
     \/ /\ \E part, more \in SUBSET Files : work' = Fallback(w, more, Overwrite(w, part))
        /\ GoTo(w, "returned") /\ Failed(w)
  /\ UNCHANGED <<cancelled, index, refs, on, prev, fork, unsent, copy, current, late, mixed, accepted, torn>>

Add(w) ==
  /\ at[w] = "add"
  /\ \/ ~cancelled /\ index' = Branch(work) /\ GoTo(w, "recheck") /\ UNCHANGED failed
     \/ UNCHANGED index /\ GoTo(w, "returned") /\ Failed(w)
  /\ UNCHANGED <<cancelled, work, refs, on, prev, fork, unsent, copy, current, late, mixed, accepted, torn>>

(* The second status: nothing printed, or an error, is nothing to commit. *)
Recheck(w) ==
  /\ at[w] = "recheck"
  /\ \/ ~cancelled /\ Dirty /\ GoTo(w, "commit") /\ UNCHANGED failed
     \/ ~cancelled /\ ~Dirty /\ GoTo(w, "restore") /\ UNCHANGED failed
     \/ GoTo(w, "restore") /\ Failed(w)
  /\ UNCHANGED <<cancelled, repo, unsent, copy, current, late, mixed, accepted, torn>>

(* It fails too when the user has committed the same meanwhile. *)
Commit(w) ==
  /\ at[w] = "commit"
  /\ \/ /\ ~cancelled /\ index # refs[on]
        /\ refs' = [refs EXCEPT ![on] = index]
        /\ GoTo(w, IF AcceptCmd THEN "accept" ELSE "restore") /\ UNCHANGED failed
     \/ index = refs[on] /\ GoTo(w, "restore") /\ UNCHANGED <<refs, failed>>
     \/ UNCHANGED refs /\ GoTo(w, "restore") /\ Failed(w)
  /\ UNCHANGED <<cancelled, work, index, on, prev, fork, unsent, copy, current, late, mixed, accepted, torn>>

(* Fault: what the acceptance command says is not looked at. *)
AcceptAnyway(w) ==
  /\ at[w] = "accept"
  /\ UNCHANGED accepted
  /\ GoTo(w, IF current[w] # None THEN "home" ELSE "restore")
  /\ UNCHANGED <<cancelled, repo, unsent, copy, current, failed, late, mixed, torn>>

Accept(w) ==
  /\ at[w] = "accept"
  /\ \/ /\ ~cancelled /\ accepted' = accepted \cup {w}
        /\ GoTo(w, IF current[w] # None THEN "home" ELSE "restore")
     \/ UNCHANGED accepted /\ GoTo(w, "restore")
  /\ UNCHANGED <<cancelled, repo, unsent, copy, current, failed, late, mixed, torn>>

CheckoutCurrent(w) ==
  /\ at[w] = "home"
  /\ \/ ~cancelled /\ Checkout(current[w]) /\ GoTo(w, "merge") /\ UNCHANGED failed
     \/ UNCHANGED repo /\ GoTo(w, "restore") /\ (Failed(w) \/ Refused(w, refs[current[w]]))
  /\ UNCHANGED <<cancelled, unsent, copy, current, late, mixed, accepted, torn>>

(* git merge, file by file: what either side has added since the branch was
   created, and what both have kept.  Without a commit of the user in between
   that is the worker's branch.  A file that both have changed may conflict:
   the tree and the index then hold both, and nothing is committed.  No error
   of the merge is looked at. *)
Merged(w, f) ==
  (refs[on][f] \cap refs[w][f]) \cup (refs[on][f] \ fork[f]) \cup (refs[w][f] \ fork[f])
Contested(w) == {f \in Files : refs[on][f] \notin {fork[f], refs[w][f]} /\ refs[w][f] # fork[f]}
Conflicted(w) ==
  [f \in Files |-> IF f \in Contested(w) THEN refs[on][f] \cup refs[w][f] ELSE Merged(w, f)]

(* Local changes to a file that the merge, or a conflict in it, would write. *)
MergeRefused(w) == Refused(w, [f \in Files |-> Merged(w, f)]) \/ Refused(w, Conflicted(w))

Merge(w) ==
  /\ at[w] = "merge"
  /\ \/ /\ ~cancelled
        /\ \A f \in Contested(w) : {} \notin {refs[on][f], refs[w][f], Merged(w, f)}
        /\ LET tree == [f \in Files |-> Merged(w, f)]
           IN Switch(tree) /\ refs' = [refs EXCEPT ![on] = tree]
        /\ UNCHANGED failed
     \/ /\ ~cancelled /\ Contested(w) # {}
        /\ Switch(Conflicted(w)) /\ failed' = failed \cup {w} /\ UNCHANGED refs
     \/ UNCHANGED <<work, index, refs>> /\ (Failed(w) \/ MergeRefused(w))
  /\ GoTo(w, "returned")
  /\ UNCHANGED <<cancelled, on, prev, fork, unsent, copy, current, late, mixed, accepted, torn>>

(* Fault: returns from the branch it has created. *)
NotRestored(w) ==
  /\ at[w] = "restore" /\ GoTo(w, "returned")
  /\ UNCHANGED <<cancelled, repo, unsent, copy, current, hist>>

Restore(w) ==
  /\ at[w] = "restore"
  /\ \/ ~cancelled /\ Checkout(prev) /\ UNCHANGED failed
     \/ UNCHANGED repo /\ (Failed(w) \/ Refused(w, refs[prev]))
  /\ GoTo(w, "returned")
  /\ UNCHANGED <<cancelled, unsent, copy, current, late, mixed, accepted, torn>>

-----------------------------------------------------------------------------
(* The user *)

Edit(f) ==
  /\ f \in UserFiles /\ User \notin work[f]
  /\ work' = [work EXCEPT ![f] = @ \cup {User}]
  /\ late' = IF \E w \in Workers : at[w] \in Checked THEN late \cup {f} ELSE late
  /\ UNCHANGED <<at, cancelled, index, refs, on, prev, fork, unsent, copy, current, failed, mixed, accepted, torn>>

(* git commit -a, on whatever branch is checked out. *)
UserCommit ==
  /\ \E f \in UserFiles : User \in Branch(work)[f]
  /\ Dirty
  /\ index' = Branch(work) /\ refs' = [refs EXCEPT ![on] = Branch(work)]
  /\ UNCHANGED <<at, cancelled, work, on, prev, fork, unsent, copy, current, hist>>

Cancel ==
  /\ ~cancelled /\ cancelled' = TRUE
  /\ UNCHANGED <<at, repo, unsent, copy, current, hist>>

-----------------------------------------------------------------------------
SyncStep(w) ==
  \/ Lock(w) \/ Status(w) \/ ShowCurrent(w) \/ CreateBranch(w) \/ CopyFiles(w) \/ Add(w)
  \/ Recheck(w) \/ Commit(w) \/ Accept(w) \/ CheckoutCurrent(w) \/ Merge(w) \/ Restore(w)

WorkerStep(w) ==
  (\E f \in Files : Upload(w, f)) \/ Unpack(w) \/ Exec(w) \/ Abort(w) \/ Download(w) \/ SyncStep(w)

Next ==
  \/ \E w \in Workers : WorkerStep(w)
  \/ (\E f \in Files : Edit(f)) \/ UserCommit \/ Cancel

Spec == Init /\ [][Next]_vars

-----------------------------------------------------------------------------
(* What the variables range over, and gitMu: one sync at a time. *)
Types ==
  /\ at \in [Workers -> {"upload", "exec", "done", "download", "returned"} \cup Syncing]
  /\ cancelled \in BOOLEAN
  /\ work \in Trees /\ index \in Trees /\ fork \in Trees /\ refs \in [Workers \cup {Home} -> Trees]
  /\ on \in Workers \cup {Home} /\ prev \in Workers \cup {Home, None}
  /\ unsent \in [Workers -> SUBSET Files] /\ copy \in [Workers -> Trees]
  /\ current \in [Workers -> Workers \cup {Home, None}]
  /\ failed \subseteq Workers /\ late \subseteq Files
  /\ mixed \subseteq Workers /\ accepted \subseteq Workers /\ torn \subseteq Workers

TypeOK == Types /\ \A v, w \in Workers : at[v] \in Syncing /\ at[w] \in Syncing => v = w

(* Between syncs the user is on the branch they were on, with nothing of a
   worker staged, unless a command failed: edits made during a sync matter only
   where they make git refuse to switch back. *)
HomeRestored ==
  (\A w \in Workers : at[w] \notin Syncing) /\ failed = {} =>
    on = Home /\ index = refs[Home]

(* What a worker wrote gets onto the user's branch only when it was accepted,
   or inside the copy of an accepted worker that was read during the other's
   sync; when a command failed, it may be left for the user's own commit. *)
OnlyAcceptedMerged ==
  \A w \in Workers, f \in Files : w \in refs[Home][f] =>
    \/ w \in accepted \/ failed # {}
    \/ \E v \in accepted \cap mixed : w \in copy[v][f]

(* A file that was sent to the workers, and that none of them removed, leaves
   the user's branch only through an archive that was cut short. *)
SentFilesStay ==
  (\E f \in Sent : refs[Home][f] = {}) => torn # {}

(* An edit that is on no branch goes from the working tree only if git ignores
   the file, if it was made after the sync had looked at the tree, or if the
   look itself had failed. *)
EditsKept ==
  [][\A f \in Files :
       /\ User \in work[f] /\ \A b \in DOMAIN refs : User \notin refs[b][f]
       /\ User \notin work'[f]
       => f \in Ignored \cup late \/ \E w \in failed : at[w] = "copy"]_vars

(* Files that git ignores outlive a sync. *)
IgnoredKept == [][\A f \in Ignored : work[f] # {} => work'[f] # {}]_vars
=============================================================================
