--------------------------- MODULE MCWorkspaceSync ---------------------------
(* Two workers, each with a file of its own, and a file that git ignores; the
   user edits the first worker's file, and only its commands fail by themselves. *)
EXTENDS WorkspaceSync

CONSTANTS w1, w2, fa, fb, fs

MCWorkers == {w1, w2}
MCFiles == {fa, fb, fs}
MCIgnored == {fs}
MCUserFiles == {fa}
MCFaulty == {w1}
MCWrites == [w \in MCWorkers |-> IF w = w1 THEN {fa} ELSE {fb}]
=============================================================================
