--------------------------- MODULE MCRemoteWorkers ---------------------------
(* Two processes, one of them with two subtasks. *)
EXTENDS RemoteWorkers, TLC

CONSTANTS c1, c2, j1, j2, j3

MCClients == {c1, c2}
MCJobs == {j1, j2, j3}
MCClientOf == [j \in MCJobs |-> IF j = j3 THEN c2 ELSE c1]

(* The subtasks of the first process can be told apart by nothing. *)
MCSymmetry == Permutations({j1, j2})
=============================================================================
