------------------------- MODULE MCRecordsRequests -------------------------
(* Instances of RecordsRequests for TLC. *)
EXTENDS RecordsRequests, TLC

Symmetric == Permutations(Process) \cup Permutations(Task) \cup Permutations(Request)
=============================================================================
