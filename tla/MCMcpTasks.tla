------------------------------ MODULE MCMcpTasks ------------------------------
(* The finite instance of McpTasks: the workers are interchangeable.       *)
EXTENDS McpTasks, TLC

Symmetry == Permutations(Worker)

=============================================================================
