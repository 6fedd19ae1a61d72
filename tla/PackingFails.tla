---------------------------- MODULE PackingFails ----------------------------
(***************************************************************************)
(* One batch of two ranks for BatchPlan, in which the ranks' own numbers   *)
(* of micro-batches are 8 and 7 after the rebalance.  Karmarkar-Karp is a  *)
(* heuristic: with more parts its largest part can become heavier.         *)
(***************************************************************************)
EXTENDS BatchPlan

Batch == << 23, 14, 14,  9, 11, 13,  9, 21, 17, 10, 29, 10, 27, 12,  7, 23, 30,
            24, 28, 15, 27, 16, 27, 24, 25, 22, 10, 12, 21, 10, 23, 13, 17, 30>>

BatchInit == lens = Batch /\ cp_size \in CpSizes /\ Start
BatchSpec == BatchInit /\ [][Next]_vars

\* The alignment keeps the ranks in lock step: no rank enters the micro-batch
\* loop with the number agreed on while another cannot pack for it.
AlignedInLockStep == \A q, r \in Ranks : pc[q] = "forward" => pc[r] # "failed"
=============================================================================
