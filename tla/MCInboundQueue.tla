--------------------------- MODULE MCInboundQueue ---------------------------
(* Small instances of InboundQueue: two jobs of one conversation, and two worker *)
(* processes with one loop each.                                                  *)
EXTENDS InboundQueue, TLC

MCPartition == [j \in Jobs |-> "conversation"]
MCTwoProcesses == [s \in Slots |-> s]

\* The loops run the same code and MCTwoProcesses treats them alike.
LoopSymmetry == Permutations(Slots)
=============================================================================
