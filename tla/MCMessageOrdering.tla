------------------------- MODULE MCMessageOrdering -------------------------
(* A small instance of the ordering tracker for TLC.                       *)
EXTENDS MessageOrdering, TLC

\* Message IDs, and partitions, are interchangeable.
Symmetric == Permutations(MessageIDs) \cup Permutations(PartitionKeys)
=============================================================================
