---------------------------- MODULE MCTreeQueue ----------------------------
(* Small instances of TreeQueue: one root and two or three replies.        *)
EXTENDS TreeQueue, SequencesExt, TLC

Replies == Node \ {Root}
ReplySymmetry == Permutations(Replies)

\* Bound of the run with every operation: one /clear at a time.
OneClear == Cardinality(clearing) <= 1

\* Without is the filter of _SnapshotQueue.remove_if_present.
ASSUME \A q \in SeqOf(Node, 3), S \in SUBSET Node :
            Without(q, S) = {SelectSeq(q, LAMBDA n : n \notin S)}
=============================================================================
