---------------------------- MODULE QueueFilter ----------------------------
(***************************************************************************)
(* The elements of a sequence outside S, in their order, as the filter of  *)
(* a list gives them: _SnapshotQueue.remove_if_present for every member of *)
(* S.  Stated through the increasing enumeration of the positions that     *)
(* stay, so that it can be reasoned about; it is SelectSeq (checked in     *)
(* MCTreeQueue).  Without(q, S) is a singleton.                            *)
(***************************************************************************)
EXTENDS Naturals, Sequences, FiniteSets

Kept(q, S) == {k \in DOMAIN q : q[k] \notin S}

Increasing(K) == {f \in [1..Cardinality(K) -> K] :
                    \A i, j \in 1..Cardinality(K) : i < j => f[i] < f[j]}

Without(q, S) == {[i \in 1..Cardinality(Kept(q, S)) |-> q[f[i]]] :
                    f \in Increasing(Kept(q, S))}
=============================================================================
