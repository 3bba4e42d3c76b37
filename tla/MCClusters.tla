------------------------------ MODULE MCClusters ------------------------------
(* Inputs for the checks of Clusters: the signals of a scheme. *)
EXTENDS Clusters, FiniteSets, SequencesExt

\* sorted(set(ents)): the keys of a signal are different and in order.
Signals(most) ==
    {SetToSortSeq(S, LAMBDA a, b : a < b) :
        S \in {S \in SUBSET Llaves : Cardinality(S) \in 1..most}}

\* Three signals of up to three keys, four of up to two.
MCLlaves == 1..4
MCEntradas == [1..3 -> Signals(3)] \cup [1..4 -> Signals(2)]
=============================================================================
