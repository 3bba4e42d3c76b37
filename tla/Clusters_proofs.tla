---------------------------- MODULE Clusters_proofs ----------------------------
(***************************************************************************)
(* What agrupar computes, for every input: the union-find of the assembler *)
(* leaves each signal in one group, and the groups are the connected       *)
(* components of the signals.                                              *)
(*                                                                         *)
(* The argument goes without paths and without their lengths.  A set of    *)
(* keys is whole in a forest if no tree of the forest is cut by it; two    *)
(* keys are of one tree if no whole set separates them.  Halving a path    *)
(* changes no whole set, and a union keeps those with both or none of the  *)
(* two roots, so the whole sets are, in the end, those that no signal      *)
(* straddles.                                                              *)
(***************************************************************************)
EXTENDS Clusters, Integers, TLAPS

Whole(p, S) == \A a \in Llaves : a \in S <=> p[a] \in S

OneTree(p, a, b) == \A S \in SUBSET Llaves : Whole(p, S) => (a \in S <=> b \in S)

-----------------------------------------------------------------------------
(* Forests *)

\* padre[x] = padre[padre[x]] moves x within its tree and moves no root.
LEMMA HalvingKeepsTrees ==
    ASSUME NEW p \in [Llaves -> Llaves], NEW y \in Llaves, p[y] # y
    PROVE  LET q == [p EXCEPT ![y] = p[p[y]]]
           IN  /\ q \in [Llaves -> Llaves]
               /\ \A S : Whole(q, S) <=> Whole(p, S)
               /\ \A a, b : OneTree(q, a, b) <=> OneTree(p, a, b)
               /\ OneTree(p, y, p[p[y]])
               /\ \A a \in Llaves : p[a] = a => q[a] = a
<1> DEFINE q == [p EXCEPT ![y] = p[p[y]]]
<1>1. q \in [Llaves -> Llaves]
    OBVIOUS
<1>2. \A S : Whole(q, S) <=> Whole(p, S)
    <2> TAKE S
    <2>1. ASSUME Whole(p, S) PROVE Whole(q, S)
        BY <2>1 DEF Whole
    <2>2. ASSUME Whole(q, S) PROVE Whole(p, S)
        <3>1. y \in S <=> p[p[y]] \in S
            BY <2>2 DEF Whole
        <3>2. p[y] \in S <=> p[p[y]] \in S
            BY <2>2 DEF Whole
        <3> QED
            BY <2>2, <3>1, <3>2 DEF Whole
    <2> QED
        BY <2>1, <2>2
<1>3. OneTree(p, y, p[p[y]])
    BY DEF OneTree, Whole
<1>4. \A a \in Llaves : p[a] = a => q[a] = a
    OBVIOUS
<1>5. \A a, b : OneTree(q, a, b) <=> OneTree(p, a, b)
    BY <1>2 DEF OneTree
<1> QED
    BY <1>1, <1>2, <1>3, <1>4, <1>5

\* padre[max(ra, rb)] = min(ra, rb) makes one tree of those of the two roots.
LEMMA LinkingUnites ==
    ASSUME NEW p \in [Llaves -> Llaves], NEW r \in Llaves, NEW y \in Llaves,
           p[r] = r, p[y] = y, Llaves \subseteq Nat
    PROVE  LET q == [p EXCEPT ![Greater(r, y)] = Lesser(r, y)]
           IN  /\ q \in [Llaves -> Llaves]
               /\ \A S : Whole(q, S) <=> Whole(p, S) /\ (r \in S <=> y \in S)
               /\ \A a, b : OneTree(p, a, b) => OneTree(q, a, b)
               /\ OneTree(q, r, y)
<1> DEFINE hi == Greater(r, y)
           lo == Lesser(r, y)
           q == [p EXCEPT ![hi] = lo]
<1>1. hi \in Llaves /\ lo \in Llaves /\ p[hi] = hi
    BY DEF Greater, Lesser
<1>2. \A S : (hi \in S <=> lo \in S) <=> (r \in S <=> y \in S)
    BY DEF Greater, Lesser
<1> HIDE DEF hi, lo
<1>3. q \in [Llaves -> Llaves]
    BY <1>1
<1>4. \A S : Whole(q, S) <=> Whole(p, S) /\ (hi \in S <=> lo \in S)
    <2> TAKE S
    <2>1. \A a \in Llaves : q[a] = IF a = hi THEN lo ELSE p[a]
        OBVIOUS
    <2> HIDE DEF q
    <2> QED
        BY <1>1, <2>1 DEF Whole
<1>5. \A S : Whole(q, S) <=> Whole(p, S) /\ (r \in S <=> y \in S)
    BY <1>2, <1>4
<1>6. /\ \A a, b : OneTree(p, a, b) => OneTree(q, a, b)
      /\ OneTree(q, r, y)
    BY <1>5 DEF OneTree
<1> QED
    BY <1>3, <1>5, <1>6 DEF hi, lo

\* A key whose path leads to a root g: no set that is closed upwards has the key
\* and not g.  These keys are the tree of g, and no other root is one of them.
LEMMA RootsAreApart ==
    ASSUME NEW p \in [Llaves -> Llaves], NEW g \in Llaves, NEW h \in Llaves,
           p[g] = g, p[h] = h, g # h
    PROVE  ~OneTree(p, g, h)
<1> DEFINE Upwards(U) == \A a \in U : p[a] \in U
           Tree == {a \in Llaves : \A U \in SUBSET Llaves : Upwards(U) /\ a \in U => g \in U}
<1>1. g \in Tree
    OBVIOUS
<1>2. h \notin Tree
    <2>1. Upwards({h}) /\ h \in {h} /\ g \notin {h}
        OBVIOUS
    <2> QED
        BY <2>1
<1>3. ASSUME NEW a \in Tree PROVE p[a] \in Tree
    <2> SUFFICES ASSUME NEW U \in SUBSET Llaves, Upwards(U), p[a] \in U
                 PROVE  g \in U
        OBVIOUS
    <2>1. Upwards(U \cup {a}) /\ a \in U \cup {a}
        OBVIOUS
    <2>2. g \in U \cup {a}
        BY <2>1
    <2> QED
        BY <2>2
<1>4. ASSUME NEW a \in Llaves, p[a] \in Tree PROVE a \in Tree
    <2> SUFFICES ASSUME NEW U \in SUBSET Llaves, Upwards(U), a \in U
                 PROVE  g \in U
        OBVIOUS
    <2> QED
        BY <1>4
<1>5. Tree \in SUBSET Llaves /\ Whole(p, Tree)
    BY <1>3, <1>4 DEF Whole
<1> HIDE DEF Tree
<1> QED
    BY <1>1, <1>2, <1>5 DEF OneTree

-----------------------------------------------------------------------------
(* The inductive invariant *)

FirstPass == {"llaves", "raiz_a", "raiz_b", "raiz_senal"}
SecondPass == {"reparto", "raiz_grupo", "fin"}

Typed ==
    /\ senales \in Entradas
    /\ padre \in [Llaves -> Llaves]
    /\ raices \in Seq(Llaves)
    /\ grupos \in [Llaves -> SUBSET Todas]
    /\ paso \in FirstPass \cup SecondPass
    /\ s \in 1..(Len(senales) + 1)
    /\ k \in Nat /\ k >= 2
    /\ paso \in Calls => x \in Llaves
    /\ paso = "raiz_b" => ra \in Llaves

\* Where the loops are, and in whose trees the variables of raiz are.
Underway ==
    /\ paso \in {"raiz_a", "raiz_b"} => s \in Todas /\ k <= Len(senales[s])
    /\ paso = "raiz_a" => OneTree(padre, x, senales[s][1])
    /\ paso = "raiz_b" => /\ padre[ra] = ra
                          /\ OneTree(padre, ra, senales[s][1])
                          /\ OneTree(padre, x, senales[s][k])
    /\ paso \in {"raiz_senal", "raiz_grupo"} =>
          s \in Todas /\ OneTree(padre, x, senales[s][1])
    /\ paso = "raiz_senal" => k > Len(senales[s])
    /\ paso = "fin" => s \notin Todas

\* The root that was kept of a signal is of its tree still.
RootsKept ==
    /\ Len(raices) = IF paso \in FirstPass THEN s - 1 ELSE Len(senales)
    /\ \A t \in DOMAIN raices : OneTree(padre, raices[t], senales[t][1])

\* Whoever was united is; and nothing is united but by a signal.
United(t, i) == paso \in FirstPass => t < s \/ (t = s /\ i < k)
TreesAreChains ==
    /\ \A t \in Todas : \A i \in 2..Len(senales[t]) :
          United(t, i) => OneTree(padre, senales[t][1], senales[t][i])
    /\ \A S \in SUBSET Llaves : Closed(S) => Whole(padre, S)

\* A group is kept under a root, and has signals of its tree.
GroupsHaveRoots ==
    /\ paso \in FirstPass => \A g \in Llaves : grupos[g] = {}
    /\ paso \in SecondPass => \A t \in Todas : t < s => \E g \in Llaves : t \in grupos[g]
    /\ \A g \in Llaves : \A t \in grupos[g] :
          padre[g] = g /\ OneTree(padre, g, senales[t][1])

ClusterInv == Typed /\ Underway /\ RootsKept /\ TreesAreChains /\ GroupsHaveRoots

LEMMA InputFacts ==
    ASSUME senales \in Entradas
    PROVE  /\ Len(senales) \in Nat
           /\ \A t \in Todas : Len(senales[t]) \in Nat /\ Len(senales[t]) >= 1
           /\ \A t \in Todas : \A i \in 1..Len(senales[t]) : senales[t][i] \in Llaves
<1>1. senales \in Seq(Seq(Llaves)) /\ \A t \in Todas : senales[t] # <<>>
    BY InputAssumption DEF Todas
<1>2. ASSUME NEW t \in Todas
      PROVE  /\ Len(senales[t]) \in Nat /\ Len(senales[t]) >= 1
             /\ \A i \in 1..Len(senales[t]) : senales[t][i] \in Llaves
    <2>1. senales[t] \in Seq(Llaves) /\ senales[t] # <<>>
        BY <1>1 DEF Todas
    <2> QED
        BY <2>1
<1> QED
    BY <1>1, <1>2

LEMMA ClustersBegin == Init => ClusterInv
<1> SUFFICES ASSUME Init PROVE ClusterInv
    OBVIOUS
<1> USE DEF Init, FirstPass, SecondPass, Calls
<1>1. Len(senales) \in Nat /\ (\A t \in Todas : \A i \in 1..Len(senales[t]) : senales[t][i] \in Llaves)
    BY InputFacts
<1>2. Typed
    BY <1>1 DEF Typed
<1>3. Underway /\ RootsKept /\ GroupsHaveRoots
    BY <1>1 DEF Underway, RootsKept, GroupsHaveRoots, Todas
<1>4. TreesAreChains
    BY <1>1 DEF TreesAreChains, United, OneTree, Whole, Todas
<1> QED
    BY <1>2, <1>3, <1>4 DEF ClusterInv

\* Where no parent is changed and no pass begins, only the loop has moved.
LEMMA Halving == ClusterInv /\ Halve => ClusterInv'
<1> SUFFICES ASSUME ClusterInv, Halve PROVE ClusterInv'
    OBVIOUS
<1> USE DEF Halve
<1>0. Typed /\ x \in Llaves /\ padre \in [Llaves -> Llaves] /\ padre[x] # x
    BY DEF ClusterInv, Typed
<1>1. /\ padre' \in [Llaves -> Llaves]
      /\ \A S : Whole(padre', S) <=> Whole(padre, S)
      /\ \A a, b : OneTree(padre', a, b) <=> OneTree(padre, a, b)
      /\ OneTree(padre, x, x')
      /\ \A a \in Llaves : padre[a] = a => padre'[a] = a
    BY <1>0, HalvingKeepsTrees
<1>2. x' \in Llaves
    BY <1>0
<1>3. \A b : OneTree(padre, x, b) => OneTree(padre', x', b)
    BY <1>1 DEF OneTree
<1>4. Typed'
    BY <1>0, <1>1, <1>2 DEF Typed, Todas
<1>5. Underway'
    BY <1>0, <1>1, <1>3 DEF ClusterInv, Underway, Todas, Typed
<1>6. RootsKept'
    BY <1>1 DEF ClusterInv, RootsKept
<1>7. TreesAreChains'
    <2>1. \A S : Closed(S)' <=> Closed(S)
        BY DEF Closed, Keys, Todas
    <2>2. ASSUME NEW S \in SUBSET Llaves, Closed(S) PROVE Whole(padre', S)
        BY <1>1, <2>2 DEF ClusterInv, TreesAreChains
    <2>3. ASSUME NEW t \in Todas, NEW i \in 2..Len(senales[t]), United(t, i)'
          PROVE  OneTree(padre', senales[t][1], senales[t][i])
        BY <1>1, <2>3 DEF ClusterInv, TreesAreChains, United
    <2> QED
        BY <2>1, <2>2, <2>3 DEF TreesAreChains, Todas
<1>8. GroupsHaveRoots'
    BY <1>0, <1>1 DEF ClusterInv, GroupsHaveRoots, Todas
<1> QED
    BY <1>4, <1>5, <1>6, <1>7, <1>8 DEF ClusterInv

LEMMA Linking == ClusterInv /\ Link => ClusterInv'
<1> SUFFICES ASSUME ClusterInv, Link PROVE ClusterInv'
    OBVIOUS
<1>1. /\ Len(senales) \in Nat
      /\ \A t \in Todas : Len(senales[t]) \in Nat /\ Len(senales[t]) >= 1
      /\ \A t \in Todas : \A i \in 1..Len(senales[t]) : senales[t][i] \in Llaves
    BY InputFacts DEF ClusterInv, Typed
<1>2. s \in Todas /\ k \in Nat /\ k >= 2 /\ k <= Len(senales[s])
    BY DEF ClusterInv, Typed, Underway, Link, AtRoot
<1>3. s \in Nat /\ Len(senales[s]) \in Nat
    <2>1. s \in Nat
        BY <1>1, <1>2 DEF Todas
    <2> QED
        BY <1>1, <1>2, <2>1
<1>4. /\ Typed /\ x \in Llaves /\ ra \in Llaves /\ padre \in [Llaves -> Llaves]
      /\ padre[x] = x /\ padre[ra] = ra
      /\ OneTree(padre, ra, senales[s][1]) /\ OneTree(padre, x, senales[s][k])
      /\ Llaves \subseteq Nat
    BY InputAssumption DEF ClusterInv, Typed, Underway, Link, AtRoot, Calls
<1>5. k' = k + 1 /\ s' = s /\ paso = "raiz_b" /\ paso' = "llaves"
    BY DEF Link, AtRoot
<1>6. /\ padre' \in [Llaves -> Llaves]
      /\ \A S : Whole(padre', S) <=> Whole(padre, S) /\ (ra \in S <=> x \in S)
      /\ \A a, b : OneTree(padre, a, b) => OneTree(padre', a, b)
      /\ OneTree(padre', ra, x)
    <2>1. padre' = [padre EXCEPT ![Greater(ra, x)] = Lesser(ra, x)]
        BY DEF Link
    <2> QED
        BY <1>4, <2>1, LinkingUnites
<1>7. /\ 1 \in 1..Len(senales[s]) /\ k \in 1..Len(senales[s])
      /\ senales[s][1] \in Llaves /\ senales[s][k] \in Llaves
    <2>1. 1 \in 1..Len(senales[s]) /\ k \in 1..Len(senales[s])
        BY <1>2, <1>3
    <2> QED
        BY <1>1, <1>2, <2>1
<1>8. OneTree(padre', senales[s][1], senales[s][k])
    BY <1>4, <1>6 DEF OneTree
<1>9. Typed'
    <2>1. k' \in Nat /\ k' >= 2
        BY <1>2, <1>5
    <2> QED
        BY <1>4, <1>6, <2>1 DEF Typed, Todas, Link, FirstPass, SecondPass, Calls
<1>10. Underway' /\ RootsKept'
    BY <1>6, <1>4 DEF ClusterInv, Underway, RootsKept, Link, AtRoot, FirstPass
<1>11. TreesAreChains'
    <2>1. ASSUME NEW t \in Todas, NEW i \in 2..Len(senales[t]), United(t, i)'
          PROVE  OneTree(padre', senales[t][1], senales[t][i])
        <3>1. CASE t = s /\ i = k
            BY <1>8, <3>1
        <3>2. CASE ~(t = s /\ i = k)
            <4>1. United(t, i)
                <5>1. t \in Nat /\ i \in Nat
                    BY <1>1, <2>1 DEF Todas
                <5> QED
                    BY <1>2, <1>3, <1>5, <2>1, <3>2, <5>1 DEF United, FirstPass
            <4> QED
                BY <1>6, <4>1 DEF ClusterInv, TreesAreChains
        <3> QED
            BY <3>1, <3>2
    <2>2. ASSUME NEW S \in SUBSET Llaves, Closed(S) PROVE Whole(padre', S)
        <3>1. Whole(padre, S)
            BY <2>2 DEF ClusterInv, TreesAreChains
        <3>2. senales[s][1] \in S <=> senales[s][k] \in S
            BY <1>2, <1>7, <2>2 DEF Closed, Keys
        <3>3. ra \in S <=> x \in S
            BY <1>4, <3>1, <3>2 DEF OneTree
        <3> QED
            BY <1>6, <3>1, <3>3
    <2> QED
        BY <2>1, <2>2 DEF TreesAreChains, Todas, Closed, Keys, Link
<1>12. GroupsHaveRoots'
    BY <1>4 DEF ClusterInv, GroupsHaveRoots, Todas, Link, AtRoot, FirstPass, SecondPass
<1> QED
    BY <1>9, <1>10, <1>11, <1>12 DEF ClusterInv

\* The other steps move the loops and leave the forest alone.
LEMMA Moving ==
    ASSUME ClusterInv, UNCHANGED <<senales, padre>>
    PROVE  /\ padre' = padre
           /\ Todas' = Todas
           /\ \A S \in SUBSET Llaves : Closed(S)' => Whole(padre, S)
<1>1. \A S : Closed(S)' <=> Closed(S)
    BY DEF Closed, Keys, Todas
<1> QED
    BY <1>1 DEF ClusterInv, TreesAreChains, Todas

LEMMA Uniting ==
    ASSUME ClusterInv, NextKey \/ FoundA \/ LastKey \/ KeepRoot
    PROVE  ClusterInv'
<1> USE DEF FirstPass, SecondPass, Calls
<1>1. /\ UNCHANGED <<senales, padre, grupos>>
      /\ paso \in FirstPass /\ paso' \in FirstPass
      /\ Typed /\ Underway /\ RootsKept /\ TreesAreChains /\ GroupsHaveRoots
    BY DEF NextKey, FoundA, LastKey, KeepRoot, Call, AtRoot, ClusterInv
<1>2. /\ Len(senales) \in Nat /\ s \in Nat /\ k \in Nat
      /\ \A t \in Todas : Len(senales[t]) \in Nat /\ Len(senales[t]) >= 1
      /\ \A t \in Todas : \A i \in 1..Len(senales[t]) : senales[t][i] \in Llaves
    BY <1>1, InputFacts DEF Typed
<1>3. /\ padre' = padre /\ Todas' = Todas
      /\ \A S \in SUBSET Llaves : Closed(S)' => Whole(padre, S)
    BY <1>1, Moving
<1>4. GroupsHaveRoots'
    BY <1>1, <1>3 DEF GroupsHaveRoots
<1>5. ASSUME NEW t \in Todas, NEW i \in 2..Len(senales[t]), United(t, i)'
      PROVE  OneTree(padre, senales[t][1], senales[t][i])
    <2>1. United(t, i)
        <3>1. CASE KeepRoot
            <4>1. paso = "raiz_senal" /\ s \in Todas /\ k > Len(senales[s]) /\ s' = s + 1 /\ k' = 2
                BY <3>1, <1>1 DEF KeepRoot, AtRoot, Underway
            <4>2. t \in Nat /\ Len(senales[t]) \in Nat /\ i \in Nat /\ i <= Len(senales[t]) /\ i >= 2
                BY <1>2 DEF Todas
            <4>3. t < s + 1
                BY <4>1, <4>2, <1>1, <1>2, <1>5 DEF United
            <4>4. t < s \/ t = s
                BY <4>2, <4>3, <1>2
            <4> QED
                BY <4>1, <4>2, <4>4, <1>2 DEF United
        <3>2. CASE ~KeepRoot
            BY <3>2, <1>1, <1>5 DEF United, NextKey, FoundA, LastKey, Call
        <3> QED
            BY <3>1, <3>2
    <2> QED
        BY <1>1, <2>1 DEF TreesAreChains
<1>6. TreesAreChains'
    BY <1>1, <1>3, <1>5 DEF TreesAreChains
<1>7. CASE NextKey
    <2>1. /\ s \in Todas /\ k <= Len(senales[s]) /\ paso' = "raiz_a" /\ x' = senales[s][1]
          /\ UNCHANGED <<raices, s, k, ra>>
        BY <1>7 DEF NextKey, Call
    <2>2. x' \in Llaves
        BY <1>2, <2>1
    <2>3. Typed' /\ Underway' /\ RootsKept'
        BY <1>1, <1>2, <1>3, <2>1, <2>2 DEF Typed, Underway, RootsKept, OneTree
    <2> QED
        BY <1>4, <1>6, <2>3 DEF ClusterInv
<1>8. CASE FoundA
    <2>1. /\ s \in Todas /\ k <= Len(senales[s]) /\ paso' = "raiz_b" /\ x' = senales[s][k]
          /\ padre[x] = x /\ ra' = x /\ OneTree(padre, x, senales[s][1]) /\ x \in Llaves
          /\ UNCHANGED <<raices, s, k>>
        BY <1>1, <1>8 DEF FoundA, AtRoot, Call, Underway, Typed
    <2>2. x' \in Llaves
        BY <1>1, <1>2, <2>1 DEF Typed
    <2>3. Typed' /\ Underway' /\ RootsKept'
        BY <1>1, <1>2, <1>3, <2>1, <2>2 DEF Typed, Underway, RootsKept, OneTree
    <2> QED
        BY <1>4, <1>6, <2>3 DEF ClusterInv
<1>9. CASE LastKey
    <2>1. /\ s \in Todas /\ k > Len(senales[s]) /\ paso' = "raiz_senal" /\ x' = senales[s][1]
          /\ UNCHANGED <<raices, s, k, ra>>
        BY <1>9 DEF LastKey, Call
    <2>2. x' \in Llaves
        BY <1>2, <2>1
    <2>3. Typed' /\ Underway' /\ RootsKept'
        BY <1>1, <1>2, <1>3, <2>1, <2>2 DEF Typed, Underway, RootsKept, OneTree
    <2> QED
        BY <1>4, <1>6, <2>3 DEF ClusterInv
<1>10. CASE KeepRoot
    <2>1. /\ s \in Todas /\ paso' = "llaves" /\ raices' = Append(raices, x) /\ s' = s + 1 /\ k' = 2
          /\ OneTree(padre, x, senales[s][1]) /\ x \in Llaves
          /\ raices \in Seq(Llaves) /\ Len(raices) = s - 1
        BY <1>1, <1>10 DEF KeepRoot, AtRoot, Underway, Typed, RootsKept
    <2>2. /\ raices' \in Seq(Llaves) /\ Len(raices') = s
          /\ \A t \in 1..s : raices'[t] = IF t = s THEN x ELSE raices[t]
        BY <1>2, <2>1
    <2>3. Typed' /\ Underway'
        BY <1>1, <1>2, <1>3, <2>1, <2>2 DEF Typed, Underway, Todas
    <2>4. \A t \in 1..s : OneTree(padre, raices'[t], senales[t][1])
        BY <1>1, <1>2, <2>1, <2>2 DEF RootsKept
    <2>5. RootsKept'
        BY <1>1, <1>2, <1>3, <2>1, <2>2, <2>4 DEF RootsKept
    <2> QED
        BY <1>4, <1>6, <2>3, <2>5 DEF ClusterInv
<1> QED
    BY <1>7, <1>8, <1>9, <1>10

LEMMA Grouping ==
    ASSUME ClusterInv, LastSignal \/ NextSignal \/ Group \/ Done
    PROVE  ClusterInv'
<1> USE DEF FirstPass, SecondPass, Calls
<1>1. /\ UNCHANGED <<senales, padre, raices>>
      /\ paso' \in SecondPass
      /\ Typed /\ Underway /\ RootsKept /\ TreesAreChains /\ GroupsHaveRoots
    BY DEF LastSignal, NextSignal, Group, Done, Call, AtRoot, ClusterInv
<1>2. /\ Len(senales) \in Nat /\ s \in Nat /\ k \in Nat
      /\ \A t \in Todas : Len(senales[t]) \in Nat /\ Len(senales[t]) >= 1
      /\ \A t \in Todas : \A i \in 1..Len(senales[t]) : senales[t][i] \in Llaves
    BY <1>1, InputFacts DEF Typed
<1>3. /\ padre' = padre /\ Todas' = Todas
      /\ \A S \in SUBSET Llaves : Closed(S)' => Whole(padre, S)
    BY <1>1, Moving
<1>4. \A t \in Todas : t \in 1..Len(senales)
    BY DEF Todas
<1>5. ASSUME NEW t \in Todas, NEW i \in 2..Len(senales[t])
      PROVE  OneTree(padre, senales[t][1], senales[t][i])
    <2>1. United(t, i)
        <3>1. CASE paso \in SecondPass
            BY <3>1 DEF United
        <3>2. CASE LastSignal
            <4>1. paso = "llaves" /\ s \in 1..(Len(senales) + 1) /\ s \notin 1..Len(senales)
                BY <3>2, <1>1 DEF LastSignal, Typed, Todas
            <4>2. t < s
                BY <1>2, <1>4, <4>1
            <4> QED
                BY <4>2 DEF United
        <3> QED
            BY <3>1, <3>2 DEF NextSignal, Group, Done, AtRoot
    <2> QED
        BY <1>1, <2>1 DEF TreesAreChains
<1>6. TreesAreChains'
    BY <1>1, <1>3, <1>5 DEF TreesAreChains
<1>7. RootsKept'
    <2>1. Len(raices) = Len(senales)
        <3>1. CASE paso \in SecondPass
            BY <3>1, <1>1 DEF RootsKept
        <3>2. CASE LastSignal
            BY <3>2, <1>1, <1>2 DEF LastSignal, Typed, Todas, RootsKept
        <3> QED
            BY <3>1, <3>2 DEF NextSignal, Group, Done, AtRoot
    <2> QED
        BY <1>1, <1>3, <2>1 DEF RootsKept
<1>8. CASE LastSignal
    <2>1. /\ s' = 1 /\ paso = "llaves" /\ paso' = "reparto" /\ UNCHANGED <<grupos, k, x, ra>>
        BY <1>8 DEF LastSignal
    <2>2. Typed' /\ Underway'
        BY <1>1, <1>2, <1>3, <2>1 DEF Typed, Underway
    <2>3. GroupsHaveRoots'
        BY <1>1, <1>3, <1>4, <2>1 DEF GroupsHaveRoots
    <2> QED
        BY <1>6, <1>7, <2>2, <2>3 DEF ClusterInv
<1>9. CASE NextSignal
    <2>1. /\ s \in Todas /\ paso = "reparto" /\ paso' = "raiz_grupo" /\ x' = raices[s]
          /\ UNCHANGED <<grupos, s, k, ra>>
        BY <1>9 DEF NextSignal, Call
    <2>2. s \in 1..Len(raices) /\ raices \in Seq(Llaves)
        BY <1>1, <2>1 DEF Todas, RootsKept, Typed
    <2>3. x' \in Llaves /\ OneTree(padre, x', senales[s][1])
        BY <1>1, <2>1, <2>2 DEF RootsKept
    <2>4. Typed' /\ Underway'
        BY <1>1, <1>2, <1>3, <2>1, <2>3 DEF Typed, Underway
    <2>5. GroupsHaveRoots'
        BY <1>1, <1>3, <2>1 DEF GroupsHaveRoots
    <2> QED
        BY <1>6, <1>7, <2>4, <2>5 DEF ClusterInv
<1>10. CASE Group
    <2>1. /\ s \in Todas /\ paso = "raiz_grupo" /\ paso' = "reparto" /\ s' = s + 1
          /\ padre[x] = x /\ OneTree(padre, x, senales[s][1]) /\ x \in Llaves
          /\ UNCHANGED <<k, x, ra>>
          /\ grupos' = [grupos EXCEPT ![x] = @ \cup {s}]
          /\ grupos \in [Llaves -> SUBSET Todas]
        BY <1>1, <1>10 DEF Group, AtRoot, Underway, Typed
    <2>2. /\ grupos' \in [Llaves -> SUBSET Todas]
          /\ \A g \in Llaves : grupos'[g] = IF g = x THEN grupos[g] \cup {s} ELSE grupos[g]
        BY <2>1
    <2>3. Typed' /\ Underway'
        <3>1. s' \in 1..(Len(senales) + 1)
            BY <1>2, <2>1 DEF Todas
        <3> QED
            BY <1>1, <1>2, <1>3, <2>1, <2>2, <3>1 DEF Typed, Underway
    <2>4. \A t \in Todas : t < s + 1 => \E g \in Llaves : t \in grupos'[g]
        <3> SUFFICES ASSUME NEW t \in Todas, t < s + 1
                     PROVE  \E g \in Llaves : t \in grupos'[g]
            OBVIOUS
        <3>1. CASE t = s
            BY <2>1, <2>2, <3>1
        <3>2. CASE t < s
            <4>1. PICK g \in Llaves : t \in grupos[g]
                BY <1>1, <2>1, <3>2 DEF GroupsHaveRoots
            <4> QED
                BY <2>2, <4>1
        <3> QED
            BY <1>2, <1>4, <3>1, <3>2
    <2>5. \A g \in Llaves : \A t \in grupos'[g] : padre[g] = g /\ OneTree(padre, g, senales[t][1])
        BY <1>1, <2>1, <2>2 DEF GroupsHaveRoots
    <2>6. GroupsHaveRoots'
        BY <1>1, <1>3, <2>1, <2>4, <2>5 DEF GroupsHaveRoots
    <2> QED
        BY <1>6, <1>7, <2>3, <2>6 DEF ClusterInv
<1>11. CASE Done
    <2>1. /\ s \notin Todas /\ paso = "reparto" /\ paso' = "fin"
          /\ UNCHANGED <<grupos, s, k, x, ra>>
        BY <1>11 DEF Done
    <2>2. Typed' /\ Underway'
        BY <1>1, <1>2, <1>3, <2>1 DEF Typed, Underway
    <2>3. GroupsHaveRoots'
        BY <1>1, <1>3, <2>1 DEF GroupsHaveRoots
    <2> QED
        BY <1>6, <1>7, <2>2, <2>3 DEF ClusterInv
<1> QED
    BY <1>8, <1>9, <1>10, <1>11

-----------------------------------------------------------------------------
(* Theorems *)

\* The loops keep their invariant, for every input.
THEOREM ClustersInvariant == Spec => []ClusterInv
<1>1. ClusterInv /\ [Next]_vars => ClusterInv'
    <2> SUFFICES ASSUME ClusterInv, [Next]_vars PROVE ClusterInv'
        OBVIOUS
    <2>1. CASE UNCHANGED vars
        <3>1. \A S : Closed(S)' <=> Closed(S)
            BY <2>1 DEF vars, Closed, Keys, Todas
        <3>2. TreesAreChains'
            BY <2>1, <3>1 DEF vars, ClusterInv, TreesAreChains, United, Todas
        <3> QED
            BY <2>1, <3>2 DEF vars, ClusterInv, Typed, Underway, RootsKept, GroupsHaveRoots, Todas
    <2> QED
        BY <2>1, Halving, Linking, Uniting, Grouping DEF Next
<1> QED
    BY <1>1, ClustersBegin, PTL DEF Spec

\* What is left of the invariant when agrupar returns.
LEMMA GroupsInTheEnd == ClusterInv => GroupsAreComponents
<1> SUFFICES ASSUME ClusterInv, paso = "fin", NEW t \in Todas, NEW u \in Todas
             PROVE  /\ \E g \in Llaves : t \in grupos[g]
                    /\ \A g, h \in Llaves :
                          t \in grupos[g] /\ u \in grupos[h] => (g = h <=> Connected(t, u))
    BY DEF GroupsAreComponents
<1> USE DEF FirstPass, SecondPass
<1>1. Typed /\ Underway /\ TreesAreChains /\ GroupsHaveRoots /\ padre \in [Llaves -> Llaves]
    BY DEF ClusterInv, Typed
<1>2. /\ Len(senales) \in Nat /\ s \in Nat
      /\ \A v \in Todas : Len(senales[v]) \in Nat /\ Len(senales[v]) >= 1
      /\ \A v \in Todas : \A i \in 1..Len(senales[v]) : senales[v][i] \in Llaves
    BY <1>1, InputFacts DEF Typed
<1>3. t < s
    BY <1>1, <1>2 DEF Underway, Typed, Todas
<1>4. \E g \in Llaves : t \in grupos[g]
    BY <1>1, <1>3 DEF GroupsHaveRoots
<1>5. ASSUME NEW S \in SUBSET Llaves PROVE Closed(S) <=> Whole(padre, S)
    <2>1. ASSUME Whole(padre, S), NEW v \in Todas PROVE Keys(v) \subseteq S \/ Keys(v) \cap S = {}
        <3>1. \A i \in 1..Len(senales[v]) : senales[v][1] \in S <=> senales[v][i] \in S
            <4> TAKE i \in 1..Len(senales[v])
            <4>1. CASE i = 1
                BY <4>1
            <4>2. CASE i # 1
                <5>1. i \in 2..Len(senales[v]) /\ United(v, i)
                    BY <1>2, <4>2 DEF United
                <5> QED
                    BY <1>1, <2>1, <5>1 DEF TreesAreChains, OneTree
            <4> QED
                BY <4>1, <4>2
        <3> QED
            BY <3>1 DEF Keys
    <2> QED
        BY <1>1, <2>1 DEF TreesAreChains, Closed
<1>6. ASSUME NEW g \in Llaves, NEW h \in Llaves, t \in grupos[g], u \in grupos[h]
      PROVE  g = h <=> Connected(t, u)
    <2>1. /\ padre[g] = g /\ OneTree(padre, g, senales[t][1])
          /\ padre[h] = h /\ OneTree(padre, h, senales[u][1])
        BY <1>1, <1>6 DEF GroupsHaveRoots
    <2>2. g = h => Connected(t, u)
        BY <1>5, <2>1 DEF Connected, OneTree
    <2>3. Connected(t, u) => OneTree(padre, g, h)
        BY <1>5, <2>1 DEF Connected, OneTree
    <2> QED
        BY <1>1, <2>1, <2>2, <2>3, RootsAreApart
<1> QED
    BY <1>4, <1>6

\* GroupsAreComponents for every input: agrupar gives every signal to a group, and
\* two signals to one group if and only if a chain of shared entities connects
\* them, whatever the order of the signals and of their keys.
THEOREM GroupsAreTheComponents == Spec => []GroupsAreComponents
<1>1. ClusterInv => GroupsAreComponents
    BY GroupsInTheEnd
<1> QED
    BY <1>1, ClustersInvariant, PTL

=============================================================================
