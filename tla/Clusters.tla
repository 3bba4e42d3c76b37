------------------------------- MODULE Clusters -------------------------------
(***************************************************************************)
(* The clusters of the assembler (app/fraud/engine/ensamblador.py): within *)
(* one scheme, agrupar unites the entities that appear together in some    *)
(* signal with a union-find that halves its paths, and then gives every    *)
(* signal to the group of its entities.                                    *)
(*                                                                         *)
(* A step is one turn of a loop: of raiz, of the union of a signal's keys  *)
(* and of the two passes over the signals.  The keys are strings; all that *)
(* matters of them is their order, so they are numbers.                    *)
(***************************************************************************)
EXTENDS Naturals, Sequences

CONSTANTS
    Llaves,     \* the keys: of the entities, and of the signals without any
    Entradas    \* the inputs: for each signal of the scheme, its keys

ASSUME InputAssumption ==
    /\ Llaves \subseteq Nat
    /\ Entradas \subseteq Seq(Seq(Llaves))
    /\ \A senales \in Entradas : \A s \in 1..Len(senales) : senales[s] # <<>>

VARIABLES
    senales,    \* the input
    padre,      \* _UnionFind.padre; a key that is not in it yet has itself
    raices,     \* the root of each signal after its unions: sig["_raiz"]
    grupos,     \* the signals of each group, by the key of the group
    paso,       \* where agrupar is ("llaves", "reparto", "fin"), or its call of raiz
    s, k,       \* the signal, and the key of it, that the loops are at
    x, ra       \* the variable of raiz, and the root that unir found first

vars == <<senales, padre, raices, grupos, paso, s, k, x, ra>>

\* In raiz, on behalf of unir (twice), of the first and of the second pass.
Calls == {"raiz_a", "raiz_b", "raiz_senal", "raiz_grupo"}
Todas == 1..Len(senales)

Init ==
    /\ senales \in Entradas
    /\ padre = [llave \in Llaves |-> llave]
    /\ raices = <<>>
    /\ grupos = [llave \in Llaves |-> {}]
    /\ paso = "llaves"
    /\ s = 1 /\ k = 2
    /\ x = 0 /\ ra = 0

-----------------------------------------------------------------------------
(* raiz *)

Call(call, llave) == paso' = call /\ x' = llave
AtRoot(call) == paso = call /\ padre[x] = x

\* The path is halved, but the variable stays where it is.
BugHalve ==
    /\ paso \in Calls
    /\ padre[x] # x
    /\ padre' = [padre EXCEPT ![x] = padre[padre[x]]]
    /\ UNCHANGED <<senales, raices, grupos, paso, s, k, x, ra>>

\* padre[x] = padre[padre[x]]; x = padre[x]
Halve ==
    /\ paso \in Calls
    /\ padre[x] # x
    /\ padre' = [padre EXCEPT ![x] = padre[padre[x]]]
    /\ x' = padre[padre[x]]
    /\ UNCHANGED <<senales, raices, grupos, paso, s, k, ra>>

-----------------------------------------------------------------------------
(* The first pass: the keys of every signal are united with its first one *)

\* unir(llaves[0], llave)
NextKey ==
    /\ paso = "llaves"
    /\ s \in Todas
    /\ k <= Len(senales[s])
    /\ Call("raiz_a", senales[s][1])
    /\ UNCHANGED <<senales, padre, raices, grupos, s, k, ra>>

FoundA ==
    /\ AtRoot("raiz_a")
    /\ ra' = x
    /\ Call("raiz_b", senales[s][k])
    /\ UNCHANGED <<senales, padre, raices, grupos, s, k>>

Greater(a, b) == IF a > b THEN a ELSE b
Lesser(a, b) == IF a > b THEN b ELSE a

\* The key itself is put under the other root, not the root of the key.
BugLink ==
    /\ AtRoot("raiz_b")
    /\ padre' = [padre EXCEPT ![senales[s][k]] = ra]
    /\ k' = k + 1
    /\ paso' = "llaves"
    /\ UNCHANGED <<senales, raices, grupos, s, x, ra>>

\* padre[max(ra, rb)] = min(ra, rb), which changes nothing if they are one.
Link ==
    /\ AtRoot("raiz_b")
    /\ padre' = [padre EXCEPT ![Greater(ra, x)] = Lesser(ra, x)]
    /\ k' = k + 1
    /\ paso' = "llaves"
    /\ UNCHANGED <<senales, raices, grupos, s, x, ra>>

LastKey ==
    /\ paso = "llaves"
    /\ s \in Todas
    /\ k > Len(senales[s])
    /\ Call("raiz_senal", senales[s][1])
    /\ UNCHANGED <<senales, padre, raices, grupos, s, k, ra>>

\* sig["_raiz"] = uf.raiz(llaves[0])
KeepRoot ==
    /\ AtRoot("raiz_senal")
    /\ raices' = Append(raices, x)
    /\ s' = s + 1
    /\ k' = 2
    /\ paso' = "llaves"
    /\ UNCHANGED <<senales, padre, grupos, x, ra>>

LastSignal ==
    /\ paso = "llaves"
    /\ s \notin Todas
    /\ s' = 1
    /\ paso' = "reparto"
    /\ UNCHANGED <<senales, padre, raices, grupos, k, x, ra>>

-----------------------------------------------------------------------------
(* The second pass: a root may have got a parent since the first *)

NextSignal ==
    /\ paso = "reparto"
    /\ s \in Todas
    /\ Call("raiz_grupo", raices[s])
    /\ UNCHANGED <<senales, padre, raices, grupos, s, k, ra>>

\* grupos.setdefault(raiz, ...).senales.append(sig)
Group ==
    /\ AtRoot("raiz_grupo")
    /\ grupos' = [grupos EXCEPT ![x] = @ \cup {s}]
    /\ s' = s + 1
    /\ paso' = "reparto"
    /\ UNCHANGED <<senales, padre, raices, k, x, ra>>

Done ==
    /\ paso = "reparto"
    /\ s \notin Todas
    /\ paso' = "fin"
    /\ UNCHANGED <<senales, padre, raices, grupos, s, k, x, ra>>

-----------------------------------------------------------------------------
Next ==
    \/ Halve \/ NextKey \/ FoundA \/ Link \/ LastKey \/ KeepRoot \/ LastSignal
    \/ NextSignal \/ Group \/ Done

Spec == Init /\ [][Next]_vars

\* agrupar is called and runs to its end.
FairSpec == Spec /\ WF_vars(Next)

-----------------------------------------------------------------------------
(* Properties *)

Keys(t) == {senales[t][i] : i \in 1..Len(senales[t])}

\* A set of keys that no signal straddles.
Closed(S) == \A t \in Todas : Keys(t) \subseteq S \/ Keys(t) \cap S = {}

\* A chain of signals, each sharing a key with the next, leads from one to
\* the other: no closed set separates them.
Connected(t, u) ==
    \A S \in SUBSET Llaves :
        Closed(S) => (senales[t][1] \in S <=> senales[u][1] \in S)

\* "The entities that appear together in some signal are united": in the end
\* every signal is in one group, and two signals are in the same group if and
\* only if they are connected, whatever the order of the signals and however
\* the unions of later ones have moved the roots of earlier ones.
GroupsAreComponents ==
    paso = "fin" =>
        \A t, u \in Todas :
            /\ \E g \in Llaves : t \in grupos[g]
            /\ \A g, h \in Llaves :
                  t \in grupos[g] /\ u \in grupos[h] => (g = h <=> Connected(t, u))

\* The loops of raiz end: no path is a cycle.
Ends == <>(paso = "fin")

=============================================================================
