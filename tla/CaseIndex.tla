------------------------------- MODULE CaseIndex -------------------------------
(***************************************************************************)
(* The index of a completed run (app/casefile/index.py): the tables of the *)
(* run, loaded again, joined with the submission that its audit stored.    *)
(* Every view of the case file reads from it.                              *)
(*                                                                         *)
(* An id of the case file is a pair of a prefix and what follows it.  A    *)
(* finding stands for its number, and for the number of its exhibit: it    *)
(* has at most one of a record.                                            *)
(***************************************************************************)
EXTENDS Assembler

CONSTANT Abribles   \* the estates whose case file may be opened

ASSUME IdsAreOrdered ==
    \A e \in Estates :
        /\ \A t \in Tablas : \A f \in e[t] : f.id \in Nat
        /\ \A f \in e.vendors \cup e.employees : f.clabe \in Nat
        /\ \A i \in e.invoices : {i.emisor, i.receptor} \subseteq Nat
        /\ \A b \in e.bank_txns : {b.origen, b.destino} \subseteq Nat
        /\ \A o \in e.purchase_orders : {o.solicita, o.rfc} \subseteq Nat

VARIABLE indice     \* the order of the rows of each repeated id, once it is built

-----------------------------------------------------------------------------
(* What the submission says *)

PREFIJOS == [rfc |-> "RFC", empresa |-> "RFC", employee |-> "EMP",
             clabe |-> "CLABE", persona |-> "PERSONA"]
format_entity_id(e) == <<PREFIJOS[e.tipo], e.canonico>>

entities(h) == {format_entity_id(e) : e \in h.entidades}

\* The entities are sorted by their types and then by their names.
Rango == [clabe |-> 1, employee |-> 2, empresa |-> 3, persona |-> 4, rfc |-> 5]
Primera(es) ==
    CHOOSE e \in es : \A f \in es :
        \/ Rango[e.tipo] < Rango[f.tipo]
        \/ e.tipo = f.tipo /\ e.canonico <= f.canonico

\* A lead names one entity, whatever else is in its cluster.
principal(cl) ==
    LET ajenas == {e \in entidades(cl) : e.tipo # "empresa"}
    IN  CASE acusables(cl) # {} -> format_entity_id(Primera(acusables(cl)))
          [] acusables(cl) = {} /\ ajenas # {} -> format_entity_id(Primera(ajenas))
          [] OTHER -> IF entidades(cl) = {} THEN <<"SIN_ENTIDAD", Nadie>>
                                            ELSE format_entity_id(Primera(entidades(cl)))

\* The label of an account with several owners is not split.
Bug_etiqueta_clabe(clabe) ==
    IF Cardinality(Clabe(clabe)) = 1 THEN {format_entity_id(e) : e \in Clabe(clabe)}
                                     ELSE {<<"CLABE", clabe>>}

\* The label of an account is split again into its owners (split_trail_label).
_etiqueta_clabe(clabe) ==
    IF Clabe(clabe) = {} THEN {<<"CLABE", Nadie>>}
                         ELSE {format_entity_id(e) : e \in Clabe(clabe)}

Paso(de, a) == [de |-> de, a |-> a]
DeTabla(h, t) == {ex.fila : ex \in {ex \in h.exhibits : ex.tabla = t}}

\* The transfers that are cited or, if there are none, who invoices whom, or
\* what is ordered from whom.
build_money_trail(h) ==
    CASE DeTabla(h, "bank_txns") # {} ->
            {Paso(_etiqueta_clabe(b.origen), _etiqueta_clabe(b.destino)) :
                b \in DeTabla(h, "bank_txns")}
      [] DeTabla(h, "bank_txns") = {} /\ DeTabla(h, "invoices") # {} ->
            {Paso({<<"RFC", i.receptor>>}, {<<"RFC", i.emisor>>}) :
                i \in DeTabla(h, "invoices")}
      [] OTHER ->
            {Paso({<<"RFC", r>> : r \in IF empresa.rfc = {} THEN {Nadie} ELSE empresa.rfc},
                  {<<"RFC", o.rfc>>}) : o \in DeTabla(h, "purchase_orders")}

-----------------------------------------------------------------------------
(* The entities *)

company_id == {<<"RFC", r>> : r \in empresa.rfc}
company_clabes == empresa.clabes \ {Nadie}

Ids(prefijo, xs) == {<<prefijo, x>> : x \in xs \ {Nadie}}

\* The catalogs, the company and whom the SAT has listed.
catalogo ==
    Ids("RFC", {f.id : f \in estate.vendors \cup estate.efos_list})
        \cup Ids("EMP", {e.id : e \in estate.employees}) \cup company_id

EsProveedor(id) == id[1] = "RFC" /\ id[2] # Nadie /\ vendors_por_rfc(id[2]) # {}
kind(id) ==
    CASE id \in company_id -> "company"
      [] id[1] = "EMP" -> "employee"
      [] id[1] = "CLABE" -> "account"
      [] OTHER -> IF EsProveedor(id) THEN "vendor" ELSE "unknown"

\* The last row with the id: it describes the entity.
ultima(t, id) ==
    {f \in estate[t] :
        /\ f.id = id /\ id # Nadie
        /\ \A orden \in indice :
              <<t, id>> \in DOMAIN orden.ultimas => f = orden.ultimas[<<t, id>>]}

\* The account of its last row in a catalog; of a company outside them, the
\* first.
bank_clabe(id) ==
    ((IF id[1] = "RFC" THEN {v.clabe : v \in ultima("vendors", id[2])} ELSE {})
        \cup (IF id[1] = "EMP" THEN {e.clabe : e \in ultima("employees", id[2])} ELSE {})
        \cup (IF id \in company_id /\ ~EsProveedor(id) /\ company_clabes # {}
              THEN {Min(company_clabes)} ELSE {})) \ {Nadie}

\* The first vendor whose last row has the account, or the first employee with
\* a row that has it, or itself.
dueno(clabe) ==
    LET vs == {v.id : v \in {v \in vendors_por_clabe(clabe) : v \in ultima("vendors", v.id)}}
        es == {e.id : e \in employees_por_clabe(clabe)} \ {Nadie}
    IN  CASE clabe # Nadie /\ vs # {} -> <<"RFC", Min(vs)>>
          [] clabe # Nadie /\ vs = {} /\ es # {} -> <<"EMP", Min(es)>>
          [] OTHER -> <<"CLABE", clabe>>

\* The account of the company is looked for in the catalogs only.
Bugclabe_owner(clabe) == dueno(clabe)

clabe_owner(clabe) ==
    IF clabe \in company_clabes /\ company_id # {} THEN CHOOSE id \in company_id : TRUE
                                                  ELSE dueno(clabe)

-----------------------------------------------------------------------------
(* The records *)

\* The first row with the id.
row(t, id) ==
    {f \in estate[t] :
        /\ f.id = id
        /\ \A orden \in indice :
              <<t, id>> \in DOMAIN orden.primeras => f = orden.primeras[<<t, id>>]}

DATE_FIELD(t, f) ==
    CASE t = "vendors" -> f.alta
      [] t = "efos_list" -> f.publicada
      [] OTHER -> f.fecha

ASSUME DaysAreOrdered ==
    \A e \in Estates : \A t \in Tablas : \A f \in e[t] : DATE_FIELD(t, f) \in Int

\* Whom the record is about, seen from the company.
row_entity(t, f) ==
    CASE t = "invoices" ->
            Ids("RFC", {IF f.emisor \in empresa.rfc THEN f.receptor ELSE f.emisor})
      [] t = "bank_txns" ->
            {clabe_owner(c) :
                c \in (IF f.destino \in company_clabes /\ f.origen \notin company_clabes
                       THEN {f.origen} ELSE {f.destino}) \ {Nadie}}
      [] t \in {"purchase_orders", "contracts"} -> Ids("RFC", {f.rfc})
      [] t = "employees" -> Ids("EMP", {f.id})
      [] OTHER -> Ids("RFC", {f.id})

\* The days of the invoices and the transfers, from the first to the last.
\* Those of the ledger, which the code counts too, are left out with it; that
\* days are ordered as numbers (DaysAreOrdered) stands for dates written as
\* YYYY-MM-DD, since in_range compares the texts.
periodo == {i.fecha : i \in estate.invoices} \cup {b.fecha : b \in estate.bank_txns}

-----------------------------------------------------------------------------
(* The analysis *)

\* Leads are looked at first: whoever is also accused is accused.
Bugentity_status(id) ==
    IF \E p \in pistas : principal(p.cluster) = id THEN "declined"
    ELSE IF \E h \in publicados : id \in entities(h) THEN "accused" ELSE "clear"

entity_status(id) ==
    CASE \E h \in publicados : id \in entities(h) -> "accused"
      [] /\ \A h \in publicados : id \notin entities(h)
         /\ \E p \in pistas : principal(p.cluster) = id -> "declined"
      [] OTHER -> "clear"

\* The ids that the analysis gives a status.
flagged == (UNION {entities(h) : h \in publicados}) \cup {principal(p.cluster) : p \in pistas}

finding_indexes(id) == {h \in publicados : id \in entities(h)}

\* The last citation of a record takes the place of the others.
Bugcited_in(t, id) ==
    LET citan == {h \in publicados :
                     \E ex \in h.exhibits : ex.tabla = t /\ ex.fila.id = id /\ ~ex.fila.espacios}
    IN  IF citan = {} THEN {} ELSE {CHOOSE h \in citan : TRUE}

\* The citations are kept under the id as it was uploaded, and looked up
\* without its spaces.
cited_in(t, id) ==
    {h \in publicados :
        \E ex \in h.exhibits : ex.tabla = t /\ ex.fila.id = id /\ ~ex.fila.espacios}

\* The ids of what a rule reported: an account stands for its first owner, or
\* for nobody.
resolve(sig) ==
    CASE sig.regla = "SHARED_CLABE_MULTI_RFC" ->
            {clabe_owner(c) : c \in {c \in {sig.entidad} :
                c \in company_clabes \/ dueno(c)[1] # "CLABE"}}
      [] sig.regla \in DeKickback -> {<<"EMP", sig.entidad>>} \cap catalogo
      [] OTHER -> {<<"RFC", sig.entidad>>} \cap catalogo

signals(id) == {s.regla : s \in {s \in senales : id \in resolve(s)}}

-----------------------------------------------------------------------------
\* The tables are read in the order of their ids, which does not say how rows
\* of one id are ordered: of several, any is the first and any other the last.
Ordenes ==
    {orden \in [primeras : Lecturas, ultimas : Lecturas] :
        \A c \in Repetidas : orden.primeras[c] # orden.ultimas[c]}

\* The index of a run that is done is built when it is first asked for, and
\* again when it has left the cache.
build_index ==
    /\ fase = "fin"
    /\ estate \in Abribles
    /\ \E orden \in Ordenes : indice' = {orden}
    /\ UNCHANGED auditVars

=============================================================================
