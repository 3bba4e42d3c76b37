------------------------------- MODULE CaseViews -------------------------------
(***************************************************************************)
(* The views of the case file (app/casefile/views.py): the report, the     *)
(* records page by page, the graph and the timelines, each one a function  *)
(* of the index.                                                           *)
(*                                                                         *)
(* Left out: names and addresses, the references of transfers, the ledger, *)
(* and the relations that they give.                                       *)
(***************************************************************************)
EXTENDS CaseIndex

CONSTANTS
    Hojeables,          \* the estates whose records are walked through
    Consultas,          \* the lists of records that are asked for
    Limites,            \* and the sizes of their pages, 0 for none
    DEFAULT_PAGE_SIZE,
    MAX_PAGE_SIZE,
    SEARCH_ENTITY_LIMIT,
    MAX_RELATED

ASSUME PagesHaveASize ==
    /\ DEFAULT_PAGE_SIZE \in Nat \ {0} /\ MAX_PAGE_SIZE \in Nat \ {0}
    /\ Limites \subseteq Nat
    /\ SEARCH_ENTITY_LIMIT \in Nat /\ MAX_RELATED \in Nat

VARIABLE pagina         \* the list that is being walked through, if any

viewVars == <<auditVars, indice, pagina>>

Abierto == indice # {}

-----------------------------------------------------------------------------
(* Entities *)

entity_population == (catalogo \cup flagged) \ company_id

entities_by_status(s) == {id \in entity_population : entity_status(id) = s}

entity_view(id) ==
    [kind |-> kind(id), status |-> entity_status(id), bank_clabe |-> bank_clabe(id),
     signals |-> signals(id), finding_indexes |-> finding_indexes(id),
     leads |-> {p \in pistas : principal(p.cluster) = id}]

_STATUS_ORDER(id) ==
    CASE entity_status(id) = "accused" -> 0
      [] entity_status(id) = "declined" -> 1
      [] OTHER -> 2

\* Those of one status are in the order of their names, here of their ids.
AntesEntidad(id, otra) ==
    \/ _STATUS_ORDER(id) < _STATUS_ORDER(otra)
    \/ /\ _STATUS_ORDER(id) = _STATUS_ORDER(otra)
       /\ \/ id[1] = otra[1] /\ id[2] < otra[2]
          \/ <<id[1], otra[1]>> \in {<<"CLABE", "EMP">>, <<"CLABE", "RFC">>, <<"EMP", "RFC">>}

-----------------------------------------------------------------------------
(* What a record has to do with others: the RFC or the account *)

por_rfc(t, rfc) == {<<t, f.id>> : f \in {f \in estate[t] : f.rfc = rfc}}
por_clabe(t, clabe) ==
    {<<t, f.id>> : f \in {f \in estate[t] : f.clabe = clabe /\ clabe # Nadie}}
de_rfc(t, rfc) == {<<t, r>> : r \in {rfc} \ {Nadie}}

\* In the order in which they are added.
relaciones(t, f) ==
    CASE t = "vendors" ->
            <<de_rfc("efos_list", f.id), por_rfc("contracts", f.id),
              por_clabe("employees", f.clabe),
              {r \in por_clabe("vendors", f.clabe) : r[2] # f.id},
              por_rfc("purchase_orders", f.id)>>
      [] t = "efos_list" -> <<de_rfc("vendors", f.id)>>
      [] t = "employees" -> <<por_clabe("vendors", f.clabe)>>
      [] t = "purchase_orders" -> <<de_rfc("vendors", f.rfc), por_rfc("contracts", f.rfc)>>
      [] t = "contracts" -> <<de_rfc("vendors", f.rfc), por_rfc("purchase_orders", f.rfc)>>
      [] OTHER -> <<>>

Existentes(t, f) ==
    {p \in UNION {{i} \X relaciones(t, f)[i] : i \in DOMAIN relaciones(t, f)} :
        row(p[2][1], p[2][2]) # {}}

\* The first ones are shown.
_related(t, f) ==
    LET Antes(p) == {q \in Existentes(t, f) : q[1] < p[1] \/ (q[1] = p[1] /\ q[2][2] < p[2][2])}
    IN  {p[2] : p \in {p \in Existentes(t, f) : Cardinality(Antes(p)) < MAX_RELATED}}

-----------------------------------------------------------------------------
(* Records *)

Todas == "todas"
ConImporte == {"invoices", "bank_txns", "purchase_orders", "contracts"}

\* The index rounds every amount when it reads it (_cell).
row_amount(t, f) == redondeo(Importe([tabla |-> t, fila |-> f]))

Coincide(q, f) ==
    /\ q.risk # Todas =>
          \E id \in row_entity(q.tabla, f) :
              id \in catalogo \cup flagged /\ entity_status(id) = q.risk
    /\ q.cited => cited_in(q.tabla, f.id) # {}
    /\ q.amount_min > 0 => q.tabla \in ConImporte /\ row_amount(q.tabla, f) >= q.amount_min

\* Records, or entities.
ENTIDADES == "entities"
ASSUME ListsAreOfTables == \A q \in Consultas : q.tabla \in Tablas \cup {ENTIDADES}

matches(q) ==
    IF q.tabla = ENTIDADES
    THEN {id \in entity_population : q.risk = Todas \/ entity_status(id) = q.risk}
    ELSE {f \in estate[q.tabla] : Coincide(q, f)}

\* By date and id; rows of one id keep the order of the table: of two, the one
\* that is read for their id is the first.
ASSUME IdsOfTwoRows ==
    \A e \in Hojeables : \A t \in Tablas : \A f, g, h \in e[t] :
        f.id = g.id /\ g.id = h.id => f = g \/ g = h \/ f = h
Precede(t, f, g) ==
    LET antes == DATE_FIELD(t, f) < DATE_FIELD(t, g)
        mismo == DATE_FIELD(t, f) = DATE_FIELD(t, g)
    IN  \/ antes
        \/ mismo /\ f.id < g.id
        \/ mismo /\ f.id = g.id /\ f # g /\ f \in row(t, f.id)
lugar(t, f, lista) ==
    Cardinality({g \in lista : IF t = ENTIDADES THEN AntesEntidad(g, f) ELSE Precede(t, g, f)})

\* The size that was asked for, whatever the page was cut to.
Bug_next_cursor(limit, offset, total) == IF offset + limit < total THEN {offset + limit} ELSE {}

_size(limit) == Min({IF limit = 0 THEN DEFAULT_PAGE_SIZE ELSE limit, MAX_PAGE_SIZE})
_next_cursor(limit, offset, total) ==
    IF offset + _size(limit) < total THEN {offset + _size(limit)} ELSE {}

\* The list, where its next page begins, the records that were shown, how many.
Pagina(q, limit, cursor, vistos, cuantos) ==
    [q |-> q, limit |-> limit, cursor |-> cursor, vistos |-> vistos, cuantos |-> cuantos]

get_records(q, limit) ==
    /\ Abierto /\ estate \in Hojeables
    /\ pagina = {}
    /\ pagina' = {Pagina(q, limit, {0}, {}, 0)}
    /\ UNCHANGED <<auditVars, indice>>

\* The next page.  Of a row that matches it shows the record of its id.
records_page(p, offset) ==
    LET lista == matches(p.q)
        items == {f \in lista :
                     lugar(p.q.tabla, f, lista) \in offset..(offset + _size(p.limit) - 1)}
        records == IF p.q.tabla = ENTIDADES THEN items
                                            ELSE UNION {row(p.q.tabla, f.id) : f \in items}
        cursor == _next_cursor(p.limit, offset, Cardinality(lista))
    IN  /\ pagina' = {Pagina(p.q, p.limit, cursor, p.vistos \cup records,
                             p.cuantos + Cardinality(items))}
        /\ UNCHANGED <<auditVars, indice>>

\* The cells that make a cited record evidence name an accused.
_names_accused(t, f, accused) ==
    accused \cap
        (CASE t = "invoices" -> {<<"RFC", f.emisor>>, <<"RFC", f.receptor>>}
           [] t = "bank_txns" -> {clabe_owner(f.origen), clabe_owner(f.destino)}
           [] t = "purchase_orders" ->
                 {<<"RFC", f.rfc>>, <<"EMP", f.solicita>>, <<"EMP", f.aprueba>>}
           [] t = "contracts" -> {<<"RFC", f.rfc>>}
           [] t = "vendors" -> {<<"RFC", f.id>>, clabe_owner(f.clabe)}
           [] t = "employees" -> {<<"EMP", f.id>>, clabe_owner(f.clabe)}
           [] OTHER -> {<<"RFC", f.id>>}) # {}

\* No record is highlighted that is not cited.
_highlights(t, f) ==
    LET accused == UNION {entities(h) : h \in cited_in(t, f.id)}
    IN  _names_accused(t, f, accused)

\* Nothing if no row has the id.
record_view(t, id) ==
    {[source_table |-> t, record_id |-> id, data |-> f, highlighted |-> _highlights(t, f),
      cited_in |-> cited_in(t, id), related |-> _related(t, f)] : f \in row(t, id)}

-----------------------------------------------------------------------------
(* The report: whom and what it describes, and the amount of each finding, *)
(* added again from the index                                              *)

De(h) == UNION {paso.de : paso \in build_money_trail(h)}
A(h) == UNION {paso.a : paso \in build_money_trail(h)}

report_entities ==
    [id \in company_id \cup flagged \cup (UNION {De(h) \cup A(h) : h \in publicados}) |->
        entity_view(id)]

\* The records of the exhibits, and those that are related to one of them.
report_records ==
    LET exhibidos == UNION {record_view(ex.tabla, ex.fila.id) :
                               ex \in UNION {h.exhibits : h \in publicados}}
    IN  exhibidos \cup (UNION {record_view(r[1], r[2]) : r \in UNION {v.related : v \in exhibidos}})

shared_entities(h) == (UNION {finding_indexes(id) : id \in entities(h)}) \ {h}

_cited(h, t) == UNION {row(t, ex.fila.id) : ex \in {ex \in h.exhibits : ex.tabla = t}}
_sum(h, t) == MapThenSumSet(LAMBDA f : row_amount(t, f), _cited(h, t))
_tables(h) == {i \in 1..4 : _cited(h, PRIORIDAD_MONTO(h.esquema)[i]) # {}}
_lejos(h, i) ==
    LET suma == _sum(h, PRIORIDAD_MONTO(h.esquema)[i])
    IN  IF suma > h.monto THEN suma - h.monto ELSE h.monto - suma

\* The table that the scheme prefers.
Bugtable_used(h) == PRIORIDAD_MONTO(h.esquema)[Min(_tables(h))]

\* The table whose total is nearest, then the one that the scheme prefers.
table_used(h) ==
    LET cercanas == {i \in _tables(h) : \A j \in _tables(h) : _lejos(h, i) <= _lejos(h, j)}
    IN  PRIORIDAD_MONTO(h.esquema)[Min(cercanas)]

_reconciliation(h) == [table_used |-> table_used(h), sum |-> _sum(h, table_used(h))]

\* The dated exhibits about one of the accused, as the marks of its timeline.
_DATED_TABLES == ConImporte
_finding_annotations(h) ==
    LET Marcas(ex) == UNION {{[entity |-> id, tabla |-> ex.tabla, fila |-> f] :
                                 id \in row_entity(ex.tabla, f) \cap entities(h)} :
                                f \in row(ex.tabla, ex.fila.id)}
    IN  UNION {Marcas(ex) : ex \in {ex \in h.exhibits : ex.tabla \in _DATED_TABLES}}

-----------------------------------------------------------------------------
(* The graph: the company and whoever is flagged, or everybody, and the money *)
(* that went from one of them to another                                      *)

node_ids(scope) ==
    company_id \cup flagged \cup (UNION {De(h) \cup A(h) : h \in publicados})
        \cup {id \in catalogo : scope = "all" /\ kind(id) \in {"vendor", "employee"}}

\* The ends of the edge of a transfer.
Extremos(b) == <<clabe_owner(b.origen), clabe_owner(b.destino)>>
add_edge(scope, b) ==
    /\ b.origen # Nadie /\ b.destino # Nadie
    /\ Extremos(b)[1] # Extremos(b)[2]
    /\ Extremos(b)[1] \in node_ids(scope) /\ Extremos(b)[2] \in node_ids(scope)

trail_findings(extremos) ==
    {h \in publicados :
        \E paso \in build_money_trail(h) : extremos[1] \in paso.de /\ extremos[2] \in paso.a}

Suma(S) == MapThenSumSet(LAMBDA b : row_amount("bank_txns", b), S)

edges(scope) ==
    LET dibujadas == {b \in estate.bank_txns : add_edge(scope, b)}
        monto(e) == Suma({b \in dibujadas : Extremos(b) = e})
    IN  {[from |-> e[1], to |-> e[2], amount |-> monto(e), finding_indexes |-> trail_findings(e)] :
            e \in {Extremos(b) : b \in dibujadas}}

-----------------------------------------------------------------------------
(* The timeline of an entity *)

\* The last day is left out.
Bugin_range(dia) == periodo = {} \/ (Min(periodo) <= dia /\ dia < Max(periodo))

in_range(dia) == periodo = {} \/ (Min(periodo) <= dia /\ dia <= Max(periodo))

clabes(id) == IF id \in company_id THEN company_clabes ELSE bank_clabe(id)
txns(id) == {b \in estate.bank_txns : {b.origen, b.destino} \cap clabes(id) # {}}

EsDe(id, rfc) == id = <<"RFC", rfc>> /\ id \notin company_id

\* The records of each lane, before those out of the period are left out.
lanes(id) ==
    [bank_txns |-> txns(id),
     invoices |->
        {i \in estate.invoices : EsDe(id, i.emisor) \/ EsDe(id, i.receptor)},
     contracts |->
        UNION {row("contracts", c.id) : c \in {c \in estate.contracts : EsDe(id, c.rfc)}},
     purchase_orders |->
        {o \in estate.purchase_orders :
            kind(id) = "employee" /\ id[2] \in {o.solicita, o.aprueba}}
            \cup (UNION {row("purchase_orders", o.id) :
                            o \in {o \in estate.purchase_orders : EsDe(id, o.rfc)}}),
     vendors |-> UNION {row("vendors", v.id) : v \in {v \in estate.vendors : EsDe(id, v.id)}},
     efos_list |->
        UNION {row("efos_list", e.id) : e \in {e \in estate.efos_list : EsDe(id, e.id)}},
     employees |-> {e \in estate.employees : id = <<"EMP", e.id>>}]

events(id) ==
    [t \in DOMAIN lanes(id) |-> {f \in lanes(id)[t] : in_range(DATE_FIELD(t, f))}]

\* A transfer between two accounts of one entity has reached it.
receives(id) == Suma({b \in txns(id) : b.destino \in clabes(id)})
sends(id) == Suma({b \in txns(id) : b.destino \notin clabes(id)})

\* The totals: what the company paid to the entity, and received from it.  Of
\* an employee only what was paid is told.
paid(id) == IF id \in company_id THEN sends(id) ELSE receives(id)
received(id) ==
    CASE id \in company_id -> receives(id)
      [] id[1] = "RFC" /\ id \notin company_id -> sends(id)
      [] OTHER -> 0

-----------------------------------------------------------------------------
(* The search.  A query that finds several entities is what their ids have in *)
(* common: a prefix.  The exhibits that it finds are all shown.               *)

Encontradas(prefijo) == {id \in catalogo \cup flagged : id[1] = prefijo}

\* Whoever is among the first, whatever order those of one status have.
entity_hits(prefijo) ==
    {id \in Encontradas(prefijo) :
        Cardinality({otra \in Encontradas(prefijo) : _STATUS_ORDER(otra) <= _STATUS_ORDER(id)})
            <= SEARCH_ENTITY_LIMIT}

appears_in(id) ==
    [finding |-> finding_indexes(id),
     lead |-> {p \in pistas : principal(p.cluster) = id},
     exhibit |-> {h \in publicados : \E ex \in h.exhibits :
                     \E f \in row(ex.tabla, ex.fila.id) : id \in row_entity(ex.tabla, f)}]

-----------------------------------------------------------------------------
ViewInit == AuditInit /\ indice = {} /\ pagina = {}

ViewNext ==
    \/ AuditNext /\ UNCHANGED <<indice, pagina>>
    \/ build_index /\ UNCHANGED pagina
    \/ \E q \in Consultas, limit \in Limites : get_records(q, limit)
    \/ \E p \in pagina : \E offset \in p.cursor : records_page(p, offset)

ViewSpec == ViewInit /\ [][ViewNext]_viewVars

-----------------------------------------------------------------------------
(* Properties *)

\* The views are functions of the index: it is enough to look at them before
\* the first page is asked for.
Leido == Abierto /\ pagina = {}

\* The engine adds amounts and rounds their sum; the report adds amounts that
\* were rounded.  In no table the difference comes to half a centavo.
Diferencia(x, y) == IF x > y THEN x - y ELSE y - x
SinResto(h) ==
    \A t \in ConImporte : 2 * Diferencia(_sum(h, t), Total(h.exhibits, t)) < Centavo

\* The report finds the amount of each finding again: half a centavo off at
\* most for the sum, and another half for each record that is added, whatever
\* other tables the finding cites.  It finds it exactly, and in the table that
\* the engine took it from, if rounding the records first makes no difference
\* of half a centavo in any table.  All this unless the finding cites an id
\* that is repeated.  An accused is shared with a finding of another scheme
\* only.
ReportReconciles ==
    Leido => \A h \in publicados :
        /\ \/ CitaRepetida(h)
           \/ /\ 2 * Diferencia(_reconciliation(h).sum, h.monto)
                    <= (Cardinality({ex \in h.exhibits : ex.tabla = h.tabla}) + 1) * Centavo
              /\ SinResto(h) =>
                    _reconciliation(h) = [table_used |-> h.tabla, sum |-> h.monto]
        /\ \A g \in shared_entities(h) : g.esquema # h.esquema

\* What the finding was seen in has an id that is repeated, or none.
CitaDudosa(h) == CitaRepetida(h) \/ \E s \in h.cluster.senales : s.id = Nadie

ConEspacios(id) ==
    \E f \in estate.vendors \cup estate.efos_list : f.espacios /\ id = <<"RFC", f.id>>

\* The evidence is shown: the report has the record of each exhibit, which says
\* that the finding cites it; records that are related lead to each other, if
\* not too many are and the page of the other does not show another row of its
\* id.  Everybody whom a finding accuses is described, and a search that finds
\* no more accused than it shows leads to all of them and to their findings;
\* and one exhibit is about each accused: a search for the accused leads to it,
\* and the report has its record, with the cell that names the accused
\* highlighted; unless the accused is in no catalog and the finding cites an id
\* that is repeated or was seen in a record without one.  All this if the RFC
\* was not uploaded with spaces.
EvidenceIsShown ==
    LET registros == report_records
        descritas == report_entities
    IN  Leido => \A h \in publicados :
            /\ \A ex \in h.exhibits : \E v \in registros :
                  /\ v.source_table = ex.tabla /\ v.record_id = ex.fila.id
                  /\ ex.fila.espacios \/ h \in v.cited_in
                  /\ \A r \in v.related : \A suya \in record_view(r[1], r[2]) :
                        \/ <<ex.tabla, ex.fila.id>> \in suya.related
                        \/ Cardinality(suya.related) = MAX_RELATED
                        \/ Repetida(r[1], r[2])
            /\ \A id \in entities(h) :
                \/ ConEspacios(id)
                \/ /\ h \in descritas[id].finding_indexes
                   /\ h \in appears_in(id).finding
                   /\ \/ id \in entity_hits(id[1])
                      \/ Cardinality({otra \in entities_by_status("accused") : otra[1] = id[1]})
                            > SEARCH_ENTITY_LIMIT
                   /\ \/ id \notin catalogo /\ CitaDudosa(h)
                      \/ /\ h \in appears_in(id).exhibit
                         /\ \E v \in registros :
                               v.highlighted /\ h \in v.cited_in
                                  /\ _names_accused(v.source_table, v.data, {id})

\* The index knows no holder of an account that is of a vendor, to the engine:
\* the RFC is repeated, and its last row has another account.
SinTitular(c) == clabe_owner(c) = <<"CLABE", c>> /\ Rfcs(c) # {}

\* The transfers that a finding cites are seen in the graph, on edges marked
\* with the finding; unless no company is known, both accounts are of one, or
\* one is an earlier account of a vendor whose RFC is repeated.
TrailsAreDrawn ==
    LET dibujo == edges("flagged")
    IN  Leido /\ empresa.rfc # {} => \A h \in publicados : \A b \in DeTabla(h, "bank_txns") :
            \/ Nadie \in {b.origen, b.destino} \/ Extremos(b)[1] = Extremos(b)[2]
            \/ SinTitular(b.origen) \/ SinTitular(b.destino)
            \/ \E e \in dibujo :
                  /\ <<e.from, e.to>> = Extremos(b) /\ h \in e.finding_indexes
                  /\ e.amount >= row_amount("bank_txns", b)

\* The summary counts as accused exactly those whom a finding accuses, be it
\* that a lead names them too, and leaves out of its other counts nobody whom
\* a lead names but the company.  Whoever shows signals and passes for clear
\* was closed in a lead that names another, or is an employee whom the index
\* takes for the holder of an account that vendors share.
FlaggedAreCounted ==
    Leido =>
        /\ entities_by_status("accused") = UNION {entities(h) : h \in publicados}
        /\ \A p \in pistas :
              principal(p.cluster) \in company_id \cup entities_by_status("accused")
                                                  \cup entities_by_status("declined")
        /\ \A id \in entities_by_status("clear") : signals(id) # {} =>
              \/ \E p \in pistas : id \in {format_entity_id(e) : e \in entidades(p.cluster)}
              \/ id[1] = "EMP" /\ \E c \in Compartidas : clabe_owner(c) = id

\* No other vendor and no other employee has its accounts, and no row of an
\* employee has another one.
Exclusiva(id) ==
    /\ clabes(id) # {}
    /\ \A c \in clabes(id) :
          /\ c \in company_clabes => id \in company_id
          /\ \A v \in vendors_por_clabe(c) : id = <<"RFC", v.id>>
          /\ \A e \in employees_por_clabe(c) : id = <<"EMP", e.id>>
    /\ \A e \in estate.employees : id = <<"EMP", e.id>> => e.clabe \in clabes(id) \cup {Nadie}

\* The account of somebody, to the index.
Conocida(c) == c # Nadie /\ clabe_owner(c)[1] # "CLABE"

\* The totals of a timeline are those of the edges that the graph of everybody
\* draws to and from the entity, but for money that came from or went to
\* accounts without a holder, which the graph may not show, or never left its
\* accounts; of entities whose accounts nobody else has.
TimelineAgreesWithGraph ==
    LET dibujo == edges("all")
        De_a(extremo, id) == MapThenSumSet(LAMBDA e : e.amount, {e \in dibujo : e[extremo] = id})
    IN  Leido /\ empresa.rfc # {} => \A id \in {id \in catalogo : Exclusiva(id)} :
            LET llega == IF id \in company_id THEN received(id) ELSE paid(id)
                sale == IF id \in company_id THEN paid(id) ELSE received(id)
                reciben == Suma({b \in txns(id) : b.origen \notin clabes(id) /\ Conocida(b.origen)})
                envian == Suma({b \in txns(id) : b.destino \notin clabes(id) /\ Conocida(b.destino)})
            IN  /\ reciben <= De_a("to", id) /\ De_a("to", id) <= llega
                /\ \/ kind(id) = "employee"
                   \/ envian <= De_a("from", id) /\ De_a("from", id) <= sale

\* The marks of a timeline are on events that it shows; unless the record is
\* an order or a contract of a day before or after all invoices and transfers,
\* or the entity is an employee whose id is repeated.
MarksHaveEvents ==
    Leido => \A h \in publicados : \A m \in _finding_annotations(h) :
        \/ m.fila \in events(m.entity)[m.tabla]
        \/ m.tabla \in {"purchase_orders", "contracts"} /\ ~in_range(m.fila.fecha)
        \/ m.entity[1] = "EMP" /\ Repetida("employees", m.entity[2])

\* Who follows the pages to the last one has seen every record, or entity, that
\* matches, as often as it matches, and none that does not, whatever the pages
\* were cut to and though the index was built again in between; unless its id
\* is repeated, or transfers are listed by the risk of whom they are with and
\* an RFC has two accounts: another index may know another holder.
Ambigua(q) ==
    /\ q.tabla = "bank_txns" /\ q.risk # Todas
    /\ \E v, w \in estate.vendors : v.id = w.id /\ v.clabe # w.clabe
Clave(q, f) == IF q.tabla = ENTIDADES THEN f ELSE f.id
PagesAreComplete ==
    \A p \in pagina : p.cursor = {} /\ ~Ambigua(p.q) =>
        /\ p.cuantos = Cardinality(matches(p.q))
        /\ {Clave(p.q, f) : f \in p.vistos} = {Clave(p.q, f) : f \in matches(p.q)}
        /\ \A f \in p.vistos : f \in matches(p.q) \/ Repetida(p.q.tabla, Clave(p.q, f))

=============================================================================
