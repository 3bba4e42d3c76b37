------------------------------- MODULE Assembler -------------------------------
(***************************************************************************)
(* The audit of an estate (app/fraud/engine/pipeline.py): the rules run,   *)
(* the assembler (ensamblador.py) gathers their signals into clusters and  *)
(* decides whether each one is a finding or a lead, and the findings are   *)
(* published if they pass the checks of submission.py and the validator.   *)
(*                                                                         *)
(* The clusters are the connected components that module Clusters computes *)
(* with the union-find of the code.  They are decided in any order: each   *)
(* decision reads the estate and its own cluster only.                     *)
(***************************************************************************)
EXTENDS Rules

CONSTANTS
    Estates,            \* the inputs
    Falibles,           \* the rules that may fail, one in a run
    MIN_EXHIBITS,       \* as in catalogo.py
    MAX_AUTORIZACIONES_CONTEXTO,
    Centavo             \* into how many parts amounts divide a centavo

ASSUME EstatesAreFinite == \A e \in Estates : \A t \in Tablas : IsFiniteSet(e[t])
\* The amounts of the estate are float32 numbers: they have fractions of a
\* centavo, which are counted here.  Sums of them are taken to be exact.
ASSUME CentavosHaveParts == Centavo \in Nat \ {0}
ASSUME AmountsAreWhole ==
    \A e \in Estates :
        /\ \A i \in e.invoices : i.total \in Int
        /\ \A c \in e.contracts : c.valor \in Int
        /\ \A f \in e.bank_txns \cup e.purchase_orders : f.monto \in Int

VARIABLES
    fase,           \* what the pipeline does next
    senales,        \* the signals of the rules that did not fail
    fallos,         \* the rules that did
    clusters,       \* the clusters to be decided
    hallazgos,      \* findings: of the assembler
    pistas,         \* leads_not_pursued: a cluster and the reason
    publicados      \* the findings that are in the submission

auditVars == <<estate, empresa, fase, senales, fallos, clusters, hallazgos, pistas, publicados>>

AuditInit ==
    /\ estate \in Estates
    /\ empresa = [rfc |-> {}, clabes |-> {}]
    /\ fase = "reglas"
    /\ senales = {} /\ fallos = {} /\ clusters = {}
    /\ hallazgos = {} /\ pistas = {} /\ publicados = {}

-----------------------------------------------------------------------------
(* The rules *)

\* A rule that raises is reported; the rows of the others are kept.  Then
\* Estate(con) finds out which company is audited.
ejecutar_reglas(fallidas) ==
    /\ fase = "reglas"
    /\ fallos' = fallidas
    /\ senales' = {s \in Senales : s.regla \notin fallidas}
    /\ empresa' = [rfc |-> _empresa_rfc, clabes |-> _empresa_clabes]
    /\ fase' = "agrupar"
    /\ UNCHANGED <<estate, clusters, hallazgos, pistas, publicados>>

-----------------------------------------------------------------------------
(* The clusters *)

DelEsquema(esquema) == {s \in senales : esquema_de(s) = esquema}

\* A signal is united by its entities but the company, or stands alone.
llaves(sig) ==
    LET otras == {e \in de_senal(sig) : e.tipo # "empresa"}
    IN  IF otras = {} THEN {<<"sin_entidad", sig.regla, sig.id>>}
                      ELSE {<<e.tipo, e.canonico>> : e \in otras}

\* The signals of the same keys: nothing is united.
BugClusters(esquema) ==
    {[esquema |-> esquema, senales |-> {s \in DelEsquema(esquema) : llaves(s) \subseteq S}] :
        S \in {llaves(s) : s \in DelEsquema(esquema)}}

\* The smallest sets of keys that no signal straddles, each with its signals.
Clusters(esquema) ==
    LET juntas == {llaves(s) : s \in DelEsquema(esquema)}
        cerrados == {S \in (SUBSET UNION juntas) \ {{}} :
                        \A j \in juntas : j \subseteq S \/ j \cap S = {}}
        componentes == {S \in cerrados : \A R \in cerrados : R \subseteq S => R = S}
    IN  {[esquema |-> esquema, senales |-> {s \in DelEsquema(esquema) : llaves(s) \subseteq S}] :
            S \in componentes}

agrupar ==
    /\ fase = "agrupar"
    /\ clusters' = UNION {Clusters(esquema) : esquema \in Esquemas}
    /\ fase' = "resolver"
    /\ UNCHANGED <<estate, empresa, senales, fallos, hallazgos, pistas, publicados>>

-----------------------------------------------------------------------------
(* What a cluster says *)

entidades(cl) == UNION {de_senal(s) : s \in cl.senales}
reglas(cl) == {s.regla : s \in cl.senales}
familias(cl) == UNION {FAMILIA[r] : r \in reglas(cl)}
acusables(cl) == {e \in entidades(cl) : e.tipo \in TIPOS_ACUSABLES}

Documentado(e) ==
    /\ e.tipo = "rfc"
    /\ ordenes_por_rfc(e.canonico) # {}
    /\ contratos_por_rfc(e.canonico) # {}

\* The documents exculpate only if every accused has them.
materialidad(cl) == \A e \in acusables(cl) : Documentado(e)

\* The records that the cluster cites for one of its accused.
DeProveedor(esquema, rfc) ==
    LET filas == vendors_por_rfc(rfc)
        facturas == facturas_emitidas_por(rfc)
        pagos == UNION {pagos_a_clabe(v.clabe) : v \in {v \in filas : v.clabe # Nadie}}
    IN  (IF filas # {} THEN {<<"vendors", rfc>>} ELSE {})
        \cup (IF efos_por_rfc(rfc) # {} THEN {<<"efos_list", rfc>>} ELSE {})
        \cup (IF esquema = "phantom_vendor"
              THEN {<<"invoices", i.id>> : i \in facturas}
                       \cup {<<"bank_txns", b.id>> : b \in pagos}
              ELSE {})

DeEmpleado(id) ==
    IF employees_por_nombre(id) = {} THEN {}
    ELSE {<<"employees", id>>}
         \cup {<<"purchase_orders", o.id>> :
                  o \in autorizaciones_de(id, MAX_AUTORIZACIONES_CONTEXTO)}

DeAcusado(esquema, e) ==
    IF e.tipo = "rfc" THEN DeProveedor(esquema, e.canonico) ELSE DeEmpleado(e.canonico)

\* A record without an id is not added to them (Citas.agregar).
agregar(cs) == {c \in cs : c[2] # Nadie}

citas(cl) ==
    agregar((UNION {citar_senal(s) : s \in cl.senales})
                \cup (UNION {DeAcusado(cl.esquema, e) : e \in acusables(cl)}))

\* build_exhibits raises if a cited record is not found.
Rota(cl) == \E c \in citas(cl) : registro(c[1], c[2]) = {}

exhibits(cl) == {[tabla |-> c[1], fila |-> CHOOSE f \in registro(c[1], c[2]) : TRUE] :
                    c \in citas(cl)}

-----------------------------------------------------------------------------
(* Is every accused involved? (cobertura.py) *)

EnFila(ex, rfc) ==
    CASE ex.tabla = "invoices" -> rfc \in {ex.fila.emisor, ex.fila.receptor}
      [] ex.tabla \in {"purchase_orders", "contracts"} -> ex.fila.rfc = rfc
      [] ex.tabla = "efos_list" -> ex.fila.id = rfc
      [] OTHER -> FALSE

PorBanco(ex, clabes) ==
    ex.tabla = "bank_txns" /\ {ex.fila.origen, ex.fila.destino} \cap (clabes \ {Nadie}) # {}

Actuo(ex, id) ==
    \/ PorBanco(ex, {e.clabe : e \in employees_por_nombre(id)})
    \/ ex.tabla = "purchase_orders" /\ id \in {ex.fila.solicita, ex.fila.aprueba}

Respaldada(e, exs) ==
    IF e.tipo = "rfc"
    THEN \E ex \in exs :
            \/ EnFila(ex, e.canonico)
            \/ PorBanco(ex, {v.clabe : v \in vendors_por_rfc(e.canonico)})
    ELSE /\ \E ex \in exs : ex.tabla = "employees" /\ ex.fila.id = e.canonico
         /\ \E ex \in exs : Actuo(ex, e.canonico)

-----------------------------------------------------------------------------
(* The amount *)

Importe(ex) ==
    CASE ex.tabla = "invoices" -> ex.fila.total
      [] ex.tabla = "contracts" -> ex.fila.valor
      [] OTHER -> ex.fila.monto

PRIORIDAD_MONTO(esquema) ==
    (IF esquema = "kickback" THEN <<"bank_txns", "invoices">> ELSE <<"invoices", "bank_txns">>)
        \o <<"purchase_orders", "contracts">>

Total(exs, tabla) == MapThenSumSet(Importe, {ex \in exs : ex.tabla = tabla})

\* The preferred tables that have an amount, as their places in the order.
ConMonto(esquema, exs) ==
    {i \in 1..4 : Total(exs, PRIORIDAD_MONTO(esquema)[i]) > 0}

\* To the nearest centavo, and from the middle to the even one (round).
redondeo(x) ==
    LET abajo == x \div Centavo
        resto == x % Centavo
    IN  Centavo * (IF 2 * resto > Centavo \/ (2 * resto = Centavo /\ abajo % 2 = 1)
                   THEN abajo + 1 ELSE abajo)

\* The whole of the tables is claimed.
Bugcompute_peso_amount(esquema, exs) ==
    LET tabla == PRIORIDAD_MONTO(esquema)[Min(ConMonto(esquema, exs))]
    IN  [tabla |-> tabla,
         monto |-> redondeo(Total(exs, "invoices") + Total(exs, "bank_txns"))]

compute_peso_amount(esquema, exs) ==
    LET tabla == PRIORIDAD_MONTO(esquema)[Min(ConMonto(esquema, exs))]
    IN  [tabla |-> tabla, monto |-> redondeo(Total(exs, tabla))]

-----------------------------------------------------------------------------
(* The decision *)

\* The cluster is closed before its records are looked at.
SinAcusados(cl) == acusables(cl) = {}
SenalUnica(cl) ==
    Cardinality(familias(cl)) < 2 /\ reglas(cl) \cap REGLAS_SUFICIENTES_SOLAS = {}

\* A rule that is enough alone is not looked at with the documents.
BugExculpado(cl) ==
    /\ cl.esquema = "phantom_vendor" /\ "cuenta_compartida" \notin familias(cl)
    /\ reglas(cl) \cap REGLAS_SUFICIENTES_SOLAS = {}
    /\ materialidad(cl)

Exculpado(cl) ==
    cl.esquema = "phantom_vendor" /\ "cuenta_compartida" \notin familias(cl) /\ materialidad(cl)

Cerrado(cl) == SinAcusados(cl) \/ SenalUnica(cl) \/ Exculpado(cl)

Motivo(cl) ==
    LET exs == exhibits(cl)
    IN  IF SinAcusados(cl)
        THEN IF \E e \in entidades(cl) : e.tipo # "empresa" THEN "no_resuelta"
                                                           ELSE "solo_empresa"
        ELSE IF SenalUnica(cl) THEN "senal_unica"
        ELSE IF Exculpado(cl) THEN "materialidad"
        ELSE IF Cardinality(exs) < MIN_EXHIBITS THEN "exhibits_insuficientes"
        ELSE IF \E e \in acusables(cl) : ~Respaldada(e, exs) THEN "entidad_sin_respaldo"
        ELSE IF ConMonto(cl.esquema, exs) = {} THEN "sin_monto"
        ELSE "acusado"

Hallazgo(cl) ==
    LET peso == compute_peso_amount(cl.esquema, exhibits(cl))
    IN  [cluster |-> cl, esquema |-> cl.esquema, entidades |-> acusables(cl),
         exhibits |-> exhibits(cl), monto |-> peso.monto, tabla |-> peso.tabla]

resolver(cl) ==
    /\ fase = "resolver"
    /\ cl \in clusters
    /\ Cerrado(cl) \/ ~Rota(cl)
    /\ clusters' = clusters \ {cl}
    /\ LET motivo == Motivo(cl)
       IN  IF motivo = "acusado"
           THEN hallazgos' = hallazgos \cup {Hallazgo(cl)} /\ UNCHANGED pistas
           ELSE pistas' = pistas \cup {[cluster |-> cl, motivo |-> motivo]}
                /\ UNCHANGED hallazgos
    /\ UNCHANGED <<estate, empresa, fase, senales, fallos, publicados>>

\* The ValueError of build_exhibits ends the audit: no cluster is answered.
CitaInexistente(cl) ==
    /\ fase = "resolver"
    /\ cl \in clusters
    /\ ~Cerrado(cl) /\ Rota(cl)
    /\ fase' = "error"
    /\ UNCHANGED <<estate, empresa, senales, fallos, clusters, hallazgos, pistas, publicados>>

Resueltos ==
    /\ fase = "resolver"
    /\ clusters = {}
    /\ fase' = "traducir"
    /\ UNCHANGED <<estate, empresa, senales, fallos, clusters, hallazgos, pistas, publicados>>

-----------------------------------------------------------------------------
(* The publication *)

\* The table whose total is nearest to the claim is near enough: 2 per cent,
\* of a peso at least.
Reconcilia(h) ==
    LET conMonto == {"invoices", "bank_txns", "purchase_orders", "contracts"}
        totales == {Total(h.exhibits, t) :
                        t \in {t \in conMonto : \E ex \in h.exhibits : ex.tabla = t}}
        Lejos(t) == IF t > h.monto THEN t - h.monto ELSE h.monto - t
    IN  \E t \in totales :
            /\ \A u \in totales : Lejos(t) <= Lejos(u)
            /\ 50 * Lejos(t) <= Max({t, 100 * Centavo})

Publicable(h) == ~(Cardinality(h.exhibits) < MIN_EXHIBITS) /\ Reconcilia(h)

\* A finding that fails its checks would end the audit.
traducir_finding(h) ==
    /\ fase = "traducir"
    /\ h \in hallazgos \ publicados
    /\ IF Publicable(h) THEN publicados' = publicados \cup {h} /\ UNCHANGED fase
                        ELSE fase' = "error" /\ UNCHANGED publicados
    /\ UNCHANGED <<estate, empresa, senales, fallos, clusters, hallazgos, pistas>>

build_submission ==
    /\ fase = "traducir"
    /\ publicados = hallazgos
    /\ fase' = "validar"
    /\ UNCHANGED <<estate, empresa, senales, fallos, clusters, hallazgos, pistas, publicados>>

\* An id may be repeated (ingest.py only warns of it).  The engine and the
\* validator each read one of its rows, and no order says which: the engine
\* always the same one, the validator any.
Repetida(t, id) == \E f, g \in estate[t] : f # g /\ f.id = id /\ g.id = id
Repetidas ==
    UNION {{<<t, f.id>> : f \in {f \in estate[t] : Repetida(t, f.id)}} : t \in Tablas}
Lecturas ==
    {lee \in [Repetidas -> UNION {estate[t] : t \in Tablas}] :
        \A c \in Repetidas : lee[c] \in estate[c[1]] /\ lee[c].id = c[2]}
Leidos(h, lee) ==
    {IF Repetida(ex.tabla, ex.fila.id)
     THEN [ex EXCEPT !.fila = lee[<<ex.tabla, ex.fila.id>>]] ELSE ex : ex \in h.exhibits}

\* The official validator recomputes the totals from the exported estate; a
\* submission that fails is withheld, and the audit with it.
validar ==
    /\ fase = "validar"
    /\ \E lee \in Lecturas :
          fase' = IF \A h \in publicados :
                        /\ h.entidades # {} /\ h.monto > 0
                        /\ Publicable([h EXCEPT !.exhibits = Leidos(h, lee)])
                  THEN "fin" ELSE "retenido"
    /\ UNCHANGED <<estate, empresa, senales, fallos, clusters, hallazgos, pistas, publicados>>

-----------------------------------------------------------------------------
AuditNext ==
    \/ \E fallidas \in SUBSET Falibles :
          Cardinality(fallidas) <= 1 /\ ejecutar_reglas(fallidas)
    \/ agrupar
    \/ \E cl \in clusters : resolver(cl) \/ CitaInexistente(cl)
    \/ Resueltos
    \/ \E h \in hallazgos : traducir_finding(h)
    \/ build_submission
    \/ validar

AuditSpec == AuditInit /\ [][AuditNext]_auditVars

-----------------------------------------------------------------------------
(* Properties *)

CitaRepetida(h) == \E ex \in h.exhibits : Repetida(ex.tabla, ex.fila.id)

\* Every signal is answered: when the submission is out, each one is in
\* exactly one cluster, which was accused or closed with a reason, not both.
EverySignalIsAnswered ==
    fase = "fin" =>
        \A s \in senales :
            Cardinality({h \in publicados : s \in h.cluster.senales})
                + Cardinality({p \in pistas : s \in p.cluster.senales}) = 1

\* The audit of a run fails only for an id that is untidy in the upload: one
\* that has spaces around it, or one that a finding cites and is repeated;
\* or because what a finding claims comes to half a centavo at most, which is
\* claimed as nothing.  It never does because the assembler made any other
\* finding that the checks before the publication, or the validator, refuse.
OnlyUntidyIdsFail ==
    /\ fase = "error" =>
          \E t \in Tablas \ PorRfc : \E fila \in estate[t] : fila.espacios
    /\ fase = "retenido" =>
          \E h \in publicados :
              CitaRepetida(h) \/ 2 * Total(h.exhibits, h.tabla) <= Centavo

\* Orders and a contract, and no account that another vendor or an employee
\* has too or from which an employee is paid.
Honesto(v) ==
    /\ Documentado(Entidad("rfc", v.id))
    /\ \A w \in vendors_por_rfc(v.id) : w.clabe # Nadie =>
          /\ Rfcs(w.clabe) = {v.id}
          /\ employees_por_clabe(w.clabe) = {}
          /\ \A b \in estate.bank_txns : b.origen = w.clabe /\ b.destino # Nadie =>
                employees_por_clabe(b.destino) = {}

\* A decoy is spared: such a vendor is accused of no phantom, whatever signals
\* it sets off and whichever rule fails.
DecoysAreSpared ==
    \A h \in hallazgos : \A v \in estate.vendors :
        h.esquema = "phantom_vendor" /\ Entidad("rfc", v.id) \in h.entidades => ~Honesto(v)

Propia(ex) == ex.tabla = "bank_txns" /\ ex.fila.destino \in empresa.clabes
Dinero(h) ==
    {ex \in h.exhibits : /\ ex.tabla \in {"invoices", "bank_txns"} /\ ~Propia(ex)
                         /\ ~Repetida(ex.tabla, ex.fila.id)}

\* The same money is claimed once: no invoice and no transfer is an exhibit
\* of two findings, of one scheme or of both, unless the rule that would have
\* united the vendors of one account failed, or the id is that of two rows, or
\* the money went to an account of the company, which stands for the company
\* and for no other of its owners.
MoneyIsClaimedOnce ==
    "SHARED_CLABE_MULTI_RFC" \notin fallos =>
        \A h, g \in hallazgos : h # g => Dinero(h) \cap Dinero(g) = {}

=============================================================================
