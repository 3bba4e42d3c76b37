--------------------------------- MODULE Rules ---------------------------------
(***************************************************************************)
(* The rules (app/fraud/rules) that tell of a phantom vendor, and those of *)
(* a kickback that involve the accounts and the duties of employees: each  *)
(* one is a query over the estate whose rows are signals.  With them, what *)
(* the engine knows of a rule: its scheme, its family, the entities and    *)
(* the records of its signals (catalogo.py, entidades.py, evidencia.py).   *)
(***************************************************************************)
EXTENDS Estate

CONSTANTS
    MontoMinimo,    \* monto_minimo of rule_invoice_no_po_no_contract
    DiasUmbral      \* dias_umbral of rule_vendor_short_lifecycle

\* A signal: the rule, whether it is enough, the entity it is about, the
\* record it was seen in and what else the rule put into its context.
Senal(regla, autosuficiencia, entidad, tabla, id, contexto) ==
    [regla |-> regla, autosuficiencia |-> autosuficiencia, entidad |-> entidad,
     tabla |-> tabla, id |-> id, contexto |-> contexto]
SinContexto == <<>>

\* The invoices whose issuer is known: the queries join or filter by it.
Emitidas == {i \in estate.invoices : i.emisor # Nadie}

\* A signal of each invoice of an issuer that is listed.
DeFactura(regla, i) == Senal(regla, "presuntiva", i.emisor, "invoices", i.id, SinContexto)
Listado(rfc, status) == \E e \in efos_por_rfc(rfc) : e.status = status

EFOS_DIRECT_MATCH ==
    {DeFactura("EFOS_DIRECT_MATCH", i) :
        i \in {i \in Emitidas : Listado(i.emisor, "definitivo")}}

EFOS_PRESUNTO_MATCH ==
    {DeFactura("EFOS_PRESUNTO_MATCH", i) :
        i \in {i \in Emitidas : Listado(i.emisor, "presunto")}}

EFOS_POST_DATED ==
    {DeFactura("EFOS_POST_DATED", i) :
        i \in {i \in Emitidas :
                  \E e \in efos_por_rfc(i.emisor) :
                      e.status = "definitivo" /\ e.publicada > i.fecha}}

\* The first invoice of a vendor, if it came soon after its registration, or
\* after one of them if its RFC is in several rows.
VENDOR_SHORT_LIFECYCLE ==
    LET EsPrimera(i) == \A j \in Facturas(i.emisor) :
            i.fecha < j.fecha \/ (i.fecha = j.fecha /\ i.id <= j.id)
    IN  {DeFactura("VENDOR_SHORT_LIFECYCLE", i) :
            i \in {i \in Emitidas :
                      /\ EsPrimera(i)
                      /\ \E v \in vendors_por_rfc(i.emisor) : i.fecha < v.alta + DiasUmbral}}

INVOICE_NO_PO_NO_CONTRACT ==
    {DeFactura("INVOICE_NO_PO_NO_CONTRACT", i) :
        i \in {i \in Emitidas :
                  /\ i.total > MontoMinimo
                  /\ ordenes_por_rfc(i.emisor) = {}
                  /\ contratos_por_rfc(i.emisor) = {}}}

Rfcs(clabe) == {v.id : v \in vendors_por_clabe(clabe)} \ {Nadie}
Compartidas == {c \in {v.clabe : v \in estate.vendors} \ {Nadie} : Cardinality(Rfcs(c)) > 1}

\* A signal of each account; its record is the first of its vendors.
SHARED_CLABE_MULTI_RFC ==
    {Senal("SHARED_CLABE_MULTI_RFC", "presuntiva", c, "vendors", Min(Rfcs(c)),
           Rfcs(c)) :
        c \in Compartidas}

\* A signal of each transfer and each vendor that owns its destination.
OUTBOUND_TO_SUSPECT_ENTITY ==
    {Senal("OUTBOUND_TO_SUSPECT_ENTITY", "presuntiva", p[2].id, "bank_txns", p[1].id,
           SinContexto) :
        p \in {p \in estate.bank_txns \X estate.vendors :
                  /\ p[1].destino = p[2].clabe /\ p[2].clabe # Nadie /\ p[2].id # Nadie
                  /\ efos_por_rfc(p[2].id) # {} \/ p[2].clabe \in Compartidas}}

\* A signal of each transfer and each employee that owns its destination.
PAYMENT_TO_EMPLOYEE_ACCOUNT ==
    {Senal("PAYMENT_TO_EMPLOYEE_ACCOUNT", "autosuficiente", p[2].id, "bank_txns", p[1].id,
           [origen |-> p[1].origen, destino |-> p[1].destino]) :
        p \in {p \in estate.bank_txns \X estate.employees :
                  p[1].destino = p[2].clabe /\ p[2].clabe # Nadie}}

\* An order that one person asked for and approved.
NO_SEGREGATION_OF_DUTIES ==
    {Senal("NO_SEGREGATION_OF_DUTIES", "autosuficiente", o.solicita, "purchase_orders", o.id,
           o.rfc) :
        o \in {o \in estate.purchase_orders : o.solicita = o.aprueba /\ o.solicita # Nadie}}

Senales ==
    EFOS_DIRECT_MATCH \cup EFOS_PRESUNTO_MATCH \cup EFOS_POST_DATED
        \cup VENDOR_SHORT_LIFECYCLE \cup INVOICE_NO_PO_NO_CONTRACT
        \cup SHARED_CLABE_MULTI_RFC \cup OUTBOUND_TO_SUSPECT_ENTITY
        \cup PAYMENT_TO_EMPLOYEE_ACCOUNT \cup NO_SEGREGATION_OF_DUTIES

-----------------------------------------------------------------------------
(* What the engine knows of the rules *)

\* OUTBOUND_TO_SUSPECT_ENTITY derives from other rules: it has no family.
FAMILIA ==
    [EFOS_DIRECT_MATCH |-> {"lista_sat"}, EFOS_PRESUNTO_MATCH |-> {"lista_sat"},
     EFOS_POST_DATED |-> {"lista_sat"}, VENDOR_SHORT_LIFECYCLE |-> {"alta_reciente"},
     INVOICE_NO_PO_NO_CONTRACT |-> {"sin_materialidad"},
     SHARED_CLABE_MULTI_RFC |-> {"cuenta_compartida"}, OUTBOUND_TO_SUSPECT_ENTITY |-> {},
     PAYMENT_TO_EMPLOYEE_ACCOUNT |-> {"pago_a_empleado"},
     NO_SEGREGATION_OF_DUTIES |-> {"segregacion"}]
Reglas == DOMAIN FAMILIA

REGLAS_SUFICIENTES_SOLAS == {"EFOS_DIRECT_MATCH", "PAYMENT_TO_EMPLOYEE_ACCOUNT"}
DeKickback == {"PAYMENT_TO_EMPLOYEE_ACCOUNT", "NO_SEGREGATION_OF_DUTIES"}
RULE_TO_SCHEME ==
    [r \in Reglas |-> IF r \in DeKickback THEN "kickback" ELSE "phantom_vendor"]
Esquemas == {"phantom_vendor", "kickback"}

\* A payment to an employee is a kickback whatever else the account is.
Bugesquema_de(sig) == RULE_TO_SCHEME[sig.regla]

\* A payment to an employee whose account is a vendor's is no kickback.
esquema_de(sig) ==
    IF /\ sig.regla = "PAYMENT_TO_EMPLOYEE_ACCOUNT"
       /\ vendors_por_clabe(sig.contexto.destino) # {}
    THEN "phantom_vendor"
    ELSE RULE_TO_SCHEME[sig.regla]

\* The entities of a signal, as its rule puts them together.
de_senal(sig) ==
    CASE sig.regla = "SHARED_CLABE_MULTI_RFC" -> UNION {Rfc(r) : r \in sig.contexto}
      [] sig.regla = "PAYMENT_TO_EMPLOYEE_ACCOUNT" ->
            {e \in Empleado(sig.entidad) \cup Clabe(sig.contexto.destino)
                     \cup Clabe(sig.contexto.origen) : e.tipo # "clabe"}
      [] sig.regla = "NO_SEGREGATION_OF_DUTIES" -> Persona(sig.entidad) \cup Rfc(sig.contexto)
      [] OTHER -> Rfc(sig.entidad)

DeLista == {"EFOS_DIRECT_MATCH", "EFOS_PRESUNTO_MATCH", "EFOS_POST_DATED"}

\* The records that prove the signal: pairs of a table and an id, to be added
\* to the citations of its cluster.
citar_senal(sig) ==
    (IF sig.regla = "SHARED_CLABE_MULTI_RFC"
     THEN {"vendors"} \X sig.contexto
     ELSE {<<sig.tabla, sig.id>>})
    \cup (IF sig.regla \in DeLista THEN {<<"efos_list", sig.entidad>>} ELSE {})
    \cup (IF sig.regla = "VENDOR_SHORT_LIFECYCLE" THEN {<<"vendors", sig.entidad>>} ELSE {})
    \cup (IF sig.regla = "PAYMENT_TO_EMPLOYEE_ACCOUNT" THEN {<<"employees", sig.entidad>>}
                                                      ELSE {})

=============================================================================
