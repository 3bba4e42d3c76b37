---------------------------- MODULE CaseViews_proofs ----------------------------
(***************************************************************************)
(* Proofs about the audit and about the views of its case file, for any    *)
(* estates: TLC checks the same properties on a few thousand of them.      *)
(***************************************************************************)
EXTENDS CaseViews, FiniteSetTheorems, WellFoundedInduction, TLAPS

-----------------------------------------------------------------------------
(* The components of a collection of sets *)

Closed(J) == {S \in (SUBSET UNION J) \ {{}} : \A j \in J : j \subseteq S \/ j \cap S = {}}
Minimal(J) == {S \in Closed(J) : \A R \in Closed(J) : R \subseteq S => R = S}

\* Two components that meet are one.
LEMMA ComponentsAreApart ==
    ASSUME NEW J, NEW S \in Minimal(J), NEW T \in Minimal(J), S \cap T # {}
    PROVE  S = T
<1>1. S \cap T \in Closed(J)
  <2>1. \A j \in J : j \subseteq S \cap T \/ j \cap (S \cap T) = {}
    BY DEF Minimal, Closed
  <2> QED BY <2>1 DEF Minimal, Closed
<1>2. S \cap T = S /\ S \cap T = T
  BY <1>1 DEF Minimal
<1> QED BY <1>2

\* Every set that is not empty is in a component.
LEMMA ComponentsCover ==
    ASSUME NEW J, NEW j \in J, j # {}
    PROVE  \E S \in Minimal(J) : j \subseteq S
<1> DEFINE S == {x \in UNION J : \A R \in Closed(J) : j \subseteq R => x \in R}
<1>1. j \subseteq S
  OBVIOUS
<1>2. \A k \in J : k \subseteq S \/ k \cap S = {}
  <2> SUFFICES ASSUME NEW k \in J, NEW x \in k, x \in S, NEW y \in k
               PROVE  y \in S
    OBVIOUS
  <2>1. \A R \in Closed(J) : j \subseteq R => y \in R
    <3> TAKE R \in Closed(J)
    <3> HAVE j \subseteq R
    <3>1. x \in k \cap R
      OBVIOUS
    <3>2. k \subseteq R
      BY <3>1 DEF Closed
    <3> QED BY <3>2
  <2> QED BY <2>1
<1>3. S \in Closed(J)
  <2>1. S \in SUBSET UNION J /\ S # {}
    BY <1>1
  <2> HIDE DEF S
  <2> QED BY <2>1, <1>2 DEF Closed
<1>4. ASSUME NEW R \in Closed(J), R \subseteq S
      PROVE  R = S
  <2>1. CASE j \subseteq R
    BY <2>1, <1>4
  <2>2. CASE ~(j \subseteq R)
    <3> DEFINE D == (UNION J) \ R
    <3>1. j \cap R = {}
      BY <2>2 DEF Closed
    <3>2. j \subseteq D
      BY <3>1
    <3>3. \A k \in J : k \subseteq D \/ k \cap D = {}
      BY DEF Closed
    <3>4. D \in Closed(J)
      <4>1. D \in SUBSET UNION J /\ D # {}
        BY <3>2
      <4> HIDE DEF D
      <4> QED BY <4>1, <3>3 DEF Closed
    <3>5. S \subseteq D
      BY <3>2, <3>4
    <3>6. R = {}
      BY <3>5, <1>4
    <3> QED BY <3>6 DEF Closed
  <2> QED BY <2>1, <2>2
<1> HIDE DEF S
<1>5. S \in Minimal(J)
  BY <1>3, <1>4 DEF Minimal
<1> QED BY <1>1, <1>5

-----------------------------------------------------------------------------
(* What the audit keeps to *)

Fases == {"reglas", "agrupar", "resolver", "traducir", "validar", "fin", "retenido", "error"}

\* The signals are those of the rules that did not fail, about this company.
Signalled ==
    /\ estate \in Estates
    /\ fase = "reglas" => senales = {}
    /\ fase # "reglas" =>
          /\ senales = {s \in Senales : s.regla \notin fallos}
          /\ empresa = [rfc |-> _empresa_rfc, clabes |-> _empresa_clabes]

Todos == UNION {Clusters(esquema) : esquema \in Esquemas}
Acusados == {h.cluster : h \in hallazgos}
Cerrados == {p.cluster : p \in pistas}
Decididos == Acusados \cup Cerrados

\* No cluster is lost or made up.
Answered ==
    IF fase \in {"reglas", "agrupar"} THEN clusters = {} /\ hallazgos = {} /\ pistas = {}
                                     ELSE clusters \cup Decididos = Todos

\* What was decided follows from the cluster.
Explained ==
    /\ \A h \in hallazgos :
          h = Hallazgo(h.cluster) /\ Motivo(h.cluster) = "acusado" /\ ~Rota(h.cluster)
    /\ \A p \in pistas :
          p = [cluster |-> p.cluster, motivo |-> Motivo(p.cluster)] /\ p.motivo # "acusado"

\* One thing is done after the other.
InOrder ==
    /\ fase \in Fases
    /\ fase \in {"reglas", "agrupar", "resolver"} => publicados = {}
    /\ fase \in {"traducir", "validar", "fin", "retenido"} => clusters = {}
    /\ fase \in {"validar", "fin", "retenido"} => publicados = hallazgos
    /\ publicados \subseteq hallazgos

\* The validator refuses the finding if it reads these rows.
Falla(h, lee) ==
    ~ /\ h.entidades # {} /\ h.monto > 0
      /\ Publicable([h EXCEPT !.exhibits = Leidos(h, lee)])

\* Why it ends early.
Refused ==
    /\ \A h \in publicados : Publicable(h)
    /\ fase = "error" => \/ \E cl \in clusters : ~Cerrado(cl) /\ Rota(cl)
                        \/ \E h \in hallazgos : ~Publicable(h)
    /\ fase = "retenido" => \E lee \in Lecturas : \E h \in publicados : Falla(h, lee)

AuditInv == Signalled /\ Answered /\ Explained /\ InOrder /\ Refused

-----------------------------------------------------------------------------
(* What is told of the estate stays the same while the estate does *)

LEMMA SameEntities ==
    ASSUME UNCHANGED <<estate, empresa>>
    PROVE  \A s : de_senal(s)' = de_senal(s)
BY SMT DEF de_senal, Persona, Clabe, Duenos, Rfc, Entidad, Nadie, vendors_por_clabe, employees_por_clabe,
           Empleado, employees_por_nombre

LEMMA SameClusters ==
    ASSUME UNCHANGED <<estate, empresa, senales>>
    PROVE  Todos' = Todos
<1>1. \A esquema : Clusters(esquema)' = Clusters(esquema)
  BY SMT DEF Clusters, DelEsquema, llaves, esquema_de, de_senal, Persona, Clabe, Duenos, Rfc, Entidad,
             Nadie, vendors_por_clabe, employees_por_clabe, Empleado, employees_por_nombre
<1> QED BY <1>1 DEF Todos

LEMMA SameReasons ==
    ASSUME UNCHANGED <<estate, empresa, senales>>
    PROVE  /\ \A cl : Motivo(cl)' = Motivo(cl)
           /\ \A cl : Hallazgo(cl)' = Hallazgo(cl)
           /\ \A cl : Rota(cl)' <=> Rota(cl)
           /\ \A cl : Cerrado(cl)' <=> Cerrado(cl)
<1> USE DEF exhibits, citas, registro, DeAcusado, DeProveedor, DeEmpleado, autorizaciones_de, citar_senal,
            pagos_a_clabe, facturas_emitidas_por, efos_por_rfc, vendors_por_rfc, acusables, entidades,
            reglas, familias, de_senal, Persona, Clabe, Duenos, Rfc, Entidad, Nadie, vendors_por_clabe,
            employees_por_clabe, Empleado, employees_por_nombre, SinAcusados, SenalUnica, Exculpado,
            materialidad, Documentado, ordenes_por_rfc, contratos_por_rfc
<1>1. \A cl : Motivo(cl)' = Motivo(cl)
  BY SMT DEF Motivo, Respaldada, EnFila, PorBanco, Actuo, ConMonto, Total
<1>2. \A cl : Hallazgo(cl)' = Hallazgo(cl)
  BY SMT DEF Hallazgo, compute_peso_amount, ConMonto, Total
<1>3. \A cl : Rota(cl)' <=> Rota(cl)
  BY SMT DEF Rota
<1>4. \A cl : Cerrado(cl)' <=> Cerrado(cl)
  BY SMT DEF Cerrado
<1> QED BY <1>1, <1>2, <1>3, <1>4

LEMMA SameSignals ==
    ASSUME UNCHANGED estate
    PROVE  Senales' = Senales /\ _empresa_rfc' = _empresa_rfc /\ _empresa_clabes' = _empresa_clabes
<1>1. _empresa_rfc' = _empresa_rfc
  BY SMT DEF _empresa_rfc, Veces, Facturas, Recibidas
<1>2. _empresa_clabes' = _empresa_clabes
  BY <1>1, SMT DEF _empresa_clabes, Nadie
<1>3. /\ EFOS_DIRECT_MATCH' = EFOS_DIRECT_MATCH /\ EFOS_PRESUNTO_MATCH' = EFOS_PRESUNTO_MATCH
      /\ EFOS_POST_DATED' = EFOS_POST_DATED
  BY SMT DEF EFOS_DIRECT_MATCH, EFOS_PRESUNTO_MATCH, EFOS_POST_DATED, Emitidas, Nadie, Listado,
             efos_por_rfc, DeFactura, Senal, SinContexto
<1>4. /\ VENDOR_SHORT_LIFECYCLE' = VENDOR_SHORT_LIFECYCLE
      /\ INVOICE_NO_PO_NO_CONTRACT' = INVOICE_NO_PO_NO_CONTRACT
  BY SMT DEF VENDOR_SHORT_LIFECYCLE, INVOICE_NO_PO_NO_CONTRACT, Emitidas, Nadie, Facturas,
             vendors_por_rfc, ordenes_por_rfc, contratos_por_rfc, DeFactura, Senal, SinContexto
<1>5. /\ SHARED_CLABE_MULTI_RFC' = SHARED_CLABE_MULTI_RFC
      /\ OUTBOUND_TO_SUSPECT_ENTITY' = OUTBOUND_TO_SUSPECT_ENTITY
  BY SMT DEF SHARED_CLABE_MULTI_RFC, OUTBOUND_TO_SUSPECT_ENTITY, Compartidas, Rfcs,
             vendors_por_clabe, efos_por_rfc, Senal, SinContexto, Nadie
<1>6. /\ PAYMENT_TO_EMPLOYEE_ACCOUNT' = PAYMENT_TO_EMPLOYEE_ACCOUNT
      /\ NO_SEGREGATION_OF_DUTIES' = NO_SEGREGATION_OF_DUTIES
  BY SMT DEF PAYMENT_TO_EMPLOYEE_ACCOUNT, NO_SEGREGATION_OF_DUTIES, Senal, Nadie
<1> QED BY <1>1, <1>2, <1>3, <1>4, <1>5, <1>6 DEF Senales

LEMMA SameReadings ==
    ASSUME UNCHANGED estate
    PROVE  /\ Lecturas' = Lecturas /\ Ordenes' = Ordenes
           /\ \A h, lee : Leidos(h, lee)' = Leidos(h, lee)
           /\ \A t, id : Repetida(t, id)' <=> Repetida(t, id)
<1>1. \A t, id : Repetida(t, id)' <=> Repetida(t, id)
  BY SMT DEF Repetida
<1>2. Repetidas' = Repetidas
  BY <1>1, SMT DEF Repetidas
<1>3. Lecturas' = Lecturas
  BY <1>2, SMT DEF Lecturas
<1>5. Ordenes' = Ordenes
  BY <1>2, <1>3, SMT DEF Ordenes
<1>4. \A h, lee : Leidos(h, lee)' = Leidos(h, lee)
  BY SMT DEF Leidos, Repetida
<1> QED BY <1>1, <1>3, <1>4, <1>5

LEMMA SameChecks == \A h : Publicable(h)' <=> Publicable(h)
BY SMT DEF Publicable, Reconcilia, Total

LEMMA SameRefusals ==
    ASSUME UNCHANGED estate
    PROVE  \A h, lee : Falla(h, lee)' <=> Falla(h, lee)
BY SMT DEF Falla, Leidos, Repetida, Publicable, Reconcilia, Total

-----------------------------------------------------------------------------
(* Every step keeps to it *)

LEMMA AuditBegins ==
    ASSUME AuditInit
    PROVE  AuditInv
<1> USE DEF AuditInit
<1>1. Signalled
  BY DEF Signalled
<1>2. Answered /\ Explained /\ InOrder
  BY DEF Answered, Explained, InOrder, Fases
<1>3. Refused
  BY DEF Refused
<1> QED BY <1>1, <1>2, <1>3 DEF AuditInv

Steady ==
    /\ Todos' = Todos
    /\ \A cl : Motivo(cl)' = Motivo(cl) /\ Hallazgo(cl)' = Hallazgo(cl)
    /\ \A cl : (Rota(cl)' <=> Rota(cl)) /\ (Cerrado(cl)' <=> Cerrado(cl))

\* What an action that leaves the estate alone does not have to show.
LEMMA Undisturbed ==
    ASSUME AuditInv, UNCHANGED <<estate, empresa, senales, fallos>>, fase # "reglas", fase' # "reglas"
    PROVE  Signalled' /\ Steady
<1>1. Signalled'
  BY SameSignals DEF AuditInv, Signalled
<1> QED BY <1>1, SameClusters, SameReasons DEF Steady

LEMMA RulesRun ==
    ASSUME AuditInv, NEW fallidas, ejecutar_reglas(fallidas)
    PROVE  AuditInv'
<1> USE DEF ejecutar_reglas
<1>1. Signalled'
  BY SameSignals DEF AuditInv, Signalled
<1>2. Answered' /\ Explained' /\ InOrder'
  BY DEF AuditInv, Answered, Explained, InOrder, Fases
<1>3. Refused'
  <2>1. publicados' = {}
    BY DEF AuditInv, InOrder
  <2> QED BY <2>1 DEF Refused
<1> QED BY <1>1, <1>2, <1>3 DEF AuditInv

LEMMA ClustersMade ==
    ASSUME AuditInv, agrupar
    PROVE  AuditInv'
<1> USE DEF agrupar
<1>1. Signalled' /\ Todos' = Todos
  BY Undisturbed DEF Steady
<1>2. Answered'
  BY <1>1 DEF AuditInv, Answered, Todos, Decididos, Acusados, Cerrados, Steady
<1>3. Explained' /\ InOrder'
  BY DEF AuditInv, Answered, Explained, InOrder, Fases
<1>4. Refused'
  <2>1. publicados' = {}
    BY DEF AuditInv, InOrder
  <2> QED BY <2>1 DEF Refused
<1> QED BY <1>1, <1>2, <1>3, <1>4 DEF AuditInv

LEMMA ClusterDecided ==
    ASSUME AuditInv, NEW cl, resolver(cl)
    PROVE  AuditInv'
<1>1. /\ fase = "resolver" /\ fase' = "resolver" /\ cl \in clusters
      /\ clusters' = clusters \ {cl} /\ (Cerrado(cl) \/ ~Rota(cl))
      /\ UNCHANGED <<estate, empresa, senales, fallos, publicados>>
  BY DEF resolver
<1>2. Signalled' /\ Steady
  BY <1>1, Undisturbed
<1>3. Hallazgo(cl).cluster = cl
  BY DEF Hallazgo
<1>4. \/ /\ Motivo(cl) = "acusado" /\ hallazgos' = hallazgos \cup {Hallazgo(cl)} /\ pistas' = pistas
      \/ /\ Motivo(cl) # "acusado" /\ hallazgos' = hallazgos
         /\ pistas' = pistas \cup {[cluster |-> cl, motivo |-> Motivo(cl)]}
  BY DEF resolver
<1>5. Answered'
  <2>1. \/ Acusados' = Acusados \cup {cl} /\ Cerrados' = Cerrados
        \/ Acusados' = Acusados /\ Cerrados' = Cerrados \cup {cl}
    <3>1. CASE hallazgos' = hallazgos \cup {Hallazgo(cl)} /\ pistas' = pistas
      BY <1>3, <3>1 DEF Acusados, Cerrados
    <3>2. CASE /\ hallazgos' = hallazgos
               /\ pistas' = pistas \cup {[cluster |-> cl, motivo |-> Motivo(cl)]}
      <4> DEFINE nueva == [cluster |-> cl, motivo |-> Motivo(cl)]
      <4>1. nueva.cluster = cl /\ pistas' = pistas \cup {nueva}
        BY <3>2
      <4> HIDE DEF nueva
      <4> QED BY <3>2, <4>1 DEF Acusados, Cerrados
    <3> QED BY <1>4, <3>1, <3>2
  <2>2. clusters' \cup Decididos' = clusters \cup Decididos
    BY <1>1, <2>1 DEF Decididos
  <2>3. clusters \cup Decididos = Todos
    BY <1>1 DEF AuditInv, Answered
  <2> QED BY <1>1, <1>2, <2>2, <2>3 DEF Answered, Steady
<1>6. Motivo(cl) = "acusado" => ~Rota(cl)
  BY <1>1 DEF Motivo, Cerrado
<1>7. Explained'
  BY <1>2, <1>3, <1>4, <1>6 DEF AuditInv, Explained, Steady
<1>8. InOrder'
  BY <1>1, <1>4 DEF AuditInv, InOrder
<1>9. Refused'
  BY <1>1 DEF AuditInv, InOrder, Refused, Steady
<1> QED BY <1>2, <1>5, <1>7, <1>8, <1>9 DEF AuditInv

LEMMA CitationMissing ==
    ASSUME AuditInv, NEW cl, CitaInexistente(cl)
    PROVE  AuditInv'
<1> USE DEF CitaInexistente
<1>1. Signalled' /\ Steady
  BY Undisturbed
<1>2. Answered' /\ Explained' /\ InOrder'
  BY <1>1 DEF AuditInv, Answered, Explained, InOrder, Fases, Decididos, Acusados, Cerrados, Steady
<1>3. Refused'
  BY <1>1 DEF AuditInv, InOrder, Refused, Steady
<1> QED BY <1>1, <1>2, <1>3 DEF AuditInv

LEMMA AllDecided ==
    ASSUME AuditInv, Resueltos
    PROVE  AuditInv'
<1> USE DEF Resueltos
<1>1. Signalled' /\ Steady
  BY Undisturbed
<1>2. Answered' /\ Explained' /\ InOrder'
  BY <1>1 DEF AuditInv, Answered, Explained, InOrder, Fases, Decididos, Acusados, Cerrados, Steady
<1>3. Refused'
  BY <1>1 DEF AuditInv, InOrder, Refused, Steady
<1> QED BY <1>1, <1>2, <1>3 DEF AuditInv

LEMMA FindingTranslated ==
    ASSUME AuditInv, NEW h, traducir_finding(h)
    PROVE  AuditInv'
<1> USE DEF traducir_finding
<1>1. Signalled' /\ Steady
  <2>1. fase = "traducir" /\ fase' \in {"traducir", "error"}
    OBVIOUS
  <2> QED BY <2>1, Undisturbed
<1>2. Answered' /\ Explained'
  BY <1>1 DEF AuditInv, Answered, Explained, Decididos, Acusados, Cerrados, Steady
<1>3. InOrder'
  BY DEF AuditInv, InOrder, Fases
<1>4. Refused'
  BY SameChecks DEF AuditInv, Refused
<1> QED BY <1>1, <1>2, <1>3, <1>4 DEF AuditInv

LEMMA SubmissionBuilt ==
    ASSUME AuditInv, build_submission
    PROVE  AuditInv'
<1> USE DEF build_submission
<1>1. Signalled' /\ Steady
  BY Undisturbed
<1>2. Answered' /\ Explained' /\ InOrder'
  BY <1>1 DEF AuditInv, Answered, Explained, InOrder, Fases, Decididos, Acusados, Cerrados, Steady
<1>3. Refused'
  BY SameChecks DEF AuditInv, Refused
<1> QED BY <1>1, <1>2, <1>3 DEF AuditInv

LEMMA Validated ==
    ASSUME AuditInv, validar
    PROVE  AuditInv'
<1>1. /\ fase = "validar"
      /\ UNCHANGED <<estate, empresa, senales, fallos, clusters, hallazgos, pistas, publicados>>
  BY DEF validar
<1>2. PICK lee \in Lecturas :
          fase' = IF \A h \in publicados :
                        /\ h.entidades # {} /\ h.monto > 0
                        /\ Publicable([h EXCEPT !.exhibits = Leidos(h, lee)])
                  THEN "fin" ELSE "retenido"
  BY DEF validar
<1>3. fase' \in {"fin", "retenido"}
  BY <1>2
<1>4. Signalled' /\ Steady
  BY <1>1, <1>3, Undisturbed
<1>5. Answered' /\ Explained' /\ InOrder'
  BY <1>1, <1>3, <1>4 DEF AuditInv, Answered, Explained, InOrder, Fases, Decididos, Acusados, Cerrados, Steady
<1>6. Refused'
  <2>1. \A h \in publicados' : Publicable(h)'
    BY <1>1, SameChecks DEF AuditInv, Refused, Steady
  <2>2. ASSUME fase' = "retenido"
        PROVE  \E r \in Lecturas' : \E h \in publicados' : Falla(h, r)'
    <3>1. PICK h \in publicados : Falla(h, lee)
      BY <1>2, <2>2 DEF Falla
    <3>2. Falla(h, lee)'
      BY <1>1, <3>1, SameRefusals
    <3>3. lee \in Lecturas'
      BY <1>1, SameReadings
    <3> QED BY <1>1, <3>2, <3>3
  <2> QED BY <1>3, <2>1, <2>2 DEF Refused
<1> QED BY <1>4, <1>5, <1>6 DEF AuditInv

LEMMA AuditRests ==
    ASSUME AuditInv, UNCHANGED auditVars
    PROVE  AuditInv'
<1> USE DEF auditVars
<1>1. Signalled'
  BY SameSignals DEF AuditInv, Signalled
<1>2. Steady
  BY SameClusters, SameReasons DEF Steady
<1>3. Answered' /\ Explained' /\ InOrder'
  BY <1>2 DEF AuditInv, Answered, Explained, InOrder, Decididos, Acusados, Cerrados, Steady
<1>4. Refused'
  <2>1. \A h \in publicados' : Publicable(h)'
    BY SameChecks DEF AuditInv, Refused
  <2>2. fase' = "error" => \/ \E cl \in clusters' : ~Cerrado(cl)' /\ Rota(cl)'
                         \/ \E h \in hallazgos' : ~Publicable(h)'
    BY <1>2, SameChecks DEF AuditInv, Refused, Steady
  <2>3. ASSUME fase' = "retenido"
        PROVE  \E r \in Lecturas' : \E h \in publicados' : Falla(h, r)'
    <3>1. PICK r \in Lecturas, h \in publicados : Falla(h, r)
      BY <2>3 DEF AuditInv, Refused
    <3>2. Falla(h, r)'
      BY <3>1, SameRefusals
    <3>3. r \in Lecturas'
      BY SameReadings
    <3> QED BY <3>2, <3>3
  <2> QED BY <2>1, <2>2, <2>3 DEF Refused
<1> QED BY <1>1, <1>3, <1>4 DEF AuditInv

LEMMA AuditGoesOn ==
    ASSUME AuditInv, AuditNext
    PROVE  AuditInv'
<1>1. ASSUME NEW fallidas \in SUBSET Falibles, ejecutar_reglas(fallidas)
      PROVE  AuditInv'
  BY <1>1, RulesRun
<1>2. CASE agrupar
  BY <1>2, ClustersMade
<1>3. ASSUME NEW cl \in clusters, resolver(cl)
      PROVE  AuditInv'
  BY <1>3, ClusterDecided
<1>4. ASSUME NEW cl \in clusters, CitaInexistente(cl)
      PROVE  AuditInv'
  BY <1>4, CitationMissing
<1>5. CASE Resueltos
  BY <1>5, AllDecided
<1>6. ASSUME NEW h \in hallazgos, traducir_finding(h)
      PROVE  AuditInv'
  BY <1>6, FindingTranslated
<1>7. CASE build_submission
  BY <1>7, SubmissionBuilt
<1>8. CASE validar
  BY <1>8, Validated
<1> QED BY <1>1, <1>2, <1>3, <1>4, <1>5, <1>6, <1>7, <1>8 DEF AuditNext

\* The views leave the audit as it is.
LEMMA ViewsOnlyLook ==
    ASSUME ViewNext
    PROVE  AuditNext \/ UNCHANGED auditVars
BY DEF ViewNext, build_index, get_records, records_page

\* The audit and the case file keep to it, whatever is asked of the case file
\* and whenever (the sequence of pipeline.py, auditar_conexion).
THEOREM AuditInvariant == ViewSpec => []AuditInv
<1>1. ViewInit => AuditInv
  BY AuditBegins DEF ViewInit
<1>2. AuditInv /\ [ViewNext]_viewVars => AuditInv'
  <2>1. ASSUME AuditInv, ViewNext
        PROVE  AuditInv'
    BY <2>1, ViewsOnlyLook, AuditGoesOn, AuditRests
  <2>2. ASSUME AuditInv, UNCHANGED viewVars
        PROVE  AuditInv'
    BY <2>2, AuditRests DEF viewVars
  <2> QED BY <2>1, <2>2
<1> QED BY <1>1, <1>2, PTL DEF ViewSpec

-----------------------------------------------------------------------------
(* The signals and their clusters *)

DeFacturas == {"EFOS_DIRECT_MATCH", "EFOS_PRESUNTO_MATCH", "EFOS_POST_DATED",
               "VENDOR_SHORT_LIFECYCLE", "INVOICE_NO_PO_NO_CONTRACT"}

\* What each kind of rule says.
EsDeFactura(s) ==
    s.regla \in DeFacturas /\ \E i \in estate.invoices : s = DeFactura(s.regla, i)
EsCompartida(s) ==
    \E c \in Compartidas :
        s = Senal("SHARED_CLABE_MULTI_RFC", "presuntiva", c, "vendors", Min(Rfcs(c)),
                  Rfcs(c))
EsSalida(s) ==
    \E b \in estate.bank_txns : \E v \in estate.vendors :
        /\ b.destino = v.clabe /\ v.clabe # Nadie
        /\ s = Senal("OUTBOUND_TO_SUSPECT_ENTITY", "presuntiva", v.id, "bank_txns", b.id,
                     SinContexto)
EsPago(s) ==
    \E b \in estate.bank_txns : \E e \in estate.employees :
        /\ b.destino = e.clabe /\ e.clabe # Nadie
        /\ s = Senal("PAYMENT_TO_EMPLOYEE_ACCOUNT", "autosuficiente", e.id, "bank_txns", b.id,
                     [origen |-> b.origen, destino |-> b.destino])
EsOrden(s) ==
    \E o \in estate.purchase_orders :
        s = Senal("NO_SEGREGATION_OF_DUTIES", "autosuficiente", o.solicita, "purchase_orders",
                  o.id, o.rfc)

LEMMA SignalForms ==
    \A s \in Senales : EsDeFactura(s) \/ EsCompartida(s) \/ EsSalida(s) \/ EsPago(s) \/ EsOrden(s)
<1>1. \A r, i : DeFactura(r, i).regla = r
  BY DEF DeFactura, Senal
<1>2. \A s \in EFOS_DIRECT_MATCH \cup EFOS_PRESUNTO_MATCH \cup EFOS_POST_DATED : EsDeFactura(s)
  BY <1>1 DEF EFOS_DIRECT_MATCH, EFOS_PRESUNTO_MATCH, EFOS_POST_DATED, Emitidas, EsDeFactura, DeFacturas
<1>3. \A s \in VENDOR_SHORT_LIFECYCLE \cup INVOICE_NO_PO_NO_CONTRACT : EsDeFactura(s)
  BY <1>1 DEF VENDOR_SHORT_LIFECYCLE, INVOICE_NO_PO_NO_CONTRACT, Emitidas, EsDeFactura, DeFacturas
<1>4. \A s \in SHARED_CLABE_MULTI_RFC : EsCompartida(s)
  BY DEF SHARED_CLABE_MULTI_RFC, EsCompartida
<1>5. \A s \in OUTBOUND_TO_SUSPECT_ENTITY : EsSalida(s)
  BY DEF OUTBOUND_TO_SUSPECT_ENTITY, EsSalida
<1>6. \A s \in PAYMENT_TO_EMPLOYEE_ACCOUNT : EsPago(s)
  BY DEF PAYMENT_TO_EMPLOYEE_ACCOUNT, EsPago
<1>7. \A s \in NO_SEGREGATION_OF_DUTIES : EsOrden(s)
  BY DEF NO_SEGREGATION_OF_DUTIES, EsOrden
<1> QED BY <1>2, <1>3, <1>4, <1>5, <1>6, <1>7 DEF Senales

\* What follows for the engine.
LEMMA SignalSchemes ==
    ASSUME NEW s
    PROVE  /\ EsDeFactura(s) => s.regla \in DeFacturas /\ esquema_de(s) = "phantom_vendor"
           /\ EsCompartida(s) => /\ s.regla = "SHARED_CLABE_MULTI_RFC"
                                /\ esquema_de(s) = "phantom_vendor"
           /\ EsSalida(s) => /\ s.regla = "OUTBOUND_TO_SUSPECT_ENTITY"
                            /\ esquema_de(s) = "phantom_vendor"
           /\ EsPago(s) =>
                 /\ s.regla = "PAYMENT_TO_EMPLOYEE_ACCOUNT"
                 /\ esquema_de(s) = IF vendors_por_clabe(s.contexto.destino) # {}
                                    THEN "phantom_vendor" ELSE "kickback"
           /\ EsOrden(s) => s.regla = "NO_SEGREGATION_OF_DUTIES" /\ esquema_de(s) = "kickback"
<1>1. /\ \A r \in DeFacturas \cup {"SHARED_CLABE_MULTI_RFC", "OUTBOUND_TO_SUSPECT_ENTITY"} :
            RULE_TO_SCHEME[r] = "phantom_vendor"
      /\ \A r \in {"PAYMENT_TO_EMPLOYEE_ACCOUNT", "NO_SEGREGATION_OF_DUTIES"} :
            RULE_TO_SCHEME[r] = "kickback"
  BY DEF RULE_TO_SCHEME, Reglas, FAMILIA, DeKickback, DeFacturas
<1>2. EsDeFactura(s) => s.regla \in DeFacturas /\ esquema_de(s) = "phantom_vendor"
  BY <1>1 DEF EsDeFactura, esquema_de, DeFacturas
<1>3. EsCompartida(s) => s.regla = "SHARED_CLABE_MULTI_RFC" /\ esquema_de(s) = "phantom_vendor"
  BY <1>1 DEF EsCompartida, esquema_de, Senal
<1>4. EsSalida(s) => s.regla = "OUTBOUND_TO_SUSPECT_ENTITY" /\ esquema_de(s) = "phantom_vendor"
  BY <1>1 DEF EsSalida, esquema_de, Senal
<1>5. EsPago(s) => /\ s.regla = "PAYMENT_TO_EMPLOYEE_ACCOUNT"
                   /\ esquema_de(s) = IF vendors_por_clabe(s.contexto.destino) # {}
                                      THEN "phantom_vendor" ELSE "kickback"
  <2>1. EsPago(s) => s.regla = "PAYMENT_TO_EMPLOYEE_ACCOUNT"
    BY DEF EsPago, Senal
  <2> QED BY <1>1, <2>1 DEF esquema_de
<1>6. EsOrden(s) => s.regla = "NO_SEGREGATION_OF_DUTIES" /\ esquema_de(s) = "kickback"
  BY <1>1 DEF EsOrden, esquema_de, Senal
<1> QED BY <1>2, <1>3, <1>4, <1>5, <1>6

LEMMA SchemesKnown == \A s \in Senales : esquema_de(s) \in Esquemas
BY SignalForms, SignalSchemes DEF Esquemas

Juntas(esquema) == {llaves(s) : s \in DelEsquema(esquema)}
Grupo(esquema, S) ==
    [esquema |-> esquema, senales |-> {s \in DelEsquema(esquema) : llaves(s) \subseteq S}]

LEMMA ClustersAre ==
    \A esquema : Clusters(esquema) = {Grupo(esquema, S) : S \in Minimal(Juntas(esquema))}
BY DEF Clusters, Juntas, Grupo, Minimal, Closed

LEMMA KeysAreMany == \A s : llaves(s) # {}
BY DEF llaves

\* Two signals of a cluster, or of clusters that have a key in common: what is
\* in a component touches nothing else.
LEMMA Joined ==
    ASSUME NEW esquema, NEW S \in Minimal(Juntas(esquema)), NEW s \in DelEsquema(esquema)
    PROVE  llaves(s) \subseteq S \/ llaves(s) \cap S = {}
BY DEF Minimal, Closed, Juntas

LEMMA OneCluster ==
    ASSUME senales \subseteq Senales, NEW s \in senales
    PROVE  \E cl \in Todos : /\ s \in cl.senales
                            /\ \A cm \in Todos : s \in cm.senales => cm = cl
<1> DEFINE esquema == esquema_de(s)
<1>1. esquema \in Esquemas /\ s \in DelEsquema(esquema)
  BY SchemesKnown DEF DelEsquema
<1>2. PICK S \in Minimal(Juntas(esquema)) : llaves(s) \subseteq S
  <2>1. llaves(s) \in Juntas(esquema) /\ llaves(s) # {}
    BY <1>1, KeysAreMany DEF Juntas
  <2> QED BY <2>1, ComponentsCover
<1>3. Grupo(esquema, S) \in Todos /\ s \in Grupo(esquema, S).senales
  BY <1>1, <1>2, ClustersAre DEF Todos, Grupo
<1>4. ASSUME NEW cm \in Todos, s \in cm.senales
      PROVE  cm = Grupo(esquema, S)
  <2>1. PICK e \in Esquemas : cm \in Clusters(e)
    BY DEF Todos
  <2>2. PICK T \in Minimal(Juntas(e)) : cm = Grupo(e, T)
    BY <2>1, ClustersAre
  <2>3. s \in DelEsquema(e) /\ llaves(s) \subseteq T
    BY <1>4, <2>2 DEF Grupo
  <2>4. e = esquema
    BY <2>3 DEF DelEsquema
  <2>5. S \cap T # {}
    BY <1>2, <2>3, KeysAreMany
  <2> QED BY <1>2, <2>2, <2>4, <2>5, ComponentsAreApart
<1> QED BY <1>3, <1>4

\* Every signal is in one finding or in one lead when the submission is out
\* (ensamblador.py, agrupar and resolver), for any estate and any signals.
THEOREM SignalsAnswered == ViewSpec => []EverySignalIsAnswered
<1>1. AuditInv => EverySignalIsAnswered
  <2> SUFFICES ASSUME AuditInv, fase = "fin", NEW s \in senales
               PROVE  Cardinality({h \in publicados : s \in h.cluster.senales})
                        + Cardinality({p \in pistas : s \in p.cluster.senales}) = 1
    BY DEF EverySignalIsAnswered
  <2> DEFINE H == {h \in publicados : s \in h.cluster.senales}
             P == {p \in pistas : s \in p.cluster.senales}
  <2>1. senales \subseteq Senales
    BY DEF AuditInv, Signalled
  <2>2. publicados = hallazgos /\ Decididos = Todos
    BY DEF AuditInv, Answered, InOrder
  <2>3. PICK cl \in Todos : s \in cl.senales /\ \A cm \in Todos : s \in cm.senales => cm = cl
    BY <2>1, OneCluster
  <2>4. /\ \A h \in hallazgos : h.cluster \in Todos /\ h = Hallazgo(h.cluster)
                                /\ Motivo(h.cluster) = "acusado"
        /\ \A p \in pistas : p.cluster \in Todos /\ Motivo(p.cluster) # "acusado"
                             /\ p = [cluster |-> p.cluster, motivo |-> Motivo(p.cluster)]
    BY <2>2 DEF AuditInv, Explained, Decididos, Acusados, Cerrados
  <2>5. CASE cl \in Acusados
    <3>1. PICK h \in hallazgos : h.cluster = cl
      BY <2>5 DEF Acusados
    <3>2. H = {h} /\ P = {}
      BY <2>2, <2>3, <2>4, <3>1
    <3>3. Cardinality(H) = 1 /\ Cardinality(P) = 0
      BY <3>2, FS_Singleton, FS_EmptySet
    <3> QED BY <3>3
  <2>6. CASE cl \in Cerrados
    <3>1. PICK p \in pistas : p.cluster = cl
      BY <2>6 DEF Cerrados
    <3>2. H = {} /\ P = {p}
      BY <2>2, <2>3, <2>4, <3>1
    <3>3. Cardinality(H) = 0 /\ Cardinality(P) = 1
      BY <3>2, FS_Singleton, FS_EmptySet
    <3> QED BY <3>3
  <2> QED BY <2>2, <2>5, <2>6 DEF Decididos
<1> QED BY <1>1, AuditInvariant, PTL

-----------------------------------------------------------------------------
(* Whom the entities and the keys stand for *)

LEMMA OfRfc ==
    ASSUME NEW r
    PROVE  /\ \A e \in Rfc(r) : e.tipo \in {"rfc", "empresa"} /\ e.canonico = r
           /\ \A e \in Rfc(r) : e.tipo = "rfc" => r # Nadie /\ r \notin empresa.rfc
           /\ r # Nadie /\ r \notin empresa.rfc => Rfc(r) = {Entidad("rfc", r)}
BY DEF Rfc, Entidad

LEMMA OfEmpleado ==
    ASSUME NEW id
    PROVE  /\ Empleado(id) \subseteq {Entidad("employee", id)}
           /\ id # Nadie => Empleado(id) = {Entidad("employee", id)}
BY DEF Empleado

LEMMA OfClabe ==
    ASSUME NEW c
    PROVE  /\ \A e \in Clabe(c) : e.tipo \in {"rfc", "employee"} => c # Nadie /\ c \notin empresa.clabes
           /\ \A e \in Clabe(c) : e.tipo = "rfc" =>
                 \E v \in vendors_por_clabe(c) : v.id = e.canonico /\ e \in Rfc(v.id)
           /\ \A e \in Clabe(c) : e.tipo = "employee" =>
                 \E v \in employees_por_clabe(c) : v.id = e.canonico
           /\ c # Nadie /\ c \notin empresa.clabes =>
                 /\ \A v \in vendors_por_clabe(c) : Rfc(v.id) \subseteq Clabe(c)
                 /\ \A e \in employees_por_clabe(c) : Empleado(e.id) \subseteq Clabe(c)
<1> DEFINE duenos == Duenos(c)
<1>1. \A e \in duenos :
          \/ /\ e.tipo \in {"rfc", "empresa"}
             /\ \E v \in vendors_por_clabe(c) : v.id = e.canonico /\ e \in Rfc(v.id)
          \/ e.tipo = "employee" /\ \E v \in employees_por_clabe(c) : v.id = e.canonico
  <2> TAKE e \in duenos
  <2>1. \/ \E v \in vendors_por_clabe(c) : e \in Rfc(v.id)
        \/ \E v \in employees_por_clabe(c) : e \in Empleado(v.id)
    BY DEF Duenos
  <2>2. CASE \E v \in vendors_por_clabe(c) : e \in Rfc(v.id)
    BY <2>2, OfRfc
  <2>3. CASE \E v \in employees_por_clabe(c) : e \in Empleado(v.id)
    BY <2>3, OfEmpleado DEF Entidad
  <2> HIDE DEF duenos
  <2> QED BY <2>1, <2>2, <2>3
<1>2. /\ c = Nadie => Clabe(c) = {}
      /\ c # Nadie /\ c \in empresa.clabes => \A e \in Clabe(c) : e.tipo = "empresa"
      /\ c # Nadie /\ c \notin empresa.clabes =>
            Clabe(c) = IF duenos = {} THEN {Entidad("clabe", c)} ELSE duenos
  BY DEF Clabe, Entidad
<1>3. \A e \in {Entidad("clabe", c)} : e.tipo = "clabe"
  BY DEF Entidad
<1>4. /\ \A v \in vendors_por_clabe(c) : Rfc(v.id) \subseteq duenos
      /\ \A e \in employees_por_clabe(c) : Empleado(e.id) \subseteq duenos
  BY DEF Duenos
<1> HIDE DEF duenos
<1> QED BY <1>1, <1>2, <1>3, <1>4

\* The key of an entity that is not the company.
LEMMA KeyOfEntity ==
    ASSUME NEW s, NEW e \in de_senal(s), e.tipo # "empresa"
    PROVE  <<e.tipo, e.canonico>> \in llaves(s)
BY DEF llaves

LEMMA EntityOfKey ==
    ASSUME NEW s, NEW t \in {"rfc", "employee"}, NEW x, <<t, x>> \in llaves(s)
    PROVE  \E e \in de_senal(s) : e.tipo = t /\ e.canonico = x
<1> DEFINE otras == {e \in de_senal(s) : e.tipo # "empresa"}
<1>1. <<t, x>> # <<"sin_entidad", s.regla, s.id>>
  OBVIOUS
<1>2. <<t, x>> \in {<<e.tipo, e.canonico>> : e \in otras}
  BY <1>1 DEF llaves
<1>3. PICK e \in otras : <<t, x>> = <<e.tipo, e.canonico>>
  BY <1>2
<1> QED BY <1>3

-----------------------------------------------------------------------------
(* Decoys *)

\* Nothing but its own signals touches the key of an honest vendor.
LEMMA HonestAlone ==
    ASSUME senales \subseteq Senales, NEW v \in estate.vendors, Honesto(v),
           NEW s \in DelEsquema("phantom_vendor"), <<"rfc", v.id>> \in llaves(s)
    PROVE  /\ s.regla # "SHARED_CLABE_MULTI_RFC"
           /\ llaves(s) = {<<"rfc", v.id>>}
<1>1. s \in Senales /\ esquema_de(s) = "phantom_vendor"
  BY DEF DelEsquema
<1>2. PICK e \in de_senal(s) : e.tipo = "rfc" /\ e.canonico = v.id
  BY EntityOfKey
<1>3. ASSUME NEW w \in estate.vendors, w.id = v.id, w.clabe # Nadie
      PROVE  /\ Rfcs(w.clabe) = {v.id}
             /\ employees_por_clabe(w.clabe) = {}
             /\ \A b \in estate.bank_txns : b.origen = w.clabe /\ b.destino # Nadie =>
                  employees_por_clabe(b.destino) = {}
  BY <1>3 DEF Honesto, vendors_por_rfc
<1>4. ASSUME NEW r, de_senal(s) = Rfc(r)
      PROVE  llaves(s) = {<<"rfc", v.id>>}
  <2>1. r = v.id /\ r # Nadie /\ r \notin empresa.rfc
    BY <1>2, <1>4, OfRfc
  <2>2. de_senal(s) = {Entidad("rfc", v.id)}
    BY <1>4, <2>1, OfRfc
  <2> QED BY <2>2 DEF llaves, Entidad
<1>5. CASE EsDeFactura(s)
  <2>1. s.regla \in DeFacturas
    BY <1>5, SignalSchemes
  <2>2. de_senal(s) = Rfc(s.entidad) /\ s.regla # "SHARED_CLABE_MULTI_RFC"
    BY <2>1 DEF de_senal, DeFacturas
  <2> QED BY <1>4, <2>2
<1>6. CASE EsSalida(s)
  <2>1. s.regla = "OUTBOUND_TO_SUSPECT_ENTITY"
    BY <1>6, SignalSchemes
  <2>2. de_senal(s) = Rfc(s.entidad)
    BY <2>1 DEF de_senal
  <2> QED BY <1>4, <2>1, <2>2
<1>7. CASE EsCompartida(s)
  <2>1. PICK c \in Compartidas : s.contexto = Rfcs(c) /\ s.regla = "SHARED_CLABE_MULTI_RFC"
    BY <1>7 DEF EsCompartida, Senal
  <2>2. PICK r \in Rfcs(c) : e \in Rfc(r)
    BY <1>2, <2>1 DEF de_senal
  <2>3. v.id \in Rfcs(c)
    BY <1>2, <2>2, OfRfc
  <2>4. PICK w \in estate.vendors : w.clabe = c /\ w.id = v.id
    BY <2>3 DEF Rfcs, vendors_por_clabe
  <2>5. c # Nadie /\ Cardinality(Rfcs(c)) > 1
    BY DEF Compartidas
  <2>6. Cardinality(Rfcs(c)) = 1
    BY <1>3, <2>4, <2>5, FS_Singleton
  <2> QED BY <2>5, <2>6
<1>8. CASE EsPago(s)
  <2>1. PICK b \in estate.bank_txns, m \in estate.employees :
            /\ b.destino = m.clabe /\ m.clabe # Nadie /\ s.regla = "PAYMENT_TO_EMPLOYEE_ACCOUNT"
            /\ s.contexto = [origen |-> b.origen, destino |-> b.destino]
    BY <1>8 DEF EsPago, Senal
  <2>2. m \in employees_por_clabe(b.destino)
    BY <2>1 DEF employees_por_clabe
  <2>3. e \in Empleado(s.entidad) \cup Clabe(b.destino) \cup Clabe(b.origen)
    BY <1>2, <2>1 DEF de_senal
  <2>4. e \notin Empleado(s.entidad)
    BY <1>2, OfEmpleado DEF Entidad
  <2>5. CASE e \in Clabe(b.destino)
    <3>1. PICK w \in vendors_por_clabe(b.destino) : w.id = v.id
      BY <1>2, <2>5, OfClabe
    <3> QED BY <1>3, <2>1, <2>2, <3>1 DEF vendors_por_clabe
  <2>6. CASE e \in Clabe(b.origen)
    <3>1. b.origen # Nadie
      BY <1>2, <2>6, OfClabe
    <3>2. PICK w \in vendors_por_clabe(b.origen) : w.id = v.id
      BY <1>2, <2>6, OfClabe
    <3> QED BY <1>3, <2>1, <2>2, <3>1, <3>2 DEF vendors_por_clabe
  <2> QED BY <2>3, <2>4, <2>5, <2>6
<1>9. ~EsOrden(s)
  BY <1>1, SignalSchemes
<1> QED BY <1>1, <1>5, <1>6, <1>7, <1>8, <1>9, SignalForms

\* A finding is about a cluster of its scheme, which was not let go.
LEMMA FindingsOf ==
    ASSUME AuditInv, NEW h \in hallazgos
    PROVE  /\ h = Hallazgo(h.cluster) /\ h.entidades = acusables(h.cluster)
           /\ h.esquema = h.cluster.esquema /\ h.exhibits = exhibits(h.cluster)
           /\ ~Rota(h.cluster) /\ Motivo(h.cluster) = "acusado"
           /\ ~SinAcusados(h.cluster) /\ ~Exculpado(h.cluster)
           /\ h.esquema \in Esquemas
           /\ \E S \in Minimal(Juntas(h.esquema)) : h.cluster = Grupo(h.esquema, S)
           /\ senales = {s \in Senales : s.regla \notin fallos}
           /\ empresa = [rfc |-> _empresa_rfc, clabes |-> _empresa_clabes]
<1> DEFINE cl == h.cluster
<1>1. h = Hallazgo(cl) /\ Motivo(cl) = "acusado" /\ ~Rota(cl)
  BY DEF AuditInv, Explained
<1>2. h.entidades = acusables(cl) /\ h.esquema = cl.esquema /\ h.exhibits = exhibits(cl)
  <2>1. /\ Hallazgo(cl).entidades = acusables(cl) /\ Hallazgo(cl).esquema = cl.esquema
        /\ Hallazgo(cl).exhibits = exhibits(cl)
    BY DEF Hallazgo
  <2> QED BY <1>1, <2>1
<1>3. ~SinAcusados(cl) /\ ~Exculpado(cl)
  BY <1>1 DEF Motivo
<1>4. fase \notin {"reglas", "agrupar"} /\ cl \in Todos
  BY DEF AuditInv, Answered, Decididos, Acusados
<1>5. PICK esquema \in Esquemas : cl \in Clusters(esquema)
  BY <1>4 DEF Todos
<1>6. PICK S \in Minimal(Juntas(esquema)) : cl = Grupo(esquema, S)
  BY <1>5, ClustersAre
<1>8. cl.esquema = esquema
  BY <1>6 DEF Grupo
<1>7. /\ senales = {s \in Senales : s.regla \notin fallos}
      /\ empresa = [rfc |-> _empresa_rfc, clabes |-> _empresa_clabes]
  BY <1>4 DEF AuditInv, Signalled
<1> QED BY <1>1, <1>2, <1>3, <1>5, <1>6, <1>7, <1>8

\* Who has documents and an account of its own is accused of no phantom
\* (ensamblador.py, _materialidad), whatever rules fail.
THEOREM DecoysSpared == ViewSpec => []DecoysAreSpared
<1>1. AuditInv => DecoysAreSpared
  <2> SUFFICES ASSUME AuditInv, NEW h \in hallazgos, NEW v \in estate.vendors,
                      h.esquema = "phantom_vendor", Entidad("rfc", v.id) \in h.entidades, Honesto(v)
               PROVE  FALSE
    BY DEF DecoysAreSpared
  <2> DEFINE cl == h.cluster
             k == <<"rfc", v.id>>
             J == Juntas("phantom_vendor")
  <2>1. PICK S \in Minimal(J) : cl = Grupo("phantom_vendor", S)
    BY FindingsOf
  <2>2. senales \subseteq Senales
    BY FindingsOf
  <2>3. /\ cl.senales = {s \in DelEsquema("phantom_vendor") : llaves(s) \subseteq S}
        /\ cl.esquema = "phantom_vendor"
    BY <2>1 DEF Grupo
  <2>4. \A s \in DelEsquema("phantom_vendor") :
            k \in llaves(s) => s.regla # "SHARED_CLABE_MULTI_RFC" /\ llaves(s) = {k}
    BY <2>2, HonestAlone
  <2>5. PICK s \in cl.senales : Entidad("rfc", v.id) \in de_senal(s)
    BY FindingsOf DEF acusables, entidades
  <2>6. k \in llaves(s)
    BY <2>5, KeyOfEntity DEF Entidad
  <2>7. k \in S
    BY <2>3, <2>5, <2>6
  <2>8. S = {k}
    <3>1. \A j \in J : j \subseteq {k} \/ j \cap {k} = {}
      BY <2>4 DEF Juntas
    <3>2. {k} \in Closed(J)
      BY <2>7, <3>1 DEF Minimal, Closed
    <3> QED BY <2>7, <3>2 DEF Minimal
  <2>9. \A r \in cl.senales : r.regla # "SHARED_CLABE_MULTI_RFC" /\ llaves(r) = {k}
    BY <2>3, <2>4, <2>8, KeysAreMany
  <2>10. "cuenta_compartida" \notin familias(cl)
    <3>1. \A r \in cl.senales : r.regla \in Reglas
      <4>1. \A r \in cl.senales : r \in Senales
        BY <2>2, <2>3 DEF DelEsquema
      <4> QED BY <4>1, SignalForms, SignalSchemes DEF Reglas, FAMILIA, DeFacturas
    <3>2. \A r \in Reglas : r # "SHARED_CLABE_MULTI_RFC" => "cuenta_compartida" \notin FAMILIA[r]
      BY DEF Reglas, FAMILIA
    <3> QED BY <2>9, <3>1, <3>2 DEF familias, reglas
  <2>11. materialidad(cl)
    <3>1. ASSUME NEW e \in acusables(cl)
          PROVE  e.tipo = "rfc" /\ e.canonico = v.id
      <4>1. PICK r \in cl.senales : e \in de_senal(r) /\ e.tipo \in {"rfc", "employee"}
        BY DEF acusables, entidades, TIPOS_ACUSABLES
      <4>2. <<e.tipo, e.canonico>> = k
        <5>1. <<e.tipo, e.canonico>> \in llaves(r)
          BY <4>1, KeyOfEntity
        <5> QED BY <2>9, <5>1
      <4> QED BY <4>2
    <3>2. Documentado(Entidad("rfc", v.id))
      BY DEF Honesto
    <3> QED BY <3>1, <3>2 DEF materialidad, Documentado, Entidad
  <2>12. ~Exculpado(cl)
    BY FindingsOf
  <2> QED BY <2>3, <2>10, <2>11, <2>12 DEF Exculpado
<1> QED BY <1>1, AuditInvariant, PTL

-----------------------------------------------------------------------------
(* Money *)

\* Where a signal cites an invoice or a transfer: only as its own record.
LEMMA CitedBySignal ==
    ASSUME NEW s \in Senales, NEW t \in {"invoices", "bank_txns"}, NEW id, <<t, id>> \in citar_senal(s)
    PROVE  /\ s.id = id
           /\ t = "invoices" => EsDeFactura(s)
           /\ t = "bank_txns" => EsSalida(s) \/ EsPago(s)
<1>1. s.tabla = t /\ s.id = id /\ s.regla # "SHARED_CLABE_MULTI_RFC"
  BY DEF citar_senal
<1>2. EsDeFactura(s) => s.tabla = "invoices"
  BY DEF EsDeFactura, DeFactura, Senal
<1>3. EsSalida(s) \/ EsPago(s) => s.tabla = "bank_txns"
  BY DEF EsSalida, EsPago, Senal
<1>4. EsOrden(s) => s.tabla = "purchase_orders"
  BY DEF EsOrden, Senal
<1> QED BY <1>1, <1>2, <1>3, <1>4, SignalForms, SignalSchemes

LEMMA CitationsOf ==
    ASSUME NEW cl, NEW c \in citas(cl)
    PROVE  \/ \E s \in cl.senales : c \in citar_senal(s)
           \/ \E e \in acusables(cl) : e.tipo = "rfc" /\ c \in DeProveedor(cl.esquema, e.canonico)
           \/ \E e \in acusables(cl) : c \in DeEmpleado(e.canonico)
<1>1. \/ \E s \in cl.senales : c \in citar_senal(s)
      \/ \E e \in acusables(cl) : c \in DeAcusado(cl.esquema, e)
  BY DEF citas, agregar
<1> QED BY <1>1 DEF DeAcusado

LEMMA CitationsArePairs ==
    ASSUME NEW cl, NEW c \in citas(cl)
    PROVE  c = <<c[1], c[2]>>
<1>1. \A s : c \in citar_senal(s) => c = <<c[1], c[2]>>
  BY DEF citar_senal
<1>2. \A q, r : c \in DeProveedor(q, r) => c = <<c[1], c[2]>>
  BY DEF DeProveedor
<1>3. \A x : c \in DeEmpleado(x) => c = <<c[1], c[2]>>
  BY DEF DeEmpleado
<1> QED BY <1>1, <1>2, <1>3, CitationsOf

\* Where a cluster cites one: for a signal of its own, or for a vendor that it
\* accuses, of the account or the invoices of that vendor.
LEMMA CitedByCluster ==
    ASSUME NEW cl, cl.senales \subseteq Senales, NEW t \in {"invoices", "bank_txns"}, NEW id,
           <<t, id>> \in citas(cl)
    PROVE  \/ \E s \in cl.senales : <<t, id>> \in citar_senal(s)
           \/ /\ cl.esquema = "phantom_vendor"
              /\ \E e \in acusables(cl) :
                    /\ e.tipo = "rfc"
                    /\ \/ t = "invoices" /\ \E i \in facturas_emitidas_por(e.canonico) : i.id = id
                       \/ /\ t = "bank_txns"
                          /\ \E v \in vendors_por_rfc(e.canonico) :
                                v.clabe # Nadie /\ \E b \in pagos_a_clabe(v.clabe) : b.id = id
<1>1. \/ \E s \in cl.senales : <<t, id>> \in citar_senal(s)
      \/ \E e \in acusables(cl) : /\ e.tipo = "rfc"
                                  /\ <<t, id>> \in DeProveedor(cl.esquema, e.canonico)
      \/ \E e \in acusables(cl) : <<t, id>> \in DeEmpleado(e.canonico)
  BY CitationsOf
<1>2. \A x : <<t, id>> \notin DeEmpleado(x)
  BY DEF DeEmpleado
<1>3. ASSUME NEW r, <<t, id>> \in DeProveedor(cl.esquema, r)
      PROVE  /\ cl.esquema = "phantom_vendor"
             /\ \/ t = "invoices" /\ \E i \in facturas_emitidas_por(r) : i.id = id
                \/ /\ t = "bank_txns"
                   /\ \E v \in vendors_por_rfc(r) :
                         v.clabe # Nadie /\ \E b \in pagos_a_clabe(v.clabe) : b.id = id
  <2> DEFINE pagos == UNION {pagos_a_clabe(v.clabe) : v \in {v \in vendors_por_rfc(r) : v.clabe # Nadie}}
  <2>1. /\ cl.esquema = "phantom_vendor"
        /\ \/ <<t, id>> \in {<<"invoices", i.id>> : i \in facturas_emitidas_por(r)}
           \/ <<t, id>> \in {<<"bank_txns", b.id>> : b \in pagos}
    <3> HIDE DEF pagos
    <3>1. <<t, id>> \notin {<<"vendors", r>>} /\ <<t, id>> \notin {<<"efos_list", r>>}
      OBVIOUS
    <3>2. <<t, id>> \in IF cl.esquema = "phantom_vendor"
                        THEN {<<"invoices", i.id>> : i \in facturas_emitidas_por(r)}
                                 \cup {<<"bank_txns", b.id>> : b \in pagos}
                        ELSE {}
      BY <1>3, <3>1 DEF DeProveedor, pagos
    <3> QED BY <3>2
  <2>2. \A b \in pagos : \E v \in vendors_por_rfc(r) : v.clabe # Nadie /\ b \in pagos_a_clabe(v.clabe)
    OBVIOUS
  <2> HIDE DEF pagos
  <2> QED BY <2>1, <2>2
<1> QED BY <1>1, <1>2, <1>3

\* An exhibit is a row of the estate that is cited.
LEMMA ExhibitsCite ==
    ASSUME NEW cl, ~Rota(cl), NEW ex \in exhibits(cl)
    PROVE  /\ ex.fila \in estate[ex.tabla]
           /\ <<ex.tabla, ex.fila.id>> \in citas(cl)
           /\ ex = [tabla |-> ex.tabla, fila |-> ex.fila]
<1>1. PICK c \in citas(cl) :
          ex = [tabla |-> c[1], fila |-> CHOOSE f \in registro(c[1], c[2]) : TRUE]
  BY DEF exhibits
<1>2. ex.tabla = c[1] /\ ex.fila \in registro(c[1], c[2])
  BY <1>1 DEF Rota
<1>3. ex.fila \in estate[ex.tabla] /\ ex.fila.id = c[2]
  BY <1>2 DEF registro
<1>4. c = <<c[1], c[2]>>
  BY CitationsArePairs
<1> QED BY <1>1, <1>2, <1>3, <1>4

\* In a cluster that accuses someone, no signal is about the company alone.
LEMMA NoneAlone ==
    ASSUME NEW esquema, NEW S \in Minimal(Juntas(esquema)), acusables(Grupo(esquema, S)) # {},
           NEW s \in Grupo(esquema, S).senales
    PROVE  \E e \in de_senal(s) : e.tipo # "empresa"
<1> SUFFICES ASSUME \A e \in de_senal(s) : e.tipo = "empresa"
             PROVE  FALSE
  OBVIOUS
<1> DEFINE x == <<"sin_entidad", s.regla, s.id>>
           J == Juntas(esquema)
<1>1. llaves(s) = {x}
  BY DEF llaves
<1>2. \A r : x \in llaves(r) => llaves(r) = {x} /\ \A e \in de_senal(r) : e.tipo = "empresa"
  <2> TAKE r
  <2>1. \A a, b : <<a, b>> # x
    OBVIOUS
  <2> DEFINE otras == {e \in de_senal(r) : e.tipo # "empresa"}
  <2>2. x \notin {<<e.tipo, e.canonico>> : e \in otras}
    BY <2>1
  <2>3. llaves(r) = IF otras = {} THEN {<<"sin_entidad", r.regla, r.id>>}
                                  ELSE {<<e.tipo, e.canonico>> : e \in otras}
    BY DEF llaves
  <2>4. x \in llaves(r) => otras = {} /\ x = <<"sin_entidad", r.regla, r.id>>
    <3> HIDE DEF otras, x
    <3> QED BY <2>2, <2>3
  <2> HIDE DEF x
  <2>5. x \in llaves(r) => llaves(r) = {x}
    BY <2>3, <2>4
  <2> QED BY <2>4, <2>5
<1> HIDE DEF x
<1>3. x \in S
  BY <1>1 DEF Grupo
<1>4. S = {x}
  <2>1. \A j \in J : j \subseteq {x} \/ j \cap {x} = {}
    BY <1>2 DEF Juntas
  <2>2. {x} \in Closed(J)
    BY <1>3, <2>1 DEF Minimal, Closed
  <2> QED BY <1>3, <2>2 DEF Minimal
<1>5. \A r \in Grupo(esquema, S).senales : \A e \in de_senal(r) : e.tipo = "empresa"
  BY <1>2, <1>4, KeysAreMany DEF Grupo
<1> QED BY <1>5 DEF acusables, entidades, TIPOS_ACUSABLES

LEMMA RfcEntity ==
    ASSUME NEW s, NEW e \in de_senal(s), e.tipo = "rfc"
    PROVE  e \in Rfc(e.canonico)
<1>1. \A r : e \in Rfc(r) => e \in Rfc(e.canonico)
  BY OfRfc
<1>2. \A c : e \in Clabe(c) => e \in Rfc(e.canonico)
  BY OfClabe
<1>3. \A x : e \notin Empleado(x) /\ e \notin Persona(x)
  BY DEF Empleado, Persona, Entidad
<1>4. s.regla = "SHARED_CLABE_MULTI_RFC" => \E r : e \in Rfc(r)
  BY DEF de_senal
<1>5. s.regla # "SHARED_CLABE_MULTI_RFC" =>
          (\E r : e \in Rfc(r)) \/ (\E c : e \in Clabe(c))
                                \/ (\E x : e \in Empleado(x) \/ e \in Persona(x))
  BY DEF de_senal
<1> QED BY <1>1, <1>2, <1>3, <1>4, <1>5

\* The keys of the accused are in the component.
LEMMA AccusedKey ==
    ASSUME NEW esquema, NEW S, NEW e \in acusables(Grupo(esquema, S))
    PROVE  <<e.tipo, e.canonico>> \in S
<1>1. PICK s \in Grupo(esquema, S).senales : e \in de_senal(s) /\ e.tipo # "empresa"
  BY DEF acusables, entidades, TIPOS_ACUSABLES
<1>2. <<e.tipo, e.canonico>> \in llaves(s)
  BY <1>1, KeyOfEntity
<1> QED BY <1>2 DEF Grupo

\* The accounts of the vendors that are the company are accounts of the company.
LEMMA CompanyAccounts ==
    ASSUME empresa = [rfc |-> _empresa_rfc, clabes |-> _empresa_clabes],
           NEW v \in estate.vendors, v.id \in empresa.rfc
    PROVE  v.clabe = Nadie \/ v.clabe \in empresa.clabes
BY DEF _empresa_clabes

\* An invoice is cited where its issuer is accused.
LEMMA InvoiceCited ==
    ASSUME NEW esquema, NEW S \in Minimal(Juntas(esquema)), senales \subseteq Senales,
           acusables(Grupo(esquema, S)) # {},
           NEW i \in estate.invoices, \A f \in estate.invoices : f.id = i.id => f = i,
           <<"invoices", i.id>> \in citas(Grupo(esquema, S))
    PROVE  esquema = "phantom_vendor" /\ <<"rfc", i.emisor>> \in S
<1> DEFINE cl == Grupo(esquema, S)
<1>1. /\ cl.esquema = esquema
      /\ cl.senales = {s \in DelEsquema(esquema) : llaves(s) \subseteq S}
      /\ cl.senales \subseteq Senales
  BY DEF Grupo, DelEsquema
<1>2. \/ \E s \in cl.senales : <<"invoices", i.id>> \in citar_senal(s)
      \/ /\ cl.esquema = "phantom_vendor"
         /\ \E e \in acusables(cl) :
               e.tipo = "rfc" /\ \E f \in facturas_emitidas_por(e.canonico) : f.id = i.id
  BY <1>1, CitedByCluster
<1>3. ASSUME NEW s \in cl.senales, <<"invoices", i.id>> \in citar_senal(s)
      PROVE  esquema = "phantom_vendor" /\ <<"rfc", i.emisor>> \in S
  <2>1. s \in Senales /\ s \in DelEsquema(esquema) /\ esquema_de(s) = esquema /\ llaves(s) \subseteq S
    BY <1>1 DEF DelEsquema
  <2>2. EsDeFactura(s) /\ s.id = i.id
    BY <1>3, <2>1, CitedBySignal
  <2>3. PICK f \in estate.invoices : s = DeFactura(s.regla, f)
    BY <2>2 DEF EsDeFactura
  <2>4. s.id = f.id /\ s.entidad = f.emisor
    <3> DEFINE r == s.regla
    <3>1. DeFactura(r, f).id = f.id /\ DeFactura(r, f).entidad = f.emisor
      BY DEF DeFactura, Senal
    <3> QED BY <2>3, <3>1
  <2>5. f = i
    BY <2>2, <2>4
  <2>6. s.regla \in DeFacturas /\ esquema_de(s) = "phantom_vendor"
    BY <2>2, SignalSchemes
  <2>7. de_senal(s) = Rfc(i.emisor)
    BY <2>4, <2>5, <2>6 DEF de_senal, DeFacturas
  <2>8. PICK e \in de_senal(s) : e.tipo # "empresa"
    BY NoneAlone
  <2>9. e.tipo = "rfc" /\ e.canonico = i.emisor
    BY <2>7, <2>8, OfRfc
  <2>10. <<e.tipo, e.canonico>> \in llaves(s)
    BY <2>8, KeyOfEntity
  <2> QED BY <2>1, <2>6, <2>9, <2>10
<1>4. ASSUME NEW e \in acusables(cl), e.tipo = "rfc",
             NEW f \in facturas_emitidas_por(e.canonico), f.id = i.id
      PROVE  <<"rfc", i.emisor>> \in S
  <2>1. f = i /\ i.emisor = e.canonico
    BY <1>4 DEF facturas_emitidas_por
  <2> QED BY <1>1, <1>4, <2>1, AccusedKey
<1> QED BY <1>1, <1>2, <1>3, <1>4

\* A component holds the keys of the entities.
Tiene(S, E) == \A e \in E : <<e.tipo, e.canonico>> \in S

UnDueno(d, S) == \E v \in vendors_por_clabe(d) : Rfc(v.id) # {} /\ Tiene(S, Rfc(v.id))

\* The signal of a transfer to an employee whose id is blank.
PagoSinNombre(b) ==
    Senal("PAYMENT_TO_EMPLOYEE_ACCOUNT", "autosuficiente", Nadie, "bank_txns", b.id,
          [origen |-> b.origen, destino |-> b.destino])
TodosLosDuenos(b, S) ==
    /\ \A v \in vendors_por_clabe(b.destino) : Tiene(S, Rfc(v.id))
    /\ \A e \in employees_por_clabe(b.destino) : Tiene(S, Empleado(e.id))
    /\ \/ \E e \in employees_por_clabe(b.destino) : e.id # Nadie
       \/ llaves(PagoSinNombre(b)) \subseteq S

\* A transfer is cited where a vendor that was paid is accused, or where all
\* the owners of the account are, an employee among them.
LEMMA TransferCited ==
    ASSUME empresa = [rfc |-> _empresa_rfc, clabes |-> _empresa_clabes], senales \subseteq Senales,
           NEW esquema, NEW S \in Minimal(Juntas(esquema)), acusables(Grupo(esquema, S)) # {},
           NEW b \in estate.bank_txns, \A f \in estate.bank_txns : f.id = b.id => f = b,
           b.destino \notin empresa.clabes, <<"bank_txns", b.id>> \in citas(Grupo(esquema, S))
    PROVE  /\ b.destino # Nadie
           /\ esquema = IF vendors_por_clabe(b.destino) # {} THEN "phantom_vendor" ELSE "kickback"
           /\ UnDueno(b.destino, S) \/ TodosLosDuenos(b, S)
<1> DEFINE cl == Grupo(esquema, S)
           d == b.destino
<1>1. /\ cl.esquema = esquema
      /\ cl.senales = {s \in DelEsquema(esquema) : llaves(s) \subseteq S}
      /\ cl.senales \subseteq Senales
  BY DEF Grupo, DelEsquema
<1>2. \/ \E s \in cl.senales : <<"bank_txns", b.id>> \in citar_senal(s)
      \/ /\ cl.esquema = "phantom_vendor"
         /\ \E e \in acusables(cl) :
               /\ e.tipo = "rfc"
               /\ \E v \in vendors_por_rfc(e.canonico) :
                     v.clabe # Nadie /\ \E f \in pagos_a_clabe(v.clabe) : f.id = b.id
  BY <1>1, CitedByCluster
<1>3. d # Nadie => \A v \in vendors_por_clabe(d) : v.id \notin empresa.rfc
  BY CompanyAccounts DEF vendors_por_clabe
<1>4. ASSUME NEW s \in cl.senales, <<"bank_txns", b.id>> \in citar_senal(s)
      PROVE  /\ d # Nadie
             /\ esquema = IF vendors_por_clabe(d) # {} THEN "phantom_vendor" ELSE "kickback"
             /\ UnDueno(d, S) \/ TodosLosDuenos(b, S)
  <2>1. s \in Senales /\ s \in DelEsquema(esquema) /\ esquema_de(s) = esquema /\ llaves(s) \subseteq S
    BY <1>1, <1>4 DEF DelEsquema
  <2>2. s.id = b.id /\ (EsSalida(s) \/ EsPago(s))
    BY <1>4, <2>1, CitedBySignal
  <2>3. CASE EsSalida(s)
    <3>1. PICK f \in estate.bank_txns : \E v \in estate.vendors :
              /\ f.destino = v.clabe /\ v.clabe # Nadie
              /\ s = Senal("OUTBOUND_TO_SUSPECT_ENTITY", "presuntiva", v.id, "bank_txns", f.id, SinContexto)
      BY <2>3 DEF EsSalida
    <3>2. PICK v \in estate.vendors : /\ f.destino = v.clabe /\ v.clabe # Nadie
                                      /\ s.entidad = v.id /\ s.id = f.id
      BY <3>1 DEF Senal
    <3>3. f = b /\ v \in vendors_por_clabe(d) /\ d # Nadie
      BY <2>2, <3>2 DEF vendors_por_clabe
    <3>4. s.regla = "OUTBOUND_TO_SUSPECT_ENTITY" /\ esquema_de(s) = "phantom_vendor"
      BY <2>3, SignalSchemes
    <3>5. de_senal(s) = Rfc(v.id)
      BY <3>2, <3>4 DEF de_senal
    <3>6. PICK e \in de_senal(s) : e.tipo # "empresa"
      BY <1>4, NoneAlone
    <3>7. Rfc(v.id) = {e}
      BY <3>5, <3>6, OfRfc
    <3>8. Tiene(S, Rfc(v.id))
      BY <2>1, <3>5, <3>6, <3>7, KeyOfEntity DEF Tiene
    <3>9. UnDueno(d, S)
      BY <3>3, <3>7, <3>8 DEF UnDueno
    <3> QED BY <2>1, <3>3, <3>4, <3>9
  <2>4. CASE EsPago(s)
    <3>1. PICK f \in estate.bank_txns : \E m \in estate.employees :
              /\ f.destino = m.clabe /\ m.clabe # Nadie
              /\ s = Senal("PAYMENT_TO_EMPLOYEE_ACCOUNT", "autosuficiente", m.id, "bank_txns", f.id,
                           [origen |-> f.origen, destino |-> f.destino])
      BY <2>4 DEF EsPago
    <3>2. PICK m \in estate.employees :
              /\ f.destino = m.clabe /\ m.clabe # Nadie
              /\ s = Senal("PAYMENT_TO_EMPLOYEE_ACCOUNT", "autosuficiente", m.id, "bank_txns",
                           f.id, [origen |-> f.origen, destino |-> f.destino])
              /\ s.contexto = [origen |-> f.origen, destino |-> f.destino] /\ s.id = f.id
      <4> DEFINE c == [origen |-> f.origen, destino |-> f.destino]
      <4>1. \A x, y, z : Senal("PAYMENT_TO_EMPLOYEE_ACCOUNT", "autosuficiente", x, "bank_txns", y, z).contexto = z
        BY DEF Senal
      <4>2. \A x, y, z : Senal("PAYMENT_TO_EMPLOYEE_ACCOUNT", "autosuficiente", x, "bank_txns", y, z).id = y
        BY DEF Senal
      <4> HIDE DEF c
      <4> QED BY <3>1, <4>1, <4>2
    <3>3. f = b /\ m \in employees_por_clabe(d) /\ d # Nadie /\ s.contexto.destino = d
      BY <2>2, <3>2 DEF employees_por_clabe
    <3>4. /\ s.regla = "PAYMENT_TO_EMPLOYEE_ACCOUNT"
          /\ esquema = IF vendors_por_clabe(d) # {} THEN "phantom_vendor" ELSE "kickback"
      BY <2>1, <2>4, <3>3, SignalSchemes
    <3>5. \A e \in Clabe(d) : e.tipo # "clabe" => e \in de_senal(s)
      BY <3>3, <3>4 DEF de_senal
    <3>6. \A e \in Clabe(d) : e.tipo \in {"rfc", "employee"} => <<e.tipo, e.canonico>> \in S
      BY <2>1, <3>5, KeyOfEntity
    <3>7. ASSUME NEW v \in vendors_por_clabe(d)
          PROVE  Tiene(S, Rfc(v.id))
      <4>1. Rfc(v.id) \subseteq Clabe(d)
        BY <3>3, OfClabe
      <4>2. \A e \in Rfc(v.id) : e.tipo = "rfc"
        BY <1>3, <3>3 DEF Rfc, Entidad
      <4>3. \A e \in Rfc(v.id) : <<e.tipo, e.canonico>> \in S
        BY <3>6, <4>1, <4>2
      <4> QED BY <4>3 DEF Tiene
    <3>8. ASSUME NEW e \in employees_por_clabe(d)
          PROVE  Tiene(S, Empleado(e.id))
      <4>1. Empleado(e.id) \subseteq Clabe(d)
        BY <3>3, OfClabe
      <4>2. \A x \in Empleado(e.id) : x.tipo = "employee"
        BY DEF Empleado, Entidad
      <4>3. \A x \in Empleado(e.id) : <<x.tipo, x.canonico>> \in S
        BY <3>6, <4>1, <4>2
      <4> QED BY <4>3 DEF Tiene
    <3>9. m.id = Nadie => llaves(PagoSinNombre(b)) \subseteq S
      BY <2>1, <3>2, <3>3 DEF PagoSinNombre
    <3>10. TodosLosDuenos(b, S)
      BY <3>3, <3>7, <3>8, <3>9 DEF TodosLosDuenos
    <3> QED BY <3>3, <3>4, <3>10
  <2> QED BY <2>2, <2>3, <2>4
<1>5. ASSUME cl.esquema = "phantom_vendor", NEW e \in acusables(cl), e.tipo = "rfc",
             NEW v \in vendors_por_rfc(e.canonico), v.clabe # Nadie,
             NEW f \in pagos_a_clabe(v.clabe), f.id = b.id
      PROVE  d # Nadie /\ vendors_por_clabe(d) # {} /\ UnDueno(d, S)
  <2>1. f = b /\ d = v.clabe /\ v \in vendors_por_clabe(d) /\ v.id = e.canonico
    BY <1>5 DEF pagos_a_clabe, vendors_por_rfc, vendors_por_clabe
  <2>2. e \in Rfc(v.id)
    <3>1. PICK s \in cl.senales : e \in de_senal(s)
      BY DEF acusables, entidades
    <3> QED BY <1>5, <2>1, <3>1, RfcEntity
  <2>3. Tiene(S, Rfc(v.id))
    <3>1. Rfc(v.id) = {e}
      BY <2>2 DEF Rfc
    <3> QED BY <3>1, AccusedKey DEF Tiene
  <2> QED BY <1>5, <2>1, <2>2, <2>3 DEF UnDueno
<1> QED BY <1>1, <1>2, <1>4, <1>5

\* Two components that accuse owners of one account are one, unless the rule
\* of the shared accounts failed (sql_rules, shared_clabe_multi_rfc).
LEMMA OwnersMeet ==
    ASSUME empresa = [rfc |-> _empresa_rfc, clabes |-> _empresa_clabes], estate \in Estates,
           senales = {s \in Senales : s.regla \notin fallos}, "SHARED_CLABE_MULTI_RFC" \notin fallos,
           NEW S \in Minimal(Juntas("phantom_vendor")), NEW T \in Minimal(Juntas("phantom_vendor")),
           NEW d, d # Nadie, d \notin empresa.clabes, UnDueno(d, S), UnDueno(d, T)
    PROVE  S = T
<1>1. PICK v \in vendors_por_clabe(d) : Rfc(v.id) # {} /\ Tiene(S, Rfc(v.id))
  BY DEF UnDueno
<1>2. PICK w \in vendors_por_clabe(d) : Rfc(w.id) # {} /\ Tiene(T, Rfc(w.id))
  BY DEF UnDueno
<1>3. \A u \in vendors_por_clabe(d) : u.id \notin empresa.rfc
  BY CompanyAccounts DEF vendors_por_clabe
<1>4. \A u \in vendors_por_clabe(d) : Rfc(u.id) # {} => Rfc(u.id) = {Entidad("rfc", u.id)}
  BY <1>3 DEF Rfc
<1>5. <<"rfc", v.id>> \in S /\ <<"rfc", w.id>> \in T
  BY <1>1, <1>2, <1>4 DEF Tiene, Entidad
<1>6. CASE v.id = w.id
  BY <1>5, <1>6, ComponentsAreApart
<1>7. CASE v.id # w.id
  <2> DEFINE s == Senal("SHARED_CLABE_MULTI_RFC", "presuntiva", d, "vendors", Min(Rfcs(d)),
                        Rfcs(d))
  <2>1. v.id \in Rfcs(d) /\ w.id \in Rfcs(d)
    BY <1>1, <1>2 DEF Rfcs, Rfc
  <2>2. IsFiniteSet(Rfcs(d))
    <3>1. IsFiniteSet(estate.vendors)
      BY EstatesAreFinite DEF Tablas
    <3>2. IsFiniteSet(vendors_por_clabe(d))
      BY <3>1, FS_Subset DEF vendors_por_clabe
    <3> DEFINE ids == {u.id : u \in vendors_por_clabe(d)}
               f == [u \in vendors_por_clabe(d) |-> u.id]
    <3>3. f \in Surjection(vendors_por_clabe(d), ids)
      BY DEF Surjection
    <3>4. Rfcs(d) \subseteq ids
      BY DEF Rfcs
    <3> HIDE DEF f, ids
    <3>5. IsFiniteSet(ids)
      BY <3>2, <3>3, FS_Surjection
    <3> QED BY <3>4, <3>5, FS_Subset
  <2>3. Cardinality(Rfcs(d)) > 1
    <3> DEFINE uno == {v.id}
               dos == {v.id, w.id}
    <3>1. IsFiniteSet(dos) /\ Cardinality(dos) = 2
      <4>1. IsFiniteSet(uno) /\ Cardinality(uno) = 1 /\ w.id \notin uno
        BY <1>7, FS_Singleton
      <4>2. dos = uno \cup {w.id}
        OBVIOUS
      <4> HIDE DEF uno, dos
      <4>3. /\ IsFiniteSet(uno \cup {w.id})
            /\ Cardinality(uno \cup {w.id}) = Cardinality(uno) + 1
        BY <4>1, FS_AddElement
      <4> QED BY <4>1, <4>2, <4>3
    <3>2. Cardinality(dos) <= Cardinality(Rfcs(d))
      BY <2>1, <2>2, FS_Subset
    <3> HIDE DEF dos
    <3>3. Cardinality(Rfcs(d)) \in Nat
      BY <2>2, FS_CardinalityType
    <3> QED BY <3>1, <3>2, <3>3
  <2>4. d \in Compartidas
    BY <2>3 DEF Compartidas, vendors_por_clabe
  <2>5. s \in Senales
    BY <2>4 DEF SHARED_CLABE_MULTI_RFC, Senales
  <2>6. EsCompartida(s) /\ s.contexto = Rfcs(d) /\ s.regla = "SHARED_CLABE_MULTI_RFC"
    BY <2>4 DEF EsCompartida, Senal
  <2> HIDE DEF s
  <2>7. s \in DelEsquema("phantom_vendor")
    BY <2>5, <2>6, SignalSchemes DEF DelEsquema
  <2>8. de_senal(s) = UNION {Rfc(r) : r \in Rfcs(d)}
    BY <2>6 DEF de_senal
  <2>9. \A u \in {v, w} : <<"rfc", u.id>> \in llaves(s)
    <3> TAKE u \in {v, w}
    <3> DEFINE e == Entidad("rfc", u.id)
    <3>1. e \in Rfc(u.id) /\ u.id \in Rfcs(d)
      BY <1>1, <1>2, <1>4, <2>1
    <3>4. u.id # Nadie
      BY <3>1 DEF Rfc
    <3>2. e \in de_senal(s)
      BY <2>8, <3>1, <3>4
    <3>3. e.tipo = "rfc" /\ e.canonico = u.id
      BY DEF Entidad
    <3> HIDE DEF e
    <3> QED BY <3>2, <3>3, KeyOfEntity
  <2>10. llaves(s) \subseteq S /\ llaves(s) \subseteq T
    BY <1>5, <2>7, <2>9, Joined
  <2> QED BY <1>5, <2>9, <2>10, ComponentsAreApart
<1> QED BY <1>6, <1>7

\* No invoice and no transfer is claimed twice (ensamblador.py, agrupar and
\* evidencia.py, build_exhibits): the signals that cite it, and the vendors
\* whose records it is in, are in one cluster of one scheme.
THEOREM MoneyClaimedOnce == ViewSpec => []MoneyIsClaimedOnce
<1>1. AuditInv => MoneyIsClaimedOnce
  <2> SUFFICES ASSUME AuditInv, "SHARED_CLABE_MULTI_RFC" \notin fallos,
                      NEW h \in hallazgos, NEW g \in hallazgos,
                      NEW ex, ex \in Dinero(h), ex \in Dinero(g)
               PROVE  h = g
    BY DEF MoneyIsClaimedOnce
  <2>1. /\ empresa = [rfc |-> _empresa_rfc, clabes |-> _empresa_clabes]
        /\ senales = {s \in Senales : s.regla \notin fallos} /\ estate \in Estates
    BY FindingsOf DEF AuditInv, Signalled
  <2>2. PICK S \in Minimal(Juntas(h.esquema)) : h.cluster = Grupo(h.esquema, S)
    BY FindingsOf
  <2>3. PICK T \in Minimal(Juntas(g.esquema)) : g.cluster = Grupo(g.esquema, T)
    BY FindingsOf
  <2>4. acusables(h.cluster) # {} /\ acusables(g.cluster) # {}
    BY FindingsOf DEF SinAcusados
  <2>5. /\ ex.tabla \in {"invoices", "bank_txns"} /\ ex.fila \in estate[ex.tabla]
        /\ <<ex.tabla, ex.fila.id>> \in citas(h.cluster)
    BY FindingsOf, ExhibitsCite DEF Dinero
  <2>6. <<ex.tabla, ex.fila.id>> \in citas(g.cluster)
    BY FindingsOf, ExhibitsCite DEF Dinero
  <2>7. \A f \in estate[ex.tabla] : f.id = ex.fila.id => f = ex.fila
    BY <2>5 DEF Dinero, Repetida
  <2>8. h.esquema = g.esquema /\ S = T
    <3>1. CASE ex.tabla = "invoices"
      <4>1. h.esquema = "phantom_vendor" /\ <<"rfc", ex.fila.emisor>> \in S
        BY <2>1, <2>2, <2>4, <2>5, <2>7, <3>1, InvoiceCited
      <4>2. g.esquema = "phantom_vendor" /\ <<"rfc", ex.fila.emisor>> \in T
        BY <2>1, <2>3, <2>4, <2>5, <2>6, <2>7, <3>1, InvoiceCited
      <4> QED BY <4>1, <4>2, ComponentsAreApart
    <3>2. CASE ex.tabla = "bank_txns"
      <4> DEFINE d == ex.fila.destino
      <4>1. d \notin empresa.clabes /\ ex.fila \in estate.bank_txns
        BY <2>5, <3>2 DEF Dinero, Propia
      <4>2. /\ d # Nadie
            /\ h.esquema = IF vendors_por_clabe(d) # {} THEN "phantom_vendor" ELSE "kickback"
            /\ UnDueno(d, S) \/ TodosLosDuenos(ex.fila, S)
        BY <2>1, <2>2, <2>4, <2>5, <2>7, <3>2, <4>1, TransferCited
      <4>3. /\ g.esquema = IF vendors_por_clabe(d) # {} THEN "phantom_vendor" ELSE "kickback"
            /\ UnDueno(d, T) \/ TodosLosDuenos(ex.fila, T)
        BY <2>1, <2>3, <2>4, <2>6, <2>7, <3>2, <4>1, TransferCited
      <4>4. h.esquema = g.esquema
        BY <4>2, <4>3
      <4>5. CASE UnDueno(d, S) /\ UnDueno(d, T)
        <5>1. h.esquema = "phantom_vendor"
          BY <4>2, <4>5 DEF UnDueno
        <5> QED BY <2>1, <4>1, <4>2, <4>4, <4>5, <5>1, OwnersMeet
      <4>6. CASE TodosLosDuenos(ex.fila, S) /\ TodosLosDuenos(ex.fila, T)
        <5>1. CASE \E e \in employees_por_clabe(d) : e.id # Nadie
          <6>1. PICK e \in employees_por_clabe(d) : e.id # Nadie
            BY <5>1
          <6> DEFINE x == Entidad("employee", e.id)
          <6>3. x \in Empleado(e.id)
            BY <6>1, OfEmpleado
          <6>4. x.tipo = "employee" /\ x.canonico = e.id
            BY DEF Entidad
          <6> HIDE DEF x
          <6>2. <<"employee", e.id>> \in S /\ <<"employee", e.id>> \in T
            BY <4>6, <6>1, <6>3, <6>4 DEF TodosLosDuenos, Tiene
          <6> QED BY <4>4, <6>2, ComponentsAreApart
        <5>2. CASE ~ \E e \in employees_por_clabe(d) : e.id # Nadie
          <6>1. llaves(PagoSinNombre(ex.fila)) \subseteq S \cap T
            BY <4>6, <5>2 DEF TodosLosDuenos
          <6>2. llaves(PagoSinNombre(ex.fila)) # {}
            BY DEF llaves
          <6> QED BY <4>4, <6>1, <6>2, ComponentsAreApart
        <5> QED BY <5>1, <5>2
      <4>7. ASSUME NEW X, NEW Y, UnDueno(d, X), TodosLosDuenos(ex.fila, Y)
            PROVE  X \cap Y # {}
        <5>1. PICK v \in vendors_por_clabe(d) : Rfc(v.id) # {} /\ Tiene(X, Rfc(v.id))
          BY <4>7 DEF UnDueno
        <5>2. PICK e \in Rfc(v.id) : TRUE
          BY <5>1
        <5>3. <<e.tipo, e.canonico>> \in X /\ <<e.tipo, e.canonico>> \in Y
          BY <4>7, <5>1, <5>2 DEF TodosLosDuenos, Tiene
        <5> QED BY <5>3
      <4>8. CASE UnDueno(d, S) /\ TodosLosDuenos(ex.fila, T)
        BY <4>4, <4>7, <4>8, ComponentsAreApart
      <4>9. CASE TodosLosDuenos(ex.fila, S) /\ UnDueno(d, T)
        <5>1. S \cap T # {}
          BY <4>7, <4>9
        <5> QED BY <4>4, <5>1, ComponentsAreApart
      <4> QED BY <4>2, <4>3, <4>4, <4>5, <4>6, <4>8, <4>9
    <3> QED BY <2>5, <3>1, <3>2
  <2>9. h.cluster = g.cluster
    BY <2>2, <2>3, <2>8
  <2> QED BY <2>9, FindingsOf
<1> QED BY <1>1, AuditInvariant, PTL

-----------------------------------------------------------------------------
(* Sums of integers *)

\* A set of numbers that is not empty has a least one.
LEMMA LeastNumber ==
    ASSUME NEW B \in SUBSET Nat, B # {}
    PROVE  \E n \in B : \A m \in B : n <= m
<1> DEFINE R == OpToRel(<, Nat)
<1>1. PICK n \in B : \A m \in B : ~ (<<m, n>> \in R)
  <2>1. IsWellFoundedOn(R, Nat)
    BY NatLessThanWellFounded
  <2> HIDE DEF R
  <2> QED BY <2>1, WFMin
<1>2. \A m \in B : ~ (m < n)
  BY <1>1 DEF OpToRel
<1> QED BY <1>2

\* A finite set of integers has a first and a last one.
LEMMA FirstAndLast ==
    ASSUME NEW S \in SUBSET Int, IsFiniteSet(S), S # {}
    PROVE  /\ \E n \in S : \A m \in S : n <= m
           /\ \E n \in S : \A m \in S : n >= m
<1> DEFINE Menores(x) == {y \in S : y < x}
           Mayores(x) == {y \in S : y > x}
<1>1. ASSUME NEW X, NEW Y, X \subseteq Y, Y \subseteq S, X # Y
      PROVE  Cardinality(X) \in Nat /\ Cardinality(Y) \in Nat /\ ~(Cardinality(Y) <= Cardinality(X))
  <2>1. IsFiniteSet(X) /\ IsFiniteSet(Y)
    BY <1>1, FS_Subset
  <2>2. Cardinality(X) <= Cardinality(Y) /\ (Cardinality(Y) = Cardinality(X) => Y = X)
    BY <1>1, <2>1, FS_Subset
  <2>3. Cardinality(X) \in Nat /\ Cardinality(Y) \in Nat
    BY <2>1, FS_CardinalityType
  <2> QED BY <1>1, <2>2, <2>3
<1>2. \E n \in S : \A m \in S : n <= m
  <2> DEFINE B == {Cardinality(Menores(x)) : x \in S}
  <2>1. B \in SUBSET Nat /\ B # {}
    <3>1. \A x \in S : IsFiniteSet(Menores(x))
      BY FS_Subset
    <3>2. \A x \in S : Cardinality(Menores(x)) \in Nat
      BY <3>1, FS_CardinalityType
    <3> QED BY <3>2
  <2>2. PICK k \in B : \A j \in B : k <= j
    <3> HIDE DEF B
    <3> QED BY <2>1, LeastNumber
  <2>3. PICK n \in S : k = Cardinality(Menores(n))
    BY <2>2
  <2>4. ASSUME NEW m \in S, m < n
        PROVE  FALSE
    <3>1. Menores(m) \subseteq Menores(n) /\ m \in Menores(n) /\ m \notin Menores(m)
      <4>1. \A y \in S : y < m => y < n
        BY <2>4
      <4>2. ~(m < m)
        BY <2>4
      <4> QED BY <2>4, <4>1, <4>2
    <3>2. ~(Cardinality(Menores(n)) <= Cardinality(Menores(m)))
      <4>1. Menores(n) \subseteq S /\ Menores(m) # Menores(n)
        BY <3>1
      <4> HIDE DEF Menores
      <4> QED BY <1>1, <3>1, <4>1
    <3>3. Cardinality(Menores(m)) \in B
      BY <2>4
    <3> QED BY <2>2, <2>3, <3>2, <3>3
  <2> QED BY <2>4
<1>3. \E n \in S : \A m \in S : n >= m
  <2> DEFINE B == {Cardinality(Mayores(x)) : x \in S}
  <2>1. B \in SUBSET Nat /\ B # {}
    <3>1. \A x \in S : IsFiniteSet(Mayores(x))
      BY FS_Subset
    <3>2. \A x \in S : Cardinality(Mayores(x)) \in Nat
      BY <3>1, FS_CardinalityType
    <3> QED BY <3>2
  <2>2. PICK k \in B : \A j \in B : k <= j
    <3> HIDE DEF B
    <3> QED BY <2>1, LeastNumber
  <2>3. PICK n \in S : k = Cardinality(Mayores(n))
    BY <2>2
  <2>4. ASSUME NEW m \in S, m > n
        PROVE  FALSE
    <3>1. Mayores(m) \subseteq Mayores(n) /\ m \in Mayores(n) /\ m \notin Mayores(m)
      <4>1. \A y \in S : y > m => y > n
        BY <2>4
      <4>2. ~(m > m)
        BY <2>4
      <4> QED BY <2>4, <4>1, <4>2
    <3>2. ~(Cardinality(Mayores(n)) <= Cardinality(Mayores(m)))
      <4>1. Mayores(n) \subseteq S /\ Mayores(m) # Mayores(n)
        BY <3>1
      <4> HIDE DEF Mayores
      <4> QED BY <1>1, <3>1, <4>1
    <3>3. Cardinality(Mayores(m)) \in B
      BY <2>4
    <3> QED BY <2>2, <2>3, <3>2, <3>3
  <2> QED BY <2>4
<1> QED BY <1>2, <1>3

\* Among subsets of a finite set some one has none of the others in it.
LEMMA SmallestSet ==
    ASSUME NEW S, IsFiniteSet(S), NEW B \in SUBSET SUBSET S, B # {}
    PROVE  \E U \in B : \A V \in B : V \subseteq U => V = U
<1> DEFINE N == {Cardinality(U) : U \in B}
<1>1. \A U \in B : IsFiniteSet(U) /\ Cardinality(U) \in Nat
  BY FS_Subset, FS_CardinalityType
<1>2. PICK n \in N : \A m \in N : n <= m
  <2>1. N \in SUBSET Nat /\ N # {}
    BY <1>1
  <2> HIDE DEF N
  <2> QED BY <2>1, LeastNumber
<1>3. PICK U \in B : n = Cardinality(U)
  BY <1>2
<1>4. ASSUME NEW V \in B, V \subseteq U
      PROVE  V = U
  <2>1. Cardinality(U) <= Cardinality(V)
    BY <1>2, <1>3
  <2>2. Cardinality(V) <= Cardinality(U) /\ (Cardinality(V) = Cardinality(U) => V = U)
    BY <1>1, <1>4, FS_Subset
  <2> QED BY <1>1, <2>1, <2>2
<1> QED BY <1>4

(* v gives each element its number, and its sums each set of elements theirs. *)

\* A sum from the sums of smaller sets, as MapThenSumSet computes it.
Numeros(v) == IsFiniteSet(DOMAIN v) /\ \A x \in DOMAIN v : v[x] \in Int
Mas(v, g, U) == IF U = {} THEN 0 ELSE v[CHOOSE x \in U : TRUE] + g[U \ {CHOOSE x \in U : TRUE}]
Suman(v, g) == g = [U \in SUBSET DOMAIN v |-> Mas(v, g, U)]
Sumas(v) == CHOOSE g : Suman(v, g)

\* Sums of the subsets of up to n elements.
LEMMA PartialSums ==
    ASSUME NEW v, Numeros(v), NEW n \in Nat
    PROVE  \E g \in [SUBSET DOMAIN v -> Int] :
               \A U \in SUBSET DOMAIN v : Cardinality(U) <= n => g[U] = Mas(v, g, U)
<1> PICK S : S = DOMAIN v
  OBVIOUS
<1> IsFiniteSet(S) /\ \A x \in S : v[x] \in Int
  BY DEF Numeros
<1> DEFINE Hay(k) == \E g \in [SUBSET S -> Int] :
                        \A U \in SUBSET S : Cardinality(U) <= k => g[U] = Mas(v, g, U)
           B == {k \in Nat : ~Hay(k)}
<1>1. \A U \in SUBSET S : IsFiniteSet(U) /\ Cardinality(U) \in Nat
  BY FS_Subset, FS_CardinalityType
<1>2. Hay(0)
  <2> DEFINE g == [U \in SUBSET S |-> 0]
  <2>1. \A U \in SUBSET S : Cardinality(U) <= 0 => U = {}
    BY <1>1, FS_EmptySet
  <2>2. Mas(v, g, {}) = 0 /\ g[{}] = 0 /\ g \in [SUBSET S -> Int]
    BY DEF Mas
  <2>3. \A U \in SUBSET S : Cardinality(U) <= 0 => g[U] = Mas(v, g, U)
    BY <2>1, <2>2
  <2> HIDE DEF g
  <2> QED BY <2>2, <2>3
<1>3. ASSUME NEW k \in Nat, Hay(k)
      PROVE  Hay(k + 1)
  <2>1. PICK g \in [SUBSET S -> Int] : \A U \in SUBSET S : Cardinality(U) <= k => g[U] = Mas(v, g, U)
    BY <1>3
  <2> DEFINE f == [U \in SUBSET S |-> Mas(v, g, U)]
  <2>2. f \in [SUBSET S -> Int]
    <3> SUFFICES ASSUME NEW U \in SUBSET S
                 PROVE  Mas(v, g, U) \in Int
      OBVIOUS
    <3>1. CASE U = {}
      BY <3>1 DEF Mas
    <3>2. CASE U # {}
      <4> DEFINE x == CHOOSE x \in U : TRUE
      <4>1. x \in U
        BY <3>2
      <4>2. v[x] \in Int /\ U \ {x} \in SUBSET S
        BY <4>1
      <4>3. Mas(v, g, U) = v[x] + g[U \ {x}]
        BY <3>2 DEF Mas
      <4> HIDE DEF x
      <4> QED BY <2>1, <4>2, <4>3
    <3> QED BY <3>1, <3>2
  <2>3. ASSUME NEW U \in SUBSET S, Cardinality(U) <= k + 1
        PROVE  f[U] = Mas(v, f, U)
    <3>1. CASE U = {}
      BY <3>1 DEF Mas
    <3>2. CASE U # {}
      <4> DEFINE x == CHOOSE x \in U : TRUE
                 V == U \ {x}
      <4>1. x \in U
        BY <3>2
      <4>2. V \in SUBSET S /\ Cardinality(V) <= k
        <5>1. Cardinality(V) = Cardinality(U) - 1
          BY <1>1, <4>1, FS_RemoveElement
        <5> QED BY <1>1, <2>3, <5>1
      <4>3. f[V] = g[V]
        BY <2>1, <4>2
      <4>4. Mas(v, f, U) = v[x] + f[V] /\ Mas(v, g, U) = v[x] + g[V]
        BY <3>2 DEF Mas
      <4> HIDE DEF x, V
      <4> QED BY <4>3, <4>4
    <3> QED BY <3>1, <3>2
  <2> HIDE DEF f
  <2> QED BY <2>2, <2>3
<1> HIDE DEF Hay
<1>4. B = {}
  <2> SUFFICES ASSUME B # {}
               PROVE  FALSE
    OBVIOUS
  <2>1. PICK k \in B : \A m \in B : k <= m
    BY LeastNumber
  <2>2. k # 0 /\ k \in Nat
    BY <1>2, <2>1
  <2>3. k - 1 \in Nat /\ Hay(k - 1)
    BY <2>1, <2>2
  <2>4. Hay((k - 1) + 1)
    BY <1>3, <2>3
  <2> QED BY <2>1, <2>2, <2>4
<1>5. Hay(n)
  BY <1>4
<1> QED BY <1>5 DEF Hay

\* The sums exist, they are integers, and nothing else is the sums.
LEMMA SumsExist ==
    ASSUME NEW v, Numeros(v), NEW S, S = DOMAIN v
    PROVE  /\ Sumas(v) \in [SUBSET S -> Int]
           /\ Suman(v, Sumas(v))
           /\ \A g : Suman(v, g) => g = Sumas(v)
<1> IsFiniteSet(S) /\ \A x \in S : v[x] \in Int
  BY DEF Numeros
<1>1. PICK h \in [SUBSET S -> Int] : \A U \in SUBSET S : h[U] = Mas(v, h, U)
  <2>1. \A U \in SUBSET S : Cardinality(U) <= Cardinality(S)
    BY FS_Subset
  <2>2. Cardinality(S) \in Nat
    BY FS_CardinalityType
  <2>3. \A n \in Nat : \E g \in [SUBSET DOMAIN v -> Int] :
            \A U \in SUBSET DOMAIN v : Cardinality(U) <= n => g[U] = Mas(v, g, U)
    BY PartialSums, Zenon
  <2> DEFINE n == Cardinality(S)
  <2> HIDE DEF n
  <2>4. PICK h \in [SUBSET S -> Int] :
            \A U \in SUBSET S : Cardinality(U) <= n => h[U] = Mas(v, h, U)
    <3>1. n \in Nat
      BY <2>2 DEF n
    <3> QED BY <2>3, <3>1, Zenon
  <2> QED BY <2>1, <2>4 DEF n
<1>2. Suman(v, h)
  <2>1. h = [U \in SUBSET S |-> Mas(v, h, U)]
    BY <1>1
  <2> QED BY <2>1 DEF Suman
<1>3. ASSUME NEW g, Suman(v, g)
      PROVE  g = h
  <2> DEFINE B == {U \in SUBSET S : g[U] # h[U]}
  <2>0. \A U \in SUBSET S : g[U] = Mas(v, g, U)
    BY <1>3 DEF Suman
  <2>1. B = {}
    <3> SUFFICES ASSUME B # {}
                 PROVE  FALSE
      OBVIOUS
    <3>1. PICK U \in B : \A V \in B : V \subseteq U => V = U
      <4>1. B \in SUBSET SUBSET S
        OBVIOUS
      <4> HIDE DEF B
      <4> QED BY <4>1, SmallestSet
    <3>2. U # {}
      BY <1>1, <2>0, <3>1 DEF Mas
    <3> DEFINE x == CHOOSE x \in U : TRUE
               V == U \ {x}
    <3>3. x \in U
      BY <3>2
    <3>4. V \in SUBSET S /\ V # U /\ V \subseteq U
      BY <3>3
    <3>5. g[U] = v[x] + g[V] /\ h[U] = v[x] + h[V]
      BY <1>1, <2>0, <3>2 DEF Mas
    <3> HIDE DEF x, V
    <3>6. g[V] = h[V]
      BY <3>1, <3>4
    <3> QED BY <3>1, <3>5, <3>6
  <2>2. g = [U \in SUBSET S |-> g[U]]
    <3>1. g = [U \in SUBSET S |-> Mas(v, g, U)]
      BY <1>3 DEF Suman
    <3> QED BY <2>0, <3>1
  <2>3. h = [U \in SUBSET S |-> h[U]]
    OBVIOUS
  <2> QED BY <2>1, <2>2, <2>3
<1>4. Suman(v, Sumas(v))
  BY <1>2 DEF Sumas
<1>5. Sumas(v) = h
  BY <1>3, <1>4
<1> QED BY <1>1, <1>3, <1>4, <1>5

LEMMA SumOfNothing ==
    ASSUME NEW v, Numeros(v)
    PROVE  Sumas(v)[{}] = 0
<1>1. Suman(v, Sumas(v))
  BY SumsExist
<1> DEFINE g == Sumas(v)
<1> HIDE DEF g
<1>2. g[{}] = Mas(v, g, {})
  BY <1>1 DEF Suman, g
<1> QED BY <1>2 DEF Mas, g

\* It does not matter which element is taken first.
LEMMA TakeOne ==
    ASSUME NEW v, Numeros(v), NEW X \in SUBSET DOMAIN v, NEW a \in X
    PROVE  Sumas(v)[X] = v[a] + Sumas(v)[X \ {a}]
<1> PICK S : S = DOMAIN v
  OBVIOUS
<1> IsFiniteSet(S) /\ \A x \in S : v[x] \in Int
  BY DEF Numeros
<1> DEFINE g == Sumas(v)
           B == {U \in SUBSET S : \E y \in U : g[U] # v[y] + g[U \ {y}]}
<1>1. g \in [SUBSET S -> Int]
  BY SumsExist
<1>2. \A U \in SUBSET S : g[U] = Mas(v, g, U)
  <2>1. Suman(v, g)
    BY SumsExist
  <2> HIDE DEF g
  <2> QED BY <2>1 DEF Suman
<1> HIDE DEF g
<1>4. B = {}
  <2> SUFFICES ASSUME B # {}
               PROVE  FALSE
    OBVIOUS
  <2>1. PICK U \in B : \A V \in B : V \subseteq U => V = U
    <3>1. B \in SUBSET SUBSET S
      OBVIOUS
    <3> HIDE DEF B
    <3> QED BY <3>1, SmallestSet
  <2>2. PICK y \in U : g[U] # v[y] + g[U \ {y}]
    BY <2>1
  <2> DEFINE x == CHOOSE x \in U : TRUE
  <2>3. x \in U
    BY <2>2
  <2>4. g[U] = v[x] + g[U \ {x}]
    BY <1>2, <2>2 DEF Mas
  <2> HIDE DEF x
  <2>5. x # y
    BY <2>2, <2>4
  <2> DEFINE W == U \ {x, y}
  <2>6. (U \ {x}) \ {y} = W /\ (U \ {y}) \ {x} = W /\ W \in SUBSET S
    OBVIOUS
  <2>7. U \ {x} \notin B /\ U \ {y} \notin B /\ U \ {x} \in SUBSET S /\ U \ {y} \in SUBSET S
    BY <2>1, <2>3
  <2>8. y \in U \ {x} /\ x \in U \ {y}
    BY <2>2, <2>3, <2>5
  <2>9. g[U \ {x}] = v[y] + g[(U \ {x}) \ {y}] /\ g[U \ {y}] = v[x] + g[(U \ {y}) \ {x}]
    BY <2>7, <2>8
  <2>10. g[U \ {x}] = v[y] + g[W] /\ g[U \ {y}] = v[x] + g[W]
    BY <2>6, <2>9
  <2>11. v[x] \in Int /\ v[y] \in Int /\ g[W] \in Int
    BY <1>1, <2>1, <2>2, <2>3, <2>6
  <2> HIDE DEF W
  <2> QED BY <2>2, <2>4, <2>10, <2>11
<1> QED BY <1>4 DEF g

\* Elements that correspond one to one, with the same numbers, have one sum.
LEMMA SameSum ==
    ASSUME NEW v, Numeros(v), NEW S, S = DOMAIN v,
           NEW w, Numeros(w), NEW T, T = DOMAIN w,
           NEW U \in SUBSET S, NEW f \in [U -> T],
           \A x, y \in U : f[x] = f[y] => x = y,
           \A x \in U : w[f[x]] = v[x]
    PROVE  Sumas(v)[U] = Sumas(w)[{f[x] : x \in U}]
<1> /\ IsFiniteSet(S) /\ \A x \in S : v[x] \in Int
    /\ IsFiniteSet(T) /\ \A x \in T : w[x] \in Int
  BY DEF Numeros
<1>0. \A X \in SUBSET T : \A x \in X : Sumas(w)[X] = w[x] + Sumas(w)[X \ {x}]
  BY TakeOne, Zenon
<1> DEFINE Im(V) == {f[x] : x \in V}
           B == {V \in SUBSET U : Sumas(v)[V] # Sumas(w)[Im(V)]}
<1>1. B = {}
  <2> SUFFICES ASSUME B # {}
               PROVE  FALSE
    OBVIOUS
  <2>1. PICK V \in B : \A X \in B : X \subseteq V => X = V
    <3>1. B \in SUBSET SUBSET S
      OBVIOUS
    <3> HIDE DEF B
    <3> QED BY <3>1, SmallestSet
  <2>2. V # {}
    <3>1. Sumas(v)[{}] = 0 /\ Sumas(w)[{}] = 0
      BY SumOfNothing
    <3>2. Im({}) = {}
      OBVIOUS
    <3> QED BY <2>1, <3>1, <3>2
  <2>3. PICK y \in V : TRUE
    BY <2>2
  <2>4. Im(V \ {y}) = Im(V) \ {f[y]} /\ f[y] \in Im(V) /\ Im(V) \in SUBSET T
    BY <2>1, <2>3
  <2>5. Sumas(v)[V] = v[y] + Sumas(v)[V \ {y}]
    <3>1. V \in SUBSET DOMAIN v
      BY <2>1
    <3> HIDE DEF B, Im
    <3> QED BY <2>3, <3>1, TakeOne
  <2>6. Sumas(w)[Im(V)] = w[f[y]] + Sumas(w)[Im(V) \ {f[y]}]
    <3> HIDE DEF Im
    <3> QED BY <1>0, <2>4
  <2>7. Sumas(v)[V \ {y}] = Sumas(w)[Im(V \ {y})]
    BY <2>1, <2>3
  <2>8. w[f[y]] = v[y]
    BY <2>1, <2>3
  <2>9. Sumas(v)[V] # Sumas(w)[Im(V)]
    BY <2>1
  <2> HIDE DEF Im
  <2> QED BY <2>4, <2>5, <2>6, <2>7, <2>8, <2>9
<1> QED BY <1>1

LEMMA SameTotal ==
    ASSUME NEW v, Numeros(v), NEW S, S = DOMAIN v,
           NEW w, Numeros(w), NEW T, T = DOMAIN w,
           NEW f \in [S -> T],
           \A x, y \in S : f[x] = f[y] => x = y,
           \A x \in S : w[f[x]] = v[x]
    PROVE  Sumas(v)[S] = Sumas(w)[{f[x] : x \in S}]
<1>1. S \in SUBSET S
  OBVIOUS
<1> QED BY <1>1, SameSum, SMT

LEMMA SumOfPart ==
    ASSUME NEW w, Numeros(w), NEW T, T = DOMAIN w, NEW S \in SUBSET T,
           NEW v, Numeros(v), S = DOMAIN v, \A x \in S : w[x] = v[x]
    PROVE  Sumas(v)[S] = Sumas(w)[S]
<1> DEFINE id == [x \in S |-> x]
<1>1. /\ id \in [S -> T] /\ \A x, y \in S : id[x] = id[y] => x = y
      /\ \A x \in S : w[id[x]] = v[x]
  OBVIOUS
<1>2. {id[x] : x \in S} = S
  OBVIOUS
<1> HIDE DEF id
<1>3. Sumas(v)[S] = Sumas(w)[{id[x] : x \in S}]
  BY <1>1, SameTotal
<1> QED BY <1>2, <1>3

\* More elements, none of them negative, have no smaller sum.
LEMMA MoreIsMore ==
    ASSUME NEW v, Numeros(v), NEW S, S = DOMAIN v, \A x \in S : v[x] >= 0,
           NEW W \in SUBSET S, NEW U \in SUBSET W
    PROVE  Sumas(v)[U] <= Sumas(v)[W]
<1> IsFiniteSet(S) /\ \A x \in S : v[x] \in Int
  BY DEF Numeros
<1> DEFINE B == {X \in SUBSET S : U \subseteq X /\ ~(Sumas(v)[U] <= Sumas(v)[X])}
<1>1. B = {}
  <2> SUFFICES ASSUME B # {}
               PROVE  FALSE
    OBVIOUS
  <2>1. PICK X \in B : \A Y \in B : Y \subseteq X => Y = X
    <3>1. B \in SUBSET SUBSET S
      OBVIOUS
    <3> HIDE DEF B
    <3> QED BY <3>1, SmallestSet
  <2>2. Sumas(v) \in [SUBSET S -> Int]
    BY SumsExist
  <2>3. X # U
    <3>1. Sumas(v)[U] \in Int
      BY <2>2
    <3> QED BY <2>1, <3>1
  <2>4. PICK y \in X : y \notin U
    BY <2>1, <2>3
  <2>5. Sumas(v)[X] = v[y] + Sumas(v)[X \ {y}]
    BY <2>1, <2>4, TakeOne
  <2>6. Sumas(v)[U] <= Sumas(v)[X \ {y}]
    BY <2>1, <2>4
  <2>7. v[y] \in Int /\ v[y] >= 0 /\ Sumas(v)[U] \in Int /\ Sumas(v)[X \ {y}] \in Int
    BY <2>1, <2>2, <2>4
  <2>8. Sumas(v)[U] <= Sumas(v)[X]
    BY <2>5, <2>6, <2>7
  <2> QED BY <2>1, <2>8
<1> QED BY <1>1

\* The sum of two sets that have nothing in common.
LEMMA SumOfTwo ==
    ASSUME NEW v, Numeros(v), NEW S, S = DOMAIN v,
           NEW U \in SUBSET S, NEW W \in SUBSET S, U \cap W = {}
    PROVE  Sumas(v)[U \cup W] = Sumas(v)[U] + Sumas(v)[W]
<1> IsFiniteSet(S) /\ \A x \in S : v[x] \in Int
  BY DEF Numeros
<1> DEFINE B == {X \in SUBSET W : Sumas(v)[U \cup X] # Sumas(v)[U] + Sumas(v)[X]}
<1>1. B = {}
  <2> SUFFICES ASSUME B # {}
               PROVE  FALSE
    OBVIOUS
  <2>1. PICK X \in B : \A Y \in B : Y \subseteq X => Y = X
    <3>1. B \in SUBSET SUBSET S
      OBVIOUS
    <3> HIDE DEF B
    <3> QED BY <3>1, SmallestSet
  <2>2. Sumas(v) \in [SUBSET S -> Int]
    BY SumsExist
  <2>3. X # {}
    <3>1. Sumas(v)[{}] = 0 /\ Sumas(v)[U] \in Int /\ U \cup {} = U
      BY <2>2, SumOfNothing
    <3>2. Sumas(v)[U \cup {}] = Sumas(v)[U] + Sumas(v)[{}]
      BY <3>1
    <3> QED BY <2>1, <3>2
  <2>4. PICK y \in X : TRUE
    BY <2>3
  <2>5. (U \cup X) \ {y} = U \cup (X \ {y}) /\ y \in U \cup X /\ U \cup X \in SUBSET S
    BY <2>1, <2>4
  <2>6. Sumas(v)[U \cup X] = v[y] + Sumas(v)[U \cup (X \ {y})]
    BY <2>5, TakeOne
  <2>7. Sumas(v)[X] = v[y] + Sumas(v)[X \ {y}]
    BY <2>1, <2>4, TakeOne
  <2>8. Sumas(v)[U \cup (X \ {y})] = Sumas(v)[U] + Sumas(v)[X \ {y}]
    BY <2>1, <2>4
  <2>9. v[y] \in Int /\ Sumas(v)[U] \in Int /\ Sumas(v)[X \ {y}] \in Int
    BY <2>1, <2>2, <2>4
  <2>10. Sumas(v)[U \cup X] # Sumas(v)[U] + Sumas(v)[X]
    BY <2>1
  <2> QED BY <2>6, <2>7, <2>8, <2>9, <2>10
<1> QED BY <1>1

\* The sum of the sums of sets that have nothing in common.
LEMMA SumOfSums ==
    ASSUME NEW v, Numeros(v), NEW S, S = DOMAIN v,
           NEW w, Numeros(w), NEW E, E = DOMAIN w, NEW F \in [E -> SUBSET S],
           \A a, b \in E : a # b => F[a] \cap F[b] = {},
           \A e \in E : w[e] = Sumas(v)[F[e]]
    PROVE  Sumas(w)[E] = Sumas(v)[UNION {F[e] : e \in E}]
<1> /\ IsFiniteSet(S) /\ \A x \in S : v[x] \in Int
    /\ IsFiniteSet(E) /\ \A x \in E : w[x] \in Int
  BY DEF Numeros
<1>0. ASSUME NEW X \in SUBSET E, NEW x \in X
      PROVE  Sumas(w)[X] = w[x] + Sumas(w)[X \ {x}]
  <2>1. X \in SUBSET DOMAIN w
    OBVIOUS
  <2> QED BY <2>1, TakeOne
<1> DEFINE All(X) == UNION {F[e] : e \in X}
           B == {X \in SUBSET E : Sumas(w)[X] # Sumas(v)[All(X)]}
<1>1. B = {}
  <2> SUFFICES ASSUME B # {}
               PROVE  FALSE
    OBVIOUS
  <2>1. PICK X \in B : \A Y \in B : Y \subseteq X => Y = X
    <3>1. B \in SUBSET SUBSET E
      OBVIOUS
    <3> HIDE DEF B
    <3> QED BY <3>1, SmallestSet
  <2>2. X # {}
    <3>1. Sumas(w)[{}] = 0 /\ Sumas(v)[{}] = 0 /\ All({}) = {}
      BY SumOfNothing
    <3> QED BY <2>1, <3>1
  <2>3. PICK y \in X : TRUE
    BY <2>2
  <2> DEFINE Y == X \ {y}
  <2>4. Y \in SUBSET E /\ Y # X /\ Y \subseteq X /\ y \in E
    BY <2>1, <2>3
  <2>5. All(X) = All(Y) \cup F[y] /\ All(Y) \cap F[y] = {} /\ All(Y) \in SUBSET S /\ F[y] \in SUBSET S
    <3>1. \A e \in Y : F[e] \cap F[y] = {}
      BY <2>4
    <3> QED BY <2>3, <2>4, <3>1
  <2>6. Sumas(w)[Y] = Sumas(v)[All(Y)]
    <3> HIDE DEF All, Y
    <3> QED BY <2>1, <2>4
  <2>7. Sumas(w)[X] = w[y] + Sumas(w)[Y]
    <3> HIDE DEF All
    <3> QED BY <1>0, <2>1, <2>3
  <2>8. Sumas(v)[All(X)] = Sumas(v)[All(Y)] + Sumas(v)[F[y]]
    <3> DEFINE P == All(Y)
               Q == F[y]
    <3>1. P \in SUBSET S /\ Q \in SUBSET S /\ P \cap Q = {} /\ All(X) = P \cup Q
      BY <2>5
    <3> HIDE DEF All, Y, P, Q
    <3>2. Sumas(v)[P \cup Q] = Sumas(v)[P] + Sumas(v)[Q]
      BY <3>1, SumOfTwo
    <3> QED BY <3>1, <3>2 DEF P, Q
  <2>9. w[y] = Sumas(v)[F[y]] /\ w[y] \in Int
    BY <2>4
  <2>10. Sumas(v)[All(Y)] \in Int
    <3>1. Sumas(v) \in [SUBSET S -> Int]
      BY SumsExist
    <3> HIDE DEF All, Y
    <3> QED BY <2>5, <3>1
  <2>11. Sumas(w)[X] # Sumas(v)[All(X)]
    BY <2>1
  <2> HIDE DEF All, Y
  <2> QED BY <2>6, <2>7, <2>8, <2>9, <2>10, <2>11
<1> QED BY <1>1

\* The amounts of exhibits are added so.
LEMMA SumOfExhibits ==
    ASSUME NEW S, IsFiniteSet(S), \A x \in S : Importe(x) \in Int, NEW v, v = [x \in S |-> Importe(x)]
    PROVE  Numeros(v) /\ MapThenSumSet(Importe, S) = Sumas(v)[S]
<1> DEFINE Es(g) == g = [U \in SUBSET S |->
                            IF U = {} THEN 0
                            ELSE Importe(CHOOSE x \in U : TRUE) + g[U \ {CHOOSE x \in U : TRUE}]]
           iter == CHOOSE g : Es(g)
<1>1. MapThenSumSet(Importe, S) = iter[S]
  BY DEF MapThenSumSet, MapThenFoldSet
<1>2. Numeros(v)
  BY DEF Numeros
<1>3. \A g : Es(g) <=> Suman(v, g)
  <2>1. \A U \in SUBSET S : U # {} => v[CHOOSE x \in U : TRUE] = Importe(CHOOSE x \in U : TRUE)
    OBVIOUS
  <2> QED BY <2>1 DEF Suman, Mas
<1> HIDE DEF Es
<1>4. Es(Sumas(v))
  BY <1>2, <1>3, SumsExist
<1>5. Es(iter)
  BY <1>4
<1> HIDE DEF iter
<1>6. iter = Sumas(v)
  BY <1>2, <1>3, <1>5, SumsExist
<1> QED BY <1>1, <1>2, <1>6

\* The sum of finitely many integers is one.
LEMMA SumOfIntegers ==
    ASSUME NEW S, IsFiniteSet(S), \A x \in S : Importe(x) \in Int
    PROVE  MapThenSumSet(Importe, S) \in Int /\ (S = {} => MapThenSumSet(Importe, S) = 0)
<1> DEFINE v == [x \in S |-> Importe(x)]
<1>1. DOMAIN v = S
  OBVIOUS
<1>2. Numeros(v) /\ MapThenSumSet(Importe, S) = Sumas(v)[S]
  <2>1. \A w : w = [x \in S |-> Importe(x)] => Numeros(w) /\ MapThenSumSet(Importe, S) = Sumas(w)[S]
    BY SumOfExhibits
  <2> QED BY <2>1
<1> HIDE DEF v
<1>3. Sumas(v) \in [SUBSET S -> Int] /\ Sumas(v)[{}] = 0
  BY <1>1, <1>2, SumsExist, SumOfNothing
<1> QED BY <1>2, <1>3

-----------------------------------------------------------------------------
(* What a finding claims *)

\* An amount is rounded to a number of centavos, half of one off at most (_cell,
\* and round in evidencia.py).
LEMMA RoundedAmount ==
    ASSUME NEW x \in Int
    PROVE  /\ redondeo(x) \in Int
           /\ \E n \in Int : redondeo(x) = Centavo * n
           /\ 2 * (redondeo(x) - x) <= Centavo /\ 2 * (x - redondeo(x)) <= Centavo
<1> DEFINE q == x \div Centavo
           r == x % Centavo
           n == IF 2 * r > Centavo \/ (2 * r = Centavo /\ q % 2 = 1) THEN q + 1 ELSE q
<1>1. q \in Int /\ r \in Int /\ 0 <= r /\ r < Centavo
  BY CentavosHaveParts, SMT
<1>2. x = Centavo * q + r
  BY CentavosHaveParts, SMT
<1>3. redondeo(x) = Centavo * n
  BY DEF redondeo
<1>4. n \in Int /\ ((n = q /\ 2 * r <= Centavo) \/ (n = q + 1 /\ 2 * r >= Centavo))
  BY <1>1, CentavosHaveParts
<1>5. Centavo * q \in Int /\ Centavo * (q + 1) = Centavo * q + Centavo
  BY <1>1, CentavosHaveParts
<1> HIDE DEF n, q, r
<1>6. \/ redondeo(x) = x - r /\ 2 * r <= Centavo
      \/ redondeo(x) = x - r + Centavo /\ 2 * r >= Centavo
  BY <1>1, <1>2, <1>3, <1>4, <1>5, CentavosHaveParts
<1>7. /\ redondeo(x) \in Int
      /\ 2 * (redondeo(x) - x) <= Centavo /\ 2 * (x - redondeo(x)) <= Centavo
  BY <1>1, <1>6, CentavosHaveParts
<1> QED BY <1>3, <1>4, <1>7

\* What is not negative stays so.
LEMMA RoundedSign ==
    ASSUME NEW x \in Int, x >= 0
    PROVE  redondeo(x) >= 0
<1>1. PICK n \in Int : redondeo(x) = Centavo * n
  BY RoundedAmount
<1>2. SUFFICES ASSUME n <= -1 PROVE FALSE
  <2>1. CASE n >= 0
    BY <1>1, <2>1, CentavosHaveParts
  <2> QED BY <2>1
<1>3. Centavo * n <= -Centavo /\ Centavo * n \in Int
  BY <1>2, CentavosHaveParts
<1>4. 2 * (x - redondeo(x)) <= Centavo
  BY RoundedAmount
<1> HIDE DEF redondeo
<1> QED BY <1>1, <1>3, <1>4, CentavosHaveParts

\* Two numbers of centavos that are less than one apart are the same.
LEMMA CentavosAreApart ==
    ASSUME NEW n \in Int, NEW m \in Int, Centavo * n - Centavo * m < Centavo
    PROVE  Centavo * n <= Centavo * m
<1>1. SUFFICES ASSUME n >= m + 1 PROVE FALSE
  <2>1. CASE n <= m
    BY <2>1, CentavosHaveParts
  <2> QED BY <2>1
<1>2. Centavo * (n - m) >= Centavo
  <2>1. n - m >= 1 /\ n - m \in Int
    BY <1>1
  <2> DEFINE k == n - m
  <2> HIDE DEF k
  <2>2. k >= 1 /\ k \in Int => Centavo * k >= Centavo
    BY CentavosHaveParts
  <2> QED BY <2>1, <2>2 DEF k
<1>3. Centavo * (n - m) = Centavo * n - Centavo * m
  BY CentavosHaveParts
<1>4. Centavo * n \in Int /\ Centavo * m \in Int
  BY CentavosHaveParts
<1> QED BY <1>2, <1>3, <1>4, CentavosHaveParts

DeMonto == {"invoices", "bank_txns", "purchase_orders", "contracts"}

LEMMA TotalsAreWhole ==
    ASSUME estate \in Estates, NEW cl, ~Rota(cl), NEW t \in DeMonto
    PROVE  /\ Total(exhibits(cl), t) \in Int
           /\ Total(exhibits(cl), t) # 0 => \E ex \in exhibits(cl) : ex.tabla = t
<1> DEFINE E == {ex \in exhibits(cl) : ex.tabla = t}
           filas == {[tabla |-> t, fila |-> f] : f \in estate[t]}
           de == [f \in estate[t] |-> [tabla |-> t, fila |-> f]]
<1>1. IsFiniteSet(estate[t])
  BY EstatesAreFinite DEF DeMonto, Tablas
<1>2. de \in Surjection(estate[t], filas)
  BY DEF Surjection
<1>3. IsFiniteSet(filas)
  <2> HIDE DEF de, filas
  <2> QED BY <1>1, <1>2, FS_Surjection
<1>4. \A ex \in E : ex = [tabla |-> t, fila |-> ex.fila] /\ ex.fila \in estate[t]
  BY ExhibitsCite
<1>5. E \subseteq filas
  BY <1>4
<1>6. IsFiniteSet(E)
  BY <1>3, <1>5, FS_Subset
<1>7. \A ex \in E : Importe(ex) \in Int
  BY <1>4, AmountsAreWhole DEF Importe, DeMonto
<1>8. Total(exhibits(cl), t) = MapThenSumSet(Importe, E)
  BY DEF Total
<1> HIDE DEF E
<1>9. MapThenSumSet(Importe, E) \in Int /\ (E = {} => MapThenSumSet(Importe, E) = 0)
  BY <1>6, <1>7, SumOfIntegers
<1> QED BY <1>8, <1>9 DEF E

\* The claim is the total, rounded, of a table that the finding has exhibits of.
LEMMA ClaimIsATotal ==
    ASSUME AuditInv, NEW h \in hallazgos
    PROVE  \E t \in DeMonto : /\ h.tabla = t /\ h.monto = redondeo(Total(h.exhibits, t))
                              /\ Total(h.exhibits, t) \in Int /\ Total(h.exhibits, t) > 0
                              /\ \E ex \in h.exhibits : ex.tabla = t
<1> DEFINE cl == h.cluster
           con == ConMonto(cl.esquema, exhibits(cl))
           i == Min(con)
           t == PRIORIDAD_MONTO(cl.esquema)[i]
<1>1. \A j \in 1..4 : PRIORIDAD_MONTO(cl.esquema)[j] \in DeMonto
  BY DEF PRIORIDAD_MONTO, DeMonto
<1>2. con # {}
  BY FindingsOf DEF Motivo
<1>3. con \subseteq 1..4 /\ \A j \in con : Total(exhibits(cl), PRIORIDAD_MONTO(cl.esquema)[j]) > 0
  BY DEF ConMonto
<1>4. i \in con
  <2> HIDE DEF con
  <2>1. \E n \in con : \A m \in con : n <= m
    BY <1>2, <1>3, LeastNumber
  <2> QED BY <2>1 DEF Min
<1>5. t \in DeMonto /\ Total(exhibits(cl), t) > 0
  <2> HIDE DEF con, i
  <2> QED BY <1>1, <1>3, <1>4
<1>6. h.tabla = t /\ h.monto = redondeo(Total(exhibits(cl), t)) /\ h.exhibits = exhibits(cl)
  <2>1. h = Hallazgo(cl) /\ h.exhibits = exhibits(cl)
    BY FindingsOf
  <2>2. Hallazgo(cl).tabla = t /\ Hallazgo(cl).monto = redondeo(Total(exhibits(cl), t))
    BY DEF Hallazgo, compute_peso_amount
  <2> QED BY <2>1, <2>2
<1>7. estate \in Estates /\ ~Rota(cl)
  BY FindingsOf DEF AuditInv, Signalled
<1> HIDE DEF t
<1> QED BY <1>5, <1>6, <1>7, TotalsAreWhole

\* So it is fit to be published: the total that it was taken from is half a
\* centavo off at most.
LEMMA FindingsPublishable ==
    ASSUME AuditInv, NEW h \in hallazgos
    PROVE  /\ Publicable(h) /\ h.entidades # {}
           /\ h.monto > 0 \/ 2 * Total(h.exhibits, h.tabla) <= Centavo
<1> DEFINE conMonto == {"invoices", "bank_txns", "purchase_orders", "contracts"}
           totales == {Total(h.exhibits, u) :
                           u \in {u \in conMonto : \E ex \in h.exhibits : ex.tabla = u}}
           Lejos(u) == IF u > h.monto THEN u - h.monto ELSE h.monto - u
<1>1. PICK t \in DeMonto : /\ h.tabla = t /\ h.monto = redondeo(Total(h.exhibits, t))
                           /\ Total(h.exhibits, t) \in Int /\ Total(h.exhibits, t) > 0
                           /\ \E ex \in h.exhibits : ex.tabla = t
  BY ClaimIsATotal
<1> DEFINE total == Total(h.exhibits, t)
<1>2. /\ total \in Int /\ h.monto \in Int
      /\ 2 * (h.monto - total) <= Centavo /\ 2 * (total - h.monto) <= Centavo
  <2> HIDE DEF total
  <2> QED BY <1>1, RoundedAmount DEF total
<1>3. total \in totales /\ 2 * Lejos(total) <= Centavo
  <2>1. total \in totales
    BY <1>1 DEF DeMonto
  <2> HIDE DEF total
  <2> QED BY <1>2, <2>1
<1>4. \A u \in totales : u \in Int
  <2>1. h.exhibits = exhibits(h.cluster) /\ ~Rota(h.cluster) /\ estate \in Estates
    BY FindingsOf DEF AuditInv, Signalled
  <2> QED BY <2>1, TotalsAreWhole DEF DeMonto
<1> HIDE DEF totales, total
<1>5. PICK x \in totales : \A u \in totales : Lejos(x) <= Lejos(u)
  <2> DEFINE B == {Lejos(u) : u \in totales}
  <2>1. \A u \in totales : Lejos(u) \in Nat
    BY <1>2, <1>4
  <2> HIDE DEF Lejos
  <2>2. B \in SUBSET Nat /\ B # {}
    BY <1>3, <2>1
  <2>3. PICK k \in B : \A j \in B : k <= j
    <3> HIDE DEF B
    <3> QED BY <2>2, LeastNumber
  <2> QED BY <2>3
<1>6. 2 * Lejos(x) <= Centavo /\ Lejos(x) \in Int
  <2>1. Lejos(x) <= Lejos(total) /\ Lejos(x) \in Int /\ Lejos(total) \in Int
    BY <1>2, <1>3, <1>4, <1>5
  <2> HIDE DEF Lejos
  <2> QED BY <1>3, <2>1, CentavosHaveParts
<1>7. Reconcilia(h)
  <2>1. 100 * Centavo <= Max({x, 100 * Centavo}) /\ Max({x, 100 * Centavo}) \in Int
    <3> DEFINE y == 100 * Centavo
               P == {x, y}
    <3>1. x \in Int /\ y \in Int
      BY <1>4, CentavosHaveParts
    <3> HIDE DEF y
    <3>2. \E m \in P : \A n \in P : m >= n
      BY <3>1
    <3>3. Max(P) \in P /\ \A n \in P : Max(P) >= n
      <4> HIDE DEF P
      <4> QED BY <3>2 DEF Max
    <3>4. y <= Max(P) /\ Max(P) \in Int
      BY <3>1, <3>3
    <3> QED BY <3>4 DEF y
  <2> DEFINE m == Max({x, 100 * Centavo})
  <2>2. 50 * Lejos(x) <= m
    <3> HIDE DEF m, Lejos
    <3> QED BY <1>6, <2>1, CentavosHaveParts DEF m
  <2> QED BY <1>5, <2>2 DEF Reconcilia, totales
<1>8. ~(Cardinality(h.exhibits) < MIN_EXHIBITS)
  BY FindingsOf DEF Motivo
<1>9. h.entidades # {}
  BY FindingsOf DEF SinAcusados
<1>10. h.monto > 0 \/ 2 * Total(h.exhibits, h.tabla) <= Centavo
  <2>1. h.monto > 0 \/ 2 * total <= Centavo
    BY <1>2, CentavosHaveParts
  <2> QED BY <1>1, <2>1 DEF total
<1> QED BY <1>7, <1>8, <1>9, <1>10 DEF Publicable

-----------------------------------------------------------------------------
(* What is cited *)

\* The citation is of a row, though registro may not find it.
DeFila(c) == c[1] \in Tablas /\ \E f \in estate[c[1]] : f.id = c[2]

\* What the rules that also cite a listing or a vendor have seen.
LEMMA RulesSaw ==
    ASSUME NEW s \in Senales
    PROVE  /\ s.regla \in DeLista => efos_por_rfc(s.entidad) # {}
           /\ s.regla = "VENDOR_SHORT_LIFECYCLE" => vendors_por_rfc(s.entidad) # {}
<1>1. \A r, i : DeFactura(r, i).regla = r /\ DeFactura(r, i).entidad = i.emisor
  BY DEF DeFactura, Senal
<1>2. s \in EFOS_DIRECT_MATCH \cup EFOS_PRESUNTO_MATCH \cup EFOS_POST_DATED =>
          efos_por_rfc(s.entidad) # {} /\ s.regla \in DeLista
  BY <1>1 DEF EFOS_DIRECT_MATCH, EFOS_PRESUNTO_MATCH, EFOS_POST_DATED, Listado, DeLista
<1>3. s \in VENDOR_SHORT_LIFECYCLE =>
          vendors_por_rfc(s.entidad) # {} /\ s.regla = "VENDOR_SHORT_LIFECYCLE"
  BY <1>1 DEF VENDOR_SHORT_LIFECYCLE
<1>4. s \in INVOICE_NO_PO_NO_CONTRACT => s.regla = "INVOICE_NO_PO_NO_CONTRACT"
  BY <1>1 DEF INVOICE_NO_PO_NO_CONTRACT
<1>5. s \in SHARED_CLABE_MULTI_RFC => s.regla = "SHARED_CLABE_MULTI_RFC"
  BY DEF SHARED_CLABE_MULTI_RFC, Senal
<1>6. s \in OUTBOUND_TO_SUSPECT_ENTITY => s.regla = "OUTBOUND_TO_SUSPECT_ENTITY"
  BY DEF OUTBOUND_TO_SUSPECT_ENTITY, Senal
<1>7. s \in PAYMENT_TO_EMPLOYEE_ACCOUNT => s.regla = "PAYMENT_TO_EMPLOYEE_ACCOUNT"
  BY DEF PAYMENT_TO_EMPLOYEE_ACCOUNT, Senal
<1>8. s \in NO_SEGREGATION_OF_DUTIES => s.regla = "NO_SEGREGATION_OF_DUTIES"
  BY DEF NO_SEGREGATION_OF_DUTIES, Senal
<1> QED BY <1>2, <1>3, <1>4, <1>5, <1>6, <1>7, <1>8 DEF Senales, DeLista

LEMMA SignalsCiteRows ==
    ASSUME NEW s \in Senales, NEW c \in citar_senal(s)
    PROVE  DeFila(c)
<1>1. \/ s.regla = "SHARED_CLABE_MULTI_RFC" /\ c \in {"vendors"} \X s.contexto
      \/ s.regla # "SHARED_CLABE_MULTI_RFC" /\ c = <<s.tabla, s.id>>
      \/ s.regla \in DeLista /\ c = <<"efos_list", s.entidad>>
      \/ s.regla = "VENDOR_SHORT_LIFECYCLE" /\ c = <<"vendors", s.entidad>>
      \/ s.regla = "PAYMENT_TO_EMPLOYEE_ACCOUNT" /\ c = <<"employees", s.entidad>>
  BY DEF citar_senal
<1>2. CASE s.regla = "SHARED_CLABE_MULTI_RFC" /\ c \in {"vendors"} \X s.contexto
  <2>1. EsCompartida(s)
    BY <1>2, SignalForms, SignalSchemes DEF DeFacturas
  <2>2. PICK d \in Compartidas : s.contexto = Rfcs(d)
    BY <2>1 DEF EsCompartida, Senal
  <2>3. c[1] = "vendors" /\ c[2] \in Rfcs(d)
    BY <1>2, <2>2
  <2>4. \E v \in estate.vendors : v.id = c[2]
    BY <2>3 DEF Rfcs, vendors_por_clabe
  <2> QED BY <2>3, <2>4 DEF DeFila, Tablas
<1>3. CASE s.regla # "SHARED_CLABE_MULTI_RFC" /\ c = <<s.tabla, s.id>>
  <2>1. EsDeFactura(s) => s.tabla = "invoices" /\ \E f \in estate.invoices : f.id = s.id
    BY DEF EsDeFactura, DeFactura, Senal
  <2>2. EsSalida(s) \/ EsPago(s) => s.tabla = "bank_txns" /\ \E f \in estate.bank_txns : f.id = s.id
    BY DEF EsSalida, EsPago, Senal
  <2>3. EsOrden(s) => s.tabla = "purchase_orders" /\ \E f \in estate.purchase_orders : f.id = s.id
    BY DEF EsOrden, Senal
  <2>4. s.tabla \in Tablas /\ \E f \in estate[s.tabla] : f.id = s.id
    BY <1>3, <2>1, <2>2, <2>3, SignalForms, SignalSchemes DEF Tablas
  <2> QED BY <1>3, <2>4 DEF DeFila
<1>4. CASE s.regla \in DeLista /\ c = <<"efos_list", s.entidad>>
  BY <1>4, RulesSaw DEF DeFila, efos_por_rfc, Tablas
<1>5. CASE s.regla = "VENDOR_SHORT_LIFECYCLE" /\ c = <<"vendors", s.entidad>>
  BY <1>5, RulesSaw DEF DeFila, vendors_por_rfc, Tablas
<1>6. CASE s.regla = "PAYMENT_TO_EMPLOYEE_ACCOUNT" /\ c = <<"employees", s.entidad>>
  <2>1. EsPago(s)
    BY <1>6, SignalForms, SignalSchemes DEF DeFacturas
  <2>2. \E e \in estate.employees : e.id = s.entidad
    BY <2>1 DEF EsPago, Senal
  <2> QED BY <1>6, <2>2 DEF DeFila, Tablas
<1> QED BY <1>1, <1>2, <1>3, <1>4, <1>5, <1>6

LEMMA ClustersCiteRows ==
    ASSUME NEW cl, cl.senales \subseteq Senales, NEW c \in citas(cl)
    PROVE  DeFila(c)
<1>1. ASSUME NEW q, NEW r, c \in DeProveedor(q, r)
      PROVE  DeFila(c)
  <2> DEFINE pagos == UNION {pagos_a_clabe(v.clabe) : v \in {v \in vendors_por_rfc(r) : v.clabe # Nadie}}
  <2>1. \/ c = <<"vendors", r>> /\ vendors_por_rfc(r) # {}
        \/ c = <<"efos_list", r>> /\ efos_por_rfc(r) # {}
        \/ c \in {<<"invoices", i.id>> : i \in facturas_emitidas_por(r)}
        \/ c \in {<<"bank_txns", b.id>> : b \in pagos}
    BY <1>1 DEF DeProveedor
  <2>2. pagos \subseteq estate.bank_txns
    BY DEF pagos_a_clabe
  <2> HIDE DEF pagos
  <2> QED BY <2>1, <2>2 DEF DeFila, Tablas, vendors_por_rfc, efos_por_rfc, facturas_emitidas_por
<1>2. ASSUME NEW x, c \in DeEmpleado(x)
      PROVE  DeFila(c)
  <2> DEFINE ordenes == autorizaciones_de(x, MAX_AUTORIZACIONES_CONTEXTO)
  <2>1. \/ c = <<"employees", x>> /\ employees_por_nombre(x) # {}
        \/ c \in {<<"purchase_orders", o.id>> : o \in ordenes}
    BY <1>2 DEF DeEmpleado
  <2>2. ordenes \subseteq estate.purchase_orders
    BY DEF autorizaciones_de
  <2> HIDE DEF ordenes
  <2> QED BY <2>1, <2>2 DEF DeFila, Tablas, employees_por_nombre
<1> QED BY <1>1, <1>2, CitationsOf, SignalsCiteRows

\* An audit fails only for an untidy id: a citation that registro does not find
\* (evidencia.py, build_exhibits), or one of two rows (validate_format.py); or
\* for a claim of half a centavo, which is rounded to nothing.
THEOREM UntidyIdsFail == ViewSpec => []OnlyUntidyIdsFail
<1>1. ASSUME AuditInv, fase = "error"
      PROVE  \E t \in Tablas \ PorRfc : \E fila \in estate[t] : fila.espacios
  <2>1. PICK cl \in clusters : Rota(cl)
    BY <1>1, FindingsPublishable DEF AuditInv, Refused
  <2>2. PICK c \in citas(cl) : registro(c[1], c[2]) = {}
    BY <2>1 DEF Rota
  <2>3. cl \in Todos /\ senales \subseteq Senales
    BY <1>1, <2>1 DEF AuditInv, Signalled, Answered
  <2>4. cl.senales \subseteq senales
    <3>1. PICK esquema \in Esquemas : cl \in Clusters(esquema)
      BY <2>3 DEF Todos
    <3> QED BY <3>1, ClustersAre DEF Grupo, DelEsquema
  <2>5. DeFila(c)
    BY <2>2, <2>3, <2>4, ClustersCiteRows
  <2>6. PICK f \in estate[c[1]] : f.id = c[2]
    BY <2>5 DEF DeFila
  <2>7. c[1] \in Tablas \ PorRfc /\ f.espacios
    BY <2>2, <2>5, <2>6 DEF registro, DeFila
  <2> QED BY <2>6, <2>7
<1>2. ASSUME AuditInv, fase = "retenido"
      PROVE  \E h \in publicados :
                CitaRepetida(h) \/ 2 * Total(h.exhibits, h.tabla) <= Centavo
  <2>1. PICK lee \in Lecturas, h \in publicados : Falla(h, lee)
    BY <1>2 DEF AuditInv, Refused
  <2>2. h \in hallazgos
    BY <1>2 DEF AuditInv, InOrder
  <2>3. SUFFICES ASSUME ~CitaRepetida(h), ~(2 * Total(h.exhibits, h.tabla) <= Centavo)
                 PROVE  FALSE
    OBVIOUS
  <2>4. Leidos(h, lee) = h.exhibits
    BY <2>3 DEF Leidos, CitaRepetida
  <2>5. [h EXCEPT !.exhibits = h.exhibits] = h
    <3>1. h = Hallazgo(h.cluster)
      BY <1>2, <2>2, FindingsOf
    <3>2. \A x : [Hallazgo(x) EXCEPT !.exhibits = Hallazgo(x).exhibits] = Hallazgo(x)
      BY DEF Hallazgo
    <3> QED BY <3>1, <3>2
  <2> QED BY <1>2, <2>1, <2>2, <2>3, <2>4, <2>5, FindingsPublishable DEF Falla
<1>3. AuditInv => OnlyUntidyIdsFail
  BY <1>1, <1>2 DEF OnlyUntidyIdsFail
<1> QED BY <1>3, AuditInvariant, PTL

-----------------------------------------------------------------------------
(* The views *)

\* A case file is open only of an audit that is done.
OpenAtTheEnd == Abierto => fase = "fin"
\* Of the rows of a repeated id the index has a first and a last one.
ReadOnce == indice \subseteq Ordenes
\* What the validator let pass claims something.
Claimed == fase = "fin" => \A h \in publicados : h.monto > 0
ViewInv == AuditInv /\ OpenAtTheEnd /\ ReadOnce /\ Claimed

\* Nothing happens in the audit once it is done.
LEMMA DoneIsDone ==
    ASSUME fase = "fin"
    PROVE  ~AuditNext
BY DEF AuditNext, ejecutar_reglas, agrupar, resolver, CitaInexistente, Resueltos,
       traducir_finding, build_submission, validar

\* The case file is that of the audit as it ended (casefile/service.py, which
\* reads the submission of a run that is done).
THEOREM ViewInvariant == ViewSpec => []ViewInv
<1>1. ViewInit => OpenAtTheEnd /\ ReadOnce /\ Claimed
  BY DEF ViewInit, AuditInit, Abierto, OpenAtTheEnd, ReadOnce, Claimed
<1>2. OpenAtTheEnd /\ [ViewNext]_viewVars => OpenAtTheEnd'
  <2> SUFFICES ASSUME OpenAtTheEnd, [ViewNext]_viewVars, Abierto'
               PROVE  fase' = "fin"
    BY DEF OpenAtTheEnd
  <2>1. CASE AuditNext /\ UNCHANGED <<indice, pagina>>
    BY <2>1, DoneIsDone DEF Abierto, OpenAtTheEnd
  <2>2. CASE build_index
    BY <2>2 DEF build_index, auditVars
  <2>3. CASE UNCHANGED <<auditVars, indice>>
    BY <2>3 DEF auditVars, Abierto, OpenAtTheEnd
  <2> QED BY <2>1, <2>2, <2>3 DEF ViewNext, viewVars, get_records, records_page
<1>3. OpenAtTheEnd /\ ReadOnce /\ [ViewNext]_viewVars => ReadOnce'
  <2> SUFFICES ASSUME OpenAtTheEnd, ReadOnce, [ViewNext]_viewVars
               PROVE  ReadOnce'
    OBVIOUS
  <2>1. CASE AuditNext /\ UNCHANGED <<indice, pagina>>
    <3>1. indice = {} /\ indice' = {}
      BY <2>1, DoneIsDone DEF Abierto, OpenAtTheEnd
    <3> QED BY <3>1 DEF ReadOnce
  <2>2. CASE build_index
    <3>1. UNCHANGED estate /\ indice' \subseteq Ordenes
      BY <2>2 DEF build_index, auditVars
    <3>2. Ordenes' = Ordenes
      BY <3>1, SameReadings
    <3> QED BY <3>1, <3>2 DEF ReadOnce
  <2>3. CASE UNCHANGED <<auditVars, indice>>
    <3>1. UNCHANGED estate /\ UNCHANGED indice
      BY <2>3 DEF auditVars
    <3>2. Ordenes' = Ordenes
      BY <3>1, SameReadings
    <3> QED BY <3>1, <3>2 DEF ReadOnce
  <2> QED BY <2>1, <2>2, <2>3 DEF ViewNext, viewVars, get_records, records_page
<1>4. Claimed /\ [ViewNext]_viewVars => Claimed'
  <2> SUFFICES ASSUME Claimed, [ViewNext]_viewVars, fase' = "fin", NEW h \in publicados'
               PROVE  h.monto > 0
    BY DEF Claimed
  <2>1. CASE AuditNext /\ UNCHANGED <<indice, pagina>>
    <3>1. validar
      BY <2>1 DEF AuditNext, ejecutar_reglas, agrupar, resolver, CitaInexistente, Resueltos,
                  traducir_finding, build_submission
    <3> QED BY <3>1 DEF validar
  <2>2. CASE build_index
    BY <2>2 DEF build_index, auditVars, Claimed
  <2>3. CASE UNCHANGED <<auditVars, indice>>
    BY <2>3 DEF auditVars, Claimed
  <2> QED BY <2>1, <2>2, <2>3 DEF ViewNext, viewVars, get_records, records_page
<1> QED BY <1>1, <1>2, <1>3, <1>4, AuditInvariant, PTL DEF ViewSpec, ViewInv

\* A finding accuses vendors and employees, never the company.
LEMMA WhoIsAccused ==
    ASSUME AuditInv, NEW h \in hallazgos, NEW id \in entities(h)
    PROVE  /\ id \notin company_id
           /\ \E e \in h.entidades : id = format_entity_id(e) /\ e.tipo \in TIPOS_ACUSABLES
           /\ id[1] \in {"RFC", "EMP"}
<1>1. PICK e \in h.entidades : id = format_entity_id(e)
  BY DEF entities
<1>2. e \in acusables(h.cluster)
  BY <1>1, FindingsOf
<1>3. PICK s : e \in de_senal(s) /\ e.tipo \in TIPOS_ACUSABLES
  BY <1>2 DEF acusables, entidades
<1>4. CASE e.tipo = "rfc"
  <2>1. id = <<"RFC", e.canonico>>
    BY <1>1, <1>4 DEF format_entity_id, PREFIJOS
  <2>2. e.canonico \notin empresa.rfc
    BY <1>3, <1>4, RfcEntity, OfRfc
  <2>3. id[1] = "RFC" /\ id \notin company_id
    BY <2>1, <2>2 DEF company_id
  <2> QED BY <1>1, <1>3, <2>3
<1>5. CASE e.tipo = "employee"
  <2>1. id = <<"EMP", e.canonico>>
    BY <1>1, <1>5 DEF format_entity_id, PREFIJOS
  <2>3. id[1] = "EMP" /\ id \notin company_id
    BY <2>1 DEF company_id
  <2> QED BY <1>1, <1>3, <2>3
<1> QED BY <1>3, <1>4, <1>5 DEF TIPOS_ACUSABLES

\* The vendors and the employees among whom the holder of an account is.
Titulares(c) == {v.id : v \in {v \in vendors_por_clabe(c) : v \in ultima("vendors", v.id)}}
DeNomina(c) == {e.id : e \in employees_por_clabe(c)} \ {Nadie}

LEMMA FirstOwner ==
    ASSUME estate \in Estates, NEW c
    PROVE  /\ Titulares(c) # {} =>
                 Min(Titulares(c)) \in Titulares(c) /\ Min(Titulares(c)) # Nadie
           /\ DeNomina(c) # {} => Min(DeNomina(c)) \in DeNomina(c)
<1>1. ASSUME NEW B \in SUBSET Nat, B # {}
      PROVE  Min(B) \in B
  BY <1>1, LeastNumber DEF Min
<1>2. Titulares(c) \in SUBSET Nat
  BY IdsAreOrdered DEF Titulares, vendors_por_clabe, Tablas
<1>3. DeNomina(c) \in SUBSET Nat
  BY IdsAreOrdered DEF DeNomina, employees_por_clabe, Tablas
<1>4. \A r \in Titulares(c) : r # Nadie
  BY DEF Titulares, ultima
<1> QED BY <1>1, <1>2, <1>3, <1>4

\* Whom the index takes for the holder.
LEMMA HolderOfAccount ==
    ASSUME NEW c
    PROVE  /\ c # Nadie /\ Titulares(c) # {} => dueno(c) = <<"RFC", Min(Titulares(c))>>
           /\ c # Nadie /\ Titulares(c) = {} /\ DeNomina(c) # {} =>
                 dueno(c) = <<"EMP", Min(DeNomina(c))>>
           /\ c = Nadie \/ (Titulares(c) = {} /\ DeNomina(c) = {}) => dueno(c) = <<"CLABE", c>>
BY DEF dueno, Titulares, DeNomina

\* The last row of an id that is not repeated is its row.
LEMMA OnlyRowIsLast ==
    ASSUME ReadOnce, NEW t \in Tablas, NEW f \in estate[t], f.id # Nadie, ~Repetida(t, f.id)
    PROVE  f \in ultima(t, f.id)
<1>1. <<t, f.id>> \notin Repetidas
  <2>1. \A u, g : <<t, f.id>> = <<u, g.id>> => u = t /\ g.id = f.id
    OBVIOUS
  <2> QED BY <2>1 DEF Repetidas
<1>2. \A orden \in indice : DOMAIN orden.ultimas = Repetidas
  BY DEF ReadOnce, Ordenes, Lecturas
<1> QED BY <1>1, <1>2 DEF ultima

\* An account stands for the company or for its first owner.
LEMMA OwnerOfAccount ==
    ASSUME NEW c
    PROVE  clabe_owner(c) \in company_id \/ clabe_owner(c) = dueno(c)
<1>1. company_id # {} => (CHOOSE id \in company_id : TRUE) \in company_id
  OBVIOUS
<1> QED BY <1>1 DEF clabe_owner

\* Who shows a signal is in its cluster, if it is not the company, or an
\* employee that holds an account which vendors share.
LEMMA WhoShowsSignals ==
    ASSUME estate \in Estates, NEW s \in senales, senales \subseteq Senales,
           NEW id \in resolve(s), id \notin company_id, id[1] # "CLABE"
    PROVE  \/ \E e \in de_senal(s) : format_entity_id(e) = id /\ e.tipo \in TIPOS_ACUSABLES
           \/ id[1] = "EMP" /\ \E c \in Compartidas : clabe_owner(c) = id
<1>1. \A r : r # Nadie /\ <<"RFC", r>> = id =>
          /\ Rfc(r) = {Entidad("rfc", r)}
          /\ format_entity_id(Entidad("rfc", r)) = id /\ Entidad("rfc", r).tipo \in TIPOS_ACUSABLES
  BY DEF Rfc, Entidad, format_entity_id, PREFIJOS, TIPOS_ACUSABLES, company_id
<1>2. \A x : x # Nadie /\ <<"EMP", x>> = id =>
          /\ Empleado(x) = {Entidad("employee", x)}
          /\ format_entity_id(Entidad("employee", x)) = id
          /\ Entidad("employee", x).tipo \in TIPOS_ACUSABLES
  BY DEF Empleado, Entidad, format_entity_id, PREFIJOS, TIPOS_ACUSABLES
<1>3. \A r : <<"RFC", r>> \in catalogo => r # Nadie \/ <<"RFC", r>> \in company_id
  BY DEF catalogo, Ids
<1>4. \A x : <<"EMP", x>> \in catalogo => x # Nadie /\ employees_por_nombre(x) # {}
  BY DEF catalogo, Ids, employees_por_nombre, company_id
<1>5. CASE EsCompartida(s)
  <2>1. PICK c \in Compartidas : s.contexto = Rfcs(c) /\ s.entidad = c
    BY <1>5 DEF EsCompartida, Senal
  <2>2. s.regla = "SHARED_CLABE_MULTI_RFC"
    BY <1>5, SignalSchemes
  <2>3. id = clabe_owner(c) /\ id = dueno(c) /\ c # Nadie
    <3>1. id = clabe_owner(s.entidad)
      BY <2>2 DEF resolve, DeKickback
    <3>2. c # Nadie
      BY DEF Compartidas
    <3> QED BY <2>1, <3>1, <3>2, OwnerOfAccount
  <2>4. CASE Titulares(c) # {}
    <3> DEFINE r == Min(Titulares(c))
    <3>1. r \in Titulares(c) /\ r # Nadie /\ id = <<"RFC", r>>
      BY <2>3, <2>4, FirstOwner, HolderOfAccount
    <3>2. r \in Rfcs(c)
      BY <3>1 DEF Titulares, Rfcs
    <3>3. Rfc(r) \subseteq de_senal(s)
      BY <2>1, <2>2, <3>2 DEF de_senal
    <3> HIDE DEF r
    <3> QED BY <1>1, <3>1, <3>3
  <2>5. CASE Titulares(c) = {} /\ DeNomina(c) # {}
    <3>1. id[1] = "EMP"
      BY <2>3, <2>5, HolderOfAccount
    <3> QED BY <2>1, <2>3, <3>1
  <2>6. CASE Titulares(c) = {} /\ DeNomina(c) = {}
    <3>1. dueno(c)[1] = "CLABE"
      BY <2>6, HolderOfAccount
    <3> QED BY <2>3, <3>1
  <2> QED BY <2>4, <2>5, <2>6
<1>6. CASE EsDeFactura(s) \/ EsSalida(s)
  <2>1. s.regla \in DeFacturas \cup {"OUTBOUND_TO_SUSPECT_ENTITY"}
    BY <1>6, SignalSchemes
  <2>2. id = <<"RFC", s.entidad>> /\ id \in catalogo /\ de_senal(s) = Rfc(s.entidad)
    BY <2>1 DEF resolve, de_senal, DeFacturas, DeKickback
  <2> QED BY <1>1, <1>3, <2>2
<1>7. CASE EsPago(s) \/ EsOrden(s)
  <2>1. s.regla \in DeKickback
    BY <1>7, SignalSchemes DEF DeKickback
  <2>2. id = <<"EMP", s.entidad>> /\ id \in catalogo
    BY <2>1 DEF resolve, DeKickback
  <2>3. s.entidad # Nadie /\ employees_por_nombre(s.entidad) # {}
    BY <1>4, <2>2
  <2>4. Entidad("employee", s.entidad) \in Empleado(s.entidad)
    BY <1>2, <2>2, <2>3
  <2>5. Entidad("employee", s.entidad).tipo # "clabe"
    BY DEF Entidad
  <2>6. Entidad("employee", s.entidad) \in de_senal(s)
    BY <2>1, <2>3, <2>4, <2>5 DEF de_senal, DeKickback, Persona
  <2> QED BY <1>2, <2>2, <2>3, <2>6
<1> QED BY <1>5, <1>6, <1>7, SignalForms

\* The summary names as accused those whom a finding accuses, counts the
\* others among the declined, and has a lead for each other signal (views.py,
\* case_view and entities_by_status; index.py, _analyze), for any estate.
THEOREM FlaggedCounted == ViewSpec => []FlaggedAreCounted
<1>1. ASSUME ViewInv, Leido
      PROVE  entities_by_status("accused") = UNION {entities(h) : h \in publicados}
  <2>1. \A h \in publicados : \A id \in entities(h) : id \in entity_population
    BY <1>1, WhoIsAccused DEF ViewInv, AuditInv, InOrder, entity_population, flagged
  <2>2. \A id : entity_status(id) = "accused" <=> \E h \in publicados : id \in entities(h)
    BY DEF entity_status
  <2> QED BY <2>1, <2>2 DEF entities_by_status
<1>2. ASSUME NEW p \in pistas
      PROVE  principal(p.cluster) \in company_id \cup entities_by_status("accused")
                                                 \cup entities_by_status("declined")
  <2>1. principal(p.cluster) \in flagged
    BY DEF flagged
  <2>2. entity_status(principal(p.cluster)) \in {"accused", "declined"}
    BY DEF entity_status
  <2> QED BY <2>1, <2>2 DEF entities_by_status, entity_population
<1>3. ASSUME ViewInv, Leido, NEW id \in entities_by_status("clear"), signals(id) # {}
      PROVE  \/ \E p \in pistas : id \in {format_entity_id(e) : e \in entidades(p.cluster)}
             \/ id[1] = "EMP" /\ \E c \in Compartidas : clabe_owner(c) = id
  <2> SUFFICES ASSUME ~(id[1] = "EMP" /\ \E c \in Compartidas : clabe_owner(c) = id)
               PROVE  \E p \in pistas : id \in {format_entity_id(e) : e \in entidades(p.cluster)}
    OBVIOUS
  <2>1. /\ id \notin company_id /\ \A h \in publicados : id \notin entities(h)
        /\ id[1] # "CLABE"
    <3>1. id \notin company_id /\ id \in catalogo \cup flagged /\ entity_status(id) = "clear"
      BY <1>3 DEF entities_by_status, entity_population
    <3>2. id \notin flagged
      BY <3>1 DEF entity_status, flagged
    <3>3. id[1] # "CLABE"
      BY <3>1, <3>2 DEF catalogo, Ids
    <3> QED BY <3>1, <3>3 DEF entity_status
  <2>2. PICK s \in senales : id \in resolve(s)
    BY <1>3 DEF signals
  <2>3. /\ estate \in Estates /\ senales \subseteq Senales /\ fase = "fin"
        /\ publicados = hallazgos /\ Decididos = Todos
    BY <1>3 DEF ViewInv, OpenAtTheEnd, Leido, AuditInv, Signalled, Answered, InOrder
  <2>4. PICK e \in de_senal(s) : format_entity_id(e) = id /\ e.tipo \in TIPOS_ACUSABLES
    BY <2>1, <2>2, <2>3, WhoShowsSignals
  <2>5. PICK cl \in Todos : s \in cl.senales
    BY <2>3, OneCluster
  <2>6. e \in entidades(cl) /\ e \in acusables(cl)
    BY <2>4, <2>5 DEF entidades, acusables
  <2>7. cl \notin Acusados
    <3> SUFFICES ASSUME NEW h \in hallazgos, h.cluster = cl
                 PROVE  FALSE
      BY DEF Acusados
    <3>1. h.entidades = acusables(cl)
      BY <1>3, FindingsOf DEF ViewInv
    <3>2. id \in entities(h)
      BY <2>4, <2>6, <3>1 DEF entities
    <3> QED BY <2>1, <2>3, <3>2
  <2>8. PICK p \in pistas : p.cluster = cl
    BY <2>3, <2>7 DEF Decididos, Cerrados
  <2> QED BY <2>4, <2>6, <2>8
<1>4. ViewInv => FlaggedAreCounted
  BY <1>1, <1>2, <1>3 DEF FlaggedAreCounted
<1> QED BY <1>4, ViewInvariant, PTL

\* The days of the invoices and the transfers are in the period.
LEMMA InThePeriod ==
    ASSUME estate \in Estates, NEW f \in estate.invoices \cup estate.bank_txns
    PROVE  in_range(f.fecha)
<1>1. periodo \subseteq Int /\ f.fecha \in periodo
  BY DaysAreOrdered DEF periodo, DATE_FIELD, Tablas
<1>2. IsFiniteSet(periodo)
  <2> DEFINE filas == estate.invoices \cup estate.bank_txns
             dia == [g \in filas |-> g.fecha]
  <2>1. IsFiniteSet(filas)
    <3>1. IsFiniteSet(estate["invoices"]) /\ IsFiniteSet(estate["bank_txns"])
      BY EstatesAreFinite DEF Tablas
    <3> QED BY <3>1, FS_Union
  <2>2. dia \in Surjection(filas, periodo)
    BY DEF Surjection, periodo
  <2> HIDE DEF filas, dia
  <2> QED BY <2>1, <2>2, FS_Surjection
<1>3. \E n \in periodo : \A m \in periodo : n <= m
  BY <1>1, <1>2, FirstAndLast
<1>4. \E n \in periodo : \A m \in periodo : n >= m
  BY <1>1, <1>2, FirstAndLast
<1>5. Min(periodo) <= f.fecha
  BY <1>1, <1>3 DEF Min
<1>6. f.fecha <= Max(periodo)
  BY <1>1, <1>4 DEF Max
<1> QED BY <1>5, <1>6 DEF in_range

\* The account of whoever holds it is among its accounts; of an employee, if
\* no other row has its id.
LEMMA AccountOfOwner ==
    ASSUME estate \in Estates, ReadOnce, NEW c, c # Nadie, dueno(c)[1] \in {"RFC", "EMP"},
           dueno(c) \notin company_id,
           dueno(c)[1] = "EMP" => ~Repetida("employees", dueno(c)[2])
    PROVE  c \in clabes(dueno(c))
<1>1. CASE Titulares(c) # {}
  <2>1. dueno(c) = <<"RFC", Min(Titulares(c))>> /\ Min(Titulares(c)) \in Titulares(c)
    BY <1>1, FirstOwner, HolderOfAccount
  <2>2. PICK v \in vendors_por_clabe(c) : v \in ultima("vendors", v.id) /\ v.id = Min(Titulares(c))
    BY <2>1 DEF Titulares
  <2>3. v.clabe = c
    BY DEF vendors_por_clabe
  <2>4. c \in bank_clabe(dueno(c))
    BY <2>1, <2>2, <2>3 DEF bank_clabe
  <2> QED BY <2>4 DEF clabes
<1>2. CASE Titulares(c) = {} /\ DeNomina(c) # {}
  <2>1. dueno(c) = <<"EMP", Min(DeNomina(c))>> /\ Min(DeNomina(c)) \in DeNomina(c)
    BY <1>2, FirstOwner, HolderOfAccount
  <2>2. PICK e \in employees_por_clabe(c) : e.id = Min(DeNomina(c)) /\ e.id # Nadie
    BY <2>1 DEF DeNomina
  <2>3. e \in estate.employees /\ e.clabe = c
    BY DEF employees_por_clabe
  <2>4. ~Repetida("employees", e.id)
    BY <2>1, <2>2
  <2>5. e \in ultima("employees", e.id)
    BY <2>2, <2>3, <2>4, OnlyRowIsLast DEF Tablas
  <2>6. c \in bank_clabe(dueno(c))
    BY <2>1, <2>2, <2>3, <2>5 DEF bank_clabe
  <2> QED BY <2>6 DEF clabes
<1>3. CASE Titulares(c) = {} /\ DeNomina(c) = {}
  <2>1. dueno(c) = <<"CLABE", c>>
    BY <1>3, HolderOfAccount
  <2> QED BY <2>1
<1> QED BY <1>1, <1>2, <1>3

\* The marks of a timeline are on its events (views.py, entity_timeline), but
\* for those of papers out of the period, or of an employee whose id is
\* repeated, for any estate.
THEOREM MarksOnEvents == ViewSpec => []MarksHaveEvents
<1>1. ViewInv => MarksHaveEvents
  <2> SUFFICES ASSUME ViewInv, Leido, NEW h \in publicados, NEW m \in _finding_annotations(h),
                      ~(m.tabla \in {"purchase_orders", "contracts"} /\ ~in_range(m.fila.fecha)),
                      ~(m.entity[1] = "EMP" /\ Repetida("employees", m.entity[2]))
               PROVE  m.fila \in events(m.entity)[m.tabla]
    BY DEF MarksHaveEvents
  <2> DEFINE t == m.tabla
             f == m.fila
             id == m.entity
  <2>1. PICK ex \in h.exhibits : /\ t = ex.tabla /\ t \in ConImporte
                                 /\ f \in row(t, ex.fila.id)
                                 /\ id \in row_entity(t, f) \cap entities(h)
    BY DEF _finding_annotations, _DATED_TABLES
  <2>2. f \in estate[t] /\ f \in row(t, f.id)
    BY <2>1 DEF row
  <2>3. h \in hallazgos /\ AuditInv /\ estate \in Estates
    BY DEF ViewInv, AuditInv, InOrder, Signalled
  <2>4. id \notin company_id /\ id[1] \in {"RFC", "EMP"}
    BY <2>1, <2>3, WhoIsAccused
  <2>5. /\ t \in ConImporte => t \in DOMAIN lanes(id) /\ DATE_FIELD(t, f) = f.fecha
        /\ \A u \in DOMAIN lanes(id) :
              events(id)[u] = {g \in lanes(id)[u] : in_range(DATE_FIELD(u, g))}
    BY DEF lanes, events, ConImporte, DATE_FIELD
  <2> HIDE DEF t, f, id
  <2>6. CASE t = "invoices"
    <3>1. in_range(f.fecha)
      BY <2>2, <2>3, <2>6, InThePeriod
    <3>2. EsDe(id, f.emisor) \/ EsDe(id, f.receptor)
      BY <2>1, <2>4, <2>6 DEF row_entity, Ids, EsDe
    <3>3. f \in lanes(id)["invoices"]
      BY <2>2, <2>6, <3>2 DEF lanes
    <3> QED BY <2>1, <2>5, <2>6, <3>1, <3>3 DEF t, f, id
  <2>7. CASE t = "bank_txns"
    <3>1. in_range(f.fecha)
      BY <2>2, <2>3, <2>7, InThePeriod
    <3>2. PICK c \in {f.origen, f.destino} : c # Nadie /\ id = clabe_owner(c)
      BY <2>1, <2>7 DEF row_entity
    <3>3. id = dueno(c)
      BY <2>4, <3>2, OwnerOfAccount
    <3>4. c \in clabes(id)
      <4>1. id[1] = "EMP" => ~Repetida("employees", id[2])
        BY DEF id
      <4> QED BY <2>3, <2>4, <3>2, <3>3, <4>1, AccountOfOwner DEF ViewInv
    <3>5. f \in lanes(id)["bank_txns"]
      BY <2>2, <2>7, <3>2, <3>4 DEF lanes, txns
    <3> QED BY <2>1, <2>5, <2>7, <3>1, <3>5 DEF t, f, id
  <2>8. CASE t = "contracts"
    <3>1. EsDe(id, f.rfc)
      BY <2>1, <2>4, <2>8 DEF row_entity, Ids, EsDe
    <3>2. f \in lanes(id)["contracts"]
      BY <2>2, <2>8, <3>1 DEF lanes
    <3>3. in_range(f.fecha)
      BY <2>8 DEF t, f
    <3> QED BY <2>1, <2>5, <2>8, <3>2, <3>3 DEF t, f, id
  <2>9. CASE t = "purchase_orders"
    <3>1. EsDe(id, f.rfc)
      BY <2>1, <2>4, <2>9 DEF row_entity, Ids, EsDe
    <3>2. f \in lanes(id)["purchase_orders"]
      BY <2>2, <2>9, <3>1 DEF lanes
    <3>3. in_range(f.fecha)
      BY <2>9 DEF t, f
    <3> QED BY <2>1, <2>5, <2>9, <3>2, <3>3 DEF t, f, id
  <2> QED BY <2>1, <2>6, <2>7, <2>8, <2>9 DEF ConImporte
<1> QED BY <1>1, ViewInvariant, PTL

-----------------------------------------------------------------------------
(* The graph *)

\* The amount of a transfer, to the centavo.
Monto(b) == row_amount("bank_txns", b)

LEMMA AmountOfTransfer ==
    ASSUME estate \in Estates, NEW b \in estate.bank_txns
    PROVE  Monto(b) \in Int /\ (b.monto >= 0 => Monto(b) >= 0)
<1>1. b.monto \in Int
  BY AmountsAreWhole
<1>2. Monto(b) = redondeo(b.monto)
  BY DEF Monto, row_amount, Importe
<1> QED BY <1>1, <1>2, RoundedAmount, RoundedSign

\* The amounts of transfers are added so.
LEMMA SumOfTransfers ==
    ASSUME NEW S, IsFiniteSet(S), \A b \in S : Monto(b) \in Int, NEW v, v = [b \in S |-> Monto(b)]
    PROVE  Numeros(v) /\ Suma(S) = Sumas(v)[S]
<1> DEFINE Es(g) == g = [U \in SUBSET S |->
                            IF U = {} THEN 0
                            ELSE Monto(CHOOSE x \in U : TRUE) + g[U \ {CHOOSE x \in U : TRUE}]]
           iter == CHOOSE g : Es(g)
<1>1. Suma(S) = iter[S]
  BY DEF Suma, Monto, MapThenSumSet, MapThenFoldSet
<1>2. Numeros(v)
  BY DEF Numeros
<1>3. \A g : Es(g) <=> Suman(v, g)
  <2>1. \A U \in SUBSET S : U # {} => v[CHOOSE x \in U : TRUE] = Monto(CHOOSE x \in U : TRUE)
    OBVIOUS
  <2> QED BY <2>1 DEF Suman, Mas
<1> HIDE DEF Es
<1>4. Es(Sumas(v))
  BY <1>2, <1>3, SumsExist
<1>5. Es(iter)
  BY <1>4
<1> HIDE DEF iter
<1>6. iter = Sumas(v)
  BY <1>2, <1>3, <1>5, SumsExist
<1> QED BY <1>1, <1>2, <1>6

\* One of the amounts that are added is not more than the sum.
LEMMA SumHasEach ==
    ASSUME NEW S, IsFiniteSet(S), \A b \in S : Monto(b) \in Int /\ Monto(b) >= 0, NEW x \in S
    PROVE  Monto(x) <= Suma(S)
<1> DEFINE v == [b \in S |-> Monto(b)]
<1>1. DOMAIN v = S /\ \A b \in S : v[b] = Monto(b) /\ v[b] >= 0
  OBVIOUS
<1>2. Numeros(v) /\ Suma(S) = Sumas(v)[S]
  <2>1. \A w : w = [b \in S |-> Monto(b)] => Numeros(w) /\ Suma(S) = Sumas(w)[S]
    BY SumOfTransfers
  <2> QED BY <2>1
<1> HIDE DEF v
<1>3. Sumas(v)[{x}] = v[x] + Sumas(v)[{x} \ {x}]
  <2>1. {x} \in SUBSET DOMAIN v /\ x \in {x}
    BY <1>1
  <2> QED BY <1>2, <2>1, TakeOne
<1>4. {x} \ {x} = {}
  OBVIOUS
<1>5. Sumas(v)[{}] = 0
  BY <1>2, SumOfNothing
<1>6. Sumas(v)[{x}] <= Sumas(v)[S]
  <2>1. S \in SUBSET S /\ {x} \in SUBSET S
    OBVIOUS
  <2> QED BY <1>1, <1>2, <2>1, MoreIsMore
<1>7. v[x] \in Int
  BY <1>1
<1>8. Sumas(v)[{x}] = v[x]
  BY <1>3, <1>4, <1>5, <1>7
<1>9. v[x] = Monto(x)
  BY <1>1
<1> QED BY <1>2, <1>6, <1>8, <1>9

\* Who owns an account in the case file is on its label in a money trail, if
\* the index knows an owner.
LEMMA OwnerIsOnLabel ==
    ASSUME estate \in Estates, empresa.rfc # {}, NEW c, c # Nadie
    PROVE  clabe_owner(c) \in _etiqueta_clabe(c) \/ SinTitular(c)
<1>0. ASSUME NEW e \in Clabe(c)
      PROVE  format_entity_id(e) \in _etiqueta_clabe(c)
  BY <1>0 DEF _etiqueta_clabe
<1>1. CASE c \in empresa.clabes
  <2>1. PICK r \in empresa.rfc : clabe_owner(c) = <<"RFC", r>>
    <3>1. clabe_owner(c) \in company_id
      BY <1>1 DEF clabe_owner, company_clabes, company_id
    <3> QED BY <3>1 DEF company_id
  <2>2. Entidad("empresa", r) \in Clabe(c)
    BY <1>1 DEF Clabe
  <2>3. format_entity_id(Entidad("empresa", r)) = <<"RFC", r>>
    BY DEF format_entity_id, Entidad, PREFIJOS
  <2> QED BY <1>0, <2>1, <2>2, <2>3
<1>2. CASE c \notin empresa.clabes
  <2>1. clabe_owner(c) = dueno(c)
    BY <1>2 DEF clabe_owner, company_clabes
  <2>2. CASE Titulares(c) # {}
    <3>1. /\ dueno(c) = <<"RFC", Min(Titulares(c))>> /\ Min(Titulares(c)) \in Titulares(c)
          /\ Min(Titulares(c)) # Nadie
      BY <2>2, FirstOwner, HolderOfAccount
    <3>2. PICK v \in vendors_por_clabe(c) : v.id = Min(Titulares(c)) /\ v.id # Nadie
      BY <3>1 DEF Titulares
    <3>3. PICK e \in Rfc(v.id) : e.tipo \in {"rfc", "empresa"} /\ e.canonico = v.id
      BY <3>2 DEF Rfc, Entidad
    <3>4. e \in Clabe(c)
      BY <1>2, OfClabe
    <3>5. format_entity_id(e) = <<"RFC", v.id>>
      BY <3>3 DEF format_entity_id, PREFIJOS
    <3> QED BY <1>0, <2>1, <3>1, <3>2, <3>4, <3>5
  <2>3. CASE Titulares(c) = {} /\ DeNomina(c) # {}
    <3>1. dueno(c) = <<"EMP", Min(DeNomina(c))>> /\ Min(DeNomina(c)) \in DeNomina(c)
      BY <2>3, FirstOwner, HolderOfAccount
    <3>2. PICK v \in employees_por_clabe(c) : v.id = Min(DeNomina(c)) /\ v.id # Nadie
      BY <3>1 DEF DeNomina
    <3>3. Entidad("employee", v.id) \in Clabe(c)
      BY <1>2, <3>2, OfClabe, OfEmpleado
    <3>4. format_entity_id(Entidad("employee", v.id)) = <<"EMP", v.id>>
      BY DEF format_entity_id, PREFIJOS, Entidad
    <3> QED BY <1>0, <2>1, <3>1, <3>2, <3>3, <3>4
  <2>4. CASE Titulares(c) = {} /\ DeNomina(c) = {}
    <3>1. dueno(c) = <<"CLABE", c>>
      BY <2>4, HolderOfAccount
    <3> SUFFICES ASSUME Rfcs(c) = {}
                 PROVE  clabe_owner(c) \in _etiqueta_clabe(c)
      BY <2>1, <3>1 DEF SinTitular
    <3>2. Duenos(c) = {}
      <4>1. \A v \in vendors_por_clabe(c) : Rfc(v.id) = {}
        BY DEF Rfc, Rfcs
      <4>2. \A v \in employees_por_clabe(c) : Empleado(v.id) = {}
        BY <2>4 DEF Empleado, DeNomina
      <4> QED BY <4>1, <4>2 DEF Duenos
    <3>3. Entidad("clabe", c) \in Clabe(c)
      BY <1>2, <3>2 DEF Clabe
    <3>4. format_entity_id(Entidad("clabe", c)) = <<"CLABE", c>>
      BY DEF format_entity_id, PREFIJOS, Entidad
    <3> QED BY <1>0, <2>1, <3>1, <3>3, <3>4
  <2> QED BY <2>2, <2>3, <2>4
<1> QED BY <1>1, <1>2

\* The transfers that a finding cites are seen in the graph (views.py,
\* _GraphBuilder; index.py, build_money_trail and clabe_owner), for any estate
\* without negative amounts: but for transfers within one holder, and those of
\* an account that the index no longer knows as its vendor's.
THEOREM TrailsDrawn ==
    ASSUME \A e \in Estates : \A b \in e.bank_txns : b.monto >= 0
    PROVE  ViewSpec => []TrailsAreDrawn
<1>1. ViewInv => TrailsAreDrawn
  <2> SUFFICES ASSUME ViewInv, Leido, empresa.rfc # {}, NEW h \in publicados,
                      NEW b \in DeTabla(h, "bank_txns"),
                      Nadie \notin {b.origen, b.destino}, Extremos(b)[1] # Extremos(b)[2],
                      ~SinTitular(b.origen), ~SinTitular(b.destino)
               PROVE  \E e \in edges("flagged") :
                          /\ <<e.from, e.to>> = Extremos(b)
                          /\ h \in e.finding_indexes /\ e.amount >= Monto(b)
    BY DEF TrailsAreDrawn, Monto
  <2> DEFINE x == Extremos(b)
             dibujadas == {c \in estate.bank_txns : add_edge("flagged", c)}
             suyas == {c \in dibujadas : Extremos(c) = x}
             arista == [from |-> x[1], to |-> x[2], amount |-> Suma(suyas),
                        finding_indexes |-> trail_findings(x)]
  <2>1. estate \in Estates /\ h \in hallazgos /\ AuditInv
    BY DEF ViewInv, AuditInv, InOrder, Signalled
  <2>2. b \in estate.bank_txns
    <3>1. PICK ex \in h.exhibits : ex.tabla = "bank_txns" /\ b = ex.fila
      BY DEF DeTabla
    <3>2. ex \in exhibits(h.cluster) /\ ~Rota(h.cluster)
      BY <2>1, FindingsOf
    <3> QED BY <3>1, <3>2, ExhibitsCite
  <2>3. x[1] \in _etiqueta_clabe(b.origen) /\ x[2] \in _etiqueta_clabe(b.destino)
    BY <2>1, OwnerIsOnLabel DEF Extremos
  <2>4. PICK paso \in build_money_trail(h) : x[1] \in paso.de /\ x[2] \in paso.a
    <3>1. Paso(_etiqueta_clabe(b.origen), _etiqueta_clabe(b.destino)) \in build_money_trail(h)
      BY DEF build_money_trail
    <3> QED BY <2>3, <3>1 DEF Paso
  <2>5. x[1] \in De(h) /\ x[2] \in A(h)
    BY <2>4 DEF De, A
  <2>6. add_edge("flagged", b)
    BY <2>5 DEF add_edge, node_ids
  <2>7. h \in trail_findings(x)
    BY <2>4 DEF trail_findings
  <2>8. b \in suyas
    BY <2>2, <2>6
  <2>9. IsFiniteSet(suyas) /\ \A c \in suyas : Monto(c) \in Int /\ Monto(c) >= 0
    <3>1. IsFiniteSet(estate["bank_txns"])
      BY <2>1, EstatesAreFinite DEF Tablas
    <3>2. suyas \subseteq estate.bank_txns
      OBVIOUS
    <3> HIDE DEF suyas
    <3> QED BY <2>1, <3>1, <3>2, FS_Subset, AmountOfTransfer
  <2>10. Monto(b) <= Suma(suyas)
    <3> HIDE DEF suyas
    <3> QED BY <2>8, <2>9, SumHasEach
  <2>11. Monto(b) \in Int /\ Suma(suyas) \in Int
    <3>1. Monto(b) \in Int
      BY <2>8, <2>9
    <3> DEFINE v == [c \in suyas |-> Monto(c)]
    <3>2. DOMAIN v = suyas
      OBVIOUS
    <3> HIDE DEF suyas
    <3>3. Numeros(v) /\ Suma(suyas) = Sumas(v)[suyas]
      <4>1. \A w : w = [c \in suyas |-> Monto(c)] => Numeros(w) /\ Suma(suyas) = Sumas(w)[suyas]
        BY <2>9, SumOfTransfers
      <4> QED BY <4>1
    <3> HIDE DEF v
    <3>4. Sumas(v) \in [SUBSET suyas -> Int]
      BY <3>2, <3>3, SumsExist
    <3> QED BY <3>1, <3>3, <3>4
  <2>12. arista \in edges("flagged")
    <3>1. edges("flagged") =
              {[from |-> e[1], to |-> e[2], amount |-> Suma({c \in dibujadas : Extremos(c) = e}),
                finding_indexes |-> trail_findings(e)] : e \in {Extremos(c) : c \in dibujadas}}
      BY DEF edges, Suma
    <3>2. x \in {Extremos(c) : c \in dibujadas}
      BY <2>8
    <3> HIDE DEF dibujadas, x
    <3> QED BY <3>1, <3>2
  <2>13. <<x[1], x[2]>> = x
    BY DEF Extremos
  <2>14. /\ <<arista.from, arista.to>> = x
         /\ h \in arista.finding_indexes /\ arista.amount = Suma(suyas)
    <3> HIDE DEF x, suyas
    <3> QED BY <2>7, <2>13
  <2> HIDE DEF x, suyas, arista
  <2>15. arista.amount >= Monto(b)
    BY <2>10, <2>11, <2>14
  <2> QED BY <2>12, <2>14, <2>15 DEF x
<1> QED BY <1>1, ViewInvariant, PTL

-----------------------------------------------------------------------------
(* The report *)

\* The amounts of the rows of a table are added so.
LEMMA SumOfRows ==
    ASSUME NEW t, NEW S, IsFiniteSet(S), \A f \in S : row_amount(t, f) \in Int,
           NEW v, v = [f \in S |-> row_amount(t, f)]
    PROVE  Numeros(v) /\ MapThenSumSet(LAMBDA f : row_amount(t, f), S) = Sumas(v)[S]
<1> DEFINE Es(g) == g = [U \in SUBSET S |->
                            IF U = {} THEN 0
                            ELSE row_amount(t, CHOOSE x \in U : TRUE) + g[U \ {CHOOSE x \in U : TRUE}]]
           iter == CHOOSE g : Es(g)
<1>1. MapThenSumSet(LAMBDA f : row_amount(t, f), S) = iter[S]
  BY DEF MapThenSumSet, MapThenFoldSet
<1>2. Numeros(v)
  BY DEF Numeros
<1>3. \A g : Es(g) <=> Suman(v, g)
  <2>1. \A U \in SUBSET S : U # {} =>
            v[CHOOSE x \in U : TRUE] = row_amount(t, CHOOSE x \in U : TRUE)
    OBVIOUS
  <2> QED BY <2>1 DEF Suman, Mas
<1> HIDE DEF Es
<1>4. Es(Sumas(v))
  BY <1>2, <1>3, SumsExist
<1>5. Es(iter)
  BY <1>4
<1> HIDE DEF iter
<1>6. iter = Sumas(v)
  BY <1>2, <1>3, <1>5, SumsExist
<1> QED BY <1>1, <1>2, <1>6

\* An id that is not repeated finds its row.
LEMMA RowOfId ==
    ASSUME ReadOnce, NEW t \in Tablas, NEW f \in estate[t], ~Repetida(t, f.id)
    PROVE  row(t, f.id) = {f}
<1>1. \A g \in estate[t] : g.id = f.id => g = f
  BY DEF Repetida
<1>2. <<t, f.id>> \notin Repetidas
  <2> SUFFICES ASSUME NEW u \in Tablas, NEW g \in estate[u], Repetida(u, g.id),
                      <<t, f.id>> = <<u, g.id>>
               PROVE  FALSE
    BY DEF Repetidas
  <2> QED OBVIOUS
<1>3. \A orden \in indice : DOMAIN orden.primeras = Repetidas
  BY DEF ReadOnce, Ordenes, Lecturas
<1> QED BY <1>1, <1>2, <1>3 DEF row

\* The sum of amounts that were rounded first is of whole centavos, and half of
\* one off at most for each amount.
LEMMA RoundedSums ==
    ASSUME NEW v, Numeros(v), NEW S, S = DOMAIN v, NEW w, Numeros(w), S = DOMAIN w,
           \A x \in S : w[x] = redondeo(v[x])
    PROVE  /\ Cardinality(S) \in Nat /\ Sumas(v)[S] \in Int /\ Sumas(w)[S] \in Int
           /\ \E n \in Int : Sumas(w)[S] = Centavo * n
           /\ 2 * (Sumas(w)[S] - Sumas(v)[S]) <= Cardinality(S) * Centavo
           /\ 2 * (Sumas(v)[S] - Sumas(w)[S]) <= Cardinality(S) * Centavo
<1> IsFiniteSet(S) /\ \A x \in S : v[x] \in Int
  BY DEF Numeros
<1>1. Sumas(v) \in [SUBSET S -> Int] /\ Sumas(w) \in [SUBSET S -> Int]
  BY SumsExist
<1>2. \A X \in SUBSET S : IsFiniteSet(X) /\ Cardinality(X) \in Nat
  BY FS_Subset, FS_CardinalityType
<1> DEFINE Bien(X) ==
              /\ \E n \in Int : Sumas(w)[X] = Centavo * n
              /\ 2 * (Sumas(w)[X] - Sumas(v)[X]) <= Cardinality(X) * Centavo
              /\ 2 * (Sumas(v)[X] - Sumas(w)[X]) <= Cardinality(X) * Centavo
           B == {X \in SUBSET S : ~Bien(X)}
<1>3. Bien({})
  <2>1. Sumas(v)[{}] = 0 /\ Sumas(w)[{}] = 0 /\ Cardinality({}) = 0
    BY SumOfNothing, FS_EmptySet
  <2>2. 0 \in Int /\ 0 = Centavo * 0 /\ 0 * Centavo = 0
    BY CentavosHaveParts
  <2> QED BY <2>1, <2>2
<1>4. B = {}
  <2> SUFFICES ASSUME B # {}
               PROVE  FALSE
    OBVIOUS
  <2>1. PICK X \in B : \A Y \in B : Y \subseteq X => Y = X
    <3>1. B \in SUBSET SUBSET S
      OBVIOUS
    <3> HIDE DEF B
    <3> QED BY <3>1, SmallestSet
  <2>2. X # {} /\ X \in SUBSET S
    BY <1>3, <2>1
  <2>3. PICK y : y \in X
    BY <2>2
  <2> DEFINE Y == X \ {y}
  <2>4. Bien(Y)
    BY <2>1, <2>2, <2>3
  <2>5. Sumas(v)[X] = v[y] + Sumas(v)[Y] /\ Sumas(w)[X] = w[y] + Sumas(w)[Y]
    <3>1. X \in SUBSET DOMAIN v /\ X \in SUBSET DOMAIN w
      BY <2>2
    <3>2. Sumas(v)[X] = v[y] + Sumas(v)[X \ {y}]
      BY <2>3, <3>1, TakeOne
    <3>3. Sumas(w)[X] = w[y] + Sumas(w)[X \ {y}]
      BY <2>3, <3>1, TakeOne
    <3> QED BY <3>2, <3>3
  <2>6. Cardinality(X) = Cardinality(Y) + 1
    <3>1. IsFiniteSet(X)
      BY <1>2, <2>2
    <3>2. Cardinality(Y) = Cardinality(X) - 1 /\ Cardinality(X) \in Nat
      BY <2>3, <3>1, FS_RemoveElement, FS_CardinalityType
    <3> QED BY <3>2
  <2>7. y \in S /\ v[y] \in Int /\ w[y] = redondeo(v[y])
    BY <2>2, <2>3
  <2>8. /\ w[y] \in Int /\ \E n \in Int : w[y] = Centavo * n
        /\ 2 * (w[y] - v[y]) <= Centavo /\ 2 * (v[y] - w[y]) <= Centavo
    <3> PICK z : z = v[y]
      OBVIOUS
    <3>1. z \in Int /\ w[y] = redondeo(z)
      BY <2>7
    <3>2. /\ redondeo(z) \in Int /\ \E n \in Int : redondeo(z) = Centavo * n
          /\ 2 * (redondeo(z) - z) <= Centavo /\ 2 * (z - redondeo(z)) <= Centavo
      BY <3>1, RoundedAmount
    <3> HIDE DEF redondeo
    <3> QED BY <3>1, <3>2
  <2>9. Sumas(v)[Y] \in Int /\ Sumas(w)[Y] \in Int /\ Cardinality(Y) \in Nat
    <3>1. Y \in SUBSET S
      BY <2>2
    <3> HIDE DEF Y
    <3> QED BY <1>1, <1>2, <3>1
  <2>10. PICK n \in Int, m \in Int : Sumas(w)[Y] = Centavo * n /\ w[y] = Centavo * m
    BY <2>4, <2>8
  <2>11. Centavo * m + Centavo * n = Centavo * (m + n) /\ m + n \in Int
    BY CentavosHaveParts
  <2>12. \E k \in Int : Sumas(w)[X] = Centavo * k
    <3>1. Sumas(w)[X] = Centavo * (m + n)
      BY <2>5, <2>10, <2>11
    <3> QED BY <2>11, <3>1
  <2> PICK c : c = Cardinality(Y)
    OBVIOUS
  <2>13. (c + 1) * Centavo = c * Centavo + Centavo /\ c * Centavo \in Int
    BY <2>9, CentavosHaveParts
  <2>14. /\ 2 * (Sumas(w)[Y] - Sumas(v)[Y]) <= c * Centavo
         /\ 2 * (Sumas(v)[Y] - Sumas(w)[Y]) <= c * Centavo
    BY <2>4
  <2>15. Cardinality(X) = c + 1
    BY <2>6
  <2> HIDE DEF Y
  <2>16. /\ 2 * (Sumas(w)[X] - Sumas(v)[X]) <= (c + 1) * Centavo
         /\ 2 * (Sumas(v)[X] - Sumas(w)[X]) <= (c + 1) * Centavo
    BY <2>5, <2>7, <2>8, <2>9, <2>13, <2>14, CentavosHaveParts
  <2>17. Bien(X)
    BY <2>12, <2>15, <2>16
  <2> QED BY <2>1, <2>17
<1>5. Bien(S)
  BY <1>4
<1>6. S \in SUBSET S
  OBVIOUS
<1> HIDE DEF Bien
<1>7. Cardinality(S) \in Nat /\ Sumas(v)[S] \in Int /\ Sumas(w)[S] \in Int
  BY <1>1, <1>2, <1>6
<1> QED BY <1>5, <1>7 DEF Bien

\* What the report adds is what the engine added, each amount rounded.
LEMMA SumAgain ==
    ASSUME ViewInv, NEW h \in hallazgos, ~CitaRepetida(h), NEW t \in DeMonto,
           NEW E, E = {ex \in h.exhibits : ex.tabla = t}
    PROVE  /\ _sum(h, t) \in Int /\ Total(h.exhibits, t) \in Int /\ Cardinality(E) \in Nat
           /\ \E n \in Int : _sum(h, t) = Centavo * n
           /\ 2 * (_sum(h, t) - Total(h.exhibits, t)) <= Cardinality(E) * Centavo
           /\ 2 * (Total(h.exhibits, t) - _sum(h, t)) <= Cardinality(E) * Centavo
           /\ (\E ex \in h.exhibits : ex.tabla = t) => _cited(h, t) # {}
<1> DEFINE F == {ex.fila : ex \in E}
           filaDe == [ex \in E |-> ex.fila]
           v == [ex \in E |-> Importe(ex)]
           u == [ex \in E |-> row_amount(t, ex.fila)]
           w == [f \in F |-> row_amount(t, f)]
<1>1. estate \in Estates /\ AuditInv /\ ReadOnce
  BY DEF ViewInv, AuditInv, Signalled
<1>2. \A ex \in E : ex = [tabla |-> t, fila |-> ex.fila] /\ ex.fila \in estate[t]
  <2>1. h.exhibits = exhibits(h.cluster) /\ ~Rota(h.cluster)
    BY <1>1, FindingsOf
  <2>2. \A ex \in h.exhibits : ex = [tabla |-> ex.tabla, fila |-> ex.fila] /\ ex.fila \in estate[ex.tabla]
    BY <2>1, ExhibitsCite
  <2>3. \A ex \in E : ex \in h.exhibits /\ ex.tabla = t
    OBVIOUS
  <2> QED BY <2>2, <2>3
<1>3. t \in Tablas
  BY DEF DeMonto, Tablas
<1>4. _cited(h, t) = F
  <2>1. \A ex \in E : row(t, ex.fila.id) = {ex.fila}
    BY <1>1, <1>2, <1>3, RowOfId DEF CitaRepetida
  <2>2. _cited(h, t) = UNION {row(t, ex.fila.id) : ex \in E}
    BY DEF _cited
  <2> QED BY <2>1, <2>2
<1>5. F \subseteq estate[t]
  BY <1>2
<1>6. IsFiniteSet(F)
  <2>1. IsFiniteSet(estate[t])
    BY <1>1, <1>3, EstatesAreFinite
  <2> HIDE DEF F
  <2> QED BY <1>5, <2>1, FS_Subset
<1>7. IsFiniteSet(E)
  <2> DEFINE de == [f \in F |-> [tabla |-> t, fila |-> f]]
  <2>1. de \in Surjection(F, E)
    BY <1>2 DEF Surjection
  <2> HIDE DEF de, F
  <2> QED BY <1>6, <2>1, FS_Surjection
<1>8. /\ \A ex \in E : Importe(ex) \in Int /\ row_amount(t, ex.fila) = redondeo(Importe(ex))
      /\ \A f \in F : row_amount(t, f) \in Int
  <2>1. \A ex \in E : Importe(ex) \in Int
    <3>1. \A f \in estate[t] : Importe([tabla |-> t, fila |-> f]) \in Int
      BY <1>1, AmountsAreWhole DEF Importe, DeMonto
    <3> QED BY <1>2, <3>1
  <2>2. \A ex \in E : row_amount(t, ex.fila) = redondeo(Importe(ex))
    BY <1>2 DEF row_amount
  <2>3. \A ex \in E : row_amount(t, ex.fila) \in Int
    BY <2>1, <2>2, RoundedAmount
  <2> QED BY <2>1, <2>2, <2>3
<1>9. /\ DOMAIN v = E /\ DOMAIN w = F /\ DOMAIN u = E
      /\ \A ex \in E : filaDe[ex] \in F /\ w[filaDe[ex]] = u[ex]
      /\ \A ex \in E : u[ex] = redondeo(v[ex])
  BY <1>8
<1>10. Numeros(v) /\ Total(h.exhibits, t) = Sumas(v)[E]
  <2>1. Total(h.exhibits, t) = MapThenSumSet(Importe, E)
    BY DEF Total
  <2>2. \A z : z = [ex \in E |-> Importe(ex)] =>
            Numeros(z) /\ MapThenSumSet(Importe, E) = Sumas(z)[E]
    BY <1>7, <1>8, SumOfExhibits
  <2> QED BY <2>1, <2>2
<1>11. Numeros(w) /\ _sum(h, t) = Sumas(w)[F]
  <2>1. _sum(h, t) = MapThenSumSet(LAMBDA f : row_amount(t, f), F)
    BY <1>4 DEF _sum
  <2> HIDE DEF F
  <2>2. \A z : z = [f \in F |-> row_amount(t, f)] =>
            Numeros(z) /\ MapThenSumSet(LAMBDA f : row_amount(t, f), F) = Sumas(z)[F]
    BY <1>6, <1>8, SumOfRows
  <2> QED BY <2>1, <2>2
<1>12. filaDe \in [E -> F] /\ \A x, y \in E : filaDe[x] = filaDe[y] => x = y
  BY <1>2
<1>13. {filaDe[ex] : ex \in E} = F
  OBVIOUS
<1>14. Numeros(u)
  BY <1>7, <1>8 DEF Numeros
<1> HIDE DEF v, w, u, filaDe, F
<1>15. Sumas(u)[E] = Sumas(w)[{filaDe[ex] : ex \in E}]
  BY <1>9, <1>11, <1>12, <1>14, SameTotal
<1>16. Sumas(u)[E] = _sum(h, t)
  BY <1>11, <1>13, <1>15
<1>17. /\ Cardinality(E) \in Nat /\ Sumas(v)[E] \in Int /\ Sumas(u)[E] \in Int
       /\ \E n \in Int : Sumas(u)[E] = Centavo * n
       /\ 2 * (Sumas(u)[E] - Sumas(v)[E]) <= Cardinality(E) * Centavo
       /\ 2 * (Sumas(v)[E] - Sumas(u)[E]) <= Cardinality(E) * Centavo
  BY <1>9, <1>10, <1>14, RoundedSums
<1>18. (\E ex \in h.exhibits : ex.tabla = t) => F # {}
  BY DEF F
<1> QED BY <1>4, <1>10, <1>16, <1>17, <1>18

\* An accused of two findings of one scheme would join their clusters.
LEMMA AccusedOnceInAScheme ==
    ASSUME AuditInv, NEW h \in hallazgos, NEW g \in hallazgos, g.esquema = h.esquema,
           NEW id, id \in entities(h), id \in entities(g)
    PROVE  g = h
<1>1. PICK d \in h.entidades : id = format_entity_id(d) /\ d.tipo \in TIPOS_ACUSABLES
  BY WhoIsAccused
<1>2. PICK e \in g.entidades : id = format_entity_id(e) /\ e.tipo \in TIPOS_ACUSABLES
  BY WhoIsAccused
<1>3. d.tipo = e.tipo /\ d.canonico = e.canonico
  BY <1>1, <1>2 DEF format_entity_id, PREFIJOS, TIPOS_ACUSABLES
<1>4. PICK S \in Minimal(Juntas(h.esquema)) : h.cluster = Grupo(h.esquema, S)
  BY FindingsOf
<1>5. PICK T \in Minimal(Juntas(h.esquema)) : g.cluster = Grupo(h.esquema, T)
  BY FindingsOf
<1>6. <<d.tipo, d.canonico>> \in S
  <2>1. d \in acusables(Grupo(h.esquema, S))
    BY <1>4, FindingsOf
  <2> QED BY <2>1, AccusedKey
<1>7. <<e.tipo, e.canonico>> \in T
  <2>1. e \in acusables(Grupo(h.esquema, T))
    BY <1>5, FindingsOf
  <2> QED BY <2>1, AccusedKey
<1>8. S = T
  BY <1>3, <1>6, <1>7, ComponentsAreApart
<1> QED BY <1>4, <1>5, <1>8, FindingsOf

\* The least of the places that have an amount is the one of the claim.
LEMMA ClaimIsTheFirst ==
    ASSUME AuditInv, NEW h \in hallazgos
    PROVE  \E i \in 1..4 :
              /\ h.tabla = PRIORIDAD_MONTO(h.esquema)[i]
              /\ h.monto = redondeo(Total(h.exhibits, h.tabla))
              /\ Total(h.exhibits, h.tabla) \in Int
              /\ \E ex \in h.exhibits : ex.tabla = h.tabla
              /\ \A j \in 1..4 : Total(h.exhibits, PRIORIDAD_MONTO(h.esquema)[j]) > 0 => i <= j
<1> DEFINE cl == h.cluster
           con == ConMonto(cl.esquema, exhibits(cl))
           i == Min(con)
           t == PRIORIDAD_MONTO(cl.esquema)[i]
<1>1. \A j \in 1..4 : PRIORIDAD_MONTO(cl.esquema)[j] \in DeMonto
  BY DEF PRIORIDAD_MONTO, DeMonto
<1>2. con # {}
  BY FindingsOf DEF Motivo
<1>3. con = {j \in 1..4 : Total(exhibits(cl), PRIORIDAD_MONTO(cl.esquema)[j]) > 0}
  BY DEF ConMonto
<1>4. i \in con /\ \A j \in con : i <= j
  <2> HIDE DEF con
  <2>1. \E n \in con : \A m \in con : n <= m
    BY <1>2, <1>3, LeastNumber
  <2> QED BY <2>1 DEF Min
<1>5. t \in DeMonto /\ Total(exhibits(cl), t) > 0
  <2> HIDE DEF con, i
  <2> QED BY <1>1, <1>3, <1>4
<1>6. /\ h.monto = redondeo(Total(exhibits(cl), t)) /\ h.tabla = t
      /\ h.exhibits = exhibits(cl) /\ h.esquema = cl.esquema
  <2>1. h = Hallazgo(cl) /\ h.exhibits = exhibits(cl) /\ h.esquema = cl.esquema
    BY FindingsOf
  <2>2. Hallazgo(cl).monto = redondeo(Total(exhibits(cl), t)) /\ Hallazgo(cl).tabla = t
    BY DEF Hallazgo, compute_peso_amount
  <2> QED BY <2>1, <2>2
<1>7. estate \in Estates /\ ~Rota(cl)
  BY FindingsOf DEF AuditInv, Signalled
<1>8. Total(exhibits(cl), t) \in Int /\ \E ex \in h.exhibits : ex.tabla = t
  <2> HIDE DEF t
  <2>1. Total(exhibits(cl), t) \in Int
    BY <1>5, <1>7, TotalsAreWhole
  <2>2. Total(exhibits(cl), t) # 0
    BY <1>5, <2>1
  <2> QED BY <1>5, <1>6, <1>7, <2>1, <2>2, TotalsAreWhole
<1>9. i \in 1..4 /\ \A j \in 1..4 : Total(h.exhibits, PRIORIDAD_MONTO(h.esquema)[j]) > 0 => i <= j
  <2> HIDE DEF con, i
  <2> QED BY <1>3, <1>4, <1>6
<1>10. h.tabla = PRIORIDAD_MONTO(h.esquema)[i]
  <2> HIDE DEF con, i
  <2> QED BY <1>6
<1>11. h.monto = redondeo(Total(h.exhibits, h.tabla)) /\ Total(h.exhibits, h.tabla) \in Int
  <2> HIDE DEF t
  <2> QED BY <1>6, <1>8
<1>12. \E ex \in h.exhibits : ex.tabla = h.tabla
  <2> HIDE DEF t
  <2> QED BY <1>6, <1>8
<1> HIDE DEF i
<1> QED BY <1>9, <1>10, <1>11, <1>12

\* The place of the table that the report names: its total is the nearest.
LEMMA NearestTable ==
    ASSUME ViewInv, NEW h \in hallazgos, ~CitaRepetida(h), h.monto \in Int, _tables(h) # {}
    PROVE  \E i \in _tables(h) :
              /\ table_used(h) = PRIORIDAD_MONTO(h.esquema)[i]
              /\ \A j \in _tables(h) :
                    /\ _lejos(h, i) \in Nat /\ _lejos(h, j) \in Nat /\ _lejos(h, i) <= _lejos(h, j)
                    /\ _lejos(h, j) = _lejos(h, i) => i <= j
<1> DEFINE q == PRIORIDAD_MONTO(h.esquema)
           T == _tables(h)
           cercanas == {i \in T : \A j \in T : _lejos(h, i) <= _lejos(h, j)}
<1>1. T \subseteq 1..4 /\ table_used(h) = q[Min(cercanas)]
  BY DEF _tables, table_used
<1>2. \A j \in 1..4 : q[j] \in DeMonto
  BY DEF PRIORIDAD_MONTO, DeMonto
<1>3. \A j \in T : _lejos(h, j) \in Nat
  <2> TAKE j \in T
  <2>1. q[j] \in DeMonto
    BY <1>1, <1>2
  <2> HIDE DEF q, T
  <2>2. _sum(h, q[j]) \in Int
    BY <2>1, SumAgain
  <2> QED BY <2>2 DEF _lejos, q
<1> HIDE DEF q
<1>4. cercanas # {}
  <2> DEFINE B == {_lejos(h, j) : j \in T}
  <2>1. B \in SUBSET Nat /\ B # {}
    BY <1>3
  <2>2. PICK k \in B : \A x \in B : k <= x
    <3> HIDE DEF B
    <3> QED BY <2>1, LeastNumber
  <2> QED BY <2>2
<1>5. Min(cercanas) \in cercanas /\ \A j \in cercanas : Min(cercanas) <= j
  <2>1. cercanas \in SUBSET Nat
    BY <1>1
  <2> HIDE DEF cercanas
  <2>2. \E n \in cercanas : \A m \in cercanas : n <= m
    BY <1>4, <2>1, LeastNumber
  <2> QED BY <2>2 DEF Min
<1> PICK i : i = Min(cercanas)
  OBVIOUS
<1>6. i \in cercanas /\ i \in T /\ \A j \in T : _lejos(h, i) <= _lejos(h, j)
  BY <1>5
<1>7. ASSUME NEW j \in T, _lejos(h, j) = _lejos(h, i)
      PROVE  i <= j
  <2>1. j \in cercanas
    BY <1>6, <1>7
  <2> QED BY <1>5, <2>1
<1> QED BY <1>1, <1>3, <1>6, <1>7 DEF q

\* The sum of the table of the claim is as near to the claim as that of the
\* records and the claim itself are to what the engine added.
LEMMA ClaimIsNear ==
    ASSUME ViewInv, NEW h \in hallazgos, ~CitaRepetida(h),
           NEW E, E = {ex \in h.exhibits : ex.tabla = h.tabla}
    PROVE  /\ h.monto \in Int /\ _sum(h, h.tabla) \in Int /\ Cardinality(E) \in Nat
           /\ 2 * (_sum(h, h.tabla) - h.monto) <= (Cardinality(E) + 1) * Centavo
           /\ 2 * (h.monto - _sum(h, h.tabla)) <= (Cardinality(E) + 1) * Centavo
<1>1. AuditInv
  BY DEF ViewInv
<1>2. /\ h.tabla \in DeMonto /\ h.monto = redondeo(Total(h.exhibits, h.tabla))
      /\ Total(h.exhibits, h.tabla) \in Int
  <2>1. \A j \in 1..4 : PRIORIDAD_MONTO(h.esquema)[j] \in DeMonto
    BY DEF PRIORIDAD_MONTO, DeMonto
  <2> QED BY <1>1, <2>1, ClaimIsTheFirst
<1> PICK total, suma, n : /\ total = Total(h.exhibits, h.tabla) /\ suma = _sum(h, h.tabla)
                         /\ n = Cardinality(E)
  OBVIOUS
<1>3. /\ h.monto \in Int
      /\ 2 * (h.monto - total) <= Centavo /\ 2 * (total - h.monto) <= Centavo
  BY <1>2, RoundedAmount
<1>4. /\ suma \in Int /\ n \in Nat
      /\ 2 * (suma - total) <= n * Centavo /\ 2 * (total - suma) <= n * Centavo
  BY <1>2, SumAgain
<1>5. (n + 1) * Centavo = n * Centavo + Centavo /\ n * Centavo \in Int
  BY <1>4, CentavosHaveParts
<1>6. total \in Int
  BY <1>2
<1>7. 2 * (suma - h.monto) <= (n + 1) * Centavo /\ 2 * (h.monto - suma) <= (n + 1) * Centavo
  BY <1>3, <1>4, <1>5, <1>6, CentavosHaveParts
<1> QED BY <1>3, <1>4, <1>7

\* If rounding makes no difference anywhere, the claim is found exactly: a table
\* that comes before its own and is as near would have an amount too.
LEMMA ClaimFoundAgain ==
    ASSUME ViewInv, NEW h \in hallazgos, ~CitaRepetida(h), SinResto(h), h.monto > 0
    PROVE  _sum(h, h.tabla) = h.monto /\ table_used(h) = h.tabla
<1> DEFINE q == PRIORIDAD_MONTO(h.esquema)
           total(j) == Total(h.exhibits, q[j])
           suma(j) == _sum(h, q[j])
<1>1. AuditInv
  BY DEF ViewInv
<1>2. PICK i \in 1..4 : /\ h.tabla = q[i] /\ h.monto = redondeo(total(i)) /\ total(i) \in Int
                        /\ \E ex \in h.exhibits : ex.tabla = q[i]
                        /\ \A j \in 1..4 : total(j) > 0 => i <= j
  BY <1>1, ClaimIsTheFirst
<1>3. \A j \in 1..4 : q[j] \in DeMonto /\ q[j] \in ConImporte
  BY DEF PRIORIDAD_MONTO, DeMonto, ConImporte
<1> HIDE DEF q
<1>4. ASSUME NEW j \in 1..4
      PROVE  /\ suma(j) \in Int /\ total(j) \in Int /\ \E n \in Int : suma(j) = Centavo * n
             /\ (\E ex \in h.exhibits : ex.tabla = q[j]) => _cited(h, q[j]) # {}
             /\ 2 * (suma(j) - total(j)) < Centavo /\ 2 * (total(j) - suma(j)) < Centavo
  <2>1. /\ suma(j) \in Int /\ total(j) \in Int /\ \E n \in Int : suma(j) = Centavo * n
        /\ (\E ex \in h.exhibits : ex.tabla = q[j]) => _cited(h, q[j]) # {}
    BY <1>3, SumAgain
  <2>2. 2 * Diferencia(suma(j), total(j)) < Centavo
    BY <1>3 DEF SinResto
  <2> HIDE DEF suma, total
  <2>3. 2 * (suma(j) - total(j)) < Centavo /\ 2 * (total(j) - suma(j)) < Centavo
    BY <2>1, <2>2, CentavosHaveParts DEF Diferencia
  <2> QED BY <2>1, <2>3
<1>5. /\ h.monto \in Int /\ \E n \in Int : h.monto = Centavo * n
      /\ 2 * (h.monto - total(i)) <= Centavo /\ 2 * (total(i) - h.monto) <= Centavo
  <2> PICK x : x = total(i)
    OBVIOUS
  <2>1. x \in Int /\ h.monto = redondeo(x)
    BY <1>2
  <2>2. /\ redondeo(x) \in Int /\ \E n \in Int : redondeo(x) = Centavo * n
        /\ 2 * (redondeo(x) - x) <= Centavo /\ 2 * (x - redondeo(x)) <= Centavo
    BY <2>1, RoundedAmount
  <2> HIDE DEF total
  <2> QED BY <2>1, <2>2
<1> HIDE DEF suma, total
<1>6. suma(i) = h.monto
  <2>1. PICK n \in Int, m \in Int : suma(i) = Centavo * n /\ h.monto = Centavo * m
    BY <1>4, <1>5
  <2>2. Centavo * n - Centavo * m < Centavo /\ Centavo * m - Centavo * n < Centavo
    BY <1>4, <1>5, <2>1, CentavosHaveParts
  <2>3. Centavo * n <= Centavo * m /\ Centavo * m <= Centavo * n
    BY <2>2, CentavosAreApart
  <2> QED BY <1>4, <1>5, <2>1, <2>3
<1>7. h.monto >= Centavo
  <2>1. PICK m \in Int : h.monto = Centavo * m
    BY <1>5
  <2>2. m >= 1
    <3>1. CASE m <= 0
      <4>1. Centavo * m <= 0
        BY <3>1, CentavosHaveParts
      <4> QED BY <1>5, <2>1, <4>1
    <3> QED BY <3>1
  <2> QED BY <2>1, <2>2, CentavosHaveParts
<1>8. i \in _tables(h)
  <2>1. _cited(h, q[i]) # {}
    BY <1>2, <1>4
  <2> QED BY <2>1 DEF _tables, q
<1>9. PICK k \in _tables(h) :
          /\ table_used(h) = q[k]
          /\ \A j \in _tables(h) :
                /\ _lejos(h, k) \in Nat /\ _lejos(h, j) \in Nat /\ _lejos(h, k) <= _lejos(h, j)
                /\ _lejos(h, j) = _lejos(h, k) => k <= j
  BY <1>5, <1>8, NearestTable DEF q
<1>10. \A j \in 1..4 : _lejos(h, j) = IF suma(j) > h.monto THEN suma(j) - h.monto ELSE h.monto - suma(j)
  BY DEF _lejos, suma, q
<1>11. _lejos(h, i) = 0 /\ _lejos(h, k) = 0
  <2>1. _lejos(h, i) = 0
    BY <1>5, <1>6, <1>10
  <2> QED BY <1>8, <1>9, <2>1
<1>12. k \in 1..4
  BY <1>9 DEF _tables
<1>13. suma(k) = h.monto
  BY <1>4, <1>5, <1>10, <1>11, <1>12
<1>14. total(k) > 0
  BY <1>4, <1>5, <1>7, <1>12, <1>13, CentavosHaveParts
<1>15. k = i
  BY <1>2, <1>8, <1>9, <1>11, <1>12, <1>14
<1> QED BY <1>2, <1>6, <1>9, <1>15 DEF suma

\* The report finds the amount of each finding again, but for what rounding
\* its records and its total can make (views.py, _reconciliation; index.py,
\* _cell; engine, compute_peso_amount), and no accused is in two findings of a
\* scheme, for any estate.
THEOREM ReportAgrees == ViewSpec => []ReportReconciles
<1>1. ASSUME ViewInv, Leido, NEW h \in publicados, ~CitaRepetida(h)
      PROVE  /\ 2 * Diferencia(_reconciliation(h).sum, h.monto)
                    <= (Cardinality({ex \in h.exhibits : ex.tabla = h.tabla}) + 1) * Centavo
             /\ SinResto(h) =>
                    _reconciliation(h) = [table_used |-> h.tabla, sum |-> h.monto]
  <2>1. AuditInv /\ h \in hallazgos /\ h.monto > 0
    BY <1>1 DEF ViewInv, AuditInv, InOrder, OpenAtTheEnd, Claimed, Leido
  <2> PICK E : E = {ex \in h.exhibits : ex.tabla = h.tabla}
    OBVIOUS
  <2>2. /\ h.monto \in Int /\ _sum(h, h.tabla) \in Int /\ Cardinality(E) \in Nat
        /\ 2 * (_sum(h, h.tabla) - h.monto) <= (Cardinality(E) + 1) * Centavo
        /\ 2 * (h.monto - _sum(h, h.tabla)) <= (Cardinality(E) + 1) * Centavo
    BY <1>1, <2>1, ClaimIsNear
  <2>3. PICK i \in 1..4 : /\ h.tabla = PRIORIDAD_MONTO(h.esquema)[i]
                          /\ \E ex \in h.exhibits : ex.tabla = h.tabla
    BY <2>1, ClaimIsTheFirst
  <2>4. i \in _tables(h)
    <3>1. h.tabla \in DeMonto
      BY <2>3 DEF PRIORIDAD_MONTO, DeMonto
    <3>2. _cited(h, h.tabla) # {}
      BY <1>1, <2>1, <2>3, <3>1, SumAgain
    <3> QED BY <2>3, <3>2 DEF _tables
  <2>5. PICK k \in _tables(h) :
            /\ table_used(h) = PRIORIDAD_MONTO(h.esquema)[k]
            /\ _lejos(h, k) \in Nat /\ _lejos(h, i) \in Nat /\ _lejos(h, k) <= _lejos(h, i)
    BY <1>1, <2>1, <2>2, <2>4, NearestTable
  <2>6. 2 * _lejos(h, i) <= (Cardinality(E) + 1) * Centavo
    <3>1. _lejos(h, i) = IF _sum(h, h.tabla) > h.monto THEN _sum(h, h.tabla) - h.monto
                                                       ELSE h.monto - _sum(h, h.tabla)
      BY <2>3 DEF _lejos
    <3> QED BY <2>2, <3>1
  <2>7. Diferencia(_reconciliation(h).sum, h.monto) = _lejos(h, k)
    <3>1. _reconciliation(h).sum = _sum(h, table_used(h))
      BY DEF _reconciliation
    <3> QED BY <2>5, <3>1 DEF Diferencia, _lejos
  <2>8. 2 * Diferencia(_reconciliation(h).sum, h.monto) <= (Cardinality(E) + 1) * Centavo
    <3> PICK n : n = (Cardinality(E) + 1) * Centavo
      OBVIOUS
    <3>1. n \in Int
      BY <2>2, CentavosHaveParts
    <3> QED BY <2>5, <2>6, <2>7, <3>1
  <2>9. SinResto(h) => _sum(h, h.tabla) = h.monto /\ table_used(h) = h.tabla
    BY <1>1, <2>1, ClaimFoundAgain
  <2> QED BY <2>8, <2>9 DEF _reconciliation
<1>2. ASSUME ViewInv, NEW h \in publicados, NEW g \in shared_entities(h)
      PROVE  g.esquema # h.esquema
  <2>1. AuditInv /\ publicados \subseteq hallazgos
    BY <1>2 DEF ViewInv, AuditInv, InOrder
  <2>2. g # h /\ g \in publicados /\ \E id \in entities(h) : id \in entities(g)
    BY <1>2 DEF shared_entities, finding_indexes
  <2> QED BY <2>1, <2>2, AccusedOnceInAScheme
<1>3. ViewInv => ReportReconciles
  BY <1>1, <1>2 DEF ReportReconciles
<1> QED BY <1>3, ViewInvariant, PTL

-----------------------------------------------------------------------------
(* The timelines *)

\* The amounts of some of the transfers.
LEMMA SumOfSome ==
    ASSUME NEW D, IsFiniteSet(D), \A b \in D : Monto(b) \in Int, NEW S \in SUBSET D,
           NEW v, v = [b \in D |-> Monto(b)]
    PROVE  Numeros(v) /\ Suma(S) = Sumas(v)[S]
<1> DEFINE u == [b \in S |-> Monto(b)]
<1>1. Numeros(v) /\ DOMAIN v = D
  BY DEF Numeros
<1>2. IsFiniteSet(S)
  BY FS_Subset
<1>3. Numeros(u) /\ Suma(S) = Sumas(u)[S]
  <2>1. \A w : w = [b \in S |-> Monto(b)] => Numeros(w) /\ Suma(S) = Sumas(w)[S]
    BY <1>2, SumOfTransfers
  <2> QED BY <2>1
<1>4. DOMAIN u = S /\ \A x \in S : v[x] = u[x]
  OBVIOUS
<1> HIDE DEF u
<1>5. Sumas(u)[S] = Sumas(v)[S]
  BY <1>1, <1>3, <1>4, SumOfPart
<1> QED BY <1>1, <1>3, <1>5

\* No smaller amounts, no smaller sum.
LEMMA MoreTransfers ==
    ASSUME NEW D, IsFiniteSet(D), \A b \in D : Monto(b) \in Int /\ Monto(b) >= 0,
           NEW W \in SUBSET D, NEW S \in SUBSET W
    PROVE  Suma(S) <= Suma(W)
<1> DEFINE v == [b \in D |-> Monto(b)]
<1>1. DOMAIN v = D /\ \A b \in D : v[b] >= 0
  OBVIOUS
<1>2. ASSUME NEW X \in SUBSET D
      PROVE  Numeros(v) /\ Suma(X) = Sumas(v)[X]
  <2>1. \A w : w = [b \in D |-> Monto(b)] => Numeros(w) /\ Suma(X) = Sumas(w)[X]
    BY SumOfSome
  <2> QED BY <2>1
<1> HIDE DEF v
<1>3. Sumas(v)[S] <= Sumas(v)[W]
  BY <1>1, <1>2, MoreIsMore
<1>4. S \in SUBSET D
  OBVIOUS
<1> QED BY <1>2, <1>3, <1>4

\* The amounts of edges are added so.
LEMMA SumOfEdges ==
    ASSUME NEW S, IsFiniteSet(S), \A e \in S : e.amount \in Int, NEW v, v = [e \in S |-> e.amount]
    PROVE  Numeros(v) /\ MapThenSumSet(LAMBDA e : e.amount, S) = Sumas(v)[S]
<1> DEFINE Es(g) == g = [U \in SUBSET S |->
                            IF U = {} THEN 0
                            ELSE (CHOOSE x \in U : TRUE).amount + g[U \ {CHOOSE x \in U : TRUE}]]
           iter == CHOOSE g : Es(g)
<1>1. MapThenSumSet(LAMBDA e : e.amount, S) = iter[S]
  BY DEF MapThenSumSet, MapThenFoldSet
<1>2. Numeros(v)
  BY DEF Numeros
<1>3. \A g : Es(g) <=> Suman(v, g)
  <2>1. \A U \in SUBSET S : U # {} => v[CHOOSE x \in U : TRUE] = (CHOOSE x \in U : TRUE).amount
    OBVIOUS
  <2> QED BY <2>1 DEF Suman, Mas
<1> HIDE DEF Es
<1>4. Es(Sumas(v))
  BY <1>2, <1>3, SumsExist
<1>5. Es(iter)
  BY <1>4
<1> HIDE DEF iter
<1>6. iter = Sumas(v)
  BY <1>2, <1>3, <1>5, SumsExist
<1> QED BY <1>1, <1>2, <1>6

\* The edges at an end have the amounts of the transfers they were drawn for.
Dibujada(b) == b \in estate.bank_txns /\ add_edge("all", b)
Arista(e) ==
    [from |-> e[1], to |-> e[2], amount |-> Suma({b \in estate.bank_txns : Dibujada(b) /\ Extremos(b) = e}),
     finding_indexes |-> trail_findings(e)]
Extremo(extremo, e) == IF extremo = "to" THEN e[2] ELSE e[1]

LEMMA EdgesAddUp ==
    ASSUME estate \in Estates, NEW extremo \in {"from", "to"}, NEW id
    PROVE  MapThenSumSet(LAMBDA e : e.amount, {e \in edges("all") : e[extremo] = id})
               = Suma({b \in estate.bank_txns : Dibujada(b) /\ Extremo(extremo, Extremos(b)) = id})
<1> DEFINE D == estate.bank_txns
           T == {b \in D : Dibujada(b) /\ Extremo(extremo, Extremos(b)) = id}
           P == {Extremos(b) : b \in T}
           E == {e \in edges("all") : e[extremo] = id}
           v == [b \in D |-> Monto(b)]
           w == [e \in E |-> e.amount]
           Suyos(e) == {b \in D : Dibujada(b) /\ Extremos(b) = <<e.from, e.to>>}
           F == [e \in E |-> Suyos(e)]
<1>1. IsFiniteSet(D) /\ \A b \in D : Monto(b) \in Int
  <2>1. IsFiniteSet(estate["bank_txns"])
    BY EstatesAreFinite DEF Tablas
  <2> QED BY <2>1, AmountOfTransfer
<1>2. \A b : Extremos(b) = <<Extremos(b)[1], Extremos(b)[2]>>
  BY DEF Extremos
<1>3. edges("all") = {Arista(Extremos(b)) : b \in {b \in D : Dibujada(b)}}
  <2>1. {b \in estate.bank_txns : add_edge("all", b)} = {b \in D : Dibujada(b)}
    BY DEF Dibujada
  <2>2. \A e : {b \in {b \in D : Dibujada(b)} : Extremos(b) = e} = {b \in D : Dibujada(b) /\ Extremos(b) = e}
    OBVIOUS
  <2>3. edges("all") =
            {[from |-> e[1], to |-> e[2],
              amount |-> Suma({b \in {b \in D : Dibujada(b)} : Extremos(b) = e}),
              finding_indexes |-> trail_findings(e)] : e \in {Extremos(b) : b \in {b \in D : Dibujada(b)}}}
    BY <2>1 DEF edges
  <2>4. \A e : Arista(e) = [from |-> e[1], to |-> e[2],
              amount |-> Suma({b \in {b \in D : Dibujada(b)} : Extremos(b) = e}),
              finding_indexes |-> trail_findings(e)]
    BY <2>2 DEF Arista
  <2> QED BY <2>3, <2>4
<1>4. \A e : Arista(e).from = e[1] /\ Arista(e).to = e[2] /\ Arista(e)[extremo] = Extremo(extremo, e)
  BY DEF Arista, Extremo
<1>5. E = {Arista(x) : x \in P}
  <2> HIDE DEF D
  <2> QED BY <1>3, <1>4
<1>6. IsFiniteSet(T) /\ IsFiniteSet(P) /\ IsFiniteSet(E)
  <2>1. IsFiniteSet(T)
    BY <1>1, FS_Subset
  <2>2. IsFiniteSet(P)
    <3> DEFINE f == [b \in T |-> Extremos(b)]
    <3>1. f \in Surjection(T, P)
      BY DEF Surjection
    <3> HIDE DEF f, T, P
    <3> QED BY <2>1, <3>1, FS_Surjection
  <2>3. IsFiniteSet(E)
    <3> DEFINE f == [x \in P |-> Arista(x)]
    <3> HIDE DEF P
    <3>1. f \in Surjection(P, E)
      BY <1>5 DEF Surjection
    <3> HIDE DEF f, E
    <3> QED BY <2>2, <3>1, FS_Surjection
  <2> QED BY <2>1, <2>2, <2>3
<1>7. ASSUME NEW X \in SUBSET D
      PROVE  Numeros(v) /\ Suma(X) = Sumas(v)[X] /\ Suma(X) \in Int
  <2>1. \A u : u = [b \in D |-> Monto(b)] => Numeros(u) /\ Suma(X) = Sumas(u)[X]
    BY <1>1, SumOfSome
  <2>2. DOMAIN v = D
    OBVIOUS
  <2>3. Numeros(v) /\ Suma(X) = Sumas(v)[X]
    BY <2>1
  <2> HIDE DEF v, D
  <2>4. Sumas(v) \in [SUBSET D -> Int]
    BY <2>2, <2>3, SumsExist
  <2> QED BY <2>3, <2>4
<1>8. \A e \in E : e.amount = Suma(Suyos(e)) /\ Suyos(e) \in SUBSET D /\ e = Arista(<<e.from, e.to>>)
  <2>1. \A x \in P : x = <<x[1], x[2]>>
    BY <1>2
  <2> SUFFICES ASSUME NEW x \in P
               PROVE  /\ Arista(x).amount = Suma(Suyos(Arista(x))) /\ Suyos(Arista(x)) \in SUBSET D
                      /\ Arista(x) = Arista(<<Arista(x).from, Arista(x).to>>)
    <3> HIDE DEF Suyos, P, E
    <3> QED BY <1>5
  <2>2. <<Arista(x).from, Arista(x).to>> = x
    BY <1>4, <2>1
  <2>3. Suyos(Arista(x)) = {b \in D : Dibujada(b) /\ Extremos(b) = x}
    BY <2>2
  <2>4. Arista(x).amount = Suma({b \in D : Dibujada(b) /\ Extremos(b) = x})
    BY DEF Arista
  <2> QED BY <2>2, <2>3, <2>4
<1>9. Numeros(w) /\ MapThenSumSet(LAMBDA e : e.amount, E) = Sumas(w)[E]
  <2>1. \A e \in E : e.amount \in Int
    <3> HIDE DEF E, Suyos, D
    <3> QED BY <1>7, <1>8
  <2> HIDE DEF E
  <2>2. \A u : u = [e \in E |-> e.amount] =>
            Numeros(u) /\ MapThenSumSet(LAMBDA e : e.amount, E) = Sumas(u)[E]
    BY <1>6, <2>1, SumOfEdges
  <2> QED BY <2>2
<1>10. F \in [E -> SUBSET D] /\ DOMAIN w = E /\ DOMAIN v = D
  BY <1>8
<1>11. \A a, b \in E : a # b => F[a] \cap F[b] = {}
  BY <1>8
<1>12. \A e \in E : w[e] = Sumas(v)[F[e]]
  <2>1. \A e \in E : w[e] = e.amount /\ F[e] = Suyos(e)
    OBVIOUS
  <2> HIDE DEF w, F, v, Suyos, E, D
  <2> QED BY <1>7, <1>8, <2>1
<1>13. UNION {F[e] : e \in E} = T
  <2>1. \A e \in E : \A b \in F[e] : b \in T
    <3> SUFFICES ASSUME NEW e \in E, NEW b \in Suyos(e)
                 PROVE  b \in T
      OBVIOUS
    <3>1. e[extremo] = id /\ e[extremo] = Extremo(extremo, <<e.from, e.to>>)
      BY <1>4, <1>8
    <3> QED BY <3>1
  <2>2. \A b \in T : \E e \in E : b \in F[e]
    <3> TAKE b \in T
    <3> DEFINE e == Arista(Extremos(b))
    <3>1. e \in E
      BY <1>5
    <3>2. <<e.from, e.to>> = Extremos(b)
      BY <1>2, <1>4
    <3>3. b \in Suyos(e)
      BY <3>2
    <3> HIDE DEF e, Suyos, E
    <3> QED BY <3>1, <3>3
  <2> HIDE DEF F, E, T
  <2> QED BY <2>1, <2>2
<1>14. Numeros(v) /\ Suma(T) = Sumas(v)[T]
  <2>1. T \in SUBSET D
    OBVIOUS
  <2> HIDE DEF T, D, v
  <2> QED BY <1>7, <2>1
<1> HIDE DEF v, w, F, E, D, T, Suyos
<1>15. Sumas(w)[E] = Sumas(v)[UNION {F[e] : e \in E}]
  BY <1>9, <1>10, <1>11, <1>12, <1>14, SumOfSums
<1> QED BY <1>9, <1>13, <1>14, <1>15 DEF E, T, D

\* There is one company, if any.
LEMMA OneCompany ==
    ASSUME empresa = [rfc |-> _empresa_rfc, clabes |-> _empresa_clabes],
           NEW x \in company_id, NEW y \in company_id
    PROVE  x = y
<1>1. \E r : empresa.rfc \subseteq {r}
  BY DEF _empresa_rfc
<1> QED BY <1>1 DEF company_id

\* Who owns an account in the graph has it in its timeline, or has it in one of
\* its rows, if it is an employee.
LEMMA OwnerHasAccount ==
    ASSUME estate \in Estates, ReadOnce,
           empresa = [rfc |-> _empresa_rfc, clabes |-> _empresa_clabes],
           empresa.rfc # {}, NEW c, c # Nadie, clabe_owner(c)[1] \in {"RFC", "EMP"}
    PROVE  \/ c \in clabes(clabe_owner(c))
           \/ \E e \in estate.employees : clabe_owner(c) = <<"EMP", e.id>> /\ e.clabe = c
<1>1. CASE c \in company_clabes
  <2>1. clabe_owner(c) \in company_id
    BY <1>1 DEF clabe_owner, company_id
  <2> QED BY <1>1, <2>1 DEF clabes
<1>2. CASE c \notin company_clabes
  <2>1. clabe_owner(c) = dueno(c)
    BY <1>2 DEF clabe_owner
  <2>2. CASE Titulares(c) # {}
    <3>1. dueno(c) = <<"RFC", Min(Titulares(c))>> /\ Min(Titulares(c)) \in Titulares(c)
      BY <2>2, FirstOwner, HolderOfAccount
    <3>2. dueno(c) \notin company_id
      <4> SUFFICES ASSUME NEW r \in empresa.rfc, dueno(c) = <<"RFC", r>>
                   PROVE  FALSE
        BY DEF company_id
      <4>1. PICK v \in estate.vendors : v.clabe = c /\ v.id = r
        BY <3>1 DEF Titulares, vendors_por_clabe
      <4>2. c \in empresa.clabes
        BY <4>1, CompanyAccounts
      <4> QED BY <1>2, <4>2 DEF company_clabes
    <3>3. dueno(c)[1] = "RFC"
      BY <3>1
    <3> QED BY <2>1, <3>2, <3>3, AccountOfOwner
  <2>3. CASE Titulares(c) = {} /\ DeNomina(c) # {}
    <3>1. dueno(c) = <<"EMP", Min(DeNomina(c))>> /\ Min(DeNomina(c)) \in DeNomina(c)
      BY <2>3, FirstOwner, HolderOfAccount
    <3>2. PICK e \in estate.employees : e.clabe = c /\ e.id = Min(DeNomina(c))
      BY <3>1 DEF DeNomina, employees_por_clabe
    <3> QED BY <2>1, <3>1, <3>2
  <2>4. CASE Titulares(c) = {} /\ DeNomina(c) = {}
    <3>1. dueno(c) = <<"CLABE", c>>
      BY <2>4, HolderOfAccount
    <3> QED BY <2>1, <3>1
  <2> QED BY <2>2, <2>3, <2>4
<1> QED BY <1>1, <1>2

\* An account in a catalog is in the last row of its vendor, or in a row of its
\* employee.
LEMMA WhereAccountsAre ==
    ASSUME NEW id, id \notin company_id, NEW c \in bank_clabe(id)
    PROVE  /\ c # Nadie
           /\ \/ id[1] = "RFC" /\ id[2] # Nadie /\ id[2] \in Titulares(c)
              \/ id[1] = "EMP" /\ id[2] \in DeNomina(c)
<1>1. c # Nadie
  BY DEF bank_clabe
<1>2. CASE \E v \in ultima("vendors", id[2]) : id[1] = "RFC" /\ v.clabe = c
  <2>1. PICK v \in ultima("vendors", id[2]) : id[1] = "RFC" /\ v.clabe = c
    BY <1>2
  <2>2. v \in estate.vendors /\ v.id = id[2] /\ id[2] # Nadie
    BY DEF ultima
  <2> QED BY <1>1, <2>1, <2>2 DEF Titulares, vendors_por_clabe
<1>3. CASE \E e \in ultima("employees", id[2]) : id[1] = "EMP" /\ e.clabe = c
  <2>1. PICK e \in ultima("employees", id[2]) : id[1] = "EMP" /\ e.clabe = c
    BY <1>3
  <2>2. e \in estate.employees /\ e.id = id[2] /\ id[2] # Nadie
    BY DEF ultima
  <2> QED BY <1>1, <2>1, <2>2 DEF DeNomina, employees_por_clabe
<1> QED BY <1>1, <1>2, <1>3 DEF bank_clabe

\* Who has an account to itself owns it in the graph.
LEMMA ExclusiveOwner ==
    ASSUME estate \in Estates, empresa = [rfc |-> _empresa_rfc, clabes |-> _empresa_clabes],
           NEW id \in catalogo, Exclusiva(id), NEW c \in clabes(id)
    PROVE  clabe_owner(c) = id /\ c # Nadie
<1>1. /\ c \in company_clabes => id \in company_id
      /\ \A v \in vendors_por_clabe(c) : id = <<"RFC", v.id>>
      /\ \A e \in employees_por_clabe(c) : id = <<"EMP", e.id>>
  BY DEF Exclusiva
<1>2. CASE id \in company_id
  <2>1. c \in company_clabes
    BY <1>2 DEF clabes
  <2>2. clabe_owner(c) \in company_id
    BY <1>2, <2>1 DEF clabe_owner
  <2> QED BY <1>2, <2>1, <2>2, OneCompany DEF company_clabes
<1>3. CASE id \notin company_id
  <2>1. c \in bank_clabe(id)
    BY <1>3 DEF clabes
  <2>2. c # Nadie /\ clabe_owner(c) = dueno(c)
    BY <1>1, <1>3, <2>1, WhereAccountsAre DEF clabe_owner
  <2>3. \/ id[1] = "RFC" /\ id[2] # Nadie /\ id[2] \in Titulares(c)
        \/ id[1] = "EMP" /\ id[2] \in DeNomina(c)
    BY <1>3, <2>1, WhereAccountsAre
  <2>4. id = <<id[1], id[2]>>
    BY DEF catalogo, Ids, company_id
  <2>5. /\ \A x \in Titulares(c) : id = <<"RFC", x>>
        /\ \A x \in DeNomina(c) : id = <<"EMP", x>>
    BY <1>1 DEF Titulares, DeNomina
  <2>6. CASE Titulares(c) # {}
    <3>1. dueno(c) = <<"RFC", Min(Titulares(c))>> /\ Min(Titulares(c)) \in Titulares(c)
      BY <2>2, <2>6, FirstOwner, HolderOfAccount
    <3> QED BY <2>2, <2>5, <3>1
  <2>7. CASE Titulares(c) = {}
    <3>1. DeNomina(c) # {}
      BY <2>3, <2>7
    <3>2. dueno(c) = <<"EMP", Min(DeNomina(c))>> /\ Min(DeNomina(c)) \in DeNomina(c)
      BY <2>2, <2>7, <3>1, FirstOwner, HolderOfAccount
    <3> QED BY <2>2, <2>5, <3>2
  <2> QED BY <2>6, <2>7
<1> QED BY <1>2, <1>3

\* The owner of an account that somebody is known to have is in the graph.
LEMMA KnownIsANode ==
    ASSUME estate \in Estates, empresa.rfc # {}, NEW c, Conocida(c)
    PROVE  clabe_owner(c) \in node_ids("all") /\ clabe_owner(c)[1] \in {"RFC", "EMP"}
<1>1. CASE c \in company_clabes
  <2>1. clabe_owner(c) \in company_id
    BY <1>1 DEF clabe_owner, company_id
  <2> QED BY <2>1 DEF node_ids, company_id
<1>2. CASE c \notin company_clabes
  <2>1. clabe_owner(c) = dueno(c) /\ c # Nadie /\ dueno(c)[1] # "CLABE"
    BY <1>2 DEF clabe_owner, Conocida
  <2>2. Titulares(c) # {} \/ DeNomina(c) # {}
    <3> SUFFICES ASSUME Titulares(c) = {}, DeNomina(c) = {}
                 PROVE  FALSE
      OBVIOUS
    <3>1. dueno(c) = <<"CLABE", c>>
      BY HolderOfAccount
    <3> QED BY <2>1, <3>1
  <2>3. CASE Titulares(c) # {}
    <3>1. /\ dueno(c) = <<"RFC", Min(Titulares(c))>>
          /\ Min(Titulares(c)) \in Titulares(c) /\ Min(Titulares(c)) # Nadie
      BY <2>1, <2>3, FirstOwner, HolderOfAccount
    <3>2. PICK v \in estate.vendors : v.id = Min(Titulares(c))
      BY <3>1 DEF Titulares, vendors_por_clabe
    <3>3. dueno(c) \in catalogo
      BY <3>1, <3>2 DEF catalogo, Ids
    <3>4. dueno(c) \in company_id \/ kind(dueno(c)) = "vendor"
      <4>1. EsProveedor(dueno(c))
        BY <3>1, <3>2 DEF EsProveedor, vendors_por_rfc
      <4>2. dueno(c)[1] = "RFC"
        BY <3>1
      <4> QED BY <4>1, <4>2 DEF kind
    <3> QED BY <2>1, <3>1, <3>3, <3>4 DEF node_ids
  <2>4. CASE Titulares(c) = {} /\ DeNomina(c) # {}
    <3>1. dueno(c) = <<"EMP", Min(DeNomina(c))>> /\ Min(DeNomina(c)) \in DeNomina(c)
      BY <2>1, <2>4, FirstOwner, HolderOfAccount
    <3>2. PICK v \in estate.employees : v.id = Min(DeNomina(c)) /\ v.id # Nadie
      BY <3>1 DEF DeNomina, employees_por_clabe
    <3>3. dueno(c) \in catalogo
      BY <3>1, <3>2 DEF catalogo, Ids
    <3>4. dueno(c) \in company_id \/ kind(dueno(c)) = "employee"
      BY <3>1 DEF kind
    <3> QED BY <2>1, <3>1, <3>3, <3>4 DEF node_ids
  <2> QED BY <2>2, <2>3, <2>4
<1> QED BY <1>1, <1>2

\* Whoever has an account to itself is in the graph.
LEMMA ExclusiveIsANode ==
    ASSUME estate \in Estates, empresa = [rfc |-> _empresa_rfc, clabes |-> _empresa_clabes],
           empresa.rfc # {}, NEW id \in catalogo, Exclusiva(id)
    PROVE  id \in node_ids("all") /\ id[1] \in {"RFC", "EMP"}
<1>1. PICK c \in clabes(id) : TRUE
  BY DEF Exclusiva
<1>2. clabe_owner(c) = id /\ c # Nadie
  BY ExclusiveOwner
<1>3. id[1] \in {"RFC", "EMP"}
  BY DEF catalogo, Ids, company_id
<1>4. Conocida(c)
  BY <1>2, <1>3 DEF Conocida
<1> QED BY <1>2, <1>4, KnownIsANode

\* The totals of a timeline and of the graph agree (views.py, entity_timeline
\* and _GraphBuilder) for whoever has its accounts to itself, for any estate
\* without negative amounts.
THEOREM TimelinesAgree ==
    ASSUME \A e \in Estates : \A b \in e.bank_txns : b.monto >= 0
    PROVE  ViewSpec => []TimelineAgreesWithGraph
<1>1. ViewInv => TimelineAgreesWithGraph
  <2> SUFFICES ASSUME ViewInv, Leido, empresa.rfc # {}, NEW id \in catalogo, Exclusiva(id)
               PROVE  LET dibujo == edges("all")
                          De_a(extremo, x) ==
                              MapThenSumSet(LAMBDA e : e.amount, {e \in dibujo : e[extremo] = x})
                          llega == IF id \in company_id THEN received(id) ELSE paid(id)
                          sale == IF id \in company_id THEN paid(id) ELSE received(id)
                          reciben == Suma({b \in txns(id) : b.origen \notin clabes(id) /\ Conocida(b.origen)})
                          envian == Suma({b \in txns(id) : b.destino \notin clabes(id) /\ Conocida(b.destino)})
                      IN  /\ reciben <= De_a("to", id) /\ De_a("to", id) <= llega
                          /\ \/ kind(id) = "employee"
                             \/ envian <= De_a("from", id) /\ De_a("from", id) <= sale
    BY DEF TimelineAgreesWithGraph
  <2> DEFINE llegan == {b \in txns(id) : b.destino \in clabes(id)}
             salen == {b \in txns(id) : b.destino \notin clabes(id)}
             reciben == {b \in txns(id) : b.origen \notin clabes(id) /\ Conocida(b.origen)}
             envian == {b \in txns(id) : b.destino \notin clabes(id) /\ Conocida(b.destino)}
             a == {b \in estate.bank_txns : Dibujada(b) /\ Extremo("to", Extremos(b)) = id}
             de == {b \in estate.bank_txns : Dibujada(b) /\ Extremo("from", Extremos(b)) = id}
             De_a(extremo) == MapThenSumSet(LAMBDA e : e.amount, {e \in edges("all") : e[extremo] = id})
  <2>1. /\ estate \in Estates /\ empresa = [rfc |-> _empresa_rfc, clabes |-> _empresa_clabes]
        /\ ReadOnce
    BY DEF ViewInv, AuditInv, Signalled, OpenAtTheEnd, Leido
  <2>2. De_a("to") = Suma(a) /\ De_a("from") = Suma(de)
    BY <2>1, EdgesAddUp
  <2>3. id \in node_ids("all") /\ id[1] \in {"RFC", "EMP"}
    BY <2>1, ExclusiveIsANode
  <2>4. ASSUME NEW c, c # Nadie
        PROVE  clabe_owner(c) = id <=> c \in clabes(id)
    <3>1. c \in clabes(id) => clabe_owner(c) = id
      BY <2>1, ExclusiveOwner
    <3>2. ASSUME clabe_owner(c) = id
          PROVE  c \in clabes(id)
      <4>1. \/ c \in clabes(id)
            \/ \E e \in estate.employees : id = <<"EMP", e.id>> /\ e.clabe = c
        BY <2>1, <2>3, <2>4, <3>2, OwnerHasAccount
      <4>2. \A e \in estate.employees : id = <<"EMP", e.id>> => e.clabe \in clabes(id) \cup {Nadie}
        BY DEF Exclusiva
      <4> QED BY <2>4, <4>1, <4>2
    <3> QED BY <3>1, <3>2
  <2>5. \A c \in clabes(id) : c # Nadie
    BY <2>1, ExclusiveOwner
  <2>6. ASSUME NEW b \in estate.bank_txns, Dibujada(b)
        PROVE  /\ b.origen # Nadie /\ b.destino # Nadie
               /\ Extremos(b)[1] = clabe_owner(b.origen) /\ Extremos(b)[2] = clabe_owner(b.destino)
               /\ Extremos(b)[1] # Extremos(b)[2]
    BY <2>6 DEF Dibujada, add_edge, Extremos
  <2>7. \A b : b \in txns(id) <=> b \in estate.bank_txns /\ (b.origen \in clabes(id) \/ b.destino \in clabes(id))
    BY DEF txns
  <2>8. a \subseteq llegan
    BY <2>4, <2>6, <2>7 DEF Extremo
  <2>9. de \subseteq salen
    BY <2>4, <2>6, <2>7 DEF Extremo
  <2>10. reciben \subseteq a
    <3> SUFFICES ASSUME NEW b \in reciben
                 PROVE  b \in a
      OBVIOUS
    <3>1. /\ b \in estate.bank_txns /\ b.destino \in clabes(id) /\ b.origen \notin clabes(id)
          /\ Conocida(b.origen) /\ b.origen # Nadie /\ b.destino # Nadie
      BY <2>5, <2>7 DEF Conocida
    <3>2. clabe_owner(b.destino) = id /\ clabe_owner(b.origen) # id
      BY <2>4, <3>1
    <3>3. clabe_owner(b.origen) \in node_ids("all")
      BY <2>1, <3>1, KnownIsANode
    <3> QED BY <2>3, <3>1, <3>2, <3>3 DEF Dibujada, add_edge, Extremos, Extremo
  <2>11. envian \subseteq de
    <3> SUFFICES ASSUME NEW b \in envian
                 PROVE  b \in de
      OBVIOUS
    <3>1. /\ b \in estate.bank_txns /\ b.origen \in clabes(id) /\ b.destino \notin clabes(id)
          /\ Conocida(b.destino) /\ b.origen # Nadie /\ b.destino # Nadie
      BY <2>5, <2>7 DEF Conocida
    <3>2. clabe_owner(b.origen) = id /\ clabe_owner(b.destino) # id
      BY <2>4, <3>1
    <3>3. clabe_owner(b.destino) \in node_ids("all")
      BY <2>1, <3>1, KnownIsANode
    <3> QED BY <2>3, <3>1, <3>2, <3>3 DEF Dibujada, add_edge, Extremos, Extremo
  <2>12. llegan \subseteq estate.bank_txns /\ salen \subseteq estate.bank_txns
         /\ a \subseteq estate.bank_txns /\ de \subseteq estate.bank_txns
    BY <2>7
  <2>13. IsFiniteSet(estate.bank_txns) /\ \A b \in estate.bank_txns : Monto(b) \in Int /\ Monto(b) >= 0
    <3>1. IsFiniteSet(estate["bank_txns"])
      BY <2>1, EstatesAreFinite DEF Tablas
    <3>2. \A b \in estate.bank_txns : b.monto >= 0
      BY <2>1
    <3> QED BY <2>1, <3>1, <3>2, AmountOfTransfer
  <2>14. receives(id) = Suma(llegan) /\ sends(id) = Suma(salen)
    BY DEF receives, sends
  <2>15. /\ id \in company_id => received(id) = receives(id) /\ paid(id) = sends(id)
         /\ id \notin company_id => paid(id) = receives(id)
         /\ id \notin company_id /\ kind(id) # "employee" => received(id) = sends(id)
    <3>1. id \notin company_id /\ kind(id) # "employee" => id[1] = "RFC"
      BY <2>3 DEF kind
    <3> QED BY <3>1 DEF received, paid
  <2> HIDE DEF llegan, salen, reciben, envian, a, de
  <2>16. Suma(reciben) <= Suma(a) /\ Suma(a) <= Suma(llegan)
    BY <2>8, <2>10, <2>12, <2>13, MoreTransfers
  <2>17. Suma(envian) <= Suma(de) /\ Suma(de) <= Suma(salen)
    BY <2>9, <2>11, <2>12, <2>13, MoreTransfers
  <2> HIDE DEF De_a
  <2>18. Suma(reciben) <= De_a("to") /\ Suma(envian) <= De_a("from")
    BY <2>2, <2>16, <2>17
  <2>19. De_a("to") <= IF id \in company_id THEN received(id) ELSE paid(id)
    BY <2>2, <2>14, <2>15, <2>16
  <2>20. kind(id) = "employee" \/ De_a("from") <= IF id \in company_id THEN paid(id) ELSE received(id)
    BY <2>2, <2>14, <2>15, <2>17
  <2> QED BY <2>18, <2>19, <2>20 DEF De_a, reciben, envian
<1> QED BY <1>1, ViewInvariant, PTL

-----------------------------------------------------------------------------
(* Whoever is named is in the estate *)

\* What a reference in the estate may be.
Referencias ==
    {Nadie} \cup empresa.rfc
        \cup {f.id : f \in estate.vendors \cup estate.efos_list \cup estate.employees}
        \cup {f.clabe : f \in estate.vendors \cup estate.employees}
        \cup {i.emisor : i \in estate.invoices}
        \cup {b.origen : b \in estate.bank_txns} \cup {b.destino : b \in estate.bank_txns}
        \cup {o.solicita : o \in estate.purchase_orders} \cup {o.rfc : o \in estate.purchase_orders}

TIPOS == {"rfc", "empresa", "employee", "clabe", "persona"}
Prefijos == {"RFC", "EMP", "CLABE", "PERSONA", "SIN_ENTIDAD"}

\* The values of a field of finitely many rows.
LEMMA FiniteFields ==
    ASSUME NEW S, IsFiniteSet(S)
    PROVE  /\ IsFiniteSet({f.id : f \in S}) /\ IsFiniteSet({f.clabe : f \in S})
           /\ IsFiniteSet({f.emisor : f \in S}) /\ IsFiniteSet({f.receptor : f \in S})
           /\ IsFiniteSet({f.origen : f \in S}) /\ IsFiniteSet({f.destino : f \in S})
           /\ IsFiniteSet({f.solicita : f \in S}) /\ IsFiniteSet({f.rfc : f \in S})
<1>1. ASSUME NEW g, DOMAIN g = S, g = [x \in S |-> g[x]]
      PROVE  IsFiniteSet({g[x] : x \in S})
  <2> DEFINE T == {g[x] : x \in S}
  <2>1. g \in Surjection(S, T)
    BY <1>1 DEF Surjection
  <2>2. IsFiniteSet(T)
    <3> HIDE DEF T
    <3> QED BY <2>1, FS_Surjection
  <2> QED BY <2>2
<1>2. \A g : DOMAIN g = S /\ g = [x \in S |-> g[x]] => IsFiniteSet({g[x] : x \in S})
  BY <1>1
<1>3. IsFiniteSet({f.id : f \in S}) /\ IsFiniteSet({f.clabe : f \in S})
  <2> DEFINE a == [f \in S |-> f.id]
             b == [f \in S |-> f.clabe]
  <2>1. {f.id : f \in S} = {a[f] : f \in S} /\ {f.clabe : f \in S} = {b[f] : f \in S}
    OBVIOUS
  <2>2. /\ DOMAIN a = S /\ a = [x \in S |-> a[x]] /\ DOMAIN b = S /\ b = [x \in S |-> b[x]]
    OBVIOUS
  <2> HIDE DEF a, b
  <2> QED BY <1>2, <2>1, <2>2
<1>4. IsFiniteSet({f.emisor : f \in S}) /\ IsFiniteSet({f.receptor : f \in S})
  <2> DEFINE a == [f \in S |-> f.emisor]
             b == [f \in S |-> f.receptor]
  <2>1. {f.emisor : f \in S} = {a[f] : f \in S} /\ {f.receptor : f \in S} = {b[f] : f \in S}
    OBVIOUS
  <2>2. /\ DOMAIN a = S /\ a = [x \in S |-> a[x]] /\ DOMAIN b = S /\ b = [x \in S |-> b[x]]
    OBVIOUS
  <2> HIDE DEF a, b
  <2> QED BY <1>2, <2>1, <2>2
<1>5. IsFiniteSet({f.origen : f \in S}) /\ IsFiniteSet({f.destino : f \in S})
  <2> DEFINE a == [f \in S |-> f.origen]
             b == [f \in S |-> f.destino]
  <2>1. {f.origen : f \in S} = {a[f] : f \in S} /\ {f.destino : f \in S} = {b[f] : f \in S}
    OBVIOUS
  <2>2. /\ DOMAIN a = S /\ a = [x \in S |-> a[x]] /\ DOMAIN b = S /\ b = [x \in S |-> b[x]]
    OBVIOUS
  <2> HIDE DEF a, b
  <2> QED BY <1>2, <2>1, <2>2
<1>6. IsFiniteSet({f.solicita : f \in S}) /\ IsFiniteSet({f.rfc : f \in S})
  <2> DEFINE a == [f \in S |-> f.solicita]
             b == [f \in S |-> f.rfc]
  <2>1. {f.solicita : f \in S} = {a[f] : f \in S} /\ {f.rfc : f \in S} = {b[f] : f \in S}
    OBVIOUS
  <2>2. /\ DOMAIN a = S /\ a = [x \in S |-> a[x]] /\ DOMAIN b = S /\ b = [x \in S |-> b[x]]
    OBVIOUS
  <2> HIDE DEF a, b
  <2> QED BY <1>2, <2>1, <2>2
<1> QED BY <1>3, <1>4, <1>5, <1>6

LEMMA FiniteTables ==
    ASSUME estate \in Estates
    PROVE  /\ IsFiniteSet(estate.vendors) /\ IsFiniteSet(estate.efos_list)
           /\ IsFiniteSet(estate.employees) /\ IsFiniteSet(estate.invoices)
           /\ IsFiniteSet(estate.bank_txns) /\ IsFiniteSet(estate.purchase_orders)
<1>1. \A t \in Tablas : IsFiniteSet(estate[t])
  BY EstatesAreFinite
<1> QED BY <1>1 DEF Tablas

\* The company is the RFC of an invoice.
LEMMA CompanyIsANumber ==
    ASSUME estate \in Estates
    PROVE  IsFiniteSet(_empresa_rfc) /\ _empresa_rfc \subseteq Nat
<1> DEFINE todos == UNION {{i.emisor, i.receptor} : i \in estate.invoices}
           rfcs == todos \ {Nadie}
           primeros == {r \in rfcs : \A q \in rfcs : Veces(q) <= Veces(r)}
           veces == {Veces(r) : r \in rfcs}
<1>1. todos = {i.emisor : i \in estate.invoices} \cup {i.receptor : i \in estate.invoices}
  OBVIOUS
<1>2. IsFiniteSet(todos)
  <2>1. /\ IsFiniteSet({i.emisor : i \in estate.invoices})
        /\ IsFiniteSet({i.receptor : i \in estate.invoices})
    BY FiniteTables, FiniteFields
  <2> HIDE DEF todos
  <2> QED BY <1>1, <2>1, FS_Union
<1>3. IsFiniteSet(rfcs)
  <2> HIDE DEF todos
  <2> QED BY <1>2, FS_Subset
<1>4. rfcs \subseteq Nat
  BY IdsAreOrdered
<1>5. \A r : Veces(r) \in Int
  <2> TAKE r
  <2>1. IsFiniteSet(Facturas(r)) /\ IsFiniteSet(Recibidas(r))
    BY FiniteTables, FS_Subset DEF Facturas, Recibidas
  <2> QED BY <2>1, FS_CardinalityType DEF Veces
<1>6. _empresa_rfc = IF rfcs = {} THEN {} ELSE {Min(primeros)}
  BY DEF _empresa_rfc
<1>7. CASE rfcs = {}
  BY <1>6, <1>7, FS_EmptySet
<1>8. CASE rfcs # {}
  <2> DEFINE f == [r \in rfcs |-> Veces(r)]
  <2>1. f \in Surjection(rfcs, veces)
    BY DEF Surjection
  <2>2. IsFiniteSet(veces)
    <3> HIDE DEF f, rfcs, veces
    <3> QED BY <1>3, <2>1, FS_Surjection
  <2>3. veces \in SUBSET Int /\ veces # {}
    <3> HIDE DEF rfcs
    <3> QED BY <1>5, <1>8
  <2>4. PICK n \in veces : \A m \in veces : n >= m
    <3> HIDE DEF veces
    <3> QED BY <2>2, <2>3, FirstAndLast
  <2>5. PICK r \in rfcs : n = Veces(r)
    <3> HIDE DEF rfcs
    <3> QED OBVIOUS
  <2>6. r \in primeros
    <3> HIDE DEF rfcs
    <3> QED BY <1>5, <2>4, <2>5
  <2>7. primeros \in SUBSET Nat /\ primeros # {}
    BY <1>4, <2>6
  <2> HIDE DEF primeros, rfcs
  <2>8. Min(primeros) \in Nat
    BY <2>7, LeastNumber DEF Min
  <2> QED BY <1>6, <1>8, <2>8, FS_Singleton
<1> QED BY <1>7, <1>8

LEMMA ReferencesAreFew ==
    ASSUME estate \in Estates, empresa = [rfc |-> _empresa_rfc, clabes |-> _empresa_clabes]
    PROVE  IsFiniteSet(Referencias) /\ Referencias \subseteq Nat
<1>1. /\ IsFiniteSet(empresa.rfc) /\ empresa.rfc \subseteq Nat
      /\ IsFiniteSet({Nadie}) /\ Nadie \in Nat
  BY CompanyIsANumber, FS_Singleton DEF Nadie
<1>2. IsFiniteSet(estate.vendors \cup estate.efos_list \cup estate.employees)
  BY FiniteTables, FS_Union
<1>3. IsFiniteSet(estate.vendors \cup estate.employees)
  BY FiniteTables, FS_Union
<1> DEFINE a == {f.id : f \in estate.vendors \cup estate.efos_list \cup estate.employees}
           b == {f.clabe : f \in estate.vendors \cup estate.employees}
           c == {i.emisor : i \in estate.invoices}
           d == {x.origen : x \in estate.bank_txns}
           e == {x.destino : x \in estate.bank_txns}
           g == {o.solicita : o \in estate.purchase_orders}
           h == {o.rfc : o \in estate.purchase_orders}
<1>4. IsFiniteSet(a) /\ IsFiniteSet(b)
  BY <1>2, <1>3, FiniteFields
<1>5. IsFiniteSet(c) /\ IsFiniteSet(d) /\ IsFiniteSet(e) /\ IsFiniteSet(g) /\ IsFiniteSet(h)
  BY FiniteTables, FiniteFields
<1>6. a \subseteq Nat /\ b \subseteq Nat
  BY IdsAreOrdered DEF Tablas
<1>7. c \subseteq Nat /\ d \subseteq Nat /\ e \subseteq Nat /\ g \subseteq Nat /\ h \subseteq Nat
  BY IdsAreOrdered
<1>8. Referencias = {Nadie} \cup empresa.rfc \cup a \cup b \cup c \cup d \cup e \cup g \cup h
  BY DEF Referencias
<1> HIDE DEF a, b, c, d, e, g, h
<1>9. Referencias \subseteq Nat
  BY <1>1, <1>6, <1>7, <1>8
<1>10. IsFiniteSet(Referencias)
  <2>1. IsFiniteSet({Nadie} \cup empresa.rfc \cup a \cup b)
    BY <1>1, <1>4, FS_Union
  <2>2. IsFiniteSet({Nadie} \cup empresa.rfc \cup a \cup b \cup c \cup d)
    BY <1>5, <2>1, FS_Union
  <2>3. IsFiniteSet({Nadie} \cup empresa.rfc \cup a \cup b \cup c \cup d \cup e \cup g)
    BY <1>5, <2>2, FS_Union
  <2> QED BY <1>5, <1>8, <2>3, FS_Union
<1> QED BY <1>9, <1>10

\* The entities of the signals are references.
LEMMA EntitiesAreReferences ==
    ASSUME NEW s \in Senales, NEW e \in de_senal(s)
    PROVE  e.canonico \in Referencias /\ e.tipo \in TIPOS
<1>1. ASSUME NEW r \in Referencias, e \in Rfc(r)
      PROVE  e.canonico \in Referencias /\ e.tipo \in TIPOS
  BY <1>1, OfRfc DEF TIPOS
<1>2. ASSUME NEW x \in Referencias, e \in Empleado(x)
      PROVE  e.canonico \in Referencias /\ e.tipo \in TIPOS
  <2>1. e = Entidad("employee", x)
    BY <1>2, OfEmpleado
  <2> QED BY <2>1 DEF Entidad, TIPOS
<1>3. ASSUME NEW c \in Referencias, e \in Clabe(c)
      PROVE  e.canonico \in Referencias /\ e.tipo \in TIPOS
  <2>1. \/ e \in {Entidad("empresa", x) : x \in {c} \cup empresa.rfc}
        \/ e = Entidad("clabe", c)
        \/ e \in Duenos(c)
    BY <1>3 DEF Clabe
  <2>2. CASE e \in {Entidad("empresa", x) : x \in {c} \cup empresa.rfc}
    BY <2>2 DEF Entidad, TIPOS, Referencias
  <2>3. CASE e = Entidad("clabe", c)
    BY <2>3 DEF Entidad, TIPOS
  <2>4. CASE e \in Duenos(c)
    <3>1. \/ \E v \in vendors_por_clabe(c) : e \in Rfc(v.id)
          \/ \E v \in employees_por_clabe(c) : e \in Empleado(v.id)
      BY <2>4 DEF Duenos
    <3>2. /\ \A v \in vendors_por_clabe(c) : v.id \in Referencias
          /\ \A v \in employees_por_clabe(c) : v.id \in Referencias
      BY DEF vendors_por_clabe, employees_por_clabe, Referencias
    <3> QED BY <1>1, <1>2, <3>1, <3>2
  <2> QED BY <2>1, <2>2, <2>3, <2>4
<1>4. CASE EsDeFactura(s)
  <2>1. s.regla \in DeFacturas
    BY <1>4, SignalSchemes
  <2>2. PICK i \in estate.invoices : s.entidad = i.emisor
    BY <1>4 DEF EsDeFactura, DeFactura, Senal
  <2>3. de_senal(s) = Rfc(s.entidad)
    BY <2>1 DEF de_senal, DeFacturas
  <2>4. s.entidad \in Referencias
    BY <2>2 DEF Referencias
  <2> QED BY <1>1, <2>3, <2>4
<1>5. CASE EsSalida(s)
  <2>1. s.regla = "OUTBOUND_TO_SUSPECT_ENTITY"
    BY <1>5, SignalSchemes
  <2>2. PICK v \in estate.vendors : s.entidad = v.id
    BY <1>5 DEF EsSalida, Senal
  <2>3. de_senal(s) = Rfc(s.entidad)
    BY <2>1 DEF de_senal
  <2>4. s.entidad \in Referencias
    BY <2>2 DEF Referencias
  <2> QED BY <1>1, <2>3, <2>4
<1>6. CASE EsCompartida(s)
  <2>1. PICK c \in Compartidas : s.contexto = Rfcs(c) /\ s.regla = "SHARED_CLABE_MULTI_RFC"
    BY <1>6 DEF EsCompartida, Senal
  <2>2. PICK r \in Rfcs(c) : e \in Rfc(r)
    BY <2>1 DEF de_senal
  <2>3. r \in Referencias
    BY <2>2 DEF Rfcs, vendors_por_clabe, Referencias
  <2> QED BY <1>1, <2>2, <2>3
<1>7. CASE EsPago(s)
  <2>1. PICK b \in estate.bank_txns, m \in estate.employees :
            /\ s.entidad = m.id /\ s.regla = "PAYMENT_TO_EMPLOYEE_ACCOUNT"
            /\ s.contexto = [origen |-> b.origen, destino |-> b.destino]
    BY <1>7 DEF EsPago, Senal
  <2>2. e \in Empleado(s.entidad) \cup Clabe(b.destino) \cup Clabe(b.origen)
    BY <2>1 DEF de_senal
  <2>3. s.entidad \in Referencias /\ b.origen \in Referencias /\ b.destino \in Referencias
    BY <2>1 DEF Referencias
  <2> QED BY <1>2, <1>3, <2>2, <2>3
<1>8. CASE EsOrden(s)
  <2>1. PICK o \in estate.purchase_orders :
            s.entidad = o.solicita /\ s.contexto = o.rfc /\ s.regla = "NO_SEGREGATION_OF_DUTIES"
    BY <1>8 DEF EsOrden, Senal
  <2>2. e \in Persona(s.entidad) \cup Rfc(s.contexto)
    BY <2>1 DEF de_senal
  <2>3. s.entidad \in Referencias /\ s.contexto \in Referencias
    BY <2>1 DEF Referencias
  <2>4. e = Entidad("persona", s.entidad) => e.canonico \in Referencias /\ e.tipo \in TIPOS
    BY <2>3 DEF Entidad, TIPOS
  <2>5. e \in Persona(s.entidad) => e = Entidad("persona", s.entidad) \/ e \in Empleado(s.entidad)
    BY DEF Persona
  <2> QED BY <1>1, <1>2, <2>2, <2>3, <2>4, <2>5
<1> QED BY <1>4, <1>5, <1>6, <1>7, <1>8, SignalForms

\* Some entity is the first.
LEMMA PrimeraIsOne ==
    ASSUME NEW es, es # {}, \A e \in es : e.canonico \in Nat /\ e.tipo \in TIPOS
    PROVE  Primera(es) \in es
<1> DEFINE R == {Rango[e.tipo] : e \in es}
<1>1. R \in SUBSET Nat /\ R # {}
  BY DEF Rango, TIPOS
<1>2. PICK n \in R : \A m \in R : n <= m
  <2> HIDE DEF R
  <2> QED BY <1>1, LeastNumber
<1> DEFINE N == {e.canonico : e \in {e \in es : Rango[e.tipo] = n}}
<1>3. N \in SUBSET Nat /\ N # {}
  OBVIOUS
<1>4. PICK x \in N : \A y \in N : x <= y
  <2> HIDE DEF N
  <2> QED BY <1>3, LeastNumber
<1>5. PICK e \in es : Rango[e.tipo] = n /\ e.canonico = x
  BY <1>4
<1>6. ASSUME NEW f \in es
      PROVE  \/ Rango[e.tipo] < Rango[f.tipo]
             \/ e.tipo = f.tipo /\ e.canonico <= f.canonico
  <2>1. n <= Rango[f.tipo] /\ n \in Nat /\ Rango[f.tipo] \in Nat
    BY <1>1, <1>2
  <2>2. CASE Rango[f.tipo] = n
    <3>1. e.tipo = f.tipo
      BY <1>5, <2>2 DEF Rango, TIPOS
    <3>2. f.canonico \in N
      BY <2>2
    <3> QED BY <1>4, <1>5, <3>1, <3>2
  <2> QED BY <1>5, <2>1, <2>2
<1> QED BY <1>6 DEF Primera

\* A lead is named after an entity of its cluster.
LEMMA PrincipalIsOne ==
    ASSUME estate \in Estates, empresa = [rfc |-> _empresa_rfc, clabes |-> _empresa_clabes],
           NEW cl, cl.senales \subseteq Senales
    PROVE  \/ principal(cl) = <<"SIN_ENTIDAD", Nadie>>
           \/ \E e \in entidades(cl) : principal(cl) = format_entity_id(e)
<1>1. \A e \in entidades(cl) : e.canonico \in Nat /\ e.tipo \in TIPOS
  BY EntitiesAreReferences, ReferencesAreFew DEF entidades
<1> DEFINE ajenas == {e \in entidades(cl) : e.tipo # "empresa"}
<1>2. acusables(cl) \subseteq entidades(cl)
  BY DEF acusables
<1>3. CASE acusables(cl) # {}
  <2>1. Primera(acusables(cl)) \in acusables(cl)
    BY <1>1, <1>2, <1>3, PrimeraIsOne
  <2>2. principal(cl) = format_entity_id(Primera(acusables(cl)))
    BY <1>3 DEF principal
  <2> QED BY <1>2, <2>1, <2>2
<1>4. CASE acusables(cl) = {} /\ ajenas # {}
  <2>1. Primera(ajenas) \in ajenas
    BY <1>1, <1>4, PrimeraIsOne
  <2>2. principal(cl) = format_entity_id(Primera(ajenas))
    BY <1>4 DEF principal
  <2> QED BY <2>1, <2>2
<1>5. CASE acusables(cl) = {} /\ ajenas = {} /\ entidades(cl) # {}
  <2>1. Primera(entidades(cl)) \in entidades(cl)
    BY <1>1, <1>5, PrimeraIsOne
  <2>2. principal(cl) = format_entity_id(Primera(entidades(cl)))
    BY <1>5 DEF principal
  <2> QED BY <2>1, <2>2
<1>6. CASE acusables(cl) = {} /\ ajenas = {} /\ entidades(cl) = {}
  BY <1>6 DEF principal
<1> QED BY <1>3, <1>4, <1>5, <1>6

\* Everybody in the lists of entities is a reference of the estate.
LEMMA PopulationIsFinite ==
    ASSUME AuditInv, fase = "fin"
    PROVE  IsFiniteSet(entity_population) /\ entity_population \subseteq Prefijos \X Nat
<1>1. /\ estate \in Estates /\ empresa = [rfc |-> _empresa_rfc, clabes |-> _empresa_clabes]
      /\ senales \subseteq Senales /\ publicados \subseteq hallazgos /\ Decididos = Todos
  BY DEF AuditInv, Signalled, InOrder, Answered
<1>2. \A cl \in Todos : cl.senales \subseteq Senales
  <2> TAKE cl \in Todos
  <2>1. PICK esquema \in Esquemas : cl \in Clusters(esquema)
    BY DEF Todos
  <2> QED BY <1>1, <2>1, ClustersAre DEF Grupo, DelEsquema
<1>3. ASSUME NEW e, e.canonico \in Referencias, e.tipo \in TIPOS
      PROVE  format_entity_id(e) \in Prefijos \X Referencias
  BY <1>3 DEF format_entity_id, PREFIJOS, TIPOS, Prefijos
<1>4. ASSUME NEW cl \in Todos, NEW e \in entidades(cl)
      PROVE  format_entity_id(e) \in Prefijos \X Referencias
  BY <1>2, <1>3, EntitiesAreReferences DEF entidades
<1>5. \A h \in publicados : entities(h) \subseteq Prefijos \X Referencias
  <2> SUFFICES ASSUME NEW h \in publicados, NEW e \in h.entidades
               PROVE  format_entity_id(e) \in Prefijos \X Referencias
    BY DEF entities
  <2>1. h.cluster \in Todos /\ e \in entidades(h.cluster)
    BY <1>1, FindingsOf DEF Decididos, Acusados, acusables
  <2> QED BY <1>4, <2>1
<1>6. \A p \in pistas : principal(p.cluster) \in Prefijos \X Referencias
  <2> TAKE p \in pistas
  <2>1. p.cluster \in Todos
    BY <1>1 DEF Decididos, Cerrados
  <2>2. <<"SIN_ENTIDAD", Nadie>> \in Prefijos \X Referencias
    BY DEF Prefijos, Referencias
  <2> QED BY <1>1, <1>2, <1>4, <2>1, <2>2, PrincipalIsOne
<1>7. catalogo \subseteq Prefijos \X Referencias
  BY DEF catalogo, Ids, company_id, Prefijos, Referencias
<1>8. entity_population \subseteq Prefijos \X Referencias
  BY <1>5, <1>6, <1>7 DEF entity_population, flagged
<1>9. IsFiniteSet(Prefijos)
  <2>1. Prefijos = {"RFC"} \cup {"EMP"} \cup {"CLABE"} \cup {"PERSONA"} \cup {"SIN_ENTIDAD"}
    BY DEF Prefijos
  <2>2. \A x : IsFiniteSet({x})
    BY FS_Singleton
  <2>3. IsFiniteSet({"RFC"} \cup {"EMP"} \cup {"CLABE"})
    BY <2>2, FS_Union
  <2>4. IsFiniteSet({"RFC"} \cup {"EMP"} \cup {"CLABE"} \cup {"PERSONA"})
    BY <2>2, <2>3, FS_Union
  <2> QED BY <2>1, <2>2, <2>4, FS_Union
<1>10. IsFiniteSet(Prefijos \X Referencias) /\ Referencias \subseteq Nat
  BY <1>1, <1>9, ReferencesAreFew, FS_Product
<1>11. IsFiniteSet(entity_population)
  BY <1>8, <1>10, FS_Subset
<1> QED BY <1>8, <1>10, <1>11
-----------------------------------------------------------------------------
(* The pages *)

\* The order of a list, if the index reads this row of each repeated id.
PrecedeEn(t, lee, f, g) ==
    \/ DATE_FIELD(t, f) < DATE_FIELD(t, g)
    \/ DATE_FIELD(t, f) = DATE_FIELD(t, g) /\ f.id < g.id
    \/ DATE_FIELD(t, f) = DATE_FIELD(t, g) /\ f.id = g.id /\ f # g /\ f = lee[<<t, f.id>>]
Delante(q, lee, f, g) ==
    IF q.tabla = ENTIDADES THEN AntesEntidad(f, g) ELSE PrecedeEn(q.tabla, lee, f, g)
LugarEn(q, lee, f) == Cardinality({g \in matches(q) : Delante(q, lee, g, f)})

\* What is shown before the place k.
Hasta(q, lee, k) == {f \in matches(q) : LugarEn(q, lee, f) < k}
Claves(q, S) == {Clave(q, f) : f \in S}

\* An exchange keeps numbers.
LEMMA SwapKeepsCount ==
    ASSUME NEW M, NEW pi \in [M -> M], \A x \in M : pi[pi[x]] = x,
           NEW S, S \subseteq M, IsFiniteSet(S), NEW T, T \subseteq M,
           \A x \in M : x \in S <=> pi[x] \in T
    PROVE  Cardinality(T) = Cardinality(S)
<1> DEFINE f == [x \in S |-> pi[x]]
<1>1. f \in [S -> T]
  OBVIOUS
<1>2. \A x, y \in S : f[x] = f[y] => x = y
  OBVIOUS
<1>3. \A y \in T : \E x \in S : f[x] = y
  <2> TAKE y \in T
  <2>1. pi[y] \in M /\ pi[pi[y]] = y
    OBVIOUS
  <2>2. pi[y] \in S
    BY <2>1
  <2> QED BY <2>1, <2>2
<1> HIDE DEF f
<1>4. f \in Bijection(S, T)
  BY <1>1, <1>2, <1>3 DEF Bijection, Injection, Surjection, IsInjective
<1>5. ExistsBijection(S, T)
  BY <1>4 DEF ExistsBijection
<1> QED BY <1>5, FS_Bijection

\* The rows of a list.
LEMMA ListOfRows ==
    ASSUME ViewInv, NEW q \in Consultas, q.tabla # ENTIDADES
    PROVE  /\ q.tabla \in Tablas /\ matches(q) \subseteq estate[q.tabla]
           /\ \A f \in estate[q.tabla] : f.id \in Nat /\ DATE_FIELD(q.tabla, f) \in Int
<1>1. q.tabla \in Tablas /\ estate \in Estates
  BY ListsAreOfTables DEF ViewInv, AuditInv, Signalled
<1>2. matches(q) \subseteq estate[q.tabla]
  BY DEF matches
<1> QED BY <1>1, <1>2, IdsAreOrdered, DaysAreOrdered

\* The entities of a list.
LEMMA ListOfEntities ==
    ASSUME ViewInv, Abierto, NEW q, q.tabla = ENTIDADES
    PROVE  IsFiniteSet(matches(q)) /\ matches(q) \subseteq Prefijos \X Nat
<1>1. IsFiniteSet(entity_population) /\ entity_population \subseteq Prefijos \X Nat
  BY PopulationIsFinite DEF ViewInv, OpenAtTheEnd
<1>2. matches(q) \subseteq entity_population
  BY DEF matches
<1> QED BY <1>1, <1>2, FS_Subset

LEMMA ListIsFinite ==
    ASSUME ViewInv, Abierto, NEW q \in Consultas
    PROVE  IsFiniteSet(matches(q)) /\ Cardinality(matches(q)) \in Nat
<1>1. CASE q.tabla = ENTIDADES
  BY <1>1, ListOfEntities, FS_CardinalityType
<1>2. CASE q.tabla # ENTIDADES
  <2>1. matches(q) \subseteq estate[q.tabla] /\ q.tabla \in Tablas /\ estate \in Estates
    BY <1>2, ListOfRows DEF ViewInv, AuditInv, Signalled
  <2>2. IsFiniteSet(estate[q.tabla])
    BY <2>1, EstatesAreFinite
  <2> QED BY <2>1, <2>2, FS_Subset, FS_CardinalityType
<1> QED BY <1>1, <1>2

\* Nobody is before himself.
LEMMA NotBeforeItself ==
    ASSUME ViewInv, Abierto, NEW q \in Consultas, NEW lee, NEW f \in matches(q)
    PROVE  ~Delante(q, lee, f, f)
<1>1. CASE q.tabla = ENTIDADES
  <2>1. f \in Prefijos \X Nat
    BY <1>1, ListOfEntities
  <2>2. f[2] \in Nat /\ <<f[1], f[1]>> \notin {<<"CLABE", "EMP">>, <<"CLABE", "RFC">>, <<"EMP", "RFC">>}
    BY <2>1
  <2>3. _STATUS_ORDER(f) \in {0, 1, 2}
    BY DEF _STATUS_ORDER
  <2>4. ~(_STATUS_ORDER(f) < _STATUS_ORDER(f))
    BY <2>3
  <2>5. ~(f[2] < f[2])
    BY <2>2
  <2> QED BY <1>1, <2>2, <2>4, <2>5 DEF Delante, AntesEntidad
<1>2. CASE q.tabla # ENTIDADES
  <2>1. f.id \in Nat /\ DATE_FIELD(q.tabla, f) \in Int
    BY <1>2, ListOfRows
  <2> QED BY <1>2, <2>1 DEF Delante, PrecedeEn
<1> QED BY <1>1, <1>2

\* Every place is one of the list.
LEMMA PlacesAreInTheList ==
    ASSUME ViewInv, Abierto, NEW q \in Consultas, NEW lee, NEW f \in matches(q)
    PROVE  LugarEn(q, lee, f) \in Nat /\ LugarEn(q, lee, f) < Cardinality(matches(q))
<1> DEFINE M == matches(q)
           S == {g \in M : Delante(q, lee, g, f)}
<1>1. IsFiniteSet(M) /\ S \subseteq M /\ f \in M \ S
  BY ListIsFinite, NotBeforeItself
<1>2. LugarEn(q, lee, f) = Cardinality(S)
  BY DEF LugarEn
<1> HIDE DEF M, S
<1>3. IsFiniteSet(S) /\ Cardinality(S) \in Nat /\ Cardinality(S) < Cardinality(M)
  <2>1. IsFiniteSet(S) /\ S # M
    BY <1>1, FS_Subset
  <2> QED BY <1>1, <2>1, FS_Subset, FS_CardinalityType
<1> QED BY <1>2, <1>3 DEF M

\* A row is at the place that its index gives it.
LEMMA PlacesOfIndex ==
    ASSUME ViewInv, NEW orden \in Ordenes, indice = {orden}, NEW q \in Consultas,
           NEW f \in matches(q), NEW lee, lee = orden.primeras
    PROVE  lugar(q.tabla, f, matches(q)) = LugarEn(q, lee, f)
<1>1. CASE q.tabla = ENTIDADES
  BY <1>1 DEF lugar, LugarEn, Delante
<1>2. CASE q.tabla # ENTIDADES
  <2>1. q.tabla \in Tablas /\ matches(q) \subseteq estate[q.tabla]
    BY <1>2, ListOfRows
  <2>2. DOMAIN lee = Repetidas
    BY DEF Ordenes, Lecturas
  <2>3. ASSUME NEW g \in matches(q), g.id = f.id, f # g
        PROVE  g \in row(q.tabla, g.id) <=> g = lee[<<q.tabla, g.id>>]
    <3>1. Repetida(q.tabla, g.id)
      BY <2>1, <2>3 DEF Repetida
    <3>2. <<q.tabla, g.id>> \in DOMAIN lee
      BY <2>1, <2>2, <3>1 DEF Repetidas
    <3>3. g \in estate[q.tabla]
      BY <2>1
    <3> QED BY <3>2, <3>3 DEF row
  <2>4. \A g \in matches(q) : Precede(q.tabla, g, f) <=> PrecedeEn(q.tabla, lee, g, f)
    BY <2>3 DEF Precede, PrecedeEn
  <2> QED BY <1>2, <2>4 DEF lugar, LugarEn, Delante
<1> QED BY <1>1, <1>2
\* Two rows of one id and day that two indexes read in a different order
\* change places.
Permuta(q, lee, otra) ==
    LET Gemela(f, g) ==
            /\ f # g /\ f.id = g.id /\ DATE_FIELD(q.tabla, f) = DATE_FIELD(q.tabla, g)
            /\ lee[<<q.tabla, f.id>>] # otra[<<q.tabla, f.id>>]
    IN  [f \in matches(q) |-> IF \E g \in matches(q) : Gemela(f, g)
                              THEN CHOOSE g \in matches(q) : Gemela(f, g) ELSE f]

LEMMA TwinsChangePlaces ==
    ASSUME ViewInv, estate \in Hojeables, NEW lee \in Lecturas, NEW otra \in Lecturas,
           NEW q \in Consultas, q.tabla # ENTIDADES
    PROVE  LET pi == Permuta(q, lee, otra)
           IN  /\ pi \in [matches(q) -> matches(q)]
               /\ \A f \in matches(q) : pi[pi[f]] = f /\ pi[f].id = f.id
               /\ \A f, g \in matches(q) :
                     Delante(q, lee, g, f) <=> Delante(q, otra, pi[g], pi[f])
<1> DEFINE M == matches(q)
           t == q.tabla
           Gemela(f, g) == /\ f # g /\ f.id = g.id /\ DATE_FIELD(t, f) = DATE_FIELD(t, g)
                           /\ lee[<<t, f.id>>] # otra[<<t, f.id>>]
           pi == Permuta(q, lee, otra)
<1>1. /\ t \in Tablas /\ M \subseteq estate[t]
      /\ \A f \in M : f.id \in Nat /\ DATE_FIELD(t, f) \in Int
  BY ListOfRows
<1>2. \A f, g, h \in estate[t] : f.id = g.id /\ g.id = h.id => f = g \/ g = h \/ f = h
  BY <1>1, IdsOfTwoRows
<1>3. \A f \in M : pi[f] = IF \E g \in M : Gemela(f, g) THEN CHOOSE g \in M : Gemela(f, g) ELSE f
  BY DEF Permuta
<1>4. \A f, g \in M : Gemela(f, g) => Gemela(g, f)
  OBVIOUS
<1>5. \A f, g, h \in M : Gemela(f, g) /\ Gemela(f, h) => g = h
  BY <1>1, <1>2
<1>6. \A f, g \in M : Gemela(f, g) => pi[f] = g
  <2> HIDE DEF M, pi, Gemela
  <2> QED BY <1>3, <1>5
<1>7. \A f \in M : (\E g \in M : Gemela(f, g)) \/ pi[f] = f
  <2> HIDE DEF M, pi, Gemela
  <2> QED BY <1>3
<1>8. pi \in [M -> M]
  <2>1. \A f \in M : pi[f] \in M
    <3> HIDE DEF M, pi, Gemela
    <3> QED BY <1>6, <1>7
  <2>2. pi = [f \in M |-> pi[f]]
    BY DEF Permuta
  <2> HIDE DEF M, pi
  <2> QED BY <2>1, <2>2
<1>9. \A f \in M : pi[pi[f]] = f
  <2> HIDE DEF M, pi, Gemela
  <2> QED BY <1>4, <1>6, <1>7
<1>10. \A f \in M : pi[f].id = f.id /\ DATE_FIELD(t, pi[f]) = DATE_FIELD(t, f)
  <2> HIDE DEF M, pi
  <2> QED BY <1>6, <1>7
<1>11. ASSUME NEW f \in M, NEW g \in M
       PROVE  PrecedeEn(t, lee, g, f) <=> PrecedeEn(t, otra, pi[g], pi[f])
  <2>1. pi[f].id = f.id /\ pi[g].id = g.id /\ DATE_FIELD(t, pi[f]) = DATE_FIELD(t, f)
        /\ DATE_FIELD(t, pi[g]) = DATE_FIELD(t, g)
    BY <1>10
  <2>2. CASE f = g
    BY <2>1, <2>2, <1>1 DEF PrecedeEn
  <2>3. CASE f # g /\ f.id = g.id /\ DATE_FIELD(t, f) = DATE_FIELD(t, g)
    <3> DEFINE c == <<t, f.id>>
    <3>1. Repetida(t, f.id) /\ f \in estate[t] /\ g \in estate[t]
      BY <1>1, <2>3 DEF Repetida
    <3>2. c \in Repetidas
      BY <1>1, <3>1 DEF Repetidas
    <3>3. lee[c] \in estate[c[1]] /\ lee[c].id = c[2] /\ otra[c] \in estate[c[1]] /\ otra[c].id = c[2]
      BY <3>2 DEF Lecturas
    <3>4. c[1] = t /\ c[2] = f.id
      OBVIOUS
    <3> HIDE DEF c
    <3>5. lee[c] \in {f, g} /\ otra[c] \in {f, g}
      <4>1. \A h \in estate[t] : h.id = f.id => h \in {f, g}
        BY <1>2, <2>3, <3>1
      <4> QED BY <3>3, <3>4, <4>1
    <3>6. ~(DATE_FIELD(t, f) < DATE_FIELD(t, f)) /\ ~(f.id < f.id)
      BY <1>1
    <3>7. PrecedeEn(t, lee, g, f) <=> g = lee[c]
      BY <2>3, <3>6 DEF PrecedeEn, c
    <3>8. CASE lee[c] = otra[c]
      <4>1. \A x \in M : ~Gemela(f, x) /\ ~Gemela(g, x)
        BY <2>3, <3>8 DEF c
      <4>2. pi[f] = f /\ pi[g] = g
        <5> HIDE DEF M, pi, Gemela
        <5> QED BY <1>7, <4>1
      <4>3. PrecedeEn(t, otra, g, f) <=> g = otra[c]
        BY <2>3, <3>6 DEF PrecedeEn, c
      <4> QED BY <3>7, <3>8, <4>2, <4>3
    <3>9. CASE lee[c] # otra[c]
      <4>1. Gemela(f, g)
        BY <2>3, <3>9 DEF c
      <4>2. pi[f] = g /\ pi[g] = f
        <5> HIDE DEF M, pi, Gemela
        <5> QED BY <1>4, <1>6, <4>1
      <4>3. PrecedeEn(t, otra, f, g) <=> f = otra[c]
        BY <2>3, <3>6 DEF PrecedeEn, c
      <4> QED BY <2>3, <3>5, <3>7, <3>9, <4>2, <4>3
    <3> QED BY <3>8, <3>9
  <2>4. CASE ~(f.id = g.id /\ DATE_FIELD(t, f) = DATE_FIELD(t, g))
    BY <2>1, <2>4 DEF PrecedeEn
  <2> QED BY <2>2, <2>3, <2>4
<1>12. \A f, g \in M : Delante(q, lee, g, f) <=> Delante(q, otra, pi[g], pi[f])
  BY <1>11 DEF Delante
<1> QED BY <1>8, <1>9, <1>10, <1>12

\* Whatever row an index reads first, as many of the list are before a place,
\* and of the same ids.
LEMMA AnyIndexWillDo ==
    ASSUME ViewInv, Abierto, estate \in Hojeables, NEW lee \in Lecturas, NEW otra \in Lecturas,
           NEW q \in Consultas, NEW k
    PROVE  /\ Cardinality(Hasta(q, otra, k)) = Cardinality(Hasta(q, lee, k))
           /\ Claves(q, Hasta(q, otra, k)) = Claves(q, Hasta(q, lee, k))
<1>1. CASE q.tabla = ENTIDADES
  <2>1. \A f \in matches(q) : LugarEn(q, lee, f) = LugarEn(q, otra, f)
    BY <1>1 DEF LugarEn, Delante
  <2>2. Hasta(q, otra, k) = Hasta(q, lee, k)
    BY <2>1 DEF Hasta
  <2> QED BY <2>2
<1>2. CASE q.tabla # ENTIDADES
  <2> DEFINE M == matches(q)
             pi == Permuta(q, lee, otra)
  <2>1. /\ pi \in [M -> M] /\ \A f \in M : pi[pi[f]] = f /\ pi[f].id = f.id
        /\ \A f, g \in M : Delante(q, lee, g, f) <=> Delante(q, otra, pi[g], pi[f])
    BY <1>2, TwinsChangePlaces
  <2>2. IsFiniteSet(M)
    BY ListIsFinite
  <2>3. ASSUME NEW f \in M
        PROVE  LugarEn(q, otra, pi[f]) = LugarEn(q, lee, f)
    <3> DEFINE S == {g \in M : Delante(q, lee, g, f)}
               T == {g \in M : Delante(q, otra, g, pi[f])}
    <3>1. S \subseteq M /\ T \subseteq M
      OBVIOUS
    <3>2. \A x \in M : x \in S <=> pi[x] \in T
      <4> HIDE DEF pi, M
      <4> QED BY <2>1
    <3>3. LugarEn(q, otra, pi[f]) = Cardinality(T) /\ LugarEn(q, lee, f) = Cardinality(S)
      BY DEF LugarEn
    <3> HIDE DEF S, T, M, pi
    <3>4. Cardinality(T) = Cardinality(S)
      BY <2>1, <2>2, <3>1, <3>2, FS_Subset, SwapKeepsCount
    <3> QED BY <3>3, <3>4
  <2> DEFINE S == Hasta(q, lee, k)
             T == Hasta(q, otra, k)
  <2>4. S \subseteq M /\ T \subseteq M
    BY DEF Hasta
  <2>5. \A x \in M : x \in S <=> pi[x] \in T
    <3> TAKE x \in M
    <3>1. pi[x] \in M
      <4> HIDE DEF pi, M
      <4> QED BY <2>1
    <3> HIDE DEF pi
    <3> QED BY <2>3, <3>1 DEF Hasta
  <2>6. \A f \in M : Clave(q, f) = f.id
    BY <1>2 DEF Clave
  <2> HIDE DEF S, T, M, pi
  <2>7. Cardinality(T) = Cardinality(S)
    BY <2>1, <2>2, <2>4, <2>5, FS_Subset, SwapKeepsCount
  <2>8. Claves(q, T) = Claves(q, S)
    <3>1. \A x \in S : pi[x] \in T /\ Clave(q, pi[x]) = Clave(q, x)
      BY <2>1, <2>4, <2>5, <2>6
    <3>2. \A y \in T : pi[y] \in S /\ Clave(q, pi[y]) = Clave(q, y)
      <4> TAKE y \in T
      <4>1. y \in M /\ pi[y] \in M /\ pi[pi[y]] = y /\ pi[y].id = y.id
        BY <2>1, <2>4
      <4> QED BY <2>5, <2>6, <4>1
    <3> QED BY <3>1, <3>2 DEF Claves
  <2> QED BY <2>7, <2>8 DEF S, T
<1> QED BY <1>1, <1>2

\* The holders of accounts are the same in every index, if no RFC has two.
LEMMA SameHolders ==
    ASSUME UNCHANGED <<estate, empresa>>, \A v, w \in estate.vendors : v.id = w.id => v.clabe = w.clabe,
           NEW orden \in Ordenes, indice = {orden}, NEW otra \in Ordenes, indice' = {otra}, NEW c
    PROVE  clabe_owner(c)' = clabe_owner(c)
<1> DEFINE V == {v \in estate.vendors : v.clabe = c}
           Ultima(o, v) == /\ v \in estate.vendors /\ v.id # Nadie
                           /\ <<"vendors", v.id>> \in DOMAIN o.ultimas =>
                                 v = o.ultimas[<<"vendors", v.id>>]
           U(o) == {v.id : v \in {v \in V : Ultima(o, v)}}
<1>1. ASSUME NEW o \in Ordenes
      PROVE  U(o) = {v.id : v \in V} \ {Nadie}
  <2>1. DOMAIN o.ultimas = Repetidas
        /\ \A x \in Repetidas : o.ultimas[x] \in estate[x[1]] /\ o.ultimas[x].id = x[2]
    BY DEF Ordenes, Lecturas
  <2>2. ASSUME NEW v \in V, v.id # Nadie
        PROVE  v.id \in U(o)
    <3>1. CASE <<"vendors", v.id>> \in Repetidas
      <4>1. PICK w : w = o.ultimas[<<"vendors", v.id>>]
        OBVIOUS
      <4>2. w \in estate.vendors /\ w.id = v.id
        BY <2>1, <3>1, <4>1
      <4>3. w \in V
        BY <4>2
      <4> QED BY <2>2, <4>1, <4>2, <4>3
    <3>2. CASE <<"vendors", v.id>> \notin Repetidas
      BY <2>1, <2>2, <3>2
    <3> QED BY <3>1, <3>2
  <2>3. \A x \in U(o) : x # Nadie /\ \E v \in V : x = v.id
    OBVIOUS
  <2> HIDE DEF V, U
  <2> QED BY <2>2, <2>3
<1>2. \A v : v \in ultima("vendors", v.id) <=> Ultima(orden, v)
  BY DEF ultima
<1>3. \A v : v \in ultima("vendors", v.id)' <=> Ultima(otra, v)
  BY DEF ultima
<1>4. vendors_por_clabe(c) = V /\ vendors_por_clabe(c)' = V
  BY DEF vendors_por_clabe
<1>5. Titulares(c) = U(orden)
  <2> HIDE DEF V, Ultima
  <2> QED BY <1>2, <1>4 DEF Titulares
<1>6. Titulares(c)' = U(otra)
  <2> HIDE DEF V, Ultima
  <2> QED BY <1>3, <1>4 DEF Titulares
<1> HIDE DEF U
<1>7. Titulares(c)' = Titulares(c)
  BY <1>1, <1>5, <1>6
<1>8. DeNomina(c)' = DeNomina(c)
  BY DEF DeNomina, employees_por_clabe
<1>9. /\ dueno(c) = IF c # Nadie /\ Titulares(c) # {} THEN <<"RFC", Min(Titulares(c))>>
                    ELSE IF c # Nadie /\ DeNomina(c) # {} THEN <<"EMP", Min(DeNomina(c))>>
                    ELSE <<"CLABE", c>>
      /\ dueno(c)' = IF c # Nadie /\ Titulares(c)' # {} THEN <<"RFC", Min(Titulares(c)')>>
                     ELSE IF c # Nadie /\ DeNomina(c)' # {} THEN <<"EMP", Min(DeNomina(c)')>>
                     ELSE <<"CLABE", c>>
  BY DEF dueno, Titulares, DeNomina
<1>10. dueno(c)' = dueno(c)
  BY <1>7, <1>8, <1>9
<1>11. company_id' = company_id /\ company_clabes' = company_clabes
  BY DEF company_id, company_clabes
<1> QED BY <1>10, <1>11 DEF clabe_owner

\* What is listed, and in which order, stays the same while the audit does.
LEMMA SameLists ==
    ASSUME UNCHANGED auditVars, NEW orden \in Ordenes, indice = {orden},
           NEW otra \in Ordenes, indice' = {otra}, NEW q, ~Ambigua(q)
    PROVE  /\ matches(q)' = matches(q)
           /\ \A lee, f : LugarEn(q, lee, f)' = LugarEn(q, lee, f)
<1>1. UNCHANGED <<estate, empresa, publicados, pistas>>
  BY DEF auditVars
<1>2. \A s : de_senal(s)' = de_senal(s)
  BY <1>1, SameEntities
<1>3. \A cl : entidades(cl)' = entidades(cl) /\ acusables(cl)' = acusables(cl)
  BY <1>2 DEF entidades, acusables
<1>4. \A cl : principal(cl)' = principal(cl)
  BY <1>3 DEF principal
<1>5. flagged' = flagged
  BY <1>1, <1>4 DEF flagged
<1>6. \A id : entity_status(id)' = entity_status(id)
  BY <1>1, <1>4 DEF entity_status
<1>7. company_id' = company_id /\ company_clabes' = company_clabes /\ catalogo' = catalogo
  BY <1>1 DEF company_id, company_clabes, catalogo
<1>8. entity_population' = entity_population
  BY <1>5, <1>7 DEF entity_population
<1>9. q.tabla = "bank_txns" /\ q.risk # Todas => \A c : clabe_owner(c)' = clabe_owner(c)
  <2> SUFFICES ASSUME q.tabla = "bank_txns", q.risk # Todas, NEW c
               PROVE  clabe_owner(c)' = clabe_owner(c)
    OBVIOUS
  <2>1. \A v, w \in estate.vendors : v.id = w.id => v.clabe = w.clabe
    BY DEF Ambigua
  <2> QED BY <1>1, <2>1, SameHolders
<1>10. q.risk # Todas => \A f : row_entity(q.tabla, f)' = row_entity(q.tabla, f)
  BY <1>1, <1>7, <1>9 DEF row_entity
<1>11. \A t, id : cited_in(t, id)' = cited_in(t, id)
  BY <1>1 DEF cited_in
<1>12. \A f : Coincide(q, f)' <=> Coincide(q, f)
  BY <1>5, <1>6, <1>7, <1>10, <1>11 DEF Coincide
<1>13. matches(q)' = matches(q)
  BY <1>1, <1>6, <1>8, <1>12 DEF matches
<1>14. \A id : _STATUS_ORDER(id)' = _STATUS_ORDER(id)
  BY <1>6 DEF _STATUS_ORDER
<1>15. \A id, ida : AntesEntidad(id, ida)' <=> AntesEntidad(id, ida)
  BY <1>14 DEF AntesEntidad
<1>16. \A lee, f, g : Delante(q, lee, f, g)' <=> Delante(q, lee, f, g)
  BY <1>15 DEF Delante
<1>17. \A lee, f : LugarEn(q, lee, f)' = LugarEn(q, lee, f)
  BY <1>13, <1>16 DEF LugarEn
<1> QED BY <1>13, <1>17

LEMMA SizeOfPage ==
    ASSUME NEW limit \in Limites
    PROVE  _size(limit) \in Nat /\ _size(limit) > 0
<1> DEFINE S == {IF limit = 0 THEN DEFAULT_PAGE_SIZE ELSE limit, MAX_PAGE_SIZE}
<1>1. S \in SUBSET Nat /\ S # {} /\ 0 \notin S
  BY PagesHaveASize
<1>2. PICK n \in S : \A m \in S : n <= m
  <2> HIDE DEF S
  <2> QED BY <1>1, LeastNumber
<1>3. _size(limit) \in S
  BY <1>2 DEF _size, Min
<1> QED BY <1>1, <1>3

\* The walk has come to the place k: whatever row the index reads first of an
\* id, as many were shown as are before that place, and of the same ids.
Recorrida(p, k) ==
    /\ k \in Nat
    /\ p.cursor = {k} \/ (p.cursor = {} /\ k >= Cardinality(matches(p.q)))
    /\ \A lee \in Lecturas :
          /\ p.cuantos = Cardinality(Hasta(p.q, lee, k))
          /\ Claves(p.q, p.vistos) = Claves(p.q, Hasta(p.q, lee, k))

\* No record was shown but those of rows that match.
Mostrados(p) ==
    \A f \in p.vistos : f \in matches(p.q) \/ Repetida(p.q.tabla, Clave(p.q, f))

OneIndex == Abierto => \E orden \in Ordenes : indice = {orden}
PageInv ==
    /\ OneIndex
    /\ \A p \in pagina :
          /\ Abierto /\ estate \in Hojeables /\ p.q \in Consultas /\ p.limit \in Limites
          /\ Ambigua(p.q) \/ (Mostrados(p) /\ \E k \in Nat : Recorrida(p, k))

\* What the walk has come to does not depend on the index.
LEMMA WalksStay ==
    ASSUME UNCHANGED auditVars, NEW orden \in Ordenes, indice = {orden},
           NEW otra \in Ordenes, indice' = {otra}, NEW p
    PROVE  /\ Ambigua(p.q)' <=> Ambigua(p.q)
           /\ ~Ambigua(p.q) => /\ Mostrados(p)' <=> Mostrados(p)
                               /\ \A k : Recorrida(p, k)' <=> Recorrida(p, k)
<1>1. Ambigua(p.q)' <=> Ambigua(p.q)
  BY DEF Ambigua, auditVars
<1> SUFFICES ASSUME ~Ambigua(p.q)
             PROVE  /\ Mostrados(p)' <=> Mostrados(p)
                    /\ \A k : Recorrida(p, k)' <=> Recorrida(p, k)
  BY <1>1
<1>2. /\ matches(p.q)' = matches(p.q)
      /\ \A lee, f : LugarEn(p.q, lee, f)' = LugarEn(p.q, lee, f)
  BY SameLists
<1>3. Lecturas' = Lecturas /\ \A t, id : Repetida(t, id)' <=> Repetida(t, id)
  BY SameReadings DEF auditVars
<1>4. \A lee, k : Hasta(p.q, lee, k)' = Hasta(p.q, lee, k)
  BY <1>2 DEF Hasta
<1>5. Mostrados(p)' <=> Mostrados(p)
  BY <1>2, <1>3 DEF Mostrados, Clave
<1>6. \A k : Recorrida(p, k)' <=> Recorrida(p, k)
  BY <1>2, <1>3, <1>4 DEF Recorrida, Claves, Clave
<1> QED BY <1>5, <1>6

\* The index that is built again is one.
LEMMA IndexStays ==
    ASSUME OneIndex, UNCHANGED estate, UNCHANGED indice
    PROVE  OneIndex'
<1>1. Ordenes' = Ordenes
  BY SameReadings
<1> QED BY <1>1 DEF OneIndex, Abierto

LEMMA WalkBegins ==
    ASSUME ViewInv, PageInv, NEW q \in Consultas, NEW limit \in Limites, get_records(q, limit)
    PROVE  PageInv'
<1>1. /\ UNCHANGED auditVars /\ UNCHANGED indice /\ UNCHANGED estate
      /\ Abierto /\ Abierto' /\ estate \in Hojeables
      /\ pagina' = {Pagina(q, limit, {0}, {}, 0)}
  BY DEF get_records, auditVars, Abierto
<1>2. OneIndex'
  BY <1>1, IndexStays DEF PageInv
<1> DEFINE p == Pagina(q, limit, {0}, {}, 0)
<1>3. /\ p.q = q /\ p.limit = limit /\ p.cursor = {0} /\ p.vistos = {} /\ p.cuantos = 0
  BY DEF Pagina
<1> HIDE DEF p
<1>8. estate' \in Hojeables /\ pagina' = {p}
  BY <1>1 DEF p
<1>9. CASE Ambigua(q)
  <2>1. Ambigua(p.q)'
    BY <1>1, <1>3, <1>9 DEF Ambigua
  <2> QED BY <1>1, <1>2, <1>3, <1>8, <2>1 DEF PageInv
<1>10. PICK orden \in Ordenes : indice = {orden}
  BY <1>1 DEF PageInv, OneIndex
<1>4. Mostrados(p)'
  BY <1>3 DEF Mostrados
<1>5. ASSUME NEW lee
      PROVE  Hasta(q, lee, 0) = {}
  <2> SUFFICES ASSUME NEW f \in matches(q), LugarEn(q, lee, f) < 0
               PROVE  FALSE
    BY DEF Hasta
  <2>1. LugarEn(q, lee, f) \in Nat
    BY <1>1, PlacesAreInTheList
  <2> QED BY <2>1
<1>11. CASE ~Ambigua(q)
  <2>1. \A lee : Hasta(q, lee, 0)' = {}
    <3>1. \A lee : Hasta(q, lee, 0)' = Hasta(q, lee, 0)
      BY <1>1, <1>10, <1>11, SameLists DEF Hasta
    <3> QED BY <1>5, <3>1
  <2>2. Recorrida(p, 0)'
    <3>1. Cardinality({}) = 0
      BY FS_EmptySet
    <3>2. \A lee : p.cuantos = Cardinality(Hasta(p.q, lee, 0)')
      BY <1>3, <2>1, <3>1
    <3>3. \A lee : Claves(p.q, p.vistos) = Claves(p.q, Hasta(p.q, lee, 0)')
      BY <1>3, <2>1
    <3> QED BY <1>3, <3>2, <3>3 DEF Recorrida, Claves, Clave
  <2> QED BY <1>1, <1>2, <1>3, <1>4, <1>8, <2>2 DEF PageInv
<1> QED BY <1>9, <1>11

\* A page shows what comes next in the list.
LEMMA PageTurned ==
    ASSUME ViewInv, PageInv, NEW p \in pagina, NEW k \in p.cursor, records_page(p, k)
    PROVE  PageInv'
<1> DEFINE M == matches(p.q)
           n == _size(p.limit)
           items == {f \in M : lugar(p.q.tabla, f, M) \in k..(k + n - 1)}
           records == IF p.q.tabla = ENTIDADES THEN items
                                              ELSE UNION {row(p.q.tabla, f.id) : f \in items}
           cursor == _next_cursor(p.limit, k, Cardinality(M))
           nueva == Pagina(p.q, p.limit, cursor, p.vistos \cup records, p.cuantos + Cardinality(items))
<1>20. /\ Abierto /\ estate \in Hojeables /\ p.q \in Consultas /\ p.limit \in Limites
       /\ Ambigua(p.q) \/ (Mostrados(p) /\ Recorrida(p, k))
  BY DEF PageInv, Recorrida
<1>0. PICK s : s = nueva
  OBVIOUS
<1>2. pagina' = {s} /\ UNCHANGED auditVars /\ UNCHANGED indice /\ UNCHANGED estate
  BY <1>0 DEF records_page, auditVars
<1>3. Abierto' /\ estate' \in Hojeables /\ OneIndex'
  BY <1>20, <1>2, IndexStays DEF PageInv, Abierto
<1>5. /\ s.q = p.q /\ s.limit = p.limit /\ s.cursor = cursor
      /\ s.vistos = p.vistos \cup records /\ s.cuantos = p.cuantos + Cardinality(items)
  BY <1>0 DEF Pagina
<1> HIDE DEF nueva
<1>21. CASE Ambigua(p.q)
  <2>1. Ambigua(s.q)'
    BY <1>2, <1>5, <1>21 DEF Ambigua
  <2> QED BY <1>2, <1>3, <1>5, <1>20, <2>1 DEF PageInv
<1> SUFFICES ASSUME ~Ambigua(p.q)
             PROVE  PageInv'
  BY <1>21
<1>1. /\ Abierto /\ estate \in Hojeables /\ p.q \in Consultas /\ p.limit \in Limites
      /\ Mostrados(p) /\ Recorrida(p, k)
  BY <1>20
<1>22. PICK orden \in Ordenes : indice = {orden}
  BY <1>1 DEF PageInv, OneIndex
<1>4. PICK lee \in Lecturas : lee = orden.primeras
  BY DEF Ordenes
<1>6. k \in Nat /\ n \in Nat /\ n > 0 /\ k + n \in Nat
  BY <1>1, SizeOfPage DEF Recorrida
<1>7. IsFiniteSet(M) /\ Cardinality(M) \in Nat
  BY <1>1, ListIsFinite
<1>8. \A otra, f : f \in M => LugarEn(p.q, otra, f) \in Nat /\ LugarEn(p.q, otra, f) < Cardinality(M)
  BY <1>1, PlacesAreInTheList
<1>9. \A f \in M : lugar(p.q.tabla, f, M) = LugarEn(p.q, lee, f)
  BY <1>1, <1>4, <1>22, PlacesOfIndex
<1>10. items = {f \in M : LugarEn(p.q, lee, f) \in k..(k + n - 1)}
  BY <1>9
<1>11. /\ Hasta(p.q, lee, k + n) = Hasta(p.q, lee, k) \cup items
       /\ Hasta(p.q, lee, k) \cap items = {}
  <2> DEFINE place(f) == LugarEn(p.q, lee, f)
  <2>1. \A f \in M : place(f) \in Nat
    BY <1>8
  <2>2. \A j : Hasta(p.q, lee, j) = {f \in M : place(f) < j}
    BY DEF Hasta
  <2>3. items = {f \in M : place(f) \in k..(k + n - 1)}
    BY <1>10
  <2> HIDE DEF place, items, M, n
  <2>4. \A f \in M : place(f) < k + n <=> place(f) < k \/ place(f) \in k..(k + n - 1)
    BY <1>6, <2>1
  <2>5. \A f \in M : ~(place(f) < k /\ place(f) \in k..(k + n - 1))
    BY <1>6, <2>1
  <2> QED BY <2>2, <2>3, <2>4, <2>5
<1>12. s.cuantos = Cardinality(Hasta(p.q, lee, k + n))
  <2>1. Hasta(p.q, lee, k) \subseteq M /\ items \subseteq M
    BY DEF Hasta
  <2> HIDE DEF items, M, n
  <2>2. IsFiniteSet(Hasta(p.q, lee, k)) /\ IsFiniteSet(items)
    BY <1>7, <2>1, FS_Subset
  <2>3. Cardinality(Hasta(p.q, lee, k) \cup items)
           = Cardinality(Hasta(p.q, lee, k)) + Cardinality(items) - Cardinality({})
    BY <1>11, <2>2, FS_Union
  <2>4. Cardinality({}) = 0 /\ Cardinality(Hasta(p.q, lee, k)) \in Nat /\ Cardinality(items) \in Nat
    BY <2>2, FS_EmptySet, FS_CardinalityType
  <2>5. p.cuantos = Cardinality(Hasta(p.q, lee, k))
    BY <1>1, <1>4 DEF Recorrida
  <2>6. s.cuantos = Cardinality(Hasta(p.q, lee, k)) + Cardinality(items)
    BY <1>5, <2>5
  <2>7. Cardinality(Hasta(p.q, lee, k + n)) = Cardinality(Hasta(p.q, lee, k)) + Cardinality(items)
    <3>1. Cardinality(Hasta(p.q, lee, k) \cup items)
             = Cardinality(Hasta(p.q, lee, k)) + Cardinality(items)
      BY <2>3, <2>4
    <3>2. Hasta(p.q, lee, k + n) = Hasta(p.q, lee, k) \cup items
      BY <1>11
    <3> QED BY <3>1, <3>2, Zenon
  <2> QED BY <2>6, <2>7
<1>13. Claves(p.q, records) = Claves(p.q, items)
  <2>1. CASE p.q.tabla = ENTIDADES
    BY <2>1
  <2>2. CASE p.q.tabla # ENTIDADES
    <3>1. \A f \in items : row(p.q.tabla, f.id) # {} /\ \A g \in row(p.q.tabla, f.id) : g.id = f.id
      <4> TAKE f \in items
      <4>1. f \in estate[p.q.tabla] /\ p.q.tabla \in Tablas
        BY <1>1, <2>2, ListOfRows
      <4>2. CASE Repetida(p.q.tabla, f.id)
        <5> DEFINE c == <<p.q.tabla, f.id>>
        <5>1. c \in Repetidas
          BY <4>1, <4>2 DEF Repetidas
        <5>2. lee[c] \in estate[c[1]] /\ lee[c].id = c[2]
          BY <5>1 DEF Lecturas
        <5> QED BY <1>4, <1>22, <5>2 DEF row
      <4>3. CASE ~Repetida(p.q.tabla, f.id)
        <5>1. row(p.q.tabla, f.id) = {f}
          BY <4>1, <4>3, RowOfId DEF ViewInv
        <5> QED BY <5>1
      <4> QED BY <4>2, <4>3
    <3>2. \A f : Clave(p.q, f) = f.id
      BY <2>2 DEF Clave
    <3>3. records = UNION {row(p.q.tabla, f.id) : f \in items}
      BY <2>2
    <3> HIDE DEF records, items
    <3>4. \A g \in records : \E f \in items : g.id = f.id
      BY <3>1, <3>3
    <3>5. \A f \in items : \E g \in records : g.id = f.id
      BY <3>1, <3>3
    <3> QED BY <3>2, <3>4, <3>5 DEF Claves
  <2> QED BY <2>1, <2>2
<1>14. Claves(p.q, s.vistos) = Claves(p.q, Hasta(p.q, lee, k + n))
  <2>1. Claves(p.q, p.vistos) = Claves(p.q, Hasta(p.q, lee, k))
    BY <1>1, <1>4 DEF Recorrida
  <2>2. \A S, T : Claves(p.q, S \cup T) = Claves(p.q, S) \cup Claves(p.q, T)
    BY DEF Claves
  <2> HIDE DEF records, items, M, n
  <2>3. Claves(p.q, s.vistos) = Claves(p.q, p.vistos) \cup Claves(p.q, records)
    BY <1>5, <2>2
  <2>4. Claves(p.q, Hasta(p.q, lee, k + n)) = Claves(p.q, Hasta(p.q, lee, k)) \cup Claves(p.q, items)
    BY <1>11, <2>2
  <2> QED BY <1>13, <2>1, <2>3, <2>4
<1>15. Mostrados(s)
  <2> SUFFICES ASSUME NEW f \in records
               PROVE  f \in M \/ Repetida(p.q.tabla, Clave(p.q, f))
    <3> HIDE DEF records, M
    <3> QED BY <1>1, <1>5 DEF Mostrados, M
  <2>1. CASE p.q.tabla = ENTIDADES
    BY <2>1
  <2>2. CASE p.q.tabla # ENTIDADES
    <3>1. PICK g \in items : f \in row(p.q.tabla, g.id)
      BY <2>2
    <3>2. g \in estate[p.q.tabla] /\ p.q.tabla \in Tablas /\ f.id = g.id
      BY <1>1, <2>2, <3>1, ListOfRows DEF row
    <3>3. CASE ~Repetida(p.q.tabla, g.id)
      <4>1. row(p.q.tabla, g.id) = {g}
        BY <3>2, <3>3, RowOfId DEF ViewInv
      <4> QED BY <3>1, <4>1
    <3> QED BY <2>2, <3>2, <3>3 DEF Clave
  <2> QED BY <2>1, <2>2
<1>16. cursor = {k + n} \/ (cursor = {} /\ k + n >= Cardinality(M))
  <2> HIDE DEF M
  <2> QED BY <1>6, <1>7 DEF _next_cursor
<1>17. Recorrida(s, k + n)
  <2>1. ASSUME NEW otra \in Lecturas
        PROVE  /\ Cardinality(Hasta(p.q, otra, k + n)) = Cardinality(Hasta(p.q, lee, k + n))
               /\ Claves(p.q, Hasta(p.q, otra, k + n)) = Claves(p.q, Hasta(p.q, lee, k + n))
    BY <1>1, AnyIndexWillDo
  <2>2. k + n >= Cardinality(matches(s.q)) <=> k + n >= Cardinality(M)
    BY <1>5
  <2> HIDE DEF records, items, M, n, cursor
  <2> QED BY <1>5, <1>6, <1>12, <1>14, <1>16, <2>1, <2>2 DEF Recorrida
<1> HIDE DEF records, items, cursor, M, n
<1>18. PICK j \in Nat : Recorrida(s, j)
  BY <1>6, <1>17
<1>19. Mostrados(s)' /\ Recorrida(s, j)'
  BY <1>2, <1>5, <1>15, <1>18, <1>22, WalksStay
<1> QED BY <1>1, <1>2, <1>3, <1>5, <1>18, <1>19 DEF PageInv

\* The walk, page by page, whatever is asked for and built in between (records
\* of casefile/views.py and its callers).
THEOREM PageInvariant == ViewSpec => []PageInv
<1>1. ViewInit => PageInv
  BY DEF ViewInit, PageInv, OneIndex, Abierto
<1>2. ViewInv /\ PageInv /\ [ViewNext]_viewVars => PageInv'
  <2> SUFFICES ASSUME ViewInv, PageInv, [ViewNext]_viewVars
               PROVE  PageInv'
    OBVIOUS
  <2>1. CASE AuditNext /\ UNCHANGED <<indice, pagina>>
    <3>1. ~Abierto
      BY <2>1, DoneIsDone DEF ViewInv, OpenAtTheEnd
    <3>2. ~Abierto' /\ pagina' = {}
      BY <2>1, <3>1 DEF PageInv, Abierto
    <3> QED BY <3>2 DEF PageInv, OneIndex
  <2>2. CASE build_index /\ UNCHANGED pagina
    <3>1. UNCHANGED auditVars /\ UNCHANGED estate /\ \E otra \in Ordenes : indice' = {otra}
      BY <2>2 DEF build_index, auditVars
    <3>2. Ordenes' = Ordenes
      BY <3>1, SameReadings
    <3>3. OneIndex' /\ Abierto'
      BY <3>1, <3>2 DEF OneIndex, Abierto
    <3>4. ASSUME NEW p \in pagina
          PROVE  Ambigua(p.q)' \/ (Mostrados(p)' /\ \E k \in Nat : Recorrida(p, k)')
      <4>1. /\ \E orden \in Ordenes : indice = {orden}
            /\ Ambigua(p.q) \/ (Mostrados(p) /\ \E k \in Nat : Recorrida(p, k))
        BY DEF PageInv, OneIndex
      <4> QED BY <3>1, <4>1, WalksStay
    <3> QED BY <2>2, <3>1, <3>3, <3>4 DEF PageInv
  <2>3. ASSUME NEW q \in Consultas, NEW limit \in Limites, get_records(q, limit)
        PROVE  PageInv'
    BY <2>3, WalkBegins
  <2>4. ASSUME NEW p \in pagina, NEW k \in p.cursor, records_page(p, k)
        PROVE  PageInv'
    BY <2>4, PageTurned
  <2>5. CASE UNCHANGED viewVars
    <3>1. UNCHANGED auditVars /\ UNCHANGED estate /\ UNCHANGED indice /\ UNCHANGED pagina
      BY <2>5 DEF viewVars, auditVars
    <3>2. OneIndex' /\ (Abierto' <=> Abierto)
      BY <3>1, IndexStays DEF PageInv, Abierto
    <3>3. ASSUME NEW p \in pagina
          PROVE  Ambigua(p.q)' \/ (Mostrados(p)' /\ \E k \in Nat : Recorrida(p, k)')
      <4>1. /\ \E orden \in Ordenes : indice = {orden}
            /\ Ambigua(p.q) \/ (Mostrados(p) /\ \E k \in Nat : Recorrida(p, k))
        BY DEF PageInv, OneIndex
      <4> QED BY <3>1, <4>1, WalksStay
    <3> QED BY <3>1, <3>2, <3>3 DEF PageInv
  <2> QED BY <2>1, <2>2, <2>3, <2>4, <2>5 DEF ViewNext
<1> QED BY <1>1, <1>2, ViewInvariant, PTL DEF ViewSpec

\* Who follows the pages to the last one has seen every record that matches,
\* as often as it matches, though rows of one id change their order when the
\* index is built again (records of casefile/views.py), unless that changes
\* which transfers match: they are listed by risk, and an RFC has two accounts.
THEOREM PagesComplete == ViewSpec => []PagesAreComplete
<1>1. ViewInv /\ PageInv => PagesAreComplete
  <2> SUFFICES ASSUME ViewInv, PageInv, NEW p \in pagina, p.cursor = {},
                      ~Ambigua(p.q)
               PROVE  /\ p.cuantos = Cardinality(matches(p.q))
                      /\ Claves(p.q, p.vistos) = Claves(p.q, matches(p.q))
                      /\ Mostrados(p)
    BY DEF PagesAreComplete, Claves, Mostrados
  <2>1. Abierto /\ p.q \in Consultas /\ Mostrados(p)
    BY DEF PageInv
  <2>2. PICK k \in Nat : Recorrida(p, k)
    BY DEF PageInv
  <2>7. PICK orden \in Ordenes : indice = {orden}
    BY <2>1 DEF PageInv, OneIndex
  <2>3. PICK lee \in Lecturas : lee = orden.primeras
    BY DEF Ordenes
  <2>4. k >= Cardinality(matches(p.q))
    BY <2>2 DEF Recorrida
  <2>5. \A f \in matches(p.q) : LugarEn(p.q, lee, f) < k
    <3> TAKE f \in matches(p.q)
    <3>1. /\ LugarEn(p.q, lee, f) \in Nat /\ LugarEn(p.q, lee, f) < Cardinality(matches(p.q))
          /\ Cardinality(matches(p.q)) \in Nat
      BY <2>1, PlacesAreInTheList, ListIsFinite
    <3> QED BY <2>4, <3>1
  <2>6. Hasta(p.q, lee, k) = matches(p.q)
    BY <2>5 DEF Hasta
  <2> QED BY <2>1, <2>2, <2>3, <2>6 DEF Recorrida
<1> QED BY <1>1, ViewInvariant, PageInvariant, PTL
-----------------------------------------------------------------------------
(* The evidence *)

\* Of every id that a table has the index has one row.
LEMMA RowIsFound ==
    ASSUME ViewInv, OneIndex, Abierto, NEW t \in Tablas, NEW f \in estate[t]
    PROVE  \E g \in estate[t] : g.id = f.id /\ row(t, f.id) = {g}
<1>1. CASE ~Repetida(t, f.id)
  BY <1>1, RowOfId DEF ViewInv
<1>2. CASE Repetida(t, f.id)
  <2>5. PICK orden \in Ordenes : indice = {orden}
    BY DEF OneIndex
  <2>1. PICK lee \in Lecturas : lee = orden.primeras
    BY DEF Ordenes
  <2>2. <<t, f.id>> \in Repetidas
    BY <1>2 DEF Repetidas
  <2>3. /\ lee[<<t, f.id>>] \in estate[t] /\ lee[<<t, f.id>>].id = f.id
        /\ DOMAIN lee = Repetidas
    BY <2>2 DEF Lecturas
  <2>4. row(t, f.id) = {lee[<<t, f.id>>]}
    BY <2>1, <2>2, <2>3, <2>5 DEF row
  <2> QED BY <2>3, <2>4
<1> QED BY <1>1, <1>2

\* In a finite order with somebody who has n or more before him, the first n
\* are n.
LEMMA FirstOfAnOrder ==
    ASSUME NEW S, IsFiniteSet(S), NEW Before, \A x \in S : Before[x] \subseteq S, NEW n \in Nat,
           \A x, y, z \in S : x \in Before[y] /\ y \in Before[z] => x \in Before[z],
           \A x \in S : x \notin Before[x],
           \A x, y \in S : x # y => x \in Before[y] \/ y \in Before[x],
           NEW first, first \subseteq S,
           \A x \in S : x \in first <=> Cardinality(Before[x]) < n,
           NEW last \in S \ first
    PROVE  Cardinality(first) = n
<1> DEFINE N == Cardinality(S)
           place == [x \in S |-> Cardinality(Before[x])]
           T == {x \in S : place[x] < n}
           P == 0..(N - 1)
           Q == 0..(n - 1)
           part == [x \in T |-> place[x]]
<1>1. N \in Nat
  BY FS_CardinalityType
<1>2. ASSUME NEW x \in S
      PROVE  IsFiniteSet(Before[x]) /\ place[x] \in P
  <2>1. Before[x] \subseteq S /\ x \notin Before[x] /\ place[x] = Cardinality(Before[x])
    OBVIOUS
  <2> HIDE DEF place
  <2>2. IsFiniteSet(Before[x]) /\ Cardinality(Before[x]) <= N /\ Cardinality(Before[x]) # N
    BY <2>1, FS_Subset
  <2>3. Cardinality(Before[x]) \in Nat
    BY <2>2, FS_CardinalityType
  <2> QED BY <1>1, <2>1, <2>2, <2>3
<1>3. ASSUME NEW x \in S, NEW y \in S, x \in Before[y]
      PROVE  place[x] # place[y]
  <2>1. Before[x] \subseteq Before[y] /\ x \in Before[y] /\ x \notin Before[x]
    BY <1>3
  <2>2. place[x] = Cardinality(Before[x]) /\ place[y] = Cardinality(Before[y])
    OBVIOUS
  <2>3. IsFiniteSet(Before[y])
    BY <1>2
  <2> HIDE DEF place
  <2> QED BY <2>1, <2>2, <2>3, FS_Subset
<1>4. place \in Injection(S, P)
  <2>1. place \in [S -> P]
    BY <1>2
  <2>2. ASSUME NEW x \in S, NEW y \in S, place[x] = place[y]
        PROVE  x = y
    <3> HIDE DEF place
    <3> QED BY <1>3, <2>2
  <2> HIDE DEF place, P
  <2> QED BY <2>1, <2>2 DEF Injection, IsInjective
<1>5. IsFiniteSet(P) /\ Cardinality(P) = N
  <2> HIDE DEF N
  <2>1. 0 \in Int /\ N - 1 \in Int
    BY <1>1
  <2>2. IsFiniteSet(P) /\ Cardinality(P) = IF 0 > N - 1 THEN 0 ELSE (N - 1) - 0 + 1
    BY <2>1, FS_Interval
  <2> QED BY <1>1, <2>2
<1>6. place \in Surjection(S, P)
  <2> HIDE DEF place, P, N
  <2>1. Cardinality(S) = N
    BY DEF N
  <2> QED BY <1>4, <1>5, <2>1, FS_Injection
<1>7. place[last] \in P /\ ~(place[last] < n)
  <2>1. place[last] = Cardinality(Before[last]) /\ last \in S /\ ~(Cardinality(Before[last]) < n)
    OBVIOUS
  <2> HIDE DEF place, P
  <2> QED BY <1>2, <2>1
<1>8. Q \subseteq P
  BY <1>1, <1>7
<1>9. part \in Bijection(T, Q)
  <2>1. ASSUME NEW x \in T
        PROVE  part[x] = place[x] /\ place[x] \in Q /\ x \in S
    <3>1. part[x] = place[x] /\ x \in S /\ place[x] < n
      OBVIOUS
    <3>2. place[x] \in Nat
      <4>1. place[x] \in P
        BY <1>2, <3>1
      <4> HIDE DEF place, N
      <4> QED BY <1>1, <4>1
    <3> HIDE DEF place, part
    <3> QED BY <3>1, <3>2
  <2>2. part \in [T -> Q]
    BY <2>1
  <2>3. ASSUME NEW k \in Q
        PROVE  \E x \in T : part[x] = k
    <3>1. k \in P /\ k < n
      BY <1>8
    <3>2. PICK x \in S : place[x] = k
      BY <1>6, <3>1 DEF Surjection
    <3>3. x \in T
      BY <3>1, <3>2
    <3> QED BY <2>1, <3>2, <3>3
  <2>4. ASSUME NEW x \in T, NEW y \in T, part[x] = part[y]
        PROVE  x = y
    <3>1. x \in S /\ y \in S /\ place[x] = place[y]
      BY <2>1, <2>4
    <3> HIDE DEF place, T, part
    <3> QED BY <1>4, <3>1 DEF Injection, IsInjective
  <2> HIDE DEF part, T, Q
  <2> QED BY <2>2, <2>3, <2>4 DEF Bijection, Injection, Surjection, IsInjective
<1>10. IsFiniteSet(Q) /\ Cardinality(Q) = n
  <2>1. IsFiniteSet(Q) /\ Cardinality(Q) = IF 0 > n - 1 THEN 0 ELSE (n - 1) - 0 + 1
    BY FS_Interval
  <2> QED BY <2>1
<1>11. Cardinality(T) = n
  <2>1. T \subseteq S
    OBVIOUS
  <2> HIDE DEF part, T, Q
  <2>2. ExistsBijection(T, Q)
    BY <1>9 DEF ExistsBijection
  <2>3. IsFiniteSet(T)
    BY <2>1, FS_Subset
  <2> QED BY <1>10, <2>2, <2>3, FS_Bijection
<1>12. T = first
  OBVIOUS
<1> HIDE DEF T
<1> QED BY <1>11, <1>12

\* Where the related records of a table are, in the order of relaciones.
Destinos(t) ==
    CASE t = "vendors" ->
            <<"efos_list", "contracts", "employees", "vendors", "purchase_orders">>
      [] t = "efos_list" -> <<"vendors">>
      [] t = "employees" -> <<"vendors">>
      [] t = "purchase_orders" -> <<"vendors", "contracts">>
      [] t = "contracts" -> <<"vendors", "purchase_orders">>
      [] OTHER -> <<>>

\* No two of them are in one table.
LEMMA WhereTheyLead ==
    ASSUME NEW t \in Tablas
    PROVE  /\ DOMAIN Destinos(t) \subseteq 1..5
           /\ \A i \in DOMAIN Destinos(t) : Destinos(t)[i] \in Tablas
           /\ \A i, j \in DOMAIN Destinos(t) : Destinos(t)[i] = Destinos(t)[j] => i = j
BY DEF Destinos, Tablas

\* relaciones keeps to that order.
LEMMA RelationsLead ==
    ASSUME NEW t \in Tablas, NEW f
    PROVE  /\ DOMAIN relaciones(t, f) = DOMAIN Destinos(t)
           /\ \A i \in DOMAIN Destinos(t) : \A r \in relaciones(t, f)[i] :
                 r[1] = Destinos(t)[i] /\ r = <<r[1], r[2]>>
<1>1. /\ \A u, x : \A r \in por_rfc(u, x) : r[1] = u /\ r = <<r[1], r[2]>>
      /\ \A u, x : \A r \in por_clabe(u, x) : r[1] = u /\ r = <<r[1], r[2]>>
      /\ \A u, x : \A r \in de_rfc(u, x) : r[1] = u /\ r = <<r[1], r[2]>>
  BY DEF por_rfc, por_clabe, de_rfc
<1>2. CASE t = "vendors"
  <2>1. relaciones(t, f) =
            <<de_rfc("efos_list", f.id), por_rfc("contracts", f.id),
              por_clabe("employees", f.clabe),
              {r \in por_clabe("vendors", f.clabe) : r[2] # f.id},
              por_rfc("purchase_orders", f.id)>>
    BY <1>2 DEF relaciones
  <2>2. Destinos(t) = <<"efos_list", "contracts", "employees", "vendors", "purchase_orders">>
    BY <1>2 DEF Destinos
  <2> QED BY <1>1, <2>1, <2>2
<1>3. CASE t \in {"efos_list", "employees"}
  <2>1. relaciones(t, f) = <<de_rfc("vendors", f.id)>> \/ relaciones(t, f) = <<por_clabe("vendors", f.clabe)>>
    BY <1>3 DEF relaciones
  <2>2. Destinos(t) = <<"vendors">>
    BY <1>3 DEF Destinos
  <2> QED BY <1>1, <2>1, <2>2
<1>4. CASE t = "purchase_orders"
  <2>1. relaciones(t, f) = <<de_rfc("vendors", f.rfc), por_rfc("contracts", f.rfc)>>
    BY <1>4 DEF relaciones
  <2>2. Destinos(t) = <<"vendors", "contracts">>
    BY <1>4 DEF Destinos
  <2> QED BY <1>1, <2>1, <2>2
<1>5. CASE t = "contracts"
  <2>1. relaciones(t, f) = <<de_rfc("vendors", f.rfc), por_rfc("purchase_orders", f.rfc)>>
    BY <1>5 DEF relaciones
  <2>2. Destinos(t) = <<"vendors", "purchase_orders">>
    BY <1>5 DEF Destinos
  <2> QED BY <1>1, <2>1, <2>2
<1>6. CASE t \in {"invoices", "bank_txns"}
  <2>1. relaciones(t, f) = <<>> /\ Destinos(t) = <<>>
    BY <1>6 DEF relaciones, Destinos
  <2> QED BY <2>1
<1> QED BY <1>2, <1>3, <1>4, <1>5, <1>6 DEF Tablas

\* A related record is one of the estate, at the place of its table.
LEMMA RelatedAre ==
    ASSUME ViewInv, NEW t \in Tablas, NEW f, NEW p \in Existentes(t, f)
    PROVE  /\ p \in (1..5) \X (Tablas \X Nat) /\ p[1] \in DOMAIN Destinos(t)
           /\ p[2] \in relaciones(t, f)[p[1]] /\ p[2][1] = Destinos(t)[p[1]]
           /\ \E g \in estate[p[2][1]] : g.id = p[2][2]
<1>1. PICK i \in DOMAIN relaciones(t, f) : p \in {i} \X relaciones(t, f)[i]
  BY DEF Existentes
<1>2. p = <<i, p[2]>> /\ p[1] = i /\ p[2] \in relaciones(t, f)[i] /\ i \in DOMAIN Destinos(t)
  BY <1>1, RelationsLead
<1>3. p[2][1] = Destinos(t)[i] /\ p[2] = <<p[2][1], p[2][2]>> /\ p[2][1] \in Tablas /\ i \in 1..5
  BY <1>2, RelationsLead, WhereTheyLead
<1>4. row(p[2][1], p[2][2]) # {}
  BY DEF Existentes
<1>5. PICK g \in estate[p[2][1]] : g.id = p[2][2]
  BY <1>4 DEF row
<1>6. p[2][2] \in Nat
  BY <1>3, <1>5, IdsAreOrdered DEF ViewInv, AuditInv, Signalled
<1>7. p[2] \in Tablas \X Nat
  BY <1>3, <1>6
<1> QED BY <1>2, <1>3, <1>5, <1>7

\* The related records are finitely many, so the first of them can be told.
LEMMA RelatedAreFew ==
    ASSUME ViewInv, NEW t \in Tablas, NEW f
    PROVE  IsFiniteSet(Existentes(t, f))
<1> DEFINE ids(u) == {g.id : g \in estate[u]}
           En(i) == {i} \X ({Destinos(t)[i]} \X ids(Destinos(t)[i]))
           todos == UNION {En(i) : i \in DOMAIN Destinos(t)}
<1>1. \A i \in DOMAIN Destinos(t) : IsFiniteSet(En(i))
  <2> TAKE i \in DOMAIN Destinos(t)
  <2>1. IsFiniteSet(estate[Destinos(t)[i]])
    BY WhereTheyLead, EstatesAreFinite DEF ViewInv, AuditInv, Signalled
  <2>2. IsFiniteSet(ids(Destinos(t)[i]))
    BY <2>1, FiniteFields
  <2>3. IsFiniteSet({i}) /\ IsFiniteSet({Destinos(t)[i]})
    BY FS_Singleton
  <2> HIDE DEF ids
  <2>4. IsFiniteSet({Destinos(t)[i]} \X ids(Destinos(t)[i]))
    BY <2>2, <2>3, FS_Product
  <2> QED BY <2>3, <2>4, FS_Product
<1>2. IsFiniteSet({En(i) : i \in DOMAIN Destinos(t)})
  <2>1. IsFiniteSet(DOMAIN Destinos(t))
    <3>1. 1 \in Int /\ 5 \in Int
      OBVIOUS
    <3>2. IsFiniteSet(1..5)
      BY <3>1, FS_Interval
    <3> QED BY <3>2, WhereTheyLead, FS_Subset
  <2> DEFINE a == [i \in DOMAIN Destinos(t) |-> En(i)]
             T == {En(i) : i \in DOMAIN Destinos(t)}
  <2>2. a \in Surjection(DOMAIN Destinos(t), T)
    <3>1. a \in [DOMAIN Destinos(t) -> T] /\ \A x \in T : \E i \in DOMAIN Destinos(t) : a[i] = x
      <4> HIDE DEF En
      <4> QED OBVIOUS
    <3> HIDE DEF a, T
    <3> QED BY <3>1 DEF Surjection
  <2> HIDE DEF a, T
  <2>3. IsFiniteSet(T)
    BY <2>1, <2>2, FS_Surjection
  <2> QED BY <2>3 DEF T
<1>3. IsFiniteSet(todos)
  <2>1. \A x \in {En(i) : i \in DOMAIN Destinos(t)} : IsFiniteSet(x)
    BY <1>1
  <2> DEFINE T == {En(i) : i \in DOMAIN Destinos(t)}
  <2> HIDE DEF En
  <2>2. IsFiniteSet(T) /\ \A x \in T : IsFiniteSet(x)
    BY <1>2, <2>1
  <2> HIDE DEF T
  <2>3. IsFiniteSet(UNION T)
    BY <2>2, FS_UNION
  <2> QED BY <2>3 DEF T
<1>4. Existentes(t, f) \subseteq todos
  <2> SUFFICES ASSUME NEW p \in Existentes(t, f)
               PROVE  p \in todos
    OBVIOUS
  <2>1. /\ p \in (1..5) \X (Tablas \X Nat) /\ p[1] \in DOMAIN Destinos(t)
        /\ p[2][1] = Destinos(t)[p[1]] /\ \E g \in estate[p[2][1]] : g.id = p[2][2]
    BY RelatedAre
  <2>2. p = <<p[1], <<p[2][1], p[2][2]>>>> /\ p[2][2] \in ids(Destinos(t)[p[1]])
    BY <2>1
  <2> HIDE DEF ids
  <2>3. p \in En(p[1])
    BY <2>1, <2>2
  <2> HIDE DEF En
  <2> QED BY <2>1, <2>3
<1> HIDE DEF todos
<1> QED BY <1>3, <1>4, FS_Subset

\* Whoever is not among the first that are shown is behind MAX_RELATED others.
LEMMA RelatedShown ==
    ASSUME ViewInv, NEW t \in Tablas, NEW f, NEW p \in Existentes(t, f)
    PROVE  p[2] \in _related(t, f) \/ Cardinality(_related(t, f)) = MAX_RELATED
<1> DEFINE S == Existentes(t, f)
           Va(q, r) == q[1] < r[1] \/ (q[1] = r[1] /\ q[2][2] < r[2][2])
           Antes == [r \in S |-> {q \in S : Va(q, r)}]
           T == {r \in S : Cardinality(Antes[r]) < MAX_RELATED}
<1>1. _related(t, f) = {r[2] : r \in T}
  <2>1. T = {r \in S : Cardinality({q \in S : Va(q, r)}) < MAX_RELATED}
    OBVIOUS
  <2> HIDE DEF T
  <2> QED BY <2>1 DEF _related
<1>2. \A q \in S : /\ q[1] \in Nat /\ q[2][2] \in Nat /\ q[2][1] = Destinos(t)[q[1]]
                   /\ q[1] \in DOMAIN Destinos(t) /\ q = <<q[1], <<q[2][1], q[2][2]>>>>
  BY RelatedAre
<1>3. \A q, r \in S : q \in Antes[r] <=> Va(q, r)
  OBVIOUS
<1>4. IsFiniteSet(S) /\ MAX_RELATED \in Nat
  BY RelatedAreFew, PagesHaveASize
<1>5. \A r \in S : Antes[r] \subseteq S
  OBVIOUS
<1>6. T \subseteq S /\ \A r \in S : r \in T <=> Cardinality(Antes[r]) < MAX_RELATED
  <2> HIDE DEF Antes, S
  <2> QED OBVIOUS
<1> HIDE DEF Antes
<1>7. CASE p \in T
  <2> HIDE DEF T, S
  <2> QED BY <1>1, <1>7
<1>8. CASE p \notin T
  <2>1. \A x, y, z \in S : x \in Antes[y] /\ y \in Antes[z] => x \in Antes[z]
    <3> SUFFICES ASSUME NEW x \in S, NEW y \in S, NEW z \in S, Va(x, y), Va(y, z)
                 PROVE  Va(x, z)
      BY <1>3
    <3> HIDE DEF S
    <3> QED BY <1>2
  <2>2. \A x \in S : x \notin Antes[x]
    <3> SUFFICES ASSUME NEW x \in S, Va(x, x)
                 PROVE  FALSE
      BY <1>3
    <3> HIDE DEF S
    <3> QED BY <1>2
  <2>3. \A x, y \in S : x # y => x \in Antes[y] \/ y \in Antes[x]
    <3> SUFFICES ASSUME NEW x \in S, NEW y \in S, ~Va(x, y), ~Va(y, x)
                 PROVE  x = y
      BY <1>3
    <3> HIDE DEF S
    <3>1. x[1] = y[1] /\ x[2][2] = y[2][2]
      BY <1>2
    <3>2. x[2][1] = y[2][1]
      BY <1>2, <3>1
    <3> QED BY <1>2, <3>1, <3>2
  <2>4. Cardinality(T) = MAX_RELATED
    <3>1. p \in S \ T
      BY <1>8
    <3> HIDE DEF S, T, Va
    <3> QED BY <1>4, <1>5, <1>6, <2>1, <2>2, <2>3, <3>1, FirstOfAnOrder
  <2> DEFINE U == {r[2] : r \in T}
             segundo == [r \in T |-> r[2]]
  <2>5. segundo \in Bijection(T, U)
    <3>1. segundo \in [T -> U] /\ \A u \in U : \E r \in T : segundo[r] = u
      <4> HIDE DEF T
      <4> QED OBVIOUS
    <3>2. ASSUME NEW q \in T, NEW r \in T, segundo[q] = segundo[r]
          PROVE  q = r
      <4>1. q \in S /\ r \in S /\ q[2] = r[2]
        BY <3>2
      <4> HIDE DEF S
      <4>2. q[1] = r[1]
        BY <1>2, <4>1, WhereTheyLead
      <4> QED BY <1>2, <4>1, <4>2
    <3> HIDE DEF segundo, T, U
    <3> QED BY <3>1, <3>2 DEF Bijection, Injection, Surjection, IsInjective
  <2>6. IsFiniteSet(T)
    <3>1. T \subseteq S
      OBVIOUS
    <3> HIDE DEF T, S
    <3> QED BY <1>4, <3>1, FS_Subset
  <2>7. Cardinality(U) = MAX_RELATED
    <3> HIDE DEF T, U, segundo
    <3>1. ExistsBijection(T, U)
      BY <2>5 DEF ExistsBijection
    <3> QED BY <2>4, <2>6, <3>1, FS_Bijection
  <2> QED BY <1>1, <2>7
<1> QED BY <1>7, <1>8

\* The other record leads back: it shares the RFC or the account too.
LEMMA RelatedLeadBack ==
    ASSUME ViewInv, OneIndex, Abierto, NEW t \in Tablas, NEW f \in estate[t],
           t = "vendors" => f.id # Nadie,
           NEW r \in _related(t, f), NEW g \in row(r[1], r[2]), ~Repetida(r[1], r[2])
    PROVE  \E p \in Existentes(r[1], g) : p[2] = <<t, f.id>>
<1> DEFINE u == r[1]
<1>1. PICK p \in Existentes(t, f) : r = p[2]
  BY DEF _related
<1>2. /\ r \in relaciones(t, f)[p[1]] /\ u = Destinos(t)[p[1]] /\ p[1] \in DOMAIN Destinos(t)
      /\ r \in Tablas \X Nat
  BY <1>1, RelatedAre
<1>3. u \in Tablas /\ r = <<u, r[2]>> /\ g \in estate[u] /\ g.id = r[2]
  BY <1>2 DEF row
<1>4. \A x \in estate[u] : x.id = r[2] => x = g
  BY <1>3 DEF Repetida
<1> HIDE DEF u
<1>5. SUFFICES \E j \in DOMAIN relaciones(u, g) : <<t, f.id>> \in relaciones(u, g)[j]
  <2>1. row(t, f.id) # {}
    BY RowIsFound
  <2>2. PICK j \in DOMAIN relaciones(u, g) : <<t, f.id>> \in relaciones(u, g)[j]
    BY <1>5
  <2> DEFINE v == <<j, <<t, f.id>>>>
  <2>3. v \in {j} \X relaciones(u, g)[j]
    BY <2>2
  <2>4. v[2] = <<t, f.id>> /\ v[2][1] = t /\ v[2][2] = f.id
    OBVIOUS
  <2> HIDE DEF v
  <2>5. v \in UNION {{i} \X relaciones(u, g)[i] : i \in DOMAIN relaciones(u, g)}
    BY <2>3
  <2>6. v \in Existentes(u, g)
    BY <2>1, <2>4, <2>5 DEF Existentes
  <2> QED BY <2>4, <2>6 DEF u
<1>6. /\ \A n, x : r \in por_rfc(n, x) => r[1] = n /\ \E y \in estate[n] : y.id = r[2] /\ y.rfc = x
      /\ \A n, x : r \in por_clabe(n, x) =>
            x # Nadie /\ r[1] = n /\ \E y \in estate[n] : y.id = r[2] /\ y.clabe = x
      /\ \A n, x : r \in de_rfc(n, x) => x # Nadie /\ r[1] = n /\ r[2] = x
  BY DEF por_rfc, por_clabe, de_rfc
<1>7. /\ \A x : r \in por_rfc(u, x) => g.rfc = x
      /\ \A x : r \in por_clabe(u, x) => x # Nadie /\ g.clabe = x
      /\ \A x : r \in de_rfc(u, x) => x # Nadie /\ g.id = x
  BY <1>3, <1>4, <1>6
<1>8. /\ f.rfc = g.rfc => <<t, f.id>> \in por_rfc(t, g.rfc)
      /\ f.rfc = g.id => <<t, f.id>> \in por_rfc(t, g.id)
      /\ f.clabe = g.clabe /\ g.clabe # Nadie => <<t, f.id>> \in por_clabe(t, g.clabe)
      /\ f.id # Nadie /\ f.id = g.rfc => <<t, f.id>> \in de_rfc(t, g.rfc)
      /\ f.id # Nadie /\ f.id = g.id => <<t, f.id>> \in de_rfc(t, g.id)
  BY DEF por_rfc, por_clabe, de_rfc
<1>9. /\ relaciones("vendors", g) =
            <<de_rfc("efos_list", g.id), por_rfc("contracts", g.id),
              por_clabe("employees", g.clabe),
              {x \in por_clabe("vendors", g.clabe) : x[2] # g.id},
              por_rfc("purchase_orders", g.id)>>
      /\ relaciones("efos_list", g) = <<de_rfc("vendors", g.id)>>
      /\ relaciones("employees", g) = <<por_clabe("vendors", g.clabe)>>
      /\ relaciones("purchase_orders", g) = <<de_rfc("vendors", g.rfc), por_rfc("contracts", g.rfc)>>
      /\ relaciones("contracts", g) = <<de_rfc("vendors", g.rfc), por_rfc("purchase_orders", g.rfc)>>
  BY DEF relaciones
<1>10. CASE t = "vendors"
  <2>1. relaciones(t, f) =
            <<de_rfc("efos_list", f.id), por_rfc("contracts", f.id),
              por_clabe("employees", f.clabe),
              {x \in por_clabe("vendors", f.clabe) : x[2] # f.id},
              por_rfc("purchase_orders", f.id)>>
    BY <1>10 DEF relaciones
  <2>2. Destinos(t) = <<"efos_list", "contracts", "employees", "vendors", "purchase_orders">>
    BY <1>10 DEF Destinos
  <2>3. p[1] \in 1..5
    BY <1>2, <2>2
  <2>4. CASE p[1] = 1
    <3>1. u = "efos_list" /\ r \in de_rfc(u, f.id)
      BY <1>2, <2>1, <2>2, <2>4
    <3>2. <<t, f.id>> \in relaciones(u, g)[1] /\ 1 \in DOMAIN relaciones(u, g)
      BY <1>7, <1>8, <1>9, <1>10, <3>1
    <3> QED BY <3>2
  <2>5. CASE p[1] = 2
    <3>1. u = "contracts" /\ r \in por_rfc(u, f.id)
      BY <1>2, <2>1, <2>2, <2>5
    <3>2. <<t, f.id>> \in relaciones(u, g)[1] /\ 1 \in DOMAIN relaciones(u, g)
      BY <1>7, <1>8, <1>9, <1>10, <3>1
    <3> QED BY <3>2
  <2>6. CASE p[1] = 3
    <3>1. u = "employees" /\ r \in por_clabe(u, f.clabe)
      BY <1>2, <2>1, <2>2, <2>6
    <3>2. <<t, f.id>> \in relaciones(u, g)[1] /\ 1 \in DOMAIN relaciones(u, g)
      BY <1>7, <1>8, <1>9, <1>10, <3>1
    <3> QED BY <3>2
  <2>7. CASE p[1] = 4
    <3>1. u = "vendors" /\ r \in por_clabe(u, f.clabe) /\ r[2] # f.id
      BY <1>2, <2>1, <2>2, <2>7
    <3>2. <<t, f.id>> \in por_clabe("vendors", g.clabe) /\ <<t, f.id>>[2] # g.id
      BY <1>3, <1>7, <1>8, <1>10, <3>1
    <3>3. <<t, f.id>> \in relaciones(u, g)[4] /\ 4 \in DOMAIN relaciones(u, g)
      BY <1>9, <3>1, <3>2
    <3> QED BY <3>3
  <2>8. CASE p[1] = 5
    <3>1. u = "purchase_orders" /\ r \in por_rfc(u, f.id)
      BY <1>2, <2>1, <2>2, <2>8
    <3>2. <<t, f.id>> \in relaciones(u, g)[1] /\ 1 \in DOMAIN relaciones(u, g)
      BY <1>7, <1>8, <1>9, <1>10, <3>1
    <3> QED BY <3>2
  <2> QED BY <2>3, <2>4, <2>5, <2>6, <2>7, <2>8
<1>11. CASE t = "efos_list"
  <2>1. u = "vendors" /\ r \in de_rfc(u, f.id)
    BY <1>2, <1>11 DEF relaciones, Destinos
  <2>2. <<t, f.id>> \in relaciones(u, g)[1] /\ 1 \in DOMAIN relaciones(u, g)
    BY <1>7, <1>8, <1>9, <1>11, <2>1
  <2> QED BY <2>2
<1>12. CASE t = "employees"
  <2>1. u = "vendors" /\ r \in por_clabe(u, f.clabe)
    BY <1>2, <1>12 DEF relaciones, Destinos
  <2>2. <<t, f.id>> \in relaciones(u, g)[3] /\ 3 \in DOMAIN relaciones(u, g)
    BY <1>7, <1>8, <1>9, <1>12, <2>1
  <2> QED BY <2>2
<1>13. CASE t = "purchase_orders"
  <2>1. \/ u = "vendors" /\ r \in de_rfc(u, f.rfc)
        \/ u = "contracts" /\ r \in por_rfc(u, f.rfc)
    BY <1>2, <1>13 DEF relaciones, Destinos
  <2>2. CASE u = "vendors" /\ r \in de_rfc(u, f.rfc)
    <3>1. <<t, f.id>> \in relaciones(u, g)[5] /\ 5 \in DOMAIN relaciones(u, g)
      BY <1>7, <1>8, <1>9, <1>13, <2>2
    <3> QED BY <3>1
  <2>3. CASE u = "contracts" /\ r \in por_rfc(u, f.rfc)
    <3>1. <<t, f.id>> \in relaciones(u, g)[2] /\ 2 \in DOMAIN relaciones(u, g)
      BY <1>7, <1>8, <1>9, <1>13, <2>3
    <3> QED BY <3>1
  <2> QED BY <2>1, <2>2, <2>3
<1>14. CASE t = "contracts"
  <2>1. \/ u = "vendors" /\ r \in de_rfc(u, f.rfc)
        \/ u = "purchase_orders" /\ r \in por_rfc(u, f.rfc)
    BY <1>2, <1>14 DEF relaciones, Destinos
  <2>2. CASE u = "vendors" /\ r \in de_rfc(u, f.rfc)
    <3>1. <<t, f.id>> \in relaciones(u, g)[2] /\ 2 \in DOMAIN relaciones(u, g)
      BY <1>7, <1>8, <1>9, <1>14, <2>2
    <3> QED BY <3>1
  <2>3. CASE u = "purchase_orders" /\ r \in por_rfc(u, f.rfc)
    <3>1. <<t, f.id>> \in relaciones(u, g)[2] /\ 2 \in DOMAIN relaciones(u, g)
      BY <1>7, <1>8, <1>9, <1>14, <2>3
    <3> QED BY <3>1
  <2> QED BY <2>1, <2>2, <2>3
<1>15. CASE t \in {"invoices", "bank_txns"}
  <2>1. Destinos(t) = <<>>
    BY <1>15 DEF Destinos
  <2> QED BY <1>2, <2>1
<1> QED BY <1>10, <1>11, <1>12, <1>13, <1>14, <1>15 DEF Tablas

\* What a cluster cites it has an exhibit of.
LEMMA CitedIsExhibited ==
    ASSUME NEW cl, ~Rota(cl), NEW c \in citas(cl)
    PROVE  \E ex \in exhibits(cl) : ex.tabla = c[1] /\ ex.fila \in registro(c[1], c[2])
<1>1. registro(c[1], c[2]) # {}
  BY DEF Rota
<1> DEFINE ex == [tabla |-> c[1], fila |-> CHOOSE f \in registro(c[1], c[2]) : TRUE]
<1>2. ex \in exhibits(cl)
  BY DEF exhibits
<1> QED BY <1>1, <1>2

\* A blank id is accused of nothing.
LEMMA AccusedHaveNames ==
    ASSUME NEW s, NEW e \in de_senal(s), e.tipo \in TIPOS_ACUSABLES
    PROVE  e.canonico # Nadie
<1>1. CASE e.tipo = "rfc"
  BY <1>1, RfcEntity, OfRfc
<1>2. CASE e.tipo = "employee"
  <2>1. \A x : e \in Empleado(x) => e.canonico # Nadie
    BY DEF Empleado, Entidad
  <2>2. \A x : e \notin Rfc(x)
    BY <1>2, OfRfc
  <2>3. \A c : e \in Duenos(c) => e.canonico # Nadie
    BY <2>1, <2>2 DEF Duenos
  <2>4. \A c : e \in Clabe(c) => e.canonico # Nadie
    <3> TAKE c
    <3>1. e # Entidad("clabe", c) /\ \A x : e # Entidad("empresa", x)
      BY <1>2 DEF Entidad
    <3> QED BY <2>3, <3>1 DEF Clabe
  <2>5. \A x : e \in Persona(x) => e.canonico # Nadie
    <3> TAKE x
    <3>1. e # Entidad("persona", x)
      BY <1>2 DEF Entidad
    <3> QED BY <2>1, <3>1 DEF Persona
  <2> QED BY <2>1, <2>2, <2>4, <2>5 DEF de_senal
<1> QED BY <1>1, <1>2 DEF TIPOS_ACUSABLES

\* The signals of a finding are of rules that did not fail.
LEMMA SignalsOfFinding ==
    ASSUME AuditInv, NEW h \in hallazgos
    PROVE  senales \subseteq Senales /\ h.cluster.senales \subseteq senales
<1>1. PICK S : h.cluster = Grupo(h.esquema, S)
  BY FindingsOf
<1>2. Grupo(h.esquema, S).senales \subseteq senales
  BY DEF Grupo, DelEsquema
<1> QED BY <1>1, <1>2, FindingsOf

\* An exhibit is of a row of a table; registro finds none with spaces around
\* its id but among the RFCs.
LEMMA ExhibitsAreRows ==
    ASSUME AuditInv, NEW h \in hallazgos, NEW ex \in h.exhibits
    PROVE  /\ ex.tabla \in Tablas /\ ex.fila \in estate[ex.tabla]
           /\ <<ex.tabla, ex.fila.id>> \in citas(h.cluster)
           /\ ex.tabla \notin PorRfc => ~ex.fila.espacios
<1> DEFINE cl == h.cluster
<1>1. ~Rota(cl) /\ ex \in exhibits(cl) /\ senales \subseteq Senales /\ cl.senales \subseteq senales
  BY FindingsOf, SignalsOfFinding
<1>2. ex.fila \in estate[ex.tabla] /\ <<ex.tabla, ex.fila.id>> \in citas(cl)
  BY <1>1, ExhibitsCite
<1>3. ex.tabla \in Tablas
  <2>1. DeFila(<<ex.tabla, ex.fila.id>>)
    BY <1>1, <1>2, ClustersCiteRows
  <2> QED BY <2>1 DEF DeFila
<1>4. PICK c \in citas(cl) : ex = [tabla |-> c[1], fila |-> CHOOSE f \in registro(c[1], c[2]) : TRUE]
  BY <1>1 DEF exhibits
<1>5. ex.tabla = c[1] /\ ex.fila \in registro(c[1], c[2])
  BY <1>1, <1>4 DEF Rota
<1> QED BY <1>2, <1>3, <1>5 DEF registro

\* No record without an id is cited.
LEMMA NobodyIsCited ==
    ASSUME AuditInv, NEW h \in hallazgos, NEW ex \in h.exhibits
    PROVE  ex.fila.id # Nadie
<1>1. <<ex.tabla, ex.fila.id>> \in citas(h.cluster)
  BY ExhibitsAreRows
<1> QED BY <1>1 DEF citas, agregar

\* The row that the case file shows for an exhibit names the accused.
Nombra(h, ex, id) ==
    /\ ~ex.fila.espacios
    /\ \E f \in row(ex.tabla, ex.fila.id) :
          /\ f.id = ex.fila.id /\ id \in row_entity(ex.tabla, f)
          /\ _names_accused(ex.tabla, f, {id})

\* It does for each accused: the row of its catalog or of the listing, or the
\* invoice or the order that the signal was seen in.
LEMMA AccusedInRecords ==
    ASSUME ViewInv, OneIndex, Abierto, NEW h \in hallazgos, NEW id \in entities(h),
           ~ConEspacios(id), id \in catalogo \/ ~CitaDudosa(h)
    PROVE  \E ex \in h.exhibits : Nombra(h, ex, id)
<1> DEFINE cl == h.cluster
<1>1. PICK e \in h.entidades : id = format_entity_id(e) /\ e.tipo \in TIPOS_ACUSABLES
  BY WhoIsAccused DEF ViewInv
<1>2. /\ e \in acusables(cl) /\ ~Rota(cl) /\ h.exhibits = exhibits(cl)
      /\ senales \subseteq Senales /\ cl.senales \subseteq senales
  BY FindingsOf, SignalsOfFinding DEF ViewInv
<1>3. PICK s \in cl.senales : e \in de_senal(s)
  BY <1>2 DEF acusables, entidades
<1>4. s \in Senales /\ e.canonico # Nadie
  BY <1>1, <1>2, <1>3, AccusedHaveNames
<1>5. ASSUME NEW ex \in h.exhibits
      PROVE  /\ ex.tabla \in Tablas
             /\ ex.tabla \notin PorRfc => ~ex.fila.espacios
             /\ \E g \in estate[ex.tabla] : g.id = ex.fila.id /\ row(ex.tabla, ex.fila.id) = {g}
  BY ExhibitsAreRows, RowIsFound DEF ViewInv
<1>6. CASE e.tipo = "employee"
  <2>1. Respaldada(e, exhibits(cl))
    <3>1. Motivo(cl) = "acusado"
      BY FindingsOf DEF ViewInv
    <3> QED BY <1>2, <3>1 DEF Motivo
  <2>2. PICK ex \in h.exhibits : ex.tabla = "employees" /\ ex.fila.id = e.canonico
    BY <1>2, <1>6, <2>1 DEF Respaldada
  <2>3. PICK g \in estate.employees : g.id = e.canonico /\ row("employees", e.canonico) = {g}
    BY <1>5, <2>2
  <2>4. id = <<"EMP", g.id>> /\ g.id # Nadie
    BY <1>1, <1>4, <1>6, <2>3 DEF format_entity_id, PREFIJOS
  <2>5. id \in row_entity("employees", g) /\ _names_accused("employees", g, {id})
    BY <2>4 DEF row_entity, Ids, _names_accused
  <2>6. ~ex.fila.espacios
    BY <1>5, <2>2 DEF PorRfc
  <2> QED BY <2>2, <2>3, <2>5, <2>6 DEF Nombra
<1>7. CASE e.tipo = "rfc"
  <2> DEFINE rfc == e.canonico
  <2>1. id = <<"RFC", rfc>> /\ rfc # Nadie
    BY <1>1, <1>4, <1>7 DEF format_entity_id, PREFIJOS
  <2>2. id \notin company_id /\ rfc \notin empresa.rfc
    <3>1. id \notin company_id
      BY WhoIsAccused DEF ViewInv
    <3> QED BY <2>1, <3>1 DEF company_id
  <2>3. \A c \in DeProveedor(cl.esquema, rfc) : c[2] # Nadie => c \in citas(cl)
    BY <1>2, <1>7 DEF citas, agregar, DeAcusado
  <2> HIDE DEF rfc
  <2>4. ASSUME NEW t \in PorRfc, <<t, rfc>> \in citas(cl)
        PROVE  \E ex \in h.exhibits : Nombra(h, ex, id)
    <3>1. PICK ex \in h.exhibits : ex.tabla = t /\ ex.fila \in registro(t, rfc)
      <4>1. \E ex \in exhibits(cl) : ex.tabla = <<t, rfc>>[1] /\ ex.fila \in registro(<<t, rfc>>[1], <<t, rfc>>[2])
        BY <1>2, <2>4, CitedIsExhibited
      <4> QED BY <1>2, <4>1
    <3>2. ex.fila \in estate[t] /\ ex.fila.id = rfc
      BY <3>1 DEF registro
    <3>3. ~ex.fila.espacios
      BY <2>1, <3>2 DEF ConEspacios, PorRfc
    <3>4. PICK g \in estate[t] : g.id = rfc /\ row(t, rfc) = {g}
      BY <1>5, <3>1, <3>2
    <3>5. id \in row_entity(t, g) /\ _names_accused(t, g, {id})
      BY <2>1, <3>4 DEF row_entity, Ids, _names_accused, PorRfc
    <3> QED BY <3>1, <3>2, <3>3, <3>4, <3>5 DEF Nombra
  <2>5. CASE vendors_por_rfc(rfc) # {}
    <3>1. <<"vendors", rfc>> \in citas(cl)
      BY <2>1, <2>3, <2>5 DEF DeProveedor
    <3> QED BY <2>4, <3>1 DEF PorRfc
  <2>6. CASE efos_por_rfc(rfc) # {}
    <3>1. <<"efos_list", rfc>> \in citas(cl)
      BY <2>1, <2>3, <2>6 DEF DeProveedor
    <3> QED BY <2>4, <3>1 DEF PorRfc
  <2>7. CASE vendors_por_rfc(rfc) = {} /\ efos_por_rfc(rfc) = {}
    <3>1. \A v \in estate.vendors : v.id # rfc
      BY <2>7 DEF vendors_por_rfc
    <3>2. ~CitaRepetida(h) /\ s.id # Nadie
      <4>1. \A v \in estate.efos_list : v.id # rfc
        BY <2>7 DEF efos_por_rfc
      <4>2. id \notin catalogo
        BY <2>1, <2>2, <3>1, <4>1 DEF catalogo, Ids
      <4> QED BY <1>3, <4>2 DEF CitaDudosa
    <3>3. ASSUME NEW t \in {"invoices", "purchase_orders"}, NEW f \in estate[t],
                 <<t, f.id>> \in citar_senal(s), f.id = s.id,
                 id \in row_entity(t, f), _names_accused(t, f, {id})
          PROVE  \E ex \in h.exhibits : Nombra(h, ex, id)
      <4>1. <<t, f.id>> \in citas(cl)
        BY <1>3, <3>2, <3>3 DEF citas, agregar
      <4>2. PICK ex \in h.exhibits : ex.tabla = t /\ ex.fila \in registro(t, f.id)
        <5>1. \E ex \in exhibits(cl) :
                  ex.tabla = <<t, f.id>>[1] /\ ex.fila \in registro(<<t, f.id>>[1], <<t, f.id>>[2])
          BY <1>2, <4>1, CitedIsExhibited
        <5> QED BY <1>2, <5>1
      <4>3. ex.fila.id = f.id /\ ~Repetida(t, f.id)
        BY <3>2, <4>2 DEF registro, CitaRepetida
      <4>4. row(t, f.id) = {f}
        BY <4>3, RowOfId DEF ViewInv, Tablas
      <4>5. ~ex.fila.espacios
        BY <1>5, <4>2 DEF PorRfc
      <4> QED BY <3>3, <4>2, <4>3, <4>4, <4>5 DEF Nombra
    <3>4. CASE EsDeFactura(s)
      <4>1. PICK i \in estate.invoices : s = DeFactura(s.regla, i) /\ s.regla \in DeFacturas
        BY <3>4 DEF EsDeFactura
      <4>2. s.entidad = i.emisor /\ s.tabla = "invoices" /\ s.id = i.id
        BY <4>1 DEF DeFactura, Senal
      <4>3. de_senal(s) = Rfc(i.emisor)
        BY <4>1, <4>2 DEF de_senal, DeFacturas
      <4>4. i.emisor = rfc
        BY <1>3, <4>3, OfRfc DEF rfc
      <4>5. <<"invoices", i.id>> \in citar_senal(s)
        BY <4>1, <4>2 DEF citar_senal, DeFacturas
      <4>6. id \in row_entity("invoices", i) /\ _names_accused("invoices", i, {id})
        BY <2>1, <2>2, <4>4 DEF row_entity, Ids, _names_accused
      <4> QED BY <3>3, <4>2, <4>5, <4>6
    <3>5. CASE EsOrden(s)
      <4>1. PICK o \in estate.purchase_orders :
                /\ s.regla = "NO_SEGREGATION_OF_DUTIES" /\ s.tabla = "purchase_orders"
                /\ s.id = o.id /\ s.contexto = o.rfc /\ s.entidad = o.solicita
        BY <3>5 DEF EsOrden, Senal
      <4>2. e \in Persona(s.entidad) \cup Rfc(o.rfc)
        BY <1>3, <4>1 DEF de_senal
      <4>3. e \notin Persona(s.entidad)
        BY <1>7 DEF Persona, Empleado, Entidad
      <4>4. o.rfc = rfc
        BY <4>2, <4>3, OfRfc DEF rfc
      <4>5. <<"purchase_orders", o.id>> \in citar_senal(s)
        BY <4>1 DEF citar_senal
      <4>6. id \in row_entity("purchase_orders", o) /\ _names_accused("purchase_orders", o, {id})
        BY <2>1, <4>4 DEF row_entity, Ids, _names_accused
      <4> QED BY <3>3, <4>1, <4>5, <4>6
    <3>6. ~EsCompartida(s)
      <4> SUFFICES ASSUME EsCompartida(s)
                   PROVE  FALSE
        OBVIOUS
      <4>1. PICK d \in Compartidas :
                s.contexto = Rfcs(d) /\ s.regla = "SHARED_CLABE_MULTI_RFC"
        BY DEF EsCompartida, Senal
      <4>2. PICK r \in Rfcs(d) : e \in Rfc(r)
        BY <1>3, <4>1 DEF de_senal
      <4>3. r = rfc
        BY <4>2, OfRfc DEF rfc
      <4> QED BY <3>1, <4>2, <4>3 DEF Rfcs, vendors_por_clabe
    <3>7. ~EsSalida(s)
      <4> SUFFICES ASSUME EsSalida(s)
                   PROVE  FALSE
        OBVIOUS
      <4>1. PICK v \in estate.vendors : s.entidad = v.id /\ s.regla = "OUTBOUND_TO_SUSPECT_ENTITY"
        BY DEF EsSalida, Senal
      <4>2. e \in Rfc(v.id)
        BY <1>3, <4>1 DEF de_senal
      <4> QED BY <3>1, <4>2, OfRfc DEF rfc
    <3>8. ~EsPago(s)
      <4> SUFFICES ASSUME EsPago(s)
                   PROVE  FALSE
        OBVIOUS
      <4>1. s.regla = "PAYMENT_TO_EMPLOYEE_ACCOUNT"
        BY SignalSchemes
      <4>2. e \in Empleado(s.entidad) \cup Clabe(s.contexto.destino) \cup Clabe(s.contexto.origen)
        BY <1>3, <4>1 DEF de_senal
      <4>3. e \notin Empleado(s.entidad)
        BY <1>7, OfEmpleado DEF Entidad
      <4>4. PICK c : e \in Clabe(c)
        BY <4>2, <4>3
      <4>5. \E v \in vendors_por_clabe(c) : v.id = rfc
        BY <1>7, <4>4, OfClabe DEF rfc
      <4> QED BY <3>1, <4>5 DEF vendors_por_clabe
    <3> QED BY <1>4, <3>4, <3>5, <3>6, <3>7, <3>8, SignalForms
  <2> QED BY <2>5, <2>6, <2>7
<1> QED BY <1>1, <1>6, <1>7 DEF TIPOS_ACUSABLES

\* An exhibit that names the accused is found, and is highlighted in the report.
LEMMA NamedIsShown ==
    ASSUME NEW h \in publicados, NEW id \in entities(h), NEW ex \in h.exhibits, Nombra(h, ex, id)
    PROVE  /\ h \in appears_in(id).exhibit
           /\ \E v \in report_records :
                 v.highlighted /\ h \in v.cited_in /\ _names_accused(v.source_table, v.data, {id})
<1> DEFINE t == ex.tabla
<1>1. PICK f \in row(t, ex.fila.id) :
          f.id = ex.fila.id /\ id \in row_entity(t, f) /\ _names_accused(t, f, {id})
  BY DEF Nombra
<1>2. h \in cited_in(t, f.id)
  BY <1>1 DEF cited_in, Nombra
<1>3. _highlights(t, f)
  <2>1. id \in UNION {entities(g) : g \in cited_in(t, f.id)}
    BY <1>2
  <2>2. \A X, Y : X \subseteq Y /\ _names_accused(t, f, X) => _names_accused(t, f, Y)
    BY DEF _names_accused
  <2> QED BY <1>1, <2>1, <2>2 DEF _highlights
<1> DEFINE v == [source_table |-> t, record_id |-> ex.fila.id, data |-> f,
                 highlighted |-> _highlights(t, f), cited_in |-> cited_in(t, ex.fila.id),
                 related |-> _related(t, f)]
<1>4. v \in record_view(t, ex.fila.id)
  BY <1>1 DEF record_view
<1>5. v \in report_records
  <2>1. ex \in UNION {g.exhibits : g \in publicados}
    OBVIOUS
  <2> HIDE DEF v
  <2> QED BY <1>4, <2>1 DEF report_records
<1>6. v.highlighted = _highlights(t, f) /\ v.cited_in = cited_in(t, f.id) /\ v.source_table = t /\ v.data = f
  BY <1>1
<1>7. h \in appears_in(id).exhibit
  BY <1>1 DEF appears_in
<1> HIDE DEF v
<1> QED BY <1>1, <1>2, <1>3, <1>5, <1>6, <1>7

\* The report has the record of an exhibit, which leads to others and back.
LEMMA ExhibitIsShown ==
    ASSUME ViewInv, OneIndex, Abierto, NEW h \in publicados, NEW ex \in h.exhibits
    PROVE  \E v \in report_records :
              /\ v.source_table = ex.tabla /\ v.record_id = ex.fila.id
              /\ ex.fila.espacios \/ h \in v.cited_in
              /\ \A r \in v.related : \A suya \in record_view(r[1], r[2]) :
                    \/ <<ex.tabla, ex.fila.id>> \in suya.related
                    \/ Cardinality(suya.related) = MAX_RELATED
                    \/ Repetida(r[1], r[2])
<1> DEFINE t == ex.tabla
           id == ex.fila.id
<1>1. AuditInv /\ h \in hallazgos
  BY DEF ViewInv, AuditInv, InOrder
<1>2. t \in Tablas /\ ex.fila \in estate[t] /\ (t = "vendors" => id # Nadie)
  BY <1>1, ExhibitsAreRows, NobodyIsCited
<1>3. PICK f \in estate[t] : f.id = id /\ row(t, id) = {f}
  BY <1>2, RowIsFound
<1> DEFINE v == [source_table |-> t, record_id |-> id, data |-> f,
                 highlighted |-> _highlights(t, f), cited_in |-> cited_in(t, id),
                 related |-> _related(t, f)]
<1>4. v \in report_records
  <2>1. v \in record_view(t, id)
    BY <1>3 DEF record_view
  <2>2. ex \in UNION {g.exhibits : g \in publicados}
    OBVIOUS
  <2> HIDE DEF v
  <2> QED BY <2>1, <2>2 DEF report_records
<1>5. ex.fila.espacios \/ h \in cited_in(t, id)
  BY DEF cited_in
<1>6. ASSUME NEW r \in _related(t, f), NEW suya \in record_view(r[1], r[2]), ~Repetida(r[1], r[2])
      PROVE  <<t, id>> \in suya.related \/ Cardinality(suya.related) = MAX_RELATED
  <2>1. PICK g \in row(r[1], r[2]) : suya.related = _related(r[1], g)
    BY DEF record_view
  <2>2. PICK p \in Existentes(r[1], g) : p[2] = <<t, f.id>>
    BY <1>2, <1>3, <1>6, RelatedLeadBack
  <2>3. r[1] \in Tablas
    <3>1. PICK q \in Existentes(t, f) : r = q[2]
      BY DEF _related
    <3>2. q \in (1..5) \X (Tablas \X Nat)
      BY <1>2, <3>1, RelatedAre
    <3> QED BY <3>1, <3>2
  <2>4. p[2] \in _related(r[1], g) \/ Cardinality(_related(r[1], g)) = MAX_RELATED
    BY <2>3, RelatedShown
  <2> QED BY <1>3, <2>1, <2>2, <2>4
<1>7. v.source_table = t /\ v.record_id = id /\ v.cited_in = cited_in(t, id) /\ v.related = _related(t, f)
  OBVIOUS
<1> HIDE DEF v
<1> QED BY <1>4, <1>5, <1>6, <1>7

\* A search shows an accused, or there are more of them than it shows.
LEMMA AccusedAreFirst ==
    ASSUME ViewInv, Abierto, NEW h \in publicados, NEW id \in entities(h)
    PROVE  \/ id \in entity_hits(id[1])
           \/ Cardinality({otra \in entities_by_status("accused") : otra[1] = id[1]})
                 > SEARCH_ENTITY_LIMIT
<1> DEFINE antes == {otra \in Encontradas(id[1]) : _STATUS_ORDER(otra) <= _STATUS_ORDER(id)}
           acusadas == {otra \in entities_by_status("accused") : otra[1] = id[1]}
<1>1. AuditInv /\ fase = "fin" /\ publicados \subseteq hallazgos
  BY DEF ViewInv, AuditInv, InOrder, OpenAtTheEnd
<1>2. \A x : (\E g \in publicados : x \in entities(g)) <=> entity_status(x) = "accused"
  BY DEF entity_status
<1>3. \A x : /\ _STATUS_ORDER(x) \in {0, 1, 2}
             /\ _STATUS_ORDER(x) = 0 <=> entity_status(x) = "accused"
  BY DEF _STATUS_ORDER
<1>4. \A x : entity_status(x) = "accused" => x \notin company_id /\ x \in flagged
  <2> SUFFICES ASSUME NEW x, entity_status(x) = "accused"
               PROVE  x \notin company_id /\ x \in flagged
    OBVIOUS
  <2>1. PICK g \in publicados : x \in entities(g)
    BY <1>2
  <2> QED BY <1>1, <2>1, WhoIsAccused DEF flagged
<1>5. antes = acusadas
  <2>1. entity_status(id) = "accused"
    BY <1>2
  <2>2. _STATUS_ORDER(id) = 0
    BY <1>3, <2>1
  <2>3. \A x : _STATUS_ORDER(x) <= _STATUS_ORDER(id) <=> entity_status(x) = "accused"
    BY <1>3, <2>2
  <2>4. \A x : x \in antes <=> x \in catalogo \cup flagged /\ x[1] = id[1] /\ entity_status(x) = "accused"
    BY <2>3 DEF Encontradas
  <2>5. \A x : x \in acusadas <=> /\ x \in (catalogo \cup flagged) \ company_id
                                  /\ x[1] = id[1] /\ entity_status(x) = "accused"
    BY DEF entities_by_status, entity_population
  <2> HIDE DEF antes, acusadas
  <2> QED BY <1>4, <2>4, <2>5
<1>6. Cardinality(acusadas) \in Nat
  <2>1. acusadas \subseteq entity_population
    BY DEF entities_by_status
  <2> HIDE DEF acusadas
  <2>2. IsFiniteSet(acusadas)
    BY <1>1, <2>1, PopulationIsFinite, FS_Subset
  <2> QED BY <2>2, FS_CardinalityType
<1>7. id \in Encontradas(id[1])
  BY <1>2, <1>4 DEF Encontradas
<1>8. Cardinality(antes) <= SEARCH_ENTITY_LIMIT => id \in entity_hits(id[1])
  BY <1>7 DEF entity_hits
<1> HIDE DEF antes, acusadas
<1>9. Cardinality(acusadas) <= SEARCH_ENTITY_LIMIT \/ Cardinality(acusadas) > SEARCH_ENTITY_LIMIT
  BY <1>6, PagesHaveASize
<1> QED BY <1>5, <1>8, <1>9 DEF acusadas

\* Whoever reads the case file finds the evidence of each finding, and from the
\* name of an accused comes to it (views.py, get_report and search): the ids
\* that the audit cites are those that the index looks up.
THEOREM EvidenceShown == ViewSpec => []EvidenceIsShown
<1>1. ASSUME ViewInv, OneIndex
      PROVE  EvidenceIsShown
  <2> SUFFICES ASSUME Leido, NEW h \in publicados
               PROVE  /\ \A ex \in h.exhibits : \E v \in report_records :
                            /\ v.source_table = ex.tabla /\ v.record_id = ex.fila.id
                            /\ ex.fila.espacios \/ h \in v.cited_in
                            /\ \A r \in v.related : \A suya \in record_view(r[1], r[2]) :
                                  \/ <<ex.tabla, ex.fila.id>> \in suya.related
                                  \/ Cardinality(suya.related) = MAX_RELATED
                                  \/ Repetida(r[1], r[2])
                      /\ \A id \in entities(h) :
                            \/ ConEspacios(id)
                            \/ /\ h \in report_entities[id].finding_indexes
                               /\ h \in appears_in(id).finding
                               /\ \/ id \in entity_hits(id[1])
                                  \/ Cardinality({otra \in entities_by_status("accused") :
                                                     otra[1] = id[1]}) > SEARCH_ENTITY_LIMIT
                               /\ \/ id \notin catalogo /\ CitaDudosa(h)
                                  \/ /\ h \in appears_in(id).exhibit
                                     /\ \E v \in report_records :
                                           v.highlighted /\ h \in v.cited_in
                                              /\ _names_accused(v.source_table, v.data, {id})
    BY DEF EvidenceIsShown
  <2>1. Abierto /\ h \in hallazgos
    BY <1>1 DEF Leido, ViewInv, AuditInv, InOrder
  <2>2. ASSUME NEW id \in entities(h), ~ConEspacios(id)
        PROVE  /\ h \in report_entities[id].finding_indexes
               /\ h \in appears_in(id).finding
               /\ \/ id \in entity_hits(id[1])
                  \/ Cardinality({otra \in entities_by_status("accused") : otra[1] = id[1]})
                        > SEARCH_ENTITY_LIMIT
               /\ \/ id \notin catalogo /\ CitaDudosa(h)
                  \/ /\ h \in appears_in(id).exhibit
                     /\ \E v \in report_records :
                           v.highlighted /\ h \in v.cited_in
                              /\ _names_accused(v.source_table, v.data, {id})
    <3>1. h \in finding_indexes(id)
      BY DEF finding_indexes
    <3>2. h \in report_entities[id].finding_indexes
      <4>1. id \in flagged
        BY DEF flagged
      <4>2. report_entities[id] = entity_view(id)
        BY <4>1 DEF report_entities
      <4> QED BY <3>1, <4>2 DEF entity_view
    <3>3. h \in appears_in(id).finding
      BY <3>1 DEF appears_in
    <3>4. CASE id \in catalogo \/ ~CitaDudosa(h)
      <4>1. PICK ex \in h.exhibits : Nombra(h, ex, id)
        BY <1>1, <2>1, <2>2, <3>4, AccusedInRecords
      <4> QED BY <1>1, <2>1, <3>2, <3>3, <4>1, NamedIsShown, AccusedAreFirst
    <3>5. CASE id \notin catalogo /\ CitaDudosa(h)
      BY <1>1, <2>1, <3>2, <3>3, <3>5, AccusedAreFirst
    <3> QED BY <3>4, <3>5
  <2>3. \A ex \in h.exhibits : \E v \in report_records :
            /\ v.source_table = ex.tabla /\ v.record_id = ex.fila.id
            /\ ex.fila.espacios \/ h \in v.cited_in
            /\ \A r \in v.related : \A suya \in record_view(r[1], r[2]) :
                  \/ <<ex.tabla, ex.fila.id>> \in suya.related
                  \/ Cardinality(suya.related) = MAX_RELATED
                  \/ Repetida(r[1], r[2])
    BY <1>1, <2>1, ExhibitIsShown
  <2> QED BY <2>2, <2>3
<1>2. PageInv => OneIndex
  BY DEF PageInv
<1> QED BY <1>1, <1>2, ViewInvariant, PageInvariant, PTL

=============================================================================
