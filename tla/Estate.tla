-------------------------------- MODULE Estate --------------------------------
(***************************************************************************)
(* The data estate of the audited company (app/fraud/engine/estate.py and  *)
(* entidades.py): the tables as sets of rows, the queries the engine makes *)
(* of them, and the resolution of references to entities.                  *)
(*                                                                         *)
(* RFCs, CLABEs, ids and days are numbers; of RFCs and CLABEs only their   *)
(* order matters.  0 stands for one that is NULL: the queries leave it out *)
(* (a cell of spaces only, which they would not, is in no estate).  A      *)
(* person signs with the id of an employee, or with a number no employee   *)
(* has.                                                                    *)
(***************************************************************************)
EXTENDS Integers, Sequences, FiniteSets, FiniteSetsExt

VARIABLES
    estate,     \* the rows of each table
    empresa     \* the audited company: empresa_rfc and empresa_clabes

Nadie == 0
Tablas == {"invoices", "bank_txns", "purchase_orders", "contracts",
           "vendors", "efos_list", "employees"}
\* Their ids are RFCs, which registro looks up without spaces and case.
PorRfc == {"vendors", "efos_list"}

-----------------------------------------------------------------------------
(* Queries *)

vendors_por_rfc(rfc) == {v \in estate.vendors : v.id = rfc}
vendors_por_clabe(clabe) == {v \in estate.vendors : v.clabe = clabe}
employees_por_clabe(clabe) == {e \in estate.employees : e.clabe = clabe}
employees_por_nombre(nombre) == {e \in estate.employees : e.id = nombre}
efos_por_rfc(rfc) == {e \in estate.efos_list : e.id = rfc}
ordenes_por_rfc(rfc) == {o \in estate.purchase_orders : o.rfc = rfc}
contratos_por_rfc(rfc) == {c \in estate.contracts : c.rfc = rfc}
facturas_emitidas_por(rfc) == {i \in estate.invoices : i.emisor = rfc}
pagos_a_clabe(clabe) == {b \in estate.bank_txns : b.destino = clabe}

\* The latest orders that the person asked for or approved.
autorizaciones_de(nombre, limite) ==
    LET suyas == {o \in estate.purchase_orders : nombre \in {o.solicita, o.aprueba}}
        Despues(o) == {p \in suyas : \/ p.fecha > o.fecha
                                     \/ p.fecha = o.fecha /\ p.id < o.id}
    IN  {o \in suyas : Cardinality(Despues(o)) < limite}

\* The row that a citation names, if any.  The id of a citation has lost its
\* spaces, and registro compares it with the id of the row as it was uploaded.
registro(tabla, id) ==
    {fila \in estate[tabla] : fila.id = id /\ (tabla \in PorRfc \/ ~fila.espacios)}

-----------------------------------------------------------------------------
(* The audited company *)

Facturas(rfc) == {i \in estate.invoices : i.emisor = rfc}
Recibidas(rfc) == {i \in estate.invoices : i.receptor = rfc}
Veces(rfc) == Cardinality(Facturas(rfc)) + Cardinality(Recibidas(rfc))

\* The one RFC with the most invoices, the first in order if there are more.
_empresa_rfc ==
    LET rfcs == (UNION {{i.emisor, i.receptor} : i \in estate.invoices}) \ {Nadie}
        primeros == {r \in rfcs : \A q \in rfcs : Veces(q) <= Veces(r)}
    IN  IF rfcs = {} THEN {} ELSE {Min(primeros)}

\* The account outside the catalogs from which the catalogs are paid most,
\* and the accounts of the company if it is among its own vendors.
_empresa_clabes ==
    LET catalogo == {f.clabe : f \in estate.vendors \cup estate.employees} \ {Nadie}
        Pagos(c) == {b \in estate.bank_txns : b.origen = c /\ b.destino \in catalogo}
        origenes == {c \in {b.origen : b \in estate.bank_txns} \ (catalogo \cup {Nadie}) :
                        Pagos(c) # {}}
        primeros == {c \in origenes :
                        \A d \in origenes : Cardinality(Pagos(d)) <= Cardinality(Pagos(c))}
    IN  (IF origenes = {} THEN {} ELSE {Min(primeros)})
            \cup ({v.clabe : v \in {v \in estate.vendors : v.id \in _empresa_rfc}} \ {Nadie})

-----------------------------------------------------------------------------
(* Entities: what a reference in a signal stands for (Resolutor) *)

TIPOS_ACUSABLES == {"rfc", "employee"}
Entidad(tipo, canonico) == [tipo |-> tipo, canonico |-> canonico]

Rfc(rfc) ==
    IF rfc = Nadie THEN {} ELSE {Entidad(IF rfc \in empresa.rfc THEN "empresa" ELSE "rfc", rfc)}
Empleado(id) == {Entidad("employee", e) : e \in {id} \ {Nadie}}

Duenos(clabe) ==
    (UNION {Rfc(v.id) : v \in vendors_por_clabe(clabe)})
        \cup (UNION {Empleado(e.id) : e \in employees_por_clabe(clabe)})

\* Every owner of the account, or the account itself if it has none.
Clabe(clabe) ==
    CASE clabe = Nadie -> {}
      [] clabe # Nadie /\ clabe \in empresa.clabes ->
            {Entidad("empresa", c) : c \in IF empresa.rfc = {} THEN {clabe} ELSE empresa.rfc}
      [] OTHER -> IF Duenos(clabe) = {} THEN {Entidad("clabe", clabe)} ELSE Duenos(clabe)

Persona(nombre) ==
    IF employees_por_nombre(nombre) = {} THEN {Entidad("persona", nombre)}
                                         ELSE Empleado(nombre)

=============================================================================
