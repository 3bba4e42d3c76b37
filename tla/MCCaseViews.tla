----------------------------- MODULE MCCaseViews -----------------------------
(* Estates for the checks of Assembler and CaseViews: two vendors, 1 and 3, an *)
(* employee, 7, and the company, 2, whose account 9 is in no catalog.          *)
EXTENDS CaseViews

Pesos(n) == n * 100 * Centavo

\* The account of 3 is its own, or that of 1, or that of the employee; its RFC
\* was uploaded with a space after it in the second case.
Proveedor(id, alta, clabe, espacios) ==
    [id |-> id, alta |-> alta, clabe |-> clabe, espacios |-> espacios]
MCVendors ==
    {{Proveedor(1, 5, 1, FALSE), Proveedor(3, 0, c, c = 1)} : c \in {1, 3, 5}}

\* The RFC of 1 is in two rows, of two accounts.
MCRepetidos == {{Proveedor(1, 5, 4, FALSE)} \cup v : v \in MCVendors}

Factura(id, emisor, receptor, total) ==
    [id |-> id, emisor |-> emisor, receptor |-> receptor, fecha |-> 6, total |-> total,
     espacios |-> FALSE]

\* With the first set the company has no more invoices than its vendor, with
\* the last one an id is repeated.  Two totals have a part of a centavo, another
\* one is nothing more.
MCInvoices ==
    {{Factura(1, 1, 2, Pesos(10) + 1)} \cup F :
        F \in {{}, {Factura(4, 2, 4, Pesos(10))}, {Factura(2, 3, 2, 0)}, {Factura(2, 3, 2, 1)},
               {Factura(2, 3, 2, Pesos(10) + 1), Factura(3, 4, 2, Pesos(10))},
               {Factura(1, 3, 2, Pesos(30)), Factura(4, 2, 4, Pesos(10))}}}
        \cup {{}}

Pago(id, origen, destino, espacios) ==
    [id |-> id, origen |-> origen, destino |-> destino, fecha |-> 5 + id,
     monto |-> Pesos(10),
     espacios |-> espacios]
Cuentas == {{}, {Pago(2, 9, 5, FALSE)},
            {Pago(2, 9, 5, FALSE), Pago(4, 1, 5, FALSE)}}
MCBankTxns == Cuentas \cup {{Pago(1, 9, 1, FALSE)} \cup B : B \in Cuentas} 
    \cup {{Pago(1, 9, 1, TRUE)}, {Pago(1, 9, 1, FALSE), Pago(5, 1, 1, FALSE)}}

Orden(id, rfc, solicita, aprueba) ==
    [id |-> id, rfc |-> rfc, solicita |-> solicita, aprueba |-> aprueba, fecha |-> 5,
     monto |-> Pesos(4), espacios |-> FALSE]
Contrato(id, rfc) == [id |-> id, rfc |-> rfc, fecha |-> 5, valor |-> Pesos(8),
                       espacios |-> FALSE]

\* Nobody has documents, 1 has, or both have; an order may have been asked for
\* by the one who approved it, and be for no vendor.
MCPapers ==
    {[o |-> {}, c |-> {}],
     [o |-> {Orden(1, Nadie, 8, 8)}, c |-> {}],
     [o |-> {Orden(1, 1, 7, 7)}, c |-> {Contrato(1, 1)}],
     [o |-> {Orden(1, 1, 8, 7), Orden(2, 3, 8, 7)}, c |-> {Contrato(1, 1), Contrato(2, 3)}]}

Lista(id, status) == [id |-> id, status |-> status, publicada |-> 8, espacios |-> FALSE]
MCEfos == {{}, {Lista(1, "presunto")}, {Lista(1, "definitivo"), Lista(3, "presunto")},
           {Lista(1, "presunto"), Lista(3, "definitivo")}}

DeTablas(v, i, b, p, e) ==
    [vendors |-> v, employees |-> {[id |-> 7, clabe |-> 5, fecha |-> 1, espacios |-> FALSE]},
     invoices |-> i, bank_txns |-> b, purchase_orders |-> p.o, contracts |-> p.c,
     efos_list |-> e]

MCEstates ==
    {DeTablas(v, i, b, p, e) :
        v \in MCVendors, i \in MCInvoices, b \in MCBankTxns, p \in MCPapers, e \in MCEfos}
\* Estates with a repeated RFC.
MCRepiten ==
    {DeTablas(v, i, b, [o |-> {}, c |-> {}], e) :
        v \in MCRepetidos,
        i \in {i \in MCInvoices : Cardinality(i) \in 1..2 /\ \A f \in i : f.total > 1},
        b \in MCBankTxns, e \in MCEfos}
MCTodas == MCEstates \cup MCRepiten

MCHojeables ==
    {e \in MCTodas :
        /\ e.purchase_orders = {} /\ Cardinality(e.bank_txns) > 1
        /\ \E l \in e.efos_list : l.id = 3 /\ l.status = "definitivo"}

MCFalibles == {"SHARED_CLABE_MULTI_RFC", "PAYMENT_TO_EMPLOYEE_ACCOUNT"}

Consulta(tabla, risk, cited, minimo) ==
    [tabla |-> tabla, risk |-> risk, cited |-> cited, amount_min |-> minimo]
MCConsultas ==
    {Consulta("invoices", "todas", FALSE, 0), Consulta("invoices", "todas", FALSE, Pesos(20)),
     Consulta("bank_txns", "accused", TRUE, 0), Consulta("entities", "todas", FALSE, 0)}
=============================================================================
