---------------------------- MODULE Ingest_proofs ----------------------------
(***************************************************************************)
(* Proofs about the ingestion: whatever files are sent, in whatever order, *)
(* the tables are those files, what can be started is usable, and the      *)
(* engine has what was sent.                                               *)
(***************************************************************************)
EXTENDS Ingest, FiniteSetTheorems, WellFoundedInduction, Integers, TLAPS

-----------------------------------------------------------------------------
(* The tables of the estate *)

LEMMA EightTables ==
    /\ DOMAIN TABLE_SPECS = 1..8
    /\ TABLE_SPECS[1].name = "vendors"
    /\ TABLE_SPECS[2].name = "invoices"
    /\ TABLE_SPECS[3].name = "ledger"
    /\ TABLE_SPECS[4].name = "bank_txns"
    /\ TABLE_SPECS[5].name = "purchase_orders"
    /\ TABLE_SPECS[6].name = "contracts"
    /\ TABLE_SPECS[7].name = "employees"
    /\ TABLE_SPECS[8].name = "efos_list"
  BY DEF TABLE_SPECS, Table

LEMMA ValuesAreFinite ==
    ASSUME NEW s, NEW n \in Nat, DOMAIN s = 1..n
    PROVE  IsFiniteSet(Range(s))
<1> DEFINE places == 1..n
           f == [i \in places |-> s[i]]
<1>1. IsFiniteSet(places)
  BY FS_Interval
<1>2. f \in Surjection(places, Range(s))
  BY DEF Surjection, Range
<1> HIDE DEF places, f
<1> QED BY <1>1, <1>2, FS_Surjection

\* A table has finitely many columns, and has columns.
LEMMA ColumnsAreFinite ==
    \A i \in 1..8 : IsFiniteSet(TABLE_SPECS[i].columns) /\ TABLE_SPECS[i].columns # {}
<1>0. ASSUME NEW i, NEW keys, IsFiniteSet(Range(keys)), 1 \in DOMAIN keys,
             NEW others, IsFiniteSet(Range(others)),
             TABLE_SPECS[i].columns = Range(keys) \cup Range(others)
      PROVE  IsFiniteSet(TABLE_SPECS[i].columns) /\ TABLE_SPECS[i].columns # {}
  <2>1. keys[1] \in Range(keys)
    BY <1>0 DEF Range
  <2> QED BY <1>0, <2>1, FS_Union
<1> DEFINE Finite(i) == IsFiniteSet(TABLE_SPECS[i].columns) /\ TABLE_SPECS[i].columns # {}
<1>1. Finite(1)
  <2> DEFINE keys == <<"rfc", "bank_clabe">>
             others == {"legal_name", "registered_date", "address", "category", "contact_email"}
             list == <<"legal_name", "registered_date", "address", "category", "contact_email">>
  <2>1. TABLE_SPECS[1].columns = Range(keys) \cup others
    BY DEF TABLE_SPECS, Table
  <2>2. others = Range(list)
    BY DEF Range
  <2>3. DOMAIN keys = 1..2 /\ DOMAIN list = 1..5 /\ 1 \in DOMAIN keys
    OBVIOUS
  <2> HIDE DEF keys, others, list
  <2>4. IsFiniteSet(Range(keys))
    BY ONLY <2>3, 2 \in Nat, ValuesAreFinite
  <2>5. IsFiniteSet(Range(list))
    BY ONLY <2>3, 5 \in Nat, ValuesAreFinite
  <2> QED BY <1>0, <2>1, <2>2, <2>3, <2>4, <2>5
<1>2. Finite(2)
  <2> DEFINE keys == <<"uuid", "issuer_rfc", "receiver_rfc", "issue_date", "total">>
             others == {"subtotal", "iva", "concepto_text", "uso_cfdi", "forma_pago", "metodo_pago", "status"}
             list == <<"subtotal", "iva", "concepto_text", "uso_cfdi", "forma_pago", "metodo_pago", "status">>
  <2>1. TABLE_SPECS[2].columns = Range(keys) \cup others
    BY DEF TABLE_SPECS, Table
  <2>2. others = Range(list)
    BY DEF Range
  <2>3. DOMAIN keys = 1..5 /\ DOMAIN list = 1..7 /\ 1 \in DOMAIN keys
    OBVIOUS
  <2> HIDE DEF keys, others, list
  <2>4. IsFiniteSet(Range(keys))
    BY ONLY <2>3, 5 \in Nat, ValuesAreFinite
  <2>5. IsFiniteSet(Range(list))
    BY ONLY <2>3, 7 \in Nat, ValuesAreFinite
  <2> QED BY <1>0, <2>1, <2>2, <2>3, <2>4, <2>5
<1>3. Finite(3)
  <2> DEFINE keys == <<"entry_id", "date", "account_code", "debit", "credit">>
             others == {"account_name", "description", "invoice_uuid", "cost_center", "approver"}
             list == <<"account_name", "description", "invoice_uuid", "cost_center", "approver">>
  <2>1. TABLE_SPECS[3].columns = Range(keys) \cup others
    BY DEF TABLE_SPECS, Table
  <2>2. others = Range(list)
    BY DEF Range
  <2>3. DOMAIN keys = 1..5 /\ DOMAIN list = 1..5 /\ 1 \in DOMAIN keys
    OBVIOUS
  <2> HIDE DEF keys, others, list
  <2>4. IsFiniteSet(Range(keys))
    BY ONLY <2>3, 5 \in Nat, ValuesAreFinite
  <2>5. IsFiniteSet(Range(list))
    BY ONLY <2>3, 5 \in Nat, ValuesAreFinite
  <2> QED BY <1>0, <2>1, <2>2, <2>3, <2>4, <2>5
<1>4. Finite(4)
  <2> DEFINE keys == <<"txn_id", "date", "from_clabe", "to_clabe", "amount">>
             others == {"reference", "channel"}
             list == <<"reference", "channel">>
  <2>1. TABLE_SPECS[4].columns = Range(keys) \cup others
    BY DEF TABLE_SPECS, Table
  <2>2. others = Range(list)
    BY DEF Range
  <2>3. DOMAIN keys = 1..5 /\ DOMAIN list = 1..2 /\ 1 \in DOMAIN keys
    OBVIOUS
  <2> HIDE DEF keys, others, list
  <2>4. IsFiniteSet(Range(keys))
    BY ONLY <2>3, 5 \in Nat, ValuesAreFinite
  <2>5. IsFiniteSet(Range(list))
    BY ONLY <2>3, 2 \in Nat, ValuesAreFinite
  <2> QED BY <1>0, <2>1, <2>2, <2>3, <2>4, <2>5
<1>5. Finite(5)
  <2> DEFINE keys == <<"po_id", "vendor_rfc", "amount">>
             others == {"date", "requester", "approver", "description"}
             list == <<"date", "requester", "approver", "description">>
  <2>1. TABLE_SPECS[5].columns = Range(keys) \cup others
    BY DEF TABLE_SPECS, Table
  <2>2. others = Range(list)
    BY DEF Range
  <2>3. DOMAIN keys = 1..3 /\ DOMAIN list = 1..4 /\ 1 \in DOMAIN keys
    OBVIOUS
  <2> HIDE DEF keys, others, list
  <2>4. IsFiniteSet(Range(keys))
    BY ONLY <2>3, 3 \in Nat, ValuesAreFinite
  <2>5. IsFiniteSet(Range(list))
    BY ONLY <2>3, 4 \in Nat, ValuesAreFinite
  <2> QED BY <1>0, <2>1, <2>2, <2>3, <2>4, <2>5
<1>6. Finite(6)
  <2> DEFINE keys == <<"contract_id", "vendor_rfc", "value">>
             others == {"start_date", "scope_text"}
             list == <<"start_date", "scope_text">>
  <2>1. TABLE_SPECS[6].columns = Range(keys) \cup others
    BY DEF TABLE_SPECS, Table
  <2>2. others = Range(list)
    BY DEF Range
  <2>3. DOMAIN keys = 1..3 /\ DOMAIN list = 1..2 /\ 1 \in DOMAIN keys
    OBVIOUS
  <2> HIDE DEF keys, others, list
  <2>4. IsFiniteSet(Range(keys))
    BY ONLY <2>3, 3 \in Nat, ValuesAreFinite
  <2>5. IsFiniteSet(Range(list))
    BY ONLY <2>3, 2 \in Nat, ValuesAreFinite
  <2> QED BY <1>0, <2>1, <2>2, <2>3, <2>4, <2>5
<1>7. Finite(7)
  <2> DEFINE keys == <<"emp_id", "name", "bank_clabe">>
             others == {"role", "hire_date"}
             list == <<"role", "hire_date">>
  <2>1. TABLE_SPECS[7].columns = Range(keys) \cup others
    BY DEF TABLE_SPECS, Table
  <2>2. others = Range(list)
    BY DEF Range
  <2>3. DOMAIN keys = 1..3 /\ DOMAIN list = 1..2 /\ 1 \in DOMAIN keys
    OBVIOUS
  <2> HIDE DEF keys, others, list
  <2>4. IsFiniteSet(Range(keys))
    BY ONLY <2>3, 3 \in Nat, ValuesAreFinite
  <2>5. IsFiniteSet(Range(list))
    BY ONLY <2>3, 2 \in Nat, ValuesAreFinite
  <2> QED BY <1>0, <2>1, <2>2, <2>3, <2>4, <2>5
<1>8. Finite(8)
  <2> DEFINE keys == <<"rfc", "status">>
             others == {"legal_name", "publication_date"}
             list == <<"legal_name", "publication_date">>
  <2>1. TABLE_SPECS[8].columns = Range(keys) \cup others
    BY DEF TABLE_SPECS, Table
  <2>2. others = Range(list)
    BY DEF Range
  <2>3. DOMAIN keys = 1..2 /\ DOMAIN list = 1..2 /\ 1 \in DOMAIN keys
    OBVIOUS
  <2> HIDE DEF keys, others, list
  <2>4. IsFiniteSet(Range(keys))
    BY ONLY <2>3, 2 \in Nat, ValuesAreFinite
  <2>5. IsFiniteSet(Range(list))
    BY ONLY <2>3, 2 \in Nat, ValuesAreFinite
  <2> QED BY <1>0, <2>1, <2>2, <2>3, <2>4, <2>5
<1> HIDE DEF Finite
<1>9. \A i \in 1..8 : Finite(i)
  BY <1>1, <1>2, <1>3, <1>4, <1>5, <1>6, <1>7, <1>8
<1> QED BY <1>9 DEF Finite

\* Of what is not 0 the fractions are ordered.
LEMMA FractionsCompare ==
    ASSUME NEW a \in Nat, NEW b \in Nat, NEW c \in Nat,
           NEW x \in Nat \ {0}, NEW y \in Nat \ {0}, NEW z \in Nat \ {0},
           a * y <= b * x, b * z <= c * y
    PROVE  a * z <= c * x
<1>1. (a * y) * z <= (b * x) * z
  BY SMT
<1>2. (b * z) * x <= (c * y) * x
  BY SMT
<1>3. (a * y) * z = (a * z) * y /\ (b * x) * z = (b * z) * x /\ (c * y) * x = (c * x) * y
  BY SMT
<1>4. (a * z) * y <= (c * x) * y
  BY <1>1, <1>2, <1>3, SMT
<1> DEFINE p == a * z
           q == c * x
<1>5. p \in Nat /\ q \in Nat
  BY SMT
<1>6. p * y <= q * y
  BY <1>4
<1> HIDE DEF p, q
<1>7. p <= q
  <2> SUFFICES ASSUME p >= q + 1 PROVE FALSE
    BY <1>5
  <2>1. p * y >= (q + 1) * y
    BY <1>5, SMT
  <2>2. (q + 1) * y = q * y + y /\ q * y \in Nat
    BY <1>5, SMT
  <2> QED BY <1>5, <1>6, <2>1, <2>2, SMT
<1> QED BY <1>7 DEF p, q

\* Among some of eight fractions one is the greatest.
LEMMA OneIsGreatest ==
    ASSUME NEW F, F # {}, \A i \in F : i \in 1..8,
           NEW c \in [1..8 -> Nat], NEW s \in [1..8 -> Nat \ {0}]
    PROVE  \E i \in F : \A j \in F : c[j] * s[i] <= c[i] * s[j]
<1> DEFINE Best(i, S) == \A j \in S : c[j] * s[i] <= c[i] * s[j]
           Upto(k) == {i \in F : i <= k}
           Has(k) == Upto(k) = {} \/ \E i \in Upto(k) : Best(i, Upto(k))
<1>1. Has(0)
  OBVIOUS
<1>2. ASSUME NEW k \in 0..7, Has(k)
      PROVE  Has(k + 1)
  <2>1. CASE k + 1 \notin F
    <3>1. Upto(k + 1) = Upto(k)
      BY <2>1
    <3> QED BY <1>2, <3>1
  <2>2. CASE k + 1 \in F
    <3>1. Upto(k + 1) = Upto(k) \cup {k + 1}
      BY <2>2
    <3>2. c[k + 1] * s[k + 1] <= c[k + 1] * s[k + 1]
      BY <2>2
    <3>3. Upto(k) \subseteq 1..8 /\ k + 1 \in 1..8
      OBVIOUS
    <3> HIDE DEF Upto
    <3>4. CASE Upto(k) = {}
      BY <3>1, <3>2, <3>4
    <3>5. CASE Upto(k) # {}
      <4>1. PICK i \in Upto(k) : Best(i, Upto(k))
        BY <1>2, <3>5
      <4>2. i \in 1..8 /\ c[i] \in Nat /\ s[i] \in Nat \ {0}
            /\ c[k + 1] \in Nat /\ s[k + 1] \in Nat \ {0}
        BY <3>3
      <4>3. c[k + 1] * s[i] <= c[i] * s[k + 1] \/ c[i] * s[k + 1] <= c[k + 1] * s[i]
        BY <4>2
      <4>4. CASE c[k + 1] * s[i] <= c[i] * s[k + 1]
        <5>1. Best(i, Upto(k + 1))
          BY <3>1, <4>1, <4>4
        <5> QED BY <3>1, <5>1
      <4>5. CASE c[i] * s[k + 1] <= c[k + 1] * s[i]
        <5>1. ASSUME NEW j \in Upto(k) PROVE c[j] * s[k + 1] <= c[k + 1] * s[j]
          <6>0. j \in 1..8
            BY <3>3
          <6>1. c[j] \in Nat /\ s[j] \in Nat \ {0} /\ c[j] * s[i] <= c[i] * s[j]
            BY <4>1, <6>0
          <6> QED BY <4>2, <4>5, <6>1, FractionsCompare
        <5>2. Best(k + 1, Upto(k + 1))
          BY <3>1, <3>2, <5>1
        <5> QED BY <3>1, <5>2
      <4> QED BY <4>3, <4>4, <4>5
    <3> QED BY <3>4, <3>5
  <2> QED BY <2>1, <2>2
<1> HIDE DEF Has
<1>3. Has(1) /\ Has(2) /\ Has(3) /\ Has(4)
  <2>1. Has(0 + 1)
    BY <1>1, <1>2
  <2>2. Has(1 + 1)
    BY <1>2, <2>1
  <2>3. Has(2 + 1)
    BY <1>2, <2>2
  <2>4. Has(3 + 1)
    BY <1>2, <2>3
  <2> QED BY <2>1, <2>2, <2>3, <2>4
<1>4. Has(8)
  <2>1. Has(4 + 1)
    BY <1>2, <1>3
  <2>2. Has(5 + 1)
    BY <1>2, <2>1
  <2>3. Has(6 + 1)
    BY <1>2, <2>2
  <2>4. Has(7 + 1)
    BY <1>2, <2>3
  <2> QED BY <2>4
<1>5. Upto(8) = F
  OBVIOUS
<1> QED BY <1>4, <1>5 DEF Has

\* A set of numbers that is not empty has a least one.
LEMMA MinIsOfTheSet ==
    ASSUME NEW B, B # {}, \A n \in B : n \in Nat
    PROVE  Min(B) \in B
<1> DEFINE R == OpToRel(<, Nat)
<1>1. PICK n \in B : \A m \in B : ~ (<<m, n>> \in R)
  <2>1. IsWellFoundedOn(R, Nat)
    BY NatLessThanWellFounded
  <2>2. B \in SUBSET Nat
    OBVIOUS
  <2> HIDE DEF R
  <2> QED BY <2>1, <2>2, WFMin
<1>2. \A m \in B : ~ (m < n)
  BY <1>1 DEF OpToRel
<1>3. \E x \in B : \A m \in B : x <= m
  BY <1>2
<1> QED BY <1>3 DEF Min

\* Each table has a name of its own.
LEMMA TableNames ==
    /\ NoTable \notin Tables
    /\ \A i \in 1..8 : TABLE_SPECS[i].name \in Tables
    /\ \A t \in Tables : SpecOf(t).name = t /\ \E i \in 1..8 : SpecOf(t) = TABLE_SPECS[i]
<1>1. Range(TABLE_SPECS) = {TABLE_SPECS[i] : i \in 1..8}
  BY EightTables DEF Range
<1>2. \A i \in 1..8 : TABLE_SPECS[i].name # NoTable
  <2> DEFINE names == {"vendors", "invoices", "ledger", "bank_txns", "purchase_orders",
                       "contracts", "employees", "efos_list"}
  <2>1. \A name \in names : name # NoTable
    BY Zenon DEF NoTable
  <2>2. \A i \in 1..8 : TABLE_SPECS[i].name \in names
    BY EightTables
  <2> QED BY <2>1, <2>2
<1>3. \A t \in Tables : \E i \in 1..8 : t = TABLE_SPECS[i].name
  BY <1>1 DEF Tables
<1>4. \A i \in 1..8 : TABLE_SPECS[i].name \in Tables
  BY <1>1 DEF Tables
<1>5. ASSUME NEW t \in Tables
      PROVE  SpecOf(t) \in Range(TABLE_SPECS) /\ SpecOf(t).name = t
  <2>1. \E spec \in Range(TABLE_SPECS) : spec.name = t
    BY <1>1, <1>3
  <2> QED BY <2>1 DEF SpecOf
<1> QED BY <1>1, <1>2, <1>3, <1>4, <1>5

\* The columns of a file are those of one table, or of none.
LEMMA HeaderNamesATable ==
    ASSUME NEW header
    PROVE  table_for_header(header) \in Tables \cup {NoTable}
<1> DEFINE present == Range(header)
           Common(i) == Cardinality(present \cap TABLE_SPECS[i].columns)
           Size(i) == Cardinality(TABLE_SPECS[i].columns)
           fitting == {i \in DOMAIN TABLE_SPECS : /\ TABLE_SPECS[i].key_columns \subseteq present
                                                  /\ 10 * Common(i) >= 6 * Size(i)}
           best == {i \in fitting : \A j \in fitting : Common(j) * Size(i) <= Common(i) * Size(j)}
           common == [i \in 1..8 |-> Common(i)]
           size == [i \in 1..8 |-> Size(i)]
<1>1. table_for_header(header) =
        IF fitting = {} THEN NoTable ELSE TABLE_SPECS[Min(best)].name
  BY DEF table_for_header
<1>2. \A i \in fitting : i \in 1..8
  BY EightTables
<1>3. ASSUME NEW i \in 1..8
      PROVE  Common(i) \in Nat /\ Size(i) \in Nat \ {0}
  <2> DEFINE columns == TABLE_SPECS[i].columns
             some == present \cap columns
  <2>1. IsFiniteSet(columns) /\ columns # {} /\ some \subseteq columns
    BY ColumnsAreFinite
  <2> HIDE DEF columns, some
  <2>2. Cardinality(some) \in Nat /\ Cardinality(columns) \in Nat /\ Cardinality(columns) # 0
    BY <2>1, FS_Subset, FS_CardinalityType, FS_EmptySet
  <2> QED BY <2>2 DEF columns, some
<1>4. common \in [1..8 -> Nat] /\ size \in [1..8 -> Nat \ {0}]
  BY <1>3
<1>5. ASSUME fitting # {}
      PROVE  best # {}
  <2>1. \A i \in 1..8 : common[i] = Common(i) /\ size[i] = Size(i)
    OBVIOUS
  <2> HIDE DEF common, size, Common, Size, fitting
  <2>2. PICK i \in fitting : \A j \in fitting : common[j] * size[i] <= common[i] * size[j]
    BY <1>2, <1>4, <1>5, OneIsGreatest
  <2>3. \A j \in fitting : Common(j) * Size(i) <= Common(i) * Size(j)
    BY <1>2, <2>1, <2>2
  <2> QED BY <2>3
<1>6. \A i \in best : i \in 1..8
  BY <1>2
<1> HIDE DEF best, fitting
<1>7. CASE fitting # {}
  <2>1. Min(best) \in 1..8
    BY <1>5, <1>6, <1>7, MinIsOfTheSet
  <2> QED BY <1>1, <1>7, <2>1, TableNames
<1> QED BY <1>1, <1>7

LEMMA FilesAreOfTables ==
    ASSUME NEW file \in Entry
    PROVE  TableOf(file) \in Tables \cup {NoTable}
  BY HeaderNamesATable DEF TableOf, Entry

-----------------------------------------------------------------------------
(* What is parsed of a file *)

\* Every row that is kept has a place of its own.
LEMMA PlacesAreTaken ==
    ASSUME NEW K \in SUBSET Nat, IsFiniteSet(K), NEW n \in 1..Cardinality(K)
    PROVE  \E i \in K : Cardinality({j \in K : j <= i}) = n
<1> DEFINE Upto(i) == {j \in K : j <= i}
           place == [i \in K |-> Cardinality(Upto(i))]
           places == 1..Cardinality(K)
<1>1. Cardinality(K) \in Nat
  BY FS_CardinalityType
<1>2. ASSUME NEW i \in K
      PROVE  IsFiniteSet(Upto(i)) /\ Cardinality(Upto(i)) \in places
  <2>1. Upto(i) \subseteq K /\ i \in Upto(i)
    OBVIOUS
  <2> HIDE DEF Upto
  <2>2. IsFiniteSet(Upto(i)) /\ Cardinality(Upto(i)) <= Cardinality(K)
    BY <2>1, FS_Subset
  <2>3. Cardinality(Upto(i)) \in Nat /\ Cardinality(Upto(i)) # 0
    BY <2>1, <2>2, FS_CardinalityType, FS_EmptySet
  <2> QED BY <1>1, <2>2, <2>3
<1>3. ASSUME NEW i \in K, NEW k \in K, i < k
      PROVE  Cardinality(Upto(i)) # Cardinality(Upto(k))
  <2>1. Upto(i) \subseteq Upto(k) /\ k \in Upto(k) /\ k \notin Upto(i)
    <3>1. \A j \in K : j <= i => j <= k
      BY <1>3
    <3>2. ~(k <= i) /\ k <= k
      BY <1>3
    <3> QED BY <3>1, <3>2
  <2>2. IsFiniteSet(Upto(k))
    BY <1>2
  <2> HIDE DEF Upto
  <2> QED BY <2>1, <2>2, FS_Subset
<1>4. place \in Injection(K, places)
  <2>1. place \in [K -> places]
    BY <1>2
  <2>2. ASSUME NEW i \in K, NEW k \in K, place[i] = place[k]
        PROVE  i = k
    <3>1. Cardinality(Upto(i)) = Cardinality(Upto(k))
      BY <2>2
    <3> HIDE DEF Upto
    <3>2. ~(i < k) /\ ~(k < i)
      BY <1>3, <3>1
    <3> QED BY <3>2
  <2> QED BY <2>1, <2>2 DEF Injection, IsInjective
<1>5. IsFiniteSet(places) /\ Cardinality(places) = Cardinality(K)
  BY <1>1, FS_Interval
<1>6. place \in Surjection(K, places)
  <2> HIDE DEF place, places
  <2> QED BY <1>4, <1>5, FS_Injection
<1>7. PICK i \in K : place[i] = n
  BY <1>6 DEF Surjection
<1> QED BY <1>7

\* The records of a file are rows of it.
LEMMA RecordsAreRows ==
    ASSUME NEW file \in Entry
    PROVE  /\ Len(Records(file)) \in Nat
           /\ DOMAIN Records(file) = 1..Len(Records(file))
           /\ Records(file) = <<>> <=> Len(Records(file)) = 0
           /\ \A m \in DOMAIN Records(file) : Records(file)[m] \in Seq(Cells)
<1> DEFINE kept == {i \in DOMAIN file.rows :
                       \E j \in DOMAIN file.rows[i] : file.rows[i][j] \notin Blanks}
           Place(i) == Cardinality({j \in kept : j <= i})
           n == Cardinality(kept)
           At(m) == CHOOSE i \in kept : Place(i) = m
           Row(m) == file.rows[At(m)]
<1>1. file.rows \in Seq(Seq(Cells))
  <2>1. file.rows \in Seq(Seq(Cells) \ {<<>>})
    BY DEF Entry
  <2> QED BY <2>1
<1>2. IsFiniteSet(kept) /\ kept \in SUBSET Nat /\ kept \subseteq DOMAIN file.rows
  <2> DEFINE places == 1..Len(file.rows)
  <2>1. kept \subseteq places /\ Len(file.rows) \in Nat /\ kept \subseteq DOMAIN file.rows
    BY <1>1
  <2>2. IsFiniteSet(places) /\ \A i \in places : i \in Nat
    BY <2>1, FS_Interval
  <2> HIDE DEF kept, places
  <2> QED BY <2>1, <2>2, FS_Subset
<1>3. n \in Nat
  <2> HIDE DEF kept
  <2> QED BY <1>2, FS_CardinalityType
<1>4. Records(file) = [m \in 1..n |-> Row(m)]
  BY DEF Records
<1>5. \A m \in 1..n : Row(m) \in Seq(Cells)
  <2> TAKE m \in 1..n
  <2>1. \E i \in kept : Place(i) = m
    <3> HIDE DEF kept
    <3> QED BY <1>2, PlacesAreTaken
  <2> HIDE DEF kept
  <2>2. At(m) \in kept
    BY <2>1
  <2>3. \A i \in DOMAIN file.rows : file.rows[i] \in Seq(Cells)
    BY <1>1
  <2> HIDE DEF At
  <2> QED BY <1>2, <2>2, <2>3
<1> HIDE DEF n, Row
<1>6. Records(file) \in Seq({Row(m) : m \in 1..n}) /\ Len(Records(file)) = n
  BY <1>3, <1>4
<1> QED BY <1>3, <1>4, <1>5, <1>6

\* If no row of it is blank, they are all its rows.
LEMMA NoneIsDropped ==
    ASSUME NEW file \in Entry,
           \A i \in DOMAIN file.rows : ~(Range(file.rows[i]) \subseteq Blanks)
    PROVE  Records(file) = file.rows
<1> DEFINE kept == {i \in DOMAIN file.rows :
                       \E j \in DOMAIN file.rows[i] : file.rows[i][j] \notin Blanks}
           Place(i) == Cardinality({j \in kept : j <= i})
           n == Len(file.rows)
           At(m) == CHOOSE i \in kept : Place(i) = m
<1>1. n \in Nat /\ DOMAIN file.rows = 1..n /\ file.rows = [i \in 1..n |-> file.rows[i]]
  <2>1. file.rows \in Seq(Seq(Cells) \ {<<>>})
    BY DEF Entry
  <2>2. PICK rows \in Seq(Seq(Cells) \ {<<>>}) : rows = file.rows
    BY <2>1
  <2>3. rows = [i \in 1..Len(rows) |-> rows[i]]
    OBVIOUS
  <2> QED BY <2>2, <2>3
<1>2. kept = 1..n
  <2>1. ASSUME NEW i \in DOMAIN file.rows
        PROVE  \E j \in DOMAIN file.rows[i] : file.rows[i][j] \notin Blanks
    BY DEF Range
  <2>2. kept = DOMAIN file.rows
    BY <2>1
  <2> QED BY <1>1, <2>2
<1> HIDE DEF kept
<1>3. Cardinality(kept) = n
  <2>1. Cardinality(1..n) = n
    <3> HIDE DEF n
    <3> QED BY <1>1, FS_Interval
  <2> QED BY <1>2, <2>1
<1>4. ASSUME NEW i \in 1..n PROVE Place(i) = i
  <2>1. {j \in kept : j <= i} = 1..i
    BY <1>1, <1>2
  <2>2. Cardinality(1..i) = i
    BY <1>1, FS_Interval
  <2> QED BY <2>1, <2>2
<1> HIDE DEF Place
<1>5. ASSUME NEW m \in 1..n PROVE At(m) = m
  BY <1>2, <1>4
<1>6. Records(file) = [m \in 1..Cardinality(kept) |-> file.rows[At(m)]]
  BY DEF Records, Place, kept
<1> QED
  <2> HIDE DEF At, n
  <2> QED BY <1>1, <1>3, <1>5, <1>6

\* A file keeps its rows, and those that have not its width are counted.
LEMMA ParsedAsSent ==
    ASSUME NEW file \in Entry
    PROVE  LET p == parse_csv(file)
               records == Records(file)
           IN  /\ p.file = file /\ p.header = file.header
               /\ DOMAIN p.rows = DOMAIN records /\ Len(p.rows) = Len(records)
               /\ p.rows = <<>> <=> records = <<>>
               /\ \A i \in DOMAIN records : p.rows[i] = Fit(records[i], Len(file.header))
               /\ (\E i \in DOMAIN records : Len(records[i]) # Len(file.header)) =>
                      p.malformed > 0
<1> DEFINE p == parse_csv(file)
           records == Records(file)
           width == Len(file.header)
           bad == {i \in DOMAIN records : Len(records[i]) # width}
           n == Len(records)
<1>1. /\ n \in Nat /\ DOMAIN records = 1..n /\ records = <<>> <=> n = 0
  BY RecordsAreRows
<1>2. /\ p.file = file /\ p.header = file.header
      /\ p.rows = [i \in DOMAIN records |-> Fit(records[i], width)]
      /\ p.malformed = Cardinality(bad)
  BY DEF parse_csv
<1>3. IsFiniteSet(bad)
  <2> DEFINE places == 1..n
  <2>1. IsFiniteSet(places)
    BY <1>1, FS_Interval
  <2>2. bad \subseteq places
    BY <1>1
  <2> HIDE DEF bad, places
  <2> QED BY <2>1, <2>2, FS_Subset
<1>4. bad # {} => Cardinality(bad) > 0
  <2> HIDE DEF bad
  <2>1. Cardinality(bad) \in Nat /\ (bad # {} => Cardinality(bad) # 0)
    BY <1>3, FS_CardinalityType, FS_EmptySet
  <2> QED BY <2>1
<1>5. (\E i \in DOMAIN records : Len(records[i]) # width) => p.malformed > 0
  BY <1>2, <1>4
<1> HIDE DEF p, records, width, bad
<1>6. Len(p.rows) = n /\ (p.rows = <<>> <=> n = 0)
  <2>1. p.rows = [i \in 1..n |-> Fit(records[i], width)]
    BY <1>1, <1>2
  <2>2. p.rows \in Seq({Fit(records[i], width) : i \in 1..n})
    BY <1>1, <2>1
  <2> QED BY <1>1, <2>1, <2>2
<1> QED BY <1>1, <1>2, <1>5, <1>6 DEF p, records, width

-----------------------------------------------------------------------------
(* How far the files have been read *)

\* Of the files sent, the first k have been read; those at the places in order
\* wait to be mapped, and the others of them that are considered have been.
Mapped(k, order, t) ==
    {i \in Considered : i <= k /\ i \notin Range(order) /\ TableOf(Sent[i]) = t}

Progress(k, order) ==
    /\ Sent \in Seq(Entry) /\ k \in 0..Len(Sent)
    /\ order \in Seq(Considered)
    /\ \A n, m \in DOMAIN order : order[n] = order[m] => n = m
    /\ \A n \in DOMAIN order : order[n] <= k
    /\ candidates \in Seq(Entry) /\ Len(candidates) = Len(order)
    /\ \A n \in DOMAIN order : candidates[n] = Sent[order[n]]
    /\ \A t \in Tables :
        /\ Len(sources[t]) = Cardinality(Mapped(k, order, t))
        /\ t \in DOMAIN tables <=> Mapped(k, order, t) # {}
        /\ t \in DOMAIN tables => \E i \in Mapped(k, order, t) : tables[t] = parse_csv(Sent[i])
    /\ \A i \in 1..k : i \notin Considered =>
        (Archives # {} /\ IsMetadata(Sent[i])) \/ Sent[i] \in ignored
    /\ \A i \in Mapped(k, order, NoTable) : Sent[i] \in ignored

AllRead == \E k \in Nat, order \in Seq(Considered) : k = Len(Sent) /\ Progress(k, order)
AllMapped == \E k \in Nat : k = Len(Sent) /\ Progress(k, <<>>)

Received ==
    /\ candidates = <<>> /\ ignored = {} /\ code = "none"
    /\ sources = [t \in Tables |-> <<>>] /\ tables = Nothing

IngestInv ==
    /\ upload \in Uploads
    /\ sources \in [Tables -> Seq(Entry)] /\ DOMAIN tables \subseteq Tables
    /\ phase = "received" => Received
    /\ phase = "reading" =>
        /\ code = "none" /\ Archives # {}
        /\ \E k \in Nat, order \in Seq(Considered) :
            /\ Progress(k, order)
            /\ entries \in Seq(Entry) /\ Len(entries) = Len(Sent) - k
            /\ \A n \in DOMAIN entries : entries[n] = Sent[k + n]
    /\ phase = "mapping" => code = "none" /\ AllRead
    /\ Accepted =>
        /\ AllMapped /\ ~Duplicated
        /\ diagnostics = diagnose(tables)
        /\ code \notin {"duplicate_table", "no_tables_found"}
    /\ phase = "blocked" => Blocked
    /\ phase = "loaded" => ~Blocked /\ loaded = load_run_tables(tables)
    /\ code = "duplicate_table" => AllMapped /\ Duplicated
    /\ code = "no_tables_found" => AllMapped /\ DOMAIN tables = {}

LEMMA MappedAreFinite ==
    ASSUME Sent \in Seq(Entry), NEW k, NEW order, NEW t
    PROVE  IsFiniteSet(Mapped(k, order, t))
<1> DEFINE places == 1..Len(Sent)
<1>1. IsFiniteSet(places)
  BY FS_Interval
<1>2. Mapped(k, order, t) \subseteq places
  BY DEF Mapped, Considered
<1> HIDE DEF places
<1> QED BY <1>1, <1>2, FS_Subset

\* Nothing is different because the upload is the same.
LEMMA SameUpload ==
    ASSUME UNCHANGED upload
    PROVE  UNCHANGED <<Sent, Archives, Considered>>
  BY DEF Sent, Archives, Considered

LEMMA ProgressStays ==
    ASSUME UNCHANGED <<upload, candidates, sources, tables, ignored>>, NEW k, NEW order,
           Progress(k, order)
    PROVE  Progress(k, order)'
<1>1. UNCHANGED <<Sent, Archives, Considered>>
  BY SameUpload
<1> QED BY <1>1 DEF Progress, Mapped

\* A file of the archive has been read, and is not to be mapped.
LEMMA ReadPast ==
    ASSUME NEW k \in Nat, NEW order, Progress(k, order), k + 1 \in 1..Len(Sent),
           k + 1 \notin Considered, Archives # {},
           IsMetadata(Sent[k + 1]) \/ Sent[k + 1] \in ignored',
           ignored \subseteq ignored',
           UNCHANGED <<upload, candidates, sources, tables>>
    PROVE  Progress(k + 1, order)'
<1>1. UNCHANGED <<Sent, Archives, Considered>>
  BY SameUpload
<1>2. ASSUME NEW t PROVE Mapped(k + 1, order, t) = Mapped(k, order, t)
  <2>1. \A i \in Considered : i \in Nat
    BY DEF Considered, Progress
  <2>2. \A i \in Considered : i <= k + 1 <=> i <= k
    BY <2>1
  <2> QED BY <2>2 DEF Mapped
<1>3. \A t : Mapped(k + 1, order, t)' = Mapped(k, order, t)
  BY <1>1, <1>2 DEF Mapped
<1>4. \A i \in 1..(k + 1) : i \in 1..k \/ i = k + 1
  OBVIOUS
<1>5. \A n \in DOMAIN order : order[n] <= k + 1
  <2>1. order \in Seq(Considered) /\ \A i \in Considered : i \in Nat
    BY DEF Considered, Progress
  <2>2. \A n \in DOMAIN order : order[n] \in Nat /\ order[n] <= k
    BY <2>1 DEF Progress
  <2> QED BY <2>2
<1>6. k + 1 \in 0..Len(Sent)
  BY DEF Progress
<1> QED BY <1>1, <1>3, <1>4, <1>5, <1>6 DEF Progress

\* A file of the archive has been read, and waits to be mapped.
LEMMA ReadOne ==
    ASSUME NEW k \in Nat, NEW order, Progress(k, order), k + 1 \in 1..Len(Sent),
           k + 1 \in Considered, candidates' = Append(candidates, Sent[k + 1]),
           UNCHANGED <<upload, ignored, sources, tables>>
    PROVE  /\ Append(order, k + 1) \in Seq(Considered)
           /\ Progress(k + 1, Append(order, k + 1))'
<1> DEFINE longer == Append(order, k + 1)
<1>1. UNCHANGED <<Sent, Archives, Considered>>
  BY SameUpload
<1>2. /\ order \in Seq(Considered) /\ \A i \in Considered : i \in Nat
      /\ Len(order) \in Nat /\ DOMAIN order = 1..Len(order)
  BY DEF Considered, Progress
<1>3. /\ longer \in Seq(Considered) /\ Len(longer) = Len(order) + 1
      /\ DOMAIN longer = 1..(Len(order) + 1)
      /\ \A n \in DOMAIN order : longer[n] = order[n]
      /\ longer[Len(order) + 1] = k + 1
  BY <1>2
<1> HIDE DEF longer
<1>4. \A n \in DOMAIN longer : n \in DOMAIN order \/ n = Len(order) + 1
  BY <1>2, <1>3
<1>5. \A n \in DOMAIN order : order[n] \in Nat /\ order[n] <= k
  BY <1>2 DEF Progress
<1>6. \A n \in DOMAIN longer : longer[n] <= k + 1
  BY <1>3, <1>4, <1>5
<1>7. \A n, m \in DOMAIN longer : longer[n] = longer[m] => n = m
  <2>1. \A n \in DOMAIN order : longer[n] # k + 1
    BY <1>3, <1>5
  <2>2. \A n, m \in DOMAIN order : longer[n] = longer[m] => n = m
    BY <1>3 DEF Progress
  <2> QED BY <1>3, <1>4, <2>1, <2>2
<1>8. ASSUME NEW t PROVE Mapped(k + 1, longer, t) = Mapped(k, order, t)
  <2>1. \A i : i \in Range(longer) <=> i \in Range(order) \/ i = k + 1
    <3>1. DOMAIN order \subseteq DOMAIN longer /\ Len(order) + 1 \in DOMAIN longer
      BY <1>2, <1>3
    <3>2. ASSUME NEW i \in Range(longer) PROVE i \in Range(order) \/ i = k + 1
      <4>1. PICK n \in DOMAIN longer : longer[n] = i
        BY DEF Range
      <4> QED BY <1>3, <1>4, <4>1 DEF Range
    <3>3. k + 1 \in Range(longer)
      BY <1>3, <3>1 DEF Range
    <3>4. ASSUME NEW i \in Range(order) PROVE i \in Range(longer)
      <4>1. PICK n \in DOMAIN order : order[n] = i
        BY DEF Range
      <4> QED BY <1>3, <3>1, <4>1 DEF Range
    <3> QED BY <3>2, <3>3, <3>4
  <2>2. \A i \in Considered : i <= k + 1 /\ i # k + 1 <=> i <= k
    BY <1>2
  <2> QED BY <2>1, <2>2 DEF Mapped
<1>9. \A t : Mapped(k + 1, longer, t)' = Mapped(k, order, t)
  BY <1>1, <1>8 DEF Mapped
<1>10. /\ candidates' \in Seq(Entry) /\ Len(candidates') = Len(longer)
       /\ \A n \in DOMAIN longer : candidates'[n] = Sent[longer[n]]
  <2>1. Sent[k + 1] \in Entry /\ candidates \in Seq(Entry) /\ Len(candidates) = Len(order)
    BY DEF Progress
  <2>2. /\ candidates' \in Seq(Entry) /\ Len(candidates') = Len(order) + 1
        /\ \A n \in 1..Len(order) : candidates'[n] = candidates[n]
        /\ candidates'[Len(order) + 1] = Sent[k + 1]
    BY <2>1
  <2> QED BY <1>2, <1>3, <1>4, <2>2 DEF Progress
<1>11. k + 1 \in 0..Len(Sent)
  BY DEF Progress
<1>12. \A i \in 1..(k + 1) : i \in 1..k \/ i = k + 1
  OBVIOUS
<1>13. Progress(k + 1, longer)'
  <2>1. \A i \in 1..(k + 1) : i \notin Considered =>
            (Archives # {} /\ IsMetadata(Sent[i])) \/ Sent[i] \in ignored
    BY <1>12 DEF Progress
  <2>2. \A t \in Tables :
            /\ Len(sources[t]) = Cardinality(Mapped(k, order, t))
            /\ t \in DOMAIN tables <=> Mapped(k, order, t) # {}
            /\ t \in DOMAIN tables =>
                  \E i \in Mapped(k, order, t) : tables[t] = parse_csv(Sent[i])
    BY DEF Progress
  <2>3. Sent \in Seq(Entry) /\ \A i \in Mapped(k, order, NoTable) : Sent[i] \in ignored
    BY DEF Progress
  <2> QED BY <1>1, <1>3, <1>6, <1>7, <1>9, <1>10, <1>11, <2>1, <2>2, <2>3 DEF Progress
<1> QED BY <1>3, <1>13 DEF longer

\* The first of the files that wait has been mapped.
LEMMA MapOne ==
    ASSUME NEW k, NEW order, Progress(k, order), candidates # <<>>,
           sources \in [Tables -> Seq(Entry)],
           NEW file, file = Head(candidates), candidates' = Tail(candidates),
           NEW name, name = TableOf(file),
           \/ /\ name = NoTable
              /\ ignored' = ignored \cup {file} /\ UNCHANGED <<sources, tables>>
           \/ /\ name # NoTable
              /\ sources' = [sources EXCEPT ![name] = Append(@, file)]
              /\ tables' = [t \in DOMAIN tables \cup {name} |->
                                IF t = name THEN parse_csv(file) ELSE tables[t]]
              /\ UNCHANGED ignored,
           UNCHANGED upload
    PROVE  /\ Tail(order) \in Seq(Considered) /\ Progress(k, Tail(order))'
           /\ file \in Entry /\ name \in Tables \cup {NoTable}
<1> DEFINE rest == Tail(order)
           first == order[1]
<1>1. UNCHANGED <<Sent, Archives, Considered>>
  BY SameUpload
<1>2. /\ order \in Seq(Considered) /\ candidates \in Seq(Entry)
      /\ Len(order) \in Nat \ {0} /\ Len(candidates) = Len(order)
      /\ DOMAIN order = 1..Len(order) /\ 1 \in DOMAIN order
  <2>1. order \in Seq(Considered) /\ candidates \in Seq(Entry) /\ Len(candidates) = Len(order)
    BY DEF Progress
  <2>2. Len(candidates) \in Nat \ {0}
    BY <2>1
  <2> QED BY <2>1, <2>2
<1>3. /\ rest \in Seq(Considered) /\ Len(rest) = Len(order) - 1
      /\ DOMAIN rest = 1..(Len(order) - 1)
      /\ \A n \in DOMAIN rest : n + 1 \in DOMAIN order /\ rest[n] = order[n + 1]
  BY <1>2
<1>4. /\ candidates' \in Seq(Entry) /\ Len(candidates') = Len(order) - 1
      /\ \A n \in 1..(Len(order) - 1) : candidates'[n] = candidates[n + 1]
  BY <1>2
<1>5. /\ first \in Considered /\ file = Sent[first] /\ file = candidates[1]
      /\ first <= k /\ first \in Range(order)
  BY <1>2 DEF Progress, Range
<1>6. file \in Entry /\ name \in Tables \cup {NoTable}
  <2>1. file \in Entry
    BY <1>2, <1>5
  <2> QED BY <2>1, FilesAreOfTables
<1> HIDE DEF rest, first
<1>7. \A n, m \in DOMAIN rest : rest[n] = rest[m] => n = m
  <2>1. ASSUME NEW n \in DOMAIN rest, NEW m \in DOMAIN rest, rest[n] = rest[m]
        PROVE  n = m
    <3>1. n + 1 = m + 1
      BY <1>3, <2>1 DEF Progress
    <3> QED BY <1>2, <1>3, <3>1
  <2> QED BY <2>1
<1>8. \A i : i \in Range(order) <=> i \in Range(rest) \/ i = first
  <2>1. \A n \in DOMAIN order : n = 1 \/ (n - 1 \in DOMAIN rest /\ (n - 1) + 1 = n)
    BY <1>2, <1>3
  <2> QED BY <1>2, <1>3, <2>1 DEF Range, first
<1>9. first \notin Range(rest)
  <2>1. \A n \in DOMAIN rest : n + 1 # 1
    BY <1>2, <1>3
  <2> QED BY <1>2, <1>3, <2>1 DEF Range, first, Progress
<1>10. /\ \A n \in DOMAIN rest : rest[n] <= k
       /\ \A n \in DOMAIN rest : candidates'[n] = Sent[rest[n]]
  BY <1>2, <1>3, <1>4 DEF Progress
<1>11. \A t : Mapped(k, rest, t) = IF t = name THEN Mapped(k, order, t) \cup {first}
                                              ELSE Mapped(k, order, t)
  BY <1>5, <1>8, <1>9 DEF Mapped
<1>12. \A t : Mapped(k, rest, t)' = Mapped(k, rest, t)
  BY <1>1 DEF Mapped
<1>13. first \notin Mapped(k, order, name)
  BY <1>5 DEF Mapped
<1>14. ASSUME NEW t \in Tables
       PROVE  /\ Len(sources'[t]) = Cardinality(Mapped(k, rest, t))
              /\ t \in DOMAIN tables' <=> Mapped(k, rest, t) # {}
              /\ t \in DOMAIN tables' =>
                    \E i \in Mapped(k, rest, t) : tables'[t] = parse_csv(Sent[i])
  <2>1. /\ Len(sources[t]) = Cardinality(Mapped(k, order, t))
        /\ t \in DOMAIN tables <=> Mapped(k, order, t) # {}
        /\ t \in DOMAIN tables => \E i \in Mapped(k, order, t) : tables[t] = parse_csv(Sent[i])
    BY DEF Progress
  <2>2. CASE t # name
    <3>1. sources'[t] = sources[t] /\ (t \in DOMAIN tables' <=> t \in DOMAIN tables)
          /\ (t \in DOMAIN tables => tables'[t] = tables[t])
      BY <2>2
    <3> QED BY <1>11, <2>1, <2>2, <3>1
  <2>3. CASE t = name
    <3> DEFINE M == Mapped(k, order, t)
               more == M \cup {first}
    <3>1. name # NoTable
      BY <2>3, TableNames
    <3>2. sources'[t] = Append(sources[t], file) /\ t \in DOMAIN tables'
          /\ tables'[t] = parse_csv(Sent[first])
      BY <1>5, <2>3, <3>1
    <3>3. Len(sources'[t]) = Len(sources[t]) + 1
      BY <1>6, <3>2
    <3>4. IsFiniteSet(M) /\ first \notin M
      BY <1>13, <2>3, MappedAreFinite DEF Progress
    <3>5. Mapped(k, rest, t) = more
      BY <1>11, <2>3
    <3> HIDE DEF M
    <3>6. Cardinality(more) = Cardinality(M) + 1
      BY <3>4, FS_AddElement
    <3> QED BY <2>1, <3>2, <3>3, <3>5, <3>6 DEF M
  <2> QED BY <2>2, <2>3
<1>15. ignored \subseteq ignored' /\ \A i \in Mapped(k, rest, NoTable) : Sent[i] \in ignored'
  <2>1. \A i \in Mapped(k, order, NoTable) : Sent[i] \in ignored
    BY DEF Progress
  <2>2. CASE name = NoTable
    <3>1. file \in ignored' /\ ignored \subseteq ignored'
      BY <2>2
    <3> QED BY <1>5, <1>11, <2>1, <3>1
  <2>3. CASE name # NoTable
    <3>1. ignored' = ignored
      BY <2>3
    <3> QED BY <1>11, <2>1, <2>3, <3>1
  <2> QED BY <2>2, <2>3
<1>16. Progress(k, rest)'
  BY <1>1, <1>2, <1>3, <1>4, <1>7, <1>10, <1>12, <1>14, <1>15 DEF Progress
<1> QED BY <1>3, <1>6, <1>16 DEF rest

-----------------------------------------------------------------------------
(* The invariant *)

LEMMA InvInit == Init => IngestInv
<1> SUFFICES ASSUME Init PROVE IngestInv
  OBVIOUS
<1>1. sources \in [Tables -> Seq(Entry)] /\ DOMAIN tables = {}
  <2>1. <<>> \in Seq(Entry)
    OBVIOUS
  <2> QED BY <2>1 DEF Init, Nothing
<1>2. Received /\ upload \in Uploads /\ phase = "received" /\ ~Accepted
  BY DEF Init, Received, Accepted
<1>3. code \notin {"duplicate_table", "no_tables_found"}
  BY Zenon DEF Init
<1> QED BY <1>1, <1>2, <1>3 DEF IngestInv

\* What is of one shape is files or one archive.
LEMMA ShapesAreFiles ==
    ASSUME upload \in Uploads, Shape = "ok"
    PROVE  Sent \in Seq(Entry)
<1>1. upload \in Seq(Part)
  BY UploadsAreFiles
<1>2. CASE Archives # {}
  <2>1. 1 \in DOMAIN upload
    BY <1>1, <1>2 DEF Archives
  <2>2. upload[1].entries \in Seq(Entry)
    <3>1. upload[1] \in Part
      BY <1>1, <2>1
    <3> QED BY <3>1 DEF Part
  <2> QED BY <1>2, <2>2 DEF Sent
<1>3. CASE Archives = {}
  <2>1. \A part \in Parts : part.ext \in {"zip", "csv"}
    BY DEF Shape
  <2>2. ASSUME NEW i \in DOMAIN upload PROVE upload[i].entries[1] \in Entry
    <3>1. upload[i].ext = "csv"
      BY <1>3, <2>1 DEF Archives, Parts, Range
    <3>2. Len(upload[i].entries) = 1
      BY <3>1, UploadsAreFiles
    <3>3. upload[i] \in Part
      BY <1>1
    <3>4. upload[i].entries \in Seq(Entry)
      BY <3>3 DEF Part
    <3> QED BY <3>2, <3>4
  <2> DEFINE n == Len(upload)
  <2>3. n \in Nat /\ DOMAIN upload = 1..n
    BY <1>1
  <2>4. Sent = [i \in 1..n |-> upload[i].entries[1]]
    BY <1>3, <2>3 DEF Sent
  <2> HIDE DEF n
  <2> QED BY <2>2, <2>3, <2>4
<1> QED BY <1>2, <1>3

LEMMA ShapesHaveTheirCodes ==
    Shape \in {"no_files", "unsupported_format", "mixed_formats", "multiple_archives",
               "invalid_archive", "ok"}
  BY DEF Shape

\* Nothing has been read yet.
LEMMA StartReading ==
    ASSUME Sent \in Seq(Entry), Received
    PROVE  Progress(0, <<>>)
<1>1. \A t : Mapped(0, <<>>, t) = {}
  <2>1. \A i \in Considered : i \in 1..Len(Sent)
    BY DEF Considered
  <2> QED BY <2>1 DEF Mapped
<1>2. Cardinality({}) = 0 /\ DOMAIN tables = {}
  BY FS_EmptySet DEF Received, Nothing
<1>3. \A t \in Tables : Len(sources[t]) = 0
  BY DEF Received
<1>4. /\ <<>> \in Seq(Considered) /\ candidates \in Seq(Entry) /\ Len(candidates) = 0
      /\ DOMAIN <<>> = {} /\ Len(<<>>) = 0
  BY DEF Received
<1>5. 0 \in 0..Len(Sent) /\ 1..0 = {}
  OBVIOUS
<1> QED BY <1>1, <1>2, <1>3, <1>4, <1>5 DEF Progress

LEMMA InvOpenZip ==
    ASSUME IngestInv, OpenZip
    PROVE  IngestInv'
<1>1. UNCHANGED <<Sent, Archives, Considered>>
  BY SameUpload DEF OpenZip
<1>2. Received /\ Sent \in Seq(Entry) /\ upload \in Uploads
  BY ShapesAreFiles DEF IngestInv, OpenZip
<1>3. Progress(0, <<>>)
  BY <1>2, StartReading
<1>4. Progress(0, <<>>)'
  BY <1>3, ProgressStays DEF OpenZip
<1>5. /\ entries' = Sent' /\ Sent' \in Seq(Entry) /\ Len(entries') = Len(Sent') - 0
      /\ \A n \in DOMAIN entries' : entries'[n] = Sent'[0 + n]
  <2>1. entries' = Sent
    BY DEF OpenZip, Sent
  <2> QED BY <1>1, <1>2, <2>1
<1>6. /\ phase' = "reading" /\ ~Accepted' /\ Archives' # {}
      /\ code' \notin {"duplicate_table", "no_tables_found"} /\ code' = "none"
  <2>1. code' = "none"
    BY <1>2 DEF OpenZip, Received
  <2>2. code' \notin {"duplicate_table", "no_tables_found"}
    BY <2>1, Zenon
  <2> QED BY <1>1, <2>1, <2>2 DEF OpenZip, Accepted
<1>7. 0 \in Nat /\ <<>> \in Seq(Considered')
  OBVIOUS
<1>8. \E k \in Nat, order \in Seq(Considered') :
            /\ Progress(k, order)'
            /\ entries' \in Seq(Entry) /\ Len(entries') = Len(Sent') - k
            /\ \A n \in DOMAIN entries' : entries'[n] = Sent'[k + n]
  BY <1>4, <1>5, <1>7
<1> QED BY <1>6, <1>8 DEF IngestInv, OpenZip

\* Loose files all wait to be mapped.
LEMMA InvReadCsvs ==
    ASSUME IngestInv, _read_csvs
    PROVE  IngestInv'
<1>1. UNCHANGED <<Sent, Archives, Considered>>
  BY SameUpload DEF _read_csvs
<1>2. Received /\ Sent \in Seq(Entry) /\ upload \in Uploads /\ Archives = {}
  BY ShapesAreFiles DEF IngestInv, _read_csvs
<1>3. PICK n : n = Len(Sent)
  OBVIOUS
<1>4. PICK order : order = [i \in 1..n |-> i]
  OBVIOUS
<1>5. n \in Nat /\ DOMAIN Sent = 1..n /\ Considered = 1..n /\ candidates' = Sent
  BY <1>2, <1>3 DEF _read_csvs, Considered, Sent
<1>6. /\ order \in Seq(Considered) /\ DOMAIN order = 1..n /\ Len(order) = n
      /\ \A i \in 1..n : order[i] = i /\ i <= n
  BY <1>5, <1>4
<1>7. Range(order) = Considered
  BY <1>5, <1>6 DEF Range
<1>8. \A t : Mapped(n, order, t)' = {}
  BY <1>1, <1>7 DEF Mapped
<1>9. Cardinality({}) = 0 /\ DOMAIN tables' = {} /\ \A t \in Tables : Len(sources'[t]) = 0
  BY <1>2, FS_EmptySet DEF Received, Nothing, _read_csvs
<1>10. Progress(n, order)'
  <2>1. /\ Sent' \in Seq(Entry) /\ n \in 0..Len(Sent') /\ order \in Seq(Considered')
        /\ candidates' \in Seq(Entry) /\ Len(candidates') = Len(order)
    BY <1>1, <1>2, <1>5, <1>6, <1>3
  <2>2. \A i \in DOMAIN order : order[i] <= n /\ candidates'[i] = Sent'[order[i]]
    BY <1>1, <1>5, <1>6
  <2>3. \A i, j \in DOMAIN order : order[i] = order[j] => i = j
    BY <1>6
  <2>4. \A i \in 1..n : i \in Considered'
    BY <1>1, <1>5
  <2> QED BY <1>8, <1>9, <2>1, <2>2, <2>3, <2>4 DEF Progress
<1>11. phase' = "mapping" /\ ~Accepted' /\ code' = "none"
      /\ code' \notin {"duplicate_table", "no_tables_found"}
  <2>1. code' = "none"
    BY <1>2 DEF _read_csvs, Received
  <2>2. code' \notin {"duplicate_table", "no_tables_found"}
    BY <2>1, Zenon
  <2> QED BY <2>1, <2>2 DEF _read_csvs, Accepted
<1>12. AllRead'
  <2>1. n \in Nat /\ n = Len(Sent') /\ order \in Seq(Considered')
    BY <1>1, <1>3, <1>5, <1>6
  <2> QED BY <1>10, <2>1 DEF AllRead
<1> QED BY <1>11, <1>12 DEF IngestInv, _read_csvs

\* A turn of the loop over the archive reads one file of it.
LEMMA InvReadZip ==
    ASSUME IngestInv, _read_zip
    PROVE  IngestInv'
<1> DEFINE file == Head(entries)
<1>1. UNCHANGED <<Sent, Archives, Considered>>
  BY SameUpload DEF _read_zip, Reject
<1>2. phase = "reading" /\ entries # <<>> /\ code = "none" /\ Archives # {}
  BY DEF _read_zip, IngestInv
<1>3. PICK k \in Nat : \E order \in Seq(Considered) :
        /\ Progress(k, order)
        /\ entries \in Seq(Entry) /\ Len(entries) = Len(Sent) - k
        /\ \A n \in DOMAIN entries : entries[n] = Sent[k + n]
  BY <1>2 DEF IngestInv
<1>4. PICK order \in Seq(Considered) :
        /\ Progress(k, order)
        /\ entries \in Seq(Entry) /\ Len(entries) = Len(Sent) - k
        /\ \A n \in DOMAIN entries : entries[n] = Sent[k + n]
  BY <1>3
<1>5. /\ Sent \in Seq(Entry) /\ Len(Sent) \in Nat /\ k + 1 \in 1..Len(Sent)
      /\ file = Sent[k + 1]
      /\ Tail(entries) \in Seq(Entry) /\ Len(Tail(entries)) = Len(Sent) - (k + 1)
      /\ \A n \in DOMAIN Tail(entries) : Tail(entries)[n] = Sent[(k + 1) + n]
  <2>1. Sent \in Seq(Entry) /\ Len(Sent) \in Nat
    BY <1>4 DEF Progress
  <2>2. Len(entries) \in Nat \ {0}
    BY <1>2, <1>4
  <2>3. 1 \in DOMAIN entries /\ file = entries[1] /\ file = Sent[k + 1]
    BY <1>4, <2>2
  <2>4. /\ Tail(entries) \in Seq(Entry) /\ Len(Tail(entries)) = Len(entries) - 1
        /\ \A n \in DOMAIN Tail(entries) :
              n + 1 \in DOMAIN entries /\ Tail(entries)[n] = entries[n + 1] /\ n \in Nat
    BY <1>4, <2>2
  <2>5. \A n \in DOMAIN Tail(entries) : Tail(entries)[n] = Sent[(k + 1) + n]
    <3> TAKE n \in DOMAIN Tail(entries)
    <3>1. Tail(entries)[n] = Sent[k + (n + 1)] /\ k + (n + 1) = (k + 1) + n
      BY <1>4, <2>4
    <3> QED BY <3>1
  <2>6. k + 1 \in 1..Len(Sent) /\ Len(Tail(entries)) = Len(Sent) - (k + 1)
    BY <1>4, <2>1, <2>2, <2>4
  <2> QED BY <2>1, <2>3, <2>4, <2>5, <2>6
<1>6. k + 1 \in Considered <=> ~IsMetadata(file) /\ ~IsPrivate(file) /\ file.ext = "csv"
  BY <1>2, <1>5 DEF Considered
<1>7. CASE Reject("invalid_archive")
  BY <1>7 DEF Reject, IngestInv, Accepted
<1>8. ASSUME NEW longer \in Seq(Considered), Progress(k + 1, longer)',
             entries' = Tail(entries), UNCHANGED <<upload, phase, code, sources, tables>>
      PROVE  IngestInv'
  <2>1. /\ k + 1 \in Nat /\ longer \in Seq(Considered')
        /\ entries' \in Seq(Entry) /\ Len(entries') = Len(Sent') - (k + 1)
        /\ \A n \in DOMAIN entries' : entries'[n] = Sent'[(k + 1) + n]
    BY <1>1, <1>5, <1>8
  <2>2. \E m \in Nat, o \in Seq(Considered') :
            /\ Progress(m, o)'
            /\ entries' \in Seq(Entry) /\ Len(entries') = Len(Sent') - m
            /\ \A n \in DOMAIN entries' : entries'[n] = Sent'[m + n]
    BY <1>8, <2>1
  <2> QED BY <1>1, <1>2, <1>8, <2>2 DEF IngestInv, Accepted
<1>9. CASE IsMetadata(file) /\ UNCHANGED <<candidates, ignored>> /\ entries' = Tail(entries)
           /\ UNCHANGED <<upload, phase, code, sources, tables>>
  <2>1. Progress(k + 1, order)'
    BY <1>2, <1>4, <1>5, <1>6, <1>9, ReadPast
  <2> QED BY <1>8, <1>9, <2>1
<1>10. CASE /\ ~IsMetadata(file) /\ IsSetAside(file)
            /\ ignored' = ignored \cup {file} /\ UNCHANGED candidates /\ entries' = Tail(entries)
            /\ UNCHANGED <<upload, phase, code, sources, tables>>
  <2>1. k + 1 \notin Considered
    BY <1>6, <1>10 DEF IsSetAside
  <2>2. Progress(k + 1, order)'
    BY <1>2, <1>4, <1>5, <1>10, <2>1, ReadPast
  <2> QED BY <1>8, <1>10, <2>2
<1>11. CASE /\ ~IsMetadata(file) /\ ~IsSetAside(file)
            /\ file.state \notin {"encrypted", "unreadable"}
            /\ candidates' = Append(candidates, file) /\ UNCHANGED ignored
            /\ entries' = Tail(entries) /\ UNCHANGED <<upload, phase, code, sources, tables>>
  <2>1. k + 1 \in Considered
    BY <1>6, <1>11 DEF IsSetAside
  <2>2. PICK longer : longer = Append(order, k + 1)
    OBVIOUS
  <2>3. longer \in Seq(Considered) /\ Progress(k + 1, longer)'
    BY <1>4, <1>5, <1>11, <2>1, <2>2, ReadOne
  <2> QED BY <1>8, <1>11, <2>3
<1> QED BY <1>7, <1>9, <1>10, <1>11 DEF _read_zip

LEMMA InvEndOfZip ==
    ASSUME IngestInv, EndOfZip
    PROVE  IngestInv'
<1>1. UNCHANGED <<Sent, Archives, Considered>>
  BY SameUpload DEF EndOfZip
<1>2. PICK k \in Nat : \E order \in Seq(Considered) :
        /\ Progress(k, order)
        /\ entries \in Seq(Entry) /\ Len(entries) = Len(Sent) - k
  BY DEF IngestInv, EndOfZip
<1>3. PICK order \in Seq(Considered) :
        /\ Progress(k, order)
        /\ entries \in Seq(Entry) /\ Len(entries) = Len(Sent) - k
  BY <1>2
<1>4. k = Len(Sent)
  <2>1. Len(entries) = 0 /\ Len(Sent) \in Nat
    BY <1>3 DEF EndOfZip, Progress
  <2> QED BY <1>3, <2>1
<1>5. Progress(k, order)'
  BY <1>3, ProgressStays DEF EndOfZip
<1>6. AllRead'
  BY <1>1, <1>4, <1>5 DEF AllRead
<1> QED BY <1>1, <1>6 DEF EndOfZip, IngestInv, Accepted

\* A turn of the loop over the files maps one of them.
LEMMA InvMapCsvs ==
    ASSUME IngestInv, _map_csvs
    PROVE  IngestInv'
<1> DEFINE file == Head(candidates)
           name == TableOf(file)
<1>1. UNCHANGED <<Sent, Archives, Considered>>
  BY SameUpload DEF _map_csvs, Reject
<1>2. phase = "mapping" /\ candidates # <<>> /\ code = "none" /\ AllRead
  BY DEF _map_csvs, IngestInv
<1>3. CASE Reject("invalid_csv")
  BY <1>3 DEF Reject, IngestInv, Accepted
<1>4. CASE /\ \/ /\ name = NoTable
                 /\ ignored' = ignored \cup {file} /\ UNCHANGED <<sources, tables>>
              \/ /\ name # NoTable
                 /\ sources' = [sources EXCEPT ![name] = Append(@, file)]
                 /\ tables' = [t \in DOMAIN tables \cup {name} |->
                                  IF t = name THEN parse_csv(file) ELSE tables[t]]
                 /\ UNCHANGED ignored
           /\ candidates' = Tail(candidates) /\ UNCHANGED <<upload, phase, code>>
  <2>1. PICK k \in Nat : k = Len(Sent) /\ \E order \in Seq(Considered) : Progress(k, order)
    BY <1>2 DEF AllRead
  <2>2. PICK order \in Seq(Considered) : Progress(k, order)
    BY <2>1
  <2>3. sources \in [Tables -> Seq(Entry)] /\ DOMAIN tables \subseteq Tables
    BY DEF IngestInv
  <2>4. /\ Tail(order) \in Seq(Considered) /\ Progress(k, Tail(order))'
        /\ file \in Entry /\ name \in Tables \cup {NoTable}
    BY <1>2, <1>4, <2>2, <2>3, MapOne
  <2>5. AllRead'
    BY <1>1, <2>1, <2>4 DEF AllRead
  <2> HIDE DEF name, file
  <2>6. sources' \in [Tables -> Seq(Entry)] /\ DOMAIN tables' \subseteq Tables
    <3>1. CASE name = NoTable
      BY <1>4, <2>3, <3>1
    <3>2. CASE name # NoTable
      <4>1. name \in Tables
        BY <2>4, <3>2
      <4>2. Append(sources[name], file) \in Seq(Entry)
        BY <2>3, <2>4, <4>1
      <4> QED BY <1>4, <2>3, <3>2, <4>1, <4>2
    <3> QED BY <3>1, <3>2
  <2> QED BY <1>1, <1>2, <1>4, <2>5, <2>6 DEF IngestInv, Accepted
<1> QED BY <1>3, <1>4 DEF _map_csvs

\* When nothing waits any more all that was sent has been mapped.
LEMMA NothingWaits ==
    ASSUME AllRead, candidates = <<>>
    PROVE  AllMapped
<1>1. PICK k \in Nat : k = Len(Sent) /\ \E order \in Seq(Considered) : Progress(k, order)
  BY DEF AllRead
<1>2. PICK order \in Seq(Considered) : Progress(k, order)
  BY <1>1
<1>3. order = <<>>
  <2>1. Len(order) = 0
    BY <1>2 DEF Progress
  <2> QED BY <2>1
<1> QED BY <1>1, <1>2, <1>3 DEF AllMapped

LEMMA AllMappedStays ==
    ASSUME AllMapped, UNCHANGED <<upload, candidates, sources, tables, ignored>>
    PROVE  AllMapped'
<1>1. UNCHANGED <<Sent, Archives, Considered>>
  BY SameUpload
<1>2. PICK k \in Nat : k = Len(Sent) /\ Progress(k, <<>>)
  BY DEF AllMapped
<1>3. Progress(k, <<>>)'
  BY <1>2, ProgressStays
<1> QED BY <1>1, <1>2, <1>3 DEF AllMapped

\* The rest of the actions map no file.
LEMMA InvOthers ==
    ASSUME IngestInv, RefuseShape \/ RefuseTables \/ Store \/ RefuseStart \/ Load \/ UNCHANGED vars
    PROVE  IngestInv'
<1>1. UNCHANGED <<Sent, Archives, Considered>>
  BY SameUpload DEF RefuseShape, RefuseTables, Store, RefuseStart, Load, vars, Reject
<1>2. AllMapped /\ UNCHANGED <<upload, candidates, sources, tables, ignored>> => AllMapped'
  BY AllMappedStays
<1>3. phase = "mapping" /\ candidates = <<>> => AllMapped
  BY NothingWaits DEF IngestInv
<1>4. CASE RefuseShape
  BY <1>4, ShapesHaveTheirCodes DEF RefuseShape, Reject, IngestInv, Accepted
<1>5. CASE RefuseTables
  <2>1. AllMapped'
    BY <1>2, <1>3, <1>5 DEF RefuseTables, Reject
  <2> QED BY <1>5, <2>1 DEF RefuseTables, Reject, IngestInv, Accepted, Duplicated
<1>6. CASE Store
  <2>1. AllMapped' /\ code = "none"
    BY <1>2, <1>3, <1>6 DEF Store, IngestInv
  <2> QED BY <1>6, <2>1 DEF Store, IngestInv, Accepted, Duplicated
<1>7. CASE RefuseStart
  <2>1. Accepted /\ AllMapped'
    BY <1>2, <1>7 DEF RefuseStart, IngestInv, Accepted
  <2> QED BY <1>7, <2>1 DEF RefuseStart, IngestInv, Accepted, Duplicated, Blocked
<1>8. CASE Load
  <2>1. Accepted /\ AllMapped'
    BY <1>2, <1>8 DEF Load, IngestInv, Accepted
  <2> QED BY <1>8, <2>1 DEF Load, IngestInv, Accepted, Duplicated, Blocked
<1>9. CASE UNCHANGED vars
  <2>1. AllMapped => AllMapped'
    BY <1>2, <1>9 DEF vars
  <2>2. AllRead => AllRead'
    <3> SUFFICES ASSUME AllRead PROVE AllRead'
      OBVIOUS
    <3>1. PICK k \in Nat : k = Len(Sent) /\ \E order \in Seq(Considered) : Progress(k, order)
      BY DEF AllRead
    <3>2. PICK order \in Seq(Considered) : Progress(k, order)
      BY <3>1
    <3>3. Progress(k, order)'
      BY <1>9, <3>2, ProgressStays DEF vars
    <3> QED BY <1>1, <3>1, <3>3 DEF AllRead
  <2>3. \A k : \A order : Progress(k, order) => Progress(k, order)'
    BY <1>9, ProgressStays DEF vars
  <2>4. phase = "reading" => \E k \in Nat, order \in Seq(Considered') :
            /\ Progress(k, order)'
            /\ entries' \in Seq(Entry) /\ Len(entries') = Len(Sent') - k
            /\ \A n \in DOMAIN entries' : entries'[n] = Sent'[k + n]
    BY <1>1, <1>9, <2>3 DEF IngestInv, vars
  <2> QED BY <1>1, <1>9, <2>1, <2>2, <2>4
          DEF vars, IngestInv, Accepted, Received, Duplicated, Blocked
<1> QED BY <1>4, <1>5, <1>6, <1>7, <1>8, <1>9

\* ingest and what follows it: at every moment the tables are what the files
\* mapped so far are, those that wait are mapped next, and the rest of what has
\* been read is reported.
THEOREM IngestInvariant == Spec => []IngestInv
<1>1. IngestInv /\ [Next]_vars => IngestInv'
  BY InvOpenZip, InvReadCsvs, InvReadZip, InvEndOfZip, InvMapCsvs, InvOthers DEF Next
<1> QED BY <1>1, InvInit, PTL DEF Spec

-----------------------------------------------------------------------------
(* What is accepted *)

\* When all has been mapped, the files of a table are those mapped to it.
LEMMA FilesAreMapped ==
    ASSUME AllMapped
    PROVE  /\ Sent \in Seq(Entry) /\ \A i \in DOMAIN Sent : Sent[i] \in Entry
           /\ \A t \in Tables :
                /\ IsFiniteSet(FilesOf(t)) /\ Cardinality(FilesOf(t)) = Len(sources[t])
                /\ t \in DOMAIN tables <=> FilesOf(t) # {}
                /\ t \in DOMAIN tables => \E i \in FilesOf(t) : tables[t] = parse_csv(Sent[i])
           /\ \A i \in DOMAIN Sent :
                \/ Archives # {} /\ IsMetadata(Sent[i])
                \/ Sent[i] \in ignored
                \/ \E t \in Tables : i \in FilesOf(t)
<1>1. PICK k \in Nat : k = Len(Sent) /\ Progress(k, <<>>)
  BY DEF AllMapped
<1>2. Sent \in Seq(Entry) /\ DOMAIN Sent = 1..k /\ \A i \in DOMAIN Sent : Sent[i] \in Entry
  BY <1>1 DEF Progress
<1>3. \A t : FilesOf(t) = Mapped(k, <<>>, t)
  <2>1. \A i \in Considered : i <= k
    BY <1>2 DEF Considered
  <2>2. Range(<<>>) = {}
    BY DEF Range
  <2> QED BY <2>1, <2>2 DEF FilesOf, Mapped
<1>4. \A t \in Tables : IsFiniteSet(FilesOf(t))
  BY <1>2, <1>3, MappedAreFinite
<1>5. \A t \in Tables :
        /\ Cardinality(FilesOf(t)) = Len(sources[t])
        /\ t \in DOMAIN tables <=> FilesOf(t) # {}
        /\ t \in DOMAIN tables => \E i \in FilesOf(t) : tables[t] = parse_csv(Sent[i])
  BY <1>1, <1>3 DEF Progress
<1>6. ASSUME NEW i \in DOMAIN Sent
      PROVE  \/ Archives # {} /\ IsMetadata(Sent[i])
             \/ Sent[i] \in ignored
             \/ \E t \in Tables : i \in FilesOf(t)
  <2>1. CASE i \notin Considered
    BY <1>1, <1>2, <2>1 DEF Progress
  <2>2. CASE i \in Considered
    <3>1. TableOf(Sent[i]) \in Tables \cup {NoTable}
      BY <1>2, FilesAreOfTables
    <3>2. i \in FilesOf(TableOf(Sent[i]))
      BY <2>2 DEF FilesOf
    <3>3. \A j \in FilesOf(NoTable) : Sent[j] \in ignored
      BY <1>1, <1>3 DEF Progress
    <3> QED BY <3>1, <3>2, <3>3
  <2> QED BY <2>1, <2>2
<1> QED BY <1>2, <1>4, <1>5, <1>6

\* Then no table has two files, if none has been sent twice.
LEMMA OneFileEach ==
    ASSUME AllMapped, ~Duplicated, sources \in [Tables -> Seq(Entry)], NEW t \in Tables
    PROVE  /\ Cardinality(FilesOf(t)) <= 1
           /\ \A i \in FilesOf(t) :
                /\ t \in DOMAIN tables /\ i \in DOMAIN Sent /\ Sent[i] \in Entry
                /\ tables[t] = parse_csv(Sent[i])
<1> DEFINE F == FilesOf(t)
<1>1. /\ IsFiniteSet(F) /\ Cardinality(F) = Len(sources[t])
      /\ t \in DOMAIN tables <=> F # {}
      /\ t \in DOMAIN tables => \E i \in F : tables[t] = parse_csv(Sent[i])
  BY FilesAreMapped
<1>2. Cardinality(F) <= 1
  <2>1. ~(Len(sources[t]) > 1) /\ Len(sources[t]) \in Nat
    BY DEF Duplicated
  <2> QED BY <1>1, <2>1
<1>3. \A i \in F : i \in DOMAIN Sent /\ Sent[i] \in Entry
  BY FilesAreMapped DEF FilesOf, Considered
<1> HIDE DEF F
<1>4. ASSUME NEW i \in F, NEW j \in F PROVE i = j
  <2>1. {i, j} \subseteq F
    OBVIOUS
  <2>2. Cardinality({i, j}) <= Cardinality(F)
    BY <1>1, <2>1, FS_Subset
  <2>3. i # j => Cardinality({i, j}) = 2
    <3> SUFFICES ASSUME i # j PROVE Cardinality({i, j}) = 2
      OBVIOUS
    <3>1. IsFiniteSet({i}) /\ j \notin {i}
      BY FS_Singleton
    <3>2. Cardinality({i}) = 1
      BY FS_Singleton
    <3>3. Cardinality({i} \cup {j}) = Cardinality({i}) + 1
      BY <3>1, FS_AddElement
    <3>4. Cardinality({i} \cup {j}) = 2
      BY <3>2, <3>3
    <3>5. {i, j} = {i} \cup {j}
      OBVIOUS
    <3> QED BY <3>4, <3>5, Zenon
  <2>4. Cardinality({i, j}) \in Nat /\ Cardinality(F) \in Nat
    BY <1>1, <2>1, FS_Subset, FS_CardinalityType
  <2> QED BY <1>2, <2>2, <2>3, <2>4
<1>5. \A i \in F : t \in DOMAIN tables /\ tables[t] = parse_csv(Sent[i])
  BY <1>1, <1>4
<1> QED BY <1>2, <1>3, <1>5 DEF F

\* _read_zip, _read_csvs and _map_csvs: whatever the order and number of the
\* files, each is used for the table that it is, reported or metadata, and two
\* for one table are refused.
THEOREM FilesAreAccountedFor == Spec => []EveryFileIsAccountedFor
<1>1. ASSUME IngestInv PROVE EveryFileIsAccountedFor
  <2>1. sources \in [Tables -> Seq(Entry)]
    BY <1>1 DEF IngestInv
  <2>2. ASSUME Accepted
        PROVE  /\ \A t \in Tables :
                    /\ Cardinality(FilesOf(t)) <= 1
                    /\ t \in DOMAIN tables <=> FilesOf(t) # {}
                    /\ \A i \in FilesOf(t) : tables[t].file = Sent[i]
               /\ \A i \in DOMAIN Sent :
                    \/ Archives # {} /\ IsMetadata(Sent[i])
                    \/ Sent[i] \in ignored
                    \/ \E t \in Tables : i \in FilesOf(t)
    <3>1. AllMapped /\ ~Duplicated
      BY <1>1, <2>2 DEF IngestInv
    <3>2. ASSUME NEW t \in Tables
          PROVE  /\ Cardinality(FilesOf(t)) <= 1
                 /\ \A i \in FilesOf(t) : tables[t].file = Sent[i]
      <4>1. Cardinality(FilesOf(t)) <= 1
        BY <2>1, <3>1, OneFileEach
      <4>2. \A i \in FilesOf(t) : Sent[i] \in Entry /\ tables[t] = parse_csv(Sent[i])
        BY <2>1, <3>1, OneFileEach
      <4>3. \A i \in FilesOf(t) : tables[t].file = Sent[i]
        BY <4>2, ParsedAsSent
      <4> QED BY <4>1, <4>3
    <3> QED BY <3>1, <3>2, FilesAreMapped
  <2>3. ASSUME code = "duplicate_table"
        PROVE  \E t \in Tables : Cardinality(FilesOf(t)) > 1
    <3>1. AllMapped /\ Duplicated
      BY <1>1, <2>3 DEF IngestInv
    <3> QED BY <3>1, FilesAreMapped DEF Duplicated
  <2>4. ASSUME code = "no_tables_found"
        PROVE  \A t \in Tables : FilesOf(t) = {}
    <3>1. AllMapped /\ DOMAIN tables = {}
      BY <1>1, <2>4 DEF IngestInv
    <3> QED BY <3>1, FilesAreMapped
  <2> QED BY <2>2, <2>3, <2>4 DEF EveryFileIsAccountedFor
<1> QED BY <1>1, IngestInvariant, PTL

-----------------------------------------------------------------------------
(* What is usable *)

\* What blocks a run: a required table that is absent or cannot be used.
LEMMA WhatBlocks ==
    ASSUME NEW t \in Tables, diagnostics = diagnose(tables)
    PROVE  diagnostics[t].status = "error" <=>
             /\ SpecOf(t).required
             /\ t \in DOMAIN tables => Unusable(SpecOf(t), tables[t])
<1>1. CASE t \in DOMAIN tables
  <2>1. diagnostics[t] = _diagnose_table(SpecOf(t), tables[t])
    BY <1>1 DEF diagnose
  <2>2. diagnostics[t].status = "error" <=> SpecOf(t).required /\ Unusable(SpecOf(t), tables[t])
    BY <2>1 DEF _diagnose_table
  <2> QED BY <1>1, <2>2
<1>2. CASE t \notin DOMAIN tables
  <2>1. diagnostics[t].status = IF SpecOf(t).required THEN "error" ELSE "warning"
    BY <1>2 DEF diagnose
  <2> QED BY <1>2, <2>1
<1> QED BY <1>1, <1>2

\* A run is blocked if, and only if, a required table cannot be used.
THEOREM StartableAreUsable == Spec => []StartableRunsAreUsable
<1> DEFINE Usable(t) == \E i \in FilesOf(t) :
                            /\ SpecOf(t).key_columns \subseteq Range(Sent[i].header)
                            /\ Records(Sent[i]) # <<>>
<1>1. ASSUME IngestInv, Accepted, NEW t \in Tables
      PROVE  ~(t \in DOMAIN tables => Unusable(SpecOf(t), tables[t])) <=> Usable(t)
  <2>1. AllMapped /\ ~Duplicated /\ sources \in [Tables -> Seq(Entry)]
    BY <1>1 DEF IngestInv
  <2>2. t \in DOMAIN tables <=> FilesOf(t) # {}
    BY <2>1, FilesAreMapped
  <2>3. ASSUME NEW i \in FilesOf(t)
        PROVE  Unusable(SpecOf(t), tables[t]) <=>
                  ~(/\ SpecOf(t).key_columns \subseteq Range(Sent[i].header)
                    /\ Records(Sent[i]) # <<>>)
    <3>1. Sent[i] \in Entry /\ tables[t] = parse_csv(Sent[i])
      BY <2>1, OneFileEach
    <3>2. tables[t].header = Sent[i].header /\ (tables[t].rows = <<>> <=> Records(Sent[i]) = <<>>)
      BY <3>1, ParsedAsSent
    <3> QED BY <3>2 DEF Unusable, MissingKeys
  <2> QED BY <2>2, <2>3
<1>2. ASSUME IngestInv, phase = "loaded", NEW t \in Tables, SpecOf(t).required
      PROVE  Usable(t) /\ loaded[t] # <<>>
  <2>1. Accepted /\ ~Blocked /\ diagnostics = diagnose(tables) /\ loaded = load_run_tables(tables)
    BY <1>2 DEF IngestInv, Accepted
  <2>2. ~(t \in DOMAIN tables => Unusable(SpecOf(t), tables[t]))
    BY <1>2, <2>1, WhatBlocks DEF Blocked
  <2>3. Usable(t)
    BY <1>1, <1>2, <2>1, <2>2
  <2>4. t \in DOMAIN tables /\ tables[t].rows # <<>>
    BY <2>2 DEF Unusable
  <2>5. PICK i \in FilesOf(t) : tables[t] = parse_csv(Sent[i]) /\ Sent[i] \in Entry
    <3>1. AllMapped /\ ~Duplicated /\ sources \in [Tables -> Seq(Entry)]
      BY <1>2, <2>1 DEF IngestInv
    <3>2. FilesOf(t) # {}
      BY <2>3
    <3> QED BY <3>1, <3>2, OneFileEach
  <2>6. 1 \in DOMAIN tables[t].rows
    <3> DEFINE records == Records(Sent[i])
    <3>1. /\ DOMAIN tables[t].rows = DOMAIN records /\ records # <<>>
          /\ Len(records) \in Nat /\ DOMAIN records = 1..Len(records)
          /\ records = <<>> <=> Len(records) = 0
      BY <2>4, <2>5, ParsedAsSent, RecordsAreRows
    <3> HIDE DEF records
    <3> QED BY <3>1
  <2>7. DOMAIN loaded[t] = DOMAIN tables[t].rows
    BY <2>1, <2>4 DEF load_run_tables
  <2>8. DOMAIN <<>> = {}
    OBVIOUS
  <2> QED BY <2>3, <2>6, <2>7, <2>8
<1>3. ASSUME IngestInv, phase = "blocked"
      PROVE  \E t \in Tables : SpecOf(t).required /\ ~Usable(t)
  <2>1. Accepted /\ Blocked /\ diagnostics = diagnose(tables)
    BY <1>3 DEF IngestInv, Accepted
  <2>2. PICK t \in Tables : diagnostics[t].status = "error"
    BY <2>1 DEF Blocked
  <2>3. SpecOf(t).required /\ (t \in DOMAIN tables => Unusable(SpecOf(t), tables[t]))
    BY <2>1, <2>2, WhatBlocks
  <2> QED BY <1>1, <1>3, <2>1, <2>3
<1>4. \A t \in Tables : t \in {u \in Tables : SpecOf(u).required} <=> SpecOf(t).required
  OBVIOUS
<1>5. IngestInv => StartableRunsAreUsable
  BY <1>2, <1>3, <1>4 DEF StartableRunsAreUsable
<1> QED BY <1>5, IngestInvariant, PTL

-----------------------------------------------------------------------------
(* What the engine gets *)

\* What the loader casts the diagnosis looks at, but for the number of an entry.
LEMMA NotTextIsNumeric ==
    ASSUME NEW t \in Tables, NEW c \in NotText(t)
    PROVE  c \in SpecOf(t).numeric_columns \/ (t = "ledger" /\ c = "entry_id")
<1>1. PICK i \in 1..8 : SpecOf(t) = TABLE_SPECS[i] /\ TABLE_SPECS[i].name = t
  BY TableNames
<1>2. CASE i = 1 \/ i = 7 \/ i = 8
  <2>1. t \in {"vendors", "employees", "efos_list"}
    BY <1>1, <1>2, EightTables
  <2> QED BY <2>1 DEF NotText, TIPOS
<1>3. CASE i = 2
  BY <1>1, <1>3, EightTables DEF NotText, TIPOS, TABLE_SPECS, Table
<1>4. CASE i = 3
  BY <1>1, <1>4, EightTables DEF NotText, TIPOS, TABLE_SPECS, Table
<1>5. CASE i = 4
  BY <1>1, <1>5, EightTables DEF NotText, TIPOS, TABLE_SPECS, Table
<1>6. CASE i = 5
  BY <1>1, <1>6, EightTables DEF NotText, TIPOS, TABLE_SPECS, Table
<1>7. CASE i = 6
  BY <1>1, <1>7, EightTables DEF NotText, TIPOS, TABLE_SPECS, Table
<1> QED BY <1>2, <1>3, <1>4, <1>5, <1>6, <1>7

\* A column of the file has a place, and its values are those of the rows there.
LEMMA ValuesOfColumns ==
    ASSUME NEW file \in Entry, NEW c \in Range(file.header), NEW r \in DOMAIN Records(file),
           NEW row, row = Records(file)[r]
    PROVE  /\ IndexOf(file.header, c) \in 1..Len(file.header)
           /\ r \in DOMAIN Values(parse_csv(file), c)
           /\ Values(parse_csv(file), c)[r] =
                 IF IndexOf(file.header, c) <= Len(row) THEN row[IndexOf(file.header, c)] ELSE Empty
<1> DEFINE header == file.header
           places == {i \in DOMAIN header : header[i] = c}
           p == parse_csv(file)
<1>1. header \in Seq(STRING) /\ DOMAIN header = 1..Len(header) /\ Len(header) \in Nat
  BY DEF Entry
<1>2. places # {} /\ \A i \in places : i \in Nat /\ i \in 1..Len(header)
  BY <1>1 DEF Range
<1>3. IndexOf(header, c) \in 1..Len(header)
  <2>1. IndexOf(header, c) = Min(places)
    BY DEF IndexOf
  <2> HIDE DEF places
  <2> QED BY <1>2, <2>1, MinIsOfTheSet
<1>4. p.header = header /\ r \in DOMAIN p.rows /\ p.rows[r] = Fit(row, Len(header))
  BY ParsedAsSent
<1> HIDE DEF p, header
<1>5. Values(p, c) = [i \in DOMAIN p.rows |-> p.rows[i][IndexOf(header, c)]]
  BY <1>4 DEF Values, header
<1>6. Values(p, c)[r] = Fit(row, Len(header))[IndexOf(header, c)] /\ r \in DOMAIN Values(p, c)
  BY <1>4, <1>5
<1> QED BY <1>3, <1>6 DEF Fit, p, header

\* What the user is told of a table.
LEMMA WhatIsTold ==
    ASSUME NEW t \in Tables, diagnostics = diagnose(tables), t \in DOMAIN tables
    PROVE  /\ diagnostics[t].rows = Len(tables[t].rows)
           /\ diagnostics[t].warnings = Warnings(SpecOf(t), tables[t])
           /\ diagnostics[t].columns = ColumnWarnings(SpecOf(t), tables[t])
<1>1. diagnostics[t] = _diagnose_table(SpecOf(t), tables[t])
  BY DEF diagnose
<1> QED BY <1>1 DEF _diagnose_table

LEMMA WhatIsLoaded ==
    ASSUME NEW t \in Tables, loaded = load_run_tables(tables), t \in DOMAIN tables,
           NEW r \in DOMAIN tables[t].rows, NEW c \in SpecOf(t).columns
    PROVE  loaded[t][r][c] =
             IF c \in Range(tables[t].header) THEN _projection(t, c, Values(tables[t], c)[r])
             ELSE Null
<1>1. loaded[t] = [i \in DOMAIN tables[t].rows |->
                    [d \in SpecOf(t).columns |->
                        IF d \in Range(tables[t].header)
                        THEN _projection(t, d, Values(tables[t], d)[i])
                        ELSE Null]]
  BY DEF load_run_tables
<1> QED BY <1>1

\* What a cell becomes: itself, or the number without its commas and rounded to
\* its column, or NULL if it is blank or should be a number and is none, or one
\* beyond the column.
LEMMA CellsAreCast ==
    ASSUME NEW t, NEW c, NEW v \in Cells, NEW cell, cell = _projection(t, c, v)
    PROVE  /\ cell = Null => v \in Blanks \/ (c \in NotText(t) /\ (v = Huge \/ v \notin Numbers))
           /\ cell # Null => /\ v # Empty
                             /\ cell = IF c \in NotText(t) THEN Rounded(c, WithoutCommas(v)) ELSE v
<1>1. v # Null
  BY CellsAssumption
<1>2. CASE c \notin NotText(t)
  BY <1>1, <1>2 DEF _projection, Cast, Blanks
<1>3. CASE c \in NotText(t)
  <2> DEFINE w == WithoutCommas(v)
  <2>1. cell = IF w \in Numbers \ {Grouped, Huge} THEN Rounded(c, w) ELSE Null
    BY <1>3 DEF _projection, Cast
  <2>2. w \in Numbers \ {Grouped, Huge} => Rounded(c, w) # Null
    <3>1. \A n \in Numbers : n # Null
      BY CellsAssumption
    <3>2. Nearest # Null /\ Entire # Null
      BY CellsAssumption
    <3> HIDE DEF w
    <3> QED BY <3>1, <3>2 DEF Rounded
  <2>3. v \in Numbers /\ v # Huge => w \in Numbers \ {Grouped, Huge}
    BY DEF Numbers, WithoutCommas, Grouped, Digits, Long, Huge
  <2>4. WithoutCommas(Empty) = Empty /\ Empty \notin Numbers
    BY DEF WithoutCommas, Empty, Numbers, Grouped, Digits, Long, Huge
  <2> QED
    <3>1. v = Empty => w \notin Numbers
      BY <2>4
    <3> HIDE DEF w
    <3> QED BY <1>3, <2>1, <2>2, <2>3, <3>1 DEF w
<1> QED BY <1>2, <1>3

\* load_run_tables, against what diagnose has told before the run was started
\* and what the strict endpoint would have loaded: the engine has each row that
\* was sent, no cell is another than the file's but for commas and rounding, and
\* none is lost in silence but for numbers that the diagnosis does not see.
THEOREM EngineReads == Spec => []EngineReadsTheUpload
<1>1. ASSUME IngestInv, phase = "loaded", NEW t \in Tables
      PROVE  /\ Len(loaded[t]) = diagnostics[t].rows
             /\ t \in DOMAIN tables => DOMAIN loaded[t] = DOMAIN tables[t].rows
  <2>1. AllMapped /\ diagnostics = diagnose(tables) /\ loaded = load_run_tables(tables)
    BY <1>1 DEF IngestInv, Accepted
  <2>2. CASE t \notin DOMAIN tables
    <3>1. loaded[t] = <<>> /\ diagnostics[t].rows = 0
      BY <2>1, <2>2 DEF load_run_tables, diagnose
    <3> QED BY <2>2, <3>1
  <2>3. CASE t \in DOMAIN tables
    <3>1. PICK i \in FilesOf(t) : tables[t] = parse_csv(Sent[i]) /\ Sent[i] \in Entry
      BY <2>1, <2>3, FilesAreMapped DEF FilesOf, Considered
    <3> DEFINE n == Len(Records(Sent[i]))
    <3>2. n \in Nat /\ DOMAIN tables[t].rows = 1..n /\ Len(tables[t].rows) = n
      BY <3>1, ParsedAsSent, RecordsAreRows
    <3>3. DOMAIN loaded[t] = DOMAIN tables[t].rows /\ \E f : loaded[t] = [j \in 1..n |-> f[j]]
      <4>1. PICK f : f = loaded[t]
        OBVIOUS
      <4>2. loaded[t] = [j \in 1..n |-> [d \in SpecOf(t).columns |->
                        IF d \in Range(tables[t].header)
                        THEN _projection(t, d, Values(tables[t], d)[j])
                        ELSE Null]]
        BY <2>1, <2>3, <3>2 DEF load_run_tables
      <4> HIDE DEF n
      <4>3. loaded[t] = [j \in 1..n |-> f[j]]
        BY <4>1, <4>2
      <4> QED BY <3>2, <4>2, <4>3
    <3> HIDE DEF n
    <3>4. Len(loaded[t]) = n
      <4>1. PICK f : loaded[t] = [j \in 1..n |-> f[j]]
        BY <3>3
      <4>2. loaded[t] \in Seq({f[j] : j \in 1..n})
        BY <3>2, <4>1
      <4> QED BY <3>2, <4>1, <4>2
    <3>5. diagnostics[t].rows = n
      BY <2>1, <2>3, <3>2, WhatIsTold
    <3> QED BY <3>3, <3>4, <3>5
  <2> QED BY <2>2, <2>3
<1>2. ASSUME IngestInv, phase = "loaded", NEW t \in Tables, NEW i \in FilesOf(t),
             NEW r \in DOMAIN loaded[t], NEW c \in SpecOf(t).columns
      PROVE  LET row == Records(Sent[i])[r]
                 header == Sent[i].header
                 there == Reaches(Sent[i], row, c)
                 cell == CellOf(Sent[i], row, c)
             IN  IF loaded[t][r][c] = Null
                 THEN \/ Announced(t, c, row, header)
                      \/ there /\ (cell \in Blanks \/ Unnoticed(t, c, cell))
                 ELSE /\ there
                      /\ loaded[t][r][c] =
                            IF c \in NotText(t) THEN Rounded(c, WithoutCommas(cell)) ELSE cell
  <2> USE DEF Reaches, CellOf
  <2> DEFINE row == Records(Sent[i])[r]
             header == Sent[i].header
             there == c \in Range(header) /\ IndexOf(header, c) <= Len(row)
             cell == row[IndexOf(header, c)]
             spec == SpecOf(t)
             v == Values(tables[t], c)[r]
  <2>1. /\ AllMapped /\ ~Duplicated /\ sources \in [Tables -> Seq(Entry)]
        /\ diagnostics = diagnose(tables) /\ loaded = load_run_tables(tables)
    BY <1>2 DEF IngestInv, Accepted
  <2>2. t \in DOMAIN tables /\ Sent[i] \in Entry /\ tables[t] = parse_csv(Sent[i])
    BY <2>1, OneFileEach
  <2>3. r \in DOMAIN tables[t].rows /\ r \in DOMAIN Records(Sent[i]) /\ tables[t].header = header
    BY <1>1, <1>2, <2>2, ParsedAsSent
  <2>4. /\ diagnostics[t].warnings = Warnings(spec, tables[t])
        /\ diagnostics[t].columns = ColumnWarnings(spec, tables[t])
    BY <2>1, <2>2, WhatIsTold
  <2>5. loaded[t][r][c] = IF c \in Range(header) THEN _projection(t, c, v) ELSE Null
    BY <2>1, <2>2, <2>3, WhatIsLoaded
  <2>6. CASE c \notin Range(header)
    <3>1. c \in spec.key_columns => "keys" \in diagnostics[t].warnings
      BY <2>3, <2>4, <2>6 DEF Warnings, MissingKeys
    <3>2. c \notin spec.key_columns => c \in diagnostics[t].columns
      BY <2>3, <2>4, <2>6 DEF ColumnWarnings
    <3> QED BY <2>5, <2>6, <3>1, <3>2 DEF Announced
  <2>7. CASE c \in Range(header)
    <3>1. /\ IndexOf(header, c) \in 1..Len(header)
          /\ r \in DOMAIN Values(tables[t], c)
          /\ v = IF IndexOf(header, c) <= Len(row) THEN cell ELSE Empty
      BY <2>2, <2>3, <2>7, ValuesOfColumns
    <3>2. row \in Seq(Cells) /\ Len(header) \in Nat
      BY <2>2, <2>3, RecordsAreRows DEF Entry
    <3>3. v \in Cells
      <4>1. CASE IndexOf(header, c) <= Len(row)
        <5>1. IndexOf(header, c) \in DOMAIN row
          BY <3>1, <3>2, <4>1
        <5> QED BY <3>1, <3>2, <4>1, <5>1
      <4>2. CASE ~(IndexOf(header, c) <= Len(row))
        BY <3>1, <4>2, CellsAssumption DEF Blanks
      <4> QED BY <4>1, <4>2
    <3> DEFINE x == loaded[t][r][c]
    <3>4. x = _projection(t, c, v)
      BY <2>5, <2>7
    <3>5. /\ x = Null => v \in Blanks \/ (c \in NotText(t) /\ (v = Huge \/ v \notin Numbers))
          /\ x # Null => /\ v # Empty
                         /\ x = IF c \in NotText(t) THEN Rounded(c, WithoutCommas(v)) ELSE v
      BY <3>3, <3>4, CellsAreCast
    <3>6. CASE ~(IndexOf(header, c) <= Len(row))
      <4>1. Len(row) # Len(header) /\ x = Null
        BY <3>1, <3>2, <3>5, <3>6
      <4>2. tables[t].malformed > 0
        BY <2>2, <2>3, <4>1, ParsedAsSent
      <4>3. "malformed" \in diagnostics[t].warnings
        BY <2>4, <4>2 DEF Warnings
      <4> QED BY <4>1, <4>3 DEF Announced
    <3>7. CASE IndexOf(header, c) <= Len(row)
      <4>1. there /\ v = cell
        BY <2>7, <3>1, <3>7
      <4>2. ASSUME v \notin Blanks, c \in NotText(t), v = Huge \/ v \notin Numbers
            PROVE  Announced(t, c, row, header) \/ Unnoticed(t, c, v)
        <5>0. CASE v = Huge
          BY <4>2, <5>0 DEF Unnoticed
        <5>1. CASE v \notin Numbers /\ c \in spec.numeric_columns
          <6>1. v \in Range(Values(tables[t], c))
            BY <3>1 DEF Range
          <6>2. c \in ColumnWarnings(spec, tables[t])
            BY <4>2, <5>1, <6>1 DEF ColumnWarnings, HasBad
          <6> QED BY <2>4, <6>2 DEF Announced
        <5>2. CASE t = "ledger" /\ c = "entry_id"
          BY <4>2, <5>2 DEF Unnoticed
        <5> QED BY <4>2, <5>0, <5>1, <5>2, NotTextIsNumeric
      <4> HIDE DEF x, v, cell, there
      <4>3. CASE x = Null
        BY <3>5, <4>1, <4>2, <4>3 DEF x, row, header, there, cell
      <4>4. CASE x # Null
        BY <3>5, <4>1, <4>4 DEF x, row, header, there, cell
      <4> QED BY <4>3, <4>4
    <3> QED BY <3>6, <3>7
  <2> QED BY <2>6, <2>7
<1>3. ASSUME IngestInv, phase = "loaded", validar_archivos(Files), _revisar_contenido(Files),
             \A t \in DOMAIN Files : \A i \in DOMAIN Files[t].rows :
                ~(Range(Files[t].rows[i]) \subseteq Blanks)
      PROVE  loaded = cargar_csvs(Files)
  <2>1. /\ AllMapped /\ ~Duplicated /\ sources \in [Tables -> Seq(Entry)]
        /\ loaded = load_run_tables(tables)
        /\ Tables \subseteq DOMAIN tables /\ DOMAIN Files = DOMAIN tables
    BY <1>3 DEF IngestInv, Accepted, validar_archivos, Files
  <2>2. ASSUME NEW t \in Tables
        PROVE  /\ Files[t] \in Entry /\ tables[t] = parse_csv(Files[t])
               /\ Records(Files[t]) = Files[t].rows
               /\ DOMAIN tables[t].rows = DOMAIN Files[t].rows
               /\ tables[t].header = Files[t].header
    <3>1. PICK i \in FilesOf(t) : tables[t] = parse_csv(Sent[i]) /\ Sent[i] \in Entry
      BY <2>1, FilesAreMapped DEF FilesOf, Considered
    <3>2. Files[t] = Sent[i]
      BY <2>1, <3>1, ParsedAsSent DEF Files
    <3>3. Records(Files[t]) = Files[t].rows
      BY <1>3, <2>1, <3>1, <3>2, NoneIsDropped
    <3> QED BY <3>1, <3>2, <3>3, ParsedAsSent
  <2>3. ASSUME NEW t \in Tables, NEW r \in DOMAIN Files[t].rows, NEW c \in SpecOf(t).columns
        PROVE  /\ c \in Range(tables[t].header)
               /\ _projection(t, c, Values(tables[t], c)[r])
                    = Cast(t, c, Files[t].rows[r][IndexOf(Files[t].header, c)])
    <3> DEFINE row == Files[t].rows[r]
               header == Files[t].header
               v == row[IndexOf(header, c)]
    <3>1. c \in Range(header) /\ tables[t].header = header
      BY <1>3, <2>2 DEF validar_archivos
    <3>2. /\ Len(row) = Len(header)
          /\ c \in NotText(t) => v = Empty \/ Cast(t, c, v) # Null
      BY <1>3 DEF _revisar_contenido
    <3>3. Values(tables[t], c)[r] = v
      <4>1. r \in DOMAIN Records(Files[t]) /\ row = Records(Files[t])[r] /\ Files[t] \in Entry
        BY <2>2
      <4>2. /\ IndexOf(header, c) \in 1..Len(header)
            /\ Values(parse_csv(Files[t]), c)[r] = IF IndexOf(header, c) <= Len(row) THEN v ELSE Empty
        BY <3>1, <4>1, ValuesOfColumns
      <4>3. Len(header) \in Nat
        BY <4>1 DEF Entry
      <4>4. IndexOf(header, c) <= Len(row)
        BY <3>2, <4>2, <4>3
      <4> QED BY <2>2, <4>2, <4>4
    <3> HIDE DEF v
    <3>4. ASSUME c \notin NotText(t) PROVE _projection(t, c, v) = Cast(t, c, v)
      BY <3>4 DEF _projection
    <3>5. ASSUME c \in NotText(t) PROVE _projection(t, c, v) = Cast(t, c, v)
      <4>1. v = Empty \/ v \in Numbers \ {Grouped, Huge}
        BY <3>2, <3>5 DEF Cast
      <4>2. WithoutCommas(v) = v
        <5>1. v # Grouped
          BY <4>1 DEF Empty, Grouped
        <5> QED BY <5>1 DEF WithoutCommas
      <4> QED BY <3>5, <4>2 DEF _projection
    <3> QED BY <3>1, <3>3, <3>4, <3>5 DEF v
  <2>4. ASSUME NEW t \in Tables
        PROVE  (IF t \notin DOMAIN tables THEN <<>>
                ELSE [r \in DOMAIN tables[t].rows |->
                        [c \in SpecOf(t).columns |->
                            IF c \in Range(tables[t].header)
                            THEN _projection(t, c, Values(tables[t], c)[r])
                            ELSE Null]])
               = [r \in DOMAIN Files[t].rows |-> [c \in SpecOf(t).columns |->
                    Cast(t, c, Files[t].rows[r][IndexOf(Files[t].header, c)])]]
    <3>1. t \in DOMAIN tables /\ DOMAIN tables[t].rows = DOMAIN Files[t].rows
      BY <2>1, <2>2
    <3>2. ASSUME NEW r \in DOMAIN Files[t].rows
          PROVE  [c \in SpecOf(t).columns |->
                            IF c \in Range(tables[t].header)
                            THEN _projection(t, c, Values(tables[t], c)[r])
                            ELSE Null]
                 = [c \in SpecOf(t).columns |->
                        Cast(t, c, Files[t].rows[r][IndexOf(Files[t].header, c)])]
      BY <2>3
    <3> QED BY <3>1, <3>2
  <2> QED BY <2>1, <2>4 DEF load_run_tables, cargar_csvs
<1>4. IngestInv => EngineReadsTheUpload
  <2> SUFFICES ASSUME IngestInv PROVE EngineReadsTheUpload
    OBVIOUS
  <2>1. phase = "loaded" => \A t \in Tables : Len(loaded[t]) = diagnostics[t].rows
    BY <1>1
  <2>2. ASSUME phase = "loaded",
               \A t \in DOMAIN Files : \A i \in DOMAIN Files[t].rows :
                  ~(Range(Files[t].rows[i]) \subseteq Blanks)
        PROVE  LoadersAgree
    BY <1>3, <2>2 DEF LoadersAgree
  <2>3. phase = "loaded" => \A t \in Tables :
            \A i \in FilesOf(t), r \in DOMAIN loaded[t], c \in SpecOf(t).columns :
                LET row == Records(Sent[i])[r]
                    cell == CellOf(Sent[i], row, c)
                IN  IF loaded[t][r][c] = Null
                    THEN \/ Announced(t, c, row, Sent[i].header)
                         \/ /\ Reaches(Sent[i], row, c)
                            /\ cell \in Blanks \/ Unnoticed(t, c, cell)
                    ELSE /\ Reaches(Sent[i], row, c)
                         /\ loaded[t][r][c] = IF c \in NotText(t) THEN Rounded(c, WithoutCommas(cell))
                                                                 ELSE cell
    BY <1>2
  <2> QED BY <2>1, <2>2, <2>3 DEF EngineReadsTheUpload
<1> QED BY <1>4, IngestInvariant, PTL

=============================================================================
