-------------------------- MODULE SatImport_proofs --------------------------
(***************************************************************************)
(* Theorems about SatImport, for every set of files, importers and batch   *)
(* sizes: the staging table is its holder's, and the table follows the     *)
(* imports in the order in which they commit.                              *)
(***************************************************************************)
EXTENDS SatImport, Integers, FiniteSetTheorems, TLAPS

-----------------------------------------------------------------------------
(* Types *)

Rows == Seq(RowOfFile)
Reports == [parsed : Nat, inserted : Nat, updated : Nat, collapsed : Int]
Steps == {"idle", "waiting", "copying", "done", "failed"}
Processes == [step : Steps, records : Rows, copied : Nat, version : Nat, report : Reports]

\* An import has the rows it parsed and a version of the normalization; who
\* copies holds the lock, and what it has copied, and nothing else, is staged.
Staging(me) ==
    /\ me.copied <= Len(me.records)
    /\ staging \in Rows /\ Len(staging) = me.copied
    /\ \A i \in 1..me.copied : staging[i] = me.records[i]
Knows(p) ==
    LET me == importer[p] IN
    /\ me.step = "copying" <=> holder = p
    /\ me.step \in {"waiting", "copying"} => me.version > 0
    /\ me.step = "waiting" => me.copied = 0
    /\ me.step = "copying" => Staging(me)

ImportTypeOK ==
    /\ version \in Nat \ {0}
    /\ merged \in Seq(Rows)
    /\ importer \in [Importers -> Processes]

SInv ==
    /\ ImportTypeOK
    /\ \A p \in Importers : Knows(p)
    /\ TableAgreesWithLastImport

\* A step of one import: the others know what they knew.
LEMMA OneImport ==
  ASSUME SInv, NEW p \in Importers, NEW new \in Processes,
         importer' = [importer EXCEPT ![p] = new],
         \/ UNCHANGED <<holder, staging>>
         \/ holder = NoImporter /\ holder' = p
         \/ holder = p /\ holder' \in {p, NoImporter}
  PROVE  /\ importer' \in [Importers -> Processes] /\ importer'[p] = new
         /\ \A q \in Importers : q # p => Knows(q)'
<1>1. /\ importer' \in [Importers -> Processes] /\ importer'[p] = new
      /\ \A q \in Importers : q # p => importer'[q] = importer[q] /\ Knows(q)
  BY DEF SInv, ImportTypeOK
<1>2. ASSUME NEW q \in Importers, q # p
      PROVE  Knows(q)'
  BY <1>1, <1>2, FilesAssumption DEF Knows, Staging
<1>3. QED
  BY <1>1, <1>2

\* The rows of a file are counted.
LEMMA StagedFacts ==
  ASSUME NEW rows \in Rows
  PROVE  /\ Staged(rows) \subseteq Contents /\ IsFiniteSet(Staged(rows))
         /\ Cardinality(Staged(rows)) \in Nat
         /\ Cardinality(Inserted(rows)) \in Nat /\ Cardinality(Updated(rows)) \in Nat
<1>1. Len(rows) \in Nat /\ \A i \in 1..Len(rows) : rows[i].content \in Contents
  <2>1. Len(rows) \in Nat /\ \A i \in 1..Len(rows) : rows[i] \in RowOfFile
    BY DEF Rows
  <2>2. QED
    BY <2>1 DEF RowOfFile
<1>2. IsFiniteSet(1..Len(rows))
  BY <1>1, FS_Interval
<1>3. IsFiniteSet(Staged(rows))
  <2> DEFINE f == [i \in 1..Len(rows) |-> rows[i].content]
  <2>1. f \in Surjection(1..Len(rows), Staged(rows))
    BY DEF Surjection, Staged
  <2>2. QED
    BY <1>2, <2>1, FS_Surjection
<1>4. Inserted(rows) \subseteq Staged(rows) /\ Updated(rows) \subseteq Staged(rows)
  BY DEF Inserted, Updated
<1>5. IsFiniteSet(Inserted(rows)) /\ IsFiniteSet(Updated(rows))
  BY <1>3, <1>4, FS_Subset
<1>6. QED
  BY <1>1, <1>3, <1>5, FS_CardinalityType DEF Staged

\* Initially there are no imports, and the table is empty.
LEMMA SInvInit == Init => SInv
<1> SUFFICES ASSUME Init PROVE SInv
  OBVIOUS
<1>1. NoReport \in Reports
  BY DEF NoReport, Reports
<1>2. Nobody \in Processes /\ Nobody.step = "idle"
  BY <1>1 DEF Nobody, Processes, Steps, Rows
<1>3. ImportTypeOK
  BY <1>2 DEF Init, ImportTypeOK
<1>4. \A p \in Importers : Knows(p)
  BY <1>2, FilesAssumption DEF Init, Knows
<1>5. TableAgreesWithLastImport
  BY DEF Init, TableAgreesWithLastImport, Stored, Absent
<1>6. QED
  BY <1>3, <1>4, <1>5 DEF SInv

\* A file is parsed; the version of the code that parsed it goes with it.
LEMMA SInvStart ==
  ASSUME SInv, NEW p \in Importers, NEW file \in Files, Start(p, file)
  PROVE  SInv'
<1> DEFINE records == Parse(file)
           report == [NoReport EXCEPT !.parsed = Len(records)]
           new == [step |-> "waiting", records |-> records, copied |-> 0, version |-> version,
                   report |-> report]
<1>1. records \in Rows /\ Len(records) \in Nat
  BY ParseAssumption DEF Rows
<1>2. report \in Reports
  BY <1>1 DEF NoReport, Reports
<1>3. new \in Processes
  BY <1>1, <1>2 DEF Processes, Steps, SInv, ImportTypeOK
<1>4. importer' = [importer EXCEPT ![p] = new]
  BY DEF Start
<1>5. UNCHANGED <<version, table, staging, holder, merged>> /\ importer[p].step # "copying"
  BY DEF Start
<1>6. importer' \in [Importers -> Processes] /\ importer'[p] = new
      /\ \A q \in Importers : q # p => Knows(q)'
  BY <1>3, <1>4, <1>5, OneImport
<1>7. Knows(p)'
  BY <1>5, <1>6 DEF SInv, ImportTypeOK, Knows
<1>8. QED
  BY <1>5, <1>6, <1>7 DEF SInv, ImportTypeOK, TableAgreesWithLastImport, Stored

\* The lock is free: nobody else copies.
LEMMA SInvTruncate ==
  ASSUME SInv, NEW p \in Importers, Truncate(p)
  PROVE  SInv'
<1> DEFINE new == [importer[p] EXCEPT !.step = "copying"]
<1>1. importer[p] \in Processes /\ Knows(p)
  BY DEF SInv, ImportTypeOK
<1>2. /\ new \in Processes /\ new.step = "copying" /\ new.records = importer[p].records
      /\ new.copied = importer[p].copied /\ new.version = importer[p].version
  BY <1>1 DEF Processes, Steps
<1>3. /\ importer' = [importer EXCEPT ![p] = new]
      /\ holder = NoImporter /\ holder' = p /\ staging' = <<>>
      /\ importer[p].step = "waiting" /\ UNCHANGED <<version, table, merged>>
  BY DEF Truncate
<1> HIDE DEF new
<1>4. importer' \in [Importers -> Processes] /\ importer'[p] = new
      /\ \A q \in Importers : q # p => Knows(q)'
  BY <1>2, <1>3, OneImport
<1>5. Len(importer[p].records) \in Nat
  BY <1>1 DEF Processes, Rows
<1>6. /\ new.copied = 0 /\ new.copied <= Len(new.records) /\ new.version > 0
      /\ staging' \in Rows /\ Len(staging') = 0
  BY <1>1, <1>2, <1>3, <1>5 DEF Knows, Rows
<1>7. Knows(p)'
  BY <1>2, <1>3, <1>4, <1>6 DEF Knows, Staging
<1>8. QED
  BY <1>3, <1>4, <1>7 DEF SInv, ImportTypeOK, TableAgreesWithLastImport, Stored

\* The next batch follows the rows that are staged.
LEMMA SInvCopyBatch ==
  ASSUME SInv, NEW p \in Importers, CopyBatch(p)
  PROVE  SInv'
<1> DEFINE records == importer[p].records
           n == importer[p].copied
           upto == Least(n + BatchSize, Len(records))
           batch == SubSeq(records, n + 1, upto)
           new == [importer[p] EXCEPT !.copied = upto]
<1>1. importer[p] \in Processes /\ Knows(p) /\ importer[p].step = "copying"
  BY DEF SInv, ImportTypeOK, CopyBatch
<1>2. /\ records \in Rows /\ n \in Nat /\ Len(records) \in Nat /\ n < Len(records)
      /\ staging \in Rows /\ Len(staging) = n /\ \A i \in 1..n : staging[i] = records[i]
  BY <1>1 DEF Processes, Knows, Staging, CopyBatch, Rows
<1>3. upto \in Nat /\ n < upto /\ upto <= Len(records)
  BY <1>2, FilesAssumption DEF Least
<1>4. /\ importer' = [importer EXCEPT ![p] = new] /\ staging' = staging \o batch
      /\ UNCHANGED <<version, table, holder, merged>>
  BY DEF CopyBatch
<1> HIDE DEF upto
<1>5. /\ batch \in Rows /\ Len(batch) = upto - n
      /\ \A i \in 1..(upto - n) : batch[i] = records[n + i]
  <2>1. batch \in Rows /\ Len(batch) = upto - n
    BY <1>2, <1>3 DEF Rows
  <2>2. ASSUME NEW i \in 1..(upto - n)
        PROVE  batch[i] = records[n + i]
    BY <1>2, <1>3 DEF Rows
  <2>3. QED
    BY <2>1, <2>2
<1>6. /\ new \in Processes /\ new.step = "copying" /\ new.records = records
      /\ new.copied = upto /\ new.version = importer[p].version
  BY <1>1, <1>3 DEF Processes
<1> HIDE DEF new, batch
<1>7. importer' \in [Importers -> Processes] /\ importer'[p] = new
      /\ \A q \in Importers : q # p => Knows(q)'
  BY <1>1, <1>4, <1>6, OneImport DEF Knows
<1> HIDE DEF records, n
<1>8. staging' \in Rows /\ Len(staging') = upto
  <2>1. \A s, t \in Seq(RowOfFile) : s \o t \in Seq(RowOfFile) /\ Len(s \o t) = Len(s) + Len(t)
    OBVIOUS
  <2>2. staging \o batch \in Rows /\ Len(staging \o batch) = n + (upto - n)
    BY <1>2, <1>5, <2>1 DEF Rows
  <2>3. QED
    BY <1>2, <1>3, <1>4, <2>2
<1>9. ASSUME NEW i \in 1..upto PROVE staging'[i] = records[i]
  <2>1. CASE i \in 1..n
    BY <1>2, <1>4, <1>5, <2>1 DEF Rows
  <2>2. CASE i \notin 1..n
    <3>1. i - n \in 1..(upto - n) /\ n + (i - n) = i
      BY <1>2, <1>3, <2>2
    <3>2. batch[i - n] = records[i]
      BY <1>5, <3>1
    <3>3. staging'[i] = batch[i - n]
      BY <1>2, <1>3, <1>4, <1>5, <2>2 DEF Rows
    <3>4. QED
      BY <3>2, <3>3
  <2>3. QED
    BY <2>1, <2>2
<1>10. new.version > 0 /\ holder' = p
  BY <1>1, <1>4, <1>6 DEF Knows
<1>11. Knows(p)'
  BY <1>3, <1>6, <1>7, <1>8, <1>9, <1>10 DEF Knows, Staging
<1>12. QED
  BY <1>4, <1>7, <1>11 DEF SInv, ImportTypeOK, TableAgreesWithLastImport, Stored

\* The end of a transaction: its process is not copying any more.
LEMMA ReleaseFacts ==
  ASSUME SInv, NEW p \in Importers, importer[p].step = "copying",
         NEW step \in {"done", "failed"}, NEW report \in Reports, Release(p, step, report)
  PROVE  importer' \in [Importers -> Processes] /\ \A q \in Importers : Knows(q)'
<1> DEFINE mid == [importer[p] EXCEPT !.step = step]
           new == [mid EXCEPT !.report = report]
<1>1. importer[p] \in Processes /\ Knows(p) /\ importer \in [Importers -> Processes]
  BY DEF SInv, ImportTypeOK
<1>2. mid \in Processes /\ mid.step = step
  BY <1>1 DEF Processes, Steps
<1>3. importer' = [importer EXCEPT ![p] = new]
  BY <1>1 DEF Release
<1> HIDE DEF mid
<1>4. new \in Processes /\ new.step = step
  BY <1>2 DEF Processes
<1> HIDE DEF new
<1>5. holder = p /\ holder' = NoImporter
  BY <1>1 DEF Knows, Release
<1>6. /\ importer' \in [Importers -> Processes] /\ importer'[p] = new
      /\ \A q \in Importers : q # p => Knows(q)'
  BY <1>3, <1>4, <1>5, OneImport
<1>7. Knows(p)'
  BY <1>4, <1>5, <1>6, FilesAssumption DEF Knows
<1>8. QED
  BY <1>6, <1>7

\* Nothing of the transaction is left.
LEMMA SInvRollback ==
  ASSUME SInv, NEW p \in Importers, Rollback(p)
  PROVE  SInv'
<1>1. importer[p].report \in Reports
  BY DEF SInv, ImportTypeOK, Processes
<1>2. UNCHANGED <<version, table, merged>>
  BY DEF Rollback
<1>3. importer' \in [Importers -> Processes] /\ \A q \in Importers : Knows(q)'
  BY <1>1, ReleaseFacts DEF Rollback
<1>4. QED
  BY <1>2, <1>3 DEF SInv, ImportTypeOK, TableAgreesWithLastImport, Stored

\* What is merged is the whole file, and nothing but it.
LEMMA AllIsStaged ==
  ASSUME SInv, NEW p \in Importers, importer[p].step = "copying",
         importer[p].copied = Len(importer[p].records)
  PROVE  staging = importer[p].records /\ staging \in Rows
<1>1. /\ importer[p].records \in Rows /\ staging \in Rows
      /\ Len(staging) = Len(importer[p].records)
      /\ \A i \in 1..Len(staging) : staging[i] = importer[p].records[i]
  BY DEF SInv, ImportTypeOK, Processes, Knows, Staging
<1>2. QED
  BY <1>1 DEF Rows

\* The merge makes the table agree with what is merged, and drops nothing.
LEMMA MergeAgrees ==
  ASSUME SInv, NEW p \in Importers, importer[p].version \in Nat, importer[p].version > 0,
         NEW rows \in Rows, Merge(p, rows), merged' = Append(merged, rows)
  PROVE  TableAgreesWithLastImport'
<1>1. Staged(rows) \subseteq Contents
  BY StagedFacts
<1>2. ASSUME NEW c \in Contents
      PROVE  /\ Stored(c) => Stored(c)'
             /\ c \in Staged(rows) => Stored(c)' /\ table'[c].no = Number(rows, c)
             /\ Stored(c)' => Stored(c) \/ c \in Staged(rows)
  <2>1. table'[c] = IF c \in Inserted(rows)
                    THEN [no |-> Number(rows, c), version |-> importer[p].version]
                    ELSE IF c \in Updated(rows)
                         THEN [no |-> Number(rows, c), version |-> table[c].version]
                         ELSE table[c]
    BY DEF Merge
  <2>2. CASE c \in Inserted(rows)
    <3>1. /\ table'[c].no = Number(rows, c) /\ table'[c].version = importer[p].version
          /\ c \in Staged(rows)
      BY <2>1, <2>2 DEF Inserted
    <3>2. QED
      BY <3>1 DEF Stored
  <2>3. CASE c \notin Inserted(rows) /\ c \in Updated(rows)
    <3>1. /\ table'[c].no = Number(rows, c) /\ table'[c].version = table[c].version
          /\ c \in Staged(rows) /\ Stored(c)
      BY <2>1, <2>3 DEF Updated
    <3>2. QED
      BY <3>1 DEF Stored
  <2>4. CASE c \notin Inserted(rows) /\ c \notin Updated(rows)
    <3>1. table'[c] = table[c]
      BY <2>1, <2>4
    <3>2. c \in Staged(rows) => Stored(c) /\ table[c].no = Number(rows, c)
      BY <2>4 DEF Inserted, Updated
    <3>3. QED
      BY <3>1, <3>2 DEF Stored
  <2>5. QED
    BY <2>2, <2>3, <2>4
<1>3. /\ merged \in Seq(Rows) /\ Len(merged) \in Nat /\ Len(merged') = Len(merged) + 1
      /\ merged' # <<>> /\ merged'[Len(merged')] = rows
      /\ \A i \in 1..Len(merged) : merged'[i] = merged[i]
  <2>1. merged \in Seq(Rows)
    BY DEF SInv, ImportTypeOK
  <2>2. /\ Len(merged) \in Nat /\ Len(merged') = Len(merged) + 1
        /\ merged'[Len(merged) + 1] = rows /\ \A i \in 1..Len(merged) : merged'[i] = merged[i]
    BY <2>1
  <2>3. merged' # <<>>
    BY <2>1
  <2>4. QED
    BY <2>1, <2>2, <2>3
<1>4. \A c \in Staged(rows) : Stored(c)' /\ table'[c].no = Number(rows, c)
  BY <1>1, <1>2
<1>5. ASSUME NEW c \in Contents, Stored(c)'
      PROVE  \E i \in 1..Len(merged') : c \in Staged(merged'[i])
  <2>1. CASE c \in Staged(rows)
    <3>1. Len(merged') \in 1..Len(merged')
      BY <1>3
    <3>2. QED
      BY <1>3, <2>1, <3>1
  <2>2. CASE c \notin Staged(rows)
    <3>1. PICK i \in 1..Len(merged) : c \in Staged(merged[i])
      BY <1>2, <1>5, <2>2 DEF SInv, TableAgreesWithLastImport
    <3>2. i \in 1..Len(merged') /\ merged'[i] = merged[i]
      BY <1>3
    <3>3. QED
      BY <3>1, <3>2
  <2>3. QED
    BY <2>1, <2>2
<1>6. QED
  BY <1>3, <1>4, <1>5 DEF TableAgreesWithLastImport, Stored, Staged, NumbersOf, Number

\* The commit, acknowledged or not.
LEMMA SInvCommit ==
  ASSUME SInv, NEW p \in Importers, Commit(p)
  PROVE  SInv'
<1> DEFINE report == importer[p].report
           one == [report EXCEPT !.inserted = Cardinality(Inserted(staging))]
           two == [one EXCEPT !.updated = Cardinality(Updated(staging))]
           three == [two EXCEPT !.collapsed = Len(staging) - Cardinality(Staged(staging))]
<1>1. /\ importer[p] \in Processes /\ Knows(p) /\ importer[p].step = "copying"
      /\ merged \in Seq(Rows)
  BY DEF SInv, ImportTypeOK, Commit
<1>2. staging = importer[p].records /\ staging \in Rows
  BY <1>1, AllIsStaged DEF Commit
<1>3. /\ report \in Reports /\ Len(staging) \in Nat
      /\ Cardinality(Staged(staging)) \in Nat
      /\ Cardinality(Inserted(staging)) \in Nat /\ Cardinality(Updated(staging)) \in Nat
  BY <1>1, <1>2, StagedFacts DEF Processes, Rows
<1>4. three \in Reports
  <2>1. one \in Reports
    BY <1>3 DEF Reports
  <2> HIDE DEF one
  <2>2. two \in Reports
    BY <1>3, <2>1 DEF Reports
  <2> HIDE DEF two
  <2>3. Len(staging) - Cardinality(Staged(staging)) \in Int
    BY <1>3
  <2>4. QED
    BY <2>2, <2>3 DEF Reports
<1>5. Release(p, "done", three) \/ Release(p, "failed", report)
  BY DEF Commit
<1> HIDE DEF three
<1>6. importer' \in [Importers -> Processes] /\ \A q \in Importers : Knows(q)'
  BY <1>1, <1>3, <1>4, <1>5, ReleaseFacts
<1>7. importer[p].version \in Nat /\ importer[p].version > 0
  BY <1>1 DEF Processes, Knows
<1>8. TableAgreesWithLastImport'
  BY <1>2, <1>7, MergeAgrees DEF Commit
<1>9. version' = version /\ merged' \in Seq(Rows)
  BY <1>1, <1>2 DEF Commit
<1>10. QED
  BY <1>6, <1>8, <1>9 DEF SInv, ImportTypeOK

\* Every step keeps the invariant.
LEMMA SInvNext == SInv /\ [Next]_vars => SInv'
<1> SUFFICES ASSUME SInv, [Next]_vars PROVE SInv'
  OBVIOUS
<1>1. CASE Deploy
  BY <1>1 DEF Deploy, SInv, ImportTypeOK, Knows, Staging, TableAgreesWithLastImport, Stored
<1>2. CASE UNCHANGED vars
  BY <1>2 DEF vars, SInv, ImportTypeOK, Knows, Staging, TableAgreesWithLastImport, Stored
<1>3. QED
  BY <1>1, <1>2, SInvStart, SInvTruncate, SInvCopyBatch, SInvCommit, SInvRollback
     DEF Next, Load

\* load_records and sat_blacklist_merge_staging: however many imports run at
\* once, fail or are not acknowledged, whatever the files and the batches, the
\* table agrees with the import that committed last.
THEOREM TheTableIsTheListing == Spec => []TableAgreesWithLastImport
<1>1. SInv => TableAgreesWithLastImport
  BY DEF SInv
<1>2. QED
  BY <1>1, SInvInit, SInvNext, PTL DEF Spec

-----------------------------------------------------------------------------
(* The report *)

\* Until it commits an import has counted no more than the rows of its file.
Uncounted(me) ==
    me.step \in {"waiting", "copying"} =>
        me.report.parsed = Len(me.records) /\ me.report.inserted = 0 /\ me.report.updated = 0
ReportInv ==
    /\ table = [c \in Contents |-> table[c]]
    /\ \A p \in Importers : Uncounted(importer[p])

\* What is staged is inserted, updated or as it should be already.
LEMMA EveryRowIsCounted ==
  ASSUME NEW p \in Importers, NEW rows \in Rows, Merge(p, rows)
  PROVE  Cardinality(Staged(rows)) = Cardinality(Inserted(rows)) + Cardinality(Updated(rows))
             + Cardinality({c \in Staged(rows) : Stored(c) /\ table'[c] = table[c]})
<1> DEFINE S == Staged(rows)
           I == Inserted(rows)
           U == Updated(rows)
           kept == {c \in S : Stored(c) /\ table'[c] = table[c]}
<1>1. IsFiniteSet(S) /\ S \subseteq Contents
  BY StagedFacts
<1>2. I \subseteq S /\ U \subseteq S /\ kept \subseteq S /\ I \cap U = {} /\ (I \cup U) \cap kept = {}
  <2>1. I \subseteq S /\ U \subseteq S /\ kept \subseteq S /\ I \cap U = {} /\ I \cap kept = {}
    BY DEF Inserted, Updated
  <2>2. ASSUME NEW c \in U
        PROVE  c \notin kept
    <3>1. c \in Contents /\ c \notin I /\ table[c].no # Number(rows, c)
      BY <1>1, <2>1 DEF Updated
    <3>2. table'[c].no = Number(rows, c)
      BY <3>1 DEF Merge
    <3> QED BY <3>1, <3>2
  <2> HIDE DEF I, U, S, kept
  <2> QED BY <2>1, <2>2
<1>3. S = (I \cup U) \cup kept
  <2>1. ASSUME NEW c \in S, c \notin I, c \notin U
        PROVE  c \in kept
    <3>1. Stored(c) /\ table'[c] = table[c]
      BY <1>1, <2>1 DEF Inserted, Updated, Merge
    <3> QED BY <3>1
  <2> HIDE DEF I, U, S, kept
  <2> QED BY <1>2, <2>1
<1> HIDE DEF I, U, S, kept
<1>4. IsFiniteSet(I) /\ IsFiniteSet(U) /\ IsFiniteSet(kept) /\ IsFiniteSet(I \cup U)
  BY <1>1, <1>2, FS_Subset, FS_Union
<1>5. /\ Cardinality(I \cup U) = Cardinality(I) + Cardinality(U) - Cardinality({})
      /\ Cardinality((I \cup U) \cup kept) = Cardinality(I \cup U) + Cardinality(kept) - Cardinality({})
  BY <1>2, <1>4, FS_Union
<1>6. /\ Cardinality({}) = 0 /\ Cardinality(I) \in Nat /\ Cardinality(U) \in Nat
      /\ Cardinality(kept) \in Nat
  BY <1>4, FS_EmptySet, FS_CardinalityType
<1>7. Cardinality(S) = Cardinality(I) + Cardinality(U) + Cardinality(kept)
  BY <1>3, <1>5, <1>6
<1> QED BY <1>7 DEF I, U, S, kept

\* What the last import stored is not stored again.
LEMMA AgainIsNothing ==
  ASSUME SInv, ReportInv, NEW p \in Importers, merged # <<>>,
         Merge(p, merged[Len(merged)])
  PROVE  /\ table' = table
         /\ Inserted(merged[Len(merged)]) = {} /\ Updated(merged[Len(merged)]) = {}
<1> DEFINE rows == merged[Len(merged)]
<1>1. \A c \in Staged(rows) : Stored(c) /\ table[c].no = Number(rows, c)
  BY DEF SInv, TableAgreesWithLastImport
<1>2. Inserted(rows) = {} /\ Updated(rows) = {}
  BY <1>1 DEF Inserted, Updated
<1>3. table' = [c \in Contents |-> table[c]]
  BY <1>2 DEF Merge
<1> QED BY <1>2, <1>3 DEF ReportInv

LEMMA ReportNext == SInv /\ ReportInv /\ [Next]_vars => ReportInv'
<1> SUFFICES ASSUME SInv, ReportInv, [Next]_vars
             PROVE  ReportInv'
  OBVIOUS
<1>1. importer \in [Importers -> Processes]
  BY DEF SInv, ImportTypeOK
<1>2. table' = [c \in Contents |-> table'[c]]
  <2>1. CASE UNCHANGED table
    BY <2>1 DEF ReportInv
  <2>2. ASSUME NEW p \in Importers, Commit(p)
        PROVE  table' = [c \in Contents |-> table'[c]]
    <3>1. Merge(p, staging)
      BY <2>2 DEF Commit
    <3> QED BY <3>1 DEF Merge
  <2> QED BY <2>1, <2>2 DEF Next, Load, Start, Truncate, CopyBatch, Rollback, Deploy, vars
<1>3. ASSUME NEW q \in Importers
      PROVE  Uncounted(importer'[q])
  <2> DEFINE same == importer'[q] = importer[q]
             kept == /\ importer'[q].report = importer[q].report
                     /\ importer'[q].records = importer[q].records
                     /\ importer[q].step \in {"waiting", "copying"}
             over == importer'[q].step \in {"done", "failed"}
  <2>1. Uncounted(importer[q]) /\ importer[q] \in Processes
    BY <1>1 DEF ReportInv
  <2>2. same \/ kept \/ over => Uncounted(importer'[q])
    BY <2>1 DEF Uncounted
  <2>3. ASSUME NEW p \in Importers, NEW file \in Files, Start(p, file)
        PROVE  Uncounted(importer'[q])
    <3>1. CASE q = p
      <4>1. /\ importer'[q].records = Parse(file)
            /\ importer'[q].report = [NoReport EXCEPT !.parsed = Len(Parse(file))]
        BY <1>1, <2>3, <3>1 DEF Start
      <4> QED BY <4>1 DEF NoReport, Uncounted
    <3>2. CASE q # p
      BY <1>1, <2>2, <2>3, <3>2 DEF Start
    <3> QED BY <3>1, <3>2
  <2>4. ASSUME NEW p \in Importers, Truncate(p) \/ CopyBatch(p)
        PROVE  same \/ kept
    <3>1. CASE q # p
      BY <1>1, <2>4, <3>1 DEF Truncate, CopyBatch
    <3>2. CASE q = p
      BY <1>1, <2>1, <2>4, <3>2 DEF Truncate, CopyBatch, Processes
    <3> QED BY <3>1, <3>2
  <2>5. ASSUME NEW p \in Importers, Commit(p) \/ Rollback(p)
        PROVE  same \/ over
    <3>1. PICK step, report : step \in {"done", "failed"} /\ Release(p, step, report)
      BY <2>5 DEF Commit, Rollback
    <3>2. CASE q # p
      BY <1>1, <3>1, <3>2 DEF Release
    <3>3. CASE q = p
      BY <1>1, <2>1, <3>1, <3>3 DEF Release, Processes
    <3> QED BY <3>2, <3>3
  <2>6. CASE Deploy \/ UNCHANGED vars
    BY <2>2, <2>6 DEF Deploy, vars
  <2> HIDE DEF same, kept, over
  <2> QED BY <2>2, <2>3, <2>4, <2>5, <2>6 DEF Next, Load
<1> QED BY <1>2, <1>3 DEF ReportInv

\* The report of an import (load_records, and the counts that
\* sat_blacklist_merge_staging returns) adds up, and an import of what was
\* imported last does nothing, for any files and importers.
THEOREM ReportsAddUp == Spec => ReportAddsUp
<1>1. Init => ReportInv
  <2> SUFFICES ASSUME Init
               PROVE  ReportInv
    OBVIOUS
  <2>1. table = [c \in Contents |-> table[c]]
    BY DEF Init
  <2>2. \A p \in Importers : importer[p].step = "idle"
    BY DEF Init, Nobody
  <2> QED BY <2>1, <2>2 DEF ReportInv, Uncounted
<1>2. ASSUME SInv, ReportInv, NEW p \in Importers, Commit(p)
      PROVE  LET report == importer'[p].report
                 again == merged # <<>> /\ importer[p].records = merged[Len(merged)]
                 kept == {c \in Staged(importer[p].records) : Stored(c) /\ table'[c] = table[c]}
             IN  /\ importer'[p].step = "done" =>
                       report.parsed = report.collapsed + report.inserted + report.updated
                                       + Cardinality(kept)
                 /\ again => table' = table /\ report.inserted = 0 /\ report.updated = 0
  <2> DEFINE rows == importer[p].records
             kept == {c \in Staged(rows) : Stored(c) /\ table'[c] = table[c]}
             hecho == [importer[p].report EXCEPT
                         !.inserted = Cardinality(Inserted(staging)),
                         !.updated = Cardinality(Updated(staging)),
                         !.collapsed = Len(staging) - Cardinality(Staged(staging))]
  <2>1. importer \in [Importers -> Processes] /\ importer[p] \in Processes
    BY <1>2 DEF SInv, ImportTypeOK
  <2>2. staging = rows /\ rows \in Rows /\ Merge(p, rows)
    <3>1. staging = rows /\ staging \in Rows
      BY <1>2, AllIsStaged DEF Commit
    <3> QED BY <1>2, <3>1 DEF Commit
  <2>3. importer[p].report \in Reports /\ Len(rows) \in Nat
    BY <2>1, <2>2 DEF Processes, Rows
  <2>4. /\ importer[p].report.parsed = Len(rows) /\ importer[p].report.inserted = 0
        /\ importer[p].report.updated = 0
    BY <1>2 DEF ReportInv, Uncounted, Commit
  <2>5. \/ importer'[p].step = "done" /\ importer'[p].report = hecho
        \/ importer'[p].step = "failed" /\ importer'[p].report = importer[p].report
    <3>1. \/ Release(p, "done", hecho)
          \/ Release(p, "failed", importer[p].report)
      BY <1>2 DEF Commit
    <3> HIDE DEF hecho
    <3> QED BY <2>1, <3>1 DEF Release, Processes
  <2>6. /\ hecho.parsed = Len(rows) /\ hecho.inserted = Cardinality(Inserted(rows))
        /\ hecho.updated = Cardinality(Updated(rows))
        /\ hecho.collapsed = Len(rows) - Cardinality(Staged(rows))
    BY <2>2, <2>3, <2>4 DEF Reports
  <2>7. /\ Cardinality(Staged(rows)) = Cardinality(Inserted(rows)) + Cardinality(Updated(rows))
                                          + Cardinality(kept)
        /\ Cardinality(Inserted(rows)) \in Nat /\ Cardinality(Updated(rows)) \in Nat
        /\ Cardinality(Staged(rows)) \in Nat /\ Cardinality(kept) \in Nat
    <3>1. IsFiniteSet(kept)
      BY <2>2, StagedFacts, FS_Subset
    <3> QED BY <2>2, <3>1, EveryRowIsCounted, StagedFacts, FS_CardinalityType
  <2>8. merged # <<>> /\ rows = merged[Len(merged)] =>
            table' = table /\ Inserted(rows) = {} /\ Updated(rows) = {}
    BY <1>2, <2>2, AgainIsNothing
  <2>9. Cardinality({}) = 0
    BY FS_EmptySet
  <2> HIDE DEF hecho, kept
  <2>10. importer'[p].step = "done" =>
            importer'[p].report.parsed = importer'[p].report.collapsed + importer'[p].report.inserted
                                            + importer'[p].report.updated + Cardinality(kept)
    <3>1. hecho.parsed = hecho.collapsed + hecho.inserted + hecho.updated + Cardinality(kept)
      BY <2>3, <2>6, <2>7
    <3> QED BY <2>5, <3>1
  <2>11. merged # <<>> /\ rows = merged[Len(merged)] =>
            table' = table /\ importer'[p].report.inserted = 0 /\ importer'[p].report.updated = 0
    BY <2>4, <2>5, <2>6, <2>8, <2>9
  <2> QED BY <2>10, <2>11 DEF kept
<1>3. SInv /\ ReportInv => [\A p \in Importers : Commit(p) =>
          LET report == importer'[p].report
              again == merged # <<>> /\ importer[p].records = merged[Len(merged)]
              kept == {c \in Staged(importer[p].records) : Stored(c) /\ table'[c] = table[c]}
          IN  /\ importer'[p].step = "done" =>
                    report.parsed = report.collapsed + report.inserted + report.updated
                                    + Cardinality(kept)
              /\ again => table' = table /\ report.inserted = 0 /\ report.updated = 0]_vars
  BY <1>2
<1> QED BY <1>1, <1>3, SInvInit, SInvNext, ReportNext, PTL DEF Spec, ReportAddsUp

=============================================================================
