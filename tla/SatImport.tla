------------------------------ MODULE SatImport ------------------------------
(***************************************************************************)
(* The import of the SAT listing (app/sat, database/database.sql): a CSV   *)
(* snapshot is parsed, copied in batches into a staging table that all     *)
(* imports share, and merged into sat_blacklist_record by one upsert, all  *)
(* in one transaction.  Whoever runs the command, and every container that *)
(* starts on an empty table, is an importer; several may run at once.      *)
(*                                                                         *)
(* A row of a file is its number in the listing ("No") and its content,    *)
(* all the other columns; source_hash tells contents apart.  The           *)
(* normalized columns are a function of the content and of the version of  *)
(* app/sat/normalization.py that computed them.                            *)
(***************************************************************************)
EXTENDS Naturals, Sequences, FiniteSets

CONSTANTS
    Importers, NoImporter,
    Files,          \* the snapshots there are: sequences of rows
    Contents,       \* what a row says
    Kind,           \* what becomes of a row, by its content
    NoNumber,       \* NULL: the "No" of the row is not an integer
    BatchSize,      \* COPY_BATCH_SIZE
    VersionLimit,   \* bound: versions of the normalization
    ImportLimit     \* bound: imports started

Numbers == Nat \cup {NoNumber}
\* "usable" rows are stored.  A "blank" line is passed over; a "malformed"
\* one is counted and reported.  What is "empty" has an RFC or a name, and
\* nothing is left of it when it is normalized.
Kinds == {"usable", "blank", "malformed", "empty"}
RowOfFile == [no : Numbers, content : Contents]

ASSUME FilesAssumption ==
    /\ Kind \in [Contents -> Kinds]
    /\ NoNumber \notin Nat
    /\ NoImporter \notin Importers
    /\ Files \subseteq Seq(RowOfFile)
    /\ BatchSize \in Nat \ {0}
    /\ VersionLimit \in Nat /\ ImportLimit \in Nat

VARIABLES
    version,    \* the version of the normalization that is deployed
    table,      \* sat_blacklist_record, by content
    staging,    \* sat_blacklist_staging, as the transaction in it sees it
    holder,     \* whose transaction holds the lock that TRUNCATE takes
    importer,   \* the processes of sat-blacklist-import
    merged,     \* history: the files committed, oldest first
    started     \* how many imports have been started

vars == <<version, table, staging, holder, importer, merged, started>>

Absent == [no |-> NoNumber, version |-> 0]
Stored(c) == table[c].version > 0

NoReport == [parsed |-> 0, inserted |-> 0, updated |-> 0, collapsed |-> 0]
Nobody == [step |-> "idle", records |-> <<>>, copied |-> 0, version |-> 0,
           report |-> NoReport]
Init ==
    /\ version = 1
    /\ table = [c \in Contents |-> Absent]
    /\ staging = <<>>
    /\ holder = NoImporter
    /\ importer = [p \in Importers |-> Nobody]
    /\ merged = <<>>
    /\ started = 0

-----------------------------------------------------------------------------
(* parse_csv *)

\* validate_row looks at the cells as they are, before they are normalized.
Passes(row) == Kind[row.content] \in {"usable", "empty"}
Parse(file) == SelectSeq(file, Passes)
\* What is selected of a file is a sequence of its rows.
ASSUME ParseAssumption == \A file \in Files : Parse(file) \in Seq(RowOfFile)

\* "No usable rows found" ends the run before the database is opened.
Start(p, file) ==
    /\ importer[p].step \in {"idle", "done", "failed"}
    /\ started < ImportLimit
    /\ Parse(file) # <<>>
    /\ importer' = [importer EXCEPT ![p] =
          [step |-> "waiting", records |-> Parse(file), copied |-> 0, version |-> version,
           report |-> [NoReport EXCEPT !.parsed = Len(Parse(file))]]]
    /\ started' = started + 1
    /\ UNCHANGED <<version, table, staging, holder, merged>>

-----------------------------------------------------------------------------
(* load_records *)

\* The first statement of the transaction is left out.
BugTruncate(p) ==
    /\ importer[p].step = "waiting"
    /\ importer' = [importer EXCEPT ![p].step = "copying"]
    /\ UNCHANGED <<version, table, staging, holder, merged, started>>

\* TRUNCATE waits for the lock of the table, and keeps it to the end of the
\* transaction.
Truncate(p) ==
    /\ importer[p].step = "waiting"
    /\ holder = NoImporter
    /\ holder' = p
    /\ staging' = <<>>
    /\ importer' = [importer EXCEPT ![p].step = "copying"]
    /\ UNCHANGED <<version, table, merged, started>>

Least(m, n) == IF m < n THEN m ELSE n

\* COPY, a batch at a time.
CopyBatch(p) ==
    LET me == importer[p]
        upto == Least(me.copied + BatchSize, Len(me.records))
    IN /\ me.step = "copying"
       /\ me.copied < Len(me.records)
       /\ staging' = staging \o SubSeq(me.records, me.copied + 1, upto)
       /\ importer' = [importer EXCEPT ![p].copied = upto]
       /\ UNCHANGED <<version, table, holder, merged, started>>

\* sat_blacklist_merge_staging: DISTINCT ON (source_hash) ... ORDER BY
\* source_hash, source_row_number, where NULL comes last.
Staged(rows) == {rows[i].content : i \in 1..Len(rows)}
NumbersOf(rows, c) == {rows[i].no : i \in {j \in 1..Len(rows) : rows[j].content = c}}
Number(rows, c) == CHOOSE n \in NumbersOf(rows, c) : \A m \in NumbersOf(rows, c) :
                       m # NoNumber => n # NoNumber /\ n <= m

Inserted(rows) == {c \in Staged(rows) : ~Stored(c)}
\* ON CONFLICT DO NOTHING
BugUpdated(rows) == {}
\* ON CONFLICT DO UPDATE SET source_row_number, if it is another.
Updated(rows) == {c \in Staged(rows) : Stored(c) /\ table[c].no # Number(rows, c)}

Merge(p, rows) ==
    table' = [c \in Contents |->
                IF c \in Inserted(rows)
                THEN [no |-> Number(rows, c), version |-> importer[p].version]
                ELSE IF c \in Updated(rows) THEN [no |-> Number(rows, c), version |-> table[c].version]
                ELSE table[c]]

\* The CHECK constraints of the table refuse what is empty, and with it all.
Refused(rows) == \E c \in Staged(rows) : Kind[c] = "empty"

\* A lock that outlives a transaction that failed.
BugRelease(p, step, report) ==
    /\ holder' = IF step = "failed" THEN p ELSE NoImporter
    /\ staging' = <<>>
    /\ importer' = [importer EXCEPT ![p].step = step, ![p].report = report]

\* The transaction is over, and the staging table empty again.
Release(p, step, report) ==
    /\ holder' = NoImporter
    /\ staging' = <<>>
    /\ importer' = [importer EXCEPT ![p].step = step, ![p].report = report]

\* The merge, the last TRUNCATE and the commit; its acknowledgement may be
\* lost, and the import then reports a failure.
Commit(p) ==
    /\ importer[p].step = "copying"
    /\ importer[p].copied = Len(importer[p].records)
    /\ ~Refused(staging)
    /\ Merge(p, staging)
    /\ merged' = Append(merged, importer[p].records)
    /\ \/ Release(p, "done",
              [importer[p].report EXCEPT
                 !.inserted = Cardinality(Inserted(staging)),
                 !.updated = Cardinality(Updated(staging)),
                 !.collapsed = Len(staging) - Cardinality(Staged(staging))])
       \/ Release(p, "failed", importer[p].report)
    /\ UNCHANGED <<version, started>>

\* A constraint, a lost connection or a crash: the transaction leaves nothing.
Rollback(p) ==
    /\ importer[p].step = "copying"
    /\ Release(p, "failed", importer[p].report)
    /\ UNCHANGED <<version, table, merged, started>>

-----------------------------------------------------------------------------
\* The normalization is changed and deployed; the database stays.
Deploy ==
    /\ version < VersionLimit
    /\ version' = version + 1
    /\ UNCHANGED <<table, staging, holder, importer, merged, started>>

Load(p) == Truncate(p) \/ CopyBatch(p) \/ Commit(p) \/ Rollback(p)

Next ==
    \/ \E p \in Importers : Load(p) \/ \E file \in Files : Start(p, file)
    \/ Deploy

Spec == Init /\ [][Next]_vars

\* Every import is run to its end by the process that started it.
Fairness == \A p \in Importers : WF_vars(Load(p))
FairSpec == Spec /\ Fairness

-----------------------------------------------------------------------------
(* Safety *)

\* However imports interleave and fail, the table agrees with the last one
\* that committed: every content of its file is there, under the smallest
\* number it has in the file.  Nothing else is there but what an import that
\* committed before had in its file.
TableAgreesWithLastImport ==
    /\ merged # <<>> =>
        LET rows == merged[Len(merged)]
        IN \A c \in Staged(rows) : Stored(c) /\ table[c].no = Number(rows, c)
    /\ \A c \in Contents :
        Stored(c) => \E i \in 1..Len(merged) : c \in Staged(merged[i])

\* The report of an import is right.  Its "unchanged" rows, parsed - collapsed
\* - inserted - updated, are those of the table that the import left alone; and
\* "re-running an unchanged import inserts 0 and updates 0" and leaves the whole
\* table alone, whatever failed or was not acknowledged in between.
ReportAddsUp ==
    [][\A p \in Importers : Commit(p) =>
          LET report == importer'[p].report
              again == merged # <<>> /\ importer[p].records = merged[Len(merged)]
              kept == {c \in Staged(importer[p].records) : Stored(c) /\ table'[c] = table[c]}
          IN  /\ importer'[p].step = "done" =>
                    report.parsed = report.collapsed + report.inserted + report.updated
                                    + Cardinality(kept)
              /\ again => table' = table /\ report.inserted = 0 /\ report.updated = 0]_vars

(* Liveness *)

\* No import waits for ever for the staging table of another.
ImportsEnd ==
    \A p \in Importers : importer[p].step = "waiting" ~> importer[p].step \in {"done", "failed"}

(* What the documentation says and the code does not do *)

\* "A malformed row never aborts the run": only a failure from without does.
MalformedRowsAbortNothing ==
    \A p \in Importers :
        /\ importer[p].step = "copying"
        /\ importer[p].copied = Len(importer[p].records)
        => ~Refused(staging)

\* A change of the normalization "must be followed by a re-import": one
\* started after the change stores what the present normalization computes.
ReimportNormalizes ==
    [][\A p \in Importers :
          Commit(p) => \A c \in Staged(importer[p].records) :
              table'[c].version >= importer[p].version]_vars

=============================================================================
