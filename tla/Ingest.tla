------------------------------- MODULE Ingest -------------------------------
(***************************************************************************)
(* From an upload to the tables of the fraud engine: app/runs/ingest.py    *)
(* reads the files, maps them to tables and diagnoses these;               *)
(* app/fraud/loader.py loads what was stored into DuckDB.  The strict      *)
(* ingestion of POST /fraud/analyze (engine/ingesta.py) stands beside it.  *)
(*                                                                         *)
(* An upload is a sequence of parts.  A part has its extension, whether it *)
(* can be read, and its entries: those of an archive, or the one file that *)
(* a loose CSV is.  An entry has                                           *)
(*   folder, ext   of its path;                                            *)
(*   stem          the table its name or alias stands for, or NoTable;     *)
(*   state         "ok", "encrypted", "unreadable" (or overcompressed), or *)
(*                 "binary" (or no header, or no CSV at all);              *)
(*   header, rows  the names of the columns, and sequences of cells.       *)
(* Of a cell the code knows whether it is blank, a number, a date or one   *)
(* of the values expected: a few strings stand for these kinds.  A line    *)
(* with nothing on it is no row to any reader of it.                       *)
(***************************************************************************)
EXTENDS Integers, Sequences, FiniteSets, FiniteSetsExt, Functions

CONSTANTS
    Uploads,        \* what clients send
    Cells,          \* the texts in it
    Null            \* NULL of the engine

VARIABLES
    upload,         \* what the client sent
    phase,          \* how far it has got
    code,           \* of the error that it was refused with, or "none"
    entries,        \* of the archive, still to be read
    candidates,     \* CSV files still to be mapped
    ignored,        \* files that were set aside with a reason
    sources,        \* table -> the files that are it
    tables,         \* table -> what was parsed of the last of them
    diagnostics,    \* table -> what the user is told of it
    loaded          \* table -> rows in the engine

vars == <<upload, phase, code, entries, candidates, ignored, sources, tables, diagnostics, loaded>>

NoTable == "none"
\* A blank cell may have nothing in it, or spaces.
Empty == ""
Spaces == " "
Blanks == {Empty, Spaces}
\* A number may have commas between its thousands, more digits than a column
\* can hold, or be beyond any column.
Digits == "1234"
Grouped == "1,234"
Long == "16777217.4"
Huge == "1e39"
Numbers == {"7", Digits, Grouped, Long, Huge}
Dates == {"2026-03-29"}
\* What a float of four bytes, and an integer, keep of the long one.
Nearest == "16777218"
Entire == "16777217"

ASSUME CellsAssumption ==
    Numbers \cup Blanks \subseteq Cells /\ Null \notin Cells \cup {Nearest, Entire}

-----------------------------------------------------------------------------
(* The tables of the estate (runs/estate.py, engine/esquema.py) *)

NoEnums == <<>>
Table(name, required, keys, others, numeric, dates, enums) ==
    [name |-> name, required |-> required, key_columns |-> Range(keys), id |-> keys[1],
     columns |-> Range(keys) \cup others, numeric_columns |-> numeric, date_columns |-> dates,
     enum_columns |-> enums]

TABLE_SPECS ==
    << Table("vendors", FALSE, <<"rfc", "bank_clabe">>,
             {"legal_name", "registered_date", "address", "category", "contact_email"},
            {}, {"registered_date"}, NoEnums),
       Table("invoices", TRUE, <<"uuid", "issuer_rfc", "receiver_rfc", "issue_date", "total">>,
            {"subtotal", "iva", "concepto_text", "uso_cfdi", "forma_pago", "metodo_pago", "status"},
            {"subtotal", "iva", "total"}, {"issue_date"},
            [metodo_pago |-> {"PUE", "PPD"}, status |-> {"vigente", "cancelado"}]),
       Table("ledger", FALSE, <<"entry_id", "date", "account_code", "debit", "credit">>,
            {"account_name", "description", "invoice_uuid", "cost_center", "approver"},
            {"debit", "credit"}, {"date"}, NoEnums),
       Table("bank_txns", TRUE, <<"txn_id", "date", "from_clabe", "to_clabe", "amount">>,
            {"reference", "channel"},
            {"amount"}, {"date"}, [channel |-> {"SPEI", "cheque", "efectivo"}]),
       Table("purchase_orders", FALSE, <<"po_id", "vendor_rfc", "amount">>,
            {"date", "requester", "approver", "description"}, {"amount"}, {"date"}, NoEnums),
       Table("contracts", FALSE, <<"contract_id", "vendor_rfc", "value">>,
            {"start_date", "scope_text"}, {"value"}, {"start_date"}, NoEnums),
       Table("employees", FALSE, <<"emp_id", "name", "bank_clabe">>,
            {"role", "hire_date"}, {}, {"hire_date"}, NoEnums),
       Table("efos_list", FALSE, <<"rfc", "status">>,
            {"legal_name", "publication_date"},
            {}, {"publication_date"}, [status |-> {"definitivo", "presunto"}]) >>

Tables == {spec.name : spec \in Range(TABLE_SPECS)}
SpecOf(t) == CHOOSE spec \in Range(TABLE_SPECS) : spec.name = t

\* The columns that DuckDB does not keep as text.
TIPOS == [invoices |-> {"subtotal", "iva", "total"}, ledger |-> {"entry_id", "debit", "credit"},
          bank_txns |-> {"amount"}, purchase_orders |-> {"amount"}, contracts |-> {"value"}]
NotText(t) == IF t \in DOMAIN TIPOS THEN TIPOS[t] ELSE {}

-----------------------------------------------------------------------------
(* Parsing a CSV, and which table it is *)

\* Rows of blanks are dropped; the others get the width of the header.
Records(file) ==
    LET kept == {i \in DOMAIN file.rows :
                    \E j \in DOMAIN file.rows[i] : file.rows[i][j] \notin Blanks}
        Place(i) == Cardinality({j \in kept : j <= i})
    IN  [n \in 1..Cardinality(kept) |-> file.rows[CHOOSE i \in kept : Place(i) = n]]
Fit(row, width) == [i \in 1..width |-> IF i <= Len(row) THEN row[i] ELSE Empty]
parse_csv(file) ==
    LET records == Records(file)
        width == Len(file.header)
    IN  [file |-> file, header |-> file.header,
         rows |-> [i \in DOMAIN records |-> Fit(records[i], width)],
         malformed |-> Cardinality({i \in DOMAIN records : Len(records[i]) # width})]

table_for_header(header) ==
    LET present == Range(header)
        Common(i) == Cardinality(present \cap TABLE_SPECS[i].columns)
        Size(i) == Cardinality(TABLE_SPECS[i].columns)
        fitting == {i \in DOMAIN TABLE_SPECS : /\ TABLE_SPECS[i].key_columns \subseteq present
                                               /\ 10 * Common(i) >= 6 * Size(i)}
        best == {i \in fitting : \A j \in fitting : Common(j) * Size(i) <= Common(i) * Size(j)}
    IN  IF fitting = {} THEN NoTable ELSE TABLE_SPECS[Min(best)].name

TableOf(file) == IF file.stem # NoTable THEN file.stem ELSE table_for_header(file.header)

-----------------------------------------------------------------------------
(* Diagnosis *)

IndexOf(header, column) == Min({i \in DOMAIN header : header[i] = column})
Values(table, column) ==
    IF column \notin Range(table.header) THEN <<>>
    ELSE [i \in DOMAIN table.rows |-> table.rows[i][IndexOf(table.header, column)]]
HasBad(table, column, valid) == \E v \in Range(Values(table, column)) : v \notin Blanks \cup valid
Repeats(table, column) ==
    LET values == Values(table, column)
    IN  \E i, j \in DOMAIN values : i # j /\ values[i] = values[j] /\ values[i] \notin Blanks

MissingKeys(spec, table) == spec.key_columns \ Range(table.header)

Warnings(spec, table) ==
    {w \in {"empty", "keys", "malformed", "repeated"} :
        \/ w = "empty" /\ table.rows = <<>>
        \/ w = "keys" /\ MissingKeys(spec, table) # {}
        \/ w = "malformed" /\ table.malformed > 0
        \/ w = "repeated" /\ Repeats(table, spec.id)}

ColumnWarnings(spec, table) ==
    (spec.columns \ (Range(table.header) \cup spec.key_columns))
    \cup {c \in spec.numeric_columns : HasBad(table, c, Numbers)}
    \cup {c \in spec.date_columns : HasBad(table, c, Dates)}
    \cup {c \in DOMAIN spec.enum_columns : HasBad(table, c, spec.enum_columns[c])}

BugUnusable(spec, table) == MissingKeys(spec, table) # {}
Unusable(spec, table) == MissingKeys(spec, table) # {} \/ table.rows = <<>>

_diagnose_table(spec, table) ==
    LET warnings == Warnings(spec, table)
        columns == ColumnWarnings(spec, table)
    IN  [rows |-> Len(table.rows), missing |-> FALSE, warnings |-> warnings, columns |-> columns,
         status |-> IF Unusable(spec, table) /\ spec.required THEN "error"
                    ELSE IF Unusable(spec, table) \/ warnings # {} \/ columns # {} THEN "warning"
                    ELSE "ok"]

diagnose(parsed) ==
    [t \in Tables |->
        IF t \in DOMAIN parsed THEN _diagnose_table(SpecOf(t), parsed[t])
        ELSE [rows |-> 0, missing |-> TRUE, warnings |-> {"missing"}, columns |-> {},
              status |-> IF SpecOf(t).required THEN "error" ELSE "warning"]]

Blocked == \E t \in Tables : diagnostics[t].status = "error"

-----------------------------------------------------------------------------
(* Loading what write_tables stored *)

\* What DuckDB makes of a cell.  One with nothing in it is NULL, and so is what
\* is no number, or beyond the column, where it keeps numbers: integers of the
\* entries, and floats of four bytes (REAL) elsewhere.
Rounded(column, v) ==
    IF v # Long THEN v ELSE IF column = "entry_id" THEN Entire ELSE Nearest
Cast(t, column, v) ==
    IF column \notin NotText(t) THEN (IF v = Empty THEN Null ELSE v)
    ELSE IF v \in Numbers \ {Grouped, Huge} THEN Rounded(column, v) ELSE Null
BugWithoutCommas(v) == v
WithoutCommas(v) == IF v = Grouped THEN Digits ELSE v

_projection(t, column, v) == Cast(t, column, IF column \in NotText(t) THEN WithoutCommas(v) ELSE v)

load_run_tables(parsed) ==
    [t \in Tables |->
        IF t \notin DOMAIN parsed THEN <<>>
        ELSE [i \in DOMAIN parsed[t].rows |->
                [c \in SpecOf(t).columns |->
                    IF c \in Range(parsed[t].header)
                    THEN _projection(t, c, Values(parsed[t], c)[i])
                    ELSE Null]]]

\* The strict ingestion reads the files as they were sent: what it accepts (the
\* rows of one width, and every number one that casts), and what it loads.
Files == [t \in DOMAIN tables |-> tables[t].file]

validar_archivos(files) ==
    /\ Tables \subseteq DOMAIN files
    /\ \A t \in Tables : /\ Range(files[t].header) = SpecOf(t).columns
                         /\ Len(files[t].header) = Cardinality(SpecOf(t).columns)
_revisar_contenido(files) ==
    \A t \in Tables : \A i \in DOMAIN files[t].rows :
        LET row == files[t].rows[i]
            header == files[t].header
        IN  /\ Len(row) = Len(header)
            /\ \A c \in NotText(t) : LET v == row[IndexOf(header, c)]
                                    IN  v = Empty \/ Cast(t, c, v) # Null
cargar_csvs(files) ==
    [t \in Tables |-> [i \in DOMAIN files[t].rows |-> [c \in SpecOf(t).columns |->
        Cast(t, c, files[t].rows[i][IndexOf(files[t].header, c)])]]]

-----------------------------------------------------------------------------
(* The upload *)

Entry == [folder : STRING, ext : STRING, stem : Tables \cup {NoTable},
          state : {"ok", "encrypted", "unreadable", "binary"},
          header : Seq(STRING), rows : Seq(Seq(Cells) \ {<<>>})]
Part == [ext : STRING, readable : BOOLEAN, entries : Seq(Entry)]

ASSUME UploadsAreFiles ==
    \A files \in Uploads :
        /\ files \in Seq(Part)
        /\ \A i \in DOMAIN files : files[i].ext = "csv" => Len(files[i].entries) = 1

Nothing == [t \in {} |-> {}]

Init ==
    /\ upload \in Uploads
    /\ phase = "received" /\ code = "none"
    /\ entries = <<>> /\ candidates = <<>> /\ ignored = {}
    /\ sources = [t \in Tables |-> <<>>]
    /\ tables = Nothing /\ diagnostics = Nothing /\ loaded = Nothing

Parts == Range(upload)
Archives == {i \in DOMAIN upload : upload[i].ext = "zip"}

\* UploadRejectedError: nothing is stored.
Reject(why) ==
    /\ phase' = "rejected" /\ code' = why
    /\ UNCHANGED <<upload, entries, candidates, ignored, sources, tables, diagnostics, loaded>>

Shape ==
    IF upload = <<>> THEN "no_files"
    ELSE IF \E part \in Parts : part.ext \notin {"zip", "csv"} THEN "unsupported_format"
    ELSE IF Archives # {} /\ Cardinality(Archives) # Len(upload) THEN "mixed_formats"
    ELSE IF Cardinality(Archives) > 1 THEN "multiple_archives"
    ELSE IF Archives # {} /\ ~upload[1].readable THEN "invalid_archive"
    ELSE "ok"

RefuseShape == phase = "received" /\ Shape # "ok" /\ Reject(Shape)

OpenZip ==
    /\ phase = "received" /\ Shape = "ok" /\ Archives # {}
    /\ phase' = "reading" /\ entries' = upload[1].entries
    /\ UNCHANGED <<upload, code, candidates, ignored, sources, tables, diagnostics, loaded>>

_read_csvs ==
    /\ phase = "received" /\ Shape = "ok" /\ Archives = {}
    /\ phase' = "mapping" /\ candidates' = [i \in DOMAIN upload |-> upload[i].entries[1]]
    /\ UNCHANGED <<upload, code, entries, ignored, sources, tables, diagnostics, loaded>>

\* The parts of a path are those between slashes: "private\" is a part of a name.
IsMetadata(file) == file.folder \in {"__MACOSX/", ".git/"}
IsPrivate(file) == file.folder = "private/"
IsSetAside(file) == IsPrivate(file) \/ (file.state # "encrypted" /\ file.ext # "csv")

\* One turn of the loop of _read_zip.
_read_zip ==
    /\ phase = "reading" /\ entries # <<>>
    /\ LET file == Head(entries)
       IN  \/ /\ ~IsMetadata(file) /\ ~IsSetAside(file)
              /\ file.state \in {"encrypted", "unreadable"}
              /\ Reject("invalid_archive")
           \/ /\ \/ IsMetadata(file) /\ UNCHANGED <<candidates, ignored>>
                 \/ /\ ~IsMetadata(file) /\ IsSetAside(file)
                    /\ ignored' = ignored \cup {file} /\ UNCHANGED candidates
                 \/ /\ ~IsMetadata(file) /\ ~IsSetAside(file)
                    /\ file.state \notin {"encrypted", "unreadable"}
                    /\ candidates' = Append(candidates, file) /\ UNCHANGED ignored
              /\ entries' = Tail(entries)
              /\ UNCHANGED <<upload, phase, code, sources, tables, diagnostics, loaded>>

EndOfZip ==
    /\ phase = "reading" /\ entries = <<>>
    /\ phase' = "mapping"
    /\ UNCHANGED <<upload, code, entries, candidates, ignored, sources, tables, diagnostics, loaded>>

\* One turn of the loop of _map_csvs.
_map_csvs ==
    /\ phase = "mapping" /\ candidates # <<>>
    /\ LET file == Head(candidates)
           name == TableOf(file)
       IN  \/ file.state = "binary" /\ Reject("invalid_csv")
           \/ /\ file.state # "binary"
              /\ \/ /\ name = NoTable
                    /\ ignored' = ignored \cup {file} /\ UNCHANGED <<sources, tables>>
                 \/ /\ name # NoTable
                    /\ sources' = [sources EXCEPT ![name] = Append(@, file)]
                    /\ tables' = [t \in DOMAIN tables \cup {name} |->
                                    IF t = name THEN parse_csv(file) ELSE tables[t]]
                    /\ UNCHANGED ignored
              /\ candidates' = Tail(candidates)
              /\ UNCHANGED <<upload, phase, code, entries, diagnostics, loaded>>

BugDuplicated == \E t \in Tables : Len(sources[t]) > 2
Duplicated == \E t \in Tables : Len(sources[t]) > 1

RefuseTables ==
    /\ phase = "mapping" /\ candidates = <<>>
    /\ \/ Duplicated /\ Reject("duplicate_table")
       \/ ~Duplicated /\ DOMAIN tables = {} /\ Reject("no_tables_found")

\* diagnose, write_tables and the row of the run.
Store ==
    /\ phase = "mapping" /\ candidates = <<>> /\ ~Duplicated /\ DOMAIN tables # {}
    /\ phase' = "stored" /\ diagnostics' = diagnose(tables)
    /\ UNCHANGED <<upload, code, entries, candidates, ignored, sources, tables, loaded>>

\* start_run refuses what is blocked; execute_run loads the rest.
RefuseStart ==
    /\ phase = "stored" /\ Blocked
    /\ phase' = "blocked" /\ code' = "validation_blocked"
    /\ UNCHANGED <<upload, entries, candidates, ignored, sources, tables, diagnostics, loaded>>

Load ==
    /\ phase = "stored" /\ ~Blocked
    /\ phase' = "loaded" /\ loaded' = load_run_tables(tables)
    /\ UNCHANGED <<upload, code, entries, candidates, ignored, sources, tables, diagnostics>>

Next == \/ RefuseShape \/ OpenZip \/ _read_csvs \/ _read_zip \/ EndOfZip \/ _map_csvs
        \/ RefuseTables \/ Store \/ RefuseStart \/ Load

Spec == Init /\ [][Next]_vars

-----------------------------------------------------------------------------
(* Properties *)

Sent == IF Archives # {} THEN upload[1].entries
                         ELSE [i \in DOMAIN upload |-> upload[i].entries[1]]
Considered ==
    {i \in DOMAIN Sent : Archives = {} \/ (/\ ~IsMetadata(Sent[i]) /\ ~IsPrivate(Sent[i])
                                           /\ Sent[i].ext = "csv")}
FilesOf(t) == {i \in Considered : TableOf(Sent[i]) = t}
Accepted == phase \in {"stored", "blocked", "loaded"}

\* In whatever order the files come (and an archive or a browser may give
\* them in any), a table is the one file that names it or has its columns, an
\* upload with two files for a table is refused, and every other file is either
\* reported as ignored or metadata of the operating system.  Archives that spell
\* a private folder with a backslash are excepted: ingest.py means to skip it
\* (lines 9 to 11), and its parts do not show it.
EveryFileIsAccountedFor ==
    LET Misread == Archives # {} /\ \E i \in DOMAIN Sent : Sent[i].folder = "private\\"
    IN  ~Misread =>
        /\ Accepted =>
            /\ \A t \in Tables :
                /\ Cardinality(FilesOf(t)) <= 1
                /\ t \in DOMAIN tables <=> FilesOf(t) # {}
                /\ \A i \in FilesOf(t) : tables[t].file = Sent[i]
            /\ \A i \in DOMAIN Sent :
                \/ Archives # {} /\ IsMetadata(Sent[i])
                \/ Sent[i] \in ignored
                \/ \E t \in Tables : i \in FilesOf(t)
        /\ code = "duplicate_table" => \E t \in Tables : Cardinality(FilesOf(t)) > 1
        /\ code = "no_tables_found" => \A t \in Tables : FilesOf(t) = {}

\* A run can be started exactly if what was sent has a usable file for each
\* required table: with its key columns and at least one row that is not
\* blank.  The engine then has rows in those tables.
StartableRunsAreUsable ==
    LET Usable(t) == \E i \in FilesOf(t) : /\ SpecOf(t).key_columns \subseteq Range(Sent[i].header)
                                           /\ Records(Sent[i]) # <<>>
        required == {t \in Tables : SpecOf(t).required}
    IN  /\ phase = "loaded" => \A t \in required : Usable(t) /\ loaded[t] # <<>>
        /\ phase = "blocked" => \E t \in required : ~Usable(t)

\* Whether a row of the file goes as far as the column, and its cell there.
Reaches(file, row, column) ==
    column \in Range(file.header) /\ IndexOf(file.header, column) <= Len(row)
CellOf(file, row, column) == row[IndexOf(file.header, column)]

\* Whether the user was told, before the run could be started, that the engine
\* might miss the cell: its column is absent, or has values of another kind, or
\* its row has not the width of the header.
Announced(t, column, row, header) ==
    \/ column \in diagnostics[t].columns
    \/ column \notin Range(header) /\ "keys" \in diagnostics[t].warnings
    \/ Len(row) # Len(header) /\ "malformed" \in diagnostics[t].warnings

\* Where the diagnosis does not see what the loader loses: a number beyond the
\* column, and the number of a ledger entry, at which it does not look.
Unnoticed(t, column, cell) ==
    column \in NotText(t) /\ (cell = Huge \/ (t = "ledger" /\ column = "entry_id"))

\* Files that the strict endpoint accepts give a run the tables that cargar_csvs
\* builds.
LoadersAgree ==
    phase = "loaded" /\ validar_archivos(Files) /\ _revisar_contenido(Files) =>
        loaded = cargar_csvs(Files)

\* The engine has as many rows of a table as the user was told, in the order of
\* the file.  A cell holds what the file has in that column of that row, a
\* number without its commas and rounded to what the column can hold, or it is
\* NULL; and if the file was not blank there, the NULL was announced, but for
\* what goes unnoticed.  Files that the strict endpoint accepts give the engine
\* the same tables there, if none has a row of blanks.
EngineReadsTheUpload ==
    /\ phase = "loaded" => \A t \in Tables :
            /\ Len(loaded[t]) = diagnostics[t].rows
            /\ \A i \in FilesOf(t), r \in DOMAIN loaded[t], c \in SpecOf(t).columns :
                LET row == Records(Sent[i])[r]
                    cell == CellOf(Sent[i], row, c)
                IN  IF loaded[t][r][c] = Null
                    THEN \/ Announced(t, c, row, Sent[i].header)
                         \/ /\ Reaches(Sent[i], row, c)
                            /\ cell \in Blanks \/ Unnoticed(t, c, cell)
                    ELSE /\ Reaches(Sent[i], row, c)
                         /\ loaded[t][r][c] = IF c \in NotText(t) THEN Rounded(c, WithoutCommas(cell))
                                                                 ELSE cell
    /\ phase = "loaded" /\ (\A t \in DOMAIN Files : \A i \in DOMAIN Files[t].rows :
                                ~(Range(Files[t].rows[i]) \subseteq Blanks)) => LoadersAgree

\* What loader.py says of the warnings (lines 5 to 9): that everything that can
\* be wrong with a table that is loaded was reported.
EveryLossIsAnnounced ==
    phase = "loaded" => \A t \in Tables : \A i \in FilesOf(t), r \in DOMAIN loaded[t] :
        \A c \in SpecOf(t).columns :
            LET row == Records(Sent[i])[r]
            IN  loaded[t][r][c] = Null =>
                    \/ Announced(t, c, row, Sent[i].header)
                    \/ Reaches(Sent[i], row, c) /\ CellOf(Sent[i], row, c) \in Blanks
=============================================================================
