------------------------------ MODULE MCIngest ------------------------------
(* Uploads for the checks of Ingest: small ones of any files in any order,  *)
(* and archives of all tables, of which one or two have something about them. *)
EXTENDS Ingest

InOrder(S) == FoldSet(LAMBDA x, s : Append(s, x), <<>>, S)
Header(t) == InOrder(SpecOf(t).columns)
Minimal(t) == InOrder(SpecOf(t).key_columns)
Cell(t, c) ==
    CASE c \in NotText(t) -> "7"
      [] c \in SpecOf(t).date_columns -> "2026-03-29"
      [] c \in DOMAIN SpecOf(t).enum_columns -> CHOOSE v \in SpecOf(t).enum_columns[c] : TRUE
      [] OTHER -> "x"
MCCells ==
    Numbers \cup Dates \cup Blanks \cup {"x", "y"}
    \cup UNION {UNION Range(SpecOf(t).enum_columns) : t \in Tables}
Row(t, header) == [i \in DOMAIN header |-> Cell(t, header[i])]

File(stem, header, rows) ==
    [folder |-> "", ext |-> "csv", stem |-> stem, state |-> "ok", header |-> header, rows |-> rows]
Clean(t, header) == File(t, header, <<Row(t, header)>>)
Without(header, c) == SelectSeq(header, LAMBDA h : h # c)
Put(header, row, c, v) == [i \in DOMAIN row |-> IF header[i] = c THEN v ELSE row[i]]

ZipOf(files) == <<[ext |-> "zip", readable |-> TRUE, entries |-> files]>>
LooseOf(files) == [i \in DOMAIN files |-> [ext |-> "csv", readable |-> TRUE, entries |-> <<files[i]>>]]

-----------------------------------------------------------------------------
(* Small uploads *)

Inv == Clean("invoices", Minimal("invoices"))
Bank == Clean("bank_txns", Minimal("bank_txns"))
Nameless(t) == [Clean(t, Header(t)) EXCEPT !.stem = NoTable]
Strange == File(NoTable, <<"x">>, <<<<"7">>>>)

Pool ==
    { Inv, Bank, Nameless("invoices"), Nameless("vendors"), Strange,
      [Inv EXCEPT !.folder = "private/"], [Inv EXCEPT !.folder = "private\\"],
      [Inv EXCEPT !.folder = "__MACOSX/"], [Bank EXCEPT !.state = "binary"],
      [Strange EXCEPT !.ext = "txt"], [Inv EXCEPT !.state = "encrypted"],
      [Bank EXCEPT !.state = "unreadable"] }
Some(n) == [1..n -> Pool]
LooseFile(f) == f.ext = "csv" /\ f.state \in {"ok", "binary"}

Small ==
    {ZipOf(f) : f \in Some(0) \cup Some(1) \cup Some(2) \cup Some(3)}
    \cup {LooseOf(f) : f \in {f \in Some(1) \cup Some(2) \cup Some(3) : \A i \in DOMAIN f : LooseFile(f[i])}}

Misshapen ==
    { <<>>, ZipOf(<<Inv>>) \o LooseOf(<<Bank>>), ZipOf(<<Inv>>) \o ZipOf(<<Bank>>),
      <<[ext |-> "xlsx", readable |-> TRUE, entries |-> <<>>]>>,
      <<[ext |-> "zip", readable |-> FALSE, entries |-> <<>>]>> }

-----------------------------------------------------------------------------
(* Archives of the eight tables *)

\* What may be about the file of a table.
Variants(t) ==
    LET h == Header(t)
        r == Row(t, h)
        With(c, v) == File(t, h, <<r, Put(h, r, c, v)>>)
    IN  { File(t, h, <<>>), File(t, h, <<r, [i \in DOMAIN r |-> Empty], Put(h, r, SpecOf(t).id, Digits)>>),
         File(t, h, <<r, [i \in DOMAIN r |-> Spaces], Put(h, r, SpecOf(t).id, Digits)>>),
          File(t, h, <<[i \in 1..(Len(r) - 1) |-> r[i]], r>>), File(t, h, <<r \o <<"x">>>>),
          File(t, h \o <<h[1]>>, <<r \o <<"y">>>>) }
        \cup {Clean(t, Without(h, c)) : c \in SpecOf(t).columns}
        \cup {With(c, v) : c \in SpecOf(t).columns, v \in {Empty, Spaces, "x", Grouped, Long, Huge}}

Whole(t) == Clean(t, Header(t))
Archive(files) == ZipOf([i \in DOMAIN TABLE_SPECS |-> files[TABLE_SPECS[i].name]])
Full == UNION {{Archive([u \in Tables |-> IF u = t THEN v ELSE Whole(u)]) : v \in Variants(t)} : t \in Tables}

MCUploads == Small \cup Misshapen \cup Full
=============================================================================
