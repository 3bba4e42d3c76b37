----------------------------- MODULE MCSatImport -----------------------------
(* Model values for the checks of SatImport. *)
EXTENDS SatImport, TLC

CONSTANTS p1, p2, a, b, bad, blank, dash

MCContents == {a, b, bad, blank, dash}
MCKind == (a :> "usable") @@ (b :> "usable") @@ (bad :> "malformed")
          @@ (blank :> "blank") @@ (dash :> "empty")
R(no, content) == [no |-> no, content |-> content]

\* A row that repeats, under numbers out of order and under none; the same
\* listing renumbered; one that has lost a row.
Listing == <<R(3, a), R(NoNumber, b), R(1, a), R(4, bad), R(2, b)>>
Renumbered == <<R(1, b), R(2, a), R(NoNumber, a), R(0, blank)>>
Shorter == <<R(5, b)>>
\* A listing with a row whose RFC is only punctuation.
Dashed == <<R(1, a), R(2, dash)>>

MCFiles == {Listing, Renumbered, Shorter, Dashed}
FilesDashed == {Shorter, Dashed}

Symmetry == Permutations({p1, p2})
=============================================================================
