------------------------------- MODULE MCAuth -------------------------------
(* Who has which address and tab, for the checks of Auth. *)
EXTENDS Auth

CONSTANTS ana, eva, t1, t2

\* Two people share an address, or ana has both tabs.
MCHouseholds ==
    {[address |-> [p \in {ana, eva} |-> "mail"],
      person |-> [t \in {t1, t2} |-> IF t = t1 THEN ana ELSE q]] : q \in {ana, eva}}
=============================================================================
