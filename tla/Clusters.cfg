\* Every input of three signals of up to three keys, and of four of up to two.
SPECIFICATION FairSpec
CONSTANTS
    Llaves <- MCLlaves
    Entradas <- MCEntradas
INVARIANTS
    GroupsAreComponents
PROPERTIES
    Ends
\* agrupar returns.
CHECK_DEADLOCK FALSE
