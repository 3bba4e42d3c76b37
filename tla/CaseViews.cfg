\* 2,880 estates, their audits, and the views of their case files.
SPECIFICATION ViewSpec
CONSTANTS
    Centavo = 3
    MontoMinimo = 1500
    DiasUmbral = 3
    MIN_EXHIBITS = 3
    MAX_AUTORIZACIONES_CONTEXTO = 3
    Falibles <- MCFalibles
    Estates <- MCTodas
    Abribles <- MCTodas
    Hojeables <- MCHojeables
    Consultas <- MCConsultas
    Limites = {0, 1, 3}
    DEFAULT_PAGE_SIZE = 2
    MAX_PAGE_SIZE = 2
    SEARCH_ENTITY_LIMIT = 2
    MAX_RELATED = 3
INVARIANTS
    EverySignalIsAnswered
    OnlyUntidyIdsFail
    DecoysAreSpared
    MoneyIsClaimedOnce
    ReportReconciles
    EvidenceIsShown
    TrailsAreDrawn
    FlaggedAreCounted
    TimelineAgreesWithGraph
    MarksHaveEvents
    PagesAreComplete
\* The audit ends, and so does the walk through the pages.
CHECK_DEADLOCK FALSE
