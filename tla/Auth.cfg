\* Two people who may share an address, or one in two tabs; one fault, one
\* logout, one tick of the clock.
SPECIFICATION FairSpec
CONSTANTS
    ana = ana
    eva = eva
    t1 = t1
    t2 = t2
    NoOne = NoOne
    People = {ana, eva}
    Addresses = {"mail"}
    Spellings = {"normalized", "other"}
    Tabs = {t1, t2}
    Households <- MCHouseholds
    Ttl = 1
    TimeLimit = 1
    FaultLimit = 1
    LogoutLimit = 1
INVARIANTS
    OnlyOwnersSignIn
    SignedOutStaysOut
PROPERTIES
    OwnersGetIn
