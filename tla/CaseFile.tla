------------------------------ MODULE CaseFile ------------------------------
(***************************************************************************)
(* The case file of a completed run (app/casefile): every view of it reads *)
(* one CaseIndex, built from the stored tables and the stored analysis by  *)
(* the first request that needs it and kept in a small LRU cache.          *)
(*                                                                         *)
(* A request takes its data in four pieces, none of them in the same       *)
(* transaction as another: the run's row, the fraud_analysis row, the      *)
(* fraud_signal rows, and the CSV files, which a worker thread loads with  *)
(* the loader that makes an empty table of a missing file.  The writers    *)
(* are the handlers of RunLifecycle.  What happens between two awaits is   *)
(* one step: the look into the cache belongs to the read of the row, and   *)
(* the lock of the cache makes each of its operations one step.            *)
(***************************************************************************)
EXTENDS RunLifecycle

CONSTANTS
    Readers,        \* concurrent requests for a view of a case file
    CacheSize       \* _CACHE_SIZE

ASSUME CacheAssumption == CacheSize \in Nat \ {0}

VARIABLES
    reader,     \* per request: where it stands, and what it has read
    cache       \* the indexes kept, the least recently used first

fileVars == <<reader, cache>>
allVars == <<vars, fileVars>>

-----------------------------------------------------------------------------
(* Values *)

\* The version of a run is its finished_at, as the number of the attempt.
\* "whole" is the estate the engine audited, with all of the signals of its
\* analysis; an index without the tables, or without the signals, is "torn".
\* The answer is that of the last request: a view of such an index, or "error".
NoReader == [step |-> "idle", run |-> NoRun, version |-> 0, quality |-> "whole",
             answer |-> "none"]

Key(index) == <<index.run, index.version>>
Cached == {cache[i] : i \in DOMAIN cache}
CachedFor(r) == {index \in Cached : index.run = r}

FileInit ==
    /\ Init
    /\ reader = [q \in Readers |-> NoReader]
    /\ cache = <<>>

-----------------------------------------------------------------------------
(* The cache *)

\* The sequence without the elements of S, the others in their order.
Without(s, S) ==
    LET kept == {i \in DOMAIN s : s[i] \notin S}
        Place(i) == Cardinality({j \in kept : j <= i})
    IN  [n \in 1..Cardinality(kept) |-> s[CHOOSE i \in kept : Place(i) = n]]

Hit(r, version) == {index \in Cached : Key(index) = <<r, version>>}
Touch(index) == Append(Without(cache, {index}), index)

\* popitem(last=False) until the cache fits.
Newest(kept) ==
    SubSeq(kept, Len(kept) - (IF Len(kept) > CacheSize THEN CacheSize ELSE Len(kept)) + 1,
           Len(kept))

\* One index per run: it takes the place of those of the run.
Remember(index) ==
    Newest(Append(Without(cache, CachedFor(index.run)), index))

-----------------------------------------------------------------------------
(* A request *)

Reading(q, step) == reader[q].step = step
Answer(q, answer) == reader' = [reader EXCEPT ![q] = [NoReader EXCEPT !.answer = answer]]
Read(q, step, quality) ==
    reader' = [reader EXCEPT ![q].step = step, ![q].quality = quality]

\* 404 for a run that is not there or not the caller's, 409 for one that is
\* not completed: neither changes anything.
CanRead(u, r) == Owns(u, r) /\ status[r] = "completed"

\* The row is read and the cache looked into.
OpenCaseFile(q, u, r) ==
    /\ Reading(q, "idle")
    /\ CanRead(u, r)
    /\ LET hits == Hit(r, startedAt[r])
       IN \/ \E index \in hits :
                /\ Answer(q, index.quality)
                /\ cache' = Touch(index)
          \/ /\ hits = {}
             /\ reader' = [reader EXCEPT ![q] =
                   [NoReader EXCEPT !.step = "analysis", !.run = r, !.version = startedAt[r]]]
             /\ UNCHANGED cache

\* get_analysis, its first SELECT.
ReadAnalysis(q) ==
    /\ Reading(q, "analysis")
    /\ IF analysis[reader[q].run] = "none" THEN Answer(q, "error")
       ELSE Read(q, "signals", "whole")
    /\ UNCHANGED cache

\* Its second: the signals of an analysis go with its row.
ReadSignals(q) ==
    /\ Reading(q, "signals")
    /\ Read(q, "building",
            IF analysis[reader[q].run] = "none" THEN "torn" ELSE "whole")
    /\ UNCHANGED cache

\* build_index, in a worker thread.
Build(q) ==
    /\ Reading(q, "building")
    /\ Read(q, "remembering",
            IF dataset[reader[q].run] = "written" THEN reader[q].quality ELSE "torn")
    /\ UNCHANGED cache

\* Back on the event loop.
RememberIndex(q) ==
    /\ Reading(q, "remembering")
    /\ cache' = Remember([run |-> reader[q].run, version |-> reader[q].version,
                          quality |-> reader[q].quality])
    /\ Answer(q, reader[q].quality)

Load(q) == ReadAnalysis(q) \/ ReadSignals(q) \/ Build(q) \/ RememberIndex(q)

-----------------------------------------------------------------------------
(* The specification *)

ReaderStep(q) ==
    \/ \E u \in Users, r \in Runs : OpenCaseFile(q, u, r)
    \/ Load(q)

WriterStep ==
    /\ \E h \in Handlers : Request(h) \/ Continue(h)
    /\ UNCHANGED fileVars

\* The requests and the cache are the process's.
FileCrash ==
    /\ Crash
    /\ reader' = [q \in Readers |-> NoReader]
    /\ cache' = <<>>

FileNext ==
    \/ \E q \in Readers : ReaderStep(q) /\ UNCHANGED vars
    \/ WriterStep
    \/ FileCrash

FileSpec == FileInit /\ [][FileNext]_allVars

-----------------------------------------------------------------------------
(* Properties *)

\* The cache holds at most CacheSize indexes and at most one of a run, and that
\* of a run that is still there is the one a request would build now: of the
\* run's present version, and whole.  An index built while the run was being
\* deleted is torn, and nobody who asks for it is answered.
CacheIsCurrent ==
    /\ Len(cache) <= CacheSize
    /\ \A r \in Runs : \A index \in CachedFor(r) :
        /\ Cardinality({i \in DOMAIN cache : cache[i].run = r}) = 1
        /\ HasRow(r) =>
            /\ status[r] = "completed"
            /\ index.version = startedAt[r]
            /\ index.quality = "whole"

\* "The case file sees exactly the estate the engine audited."
AnswersAreWhole == \A q \in Readers : reader[q].answer # "torn"

=============================================================================
