# Verification of infosys-backend

The backend of a fraud investigation tool (`src/app`, FastAPI on PostgreSQL). A
user uploads a ZIP of CSV tables; a background task audits them with a fraud
engine (DuckDB, 24 SQL rules and an assembler); the outcome is stored, streamed
while it is being produced, and shown as a "case file". A separate command keeps
the official list of suspect taxpayers (SAT, article 69-B) in the database.

This directory holds TLA+ modules that model the program, TLC configurations
that check them on small instances, and proofs that TLAPS checks for every
value of the constants. `PROJECT.json` is the index: every definition with the
lines it stands for, every run with its properties, the hazards of the code and
the properties that look for them.

    tlc -workers 2 -config CaseFile_safety.cfg MCCaseFile
    tlapm RunLifecycle_proofs.tla    (and the other seven *_proofs modules)

## 1. The system

| Part | Where | State it keeps | Operations |
|---|---|---|---|
| Runs | `app/runs`, `app/api/v1/runs.py` | the row `investigation_run`, the log `run_event`, a directory of CSV files per run | upload, start, retry, delete one, delete all, read |
| Background task | `execute_run` in `app/runs/service.py` | where it is; the result it has not stored yet | log the start, audit, store, or else close as failed |
| Event stream | `open_event_stream`, `_follow_events` | the last `seq` it sent | replay, poll, end |
| Ingest | `app/runs/ingest.py` | none: a ZIP in, tables and a diagnosis out | read, map, parse, diagnose, write |
| Case file | `service.py`, `index.py` in `app/casefile` | an LRU cache of indexes, by run and version | build, look up, evict |
| Case file: views | `app/casefile/views.py` | none: a function of an index; the cursor of a list is the client's | report, records, graph, timeline, summary, search |
| Stored analyses | `app/fraud/repository.py` | `fraud_analysis`, `fraud_signal` | save, read |
| Fraud engine: rules | `app/fraud/rules` | none | a query each, whose rows are signals |
| Fraud engine: assembler | `app/fraud/engine/ensamblador.py`, `entidades.py`, `evidencia.py`, `cobertura.py`, `catalogo.py`, `estate.py` | clusters, findings and leads of one audit | group, resolve, cite, decide |
| Fraud engine: publication | `submission.py`, `validacion.py`, `narrativa.py` | none | check, translate, withhold |
| SAT listing | `app/sat`, `database.sql` | `sat_blacklist_record`, the shared table `sat_blacklist_staging` | parse, copy in batches, merge |
| Authentication | `app/auth`, `api/v1/auth.py` | `app_user`, `auth_session`; a cookie per browser | register, log in, who am I, log out |
| Core | `app/core`, `app/main.py` | the connection pool | open, close; a transaction per handler |
| Offline tools | `app/estate_generator`, `src/evaluation`, `src/scripts` | files | generate, score, export |

**How they interact.** A request handler and the background task it schedules
run in one event loop and share nothing but the database and the directory of
the run. They interleave at every `await`. A transaction is atomic; a handler
is several of them. The engine runs in a worker thread, on the files, and
`load_run_tables` makes an *empty table of a missing file*. The stream and the
case file read what the task writes, each in several statements with their own
snapshots. Nothing but the order of the writes keeps row and directory together.

**What is hard.** Two starts of one run; a delete that meets a start, a task, a
stream or an index being built; a transaction that fails in the middle of
`execute_run`, and a second one that must make up for it; a commit that takes
effect but is not acknowledged (the pool has a `command_timeout`); a restart of
the process; a stream that reads the events and *then* the status; a cursor
kept across a retry that restarts the log at 1; several containers importing
the SAT list into one staging table at start-up; and in the engine, where
nothing is concurrent, long chains of checks on data of which almost nothing is
known: a rule that fails, an id with spaces or twice, two vendors of one
account, an employee's account that is a vendor's. The case file joins what the
engine has said with tables it reads once more, by other rules about repeated
ids, spaces and shared accounts than the engine's. Sign-in is several statements
without a transaction around them, and nothing keeps the answers to one browser
in order.

**What makes each part right.**

- *Runs*: one task per run; a task has its run to itself; an analysis exactly
  for completed runs and of the tables that were uploaded; a log that ends with
  the event that tells the status; a row has its files; a completed run is final.
- *Streams*: events in order, once, and none missing but for what a retry makes a
  client miss; the end that is told is true;
  streams end; a client that reconnects learns the end.
- *Case file*: answers from the estate that was audited, whole; a small cache
  that is never stale.
- *Case file views*: what a finding claims is found again and shown; graph,
  timelines, counts and lists say the same of one entity; no record is skipped.
- *Authentication*: a session is of whoever knows the password; a token that was
  signed out is dead; nobody is locked out of an address by a failure halfway.
- *Ingest*: every file is used or reported, in whatever order they come; a run that
  can be started has what the engine needs; the engine gets what was diagnosed.
- *SAT import*: the table agrees with the last import that committed; importing
  again changes nothing; the report adds up; no import blocks another for good.
- *Engine*: every signal is answered by exactly one finding or lead; an honest
  vendor is spared; the same money is claimed once; a finding that the
  assembler makes passes the checks that follow.

## 2. The modules

| Module | Models | Extends |
|---|---|---|
| `RunSpec` | what the run endpoints promise, each request one step | |
| `RunLifecycle` | `app/runs`: service, repository, routes; the schema of the run tables | |
| `RunLifecycle_proofs` | theorems about it | `RunLifecycle`, `TLAPS` |
| `EventStream` | `GET /runs/{id}/events` and its clients, with the writers of `RunLifecycle` | `RunLifecycle` |
| `EventStream_proofs` | theorems about it | `EventStream`, `RunLifecycle_proofs` |
| `CaseFile` | the index of a case file and its cache, with the writers of `RunLifecycle` | `RunLifecycle` |
| `CaseFile_proofs` | theorems about it | `CaseFile`, `RunLifecycle_proofs` |
| `Ingest` | `app/runs/ingest.py`, `app/fraud/loader.py`, `engine/ingesta.py`: from the files that are sent to the tables of the engine | |
| `Ingest_proofs` | theorems about it | `Ingest`, `TLAPS` |
| `SatImport` | `app/sat/importer.py` and the merge function in `database.sql` | |
| `SatImport_proofs` | theorems about it | `SatImport`, `TLAPS` |
| `Clusters` | `_UnionFind` and `agrupar` in `ensamblador.py`, loop by loop | |
| `Clusters_proofs` | theorems about it | `Clusters`, `TLAPS` |
| `Estate` | the tables, the queries of `estate.py`, and who an id, account or name is (`entidades.py`) | |
| `Rules` | nine rules, and what `catalogo.py`, `entidades.py` and `evidencia.py` know of each | `Estate` |
| `Assembler` | `auditar_conexion`: rules, clusters, decisions, checks, validator | `Rules` |
| `CaseIndex` | `app/casefile/index.py`: what an index computes from the tables and the analysis | `Assembler` |
| `CaseViews` | `app/casefile/views.py`: report, records, related records, entities, graph, timelines, counts, search | `CaseIndex` |
| `CaseViews_proofs` | theorems about the audit and its views | `CaseViews`, `TLAPS` |
| `Auth` | `app/auth`, `api/v1/auth.py`: accounts, sessions, cookies, and the people at the browsers | |
| `Auth_proofs` | theorems about it | `Auth`, `TLAPS` |
| `MC...` | the values of constants for TLC (`EventStream` needs none: its cfg says all) | the module of that name |

Operators named `Bug...` stand before the operator that they are a faulty
variant of. No specification uses them; they show that a property can fail.

### RunLifecycle

A run is the row (`status`, `owner`, `blocked`, `startedAt`), `log`, `analysis`
and `dataset`, the directory. A *handler* is one request with the background
task it leaves behind; its `step` is the await it is at. One action is one
transaction, or the code between two awaits:

| Actions | Code |
|---|---|
| `Upload`, `WriteTables`, `WriteTablesFails`, `InsertRun`, `DiscardUpload` | `create_run` (service 81-105): files first, then the row, `rmtree` if that fails |
| `ReadToStart`, `MarkRunning`, `StartRefused` | `start_run` (209-223): the check, then the conditional UPDATE of `mark_running`, which also clears the log |
| `LogStart`, `Analyze`, `StoreOutcome`, `StoreFailure`, `StoreWithoutRow` | `execute_run` (256-330) |
| `ReadToDelete`, `DeleteRun`, `DeleteRefused`, `RemoveDataset` | `delete_run` (190-198) |
| `DeleteRuns` | `delete_runs` (201-206): one DELETE for all of a user's runs that are not running |
| `Crash` | the process ends; `lifespan` does nothing about it on the next start |

A transaction ends in one of three ways: it *commits*; it *aborts*, and its
caller sees an exception; or it commits and its caller sees an exception all
the same (a *lost acknowledgement*). Left out: reads that change nothing, the
limits on uploads, what is in an event besides its type, and the middle of
`analysis_events`, which is one event here.

`RunSpec` is the abstract specification: create, start, close, erase.
`KeepsThePromise` says that `RunLifecycle` implements it, with `phase` mapped
to `status`, `result` to whether there is an analysis, and `told` to the
terminal event in the log.

### EventStream

Each client has a generator, `_follow_events`: `Poll` reads the events after
its `seq`, `Send` yields one, `Check` reads the status after an empty poll and
ends the stream unless the run is running. `OpenStream` and `Reconnect` are the
route, without and with `Last-Event-ID`; `Drop` is a connection that breaks.
The client is an EventSource: it connects again until it has been told the end.
The attempt in an event is not in the frame; it is there for the properties.

`FramesInOrder`: over all its streams a client gets events of consecutive numbers
from 1 on, so that none is left out of an attempt, and attempts never go back.
What the code does leave out is said there: a retry begins the log again at 1,
and a stream, or a client, that goes on from the attempt before gets the new
one from its own number on.

A run that a crash, or two failed transactions, left `running` for good (the code
has no recovery, as `docs/fraud_engine.md` 321 says) keeps its streams open, so `StreamsEnd` and `ClientsAreTold` excuse `Stranded` runs, and
`RunsCloseUnlessCrashed` a process that has crashed.
`ClientsAreTold` also excuses a client that has seen an earlier attempt (`Outrun`):
its `seq` may be past the end of the new log, and the code then sends nothing
more. The front end opens a new stream on a retry.

### CaseFile

A request reads the row and looks into the cache (`OpenCaseFile`), then reads
the analysis, the signals and the files (`ReadAnalysis`, `ReadSignals`,
`Build`), then remembers the index. An index is *whole* or *torn*; torn means
that the signals or the tables were gone when they were read. The version of a
run, its `finished_at`, is the number of the attempt. What a whole index holds
is `CaseIndex`. `MCCaseFile` runs all of `RunLifecycle` beside the readers, so
its run checks the properties of both.

### Ingest

An upload is taken as what the code can tell of it: the shape (an archive, loose
files), and of each file its directory, extension, the table its name or alias
stands for, its columns and rows. `Cells` are what a cell may hold: nothing,
spaces, a number with commas or without, one with more digits than its column
holds (`Long`), one beyond any column (`Huge`), a date, one of the expected
values, or any other text; `Null` is
what the engine has where it could not read a cell. `_read_zip` and `_map_csvs` are one turn of their loops, in
the order of the files; `Store` diagnoses, `RefuseStart` is the 409 of a
blocked run, and `Load` is `load_run_tables`. `TABLE_SPECS` are the eight
tables of `estate.py`, all columns included. `UploadsAreFiles` says what an upload is, for any number of
files; the run gives 3,128 of them.

`Cast` is what DuckDB makes of a cell: an empty one is NULL, one of spaces is
text where text is kept; in a column of numbers (REAL, a float of four bytes, or the INTEGER of
`ledger.entry_id`, `esquema.py`) a number is `Rounded` to what the column holds, and what is none, or
too large, is NULL. `cargar_csvs`, the strict ingestion of `POST /fraud/analyze`,
is there to be compared with the loader. It reads the files as they were
sent (`Files`): rows of blanks are rows of NULLs to it, rows of another width
and spaces or commas in a number make it refuse. The names in a
header are taken as normalised, so the model lets it accept a little more than it does.

The properties compare the outcome with the upload alone, whatever the order.
Three promises of the repository do not hold. A violation run shows the second; the
other two are exceptions that the properties name:

- An archive with backslashes in its paths gets files of `private\` past the
  check of `ingest.py` 187, whose docstring says that anything under `private/`
  is skipped, and `docs/como_funciona.md` 35 that uploads do. `EveryFileIsAccountedFor` leaves archives with such a
  folder out.
- `1e39` is a number to the diagnosis and NULL to a REAL column, and an
  `entry_id` that is no integer becomes NULL; neither is reported, although
  `loader.py` 5-7 says that all but a blocked table is (`EveryLossIsAnnounced`).
  `EngineReadsTheUpload` names the two as `Unnoticed`, and says that there is no third.
- A row of separators is a row to the strict endpoint and none to a run, although
  `loader.py` 18-19 says that what matches the schema gives the same tables
  (`LoadersAgree`). `EngineReadsTheUpload` has them agree on files without such rows.

### SatImport

A row of a file is a number and a content, and a content has the kind that the
parser and the constraints of the table make of it. `Truncate` takes the lock
of the staging table, which the transaction keeps to its end; `CopyBatch`
copies a batch; `Commit` merges (DISTINCT ON the hash with the least number, ON
CONFLICT set the number alone) and may lose its acknowledgement; `Rollback` is
any failure. `Deploy` is a change of `normalization.py`.

### Clusters

A step is one turn of a loop: the path halving of `raiz`, the link in `unir`
(the lesser root is kept, so that the result does not depend on the order), the
first pass over the signals, which keeps a root for each, and the second, which
asks for the root of that root. `GroupsAreComponents` compares the groups with
the connected components, defined without a union-find.

### Estate, Rules, Assembler

An estate is one record with the seven tables; an id, account, date or amount
is a small number, and `Nadie` is a cell that is blank (and NULL: no query finds it).
Amounts are whole parts of a centavo, `Centavo` of them to each: what the float32
cells hold. The engine adds them in double precision, which is exact for these, and rounds the
total to the centavo nearest to it, to the even one of two (`round` of Python). `Estate` has the queries of `estate.py` under their names,
and `Resolutor` (`Rfc`, `Clabe`, `Persona`...). `_empresa_rfc` is the heuristic
of the code: the receiver of most invoices from others; on a tie the code takes
the first in order, which may be a vendor. In `Rules` a rule is a set of
signals, the rows of its query: the seven of phantom vendors (one of which stands among
those of round tripping and has no family), and two of kickbacks that a
phantom vendor's signals meet. `Assembler` is the pipeline:

| Phase | Action | Code |
|---|---|---|
| `reglas` | `ejecutar_reglas`: all rules but those that raise | `runner.py` 72-98 |
| `agrupar` | clusters: the components that `Clusters` computes | `ensamblador.py` 166-195 |
| `resolver` | `resolver(cl)`: an accusation, or a lead with one of seven reasons; `CitaInexistente`: `build_exhibits` raises | 198-322, `evidencia.py`, `cobertura.py` |
| `traducir` | `traducir_finding`, `build_submission` | `submission.py` |
| `validar` | the official validator recomputes the totals | `validacion.py`, `validate_format.py` |

The audit ends `fin`, in `error` (an exception) or `retenido` (the validator
refuses; the audit is withheld). The last two are `Analyze` with the outcome
`error` in `RunLifecycle`. Clusters are decided in any order, since a decision
reads the estate and its own cluster only.

What the runs taught about this code, and the properties say:

- If `SHARED_CLABE_MULTI_RFC` raises, the vendors of one account are no longer
  one cluster and the same transfers are claimed by two findings. So
  `MoneyIsClaimedOnce` excepts that failure; `runner.py` reports it.
- An account of the company that is a vendor's or an employee's too stands for
  the company alone (`entidades.py` 69): it unites nobody, and two findings may
  cite one transfer to it. `Propia` excepts that; it was the attempt to prove
  `MoneyIsClaimedOnce` that showed it.
- Ingest warns of an id that is repeated, and no more (`ingest.py` 430). If its
  rows have different amounts, engine and validator may read different ones and
  the submission is withheld. A cited id with spaces around it is not found
  again and ends the audit. An amount of less than half a
  centavo is positive to the assembler and zero in the submission, which is withheld too.
  `OnlyUntidyIdsFail` says that there is no fourth way.
- The families of a cluster count for all in it: a vendor whose only family is
  the shared account is accused together with the other. `docs/como_funciona.md`
  section 7 says both that and "nobody on one family"; the code follows its table.

### CaseIndex, CaseViews

After an audit of `Assembler` has ended, `build_index` picks, of each id that is
repeated in a table, the row that comes first (`indice`); everything else in an
index is a function of the estate, the submission and that choice, written as
operators with the names of the code: `entity_status`, `clabe_owner`,
`row_entity`, `cited_in`, `resolve`. The choice (`Ordenes`) also has the row that comes last: of the
rows of one RFC, or of one employee, `vendor_rows` keeps that one only, and with
it one account (`ultima`). Amounts of an index are rounded row by row
(index 237) and then added, where the engine adds first and then rounds. Labels of the money trail are split again
into ids, as `split_trail_label` does. The views are functions of the index;
only the walk through a list of records has steps: `get_records` begins one with
a query and a size, `records_page` takes the next page from the cursor of the
one before, and in between the index may be evicted and built again, from rows in another order. An entity
id is a pair of prefix and name, and a finding stands for its number. The list of
entities is walked through as one of records is. `_related` are the records that
share an RFC or an account with one, cut to `MAX_RELATED` in the order in which
the code adds them.

`ReportReconciles`, `EvidenceIsShown`, `TrailsAreDrawn` and `MarksHaveEvents`
follow a finding from the engine into the report, the records and the search,
the graph, and the timelines; `FlaggedAreCounted` and `TimelineAgreesWithGraph` compare
two views with each other. What had to be excepted is what the code does:

- Rounding first and rounding last differ: the report finds a total again to
  within half a centavo and as much for each record, and the table whose total is nearest
  to the claim may be another one. It finds it exactly where rounding first makes no difference of half a
  centavo.
- An account that a vendor has in an earlier row of a repeated RFC has no holder in the
  index, though the engine names the vendor on it; `clabe_owner` says that it
  answers with the holder.
  `SinTitular`, `Conocida` and `Ambigua` except it: such a transfer is on no edge of the graph,
  and in a list by risk an index built from rows in another order may know another holder.
- An account with several owners is the first one's where one is asked for. `Exclusiva`
  keeps `TimelineAgreesWithGraph` to entities whose accounts nobody else has.
- Of an id that is repeated a page shows another row than the one that matched
  (views 352), and the report may add up another row than the engine did. So
  a related record whose id is repeated may not lead back, and an accused in no catalog,
  whom only an invoice or an order names, may be named by no record; so may one whom a
  record without an id names, which is cited nowhere (`CitaDudosa`; evidencia 69 skips blank ids).
- A citation is kept under the id with its spaces and looked up without them
  (index 387), so the record of an RFC uploaded with spaces is shown as uncited.
- If no company is known the graph has nobody in its middle, and a transfer
  between two accounts of one owner has no edge.
- An order or a contract outside the days of invoices and transfers is not
  among the events of a timeline (views 739), while its mark is.
- A lead names one entity of its cluster (ensamblador 258-264); the others have
  signals and are counted as clear.
- An account whose only owner has a blank id belongs to nobody for the index
  (index 324, 341): it is no node, and the money that went there is in the
  timeline of the other side and on no edge. `Conocida` excepts it; it was the
  attempt to prove `TimelineAgreesWithGraph` that showed it.

Rows of one id keep their order in a list, and the model knows of that order only
which one is read for the id, so `IdsOfTwoRows` allows no third row of an id in
an estate whose lists are walked through.

### Auth

A *tab* sends one request at a time; an action is one SQL statement, which is
one transaction: `register` and then `IssueSession`, `create_session`; `login`
likewise; `me`; `logout`. `Receive` is the browser taking the answer: it sets or
deletes the cookie whatever the cookie is by then. A cookie and a session
expire, each by the clock of its moment; `Fail` is a request that ends in an
error or an answer that is lost, with what was committed staying.
The person at the browser is the environment: asks to register, to sign in
where that is refused, and again when the session is gone. Passwords are whose
they are, addresses an address and how it was typed.

## 3. What is checked

`clusters`, `streams`, `auth` and `import_safety` check liveness too; the
other runs are pure safety runs. `CHECK_DEADLOCK FALSE` but for `auth`, where somebody can always ask: elsewhere clients may stop asking, an audit
returns, and the ids, attempts or imports of a model run out.

| Run | Bounds | Shows |
|---|---|---|
| `run_safety` | 1 user, 2 runs, 2 handlers, 2 attempts, 1 abort, 1 crash; 2 requests for case files, a cache of 1 | row, log, analysis and dataset agree at every interleaving; `RunSpec` is implemented; the cache is small, current and of closed runs |
| `run_faults` | the same with 1 abort and 2 lost acknowledgements | what holds even then: closed runs say so, running runs only close |
| `streams` | 1 run, 2 handlers, 1 client, 2 attempts, 1 abort, 1 crash, 1 broken connection | frames in order, the end that is told is true; runs close unless a crash or two faults left them, streams end, clients are told |
| `ingest` | 3,128 uploads: all of up to three of twelve files, in any order, zipped or loose; refused shapes; archives of the eight tables with one of them varied in a row, a cell or a column | every file is used or reported, what can be started is usable, the engine gets what was sent and diagnosed, and both loaders agree, but for the cases in section 2 |
| `import_safety` | 2 importers, 4 listings, 4 imports, 2 versions, batches of 2 | table, report and lock |
| `clusters` | every input of 3 signals of up to 3 keys and of 4 of up to 2, out of 4 keys | the union-find is right and ends |
| `audit` | 2,880 estates: 2 vendors, an employee, the company; 7 sets of invoices, with parts of a centavo, 8 of transfers, 4 of papers, 4 of listings, 3 of accounts, and an RFC with two accounts in 192; at most one of two rules fails; pages of 1 and 2 out of 4 lists of 108 of them; a search that shows 2 | the properties of the engine and of the views |
| `auth` | 2 people and 2 tabs, the two sharing an address or one with both tabs; 2 spellings, 1 fault, 1 logout, sessions of 1 tick of a clock with 1 | sessions belong to who typed the password, signed out tokens are dead, owners get in |
| `casefile_delete` (violation) | 1 run, 1 request | an answer from a torn estate |
| `import_malformed` (violation) | 1 import | one row whose RFC is only punctuation takes the file with it |
| `ingest_silent` (violation) | the uploads of `ingest` | a cell is lost without a warning |
| `import_normalization` (violation) | 2 versions | an import after a change of the normalization leaves the old values |

**Why the bounds are enough.** Two handlers are two requests or a request and a
task, which is what each race takes; two runs let a delete of all runs meet one
of them running; two attempts are a retry; an abort and a crash are two faults, and that it takes two
aborts to strand a run without a crash is proved.
The proofs lift all of these bounds for the properties they cover. One client is enough: clients do not
interact except through the log. A cache of one evicts at the second
run. Two files for one table take two files, and a third to come between them. Four imports are two that overlap and two that follow. With three signals of up to three
keys a signal can join two groups that exist already after a root was kept for
one of them, which is the case the second pass is for. The estates were chosen
so that each of the seven reasons, an accusation in each scheme, two findings,
an exception and a withheld submission happen, and for the views an unknown company, an
account with two owners, an entity both accused and declined, a repeated id,
an RFC with two accounts, and totals that rounding changes: `Centavo` is 3 in the run, so that
two amounts with a third of a centavo each lose it one by one and gain one together. Ties, rounded to
the even centavo, are left to the proofs, which are about any number of parts. A limit of two
entities cuts a search among three. One fault in `auth` is each of the places
where a request can end; a tick outlives every session. One user is enough for TLC: the
theorems are about any number.

**Fairness.** Weak fairness of a handler's own steps (`Continue`): the event
loop resumes every task that is ready, and the pool and worker threads answer
or raise. None for requests, which are the client's. Of a client only
`Reconnect` is fair, which is what a browser does. An importer runs its
transaction to an end. Nothing is fair about faults.
In `auth` requests are handled and answered, and a person with a form open sends
it again, or notices that the session is gone; nobody has to sign out.

**The violations** are four places where a doc or comment says otherwise:
`casefile/index.py` 8-10 (exactly the estate the engine audited)
against a delete in the middle; `sat/importer.py` 14-15 (a malformed row never
aborts the run); `sat/normalization.py` 9-10 (a re-import after a change);
`fraud/loader.py` 5-7 (all but a blocked table is reported). Each is a fact of an input or an
interleaving that nobody wrote a test for, and what the passing properties except is named in them.

With one lost acknowledgement `AnalysisIffCompleted` and `RowsHaveTheirDataset`
do not hold: a task that takes its committed result for a failure logs `failed`
after `completed`, and an upload is removed whose row is there. No text of the
repository promises otherwise, so these are facts and not findings; they are why
the theorems assume `LostAckLimit = 0`.

## 4. What is proved

`RunLifecycle_proofs`, for any number of runs, users, handlers, attempts, aborts
and crashes:

- With every fault, lost acknowledgements included: `TypeCorrect`, and
  `TheEndIsLogged`, `Spec => []ClosedRunsSaySo`.
- Under `LostAckLimit = 0`: `OneTaskPerRun`, `TasksHoldTheirRuns`,
  `ResultsMatchTheStatus`, `ResultsAreOfTheUpload`, `TheLogTells`,
  `RowsKeepTheirDataset`, `OneFaultStrandsNoRun`, `NothingLeaksWithoutAFault`,
  the action properties
  `RunningRunsAreLeftAlone` and `ResultsAreFinal`, and `Refinement`: `Spec`
  implements `RunSpec`.

Assumptions: the named ones of `RunLifecycle` (the empty values are no runs and
no users, the bounds are naturals), and no lost acknowledgement.

**The argument.** None of these is inductive alone. `IInv` adds to the types:

- `HandlerKnows`: what a handler at each step may rely on, where its own checks
  are stale. A task's run is running; an upload's id has no row yet, and its
  directory is there when the row is inserted; the outcome a task is about to
  store is of the upload; a task that has to close its run as failed has seen an
  abort; a directory that is to be removed is of a deleted run.
- `Apart`: no two handlers upload, or execute, the same run. This is what the conditional UPDATE buys:
  `MarkRunning` makes a new executor only of a startable run, which has none,
  since executors are of running runs.
- `RowsAgree`: a row has its files, and an analysis, of the upload, exactly when
  it is completed.
- `LogTellsTheStatus` and `StrandingTakesTwoFaults`, which feed on these.

`IInv` is shown to be initial and kept, action by action; the safety properties
follow from it. The action properties and the refinement go through one lemma,
`StepsOnRuns`: a step leaves each run untouched, or creates, begins, advances or
erases, one run except for erasing; each of these is a step of `RunSpec`.

`NothingLeaksWithoutAFault` adds that only a handler that removes directories
has any left to remove, and says of each step that what it erases or writes it
goes on to tend. `TheEndIsLogged` can not use `IInv`, which a lost
acknowledgement breaks: it follows from the types and `LogSteps`, what a step may
do to the status, the log and the attempts of one run whoever takes it.

`EventStream_proofs`, for any number of clients, runs and broken connections:

- `EventsArriveInOrder`: `StreamSpec => []FramesInOrder`, with every fault. The
  invariant relates the frames a client has, the rows its generator is about to
  send and the attempts of the run: the rows follow the last frame, are of one
  attempt, and of no attempt yet to come. Writers only let attempts grow.
- `ClientsLearnTheTruth`: `StreamSpec => []ToldTheTruth`, under `LostAckLimit = 0`.
  A frame is true while its attempt is the run's last one if the log has its
  event at its place; `LogSteps` keeps it true, and `IInv` says that a terminal
  event of the log is the last and tells the status.

`SatImport_proofs`, for any files, batch sizes and number of importers:

- `TheTableIsTheListing`: `Spec => []TableAgreesWithLastImport`. The invariant is
  that whoever copies holds the lock of the staging table, and that what is
  staged is exactly what it has copied of its own file. Besides
  `FilesAssumption` it rests on `ParseAssumption`, that what `SelectSeq` selects
  of a file is a sequence of rows: its definition is recursive, so TLC evaluates
  the assumption on the files of the runs.
- `ReportsAddUp`: `Spec => ReportAddsUp`, an action property. `ReportInv` says
  that an importer that has not committed has counted as `parsed` the rows that it
  copies, and nothing as inserted or updated; `EveryRowIsCounted` that what is
  staged is inserted, updated or as it should be, and never two of these;
  `AgainIsNothing` that of what was merged last only the third is left.

`Auth_proofs`, for any number of people, tabs, addresses and sessions, with
requests that fail at any statement, from `AuthAssumption` alone (the ranges of
the constants):

- `SessionsAreTheOwners`: `Spec => []OnlyOwnersSignIn`, and `SignedOutIsFinal`:
  `Spec => []SignedOutStaysOut`. The invariant says what a request knows at each
  of its steps (that the password it has checked is that of the account it has
  read; that the session it answers with is that account's), that each cookie is of
  a session of the account that the person at the browser has made, and that every token that was signed out is revoked. `Grows` is what makes it stable
  under the steps of other tabs: accounts keep their passwords, sessions their
  owners, and revocations are never taken back.

`Ingest_proofs`, for any uploads with any number of files in any order, from
`UploadsAreFiles` and `CellsAssumption` (which cells there are, and what an
upload is):

- `FilesAreAccountedFor`, `StartableAreUsable` and `EngineReads` state the three
  properties of the ingest. The loops consume sequences; `Progress` says that
  after `k` files each is waiting to be mapped, mapped to its table, ignored or metadata,
  with the order in which they wait as a witness. The conversions of the two
  loaders are compared cell by cell, on files of which `parse_csv` drops no row (`NoneIsDropped`).

`Clusters_proofs`, for any number of signals, each with any number of keys but
at least one (`InputAssumption`; `agrupar` skips the others):

- `GroupsAreTheComponents`: `Spec => []GroupsAreComponents`. The invariant does not
  speak of paths, which it would take an induction to follow. A set of keys is `Whole` if it
  has a key exactly when it has its parent; two keys are in `OneTree` if they are
  in the same such sets. `ClusterInv` says in these terms whose tree each variable of the loops is in, that
  what was united is in one tree and that every set no signal leaves is whole.
  Path halving keeps the whole sets, a link keeps those that have both trees or
  neither, and no tree has two roots.

`CaseViews_proofs`, about the audit and its views, for any estates, any rules
that fail, any lists and sizes of pages:

- *The audit.* `AuditInv` says of every phase what it has (`Signalled`, `Answered`,
  `Explained`, `InOrder`, `Refused`): that the clusters are a partition of the signals by what they
  share, that a decision was made of exactly one cluster each, and why the audit was
  refused. From it come `SignalsAnswered`, `DecoysSpared`, `UntidyIdsFail` and
  `MoneyClaimedOnce`. The last two need the citations of two clusters to be
  disjoint: whoever shares an account, an order or an invoice is in one component.
- *The views.* `ViewInv` adds that an index is only opened at the end and reads one
  row of each id. `FlaggedCounted`, `MarksOnEvents`, `TrailsDrawn`,
  `TimelinesAgree` and `ReportAgrees` follow from it alone. The last
  three compare sums over sets of rows; the lemmas on `MapThenSumSet` (a sum is
  that of its parts, of a bijection, at least that of a part) are
  proved from the library's facts about finite sets by taking a smallest counterexample.
  `ReportAgrees` needs the arithmetic of rounding: a rounded amount is within half a
  centavo of the amount (`RoundedAmount`), and so many rounded amounts within as many halves
  (`RoundedSums`); the claim is the rounded total of one table (`ClaimIsATotal`), the
  first that has one in the order of the scheme (`ClaimIsTheFirst`). The report takes the
  table whose total of rounded amounts is nearest, which is no further than that one is
  (`ClaimIsNear`), and is that one if rounding first changes no total by half a centavo
  (`ClaimFoundAgain`).
- *The pages.* `PagesComplete`. The place of a row in its list depends on which row the index
  reads for its id, and that may change between two pages. The proof shows
  that it does not matter: the two rows of an id change places and nothing
  else does (`TwinsChangePlaces`, `PlacesAreInTheList`), and of both the
  same record is shown. `PageInv`: what was counted are the places before the cursor,
  what was shown are the records of the ids that have them.

- *The evidence.* `EvidenceShown`. Writing the proof showed that the invariant, which TLC
  had passed, was too strong for other estates, and it now says where it does not hold: the
  record of a related row may lead elsewhere if its id is repeated, for the page shows
  one row of the id; and who is in no catalog may be named only by an invoice or
  an order whose id is that of another row, which the page may show instead. That a
  relation goes both ways needs that no vendor without an RFC is
  cited (`NobodyIsCited`): `relaciones` follows no blank RFC. An accused who is in
  a catalog is named by the row of it, since the finding always cites that row
  (`AccusedInRecords`); and in a search the accused come first (`AccusedAreFirst`).

They rest on `EstatesAreFinite`, `CentavosHaveParts`, `AmountsAreWhole`, `IdsAreOrdered`,
`DaysAreOrdered`, `PagesHaveASize`, `ListsAreOfTables` and `IdsOfTwoRows`.
`TrailsDrawn` and `TimelinesAgree` also assume that no transfer is negative:
nothing in the code refuses one, and with a refund of the same amount an edge or a
total could vanish. All estates of the run satisfy that.

`CaseFile_proofs`, for any number of runs, requests and readers, and any cache:

- `CacheStaysCurrent`: `FileSpec => []CacheIsCurrent`, under `LostAckLimit = 0`.
  `FileInv` says of every index in the cache or being built that it is `Fresh`: its
  run was deleted, or is completed in the attempt of its version and the index
  is whole. `StepsOnRuns` of `RunLifecycle_proofs` keeps that true whoever takes a step: a completed
  run only changes by being deleted, and its id is not given again.
- `ReadersAreHarmless`: `FileSpec => Spec`, with no assumption: the handlers of
  case files are stutters of `RunLifecycle`, so all that is proved of it holds with them.

## 5. What is only model-checked, and what is not modelled

Only checked: liveness (`RunsCloseUnlessCrashed`, `StreamsEnd`, `ClientsAreTold`,
`ImportsEnd`, `Ends`, `OwnersGetIn`; TLAPS reasons about neither fairness nor
ENABLED in a useful way here). Every invariant of a passing run is proved, and
every action property.

Not modelled, or in part:

- *Ingest*: encodings, delimiters and the spelling of names, dates and numbers (a cell is of a
  kind that `ingest.py` and DuckDB tell apart); the size limits, which are among the unreadable; the fingerprint.
- *Authentication*: what is refused for its shape, and hashing.
- *Rules*: fifteen of twenty-four, with the schemes round tripping, threshold
  splitting and revenue inflation, and those of data integrity. `PRICE_OUTLIER_BY_CATEGORY` is statistics.
- *Assembler*: the wording of leads and narratives, the log of queries, the
  cancellations that revenue inflation sets aside, authorizations in the ledger.
- *Case file views*: filters by date, name, status and channel, the relations and the invoiced total of a timeline, the
  references of transfers and the ledger, the wording and the Markdown export.
- *Evaluation* of a submission: an offline script. *snapshot.sh*: shell around `pg_dump`.
- *Estate generator* and its harness: sequential producers of demonstration data.
- *Settings, error envelope, OpenAPI documents*: no behaviour to check.

Days are integers where `views.py` 738-739 compares texts: the same order for the
ISO dates that the diagnosis asks for. The dates of the ledger are left out of the period.

## 6. Plan

Done in this order, the most important behaviour first: the life of a run with
its abstract specification and proofs; its readers; the import; the engine; the
ingest; the views of the case file; accounts and sessions. What is left:

1. The other schemes and their rules in `Rules` and `Assembler`.
