---------------------------- MODULE RunLifecycle ----------------------------
(***************************************************************************)
(* The life of an investigation run (app/runs): an upload creates it, a    *)
(* request starts it, a background task audits its stored tables and       *)
(* closes it, a retry starts it again, a delete removes it.                *)
(*                                                                         *)
(* State is split the way the program splits it.  A run is a row of        *)
(* PostgreSQL (status, owner, startedAt, log, analysis) and a directory of *)
(* CSV files (dataset); nothing ties the two but the order in which the    *)
(* handlers write them.  A handler is one request, with the background     *)
(* task it schedules, and every await of its code at which another request *)
(* can run is a step boundary here.  A transaction is one step: it holds   *)
(* the run's row lock, or touches nothing that another can see, until it   *)
(* commits.                                                                *)
(*                                                                         *)
(* Three faults are modelled, each with a bound.  An ABORT is a statement  *)
(* or commit that fails and changes nothing.  A LOST ACK is a commit that  *)
(* takes effect while its caller gets an exception: the connection drops,  *)
(* or the pool's command_timeout fires, after the server has committed.  A *)
(* CRASH ends the process, and with it every handler; the database and the *)
(* directory stay.                                                         *)
(***************************************************************************)
EXTENDS Naturals, Sequences, FiniteSets

CONSTANTS
    Runs,           \* the ids _new_run_id can draw; an id is never drawn twice
    Users,          \* the signed-in users
    Handlers,       \* concurrent requests
    NoRun, NoUser,  \* the fields of a handler, or of a row, that hold nothing
    AttemptLimit,   \* bound: no start is requested after this many attempts
    AbortLimit,     \* bound: transactions and disk writes that fail
    LostAckLimit,   \* bound: commits whose acknowledgement is lost
    CrashLimit      \* bound: process crashes

ASSUME RunsAssumption == NoRun \notin Runs
ASSUME UsersAssumption == NoUser \notin Users
ASSUME BoundsAssumption ==
    /\ AttemptLimit \in Nat
    /\ AbortLimit \in Nat
    /\ LostAckLimit \in Nat
    /\ CrashLimit \in Nat

VARIABLES
    status,     \* investigation_run.status; "absent" and "deleted": no row
    owner,      \* investigation_run.user_id
    blocked,    \* some table of investigation_run.validation is an "error"
    startedAt,  \* investigation_run.started_at, as the number of the attempt
    log,        \* the types of the run_event rows, in the order of seq
    analysis,   \* the fraud_analysis row: what the engine read to write it
    dataset,    \* the directory storage/runs/<run_id>
    handler,    \* the requests and background tasks of the process
    faults      \* how many of each fault have happened

row == <<status, owner, blocked, startedAt>>
db == <<row, log, analysis>>
vars == <<db, dataset, handler, faults>>

-----------------------------------------------------------------------------
(* Values *)

\* The value 'validating' that the column's CHECK allows is never written.
Status == {"absent", "ready", "running", "completed", "failed", "deleted"}
TerminalEvents == {"completed", "failed"}
EventTypes == {"step", "detector_result"} \cup TerminalEvents

\* What an attempt appends to the log; what comes between the first and the
\* last event of analysis_events is abstracted to one event.
StartEvents == <<"step", "step">>
AnalysisEvents == <<"detector_result", "completed">>
FailedEvent == <<"failed">>

\* An analysis is "audited" when the engine read the tables of the upload,
\* and "hollow" when load_run_tables found no file and made empty tables.
Outcomes == {"none", "audited", "hollow", "error"}

FaultKinds == {"abort", "lostAck", "crash"}

\* Where a handler stands: the await it is at.
Steps == {"idle", "writing", "inserting", "discarding", "starting",
          "scheduled", "analyzing", "storing", "closing",
          "deleting", "removing"}
HandlerState == [step : Steps, run : Runs \cup {NoRun},
                 user : Users \cup {NoUser},
                 outcome : Outcomes, doomed : SUBSET Runs]
Idle == [step |-> "idle", run |-> NoRun, user |-> NoUser,
         outcome |-> "none", doomed |-> {}]

\* A handler of these steps is the background task execute_run.
ExecutorSteps == {"scheduled", "analyzing", "storing", "closing"}
Executing(h) == handler[h].step \in ExecutorSteps

HasRow(r) == status[r] \notin {"absent", "deleted"}
Owns(u, r) == HasRow(r) /\ owner[r] = u

(* Operators named Bug... are variants of the operator after them with a
   plausible bug; no specification uses them.  They show that a property can
   fail. *)

\* A completed run can be started again.
BugStartable(s) == s \in {"ready", "failed", "completed"}
\* The test of start_run and of the UPDATE of mark_running.
Startable(s) == s \in {"ready", "failed"}
\* A running run can be deleted.
BugDeletable(s) == TRUE
\* The test of both DELETEs of investigation_run.
Deletable(s) == s # "running"
\* mark_finished closes a running run and leaves any other alone.
Finished(s, end) == IF s = "running" THEN end ELSE s

\* A handler in the middle of something knows its run and its user.
HandlersTypeOK ==
    /\ handler \in [Handlers -> HandlerState]
    /\ \A h \in Handlers :
          handler[h].step \notin {"idle", "removing"} =>
              handler[h].run \in Runs /\ handler[h].user \in Users

TypeOK ==
    /\ status \in [Runs -> Status]
    /\ owner \in [Runs -> Users \cup {NoUser}]
    /\ blocked \in [Runs -> BOOLEAN]
    /\ startedAt \in [Runs -> Nat]
    /\ log \in [Runs -> Seq(EventTypes)]
    /\ analysis \in [Runs -> {"none", "audited", "hollow"}]
    /\ dataset \in [Runs -> {"none", "partial", "written"}]
    /\ HandlersTypeOK
    /\ faults \in [FaultKinds -> Nat]

Init ==
    /\ status = [r \in Runs |-> "absent"]
    /\ owner = [r \in Runs |-> NoUser]
    /\ blocked = [r \in Runs |-> FALSE]
    /\ startedAt = [r \in Runs |-> 0]
    /\ log = [r \in Runs |-> <<>>]
    /\ analysis = [r \in Runs |-> "none"]
    /\ dataset = [r \in Runs |-> "none"]
    /\ handler = [h \in Handlers |-> Idle]
    /\ faults = [f \in FaultKinds |-> 0]

-----------------------------------------------------------------------------
(* Steps of a handler, and faults *)

At(h, step) == handler[h].step = step
GoTo(h, step) == handler' = [handler EXCEPT ![h].step = step]
Return(h) == handler' = [handler EXCEPT ![h] = Idle]

Limit(f) == CASE f = "abort" -> AbortLimit
              [] f = "lostAck" -> LostAckLimit
              [] f = "crash" -> CrashLimit
Fault(f) ==
    /\ faults[f] < Limit(f)
    /\ faults' = [faults EXCEPT ![f] = @ + 1]
NoFault == UNCHANGED faults

(***************************************************************************)
(* A request's transaction ends in one of three ways: it commits and the   *)
(* handler goes on; it aborts and the handler sees an exception; it        *)
(* commits and the handler sees an exception all the same.                 *)
(***************************************************************************)
Commits(Effect, Continue) == Effect /\ Continue /\ NoFault
Aborts(Handle) == UNCHANGED db /\ Handle /\ Fault("abort")
AckLost(Effect, Handle) == Effect /\ Handle /\ Fault("lostAck")

-----------------------------------------------------------------------------
(* create_run *)

\* The upload has been read and diagnosed, and the run has its id.
Upload(h, u, r) ==
    /\ At(h, "idle")
    /\ status[r] = "absent"
    /\ dataset[r] = "none"
    /\ \A other \in Handlers : handler[other].run # r
    /\ handler' = [handler EXCEPT ![h] =
                      [Idle EXCEPT !.step = "writing", !.run = r, !.user = u]]
    /\ NoFault
    /\ UNCHANGED <<db, dataset>>

\* The tables go to disk before the row exists ...
WriteTables(h) ==
    /\ At(h, "writing")
    /\ dataset' = [dataset EXCEPT ![handler[h].run] = "written"]
    /\ GoTo(h, "inserting")
    /\ NoFault
    /\ UNCHANGED db

\* ... and outside the try: what a failed write leaves behind stays.
WriteTablesFails(h) ==
    /\ At(h, "writing")
    /\ dataset' = [dataset EXCEPT ![handler[h].run] = "partial"]
    /\ Return(h)
    /\ Fault("abort")
    /\ UNCHANGED db

\* The run is created in the unused state.
BugInsertEffect(r, u) ==
    /\ status' = [status EXCEPT ![r] = "validating"]
    /\ owner' = [owner EXCEPT ![r] = u]
    /\ UNCHANGED <<blocked, startedAt, log, analysis>>

InsertEffect(r, u) ==
    /\ status' = [status EXCEPT ![r] = "ready"]
    /\ owner' = [owner EXCEPT ![r] = u]
    /\ \E b \in BOOLEAN : blocked' = [blocked EXCEPT ![r] = b]
    /\ UNCHANGED <<startedAt, log, analysis>>

InsertRun(h) ==
    /\ At(h, "inserting")
    /\ LET Insert == InsertEffect(handler[h].run, handler[h].user)
       IN \/ Commits(Insert, Return(h))
          \/ Aborts(GoTo(h, "discarding"))
          \/ AckLost(Insert, GoTo(h, "discarding"))
    /\ UNCHANGED dataset

\* except BaseException: rmtree(directory); raise
DiscardUpload(h) ==
    /\ At(h, "discarding")
    /\ dataset' = [dataset EXCEPT ![handler[h].run] = "none"]
    /\ Return(h)
    /\ NoFault
    /\ UNCHANGED db

-----------------------------------------------------------------------------
(* start_run *)

\* The run is read and its state and diagnostics are checked; a request that
\* fails the checks is answered with an error and changes nothing.
ReadToStart(h, u, r) ==
    /\ At(h, "idle")
    /\ Owns(u, r)
    /\ Startable(status[r])
    /\ ~blocked[r]
    /\ startedAt[r] < AttemptLimit
    /\ handler' = [handler EXCEPT ![h] =
                      [Idle EXCEPT !.step = "starting", !.run = r, !.user = u]]
    /\ NoFault
    /\ UNCHANGED <<db, dataset>>

\* The UPDATE of mark_running trusts the check of start_run.
BugCanMark(h) == Owns(handler[h].user, handler[h].run)

\* mark_running: the UPDATE finds the row only while it is still startable.
CanMark(h) ==
    LET r == handler[h].run
    IN Owns(handler[h].user, r) /\ Startable(status[r])

\* A retry keeps the old log.
BugMarkRunningEffect(r) ==
    /\ status' = [status EXCEPT ![r] = "running"]
    /\ startedAt' = [startedAt EXCEPT ![r] = @ + 1]
    /\ UNCHANGED <<log, owner, blocked, analysis>>

MarkRunningEffect(r) ==
    /\ status' = [status EXCEPT ![r] = "running"]
    /\ startedAt' = [startedAt EXCEPT ![r] = @ + 1]
    /\ log' = [log EXCEPT ![r] = <<>>]
    /\ UNCHANGED <<owner, blocked, analysis>>

\* The commit comes back, execute_run is scheduled on this same handler.
MarkRunning(h) ==
    /\ At(h, "starting")
    /\ CanMark(h)
    /\ LET Mark == MarkRunningEffect(handler[h].run)
       IN \/ Commits(Mark, GoTo(h, "scheduled"))
          \/ Aborts(Return(h))
          \/ AckLost(Mark, Return(h))
    /\ UNCHANGED dataset

\* "The run is already executing."
StartRefused(h) ==
    /\ At(h, "starting")
    /\ ~CanMark(h)
    /\ Return(h)
    /\ NoFault
    /\ UNCHANGED <<db, dataset>>

-----------------------------------------------------------------------------
(* execute_run *)

Append2Log(r, events) == log' = [log EXCEPT ![r] = @ \o events]

\* A failure to log the start is swallowed; without a row nothing is logged.
LogStart(h) ==
    /\ At(h, "scheduled")
    /\ LET r == handler[h].run
           Log == /\ IF HasRow(r) THEN Append2Log(r, StartEvents)
                                  ELSE UNCHANGED log
                  /\ UNCHANGED <<row, analysis>>
       IN \/ Commits(Log, GoTo(h, "analyzing"))
          \/ Aborts(GoTo(h, "analyzing"))
          \/ AckLost(Log, GoTo(h, "analyzing"))
    /\ UNCHANGED dataset

\* The engine reads the directory in a worker thread, and may fail.
Audited(r) == IF dataset[r] = "written" THEN "audited" ELSE "hollow"
Analyze(h) ==
    /\ At(h, "analyzing")
    /\ \E outcome \in {Audited(handler[h].run), "error"} :
          handler' = [handler EXCEPT ![h].step = "storing",
                                     ![h].outcome = outcome]
    /\ NoFault
    /\ UNCHANGED <<db, dataset>>

\* The run is not marked finished.
BugCloseCompleted(r, outcome) ==
    /\ analysis' = [analysis EXCEPT ![r] = outcome]
    /\ Append2Log(r, AnalysisEvents)
    /\ UNCHANGED row

CloseCompleted(r, outcome) ==
    /\ analysis' = [analysis EXCEPT ![r] = outcome]
    /\ Append2Log(r, AnalysisEvents)
    /\ status' = [status EXCEPT ![r] = Finished(@, "completed")]
    /\ UNCHANGED <<owner, blocked, startedAt>>

\* The run is closed without its terminal event.
BugCloseFailed(r) ==
    /\ status' = [status EXCEPT ![r] = Finished(@, "failed")]
    /\ UNCHANGED <<owner, blocked, startedAt, analysis, log>>

CloseFailed(r) ==
    /\ Append2Log(r, FailedEvent)
    /\ status' = [status EXCEPT ![r] = Finished(@, "failed")]
    /\ UNCHANGED <<owner, blocked, startedAt, analysis>>

StoreEffect(h) ==
    LET r == handler[h].run
    IN IF handler[h].outcome = "error" THEN CloseFailed(r)
       ELSE CloseCompleted(r, handler[h].outcome)

\* No second transaction after a failed first one.
BugStoreOutcome(h) ==
    /\ At(h, "storing")
    /\ HasRow(handler[h].run)
    /\ \/ Commits(StoreEffect(h), Return(h))
       \/ Aborts(Return(h))
    /\ UNCHANGED dataset

\* One transaction stores the outcome and its events and closes the run.
StoreOutcome(h) ==
    /\ At(h, "storing")
    /\ HasRow(handler[h].run)
    /\ \/ Commits(StoreEffect(h), Return(h))
       \/ Aborts(GoTo(h, "closing"))
       \/ AckLost(StoreEffect(h), GoTo(h, "closing"))
    /\ UNCHANGED dataset

\* When that failed, a second transaction closes the run as failed; when this
\* fails too, "Run %s is left running".
StoreFailure(h) ==
    /\ At(h, "closing")
    /\ HasRow(handler[h].run)
    /\ LET Close == CloseFailed(handler[h].run)
       IN \/ Commits(Close, Return(h))
          \/ Aborts(Return(h))
          \/ AckLost(Close, Return(h))
    /\ UNCHANGED dataset

\* Without the row of the run both transactions break its foreign keys.
StoreWithoutRow(h) ==
    /\ handler[h].step \in {"storing", "closing"}
    /\ ~HasRow(handler[h].run)
    /\ IF At(h, "storing") THEN GoTo(h, "closing") ELSE Return(h)
    /\ NoFault
    /\ UNCHANGED <<db, dataset>>

-----------------------------------------------------------------------------
(* delete_run, delete_runs *)

EraseEffect(rs) ==
    /\ status' = [r \in Runs |-> IF r \in rs THEN "deleted" ELSE status[r]]
    /\ owner' = [r \in Runs |-> IF r \in rs THEN NoUser ELSE owner[r]]
    /\ log' = [r \in Runs |-> IF r \in rs THEN <<>> ELSE log[r]]
    /\ analysis' = [r \in Runs |-> IF r \in rs THEN "none" ELSE analysis[r]]
    /\ UNCHANGED <<blocked, startedAt>>

Remove(h, rs) ==
    handler' = [handler EXCEPT ![h] =
                   [Idle EXCEPT !.step = "removing", !.doomed = rs]]

\* The SELECT and the DELETE of delete_run's transaction are two snapshots.
ReadToDelete(h, u, r) ==
    /\ At(h, "idle")
    /\ Owns(u, r)
    /\ handler' = [handler EXCEPT ![h] =
                      [Idle EXCEPT !.step = "deleting", !.run = r, !.user = u]]
    /\ NoFault
    /\ UNCHANGED <<db, dataset>>

CanErase(u, r) == Owns(u, r) /\ Deletable(status[r])

DeleteRun(h) ==
    /\ At(h, "deleting")
    /\ LET r == handler[h].run
       IN /\ CanErase(handler[h].user, r)
          /\ \/ Commits(EraseEffect({r}), Remove(h, {r}))
             \/ Aborts(Return(h))
             \/ AckLost(EraseEffect({r}), Return(h))
    /\ UNCHANGED dataset

\* The directory is removed whether or not the row was.
BugDeleteRefused(h) ==
    /\ At(h, "deleting")
    /\ ~CanErase(handler[h].user, handler[h].run)
    /\ Remove(h, {handler[h].run})
    /\ NoFault
    /\ UNCHANGED <<db, dataset>>

\* "A running investigation cannot be deleted."
DeleteRefused(h) ==
    /\ At(h, "deleting")
    /\ ~CanErase(handler[h].user, handler[h].run)
    /\ Return(h)
    /\ NoFault
    /\ UNCHANGED <<db, dataset>>

\* The directories of the history are forgotten.
BugDeleteRuns(h, u) ==
    /\ At(h, "idle")
    /\ \E r \in Runs : CanErase(u, r)
    /\ Commits(EraseEffect({r \in Runs : CanErase(u, r)}), UNCHANGED handler)
    /\ UNCHANGED dataset

\* One DELETE for the whole history of a user; an abort changes nothing.
DeleteRuns(h, u) ==
    /\ At(h, "idle")
    /\ LET rs == {r \in Runs : CanErase(u, r)}
       IN /\ rs # {}
          /\ \/ Commits(EraseEffect(rs), Remove(h, rs))
             \/ AckLost(EraseEffect(rs), UNCHANGED handler)
    /\ UNCHANGED dataset

\* _remove_datasets, one directory after the other, after the commit.
RemoveDataset(h) ==
    /\ At(h, "removing")
    /\ \E r \in handler[h].doomed :
          /\ dataset' = [dataset EXCEPT ![r] = "none"]
          /\ IF handler[h].doomed = {r} THEN Return(h)
             ELSE handler' = [handler EXCEPT ![h].doomed = @ \ {r}]
    /\ NoFault
    /\ UNCHANGED db

-----------------------------------------------------------------------------
(* Next and the specifications *)

\* The process dies, perhaps in the middle of a file; lifespan, on the next
\* start, only opens the pool.
Crash ==
    /\ \E h \in Handlers : ~At(h, "idle")
    /\ handler' = [h \in Handlers |-> Idle]
    /\ dataset' = [r \in Runs |->
                      IF \E h \in Handlers : At(h, "writing") /\ handler[h].run = r
                      THEN "partial" ELSE dataset[r]]
    /\ Fault("crash")
    /\ UNCHANGED db

\* What the clients ask for.
Request(h) ==
    \/ \E u \in Users, r \in Runs :
          Upload(h, u, r) \/ ReadToStart(h, u, r) \/ ReadToDelete(h, u, r)
    \/ \E u \in Users : DeleteRuns(h, u)

\* What the process then does on its own.
CreateStep(h) == WriteTables(h) \/ WriteTablesFails(h) \/ InsertRun(h)
                 \/ DiscardUpload(h)
StartStep(h) == MarkRunning(h) \/ StartRefused(h)
ExecuteStep(h) == LogStart(h) \/ Analyze(h) \/ StoreOutcome(h)
                  \/ StoreFailure(h) \/ StoreWithoutRow(h)
DeleteStep(h) == DeleteRun(h) \/ DeleteRefused(h) \/ RemoveDataset(h)
Continue(h) == CreateStep(h) \/ StartStep(h) \/ ExecuteStep(h) \/ DeleteStep(h)

Next ==
    \/ \E h \in Handlers : Request(h) \/ Continue(h)
    \/ Crash

Spec == Init /\ [][Next]_vars

\* The event loop and the worker threads get to every handler that is not
\* waiting for a client.
Fairness == \A h \in Handlers : WF_vars(Continue(h))
FairSpec == Spec /\ Fairness

-----------------------------------------------------------------------------
(* Safety, while no acknowledgement is lost (LostAckLimit = 0) *)

\* Two requests may both find a run ready or failed; only one of them gets to
\* execute it.  The conditional UPDATE of mark_running must make up for the
\* check of start_run being stale.
OneExecutorPerRun ==
    \A h1, h2 \in Handlers :
        Executing(h1) /\ Executing(h2) /\ handler[h1].run = handler[h2].run
        => h1 = h2

\* While execute_run works on a run, the run is there and running: no retry,
\* no delete and no other executor closed it or took it away.
ExecutorHoldsItsRun ==
    \A h \in Handlers : Executing(h) => status[handler[h].run] = "running"

\* fraud_analysis: "one row per completed run".
AnalysisIffCompleted ==
    \A r \in Runs : analysis[r] # "none" <=> status[r] = "completed"

\* A stored analysis is about the tables that were uploaded, never about the
\* empty ones load_run_tables makes when the directory is gone.
AnalysesAreAudited == \A r \in Runs : analysis[r] # "hollow"

\* The log has one terminal event, the last, if and only if the run is
\* closed, and it says how the run was closed; a retry leaves nothing of the
\* attempt before it.
LogSays(events, s) ==
    LET n == Len(events)
        ended == {i \in 1..n : events[i] \in TerminalEvents}
    IN CASE s \in TerminalEvents -> n > 0 /\ ended = {n} /\ events[n] = s
         [] s = "running" -> ended = {}
         [] OTHER -> n = 0
LogTellsTheStatus == \A r \in Runs : LogSays(log[r], status[r])

\* The row of a run and its directory: "one without the other is broken".
RowsHaveTheirDataset == \A r \in Runs : HasRow(r) => dataset[r] = "written"

\* A run is left running with nobody working on it only after a crash, or
\* after two transactions failed: execute_run survives any single failure.
Stranded(r) ==
    /\ status[r] = "running"
    /\ \A h \in Handlers : Executing(h) => handler[h].run # r
StrandingTakesTwoFaults ==
    \A r \in Runs : Stranded(r) => faults["crash"] > 0 \/ faults["abort"] > 1

\* A directory without a row and without a handler that will remove it or
\* insert the row takes a fault.
Tended(r) ==
    \E h \in Handlers :
        \/ handler[h].step \in {"inserting", "discarding"} /\ handler[h].run = r
        \/ r \in handler[h].doomed
LeakingTakesAFault ==
    \A r \in Runs :
        dataset[r] # "none" /\ ~HasRow(r) /\ ~Tended(r)
        => faults["crash"] > 0 \/ faults["abort"] > 0

(* Safety, whatever faults happen *)

\* However many executors of a run there are, a closed run has the event that
\* tells it in its log, so a reader of the log learns the outcome.
ClosedRunsSaySo ==
    \A r \in Runs :
        status[r] \in TerminalEvents =>
            \E i \in 1..Len(log[r]) : log[r][i] = status[r]

(* Action properties *)

\* Whatever else happens to a running run, its next state is a closed one:
\* it is not deleted, with "Clear history" neither, and not started again.
RunningRunsOnlyClose ==
    [][\A r \in Runs :
          status[r] = "running" =>
              /\ status'[r] \in {"running"} \cup TerminalEvents
              /\ startedAt'[r] = startedAt[r]]_vars

\* The result of a completed run never changes again: its analysis and its
\* log are what they were until the run is deleted.
CompletedRunsAreFinal ==
    [][\A r \in Runs :
          status[r] = "completed" =>
              \/ status'[r] = "deleted"
              \/ UNCHANGED <<status[r], analysis[r], log[r], startedAt[r]>>]_vars

(***************************************************************************)
(* The promise: with no acknowledgement lost, the handlers, interleaved as *)
(* they come, look to a client like the single steps of RunSpec.           *)
(***************************************************************************)
Told(events) ==
    IF \E i \in 1..Len(events) : events[i] = "completed" THEN "completed"
    ELSE IF \E i \in 1..Len(events) : events[i] = "failed" THEN "failed"
    ELSE "none"

Promise == INSTANCE RunSpec WITH
    phase <- status,
    result <- [r \in Runs |-> analysis[r] # "none"],
    told <- [r \in Runs |-> Told(log[r])]
KeepsThePromise == Promise!Spec

(* Liveness, under FairSpec *)

\* "execute_run then audits the stored tables with the fraud engine ... and
\* closes the run as completed, with its fraud_analysis, or failed": so it does,
\* if one transaction fails at most and the process does not die.  A run that
\* was running when it died stays running (docs/fraud_engine.md, limitations).
Crashed == faults["crash"] > 0
RunsCloseUnlessCrashed ==
    \A r \in Runs : status[r] = "running" ~> status[r] \in TerminalEvents \/ Crashed

=============================================================================
