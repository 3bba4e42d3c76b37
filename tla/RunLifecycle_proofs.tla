------------------------ MODULE RunLifecycle_proofs ------------------------
(***************************************************************************)
(* Theorems about RunLifecycle for every number of runs, users, requests,  *)
(* attempts, aborts and crashes.                                           *)
(***************************************************************************)
EXTENDS RunLifecycle, TLAPS

-----------------------------------------------------------------------------
(* Types *)

\* The start state has the declared types.
LEMMA TypeInit == Init => TypeOK
  BY DEF Init, TypeOK, HandlersTypeOK, Status, Idle, HandlerState, Steps, Outcomes

\* A step counts at most one more fault.
LEMMA FaultType ==
  ASSUME faults \in [FaultKinds -> Nat],
         NoFault \/ Fault("abort") \/ Fault("lostAck") \/ Fault("crash")
  PROVE  faults' \in [FaultKinds -> Nat]
  BY DEF NoFault, Fault, FaultKinds

\* A handler that is doing something with one run.
Busy(h) == handler[h].step \notin {"idle", "removing"}

\* A handler that goes on or returns is still a handler.
LEMMA HandlerType ==
  ASSUME HandlersTypeOK,
         NEW h \in Handlers, NEW step \in Steps,
         (GoTo(h, step) /\ Busy(h)) \/ Return(h)
  PROVE  HandlersTypeOK'
<1>1. [handler[h] EXCEPT !.step = step] \in HandlerState
  BY DEF HandlersTypeOK, HandlerState
<1>2. Idle \in HandlerState
  BY DEF HandlerState, Idle, Steps, Outcomes
<1>3. CASE GoTo(h, step) /\ Busy(h)
  <2>1. handler' \in [Handlers -> HandlerState]
    BY <1>1, <1>3 DEF GoTo, HandlersTypeOK
  <2>2. handler[h].run \in Runs /\ handler[h].user \in Users
    BY <1>3 DEF HandlersTypeOK, Busy
  <2>3. ASSUME NEW g \in Handlers, handler'[g].step \notin {"idle", "removing"}
        PROVE  handler'[g].run \in Runs /\ handler'[g].user \in Users
    <3>1. CASE g = h
      BY <1>3, <2>2, <3>1 DEF GoTo, HandlersTypeOK, HandlerState
    <3>2. CASE g # h
      BY <1>3, <2>3, <3>2 DEF GoTo, HandlersTypeOK, HandlerState
    <3>3. QED
      BY <3>1, <3>2
  <2>4. QED
    BY <2>1, <2>3 DEF HandlersTypeOK
<1>4. CASE Return(h)
  BY <1>2, <1>4 DEF Return, HandlersTypeOK, Idle
<1>5. QED
  BY <1>3, <1>4

\* Every step of the upload keeps the types.
LEMMA TypeCreate ==
  ASSUME TypeOK, NEW h \in Handlers, CreateStep(h)
  PROVE  TypeOK'
<1>1. CASE WriteTables(h)
  BY <1>1, HandlerType DEF TypeOK, WriteTables, NoFault, db, row, Steps, Busy, At
<1>2. CASE WriteTablesFails(h)
  BY <1>2, HandlerType, FaultType DEF TypeOK, WriteTablesFails, db, row, Steps, At, Busy, FaultKinds
<1>3. CASE InsertRun(h)
  <2> DEFINE r == handler[h].run
             u == handler[h].user
  <2>0. Busy(h)
    BY <1>3 DEF InsertRun, At, Busy
  <2>1. CASE Aborts(GoTo(h, "discarding")) /\ UNCHANGED dataset
    BY <2>0, <2>1, HandlerType, FaultType DEF TypeOK, Aborts, db, row, Steps, FaultKinds
  <2>2. CASE InsertEffect(r, u) /\ UNCHANGED dataset
             /\ (Return(h) \/ GoTo(h, "discarding"))
             /\ (NoFault \/ Fault("lostAck"))
    <3>1. u \in Users \cup {NoUser}
      BY DEF TypeOK, HandlersTypeOK, HandlerState
    <3>2. status' \in [Runs -> Status] /\ owner' \in [Runs -> Users \cup {NoUser}]
          /\ blocked' \in [Runs -> BOOLEAN]
      BY <2>2, <3>1 DEF TypeOK, InsertEffect, Status
    <3>3. QED
      BY <2>0, <2>2, <3>2, HandlerType, FaultType DEF TypeOK, InsertEffect, Steps
  <2>3. QED
    BY <1>3, <2>1, <2>2 DEF InsertRun, Commits, AckLost
<1>4. CASE DiscardUpload(h)
  BY <1>4, HandlerType DEF TypeOK, DiscardUpload, NoFault, db, row, Steps, Busy, At
<1>5. QED
  BY <1>1, <1>2, <1>3, <1>4 DEF CreateStep

\* Appending events of the code to a log gives a log.
LEMMA LogType ==
  ASSUME log \in [Runs -> Seq(EventTypes)], NEW r,
         NEW events \in {StartEvents, AnalysisEvents, FailedEvent},
         Append2Log(r, events)
  PROVE  log' \in [Runs -> Seq(EventTypes)]
<1>1. events \in Seq(EventTypes)
  <2>1. "step" \in EventTypes /\ "detector_result" \in EventTypes
        /\ "completed" \in EventTypes /\ "failed" \in EventTypes
    BY DEF EventTypes, TerminalEvents
  <2>2. StartEvents \in Seq(EventTypes)
    BY <2>1 DEF StartEvents
  <2>3. AnalysisEvents \in Seq(EventTypes)
    BY <2>1 DEF AnalysisEvents
  <2>4. FailedEvent \in Seq(EventTypes)
    BY <2>1 DEF FailedEvent
  <2>5. QED
    BY <2>2, <2>3, <2>4
<1>2. \A s \in Seq(EventTypes) : s \o events \in Seq(EventTypes)
  BY <1>1
<1>3. r \in Runs => log[r] \o events \in Seq(EventTypes)
  BY <1>2
<1>4. QED
  BY <1>3 DEF Append2Log

\* Every step of the start keeps the types.
LEMMA TypeStart ==
  ASSUME TypeOK, NEW h \in Handlers, StartStep(h)
  PROVE  TypeOK'
<1>1. CASE MarkRunning(h)
  <2> DEFINE r == handler[h].run
  <2>0. Busy(h)
    BY <1>1 DEF MarkRunning, At, Busy
  <2>1. CASE Aborts(Return(h)) /\ UNCHANGED dataset
    BY <2>0, <2>1, HandlerType, FaultType DEF TypeOK, Aborts, db, row, Steps, FaultKinds
  <2>2. CASE /\ MarkRunningEffect(r) /\ UNCHANGED dataset
             /\ Return(h) \/ GoTo(h, "scheduled")
             /\ NoFault \/ Fault("lostAck")
    <3>1. /\ status' \in [Runs -> Status]
          /\ startedAt' \in [Runs -> Nat]
          /\ log' \in [Runs -> Seq(EventTypes)]
      <4>1. status' \in [Runs -> Status]
        BY <2>2 DEF TypeOK, MarkRunningEffect, Status
      <4>2. startedAt' \in [Runs -> Nat]
        <5>1. startedAt' = [startedAt EXCEPT ![r] = startedAt[r] + 1]
          BY <2>2 DEF MarkRunningEffect
        <5>2. \A n \in Nat : n + 1 \in Nat
          OBVIOUS
        <5>3. r \in Runs => startedAt[r] + 1 \in Nat
          BY <5>2 DEF TypeOK
        <5>4. QED
          BY <5>1, <5>3 DEF TypeOK
      <4>3. log' \in [Runs -> Seq(EventTypes)]
        <5>1. log' = [log EXCEPT ![r] = <<>>]
          BY <2>2 DEF MarkRunningEffect
        <5>2. <<>> \in Seq(EventTypes)
          OBVIOUS
        <5>3. QED
          BY <5>1, <5>2 DEF TypeOK
      <4>4. QED
        BY <4>1, <4>2, <4>3
    <3>2. HandlersTypeOK'
      BY <2>0, <2>2, HandlerType DEF TypeOK, Steps
    <3>3. faults' \in [FaultKinds -> Nat]
      BY <2>2, FaultType DEF TypeOK
    <3>4. QED
      BY <2>2, <3>1, <3>2, <3>3 DEF TypeOK, MarkRunningEffect
  <2>3. QED
    BY <1>1, <2>1, <2>2 DEF MarkRunning, Commits, AckLost
<1>2. CASE StartRefused(h)
  BY <1>2, HandlerType DEF TypeOK, StartRefused, NoFault, db, row, Steps, Busy, At
<1>3. QED
  BY <1>1, <1>2 DEF StartStep

\* Closing a run keeps the types of its row, log and analysis.
LEMMA TypeClose ==
  ASSUME TypeOK, NEW r,
         \/ CloseFailed(r)
         \/ \E outcome \in {"none", "audited", "hollow"} : CloseCompleted(r, outcome)
  PROVE  /\ status' \in [Runs -> Status]
         /\ owner' \in [Runs -> Users \cup {NoUser}]
         /\ blocked' \in [Runs -> BOOLEAN]
         /\ startedAt' \in [Runs -> Nat]
         /\ log' \in [Runs -> Seq(EventTypes)]
         /\ analysis' \in [Runs -> {"none", "audited", "hollow"}]
<1>1. \A s \in Status : Finished(s, "completed") \in Status
                        /\ Finished(s, "failed") \in Status
  BY DEF Finished, Status
<1>2. CASE CloseFailed(r)
  BY <1>1, <1>2, LogType DEF CloseFailed, TypeOK
<1>3. ASSUME NEW outcome \in {"none", "audited", "hollow"},
             CloseCompleted(r, outcome)
      PROVE  /\ status' \in [Runs -> Status]
             /\ owner' \in [Runs -> Users \cup {NoUser}]
             /\ blocked' \in [Runs -> BOOLEAN]
             /\ startedAt' \in [Runs -> Nat]
             /\ log' \in [Runs -> Seq(EventTypes)]
             /\ analysis' \in [Runs -> {"none", "audited", "hollow"}]
  BY <1>1, <1>3, LogType DEF CloseCompleted, TypeOK
<1>4. QED
  BY <1>2, <1>3

\* Every step of the background task keeps the types.
LEMMA TypeExecute ==
  ASSUME TypeOK, NEW h \in Handlers, ExecuteStep(h)
  PROVE  TypeOK'
<1> DEFINE r == handler[h].run
<1>1. CASE LogStart(h)
  <2>0. Busy(h)
    BY <1>1 DEF LogStart, At, Busy
  <2>1. log' \in [Runs -> Seq(EventTypes)]
    BY <1>1, LogType DEF TypeOK, LogStart, Commits, Aborts, AckLost, db
  <2>2. /\ GoTo(h, "analyzing") /\ UNCHANGED <<row, analysis, dataset>>
        /\ NoFault \/ Fault("abort") \/ Fault("lostAck")
    BY <1>1 DEF LogStart, Commits, Aborts, AckLost, db
  <2>3. QED
    BY <2>0, <2>1, <2>2, HandlerType, FaultType DEF TypeOK, row, Steps
<1>2. CASE Analyze(h)
  <2>1. PICK outcome \in {Audited(r), "error"} :
          handler' = [handler EXCEPT ![h].step = "storing", ![h].outcome = outcome]
    BY <1>2 DEF Analyze
  <2>2. outcome \in Outcomes
    BY DEF Audited, Outcomes
  <2>3. [handler[h] EXCEPT !.step = "storing", !.outcome = outcome] \in HandlerState
    BY <2>2 DEF HandlerState, Steps, TypeOK, HandlersTypeOK
  <2>4. HandlersTypeOK'
    BY <1>2, <2>1, <2>3 DEF TypeOK, HandlersTypeOK, HandlerState, Analyze, At
  <2>5. QED
    BY <1>2, <2>4 DEF TypeOK, Analyze, NoFault, db, row
<1>3. CASE StoreOutcome(h)
  <2>0. Busy(h)
    BY <1>3 DEF StoreOutcome, At, Busy
  <2>1. CASE Aborts(GoTo(h, "closing")) /\ UNCHANGED dataset
    BY <2>0, <2>1, HandlerType, FaultType DEF TypeOK, Aborts, db, row, Steps, FaultKinds
  <2>2. CASE /\ StoreEffect(h) /\ UNCHANGED dataset
             /\ Return(h) \/ GoTo(h, "closing")
             /\ NoFault \/ Fault("lostAck")
    <3>1. handler[h].outcome \in Outcomes
      BY DEF TypeOK, HandlersTypeOK, HandlerState
    <3>2. \/ CloseFailed(r)
          \/ \E outcome \in {"none", "audited", "hollow"} : CloseCompleted(r, outcome)
      BY <2>2, <3>1 DEF StoreEffect, Outcomes
    <3>3. QED
      BY <2>0, <2>2, <3>2, TypeClose, HandlerType, FaultType DEF TypeOK, Steps
  <2>3. QED
    BY <1>3, <2>1, <2>2 DEF StoreOutcome, Commits, AckLost
<1>4. CASE StoreFailure(h)
  <2>0. Busy(h)
    BY <1>4 DEF StoreFailure, At, Busy
  <2>1. CASE Aborts(Return(h)) /\ UNCHANGED dataset
    BY <2>0, <2>1, HandlerType, FaultType DEF TypeOK, Aborts, db, row, Steps, FaultKinds
  <2>2. CASE /\ CloseFailed(r) /\ UNCHANGED dataset /\ Return(h)
             /\ NoFault \/ Fault("lostAck")
    BY <2>0, <2>2, TypeClose, HandlerType, FaultType DEF TypeOK, Steps
  <2>3. QED
    BY <1>4, <2>1, <2>2 DEF StoreFailure, Commits, AckLost
<1>5. CASE StoreWithoutRow(h)
  BY <1>5, HandlerType DEF TypeOK, StoreWithoutRow, NoFault, db, row, Steps, Busy, At
<1>6. QED
  BY <1>1, <1>2, <1>3, <1>4, <1>5 DEF ExecuteStep

\* Erasing rows keeps the types.
LEMMA TypeErase ==
  ASSUME TypeOK, NEW rs \in SUBSET Runs, EraseEffect(rs)
  PROVE  /\ status' \in [Runs -> Status]
         /\ owner' \in [Runs -> Users \cup {NoUser}]
         /\ blocked' \in [Runs -> BOOLEAN]
         /\ startedAt' \in [Runs -> Nat]
         /\ log' \in [Runs -> Seq(EventTypes)]
         /\ analysis' \in [Runs -> {"none", "audited", "hollow"}]
<1>1. log' \in [Runs -> Seq(EventTypes)]
  <2>1. <<>> \in Seq(EventTypes)
    OBVIOUS
  <2>2. QED
    BY <2>1 DEF TypeOK, EraseEffect
<1>2. QED
  BY <1>1 DEF TypeOK, EraseEffect, Status

\* A handler with directories to remove is still a handler.
LEMMA RemoveType ==
  ASSUME HandlersTypeOK,
         NEW h \in Handlers, NEW rs \in SUBSET Runs, Remove(h, rs)
  PROVE  HandlersTypeOK'
<1>1. [Idle EXCEPT !.step = "removing", !.doomed = rs] \in HandlerState
  BY DEF HandlerState, Idle, Steps, Outcomes
<1>2. QED
  BY <1>1 DEF Remove, HandlersTypeOK, Idle

\* Every step of a delete keeps the types.
LEMMA TypeDelete ==
  ASSUME TypeOK, NEW h \in Handlers,
         DeleteStep(h) \/ \E u \in Users : DeleteRuns(h, u)
  PROVE  TypeOK'
<1>1. ASSUME NEW rs \in SUBSET Runs, EraseEffect(rs), UNCHANGED dataset,
             Remove(h, rs) \/ Return(h) \/ UNCHANGED handler,
             NoFault \/ Fault("lostAck")
      PROVE  TypeOK'
  <2>1. HandlersTypeOK'
    <3>1. CASE Remove(h, rs)
      BY <3>1, RemoveType DEF TypeOK
    <3>2. CASE Return(h)
      BY <3>2, HandlerType DEF TypeOK, Steps
    <3>3. CASE UNCHANGED handler
      BY <3>3 DEF TypeOK, HandlersTypeOK
    <3>4. QED
      BY <1>1, <3>1, <3>2, <3>3
  <2>2. QED
    BY <1>1, <2>1, TypeErase, FaultType DEF TypeOK
<1>2. CASE DeleteRun(h)
  <2> DEFINE r == handler[h].run
  <2>1. {r} \in SUBSET Runs
    BY <1>2 DEF DeleteRun, At, TypeOK, HandlersTypeOK
  <2>2. CASE Aborts(Return(h)) /\ UNCHANGED dataset
    BY <2>2, HandlerType, FaultType DEF TypeOK, Aborts, db, row, Steps, FaultKinds
  <2>3. CASE /\ EraseEffect({r}) /\ UNCHANGED dataset
             /\ Remove(h, {r}) \/ Return(h)
             /\ NoFault \/ Fault("lostAck")
    BY <1>1, <2>1, <2>3
  <2>4. QED
    BY <1>2, <2>2, <2>3 DEF DeleteRun, Commits, AckLost
<1>3. CASE DeleteRefused(h)
  BY <1>3, HandlerType DEF TypeOK, DeleteRefused, NoFault, db, row, Steps
<1>4. CASE RemoveDataset(h)
  <2>1. PICK r \in handler[h].doomed :
          /\ dataset' = [dataset EXCEPT ![r] = "none"]
          /\ IF handler[h].doomed = {r} THEN Return(h)
             ELSE handler' = [handler EXCEPT ![h].doomed = @ \ {r}]
    BY <1>4 DEF RemoveDataset
  <2>2. HandlersTypeOK'
    <3>1. CASE Return(h)
      BY <3>1, HandlerType DEF TypeOK, Steps
    <3>2. CASE handler' = [handler EXCEPT ![h].doomed = @ \ {r}]
      <4>1. [handler[h] EXCEPT !.doomed = @ \ {r}] \in HandlerState
        BY DEF TypeOK, HandlersTypeOK, HandlerState
      <4>2. At(h, "removing")
        BY <1>4 DEF RemoveDataset
      <4>3. QED
        BY <3>2, <4>1, <4>2 DEF TypeOK, HandlersTypeOK, HandlerState, At
    <3>3. QED
      BY <2>1, <3>1, <3>2
  <2>3. QED
    BY <1>4, <2>1, <2>2 DEF TypeOK, RemoveDataset, NoFault, db, row
<1>5. ASSUME NEW u \in Users, DeleteRuns(h, u)
      PROVE  TypeOK'
  <2> DEFINE rs == {r \in Runs : CanErase(u, r)}
  <2>1. rs \in SUBSET Runs
    OBVIOUS
  <2>2. /\ EraseEffect(rs) /\ UNCHANGED dataset
        /\ Remove(h, rs) \/ UNCHANGED handler
        /\ NoFault \/ Fault("lostAck")
    BY <1>5 DEF DeleteRuns, Commits, AckLost
  <2>3. QED
    BY <1>1, <2>1, <2>2
<1>6. QED
  BY <1>2, <1>3, <1>4, <1>5 DEF DeleteStep

\* Every request, and a crash, keep the types.
LEMMA TypeRequest ==
  ASSUME TypeOK, NEW h \in Handlers, NEW u \in Users, NEW r \in Runs,
         Upload(h, u, r) \/ ReadToStart(h, u, r) \/ ReadToDelete(h, u, r)
  PROVE  TypeOK'
<1>1. PICK step \in Steps :
        handler' = [handler EXCEPT ![h] =
                       [Idle EXCEPT !.step = step, !.run = r, !.user = u]]
  BY DEF Upload, ReadToStart, ReadToDelete, Steps
<1>2. HandlersTypeOK'
  <2> DEFINE next == [Idle EXCEPT !.step = step, !.run = r, !.user = u]
  <2>1. next \in HandlerState /\ next.run = r /\ next.user = u
    BY DEF HandlerState, Idle, Steps, Outcomes
  <2> HIDE DEF next
  <2>2. handler' = [handler EXCEPT ![h] = next]
    BY <1>1 DEF next
  <2>3. QED
    BY <2>1, <2>2 DEF TypeOK, HandlersTypeOK
<1>3. QED
  BY <1>2 DEF Upload, ReadToStart, ReadToDelete, TypeOK, NoFault, db, row

\* A crash keeps the types.
LEMMA TypeCrash ==
  ASSUME TypeOK, Crash
  PROVE  TypeOK'
<1>1. Idle \in HandlerState
  BY DEF HandlerState, Idle, Steps, Outcomes
<1>2. HandlersTypeOK'
  BY <1>1 DEF Crash, TypeOK, HandlersTypeOK, Idle
<1>3. QED
  BY <1>2, FaultType DEF Crash, TypeOK, db, row

\* Type correctness, whatever faults happen.
THEOREM TypeCorrect == Spec => []TypeOK
<1>1. TypeOK /\ [Next]_vars => TypeOK'
  <2> SUFFICES ASSUME TypeOK, [Next]_vars PROVE TypeOK'
    OBVIOUS
  <2>1. ASSUME NEW h \in Handlers, Request(h) PROVE TypeOK'
    BY <2>1, TypeRequest, TypeDelete DEF Request
  <2>2. ASSUME NEW h \in Handlers, Continue(h) PROVE TypeOK'
    BY <2>2, TypeCreate, TypeStart, TypeExecute, TypeDelete DEF Continue
  <2>3. CASE UNCHANGED vars
    BY <2>3 DEF vars, db, row, TypeOK, HandlersTypeOK
  <2>4. QED
    BY <2>1, <2>2, <2>3, TypeCrash DEF Next
<1>2. QED
  BY TypeInit, <1>1, PTL DEF Spec

-----------------------------------------------------------------------------
(* The inductive invariant behind the safety properties.  The checks of a  *)
(* request are stale when it acts on them; what holds instead is what each *)
(* step of a handler knows of its run for certain, and that no two         *)
(* handlers create or execute the same run.                                *)

Creating(h) == handler[h].step \in {"writing", "inserting", "discarding"}
Working(h) == Creating(h) \/ Executing(h)

\* What the step of a handler says about the run.
Knows(h) ==
    LET r == handler[h].run
    IN /\ Creating(h) => status[r] = "absent"
       /\ At(h, "inserting") => dataset[r] = "written"
       /\ At(h, "starting") \/ At(h, "deleting") => status[r] # "absent"
       /\ Executing(h) => status[r] = "running"
       /\ At(h, "storing") => handler[h].outcome \in {"audited", "error"}
       /\ At(h, "closing") => faults["abort"] > 0
       /\ \A d \in handler[h].doomed : status[d] = "deleted"
HandlerKnows == \A h \in Handlers : Knows(h)

\* No two handlers create, or execute, the same run.
Apart ==
    \A g, h \in Handlers :
        g # h /\ Working(g) /\ Working(h) => handler[g].run # handler[h].run

\* A row has its tables, and an analysis if and only if it is completed.
RowsAgree ==
    \A r \in Runs :
        /\ HasRow(r) => dataset[r] = "written"
        /\ analysis[r] = IF status[r] = "completed" THEN "audited" ELSE "none"

IInv ==
    /\ TypeOK
    /\ faults["lostAck"] = 0
    /\ HandlerKnows
    /\ Apart
    /\ RowsAgree
    /\ LogTellsTheStatus
    /\ StrandingTakesTwoFaults

\* Initially nothing exists and no handler is at work.
LEMMA InvInit == Init => IInv
<1> SUFFICES ASSUME Init PROVE IInv
  OBVIOUS
<1>1. TypeOK
  BY TypeInit
<1>2. faults["lostAck"] = 0
  BY DEF Init, FaultKinds
<1>3. HandlerKnows /\ Apart
  BY DEF Init, HandlerKnows, Knows, Apart, Working, Creating, Executing, ExecutorSteps,
         At, Idle
<1>4. RowsAgree /\ StrandingTakesTwoFaults
  BY DEF Init, RowsAgree, HasRow, StrandingTakesTwoFaults, Stranded
<1>5. LogTellsTheStatus
  BY DEF Init, LogTellsTheStatus, LogSays, TerminalEvents
<1>6. QED
  BY <1>1, <1>2, <1>3, <1>4, <1>5 DEF IInv

\* What a step does to the count of faults when no acknowledgement is lost.
LEMMA FaultFacts ==
  ASSUME LostAckLimit = 0, faults \in [FaultKinds -> Nat], faults["lostAck"] = 0
  PROVE  /\ ~Fault("lostAck")
         /\ NoFault => faults' = faults
         /\ Fault("abort") => /\ faults'["lostAck"] = 0
                              /\ faults'["abort"] = faults["abort"] + 1
                              /\ faults'["crash"] = faults["crash"]
         /\ Fault("crash") => /\ faults'["lostAck"] = 0
                              /\ faults'["abort"] = faults["abort"]
                              /\ faults'["crash"] = faults["crash"] + 1
  BY DEF Fault, Limit, NoFault, FaultKinds

\* A handler that goes on keeps its run and its outcome; no other moves.
LEMMA GoToFacts ==
  ASSUME HandlersTypeOK, NEW h \in Handlers, NEW step \in Steps, GoTo(h, step)
  PROVE  /\ handler'[h].step = step
         /\ handler'[h].run = handler[h].run
         /\ handler'[h].outcome = handler[h].outcome
         /\ handler'[h].doomed = handler[h].doomed
         /\ \A g \in Handlers : g # h => handler'[g] = handler[g]
  BY DEF GoTo, HandlersTypeOK, HandlerState

\* A handler that returns is idle; no other moves.
LEMMA ReturnFacts ==
  ASSUME HandlersTypeOK, NEW h \in Handlers, Return(h)
  PROVE  /\ handler'[h].step = "idle"
         /\ handler'[h].doomed = {}
         /\ \A g \in Handlers : g # h => handler'[g] = handler[g]
  BY DEF Return, HandlersTypeOK, Idle

\* A handler other than h keeps what it knows when h changes one run that the
\* other neither creates nor executes.
LEMMA OthersKnow ==
  ASSUME IInv, NEW h \in Handlers, NEW r \in Runs,
         NEW g \in Handlers, g # h, handler'[g] = handler[g],
         \A q \in Runs : q # r => status'[q] = status[q] /\ dataset'[q] = dataset[q],
         faults'["abort"] \in Nat, faults'["abort"] >= faults["abort"],
         status'[r] # "absent" \/ status'[r] = status[r],
         status[r] = "deleted" => status'[r] = "deleted",
         Working(g) => handler[g].run # r
  PROVE  Knows(g)'
<1> DEFINE q == handler[g].run
<1>1. /\ handler[g].doomed \subseteq Runs
      /\ handler[g].step \notin {"idle", "removing"} => q \in Runs
  BY DEF IInv, TypeOK, HandlersTypeOK, HandlerState
<1>2. faults["abort"] \in Nat
  BY DEF IInv, TypeOK, FaultKinds
<1>3. QED
  BY <1>1, <1>2 DEF IInv, HandlerKnows, Knows, At, Creating, Executing,
     ExecutorSteps, Working

\* Handlers stay apart when one goes on at the same run or leaves it.
LEMMA StayApart ==
  ASSUME IInv, NEW h \in Handlers,
         \A g \in Handlers : g # h => handler'[g] = handler[g],
         Working(h)' => handler'[h].run = handler[h].run /\ Working(h)
  PROVE  Apart'
  BY DEF IInv, Apart, Working, Creating, Executing

\* The same for a handler that has just taken a run nobody else works on.
LEMMA MoveApart ==
  ASSUME IInv, NEW h \in Handlers,
         \A g \in Handlers : g # h => handler'[g] = handler[g],
         \A g \in Handlers : g # h /\ Working(g) => handler[g].run # handler'[h].run
  PROVE  Apart'
  BY DEF IInv, Apart, Working, Creating, Executing

\* Writing the log of an attempt.
LEMMA LogFacts ==
  /\ \A s : s \notin TerminalEvents => LogSays(<<>>, s)
  /\ \A e \in Seq(EventTypes) : LogSays(e, "running") =>
        /\ LogSays(e \o StartEvents, "running")
        /\ LogSays(e \o AnalysisEvents, "completed")
        /\ LogSays(e \o FailedEvent, "failed")
<1>1. \A s : s \notin TerminalEvents => LogSays(<<>>, s)
  BY DEF LogSays
<1>2. ASSUME NEW e \in Seq(EventTypes), LogSays(e, "running")
      PROVE  /\ LogSays(e \o StartEvents, "running")
             /\ LogSays(e \o AnalysisEvents, "completed")
             /\ LogSays(e \o FailedEvent, "failed")
  <2>1. \A i \in 1..Len(e) : e[i] \notin TerminalEvents
    BY <1>2 DEF LogSays, TerminalEvents
  <2>2. LogSays(e \o StartEvents, "running")
    <3> DEFINE f == e \o <<"step", "step">>
    <3>1. /\ Len(f) = Len(e) + 2
          /\ \A i \in 1..Len(e) : f[i] = e[i]
          /\ f[Len(e) + 1] = "step" /\ f[Len(e) + 2] = "step"
      OBVIOUS
    <3>2. \A i \in 1..Len(f) : f[i] \notin TerminalEvents
      BY <2>1, <3>1 DEF TerminalEvents
    <3>3. QED
      BY <3>2 DEF LogSays, TerminalEvents, StartEvents
  <2>3. LogSays(e \o AnalysisEvents, "completed")
    <3> DEFINE f == e \o <<"detector_result", "completed">>
    <3>1. /\ Len(f) = Len(e) + 2
          /\ \A i \in 1..Len(e) : f[i] = e[i]
          /\ f[Len(e) + 1] = "detector_result" /\ f[Len(e) + 2] = "completed"
      OBVIOUS
    <3>2. {i \in 1..Len(f) : f[i] \in TerminalEvents} = {Len(f)}
      BY <2>1, <3>1 DEF TerminalEvents
    <3>3. QED
      BY <3>1, <3>2 DEF LogSays, TerminalEvents, AnalysisEvents
  <2>4. LogSays(e \o FailedEvent, "failed")
    <3> DEFINE f == e \o <<"failed">>
    <3>1. /\ Len(f) = Len(e) + 1
          /\ \A i \in 1..Len(e) : f[i] = e[i]
          /\ f[Len(e) + 1] = "failed"
      OBVIOUS
    <3>2. {i \in 1..Len(f) : f[i] \in TerminalEvents} = {Len(f)}
      BY <2>1, <3>1 DEF TerminalEvents
    <3>3. QED
      BY <3>1, <3>2 DEF LogSays, TerminalEvents, FailedEvent
  <2>5. QED
    BY <2>2, <2>3, <2>4
<1>3. QED
  BY <1>1, <1>2

\* A run is not left behind by a step of h that hands it over or counts a
\* second fault.
LEMMA StrandStays ==
  ASSUME IInv, NEW h \in Handlers,
         \A g \in Handlers : g # h => handler'[g] = handler[g],
         faults'["abort"] \in Nat, faults'["abort"] >= faults["abort"],
         faults'["crash"] = faults["crash"],
         \A r \in Runs :
            /\ status'[r] = "running"
            /\ status[r] # "running" \/ (Executing(h) /\ handler[h].run = r)
            => \/ Executing(h)' /\ handler'[h].run = r
               \/ faults'["abort"] > 1
  PROVE  StrandingTakesTwoFaults'
<1> SUFFICES ASSUME NEW r \in Runs, Stranded(r)'
             PROVE  faults'["crash"] > 0 \/ faults'["abort"] > 1
  BY DEF StrandingTakesTwoFaults
<1>1. status'[r] = "running" /\ \A g \in Handlers : Executing(g)' => handler'[g].run # r
  BY DEF Stranded
<1>2. faults["abort"] \in Nat /\ faults["crash"] \in Nat
  BY DEF IInv, TypeOK, FaultKinds
<1>3. CASE status[r] = "running" /\ Stranded(r)
  BY <1>2, <1>3 DEF IInv, StrandingTakesTwoFaults
<1>4. CASE status[r] = "running" /\ ~Stranded(r)
  <2>1. PICK g \in Handlers : Executing(g) /\ handler[g].run = r
    BY <1>4 DEF Stranded
  <2>2. g = h
    BY <1>1, <2>1 DEF Executing
  <2>3. QED
    BY <1>1, <2>1, <2>2
<1>5. CASE status[r] # "running"
  BY <1>1, <1>5
<1>6. QED
  BY <1>3, <1>4, <1>5

\* A step that changes no row, log or analysis: what is left to show.
LEMMA RowsStay ==
  ASSUME IInv, UNCHANGED db,
         \A r \in Runs : HasRow(r) => dataset'[r] = dataset[r]
  PROVE  RowsAgree' /\ LogTellsTheStatus'
  BY DEF IInv, RowsAgree, LogTellsTheStatus, HasRow, db, row

\* A handler that does no work gives up and leaves no trace.
LEMMA InvReturn ==
  ASSUME IInv, TypeOK', NEW h \in Handlers, ~Working(h), Return(h),
         UNCHANGED <<db, dataset>>,
         faults'["lostAck"] = 0, faults'["crash"] = faults["crash"],
         faults'["abort"] \in Nat, faults'["abort"] >= faults["abort"]
  PROVE  IInv'
<1>1. HandlersTypeOK /\ faults["abort"] \in Nat
  BY DEF IInv, TypeOK, FaultKinds
<1>2. /\ \A g \in Handlers : g # h => handler'[g] = handler[g]
      /\ ~Working(h)' /\ ~Executing(h)' /\ Knows(h)'
  BY <1>1, ReturnFacts DEF Working, Creating, Executing, ExecutorSteps, Knows, At
<1>3. status' = status /\ dataset' = dataset
  BY DEF db, row
<1>4. Apart'
  BY <1>2, StayApart
<1>5. ASSUME NEW g \in Handlers, g # h PROVE Knows(g)'
  BY <1>1, <1>2, <1>3, <1>5 DEF IInv, HandlerKnows, Knows, At, Creating, Executing
<1>6. RowsAgree' /\ LogTellsTheStatus'
  BY RowsStay
<1>7. StrandingTakesTwoFaults'
  BY <1>2, <1>3, StrandStays DEF Working
<1>8. QED
  BY <1>2, <1>4, <1>5, <1>6, <1>7 DEF IInv, HandlerKnows

\* The upload.
LEMMA InvCreate ==
  ASSUME IInv, LostAckLimit = 0, NEW h \in Handlers, CreateStep(h)
  PROVE  IInv'
<1> DEFINE r == handler[h].run
<1> USE DEF Steps
<1>0. TypeOK'
  BY TypeCreate DEF IInv
<1>1. /\ HandlersTypeOK /\ faults \in [FaultKinds -> Nat]
      /\ faults["abort"] \in Nat /\ faults["lostAck"] = 0
  BY DEF IInv, TypeOK, FaultKinds
<1>2. /\ Creating(h) /\ ~Executing(h) /\ Working(h) /\ Busy(h)
      /\ At(h, "writing") \/ At(h, "inserting") \/ At(h, "discarding")
  BY DEF CreateStep, WriteTables, WriteTablesFails, InsertRun, DiscardUpload,
     At, Creating, Working, Executing, ExecutorSteps, Busy
<1>3. r \in Runs /\ status[r] = "absent" /\ handler[h].doomed = handler[h].doomed
  BY <1>1, <1>2 DEF IInv, HandlerKnows, Knows, HandlersTypeOK, Busy
<1>4. /\ faults'["lostAck"] = 0 /\ faults'["crash"] = faults["crash"]
      /\ faults'["abort"] \in Nat /\ faults'["abort"] >= faults["abort"]
      /\ ~Fault("lostAck")
  BY <1>1, FaultFacts DEF CreateStep, WriteTables, WriteTablesFails, InsertRun,
     DiscardUpload, Commits, Aborts, AckLost
<1>5. \/ GoTo(h, "inserting") \/ GoTo(h, "discarding") \/ Return(h)
  BY <1>4 DEF CreateStep, WriteTables, WriteTablesFails, InsertRun,
     DiscardUpload, Commits, Aborts, AckLost
<1>6. /\ \A g \in Handlers : g # h => handler'[g] = handler[g]
      /\ ~Executing(h)'
      /\ Working(h)' => handler'[h].run = r
  BY <1>1, <1>5, GoToFacts, ReturnFacts DEF Executing, ExecutorSteps, Working, Creating
<1>7. Apart'
  BY <1>2, <1>6, StayApart
<1>8. \A q \in Runs : q # r => status'[q] = status[q] /\ dataset'[q] = dataset[q]
  BY <1>3, <1>4 DEF IInv, TypeOK, CreateStep, WriteTables, WriteTablesFails, InsertRun,
     DiscardUpload, Commits, Aborts, AckLost, InsertEffect, db, row
<1>9. status'[r] \in {"absent", "ready"}
  BY <1>3, <1>4 DEF IInv, TypeOK, CreateStep, WriteTables, WriteTablesFails, InsertRun,
     DiscardUpload, Commits, Aborts, AckLost, InsertEffect, db, row
<1>10. ASSUME NEW g \in Handlers, g # h PROVE Knows(g)'
  <2>1. Working(g) => handler[g].run # r
    BY <1>2, <1>10 DEF IInv, Apart
  <2>2. QED
    BY <1>3, <1>4, <1>6, <1>8, <1>9, <1>10, <2>1, OthersKnow
<1>11. Knows(h)'
  <2>1. CASE WriteTables(h)
    <3>1. handler'[h].step = "inserting" /\ handler'[h].run = r
          /\ handler'[h].doomed = handler[h].doomed
      BY <1>1, <2>1, GoToFacts DEF WriteTables
    <3>2. status' = status /\ dataset'[r] = "written"
      BY <1>3, <2>1 DEF WriteTables, db, row, IInv, TypeOK
    <3>3. QED
      BY <1>2, <1>3, <3>1, <3>2 DEF IInv, HandlerKnows, Knows, At, Creating, Executing, ExecutorSteps
  <2>2. CASE Return(h)
    BY <1>1, <2>2, ReturnFacts DEF Knows, At, Creating, Executing, ExecutorSteps
  <2>3. CASE InsertRun(h) /\ GoTo(h, "discarding") /\ UNCHANGED db
    <3>1. handler'[h].step = "discarding" /\ handler'[h].run = r
          /\ handler'[h].doomed = handler[h].doomed
      BY <1>1, <2>3, GoToFacts
    <3>2. status' = status
      BY <2>3 DEF db, row
    <3>3. QED
      BY <1>2, <1>3, <3>1, <3>2 DEF IInv, HandlerKnows, Knows, At, Creating, Executing, ExecutorSteps
  <2>4. QED
    BY <1>4, <2>1, <2>2, <2>3 DEF CreateStep, WriteTablesFails, InsertRun, DiscardUpload,
       Commits, Aborts, AckLost
<1>12. RowsAgree' /\ LogTellsTheStatus'
  <2>1. CASE UNCHANGED db
    <3>1. \A q \in Runs : HasRow(q) => dataset'[q] = dataset[q]
      BY <1>3, <1>8 DEF HasRow
    <3>2. QED
      BY <2>1, <3>1, RowsStay
  <2>2. CASE At(h, "inserting") /\ InsertEffect(r, handler[h].user) /\ UNCHANGED dataset
    <3>1. /\ dataset[r] = "written" /\ analysis[r] = "none"
          /\ log[r] \in Seq(EventTypes) /\ LogSays(log[r], "absent")
      BY <1>3, <2>2 DEF IInv, HandlerKnows, Knows, RowsAgree, LogTellsTheStatus, TypeOK
    <3>2. status' = [status EXCEPT ![r] = "ready"] /\ UNCHANGED <<log, analysis, dataset>>
      BY <2>2 DEF InsertEffect
    <3>3. RowsAgree'
      BY <1>3, <3>1, <3>2 DEF IInv, TypeOK, RowsAgree, HasRow
    <3>4. LogSays(log[r], "ready")
      BY <3>1 DEF LogSays, TerminalEvents
    <3>5. LogTellsTheStatus'
      BY <1>3, <3>2, <3>4 DEF IInv, TypeOK, LogTellsTheStatus
    <3>6. QED
      BY <3>3, <3>5
  <2>3. QED
    BY <1>4, <2>1, <2>2 DEF CreateStep, WriteTables, WriteTablesFails, InsertRun, DiscardUpload,
       Commits, Aborts, AckLost
<1>13. StrandingTakesTwoFaults'
  BY <1>2, <1>3, <1>4, <1>6, <1>8, <1>9, StrandStays
<1>14. QED
  BY <1>0, <1>4, <1>7, <1>10, <1>11, <1>12, <1>13 DEF IInv, HandlerKnows

\* The start.
LEMMA InvStart ==
  ASSUME IInv, LostAckLimit = 0, NEW h \in Handlers, StartStep(h)
  PROVE  IInv'
<1> DEFINE r == handler[h].run
<1> USE DEF Steps
<1>0. TypeOK'
  BY TypeStart DEF IInv
<1>1. /\ HandlersTypeOK /\ faults \in [FaultKinds -> Nat]
      /\ faults["abort"] \in Nat /\ faults["lostAck"] = 0
  BY DEF IInv, TypeOK, FaultKinds
<1>2. At(h, "starting") /\ ~Working(h) /\ Busy(h)
  BY DEF StartStep, MarkRunning, StartRefused, At, Working, Creating, Executing,
     ExecutorSteps, Busy
<1>3. r \in Runs /\ status[r] # "absent"
  BY <1>1, <1>2 DEF IInv, HandlerKnows, Knows, HandlersTypeOK, Busy
<1>4. /\ faults'["lostAck"] = 0 /\ faults'["crash"] = faults["crash"]
      /\ faults'["abort"] \in Nat /\ faults'["abort"] >= faults["abort"]
      /\ ~Fault("lostAck")
  BY <1>1, FaultFacts DEF StartStep, MarkRunning, StartRefused, Commits, Aborts, AckLost
<1>5. CASE Return(h) /\ UNCHANGED <<db, dataset>>
  BY <1>0, <1>2, <1>4, <1>5, InvReturn
<1>6. CASE /\ CanMark(h) /\ MarkRunningEffect(r) /\ UNCHANGED dataset
           /\ GoTo(h, "scheduled")
  <2>1. /\ status' = [status EXCEPT ![r] = "running"]
        /\ log' = [log EXCEPT ![r] = <<>>]
        /\ UNCHANGED <<analysis, dataset>>
        /\ status[r] \in {"ready", "failed"}
    BY <1>6 DEF MarkRunningEffect, CanMark, Startable
  <2>2. /\ \A g \in Handlers : g # h => handler'[g] = handler[g]
        /\ handler'[h].step = "scheduled" /\ handler'[h].run = r
        /\ handler'[h].doomed = handler[h].doomed
    BY <1>1, <1>6, GoToFacts
  <2>3. /\ status'[r] = "running"
        /\ \A q \in Runs : q # r => status'[q] = status[q] /\ dataset'[q] = dataset[q]
    BY <1>3, <2>1 DEF IInv, TypeOK
  <2>4. ASSUME NEW g \in Handlers, g # h, Working(g) PROVE handler[g].run # r
    BY <2>1, <2>4 DEF IInv, HandlerKnows, Knows, Working
  <2>5. Apart'
    BY <2>2, <2>4, MoveApart
  <2>6. ASSUME NEW g \in Handlers, g # h PROVE Knows(g)'
    BY <1>3, <1>4, <2>1, <2>2, <2>3, <2>4, <2>6, OthersKnow
  <2>7. Knows(h)'
    <3>1. \A d \in handler[h].doomed : d \in Runs /\ status[d] = "deleted"
      BY <1>1 DEF IInv, HandlerKnows, Knows, HandlersTypeOK, HandlerState
    <3>2. QED
      BY <2>1, <2>2, <2>3, <3>1 DEF Knows, At, Creating, Executing, ExecutorSteps
  <2>8. RowsAgree'
    BY <1>3, <2>1 DEF IInv, TypeOK, RowsAgree, HasRow
  <2>9. LogTellsTheStatus'
    <3>1. LogSays(<<>>, "running")
      BY LogFacts DEF TerminalEvents
    <3>2. QED
      BY <1>3, <2>1, <3>1 DEF IInv, TypeOK, LogTellsTheStatus
  <2>10. StrandingTakesTwoFaults'
    <3>1. Executing(h)' /\ handler'[h].run = r
      BY <2>2 DEF Executing, ExecutorSteps
    <3>2. QED
      BY <1>2, <1>4, <2>2, <2>3, <3>1, StrandStays DEF Working
  <2>11. QED
    BY <1>0, <1>4, <2>5, <2>6, <2>7, <2>8, <2>9, <2>10 DEF IInv, HandlerKnows
<1>7. QED
  BY <1>4, <1>5, <1>6 DEF StartStep, MarkRunning, StartRefused, Commits, Aborts, AckLost

\* Closing a running run, one way or the other.
LEMMA CloseFacts ==
  ASSUME IInv, NEW r \in Runs, status[r] = "running",
         CloseFailed(r) \/ CloseCompleted(r, "audited")
  PROVE  /\ status'[r] \in TerminalEvents
         /\ \A q \in Runs : q # r => status'[q] = status[q]
         /\ analysis'[r] = IF status'[r] = "completed" THEN "audited" ELSE "none"
         /\ \A q \in Runs : q # r => analysis'[q] = analysis[q]
         /\ LogTellsTheStatus'
<1>1. log[r] \in Seq(EventTypes) /\ LogSays(log[r], "running") /\ analysis[r] = "none"
  BY DEF IInv, TypeOK, LogTellsTheStatus, RowsAgree
<1>2. CASE CloseFailed(r)
  <2>1. /\ status' = [status EXCEPT ![r] = "failed"]
        /\ log' = [log EXCEPT ![r] = log[r] \o FailedEvent]
        /\ analysis' = analysis
    BY <1>2 DEF CloseFailed, Append2Log, Finished, IInv, TypeOK
  <2>2. LogSays(log[r] \o FailedEvent, "failed")
    BY <1>1, LogFacts
  <2>3. LogTellsTheStatus'
    BY <2>1, <2>2 DEF IInv, TypeOK, LogTellsTheStatus
  <2>4. QED
    BY <1>1, <2>1, <2>3 DEF IInv, TypeOK, TerminalEvents
<1>3. CASE CloseCompleted(r, "audited")
  <2>1. /\ status' = [status EXCEPT ![r] = "completed"]
        /\ log' = [log EXCEPT ![r] = log[r] \o AnalysisEvents]
        /\ analysis' = [analysis EXCEPT ![r] = "audited"]
    BY <1>3 DEF CloseCompleted, Append2Log, Finished, IInv, TypeOK
  <2>2. LogSays(log[r] \o AnalysisEvents, "completed")
    BY <1>1, LogFacts
  <2>3. LogTellsTheStatus'
    BY <2>1, <2>2 DEF IInv, TypeOK, LogTellsTheStatus
  <2>4. QED
    BY <2>1, <2>3 DEF IInv, TypeOK, TerminalEvents
<1>4. QED
  BY <1>2, <1>3

\* What the steps of the background task come to under the invariant.
LEMMA ExecuteFacts ==
  ASSUME IInv, LostAckLimit = 0, NEW h \in Handlers, ExecuteStep(h)
  PROVE  LET r == handler[h].run
         IN /\ Executing(h) /\ Busy(h)
            /\ r \in Runs /\ status[r] = "running"
            /\ UNCHANGED <<owner, dataset>>
            /\ \/ /\ GoTo(h, "analyzing") /\ UNCHANGED <<row, analysis>>
                  /\ UNCHANGED log \/ Append2Log(r, StartEvents)
                  /\ NoFault \/ Fault("abort")
               \/ Analyze(h)
               \/ At(h, "storing") /\ Aborts(GoTo(h, "closing"))
               \/ At(h, "closing") /\ Aborts(Return(h))
               \/ /\ CloseFailed(r) \/ CloseCompleted(r, "audited")
                  /\ Return(h) /\ NoFault
<1> DEFINE r == handler[h].run
<1>1. Executing(h) /\ Busy(h)
  BY DEF ExecuteStep, LogStart, Analyze, StoreOutcome, StoreFailure, StoreWithoutRow,
     Executing, ExecutorSteps, Busy, At
<1>2. r \in Runs /\ status[r] = "running"
  BY <1>1 DEF IInv, HandlerKnows, Knows, TypeOK, HandlersTypeOK, Busy
<1>3. ~Fault("lostAck")
  BY FaultFacts DEF IInv, TypeOK
<1>4. HasRow(r)
  BY <1>2 DEF HasRow
<1>5. CASE LogStart(h)
  BY <1>1, <1>2, <1>3, <1>5 DEF LogStart, Commits, Aborts, AckLost, db, row
<1>6. CASE Analyze(h)
  BY <1>1, <1>2, <1>6 DEF Analyze, db, row
<1>7. CASE StoreOutcome(h)
  <2>1. handler[h].outcome \in {"audited", "error"}
    BY <1>7 DEF StoreOutcome, IInv, HandlerKnows, Knows
  <2>2. CASE Aborts(GoTo(h, "closing"))
    BY <1>1, <1>2, <1>7, <2>2 DEF StoreOutcome, Aborts, db, row
  <2>3. CASE Commits(StoreEffect(h), Return(h))
    BY <1>1, <1>2, <1>7, <2>1, <2>3 DEF StoreOutcome, Commits, StoreEffect,
       CloseFailed, CloseCompleted
  <2>4. QED
    BY <1>3, <1>7, <2>2, <2>3 DEF StoreOutcome, AckLost
<1>8. CASE StoreFailure(h)
  <2>1. CASE Aborts(Return(h))
    BY <1>1, <1>2, <1>8, <2>1 DEF StoreFailure, Aborts, db, row
  <2>2. CASE Commits(CloseFailed(r), Return(h))
    BY <1>1, <1>2, <1>8, <2>2 DEF StoreFailure, Commits, CloseFailed
  <2>3. QED
    BY <1>3, <1>8, <2>1, <2>2 DEF StoreFailure, AckLost
<1>9. QED
  BY <1>4, <1>5, <1>6, <1>7, <1>8 DEF ExecuteStep, StoreWithoutRow

\* The background task.
LEMMA InvExecute ==
  ASSUME IInv, LostAckLimit = 0, NEW h \in Handlers, ExecuteStep(h)
  PROVE  IInv'
<1> DEFINE r == handler[h].run
<1> USE DEF Steps
<1>0. TypeOK'
  BY TypeExecute DEF IInv
<1>1. /\ HandlersTypeOK /\ faults \in [FaultKinds -> Nat]
      /\ faults["abort"] \in Nat /\ faults["lostAck"] = 0
  BY DEF IInv, TypeOK, FaultKinds
<1>2. /\ Executing(h) /\ Working(h) /\ r \in Runs /\ status[r] = "running"
      /\ dataset' = dataset /\ HasRow(r) /\ dataset[r] = "written"
  BY ExecuteFacts DEF IInv, Working, RowsAgree, HasRow
<1>3. \A d \in handler[h].doomed : d \in Runs /\ status[d] = "deleted"
  BY <1>1 DEF IInv, HandlerKnows, Knows, HandlersTypeOK, HandlerState
<1>4. ASSUME NEW g \in Handlers, g # h PROVE Working(g) => handler[g].run # r
  BY <1>2, <1>4 DEF IInv, Apart
<1>5. CASE /\ GoTo(h, "analyzing") /\ UNCHANGED <<row, analysis>>
           /\ UNCHANGED log \/ Append2Log(r, StartEvents)
           /\ NoFault \/ Fault("abort")
  <2>1. /\ \A g \in Handlers : g # h => handler'[g] = handler[g]
        /\ handler'[h].step = "analyzing" /\ handler'[h].run = r
        /\ handler'[h].doomed = handler[h].doomed
    BY <1>1, <1>5, GoToFacts
  <2>2. /\ faults'["lostAck"] = 0 /\ faults'["crash"] = faults["crash"]
        /\ faults'["abort"] \in Nat /\ faults'["abort"] >= faults["abort"]
    BY <1>1, <1>5, FaultFacts
  <2>3. status' = status /\ analysis' = analysis
    BY <1>5 DEF row
  <2>4. Executing(h)' /\ Working(h)'
    BY <2>1 DEF Executing, ExecutorSteps, Working
  <2>5. Apart'
    BY <1>2, <2>1, <2>4, StayApart
  <2>6. ASSUME NEW g \in Handlers, g # h PROVE Knows(g)'
    BY <1>2, <1>4, <2>1, <2>2, <2>3, <2>6, OthersKnow
  <2>7. Knows(h)'
    BY <1>2, <1>3, <2>1, <2>3 DEF Knows, At, Creating, Executing, ExecutorSteps
  <2>8. RowsAgree'
    BY <1>2, <2>3 DEF IInv, RowsAgree, HasRow
  <2>9. LogTellsTheStatus'
    <3>1. CASE UNCHANGED log
      BY <2>3, <3>1 DEF IInv, LogTellsTheStatus
    <3>2. CASE Append2Log(r, StartEvents)
      <4>1. log[r] \in Seq(EventTypes) /\ LogSays(log[r], "running")
        BY <1>2 DEF IInv, TypeOK, LogTellsTheStatus
      <4>2. LogSays(log[r] \o StartEvents, "running")
        BY <4>1, LogFacts
      <4>3. QED
        BY <1>2, <2>3, <3>2, <4>2 DEF Append2Log, IInv, TypeOK, LogTellsTheStatus
    <3>3. QED
      BY <1>5, <3>1, <3>2
  <2>10. StrandingTakesTwoFaults'
    BY <1>2, <2>1, <2>2, <2>3, <2>4, StrandStays
  <2>11. QED
    BY <1>0, <2>2, <2>5, <2>6, <2>7, <2>8, <2>9, <2>10 DEF IInv, HandlerKnows
<1>6. CASE Analyze(h)
  <2>1. PICK outcome \in {Audited(r), "error"} :
          handler' = [handler EXCEPT ![h].step = "storing", ![h].outcome = outcome]
    BY <1>6 DEF Analyze
  <2>2. outcome \in {"audited", "error"}
    BY <1>2 DEF Audited
  <2>3. /\ \A g \in Handlers : g # h => handler'[g] = handler[g]
        /\ handler'[h].step = "storing" /\ handler'[h].run = r
        /\ handler'[h].outcome = outcome /\ handler'[h].doomed = handler[h].doomed
    BY <1>1, <2>1 DEF HandlersTypeOK, HandlerState
  <2>4. /\ UNCHANGED db /\ status' = status /\ faults' = faults
        /\ faults'["abort"] >= faults["abort"]
    BY <1>1, <1>6 DEF Analyze, NoFault, db, row
  <2>5. Executing(h)' /\ Working(h)'
    BY <2>3 DEF Executing, ExecutorSteps, Working
  <2>6. Apart'
    BY <1>2, <2>3, <2>5, StayApart
  <2>7. ASSUME NEW g \in Handlers, g # h PROVE Knows(g)'
    BY <1>1, <1>2, <1>4, <2>3, <2>4, <2>7, OthersKnow
  <2>8. Knows(h)'
    BY <1>2, <1>3, <2>2, <2>3, <2>4 DEF Knows, At, Creating, Executing, ExecutorSteps
  <2>9. RowsAgree' /\ LogTellsTheStatus'
    BY <1>2, <2>4, RowsStay
  <2>10. StrandingTakesTwoFaults'
    BY <1>1, <1>2, <2>3, <2>4, <2>5, StrandStays
  <2>11. QED
    BY <1>0, <1>1, <2>4, <2>6, <2>7, <2>8, <2>9, <2>10 DEF IInv, HandlerKnows
<1>7. CASE At(h, "storing") /\ Aborts(GoTo(h, "closing"))
  <2>1. /\ \A g \in Handlers : g # h => handler'[g] = handler[g]
        /\ handler'[h].step = "closing" /\ handler'[h].run = r
        /\ handler'[h].doomed = handler[h].doomed
    BY <1>1, <1>7, GoToFacts DEF Aborts
  <2>2. /\ faults'["lostAck"] = 0 /\ faults'["crash"] = faults["crash"]
        /\ faults'["abort"] \in Nat /\ faults'["abort"] > 0
        /\ faults'["abort"] >= faults["abort"]
    BY <1>1, <1>7, FaultFacts DEF Aborts
  <2>3. UNCHANGED db /\ status' = status
    BY <1>7 DEF Aborts, db, row
  <2>4. Executing(h)' /\ Working(h)'
    BY <2>1 DEF Executing, ExecutorSteps, Working
  <2>5. Apart'
    BY <1>2, <2>1, <2>4, StayApart
  <2>6. ASSUME NEW g \in Handlers, g # h PROVE Knows(g)'
    BY <1>2, <1>4, <2>1, <2>2, <2>3, <2>6, OthersKnow
  <2>7. Knows(h)'
    BY <1>2, <1>3, <2>1, <2>2, <2>3 DEF Knows, At, Creating, Executing, ExecutorSteps
  <2>8. RowsAgree' /\ LogTellsTheStatus'
    BY <1>2, <2>3, RowsStay
  <2>9. StrandingTakesTwoFaults'
    BY <1>2, <2>1, <2>2, <2>3, <2>4, StrandStays
  <2>10. QED
    BY <1>0, <2>2, <2>5, <2>6, <2>7, <2>8, <2>9 DEF IInv, HandlerKnows
<1>8. CASE At(h, "closing") /\ Aborts(Return(h))
  <2>1. /\ \A g \in Handlers : g # h => handler'[g] = handler[g]
        /\ ~Working(h)' /\ Knows(h)'
    BY <1>1, <1>8, ReturnFacts DEF Aborts, Working, Creating, Executing, ExecutorSteps,
       Knows, At
  <2>2. faults["abort"] > 0
    BY <1>8 DEF IInv, HandlerKnows, Knows
  <2>3. /\ faults'["lostAck"] = 0 /\ faults'["crash"] = faults["crash"]
        /\ faults'["abort"] \in Nat /\ faults'["abort"] > 1
        /\ faults'["abort"] >= faults["abort"]
    BY <1>1, <1>8, <2>2, FaultFacts DEF Aborts
  <2>4. UNCHANGED db /\ status' = status
    BY <1>8 DEF Aborts, db, row
  <2>5. Apart'
    BY <2>1, StayApart
  <2>6. ASSUME NEW g \in Handlers, g # h PROVE Knows(g)'
    BY <1>2, <1>4, <2>1, <2>3, <2>4, <2>6, OthersKnow
  <2>7. RowsAgree' /\ LogTellsTheStatus'
    BY <1>2, <2>4, RowsStay
  <2>8. StrandingTakesTwoFaults'
    BY <2>1, <2>3, StrandStays
  <2>9. QED
    BY <1>0, <2>1, <2>3, <2>5, <2>6, <2>7, <2>8 DEF IInv, HandlerKnows
<1>9. CASE /\ CloseFailed(r) \/ CloseCompleted(r, "audited")
           /\ Return(h) /\ NoFault
  <2>1. /\ \A g \in Handlers : g # h => handler'[g] = handler[g]
        /\ ~Working(h)' /\ Knows(h)'
    BY <1>1, <1>9, ReturnFacts DEF Working, Creating, Executing, ExecutorSteps, Knows, At
  <2>2. faults' = faults /\ faults'["abort"] >= faults["abort"]
    BY <1>1, <1>9 DEF NoFault
  <2>3. /\ status'[r] \in TerminalEvents
        /\ \A q \in Runs : q # r => status'[q] = status[q]
        /\ analysis'[r] = IF status'[r] = "completed" THEN "audited" ELSE "none"
        /\ \A q \in Runs : q # r => analysis'[q] = analysis[q]
        /\ LogTellsTheStatus'
    BY <1>2, <1>9, CloseFacts
  <2>4. Apart'
    BY <2>1, StayApart
  <2>5. ASSUME NEW g \in Handlers, g # h PROVE Knows(g)'
    BY <1>1, <1>2, <1>4, <2>1, <2>2, <2>3, <2>5, OthersKnow DEF TerminalEvents
  <2>6. RowsAgree'
    BY <1>2, <2>3 DEF IInv, RowsAgree, HasRow, TerminalEvents
  <2>7. StrandingTakesTwoFaults'
    BY <1>1, <1>2, <2>1, <2>2, <2>3, StrandStays DEF TerminalEvents
  <2>8. QED
    BY <1>0, <1>1, <2>1, <2>2, <2>3, <2>4, <2>5, <2>6, <2>7 DEF IInv, HandlerKnows
<1>10. QED
  BY <1>5, <1>6, <1>7, <1>8, <1>9, ExecuteFacts

\* The transaction of a delete: rows that are not running go, and their
\* directories are left to the handler.
LEMMA InvErase ==
  ASSUME IInv, TypeOK', NEW h \in Handlers, ~Working(h), NEW rs \in SUBSET Runs,
         \A r \in rs : HasRow(r) /\ Deletable(status[r]),
         EraseEffect(rs), Remove(h, rs), NoFault, UNCHANGED dataset
  PROVE  IInv'
<1>1. /\ HandlersTypeOK /\ faults' = faults
      /\ faults["abort"] \in Nat /\ faults["lostAck"] = 0
  BY DEF IInv, TypeOK, FaultKinds, NoFault
<1>2. /\ \A r \in rs : status[r] \in {"ready", "completed", "failed"}
      /\ \A r \in rs : status'[r] = "deleted" /\ log'[r] = <<>> /\ analysis'[r] = "none"
      /\ \A r \in Runs \ rs : /\ status'[r] = status[r] /\ log'[r] = log[r]
                             /\ analysis'[r] = analysis[r]
  BY DEF EraseEffect, HasRow, Deletable, IInv, TypeOK, Status
<1>3. /\ \A g \in Handlers : g # h => handler'[g] = handler[g]
      /\ handler'[h].step = "removing" /\ handler'[h].doomed = rs
  BY <1>1 DEF Remove, HandlersTypeOK, Idle
<1>4. ~Working(h)' /\ ~Executing(h)' /\ Knows(h)'
  BY <1>2, <1>3 DEF Working, Creating, Executing, ExecutorSteps, Knows, At
<1>5. Apart'
  BY <1>3, <1>4, StayApart
<1>6. ASSUME NEW g \in Handlers, g # h PROVE Knows(g)'
  <2>1. /\ handler[g].doomed \subseteq Runs
        /\ handler[g].step \notin {"idle", "removing"} => handler[g].run \in Runs
    BY <1>1, <1>6 DEF HandlersTypeOK, HandlerState
  <2>2. Knows(g) /\ handler'[g] = handler[g]
    BY <1>3, <1>6 DEF IInv, HandlerKnows
  <2>3. QED
    BY <1>1, <1>2, <2>1, <2>2 DEF Knows, At, Creating, Executing, ExecutorSteps
<1>7. RowsAgree'
  BY <1>2 DEF IInv, RowsAgree, HasRow
<1>8. LogTellsTheStatus'
  <2>1. LogSays(<<>>, "deleted")
    BY LogFacts DEF TerminalEvents
  <2>2. QED
    BY <1>2, <2>1 DEF IInv, LogTellsTheStatus
<1>9. StrandingTakesTwoFaults'
  <2>1. \A r \in Runs : status'[r] = "running" => status[r] = "running"
    BY <1>2
  <2>2. QED
    BY <1>1, <1>3, <2>1, StrandStays DEF Working
<1>10. QED
  BY <1>1, <1>4, <1>5, <1>6, <1>7, <1>8, <1>9 DEF IInv, HandlerKnows

\* The removal of a directory: its run has been deleted.
LEMMA InvRemove ==
  ASSUME IInv, TypeOK', NEW h \in Handlers, RemoveDataset(h)
  PROVE  IInv'
<1>1. HandlersTypeOK /\ faults["abort"] \in Nat /\ faults["lostAck"] = 0
  BY DEF IInv, TypeOK, FaultKinds
<1>2. PICK r \in handler[h].doomed :
        /\ dataset' = [dataset EXCEPT ![r] = "none"]
        /\ IF handler[h].doomed = {r} THEN Return(h)
           ELSE handler' = [handler EXCEPT ![h].doomed = @ \ {r}]
  BY DEF RemoveDataset
<1>3. UNCHANGED db /\ status' = status /\ faults' = faults /\ At(h, "removing")
  BY DEF RemoveDataset, NoFault, db, row
<1>4. r \in Runs /\ status[r] = "deleted"
  BY <1>1, <1>2 DEF IInv, HandlerKnows, Knows, HandlersTypeOK, HandlerState
<1>5. \A q \in Runs : q # r => dataset'[q] = dataset[q]
  BY <1>2, <1>4 DEF IInv, TypeOK
<1>6. /\ \A g \in Handlers : g # h => handler'[g] = handler[g]
      /\ handler'[h].step \in {"idle", "removing"}
      /\ handler'[h].doomed \subseteq handler[h].doomed
  <2>1. CASE Return(h)
    BY <1>1, <2>1, ReturnFacts
  <2>2. CASE handler' = [handler EXCEPT ![h].doomed = @ \ {r}]
    BY <1>1, <1>3, <2>2 DEF HandlersTypeOK, HandlerState, At
  <2>3. QED
    BY <1>2, <2>1, <2>2
<1>7. ~Working(h) /\ ~Working(h)'
  BY <1>3, <1>6 DEF Working, Creating, Executing, ExecutorSteps, At
<1>8. Knows(h)'
  BY <1>3, <1>6 DEF IInv, HandlerKnows, Knows, At, Creating, Executing, ExecutorSteps
<1>9. Apart'
  BY <1>6, <1>7, StayApart
<1>10. ASSUME NEW g \in Handlers, g # h PROVE Knows(g)'
  <2>1. Working(g) => handler[g].run # r
    BY <1>4, <1>10 DEF IInv, HandlerKnows, Knows, Working
  <2>2. QED
    BY <1>1, <1>3, <1>4, <1>5, <1>6, <1>10, <2>1, OthersKnow
<1>11. RowsAgree' /\ LogTellsTheStatus'
  BY <1>3, <1>4, <1>5, RowsStay DEF HasRow
<1>12. StrandingTakesTwoFaults'
  BY <1>1, <1>3, <1>6, <1>7, StrandStays DEF Working
<1>13. QED
  BY <1>1, <1>3, <1>8, <1>9, <1>10, <1>11, <1>12 DEF IInv, HandlerKnows

\* The deletes.
LEMMA InvDelete ==
  ASSUME IInv, LostAckLimit = 0, NEW h \in Handlers,
         DeleteStep(h) \/ \E u \in Users : DeleteRuns(h, u)
  PROVE  IInv'
<1>0. TypeOK'
  BY TypeDelete DEF IInv
<1>1. /\ faults \in [FaultKinds -> Nat] /\ faults["lostAck"] = 0
      /\ faults["abort"] \in Nat /\ ~Fault("lostAck") /\ HandlersTypeOK
  BY FaultFacts DEF IInv, TypeOK, FaultKinds
<1>2. CASE DeleteRun(h)
  <2> DEFINE r == handler[h].run
  <2>1. r \in Runs /\ ~Working(h)
    BY <1>1, <1>2 DEF DeleteRun, At, HandlersTypeOK, Working, Creating, Executing,
       ExecutorSteps
  <2>2. CASE Aborts(Return(h)) /\ UNCHANGED dataset
    <3>1. /\ faults'["lostAck"] = 0 /\ faults'["crash"] = faults["crash"]
          /\ faults'["abort"] \in Nat /\ faults'["abort"] >= faults["abort"]
      BY <1>1, <2>2, FaultFacts DEF Aborts
    <3>2. QED
      BY <1>0, <2>1, <2>2, <3>1, InvReturn DEF Aborts
  <2>3. CASE /\ CanErase(handler[h].user, r) /\ EraseEffect({r}) /\ Remove(h, {r})
             /\ NoFault /\ UNCHANGED dataset
    BY <1>0, <2>1, <2>3, InvErase DEF CanErase, Owns
  <2>4. QED
    BY <1>1, <1>2, <2>2, <2>3 DEF DeleteRun, Commits, AckLost
<1>3. CASE DeleteRefused(h)
  <2>1. ~Working(h) /\ faults' = faults
    BY <1>3 DEF DeleteRefused, At, Working, Creating, Executing, ExecutorSteps, NoFault
  <2>2. QED
    BY <1>0, <1>1, <1>3, <2>1, InvReturn DEF DeleteRefused
<1>4. CASE RemoveDataset(h)
  BY <1>0, <1>4, InvRemove
<1>5. ASSUME NEW u \in Users, DeleteRuns(h, u)
      PROVE  IInv'
  <2> DEFINE rs == {r \in Runs : CanErase(u, r)}
  <2>1. /\ EraseEffect(rs) /\ Remove(h, rs) /\ NoFault /\ UNCHANGED dataset
        /\ At(h, "idle")
    BY <1>1, <1>5 DEF DeleteRuns, Commits, AckLost
  <2>2. \A r \in rs : HasRow(r) /\ Deletable(status[r])
    BY DEF CanErase, Owns
  <2>3. ~Working(h)
    BY <2>1 DEF At, Working, Creating, Executing, ExecutorSteps
  <2> HIDE DEF rs
  <2>4. rs \in SUBSET Runs
    BY DEF rs
  <2>5. QED
    BY <1>0, <2>1, <2>2, <2>3, <2>4, InvErase
<1>6. QED
  BY <1>2, <1>3, <1>4, <1>5 DEF DeleteStep

\* The requests that take up a run.
LEMMA InvRequest ==
  ASSUME IInv, NEW h \in Handlers, NEW u \in Users, NEW r \in Runs,
         Upload(h, u, r) \/ ReadToStart(h, u, r) \/ ReadToDelete(h, u, r)
  PROVE  IInv'
<1>0. TypeOK'
  BY TypeRequest DEF IInv
<1>1. /\ HandlersTypeOK /\ faults' = faults /\ At(h, "idle")
      /\ faults["abort"] \in Nat /\ faults["lostAck"] = 0
      /\ UNCHANGED <<db, dataset>> /\ status' = status
  BY DEF IInv, TypeOK, FaultKinds, Upload, ReadToStart, ReadToDelete, NoFault, db, row
<1>2. PICK step \in Steps :
        /\ handler' = [handler EXCEPT ![h] =
                          [Idle EXCEPT !.step = step, !.run = r, !.user = u]]
        /\ \/ /\ step = "writing" /\ status[r] = "absent"
              /\ \A g \in Handlers : handler[g].run # r
           \/ step \in {"starting", "deleting"} /\ HasRow(r)
  BY DEF Upload, ReadToStart, ReadToDelete, Steps, Owns
<1>3. /\ \A g \in Handlers : g # h => handler'[g] = handler[g]
      /\ handler'[h].step = step /\ handler'[h].run = r /\ handler'[h].doomed = {}
  BY <1>1, <1>2 DEF HandlersTypeOK, Idle
<1>4. ~Executing(h) /\ ~Executing(h)'
  BY <1>1, <1>2, <1>3 DEF At, Executing, ExecutorSteps
<1>5. Apart'
  <2>1. CASE step = "writing"
    BY <1>2, <1>3, <2>1, MoveApart
  <2>2. CASE step # "writing"
    <3>1. ~Working(h)'
      BY <1>2, <1>3, <2>2 DEF Working, Creating, Executing, ExecutorSteps
    <3>2. QED
      BY <1>3, <3>1, StayApart
  <2>3. QED
    BY <2>1, <2>2
<1>6. Knows(h)'
  BY <1>1, <1>2, <1>3 DEF Knows, At, Creating, Executing, ExecutorSteps, HasRow
<1>7. ASSUME NEW g \in Handlers, g # h PROVE Knows(g)'
  BY <1>1, <1>3, <1>7 DEF IInv, HandlerKnows, Knows, At, Creating, Executing
<1>8. RowsAgree' /\ LogTellsTheStatus'
  BY <1>1, RowsStay
<1>9. StrandingTakesTwoFaults'
  BY <1>1, <1>3, <1>4, StrandStays
<1>10. QED
  BY <1>0, <1>1, <1>5, <1>6, <1>7, <1>8, <1>9 DEF IInv, HandlerKnows

\* A crash: no handler is left to be wrong, and what it leaves half written
\* has no row.
LEMMA InvCrash ==
  ASSUME IInv, LostAckLimit = 0, Crash
  PROVE  IInv'
<1>1. TypeOK'
  BY TypeCrash DEF IInv
<1>2. /\ faults'["lostAck"] = 0 /\ faults'["crash"] > 0
      /\ UNCHANGED db /\ status' = status
  BY FaultFacts DEF Crash, IInv, TypeOK, FaultKinds, db, row
<1>3. HandlerKnows' /\ Apart'
  BY DEF Crash, HandlerKnows, Knows, Apart, Working, Creating, Executing, ExecutorSteps,
     At, Idle
<1>4. \A r \in Runs : HasRow(r) => dataset'[r] = dataset[r]
  <2>1. \A h \in Handlers : At(h, "writing") => ~HasRow(handler[h].run)
    BY DEF IInv, HandlerKnows, Knows, At, Creating, HasRow
  <2>2. QED
    BY <2>1 DEF Crash
<1>5. RowsAgree' /\ LogTellsTheStatus'
  BY <1>2, <1>4, RowsStay
<1>6. StrandingTakesTwoFaults'
  BY <1>2 DEF StrandingTakesTwoFaults
<1>7. QED
  BY <1>1, <1>2, <1>3, <1>5, <1>6 DEF IInv

\* Every step of the specification keeps the invariant.
LEMMA InvNext ==
  ASSUME IInv, LostAckLimit = 0, [Next]_vars
  PROVE  IInv'
<1>1. ASSUME NEW h \in Handlers, Request(h) PROVE IInv'
  BY <1>1, InvRequest, InvDelete DEF Request
<1>2. ASSUME NEW h \in Handlers, Continue(h) PROVE IInv'
  BY <1>2, InvCreate, InvStart, InvExecute, InvDelete DEF Continue
<1>3. CASE UNCHANGED vars
  <2>1. TypeOK'
    BY <1>3 DEF IInv, vars, db, row, TypeOK, HandlersTypeOK
  <2>2. QED
    BY <1>3, <2>1 DEF vars, db, row, IInv, HandlerKnows, Knows, At, Creating, Executing,
       Apart, Working, RowsAgree, HasRow, LogTellsTheStatus, StrandingTakesTwoFaults, Stranded
<1>4. QED
  BY <1>1, <1>2, <1>3, InvCrash DEF Next

\* The inductive invariant holds as long as no acknowledgement is lost.
THEOREM InvariantHolds ==
  ASSUME LostAckLimit = 0
  PROVE  Spec => []IInv
<1>1. IInv /\ [Next]_vars => IInv'
  BY InvNext
<1>2. QED
  BY InvInit, <1>1, PTL DEF Spec

-----------------------------------------------------------------------------
(* Safety: what the invariant is for. *)

\* The invariant gives each of the safety properties.
LEMMA InvariantSuffices ==
  IInv => /\ OneExecutorPerRun /\ ExecutorHoldsItsRun
          /\ AnalysisIffCompleted /\ AnalysesAreAudited /\ RowsHaveTheirDataset
<1> SUFFICES ASSUME IInv
             PROVE  /\ OneExecutorPerRun /\ ExecutorHoldsItsRun
                    /\ AnalysisIffCompleted /\ AnalysesAreAudited
                    /\ RowsHaveTheirDataset
  OBVIOUS
<1>1. OneExecutorPerRun
  BY DEF IInv, Apart, Working, OneExecutorPerRun
<1>2. ExecutorHoldsItsRun
  BY DEF IInv, HandlerKnows, Knows, ExecutorHoldsItsRun
<1>3. AnalysisIffCompleted /\ AnalysesAreAudited
  BY DEF IInv, RowsAgree, AnalysisIffCompleted, AnalysesAreAudited
<1>4. RowsHaveTheirDataset
  BY DEF IInv, RowsAgree, RowsHaveTheirDataset
<1>5. QED
  BY <1>1, <1>2, <1>3, <1>4

\* start_run and mark_running: however many requests race to start a run, one
\* background task at most executes it, and the run stays with that task.
THEOREM OneTaskPerRun ==
  ASSUME LostAckLimit = 0
  PROVE  Spec => []OneExecutorPerRun
  BY InvariantHolds, InvariantSuffices, PTL

\* execute_run never writes to a run that has been closed, deleted or handed
\* to another task.
THEOREM TasksHoldTheirRuns ==
  ASSUME LostAckLimit = 0
  PROVE  Spec => []ExecutorHoldsItsRun
  BY InvariantHolds, InvariantSuffices, PTL

\* The store transaction of execute_run: a run has an analysis if and only if
\* it is completed.
THEOREM ResultsMatchTheStatus ==
  ASSUME LostAckLimit = 0
  PROVE  Spec => []AnalysisIffCompleted
  BY InvariantHolds, InvariantSuffices, PTL

\* load_run_tables never reads a directory that a delete has removed.
THEOREM ResultsAreOfTheUpload ==
  ASSUME LostAckLimit = 0
  PROVE  Spec => []AnalysesAreAudited
  BY InvariantHolds, InvariantSuffices, PTL

\* The log of events ends with the event that tells how the run closed.
THEOREM TheLogTells ==
  ASSUME LostAckLimit = 0
  PROVE  Spec => []LogTellsTheStatus
<1>1. IInv => LogTellsTheStatus
  BY DEF IInv
<1>2. QED
  BY <1>1, InvariantHolds, PTL

\* create_run and delete_run: no row is without its directory of tables.
THEOREM RowsKeepTheirDataset ==
  ASSUME LostAckLimit = 0
  PROVE  Spec => []RowsHaveTheirDataset
  BY InvariantHolds, InvariantSuffices, PTL

\* execute_run survives any single failed transaction.
THEOREM OneFaultStrandsNoRun ==
  ASSUME LostAckLimit = 0
  PROVE  Spec => []StrandingTakesTwoFaults
<1>1. IInv => StrandingTakesTwoFaults
  BY DEF IInv
<1>2. QED
  BY <1>1, InvariantHolds, PTL

-----------------------------------------------------------------------------
(* What a step may do to a run. *)

Untouched(q) == /\ status'[q] = status[q] /\ analysis'[q] = analysis[q]
                /\ log'[q] = log[q] /\ startedAt'[q] = startedAt[q]

\* The fates of one run.
Created(r) == status[r] = "absent" /\ status'[r] = "ready"
Begun(r) == Startable(status[r]) /\ status'[r] = "running"
Advanced(r) == /\ status[r] = "running"
               /\ status'[r] \in {"running"} \cup TerminalEvents
               /\ startedAt'[r] = startedAt[r]
Erased(r) == HasRow(r) /\ Deletable(status[r]) /\ status'[r] = "deleted"

\* A step touches one run at most, or erases some.
StepOnRuns ==
    \/ \A q \in Runs : Untouched(q)
    \/ \E r \in Runs : /\ Created(r) \/ Begun(r) \/ Advanced(r)
                      /\ \A q \in Runs \ {r} : Untouched(q)
    \/ \E rs \in SUBSET Runs : /\ \A r \in rs : Erased(r)
                               /\ \A q \in Runs \ rs : Untouched(q)

\* Closing a running run advances it and nothing else.
LEMMA CloseAdvances ==
  ASSUME IInv, NEW r \in Runs, status[r] = "running",
         CloseFailed(r) \/ CloseCompleted(r, "audited")
  PROVE  StepOnRuns
  BY DEF CloseFailed, CloseCompleted, Append2Log, Finished, IInv, TypeOK, StepOnRuns,
     Advanced, Untouched, TerminalEvents

\* Erasing rows erases them and nothing else.
LEMMA EraseErases ==
  ASSUME NEW rs \in SUBSET Runs, EraseEffect(rs),
         \A r \in rs : HasRow(r) /\ Deletable(status[r])
  PROVE  StepOnRuns
<1>1. \A r \in rs : Erased(r)
  BY DEF EraseEffect, Erased
<1>2. \A q \in Runs \ rs : Untouched(q)
  BY DEF EraseEffect, Untouched
<1>3. QED
  BY <1>1, <1>2 DEF StepOnRuns

\* A step that leaves the database alone touches no run.
LEMMA NoneTouched == UNCHANGED db => StepOnRuns
  BY DEF db, row, StepOnRuns, Untouched

\* Every step of the specification is one of these.
LEMMA StepsOnRuns ==
  ASSUME IInv, LostAckLimit = 0, [Next]_vars
  PROVE  StepOnRuns
<1>1. ~Fault("lostAck")
  BY FaultFacts DEF IInv, TypeOK
<1>2. ASSUME NEW h \in Handlers, Request(h) PROVE StepOnRuns
  <2>1. CASE UNCHANGED db
    BY <2>1, NoneTouched
  <2>2. ASSUME NEW u \in Users, DeleteRuns(h, u) PROVE StepOnRuns
    <3> DEFINE rs == {r \in Runs : CanErase(u, r)}
    <3>1. EraseEffect(rs) /\ \A r \in rs : HasRow(r) /\ Deletable(status[r])
      BY <1>1, <2>2 DEF DeleteRuns, Commits, AckLost, CanErase, Owns
    <3> HIDE DEF rs
    <3>2. rs \in SUBSET Runs
      BY DEF rs
    <3>3. QED
      BY <3>1, <3>2, EraseErases
  <2>3. QED
    BY <1>2, <2>1, <2>2 DEF Request, Upload, ReadToStart, ReadToDelete
<1>3. ASSUME NEW h \in Handlers, CreateStep(h) PROVE StepOnRuns
  <2> DEFINE r == handler[h].run
  <2>1. CASE UNCHANGED db
    BY <2>1, NoneTouched
  <2>2. CASE At(h, "inserting") /\ InsertEffect(r, handler[h].user)
    <3>1. r \in Runs /\ status[r] = "absent"
      BY <2>2 DEF IInv, HandlerKnows, Knows, TypeOK, HandlersTypeOK, At, Creating
    <3>2. Created(r) /\ \A q \in Runs \ {r} : Untouched(q)
      BY <2>2, <3>1 DEF InsertEffect, IInv, TypeOK, Created, Untouched
    <3>3. QED
      BY <3>1, <3>2 DEF StepOnRuns
  <2>3. QED
    BY <1>3, <2>1, <2>2 DEF CreateStep, WriteTables, WriteTablesFails, InsertRun,
       DiscardUpload, Commits, Aborts, AckLost
<1>4. ASSUME NEW h \in Handlers, StartStep(h) PROVE StepOnRuns
  <2> DEFINE r == handler[h].run
  <2>1. CASE UNCHANGED db
    BY <2>1, NoneTouched
  <2>2. CASE At(h, "starting") /\ CanMark(h) /\ MarkRunningEffect(r)
    <3>1. r \in Runs
      BY <2>2 DEF IInv, TypeOK, HandlersTypeOK, At
    <3>2. Begun(r) /\ \A q \in Runs \ {r} : Untouched(q)
      BY <2>2, <3>1 DEF MarkRunningEffect, CanMark, IInv, TypeOK, Begun, Untouched
    <3>3. QED
      BY <3>1, <3>2 DEF StepOnRuns
  <2>3. QED
    BY <1>4, <2>1, <2>2 DEF StartStep, MarkRunning, StartRefused, Commits, Aborts, AckLost
<1>5. ASSUME NEW h \in Handlers, ExecuteStep(h) PROVE StepOnRuns
  <2> DEFINE r == handler[h].run
  <2>1. r \in Runs /\ status[r] = "running"
    BY <1>5, ExecuteFacts
  <2>2. CASE UNCHANGED db
    BY <2>2, NoneTouched
  <2>3. CASE UNCHANGED <<row, analysis>> /\ Append2Log(r, StartEvents)
    <3>1. Advanced(r) /\ \A q \in Runs \ {r} : Untouched(q)
      BY <2>1, <2>3 DEF Append2Log, row, IInv, TypeOK, Advanced, Untouched
    <3>2. QED
      BY <2>1, <3>1 DEF StepOnRuns
  <2>4. CASE CloseFailed(r) \/ CloseCompleted(r, "audited")
    BY <2>1, <2>4, CloseAdvances
  <2>5. QED
    BY <1>5, <2>2, <2>3, <2>4, ExecuteFacts DEF Analyze, Aborts, db
<1>6. ASSUME NEW h \in Handlers, DeleteStep(h) PROVE StepOnRuns
  <2> DEFINE r == handler[h].run
  <2>1. CASE UNCHANGED db
    BY <2>1, NoneTouched
  <2>2. CASE /\ At(h, "deleting") /\ CanErase(handler[h].user, r)
             /\ EraseEffect({r})
    <3>1. r \in Runs
      BY <2>2 DEF IInv, TypeOK, HandlersTypeOK, At
    <3>2. QED
      BY <2>2, <3>1, EraseErases DEF CanErase, Owns
  <2>3. QED
    BY <1>6, <2>1, <2>2 DEF DeleteStep, DeleteRun, DeleteRefused, RemoveDataset, Commits,
       Aborts, AckLost
<1>7. CASE Crash \/ UNCHANGED vars
  BY <1>7, NoneTouched DEF Crash, vars
<1>8. QED
  BY <1>2, <1>3, <1>4, <1>5, <1>6, <1>7 DEF Next, Continue

\* A running run is neither deleted nor started again before it closes.
THEOREM RunningRunsAreLeftAlone ==
  ASSUME LostAckLimit = 0
  PROVE  Spec => RunningRunsOnlyClose
<1>1. IInv /\ [Next]_vars =>
        [\A r \in Runs :
          status[r] = "running" =>
              /\ status'[r] \in {"running"} \cup TerminalEvents
              /\ startedAt'[r] = startedAt[r]]_vars
  <2> SUFFICES ASSUME IInv, [Next]_vars, NEW r \in Runs, status[r] = "running"
               PROVE  /\ status'[r] \in {"running"} \cup TerminalEvents
                      /\ startedAt'[r] = startedAt[r]
    OBVIOUS
  <2>1. StepOnRuns
    BY StepsOnRuns
  <2>2. QED
    BY <2>1 DEF StepOnRuns, Untouched, Created, Begun, Startable, Advanced, Erased, Deletable
<1>2. QED
  BY <1>1, InvariantHolds, PTL DEF RunningRunsOnlyClose, Spec

\* The result of a completed run stays what it is until the run is deleted.
THEOREM ResultsAreFinal ==
  ASSUME LostAckLimit = 0
  PROVE  Spec => CompletedRunsAreFinal
<1>1. IInv /\ [Next]_vars =>
        [\A r \in Runs :
          status[r] = "completed" =>
              \/ status'[r] = "deleted"
              \/ UNCHANGED <<status[r], analysis[r], log[r], startedAt[r]>>]_vars
  <2> SUFFICES ASSUME IInv, [Next]_vars, NEW r \in Runs, status[r] = "completed"
               PROVE  \/ status'[r] = "deleted"
                      \/ UNCHANGED <<status[r], analysis[r], log[r], startedAt[r]>>
    OBVIOUS
  <2>1. StepOnRuns
    BY StepsOnRuns
  <2>2. QED
    BY <2>1 DEF StepOnRuns, Untouched, Created, Begun, Startable, Advanced, Erased, Deletable
<1>2. QED
  BY <1>1, InvariantHolds, PTL DEF CompletedRunsAreFinal, Spec

-----------------------------------------------------------------------------
(* Refinement: to its clients a run is RunSpec. *)

\* What the log tells follows from the status.
LEMMA ToldFacts ==
  ASSUME NEW e \in Seq(EventTypes), NEW s \in Status, LogSays(e, s)
  PROVE  Told(e) = IF s \in TerminalEvents THEN s ELSE "none"
<1>1. CASE s \in TerminalEvents
  <2>1. /\ Len(e) \in 1..Len(e) /\ e[Len(e)] = s
        /\ \A i \in 1..Len(e) : e[i] \in TerminalEvents => i = Len(e)
    <3>1. /\ Len(e) > 0 /\ e[Len(e)] = s
          /\ {i \in 1..Len(e) : e[i] \in TerminalEvents} = {Len(e)}
      BY <1>1 DEF LogSays, TerminalEvents
    <3>2. \A i \in 1..Len(e) : e[i] \in TerminalEvents => i = Len(e)
      BY <3>1
    <3>3. QED
      BY <3>1, <3>2
  <2>2. QED
    BY <1>1, <2>1 DEF Told, TerminalEvents
<1>2. CASE s = "running"
  BY <1>2 DEF LogSays, Told, TerminalEvents
<1>3. CASE s \notin TerminalEvents \cup {"running"}
  BY <1>3 DEF LogSays, Told, TerminalEvents
<1>4. QED
  BY <1>1, <1>2, <1>3

\* The result and the told event of RunSpec as functions of the status.
LEMMA MappedState ==
  ASSUME IInv
  PROVE  /\ [r \in Runs |-> analysis[r] # "none"] = [r \in Runs |-> status[r] = "completed"]
         /\ [r \in Runs |-> Told(log[r])]
               = [r \in Runs |-> IF status[r] \in TerminalEvents THEN status[r] ELSE "none"]
<1>1. \A r \in Runs : (analysis[r] # "none") = (status[r] = "completed")
  BY DEF IInv, RowsAgree
<1>2. \A r \in Runs : Told(log[r]) = IF status[r] \in TerminalEvents THEN status[r] ELSE "none"
  BY ToldFacts DEF IInv, TypeOK, LogTellsTheStatus
<1>3. QED
  BY <1>1, <1>2

\* A state of the runs is a state of RunSpec; the initial ones are initial.
LEMMA PromiseInit == Init => Promise!Init
<1> SUFFICES ASSUME Init PROVE Promise!Init
  OBVIOUS
<1>1. IInv
  BY InvInit
<1>2. [r \in Runs |-> status[r] = "completed"] = [r \in Runs |-> FALSE]
  BY DEF Init
<1>3. [r \in Runs |-> IF status[r] \in TerminalEvents THEN status[r] ELSE "none"]
        = [r \in Runs |-> "none"]
  BY DEF Init, TerminalEvents
<1>4. QED
  BY <1>1, <1>2, <1>3, MappedState DEF Init, Promise!Init

\* Every step is a step of RunSpec, or changes nothing that it sees.
LEMMA PromiseStep ==
  ASSUME IInv, IInv', StepOnRuns
  PROVE  [Promise!Next]_(Promise!spec)
<1> DEFINE told == [r \in Runs |-> IF status[r] \in TerminalEvents THEN status[r] ELSE "none"]
           result == [r \in Runs |-> status[r] = "completed"]
<1>1. /\ [r \in Runs |-> analysis[r] # "none"] = result
      /\ [r \in Runs |-> Told(log[r])] = told
  BY MappedState
<1>2. /\ [r \in Runs |-> analysis'[r] # "none"] = result'
      /\ [r \in Runs |-> Told(log'[r])] = told'
  <2>1. \A r \in Runs : (analysis'[r] # "none") = (status'[r] = "completed")
    BY DEF IInv, RowsAgree
  <2>2. \A r \in Runs :
          Told(log'[r]) = IF status'[r] \in TerminalEvents THEN status'[r] ELSE "none"
    BY ToldFacts DEF IInv, TypeOK, LogTellsTheStatus
  <2>3. QED
    BY <2>1, <2>2
<1>3. status \in [Runs -> Status] /\ status' \in [Runs -> Status]
  BY DEF IInv, TypeOK
<1>4. CASE \A q \in Runs : Untouched(q)
  <2>1. status' = status
    BY <1>3, <1>4 DEF Untouched
  <2>2. QED
    BY <1>1, <1>2, <2>1 DEF Promise!spec
<1>5. ASSUME NEW r \in Runs, \A q \in Runs \ {r} : Untouched(q)
      PROVE  \A x : status'[r] = x => status' = [status EXCEPT ![r] = x]
  BY <1>3, <1>5 DEF Untouched
<1>6. ASSUME NEW r \in Runs, \A q \in Runs \ {r} : Untouched(q), Created(r)
      PROVE  Promise!Create(r)
  <2>1. status' = [status EXCEPT ![r] = "ready"] /\ status[r] = "absent"
    BY <1>5, <1>6 DEF Created
  <2>2. told' = told /\ result' = result
    BY <1>3, <2>1 DEF TerminalEvents
  <2>3. QED
    BY <1>1, <1>2, <2>1, <2>2 DEF Promise!Create
<1>7. ASSUME NEW r \in Runs, \A q \in Runs \ {r} : Untouched(q), Begun(r)
      PROVE  Promise!Start(r)
  <2>1. status' = [status EXCEPT ![r] = "running"] /\ status[r] \in {"ready", "failed"}
    BY <1>5, <1>7 DEF Begun, Startable
  <2>2. told' = [told EXCEPT ![r] = "none"] /\ result' = result
    BY <1>3, <2>1 DEF TerminalEvents
  <2>3. QED
    BY <1>1, <1>2, <2>1, <2>2 DEF Promise!Start
<1>8. ASSUME NEW r \in Runs, \A q \in Runs \ {r} : Untouched(q), Advanced(r)
      PROVE  \/ status' = status
             \/ \E end \in {"completed", "failed"} : Promise!Close(r, end)
  <2>1. status[r] = "running" /\ status'[r] \in {"running", "completed", "failed"}
    BY <1>8 DEF Advanced, TerminalEvents
  <2>2. CASE status'[r] = "running"
    BY <1>3, <1>8, <2>1, <2>2 DEF Untouched
  <2>3. ASSUME NEW end \in {"completed", "failed"}, status'[r] = end
        PROVE  Promise!Close(r, end)
    <3>1. status' = [status EXCEPT ![r] = end]
      BY <1>5, <1>8, <2>3
    <3>2. /\ told' = [told EXCEPT ![r] = end]
          /\ result' = [result EXCEPT ![r] = (end = "completed")]
      BY <1>3, <2>1, <2>3, <3>1 DEF TerminalEvents
    <3>3. QED
      BY <1>1, <1>2, <2>1, <3>1, <3>2 DEF Promise!Close
  <2>4. QED
    BY <2>1, <2>2, <2>3
<1>9. ASSUME NEW rs \in SUBSET Runs, \A r \in rs : Erased(r),
             \A q \in Runs \ rs : Untouched(q)
      PROVE  Promise!Erase(rs)
  <2>1. \A r \in rs : status[r] \in {"ready", "completed", "failed"}
    BY <1>3, <1>9 DEF Erased, HasRow, Deletable, Status
  <2>2. status' = [r \in Runs |-> IF r \in rs THEN "deleted" ELSE status[r]]
    BY <1>3, <1>9 DEF Erased, Untouched
  <2>3. /\ result' = [r \in Runs |-> IF r \in rs THEN FALSE ELSE result[r]]
        /\ told' = [r \in Runs |-> IF r \in rs THEN "none" ELSE told[r]]
    BY <2>2 DEF TerminalEvents
  <2> HIDE DEF result, told
  <2>4. QED
    BY <1>1, <1>2, <2>1, <2>2, <2>3 DEF Promise!Erase
<1>10. CASE status' = status
  BY <1>1, <1>2, <1>10 DEF Promise!spec
<1>11. QED
  BY <1>4, <1>6, <1>7, <1>8, <1>9, <1>10 DEF StepOnRuns, Promise!Next

\* The handlers of app/runs, interleaved as they come, implement RunSpec.
THEOREM Refinement ==
  ASSUME LostAckLimit = 0
  PROVE  Spec => KeepsThePromise
<1>1. IInv /\ IInv' /\ [Next]_vars => [Promise!Next]_(Promise!spec)
  BY StepsOnRuns, PromiseStep
<1>2. QED
  BY <1>1, PromiseInit, InvariantHolds, PTL DEF KeepsThePromise, Promise!Spec, Spec

-----------------------------------------------------------------------------
(* What holds whatever faults happen. *)

\* An end that is in the log stays in it when the attempt logs more, and a
\* task that logs how it closes a run logs just that.
LEMMA EndsAreKept ==
  ASSUME NEW e \in Seq(EventTypes), NEW events \in {StartEvents, AnalysisEvents, FailedEvent}
  PROVE  /\ \A i \in 1..Len(e) : i \in 1..Len(e \o events) /\ (e \o events)[i] = e[i]
         /\ events = AnalysisEvents =>
               \E i \in 1..Len(e \o events) : (e \o events)[i] = "completed"
         /\ events = FailedEvent =>
               \E i \in 1..Len(e \o events) : (e \o events)[i] = "failed"
<1>1. CASE events = StartEvents
  <2> DEFINE f == e \o <<"step", "step">>
  <2>1. /\ Len(f) = Len(e) + 2 /\ Len(e) \in Nat
        /\ \A i \in 1..Len(e) : f[i] = e[i]
    OBVIOUS
  <2>2. QED
    BY <1>1, <2>1 DEF StartEvents, AnalysisEvents, FailedEvent
<1>2. CASE events = AnalysisEvents
  <2> DEFINE f == e \o <<"detector_result", "completed">>
  <2>1. /\ Len(f) = Len(e) + 2 /\ Len(e) \in Nat
        /\ \A i \in 1..Len(e) : f[i] = e[i]
        /\ f[Len(e) + 2] = "completed"
    OBVIOUS
  <2>2. AnalysisEvents # FailedEvent
    BY DEF AnalysisEvents, FailedEvent
  <2>3. QED
    BY <1>2, <2>1, <2>2 DEF AnalysisEvents
<1>3. CASE events = FailedEvent
  <2> DEFINE f == e \o <<"failed">>
  <2>1. /\ Len(f) = Len(e) + 1 /\ Len(e) \in Nat
        /\ \A i \in 1..Len(e) : f[i] = e[i]
        /\ f[Len(e) + 1] = "failed"
    OBVIOUS
  <2>2. AnalysisEvents # FailedEvent
    BY DEF AnalysisEvents, FailedEvent
  <2>3. QED
    BY <1>3, <2>1, <2>2 DEF FailedEvent
<1>4. QED
  BY <1>1, <1>2, <1>3

\* What a step does to the status, the log and the attempts of one run.
Kept(r) == status'[r] = status[r] /\ log'[r] = log[r] /\ startedAt'[r] = startedAt[r]
Inserted(r) == status'[r] = "ready" /\ log'[r] = log[r] /\ startedAt'[r] = startedAt[r]
Restarted(r) == status'[r] = "running" /\ startedAt'[r] = startedAt[r] + 1
Forgotten(r) == status'[r] = "deleted" /\ startedAt'[r] = startedAt[r]
Logged(r) ==
    /\ startedAt'[r] = startedAt[r]
    /\ \E events \in {StartEvents, AnalysisEvents, FailedEvent} :
          /\ log'[r] = log[r] \o events
          /\ \/ status'[r] = status[r]
             \/ status'[r] = "completed" /\ events = AnalysisEvents
             \/ status'[r] = "failed" /\ events = FailedEvent
LogStep(r) == Kept(r) \/ Inserted(r) \/ Restarted(r) \/ Forgotten(r) \/ Logged(r)

\* A step, whatever fails in it, does one of these to each run.
LEMMA LogSteps ==
  ASSUME TypeOK, [Next]_vars, NEW r \in Runs
  PROVE  LogStep(r)
<1>0. /\ status \in [Runs -> Status] /\ log \in [Runs -> Seq(EventTypes)]
      /\ startedAt \in [Runs -> Nat]
  BY DEF TypeOK
<1>1. CASE UNCHANGED db
  BY <1>1 DEF db, row, LogStep, Kept
<1>2. ASSUME NEW q, MarkRunningEffect(q)
      PROVE  LogStep(r)
  BY <1>0, <1>2 DEF MarkRunningEffect, LogStep, Kept, Restarted
<1>3. ASSUME NEW rs, EraseEffect(rs)
      PROVE  LogStep(r)
  BY <1>3 DEF EraseEffect, LogStep, Kept, Forgotten
<1>4. ASSUME NEW q, \/ Append2Log(q, StartEvents) /\ UNCHANGED row
                    \/ CloseFailed(q)
                    \/ \E outcome : CloseCompleted(q, outcome)
      PROVE  LogStep(r)
  <2>1. PICK events \in {StartEvents, AnalysisEvents, FailedEvent} :
           /\ log' = [log EXCEPT ![q] = log[q] \o events]
           /\ startedAt' = startedAt
           /\ \/ status' = status
              \/ status' = [status EXCEPT ![q] = Finished(status[q], "completed")]
                    /\ events = AnalysisEvents
              \/ status' = [status EXCEPT ![q] = Finished(status[q], "failed")]
                    /\ events = FailedEvent
    BY <1>4 DEF Append2Log, CloseFailed, CloseCompleted, row
  <2>2. CASE r # q
    BY <1>0, <2>1, <2>2 DEF LogStep, Kept
  <2>3. CASE r = q
    <3>1. log'[r] = log[r] \o events
      BY <1>0, <2>1, <2>3
    <3>2. \/ status'[r] = status[r]
          \/ status'[r] = "completed" /\ events = AnalysisEvents
          \/ status'[r] = "failed" /\ events = FailedEvent
      BY <1>0, <2>1, <2>3 DEF Finished
    <3>3. QED
      BY <2>1, <3>1, <3>2 DEF LogStep, Logged
  <2>4. QED
    BY <2>2, <2>3
<1>5. ASSUME NEW h \in Handlers, Request(h)
      PROVE  LogStep(r)
  BY <1>1, <1>3, <1>5 DEF Request, Upload, ReadToStart, ReadToDelete, DeleteRuns, Commits, AckLost
<1>6. ASSUME NEW h \in Handlers, CreateStep(h)
      PROVE  LogStep(r)
  <2>1. CASE UNCHANGED db
    BY <1>1, <2>1
  <2>2. CASE InsertEffect(handler[h].run, handler[h].user)
    BY <1>0, <2>2 DEF InsertEffect, LogStep, Kept, Inserted
  <2>3. QED
    BY <1>6, <2>1, <2>2 DEF CreateStep, WriteTables, WriteTablesFails, InsertRun, DiscardUpload,
       Commits, Aborts, AckLost
<1>7. ASSUME NEW h \in Handlers, StartStep(h) \/ DeleteStep(h)
      PROVE  LogStep(r)
  BY <1>1, <1>2, <1>3, <1>7 DEF StartStep, DeleteStep, MarkRunning, StartRefused, DeleteRun,
     DeleteRefused, RemoveDataset, Commits, Aborts, AckLost
<1>8. ASSUME NEW h \in Handlers, ExecuteStep(h)
      PROVE  LogStep(r)
  <2>1. CASE LogStart(h)
    BY <1>1, <1>4, <2>1 DEF LogStart, Commits, Aborts, AckLost, db, row
  <2>2. CASE Analyze(h) \/ StoreWithoutRow(h)
    BY <1>1, <2>2 DEF Analyze, StoreWithoutRow
  <2>3. CASE StoreOutcome(h) \/ StoreFailure(h)
    BY <1>1, <1>4, <2>3 DEF StoreOutcome, StoreFailure, StoreEffect, Commits, Aborts, AckLost
  <2>4. QED
    BY <1>8, <2>1, <2>2, <2>3 DEF ExecuteStep
<1>9. CASE Crash \/ UNCHANGED vars
  BY <1>1, <1>9 DEF Crash, vars
<1>10. QED
  BY <1>5, <1>6, <1>7, <1>8, <1>9 DEF Next, Continue

\* However many executors a run has, and whatever is lost, a closed run has the
\* event that says how it was closed: the stream of it ends.
THEOREM TheEndIsLogged == Spec => []ClosedRunsSaySo
<1>1. Init => ClosedRunsSaySo
  BY DEF Init, ClosedRunsSaySo, TerminalEvents
<1>2. TypeOK /\ ClosedRunsSaySo /\ [Next]_vars => ClosedRunsSaySo'
  <2> SUFFICES ASSUME TypeOK, ClosedRunsSaySo, [Next]_vars,
                      NEW r \in Runs, status'[r] \in TerminalEvents
               PROVE  \E i \in 1..Len(log'[r]) : log'[r][i] = status'[r]
    BY DEF ClosedRunsSaySo
  <2>1. log[r] \in Seq(EventTypes)
    BY DEF TypeOK
  <2>2. CASE Kept(r)
    BY <2>2 DEF Kept, ClosedRunsSaySo
  <2>3. CASE Logged(r)
    <3>1. PICK events \in {StartEvents, AnalysisEvents, FailedEvent} :
             /\ log'[r] = log[r] \o events
             /\ \/ status'[r] = status[r]
                \/ status'[r] = "completed" /\ events = AnalysisEvents
                \/ status'[r] = "failed" /\ events = FailedEvent
      BY <2>3 DEF Logged
    <3>2. CASE status'[r] = status[r]
      <4>1. PICK i \in 1..Len(log[r]) : log[r][i] = status[r]
        BY <3>2 DEF ClosedRunsSaySo
      <4>2. i \in 1..Len(log[r] \o events) /\ (log[r] \o events)[i] = log[r][i]
        BY <2>1, <4>1, EndsAreKept
      <4>3. QED
        BY <3>1, <3>2, <4>1, <4>2
    <3>3. CASE status'[r] # status[r]
      <4>1. CASE status'[r] = "completed" /\ events = AnalysisEvents
        <5>1. \E i \in 1..Len(log[r] \o AnalysisEvents) : (log[r] \o AnalysisEvents)[i] = "completed"
          BY <2>1, EndsAreKept
        <5>2. QED
          BY <3>1, <4>1, <5>1
      <4>2. CASE status'[r] = "failed" /\ events = FailedEvent
        <5>1. \E i \in 1..Len(log[r] \o FailedEvent) : (log[r] \o FailedEvent)[i] = "failed"
          BY <2>1, EndsAreKept
        <5>2. QED
          BY <3>1, <4>2, <5>1
      <4>3. QED
        BY <3>1, <3>3, <4>1, <4>2
    <3>4. QED
      BY <3>2, <3>3
  <2>4. QED
    BY <2>2, <2>3, LogSteps DEF LogStep, Inserted, Restarted, Forgotten, TerminalEvents
<1>3. QED
  BY <1>1, <1>2, TypeCorrect, PTL DEF Spec

-----------------------------------------------------------------------------
(* Directories: a handler tends the ones it is to remove or to insert the   *)
(* row of, and only one that removes directories has any left to remove.    *)

TendedBy(h, r) ==
    \/ handler[h].step \in {"inserting", "discarding"} /\ handler[h].run = r
    \/ r \in handler[h].doomed
OnlyRemovers == \A h \in Handlers : ~At(h, "removing") => handler[h].doomed = {}
Faulty == faults["crash"] > 0 \/ faults["abort"] > 0

LeakInv ==
    /\ IInv
    /\ OnlyRemovers
    /\ LeakingTakesAFault

\* A step of h: the others stay, and h is at a step again, with directories to
\* remove only if it removes directories.
Moves(h) ==
    /\ \A g \in Handlers : g # h => handler'[g] = handler[g]
    /\ handler'[h].step # "removing" => handler'[h].doomed = {}

\* Whatever fails in it.
LEMMA HandlersMove ==
  ASSUME LeakInv, NEW h \in Handlers, Request(h) \/ Continue(h)
  PROVE  Moves(h)
<1>1. HandlersTypeOK /\ (~At(h, "removing") => handler[h].doomed = {})
  BY DEF LeakInv, IInv, TypeOK, OnlyRemovers
<1>2. CASE UNCHANGED handler
  BY <1>1, <1>2 DEF Moves, At
<1>3. CASE Return(h)
  BY <1>1, <1>3, ReturnFacts DEF Moves
<1>4. ASSUME NEW step \in Steps, GoTo(h, step), ~At(h, "removing")
      PROVE  Moves(h)
  BY <1>1, <1>4, GoToFacts DEF Moves
<1>5. ASSUME NEW rs \in SUBSET Runs, Remove(h, rs)
      PROVE  Moves(h)
  BY <1>1, <1>5 DEF Moves, Remove, Idle, HandlersTypeOK
<1>6. ASSUME NEW step \in Steps, NEW r \in Runs, NEW u \in Users,
             handler' = [handler EXCEPT ![h] =
                            [Idle EXCEPT !.step = step, !.run = r, !.user = u]]
      PROVE  Moves(h)
  BY <1>1, <1>6 DEF Moves, Idle, HandlersTypeOK
<1>7. CASE Analyze(h)
  BY <1>1, <1>7 DEF Analyze, Moves, At, HandlersTypeOK, HandlerState
<1>8. CASE RemoveDataset(h)
  <2>1. PICK r : \/ Return(h)
                 \/ handler' = [handler EXCEPT ![h].doomed = @ \ {r}]
    BY <1>8 DEF RemoveDataset
  <2>2. CASE handler' = [handler EXCEPT ![h].doomed = @ \ {r}]
    <3>1. At(h, "removing") /\ handler[h] \in HandlerState /\ handler \in [Handlers -> HandlerState]
      BY <1>1, <1>8 DEF RemoveDataset, HandlersTypeOK
    <3> DEFINE new == [handler[h] EXCEPT !.doomed = handler[h].doomed \ {r}]
    <3>2. new.step = handler[h].step
      BY <3>1 DEF HandlerState
    <3>3. handler' = [handler EXCEPT ![h] = new]
      BY <2>2
    <3> HIDE DEF new
    <3>4. handler'[h] = new /\ \A g \in Handlers : g # h => handler'[g] = handler[g]
      BY <3>1, <3>3
    <3>5. QED
      BY <3>1, <3>2, <3>4 DEF Moves, At
  <2>3. QED
    BY <1>3, <2>1, <2>2
<1>9. CASE Request(h)
  <2>1. ASSUME NEW u \in Users, DeleteRuns(h, u) PROVE Moves(h)
    <3> DEFINE rs == {r \in Runs : CanErase(u, r)}
    <3>1. Remove(h, rs) \/ UNCHANGED handler
      BY <2>1 DEF DeleteRuns, Commits, AckLost
    <3>2. rs \in SUBSET Runs
      OBVIOUS
    <3> HIDE DEF rs
    <3>3. QED
      BY <1>2, <1>5, <3>1, <3>2
  <2>2. ASSUME NEW u \in Users, NEW r \in Runs,
               Upload(h, u, r) \/ ReadToStart(h, u, r) \/ ReadToDelete(h, u, r)
        PROVE  Moves(h)
    <3>1. PICK step \in Steps :
             handler' = [handler EXCEPT ![h] =
                            [Idle EXCEPT !.step = step, !.run = r, !.user = u]]
      BY <2>2 DEF Upload, ReadToStart, ReadToDelete, Steps
    <3>2. QED
      BY <1>6, <3>1
  <2>3. QED
    BY <1>9, <2>1, <2>2 DEF Request
<1>10. CASE CreateStep(h)
  BY <1>3, <1>4, <1>10 DEF CreateStep, WriteTables, WriteTablesFails, InsertRun, DiscardUpload,
     Commits, Aborts, AckLost, At, Steps
<1>11. CASE StartStep(h)
  BY <1>3, <1>4, <1>11 DEF StartStep, MarkRunning, StartRefused, Commits, Aborts, AckLost, At, Steps
<1>12. CASE ExecuteStep(h)
  BY <1>3, <1>4, <1>7, <1>12 DEF ExecuteStep, LogStart, StoreOutcome, StoreFailure,
     StoreWithoutRow, Commits, Aborts, AckLost, At, Steps
<1>13. CASE DeleteStep(h)
  <2>1. CASE DeleteRun(h)
    <3>1. handler[h].run \in Runs
      BY <1>1, <2>1 DEF DeleteRun, At, HandlersTypeOK
    <3>2. Return(h) \/ Remove(h, {handler[h].run})
      BY <2>1 DEF DeleteRun, Commits, Aborts, AckLost
    <3>3. QED
      BY <1>3, <1>5, <3>1, <3>2
  <2>2. QED
    BY <1>3, <1>8, <1>13, <2>1 DEF DeleteStep, DeleteRefused
<1>14. QED
  BY <1>9, <1>10, <1>11, <1>12, <1>13 DEF Continue

\* A step of h that erases no row, makes no directory, and leaves none behind
\* that h tended; or that tends what it erases and makes.
LEMMA NoneLeaks ==
  ASSUME LeakInv, ~Faulty, NEW h \in Handlers, Moves(h),
         \A r \in Runs : dataset'[r] # "none" /\ ~HasRow(r)' =>
            \/ TendedBy(h, r)'
            \/ dataset[r] # "none" /\ ~HasRow(r) /\ ~TendedBy(h, r)
  PROVE  LeakingTakesAFault'
<1> SUFFICES ASSUME NEW r \in Runs, dataset'[r] # "none", ~HasRow(r)'
             PROVE  Tended(r)'
  BY DEF LeakingTakesAFault
<1>1. CASE TendedBy(h, r)'
  BY <1>1 DEF TendedBy, Tended
<1>2. CASE dataset[r] # "none" /\ ~HasRow(r) /\ ~TendedBy(h, r)
  <2>1. PICK g \in Handlers : TendedBy(g, r)
    BY <1>2 DEF LeakInv, LeakingTakesAFault, Faulty, Tended, TendedBy
  <2>2. g # h /\ handler'[g] = handler[g]
    BY <1>2, <2>1 DEF Moves
  <2>3. QED
    BY <2>1, <2>2 DEF TendedBy, Tended
<1>3. QED
  BY <1>1, <1>2

\* A handler that is not to insert, discard or remove tends nothing.
LEMMA OthersTendNothing ==
  ASSUME LeakInv, NEW h \in Handlers,
         handler[h].step \notin {"inserting", "discarding", "removing"}
  PROVE  \A r \in Runs : ~TendedBy(h, r)
  BY DEF LeakInv, OnlyRemovers, At, TendedBy

\* Rows are erased with their directories tended.
LEMMA ErasedAreTended ==
  ASSUME LeakInv, ~Faulty, NEW h \in Handlers, Moves(h), NEW rs \in SUBSET Runs,
         handler[h].step \in {"idle", "deleting"},
         EraseEffect(rs), Remove(h, rs), UNCHANGED dataset
  PROVE  LeakingTakesAFault'
<1>1. handler'[h].doomed = rs
  BY DEF Remove, Idle, LeakInv, IInv, TypeOK, HandlersTypeOK
<1>2. \A r \in Runs : ~TendedBy(h, r)
  BY OthersTendNothing
<1>3. ASSUME NEW r \in Runs, dataset'[r] # "none", ~HasRow(r)'
      PROVE  \/ TendedBy(h, r)'
             \/ dataset[r] # "none" /\ ~HasRow(r) /\ ~TendedBy(h, r)
  <2>1. CASE r \in rs
    BY <1>1, <2>1 DEF TendedBy
  <2>2. CASE r \notin rs
    BY <1>2, <1>3, <2>2 DEF EraseEffect, HasRow
  <2>3. QED
    BY <2>1, <2>2
<1>4. QED
  BY <1>3, NoneLeaks

\* A step in which nothing fails leaves no directory behind.
LEMMA LeakNext ==
  ASSUME LeakInv, LostAckLimit = 0, [Next]_vars
  PROVE  OnlyRemovers' /\ LeakingTakesAFault'
<1>1. /\ faults \in [FaultKinds -> Nat] /\ faults["lostAck"] = 0 /\ ~Fault("lostAck")
      /\ faults["abort"] \in Nat /\ faults["crash"] \in Nat /\ HandlersTypeOK
      /\ status \in [Runs -> Status] /\ dataset \in [Runs -> {"none", "partial", "written"}]
  BY FaultFacts DEF LeakInv, IInv, TypeOK, FaultKinds
<1>2. /\ Fault("abort") => faults'["abort"] > 0
      /\ Fault("crash") => faults'["crash"] > 0
  BY <1>1, FaultFacts
<1>3. CASE Crash
  <2>1. OnlyRemovers'
    BY <1>3 DEF Crash, OnlyRemovers, Idle
  <2>2. QED
    BY <1>2, <1>3, <2>1 DEF Crash, LeakingTakesAFault
<1>4. CASE UNCHANGED vars
  BY <1>4 DEF LeakInv, vars, db, row, OnlyRemovers, At, LeakingTakesAFault, HasRow, Tended
<1>5. ASSUME NEW h \in Handlers, Request(h) \/ Continue(h)
      PROVE  OnlyRemovers' /\ LeakingTakesAFault'
  <2>1. Moves(h)
    BY <1>5, HandlersMove
  <2>2. OnlyRemovers'
    BY <2>1 DEF Moves, OnlyRemovers, At, LeakInv
  <2>3. CASE Fault("abort")
    BY <1>2, <2>2, <2>3 DEF LeakingTakesAFault
  <2>4. CASE ~Fault("abort")
    <3>1. CASE ~NoFault
      BY <1>1, <1>5, <2>4, <3>1 DEF Request, Upload, ReadToStart, ReadToDelete, DeleteRuns,
         Continue, CreateStep, WriteTables, WriteTablesFails, InsertRun, DiscardUpload,
         StartStep, MarkRunning, StartRefused, ExecuteStep, LogStart, Analyze, StoreOutcome,
         StoreFailure, StoreWithoutRow, DeleteStep, DeleteRun, DeleteRefused, RemoveDataset,
         Commits, Aborts, AckLost
    <3>2. CASE Faulty /\ NoFault
      BY <2>2, <3>2 DEF Faulty, NoFault, LeakingTakesAFault
    <3>3. CASE ~Faulty
      <4> SUFFICES LeakingTakesAFault'
        BY <2>2
      <4>1. ASSUME UNCHANGED dataset, \A r \in Runs : HasRow(r) => HasRow(r)',
                   handler[h].step \notin {"inserting", "discarding", "removing"}
            PROVE  LeakingTakesAFault'
        <5>1. \A r \in Runs : ~TendedBy(h, r)
          BY <4>1, OthersTendNothing
        <5>2. QED
          BY <2>1, <3>3, <4>1, <5>1, NoneLeaks
      <4>2. UNCHANGED db => \A r \in Runs : HasRow(r) => HasRow(r)'
        BY DEF db, row, HasRow
      <4>3. CASE Request(h)
        <5>1. ASSUME NEW u \in Users, DeleteRuns(h, u) PROVE LeakingTakesAFault'
          <6> DEFINE rs == {r \in Runs : CanErase(u, r)}
          <6>1. EraseEffect(rs) /\ Remove(h, rs) /\ UNCHANGED dataset /\ At(h, "idle")
            BY <1>1, <5>1 DEF DeleteRuns, Commits, AckLost
          <6>2. rs \in SUBSET Runs
            OBVIOUS
          <6> HIDE DEF rs
          <6>3. QED
            BY <2>1, <3>3, <6>1, <6>2, ErasedAreTended DEF At
        <5>2. ASSUME NEW u \in Users, NEW r \in Runs,
                     Upload(h, u, r) \/ ReadToStart(h, u, r) \/ ReadToDelete(h, u, r)
              PROVE  LeakingTakesAFault'
          BY <4>1, <4>2, <5>2 DEF Upload, ReadToStart, ReadToDelete, At
        <5>3. QED
          BY <4>3, <5>1, <5>2 DEF Request
      <4>4. CASE WriteTables(h)
        <5> DEFINE q == handler[h].run
        <5>1. /\ dataset' = [dataset EXCEPT ![q] = "written"] /\ UNCHANGED db
              /\ At(h, "writing") /\ GoTo(h, "inserting")
          BY <4>4 DEF WriteTables
        <5>2. handler'[h].step = "inserting" /\ handler'[h].run = q
          BY <1>1, <5>1, GoToFacts DEF Steps
        <5>3. \A r \in Runs : ~TendedBy(h, r)
          BY <5>1, OthersTendNothing DEF At
        <5>4. \A r \in Runs : r # q => dataset'[r] = dataset[r]
          BY <1>1, <5>1
        <5>5. ASSUME NEW r \in Runs, dataset'[r] # "none", ~HasRow(r)'
              PROVE  \/ TendedBy(h, r)'
                     \/ dataset[r] # "none" /\ ~HasRow(r) /\ ~TendedBy(h, r)
          <6>1. CASE r = q
            BY <5>2, <6>1 DEF TendedBy
          <6>2. CASE r # q
            BY <4>2, <5>1, <5>3, <5>4, <5>5, <6>2
          <6>3. QED
            BY <6>1, <6>2
        <5>6. QED
          BY <2>1, <3>3, <5>5, NoneLeaks
      <4>5. CASE InsertRun(h)
        <5> DEFINE q == handler[h].run
        <5>1. /\ InsertEffect(q, handler[h].user) /\ UNCHANGED dataset
              /\ At(h, "inserting")
          BY <1>1, <2>4, <4>5 DEF InsertRun, Commits, Aborts, AckLost
        <5>2. \A r \in Runs : status'[r] = IF r = q THEN "ready" ELSE status[r]
          BY <1>1, <5>1 DEF InsertEffect
        <5>3. \A r \in Runs : TendedBy(h, r) => r = q
          BY <5>1 DEF TendedBy, At, LeakInv, OnlyRemovers
        <5>4. QED
          BY <2>1, <3>3, <5>1, <5>2, <5>3, NoneLeaks DEF HasRow
      <4>6. CASE DiscardUpload(h)
        <5> DEFINE q == handler[h].run
        <5>1. /\ dataset' = [dataset EXCEPT ![q] = "none"] /\ UNCHANGED db
              /\ At(h, "discarding")
          BY <4>6 DEF DiscardUpload
        <5>2. \A r \in Runs : dataset'[r] = IF r = q THEN "none" ELSE dataset[r]
          BY <1>1, <5>1
        <5>3. \A r \in Runs : TendedBy(h, r) => r = q
          BY <5>1 DEF TendedBy, At, LeakInv, OnlyRemovers
        <5>4. QED
          BY <2>1, <3>3, <4>2, <5>1, <5>2, <5>3, NoneLeaks
      <4>7. CASE StartStep(h)
        <5>1. UNCHANGED db \/ MarkRunningEffect(handler[h].run)
          BY <4>7 DEF StartStep, MarkRunning, StartRefused, Commits, Aborts, AckLost
        <5>2. \A r \in Runs : HasRow(r) => HasRow(r)'
          BY <1>1, <4>2, <5>1 DEF MarkRunningEffect, HasRow
        <5>3. QED
          BY <4>1, <4>7, <5>2 DEF StartStep, MarkRunning, StartRefused, At
      <4>8. CASE ExecuteStep(h)
        <5>1. \/ status' = status
              \/ \E end \in TerminalEvents :
                    status' = [status EXCEPT ![handler[h].run] =
                                  Finished(status[handler[h].run], end)]
          BY <4>8 DEF ExecuteStep, LogStart, Analyze, StoreOutcome, StoreFailure, StoreWithoutRow,
             StoreEffect, CloseFailed, CloseCompleted, TerminalEvents, Commits, Aborts, AckLost,
             db, row
        <5>2. \A r \in Runs : HasRow(r) => HasRow(r)'
          BY <1>1, <5>1 DEF Finished, HasRow, TerminalEvents
        <5>3. QED
          BY <4>1, <4>8, <5>2 DEF ExecuteStep, LogStart, Analyze, StoreOutcome, StoreFailure,
             StoreWithoutRow, At
      <4>9. CASE DeleteRun(h)
        <5> DEFINE q == handler[h].run
        <5>1. /\ EraseEffect({q}) /\ Remove(h, {q}) /\ UNCHANGED dataset
              /\ At(h, "deleting")
          BY <1>1, <2>4, <4>9 DEF DeleteRun, Commits, Aborts, AckLost
        <5>2. {q} \in SUBSET Runs
          BY <1>1, <5>1 DEF At, HandlersTypeOK
        <5>3. QED
          BY <2>1, <3>3, <5>1, <5>2, ErasedAreTended DEF At
      <4>10. CASE DeleteRefused(h)
        BY <4>1, <4>2, <4>10 DEF DeleteRefused, At
      <4>11. CASE RemoveDataset(h)
        <5>1. PICK q \in handler[h].doomed :
                /\ dataset' = [dataset EXCEPT ![q] = "none"]
                /\ IF handler[h].doomed = {q} THEN Return(h)
                   ELSE handler' = [handler EXCEPT ![h].doomed = @ \ {q}]
          BY <4>11 DEF RemoveDataset
        <5>2. UNCHANGED db /\ At(h, "removing")
          BY <4>11 DEF RemoveDataset
        <5>3. \A r \in Runs : dataset'[r] = IF r = q THEN "none" ELSE dataset[r]
          BY <1>1, <5>1
        <5>4. \A r \in Runs : r # q /\ TendedBy(h, r) => TendedBy(h, r)'
          <6>1. CASE handler[h].doomed = {q}
            BY <5>2, <6>1 DEF TendedBy, At
          <6>2. CASE handler[h].doomed # {q}
            <7>1. handler'[h].doomed = handler[h].doomed \ {q}
              BY <1>1, <5>1, <6>2 DEF HandlersTypeOK, HandlerState
            <7>2. QED
              BY <5>2, <7>1 DEF TendedBy, At
          <6>3. QED
            BY <6>1, <6>2
        <5>5. QED
          BY <2>1, <3>3, <4>2, <5>2, <5>3, <5>4, NoneLeaks
      <4>12. CASE WriteTablesFails(h)
        BY <2>4, <4>12 DEF WriteTablesFails
      <4>13. QED
        BY <1>5, <4>3, <4>4, <4>5, <4>6, <4>7, <4>8, <4>9, <4>10, <4>11, <4>12
           DEF Continue, CreateStep, DeleteStep
    <3>4. QED
      BY <3>1, <3>2, <3>3
  <2>5. QED
    BY <2>3, <2>4
<1>6. QED
  BY <1>3, <1>4, <1>5 DEF Next

\* create_run and delete_run: as long as nothing fails, no directory is left
\* on the disk that no row and no request will account for.
THEOREM NothingLeaksWithoutAFault ==
  ASSUME LostAckLimit = 0
  PROVE  Spec => []LeakingTakesAFault
<1>1. Init => OnlyRemovers /\ LeakingTakesAFault
  BY DEF Init, OnlyRemovers, Idle, LeakingTakesAFault
<1>2. IInv /\ OnlyRemovers /\ LeakingTakesAFault /\ [Next]_vars
      => OnlyRemovers' /\ LeakingTakesAFault'
  BY LeakNext DEF LeakInv
<1>3. QED
  BY <1>1, <1>2, InvariantHolds, PTL DEF Spec

=============================================================================
