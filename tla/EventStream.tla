----------------------------- MODULE EventStream -----------------------------
(***************************************************************************)
(* The live log of a run (app/runs, GET /runs/{id}/events): a client opens *)
(* a stream, the server replays the run's events after Last-Event-ID and   *)
(* then polls for new ones, and the client, an EventSource, connects again *)
(* after the last event it received whenever a stream ends that has not    *)
(* told it how the run ended.                                              *)
(*                                                                         *)
(* The writers of the log are the handlers of RunLifecycle.  The generator *)
(* of a stream reads run_event and investigation_run in two statements,    *)
(* each its own snapshot, and is suspended between the frames it yields.   *)
(***************************************************************************)
EXTENDS RunLifecycle

CONSTANTS
    Clients,
    DropLimit       \* bound: connections that break

ASSUME DropsAssumption == DropLimit \in Nat

VARIABLES
    stream,     \* per client: the generator _follow_events, or its absence
    got,        \* per client: the events received, since it opened the run
    drops       \* how many connections have broken

streamVars == <<stream, got, drops>>
allVars == <<vars, streamVars>>

\* "away": no generator; else the await at which the generator is suspended:
\* "polling", "checking" or "sending".  A frame has the attempt its event is
\* from, which a client can not see.
NoStream == [step |-> "away", run |-> NoRun, seq |-> 0, rows |-> <<>>]

StreamInit ==
    /\ Init
    /\ stream = [c \in Clients |-> NoStream]
    /\ got = [c \in Clients |-> <<>>]
    /\ drops = 0

-----------------------------------------------------------------------------
(* The client *)

LastSeq(events) == IF events = <<>> THEN 0 ELSE events[Len(events)].seq
Ended(c) ==
    got[c] # <<>> /\ got[c][Len(got[c])].type \in TerminalEvents
Away(c) == stream[c].step = "away"

\* _get_owned_run, then the generator starts after the given event.
Connect(c, u, r, after) ==
    /\ Owns(u, r)
    /\ stream' = [stream EXCEPT ![c] =
                     [step |-> "polling", run |-> r, seq |-> after, rows |-> <<>>]]

\* The page of the run is opened: nothing is known of it.
OpenStream(c, u, r) ==
    /\ stream[c].run = NoRun
    /\ Connect(c, u, r, 0)
    /\ UNCHANGED <<got, drops>>

\* The browser sends the id of the last event it received.
Reconnect(c) ==
    /\ Away(c)
    /\ stream[c].run # NoRun
    /\ ~Ended(c)
    /\ \E u \in Users : Connect(c, u, stream[c].run, LastSeq(got[c]))
    /\ UNCHANGED <<got, drops>>

\* The connection breaks, or a query of the generator fails.
Drop(c) ==
    /\ ~Away(c)
    /\ drops < DropLimit
    /\ drops' = drops + 1
    /\ stream' = [stream EXCEPT ![c].step = "away"]
    /\ UNCHANGED got

-----------------------------------------------------------------------------
(* The generator *)

\* SELECT ... WHERE seq >= after
BugNewer(r, after) ==
    LET from == IF after = 0 THEN 1 ELSE after
    IN [i \in 1..(Len(log[r]) + 1 - from) |->
          [attempt |-> startedAt[r], seq |-> from + i - 1, type |-> log[r][from + i - 1]]]

\* SELECT ... WHERE seq > after ORDER BY seq
Newer(r, after) ==
    [i \in 1..(Len(log[r]) - after) |->
        [attempt |-> startedAt[r], seq |-> after + i, type |-> log[r][after + i]]]

Poll(c) ==
    /\ stream[c].step = "polling"
    /\ LET rows == Newer(stream[c].run, stream[c].seq)
       IN stream' = [stream EXCEPT
             ![c].rows = rows,
             ![c].step = IF rows = <<>> THEN "checking" ELSE "sending"]
    /\ UNCHANGED <<got, drops>>

\* One frame is yielded; a terminal event is the last one, whatever is left.
Send(c) ==
    /\ stream[c].step = "sending"
    /\ LET event == Head(stream[c].rows)
           rest == Tail(stream[c].rows)
       IN /\ got' = [got EXCEPT ![c] = Append(@, event)]
          /\ stream' = [stream EXCEPT
                ![c].rows = rest,
                ![c].seq = event.seq,
                ![c].step = IF event.type \in TerminalEvents THEN "away"
                            ELSE IF rest = <<>> THEN "polling"
                            ELSE "sending"]
    /\ UNCHANGED drops

\* A run that has not begun is waited for.
BugCheck(c) ==
    /\ stream[c].step = "checking"
    /\ stream' = [stream EXCEPT
          ![c].step = IF HasRow(stream[c].run) THEN "polling" ELSE "away"]
    /\ UNCHANGED <<got, drops>>

\* There was nothing newer: the status decides whether there will be.
Check(c) ==
    /\ stream[c].step = "checking"
    /\ stream' = [stream EXCEPT
          ![c].step = IF status[stream[c].run] = "running" THEN "polling"
                      ELSE "away"]
    /\ UNCHANGED <<got, drops>>

Generate(c) == Poll(c) \/ Send(c) \/ Check(c)

-----------------------------------------------------------------------------
(* The specification: the writers and the readers of the log *)

ClientStep(c) ==
    \/ \E u \in Users, r \in Runs : OpenStream(c, u, r)
    \/ Reconnect(c)
    \/ Drop(c)
    \/ Generate(c)

WriterStep ==
    /\ \E h \in Handlers : Request(h) \/ Continue(h)
    /\ UNCHANGED streamVars

\* The generators die with the process.
StreamCrash ==
    /\ Crash
    /\ stream' = [c \in Clients |-> [stream[c] EXCEPT !.step = "away"]]
    /\ UNCHANGED <<got, drops>>

StreamNext ==
    \/ \E c \in Clients : ClientStep(c) /\ UNCHANGED vars
    \/ WriterStep
    \/ StreamCrash

StreamSpec == StreamInit /\ [][StreamNext]_allVars

\* The event loop resumes every generator; a browser reconnects on its own.
StreamFairness ==
    /\ \A h \in Handlers : WF_allVars(Continue(h) /\ UNCHANGED streamVars)
    /\ \A c \in Clients : WF_allVars(Generate(c) /\ UNCHANGED vars)
    /\ \A c \in Clients : WF_allVars(Reconnect(c) /\ UNCHANGED vars)
FairStreamSpec == StreamSpec /\ StreamFairness

-----------------------------------------------------------------------------
(* Properties *)

\* The stream is resumable: over however many streams, a client gets events of
\* consecutive numbers from 1 on, each once, and none of an attempt after one
\* of a later attempt.  Within an attempt none is left out.  The exception is a
\* retry, which begins the log again at 1: a stream, or a client, that goes on
\* from the attempt before gets the events of the new one from its own number
\* on, and those up to it are not sent.
FramesInOrder ==
    \A c \in Clients : \A i \in 1..Len(got[c]) :
        /\ got[c][i].seq = i
        /\ i > 1 => got[c][i - 1].attempt <= got[c][i].attempt

\* A client that has been told how the run ended has been told the truth: so
\* it is, until the run is started again or deleted.
ToldTheTruth ==
    \A c \in Clients :
        Ended(c) =>
            LET last == got[c][Len(got[c])]
                r == stream[c].run
            IN \/ status[r] = last.type
               \/ status[r] = "deleted"
               \/ startedAt[r] > last.attempt

\* A stream holds its connection no longer than the run takes: it ends, unless
\* the run is left running.
StreamsEnd == \A c \in Clients : ~Away(c) ~> Away(c) \/ Stranded(stream[c].run)

\* A client that has opened a run and reconnects as browsers do learns how it
\* ended, unless the run is deleted first, or its next attempt is stranded.
\* A client that followed an attempt that was retried learns it too, but if it
\* has received as many events as the log of the new attempt has: then the end
\* of it is not after the seq that the client goes on from.
Outrun(c, r) ==
    /\ got[c] # <<>> /\ got[c][Len(got[c])].attempt < startedAt[r]
    /\ LastSeq(got[c]) >= Len(log[r])
ClientsAreTold ==
    \A c \in Clients, r \in Runs :
        stream[c].run = r /\ status[r] \in TerminalEvents
        ~> Ended(c) \/ status[r] = "deleted" \/ Outrun(c, r) \/ Stranded(r)

=============================================================================
