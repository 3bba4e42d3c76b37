------------------------- MODULE EventStream_proofs -------------------------
(***************************************************************************)
(* Proofs about the streams of the events: the frames a client gets are in *)
(* order whatever fails, and tell the truth of how a run ended.            *)
(***************************************************************************)
EXTENDS EventStream, RunLifecycle_proofs, Integers

-----------------------------------------------------------------------------
(* Types *)

Frames == [attempt : Nat, seq : Nat, type : EventTypes]
StreamState == [step : {"away", "polling", "checking", "sending"}, run : Runs \cup {NoRun},
                seq : Nat, rows : Seq(Frames)]
StreamTypeOK ==
    /\ stream \in [Clients -> StreamState]
    /\ got \in [Clients -> Seq(Frames)]

\* Every step of the specification is a step of RunLifecycle, or changes
\* nothing of it, and a step of one client, or it breaks all connections.
LEMMA StepsAreWriters == [StreamNext]_allVars => [Next]_vars
  BY DEF StreamNext, WriterStep, StreamCrash, Next, allVars

\* What a poll reads are the events after the given one, one by one.
LEMMA NewerFacts ==
  ASSUME TypeOK, NEW r \in Runs, NEW after \in Nat
  PROVE  /\ Newer(r, after) \in Seq(Frames)
         /\ \A i \in 1..Len(Newer(r, after)) :
               /\ after + i \in 1..Len(log[r])
               /\ Newer(r, after)[i] = [attempt |-> startedAt[r], seq |-> after + i,
                                        type |-> log[r][after + i]]
<1> DEFINE n == Len(log[r]) - after
           N == IF n < 0 THEN 0 ELSE n
           f == Newer(r, after)
<1>1. log[r] \in Seq(EventTypes) /\ startedAt[r] \in Nat /\ Len(log[r]) \in Nat /\ n \in Int
      /\ N \in Nat
  BY DEF TypeOK
<1>2. 1..n = 1..N
  BY <1>1
<1>3. \A i \in 1..N : after + i \in 1..Len(log[r]) /\ log[r][after + i] \in EventTypes
  BY <1>1
<1>4. f = [i \in 1..N |-> [attempt |-> startedAt[r], seq |-> after + i,
                           type |-> log[r][after + i]]]
  BY <1>2 DEF Newer
<1>5. \A i \in 1..N : [attempt |-> startedAt[r], seq |-> after + i,
                       type |-> log[r][after + i]] \in Frames
  BY <1>1, <1>3 DEF Frames
<1>6. f \in [1..N -> Frames]
  BY <1>4, <1>5
<1>7. f \in Seq(Frames) /\ Len(f) = N
  BY <1>1, <1>6
<1>8. QED
  BY <1>3, <1>4, <1>7

-----------------------------------------------------------------------------
(* The order of the frames *)

Last(frames) == frames[Len(frames)]

\* The last frame is a frame.
LEMMA LastFacts ==
  ASSUME NEW frames \in Seq(Frames), frames # <<>>
  PROVE  /\ Len(frames) \in 1..Len(frames) /\ Last(frames) \in Frames
         /\ Last(frames).seq \in Nat /\ Last(frames).attempt \in Nat
         /\ LastSeq(frames) = Last(frames).seq
<1>1. Len(frames) \in 1..Len(frames)
  OBVIOUS
<1>2. Last(frames) \in Frames
  BY <1>1 DEF Last
<1>3. QED
  BY <1>1, <1>2 DEF Frames, LastSeq, Last

InOrder(frames) ==
    \A i \in 1..Len(frames) :
        /\ frames[i].seq = i
        /\ i > 1 => frames[i - 1].attempt <= frames[i].attempt

\* The rows that are to be sent follow those that the client has.
RowsFollow(c) ==
    LET rows == stream[c].rows IN
    /\ rows # <<>>
    /\ \A i \in 1..Len(rows) :
          rows[i].seq = stream[c].seq + i /\ rows[i].attempt = rows[1].attempt
    /\ rows[1].attempt <= startedAt[stream[c].run]
    /\ got[c] # <<>> => Last(got[c]).attempt <= rows[1].attempt

OrderOf(c) ==
    /\ stream[c].run = NoRun => stream[c].step = "away" /\ got[c] = <<>>
    /\ stream[c].step # "away" => stream[c].seq = LastSeq(got[c])
    /\ stream[c].step = "sending" => RowsFollow(c)
    /\ got[c] # <<>> => Last(got[c]).attempt <= startedAt[stream[c].run]
    /\ InOrder(got[c])

OrderInv ==
    /\ TypeOK
    /\ StreamTypeOK
    /\ \A c \in Clients : OrderOf(c)

\* The generator of one client goes on: the others stay.
LEMMA OneClient ==
  ASSUME OrderInv, NEW c \in Clients, NEW new \in StreamState, NEW frames \in Seq(Frames),
         UNCHANGED vars,
         stream' = [stream EXCEPT ![c] = new], got' = [got EXCEPT ![c] = frames]
  PROVE  /\ StreamTypeOK' /\ TypeOK'
         /\ stream'[c] = new /\ got'[c] = frames
         /\ \A d \in Clients : d # c => OrderOf(d)'
<1>1. StreamTypeOK' /\ stream'[c] = new /\ got'[c] = frames
  BY DEF OrderInv, StreamTypeOK
<1>2. \A d \in Clients : d # c => stream'[d] = stream[d] /\ got'[d] = got[d]
  BY DEF OrderInv, StreamTypeOK
<1>3. UNCHANGED startedAt
  BY DEF vars, db, row
<1>4. \A d \in Clients : d # c => OrderOf(d)'
  BY <1>2, <1>3 DEF OrderInv, OrderOf, RowsFollow, InOrder, Last, LastSeq
<1>5. TypeOK'
  BY DEF OrderInv, vars, db, row, TypeOK, HandlersTypeOK
<1>6. QED
  BY <1>1, <1>4, <1>5

\* A client connects, and asks for what follows what it has.
LEMMA OrderConnect ==
  ASSUME OrderInv, UNCHANGED vars, NEW c \in Clients,
         (\E u \in Users, r \in Runs : OpenStream(c, u, r)) \/ Reconnect(c)
  PROVE  OrderInv'
<1>1. /\ stream[c] \in StreamState /\ got[c] \in Seq(Frames) /\ OrderOf(c)
      /\ got' = got /\ got' = [got EXCEPT ![c] = got[c]]
  BY DEF OrderInv, StreamTypeOK, OpenStream, Reconnect
<1>2. LastSeq(got[c]) \in Nat
  BY <1>1, LastFacts DEF LastSeq
<1>3. PICK r \in Runs :
        /\ stream' = [stream EXCEPT ![c] = [step |-> "polling", run |-> r,
                                            seq |-> LastSeq(got[c]), rows |-> <<>>]]
        /\ got[c] = <<>> \/ r = stream[c].run
  <2>1. CASE \E u \in Users, r \in Runs : OpenStream(c, u, r)
    BY <1>1, <2>1 DEF OpenStream, Connect, OrderOf, LastSeq
  <2>2. CASE Reconnect(c)
    BY <1>1, <2>2 DEF Reconnect, Connect, StreamState
  <2>3. QED
    BY <2>1, <2>2
<1> DEFINE new == [step |-> "polling", run |-> r, seq |-> LastSeq(got[c]), rows |-> <<>>]
<1>4. new \in StreamState
  BY <1>2 DEF StreamState
<1>5. /\ StreamTypeOK' /\ TypeOK' /\ stream'[c] = new /\ got'[c] = got[c]
      /\ \A d \in Clients : d # c => OrderOf(d)'
  BY <1>1, <1>3, <1>4, OneClient
<1>6. startedAt' = startedAt
  BY DEF vars, db, row
<1>7. OrderOf(c)'
  BY <1>1, <1>3, <1>5, <1>6, RunsAssumption DEF OrderOf, InOrder, Last, LastSeq
<1>8. QED
  BY <1>5, <1>7 DEF OrderInv

\* A connection breaks, or the generator looks at the status.
LEMMA OrderCheck ==
  ASSUME OrderInv, UNCHANGED vars, NEW c \in Clients, Drop(c) \/ Check(c)
  PROVE  OrderInv'
<1>1. /\ stream[c] \in StreamState /\ got[c] \in Seq(Frames) /\ OrderOf(c)
      /\ got' = [got EXCEPT ![c] = got[c]]
  BY DEF OrderInv, StreamTypeOK, Drop, Check
<1>2. PICK step \in {"polling", "away"} :
        /\ stream' = [stream EXCEPT ![c].step = step]
        /\ stream[c].step # "away"
  BY DEF Drop, Check, Away
<1> DEFINE new == [stream[c] EXCEPT !.step = step]
<1>3. /\ new \in StreamState /\ new.step = step /\ new.run = stream[c].run
      /\ new.seq = stream[c].seq
  BY <1>1 DEF StreamState
<1>4. stream' = [stream EXCEPT ![c] = new]
  BY <1>2
<1> HIDE DEF new
<1>5. /\ StreamTypeOK' /\ TypeOK' /\ stream'[c] = new /\ got'[c] = got[c]
      /\ \A d \in Clients : d # c => OrderOf(d)'
  BY <1>1, <1>3, <1>4, OneClient
<1>6. startedAt' = startedAt
  BY DEF vars, db, row
<1>7. OrderOf(c)'
  BY <1>1, <1>2, <1>3, <1>5, <1>6 DEF OrderOf, InOrder, Last, LastSeq
<1>8. QED
  BY <1>5, <1>7 DEF OrderInv

\* The generator reads what is newer.
LEMMA OrderPoll ==
  ASSUME OrderInv, UNCHANGED vars, NEW c \in Clients, Poll(c)
  PROVE  OrderInv'
<1> DEFINE r == stream[c].run
           rows == Newer(r, stream[c].seq)
<1>1. /\ stream[c] \in StreamState /\ got[c] \in Seq(Frames) /\ OrderOf(c) /\ TypeOK
      /\ stream[c].step = "polling" /\ got' = [got EXCEPT ![c] = got[c]]
  BY DEF OrderInv, StreamTypeOK, Poll
<1>2. r \in Runs /\ stream[c].seq \in Nat /\ startedAt[r] \in Nat
  BY <1>1 DEF OrderOf, StreamState, TypeOK
<1>3. /\ rows \in Seq(Frames)
      /\ \A i \in 1..Len(rows) : rows[i].seq = stream[c].seq + i /\ rows[i].attempt = startedAt[r]
  <2>1. /\ rows \in Seq(Frames)
        /\ \A i \in 1..Len(rows) :
              rows[i] = [attempt |-> startedAt[r], seq |-> stream[c].seq + i,
                         type |-> log[r][stream[c].seq + i]]
    BY <1>1, <1>2, NewerFacts
  <2>2. \A i \in 1..Len(rows) : rows[i].seq = stream[c].seq + i /\ rows[i].attempt = startedAt[r]
    <3> HIDE DEF rows
    <3> SUFFICES ASSUME NEW i \in 1..Len(rows)
                 PROVE  rows[i].seq = stream[c].seq + i /\ rows[i].attempt = startedAt[r]
      OBVIOUS
    <3>1. rows[i] = [attempt |-> startedAt[r], seq |-> stream[c].seq + i,
                     type |-> log[r][stream[c].seq + i]]
      BY <2>1
    <3>2. QED
      BY <3>1
  <2>3. QED
    BY <2>1, <2>2
<1>4. PICK step \in {"checking", "sending"} :
        /\ stream' = [stream EXCEPT ![c].rows = rows, ![c].step = step]
        /\ step = "sending" => rows # <<>>
  BY DEF Poll
<1> DEFINE mid == [stream[c] EXCEPT !.rows = rows]
           new == [mid EXCEPT !.step = step]
<1> HIDE DEF rows
<1>5. mid \in StreamState /\ mid.run = r /\ mid.seq = stream[c].seq /\ mid.rows = rows
  BY <1>1, <1>3 DEF StreamState
<1>6. stream' = [stream EXCEPT ![c] = new]
  BY <1>1, <1>4 DEF OrderInv, StreamTypeOK
<1> HIDE DEF mid
<1>7. /\ new \in StreamState /\ new.run = r /\ new.seq = stream[c].seq /\ new.rows = rows
      /\ new.step = step
  BY <1>5 DEF StreamState
<1> HIDE DEF new
<1>8. /\ StreamTypeOK' /\ TypeOK' /\ stream'[c] = new /\ got'[c] = got[c]
      /\ \A d \in Clients : d # c => OrderOf(d)'
  BY <1>1, <1>6, <1>7, OneClient
<1>9. startedAt' = startedAt
  BY DEF vars, db, row
<1>10. step = "sending" => RowsFollow(c)'
  <2> SUFFICES ASSUME step = "sending" PROVE RowsFollow(c)'
    OBVIOUS
  <2>1. rows # <<>> /\ rows[1].attempt = startedAt[r]
    BY <1>3, <1>4
  <2>2. \A i \in 1..Len(rows) :
           rows[i].seq = stream[c].seq + i /\ rows[i].attempt = rows[1].attempt
    BY <1>3, <2>1
  <2>3. got[c] # <<>> => Last(got[c]).attempt <= startedAt[r]
    BY <1>1 DEF OrderOf
  <2>4. stream'[c].rows = rows /\ stream'[c].run = r /\ stream'[c].seq = stream[c].seq
        /\ got'[c] = got[c] /\ startedAt'[r] = startedAt[r]
    BY <1>7, <1>8, <1>9
  <2> HIDE DEF r
  <2>5. QED
    BY <1>2, <2>1, <2>2, <2>3, <2>4 DEF RowsFollow, Last
<1>11. OrderOf(c)'
  BY <1>1, <1>2, <1>7, <1>8, <1>9, <1>10, RunsAssumption DEF OrderOf, InOrder, Last, LastSeq
<1>12. QED
  BY <1>8, <1>11 DEF OrderInv

\* A frame that follows the last one keeps the order.
LEMMA AppendKeepsOrder ==
  ASSUME NEW frames \in Seq(Frames), NEW event \in Frames, InOrder(frames),
         event.seq = LastSeq(frames) + 1,
         frames # <<>> => Last(frames).attempt <= event.attempt
  PROVE  /\ Append(frames, event) \in Seq(Frames) /\ Append(frames, event) # <<>>
         /\ Last(Append(frames, event)) = event /\ LastSeq(Append(frames, event)) = event.seq
         /\ InOrder(Append(frames, event))
<1> DEFINE more == Append(frames, event)
           n == Len(frames)
<1>1. /\ n \in Nat /\ more \in Seq(Frames) /\ Len(more) = n + 1 /\ more[n + 1] = event
      /\ \A i \in 1..n : more[i] = frames[i]
  OBVIOUS
<1>2. more # <<>> /\ Last(more) = event /\ LastSeq(more) = event.seq
  <2> HIDE DEF more
  <2>1. more # <<>>
    BY <1>1
  <2>2. more[Len(more)] = event
    BY <1>1
  <2>3. QED
    BY <2>1, <2>2 DEF Last, LastSeq
<1> HIDE DEF more
<1>3. ASSUME NEW i \in 1..n
      PROVE  more[i].seq = i /\ (i > 1 => more[i - 1].attempt <= more[i].attempt)
  <2>1. more[i] = frames[i] /\ (i > 1 => more[i - 1] = frames[i - 1])
    BY <1>1
  <2>2. QED
    BY <2>1 DEF InOrder
<1>4. more[n + 1].seq = n + 1 /\ (n > 0 => more[n].attempt <= more[n + 1].attempt)
  <2>1. CASE n = 0
    BY <1>1, <2>1 DEF LastSeq
  <2>2. CASE n # 0
    <3>1. frames # <<>> /\ more[n] = Last(frames) /\ n \in 1..Len(frames)
      BY <1>1, <2>2 DEF Last
    <3>2. Last(frames).seq = n
      BY <3>1 DEF InOrder, Last
    <3>3. event.seq = n + 1 /\ Last(frames).attempt <= event.attempt
      BY <3>1, <3>2, LastFacts
    <3>4. QED
      BY <1>1, <3>1, <3>3
  <2>3. QED
    BY <2>1, <2>2
<1>5. InOrder(more)
  <2> SUFFICES ASSUME NEW i \in 1..Len(more)
               PROVE  more[i].seq = i /\ (i > 1 => more[i - 1].attempt <= more[i].attempt)
    BY DEF InOrder
  <2>1. CASE i \in 1..n
    BY <1>3, <2>1
  <2>2. CASE i = n + 1
    <3>1. i - 1 = n
      BY <1>1, <2>2
    <3>2. QED
      BY <1>4, <2>2, <3>1
  <2>3. QED
    BY <1>1, <2>1, <2>2
<1>6. QED
  BY <1>1, <1>2, <1>5 DEF more

\* One frame is sent: it follows the last one, and the others follow it.
LEMMA OrderSend ==
  ASSUME OrderInv, UNCHANGED vars, NEW c \in Clients, Send(c)
  PROVE  OrderInv'
<1> DEFINE r == stream[c].run
           rows == stream[c].rows
           event == Head(rows)
           rest == Tail(rows)
           frames == Append(got[c], event)
<1>1. /\ stream[c] \in StreamState /\ got[c] \in Seq(Frames) /\ OrderOf(c) /\ TypeOK
      /\ stream[c].step = "sending" /\ RowsFollow(c)
  BY DEF OrderInv, StreamTypeOK, Send, OrderOf
<1>2. /\ r \in Runs /\ stream[c].seq \in Nat /\ stream[c].seq = LastSeq(got[c])
      /\ startedAt[r] \in Nat /\ rows \in Seq(Frames) /\ rows # <<>>
  BY <1>1 DEF OrderOf, StreamState, TypeOK, RowsFollow
<1>3. /\ event = rows[1] /\ event \in Frames /\ event.seq \in Nat /\ event.attempt \in Nat
      /\ rest \in Seq(Frames) /\ Len(rest) \in Nat /\ Len(rest) = Len(rows) - 1
      /\ \A i \in 1..Len(rest) : rest[i] = rows[i + 1] /\ i + 1 \in 1..Len(rows)
      /\ 1 \in 1..Len(rows)
  <2>1. /\ event = rows[1] /\ event \in Frames
        /\ rest \in Seq(Frames) /\ Len(rest) \in Nat /\ Len(rest) = Len(rows) - 1
        /\ \A i \in 1..Len(rest) : rest[i] = rows[i + 1] /\ i + 1 \in 1..Len(rows)
        /\ 1 \in 1..Len(rows)
    BY <1>2
  <2>2. QED
    BY <2>1 DEF Frames
<1>4. /\ \A i \in 1..Len(rows) :
            rows[i].seq = stream[c].seq + i /\ rows[i].attempt = rows[1].attempt
      /\ rows[1].attempt <= startedAt[r]
      /\ got[c] # <<>> => Last(got[c]).attempt <= rows[1].attempt
  BY <1>1 DEF RowsFollow
<1>5. /\ event.seq = stream[c].seq + 1 /\ event.attempt <= startedAt[r]
      /\ got[c] # <<>> => Last(got[c]).attempt <= event.attempt
  BY <1>3, <1>4
<1> HIDE DEF event, rest
<1>6. /\ frames \in Seq(Frames) /\ frames # <<>> /\ Last(frames) = event
      /\ LastSeq(frames) = event.seq /\ InOrder(frames)
  BY <1>1, <1>2, <1>3, <1>5, AppendKeepsOrder DEF OrderOf
<1>7. ASSUME NEW i \in 1..Len(rest)
      PROVE  rest[i].seq = event.seq + i /\ rest[i].attempt = event.attempt
  <2>1. /\ rest[i] = rows[i + 1] /\ rows[i + 1].seq = stream[c].seq + (i + 1)
        /\ rows[i + 1].attempt = rows[1].attempt
    BY <1>3, <1>4
  <2>2. QED
    BY <1>2, <1>3, <1>5, <2>1
<1>8. PICK step \in {"away", "polling", "sending"} :
        /\ stream' = [stream EXCEPT ![c].rows = rest, ![c].seq = event.seq, ![c].step = step]
        /\ step = "sending" => rest # <<>>
  BY DEF Send, event, rest
<1>9. got' = [got EXCEPT ![c] = frames]
  BY <1>1 DEF Send, event, OrderInv, StreamTypeOK
<1> DEFINE one == [stream[c] EXCEPT !.rows = rest]
           two == [one EXCEPT !.seq = event.seq]
           new == [two EXCEPT !.step = step]
<1>10. stream' = [stream EXCEPT ![c] = new]
  BY <1>1, <1>8 DEF OrderInv, StreamTypeOK
<1> HIDE DEF rows, frames
<1>11. one \in StreamState /\ one.run = r /\ one.rows = rest
  BY <1>1, <1>3 DEF StreamState
<1> HIDE DEF one
<1>12. two \in StreamState /\ two.run = r /\ two.rows = rest /\ two.seq = event.seq
  BY <1>3, <1>11 DEF StreamState
<1> HIDE DEF two
<1>13. /\ new \in StreamState /\ new.run = r /\ new.rows = rest /\ new.seq = event.seq
       /\ new.step = step
  BY <1>12 DEF StreamState
<1> HIDE DEF new
<1>14. /\ StreamTypeOK' /\ TypeOK' /\ stream'[c] = new /\ got'[c] = frames
       /\ \A d \in Clients : d # c => OrderOf(d)'
  BY <1>6, <1>9, <1>10, <1>13, OneClient
<1>15. /\ stream'[c].rows = rest /\ stream'[c].run = r /\ stream'[c].seq = event.seq
       /\ stream'[c].step = step /\ startedAt'[r] = startedAt[r]
  BY <1>13, <1>14 DEF vars, db, row
<1> HIDE DEF r
<1>16. step = "sending" => RowsFollow(c)'
  <2> SUFFICES ASSUME step = "sending" PROVE RowsFollow(c)'
    OBVIOUS
  <2>1. rest # <<>> /\ 1 \in 1..Len(rest)
    BY <1>3, <1>8
  <2>2. rest[1].attempt = event.attempt
    BY <1>7, <2>1
  <2>3. \A i \in 1..Len(rest) :
           rest[i].seq = event.seq + i /\ rest[i].attempt = rest[1].attempt
    BY <1>7, <2>2
  <2>4. Last(got'[c]) = event
    BY <1>6, <1>14
  <2>5. QED
    BY <1>3, <1>5, <1>15, <2>1, <2>2, <2>3, <2>4 DEF RowsFollow, Last
<1>17. OrderOf(c)'
  BY <1>2, <1>5, <1>6, <1>14, <1>15, <1>16, RunsAssumption DEF OrderOf, InOrder, Last, LastSeq
<1>18. QED
  BY <1>14, <1>17 DEF OrderInv

\* The writers write: attempts only go up.
LEMMA OrderWriter ==
  ASSUME OrderInv, [Next]_vars, UNCHANGED got,
         \A c \in Clients : stream'[c] = stream[c]
                            \/ stream'[c] = [stream[c] EXCEPT !.step = "away"],
         stream' \in [Clients -> StreamState]
  PROVE  StreamTypeOK' /\ \A c \in Clients : OrderOf(c)'
<1>1. StreamTypeOK'
  BY DEF OrderInv, StreamTypeOK
<1>2. \A r \in Runs : startedAt[r] \in Nat /\ startedAt'[r] \in Nat /\ startedAt[r] <= startedAt'[r]
  <2> TAKE r \in Runs
  <2>1. startedAt[r] \in Nat
    BY DEF OrderInv, TypeOK
  <2>2. startedAt'[r] \in {startedAt[r], startedAt[r] + 1}
    BY LogSteps DEF OrderInv, LogStep, Kept, Inserted, Restarted, Forgotten, Logged
  <2>3. QED
    BY <2>1, <2>2
<1>3. ASSUME NEW c \in Clients
      PROVE  OrderOf(c)'
  <2>1. stream[c] \in StreamState /\ got[c] \in Seq(Frames) /\ OrderOf(c) /\ got'[c] = got[c]
    BY DEF OrderInv, StreamTypeOK
  <2>2. /\ stream'[c].run = stream[c].run /\ stream'[c].seq = stream[c].seq
        /\ stream'[c].rows = stream[c].rows
        /\ stream'[c].step = stream[c].step \/ stream'[c].step = "away"
    BY <2>1 DEF StreamState
  <2>3. CASE stream[c].run = NoRun
    BY <2>1, <2>2, <2>3, RunsAssumption DEF OrderOf, InOrder, Last, LastSeq
  <2>4. CASE stream[c].run # NoRun
    <3>1. stream[c].run \in Runs /\ stream[c].rows \in Seq(Frames)
      BY <2>1, <2>4 DEF StreamState
    <3>2. startedAt[stream[c].run] <= startedAt'[stream[c].run]
      BY <1>2, <3>1
    <3>3. got[c] # <<>> => Last(got[c]).attempt <= startedAt'[stream[c].run]
      <4> SUFFICES ASSUME got[c] # <<>>
                   PROVE  Last(got[c]).attempt <= startedAt'[stream[c].run]
        OBVIOUS
      <4>1. Last(got[c]).attempt \in Nat /\ Last(got[c]).attempt <= startedAt[stream[c].run]
        BY <2>1, LastFacts DEF OrderOf
      <4>2. QED
        BY <1>2, <3>1, <3>2, <4>1
    <3>4. stream'[c].step = "sending" => RowsFollow(c)'
      <4> SUFFICES ASSUME stream'[c].step = "sending" PROVE RowsFollow(c)'
        OBVIOUS
      <4>1. RowsFollow(c)
        BY <2>1, <2>2 DEF OrderOf
      <4>2. stream[c].rows # <<>> /\ 1 \in 1..Len(stream[c].rows)
        BY <3>1, <4>1 DEF RowsFollow
      <4>3. stream[c].rows[1] \in Frames
        BY <3>1, <4>2
      <4>4. stream[c].rows[1].attempt \in Nat
        BY <4>3 DEF Frames
      <4>5. stream[c].rows[1].attempt <= startedAt'[stream[c].run]
        BY <1>2, <3>1, <3>2, <4>1, <4>4 DEF RowsFollow
      <4>6. QED
        BY <2>1, <2>2, <4>1, <4>5 DEF RowsFollow, Last
    <3>5. QED
      BY <2>1, <2>2, <2>4, <3>3, <3>4 DEF OrderOf, InOrder, Last, LastSeq
  <2>5. QED
    BY <2>3, <2>4
<1>4. QED
  BY <1>1, <1>3

-----------------------------------------------------------------------------
(* The theorem *)

\* A step of the writers and the readers is one of RunLifecycle, or changes
\* nothing of it, so what holds of its runs holds with streams too.
LEMMA WritersTypeCorrect == StreamSpec => []TypeOK
<1>1. StreamInit => TypeOK
  BY TypeInit DEF StreamInit
<1>2. StreamSpec => Spec
  BY StepsAreWriters, PTL DEF StreamSpec, StreamInit, Spec
<1>3. QED
  BY <1>2, TypeCorrect, PTL

\* The frames a client has are in order, and so are those that follow.
LEMMA OrderNext == OrderInv /\ TypeOK' /\ [StreamNext]_allVars => OrderInv'
<1> SUFFICES ASSUME OrderInv, TypeOK', [StreamNext]_allVars PROVE OrderInv'
  OBVIOUS
<1>1. CASE UNCHANGED streamVars
  <2>1. [Next]_vars
    BY StepsAreWriters
  <2>2. stream' \in [Clients -> StreamState]
    BY <1>1 DEF streamVars, OrderInv, StreamTypeOK
  <2>3. QED
    BY <1>1, <2>1, <2>2, OrderWriter DEF streamVars, OrderInv
<1>2. CASE StreamCrash
  <2>1. [Next]_vars
    BY StepsAreWriters
  <2>2. /\ stream' \in [Clients -> StreamState]
        /\ \A c \in Clients : stream'[c] = [stream[c] EXCEPT !.step = "away"]
    BY <1>2 DEF StreamCrash, OrderInv, StreamTypeOK, StreamState
  <2>3. QED
    BY <1>2, <2>1, <2>2, OrderWriter DEF StreamCrash, OrderInv
<1>3. CASE \E c \in Clients : ClientStep(c) /\ UNCHANGED vars
  BY <1>3, OrderConnect, OrderCheck, OrderPoll, OrderSend DEF ClientStep, Generate
<1>4. QED
  BY <1>1, <1>2, <1>3 DEF StreamNext, WriterStep, allVars

\* However often connections break, tasks fail and the process crashes, a
\* client gets events of consecutive numbers, each once, and none of an attempt
\* after one of a later attempt.
THEOREM EventsArriveInOrder == StreamSpec => []FramesInOrder
<1>1. StreamInit => OrderInv
  BY TypeInit DEF StreamInit, NoStream, OrderInv, StreamTypeOK, StreamState, OrderOf, InOrder
<1>2. OrderInv => FramesInOrder
  BY DEF OrderInv, OrderOf, InOrder, FramesInOrder
<1>3. QED
  BY <1>1, <1>2, OrderNext, WritersTypeCorrect, PTL DEF StreamSpec

-----------------------------------------------------------------------------
(* The truth of the frames: while the attempt that a frame is from is the run's *)
(* last one, the log has the event at its place.                                *)

Truth(r, e) ==
    /\ e.attempt <= startedAt[r]
    /\ e.attempt = startedAt[r] /\ status[r] # "deleted" =>
          e.seq \in 1..Len(log[r]) /\ log[r][e.seq] = e.type

TruthOf(c) ==
    /\ stream[c].step = "sending" =>
          \A i \in 1..Len(stream[c].rows) : Truth(stream[c].run, stream[c].rows[i])
    /\ got[c] # <<>> => Truth(stream[c].run, Last(got[c]))

TruthInv ==
    /\ OrderInv
    /\ IInv
    /\ \A c \in Clients : TruthOf(c)

\* A run that was deleted is never inserted, or started, again.
LEMMA DeletedStays ==
  ASSUME IInv, LostAckLimit = 0, [Next]_vars, NEW r \in Runs, status[r] = "deleted"
  PROVE  status'[r] = "deleted"
<1>1. StepOnRuns
  BY StepsOnRuns
<1>2. ~Created(r) /\ ~Begun(r) /\ ~Advanced(r) /\ ~Erased(r)
  BY DEF Created, Begun, Advanced, Erased, Startable, HasRow
<1>3. CASE \A q \in Runs : Untouched(q)
  BY <1>3 DEF Untouched
<1>4. CASE \E p \in Runs : /\ Created(p) \/ Begun(p) \/ Advanced(p)
                           /\ \A q \in Runs \ {p} : Untouched(q)
  BY <1>2, <1>4 DEF Untouched
<1>5. CASE \E rs \in SUBSET Runs : /\ \A p \in rs : Erased(p)
                                   /\ \A q \in Runs \ rs : Untouched(q)
  BY <1>2, <1>5 DEF Untouched
<1>6. QED
  BY <1>1, <1>3, <1>4, <1>5 DEF StepOnRuns

\* Whatever the writers do, a frame stays true.
LEMMA TruthStays ==
  ASSUME IInv, LostAckLimit = 0, [Next]_vars, NEW r \in Runs, NEW e \in Frames, Truth(r, e)
  PROVE  /\ e.attempt <= startedAt'[r]
         /\ e.attempt = startedAt'[r] /\ status'[r] # "deleted" =>
               e.seq \in 1..Len(log'[r]) /\ log'[r][e.seq] = e.type
<1>1. /\ log[r] \in Seq(EventTypes) /\ startedAt[r] \in Nat /\ e.attempt \in Nat /\ e.seq \in Nat
      /\ e.attempt <= startedAt[r]
      /\ e.attempt = startedAt[r] /\ status[r] # "deleted" =>
            e.seq \in 1..Len(log[r]) /\ log[r][e.seq] = e.type
  BY DEF IInv, TypeOK, Frames, Truth
<1>2. status[r] = "deleted" => status'[r] = "deleted"
  BY DeletedStays
<1>3. LogStep(r)
  BY LogSteps DEF IInv
<1>4. CASE Kept(r) \/ Inserted(r)
  BY <1>1, <1>2, <1>4 DEF Kept, Inserted
<1>5. CASE Restarted(r)
  BY <1>1, <1>5 DEF Restarted
<1>6. CASE Forgotten(r)
  BY <1>1, <1>6 DEF Forgotten
<1>7. CASE Logged(r)
  <2>1. PICK events \in {StartEvents, AnalysisEvents, FailedEvent} :
           startedAt'[r] = startedAt[r] /\ log'[r] = log[r] \o events
    BY <1>7 DEF Logged
  <2>2. \A i \in 1..Len(log[r]) :
           i \in 1..Len(log[r] \o events) /\ (log[r] \o events)[i] = log[r][i]
    BY <1>1, EndsAreKept
  <2>3. QED
    BY <1>1, <1>2, <2>1, <2>2
<1>8. QED
  BY <1>3, <1>4, <1>5, <1>6, <1>7 DEF LogStep

\* The frames of a client that its step leaves alone stay true.
LEMMA TruthKept ==
  ASSUME OrderInv, IInv, LostAckLimit = 0, [Next]_vars, NEW c \in Clients, TruthOf(c),
         got'[c] = got[c], stream'[c].run = stream[c].run,
         stream'[c].step = "sending" =>
            stream[c].step = "sending" /\ stream'[c].rows = stream[c].rows
  PROVE  TruthOf(c)'
<1>1. stream[c] \in StreamState /\ got[c] \in Seq(Frames) /\ OrderOf(c)
  BY DEF OrderInv, StreamTypeOK
<1>2. CASE stream[c].run = NoRun
  BY <1>1, <1>2 DEF OrderOf, TruthOf
<1>3. CASE stream[c].run # NoRun
  <2>1. stream[c].run \in Runs /\ stream[c].rows \in Seq(Frames)
    BY <1>1, <1>3 DEF StreamState
  <2>2. got[c] # <<>> => Last(got[c]) \in Frames
    BY <1>1, LastFacts
  <2>3. \A e \in Frames : Truth(stream[c].run, e) =>
           /\ e.attempt <= startedAt'[stream[c].run]
           /\ e.attempt = startedAt'[stream[c].run] /\ status'[stream[c].run] # "deleted" =>
                 /\ e.seq \in 1..Len(log'[stream[c].run])
                 /\ log'[stream[c].run][e.seq] = e.type
    BY <2>1, TruthStays
  <2>4. \A i \in 1..Len(stream[c].rows) : stream[c].rows[i] \in Frames
    BY <2>1
  <2>5. QED
    BY <2>2, <2>3, <2>4 DEF TruthOf, Truth, Last
<1>4. QED
  BY <1>2, <1>3

\* A poll reads true frames.
LEMMA TruthPoll ==
  ASSUME OrderInv, UNCHANGED vars, NEW c \in Clients, TruthOf(c), Poll(c)
  PROVE  TruthOf(c)'
<1> DEFINE r == stream[c].run
           rows == Newer(r, stream[c].seq)
<1>1. /\ stream[c] \in StreamState /\ got[c] \in Seq(Frames) /\ OrderOf(c) /\ TypeOK
      /\ stream[c].step = "polling" /\ got' = got
  BY DEF OrderInv, StreamTypeOK, Poll
<1>2. r \in Runs /\ stream[c].seq \in Nat /\ startedAt[r] \in Nat
  BY <1>1 DEF OrderOf, StreamState, TypeOK
<1>3. \A i \in 1..Len(rows) : Truth(r, rows[i])
  <2>1. \A i \in 1..Len(rows) :
           /\ stream[c].seq + i \in 1..Len(log[r])
           /\ rows[i] = [attempt |-> startedAt[r], seq |-> stream[c].seq + i,
                         type |-> log[r][stream[c].seq + i]]
    BY <1>1, <1>2, NewerFacts
  <2> HIDE DEF rows
  <2> SUFFICES ASSUME NEW i \in 1..Len(rows) PROVE Truth(r, rows[i])
    OBVIOUS
  <2>2. /\ stream[c].seq + i \in 1..Len(log[r])
        /\ rows[i] = [attempt |-> startedAt[r], seq |-> stream[c].seq + i,
                      type |-> log[r][stream[c].seq + i]]
    BY <2>1
  <2>3. rows[i].attempt = startedAt[r] /\ rows[i].seq = stream[c].seq + i
        /\ rows[i].type = log[r][stream[c].seq + i]
    BY <2>2
  <2>4. QED
    BY <1>2, <2>2, <2>3 DEF Truth
<1>4. PICK step \in {"checking", "sending"} :
        stream' = [stream EXCEPT ![c].rows = rows, ![c].step = step]
  BY DEF Poll
<1> HIDE DEF rows
<1>5. stream'[c].run = r /\ stream'[c].rows = rows
  BY <1>1, <1>4 DEF OrderInv, StreamTypeOK, StreamState
<1>6. UNCHANGED <<startedAt, status, log>>
  BY DEF vars, db, row
<1> HIDE DEF r
<1>7. QED
  BY <1>1, <1>3, <1>5, <1>6 DEF TruthOf, Truth, Last, r

\* The frame that is sent was read.
LEMMA TruthSend ==
  ASSUME OrderInv, UNCHANGED vars, NEW c \in Clients, TruthOf(c), Send(c)
  PROVE  TruthOf(c)'
<1> DEFINE r == stream[c].run
           rows == stream[c].rows
           rest == Tail(rows)
<1>1. /\ stream[c] \in StreamState /\ got[c] \in Seq(Frames) /\ RowsFollow(c)
      /\ stream[c].step = "sending"
  BY DEF OrderInv, StreamTypeOK, Send, OrderOf
<1>2. rows \in Seq(Frames) /\ rows # <<>>
  BY <1>1 DEF StreamState, RowsFollow
<1>3. /\ Head(rows) = rows[1] /\ rows[1] \in Frames /\ 1 \in 1..Len(rows)
      /\ \A i \in 1..Len(rest) : rest[i] = rows[i + 1] /\ i + 1 \in 1..Len(rows)
  BY <1>2
<1>4. PICK step, seq :
        stream' = [stream EXCEPT ![c].rows = rest, ![c].seq = seq, ![c].step = step]
  BY DEF Send
<1>5. got' = [got EXCEPT ![c] = Append(got[c], rows[1])]
  BY <1>3 DEF Send
<1>6. got'[c] = Append(got[c], rows[1])
  BY <1>5 DEF OrderInv, StreamTypeOK
<1>7. Last(got'[c]) = rows[1]
  <2>1. \A s \in Seq(Frames), e \in Frames : Append(s, e)[Len(Append(s, e))] = e
    OBVIOUS
  <2>2. QED
    BY <1>1, <1>3, <1>6, <2>1 DEF Last
<1> HIDE DEF rest
<1>8. stream'[c].run = r /\ stream'[c].rows = rest
  BY <1>1, <1>4 DEF OrderInv, StreamTypeOK, StreamState
<1>9. \A i \in 1..Len(rows) : Truth(r, rows[i])
  BY <1>1 DEF TruthOf
<1>10. UNCHANGED <<startedAt, status, log>>
  BY DEF vars, db, row
<1> HIDE DEF r, rows
<1>11. Truth(r, rows[1]) /\ \A i \in 1..Len(rest) : Truth(r, rest[i])
  BY <1>3, <1>9
<1>12. QED
  BY <1>7, <1>8, <1>10, <1>11 DEF TruthOf, Truth, Last

\* Every step keeps the frames true.
LEMMA TruthNext ==
  ASSUME LostAckLimit = 0
  PROVE  TruthInv /\ OrderInv' /\ IInv' /\ [StreamNext]_allVars => TruthInv'
<1> SUFFICES ASSUME TruthInv, OrderInv', IInv', [StreamNext]_allVars, NEW c \in Clients
             PROVE  TruthOf(c)'
  BY DEF TruthInv
<1>1. /\ OrderInv /\ IInv /\ TruthOf(c) /\ [Next]_vars
      /\ stream[c] \in StreamState /\ OrderOf(c) /\ got[c] \in Seq(Frames)
      /\ stream \in [Clients -> StreamState] /\ got \in [Clients -> Seq(Frames)]
  BY StepsAreWriters DEF TruthInv, OrderInv, StreamTypeOK
<1>2. CASE UNCHANGED <<stream, got>>
  BY <1>1, <1>2, TruthKept
<1>3. CASE StreamCrash
  <2>1. stream'[c].run = stream[c].run /\ stream'[c].step = "away" /\ got'[c] = got[c]
    BY <1>1, <1>3 DEF StreamCrash, StreamState
  <2>2. QED
    BY <1>1, <2>1, TruthKept
<1>4. ASSUME NEW d \in Clients, ClientStep(d), UNCHANGED vars
      PROVE  TruthOf(c)'
  <2>1. CASE d # c
    <3>1. stream'[c] = stream[c] /\ got'[c] = got[c]
      BY <1>1, <1>4, <2>1 DEF ClientStep, Generate, OpenStream, Reconnect, Connect, Drop, Poll,
         Send, Check
    <3>2. QED
      BY <1>1, <3>1, TruthKept
  <2>2. CASE d = c
    <3>1. CASE Poll(c) \/ Send(c)
      BY <1>1, <1>4, <3>1, TruthPoll, TruthSend
    <3>2. CASE Drop(c) \/ Check(c)
      <4>1. PICK step \in {"polling", "away"} : stream' = [stream EXCEPT ![c].step = step]
        BY <3>2 DEF Drop, Check
      <4>2. stream'[c].run = stream[c].run /\ stream'[c].step = step
        BY <1>1, <4>1 DEF StreamState
      <4>3. got' = got
        BY <3>2 DEF Drop, Check
      <4>4. QED
        BY <1>1, <4>2, <4>3, TruthKept
    <3>3. CASE \E u \in Users, r \in Runs : OpenStream(c, u, r)
      <4>1. got' = got /\ got[c] = <<>>
        BY <1>1, <3>3 DEF OpenStream, OrderOf
      <4>2. stream'[c].step = "polling"
        BY <1>1, <3>3 DEF OpenStream, Connect
      <4>3. QED
        BY <4>1, <4>2 DEF TruthOf
    <3>4. CASE Reconnect(c)
      <4>1. got' = got /\ stream'[c].run = stream[c].run /\ stream'[c].step = "polling"
        BY <1>1, <3>4 DEF Reconnect, Connect
      <4>2. QED
        BY <1>1, <4>1, TruthKept
    <3>5. QED
      BY <1>4, <2>2, <3>1, <3>2, <3>3, <3>4 DEF ClientStep, Generate
  <2>3. QED
    BY <2>1, <2>2
<1>5. QED
  BY <1>2, <1>3, <1>4 DEF StreamNext, WriterStep, allVars, streamVars

\* A client that was told how the run ended was told the truth: a true frame
\* that tells an end is the last one of the log, which tells the status.
LEMMA TruthIsTold == TruthInv => ToldTheTruth
<1> SUFFICES ASSUME TruthInv, NEW c \in Clients, Ended(c),
                    status[stream[c].run] # "deleted",
                    ~(startedAt[stream[c].run] > Last(got[c]).attempt)
             PROVE  status[stream[c].run] = Last(got[c]).type
  BY DEF ToldTheTruth, Last
<1> DEFINE r == stream[c].run
           e == Last(got[c])
<1>1. /\ stream[c] \in StreamState /\ got[c] \in Seq(Frames) /\ OrderOf(c) /\ got[c] # <<>>
      /\ e.type \in TerminalEvents
  BY DEF TruthInv, OrderInv, StreamTypeOK, Ended, Last
<1>2. r \in Runs /\ Truth(r, e)
  BY <1>1 DEF OrderOf, StreamState, TruthInv, TruthOf
<1>3. e.attempt \in Nat /\ startedAt[r] \in Nat /\ Len(log[r]) \in Nat
  BY <1>1, <1>2, LastFacts DEF TruthInv, IInv, TypeOK
<1>4. e.attempt = startedAt[r]
  BY <1>2, <1>3 DEF Truth
<1>5. e.seq \in 1..Len(log[r]) /\ log[r][e.seq] = e.type
  BY <1>2, <1>4 DEF Truth
<1>6. LogSays(log[r], status[r])
  BY <1>2 DEF TruthInv, IInv, LogTellsTheStatus
<1> HIDE DEF r, e
<1>7. status[r] \in TerminalEvents
  BY <1>1, <1>3, <1>5, <1>6 DEF LogSays
<1>8. e.seq = Len(log[r]) /\ log[r][Len(log[r])] = status[r]
  BY <1>1, <1>5, <1>6, <1>7 DEF LogSays
<1>9. QED
  BY <1>5, <1>8 DEF r, e

\* The writers keep their invariant whoever reads.
LEMMA WritersInvariant ==
  ASSUME LostAckLimit = 0
  PROVE  StreamSpec => []IInv
<1>1. StreamSpec => Spec
  BY StepsAreWriters, PTL DEF StreamSpec, StreamInit, Spec
<1>2. QED
  BY <1>1, InvariantHolds, PTL

\* However connections break, tasks fail and the process crashes: a client that
\* has been told how a run ended has been told the truth.
THEOREM ClientsLearnTheTruth ==
  ASSUME LostAckLimit = 0
  PROVE  StreamSpec => []ToldTheTruth
<1>1. StreamInit => OrderInv
  BY TypeInit DEF StreamInit, NoStream, OrderInv, StreamTypeOK, StreamState, OrderOf, InOrder
<1>2. StreamInit => \A c \in Clients : TruthOf(c)
  BY DEF StreamInit, NoStream, TruthOf
<1>3. StreamInit /\ IInv => TruthInv
  BY <1>1, <1>2 DEF TruthInv
<1>4. OrderInv /\ TypeOK' /\ [StreamNext]_allVars => OrderInv'
  BY OrderNext
<1>5. TruthInv /\ OrderInv' /\ IInv' /\ [StreamNext]_allVars => TruthInv'
  BY TruthNext
<1>6. TruthInv => OrderInv
  BY DEF TruthInv
<1>7. QED
  BY <1>3, <1>4, <1>5, <1>6, TruthIsTold, WritersInvariant, WritersTypeCorrect, PTL DEF StreamSpec
=============================================================================
