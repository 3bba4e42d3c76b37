---------------------------- MODULE CaseFile_proofs ----------------------------
(***************************************************************************)
(* Proofs about the case file: whatever the requests for it and the        *)
(* handlers of the runs do to each other, no index that is kept is stale.  *)
(***************************************************************************)
EXTENDS CaseFile, RunLifecycle_proofs, FiniteSetTheorems, Integers

-----------------------------------------------------------------------------
(* Removing elements of a sequence *)

\* Every element that is kept has a place of its own.
LEMMA PlacesAreTaken ==
    ASSUME NEW K \in SUBSET Nat, IsFiniteSet(K), NEW n \in 1..Cardinality(K)
    PROVE  \E i \in K : Cardinality({j \in K : j <= i}) = n
<1> DEFINE Upto(i) == {j \in K : j <= i}
           place == [i \in K |-> Cardinality(Upto(i))]
           places == 1..Cardinality(K)
<1>1. Cardinality(K) \in Nat
  BY FS_CardinalityType
<1>2. ASSUME NEW i \in K
      PROVE  IsFiniteSet(Upto(i)) /\ Cardinality(Upto(i)) \in places
  <2>1. Upto(i) \subseteq K /\ i \in Upto(i)
    OBVIOUS
  <2> HIDE DEF Upto
  <2>2. IsFiniteSet(Upto(i)) /\ Cardinality(Upto(i)) <= Cardinality(K)
    BY <2>1, FS_Subset
  <2>3. Cardinality(Upto(i)) \in Nat /\ Cardinality(Upto(i)) # 0
    BY <2>1, <2>2, FS_CardinalityType, FS_EmptySet
  <2> QED BY <1>1, <2>2, <2>3
<1>3. ASSUME NEW i \in K, NEW k \in K, i < k
      PROVE  Cardinality(Upto(i)) # Cardinality(Upto(k))
  <2>1. Upto(i) \subseteq Upto(k) /\ k \in Upto(k) /\ k \notin Upto(i)
    <3>1. \A j \in K : j <= i => j <= k
      BY <1>3
    <3>2. ~(k <= i) /\ k <= k
      BY <1>3
    <3> QED BY <3>1, <3>2
  <2>2. IsFiniteSet(Upto(k))
    BY <1>2
  <2> HIDE DEF Upto
  <2> QED BY <2>1, <2>2, FS_Subset
<1>4. place \in Injection(K, places)
  <2>1. place \in [K -> places]
    BY <1>2
  <2>2. ASSUME NEW i \in K, NEW k \in K, place[i] = place[k]
        PROVE  i = k
    <3>1. Cardinality(Upto(i)) = Cardinality(Upto(k))
      BY <2>2
    <3> HIDE DEF Upto
    <3>2. ~(i < k) /\ ~(k < i)
      BY <1>3, <3>1
    <3> QED BY <3>2
  <2> QED BY <2>1, <2>2 DEF Injection, IsInjective
<1>5. IsFiniteSet(places) /\ Cardinality(places) = Cardinality(K)
  BY <1>1, FS_Interval
<1>6. place \in Surjection(K, places)
  <2> HIDE DEF place, places
  <2> QED BY <1>4, <1>5, FS_Injection
<1>7. PICK i \in K : place[i] = n
  BY <1>6 DEF Surjection
<1> QED BY <1>7

LEMMA WithoutKeeps ==
    ASSUME NEW X, NEW s \in Seq(X), NEW S, NEW t, t = Without(s, S)
    PROVE  /\ t \in Seq(X)
           /\ (\E i \in DOMAIN s : s[i] \in S) => Len(t) + 1 <= Len(s)
           /\ \A n \in DOMAIN t : \E i \in DOMAIN s : t[n] = s[i] /\ s[i] \notin S
           /\ (\A i, j \in DOMAIN s : s[i].run = s[j].run => i = j) =>
                 \A n, m \in DOMAIN t : t[n].run = t[m].run => n = m
<1> DEFINE kept == {i \in DOMAIN s : s[i] \notin S}
           Place(i) == Cardinality({j \in kept : j <= i})
           At_(n) == CHOOSE i \in kept : Place(i) = n
<1>1. kept \in SUBSET Nat /\ IsFiniteSet(kept)
  <2>1. DOMAIN s = 1..Len(s) /\ Len(s) \in Nat
    OBVIOUS
  <2>2. IsFiniteSet(1..Len(s))
    BY <2>1, FS_Interval
  <2>3. kept \subseteq 1..Len(s)
    BY <2>1
  <2>4. kept \in SUBSET Nat
    BY <2>1, <2>3
  <2> HIDE DEF kept
  <2>5. IsFiniteSet(kept)
    BY <2>2, <2>3, FS_Subset
  <2> QED BY <2>4, <2>5
<1>2. Cardinality(kept) \in Nat
  BY <1>1, FS_CardinalityType
<1>3. \A n \in 1..Cardinality(kept) : At_(n) \in kept /\ Place(At_(n)) = n
  <2> TAKE n \in 1..Cardinality(kept)
  <2>1. \E i \in kept : Place(i) = n
    <3> HIDE DEF kept
    <3> QED BY <1>1, PlacesAreTaken
  <2> HIDE DEF kept
  <2> QED BY <2>1
<1>4. t = [n \in 1..Cardinality(kept) |-> s[At_(n)]]
  BY DEF Without
<1> HIDE DEF Place, At_
<1>5. t \in Seq(X)
  <2>1. \A n \in 1..Cardinality(kept) : s[At_(n)] \in X
    BY <1>3
  <2> QED BY <1>2, <1>4, <2>1
<1>6. DOMAIN t = 1..Cardinality(kept)
  BY <1>4
<1>7. \A n \in DOMAIN t : At_(n) \in DOMAIN s /\ t[n] = s[At_(n)] /\ s[At_(n)] \notin S
  BY <1>3, <1>4, <1>6
<1>8. ASSUME \A i, j \in DOMAIN s : s[i].run = s[j].run => i = j,
             NEW n \in DOMAIN t, NEW m \in DOMAIN t, t[n].run = t[m].run
      PROVE  n = m
  <2>1. At_(n) = At_(m)
    BY <1>7, <1>8
  <2> QED BY <1>3, <1>6, <2>1
<1>9. ASSUME NEW i \in DOMAIN s, s[i] \in S
      PROVE  Len(t) + 1 <= Len(s)
  <2>1. kept \subseteq DOMAIN s /\ kept # DOMAIN s
    BY <1>9
  <2>2. IsFiniteSet(DOMAIN s) /\ Cardinality(DOMAIN s) = Len(s) /\ Len(s) \in Nat
    <3>1. DOMAIN s = 1..Len(s) /\ Len(s) \in Nat
      OBVIOUS
    <3>2. \A n \in Nat : IsFiniteSet(1..n) /\ Cardinality(1..n) = n
      BY FS_Interval
    <3> QED BY <3>1, <3>2
  <2> HIDE DEF kept
  <2>3. Cardinality(kept) <= Cardinality(DOMAIN s) /\ Cardinality(kept) # Cardinality(DOMAIN s)
    BY <2>1, <2>2, FS_Subset
  <2>4. Len(t) = Cardinality(kept)
    BY <1>2, <1>4
  <2> QED BY <1>2, <2>2, <2>3, <2>4
<1> QED BY <1>5, <1>7, <1>8, <1>9

-----------------------------------------------------------------------------
(* The readers and the cache *)

ReaderSteps == {"idle", "analysis", "signals", "building", "remembering"}
ReaderState == [step : ReaderSteps, run : Runs \cup {NoRun}, version : Nat,
                quality : {"whole", "torn"}, answer : {"none", "whole", "torn", "error"}]
Index == [run : Runs, version : Nat, quality : {"whole", "torn"}]

\* A run that has completed keeps its version and its data until it is
\* deleted, and its id is never given again.
Fresh(index) ==
    \/ status[index.run] = "deleted"
    \/ /\ status[index.run] = "completed"
       /\ index.version = startedAt[index.run] /\ index.quality = "whole"

IndexOf(q) ==
    [run |-> reader[q].run, version |-> reader[q].version, quality |-> reader[q].quality]

ReadersOK ==
    \A q \in Readers :
        reader[q].step # "idle" => IndexOf(q) \in Index /\ Fresh(IndexOf(q))

CacheOK ==
    /\ cache \in Seq(Index)
    /\ Len(cache) <= CacheSize
    /\ \A i, j \in DOMAIN cache : cache[i].run = cache[j].run => i = j
    /\ \A i \in DOMAIN cache : Fresh(cache[i])

FileInv ==
    /\ reader \in [Readers -> ReaderState]
    /\ ReadersOK
    /\ CacheOK

\* The newest of a sequence that has one index of a run are such a sequence.
LEMMA NewestFit ==
    ASSUME NEW t \in Seq(Index), NEW u, u = Newest(t),
           \A i, j \in DOMAIN t : t[i].run = t[j].run => i = j
    PROVE  /\ u \in Seq(Index) /\ Len(u) <= CacheSize
           /\ \A i \in DOMAIN u : \E j \in DOMAIN t : u[i] = t[j]
           /\ \A i, j \in DOMAIN u : u[i].run = u[j].run => i = j
<1> DEFINE n == IF Len(t) > CacheSize THEN CacheSize ELSE Len(t)
           a == Len(t) - n
<1>1. n \in Nat /\ n <= CacheSize /\ n <= Len(t) /\ a \in Nat /\ a + n = Len(t)
  BY CacheAssumption
<1>2. u = SubSeq(t, a + 1, Len(t))
  BY DEF Newest
<1> HIDE DEF n, a
<1>3. u = [i \in 1..n |-> t[a + i]] /\ u \in Seq(Index) /\ Len(u) = n
  <2>1. Len(t) - (a + 1) + 1 = n
    BY <1>1
  <2>2. \A i \in 1..n : a + i \in 1..Len(t) /\ (a + 1) + i - 1 = a + i
    BY <1>1
  <2>3. u = [i \in 1..n |-> t[(a + 1) + i - 1]]
    BY <1>1, <1>2, <2>1
  <2>4. u = [i \in 1..n |-> t[a + i]]
    BY <2>2, <2>3
  <2>5. \A i \in 1..n : t[a + i] \in Index
    BY <2>2
  <2> QED BY <1>1, <2>4, <2>5
<1>4. \A i \in DOMAIN u : a + i \in DOMAIN t /\ u[i] = t[a + i]
  BY <1>1, <1>3
<1>5. ASSUME NEW i \in DOMAIN u, NEW j \in DOMAIN u, u[i].run = u[j].run
      PROVE  i = j
  <2>1. a + i = a + j
    BY <1>4, <1>5
  <2> QED BY <1>1, <1>3, <2>1
<1> QED BY <1>1, <1>3, <1>4, <1>5

\* Appending an index of a run that has none.
LEMMA OneMore ==
    ASSUME NEW t \in Seq(Index), NEW index \in Index,
           \A i, j \in DOMAIN t : t[i].run = t[j].run => i = j,
           \A i \in DOMAIN t : t[i].run # index.run
    PROVE  /\ Append(t, index) \in Seq(Index) /\ Len(Append(t, index)) = Len(t) + 1
           /\ \A i, j \in DOMAIN Append(t, index) :
                 Append(t, index)[i].run = Append(t, index)[j].run => i = j
           /\ \A i \in DOMAIN Append(t, index) :
                 Append(t, index)[i] = index \/ \E j \in DOMAIN t : Append(t, index)[i] = t[j]
<1> DEFINE u == Append(t, index)
<1>1. u \in Seq(Index) /\ Len(u) = Len(t) + 1 /\ u[Len(t) + 1] = index
  OBVIOUS
<1>2. \A i \in 1..Len(t) : u[i] = t[i]
  OBVIOUS
<1>3. DOMAIN t = 1..Len(t) /\ DOMAIN u = 1..(Len(t) + 1) /\ Len(t) \in Nat
  BY <1>1
<1> HIDE DEF u
<1>4. \A i \in DOMAIN u : i \in DOMAIN t \/ i = Len(t) + 1
  BY <1>3
<1>5. \A i, j \in DOMAIN u : u[i].run = u[j].run => i = j
  BY <1>1, <1>2, <1>3, <1>4
<1>6. \A i \in DOMAIN u : u[i] = index \/ \E j \in DOMAIN t : u[i] = t[j]
  BY <1>1, <1>2, <1>3, <1>4
<1> QED BY <1>1, <1>5, <1>6 DEF u

\* Remembering an index keeps the cache in order.
LEMMA CacheRemembers ==
    ASSUME CacheOK, NEW index \in Index, Fresh(index), cache' = Remember(index),
           UNCHANGED <<status, startedAt>>
    PROVE  CacheOK'
<1> DEFINE t == Without(cache, CachedFor(index.run))
<1>1. /\ t \in Seq(Index)
      /\ \A n \in DOMAIN t : \E i \in DOMAIN cache : t[n] = cache[i] /\ cache[i] \notin CachedFor(index.run)
      /\ \A n, m \in DOMAIN t : t[n].run = t[m].run => n = m
  BY WithoutKeeps DEF CacheOK
<1>2. \A n \in DOMAIN t : t[n].run # index.run
  BY <1>1 DEF CachedFor, Cached
<1>3. \A n \in DOMAIN t : Fresh(t[n])
  BY <1>1 DEF CacheOK
<1> HIDE DEF t
<1> DEFINE u == Append(t, index)
<1>4. /\ u \in Seq(Index)
      /\ \A i, j \in DOMAIN u : u[i].run = u[j].run => i = j
      /\ \A i \in DOMAIN u : u[i] = index \/ \E j \in DOMAIN t : u[i] = t[j]
  BY <1>1, <1>2, OneMore
<1>5. \A i \in DOMAIN u : Fresh(u[i])
  BY <1>3, <1>4
<1>6. cache' = Newest(u)
  BY DEF Remember, t
<1> HIDE DEF u
<1>7. /\ cache' \in Seq(Index) /\ Len(cache') <= CacheSize
      /\ \A i \in DOMAIN cache' : \E j \in DOMAIN u : cache'[i] = u[j]
      /\ \A i, j \in DOMAIN cache' : cache'[i].run = cache'[j].run => i = j
  BY <1>4, <1>6, NewestFit
<1>8. \A i \in DOMAIN cache' : Fresh(cache'[i])
  BY <1>5, <1>7
<1> QED BY <1>7, <1>8 DEF CacheOK, Fresh

\* Nor does it get out of order when an index is used again.
LEMMA CacheTouched ==
    ASSUME CacheOK, NEW index \in Cached, cache' = Touch(index), UNCHANGED <<status, startedAt>>
    PROVE  CacheOK'
<1> DEFINE S == {index}
           t == Without(cache, S)
           u == Append(t, index)
<1>1. PICK k \in DOMAIN cache : cache[k] = index
  BY DEF Cached
<1>2. index \in Index /\ Fresh(index)
  BY <1>1 DEF CacheOK
<1>3. /\ t \in Seq(Index) /\ Len(t) + 1 <= Len(cache)
      /\ \A n \in DOMAIN t : \E i \in DOMAIN cache : t[n] = cache[i] /\ cache[i] \notin S
      /\ \A n, m \in DOMAIN t : t[n].run = t[m].run => n = m
  <2>1. \E i \in DOMAIN cache : cache[i] \in S
    BY <1>1
  <2>2. cache \in Seq(Index) /\ \A i, j \in DOMAIN cache : cache[i].run = cache[j].run => i = j
    BY DEF CacheOK
  <2>3. t = Without(cache, S)
    OBVIOUS
  <2> HIDE DEF t, S
  <2> QED BY <2>1, <2>2, <2>3, WithoutKeeps
<1>4. \A n \in DOMAIN t : t[n].run # index.run /\ Fresh(t[n])
  BY <1>1, <1>3 DEF CacheOK
<1> HIDE DEF t
<1>5. /\ u \in Seq(Index) /\ Len(u) = Len(t) + 1
      /\ \A i, j \in DOMAIN u : u[i].run = u[j].run => i = j
      /\ \A i \in DOMAIN u : u[i] = index \/ \E j \in DOMAIN t : u[i] = t[j]
  BY <1>2, <1>3, <1>4, OneMore
<1>6. \A i \in DOMAIN u : Fresh(u[i])
  BY <1>2, <1>4, <1>5
<1>7. cache' = u
  BY DEF Touch, t
<1> HIDE DEF u
<1>8. Len(u) <= CacheSize
  BY <1>3, <1>5, CacheAssumption DEF CacheOK
<1> QED BY <1>5, <1>6, <1>7, <1>8 DEF CacheOK, Fresh

\* What is fresh stays so, whatever happens to the run.
LEMMA FreshStays ==
    ASSUME IInv, LostAckLimit = 0, [Next]_vars, NEW index \in Index, Fresh(index)
    PROVE  Fresh(index)'
<1> DEFINE r == index.run
<1>1. r \in Runs
  BY DEF Index
<1>2. \/ Untouched(r) \/ Created(r) \/ Begun(r) \/ Advanced(r) \/ Erased(r)
  BY <1>1, StepsOnRuns DEF StepOnRuns
<1>3. CASE Untouched(r)
  BY <1>3 DEF Fresh, Untouched
<1>4. CASE Erased(r)
  BY <1>4 DEF Fresh, Erased
<1>5. ~Created(r) /\ ~Begun(r) /\ ~Advanced(r)
  BY DEF Fresh, Created, Begun, Advanced, Startable
<1> QED BY <1>2, <1>3, <1>4, <1>5

\* The handlers of the runs leave the readers and the cache as they are.
LEMMA WritersStep ==
    ASSUME IInv, LostAckLimit = 0, FileInv, [Next]_vars, UNCHANGED fileVars
    PROVE  FileInv'
<1>1. \A index \in Index : Fresh(index) => Fresh(index)'
  BY FreshStays
<1>2. ASSUME NEW q \in Readers, reader[q].step # "idle"
      PROVE  IndexOf(q)' \in Index /\ Fresh(IndexOf(q))'
  <2> DEFINE index == IndexOf(q)
  <2>1. index \in Index /\ Fresh(index)
    BY <1>2 DEF FileInv, ReadersOK
  <2>2. IndexOf(q)' = index
    BY DEF IndexOf, fileVars
  <2>3. Fresh(index) => /\ status'[index.run] = "deleted" \/ (status'[index.run] = "completed"
                              /\ index.version = startedAt'[index.run] /\ index.quality = "whole")
    BY <1>1, <2>1 DEF Fresh
  <2> QED BY <2>1, <2>2, <2>3 DEF Fresh
<1>3. ReadersOK'
  BY <1>2 DEF FileInv, ReadersOK, fileVars
<1>4. CacheOK'
  <2>1. \A i \in DOMAIN cache : cache[i] \in Index
    BY DEF FileInv, CacheOK
  <2> QED BY <1>1, <2>1 DEF FileInv, CacheOK, fileVars, Fresh
<1> QED BY <1>3, <1>4 DEF FileInv, fileVars

\* Every request for a case file leaves it so.
LEMMA ReadersMove ==
    ASSUME IInv, FileInv, NEW q \in Readers, ReaderStep(q), UNCHANGED vars
    PROVE  FileInv'
<1>1. UNCHANGED <<status, startedAt>>
  BY DEF vars, db, row
<1>2. \A index : Fresh(index)' <=> Fresh(index)
  BY <1>1 DEF Fresh
<1>3. CacheOK /\ UNCHANGED cache => CacheOK'
  BY <1>2 DEF CacheOK
<1>4. ASSUME NEW state \in ReaderState, reader' = [reader EXCEPT ![q] = state],
             state.step # "idle" =>
                LET index == [run |-> state.run, version |-> state.version, quality |-> state.quality]
                IN  index \in Index /\ Fresh(index)
      PROVE  reader' \in [Readers -> ReaderState] /\ ReadersOK'
  <2>1. /\ reader' \in [Readers -> ReaderState] /\ reader'[q] = state
        /\ \A p \in Readers \ {q} : reader'[p] = reader[p]
    BY <1>4 DEF FileInv
  <2>2. ASSUME NEW p \in Readers, reader'[p].step # "idle"
        PROVE  IndexOf(p)' \in Index /\ Fresh(IndexOf(p))'
    <3>1. CASE p = q
      <4>1. IndexOf(p)' = [run |-> state.run, version |-> state.version, quality |-> state.quality]
        BY <2>1, <3>1 DEF IndexOf
      <4> QED BY <1>1, <1>4, <2>1, <2>2, <3>1, <4>1 DEF Fresh
    <3>2. CASE p # q
      <4>1. reader'[p] = reader[p] /\ IndexOf(p)' = IndexOf(p)
        BY <2>1, <3>2 DEF IndexOf
      <4> QED BY <1>1, <2>2, <4>1 DEF FileInv, ReadersOK, Fresh
    <3> QED BY <3>1, <3>2
  <2> QED BY <2>1, <2>2 DEF ReadersOK
<1>5. ASSUME NEW answer \in {"none", "whole", "torn", "error"}, Answer(q, answer)
      PROVE  reader' \in [Readers -> ReaderState] /\ ReadersOK'
  <2> DEFINE state == [NoReader EXCEPT !.answer = answer]
  <2>1. state \in ReaderState /\ state.step = "idle" /\ reader' = [reader EXCEPT ![q] = state]
    BY <1>5 DEF Answer, NoReader, ReaderState, ReaderSteps
  <2> HIDE DEF state
  <2> QED BY <1>4, <2>1
<1>6. ASSUME NEW u \in Users, NEW r \in Runs, OpenCaseFile(q, u, r)
      PROVE  FileInv'
  <2>1. ASSUME NEW index \in Hit(r, startedAt[r]), Answer(q, index.quality), cache' = Touch(index)
        PROVE  FileInv'
    <3>1. index \in Cached /\ index \in Index
      BY DEF Hit, Cached, FileInv, CacheOK
    <3>2. index.quality \in {"none", "whole", "torn", "error"}
      BY <3>1 DEF Index
    <3> QED BY <1>1, <1>5, <2>1, <3>1, <3>2, CacheTouched DEF FileInv
  <2> DEFINE state == [NoReader EXCEPT !.step = "analysis", !.run = r, !.version = startedAt[r]]
  <2>2. CASE UNCHANGED cache /\ reader' = [reader EXCEPT ![q] = state]
    <3>1. /\ state.step = "analysis" /\ state.run = r
          /\ state.version = startedAt[r] /\ state.quality = "whole"
      BY DEF NoReader
    <3>2. state \in ReaderState
      BY DEF NoReader, ReaderState, ReaderSteps, IInv, TypeOK
    <3> DEFINE index == [run |-> r, version |-> startedAt[r], quality |-> "whole"]
    <3>3. index \in Index
      BY DEF Index, IInv, TypeOK
    <3>4. Fresh(index)
      BY <1>6 DEF Fresh, OpenCaseFile, CanRead
    <3> HIDE DEF state
    <3> QED BY <1>3, <1>4, <2>2, <3>1, <3>2, <3>3, <3>4 DEF FileInv
  <2> QED BY <1>6, <2>1, <2>2 DEF OpenCaseFile
<1>7. ASSUME NEW step \in ReaderSteps, NEW quality \in {"whole", "torn"}, Read(q, step, quality),
             UNCHANGED cache, reader[q].step # "idle",
             quality = "whole" \/ status[reader[q].run] = "deleted"
      PROVE  FileInv'
  <2> DEFINE state == [reader[q] EXCEPT !.step = step, !.quality = quality]
             index == [run |-> reader[q].run, version |-> reader[q].version, quality |-> quality]
  <2>1. /\ state \in ReaderState /\ state.run = reader[q].run
        /\ state.version = reader[q].version /\ state.quality = quality
    BY DEF FileInv, ReaderState
  <2>2. reader' = [reader EXCEPT ![q] = state]
    BY <1>7, <2>1 DEF Read, FileInv
  <2>3. IndexOf(q) \in Index /\ Fresh(IndexOf(q))
    BY <1>7 DEF FileInv, ReadersOK
  <2>4. index \in Index
    BY <2>3 DEF Index, IndexOf
  <2>5. Fresh(index)
    BY <1>7, <2>3 DEF Fresh, IndexOf
  <2> HIDE DEF state
  <2> QED BY <1>3, <1>4, <1>7, <2>1, <2>2, <2>4, <2>5 DEF FileInv
<1>8. ASSUME reader[q].step # "idle"
      PROVE  /\ reader[q].run \in Runs /\ IndexOf(q) \in Index /\ Fresh(IndexOf(q))
             /\ reader[q].quality \in {"whole", "torn"}
             /\ reader[q].quality = "torn" => status[reader[q].run] = "deleted"
             /\ status[reader[q].run] # "deleted" =>
                   /\ analysis[reader[q].run] # "none" /\ dataset[reader[q].run] = "written"
  <2>1. IndexOf(q) \in Index /\ Fresh(IndexOf(q))
    BY <1>8 DEF FileInv, ReadersOK
  <2>2. /\ reader[q].run \in Runs /\ reader[q].quality \in {"whole", "torn"}
        /\ \/ status[reader[q].run] = "deleted"
           \/ status[reader[q].run] = "completed" /\ reader[q].quality = "whole"
    BY <2>1 DEF IndexOf, Index, Fresh
  <2> QED BY <2>1, <2>2 DEF IInv, RowsAgree, HasRow
<1>9. CASE ReadAnalysis(q)
  <2>1. reader[q].step # "idle" /\ UNCHANGED cache
    BY <1>9 DEF ReadAnalysis, Reading
  <2>2. CASE Answer(q, "error")
    BY <1>3, <1>5, <2>1, <2>2 DEF FileInv
  <2>3. CASE Read(q, "signals", "whole")
    BY <1>7, <2>1, <2>3 DEF ReaderSteps
  <2> QED BY <1>9, <2>2, <2>3 DEF ReadAnalysis
<1>10. CASE ReadSignals(q)
  <2>1. reader[q].step # "idle" /\ UNCHANGED cache
    BY <1>10 DEF ReadSignals, Reading
  <2> QED BY <1>7, <1>8, <1>10, <2>1 DEF ReadSignals, ReaderSteps
<1>11. CASE Build(q)
  <2>1. reader[q].step # "idle" /\ UNCHANGED cache
    BY <1>11 DEF Build, Reading
  <2> QED BY <1>7, <1>8, <1>11, <2>1 DEF Build, ReaderSteps
<1>12. CASE RememberIndex(q)
  <2>1. reader[q].step # "idle" /\ Answer(q, reader[q].quality) /\ cache' = Remember(IndexOf(q))
    BY <1>12 DEF RememberIndex, Reading, IndexOf
  <2> DEFINE index == IndexOf(q)
  <2>2. index \in Index /\ Fresh(index) /\ cache' = Remember(index)
    BY <1>8, <2>1
  <2>3. reader[q].quality \in {"none", "whole", "torn", "error"}
    BY <1>8, <2>1
  <2> HIDE DEF index
  <2> QED BY <1>1, <1>5, <2>1, <2>2, <2>3, CacheRemembers DEF FileInv
<1> QED BY <1>6, <1>9, <1>10, <1>11, <1>12 DEF ReaderStep, Load

-----------------------------------------------------------------------------
(* Theorems *)

LEMMA FileInvInit == FileInit => FileInv
<1> SUFFICES ASSUME FileInit PROVE FileInv
  OBVIOUS
<1>1. reader = [q \in Readers |-> NoReader] /\ cache = <<>>
  BY DEF FileInit
<1>2. NoReader \in ReaderState /\ NoReader.step = "idle"
  BY DEF NoReader, ReaderState, ReaderSteps
<1>3. reader \in [Readers -> ReaderState] /\ ReadersOK
  BY <1>1, <1>2 DEF ReadersOK
<1>4. CacheOK
  BY <1>1, CacheAssumption DEF CacheOK
<1> QED BY <1>3, <1>4 DEF FileInv

\* A crash takes the requests and the cache with it.
LEMMA FilesAreForgotten == FileCrash => FileInv'
<1> SUFFICES ASSUME FileCrash PROVE FileInv'
  OBVIOUS
<1>1. reader' = [q \in Readers |-> NoReader] /\ cache' = <<>>
  BY DEF FileCrash
<1>2. NoReader \in ReaderState /\ NoReader.step = "idle"
  BY DEF NoReader, ReaderState, ReaderSteps
<1>3. reader' \in [Readers -> ReaderState] /\ ReadersOK'
  BY <1>1, <1>2 DEF ReadersOK
<1>4. CacheOK'
  BY <1>1, CacheAssumption DEF CacheOK
<1> QED BY <1>3, <1>4 DEF FileInv

LEMMA FileInvNext ==
    ASSUME IInv, LostAckLimit = 0, FileInv, [FileNext]_allVars
    PROVE  IInv' /\ FileInv'
<1>1. CASE UNCHANGED allVars
  <2>1. [Next]_vars /\ UNCHANGED fileVars
    BY <1>1 DEF allVars
  <2> QED BY <2>1, InvNext, WritersStep
<1>2. ASSUME NEW q \in Readers, ReaderStep(q), UNCHANGED vars
      PROVE  IInv' /\ FileInv'
  BY <1>2, InvNext, ReadersMove
<1>3. CASE WriterStep
  <2>1. [Next]_vars /\ UNCHANGED fileVars
    BY <1>3 DEF WriterStep, Next
  <2> QED BY <2>1, InvNext, WritersStep
<1>4. CASE FileCrash
  <2>1. [Next]_vars
    BY <1>4 DEF FileCrash, Next
  <2> QED BY <1>4, <2>1, InvNext, FilesAreForgotten
<1> QED BY <1>1, <1>2, <1>3, <1>4 DEF FileNext

\* The handlers and the requests of get_case_index together: the handlers keep
\* what they keep without the requests, and every index that a request holds
\* or the cache keeps is that of a deleted run, or what is stored now.
THEOREM FileInvariant ==
    ASSUME LostAckLimit = 0
    PROVE  FileSpec => [](IInv /\ FileInv)
<1>1. FileInit => IInv /\ FileInv
  BY InvInit, FileInvInit DEF FileInit
<1>2. IInv /\ FileInv /\ [FileNext]_allVars => IInv' /\ FileInv'
  BY FileInvNext
<1> QED BY <1>1, <1>2, PTL DEF FileSpec

\* What the handlers promise without the requests for case files they promise
\* with them: a request never writes a row, a result or a table.
THEOREM ReadersAreHarmless == FileSpec => Spec
<1>1. FileInit => Init
  BY DEF FileInit
<1>2. [FileNext]_allVars => [Next]_vars
  BY DEF FileNext, WriterStep, FileCrash, Next, allVars
<1> QED BY <1>1, <1>2, PTL DEF FileSpec, Spec

\* The cache of index.py, filled by worker threads while runs are completed and
\* deleted: one index for each run, never more than CacheSize, and none that is
\* of another version or torn while its run is still there.
THEOREM CacheStaysCurrent ==
    ASSUME LostAckLimit = 0
    PROVE  FileSpec => []CacheIsCurrent
<1>1. ASSUME FileInv PROVE CacheIsCurrent
  <2>1. Len(cache) <= CacheSize
    BY <1>1 DEF FileInv, CacheOK
  <2>2. ASSUME NEW r \in Runs, NEW index \in CachedFor(r)
        PROVE  /\ Cardinality({i \in DOMAIN cache : cache[i].run = r}) = 1
               /\ HasRow(r) => /\ status[r] = "completed"
                              /\ index.version = startedAt[r]
                              /\ index.quality = "whole"
    <3>1. PICK k \in DOMAIN cache : cache[k] = index /\ index.run = r
      BY DEF CachedFor, Cached
    <3>2. {i \in DOMAIN cache : cache[i].run = r} = {k}
      BY <1>1, <3>1 DEF FileInv, CacheOK
    <3>3. Cardinality({k}) = 1
      BY FS_Singleton
    <3>4. Fresh(index)
      BY <1>1, <3>1 DEF FileInv, CacheOK
    <3> QED BY <3>1, <3>2, <3>3, <3>4 DEF Fresh, HasRow
  <2> QED BY <2>1, <2>2 DEF CacheIsCurrent
<1> QED BY <1>1, FileInvariant, PTL

=============================================================================
