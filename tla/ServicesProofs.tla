---------------------------- MODULE ServicesProofs ----------------------------
(***************************************************************************)
(* Proofs about the services around the ledger, for every value of their   *)
(* constants: the signature checker, the buffers of the UDP socket, the    *)
(* observers of payment_wait, the list of peers and the sequence numbers   *)
(* of votes.                                                               *)
(***************************************************************************)
EXTENDS SignatureChecker, UdpBuffer, PaymentObserver, Peers, VoteSequence, FiniteSetTheorems, TLAPS
-----------------------------------------------------------------------------
(* The signature checker: how verify splits a set.  The quotients and       *)
(* remainders it computes are related by multiplication only, so each       *)
(* product gets a name.                                                     *)

\* Quotient and remainder.
LEMMA Division ==
    ASSUME NEW n \in Nat, NEW d \in Nat \ {0}
    PROVE  /\ n \div d \in Nat /\ n % d \in 0 .. d - 1
           /\ n = d * (n \div d) + (n % d)
  OBVIOUS

LEMMA ThreadsNat == num_threads \in Nat
  BY SplitAssumption, FS_CardinalityType, Zenon DEF num_threads

\* The release_assert of verify, and the pool's part.
LEMMA SplitSizes ==
    ASSUME NEW size \in Nat, Threaded(size)
    PROVE  /\ batches_thread(size) \in Nat \ {0} /\ size_calling_thread(size) \in Nat
           /\ batches_thread(size) * BatchSize + size_calling_thread(size) = size
  <1> DEFINE n == size \div BatchSize
             r == size % BatchSize
             q == base_batches(size)
             o == overflow_batches(size)
             t == num_threads
  <1>1. t \in Nat \ {0}
    BY ThreadsNat DEF Threaded
  <1>2. n \in Nat /\ r \in Nat /\ r < BatchSize /\ size = BatchSize * n + r
    <2>1. /\ BatchSize \in Nat \ {0} /\ n \in Nat /\ r \in 0 .. BatchSize - 1
          /\ size = BatchSize * n + r
      BY SplitAssumption, Division, Zenon
    <2> HIDE DEF n, r
    <2> QED  BY <2>1
  <1>3. /\ q \in Nat /\ o \in Nat /\ o < t + 1 /\ n = (t + 1) * q + o
    <2>1. t + 1 \in Nat \ {0}
      BY <1>1
    <2>2. /\ n \div (t + 1) \in Nat /\ n % (t + 1) \in 0 .. (t + 1) - 1
          /\ n = (t + 1) * (n \div (t + 1)) + (n % (t + 1))
      BY <1>2, <2>1, Division, Zenon
    <2>3. q = n \div (t + 1) /\ o = n % (t + 1)
      BY Zenon DEF base_batches, overflow_batches
    <2> HIDE DEF n, q, o, t
    <2>4. n % (t + 1) \in Nat /\ n % (t + 1) < t + 1
      BY <2>1, <2>2, <1>1
    <2> QED  BY <2>2, <2>3, <2>4, Zenon
  <1>4. n >= 2
    <2>1. BatchSize * n + r >= 2 * BatchSize
      BY <1>2, SplitAssumption DEF Threaded
    <2>2. CASE n = 0
      BY <1>2, <2>1, <2>2, SplitAssumption
    <2>3. CASE n = 1
      BY <1>2, <2>1, <2>3, SplitAssumption
    <2> QED  BY <1>2, <2>2, <2>3
  <1>5. /\ size_calling_thread(size) = q * BatchSize + r + (IF o > 0 THEN BatchSize ELSE 0)
        /\ batches_thread(size) = q * t + (IF o > 0 THEN o - 1 ELSE 0)
    BY Zenon DEF size_calling_thread, batches_thread
  <1> HIDE DEF n, r, q, o, t
  <1>6. q * t \in Nat /\ q * BatchSize \in Nat /\ (q * t) * BatchSize \in Nat
    BY <1>1, <1>3, SplitAssumption
  <1>7. n = q * t + q + o
    BY <1>1, <1>3
  <1>8. size = (q * t) * BatchSize + q * BatchSize + o * BatchSize + r
    BY <1>1, <1>2, <1>3, <1>6, <1>7, SplitAssumption
  <1>9. CASE o = 0
    <2>1. q # 0
      BY <1>1, <1>3, <1>4, <1>7, <1>9
    <2>2. q * t # 0
      BY <1>1, <1>3, <2>1
    <2> QED  BY <1>2, <1>3, <1>5, <1>6, <1>8, <1>9, <2>2, SplitAssumption
  <1>10. CASE o > 0
    <2>1. q * t + o - 1 # 0
      <3>1. CASE q = 0
        BY <1>1, <1>3, <1>4, <1>7, <3>1
      <3>2. CASE q # 0
        <4>1. q * t # 0
          BY <1>1, <1>3, <3>2
        <4> QED  BY <1>3, <1>6, <1>10, <4>1
      <3> QED  BY <3>1, <3>2, Zenon
    <2>2. (q * t + o - 1) * BatchSize = (q * t) * BatchSize + o * BatchSize - BatchSize
      BY <1>3, <1>6, SplitAssumption
    <2>3. o * BatchSize \in Nat
      BY <1>3, SplitAssumption
    <2>4. /\ batches_thread(size) = q * t + o - 1
          /\ size_calling_thread(size) = q * BatchSize + r + BatchSize
      BY <1>5, <1>10, <1>3, <1>6, Zenon
    <2> QED  BY <1>2, <1>3, <1>6, <1>8, <1>10, <2>1, <2>2, <2>3, <2>4, SplitAssumption
  <1> QED  BY <1>3, <1>9, <1>10

\* A set that is split leaves the pool at least one batch, without which the promise verify
\* waits for is never set.  This is what the cutoff of two batches is for.
THEOREM SplitUsesPool ==
    ASSUME NEW size \in Nat, Threaded(size)
    PROVE  batches_thread(size) >= 1
  BY SplitSizes

\* The batches of the pool and the caller's part are a partition of the set: each
\* verification is written by one thread, and none is left out.
THEOREM SplitPartitions ==
    ASSUME NEW size \in Nat, Threaded(size)
    PROVE  /\ \A i \in 1 .. size :
                 i \in OfCaller(size) \/ \E b \in 1 .. batches_thread(size) : i \in OfBatch(b)
           /\ \A b \in 1 .. batches_thread(size) :
                 OfBatch(b) \subseteq 1 .. size /\ OfBatch(b) \cap OfCaller(size) = {}
           /\ \A b, c \in 1 .. batches_thread(size) : b # c => OfBatch(b) \cap OfBatch(c) = {}
  <1> DEFINE k == batches_thread(size)
             own == size_calling_thread(size)
  <1>1. k \in Nat \ {0} /\ own \in Nat /\ k * BatchSize + own = size
    BY SplitSizes, Zenon
  <1>2. k * BatchSize \in Nat /\ OfCaller(size) = k * BatchSize + 1 .. size
    BY <1>1, SplitAssumption DEF OfCaller
  <1> HIDE DEF k, own
  <1>3. \A b \in 1 .. k : b * BatchSize <= k * BatchSize /\ (b - 1) * BatchSize >= 0
    BY <1>1, SplitAssumption
  <1>4. ASSUME NEW i \in 1 .. size, i \notin OfCaller(size)
        PROVE  \E b \in 1 .. k : i \in OfBatch(b)
    <2>1. i - 1 \in Nat /\ i - 1 < k * BatchSize
      BY <1>1, <1>2, <1>4
    <2> DEFINE d == (i - 1) \div BatchSize
    <2>2. d \in Nat /\ i - 1 = BatchSize * d + ((i - 1) % BatchSize) /\ (i - 1) % BatchSize \in 0 .. BatchSize - 1
      BY <2>1, SplitAssumption, Division, Zenon
    <2> HIDE DEF d
    <2>3. BatchSize * d < k * BatchSize
      BY <2>1, <2>2, <1>2, SplitAssumption
    <2>4. d < k
      BY <2>2, <2>3, <1>1, SplitAssumption
    <2>5. i \in d * BatchSize + 1 .. (d + 1) * BatchSize
      BY <2>1, <2>2, SplitAssumption
    <2>6. d + 1 \in 1 .. k /\ i \in OfBatch(d + 1)
      BY <2>2, <2>4, <2>5, <1>1 DEF OfBatch
    <2> QED  BY <2>6, Zenon
  <1>5. ASSUME NEW b \in 1 .. k
        PROVE  OfBatch(b) \subseteq 1 .. size /\ OfBatch(b) \cap OfCaller(size) = {}
    BY <1>1, <1>2, <1>3, SplitAssumption DEF OfBatch
  <1>6. ASSUME NEW b \in 1 .. k, NEW c \in 1 .. k, b < c
        PROVE  OfBatch(b) \cap OfBatch(c) = {}
    <2>1. b * BatchSize <= (c - 1) * BatchSize
      BY <1>6, <1>1, SplitAssumption
    <2> QED  BY <2>1, <1>1, SplitAssumption DEF OfBatch
  <1>7. \A b, c \in 1 .. k : b # c => OfBatch(b) \cap OfBatch(c) = {}
    BY <1>1, <1>6
  <1> QED  BY <1>4, <1>5, <1>7, Zenon DEF k

-----------------------------------------------------------------------------
(* The signature checker: the batches of a set under way are in the pool or *)
(* verified.                                                                *)

Pool == InPoolNow \ {NoJob}

\* The facts about a caller rest on its own set and its batches in the pool.
LEMMA SameLeft ==
    ASSUME NEW c \in Callers, verify'[c].size = verify[c].size,
           \A b : [caller |-> c, batch |-> b] \in Pool' <=> [caller |-> c, batch |-> b] \in Pool
    PROVE  Batches(c)' = Batches(c) /\ Left(c)' = Left(c)
<1>1. Batches(c)' = Batches(c)
  BY Zenon DEF Batches, batches_thread, base_batches, overflow_batches
<1>2. \A b : [caller |-> c, batch |-> b] # NoJob
  BY Zenon DEF NoJob, Callers
<1> QED BY <1>1, <1>2, Zenon DEF Left, Pool

\* The pool is the jobs that wait and those that run.
LEMMA InPool ==
    \A j : j \in Pool <=> /\ j # NoJob
                          /\ (\E i \in DOMAIN jobs : jobs[i] = j) \/ (\E t \in PoolThread : running[t] = j)
  BY Zenon DEF Pool, InPoolNow

LEMMA InPoolNext ==
    \A j : j \in Pool' <=> /\ j # NoJob
                           /\ (\E i \in DOMAIN jobs' : jobs'[i] = j) \/ (\E t \in PoolThread : running'[t] = j)
  BY Zenon DEF Pool, InPoolNow

LEMMA PoolOfJobs == CheckerTypes => Pool \subseteq Job
  BY DEF CheckerTypes, Pool, InPoolNow

\* A step that leaves the pool alone keeps each batch in one place.
LEMMA JobsKept ==
    ASSUME JobsInv, UNCHANGED <<jobs, running>>,
           \A j \in Pool : UnderWay(j.caller)' /\ verify'[j.caller].size = verify[j.caller].size
    PROVE  JobsInv' /\ Pool' = Pool
<1>1. Pool' = Pool
  BY Zenon DEF Pool, InPoolNow
<1>2. \A j \in Pool' : UnderWay(j.caller)' /\ j.batch \in Batches(j.caller)'
  BY <1>1, Zenon DEF JobsInv, Pool, Batches, batches_thread, base_batches, overflow_batches
<1> QED BY <1>1, <1>2, Zenon DEF JobsInv, Pool

\* A step of which a caller sees nothing keeps what holds of its set.
LEMMA SetKept ==
    ASSUME NEW c \in Callers, SetInv(c), verify'[c] = verify[c],
           \A b : [caller |-> c, batch |-> b] \in Pool' <=> [caller |-> c, batch |-> b] \in Pool
    PROVE  SetInv(c)'
<1>1. Batches(c)' = Batches(c) /\ Left(c)' = Left(c)
  BY SameLeft, Zenon
<1> QED BY <1>1, Zenon DEF SetInv, UnderWay

\* A caller goes on, with the pool as it is.
LEMMA CallerMoves ==
    ASSUME CheckerInv, NEW c \in Callers, NEW call \in CallType, verify' = [verify EXCEPT ![c] = call],
           UNCHANGED <<checker, jobs, running, stopping>>, verify[c].at # "ended",
           Left(c) # {} => call.at \in {"posted", "wait"} /\ call.size = verify[c].size,
           call.pending = verify[c].pending, Pool' = Pool => SetInv(c)'
    PROVE  CheckerInv'
<1>0. Pool \subseteq Job
  BY PoolOfJobs, Zenon DEF CheckerInv
<1>1. /\ verify'[c] = call /\ \A d \in Callers \ {c} : verify'[d] = verify[d]
      /\ verify' \in [Callers -> CallType]
  BY Zenon DEF CheckerInv, CheckerTypes, CallType
<1>2. CheckerTypes'
  BY <1>1, Zenon DEF CheckerInv, CheckerTypes, CallType
<1>3. JobsInv' /\ Pool' = Pool
  <2>1. ASSUME NEW j \in Pool PROVE UnderWay(j.caller)' /\ verify'[j.caller].size = verify[j.caller].size
    <3>1. /\ j.caller \in Callers /\ j = [caller |-> j.caller, batch |-> j.batch]
          /\ j \in InPoolNow /\ UnderWay(j.caller) /\ j.batch \in Batches(j.caller)
      BY <1>0, Zenon DEF Job, CheckerInv, JobsInv, Pool
    <3>2. CASE j.caller = c
      <4>1. j.batch \in Left(c)
        BY <3>1, <3>2, Zenon DEF Left
      <4> QED BY <1>1, <3>2, <4>1, Zenon DEF UnderWay
    <3>3. CASE j.caller # c
      BY <1>1, <3>1, <3>3, Zenon DEF UnderWay
    <3> QED BY <3>2, <3>3, Zenon
  <2> QED BY <2>1, JobsKept, Zenon DEF CheckerInv
<1>4. \A d \in Callers : SetInv(d)'
  <2> SUFFICES ASSUME NEW d \in Callers, d # c PROVE SetInv(d)'
    BY <1>3, Zenon
  <2>1. SetInv(d) /\ verify'[d] = verify[d]
    BY <1>1, Zenon DEF CheckerInv, SetsInv
  <2> QED BY <2>1, <1>3, SetKept, Zenon
<1>5. SetsInv'
  BY <1>4, Zenon DEF SetsInv
<1>6. StoppedInv'
  BY <1>1, Zenon DEF CheckerInv, StoppedInv, Callers
<1>7. TasksCounted'
  <2>1. \A d \in Callers : verify'[d].pending = verify[d].pending
    BY <1>1, Zenon
  <2>2. {d \in Callers : verify'[d].pending > 0} = {d \in Callers : verify[d].pending > 0}
    BY <2>1, Zenon
  <2> QED BY <2>2, Zenon DEF CheckerInv, TasksCounted
<1> QED BY <1>2, <1>3, <1>5, <1>6, <1>7, Zenon DEF CheckerInv

\* Nothing of a set is in the pool unless it is under way.
LEMMA IdleFacts ==
    ASSUME CheckerInv, NEW c \in Callers, ~UnderWay(c)
    PROVE  Left(c) = {} /\ verify[c].pending = 0
<1>1. verify[c].pending = 0
  BY Zenon DEF CheckerInv, SetsInv, SetInv
<1>2. \A b : [caller |-> c, batch |-> b] # NoJob
  BY Zenon DEF NoJob, Callers
<1>3. Left(c) = {}
  BY <1>2 DEF CheckerInv, JobsInv, Left
<1> QED BY <1>1, <1>3, Zenon

LEMMA LeftFinite ==
    ASSUME CheckerInv, NEW c \in Callers, UnderWay(c)
    PROVE  IsFiniteSet(Left(c)) /\ Batches(c) \subseteq Nat /\ batches_thread(verify[c].size) \in Nat
<1>1. verify[c].size \in Nat /\ Threaded(verify[c].size)
  BY Zenon DEF CheckerInv, CheckerTypes, CallType, SetsInv, SetInv
<1>2. batches_thread(verify[c].size) \in Nat
  BY <1>1, SplitSizes, Zenon
<1>3. IsFiniteSet(Batches(c)) /\ Batches(c) \subseteq Nat
  BY <1>2, FS_Interval DEF Batches
<1> QED BY <1>2, <1>3, FS_Subset, Zenon DEF Left

LEMMA CallersFinite == IsFiniteSet(Callers)
<1>1. Callers = {"blocks"} \cup {"votes"}
  BY Zenon DEF Callers
<1> QED BY <1>1, FS_Singleton, FS_Union, Zenon

\* There is a task for a set with batches in the pool.
LEMMA SomeTask ==
    ASSUME CheckerInv, NEW c \in Callers, verify[c].pending > 0
    PROVE  checker.tasks_remaining \in Nat \ {0}
<1> DEFINE S == {d \in Callers : verify[d].pending > 0}
<1>1. IsFiniteSet(S) /\ S # {}
  BY CallersFinite, FS_Subset, Zenon
<1>2. Cardinality(S) \in Nat /\ Cardinality(S) # 0
  BY <1>1, FS_CardinalityType, FS_EmptySet, Zenon
<1> QED BY <1>2, Zenon DEF CheckerInv, TasksCounted

\* verify begins: a stopped checker has no callers.
LEMMA EnterInv ==
    ASSUME CheckerInv, NEW c \in Callers, NEW size \in SetSizes, VerifyEnter(c, size)
    PROVE  CheckerInv'
<1> DEFINE call == Call("entered", size)
<1>1. verify' = [verify EXCEPT ![c] = call] /\ verify[c].at = "idle"
  BY Zenon DEF CheckerInv, StoppedInv, VerifyEnter, Callers
<1>2. call \in CallType /\ call.at = "entered" /\ call.pending = 0 /\ call.checked = {} /\ call.promise = FALSE
  BY SplitAssumption, Zenon DEF Call, CallType
<1>3. Left(c) = {} /\ verify[c].pending = 0
  BY <1>1, IdleFacts, Zenon DEF UnderWay
<1>4. verify'[c] = call
  BY <1>1, Zenon DEF CheckerInv, CheckerTypes
<1>5. SetInv(c)'
  BY <1>2, <1>4, Zenon DEF SetInv, UnderWay
<1> HIDE DEF call
<1>6. UNCHANGED <<checker, jobs, running, stopping>>
  BY Zenon DEF VerifyEnter
<1> QED BY <1>1, <1>2, <1>3, <1>5, <1>6, CallerMoves, Zenon

\* A small set stays with the caller.
LEMMA OwnInv ==
    ASSUME CheckerInv, NEW c \in Callers, VerifyOwn(c)
    PROVE  CheckerInv'
<1> DEFINE call == [verify[c] EXCEPT !.at = "returned", !.checked = 1 .. verify[c].size]
<1>0. verify[c] \in CallType /\ verify[c].at = "entered" /\ verify' = [verify EXCEPT ![c] = call]
  BY Zenon DEF CheckerInv, CheckerTypes, CallType, VerifyOwn
<1>1. call \in CallType /\ call.at = "returned" /\ call.pending = verify[c].pending
      /\ call.size = verify[c].size /\ call.checked = 1 .. verify[c].size
  <2>1. 1 .. verify[c].size \in SUBSET Nat
    BY <1>0 DEF CallType
  <2> QED BY <1>0, <2>1, Zenon DEF CallType
<1>2. verify'[c] = call
  BY <1>0, Zenon DEF CheckerInv, CheckerTypes
<1>3. Left(c) = {} /\ verify[c].pending = 0
  BY <1>0, IdleFacts, Zenon DEF UnderWay
<1> HIDE DEF call
<1>4. SetInv(c)'
  BY <1>1, <1>2, <1>3, Zenon DEF SetInv, UnderWay
<1>5. UNCHANGED <<checker, jobs, running, stopping>>
  BY Zenon DEF VerifyOwn
<1> QED BY <1>0, <1>1, <1>3, <1>4, <1>5, CallerMoves, Zenon

\* The caller's part of a set that was split.
LEMMA RestInv ==
    ASSUME CheckerInv, NEW c \in Callers, VerifyRest(c)
    PROVE  CheckerInv'
<1> DEFINE call == [verify[c] EXCEPT !.at = "wait", !.checked = @ \cup OfCaller(verify[c].size)]
<1>0. verify[c] \in CallType /\ verify[c].at = "posted" /\ verify' = [verify EXCEPT ![c] = call]
  BY Zenon DEF CheckerInv, CheckerTypes, CallType, VerifyRest
<1>1. SetInv(c) /\ UnderWay(c)
  BY <1>0, Zenon DEF CheckerInv, UnderWay, SetsInv
<1>2. OfCaller(verify[c].size) \subseteq Nat
  <2>1. verify[c].size \in Nat /\ Threaded(verify[c].size)
    BY <1>0, <1>1, Zenon DEF CallType, SetInv
  <2>2. size_calling_thread(verify[c].size) \in Nat /\ verify[c].size - size_calling_thread(verify[c].size) \in Nat
    BY <2>1, SplitSizes, SplitAssumption
  <2> QED BY <2>1, <2>2 DEF OfCaller
<1>3. call \in CallType /\ call.at = "wait" /\ call.pending = verify[c].pending
      /\ call.size = verify[c].size /\ call.promise = verify[c].promise
      /\ call.checked = verify[c].checked \cup OfCaller(verify[c].size)
  BY <1>0, <1>2, Zenon DEF CallType
<1>4. verify'[c] = call
  BY <1>0, Zenon DEF CheckerInv, CheckerTypes
<1> HIDE DEF call
<1>5. ASSUME Pool' = Pool PROVE SetInv(c)'
  <2>1. Batches(c)' = Batches(c) /\ Left(c)' = Left(c)
    BY <1>3, <1>4, <1>5, SameLeft, Zenon
  <2>2. call.checked = (UNION {OfBatch(b) : b \in Batches(c) \ Left(c)}) \cup OfCaller(verify[c].size)
    <3>1. "posted" # "wait"
      BY Zenon
    <3>2. verify[c].checked = (UNION {OfBatch(b) : b \in Batches(c) \ Left(c)}) \cup {}
      BY <1>0, <1>1, <3>1, Zenon DEF SetInv
    <3>3. PICK U : U = UNION {OfBatch(b) : b \in Batches(c) \ Left(c)}
      BY Zenon
    <3>4. verify[c].checked = U
      BY <3>2, <3>3, Zenon
    <3> QED BY <1>3, <3>3, <3>4, Zenon
  <2> QED BY <1>0, <1>1, <1>3, <1>4, <2>1, <2>2, Zenon DEF SetInv, UnderWay
<1>6. UNCHANGED <<checker, jobs, running, stopping>>
  BY Zenon DEF VerifyRest
<1> QED BY <1>0, <1>3, <1>5, <1>6, CallerMoves, Zenon

\* The promise is set when nothing of the set is left in the pool.
LEMMA WaitInv ==
    ASSUME CheckerInv, NEW c \in Callers, VerifyWait(c)
    PROVE  CheckerInv'
<1> DEFINE call == [verify[c] EXCEPT !.at = "returned"]
<1>0. /\ verify[c] \in CallType /\ verify[c].at = "wait" /\ verify[c].promise
      /\ verify' = [verify EXCEPT ![c] = call]
  BY Zenon DEF CheckerInv, CheckerTypes, CallType, VerifyWait, PromiseSet
<1>1. SetInv(c) /\ UnderWay(c)
  BY <1>0, Zenon DEF CheckerInv, UnderWay, SetsInv
<1>2. verify[c].pending = 0 /\ Left(c) = {}
  <2>1. verify[c].pending = 0 /\ Cardinality(Left(c)) = 0
    BY <1>0, <1>1, Zenon DEF SetInv
  <2> QED BY <1>1, <2>1, LeftFinite, FS_EmptySet, Zenon
<1>3. verify[c].checked = 1 .. verify[c].size
  <2>1. verify[c].checked = (UNION {OfBatch(b) : b \in Batches(c)}) \cup OfCaller(verify[c].size)
    BY <1>0, <1>1, <1>2, Zenon DEF SetInv
  <2>2. verify[c].size \in Nat /\ Threaded(verify[c].size)
    BY <1>0, <1>1, Zenon DEF CallType, SetInv
  <2>3. OfCaller(verify[c].size) \subseteq 1 .. verify[c].size
    BY <2>2, SplitSizes, SplitAssumption DEF OfCaller
  <2>4. \A b \in Batches(c) : OfBatch(b) \subseteq 1 .. verify[c].size
    BY <2>2, SplitPartitions, Zenon DEF Batches
  <2>5. \A i \in 1 .. verify[c].size : i \in OfCaller(verify[c].size) \/ \E b \in Batches(c) : i \in OfBatch(b)
    BY <2>2, SplitPartitions, Zenon DEF Batches
  <2>6. \A i : i \in verify[c].checked <=> i \in OfCaller(verify[c].size) \/ \E b \in Batches(c) : i \in OfBatch(b)
    BY <2>1, Zenon
  <2>7. \A i : i \in verify[c].checked <=> i \in 1 .. verify[c].size
    BY <2>3, <2>4, <2>5, <2>6, Zenon
  <2> QED BY <2>7, Zenon
<1>4. call \in CallType /\ call.at = "returned" /\ call.pending = verify[c].pending
      /\ call.size = verify[c].size /\ call.checked = verify[c].checked
  BY <1>0, Zenon DEF CallType
<1>5. verify'[c] = call
  BY <1>0, Zenon DEF CheckerInv, CheckerTypes
<1> HIDE DEF call
<1>6. SetInv(c)'
  BY <1>2, <1>3, <1>4, <1>5, Zenon DEF SetInv, UnderWay
<1>7. UNCHANGED <<checker, jobs, running, stopping>>
  BY Zenon DEF VerifyWait
<1> QED BY <1>0, <1>2, <1>4, <1>6, <1>7, CallerMoves, Zenon

LEMMA LoopInv ==
    ASSUME CheckerInv, NEW c \in Callers, VerifyLoop(c)
    PROVE  CheckerInv'
<1> DEFINE call == Call(IF halt[c] THEN "ended" ELSE "idle", 0)
<1>0. verify[c].at \in {"idle", "returned"} /\ verify' = [verify EXCEPT ![c] = call]
  BY Zenon DEF VerifyLoop
<1>1. call \in CallType /\ call.at \in {"ended", "idle"} /\ call.pending = 0
  BY Zenon DEF Call, CallType
<1>2. verify'[c] = call
  BY <1>0, Zenon DEF CheckerInv, CheckerTypes
<1>3. Left(c) = {} /\ verify[c].pending = 0
  BY <1>0, IdleFacts, Zenon DEF UnderWay
<1> HIDE DEF call
<1>4. SetInv(c)'
  BY <1>1, <1>2, Zenon DEF SetInv, UnderWay
<1>5. UNCHANGED <<checker, jobs, running, stopping>>
  BY Zenon DEF VerifyLoop
<1> QED BY <1>0, <1>1, <1>3, <1>4, <1>5, CallerMoves, Zenon

\* The batches of a set go to the pool.
LEMMA PostInv ==
    ASSUME CheckerInv, NEW c \in Callers, VerifyPost(c)
    PROVE  CheckerInv'
<1> DEFINE size == verify[c].size
           n == batches_thread(size)
           job(b) == [caller |-> c, batch |-> b]
           new == [b \in 1 .. n |-> job(b)]
           call == [verify[c] EXCEPT !.at = "posted", !.pending = n]
<1>0. /\ verify[c] \in CallType /\ verify[c].at = "entered" /\ Threaded(size)
      /\ verify' = [verify EXCEPT ![c] = call] /\ jobs' = jobs \o new
      /\ checker' = [checker EXCEPT !.tasks_remaining = @ + 1]
      /\ UNCHANGED <<running, stopping>>
  BY Zenon DEF CheckerInv, CheckerTypes, CallType, VerifyPost
<1>1. size \in Nat /\ n \in Nat \ {0}
  BY <1>0, SplitSizes, Zenon DEF CallType
<1>2. Left(c) = {} /\ verify[c].pending = 0 /\ verify[c].checked = {} /\ ~verify[c].promise
  BY <1>0, IdleFacts, Zenon DEF UnderWay, CheckerInv, SetsInv, SetInv
<1>3. call \in CallType /\ call.at = "posted" /\ call.pending = n /\ call.size = size
      /\ call.promise = verify[c].promise /\ call.checked = verify[c].checked
  BY <1>0, <1>1, Zenon DEF CallType
<1>4. /\ verify'[c] = call /\ \A d \in Callers \ {c} : verify'[d] = verify[d]
      /\ verify' \in [Callers -> CallType]
  BY <1>0, <1>3, Zenon DEF CheckerInv, CheckerTypes, CallType
<1>5. /\ new \in Seq(Job) /\ Len(new) = n /\ \A b \in 1 .. n : new[b] = job(b)
      /\ jobs \in Seq(Job)
  <2>1. \A b \in 1 .. n : job(b) \in Job
    BY <1>1 DEF Job
  <2>2. jobs \in Seq(Job)
    BY Zenon DEF CheckerInv, CheckerTypes
  <2> HIDE DEF job, n
  <2>3. new \in [1 .. n -> Job] /\ \A b \in 1 .. n : new[b] = job(b)
    BY <2>1, Zenon
  <2> HIDE DEF new
  <2> QED BY <1>1, <2>2, <2>3
<1>6. \A b : job(b).caller = c /\ job(b).batch = b /\ job(b) # NoJob
  BY Zenon DEF NoJob, Callers
<1> HIDE DEF call, n, size, job, new
<1>7. /\ jobs' \in Seq(Job) /\ Len(jobs') = Len(jobs) + n /\ Len(jobs) \in Nat
      /\ \A i \in 1 .. Len(jobs) : jobs'[i] = jobs[i]
      /\ \A b \in 1 .. n : jobs'[Len(jobs) + b] = job(b)
  <2>1. /\ jobs \o new \in Seq(Job) /\ Len(jobs) \in Nat /\ Len(jobs \o new) = Len(jobs) + n
        /\ \A i \in 1 .. Len(jobs) : (jobs \o new)[i] = jobs[i]
        /\ \A b \in 1 .. n : (jobs \o new)[Len(jobs) + b] = new[b]
    <3>1. PICK m \in Seq(Job) : m = new /\ Len(m) = n
      BY <1>5, Zenon
    <3>2. /\ jobs \o m \in Seq(Job) /\ Len(jobs) \in Nat /\ Len(jobs \o m) = Len(jobs) + Len(m)
          /\ \A i \in 1 .. Len(jobs) : (jobs \o m)[i] = jobs[i]
          /\ \A i \in 1 .. Len(m) : (jobs \o m)[Len(jobs) + i] = m[i]
      BY ONLY <1>5
    <3> QED BY <3>1, <3>2, Zenon
  <2> QED BY <1>0, <1>5, <2>1, Zenon
<1>8. Pool' = Pool \cup {job(b) : b \in 1 .. n}
  <2>1. \A j : (\E i \in DOMAIN jobs' : jobs'[i] = j) <=> (\E i \in DOMAIN jobs : jobs[i] = j) \/ (\E b \in 1 .. n : j = job(b))
    <3>1. DOMAIN jobs' = 1 .. Len(jobs) + n /\ DOMAIN jobs = 1 .. Len(jobs)
      BY <1>5, <1>7
    <3>2. \A i \in 1 .. Len(jobs) + n : i \in 1 .. Len(jobs) \/ (i - Len(jobs) \in 1 .. n /\ i = Len(jobs) + (i - Len(jobs)))
      BY <1>1, <1>7
    <3>3. \A i \in 1 .. Len(jobs) : i \in 1 .. Len(jobs) + n
      BY <1>1, <1>7
    <3>4. \A b \in 1 .. n : Len(jobs) + b \in 1 .. Len(jobs) + n
      BY <1>1, <1>7
    <3>5. ASSUME NEW i \in DOMAIN jobs' PROVE (\E k \in DOMAIN jobs : jobs[k] = jobs'[i]) \/ (\E b \in 1 .. n : jobs'[i] = job(b))
      <4>1. CASE i \in 1 .. Len(jobs)
        BY <1>7, <3>1, <4>1, Zenon
      <4>2. CASE i \notin 1 .. Len(jobs)
        <5>1. i - Len(jobs) \in 1 .. n /\ i = Len(jobs) + (i - Len(jobs))
          BY <3>1, <3>2, <4>2, Zenon
        <5>2. PICK b \in 1 .. n : i = Len(jobs) + b
          BY <5>1, Zenon
        <5> QED BY <1>7, <5>2, Zenon
      <4> QED BY <4>1, <4>2, Zenon
    <3>6. ASSUME NEW i \in DOMAIN jobs PROVE \E k \in DOMAIN jobs' : jobs'[k] = jobs[i]
      BY <1>7, <3>1, <3>3, Zenon
    <3>7. ASSUME NEW b \in 1 .. n PROVE \E k \in DOMAIN jobs' : jobs'[k] = job(b)
      BY <1>7, <3>1, <3>4, Zenon
    <3> QED BY <3>5, <3>6, <3>7, Zenon
  <2>2. running' = running
    BY <1>0, Zenon
  <2>3. \A j : j \in Pool' <=> j \in Pool \/ \E b \in 1 .. n : j = job(b)
    BY <1>6, <2>1, <2>2, InPool, InPoolNext, Zenon
  <2> QED BY <2>3, Zenon
<1>9. CheckerTypes'
  <2>1. checker' \in [stopped : BOOLEAN, pool : {"open", "joining", "joined"}, tasks_remaining : Nat,
                       mutex : {"none", "flush", "stop"}]
    <3>1. checker.tasks_remaining + 1 \in Nat
      BY DEF CheckerInv, CheckerTypes
    <3> QED BY <1>0, <3>1, Zenon DEF CheckerInv, CheckerTypes
  <2> QED BY <1>0, <1>4, <1>7, <2>1, Zenon DEF CheckerInv, CheckerTypes, CallType
<1>10. \A b : job(b) \notin Pool
  <2> SUFFICES ASSUME NEW b, job(b) \in Pool PROVE FALSE
    BY Zenon
  <2>1. UnderWay(job(b).caller)
    BY Zenon DEF CheckerInv, JobsInv, Pool
  <2> QED BY <1>0, <1>6, <2>1, Zenon DEF UnderWay
<1>11. Batches(c)' = 1 .. n
  BY <1>3, <1>4, Zenon DEF Batches, n, batches_thread, base_batches, overflow_batches
<1>12. JobsInv'
  <2>1. \A i, k \in DOMAIN jobs' : jobs'[i] = jobs'[k] => i = k
    <3>1. DOMAIN jobs' = 1 .. Len(jobs) + n /\ DOMAIN jobs = 1 .. Len(jobs)
      BY <1>5, <1>7
    <3>2. \A i \in 1 .. Len(jobs) + n : i \notin 1 .. Len(jobs) => \E b \in 1 .. n : i = Len(jobs) + b /\ jobs'[i] = job(b)
      <4> SUFFICES ASSUME NEW i \in 1 .. Len(jobs) + n, i \notin 1 .. Len(jobs)
                   PROVE  \E b \in 1 .. n : i = Len(jobs) + b /\ jobs'[i] = job(b)
        BY Zenon
      <4>1. i - Len(jobs) \in 1 .. n /\ i = Len(jobs) + (i - Len(jobs))
        BY <1>1, <1>7
      <4> QED BY <1>7, <4>1, Zenon
    <3>3. \A i \in 1 .. Len(jobs) : jobs'[i] \in Pool
      <4> SUFFICES ASSUME NEW i \in 1 .. Len(jobs) PROVE jobs[i] \in Pool
        BY <1>7, Zenon
      <4>1. jobs[i] \in Job
        BY <1>5
      <4>2. jobs[i] # NoJob
        BY <4>1 DEF Job, NoJob, Callers
      <4> QED BY <3>1, <4>2, Zenon DEF Pool, InPoolNow
    <3>4. \A i, k \in 1 .. Len(jobs) : jobs'[i] = jobs'[k] => i = k
      BY <1>7, <3>1, Zenon DEF CheckerInv, JobsInv
    <3> SUFFICES ASSUME NEW i \in 1 .. Len(jobs) + n, NEW k \in 1 .. Len(jobs) + n, jobs'[i] = jobs'[k]
                 PROVE  i = k
      BY <3>1, Zenon
    <3>5. i \in 1 .. Len(jobs) <=> k \in 1 .. Len(jobs)
      BY <1>10, <3>2, <3>3, Zenon
    <3>6. CASE i \notin 1 .. Len(jobs)
      <4>1. PICK b \in 1 .. n : i = Len(jobs) + b /\ jobs'[i] = job(b)
        BY <3>2, <3>6, Zenon
      <4>2. PICK d \in 1 .. n : k = Len(jobs) + d /\ jobs'[k] = job(d)
        BY <3>2, <3>5, <3>6, Zenon
      <4>3. b = d
        BY <1>6, <4>1, <4>2, Zenon
      <4> QED BY <4>1, <4>2, <4>3, Zenon
    <3> QED BY <3>4, <3>5, <3>6, Zenon
  <2>2. \A t, u \in PoolThread : running'[t] = running'[u] /\ running'[t] # NoJob => t = u
    BY <1>0, Zenon DEF CheckerInv, JobsInv
  <2>3. \A i \in DOMAIN jobs', t \in PoolThread : jobs'[i] # running'[t]
    <3> SUFFICES ASSUME NEW i \in DOMAIN jobs', NEW t \in PoolThread, jobs'[i] = running[t] PROVE FALSE
      BY <1>0, Zenon
    <3>1. i \in 1 .. Len(jobs) \/ (i - Len(jobs) \in 1 .. n /\ i = Len(jobs) + (i - Len(jobs)))
      BY <1>1, <1>7
    <3>2. CASE i \in 1 .. Len(jobs)
      BY <1>5, <1>7, <3>2 DEF CheckerInv, JobsInv
    <3>3. CASE i - Len(jobs) \in 1 .. n /\ i = Len(jobs) + (i - Len(jobs))
      <4>1. jobs'[i] = job(i - Len(jobs))
        BY <1>7, <3>3, Zenon
      <4>2. running[t] \notin Pool /\ running[t] # NoJob
        BY <1>6, <1>10, <4>1, Zenon
      <4> QED BY <4>2, Zenon DEF Pool, InPoolNow
    <3> QED BY <3>1, <3>2, <3>3, Zenon
  <2>4. \A j \in Pool' : UnderWay(j.caller)' /\ j.batch \in Batches(j.caller)'
    <3>1. ASSUME NEW b \in 1 .. n PROVE UnderWay(job(b).caller)' /\ job(b).batch \in Batches(job(b).caller)'
      BY <1>3, <1>4, <1>6, <1>11, Zenon DEF UnderWay
    <3>2. ASSUME NEW j \in Pool PROVE UnderWay(j.caller)' /\ j.batch \in Batches(j.caller)'
      <4>1. UnderWay(j.caller) /\ j.batch \in Batches(j.caller) /\ j.caller \in Callers
        BY PoolOfJobs, Zenon DEF CheckerInv, JobsInv, Pool, Job
      <4>2. j.caller # c
        BY <1>0, <4>1, Zenon DEF UnderWay
      <4>3. verify'[j.caller] = verify[j.caller]
        BY <1>4, <4>1, <4>2, Zenon
      <4> QED BY <4>1, <4>3, Zenon DEF UnderWay, Batches, batches_thread, base_batches, overflow_batches
    <3> QED BY <1>8, <3>1, <3>2, Zenon
  <2> QED BY <2>1, <2>2, <2>3, <2>4, Zenon DEF JobsInv, Pool
<1>13. \A d \in Callers : SetInv(d)'
  <2> SUFFICES ASSUME NEW d \in Callers PROVE SetInv(d)'
    BY Zenon
  <2>1. CASE d = c
    <3>1. Left(c)' = 1 .. n
      BY <1>8, <1>11, Zenon DEF Left, Pool, job
    <3>2. Cardinality(1 .. n) = n
      BY <1>1, FS_Interval
    <3>3. UNION {OfBatch(b) : b \in Batches(c)' \ Left(c)'} = {}
      BY <1>11, <3>1, Zenon
    <3>4. Threaded(size) /\ n # 0 /\ "posted" # "wait"
      BY <1>0, <1>1, Zenon
    <3>5. verify'[c].checked = {} /\ verify'[c].at = "posted" /\ verify'[c].pending = n /\ ~verify'[c].promise
          /\ verify'[c].size = size
      BY <1>2, <1>3, <1>4, Zenon
    <3> QED BY <1>11, <2>1, <3>1, <3>2, <3>3, <3>4, <3>5, Zenon DEF SetInv, UnderWay
  <2>2. CASE d # c
    <3>1. SetInv(d) /\ verify'[d] = verify[d]
      BY <1>4, <2>2, Zenon DEF CheckerInv, SetsInv
    <3>2. \A b : [caller |-> d, batch |-> b] \in Pool' <=> [caller |-> d, batch |-> b] \in Pool
      <4> TAKE b
      <4>1. \A i \in 1 .. n : job(i) # [caller |-> d, batch |-> b]
        <5>1. [caller |-> d, batch |-> b].caller = d
          BY Zenon
        <5> QED BY <1>6, <2>2, <5>1, Zenon
      <4> QED BY <1>8, <4>1, Zenon
    <3> QED BY <3>1, <3>2, SetKept, Zenon
  <2> QED BY <2>1, <2>2, Zenon
<1>14. SetsInv'
  BY <1>13, Zenon DEF SetsInv
<1>15. StoppedInv'
  BY <1>0, <1>3, <1>4, Zenon DEF CheckerInv, CheckerTypes, StoppedInv, Callers
<1>16. TasksCounted'
  <2> DEFINE S == {d \in Callers : verify[d].pending > 0}
  <2>1. {d \in Callers : verify'[d].pending > 0} = S \cup {c} /\ c \notin S
    BY <1>1, <1>2, <1>3, <1>4
  <2>2. IsFiniteSet(S)
    BY CallersFinite, FS_Subset, Zenon
  <2>3. Cardinality(S \cup {c}) = Cardinality(S) + 1
    BY <2>1, <2>2, FS_AddElement, Zenon
  <2>4. checker'.tasks_remaining = checker.tasks_remaining + 1
    BY <1>0, Zenon DEF CheckerInv, CheckerTypes
  <2> HIDE DEF S
  <2> QED BY <2>1, <2>3, <2>4, Zenon DEF CheckerInv, TasksCounted, S
<1> QED BY <1>9, <1>12, <1>14, <1>15, <1>16, Zenon DEF CheckerInv

\* A thread of the pool takes the job at the front.
LEMMA TakeInv ==
    ASSUME CheckerInv, NEW t \in PoolThread, PoolTake(t)
    PROVE  CheckerInv'
<1>0. /\ running[t] = NoJob /\ jobs # <<>> /\ UNCHANGED <<checker, verify, stopping>>
      /\ running' = [running EXCEPT ![t] = Head(jobs)] /\ jobs' = Tail(jobs)
  BY Zenon DEF PoolTake
<1>1. /\ Len(jobs) \in Nat \ {0} /\ Head(jobs) = jobs[1] /\ Head(jobs) \in Job
      /\ jobs' \in Seq(Job) /\ Len(jobs') = Len(jobs) - 1
      /\ \A i \in 1 .. Len(jobs) - 1 : jobs'[i] = jobs[i + 1]
      /\ DOMAIN jobs = 1 .. Len(jobs) /\ DOMAIN jobs' = 1 .. Len(jobs) - 1
  <2>1. jobs \in Seq(Job)
    BY Zenon DEF CheckerInv, CheckerTypes
  <2> QED BY <1>0, <2>1
<1>2. /\ running'[t] = jobs[1] /\ \A u \in PoolThread \ {t} : running'[u] = running[u]
      /\ running' \in [PoolThread -> Job \cup {NoJob}]
  BY <1>0, <1>1, Zenon DEF CheckerInv, CheckerTypes
<1>3. CheckerTypes'
  BY <1>0, <1>1, <1>2, Zenon DEF CheckerInv, CheckerTypes
<1>4. jobs[1] # NoJob /\ 1 \in DOMAIN jobs
  BY <1>1 DEF Job, NoJob, Callers
<1>5. \A i \in DOMAIN jobs' : i + 1 \in DOMAIN jobs /\ i + 1 # 1 /\ jobs'[i] = jobs[i + 1]
  BY <1>1
<1>6. \A i \in DOMAIN jobs : i # 1 => i - 1 \in DOMAIN jobs' /\ jobs'[i - 1] = jobs[i]
  BY <1>1
<1>7. Pool' = Pool
  <2>1. ASSUME NEW j, j \in Pool PROVE j \in Pool'
    <3>1. CASE \E i \in DOMAIN jobs : jobs[i] = j
      <4>1. PICK i \in DOMAIN jobs : jobs[i] = j
        BY <3>1, Zenon
      <4>2. CASE i = 1
        BY <1>2, <1>4, <4>1, <4>2, InPoolNext, Zenon
      <4>3. CASE i # 1
        BY <1>6, <2>1, <4>1, <4>3, InPool, InPoolNext, Zenon
      <4> QED BY <4>2, <4>3, Zenon
    <3>2. CASE \E u \in PoolThread : running[u] = j
      <4>1. PICK u \in PoolThread : running[u] = j
        BY <3>2, Zenon
      <4>2. u # t /\ j # NoJob
        BY <1>0, <2>1, <4>1, InPool, Zenon
      <4> QED BY <1>2, <4>1, <4>2, InPoolNext, Zenon
    <3> QED BY <2>1, <3>1, <3>2, InPool, Zenon
  <2>2. ASSUME NEW j, j \in Pool' PROVE j \in Pool
    <3>1. CASE \E i \in DOMAIN jobs' : jobs'[i] = j
      BY <1>5, <2>2, <3>1, InPool, InPoolNext, Zenon
    <3>2. CASE \E u \in PoolThread : running'[u] = j
      BY <1>2, <1>4, <2>2, <3>2, InPool, InPoolNext, Zenon
    <3> QED BY <2>2, <3>1, <3>2, InPoolNext, Zenon
  <2> QED BY <2>1, <2>2, Zenon
<1>8. JobsInv'
  <2>1. \A i, k \in DOMAIN jobs' : jobs'[i] = jobs'[k] => i = k
    <3> SUFFICES ASSUME NEW i \in DOMAIN jobs', NEW k \in DOMAIN jobs', jobs'[i] = jobs'[k] PROVE i = k
      BY Zenon
    <3>1. i + 1 = k + 1
      BY <1>5, Zenon DEF CheckerInv, JobsInv
    <3> QED BY <1>1, <3>1
  <2>2. \A u, w \in PoolThread : running'[u] = running'[w] /\ running'[u] # NoJob => u = w
    <3> SUFFICES ASSUME NEW u \in PoolThread, NEW w \in PoolThread, running'[u] = running'[w], running'[u] # NoJob
                 PROVE  u = w
      BY Zenon
    <3>1. CASE u # t /\ w # t
      BY <1>2, <3>1, Zenon DEF CheckerInv, JobsInv
    <3>2. \A x \in PoolThread \ {t} : running'[x] # running'[t]
      <4>1. \A x \in PoolThread : jobs[1] # running[x]
        BY <1>4, Zenon DEF CheckerInv, JobsInv
      <4> QED BY <1>2, <4>1, Zenon
    <3> QED BY <3>1, <3>2, Zenon
  <2>3. \A i \in DOMAIN jobs', u \in PoolThread : jobs'[i] # running'[u]
    <3> SUFFICES ASSUME NEW i \in DOMAIN jobs', NEW u \in PoolThread, jobs'[i] = running'[u] PROVE FALSE
      BY Zenon
    <3>1. CASE u = t
      BY <1>2, <1>4, <1>5, <3>1, Zenon DEF CheckerInv, JobsInv
    <3>2. CASE u # t
      <4>1. running[u] = jobs[i + 1] /\ i + 1 \in DOMAIN jobs
        BY <1>2, <1>5, <3>2, Zenon
      <4> QED BY <4>1, Zenon DEF CheckerInv, JobsInv
    <3> QED BY <3>1, <3>2, Zenon
  <2>4. \A j \in Pool' : UnderWay(j.caller)' /\ j.batch \in Batches(j.caller)'
    BY <1>0, <1>7, Zenon DEF CheckerInv, JobsInv, Pool, UnderWay, Batches, batches_thread, base_batches, overflow_batches
  <2> QED BY <2>1, <2>2, <2>3, <2>4, Zenon DEF JobsInv, Pool
<1>9. SetsInv'
  <2>1. \A c \in Callers : SetInv(c)'
    BY <1>0, <1>7, SetKept, Zenon DEF CheckerInv, SetsInv
  <2> QED BY <2>1, Zenon DEF SetsInv
<1>10. StoppedInv' /\ TasksCounted'
  BY <1>0, Zenon DEF CheckerInv, StoppedInv, TasksCounted
<1> QED BY <1>3, <1>8, <1>9, <1>10, Zenon DEF CheckerInv

\* It verifies its batch; the last of a set sets the promise.
LEMMA VerifyBatchInv ==
    ASSUME CheckerInv, NEW t \in PoolThread, PoolVerify(t)
    PROVE  CheckerInv'
<1>a. PICK j : j = running[t]
  BY Zenon
<1> DEFINE c == j.caller
           b == j.batch
           last == verify[c].pending = 1
           call == [verify[c] EXCEPT !.checked = @ \cup OfBatch(b), !.pending = @ - 1, !.promise = @ \/ last]
<1>0. /\ j # NoJob /\ running' = [running EXCEPT ![t] = NoJob] /\ UNCHANGED <<jobs, stopping>>
      /\ verify' = [verify EXCEPT ![c].checked = @ \cup OfBatch(b), ![c].pending = @ - 1, ![c].promise = @ \/ last]
      /\ checker' = [checker EXCEPT !.tasks_remaining = IF last THEN @ - 1 ELSE @]
  BY <1>a, Zenon DEF PoolVerify, LastBatch
<1>1. /\ j \in Pool /\ c \in Callers /\ b \in Nat /\ j = [caller |-> c, batch |-> b]
      /\ UnderWay(c) /\ b \in Batches(c)
  <2>1. j \in Pool
    BY <1>a, <1>0, InPool, Zenon
  <2>2. j \in Job
    BY <2>1, PoolOfJobs, Zenon DEF CheckerInv
  <2> QED BY <2>1, <2>2, Zenon DEF Job, CheckerInv, JobsInv, Pool
<1>2. /\ SetInv(c) /\ IsFiniteSet(Left(c)) /\ b \in Left(c) /\ verify[c] \in CallType
      /\ verify[c].pending = Cardinality(Left(c))
  BY <1>1, LeftFinite, Zenon DEF CheckerInv, CheckerTypes, CallType, Left, Pool, SetInv, SetsInv
<1>3. /\ verify[c].pending \in Nat \ {0} /\ Cardinality(Left(c) \ {b}) = verify[c].pending - 1
  <2>1. Cardinality(Left(c)) # 0 /\ Cardinality(Left(c)) \in Nat
    BY <1>2, FS_EmptySet, FS_CardinalityType, Zenon
  <2> QED BY <1>2, <2>1, FS_RemoveElement, Zenon
<1>4. OfBatch(b) \subseteq Nat
  <2>1. verify[c].size \in Nat /\ Threaded(verify[c].size)
    BY <1>1, <1>2, Zenon DEF CallType, SetInv
  <2> QED BY <1>1, <2>1, SplitPartitions DEF Batches
<1>5. /\ call \in CallType /\ call.at = verify[c].at /\ call.size = verify[c].size
      /\ call.checked = verify[c].checked \cup OfBatch(b) /\ call.pending = verify[c].pending - 1
      /\ call.promise = (verify[c].promise \/ last)
  <2>1. (verify[c].promise \/ last) \in BOOLEAN /\ verify[c].pending - 1 \in Nat
    BY <1>3
  <2>2. verify[c].checked \cup OfBatch(b) \in SUBSET Nat
    BY <1>2, <1>4, Zenon DEF CallType
  <2> HIDE DEF last, c
  <2> QED BY <1>2, <2>1, <2>2, Zenon DEF CallType
<1>6. /\ verify'[c] = call /\ \A d \in Callers \ {c} : verify'[d] = verify[d]
      /\ verify' \in [Callers -> CallType]
  BY <1>0, <1>1, <1>5, Zenon DEF CheckerInv, CheckerTypes, CallType
<1>7. /\ running'[t] = NoJob /\ \A u \in PoolThread \ {t} : running'[u] = running[u]
      /\ running' \in [PoolThread -> Job \cup {NoJob}]
  BY <1>0, Zenon DEF CheckerInv, CheckerTypes
<1> HIDE DEF call, c, b, last
<1>8. CheckerTypes'
  <2>1. checker' \in [stopped : BOOLEAN, pool : {"open", "joining", "joined"}, tasks_remaining : Nat,
                       mutex : {"none", "flush", "stop"}]
    <3>1. last => checker.tasks_remaining - 1 \in Nat
      BY <1>1, <1>3, SomeTask DEF CheckerInv, CheckerTypes
    <3> QED BY <1>0, <3>1, Zenon DEF CheckerInv, CheckerTypes
  <2> QED BY <1>0, <1>6, <1>7, <2>1, Zenon DEF CheckerInv, CheckerTypes, CallType
<1>9. Pool' = Pool \ {j}
  <2>1. \A k \in DOMAIN jobs : jobs[k] # j
    BY <1>a, <1>0, Zenon DEF CheckerInv, JobsInv
  <2>2. \A u \in PoolThread \ {t} : running[u] # j
    BY <1>a, <1>0, Zenon DEF CheckerInv, JobsInv
  <2>3. \A k : k \in Pool' <=> k \in Pool /\ k # j
    <3>1. ASSUME NEW k \in Pool' PROVE k \in Pool /\ k # j
      <4>1. CASE \E i \in DOMAIN jobs' : jobs'[i] = k
        BY <1>0, <2>1, <3>1, <4>1, InPool, InPoolNext, Zenon
      <4>2. CASE \E u \in PoolThread : running'[u] = k
        BY <1>7, <2>2, <3>1, <4>2, InPool, InPoolNext, Zenon
      <4> QED BY <3>1, <4>1, <4>2, InPoolNext, Zenon
    <3>2. ASSUME NEW k \in Pool, k # j PROVE k \in Pool'
      <4>1. CASE \E i \in DOMAIN jobs : jobs[i] = k
        BY <1>0, <3>2, <4>1, InPool, InPoolNext, Zenon
      <4>2. CASE \E u \in PoolThread : running[u] = k
        BY <1>a, <1>7, <3>2, <4>2, InPool, InPoolNext, Zenon
      <4> QED BY <3>2, <4>1, <4>2, InPool, Zenon
    <3> QED BY <3>1, <3>2, Zenon
  <2> QED BY <2>3, Zenon
<1>10. JobsInv'
  <2>1. \A i, k \in DOMAIN jobs' : jobs'[i] = jobs'[k] => i = k
    BY <1>0, Zenon DEF CheckerInv, JobsInv
  <2>2. \A u, w \in PoolThread : running'[u] = running'[w] /\ running'[u] # NoJob => u = w
    BY <1>7, Zenon DEF CheckerInv, JobsInv
  <2>3. \A i \in DOMAIN jobs', u \in PoolThread : jobs'[i] # running'[u]
    <3>1. \A i \in DOMAIN jobs : jobs[i] # NoJob
      <4>1. \A i \in DOMAIN jobs : jobs[i] \in Job
        BY DEF CheckerInv, CheckerTypes
      <4> QED BY <4>1 DEF Job, NoJob, Callers
    <3> QED BY <1>0, <1>7, <3>1, Zenon DEF CheckerInv, JobsInv
  <2>4. \A k \in Pool' : UnderWay(k.caller)' /\ k.batch \in Batches(k.caller)'
    <3> SUFFICES ASSUME NEW k \in Pool PROVE UnderWay(k.caller)' /\ k.batch \in Batches(k.caller)'
      BY <1>9, Zenon
    <3>1. UnderWay(k.caller) /\ k.batch \in Batches(k.caller) /\ k.caller \in Callers
      BY PoolOfJobs, Zenon DEF CheckerInv, JobsInv, Pool, Job
    <3>2. verify'[k.caller].at = verify[k.caller].at /\ verify'[k.caller].size = verify[k.caller].size
      BY <1>5, <1>6, <3>1, Zenon
    <3> QED BY <3>1, <3>2, Zenon DEF UnderWay, Batches, batches_thread, base_batches, overflow_batches
  <2> QED BY <2>1, <2>2, <2>3, <2>4, Zenon DEF JobsInv, Pool
<1>11. SetInv(c)'
  <2>1. Batches(c)' = Batches(c) /\ Left(c)' = Left(c) \ {b}
    <3>1. Batches(c)' = Batches(c)
      BY <1>5, <1>6, Zenon DEF Batches, batches_thread, base_batches, overflow_batches
    <3>2. \A d : [caller |-> c, batch |-> d] \in Pool' <=> [caller |-> c, batch |-> d] \in Pool /\ d # b
      <4>1. \A d : [caller |-> c, batch |-> d].batch = d
        BY Zenon
      <4> QED BY <1>1, <1>9, <4>1, Zenon
    <3>3. \A d : [caller |-> c, batch |-> d] # NoJob
      BY <1>1, Zenon DEF NoJob, Callers
    <3> QED BY <3>1, <3>2, <3>3, Zenon DEF Left, Pool
  <2>2. \A d : d \in Batches(c) \ (Left(c) \ {b}) <=> d \in Batches(c) \ Left(c) \/ d = b
    BY <1>1, Zenon
  <2>3. call.checked = (UNION {OfBatch(d) : d \in Batches(c)' \ Left(c)'})
                        \cup (IF verify[c].at = "wait" THEN OfCaller(verify[c].size) ELSE {})
    <3>1. PICK R : R = IF verify[c].at = "wait" THEN OfCaller(verify[c].size) ELSE {}
      BY Zenon
    <3>2. verify[c].checked = (UNION {OfBatch(d) : d \in Batches(c) \ Left(c)}) \cup R
      BY <1>1, <1>2, <3>1, Zenon DEF SetInv
    <3>3. call.checked = (UNION {OfBatch(d) : d \in Batches(c)' \ Left(c)'}) \cup R
      <4>1. \A i : i \in call.checked <=> i \in verify[c].checked \/ i \in OfBatch(b)
        BY <1>5, Zenon
      <4>2. \A i : i \in verify[c].checked <=> i \in R \/ \E d \in Batches(c) \ Left(c) : i \in OfBatch(d)
        BY <3>2, Zenon
      <4>3. \A i : i \in call.checked <=> i \in R \/ \E d \in Batches(c)' \ Left(c)' : i \in OfBatch(d)
        BY <2>1, <2>2, <4>1, <4>2, Zenon
      <4> QED BY <4>3, Zenon
    <3> QED BY <3>1, <3>3, Zenon
  <2>4. call.pending = Cardinality(Left(c)')
    BY <1>3, <1>5, <2>1, Zenon
  <2>5. call.promise <=> call.pending = 0
    <3>1. verify[c].promise <=> verify[c].pending = 0
      BY <1>1, <1>2, Zenon DEF SetInv
    <3>2. last <=> verify[c].pending - 1 = 0
      BY <1>3 DEF last
    <3>3. ~verify[c].promise
      BY <1>3, <3>1, Zenon
    <3> QED BY <1>5, <3>2, <3>3, Zenon
  <2>6. Threaded(verify[c].size)
    BY <1>1, <1>2, Zenon DEF SetInv
  <2> QED BY <1>1, <1>5, <1>6, <2>3, <2>4, <2>5, <2>6, Zenon DEF SetInv, UnderWay
<1>12. \A d \in Callers : SetInv(d)'
  <2> SUFFICES ASSUME NEW d \in Callers, d # c PROVE SetInv(d)'
    BY <1>11, Zenon
  <2>1. SetInv(d) /\ verify'[d] = verify[d]
    BY <1>6, Zenon DEF CheckerInv, SetsInv
  <2>2. \A i : [caller |-> d, batch |-> i] \in Pool' <=> [caller |-> d, batch |-> i] \in Pool
    BY <1>9 DEF c
  <2> QED BY <2>1, <2>2, SetKept, Zenon
<1>13. SetsInv'
  BY <1>12, Zenon DEF SetsInv
<1>14. StoppedInv'
  <2>1. \A d \in Callers : verify'[d].at = verify[d].at
    BY <1>5, <1>6, Zenon
  <2>2. checker'.stopped = checker.stopped
    BY <1>0, Zenon DEF CheckerInv, CheckerTypes
  <2> QED BY <1>0, <2>1, <2>2, Zenon DEF CheckerInv, StoppedInv, Callers
<1>15. TasksCounted'
  <2> DEFINE S == {d \in Callers : verify[d].pending > 0}
             S2 == {d \in Callers : verify'[d].pending > 0}
  <2>1. IsFiniteSet(S) /\ c \in S
    BY <1>1, <1>3, CallersFinite, FS_Subset
  <2>2. Cardinality(S \ {c}) = Cardinality(S) - 1
    BY <2>1, FS_RemoveElement, Zenon
  <2>3. checker'.tasks_remaining = IF last THEN checker.tasks_remaining - 1 ELSE checker.tasks_remaining
    BY <1>0, Zenon DEF CheckerInv, CheckerTypes
  <2>4. CASE last
    <3>1. S2 = S \ {c}
      BY <1>3, <1>5, <1>6, <2>4 DEF last
    <3> QED BY <2>2, <2>3, <2>4, <3>1, Zenon DEF CheckerInv, TasksCounted
  <2>5. CASE ~last
    <3>1. S2 = S
      BY <1>1, <1>3, <1>5, <1>6, <2>5 DEF last
    <3> QED BY <2>3, <2>5, <3>1, Zenon DEF CheckerInv, TasksCounted
  <2> QED BY <2>4, <2>5, Zenon
<1> QED BY <1>8, <1>10, <1>13, <1>14, <1>15, Zenon DEF CheckerInv

\* flush and the shutdown touch neither the pool nor a set.
LEMMA ControlInv ==
    ASSUME CheckerInv, UNCHANGED <<jobs, running, verify>>,
           checker' \in [stopped : BOOLEAN, pool : {"open", "joining", "joined"}, tasks_remaining : {checker.tasks_remaining},
                         mutex : {"none", "flush", "stop"}],
           StoppedInv'
    PROVE  CheckerInv'
<1>1. CheckerTypes'
  BY Zenon DEF CheckerInv, CheckerTypes
<1>2. Pool' = Pool /\ JobsInv'
  BY DEF CheckerInv, JobsInv, Pool, InPoolNow, UnderWay, Batches, batches_thread, base_batches, overflow_batches
<1>3. SetsInv'
  <2>1. \A c \in Callers : SetInv(c)'
    BY <1>2, SetKept, Zenon DEF CheckerInv, SetsInv
  <2> QED BY <2>1, Zenon DEF SetsInv
<1>4. TasksCounted'
  BY Zenon DEF CheckerInv, TasksCounted
<1> QED BY <1>1, <1>2, <1>3, <1>4, Zenon DEF CheckerInv

LEMMA InitChecker == CheckerInit => CheckerInv
<1> SUFFICES ASSUME CheckerInit PROVE CheckerInv
  BY Zenon
<1>1. /\ verify = [c \in Callers |-> Call("idle", 0)]
      /\ \A c \in Callers : /\ verify[c].at = "idle" /\ verify[c].pending = 0
                            /\ verify[c] \in CallType
  BY Zenon DEF CheckerInit, Call, CallType
<1>2. CheckerTypes
  BY <1>1 DEF CheckerInit, CheckerTypes, CallType
<1>3. JobsInv
  BY DEF CheckerInit, JobsInv, InPoolNow
<1>4. SetsInv
  BY <1>1, Zenon DEF SetsInv, SetInv, UnderWay
<1>5. StoppedInv
  BY Zenon DEF CheckerInit, StoppedInv
<1>6. TasksCounted
  <2>1. {c \in Callers : verify[c].pending > 0} = {}
    BY <1>1
  <2> QED BY <2>1, FS_EmptySet, Zenon DEF CheckerInit, TasksCounted
<1> QED BY <1>2, <1>3, <1>4, <1>5, <1>6, Zenon DEF CheckerInv

LEMMA NextChecker == CheckerInv /\ [CheckerNext]_checkerVars => CheckerInv'
<1> SUFFICES ASSUME CheckerInv, [CheckerNext]_checkerVars PROVE CheckerInv'
  BY Zenon
<1>1. ASSUME NEW c \in Callers, CallerStep(c) PROVE CheckerInv'
  BY <1>1, OwnInv, PostInv, RestInv, WaitInv, LoopInv, Zenon DEF CallerStep
<1>2. ASSUME NEW c \in Callers, NEW n \in SetSizes, VerifyEnter(c, n) PROVE CheckerInv'
  BY <1>2, EnterInv, Zenon
<1>3. ASSUME NEW t \in PoolThread, PoolThreadStep(t) PROVE CheckerInv'
  BY <1>3, TakeInv, VerifyBatchInv, Zenon DEF PoolThreadStep
<1>4. CASE CheckerFlush
  BY <1>4, ControlInv, Zenon DEF CheckerFlush, CheckerInv, CheckerTypes, StoppedInv
<1>5. CASE CheckerFlushed
  BY <1>5, ControlInv, Zenon DEF CheckerFlushed, CheckerInv, CheckerTypes, StoppedInv
<1>6. CASE StopBlocks
  BY <1>6, ControlInv, Zenon DEF StopBlocks, CheckerInv, CheckerTypes, StoppedInv
<1>7. CASE StopVotes
  BY <1>7, ControlInv, Zenon DEF StopVotes, CheckerInv, CheckerTypes, StoppedInv
<1>8. CASE StopChecker
  BY <1>8, ControlInv, Zenon DEF StopChecker, Joined, CheckerInv, CheckerTypes, StoppedInv
<1>9. CASE PoolJoined
  BY <1>9, ControlInv, Zenon DEF PoolJoined, CheckerInv, CheckerTypes, StoppedInv
<1>10. CASE UNCHANGED checkerVars
  BY <1>10, ControlInv, Zenon DEF checkerVars, CheckerInv, CheckerTypes, StoppedInv
<1> QED BY <1>1, <1>2, <1>3, <1>4, <1>5, <1>6, <1>7, <1>8, <1>9, <1>10, Zenon DEF CheckerNext, StopStep

LEMMA SetsFollow == CheckerInv => SetsVerified
<1> SUFFICES ASSUME CheckerInv PROVE SetsVerified
  BY Zenon
<1>1. VerifiedWhole
  BY Zenon DEF CheckerInv, SetsInv, SetInv, VerifiedWhole, UnderWay
<1>2. VerifiedOnce
  <2> SUFFICES ASSUME NEW c \in Callers, UnderWay(c), NEW p \in Parts(c)
               PROVE  /\ p \subseteq 1 .. verify[c].size
                      /\ p \cap verify[c].checked = {} /\ p \cap OfCaller(verify[c].size) = {}
    BY Zenon DEF VerifiedOnce, UnderWay
  <2>1. PICK j \in InPoolNow : j.caller = c /\ p = OfBatch(j.batch)
    BY Zenon DEF Parts
  <2>2. j # NoJob
    BY <2>1 DEF NoJob, Callers
  <2>3. j \in Job /\ j.batch \in Batches(c) /\ j.batch \in Left(c)
    <3>1. j \in Job /\ j.batch \in Batches(c)
      BY <2>1, <2>2, PoolOfJobs, Zenon DEF Pool, CheckerInv, JobsInv
    <3>2. j = [caller |-> c, batch |-> j.batch]
      BY <2>1, <3>1, Zenon DEF Job
    <3> QED BY <3>1, <3>2, Zenon DEF Left
  <2>4. /\ verify[c].size \in Nat /\ Threaded(verify[c].size)
        /\ verify[c].checked = (UNION {OfBatch(b) : b \in Batches(c) \ Left(c)})
                                \cup (IF verify[c].at = "wait" THEN OfCaller(verify[c].size) ELSE {})
    BY Zenon DEF CheckerInv, CheckerTypes, CallType, SetsInv, SetInv
  <2>5. p \subseteq 1 .. verify[c].size /\ p \cap OfCaller(verify[c].size) = {}
    BY <2>1, <2>3, <2>4, SplitPartitions, Zenon DEF Batches
  <2>6. \A b \in Batches(c) \ Left(c) : p \cap OfBatch(b) = {}
    <3> SUFFICES ASSUME NEW b \in Batches(c) \ Left(c) PROVE p \cap OfBatch(b) = {}
      BY Zenon
    <3>1. b # j.batch
      BY <2>3, Zenon
    <3> QED BY <2>1, <2>3, <2>4, <3>1, SplitPartitions, Zenon DEF Batches
  <2>7. p \cap verify[c].checked = {}
    <3> SUFFICES ASSUME NEW i \in p, i \in verify[c].checked PROVE FALSE
      BY Zenon
    <3>1. i \in OfCaller(verify[c].size) \/ \E b \in Batches(c) \ Left(c) : i \in OfBatch(b)
      BY <2>4, Zenon
    <3> QED BY <2>5, <2>6, <3>1, Zenon
  <2> QED BY <2>5, <2>7, Zenon
<1> QED BY <1>1, <1>2, Zenon DEF CheckerInv, SetsVerified

\* signature_checker::verify returns only when every signature of its set was verified, by
\* one thread each, for any sizes of sets, any number of threads and any order of their
\* steps with flush and with the shutdown of the node; tasks_remaining is exact.
THEOREM SetsVerifiedTheorem == CheckerSpec => []SetsVerified
BY InitChecker, NextChecker, SetsFollow, PTL DEF CheckerSpec

-----------------------------------------------------------------------------
(* The buffers of the UDP socket: a buffer is in one place, allocate always *)
(* has one to give, and the buffers implement DatagramQueue.                *)

(* Sequences                                                               *)

\* What taking the front of a queue leaves.
LEMMA TailFacts ==
    ASSUME NEW S, NEW s \in Seq(S), s # <<>>
    PROVE  /\ Len(s) \in Nat \ {0} /\ Head(s) = s[1] /\ Head(s) \in S
           /\ Tail(s) \in Seq(S) /\ Len(Tail(s)) = Len(s) - 1
           /\ \A i \in 1 .. Len(s) - 1 : Tail(s)[i] = s[i + 1]
  OBVIOUS

\* What adding to a queue gives.
LEMMA AppendFacts ==
    ASSUME NEW S, NEW s \in Seq(S), NEW e \in S
    PROVE  /\ Len(s) \in Nat /\ Append(s, e) \in Seq(S) /\ Len(Append(s, e)) = Len(s) + 1
           /\ \A i \in 1 .. Len(s) : Append(s, e)[i] = s[i]
           /\ Append(s, e)[Len(s) + 1] = e
  OBVIOUS

\* The front of a queue without repetitions is not in the rest of it.
LEMMA TailDistinct ==
    ASSUME NEW S, NEW s \in Seq(S), s # <<>>, Distinct(s)
    PROVE  /\ Distinct(Tail(s)) /\ Without(Tail(s), Head(s))
           /\ \A b : Without(s, b) => Without(Tail(s), b) /\ Head(s) # b
  <1>1. /\ Len(s) \in Nat \ {0} /\ Head(s) = s[1]
        /\ Len(Tail(s)) = Len(s) - 1
        /\ \A i \in 1 .. Len(s) - 1 : Tail(s)[i] = s[i + 1]
    BY TailFacts, Zenon
  <1> QED  BY <1>1, SMTT(30) DEF Distinct, Without

\* Adding what a queue does not hold keeps it without repetitions.
LEMMA AppendDistinct ==
    ASSUME NEW S, NEW s \in Seq(S), NEW e \in S, Distinct(s), Without(s, e)
    PROVE  /\ Distinct(Append(s, e))
           /\ \A b : Without(s, b) /\ b # e => Without(Append(s, e), b)
  <1>1. /\ Len(s) \in Nat /\ Len(Append(s, e)) = Len(s) + 1
        /\ \A i \in 1 .. Len(s) : Append(s, e)[i] = s[i]
        /\ Append(s, e)[Len(s) + 1] = e
    BY AppendFacts
  <1> QED  BY <1>1, SMTT(30) DEF Distinct, Without

-----------------------------------------------------------------------------
(* The inductive invariant: with the places of the buffers, their number,  *)
(* and what is in the ones that were filled.                               *)

Counted ==
    Len(free) + Len(full) + Cardinality(Holding) + Cardinality(Busy) = Count

ContentsOK ==
    /\ \A r \in Holding : rdata[r] \in Buffer
    /\ \A p \in Busy : pdata[p] \in Buffer /\ content[pdata[p]] \in Datagram
    /\ \A r \in Receiver : receiver[r] = "filled" => content[rdata[r]] \in Datagram
    /\ \A i \in 1 .. Len(full) : content[full[i]] \in Datagram

NoneWaits == \A r \in Receiver : receiver[r] \notin {"waiting", "woken", "undefined"}

UdpInv == UdpTypeOK /\ BuffersExclusive /\ Counted /\ ContentsOK /\ NoneWaits

\* The threads that hold buffers are finitely many.
LEMMA HoldersFinite ==
    ASSUME UdpTypeOK
    PROVE  /\ IsFiniteSet(Holding) /\ IsFiniteSet(Busy)
           /\ Cardinality(Holding) \in Nat /\ Cardinality(Busy) \in Nat
           /\ Cardinality(Holding) <= Cardinality(Receiver)
           /\ Cardinality(Busy) <= Cardinality(Processor)
           /\ Cardinality(Receiver) \in Nat /\ Cardinality(Processor) \in Nat
           /\ \A r \in Receiver \ Holding : Cardinality(Holding) <= Cardinality(Receiver) - 1
  <1>1. Holding \subseteq Receiver /\ Busy \subseteq Processor
    BY Zenon DEF Holding, Busy
  <1>2. /\ IsFiniteSet(Holding) /\ IsFiniteSet(Busy)
        /\ Cardinality(Holding) <= Cardinality(Receiver)
        /\ Cardinality(Busy) <= Cardinality(Processor)
    BY <1>1, FS_Subset, ThreadsFinite, Zenon
  <1>3. /\ Cardinality(Holding) \in Nat /\ Cardinality(Busy) \in Nat
        /\ Cardinality(Receiver) \in Nat /\ Cardinality(Processor) \in Nat
    BY <1>2, FS_CardinalityType, ThreadsFinite, Zenon
  <1>4. ASSUME NEW r \in Receiver \ Holding
        PROVE  Cardinality(Holding) <= Cardinality(Receiver) - 1
    <2>1. IsFiniteSet(Receiver \ {r}) /\ Cardinality(Receiver \ {r}) = Cardinality(Receiver) - 1
      BY FS_RemoveElement, ThreadsFinite, Zenon
    <2>2. Holding \subseteq Receiver \ {r}
      BY <1>1, Zenon
    <2> QED  BY <2>1, <2>2, FS_Subset
  <1> QED  BY <1>2, <1>3, <1>4, Zenon

\* A receiver that has no buffer finds one: the others hold fewer than there are.
LEMMA AllocateFinds ==
    ASSUME UdpInv, NEW r \in Receiver, Receives(r)
    PROVE  free # <<>> \/ full # <<>>
  <1>1. r \in Receiver \ Holding
    BY Zenon DEF Receives, Holding, ReceiverHolds
  <1>2. /\ Cardinality(Holding) <= Cardinality(Receiver) - 1
        /\ Cardinality(Busy) <= Cardinality(Processor)
        /\ Cardinality(Holding) \in Nat /\ Cardinality(Busy) \in Nat
        /\ Cardinality(Receiver) \in Nat /\ Cardinality(Processor) \in Nat
    BY <1>1, HoldersFinite, Zenon DEF UdpInv
  <1>3. Count \in Nat /\ Count > Cardinality(Receiver) + Cardinality(Processor)
    BY ThreadsFinite, Zenon
  <1>4. Len(free) + Len(full) # 0
    BY <1>2, <1>3 DEF UdpInv, Counted
  <1>5. Len(<<>>) = 0
    BY Zenon
  <1> QED  BY <1>4, <1>5

\* No receiver waits, so a notify_all changes the state of processors only.
LEMMA WakeReceivers ==
    ASSUME UdpTypeOK, NoneWaits
    PROVE  Wake(receiver) = receiver
  BY Zenon DEF UdpTypeOK, NoneWaits, Wake

\* A notify_all makes no processor busy or idle.
LEMMA WakeProcessors ==
    ASSUME UdpTypeOK
    PROVE  /\ Wake(processor) \in [Processor -> {"loop", "woken", "waiting", "busy", "done"}]
           /\ \A p \in Processor : Wake(processor)[p] = "busy" <=> processor[p] = "busy"
  BY Zenon DEF UdpTypeOK, Wake

-----------------------------------------------------------------------------
(* Every step keeps the invariant.                                         *)

\* Initially every buffer is free.
LEMMA UdpInvInit == UdpInit => UdpInv
  <1> SUFFICES ASSUME UdpInit PROVE UdpInv
    BY Zenon
  <1> USE DEF UdpInit
  <1>0. Count \in Nat /\ Len(full) = 0 /\ Len(free) = Count
    BY ThreadsFinite DEF Buffer
  <1>1. UdpTypeOK
    <2>1. free \in Seq(Buffer)
      BY <1>0 DEF Buffer
    <2>2. full \in Seq(Buffer)
      OBVIOUS
    <2> QED  BY <2>1, <2>2, Zenon DEF UdpTypeOK, ReceiverHolds
  <1>2. Holding = {} /\ Busy = {}
    BY Zenon DEF Holding, Busy, ReceiverHolds
  <1>3. BuffersExclusive
    BY <1>0, <1>2 DEF BuffersExclusive, Distinct, Without, Buffer
  <1>4. Counted
    BY <1>0, <1>2, FS_EmptySet DEF Counted
  <1>5. ContentsOK /\ NoneWaits
    BY <1>0, <1>2 DEF ContentsOK, NoneWaits
  <1> QED  BY <1>1, <1>3, <1>4, <1>5, Zenon DEF UdpInv

\* allocate gives a free buffer to a receiver.
LEMMA AllocateFreeInv ==
    ASSUME UdpInv, NEW r \in Receiver, AllocateFree(r)
    PROVE  UdpInv'
  <1> USE DEF UdpInv
  <1>1. r \notin Holding /\ Holding' = Holding \cup {r} /\ Busy' = Busy
    BY Zenon DEF AllocateFree, Receives, Posts, Holding, Busy, ReceiverHolds, UdpTypeOK, processorVars
  <1>2. /\ Head(free) \in Buffer /\ Tail(free) \in Seq(Buffer)
        /\ Len(free) \in Nat \ {0} /\ Len(Tail(free)) = Len(free) - 1
        /\ Head(free) = free[1]
    BY TailFacts, Zenon DEF AllocateFree, UdpTypeOK
  <1>3. /\ Distinct(Tail(free)) /\ Without(Tail(free), Head(free))
        /\ \A b : Without(free, b) => Without(Tail(free), b) /\ Head(free) # b
    BY TailDistinct, Zenon DEF AllocateFree, UdpTypeOK, BuffersExclusive
  <1>4. UdpTypeOK'
    BY <1>2, Zenon DEF UdpTypeOK, AllocateFree, Posts, ReceiverHolds, netVars, processorVars
  <1>5. BuffersExclusive'
    <2>1. \A s \in Holding : rdata'[s] = rdata[s]
      BY <1>1, Zenon DEF AllocateFree, Posts, UdpTypeOK, Holding
    <2>2. rdata'[r] = Head(free)
      BY Zenon DEF AllocateFree, Posts, UdpTypeOK
    <2>3. Without(full, Head(free))
      BY <1>2, <1>3, Zenon DEF BuffersExclusive, Without
    <2> QED
      BY <1>1, <1>3, <2>1, <2>2, <2>3 DEF BuffersExclusive, AllocateFree, processorVars, Without
  <1>6. Counted'
    <2>1. Cardinality(Holding') = Cardinality(Holding) + 1
      BY <1>1, FS_AddElement, HoldersFinite, Zenon
    <2>2. Len(full) \in Nat
      BY DEF UdpTypeOK
    <2> QED
      BY <1>1, <1>2, <2>1, <2>2, HoldersFinite DEF Counted, AllocateFree
  <1>7. ContentsOK' /\ NoneWaits'
    BY <1>1, <1>2, Zenon DEF ContentsOK, NoneWaits, AllocateFree, Posts, UdpTypeOK, processorVars, ReceiverHolds, Holding
  <1> QED  BY <1>4, <1>5, <1>6, <1>7, Zenon

\* allocate drops the oldest queued buffer and gives it to a receiver.
LEMMA AllocateFullInv ==
    ASSUME UdpInv, NEW r \in Receiver, AllocateFull(r)
    PROVE  UdpInv'
  <1> USE DEF UdpInv, Oldest
  <1>1. r \notin Holding /\ Holding' = Holding \cup {r} /\ Busy' = Busy
    BY Zenon DEF AllocateFull, Receives, Posts, Holding, Busy, ReceiverHolds, UdpTypeOK, processorVars
  <1>2. /\ Head(full) \in Buffer /\ Tail(full) \in Seq(Buffer)
        /\ Len(full) \in Nat \ {0} /\ Len(Tail(full)) = Len(full) - 1
        /\ Head(full) = full[1]
        /\ \A i \in 1 .. Len(full) - 1 : Tail(full)[i] = full[i + 1]
    BY TailFacts, Zenon DEF AllocateFull, UdpTypeOK
  <1>3. /\ Distinct(Tail(full)) /\ Without(Tail(full), Head(full))
        /\ \A b : Without(full, b) => Without(Tail(full), b) /\ Head(full) # b
    BY TailDistinct, Zenon DEF AllocateFull, UdpTypeOK, BuffersExclusive
  <1>4. UdpTypeOK'
    BY <1>2, Zenon DEF UdpTypeOK, AllocateFull, Posts, ReceiverHolds, netVars, processorVars
  <1>5. BuffersExclusive'
    <2>1. \A s \in Holding : rdata'[s] = rdata[s]
      BY <1>1, Zenon DEF AllocateFull, Posts, UdpTypeOK, Holding
    <2>2. rdata'[r] = Head(full)
      BY Zenon DEF AllocateFull, Posts, UdpTypeOK
    <2>3. Without(free, Head(full)) /\ \A i \in 1 .. Len(Tail(full)) : Without(free, Tail(full)[i])
      BY <1>2 DEF BuffersExclusive
    <2> QED
      BY <1>1, <1>3, <2>1, <2>2, <2>3 DEF BuffersExclusive, AllocateFull, processorVars
  <1>6. Counted'
    <2>1. Cardinality(Holding') = Cardinality(Holding) + 1
      BY <1>1, FS_AddElement, HoldersFinite, Zenon
    <2>2. Len(free) \in Nat
      BY DEF UdpTypeOK
    <2> QED
      BY <1>1, <1>2, <2>1, <2>2, HoldersFinite DEF Counted, AllocateFull
  <1>7. ContentsOK' /\ NoneWaits'
    BY <1>1, <1>2 DEF ContentsOK, NoneWaits, AllocateFull, Posts, UdpTypeOK, processorVars, ReceiverHolds, Holding
  <1> QED  BY <1>4, <1>5, <1>6, <1>7, Zenon

\* The socket fills a buffer that only its receiver holds.
LEMMA FilledInv ==
    ASSUME UdpInv, NEW r \in Receiver, NEW d \in Datagram, Filled(r, d)
    PROVE  UdpInv'
  <1> USE DEF UdpInv
  <1>1. r \in Holding /\ Holding' = Holding /\ Busy' = Busy
    BY Zenon DEF Filled, Holding, Busy, ReceiverHolds, UdpTypeOK, processorVars
  <1>2. rdata[r] \in Buffer /\ content'[rdata[r]] = d
    BY <1>1, Zenon DEF ContentsOK, Filled, UdpTypeOK
  <1>3. \A b \in Buffer : b # rdata[r] => content'[b] = content[b]
    BY Zenon DEF Filled, UdpTypeOK
  <1>4. UdpTypeOK'
    BY <1>2, Zenon DEF UdpTypeOK, Filled, ReceiverHolds, netVars, processorVars
  <1>5. BuffersExclusive' /\ Counted'
    BY <1>1, Zenon DEF BuffersExclusive, Counted, Filled, processorVars
  <1>6. ContentsOK'
    <2>1. \A i \in 1 .. Len(full) : full[i] \in Buffer /\ full[i] # rdata[r]
      BY <1>1 DEF BuffersExclusive, Without, UdpTypeOK
    <2>2. \A p \in Busy : pdata[p] # rdata[r]
      BY <1>1, Zenon DEF BuffersExclusive
    <2>3. \A s \in Receiver : receiver'[s] = "filled" =>
              s = r \/ (receiver[s] = "filled" /\ s \in Holding /\ rdata[s] # rdata[r])
      BY <1>1, Zenon DEF BuffersExclusive, Filled, UdpTypeOK, Holding, ReceiverHolds
    <2> QED
      BY <1>1, <1>2, <1>3, <2>1, <2>2, <2>3 DEF ContentsOK, Filled, processorVars
  <1>7. NoneWaits'
    BY Zenon DEF NoneWaits, Filled, UdpTypeOK
  <1> QED  BY <1>4, <1>5, <1>6, <1>7, Zenon

\* An error changes the state of the receiver only.
LEMMA FailedInv ==
    ASSUME UdpInv, NEW r \in Receiver, Failed(r)
    PROVE  UdpInv'
  <1> USE DEF UdpInv
  <1>1. Holding' = Holding /\ Busy' = Busy
    BY Zenon DEF Failed, Holding, Busy, ReceiverHolds, UdpTypeOK, processorVars
  <1>2. UdpTypeOK' /\ NoneWaits'
    BY Zenon DEF UdpTypeOK, NoneWaits, Failed, ReceiverHolds, netVars, processorVars, bufferVars
  <1>3. BuffersExclusive' /\ Counted'
    BY <1>1, Zenon DEF BuffersExclusive, Counted, Failed, processorVars, bufferVars
  <1>4. ContentsOK'
    BY <1>1, Zenon DEF ContentsOK, Failed, processorVars, bufferVars, UdpTypeOK
  <1> QED  BY <1>2, <1>3, <1>4, Zenon

\* A receiver queues the buffer it filled.
LEMMA EnqueueInv ==
    ASSUME UdpInv, NEW r \in Receiver, Enqueue(r)
    PROVE  UdpInv'
  <1> USE DEF UdpInv
  <1>0. receiver' = [receiver EXCEPT ![r] = "ready"] /\ receiver[r] = "filled"
    BY WakeReceivers, Zenon DEF Enqueue
  <1>1. r \in Holding /\ Holding' = Holding \ {r}
    BY <1>0, Zenon DEF Holding, ReceiverHolds, UdpTypeOK
  <1>2. Busy' = Busy /\ processor' \in [Processor -> {"loop", "woken", "waiting", "busy", "done"}]
    BY WakeProcessors, Zenon DEF Enqueue, Busy
  <1>3. rdata[r] \in Buffer /\ content[rdata[r]] \in Datagram
    BY <1>0, <1>1, Zenon DEF ContentsOK
  <1>4. Without(full, rdata[r]) /\ Without(free, rdata[r])
    BY <1>1, Zenon DEF BuffersExclusive
  <1>5. /\ full' \in Seq(Buffer) /\ Len(full) \in Nat /\ Len(full') = Len(full) + 1
        /\ \A i \in 1 .. Len(full) : full'[i] = full[i]
        /\ full'[Len(full) + 1] = rdata[r]
    BY <1>3, AppendFacts DEF Enqueue, UdpTypeOK
  <1>6. Distinct(full') /\ \A b : Without(full, b) /\ b # rdata[r] => Without(full', b)
    BY <1>3, <1>4, AppendDistinct, Zenon DEF Enqueue, UdpTypeOK, BuffersExclusive
  <1>7. \A s \in Holding' : s \in Holding /\ rdata'[s] = rdata[s] /\ rdata[s] # rdata[r]
    BY <1>1, Zenon DEF Enqueue, UdpTypeOK, BuffersExclusive, Holding
  <1>8. UdpTypeOK' /\ NoneWaits'
    BY <1>0, <1>2, <1>5, Zenon DEF UdpTypeOK, NoneWaits, Enqueue, netVars
  <1>9. BuffersExclusive'
    <2>1. \A i \in 1 .. Len(full') : Without(free, full'[i])
      BY <1>4, <1>5 DEF BuffersExclusive
    <2>2. \A p \in Busy : pdata[p] # rdata[r]
      BY <1>1, Zenon DEF BuffersExclusive
    <2> QED
      BY <1>2, <1>6, <1>7, <2>1, <2>2 DEF BuffersExclusive, Enqueue
  <1>10. Counted'
    <2>1. Cardinality(Holding') = Cardinality(Holding) - 1
      BY <1>1, FS_RemoveElement, HoldersFinite, Zenon
    <2>2. Len(free) \in Nat
      BY DEF UdpTypeOK
    <2>3. /\ Cardinality(Holding) \in Nat /\ Cardinality(Busy) \in Nat /\ Counted
          /\ free' = free /\ Len(full) \in Nat /\ Len(full') = Len(full) + 1
      BY <1>5, HoldersFinite, Zenon DEF Enqueue
    <2> QED
      BY ONLY <1>2, <2>1, <2>2, <2>3 DEF Counted
  <1>11. ContentsOK'
    <2>1. \A s \in Receiver : receiver'[s] = "filled" => s \in Holding' /\ receiver[s] = "filled"
      BY <1>0, <1>1, Zenon DEF UdpTypeOK, Holding, ReceiverHolds
    <2> QED
      BY <1>2, <1>3, <1>5, <1>7, <2>1 DEF ContentsOK, Enqueue
  <1> QED  BY <1>8, <1>9, <1>10, <1>11, Zenon

\* A receiver frees the buffer of a failed receive.
LEMMA ReleaseFailedInv ==
    ASSUME UdpInv, NEW r \in Receiver, ReleaseFailed(r)
    PROVE  UdpInv'
  <1> USE DEF UdpInv
  <1>0. /\ receiver' = [receiver EXCEPT ![r] = IF on THEN "ready" ELSE "off"]
        /\ receiver[r] = "failed"
    BY WakeReceivers, Zenon DEF ReleaseFailed, Returned
  <1>1. r \in Holding /\ Holding' = Holding \ {r}
    BY <1>0, Zenon DEF Holding, ReceiverHolds, UdpTypeOK
  <1>2. Busy' = Busy /\ processor' \in [Processor -> {"loop", "woken", "waiting", "busy", "done"}]
    BY WakeProcessors, Zenon DEF ReleaseFailed, Returned, Busy
  <1>3. rdata[r] \in Buffer
    BY <1>1, Zenon DEF ContentsOK
  <1>4. Without(full, rdata[r]) /\ Without(free, rdata[r])
    BY <1>1, Zenon DEF BuffersExclusive
  <1>5. free' \in Seq(Buffer) /\ Len(free) \in Nat /\ Len(free') = Len(free) + 1
    BY <1>3, AppendFacts, Zenon DEF ReleaseFailed, Returned, UdpTypeOK
  <1>6. Distinct(free') /\ \A b : Without(free, b) /\ b # rdata[r] => Without(free', b)
    BY <1>3, <1>4, AppendDistinct, Zenon DEF ReleaseFailed, Returned, UdpTypeOK, BuffersExclusive
  <1>7. \A s \in Holding' : s \in Holding /\ rdata'[s] = rdata[s] /\ rdata[s] # rdata[r]
    BY <1>1, Zenon DEF ReleaseFailed, Returned, UdpTypeOK, BuffersExclusive, Holding
  <1>8. UdpTypeOK' /\ NoneWaits'
    BY <1>0, <1>2, <1>5, Zenon DEF UdpTypeOK, NoneWaits, ReleaseFailed, Returned, netVars
  <1>9. BuffersExclusive'
    <2>1. \A i \in 1 .. Len(full) : Without(free', full[i])
      BY <1>4, <1>6, Zenon DEF BuffersExclusive, Without
    <2>2. \A p \in Busy : pdata[p] # rdata[r]
      BY <1>1, Zenon DEF BuffersExclusive
    <2>3. BuffersExclusive /\ full' = full /\ pdata' = pdata
      BY Zenon DEF ReleaseFailed, Returned
    <2> QED
      BY ONLY <1>2, <1>4, <1>6, <1>7, <2>1, <2>2, <2>3, Zenon DEF BuffersExclusive
  <1>10. Counted'
    <2>1. Cardinality(Holding') = Cardinality(Holding) - 1
      BY <1>1, FS_RemoveElement, HoldersFinite, Zenon
    <2>2. Len(full) \in Nat
      BY DEF UdpTypeOK
    <2> QED
      BY <1>2, <1>5, <2>1, <2>2, HoldersFinite DEF Counted, ReleaseFailed, Returned
  <1>11. ContentsOK'
    <2>1. \A s \in Receiver : receiver'[s] = "filled" => s \in Holding' /\ receiver[s] = "filled"
      BY <1>0, <1>1, Zenon DEF UdpTypeOK, Holding, ReceiverHolds
    <2> QED
      BY <1>2, <1>7, <2>1, Zenon DEF ContentsOK, ReleaseFailed, Returned
  <1> QED  BY <1>8, <1>9, <1>10, <1>11, Zenon

\* A processor takes the oldest queued buffer.
LEMMA DequeueInv ==
    ASSUME UdpInv, NEW p \in Processor, Dequeue(p)
    PROVE  UdpInv'
  <1> USE DEF UdpInv, Oldest
  <1>1. p \notin Busy /\ Busy' = Busy \cup {p} /\ Holding' = Holding
    BY Zenon DEF Dequeue, Holding, Busy, UdpTypeOK, receiverVars
  <1>2. /\ Head(full) \in Buffer /\ Tail(full) \in Seq(Buffer)
        /\ Len(full) \in Nat \ {0} /\ Len(Tail(full)) = Len(full) - 1
        /\ Head(full) = full[1]
        /\ \A i \in 1 .. Len(full) - 1 : Tail(full)[i] = full[i + 1]
    BY TailFacts, Zenon DEF Dequeue, UdpTypeOK
  <1>3. /\ Distinct(Tail(full)) /\ Without(Tail(full), Head(full))
        /\ \A b : Without(full, b) => Without(Tail(full), b) /\ Head(full) # b
    BY TailDistinct, Zenon DEF Dequeue, UdpTypeOK, BuffersExclusive
  <1>4. UdpTypeOK' /\ NoneWaits'
    BY <1>2, Zenon DEF UdpTypeOK, NoneWaits, Dequeue, netVars, receiverVars
  <1>5. (\A q \in Busy : pdata'[q] = pdata[q]) /\ pdata'[p] = Head(full)
    BY <1>1, Zenon DEF Dequeue, UdpTypeOK, Busy
  <1>6. BuffersExclusive'
    <2>1. Without(free, Head(full)) /\ \A i \in 1 .. Len(Tail(full)) : Without(free, Tail(full)[i])
      BY <1>2 DEF BuffersExclusive
    <2> QED
      BY <1>1, <1>3, <1>5, <2>1 DEF BuffersExclusive, Dequeue, receiverVars
  <1>7. Counted'
    <2>1. Cardinality(Busy') = Cardinality(Busy) + 1
      BY <1>1, FS_AddElement, HoldersFinite, Zenon
    <2>2. Len(free) \in Nat
      BY DEF UdpTypeOK
    <2>3. /\ Cardinality(Holding) \in Nat /\ Cardinality(Busy) \in Nat /\ Counted
          /\ free' = free /\ full' = Tail(full)
      BY HoldersFinite, Zenon DEF Dequeue
    <2>4. Len(full) \in Nat \ {0} /\ Len(full') = Len(full) - 1 /\ Holding' = Holding
      BY <1>1, <1>2, <2>3, Zenon
    <2> QED
      BY ONLY <2>1, <2>2, <2>3, <2>4 DEF Counted
  <1>8. ContentsOK'
    BY <1>1, <1>2, <1>5 DEF ContentsOK, Dequeue, receiverVars
  <1> QED  BY <1>4, <1>6, <1>7, <1>8, Zenon

\* A processor frees the buffer it serviced.
LEMMA ReleaseInv ==
    ASSUME UdpInv, NEW p \in Processor, Release(p)
    PROVE  UdpInv'
  <1> USE DEF UdpInv
  <1>0. receiver' = receiver
    BY WakeReceivers, Zenon DEF Release, Returned
  <1>1. p \in Busy /\ Busy' = Busy \ {p} /\ Holding' = Holding
    BY <1>0, WakeProcessors, Zenon DEF Release, Returned, Holding, Busy, UdpTypeOK
  <1>2. processor' \in [Processor -> {"loop", "woken", "waiting", "busy", "done"}]
    BY WakeProcessors, Zenon DEF Release, Returned
  <1>3. pdata[p] \in Buffer
    BY <1>1, Zenon DEF ContentsOK
  <1>4. Without(full, pdata[p]) /\ Without(free, pdata[p])
    BY <1>1, Zenon DEF BuffersExclusive
  <1>5. free' \in Seq(Buffer) /\ Len(free) \in Nat /\ Len(free') = Len(free) + 1
    BY <1>3, AppendFacts, Zenon DEF Release, Returned, UdpTypeOK
  <1>6. Distinct(free') /\ \A b : Without(free, b) /\ b # pdata[p] => Without(free', b)
    BY <1>3, <1>4, AppendDistinct, Zenon DEF Release, Returned, UdpTypeOK, BuffersExclusive
  <1>7. \A q \in Busy' : q \in Busy /\ pdata'[q] = pdata[q] /\ pdata[q] # pdata[p]
    BY <1>1, Zenon DEF Release, Returned, UdpTypeOK, BuffersExclusive, Busy
  <1>8. UdpTypeOK' /\ NoneWaits'
    BY <1>0, <1>2, <1>5, Zenon DEF UdpTypeOK, NoneWaits, Release, Returned, netVars
  <1>9. BuffersExclusive'
    <2>1. \A i \in 1 .. Len(full) : Without(free', full[i])
      BY <1>4, <1>6, Zenon DEF BuffersExclusive, Without
    <2>2. \A r \in Holding : rdata[r] # pdata[p]
      BY <1>1, Zenon DEF BuffersExclusive
    <2>3. BuffersExclusive /\ full' = full /\ rdata' = rdata
      BY Zenon DEF Release, Returned
    <2> QED
      BY ONLY <1>1, <1>4, <1>6, <1>7, <2>1, <2>2, <2>3 DEF BuffersExclusive
  <1>10. Counted'
    <2>1. Cardinality(Busy') = Cardinality(Busy) - 1
      BY <1>1, FS_RemoveElement, HoldersFinite, Zenon
    <2>2. Len(full) \in Nat
      BY DEF UdpTypeOK
    <2> QED
      BY <1>1, <1>5, <2>1, <2>2, HoldersFinite DEF Counted, Release, Returned
  <1>11. ContentsOK'
    BY <1>0, <1>1, <1>7, Zenon DEF ContentsOK, Release, Returned
  <1> QED  BY <1>8, <1>9, <1>10, <1>11, Zenon

\* The other steps move no buffer.
LEMMA OtherStepsInv ==
    ASSUME UdpInv,
           \/ \E p \in Processor : Loop(p) \/ DequeueNone(p)
           \/ StopOn \/ StopBuffers \/ UNCHANGED udpVars
    PROVE  UdpInv'
  <1> USE DEF UdpInv, bufferVars, netVars, receiverVars, processorVars
  <1>1. /\ UNCHANGED <<free, full, content, receiver, rdata, pdata>>
        /\ on' \in BOOLEAN /\ closed' \in BOOLEAN /\ udpStopped' \in BOOLEAN
        /\ processor' \in [Processor -> {"loop", "woken", "waiting", "busy", "done"}]
        /\ \A p \in Processor : processor'[p] = "busy" <=> processor[p] = "busy"
    <2>1. ASSUME NEW p \in Processor, Loop(p) \/ DequeueNone(p) PROVE <1>1!:
      BY <2>1, Zenon DEF Loop, DequeueNone, UdpTypeOK
    <2>2. CASE StopOn
      BY <2>2, Zenon DEF StopOn, UdpTypeOK
    <2>3. CASE StopBuffers
      BY <2>3, WakeProcessors, Zenon DEF StopBuffers, UdpTypeOK
    <2>4. CASE UNCHANGED udpVars
      BY <2>4, Zenon DEF udpVars, UdpTypeOK
    <2> QED  BY <2>1, <2>2, <2>3, <2>4, Zenon
  <1>2. Holding' = Holding /\ Busy' = Busy
    BY <1>1, Zenon DEF Holding, Busy
  <1>3. UdpTypeOK' /\ NoneWaits'
    BY <1>1, Zenon DEF UdpTypeOK, NoneWaits
  <1>4. BuffersExclusive' /\ Counted' /\ ContentsOK'
    BY <1>1, <1>2, Zenon DEF BuffersExclusive, Counted, ContentsOK
  <1> QED  BY <1>3, <1>4, Zenon

\* Every step keeps the invariant; AllocateNone is not enabled.
LEMMA UdpInvNext == UdpInv /\ [UdpNext]_udpVars => UdpInv'
  <1> SUFFICES ASSUME UdpInv, [UdpNext]_udpVars PROVE UdpInv'
    BY Zenon
  <1>1. ASSUME NEW r \in Receiver, AllocateFree(r) PROVE UdpInv'
    BY <1>1, AllocateFreeInv, Zenon
  <1>2. ASSUME NEW r \in Receiver, AllocateFull(r) PROVE UdpInv'
    BY <1>2, AllocateFullInv, Zenon
  <1>3. ASSUME NEW r \in Receiver, AllocateNone(r) PROVE FALSE
    BY <1>3, AllocateFinds, Zenon DEF AllocateNone
  <1>4. ASSUME NEW r \in Receiver, NEW d \in Datagram, Filled(r, d) PROVE UdpInv'
    BY <1>4, FilledInv, Zenon
  <1>5. ASSUME NEW r \in Receiver, Failed(r) PROVE UdpInv'
    BY <1>5, FailedInv, Zenon
  <1>6. ASSUME NEW r \in Receiver, Enqueue(r) PROVE UdpInv'
    BY <1>6, EnqueueInv, Zenon
  <1>7. ASSUME NEW r \in Receiver, ReleaseFailed(r) PROVE UdpInv'
    BY <1>7, ReleaseFailedInv, Zenon
  <1>8. ASSUME NEW p \in Processor, Dequeue(p) PROVE UdpInv'
    BY <1>8, DequeueInv, Zenon
  <1>9. ASSUME NEW p \in Processor, Release(p) PROVE UdpInv'
    BY <1>9, ReleaseInv, Zenon
  <1>10. CASE \/ \E p \in Processor : Loop(p) \/ DequeueNone(p)
              \/ StopOn \/ StopBuffers \/ UNCHANGED udpVars
    BY <1>10, OtherStepsInv, Zenon
  <1> QED
    BY <1>1, <1>2, <1>3, <1>4, <1>5, <1>6, <1>7, <1>8, <1>9, <1>10, Zenon
       DEF UdpNext, Allocate, ReceiverStep, ProcessorStep

-----------------------------------------------------------------------------
(* The results                                                             *)

\* The invariant holds in every behaviour.
LEMMA UdpInvHolds == UdpSpec => []UdpInv
  BY UdpInvInit, UdpInvNext, PTL DEF UdpSpec

\* A buffer is never in two places, for any number of buffers and threads.
THEOREM ExclusiveAlways == UdpSpec => []BuffersExclusive
  <1>1. UdpInv => BuffersExclusive
    BY Zenon DEF UdpInv
  <1> QED  BY <1>1, UdpInvHolds, PTL

\* With more buffers than threads, allocate neither blocks nor reads an empty queue.
THEOREM AllocateAlwaysDefined == UdpSpec => []AllocateDefined
  <1>1. UdpInv => AllocateDefined
    BY Zenon DEF UdpInv, NoneWaits, AllocateDefined
  <1> QED  BY <1>1, UdpInvHolds, PTL

\* Steps that change neither the queue of full buffers, nor the filled buffers, nor who
\* is busy, are invisible to the reader of the queue.
LEMMA Invisible ==
    ASSUME full' = full, Busy' = Busy,
           \A i \in DOMAIN full : content'[full[i]] = content[full[i]],
           \A p \in Busy : content'[pdata'[p]] = content[pdata[p]]
    PROVE  UNCHANGED <<Queued, Servicing>>
  BY Zenon DEF Queued, Servicing

\* The queue as a sequence of datagrams.
LEMMA QueuedFacts ==
    ASSUME UdpInv
    PROVE  /\ Queued \in Seq(Datagram) /\ Len(Queued) = Len(full)
           /\ \A i \in 1 .. Len(full) : Queued[i] = content[full[i]]
           /\ \A p \in Processor : Servicing[p] # Empty <=> p \in Busy
           /\ Servicing \in [Processor -> Datagram \cup {Empty}]
  <1>1. /\ Len(full) \in Nat /\ DOMAIN full = 1 .. Len(full)
        /\ \A i \in 1 .. Len(full) : content[full[i]] \in Datagram
    BY DEF UdpInv, UdpTypeOK, ContentsOK
  <1>2. Queued \in Seq(Datagram)
    BY <1>1 DEF Queued
  <1>3. Len(Queued) = Len(full) /\ \A i \in 1 .. Len(full) : Queued[i] = content[full[i]]
    BY <1>1, <1>2 DEF Queued
  <1>4. \A p \in Busy : content[pdata[p]] \in Datagram
    BY Zenon DEF UdpInv, ContentsOK
  <1> QED  BY <1>2, <1>3, <1>4, ThreadsFinite, Zenon DEF Servicing

LEMMA SeqIsFunction ==
    ASSUME NEW S, NEW s \in Seq(S)
    PROVE  s = [i \in 1 .. Len(s) |-> s[i]]
  OBVIOUS

\* Taking the front of the full buffers takes the front of the queue.
LEMMA QueuedTail ==
    ASSUME UdpInv, full # <<>>, full' = Tail(full), content' = content
    PROVE  Queued # <<>> /\ Head(Queued) = content[Head(full)] /\ Queued' = Tail(Queued)
  <1>1. /\ Len(full) \in Nat \ {0} /\ Head(full) = full[1] /\ Len(Tail(full)) = Len(full) - 1
        /\ \A i \in 1 .. Len(full) - 1 : Tail(full)[i] = full[i + 1]
        /\ Tail(full) \in Seq(Buffer)
    BY TailFacts, Zenon DEF UdpInv, UdpTypeOK
  <1>2. /\ Queued \in Seq(Datagram) /\ Len(Queued) = Len(full)
        /\ \A i \in 1 .. Len(full) : Queued[i] = content[full[i]]
    BY QueuedFacts, Zenon
  <1>3. Queued # <<>>
    BY <1>1, <1>2, Zenon
  <1>4. /\ Head(Queued) = Queued[1] /\ Tail(Queued) \in Seq(Datagram)
        /\ Len(Tail(Queued)) = Len(Queued) - 1
        /\ \A i \in 1 .. Len(Queued) - 1 : Tail(Queued)[i] = Queued[i + 1]
    BY <1>2, <1>3, TailFacts, Zenon
  <1>5. Queued' = [i \in 1 .. Len(full) - 1 |-> content[full[i + 1]]]
    BY <1>1 DEF Queued
  <1>6. Tail(Queued) = [i \in 1 .. Len(full) - 1 |-> content[full[i + 1]]]
    <2>1. \A i \in 1 .. Len(full) - 1 : Tail(Queued)[i] = content[full[i + 1]]
      BY <1>1, <1>2, <1>4
    <2>2. Tail(Queued) = [i \in 1 .. Len(full) - 1 |-> Tail(Queued)[i]]
      BY <1>1, <1>2, <1>4, SeqIsFunction, Zenon
    <2> QED  BY <2>1, <2>2, Zenon
  <1> QED  BY <1>1, <1>2, <1>3, <1>4, <1>5, <1>6

\* Queueing a filled buffer queues its datagram.
LEMMA QueuedAppend ==
    ASSUME UdpInv, NEW b \in Buffer, content[b] \in Datagram,
           full' = Append(full, b), content' = content
    PROVE  Queued' = Append(Queued, content[b])
  <1>1. /\ Len(full) \in Nat /\ Len(full') = Len(full) + 1 /\ full' \in Seq(Buffer)
        /\ \A i \in 1 .. Len(full) : full'[i] = full[i]
        /\ full'[Len(full) + 1] = b
    BY AppendFacts DEF UdpInv, UdpTypeOK
  <1>2. /\ Queued \in Seq(Datagram) /\ Len(Queued) = Len(full)
        /\ \A i \in 1 .. Len(full) : Queued[i] = content[full[i]]
    BY QueuedFacts, Zenon
  <1> DEFINE q == Append(Queued, content[b])
  <1>3. /\ q \in Seq(Datagram) /\ Len(q) = Len(full) + 1
        /\ \A i \in 1 .. Len(full) : q[i] = Queued[i]
        /\ q[Len(full) + 1] = content[b]
    BY <1>2, AppendFacts
  <1> HIDE DEF q
  <1>4. Queued' = [i \in 1 .. Len(full) + 1 |-> content[full'[i]]]
    BY <1>1 DEF Queued
  <1>5. \A i \in 1 .. Len(full) + 1 : q[i] = content[full'[i]]
    BY <1>1, <1>2, <1>3
  <1>6. q = [i \in 1 .. Len(full) + 1 |-> q[i]]
    BY <1>1, <1>3
  <1>7. Queued' = q
    BY <1>4, <1>5, <1>6, Zenon
  <1> QED  BY <1>7, Zenon DEF q

\* The datagrams kept are the buffers queued and serviced.
LEMMA KeptFacts ==
    ASSUME UdpInv
    PROVE  Queue!Kept = Len(full) + Cardinality(Busy)
  <1>1. {p \in Processor : Servicing[p] # Empty} = Busy
    BY QueuedFacts, Zenon DEF Busy
  <1>2. Len(Queued) = Len(full)
    BY QueuedFacts, Zenon
  <1> QED  BY <1>1, <1>2, Zenon DEF Queue!Kept, Queue!Cardinality, Cardinality

\* A step of the buffers is a step of the queue, or changes nothing there.
LEMMA QueueNext ==
    ASSUME UdpInv, UdpInv', [UdpNext]_udpVars
    PROVE  [Queue!Next]_<<Queued, Servicing>>
  <1> USE DEF bufferVars, netVars, receiverVars, processorVars
  <1>1. ASSUME NEW r \in Receiver, AllocateFree(r) PROVE UNCHANGED <<Queued, Servicing>>
    <2>1. full' = full /\ content' = content /\ Busy' = Busy /\ pdata' = pdata
      BY <1>1, Zenon DEF AllocateFree, Busy
    <2> QED  BY <2>1, Invisible, Zenon
  <1>2. ASSUME NEW r \in Receiver, AllocateFull(r) PROVE Queue!Drop
    <2>1. full # <<>> /\ full' = Tail(full) /\ content' = content /\ Busy' = Busy /\ pdata' = pdata
      BY <1>2, Zenon DEF AllocateFull, Busy, Oldest
    <2>2. Queued # <<>> /\ Queued' = Tail(Queued)
      BY <2>1, QueuedTail, Zenon
    <2>3. Servicing' = Servicing
      BY <2>1, Zenon DEF Servicing
    <2>4. r \in Receiver \ Holding
      BY <1>2, Zenon DEF AllocateFull, Receives, Holding, ReceiverHolds
    <2>5. Cardinality(Holding) <= Cardinality(Receiver) - 1
      BY <2>4, HoldersFinite, Zenon DEF UdpInv
    <2>6. /\ Cardinality(Holding) \in Nat /\ Cardinality(Busy) \in Nat
          /\ Cardinality(Receiver) \in Nat /\ Len(full) \in Nat /\ Count \in Nat
      BY HoldersFinite, ThreadsFinite DEF UdpInv, UdpTypeOK
    <2>7. Len(free) = 0
      BY <1>2, Zenon DEF AllocateFull
    <2>8. Len(free) + Len(full) + Cardinality(Holding) + Cardinality(Busy) = Count
      BY Zenon DEF UdpInv, Counted
    <2>9. Len(full) + Cardinality(Busy) >= Count - Cardinality(Receiver) + 1
      BY <2>5, <2>6, <2>7, <2>8
    <2>10. Queue!Kept >= Count - Cardinality(Receiver) + 1
      BY <2>9, KeptFacts, Zenon
    <2> QED  BY <2>2, <2>3, <2>10, Zenon DEF Queue!Drop
  <1>3. ASSUME NEW r \in Receiver, NEW d \in Datagram, Filled(r, d)
        PROVE  UNCHANGED <<Queued, Servicing>>
    <2>1. r \in Holding /\ full' = full /\ Busy' = Busy /\ pdata' = pdata
      BY <1>3, Zenon DEF Filled, Holding, ReceiverHolds, Busy
    <2>2. \A b \in Buffer : b # rdata[r] => content'[b] = content[b]
      BY <1>3, Zenon DEF Filled, UdpInv, UdpTypeOK
    <2>3. \A i \in DOMAIN full : full[i] \in Buffer /\ full[i] # rdata[r]
      BY <2>1 DEF UdpInv, UdpTypeOK, BuffersExclusive, Without
    <2>4. \A p \in Busy : pdata[p] \in Buffer /\ pdata[p] # rdata[r]
      BY <2>1, Zenon DEF UdpInv, ContentsOK, BuffersExclusive
    <2> QED  BY <2>1, <2>2, <2>3, <2>4, Invisible, Zenon
  <1>4. ASSUME NEW r \in Receiver, Failed(r) PROVE UNCHANGED <<Queued, Servicing>>
    <2>1. full' = full /\ content' = content /\ Busy' = Busy /\ pdata' = pdata
      BY <1>4, Zenon DEF Failed, Busy
    <2> QED  BY <2>1, Invisible, Zenon
  <1>5. ASSUME NEW r \in Receiver, Enqueue(r) PROVE \E d \in Datagram : Queue!Put(d)
    <2>1. rdata[r] \in Buffer /\ content[rdata[r]] \in Datagram
      BY <1>5, Zenon DEF Enqueue, UdpInv, ContentsOK, Holding, ReceiverHolds
    <2>2. full' = Append(full, rdata[r]) /\ content' = content /\ pdata' = pdata
      BY <1>5, Zenon DEF Enqueue
    <2>3. Busy' = Busy
      BY <1>5, WakeProcessors, Zenon DEF Enqueue, Busy, UdpInv
    <2>4. Queued' = Append(Queued, content[rdata[r]])
      BY <2>1, <2>2, QueuedAppend, Zenon
    <2>5. Servicing' = Servicing
      BY <2>2, <2>3, Zenon DEF Servicing
    <2> QED  BY <2>1, <2>4, <2>5, Zenon DEF Queue!Put
  <1>6. ASSUME NEW r \in Receiver, ReleaseFailed(r) PROVE UNCHANGED <<Queued, Servicing>>
    <2>1. full' = full /\ content' = content /\ pdata' = pdata
      BY <1>6, Zenon DEF ReleaseFailed, Returned
    <2>2. Busy' = Busy
      BY <1>6, WakeProcessors, Zenon DEF ReleaseFailed, Returned, Busy, UdpInv
    <2> QED  BY <2>1, <2>2, Invisible, Zenon
  <1>7. ASSUME NEW p \in Processor, Dequeue(p) PROVE Queue!Take(p)
    <2>1. full # <<>> /\ full' = Tail(full) /\ content' = content
      BY <1>7, Zenon DEF Dequeue, Oldest
    <2>2. Queued # <<>> /\ Queued' = Tail(Queued) /\ Head(Queued) = content[Head(full)]
      BY <2>1, QueuedTail, Zenon
    <2>3. p \notin Busy /\ Busy' = Busy \cup {p}
      BY <1>7, Zenon DEF Dequeue, Busy, UdpInv, UdpTypeOK
    <2>4. pdata' = [pdata EXCEPT ![p] = Head(full)] /\ pdata \in [Processor -> Buffer \cup {Empty}]
      BY <1>7, Zenon DEF Dequeue, Oldest, UdpInv, UdpTypeOK
    <2>5. Servicing[p] = Empty
      BY <2>3, Zenon DEF Servicing
    <2>6. Servicing' = [Servicing EXCEPT ![p] = Head(Queued)]
      BY <2>1, <2>2, <2>3, <2>4, Zenon DEF Servicing
    <2> QED  BY <2>2, <2>5, <2>6, Zenon DEF Queue!Take
  <1>8. ASSUME NEW p \in Processor, Release(p) PROVE Queue!Serviced(p)
    <2>1. full' = full /\ content' = content
      BY <1>8, Zenon DEF Release, Returned
    <2>2. p \in Busy /\ Busy' = Busy \ {p}
      BY <1>8, WakeProcessors, Zenon DEF Release, Returned, Busy, UdpInv, UdpTypeOK
    <2>3. pdata' = [pdata EXCEPT ![p] = Empty] /\ pdata \in [Processor -> Buffer \cup {Empty}]
      BY <1>8, Zenon DEF Release, Returned, UdpInv, UdpTypeOK
    <2>4. Servicing[p] # Empty
      BY <2>2, QueuedFacts, Zenon
    <2>5. Servicing' = [Servicing EXCEPT ![p] = Empty]
      BY <2>1, <2>2, <2>3, Zenon DEF Servicing
    <2>6. Queued' = Queued
      BY <2>1, Zenon DEF Queued
    <2> QED  BY <2>4, <2>5, <2>6, Zenon DEF Queue!Serviced
  <1>9. ASSUME NEW p \in Processor, Loop(p) \/ DequeueNone(p)
        PROVE  UNCHANGED <<Queued, Servicing>>
    <2>1. full' = full /\ content' = content /\ Busy' = Busy /\ pdata' = pdata
      BY <1>9, Zenon DEF Loop, DequeueNone, Busy, UdpInv, UdpTypeOK
    <2> QED  BY <2>1, Invisible, Zenon
  <1>10. ASSUME StopOn \/ StopBuffers \/ UNCHANGED udpVars PROVE UNCHANGED <<Queued, Servicing>>
    <2>1. full' = full /\ content' = content /\ pdata' = pdata
      BY <1>10, Zenon DEF StopOn, StopBuffers, udpVars
    <2>2. Busy' = Busy
      BY <1>10, WakeProcessors, Zenon DEF StopOn, StopBuffers, udpVars, Busy, UdpInv
    <2> QED  BY <2>1, <2>2, Invisible, Zenon
  <1>11. ASSUME NEW r \in Receiver, AllocateNone(r) PROVE FALSE
    BY <1>11, AllocateFinds, Zenon DEF AllocateNone
  <1> QED
    BY <1>1, <1>2, <1>3, <1>4, <1>5, <1>6, <1>7, <1>8, <1>9, <1>10, <1>11, Zenon
       DEF UdpNext, Allocate, ReceiverStep, ProcessorStep, Queue!Next

\* The buffers implement the queue of datagrams: in order, each to one thread, and
\* losing only the oldest when the room is used up.
THEOREM BuffersImplementQueue == UdpSpec => ImplementsQueue
  <1>1. UdpInit => Queue!Init
    <2> SUFFICES ASSUME UdpInit PROVE Queue!Init
      BY Zenon
    <2>1. Queued = <<>>
      BY DEF UdpInit, Queued
    <2>2. Servicing = [p \in Processor |-> Empty]
      BY Zenon DEF UdpInit, Servicing, Busy
    <2> QED  BY <2>1, <2>2, Zenon DEF Queue!Init
  <1>2. UdpInv /\ UdpInv' /\ [UdpNext]_udpVars => [Queue!Next]_<<Queued, Servicing>>
    BY QueueNext, Zenon
  <1> QED
    BY <1>1, <1>2, UdpInvHolds, PTL DEF UdpSpec, ImplementsQueue, Queue!Spec

-----------------------------------------------------------------------------
(* payment_wait *)

LEMMA InitPayment == PaymentInit => PaymentInv
<1> SUFFICES ASSUME PaymentInit PROVE PaymentInv
  BY Zenon
<1>1. <<>> \in Seq({"success", "nothing"}) /\ Len(<<>>) = 0
  OBVIOUS
<1>2. CallsInv
  BY <1>1, Zenon DEF PaymentInit, AlarmInit, CallsInv, Begun
<1>3. AnswersInv
  BY <1>1 DEF PaymentInit, AnswersInv, Begun
<1>4. ObserversInv
  BY Zenon DEF PaymentInit, ObserversInv
<1> QED BY <1>2, <1>3, <1>4, Zenon DEF PaymentInv

\* Steps of the alarm and of the clock
LEMMA AlarmInv ==
    ASSUME PaymentInv, UNCHANGED paymentVars,
           (AlarmStep \/ Tick \/ AlarmDestroy) \/ UNCHANGED alarmVars
    PROVE  PaymentInv'
<1>1. CallsInv /\ Begun' = Begun
  BY Zenon DEF PaymentInv, Begun, paymentVars
<1>2. /\ posted' \subseteq Begun
      /\ \A o \in operations' : o.function = Final \/ o.function \in Begun
  BY <1>1 DEF CallsInv, AlarmStep, AlarmRun, AlarmTop, AlarmWakes, Tick, AlarmDestroy, AlarmAdd, alarmVars
<1>3. CallsInv'
  BY <1>1, <1>2, Zenon DEF CallsInv, paymentVars
<1>4. AnswersInv'
  BY <1>1, Zenon DEF PaymentInv, AnswersInv, paymentVars
<1>5. ObserversInv' <=> ObserversInv
  BY Zenon DEF ObserversInv, paymentVars
<1> QED BY <1>3, <1>4, <1>5, Zenon DEF PaymentInv, paymentVars

LEMMA PaymentWaitInv == ASSUME PaymentInv, NEW w \in Wait, PaymentWait(w) PROVE PaymentInv'
<1>1. /\ CallsInv /\ AnswersInv /\ waiting[w] = "none" /\ (w > 1 => responses[w - 1] # <<>>)
      /\ operations' = operations \cup {[wakeup |-> now + Timeout, function |-> w]}
      /\ waiting' = [waiting EXCEPT ![w] = "started"]
      /\ UNCHANGED <<posted, payment_observers, completed, responses, erasing, observing, overlapped>>
  BY Zenon DEF PaymentInv, PaymentWait, AlarmAdd
<1>2. Begun' = Begun \cup {w} /\ w \notin Begun
  BY <1>1, Zenon DEF Begun, CallsInv
<1>3. CallsInv'
  <2>1. waiting' \in [Wait -> {"none", "started", "registered", "waiting"}]
    BY <1>1, Zenon DEF CallsInv
  <2>2. \A o \in operations' : o.function = Final \/ o.function \in Begun'
    BY <1>1, <1>2 DEF CallsInv
  <2> QED BY <1>1, <1>2, <2>1, <2>2, Zenon DEF CallsInv
<1>4. ASSUME NEW v \in 1 .. (w - 1) PROVE completed[v]
  <2>1. w \in Nat /\ w > 1 /\ w - 1 \in Wait
    BY <1>4, WaitsAssumption DEF Wait
  <2>2. Len(responses[w - 1]) # 0
    BY <1>1, <2>1 DEF CallsInv
  <2>3. completed[w - 1]
    BY <1>1, <2>1, <2>2 DEF AnswersInv, CallsInv
  <2>4. w - 1 \in Begun
    BY <1>1, <2>1, <2>3, Zenon DEF AnswersInv
  <2>5. v = w - 1 \/ v \in 1 .. ((w - 1) - 1)
    BY <1>4, <2>1
  <2> QED BY <1>1, <2>3, <2>4, <2>5, Zenon DEF AnswersInv
<1>5. AnswersInv'
  BY <1>1, <1>2, <1>4, Zenon DEF AnswersInv
<1>6. ASSUME ObserversInv PROVE ObserversInv'
  <2> SUFFICES ASSUME NEW u \in Wait, waiting'[u] \in {"registered", "waiting"}, ~completed[u]
               PROVE  /\ payment_observers = u /\ erasing = {}
                      /\ \A v \in 1 .. (u - 1) : waiting'[v] # "started"
    BY <1>1, Zenon DEF ObserversInv
  <2>1. u # w /\ waiting[u] \in {"registered", "waiting"}
    BY <1>1, Zenon DEF CallsInv
  <2>2. payment_observers = u /\ erasing = {} /\ \A v \in 1 .. (u - 1) : waiting[v] # "started"
    BY <1>6, <2>1, Zenon DEF ObserversInv
  <2>3. u \in Begun
    BY <2>1, Zenon DEF Begun
  <2>4. w \notin 1 .. (u - 1)
    BY <1>1, <1>2, <2>3, Zenon DEF AnswersInv
  <2>5. \A v \in 1 .. (u - 1) : v \in Wait
    BY WaitsAssumption DEF Wait
  <2> QED BY <1>1, <2>2, <2>4, <2>5, Zenon DEF CallsInv
<1> QED BY <1>1, <1>3, <1>5, <1>6, Zenon DEF PaymentInv

LEMMA RegisterInv == ASSUME PaymentInv, NEW w \in Wait, Register(w) PROVE PaymentInv'
<1>1. /\ CallsInv /\ AnswersInv /\ waiting[w] = "started"
      /\ waiting' = [waiting EXCEPT ![w] = "registered"] /\ payment_observers' = w
      /\ overlapped' = (overlapped \/ erasing # {} \/ \E v \in 1 .. (w - 1) : waiting[v] = "started")
      /\ UNCHANGED <<operations, posted, completed, responses, erasing, observing>>
  BY Zenon DEF PaymentInv, Register, alarmVars
<1>2. Begun' = Begun /\ w \in Begun
  BY <1>1, Zenon DEF Begun, CallsInv
<1>3. waiting' \in [Wait -> {"none", "started", "registered", "waiting"}]
  BY <1>1, Zenon DEF CallsInv
<1>4. CallsInv'
  BY <1>1, <1>2, <1>3, Zenon DEF CallsInv
<1>5. AnswersInv'
  BY <1>1, <1>2, Zenon DEF AnswersInv
<1>6. ASSUME ObserversInv, erasing = {}, \A v \in 1 .. (w - 1) : waiting[v] # "started"
      PROVE  ObserversInv'
  <2> SUFFICES ASSUME NEW u \in Wait, waiting'[u] \in {"registered", "waiting"}, ~completed[u]
               PROVE  u = w
    <3>1. \A v \in 1 .. (w - 1) : v \in Wait \ {w}
      BY WaitsAssumption DEF Wait
    <3>2. \A v \in 1 .. (w - 1) : waiting'[v] # "started"
      BY <1>1, <1>6, <3>1, Zenon DEF CallsInv
    <3> QED BY <1>1, <1>6, <3>2, Zenon DEF ObserversInv
  <2>1. SUFFICES ASSUME u # w PROVE FALSE
    BY Zenon
  <2>2. waiting[u] \in {"registered", "waiting"} /\ u \in Begun
    BY <1>1, <2>1, Zenon DEF CallsInv, Begun
  <2>3. u \notin 1 .. (w - 1)
    BY <1>1, <1>2, Zenon DEF AnswersInv
  <2>4. w \notin 1 .. (u - 1)
    BY <1>1, <1>6, <2>2, Zenon DEF ObserversInv
  <2> QED BY <2>1, <2>3, <2>4, WaitsAssumption DEF Wait
<1> QED BY <1>1, <1>4, <1>5, <1>6, Zenon DEF PaymentInv

\* observer_action takes the observer that the table has; the other steps that change neither a call
\* nor its answer
LEMMA LookInv ==
    ASSUME PaymentInv, waiting' \in [Wait -> {"none", "started", "registered", "waiting"}], Begun' = Begun,
           \A w \in Wait : /\ waiting'[w] \in {"registered", "waiting"} <=> waiting[w] \in {"registered", "waiting"}
                           /\ waiting'[w] = "started" <=> waiting[w] = "started",
           observing' \subseteq observing \cup Found(payment_observers),
           UNCHANGED <<alarmVars, payment_observers, completed, responses, erasing, overlapped>>
    PROVE  PaymentInv'
<1>1. Found(payment_observers) \subseteq Begun
  BY Zenon DEF PaymentInv, CallsInv, Found
<1>2. CallsInv'
  BY <1>1, Zenon DEF PaymentInv, CallsInv, alarmVars
<1>3. AnswersInv'
  BY Zenon DEF PaymentInv, AnswersInv
<1>4. \A w \in Wait : \A v \in 1 .. (w - 1) : v \in Wait
  BY WaitsAssumption DEF Wait
<1>5. ASSUME ObserversInv PROVE ObserversInv'
  BY <1>4, <1>5, Zenon DEF ObserversInv
<1> QED BY <1>2, <1>3, <1>5, Zenon DEF PaymentInv

\* complete, called by whoever found the observer or by the timeout
LEMMA CompleteInv ==
    ASSUME PaymentInv, NEW w \in Begun, NEW status \in {"success", "nothing"}, Complete(w, status),
           observing' \subseteq observing, posted' \subseteq posted,
           UNCHANGED <<operations, payment_observers, waiting, overlapped>>
    PROVE  PaymentInv'
<1>1. /\ CallsInv /\ AnswersInv /\ w \in Wait /\ Begun' = Begun
      /\ completed' = [completed EXCEPT ![w] = TRUE]
      /\ completed[w] => responses' = responses /\ erasing' = erasing
      /\ ~completed[w] => /\ responses' = [responses EXCEPT ![w] = Append(@, status)]
                          /\ erasing' = erasing \cup {w}
  BY Zenon DEF PaymentInv, Complete, Already, Leaves, Begun
<1>2. /\ completed' \in [Wait -> BOOLEAN] /\ completed'[w]
      /\ \A u \in Wait \ {w} : completed'[u] = completed[u]
  BY <1>1, Zenon DEF CallsInv
<1>3. ASSUME ~completed[w]
      PROVE  /\ responses' \in [Wait -> Seq({"success", "nothing"})] /\ Len(responses'[w]) = 1
             /\ \A u \in Wait \ {w} : responses'[u] = responses[u]
  <2>1. responses[w] \in Seq({"success", "nothing"}) /\ Len(responses[w]) = 0
    BY <1>1, <1>3 DEF CallsInv, AnswersInv
  <2>2. PICK r : r = Append(responses[w], status)
    BY Zenon
  <2>3. r \in Seq({"success", "nothing"}) /\ Len(r) = 1
    BY <2>1, <2>2
  <2> QED BY <1>1, <1>3, <2>2, <2>3, Zenon DEF CallsInv
<1>4. CallsInv'
  BY <1>1, <1>2, <1>3, Zenon DEF CallsInv
<1>5. AnswersInv'
  <2>1. \A u \in Wait : completed'[u] => u \in Begun
    BY <1>1, <1>2, Zenon DEF AnswersInv
  <2>2. ASSUME NEW u \in Wait PROVE Len(responses'[u]) <= IF completed'[u] THEN 1 ELSE 0
    <3>1. Len(responses[u]) <= IF completed[u] THEN 1 ELSE 0
      BY <1>1, Zenon DEF AnswersInv
    <3> QED BY <1>1, <1>2, <1>3, <3>1
  <2>3. \A u \in Begun : \A v \in 1 .. (u - 1) : v \in Wait /\ completed[v]
    BY <1>1, WaitsAssumption DEF AnswersInv, Begun, Wait
  <2>4. \A u \in Begun : \A v \in 1 .. (u - 1) : completed'[v]
    BY <1>2, <2>3, Zenon
  <2>5. \A u \in erasing' : u \in Wait /\ completed'[u]
    BY <1>1, <1>2, Zenon DEF AnswersInv
  <2> QED BY <1>1, <2>1, <2>2, <2>4, <2>5, Zenon DEF AnswersInv
<1>6. ASSUME ObserversInv PROVE ObserversInv'
  <2> SUFFICES ASSUME NEW u \in Wait, waiting[u] \in {"registered", "waiting"}, ~completed'[u]
               PROVE  /\ payment_observers = u /\ erasing' = {}
                      /\ \A v \in 1 .. (u - 1) : waiting[v] # "started"
    BY Zenon DEF ObserversInv
  <2>1. u # w /\ ~completed[u] /\ u \in Begun
    BY <1>2, Zenon DEF Begun
  <2>2. payment_observers = u /\ erasing = {} /\ \A v \in 1 .. (u - 1) : waiting[v] # "started"
    BY <1>6, <2>1, Zenon DEF ObserversInv
  <2>3. u \notin 1 .. (w - 1)
    BY <1>1, <2>1, Zenon DEF AnswersInv
  <2>4. w \in 1 .. (u - 1)
    BY <1>1, <2>1, <2>3, WaitsAssumption DEF Wait
  <2>5. completed[w]
    BY <1>1, <2>1, <2>4, Zenon DEF AnswersInv
  <2> QED BY <1>1, <2>2, <2>5, Zenon
<1> QED BY <1>4, <1>5, <1>6, Zenon DEF PaymentInv

LEMMA EraseObserverInv == ASSUME PaymentInv, NEW w \in Wait, EraseObserver(w) PROVE PaymentInv'
<1>1. /\ CallsInv /\ AnswersInv /\ w \in erasing /\ erasing' = erasing \ {w} /\ payment_observers' = 0
      /\ UNCHANGED <<operations, posted, waiting, completed, responses, observing, overlapped>>
  BY Zenon DEF PaymentInv, EraseObserver, alarmVars
<1>2. Begun' = Begun
  BY <1>1, Zenon DEF Begun
<1>3. CallsInv'
  BY <1>1, <1>2, Zenon DEF CallsInv
<1>4. AnswersInv'
  BY <1>1, <1>2, Zenon DEF AnswersInv
<1>5. ASSUME ObserversInv PROVE ObserversInv'
  BY <1>1, <1>5, Zenon DEF ObserversInv
<1> QED BY <1>1, <1>3, <1>4, <1>5, Zenon DEF PaymentInv

LEMMA WaitStepInv == ASSUME PaymentInv, NEW w \in Wait, WaitStep(w) PROVE PaymentInv'
<1>1. CASE Register(w)
  BY <1>1, RegisterInv, Zenon
<1>2. CASE LookAtOnce(w)
  <2>1. /\ waiting[w] = "registered" /\ waiting' = [waiting EXCEPT ![w] = "waiting"]
        /\ observing' = observing \cup Found(payment_observers)
        /\ UNCHANGED <<alarmVars, payment_observers, completed, responses, erasing, overlapped>>
    BY <1>2, Zenon DEF LookAtOnce
  <2>2. waiting \in [Wait -> {"none", "started", "registered", "waiting"}]
    BY Zenon DEF PaymentInv, CallsInv
  <2>3. /\ waiting' \in [Wait -> {"none", "started", "registered", "waiting"}]
        /\ \A u \in Wait : /\ waiting'[u] \in {"registered", "waiting"} <=> waiting[u] \in {"registered", "waiting"}
                           /\ waiting'[u] = "started" <=> waiting[u] = "started"
    BY <2>1, <2>2, Zenon
  <2>4. Begun' = Begun
    BY <2>1, <2>2, Zenon DEF Begun
  <2> QED BY <2>1, <2>3, <2>4, LookInv, Zenon
<1>3. CASE Observe(w)
  <2>1. /\ w \in observing /\ observing' \subseteq observing /\ Begun' = Begun
        /\ UNCHANGED <<alarmVars, payment_observers, waiting, overlapped>>
    BY <1>3, Zenon DEF Observe, Begun
  <2>2. CASE balanceReached
    <3>1. Complete(w, "success") /\ w \in Begun /\ posted' \subseteq posted /\ UNCHANGED operations
      BY <1>3, <2>1, <2>2, Zenon DEF Observe, PaymentInv, CallsInv, alarmVars
    <3> QED BY <2>1, <3>1, CompleteInv, Zenon
  <2>3. CASE ~balanceReached
    <3>1. UNCHANGED <<completed, responses, erasing>>
      BY <1>3, <2>3, Zenon DEF Observe
    <3>2. waiting \in [Wait -> {"none", "started", "registered", "waiting"}]
      BY Zenon DEF PaymentInv, CallsInv
    <3> QED BY <2>1, <3>1, <3>2, LookInv, Zenon
  <2> QED BY <2>2, <2>3, Zenon
<1>4. CASE TimedOut(w)
  <2>1. /\ w \in Begun /\ posted' \subseteq posted /\ Complete(w, "nothing") /\ observing' \subseteq observing
        /\ UNCHANGED <<operations, payment_observers, waiting, overlapped>>
    BY <1>4, Zenon DEF TimedOut, PaymentInv, CallsInv
  <2> QED BY <2>1, CompleteInv, Zenon
<1>5. CASE EraseObserver(w)
  BY <1>5, EraseObserverInv, Zenon
<1> QED BY <1>1, <1>2, <1>3, <1>4, <1>5, Zenon DEF WaitStep

LEMMA PaymentInvImplies == PaymentInv => PaymentsSettled
<1> SUFFICES ASSUME PaymentInv PROVE PaymentsSettled
  BY Zenon
<1>1. PaymentAnsweredOnce
  <2> SUFFICES ASSUME NEW w \in Wait PROVE Len(responses[w]) <= 1
    BY Zenon DEF PaymentAnsweredOnce
  <2>1. Len(responses[w]) <= (IF completed[w] THEN 1 ELSE 0) /\ Len(responses[w]) \in Nat
    BY DEF PaymentInv, AnswersInv, CallsInv
  <2> QED BY <2>1
<1>2. ObserverFound
  BY Zenon DEF PaymentInv, ObserversInv, ObserverFound
<1> QED BY <1>1, <1>2, Zenon DEF PaymentsSettled

\* payment_wait answers a call once, though the balance and the timeout may both come, and keeps the
\* observer of a call that waits in the table unless a client calls again before the last
\* observer has left it, or its own has come: for any number of calls, payments and late timeouts.
THEOREM PaymentsSettledTheorem == PaymentSpec => []PaymentsSettled
<1>1. PaymentInit => PaymentInv
  BY InitPayment, Zenon
<1>2. PaymentInv /\ [PaymentNext]_observerVars => PaymentInv'
  <2> SUFFICES ASSUME PaymentInv, [PaymentNext]_observerVars PROVE PaymentInv'
    BY Zenon
  <2>1. CASE AlarmMoves \/ (AlarmDestroy /\ UNCHANGED paymentVars) \/ UNCHANGED observerVars
    BY <2>1, AlarmInv, Zenon DEF AlarmMoves, observerVars
  <2>2. ASSUME NEW w \in Wait, PaymentWait(w) \/ WaitStep(w) PROVE PaymentInv'
    BY <2>2, PaymentWaitInv, WaitStepInv, Zenon
  <2>3. CASE Payment \/ BlockNotice
    <3>1. /\ observing' \subseteq observing \cup Found(payment_observers)
          /\ UNCHANGED <<alarmVars, payment_observers, waiting, completed, responses, erasing, overlapped>>
      BY <2>3, Zenon DEF Payment, BlockNotice
    <3>2. waiting \in [Wait -> {"none", "started", "registered", "waiting"}] /\ Begun' = Begun
      BY <3>1, Zenon DEF PaymentInv, CallsInv, Begun
    <3> QED BY <3>1, <3>2, LookInv, Zenon
  <2> QED BY <2>1, <2>2, <2>3, Zenon DEF PaymentNext
<1> QED BY <1>1, <1>2, PaymentInvImplies, PTL DEF PaymentSpec
-----------------------------------------------------------------------------
(* The peers: the list, which only grows where there is room, and the       *)
(* cookies, which are counted as they come and go.                          *)

IpOf == {Ip[e] : e \in Endpoint}
CookiesOf(i) == {e \in Endpoint : Ip[e] = i /\ syn_cookies[e].cookie # 0}
PeersOf(e) == {p \in Listed : Ip[p] = Ip[e]}

\* What a step may do to the list: proved peers, old ones, configured ones and those that
\* were named, the node itself only among these, no more than an IP may have.
ListInv == PeersProved /\ NotOwnPeer /\ PeersPerIpBounded
Peer == [listed : BOOLEAN, proved : BOOLEAN, heard : BOOLEAN]

LEMMA PeersFinite ==
    ASSUME NEW e PROVE IsFiniteSet(PeersOf(e)) /\ Cardinality(PeersOf(e)) \in Nat
<1>1. PeersOf(e) \subseteq Endpoint
  BY Zenon DEF PeersOf, Listed
<1> QED BY <1>1, PeersAssumption, FS_Subset, FS_CardinalityType, Zenon

\* A list with no more peers than before is within the bounds.
LEMMA FewerPeers ==
    ASSUME PeersPerIpBounded, Listed' \subseteq Listed PROVE PeersPerIpBounded'
<1> SUFFICES ASSUME NEW e \in Endpoint PROVE Cardinality(PeersOf(e)') <= MaxPeersPerIp
  BY Zenon DEF PeersPerIpBounded, PeersOf
<1>1. PeersOf(e)' \subseteq PeersOf(e)
  BY Zenon DEF PeersOf
<1>2. IsFiniteSet(PeersOf(e)) /\ Cardinality(PeersOf(e)) \in Nat
  BY PeersFinite, Zenon
<1>3. Cardinality(PeersOf(e)') \in Nat /\ Cardinality(PeersOf(e)') <= Cardinality(PeersOf(e))
  BY <1>1, <1>2, FS_Subset, FS_CardinalityType, Zenon
<1>4. Cardinality(PeersOf(e)) <= MaxPeersPerIp
  BY Zenon DEF PeersPerIpBounded, PeersOf
<1> HIDE DEF PeersOf
<1> QED BY <1>2, <1>3, <1>4, PeersAssumption

\* insert, for whoever proved itself or need not; the node itself must be named.
LEMMA InsertedInv ==
    ASSUME PeerTypes, ListInv, NEW e \in Endpoint, NEW proved \in BOOLEAN,
           named \subseteq named', ~(e = Own /\ proved),
           \/ KnownPeer(e) \/ ~Room(e) \/ e \in named'
           \/ e # Own /\ (proved \/ e \in Legacy \cup Preconfigured),
           peers' = Inserted(e, proved)
    PROVE  peers' \in [Endpoint -> Peer] /\ ListInv'
<1>0. peers \in [Endpoint -> Peer] /\ e \in Endpoint
  BY Zenon DEF PeerTypes, Peer
<1>1. CASE KnownPeer(e)
  <2> DEFINE p == [peers[e] EXCEPT !.heard = TRUE, !.proved = @ \/ proved]
  <2>1. p \in Peer /\ p.listed /\ p.proved = (peers[e].proved \/ proved)
    BY <1>0, <1>1, Zenon DEF Peer, KnownPeer
  <2>2. peers' = [peers EXCEPT ![e] = p]
    BY <1>0, <1>1, Zenon DEF Inserted, Peer
  <2> HIDE DEF p
  <2>3. peers' \in [Endpoint -> Peer] /\ peers'[e] = p /\ \A d \in Endpoint \ {e} : peers'[d] = peers[d]
    BY <1>0, <2>1, <2>2, Zenon
  <2>4. Listed' = Listed
    BY <1>1, <2>1, <2>3, Zenon DEF Listed, KnownPeer
  <2>5. PeersPerIpBounded'
    BY <2>4, FewerPeers, Zenon DEF ListInv
  <2>6. PeersProved'
    BY <2>1, <2>3, <2>4, Zenon DEF ListInv, PeersProved, Listed
  <2>7. NotOwnPeer'
    BY <1>0, <1>1, <2>1, <2>3, PeersAssumption, Zenon DEF ListInv, NotOwnPeer, KnownPeer
  <2> QED BY <2>3, <2>5, <2>6, <2>7, Zenon DEF ListInv
<1>2. CASE ~KnownPeer(e) /\ Room(e)
  <2> DEFINE p == [listed |-> TRUE, proved |-> proved, heard |-> TRUE]
  <2>1. p \in Peer /\ p.listed /\ p.proved = proved
    BY Zenon DEF Peer
  <2>2. peers' = [peers EXCEPT ![e] = p]
    BY <1>2, Zenon DEF Inserted, RoomToInsert
  <2> HIDE DEF p
  <2>3. peers' \in [Endpoint -> Peer] /\ peers'[e] = p /\ \A d \in Endpoint \ {e} : peers'[d] = peers[d]
    BY <1>0, <2>1, <2>2, Zenon
  <2>4. Listed' = Listed \cup {e} /\ e \notin Listed
    BY <1>0, <1>2, <2>1, <2>3, Zenon DEF Listed, KnownPeer
  <2>5. PeersPerIpBounded'
    <3> SUFFICES ASSUME NEW d \in Endpoint PROVE Cardinality(PeersOf(d)') <= MaxPeersPerIp
      BY Zenon DEF PeersPerIpBounded, PeersOf
    <3>0. IsFiniteSet(PeersOf(d)) /\ Cardinality(PeersOf(d)) \in Nat
      BY PeersFinite, Zenon
    <3>1. CASE Ip[d] = Ip[e]
      <4>1. PeersOf(d)' = PeersOf(d) \cup {e} /\ PeersOf(d) = PeersOf(e)
        BY <2>4, <3>1, Zenon DEF PeersOf
      <4>2. Cardinality(PeersOf(d)') <= Cardinality(PeersOf(d)) + 1
        <5>1. CASE e \in PeersOf(d)
          BY <2>4, <5>1, Zenon DEF PeersOf
        <5>2. CASE e \notin PeersOf(d)
          <6>1. Cardinality(PeersOf(d)') = Cardinality(PeersOf(d)) + 1
            BY ONLY <3>0, <4>1, <5>2, FS_AddElement, Zenon
          <6> HIDE DEF PeersOf
          <6> QED BY ONLY <3>0, <6>1
        <5> QED BY <5>1, <5>2, Zenon
      <4>3. Cardinality(PeersOf(d)) < MaxPeersPerIp
        BY <1>2, <4>1, Zenon DEF Room, PeersOf
      <4>4. Cardinality(PeersOf(d)') \in Nat
        BY <3>0, <4>1, FS_AddElement, FS_CardinalityType, Zenon
      <4> QED BY <3>0, <4>2, <4>3, <4>4, PeersAssumption
    <3>2. CASE Ip[d] # Ip[e]
      <4>1. PeersOf(d)' = PeersOf(d)
        BY <2>4, <3>2, Zenon DEF PeersOf
      <4>2. Cardinality(PeersOf(d)) <= MaxPeersPerIp
        BY Zenon DEF ListInv, PeersPerIpBounded, PeersOf
      <4> QED BY <4>1, <4>2, Zenon
    <3> QED BY <3>1, <3>2, Zenon
  <2>6. PeersProved'
    BY <1>2, <2>1, <2>3, <2>4, Zenon DEF ListInv, PeersProved, Listed
  <2>7. NotOwnPeer'
    BY <1>0, <1>2, <2>1, <2>3, PeersAssumption, Zenon DEF ListInv, NotOwnPeer, KnownPeer
  <2> QED BY <2>3, <2>5, <2>6, <2>7, Zenon DEF ListInv
<1>3. CASE ~KnownPeer(e) /\ ~Room(e)
  <2>1. peers' = peers
    BY <1>3, Zenon DEF Inserted, RoomToInsert
  <2> QED BY <1>0, <2>1, Zenon DEF ListInv, PeersProved, NotOwnPeer, PeersPerIpBounded, Listed, KnownPeer
<1> QED BY <1>1, <1>2, <1>3, Zenon

\* contacted
LEMMA ContactedInv ==
    ASSUME PeerTypes, ListInv, NEW e \in Endpoint, peers' = Contacted(e), named' = named
    PROVE  peers' \in [Endpoint -> Peer] /\ ListInv'
<1>0. peers \in [Endpoint -> Peer]
  BY Zenon DEF PeerTypes, Peer
<1>1. CASE e \in Legacy
  <2>1. peers' = Inserted(e, FALSE) /\ e # Own /\ named \subseteq named'
    BY <1>1, PeersAssumption, Zenon DEF Contacted
  <2> QED BY <1>1, <2>1, InsertedInv, Zenon
<1>2. CASE e \notin Legacy /\ KnownPeer(e)
  <2>1. peers' = Inserted(e, FALSE)
    <3>1. (peers[e].proved \/ FALSE) = peers[e].proved
      BY <1>0, Zenon DEF Peer
    <3> QED BY <1>0, <1>2, <3>1, Zenon DEF Contacted, Inserted, Peer
  <2>2. named \subseteq named'
    BY Zenon
  <2> QED BY <1>2, <2>1, <2>2, InsertedInv, Zenon
<1>3. CASE e \notin Legacy /\ ~KnownPeer(e)
  <2>1. peers' = peers
    BY <1>3, Zenon DEF Contacted
  <2> QED BY <1>0, <2>1, Zenon DEF ListInv, PeersProved, NotOwnPeer, PeersPerIpBounded, Listed, KnownPeer
<1> QED BY <1>1, <1>2, <1>3, Zenon

\* The cookies of the network's messages and of the table.
CookieInv ==
    /\ syn_cookies \in [Endpoint -> [cookie : 0 .. 3, seen : BOOLEAN]]
    /\ per_ip \in [IpOf -> Nat] /\ CookiesCounted
    /\ queries \in [Endpoint -> SUBSET (1 .. 3)] /\ CookiesRemain

LEMMA CookiesFinite == ASSUME NEW i PROVE IsFiniteSet(CookiesOf(i)) /\ Cardinality(CookiesOf(i)) \in Nat
<1>1. CookiesOf(i) \subseteq Endpoint
  BY Zenon DEF CookiesOf
<1> QED BY <1>1, PeersAssumption, FS_Subset, FS_CardinalityType, Zenon

LEMMA CountedIs ==
    ASSUME CookieInv PROVE \A i \in IpOf : per_ip[i] = Cardinality(CookiesOf(i))
  BY Zenon DEF CookieInv, CookiesCounted, CookiesOf

\* Counting again after one address got a cookie or lost it.
LEMMA Recount ==
    ASSUME CookieInv, NEW e \in Endpoint, NEW cookie, NEW d \in Int,
           syn_cookies' = [syn_cookies EXCEPT ![e] = cookie],
           cookie \in [cookie : 0 .. 3, seen : BOOLEAN],
           per_ip' = [per_ip EXCEPT ![Ip[e]] = @ + d],
           \/ d = 1 /\ syn_cookies[e].cookie = 0 /\ cookie.cookie # 0
           \/ d = -1 /\ syn_cookies[e].cookie # 0 /\ cookie.cookie = 0
    PROVE  per_ip' \in [IpOf -> Nat] /\ CookiesCounted'
<1>0. Ip[e] \in IpOf /\ per_ip \in [IpOf -> Nat]
  BY Zenon DEF IpOf, CookieInv
<1>1. syn_cookies'[e] = cookie /\ \A k \in Endpoint \ {e} : syn_cookies'[k] = syn_cookies[k]
  BY Zenon DEF CookieInv
<1>2. \A i \in IpOf \ {Ip[e]} : CookiesOf(i)' = CookiesOf(i)
  BY <1>1, Zenon DEF CookiesOf
<1>3. Cardinality(CookiesOf(Ip[e])') = Cardinality(CookiesOf(Ip[e])) + d /\ Cardinality(CookiesOf(Ip[e])') \in Nat
  <2>0. IsFiniteSet(CookiesOf(Ip[e])) /\ Cardinality(CookiesOf(Ip[e])) \in Nat
    BY CookiesFinite, Zenon
  <2>1. CASE d = 1 /\ syn_cookies[e].cookie = 0 /\ cookie.cookie # 0
    <3>1. CookiesOf(Ip[e])' = CookiesOf(Ip[e]) \cup {e} /\ e \notin CookiesOf(Ip[e])
      BY <1>1, <2>1 DEF CookiesOf
    <3>2. Cardinality(CookiesOf(Ip[e])') = Cardinality(CookiesOf(Ip[e])) + 1
      BY ONLY <2>0, <3>1, FS_AddElement, Zenon
    <3> HIDE DEF CookiesOf
    <3> QED BY ONLY <2>0, <2>1, <3>2
  <2>2. CASE d = -1 /\ syn_cookies[e].cookie # 0 /\ cookie.cookie = 0
    <3>1. CookiesOf(Ip[e])' = CookiesOf(Ip[e]) \ {e} /\ e \in CookiesOf(Ip[e])
      BY <1>1, <2>2, Zenon DEF CookiesOf
    <3>2. Cardinality(CookiesOf(Ip[e])') \in Nat
      BY <2>0, <3>1, FS_RemoveElement, FS_CardinalityType, Zenon
    <3> QED BY <2>0, <2>2, <3>1, <3>2, FS_RemoveElement, Zenon
  <2> QED BY <2>1, <2>2, Zenon
<1>4. per_ip[Ip[e]] = Cardinality(CookiesOf(Ip[e]))
  BY <1>0, CountedIs, Zenon
<1>5. /\ per_ip'[Ip[e]] = Cardinality(CookiesOf(Ip[e])') /\ \A i \in IpOf \ {Ip[e]} : per_ip'[i] = per_ip[i]
      /\ per_ip' \in [IpOf -> Nat]
  BY <1>0, <1>3, <1>4, Zenon
<1>6. \A i \in IpOf : per_ip'[i] = Cardinality(CookiesOf(i)')
  BY <1>2, <1>5, CountedIs, Zenon
<1> QED BY <1>5, <1>6, Zenon DEF CookiesCounted, CookiesOf

\* Of two numbers one is a third one.
LEMMA OneRemains ==
    ASSUME NEW old \in SUBSET (1 .. 3), Cardinality(old) <= 1, NEW new
    PROVE  \E n \in 1 .. 3 : n \notin old \cup {new}
<1> SUFFICES ASSUME 1 .. 3 \subseteq old \cup {new} PROVE FALSE
  BY Zenon
<1>1. PICK a \in 1 .. 3, b \in 1 .. 3 : a # b /\ a # new /\ b # new
  <2>1. CASE new = 1
    BY <2>1
  <2>2. CASE new = 2
    BY <2>2
  <2>3. CASE new \notin {1, 2}
    BY <2>3
  <2> QED BY <2>1, <2>2, <2>3, Zenon
<1>2. {a} \cup {b} \subseteq old
  BY <1>1, Zenon
<1>3. IsFiniteSet(old) /\ Cardinality(old) \in Nat
  <2>1. IsFiniteSet(1 .. 3)
    <3>1. 1 \in Int /\ 3 \in Int
      OBVIOUS
    <3> QED BY ONLY <3>1, FS_Interval, Zenon
  <2> QED BY <2>1, FS_Subset, FS_CardinalityType, Zenon
<1>4. IsFiniteSet({a}) /\ Cardinality({a}) = 1
  BY FS_Singleton, Zenon
<1>5. Cardinality({a} \cup {b}) = 2
  BY <1>1, <1>4, FS_AddElement
<1>6. Cardinality({a} \cup {b}) <= Cardinality(old)
  BY <1>2, <1>3, FS_Subset, Zenon
<1> QED BY <1>3, <1>5, <1>6

\* assign_syn_cookie
LEMMA AssignInv ==
    ASSUME CookieInv, NEW e \in Endpoint, NEW sent \in [Endpoint -> SUBSET (1 .. 3)], NEW b \in BOOLEAN,
           b => MayAssign(e), \A k \in Endpoint : sent[k] \subseteq queries[k], AssignIf(b, e, sent)
    PROVE  CookieInv'
<1>0. \A k \in Endpoint : \E n \in 1 .. 3 : n \notin sent[k]
  BY Zenon DEF CookieInv, CookiesRemain
<1>1. CASE b
  <2>a. DEFINE new == CHOOSE n \in 1 .. 3 : n \notin sent[e]
  <2>0. /\ syn_cookies' = [syn_cookies EXCEPT ![e] = [cookie |-> new, seen |-> FALSE]]
        /\ per_ip' = [per_ip EXCEPT ![Ip[e]] = @ + 1] /\ syn_cookies[e].cookie = 0
        /\ \E old \in SUBSET sent[e] : Cardinality(old) <= 1 /\ queries' = [sent EXCEPT ![e] = old \cup {new}]
    BY <1>1, Zenon DEF AssignIf, Assign, MayAssign
  <2>1. new \in 1 .. 3
    BY <1>0, Zenon
  <2> HIDE DEF new
  <2>2. PICK old \in SUBSET sent[e] : Cardinality(old) <= 1 /\ queries' = [sent EXCEPT ![e] = old \cup {new}]
    BY <2>0, Zenon
  <2>3. queries' \in [Endpoint -> SUBSET (1 .. 3)] /\ CookiesRemain'
    <3>1. old \in SUBSET (1 .. 3)
      BY <2>2, Zenon
    <3>2. \E n \in 1 .. 3 : n \notin old \cup {new}
      BY <2>2, <3>1, OneRemains, Zenon
    <3>3. /\ queries'[e] = old \cup {new} /\ \A k \in Endpoint \ {e} : queries'[k] = sent[k]
          /\ queries' \in [Endpoint -> SUBSET (1 .. 3)]
      BY <2>1, <2>2, <3>1, Zenon
    <3> QED BY <1>0, <3>2, <3>3, Zenon DEF CookiesRemain
  <2>4. PICK cookie \in [cookie : 0 .. 3, seen : BOOLEAN] : cookie = [cookie |-> new, seen |-> FALSE] /\ cookie.cookie # 0
    <3> DEFINE k == [cookie |-> new, seen |-> FALSE]
    <3>1. k \in [cookie : 0 .. 3, seen : BOOLEAN] /\ k.cookie # 0
      BY <2>1
    <3> QED BY <3>1, Zenon
  <2>5. syn_cookies' = [syn_cookies EXCEPT ![e] = cookie] /\ 1 \in Int
    BY <2>0, <2>4
  <2>6. per_ip' \in [IpOf -> Nat] /\ CookiesCounted'
    BY <2>0, <2>4, <2>5, Recount, Zenon
  <2>7. syn_cookies' \in [Endpoint -> [cookie : 0 .. 3, seen : BOOLEAN]]
    BY <2>5, Zenon DEF CookieInv
  <2> QED BY <2>3, <2>6, <2>7, Zenon DEF CookieInv
<1>2. CASE ~b
  <2>1. queries' = sent /\ UNCHANGED <<syn_cookies, per_ip>>
    BY <1>2, Zenon DEF AssignIf
  <2> QED BY <1>0, <2>1 DEF CookieInv, CookiesCounted, CookiesRemain
<1> QED BY <1>1, <1>2, Zenon

\* validate_syn_cookie, when it erases the cookie.
LEMMA ErasedInv ==
    ASSUME CookieInv, NEW e \in Endpoint, NEW left \in [Endpoint -> SUBSET (1 .. 3)],
           \A k \in Endpoint : left[k] \subseteq queries[k], syn_cookies[e].cookie # 0,
           syn_cookies' = [syn_cookies EXCEPT ![e] = NoCookie], per_ip' = CookieErased(e), queries' = left
    PROVE  CookieInv'
<1>1. PICK cookie \in [cookie : 0 .. 3, seen : BOOLEAN] : cookie = NoCookie /\ cookie.cookie = 0
  <2>1. NoCookie \in [cookie : 0 .. 3, seen : BOOLEAN] /\ NoCookie.cookie = 0
    BY DEF NoCookie
  <2> QED BY <2>1, Zenon
<1>2. syn_cookies' = [syn_cookies EXCEPT ![e] = cookie]
  BY <1>1, Zenon
<1>3. per_ip' = [per_ip EXCEPT ![Ip[e]] = @ + (-1)] /\ -1 \in Int
  <2>1. per_ip[Ip[e]] \in Nat
    BY Zenon DEF CookieInv, IpOf
  <2>2. per_ip[Ip[e]] - 1 = per_ip[Ip[e]] + (-1)
    BY <2>1, Zenon
  <2> DEFINE n == per_ip[Ip[e]] - 1
             m == per_ip[Ip[e]] + (-1)
  <2>3. per_ip' = [per_ip EXCEPT ![Ip[e]] = n] /\ n = m
    BY <2>2, Zenon DEF CookieErased
  <2> HIDE DEF n
  <2>4. per_ip' = [per_ip EXCEPT ![Ip[e]] = m]
    BY <2>3, Zenon
  <2> QED BY <2>4
<1>4. per_ip' \in [IpOf -> Nat] /\ CookiesCounted'
  BY <1>1, <1>2, <1>3, Recount, Zenon
<1>5. syn_cookies' \in [Endpoint -> [cookie : 0 .. 3, seen : BOOLEAN]]
  BY <1>2, Zenon DEF CookieInv
<1>6. CookiesRemain'
  BY Zenon DEF CookieInv, CookiesRemain
<1> QED BY <1>4, <1>5, <1>6, Zenon DEF CookieInv

\* ongoing_syn_cookie_cleanup
LEMMA CleanupInv ==
    ASSUME CookieInv, SynCookieCleanup PROVE CookieInv'
<1> DEFINE with == {e \in Endpoint : syn_cookies[e].cookie # 0}
           Gone(gone, i) == {e \in gone : Ip[e] = i}
<1>1. PICK gone \in SUBSET with :
        /\ syn_cookies' = [e \in Endpoint |-> IF e \in with \ gone THEN [syn_cookies[e] EXCEPT !.seen = TRUE] ELSE NoCookie]
        /\ per_ip' = [i \in DOMAIN per_ip |-> per_ip[i] - Cardinality(Gone(gone, i))]
        /\ \E late : queries' = [e \in Endpoint |-> IF e \in late THEN queries[e] \ {syn_cookies[e].cookie} ELSE queries[e]]
  BY Zenon DEF SynCookieCleanup
<1>2. PICK late : queries' = [e \in Endpoint |-> IF e \in late THEN queries[e] \ {syn_cookies[e].cookie} ELSE queries[e]]
  BY <1>1, Zenon
<1>3. queries' \in [Endpoint -> SUBSET (1 .. 3)] /\ CookiesRemain'
  <2>1. \A e \in Endpoint : queries'[e] \subseteq queries[e]
    BY <1>2, Zenon
  <2>2. queries' \in [Endpoint -> SUBSET (1 .. 3)]
    BY <1>2, Zenon DEF CookieInv
  <2> QED BY <2>1, <2>2, Zenon DEF CookieInv, CookiesRemain
<1>4. syn_cookies' \in [Endpoint -> [cookie : 0 .. 3, seen : BOOLEAN]]
  <2>1. \A e \in Endpoint : [syn_cookies[e] EXCEPT !.seen = TRUE] \in [cookie : 0 .. 3, seen : BOOLEAN]
    BY Zenon DEF CookieInv
  <2>2. NoCookie \in [cookie : 0 .. 3, seen : BOOLEAN]
    BY DEF NoCookie
  <2> QED BY <1>1, <2>1, <2>2, Zenon
<1>5. \A e \in Endpoint : syn_cookies'[e].cookie # 0 <=> e \in with \ gone
  BY <1>1, Zenon DEF CookieInv, NoCookie
<1>6. ASSUME NEW i \in IpOf
      PROVE  per_ip'[i] \in Nat /\ per_ip'[i] = Cardinality(CookiesOf(i)')
  <2>1. IsFiniteSet(CookiesOf(i)) /\ Cardinality(CookiesOf(i)) \in Nat
    BY CookiesFinite, Zenon
  <2>2. CookiesOf(i)' = CookiesOf(i) \ Gone(gone, i) /\ CookiesOf(i) \cap Gone(gone, i) = Gone(gone, i)
    BY <1>1, <1>5, Zenon DEF CookiesOf
  <2>3. IsFiniteSet(CookiesOf(i)') /\ Cardinality(CookiesOf(i)') = Cardinality(CookiesOf(i)) - Cardinality(Gone(gone, i))
    <3> HIDE DEF Gone
    <3> QED BY ONLY <2>1, <2>2, FS_Difference, Zenon
  <2>4. per_ip[i] = Cardinality(CookiesOf(i)) /\ i \in DOMAIN per_ip
    BY CountedIs, Zenon DEF CookieInv
  <2>5. per_ip'[i] = per_ip[i] - Cardinality(Gone(gone, i))
    BY <1>1, <2>4, Zenon
  <2>6. per_ip'[i] = Cardinality(CookiesOf(i)')
    BY <2>3, <2>4, <2>5, Zenon
  <2> QED BY <2>3, <2>6, FS_CardinalityType, Zenon
<1>7. per_ip' \in [IpOf -> Nat]
  <2>1. DOMAIN per_ip = IpOf
    BY Zenon DEF CookieInv
  <2>2. per_ip' = [i \in IpOf |-> per_ip'[i]]
    BY <1>1, <2>1, Zenon
  <2> QED BY <1>6, <2>2, Zenon
<1>8. CookiesCounted'
  BY <1>6, <1>7, Zenon DEF CookiesCounted, CookiesOf
<1> QED BY <1>3, <1>4, <1>7, <1>8, Zenon DEF CookieInv

\* The parts put together.
LEMMA PeersInvIs ==
    PeersInv <=> peers \in [Endpoint -> Peer] /\ ListInv /\ CookieInv
  BY Zenon DEF PeersInv, PeerTypes, PeersGenuine, ListInv, CookieInv, Peer, IpOf

LEMMA CookiesSame == CookieInv /\ UNCHANGED <<syn_cookies, per_ip, queries>> => CookieInv'
  BY DEF CookieInv, CookiesCounted, CookiesRemain

LEMMA ListSame ==
    peers \in [Endpoint -> Peer] /\ ListInv /\ UNCHANGED <<peers, named>> => peers' \in [Endpoint -> Peer] /\ ListInv'
  BY Zenon DEF ListInv, PeersProved, NotOwnPeer, PeersPerIpBounded, Listed, KnownPeer

LEMMA PeersInvPrimed ==
    peers' \in [Endpoint -> Peer] /\ ListInv' /\ CookieInv' => PeersInv'
  BY Zenon DEF PeersInv, PeerTypes, PeersGenuine, ListInv, CookieInv, Peer, IpOf

\* Nobody is listed.
LEMMA EmptyList ==
    ASSUME peers' = [e \in Endpoint |-> Strange] PROVE peers' \in [Endpoint -> Peer] /\ ListInv'
<1>1. peers' \in [Endpoint -> Peer] /\ Listed' = {}
  BY Zenon DEF Strange, Peer, Listed
<1>2. PeersPerIpBounded'
  <2>1. \A e : PeersOf(e)' = {}
    BY <1>1, Zenon DEF PeersOf
  <2>2. Cardinality({}) = 0
    BY FS_EmptySet, Zenon
  <2>3. 0 <= MaxPeersPerIp
    BY PeersAssumption
  <2> QED BY <2>1, <2>2, <2>3, Zenon DEF PeersPerIpBounded, PeersOf
<1>3. PeersProved' /\ NotOwnPeer'
  BY <1>1, PeersAssumption, Zenon DEF PeersProved, NotOwnPeer, KnownPeer, Listed
<1> QED BY <1>1, <1>2, <1>3, Zenon DEF ListInv

\* No cookie is out.
LEMMA NoCookies ==
    ASSUME syn_cookies' = [e \in Endpoint |-> NoCookie], per_ip' = [i \in IpOf |-> 0]
    PROVE  /\ syn_cookies' \in [Endpoint -> [cookie : 0 .. 3, seen : BOOLEAN]]
           /\ per_ip' \in [IpOf -> Nat] /\ CookiesCounted'
<1>1. \A i : CookiesOf(i)' = {}
  BY Zenon DEF CookiesOf, NoCookie
<1>2. Cardinality({}) = 0
  BY FS_EmptySet, Zenon
<1>3. \A i \in IpOf : per_ip'[i] = 0 /\ DOMAIN per_ip' = IpOf
  BY Zenon
<1>4. CookiesCounted'
  BY <1>1, <1>2, <1>3, Zenon DEF CookiesCounted, CookiesOf
<1> QED BY <1>4 DEF NoCookie

\* Init: as after a restart, and nothing was sent.
LEMMA InitPeers == PeersInit => PeersInv
<1> SUFFICES ASSUME PeersInit PROVE PeersInv
  BY Zenon
<1>1. peers \in [Endpoint -> Peer] /\ Listed = {} /\ PeersProved /\ NotOwnPeer
  BY PeersAssumption, Zenon DEF PeersInit, Strange, Peer, Listed, PeersProved, NotOwnPeer, KnownPeer
<1>2. Cardinality({}) = 0 /\ 0 <= MaxPeersPerIp
  BY FS_EmptySet, PeersAssumption
<1>3. PeersPerIpBounded
  <2>1. \A e : PeersOf(e) = {}
    BY <1>1, Zenon DEF PeersOf
  <2> QED BY <1>2, <2>1, Zenon DEF PeersPerIpBounded, PeersOf
<1>4. \A i : CookiesOf(i) = {}
  BY Zenon DEF PeersInit, CookiesOf, NoCookie
<1>5. CookiesCounted
  BY <1>2, <1>4, Zenon DEF PeersInit, CookiesCounted, CookiesOf
<1>6. CookieInv
  BY <1>5 DEF PeersInit, CookieInv, NoCookie, CookiesRemain, IpOf
<1> QED BY <1>1, <1>3, <1>6, PeersInvIs, Zenon DEF ListInv

\* NodeIdHandshake
LEMMA HandshakeInv ==
    ASSUME PeersInv, NEW e \in Endpoint, NEW c, NEW left \in [Endpoint -> SUBSET (1 .. 3)],
           \A k \in Endpoint : left[k] \subseteq queries[k], NodeIdHandshake(e, c, left)
    PROVE  PeersInv'
<1>0. PeerTypes /\ peers \in [Endpoint -> Peer] /\ ListInv /\ CookieInv
  BY PeersInvIs, Zenon DEF PeersInv
<1>1. CASE c # 0 /\ c = syn_cookies[e].cookie
  <2>1. /\ syn_cookies' = [syn_cookies EXCEPT ![e] = NoCookie] /\ per_ip' = CookieErased(e) /\ queries' = left
        /\ named' = named
        /\ peers' = IF e = Own THEN peers ELSE Inserted(e, TRUE)
    BY <1>1, Zenon DEF NodeIdHandshake, OwnResponse
  <2>2. CookieInv'
    BY <1>0, <1>1, <2>1, ErasedInv, Zenon
  <2>3. peers' \in [Endpoint -> Peer] /\ ListInv'
    <3>1. CASE e = Own
      BY <1>0, <2>1, <3>1, ListSame, Zenon
    <3>2. CASE e # Own
      <4>1. /\ peers' = Inserted(e, TRUE) /\ e \in Endpoint /\ e # Own /\ TRUE \in BOOLEAN
            /\ named \subseteq named'
        BY <2>1, <3>2, Zenon
      <4> QED BY ONLY <1>0, <4>1, InsertedInv, Zenon
    <3> QED BY <3>1, <3>2, Zenon
  <2> QED BY <2>2, <2>3, PeersInvPrimed, Zenon
<1>2. CASE ~(c # 0 /\ c = syn_cookies[e].cookie)
  <2>1. AssignIf(~KnownPeer(e) /\ MayAssign(e), e, left) /\ UNCHANGED <<peers, named>>
    BY <1>2, Zenon DEF NodeIdHandshake
  <2>2. CookieInv'
    <3>1. PICK b \in BOOLEAN : b = (~KnownPeer(e) /\ MayAssign(e))
      BY Zenon
    <3>2. AssignIf(b, e, left) /\ (b => MayAssign(e))
      BY <2>1, <3>1, Zenon
    <3> QED BY <1>0, <3>2, AssignInv, Zenon
  <2> QED BY <1>0, <2>1, <2>2, ListSame, PeersInvPrimed, Zenon
<1> QED BY <1>1, <1>2, Zenon

LEMMA NextPeers == PeersInv /\ [PeersNext(Endpoint, Endpoint)]_peerVars => PeersInv'
<1> SUFFICES ASSUME PeersInv, [PeersNext(Endpoint, Endpoint)]_peerVars PROVE PeersInv'
  BY Zenon
<1>0. PeerTypes /\ peers \in [Endpoint -> Peer] /\ ListInv /\ CookieInv
  BY PeersInvIs, Zenon DEF PeersInv
<1>q. queries \in [Endpoint -> SUBSET (1 .. 3)] /\ \A k \in Endpoint : queries[k] \subseteq queries[k]
  BY <1>0, Zenon DEF CookieInv
<1>l. ASSUME NEW e \in Endpoint, NEW c
      PROVE  /\ [queries EXCEPT ![e] = @ \ {c}] \in [Endpoint -> SUBSET (1 .. 3)]
             /\ \A k \in Endpoint : [queries EXCEPT ![e] = @ \ {c}][k] \subseteq queries[k]
  BY <1>q, Zenon
<1>1. ASSUME NEW e \in Endpoint \ {Own}, NEW told, Keepalive(e, told) PROVE PeersInv'
  <2>1. peers' = Contacted(e) /\ named' = named /\ AssignIf(ShouldHandshake(e) /\ MayAssign(e), e, queries)
    BY <1>1, Zenon DEF Keepalive
  <2>2. peers' \in [Endpoint -> Peer] /\ ListInv'
    BY <1>0, <1>1, <2>1, ContactedInv, Zenon
  <2>3. CookieInv'
    <3>1. PICK b \in BOOLEAN : b = (ShouldHandshake(e) /\ MayAssign(e))
      BY Zenon
    <3>2. AssignIf(b, e, queries) /\ (b => MayAssign(e)) /\ e \in Endpoint
      BY <1>1, <2>1, <3>1, Zenon
    <3> QED BY <1>0, <1>q, <3>2, AssignInv, Zenon
  <2> QED BY <2>2, <2>3, PeersInvPrimed, Zenon
<1>2. ASSUME NEW e \in Endpoint, Query(e) PROVE PeersInv'
  BY <1>2, <1>q, HandshakeInv, Zenon DEF Query
<1>3. ASSUME NEW e \in Endpoint, Response(e) PROVE PeersInv'
  <2>1. PICK c \in queries[e] :
          NodeIdHandshake(e, c, [queries EXCEPT ![e] = @ \ {c}]) \/ NodeIdHandshake(e, c, queries)
    BY <1>3, Zenon DEF Response
  <2>2. CASE NodeIdHandshake(e, c, [queries EXCEPT ![e] = @ \ {c}])
    <3>1. PICK left \in [Endpoint -> SUBSET (1 .. 3)] : left = [queries EXCEPT ![e] = @ \ {c}]
      BY <1>l, Zenon
    <3>2. NodeIdHandshake(e, c, left) /\ \A k \in Endpoint : left[k] \subseteq queries[k]
      BY <1>l, <2>2, <3>1, Zenon
    <3> QED BY <3>2, HandshakeInv, Zenon
  <2>3. CASE NodeIdHandshake(e, c, queries)
    BY <1>q, <2>3, HandshakeInv, Zenon
  <2> QED BY <2>1, <2>2, <2>3, Zenon
<1>4. ASSUME NEW e \in Endpoint, Lose(e) PROVE PeersInv'
  <2>1. PICK c \in queries[e] : queries' = [queries EXCEPT ![e] = @ \ {c}]
    BY <1>4, Zenon DEF Lose
  <2>2. queries' \in [Endpoint -> SUBSET (1 .. 3)] /\ \A k \in Endpoint : queries'[k] \subseteq queries[k]
    BY <1>l, <2>1, Zenon
  <2>3. UNCHANGED <<peers, named, syn_cookies, per_ip>>
    BY <1>4, Zenon DEF Lose
  <2>4. CookieInv'
    BY <1>0, <2>2, <2>3 DEF CookieInv, CookiesCounted, CookiesRemain
  <2>5. UNCHANGED <<peers, named>>
    BY <2>3, Zenon
  <2> QED BY <1>0, <2>4, <2>5, ListSame, PeersInvPrimed, Zenon
<1>5. ASSUME NEW e \in Preconfigured \cap Endpoint, KeepalivePreconfigured(e) PROVE PeersInv'
  <2>1. peers' = Inserted(e, FALSE) /\ named \subseteq named' /\ UNCHANGED <<syn_cookies, per_ip, queries>>
    BY <1>5, Zenon DEF KeepalivePreconfigured
  <2>2. e \in Endpoint /\ e # Own /\ FALSE \in BOOLEAN /\ e \in Legacy \cup Preconfigured
    BY <1>5, PeersAssumption, Zenon
  <2>3. peers' \in [Endpoint -> Peer] /\ ListInv'
    BY ONLY <1>0, <2>1, <2>2, InsertedInv, Zenon
  <2> QED BY <1>0, <2>1, <2>3, CookiesSame, PeersInvPrimed, Zenon
<1>6. CASE OwnKeepalive
  <2>1. AssignIf(ShouldHandshake(Own) /\ MayAssign(Own), Own, queries) /\ peers' = Contacted(Own) /\ named' = named
    BY <1>6, Zenon DEF OwnKeepalive
  <2>2. PICK b \in BOOLEAN : b = (ShouldHandshake(Own) /\ MayAssign(Own))
    BY Zenon
  <2>3. AssignIf(b, Own, queries) /\ (b => MayAssign(Own)) /\ Own \in Endpoint
    BY <2>1, <2>2, PeersAssumption, Zenon
  <2>4. CookieInv'
    BY <1>0, <1>q, <2>3, AssignInv, Zenon
  <2>5. peers' \in [Endpoint -> Peer] /\ ListInv'
    BY <1>0, <2>1, <2>3, ContactedInv, Zenon
  <2> QED BY <2>4, <2>5, PeersInvPrimed, Zenon
<1>7. CASE OngoingKeepalive
  <2>1. PICK gone : /\ peers' = [e \in Endpoint |-> IF e \in gone THEN Strange ELSE [peers[e] EXCEPT !.heard = FALSE]]
                    /\ named' = named \ gone
    BY <1>7, Zenon DEF OngoingKeepalive
  <2>2. UNCHANGED <<syn_cookies, per_ip, queries>>
    BY <1>7, Zenon DEF OngoingKeepalive
  <2>3. peers' \in [Endpoint -> Peer]
    BY <1>0, <2>1, Zenon DEF Peer, Strange
  <2>4. \A e \in Endpoint : peers'[e].listed =>
            peers[e].listed /\ peers'[e].proved = peers[e].proved /\ (e \in named => e \in named')
    BY <1>0, <2>1, Zenon DEF Peer, Strange
  <2>5. Listed' \subseteq Listed
    BY <2>4, Zenon DEF Listed
  <2>6. PeersPerIpBounded'
    BY <1>0, <2>5, FewerPeers, Zenon DEF ListInv
  <2>7. PeersProved'
    BY <1>0, <2>4, Zenon DEF ListInv, PeersProved, Listed
  <2>8. NotOwnPeer'
    BY <1>0, <2>4, PeersAssumption, Zenon DEF ListInv, NotOwnPeer, KnownPeer
  <2> QED BY <1>0, <2>2, <2>3, <2>6, <2>7, <2>8, CookiesSame, PeersInvPrimed, Zenon DEF ListInv
<1>8. CASE SynCookieCleanup
  <2>1. UNCHANGED <<peers, named>>
    BY <1>8, Zenon DEF SynCookieCleanup
  <2> QED BY <1>0, <1>8, <2>1, CleanupInv, ListSame, PeersInvPrimed, Zenon
<1>9. CASE OngoingPeerStore \/ UNCHANGED peerVars
  <2>1. UNCHANGED <<peers, named>> /\ UNCHANGED <<syn_cookies, per_ip, queries>>
    BY <1>9, Zenon DEF OngoingPeerStore, peerVars
  <2> QED BY <1>0, <2>1, ListSame, CookiesSame, PeersInvPrimed, Zenon
<1>10. CASE Restart
  <2>1. /\ peers' = [e \in Endpoint |-> Strange] /\ UNCHANGED queries
        /\ syn_cookies' = [e \in Endpoint |-> NoCookie] /\ per_ip' = [i \in IpOf |-> 0]
    BY <1>0, <1>10, Zenon DEF Restart, CookieInv
  <2>2. peers' \in [Endpoint -> Peer] /\ ListInv'
    BY <2>1, EmptyList, Zenon
  <2>3. /\ syn_cookies' \in [Endpoint -> [cookie : 0 .. 3, seen : BOOLEAN]]
        /\ per_ip' \in [IpOf -> Nat] /\ CookiesCounted'
    BY <2>1, NoCookies, Zenon
  <2>4. CookieInv'
    BY <1>0, <2>1, <2>3, Zenon DEF CookieInv, CookiesRemain
  <2> QED BY <2>2, <2>4, PeersInvPrimed, Zenon
<1>11. ASSUME NEW e \in Endpoint, BootstrapNamed(e) PROVE PeersInv'
  <2>1. /\ peers' = Inserted(e, FALSE) /\ UNCHANGED <<syn_cookies, per_ip, queries>>
        /\ named \subseteq named' /\ (KnownPeer(e) \/ ~Room(e) \/ e \in named') /\ FALSE \in BOOLEAN
    BY <1>11, Zenon DEF BootstrapNamed, RoomToInsert
  <2>2. peers' \in [Endpoint -> Peer] /\ ListInv'
    BY ONLY <1>0, <1>11, <2>1, InsertedInv, Zenon
  <2> QED BY <1>0, <2>1, <2>2, CookiesSame, PeersInvPrimed, Zenon
<1>12. CASE PeersNext(Endpoint, Endpoint)
  <2>1. CASE \E e \in Endpoint \ {Own} : (\E told \in SUBSET ({Own} \cap Endpoint) : Keepalive(e, told)) \/ Query(e)
    BY <1>1, <1>2, <2>1, Zenon
  <2>2. CASE \E e \in Endpoint : Response(e) \/ Lose(e)
    BY <1>3, <1>4, <2>2, Zenon
  <2>3. CASE \E e \in Preconfigured \cap Endpoint : KeepalivePreconfigured(e)
    BY <1>5, <2>3, Zenon
  <2>4. CASE \E e \in Endpoint : BootstrapNamed(e)
    BY <1>11, <2>4, Zenon
  <2> QED BY <1>6, <1>7, <1>8, <1>9, <1>10, <1>12, <2>1, <2>2, <2>3, <2>4, Zenon DEF PeersNext
<1> QED BY <1>9, <1>12, Zenon

\* What the list of peers promises, whatever messages come in whatever order, are lost,
\* come twice or late, and whatever the operator names for a bootstrap: every peer proved
\* itself, need not, or was named, only a node that was named is its own peer, no IP has
\* more than its share, and the cookies of an IP are counted (peers.cpp, and
\* bootstrap_initiator::bootstrap).
THEOREM PeersGenuineTheorem == PeersSpec => []PeersGenuine
<1>1. PeersInv => PeersGenuine
  BY Zenon DEF PeersInv
<1> QED BY <1>1, InitPeers, NextPeers, PTL DEF PeersSpec
-----------------------------------------------------------------------------
(* The sequence numbers of votes.  The invariant says in which place of the *)
(* three the highest number is; a transaction that saw the last commit when *)
(* the caches are swapped keeps it in sight, one that did not has outlived  *)
(* the flush.                                                               *)

\* The larger of two numbers.
LEMMA MaxOfTwo ==
    ASSUME NEW x \in Nat, NEW y \in Nat
    PROVE  Max({x, y}) = IF x >= y THEN x ELSE y
  <1> DEFINE m == IF x >= y THEN x ELSE y
  <1>1. m \in {x, y} /\ \A z \in {x, y} : m >= z
    OBVIOUS
  <1>2. ASSUME NEW k \in {x, y}, \A z \in {x, y} : k >= z
        PROVE  k = m
    BY <1>2
  <1> HIDE DEF m
  <1>3. Max({x, y}) = m
    BY <1>1, <1>2, Zenon DEF Max
  <1> QED  BY <1>3 DEF m

LEMMA NodeOfReader == ASSUME NEW t PROVE NodeOf(t) \in VoteNode
  BY Zenon DEF NodeOf, VoteNode

\* Whoever looks through a transaction that is not too old finds the highest number.
LEMMA SequenceSeen == SequenceInv => SequenceRemembered
  <1> SUFFICES ASSUME SequenceInv, NEW t \in SequenceReader,
                      reading[t].open /\ ~reading[t].outlived /\ ~misled[NodeOf(t)]
               PROVE  vote_current(t) = highest[NodeOf(t)]
    BY Zenon DEF SequenceRemembered
  <1> QED  BY NodeOfReader DEF SequenceInv, NodeRemembers, ReaderSees, vote_current

LEMMA InitSequence == SequenceInit => SequenceInv
  <1> SUFFICES ASSUME SequenceInit PROVE SequenceInv
    OBVIOUS
  <1>1. SequenceTypes
    BY DEF SequenceInit, SequenceTypes, NotReading
  <1>2. ASSUME NEW n \in VoteNode PROVE NodeRemembers(n)
    BY DEF SequenceInit, NodeRemembers
  <1>3. ASSUME NEW t \in SequenceReader PROVE ReaderSees(t)
    BY DEF SequenceInit, ReaderSees, NotReading
  <1> QED  BY <1>1, <1>2, <1>3, Zenon DEF SequenceInv

LEMMA ReadInv ==
    ASSUME SequenceInv, NEW t \in SequenceReader, ReadBegin(t) \/ ReadEnd(t)
    PROVE  SequenceInv'
  <1> DEFINE e == IF reading[t].open THEN NotReading
                  ELSE [open |-> TRUE, saw |-> vote_table[NodeOf(t)], outlived |-> FALSE]
  <1>1. /\ reading' = [reading EXCEPT ![t] = e]
        /\ UNCHANGED <<vote_cache_l1, vote_cache_l2, vote_table, storing, highest, swapped, misled, sequenceCrashes>>
    BY DEF ReadBegin, ReadEnd, NotReading, caches
  <1>2. SequenceTypes'
    BY <1>1, NodeOfReader DEF SequenceInv, SequenceTypes, NotReading
  <1>3. ASSUME NEW n \in VoteNode PROVE (misled[n] \/ NodeRemembers(n))'
    BY <1>1 DEF SequenceInv, NodeRemembers
  <1>4. ASSUME NEW r \in SequenceReader PROVE ReaderSees(r)'
    <2>1. CASE r # t
      BY <1>1, <2>1 DEF SequenceInv, SequenceTypes, ReaderSees
    <2>2. CASE r = t
      BY <1>1, <2>2, NodeOfReader DEF SequenceInv, SequenceTypes, ReaderSees, NodeRemembers, NotReading
    <2> QED  BY <2>1, <2>2
  <1> QED  BY <1>2, <1>3, <1>4, Zenon DEF SequenceInv

\* A number goes into the first cache; it is no less than the highest, unless the node was
\* misled.
LEMMA NewVoteInv ==
    ASSUME SequenceInv, NEW n \in VoteNode, NEW v \in Nat, NEW h \in Nat, NEW b \in BOOLEAN,
           b \/ (v # 0 /\ v >= highest[n] /\ h = v), misled[n] => b,
           vote_cache_l1' = [vote_cache_l1 EXCEPT ![n] = v],
           highest' = [highest EXCEPT ![n] = h],
           misled' = [misled EXCEPT ![n] = b],
           UNCHANGED <<vote_cache_l2, vote_table, storing, reading, swapped, sequenceCrashes>>
    PROVE  SequenceInv'
  <1>1. SequenceTypes'
    BY DEF SequenceInv, SequenceTypes
  <1>2. ASSUME NEW m \in VoteNode PROVE (misled[m] \/ NodeRemembers(m))'
    BY DEF SequenceInv, SequenceTypes, NodeRemembers
  <1>3. ASSUME NEW r \in SequenceReader PROVE ReaderSees(r)'
    BY NodeOfReader DEF SequenceInv, SequenceTypes, ReaderSees
  <1> QED  BY <1>1, <1>2, <1>3, Zenon DEF SequenceInv

LEMMA CurrentNat ==
    ASSUME SequenceInv, NEW t \in SequenceReader
    PROVE  vote_current(t) \in Nat
  BY NodeOfReader DEF SequenceInv, SequenceTypes, vote_current

LEMMA GenerateInv ==
    ASSUME SequenceInv, NEW t \in SequenceReader, VoteGenerate(t)
    PROVE  SequenceInv'
  <1> DEFINE h == highest["rep"]
             c == vote_current(t)
             v == c + 1
             g == IF h >= v THEN h ELSE v
             b == misled["rep"] \/ c # h
  <1>1. h \in Nat /\ "rep" \in VoteNode /\ misled["rep"] \in BOOLEAN
    BY DEF SequenceInv, SequenceTypes, VoteNode
  <1>2. c \in Nat
    BY CurrentNat
  <1> HIDE DEF c
  <1>3. Max({h, v}) = g
    BY <1>1, <1>2, MaxOfTwo
  <1>4. /\ vote_cache_l1' = [vote_cache_l1 EXCEPT !["rep"] = v]
        /\ highest' = [highest EXCEPT !["rep"] = g]
        /\ misled' = [misled EXCEPT !["rep"] = b]
        /\ UNCHANGED <<vote_cache_l2, vote_table, storing, reading, swapped, sequenceCrashes>>
    <2> HIDE DEF g
    <2> QED  BY <1>3 DEF VoteGenerate, Misled, c
  <1>5. v \in Nat /\ g \in Nat /\ b \in BOOLEAN
    BY <1>1, <1>2
  <1>6. b \/ (v # 0 /\ v >= h /\ g = v)
    BY <1>1, <1>2
  <1> HIDE DEF v, g
  <1> QED  BY <1>1, <1>4, <1>5, <1>6, NewVoteInv

LEMMA HeardInv ==
    ASSUME SequenceInv, NEW t \in SequenceReader, NEW s \in 1 .. MaxSequence, VoteHeard(t, s)
    PROVE  SequenceInv'
  <1> DEFINE n == NodeOf(t)
             h == highest[n]
             c == vote_current(t)
             v == IF c >= s THEN c ELSE s
             g == IF h >= s THEN h ELSE s
             b == misled[n] \/ c # h
  <1>1. n \in VoteNode /\ h \in Nat /\ s \in Nat /\ s # 0 /\ misled[n] \in BOOLEAN
    BY NodeOfReader DEF SequenceInv, SequenceTypes
  <1>2. c \in Nat
    BY CurrentNat
  <1> HIDE DEF c
  <1>3. Max({c, s}) = v /\ Max({h, s}) = g
    BY <1>1, <1>2, MaxOfTwo, Zenon
  <1>4. /\ vote_cache_l1' = [vote_cache_l1 EXCEPT ![n] = v]
        /\ highest' = [highest EXCEPT ![n] = g]
        /\ misled' = [misled EXCEPT ![n] = b]
        /\ UNCHANGED <<vote_cache_l2, vote_table, storing, reading, swapped, sequenceCrashes>>
    <2> HIDE DEF v, g
    <2> QED  BY <1>3 DEF VoteHeard, max_vote, Misled, c
  <1>5. v \in Nat /\ g \in Nat /\ b \in BOOLEAN
    BY <1>1, <1>2
  <1>6. b \/ (v # 0 /\ v >= h /\ g = v)
    BY <1>1, <1>2
  <1> HIDE DEF n, v, g
  <1> QED  BY <1>1, <1>4, <1>5, <1>6, NewVoteInv

\* When the caches are swapped nothing is being written, so a cache that is cleared was
\* written, and a transaction that does not see it in the table is too old from now on.
LEMMA SwapInv ==
    ASSUME SequenceInv, NEW n \in VoteNode, FlushSwap(n)
    PROVE  SequenceInv'
  <1>1. \A r \in SequenceReader :
            /\ reading'[r].open = reading[r].open /\ reading'[r].saw = reading[r].saw
            /\ reading'[r].outlived =
                   (reading[r].outlived \/ (NodeOf(r) = n /\ reading[r].open /\ reading[r].saw # vote_table[n]))
    BY DEF FlushSwap, Outlived, SequenceInv, SequenceTypes
  <1>2. SequenceTypes'
    <2>1. reading' \in [SequenceReader -> [open : BOOLEAN, saw : Nat, outlived : BOOLEAN]]
      BY DEF FlushSwap, Outlived, SequenceInv, SequenceTypes
    <2> QED  BY <2>1 DEF SequenceInv, SequenceTypes, FlushSwap
  <1>3. ASSUME NEW m \in VoteNode PROVE (misled[m] \/ NodeRemembers(m))'
    BY DEF SequenceInv, SequenceTypes, NodeRemembers, FlushSwap
  <1>4. ASSUME NEW r \in SequenceReader PROVE ReaderSees(r)'
    <2>1. CASE NodeOf(r) # n
      BY <1>1, <2>1, NodeOfReader DEF SequenceInv, SequenceTypes, ReaderSees, FlushSwap
    <2>2. CASE NodeOf(r) = n
      <3>1. /\ vote_cache_l1'[n] = 0 /\ vote_cache_l2'[n] = vote_cache_l1[n] /\ ~storing[n]
            /\ highest'[n] = highest[n] /\ misled'[n] = misled[n] /\ NodeOf(r)' = n
        BY <2>2 DEF SequenceInv, SequenceTypes, FlushSwap, NodeOf
      <3>2. ~misled[n] /\ vote_cache_l1[n] = 0 => highest[n] = vote_table[n]
        BY <3>1 DEF SequenceInv, NodeRemembers
      <3>3. reading'[r].open /\ ~reading'[r].outlived => reading'[r].saw = vote_table[n]
        BY <1>1, <2>2, Zenon
      <3> QED  BY <3>1, <3>2, <3>3, Zenon DEF ReaderSees
    <2> QED  BY <2>1, <2>2
  <1> QED  BY <1>2, <1>3, <1>4, Zenon DEF SequenceInv

\* What is committed does not go back, and has what there was when the flush began.
TableKept == \A n \in VoteNode : misled[n] \/ TableDurable(n)

LEMMA CommitInv ==
    ASSUME SequenceInv, NEW n \in VoteNode, FlushCommit(n)
    PROVE  SequenceInv' /\ TableKept
  <1> DEFINE w == IF vote_cache_l2[n] # 0 THEN vote_cache_l2[n] ELSE vote_table[n]
  <1>1. /\ w \in Nat
        /\ misled[n] \/ (w >= vote_table[n] /\ w >= swapped[n])
        /\ vote_table' = [vote_table EXCEPT ![n] = w]
        /\ storing' = [storing EXCEPT ![n] = FALSE]
        /\ swapped' = [swapped EXCEPT ![n] = 0]
        /\ UNCHANGED <<vote_cache_l1, vote_cache_l2, highest, reading, misled, sequenceCrashes>>
    BY DEF SequenceInv, SequenceTypes, NodeRemembers, FlushCommit
  <1>2. SequenceTypes'
    BY <1>1 DEF SequenceInv, SequenceTypes
  <1>3. ASSUME NEW m \in VoteNode PROVE (misled[m] \/ NodeRemembers(m))'
    BY <1>1 DEF SequenceInv, SequenceTypes, NodeRemembers
  <1>4. ASSUME NEW r \in SequenceReader PROVE ReaderSees(r)'
    BY <1>1, NodeOfReader DEF SequenceInv, SequenceTypes, ReaderSees, NodeRemembers
  <1>5. TableKept
    <2> HIDE DEF w
    <2> QED  BY <1>1 DEF TableKept, TableDurable, SequenceInv, SequenceTypes
  <1> QED  BY <1>2, <1>3, <1>4, <1>5, Zenon DEF SequenceInv

LEMMA CrashInv ==
    ASSUME SequenceInv, RepCrash
    PROVE  SequenceInv'
  <1>1. SequenceTypes'
    BY DEF SequenceInv, SequenceTypes, RepCrash, NotReading, VoteNode
  <1>2. ASSUME NEW m \in VoteNode PROVE (misled[m] \/ NodeRemembers(m))'
    BY DEF SequenceInv, SequenceTypes, NodeRemembers, RepCrash
  <1>3. ASSUME NEW r \in SequenceReader PROVE ReaderSees(r)'
    BY NodeOfReader DEF SequenceInv, SequenceTypes, ReaderSees, RepCrash, NotReading
  <1> QED  BY <1>1, <1>2, <1>3, Zenon DEF SequenceInv

LEMMA NextSequence ==
    ASSUME SequenceInv, [SequenceNext]_sequenceVars
    PROVE  SequenceInv' /\ TableKept
  <1>1. ASSUME vote_table' = vote_table, storing' = storing PROVE TableKept
    BY <1>1 DEF TableKept, TableDurable, SequenceInv, SequenceTypes
  <1>2. ASSUME NEW t \in SequenceReader, ReadBegin(t) \/ ReadEnd(t) PROVE SequenceInv' /\ TableKept
    BY <1>1, <1>2, ReadInv DEF ReadBegin, ReadEnd, caches
  <1>3. ASSUME NEW t \in SequenceReader, VoteGenerate(t) PROVE SequenceInv' /\ TableKept
    BY <1>1, <1>3, GenerateInv DEF VoteGenerate
  <1>4. ASSUME NEW t \in SequenceReader, NEW s \in 1 .. MaxSequence, VoteHeard(t, s)
        PROVE  SequenceInv' /\ TableKept
    BY <1>1, <1>4, HeardInv DEF VoteHeard
  <1>5. ASSUME NEW n \in VoteNode, FlushSwap(n) PROVE SequenceInv' /\ TableKept
    <2>1. TableKept
      BY <1>5 DEF TableKept, TableDurable, FlushSwap, SequenceInv, SequenceTypes
    <2> QED  BY <1>5, <2>1, SwapInv, Zenon
  <1>6. ASSUME NEW n \in VoteNode, FlushCommit(n) PROVE SequenceInv' /\ TableKept
    BY <1>6, CommitInv, Zenon
  <1>7. CASE RepCrash
    <2>1. vote_table' = vote_table /\ sequenceCrashes' # sequenceCrashes
      BY <1>7 DEF RepCrash, SequenceInv, SequenceTypes
    <2>2. TableKept
      BY <2>1 DEF TableKept, TableDurable, SequenceInv, SequenceTypes
    <2> QED  BY <1>7, <2>2, CrashInv, Zenon
  <1>8. CASE UNCHANGED sequenceVars
    <2>1. SequenceInv'
      BY <1>8 DEF sequenceVars, SequenceInv, SequenceTypes, NodeRemembers, ReaderSees
    <2> QED  BY <1>1, <1>8, <2>1, Zenon DEF sequenceVars
  <1> QED  BY <1>2, <1>3, <1>4, <1>5, <1>6, <1>7, <1>8, Zenon DEF SequenceNext

\* For any number of votes, crashes and transactions, however long they stay open: whoever
\* reads the caches and the table through a transaction that is not too old finds the
\* highest number its node has had (vote_current between any two steps of flush), what is
\* committed has every number up to the one the flush began with, and the table never goes
\* back, until a transaction that is too old has misled the node.
THEOREM SequencesKeptTheorem == SequenceSpec => SequencesKept
  <1>1. SequenceInv /\ [SequenceNext]_sequenceVars => SequenceInv'
    BY NextSequence, Zenon
  <1>2. SequenceInv /\ SequenceInv' /\ [SequenceNext]_sequenceVars
          => [SequenceRemembered' /\ \A n \in VoteNode : misled[n] \/ TableDurable(n)]_sequenceVars
    <2>1. SequenceInv' => SequenceRemembered'
      BY SequenceSeen, PTL
    <2> QED  BY <2>1, NextSequence, Zenon DEF TableKept
  <1> QED  BY <1>1, <1>2, InitSequence, PTL DEF SequenceSpec, SequencesKept
=============================================================================
