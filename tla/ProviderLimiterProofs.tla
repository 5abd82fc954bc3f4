----------------------- MODULE ProviderLimiterProofs -----------------------
(***************************************************************************)
(* Theorems about ProviderLimiter, for any number of streams and slots and *)
(* any window.                                                             *)
(***************************************************************************)
EXTENDS ProviderLimiter, SlidingWindowProofs

(***************************************************************************)
(* Slots.  A stream that was given one has it, like one that holds it, and *)
(* the deque of the semaphore is the list of the streams that queue.       *)
(***************************************************************************)
Using == {s \in Caller : stage[s] \in Holding \cup {"given"}}

SlotInv ==
    /\ stage \in [Caller -> {"new", "queued", "given"} \cup Holding \cup Finished]
    /\ slots \in Nat /\ waiters \in Seq(Caller)
    /\ IsFiniteSet(Using) /\ slots + Cardinality(Using) = MaxConcurrency
    /\ waiters # << >> => slots = 0
    /\ \A s \in Caller : stage[s] = "queued" <=> \E i \in 1..Len(waiters) : waiters[i] = s
    /\ \A i, j \in 1..Len(waiters) : waiters[i] = waiters[j] => i = j

\* The window, and the calls of the last Window ticks.
CallInv == Tracks(times, calls)

(***************************************************************************)
(* Blocks.  A stream that has not missed the block sleeps at least as long *)
(* as it lasts, and one that is past the look at the block has missed it.  *)
(* A stream that backs off has an attempt left.                            *)
(***************************************************************************)
BlockInv ==
    /\ sleep \in [Caller -> Nat]
    /\ attempt \in [Caller -> 0..MaxRetries] /\ round \in [Caller -> Nat]
    /\ blocked \in Nat /\ missed \in SUBSET Caller
    /\ \A s \in Caller \ missed :
          /\ stage[s] = "window" => blocked = 0
          /\ stage[s] = "blocked" => blocked <= sleep[s]
    /\ \A s \in Caller : stage[s] = "backoff" => attempt[s] < MaxRetries

-----------------------------------------------------------------------------
(* Slots.                                                                  *)

Stages == {"new", "queued", "given"} \cup Holding \cup Finished

LEMMA HoldingIs ==
    /\ Holding \cap Finished = {}
    /\ Holding \cap {"new", "queued", "given"} = {}
    /\ Finished \cap {"new", "queued", "given"} = {}
    /\ {"blocked", "window", "calling", "backoff", "streaming", "failing"} \subseteq Holding
    /\ {"done", "failed", "gone"} \subseteq Finished
  BY DEF Holding, Finished

\* A stream that has its slot goes on with it.
LEMMA SlotKept ==
    ASSUME SlotInv, NEW s \in Caller, NEW e \in Holding, stage[s] \in Holding \cup {"given"},
           stage' = [stage EXCEPT ![s] = e], UNCHANGED <<slots, waiters>>
    PROVE  SlotInv'
<1>1. Using' = Using
  BY DEF SlotInv, Using
<1>2. stage' \in [Caller -> Stages]
  BY DEF SlotInv, Stages
<1>3. \A t \in Caller : stage'[t] = "queued" <=> stage[t] = "queued"
  BY HoldingIs DEF SlotInv
<1> QED
  BY <1>1, <1>2, <1>3 DEF SlotInv, Stages

\* One slot less is free.
LEMMA SlotTaken ==
    ASSUME SlotInv, NEW s \in Caller, NEW e \in Holding, stage[s] = "new", slots > 0,
           stage' = [stage EXCEPT ![s] = e], slots' = slots - 1, waiters = << >>,
           UNCHANGED waiters
    PROVE  SlotInv'
<1>1. s \notin Using /\ Using' = Using \cup {s}
  BY HoldingIs DEF SlotInv, Using
<1>2. IsFiniteSet(Using') /\ Cardinality(Using') = Cardinality(Using) + 1
  BY <1>1, FS_AddElement DEF SlotInv
<1>3. Cardinality(Using) \in Nat
  BY FS_CardinalityType DEF SlotInv
<1>4. slots' \in Nat /\ slots' + Cardinality(Using') = MaxConcurrency
  BY <1>2, <1>3 DEF SlotInv
<1>5. stage' \in [Caller -> Stages]
  BY DEF SlotInv, Stages
<1>6. \A t \in Caller : stage'[t] = "queued" <=> stage[t] = "queued"
  BY HoldingIs DEF SlotInv
<1> QED
  BY <1>2, <1>4, <1>5, <1>6 DEF SlotInv, Stages

\* A stream joins the end of the line.
LEMMA SlotAwaited ==
    ASSUME SlotInv, NEW s \in Caller, stage[s] = "new", slots = 0 \/ waiters # << >>,
           stage' = [stage EXCEPT ![s] = "queued"], waiters' = Append(waiters, s),
           UNCHANGED slots
    PROVE  SlotInv'
<1>1. Using' = Using
  BY HoldingIs DEF SlotInv, Using
<1>2. /\ waiters' \in Seq(Caller) /\ Len(waiters') = Len(waiters) + 1
      /\ Len(waiters) \in Nat
      /\ \A i \in 1..Len(waiters) : waiters'[i] = waiters[i] /\ waiters[i] # s
      /\ waiters'[Len(waiters) + 1] = s
  BY AppendProperties, LenProperties DEF SlotInv
<1>3. \A t \in Caller : stage'[t] = "queued" <=> \E i \in 1..Len(waiters') : waiters'[i] = t
  <2> SUFFICES ASSUME NEW t \in Caller
               PROVE  stage'[t] = "queued" <=> \E i \in 1..Len(waiters') : waiters'[i] = t
    OBVIOUS
  <2>1. CASE t = s
    BY <1>2, <2>1 DEF SlotInv
  <2>2. CASE t # s
    BY <1>2, <2>2 DEF SlotInv
  <2> QED
    BY <2>1, <2>2
<1>4. \A i, j \in 1..Len(waiters') : waiters'[i] = waiters'[j] => i = j
  BY <1>2 DEF SlotInv
<1>5. stage' \in [Caller -> Stages] /\ slots' = 0
  BY DEF SlotInv, Stages
<1> QED
  BY <1>1, <1>2, <1>3, <1>4, <1>5 DEF SlotInv, Stages

\* A stream that leaves: its slot is free, or the first in line has it.
LEMMA SlotLeft ==
    ASSUME SlotInv, NEW s \in Caller, NEW end \in Finished, stage[s] \in Holding \cup {"given"},
           Leave(s, end)
    PROVE  SlotInv'
<1>1. /\ s \in Using /\ Cardinality(Using) \in Nat /\ IsFiniteSet(Using \ {s})
      /\ Cardinality(Using \ {s}) = Cardinality(Using) - 1
  BY FS_RemoveElement, FS_CardinalityType DEF SlotInv, Using
<1>2. CASE waiters = << >>
  <2>1. /\ stage' = [stage EXCEPT ![s] = end] /\ slots' = slots + 1 /\ UNCHANGED waiters
    BY <1>2 DEF Leave
  <2>2. Using' = Using \ {s}
    BY <2>1, HoldingIs DEF SlotInv, Using
  <2>3. IsFiniteSet(Using') /\ slots' \in Nat /\ slots' + Cardinality(Using') = MaxConcurrency
    BY <1>1, <2>1, <2>2 DEF SlotInv
  <2>4. stage' \in [Caller -> Stages]
    BY <2>1 DEF SlotInv, Stages
  <2>5. \A t \in Caller : stage'[t] = "queued" <=> stage[t] = "queued"
    BY <2>1, HoldingIs DEF SlotInv
  <2> QED
    BY <1>2, <2>1, <2>3, <2>4, <2>5 DEF SlotInv, Stages
<1>3. CASE waiters # << >>
  <2> DEFINE h == Head(waiters)
  <2>1. /\ h \in Caller /\ h = waiters[1] /\ Len(waiters) \in Nat \ {0}
        /\ Tail(waiters) \in Seq(Caller) /\ Len(Tail(waiters)) = Len(waiters) - 1
        /\ \A i \in 1..Len(Tail(waiters)) : Tail(waiters)[i] = waiters[i + 1]
    BY <1>3, HeadTailProperties, LenProperties, EmptySeq DEF SlotInv
  <2> HIDE DEF h
  <2>2. /\ stage' = [stage EXCEPT ![s] = end, ![h] = "given"]
        /\ waiters' = Tail(waiters) /\ slots' = slots
    BY <1>3 DEF Leave, h
  <2>3. stage[h] = "queued" /\ h # s /\ h \notin Using
    BY <2>1, HoldingIs DEF SlotInv, Using
  <2>4. \A t \in Caller :
            stage'[t] = IF t = h THEN "given" ELSE IF t = s THEN end ELSE stage[t]
    BY <2>1, <2>2, <2>3 DEF SlotInv
  <2>5. Using' = (Using \ {s}) \cup {h}
    BY <2>1, <2>3, <2>4, HoldingIs DEF Using
  <2>6. IsFiniteSet(Using') /\ Cardinality(Using') = Cardinality(Using)
    BY <1>1, <2>3, <2>5, FS_AddElement
  <2>7. stage' \in [Caller -> Stages]
    BY <2>2 DEF SlotInv, Stages
  <2>8. \A t \in Caller : stage'[t] = "queued" <=> stage[t] = "queued" /\ t # h
    BY <2>3, <2>4, HoldingIs DEF SlotInv
  <2>9. \A t \in Caller : stage'[t] = "queued" <=> \E i \in 1..Len(waiters') : waiters'[i] = t
    <3> SUFFICES ASSUME NEW t \in Caller
                 PROVE  stage'[t] = "queued" <=> \E i \in 1..Len(waiters') : waiters'[i] = t
      OBVIOUS
    <3>1. ASSUME NEW i \in 1..Len(waiters'), waiters'[i] = t
          PROVE  i + 1 \in 1..Len(waiters) /\ waiters[i + 1] = t /\ t # h
      BY <2>1, <2>2, <3>1 DEF SlotInv
    <3>2. ASSUME NEW i \in 1..Len(waiters), waiters[i] = t, t # h
          PROVE  i - 1 \in 1..Len(waiters') /\ waiters'[i - 1] = t
      BY <2>1, <2>2, <3>2
    <3> QED
      BY <2>8, <3>1, <3>2 DEF SlotInv
  <2>10. \A i, j \in 1..Len(waiters') : waiters'[i] = waiters'[j] => i = j
    BY <2>1, <2>2 DEF SlotInv
  <2> QED
    BY <1>3, <2>1, <2>2, <2>6, <2>7, <2>9, <2>10 DEF SlotInv, Stages
<1> QED
  BY <1>2, <1>3

\* A waiter that is cancelled takes itself, and nobody else, off the deque.
LEMMA SlotGivenUp ==
    ASSUME SlotInv, NEW s \in Caller, stage[s] = "queued", Remove(s),
           stage' = [stage EXCEPT ![s] = "gone"], UNCHANGED slots
    PROVE  SlotInv'
<1>1. PICK i \in 1..Len(waiters) :
         /\ waiters[i] = s
         /\ waiters' = SubSeq(waiters, 1, i - 1) \o SubSeq(waiters, i + 1, Len(waiters))
  BY DEF Remove
<1> DEFINE n == Len(waiters)
           left == SubSeq(waiters, 1, i - 1)
           right == SubSeq(waiters, i + 1, n)
<1>2. n \in Nat \ {0} /\ i \in 1..n /\ \A j \in 1..n : waiters[j] \in Caller
  BY LenProperties, ElementOfSeq DEF SlotInv
<1>3. /\ left \in Seq(Caller) /\ Len(left) = i - 1
      /\ \A j \in 1..(i - 1) : left[j] = waiters[j]
  <2>1. /\ 1 \in Int /\ i - 1 \in Int /\ \A j \in 1..(i - 1) : waiters[j] \in Caller
    BY <1>2
  <2>2. /\ left \in Seq(Caller) /\ Len(left) = IF 1 <= i - 1 THEN (i - 1) - 1 + 1 ELSE 0
        /\ \A j \in 1..((i - 1) - 1 + 1) : left[j] = waiters[1 + j - 1]
    BY <2>1, SubSeqProperties
  <2> QED
    BY <1>2, <2>2
<1>4. /\ right \in Seq(Caller) /\ Len(right) = n - i
      /\ \A j \in 1..(n - i) : right[j] = waiters[i + j]
  <2>1. /\ i + 1 \in Int /\ n \in Int /\ \A j \in (i + 1)..n : waiters[j] \in Caller
    BY <1>2
  <2> HIDE DEF n
  <2>2. /\ right \in Seq(Caller) /\ Len(right) = IF i + 1 <= n THEN n - (i + 1) + 1 ELSE 0
        /\ \A j \in 1..(n - (i + 1) + 1) : right[j] = waiters[(i + 1) + j - 1]
    BY <2>1, SubSeqProperties
  <2> HIDE DEF right
  <2>3. n - (i + 1) + 1 = n - i /\ \A j \in 1..(n - i) : (i + 1) + j - 1 = i + j
    BY <1>2
  <2> QED
    BY <1>2, <2>2, <2>3
<1> HIDE DEF n, left, right
<1>5. waiters' = left \o right
  BY <1>1 DEF left, right, n
<1>6. /\ waiters' \in Seq(Caller) /\ Len(waiters') = n - 1
      /\ \A j \in 1..(n - 1) : waiters'[j] = waiters[IF j < i THEN j ELSE j + 1]
  <2>1. /\ left \o right \in Seq(Caller) /\ Len(left \o right) = (i - 1) + (n - i)
        /\ \A j \in 1..((i - 1) + (n - i)) :
              (left \o right)[j] = IF j <= i - 1 THEN left[j] ELSE right[j - (i - 1)]
    BY <1>3, <1>4, ConcatProperties
  <2>2. (i - 1) + (n - i) = n - 1
    BY <1>2
  <2>3. ASSUME NEW j \in 1..(n - 1)
        PROVE  waiters'[j] = waiters[IF j < i THEN j ELSE j + 1]
    <3>1. CASE j < i
      BY <1>2, <1>3, <1>5, <2>1, <2>2, <3>1
    <3>2. CASE ~(j < i)
      <4>1. j - (i - 1) \in 1..(n - i) /\ i + (j - (i - 1)) = j + 1 /\ ~(j <= i - 1)
        BY <1>2, <3>2
      <4>2. waiters'[j] = right[j - (i - 1)]
        BY <1>5, <2>1, <2>2, <4>1
      <4>3. right[j - (i - 1)] = waiters[j + 1]
        BY <1>4, <4>1
      <4> QED
        BY <3>2, <4>2, <4>3
    <3> QED
      BY <3>1, <3>2
  <2> QED
    BY <1>5, <2>1, <2>2, <2>3
<1>7. Using' = Using /\ stage' \in [Caller -> Stages]
  BY HoldingIs DEF SlotInv, Using, Stages
<1>8. \A t \in Caller : stage'[t] = "queued" <=> \E j \in 1..Len(waiters') : waiters'[j] = t
  <2> SUFFICES ASSUME NEW t \in Caller
               PROVE  stage'[t] = "queued" <=> \E j \in 1..Len(waiters') : waiters'[j] = t
    OBVIOUS
  <2>1. \A j, k \in 1..n : waiters[j] = waiters[k] => j = k
    BY DEF SlotInv, n
  <2>2. stage'[t] = "queued" <=> t # s /\ \E j \in 1..n : waiters[j] = t
    BY DEF SlotInv, n
  <2>3. ASSUME NEW j \in 1..(n - 1)
        PROVE  \E k \in 1..n : k # i /\ waiters'[j] = waiters[k]
    <3>1. (IF j < i THEN j ELSE j + 1) \in 1..n /\ (IF j < i THEN j ELSE j + 1) # i
      BY <1>2
    <3> QED
      BY <1>6, <3>1
  <2>4. ASSUME NEW k \in 1..n, k # i
        PROVE  \E j \in 1..(n - 1) : waiters'[j] = waiters[k]
    <3>1. CASE k < i
      <4>1. k \in 1..(n - 1)
        BY <1>2, <3>1
      <4> QED
        BY <1>6, <3>1, <4>1
    <3>2. CASE k > i
      <4>1. k - 1 \in 1..(n - 1) /\ ~(k - 1 < i) /\ (k - 1) + 1 = k
        BY <1>2, <3>2
      <4> QED
        BY <1>6, <4>1
    <3> QED
      BY <1>2, <2>4, <3>1, <3>2
  <2>5. waiters[i] = s
    BY <1>1
  <2>6. ASSUME NEW j \in 1..(n - 1), waiters'[j] = t
        PROVE  t # s /\ \E k \in 1..n : waiters[k] = t
    BY <1>2, <2>1, <2>3, <2>5, <2>6
  <2>7. ASSUME NEW k \in 1..n, waiters[k] = t, t # s
        PROVE  \E j \in 1..(n - 1) : waiters'[j] = t
    BY <2>4, <2>5, <2>7
  <2>8. stage'[t] = "queued" <=> \E j \in 1..(n - 1) : waiters'[j] = t
    BY <2>2, <2>6, <2>7
  <2> QED
    BY <1>6, <2>8
<1>9. \A j, k \in 1..Len(waiters') : waiters'[j] = waiters'[k] => j = k
  <2>1. \A j, k \in 1..n : waiters[j] = waiters[k] => j = k
    BY DEF SlotInv, n
  <2> SUFFICES ASSUME NEW j \in 1..(n - 1), NEW k \in 1..(n - 1), waiters'[j] = waiters'[k]
               PROVE  j = k
    BY <1>6
  <2>2. /\ (IF j < i THEN j ELSE j + 1) \in 1..n /\ (IF k < i THEN k ELSE k + 1) \in 1..n
        /\ (IF j < i THEN j ELSE j + 1) = (IF k < i THEN k ELSE k + 1) => j = k
    BY <1>2
  <2> QED
    BY <1>6, <2>1, <2>2
<1>10. slots' = 0 /\ slots = 0
  <2>1. waiters # << >>
    BY <1>1, <1>2, EmptySeq DEF n
  <2> QED
    BY <2>1 DEF SlotInv
<1> QED
  BY <1>6, <1>7, <1>8, <1>9, <1>10 DEF SlotInv, Stages

LEMMA SlotInit == LimitInit => SlotInv
<1> SUFFICES ASSUME LimitInit PROVE SlotInv
  OBVIOUS
<1>1. Using = {} /\ stage \in [Caller -> Stages]
  BY HoldingIs DEF LimitInit, Using, Stages
<1>2. waiters = << >> /\ waiters \in Seq(Caller) /\ Len(waiters) = 0
  BY EmptySeq DEF LimitInit
<1>3. slots \in Nat /\ slots + Cardinality(Using) = MaxConcurrency /\ IsFiniteSet(Using)
  BY <1>1, FS_EmptySet, ProviderLimiterAssumption DEF LimitInit
<1>4. \A s \in Caller : stage[s] # "queued"
  BY DEF LimitInit
<1> QED
  BY <1>1, <1>2, <1>3, <1>4 DEF SlotInv, Stages

\* The look at the block and the window moves the stream within its slot, and makes a
\* call only if there is no block, or none that it had to see.
LEMMA WaitMoves ==
    ASSUME NEW s \in Caller, WaitIfBlocked(s) \/ CallOrWait(s)
    PROVE  \E e \in Holding : stage' = [stage EXCEPT ![s] = e]
<1>1. {"blocked", "window", "calling"} \subseteq Holding
  BY DEF Holding
<1> QED
  BY <1>1 DEF WaitIfBlocked, CallOrWait

LEMMA SlotStep == SlotInv /\ [LimitNext]_limitVars => SlotInv'
<1> SUFFICES ASSUME SlotInv, [LimitNext]_limitVars PROVE SlotInv'
  OBVIOUS
<1>1. ASSUME NEW s \in Caller, TakeSlot(s) PROVE SlotInv'
  <2>1. PICK e \in Holding : stage' = [stage EXCEPT ![s] = e]
    BY <1>1, WaitMoves DEF TakeSlot
  <2> QED
    BY <1>1, <2>1, SlotTaken DEF TakeSlot
<1>2. ASSUME NEW s \in Caller, Queue(s) PROVE SlotInv'
  BY <1>2, SlotAwaited DEF Queue
<1>3. ASSUME NEW s \in Caller, GoesOn(s) \/ CallRejected(s) PROVE SlotInv'
  <2>1. /\ stage[s] \in Holding \cup {"given"}
        /\ UNCHANGED <<slots, waiters>>
        /\ WaitIfBlocked(s) \/ CallOrWait(s)
    BY <1>3 DEF GoesOn, GoOn, BlockOver, RoomAtLast, Retry, CallRejected, Holding
  <2>2. PICK e \in Holding : stage' = [stage EXCEPT ![s] = e]
    BY <2>1, WaitMoves
  <2> QED
    BY <2>1, <2>2, SlotKept
<1>4. ASSUME NEW s \in Caller, CallSucceeds(s) \/ CallBacksOff(s) \/ StreamFails(s)
      PROVE  SlotInv'
  <2>1. PICK e \in Holding :
           /\ stage' = [stage EXCEPT ![s] = e] /\ stage[s] \in Holding
           /\ UNCHANGED <<slots, waiters>>
    BY <1>4 DEF CallSucceeds, CallBacksOff, StreamFails, Holding
  <2> QED
    BY <2>1, SlotKept
<1>5. ASSUME NEW s \in Caller, StreamEnds(s) PROVE SlotInv'
  BY <1>5, SlotLeft DEF StreamEnds, Holding, Finished
<1>6. ASSUME NEW s \in Caller, Cancel(s) PROVE SlotInv'
  <2>1. CASE stage[s] = "queued"
    BY <1>6, <2>1, SlotGivenUp DEF Cancel
  <2>2. CASE stage[s] # "queued"
    BY <1>6, <2>2, SlotLeft DEF Cancel, Finished
  <2> QED
    BY <2>1, <2>2
<1>7. CASE LimitTick \/ UNCHANGED limitVars
  <2>1. UNCHANGED <<stage, slots, waiters>>
    BY <1>7 DEF LimitTick, limitVars
  <2> QED
    BY <2>1 DEF SlotInv, Using
<1> QED
  BY <1>1, <1>2, <1>3, <1>4, <1>5, <1>6, <1>7 DEF LimitNext, CallEnds

-----------------------------------------------------------------------------
(* The window.                                                             *)

LEMMA CallStep == CallInv /\ [LimitNext]_limitVars => CallInv'
<1> SUFFICES ASSUME CallInv, [LimitNext]_limitVars PROVE CallInv'
  OBVIOUS
<1>1. ASSUME NEW s \in Caller, CallOrWait(s) PROVE CallInv'
  <2>1. CASE HasRoom(times)
    BY <1>1, <2>1, TracksAcquire DEF CallOrWait, CallInv
  <2>2. CASE ~HasRoom(times)
    BY <1>1, <2>2, TracksDrop DEF CallOrWait, CallInv
  <2> QED
    BY <2>1, <2>2
<1>2. CASE UNCHANGED <<times, calls>>
  BY <1>2 DEF CallInv
<1>3. CASE LimitTick
  <2>1. Tracks(Aged(times), Recent(Aged(calls)))
    BY TracksTick DEF CallInv
  <2> QED
    BY <1>3, <2>1, TracksDrop DEF LimitTick, CallInv
<1>4. ASSUME NEW s \in Caller, WaitIfBlocked(s) PROVE CallInv'
  BY <1>1, <1>2, <1>4 DEF WaitIfBlocked
<1>5. ASSUME NEW s \in Caller, TakeSlot(s) \/ GoesOn(s) \/ CallRejected(s) PROVE CallInv'
  BY <1>1, <1>4, <1>5
     DEF TakeSlot, GoesOn, GoOn, BlockOver, RoomAtLast, Retry, CallRejected
<1>6. ASSUME NEW s \in Caller,
             Queue(s) \/ CallSucceeds(s) \/ CallBacksOff(s) \/ StreamFails(s)
                \/ StreamEnds(s) \/ Cancel(s)
      PROVE  CallInv'
  BY <1>2, <1>6 DEF Queue, CallSucceeds, CallBacksOff, StreamFails, StreamEnds, Cancel
<1> QED
  BY <1>2, <1>3, <1>5, <1>6 DEF LimitNext, CallEnds, limitVars

\* Whoever leaves at which point, slots are neither lost nor made up and nobody waits
\* while one is free; however retries and fresh streams interleave, no Window ticks see
\* more than RateLimit calls.
THEOREM SlotsAndRateCorrect == LimitSpec => []SlotsAndRate
<1>1. LimitInit => CallInv
  BY TracksInit DEF LimitInit, CallInv
<1>2. SlotInv /\ CallInv => SlotsAndRate
  <2> SUFFICES ASSUME SlotInv, CallInv PROVE SlotsAndRate
    OBVIOUS
  <2> DEFINE Given == {s \in Caller : stage[s] = "given"}
  <2>1. /\ Holders \subseteq Using /\ Given \subseteq Using
        /\ Using = Holders \cup Given /\ Holders \cap Given = {}
    BY HoldingIs DEF Holders, Using
  <2>2. IsFiniteSet(Holders) /\ IsFiniteSet(Given) /\ IsFiniteSet(Using)
    BY <2>1, FS_Subset DEF SlotInv
  <2> HIDE DEF Given
  <2>3. Cardinality(Using) = Cardinality(Holders) + Cardinality(Given) - Cardinality(Holders \cap Given)
    BY <2>1, <2>2, FS_Union
  <2>4. /\ Cardinality(Holders) \in Nat /\ Cardinality(Given) \in Nat
        /\ Cardinality(Holders \cap Given) = 0
    BY <2>1, <2>2, FS_CardinalityType, FS_EmptySet
  <2>5. slots + Cardinality(Holders) + Cardinality(Given) = MaxConcurrency
    BY <2>3, <2>4 DEF SlotInv
  <2>6. waiters # << >> => slots = 0
    BY DEF SlotInv
  <2>7. Len(calls) <= RateLimit
    BY DEF CallInv, Tracks
  <2> QED
    BY <2>5, <2>6, <2>7 DEF SlotsAndRate, Given
<1> QED
  BY <1>1, <1>2, SlotInit, SlotStep, CallStep, PTL DEF LimitSpec

-----------------------------------------------------------------------------
(* Blocks.                                                                 *)

\* The step is of s: the attempts of the others stay as they are.
AttemptOf(s) ==
    /\ attempt' \in [Caller -> 0..MaxRetries] /\ round' \in [Caller -> Nat]
    /\ \A t \in Caller \ {s} : attempt'[t] = attempt[t]

\* A stream that waits for the window looks at the block no more: there is none, or it
\* was set while the stream waited.
LEMMA WindowHeeds ==
    ASSUME SlotInv, BlockInv, NEW s \in Caller, CallOrWait(s),
           blocked > 0 => s \in missed,
           sleep' = sleep, blocked' = blocked, AttemptOf(s)
    PROVE  BlockInv'
<1>1. PICK e \in {"window", "calling"} :
         /\ stage' = [stage EXCEPT ![s] = e]
         /\ missed' = missed \/ (e = "calling" /\ missed' = missed \ {s})
  BY DEF CallOrWait
<1>2. \A t \in Caller : stage'[t] = IF t = s THEN e ELSE stage[t]
  BY <1>1 DEF SlotInv
<1>3. blocked \in Nat
  BY DEF BlockInv
<1> QED
  BY <1>1, <1>2, <1>3 DEF BlockInv, AttemptOf

\* wait_if_blocked looks at the block, and sleeps as long as it is to last.
LEMMA LookHeeds ==
    ASSUME SlotInv, BlockInv, NEW s \in Caller, WaitIfBlocked(s),
           blocked' = blocked, AttemptOf(s)
    PROVE  BlockInv'
<1>1. blocked \in Nat
  BY DEF BlockInv
<1>2. CASE blocked > 0
  <2>1. /\ stage' = [stage EXCEPT ![s] = "blocked"] /\ sleep' = [sleep EXCEPT ![s] = blocked]
        /\ missed' = missed
    BY <1>2 DEF WaitIfBlocked
  <2>2. \A t \in Caller : /\ stage'[t] = IF t = s THEN "blocked" ELSE stage[t]
                          /\ sleep'[t] = IF t = s THEN blocked ELSE sleep[t]
    BY <2>1 DEF SlotInv, BlockInv
  <2> QED
    BY <1>1, <2>1, <2>2 DEF BlockInv, AttemptOf
<1>3. CASE ~(blocked > 0)
  BY <1>3, WindowHeeds DEF WaitIfBlocked
<1> QED
  BY <1>2, <1>3

\* A failure sets the block: those that wait have missed it, and nobody else waits.
LEMMA BlockHeeded ==
    ASSUME SlotInv, BlockInv, NEW s \in Caller, NEW e \in {"backoff", "failing"}, NEW ticks \in Nat,
           stage' = [stage EXCEPT ![s] = e], Block(ticks),
           e = "backoff" => attempt[s] < MaxRetries,
           sleep' \in [Caller -> Nat], UNCHANGED tries
    PROVE  BlockInv'
<1>1. \A t \in Caller : stage'[t] = IF t = s THEN e ELSE stage[t]
  BY DEF SlotInv
<1> QED
  BY <1>1 DEF BlockInv, Block, tries

LEMMA BlockStep == SlotInv /\ BlockInv /\ [LimitNext]_limitVars => BlockInv'
<1> SUFFICES ASSUME SlotInv, BlockInv, [LimitNext]_limitVars PROVE BlockInv'
  OBVIOUS
<1> USE ProviderLimiterAssumption
<1>1. ASSUME NEW s \in Caller, TakeSlot(s) \/ GoOn(s) PROVE BlockInv'
  BY <1>1, LookHeeds DEF TakeSlot, GoOn, BlockInv, AttemptOf, tries
<1>2. ASSUME NEW s \in Caller, BlockOver(s) \/ RoomAtLast(s) PROVE BlockInv'
  <2>1. blocked > 0 => s \in missed
    BY <1>2 DEF BlockOver, RoomAtLast, BlockInv
  <2> QED
    BY <1>2, <2>1, WindowHeeds DEF BlockOver, RoomAtLast, BlockInv, AttemptOf, tries
<1>3. ASSUME NEW s \in Caller, CallRejected(s) PROVE BlockInv'
  <2>1. AttemptOf(s)
    BY <1>3 DEF CallRejected, BlockInv, AttemptOf
  <2> QED
    BY <1>3, <2>1, LookHeeds DEF CallRejected
<1>4. ASSUME NEW s \in Caller, Retry(s) PROVE BlockInv'
  <2>1. attempt[s] + 1 \in 0..MaxRetries
    BY <1>4 DEF Retry, BlockInv
  <2>2. AttemptOf(s)
    BY <1>4, <2>1 DEF Retry, BlockInv, AttemptOf
  <2> QED
    BY <1>4, <2>2, LookHeeds DEF Retry
<1>5. ASSUME NEW s \in Caller, CallBacksOff(s) PROVE BlockInv'
  <2>1. PICK delay \in Delays(attempt[s]) : Block(delay) /\ sleep' = [sleep EXCEPT ![s] = delay]
    BY <1>5 DEF CallBacksOff
  <2>2. delay \in Nat
    <3>1. 2^attempt[s] \in Nat
      BY BackoffAssumption DEF BlockInv
    <3> QED
      BY <3>1 DEF Delays
  <2>3. sleep' \in [Caller -> Nat]
    BY <2>1, <2>2 DEF BlockInv
  <2> QED
    BY <1>5, <2>1, <2>2, <2>3, BlockHeeded DEF CallBacksOff, tries
<1>6. ASSUME NEW s \in Caller, StreamFails(s) PROVE BlockInv'
  <2>1. \A t \in Caller : stage'[t] = IF t = s THEN "failing" ELSE stage[t]
    BY <1>6 DEF StreamFails, SlotInv
  <2>2. CASE Block(LongBlock)
    BY <1>6, <2>2, BlockHeeded DEF StreamFails, BlockInv, tries
  <2>3. CASE UNCHANGED <<blocked, missed>>
    BY <1>6, <2>1, <2>3 DEF StreamFails, BlockInv, tries
  <2> QED
    BY <1>6, <2>2, <2>3 DEF StreamFails
<1>7. ASSUME NEW s \in Caller, Forget(s), UNCHANGED blocked,
             \A t \in Caller : stage'[t] \in {"blocked", "window", "backoff"} =>
                t # s /\ stage'[t] = stage[t],
             sleep' \in [Caller -> Nat], \A t \in Caller \ {s} : sleep'[t] = sleep[t],
             missed' \in {missed, missed \ {s}}
      PROVE  BlockInv'
  <2>1. AttemptOf(s)
    BY <1>7 DEF Forget, BlockInv, AttemptOf
  <2> QED
    BY <1>7, <2>1 DEF BlockInv, AttemptOf
<1>8. ASSUME NEW s \in Caller, NEW end \in Finished, Leave(s, end),
             NEW t \in Caller, stage'[t] \in {"blocked", "window", "backoff"}
      PROVE  t # s /\ stage'[t] = stage[t]
  <2>1. end \notin {"blocked", "window", "backoff"}
    BY HoldingIs
  <2>2. PICK h : stage' \in {[stage EXCEPT ![s] = end], [stage EXCEPT ![s] = end, ![h] = "given"]}
    BY <1>8 DEF Leave
  <2> QED
    BY <1>8, <2>1, <2>2 DEF SlotInv
<1>9. ASSUME NEW s \in Caller, StreamEnds(s) PROVE BlockInv'
  <2>1. \A t \in Caller : stage'[t] \in {"blocked", "window", "backoff"} =>
           t # s /\ stage'[t] = stage[t]
    BY <1>8, <1>9, HoldingIs DEF StreamEnds
  <2> QED
    BY <1>7, <1>9, <2>1 DEF StreamEnds, BlockInv
<1>10. ASSUME NEW s \in Caller, Cancel(s) PROVE BlockInv'
  <2>1. \A t \in Caller : stage'[t] \in {"blocked", "window", "backoff"} =>
           t # s /\ stage'[t] = stage[t]
    <3>1. CASE stage[s] = "queued"
      BY <1>10, <3>1 DEF Cancel, SlotInv
    <3>2. CASE stage[s] # "queued"
      BY <1>8, <1>10, <3>2, HoldingIs DEF Cancel
    <3> QED
      BY <3>1, <3>2
  <2>2. sleep' \in [Caller -> Nat] /\ \A t \in Caller \ {s} : sleep'[t] = sleep[t]
    BY <1>10 DEF Cancel, BlockInv
  <2> QED
    BY <1>7, <1>10, <2>1, <2>2 DEF Cancel
<1>11. ASSUME NEW s \in Caller, Queue(s) \/ CallSucceeds(s) PROVE BlockInv'
  <2>1. PICK e \in {"queued", "streaming"} : stage' = [stage EXCEPT ![s] = e]
    BY <1>11 DEF Queue, CallSucceeds
  <2>2. \A t \in Caller : stage'[t] = IF t = s THEN e ELSE stage[t]
    BY <2>1 DEF SlotInv
  <2>3. UNCHANGED <<sleep, attempt, round, blocked, missed>>
    BY <1>11 DEF Queue, CallSucceeds, tries
  <2> QED
    BY <2>2, <2>3 DEF BlockInv
<1>12. CASE LimitTick
  <2>1. /\ \A n \in Nat : Less(n) \in Nat
        /\ \A m, n \in Nat : m <= n => Less(m) <= Less(n)
        /\ Less(0) = 0
    BY DEF Less
  <2>2. /\ blocked' = Less(blocked) /\ sleep' = [s \in Caller |-> Less(sleep[s])]
        /\ UNCHANGED <<stage, attempt, round, missed>>
    BY <1>12 DEF LimitTick, tries
  <2> QED
    BY <2>1, <2>2 DEF BlockInv
<1>13. CASE UNCHANGED limitVars
  BY <1>13 DEF limitVars, tries, BlockInv
<1> QED
  BY <1>1, <1>2, <1>3, <1>4, <1>5, <1>6, <1>9, <1>10, <1>11, <1>12, <1>13
     DEF LimitNext, GoesOn, CallEnds

\* "execute with rate limiting and retry": a call goes out during a block only if its
\* stream looked before the block was set, however many streams set blocks and wait.
THEOREM BlocksHeededCorrect == LimitSpec => BlocksHeeded
<1> DEFINE HeedsStep ==
        \A s \in Caller :
           blocked > 0 /\ stage'[s] = "calling" /\ (stage[s] # "calling" \/ round'[s] # round[s])
           => s \in missed
<1>1. LimitInit => BlockInv
  BY ProviderLimiterAssumption DEF LimitInit, BlockInv
<1>2. LimitInit => SlotInv
  BY SlotInit
<1>3. SlotInv /\ BlockInv /\ [LimitNext]_limitVars => [HeedsStep]_limitVars
  <2> SUFFICES ASSUME SlotInv, BlockInv, LimitNext, blocked > 0, NEW s \in Caller,
                      stage'[s] = "calling", stage[s] # "calling" \/ round'[s] # round[s]
               PROVE  s \in missed
    BY DEF HeedsStep
  <2>1. ASSUME NEW u \in Caller, WaitIfBlocked(u), \A t \in Caller \ {u} : round'[t] = round[t]
        PROVE  FALSE
    <3>1. stage' = [stage EXCEPT ![u] = "blocked"]
      BY <2>1 DEF WaitIfBlocked
    <3> QED
      BY <2>1, <3>1 DEF SlotInv
  <2>2. ASSUME NEW u \in Caller, BlockOver(u) \/ RoomAtLast(u) PROVE s \in missed
    <3>1. PICK e \in Holding : stage' = [stage EXCEPT ![u] = e]
      BY <2>2, WaitMoves DEF BlockOver, RoomAtLast
    <3>2. s = u
      BY <2>2, <3>1 DEF BlockOver, RoomAtLast, SlotInv, tries
    <3> QED
      BY <2>2, <3>2 DEF BlockOver, RoomAtLast, BlockInv
  <2>3. ASSUME NEW u \in Caller, TakeSlot(u) \/ GoOn(u) \/ Retry(u) \/ CallRejected(u)
        PROVE  FALSE
    <3>1. WaitIfBlocked(u) /\ \A t \in Caller \ {u} : round'[t] = round[t]
      BY <2>3 DEF TakeSlot, GoOn, Retry, CallRejected, tries, BlockInv
    <3> QED
      BY <2>1, <3>1
  <2>4. ASSUME NEW u \in Caller, StreamEnds(u) \/ Cancel(u) PROVE FALSE
    <3>1. PICK end \in Finished : \E h :
             stage' \in {[stage EXCEPT ![u] = end], [stage EXCEPT ![u] = end, ![h] = "given"]}
      BY <2>4, HoldingIs DEF StreamEnds, Cancel, Leave
    <3>2. end # "calling"
      BY HoldingIs
    <3>3. s # u /\ stage[s] = "calling"
      BY <3>1, <3>2 DEF SlotInv
    <3>4. round' = [round EXCEPT ![u] = 1]
      BY <2>4 DEF StreamEnds, Cancel, Forget
    <3> QED
      BY <3>3, <3>4 DEF BlockInv
  <2>5. ASSUME NEW u \in Caller,
               Queue(u) \/ CallSucceeds(u) \/ CallBacksOff(u) \/ StreamFails(u)
        PROVE  FALSE
    BY <2>5 DEF Queue, CallSucceeds, CallBacksOff, StreamFails, tries, SlotInv
  <2>6. CASE LimitTick
    BY <2>6 DEF LimitTick, tries
  <2> QED
    BY <2>2, <2>3, <2>4, <2>5, <2>6 DEF LimitNext, GoesOn, CallEnds
<1> HIDE DEF HeedsStep
<1> QED
  BY <1>1, <1>2, <1>3, SlotStep, BlockStep, PTL DEF LimitSpec, BlocksHeeded, HeedsStep
=============================================================================
