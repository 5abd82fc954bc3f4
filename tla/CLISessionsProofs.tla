-------------------------- MODULE CLISessionsProofs --------------------------
(***************************************************************************)
(* Proofs about CLISessions: types, the two kinds of locks, the process of *)
(* a session, the maps of the pool, and what stop_all_tasks reaches.       *)
(***************************************************************************)
EXTENDS CLISessions, FiniteSetTheorems, SequenceTheorems, TLAPS

-----------------------------------------------------------------------------
(* The queue of a lock: who is in it, and who is ahead of whom.            *)

In(q, c) == \E i \in DOMAIN q : q[i] = c
Ahead(q, a, b) == \E i, j \in DOMAIN q : i < j /\ q[i] = a /\ q[j] = b
Distinct(q) == \A i, j \in DOMAIN q : q[i] = q[j] => i = j

LEMMA QueueHead ==
    ASSUME NEW E, NEW q \in Seq(E), q # <<>>
    PROVE  /\ Head(q) \in E /\ Tail(q) \in Seq(E) /\ Head(q) = q[1] /\ 1 \in DOMAIN q
           /\ Len(q) \in Nat \ {0} /\ DOMAIN q = 1..Len(q)
           /\ DOMAIN Tail(q) = 1..(Len(q) - 1)
           /\ \A i \in 1..(Len(q) - 1) : Tail(q)[i] = q[i + 1]
  BY HeadTailProperties, LenProperties, EmptySeq

LEMMA QueueAppend ==
    ASSUME NEW E, NEW q \in Seq(E), NEW c \in E
    PROVE  /\ Append(q, c) \in Seq(E) /\ Append(q, c) # <<>>
           /\ \A d : In(Append(q, c), d) <=> In(q, d) \/ d = c
           /\ \A a, b : Ahead(q, a, b) => Ahead(Append(q, c), a, b)
           /\ \A a : In(q, a) => Ahead(Append(q, c), a, c)
           /\ q # <<>> => Head(Append(q, c)) = Head(q)
           /\ q = <<>> => Head(Append(q, c)) = c
           /\ Distinct(q) /\ ~In(q, c) => Distinct(Append(q, c))
<1> DEFINE n == Len(q)
           r == Append(q, c)
<1>1. n \in Nat /\ DOMAIN q = 1..n
  BY LenProperties
<1>2. /\ r \in Seq(E) /\ DOMAIN r = 1..(n + 1) /\ r # <<>>
      /\ \A i \in 1..n : r[i] = q[i] 
      /\ r[n + 1] = c
  BY AppendProperties, LenProperties
<1>3. Head(r) = r[1]
  BY <1>2, QueueHead
<1>4. q # <<>> => n # 0 /\ Head(q) = q[1]
  BY <1>1, QueueHead
<1>5. q = <<>> => n = 0
  OBVIOUS
<1>6. \A i \in DOMAIN r : (i \in DOMAIN q /\ r[i] = q[i]) \/ (i = n + 1 /\ r[i] = c)
  BY <1>1, <1>2
<1>7. \A i \in DOMAIN q : i \in DOMAIN r /\ r[i] = q[i] /\ i < n + 1 /\ n + 1 \in DOMAIN r
  BY <1>1, <1>2
<1> HIDE DEF r, n
<1>8. \A d : In(r, d) <=> In(q, d) \/ d = c
  BY <1>1, <1>2, <1>6, <1>7 DEF In
<1>9. \A a, b : Ahead(q, a, b) => Ahead(r, a, b)
  BY <1>7 DEF Ahead
<1>10. \A a : In(q, a) => Ahead(r, a, c)
  BY <1>2, <1>7 DEF Ahead, In
<1>11. Distinct(q) /\ ~In(q, c) => Distinct(r)
  BY <1>6 DEF Distinct, In
<1>12. (q # <<>> => Head(r) = Head(q)) /\ (q = <<>> => Head(r) = c)
  BY <1>1, <1>2, <1>3, <1>4, <1>5
<1> QED
  BY <1>2, <1>8, <1>9, <1>10, <1>11, <1>12 DEF r

LEMMA QueueTail ==
    ASSUME NEW E, NEW q \in Seq(E), q # <<>>, Distinct(q)
    PROVE  /\ Tail(q) \in Seq(E) /\ Distinct(Tail(q))
           /\ \A d : In(Tail(q), d) <=> In(q, d) /\ d # Head(q)
           /\ \A a, b : Ahead(q, a, b) /\ a # Head(q) => Ahead(Tail(q), a, b)
           /\ \A a : ~Ahead(q, a, Head(q))
<1> DEFINE n == Len(q)
           t == Tail(q)
<1>1. /\ t \in Seq(E) /\ Head(q) = q[1] /\ n \in Nat \ {0}
      /\ DOMAIN q = 1..n /\ DOMAIN t = 1..(n - 1)
      /\ \A i \in 1..(n - 1) : t[i] = q[i + 1]
  BY QueueHead
<1> HIDE DEF t, n
<1>2. \A i \in DOMAIN t : i + 1 \in DOMAIN q /\ i + 1 # 1 /\ t[i] = q[i + 1]
  BY <1>1
<1>3. \A i \in DOMAIN q : i = 1 \/ (i - 1 \in DOMAIN t /\ t[i - 1] = q[i])
  BY <1>1
<1>4. Distinct(t)
  BY <1>1, <1>2 DEF Distinct
<1>5. \A d : In(t, d) <=> In(q, d) /\ d # Head(q)
  <2>1. ASSUME NEW i \in DOMAIN t PROVE In(q, t[i]) /\ t[i] # q[1]
    <3>1. 1 \in DOMAIN q /\ i + 1 \in DOMAIN q /\ i + 1 # 1 /\ t[i] = q[i + 1]
      BY <1>1, <1>2
    <3> QED
      BY <3>1 DEF In, Distinct
  <2>2. ASSUME NEW i \in DOMAIN q, q[i] # q[1] PROVE In(t, q[i])
    BY <1>3, <2>2 DEF In
  <2> QED
    BY <1>1, <2>1, <2>2 DEF In
<1>6. \A a, b : Ahead(q, a, b) /\ a # Head(q) => Ahead(t, a, b)
  <2> SUFFICES ASSUME NEW a, NEW b, a # Head(q), NEW i \in DOMAIN q, NEW j \in DOMAIN q,
                      i < j, q[i] = a, q[j] = b
               PROVE  Ahead(t, a, b)
    BY DEF Ahead
  <2>1. i # 1 /\ j # 1 /\ i - 1 < j - 1
    BY <1>1
  <2> QED
    BY <1>3, <2>1 DEF Ahead
<1>7. \A a : ~Ahead(q, a, Head(q))
  <2> SUFFICES ASSUME NEW i \in DOMAIN q, NEW j \in DOMAIN q, i < j, q[j] = q[1]
               PROVE  FALSE
    BY <1>1 DEF Ahead
  <2>1. 1 \in DOMAIN q
    BY <1>1
  <2>2. j = 1
    BY <2>1 DEF Distinct
  <2> QED
    BY <1>1, <2>2
<1> QED
  BY <1>1, <1>4, <1>5, <1>6, <1>7 DEF t

LEMMA QueueAbandoned ==
    ASSUME NEW E, NEW q \in Seq(E), NEW c
    PROVE  /\ Abandoned(q, c) \in Seq(E)
           /\ q # <<>> /\ Head(q) # c => Abandoned(q, c) # <<>> /\ Head(Abandoned(q, c)) = Head(q)
           /\ \A d : In(Abandoned(q, c), d) => In(q, d)
           /\ \A d : In(q, d) /\ d # c => In(Abandoned(q, c), d)
           /\ \A a, b : Ahead(q, a, b) /\ a # c /\ b # c => Ahead(Abandoned(q, c), a, b)
           /\ Distinct(q) => Distinct(Abandoned(q, c)) /\ ~In(Abandoned(q, c), c)
<1> DEFINE n == Len(q)
           r == Abandoned(q, c)
<1>1. n \in Nat /\ DOMAIN q = 1..n /\ \A i \in 1..n : q[i] \in E
  BY LenProperties, ElementOfSeq
<1>2. CASE \A i \in DOMAIN q : q[i] # c
  <2>1. r = q
    BY <1>2 DEF Abandoned
  <2> QED
    BY <1>2, <2>1 DEF In
<1>3. CASE ~(\A i \in DOMAIN q : q[i] # c)
  <2> DEFINE k == CHOOSE i \in DOMAIN q : q[i] = c
             at(i) == IF i < k THEN i ELSE i + 1
  <2>1. k \in DOMAIN q /\ q[k] = c
    BY <1>3
  <2>2. r = [i \in 1..(n - 1) |-> q[at(i)]]
    BY <1>3, Zenon DEF Abandoned
  <2> HIDE DEF r, k
  <2>3. n - 1 \in Nat /\ \A i \in 1..(n - 1) : at(i) \in 1..n /\ at(i) # k
    BY <1>1, <2>1
  <2>4. r \in [1..(n - 1) -> E] /\ DOMAIN r = 1..(n - 1)
    BY <1>1, <2>2, <2>3
  <2>5. r \in Seq(E) /\ Len(r) = n - 1
    BY <2>3, <2>4
  <2>6. \A i \in DOMAIN r : at(i) \in DOMAIN q /\ at(i) # k /\ r[i] = q[at(i)]
    BY <1>1, <2>2, <2>3, <2>4
  <2>7. \A i, j \in DOMAIN r : i < j <=> at(i) < at(j)
    BY <1>1, <2>1, <2>4
  <2>8. \A i \in DOMAIN q : i # k => \E j \in DOMAIN r : at(j) = i
    <3> SUFFICES ASSUME NEW i \in DOMAIN q, i # k PROVE \E j \in DOMAIN r : at(j) = i
      OBVIOUS
    <3>1. CASE i < k
      BY <1>1, <2>1, <2>4, <3>1
    <3>2. CASE ~(i < k)
      <4>1. i - 1 \in DOMAIN r /\ at(i - 1) = i
        BY <1>1, <2>1, <2>4, <3>2
      <4> QED
        BY <4>1
    <3> QED
      BY <3>1, <3>2
  <2>9. ASSUME q # <<>>, Head(q) # c PROVE r # <<>> /\ Head(r) = Head(q)
    <3>1. Head(q) = q[1] /\ 1 \in DOMAIN q
      BY <2>9, QueueHead
    <3>2. 1 < k /\ 1 \in DOMAIN r /\ at(1) = 1
      BY <1>1, <2>1, <2>4, <2>9, <3>1
    <3>3. r[1] = q[1] /\ r # <<>>
      BY <2>4, <2>5, <2>6, <3>2
    <3> QED
      BY <2>5, <3>1, <3>3, QueueHead
  <2> HIDE DEF at
  <2>10. \A d : In(r, d) => In(q, d)
    BY <2>6 DEF In
  <2>11. \A d : In(q, d) /\ d # c => In(r, d)
    BY <2>1, <2>6, <2>8 DEF In
  <2>12. \A a, b : Ahead(q, a, b) /\ a # c /\ b # c => Ahead(r, a, b)
    <3> SUFFICES ASSUME NEW i \in DOMAIN q, NEW j \in DOMAIN q, i < j, q[i] # c, q[j] # c
                 PROVE  Ahead(r, q[i], q[j])
      BY DEF Ahead
    <3>1. PICK x \in DOMAIN r, y \in DOMAIN r : at(x) = i /\ at(y) = j
      BY <2>1, <2>8
    <3>2. x < y /\ r[x] = q[i] /\ r[y] = q[j]
      BY <2>6, <2>7, <3>1
    <3> QED
      BY <3>2 DEF Ahead
  <2>13. ASSUME Distinct(q) PROVE Distinct(r) /\ ~In(r, c)
    <3>1. \A i, j \in DOMAIN r : r[i] = r[j] => at(i) = at(j)
      BY <2>6, <2>13 DEF Distinct
    <3>2. \A i, j \in DOMAIN r : at(i) = at(j) => i = j
      BY <2>7, <2>4, <1>1 DEF at
    <3>3. \A i \in DOMAIN r : r[i] # c
      BY <2>1, <2>6, <2>13 DEF Distinct
    <3> QED
      BY <3>1, <3>2, <3>3 DEF Distinct, In
  <2> QED
    BY <2>5, <2>9, <2>10, <2>11, <2>12, <2>13 DEF r
<1> QED
  BY <1>2, <1>3

\* A caller that keeps the lock puts itself back in front of those who wait.
LEMMA QueueKept ==
    ASSUME NEW E, NEW q \in Seq(E), q # <<>>
    PROVE  <<Head(q)>> \o Tail(q) = q
<1> DEFINE h == <<Head(q)>>
           r == h \o Tail(q)
<1>1. /\ Head(q) \in E /\ Head(q) = q[1] /\ Tail(q) \in Seq(E) /\ Len(q) \in Nat \ {0}
      /\ Len(Tail(q)) = Len(q) - 1
      /\ \A i \in 1..(Len(q) - 1) : Tail(q)[i] = q[i + 1]
  BY QueueHead, HeadTailProperties
<1>2. h \in Seq(E) /\ Len(h) = 1 /\ h[1] = Head(q)
  BY <1>1
<1> HIDE DEF h
<1>3. /\ r \in Seq(E) /\ Len(r) = Len(q)
      /\ \A i \in 1..Len(q) : r[i] = IF i <= 1 THEN h[i] ELSE Tail(q)[i - 1]
  <2>1. /\ r \in Seq(E) /\ Len(r) = Len(h) + Len(Tail(q))
        /\ \A i \in 1..(Len(h) + Len(Tail(q))) :
              r[i] = IF i <= Len(h) THEN h[i] ELSE Tail(q)[i - Len(h)]
    BY <1>1, <1>2, ConcatProperties
  <2>2. Len(h) + Len(Tail(q)) = Len(q)
    BY <1>1, <1>2
  <2> QED
    BY <1>2, <2>1, <2>2
<1>4. \A i \in 1..Len(q) : r[i] = q[i]
  <2> SUFFICES ASSUME NEW i \in 1..Len(q) PROVE r[i] = q[i]
    OBVIOUS
  <2>1. CASE i = 1
    BY <1>1, <1>2, <1>3, <2>1
  <2>2. CASE i # 1
    <3>1. i - 1 \in 1..(Len(q) - 1) /\ (i - 1) + 1 = i /\ ~(i <= 1)
      BY <1>1, <2>2
    <3> QED
      BY <1>1, <1>3, <3>1
  <2> QED
    BY <2>1, <2>2
<1> HIDE DEF r
<1>5. r = q
  BY <1>3, <1>4, SeqEqual
<1> QED
  BY <1>5 DEF r, h

-----------------------------------------------------------------------------
(* What the parts of the handlers do to the variables they share.          *)

AtLock == {"acquiring", "registering", "removing", "dying"}
UsesCli == {"running", "registering", "stoppingOld", "killing"}
Over == {"removing", "dying", "done"}

LEMMA Phases ==
    /\ Phase = {"idle", "acquiring", "waitingCli", "running", "registering", "stoppingOld",
                "killing", "removing", "dying", "done"}
    /\ Turn \subseteq Caller /\ StopAll \in Caller /\ Caller = Turn \cup {StopAll}
  BY DEF Phase, InStartTask, Caller

PoolType ==
    /\ sessions \in [SessionId -> Turn \cup {NoTurn}]
    /\ pending \in SUBSET Turn
    /\ tempToReal \in [Turn -> SessionId \cup {NoId}]
    /\ realToTemp \in [SessionId -> Turn \cup {NoTurn}]

StopType == waitFor \in [Caller -> Turn \cup {NoTurn}] /\ signalled \in SUBSET Turn

\* remove_session, with the manager's lock.
LEMMA RemoveMoves ==
    ASSUME TypeOK, NEW n \in Turn, NEW rest, RemoveSession(n, rest)
    PROVE  /\ \/ turn' = [turn EXCEPT ![n] = "done"] /\ lockQueue' = rest
              \/ turn' = [turn EXCEPT ![n] = "dying"] /\ lockQueue' = <<n>> \o rest
           /\ PoolType' /\ StopType'
<1>1. CASE Removable(n) = NoTurn
  <2>1. turn' = [turn EXCEPT ![n] = "done"] /\ lockQueue' = rest /\ UNCHANGED <<pool, waitFor, signalled>>
    BY <1>1 DEF RemoveSession
  <2> QED
    BY <2>1 DEF pool, PoolType, StopType, TypeOK
<1>2. CASE Removable(n) # NoTurn
  <2>1. sessions' \in [SessionId -> Turn \cup {NoTurn}] /\ pending' \in SUBSET Turn
    BY <1>2 DEF RemoveSession, Popped, TypeOK
  <2>2. CASE MustStop(n)
    <3>1. /\ Stops(n, Removable(n)) /\ lockQueue' = <<n>> \o rest
          /\ turn' = [turn EXCEPT ![n] = "dying"] /\ UNCHANGED <<tempToReal, realToTemp>>
      BY <1>2, <2>2, Zenon DEF RemoveSession
    <3>2. StopType'
      BY <3>1 DEF Stops, StopNeeded, StopType, TypeOK
    <3> QED
      BY <2>1, <3>1, <3>2 DEF PoolType, TypeOK
  <2>3. CASE ~MustStop(n)
    <3>1. /\ SessionForgotten(n) /\ lockQueue' = rest
          /\ turn' = [turn EXCEPT ![n] = "done"] /\ UNCHANGED <<waitFor, signalled>>
      BY <1>2, <2>3, Zenon DEF RemoveSession
    <3>2. /\ tempToReal' \in [Turn -> SessionId \cup {NoId}]
          /\ realToTemp' \in [SessionId -> Turn \cup {NoTurn}]
      BY <3>1 DEF SessionForgotten, Forgotten, WithoutId, TypeOK
    <3> QED
      BY <2>1, <3>1, <3>2 DEF PoolType, StopType, TypeOK
  <2> QED
    BY <2>2, <2>3
<1> QED
  BY <1>1, <1>2

LEMMA LeaveMoves ==
    ASSUME TypeOK, NEW n \in Turn, NEW q, Leave(n, q)
    PROVE  /\ \/ q = <<>> /\ turn' = [turn EXCEPT ![n] = "done"] /\ lockQueue' = <<>>
              \/ q = <<>> /\ turn' = [turn EXCEPT ![n] = "dying"] /\ lockQueue' = <<n>> \o <<>>
              \/ q # <<>> /\ turn' = [turn EXCEPT ![n] = "removing"] /\ lockQueue' = Append(q, n)
           /\ PoolType' /\ StopType'
<1>1. CASE q = <<>> /\ RemoveSession(n, <<>>)
  BY <1>1, RemoveMoves
<1>2. CASE q # <<>> /\ UNCHANGED <<pool, waitFor, signalled>>
  BY <1>2 DEF Leave, pool, PoolType, StopType, TypeOK
<1> QED
  BY <1>1, <1>2 DEF Leave

\* get_or_create_session, once the lock is free or held.
LEMMA GetMoves ==
    ASSUME TypeOK, NEW n \in Turn, GetOrCreateSession(n)
    PROVE  /\ turn' = [turn EXCEPT ![n] = "waitingCli"]
           /\ PoolType'
           /\ \E s \in Turn : /\ session' = [session EXCEPT ![n] = s]
                              /\ cliQueue' = [cliQueue EXCEPT ![s] = Append(@, n)]
           /\ tempHeld' \in SUBSET Turn
           /\ captured' \in [Turn -> SessionId \cup {NoId}]
           /\ UNCHANGED <<recorded, report>>
<1>1. CASE Reusable(n) # NoTurn
  <2>1. Reuse(n)
    BY <1>1, Zenon DEF GetOrCreateSession, Create
  <2>2. Resumed(n) \in SessionId /\ Reusable(n) \in Turn
    <3>1. Resumed(n) # NoId /\ Reusable(n) = sessions[Resumed(n)]
      BY <1>1 DEF Reusable
    <3>2. Resumed(n) \in SessionId
      BY <3>1, TurnAssumption DEF Resumed, TypeOK
    <3> QED
      BY <1>1, <3>1, <3>2 DEF TypeOK
  <2>3. session'[n] = Reusable(n)
    BY <2>1 DEF Reuse, TypeOK
  <2> QED
    BY <2>1, <2>2, <2>3 DEF GetOrCreateSession, Reuse, pool, PoolType, TypeOK
<1>2. CASE Reusable(n) = NoTurn
  <2>1. Create(n)
    BY <1>2, Zenon DEF GetOrCreateSession
  <2>2. session'[n] = n
    BY <2>1 DEF Create, TypeOK
  <2>3. PoolType'
    BY <2>1 DEF Create, WithoutId, PoolType, TypeOK
  <2> QED
    BY <2>1, <2>2, <2>3 DEF GetOrCreateSession, Create, TypeOK
<1> QED
  BY <1>1, <1>2

\* register_real_session_id, with the lock.
LEMMA RegisterMoves ==
    ASSUME TypeOK, NEW n \in Turn, NEW id \in SessionId \cup {NoId}, Register(n, id),
           n \in pending => id \in SessionId
    PROVE  /\ \/ turn' = [turn EXCEPT ![n] = "running"]
              \/ turn' = [turn EXCEPT ![n] = "stoppingOld"]
           /\ PoolType' /\ StopType'
           /\ tempHeld' \in SUBSET Turn
           /\ captured' \in [Turn -> SessionId \cup {NoId}]
           /\ recorded' \in [Turn -> SessionId \cup {NoId}]
<1>1. CASE n \notin pending
  <2>1. Registered(n, id) /\ UNCHANGED <<pool, waitFor, signalled>>
    BY <1>1 DEF Register
  <2> QED
    BY <2>1 DEF Registered, pool, PoolType, StopType, TypeOK
<1>2. CASE n \in pending /\ sessions[id] = NoTurn
  <2>1. NewlyMapped(n, id) /\ tempToReal' = [tempToReal EXCEPT ![n] = id] /\ Registered(n, id)
        /\ UNCHANGED <<waitFor, signalled>>
    BY <1>2, Zenon DEF Register
  <2> QED
    BY <1>2, <2>1 DEF NewlyMapped, Registered, PoolType, StopType, TypeOK
<1>3. CASE n \in pending /\ sessions[id] # NoTurn
  <2>1. NewlyMapped(n, id) /\ tempToReal' = Remapped(n, id)
    BY <1>3, Zenon DEF Register
  <2>2. PoolType'
    BY <1>3, <2>1 DEF NewlyMapped, Remapped, WithoutId, PoolType, TypeOK
  <2>3. CASE StopNeeded(sessions[id])
    <3>1. /\ Stops(n, sessions[id]) /\ turn' = [turn EXCEPT ![n] = "stoppingOld"]
          /\ UNCHANGED <<captured, recorded, tempHeld>>
      BY <1>3, <2>3, Zenon DEF Register
    <3> QED
      BY <2>2, <3>1 DEF Stops, StopNeeded, StopType, TypeOK
  <2>4. CASE ~StopNeeded(sessions[id])
    <3>1. Registered(n, id) /\ UNCHANGED <<waitFor, signalled>>
      BY <1>3, <2>4, Zenon DEF Register, Stops
    <3> QED
      BY <2>2, <3>1 DEF Registered, StopType, TypeOK
  <2> QED
    BY <2>3, <2>4
<1> QED
  BY <1>1, <1>2, <1>3

\* stop_all, from the sessions in todo on.
LEMMA StopAllMoves ==
    ASSUME TypeOK, NEW todo \in SUBSET Turn, NEW rest, StopAllRuns(todo, rest)
    PROVE  /\ \/ stopAll' = "idle" /\ lockQueue' = rest
              \/ stopAll' = "stopping" /\ lockQueue' = <<StopAll>> \o rest
           /\ toStop' \in SUBSET Turn
           /\ PoolType' /\ StopType'
<1> DEFINE running == {s \in todo : StopNeeded(s)}
<1>1. CASE running = {} /\ stopAll' = "idle" /\ toStop' = {} /\ lockQueue' = rest /\ PoolCleared
             /\ UNCHANGED <<waitFor, signalled>>
  BY <1>1 DEF PoolCleared, PoolType, StopType, TypeOK
<1>2. ASSUME NEW s \in running, NEW passed \in SUBSET (todo \ running),
             toStop' = todo \ (passed \cup {s}), Stops(StopAll, s), stopAll' = "stopping",
             lockQueue' = <<StopAll>> \o rest, UNCHANGED pool
      PROVE  toStop' \in SUBSET Turn /\ PoolType' /\ StopType'
  BY <1>2 DEF Stops, StopNeeded, pool, PoolType, StopType, TypeOK
<1> QED
  BY <1>1, <1>2 DEF StopAllRuns

-----------------------------------------------------------------------------
(* Types.  They depend on who holds which lock: a turn that releases a     *)
(* lock holds it, so that there is a head to take off.                     *)

CliInv ==
    /\ \A n \in Turn : turn[n] \in UsesCli \cup {"waitingCli"} => session[n] \in Turn
    /\ \A n \in Turn : turn[n] \in UsesCli => HoldsCli(n)
    /\ \A n \in alive : /\ turn[n] \notin {"idle", "acquiring", "waitingCli"}
                        /\ session[n] \in Turn /\ HoldsCli(n)
                        /\ process[session[n]] = n
    /\ \A s, n \in Turn : In(cliQueue[s], n) =>
          session[n] = s /\ turn[n] \notin {"idle", "acquiring"}

LockInv ==
    /\ Distinct(lockQueue)
    /\ \A n \in Turn : In(lockQueue, n) <=> turn[n] \in AtLock
    /\ In(lockQueue, StopAll) <=> stopAll # "idle"
    /\ \A n \in Turn : turn[n] = "dying" => Holds(n)
    /\ stopAll = "stopping" => Holds(StopAll)

\* A turn reports an id once, when it is to be registered.
ReportInv ==
    /\ \A n \in Turn : turn[n] \in {"idle", "acquiring", "waitingCli"} => report[n] = NoId
    /\ \A n \in tempHeld : turn[n] = "running" => report[n] = NoId
    /\ \A n \in Turn : turn[n] \in {"registering", "stoppingOld"} =>
          report[n] \in SessionId /\ n \in tempHeld

LEMMA TypeInit == Init => TypeOK
<1> SUFFICES ASSUME Init PROVE TypeOK
  OBVIOUS
<1>1. /\ lockQueue \in Seq(Caller) /\ cliQueue \in [Turn -> Seq(Turn)]
  BY EmptySeq DEF Init
<1>2. freshIds \in BOOLEAN
  BY DEF Init
<1> QED
  BY <1>1, <1>2, Phases DEF Init, TypeOK

\* A session id that has not been reported is left for a turn that has reported none.
LEMMA FreshId ==
    ASSUME TypeOK, NEW n \in Turn, report[n] = NoId
    PROVE  /\ (CHOOSE id \in SessionId : id \notin Reported) \in SessionId \ Reported
           /\ Reportable \subseteq SessionId
<1> DEFINE others == Turn \ {n}
           f == [m \in others |-> report[m]]
           T == {report[m] : m \in others}
<1>1. Reported \subseteq SessionId /\ Reported \subseteq T
  BY DEF Reported, TypeOK
<1>2. \E id \in SessionId : id \notin Reported
  <2> SUFFICES ASSUME SessionId \subseteq Reported PROVE FALSE
    OBVIOUS
  <2>1. IsFiniteSet(Turn) /\ Cardinality(Turn) <= Cardinality(SessionId)
    BY TurnAssumption
  <2>2. IsFiniteSet(others) /\ Cardinality(others) = Cardinality(Turn) - 1
    BY <2>1, FS_RemoveElement
  <2>3. f \in Surjection(others, T)
    BY DEF Surjection
  <2> HIDE DEF f, T, others
  <2>4. IsFiniteSet(T) /\ Cardinality(T) <= Cardinality(others)
    BY <2>2, <2>3, FS_Surjection
  <2>5. SessionId \subseteq T
    BY <1>1
  <2>6. IsFiniteSet(SessionId) /\ Cardinality(SessionId) <= Cardinality(T)
    BY <2>4, <2>5, FS_Subset
  <2>7. /\ Cardinality(Turn) \in Nat /\ Cardinality(others) \in Nat
        /\ Cardinality(T) \in Nat /\ Cardinality(SessionId) \in Nat
    BY <2>1, <2>2, <2>4, <2>6, FS_CardinalityType
  <2> QED
    BY <2>1, <2>2, <2>4, <2>6, <2>7
<1> QED
  BY <1>1, <1>2 DEF Reportable

LEMMA CliReleased ==
    ASSUME TypeOK, NEW n \in Turn, session[n] \in Turn, HoldsCli(n), ReleaseCli(n)
    PROVE  cliQueue' \in [Turn -> Seq(Turn)]
<1>1. cliQueue[session[n]] \in Seq(Turn) /\ cliQueue[session[n]] # <<>>
  BY DEF TypeOK, HoldsCli
<1>2. Tail(cliQueue[session[n]]) \in Seq(Turn)
  BY <1>1, QueueHead
<1> QED
  BY <1>2 DEF ReleaseCli, TypeOK

LEMMA LockReleased ==
    ASSUME TypeOK, NEW c \in Caller, Holds(c)
    PROVE  Tail(lockQueue) \in Seq(Caller) /\ <<c>> \o Tail(lockQueue) = lockQueue
  BY QueueHead, QueueKept DEF TypeOK, Holds

\* What a turn that leaves the stream finds in the queue of the manager's lock.
LEMMA LeaveTypes ==
    ASSUME TypeOK, NEW n \in Turn, NEW q \in Seq(Caller), Leave(n, q)
    PROVE  turn' \in [Turn -> Phase] /\ lockQueue' \in Seq(Caller) /\ PoolType' /\ StopType'
<1>1. <<n>> \o <<>> = <<n>> /\ <<n>> \in Seq(Caller) /\ <<>> \in Seq(Caller) /\ Append(q, n) \in Seq(Caller)
  BY Phases, EmptySeq, ConcatEmptySeq, QueueAppend
<1>2. \A ph \in Phase : [turn EXCEPT ![n] = ph] \in [Turn -> Phase]
  BY DEF TypeOK
<1> QED
  BY <1>1, <1>2, LeaveMoves, Phases

LEMMA TypeStep ==
    ASSUME TypeOK, CliInv, LockInv, ReportInv, [Next]_vars
    PROVE  TypeOK'
<1> USE Phases
<1>0. \A n \in Turn, ph \in Phase : [turn EXCEPT ![n] = ph] \in [Turn -> Phase]
  BY DEF TypeOK
<1>1. ASSUME NEW n \in Turn, GetOrCreateSession(n), lockQueue' \in Seq(Caller),
             UNCHANGED <<waitFor, cancelling, stopState, processes, freshIds>>
      PROVE  TypeOK'
  <2>1. PICK s \in Turn : /\ session' = [session EXCEPT ![n] = s]
                          /\ cliQueue' = [cliQueue EXCEPT ![s] = Append(@, n)]
    BY <1>1, GetMoves
  <2>2. cliQueue' \in [Turn -> Seq(Turn)] /\ session' \in [Turn -> Turn \cup {NoTurn}]
    BY <2>1, QueueAppend DEF TypeOK
  <2>3. /\ turn' \in [Turn -> Phase] /\ PoolType' /\ tempHeld' \in SUBSET Turn
        /\ captured' \in [Turn -> SessionId \cup {NoId}]
        /\ UNCHANGED <<recorded, report>>
    BY <1>0, <1>1, GetMoves
  <2> QED
    BY <1>1, <2>2, <2>3 DEF stopState, processes, PoolType, TypeOK
<1>2. ASSUME NEW n \in Turn, Begin(n) PROVE TypeOK'
  <2>1. CASE lockQueue = <<>> /\ GetOrCreateSession(n) /\ UNCHANGED lockQueue
    BY <1>1, <1>2, <2>1 DEF Begin, TypeOK
  <2>2. CASE /\ turn' = [turn EXCEPT ![n] = "acquiring"] /\ lockQueue' = Append(lockQueue, n)
             /\ UNCHANGED <<cliQueue, pool, handles>>
    <3>1. lockQueue' \in Seq(Caller)
      BY <2>2, QueueAppend DEF TypeOK
    <3> QED
      BY <1>0, <1>2, <2>2, <3>1 DEF Begin, pool, handles, stopState, processes, TypeOK
  <2> QED
    BY <1>2, <2>1, <2>2 DEF Begin
<1>3. ASSUME NEW n \in Turn, Acquire(n) PROVE TypeOK'
  BY <1>1, <1>3, LockReleased DEF Acquire, Release
<1>4. ASSUME NEW n \in Turn, LockForRemove(n) PROVE TypeOK'
  <2>1. Holds(n) /\ RemoveSession(n, Tail(lockQueue))
    BY <1>4 DEF LockForRemove
  <2>2. /\ Tail(lockQueue) \in Seq(Caller) /\ <<n>> \o Tail(lockQueue) \in Seq(Caller)
    BY <2>1, LockReleased DEF TypeOK
  <2>3. lockQueue' \in Seq(Caller) /\ turn' \in [Turn -> Phase] /\ PoolType' /\ StopType'
    <3>1. /\ \/ turn' = [turn EXCEPT ![n] = "done"] /\ lockQueue' = Tail(lockQueue)
             \/ turn' = [turn EXCEPT ![n] = "dying"] /\ lockQueue' = <<n>> \o Tail(lockQueue)
          /\ PoolType' /\ StopType'
      BY <2>1, RemoveMoves
    <3>2. turn' \in [Turn -> Phase]
      BY <1>0, <3>1
    <3>3. lockQueue' \in Seq(Caller)
      BY <2>2, <3>1, Zenon
    <3> QED
      BY <3>1, <3>2, <3>3, Zenon
  <2> QED
    BY <1>4, <2>3 DEF LockForRemove, stopState, handles, PoolType, StopType, TypeOK
<1>5. ASSUME NEW n \in Turn, SessionRemoved(n) PROVE TypeOK'
  <2>1. lockQueue' \in Seq(Caller)
    BY <1>5, LockReleased DEF SessionRemoved, LockInv, Release
  <2>2. /\ tempToReal' \in [Turn -> SessionId \cup {NoId}]
        /\ realToTemp' \in [SessionId -> Turn \cup {NoTurn}]
    <3>1. /\ tempToReal \in [Turn -> SessionId \cup {NoId}]
          /\ realToTemp \in [SessionId -> Turn \cup {NoTurn}]
      BY DEF TypeOK
    <3>2. CASE UNCHANGED <<tempToReal, realToTemp>>
      BY <3>1, <3>2
    <3>3. CASE Forgotten(captured[n])
      <4>1. WithoutId(captured[n]) \in [Turn -> SessionId \cup {NoId}]
        BY <3>1 DEF WithoutId
      <4>2. [realToTemp EXCEPT ![captured[n]] = NoTurn] \in [SessionId -> Turn \cup {NoTurn}]
        BY <3>1
      <4> QED
        BY <3>3, <4>1, <4>2, Zenon DEF Forgotten
    <3>4. SessionForgotten(n)
      BY <1>5 DEF SessionRemoved
    <3> QED
      BY <3>2, <3>3, <3>4 DEF SessionForgotten
  <2> QED
    BY <1>0, <1>5, <2>1, <2>2 DEF SessionRemoved, stopState, handles, processes, TypeOK
<1>6. ASSUME NEW n \in Turn, Launch(n) PROVE TypeOK'
  <2>1. process' \in [Turn -> Turn \cup {NoTurn}] /\ alive' \in SUBSET Turn
    BY <1>6 DEF Launch, TypeOK
  <2> QED
    BY <1>0, <1>6, <2>1 DEF Launch, stopState, pool, handles, TypeOK
<1>7. ASSUME NEW n \in Turn, LaunchFails(n) PROVE TypeOK'
  <2>1. cliQueue' \in [Turn -> Seq(Turn)]
    BY <1>7, CliReleased DEF LaunchFails, CliInv
  <2>2. turn' \in [Turn -> Phase] /\ lockQueue' \in Seq(Caller) /\ PoolType' /\ StopType'
    BY <1>7, LeaveTypes DEF LaunchFails, TypeOK
  <2> QED
    BY <1>7, <2>1, <2>2 DEF LaunchFails, stopState, handles, PoolType, StopType, TypeOK
<1>8. ASSUME NEW n \in Turn, Dies(n) PROVE TypeOK'
  BY <1>8 DEF Dies, control, stopState, pool, handles, TypeOK
<1>9. ASSUME NEW n \in Turn, StreamEnds(n) PROVE TypeOK'
  <2>1. cliQueue' \in [Turn -> Seq(Turn)]
    BY <1>9, CliReleased DEF StreamEnds, CliInv, UsesCli
  <2>2. turn' \in [Turn -> Phase] /\ lockQueue' \in Seq(Caller) /\ PoolType' /\ StopType'
    BY <1>9, LeaveTypes DEF StreamEnds, TypeOK
  <2>3. recorded' \in [Turn -> SessionId \cup {NoId}]
    BY <1>9 DEF StreamEnds, TypeOK
  <2> QED
    BY <1>9, <2>1, <2>2, <2>3 DEF StreamEnds, stopState, PoolType, StopType, TypeOK
<1>10. ASSUME NEW n \in Turn, IdleTimeout(n) PROVE TypeOK'
  <2>1. StopType'
    BY <1>10 DEF IdleTimeout, Stops, StopNeeded, StopType, TypeOK
  <2> QED
    BY <1>0, <1>10, <2>1 DEF IdleTimeout, stopState, pool, handles, StopType, TypeOK
<1>11. ASSUME NEW n \in Turn, Killed(n) PROVE TypeOK'
  <2>1. cliQueue' \in [Turn -> Seq(Turn)]
    BY <1>11, CliReleased DEF Killed, CliInv, UsesCli
  <2>2. turn' \in [Turn -> Phase] /\ lockQueue' \in Seq(Caller) /\ PoolType' /\ StopType'
    BY <1>11, LeaveTypes DEF Killed, TypeOK
  <2> QED
    BY <1>11, <2>1, <2>2 DEF Killed, stopState, handles, PoolType, StopType, TypeOK
<1>12. ASSUME NEW n \in Turn, CloseGenerator(n) PROVE TypeOK'
  <2>1. cliQueue' \in [Turn -> Seq(Turn)]
    BY <1>12, CliReleased DEF CloseGenerator, TypeOK
  <2> QED
    BY <1>12, <2>1 DEF CloseGenerator, stopState, pool, handles, processes, TypeOK
<1>13. ASSUME NEW n \in Turn, NEW id \in SessionId, Register(n, id), report' = [report EXCEPT ![n] = id]
              \/ report' = report, lockQueue' \in Seq(Caller),
              UNCHANGED <<cliQueue, cancelling, stopState, session, process, alive, freshIds>>
       PROVE  TypeOK'
  <2>1. report' \in [Turn -> SessionId \cup {NoId}]
    BY <1>13 DEF TypeOK
  <2>2. turn' \in [Turn -> Phase] /\ PoolType' /\ StopType' /\ tempHeld' \in SUBSET Turn
        /\ captured' \in [Turn -> SessionId \cup {NoId}] /\ recorded' \in [Turn -> SessionId \cup {NoId}]
    BY <1>0, <1>13, RegisterMoves
  <2> QED
    BY <1>13, <2>1, <2>2 DEF stopState, PoolType, StopType, TypeOK
<1>14. ASSUME NEW n \in Turn, SessionInfo(n) PROVE TypeOK'
  <2>1. Reportable \subseteq SessionId
    BY <1>14, FreshId DEF SessionInfo, ReportInv
  <2>2. PICK id \in SessionId :
          /\ report' = [report EXCEPT ![n] = id]
          /\ \/ lockQueue = << >> /\ Register(n, id) /\ UNCHANGED lockQueue
             \/ /\ lockQueue # << >>
                /\ turn' = [turn EXCEPT ![n] = "registering"]
                /\ lockQueue' = Append(lockQueue, n)
                /\ UNCHANGED <<waitFor, pool, tempHeld, captured, recorded, signalled>>
    BY <1>14, <2>1 DEF SessionInfo
  <2>3. UNCHANGED <<cliQueue, cancelling, stopState, session, process, alive, freshIds>>
    BY <1>14 DEF SessionInfo
  <2>4. CASE Register(n, id) /\ UNCHANGED lockQueue
    BY <1>13, <2>2, <2>3, <2>4 DEF TypeOK
  <2>5. CASE /\ turn' = [turn EXCEPT ![n] = "registering"] /\ lockQueue' = Append(lockQueue, n)
             /\ UNCHANGED <<waitFor, pool, tempHeld, captured, recorded, signalled>>
    <3>1. lockQueue' \in Seq(Caller) /\ report' \in [Turn -> SessionId \cup {NoId}]
      BY <2>2, <2>5, QueueAppend DEF TypeOK
    <3> QED
      BY <1>0, <2>3, <2>5, <3>1 DEF pool, stopState, TypeOK
  <2> QED
    BY <2>2, <2>4, <2>5
<1>15. ASSUME NEW n \in Turn, LockForRegister(n) PROVE TypeOK'
  <2>1. lockQueue' \in Seq(Caller) /\ report[n] \in SessionId
    BY <1>15, LockReleased DEF LockForRegister, Release, ReportInv
  <2> QED
    BY <1>13, <1>15, <2>1 DEF LockForRegister
<1>16. ASSUME NEW n \in Turn, OldStopped(n) PROVE TypeOK'
  <2>1. /\ turn' \in [Turn -> Phase] /\ tempHeld' \in SUBSET Turn
        /\ captured' \in [Turn -> SessionId \cup {NoId}] /\ recorded' \in [Turn -> SessionId \cup {NoId}]
    BY <1>0, <1>16 DEF OldStopped, Registered, TypeOK
  <2> QED
    BY <1>16, <2>1 DEF OldStopped, stopState, pool, processes, TypeOK
<1>17. ASSUME NEW n \in Turn, StopTurn(n) PROVE TypeOK'
  BY <1>17 DEF StopTurn, pool, handles, processes, TypeOK
<1>18. AllSessions \in SUBSET Turn /\ toStop \in SUBSET Turn
  BY DEF AllSessions, TypeOK
<1>19. CASE StopAllTasks
  <2>1. /\ cancelling' \in SUBSET Turn /\ stopped' \in SUBSET Turn /\ freed' \in SUBSET Turn
        /\ stopAlls' \in Nat
    BY <1>19 DEF StopAllTasks, TypeOK
  <2>2. CASE lockQueue = << >> /\ StopAllRuns(AllSessions, << >>)
    <3>1. <<>> \in Seq(Caller) /\ <<StopAll>> \o <<>> \in Seq(Caller)
      BY EmptySeq, ConcatEmptySeq
    <3>2. /\ lockQueue' \in Seq(Caller) /\ stopAll' \in {"idle", "waiting", "stopping"}
          /\ toStop' \in SUBSET Turn /\ PoolType' /\ StopType'
      BY <1>18, <2>2, <3>1, StopAllMoves
    <3> QED
      BY <1>19, <2>1, <3>2 DEF StopAllTasks, handles, PoolType, StopType, TypeOK
  <2>3. CASE /\ stopAll' = "waiting" /\ lockQueue' = Append(lockQueue, StopAll)
             /\ UNCHANGED <<waitFor, toStop, pool, signalled>>
    <3>1. lockQueue' \in Seq(Caller)
      BY <2>3, QueueAppend DEF TypeOK
    <3> QED
      BY <1>19, <2>1, <2>3, <3>1 DEF StopAllTasks, handles, pool, TypeOK
  <2> QED
    BY <1>19, <2>2, <2>3 DEF StopAllTasks
<1>20. CASE LockForStopAll \/ StopAllGoesOn
  <2>1. Holds(StopAll)
    BY <1>20 DEF LockForStopAll, StopAllGoesOn, LockInv
  <2>2. /\ lockQueue' \in Seq(Caller) /\ stopAll' \in {"idle", "waiting", "stopping"}
        /\ toStop' \in SUBSET Turn /\ PoolType' /\ StopType'
    BY <1>18, <1>20, <2>1, StopAllMoves, LockReleased DEF LockForStopAll, StopAllGoesOn, TypeOK
  <2> QED
    BY <1>20, <2>2 DEF LockForStopAll, StopAllGoesOn, handles, PoolType, StopType, TypeOK
<1>21. ASSUME NEW n \in Turn, CancelledAtLock(n) PROVE TypeOK'
  <2>1. lockQueue' \in Seq(Caller)
    BY <1>21, QueueAbandoned DEF CancelledAtLock, TypeOK
  <2> QED
    BY <1>0, <1>21, <2>1 DEF CancelledAtLock, Cancels, stopState, pool, handles, processes, TypeOK
<1>22. ASSUME NEW n \in Turn, CancelledAtCli(n) PROVE TypeOK'
  <2>1. cliQueue' \in [Turn -> Seq(Turn)]
    <3>1. \A s \in Turn : Abandoned(cliQueue[s], n) \in Seq(Turn)
      BY QueueAbandoned DEF TypeOK
    <3> QED
      BY <1>22, <3>1 DEF CancelledAtCli, TypeOK
  <2>2. turn' \in [Turn -> Phase] /\ lockQueue' \in Seq(Caller) /\ PoolType' /\ StopType'
    BY <1>22, LeaveTypes DEF CancelledAtCli, TypeOK
  <2> QED
    BY <1>22, <2>1, <2>2 DEF CancelledAtCli, Cancels, stopState, handles, PoolType, StopType, TypeOK
<1>23. ASSUME NEW n \in Turn, CancelledReading(n) PROVE TypeOK'
  <2>1. StopType'
    BY <1>23 DEF CancelledReading, Stops, StopNeeded, StopType, TypeOK
  <2> QED
    BY <1>0, <1>23, <2>1 DEF CancelledReading, Cancels, stopState, pool, handles, StopType, TypeOK
<1>24. ASSUME NEW n \in Turn, CancelledRegistering(n) PROVE TypeOK'
  <2>1. Abandoned(lockQueue, n) \in Seq(Caller)
    BY QueueAbandoned DEF TypeOK
  <2>2. turn' \in [Turn -> Phase] /\ lockQueue' \in Seq(Caller) /\ PoolType' /\ StopType'
    BY <1>24, <2>1, LeaveTypes DEF CancelledRegistering
  <2> QED
    BY <1>24, <2>2 DEF CancelledRegistering, Cancels, stopState, handles, PoolType, StopType, TypeOK
<1>25. ASSUME NEW n \in Turn, CancelledDying(n) PROVE TypeOK'
  <2>1. lockQueue' \in Seq(Caller)
    BY <1>25, LockReleased DEF CancelledDying, LockInv, Release
  <2> QED
    BY <1>0, <1>25, <2>1 DEF CancelledDying, Cancels, stopState, pool, handles, processes, TypeOK
<1>26. CASE UNCHANGED vars
  BY <1>26 DEF vars, control, stopState, pool, handles, processes, TypeOK
<1> QED
  BY <1>2, <1>3, <1>4, <1>5, <1>6, <1>7, <1>8, <1>9, <1>10, <1>11, <1>12, <1>14, <1>15,
     <1>16, <1>17, <1>19, <1>20, <1>21, <1>22, <1>23, <1>24, <1>25, <1>26
     DEF Next, Scheduled, Resumes, Proceeds, External, StopAllProceeds

-----------------------------------------------------------------------------
(* The manager's lock.  A step of one turn leaves all others where they    *)
(* are in its queue.                                                       *)

\* q is the queue without c.
Dropped(q, c) ==
    /\ q \in Seq(Caller) /\ Distinct(q) /\ ~In(q, c)
    /\ \A d \in Caller \ {c} : In(q, d) <=> In(lockQueue, d)
    /\ \A a, b \in Caller \ {c} : Ahead(lockQueue, a, b) => Ahead(q, a, b)
    /\ lockQueue # <<>> /\ Head(lockQueue) # c => q # <<>> /\ Head(q) = Head(lockQueue)

\* The same when c may be in it, with the lock if it keeps it.
MovesIn(c, waits, keeps, joins) ==
    /\ lockQueue' \in Seq(Caller) /\ Distinct(lockQueue')
    /\ \A d \in Caller \ {c} : In(lockQueue', d) <=> In(lockQueue, d)
    /\ \A a, b \in Caller \ {c} : Ahead(lockQueue, a, b) => Ahead(lockQueue', a, b)
    /\ lockQueue # <<>> /\ Head(lockQueue) # c =>
          lockQueue' # <<>> /\ Head(lockQueue') = Head(lockQueue)
    /\ In(lockQueue', c) <=> waits
    /\ keeps => lockQueue' # <<>> /\ Head(lockQueue') = c
    /\ joins => \A d \in Caller \ {c} : In(lockQueue, d) => Ahead(lockQueue', d, c)

Moves(n) ==
    /\ turn' = [turn EXCEPT ![n] = turn'[n]]
    /\ MovesIn(n, turn'[n] \in AtLock, turn'[n] = "dying",
               turn'[n] \in {"acquiring", "registering", "removing"})

LEMMA DroppedFromLock ==
    ASSUME TypeOK, LockInv, NEW c \in Caller
    PROVE  /\ ~In(lockQueue, c) => Dropped(lockQueue, c)
           /\ Holds(c) => Dropped(Tail(lockQueue), c)
           /\ Dropped(Abandoned(lockQueue, c), c)
<1>1. lockQueue \in Seq(Caller) /\ Distinct(lockQueue)
  BY DEF TypeOK, LockInv
<1>2. ASSUME Holds(c) PROVE Dropped(Tail(lockQueue), c)
  BY <1>1, <1>2, QueueTail DEF Dropped, Holds
<1>3. Dropped(Abandoned(lockQueue, c), c)
  <2>1. Abandoned(lockQueue, c) \in Seq(Caller)
    BY <1>1, QueueAbandoned
  <2>2. \A d \in Caller \ {c} : In(Abandoned(lockQueue, c), d) <=> In(lockQueue, d)
    BY <1>1, QueueAbandoned
  <2>3. Distinct(Abandoned(lockQueue, c)) /\ ~In(Abandoned(lockQueue, c), c)
    BY <1>1, QueueAbandoned
  <2>4. \A a, b \in Caller \ {c} :
           Ahead(lockQueue, a, b) => Ahead(Abandoned(lockQueue, c), a, b)
    BY <1>1, QueueAbandoned
  <2>5. lockQueue # <<>> /\ Head(lockQueue) # c =>
           Abandoned(lockQueue, c) # <<>> /\ Head(Abandoned(lockQueue, c)) = Head(lockQueue)
    BY <1>1, QueueAbandoned
  <2> QED
    BY <2>1, <2>2, <2>3, <2>4, <2>5 DEF Dropped
<1> QED
  BY <1>1, <1>2, <1>3 DEF Dropped

LEMMA JoinMoves ==
    ASSUME NEW c \in Caller, NEW q, Dropped(q, c), lockQueue' = Append(q, c)
    PROVE  MovesIn(c, TRUE, FALSE, TRUE)
<1>1. q \in Seq(Caller) /\ Distinct(q) /\ ~In(q, c)
  BY DEF Dropped
<1> QED
  BY <1>1, QueueAppend DEF Dropped, MovesIn

LEMMA OutMoves ==
    ASSUME NEW c \in Caller, NEW q, Dropped(q, c), lockQueue' = q
    PROVE  MovesIn(c, FALSE, FALSE, FALSE)
  BY DEF Dropped, MovesIn

LEMMA HoldMoves ==
    ASSUME TypeOK, LockInv, NEW c \in Caller,
           \/ Holds(c) /\ lockQueue' = <<c>> \o Tail(lockQueue)
           \/ lockQueue = <<>> /\ lockQueue' = <<c>> \o <<>>
           \/ Dropped(<<>>, c) /\ lockQueue' = <<c>> \o <<>>
    PROVE  MovesIn(c, TRUE, TRUE, FALSE)
<1>1. lockQueue \in Seq(Caller) /\ Distinct(lockQueue)
  BY DEF TypeOK, LockInv
<1>2. CASE Holds(c) /\ lockQueue' = <<c>> \o Tail(lockQueue)
  <2>1. lockQueue' = lockQueue
    BY <1>2, LockReleased
  <2>2. lockQueue # <<>> /\ Head(lockQueue) = c
    BY <1>2 DEF Holds
  <2>3. In(lockQueue, c)
    BY <1>1, <2>2, QueueHead DEF In
  <2> QED
    BY <1>1, <2>1, <2>2, <2>3 DEF MovesIn
<1>3. ASSUME lockQueue = <<>> PROVE Dropped(<<>>, c)
  BY <1>1, <1>3 DEF Dropped, In
<1>4. CASE Dropped(<<>>, c) /\ lockQueue' = <<c>> \o <<>>
  <2>1. lockQueue' = Append(<<>>, c)
    BY <1>4
  <2>0. <<>> \in Seq(Caller) /\ Distinct(<<>>) /\ ~In(<<>>, c)
    BY <1>4 DEF Dropped
  <2>2. /\ lockQueue' \in Seq(Caller) /\ lockQueue' # <<>> /\ Head(lockQueue') = c
        /\ Distinct(lockQueue')
        /\ \A d : In(lockQueue', d) <=> In(<<>>, d) \/ d = c
    <3>1. \A q : q = <<>> => /\ Append(q, c) \in Seq(Caller) /\ Append(q, c) # <<>>
                            /\ Head(Append(q, c)) = c
                            /\ Distinct(Append(q, c))
                            /\ \A d : In(Append(q, c), d) <=> In(q, d) \/ d = c
      <4> SUFFICES ASSUME NEW q, q = <<>>
                   PROVE  /\ Append(q, c) \in Seq(Caller) /\ Append(q, c) # <<>>
                          /\ Head(Append(q, c)) = c
                          /\ Distinct(Append(q, c))
                          /\ \A d : In(Append(q, c), d) <=> In(q, d) \/ d = c
        OBVIOUS
      <4>1. q \in Seq(Caller) /\ Distinct(q) /\ ~In(q, c)
        BY <2>0, Zenon
      <4> QED
        BY <4>1, QueueAppend
    <3> QED
      BY <2>1, <3>1
  <2>3. \A a, b : ~Ahead(<<>>, a, b) /\ ~In(<<>>, a)
    BY DEF Ahead, In
  <2> QED
    BY <1>4, <2>2, <2>3 DEF Dropped, MovesIn
<1> QED
  BY <1>2, <1>3, <1>4

\* However a turn leaves the stream, and with whom it finds in the queue.
LEMMA LeaveLock ==
    ASSUME TypeOK, LockInv, NEW n \in Turn, NEW q, Dropped(q, n), Leave(n, q)
    PROVE  Moves(n)
<1> USE Phases
<1>1. CASE q = <<>> /\ turn' = [turn EXCEPT ![n] = "done"] /\ lockQueue' = <<>>
  <2>1. MovesIn(n, FALSE, FALSE, FALSE)
    BY <1>1, OutMoves
  <2> QED
    BY <1>1, <2>1 DEF Moves, MovesIn, AtLock, TypeOK
<1>2. CASE q = <<>> /\ turn' = [turn EXCEPT ![n] = "dying"] /\ lockQueue' = <<n>> \o <<>>
  <2>1. MovesIn(n, TRUE, TRUE, FALSE)
    BY <1>2, HoldMoves
  <2> QED
    BY <1>2, <2>1 DEF Moves, MovesIn, AtLock, TypeOK
<1>3. CASE turn' = [turn EXCEPT ![n] = "removing"] /\ lockQueue' = Append(q, n)
  <2>1. MovesIn(n, TRUE, FALSE, TRUE)
    BY <1>3, JoinMoves
  <2> QED
    BY <1>3, <2>1 DEF Moves, MovesIn, AtLock, TypeOK
<1> QED
  BY <1>1, <1>2, <1>3, LeaveMoves

\* The steps that move a turn, one after the other.
TurnStep(n) ==
    \/ Begin(n) \/ Acquire(n) \/ LockForRemove(n) \/ SessionRemoved(n) \/ Launch(n) \/ LaunchFails(n)
    \/ StreamEnds(n) \/ IdleTimeout(n) \/ Killed(n) \/ SessionInfo(n) \/ LockForRegister(n)
    \/ OldStopped(n) \/ CancelledAtLock(n) \/ CancelledAtCli(n) \/ CancelledReading(n)
    \/ CancelledRegistering(n) \/ CancelledDying(n)

LEMMA TurnMoves ==
    ASSUME TypeOK, LockInv, ReportInv, NEW n \in Turn, TurnStep(n)
    PROVE  Moves(n)
<1> USE Phases
<1>1. In(lockQueue, n) <=> turn[n] \in AtLock
  BY DEF LockInv
<1>2. turn[n] = "dying" => Holds(n)
  BY DEF LockInv
<1>3. ASSUME NEW ph \in Phase \ AtLock, turn' = [turn EXCEPT ![n] = ph], turn[n] \notin AtLock,
             UNCHANGED lockQueue
      PROVE  Moves(n)
  <2>1. MovesIn(n, FALSE, FALSE, FALSE)
    BY <1>1, <1>3, DroppedFromLock, OutMoves
  <2> QED
    BY <1>3, <2>1 DEF Moves, MovesIn, AtLock, TypeOK
<1>4. ASSUME NEW ph \in Phase \ AtLock, turn' = [turn EXCEPT ![n] = ph], Holds(n),
             lockQueue' = Tail(lockQueue)
      PROVE  Moves(n)
  <2>1. MovesIn(n, FALSE, FALSE, FALSE)
    BY <1>4, DroppedFromLock, OutMoves
  <2> QED
    BY <1>4, <2>1 DEF Moves, MovesIn, AtLock, TypeOK
<1>5. ASSUME NEW ph \in {"acquiring", "registering"}, turn' = [turn EXCEPT ![n] = ph],
             turn[n] \notin AtLock, lockQueue' = Append(lockQueue, n)
      PROVE  Moves(n)
  <2>1. MovesIn(n, TRUE, FALSE, TRUE)
    BY <1>1, <1>5, DroppedFromLock, JoinMoves
  <2> QED
    BY <1>5, <2>1 DEF Moves, MovesIn, AtLock, TypeOK
<1>6. ASSUME turn[n] \notin AtLock, Leave(n, lockQueue) PROVE Moves(n)
  BY <1>1, <1>6, DroppedFromLock, LeaveLock
<1>7. CASE Begin(n)
  <2>1. CASE lockQueue = <<>> /\ GetOrCreateSession(n) /\ UNCHANGED lockQueue
    <3>1. turn' = [turn EXCEPT ![n] = "waitingCli"]
      BY <2>1 DEF GetOrCreateSession
    <3> QED
      BY <1>3, <1>7, <2>1, <3>1 DEF Begin, AtLock
  <2>2. CASE turn' = [turn EXCEPT ![n] = "acquiring"] /\ lockQueue' = Append(lockQueue, n)
    BY <1>5, <1>7, <2>2 DEF Begin, AtLock
  <2> QED
    BY <1>7, <2>1, <2>2 DEF Begin
<1>8. CASE Acquire(n)
  BY <1>4, <1>8 DEF Acquire, GetOrCreateSession, Release, AtLock
<1>9. CASE LockForRemove(n)
  <2>1. Holds(n) /\ RemoveSession(n, Tail(lockQueue))
    BY <1>9 DEF LockForRemove
  <2>2. CASE turn' = [turn EXCEPT ![n] = "done"] /\ lockQueue' = Tail(lockQueue)
    BY <1>4, <2>1, <2>2 DEF AtLock
  <2>3. CASE turn' = [turn EXCEPT ![n] = "dying"] /\ lockQueue' = <<n>> \o Tail(lockQueue)
    <3>1. MovesIn(n, TRUE, TRUE, FALSE)
      BY <2>1, <2>3, HoldMoves
    <3> QED
      BY <2>3, <3>1 DEF Moves, MovesIn, AtLock, TypeOK
  <2> QED
    BY <2>1, <2>2, <2>3, RemoveMoves
<1>10. CASE SessionRemoved(n) \/ CancelledDying(n)
  BY <1>2, <1>4, <1>10 DEF SessionRemoved, CancelledDying, Release, AtLock
<1>11. CASE Launch(n) \/ IdleTimeout(n) \/ OldStopped(n) \/ CancelledReading(n)
  BY <1>3, <1>11 DEF Launch, IdleTimeout, OldStopped, Registered, CancelledReading, AtLock
<1>12. CASE LaunchFails(n) \/ StreamEnds(n) \/ Killed(n) \/ CancelledAtCli(n)
  BY <1>6, <1>12 DEF LaunchFails, StreamEnds, Killed, CancelledAtCli, AtLock
<1>13. ASSUME NEW id, Register(n, id)
       PROVE  turn' = [turn EXCEPT ![n] = "running"] \/ turn' = [turn EXCEPT ![n] = "stoppingOld"]
  BY <1>13 DEF Register, Registered
<1>14. CASE SessionInfo(n)
  <2>1. turn[n] = "running"
    BY <1>14 DEF SessionInfo
  <2>2. CASE turn' = [turn EXCEPT ![n] = "registering"] /\ lockQueue' = Append(lockQueue, n)
    BY <1>5, <2>1, <2>2 DEF AtLock
  <2>3. CASE UNCHANGED lockQueue /\ \E id : Register(n, id)
    BY <1>3, <1>13, <2>1, <2>3 DEF AtLock
  <2> QED
    BY <1>14, <2>2, <2>3 DEF SessionInfo
<1>15. CASE LockForRegister(n)
  BY <1>4, <1>13, <1>15 DEF LockForRegister, Release, AtLock
<1>16. CASE CancelledAtLock(n)
  <2>1. turn' = [turn EXCEPT ![n] = "done"] /\ lockQueue' = Abandoned(lockQueue, n)
    BY <1>16 DEF CancelledAtLock
  <2>2. MovesIn(n, FALSE, FALSE, FALSE)
    BY <2>1, DroppedFromLock, OutMoves
  <2> QED
    BY <2>1, <2>2 DEF Moves, MovesIn, AtLock, TypeOK
<1>17. CASE CancelledRegistering(n)
  BY <1>17, DroppedFromLock, LeaveLock DEF CancelledRegistering
<1> QED
  BY <1>7, <1>8, <1>9, <1>10, <1>11, <1>12, <1>14, <1>15, <1>16, <1>17 DEF TurnStep

\* stop_all_tasks, from the wait for the lock to the end of stop_all.
StopAllStep == StopAllTasks \/ LockForStopAll \/ StopAllGoesOn

StopAllMovesIn ==
    /\ turn' = turn
    /\ MovesIn(StopAll, stopAll' # "idle", stopAll' = "stopping", stopAll' = "waiting")

LEMMA StopAllTakesLock ==
    ASSUME TypeOK, LockInv, StopAllStep
    PROVE  StopAllMovesIn
<1> USE Phases
<1>1. In(lockQueue, StopAll) <=> stopAll # "idle"
  BY DEF LockInv
<1>2. AllSessions \in SUBSET Turn /\ toStop \in SUBSET Turn
  BY DEF AllSessions, TypeOK
<1>3. turn' = turn
  BY DEF StopAllStep, StopAllTasks, LockForStopAll, StopAllGoesOn
<1>4. CASE StopAllTasks
  <2>1. stopAll = "idle"
    BY <1>4 DEF StopAllTasks
  <2>2. CASE lockQueue = <<>> /\ StopAllRuns(AllSessions, <<>>)
    <3>1. CASE stopAll' = "idle" /\ lockQueue' = <<>>
      <4>1. MovesIn(StopAll, FALSE, FALSE, FALSE)
        BY <1>1, <2>1, <2>2, <3>1, DroppedFromLock, OutMoves
      <4> QED
        BY <1>3, <3>1, <4>1 DEF StopAllMovesIn, MovesIn
    <3>2. CASE stopAll' = "stopping" /\ lockQueue' = <<StopAll>> \o <<>>
      <4>1. MovesIn(StopAll, TRUE, TRUE, FALSE)
        BY <2>2, <3>2, HoldMoves
      <4> QED
        BY <1>3, <3>2, <4>1 DEF StopAllMovesIn, MovesIn
    <3> QED
      BY <1>2, <2>2, <3>1, <3>2, StopAllMoves
  <2>3. CASE stopAll' = "waiting" /\ lockQueue' = Append(lockQueue, StopAll)
    <3>1. MovesIn(StopAll, TRUE, FALSE, TRUE)
      BY <1>1, <2>1, <2>3, DroppedFromLock, JoinMoves
    <3> QED
      BY <1>3, <2>3, <3>1 DEF StopAllMovesIn, MovesIn
  <2> QED
    BY <1>4, <2>2, <2>3 DEF StopAllTasks
<1>5. CASE LockForStopAll \/ StopAllGoesOn
  <2>1. Holds(StopAll)
    BY <1>5 DEF LockForStopAll, StopAllGoesOn, LockInv
  <2>2. \/ stopAll' = "idle" /\ lockQueue' = Tail(lockQueue)
        \/ stopAll' = "stopping" /\ lockQueue' = <<StopAll>> \o Tail(lockQueue)
    BY <1>2, <1>5, StopAllMoves DEF LockForStopAll, StopAllGoesOn
  <2>3. CASE stopAll' = "idle" /\ lockQueue' = Tail(lockQueue)
    <3>1. MovesIn(StopAll, FALSE, FALSE, FALSE)
      BY <2>1, <2>3, DroppedFromLock, OutMoves
    <3> QED
      BY <1>3, <2>3, <3>1 DEF StopAllMovesIn, MovesIn
  <2>4. CASE stopAll' = "stopping" /\ lockQueue' = <<StopAll>> \o Tail(lockQueue)
    <3>1. MovesIn(StopAll, TRUE, TRUE, FALSE)
      BY <2>1, <2>4, HoldMoves
    <3> QED
      BY <1>3, <2>4, <3>1 DEF StopAllMovesIn, MovesIn
  <2> QED
    BY <2>2, <2>3, <2>4
<1> QED
  BY <1>4, <1>5 DEF StopAllStep

\* The steps that move no turn.
QuietStep == \E n \in Turn : CloseGenerator(n) \/ Dies(n) \/ StopTurn(n)

LEMMA Steps ==
    ASSUME [Next]_vars
    PROVE  \/ \E n \in Turn : TurnStep(n)
           \/ StopAllStep
           \/ QuietStep
           \/ UNCHANGED vars
  BY DEF Next, Scheduled, Resumes, Proceeds, External, StopAllProceeds, TurnStep, StopAllStep,
         QuietStep

LEMMA TurnKeepsStopAll ==
    ASSUME NEW n \in Turn, TurnStep(n)
    PROVE  UNCHANGED <<stopState, freshIds>>
  BY DEF TurnStep, Begin, Acquire, LockForRemove, SessionRemoved, Launch, LaunchFails,
         StreamEnds, IdleTimeout, Killed, SessionInfo, LockForRegister, OldStopped,
         CancelledAtLock, CancelledAtCli, CancelledReading, CancelledRegistering, CancelledDying

LEMMA LockInit == Init => LockInv
  BY TurnAssumption DEF Init, LockInv, Distinct, In, AtLock, Holds

LEMMA LockStep ==
    ASSUME TypeOK, LockInv, ReportInv, [Next]_vars
    PROVE  LockInv'
<1> USE Phases
<1>1. ASSUME NEW n \in Turn, TurnStep(n) PROVE LockInv'
  <2>1. Moves(n)
    BY <1>1, TurnMoves
  <2>2. stopAll' = stopAll /\ n # StopAll
    BY <1>1, TurnKeepsStopAll, TurnAssumption DEF stopState
  <2>3. turn' = [turn EXCEPT ![n] = turn'[n]]
    BY <2>1 DEF Moves
  <2>4. \A m \in Turn \ {n} : turn'[m] = turn[m]
    BY <2>3 DEF TypeOK
  <2>5. \A m \in Turn : In(lockQueue', m) <=> turn'[m] \in AtLock
    BY <2>1, <2>4 DEF Moves, MovesIn, LockInv
  <2>6. In(lockQueue', StopAll) <=> stopAll' # "idle"
    BY <2>1, <2>2 DEF Moves, MovesIn, LockInv
  <2>7. \A m \in Turn : turn'[m] = "dying" => lockQueue' # <<>> /\ Head(lockQueue') = m
    BY <2>1, <2>4 DEF Moves, MovesIn, LockInv, Holds
  <2>8. stopAll' = "stopping" => lockQueue' # <<>> /\ Head(lockQueue') = StopAll
    BY <2>1, <2>2 DEF Moves, MovesIn, LockInv, Holds
  <2> QED
    BY <2>1, <2>5, <2>6, <2>7, <2>8 DEF Moves, MovesIn, LockInv, Holds
<1>2. ASSUME StopAllStep PROVE LockInv'
  <2>1. StopAllMovesIn
    BY <1>2, StopAllTakesLock
  <2>2. \A m \in Turn : m # StopAll /\ turn'[m] = turn[m]
    BY <2>1, TurnAssumption DEF StopAllMovesIn
  <2> QED
    BY <2>1, <2>2 DEF StopAllMovesIn, MovesIn, LockInv, Holds
<1>3. ASSUME UNCHANGED <<turn, lockQueue, stopAll>> PROVE LockInv'
  BY <1>3 DEF LockInv, Holds
<1> QED
  BY <1>1, <1>2, <1>3, Steps
     DEF QuietStep, CloseGenerator, Dies, StopTurn, vars, control, stopState

-----------------------------------------------------------------------------
(* What a turn has in hand changes in its own steps only.                  *)

LEMMA TurnKeepsOthers ==
    ASSUME TypeOK, LockInv, ReportInv, NEW n \in Turn, TurnStep(n), NEW m \in Turn \ {n}
    PROVE  /\ turn'[m] = turn[m] /\ session'[m] = session[m]
           /\ captured'[m] = captured[m] /\ recorded'[m] = recorded[m] /\ report'[m] = report[m]
           /\ m \in tempHeld' <=> m \in tempHeld
           /\ m \in cancelling' <=> m \in cancelling
<1>1. turn' = [turn EXCEPT ![n] = turn'[n]]
  BY TurnMoves DEF Moves
<1>2. turn'[m] = turn[m]
  BY <1>1 DEF TypeOK
<1>3. m \in cancelling' <=> m \in cancelling
  BY DEF TurnStep, Begin, Acquire, LockForRemove, SessionRemoved, Launch, LaunchFails,
         StreamEnds, IdleTimeout, Killed, SessionInfo, LockForRegister, OldStopped,
         CancelledAtLock, CancelledAtCli, CancelledReading, CancelledRegistering,
         CancelledDying, Cancels
<1>4. ASSUME UNCHANGED handles
      PROVE  /\ session'[m] = session[m] /\ captured'[m] = captured[m]
             /\ recorded'[m] = recorded[m] /\ report'[m] = report[m]
             /\ m \in tempHeld' <=> m \in tempHeld
  BY <1>4 DEF handles
<1>5. ASSUME GetOrCreateSession(n)
      PROVE  /\ session'[m] = session[m] /\ captured'[m] = captured[m]
             /\ recorded'[m] = recorded[m] /\ report'[m] = report[m]
             /\ m \in tempHeld' <=> m \in tempHeld
  <2>1. CASE Reuse(n)
    BY <1>5, <2>1 DEF GetOrCreateSession, Reuse, TypeOK
  <2>2. CASE Create(n)
    BY <1>5, <2>2 DEF GetOrCreateSession, Create, TypeOK
  <2> QED
    BY <1>5, <2>1, <2>2 DEF GetOrCreateSession
<1>6. ASSUME NEW id, \/ Registered(n, id)
                     \/ UNCHANGED <<captured, recorded, tempHeld>>
      PROVE  /\ captured'[m] = captured[m] /\ recorded'[m] = recorded[m]
             /\ m \in tempHeld' <=> m \in tempHeld
  BY <1>6 DEF Registered, TypeOK
<1>7. ASSUME NEW id, Register(n, id)
      PROVE  /\ captured'[m] = captured[m] /\ recorded'[m] = recorded[m]
             /\ m \in tempHeld' <=> m \in tempHeld
  BY <1>6, <1>7 DEF Register
<1>8. CASE Begin(n) \/ Acquire(n)
  BY <1>2, <1>3, <1>4, <1>5, <1>8 DEF Begin, Acquire
<1>9. CASE SessionInfo(n)
  <2>1. /\ session'[m] = session[m] /\ report'[m] = report[m]
    BY <1>9 DEF SessionInfo, TypeOK
  <2>2. \/ \E id : Register(n, id)
        \/ UNCHANGED <<captured, recorded, tempHeld>>
    BY <1>9 DEF SessionInfo
  <2> QED
    BY <1>2, <1>3, <1>6, <1>7, <2>1, <2>2
<1>10. CASE LockForRegister(n)
  BY <1>2, <1>3, <1>7, <1>10 DEF LockForRegister
<1>11. CASE OldStopped(n)
  BY <1>2, <1>3, <1>6, <1>11 DEF OldStopped
<1>12. CASE StreamEnds(n)
  BY <1>2, <1>3, <1>12 DEF StreamEnds, TypeOK
<1>13. CASE \/ LockForRemove(n) \/ SessionRemoved(n) \/ Launch(n) \/ LaunchFails(n)
            \/ IdleTimeout(n) \/ Killed(n) \/ CancelledAtLock(n) \/ CancelledAtCli(n)
            \/ CancelledReading(n) \/ CancelledRegistering(n) \/ CancelledDying(n)
  BY <1>2, <1>3, <1>4, <1>13
     DEF LockForRemove, SessionRemoved, Launch, LaunchFails, IdleTimeout, Killed,
         CancelledAtLock, CancelledAtCli, CancelledReading, CancelledRegistering, CancelledDying
<1> QED
  BY <1>8, <1>9, <1>10, <1>11, <1>12, <1>13 DEF TurnStep

\* The phases a turn goes through, and when it reports an id or has its own.
LEMMA TurnGoesOn ==
    ASSUME TypeOK, LockInv, ReportInv, NEW n \in Turn, TurnStep(n)
    PROVE  /\ turn'[n] \in {"acquiring", "waitingCli"} =>
                 turn[n] \in {"idle", "acquiring"} /\ report'[n] = report[n]
           /\ turn'[n] = "running" =>
                 \/ turn[n] = "waitingCli" /\ report'[n] = report[n]
                 \/ n \notin tempHeld'
           /\ turn'[n] \in {"registering", "stoppingOld"} =>
                 \/ turn[n] = "running" /\ report'[n] \in SessionId /\ n \in tempHeld'
                 \/ turn[n] = "registering" /\ report'[n] = report[n] /\ n \in tempHeld'
           /\ turn'[n] # "idle"
<1> USE Phases
<1>1. CASE Begin(n) \/ Acquire(n)
  BY <1>1 DEF Begin, Acquire, GetOrCreateSession, handles, TypeOK
<1>2. ASSUME NEW id, Registered(n, id) PROVE turn'[n] = "running" /\ n \notin tempHeld'
  BY <1>2 DEF Registered, TypeOK
<1>3. ASSUME NEW id, Register(n, id), n \in tempHeld
      PROVE  \/ turn'[n] = "running" /\ n \notin tempHeld'
             \/ turn'[n] = "stoppingOld" /\ n \in tempHeld'
  BY <1>2, <1>3 DEF Register, TypeOK
<1>4. CASE SessionInfo(n)
  <2>1. /\ turn[n] = "running" /\ n \in tempHeld /\ Reportable \subseteq SessionId
    BY <1>4, FreshId DEF SessionInfo, ReportInv
  <2>2. PICK id \in SessionId :
          /\ report' = [report EXCEPT ![n] = id]
          /\ \/ Register(n, id)
             \/ turn' = [turn EXCEPT ![n] = "registering"] /\ tempHeld' = tempHeld
    BY <1>4, <2>1 DEF SessionInfo
  <2>3. report'[n] = id
    BY <2>2 DEF TypeOK
  <2> QED
    BY <1>3, <2>1, <2>2, <2>3 DEF TypeOK
<1>5. CASE LockForRegister(n)
  BY <1>3, <1>5 DEF LockForRegister, ReportInv
<1>6. CASE OldStopped(n)
  BY <1>2, <1>6 DEF OldStopped
<1>7. CASE Launch(n)
  BY <1>7 DEF Launch, handles, TypeOK
<1>8. ASSUME turn'[n] \in Over \cup {"killing"}
      PROVE  turn'[n] \notin {"idle", "acquiring", "waitingCli", "running", "registering", "stoppingOld"}
  BY <1>8 DEF Over
<1>9. ASSUME NEW q, Leave(n, q) PROVE turn'[n] \in Over
  BY <1>9, LeaveMoves DEF Over, TypeOK
<1>10. CASE LockForRemove(n)
  BY <1>8, <1>10, RemoveMoves DEF LockForRemove, Over, TypeOK
<1>11. CASE LaunchFails(n) \/ StreamEnds(n) \/ Killed(n) \/ CancelledAtCli(n) \/ CancelledRegistering(n)
  BY <1>8, <1>9, <1>11 DEF LaunchFails, StreamEnds, Killed, CancelledAtCli, CancelledRegistering
<1>12. CASE SessionRemoved(n) \/ IdleTimeout(n) \/ CancelledAtLock(n) \/ CancelledReading(n) \/ CancelledDying(n)
  BY <1>8, <1>12 DEF SessionRemoved, IdleTimeout, CancelledAtLock, CancelledReading, CancelledDying, Over, TypeOK
<1> QED
  BY <1>1, <1>4, <1>5, <1>6, <1>7, <1>10, <1>11, <1>12 DEF TurnStep

\* The steps of stop_all and the quiet ones leave all of it alone.
LEMMA OthersKeepHandles ==
    ASSUME StopAllStep \/ QuietStep \/ UNCHANGED vars
    PROVE  UNCHANGED <<turn, handles, freshIds>>
  BY DEF StopAllStep, StopAllTasks, LockForStopAll, StopAllGoesOn, QuietStep, CloseGenerator,
         Dies, StopTurn, vars, control

LEMMA ReportInit == Init => ReportInv
  BY DEF Init, ReportInv

LEMMA ReportStep ==
    ASSUME TypeOK, TypeOK', LockInv, ReportInv, [Next]_vars
    PROVE  ReportInv'
<1>1. ASSUME NEW n \in Turn, TurnStep(n) PROVE ReportInv'
  <2>1. \A m \in Turn \ {n} : /\ turn'[m] = turn[m] /\ report'[m] = report[m]
                              /\ m \in tempHeld' <=> m \in tempHeld
    BY <1>1, TurnKeepsOthers
  <2>2. /\ turn'[n] \in {"acquiring", "waitingCli"} =>
                 turn[n] \in {"idle", "acquiring"} /\ report'[n] = report[n]
        /\ turn'[n] = "running" =>
                 \/ turn[n] = "waitingCli" /\ report'[n] = report[n]
                 \/ n \notin tempHeld'
        /\ turn'[n] \in {"registering", "stoppingOld"} =>
                 \/ turn[n] = "running" /\ report'[n] \in SessionId /\ n \in tempHeld'
                 \/ turn[n] = "registering" /\ report'[n] = report[n] /\ n \in tempHeld'
        /\ turn'[n] # "idle"
    BY <1>1, TurnGoesOn, Zenon
  <2>3. ASSUME NEW m \in Turn, turn'[m] \in {"idle", "acquiring", "waitingCli"}
        PROVE  report'[m] = NoId
    BY <2>1, <2>2, <2>3 DEF ReportInv
  <2>4. ASSUME NEW m \in tempHeld', turn'[m] = "running" PROVE report'[m] = NoId
    <3>1. m \in Turn
      BY <2>4 DEF TypeOK
    <3> QED
      BY <2>1, <2>2, <2>4, <3>1 DEF ReportInv
  <2>5. ASSUME NEW m \in Turn, turn'[m] \in {"registering", "stoppingOld"}
        PROVE  report'[m] \in SessionId /\ m \in tempHeld'
    BY <2>1, <2>2, <2>5 DEF ReportInv
  <2> QED
    BY <2>3, <2>4, <2>5 DEF ReportInv
<1>2. ASSUME UNCHANGED <<turn, handles>> PROVE ReportInv'
  BY <1>2 DEF ReportInv, handles
<1> QED
  BY <1>1, <1>2, Steps, OthersKeepHandles

-----------------------------------------------------------------------------
(* The _cli_lock of each session: its holder is the turn that reads from   *)
(* the session's process, until the process is dead.                       *)

LEMMA CliInit == Init => CliInv
  BY DEF Init, CliInv, In, UsesCli

\* The queue of the session and its process stay as they are.
LEMMA CliKept ==
    ASSUME TypeOK, CliInv, NEW n \in Turn, \A m \in Turn \ {n} : turn'[m] = turn[m],
           UNCHANGED <<cliQueue, session, process>>, alive' \subseteq alive,
           turn'[n] # "waitingCli",
           turn'[n] \in {"idle", "acquiring"} => turn[n] \in {"idle", "acquiring"},
           turn'[n] \in UsesCli => turn[n] \in UsesCli
    PROVE  CliInv'
<1>1. \A m \in Turn : turn'[m] \in UsesCli \cup {"waitingCli"} => session'[m] \in Turn
  BY DEF CliInv
<1>2. \A m \in Turn : turn'[m] \in UsesCli => cliQueue'[session'[m]] # <<>> /\ Head(cliQueue'[session'[m]]) = m
  BY DEF CliInv, HoldsCli
<1>3. \A m \in alive' : /\ turn'[m] \notin {"idle", "acquiring", "waitingCli"}
                        /\ session'[m] \in Turn /\ process'[session'[m]] = m
                        /\ cliQueue'[session'[m]] # <<>> /\ Head(cliQueue'[session'[m]]) = m
  BY DEF CliInv, HoldsCli, TypeOK
<1>4. \A s, m \in Turn : In(cliQueue'[s], m) => session'[m] = s /\ turn'[m] \notin {"idle", "acquiring"}
  BY DEF CliInv
<1> QED
  BY <1>1, <1>2, <1>3, <1>4 DEF CliInv, HoldsCli

\* A turn gives the lock of its session up, or its place in the queue for it.
LEMMA CliLeft ==
    ASSUME TypeOK, CliInv, NEW n \in Turn \ alive, \A m \in Turn \ {n} : turn'[m] = turn[m],
           UNCHANGED <<session, process, alive>>, turn'[n] \in Over, session[n] \in Turn,
           NEW q \in Seq(Turn), cliQueue' = [cliQueue EXCEPT ![session[n]] = q],
           \A m : In(q, m) => In(cliQueue[session[n]], m),
           cliQueue[session[n]] # <<>> /\ Head(cliQueue[session[n]]) # n =>
              q # <<>> /\ Head(q) = Head(cliQueue[session[n]])
    PROVE  CliInv'
<1> DEFINE s0 == session[n]
<1>1. s0 \in Turn /\ cliQueue'[s0] = q /\ \A s \in Turn \ {s0} : cliQueue'[s] = cliQueue[s]
  BY DEF TypeOK
<1>2. turn'[n] \notin UsesCli \cup {"idle", "acquiring", "waitingCli"}
  BY DEF Over, UsesCli
<1> HIDE DEF s0
<1>3. ASSUME NEW m \in Turn \ {n}, session[m] \in Turn, HoldsCli(m)
      PROVE  cliQueue'[session[m]] # <<>> /\ Head(cliQueue'[session[m]]) = m
  BY <1>1, <1>3 DEF HoldsCli, s0
<1>4. \A m \in Turn : turn'[m] \in UsesCli \cup {"waitingCli"} => session'[m] \in Turn
  BY <1>2 DEF CliInv
<1>5. \A m \in Turn : turn'[m] \in UsesCli => cliQueue'[session'[m]] # <<>> /\ Head(cliQueue'[session'[m]]) = m
  BY <1>2, <1>3 DEF CliInv
<1>6. \A m \in alive' : /\ turn'[m] \notin {"idle", "acquiring", "waitingCli"}
                        /\ session'[m] \in Turn /\ process'[session'[m]] = m
                        /\ cliQueue'[session'[m]] # <<>> /\ Head(cliQueue'[session'[m]]) = m
  BY <1>3 DEF CliInv, TypeOK
<1>7. \A s, m \in Turn : In(cliQueue'[s], m) => session'[m] = s /\ turn'[m] \notin {"idle", "acquiring"}
  BY <1>1, <1>2 DEF CliInv, s0
<1> QED
  BY <1>4, <1>5, <1>6, <1>7 DEF CliInv, HoldsCli

LEMMA CliReleasedBy ==
    ASSUME TypeOK, CliInv, NEW n \in Turn \ alive, \A m \in Turn \ {n} : turn'[m] = turn[m],
           UNCHANGED <<session, process, alive>>, turn'[n] \in Over, session[n] \in Turn,
           HoldsCli(n), ReleaseCli(n)
    PROVE  CliInv'
<1> DEFINE q == cliQueue[session[n]]
           t == Tail(q)
<1>1. q \in Seq(Turn) /\ q # <<>> /\ Head(q) = n /\ cliQueue' = [cliQueue EXCEPT ![session[n]] = t]
  BY DEF TypeOK, HoldsCli, ReleaseCli
<1>2. /\ t \in Seq(Turn) /\ DOMAIN q = 1..Len(q) /\ Len(q) \in Nat \ {0}
      /\ DOMAIN t = 1..(Len(q) - 1) /\ \A i \in 1..(Len(q) - 1) : t[i] = q[i + 1]
  BY <1>1, QueueHead
<1> HIDE DEF t
<1>3. \A m : In(t, m) => In(q, m)
  BY <1>2 DEF In
<1> QED
  BY <1>1, <1>2, <1>3, CliLeft

LEMMA CliAbandonedBy ==
    ASSUME TypeOK, CliInv, NEW n \in Turn \ alive, \A m \in Turn \ {n} : turn'[m] = turn[m],
           UNCHANGED <<session, process, alive>>, turn'[n] \in Over, session[n] \in Turn,
           cliQueue' = [cliQueue EXCEPT ![session[n]] = Abandoned(@, n)]
    PROVE  CliInv'
<1> DEFINE q == cliQueue[session[n]]
           r == Abandoned(q, n)
<1>1. q \in Seq(Turn) /\ cliQueue' = [cliQueue EXCEPT ![session[n]] = r]
  BY DEF TypeOK
<1>2. r \in Seq(Turn) /\ (\A m : In(r, m) => In(q, m)) /\ (q # <<>> /\ Head(q) # n => r # <<>> /\ Head(r) = Head(q))
  BY <1>1, QueueAbandoned
<1> HIDE DEF r
<1> QED
  BY <1>1, <1>2, CliLeft

LEMMA CliJoined ==
    ASSUME TypeOK, CliInv, NEW n \in Turn, \A m \in Turn \ {n} : turn'[m] = turn[m],
           UNCHANGED <<process, alive>>, turn[n] \in {"idle", "acquiring"}, turn'[n] = "waitingCli",
           NEW s \in Turn, session' = [session EXCEPT ![n] = s],
           cliQueue' = [cliQueue EXCEPT ![s] = Append(@, n)]
    PROVE  CliInv'
<1> DEFINE q == cliQueue[s]
           r == Append(q, n)
<1>1. q \in Seq(Turn) /\ cliQueue'[s] = r /\ \A t \in Turn \ {s} : cliQueue'[t] = cliQueue[t]
  BY DEF TypeOK
<1>2. (\A m : In(r, m) <=> In(q, m) \/ m = n) /\ (q # <<>> => r # <<>> /\ Head(r) = Head(q))
  BY <1>1, QueueAppend
<1>3. session'[n] = s /\ \A m \in Turn \ {n} : session'[m] = session[m]
  BY DEF TypeOK
<1> HIDE DEF r
<1>4. n \notin alive /\ turn'[n] \notin UsesCli \cup {"idle", "acquiring"}
  BY DEF CliInv, UsesCli
<1>5. ASSUME NEW m \in Turn \ {n}, session[m] \in Turn, HoldsCli(m)
      PROVE  cliQueue'[session[m]] # <<>> /\ Head(cliQueue'[session[m]]) = m
  BY <1>1, <1>2, <1>5 DEF HoldsCli
<1>6. \A m \in Turn : turn'[m] \in UsesCli \cup {"waitingCli"} => session'[m] \in Turn
  BY <1>3 DEF CliInv
<1>7. \A m \in Turn : turn'[m] \in UsesCli => cliQueue'[session'[m]] # <<>> /\ Head(cliQueue'[session'[m]]) = m
  BY <1>3, <1>4, <1>5 DEF CliInv
<1>8. ASSUME NEW m \in alive'
      PROVE  /\ turn'[m] \notin {"idle", "acquiring", "waitingCli"}
             /\ session'[m] \in Turn /\ process'[session'[m]] = m
             /\ cliQueue'[session'[m]] # <<>> /\ Head(cliQueue'[session'[m]]) = m
  <2>1. m \in alive /\ m \in Turn \ {n} /\ process' = process
    BY <1>4, <1>8 DEF TypeOK
  <2>2. /\ turn[m] \notin {"idle", "acquiring", "waitingCli"}
        /\ session[m] \in Turn /\ HoldsCli(m) /\ process[session[m]] = m
    BY <2>1 DEF CliInv
  <2> QED
    BY <1>3, <1>5, <2>1, <2>2
<1>9. ASSUME NEW t \in Turn, NEW m \in Turn, In(cliQueue'[t], m)
      PROVE  session'[m] = t /\ turn'[m] \notin {"idle", "acquiring"}
  <2>1. ~In(cliQueue[t], n)
    BY DEF CliInv
  <2>2. In(cliQueue[t], m) \/ (t = s /\ m = n)
    <3>1. CASE t = s
      BY <1>1, <1>2, <1>9, <3>1
    <3>2. CASE t # s
      BY <1>1, <1>9, <3>2
    <3> QED
      BY <3>1, <3>2
  <2>3. CASE m = n
    BY <1>3, <1>4, <2>1, <2>2, <2>3
  <2>4. CASE m # n
    <3>1. session[m] = t /\ turn[m] \notin {"idle", "acquiring"}
      BY <2>2, <2>4 DEF CliInv
    <3> QED
      BY <1>3, <2>4, <3>1
  <2> QED
    BY <2>3, <2>4
<1> QED
  BY <1>6, <1>7, <1>8, <1>9 DEF CliInv, HoldsCli

LEMMA CliStep ==
    ASSUME TypeOK, CliInv, LockInv, ReportInv, [Next]_vars
    PROVE  CliInv'
<1> USE Phases
<1>1. ASSUME NEW n \in Turn, TurnStep(n) PROVE CliInv'
  <2>1. /\ \A m \in Turn \ {n} : turn'[m] = turn[m]
        /\ turn' = [turn EXCEPT ![n] = turn'[n]]
    BY <1>1, TurnKeepsOthers, TurnMoves DEF Moves
  <2>2. ASSUME NEW q, Leave(n, q) PROVE turn'[n] \in Over
    BY <2>2, LeaveMoves DEF Over, TypeOK
  <2>3. ASSUME GetOrCreateSession(n), turn[n] \in {"idle", "acquiring"}, UNCHANGED processes
        PROVE  CliInv'
    <3>1. PICK s \in Turn : /\ session' = [session EXCEPT ![n] = s]
                            /\ cliQueue' = [cliQueue EXCEPT ![s] = Append(@, n)]
      BY <2>3, GetMoves
    <3>2. turn'[n] = "waitingCli"
      BY <2>3, GetMoves DEF TypeOK
    <3> QED
      BY <2>1, <2>3, <3>1, <3>2, CliJoined DEF processes
  <2>4. CASE Begin(n)
    <3>1. CASE GetOrCreateSession(n)
      BY <2>3, <2>4, <3>1 DEF Begin
    <3>2. CASE turn' = [turn EXCEPT ![n] = "acquiring"] /\ UNCHANGED <<cliQueue, pool, handles>>
      <4>1. turn'[n] = "acquiring" /\ turn[n] = "idle"
        BY <2>4, <3>2 DEF Begin, TypeOK
      <4> QED
        BY <2>1, <2>4, <3>2, <4>1, CliKept DEF Begin, handles, processes, UsesCli
    <3> QED
      BY <2>4, <3>1, <3>2 DEF Begin
  <2>5. CASE Acquire(n)
    BY <2>3, <2>5 DEF Acquire
  <2>6. CASE Launch(n)
    <3>1. /\ turn[n] = "waitingCli" /\ turn'[n] = "running" /\ HoldsCli(n) /\ session[n] \in Turn
          /\ process'[session[n]] = n /\ \A s \in Turn \ {session[n]} : process'[s] = process[s]
          /\ alive' = alive \cup {n} /\ UNCHANGED <<session, cliQueue>>
      BY <2>6 DEF Launch, handles, CliInv, TypeOK
    <3>2. \A m \in Turn : turn'[m] \in UsesCli \cup {"waitingCli"} => session'[m] \in Turn
      BY <2>1, <3>1 DEF CliInv
    <3>3. \A m \in Turn : turn'[m] \in UsesCli => cliQueue'[session'[m]] # <<>> /\ Head(cliQueue'[session'[m]]) = m
      BY <2>1, <3>1 DEF CliInv, HoldsCli
    <3>4. \A m \in alive' : /\ turn'[m] \notin {"idle", "acquiring", "waitingCli"}
                            /\ session'[m] \in Turn /\ process'[session'[m]] = m
                            /\ cliQueue'[session'[m]] # <<>> /\ Head(cliQueue'[session'[m]]) = m
      BY <2>1, <3>1 DEF CliInv, HoldsCli, TypeOK
    <3>5. \A s, m \in Turn : In(cliQueue'[s], m) => session'[m] = s /\ turn'[m] \notin {"idle", "acquiring"}
      BY <2>1, <3>1 DEF CliInv
    <3> QED
      BY <3>2, <3>3, <3>4, <3>5 DEF CliInv, HoldsCli
  <2>7. CASE LaunchFails(n)
    BY <2>1, <2>2, <2>7, CliReleasedBy DEF LaunchFails, handles, CliInv
  <2>8. CASE StreamEnds(n)
    BY <2>1, <2>2, <2>8, CliReleasedBy DEF StreamEnds, CliInv, UsesCli
  <2>9. CASE Killed(n)
    BY <2>1, <2>2, <2>9, CliReleasedBy DEF Killed, handles, CliInv, UsesCli
  <2>10. CASE CancelledAtCli(n)
    BY <2>1, <2>2, <2>10, CliAbandonedBy DEF CancelledAtCli, handles, CliInv
  <2>11. CASE LockForRemove(n) \/ SessionRemoved(n) \/ CancelledAtLock(n) \/ CancelledRegistering(n) \/ CancelledDying(n)
    <3>1. turn'[n] \in Over
      BY <2>2, <2>11, RemoveMoves
         DEF LockForRemove, SessionRemoved, CancelledAtLock, CancelledRegistering, CancelledDying, Over, TypeOK
    <3>2. turn'[n] \notin UsesCli \cup {"idle", "acquiring", "waitingCli"}
      BY <3>1 DEF Over, UsesCli
    <3> QED
      BY <2>1, <2>11, <3>2, CliKept
         DEF LockForRemove, SessionRemoved, CancelledAtLock, CancelledRegistering, CancelledDying, handles, processes
  <2>12. CASE IdleTimeout(n) \/ CancelledReading(n)
    <3>1. turn'[n] = "killing" /\ turn[n] \in UsesCli
      BY <2>12 DEF IdleTimeout, CancelledReading, UsesCli, TypeOK
    <3> QED
      BY <2>1, <2>12, <3>1, CliKept DEF IdleTimeout, CancelledReading, handles, UsesCli
  <2>13. CASE SessionInfo(n) \/ LockForRegister(n) \/ OldStopped(n)
    <3>1. turn[n] \in UsesCli /\ UNCHANGED <<cliQueue, session, process, alive>>
      BY <2>13 DEF SessionInfo, LockForRegister, OldStopped, processes, UsesCli
    <3>2. turn'[n] \in {"running", "registering", "stoppingOld"}
      <4>1. ASSUME NEW id, Register(n, id) \/ Registered(n, id)
            PROVE  turn'[n] \in {"running", "stoppingOld"}
        BY <4>1 DEF Register, Registered, TypeOK
      <4> QED
        BY <2>13, <4>1 DEF SessionInfo, LockForRegister, OldStopped, TypeOK
    <3> QED
      BY <2>1, <3>1, <3>2, CliKept
  <2> QED
    BY <1>1, <2>4, <2>5, <2>6, <2>7, <2>8, <2>9, <2>10, <2>11, <2>12, <2>13 DEF TurnStep
<1>2. ASSUME NEW n \in Turn, CloseGenerator(n) PROVE CliInv'
  BY <1>2, CliReleasedBy DEF CloseGenerator, handles, processes, Over, TypeOK
<1>3. ASSUME UNCHANGED <<turn, session, cliQueue, process>>, alive' \subseteq alive PROVE CliInv'
  BY <1>3 DEF CliInv, HoldsCli
<1>4. CASE UNCHANGED vars
  BY <1>3, <1>4 DEF vars, control, handles, processes
<1>5. ASSUME NEW n \in Turn, Dies(n) \/ StopTurn(n) PROVE CliInv'
  BY <1>3, <1>5 DEF Dies, StopTurn, control, handles, processes
<1>6. CASE StopAllStep
  BY <1>3, <1>6 DEF StopAllStep, StopAllTasks, LockForStopAll, StopAllGoesOn, handles
<1> QED
  BY <1>1, <1>2, <1>4, <1>5, <1>6, Steps DEF QuietStep

-----------------------------------------------------------------------------

SessionInv == TypeOK /\ CliInv /\ LockInv /\ ReportInv

LEMMA SessionInvInit == Init => SessionInv
  BY TypeInit, CliInit, LockInit, ReportInit DEF SessionInv

LEMMA SessionInvStep ==
    ASSUME SessionInv, [Next]_vars
    PROVE  SessionInv'
<1>1. TypeOK'
  BY TypeStep DEF SessionInv
<1> QED
  BY <1>1, CliStep, LockStep, ReportStep DEF SessionInv

LEMMA SessionInvHolds == Spec => []SessionInv
  BY SessionInvInit, SessionInvStep, PTL DEF Spec

\* Every variable keeps its type: turns and sessions stay within the bounds of
\* the model, and a lock is only released by one who holds it.
THEOREM SessionsTypeCorrect == Spec => []TypeOK
<1>1. SessionInv => TypeOK
  BY DEF SessionInv
<1> QED
  BY <1>1, SessionInvHolds, PTL

\* No session ever has two CLI processes running, for any number of turns that
\* reply to each other, are stopped, or find the session in the pool.
THEOREM OneProcessCorrect == Spec => []OneProcessPerSession
<1>1. SessionInv => OneProcessPerSession
  <2> SUFFICES ASSUME SessionInv, NEW m \in alive, NEW n \in alive, session[m] = session[n]
               PROVE  m = n
    BY DEF OneProcessPerSession
  <2> QED
    BY DEF SessionInv, CliInv, HoldsCli
<1> QED
  BY <1>1, SessionInvHolds, PTL

-----------------------------------------------------------------------------
(* The maps of the pool.                                                   *)

\* A session that has no real id yet is in no map, and so is one that is still
\* to be created; an active session that is being removed has left _sessions.
MapInv ==
    /\ MapsSound
    /\ \A n \in pending : tempToReal[n] = NoId
    /\ \A n \in Turn : turn[n] \in {"idle", "acquiring"} => tempToReal[n] = NoId /\ n \notin pending
    /\ \A n \in Turn : turn[n] = "dying" /\ n \notin tempHeld =>
          captured[n] \in SessionId /\ sessions[captured[n]] = NoTurn

\* The ways in which a turn changes the pool.
LEMMA TurnPool ==
    ASSUME SessionInv, NEW n \in Turn, TurnStep(n)
    PROVE  \/ UNCHANGED pool /\ turn'[n] # "dying"
           \/ turn[n] \in {"idle", "acquiring"} /\ GetOrCreateSession(n)
           \/ \E rest : RemoveSession(n, rest) /\ UNCHANGED <<captured, tempHeld>>
           \/ SessionRemoved(n)
           \/ /\ \E id \in SessionId : Register(n, id)
              /\ lockQueue = <<>> \/ Holds(n)
<1> USE Phases DEF SessionInv
<1>1. CASE Begin(n)
  BY <1>1 DEF Begin, TypeOK
<1>2. CASE Acquire(n)
  BY <1>2 DEF Acquire
<1>3. ASSUME NEW q, Leave(n, q), UNCHANGED <<captured, tempHeld>>
      PROVE  \/ UNCHANGED pool /\ turn'[n] # "dying"
             \/ \E rest : RemoveSession(n, rest) /\ UNCHANGED <<captured, tempHeld>>
  BY <1>3 DEF Leave, TypeOK
<1>4. CASE LockForRemove(n)
  BY <1>4 DEF LockForRemove, handles
<1>5. CASE LaunchFails(n) \/ StreamEnds(n) \/ Killed(n) \/ CancelledAtCli(n) \/ CancelledRegistering(n)
  BY <1>3, <1>5 DEF LaunchFails, StreamEnds, Killed, CancelledAtCli, CancelledRegistering, handles
<1>6. CASE Launch(n) \/ IdleTimeout(n) \/ CancelledReading(n) \/ CancelledAtLock(n) \/ CancelledDying(n)
  BY <1>6 DEF Launch, IdleTimeout, CancelledReading, CancelledAtLock, CancelledDying, TypeOK
<1>7. CASE OldStopped(n)
  BY <1>7 DEF OldStopped, Registered, TypeOK
<1>8. CASE SessionInfo(n)
  <2>1. Reportable \subseteq SessionId
    BY <1>8, FreshId DEF SessionInfo, ReportInv
  <2>2. CASE lockQueue = <<>> /\ \E id \in Reportable : Register(n, id)
    BY <2>1, <2>2
  <2>3. CASE turn' = [turn EXCEPT ![n] = "registering"] /\ UNCHANGED pool
    BY <2>3 DEF TypeOK
  <2> QED
    BY <1>8, <2>2, <2>3 DEF SessionInfo
<1>9. CASE LockForRegister(n)
  BY <1>9 DEF LockForRegister, ReportInv
<1> QED
  BY <1>1, <1>2, <1>4, <1>5, <1>6, <1>7, <1>8, <1>9 DEF TurnStep

\* The maps when some sessions leave _sessions and the ids of one of those that
\* are not there are forgotten.
LEMMA MapsForgotten ==
    ASSUME TypeOK, MapsSound, NEW id \in SessionId, sessions'[id] = NoTurn,
           \A i \in SessionId : sessions'[i] \in {NoTurn, sessions[i]},
           tempToReal' = WithoutId(id),
           \A i \in SessionId : realToTemp'[i] = IF i = id THEN NoTurn ELSE realToTemp[i]
    PROVE  MapsSound'
<1>1. \A t \in Turn : tempToReal'[t] = IF t = realToTemp[id] THEN NoId ELSE tempToReal[t]
  BY DEF WithoutId
<1>2. ASSUME NEW i \in SessionId \ {id}, realToTemp[i] # NoTurn
      PROVE  realToTemp[i] \in Turn /\ tempToReal'[realToTemp[i]] = i
  <2>1. realToTemp[i] \in Turn /\ tempToReal[realToTemp[i]] = i
    BY <1>2 DEF TypeOK, MapsSound
  <2>2. realToTemp[i] # realToTemp[id]
    <3>1. realToTemp[id] # NoTurn => tempToReal[realToTemp[id]] = id
      BY DEF MapsSound
    <3> QED
      BY <1>2, <2>1, <3>1
  <2> QED
    BY <1>1, <2>1, <2>2
<1>3. ASSUME NEW i \in SessionId, sessions'[i] # NoTurn
      PROVE  realToTemp'[i] = sessions'[i] /\ tempToReal'[sessions'[i]] = i
  <2>1. i # id /\ sessions'[i] = sessions[i] /\ realToTemp[i] = sessions[i]
    BY <1>3 DEF MapsSound
  <2> QED
    BY <1>2, <1>3, <2>1
<1>4. ASSUME NEW i \in SessionId, realToTemp'[i] # NoTurn
      PROVE  tempToReal'[realToTemp'[i]] = i
  BY <1>2, <1>4
<1> QED
  BY <1>3, <1>4 DEF MapsSound

LEMMA MapsLeft ==
    ASSUME MapsSound, \A i \in SessionId : sessions'[i] \in {NoTurn, sessions[i]},
           UNCHANGED <<tempToReal, realToTemp>>
    PROVE  MapsSound'
  BY DEF MapsSound

\* The maps when a pending session is entered under its real id.
LEMMA MapsEntered ==
    ASSUME TypeOK, MapsSound, NEW id \in SessionId, NEW n \in pending, tempToReal[n] = NoId,
           NewlyMapped(n, id),
           \A t \in Turn : \/ t = n /\ tempToReal'[t] = id
                           \/ t # n /\ tempToReal'[t] = tempToReal[t]
                           \/ t # n /\ t = realToTemp[id]
    PROVE  MapsSound'
<1>1. /\ sessions'[id] = n /\ realToTemp'[id] = n /\ n \in Turn
      /\ \A i \in SessionId \ {id} : sessions'[i] = sessions[i] /\ realToTemp'[i] = realToTemp[i]
  BY DEF NewlyMapped, TypeOK
<1>2. ASSUME NEW i \in SessionId \ {id}, realToTemp[i] # NoTurn
      PROVE  realToTemp[i] \in Turn /\ tempToReal'[realToTemp[i]] = i
  <2>1. realToTemp[i] \in Turn /\ tempToReal[realToTemp[i]] = i
    BY <1>2 DEF TypeOK, MapsSound
  <2>2. realToTemp[i] # realToTemp[id] /\ realToTemp[i] # n
    BY <2>1, TurnAssumption DEF MapsSound
  <2> QED
    BY <2>1, <2>2
<1>3. ASSUME NEW i \in SessionId, sessions'[i] # NoTurn
      PROVE  realToTemp'[i] = sessions'[i] /\ tempToReal'[sessions'[i]] = i
  <2>1. CASE i = id
    BY <1>1, <2>1
  <2>2. CASE i # id
    <3>1. sessions'[i] = sessions[i] /\ realToTemp[i] = sessions[i] /\ realToTemp[i] # NoTurn
      BY <1>1, <1>3, <2>2 DEF MapsSound
    <3> QED
      BY <1>1, <1>2, <2>2, <3>1
  <2> QED
    BY <2>1, <2>2
<1>4. ASSUME NEW i \in SessionId, realToTemp'[i] # NoTurn
      PROVE  tempToReal'[realToTemp'[i]] = i
  BY <1>1, <1>2, <1>4
<1> QED
  BY <1>3, <1>4 DEF MapsSound

LEMMA MapInit == Init => MapInv
  BY DEF Init, MapInv, MapsSound

\* What a turn's step does to the maps, whichever it is.
MapMoves(n) ==
    /\ MapsSound'
    /\ pending' \subseteq pending \cup {n}
    /\ \A m \in pending' : m \in Turn /\ tempToReal'[m] = NoId
    /\ \A m \in Turn \ {n} : tempToReal[m] = NoId => tempToReal'[m] = NoId
    /\ \A m \in Turn \ {n}, i \in SessionId :
          turn[m] = "dying" /\ sessions[i] = NoTurn => sessions'[i] = NoTurn
    /\ turn'[n] = "acquiring" => UNCHANGED pool
    /\ turn'[n] = "dying" /\ n \notin tempHeld' =>
          captured'[n] \in SessionId /\ sessions'[captured'[n]] = NoTurn

LEMMA CreateMaps ==
    ASSUME SessionInv, MapInv, NEW n \in Turn, turn[n] \in {"idle", "acquiring"},
           GetOrCreateSession(n)
    PROVE  MapMoves(n)
<1> USE DEF SessionInv
<1>1. turn'[n] = "waitingCli"
  BY DEF GetOrCreateSession, TypeOK
<1>2. CASE Reuse(n)
  BY <1>1, <1>2 DEF Reuse, pool, MapInv, MapsSound, MapMoves, TypeOK
<1>3. CASE Create(n) /\ Reusable(n) = NoTurn
  <2>1. sessions' = sessions /\ pending' = pending \cup {n} /\ tempToReal[n] = NoId
    BY <1>3 DEF Create, MapInv
  <2>2. /\ MapsSound'
        /\ \A m \in Turn : tempToReal[m] = NoId => tempToReal'[m] = NoId
    <3>1. CASE Resumed(n) = NoId
      <4>1. tempToReal' = tempToReal /\ \A i \in SessionId : realToTemp'[i] = realToTemp[i]
        BY <1>3, <3>1, TurnAssumption DEF Create
      <4> QED
        BY <2>1, <4>1 DEF MapInv, MapsSound
    <3>2. CASE Resumed(n) # NoId
      <4>1. Resumed(n) \in SessionId /\ sessions[Resumed(n)] = NoTurn
        BY <1>3, <3>2, TurnAssumption DEF Resumed, Reusable, TypeOK
      <4>2. /\ tempToReal' = WithoutId(Resumed(n))
            /\ \A i \in SessionId : realToTemp'[i] = IF i = Resumed(n) THEN NoTurn ELSE realToTemp[i]
        BY <1>3, <3>2 DEF Create
      <4>3. MapsSound'
        BY <2>1, <4>1, <4>2, MapsForgotten DEF MapInv
      <4> QED
        BY <4>2, <4>3 DEF WithoutId
    <3> QED
      BY <3>1, <3>2
  <2>3. \A m \in pending' : m \in Turn /\ tempToReal'[m] = NoId
    BY <2>1, <2>2 DEF MapInv, TypeOK
  <2> QED
    BY <1>1, <2>1, <2>2, <2>3 DEF MapMoves
<1> QED
  BY <1>2, <1>3 DEF GetOrCreateSession, Reuse, Create

LEMMA RemoveMaps ==
    ASSUME SessionInv, MapInv, NEW n \in Turn,
           \/ /\ UNCHANGED <<captured, tempHeld>>
              /\ \E rest : RemoveSession(n, rest)
           \/ SessionRemoved(n)
    PROVE  MapMoves(n)
<1> USE DEF SessionInv
<1> DEFINE id == captured[n]
<1>1. UNCHANGED <<captured, tempHeld>>
  BY DEF SessionRemoved, handles
<1>2. turn'[n] # "acquiring"
  BY DEF RemoveSession, SessionRemoved, TypeOK
<1>3. \/ UNCHANGED pool /\ turn'[n] = "done"
      \/ /\ n \in tempHeld /\ pending' = pending \ {n}
         /\ UNCHANGED <<sessions, tempToReal, realToTemp>>
      \/ /\ n \notin tempHeld /\ id \in SessionId /\ turn'[n] = "dying"
         /\ sessions' = [sessions EXCEPT ![id] = NoTurn]
         /\ UNCHANGED <<pending, tempToReal, realToTemp>>
      \/ /\ n \notin tempHeld /\ id \in SessionId /\ turn'[n] = "done"
         /\ \/ sessions' = [sessions EXCEPT ![id] = NoTurn]
            \/ sessions' = sessions /\ sessions[id] = NoTurn
         /\ pending' = pending /\ Forgotten(id)
  <2>1. ASSUME NEW rest, RemoveSession(n, rest), Removable(n) = NoTurn
        PROVE  UNCHANGED pool /\ turn'[n] = "done"
    BY <2>1 DEF RemoveSession, TypeOK
  <2>2. ASSUME NEW rest, RemoveSession(n, rest), Removable(n) # NoTurn, n \in tempHeld
        PROVE  pending' = pending \ {n} /\ UNCHANGED <<sessions, tempToReal, realToTemp>>
    BY <2>2 DEF RemoveSession, Popped, SessionForgotten
  <2>3. ASSUME NEW rest, RemoveSession(n, rest), Removable(n) # NoTurn, n \notin tempHeld
        PROVE  /\ id \in SessionId /\ sessions' = [sessions EXCEPT ![id] = NoTurn]
               /\ pending' = pending
               /\ \/ turn'[n] = "dying" /\ UNCHANGED <<tempToReal, realToTemp>>
                  \/ turn'[n] = "done" /\ Forgotten(id)
    <3>1. id \in SessionId
      BY <2>3 DEF Removable, TypeOK
    <3>2. sessions' = [sessions EXCEPT ![id] = NoTurn] /\ pending' = pending
      BY <2>3 DEF RemoveSession, Popped
    <3>3. \/ turn' = [turn EXCEPT ![n] = "dying"] /\ UNCHANGED <<tempToReal, realToTemp>>
          \/ turn' = [turn EXCEPT ![n] = "done"] /\ SessionForgotten(n)
      BY <2>3 DEF RemoveSession
    <3> QED
      BY <2>3, <3>1, <3>2, <3>3 DEF SessionForgotten, TypeOK
  <2>4. ASSUME SessionRemoved(n)
        PROVE  /\ turn[n] = "dying" /\ turn'[n] = "done" /\ UNCHANGED <<sessions, pending>>
               /\ \/ n \in tempHeld /\ UNCHANGED <<tempToReal, realToTemp>>
                  \/ n \notin tempHeld /\ Forgotten(id)
    BY <2>4 DEF SessionRemoved, SessionForgotten, TypeOK
  <2>5. ASSUME turn[n] = "dying", n \notin tempHeld
        PROVE  id \in SessionId /\ sessions[id] = NoTurn
    BY <2>5 DEF MapInv
  <2>6. CASE \E rest : RemoveSession(n, rest)
    BY <2>1, <2>2, <2>3, <2>6
  <2>7. CASE SessionRemoved(n)
    BY <2>4, <2>5, <2>7 DEF pool
  <2> QED
    BY <2>6, <2>7
<1> HIDE DEF id
<1>4. \A i \in SessionId : sessions'[i] \in {NoTurn, sessions[i]}
  BY <1>3 DEF pool, TypeOK
<1>5. pending' \subseteq pending
  BY <1>3 DEF pool
<1>6. \A m \in Turn : tempToReal[m] = NoId => tempToReal'[m] = NoId
  BY <1>3 DEF pool, Forgotten, WithoutId
<1>7. MapsSound'
  <2>1. CASE UNCHANGED <<tempToReal, realToTemp>>
    BY <1>4, <2>1, MapsLeft DEF MapInv
  <2>2. CASE /\ id \in SessionId /\ Forgotten(id)
             /\ \/ sessions' = [sessions EXCEPT ![id] = NoTurn]
                \/ sessions' = sessions /\ sessions[id] = NoTurn
    <3>1. /\ sessions'[id] = NoTurn /\ tempToReal' = WithoutId(id)
          /\ \A i \in SessionId : realToTemp'[i] = IF i = id THEN NoTurn ELSE realToTemp[i]
      BY <2>2 DEF Forgotten, TypeOK
    <3> QED
      BY <1>4, <2>2, <3>1, MapsForgotten DEF MapInv
  <2> QED
    BY <1>3, <2>1, <2>2 DEF pool
<1>8. turn'[n] = "dying" /\ n \notin tempHeld' => captured'[n] \in SessionId /\ sessions'[captured'[n]] = NoTurn
  BY <1>1, <1>3 DEF id, TypeOK
<1>9. \A m \in pending' : m \in Turn /\ tempToReal'[m] = NoId
  BY <1>5, <1>6 DEF MapInv, TypeOK
<1> QED
  BY <1>2, <1>4, <1>5, <1>6, <1>7, <1>8, <1>9 DEF MapMoves

LEMMA RegisterMaps ==
    ASSUME SessionInv, MapInv, NEW n \in Turn, NEW id \in SessionId, Register(n, id),
           lockQueue = <<>> \/ Holds(n)
    PROVE  MapMoves(n)
<1> USE DEF SessionInv
<1>1. turn'[n] \notin {"acquiring", "dying"}
  BY DEF Register, Registered, TypeOK
<1>2. \A m \in Turn \ {n} : turn[m] # "dying"
  BY DEF LockInv, Holds
<1>3. CASE UNCHANGED pool
  BY <1>1, <1>3 DEF pool, MapInv, MapsSound, MapMoves, TypeOK
<1>4. CASE n \in pending /\ NewlyMapped(n, id)
  <2>1. tempToReal[n] = NoId
    BY <1>4 DEF MapInv
  <2>2. \A t \in Turn : \/ t = n /\ tempToReal'[t] = id
                        \/ t # n /\ tempToReal'[t] = tempToReal[t]
                        \/ t # n /\ t = realToTemp[id] /\ tempToReal'[t] = NoId
    <3>1. tempToReal' = [tempToReal EXCEPT ![n] = id] \/ tempToReal' = Remapped(n, id)
      BY <1>4 DEF Register
    <3> QED
      BY <3>1 DEF Remapped, WithoutId, TypeOK
  <2>3. MapsSound'
    BY <1>4, <2>1, <2>2, MapsEntered DEF MapInv
  <2>4. pending' = pending \ {n}
    BY <1>4 DEF NewlyMapped
  <2>5. \A m \in pending' : m \in Turn /\ tempToReal'[m] = NoId
    BY <2>2, <2>4 DEF MapInv, TypeOK
  <2> QED
    BY <1>1, <1>2, <2>2, <2>3, <2>4, <2>5 DEF MapMoves
<1> QED
  BY <1>3, <1>4 DEF Register

LEMMA TurnMaps ==
    ASSUME SessionInv, MapInv, NEW n \in Turn, TurnStep(n)
    PROVE  MapMoves(n)
<1>1. CASE UNCHANGED pool /\ turn'[n] # "dying"
  BY <1>1 DEF pool, MapInv, MapsSound, MapMoves, SessionInv, TypeOK
<1> QED
  BY <1>1, TurnPool, CreateMaps, RemoveMaps, RegisterMaps

LEMMA StopAllPool ==
    ASSUME StopAllStep
    PROVE  (PoolCleared /\ stopAll' = "idle") \/ UNCHANGED pool
  BY DEF StopAllStep, StopAllTasks, LockForStopAll, StopAllGoesOn, StopAllRuns

LEMMA MapStep ==
    ASSUME SessionInv, MapInv, [Next]_vars
    PROVE  MapInv'
<1>1. ASSUME NEW n \in Turn, TurnStep(n) PROVE MapInv'
  <2>1. MapMoves(n)
    BY <1>1, TurnMaps
  <2>2. \A m \in Turn \ {n} : /\ turn'[m] = turn[m] /\ captured'[m] = captured[m]
                              /\ m \in tempHeld' <=> m \in tempHeld
    BY <1>1, TurnKeepsOthers DEF SessionInv
  <2>3. turn'[n] # "idle" /\ (turn'[n] = "acquiring" => turn[n] \in {"idle", "acquiring"})
    BY <1>1, TurnGoesOn DEF SessionInv
  <2>4. \A m \in Turn : turn'[m] \in {"idle", "acquiring"} => tempToReal'[m] = NoId /\ m \notin pending'
    BY <2>1, <2>2, <2>3 DEF MapMoves, MapInv, pool
  <2>5. \A m \in Turn : turn'[m] = "dying" /\ m \notin tempHeld' =>
           captured'[m] \in SessionId /\ sessions'[captured'[m]] = NoTurn
    BY <2>1, <2>2 DEF MapMoves, MapInv
  <2> QED
    BY <2>1, <2>4, <2>5 DEF MapMoves, MapInv
<1>2. ASSUME UNCHANGED <<turn, handles, pool>> PROVE MapInv'
  BY <1>2 DEF MapInv, MapsSound, handles, pool
<1>3. ASSUME UNCHANGED <<turn, handles>>, PoolCleared PROVE MapInv'
  BY <1>3 DEF MapInv, MapsSound, handles, PoolCleared, SessionInv, TypeOK
<1>4. QuietStep \/ UNCHANGED vars => UNCHANGED pool
  BY DEF QuietStep, CloseGenerator, Dies, StopTurn, vars
<1> QED
  BY <1>1, <1>2, <1>3, <1>4, Steps, OthersKeepHandles, StopAllPool

\* An active session can be found by both its ids, for any number of turns and of
\* ids that the CLI reports, fresh or not.
THEOREM MapsSoundCorrect == Spec => []MapsSound
<1>1. Init => SessionInv /\ MapInv
  BY SessionInvInit, MapInit
<1>2. SessionInv /\ MapInv /\ [Next]_vars => (SessionInv /\ MapInv)'
  BY SessionInvStep, MapStep
<1>3. MapInv => MapsSound
  BY DEF MapInv
<1> QED
  BY <1>1, <1>2, <1>3, PTL DEF Spec

-----------------------------------------------------------------------------
(* What stop_all_tasks reaches.                                            *)

\* A turn whose tree was marked free is cancelled, or past the point where that
\* matters; nothing begins under a turn before that; and while stop_all is on,
\* only turns of such trees are under way, or wait behind it for the lock.
FreedInv ==
    /\ \A n \in freed : n \in cancelling \/ turn[n] \in {"killing"} \cup Over
    /\ \A n \in Turn : Parent[n] # NoTurn /\ turn[n] # "idle" =>
          turn[Parent[n]] = "done" \/ Parent[n] \in freed
    /\ stopAll # "idle" => \A n \in Turn : \/ turn[n] \in {"idle", "done"} \/ n \in freed
                                           \/ turn[n] = "acquiring" /\ Ahead(lockQueue, StopAll, n)

LEMMA FreedInit == Init => FreedInv
  BY DEF Init, FreedInv

LEMMA TurnCancels ==
    ASSUME TypeOK, NEW n \in Turn, TurnStep(n)
    PROVE  /\ turn[n] # "done"
           /\ \/ n \in cancelling' \/ turn'[n] \in {"killing"} \cup Over
              \/ n \notin cancelling /\ turn[n] \notin {"killing"} \cup Over
<1>1. ASSUME NEW q, Leave(n, q) PROVE turn'[n] \in Over
  BY <1>1, LeaveMoves DEF Over, TypeOK
<1>2. CASE Begin(n) \/ Acquire(n) \/ Launch(n) \/ SessionInfo(n) \/ LockForRegister(n) \/ OldStopped(n)
  BY <1>2 DEF Begin, Acquire, Launch, SessionInfo, LockForRegister, OldStopped, Over
<1>3. CASE LaunchFails(n) \/ StreamEnds(n) \/ Killed(n) \/ CancelledAtCli(n) \/ CancelledRegistering(n)
  BY <1>1, <1>3 DEF LaunchFails, StreamEnds, Killed, CancelledAtCli, CancelledRegistering
<1>4. CASE IdleTimeout(n) \/ CancelledReading(n)
  BY <1>4 DEF IdleTimeout, CancelledReading, TypeOK
<1>5. CASE LockForRemove(n)
  BY <1>5, RemoveMoves DEF LockForRemove, Over, TypeOK
<1>6. CASE SessionRemoved(n) \/ CancelledAtLock(n) \/ CancelledDying(n)
  BY <1>6 DEF SessionRemoved, CancelledAtLock, CancelledDying, Over, TypeOK
<1> QED
  BY <1>2, <1>3, <1>4, <1>5, <1>6 DEF TurnStep

LEMMA FreedStep ==
    ASSUME SessionInv, FreedInv, [Next]_vars
    PROVE  FreedInv'
<1> USE DEF SessionInv
<1>0. TypeOK' /\ StopAll \notin Turn
  BY SessionInvStep, TurnAssumption
<1>1. ASSUME NEW n \in Turn, TurnStep(n) PROVE FreedInv'
  <2>1. \A m \in Turn \ {n} : turn'[m] = turn[m] /\ (m \in cancelling' <=> m \in cancelling)
    BY <1>1, TurnKeepsOthers
  <2>2. freed' = freed /\ stopAll' = stopAll
    BY <1>1, TurnKeepsStopAll DEF stopState
  <2>3. /\ turn[n] # "done" /\ turn'[n] # "idle"
        /\ \/ n \in cancelling' \/ turn'[n] \in {"killing"} \cup Over
           \/ n \notin cancelling /\ turn[n] \notin {"killing"} \cup Over
    BY <1>1, TurnCancels, TurnGoesOn
  <2>4. Moves(n)
    BY <1>1, TurnMoves
  <2>5. \A m \in freed' : m \in cancelling' \/ turn'[m] \in {"killing"} \cup Over
    BY <2>1, <2>2, <2>3 DEF FreedInv, TypeOK
  <2>6. turn[n] = "idle" => /\ Parent[n] # NoTurn => turn[Parent[n]] = "done" \/ Parent[n] \in freed
                            /\ lockQueue # <<>> => turn'[n] = "acquiring"
    BY <1>1 DEF TurnStep, Begin, Acquire, LockForRemove, SessionRemoved, Launch, LaunchFails,
                StreamEnds, IdleTimeout, Killed, SessionInfo, LockForRegister, OldStopped,
                CancelledAtLock, CancelledAtCli, CancelledReading, CancelledRegistering,
                CancelledDying, TypeOK
  <2>7. ASSUME NEW m \in Turn, Parent[m] # NoTurn, turn'[m] # "idle"
        PROVE  turn'[Parent[m]] = "done" \/ Parent[m] \in freed'
    <3>1. Parent[m] \in Turn
      BY <2>7, TurnAssumption
    <3>2. turn[Parent[m]] = "done" \/ Parent[m] \in freed
      BY <2>1, <2>6, <2>7 DEF FreedInv
    <3> QED
      BY <2>1, <2>2, <2>3, <3>1, <3>2
  <2>8. turn[n] = "acquiring" => Holds(n) \/ turn'[n] = "done"
    BY <1>1 DEF TurnStep, Begin, Acquire, LockForRemove, SessionRemoved, Launch, LaunchFails,
                StreamEnds, IdleTimeout, Killed, SessionInfo, LockForRegister, OldStopped,
                CancelledAtLock, CancelledAtCli, CancelledReading, CancelledRegistering,
                CancelledDying, TypeOK
  <2>9. ASSUME stopAll' # "idle", NEW m \in Turn
        PROVE  \/ turn'[m] \in {"idle", "done"} \/ m \in freed'
               \/ turn'[m] = "acquiring" /\ Ahead(lockQueue', StopAll, m)
    <3>0. In(lockQueue, StopAll) /\ lockQueue \in Seq(Caller) /\ Distinct(lockQueue)
      BY <2>2, <2>9 DEF LockInv, TypeOK
    <3>1. \/ turn[m] \in {"idle", "done"} \/ m \in freed
          \/ turn[m] = "acquiring" /\ Ahead(lockQueue, StopAll, m)
      BY <2>2, <2>9 DEF FreedInv
    <3>2. CASE m # n
      <4>1. Ahead(lockQueue, StopAll, m) => Ahead(lockQueue', StopAll, m)
        BY <1>0, <2>4, <3>2, Phases DEF Moves, MovesIn
      <4> QED
        BY <2>1, <2>2, <3>1, <3>2, <4>1
    <3>3. CASE m = n /\ turn[n] = "idle"
      <4>1. lockQueue # <<>>
        BY <3>0 DEF In
      <4>2. turn'[n] = "acquiring" /\ Ahead(lockQueue', StopAll, n)
        BY <1>0, <2>4, <2>6, <3>0, <3>3, <4>1, Phases DEF Moves, MovesIn
      <4> QED
        BY <3>3, <4>2
    <3>4. CASE m = n /\ turn[n] = "acquiring" /\ Ahead(lockQueue, StopAll, n)
      <4>1. Holds(n) => lockQueue # <<>> /\ Head(lockQueue) = n
        BY DEF Holds
      <4>2. lockQueue # <<>> => ~Ahead(lockQueue, StopAll, Head(lockQueue))
        BY <3>0, QueueTail
      <4>3. ~Holds(n)
        BY <3>4, <4>1, <4>2
      <4> QED
        BY <2>8, <3>4, <4>3
    <3> QED
      BY <2>2, <2>3, <3>1, <3>2, <3>3, <3>4
  <2> QED
    BY <2>5, <2>7, <2>9 DEF FreedInv
<1>2. ASSUME UNCHANGED <<turn, freed, lockQueue, stopAll>>, cancelling \subseteq cancelling'
      PROVE  FreedInv'
  BY <1>2 DEF FreedInv
<1>3. QuietStep \/ UNCHANGED vars => /\ UNCHANGED <<turn, freed, lockQueue, stopAll>>
                                      /\ cancelling \subseteq cancelling'
  BY DEF QuietStep, CloseGenerator, Dies, StopTurn, stopState, vars, control
<1>4. CASE StopAllTasks
  <2>1. /\ turn' = turn /\ cancelling' = cancelling \cup {n \in Turn : Current(n)}
        /\ freed' = freed \cup {n \in Turn : Live(n)}
    BY <1>4 DEF StopAllTasks
  <2>2. ASSUME NEW n \in freed'
        PROVE  n \in cancelling' \/ turn'[n] \in {"killing"} \cup Over
    <3>1. CASE n \in freed
      BY <2>1, <3>1 DEF FreedInv
    <3>2. CASE n \in Turn /\ Live(n) /\ n \notin freed
      <4>1. Current(n)
        BY <3>2, TurnAssumption DEF Current, Live, FreedInv
      <4> QED
        BY <2>1, <3>2, <4>1
    <3> QED
      BY <2>1, <2>2, <3>1, <3>2
  <2>3. \A n \in Turn : turn'[n] \in {"idle", "done"} \/ n \in freed'
    BY <2>1 DEF Live
  <2> QED
    BY <2>1, <2>2, <2>3 DEF FreedInv
<1>5. CASE LockForStopAll \/ StopAllGoesOn
  <2>1. UNCHANGED <<turn, freed, cancelling>> /\ stopAll # "idle"
    BY <1>5 DEF LockForStopAll, StopAllGoesOn
  <2>2. stopAll' = "idle" \/ lockQueue' = lockQueue
    <3>1. Holds(StopAll) /\ StopAll \in Caller
      BY <1>5, Phases DEF LockForStopAll, StopAllGoesOn, LockInv
    <3> QED
      BY <1>5, <3>1, LockReleased DEF LockForStopAll, StopAllGoesOn, StopAllRuns
  <2> QED
    BY <2>1, <2>2 DEF FreedInv
<1> QED
  BY <1>1, <1>2, <1>3, <1>4, <1>5, Steps DEF StopAllStep

\* A turn with its temporary id created its session, which stays pending until
\* its id is registered, unless the turn is cancelled.  A process that nobody has
\* told to stop has a turn that reads from it, or is in the pool; while stop_all
\* waits for another process, it is one of those it has still to stop.
ReachInv ==
    /\ \A n \in tempHeld :
          /\ session[n] = n /\ turn[n] \notin {"idle", "acquiring"}
          /\ turn[n] \in {"waitingCli", "running", "registering"} => n \in pending \/ n \in cancelling
    /\ \A n \in alive \ signalled : turn[n] = "running" \/ session[n] \in AllSessions
    /\ stopAll = "stopping" =>
          \A n \in alive \ signalled : turn[n] = "running" \/ session[n] \in toStop

LEMMA ReachInit == Init => ReachInv
  BY DEF Init, ReachInv

\* The effect of a turn's step on the processes.
LEMMA TurnProcesses ==
    ASSUME SessionInv, NEW n \in Turn, TurnStep(n)
    PROVE  /\ signalled \subseteq signalled'
           /\ \A m \in alive' : m \in alive \/ (m = n /\ turn'[n] = "running")
<1> USE DEF SessionInv
<1>1. ASSUME NEW rest, RemoveSession(n, rest) PROVE signalled \subseteq signalled'
  BY <1>1 DEF RemoveSession, Stops
<1>2. ASSUME NEW q, Leave(n, q) PROVE signalled \subseteq signalled'
  BY <1>1, <1>2 DEF Leave
<1>3. ASSUME NEW id, Register(n, id) PROVE signalled \subseteq signalled'
  BY <1>3 DEF Register, Stops
<1>4. CASE Begin(n) \/ Acquire(n) \/ SessionRemoved(n) \/ OldStopped(n) \/ CancelledAtLock(n) \/ CancelledDying(n)
  BY <1>4 DEF Begin, Acquire, SessionRemoved, OldStopped, CancelledAtLock, CancelledDying, processes
<1>5. CASE Launch(n)
  BY <1>5 DEF Launch, TypeOK
<1>6. CASE LockForRemove(n)
  BY <1>1, <1>6 DEF LockForRemove
<1>7. CASE LaunchFails(n) \/ StreamEnds(n) \/ Killed(n) \/ CancelledAtCli(n) \/ CancelledRegistering(n)
  BY <1>2, <1>7 DEF LaunchFails, StreamEnds, Killed, CancelledAtCli, CancelledRegistering
<1>8. CASE SessionInfo(n) \/ LockForRegister(n)
  BY <1>3, <1>8 DEF SessionInfo, LockForRegister
<1>9. CASE IdleTimeout(n) \/ CancelledReading(n)
  BY <1>9 DEF IdleTimeout, CancelledReading, Stops
<1> QED
  BY <1>4, <1>5, <1>6, <1>7, <1>8, <1>9 DEF TurnStep

LEMMA TurnKeepsPending ==
    ASSUME SessionInv, NEW n \in Turn, TurnStep(n)
    PROVE  pending \ {n} \subseteq pending'
<1>1. CASE UNCHANGED pool
  BY <1>1 DEF pool
<1>2. CASE GetOrCreateSession(n)
  BY <1>2 DEF GetOrCreateSession, Reuse, Create, pool
<1>3. ASSUME NEW rest, RemoveSession(n, rest) PROVE pending \ {n} \subseteq pending'
  BY <1>3 DEF RemoveSession, Popped, pool
<1>4. CASE SessionRemoved(n)
  BY <1>4 DEF SessionRemoved
<1>5. ASSUME NEW id, Register(n, id) PROVE pending \ {n} \subseteq pending'
  BY <1>5 DEF Register, NewlyMapped, pool
<1> QED
  BY <1>1, <1>2, <1>3, <1>4, <1>5, TurnPool

\* A session leaves the pool with its process told to stop, if one runs.
LEMMA TurnKeepsReach ==
    ASSUME SessionInv, NEW n \in Turn, TurnStep(n), NEW m \in alive, m \notin signalled',
           session[m] \in AllSessions
    PROVE  session[m] \in AllSessions'
<1> USE DEF SessionInv
<1> DEFINE s == session[m]
<1> SUFFICES s \in AllSessions'
  OBVIOUS
<1>1. s \in Turn /\ process[s] = m /\ StopNeeded(s)
  BY DEF CliInv, StopNeeded
<1>2. s \in pending \/ \E i \in SessionId : sessions[i] = s
  BY DEF AllSessions
<1> HIDE DEF s
<1>3. s \in pending' \/ (\E i \in SessionId : sessions'[i] = s) => s \in AllSessions'
  BY <1>1, TurnAssumption DEF AllSessions
<1>4. ASSUME NEW c, Stops(c, s) PROVE FALSE
  BY <1>1, <1>4 DEF Stops
<1>5. CASE UNCHANGED pool
  BY <1>2, <1>3, <1>5 DEF pool
<1>6. CASE GetOrCreateSession(n)
  BY <1>2, <1>3, <1>6 DEF GetOrCreateSession, Reuse, Create, pool
<1>7. ASSUME NEW rest, RemoveSession(n, rest) PROVE s \in AllSessions'
  <2>1. CASE Removable(n) = NoTurn
    BY <1>2, <1>3, <1>7, <2>1 DEF RemoveSession, pool
  <2>2. CASE Removable(n) # NoTurn
    <3>1. Removable(n) # s
      BY <1>1, <1>4, <1>7, <2>2 DEF RemoveSession, MustStop
    <3>2. CASE n \in tempHeld /\ pending' = pending \ {n} /\ UNCHANGED sessions
      <4>1. s # n
        BY <2>2, <3>1, <3>2 DEF Removable
      <4> QED
        BY <1>2, <1>3, <3>2, <4>1
    <3>3. CASE n \notin tempHeld /\ sessions' = [sessions EXCEPT ![captured[n]] = NoTurn] /\ UNCHANGED pending
      <4>1. captured[n] \in SessionId /\ sessions[captured[n]] # s
        BY <2>2, <3>1, <3>3 DEF Removable, TypeOK
      <4>2. \A i \in SessionId : sessions[i] = s => sessions'[i] = s
        BY <3>3, <4>1 DEF TypeOK
      <4> QED
        BY <1>2, <1>3, <3>3, <4>2
    <3> QED
      BY <1>7, <2>2, <3>2, <3>3 DEF RemoveSession, Popped
  <2> QED
    BY <2>1, <2>2
<1>8. CASE SessionRemoved(n)
  BY <1>2, <1>3, <1>8 DEF SessionRemoved
<1>9. ASSUME NEW id \in SessionId, Register(n, id) PROVE s \in AllSessions'
  <2>1. CASE n \in pending /\ NewlyMapped(n, id)
    <3>1. sessions'[id] = n /\ pending' = pending \ {n}
      BY <2>1 DEF NewlyMapped, TypeOK
    <3>2. sessions[id] # s
      BY <1>1, <1>4, <1>9, <2>1, TurnAssumption DEF Register
    <3>3. \A i \in SessionId : sessions[i] = s => sessions'[i] = s
      BY <2>1, <3>2 DEF NewlyMapped, TypeOK
    <3> QED
      BY <1>2, <1>3, <3>1, <3>3
  <2> QED
    BY <1>2, <1>3, <1>9, <2>1 DEF Register, pool
<1> QED
  BY <1>5, <1>6, <1>7, <1>8, <1>9, TurnPool

\* A turn stops to read from a process that runs: it has told it to stop, or its
\* session is in the pool, to be registered.
LEMMA TurnStopsReading ==
    ASSUME SessionInv, ReachInv, NEW n \in Turn, TurnStep(n), turn[n] = "running",
           turn'[n] # "running", n \in alive
    PROVE  \/ n \in signalled'
           \/ n \notin cancelling /\ session[n] \in AllSessions'
<1> USE DEF SessionInv
<1>1. process[session[n]] = n /\ session[n] \in Turn
  BY DEF CliInv
<1>2. CASE IdleTimeout(n) \/ CancelledReading(n)
  BY <1>1, <1>2 DEF IdleTimeout, CancelledReading, Stops, StopNeeded
<1>3. CASE SessionInfo(n)
  <2>1. n \in pending /\ session[n] = n /\ n \notin cancelling
    BY <1>3 DEF SessionInfo, ReachInv
  <2>2. Reportable \subseteq SessionId
    BY <1>3, FreshId DEF SessionInfo, ReportInv
  <2>3. CASE UNCHANGED pool
    BY <2>1, <2>3 DEF AllSessions, pool
  <2>4. ASSUME NEW id \in SessionId, Register(n, id) PROVE n \in AllSessions'
    <3>1. NewlyMapped(n, id)
      BY <2>1, <2>4 DEF Register
    <3>2. sessions'[id] = n /\ n # NoTurn
      BY <3>1, TurnAssumption DEF NewlyMapped, TypeOK
    <3> QED
      BY <3>2 DEF AllSessions
  <2> QED
    BY <1>3, <2>1, <2>2, <2>3, <2>4 DEF SessionInfo
<1>4. CASE StreamEnds(n)
  BY <1>4 DEF StreamEnds
<1> QED
  BY <1>2, <1>3, <1>4
     DEF TurnStep, Begin, Acquire, LockForRemove, SessionRemoved, Launch, LaunchFails, Killed,
         LockForRegister, OldStopped, CancelledAtLock, CancelledAtCli, CancelledRegistering,
         CancelledDying

\* A turn that still has its temporary id.
LEMMA TurnHoldsTemp ==
    ASSUME SessionInv, ReachInv, NEW n \in Turn, TurnStep(n), n \in tempHeld'
    PROVE  /\ session'[n] = n /\ turn'[n] \notin {"idle", "acquiring"}
           /\ turn'[n] \in {"waitingCli", "running", "registering"} =>
                 n \in pending' \/ n \in cancelling'
<1> USE DEF SessionInv
<1>1. turn[n] \in {"idle", "acquiring"} => n \notin tempHeld
  BY DEF ReachInv
<1>2. CASE GetOrCreateSession(n) /\ turn[n] \in {"idle", "acquiring"}
  BY <1>1, <1>2 DEF GetOrCreateSession, Reuse, Create, TypeOK
<1>3. CASE Begin(n) /\ UNCHANGED handles
  BY <1>1, <1>3 DEF Begin, handles
<1>4. ASSUME n \in tempHeld, session' = session, turn'[n] \notin {"idle", "acquiring"},
             \/ turn'[n] \notin {"waitingCli", "running", "registering"}
             \/ /\ turn[n] \in {"waitingCli", "running", "registering"}
                /\ UNCHANGED <<pool, cancelling>>
      PROVE  /\ session'[n] = n /\ turn'[n] \notin {"idle", "acquiring"}
             /\ turn'[n] \in {"waitingCli", "running", "registering"} =>
                   n \in pending' \/ n \in cancelling'
  BY <1>4 DEF ReachInv, pool
<1>5. CASE Launch(n)
  BY <1>4, <1>5 DEF Launch, handles, TypeOK
<1>6. ASSUME NEW q, Leave(n, q) PROVE turn'[n] \notin {"idle", "acquiring", "waitingCli", "running", "registering"}
  BY <1>6, LeaveMoves DEF TypeOK
<1>7. CASE LaunchFails(n) \/ StreamEnds(n) \/ Killed(n) \/ CancelledAtCli(n) \/ CancelledRegistering(n)
  BY <1>4, <1>6, <1>7 DEF LaunchFails, StreamEnds, Killed, CancelledAtCli, CancelledRegistering, handles
<1>8. CASE LockForRemove(n)
  BY <1>4, <1>8, RemoveMoves DEF LockForRemove, handles, TypeOK
<1>9. CASE SessionRemoved(n) \/ IdleTimeout(n) \/ CancelledAtLock(n) \/ CancelledReading(n) \/ CancelledDying(n)
  BY <1>4, <1>9 DEF SessionRemoved, IdleTimeout, CancelledAtLock, CancelledReading, CancelledDying, handles, TypeOK
<1>10. ASSUME NEW id, \/ Registered(n, id)
                      \/ Register(n, id) /\ n \in tempHeld
       PROVE  turn'[n] = "stoppingOld" /\ UNCHANGED tempHeld
  BY <1>10 DEF Register, Registered, TypeOK
<1>11. CASE SessionInfo(n)
  <2>1. n \in tempHeld /\ session' = session /\ turn[n] = "running" /\ cancelling' = cancelling
    BY <1>11 DEF SessionInfo
  <2>2. CASE \E id : Register(n, id)
    BY <1>4, <1>10, <2>1, <2>2
  <2>3. CASE turn' = [turn EXCEPT ![n] = "registering"] /\ UNCHANGED pool
    BY <1>4, <2>1, <2>3 DEF TypeOK
  <2> QED
    BY <1>11, <2>2, <2>3 DEF SessionInfo
<1>12. CASE LockForRegister(n)
  BY <1>4, <1>10, <1>12 DEF LockForRegister, ReportInv
<1>13. CASE OldStopped(n)
  BY <1>4, <1>10, <1>13 DEF OldStopped
<1> QED
  BY <1>2, <1>3, <1>5, <1>7, <1>8, <1>9, <1>11, <1>12, <1>13 DEF TurnStep, Begin, Acquire

LEMMA StopAllReaches ==
    ASSUME SessionInv, NEW todo, NEW rest, StopAllRuns(todo, rest),
           \A m \in alive \ signalled : turn[m] = "running" \/ session[m] \in todo
    PROVE  /\ signalled \subseteq signalled'
           /\ \/ /\ PoolCleared /\ stopAll' = "idle"
                 /\ \A m \in alive \ signalled : turn[m] = "running"
              \/ /\ UNCHANGED pool /\ stopAll' = "stopping"
                 /\ \A m \in alive \ signalled' : turn[m] = "running" \/ session[m] \in toStop'
<1> DEFINE running == {s \in todo : StopNeeded(s)}
<1>1. \A m \in alive : process[session[m]] = m /\ StopNeeded(session[m])
  BY DEF SessionInv, CliInv, StopNeeded
<1>2. CASE running = {} /\ stopAll' = "idle" /\ PoolCleared /\ UNCHANGED <<waitFor, signalled>>
  <2>1. \A m \in alive : session[m] \notin todo
    BY <1>1, <1>2
  <2> QED
    BY <1>2, <2>1
<1>3. ASSUME NEW s \in running, NEW passed \in SUBSET (todo \ running),
             toStop' = todo \ (passed \cup {s}), Stops(StopAll, s), stopAll' = "stopping",
             UNCHANGED pool
      PROVE  /\ signalled \subseteq signalled'
             /\ \A m \in alive \ signalled' : turn[m] = "running" \/ session[m] \in toStop'
  <2>1. signalled' = signalled \cup {process[s]}
    BY <1>3 DEF Stops
  <2>2. ASSUME NEW m \in alive \ signalled', turn[m] # "running" PROVE session[m] \in toStop'
    <3>1. session[m] \in todo /\ session[m] # s
      BY <1>1, <2>1, <2>2
    <3>2. session[m] \in running
      BY <1>1, <3>1
    <3> QED
      BY <1>3, <3>1, <3>2
  <2> QED
    BY <2>1, <2>2
<1> QED
  BY <1>2, <1>3 DEF StopAllRuns

LEMMA ReachStep ==
    ASSUME SessionInv, FreedInv, ReachInv, [Next]_vars
    PROVE  ReachInv'
<1> USE DEF SessionInv
<1>0. SessionInv' /\ FreedInv'
  BY SessionInvStep, FreedStep
<1>1. ASSUME NEW n \in Turn, TurnStep(n) PROVE ReachInv'
  <2>1. \A m \in Turn \ {n} : /\ turn'[m] = turn[m] /\ session'[m] = session[m]
                              /\ m \in tempHeld' <=> m \in tempHeld
                              /\ m \in cancelling' <=> m \in cancelling
    BY <1>1, TurnKeepsOthers
  <2>2. stopAll' = stopAll /\ toStop' = toStop
    BY <1>1, TurnKeepsStopAll DEF stopState
  <2>3. ASSUME NEW m \in tempHeld'
        PROVE  /\ session'[m] = m /\ turn'[m] \notin {"idle", "acquiring"}
               /\ turn'[m] \in {"waitingCli", "running", "registering"} =>
                     m \in pending' \/ m \in cancelling'
    <3>1. m \in Turn
      BY <1>0 DEF TypeOK
    <3>2. CASE m = n
      BY <1>1, <3>2, TurnHoldsTemp
    <3>3. CASE m # n
      BY <1>1, <2>1, <3>1, <3>3, TurnKeepsPending DEF ReachInv
    <3> QED
      BY <3>2, <3>3
  <2>4. ASSUME NEW m \in alive' \ signalled', turn'[m] # "running"
        PROVE  /\ m \in alive \ signalled
               /\ session'[m] = session[m]
               /\ turn[m] = "running" => m = n
    <3>1. m \in Turn /\ m \in alive /\ m \notin signalled
      BY <1>0, <1>1, <2>4, TurnProcesses DEF TypeOK
    <3>2. turn[m] \notin {"idle", "acquiring"}
      BY <3>1 DEF CliInv
    <3>3. session'[m] = session[m]
      <4>1. CASE m = n
        BY <1>1, <3>2, <4>1
           DEF TurnStep, Begin, Acquire, LockForRemove, SessionRemoved, Launch, LaunchFails,
               StreamEnds, IdleTimeout, Killed, SessionInfo, LockForRegister, OldStopped,
               CancelledAtLock, CancelledAtCli, CancelledReading, CancelledRegistering,
               CancelledDying, handles
      <4> QED
        BY <2>1, <3>1, <4>1
    <3> QED
      BY <2>1, <2>4, <3>1, <3>3
  <2>5. ASSUME NEW m \in alive' \ signalled', turn'[m] # "running"
        PROVE  session'[m] \in AllSessions'
    <3>1. CASE turn[m] = "running"
      BY <1>1, <2>4, <2>5, <3>1, TurnStopsReading
    <3>2. CASE turn[m] # "running"
      BY <1>1, <2>4, <2>5, <3>2, TurnKeepsReach DEF ReachInv
    <3> QED
      BY <3>1, <3>2
  <2>6. ASSUME stopAll' = "stopping", NEW m \in alive' \ signalled', turn'[m] # "running"
        PROVE  session'[m] \in toStop'
    <3>1. CASE turn[m] = "running"
      <4>1. n \notin cancelling /\ m = n
        BY <1>1, <2>4, <2>6, <3>1, TurnStopsReading
      <4>2. n \in freed
        BY <2>2, <2>6, <3>1, <4>1 DEF FreedInv
      <4> QED
        BY <3>1, <4>1, <4>2 DEF FreedInv, Over
    <3>2. CASE turn[m] # "running"
      BY <2>2, <2>4, <2>6, <3>2 DEF ReachInv
    <3> QED
      BY <3>1, <3>2
  <2> QED
    BY <2>3, <2>5, <2>6 DEF ReachInv
<1>2. ASSUME UNCHANGED <<turn, handles, pool, toStop, stopAll>>, cancelling \subseteq cancelling',
             alive' \ signalled' \subseteq alive \ signalled
      PROVE  ReachInv'
  BY <1>2 DEF ReachInv, AllSessions, handles, pool
<1>3. CASE UNCHANGED vars
  BY <1>2, <1>3 DEF vars, control, stopState, processes
<1>4. ASSUME NEW n \in Turn, CloseGenerator(n) \/ Dies(n) \/ StopTurn(n) PROVE ReachInv'
  BY <1>2, <1>4 DEF CloseGenerator, Dies, StopTurn, control, stopState, processes
<1>5. CASE StopAllStep
  <2>1. UNCHANGED <<turn, handles, process, alive>> /\ cancelling \subseteq cancelling'
    BY <1>5 DEF StopAllStep, StopAllTasks, LockForStopAll, StopAllGoesOn
  <2>2. CASE UNCHANGED <<pool, signalled, toStop>> /\ stopAll' = "waiting"
    BY <2>1, <2>2 DEF ReachInv, AllSessions, handles, pool
  <2>3. ASSUME NEW todo, NEW rest, StopAllRuns(todo, rest),
               \A m \in alive \ signalled : turn[m] = "running" \/ session[m] \in todo
        PROVE  ReachInv'
    <3>1. signalled \subseteq signalled'
      BY <2>3, StopAllReaches
    <3>2. CASE /\ PoolCleared /\ stopAll' = "idle"
               /\ \A m \in alive \ signalled : turn[m] = "running"
      <4>1. ASSUME NEW n \in tempHeld, turn[n] \in {"waitingCli", "running", "registering"}
            PROVE  n \in cancelling'
        <5>1. n \in Turn
          BY DEF TypeOK
        <5>2. n \in freed'
          <6>1. CASE StopAllTasks
            BY <4>1, <5>1, <6>1 DEF StopAllTasks, Live
          <6>2. CASE LockForStopAll \/ StopAllGoesOn
            BY <4>1, <5>1, <6>2 DEF LockForStopAll, StopAllGoesOn, FreedInv
          <6> QED
            BY <1>5, <6>1, <6>2 DEF StopAllStep
        <5>3. turn'[n] \notin {"killing"} \cup Over
          BY <2>1, <4>1 DEF Over
        <5> QED
          BY <1>0, <5>2, <5>3 DEF FreedInv
      <4>2. \A n \in tempHeld' : /\ session'[n] = n /\ turn'[n] \notin {"idle", "acquiring"}
                                 /\ turn'[n] \in {"waitingCli", "running", "registering"} =>
                                       n \in pending' \/ n \in cancelling'
        BY <2>1, <4>1 DEF ReachInv, handles
      <4> QED
        BY <2>1, <3>1, <3>2, <4>2 DEF ReachInv
    <3>3. CASE /\ UNCHANGED pool /\ stopAll' = "stopping"
               /\ \A m \in alive \ signalled' : turn[m] = "running" \/ session[m] \in toStop'
      BY <2>1, <3>1, <3>3 DEF ReachInv, AllSessions, handles, pool
    <3> QED
      BY <2>3, <3>2, <3>3, StopAllReaches
  <2>4. CASE StopAllTasks
    BY <2>2, <2>3, <2>4 DEF StopAllTasks, ReachInv
  <2>5. CASE LockForStopAll
    BY <2>3, <2>5 DEF LockForStopAll, ReachInv
  <2>6. CASE StopAllGoesOn
    BY <2>3, <2>6 DEF StopAllGoesOn, ReachInv
  <2> QED
    BY <1>5, <2>4, <2>5, <2>6 DEF StopAllStep
<1> QED
  BY <1>1, <1>3, <1>4, <1>5, Steps DEF QuietStep

\* stop_all_tasks can reach every process that nobody has told to stop, in
\* whatever order turns register, time out and leave, and however often it is called.
THEOREM StopReachesAllCorrect == Spec => []StopReachesAll
<1>1. Init => SessionInv /\ FreedInv /\ ReachInv
  BY SessionInvInit, FreedInit, ReachInit
<1>2. SessionInv /\ FreedInv /\ ReachInv /\ [Next]_vars => (SessionInv /\ FreedInv /\ ReachInv)'
  BY SessionInvStep, FreedStep, ReachStep
<1>3. SessionInv /\ FreedInv /\ ReachInv => StopReachesAll
  <2> SUFFICES ASSUME SessionInv, FreedInv, ReachInv, NEW n \in alive \ signalled, turn[n] = "running",
                      n \notin cancelling
               PROVE  Current(n)
    BY DEF StopReachesAll, ReachInv
  <2>1. n \in Turn /\ n # NoTurn
    BY TurnAssumption DEF SessionInv, TypeOK
  <2>2. n \notin freed
    BY DEF FreedInv, Over
  <2> QED
    BY <2>1, <2>2 DEF Current, Live, FreedInv
<1> QED
  BY <1>1, <1>2, <1>3, PTL DEF Spec

-----------------------------------------------------------------------------
(* What a turn records, if the CLI never reports an id twice.              *)

\* An id belongs to one turn.  A session that stands in the pool under an id does
\* so for the turn that reported it, which is neither over nor of a tree that was
\* marked free, unless stop_all is about to clear the pool: a turn that may still
\* enter its session is ahead of stop_all, and replies to it are behind.
OwnInv ==
    /\ \A m, n \in Turn : report[m] = report[n] /\ report[n] # NoId => m = n
    /\ \A i \in SessionId : sessions[i] # NoTurn =>
          /\ report[sessions[i]] = i /\ captured[sessions[i]] = i /\ sessions[i] \notin tempHeld
          /\ \/ sessions[i] \notin freed /\ turn[sessions[i]] # "done"
             \/ stopAll # "idle"
    /\ \A n \in Turn : captured[n] \in {NoId, report[n]} /\ recorded[n] \in {NoId, report[n]}
    /\ \A n \in Turn : turn[n] # "stoppingOld"
    /\ \A p \in Turn : \/ p \in freed /\ turn[p] = "registering"
                       \/ p \in cancelling /\ turn[p] = "removing"
                       => Ahead(lockQueue, p, StopAll)
    /\ \A n \in Turn : /\ Parent[n] # NoTurn /\ turn[n] = "acquiring"
                       /\ \/ turn[Parent[n]] = "registering"
                          \/ \E i \in SessionId : sessions[i] = Parent[n]
                       => Ahead(lockQueue, StopAll, n)

LEMMA OwnInit == Init => OwnInv
  BY TurnAssumption DEF Init, OwnInv

\* The steps that concern the ids of a turn, when its session is in the pool.
OwnMoves(n) ==
    /\ \A i \in SessionId :
          \/ sessions'[i] \in {NoTurn, sessions[i]}
          \/ /\ sessions'[i] = n /\ turn[n] \in {"running", "registering"} /\ turn'[n] = "running"
             /\ turn[n] = "running" => n \notin cancelling
             /\ report'[n] = i /\ captured'[n] = i /\ n \notin tempHeld'
    /\ \/ report'[n] = report[n]
       \/ n \in tempHeld /\ report'[n] \in SessionId \ Reported
    /\ captured'[n] \in {NoId, report'[n]} /\ recorded'[n] \in {NoId, report'[n]}
    /\ \A i \in SessionId : sessions[i] = n =>
          captured'[n] = captured[n] /\ report'[n] = report[n] /\ n \notin tempHeld'
    /\ turn'[n] # "stoppingOld"
    /\ turn'[n] = "registering" => turn[n] = "running" /\ n \notin cancelling
    /\ turn'[n] = "removing" => n \notin cancelling'
    /\ turn'[n] = "done" /\ (\E i \in SessionId : sessions'[i] = n) => stopAll # "idle"

\* No reply finds the session of another turn in the pool.
LEMMA NothingReused ==
    ASSUME SessionInv, OwnInv, NEW n \in Turn, Begin(n) \/ Acquire(n)
    PROVE  Reusable(n) = NoTurn \/ (turn'[n] = "acquiring" /\ UNCHANGED <<pool, handles>>)
<1> USE DEF SessionInv
<1> SUFFICES ASSUME Reusable(n) # NoTurn, turn'[n] # "acquiring" \/ ~UNCHANGED <<pool, handles>>
             PROVE  FALSE
  OBVIOUS
<1> DEFINE p == Parent[n]
           i == recorded[p]
<1>1. p # NoTurn /\ i # NoId /\ sessions[i] # NoTurn
  BY DEF Reusable, Resumed
<1>2. p \in Turn /\ i \in SessionId
  BY <1>1, TurnAssumption DEF TypeOK
<1>3. sessions[i] = p
  BY <1>1, <1>2 DEF OwnInv, TypeOK
<1>4. CASE Begin(n)
  <2>1. lockQueue = <<>>
    BY <1>4 DEF Begin, TypeOK
  <2>2. ~In(lockQueue, StopAll)
    BY <2>1 DEF In
  <2>3. stopAll = "idle"
    BY <2>2 DEF LockInv
  <2>4. turn[p] = "done" \/ p \in freed
    BY <1>1, <1>4 DEF Begin
  <2> QED
    BY <1>1, <1>2, <1>3, <2>3, <2>4 DEF OwnInv
<1>5. CASE Acquire(n)
  <2>1. turn[n] = "acquiring" /\ lockQueue # <<>> /\ Head(lockQueue) = n
    BY <1>5 DEF Acquire, Holds
  <2>2. Ahead(lockQueue, StopAll, n)
    BY <1>1, <1>2, <1>3, <2>1 DEF OwnInv
  <2>3. ~Ahead(lockQueue, StopAll, Head(lockQueue))
    BY <2>1, QueueTail DEF TypeOK, LockInv
  <2> QED
    BY <2>1, <2>2, <2>3
<1> QED
  BY <1>4, <1>5

\* No registration finds the session of another turn under its id.
LEMMA NothingOverwritten ==
    ASSUME SessionInv, NEW n \in Turn, NEW id \in SessionId, sessions[id] = NoTurn, Register(n, id)
    PROVE  /\ Registered(n, id)
           /\ UNCHANGED sessions \/ sessions' = [sessions EXCEPT ![id] = n]
  BY DEF Register, NewlyMapped, pool

LEMMA OwnRegister ==
    ASSUME SessionInv, freshIds, OwnInv, NEW n \in Turn, SessionInfo(n) \/ LockForRegister(n)
    PROVE  OwnMoves(n)
<1> USE DEF SessionInv
<1>0. n \in tempHeld /\ \A i \in SessionId : sessions[i] # n
  <2>1. n \in tempHeld
    BY DEF SessionInfo, LockForRegister, ReportInv
  <2> QED
    BY <2>1, TurnAssumption DEF OwnInv
<1>1. ASSUME NEW id \in SessionId, sessions[id] = NoTurn, Register(n, id), report'[n] = id,
             turn[n] \in {"running", "registering"}, turn[n] = "running" => n \notin cancelling,
             report[n] = id \/ id \notin Reported
      PROVE  OwnMoves(n)
  <2>0. /\ Registered(n, id)
        /\ sessions' = sessions \/ sessions' = [sessions EXCEPT ![id] = n]
    BY <1>1, NothingOverwritten
  <2>1. /\ turn'[n] = "running" /\ captured'[n] = id /\ recorded'[n] = id /\ n \notin tempHeld'
    BY <2>0 DEF Registered, TypeOK
  <2>2. \A i \in SessionId : sessions'[i] = sessions[i] \/ (i = id /\ sessions'[i] = n)
    <3>1. sessions \in [SessionId -> Turn \cup {NoTurn}]
      BY DEF TypeOK
    <3> QED
      BY <2>0, <3>1
  <2> QED
    BY <1>0, <1>1, <2>1, <2>2 DEF OwnMoves
<1>2. CASE SessionInfo(n)
  <2>1. turn[n] = "running" /\ n \notin cancelling /\ report[n] = NoId
    BY <1>2 DEF SessionInfo, ReportInv
  <2>2. Reportable \subseteq SessionId \ Reported
    BY <2>1, FreshId DEF Reportable
  <2>3. PICK id \in SessionId \ Reported :
          /\ report' = [report EXCEPT ![n] = id]
          /\ \/ Register(n, id)
             \/ /\ turn' = [turn EXCEPT ![n] = "registering"]
                /\ UNCHANGED <<pool, tempHeld, captured, recorded>>
    BY <1>2, <2>2 DEF SessionInfo
  <2>4. report'[n] = id
    BY <2>3 DEF TypeOK
  <2>5. CASE Register(n, id)
    <3>1. sessions[id] = NoTurn
      <4>1. sessions[id] # NoTurn => sessions[id] \in Turn /\ report[sessions[id]] = id
        BY DEF OwnInv, TypeOK
      <4>2. \A m \in Turn : report[m] # id
        BY TurnAssumption DEF Reported
      <4> QED
        BY <4>1, <4>2
    <3> QED
      BY <1>1, <2>1, <2>4, <2>5, <3>1
  <2>6. CASE turn' = [turn EXCEPT ![n] = "registering"] /\ UNCHANGED <<pool, tempHeld, captured, recorded>>
    <3>1. turn'[n] = "registering"
      BY <2>6 DEF TypeOK
    <3>2. captured[n] = NoId /\ recorded[n] = NoId
      BY <2>1 DEF OwnInv
    <3> QED
      BY <1>0, <2>1, <2>4, <2>6, <3>1, <3>2 DEF OwnMoves, pool
  <2> QED
    BY <2>3, <2>5, <2>6
<1>3. CASE LockForRegister(n)
  <2>1. turn[n] = "registering" /\ report[n] \in SessionId /\ report' = report
    BY <1>3 DEF LockForRegister, ReportInv
  <2>2. sessions[report[n]] = NoTurn
    <3>1. sessions[report[n]] # NoTurn => /\ sessions[report[n]] \in Turn \ {n}
                                          /\ report[sessions[report[n]]] = report[n]
      BY <1>0, <2>1 DEF OwnInv, TypeOK
    <3> QED
      BY <2>1, <3>1, TurnAssumption DEF OwnInv
  <2> QED
    BY <1>1, <1>3, <2>1, <2>2 DEF LockForRegister
<1> QED
  BY <1>2, <1>3

LEMMA OwnBegin ==
    ASSUME SessionInv, OwnInv, NEW n \in Turn, Begin(n) \/ Acquire(n)
    PROVE  OwnMoves(n)
<1> USE DEF SessionInv
<1>1. turn[n] \in {"idle", "acquiring"} /\ report[n] = NoId
  BY DEF Begin, Acquire, ReportInv
<1>2. \A i \in SessionId : sessions[i] # n
  BY <1>1, TurnAssumption DEF OwnInv
<1>3. turn'[n] \in {"acquiring", "waitingCli"}
  BY DEF Begin, Acquire, GetOrCreateSession, TypeOK
<1>4. UNCHANGED <<sessions, captured, recorded, report>>
  <2>1. CASE UNCHANGED <<pool, handles>>
    BY <2>1 DEF pool, handles
  <2>2. CASE Reusable(n) = NoTurn /\ GetOrCreateSession(n)
    BY <2>2 DEF GetOrCreateSession, Create
  <2>3. CASE Begin(n)
    BY <2>1, <2>2, <2>3, NothingReused DEF Begin
  <2>4. CASE Acquire(n)
    BY <2>1, <2>2, <2>4, NothingReused DEF Acquire
  <2> QED
    BY <2>3, <2>4
<1> QED
  BY <1>2, <1>3, <1>4 DEF OwnMoves, OwnInv

\* The other steps: the turn reports nothing, and its session may leave the pool.
LEMMA OwnGoesOn ==
    ASSUME SessionInv, OwnInv, NEW n \in Turn,
           UNCHANGED <<session, tempHeld, captured, report>>,
           recorded'[n] \in {recorded[n], captured[n]},
           \A i \in SessionId : sessions'[i] \in {NoTurn, sessions[i]},
           turn'[n] \notin {"stoppingOld", "registering"},
           turn'[n] = "removing" => n \notin cancelling',
           turn'[n] = "done" /\ (\E i \in SessionId : sessions'[i] = n) => stopAll # "idle"
    PROVE  OwnMoves(n)
<1>1. captured'[n] \in {NoId, report'[n]} /\ recorded'[n] \in {NoId, report'[n]}
  BY DEF OwnInv
<1>2. \A i \in SessionId : sessions[i] = n =>
          captured'[n] = captured[n] /\ report'[n] = report[n] /\ n \notin tempHeld'
  BY TurnAssumption DEF OwnInv
<1> QED
  BY <1>1, <1>2 DEF OwnMoves

LEMMA OwnRemoved ==
    ASSUME SessionInv, OwnInv, NEW n \in Turn, NEW rest, RemoveSession(n, rest)
    PROVE  /\ \A i \in SessionId : sessions'[i] \in {NoTurn, sessions[i]} /\ sessions'[i] # n
           /\ turn'[n] \in {"done", "dying"}
<1> USE DEF SessionInv
<1>1. turn'[n] \in {"done", "dying"}
  BY DEF RemoveSession, TypeOK
<1>2. CASE Removable(n) = NoTurn
  <2>1. UNCHANGED sessions
    BY <1>2 DEF RemoveSession, pool
  <2>2. \A i \in SessionId : sessions[i] # n
    BY <1>2, TurnAssumption DEF OwnInv, Removable
  <2> QED
    BY <1>1, <2>1, <2>2
<1>3. CASE Removable(n) # NoTurn
  <2>1. \/ n \in tempHeld /\ UNCHANGED sessions
        \/ /\ n \notin tempHeld /\ captured[n] \in SessionId
           /\ sessions' = [sessions EXCEPT ![captured[n]] = NoTurn]
    BY <1>3 DEF RemoveSession, Popped, Removable, TypeOK
  <2>2. \A i \in SessionId : sessions[i] = n => n \notin tempHeld /\ captured[n] = i
    BY TurnAssumption DEF OwnInv
  <2> QED
    BY <1>1, <2>1, <2>2, TurnAssumption DEF TypeOK
<1> QED
  BY <1>2, <1>3

LEMMA OwnLeave ==
    ASSUME SessionInv, OwnInv, NEW n \in Turn, NEW q, Leave(n, q), n \notin cancelling',
           UNCHANGED <<session, tempHeld, captured, report>>,
           recorded'[n] \in {recorded[n], captured[n]}
    PROVE  OwnMoves(n)
<1>1. CASE RemoveSession(n, <<>>)
  BY <1>1, OwnRemoved, OwnGoesOn
<1>2. CASE turn' = [turn EXCEPT ![n] = "removing"] /\ UNCHANGED pool
  <2>1. turn'[n] = "removing" /\ UNCHANGED sessions
    BY <1>2 DEF SessionInv, TypeOK, pool
  <2> QED
    BY <2>1, OwnGoesOn
<1> QED
  BY <1>1, <1>2 DEF Leave

LEMMA OwnTurn ==
    ASSUME SessionInv, MapInv, freshIds, OwnInv, NEW n \in Turn, TurnStep(n)
    PROVE  OwnMoves(n)
<1> USE DEF SessionInv
<1>1. CASE LockForRemove(n)
  BY <1>1, OwnRemoved, OwnGoesOn DEF LockForRemove, handles
<1>2. CASE LaunchFails(n) \/ Killed(n) \/ CancelledAtCli(n) \/ CancelledRegistering(n)
  BY <1>2, OwnLeave DEF LaunchFails, Killed, CancelledAtCli, CancelledRegistering, Cancels, handles
<1>3. CASE StreamEnds(n)
  <2>1. recorded'[n] \in {recorded[n], captured[n]}
    BY <1>3 DEF StreamEnds, TypeOK
  <2> QED
    BY <1>3, <2>1, OwnLeave DEF StreamEnds
<1>4. CASE Launch(n) \/ IdleTimeout(n) \/ CancelledReading(n)
  <2>1. turn'[n] \in {"running", "killing"}
    BY <1>4 DEF Launch, IdleTimeout, CancelledReading, TypeOK
  <2> QED
    BY <1>4, <2>1, OwnGoesOn DEF Launch, IdleTimeout, CancelledReading, handles, pool
<1>5. CASE SessionRemoved(n) \/ CancelledDying(n)
  <2>1. turn[n] = "dying" /\ turn'[n] = "done" /\ UNCHANGED <<handles, sessions>>
    BY <1>5 DEF SessionRemoved, CancelledDying, pool, TypeOK
  <2>2. \A i \in SessionId : sessions[i] # n
    <3> SUFFICES ASSUME NEW i \in SessionId, sessions[i] = n PROVE FALSE
      OBVIOUS
    <3>1. captured[n] = i /\ n \notin tempHeld
      BY TurnAssumption DEF OwnInv
    <3> QED
      BY <2>1, <3>1, TurnAssumption DEF MapInv
  <2> QED
    BY <2>1, <2>2, OwnGoesOn DEF handles
<1>6. CASE CancelledAtLock(n)
  <2>1. /\ turn[n] \in {"acquiring", "removing"} /\ n \in cancelling /\ turn'[n] = "done"
        /\ UNCHANGED <<handles, sessions>>
    BY <1>6 DEF CancelledAtLock, Cancels, pool, TypeOK
  <2>2. CASE turn[n] = "acquiring"
    <3>1. \A i \in SessionId : sessions[i] # n
      BY <2>2, TurnAssumption DEF OwnInv, ReportInv
    <3> QED
      BY <2>1, <3>1, OwnGoesOn DEF handles
  <2>3. CASE turn[n] = "removing"
    <3>1. Ahead(lockQueue, n, StopAll)
      BY <2>1, <2>3 DEF OwnInv
    <3>2. stopAll # "idle"
      BY <3>1 DEF Ahead, In, LockInv
    <3> QED
      BY <2>1, <3>2, OwnGoesOn DEF handles
  <2> QED
    BY <2>1, <2>2, <2>3
<1>7. ~OldStopped(n)
  BY DEF OldStopped, OwnInv
<1> QED
  BY <1>1, <1>2, <1>3, <1>4, <1>5, <1>6, <1>7, OwnBegin, OwnRegister DEF TurnStep

\* A turn that comes to wait for the lock without a session has just begun.
LEMMA TurnAcquires ==
    ASSUME SessionInv, NEW n \in Turn, TurnStep(n), turn'[n] = "acquiring"
    PROVE  /\ turn[n] = "idle" /\ UNCHANGED pool
           /\ Parent[n] # NoTurn => turn[Parent[n]] = "done" \/ Parent[n] \in freed
<1> USE DEF SessionInv
<1>1. ASSUME NEW q, Leave(n, q) PROVE FALSE
  BY <1>1, LeaveMoves DEF TypeOK
<1>2. ASSUME NEW id, Register(n, id) \/ Registered(n, id) PROVE FALSE
  BY <1>2 DEF Register, Registered, TypeOK
<1>3. ~GetOrCreateSession(n)
  BY DEF GetOrCreateSession, TypeOK
<1>4. Begin(n)
  BY <1>1, <1>2, <1>3, RemoveMoves
     DEF TurnStep, Acquire, LockForRemove, SessionRemoved, Launch, LaunchFails, StreamEnds,
         IdleTimeout, Killed, SessionInfo, LockForRegister, OldStopped, CancelledAtLock,
         CancelledAtCli, CancelledReading, CancelledRegistering, CancelledDying, TypeOK
<1> QED
  BY <1>3, <1>4 DEF Begin

LEMMA OwnTurnStep ==
    ASSUME SessionInv, TypeOK', MapInv, FreedInv, freshIds, OwnInv, NEW n \in Turn, TurnStep(n)
    PROVE  OwnInv'
<1> USE DEF SessionInv
<1>1. OwnMoves(n)
  BY OwnTurn
<1>2. \A m \in Turn \ {n} : /\ turn'[m] = turn[m] /\ captured'[m] = captured[m]
                            /\ recorded'[m] = recorded[m] /\ report'[m] = report[m]
                            /\ m \in tempHeld' <=> m \in tempHeld
                            /\ m \in cancelling' <=> m \in cancelling
  BY TurnKeepsOthers
<1>3. freed' = freed /\ stopAll' = stopAll
  BY TurnKeepsStopAll DEF stopState
<1>4. Moves(n)
  BY TurnMoves
<1>5. /\ turn[n] = "running" /\ n \in freed => n \in cancelling
      /\ turn[n] = "registering" /\ n \in freed => stopAll # "idle"
  <2>1. turn[n] = "registering" /\ n \in freed => Ahead(lockQueue, n, StopAll)
    BY DEF OwnInv
  <2> QED
    BY <2>1 DEF FreedInv, Over, Ahead, In, LockInv
<1>6. StopAll \notin Turn /\ NoTurn \notin Turn
  BY TurnAssumption
<1>7. ASSUME NEW m1 \in Turn, NEW m2 \in Turn, report'[m1] = report'[m2], report'[m2] # NoId
      PROVE  m1 = m2
  <2>1. \A m \in Turn : report[m] # NoId => report[m] \in Reported
    BY DEF Reported
  <2> QED
    BY <1>1, <1>2, <1>7, <2>1 DEF OwnMoves, OwnInv
<1>8. ASSUME NEW i \in SessionId, sessions'[i] # NoTurn
      PROVE  /\ report'[sessions'[i]] = i /\ captured'[sessions'[i]] = i
             /\ sessions'[i] \notin tempHeld'
             /\ \/ sessions'[i] \notin freed' /\ turn'[sessions'[i]] # "done"
                \/ stopAll' # "idle"
  <2> DEFINE s == sessions'[i]
  <2>0. s \in Turn
    BY <1>8 DEF TypeOK
  <2> HIDE DEF s
  <2>1. CASE s = sessions[i]
    <3>1. /\ report[s] = i /\ captured[s] = i /\ s \notin tempHeld
          /\ (s \notin freed /\ turn[s] # "done") \/ stopAll # "idle"
      BY <1>8, <2>1, Zenon DEF OwnInv, s
    <3>2. CASE s # n
      BY <1>2, <1>3, <2>0, <3>1, <3>2 DEF s
    <3>3. CASE s = n
      <4>1. turn'[n] = "done" => stopAll # "idle"
        BY <1>1, <3>3 DEF OwnMoves, s
      <4>2. captured'[n] = captured[n] /\ report'[n] = report[n] /\ n \notin tempHeld'
        BY <1>1, <2>1, <3>3 DEF OwnMoves
      <4> QED
        BY <1>3, <3>1, <3>3, <4>1, <4>2 DEF s
    <3> QED
      BY <3>2, <3>3
  <2>2. CASE s # sessions[i]
    <3>1. /\ s = n /\ turn[n] \in {"running", "registering"} /\ turn'[n] = "running"
          /\ turn[n] = "running" => n \notin cancelling
          /\ report'[n] = i /\ captured'[n] = i /\ n \notin tempHeld'
      BY <1>1, <1>8, <2>2 DEF OwnMoves, s
    <3> QED
      BY <1>3, <1>5, <3>1 DEF s
  <2> QED
    BY <2>1, <2>2
<1>9. \A m \in Turn : captured'[m] \in {NoId, report'[m]} /\ recorded'[m] \in {NoId, report'[m]}
  BY <1>1, <1>2 DEF OwnMoves, OwnInv
<1>10. \A m \in Turn : turn'[m] # "stoppingOld"
  BY <1>1, <1>2 DEF OwnMoves, OwnInv
<1>11. ASSUME NEW p \in Turn, \/ p \in freed' /\ turn'[p] = "registering"
                              \/ p \in cancelling' /\ turn'[p] = "removing"
       PROVE  Ahead(lockQueue', p, StopAll)
  <2>1. p # n
    BY <1>1, <1>3, <1>5, <1>11 DEF OwnMoves
  <2>2. Ahead(lockQueue, p, StopAll)
    BY <1>2, <1>3, <1>11, <2>1 DEF OwnInv
  <2> QED
    BY <1>4, <1>6, <2>1, <2>2, Phases DEF Moves, MovesIn
<1>12. ASSUME NEW m \in Turn, Parent[m] # NoTurn, turn'[m] = "acquiring",
              \/ turn'[Parent[m]] = "registering"
              \/ \E i \in SessionId : sessions'[i] = Parent[m]
       PROVE  Ahead(lockQueue', StopAll, m)
  <2> DEFINE p == Parent[m]
  <2>0. p \in Turn
    BY <1>12, TurnAssumption
  <2>1. CASE m # n
    <3>1. turn[m] = "acquiring"
      BY <1>2, <1>12, <2>1
    <3>2. turn[p] = "done" \/ p \in freed
      BY <1>12, <3>1 DEF FreedInv
    <3>3. turn[n] = "running" /\ n \notin cancelling => n # p
      BY <1>5, <3>2
    <3>4. \/ turn[p] = "registering"
          \/ \E i \in SessionId : sessions[i] = p
      <4>1. CASE turn'[p] = "registering"
        BY <1>1, <1>2, <2>0, <3>3, <4>1 DEF OwnMoves
      <4>2. ASSUME NEW i \in SessionId, sessions'[i] = p
            PROVE  \/ turn[p] = "registering"
                   \/ \E j \in SessionId : sessions[j] = p
        BY <1>1, <1>6, <2>0, <3>3, <4>2 DEF OwnMoves
      <4> QED
        BY <1>12, <4>1, <4>2
    <3>5. Ahead(lockQueue, StopAll, m)
      BY <1>12, <3>1, <3>4 DEF OwnInv
    <3> QED
      BY <1>4, <1>6, <2>1, <3>5, Phases DEF Moves, MovesIn
  <2>2. CASE m = n
    <3>1. turn[n] = "idle" /\ UNCHANGED pool /\ (turn[p] = "done" \/ p \in freed)
      BY <1>12, <2>2, TurnAcquires
    <3>2. p # n \/ stopAll # "idle"
      <4>1. report[n] = NoId
        BY <3>1 DEF ReportInv
      <4>2. \A i \in SessionId : sessions[i] # n
        BY <4>1, <1>6, TurnAssumption DEF OwnInv
      <4> QED
        BY <1>12, <2>2, <3>1, <4>2 DEF pool
    <3>3. stopAll # "idle"
      <4>1. CASE p # n /\ turn'[p] = "registering"
        <5>1. turn[p] = "registering" /\ p \in freed
          BY <1>2, <2>0, <3>1, <4>1
        <5>2. Ahead(lockQueue, p, StopAll)
          BY <2>0, <5>1 DEF OwnInv
        <5> QED
          BY <5>2 DEF Ahead, In, LockInv
      <4>2. ASSUME NEW i \in SessionId, sessions'[i] = p PROVE stopAll # "idle"
        <5>1. sessions[i] = p
          BY <3>1, <4>2 DEF pool
        <5> QED
          BY <1>6, <2>0, <3>1, <5>1 DEF OwnInv
      <4> QED
        BY <1>12, <3>2, <4>1, <4>2
    <3>4. In(lockQueue, StopAll)
      BY <3>3 DEF LockInv
    <3> QED
      BY <1>4, <1>6, <1>12, <2>2, <3>4, Phases DEF Moves, MovesIn
  <2> QED
    BY <2>1, <2>2
<1> QED
  BY <1>7, <1>8, <1>9, <1>10, <1>11, <1>12 DEF OwnInv

LEMMA OwnStep ==
    ASSUME SessionInv, MapInv, FreedInv, freshIds, OwnInv, [Next]_vars
    PROVE  OwnInv'
<1> USE DEF SessionInv
<1>0. SessionInv' /\ StopAll \notin Turn /\ NoTurn \notin Turn
  BY SessionInvStep, TurnAssumption
<1>1. ASSUME NEW n \in Turn, TurnStep(n) PROVE OwnInv'
  BY <1>0, <1>1, OwnTurnStep
<1>2. ASSUME UNCHANGED <<turn, handles, pool, lockQueue, freed, stopAll>>,
             \A n \in cancelling' : n \in cancelling \/ turn[n] # "removing"
      PROVE  OwnInv'
  BY <1>2 DEF OwnInv, handles, pool
<1>3. CASE UNCHANGED vars
  BY <1>2, <1>3 DEF vars, control, stopState
<1>4. ASSUME NEW n \in Turn, CloseGenerator(n) \/ Dies(n) \/ StopTurn(n) PROVE OwnInv'
  BY <1>2, <1>4 DEF CloseGenerator, Dies, StopTurn, control, stopState, InStartTask
<1>5. CASE StopAllStep
  <2>1. UNCHANGED <<turn, handles>>
    BY <1>5, OthersKeepHandles
  <2>2. \A i \in SessionId : sessions'[i] \in {NoTurn, sessions[i]}
    BY <1>5, StopAllPool DEF PoolCleared, pool
  <2>3. stopAll' # "idle" \/ \A i \in SessionId : sessions'[i] = NoTurn
    BY <1>5 DEF StopAllStep, StopAllTasks, LockForStopAll, StopAllGoesOn, StopAllRuns, PoolCleared
  <2>4. \A i \in SessionId : sessions'[i] # NoTurn =>
          /\ report'[sessions'[i]] = i /\ captured'[sessions'[i]] = i /\ sessions'[i] \notin tempHeld'
          /\ \/ sessions'[i] \notin freed' /\ turn'[sessions'[i]] # "done"
             \/ stopAll' # "idle"
    BY <2>1, <2>2, <2>3 DEF OwnInv, handles
  <2>5. lockQueue # <<>> => ~Ahead(lockQueue, StopAll, Head(lockQueue))
                            /\ \A a \in Caller : ~Ahead(lockQueue, a, Head(lockQueue))
    BY QueueTail DEF TypeOK, LockInv
  <2>6. ASSUME NEW p \in Turn, \/ p \in freed' /\ turn'[p] = "registering"
                               \/ p \in cancelling' /\ turn'[p] = "removing"
        PROVE  Ahead(lockQueue', p, StopAll)
    <3>1. p # StopAll /\ In(lockQueue, p)
      BY <1>0, <2>1, <2>6 DEF AtLock, LockInv
    <3>2. lockQueue # <<>>
      BY <3>1 DEF In
    <3>3. CASE StopAllTasks
      <4>1. stopAll' = "waiting"
        BY <3>2, <3>3 DEF StopAllTasks
      <4>2. StopAllMovesIn
        BY <1>5, StopAllTakesLock
      <4> QED
        BY <3>1, <4>1, <4>2, Phases DEF StopAllMovesIn, MovesIn
    <3>4. CASE LockForStopAll \/ StopAllGoesOn
      <4>1. Ahead(lockQueue, p, StopAll) /\ Holds(StopAll)
        BY <2>1, <2>6, <3>4 DEF LockForStopAll, StopAllGoesOn, LockInv, OwnInv
      <4> QED
        BY <2>5, <4>1, Phases DEF Holds
    <3> QED
      BY <1>5, <3>3, <3>4 DEF StopAllStep
  <2>7. ASSUME NEW n \in Turn, Parent[n] # NoTurn, turn'[n] = "acquiring",
               \/ turn'[Parent[n]] = "registering"
               \/ \E i \in SessionId : sessions'[i] = Parent[n]
        PROVE  Ahead(lockQueue', StopAll, n)
    <3>1. /\ Ahead(lockQueue, StopAll, n) /\ turn[n] = "acquiring"
          /\ Parent[n] \in Turn
      BY <2>1, <2>2, <2>7, TurnAssumption DEF OwnInv
    <3>2. stopAll # "idle"
      BY <3>1 DEF Ahead, In, LockInv
    <3>3. LockForStopAll \/ StopAllGoesOn
      BY <1>5, <3>2 DEF StopAllStep, StopAllTasks
    <3>4. Holds(StopAll)
      BY <3>3 DEF LockForStopAll, StopAllGoesOn, LockInv
    <3>5. CASE stopAll' = "idle"
      <4>1. turn[Parent[n]] = "registering"
        BY <1>0, <2>1, <2>3, <2>7, <3>1, <3>5
      <4>2. Parent[n] \in freed
        BY <2>7, <3>1, <4>1 DEF FreedInv
      <4>3. Ahead(lockQueue, Parent[n], StopAll)
        BY <3>1, <4>1, <4>2 DEF OwnInv
      <4> QED
        BY <2>5, <3>1, <3>4, <4>3, Phases DEF Holds
    <3>6. CASE stopAll' # "idle"
      <4>1. lockQueue' = <<StopAll>> \o Tail(lockQueue)
        BY <3>3, <3>6 DEF LockForStopAll, StopAllGoesOn, StopAllRuns
      <4>2. lockQueue' = lockQueue
        BY <3>4, <4>1, LockReleased, Phases
      <4> QED
        BY <3>1, <4>2
    <3> QED
      BY <3>5, <3>6
  <2> QED
    BY <2>1, <2>4, <2>6, <2>7 DEF OwnInv, handles
<1> QED
  BY <1>1, <1>3, <1>4, <1>5, Steps DEF QuietStep

\* What a turn leaves for its replies to fork is the conversation of its own run,
\* as long as the CLI does not report one id for two runs.
THEOREM OwnConversationCorrect == Spec => []OwnConversation
<1> DEFINE Inv == SessionInv /\ MapInv /\ FreedInv /\ (freshIds => OwnInv)
<1>1. Init => Inv
  BY SessionInvInit, MapInit, FreedInit, OwnInit
<1>2. Inv /\ [Next]_vars => Inv'
  <2> SUFFICES ASSUME Inv, [Next]_vars PROVE Inv'
    OBVIOUS
  <2>1. freshIds' = freshIds
    BY Steps, TurnKeepsStopAll, OthersKeepHandles
  <2> QED
    BY <2>1, SessionInvStep, MapStep, FreedStep, OwnStep
<1>3. Inv => OwnConversation
  BY DEF OwnInv, OwnConversation
<1> QED
  BY <1>1, <1>2, <1>3, PTL DEF Spec

=============================================================================
