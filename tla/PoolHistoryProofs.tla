-------------------------- MODULE PoolHistoryProofs --------------------------
(***************************************************************************)
(* The proof that the pool counts what it hands out: the assignments a     *)
(* working lane has counted and those still queued for its generation are  *)
(* the proxies of that generation that callers were given, and the count   *)
(* stays below the limit.                                                  *)
(***************************************************************************)
EXTENDS PoolHistory, TorPoolCalls

USE NoneAssumption, LimitAssumption

-----------------------------------------------------------------------------
(* Counting in a queue.                                                    *)

\* The assignments of generation n of lane l in the queue q.
IsAssign(m, l, n) == m.type = "Assign" /\ m.lane = l /\ m.epoch = n
AssignsIn(q, l, n) == {i \in 1 .. Len(q) : IsAssign(q[i], l, n)}
Count(q, l, n) == Cardinality(AssignsIn(q, l, n))

\* The assignments of a generation in a queue are finitely many.
LEMMA CountFinite ==
  ASSUME NEW q \in Seq(Command), NEW l, NEW n
  PROVE  IsFiniteSet(AssignsIn(q, l, n)) /\ Count(q, l, n) \in Nat
<1>1. Len(q) \in Nat /\ IsFiniteSet(1 .. Len(q))
  BY LenProperties, FS_Interval
<1>2. AssignsIn(q, l, n) \in SUBSET (1 .. Len(q))
  BY DEF AssignsIn
<1>3. IsFiniteSet(AssignsIn(q, l, n))
  BY <1>1, <1>2, FS_Subset
<1> QED  BY <1>3, FS_CardinalityType DEF Count

\* Two queues of which one has the same assignments at the same places.
LEMMA CountSame ==
  ASSUME NEW q, NEW r, NEW l, NEW n, Len(q) = Len(r),
         \A i \in 1 .. Len(q) : IsAssign(q[i], l, n) <=> IsAssign(r[i], l, n)
  PROVE  Count(q, l, n) = Count(r, l, n)
<1>1. AssignsIn(q, l, n) = AssignsIn(r, l, n)
  BY DEF AssignsIn
<1> QED  BY <1>1 DEF Count

\* Appending a command adds one if it is such an assignment.
LEMMA CountAppend ==
  ASSUME NEW q \in Seq(Command), NEW m \in Command, NEW l, NEW n
  PROVE  Count(Append(q, m), l, n) = Count(q, l, n) + (IF IsAssign(m, l, n) THEN 1 ELSE 0)
<1> DEFINE r == Append(q, m)
<1>1. /\ Len(q) \in Nat /\ Len(r) = Len(q) + 1 /\ r[Len(q) + 1] = m
      /\ \A i \in 1 .. Len(q) : r[i] = q[i]
  BY AppendProperties, LenProperties
<1> HIDE DEF r
<1>2. CASE IsAssign(m, l, n)
  <2>1. AssignsIn(r, l, n) = AssignsIn(q, l, n) \cup {Len(q) + 1}
    BY <1>1, <1>2 DEF AssignsIn
  <2>2. Len(q) + 1 \notin AssignsIn(q, l, n)
    BY <1>1 DEF AssignsIn
  <2> QED  BY <1>2, <2>1, <2>2, CountFinite, FS_AddElement DEF Count, r
<1>3. CASE ~IsAssign(m, l, n)
  <2>1. AssignsIn(r, l, n) = AssignsIn(q, l, n)
    BY <1>1, <1>3 DEF AssignsIn
  <2> QED  BY <1>3, <2>1, CountFinite DEF Count, r
<1> QED  BY <1>2, <1>3

\* Taking the head takes one if it is such an assignment.
LEMMA CountTail ==
  ASSUME NEW q \in Seq(Command), q # <<>>, NEW l, NEW n
  PROVE  Count(q, l, n) = Count(Tail(q), l, n) + (IF IsAssign(Head(q), l, n) THEN 1 ELSE 0)
<1> DEFINE r == Tail(q)
           Old == AssignsIn(q, l, n) \ {1}
           New == AssignsIn(r, l, n)
<1>1. /\ Len(q) \in Nat /\ Len(q) >= 1 /\ Len(r) = Len(q) - 1 /\ Head(q) = q[1]
      /\ \A i \in 1 .. Len(r) : r[i] = q[i + 1]
      /\ r \in Seq(Command)
  BY HeadTailProperties, LenProperties, EmptySeq
<1> HIDE DEF r
<1>2. Cardinality(Old) = Cardinality(New)
  <2> DEFINE f == [i \in New |-> i + 1]
  <2>1. \A i \in New : i \in Nat /\ i + 1 \in Old
    BY <1>1 DEF AssignsIn
  <2>2. \A j \in Old : j \in Nat /\ j - 1 \in New /\ (j - 1) + 1 = j
    BY <1>1 DEF AssignsIn
  <2>3. f \in Injection(New, Old)
    BY <2>1 DEF Injection, IsInjective
  <2>4. f \in Surjection(New, Old)
    BY <2>1, <2>2 DEF Surjection
  <2>5. ExistsBijection(New, Old)
    BY <2>3, <2>4 DEF ExistsBijection, Bijection
  <2> QED  BY <1>1, <2>5, CountFinite, FS_Bijection
<1>3. Cardinality(AssignsIn(q, l, n))
        = Cardinality(Old) + (IF 1 \in AssignsIn(q, l, n) THEN 1 ELSE 0)
  <2>1. IsFiniteSet(AssignsIn(q, l, n)) /\ Cardinality(AssignsIn(q, l, n)) \in Nat
    BY CountFinite DEF Count
  <2>2. Cardinality(Old) = IF 1 \in AssignsIn(q, l, n) THEN Cardinality(AssignsIn(q, l, n)) - 1
                                                       ELSE Cardinality(AssignsIn(q, l, n))
    BY <2>1, FS_RemoveElement
  <2> HIDE DEF Old
  <2> QED  BY <2>1, <2>2
<1>4. 1 \in AssignsIn(q, l, n) <=> IsAssign(Head(q), l, n)
  BY <1>1 DEF AssignsIn
<1> QED  BY <1>2, <1>3, <1>4 DEF Count, r

\* No assignment in the queue is of generation n.
LEMMA CountNone ==
  ASSUME NEW q, NEW l, NEW n, \A i \in 1 .. Len(q) : ~IsAssign(q[i], l, n)
  PROVE  Count(q, l, n) = 0
<1>1. AssignsIn(q, l, n) = {}
  BY DEF AssignsIn
<1> QED  BY <1>1, FS_EmptySet DEF Count

\* Forgetting who asked changes no assignment.
LEMMA CountUnheard ==
  ASSUME NEW q \in Seq(Command), NEW c \in Clients, NEW l, NEW n
  PROVE  Count(Unheard(q, c), l, n) = Count(q, l, n)
<1>1. Len(Unheard(q, c)) = Len(q)
  BY UnheardType
<1>2. ASSUME NEW i \in 1 .. Len(q)
      PROVE  IsAssign(Unheard(q, c)[i], l, n) <=> IsAssign(q[i], l, n)
  <2>1. q[i] \in Command
    OBVIOUS
  <2>2. Unheard(q, c)[i] = [q[i] EXCEPT !.from = IF @ = c THEN None ELSE @]
    BY <1>2 DEF Unheard
  <2> QED  BY <2>1, <2>2 DEF IsAssign, Command
<1> QED  BY <1>1, <1>2, CountSame

-----------------------------------------------------------------------------
(* What the count rests on.                                                *)

\* No assignment in the queue is of a generation still to come.
Past ==
  \A i \in 1 .. Len(queue) :
    queue[i].type = "Assign" => queue[i].epoch <= lanes[queue[i].lane].epoch

\* A caller that is about to return a proxy holds one endpoint.
Holding ==
  \A c \in Clients : pc[c] = "send" /\ op[c] \in {"next", "key"} => \E e : snap[c] = {e}

\* Only the choice of an endpoint begins a return, with that endpoint.
LEMMA NextHolding ==
  ASSUME Typed, Holding, [Next]_vars
  PROVE  Holding'
<1> USE DEF shared, state, manager, clients
<1>0. TypeOK /\ CallOK
  BY DEF Typed
<1>1. CASE UNCHANGED <<pc, op, snap>>
  BY <1>1 DEF Holding
<1>2. ASSUME NEW c \in Clients, ClientStep(c) \/ ClientChoice(c) PROVE Holding'
  <2>1. Alone(c)
    BY <1>2, ClientAlone
  <2>2. ASSUME pc'[c] = "send", op'[c] \in {"next", "key"} PROVE \E e : snap'[c] = {e}
    <3>1. CASE ReadSelect(c)
      BY <1>0, <2>2, <3>1 DEF TypeOK, ReadSelect, Finish
    <3>2. CASE WriteFiltered(c)
      BY <1>0, <2>2, <3>2 DEF TypeOK, CallOK, WriteFiltered
    <3>3. CASE CallShutdown(c)
      BY <1>0, <2>2, <3>3 DEF TypeOK, CallShutdown
    <3>4. ASSUME NEW o \in AllOps, NEW l \in Lanes \cup {None}, Call(c, o, l) PROVE FALSE
      BY <1>0, <2>2, <3>4 DEF TypeOK, Call
    <3>5. CASE ReadRotate(c)
      BY <1>0, <2>2, <3>5 DEF TypeOK, ReadRotate, Finish
    <3>6. ASSUME Finish(c) PROVE FALSE
      BY <1>0, <2>2, <3>6 DEF TypeOK, Finish
    <3>7. ASSUME NEW w \in {"write", "wait", "join", "joining", "returned", "gone"}, Goto(c, w)
          PROVE FALSE
      BY <1>0, <2>2, <3>7 DEF TypeOK, Goto
    <3> QED
      BY <1>2, <3>1, <3>2, <3>3, <3>4, <3>5, <3>6, <3>7 DEF ClientStep, ClientChoice, SendAssign,
         InsertUnavailable, SendRotate, SendRestart, SendShutdown, Return, TakeHandle,
         Joined, Cancel, Drop
  <2> QED  BY <2>1, <2>2 DEF Holding, Alone
<1>3. CASE ManagerStep
  <2>1. UNCHANGED <<pc, op, snap>>
    BY <1>3 DEF ManagerStep, Assigned, Restarting, Stopping, AssignIgnored, AssignCounted,
       AssignRotates, MgrRotate, Compute, Publish, Idle, ThenPublish, RestartBegin, RestartMark,
       RestartStop, RestartStopFails, RestartStart, RestartStartFails, RestartLane,
       BeginShutdown, ShutdownStop, Exit
  <2> QED  BY <1>1, <2>1
<1>4. CASE Ticks \/ \E l \in Lanes : Age(l)
  BY <1>1, <1>4 DEF Ticks, Tick, TickThe, Age
<1> QED  BY <1>1, <1>2, <1>3, <1>4 DEF Next, vars

\* Nor is an assignment that this step queues.
LEMMA QueuedPast ==
  ASSUME Typed, Generations, Past, [Next]_vars
  PROVE  \A i \in 1 .. Len(queue') :
           queue'[i].type = "Assign" => queue'[i].epoch <= lanes[queue'[i].lane].epoch
<1>0. TypeOK /\ queue \in Seq(Command)
  BY DEF Typed, TypeOK
<1>1. CASE queue' = queue
  BY <1>1 DEF Past
<1>2. CASE queue # <<>> /\ queue' = Tail(queue)
  <2>1. /\ Len(queue) \in Nat /\ Len(queue') = Len(queue) - 1
        /\ \A k \in 1 .. Len(queue') : queue'[k] = queue[k + 1]
    BY <1>0, <1>2, HeadTailProperties, LenProperties
  <2> QED  BY <2>1 DEF Past
<1>3. CASE queue' = <<>>
  BY <1>3
<1>4. ASSUME NEW c \in Clients, queue' = Unheard(queue, c)
      PROVE  \A i \in 1 .. Len(queue') :
               queue'[i].type = "Assign" => queue'[i].epoch <= lanes[queue'[i].lane].epoch
  <2>1. Len(queue') = Len(queue)
    BY <1>0, <1>4, UnheardType
  <2>2. ASSUME NEW i \in 1 .. Len(queue)
        PROVE  /\ queue'[i].type = queue[i].type /\ queue'[i].lane = queue[i].lane
               /\ queue'[i].epoch = queue[i].epoch
    <3>1. queue[i] \in Command
      BY <1>0
    <3>2. queue'[i] = [queue[i] EXCEPT !.from = IF @ = c THEN None ELSE @]
      BY <1>4, <2>2 DEF Unheard
    <3> QED  BY <3>1, <3>2 DEF Command
  <2> QED  BY <2>1, <2>2 DEF Past
<1>5. ASSUME NEW c \in Clients, NEW m \in Command, queue' = Append(queue, m),
             m.type = "Assign" => \E e \in snap[c] : m = Assign(e)
      PROVE  \A i \in 1 .. Len(queue') :
               queue'[i].type = "Assign" => queue'[i].epoch <= lanes[queue'[i].lane].epoch
  <2>1. /\ Len(queue) \in Nat /\ Len(queue') = Len(queue) + 1
        /\ queue'[Len(queue) + 1] = m /\ \A i \in 1 .. Len(queue) : queue'[i] = queue[i]
    BY <1>0, <1>5, AppendProperties, LenProperties
  <2>2. ASSUME m.type = "Assign" PROVE m.epoch <= lanes[m.lane].epoch
    <3>1. PICK e \in snap[c] : m = Assign(e)
      BY <1>5, <2>2
    <3>2. e \in Endpoints
      BY <3>1 DEF Endpoints
    <3>3. e.epoch <= lanes[e.lane].epoch
      BY <3>2 DEF Generations, Traced
    <3> QED  BY <3>1, <3>3 DEF Assign
  <2> QED  BY <2>1, <2>2 DEF Past
<1>6. ASSUME NEW c \in Clients, ClientStep(c) \/ ClientChoice(c)
      PROVE  \/ queue' = queue \/ queue' = Unheard(queue, c)
             \/ \E m \in Command : /\ queue' = Append(queue, m)
                                   /\ m.type = "Assign" => \E e \in snap[c] : m = Assign(e)
  BY <1>6, ClientSpeaks DEF Speaks, Sent
<1>7. CASE ManagerStep \/ Ticks \/ \E l \in Lanes : Age(l)
  BY <1>1, <1>2, <1>3, <1>7, ManagerListens DEF Listens
<1>8. CASE UNCHANGED vars
  BY <1>1, <1>8 DEF vars, shared
<1> QED  BY <1>1, <1>4, <1>5, <1>6, <1>7, <1>8 DEF Next

\* A caller's endpoint is no newer than its lane, and lanes only go forward.
LEMMA NextPast ==
  ASSUME Typed, Typed', Generations, Past, [Next]_vars
  PROVE  Past'
<1> SUFFICES ASSUME NEW i \in 1 .. Len(queue'), queue'[i].type = "Assign"
             PROVE  queue'[i].epoch <= lanes'[queue'[i].lane].epoch
  BY DEF Past
<1>1. queue'[i].epoch <= lanes[queue'[i].lane].epoch
  BY QueuedPast
<1>2. queue'[i] \in Command
  BY DEF Typed, TypeOK
<1>3. queue'[i].lane \in Lanes /\ queue'[i].epoch \in Nat
  BY <1>2 DEF Command
<1>4. LaneStep(queue'[i].lane)
  BY <1>3, NextShape DEF StepShape
<1>5. /\ lanes[queue'[i].lane].epoch \in Nat
      /\ lanes[queue'[i].lane].epoch <= lanes'[queue'[i].lane].epoch
  BY <1>3, <1>4 DEF LaneStep, Typed, TypeOK, Lane, Epochs
<1>6. lanes'[queue'[i].lane].epoch \in Nat
  BY <1>3 DEF Typed, TypeOK, Lane, Epochs
<1> QED  BY <1>1, <1>3, <1>5, <1>6

-----------------------------------------------------------------------------
(* What a step does to the count of one lane.                              *)

Fresh(l) == lanes'[l].epoch = lanes[l].epoch + 1 /\ lanes'[l].assignments = 0

\* Lane l has a new generation that nobody has been given, does not work, or has
\* been told of exactly the proxies that are returned in this step.
Balanced(l) ==
  \/ Fresh(l)
  \/ lanes'[l].state # "Ready"
  \/ /\ lanes'[l].epoch = lanes[l].epoch /\ lanes[l].state = "Ready"
     /\ lanes'[l].assignments + Count(queue', l, lanes[l].epoch)
          = lanes[l].assignments + Count(queue, l, lanes[l].epoch) + Cardinality(Returning(l))

\* A rotation, as the count sees it.
LEMMA RotateToFresh ==
  ASSUME TypeOK, NEW l \in Lanes, NEW lane \in Lane, NEW ok \in BOOLEAN,
         RotateTo(l, lane, ok), lane.epoch = lanes[l].epoch
  PROVE  /\ Fresh(l) \/ lanes'[l].state # "Ready"
         /\ \A k \in Lanes \ {l} : lanes'[k] = lanes[k]
<1>1. lanes'[l] = Regenerate(lane, l, runtime, ok)
  BY DEF RotateTo, TypeOK
<1>2. ok => Fresh(l)
  BY <1>1 DEF Regenerate, RotateLane, Fresh
<1> QED  BY <1>2, RotateToEffect

\* Who does not move returns nothing.
LEMMA NobodyReturns ==
  ASSUME UNCHANGED pc
  PROVE  \A l : Cardinality(Returning(l)) = 0
<1>1. \A l : Returning(l) = {}
  BY DEF Returning
<1> QED  BY <1>1, FS_EmptySet

\* Lane l and the assignments of its generation are as they were.
LEMMA Steady ==
  ASSUME Typed, NEW l \in Lanes, lanes'[l] = lanes[l], UNCHANGED pc,
         lanes[l].state = "Ready" => Count(queue', l, lanes[l].epoch) = Count(queue, l, lanes[l].epoch)
  PROVE  Balanced(l)
<1>1. Cardinality(Returning(l)) = 0
  BY NobodyReturns
<1>2. queue \in Seq(Command) /\ lanes[l].assignments \in Nat
  BY DEF Typed, TypeOK, Lane
<1>3. Count(queue, l, lanes[l].epoch) \in Nat
  BY <1>2, CountFinite
<1> QED  BY <1>1, <1>2, <1>3 DEF Balanced

\* Receiving a command that is no assignment of generation n of lane l.
LEMMA ReceiveSame ==
  ASSUME TypeOK, NEW t, Receive(t), NEW l, NEW n, ~IsAssign(Head(queue), l, n)
  PROVE  Count(queue', l, n) = Count(queue, l, n)
<1>1. queue \in Seq(Command) /\ queue # <<>> /\ queue' = Tail(queue) /\ queue' \in Seq(Command)
  BY ReceiveType DEF TypeOK, Receive
<1>2. Count(queue, l, n) = Count(queue', l, n) + 0
  BY <1>1, CountTail
<1>3. Count(queue', l, n) \in Nat
  BY <1>1, CountFinite
<1> QED  BY <1>2, <1>3

\* A client's step: the one that returns a proxy queues its assignment.
LEMMA ClientBalanced ==
  ASSUME Typed, Generations, Holding, Alive, NEW l \in Lanes,
         NEW c \in Clients, ClientStep(c) \/ ClientChoice(c)
  PROVE  Balanced(l)
<1> DEFINE n == lanes[l].epoch
<1>0. TypeOK /\ queue \in Seq(Command) /\ lanes[l] \in Lane
  BY DEF Typed, TypeOK
<1>1. lanes' = lanes /\ Alone(c)
  BY ClientAlone
<1>2. Count(queue, l, n) \in Nat /\ lanes[l].assignments \in Nat
  BY <1>0, CountFinite DEF Lane
<1>3. \A d \in Clients : d \in Returning(l) => d = c /\ pc[c] = "send" /\ op[c] \in {"next", "key"}
  BY <1>1 DEF Returning, Alone
<1>4. CASE SendAssign(c)
  <2>1. pc[c] = "send" /\ op[c] \in {"next", "key"} /\ pc'[c] = "idle"
    BY <1>0, <1>4 DEF SendAssign, Finish, TypeOK
  <2>2. PICK e : snap[c] = {e}
    BY <2>1 DEF Holding
  <2>3. queue' = Append(queue, Assign(e)) /\ Assign(e) \in Command
    BY <1>0, <1>4, <2>2, CommandTypes DEF SendAssign, TypeOK
  <2>4. Traced(e) /\ lanes[l].endpoint.lane = l /\ lanes[l].endpoint.epoch = n
    BY <2>2 DEF Generations, Endpoints
  <2>5. IsAssign(Assign(e), l, n) <=> e = lanes[l].endpoint
    BY <2>4 DEF IsAssign, Assign, Traced
  <2>6. Returning(l) = IF e = lanes[l].endpoint THEN {c} ELSE {}
    BY <1>3, <2>1, <2>2 DEF Returning
  <2>7. Cardinality(Returning(l)) = IF IsAssign(Assign(e), l, n) THEN 1 ELSE 0
    BY <2>5, <2>6, FS_EmptySet, FS_Singleton
  <2>8. Count(queue', l, n) = Count(queue, l, n) + Cardinality(Returning(l))
    BY <1>0, <2>3, <2>7, CountAppend
  <2> QED  BY <1>1, <1>2, <2>7, <2>8 DEF Balanced
<1>5. CASE ~SendAssign(c)
  <2>1. pc[c] = "send" /\ op[c] \in {"next", "key"} => pc'[c] # "idle"
    BY <1>5 DEF ClientStep, ClientChoice, Call, ReadSelect, ReadRotate,
       InsertUnavailable, WriteFiltered, SendRotate, SendRestart, CallShutdown,
       SendShutdown, Return, TakeHandle, Joined, Cancel, Drop
  <2>2. Returning(l) = {}
    BY <1>3, <2>1 DEF Returning
  <2>3. Cardinality(Returning(l)) = 0
    BY <2>2, FS_EmptySet
  <2>4. Count(queue', l, n) = Count(queue, l, n)
    <3>1. CASE queue' = queue
      BY <3>1
    <3>2. CASE queue' = Unheard(queue, c)
      BY <1>0, <3>2, CountUnheard
    <3>3. ASSUME NEW m \in Command, queue' = Append(queue, m), Sent(c, m)'
          PROVE  Count(queue', l, n) = Count(queue, l, n)
      <4>1. ~IsAssign(m, l, n)
        BY <3>3 DEF IsAssign, Sent
      <4>2. Count(queue', l, n) = Count(queue, l, n) + 0
        BY <1>0, <3>3, <4>1, CountAppend
      <4> QED  BY <1>2, <4>2
    <3> QED  BY <1>5, <3>1, <3>2, <3>3, ClientSpeaks DEF Speaks
  <2> QED  BY <1>1, <1>2, <2>3, <2>4 DEF Balanced
<1> QED  BY <1>4, <1>5

\* The manager takes an assignment and counts it, or it is of no working generation.
LEMMA ManagerBalanced ==
  ASSUME Typed, AssignmentLimit # 0, Alive', NEW l \in Lanes, ManagerStep
  PROVE  Balanced(l)
<1> USE DEF shared, state, manager, clients
<1>0. TypeOK /\ queue \in Seq(Command) /\ lanes[l] \in Lane
  BY DEF Typed, TypeOK
<1>a. \A t : t # "Assign" /\ Receive(t) => \A n : ~IsAssign(Head(queue), l, n)
  BY DEF Receive, IsAssign
<1>1. CASE AssignIgnored
  <2>1. Receive("Assign") /\ ~Counts(Head(queue)) /\ UNCHANGED <<lanes, pc>>
    BY <1>1 DEF AssignIgnored
  <2>2. lanes[l].state = "Ready" => ~IsAssign(Head(queue), l, lanes[l].epoch)
    BY <2>1 DEF Counts, IsAssign
  <2> QED  BY <1>0, <2>1, <2>2, ReceiveSame, Steady
<1>2. CASE AssignCounted
  <2> DEFINE m == Head(queue)
  <2>1. /\ Receive("Assign") /\ m.lane \in Lanes /\ Counts(m) /\ m.type = "Assign" /\ pc' = pc
        /\ lanes' = [lanes EXCEPT ![m.lane].assignments = @ + 1]
    BY <1>0, <1>2, ReceiveType DEF AssignCounted
  <2>2. CASE l = m.lane
    <3>1. IsAssign(m, l, lanes[l].epoch) /\ lanes[l].state = "Ready"
      BY <2>1, <2>2 DEF Counts, IsAssign
    <3>2. /\ lanes'[l].assignments = lanes[l].assignments + 1
          /\ lanes'[l].epoch = lanes[l].epoch /\ lanes[l].assignments \in Nat
      BY <1>0, <2>1, <2>2 DEF TypeOK, Lane
    <3>3. /\ queue # <<>> /\ queue' = Tail(queue) /\ queue' \in Seq(Command)
      BY <1>0, <2>1, ReceiveType DEF Receive
    <3>4. /\ Count(queue, l, lanes[l].epoch) = Count(queue', l, lanes[l].epoch) + 1
          /\ Count(queue', l, lanes[l].epoch) \in Nat
      BY <1>0, <3>1, <3>3, CountTail, CountFinite
    <3>5. Cardinality(Returning(l)) = 0
      BY <2>1, NobodyReturns
    <3> QED  BY <3>1, <3>2, <3>4, <3>5 DEF Balanced
  <2>3. CASE l # m.lane
    <3>1. lanes'[l] = lanes[l] /\ \A n : ~IsAssign(m, l, n)
      BY <1>0, <2>1, <2>3 DEF TypeOK, IsAssign
    <3> QED  BY <1>0, <2>1, <3>1, ReceiveSame, Steady
  <2> QED  BY <2>2, <2>3
<1>3. ASSUME NEW ok \in BOOLEAN, AssignRotates(ok) PROVE Balanced(l)
  <2> DEFINE k == Head(queue).lane
             counted == [lanes[k] EXCEPT !.assignments = @ + 1]
  <2>1. Receive("Assign") /\ k \in Lanes /\ RotateTo(k, counted, ok) /\ pc' = pc
    BY <1>0, <1>3, ReceiveType DEF AssignRotates
  <2>2. counted \in Lane /\ counted.epoch = lanes[k].epoch
    BY <1>0, <2>1, CountType DEF TypeOK, Lane
  <2> HIDE DEF counted
  <2>3. /\ Fresh(k) \/ lanes'[k].state # "Ready"
        /\ \A j \in Lanes \ {k} : lanes'[j] = lanes[j]
    BY <1>0, <2>1, <2>2, RotateToFresh
  <2>4. CASE l # k
    <3>1. \A n : ~IsAssign(Head(queue), l, n)
      BY <2>4 DEF IsAssign
    <3> QED  BY <1>0, <2>1, <2>3, <2>4, <3>1, ReceiveSame, Steady
  <2> QED  BY <2>3, <2>4 DEF Balanced
<1>4. ASSUME NEW ok \in BOOLEAN, MgrRotate(ok) PROVE Balanced(l)
  <2> DEFINE k == Head(queue).lane
  <2>1. Receive("Rotate") /\ k \in Lanes /\ RotateTo(k, lanes[k], ok) /\ pc' = pc
    BY <1>0, <1>4, ReceiveType DEF MgrRotate
  <2>2. lanes[k] \in Lane
    BY <1>0, <2>1 DEF TypeOK
  <2>3. /\ Fresh(k) \/ lanes'[k].state # "Ready"
        /\ \A j \in Lanes \ {k} : lanes'[j] = lanes[j]
    BY <1>0, <2>1, <2>2, RotateToFresh
  <2>4. CASE l # k
    BY <1>0, <1>a, <2>1, <2>3, <2>4, ReceiveSame, Steady
  <2> QED  BY <2>3, <2>4 DEF Balanced
<1>5. CASE Compute
  BY <1>5, Steady DEF Compute
<1>6. CASE Publish
  BY <1>6, Steady DEF Publish, Idle
<1>7. CASE RestartBegin
  BY <1>0, <1>7, <1>a, ReceiveSame, Steady DEF RestartBegin
<1>8. CASE RestartMark
  <2>1. lanes'[l] = [lanes[l] EXCEPT !.state = "Retiring"]
    BY <1>8 DEF RestartMark
  <2> QED  BY <1>0, <2>1 DEF Lane, Balanced
<1>9. CASE RestartStop
  BY <1>9, Steady DEF RestartStop
<1>10. CASE RestartStopFails
  BY <1>10, Steady DEF RestartStopFails, Idle
<1>11. CASE RestartStart
  BY <1>11, Steady DEF RestartStart
<1>12. CASE RestartStartFails
  <2>1. lanes'[l] = [lanes[l] EXCEPT !.state = "Failed"]
    BY <1>12 DEF RestartStartFails
  <2> QED  BY <1>0, <2>1 DEF Lane, Balanced
<1>13. ASSUME NEW k \in Lanes, NEW ok \in BOOLEAN, RestartLane(k, ok) PROVE Balanced(l)
  <2>1. RotateTo(k, lanes[k], ok) /\ lanes[k] \in Lane /\ UNCHANGED <<pc, queue>>
    BY <1>0, <1>13 DEF RestartLane, TypeOK
  <2>2. /\ Fresh(k) \/ lanes'[k].state # "Ready"
        /\ \A j \in Lanes \ {k} : lanes'[j] = lanes[j]
    BY <1>0, <2>1, RotateToFresh
  <2>3. CASE l # k
    BY <2>1, <2>2, <2>3, Steady
  <2> QED  BY <2>2, <2>3 DEF Balanced
<1>14. CASE BeginShutdown
  <2>1. CASE Receive("Shutdown")
    BY <1>0, <1>14, <1>a, <2>1, ReceiveSame, Steady DEF BeginShutdown
  <2>2. CASE queue' = queue
    BY <1>14, <2>2, Steady DEF BeginShutdown
  <2> QED  BY <1>14, <2>1, <2>2 DEF BeginShutdown
<1>15. ASSUME NEW ok \in BOOLEAN, ShutdownStop(ok) PROVE Balanced(l)
  BY <1>15, Steady DEF ShutdownStop
<1>16. CASE Exit
  BY <1>16 DEF Exit, Alive
<1> QED
  BY <1>1, <1>2, <1>3, <1>4, <1>5, <1>6, <1>7, <1>8, <1>9, <1>10, <1>11, <1>12,
     <1>13, <1>14, <1>15, <1>16 DEF ManagerStep, Assigned, Restarting, Stopping

\* A tick renews a lane as a whole or leaves it alone.
LEMMA TimeBalanced ==
  ASSUME Typed, NEW l \in Lanes, Ticks \/ \E k \in Lanes : Age(k)
  PROVE  Balanced(l)
<1> USE DEF shared, clients
<1>1. ASSUME NEW ok \in SUBSET Lanes, Tick(ok) PROVE Balanced(l)
  <2>1. lanes'[l] = IF l \in Due THEN Regenerate(lanes[l], l, runtime, l \in ok) ELSE lanes[l]
    BY <1>1 DEF Tick, TickThe
  <2>2. CASE l \in Due
    <3>1. Fresh(l) \/ lanes'[l].state = "Failed"
      BY <2>1, <2>2 DEF Regenerate, RotateLane, Fresh, Typed, TypeOK, Lane
    <3> QED  BY <3>1 DEF Balanced
  <2>3. CASE l \notin Due
    BY <1>1, <2>1, <2>3, Steady DEF Tick, TickThe
  <2> QED  BY <2>2, <2>3
<1>2. ASSUME NEW k \in Lanes, Age(k) PROVE Balanced(l)
  BY <1>2, Steady DEF Age, manager
<1> QED  BY <1>1, <1>2 DEF Ticks

\* The manager that lives after a step lived before it.
LEMMA NoneRevives ==
  ASSUME Typed, [Next]_vars, Alive'
  PROVE  Alive
<1> USE DEF Alive, shared, state, manager, clients
<1>1. CASE ManagerStep
  BY <1>1 DEF ManagerStep, Assigned, Restarting, Stopping, AssignIgnored, AssignCounted,
     AssignRotates, MgrRotate, Receive, Compute, Publish, RestartBegin, RestartMark,
     RestartStop, RestartStopFails, RestartStart, RestartStartFails, RestartLane,
     BeginShutdown, ShutdownStop, Exit
<1> QED  BY <1>1, ClientAlone DEF Next, Ticks, Tick, TickThe, Age, vars

\* Whoever moves, what is counted and what is queued of a generation stay in balance
\* with what is handed out.
LEMMA NextBalanced ==
  ASSUME Typed, Generations, Holding, AssignmentLimit # 0, [Next]_vars, Alive'
  PROVE  \A l \in Lanes : Balanced(l)
<1> TAKE l \in Lanes
<1>1. CASE UNCHANGED vars
  BY <1>1, Steady DEF vars, shared, state, clients
<1> QED
  BY <1>1, NoneRevives, ClientBalanced, ManagerBalanced, TimeBalanced DEF Next

\* What lane l has counted starts at 0, stays, or grows below the limit.
CountStep(l) ==
  \/ lanes'[l].assignments = 0
  \/ lanes'[l].state = lanes[l].state /\ lanes'[l].assignments = lanes[l].assignments
  \/ lanes'[l].assignments < AssignmentLimit

\* A rotation that works starts the count again.
LEMMA RotateToCounts ==
  ASSUME TypeOK, NEW k \in Lanes, NEW lane \in Lane, NEW ok \in BOOLEAN, RotateTo(k, lane, ok),
         NEW l \in Lanes, lanes'[l].state = "Ready"
  PROVE  CountStep(l)
<1>1. lanes' = [lanes EXCEPT ![k] = Regenerate(lane, k, runtime, ok)]
  BY DEF RotateTo
<1>2. CASE l # k
  BY <1>1, <1>2 DEF TypeOK, CountStep
<1>3. CASE l = k
  <2>1. lanes'[l] = Regenerate(lane, k, runtime, ok)
    BY <1>1, <1>3 DEF TypeOK
  <2>2. CASE ok
    BY <2>1, <2>2 DEF Regenerate, RotateLane, CountStep
  <2>3. CASE ~ok
    <3>1. lanes'[l].state = "Failed"
      BY <2>1, <2>3 DEF Regenerate, RotateLane, Lane
    <3> QED  BY <3>1
  <2> QED  BY <2>2, <2>3
<1> QED  BY <1>2, <1>3

\* No step counts an assignment up to the limit and leaves the lane as it is.
LEMMA NextCounts ==
  ASSUME Typed, [Next]_vars, NEW l \in Lanes, lanes'[l].state = "Ready"
  PROVE  CountStep(l)
<1> USE DEF state
<1>0. TypeOK /\ lanes[l] \in Lane
  BY DEF Typed, TypeOK
<1>1. CASE lanes' = lanes
  BY <1>1 DEF CountStep
<1>2. ASSUME NEW k \in Lanes, NEW lane \in Lane, NEW ok \in BOOLEAN, RotateTo(k, lane, ok)
      PROVE  CountStep(l)
  BY <1>0, <1>2, RotateToCounts
<1>3. CASE AssignCounted
  <2> DEFINE k == Head(queue).lane
  <2>1. k \in Lanes /\ lanes[k].assignments + 1 < AssignmentLimit
        /\ lanes' = [lanes EXCEPT ![k].assignments = @ + 1]
    BY <1>0, <1>3, ReceiveType DEF AssignCounted
  <2>2. CASE l = k
    <3>1. lanes'[l].assignments = lanes[l].assignments + 1
      BY <1>0, <2>1, <2>2 DEF TypeOK, Lane
    <3> QED  BY <2>1, <2>2, <3>1 DEF CountStep
  <2>3. CASE l # k
    BY <1>0, <2>1, <2>3 DEF TypeOK, CountStep
  <2> QED  BY <2>2, <2>3
<1>4. ASSUME NEW ok \in BOOLEAN, AssignRotates(ok) PROVE CountStep(l)
  <2> DEFINE k == Head(queue).lane
             counted == [lanes[k] EXCEPT !.assignments = @ + 1]
  <2>1. k \in Lanes /\ RotateTo(k, counted, ok)
    BY <1>0, <1>4, ReceiveType DEF AssignRotates
  <2>2. counted \in Lane
    BY <1>0, <2>1, CountType DEF TypeOK
  <2> HIDE DEF counted, k
  <2> QED  BY <1>2, <2>1, <2>2
<1>5. ASSUME NEW ok \in BOOLEAN, MgrRotate(ok) PROVE CountStep(l)
  <2> DEFINE k == Head(queue).lane
  <2>1. k \in Lanes /\ RotateTo(k, lanes[k], ok) /\ lanes[k] \in Lane
    BY <1>0, <1>5, ReceiveType DEF MgrRotate, TypeOK
  <2> QED  BY <1>2, <2>1
<1>6. ASSUME NEW k \in Lanes, NEW ok \in BOOLEAN, RestartLane(k, ok) PROVE CountStep(l)
  BY <1>0, <1>2, <1>6 DEF RestartLane, TypeOK
<1>7. ASSUME NEW ok \in SUBSET Lanes, Tick(ok) PROVE CountStep(l)
  <2>1. lanes'[l] = IF l \in Due THEN Regenerate(lanes[l], l, runtime, l \in ok) ELSE lanes[l]
    BY <1>7 DEF Tick, TickThe
  <2>2. CASE l \in Due /\ l \in ok
    BY <2>1, <2>2 DEF Regenerate, RotateLane, CountStep
  <2>3. CASE l \in Due /\ l \notin ok
    <3>1. lanes'[l].state = "Failed"
      BY <1>0, <2>1, <2>3 DEF Regenerate, RotateLane, Lane
    <3> QED  BY <3>1
  <2>4. CASE l \notin Due
    BY <2>1, <2>4 DEF CountStep
  <2> QED  BY <2>2, <2>3, <2>4
<1>8. ASSUME NEW s \in {"Retiring", "Failed"},
             lanes' = [k \in Lanes |-> [lanes[k] EXCEPT !.state = s]]
      PROVE  FALSE
  <2>1. lanes'[l].state = s
    BY <1>0, <1>8 DEF Lane
  <2> QED  BY <2>1
<1>9. CASE RestartMark
  BY <1>8, <1>9 DEF RestartMark
<1>10. CASE RestartStartFails
  BY <1>8, <1>10 DEF RestartStartFails
<1>11. ASSUME NEW c \in Clients, ClientStep(c) \/ ClientChoice(c) PROVE CountStep(l)
  BY <1>1, <1>11, ClientAlone
<1>12. CASE UNCHANGED vars
  BY <1>1, <1>12 DEF vars
<1>13. CASE AssignIgnored \/ RestartBegin \/ RestartStop \/ RestartStopFails \/ RestartStart
            \/ Stopping \/ Compute \/ Publish \/ \E k \in Lanes : Age(k)
  BY <1>1, <1>13 DEF AssignIgnored, RestartBegin, RestartStop, RestartStopFails, RestartStart,
     Stopping, BeginShutdown, ShutdownStop, Exit, Compute, Publish, Age
<1> QED
  BY <1>3, <1>4, <1>5, <1>6, <1>7, <1>9, <1>10, <1>11, <1>12, <1>13
  DEF Next, ManagerStep, Assigned, Restarting, Ticks

-----------------------------------------------------------------------------
(* The invariant.                                                          *)

\* The proxies are counted, and what that rests on.
Counted == Typed /\ Generations /\ Past /\ Holding /\ AssignmentsCounted

\* What the property counts are the assignments of the current generation.
LEMMA QueuedCount ==
  \A l \in Lanes : QueuedAssigns(l) = Count(queue, l, lanes[l].epoch)
  BY DEF QueuedAssigns, Count, AssignsIn, IsAssign

\* Nothing has been handed out at first, and every step keeps the count.
LEMMA InitCounted == HInit => Counted
<1> SUFFICES ASSUME HInit PROVE Counted
  OBVIOUS
<1>0. Init /\ handed = [l \in Lanes |-> 0]
  BY DEF HInit
<1>1. Past /\ Holding
  BY <1>0 DEF Init, Past, Holding
<1>2. ASSUME NEW l \in Lanes PROVE handed[l] = lanes[l].assignments + QueuedAssigns(l)
  <2>1. Count(queue, l, lanes[l].epoch) = 0
    BY <1>0, CountNone DEF Init
  <2>2. lanes[l].assignments = 0
    BY <1>0 DEF Init, NewLane
  <2> QED  BY <1>0, <2>1, <2>2, QueuedCount
<1>3. AssignmentLimit # 0 => \A l \in Lanes : lanes[l].assignments < AssignmentLimit
  BY <1>0 DEF Init, NewLane
<1> QED
  BY <1>0, <1>1, <1>2, <1>3, InitTyped, InitGenerations
  DEF Counted, AssignmentsCounted, ReadyIds

LEMMA NextCounted == Counted /\ [HNext]_<<vars, handed>> => Counted'
<1> SUFFICES ASSUME Counted, [HNext]_<<vars, handed>> PROVE Counted'
  OBVIOUS
<1>0. [Next]_vars
  BY DEF HNext
<1>1. Typed' /\ Generations' /\ Past' /\ Holding'
  BY <1>0, NextTyped, NextGenerations, NextPast, NextHolding DEF Counted
<1>2. ASSUME AssignmentLimit # 0, Alive', NEW l \in Lanes, lanes'[l].state = "Ready"
      PROVE  handed'[l] = lanes'[l].assignments + Count(queue', l, lanes'[l].epoch)
  <2>0. /\ Balanced(l) /\ Alive
        /\ lanes[l].epoch \in Nat /\ lanes[l].assignments \in Nat /\ lanes'[l].assignments \in Nat
    BY <1>0, <1>1, <1>2, NextBalanced, NoneRevives DEF Counted, Typed, TypeOK, Lane, Epochs
  <2>1. CASE UNCHANGED <<vars, handed>>
    <3>1. handed[l] = lanes[l].assignments + QueuedAssigns(l)
      BY <1>2, <2>0, <2>1 DEF Counted, AssignmentsCounted, ReadyIds, vars, state
    <3> QED  BY <2>1, <3>1, QueuedCount DEF vars, state, shared
  <2>2. CASE HNext /\ Fresh(l)
    <3>1. handed'[l] = 0
      BY <2>0, <2>2 DEF HNext, Fresh
    <3>2. \A i \in 1 .. Len(queue') : ~IsAssign(queue'[i], l, lanes[l].epoch + 1)
      BY <1>0, <2>0, QueuedPast DEF Counted, IsAssign
    <3>3. Count(queue', l, lanes'[l].epoch) = 0
      BY <2>2, <3>2, CountNone DEF Fresh
    <3> QED  BY <2>2, <3>1, <3>3 DEF Fresh
  <2>3. CASE HNext /\ ~Fresh(l)
    <3>1. /\ lanes'[l].epoch = lanes[l].epoch /\ lanes[l].state = "Ready"
          /\ lanes'[l].assignments + Count(queue', l, lanes[l].epoch)
               = lanes[l].assignments + Count(queue, l, lanes[l].epoch) + Cardinality(Returning(l))
      BY <1>2, <2>0, <2>3 DEF Balanced
    <3>2. handed'[l] = handed[l] + Cardinality(Returning(l))
      BY <1>2, <2>3, <3>1 DEF HNext
    <3>3. handed[l] = lanes[l].assignments + Count(queue, l, lanes[l].epoch)
      BY <1>2, <2>0, <3>1, QueuedCount DEF Counted, AssignmentsCounted, ReadyIds
    <3> QED  BY <3>1, <3>2, <3>3
  <2> QED  BY <2>1, <2>2, <2>3
<1>3. ASSUME AssignmentLimit # 0, Alive', NEW l \in Lanes, lanes'[l].state = "Ready"
      PROVE  lanes'[l].assignments < AssignmentLimit
  <2>1. CountStep(l) /\ Alive
    BY <1>0, <1>3, NextCounts, NoneRevives DEF Counted
  <2>2. lanes[l].state = "Ready" => lanes[l].assignments < AssignmentLimit
    BY <1>3, <2>1 DEF Counted, AssignmentsCounted, ReadyIds
  <2> QED  BY <1>3, <2>1, <2>2 DEF CountStep
<1>4. AssignmentsCounted'
  <2>1. \A l \in Lanes : QueuedAssigns(l)' = Count(queue', l, lanes'[l].epoch)
    BY DEF QueuedAssigns, Count, AssignsIn, IsAssign
  <2> QED  BY <1>2, <1>3, <2>1 DEF AssignmentsCounted, ReadyIds
<1> QED  BY <1>1, <1>4 DEF Counted

\* after_assignments counts the proxies that were returned: while a lane works,
\* each proxy of its generation has been counted or its assignment is queued, none
\* twice, and none of an earlier generation, and no working lane has counted as many
\* as the limit; for any limit and any number of callers, lanes, rotations and restarts.
THEOREM CountsHandedOut == HSpec => []AssignmentsCounted
<1>1. Counted => AssignmentsCounted
  BY DEF Counted
<1> QED  BY <1>1, InitCounted, NextCounted, PTL DEF HSpec
=============================================================================
