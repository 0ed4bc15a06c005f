--------------------------- MODULE TorPoolProofs ---------------------------
(***************************************************************************)
(* Proofs about TorPool for any number of clients, lanes, epochs and runs, *)
(* any policy and any combination of failures.                             *)
(***************************************************************************)
EXTENDS TorPool, SequenceTheorems, TLAPS

USE NumLanesAssumption, MaxEpochAssumption, RngAssumption, NoneAssumption, LimitAssumption

\* What a client's position says of its call: only a rotation inserts and writes,
\* and a call about a lane has the lane.
CallOK ==
  \A c \in Clients :
    /\ op[c] \in {"rotate", "key"} => arg[c] \in Lanes
    /\ pc[c] \in {"insert", "write"} => op[c] = "rotate"

Typed == TypeOK /\ CallOK

-----------------------------------------------------------------------------
(* Lanes.                                                                  *)

\* A rotation that may end so yields a lane.
LEMMA RegenerateType ==
  ASSUME NEW lane \in Lane, NEW l \in Lanes, NEW run \in Nat, NEW ok \in BOOLEAN,
         RotateMayEnd(lane, ok)
  PROVE  Regenerate(lane, l, run, ok) \in Lane
<1>1. CASE ok
  <2>1. lane.epoch + 1 \in Epochs
    BY <1>1 DEF Lane, Epochs, RotateMayEnd
  <2>2. Endpoint(l, lane.epoch + 1, run) \in LaneEndpoint
    BY <2>1 DEF LaneEndpoint, Endpoint
  <2> QED
    BY <1>1, <2>1, <2>2 DEF Lane, LaneState, Regenerate, RotateLane
<1>2. CASE ~ok
  BY <1>2 DEF Lane, LaneState, Regenerate, RotateLane
<1> QED  BY <1>1, <1>2

LEMMA NewLaneType ==
  ASSUME NEW l \in Lanes, NEW run \in Nat
  PROVE  NewLane(l, run) \in Lane
  BY DEF NewLane, Lane, LaneEndpoint, LaneState, Epochs, Endpoint

\* Changing only the state of a lane leaves a lane.
LEMMA RestateType ==
  ASSUME NEW lane \in Lane, NEW st \in LaneState
  PROVE  [lane EXCEPT !.state = st] \in Lane
  BY DEF Lane

\* So does counting an assignment.
LEMMA CountType ==
  ASSUME NEW lane \in Lane
  PROVE  [lane EXCEPT !.assignments = @ + 1] \in Lane
<1>1. lane.assignments + 1 \in Nat
  BY DEF Lane
<1> QED  BY <1>1 DEF Lane

-----------------------------------------------------------------------------
(* Commands.                                                               *)

LEMMA CommandTypes ==
  /\ \A e \in LaneEndpoint : Assign(e) \in Command
  /\ \A l \in Lanes, c \in Clients : Rotate(l, c) \in Command
  /\ \A c \in Clients : Restart(c) \in Command /\ Shutdown(c) \in Command
  BY DEF Command, Assign, Rotate, Restart, Shutdown, LaneEndpoint, Epochs

\* The command that is received, and what remains of the queue.
LEMMA ReceiveType ==
  ASSUME TypeOK, NEW t, Receive(t)
  PROVE  /\ Head(queue) \in Command /\ queue' \in Seq(Command)
         /\ Head(queue).type = t
         /\ t \in {"Assign", "Rotate"} => Head(queue).lane \in Lanes
         /\ Head(queue).from \in Clients \cup {None}
  BY DEF TypeOK, Receive, Command

\* Forgetting a client leaves a queue of the same commands.
LEMMA UnheardType ==
  ASSUME NEW q \in Seq(Command), NEW c \in Clients
  PROVE  /\ Unheard(q, c) \in Seq(Command)
         /\ Len(Unheard(q, c)) = Len(q)
         /\ \A i \in 1 .. Len(q) : /\ Unheard(q, c)[i].type = q[i].type
                                   /\ Unheard(q, c)[i].lane = q[i].lane
<1> DEFINE f(i) == [q[i] EXCEPT !.from = IF @ = c THEN None ELSE @]
<1>1. ASSUME NEW i \in 1 .. Len(q) PROVE f(i) \in Command /\ f(i).type = q[i].type /\ f(i).lane = q[i].lane
  <2>1. q[i] \in Command
    BY ElementOfSeq
  <2> QED  BY <2>1 DEF Command
<1>2. Unheard(q, c) = [i \in 1 .. Len(q) |-> f(i)]
  BY DEF Unheard
<1>3. Len(q) \in Nat
  BY LenProperties
<1> HIDE DEF f
<1>4. Unheard(q, c) \in [1 .. Len(q) -> Command]
  BY <1>1, <1>2
<1>5. Unheard(q, c) \in Seq(Command)
  BY <1>3, <1>4, SeqDef
<1>6. Len(Unheard(q, c)) = Len(q)
  BY <1>3, <1>4, <1>5
<1> QED  BY <1>1, <1>2, <1>5, <1>6

-----------------------------------------------------------------------------
(* Type correctness.                                                       *)

LEMMA InitTyped == Init => Typed
<1> SUFFICES ASSUME Init PROVE Typed
  OBVIOUS
<1>1. lanes \in [Lanes -> Lane]
  BY NewLaneType DEF Init
<1>2. ready \in SUBSET LaneEndpoint
  BY NewLaneType DEF Init, Lane
<1>3. queue \in Seq(Command)
  BY DEF Init
<1>4. /\ unavailable \in SUBSET Lanes /\ closed \in BOOLEAN /\ handle \in BOOLEAN
      /\ expired \in SUBSET Lanes /\ runtime \in Nat /\ tor \in Nat /\ runs \in Nat
  BY DEF Init
<1>5. /\ mpc \in ManagerPc /\ serving \in Command \cup {NoCommand} /\ outcome \in Outcomes
      /\ pending \in SUBSET LaneEndpoint /\ todo \in SUBSET Lanes
  BY DEF Init, ManagerPc, Outcomes
<1>6. /\ pc \in [Clients -> ClientPc] /\ op \in [Clients -> AllOps \cup {"none", "join"}]
      /\ arg \in [Clients -> Lanes \cup {None}]
      /\ snap \in [Clients -> SUBSET LaneEndpoint] /\ reply \in [Clients -> Replies]
  BY DEF Init, ClientPc, Replies, Outcomes
<1>7. CallOK
  BY DEF Init, CallOK
<1> QED
  BY <1>1, <1>2, <1>3, <1>4, <1>5, <1>6, <1>7 DEF Typed, TypeOK

\* What concerns the clients, and what they share with the manager.
ClientsTyped ==
  /\ pc \in [Clients -> ClientPc]
  /\ op \in [Clients -> AllOps \cup {"none", "join"}]
  /\ arg \in [Clients -> Lanes \cup {None}]
  /\ snap \in [Clients -> SUBSET LaneEndpoint]
  /\ reply \in [Clients -> Replies]
  /\ CallOK

RestTyped ==
  /\ ready \in SUBSET LaneEndpoint /\ unavailable \in SUBSET Lanes
  /\ closed \in BOOLEAN /\ queue \in Seq(Command) /\ handle \in BOOLEAN
  /\ lanes \in [Lanes -> Lane] /\ expired \in SUBSET Lanes
  /\ runtime \in Nat /\ tor \in Nat /\ runs \in Nat
  /\ mpc \in ManagerPc /\ serving \in Command \cup {NoCommand}
  /\ outcome \in Outcomes /\ pending \in SUBSET LaneEndpoint
  /\ todo \in SUBSET Lanes

LEMMA TypedParts == Typed <=> ClientsTyped /\ RestTyped
BY DEF Typed, TypeOK, ClientsTyped, RestTyped

LEMMA TypedPartsNext == Typed' <=> ClientsTyped' /\ RestTyped'
BY DEF Typed, TypeOK, ClientsTyped, RestTyped

LEMMA FinishTyped ==
  ASSUME ClientsTyped, NEW c \in Clients, Finish(c)
  PROVE  ClientsTyped'
<1> USE DEF ClientsTyped, Finish
<1>1. /\ pc' \in [Clients -> ClientPc]
      /\ op' \in [Clients -> AllOps \cup {"none", "join"}]
  BY DEF ClientPc
<1>2. arg' \in [Clients -> Lanes \cup {None}] /\ snap' \in [Clients -> SUBSET LaneEndpoint]
  OBVIOUS
<1>3. reply' \in [Clients -> Replies]
  BY DEF Replies, Outcomes
<1>4. CallOK'
  BY DEF CallOK
<1> QED  BY <1>1, <1>2, <1>3, <1>4

LEMMA GotoTyped ==
  ASSUME ClientsTyped, NEW c \in Clients, NEW w \in ClientPc, Goto(c, w),
         w \in {"insert", "write"} => op[c] = "rotate"
  PROVE  ClientsTyped'
<1> USE DEF ClientsTyped, Goto
<1>1. pc' \in [Clients -> ClientPc]
  OBVIOUS
<1>2. CallOK'
  BY DEF CallOK
<1> QED  BY <1>1, <1>2

LEMMA RestKept ==
  ASSUME RestTyped, UNCHANGED <<shared, state, manager>>
  PROVE  RestTyped'
BY DEF RestTyped, shared, state, manager

LEMMA QueueTyped ==
  ASSUME RestTyped, NEW m \in Command, queue' = Append(queue, m) \/ queue' = queue,
         UNCHANGED <<ready, closed, handle, state, manager>>,
         unavailable' \in SUBSET Lanes
  PROVE  RestTyped'
<1>1. queue' \in Seq(Command)
  BY AppendProperties DEF RestTyped
<1> QED  BY <1>1 DEF RestTyped, state, manager

\* Every step of a client, and everything a client may choose to do.
LEMMA ClientTyped ==
  ASSUME Typed, NEW c \in Clients, ClientStep(c) \/ ClientChoice(c)
  PROVE  Typed'
<1> SUFFICES ClientsTyped' /\ RestTyped'
  BY TypedPartsNext
<1>0. ClientsTyped /\ RestTyped
  BY TypedParts
<1> USE DEF ClientPc
<1>1. ASSUME NEW o \in AllOps, NEW l \in Lanes \cup {None}, Call(c, o, l)
      PROVE  ClientsTyped' /\ RestTyped'
  <2>1. RestTyped'
    BY <1>0, <1>1, RestKept DEF Call
  <2>2. /\ pc' \in [Clients -> ClientPc]
        /\ op' \in [Clients -> AllOps \cup {"none", "join"}]
        /\ arg' \in [Clients -> Lanes \cup {None}]
        /\ snap' \in [Clients -> SUBSET LaneEndpoint] /\ reply' \in [Clients -> Replies]
    BY <1>0, <1>1 DEF ClientsTyped, Call
  <2>3. CallOK'
    BY <1>0, <1>1 DEF ClientsTyped, Call, CallOK
  <2> QED  BY <2>1, <2>2, <2>3 DEF ClientsTyped
<1>2. CASE ReadSelect(c)
  <2>1. RestTyped'
    BY <1>0, <1>2, RestKept DEF ReadSelect
  <2>2. ASSUME NEW e \in Candidates(c), pc' = [pc EXCEPT ![c] = "send"],
               snap' = [snap EXCEPT ![c] = {e}], UNCHANGED <<op, arg, reply>>
        PROVE  ClientsTyped'
    <3>1. {e} \in SUBSET LaneEndpoint
      BY <1>0 DEF RestTyped, Candidates
    <3>2. CallOK'
      BY <1>0, <2>2 DEF ClientsTyped, CallOK
    <3> QED  BY <1>0, <2>2, <3>1, <3>2 DEF ClientsTyped
  <2>3. CASE Candidates(c) = {} /\ Finish(c)
    BY <1>0, <2>1, <2>3, FinishTyped
  <2> QED  BY <1>2, <2>1, <2>2, <2>3 DEF ReadSelect
<1>3. CASE SendAssign(c)
  <2>1. PICK e \in snap[c] : queue' = IF Alive THEN Append(queue, Assign(e)) ELSE queue
    BY <1>3 DEF SendAssign
  <2>2. Assign(e) \in Command
    BY <1>0, CommandTypes DEF ClientsTyped
  <2>3. UNCHANGED <<ready, unavailable, closed, handle, state, manager>> /\ Finish(c)
    BY <1>3 DEF SendAssign
  <2>4. RestTyped'
    BY <1>0, <2>1, <2>2, <2>3, QueueTyped DEF RestTyped
  <2> QED  BY <1>0, <2>3, <2>4, FinishTyped
<1>4. CASE ReadRotate(c)
  <2>1. RestTyped'
    BY <1>0, <1>4, RestKept DEF ReadRotate
  <2>2. CASE \E e \in ready : e.lane = arg[c]
    <3>1. /\ pc' = [pc EXCEPT ![c] = "insert"] /\ op[c] = "rotate"
          /\ snap' = [snap EXCEPT ![c] = ready] /\ UNCHANGED <<op, arg, reply>>
      BY <1>4, <2>2 DEF ReadRotate
    <3>2. CallOK'
      BY <1>0, <3>1 DEF ClientsTyped, CallOK
    <3> QED  BY <1>0, <2>1, <3>1, <3>2 DEF ClientsTyped, RestTyped
  <2>3. CASE ~ \E e \in ready : e.lane = arg[c]
    BY <1>0, <1>4, <2>1, <2>3, FinishTyped DEF ReadRotate
  <2> QED  BY <2>2, <2>3
<1>5. CASE InsertUnavailable(c)
  <2>1. op[c] = "rotate" /\ arg[c] \in Lanes
    BY <1>0, <1>5 DEF InsertUnavailable, ClientsTyped, CallOK
  <2>2. RestTyped'
    BY <1>0, <1>5, <2>1 DEF InsertUnavailable, RestTyped, state, manager
  <2> QED  BY <1>0, <1>5, <2>1, <2>2, GotoTyped DEF InsertUnavailable
<1>6. CASE WriteFiltered(c)
  <2>1. RestTyped'
    BY <1>0, <1>6 DEF WriteFiltered, RestTyped, ClientsTyped, state, manager
  <2>2. CallOK'
    BY <1>0, <1>6 DEF WriteFiltered, ClientsTyped, CallOK
  <2> QED  BY <1>0, <1>6, <2>1, <2>2 DEF WriteFiltered, ClientsTyped
<1>7. CASE SendRotate(c)
  <2>1. arg[c] \in Lanes /\ Rotate(arg[c], c) \in Command
    BY <1>0, <1>7, CommandTypes DEF SendRotate, ClientsTyped, CallOK
  <2>2. /\ queue' = Append(queue, Rotate(arg[c], c)) \/ queue' = queue
        /\ unavailable' \in SUBSET Lanes
        /\ UNCHANGED <<ready, closed, handle, state, manager>>
    BY <1>0, <1>7 DEF SendRotate, RestTyped
  <2>3. RestTyped'
    BY <1>0, <2>1, <2>2, QueueTyped
  <2>4. Goto(c, "wait") \/ Finish(c)
    BY <1>7 DEF SendRotate
  <2> QED  BY <1>0, <2>3, <2>4, GotoTyped, FinishTyped
<1>8. CASE SendRestart(c)
  <2>1. Restart(c) \in Command
    BY CommandTypes
  <2>2. /\ queue' = Append(queue, Restart(c)) \/ queue' = queue
        /\ unavailable' \in SUBSET Lanes
        /\ UNCHANGED <<ready, closed, handle, state, manager>>
    BY <1>0, <1>8 DEF SendRestart, RestTyped
  <2>3. RestTyped'
    BY <1>0, <2>1, <2>2, QueueTyped
  <2>4. Goto(c, "wait") \/ Finish(c)
    BY <1>8 DEF SendRestart
  <2> QED  BY <1>0, <2>3, <2>4, GotoTyped, FinishTyped
<1>9. CASE CallShutdown(c)
  <2>1. RestTyped'
    BY <1>0, <1>9 DEF CallShutdown, RestTyped, state, manager
  <2>2. /\ pc' \in [Clients -> ClientPc]
        /\ op' \in [Clients -> AllOps \cup {"none", "join"}]
    BY <1>0, <1>9 DEF CallShutdown, ClientsTyped, AllOps
  <2>3. CallOK'
    BY <1>0, <1>9 DEF CallShutdown, ClientsTyped, CallOK
  <2> QED  BY <1>0, <1>9, <2>1, <2>2, <2>3 DEF CallShutdown, ClientsTyped
<1>10. CASE SendShutdown(c)
  <2>1. Shutdown(c) \in Command
    BY CommandTypes
  <2>2. /\ queue' = Append(queue, Shutdown(c)) \/ queue' = queue
        /\ unavailable' \in SUBSET Lanes
        /\ UNCHANGED <<ready, closed, handle, state, manager>>
    BY <1>0, <1>10 DEF SendShutdown, RestTyped
  <2>3. RestTyped'
    BY <1>0, <2>1, <2>2, QueueTyped
  <2>4. Goto(c, "wait") \/ Goto(c, "join")
    BY <1>10 DEF SendShutdown
  <2> QED  BY <1>0, <2>3, <2>4, GotoTyped
<1>11. CASE Return(c)
  <2>1. RestTyped' /\ (Goto(c, "join") \/ Finish(c))
    BY <1>0, <1>11, RestKept DEF Return
  <2> QED  BY <1>0, <2>1, GotoTyped, FinishTyped
<1>12. CASE TakeHandle(c)
  <2>1. RestTyped'
    BY <1>0, <1>12 DEF TakeHandle, RestTyped, state, manager
  <2>2. Goto(c, "joining") \/ Goto(c, "returned")
    BY <1>12 DEF TakeHandle
  <2> QED  BY <1>0, <2>1, <2>2, GotoTyped
<1>13. CASE Joined(c)
  <2>1. RestTyped' /\ Goto(c, "returned")
    BY <1>0, <1>13, RestKept DEF Joined
  <2> QED  BY <1>0, <2>1, GotoTyped
<1>14. CASE Cancel(c)
  <2>1. queue' \in Seq(Command)
    BY <1>0, <1>14, UnheardType DEF RestTyped, Cancel
  <2>2. serving' \in Command \cup {NoCommand}
    BY <1>0, <1>14 DEF RestTyped, Cancel, Command, NoCommand
  <2>3. RestTyped'
    BY <1>0, <1>14, <2>1, <2>2 DEF RestTyped, Cancel, state
  <2> QED  BY <1>0, <1>14, <2>3, FinishTyped DEF Cancel
<1>15. CASE Drop(c)
  <2>1. RestTyped' /\ Goto(c, "gone")
    BY <1>0, <1>15, RestKept DEF Drop
  <2> QED  BY <1>0, <2>1, GotoTyped
<1> QED
  BY <1>1, <1>2, <1>3, <1>4, <1>5, <1>6, <1>7, <1>8, <1>9, <1>10, <1>11, <1>12,
     <1>13, <1>14, <1>15 DEF ClientStep, ClientChoice

\* A rotation keeps the lanes lanes.
LEMMA RotateToType ==
  ASSUME TypeOK, NEW l \in Lanes, NEW lane \in Lane, NEW ok \in BOOLEAN, RotateTo(l, lane, ok)
  PROVE  /\ lanes' \in [Lanes -> Lane] /\ expired' \in SUBSET Lanes
         /\ runtime' \in Nat /\ tor' \in Nat /\ runs' \in Nat
<1>1. Regenerate(lane, l, runtime, ok) \in Lane
  BY RegenerateType DEF TypeOK, RotateTo
<1> QED
  BY <1>1 DEF TypeOK, RotateTo

LEMMA ReadyLanesType == TypeOK => ReadyLanes \in SUBSET LaneEndpoint
  BY DEF TypeOK, ReadyLanes, ReadyIds, Lane

\* Where the clients stand is not for the manager to change.
LEMMA CallFrame == CallOK /\ UNCHANGED <<pc, op, arg, snap>> => CallOK'
  BY DEF CallOK

\* An answer is put into the slot of the client that is served.
LEMMA AnswerType ==
  ASSUME TypeOK, NEW r \in Replies, Answer(r)
  PROVE  reply' \in [Clients -> Replies]
  BY DEF TypeOK, Answer

\* Every step of the manager.
LEMMA ManagerTyped ==
  ASSUME Typed, ManagerStep
  PROVE  Typed'
<1> USE DEF shared, state, manager, clients
<1>0. TypeOK /\ CallOK
  BY DEF Typed
<1>1. CASE AssignIgnored
  BY <1>0, <1>1, ReceiveType, CallFrame DEF Typed, TypeOK, AssignIgnored
<1>2. CASE AssignCounted
  <2> DEFINE l == Head(queue).lane
  <2>1. l \in Lanes /\ queue' \in Seq(Command)
    BY <1>0, <1>2, ReceiveType DEF AssignCounted
  <2>2. [lanes[l] EXCEPT !.assignments = @ + 1] \in Lane
    BY <1>0, <2>1, CountType DEF TypeOK
  <2>3. lanes' \in [Lanes -> Lane]
    BY <1>0, <1>2, <2>2 DEF TypeOK, AssignCounted
  <2> QED
    BY <1>0, <1>2, <2>1, <2>3, CallFrame DEF Typed, TypeOK, AssignCounted
<1>3. ASSUME NEW ok \in BOOLEAN, AssignRotates(ok) PROVE Typed'
  <2> DEFINE l == Head(queue).lane
             counted == [lanes[l] EXCEPT !.assignments = @ + 1]
  <2>1. l \in Lanes /\ queue' \in Seq(Command)
    BY <1>0, <1>3, ReceiveType DEF AssignRotates
  <2>2. counted \in Lane
    BY <1>0, <2>1, CountType DEF TypeOK
  <2>3. RotateTo(l, counted, ok)
    BY <1>3 DEF AssignRotates
  <2> HIDE DEF counted, l
  <2>4. /\ lanes' \in [Lanes -> Lane] /\ expired' \in SUBSET Lanes
        /\ runtime' \in Nat /\ tor' \in Nat /\ runs' \in Nat
    BY <1>0, <2>1, <2>2, <2>3, RotateToType
  <2> QED
    BY <1>0, <1>3, <2>1, <2>4, CallFrame
       DEF Typed, TypeOK, AssignRotates, ThenPublish, ManagerPc, Outcomes
<1>4. ASSUME NEW ok \in BOOLEAN, MgrRotate(ok) PROVE Typed'
  <2> DEFINE l == Head(queue).lane
  <2>1. l \in Lanes /\ queue' \in Seq(Command) /\ Head(queue) \in Command
    BY <1>0, <1>4, ReceiveType DEF MgrRotate
  <2>2. RotateTo(l, lanes[l], ok) /\ unavailable' \in SUBSET Lanes
    BY <1>0, <1>4 DEF TypeOK, MgrRotate, Reinstate
  <2>3. /\ lanes' \in [Lanes -> Lane] /\ expired' \in SUBSET Lanes
        /\ runtime' \in Nat /\ tor' \in Nat /\ runs' \in Nat
    BY <1>0, <2>1, <2>2, RotateToType DEF TypeOK
  <2> QED
    BY <1>0, <1>4, <2>1, <2>2, <2>3, CallFrame
       DEF Typed, TypeOK, MgrRotate, ThenPublish, ManagerPc, Outcomes
<1>5. CASE Compute
  BY <1>0, <1>5, ReadyLanesType, CallFrame DEF Typed, TypeOK, Compute, ManagerPc
<1>6. CASE Publish
  <2>1. reply' \in [Clients -> Replies]
    BY <1>0, <1>6, AnswerType DEF TypeOK, Publish, Idle, Replies
  <2> QED
    BY <1>0, <1>6, <2>1, CallFrame DEF Typed, TypeOK, Publish, Idle, ManagerPc, Outcomes
<1>8. CASE RestartBegin
  BY <1>0, <1>8, ReceiveType, CallFrame DEF Typed, TypeOK, RestartBegin, ManagerPc
<1>9. CASE RestartMark
  <2>1. lanes' \in [Lanes -> Lane]
    BY <1>0, <1>9, RestateType DEF TypeOK, RestartMark, LaneState
  <2> QED
    BY <1>0, <1>9, <2>1, CallFrame DEF Typed, TypeOK, RestartMark, ManagerPc
<1>10. CASE RestartStop
  BY <1>0, <1>10, CallFrame DEF Typed, TypeOK, RestartStop, ManagerPc
<1>11. CASE RestartStopFails
  <2>1. reply' \in [Clients -> Replies]
    BY <1>0, <1>11, AnswerType DEF RestartStopFails, Idle, Replies, Outcomes
  <2> QED
    BY <1>0, <1>11, <2>1, CallFrame
       DEF Typed, TypeOK, RestartStopFails, Idle, ManagerPc, Outcomes
<1>12. CASE RestartStart
  BY <1>0, <1>12, CallFrame DEF Typed, TypeOK, RestartStart, ManagerPc
<1>13. CASE RestartStartFails
  <2>1. lanes' \in [Lanes -> Lane]
    BY <1>0, <1>13, RestateType DEF TypeOK, RestartStartFails, LaneState
  <2> QED
    BY <1>0, <1>13, <2>1, CallFrame
       DEF Typed, TypeOK, RestartStartFails, ManagerPc, Outcomes
<1>14. ASSUME NEW l \in Lanes, NEW ok \in BOOLEAN, RestartLane(l, ok) PROVE Typed'
  <2>1. /\ lanes' \in [Lanes -> Lane] /\ expired' \in SUBSET Lanes
        /\ runtime' \in Nat /\ tor' \in Nat /\ runs' \in Nat
    BY <1>0, <1>14, RotateToType DEF TypeOK, RestartLane
  <2>2. unavailable' \in SUBSET Lanes /\ todo' \in SUBSET Lanes
    BY <1>0, <1>14 DEF TypeOK, RestartLane, Reinstate
  <2> QED
    BY <1>0, <1>14, <2>1, <2>2, CallFrame
       DEF Typed, TypeOK, RestartLane, ManagerPc, Outcomes
<1>15. CASE BeginShutdown
  <2>1. queue' \in Seq(Command) /\ serving' \in Command \cup {NoCommand}
    BY <1>0, <1>15, ReceiveType DEF TypeOK, BeginShutdown
  <2> QED
    BY <1>0, <1>15, <2>1, CallFrame DEF Typed, TypeOK, BeginShutdown, ManagerPc
<1>16. ASSUME NEW ok \in BOOLEAN, ShutdownStop(ok) PROVE Typed'
  <2>1. reply' \in [Clients -> Replies]
    BY <1>0, <1>16, AnswerType DEF ShutdownStop, Replies, Outcomes
  <2> QED
    BY <1>0, <1>16, <2>1, CallFrame DEF Typed, TypeOK, ShutdownStop, ManagerPc
<1>17. CASE Exit
  BY <1>0, <1>17, CallFrame DEF Typed, TypeOK, Exit, ManagerPc, Replies
<1> QED
  BY <1>1, <1>2, <1>3, <1>4, <1>5, <1>6, <1>8, <1>9, <1>10, <1>11, <1>12,
     <1>13, <1>14, <1>15, <1>16, <1>17 DEF ManagerStep, Assigned, Restarting, Stopping

\* The steps of time: a tick rotates every lane that is due, each as it ends.
LEMMA TimeTyped ==
  ASSUME Typed, Ticks \/ \E l \in Lanes : Age(l)
  PROVE  Typed'
<1> USE DEF shared, manager, clients
<1>0. TypeOK /\ CallOK
  BY DEF Typed
<1>1. ASSUME NEW ok \in SUBSET Lanes, Tick(ok) PROVE Typed'
  <2>1. \A l \in Due : Regenerate(lanes[l], l, runtime, l \in ok) \in Lane
    <3> TAKE l \in Due
    <3> DEFINE b == l \in ok
    <3>1. l \in Lanes /\ b \in BOOLEAN /\ RotateMayEnd(lanes[l], b)
      BY <1>1 DEF Tick, TickThe, Due, ReadyIds
    <3> HIDE DEF b
    <3>2. Regenerate(lanes[l], l, runtime, b) \in Lane
      BY <1>0, <3>1, RegenerateType DEF TypeOK
    <3> QED  BY <3>2 DEF b
  <2>2. lanes' \in [Lanes -> Lane]
    BY <1>0, <1>1, <2>1 DEF TypeOK, Tick, TickThe
  <2> QED
    BY <1>0, <1>1, <2>2, CallFrame DEF Typed, TypeOK, Tick, TickThe, ThenPublish, ManagerPc, Outcomes
<1>2. ASSUME NEW l \in Lanes, Age(l) PROVE Typed'
  BY <1>0, <1>2, CallFrame DEF Typed, TypeOK, Age
<1> QED  BY <1>1, <1>2 DEF Ticks

LEMMA NextTyped == Typed /\ [Next]_vars => Typed'
<1>1. ASSUME Typed, UNCHANGED vars PROVE Typed'
  BY <1>1 DEF Typed, TypeOK, CallOK, vars, shared, state, manager, clients
<1> QED
  BY <1>1, ClientTyped, ManagerTyped, TimeTyped DEF Next

\* The pool's state has its type in every reachable state, and each client's
\* position fits its call.
THEOREM Typing == Spec => []Typed
  BY InitTyped, NextTyped, PTL DEF Spec

\* What the runs check as TypeOK.
THEOREM TypeCorrect == Spec => []TypeOK
  BY Typing, PTL DEF Typed

-----------------------------------------------------------------------------
(* Lost updates are repaired.                                              *)
(*                                                                         *)
(* ReadyRepaired speaks of the manager at its select; what makes it true   *)
(* was computed two steps before, or holds of the phases of a restart.  So *)
(* the invariant says what every phase owes, always up to a rotation that  *)
(* is in flight: the lane it hid is Ready and unavailable, and whatever it *)
(* wrote into `ready' is overwritten when its command is served.           *)

Current == {lanes[l].endpoint : l \in ReadyIds}

PendingCurrent == mpc = "publish" /\ ~RotationInFlight => pending = Current
RestartHides   == mpc \in {"rs_mark", "rs_stop"} /\ ~RotationInFlight => ready = {}
StopsRetired   == mpc = "rs_stop" => ReadyIds = {}

Settled ==
  NoLaneLeaked /\ ReadyRepaired /\ PendingCurrent /\ RestartHides /\ StopsRetired

\* No rotation leaves its flight.
FlightKept == \A l \in Lanes : InFlight(l) => InFlight(l)'

\* What a command at the end of the queue does to the rotations queued.
LEMMA AppendQueued ==
  ASSUME queue \in Seq(Command), NEW m \in Command, queue' = Append(queue, m)
  PROVE  \A l \in Lanes : Queued(l) => Queued(l)'
  BY AppendProperties, LenProperties DEF Queued

\* What serving the first command does: only its own lane leaves the queue.
LEMMA TailQueued ==
  ASSUME queue \in Seq(Command), queue # <<>>, queue' = Tail(queue)
  PROVE  \A l \in Lanes :
           Queued(l) => Queued(l)' \/ (Head(queue).type = "Rotate" /\ Head(queue).lane = l)
<1>1. /\ Len(queue) \in Nat /\ Len(queue') = Len(queue) - 1
      /\ \A i \in 1 .. Len(queue') : queue'[i] = queue[i + 1]
  BY HeadTailProperties, LenProperties
<1>2. Head(queue) = queue[1]
  OBVIOUS
<1> QED
  <2> SUFFICES ASSUME NEW l \in Lanes, NEW i \in 1 .. Len(queue), i # 1,
                      queue[i].type = "Rotate", queue[i].lane = l
               PROVE  Queued(l)'
    BY <1>2 DEF Queued
  <2>1. i - 1 \in 1 .. Len(queue') /\ queue'[i - 1] = queue[i]
    BY <1>1
  <2> QED  BY <2>1 DEF Queued

\* Forgetting who asked does not take a rotation out of the queue.
LEMMA UnheardQueued ==
  ASSUME queue \in Seq(Command), NEW c \in Clients, queue' = Unheard(queue, c)
  PROVE  \A l \in Lanes : Queued(l) => Queued(l)'
  BY UnheardType DEF Queued

\* A step of client c keeps the flights if it keeps the queue's and its own.
LEMMA FlightFrame ==
  ASSUME NEW c \in Clients,
         \A d \in Clients \ {c} : pc'[d] = pc[d] /\ op'[d] = op[d] /\ arg'[d] = arg[d],
         \A l \in Lanes : Queued(l) => Queued(l)',
         \A l \in Lanes : HiddenBy(c, l) => HiddenBy(c, l)' \/ Queued(l)'
  PROVE  FlightKept
  BY DEF FlightKept, InFlight, HiddenBy

\* What a client can do to the shared state while the manager lives.
LEMMA ClientEffect ==
  ASSUME Typed, Alive, NEW c \in Clients, ClientStep(c) \/ ClientChoice(c)
  PROVE  /\ FlightKept
         /\ \A l \in unavailable' : l \in unavailable \/ InFlight(l)'
         /\ ready' = ready \/ RotationInFlight'
         /\ UNCHANGED <<lanes, mpc, pending>>
<1> DEFINE Goal == /\ FlightKept
                   /\ \A l \in unavailable' : l \in unavailable \/ InFlight(l)'
                   /\ ready' = ready \/ RotationInFlight'
                   /\ UNCHANGED <<lanes, mpc, pending>>
<1> USE DEF shared, state, manager
<1>0. TypeOK /\ CallOK
  BY DEF Typed
<1>a. ASSUME UNCHANGED queue PROVE \A l \in Lanes : Queued(l) => Queued(l)'
  BY <1>a DEF Queued
<1>1. ASSUME NEW o \in AllOps, NEW l \in Lanes \cup {None}, Call(c, o, l) PROVE Goal
  <2>1. FlightKept
    BY <1>0, <1>1, <1>a, FlightFrame DEF TypeOK, Call, HiddenBy
  <2> QED  BY <1>1, <2>1 DEF Call
<1>2. CASE ReadSelect(c)
  <2>1. FlightKept
    BY <1>0, <1>2, <1>a, FlightFrame DEF TypeOK, ReadSelect, Finish, HiddenBy
  <2> QED  BY <1>2, <2>1 DEF ReadSelect
<1>3. CASE SendAssign(c)
  <2>1. PICK e \in snap[c] : queue' = Append(queue, Assign(e))
    BY <1>3 DEF SendAssign
  <2>2. \A l \in Lanes : Queued(l) => Queued(l)'
    BY <1>0, <2>1, AppendQueued, CommandTypes DEF TypeOK
  <2>3. FlightKept
    BY <1>0, <1>3, <2>2, FlightFrame DEF TypeOK, SendAssign, Finish, HiddenBy
  <2> QED  BY <1>3, <2>3 DEF SendAssign
<1>4. CASE ReadRotate(c)
  <2>1. FlightKept
    BY <1>0, <1>4, <1>a, FlightFrame DEF TypeOK, ReadRotate, Finish, HiddenBy
  <2> QED  BY <1>4, <2>1 DEF ReadRotate
<1>5. CASE InsertUnavailable(c)
  <2>1. FlightKept
    BY <1>0, <1>5, <1>a, FlightFrame DEF TypeOK, InsertUnavailable, Goto, HiddenBy
  <2>2. ASSUME NEW l, l = arg[c] PROVE InFlight(l)'
    BY <1>0, <1>5, <2>2 DEF TypeOK, CallOK, InsertUnavailable, Goto, InFlight, HiddenBy
  <2> QED  BY <1>5, <2>1, <2>2 DEF InsertUnavailable
<1>6. CASE WriteFiltered(c)
  <2>1. FlightKept
    BY <1>0, <1>6, <1>a, FlightFrame DEF TypeOK, WriteFiltered, HiddenBy
  <2>2. arg[c] \in Lanes /\ InFlight(arg[c])'
    BY <1>0, <1>6 DEF TypeOK, CallOK, WriteFiltered, InFlight, HiddenBy
  <2> QED  BY <1>6, <2>1, <2>2 DEF WriteFiltered, RotationInFlight
<1>7. CASE SendRotate(c)
  <2>1. Rotate(arg[c], c) \in Command
    BY <1>0, <1>7, CommandTypes DEF CallOK, SendRotate
  <2>2. queue' = Append(queue, Rotate(arg[c], c)) /\ Goto(c, "wait")
    BY <1>7 DEF SendRotate
  <2>3. Rotate(arg[c], c).type = "Rotate" /\ Rotate(arg[c], c).lane = arg[c]
    BY DEF Rotate
  <2>4. \A l \in Lanes : Queued(l) => Queued(l)'
    BY <1>0, <2>1, <2>2, AppendQueued DEF TypeOK
  <2>5. \E i \in 1 .. Len(queue') : queue'[i].type = "Rotate" /\ queue'[i].lane = arg[c]
    BY <1>0, <2>1, <2>2, <2>3, AppendProperties, LenProperties DEF TypeOK
  <2>6. \A l \in Lanes : HiddenBy(c, l) => Queued(l)'
    BY <2>5 DEF Queued, HiddenBy
  <2>7. FlightKept
    BY <1>0, <2>2, <2>4, <2>6, FlightFrame DEF TypeOK, Goto
  <2>8. unavailable' = unavailable /\ ready' = ready /\ UNCHANGED <<lanes, mpc, pending>>
    BY <1>7 DEF SendRotate
  <2> QED  BY <2>7, <2>8
<1>8. CASE SendRestart(c)
  <2>1. queue' = Append(queue, Restart(c)) /\ Goto(c, "wait")
    BY <1>8 DEF SendRestart
  <2>2. \A l \in Lanes : Queued(l) => Queued(l)'
    BY <1>0, <2>1, AppendQueued, CommandTypes DEF TypeOK
  <2>3. FlightKept
    BY <1>0, <1>8, <2>1, <2>2, FlightFrame DEF TypeOK, SendRestart, Goto, HiddenBy
  <2> QED  BY <1>8, <2>3 DEF SendRestart
<1>9. CASE CallShutdown(c)
  <2>1. FlightKept
    BY <1>0, <1>9, <1>a, FlightFrame DEF TypeOK, CallShutdown, HiddenBy
  <2> QED  BY <1>9, <2>1 DEF CallShutdown
<1>10. CASE SendShutdown(c)
  <2>1. queue' = Append(queue, Shutdown(c)) /\ Goto(c, "wait")
    BY <1>10 DEF SendShutdown
  <2>2. \A l \in Lanes : Queued(l) => Queued(l)'
    BY <1>0, <2>1, AppendQueued, CommandTypes DEF TypeOK
  <2>3. FlightKept
    BY <1>0, <1>10, <2>1, <2>2, FlightFrame DEF TypeOK, SendShutdown, Goto, HiddenBy
  <2> QED  BY <1>10, <2>3 DEF SendShutdown
<1>11. CASE Return(c)
  <2>1. FlightKept
    BY <1>0, <1>11, <1>a, FlightFrame DEF TypeOK, Return, Goto, Finish, HiddenBy
  <2> QED  BY <1>11, <2>1 DEF Return
<1>12. CASE TakeHandle(c)
  <2>1. FlightKept
    BY <1>0, <1>12, <1>a, FlightFrame DEF TypeOK, TakeHandle, Goto, HiddenBy
  <2> QED  BY <1>12, <2>1 DEF TakeHandle
<1>13. CASE Joined(c)
  BY <1>13 DEF Joined, Alive
<1>14. CASE Cancel(c)
  <2>1. \A l \in Lanes : Queued(l) => Queued(l)'
    BY <1>0, <1>14, UnheardQueued DEF TypeOK, Cancel
  <2>2. FlightKept
    BY <1>0, <1>14, <2>1, FlightFrame DEF TypeOK, Cancel, Finish, HiddenBy
  <2> QED  BY <1>14, <2>2 DEF Cancel
<1>15. CASE Drop(c)
  <2>1. FlightKept
    BY <1>0, <1>15, <1>a, FlightFrame DEF TypeOK, Drop, Goto, HiddenBy
  <2> QED  BY <1>15, <2>1 DEF Drop
<1> QED
  BY <1>1, <1>2, <1>3, <1>4, <1>5, <1>6, <1>7, <1>8, <1>9, <1>10, <1>11, <1>12,
     <1>13, <1>14, <1>15 DEF ClientStep, ClientChoice

\* The steps of the clients keep the invariant.
LEMMA ClientSettled ==
  ASSUME Typed, Settled, NEW c \in Clients, ClientStep(c) \/ ClientChoice(c)
  PROVE  Settled'
<1>1. CASE Alive
  <2>1. /\ FlightKept
        /\ \A l \in unavailable' : l \in unavailable \/ InFlight(l)'
        /\ ready' = ready \/ RotationInFlight'
        /\ UNCHANGED <<lanes, mpc, pending>>
    BY <1>1, ClientEffect
  <2>2. RotationInFlight => RotationInFlight'
    BY <2>1 DEF FlightKept, RotationInFlight
  <2>3. NoLaneLeaked'
    <3> SUFFICES ASSUME NEW l \in unavailable', lanes'[l].state = "Ready"
                 PROVE  InFlight(l)'
      BY DEF NoLaneLeaked
    <3>1. CASE l \in unavailable
      <4>1. l \in Lanes
        BY <3>1 DEF Typed, TypeOK
      <4>2. InFlight(l)
        BY <1>1, <2>1, <3>1 DEF Settled, NoLaneLeaked
      <4> QED  BY <2>1, <4>1, <4>2 DEF FlightKept
    <3> QED  BY <2>1, <3>1
  <2>4. Current' = Current /\ ReadyIds' = ReadyIds
    BY <2>1 DEF Current, ReadyIds
  <2>5. ReadyRepaired' /\ PendingCurrent' /\ RestartHides' /\ StopsRetired'
    BY <2>1, <2>2, <2>4
       DEF Settled, ReadyRepaired, PendingCurrent, RestartHides, StopsRetired, Current
  <2> QED  BY <2>3, <2>5 DEF Settled
<1>2. CASE ~Alive
  <2>1. mpc = "done" /\ mpc' = "done"
    BY <1>2 DEF Alive, ClientStep, ClientChoice, Call, ReadSelect, SendAssign, ReadRotate,
         InsertUnavailable, WriteFiltered, SendRotate, SendRestart, CallShutdown,
         SendShutdown, Return, TakeHandle, Joined, Cancel, Drop, manager
  <2> QED
    BY <2>1 DEF Settled, NoLaneLeaked, ReadyRepaired, PendingCurrent, RestartHides,
         StopsRetired, Alive
<1> QED  BY <1>1, <1>2

\* What a lane is after a rotation, and that the others are as before.
LEMMA RotateToEffect ==
  ASSUME TypeOK, NEW l \in Lanes, NEW lane \in Lane, NEW ok \in BOOLEAN, RotateTo(l, lane, ok)
  PROVE  /\ lanes'[l].state = IF ok THEN "Ready" ELSE "Failed"
         /\ \A k \in Lanes \ {l} : lanes'[k] = lanes[k]
<1>1. Regenerate(lane, l, runtime, ok).state = IF ok THEN "Ready" ELSE "Failed"
  BY DEF Regenerate, RotateLane, Lane
<1> QED  BY <1>1 DEF TypeOK, RotateTo

\* While no client moves, the flights change with the queue alone.
LEMMA ManagerFlight ==
  ASSUME UNCHANGED <<pc, op, arg>>
  PROVE  \A l \in Lanes : (Queued(l) => Queued(l)') => (InFlight(l) => InFlight(l)')
  BY DEF InFlight, HiddenBy

\* Serving any command but a rotation keeps every flight.
LEMMA ReceiveFlight ==
  ASSUME TypeOK, NEW t, Receive(t), UNCHANGED <<pc, op, arg>>
  PROVE  \A l \in Lanes :
           InFlight(l) => InFlight(l)' \/ (t = "Rotate" /\ Head(queue).lane = l)
<1>1. queue \in Seq(Command) /\ queue # <<>> /\ queue' = Tail(queue) /\ Head(queue).type = t
  BY DEF TypeOK, Receive
<1> QED  BY <1>1, TailQueued, ManagerFlight

\* And so do the steps that leave the queue alone.
LEMMA StillFlight ==
  ASSUME UNCHANGED <<queue, pc, op, arg>>
  PROVE  \A l : InFlight(l) <=> InFlight(l)'
  BY DEF InFlight, HiddenBy, Queued

\* Rotating one lane that was not hidden for want of a rotation leaks no lane.
LEMMA RotateNoLeak ==
  ASSUME TypeOK, NoLaneLeaked, Alive, NEW l \in Lanes, NEW lane \in Lane, NEW ok \in BOOLEAN,
         RotateTo(l, lane, ok), unavailable' \subseteq unavailable,
         \A k \in Lanes \ {l} : InFlight(k) => InFlight(k)',
         ok => l \notin unavailable' \/ InFlight(l)'
  PROVE  NoLaneLeaked'
<1> SUFFICES ASSUME NEW k \in unavailable', lanes'[k].state = "Ready" PROVE InFlight(k)'
  BY DEF NoLaneLeaked
<1>1. k \in unavailable /\ k \in Lanes
  BY DEF TypeOK
<1>2. CASE k = l
  BY <1>2, RotateToEffect
<1>3. CASE k # l
  <2>1. lanes[k].state = "Ready"
    BY <1>1, <1>3, RotateToEffect
  <2> QED  BY <1>1, <1>3, <2>1 DEF NoLaneLeaked
<1> QED  BY <1>2, <1>3

\* The steps of the manager keep the invariant.
LEMMA ManagerSettled ==
  ASSUME Typed, Settled, ManagerStep
  PROVE  Settled'
<1> DEFINE Rest == ReadyRepaired /\ PendingCurrent /\ RestartHides /\ StopsRetired
<1> USE DEF shared, state, manager, clients
<1>0. TypeOK /\ NoLaneLeaked /\ Rest
  BY DEF Typed, Settled
<1>1. CASE AssignIgnored
  <2>1. \A l \in Lanes : InFlight(l) => InFlight(l)'
    BY <1>0, <1>1, ReceiveFlight DEF AssignIgnored
  <2>2. UNCHANGED <<lanes, unavailable, ready, mpc, pending>> /\ mpc = "idle"
    BY <1>1 DEF AssignIgnored, Receive
  <2> QED
    BY <1>0, <2>1, <2>2 DEF Settled, NoLaneLeaked, Alive, ReadyRepaired, PendingCurrent,
         RestartHides, StopsRetired, ReadyIds, RotationInFlight, TypeOK
<1>2. CASE AssignCounted
  <2> DEFINE l == Head(queue).lane
  <2>1. \A k \in Lanes : InFlight(k) => InFlight(k)'
    BY <1>0, <1>2, ReceiveFlight DEF AssignCounted
  <2>2. UNCHANGED <<unavailable, ready, mpc, pending>> /\ mpc = "idle"
    BY <1>2 DEF AssignCounted, Receive
  <2>3. l \in Lanes /\ lanes' = [lanes EXCEPT ![l].assignments = @ + 1]
    BY <1>0, <1>2, ReceiveType DEF AssignCounted
  <2>4. \A k \in Lanes : /\ lanes'[k].state = lanes[k].state
                         /\ lanes'[k].endpoint = lanes[k].endpoint
    BY <1>0, <2>3 DEF TypeOK, Lane
  <2>5. ReadyIds' = ReadyIds
    BY <2>4 DEF ReadyIds
  <2>6. {lanes[k].endpoint : k \in ReadyIds}' = {lanes[k].endpoint : k \in ReadyIds}
    BY <2>4, <2>5 DEF ReadyIds
  <2> QED
    BY <1>0, <2>1, <2>2, <2>4, <2>6 DEF Settled, NoLaneLeaked, Alive, ReadyRepaired,
         PendingCurrent, RestartHides, StopsRetired, RotationInFlight, TypeOK
<1>3. ASSUME NEW ok \in BOOLEAN, AssignRotates(ok) PROVE Settled'
  <2> DEFINE l == Head(queue).lane
             counted == [lanes[l] EXCEPT !.assignments = @ + 1]
  <2>1. l \in Lanes /\ RotateTo(l, counted, ok) /\ Counts(Head(queue))
    BY <1>0, <1>3, ReceiveType DEF AssignRotates
  <2>2. counted \in Lane
    BY <1>0, <2>1, CountType DEF TypeOK
  <2>3. \A k \in Lanes : InFlight(k) => InFlight(k)'
    BY <1>0, <1>3, ReceiveFlight DEF AssignRotates
  <2>4. l \notin unavailable \/ InFlight(l)
    BY <1>0, <1>3, <2>1 DEF NoLaneLeaked, Counts, AssignRotates, Receive, Alive
  <2>5. unavailable' = unavailable /\ mpc = "idle" /\ mpc' = "compute"
    BY <1>3 DEF AssignRotates, ThenPublish, Receive
  <2> HIDE DEF counted, l
  <2>6. NoLaneLeaked'
    BY <1>0, <2>1, <2>2, <2>3, <2>4, <2>5, RotateNoLeak DEF Alive
  <2> QED
    BY <2>5, <2>6 DEF Settled, ReadyRepaired, PendingCurrent, RestartHides, StopsRetired
<1>4. ASSUME NEW ok \in BOOLEAN, MgrRotate(ok) PROVE Settled'
  <2> DEFINE l == Head(queue).lane
  <2>1. l \in Lanes /\ RotateTo(l, lanes[l], ok)
    BY <1>0, <1>4, ReceiveType DEF MgrRotate
  <2>2. lanes[l] \in Lane
    BY <1>0, <2>1 DEF TypeOK
  <2>3. \A k \in Lanes \ {l} : InFlight(k) => InFlight(k)'
    BY <1>0, <1>4, ReceiveFlight DEF MgrRotate
  <2>4. unavailable' = IF ok THEN unavailable \ {l} ELSE unavailable
    BY <1>4 DEF MgrRotate, Reinstate
  <2>5. mpc = "idle" /\ mpc' = "compute"
    BY <1>4 DEF MgrRotate, ThenPublish, Receive
  <2> HIDE DEF l
  <2>6. NoLaneLeaked'
    BY <1>0, <2>1, <2>2, <2>3, <2>4, <2>5, RotateNoLeak DEF Alive
  <2> QED
    BY <2>5, <2>6 DEF Settled, ReadyRepaired, PendingCurrent, RestartHides, StopsRetired
<1>5. CASE Compute
  <2>1. \A l : InFlight(l) <=> InFlight(l)'
    BY <1>5, StillFlight DEF Compute
  <2>2. UNCHANGED <<lanes, unavailable>> /\ mpc = "compute" /\ mpc' = "publish"
        /\ pending' = ReadyLanes
    BY <1>5 DEF Compute
  <2>3. NoLaneLeaked'
    BY <1>0, <2>1, <2>2 DEF NoLaneLeaked, Alive
  <2>4. ASSUME ~RotationInFlight' PROVE pending' = Current'
    <3>1. \A l \in ReadyIds : l \notin unavailable
      BY <1>0, <2>1, <2>2, <2>4 DEF NoLaneLeaked, Alive, RotationInFlight, ReadyIds
    <3>2. ReadyIds \ unavailable = ReadyIds
      BY <3>1
    <3> QED  BY <2>2, <3>2 DEF ReadyLanes, Current, ReadyIds
  <2> QED
    BY <2>2, <2>3, <2>4 DEF Settled, ReadyRepaired, PendingCurrent, RestartHides, StopsRetired
<1>6. CASE Publish
  <2>1. \A l : InFlight(l) <=> InFlight(l)'
    BY <1>6, StillFlight DEF Publish, Idle
  <2>2. UNCHANGED <<lanes, unavailable>> /\ mpc = "publish" /\ mpc' = "idle" /\ ready' = pending
    BY <1>6 DEF Publish, Idle
  <2>3. NoLaneLeaked'
    BY <1>0, <2>1, <2>2 DEF NoLaneLeaked, Alive
  <2>4. ReadyRepaired'
    BY <1>0, <2>1, <2>2 DEF ReadyRepaired, PendingCurrent, Current, RotationInFlight, ReadyIds
  <2> QED
    BY <2>2, <2>3, <2>4 DEF Settled, PendingCurrent, RestartHides, StopsRetired
<1>8. CASE RestartBegin
  <2>1. \A l \in Lanes : InFlight(l) => InFlight(l)'
    BY <1>0, <1>8, ReceiveFlight DEF RestartBegin
  <2>2. UNCHANGED <<lanes, unavailable>> /\ mpc = "idle" /\ mpc' = "rs_mark" /\ ready' = {}
    BY <1>8 DEF RestartBegin, Receive
  <2> QED
    BY <1>0, <2>1, <2>2 DEF Settled, NoLaneLeaked, Alive, ReadyRepaired, PendingCurrent,
         RestartHides, StopsRetired, TypeOK
<1>9. CASE RestartMark
  <2>1. \A l : InFlight(l) <=> InFlight(l)'
    BY <1>9, StillFlight DEF RestartMark
  <2>2. \A l \in Lanes : lanes'[l].state = "Retiring"
    BY <1>0, <1>9 DEF RestartMark, TypeOK, Lane
  <2>3. mpc = "rs_mark" /\ mpc' = "rs_stop" /\ ready' = ready /\ unavailable' \subseteq Lanes
    BY <1>0, <1>9 DEF RestartMark, TypeOK
  <2>4. ReadyIds' = {}
    BY <2>2 DEF ReadyIds
  <2>5. NoLaneLeaked'
    BY <2>2, <2>3 DEF NoLaneLeaked
  <2> QED
    BY <1>0, <2>1, <2>3, <2>4, <2>5 DEF Settled, ReadyRepaired, PendingCurrent,
         RestartHides, StopsRetired, RotationInFlight
<1>10. CASE RestartStop
  <2>1. \A l : InFlight(l) <=> InFlight(l)'
    BY <1>10, StillFlight DEF RestartStop
  <2>2. UNCHANGED <<lanes, unavailable>> /\ mpc = "rs_stop" /\ mpc' = "rs_start"
    BY <1>10 DEF RestartStop
  <2> QED
    BY <1>0, <2>1, <2>2 DEF Settled, NoLaneLeaked, Alive, ReadyRepaired, PendingCurrent,
         RestartHides, StopsRetired
<1>11. CASE RestartStopFails
  <2>1. \A l : InFlight(l) <=> InFlight(l)'
    BY <1>11, StillFlight DEF RestartStopFails, Idle
  <2>2. UNCHANGED <<lanes, unavailable, ready>> /\ mpc = "rs_stop" /\ mpc' = "idle"
    BY <1>11 DEF RestartStopFails, Idle
  <2>3. ReadyIds = {} /\ ReadyIds' = {}
    BY <1>0, <2>2 DEF StopsRetired, ReadyIds
  <2>4. ~RotationInFlight' => ready' = {}
    BY <1>0, <2>1, <2>2 DEF RestartHides, RotationInFlight
  <2>5. ReadyRepaired'
    BY <2>3, <2>4 DEF ReadyRepaired
  <2> QED
    BY <1>0, <2>1, <2>2, <2>5 DEF Settled, NoLaneLeaked, Alive, PendingCurrent,
         RestartHides, StopsRetired
<1>12. CASE RestartStart
  <2>1. \A l : InFlight(l) <=> InFlight(l)'
    BY <1>12, StillFlight DEF RestartStart
  <2>2. UNCHANGED <<lanes, unavailable>> /\ mpc = "rs_start" /\ mpc' = "rs_lanes"
    BY <1>12 DEF RestartStart
  <2> QED
    BY <1>0, <2>1, <2>2 DEF Settled, NoLaneLeaked, Alive, ReadyRepaired, PendingCurrent,
         RestartHides, StopsRetired
<1>13. CASE RestartStartFails
  <2>1. \A l \in Lanes : lanes'[l].state = "Failed"
    BY <1>0, <1>13 DEF RestartStartFails, TypeOK, Lane
  <2>2. mpc' = "compute" /\ unavailable' \subseteq Lanes
    BY <1>0, <1>13 DEF RestartStartFails, TypeOK
  <2> QED
    BY <2>1, <2>2 DEF Settled, NoLaneLeaked, ReadyRepaired, PendingCurrent, RestartHides,
         StopsRetired
<1>14. ASSUME NEW l \in Lanes, NEW ok \in BOOLEAN, RestartLane(l, ok) PROVE Settled'
  <2>1. RotateTo(l, lanes[l], ok) /\ lanes[l] \in Lane
    BY <1>0, <1>14 DEF RestartLane, TypeOK
  <2>2. \A k : InFlight(k) <=> InFlight(k)'
    BY <1>14, StillFlight DEF RestartLane
  <2>3. unavailable' = IF ok THEN unavailable \ {l} ELSE unavailable
    BY <1>14 DEF RestartLane, Reinstate
  <2>4. mpc = "rs_lanes" /\ mpc' \in {"rs_lanes", "compute"}
    BY <1>14 DEF RestartLane
  <2>5. NoLaneLeaked'
    BY <1>0, <2>1, <2>2, <2>3, <2>4, RotateNoLeak DEF Alive
  <2> QED
    BY <2>4, <2>5 DEF Settled, ReadyRepaired, PendingCurrent, RestartHides, StopsRetired
<1>15. CASE BeginShutdown
  <2>1. \A l \in Lanes : InFlight(l) => InFlight(l)'
    <3>1. CASE Receive("Shutdown")
      BY <1>0, <1>15, <3>1, ReceiveFlight DEF BeginShutdown
    <3>2. CASE UNCHANGED queue
      BY <1>15, <3>2, StillFlight DEF BeginShutdown
    <3> QED  BY <1>15, <3>1, <3>2 DEF BeginShutdown
  <2>2. UNCHANGED <<lanes, unavailable>> /\ mpc = "idle" /\ mpc' = "sd_stop"
    BY <1>15 DEF BeginShutdown, Receive
  <2> QED
    BY <1>0, <2>1, <2>2 DEF Settled, NoLaneLeaked, Alive, ReadyRepaired, PendingCurrent,
         RestartHides, StopsRetired, TypeOK
<1>16. ASSUME NEW ok \in BOOLEAN, ShutdownStop(ok) PROVE Settled'
  <2>1. \A l : InFlight(l) <=> InFlight(l)'
    BY <1>16, StillFlight DEF ShutdownStop
  <2>2. UNCHANGED <<lanes, unavailable>> /\ mpc = "sd_stop" /\ mpc' = "exit"
    BY <1>16 DEF ShutdownStop
  <2> QED
    BY <1>0, <2>1, <2>2 DEF Settled, NoLaneLeaked, Alive, ReadyRepaired, PendingCurrent,
         RestartHides, StopsRetired
<1>17. CASE Exit
  BY <1>17 DEF Exit, Settled, NoLaneLeaked, Alive, ReadyRepaired, PendingCurrent,
       RestartHides, StopsRetired
<1> QED
  BY <1>1, <1>2, <1>3, <1>4, <1>5, <1>6, <1>8, <1>9, <1>10, <1>11, <1>12,
     <1>13, <1>14, <1>15, <1>16, <1>17 DEF ManagerStep, Assigned, Restarting, Stopping

\* So do the steps of time: a tick rotates lanes that are Ready, so that one it
\* finds hidden has a rotation in flight already.
LEMMA TimeSettled ==
  ASSUME Typed, Settled, Ticks \/ \E l \in Lanes : Age(l)
  PROVE  Settled'
<1> USE DEF shared, manager, clients
<1>0. TypeOK /\ NoLaneLeaked
  BY DEF Typed, Settled
<1>1. ASSUME NEW ok \in SUBSET Lanes, Tick(ok) PROVE Settled'
  <2>1. \A l : InFlight(l) <=> InFlight(l)'
    BY <1>1, StillFlight DEF Tick, TickThe
  <2>2. unavailable' = unavailable /\ mpc = "idle" /\ mpc' = "compute"
    BY <1>1 DEF Tick, TickThe, ThenPublish
  <2>3. ASSUME NEW l \in Lanes, lanes'[l].state = "Ready" PROVE lanes[l].state = "Ready"
    BY <1>0, <1>1, <2>3 DEF Tick, TickThe, Due, ReadyIds, TypeOK
  <2>4. NoLaneLeaked'
    BY <1>0, <2>1, <2>2, <2>3 DEF NoLaneLeaked, Alive, TypeOK
  <2> QED
    BY <2>2, <2>4 DEF Settled, ReadyRepaired, PendingCurrent, RestartHides, StopsRetired
<1>2. ASSUME NEW l \in Lanes, Age(l) PROVE Settled'
  <2>1. \A k : InFlight(k) <=> InFlight(k)'
    BY <1>2, StillFlight DEF Age
  <2> QED
    BY <1>2, <2>1 DEF Age, Settled, NoLaneLeaked, Alive, ReadyRepaired, PendingCurrent,
         RestartHides, StopsRetired, RotationInFlight, ReadyIds, Current
<1> QED  BY <1>1, <1>2 DEF Ticks

LEMMA InitSettled == Init => Settled
<1> SUFFICES ASSUME Init PROVE Settled
  OBVIOUS
<1>1. \A l \in Lanes : lanes[l] = NewLane(l, 1) /\ NewLane(l, 1).state = "Ready"
  BY DEF Init, NewLane
<1>2. ReadyIds = Lanes
  BY <1>1 DEF ReadyIds
<1>3. ready = {lanes[l].endpoint : l \in ReadyIds}
  BY <1>1, <1>2 DEF Init
<1>4. unavailable = {} /\ mpc = "idle"
  BY DEF Init
<1> QED
  BY <1>3, <1>4 DEF Settled, NoLaneLeaked, ReadyRepaired, PendingCurrent, RestartHides,
     StopsRetired

LEMMA NextSettled == Typed /\ Settled /\ [Next]_vars => Settled'
<1>1. ASSUME Settled, UNCHANGED vars PROVE Settled'
  BY <1>1 DEF Settled, NoLaneLeaked, Alive, ReadyRepaired, PendingCurrent, RestartHides,
     StopsRetired, ReadyIds, Current, RotationInFlight, InFlight, Queued, HiddenBy,
     vars, shared, state, manager, clients
<1> QED
  BY <1>1, ClientSettled, ManagerSettled, TimeSettled DEF Next

THEOREM AlwaysSettled == Spec => []Settled
<1>1. Init => Typed /\ Settled
  BY InitTyped, InitSettled
<1>2. Typed /\ Settled /\ [Next]_vars => Typed' /\ Settled'
  BY NextTyped, NextSettled
<1> QED  BY <1>1, <1>2, PTL DEF Spec

\* However the calls, restarts, ticks and failures interleave, `ready' is exact
\* whenever the manager waits for a command and no manual rotation is in flight.
THEOREM Repaired == Spec => []ReadyRepaired
  BY AlwaysSettled, PTL DEF Settled

\* No working lane is ever hidden with nobody to bring it back.
THEOREM NothingLeaked == Spec => []NoLaneLeaked
  BY AlwaysSettled, PTL DEF Settled

-----------------------------------------------------------------------------
(* What TorPool hands out: a generation is one set of credentials on one   *)
(* address, and what is published leads to the Tor that runs.  Both rest   *)
(* on what one step can do to a lane, to the run the pool is on, and to    *)
(* the copies of endpoints that are under way.                             *)

\* A step leaves a lane its generation (and may only take it out of service), or
\* gives it the next one on the current run.
LaneStep(l) ==
  \/ /\ lanes'[l].epoch = lanes[l].epoch
     /\ lanes'[l].endpoint = lanes[l].endpoint
     /\ lanes'[l].state = "Ready" => lanes[l].state = "Ready"
  \/ /\ lanes'[l].epoch = lanes[l].epoch + 1
     /\ lanes'[l].endpoint = Endpoint(l, lanes[l].epoch + 1, runtime)

\* A copy of an endpoint is only ever made of one that exists.
CopiesOnly ==
  ready' \subseteq Endpoints /\ pending' \subseteq Endpoints
  /\ \A c \in Clients : snap'[c] \subseteq Endpoints

\* The run changes in one step of a restart, between the lanes' retirement and
\* their rotation.
RunStep ==
  \/ /\ runtime' = runtime /\ runs' = runs /\ tor' \in {0, tor}
     /\ \/ mpc' \notin {"rs_stop", "rs_start"}
        \/ ReadyIds' = {}
        \/ mpc \in {"rs_stop", "rs_start"} /\ lanes' = lanes
  \/ /\ mpc = "rs_start" /\ mpc' = "rs_lanes" /\ lanes' = lanes
     /\ runtime' = runs + 1 /\ runs' = runs + 1 /\ tor' = runs + 1

StepShape == (\A l \in Lanes : LaneStep(l)) /\ CopiesOnly /\ RunStep

-----------------------------------------------------------------------------

LEMMA RotateToShape ==
  ASSUME TypeOK, NEW l \in Lanes, NEW lane \in Lane, NEW ok \in BOOLEAN,
         RotateTo(l, lane, ok),
         lane.epoch = lanes[l].epoch, lane.endpoint = lanes[l].endpoint
  PROVE  (\A k \in Lanes : LaneStep(k)) /\ UNCHANGED <<runtime, tor, runs>>
<1>1. lanes' = [lanes EXCEPT ![l] = Regenerate(lane, l, runtime, ok)]
  BY DEF RotateTo
<1>2. ASSUME NEW k \in Lanes, k # l PROVE LaneStep(k)
  BY <1>1, <1>2 DEF TypeOK, LaneStep
<1>3. LaneStep(l)
  <2>1. lanes'[l] = Regenerate(lane, l, runtime, ok)
    BY <1>1 DEF TypeOK
  <2>2. CASE ok
    BY <2>1, <2>2 DEF Regenerate, RotateLane, LaneStep
  <2>3. CASE ~ok
    BY <2>1, <2>3 DEF Regenerate, RotateLane, LaneStep, Lane
  <2> QED  BY <2>2, <2>3
<1> QED  BY <1>2, <1>3 DEF RotateTo

LEMMA RestateShape ==
  ASSUME TypeOK, NEW l \in Lanes, NEW st, st # "Ready",
         lanes'[l] = [lanes[l] EXCEPT !.state = st]
  PROVE  LaneStep(l) /\ lanes'[l].state = st
<1>1. lanes[l] \in Lane
  BY DEF TypeOK
<1>2. /\ lanes'[l].epoch = lanes[l].epoch /\ lanes'[l].endpoint = lanes[l].endpoint
      /\ lanes'[l].state = st
  BY <1>1 DEF Lane
<1> QED  BY <1>2 DEF LaneStep

LEMMA CopiesKept ==
  ASSUME UNCHANGED <<pending, snap>>, ready' = ready \/ ready' = {}
  PROVE  CopiesOnly
  BY DEF CopiesOnly, Endpoints

\* A client touches no lane and copies only what is published.
LEMMA ClientShape ==
  ASSUME Typed, NEW c \in Clients, ClientStep(c) \/ ClientChoice(c)
  PROVE  StepShape
<1> USE DEF state, manager, shared
<1>0. TypeOK
  BY DEF Typed
<1>1. /\ UNCHANGED <<lanes, runtime, runs, tor, mpc, pending>>
  BY DEF ClientStep, ClientChoice, Call, ReadSelect, SendAssign, ReadRotate,
     InsertUnavailable, WriteFiltered, SendRotate, SendRestart, CallShutdown,
     SendShutdown, Return, TakeHandle, Joined, Cancel, Drop
<1>2. ready' \subseteq ready \cup snap[c]
  BY DEF ClientStep, ClientChoice, Call, ReadSelect, SendAssign, ReadRotate,
     InsertUnavailable, WriteFiltered, SendRotate, SendRestart, CallShutdown,
     SendShutdown, Return, TakeHandle, Joined, Cancel, Drop
<1>3. /\ \A d \in Clients \ {c} : snap'[d] = snap[d]
      /\ snap'[c] \subseteq ready \cup snap[c]
  <2>1. ASSUME ReadSelect(c) PROVE <1>3!:
    BY <1>0, <2>1 DEF TypeOK, ReadSelect, Candidates, Finish
  <2>2. ASSUME ReadRotate(c) PROVE <1>3!:
    BY <1>0, <2>2 DEF TypeOK, ReadRotate, Finish
  <2>3. ASSUME Finish(c) PROVE <1>3!:
    BY <1>0, <2>3 DEF TypeOK, Finish
  <2>4. ASSUME WriteFiltered(c) PROVE <1>3!:
    BY <1>0, <2>4 DEF TypeOK, WriteFiltered
  <2> QED
    BY <2>1, <2>2, <2>3, <2>4 DEF ClientStep, ClientChoice, Call, SendAssign,
       InsertUnavailable, SendRotate, SendRestart, CallShutdown,
       SendShutdown, Return, TakeHandle, Joined, Cancel, Drop, Goto
<1>4. CopiesOnly
  BY <1>1, <1>2, <1>3 DEF CopiesOnly, Endpoints
<1>5. \A l \in Lanes : LaneStep(l)
  BY <1>1 DEF LaneStep
<1>6. RunStep
  BY <1>1 DEF RunStep
<1> QED  BY <1>4, <1>5, <1>6 DEF StepShape

LEMMA ManagerShape ==
  ASSUME Typed, ManagerStep
  PROVE  StepShape
<1> USE DEF state, manager, shared, clients
<1>0. TypeOK
  BY DEF Typed
<1>a. ASSUME UNCHANGED lanes PROVE \A l \in Lanes : LaneStep(l)
  BY <1>a DEF LaneStep
<1>1. CASE AssignIgnored
  BY <1>1, <1>a, CopiesKept DEF AssignIgnored, StepShape, RunStep
<1>2. CASE AssignCounted
  <2>1. \A l \in Lanes : LaneStep(l)
    BY <1>0, <1>2, ReceiveType DEF AssignCounted, LaneStep, TypeOK, Lane
  <2> QED  BY <1>2, <2>1, CopiesKept DEF AssignCounted, StepShape, RunStep, Receive
<1>3. ASSUME NEW ok \in BOOLEAN, AssignRotates(ok) PROVE StepShape
  <2> DEFINE l == Head(queue).lane
             counted == [lanes[l] EXCEPT !.assignments = @ + 1]
  <2>1. l \in Lanes /\ RotateTo(l, counted, ok)
    BY <1>0, <1>3, ReceiveType DEF AssignRotates
  <2>2. counted \in Lane /\ counted.epoch = lanes[l].epoch
        /\ counted.endpoint = lanes[l].endpoint
    BY <1>0, <2>1, CountType DEF TypeOK, Lane
  <2> HIDE DEF l, counted
  <2>3. (\A k \in Lanes : LaneStep(k)) /\ UNCHANGED <<runtime, tor, runs>>
    BY <1>0, <2>1, <2>2, RotateToShape
  <2> QED
    BY <1>3, <2>3, CopiesKept DEF AssignRotates, ThenPublish, StepShape, RunStep
<1>4. ASSUME NEW ok \in BOOLEAN, MgrRotate(ok) PROVE StepShape
  <2> DEFINE l == Head(queue).lane
  <2>1. l \in Lanes /\ RotateTo(l, lanes[l], ok)
    BY <1>0, <1>4, ReceiveType DEF MgrRotate
  <2>2. lanes[l] \in Lane
    BY <1>0, <2>1 DEF TypeOK
  <2> HIDE DEF l
  <2>3. (\A k \in Lanes : LaneStep(k)) /\ UNCHANGED <<runtime, tor, runs>>
    BY <1>0, <2>1, <2>2, RotateToShape
  <2> QED
    BY <1>4, <2>3, CopiesKept DEF MgrRotate, ThenPublish, StepShape, RunStep
<1>5. CASE Compute
  <2>1. CopiesOnly
    BY <1>5 DEF Compute, CopiesOnly, Endpoints, ReadyLanes, ReadyIds
  <2> QED  BY <1>5, <1>a, <2>1 DEF Compute, StepShape, RunStep
<1>6. CASE Publish
  <2>1. CopiesOnly
    BY <1>6 DEF Publish, Idle, CopiesOnly, Endpoints
  <2> QED  BY <1>6, <1>a, <2>1 DEF Publish, Idle, StepShape, RunStep
<1>7. CASE RestartBegin
  BY <1>7, <1>a, CopiesKept DEF RestartBegin, StepShape, RunStep
<1>8. CASE RestartMark
  <2>1. \A l \in Lanes : lanes'[l] = [lanes[l] EXCEPT !.state = "Retiring"]
    BY <1>8 DEF RestartMark
  <2>2. \A l \in Lanes : LaneStep(l) /\ lanes'[l].state = "Retiring"
    BY <1>0, <2>1, RestateShape
  <2>3. ReadyIds' = {}
    BY <2>2 DEF ReadyIds
  <2> QED  BY <1>8, <2>2, <2>3, CopiesKept DEF RestartMark, StepShape, RunStep
<1>9. CASE RestartStop
  BY <1>9, <1>a, CopiesKept DEF RestartStop, StepShape, RunStep
<1>10. CASE RestartStopFails
  BY <1>10, <1>a, CopiesKept DEF RestartStopFails, Idle, StepShape, RunStep
<1>11. CASE RestartStart
  BY <1>11, <1>a, CopiesKept DEF RestartStart, StepShape, RunStep
<1>12. CASE RestartStartFails
  <2>1. \A l \in Lanes : lanes'[l] = [lanes[l] EXCEPT !.state = "Failed"]
    BY <1>12 DEF RestartStartFails
  <2>2. \A l \in Lanes : LaneStep(l)
    BY <1>0, <2>1, RestateShape
  <2> QED  BY <1>12, <2>2, CopiesKept DEF RestartStartFails, StepShape, RunStep
<1>13. ASSUME NEW l \in Lanes, NEW ok \in BOOLEAN, RestartLane(l, ok) PROVE StepShape
  <2>1. RotateTo(l, lanes[l], ok) /\ lanes[l] \in Lane
    BY <1>0, <1>13 DEF RestartLane, TypeOK
  <2>2. (\A k \in Lanes : LaneStep(k)) /\ UNCHANGED <<runtime, tor, runs>>
    BY <1>0, <2>1, RotateToShape
  <2>3. mpc' \notin {"rs_stop", "rs_start"}
    BY <1>13 DEF RestartLane
  <2> QED
    BY <1>13, <2>2, <2>3, CopiesKept DEF RestartLane, StepShape, RunStep
<1>14. CASE BeginShutdown
  BY <1>14, <1>a, CopiesKept DEF BeginShutdown, StepShape, RunStep
<1>15. ASSUME NEW ok \in BOOLEAN, ShutdownStop(ok) PROVE StepShape
  BY <1>15, <1>a, CopiesKept DEF ShutdownStop, StepShape, RunStep
<1>16. CASE Exit
  BY <1>16, <1>a, CopiesKept DEF Exit, StepShape, RunStep
<1> QED
  BY <1>1, <1>2, <1>3, <1>4, <1>5, <1>6, <1>7, <1>8, <1>9, <1>10, <1>11, <1>12,
     <1>13, <1>14, <1>15, <1>16 DEF ManagerStep, Assigned, Restarting, Stopping

LEMMA TimeShape ==
  ASSUME Typed, Ticks \/ \E l \in Lanes : Age(l)
  PROVE  StepShape
<1> USE DEF state, manager, shared, clients
<1>0. TypeOK
  BY DEF Typed
<1>1. ASSUME NEW ok \in SUBSET Lanes, Tick(ok) PROVE StepShape
  <2>1. ASSUME NEW l \in Lanes PROVE LaneStep(l)
    <3>1. lanes'[l] = IF l \in Due THEN Regenerate(lanes[l], l, runtime, l \in ok) ELSE lanes[l]
      BY <1>1 DEF Tick, TickThe
    <3>2. lanes[l] \in Lane
      BY <1>0 DEF TypeOK
    <3> QED  BY <3>1, <3>2 DEF LaneStep, Regenerate, RotateLane, Lane
  <2> QED
    BY <1>1, <2>1, CopiesKept DEF Tick, TickThe, ThenPublish, StepShape, RunStep
<1>2. ASSUME NEW l \in Lanes, Age(l) PROVE StepShape
  BY <1>2, CopiesKept DEF Age, StepShape, RunStep, LaneStep
<1> QED  BY <1>1, <1>2 DEF Ticks

LEMMA NextShape ==
  ASSUME Typed, [Next]_vars
  PROVE  StepShape
<1>1. CASE UNCHANGED vars
  BY <1>1, CopiesKept DEF vars, shared, state, manager, clients, StepShape, LaneStep, RunStep
<1> QED  BY <1>1, ClientShape, ManagerShape, TimeShape DEF Next

-----------------------------------------------------------------------------
(* A generation is unique: whatever copy of an endpoint exists, its lane   *)
(* has the same generation or a later one, on the same run or a later one. *)

Traced(e) ==
  /\ e.epoch <= lanes[e.lane].epoch
  /\ e.epoch = lanes[e.lane].epoch => e = lanes[e.lane].endpoint
  /\ e.run <= lanes[e.lane].endpoint.run

Generations ==
  /\ runtime <= runs
  /\ \A l \in Lanes : /\ lanes[l].endpoint.lane = l
                      /\ lanes[l].endpoint.epoch = lanes[l].epoch
                      /\ lanes[l].endpoint.run <= runtime
  /\ \A e \in Endpoints : Traced(e)
  /\ GenerationsUnique

LEMMA EndpointsType ==
  ASSUME TypeOK
  PROVE  Endpoints \subseteq LaneEndpoint
  BY DEF TypeOK, Endpoints, Lane

LEMMA InitGenerations == Init => Generations
<1> SUFFICES ASSUME Init PROVE Generations
  OBVIOUS
<1>1. \A l \in Lanes : lanes[l].endpoint = Endpoint(l, 1, 1) /\ lanes[l].epoch = 1
  BY DEF Init, NewLane
<1>2. \A e \in Endpoints : \E l \in Lanes : e = Endpoint(l, 1, 1)
  BY <1>1 DEF Init, Endpoints, NewLane
<1>3. \A e \in Endpoints : Traced(e)
  BY <1>1, <1>2 DEF Traced, Endpoint
<1>4. GenerationsUnique
  BY <1>2 DEF GenerationsUnique, Endpoint
<1>5. \A l \in Lanes : /\ lanes[l].endpoint.lane = l
                       /\ lanes[l].endpoint.epoch = lanes[l].epoch
                       /\ lanes[l].endpoint.run = 1
  <2>1. ASSUME NEW l \in Lanes
        PROVE  /\ Endpoint(l, 1, 1).lane = l
               /\ Endpoint(l, 1, 1).epoch = 1 /\ Endpoint(l, 1, 1).run = 1
    BY DEF Endpoint
  <2> QED  BY <1>1, <2>1
<1>6. runtime = 1 /\ runs = 1
  BY DEF Init
<1> QED  BY <1>3, <1>4, <1>5, <1>6 DEF Generations

LEMMA NextGenerations == Typed /\ Generations /\ [Next]_vars => Generations'
<1> SUFFICES ASSUME Typed, Generations, [Next]_vars PROVE Generations'
  OBVIOUS
<1>0. StepShape /\ TypeOK /\ TypeOK'
  BY NextShape, NextTyped DEF Typed
<1>1. /\ runtime \in Nat /\ runs \in Nat /\ runtime' \in Nat /\ runs' \in Nat
      /\ \A l \in Lanes : lanes[l] \in Lane /\ lanes'[l] \in Lane
      /\ Endpoints \subseteq LaneEndpoint
  BY <1>0, EndpointsType DEF TypeOK
<1>2. runtime <= runtime' /\ runtime' <= runs'
  BY <1>0, <1>1 DEF StepShape, RunStep, Generations
<1>3. \A l \in Lanes : /\ lanes'[l].endpoint.lane = l
                       /\ lanes'[l].endpoint.epoch = lanes'[l].epoch
                       /\ lanes'[l].endpoint.run <= runtime'
                       /\ lanes[l].epoch \in Nat /\ lanes[l].endpoint.run \in Nat
  <2> SUFFICES ASSUME NEW l \in Lanes
               PROVE  /\ lanes'[l].endpoint.lane = l
                      /\ lanes'[l].endpoint.epoch = lanes'[l].epoch
                      /\ lanes'[l].endpoint.run <= runtime'
                      /\ lanes[l].epoch \in Nat /\ lanes[l].endpoint.run \in Nat
    OBVIOUS
  <2>1. LaneStep(l) /\ lanes[l].epoch \in Nat /\ lanes[l].endpoint.run \in Nat
    BY <1>0, <1>1 DEF StepShape, Lane, Epochs, LaneEndpoint
  <2> QED  BY <1>1, <1>2, <2>1 DEF Generations, LaneStep, Endpoint
<1>4. \A e \in Endpoints' : e \in Endpoints \/ \E l \in Lanes : e = lanes'[l].endpoint
  BY <1>0 DEF StepShape, CopiesOnly, Endpoints
\* How an old copy relates to its lane's new endpoint.
<1>5. ASSUME NEW e \in Endpoints
      PROVE  /\ e.lane \in Lanes /\ e.epoch \in Nat /\ e.run \in Nat
             /\ Traced(e)'
             /\ \/ lanes'[e.lane].endpoint = lanes[e.lane].endpoint
                \/ e.epoch < lanes'[e.lane].epoch
  <2>1. e \in LaneEndpoint /\ Traced(e)
    BY <1>1 DEF Generations
  <2>2. e.lane \in Lanes /\ e.epoch \in Nat /\ e.run \in Nat
    BY <2>1 DEF LaneEndpoint, Epochs
  <2>3. LaneStep(e.lane)
    BY <1>0, <2>2 DEF StepShape
  <2>4. lanes[e.lane].endpoint.run <= runtime
    BY <2>2 DEF Generations
  <2>5. CASE lanes'[e.lane].epoch = lanes[e.lane].epoch
             /\ lanes'[e.lane].endpoint = lanes[e.lane].endpoint
    BY <2>1, <2>2, <2>5 DEF Traced
  <2>6. CASE lanes'[e.lane].epoch = lanes[e.lane].epoch + 1
             /\ lanes'[e.lane].endpoint = Endpoint(e.lane, lanes[e.lane].epoch + 1, runtime)
    <3>1. lanes'[e.lane].endpoint.run = runtime
      BY <2>6 DEF Endpoint
    <3>2. e.epoch < lanes'[e.lane].epoch
      BY <1>3, <2>1, <2>2, <2>6 DEF Traced
    <3>3. e.run <= runtime
      BY <1>1, <1>3, <2>1, <2>2, <2>4 DEF Traced
    <3>4. lanes'[e.lane].epoch \in Nat
      BY <1>3, <2>2, <2>6
    <3> QED  BY <2>2, <3>1, <3>2, <3>3, <3>4 DEF Traced
  <2> QED  BY <2>3, <2>5, <2>6 DEF LaneStep
<1>6. ASSUME NEW l \in Lanes, NEW e, e = lanes'[l].endpoint PROVE Traced(e)'
  <2>1. e.lane = l /\ e.epoch = lanes'[l].epoch /\ e.epoch \in Nat /\ e.run \in Nat
    BY <1>1, <1>3, <1>6 DEF Lane, Epochs, LaneEndpoint
  <2> QED  BY <1>6, <2>1 DEF Traced
<1>7. \A e \in Endpoints' : Traced(e)'
  BY <1>4, <1>5, <1>6
<1>8. GenerationsUnique'
  <2> SUFFICES ASSUME NEW e \in Endpoints', NEW f \in Endpoints', e.lane = f.lane
               PROVE  (e.epoch = f.epoch => e = f) /\ (e.epoch < f.epoch => e.run <= f.run)
    BY DEF GenerationsUnique
  <2>1. CASE e \in Endpoints /\ f \in Endpoints
    BY <2>1 DEF Generations, GenerationsUnique
  <2>2. ASSUME NEW l \in Lanes, f = lanes'[l].endpoint PROVE e.run <= f.run /\ (e.epoch = f.epoch => e = f)
    <3>1. f.lane = l /\ f.epoch = lanes'[l].epoch
      BY <1>3, <2>2
    <3> QED  BY <1>7, <2>2, <3>1 DEF Traced
  <2>3. ASSUME NEW l \in Lanes, e = lanes'[l].endpoint
        PROVE  (e.epoch = f.epoch => e = f) /\ ~(e.epoch < f.epoch)
    <3>1. e.lane = l /\ e.epoch = lanes'[l].epoch /\ e.epoch \in Nat
      BY <1>1, <1>3, <2>3 DEF Lane, Epochs
    <3>2. f.epoch <= lanes'[l].epoch /\ (f.epoch = lanes'[l].epoch => f = e)
      BY <1>7, <2>3, <3>1 DEF Traced
    <3>3. f.epoch \in Nat
      <4>1. f \in LaneEndpoint
        BY <1>0 DEF TypeOK, Endpoints, Lane
      <4> QED  BY <4>1 DEF LaneEndpoint, Epochs
    <3> QED  BY <3>1, <3>2, <3>3
  <2> QED  BY <1>4, <2>1, <2>2, <2>3
<1> QED  BY <1>2, <1>3, <1>7, <1>8 DEF Generations

\* No two endpoints of a lane and epoch differ, and a later generation is never
\* on an earlier run of Tor: whatever stale copies callers hold or write back.
THEOREM Unique == Spec => []GenerationsUnique
<1>1. Init => Typed /\ Generations
  BY InitTyped, InitGenerations
<1>2. Typed /\ Generations /\ [Next]_vars => Typed' /\ Generations'
  BY NextTyped, NextGenerations
<1>3. Generations => GenerationsUnique
  BY DEF Generations
<1> QED  BY <1>1, <1>2, <1>3, PTL DEF Spec

-----------------------------------------------------------------------------
(* What is published leads to the last run of Tor.  A failed stop leaves no *)
(* Tor and the old run in `runtime'; lanes rotated then are on that run    *)
(* again, and the next restart retires them before it changes the run.     *)

OnTheRun ==
  /\ tor \in {0, runtime}
  /\ \A l \in ReadyIds : lanes[l].endpoint.run = runtime
  /\ mpc \in {"rs_stop", "rs_start"} => ReadyIds = {}

LEMMA InitOnTheRun == Init => OnTheRun
  BY DEF Init, OnTheRun, ReadyIds, NewLane, Endpoint

LEMMA NextOnTheRun == Typed /\ OnTheRun /\ [Next]_vars => OnTheRun'
<1> SUFFICES ASSUME Typed, OnTheRun, [Next]_vars PROVE OnTheRun'
  OBVIOUS
<1>0. StepShape
  BY NextShape
<1>1. CASE runtime' = runtime /\ runs' = runs /\ tor' \in {0, tor}
           /\ \/ mpc' \notin {"rs_stop", "rs_start"}
              \/ ReadyIds' = {}
              \/ mpc \in {"rs_stop", "rs_start"} /\ lanes' = lanes
  <2>1. ASSUME NEW l \in Lanes, lanes'[l].state = "Ready"
        PROVE  lanes'[l].endpoint.run = runtime'
    <3>1. LaneStep(l)
      BY <1>0 DEF StepShape
    <3> QED  BY <1>1, <2>1, <3>1 DEF LaneStep, ReadyIds, OnTheRun, Endpoint
  <2>2. mpc' \in {"rs_stop", "rs_start"} => ReadyIds' = {}
    BY <1>1 DEF OnTheRun, ReadyIds
  <2> QED  BY <1>1, <2>1, <2>2 DEF OnTheRun, ReadyIds
<1>2. CASE mpc = "rs_start" /\ mpc' = "rs_lanes" /\ lanes' = lanes
           /\ runtime' = runs + 1 /\ runs' = runs + 1 /\ tor' = runs + 1
  BY <1>2 DEF OnTheRun, ReadyIds
<1> QED  BY <1>0, <1>1, <1>2 DEF StepShape, RunStep

\* While the manager waits and no manual rotation is in flight, every published
\* address is that of the last run of Tor and no other Tor runs, after any restarts,
\* failed stops and failed starts.
THEOREM Live == Spec => []AddressesLive
<1>1. Init => Typed /\ OnTheRun
  BY InitTyped, InitOnTheRun
<1>2. Typed /\ OnTheRun /\ [Next]_vars => Typed' /\ OnTheRun'
  BY NextTyped, NextOnTheRun
<1>3. OnTheRun /\ ReadyRepaired => AddressesLive
  BY DEF OnTheRun, ReadyRepaired, AddressesLive
<1> QED  BY <1>1, <1>2, <1>3, Repaired, PTL DEF Spec
=============================================================================
