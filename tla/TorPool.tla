------------------------------ MODULE TorPool ------------------------------
(***************************************************************************)
(* The pool (pool/manager.rs): handles that any number of tasks call at    *)
(* the same time, and the background task that owns the lanes and the Tor  *)
(* instance.  The two sides share the published set of endpoints `ready',  *)
(* the set `unavailable', the flag `closed', the handle of the background  *)
(* task and an unbounded command channel.                                  *)
(*                                                                         *)
(* Every access to a piece of shared state is a step of its own: ready and *)
(* unavailable are behind two locks, each released before the next is      *)
(* taken, so another task can run between any two of them.  `ready' is a   *)
(* set here: the order of the vector only matters to next()'s round robin. *)
(***************************************************************************)
EXTENDS Lanes, Sequences, FiniteSets

CONSTANTS Clients,          \* the tasks that hold a handle on the pool
          None,             \* no lane, no client
          AssignmentLimit,  \* RotationPolicy::assignment_limit, 0 for None
          HasTtl,           \* RotationPolicy::duration is Some
          StopMayFail,      \* TorInstance::shutdown may return an error
          StartMayFail,     \* TorInstance::start may return an error
          Ops,              \* what the clients do
          MaxRuns,          \* bound: runs of Tor, the first one included
          MaxQueue          \* bound: no call begins with so many commands queued

AllOps == {"next", "key", "rotate", "restart", "shutdown", "cancel", "drop"}

ASSUME NoneAssumption    == None \notin Clients \cup Lanes
ASSUME SwitchAssumption  == /\ HasTtl \in BOOLEAN
                            /\ StopMayFail \in BOOLEAN
                            /\ StartMayFail \in BOOLEAN
ASSUME OpsAssumption     == Ops \subseteq AllOps
ASSUME LimitAssumption   == AssignmentLimit \in Nat
ASSUME BoundsAssumption  == MaxRuns \in Nat \ {0} /\ MaxQueue \in Nat \ {0}

VARIABLES
  ready, unavailable, closed, queue, handle,      \* shared: PoolInner
  lanes, expired, runtime, tor, runs,             \* private: ManagerState
  mpc, serving, outcome, pending, todo,           \* the manager's position
  pc, op, arg, snap, reply                        \* each client's position

shared  == <<ready, unavailable, closed, queue, handle>>
state   == <<lanes, expired, runtime, tor, runs>>
manager == <<mpc, serving, outcome, pending, todo>>
clients == <<pc, op, arg, snap, reply>>
vars    == <<shared, state, manager, clients>>

\* A command, and the client (if it still listens) the answer goes to.
Command ==
     [type : {"Assign", "Rotate"}, lane : Lanes, epoch : Nat, from : Clients \cup {None}]
  \cup
     [type : {"Restart", "Shutdown"}, lane : {None}, epoch : {0}, from : Clients \cup {None}]

Assign(e)    == [type |-> "Assign", lane |-> e.lane, epoch |-> e.epoch, from |-> None]
Rotate(l, c) == [type |-> "Rotate", lane |-> l, epoch |-> 0, from |-> c]
Restart(c)   == [type |-> "Restart", lane |-> None, epoch |-> 0, from |-> c]
Shutdown(c)  == [type |-> "Shutdown", lane |-> None, epoch |-> 0, from |-> c]
NoCommand    == [type |-> "none", lane |-> None, epoch |-> 0, from |-> None]

Outcomes == {"none", "Ok", "Err"}
Replies  == Outcomes \cup {"Closed"}

ClientPc  == {"idle", "read", "insert", "write", "send", "wait",
              "join", "joining", "returned", "gone"}
ManagerPc == {"idle", "compute", "publish", "rs_mark", "rs_stop", "rs_start",
              "rs_lanes", "sd_stop", "exit", "done"}

TypeOK ==
  /\ ready \in SUBSET LaneEndpoint
  /\ unavailable \in SUBSET Lanes
  /\ closed \in BOOLEAN
  /\ queue \in Seq(Command)
  /\ handle \in BOOLEAN
  /\ lanes \in [Lanes -> Lane]
  /\ expired \in SUBSET Lanes
  /\ runtime \in Nat /\ tor \in Nat /\ runs \in Nat
  /\ mpc \in ManagerPc
  /\ serving \in Command \cup {NoCommand}
  /\ outcome \in Outcomes
  /\ pending \in SUBSET LaneEndpoint
  /\ todo \in SUBSET Lanes
  /\ pc \in [Clients -> ClientPc]
  /\ op \in [Clients -> AllOps \cup {"none", "join"}]
  /\ arg \in [Clients -> Lanes \cup {None}]
  /\ snap \in [Clients -> SUBSET LaneEndpoint]
  /\ reply \in [Clients -> Replies]

-----------------------------------------------------------------------------
(* What the shared state means.                                            *)

ReadyIds == {l \in Lanes : lanes[l].state = "Ready"}

\* Faulty: ready_lanes without its test of the state.
ReadyLanesAnyState == {lanes[l].endpoint : l \in Lanes \ unavailable}

\* ready_lanes: what publish_ready computes under the lock of `unavailable'.
ReadyLanes == {lanes[l].endpoint : l \in ReadyIds \ unavailable}

\* A client has hidden l and the command that brings it back is not served yet.
HiddenBy(c, l) == op[c] = "rotate" /\ arg[c] = l /\ pc[c] \in {"write", "send"}
Queued(l) == \E i \in 1 .. Len(queue) : queue[i].type = "Rotate" /\ queue[i].lane = l
InFlight(l) == Queued(l) \/ \E c \in Clients : HiddenBy(c, l)
RotationInFlight == \E l \in Lanes : InFlight(l)

\* Restarts that may still start a run of Tor.
RestartsAhead ==
    Cardinality({i \in 1 .. Len(queue) : queue[i].type = "Restart"})
  + Cardinality({c \in Clients : op[c] = "restart" /\ pc[c] = "send"})
  + (IF mpc \in {"rs_mark", "rs_stop", "rs_start"} THEN 1 ELSE 0)

\* A pool that has come to be: when the randomness of a lane fails, from_instance stops the
\* instance and there is no pool.
Init ==
  /\ lanes = [l \in Lanes |-> NewLane(l, 1)]
  /\ expired = {} /\ runtime = 1 /\ runs = 1
  /\ tor = 1
  /\ unavailable = {}
  /\ ready = {NewLane(l, 1).endpoint : l \in Lanes}
  /\ closed = FALSE /\ queue = <<>> /\ handle = TRUE
  /\ mpc = "idle" /\ serving = NoCommand /\ outcome = "none"
  /\ pending = {} /\ todo = {}
  /\ pc = [c \in Clients |-> "idle"]
  /\ op = [c \in Clients |-> "none"]
  /\ arg = [c \in Clients |-> None]
  /\ snap = [c \in Clients |-> {}]
  /\ reply = [c \in Clients |-> "none"]

-----------------------------------------------------------------------------
(* The clients.  A call that ends at once with nothing changed (the pool is *)
(* closed, the lane unknown) is a stuttering step.                          *)

Goto(c, where) ==
  pc' = [pc EXCEPT ![c] = where] /\ UNCHANGED <<op, arg, snap, reply>>

Finish(c) ==
  /\ pc' = [pc EXCEPT ![c] = "idle"]
  /\ op' = [op EXCEPT ![c] = "none"]
  /\ arg' = [arg EXCEPT ![c] = None]
  /\ snap' = [snap EXCEPT ![c] = {}]
  /\ reply' = [reply EXCEPT ![c] = "none"]

Alive == mpc # "done"     \* the receiver of the command channel exists

\* ensure_open, at the head of next, for_key, rotate and restart.
Call(c, o, l) ==
  /\ pc[c] = "idle" /\ o \in Ops
  /\ o \in {"next", "key", "rotate", "restart"}
  /\ l \in IF o \in {"key", "rotate"} THEN Lanes ELSE {None}
  /\ Len(queue) < MaxQueue
  /\ o = "restart" => runs + RestartsAhead < MaxRuns
  /\ ~closed
  /\ pc' = [pc EXCEPT ![c] = IF o = "restart" THEN "send" ELSE "read"]
  /\ op' = [op EXCEPT ![c] = o]
  /\ arg' = [arg EXCEPT ![c] = l]
  /\ UNCHANGED <<snap, reply, shared, state, manager>>

\* next takes any published endpoint, for_key the one of the key's lane.
Candidates(c) == {e \in ready : op[c] = "key" => e.lane = arg[c]}

ReadSelect(c) ==
  /\ pc[c] = "read" /\ op[c] \in {"next", "key"}
  /\ \/ \E e \in Candidates(c) :
          /\ pc' = [pc EXCEPT ![c] = "send"]
          /\ snap' = [snap EXCEPT ![c] = {e}]
          /\ UNCHANGED <<op, arg, reply>>
     \/ Candidates(c) = {} /\ Finish(c)
  /\ UNCHANGED <<shared, state, manager>>

\* proxy_from_endpoint: the call returns the proxy, or Closed.
SendAssign(c) ==
  /\ pc[c] = "send" /\ op[c] \in {"next", "key"}
  /\ \E e \in snap[c] : queue' = IF Alive THEN Append(queue, Assign(e)) ELSE queue
  /\ Finish(c)
  /\ UNCHANGED <<ready, unavailable, closed, handle, state, manager>>

\* queue_rotation, one action for each access to what is shared.
ReadRotate(c) ==
  /\ pc[c] = "read" /\ op[c] = "rotate"
  /\ IF \E e \in ready : e.lane = arg[c]
     THEN /\ pc' = [pc EXCEPT ![c] = "insert"]
          /\ snap' = [snap EXCEPT ![c] = ready]
          /\ UNCHANGED <<op, arg, reply>>
     ELSE Finish(c)
  /\ UNCHANGED <<shared, state, manager>>

InsertUnavailable(c) ==
  /\ pc[c] = "insert"
  /\ unavailable' = unavailable \cup {arg[c]}
  /\ Goto(c, "write")
  /\ UNCHANGED <<ready, closed, queue, handle, state, manager>>

WriteFiltered(c) ==
  /\ pc[c] = "write"
  /\ ready' = {e \in snap[c] : e.lane # arg[c]}
  /\ pc' = [pc EXCEPT ![c] = "send"]
  /\ snap' = [snap EXCEPT ![c] = {}]
  /\ UNCHANGED <<op, arg, reply, unavailable, closed, queue, handle, state, manager>>

SendRotate(c) ==
  /\ pc[c] = "send" /\ op[c] = "rotate"
  /\ IF Alive
     THEN /\ queue' = Append(queue, Rotate(arg[c], c))
          /\ Goto(c, "wait")
          /\ UNCHANGED unavailable
     ELSE /\ unavailable' = unavailable \ {arg[c]}
          /\ Finish(c)
          /\ UNCHANGED queue
  /\ UNCHANGED <<ready, closed, handle, state, manager>>

SendRestart(c) ==
  /\ pc[c] = "send" /\ op[c] = "restart"
  /\ IF Alive THEN queue' = Append(queue, Restart(c)) /\ Goto(c, "wait")
              ELSE Finish(c) /\ UNCHANGED queue
  /\ UNCHANGED <<ready, unavailable, closed, handle, state, manager>>

\* shutdown: the first caller sends the command, a later one only joins.
CallShutdown(c) ==
  /\ pc[c] = "idle" /\ "shutdown" \in Ops
  /\ closed' = TRUE
  /\ pc' = [pc EXCEPT ![c] = IF closed THEN "join" ELSE "send"]
  /\ op' = [op EXCEPT ![c] = IF closed THEN "join" ELSE "shutdown"]
  /\ UNCHANGED <<arg, snap, reply, ready, unavailable, queue, handle, state, manager>>

\* Faulty: the answer of the manager is not awaited.
SendShutdownNoWait(c) ==
  /\ pc[c] = "send" /\ op[c] = "shutdown"
  /\ queue' = IF Alive THEN Append(queue, Shutdown(None)) ELSE queue
  /\ Goto(c, "join")
  /\ UNCHANGED <<ready, unavailable, closed, handle, state, manager>>

SendShutdown(c) ==
  /\ pc[c] = "send" /\ op[c] = "shutdown"
  /\ IF Alive THEN queue' = Append(queue, Shutdown(c)) /\ Goto(c, "wait")
              ELSE Goto(c, "join") /\ UNCHANGED queue
  /\ UNCHANGED <<ready, unavailable, closed, handle, state, manager>>

\* The answer arrives, or the sender of the answer is dropped ("Closed").
Return(c) ==
  /\ pc[c] = "wait" /\ reply[c] # "none"
  /\ IF op[c] = "shutdown" THEN Goto(c, "join") ELSE Finish(c)
  /\ UNCHANGED <<shared, state, manager>>

\* join_manager_task: whoever takes the handle waits, anyone else returns.
TakeHandle(c) ==
  /\ pc[c] = "join"
  /\ handle' = FALSE
  /\ Goto(c, IF handle THEN "joining" ELSE "returned")
  /\ UNCHANGED <<ready, unavailable, closed, queue, state, manager>>

Joined(c) ==
  /\ pc[c] = "joining" /\ mpc = "done"
  /\ Goto(c, "returned")
  /\ UNCHANGED <<shared, state, manager>>

\* The queue once c no longer listens to its answer.
Unheard(q, c) == [i \in 1 .. Len(q) |-> [q[i] EXCEPT !.from = IF @ = c THEN None ELSE @]]

\* The caller drops the future at one of its await points: the command stays
\* queued, its answer goes nowhere, a handle that was taken is lost.
Cancel(c) ==
  /\ "cancel" \in Ops
  /\ pc[c] \in {"wait", "joining"}
  /\ queue' = Unheard(queue, c)
  /\ serving' = [serving EXCEPT !.from = IF @ = c THEN None ELSE @]
  /\ Finish(c)
  /\ UNCHANGED <<ready, unavailable, closed, handle, state, mpc, outcome, pending, todo>>

\* The last use of a handle: a task lets its clone of the pool go.
Drop(c) ==
  /\ "drop" \in Ops
  /\ pc[c] \in {"idle", "returned"}
  /\ Goto(c, "gone")
  /\ UNCHANGED <<shared, state, manager>>

-----------------------------------------------------------------------------
(* The manager: run_manager and the methods of ManagerState.               *)

\* Faulty: a command that failed is not answered.
AnswerOnlyOk(r) ==
  reply' = IF serving.from = None \/ r # "Ok" THEN reply ELSE [reply EXCEPT ![serving.from] = r]

\* The command served is answered, if its caller still listens.
Answer(r) == reply' = IF serving.from = None THEN reply ELSE [reply EXCEPT ![serving.from] = r]

\* commands.recv() yields the first command, of this type.
Receive(type) ==
  /\ mpc = "idle" /\ queue # <<>> /\ Head(queue).type = type
  /\ queue' = Tail(queue)

\* The select loop is back at its head, the answer (if any) is sent.
Idle(r) ==
  /\ mpc' = "idle" /\ serving' = NoCommand /\ outcome' = "none"
  /\ Answer(r)
  /\ UNCHANGED <<pc, op, arg, snap>>

\* Faulty: nothing is published anew before the answer.
ThenAnswer(m, r) ==
  /\ mpc' = "publish" /\ serving' = m /\ outcome' = r
  /\ pending' = ready /\ UNCHANGED todo

\* publish_ready follows: it will end with the answer r to the command m.
ThenPublish(m, r) ==
  /\ mpc' = "compute" /\ serving' = m /\ outcome' = r
  /\ UNCHANGED <<pending, todo>>

\* Lane l is rotated onto the current run; its age starts again if that worked.
RotateTo(l, lane, ok) ==
  /\ RotateMayEnd(lane, ok)
  /\ lanes' = [lanes EXCEPT ![l] = Regenerate(lane, l, runtime, ok)]
  /\ expired' = IF ok THEN expired \ {l} ELSE expired
  /\ UNCHANGED <<runtime, tor, runs>>

\* Faulty: a lane that was rotated stays unavailable.
ReinstateNot(l, ok) == l \in Lanes /\ ok \in BOOLEAN /\ UNCHANGED unavailable

\* A lane that was rotated may be published again, one that failed may not.
Reinstate(l, ok) == unavailable' = IF ok THEN unavailable \ {l} ELSE unavailable

\* Faulty: an assignment of an earlier generation counts.
CountsAnyEpoch(m) == AssignmentLimit # 0 /\ lanes[m.lane].state = "Ready"

Counts(m) ==
  /\ AssignmentLimit # 0
  /\ lanes[m.lane].epoch = m.epoch
  /\ lanes[m.lane].state = "Ready"

\* ManagerState::assign, in its three outcomes.
AssignIgnored ==
  /\ Receive("Assign") /\ ~Counts(Head(queue))
  /\ UNCHANGED <<ready, unavailable, closed, handle, state, manager, clients>>

AssignCounted ==
  /\ Receive("Assign") /\ Counts(Head(queue))
  /\ LET l == Head(queue).lane
     IN  /\ lanes[l].assignments + 1 < AssignmentLimit
         /\ lanes' = [lanes EXCEPT ![l].assignments = @ + 1]
  /\ UNCHANGED <<ready, unavailable, closed, handle, expired, runtime, tor, runs,
                 manager, clients>>

AssignRotates(ok) ==
  /\ Receive("Assign") /\ Counts(Head(queue))
  /\ LET l == Head(queue).lane
         counted == [lanes[l] EXCEPT !.assignments = @ + 1]
     IN  counted.assignments >= AssignmentLimit /\ RotateTo(l, counted, ok)
  /\ ThenPublish(NoCommand, "none")
  /\ UNCHANGED <<ready, unavailable, closed, handle, clients>>

\* ManagerState::rotate.
MgrRotate(ok) ==
  /\ Receive("Rotate")
  /\ LET l == Head(queue).lane
     IN  /\ RotateTo(l, lanes[l], ok)
         /\ Reinstate(l, ok)
  /\ ThenPublish(Head(queue), IF ok THEN "Ok" ELSE "Err")
  /\ UNCHANGED <<ready, closed, handle, clients>>

\* rotate_expired, on a tick of the interval: every lane that is due, each with
\* an outcome of its own, and one publication if there was any.
Due == expired \cap ReadyIds

TickThe(due, ok) ==
  /\ mpc = "idle" /\ HasTtl /\ due # {}
  /\ ok \subseteq due
  /\ \A l \in due : RotateMayEnd(lanes[l], l \in ok)
  /\ lanes' = [l \in Lanes |-> IF l \in due THEN Regenerate(lanes[l], l, runtime, l \in ok)
                                            ELSE lanes[l]]
  /\ expired' = expired \ ok
  /\ ThenPublish(NoCommand, "none")
  /\ UNCHANGED <<shared, runtime, tor, runs, clients>>

\* Faulty: the loop stops at the first lane that is not due.
TickBreaks(ok) == TickThe({l \in Due : \A k \in Lanes : k < l => k \in Due}, ok)

Tick(ok) == TickThe(Due, ok)

\* publish_ready: the new set is computed under the lock of `unavailable' ...
Compute ==
  /\ mpc = "compute"
  /\ pending' = ReadyLanes /\ mpc' = "publish"
  /\ UNCHANGED <<shared, state, serving, outcome, todo, clients>>

\* ... and stored under the lock of `ready'; then the caller gets its answer.
Publish ==
  /\ mpc = "publish"
  /\ ready' = pending /\ pending' = {}
  /\ Idle(outcome)
  /\ UNCHANGED <<unavailable, closed, queue, handle, state, todo>>

\* ManagerState::restart.
RestartBegin ==
  /\ Receive("Restart")
  /\ ready' = {}
  /\ mpc' = "rs_mark" /\ serving' = Head(queue)
  /\ UNCHANGED <<unavailable, closed, handle, state, outcome, pending, todo, clients>>

RestartMark ==
  /\ mpc = "rs_mark"
  /\ unavailable' = unavailable \cup Lanes
  /\ lanes' = [l \in Lanes |-> [lanes[l] EXCEPT !.state = "Retiring"]]
  /\ mpc' = "rs_stop"
  /\ UNCHANGED <<ready, closed, queue, handle, expired, runtime, tor, runs,
                 serving, outcome, pending, todo, clients>>

\* The instance is taken out of the state first: whatever its shutdown returns,
\* it is dropped, and its process is gone or killed.
RestartStop ==
  /\ mpc = "rs_stop"
  /\ tor' = 0 /\ mpc' = "rs_start"
  /\ UNCHANGED <<shared, lanes, expired, runtime, runs,
                 serving, outcome, pending, todo, clients>>

RestartStopFails ==
  /\ mpc = "rs_stop" /\ tor # 0 /\ StopMayFail
  /\ tor' = 0
  /\ Idle("Err")
  /\ UNCHANGED <<shared, lanes, expired, runtime, runs, pending, todo>>

\* Faulty: the new SOCKS address is not taken over.
RestartStartStale ==
  /\ mpc = "rs_start"
  /\ runs' = runs + 1 /\ tor' = runs + 1
  /\ mpc' = "rs_lanes" /\ todo' = Lanes
  /\ UNCHANGED <<shared, lanes, expired, runtime, serving, outcome, pending, clients>>

RestartStart ==
  /\ mpc = "rs_start"
  /\ runs' = runs + 1 /\ runtime' = runs + 1 /\ tor' = runs + 1
  /\ mpc' = "rs_lanes" /\ todo' = Lanes
  /\ UNCHANGED <<shared, lanes, expired, serving, outcome, pending, clients>>

RestartStartFails ==
  /\ mpc = "rs_start" /\ StartMayFail
  /\ lanes' = [l \in Lanes |-> [lanes[l] EXCEPT !.state = "Failed"]]
  /\ mpc' = "compute" /\ outcome' = "Err"
  /\ UNCHANGED <<shared, expired, runtime, tor, runs, serving, pending, todo, clients>>

RestartLane(l, ok) ==
  /\ mpc = "rs_lanes" /\ l \in todo /\ \A k \in todo : l <= k
  /\ RotateTo(l, lanes[l], ok)
  /\ Reinstate(l, ok)
  /\ todo' = todo \ {l}
  /\ IF todo = {l} THEN mpc' = "compute" /\ outcome' = "Ok" ELSE UNCHANGED <<mpc, outcome>>
  /\ UNCHANGED <<ready, closed, queue, handle, serving, pending, clients>>

\* Faulty: only the command stops the manager, not the end of the channel.
BeginShutdownAsked ==
  /\ Receive("Shutdown") /\ serving' = Head(queue)
  /\ ready' = {} /\ mpc' = "sd_stop"
  /\ UNCHANGED <<unavailable, closed, handle, state, outcome, pending, todo, clients>>

\* Shutdown, or the end of the channel: shutdown_instance and out of the loop.
BeginShutdown ==
  /\ \/ Receive("Shutdown") /\ serving' = Head(queue)
     \/ /\ mpc = "idle" /\ queue = <<>> /\ \A c \in Clients : pc[c] = "gone"
        /\ UNCHANGED <<queue, serving>>
  /\ ready' = {} /\ mpc' = "sd_stop"
  /\ UNCHANGED <<unavailable, closed, handle, state, outcome, pending, todo, clients>>

\* Faulty: an instance that could not be stopped is kept.
ShutdownStopKeeps(ok) ==
  /\ mpc = "sd_stop"
  /\ ok \/ (tor # 0 /\ StopMayFail)
  /\ tor' = (IF ok THEN 0 ELSE tor) /\ mpc' = "exit" /\ serving' = NoCommand
  /\ Answer(IF ok THEN "Ok" ELSE "Err")
  /\ UNCHANGED <<shared, lanes, expired, runtime, runs, outcome, pending, todo,
                 pc, op, arg, snap>>

ShutdownStop(ok) ==
  /\ mpc = "sd_stop"
  /\ ok \/ (tor # 0 /\ StopMayFail)
  /\ tor' = 0 /\ mpc' = "exit" /\ serving' = NoCommand
  /\ Answer(IF ok THEN "Ok" ELSE "Err")
  /\ UNCHANGED <<shared, lanes, expired, runtime, runs, outcome, pending, todo,
                 pc, op, arg, snap>>

\* Faulty: the commands still queued outlive the task.
ExitKeepsQueue ==
  /\ mpc = "exit" /\ mpc' = "done"
  /\ UNCHANGED <<shared, state, serving, outcome, pending, todo, clients>>

\* The task ends: the receiver goes, and with it every command still queued.
Exit ==
  /\ mpc = "exit"
  /\ mpc' = "done" /\ queue' = <<>>
  /\ reply' = [c \in Clients |->
                 IF \E i \in 1 .. Len(queue) : queue[i].from = c THEN "Closed" ELSE reply[c]]
  /\ UNCHANGED <<ready, unavailable, closed, handle, state, serving, outcome, pending, todo,
                 pc, op, arg, snap>>

\* Time: a lane reaches its duration limit.
Age(l) ==
  /\ HasTtl /\ l \notin expired
  /\ expired' = expired \cup {l}
  /\ UNCHANGED <<shared, lanes, runtime, tor, runs, manager, clients>>

-----------------------------------------------------------------------------

ClientStep(c) ==
  \/ ReadSelect(c) \/ SendAssign(c)
  \/ ReadRotate(c) \/ InsertUnavailable(c) \/ WriteFiltered(c) \/ SendRotate(c)
  \/ SendRestart(c) \/ SendShutdown(c) \/ Return(c) \/ TakeHandle(c) \/ Joined(c)

ClientChoice(c) ==
  \/ \E o \in AllOps, l \in Lanes \cup {None} : Call(c, o, l)
  \/ CallShutdown(c) \/ Cancel(c) \/ Drop(c)

Assigned == AssignIgnored \/ AssignCounted \/ \E ok \in BOOLEAN : AssignRotates(ok)

Restarting ==
  \/ RestartBegin \/ RestartMark
  \/ RestartStop \/ RestartStopFails \/ RestartStart \/ RestartStartFails
  \/ \E l \in Lanes, ok \in BOOLEAN : RestartLane(l, ok)

Stopping == BeginShutdown \/ (\E ok \in BOOLEAN : ShutdownStop(ok)) \/ Exit

ManagerStep ==
  \/ Assigned \/ Restarting \/ Stopping
  \/ \E ok \in BOOLEAN : MgrRotate(ok)
  \/ Compute \/ Publish

Ticks == \E ok \in SUBSET Lanes : Tick(ok)

Next ==
  \/ \E c \in Clients : ClientStep(c) \/ ClientChoice(c)
  \/ ManagerStep \/ Ticks
  \/ \E l \in Lanes : Age(l)

Spec == Init /\ [][Next]_vars

\* A synchronous call runs to its end and a pending future is polled; the
\* manager task is scheduled, and a start or a stop of Tor ends.  select! polls
\* its branches in random order, so a tick that stays due is not passed over for
\* ever.  Nobody is obliged to call, to cancel or to drop, and time need not pass.
Fairness ==
  /\ \A c \in Clients : WF_vars(ClientStep(c))
  /\ WF_vars(ManagerStep)
  /\ SF_vars(Ticks)

FairSpec == Spec /\ Fairness

-----------------------------------------------------------------------------
(* Properties.                                                             *)

\* The endpoints that exist anywhere: published, about to be, in a client's
\* snapshot, or held by their lane.
Endpoints ==
  ready \cup pending \cup {lanes[l].endpoint : l \in Lanes} \cup (UNION {snap[c] : c \in Clients})

\* A generation is one set of credentials on one address: no two endpoints of
\* the same lane and epoch differ, and a later epoch is never on an earlier run
\* of Tor, however rotations, restarts and stale snapshots overlap.
GenerationsUnique ==
  \A e, f \in Endpoints :
    e.lane = f.lane => /\ e.epoch = f.epoch => e = f
                       /\ e.epoch < f.epoch => e.run <= f.run

\* queue_rotation hides a lane in two writes and hands it over with a third; no
\* order of calls, restarts and failures leaves a working lane hidden with
\* nobody left to bring it back.
NoLaneLeaked ==
  \A l \in unavailable : lanes[l].state = "Ready" => InFlight(l) \/ ~Alive

\* The lost updates of `ready' are repaired: when the manager is at its select
\* and no manual rotation is between its write and its service, what is
\* published is exactly the current endpoint of every working lane.
ReadyRepaired ==
  mpc = "idle" /\ ~RotationInFlight => ready = {lanes[l].endpoint : l \in ReadyIds}

\* restart refreshes the SOCKS address: while no manual rotation is outstanding,
\* every published endpoint is on the address of the last run of Tor, and no other
\* Tor runs.  A lane revived after a failed stop or start is on that address too,
\* and nothing answers there (tor = 0) until the next restart.
AddressesLive ==
  mpc = "idle" /\ ~RotationInFlight =>
    tor \in {0, runtime} /\ \A e \in ready : e.run = runtime

\* Nobody waits on a command that no longer exists, and no command is owed an
\* answer twice: each client that waits has been answered or is named by exactly
\* one command, whatever was cancelled, refused or dropped with the queue.
Owing(c) == {i \in 1 .. Len(queue) : queue[i].from = c}
AnswersMatch ==
  \A c \in Clients :
    LET owed == Cardinality(Owing(c)) + (IF serving.from = c THEN 1 ELSE 0)
    IN  owed = IF pc[c] = "wait" /\ reply[c] = "none" THEN 1 ELSE 0

\* rotate answers Ok only once the new generation is published: the lane is in
\* `ready' with its current endpoint, unless yet another rotation has hidden it.
RotateAnswered ==
  [][\A c \in Clients :
       reply[c] = "none" /\ reply'[c] = "Ok" /\ op[c] = "rotate"
       => LET l == arg[c] IN lanes'[l].endpoint \in ready' \/ InFlight(l)']_vars

\* restart answers Ok only once every lane that has not failed is on the new run
\* of Tor and published there, unless a manual rotation has hidden it again.
RestartAnswered ==
  [][\A c \in Clients :
       reply[c] = "none" /\ reply'[c] = "Ok" /\ op[c] = "restart"
       => \A l \in Lanes :
            \/ lanes'[l].state = "Failed"
            \/ /\ lanes'[l].endpoint.run = tor'
               /\ lanes'[l].endpoint \in ready' \/ InFlight(l)']_vars

\* The caller that sent the shutdown returns only when Tor is down and the
\* manager is out of its loop, whoever else is stopping, waiting or cancelling.
ShutdownComplete ==
  \A c \in Clients :
    pc[c] = "returned" /\ op[c] = "shutdown" => tor = 0 /\ mpc \in {"exit", "done"}

\* Every call that waits for the manager gets an answer.
CallsReturn ==
  \A c \in Clients : pc[c] \in {"wait", "joining"} ~> pc[c] \notin {"wait", "joining"}

\* Once the pool is closed or every handle is gone, Tor is stopped and the
\* background task ends.
Stops == closed \/ (\A c \in Clients : pc[c] = "gone") ~> tor = 0 /\ mpc = "done"

\* A lane that is due is rotated, whatever the clients do.
ExpiredRotated == \A l \in Lanes : l \in Due ~> l \notin Due \/ mpc = "done"

\* No schedule of callers keeps a working lane out of `ready' for ever.
LaneComesBack ==
  \A l \in Lanes : []<>(lanes[l].endpoint \in ready \/ lanes[l].state # "Ready" \/ ~Alive)

-----------------------------------------------------------------------------
(* The pool as its callers see it.                                         *)

\* Where the call of client c is: the answer to a rotation or a restart is decided
\* when the manager turns to publishing.
At(c) ==
  IF reply[c] # "none" THEN reply[c]
  ELSE IF serving.from # c THEN "asked"
  ELSE IF mpc \in {"compute", "publish"} THEN outcome ELSE "working"

CallOf(c) ==
  IF pc[c] = "wait" THEN [op |-> op[c], lane |-> arg[c], at |-> At(c)]
                    ELSE [op |-> "none", lane |-> None, at |-> "none"]

\* The end of the manager's loop and of the manager.
Status == IF mpc = "exit" THEN "stopped" ELSE IF mpc = "done" THEN "closed" ELSE "open"

Service == INSTANCE PoolService WITH
             given <- [l \in Lanes |-> lanes[l].endpoint], run <- tor,
             status <- Status, call <- [c \in Clients |-> CallOf(c)]

\* The pool is such a server: however its callers overlap and give up and whatever
\* fails, its calls take effect one after the other, and each is answered by what
\* became of it.
PoolServed == Service!Spec
=============================================================================
