---------------------------- MODULE TorPoolCalls ----------------------------
(***************************************************************************)
(* Proofs about the calls of TorPool.                                      *)
(*                                                                         *)
(* The answers: a caller that waits is owed one answer and nobody else     *)
(* any, and the caller whose shutdown was sent returns only when Tor is    *)
(* down.  The invariant follows each client's command from the queue to    *)
(* the manager and back.                                                   *)
(*                                                                         *)
(* What an answer `Ok' is worth: the manager answers at the very end of    *)
(* the work a command asked for, after several steps between which clients *)
(* hide lanes, cancel, and queue more: the invariant says, phase by phase, *)
(* what part of the promise is done.                                       *)
(*                                                                         *)
(* With it each step of TorPool is shown to be a step of PoolService or    *)
(* none: the calls of the pool take effect one after the other.            *)
(***************************************************************************)
EXTENDS TorPoolProofs, FiniteSetTheorems

USE NoneAssumption

\* Client c waits and has not been answered.
Owed(c) == pc[c] = "wait" /\ reply[c] = "none"

\* Client c sent the shutdown and has heard of its end.
Told(c) ==
  /\ op[c] = "shutdown"
  /\ \/ pc[c] \in {"join", "joining", "returned"}
     \/ pc[c] = "wait" /\ reply[c] # "none"

Ended == mpc \in {"exit", "done"}

ClientOK(c) ==
  /\ Owing(c) # {} => Owed(c)
  /\ \A i \in Owing(c) : /\ queue[i].type # "Assign"
                         /\ queue[i].type = "Shutdown" <=> op[c] = "shutdown"
  /\ \A i, j \in Owing(c) : i = j
  /\ serving.from = c => /\ Owed(c) /\ Owing(c) = {}
                         /\ mpc # "idle" /\ ~Ended
                         /\ op[c] = "shutdown" => mpc = "sd_stop"
                         /\ mpc \in {"compute", "publish"} => outcome # "none"
  /\ Owed(c) => serving.from = c \/ Owing(c) # {}
  /\ pc[c] \in {"idle", "read", "insert", "write", "send"} => reply[c] = "none"
  /\ Told(c) => Ended

Answering == (\A c \in Clients : ClientOK(c)) /\ (Ended => tor = 0)

-----------------------------------------------------------------------------
(* What a step does to the commands that name c.                           *)

\* The commands that name c are as many as before, and of the same types.
QueueKept(c) ==
  /\ Owing(c)' = {} <=> Owing(c) = {}
  /\ \A i \in Owing(c)' : \E j \in Owing(c) : queue'[i].type = queue[j].type
  /\ \A i, j \in Owing(c)' : i = j

LEMMA SameQueue ==
  ASSUME NEW c \in Clients, ClientOK(c), UNCHANGED queue
  PROVE  QueueKept(c)
<1>1. Owing(c)' = Owing(c)
  BY DEF Owing
<1> QED  BY <1>1 DEF QueueKept, ClientOK

LEMMA AppendOther ==
  ASSUME NEW c \in Clients, ClientOK(c), queue \in Seq(Command), NEW m \in Command,
         queue' = Append(queue, m), m.from # c
  PROVE  QueueKept(c)
<1>1. /\ Len(queue) \in Nat /\ Len(queue') = Len(queue) + 1
      /\ queue'[Len(queue) + 1] = m /\ \A i \in 1 .. Len(queue) : queue'[i] = queue[i]
  BY AppendProperties, LenProperties
<1>2. Owing(c)' = Owing(c)
  BY <1>1 DEF Owing
<1>3. \A i \in Owing(c) : queue'[i] = queue[i]
  BY <1>1 DEF Owing
<1> QED  BY <1>2, <1>3 DEF QueueKept, ClientOK

LEMMA AppendOwn ==
  ASSUME NEW c \in Clients, Owing(c) = {}, queue \in Seq(Command), NEW m \in Command,
         queue' = Append(queue, m), m.from = c
  PROVE  Owing(c)' = {Len(queue) + 1} /\ queue'[Len(queue) + 1] = m
<1>1. /\ Len(queue) \in Nat /\ Len(queue') = Len(queue) + 1
      /\ queue'[Len(queue) + 1] = m /\ \A i \in 1 .. Len(queue) : queue'[i] = queue[i]
  BY AppendProperties, LenProperties
<1>2. \A i \in 1 .. Len(queue) : queue[i].from # c
  BY DEF Owing
<1>3. Owing(c)' = {i \in 1 .. Len(queue) + 1 : queue'[i].from = c}
  BY <1>1 DEF Owing
<1> QED  BY <1>1, <1>2, <1>3

LEMMA TailOther ==
  ASSUME NEW c \in Clients, ClientOK(c), queue \in Seq(Command), queue # <<>>,
         queue' = Tail(queue), Head(queue).from # c
  PROVE  QueueKept(c)
<1>1. /\ Len(queue) \in Nat /\ Len(queue') = Len(queue) - 1
      /\ \A i \in 1 .. Len(queue') : queue'[i] = queue[i + 1]
      /\ Head(queue) = queue[1]
  BY HeadTailProperties, LenProperties
<1>2. \A i \in Owing(c)' : i \in Nat /\ i + 1 \in Owing(c) /\ queue'[i] = queue[i + 1]
  BY <1>1 DEF Owing
<1>3. \A i \in Owing(c) : i - 1 \in Owing(c)'
  BY <1>1 DEF Owing
<1>4. \A i, j \in Owing(c)' : i = j
  <2> TAKE i, j \in Owing(c)'
  <2>1. i + 1 = j + 1
    BY <1>2 DEF ClientOK
  <2> QED  BY <1>2, <2>1
<1>5. \A i \in Owing(c)' : \E j \in Owing(c) : queue'[i].type = queue[j].type
  BY <1>2
<1>6. Owing(c)' = {} <=> Owing(c) = {}
  BY <1>2, <1>3
<1> QED  BY <1>4, <1>5, <1>6 DEF QueueKept

LEMMA TailOwn ==
  ASSUME NEW c \in Clients, ClientOK(c), queue \in Seq(Command), queue # <<>>,
         queue' = Tail(queue), Head(queue).from = c
  PROVE  /\ Owing(c)' = {} /\ Owed(c)
         /\ Head(queue).type # "Assign"
         /\ Head(queue).type = "Shutdown" <=> op[c] = "shutdown"
<1>1. /\ Len(queue) \in Nat /\ Len(queue) >= 1 /\ Len(queue') = Len(queue) - 1
      /\ \A i \in 1 .. Len(queue') : queue'[i] = queue[i + 1]
      /\ Head(queue) = queue[1]
  BY HeadTailProperties, LenProperties, EmptySeq
<1>2. 1 \in Owing(c)
  BY <1>1 DEF Owing
<1>3. \A i \in Owing(c)' : i \in Nat /\ i >= 1 /\ i + 1 \in Owing(c)
  BY <1>1 DEF Owing
<1>4. \A i \in Owing(c)' : FALSE
  <2> TAKE i \in Owing(c)'
  <2>1. i + 1 = 1
    BY <1>2, <1>3 DEF ClientOK
  <2> QED  BY <1>3, <2>1
<1> QED  BY <1>1, <1>2, <1>4 DEF ClientOK

LEMMA UnheardOther ==
  ASSUME NEW c \in Clients, ClientOK(c), queue \in Seq(Command), NEW d \in Clients,
         queue' = Unheard(queue, d)
  PROVE  /\ c # d => QueueKept(c)
         /\ c = d => Owing(c)' = {}
<1>1. /\ Len(queue') = Len(queue)
      /\ \A i \in 1 .. Len(queue) :
           /\ queue'[i].type = queue[i].type
           /\ queue'[i].from = IF queue[i].from = d THEN None ELSE queue[i].from
  <2>1. Len(queue') = Len(queue)
        /\ \A i \in 1 .. Len(queue) : queue'[i].type = queue[i].type
    BY UnheardType
  <2>2. ASSUME NEW i \in 1 .. Len(queue)
        PROVE  queue'[i].from = IF queue[i].from = d THEN None ELSE queue[i].from
    <3>1. queue[i] \in Command
      OBVIOUS
    <3>2. queue'[i] = [queue[i] EXCEPT !.from = IF @ = d THEN None ELSE @]
      BY <2>2 DEF Unheard
    <3> QED  BY <3>1, <3>2 DEF Command
  <2> QED  BY <2>1, <2>2
<1>2. c # d => Owing(c)' = Owing(c)
  BY <1>1 DEF Owing
<1>3. c = d => Owing(c)' = {}
  BY <1>1 DEF Owing
<1>4. \A i \in Owing(c) : queue'[i].type = queue[i].type
  BY <1>1 DEF Owing
<1> QED  BY <1>2, <1>3, <1>4 DEF QueueKept, ClientOK

-----------------------------------------------------------------------------
(* When ClientOK survives.                                                 *)

\* Client c does not move and its command stays where it is.
LEMMA StillOK ==
  ASSUME NEW c \in Clients, ClientOK(c), QueueKept(c),
         pc'[c] = pc[c], op'[c] = op[c], reply'[c] = reply[c],
         serving'.from = c <=> serving.from = c,
         serving.from = c => /\ mpc' # "idle" /\ ~Ended'
                             /\ op[c] = "shutdown" => mpc' = "sd_stop"
                             /\ mpc' \in {"compute", "publish"} => outcome' # "none",
         Ended => Ended'
  PROVE  ClientOK(c)'
<1>1. Owed(c)' = Owed(c) /\ Told(c)' = Told(c)
  BY DEF Owed, Told
<1> QED  BY <1>1 DEF ClientOK, QueueKept

\* Client c is owed nothing, before the step and after it.
LEMMA FreeOK ==
  ASSUME NEW c \in Clients, ClientOK(c), Owing(c)' = {}, ~Owed(c)', serving'.from # c,
         pc'[c] \in {"idle", "read", "insert", "write", "send"} => reply'[c] = "none",
         Told(c)' => Ended'
  PROVE  ClientOK(c)'
  BY DEF ClientOK

\* A step of client c that leaves the queue alone.
LEMMA QuietStep ==
  ASSUME Typed, Answering, NEW c \in Clients, ~Owed(c), ~Owed(c)',
         UNCHANGED <<queue, serving, mpc, outcome, tor>>,
         \A d \in Clients \ {c} : pc'[d] = pc[d] /\ op'[d] = op[d] /\ reply'[d] = reply[d],
         pc'[c] \in {"idle", "read", "insert", "write", "send"} => reply'[c] = "none",
         Told(c)' => Ended
  PROVE  Answering'
<1>1. ASSUME NEW d \in Clients, d # c PROVE ClientOK(d)'
  <2>1. ClientOK(d) /\ QueueKept(d)
    BY SameQueue DEF Answering
  <2>2. serving.from = d => /\ mpc # "idle" /\ ~Ended
                            /\ op[d] = "shutdown" => mpc = "sd_stop"
                            /\ mpc \in {"compute", "publish"} => outcome # "none"
    BY <2>1 DEF ClientOK
  <2> QED  BY <1>1, <2>1, <2>2, StillOK DEF Ended
<1>2. ClientOK(c)'
  <2>1. ClientOK(c) /\ Owing(c)' = Owing(c)
    BY DEF Answering, Owing
  <2>2. Owing(c) = {} /\ serving.from # c
    BY <2>1 DEF ClientOK
  <2> QED  BY <2>1, <2>2, FreeOK DEF Ended
<1> QED  BY <1>1, <1>2 DEF Answering, Ended

\* A step of client c that sends m and then waits for its answer.
LEMMA AskStep ==
  ASSUME Typed, Answering, NEW c \in Clients, pc[c] = "send",
         NEW m \in Command, m.from = c, m.type # "Assign",
         m.type = "Shutdown" <=> op[c] = "shutdown",
         queue' = Append(queue, m), Goto(c, "wait"),
         UNCHANGED <<serving, mpc, outcome, tor>>
  PROVE  Answering'
<1>0. queue \in Seq(Command) /\ pc \in [Clients -> ClientPc]
  BY DEF Typed, TypeOK
<1>1. ASSUME NEW d \in Clients, d # c PROVE ClientOK(d)'
  <2>1. ClientOK(d) /\ QueueKept(d)
    BY <1>0, <1>1, AppendOther DEF Answering
  <2>2. serving.from = d => /\ mpc # "idle" /\ ~Ended
                            /\ op[d] = "shutdown" => mpc = "sd_stop"
                            /\ mpc \in {"compute", "publish"} => outcome # "none"
    BY <2>1 DEF ClientOK
  <2> QED  BY <1>0, <1>1, <2>1, <2>2, StillOK DEF Ended, Goto
<1>2. ClientOK(c)'
  <2>1. ClientOK(c) /\ ~Owed(c) /\ reply[c] = "none"
    BY DEF Answering, ClientOK, Owed
  <2>2. Owing(c) = {} /\ serving.from # c
    BY <2>1 DEF ClientOK
  <2>3. Owing(c)' = {Len(queue) + 1} /\ queue'[Len(queue) + 1] = m
    BY <1>0, <2>2, AppendOwn
  <2>4. pc'[c] = "wait" /\ reply'[c] = "none" /\ op'[c] = op[c]
    BY <1>0, <2>1 DEF Goto
  <2> QED  BY <2>2, <2>3, <2>4 DEF ClientOK, Owed, Told
<1> QED  BY <1>1, <1>2 DEF Answering, Ended

LEMMA FinishFree ==
  ASSUME Typed, NEW c \in Clients, Finish(c)
  PROVE  /\ ~Owed(c)' /\ ~Told(c)' /\ reply'[c] = "none"
         /\ \A d \in Clients \ {c} : pc'[d] = pc[d] /\ op'[d] = op[d] /\ reply'[d] = reply[d]
  BY DEF Typed, TypeOK, Finish, Owed, Told

LEMMA GotoFree ==
  ASSUME Typed, NEW c \in Clients, NEW w, w # "wait", Goto(c, w)
  PROVE  /\ ~Owed(c)' /\ pc'[c] = w /\ op'[c] = op[c] /\ reply'[c] = reply[c]
         /\ Told(c)' <=> op[c] = "shutdown" /\ w \in {"join", "joining", "returned"}
         /\ \A d \in Clients \ {c} : pc'[d] = pc[d] /\ op'[d] = op[d] /\ reply'[d] = reply[d]
  BY DEF Typed, TypeOK, Goto, Owed, Told

-----------------------------------------------------------------------------

LEMMA ClientAnswering ==
  ASSUME Typed, Answering, NEW c \in Clients, ClientStep(c) \/ ClientChoice(c)
  PROVE  Answering'
<1> USE DEF shared, state, manager
<1>0. TypeOK /\ CallOK /\ ClientOK(c)
  BY DEF Typed, Answering
<1>a. pc[c] # "wait" => ~Owed(c)
  BY DEF Owed
<1>b. pc[c] \in {"idle", "read", "insert", "write", "send"} => reply[c] = "none"
  BY <1>0 DEF ClientOK
<1>1. ASSUME NEW o \in AllOps, NEW l \in Lanes \cup {None}, Call(c, o, l) PROVE Answering'
  <2>1. /\ pc[c] = "idle" /\ pc'[c] \in {"send", "read"} /\ reply' = reply
        /\ \A d \in Clients \ {c} : pc'[d] = pc[d] /\ op'[d] = op[d]
    BY <1>0, <1>1 DEF TypeOK, Call
  <2>2. ~Owed(c)' /\ ~Told(c)'
    BY <2>1 DEF Owed, Told
  <2> QED  BY <1>1, <1>a, <1>b, <2>1, <2>2, QuietStep DEF Call
<1>2. CASE ReadSelect(c)
  <2>1. CASE Finish(c)
    BY <1>2, <1>a, <2>1, FinishFree, QuietStep DEF ReadSelect
  <2>2. CASE ~Finish(c)
    <3>1. /\ pc[c] = "read" /\ pc' = [pc EXCEPT ![c] = "send"] /\ UNCHANGED <<op, reply>>
      BY <1>2, <2>2 DEF ReadSelect
    <3>2. /\ pc'[c] = "send" /\ ~Owed(c)' /\ ~Told(c)'
          /\ \A d \in Clients \ {c} : pc'[d] = pc[d]
      BY <1>0, <3>1 DEF TypeOK, Owed, Told
    <3> QED  BY <1>2, <1>a, <1>b, <3>1, <3>2, QuietStep DEF ReadSelect
  <2> QED  BY <2>1, <2>2
<1>3. CASE SendAssign(c)
  <2>1. PICK e \in snap[c] : queue' = IF Alive THEN Append(queue, Assign(e)) ELSE queue
    BY <1>3 DEF SendAssign
  <2>2. Assign(e) \in Command /\ Assign(e).from = None
    BY <1>0, CommandTypes DEF TypeOK, Assign
  <2>3. /\ pc[c] = "send" /\ Finish(c)
        /\ UNCHANGED <<serving, mpc, outcome, tor>>
    BY <1>3 DEF SendAssign
  <2>4. ASSUME NEW d \in Clients PROVE QueueKept(d) /\ ClientOK(d)
    <3>1. ClientOK(d) /\ Assign(e).from # d
      BY <2>2 DEF Answering
    <3>2. CASE Alive
      BY <1>0, <2>1, <2>2, <3>1, <3>2, AppendOther DEF TypeOK
    <3>3. CASE ~Alive
      BY <2>1, <3>1, <3>3, SameQueue
    <3> QED  BY <3>1, <3>2, <3>3
  <2>5. ASSUME NEW d \in Clients, d # c PROVE ClientOK(d)'
    <3>1. pc'[d] = pc[d] /\ op'[d] = op[d] /\ reply'[d] = reply[d]
      BY <2>3, <2>5, FinishFree
    <3>2. ClientOK(d) /\ QueueKept(d)
      BY <2>4
    <3>3. serving.from = d => /\ mpc # "idle" /\ ~Ended
                              /\ op[d] = "shutdown" => mpc = "sd_stop"
                              /\ mpc \in {"compute", "publish"} => outcome # "none"
      BY <3>2 DEF ClientOK
    <3> QED  BY <2>3, <3>1, <3>2, <3>3, StillOK DEF Ended
  <2>6. ClientOK(c)'
    <3>1. Owing(c) = {} /\ serving.from # c
      BY <1>0, <1>a, <2>3 DEF ClientOK
    <3>2. Owing(c)' = {}
      BY <2>4, <3>1 DEF QueueKept
    <3> QED  BY <1>0, <2>3, <3>1, <3>2, FinishFree, FreeOK
  <2> QED  BY <2>3, <2>5, <2>6 DEF Answering, Ended
<1>4. CASE ReadRotate(c)
  <2>1. CASE Finish(c)
    BY <1>4, <1>a, <2>1, FinishFree, QuietStep DEF ReadRotate
  <2>2. CASE ~Finish(c)
    <3>1. /\ pc[c] = "read" /\ pc' = [pc EXCEPT ![c] = "insert"] /\ UNCHANGED <<op, reply>>
      BY <1>4, <2>2 DEF ReadRotate
    <3>2. /\ pc'[c] = "insert" /\ ~Owed(c)' /\ ~Told(c)'
          /\ \A d \in Clients \ {c} : pc'[d] = pc[d]
      BY <1>0, <3>1 DEF TypeOK, Owed, Told
    <3> QED  BY <1>4, <1>a, <1>b, <3>1, <3>2, QuietStep DEF ReadRotate
  <2> QED  BY <2>1, <2>2
<1>5. CASE InsertUnavailable(c)
  <2>1. pc[c] = "insert" /\ Goto(c, "write")
    BY <1>5 DEF InsertUnavailable
  <2> QED  BY <1>5, <1>a, <1>b, <2>1, GotoFree, QuietStep DEF InsertUnavailable
<1>6. CASE WriteFiltered(c)
  <2>1. /\ pc[c] = "write" /\ pc' = [pc EXCEPT ![c] = "send"] /\ UNCHANGED <<op, reply>>
    BY <1>6 DEF WriteFiltered
  <2>2. /\ pc'[c] = "send" /\ ~Owed(c)' /\ ~Told(c)'
        /\ \A d \in Clients \ {c} : pc'[d] = pc[d]
    BY <1>0, <2>1 DEF TypeOK, Owed, Told
  <2> QED  BY <1>6, <1>a, <1>b, <2>1, <2>2, QuietStep DEF WriteFiltered
<1>7. CASE SendRotate(c)
  <2>1. CASE Alive
    <3>1. /\ Rotate(arg[c], c) \in Command /\ Rotate(arg[c], c).from = c
          /\ Rotate(arg[c], c).type = "Rotate"
      BY <1>0, <1>7, CommandTypes DEF SendRotate, CallOK, Rotate
    <3> QED  BY <1>7, <2>1, <3>1, AskStep DEF SendRotate
  <2>2. CASE ~Alive
    BY <1>7, <1>a, <2>2, FinishFree, QuietStep DEF SendRotate
  <2> QED  BY <2>1, <2>2
<1>8. CASE SendRestart(c)
  <2>1. CASE Alive
    <3>1. /\ Restart(c) \in Command /\ Restart(c).from = c /\ Restart(c).type = "Restart"
      BY CommandTypes DEF Restart
    <3> QED  BY <1>8, <2>1, <3>1, AskStep DEF SendRestart
  <2>2. CASE ~Alive
    BY <1>8, <1>a, <2>2, FinishFree, QuietStep DEF SendRestart
  <2> QED  BY <2>1, <2>2
<1>9. CASE CallShutdown(c)
  <2>1. /\ pc[c] = "idle" /\ reply' = reply
        /\ \A d \in Clients \ {c} : pc'[d] = pc[d] /\ op'[d] = op[d]
        /\ \/ pc'[c] = "join" /\ op'[c] = "join"
           \/ pc'[c] = "send" /\ op'[c] = "shutdown"
    BY <1>0, <1>9 DEF TypeOK, CallShutdown
  <2>2. ~Owed(c)' /\ ~Told(c)'
    BY <2>1 DEF Owed, Told
  <2> QED  BY <1>9, <1>a, <1>b, <2>1, <2>2, QuietStep DEF CallShutdown
<1>10. CASE SendShutdown(c)
  <2>1. CASE Alive
    <3>1. /\ Shutdown(c) \in Command /\ Shutdown(c).from = c /\ Shutdown(c).type = "Shutdown"
      BY CommandTypes DEF Shutdown
    <3> QED  BY <1>10, <2>1, <3>1, AskStep DEF SendShutdown
  <2>2. CASE ~Alive
    <3>1. pc[c] = "send" /\ Goto(c, "join") /\ Ended
      BY <1>10, <2>2 DEF SendShutdown, Alive, Ended
    <3> QED  BY <1>10, <1>a, <2>2, <3>1, GotoFree, QuietStep DEF SendShutdown
  <2> QED  BY <2>1, <2>2
<1>11. CASE Return(c)
  <2>1. pc[c] = "wait" /\ reply[c] # "none" /\ ~Owed(c)
    BY <1>11 DEF Return, Owed
  <2>2. CASE op[c] = "shutdown"
    <3>1. Goto(c, "join") /\ Ended
      BY <1>0, <1>11, <2>1, <2>2 DEF Return, ClientOK, Told
    <3> QED  BY <1>11, <2>1, <3>1, GotoFree, QuietStep DEF Return
  <2>3. CASE op[c] # "shutdown"
    BY <1>11, <2>1, <2>3, FinishFree, QuietStep DEF Return
  <2> QED  BY <2>2, <2>3
<1>12. CASE TakeHandle(c)
  <2>1. pc[c] = "join" /\ (Goto(c, "joining") \/ Goto(c, "returned"))
    BY <1>12 DEF TakeHandle
  <2>2. op[c] = "shutdown" => Ended
    BY <1>0, <2>1 DEF ClientOK, Told
  <2> QED  BY <1>12, <1>a, <2>1, <2>2, GotoFree, QuietStep DEF TakeHandle
<1>13. CASE Joined(c)
  <2>1. pc[c] = "joining" /\ Goto(c, "returned") /\ Ended
    BY <1>13 DEF Joined, Ended
  <2> QED  BY <1>13, <1>a, <2>1, GotoFree, QuietStep DEF Joined
<1>14. CASE Cancel(c)
  <2>1. /\ queue' = Unheard(queue, c) /\ Finish(c) /\ UNCHANGED <<mpc, outcome, tor>>
        /\ serving' = [serving EXCEPT !.from = IF @ = c THEN None ELSE @]
    BY <1>14 DEF Cancel
  <2>2. serving'.from = IF serving.from = c THEN None ELSE serving.from
    BY <1>0, <2>1 DEF TypeOK, Command, NoCommand
  <2>3. ASSUME NEW d \in Clients, d # c PROVE ClientOK(d)'
    <3>1. ClientOK(d) /\ QueueKept(d)
      BY <1>0, <2>1, <2>3, UnheardOther DEF Answering, TypeOK
    <3>2. serving.from = d => /\ mpc # "idle" /\ ~Ended
                              /\ op[d] = "shutdown" => mpc = "sd_stop"
                              /\ mpc \in {"compute", "publish"} => outcome # "none"
      BY <3>1 DEF ClientOK
    <3>3. pc'[d] = pc[d] /\ op'[d] = op[d] /\ reply'[d] = reply[d]
      BY <2>1, <2>3, FinishFree
    <3>4. serving'.from = d <=> serving.from = d
      BY <2>2, <2>3
    <3> QED  BY <2>1, <3>1, <3>2, <3>3, <3>4, StillOK DEF Ended
  <2>4. ClientOK(c)'
    <3>1. Owing(c)' = {} /\ serving'.from # c
      BY <1>0, <2>1, <2>2, UnheardOther DEF TypeOK
    <3> QED  BY <1>0, <2>1, <3>1, FinishFree, FreeOK
  <2> QED  BY <2>1, <2>3, <2>4 DEF Answering, Ended
<1>15. CASE Drop(c)
  <2>1. pc[c] \in {"idle", "returned"} /\ Goto(c, "gone")
    BY <1>15 DEF Drop
  <2> QED  BY <1>15, <1>a, <2>1, GotoFree, QuietStep DEF Drop
<1> QED
  BY <1>1, <1>2, <1>3, <1>4, <1>5, <1>6, <1>7, <1>8, <1>9, <1>10, <1>11, <1>12,
     <1>13, <1>14, <1>15 DEF ClientStep, ClientChoice

-----------------------------------------------------------------------------
(* The steps of the manager, by what they do to the command that is served. *)

\* Nothing is received and nothing answered.
LEMMA KeepStep ==
  ASSUME Answering, UNCHANGED <<queue, pc, op, reply, serving>>, ~Ended,
         mpc' # "idle" \/ mpc = "idle", ~Ended',
         mpc = "sd_stop" => mpc' = "sd_stop",
         \/ mpc' \notin {"compute", "publish"} \/ outcome' # "none"
         \/ mpc \in {"compute", "publish"} /\ outcome' = outcome
  PROVE  Answering'
<1>1. ASSUME NEW c \in Clients PROVE ClientOK(c)'
  <2>1. ClientOK(c) /\ QueueKept(c)
    BY SameQueue DEF Answering
  <2> QED  BY <2>1, StillOK DEF ClientOK
<1> QED  BY <1>1 DEF Answering

\* A command that is owed an answer is received and will be served.
LEMMA TakeStep ==
  ASSUME TypeOK, Answering, NEW t, Receive(t), t # "Assign", serving' = Head(queue),
         UNCHANGED <<pc, op, reply>>, mpc' # "idle", ~Ended',
         t = "Shutdown" => mpc' = "sd_stop",
         mpc' \in {"compute", "publish"} => outcome' # "none"
  PROVE  Answering'
<1>0. /\ queue \in Seq(Command) /\ queue # <<>> /\ queue' = Tail(queue)
      /\ mpc = "idle" /\ Head(queue).type = t
  BY DEF TypeOK, Receive
<1>1. ASSUME NEW c \in Clients PROVE ClientOK(c)'
  <2>1. ClientOK(c) /\ serving.from # c
    BY <1>0 DEF Answering, ClientOK
  <2>2. CASE Head(queue).from = c
    <3>1. Owing(c)' = {} /\ Owed(c) /\ (t = "Shutdown" <=> op[c] = "shutdown")
      BY <1>0, <2>1, <2>2, TailOwn
    <3>2. Owed(c)' /\ ~Told(c)' /\ serving'.from = c
      BY <2>2, <3>1 DEF Owed, Told
    <3> QED  BY <2>1, <3>1, <3>2 DEF ClientOK, Owed
  <2>3. CASE Head(queue).from # c
    <3>1. QueueKept(c)
      BY <1>0, <2>1, <2>3, TailOther
    <3> QED  BY <1>0, <2>1, <2>3, <3>1, StillOK DEF Ended
  <2> QED  BY <2>2, <2>3
<1> QED  BY <1>1 DEF Answering

\* An assignment is received: nobody waits for it.
LEMMA AssignStep ==
  ASSUME TypeOK, Answering, Receive("Assign"), serving' \in {serving, NoCommand},
         UNCHANGED <<pc, op, reply>>, ~Ended'
  PROVE  Answering'
<1>0. /\ queue \in Seq(Command) /\ queue # <<>> /\ queue' = Tail(queue)
      /\ mpc = "idle" /\ Head(queue).type = "Assign"
  BY DEF TypeOK, Receive
<1>1. ASSUME NEW c \in Clients PROVE ClientOK(c)'
  <2>1. ClientOK(c) /\ serving.from # c /\ serving'.from # c
    BY <1>0 DEF Answering, ClientOK, NoCommand
  <2>2. QueueKept(c)
    BY <1>0, <2>1, TailOwn, TailOther
  <2> QED  BY <1>0, <2>1, <2>2, StillOK DEF Ended
<1> QED  BY <1>1 DEF Answering

\* The answer to the command that is served is sent.
LEMMA AnswerStep ==
  ASSUME TypeOK, Answering, NEW r, Answer(r), serving' = NoCommand,
         UNCHANGED <<queue, pc, op>>, ~Ended,
         \A c \in Clients : serving.from = c => r # "none" /\ (op[c] = "shutdown" => Ended'),
         Ended' => tor' = 0
  PROVE  Answering'
<1>1. ASSUME NEW c \in Clients PROVE ClientOK(c)'
  <2>1. ClientOK(c) /\ QueueKept(c) /\ serving'.from # c
    BY SameQueue DEF Answering, NoCommand
  <2>2. CASE serving.from = c
    <3>1. reply'[c] = r /\ r # "none" /\ Owing(c)' = {} /\ pc[c] = "wait"
      BY <2>1, <2>2 DEF Answer, TypeOK, ClientOK, QueueKept, Owed
    <3>2. ~Owed(c)' /\ (Told(c)' => Ended')
      BY <2>2, <3>1 DEF Owed, Told
    <3> QED  BY <2>1, <3>1, <3>2, FreeOK
  <2>3. CASE serving.from # c
    <3>1. reply'[c] = reply[c]
      BY <2>3 DEF Answer, TypeOK
    <3> QED  BY <2>1, <2>3, <3>1, StillOK
  <2> QED  BY <2>2, <2>3
<1> QED  BY <1>1 DEF Answering

\* The task ends and every command still queued is answered by its loss.
LEMMA ExitStep ==
  ASSUME TypeOK, Answering, Exit
  PROVE  Answering'
<1>0. /\ mpc = "exit" /\ mpc' = "done" /\ queue' = <<>> /\ tor' = tor
      /\ UNCHANGED <<pc, op, serving>>
      /\ \A c \in Clients : reply'[c] = IF Owing(c) # {} THEN "Closed" ELSE reply[c]
  BY DEF Exit, state, Owing
<1>1. ASSUME NEW c \in Clients PROVE ClientOK(c)'
  <2>1. ClientOK(c) /\ serving.from # c /\ Owing(c)' = {}
    BY <1>0 DEF Answering, ClientOK, Owing, Ended
  <2>2. ~Owed(c)'
    BY <1>0, <2>1 DEF Owed, ClientOK
  <2>3. pc'[c] \in {"idle", "read", "insert", "write", "send"} => reply'[c] = "none"
    BY <1>0, <2>1 DEF ClientOK, Owed
  <2> QED  BY <1>0, <2>1, <2>2, <2>3, FreeOK DEF Ended
<1> QED  BY <1>0, <1>1 DEF Answering, Ended

LEMMA ManagerAnswering ==
  ASSUME Typed, Answering, ManagerStep
  PROVE  Answering'
<1> USE DEF shared, state, manager, clients, Ended
<1>0. TypeOK
  BY DEF Typed
<1>1. CASE AssignIgnored
  BY <1>0, <1>1, AssignStep DEF AssignIgnored, Receive
<1>2. CASE AssignCounted
  BY <1>0, <1>2, AssignStep DEF AssignCounted, Receive
<1>3. ASSUME NEW ok \in BOOLEAN, AssignRotates(ok) PROVE Answering'
  BY <1>0, <1>3, AssignStep DEF AssignRotates, ThenPublish
<1>4. ASSUME NEW ok \in BOOLEAN, MgrRotate(ok) PROVE Answering'
  BY <1>0, <1>4, TakeStep DEF MgrRotate, ThenPublish
<1>5. CASE Compute
  BY <1>5, KeepStep DEF Compute
<1>6. CASE Publish
  <2>1. \A c \in Clients : serving.from = c => outcome # "none" /\ op[c] # "shutdown"
    BY <1>6 DEF Publish, Answering, ClientOK
  <2> QED  BY <1>0, <1>6, <2>1, AnswerStep DEF Publish, Idle
<1>7. CASE RestartBegin
  BY <1>0, <1>7, TakeStep DEF RestartBegin
<1>8. CASE RestartMark
  BY <1>8, KeepStep DEF RestartMark
<1>9. CASE RestartStop
  BY <1>9, KeepStep DEF RestartStop
<1>10. CASE RestartStopFails
  <2>1. \A c \in Clients : serving.from = c => op[c] # "shutdown"
    BY <1>10 DEF RestartStopFails, Answering, ClientOK
  <2> QED  BY <1>0, <1>10, <2>1, AnswerStep DEF RestartStopFails, Idle
<1>11. CASE RestartStart
  BY <1>11, KeepStep DEF RestartStart
<1>12. CASE RestartStartFails
  BY <1>12, KeepStep DEF RestartStartFails
<1>13. ASSUME NEW l \in Lanes, NEW ok \in BOOLEAN, RestartLane(l, ok) PROVE Answering'
  BY <1>13, KeepStep DEF RestartLane
<1>14. CASE BeginShutdown
  <2>1. CASE Receive("Shutdown") /\ serving' = Head(queue)
    BY <1>0, <1>14, <2>1, TakeStep DEF BeginShutdown
  <2>2. CASE mpc = "idle" /\ UNCHANGED <<queue, serving>>
    BY <1>14, <2>2, KeepStep DEF BeginShutdown
  <2> QED  BY <1>14, <2>1, <2>2 DEF BeginShutdown
<1>15. ASSUME NEW ok \in BOOLEAN, ShutdownStop(ok) PROVE Answering'
  BY <1>0, <1>15, AnswerStep DEF ShutdownStop
<1>16. CASE Exit
  BY <1>0, <1>16, ExitStep
<1> QED
  BY <1>1, <1>2, <1>3, <1>4, <1>5, <1>6, <1>7, <1>8, <1>9, <1>10, <1>11, <1>12,
     <1>13, <1>14, <1>15, <1>16 DEF ManagerStep, Assigned, Restarting, Stopping

LEMMA TimeAnswering ==
  ASSUME Typed, Answering, Ticks \/ \E l \in Lanes : Age(l)
  PROVE  Answering'
<1> USE DEF shared, state, manager, clients, Ended
<1>1. ASSUME NEW ok \in SUBSET Lanes, Tick(ok) PROVE Answering'
  <2>1. /\ mpc = "idle" /\ mpc' = "compute" /\ serving' = NoCommand
        /\ UNCHANGED <<queue, pc, op, reply>>
    BY <1>1 DEF Tick, TickThe, ThenPublish
  <2>2. ASSUME NEW c \in Clients PROVE ClientOK(c)'
    <3>1. ClientOK(c) /\ serving.from # c /\ serving'.from # c /\ QueueKept(c)
      BY <2>1, SameQueue DEF Answering, ClientOK, NoCommand
    <3> QED  BY <2>1, <3>1, StillOK
  <2> QED  BY <2>1, <2>2 DEF Answering
<1>2. ASSUME NEW l \in Lanes, Age(l) PROVE Answering'
  BY <1>2 DEF Age, Answering, ClientOK, Owing, Owed, Told
<1> QED  BY <1>1, <1>2 DEF Ticks

LEMMA InitAnswering == Init => Answering
  BY DEF Init, Answering, ClientOK, Owing, Owed, Told, Ended, NoCommand

LEMMA NextAnswering == Typed /\ Answering /\ [Next]_vars => Answering'
<1>1. ASSUME Answering, UNCHANGED vars PROVE Answering'
  BY <1>1 DEF vars, shared, state, manager, clients, Answering, ClientOK, Owing, Owed, Told, Ended
<1> QED
  BY <1>1, ClientAnswering, ManagerAnswering, TimeAnswering DEF Next

LEMMA AlwaysAnswering == Spec => []Answering
<1>1. Init => Typed /\ Answering
  BY InitTyped, InitAnswering
<1>2. Typed /\ Answering /\ [Next]_vars => Typed' /\ Answering'
  BY NextTyped, NextAnswering
<1> QED  BY <1>1, <1>2, PTL DEF Spec

\* Each client that waits is owed exactly one answer and nobody else any,
\* whatever is cancelled, refused, or lost with the queue.
THEOREM Matched == Spec => []AnswersMatch
<1>1. Answering => AnswersMatch
  <2> SUFFICES ASSUME Answering, NEW c \in Clients
               PROVE  Cardinality(Owing(c)) + (IF serving.from = c THEN 1 ELSE 0)
                      = IF Owed(c) THEN 1 ELSE 0
    BY DEF AnswersMatch, Owed
  <2>0. ClientOK(c)
    BY DEF Answering
  <2>1. CASE Owing(c) = {}
    <3>1. Cardinality(Owing(c)) = 0
      BY <2>1, FS_EmptySet
    <3> QED  BY <2>0, <2>1, <3>1 DEF ClientOK
  <2>2. CASE Owing(c) # {}
    <3>1. PICK i \in Owing(c) : TRUE
      BY <2>2
    <3>2. Owing(c) = {i}
      BY <2>0, <3>1 DEF ClientOK
    <3>3. Cardinality(Owing(c)) = 1
      BY <3>2, FS_Singleton
    <3> QED  BY <2>0, <2>2, <3>3 DEF ClientOK
  <2> QED  BY <2>1, <2>2
<1> QED  BY <1>1, AlwaysAnswering, PTL

\* The caller whose shutdown was sent returns only with Tor down and the manager
\* out of its loop, however many others stop, wait or cancel.
THEOREM Complete == Spec => []ShutdownComplete
<1>1. Answering => ShutdownComplete
  BY DEF Answering, ClientOK, Told, Ended, ShutdownComplete
<1> QED  BY <1>1, AlwaysAnswering, PTL

-----------------------------------------------------------------------------
(* What an answer is worth.                                                *)

\* m is the command that client c's call sent.
Sent(c, m) ==
  \/ m.type = "Rotate" /\ op[c] = "rotate" /\ m.lane = arg[c]
  \/ m.type = "Restart" /\ op[c] = "restart"
  \/ m.type = "Shutdown" /\ op[c] = "shutdown"

\* Whoever a command names asked for that.
Asked ==
  \A c \in Clients : /\ \A i \in Owing(c) : Sent(c, queue[i])
                     /\ serving.from = c => Sent(c, serving)

\* What the manager is about to publish has every working lane, or the lane has
\* been hidden since, by a rotation that is still in flight.
Published ==
  mpc = "publish" => \A l \in ReadyIds : lanes[l].endpoint \in pending \/ InFlight(l)

\* The command served has had its effect on the lanes.
Done ==
  \/ serving.type = "Rotate" /\ lanes[serving.lane].state = "Ready"
  \/ /\ serving.type = "Restart" /\ tor = runtime
     /\ \A l \in Lanes : lanes[l].state \in {"Ready", "Failed"}

Worked ==
  /\ mpc \in {"rs_mark", "rs_stop", "rs_start", "rs_lanes"} => serving.type = "Restart"
  /\ mpc = "rs_lanes" => /\ tor = runtime
                         /\ \A l \in Lanes \ todo : lanes[l].state \in {"Ready", "Failed"}
  /\ mpc \in {"compute", "publish"} /\ outcome = "Ok" => Done
  /\ mpc = "sd_stop" /\ serving.from \in Clients => serving.type = "Shutdown"

-----------------------------------------------------------------------------
(* What a client's step is to everyone else.                               *)

\* Client c moves alone.
Alone(c) ==
  \A d \in Clients \ {c} :
    pc'[d] = pc[d] /\ op'[d] = op[d] /\ arg'[d] = arg[d] /\ snap'[d] = snap[d]

\* A client's step leaves the other clients, the lanes, Tor and the manager's place
\* alone; only by giving up does it move while its command is owed an answer.
LEMMA ClientAlone ==
  ASSUME Typed, NEW c \in Clients, ClientStep(c) \/ ClientChoice(c)
  PROVE  /\ Alone(c)
         /\ UNCHANGED <<lanes, runtime, runs, tor, mpc, outcome, todo, pending>>
         /\ Owed(c) => Cancel(c)
<1> USE DEF state, manager
<1>0. TypeOK
  BY DEF Typed
<1>1. Alone(c)
  <2>1. CASE Finish(c)
    BY <1>0, <2>1 DEF TypeOK, Finish, Alone
  <2>2. ASSUME NEW w, Goto(c, w) PROVE Alone(c)
    BY <1>0, <2>2 DEF TypeOK, Goto, Alone
  <2>3. ASSUME NEW o \in AllOps, NEW l \in Lanes \cup {None}, Call(c, o, l) PROVE Alone(c)
    BY <1>0, <2>3 DEF TypeOK, Call, Alone
  <2>4. CASE ReadSelect(c)
    BY <1>0, <2>1, <2>4 DEF TypeOK, ReadSelect, Alone
  <2>5. CASE ReadRotate(c)
    BY <1>0, <2>1, <2>5 DEF TypeOK, ReadRotate, Alone
  <2>6. CASE WriteFiltered(c) \/ CallShutdown(c)
    BY <1>0, <2>6 DEF TypeOK, WriteFiltered, CallShutdown, Alone
  <2> QED
    BY <2>1, <2>2, <2>3, <2>4, <2>5, <2>6 DEF ClientStep, ClientChoice, SendAssign,
       InsertUnavailable, SendRotate, SendRestart, SendShutdown, Return, TakeHandle,
       Joined, Cancel, Drop
<1>2. UNCHANGED <<lanes, runtime, runs, tor, mpc, outcome, todo, pending>>
  BY DEF ClientStep, ClientChoice, Call, ReadSelect, SendAssign, ReadRotate,
     InsertUnavailable, WriteFiltered, SendRotate, SendRestart, CallShutdown,
     SendShutdown, Return, TakeHandle, Joined, Cancel, Drop
<1>3. Owed(c) => Cancel(c)
  BY DEF Owed, ClientStep, ClientChoice, Call, ReadSelect, SendAssign, ReadRotate,
     InsertUnavailable, WriteFiltered, SendRotate, SendRestart, CallShutdown,
     SendShutdown, Return, TakeHandle, Joined, Drop
<1> QED  BY <1>1, <1>2, <1>3

\* The command queue and the command served, after a step of client c: as they
\* were, or with c forgotten, or with one more command, which is an assignment
\* or what c's own call asks for.
Speaks(c) ==
  \/ UNCHANGED <<queue, serving>>
  \/ /\ Cancel(c) /\ queue' = Unheard(queue, c)
     /\ serving' = [serving EXCEPT !.from = IF @ = c THEN None ELSE @]
  \/ /\ serving' = serving
     /\ \E m \in Command : /\ queue' = Append(queue, m)
                           /\ \/ /\ SendAssign(c) /\ m.from = None
                                 /\ \E e \in snap[c] : m = Assign(e)
                              \/ m.from = c /\ Sent(c, m)'

\* What a client's step can do to the commands: append its own, or make those it gives up
\* anonymous.
LEMMA ClientSpeaks ==
  ASSUME Typed, NEW c \in Clients, ClientStep(c) \/ ClientChoice(c)
  PROVE  Speaks(c)
<1> USE DEF shared, manager
<1>0. TypeOK /\ CallOK
  BY DEF Typed
<1>1. CASE SendAssign(c)
  <2>1. PICK e \in snap[c] : queue' = IF Alive THEN Append(queue, Assign(e)) ELSE queue
    BY <1>1 DEF SendAssign
  <2>2. Assign(e) \in Command /\ Assign(e).from = None
    BY <1>0, CommandTypes DEF TypeOK, Assign
  <2> QED  BY <1>1, <2>1, <2>2 DEF SendAssign, Speaks
<1>2. CASE SendRotate(c)
  <2> SUFFICES ASSUME NEW m, m = Rotate(arg[c], c) PROVE Speaks(c)
    OBVIOUS
  <2>1. m \in Command /\ m.from = c /\ m.type = "Rotate" /\ m.lane = arg[c]
    BY <1>0, <1>2, CommandTypes DEF SendRotate, CallOK, Rotate
  <2>2. queue' = queue \/ (queue' = Append(queue, m) /\ Goto(c, "wait"))
    BY <1>2 DEF SendRotate
  <2>3. Goto(c, "wait") => Sent(c, m)'
    BY <1>2, <2>1 DEF SendRotate, Goto, Sent
  <2> QED  BY <1>2, <2>1, <2>2, <2>3 DEF SendRotate, Speaks
<1>3. CASE SendRestart(c)
  <2> SUFFICES ASSUME NEW m, m = Restart(c) PROVE Speaks(c)
    OBVIOUS
  <2>1. m \in Command /\ m.from = c /\ m.type = "Restart"
    BY CommandTypes DEF Restart
  <2>2. queue' = queue \/ (queue' = Append(queue, m) /\ Goto(c, "wait"))
    BY <1>3 DEF SendRestart
  <2>3. Goto(c, "wait") => Sent(c, m)'
    BY <1>3, <2>1 DEF SendRestart, Goto, Sent
  <2> QED  BY <1>3, <2>1, <2>2, <2>3 DEF SendRestart, Speaks
<1>4. CASE SendShutdown(c)
  <2> SUFFICES ASSUME NEW m, m = Shutdown(c) PROVE Speaks(c)
    OBVIOUS
  <2>1. m \in Command /\ m.from = c /\ m.type = "Shutdown"
    BY CommandTypes DEF Shutdown
  <2>2. queue' = queue \/ (queue' = Append(queue, m) /\ Goto(c, "wait"))
    BY <1>4 DEF SendShutdown
  <2>3. Goto(c, "wait") => Sent(c, m)'
    BY <1>4, <2>1 DEF SendShutdown, Goto, Sent
  <2> QED  BY <1>4, <2>1, <2>2, <2>3 DEF SendShutdown, Speaks
<1>5. CASE Cancel(c)
  BY <1>5 DEF Cancel, Speaks
<1> QED
  BY <1>1, <1>2, <1>3, <1>4, <1>5 DEF ClientStep, ClientChoice, Call, ReadSelect, ReadRotate,
     InsertUnavailable, WriteFiltered, CallShutdown, Return, TakeHandle, Joined, Drop, Speaks

\* The manager and time move no client, and take commands from the queue's head
\* or drop them all.
Listens ==
  /\ UNCHANGED <<op, arg>>
  /\ queue' = queue \/ (queue # <<>> /\ queue' = Tail(queue)) \/ queue' = <<>>
  /\ serving' \in {serving, NoCommand} \/ (queue # <<>> /\ serving' = Head(queue))

\* The manager, the tick and time change no client's call, and take commands from the
\* head of the queue only.
LEMMA ManagerListens ==
  ASSUME ManagerStep \/ Ticks \/ \E l \in Lanes : Age(l)
  PROVE  Listens
  BY DEF ManagerStep, Assigned, Restarting, Stopping, AssignIgnored, AssignCounted,
     AssignRotates, MgrRotate, Compute, Publish, Idle, ThenPublish, Receive, RestartBegin,
     RestartMark, RestartStop, RestartStopFails, RestartStart, RestartStartFails, RestartLane,
     BeginShutdown, ShutdownStop, Exit, Ticks, Tick, TickThe, Age, Listens,
     shared, manager, clients

-----------------------------------------------------------------------------
(* Commands ask for what their callers asked for.                          *)

\* A command that a client appends asks for its own call; giving up leaves it nobody's.
LEMMA ClientAsked ==
  ASSUME Typed, Answering, Answering', Asked, NEW c \in Clients, ClientStep(c) \/ ClientChoice(c)
  PROVE  Asked'
<1>0. /\ queue \in Seq(Command) /\ serving \in Command \cup {NoCommand}
      /\ Alone(c) /\ (Owed(c) => Cancel(c)) /\ Speaks(c)
  BY ClientAlone, ClientSpeaks DEF Typed, TypeOK
<1>a. \A d \in Clients \ {c} : \A m : Sent(d, m) => Sent(d, m)'
  BY <1>0 DEF Alone, Sent
<1>b. ClientOK(c)
  BY DEF Answering
\* Only a cancellation moves a client with a command, and it forgets the client.
<1>1. CASE UNCHANGED <<queue, serving>>
  <2>1. \A d \in Clients : Owing(d)' = Owing(d)
    BY <1>1 DEF Owing
  <2>2. CASE Cancel(c)
    <3>1. ~Owed(c)'
      BY <2>2, FinishFree DEF Cancel
    <3>2. Owing(c)' = {} /\ serving'.from # c
      BY <3>1 DEF Answering, ClientOK
    <3> QED  BY <1>1, <1>a, <2>1, <3>2 DEF Asked
  <2>3. CASE ~Cancel(c)
    <3>1. Owing(c) = {} /\ serving.from # c
      BY <1>0, <1>b, <2>3 DEF ClientOK
    <3> QED  BY <1>1, <1>a, <2>1, <3>1 DEF Asked
  <2> QED  BY <2>2, <2>3
<1>2. CASE /\ Cancel(c) /\ queue' = Unheard(queue, c)
           /\ serving' = [serving EXCEPT !.from = IF @ = c THEN None ELSE @]
  <2>1. /\ serving'.type = serving.type /\ serving'.lane = serving.lane
        /\ serving'.from = IF serving.from = c THEN None ELSE serving.from
    BY <1>0, <1>2 DEF Command, NoCommand
  <2>2. Owing(c)' = {}
    BY <1>0, <1>2, <1>b, UnheardOther
  <2>3. ASSUME NEW d \in Clients, d # c, NEW i \in Owing(d)' PROVE Sent(d, queue[i])'
    <3>1. /\ i \in 1 .. Len(queue) /\ queue'[i].type = queue[i].type
          /\ queue'[i].lane = queue[i].lane
      BY <1>0, <1>2, UnheardType DEF Owing
    <3>2. queue[i] \in Command
      BY <1>0, <3>1
    <3>3. queue'[i] = [queue[i] EXCEPT !.from = IF @ = c THEN None ELSE @]
      BY <1>2, <3>1 DEF Unheard
    <3>4. queue'[i].from = d
      BY DEF Owing
    <3>5. i \in Owing(d)
      BY <2>3, <3>1, <3>2, <3>3, <3>4 DEF Owing, Command
    <3>6. Sent(d, queue[i])
      BY <3>5 DEF Asked
    <3> QED  BY <1>0, <2>3, <3>1, <3>6 DEF Sent, Alone
  <2>4. ASSUME NEW d \in Clients, serving'.from = d PROVE Sent(d, serving)'
    <3>1. d # c /\ serving.from = d
      BY <2>1, <2>4
    <3>2. Sent(d, serving)
      BY <3>1 DEF Asked
    <3> QED  BY <1>0, <2>1, <3>1, <3>2 DEF Sent, Alone
  <2> QED  BY <2>2, <2>3, <2>4 DEF Asked
<1>3. ASSUME NEW m \in Command, queue' = Append(queue, m), serving' = serving,
             m.from = None \/ (m.from = c /\ Sent(c, m)')
      PROVE  Asked'
  <2>1. /\ Len(queue) \in Nat /\ Len(queue') = Len(queue) + 1
        /\ queue'[Len(queue) + 1] = m /\ \A i \in 1 .. Len(queue) : queue'[i] = queue[i]
    BY <1>0, <1>3, AppendProperties, LenProperties
  <2>2. Owing(c) # {} \/ serving.from = c => FALSE
    <3>1. SUFFICES ASSUME Owed(c) PROVE FALSE
      BY <1>b DEF ClientOK
    <3>2. Len(queue') = Len(queue)
      BY <1>0, <3>1, UnheardType DEF Cancel
    <3> QED  BY <2>1, <3>2
  <2>3. ASSUME NEW d \in Clients, NEW i \in Owing(d)' PROVE Sent(d, queue[i])'
    <3>1. CASE i = Len(queue) + 1
      BY <1>3, <2>1, <2>3, <3>1 DEF Owing
    <3>2. CASE i # Len(queue) + 1
      <4>1. queue'[i] = queue[i] /\ i \in Owing(d)
        BY <2>1, <3>2 DEF Owing
      <4> QED  BY <1>a, <2>2, <4>1 DEF Asked
    <3> QED  BY <3>1, <3>2
  <2>4. ASSUME NEW d \in Clients, serving'.from = d PROVE Sent(d, serving)'
    BY <1>3, <1>a, <2>2, <2>4 DEF Asked
  <2> QED  BY <2>3, <2>4 DEF Asked
<1> QED  BY <1>0, <1>1, <1>2, <1>3 DEF Speaks

\* The command served was the head of the queue.
LEMMA ManagerAsked ==
  ASSUME TypeOK, Asked, Listens
  PROVE  Asked'
<1>0. queue \in Seq(Command)
  BY DEF TypeOK
<1>a. \A d \in Clients : \A m : Sent(d, m) => Sent(d, m)'
  BY DEF Listens, Sent
<1>b. ASSUME NEW d \in Clients, NEW i \in Owing(d)'
      PROVE  \E j \in Owing(d) : queue'[i] = queue[j]
  <2>1. CASE queue' = queue
    BY <2>1 DEF Owing
  <2>2. CASE queue # <<>> /\ queue' = Tail(queue)
    <3>1. /\ Len(queue) \in Nat /\ Len(queue') = Len(queue) - 1
          /\ \A k \in 1 .. Len(queue') : queue'[k] = queue[k + 1]
      BY <1>0, <2>2, HeadTailProperties, LenProperties
    <3>2. i + 1 \in Owing(d) /\ queue'[i] = queue[i + 1]
      BY <3>1 DEF Owing
    <3> QED  BY <3>2
  <2>3. CASE queue' = <<>>
    BY <2>3 DEF Owing
  <2> QED  BY <2>1, <2>2, <2>3 DEF Listens
<1>1. ASSUME NEW d \in Clients, NEW i \in Owing(d)' PROVE Sent(d, queue[i])'
  BY <1>a, <1>b DEF Asked
<1>2. ASSUME NEW d \in Clients, serving'.from = d PROVE Sent(d, serving)'
  <2>1. CASE serving' = serving
    BY <1>2, <1>a, <2>1 DEF Asked
  <2>2. CASE serving' = NoCommand
    BY <1>2, <2>2 DEF NoCommand
  <2>3. CASE queue # <<>> /\ serving' = Head(queue)
    <3>1. Len(queue) \in Nat /\ Len(queue) >= 1 /\ Head(queue) = queue[1]
      BY <1>0, <2>3, HeadTailProperties, LenProperties, EmptySeq
    <3>2. 1 \in Owing(d)
      BY <1>2, <2>3, <3>1 DEF Owing
    <3> QED  BY <1>a, <2>3, <3>1, <3>2 DEF Asked
  <2> QED  BY <2>1, <2>2, <2>3 DEF Listens
<1> QED  BY <1>1, <1>2 DEF Asked

\* Asked is kept, and true at first.
LEMMA NextAsked ==
  ASSUME Typed, Answering, Answering', Asked, [Next]_vars
  PROVE  Asked'
<1>1. CASE UNCHANGED vars
  BY <1>1 DEF vars, shared, manager, clients, Asked, Sent, Owing
<1> QED  BY <1>1, ClientAsked, ManagerListens, ManagerAsked DEF Next, Typed

LEMMA InitAsked == Init => Asked
  BY DEF Init, Asked, Owing, NoCommand

-----------------------------------------------------------------------------
(* The work a command asks for, and its publication.                       *)

\* A client disturbs neither the work done for a command nor its outcome.
LEMMA ClientWorked ==
  ASSUME Typed, Worked, NEW c \in Clients, ClientStep(c) \/ ClientChoice(c)
  PROVE  Worked'
<1>0. /\ Speaks(c) /\ serving \in Command \cup {NoCommand}
      /\ UNCHANGED <<lanes, runtime, tor, mpc, outcome, todo>>
  BY ClientAlone, ClientSpeaks DEF Typed, TypeOK
<1>1. /\ serving'.type = serving.type /\ serving'.lane = serving.lane
      /\ serving'.from \in Clients => serving.from \in Clients
  BY <1>0 DEF Speaks, Command, NoCommand
<1> QED  BY <1>0, <1>1 DEF Worked, Done

\* Each step of the manager does its part of the work, in the order of the code.
LEMMA ManagerWorked ==
  ASSUME Typed, Answering, Worked, ManagerStep
  PROVE  Worked'
<1> USE DEF shared, state, manager, clients
<1>0. TypeOK
  BY DEF Typed
<1>1. CASE AssignIgnored
  BY <1>1 DEF AssignIgnored, Receive, Worked
<1>2. CASE AssignCounted
  BY <1>2 DEF AssignCounted, Receive, Worked
<1>3. ASSUME NEW ok \in BOOLEAN, AssignRotates(ok) PROVE Worked'
  BY <1>3 DEF AssignRotates, ThenPublish, Worked
<1>4. ASSUME NEW ok \in BOOLEAN, MgrRotate(ok) PROVE Worked'
  <2> DEFINE l == Head(queue).lane
  <2>1. /\ l \in Lanes /\ RotateTo(l, lanes[l], ok) /\ Head(queue).type = "Rotate"
        /\ serving' = Head(queue) /\ mpc' = "compute"
        /\ outcome' = IF ok THEN "Ok" ELSE "Err"
    BY <1>0, <1>4, ReceiveType DEF MgrRotate, ThenPublish
  <2>2. lanes[l] \in Lane
    BY <1>0, <2>1 DEF TypeOK
  <2>3. ok => lanes'[l].state = "Ready"
    BY <1>0, <2>1, <2>2, RotateToEffect
  <2> QED  BY <2>1, <2>3 DEF Worked, Done
<1>5. CASE Compute
  BY <1>5 DEF Compute, Worked, Done
<1>6. CASE Publish
  BY <1>6 DEF Publish, Idle, Worked
<1>7. CASE RestartBegin
  BY <1>7 DEF RestartBegin, Receive, Worked
<1>8. CASE RestartMark
  BY <1>8 DEF RestartMark, Worked
<1>9. CASE RestartStop
  BY <1>9 DEF RestartStop, Worked
<1>10. CASE RestartStopFails
  BY <1>10 DEF RestartStopFails, Idle, Worked
<1>11. CASE RestartStart
  BY <1>11 DEF RestartStart, Worked
<1>12. CASE RestartStartFails
  BY <1>12 DEF RestartStartFails, Worked
<1>13. ASSUME NEW l \in Lanes, NEW ok \in BOOLEAN, RestartLane(l, ok) PROVE Worked'
  <2>1. RotateTo(l, lanes[l], ok) /\ lanes[l] \in Lane
    BY <1>0, <1>13 DEF RestartLane, TypeOK
  <2>2. /\ lanes'[l].state \in {"Ready", "Failed"}
        /\ \A k \in Lanes \ {l} : lanes'[k] = lanes[k]
    BY <1>0, <2>1, RotateToEffect
  <2>3. /\ mpc = "rs_lanes" /\ todo' = todo \ {l} /\ UNCHANGED <<tor, runtime, serving>>
        /\ \/ mpc' = "rs_lanes"
           \/ mpc' = "compute" /\ todo = {l}
    BY <1>13, <2>1 DEF RestartLane, RotateTo
  <2>4. \A k \in Lanes \ todo' : lanes'[k].state \in {"Ready", "Failed"}
    BY <2>2, <2>3 DEF Worked
  <2> QED  BY <2>3, <2>4 DEF Worked, Done
<1>14. CASE BeginShutdown
  <2>1. CASE Receive("Shutdown") /\ serving' = Head(queue)
    BY <1>14, <2>1 DEF BeginShutdown, Receive, Worked
  <2>2. CASE mpc = "idle" /\ UNCHANGED <<queue, serving>>
    <3>1. serving.from \notin Clients
      BY <2>2 DEF Answering, ClientOK
    <3> QED  BY <1>14, <2>2, <3>1 DEF BeginShutdown, Worked
  <2> QED  BY <1>14, <2>1, <2>2 DEF BeginShutdown
<1>15. ASSUME NEW ok \in BOOLEAN, ShutdownStop(ok) PROVE Worked'
  BY <1>15 DEF ShutdownStop, Worked
<1>16. CASE Exit
  BY <1>16 DEF Exit, Worked
<1> QED
  BY <1>1, <1>2, <1>3, <1>4, <1>5, <1>6, <1>7, <1>8, <1>9, <1>10, <1>11, <1>12,
     <1>13, <1>14, <1>15, <1>16 DEF ManagerStep, Assigned, Restarting, Stopping

\* A tick comes between two commands only, when there is no work to disturb.
LEMMA NextWorked ==
  ASSUME Typed, Answering, Worked, [Next]_vars
  PROVE  Worked'
<1> USE DEF shared, state, manager, clients
<1>1. CASE UNCHANGED vars
  BY <1>1 DEF vars, Worked, Done
<1>2. ASSUME NEW ok \in SUBSET Lanes, Tick(ok) PROVE Worked'
  BY <1>2 DEF Tick, TickThe, ThenPublish, Worked
<1>3. ASSUME NEW l \in Lanes, Age(l) PROVE Worked'
  BY <1>3 DEF Age, Worked, Done
<1> QED  BY <1>1, <1>2, <1>3, ClientWorked, ManagerWorked DEF Next, Ticks

\* Only the computation of the set leads to its publication, and while that set
\* waits nothing but the clients moves, who keep every rotation in flight.
LEMMA NextPublished ==
  ASSUME Typed, Settled, Published, [Next]_vars
  PROVE  Published'
<1> USE DEF shared, state, manager, clients
<1>0. TypeOK
  BY DEF Typed
<1>1. CASE UNCHANGED vars
  BY <1>1 DEF vars, Published, ReadyIds, InFlight, Queued, HiddenBy
<1>2. ASSUME NEW c \in Clients, ClientStep(c) \/ ClientChoice(c), mpc' = "publish"
      PROVE  Published'
  <2>1. mpc = "publish" /\ Alive
    BY <1>2, ClientAlone DEF Alive
  <2>2. FlightKept /\ UNCHANGED <<lanes, pending>>
    BY <1>2, <2>1, ClientEffect
  <2> QED  BY <2>1, <2>2 DEF Published, FlightKept, ReadyIds
<1>3. CASE Compute
  <2>1. /\ mpc = "compute" /\ pending' = ReadyLanes /\ UNCHANGED <<lanes, unavailable>>
        /\ \A l : InFlight(l) <=> InFlight(l)'
    BY <1>3, StillFlight DEF Compute
  <2>2. \A l \in ReadyIds : l \in unavailable => InFlight(l)
    BY <2>1 DEF Settled, NoLaneLeaked, Alive, ReadyIds
  <2> QED  BY <2>1, <2>2 DEF Published, ReadyLanes, ReadyIds
<1>4. CASE ManagerStep /\ ~Compute
  <2>1. mpc' # "publish"
    BY <1>4 DEF ManagerStep, Assigned, Restarting, Stopping, AssignIgnored, AssignCounted,
       AssignRotates, MgrRotate, Publish, Idle, ThenPublish, Receive, RestartBegin, RestartMark,
       RestartStop, RestartStopFails, RestartStart, RestartStartFails, RestartLane,
       BeginShutdown, ShutdownStop, Exit
  <2> QED  BY <2>1 DEF Published
<1>5. ASSUME NEW ok \in SUBSET Lanes, Tick(ok) PROVE Published'
  BY <1>5 DEF Tick, TickThe, ThenPublish, Published
<1>6. ASSUME NEW l \in Lanes, Age(l) PROVE Published'
  <2>1. \A k : InFlight(k) <=> InFlight(k)'
    BY <1>6, StillFlight DEF Age
  <2> QED  BY <1>6, <2>1 DEF Age, Published, ReadyIds
<1> QED  BY <1>1, <1>2, <1>3, <1>4, <1>5, <1>6 DEF Next, Ticks, Published

-----------------------------------------------------------------------------

Calls == Typed /\ Settled /\ OnTheRun /\ Answering /\ Asked /\ Worked /\ Published

\* The invariant of the calls is true at first, and kept.
LEMMA InitCalls == Init => Calls
<1>1. Init => Worked /\ Published
  BY DEF Init, Worked, Published
<1> QED
  BY <1>1, InitTyped, InitSettled, InitOnTheRun, InitAnswering, InitAsked DEF Calls

LEMMA NextCalls == Calls /\ [Next]_vars => Calls'
  BY NextTyped, NextSettled, NextOnTheRun, NextAnswering, NextAsked, NextWorked, NextPublished
     DEF Calls

\* The invariant of the calls, for every number of clients and lanes.
THEOREM AlwaysCalls == Spec => []Calls
  BY InitCalls, NextCalls, PTL DEF Spec

\* A client hears Ok in one of two steps: the publication that ends a rotation
\* or a restart, and the end of the shutdown.
LEMMA HearsOk ==
  ASSUME Calls, [Next]_vars, NEW c \in Clients, reply[c] = "none", reply'[c] = "Ok"
  PROVE  /\ serving.from = c
         /\ \/ Publish /\ outcome = "Ok"
            \/ mpc = "sd_stop"
<1> USE DEF shared, state, manager, clients
<1>0. TypeOK
  BY DEF Calls, Typed
<1>1. ~(UNCHANGED reply)
  OBVIOUS
<1>2. ASSUME NEW d \in Clients, ClientStep(d) \/ ClientChoice(d) PROVE FALSE
  <2>1. UNCHANGED reply \/ Finish(d)
    BY <1>2 DEF ClientStep, ClientChoice, Call, ReadSelect, SendAssign, ReadRotate, Goto,
       InsertUnavailable, WriteFiltered, SendRotate, SendRestart, CallShutdown,
       SendShutdown, Return, TakeHandle, Joined, Cancel, Drop
  <2> QED  BY <1>0, <1>1, <2>1 DEF Finish, TypeOK
<1>3. ASSUME NEW r, Answer(r) PROVE serving.from = c /\ r = "Ok"
  BY <1>0, <1>3 DEF Answer, TypeOK, Command, NoCommand
<1>4. CASE Publish
  BY <1>3, <1>4 DEF Publish, Idle
<1>5. CASE RestartStopFails
  BY <1>3, <1>5 DEF RestartStopFails, Idle
<1>6. ASSUME NEW ok \in BOOLEAN, ShutdownStop(ok) PROVE serving.from = c /\ mpc = "sd_stop"
  BY <1>3, <1>6 DEF ShutdownStop
<1>7. CASE Exit
  BY <1>0, <1>7 DEF Exit, TypeOK
<1>8. CASE ManagerStep
  BY <1>1, <1>4, <1>5, <1>6, <1>7, <1>8 DEF ManagerStep, Assigned, Restarting, Stopping,
     AssignIgnored, AssignCounted, AssignRotates, MgrRotate, Compute, RestartBegin, RestartMark,
     RestartStop, RestartStart, RestartStartFails, RestartLane, BeginShutdown
<1> QED
  BY <1>1, <1>2, <1>8 DEF Next, Ticks, Tick, TickThe, Age, vars

\* What the publication with Ok has seen to, for the client it answers.
LEMMA PublishOk ==
  ASSUME Calls, NEW c \in Clients, serving.from = c, Publish, outcome = "Ok"
  PROVE  /\ ready' = pending /\ UNCHANGED <<lanes, tor, arg>> /\ Sent(c, serving) /\ Done
         /\ \A l \in Lanes : lanes[l].state = "Ready" =>
              /\ lanes[l].endpoint.run = runtime
              /\ lanes'[l].endpoint \in ready' \/ InFlight(l)'
<1>1. mpc = "publish" /\ ready' = pending /\ UNCHANGED <<lanes, tor, queue, pc, op, arg>>
  BY DEF Publish, Idle, state
<1>2. Sent(c, serving) /\ Done
  BY <1>1 DEF Calls, Asked, Worked
<1>3. \A l : InFlight(l) <=> InFlight(l)'
  BY <1>1, StillFlight
<1> QED  BY <1>1, <1>2, <1>3 DEF Calls, Published, OnTheRun, ReadyIds

\* rotate answers Ok only once the new generation of its lane is published, or
\* yet another rotation that is still to be served has hidden the lane again;
\* whatever clients hide, cancel and queue while the manager works.
THEOREM RotateHeard == Spec => RotateAnswered
<1>1. ASSUME Calls, [Next]_vars, NEW c \in Clients,
             reply[c] = "none", reply'[c] = "Ok", op[c] = "rotate"
      PROVE  lanes'[arg[c]].endpoint \in ready' \/ InFlight(arg[c])'
  <2>1. serving.from = c /\ ((Publish /\ outcome = "Ok") \/ mpc = "sd_stop")
    BY <1>1, HearsOk
  <2>2. Sent(c, serving)
    BY <1>1, <2>1 DEF Calls, Asked
  <2>3. serving.type = "Rotate" /\ serving.lane = arg[c]
    BY <1>1, <2>2 DEF Sent
  <2>4. Publish /\ outcome = "Ok"
    BY <1>1, <2>1, <2>3 DEF Calls, Worked
  <2>5. arg[c] \in Lanes
    BY <1>1 DEF Calls, Typed, CallOK
  <2>6. lanes[arg[c]].state = "Ready"
    BY <1>1, <2>1, <2>3, <2>4, PublishOk DEF Done
  <2> SUFFICES ASSUME NEW l \in Lanes, l = arg[c]
               PROVE  lanes'[l].endpoint \in ready' \/ InFlight(arg[c])'
    BY <2>5
  <2>7. /\ lanes'[l].endpoint \in ready' \/ InFlight(l)'
        /\ l = (arg[c])'
    BY <1>1, <2>1, <2>4, <2>5, <2>6, PublishOk
  <2> QED  BY <2>7
<1>2. Calls /\ [Next]_vars =>
        [\A c \in Clients :
           reply[c] = "none" /\ reply'[c] = "Ok" /\ op[c] = "rotate"
           => lanes'[arg[c]].endpoint \in ready' \/ InFlight(arg[c])']_vars
  BY <1>1
<1> QED  BY <1>2, AlwaysCalls, PTL DEF Spec, RotateAnswered

\* restart answers Ok only once every lane that has not failed is on the new run
\* of Tor and published there, or hidden by a rotation that is still to be served.
THEOREM RestartHeard == Spec => RestartAnswered
<1>1. ASSUME Calls, [Next]_vars, NEW c \in Clients,
             reply[c] = "none", reply'[c] = "Ok", op[c] = "restart", NEW l \in Lanes
      PROVE  \/ lanes'[l].state = "Failed"
             \/ /\ lanes'[l].endpoint.run = tor'
                /\ lanes'[l].endpoint \in ready' \/ InFlight(l)'
  <2>1. serving.from = c /\ ((Publish /\ outcome = "Ok") \/ mpc = "sd_stop")
    BY <1>1, HearsOk
  <2>2. Sent(c, serving)
    BY <1>1, <2>1 DEF Calls, Asked
  <2>3. serving.type = "Restart"
    BY <1>1, <2>2 DEF Sent
  <2>4. Publish /\ outcome = "Ok"
    BY <1>1, <2>1, <2>3 DEF Calls, Worked
  <2>5. tor = runtime /\ lanes[l].state \in {"Ready", "Failed"}
    BY <1>1, <2>1, <2>3, <2>4, PublishOk DEF Done
  <2> QED  BY <1>1, <2>1, <2>4, <2>5, PublishOk
<1>2. Calls /\ [Next]_vars =>
        [\A c \in Clients :
           reply[c] = "none" /\ reply'[c] = "Ok" /\ op[c] = "restart"
           => \A l \in Lanes :
                \/ lanes'[l].state = "Failed"
                \/ /\ lanes'[l].endpoint.run = tor'
                   /\ lanes'[l].endpoint \in ready' \/ InFlight(l)']_vars
  BY <1>1
<1> QED  BY <1>2, AlwaysCalls, PTL DEF Spec, RestartAnswered

-----------------------------------------------------------------------------
(* The pool is the server that PoolService describes.                      *)

\* What the manager's phases say of the runs of Tor and of a restart's lanes.
Paced ==
  /\ runtime = runs
  /\ mpc # "rs_lanes" => todo = {}
  /\ mpc = "rs_start" => tor = 0

Serving == Calls /\ Generations /\ Paced

\* Clients do not touch it, and each step of the manager keeps it.
LEMMA NextPaced ==
  ASSUME Typed, Paced, [Next]_vars
  PROVE  Paced'
<1> USE DEF shared, state, manager, clients
<1>1. CASE UNCHANGED vars
  BY <1>1 DEF vars, Paced
<1>2. ASSUME NEW c \in Clients, ClientStep(c) \/ ClientChoice(c) PROVE Paced'
  BY <1>2, ClientAlone DEF Paced
<1>3. CASE Assigned \/ (\E ok \in BOOLEAN : MgrRotate(ok)) \/ Ticks \/ \E l \in Lanes : Age(l)
  BY <1>3 DEF Assigned, AssignIgnored, AssignCounted, AssignRotates, MgrRotate, Ticks, Tick,
     TickThe, Age, RotateTo, ThenPublish, Receive, Paced
<1>4. CASE Compute \/ Publish \/ Stopping
  BY <1>4 DEF Compute, Publish, Stopping, BeginShutdown, ShutdownStop, Exit, Idle, Receive, Paced
<1>5. CASE RestartBegin \/ RestartMark \/ RestartStop \/ RestartStopFails \/ RestartStart
           \/ RestartStartFails
  BY <1>5 DEF RestartBegin, RestartMark, RestartStop, RestartStopFails, RestartStart,
     RestartStartFails, Idle, Receive, Paced
<1>6. ASSUME NEW l \in Lanes, NEW ok \in BOOLEAN, RestartLane(l, ok) PROVE Paced'
  BY <1>6 DEF RestartLane, RotateTo, Paced
<1> QED
  BY <1>1, <1>2, <1>3, <1>4, <1>5, <1>6 DEF Next, ManagerStep, Restarting

\* Serving is an invariant.
LEMMA AlwaysServing == Spec => []Serving
<1>1. Init => Paced
  BY DEF Init, Paced
<1>2. Serving /\ [Next]_vars => Serving'
  BY NextCalls, NextGenerations, NextPaced DEF Serving, Calls
<1> QED
  BY <1>1, <1>2, InitCalls, InitGenerations, PTL DEF Spec, Serving

\* The calls as the service sees them are functions of the clients' views.
LEMMA CallsKept ==
  ASSUME \A d \in Clients : CallOf(d)' = CallOf(d)
  PROVE  [d \in Clients |-> CallOf(d)]' = [d \in Clients |-> CallOf(d)]
  OBVIOUS

\* A step that moves no call and no lane, and stays on its side of the end.
LEMMA ServiceStutters ==
  ASSUME \A d \in Clients : CallOf(d)' = CallOf(d),
         \A l \in Lanes : lanes'[l].endpoint = lanes[l].endpoint,
         UNCHANGED <<tor, runs, todo>>, Status' = Status
  PROVE  UNCHANGED Service!vars
<1>1. [l \in Lanes |-> lanes[l].endpoint]' = [l \in Lanes |-> lanes[l].endpoint]
  OBVIOUS
<1> QED  BY <1>1, CallsKept, Zenon DEF Service!vars

\* Lanes that get their next generation.
LEMMA Renews ==
  ASSUME Typed, Generations, runtime = runs, NEW S \in SUBSET Lanes,
         \A l \in Lanes : lanes'[l].endpoint = IF l \in S THEN Endpoint(l, lanes[l].epoch + 1, runtime)
                                                         ELSE lanes[l].endpoint
  PROVE  Service!Renewed(S)
<1>1. \A l \in Lanes : lanes[l].endpoint.epoch = lanes[l].epoch
  BY DEF Generations
<1> QED  BY <1>1 DEF Service!Renewed, Endpoint

\* RotateTo gives the next generation to its lane if it works, and to no other.
LEMMA RotateToRenews ==
  ASSUME Typed, Generations, runtime = runs, NEW l \in Lanes, NEW ok \in BOOLEAN,
         NEW lane \in Lane, lane.epoch = lanes[l].epoch, lane.endpoint = lanes[l].endpoint,
         RotateTo(l, lane, ok)
  PROVE  Service!Renewed(IF ok THEN {l} ELSE {}) /\ UNCHANGED <<tor, runs>>
<1>1. lanes' = [lanes EXCEPT ![l] = Regenerate(lane, l, runtime, ok)] /\ UNCHANGED <<tor, runs>>
  BY DEF RotateTo
<1>2. Regenerate(lane, l, runtime, ok).endpoint =
        IF ok THEN Endpoint(l, lanes[l].epoch + 1, runtime) ELSE lanes[l].endpoint
  BY DEF Regenerate, RotateLane, Lane
<1>3. \A k \in Lanes : lanes'[k].endpoint = IF k \in (IF ok THEN {l} ELSE {})
                                            THEN Endpoint(k, lanes[k].epoch + 1, runtime)
                                            ELSE lanes[k].endpoint
  BY <1>1, <1>2 DEF Typed, TypeOK
<1> QED  BY <1>1, <1>3, Renews

-----------------------------------------------------------------------------
(* A client's step is a call, the end of one, or nothing to the service.   *)

\* The step of a client is no step of anybody else's call.
LEMMA OthersKept ==
  ASSUME Typed, NEW c \in Clients, ClientStep(c) \/ ClientChoice(c)
  PROVE  \A d \in Clients \ {c} : CallOf(d)' = CallOf(d)
<1>0. TypeOK
  BY DEF Typed
<1>1. Alone(c) /\ UNCHANGED <<mpc, outcome>> /\ Speaks(c)
  BY ClientAlone, ClientSpeaks
<1>2. UNCHANGED reply \/ Finish(c)
  BY DEF ClientStep, ClientChoice, Call, ReadSelect, SendAssign, ReadRotate, Goto,
     InsertUnavailable, WriteFiltered, SendRotate, SendRestart, CallShutdown,
     SendShutdown, Return, TakeHandle, Joined, Cancel, Drop
<1>3. \A d \in Clients \ {c} : reply'[d] = reply[d]
  BY <1>0, <1>2 DEF Finish, TypeOK
<1>4. \A d \in Clients \ {c} : serving'.from = d <=> serving.from = d
  BY <1>0, <1>1 DEF Speaks, TypeOK, Command, NoCommand
<1> QED  BY <1>1, <1>3, <1>4 DEF Alone, CallOf, At

\* Where the step takes the client itself: into a wait, out of one, or neither.
LEMMA ClientWaits ==
  ASSUME Typed, NEW c \in Clients, ClientStep(c) \/ ClientChoice(c)
  PROVE  \/ pc[c] # "wait" /\ pc'[c] # "wait"
         \/ pc[c] = "wait" /\ pc'[c] # "wait"
         \/ /\ pc[c] = "send" /\ pc'[c] = "wait" /\ UNCHANGED <<op, arg, reply, serving>>
            /\ op[c] \in {"rotate", "restart", "shutdown"} /\ Alive
<1>0. TypeOK
  BY DEF Typed
<1>1. CASE SendRotate(c) \/ SendRestart(c) \/ SendShutdown(c)
  BY <1>0, <1>1 DEF SendRotate, SendRestart, SendShutdown, Goto, Finish, TypeOK, manager
<1>2. CASE ~(SendRotate(c) \/ SendRestart(c) \/ SendShutdown(c))
  <2>1. pc'[c] # "wait"
    BY <1>0, <1>2 DEF ClientStep, ClientChoice, Call, ReadSelect, SendAssign, ReadRotate, Goto,
       InsertUnavailable, WriteFiltered, CallShutdown, Return, TakeHandle, Joined, Cancel, Drop,
       Finish, TypeOK
  <2> QED  BY <2>1
<1> QED  BY <1>1, <1>2

\* So it is a call, the end of one, or a stutter.
LEMMA ClientServed ==
  ASSUME Serving, NEW c \in Clients, ClientStep(c) \/ ClientChoice(c)
  PROVE  Service!ClientNext(c) \/ UNCHANGED Service!vars
<1>0. Typed /\ TypeOK /\ ClientOK(c)
  BY DEF Serving, Calls, Typed, Answering
<1>1. UNCHANGED <<lanes, runs, tor, todo>> /\ Status' = Status
  BY <1>0, ClientAlone DEF Status
<1>2. \A d \in Clients \ {c} : CallOf(d)' = CallOf(d)
  BY <1>0, OthersKept
<1>3. [d \in Clients |-> CallOf(d)]' = [[d \in Clients |-> CallOf(d)] EXCEPT ![c] = CallOf(c)']
  BY <1>2
<1>4. CASE pc[c] # "wait" /\ pc'[c] # "wait"
  <2>1. \A d \in Clients : CallOf(d)' = CallOf(d)
    BY <1>2, <1>4 DEF CallOf
  <2> QED  BY <1>1, <2>1, ServiceStutters
<1>5. CASE pc[c] = "wait" /\ pc'[c] # "wait"
  <2>1. CallOf(c)' = Service!NoCall
    BY <1>5 DEF CallOf, Service!NoCall
  <2> QED  BY <1>1, <1>3, <2>1 DEF Service!ClientNext, Service!Leave
<1>6. CASE /\ pc[c] = "send" /\ pc'[c] = "wait" /\ UNCHANGED <<op, arg, reply, serving>>
           /\ op[c] \in {"rotate", "restart", "shutdown"} /\ Alive
  <2>1. CallOf(c) = Service!NoCall
    BY <1>6 DEF CallOf, Service!NoCall
  <2>2. reply[c] = "none" /\ serving.from # c
    BY <1>0, <1>6 DEF ClientOK, Owed
  <2>3. CallOf(c)' = [op |-> op[c], lane |-> arg[c], at |-> "asked"]
    BY <1>6, <2>2 DEF CallOf, At
  <2>4. Status # "closed" /\ arg[c] \in Lanes \cup {None}
    BY <1>0, <1>6 DEF Status, Alive, TypeOK
  <2>5. Service!Ask(c, op[c], arg[c])
    BY <1>1, <1>3, <1>6, <2>1, <2>3, <2>4 DEF Service!Ask
  <2> QED  BY <1>6, <2>4, <2>5 DEF Service!ClientNext
<1> QED  BY <1>0, <1>4, <1>5, <1>6, ClientWaits

-----------------------------------------------------------------------------
(* A step of the manager is a step of the server, or none.                 *)

\* A call that is waited for is of its client, and the one that is being worked on is
\* the one that its command asks for.
LEMMA ServedCall ==
  ASSUME Serving, NEW c \in Clients
  PROVE  /\ serving.from = c => pc[c] = "wait" /\ reply[c] = "none" /\ Sent(c, serving)
         /\ mpc \in {"idle", "exit", "done"} => serving.from # c
         /\ CallOf(c).at = "working" <=> serving.from = c /\ mpc \notin {"compute", "publish"}
<1>0. TypeOK /\ ClientOK(c) /\ Asked
  BY DEF Serving, Calls, Typed, Answering
<1>1. /\ serving.from = c => pc[c] = "wait" /\ reply[c] = "none" /\ Sent(c, serving)
      /\ mpc \in {"idle", "exit", "done"} => serving.from # c
  BY <1>0 DEF ClientOK, Owed, Ended, Asked
<1>2. reply[c] # "working" /\ outcome # "working"
  BY <1>0 DEF TypeOK, Replies, Outcomes
<1> QED  BY <1>0, <1>1, <1>2 DEF CallOf, At

\* The command at the head of the queue is what its caller, if it has one, waits for.
LEMMA HeadCall ==
  ASSUME Serving, queue # <<>>, NEW c \in Clients, Head(queue).from = c
  PROVE  /\ pc[c] = "wait" /\ reply[c] = "none" /\ serving.from # c
         /\ Sent(c, Head(queue)) /\ CallOf(c).at = "asked"
<1>0. queue \in Seq(Command) /\ ClientOK(c) /\ Asked
  BY DEF Serving, Calls, Typed, TypeOK, Answering
<1>1. Len(queue) \in Nat /\ Len(queue) >= 1 /\ Head(queue) = queue[1]
  BY <1>0, HeadTailProperties, LenProperties, EmptySeq
<1>2. 1 \in Owing(c)
  BY <1>1 DEF Owing
<1> QED  BY <1>0, <1>1, <1>2 DEF ClientOK, Owed, Asked, CallOf, At

\* At the select of the manager the service is free.
LEMMA IdleFree ==
  ASSUME Serving, mpc = "idle"
  PROVE  Service!Free
<1>1. Status = "open" /\ todo = {}
  BY DEF Status, Serving, Paced
<1>2. \A c \in Clients : CallOf(c).at # "working"
  BY ServedCall
<1> QED  BY <1>1, <1>2 DEF Service!Free

\* Nobody's call is touched by a step that takes no command up and answers none.
LEMMA SilentKept ==
  ASSUME UNCHANGED <<pc, op, arg, reply, serving>>,
         \/ UNCHANGED <<mpc, outcome>>
         \/ /\ UNCHANGED outcome
            /\ mpc \in {"compute", "publish"} <=> mpc' \in {"compute", "publish"}
  PROVE  \A d \in Clients : CallOf(d)' = CallOf(d)
  BY DEF CallOf, At

\* Nor by one that turns from the select to something that nobody waits for.
LEMMA UnaskedKept ==
  ASSUME Serving, mpc = "idle", UNCHANGED <<pc, op, arg, reply>>,
         serving'.from \notin Clients
  PROVE  \A d \in Clients : CallOf(d)' = CallOf(d)
<1>1. \A d \in Clients : serving.from # d /\ serving'.from # d
  BY ServedCall
<1> QED  BY <1>1 DEF CallOf, At

\* The answer to the command served is what has become of its caller's call.
LEMMA AnswerEnds ==
  ASSUME Serving, NEW r \in {"Ok", "Err"}, Answer(r), serving' = NoCommand,
         UNCHANGED <<pc, op, arg>>
  PROVE  \A d \in Clients :
           CallOf(d)' = IF serving.from = d THEN [CallOf(d) EXCEPT !.at = r] ELSE CallOf(d)
<1>0. TypeOK
  BY DEF Serving, Calls, Typed
<1> SUFFICES ASSUME NEW d \in Clients
             PROVE  CallOf(d)' = IF serving.from = d THEN [CallOf(d) EXCEPT !.at = r] ELSE CallOf(d)
  OBVIOUS
<1>1. serving'.from # d
  BY DEF NoCommand
<1>2. CASE serving.from = d
  <2>1. reply'[d] = r /\ pc[d] = "wait"
    BY <1>0, <1>2, ServedCall DEF Answer, TypeOK
  <2> QED  BY <1>2, <2>1 DEF CallOf, At
<1>3. CASE serving.from # d
  <2>1. reply'[d] = reply[d]
    BY <1>0, <1>3 DEF Answer, TypeOK
  <2> QED  BY <1>1, <1>3, <2>1 DEF CallOf, At
<1> QED  BY <1>2, <1>3

\* The work on a command of this kind ends, for its caller, with r.
LEMMA WorkEnds ==
  ASSUME Serving, mpc \notin {"compute", "publish"}, NEW r,
         NEW o \in {"restart", "shutdown"},
         \A d \in Clients : serving.from = d => op[d] = o,
         \A d \in Clients :
           CallOf(d)' = IF serving.from = d THEN [CallOf(d) EXCEPT !.at = r] ELSE CallOf(d)
  PROVE  Service!Ends(o, r)
<1>1. \A d \in Clients : CallOf(d).at = "working" <=> serving.from = d
  BY ServedCall
<1>2. \A d \in Clients : serving.from = d => CallOf(d).op = o
  BY ServedCall DEF CallOf
<1>3. \A d \in Clients : CallOf(d)' = IF CallOf(d).op = o /\ CallOf(d).at = "working"
                                      THEN [CallOf(d) EXCEPT !.at = r] ELSE CallOf(d)
  BY <1>1, <1>2
<1> QED  BY <1>3 DEF Service!Ends

\* Assignments and expiry: rotations that nobody waits for, if any.
LEMMA RotatesItself ==
  ASSUME Serving, Assigned \/ Ticks
  PROVE  (\E S \in SUBSET Lanes : Service!Expire(S)) \/ UNCHANGED Service!vars
<1> USE DEF shared, state, manager, clients
<1>0. Typed /\ TypeOK /\ Generations /\ runtime = runs
  BY DEF Serving, Calls, Typed, Paced
<1>1. CASE AssignIgnored \/ AssignCounted
  <2>1. UNCHANGED <<pc, op, arg, reply, serving, mpc, outcome, tor, runs, todo>>
    BY <1>1 DEF AssignIgnored, AssignCounted, Receive
  <2>2. CASE lanes' = lanes
    BY <2>1, <2>2, SilentKept, ServiceStutters DEF Status
  <2>3. CASE AssignCounted
    <3>1. /\ Head(queue).lane \in Lanes
          /\ lanes' = [lanes EXCEPT ![Head(queue).lane].assignments = @ + 1]
      BY <1>0, <2>3, ReceiveType DEF AssignCounted
    <3>2. \A l \in Lanes : lanes'[l].endpoint = lanes[l].endpoint
      BY <1>0, <3>1 DEF TypeOK, Lane
    <3> QED  BY <2>1, <3>2, SilentKept, ServiceStutters DEF Status
  <2> QED  BY <1>1, <2>2, <2>3 DEF AssignIgnored
<1>2. ASSUME mpc = "idle", mpc' = "compute", serving' = NoCommand,
             UNCHANGED <<pc, op, arg, reply, tor, runs, todo>>,
             NEW S \in SUBSET Lanes, Service!Renewed(S)
      PROVE  Service!Expire(S)
  <2>1. \A d \in Clients : CallOf(d)' = CallOf(d)
    BY <1>2, UnaskedKept DEF NoCommand
  <2>2. Status' = Status
    BY <1>2 DEF Status
  <2> QED  BY <1>2, <2>1, <2>2, IdleFree, CallsKept DEF Service!Expire
<1>3. ASSUME NEW ok \in BOOLEAN, AssignRotates(ok) PROVE \E S \in SUBSET Lanes : Service!Expire(S)
  <2>0. Head(queue).lane \in Lanes
    BY <1>0, <1>3, ReceiveType DEF AssignRotates
  <2> SUFFICES ASSUME NEW l \in Lanes, l = Head(queue).lane,
                      NEW counted, counted = [lanes[l] EXCEPT !.assignments = @ + 1]
               PROVE  \E S \in SUBSET Lanes : Service!Expire(S)
    BY <2>0
  <2>1. lanes[l] \in Lane
    BY <1>0 DEF TypeOK
  <2>2. counted \in Lane /\ counted.epoch = lanes[l].epoch /\ counted.endpoint = lanes[l].endpoint
    BY <2>1, CountType DEF Lane
  <2>3. RotateTo(l, counted, ok)
    BY <1>3 DEF AssignRotates
  <2>4. Service!Renewed(IF ok THEN {l} ELSE {}) /\ UNCHANGED <<tor, runs>>
    BY <1>0, <2>1, <2>2, <2>3, RotateToRenews
  <2>5. (IF ok THEN {l} ELSE {}) \in SUBSET Lanes
    BY <2>1
  <2>6. /\ mpc = "idle" /\ mpc' = "compute" /\ serving' = NoCommand
        /\ UNCHANGED <<pc, op, arg, reply, todo>>
    BY <1>3 DEF AssignRotates, ThenPublish, Receive
  <2> QED  BY <1>2, <2>4, <2>5, <2>6
<1>4. ASSUME NEW ok \in SUBSET Lanes, Tick(ok) PROVE \E S \in SUBSET Lanes : Service!Expire(S)
  <2>1. /\ ok \subseteq Due
        /\ lanes' = [l \in Lanes |-> IF l \in Due THEN Regenerate(lanes[l], l, runtime, l \in ok)
                                                  ELSE lanes[l]]
        /\ mpc = "idle" /\ mpc' = "compute" /\ serving' = NoCommand
        /\ UNCHANGED <<pc, op, arg, reply, tor, runs, todo>>
    BY <1>4 DEF Tick, TickThe, ThenPublish
  <2>2. \A l \in Lanes : lanes'[l].endpoint =
          IF l \in ok THEN Endpoint(l, lanes[l].epoch + 1, runtime) ELSE lanes[l].endpoint
    <3> SUFFICES ASSUME NEW l \in Lanes
                 PROVE  lanes'[l].endpoint = IF l \in ok THEN Endpoint(l, lanes[l].epoch + 1, runtime)
                                                         ELSE lanes[l].endpoint
      OBVIOUS
    <3>1. lanes[l] \in Lane
      BY <1>0 DEF TypeOK
    <3>2. Regenerate(lanes[l], l, runtime, l \in ok).endpoint =
            IF l \in ok THEN Endpoint(l, lanes[l].epoch + 1, runtime) ELSE lanes[l].endpoint
      BY <3>1 DEF Regenerate, RotateLane, Lane
    <3>3. CASE l \in Due
      <4>1. lanes'[l] = Regenerate(lanes[l], l, runtime, l \in ok)
        BY <2>1, <3>3
      <4> QED  BY <3>2, <4>1
    <3>4. CASE l \notin Due
      <4>1. lanes'[l] = lanes[l] /\ l \notin ok
        BY <2>1, <3>4
      <4> QED  BY <4>1
    <3> QED  BY <3>3, <3>4
  <2>3. Service!Renewed(ok)
    BY <1>0, <2>2, Renews
  <2> QED  BY <1>2, <2>1, <2>3
<1> QED  BY <1>1, <1>3, <1>4 DEF Assigned, Ticks

\* A rotation is answered by whether the lane has its next generation.
LEMMA RotationServed ==
  ASSUME Serving, NEW ok \in BOOLEAN, MgrRotate(ok)
  PROVE  \/ \E c \in Clients : Service!Rotate(c, ok)
         \/ \E S \in SUBSET Lanes : Service!Expire(S)
<1> USE DEF shared, state, manager, clients
<1>0. Typed /\ TypeOK /\ Generations /\ runtime = runs
  BY DEF Serving, Calls, Typed, Paced
<1>a. Head(queue).lane \in Lanes
  BY <1>0, ReceiveType DEF MgrRotate
<1> SUFFICES ASSUME NEW l \in Lanes, l = Head(queue).lane
             PROVE  \/ \E c \in Clients : Service!Rotate(c, ok)
                    \/ \E S \in SUBSET Lanes : Service!Expire(S)
  BY <1>a
<1> DEFINE S == IF ok THEN {l} ELSE {}
<1>1. lanes[l] \in Lane /\ RotateTo(l, lanes[l], ok)
  BY <1>0 DEF MgrRotate, TypeOK
<1>b. \E lane \in Lane : lane = lanes[l]
  BY <1>1
<1>2. Service!Renewed(S) /\ UNCHANGED <<tor, runs>> /\ S \in SUBSET Lanes
  BY <1>0, <1>1, <1>b, RotateToRenews
<1>3. /\ mpc = "idle" /\ queue # <<>> /\ Head(queue).type = "Rotate" /\ mpc' = "compute"
      /\ serving' = Head(queue) /\ outcome' = (IF ok THEN "Ok" ELSE "Err")
      /\ UNCHANGED <<pc, op, arg, reply, todo>> /\ Status' = Status
  BY DEF MgrRotate, ThenPublish, Receive, Status
<1> HIDE DEF S
<1>4. CASE Head(queue).from \in Clients
  <2>0. PICK c \in Clients : Head(queue).from = c
    BY <1>4
  <2>1. /\ pc[c] = "wait" /\ reply[c] = "none" /\ serving.from # c /\ CallOf(c).at = "asked"
        /\ op[c] = "rotate" /\ l = arg[c]
    BY <1>3, <2>0, HeadCall DEF Sent
  <2>2. CallOf(c)' = [CallOf(c) EXCEPT !.at = IF ok THEN "Ok" ELSE "Err"]
    BY <1>3, <2>0, <2>1 DEF CallOf, At
  <2>3. \A d \in Clients \ {c} : CallOf(d)' = CallOf(d)
    <3>1. \A d \in Clients \ {c} : serving.from # d /\ serving'.from # d
      BY <1>3, <2>0, ServedCall
    <3> QED  BY <1>3, <3>1 DEF CallOf, At
  <2>4. Service!Becomes(c, IF ok THEN "Ok" ELSE "Err")
    BY <2>2, <2>3 DEF Service!Becomes
  <2>5. CallOf(c).op = "rotate" /\ CallOf(c).lane = l
    BY <2>1 DEF CallOf
  <2>6. Service!Free
    BY <1>3, IdleFree
  <2>7. Service!Rotate(c, ok)
    BY <1>2, <1>3, <2>1, <2>4, <2>5, <2>6 DEF Service!Rotate, Service!Renewed, S
  <2> QED  BY <2>7
<1>5. CASE Head(queue).from \notin Clients
  <2>1. \A d \in Clients : CallOf(d)' = CallOf(d)
    BY <1>3, <1>5, UnaskedKept
  <2>2. Service!Expire(S)
    BY <1>2, <1>3, <2>1, IdleFree, CallsKept DEF Service!Expire
  <2> QED  BY <1>2, <2>2
<1> QED  BY <1>4, <1>5

\* A restart or the shutdown is taken up, if somebody waits for it.
LEMMA WorkBegins ==
  ASSUME Serving, RestartBegin \/ BeginShutdown
  PROVE  (\E c \in Clients : Service!Begin(c)) \/ UNCHANGED Service!vars
<1> USE DEF shared, state, manager, clients
<1>1. /\ mpc = "idle" /\ mpc' \in {"rs_mark", "sd_stop"}
      /\ UNCHANGED <<pc, op, arg, reply, lanes, tor, runs, todo>> /\ Status' = Status
  BY DEF RestartBegin, BeginShutdown, Receive, Status
<1>2. \/ queue # <<>> /\ Head(queue).type \in {"Restart", "Shutdown"} /\ serving' = Head(queue)
      \/ UNCHANGED serving
  BY DEF RestartBegin, BeginShutdown, Receive
<1>3. CASE serving'.from \in Clients
  <2>0. PICK c \in Clients : serving'.from = c
    BY <1>3
  <2>1. queue # <<>> /\ Head(queue).type \in {"Restart", "Shutdown"} /\ serving' = Head(queue)
    BY <1>1, <1>2, <2>0, ServedCall
  <2>2. /\ pc[c] = "wait" /\ reply[c] = "none" /\ serving.from # c /\ CallOf(c).at = "asked"
        /\ op[c] \in {"restart", "shutdown"}
    BY <2>0, <2>1, HeadCall DEF Sent
  <2>3. CallOf(c)' = [CallOf(c) EXCEPT !.at = "working"]
    BY <1>1, <2>0, <2>2 DEF CallOf, At
  <2>4. \A d \in Clients \ {c} : CallOf(d)' = CallOf(d)
    <3>1. \A d \in Clients \ {c} : serving.from # d /\ serving'.from # d
      BY <1>1, <2>0, ServedCall
    <3> QED  BY <1>1, <3>1 DEF CallOf, At
  <2>5. Service!Becomes(c, "working")
    BY <2>3, <2>4 DEF Service!Becomes
  <2>6. CallOf(c).op \in {"restart", "shutdown"}
    BY <2>2 DEF CallOf
  <2>7. Service!Begin(c)
    BY <1>1, <2>2, <2>5, <2>6, IdleFree DEF Service!Begin
  <2> QED  BY <2>7
<1>4. CASE serving'.from \notin Clients
  <2>1. \A d \in Clients : CallOf(d)' = CallOf(d)
    BY <1>1, <1>4, UnaskedKept
  <2> QED  BY <1>1, <2>1, ServiceStutters
<1> QED  BY <1>3, <1>4

\* A restart stops Tor and starts it, and fails in one of the two or not.
LEMMA RestartServed ==
  ASSUME Serving, RestartMark \/ RestartStop \/ RestartStopFails \/ RestartStart \/ RestartStartFails
  PROVE  (\E fails \in BOOLEAN : Service!Down(fails)) \/ Service!Up \/ UNCHANGED Service!vars
<1> USE DEF shared, state, manager, clients
<1>0. TypeOK /\ (mpc = "rs_start" => tor = 0) /\ (mpc # "rs_lanes" => todo = {})
  BY DEF Serving, Calls, Typed, Paced
<1>1. \A d \in Clients : mpc \in {"rs_stop", "rs_start"} /\ serving.from = d => op[d] = "restart"
  BY ServedCall DEF Serving, Calls, Worked, Sent
<1>2. CASE RestartMark
  <2>1. \A l \in Lanes : lanes'[l].endpoint = lanes[l].endpoint
    BY <1>0, <1>2 DEF RestartMark, TypeOK, Lane
  <2>2. /\ UNCHANGED <<pc, op, arg, reply, serving, outcome, tor, runs, todo>>
        /\ mpc = "rs_mark" /\ mpc' = "rs_stop"
    BY <1>2 DEF RestartMark
  <2> QED  BY <2>1, <2>2, SilentKept, ServiceStutters DEF Status
<1>3. CASE RestartStop
  <2>1. /\ UNCHANGED <<pc, op, arg, reply, serving, outcome, lanes, runs, todo>>
        /\ mpc = "rs_stop" /\ mpc' = "rs_start" /\ tor' = 0
    BY <1>3 DEF RestartStop
  <2>2. \A d \in Clients : CallOf(d)' = CallOf(d)
    BY <2>1, SilentKept
  <2>3. Service!Down(FALSE)
    BY <1>0, <2>1, <2>2, CallsKept DEF Service!Down, Status
  <2> QED  BY <2>3
<1>4. CASE RestartStart
  <2>1. /\ UNCHANGED <<pc, op, arg, reply, serving, outcome, lanes>>
        /\ mpc = "rs_start" /\ mpc' = "rs_lanes"
        /\ runs' = runs + 1 /\ tor' = runs + 1 /\ todo' = Lanes
    BY <1>4 DEF RestartStart
  <2>2. \A d \in Clients : CallOf(d)' = CallOf(d)
    BY <2>1, SilentKept
  <2>3. Service!Up
    BY <1>0, <2>1, <2>2, CallsKept DEF Service!Up, Status
  <2> QED  BY <2>3
<1>5. ASSUME mpc \in {"rs_stop", "rs_start"}, mpc' \in {"idle", "compute"}, tor' = 0,
             UNCHANGED <<lanes, runs, todo>> \/ (RestartStartFails /\ UNCHANGED <<runs, todo>>),
             \A d \in Clients :
               CallOf(d)' = IF serving.from = d THEN [CallOf(d) EXCEPT !.at = "Err"] ELSE CallOf(d)
      PROVE  Service!Down(TRUE)
  <2>1. Service!Ends("restart", "Err")
    BY <1>1, <1>5, WorkEnds
  <2>2. \A l \in Lanes : lanes'[l].endpoint = lanes[l].endpoint
    BY <1>0, <1>5 DEF RestartStartFails, TypeOK, Lane
  <2>3. [l \in Lanes |-> lanes[l].endpoint]' = [l \in Lanes |-> lanes[l].endpoint]
    BY <2>2
  <2>4. Status = "open" /\ Status' = "open" /\ todo = {}
    BY <1>0, <1>5 DEF Status
  <2> QED  BY <1>5, <2>1, <2>3, <2>4 DEF Service!Down
<1>6. CASE RestartStopFails
  <2>1. /\ mpc = "rs_stop" /\ mpc' = "idle" /\ tor' = 0 /\ serving' = NoCommand /\ Answer("Err")
        /\ UNCHANGED <<pc, op, arg, lanes, runs, todo>>
    BY <1>6 DEF RestartStopFails, Idle
  <2>2. \A d \in Clients :
          CallOf(d)' = IF serving.from = d THEN [CallOf(d) EXCEPT !.at = "Err"] ELSE CallOf(d)
    BY <2>1, AnswerEnds
  <2> QED  BY <1>5, <2>1, <2>2
<1>7. CASE RestartStartFails
  <2>1. /\ mpc = "rs_start" /\ mpc' = "compute" /\ outcome' = "Err"
        /\ UNCHANGED <<pc, op, arg, reply, serving, tor, runs, todo>>
    BY <1>7 DEF RestartStartFails
  <2>2. \A d \in Clients :
          CallOf(d)' = IF serving.from = d THEN [CallOf(d) EXCEPT !.at = "Err"] ELSE CallOf(d)
    BY <2>1, ServedCall DEF CallOf, At
  <2> QED  BY <1>0, <1>5, <1>7, <2>1, <2>2
<1> QED  BY <1>2, <1>3, <1>4, <1>6, <1>7

\* It renews lane after lane, and the last one decides its answer.
LEMMA RenewalServed ==
  ASSUME Serving, NEW l \in Lanes, NEW ok \in BOOLEAN, RestartLane(l, ok)
  PROVE  Service!Renew(l, ok)
<1> USE DEF shared, state, manager, clients
<1>0. Typed /\ TypeOK /\ Generations /\ runtime = runs
  BY DEF Serving, Calls, Typed, Paced
<1>1. /\ mpc = "rs_lanes" /\ l \in todo /\ todo' = todo \ {l} /\ RotateTo(l, lanes[l], ok)
      /\ UNCHANGED <<pc, op, arg, reply, serving>>
  BY DEF RestartLane
<1>2. \E lane \in Lane : lane = lanes[l]
  BY <1>0 DEF TypeOK
<1>3. Service!Renewed(IF ok THEN {l} ELSE {}) /\ UNCHANGED <<tor, runs>>
  BY <1>0, <1>1, <1>2, RotateToRenews
<1>4. Status' = Status
  BY <1>1 DEF RestartLane, Status
<1>5. CASE todo = {l}
  <2>1. mpc' = "compute" /\ outcome' = "Ok"
    BY <1>5 DEF RestartLane
  <2>2. \A d \in Clients :
          CallOf(d)' = IF serving.from = d THEN [CallOf(d) EXCEPT !.at = "Ok"] ELSE CallOf(d)
    BY <1>1, <2>1, ServedCall DEF CallOf, At
  <2>3. \A d \in Clients : serving.from = d => op[d] = "restart"
    BY <1>1, ServedCall DEF Serving, Calls, Worked, Sent
  <2>4. Service!Ends("restart", "Ok")
    BY <1>1, <2>2, <2>3, WorkEnds
  <2> QED  BY <1>1, <1>3, <1>4, <1>5, <2>4 DEF Service!Renew
<1>6. CASE todo # {l}
  <2>1. UNCHANGED <<mpc, outcome>>
    BY <1>6 DEF RestartLane
  <2>2. \A d \in Clients : CallOf(d)' = CallOf(d)
    BY <1>1, <2>1, SilentKept
  <2> QED  BY <1>1, <1>3, <1>4, <1>6, <2>2, CallsKept DEF Service!Renew
<1> QED  BY <1>5, <1>6

\* The publication is no step of the service: the call was decided before it.
LEMMA PublicationStutters ==
  ASSUME Serving, Compute \/ Publish
  PROVE  UNCHANGED Service!vars
<1> USE DEF shared, state, manager, clients
<1>1. CASE Compute
  <2>1. /\ UNCHANGED <<pc, op, arg, reply, serving, outcome, lanes, tor, runs, todo>>
        /\ mpc = "compute" /\ mpc' = "publish"
    BY <1>1 DEF Compute
  <2> QED  BY <2>1, SilentKept, ServiceStutters DEF Status
<1>2. CASE Publish
  <2>1. /\ mpc = "publish" /\ mpc' = "idle" /\ serving' = NoCommand /\ Answer(outcome)
        /\ UNCHANGED <<pc, op, arg, lanes, tor, runs, todo>>
    BY <1>2 DEF Publish, Idle
  <2>2. CASE outcome \in {"Ok", "Err"}
    <3>1. \A d \in Clients : CallOf(d)' = IF serving.from = d THEN [CallOf(d) EXCEPT !.at = outcome]
                                                              ELSE CallOf(d)
      BY <2>1, <2>2, AnswerEnds
    <3>2. \A d \in Clients : serving.from = d => CallOf(d).at = outcome
      BY <2>1, ServedCall DEF CallOf, At
    <3>3. \A d \in Clients : CallOf(d)' = CallOf(d)
      BY <3>1, <3>2 DEF CallOf
    <3> QED  BY <2>1, <3>3, ServiceStutters DEF Status
  <2>3. CASE outcome \notin {"Ok", "Err"}
    <3>1. \A d \in Clients : serving.from # d
      BY <2>1, <2>3 DEF Serving, Calls, Typed, TypeOK, Answering, ClientOK, Outcomes
    <3>2. reply' = reply
      BY <2>1, <3>1 DEF Serving, Calls, Typed, TypeOK, Answer, Command, NoCommand
    <3>3. \A d \in Clients : CallOf(d)' = CallOf(d)
      BY <2>1, <3>1, <3>2 DEF CallOf, At, NoCommand
    <3> QED  BY <2>1, <3>3, ServiceStutters DEF Status
  <2> QED  BY <2>2, <2>3
<1> QED  BY <1>1, <1>2

\* The shutdown is answered with Tor down, and the end of the task tells the rest.
LEMMA StopServed ==
  ASSUME Serving, (\E ok \in BOOLEAN : ShutdownStop(ok)) \/ Exit
  PROVE  (\E ok \in BOOLEAN : Service!Stop(ok)) \/ Service!Close
<1> USE DEF shared, state, manager, clients
<1>0. TypeOK /\ (mpc # "rs_lanes" => todo = {})
  BY DEF Serving, Calls, Typed, Paced
<1>1. ASSUME NEW ok \in BOOLEAN, ShutdownStop(ok) PROVE Service!Stop(ok)
  <2>1. /\ mpc = "sd_stop" /\ mpc' = "exit" /\ tor' = 0 /\ serving' = NoCommand
        /\ Answer(IF ok THEN "Ok" ELSE "Err") /\ UNCHANGED <<pc, op, arg, lanes, runs, todo>>
    BY <1>1 DEF ShutdownStop
  <2>2. \A d \in Clients : serving.from = d => op[d] = "shutdown"
    BY <2>1, ServedCall DEF Serving, Calls, Worked, Sent
  <2>3. \A d \in Clients : CallOf(d)' = IF serving.from = d
                                        THEN [CallOf(d) EXCEPT !.at = IF ok THEN "Ok" ELSE "Err"]
                                        ELSE CallOf(d)
    BY <2>1, AnswerEnds
  <2>4. Service!Ends("shutdown", IF ok THEN "Ok" ELSE "Err")
    BY <2>1, <2>2, <2>3, WorkEnds
  <2>5. Status = "open" /\ Status' = "stopped" /\ todo = {}
    BY <1>0, <2>1 DEF Status
  <2> QED  BY <2>1, <2>4, <2>5 DEF Service!Stop
<1>2. CASE Exit
  <2>1. /\ mpc = "exit" /\ mpc' = "done" /\ UNCHANGED <<pc, op, arg, lanes, tor, runs, todo, serving>>
        /\ \A d \in Clients : reply'[d] = IF Owing(d) # {} THEN "Closed" ELSE reply[d]
    BY <1>2 DEF Exit, Owing
  <2>2. \A d \in Clients : serving.from # d /\ (Owed(d) <=> Owing(d) # {})
    BY <2>1, ServedCall DEF Serving, Calls, Answering, ClientOK
  <2>3. \A d \in Clients : CallOf(d).at = "asked" <=> Owed(d)
    BY <1>0, <2>2 DEF CallOf, At, Owed, TypeOK, Replies, Outcomes
  <2>4. \A d \in Clients : CallOf(d)' = IF CallOf(d).at = "asked"
                                        THEN [CallOf(d) EXCEPT !.at = "Closed"] ELSE CallOf(d)
    BY <2>1, <2>2, <2>3 DEF CallOf, At, Owed
  <2>5. Status = "stopped" /\ Status' = "closed"
    BY <2>1 DEF Status
  <2> QED  BY <2>1, <2>4, <2>5 DEF Service!Close
<1> QED  BY <1>1, <1>2

\* Every step of the pool is one of the server, or none.
LEMMA StepServed ==
  ASSUME Serving, [Next]_vars
  PROVE  [Service!Next]_(Service!vars)
<1>1. CASE UNCHANGED vars
  BY <1>1, SilentKept, ServiceStutters DEF vars, shared, state, manager, clients, Status
<1>2. ASSUME NEW c \in Clients, ClientStep(c) \/ ClientChoice(c) PROVE [Service!Next]_(Service!vars)
  BY <1>2, ClientServed DEF Service!Next
<1>3. ASSUME NEW l \in Lanes, Age(l) PROVE UNCHANGED Service!vars
  BY <1>3, SilentKept, ServiceStutters DEF Age, manager, clients, Status
<1>4. CASE Assigned \/ Ticks
  BY <1>4, RotatesItself DEF Service!Next, Service!ServerNext
<1>5. ASSUME NEW ok \in BOOLEAN, MgrRotate(ok) PROVE Service!Next
  BY <1>5, RotationServed DEF Service!Next, Service!ServerNext
<1>6. CASE RestartBegin \/ BeginShutdown
  BY <1>6, WorkBegins DEF Service!Next, Service!ServerNext
<1>7. CASE RestartMark \/ RestartStop \/ RestartStopFails \/ RestartStart \/ RestartStartFails
  BY <1>7, RestartServed DEF Service!Next, Service!ServerNext
<1>8. ASSUME NEW l \in Lanes, NEW ok \in BOOLEAN, RestartLane(l, ok) PROVE Service!Next
  BY <1>8, RenewalServed DEF Service!Next, Service!ServerNext
<1>9. CASE Compute \/ Publish
  BY <1>9, PublicationStutters
<1>10. CASE (\E ok \in BOOLEAN : ShutdownStop(ok)) \/ Exit
  BY <1>10, StopServed DEF Service!Next, Service!ServerNext
<1> QED
  BY <1>1, <1>2, <1>3, <1>4, <1>5, <1>6, <1>7, <1>8, <1>9, <1>10
     DEF Next, ManagerStep, Restarting, Stopping

\* The pool begins as the server does.
LEMMA InitServed == Init => Service!Init
<1> SUFFICES ASSUME Init PROVE Service!Init
  OBVIOUS
<1>1. \A l \in Lanes : lanes[l].endpoint = [lane |-> l, epoch |-> 1, run |-> 1]
  BY DEF Init, NewLane, Endpoint
<1>2. \A c \in Clients : CallOf(c) = Service!NoCall
  BY DEF Init, CallOf, Service!NoCall
<1>3. Status = "open" /\ tor = 1 /\ runs = 1 /\ todo = {}
  BY DEF Init, Status
<1> QED  BY <1>1, <1>2, <1>3 DEF Service!Init

\* However many clients call, hide lanes and give up, and whatever fails: what they are
\* told is what they would be told by a server that does one thing after the other, and
\* the lanes and Tor are what it would have made of them.
THEOREM Serves == Spec => PoolServed
<1>1. Serving /\ [Next]_vars => [Service!Next]_(Service!vars)
  BY StepServed
<1> QED
  BY <1>1, InitServed, AlwaysServing, PTL DEF Spec, PoolServed, Service!Spec
=============================================================================
