------------------------- MODULE ControlClientProofs -------------------------
(***************************************************************************)
(* Proofs about the control connection: types, replies that go to their    *)
(* own commands, and the ownership handshake.                              *)
(***************************************************************************)
EXTENDS ControlClient, TLAPS

\* A cancelled command keeps its number, its word and its place.
LEMMA DeafCommand ==
  ASSUME NEW c \in Callers, NEW cmd \in Command
  PROVE  /\ Deaf(c, cmd) \in Command
         /\ Deaf(c, cmd).id = cmd.id /\ Deaf(c, cmd).word = cmd.word
         /\ Deaf(c, cmd).from # c
         /\ cmd.from # c => Deaf(c, cmd).from = cmd.from
         /\ Deaf(c, cmd).from \in {cmd.from, None}
BY CallersAssumption DEF Deaf, Command

\* The channel after a caller has gone deaf.
LEMMA UnheardShape ==
  ASSUME TypeOK, NEW c \in Callers, Unheard(c)
  PROVE  /\ channel' \in Seq(Command) /\ Len(channel') = Len(channel)
         /\ current' \in Command
         /\ current'.id = current.id /\ current'.word = current.word
         /\ current'.from # c /\ current'.from \in {current.from, None}
         /\ \A i \in 1 .. Len(channel) :
              /\ channel'[i].id = channel[i].id /\ channel'[i].word = channel[i].word
              /\ channel'[i].from # c /\ channel'[i].from \in {channel[i].from, None}
<1>1. channel' = [i \in 1 .. Len(channel) |-> Deaf(c, channel[i])]
  BY DEF Unheard
<1>2. \A i \in 1 .. Len(channel) : channel[i] \in Command
  BY DEF TypeOK
<1>3. \A i \in 1 .. Len(channel) : Deaf(c, channel[i]) \in Command
  BY <1>2, DeafCommand
<1>4. Len(channel) \in Nat
  BY DEF TypeOK
<1>5. channel' \in Seq(Command) /\ Len(channel') = Len(channel)
  BY <1>1, <1>3, <1>4
<1>6. \A i \in 1 .. Len(channel) :
         /\ channel'[i].id = channel[i].id /\ channel'[i].word = channel[i].word
         /\ channel'[i].from # c /\ channel'[i].from \in {channel[i].from, None}
  BY <1>1, <1>2, DeafCommand
<1> QED
  BY <1>5, <1>6, DeafCommand DEF Unheard, TypeOK

\* What a call does next.
LEMMA AfterShape ==
  ASSUME NEW o, NEW w \in Words, NEW r, NEW next \in After(o, w, r)
  PROVE  next \in Words \cup {"ok", "err", "sleep"}
BY DEF After, AfterSuccess, Methods, Unusable, Words

LEMMA Typing == TypeOK /\ [Next]_vars => TypeOK'
<1> SUFFICES ASSUME TypeOK, [Next]_vars PROVE TypeOK'
  OBVIOUS
<1> USE BufferAssumption
<1>1. ASSUME NEW c \in Callers, NEW o \in Ops, Call(c, o) PROVE TypeOK'
  <2>1. First[o] \in Words /\ o \in AllOps
    BY <1>1, OpsAssumption DEF Call, First, Words
  <2> QED
    BY <1>1, <2>1 DEF Call, Form, TypeOK, actor, wire, tor, Calling, Answers
<1>2. ASSUME NEW c \in Callers, Send(c) PROVE TypeOK'
  <2>1. [id |-> id[c], word |-> word[c], from |-> c] \in Command
    BY DEF TypeOK, Command
  <2> QED
    BY <1>2, <2>1 DEF Send, Room, TypeOK, wire, tor, Calling
<1>3. ASSUME NEW c \in Callers, SendFails(c) \/ ReceiveError(c) PROVE TypeOK'
  BY <1>3 DEF SendFails, ReceiveError, Finish, TypeOK, actor, wire, tor
<1>4. ASSUME NEW c \in Callers, ReceiveReply(c) PROVE TypeOK'
  <2> USE DEF TypeOK, actor, wire, tor, Calling
  <2>1. CASE \E next \in Words : Form(c, next) /\ UNCHANGED <<op, result>>
    BY <1>4, <2>1 DEF ReceiveReply, Form, Answers
  <2>2. CASE \E next \in {"ok", "err"} : Finish(c, next)
    BY <1>4, <2>2 DEF ReceiveReply, Finish
  <2>3. CASE /\ pc' = [pc EXCEPT ![c] = "sleep"]
             /\ UNCHANGED <<op, word, id, answer, result, issued>>
    BY <1>4, <2>3 DEF ReceiveReply
  <2> QED
    BY <1>4, <2>1, <2>2, <2>3 DEF ReceiveReply
<1>5. ASSUME NEW c \in Callers, Poll(c) PROVE TypeOK'
  BY <1>5 DEF Poll, Form, First, TypeOK, actor, wire, tor, Calling, Answers, Words
<1>6. ASSUME NEW c \in Callers, Return(c) PROVE TypeOK'
  BY <1>6 DEF Return, Forget, TypeOK, actor, wire, tor, Answers, Words
<1>7. ASSUME NEW c \in Callers, Timeout(c) PROVE TypeOK'
  BY <1>7, UnheardShape DEF Timeout, Finish, TypeOK, wire, tor
<1>8. ASSUME NEW c \in Callers, GiveUp(c) PROVE TypeOK'
  BY <1>8, UnheardShape DEF GiveUp, Forget, TypeOK, wire, tor, Answers, Words
<1>9. ASSUME NEW c \in Callers, Drop(c) PROVE TypeOK'
  BY <1>9 DEF Drop, TypeOK, actor, wire, tor
<1>10. CASE Recv
  BY <1>10 DEF Recv, TypeOK, wire, tor, callers
<1>11. CASE RecvNone
  BY <1>11 DEF RecvNone, TypeOK, wire, tor, callers
<1>12. CASE Write
  BY <1>12 DEF Write, TypeOK, tor, callers
<1>13. CASE WriteFails
  BY <1>13 DEF WriteFails, Break, Respond, TypeOK, wire, tor, Answers
<1>14. CASE Read
  <2>1. Head(fromTor) \in Answers /\ Tail(fromTor) \in Seq(Reply)
    BY <1>14 DEF Read, TypeOK, Answers
  <2> QED
    BY <1>14, <2>1 DEF Read, Respond, TypeOK, tor
<1>15. CASE ReadFails
  <2>1. fromTor' \in Seq(Reply)
    <3>1. fromTor \in Seq(Reply)
      BY DEF TypeOK
    <3>2. CASE fromTor # <<>> /\ fromTor' = Tail(fromTor)
      BY <3>1, <3>2
    <3>3. CASE fromTor' = fromTor
      BY <3>1, <3>3
    <3> QED
      BY <1>15, <3>2, <3>3 DEF ReadFails
  <2> QED
    BY <1>15, <2>1 DEF ReadFails, Break, Respond, TypeOK, tor, Answers
<1>16. CASE End
  BY <1>16 DEF End, TypeOK, wire, tor, Answers
<1>17. ASSUME NEW k \in {"good", "bad", "refused"}, NEW r \in Kinds, TorReplies(k, r) PROVE TypeOK'
  <2>1. Head(toTor) \in Command /\ Tail(toTor) \in Seq(Command)
    BY <1>17 DEF TorReplies, TypeOK
  <2>2. [id |-> Head(toTor).id, word |-> Head(toTor).word, kind |-> r] \in Reply
    BY <2>1 DEF Command, Reply
  <2>3. fromTor' \in Seq(Reply) /\ toTor' \in Seq(Command)
    BY <1>17, <2>1, <2>2 DEF TorReplies, TypeOK
  <2>4. executed' \in SUBSET Nat
    BY <1>17, <2>1 DEF TorReplies, TypeOK, Command
  <2>5. authed' \in BOOLEAN /\ owned' \in BOOLEAN /\ pid' \in BOOLEAN /\ events' \in BOOLEAN
    BY <1>17 DEF TorReplies
  <2> QED
    BY <1>17, <2>3, <2>4, <2>5 DEF TorReplies, TypeOK, actor, callers
<1>18. CASE TorEvent
  <2>1. [id |-> 0, word |-> "SETEVENTS", kind |-> "refused"] \in Reply
    BY DEF Reply, Words, Kinds
  <2> QED
    BY <1>18, <2>1 DEF TorEvent, TypeOK, actor, tor, callers
<1>19. CASE TorCloses
  <2>1. [id |-> 0, word |-> "SETEVENTS", kind |-> "broken"] \in Reply
    BY DEF Reply, Words, Kinds
  <2>2. fromTor' \in Seq(Reply)
    <3>1. CASE fromTor' = fromTor
      BY <3>1 DEF TypeOK
    <3>3. CASE fromTor' = <<>>
      BY <3>3
    <3>2. CASE fromTor' = Append(fromTor, [id |-> 0, word |-> "SETEVENTS", kind |-> "broken"])
      BY <3>2, <2>1 DEF TypeOK
    <3> QED
      BY <1>19, <3>1, <3>2, <3>3 DEF TorCloses
  <2>3. up' \in BOOLEAN
    BY <1>19 DEF TorCloses
  <2> QED
    BY <1>19, <2>2, <2>3 DEF TorCloses, TypeOK, actor, callers
<1>20. CASE TorSeesEnd
  BY <1>20 DEF TorSeesEnd, TypeOK, actor, callers
<1>21. CASE UNCHANGED vars
  BY <1>21 DEF vars, actor, wire, tor, callers, TypeOK
<1> QED
  BY <1>1, <1>2, <1>3, <1>4, <1>5, <1>6, <1>7, <1>8, <1>9, <1>10, <1>11, <1>12, <1>13, <1>14,
     <1>15, <1>16, <1>17, <1>18, <1>19, <1>20, <1>21
     DEF Next, CallerStep, ActorStep, TorAnswers

LEMMA InitTypes == Init => TypeOK
<1> SUFFICES ASSUME Init PROVE TypeOK
  OBVIOUS
<1>1. current \in Command
  BY DEF Init, Command, Words
<1>2. channel \in Seq(Command) /\ Len(channel) <= Buffer
  BY BufferAssumption DEF Init
<1>3. toTor \in Seq(Command) /\ fromTor \in Seq(Reply)
  BY DEF Init
<1> QED
  BY <1>1, <1>2, <1>3, StreamAssumption DEF Init, TypeOK, Words, Answers

\* The state of the callers, the actor, the connection and Tor is well typed, and
\* never more than COMMAND_BUFFER commands are in the channel.
THEOREM ClientTypes == Spec => []TypeOK
<1> QED
  BY InitTypes, Typing, PTL DEF Spec

-----------------------------------------------------------------------------
(* The command of each caller, and the one reply on the wire.              *)

Busy == apc \in {"write", "read"}

\* c waits, unanswered, for cmd.
Waits(c, cmd) ==
  pc[c] = "wait" /\ answer[c] = Nothing /\ id[c] = cmd.id /\ word[c] = cmd.word

\* A command that still has a listener is in one place only, and is the command
\* its listener waits for.
Owed ==
  /\ \A c \in Callers : pc[c] = "send" => answer[c] = Nothing
  /\ \A c \in Callers, i \in 1 .. Len(channel) :
       channel[i].from = c => Waits(c, channel[i])
  /\ \A i, j \in 1 .. Len(channel) :
       channel[i].from = channel[j].from /\ channel[i].from \in Callers => i = j
  /\ Busy => \A c \in Callers :
       current.from = c => /\ Waits(c, current)
                           /\ \A i \in 1 .. Len(channel) : channel[i].from # c

\* Between commands nothing is on the wire; during one, that command or its reply.
OnWire ==
  /\ apc # "read" \/ conn = "closed" => toTor = <<>>
  /\ apc # "read" => fromTor = <<>>
  /\ Len(toTor) + Len(fromTor) <= 1
  /\ \A i \in 1 .. Len(toTor) : toTor[i].id = current.id /\ toTor[i].word = current.word
  /\ \A i \in 1 .. Len(fromTor) :
       fromTor[i].kind # "broken" =>
         fromTor[i].id = current.id /\ fromTor[i].word = current.word

\* What a caller holds is the reply to its command.
Served ==
  \A c \in Callers :
    Given(c) => /\ answer[c].id = id[c] /\ answer[c].word = word[c]
                /\ answer[c].kind \in {"good", "bad", "refused"}

Replies == Owed /\ (~events => OnWire /\ Served)

\* d is as it was.
Same(d) == pc'[d] = pc[d] /\ answer'[d] = answer[d] /\ id'[d] = id[d] /\ word'[d] = word[d]

\* A step of a caller that has no command anywhere.
LEMMA OwedFree ==
  ASSUME Owed, NEW c \in Callers,
         \A i \in 1 .. Len(channel) : channel[i].from # c,
         Busy => current.from # c,
         UNCHANGED <<channel, apc, current>>,
         \A d \in Callers \ {c} : Same(d),
         pc'[c] = "send" => answer'[c] = Nothing
  PROVE  Owed'
BY DEF Owed, Waits, Busy, Same

\* Each caller's command stays in one place, and is the one it waits for.
LEMMA OwedStep ==
  ASSUME TypeOK, Owed, [Next]_vars
  PROVE  Owed'
<1> USE DEF Waits, Busy
<1>1. ASSUME NEW c \in Callers,
             \/ \E o \in Ops : Call(c, o)
             \/ SendFails(c) \/ ReceiveError(c) \/ ReceiveReply(c)
             \/ Poll(c) \/ Return(c) \/ Drop(c)
      PROVE  Owed'
  <2>1. UNCHANGED <<channel, apc, current>>
    BY <1>1 DEF Call, SendFails, ReceiveError, ReceiveReply, Poll, Return, Drop, actor
  <2>2. pc[c] # "wait" \/ answer[c] # Nothing
    BY <1>1 DEF Call, SendFails, ReceiveError, ReceiveReply, Poll, Return, Drop, Failure, Nothing
  <2>3. /\ \A i \in 1 .. Len(channel) : channel[i].from # c
        /\ Busy => current.from # c
    BY <2>2 DEF Owed
  <2>4. \A d \in Callers \ {c} : Same(d)
    BY <1>1 DEF Call, SendFails, ReceiveError, ReceiveReply, Poll, Return, Drop,
                Form, Finish, Forget, Same, TypeOK
  <2>5. pc'[c] = "send" => answer'[c] = Nothing
    BY <1>1 DEF Call, SendFails, ReceiveError, ReceiveReply, Poll, Return, Drop,
                Form, Finish, Forget, TypeOK
  <2> QED
    BY <2>1, <2>3, <2>4, <2>5, OwedFree
<1>2. ASSUME NEW c \in Callers, Send(c) PROVE Owed'
  <2> DEFINE new == [id |-> id[c], word |-> word[c], from |-> c]
  <2>1. /\ Len(channel') = Len(channel) + 1 /\ Len(channel) \in Nat
        /\ \A i \in 1 .. Len(channel) : channel'[i] = channel[i]
        /\ channel'[Len(channel) + 1] = new
    BY <1>2 DEF Send, TypeOK
  <2>2. /\ \A i \in 1 .. Len(channel) : channel[i].from # c
        /\ Busy => current.from # c
    BY <1>2 DEF Send, Owed
  <2>3. /\ UNCHANGED <<apc, current, word, id, answer>>
        /\ pc'[c] = "wait" /\ \A d \in Callers \ {c} : pc'[d] = pc[d]
    BY <1>2 DEF Send, TypeOK
  <2>4. answer[c] = Nothing
    BY <1>2 DEF Send, Owed
  <2>5. \A d \in Callers, i \in 1 .. Len(channel) :
          channel'[i].from = d => Waits(d, channel[i])'
    BY <2>1, <2>2, <2>3 DEF Owed
  <2>6. \A d \in Callers, i \in {Len(channel) + 1} :
          channel'[i].from = d => Waits(d, channel[i])'
    BY <2>1, <2>3, <2>4
  <2>7. \A d \in Callers, i \in 1 .. Len(channel') :
          channel'[i].from = d => Waits(d, channel[i])'
    <3>1. 1 .. Len(channel') = (1 .. Len(channel)) \cup {Len(channel) + 1}
      BY <2>1
    <3> QED
      BY <2>5, <2>6, <3>1
  <2>8. \A i, j \in 1 .. Len(channel') :
          channel'[i].from = channel'[j].from /\ channel'[i].from \in Callers => i = j
    BY <2>1, <2>2 DEF Owed
  <2>9. Busy' => \A d \in Callers :
          current'.from = d => /\ Waits(d, current)'
                               /\ \A i \in 1 .. Len(channel') : channel'[i].from # d
    BY <2>1, <2>2, <2>3 DEF Owed
  <2>10. \A d \in Callers : pc'[d] = "send" => answer'[d] = Nothing
    BY <2>3 DEF Owed
  <2> QED
    BY <2>7, <2>8, <2>9, <2>10 DEF Owed
<1>3. ASSUME NEW c \in Callers, Timeout(c) \/ GiveUp(c) PROVE Owed'
  <2>1. Unheard(c) /\ apc' = apc
    BY <1>3 DEF Timeout, GiveUp
  <2>2. (\A d \in Callers \ {c} : Same(d)) /\ pc'[c] # "send"
    BY <1>3 DEF Timeout, GiveUp, Finish, Forget, TypeOK, Same
  <2>3. \A i \in 1 .. Len(channel') :
          /\ channel'[i].from # c /\ channel'[i].from \in {channel[i].from, None}
          /\ channel'[i].id = channel[i].id /\ channel'[i].word = channel[i].word
    BY <2>1, UnheardShape
  <2>4. /\ Len(channel') = Len(channel)
        /\ current'.from # c /\ current'.from \in {current.from, None}
        /\ current'.id = current.id /\ current'.word = current.word
    BY <2>1, UnheardShape
  <2>5. \A d \in Callers : pc'[d] = "send" => answer'[d] = Nothing
    BY <2>2 DEF Owed, Same
  <2>6. \A d \in Callers, i \in 1 .. Len(channel') :
          channel'[i].from = d => Waits(d, channel[i])'
    BY <2>2, <2>3, <2>4, CallersAssumption DEF Owed, Same
  <2>7. \A i, j \in 1 .. Len(channel') :
          channel'[i].from = channel'[j].from /\ channel'[i].from \in Callers => i = j
    BY <2>3, <2>4, CallersAssumption DEF Owed
  <2>8. Busy' => \A d \in Callers :
          current'.from = d => /\ Waits(d, current)'
                               /\ \A i \in 1 .. Len(channel') : channel'[i].from # d
    BY <2>1, <2>2, <2>3, <2>4, CallersAssumption DEF Owed, Same
  <2> QED
    BY <2>5, <2>6, <2>7, <2>8 DEF Owed
<1>4. CASE Recv
  <2>1. /\ Len(channel) \in Nat \ {0} /\ Len(channel') = Len(channel) - 1
        /\ current' = channel[1]
        /\ \A i \in 1 .. Len(channel') : channel'[i] = channel[i + 1]
    BY <1>4 DEF Recv, TypeOK
  <2>2. UNCHANGED <<pc, id, word, answer>>
    BY <1>4 DEF Recv, callers
  <2>3. \A d \in Callers : channel[1].from = d => Waits(d, channel[1])
    BY <2>1 DEF Owed
  <2>4. \A d \in Callers, i \in 1 .. Len(channel') : channel[1].from = d => channel'[i].from # d
    BY <2>1 DEF Owed
  <2>5. \A i, j \in 1 .. Len(channel') :
          channel'[i].from = channel'[j].from /\ channel'[i].from \in Callers => i = j
    BY <2>1 DEF Owed
  <2>6. \A d \in Callers, i \in 1 .. Len(channel') :
          channel'[i].from = d => Waits(d, channel[i])'
    BY <2>1, <2>2 DEF Owed
  <2> QED
    BY <2>1, <2>2, <2>3, <2>4, <2>5, <2>6 DEF Owed
<1>5. CASE RecvNone \/ Write
  BY <1>5 DEF RecvNone, Write, callers, Owed
<1>6. CASE WriteFails \/ Read \/ ReadFails
  <2>1. /\ apc \in {"write", "read"} /\ apc' \in {"recv", "end"}
        /\ UNCHANGED <<channel, current, pc, id, word>>
        /\ \A d \in Callers : d # current.from => answer'[d] = answer[d]
    BY <1>6 DEF WriteFails, Read, ReadFails, Break, Respond
  <2> QED
    BY <2>1 DEF Owed
<1>7. CASE End
  BY <1>7 DEF End, callers, Owed
<1>8. CASE TorAnswers \/ TorEvent \/ TorCloses \/ TorSeesEnd \/ UNCHANGED vars
  <2>1. UNCHANGED <<actor, callers>>
    BY <1>8 DEF TorAnswers, TorReplies, TorEvent, TorCloses, TorSeesEnd, vars
  <2> QED
    BY <2>1 DEF actor, callers, Owed
<1> QED
  BY <1>1, <1>2, <1>3, <1>4, <1>5, <1>6, <1>7, <1>8
     DEF Next, CallerStep, ActorStep

\* A sequence that is not empty has a first element.
LEMMA Nonempty ==
  ASSUME NEW S, NEW s \in Seq(S), s # <<>>
  PROVE  Len(s) \in Nat /\ Len(s) >= 1
OBVIOUS

LEMMA AtMostOne ==
  ASSUME NEW a \in Nat, NEW b \in Nat, a + b <= 1
  PROVE  /\ b >= 1 => b = 1 /\ a = 0
         /\ a >= 1 => a = 1 /\ b = 0
OBVIOUS

\* What Tor has once done stays done.
LEMMA FlagsKept ==
  ASSUME TypeOK, [Next]_vars
  PROVE  /\ events => events'
         /\ owned => owned'
         /\ authed => authed'
         /\ pid' => pid
<1>1. UNCHANGED <<authed, owned, pid, events>> \/ TorAnswers
  BY DEF Next, CallerStep, ActorStep, Call, Send, SendFails, ReceiveError, ReceiveReply, Poll,
         Return, Timeout, GiveUp, Drop, Recv, RecvNone, Write, WriteFails, Read, ReadFails, Break,
         End, TorEvent, TorCloses, TorSeesEnd, vars, tor
<1>2. ASSUME NEW k \in {"good", "bad", "refused"}, NEW r \in Kinds, TorReplies(k, r)
      PROVE  (events => events') /\ (owned => owned') /\ (authed => authed') /\ (pid' => pid)
  BY <1>2, Zenon DEF TorReplies
<1>3. CASE TorAnswers
  <2>1. PICK k \in {"good", "bad", "refused"}, r \in Kinds : TorReplies(k, r)
    BY <1>3, Zenon DEF TorAnswers
  <2> QED
    BY <1>2, <2>1, Zenon
<1>4. CASE UNCHANGED <<authed, owned, pid, events>>
  BY <1>4
<1> QED
  BY <1>1, <1>3, <1>4

\* Without events the wire holds the command being served or its reply.
LEMMA WireStep ==
  ASSUME TypeOK, OnWire, ~events, ~events', [Next]_vars
  PROVE  OnWire'
<1> USE DEF OnWire
<1>1. ASSUME NEW c \in Callers,
             \/ \E o \in Ops : Call(c, o)
             \/ Send(c) \/ SendFails(c) \/ ReceiveError(c) \/ ReceiveReply(c)
             \/ Poll(c) \/ Return(c) \/ Drop(c)
      PROVE  OnWire'
  <2>1. UNCHANGED <<apc, current, wire>>
    BY <1>1 DEF Call, Send, SendFails, ReceiveError, ReceiveReply, Poll, Return, Drop, actor
  <2> QED
    BY <2>1 DEF wire
<1>2. ASSUME NEW c \in Callers, Timeout(c) \/ GiveUp(c) PROVE OnWire'
  <2>1. Unheard(c) /\ UNCHANGED <<apc, wire>>
    BY <1>2 DEF Timeout, GiveUp
  <2>2. current'.id = current.id /\ current'.word = current.word
    BY <2>1, UnheardShape
  <2> QED
    BY <2>1, <2>2 DEF wire
<1>3. CASE Recv \/ RecvNone \/ End
  <2>1. toTor = <<>> /\ fromTor = <<>> /\ UNCHANGED wire /\ apc # "read" /\ apc' # "read"
    BY <1>3 DEF Recv, RecvNone, End
  <2> QED
    BY <2>1 DEF wire
<1>4. CASE Write
  <2>1. toTor = <<>> /\ fromTor = <<>> /\ UNCHANGED <<fromTor, conn, current>> /\ apc' = "read"
    BY <1>4 DEF Write
  <2>2. CASE conn = "open"
    <3>1. Len(toTor') = 1 /\ toTor'[1] = current
      BY <1>4, <2>1, <2>2 DEF Write, TypeOK
    <3> QED
      BY <2>1, <2>2, <3>1
  <2>3. CASE conn # "open"
    BY <1>4, <2>1, <2>3 DEF Write
  <2> QED
    BY <2>2, <2>3
<1>5. CASE WriteFails
  BY <1>5 DEF WriteFails, Break, wire
<1>6. CASE Read \/ ReadFails
  <2>1. toTor' = <<>> /\ fromTor' = <<>>
    <3>1. Len(toTor) \in Nat /\ Len(fromTor) \in Nat
      BY DEF TypeOK
    <3>2. CASE fromTor # <<>> /\ fromTor' = Tail(fromTor)
      <4>1. Len(fromTor) = 1 /\ Len(toTor) = 0
        <5>1. Len(fromTor) >= 1
          BY <3>2, Nonempty DEF TypeOK
        <5>2. Len(toTor) + Len(fromTor) <= 1
          OBVIOUS
        <5> QED
          BY <3>1, <5>1, <5>2, AtMostOne
      <4> QED
        BY <1>6, <3>2, <4>1 DEF Read, ReadFails, TypeOK
    <3>3. CASE fromTor = <<>> /\ conn = "closed" /\ UNCHANGED fromTor
      BY <1>6, <3>3 DEF Read, ReadFails
    <3> QED
      BY <1>6, <3>2, <3>3 DEF Read, ReadFails
  <2> QED
    BY <1>6, <2>1 DEF Read, ReadFails, Break
<1>7. CASE TorAnswers
  <2>1. PICK k \in {"good", "bad", "refused"}, r \in Kinds : TorReplies(k, r)
    BY <1>7 DEF TorAnswers
  <2>2. Len(toTor) = 1 /\ Len(fromTor) = 0 /\ apc = "read"
    <3>1. toTor # <<>>
      BY <2>1 DEF TorReplies
    <3>2. Len(toTor) >= 1 /\ Len(toTor) \in Nat /\ Len(fromTor) \in Nat
      BY <3>1, Nonempty DEF TypeOK
    <3>3. Len(toTor) + Len(fromTor) <= 1 /\ apc = "read"
      BY <3>1
    <3> QED
      BY <3>2, <3>3, AtMostOne
  <2>3. toTor' = <<>> /\ Head(toTor) = toTor[1]
    BY <2>1, <2>2 DEF TorReplies, TypeOK
  <2>4. Len(fromTor') = 1 /\ fromTor'[1].id = toTor[1].id /\ fromTor'[1].word = toTor[1].word
    BY <2>1, <2>2, <2>3 DEF TorReplies, TypeOK
  <2>5. toTor[1].id = current.id /\ toTor[1].word = current.word
    BY <2>2
  <2>6. UNCHANGED <<apc, current, conn>>
    BY <2>1 DEF TorReplies, actor
  <2> QED
    BY <2>2, <2>3, <2>4, <2>5, <2>6
<1>8. CASE TorEvent
  BY <1>8 DEF TorEvent
<1>9. CASE TorCloses
  <2>1. toTor' = <<>> /\ UNCHANGED <<apc, current>>
    BY <1>9 DEF TorCloses, actor
  <2>2. CASE fromTor' = fromTor
    BY <2>1, <2>2 DEF TypeOK
  <2>3. CASE fromTor' = <<>>
    BY <2>1, <2>3
  <2>4. CASE /\ toTor # <<>>
             /\ fromTor' = Append(fromTor, [id |-> 0, word |-> "SETEVENTS", kind |-> "broken"])
    <3>1. Len(fromTor) = 0 /\ apc = "read"
      BY <2>4 DEF TypeOK
    <3>2. Len(fromTor') = 1 /\ fromTor'[1].kind = "broken"
      BY <2>4, <3>1 DEF TypeOK
    <3> QED
      BY <2>1, <3>1, <3>2
  <2> QED
    BY <1>9, <2>2, <2>3, <2>4 DEF TorCloses
<1>10. CASE TorSeesEnd
  BY <1>10 DEF TorSeesEnd, actor
<1>11. CASE UNCHANGED vars
  BY <1>11 DEF vars, actor, wire
<1> QED
  BY <1>1, <1>2, <1>3, <1>4, <1>5, <1>6, <1>7, <1>8, <1>9, <1>10, <1>11
     DEF Next, CallerStep, ActorStep

\* Without events each caller is given the reply to its command.
LEMMA ServedStep ==
  ASSUME TypeOK, Owed, OnWire, Served, [Next]_vars
  PROVE  Served'
<1> USE DEF Served, Given
<1>1. ASSUME NEW c \in Callers,
             \/ \E o \in Ops : Call(c, o)
             \/ Send(c) \/ SendFails(c) \/ ReceiveError(c) \/ ReceiveReply(c)
             \/ Poll(c) \/ Return(c) \/ Drop(c) \/ Timeout(c) \/ GiveUp(c)
      PROVE  Served'
  <2>1. \A d \in Callers \ {c} : Same(d)
    BY <1>1 DEF Call, Send, SendFails, ReceiveError, ReceiveReply, Poll, Return, Drop, Timeout,
                GiveUp, Form, Finish, Forget, Same, TypeOK
  <2>2. ~Given(c)'
    BY <1>1 DEF Call, Send, SendFails, ReceiveError, ReceiveReply, Poll, Return, Drop, Timeout,
                GiveUp, Form, Finish, Forget, TypeOK, Owed
  <2> QED
    BY <2>1, <2>2 DEF Same
<1>2. CASE Read
  <2>1. fromTor[1] = Head(fromTor) /\ 1 \in 1 .. Len(fromTor) /\ fromTor[1] \in Reply
    BY <1>2 DEF Read, TypeOK
  <2>2. fromTor[1].id = current.id /\ fromTor[1].word = current.word
    BY <1>2, <2>1 DEF Read, OnWire
  <2>3. fromTor[1].kind \in {"good", "bad", "refused"}
    BY <1>2, <2>1 DEF Read, Reply, Kinds
  <2>4. \A c \in Callers :
          current.from = c => current.id = id[c] /\ current.word = word[c]
    BY <1>2 DEF Read, Owed, Busy, Waits
  <2> QED
    BY <1>2, <2>1, <2>2, <2>3, <2>4 DEF Read, Respond
<1>3. CASE WriteFails \/ ReadFails \/ End
  <2>1. UNCHANGED <<pc, id, word>> /\ \A c \in Callers : answer'[c] \in {answer[c], Failure}
    BY <1>3 DEF WriteFails, ReadFails, Break, Respond, End
  <2> QED
    BY <2>1 DEF Failure, Nothing
<1>4. CASE \/ Recv \/ RecvNone \/ Write
           \/ TorAnswers \/ TorEvent \/ TorCloses \/ TorSeesEnd \/ UNCHANGED vars
  <2>1. UNCHANGED callers
    BY <1>4 DEF Recv, RecvNone, Write, TorAnswers, TorReplies, TorEvent, TorCloses, TorSeesEnd, vars
  <2> QED
    BY <2>1 DEF callers
<1> QED
  BY <1>1, <1>2, <1>3, <1>4 DEF Next, CallerStep, ActorStep

LEMMA RepliesKept == TypeOK /\ Replies /\ [Next]_vars => Replies'
BY FlagsKept, OwedStep, WireStep, ServedStep DEF Replies

LEMMA InitReplies == Init => Replies
BY CallersAssumption DEF Init, Replies, Owed, OnWire, Served, Given, Busy, Waits

\* Unless asynchronous events are on, no caller is ever given the reply to another
\* command, for any number of callers, cancellations, timeouts and errors.
THEOREM RepliesReachTheirCommands == Spec => []OwnReply
<1>1. Replies => OwnReply
  BY DEF Replies, OwnReply, RepliesOwn, Served
<1> QED
  BY <1>1, ClientTypes, InitReplies, RepliesKept, PTL DEF Spec

-----------------------------------------------------------------------------
(* The ownership handshake.                                                *)

\* What an effective reply to a command of the handshake proves of Tor.
Proves(r) ==
  r.kind \in {"good", "bad"} =>
    /\ r.word = "TAKEOWNERSHIP" => owned
    /\ r.word = "RESETCONF" => owned /\ ~pid

\* RESETCONF exists, with a caller or on its way to Tor, only if Tor is owned.
ResetsOwned ==
  /\ \A c \in Callers : pc[c] \in {"send", "wait"} /\ word[c] = "RESETCONF" => owned
  /\ \A i \in 1 .. Len(channel) : channel[i].word = "RESETCONF" => owned
  /\ current.word = "RESETCONF" => owned

\* Tor itself.
TorOwned ==
  /\ owned => authed
  /\ up => pid \/ owned
  /\ conn = "closed" /\ owned => ~up

\* What callers know of Tor.
Knows ==
  /\ \A i \in 1 .. Len(fromTor) : Proves(fromTor[i])
  /\ \A c \in Callers : Given(c) => Proves(answer[c])
  /\ \A c \in Callers :
       op[c] = "own" /\ pc[c] \in {"send", "wait"} => word[c] \notin {"GETINFO", "SETEVENTS"}
  /\ \A c \in Callers : op[c] = "own" => pc[c] # "sleep"
  /\ \A c \in Callers :
       op[c] = "own" /\ pc[c] = "returned" /\ result[c] = "ok" => owned /\ ~pid

Handshake == ~events => ResetsOwned /\ TorOwned /\ Knows

\* RESETCONF is formed only after a TAKEOWNERSHIP that was not refused, and the
\* handshake returns only after such a RESETCONF.
LEMMA AfterHandshake ==
  ASSUME NEW o, NEW w \in Words, NEW r, NEW next \in After(o, w, r)
  PROVE  /\ next = "RESETCONF" => w = "TAKEOWNERSHIP" /\ r.kind # "refused"
         /\ next \notin {"GETINFO", "SETEVENTS"}
         /\ next = "sleep" => o # "own"
         /\ next = "ok" /\ o = "own" /\ w \notin {"GETINFO", "SETEVENTS"}
            => w = "RESETCONF" /\ r.kind # "refused"
BY DEF After, AfterSuccess, Methods, Unusable, Words

\* What was proved of Tor stays so.
LEMMA ProvesKept ==
  ASSUME TypeOK, [Next]_vars, NEW r, Proves(r)
  PROVE  Proves(r)'
BY FlagsKept DEF Proves

LEMMA ResetsStep ==
  ASSUME TypeOK, Replies, Handshake, ~events, ~events', [Next]_vars
  PROVE  ResetsOwned'
<1> USE DEF Handshake
<1>0. ResetsOwned /\ (owned => owned')
  BY FlagsKept
<1>1. ASSUME NEW c \in Callers, ReceiveReply(c) PROVE ResetsOwned'
  <2>1. UNCHANGED <<channel, current, owned>> /\ \A d \in Callers \ {c} : Same(d)
    BY <1>1 DEF ReceiveReply, Form, Finish, Same, actor, tor, TypeOK
  <2>2. pc'[c] \in {"send", "wait"} /\ word'[c] = "RESETCONF" => owned
    <3>1. Given(c) /\ answer[c].word = word[c] /\ answer[c].kind \in {"good", "bad", "refused"}
      BY <1>1 DEF ReceiveReply, Given, Replies, Served
    <3>2. Proves(answer[c])
      BY <3>1 DEF Knows
    <3>3. PICK next \in After(op[c], word[c], answer[c]) :
            \/ next \in Words /\ Form(c, next)
            \/ Finish(c, next)
            \/ pc' = [pc EXCEPT ![c] = "sleep"]
      BY <1>1 DEF ReceiveReply
    <3>4. next = "RESETCONF" => owned
      BY <3>1, <3>2, AfterHandshake DEF Proves, TypeOK
    <3> QED
      BY <3>3, <3>4 DEF Form, Finish, TypeOK
  <2> QED
    BY <1>0, <2>1, <2>2 DEF ResetsOwned, Same
<1>2. ASSUME NEW c \in Callers,
             \/ \E o \in Ops : Call(c, o)
             \/ SendFails(c) \/ ReceiveError(c) \/ Poll(c) \/ Return(c) \/ Drop(c)
      PROVE  ResetsOwned'
  <2>1. UNCHANGED <<channel, current>> /\ \A d \in Callers \ {c} : Same(d)
    BY <1>2 DEF Call, SendFails, ReceiveError, Poll, Return, Drop, Form, Finish, Forget, Same,
                actor, TypeOK
  <2>2. pc'[c] \in {"send", "wait"} => word'[c] # "RESETCONF"
    BY <1>2 DEF Call, SendFails, ReceiveError, Poll, Return, Drop, Form, Finish, Forget, First, TypeOK
  <2> QED
    BY <1>0, <2>1, <2>2 DEF ResetsOwned, Same
<1>3. ASSUME NEW c \in Callers, Send(c) PROVE ResetsOwned'
  <2>1. UNCHANGED <<current, word>> /\ pc[c] = "send" /\ pc' = [pc EXCEPT ![c] = "wait"]
    BY <1>3 DEF Send
  <2>2. \A i \in 1 .. Len(channel') :
          (i \in 1 .. Len(channel) /\ channel'[i] = channel[i]) \/ channel'[i].word = word[c]
    BY <1>3 DEF Send, TypeOK
  <2> QED
    BY <1>0, <2>1, <2>2 DEF ResetsOwned, TypeOK
<1>4. ASSUME NEW c \in Callers, Timeout(c) \/ GiveUp(c) PROVE ResetsOwned'
  <2>1. Unheard(c)
    BY <1>4 DEF Timeout, GiveUp
  <2>2. pc'[c] \notin {"send", "wait"} /\ \A d \in Callers \ {c} : Same(d)
    BY <1>4 DEF Timeout, GiveUp, Finish, Forget, Same, TypeOK
  <2> QED
    BY <1>0, <2>1, <2>2, UnheardShape DEF ResetsOwned, Same
<1>5. CASE Recv
  <2>1. current' = channel[1] /\ 1 \in 1 .. Len(channel) /\ UNCHANGED <<pc, word>>
    BY <1>5 DEF Recv, TypeOK, callers
  <2>2. \A i \in 1 .. Len(channel') : channel'[i] = channel[i + 1] /\ i + 1 \in 1 .. Len(channel)
    BY <1>5 DEF Recv, TypeOK
  <2> QED
    BY <1>0, <2>1, <2>2 DEF ResetsOwned
<1>6. CASE RecvNone \/ Write \/ WriteFails \/ Read \/ ReadFails
  <2>1. UNCHANGED <<channel, current, pc, word>>
    BY <1>6 DEF RecvNone, Write, WriteFails, Read, ReadFails, Break, callers
  <2> QED
    BY <1>0, <2>1 DEF ResetsOwned
<1>7. CASE End
  BY <1>0, <1>7 DEF End, ResetsOwned
<1>8. CASE TorAnswers \/ TorEvent \/ TorCloses \/ TorSeesEnd \/ UNCHANGED vars
  <2>1. UNCHANGED <<actor, callers>>
    BY <1>8 DEF TorAnswers, TorReplies, TorEvent, TorCloses, TorSeesEnd, vars
  <2> QED
    BY <1>0, <2>1 DEF ResetsOwned, actor, callers
<1> QED
  BY <1>1, <1>2, <1>3, <1>4, <1>5, <1>6, <1>7, <1>8 DEF Next, CallerStep, ActorStep

LEMMA TorStep ==
  ASSUME TypeOK, Replies, Handshake, ~events, ~events', [Next]_vars
  PROVE  TorOwned'
<1>0. TorOwned /\ ResetsOwned /\ OnWire
  BY DEF Handshake, Replies
<1>1. CASE UNCHANGED <<up, authed, owned, pid, conn>>
  BY <1>0, <1>1 DEF TorOwned
<1>2. ASSUME NEW k \in {"good", "bad", "refused"}, NEW r \in Kinds, TorReplies(k, r)
      PROVE  TorOwned'
  <2>1. UNCHANGED <<up, conn>> /\ conn = "open" /\ toTor # <<>>
    BY <1>2 DEF TorReplies
  <2>2. Head(toTor).word = current.word
    <3>1. toTor \in Seq(Command)
      BY DEF TypeOK
    <3>2. Head(toTor) = toTor[1] /\ 1 \in 1 .. Len(toTor)
      BY <2>1, <3>1
    <3> QED
      BY <1>0, <3>2 DEF OnWire
  <2>3. /\ Head(toTor).word = "RESETCONF" => owned
        /\ Head(toTor).word = "TAKEOWNERSHIP" /\ k = "good" => authed
    BY <1>0, <1>2, <2>2 DEF ResetsOwned, TorReplies, Public
  <2>4. /\ authed' = (authed \/ (Head(toTor).word = "AUTHENTICATE" /\ k = "good"))
        /\ owned' = (owned \/ (Head(toTor).word = "TAKEOWNERSHIP" /\ k = "good"))
        /\ pid' = (pid /\ ~(Head(toTor).word = "RESETCONF" /\ k = "good"))
    BY <1>2 DEF TorReplies
  <2>5. (owned => authed) /\ (up => pid \/ owned)
    BY <1>0 DEF TorOwned
  <2>6. owned' => authed'
    BY <2>3, <2>4, <2>5, Zenon
  <2>7. up => pid' \/ owned'
    BY <2>3, <2>4, <2>5, Zenon
  <2> QED
    BY <2>1, <2>6, <2>7 DEF TorOwned
<1>3. CASE TorCloses
  BY <1>0, <1>3 DEF TorCloses, TorOwned
<1>4. CASE TorSeesEnd
  BY <1>0, <1>4 DEF TorSeesEnd, TorOwned
<1>5. \/ UNCHANGED <<up, authed, owned, pid, conn>> \/ TorAnswers \/ TorCloses \/ TorSeesEnd
  BY DEF Next, CallerStep, ActorStep, Call, Send, SendFails, ReceiveError, ReceiveReply, Poll,
         Return, Timeout, GiveUp, Drop, Recv, RecvNone, Write, WriteFails, Read, ReadFails, Break,
         End, TorEvent, vars, tor, wire
<1>6. CASE TorAnswers
  <2>1. PICK k \in {"good", "bad", "refused"}, r \in Kinds : TorReplies(k, r)
    BY <1>6, Zenon DEF TorAnswers
  <2> QED
    BY <1>2, <2>1
<1> QED
  BY <1>1, <1>3, <1>4, <1>5, <1>6

LEMMA KnowsStep ==
  ASSUME TypeOK, Replies, Handshake, ~events, ~events', [Next]_vars
  PROVE  Knows'
<1> USE DEF Knows
<1>0. /\ Knows /\ ResetsOwned /\ Owed /\ OnWire /\ Served
      /\ \A r : Proves(r) => Proves(r)'
      /\ owned => owned'
      /\ pid' => pid
  BY ProvesKept, FlagsKept DEF Handshake, Replies
<1>1. ASSUME NEW c \in Callers,
             \/ \E o \in Ops : Call(c, o)
             \/ Send(c) \/ SendFails(c) \/ ReceiveError(c) \/ ReceiveReply(c)
             \/ Poll(c) \/ Return(c) \/ Drop(c) \/ Timeout(c) \/ GiveUp(c)
      PROVE  Knows'
  <2>1. /\ \A d \in Callers \ {c} : Same(d) /\ op'[d] = op[d] /\ result'[d] = result[d]
        /\ UNCHANGED <<fromTor, owned, pid>>
    BY <1>1 DEF Call, Send, SendFails, ReceiveError, ReceiveReply, Poll, Return, Drop, Timeout,
                GiveUp, Form, Finish, Forget, Same, TypeOK, wire, tor
  <2>2. ~Given(c)'
    BY <1>0, <1>1 DEF Call, Send, SendFails, ReceiveError, ReceiveReply, Poll, Return, Drop, Timeout,
                GiveUp, Form, Finish, Forget, TypeOK, Owed, Given
  <2>3. op'[c] = "own" /\ pc'[c] \in {"send", "wait"} => word'[c] \notin {"GETINFO", "SETEVENTS"}
    <3>1. CASE ReceiveReply(c)
      <4>1. PICK next \in After(op[c], word[c], answer[c]) :
              \/ next \in Words /\ Form(c, next)
              \/ Finish(c, next)
              \/ pc' = [pc EXCEPT ![c] = "sleep"]
        BY <3>1 DEF ReceiveReply
      <4>2. next \notin {"GETINFO", "SETEVENTS"}
        BY AfterHandshake DEF TypeOK
      <4> QED
        BY <4>1, <4>2 DEF Form, Finish, TypeOK
    <3>2. CASE Poll(c)
      <4>1. op[c] # "own"
        BY <1>0, <3>2 DEF Poll
      <4> QED
        BY <3>2, <4>1 DEF Poll, Form
    <3>3. CASE (\E o \in Ops : Call(c, o)) \/ Send(c)
      BY <1>0, <3>3 DEF Call, Send, Form, First, TypeOK
    <3>4. CASE SendFails(c) \/ ReceiveError(c) \/ Return(c) \/ Drop(c) \/ Timeout(c) \/ GiveUp(c)
      BY <3>4 DEF SendFails, ReceiveError, Return, Drop, Timeout, GiveUp, Finish, Forget, TypeOK
    <3> QED
      BY <1>1, <3>1, <3>2, <3>3, <3>4
  <2>4. op'[c] = "own" => pc'[c] # "sleep"
    <3>1. CASE ReceiveReply(c)
      <4>1. PICK next \in After(op[c], word[c], answer[c]) :
              \/ next \in Words /\ Form(c, next)
              \/ Finish(c, next)
              \/ next = "sleep" /\ UNCHANGED op
        BY <3>1 DEF ReceiveReply
      <4>2. next = "sleep" => op[c] # "own"
        BY AfterHandshake DEF TypeOK
      <4> QED
        BY <4>1, <4>2 DEF Form, Finish, TypeOK
    <3>2. CASE ~ReceiveReply(c)
      BY <1>0, <1>1, <3>2 DEF Call, Send, SendFails, ReceiveError, Poll, Return, Drop, Timeout,
                GiveUp, Form, Finish, Forget, TypeOK
    <3> QED
      BY <3>1, <3>2
  <2>5. op'[c] = "own" /\ pc'[c] = "returned" /\ result'[c] = "ok" => owned /\ ~pid
    <3>1. CASE ReceiveReply(c)
      <4>1. Given(c) /\ answer[c].word = word[c] /\ answer[c].kind \in {"good", "bad", "refused"}
        BY <1>0, <3>1 DEF ReceiveReply, Given, Served
      <4>2. Proves(answer[c])
        BY <1>0, <4>1
      <4>3. PICK next \in After(op[c], word[c], answer[c]) :
              \/ next \in Words /\ Form(c, next)
              \/ Finish(c, next) /\ UNCHANGED op
              \/ pc' = [pc EXCEPT ![c] = "sleep"]
        BY <3>1 DEF ReceiveReply, Finish
      <4>4. op[c] = "own" => word[c] \notin {"GETINFO", "SETEVENTS"}
        BY <1>0, <3>1 DEF ReceiveReply
      <4>5. op[c] = "own" /\ next = "ok" => owned /\ ~pid
        BY <4>1, <4>2, <4>4, AfterHandshake DEF Proves, TypeOK
      <4> QED
        BY <4>3, <4>5 DEF Form, Finish, TypeOK
    <3>2. CASE \/ \E o \in Ops : Call(c, o)
               \/ Send(c) \/ Poll(c) \/ Return(c) \/ Drop(c) \/ GiveUp(c)
      BY <3>2 DEF Call, Send, Poll, Return, Drop, GiveUp, Form, Forget, TypeOK
    <3>3. CASE SendFails(c) \/ ReceiveError(c) \/ Timeout(c)
      BY <3>3 DEF SendFails, ReceiveError, Timeout, Finish, TypeOK
    <3> QED
      BY <1>1, <3>1, <3>2, <3>3
  <2> QED
    BY <1>0, <2>1, <2>2, <2>3, <2>4, <2>5 DEF Same, Given, Proves
<1>2. CASE Read
  <2>1. fromTor[1] = Head(fromTor) /\ 1 \in 1 .. Len(fromTor)
    BY <1>2 DEF Read, TypeOK
  <2>2. Proves(fromTor[1])
    BY <1>0, <2>1
  <2>3. \A i \in 1 .. Len(fromTor') : fromTor'[i] = fromTor[i + 1] /\ i + 1 \in 1 .. Len(fromTor)
    BY <1>2 DEF Read, TypeOK
  <2>4. \A c \in Callers : answer'[c] \in {answer[c], fromTor[1]}
    BY <1>2, <2>1 DEF Read, Respond
  <2>5. \A c \in Callers : Given(c)' => Given(c) \/ answer'[c] = fromTor[1]
    BY <1>2, <2>4 DEF Given, Read
  <2>6. UNCHANGED <<pc, op, word, result, owned, pid>>
    BY <1>2 DEF Read, tor
  <2>7. \A c \in Callers : Given(c)' => Proves(answer[c])'
    BY <1>0, <2>2, <2>4, <2>5, <2>6 DEF Proves, Given
  <2>8. \A i \in 1 .. Len(fromTor') : Proves(fromTor[i])'
    BY <1>0, <2>3, <2>6 DEF Proves
  <2> QED
    BY <1>0, <2>6, <2>7, <2>8
<1>3. CASE WriteFails \/ ReadFails \/ End
  <2>1. UNCHANGED <<pc, op, word, result, owned, pid>>
    BY <1>3 DEF WriteFails, ReadFails, End, Break, tor
  <2>2. \A c \in Callers : answer'[c] \in {answer[c], Failure}
    BY <1>3 DEF WriteFails, ReadFails, End, Break, Respond
  <2>3. \A i \in 1 .. Len(fromTor') : \E j \in 1 .. Len(fromTor) : fromTor'[i] = fromTor[j]
    <3>1. fromTor' = fromTor \/ (fromTor # <<>> /\ fromTor' = Tail(fromTor))
      BY <1>3 DEF WriteFails, ReadFails, End, wire
    <3>2. CASE fromTor' = fromTor
      BY <3>2
    <3>3. CASE fromTor # <<>> /\ fromTor' = Tail(fromTor)
      <4>1. \A i \in 1 .. Len(fromTor') :
              i + 1 \in 1 .. Len(fromTor) /\ fromTor'[i] = fromTor[i + 1]
        BY <3>3 DEF TypeOK
      <4> QED
        BY <4>1
    <3> QED
      BY <3>1, <3>2, <3>3
  <2> QED
    BY <1>0, <2>1, <2>2, <2>3 DEF Given, Proves, Failure, Nothing
<1>4. CASE Recv \/ RecvNone \/ Write \/ TorSeesEnd \/ UNCHANGED vars
  <2>1. UNCHANGED <<pc, op, word, result, answer, fromTor, owned, pid>>
    BY <1>4 DEF Recv, RecvNone, Write, TorSeesEnd, vars, callers, wire, tor
  <2> QED
    BY <1>0, <2>1 DEF Given, Proves
<1>5. CASE TorAnswers
  <2>1. PICK k \in {"good", "bad", "refused"}, r \in Kinds : TorReplies(k, r)
    BY <1>5, Zenon DEF TorAnswers
  <2>2. UNCHANGED <<pc, op, word, result, answer>>
    BY <2>1 DEF TorReplies, callers
  <2>3. toTor # <<>> /\ Len(toTor) = 1 /\ Len(fromTor) = 0 /\ Head(toTor).word = current.word
    <3>1. toTor # <<>> /\ Len(toTor) >= 1 /\ Len(toTor) \in Nat /\ Len(fromTor) \in Nat
      BY <2>1, Nonempty DEF TorReplies, TypeOK
    <3>2. Len(toTor) + Len(fromTor) <= 1
      BY <1>0 DEF OnWire
    <3>3. Len(toTor) = 1 /\ Len(fromTor) = 0
      BY <3>1, <3>2, AtMostOne
    <3> QED
      BY <1>0, <3>1, <3>3 DEF OnWire, TypeOK
  <2>4. /\ Len(fromTor') = 1
        /\ fromTor'[1].word = Head(toTor).word /\ fromTor'[1].kind \in {k, "broken"}
    BY <2>1, <2>3 DEF TorReplies, TypeOK
  <2>5. k = "bad" => Head(toTor).word \notin {"TAKEOWNERSHIP", "RESETCONF"}
    BY <2>1 DEF TorReplies
  <2>6. /\ Head(toTor).word = "RESETCONF" => owned
        /\ Head(toTor).word = "TAKEOWNERSHIP" /\ k = "good" => owned'
        /\ Head(toTor).word = "RESETCONF" /\ k = "good" => ~pid'
    BY <1>0, <2>1, <2>3 DEF ResetsOwned, TorReplies
  <2>7. Proves(fromTor[1])'
    BY <1>0, <2>4, <2>5, <2>6 DEF Proves
  <2>8. \A c \in Callers : Given(c)' => Proves(answer[c])'
    BY <1>0, <2>2 DEF Proves, Given
  <2> QED
    BY <1>0, <2>2, <2>4, <2>7, <2>8
<1>6. CASE TorEvent
  BY <1>6 DEF TorEvent
<1>7. CASE TorCloses
  <2>1. UNCHANGED <<pc, op, word, result, answer, owned, pid>>
    BY <1>7 DEF TorCloses, callers
  <2>2. \A i \in 1 .. Len(fromTor') :
          fromTor'[i].kind = "broken" \/ (i \in 1 .. Len(fromTor) /\ fromTor'[i] = fromTor[i])
    <3>1. CASE fromTor' = fromTor
      BY <3>1
    <3>2. CASE fromTor' = <<>>
      BY <3>2
    <3>3. CASE fromTor' = Append(fromTor, [id |-> 0, word |-> "SETEVENTS", kind |-> "broken"])
      BY <3>3 DEF TypeOK
    <3> QED
      BY <1>7, <3>1, <3>2, <3>3 DEF TorCloses
  <2> QED
    BY <1>0, <2>1, <2>2 DEF Given, Proves
<1> QED
  BY <1>1, <1>2, <1>3, <1>4, <1>5, <1>6, <1>7 DEF Next, CallerStep, ActorStep

LEMMA HandshakeKept ==
  TypeOK /\ Replies /\ Handshake /\ [Next]_vars => Handshake'
BY FlagsKept, ResetsStep, TorStep, KnowsStep DEF Handshake

LEMMA InitHandshake == Init => Handshake
BY DEF Init, Handshake, ResetsOwned, TorOwned, Knows, Given, Proves

\* At no moment of the handshake, whatever fails or is given up in it, does Tor run
\* with neither the process id nor the connection to end it.
THEOREM TorAlwaysOwned == Spec => []NeverOrphaned
<1>1. Handshake => NeverOrphaned
  BY DEF Handshake, TorOwned, NeverOrphaned
<1> QED
  BY <1>1, ClientTypes, InitReplies, RepliesKept, InitHandshake, HandshakeKept, PTL DEF Spec

\* authenticate_and_take_ownership returns Ok only when Tor has done it all.
THEOREM OwnershipTaken == Spec => []TakenWhenOk
<1>1. Handshake => TakenWhenOk
  BY DEF Handshake, TorOwned, Knows, TakenWhenOk
<1> QED
  BY <1>1, ClientTypes, InitReplies, RepliesKept, InitHandshake, HandshakeKept, PTL DEF Spec

-----------------------------------------------------------------------------
(* The client implements ControlService.                                   *)

\* Commands are numbered from 1 to `issued', and replies are to executed ones.
Numbered ==
  /\ \A c \in Callers : pc[c] \in {"send", "wait"} => id[c] \in 1 .. issued
  /\ \A i \in 1 .. Len(channel) : channel[i].id \in 1 .. issued
  /\ Busy => current.id \in 1 .. issued
  /\ \A i \in 1 .. Len(toTor) : toTor[i].id \in 1 .. issued
  /\ \A i \in 1 .. Len(fromTor) :
       fromTor[i].kind # "broken" => fromTor[i].id \in executed \cup {0}

LEMMA NumberedStep ==
  ASSUME TypeOK, Numbered, [Next]_vars
  PROVE  Numbered'
<1> USE DEF Numbered
<1>0. issued \in Nat
  BY DEF TypeOK
<1>1. ASSUME NEW c \in Callers,
             \/ \E o \in Ops : Call(c, o)
             \/ SendFails(c) \/ ReceiveError(c) \/ ReceiveReply(c)
             \/ Poll(c) \/ Return(c) \/ Drop(c)
      PROVE  Numbered'
  <2>1. /\ UNCHANGED <<channel, apc, current, toTor, fromTor, executed>>
        /\ \A d \in Callers \ {c} : Same(d)
    BY <1>1 DEF Call, SendFails, ReceiveError, ReceiveReply, Poll, Return, Drop, Form, Finish,
                Forget, Same, TypeOK, actor, wire, tor
  <2>2. issued' \in {issued, issued + 1}
    BY <1>1 DEF Call, SendFails, ReceiveError, ReceiveReply, Poll, Return, Drop, Form, Finish, Forget
  <2>3. pc'[c] \in {"send", "wait"} => id'[c] \in 1 .. issued'
    BY <1>0, <1>1 DEF Call, SendFails, ReceiveError, ReceiveReply, Poll, Return, Drop, Form, Finish,
                Forget, TypeOK
  <2> QED
    BY <1>0, <2>1, <2>2, <2>3 DEF Same, Busy
<1>2. ASSUME NEW c \in Callers, Send(c) PROVE Numbered'
  <2>1. UNCHANGED <<apc, current, toTor, fromTor, executed, id, issued>>
    BY <1>2 DEF Send, wire, tor
  <2>2. pc[c] = "send" /\ pc' = [pc EXCEPT ![c] = "wait"]
    BY <1>2 DEF Send
  <2>3. \A i \in 1 .. Len(channel') :
          (i \in 1 .. Len(channel) /\ channel'[i] = channel[i]) \/ channel'[i].id = id[c]
    BY <1>2 DEF Send, TypeOK
  <2> QED
    BY <2>1, <2>2, <2>3 DEF Busy, TypeOK
<1>3. ASSUME NEW c \in Callers, Timeout(c) \/ GiveUp(c) PROVE Numbered'
  <2>1. Unheard(c) /\ UNCHANGED <<apc, toTor, fromTor, executed, issued>>
    BY <1>3 DEF Timeout, GiveUp, Finish, Forget, wire, tor
  <2>2. pc'[c] \notin {"send", "wait"} /\ \A d \in Callers \ {c} : Same(d)
    BY <1>3 DEF Timeout, GiveUp, Finish, Forget, Same, TypeOK
  <2> QED
    BY <2>1, <2>2, UnheardShape DEF Same, Busy
<1>4. CASE Recv
  <2>1. current' = channel[1] /\ 1 \in 1 .. Len(channel)
    BY <1>4 DEF Recv, TypeOK
  <2>2. \A i \in 1 .. Len(channel') : channel'[i] = channel[i + 1] /\ i + 1 \in 1 .. Len(channel)
    BY <1>4 DEF Recv, TypeOK
  <2>3. UNCHANGED <<pc, id, issued, toTor, fromTor, executed>>
    BY <1>4 DEF Recv, callers, wire, tor
  <2> QED
    BY <2>1, <2>2, <2>3
<1>5. CASE Write
  <2>1. UNCHANGED <<channel, current, pc, id, issued, fromTor, executed>> /\ Busy
    BY <1>5 DEF Write, callers, tor, Busy
  <2>2. \A i \in 1 .. Len(toTor') :
          (i \in 1 .. Len(toTor) /\ toTor'[i] = toTor[i]) \/ toTor'[i] = current
    BY <1>5 DEF Write, TypeOK
  <2> QED
    BY <2>1, <2>2
<1>6. CASE RecvNone \/ WriteFails \/ Read \/ ReadFails \/ End
  <2>1. UNCHANGED <<current, pc, id, issued, toTor, executed>> /\ apc' \notin {"write", "read"}
    BY <1>6 DEF RecvNone, WriteFails, Read, ReadFails, Break, End, callers, wire, tor
  <2>2. channel' = channel \/ channel' = <<>>
    BY <1>6 DEF RecvNone, WriteFails, Read, ReadFails, Break, End
  <2>3. fromTor' = fromTor \/ (fromTor # <<>> /\ fromTor' = Tail(fromTor))
    BY <1>6 DEF RecvNone, WriteFails, Read, ReadFails, End, wire
  <2>4. CASE fromTor' = fromTor
    BY <2>1, <2>2, <2>4 DEF Busy
  <2>5. CASE fromTor # <<>> /\ fromTor' = Tail(fromTor)
    <3>1. \A i \in 1 .. Len(fromTor') :
            i + 1 \in 1 .. Len(fromTor) /\ fromTor'[i] = fromTor[i + 1]
      BY <2>5 DEF TypeOK
    <3> QED
      BY <2>1, <2>2, <3>1 DEF Busy
  <2> QED
    BY <2>3, <2>4, <2>5
<1>7. CASE TorAnswers
  <2>1. PICK k \in {"good", "bad", "refused"}, r \in Kinds : TorReplies(k, r)
    BY <1>7, Zenon DEF TorAnswers
  <2>2. UNCHANGED <<channel, apc, current, pc, id, issued>>
    BY <2>1 DEF TorReplies, actor, callers
  <2>3. executed' = executed \cup {Head(toTor).id}
    BY <2>1 DEF TorReplies
  <2>4. \A i \in 1 .. Len(toTor') : toTor'[i] = toTor[i + 1] /\ i + 1 \in 1 .. Len(toTor)
    BY <2>1 DEF TorReplies, TypeOK
  <2>5. \A i \in 1 .. Len(fromTor') :
          \/ i \in 1 .. Len(fromTor) /\ fromTor'[i] = fromTor[i]
          \/ fromTor'[i].id = Head(toTor).id
    BY <2>1 DEF TorReplies, TypeOK
  <2> QED
    BY <2>2, <2>3, <2>4, <2>5 DEF Busy
<1>8. CASE TorEvent \/ TorCloses
  <2>1. UNCHANGED <<channel, apc, current, pc, id, issued, executed>>
    BY <1>8 DEF TorEvent, TorCloses, actor, callers, tor
  <2>2. toTor' = toTor \/ toTor' = <<>>
    BY <1>8 DEF TorEvent, TorCloses
  <2>3. \/ fromTor' = fromTor \/ fromTor' = <<>>
        \/ fromTor' = Append(fromTor, [id |-> 0, word |-> "SETEVENTS", kind |-> "broken"])
        \/ fromTor' = Append(fromTor, [id |-> 0, word |-> "SETEVENTS", kind |-> "refused"])
    BY <1>8 DEF TorEvent, TorCloses
  <2>4. \A i \in 1 .. Len(fromTor') :
          (i \in 1 .. Len(fromTor) /\ fromTor'[i] = fromTor[i]) \/ fromTor'[i].id = 0
    <3>1. CASE fromTor' = fromTor
      BY <3>1
    <3>2. CASE fromTor' = <<>>
      BY <3>2
    <3>3. CASE fromTor' = Append(fromTor, [id |-> 0, word |-> "SETEVENTS", kind |-> "broken"])
      BY <3>3 DEF TypeOK
    <3>4. CASE fromTor' = Append(fromTor, [id |-> 0, word |-> "SETEVENTS", kind |-> "refused"])
      BY <3>4 DEF TypeOK
    <3> QED
      BY <2>3, <3>1, <3>2, <3>3, <3>4
  <2> QED
    BY <2>1, <2>2, <2>4 DEF Busy
<1>9. CASE TorSeesEnd \/ UNCHANGED vars
  BY <1>9 DEF TorSeesEnd, vars, actor, wire, tor, callers, Busy
<1> QED
  BY <1>1, <1>2, <1>3, <1>4, <1>5, <1>6, <1>7, <1>8, <1>9 DEF Next, CallerStep, ActorStep

LEMMA InitNumbered == Init => Numbered
BY DEF Init, Numbered, Busy

\* The view of a caller that is as it was.
LEMMA SameView ==
  ASSUME NEW d \in Callers, Same(d)
  PROVE  Asked(d)' = Asked(d) /\ Holds(d)' = Holds(d)
BY DEF Same, Asked, Holds

\* The view changes only at c.
LEMMA OneChanges ==
  ASSUME NEW c \in Callers, \A d \in Callers \ {c} : Same(d)
  PROVE  /\ [d \in Callers |-> Asked(d)]' =
              [[d \in Callers |-> Asked(d)] EXCEPT ![c] = Asked(c)']
         /\ [d \in Callers |-> Holds(d)]' =
              [[d \in Callers |-> Holds(d)] EXCEPT ![c] = Holds(c)']
BY SameView

LEMMA MapsToStutter ==
  ASSUME \A d \in Callers : Asked(d)' = Asked(d) /\ Holds(d)' = Holds(d),
         UNCHANGED <<issued, executed, events>>,
         (apc \in {"end", "done"}) <=> (apc' \in {"end", "done"})
  PROVE  UNCHANGED Service!vars
<1>1. [d \in Callers |-> Asked(d)]' = [d \in Callers |-> Asked(d)]
  OBVIOUS
<1>2. [d \in Callers |-> Holds(d)]' = [d \in Callers |-> Holds(d)]
  OBVIOUS
<1>3. (apc \notin {"end", "done"})' = (apc \notin {"end", "done"})
  OBVIOUS
<1> QED
  BY <1>1, <1>2, <1>3, Zenon DEF Service!vars

\* A caller that waits for nothing, or holds a reply, forms a command.
LEMMA MapsToAsk ==
  ASSUME NEW c \in Callers,
         pc[c] \in {"send", "wait"} => Given(c),
         pc'[c] = "send", id'[c] = issued + 1, issued' = issued + 1,
         \A d \in Callers \ {c} : Same(d),
         UNCHANGED <<apc, executed, events>>
  PROVE  Service!Ask(c)
<1>1. Asked(c) = 0 \/ Holds(c) \in {"own", "other"}
  BY DEF Asked, Holds, Given
<1>2. Asked(c)' = issued + 1 /\ Holds(c)' = "nothing"
  BY DEF Asked, Holds
<1> QED
  BY <1>1, <1>2, OneChanges DEF Service!Ask

\* A call returns or is given up.
LEMMA MapsToLeave ==
  ASSUME TypeOK, Numbered, NEW c \in Callers,
         pc[c] \in {"send", "wait"}, pc'[c] \notin {"send", "wait"},
         \A d \in Callers \ {c} : Same(d),
         UNCHANGED <<apc, issued, executed, events>>
  PROVE  Service!Leave(c)
<1>1. Asked(c) # 0
  BY DEF Asked, Numbered, TypeOK
<1>2. Asked(c)' = 0 /\ Holds(c)' = "nothing"
  BY DEF Asked, Holds
<1> QED
  BY <1>1, <1>2, OneChanges DEF Service!Leave

\* What a waiting, unanswered caller looks like to the service.
LEMMA WaitingView ==
  ASSUME TypeOK, Numbered, NEW c \in Callers, pc[c] = "wait", answer[c] = Nothing
  PROVE  Asked(c) = id[c] /\ Asked(c) # 0 /\ Holds(c) = "nothing"
BY DEF Asked, Holds, Numbered, TypeOK

\* The steps of the callers.
LEMMA CallersMap ==
  ASSUME TypeOK, Owed, Numbered, NEW c \in Callers,
         \/ CallerStep(c) \/ Send(c) \/ Timeout(c) \/ GiveUp(c) \/ Drop(c)
         \/ \E o \in Ops : Call(c, o)
  PROVE  Service!Ask(c) \/ Service!Leave(c) \/ UNCHANGED Service!vars
<1>1. UNCHANGED <<apc, executed, events>>
  BY DEF CallerStep, SendFails, ReceiveError, ReceiveReply, Poll, Return, Send, Timeout, GiveUp,
         Drop, Call, actor, tor
<1>2. \A d \in Callers \ {c} : Same(d)
  BY DEF CallerStep, SendFails, ReceiveError, ReceiveReply, Poll, Return, Send, Timeout, GiveUp,
         Drop, Call, Form, Finish, Forget, Same, TypeOK
<1>3. CASE /\ pc[c] \in {"send", "wait"} => Given(c)
           /\ pc'[c] = "send" /\ id'[c] = issued + 1 /\ issued' = issued + 1
  BY <1>1, <1>2, <1>3, MapsToAsk
<1>4. CASE pc[c] \in {"send", "wait"} /\ pc'[c] \notin {"send", "wait"} /\ issued' = issued
  BY <1>1, <1>2, <1>4, MapsToLeave
<1>5. CASE /\ pc[c] \notin {"send", "wait"} /\ pc'[c] \notin {"send", "wait"}
           /\ issued' = issued
  <2>1. Asked(c)' = Asked(c) /\ Holds(c)' = Holds(c)
    BY <1>5 DEF Asked, Holds
  <2> QED
    BY <1>1, <1>2, <1>5, <2>1, SameView, MapsToStutter
<1>6. CASE Send(c)
  <2>1. pc[c] = "send" /\ pc'[c] = "wait" /\ answer[c] = Nothing
        /\ UNCHANGED <<id, answer, issued>>
    BY <1>6 DEF Send, TypeOK, Owed
  <2>2. Asked(c)' = Asked(c) /\ Holds(c)' = Holds(c)
    BY <2>1 DEF Asked, Holds
  <2> QED
    BY <1>1, <1>2, <2>1, <2>2, SameView, MapsToStutter
<1>7. CASE (\E o \in Ops : Call(c, o)) \/ Poll(c)
  <2>1. /\ pc[c] \notin {"send", "wait"}
        /\ pc'[c] = "send" /\ id'[c] = issued + 1 /\ issued' = issued + 1
    BY <1>7 DEF Call, Poll, Form, TypeOK
  <2> QED
    BY <1>3, <2>1
<1>8. CASE SendFails(c) \/ ReceiveError(c) \/ Return(c) \/ Timeout(c) \/ GiveUp(c) \/ Drop(c)
  <2>1. pc'[c] \notin {"send", "wait"} /\ issued' = issued
    BY <1>8 DEF SendFails, ReceiveError, Return, Timeout, GiveUp, Drop, Finish, Forget, TypeOK
  <2> QED
    BY <1>4, <1>5, <2>1
<1>9. CASE ReceiveReply(c)
  <2>1. Given(c) /\ pc[c] = "wait"
    BY <1>9 DEF ReceiveReply, Given
  <2>2. \/ pc'[c] = "send" /\ id'[c] = issued + 1 /\ issued' = issued + 1
        \/ pc'[c] \notin {"send", "wait"} /\ issued' = issued
    BY <1>9 DEF ReceiveReply, Form, Finish, TypeOK
  <2> QED
    BY <1>3, <1>4, <2>1, <2>2
<1> QED
  BY <1>6, <1>7, <1>8, <1>9 DEF CallerStep

\* The first failure, in a write or a read.
LEMMA BreakMaps ==
  ASSUME TypeOK, Owed, Numbered, Busy, Break
  PROVE  Service!Fail
<1>1. UNCHANGED <<pc, id, issued, executed, events>>
  BY DEF Break, tor
<1>2. (apc \notin {"end", "done"}) /\ ~(apc \notin {"end", "done"})'
  BY DEF Busy, Break
<1>3. [d \in Callers |-> Asked(d)]' = [d \in Callers |-> Asked(d)]
  BY <1>1 DEF Asked
<1>4. \A d \in Callers \ {current.from} : Holds(d)' = Holds(d)
  BY <1>1 DEF Holds, Break, Respond
<1>5. CASE current.from \in Callers
  <2>0. PICK c \in Callers : c = current.from
    BY <1>5
  <2>1. pc[c] = "wait" /\ answer[c] = Nothing
    BY <2>0 DEF Owed, Busy, Waits
  <2>2. Asked(c) # 0 /\ Holds(c) = "nothing"
    BY <2>1, WaitingView
  <2>3. Holds(c)' = "error"
    BY <1>1, <2>0, <2>1 DEF Holds, Break, Respond, Failure, Nothing
  <2>4. \A d \in Callers : Holds(d)' = IF d \in {c} THEN "error" ELSE Holds(d)
    BY <1>4, <2>0, <2>3
  <2>5. Service!Error({c})
    BY <2>2, <2>4 DEF Service!Error
  <2> QED
    BY <1>1, <1>2, <1>3, <2>5 DEF Service!Fail
<1>6. CASE current.from \notin Callers
  <2>1. [d \in Callers |-> Holds(d)]' = [d \in Callers |-> Holds(d)]
    BY <1>4, <1>6
  <2> QED
    BY <1>1, <1>2, <1>3, <2>1 DEF Service!Fail
<1> QED
  BY <1>5, <1>6

\* The commands that are dropped with the receiver.
LEMMA EndMaps ==
  ASSUME TypeOK, Owed, Numbered, End
  PROVE  Service!Lose
<1> DEFINE C == {c \in Callers : \E i \in 1 .. Len(channel) : channel[i].from = c}
<1>1. UNCHANGED <<pc, id, issued, executed, events>>
  BY DEF End, tor
<1>2. ~(apc \notin {"end", "done"}) /\ ~(apc \notin {"end", "done"})'
  BY DEF End
<1>3. [d \in Callers |-> Asked(d)]' = [d \in Callers |-> Asked(d)]
  BY <1>1 DEF Asked
<1>4. \A d \in Callers \ C : Holds(d)' = Holds(d)
  BY <1>1 DEF Holds, End
<1>5. ASSUME NEW c \in C
      PROVE  Asked(c) # 0 /\ Holds(c) = "nothing" /\ Holds(c)' = "error"
  <2>1. pc[c] = "wait" /\ answer[c] = Nothing
    BY DEF Owed, Waits
  <2>2. Holds(c)' = "error"
    BY <1>1, <2>1 DEF Holds, End, Failure, Nothing
  <2> QED
    BY <2>1, <2>2, WaitingView
<1>6. Service!Error(C)
  BY <1>4, <1>5 DEF Service!Error
<1>7. C \in SUBSET Callers
  OBVIOUS
<1> QED
  BY <1>1, <1>2, <1>3, <1>6, <1>7 DEF Service!Lose

\* The reply goes to the caller of the command being served, if it still listens:
\* its own, or once events are on perhaps another.
LEMMA ReadMaps ==
  ASSUME TypeOK, Replies, Numbered, Read
  PROVE  \/ \E c \in Callers : Service!Give(c)
         \/ UNCHANGED Service!vars
<1> DEFINE r == Head(fromTor)
<1>1. UNCHANGED <<pc, id, issued, executed, events>>
  BY DEF Read, tor
<1>2. apc \notin {"end", "done"} /\ apc' \notin {"end", "done"}
  BY DEF Read
<1>3. \A d \in Callers \ {current.from} : Asked(d)' = Asked(d) /\ Holds(d)' = Holds(d)
  BY <1>1 DEF Asked, Holds, Read, Respond
<1>4. r = fromTor[1] /\ 1 \in 1 .. Len(fromTor) /\ r \in Reply /\ r.kind # "broken"
  BY DEF Read, TypeOK
<1>5. CASE current.from \in Callers
  <2>0. PICK c \in Callers : c = current.from
    BY <1>5
  <2>1. pc[c] = "wait" /\ answer[c] = Nothing /\ id[c] = current.id
    BY <2>0 DEF Replies, Owed, Busy, Waits, Read
  <2>2. Asked(c) = id[c] /\ Asked(c) # 0 /\ Holds(c) = "nothing"
    BY <2>1, WaitingView
  <2>3. r # Nothing /\ r # Failure
    BY <1>4 DEF Reply, Kinds, Nothing, Failure
  <2>4. Holds(c)' = IF r.id = id[c] THEN "own" ELSE "other"
    BY <1>1, <2>0, <2>1, <2>3 DEF Holds, Read, Respond, TypeOK
  <2>5. Asked(c)' = Asked(c)
    BY <1>1 DEF Asked
  <2>6. \/ r.id = id[c] /\ Asked(c) \in executed
        \/ r.id # id[c] /\ events
    <3>1. ~events => r.id = current.id
      BY <1>4 DEF Replies, OnWire
    <3>2. r.id \in executed \cup {0}
      BY <1>4 DEF Numbered
    <3> QED
      BY <2>1, <2>2, <3>1, <3>2
  <2>7. /\ [d \in Callers |-> Asked(d)]' = [d \in Callers |-> Asked(d)]
        /\ [d \in Callers |-> Holds(d)]' =
             [[d \in Callers |-> Holds(d)] EXCEPT ![c] = Holds(c)']
    BY <1>3, <2>0, <2>5
  <2>8. Service!Give(c)
    BY <1>1, <1>2, <2>2, <2>4, <2>6, <2>7 DEF Service!Give
  <2> QED
    BY <2>8
<1>6. CASE current.from \notin Callers
  BY <1>1, <1>2, <1>3, <1>6, MapsToStutter
<1> QED
  BY <1>5, <1>6

\* Tor executes the command it answers.
LEMMA TorMaps ==
  ASSUME TypeOK, Numbered, TorAnswers
  PROVE  \E n \in 1 .. issued : Service!Execute(n)
<1>1. PICK k \in {"good", "bad", "refused"}, r \in Kinds : TorReplies(k, r)
  BY Zenon DEF TorAnswers
<1>2. UNCHANGED <<pc, id, answer, issued, apc>>
  BY <1>1 DEF TorReplies, callers, actor
<1>3. executed' = executed \cup {Head(toTor).id} /\ events' \in {events, TRUE}
  <2>1. events' = (events \/ (Head(toTor).word = "SETEVENTS" /\ k = "good"))
    BY <1>1, Zenon DEF TorReplies
  <2>2. executed' = executed \cup {Head(toTor).id}
    BY <1>1 DEF TorReplies
  <2>3. events \in BOOLEAN
    BY DEF TypeOK
  <2> QED
    BY <2>1, <2>2, <2>3
<1>4. Head(toTor).id \in 1 .. issued
  BY <1>1 DEF TorReplies, Numbered, TypeOK
<1>5. /\ [d \in Callers |-> Asked(d)]' = [d \in Callers |-> Asked(d)]
      /\ [d \in Callers |-> Holds(d)]' = [d \in Callers |-> Holds(d)]
      /\ (apc \notin {"end", "done"})' = (apc \notin {"end", "done"})
  BY <1>2 DEF Asked, Holds
<1>6. Service!Execute(Head(toTor).id)
  BY <1>2, <1>3, <1>5 DEF Service!Execute
<1> QED
  BY <1>4, <1>6

\* Every step is one of the service, or none.
LEMMA StepMaps ==
  ASSUME TypeOK, Replies, Numbered, [Next]_vars
  PROVE  [Service!Next]_(Service!vars)
<1> USE DEF Replies
<1>1. ASSUME NEW c \in Callers,
             \/ CallerStep(c) \/ Send(c) \/ Timeout(c) \/ GiveUp(c) \/ Drop(c)
             \/ \E o \in Ops : Call(c, o)
      PROVE  [Service!Next]_(Service!vars)
  BY <1>1, CallersMap DEF Service!Next
<1>2. CASE Read
  BY <1>2, ReadMaps DEF Service!Next
<1>3. CASE WriteFails \/ ReadFails
  <2>1. Busy /\ Break
    BY <1>3 DEF WriteFails, ReadFails, Busy
  <2> QED
    BY <2>1, BreakMaps DEF Service!Next
<1>4. CASE RecvNone
  <2>1. UNCHANGED <<pc, id, answer, issued, executed, events>>
    BY <1>4 DEF RecvNone, callers, tor
  <2>2. (apc \notin {"end", "done"}) /\ ~(apc \notin {"end", "done"})'
    BY <1>4 DEF RecvNone
  <2>3. /\ [d \in Callers |-> Asked(d)]' = [d \in Callers |-> Asked(d)]
        /\ [d \in Callers |-> Holds(d)]' = [d \in Callers |-> Holds(d)]
    BY <2>1 DEF Asked, Holds
  <2>4. Service!Fail
    BY <2>1, <2>2, <2>3 DEF Service!Fail
  <2> QED
    BY <2>4 DEF Service!Next
<1>5. CASE End
  BY <1>5, EndMaps DEF Service!Next
<1>6. CASE TorAnswers
  BY <1>6, TorMaps DEF Service!Next
<1>7. CASE Recv \/ Write \/ TorEvent \/ TorCloses \/ TorSeesEnd \/ UNCHANGED vars
  <2>1. UNCHANGED <<pc, id, answer, issued, executed, events>>
    BY <1>7 DEF Recv, Write, TorEvent, TorCloses, TorSeesEnd, vars, callers, tor
  <2>2. (apc \in {"end", "done"}) <=> (apc' \in {"end", "done"})
    BY <1>7 DEF Recv, Write, TorEvent, TorCloses, TorSeesEnd, vars, actor
  <2>3. \A d \in Callers : Asked(d)' = Asked(d) /\ Holds(d)' = Holds(d)
    BY <2>1 DEF Asked, Holds
  <2> QED
    BY <2>1, <2>2, <2>3, MapsToStutter
<1> QED
  BY <1>1, <1>2, <1>3, <1>4, <1>5, <1>6, <1>7 DEF Next, ActorStep

LEMMA InitMaps == Init => Service!Init
BY DEF Init, Service!Init, Asked, Holds

\* The client implements ControlService: whatever the number of callers and of places
\* in the channel, calls are served one at a time with their own replies or errors.
THEOREM ClientServes == Spec => ServiceSpec
<1>1. TypeOK /\ Replies /\ Numbered /\ [Next]_vars => [Service!Next]_(Service!vars)
  BY StepMaps
<1>2. TypeOK /\ Numbered /\ [Next]_vars => Numbered'
  BY NumberedStep
<1> QED
  BY <1>1, <1>2, ClientTypes, InitReplies, RepliesKept, InitNumbered, InitMaps, PTL
     DEF Spec, ServiceSpec, Service!Spec
=============================================================================
