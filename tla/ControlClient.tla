---------------------------- MODULE ControlClient ----------------------------
(***************************************************************************)
(* The control connection to Tor (tor/controller/client.rs): tasks that    *)
(* share a ControlClient put commands into a bounded channel, and one      *)
(* background task, the actor, writes each to the connection and takes the *)
(* next reply for its answer.  Calls are scripts of several commands       *)
(* (authentication and ownership, the poll of the bootstrap phase) and may *)
(* be given up at each await; the connection may end at any point.         *)
(*                                                                         *)
(* Commands are numbered; a reply carries the number of the command that   *)
(* Tor answers with it (0 for an asynchronous event), which the code never *)
(* sees.  Tor and the connection are modelled from the protocol the code   *)
(* relies on.                                                              *)
(***************************************************************************)
EXTENDS Integers, Sequences, FiniteSets

CONSTANTS Callers,       \* tasks that hold a clone of the client
          None,          \* no caller
          Buffer,        \* COMMAND_BUFFER
          Authenticated, \* the stream given to from_stream is authenticated already
          Ops,           \* what the callers do
          MaxCommands,   \* bound: no call or poll begins after so many commands
          MaxUnread      \* bound: no event arrives behind so many unread replies

AllOps == {"own", "bootstrap", "listener", "raw", "events", "giveup", "drop"}

Words == {"PROTOCOLINFO", "AUTHCHALLENGE", "AUTHENTICATE", "TAKEOWNERSHIP",
          "RESETCONF", "GETINFO", "SETEVENTS"}

ASSUME CallersAssumption == None \notin Callers
ASSUME BufferAssumption  == Buffer \in Nat \ {0}
ASSUME OpsAssumption     == Ops \subseteq AllOps
ASSUME StreamAssumption  == Authenticated \in BOOLEAN
ASSUME BoundsAssumption  == MaxCommands \in Nat /\ MaxUnread \in Nat

VARIABLES
  channel, apc, current,                           \* the channel and the actor
  toTor, fromTor, conn,                            \* the connection
  up, authed, owned, pid, events, executed,        \* Tor
  pc, op, word, id, answer, result, issued         \* the callers

actor   == <<channel, apc, current>>
wire    == <<toTor, fromTor, conn>>
tor     == <<up, authed, owned, pid, events, executed>>
callers == <<pc, op, word, id, answer, result, issued>>
vars    == <<actor, wire, tor, callers>>

\* A command, and the caller (if it still listens) its reply goes to.
Command == [id : Nat, word : Words, from : Callers \cup {None}]

\* A reply by what the client can tell: 250 with usable contents ("good") or
\* without ("bad"), another status ("refused"), or no reply at all ("broken").
Kinds == {"good", "bad", "refused", "broken"}
Reply == [id : Nat, word : Words, kind : Kinds]

\* What a oneshot holds.
Nothing == [id |-> 0, word |-> "SETEVENTS", kind |-> "nothing"]
Failure == [id |-> 0, word |-> "SETEVENTS", kind |-> "failure"]
Answers == Reply \cup {Nothing, Failure}

Calling == {"send", "wait", "sleep"}

TypeOK ==
  /\ channel \in Seq(Command) /\ Len(channel) <= Buffer
  /\ apc \in {"recv", "write", "read", "end", "done"}
  /\ current \in Command
  /\ toTor \in Seq(Command) /\ fromTor \in Seq(Reply)
  /\ conn \in {"open", "closed"}
  /\ up \in BOOLEAN /\ authed \in BOOLEAN /\ owned \in BOOLEAN
  /\ pid \in BOOLEAN /\ events \in BOOLEAN
  /\ executed \in SUBSET Nat
  /\ pc \in [Callers -> Calling \cup {"idle", "returned", "gone"}]
  /\ op \in [Callers -> AllOps \cup {"none"}]
  /\ word \in [Callers -> Words]
  /\ id \in [Callers -> Nat]
  /\ answer \in [Callers -> Answers]
  /\ result \in [Callers -> {"none", "ok", "err"}]
  /\ issued \in Nat

-----------------------------------------------------------------------------
(* The scripts of the calls.                                               *)

\* The first command of each call.
First == [own |-> "PROTOCOLINFO", bootstrap |-> "GETINFO", listener |-> "GETINFO",
          raw |-> "GETINFO", events |-> "SETEVENTS"]

\* authenticate: the cookie by challenge, the cookie itself or nothing, or a failure
\* of the client's own (no method it supports, a cookie it cannot read).
Methods == {"AUTHCHALLENGE", "AUTHENTICATE", "err"}

\* Faulty: the process id is cleared before the connection owns Tor.
AfterSuccessSwapped ==
  [PROTOCOLINFO |-> Methods, AUTHCHALLENGE |-> {"AUTHENTICATE"},
   AUTHENTICATE |-> {"RESETCONF"}, RESETCONF |-> {"TAKEOWNERSHIP"}, TAKEOWNERSHIP |-> {"ok"},
   GETINFO |-> {"ok"}, SETEVENTS |-> {"ok"}]

\* What follows a command that succeeded: a command, the return or a failure.
AfterSuccess ==
  [PROTOCOLINFO  |-> Methods,
   AUTHCHALLENGE |-> {"AUTHENTICATE"},
   AUTHENTICATE  |-> {"TAKEOWNERSHIP"},
   TAKEOWNERSHIP |-> {"RESETCONF"},
   RESETCONF     |-> {"ok"},
   GETINFO       |-> {"ok"},
   SETEVENTS     |-> {"ok"}]

\* The replies whose contents the client reads, and can make something of.
Unusable(w, r) ==
  /\ w \in {"PROTOCOLINFO", "AUTHCHALLENGE", "GETINFO"}
  /\ r.kind = "bad" \/ r.word # w

\* Faulty: `command' in the place of `command_success'.
AfterUnchecked(o, w, r) ==
  IF o \notin {"raw", "events"} /\ Unusable(w, r) THEN {"err"} ELSE AfterSuccess[w]

\* What a call does with a reply: `command' returns any, `command_success' only 250.
After(o, w, r) ==
  IF o \in {"raw", "events"} THEN {"ok"}
  ELSE IF r.kind = "refused" THEN {"err"}
  ELSE IF Unusable(w, r) THEN {IF o = "bootstrap" THEN "sleep" ELSE "err"}
  ELSE AfterSuccess[w]

Init ==
  /\ channel = <<>> /\ apc = "recv"
  /\ current = [id |-> 0, word |-> "SETEVENTS", from |-> None]
  /\ toTor = <<>> /\ fromTor = <<>> /\ conn = "open"
  /\ up = TRUE /\ authed = Authenticated /\ owned = FALSE /\ pid = TRUE
  /\ events = FALSE /\ executed = {}
  /\ pc = [c \in Callers |-> "idle"] /\ op = [c \in Callers |-> "none"]
  /\ word = [c \in Callers |-> "SETEVENTS"] /\ id = [c \in Callers |-> 0]
  /\ answer = [c \in Callers |-> Nothing]
  /\ result = [c \in Callers |-> "none"]
  /\ issued = 0

-----------------------------------------------------------------------------
(* The callers.                                                            *)

\* c forms its next command. A raw command with a line break is refused before this, and
\* changes nothing.
Form(c, w) ==
  /\ issued' = issued + 1
  /\ pc' = [pc EXCEPT ![c] = "send"]
  /\ word' = [word EXCEPT ![c] = w]
  /\ id' = [id EXCEPT ![c] = issued + 1]
  /\ answer' = [answer EXCEPT ![c] = Nothing]

Call(c, o) ==
  /\ pc[c] = "idle" /\ o \in Ops \cap DOMAIN First
  /\ issued < MaxCommands
  /\ Form(c, First[o])
  /\ op' = [op EXCEPT ![c] = o]
  /\ UNCHANGED <<actor, wire, tor, result>>

\* c's call returns r.
Finish(c, r) ==
  /\ pc' = [pc EXCEPT ![c] = "returned"]
  /\ result' = [result EXCEPT ![c] = r]
  /\ UNCHANGED <<op, word, id, answer, issued>>

\* Faulty: one command too many.
RoomForOneMore == Len(channel) <= Buffer

\* Room in the channel.
Room == Len(channel) < Buffer

Send(c) ==
  /\ pc[c] = "send" /\ apc # "done" /\ Room
  /\ channel' = Append(channel, [id |-> id[c], word |-> word[c], from |-> c])
  /\ pc' = [pc EXCEPT ![c] = "wait"]
  /\ UNCHANGED <<apc, current, wire, tor, op, word, id, answer, result, issued>>

\* The receiver is gone: ChannelClosed.
SendFails(c) ==
  /\ pc[c] = "send" /\ apc = "done"
  /\ Finish(c, "err")
  /\ UNCHANGED <<actor, wire, tor>>

\* The oneshot is answered, or its sender dropped.
ReceiveError(c) ==
  /\ pc[c] = "wait" /\ answer[c] = Failure
  /\ Finish(c, "err")
  /\ UNCHANGED <<actor, wire, tor>>

ReceiveReply(c) ==
  /\ pc[c] = "wait" /\ answer[c] \notin {Nothing, Failure}
  /\ \E next \in After(op[c], word[c], answer[c]) :
       \/ /\ next \in Words
          /\ Form(c, next)
          /\ UNCHANGED <<op, result>>
       \/ /\ next \in {"ok", "err"}
          /\ Finish(c, next)
       \/ /\ next = "sleep"
          /\ pc' = [pc EXCEPT ![c] = "sleep"]
          /\ UNCHANGED <<op, word, id, answer, result, issued>>
  /\ UNCHANGED <<actor, wire, tor>>

\* The poll of wait_bootstrap.
Poll(c) ==
  /\ pc[c] = "sleep" /\ issued < MaxCommands
  /\ Form(c, First.bootstrap)
  /\ UNCHANGED <<actor, wire, tor, op, result>>

\* c's future is gone, with what it held.
Forget(c) ==
  /\ pc' = [pc EXCEPT ![c] = "idle"]
  /\ op' = [op EXCEPT ![c] = "none"]
  /\ word' = [word EXCEPT ![c] = "SETEVENTS"]
  /\ id' = [id EXCEPT ![c] = 0]
  /\ answer' = [answer EXCEPT ![c] = Nothing]
  /\ result' = [result EXCEPT ![c] = "none"]
  /\ UNCHANGED issued

Return(c) ==
  /\ pc[c] = "returned"
  /\ Forget(c)
  /\ UNCHANGED <<actor, wire, tor>>

\* c no longer listens to its command, which stays where it is.
Deaf(c, cmd) == IF cmd.from = c THEN [id |-> cmd.id, word |-> cmd.word, from |-> None] ELSE cmd
Unheard(c) ==
  /\ channel' = [i \in 1 .. Len(channel) |-> Deaf(c, channel[i])]
  /\ current' = Deaf(c, current)

\* The timeout of wait_bootstrap drops the poll at whichever await it is; an
\* answer that is already there is taken first.
Timeout(c) ==
  /\ pc[c] \in Calling /\ op[c] = "bootstrap"
  /\ pc[c] = "wait" => answer[c] = Nothing
  /\ Unheard(c)
  /\ Finish(c, "err")
  /\ UNCHANGED <<apc, wire, tor>>

\* The caller drops the future.
GiveUp(c) ==
  /\ "giveup" \in Ops /\ pc[c] \in Calling
  /\ Unheard(c)
  /\ Forget(c)
  /\ UNCHANGED <<apc, wire, tor>>

\* The caller drops its clone of the client.
Drop(c) ==
  /\ "drop" \in Ops /\ pc[c] = "idle"
  /\ pc' = [pc EXCEPT ![c] = "gone"]
  /\ UNCHANGED <<actor, wire, tor, op, word, id, answer, result, issued>>

-----------------------------------------------------------------------------
(* The actor.                                                              *)

Recv ==
  /\ apc = "recv" /\ channel # <<>>
  /\ current' = Head(channel) /\ channel' = Tail(channel)
  /\ apc' = "write"
  /\ UNCHANGED <<wire, tor, callers>>

\* Faulty: the actor holds a sender of its own.
NoSenderButOne == FALSE

\* recv returns None when no sender is left: only the clones hold one.
NoSender == \A c \in Callers : pc[c] = "gone"

RecvNone ==
  /\ apc = "recv" /\ channel = <<>> /\ NoSender
  /\ apc' = "end"
  /\ UNCHANGED <<channel, current, wire, tor, callers>>

\* The answer goes to the caller if it still listens.
Respond(a) ==
  answer' = [c \in Callers |-> IF c = current.from THEN a ELSE answer[c]]

\* Faulty: the loop goes on after an error.
BreakNot ==
  /\ Respond(Failure)
  /\ apc' = "recv"
  /\ UNCHANGED <<channel, current, tor, pc, op, word, id, result, issued>>

\* The command fails: its caller is told and the loop is left.
Break ==
  /\ Respond(Failure)
  /\ apc' = "end"
  /\ UNCHANGED <<channel, current, tor, pc, op, word, id, result, issued>>

\* A write into a connection that the other side has closed may still succeed.
Write ==
  /\ apc = "write"
  /\ toTor' = IF conn = "open" THEN Append(toTor, current) ELSE toTor
  /\ apc' = "read"
  /\ UNCHANGED <<channel, current, fromTor, conn, tor, callers>>

WriteFails ==
  /\ apc = "write" /\ conn = "closed"
  /\ Break
  /\ UNCHANGED wire

\* Faulty: the reply is not awaited when its caller has gone.
ReadIfHeard ==
  /\ apc = "read" /\ apc' = "recv"
  /\ \/ /\ current.from # None /\ fromTor # <<>> /\ Head(fromTor).kind # "broken"
        /\ fromTor' = Tail(fromTor)
        /\ Respond(Head(fromTor))
     \/ current.from = None /\ UNCHANGED <<fromTor, answer>>
  /\ UNCHANGED <<channel, current, toTor, conn, tor, pc, op, word, id, result, issued>>

\* read_reply takes whatever reply comes next.
Read ==
  /\ apc = "read" /\ fromTor # <<>> /\ Head(fromTor).kind # "broken"
  /\ fromTor' = Tail(fromTor)
  /\ Respond(Head(fromTor))
  /\ apc' = "recv"
  /\ UNCHANGED <<channel, current, toTor, conn, tor, pc, op, word, id, result, issued>>

\* Faulty: the end of the stream is taken for a reply that is still to come.
ReadFailsNotAtEnd ==
  /\ apc = "read" /\ fromTor # <<>> /\ Head(fromTor).kind = "broken"
  /\ fromTor' = Tail(fromTor)
  /\ Break
  /\ UNCHANGED <<toTor, conn>>

\* The end of the stream, or a reply that does not parse.
ReadFails ==
  /\ apc = "read"
  /\ \/ fromTor # <<>> /\ Head(fromTor).kind = "broken" /\ fromTor' = Tail(fromTor)
     \/ fromTor = <<>> /\ conn = "closed" /\ UNCHANGED fromTor
  /\ Break
  /\ UNCHANGED <<toTor, conn>>

\* The receiver is dropped with the commands in it, whose callers are told.
End ==
  /\ apc = "end"
  /\ apc' = "done"
  /\ channel' = <<>>
  /\ answer' = [c \in Callers |->
                  IF \E i \in 1 .. Len(channel) : channel[i].from = c THEN Failure ELSE answer[c]]
  /\ UNCHANGED <<current, wire, tor, pc, op, word, id, result, issued>>

-----------------------------------------------------------------------------
(* Tor.                                                                    *)

\* Before it has authenticated a connection Tor only takes these.
Public == {"PROTOCOLINFO", "AUTHCHALLENGE", "AUTHENTICATE"}

\* Tor executes the next command it has read (k is "good" or "bad") or refuses
\* it, and answers, perhaps with something that does not parse.
TorReplies(k, r) ==
  /\ conn = "open" /\ toTor # <<>>
  /\ LET cmd == Head(toTor) IN
       /\ k = "bad" => cmd.word \in {"PROTOCOLINFO", "AUTHCHALLENGE", "GETINFO"}
       /\ authed \/ cmd.word \in Public \/ k = "refused"
       /\ r \in {k, "broken"}
       /\ fromTor' = Append(fromTor, [id |-> cmd.id, word |-> cmd.word, kind |-> r])
       /\ executed' = executed \cup {cmd.id}
       /\ authed' = (authed \/ (cmd.word = "AUTHENTICATE" /\ k = "good"))
       /\ owned' = (owned \/ (cmd.word = "TAKEOWNERSHIP" /\ k = "good"))
       /\ pid' = (pid /\ ~(cmd.word = "RESETCONF" /\ k = "good"))
       /\ events' = (events \/ (cmd.word = "SETEVENTS" /\ k = "good"))
  /\ toTor' = Tail(toTor)
  /\ UNCHANGED <<actor, conn, up, callers>>

\* An asynchronous event, a reply with status 650.
TorEvent ==
  /\ conn = "open" /\ events /\ Len(fromTor) < MaxUnread
  /\ fromTor' = Append(fromTor, [id |-> 0, word |-> "SETEVENTS", kind |-> "refused"])
  /\ UNCHANGED <<actor, toTor, conn, tor, callers>>

\* Tor exits or the connection breaks: unread replies may be lost or cut, and a
\* Tor that this connection owns exits with it.
TorCloses ==
  /\ conn = "open"
  /\ conn' = "closed" /\ toTor' = <<>>
  /\ \/ fromTor' \in {fromTor, <<>>}
     \/ toTor # <<>> /\ fromTor' = Append(fromTor, [id |-> 0, word |-> "SETEVENTS", kind |-> "broken"])
  /\ up' \in {FALSE, up /\ ~owned}
  /\ UNCHANGED <<actor, authed, owned, pid, events, executed, callers>>

\* Tor sees the client's side of the connection closed.
TorSeesEnd ==
  /\ conn = "open" /\ apc = "done"
  /\ conn' = "closed"
  /\ up' = (up /\ ~owned)
  /\ UNCHANGED <<actor, toTor, fromTor, authed, owned, pid, events, executed, callers>>

-----------------------------------------------------------------------------

CallerStep(c) == SendFails(c) \/ ReceiveError(c) \/ ReceiveReply(c) \/ Poll(c) \/ Return(c)

ActorStep == Recv \/ RecvNone \/ Write \/ WriteFails \/ Read \/ ReadFails \/ End

TorAnswers == \E k \in {"good", "bad", "refused"}, r \in Kinds : TorReplies(k, r)

Next ==
  \/ \E c \in Callers :
       \/ CallerStep(c) \/ Send(c) \/ Timeout(c) \/ GiveUp(c) \/ Drop(c)
       \/ \E o \in Ops : Call(c, o)
  \/ ActorStep
  \/ TorAnswers \/ TorEvent \/ TorCloses \/ TorSeesEnd

Spec == Init /\ [][Next]_vars

\* Woken futures are polled and the actor is scheduled; the channel's semaphore
\* hands out its places in order, so a send does not wait for ever while places
\* come free; a deadline that has passed stays so at every later poll.  Tor
\* answers what it reads or closes the connection, and sees the client close it.
\* Nobody is obliged to call, to give up or to drop.
Fairness ==
  /\ \A c \in Callers : WF_vars(CallerStep(c)) /\ SF_vars(Send(c)) /\ SF_vars(Timeout(c))
  /\ WF_vars(ActorStep)
  /\ WF_vars(TorAnswers \/ (toTor # <<>> /\ TorCloses)) /\ WF_vars(TorSeesEnd)

FairSpec == Spec /\ Fairness

-----------------------------------------------------------------------------
(* Properties.                                                             *)

Given(c) == pc[c] = "wait" /\ answer[c] \notin {Nothing, Failure}

\* `command' returns its reply: what a caller holds was sent by Tor for the command
\* it waits for, never for one that was given up or timed out before.
RepliesOwn == \A c \in Callers : Given(c) => answer[c].id = id[c]

\* It is so as long as nobody has asked Tor for asynchronous events.
OwnReply == ~events => RepliesOwn

\* At every moment of the handshake something ends Tor with its user: the owning
\* process id of its configuration is cleared only once the connection owns it,
\* whatever fails, is given up or runs twice.
NeverOrphaned == ~events => (up => pid \/ owned)

\* authenticate_and_take_ownership returns Ok only if Tor was authenticated to, is
\* owned and has forgotten the process id, and then it ends with the connection.
TakenWhenOk ==
  \A c \in Callers :
    pc[c] = "returned" /\ op[c] = "own" /\ result[c] = "ok" /\ ~events
    => authed /\ owned /\ ~pid /\ (conn = "closed" => ~up)

\* Every call returns, if Tor answers or closes: when commands are refused, the
\* connection ends or the channel is dropped with commands in it.
CallsReturn == \A c \in Callers : pc[c] \in Calling ~> pc[c] \notin Calling

\* When the last clone is dropped the connection ends (and with it a Tor it owns),
\* calls given up and replies still to come notwithstanding.
ConnectionEnds == (\A c \in Callers : pc[c] = "gone") ~> conn = "closed"

\* The command c waits for, and what it holds, as ControlService sees them.
Asked(c) == IF pc[c] \in {"send", "wait"} THEN id[c] ELSE 0
Holds(c) ==
  IF pc[c] # "wait" \/ answer[c] = Nothing THEN "nothing"
  ELSE IF answer[c] = Failure THEN "error"
  ELSE IF answer[c].id = id[c] THEN "own" ELSE "other"

\* The client implements what it promises: serialized commands, each call answered
\* with its own reply or an error, and no success after the first error.
Service == INSTANCE ControlService WITH
  last  <- issued,
  asked <- [c \in Callers |-> Asked(c)],
  given <- [c \in Callers |-> Holds(c)],
  open  <- apc \notin {"end", "done"}
ServiceSpec == Service!Spec
=============================================================================
