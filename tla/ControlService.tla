--------------------------- MODULE ControlService ---------------------------
(***************************************************************************)
(* What a ControlClient (tor/controller/client.rs) promises to the tasks   *)
(* that share it: commands are serialized, each call gets the reply to its *)
(* own command or an error, and after the first error no call succeeds.    *)
(*                                                                         *)
(* Commands are numbered in the order in which they are formed.            *)
(***************************************************************************)
EXTENDS Naturals

CONSTANTS Callers

VARIABLES last,      \* how many commands were formed
          asked,     \* asked[c]: the command c waits for, 0 for none
          given,     \* given[c]: what c holds: "nothing", its "own" reply, an "other", an "error"
          executed,  \* the commands Tor executed
          events,    \* Tor was asked for asynchronous events: no promise is left
          open       \* no error has been met

vars == <<last, asked, given, executed, events, open>>

Init ==
  /\ last = 0 /\ executed = {} /\ events = FALSE /\ open = TRUE
  /\ asked = [c \in Callers |-> 0]
  /\ given = [c \in Callers |-> "nothing"]

\* A call forms its command, or its next one when it holds the last one's reply.
Ask(c) ==
  /\ asked[c] = 0 \/ given[c] \in {"own", "other"}
  /\ last' = last + 1
  /\ asked' = [asked EXCEPT ![c] = last + 1]
  /\ given' = [given EXCEPT ![c] = "nothing"]
  /\ UNCHANGED <<executed, events, open>>

\* Tor executes a command, whether or not its caller still waits.
Execute(n) ==
  /\ executed' = executed \cup {n}
  /\ events' \in {events, TRUE}
  /\ UNCHANGED <<last, asked, given, open>>

\* A caller is given the reply to its own command, which Tor has executed; once
\* events are on it may be given anything.
Give(c) ==
  /\ open /\ asked[c] # 0 /\ given[c] = "nothing"
  /\ \/ asked[c] \in executed /\ given' = [given EXCEPT ![c] = "own"]
     \/ events /\ given' = [given EXCEPT ![c] = "other"]
  /\ UNCHANGED <<last, asked, executed, events, open>>

\* The callers in C, which wait, are told of an error.
Error(C) ==
  /\ \A c \in C : asked[c] # 0 /\ given[c] = "nothing"
  /\ given' = [c \in Callers |-> IF c \in C THEN "error" ELSE given[c]]

\* The first error, told to the caller it concerns; the last success is past.
Fail ==
  /\ open /\ open' = FALSE
  /\ (\E c \in Callers : Error({c})) \/ UNCHANGED given
  /\ UNCHANGED <<last, asked, executed, events>>

\* The calls that were waiting behind it.
Lose ==
  /\ ~open
  /\ \E C \in SUBSET Callers : Error(C)
  /\ UNCHANGED <<last, asked, executed, events, open>>

\* A call returns, with its reply or with an error, or is given up.
Leave(c) ==
  /\ asked[c] # 0
  /\ asked' = [asked EXCEPT ![c] = 0]
  /\ given' = [given EXCEPT ![c] = "nothing"]
  /\ UNCHANGED <<last, executed, events, open>>

Next ==
  \/ \E c \in Callers : Ask(c) \/ Give(c) \/ Leave(c)
  \/ \E n \in 1 .. last : Execute(n)
  \/ Fail \/ Lose

Spec == Init /\ [][Next]_vars
=============================================================================
