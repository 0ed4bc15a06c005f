----------------------------- MODULE PoolService -----------------------------
(***************************************************************************)
(* What a pool promises to the tasks that share it: it is a server that    *)
(* does what its callers ask one call after the other, each call once and  *)
(* as a whole, and answers each by what became of it.                      *)
(*                                                                         *)
(* A rotation takes effect at one point between the question and the       *)
(* answer.  A restart stops Tor, starts it and renews every lane on the    *)
(* new run, and nothing else is done meanwhile.  A shutdown leaves no Tor. *)
(***************************************************************************)
EXTENDS Naturals

CONSTANTS Clients, Lanes, None

VARIABLES
  given,   \* the generation of each lane: its endpoint
  run,     \* the run of Tor that is up, 0 when none is
  runs,    \* how many runs there have been
  todo,    \* the lanes that a restart has yet to renew
  status,  \* "open", "stopped" once Tor is down for good, "closed" when nobody is served
  call     \* of each client: what it asked for, and what has become of it

vars == <<given, run, runs, todo, status, call>>

NoCall == [op |-> "none", lane |-> None, at |-> "none"]

Init ==
  /\ given = [l \in Lanes |-> [lane |-> l, epoch |-> 1, run |-> 1]]
  /\ run = 1 /\ runs = 1 /\ todo = {} /\ status = "open"
  /\ call = [c \in Clients |-> NoCall]

\* Everybody else's call stays where it is.
Becomes(c, at) == call' = [call EXCEPT ![c].at = at]

\* The call of this kind that is being worked on ends so, if its caller is still there.
Ends(op, at) ==
  call' = [c \in Clients |-> IF call[c].op = op /\ call[c].at = "working"
                             THEN [call[c] EXCEPT !.at = at] ELSE call[c]]

\* The next generation of the lanes in S, on the run that was started last.
Renewed(S) ==
  given' = [l \in Lanes |-> IF l \in S THEN [lane |-> l, epoch |-> given[l].epoch + 1, run |-> runs]
                                        ELSE given[l]]

\* A client calls.
Ask(c, op, lane) ==
  /\ call[c] = NoCall /\ status # "closed"
  /\ op \in {"rotate", "restart", "shutdown"}
  /\ call' = [call EXCEPT ![c] = [op |-> op, lane |-> lane, at |-> "asked"]]
  /\ UNCHANGED <<given, run, runs, todo, status>>

\* A call returns its answer, or is given up.
Leave(c) ==
  /\ call' = [call EXCEPT ![c] = NoCall]
  /\ UNCHANGED <<given, run, runs, todo, status>>

\* Between two calls that it works on.
Free == status = "open" /\ todo = {} /\ \A c \in Clients : call[c].at # "working"

\* A rotation that c asked for is done, or has failed and changed nothing.
Rotate(c, ok) ==
  /\ Free /\ call[c].op = "rotate" /\ call[c].at = "asked"
  /\ Renewed(IF ok THEN {call[c].lane} ELSE {})
  /\ Becomes(c, IF ok THEN "Ok" ELSE "Err")
  /\ UNCHANGED <<run, runs, todo, status>>

\* Rotations that are due, or whose caller has given up.
Expire(S) ==
  /\ Free /\ Renewed(S)
  /\ UNCHANGED <<run, runs, todo, status, call>>

\* A restart or the shutdown is taken up.
Begin(c) ==
  /\ Free /\ call[c].op \in {"restart", "shutdown"} /\ call[c].at = "asked"
  /\ Becomes(c, "working")
  /\ UNCHANGED <<given, run, runs, todo, status>>

\* A restart stops Tor; it fails, if it does, here or at the start, and leaves no Tor.
Down(fails) ==
  /\ status = "open" /\ todo = {}
  /\ run' = 0
  /\ IF fails THEN Ends("restart", "Err") ELSE UNCHANGED call
  /\ UNCHANGED <<given, runs, todo, status>>

\* A restart starts Tor: now every lane is to be renewed.
Up ==
  /\ status = "open" /\ run = 0 /\ todo = {}
  /\ runs' = runs + 1 /\ run' = runs + 1 /\ todo' = Lanes
  /\ UNCHANGED <<given, status, call>>

\* The next lane is renewed, or has failed; after the last the restart has succeeded.
Renew(l, ok) ==
  /\ l \in todo /\ todo' = todo \ {l}
  /\ Renewed(IF ok THEN {l} ELSE {})
  /\ IF todo = {l} THEN Ends("restart", "Ok") ELSE UNCHANGED call
  /\ UNCHANGED <<run, runs, status>>

\* Tor is down for good, which is what a shutdown waits for; no more rotations.
Stop(ok) ==
  /\ status = "open" /\ todo = {}
  /\ status' = "stopped" /\ run' = 0
  /\ Ends("shutdown", IF ok THEN "Ok" ELSE "Err")
  /\ UNCHANGED <<given, runs, todo>>

\* Whoever is still waiting is told that the pool is closed.
Close ==
  /\ status = "stopped" /\ status' = "closed"
  /\ call' = [c \in Clients |-> IF call[c].at = "asked" THEN [call[c] EXCEPT !.at = "Closed"]
                                                        ELSE call[c]]
  /\ UNCHANGED <<given, run, runs, todo>>

ClientNext(c) == Leave(c) \/ \E op \in {"rotate", "restart", "shutdown"}, l \in Lanes \cup {None} :
                               Ask(c, op, l)

ServerNext ==
  \/ \E c \in Clients : Begin(c) \/ \E ok \in BOOLEAN : Rotate(c, ok)
  \/ \E S \in SUBSET Lanes : Expire(S)
  \/ Up \/ Close
  \/ \E ok \in BOOLEAN : Down(ok) \/ Stop(ok) \/ \E l \in Lanes : Renew(l, ok)

Next == (\E c \in Clients : ClientNext(c)) \/ ServerNext

Spec == Init /\ [][Next]_vars
=============================================================================
