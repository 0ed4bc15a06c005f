------------------------------- MODULE TorRuns -------------------------------
(***************************************************************************)
(* What starting and stopping Tor promises to the pool and to users of the *)
(* low level API (tor/instance/lifecycle.rs, tor/process.rs): a start ends *)
(* with a Tor that was launched for it or with none, a call or an instance *)
(* that is dropped leaves no Tor behind, a stop returns when Tor is gone,  *)
(* and only the death of the program itself may leave one running.         *)
(***************************************************************************)
EXTENDS Naturals

CONSTANTS Runs

VARIABLES
  state,   \* state[n]: what became of the n-th start
  live     \* the runs whose Tor is running

vars == <<state, live>>

Init == state = [n \in Runs |-> "unused"] /\ live = {}

Becomes(n, s) == state' = [state EXCEPT ![n] = s]

\* One start or instance at a time, on one root directory.
Begin(n) ==
  /\ \A m \in Runs : state[m] \notin {"starting", "ok"}
  /\ state[n] = "unused" /\ Becomes(n, "starting")
  /\ UNCHANGED live

\* Tor is spawned; the start may be over with it.
Launch(n) ==
  /\ state[n] = "starting" /\ live' = live \cup {n}
  /\ UNCHANGED state \/ Becomes(n, "ok")

Succeed(n) == state[n] = "starting" /\ Becomes(n, "ok") /\ UNCHANGED live

\* The error is returned when no Tor of this start is left.
Fail(n) ==
  /\ state[n] \in {"unused", "starting"} /\ Becomes(n, "failed")
  /\ live' = live \ {n}

\* The future of the start, or the instance, is dropped.
Leave(n) == state[n] \in {"starting", "ok"} /\ Becomes(n, "left") /\ live' = live \ {n}

\* A stop returns Ok.
Stop(n) == state[n] = "ok" /\ n \notin live /\ Becomes(n, "stopped") /\ UNCHANGED live

\* Tor exits, because it was asked to, it was killed or by itself.
Die(n) == live' = live \ {n} /\ UNCHANGED state

\* The program dies.
Crash(n) == state[n] \in {"starting", "ok"} /\ Becomes(n, "lost") /\ UNCHANGED live

Next ==
  \E n \in Runs : Begin(n) \/ Launch(n) \/ Succeed(n) \/ Fail(n) \/ Leave(n) \/ Stop(n)
                  \/ Die(n) \/ Crash(n)

Spec == Init /\ [][Next]_vars
=============================================================================
