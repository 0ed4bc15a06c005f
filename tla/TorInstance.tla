----------------------------- MODULE TorInstance -----------------------------
(***************************************************************************)
(* TorInstance (tor/instance/lifecycle.rs): start, which prepares the root *)
(* directory, detects Tor's version, verifies the configuration, spawns    *)
(* Tor and brings it up over its control port, and the life of the         *)
(* instance until it is shut down or dropped.  Runs follow one another on  *)
(* one root directory; the program may die and be started again.  At the   *)
(* low level (level = "process") a caller spawns a TorProcess by itself.   *)
(***************************************************************************)
EXTENDS TorProcess

VARIABLES
  blocking,  \* blocking[n]: where the verification of run n is in its blocking task
  addr,      \* the run whose control port was read
  late       \* the runs whose start was dropped while its verification went on

instance == <<blocking, addr, late>>
vars == <<given, child, files, conn, orphans, process, instance>>

TypeOK ==
  /\ ChildTypeOK /\ ProcessTypeOK
  /\ blocking \in [Runs -> {"none", "write", "rename", "run", "ok", "failed"}]
  /\ addr \in Runs \cup {Stale}
  /\ late \in SUBSET Runs

Init ==
  /\ ChildInit /\ ProcessInit
  /\ blocking = [n \in Runs |-> "none"] /\ addr = Stale /\ late = {}

\* Where a spawn returns to.
Spawned == IF level = "instance" THEN "port" ELSE "up"

-----------------------------------------------------------------------------
(* start, up to the spawn.                                                 *)

\* InstanceLayout::prepare and build_runtime_config, or their failure, the control port
\* file removed or not.
Begin ==
  /\ pc = "idle" /\ cur < MaxRuns
  /\ cur' = cur + 1
  /\ \/ /\ state' = [state EXCEPT ![cur + 1] = "starting"]
        /\ IF level = "instance" THEN NoPortFile /\ Goto("version")
                                 ELSE Goto("spawn") /\ UNCHANGED portFile
     \/ /\ level = "instance"
        /\ state' = [state EXCEPT ![cur + 1] = "failed"]
        /\ UNCHANGED pc /\ (NoPortFile \/ UNCHANGED portFile)
  /\ UNCHANGED <<given, child, torrc, conn, orphans, why, instance>>

StartFails ==
  /\ Failed
  /\ UNCHANGED <<given, addr, late>>

\* detect_tor_version runs a child to its end and parses what it prints.
VersionDetected ==
  /\ pc = "version"
  /\ \/ /\ Goto("verify")
        /\ blocking' = [blocking EXCEPT ![cur] = IF source = "file" THEN "write" ELSE "run"]
        /\ UNCHANGED <<given, child, files, conn, orphans, cur, why, state,
                       addr, late>>
     \/ StartFails /\ UNCHANGED blocking

\* The outcome of the task, which nobody learns when its start was dropped.
Told(n, outcome) == IF n \in late THEN "none" ELSE outcome

\* verify_config_source_with, in a thread of its own that nothing cancels.
BlockingStep(n) ==
  /\ blocking[n] \in {"write", "rename", "run"}
  /\ \/ /\ blocking[n] = "write" /\ OpenTemp(n)
        /\ blocking' = [blocking EXCEPT ![n] = "rename"]
     \/ /\ blocking[n] = "rename" /\ Install(n)
        /\ blocking' = [blocking EXCEPT ![n] = "run"]
     \/ /\ blocking[n] = "run" /\ UNCHANGED torrc
        /\ blocking' = [blocking EXCEPT ![n] = Told(n, "ok")]
     \/ /\ UNCHANGED torrc
        /\ blocking' = [blocking EXCEPT ![n] = Told(n, "failed")]
  /\ UNCHANGED <<given, child, portFile, conn, orphans, process, addr, late>>

Verified ==
  /\ pc = "verify" /\ blocking[cur] \in {"ok", "failed"}
  /\ \/ /\ blocking[cur] = "ok" /\ Goto("spawn")
        /\ UNCHANGED <<given, child, files, conn, orphans, cur, why, state,
                       addr, late>>
     \/ blocking[cur] = "failed" /\ StartFails
  /\ blocking' = [blocking EXCEPT ![cur] = "none"]

SpawnStep ==
  /\ \/ SpawnCleans \/ SpawnWrites \/ SpawnRenames
     \/ Exec(Spawned) \/ StdinWritten(Spawned) \/ StdinFails
  /\ UNCHANGED instance

-----------------------------------------------------------------------------
(* finish_startup.                                                         *)

Advance(p) ==
  /\ Goto(p)
  /\ UNCHANGED <<given, child, files, orphans, cur, why, blocking, late>>

\* wait_control_port_file, until the file holds an endpoint: an empty one is polled again,
\* any other text is an error.
PortRead ==
  /\ pc = "port" /\ portFile.text = "whole"
  /\ addr' = portFile.of /\ Advance("connect")
  /\ UNCHANGED <<conn, state>>

\* Someone listens there: Tor, or whoever has a port that is no longer Tor's.
Listens(n) == n = Stale \/ Running(n)

Connect ==
  /\ pc = "connect" /\ Listens(addr)
  /\ conn' = addr /\ addr' = Stale /\ Advance("auth")
  /\ UNCHANGED state

\* authenticate_and_take_ownership: the connection owns Tor, its process id no more.
Authenticate ==
  /\ pc = "auth" /\ Listens(conn)
  /\ owner' = [n \in Runs |-> IF n = conn THEN "connection" ELSE owner[n]]
  /\ Goto("boot")
  /\ UNCHANGED <<given, tor, fed, conf, plugin, published, out, files, conn, orphans,
                 cur, why, state, instance>>

Bootstrap ==
  /\ pc = "boot" /\ Listens(conn)
  /\ Advance("socks")
  /\ UNCHANGED <<conn, addr, state>>

SocksListener ==
  /\ pc = "socks" /\ Listens(conn)
  /\ Becomes("ok") /\ Advance("up")
  /\ UNCHANGED <<conn, addr>>

\* A step fails or its time is up: an endpoint that does not parse, no endpoint in
\* time, a connection refused or lost, a command refused, no bootstrap in time, not one
\* listener.  The controller goes, and the process is shut down.
StartupFails ==
  /\ pc \in {"port", "connect", "auth", "boot", "socks"}
  /\ conn' = NoConn /\ addr' = Stale /\ why' = "err" /\ Goto("stop")
  /\ UNCHANGED <<given, child, files, orphans, cur, state, blocking, late>>

StopStep ==
  /\ StopAsks \/ StopTimeout \/ ChildReaped \/ OutputEnds \/ OutputDrained
  /\ UNCHANGED instance

-----------------------------------------------------------------------------
(* Drops and the death of the program.                                     *)

\* The caller drops the future of a start.
StartDropped ==
  /\ \/ /\ pc \in {"version", "verify", "port", "connect", "auth", "boot", "socks"}
        /\ Release /\ Becomes("left") /\ Goto("idle") /\ why' = "none"
        /\ late' = IF pc = "verify" /\ blocking[cur] \notin {"ok", "failed"}
                    THEN late \cup {cur} ELSE late
        /\ addr' = Stale
        /\ UNCHANGED <<given, conf, owner, plugin, published, files, orphans, cur>>
     \/ SpawnDropped /\ UNCHANGED <<late, addr>>
  /\ UNCHANGED blocking

\* What nothing obliges to happen: calls, drops and errors of the system.
OtherStep ==
  /\ \/ Shutdown \/ Drop \/ CallDropped
     \/ level = "process" /\ (Wait \/ TryWait \/ StartKill)
     \/ StopFails \/ OutputFailed
  /\ UNCHANGED instance

\* Everything of the program is gone but its children and its files.
Crash ==
  /\ pc # "dead"
  /\ Goto("dead") /\ why' = "none"
  /\ conn' = NoConn /\ orphans' = {n \in Runs : n <= cur}
  /\ state' = [n \in Runs |-> IF state[n] \in {"starting", "ok"} THEN "lost" ELSE state[n]]
  /\ fed' = [n \in Runs |-> IF fed[n] = "open" THEN "closed" ELSE fed[n]]
  /\ out' = [n \in Runs |-> [s \in Streams |->
                 IF out[n][s] \in {"held", "awaited"} THEN "aborted" ELSE out[n][s]]]
  /\ blocking' = [n \in Runs |-> "none"] /\ addr' = Stale
  /\ UNCHANGED <<given, tor, conf, owner, plugin, published, files, cur,
                 late>>

Restart ==
  /\ pc = "dead" /\ Goto("idle")
  /\ UNCHANGED <<given, child, files, conn, orphans, cur, why, state, instance>>

-----------------------------------------------------------------------------

\* The steps of a call that the runtime, a child or a deadline brings about.
CallStep ==
  \/ VersionDetected \/ Verified \/ SpawnStep
  \/ PortRead \/ Connect \/ Authenticate \/ Bootstrap \/ SocksListener \/ StartupFails
  \/ StopStep

Child(n) == ChildStep(n) /\ UNCHANGED <<process, instance>>

Next ==
  \/ Begin \/ CallStep \/ StartDropped \/ OtherStep \/ Crash \/ Restart
  \/ \E n \in Runs : BlockingStep(n) \/ Child(n)

Spec == Init /\ [][Next]_vars

\* A call proceeds: its futures are polled, the deadlines pass, the children that
\* report the version and verify the configuration end, and a Tor that is asked answers
\* or closes the connection.  Tor ends when its owner is gone and its plugins end with
\* it.  Nobody is obliged to call, to drop, or to exit on SIGTERM.
Fairness ==
  /\ WF_vars(CallStep)
  /\ \A n \in Runs :
       /\ WF_vars(BlockingStep(n))
       /\ WF_vars(OwnerGone(n) /\ Exits(n) /\ UNCHANGED <<process, instance>>)
       /\ WF_vars(PluginExits(n) /\ UNCHANGED <<process, instance>>)

FairSpec == Spec /\ Fairness

-----------------------------------------------------------------------------
(* Properties.                                                             *)

\* A start that failed or was dropped at any await, and a dropped instance, leave no
\* Tor running; shutdown returns Ok when Tor is gone; nothing but the death of the
\* program leaves one behind.
Promise == INSTANCE TorRuns WITH live <- {n \in Runs : Running(n)}
PromiseKept == Promise!Spec

\* An instance is connected to the Tor it spawned, and owns it: never to what listens
\* at the port of an earlier run, except to a Tor that a dead program has left.
OwnTor ==
  pc = "up" /\ level = "instance" /\ state[cur] = "ok"
  => /\ conn = cur \/ conn \in orphans
     /\ owner[conn] = "connection"

\* Tor runs with the whole configuration of its own start, whatever else writes the
\* file or dies while writing it; but a verification that outlives its dropped start
\* may still replace the file, and a program that dies before Tor has read leaves it
\* with its defaults or with the file of the next program.
OwnConfig ==
  \A n \in Runs :
    \/ conf[n] \in {Unread, n}
    \/ source = "file" /\ conf[n] \in late
    \/ state[n] = "lost" /\ (IF source = "stdin" THEN conf[n] = Default ELSE conf[n] > n)

\* When shutdown has returned Ok the child was waited for and each of its two streams
\* was read to its end, or until a read failed, but for one whose task an earlier call
\* had taken when it was dropped.
Drained ==
  \A n \in Runs :
    state[n] = "stopped" =>
      tor[n] = "gone" /\ \A s \in Streams : out[n][s] \in {"ended", "detached"}

\* Every start returns: from a Tor that exits, ignores SIGTERM, writes no port or
\* leaves its output to a plugin.
StartReturns == \A n \in Runs : state[n] = "starting" ~> state[n] # "starting"

\* So does every shutdown.
ShutdownReturns == why = "stop" ~> why # "stop"

\* A Tor left by a program that died ends too, once it has read its configuration,
\* unless a new program has connected to it and owns it.
OrphansEnd ==
  \A n \in Runs : level = "instance" /\ conf[n] \in orphans ~> ~Running(n) \/ conn = n
=============================================================================
