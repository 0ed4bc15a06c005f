----------------------------- MODULE TorProcess -----------------------------
(***************************************************************************)
(* TorProcess (tor/process.rs): the handle of one child at a time, its     *)
(* spawn with the configuration on standard input or in a file, its        *)
(* graceful stop that falls back to a kill, the wait for it, and the drop  *)
(* of the handle or of a call at one of its awaits.                        *)
(***************************************************************************)
EXTENDS TorChild

VARIABLES
  pc,     \* where the program is
  cur,    \* the run it is in, 0 before the first
  why,    \* the call that stops or waits: "err" of a start, "spawn", "stop", "wait"
  state   \* state[n]: what became of the n-th start

process == <<pc, cur, why, state>>

\* The awaits of a stop, of a wait or of a failing start.
Stopping == {"stop", "term", "kill", "await", "drain", "drained"}

ProcessTypeOK ==
  /\ pc \in {"idle", "version", "verify", "spawn", "write", "rename", "exec", "stdin",
             "port", "connect", "auth", "boot", "socks", "up", "dead"} \cup Stopping
  /\ cur \in 0 .. MaxRuns
  /\ why \in {"none", "err", "spawn", "stop", "wait"}
  /\ state \in [Runs -> {"unused", "starting", "ok", "failed", "left", "stopped", "lost"}]

ProcessInit ==
  /\ pc = "idle" /\ cur = 0 /\ why = "none"
  /\ state = [n \in Runs |-> "unused"]

Goto(p) == pc' = p
Becomes(s) == state' = [state EXCEPT ![cur] = s]

\* A SIGKILL ends Tor at once, to be waited for.
Killed == [tor EXCEPT ![cur] = IF @ = "running" THEN "exited" ELSE @]

-----------------------------------------------------------------------------
(* The end of the handle.                                                  *)

\* The call goes, and with it the handle it has taken: that task reads on.
Detached(tasks) == [s \in Streams |-> IF tasks[s] = "awaited" THEN "detached" ELSE tasks[s]]

\* The process goes as well, and aborts the tasks whose handles it still holds.
LetGo(tasks) ==
  [s \in Streams |-> IF tasks[s] = "held" THEN "aborted" ELSE Detached(tasks)[s]]

\* Faulty: the child is left to itself.
ReleaseAlive ==
  /\ out' = [out EXCEPT ![cur] = LetGo(@)]
  /\ fed' = [fed EXCEPT ![cur] = IF @ = "open" THEN "closed" ELSE @]
  /\ conn' = NoConn
  /\ UNCHANGED tor

\* Drop: the child is killed, the tasks are aborted, the pipes and the connection
\* that the owner of the process holds are closed.
Release ==
  /\ tor' = Killed
  /\ out' = [out EXCEPT ![cur] = LetGo(@)]
  /\ fed' = [fed EXCEPT ![cur] = IF @ = "open" THEN "closed" ELSE @]
  /\ conn' = NoConn

\* A start returns an error, and drops what it holds.
Failed ==
  /\ Release /\ Becomes("failed") /\ Goto("idle") /\ why' = "none"
  /\ UNCHANGED <<conf, owner, plugin, published, files, orphans, cur>>

-----------------------------------------------------------------------------
(* spawn.                                                                  *)

\* Faulty: the file of an earlier run stays.
NoPortFileYet == UNCHANGED portFile

\* remove_file, for which NotFound is no error.
NoPortFile == portFile' = Text("none", Stale)

\* Faulty: the destination is opened and truncated.
OpenInPlace(n) == torrc' = Text("part", n)

\* create_private_file and write_all, which leave the destination alone.
OpenTemp(n) == UNCHANGED torrc

\* Faulty: an existing file is kept.
InstallNew(n) == torrc' = IF torrc.text = "none" THEN Text("whole", n) ELSE torrc

\* rename, after sync_all.
Install(n) == torrc' = Text("whole", n)

SpawnCleans ==
  /\ pc = "spawn"
  /\ \/ /\ NoPortFile /\ Goto(IF source = "file" THEN "write" ELSE "exec")
        /\ UNCHANGED <<child, torrc, conn, orphans, cur, why, state>>
     \/ Failed
  /\ UNCHANGED given

SpawnWrites ==
  /\ pc = "write"
  /\ \/ /\ OpenTemp(cur) /\ Goto("rename")
        /\ UNCHANGED <<child, portFile, conn, orphans, cur, why, state>>
     \/ Failed
  /\ UNCHANGED given

SpawnRenames ==
  /\ pc = "rename"
  /\ \/ /\ Install(cur) /\ Goto("exec")
        /\ UNCHANGED <<child, portFile, conn, orphans, cur, why, state>>
     \/ Failed
  /\ UNCHANGED given

\* What follows a spawn: `next' is the caller's place.
Exec(next) ==
  /\ pc = "exec"
  /\ \/ /\ tor' = [tor EXCEPT ![cur] = "running"]
        /\ fed' = [fed EXCEPT ![cur] = IF source = "stdin" THEN "open" ELSE "null"]
        /\ out' = [out EXCEPT ![cur] = [s \in Streams |-> "held"]]
        /\ Goto(IF source = "stdin" THEN "stdin" ELSE next)
        /\ IF source = "file" /\ next = "up" THEN Becomes("ok") ELSE UNCHANGED state
        /\ UNCHANGED <<conf, owner, plugin, published, files, conn, orphans, cur, why>>
     \/ Failed
  /\ UNCHANGED given

\* write_config_to_stdin; a child that has exited may make it fail.
StdinWritten(next) ==
  /\ pc = "stdin"
  /\ fed' = [fed EXCEPT ![cur] = "fed"]
  /\ Goto(next)
  /\ IF next = "up" THEN Becomes("ok") ELSE UNCHANGED state
  /\ UNCHANGED <<given, tor, conf, owner, plugin, published, out, files, conn, orphans,
                 cur, why>>

StdinFails ==
  /\ pc = "stdin"
  /\ fed' = [fed EXCEPT ![cur] = "closed"]
  /\ tor' = Killed /\ why' = "spawn" /\ Goto("kill")
  /\ UNCHANGED <<given, conf, owner, plugin, published, out, files, conn, orphans,
                 cur, state>>

-----------------------------------------------------------------------------
(* shutdown, wait and start_kill.                                          *)

Call(w, p) ==
  /\ pc = "up" /\ why' = w /\ Goto(p)
  /\ UNCHANGED <<given, child, files, conn, orphans, cur, state>>

Shutdown == Call("stop", "stop")
Wait     == Call("wait", "await")

StartKill ==
  /\ pc = "up" /\ tor' = Killed /\ tor' # tor
  /\ UNCHANGED <<given, fed, conf, owner, plugin, published, out, files, conn, orphans, process>>

\* try_wait waits for a child that has exited.
TryWait ==
  /\ pc = "up" /\ tor[cur] = "exited"
  /\ tor' = [tor EXCEPT ![cur] = "gone"]
  /\ UNCHANGED <<given, fed, conf, owner, plugin, published, out, files, conn, orphans, process>>

\* What a call gives back: an instance that lives on, or the error of a start.
Returned(s) ==
  IF why \in {"err", "spawn"} THEN Failed
  ELSE /\ Goto("up") /\ why' = "none"
       /\ IF why = "stop" /\ state[cur] = "ok" THEN Becomes(s) ELSE UNCHANGED state
       /\ UNCHANGED <<child, files, conn, orphans, cur>>

\* try_wait, then SIGTERM to a child that has not exited.
StopAsks ==
  /\ pc = "stop" /\ Goto("term")
  /\ UNCHANGED <<given, child, files, conn, orphans, cur, why, state>>

\* An io error of try_wait, of a signal or of a wait is returned, and the child may still
\* run; a spawn that failed ignores it.
StopFails ==
  /\ pc \in {"stop", "term", "kill", "await"} /\ why # "spawn"
  /\ Returned("ok")
  /\ UNCHANGED given

\* Faulty: after the timeout the child is waited for without a kill.
StopTimeoutSpares ==
  /\ pc = "term" /\ Running(cur) /\ Goto("kill")
  /\ UNCHANGED <<given, child, files, conn, orphans, cur, why, state>>

\* SHUTDOWN_TIMEOUT has passed.
StopTimeout ==
  /\ pc = "term" /\ Running(cur)
  /\ tor' = Killed /\ Goto("kill")
  /\ UNCHANGED <<given, fed, conf, owner, plugin, published, out, files, conn, orphans,
                 cur, why, state>>

\* finish_output_tasks goes on: it takes the handle of the next stream, if it is still
\* there, and awaits the task.
Finish(tasks) ==
  \/ /\ tasks["stdout"] = "held" /\ Goto("drain")
     /\ out' = [out EXCEPT ![cur] = [tasks EXCEPT !["stdout"] = "awaited"]]
  \/ /\ tasks["stdout"] # "held" /\ tasks["stderr"] = "held" /\ Goto("drain")
     /\ out' = [out EXCEPT ![cur] = [tasks EXCEPT !["stderr"] = "awaited"]]
  \/ /\ \A s \in Streams : tasks[s] # "held"
     /\ out' = [out EXCEPT ![cur] = tasks] /\ Goto("drained")

\* Faulty: the output tasks are not waited for.
ChildReapedOnly ==
  /\ pc \in {"term", "kill", "await"} /\ ~Running(cur)
  /\ tor' = [tor EXCEPT ![cur] = "gone"]
  /\ Goto("drained")
  /\ UNCHANGED <<given, fed, conf, owner, plugin, published, out, files, conn, orphans,
                 cur, why, state>>

\* child.wait returns.
ChildReaped ==
  /\ pc \in {"term", "kill", "await"} /\ ~Running(cur)
  /\ tor' = [tor EXCEPT ![cur] = "gone"]
  /\ Finish(out[cur])
  /\ UNCHANGED <<given, fed, conf, owner, plugin, published, files, conn, orphans,
                 cur, why, state>>

\* The task that is awaited has ended.
TaskEnds ==
  /\ Finish([s \in Streams |-> IF out[cur][s] = "awaited" THEN "ended" ELSE out[cur][s]])
  /\ UNCHANGED <<given, tor, fed, conf, owner, plugin, published, files, conn, orphans,
                 cur, why, state>>

\* It came to the end of its stream, or its last read failed.
OutputEnds   == pc = "drain" /\ PipesClosed(cur) /\ TaskEnds
OutputFailed == pc = "drain" /\ TaskEnds

OutputDrained ==
  /\ pc = "drained"
  /\ Returned("stopped")
  /\ UNCHANGED given

-----------------------------------------------------------------------------
(* Drops.                                                                  *)

\* The process, or the instance that owns it, is dropped.
Drop ==
  /\ pc = "up" /\ Release /\ Goto("idle")
  /\ IF state[cur] = "ok" THEN Becomes("left") ELSE UNCHANGED state
  /\ UNCHANGED <<given, conf, owner, plugin, published, files, orphans, cur, why>>

\* The future of a shutdown or of a wait is dropped: the process stays.
CallDropped ==
  /\ pc \in Stopping \ {"stop", "drained"} /\ why \in {"stop", "wait"}
  /\ Goto("up") /\ why' = "none"
  /\ out' = [out EXCEPT ![cur] = Detached(@)]
  /\ UNCHANGED <<given, tor, fed, conf, owner, plugin, published, files, conn, orphans,
                 cur, state>>

\* The future of a spawn is dropped at one of its awaits.
SpawnDropped ==
  /\ pc = "stdin" \/ (pc \in {"term", "kill", "drain"} /\ why \in {"err", "spawn"})
  /\ Release /\ Becomes("left") /\ Goto("idle") /\ why' = "none"
  /\ UNCHANGED <<given, conf, owner, plugin, published, files, orphans, cur>>
=============================================================================
