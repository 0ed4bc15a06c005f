-------------------------- MODULE TorInstanceProofs --------------------------
(***************************************************************************)
(* What holds of every number of runs of TorInstance: its types, what a    *)
(* stop has waited for, which Tor an instance talks to, which configuration*)
(* a Tor has read, and that it keeps the promise of TorRuns.               *)
(***************************************************************************)
EXTENDS TorInstance, TLAPS

-----------------------------------------------------------------------------
(* The inductive invariant.                                                *)

\* The places of a start before it has spawned Tor, and after.
Before == {"version", "verify", "spawn", "write", "rename", "exec"}
Raised == {"stdin", "port", "connect", "auth", "boot", "socks"}

\* An instance lives, and a call of its user may be stopping or waiting for it.
Used == pc = "up" \/ (pc \in Stopping /\ why \in {"stop", "wait"})

\* Where the program is tells what became of the run it is in; a Tor runs in that run,
\* or its program has died.
Phases ==
  /\ \A n \in Runs : n > cur => state[n] = "unused" /\ tor[n] = "none"
  /\ \A n \in Runs : state[n] \in {"starting", "ok"} => n = cur /\ pc \notin {"idle", "dead"}
  /\ pc \in Before \cup Raised => cur \in Runs /\ state[cur] = "starting"
  /\ pc \in Stopping => /\ cur \in Runs /\ why # "none"
                        /\ why \in {"err", "spawn"} => state[cur] = "starting"
  /\ Used => cur \in Runs /\ state[cur] \in {"ok", "stopped"}
  /\ pc \in Before => tor[cur] = "none"
  /\ pc \in {"drain", "drained"} => tor[cur] = "gone"
  /\ \A n \in Runs : state[n] = "stopped" => tor[n] = "gone"
  /\ \A n \in Runs : Running(n) => state[n] = "lost" \/ (n = cur /\ pc \notin {"idle", "dead"})

\* The tasks of a run: read to their ends but for those that a dropped call has taken;
\* those that a process still has; and those among which a call awaits one.
Over     == [Streams -> {"ended", "detached"}]
Kept     == [Streams -> {"held", "ended", "detached"}]
Awaiting == [Streams -> {"held", "awaited", "ended", "detached"}]

\* While there is a process, each of its two handles is there, or its task was read to
\* its end or taken by a call that was dropped; once a stop has drained, none is there.
Draining ==
  /\ \A n \in Runs : state[n] = "stopped" => out[n] \in Over
  /\ pc = "drained" => out[cur] \in Over
  /\ pc = "drain" => out[cur] \in Awaiting
  /\ pc \in Raised \cup {"up", "stop", "term", "kill", "await"} => out[cur] \in Kept

\* What is in the control port file, and whom the controller found there.
Connected ==
  /\ \A n \in Runs : state[n] = "lost" => n \in orphans
  /\ pc \in {"write", "rename", "exec", "stdin", "port"} =>
       portFile.text = "none" \/ portFile.of \in orphans \cup {cur}
  /\ pc = "connect" => addr \in orphans \cup {cur}
  /\ pc \in {"auth", "boot", "socks"} \/ (level = "instance" /\ Used) =>
       conn \in orphans \cup {cur}
  /\ pc \in {"boot", "socks"} \/ (level = "instance" /\ Used) => owner[conn] = "connection"
  /\ portFile.of \in Runs => conf[portFile.of] \in Runs
  /\ addr \in Runs => conf[addr] \in Runs
  /\ conn \in Runs => conf[conn] \in Runs

\* Who may still write the configuration file, and what a Tor will find in it.
Configured ==
  /\ \A n \in Runs : fed[n] = "open" => n = cur /\ pc = "stdin"
  /\ \A n \in Runs : fed[n] = "closed" => ~Running(n) \/ state[n] = "lost"
  /\ \A n \in Runs : blocking[n] \in {"write", "rename", "run"} =>
       n \in late \/ (n = cur /\ pc = "verify")
  /\ \A n \in Runs :
       source = "file" /\ torrc.text = "whole" /\ Running(n) /\ conf[n] = Unread =>
         torrc.of \in late \cup {n} \/ (state[n] = "lost" /\ torrc.of > n)
  /\ source = "file" /\ pc = "exec" => torrc.of \in late \cup {cur}
  /\ OwnConfig

IInv == TypeOK /\ Phases /\ Draining /\ Connected /\ Configured

-----------------------------------------------------------------------------
(* The invariant is inductive.                                             *)

\* The sets of tasks, and a process that has just spawned them.
LEMMA TaskSets ==
  /\ Over \subseteq Kept /\ Kept \subseteq Awaiting /\ Awaiting \subseteq [Streams -> Task]
  /\ [s \in Streams |-> "held"] \in Kept
  BY DEF Over, Kept, Awaiting, Task

\* What a call or a process that goes does to the tasks.
LEMMA LettingGo ==
  ASSUME NEW t \in [Streams -> Task]
  PROVE  /\ Detached(t) \in [Streams -> Task] /\ LetGo(t) \in [Streams -> Task]
         /\ t \in Over => Detached(t) \in Over /\ LetGo(t) \in Over
         /\ t \in Awaiting => Detached(t) \in Kept
<1>1. Detached(t) \in [Streams -> Task]
  BY DEF Detached, Task
<1>2. LetGo(t) \in [Streams -> Task]
  BY <1>1 DEF LetGo, Task
<1>3. ASSUME t \in Over PROVE Detached(t) \in Over /\ LetGo(t) \in Over
  <2>1. Detached(t) \in Over
    BY <1>3 DEF Detached, Over
  <2> QED  BY <1>3, <2>1 DEF LetGo, Over
<1>4. ASSUME t \in Awaiting PROVE Detached(t) \in Kept
  BY <1>4 DEF Detached, Awaiting, Kept
<1> QED  BY <1>1, <1>2, <1>3, <1>4

\* finish_output_tasks awaits a task, or there is none left to await.
LEMMA Finishing ==
  ASSUME TypeOK, cur \in Runs, NEW t \in Kept, Finish(t)
  PROVE  /\ out' \in [Runs -> [Streams -> Task]]
         /\ \A n \in Runs \ {cur} : out'[n] = out[n]
         /\ \/ pc' = "drain" /\ out'[cur] \in Awaiting /\ t \notin Over
            \/ pc' = "drained" /\ out'[cur] = t /\ t \in Over
<1>0. out \in [Runs -> [Streams -> Task]]
  BY DEF TypeOK, ChildTypeOK
<1>1. ASSUME NEW s \in Streams, t[s] = "held", Goto("drain"),
             out' = [out EXCEPT ![cur] = [t EXCEPT ![s] = "awaited"]]
      PROVE  /\ out' \in [Runs -> [Streams -> Task]]
             /\ \A n \in Runs \ {cur} : out'[n] = out[n]
             /\ pc' = "drain" /\ out'[cur] \in Awaiting /\ t \notin Over
  <2>1. [t EXCEPT ![s] = "awaited"] \in Awaiting
    BY DEF Kept, Awaiting
  <2>2. [t EXCEPT ![s] = "awaited"] \in [Streams -> Task]
    BY <2>1, TaskSets
  <2>3. t \notin Over
    BY <1>1 DEF Over
  <2>4. pc' = "drain"
    BY <1>1 DEF Goto
  <2> QED  BY <1>0, <1>1, <2>1, <2>2, <2>3, <2>4
<1>2. CASE (\A s \in Streams : t[s] # "held") /\ out' = [out EXCEPT ![cur] = t] /\ Goto("drained")
  <2>1. t \in Over
    BY <1>2 DEF Over, Kept
  <2>2. t \in [Streams -> Task]
    BY TaskSets
  <2>3. pc' = "drained"
    BY <1>2 DEF Goto
  <2> QED  BY <1>0, <1>2, <2>1, <2>2, <2>3
<1>3. "stdout" \in Streams /\ "stderr" \in Streams
  BY DEF Streams
<1> QED  BY <1>1, <1>2, <1>3 DEF Finish

\* A handle that goes leaves Tor dead, and disturbs no other run.
LEMMA ReleaseEffect ==
  ASSUME TypeOK, cur \in Runs, Release
  PROVE  /\ tor' \in [Runs -> {"none", "running", "exited", "gone"}]
         /\ fed' \in [Runs -> {"null", "open", "fed", "closed"}]
         /\ out' \in [Runs -> [Streams -> Task]]
         /\ \A n \in Runs \ {cur} : tor'[n] = tor[n] /\ fed'[n] = fed[n] /\ out'[n] = out[n]
         /\ tor'[cur] # "running" /\ (tor[cur] \in {"none", "gone"} => tor'[cur] = tor[cur])
         /\ fed'[cur] # "open"
         /\ out[cur] \in Over => out'[cur] \in Over
         /\ conn' = NoConn
<1>1. out[cur] \in [Streams -> Task]
  BY DEF TypeOK, ChildTypeOK
<1>2. /\ LetGo(out[cur]) \in [Streams -> Task]
      /\ out[cur] \in Over => LetGo(out[cur]) \in Over
  BY <1>1, LettingGo
<1> HIDE DEF LetGo
<1> QED  BY <1>2 DEF TypeOK, ChildTypeOK, ProcessTypeOK, Release, Killed

\* The end of a start or of an instance, whatever the reason.
LEMMA EndKeepsIInv ==
  ASSUME IInv, cur \in Runs, Release, pc' = "idle", UNCHANGED given,
         UNCHANGED <<conf, owner, plugin, published, files, orphans, cur>>,
         state[cur] # "lost",
         why' \in {why, "none"}, addr' \in {addr, Stale},
         \/ Becomes("failed") \/ Becomes("left")
         \/ UNCHANGED state /\ state[cur] = "stopped",
         blocking' \in [Runs -> {"none", "write", "rename", "run", "ok", "failed"}],
         late' \in SUBSET Runs, late \subseteq late',
         \A n \in Runs : blocking'[n] \in {blocking[n], "none"},
         blocking'[cur] \in {"write", "rename", "run"} => cur \in late'
  PROVE  IInv'
<1> USE DEF given, files
<1>1. /\ tor' \in [Runs -> {"none", "running", "exited", "gone"}]
      /\ fed' \in [Runs -> {"null", "open", "fed", "closed"}]
      /\ out' \in [Runs -> [Streams -> Task]]
      /\ \A n \in Runs \ {cur} : tor'[n] = tor[n] /\ fed'[n] = fed[n] /\ out'[n] = out[n]
      /\ tor'[cur] # "running" /\ (tor[cur] \in {"none", "gone"} => tor'[cur] = tor[cur])
      /\ fed'[cur] # "open"
      /\ out[cur] \in Over => out'[cur] \in Over
      /\ conn' = NoConn
  BY ReleaseEffect DEF IInv
<1>2. /\ state' \in [Runs -> {"unused", "starting", "ok", "failed", "left", "stopped", "lost"}]
      /\ \A n \in Runs \ {cur} : state'[n] = state[n]
      /\ state'[cur] \in {"failed", "left"} \/ (state'[cur] = "stopped" /\ state[cur] = "stopped")
  BY DEF IInv, TypeOK, ProcessTypeOK, Becomes
<1>3. NoConn \notin Runs /\ Stale \notin Runs
  BY DEF Runs, NoConn, Stale
<1>4. TypeOK'
  <2>1. ChildTypeOK'
    BY <1>1 DEF IInv, TypeOK, ChildTypeOK
  <2>2. ProcessTypeOK'
    BY <1>1, <1>2 DEF IInv, TypeOK, ProcessTypeOK
  <2> QED
    BY <2>1, <2>2 DEF IInv, TypeOK
<1>5. Phases'
  BY <1>1, <1>2 DEF IInv, TypeOK, ProcessTypeOK, Phases, Before, Raised, Used, Stopping, Running
<1>6. Draining'
  BY <1>1, <1>2 DEF IInv, Draining, Raised, Stopping
<1>7. Connected'
  BY <1>1, <1>2, <1>3 DEF IInv, Connected, Used, Stopping
<1>8. Configured'
  <2>1. \A n \in Runs : fed'[n] # "open"
    BY <1>1 DEF IInv, Configured
  <2>2. \A n \in Runs : fed'[n] = "closed" => ~Running(n)' \/ state'[n] = "lost"
    BY <1>1, <1>2 DEF IInv, Configured, Running
  <2>3. \A n \in Runs : blocking'[n] \in {"write", "rename", "run"} => n \in late'
    BY DEF IInv, Configured
  <2>4. ASSUME NEW n \in Runs, source' = "file", torrc'.text = "whole", Running(n)',
               conf'[n] = Unread
        PROVE  torrc'.of \in late' \cup {n} \/ (state'[n] = "lost" /\ torrc'.of > n)
    <3>1. Running(n) /\ state'[n] = state[n]
      BY <1>1, <1>2, <2>4 DEF Running
    <3> QED
      BY <2>4, <3>1 DEF IInv, Configured
  <2>5. OwnConfig'
    BY <1>2 DEF IInv, Configured, OwnConfig
  <2> QED
    BY <2>1, <2>2, <2>3, <2>4, <2>5 DEF Configured
<1> QED
  BY <1>4, <1>5, <1>6, <1>7, <1>8 DEF IInv

\* A start that fails.
LEMMA FailedKeepsIInv ==
  ASSUME IInv, Failed, UNCHANGED <<given, addr, late>>,
         pc \in Before \/ (pc \in Stopping /\ why \in {"err", "spawn"}),
         (UNCHANGED blocking /\ pc # "verify") \/ blocking' = [blocking EXCEPT ![cur] = "none"]
  PROVE  IInv'
<1>1. cur \in Runs /\ state[cur] = "starting"
  BY DEF IInv, Phases
<1>2. pc # "verify" => (blocking[cur] \in {"write", "rename", "run"} => cur \in late)
  BY <1>1 DEF IInv, Configured
<1>3. /\ blocking' \in [Runs -> {"none", "write", "rename", "run", "ok", "failed"}]
      /\ \A n \in Runs : blocking'[n] \in {blocking[n], "none"}
      /\ late' \in SUBSET Runs
      /\ blocking'[cur] \in {"write", "rename", "run"} => cur \in late'
  BY <1>1, <1>2 DEF IInv, TypeOK
<1> QED
  BY <1>1, <1>2, <1>3, EndKeepsIInv DEF Failed, Goto

\* A start or an instance is dropped.
LEMMA DroppedKeepsIInv ==
  ASSUME IInv, StartDropped \/ (Drop /\ UNCHANGED instance)
  PROVE  IInv'
<1>1. cur \in Runs /\ state[cur] \in {"starting", "ok", "stopped"} /\ pc \notin {"idle", "dead"}
  BY DEF IInv, Phases, StartDropped, SpawnDropped, Drop, Before, Raised, Used, Stopping
<1>2. CASE Drop /\ UNCHANGED instance
  <2>1. pc = "up" /\ Release /\ pc' = "idle" /\ UNCHANGED <<given, instance, why>>
        /\ UNCHANGED <<conf, owner, plugin, published, files, orphans, cur>>
        /\ IF state[cur] = "ok" THEN Becomes("left") ELSE UNCHANGED state
    BY <1>2 DEF Drop, Goto
  <2>2. state[cur] \in {"ok", "stopped"}
    BY <2>1 DEF IInv, Phases, Used
  <2>3. blocking[cur] \in {"write", "rename", "run"} => cur \in late
    BY <1>1, <2>1 DEF IInv, Configured
  <2>4. late \in SUBSET Runs
        /\ blocking \in [Runs -> {"none", "write", "rename", "run", "ok", "failed"}]
    BY DEF IInv, TypeOK
  <2> QED
    BY <1>1, <2>1, <2>2, <2>3, <2>4, EndKeepsIInv DEF instance
<1>3. CASE StartDropped
  <2>1. Release /\ Becomes("left") /\ pc' = "idle" /\ why' = "none" /\ UNCHANGED <<given, blocking>>
        /\ UNCHANGED <<conf, owner, plugin, published, files, orphans, cur>>
        /\ addr' \in {addr, Stale}
    BY <1>3 DEF StartDropped, SpawnDropped, Goto
  <2>2. late' \in SUBSET Runs /\ late \subseteq late'
        /\ (pc = "verify" => blocking[cur] \in {"ok", "failed"} \/ cur \in late')
    BY <1>1, <1>3 DEF StartDropped, SpawnDropped, IInv, TypeOK, Stopping
  <2>3. blocking[cur] \in {"write", "rename", "run"} => cur \in late'
    BY <1>1, <2>2 DEF IInv, Configured
  <2>4. state[cur] \in {"starting"}
    BY <1>3 DEF StartDropped, SpawnDropped, IInv, Phases, Before, Raised, Stopping
  <2>5. blocking \in [Runs -> {"none", "write", "rename", "run", "ok", "failed"}]
    BY DEF IInv, TypeOK
  <2> QED
    BY <1>1, <2>1, <2>2, <2>3, <2>4, <2>5, EndKeepsIInv
<1> QED
  BY <1>2, <1>3

\* A start goes on up to Tor's spawn.
LEMMA SpawnKeepsIInv ==
  ASSUME IInv,
         \/ StdinFails /\ UNCHANGED instance
         \/ StdinWritten(Spawned) /\ UNCHANGED instance
         \/ Begin
  PROVE  IInv'
<1>0. 0 \notin Runs /\ -1 \notin Runs /\ (pc \notin {"idle", "dead"} => cur \in Runs)
  BY DEF IInv, TypeOK, ProcessTypeOK, Phases, Before, Raised, Used, Stopping, Runs
<1> USE DEF NoConn, Stale, Unread, Default, Torn, given, child, files, process, instance, Goto,
            Before, Raised, Used, Stopping
<1>1. CASE StdinFails /\ UNCHANGED instance
  <2>1. TypeOK'
    <3>1. ChildTypeOK'
      BY <1>0, <1>1 DEF IInv, TypeOK, ChildTypeOK, ProcessTypeOK, StdinFails, Killed
    <3>2. ProcessTypeOK'
      BY <1>0, <1>1 DEF IInv, TypeOK, ProcessTypeOK, StdinFails, Killed
    <3> QED
      BY <1>0, <1>1, <3>1, <3>2 DEF IInv, TypeOK, ChildTypeOK, StdinFails, Killed
  <2>2. Phases'
    BY <1>0, <1>1 DEF IInv, TypeOK, ChildTypeOK, ProcessTypeOK, Phases, Running, StdinFails,
       Killed
  <2>3. Draining'
    BY <1>0, <1>1 DEF IInv, TypeOK, ChildTypeOK, ProcessTypeOK, Phases, Draining, StdinFails,
       Killed
  <2>4. Connected'
    BY <1>0, <1>1 DEF IInv, TypeOK, ChildTypeOK, ProcessTypeOK, Phases, Connected, Running,
       StdinFails, Killed
  <2>5. Configured'
    BY <1>0, <1>1 DEF IInv, TypeOK, ChildTypeOK, ProcessTypeOK, Phases, Configured, OwnConfig,
       Running, StdinFails, Killed
  <2> QED
    BY <2>1, <2>2, <2>3, <2>4, <2>5 DEF IInv
<1>2. CASE StdinWritten(Spawned) /\ UNCHANGED instance
  <2>1. TypeOK'
    <3>1. ChildTypeOK'
      BY <1>0, <1>2 DEF IInv, TypeOK, ChildTypeOK, ProcessTypeOK, StdinWritten, Spawned, Becomes
    <3>2. ProcessTypeOK'
      BY <1>0, <1>2 DEF IInv, TypeOK, ProcessTypeOK, StdinWritten, Spawned, Becomes
    <3> QED
      BY <1>0, <1>2, <3>1, <3>2 DEF IInv, TypeOK, ChildTypeOK, StdinWritten, Spawned, Becomes
  <2>2. Phases'
    BY <1>0, <1>2 DEF IInv, TypeOK, ChildTypeOK, ProcessTypeOK, Phases, Running, StdinWritten,
       Spawned, Becomes
  <2>3. Draining'
    BY <1>0, <1>2 DEF IInv, TypeOK, ChildTypeOK, ProcessTypeOK, Phases, Draining, StdinWritten,
       Spawned, Becomes
  <2>4. Connected'
    BY <1>0, <1>2 DEF IInv, TypeOK, ChildTypeOK, ProcessTypeOK, Phases, Connected, Running,
       StdinWritten, Spawned, Becomes
  <2>5. Configured'
    BY <1>0, <1>2 DEF IInv, TypeOK, ChildTypeOK, ProcessTypeOK, Phases, Configured, OwnConfig,
       Running, StdinWritten, Spawned, Becomes
  <2> QED
    BY <2>1, <2>2, <2>3, <2>4, <2>5 DEF IInv
<1>3. CASE Begin
  <2>1. TypeOK'
    <3>1. ChildTypeOK'
      BY <1>0, <1>3 DEF IInv, TypeOK, ChildTypeOK, ProcessTypeOK, Begin, NoPortFile, Text
    <3>2. ProcessTypeOK'
      BY <1>0, <1>3, MaxRunsAssumption DEF IInv, TypeOK, ProcessTypeOK, Begin, NoPortFile, Text
    <3> QED
      BY <1>0, <1>3, <3>1, <3>2 DEF IInv, TypeOK, ChildTypeOK, Begin, NoPortFile, Text
  <2>2. Phases'
    <3>1. cur' \in Runs /\ cur' = cur + 1 /\ cur \in Nat
      BY <1>0, <1>3, MaxRunsAssumption DEF IInv, TypeOK, ProcessTypeOK, Runs, Begin, NoPortFile,
         Text
    <3>2. cur' > cur /\ \A n \in Runs : n > cur' => n > cur /\ n # cur'
      BY <3>1 DEF Runs
    <3> QED
      BY <1>0, <1>3, <3>1, <3>2 DEF IInv, TypeOK, ChildTypeOK, ProcessTypeOK, Phases, Running,
         Begin, NoPortFile, Text
  <2>3. Draining'
    BY <1>0, <1>3 DEF IInv, TypeOK, ChildTypeOK, ProcessTypeOK, Phases, Draining, Begin,
       NoPortFile, Text
  <2>4. Connected'
    BY <1>0, <1>3 DEF IInv, TypeOK, ChildTypeOK, ProcessTypeOK, Phases, Connected, Running,
       Begin, NoPortFile, Text
  <2>5. Configured'
    BY <1>0, <1>3 DEF IInv, TypeOK, ChildTypeOK, ProcessTypeOK, Phases, Configured, OwnConfig,
       Running, Begin, NoPortFile, Text
  <2> QED
    BY <2>1, <2>2, <2>3, <2>4, <2>5 DEF IInv
<1> QED
  BY <1>1, <1>2, <1>3

\* The steps that may fail, when they do not.
LEMMA GoesOnKeepsIInv ==
  ASSUME IInv,
         \/ pc = "version" /\ VersionDetected /\ pc' = "verify"
         \/ Verified /\ pc' = "spawn"
         \/ SpawnCleans /\ pc' # "idle" /\ UNCHANGED instance
         \/ SpawnWrites /\ pc' # "idle" /\ UNCHANGED instance
         \/ SpawnRenames /\ pc' # "idle" /\ UNCHANGED instance
         \/ Exec(Spawned) /\ pc' # "idle" /\ UNCHANGED instance
         \/ StopFails /\ pc' # "idle" /\ UNCHANGED instance
         \/ OutputDrained /\ pc' # "idle" /\ UNCHANGED instance
  PROVE  IInv'
<1>0. 0 \notin Runs /\ -1 \notin Runs /\ (pc \notin {"idle", "dead"} => cur \in Runs)
  BY DEF IInv, TypeOK, ProcessTypeOK, Phases, Before, Raised, Used, Stopping, Runs
<1> USE DEF NoConn, Stale, Unread, Default, Torn, given, child, files, process, instance, Goto,
            Before, Raised, Used, Stopping
<1>1. CASE pc = "version" /\ VersionDetected /\ pc' = "verify"
  <2>1. TypeOK'
    <3>1. ChildTypeOK'
      BY <1>0, <1>1 DEF IInv, TypeOK, ChildTypeOK, ProcessTypeOK, VersionDetected, StartFails,
         Failed
    <3>2. ProcessTypeOK'
      BY <1>0, <1>1 DEF IInv, TypeOK, ProcessTypeOK, VersionDetected, StartFails, Failed
    <3> QED
      BY <1>0, <1>1, <3>1, <3>2 DEF IInv, TypeOK, ChildTypeOK, VersionDetected, StartFails,
         Failed
  <2>2. Phases'
    BY <1>0, <1>1 DEF IInv, TypeOK, ChildTypeOK, ProcessTypeOK, Phases, Running,
       VersionDetected, StartFails, Failed
  <2>3. Draining'
    BY <1>0, <1>1 DEF IInv, TypeOK, ChildTypeOK, ProcessTypeOK, Phases, Draining,
       VersionDetected, StartFails, Failed
  <2>4. Connected'
    BY <1>0, <1>1 DEF IInv, TypeOK, ChildTypeOK, ProcessTypeOK, Phases, Connected, Running,
       VersionDetected, StartFails, Failed
  <2>5. Configured'
    BY <1>0, <1>1 DEF IInv, TypeOK, ChildTypeOK, ProcessTypeOK, Phases, Configured, OwnConfig,
       Running, VersionDetected, StartFails, Failed
  <2> QED
    BY <2>1, <2>2, <2>3, <2>4, <2>5 DEF IInv
<1>2. CASE Verified /\ pc' = "spawn"
  <2>1. TypeOK'
    <3>1. ChildTypeOK'
      BY <1>0, <1>2 DEF IInv, TypeOK, ChildTypeOK, ProcessTypeOK, Verified, StartFails, Failed
    <3>2. ProcessTypeOK'
      BY <1>0, <1>2 DEF IInv, TypeOK, ProcessTypeOK, Verified, StartFails, Failed
    <3> QED
      BY <1>0, <1>2, <3>1, <3>2 DEF IInv, TypeOK, ChildTypeOK, Verified, StartFails, Failed
  <2>2. Phases'
    BY <1>0, <1>2 DEF IInv, TypeOK, ChildTypeOK, ProcessTypeOK, Phases, Running, Verified,
       StartFails, Failed
  <2>3. Draining'
    BY <1>0, <1>2 DEF IInv, TypeOK, ChildTypeOK, ProcessTypeOK, Phases, Draining, Verified,
       StartFails, Failed
  <2>4. Connected'
    BY <1>0, <1>2 DEF IInv, TypeOK, ChildTypeOK, ProcessTypeOK, Phases, Connected, Running,
       Verified, StartFails, Failed
  <2>5. Configured'
    BY <1>0, <1>2 DEF IInv, TypeOK, ChildTypeOK, ProcessTypeOK, Phases, Configured, OwnConfig,
       Running, Verified, StartFails, Failed
  <2> QED
    BY <2>1, <2>2, <2>3, <2>4, <2>5 DEF IInv
<1>3. CASE SpawnCleans /\ pc' # "idle" /\ UNCHANGED instance
  <2>1. TypeOK'
    <3>1. ChildTypeOK'
      BY <1>0, <1>3 DEF IInv, TypeOK, ChildTypeOK, ProcessTypeOK, SpawnCleans, NoPortFile, Text,
         Failed
    <3>2. ProcessTypeOK'
      BY <1>0, <1>3 DEF IInv, TypeOK, ProcessTypeOK, SpawnCleans, NoPortFile, Text, Failed
    <3> QED
      BY <1>0, <1>3, <3>1, <3>2 DEF IInv, TypeOK, ChildTypeOK, SpawnCleans, NoPortFile, Text,
         Failed
  <2>2. Phases'
    BY <1>0, <1>3 DEF IInv, TypeOK, ChildTypeOK, ProcessTypeOK, Phases, Running, SpawnCleans,
       NoPortFile, Text, Failed
  <2>3. Draining'
    BY <1>0, <1>3 DEF IInv, TypeOK, ChildTypeOK, ProcessTypeOK, Phases, Draining, SpawnCleans,
       NoPortFile, Text, Failed
  <2>4. Connected'
    BY <1>0, <1>3 DEF IInv, TypeOK, ChildTypeOK, ProcessTypeOK, Phases, Connected, Running,
       SpawnCleans, NoPortFile, Text, Failed
  <2>5. Configured'
    BY <1>0, <1>3 DEF IInv, TypeOK, ChildTypeOK, ProcessTypeOK, Phases, Configured, OwnConfig,
       Running, SpawnCleans, NoPortFile, Text, Failed
  <2> QED
    BY <2>1, <2>2, <2>3, <2>4, <2>5 DEF IInv
<1>4. CASE SpawnWrites /\ pc' # "idle" /\ UNCHANGED instance
  <2>1. TypeOK'
    <3>1. ChildTypeOK'
      BY <1>0, <1>4 DEF IInv, TypeOK, ChildTypeOK, ProcessTypeOK, SpawnWrites, OpenTemp, Failed
    <3>2. ProcessTypeOK'
      BY <1>0, <1>4 DEF IInv, TypeOK, ProcessTypeOK, SpawnWrites, OpenTemp, Failed
    <3> QED
      BY <1>0, <1>4, <3>1, <3>2 DEF IInv, TypeOK, ChildTypeOK, SpawnWrites, OpenTemp, Failed
  <2>2. Phases'
    BY <1>0, <1>4 DEF IInv, TypeOK, ChildTypeOK, ProcessTypeOK, Phases, Running, SpawnWrites,
       OpenTemp, Failed
  <2>3. Draining'
    BY <1>0, <1>4 DEF IInv, TypeOK, ChildTypeOK, ProcessTypeOK, Phases, Draining, SpawnWrites,
       OpenTemp, Failed
  <2>4. Connected'
    BY <1>0, <1>4 DEF IInv, TypeOK, ChildTypeOK, ProcessTypeOK, Phases, Connected, Running,
       SpawnWrites, OpenTemp, Failed
  <2>5. Configured'
    BY <1>0, <1>4 DEF IInv, TypeOK, ChildTypeOK, ProcessTypeOK, Phases, Configured, OwnConfig,
       Running, SpawnWrites, OpenTemp, Failed
  <2> QED
    BY <2>1, <2>2, <2>3, <2>4, <2>5 DEF IInv
<1>5. CASE SpawnRenames /\ pc' # "idle" /\ UNCHANGED instance
  <2>1. TypeOK'
    <3>1. ChildTypeOK'
      BY <1>0, <1>5 DEF IInv, TypeOK, ChildTypeOK, ProcessTypeOK, SpawnRenames, Install, Text,
         Failed
    <3>2. ProcessTypeOK'
      BY <1>0, <1>5 DEF IInv, TypeOK, ProcessTypeOK, SpawnRenames, Install, Text, Failed
    <3> QED
      BY <1>0, <1>5, <3>1, <3>2 DEF IInv, TypeOK, ChildTypeOK, SpawnRenames, Install, Text,
         Failed
  <2>2. Phases'
    BY <1>0, <1>5 DEF IInv, TypeOK, ChildTypeOK, ProcessTypeOK, Phases, Running, SpawnRenames,
       Install, Text, Failed
  <2>3. Draining'
    BY <1>0, <1>5 DEF IInv, TypeOK, ChildTypeOK, ProcessTypeOK, Phases, Draining, SpawnRenames,
       Install, Text, Failed
  <2>4. Connected'
    BY <1>0, <1>5 DEF IInv, TypeOK, ChildTypeOK, ProcessTypeOK, Phases, Connected, Running,
       SpawnRenames, Install, Text, Failed
  <2>5. Configured'
    <3>1. ASSUME NEW m \in Runs, source = "file", Running(m), conf[m] = Unread
          PROVE  cur \in late \cup {m} \/ (state[m] = "lost" /\ cur > m)
      <4>1. m # cur /\ state[m] = "lost" /\ ~(m > cur)
        BY <1>0, <1>5, <3>1 DEF IInv, Phases, Running, SpawnRenames, Install, Text, Failed
      <4> QED
        BY <1>0, <1>5, <4>1 DEF Runs, SpawnRenames, Install, Text, Failed
    <3>2. UNCHANGED <<source, tor, fed, conf, state, cur, blocking, late>>
          /\ torrc' = [text |-> "whole", of |-> cur] /\ pc' = "exec" /\ pc = "rename"
      BY <1>0, <1>5 DEF SpawnRenames, Install, Text, Failed
    <3> QED
      BY <3>1, <3>2 DEF IInv, Configured, OwnConfig, Running
  <2> QED
    BY <2>1, <2>2, <2>3, <2>4, <2>5 DEF IInv
<1>6. CASE Exec(Spawned) /\ pc' # "idle" /\ UNCHANGED instance
  <2>0. /\ pc = "exec" /\ cur \in Runs
        /\ tor' = [tor EXCEPT ![cur] = "running"]
        /\ fed' = [fed EXCEPT ![cur] = IF source = "stdin" THEN "open" ELSE "null"]
        /\ out' = [out EXCEPT ![cur] = [s \in Streams |-> "held"]]
        /\ pc' = IF source = "stdin" THEN "stdin" ELSE Spawned
        /\ IF source = "file" /\ Spawned = "up" THEN Becomes("ok") ELSE UNCHANGED state
        /\ UNCHANGED <<given, conf, owner, plugin, published, files, conn, orphans, cur, why,
                       instance>>
    BY <1>0, <1>6 DEF Exec, Failed
  <2>1. [s \in Streams |-> "held"] \in Kept /\ [s \in Streams |-> "held"] \in [Streams -> Task]
    BY TaskSets
  <2>2. TypeOK'
    <3>1. tor' \in [Runs -> {"none", "running", "exited", "gone"}]
          /\ fed' \in [Runs -> {"null", "open", "fed", "closed"}]
      BY <2>0 DEF IInv, TypeOK, ChildTypeOK
    <3>2. out' \in [Runs -> [Streams -> Task]]
      BY <2>0, <2>1 DEF IInv, TypeOK, ChildTypeOK
    <3>3. ChildTypeOK'
      BY <2>0, <3>1, <3>2 DEF IInv, TypeOK, ChildTypeOK
    <3>4. ProcessTypeOK'
      BY <2>0 DEF IInv, TypeOK, ProcessTypeOK, Spawned, Becomes
    <3> QED
      BY <2>0, <3>3, <3>4 DEF IInv, TypeOK
  <2>3. Phases'
    BY <2>0 DEF IInv, TypeOK, ChildTypeOK, ProcessTypeOK, Phases, Running, Spawned, Becomes
  <2>4. Draining'
    <3>1. out'[cur] \in Kept /\ \A n \in Runs \ {cur} : out'[n] = out[n]
      BY <2>0, <2>1 DEF IInv, TypeOK, ChildTypeOK
    <3>2. state[cur] = "starting" /\ (state'[cur] = state[cur] \/ state'[cur] = "ok")
          /\ \A n \in Runs \ {cur} : state'[n] = state[n]
      BY <2>0 DEF IInv, TypeOK, ProcessTypeOK, Phases, Becomes
    <3>3. pc' \in {"stdin", "port", "up"} /\ cur' = cur
      BY <2>0 DEF Spawned
    <3> QED
      BY <3>1, <3>2, <3>3 DEF IInv, Draining
  <2>5. Connected'
    BY <2>0 DEF IInv, TypeOK, ChildTypeOK, ProcessTypeOK, Phases, Connected, Running, Spawned,
       Becomes
  <2>6. Configured'
    <3>1. pc' \in {"stdin", "port", "up"} /\ (source = "stdin" => pc' = "stdin")
          /\ source \in {"stdin", "file"}
      BY <2>0 DEF Spawned, IInv, TypeOK, ChildTypeOK
    <3>2. state[cur] = "starting" /\ (state'[cur] = state[cur] \/ state'[cur] = "ok")
          /\ \A n \in Runs \ {cur} : state'[n] = state[n]
      BY <2>0 DEF IInv, TypeOK, ProcessTypeOK, Phases, Becomes
    <3>3. /\ tor'[cur] = "running" /\ fed'[cur] \in {"open", "null"}
          /\ source = "file" => fed'[cur] = "null"
          /\ \A n \in Runs \ {cur} : tor'[n] = tor[n] /\ fed'[n] = fed[n]
      BY <2>0, <3>1 DEF IInv, TypeOK, ChildTypeOK
    <3>4. \A n \in Runs : fed'[n] = "open" => n = cur' /\ pc' = "stdin"
      BY <2>0, <3>1, <3>3 DEF IInv, Configured
    <3>5. \A n \in Runs : fed'[n] = "closed" => ~Running(n)' \/ state'[n] = "lost"
      BY <2>0, <3>2, <3>3 DEF IInv, Configured, Running
    <3>6. \A n \in Runs : blocking'[n] \in {"write", "rename", "run"} =>
                           n \in late' \/ (n = cur' /\ pc' = "verify")
      BY <2>0 DEF IInv, Configured
    <3>7. ASSUME NEW n \in Runs, source' = "file", torrc'.text = "whole", Running(n)',
                 conf'[n] = Unread
          PROVE  torrc'.of \in late' \cup {n} \/ (state'[n] = "lost" /\ torrc'.of > n)
      <4>1. CASE n = cur
        BY <2>0, <3>7, <4>1 DEF IInv, Configured
      <4>2. CASE n # cur
        BY <2>0, <3>2, <3>3, <3>7, <4>2 DEF IInv, Configured, Running
      <4> QED
        BY <4>1, <4>2
    <3>8. OwnConfig'
      BY <2>0, <3>2 DEF IInv, Configured, OwnConfig
    <3> QED
      BY <3>1, <3>4, <3>5, <3>6, <3>7, <3>8 DEF Configured
  <2> QED
    BY <2>2, <2>3, <2>4, <2>5, <2>6 DEF IInv
<1>7. CASE StopFails /\ pc' # "idle" /\ UNCHANGED instance
  <2>1. TypeOK'
    <3>1. ChildTypeOK'
      BY <1>0, <1>7 DEF IInv, TypeOK, ChildTypeOK, ProcessTypeOK, StopFails, Returned, Failed,
         Becomes
    <3>2. ProcessTypeOK'
      BY <1>0, <1>7 DEF IInv, TypeOK, ProcessTypeOK, StopFails, Returned, Failed, Becomes
    <3> QED
      BY <1>0, <1>7, <3>1, <3>2 DEF IInv, TypeOK, ChildTypeOK, StopFails, Returned, Failed,
         Becomes
  <2>2. Phases'
    BY <1>0, <1>7 DEF IInv, TypeOK, ChildTypeOK, ProcessTypeOK, Phases, Running, StopFails,
       Returned, Failed, Becomes
  <2>3. Draining'
    BY <1>0, <1>7 DEF IInv, TypeOK, ChildTypeOK, ProcessTypeOK, Phases, Draining, StopFails,
       Returned, Failed, Becomes
  <2>4. Connected'
    BY <1>0, <1>7 DEF IInv, TypeOK, ChildTypeOK, ProcessTypeOK, Phases, Connected, Running,
       StopFails, Returned, Failed, Becomes
  <2>5. Configured'
    BY <1>0, <1>7 DEF IInv, TypeOK, ChildTypeOK, ProcessTypeOK, Phases, Configured, OwnConfig,
       Running, StopFails, Returned, Failed, Becomes
  <2> QED
    BY <2>1, <2>2, <2>3, <2>4, <2>5 DEF IInv
<1>8. CASE OutputDrained /\ pc' # "idle" /\ UNCHANGED instance
  <2>1. TypeOK'
    <3>1. ChildTypeOK'
      BY <1>0, <1>8 DEF IInv, TypeOK, ChildTypeOK, ProcessTypeOK, OutputDrained, Returned,
         Failed, Becomes
    <3>2. ProcessTypeOK'
      BY <1>0, <1>8 DEF IInv, TypeOK, ProcessTypeOK, OutputDrained, Returned, Failed, Becomes
    <3> QED
      BY <1>0, <1>8, <3>1, <3>2 DEF IInv, TypeOK, ChildTypeOK, OutputDrained, Returned, Failed,
         Becomes
  <2>2. Phases'
    BY <1>0, <1>8 DEF IInv, TypeOK, ChildTypeOK, ProcessTypeOK, Phases, Running, OutputDrained,
       Returned, Failed, Becomes
  <2>3. Draining'
    <3>1. out[cur] \in Over /\ out[cur] \in Kept
      BY <1>0, <1>8, TaskSets DEF IInv, Draining, OutputDrained
    <3>2. UNCHANGED <<out, cur>> /\ pc = "drained" /\ pc' = "up"
      BY <1>0, <1>8 DEF OutputDrained, Returned, Failed, Becomes
    <3>3. \A n \in Runs : n # cur => state'[n] = state[n]
      BY <1>0, <1>8 DEF IInv, TypeOK, ProcessTypeOK, OutputDrained, Returned, Failed, Becomes
    <3> QED
      BY <1>0, <3>1, <3>2, <3>3 DEF IInv, Draining
  <2>4. Connected'
    BY <1>0, <1>8 DEF IInv, TypeOK, ChildTypeOK, ProcessTypeOK, Phases, Connected, Running,
       OutputDrained, Returned, Failed, Becomes
  <2>5. Configured'
    BY <1>0, <1>8 DEF IInv, TypeOK, ChildTypeOK, ProcessTypeOK, Phases, Configured, OwnConfig,
       Running, OutputDrained, Returned, Failed, Becomes
  <2> QED
    BY <2>1, <2>2, <2>3, <2>4, <2>5 DEF IInv
<1> QED
  BY <1>1, <1>2, <1>3, <1>4, <1>5, <1>6, <1>7, <1>8

\* The controller brings Tor up.
LEMMA BringUpKeepsIInv ==
  ASSUME IInv,
         \/ PortRead
         \/ Connect
         \/ Authenticate
         \/ Bootstrap
         \/ SocksListener
         \/ StartupFails
  PROVE  IInv'
<1>0. 0 \notin Runs /\ -1 \notin Runs /\ (pc \notin {"idle", "dead"} => cur \in Runs)
  BY DEF IInv, TypeOK, ProcessTypeOK, Phases, Before, Raised, Used, Stopping, Runs
<1> USE DEF NoConn, Stale, Unread, Default, Torn, given, child, files, process, instance, Goto,
            Before, Raised, Used, Stopping
<1>1. CASE PortRead
  <2>1. TypeOK'
    <3>1. ChildTypeOK'
      BY <1>0, <1>1 DEF IInv, TypeOK, ChildTypeOK, ProcessTypeOK, PortRead, Advance
    <3>2. ProcessTypeOK'
      BY <1>0, <1>1 DEF IInv, TypeOK, ProcessTypeOK, PortRead, Advance
    <3> QED
      BY <1>0, <1>1, <3>1, <3>2 DEF IInv, TypeOK, ChildTypeOK, PortRead, Advance
  <2>2. Phases'
    BY <1>0, <1>1 DEF IInv, TypeOK, ChildTypeOK, ProcessTypeOK, Phases, Running, PortRead,
       Advance
  <2>3. Draining'
    BY <1>0, <1>1 DEF IInv, TypeOK, ChildTypeOK, ProcessTypeOK, Phases, Draining, PortRead,
       Advance
  <2>4. Connected'
    BY <1>0, <1>1 DEF IInv, TypeOK, ChildTypeOK, ProcessTypeOK, Phases, Connected, Running,
       PortRead, Advance
  <2>5. Configured'
    BY <1>0, <1>1 DEF IInv, TypeOK, ChildTypeOK, ProcessTypeOK, Phases, Configured, OwnConfig,
       Running, PortRead, Advance
  <2> QED
    BY <2>1, <2>2, <2>3, <2>4, <2>5 DEF IInv
<1>2. CASE Connect
  <2>1. TypeOK'
    <3>1. ChildTypeOK'
      BY <1>0, <1>2 DEF IInv, TypeOK, ChildTypeOK, ProcessTypeOK, Connect, Listens, Advance
    <3>2. ProcessTypeOK'
      BY <1>0, <1>2 DEF IInv, TypeOK, ProcessTypeOK, Connect, Listens, Advance
    <3> QED
      BY <1>0, <1>2, <3>1, <3>2 DEF IInv, TypeOK, ChildTypeOK, Connect, Listens, Advance
  <2>2. Phases'
    BY <1>0, <1>2 DEF IInv, TypeOK, ChildTypeOK, ProcessTypeOK, Phases, Running, Connect,
       Listens, Advance
  <2>3. Draining'
    BY <1>0, <1>2 DEF IInv, TypeOK, ChildTypeOK, ProcessTypeOK, Phases, Draining, Connect,
       Listens, Advance
  <2>4. Connected'
    BY <1>0, <1>2 DEF IInv, TypeOK, ChildTypeOK, ProcessTypeOK, Phases, Connected, Running,
       Connect, Listens, Advance
  <2>5. Configured'
    BY <1>0, <1>2 DEF IInv, TypeOK, ChildTypeOK, ProcessTypeOK, Phases, Configured, OwnConfig,
       Running, Connect, Listens, Advance
  <2> QED
    BY <2>1, <2>2, <2>3, <2>4, <2>5 DEF IInv
<1>3. CASE Authenticate
  <2>1. TypeOK'
    <3>1. ChildTypeOK'
      BY <1>0, <1>3 DEF IInv, TypeOK, ChildTypeOK, ProcessTypeOK, Authenticate, Listens
    <3>2. ProcessTypeOK'
      BY <1>0, <1>3 DEF IInv, TypeOK, ProcessTypeOK, Authenticate, Listens
    <3> QED
      BY <1>0, <1>3, <3>1, <3>2 DEF IInv, TypeOK, ChildTypeOK, Authenticate, Listens
  <2>2. Phases'
    BY <1>0, <1>3 DEF IInv, TypeOK, ChildTypeOK, ProcessTypeOK, Phases, Running, Authenticate,
       Listens
  <2>3. Draining'
    BY <1>0, <1>3 DEF IInv, TypeOK, ChildTypeOK, ProcessTypeOK, Phases, Draining, Authenticate,
       Listens
  <2>4. Connected'
    BY <1>0, <1>3 DEF IInv, TypeOK, ChildTypeOK, ProcessTypeOK, Phases, Connected, Running,
       Authenticate, Listens
  <2>5. Configured'
    BY <1>0, <1>3 DEF IInv, TypeOK, ChildTypeOK, ProcessTypeOK, Phases, Configured, OwnConfig,
       Running, Authenticate, Listens
  <2> QED
    BY <2>1, <2>2, <2>3, <2>4, <2>5 DEF IInv
<1>4. CASE Bootstrap
  <2>1. TypeOK'
    <3>1. ChildTypeOK'
      BY <1>0, <1>4 DEF IInv, TypeOK, ChildTypeOK, ProcessTypeOK, Bootstrap, Advance
    <3>2. ProcessTypeOK'
      BY <1>0, <1>4 DEF IInv, TypeOK, ProcessTypeOK, Bootstrap, Advance
    <3> QED
      BY <1>0, <1>4, <3>1, <3>2 DEF IInv, TypeOK, ChildTypeOK, Bootstrap, Advance
  <2>2. Phases'
    BY <1>0, <1>4 DEF IInv, TypeOK, ChildTypeOK, ProcessTypeOK, Phases, Running, Bootstrap,
       Advance
  <2>3. Draining'
    BY <1>0, <1>4 DEF IInv, TypeOK, ChildTypeOK, ProcessTypeOK, Phases, Draining, Bootstrap,
       Advance
  <2>4. Connected'
    BY <1>0, <1>4 DEF IInv, TypeOK, ChildTypeOK, ProcessTypeOK, Phases, Connected, Running,
       Bootstrap, Advance
  <2>5. Configured'
    BY <1>0, <1>4 DEF IInv, TypeOK, ChildTypeOK, ProcessTypeOK, Phases, Configured, OwnConfig,
       Running, Bootstrap, Advance
  <2> QED
    BY <2>1, <2>2, <2>3, <2>4, <2>5 DEF IInv
<1>5. CASE SocksListener
  <2>1. TypeOK'
    <3>1. ChildTypeOK'
      BY <1>0, <1>5 DEF IInv, TypeOK, ChildTypeOK, ProcessTypeOK, SocksListener, Advance,
         Becomes
    <3>2. ProcessTypeOK'
      BY <1>0, <1>5 DEF IInv, TypeOK, ProcessTypeOK, SocksListener, Advance, Becomes
    <3> QED
      BY <1>0, <1>5, <3>1, <3>2 DEF IInv, TypeOK, ChildTypeOK, SocksListener, Advance, Becomes
  <2>2. Phases'
    BY <1>0, <1>5 DEF IInv, TypeOK, ChildTypeOK, ProcessTypeOK, Phases, Running, SocksListener,
       Advance, Becomes
  <2>3. Draining'
    BY <1>0, <1>5 DEF IInv, TypeOK, ChildTypeOK, ProcessTypeOK, Phases, Draining, SocksListener,
       Advance, Becomes
  <2>4. Connected'
    BY <1>0, <1>5 DEF IInv, TypeOK, ChildTypeOK, ProcessTypeOK, Phases, Connected, Running,
       SocksListener, Advance, Becomes
  <2>5. Configured'
    BY <1>0, <1>5 DEF IInv, TypeOK, ChildTypeOK, ProcessTypeOK, Phases, Configured, OwnConfig,
       Running, SocksListener, Advance, Becomes
  <2> QED
    BY <2>1, <2>2, <2>3, <2>4, <2>5 DEF IInv
<1>6. CASE StartupFails
  <2>1. TypeOK'
    <3>1. ChildTypeOK'
      BY <1>0, <1>6 DEF IInv, TypeOK, ChildTypeOK, ProcessTypeOK, StartupFails
    <3>2. ProcessTypeOK'
      BY <1>0, <1>6 DEF IInv, TypeOK, ProcessTypeOK, StartupFails
    <3> QED
      BY <1>0, <1>6, <3>1, <3>2 DEF IInv, TypeOK, ChildTypeOK, StartupFails
  <2>2. Phases'
    BY <1>0, <1>6 DEF IInv, TypeOK, ChildTypeOK, ProcessTypeOK, Phases, Running, StartupFails
  <2>3. Draining'
    BY <1>0, <1>6 DEF IInv, TypeOK, ChildTypeOK, ProcessTypeOK, Phases, Draining, StartupFails
  <2>4. Connected'
    BY <1>0, <1>6 DEF IInv, TypeOK, ChildTypeOK, ProcessTypeOK, Phases, Connected, Running,
       StartupFails
  <2>5. Configured'
    BY <1>0, <1>6 DEF IInv, TypeOK, ChildTypeOK, ProcessTypeOK, Phases, Configured, OwnConfig,
       Running, StartupFails
  <2> QED
    BY <2>1, <2>2, <2>3, <2>4, <2>5 DEF IInv
<1> QED
  BY <1>1, <1>2, <1>3, <1>4, <1>5, <1>6

\* A process is stopped or waited for.
LEMMA StopKeepsIInv ==
  ASSUME IInv,
         \/ StopAsks /\ UNCHANGED instance
         \/ StopTimeout /\ UNCHANGED instance
         \/ ChildReaped /\ UNCHANGED instance
         \/ Shutdown /\ UNCHANGED instance
         \/ Wait /\ UNCHANGED instance
         \/ CallDropped /\ UNCHANGED instance
         \/ TryWait /\ UNCHANGED instance
         \/ StartKill /\ UNCHANGED instance
         \/ (OutputEnds \/ OutputFailed) /\ UNCHANGED instance
  PROVE  IInv'
<1>0. 0 \notin Runs /\ -1 \notin Runs /\ (pc \notin {"idle", "dead"} => cur \in Runs)
  BY DEF IInv, TypeOK, ProcessTypeOK, Phases, Before, Raised, Used, Stopping, Runs
<1> USE DEF NoConn, Stale, Unread, Default, Torn, given, child, files, process, instance, Goto,
            Before, Raised, Used, Stopping
<1>1. CASE StopAsks /\ UNCHANGED instance
  <2>1. TypeOK'
    <3>1. ChildTypeOK'
      BY <1>0, <1>1 DEF IInv, TypeOK, ChildTypeOK, ProcessTypeOK, StopAsks
    <3>2. ProcessTypeOK'
      BY <1>0, <1>1 DEF IInv, TypeOK, ProcessTypeOK, StopAsks
    <3> QED
      BY <1>0, <1>1, <3>1, <3>2 DEF IInv, TypeOK, ChildTypeOK, StopAsks
  <2>2. Phases'
    BY <1>0, <1>1 DEF IInv, TypeOK, ChildTypeOK, ProcessTypeOK, Phases, Running, StopAsks
  <2>3. Draining'
    BY <1>0, <1>1 DEF IInv, TypeOK, ChildTypeOK, ProcessTypeOK, Phases, Draining, StopAsks
  <2>4. Connected'
    BY <1>0, <1>1 DEF IInv, TypeOK, ChildTypeOK, ProcessTypeOK, Phases, Connected, Running,
       StopAsks
  <2>5. Configured'
    BY <1>0, <1>1 DEF IInv, TypeOK, ChildTypeOK, ProcessTypeOK, Phases, Configured, OwnConfig,
       Running, StopAsks
  <2> QED
    BY <2>1, <2>2, <2>3, <2>4, <2>5 DEF IInv
<1>2. CASE StopTimeout /\ UNCHANGED instance
  <2>1. TypeOK'
    <3>1. ChildTypeOK'
      BY <1>0, <1>2 DEF IInv, TypeOK, ChildTypeOK, ProcessTypeOK, StopTimeout, Killed
    <3>2. ProcessTypeOK'
      BY <1>0, <1>2 DEF IInv, TypeOK, ProcessTypeOK, StopTimeout, Killed
    <3> QED
      BY <1>0, <1>2, <3>1, <3>2 DEF IInv, TypeOK, ChildTypeOK, StopTimeout, Killed
  <2>2. Phases'
    BY <1>0, <1>2 DEF IInv, TypeOK, ChildTypeOK, ProcessTypeOK, Phases, Running, StopTimeout,
       Killed
  <2>3. Draining'
    BY <1>0, <1>2 DEF IInv, TypeOK, ChildTypeOK, ProcessTypeOK, Phases, Draining, StopTimeout,
       Killed
  <2>4. Connected'
    BY <1>0, <1>2 DEF IInv, TypeOK, ChildTypeOK, ProcessTypeOK, Phases, Connected, Running,
       StopTimeout, Killed
  <2>5. Configured'
    BY <1>0, <1>2 DEF IInv, TypeOK, ChildTypeOK, ProcessTypeOK, Phases, Configured, OwnConfig,
       Running, StopTimeout, Killed
  <2> QED
    BY <2>1, <2>2, <2>3, <2>4, <2>5 DEF IInv
<1>3. CASE ChildReaped /\ UNCHANGED instance
  <2>0. /\ out' \in [Runs -> [Streams -> Task]]
        /\ \A n \in Runs \ {cur} : out'[n] = out[n]
        /\ \/ pc' = "drain" /\ out'[cur] \in Awaiting /\ out[cur] \notin Over
           \/ pc' = "drained" /\ out'[cur] \in Over
    <3>1. out[cur] \in Kept /\ Finish(out[cur]) /\ cur \in Runs /\ TypeOK
      BY <1>0, <1>3 DEF IInv, Draining, ChildReaped
    <3> QED  BY <3>1, Finishing
  <2>a. /\ UNCHANGED <<given, fed, conf, owner, plugin, published, files, conn, orphans,
                       cur, why, state, instance>>
        /\ pc \in {"term", "kill", "await"} /\ ~Running(cur)
        /\ tor' = [tor EXCEPT ![cur] = "gone"]
    BY <1>3 DEF ChildReaped
  <2>1. TypeOK'
    <3>1. ChildTypeOK'
      BY <1>0, <2>0, <2>a DEF IInv, TypeOK, ChildTypeOK
    <3>2. ProcessTypeOK'
      BY <1>0, <2>0, <2>a DEF IInv, TypeOK, ProcessTypeOK
    <3> QED
      BY <1>0, <2>a, <3>1, <3>2 DEF IInv, TypeOK, ChildTypeOK
  <2>2. Phases'
    BY <1>0, <2>0, <2>a DEF IInv, TypeOK, ChildTypeOK, ProcessTypeOK, Phases, Running
  <2>3. Draining'
    BY <1>0, <2>0, <2>a DEF IInv, Draining
  <2>4. Connected'
    BY <1>0, <2>0, <2>a DEF IInv, TypeOK, ChildTypeOK, ProcessTypeOK, Phases, Connected, Running
  <2>5. Configured'
    BY <1>0, <2>0, <2>a DEF IInv, TypeOK, ChildTypeOK, ProcessTypeOK, Phases, Configured,
       OwnConfig, Running
  <2> QED
    BY <2>1, <2>2, <2>3, <2>4, <2>5 DEF IInv
<1>4. CASE Shutdown /\ UNCHANGED instance
  <2>1. TypeOK'
    <3>1. ChildTypeOK'
      BY <1>0, <1>4 DEF IInv, TypeOK, ChildTypeOK, ProcessTypeOK, Shutdown, Call
    <3>2. ProcessTypeOK'
      BY <1>0, <1>4 DEF IInv, TypeOK, ProcessTypeOK, Shutdown, Call
    <3> QED
      BY <1>0, <1>4, <3>1, <3>2 DEF IInv, TypeOK, ChildTypeOK, Shutdown, Call
  <2>2. Phases'
    BY <1>0, <1>4 DEF IInv, TypeOK, ChildTypeOK, ProcessTypeOK, Phases, Running, Shutdown, Call
  <2>3. Draining'
    BY <1>0, <1>4 DEF IInv, TypeOK, ChildTypeOK, ProcessTypeOK, Phases, Draining, Shutdown, Call
  <2>4. Connected'
    BY <1>0, <1>4 DEF IInv, TypeOK, ChildTypeOK, ProcessTypeOK, Phases, Connected, Running,
       Shutdown, Call
  <2>5. Configured'
    BY <1>0, <1>4 DEF IInv, TypeOK, ChildTypeOK, ProcessTypeOK, Phases, Configured, OwnConfig,
       Running, Shutdown, Call
  <2> QED
    BY <2>1, <2>2, <2>3, <2>4, <2>5 DEF IInv
<1>5. CASE Wait /\ UNCHANGED instance
  <2>1. TypeOK'
    <3>1. ChildTypeOK'
      BY <1>0, <1>5 DEF IInv, TypeOK, ChildTypeOK, ProcessTypeOK, Wait, Call
    <3>2. ProcessTypeOK'
      BY <1>0, <1>5 DEF IInv, TypeOK, ProcessTypeOK, Wait, Call
    <3> QED
      BY <1>0, <1>5, <3>1, <3>2 DEF IInv, TypeOK, ChildTypeOK, Wait, Call
  <2>2. Phases'
    BY <1>0, <1>5 DEF IInv, TypeOK, ChildTypeOK, ProcessTypeOK, Phases, Running, Wait, Call
  <2>3. Draining'
    BY <1>0, <1>5 DEF IInv, TypeOK, ChildTypeOK, ProcessTypeOK, Phases, Draining, Wait, Call
  <2>4. Connected'
    BY <1>0, <1>5 DEF IInv, TypeOK, ChildTypeOK, ProcessTypeOK, Phases, Connected, Running,
       Wait, Call
  <2>5. Configured'
    BY <1>0, <1>5 DEF IInv, TypeOK, ChildTypeOK, ProcessTypeOK, Phases, Configured, OwnConfig,
       Running, Wait, Call
  <2> QED
    BY <2>1, <2>2, <2>3, <2>4, <2>5 DEF IInv
<1>6. CASE CallDropped /\ UNCHANGED instance
  <2>0. /\ out' \in [Runs -> [Streams -> Task]]
        /\ \A n \in Runs \ {cur} : out'[n] = out[n]
        /\ out'[cur] \in Kept /\ (out[cur] \in Over => out'[cur] \in Over)
    <3>1. /\ out \in [Runs -> [Streams -> Task]] /\ cur \in Runs /\ out[cur] \in Awaiting
          /\ out' = [out EXCEPT ![cur] = Detached(out[cur])]
      BY <1>0, <1>6, TaskSets DEF IInv, TypeOK, ChildTypeOK, Draining, CallDropped
    <3> QED  BY <3>1, LettingGo
  <2>a. /\ UNCHANGED <<given, tor, fed, conf, owner, plugin, published, files, conn, orphans,
                       cur, state, instance>>
        /\ pc \in Stopping \ {"stop", "drained"} /\ why \in {"stop", "wait"}
        /\ pc' = "up" /\ why' = "none"
    BY <1>6 DEF CallDropped
  <2>1. TypeOK'
    <3>1. ChildTypeOK'
      BY <1>0, <2>0, <2>a DEF IInv, TypeOK, ChildTypeOK
    <3>2. ProcessTypeOK'
      BY <1>0, <2>0, <2>a DEF IInv, TypeOK, ProcessTypeOK
    <3> QED
      BY <1>0, <2>a, <3>1, <3>2 DEF IInv, TypeOK, ChildTypeOK
  <2>2. Phases'
    BY <1>0, <2>a DEF IInv, TypeOK, ChildTypeOK, ProcessTypeOK, Phases, Running
  <2>3. Draining'
    BY <1>0, <2>0, <2>a DEF IInv, Draining
  <2>4. Connected'
    BY <1>0, <2>a DEF IInv, TypeOK, ChildTypeOK, ProcessTypeOK, Phases, Connected, Running
  <2>5. Configured'
    BY <1>0, <2>a DEF IInv, TypeOK, ChildTypeOK, ProcessTypeOK, Phases, Configured, OwnConfig,
       Running
  <2> QED
    BY <2>1, <2>2, <2>3, <2>4, <2>5 DEF IInv
<1>7. CASE TryWait /\ UNCHANGED instance
  <2>1. TypeOK'
    <3>1. ChildTypeOK'
      BY <1>0, <1>7 DEF IInv, TypeOK, ChildTypeOK, ProcessTypeOK, TryWait
    <3>2. ProcessTypeOK'
      BY <1>0, <1>7 DEF IInv, TypeOK, ProcessTypeOK, TryWait
    <3> QED
      BY <1>0, <1>7, <3>1, <3>2 DEF IInv, TypeOK, ChildTypeOK, TryWait
  <2>2. Phases'
    BY <1>0, <1>7 DEF IInv, TypeOK, ChildTypeOK, ProcessTypeOK, Phases, Running, TryWait
  <2>3. Draining'
    BY <1>0, <1>7 DEF IInv, TypeOK, ChildTypeOK, ProcessTypeOK, Phases, Draining, TryWait
  <2>4. Connected'
    BY <1>0, <1>7 DEF IInv, TypeOK, ChildTypeOK, ProcessTypeOK, Phases, Connected, Running,
       TryWait
  <2>5. Configured'
    BY <1>0, <1>7 DEF IInv, TypeOK, ChildTypeOK, ProcessTypeOK, Phases, Configured, OwnConfig,
       Running, TryWait
  <2> QED
    BY <2>1, <2>2, <2>3, <2>4, <2>5 DEF IInv
<1>8. CASE StartKill /\ UNCHANGED instance
  <2>1. TypeOK'
    <3>1. ChildTypeOK'
      BY <1>0, <1>8 DEF IInv, TypeOK, ChildTypeOK, ProcessTypeOK, StartKill, Killed
    <3>2. ProcessTypeOK'
      BY <1>0, <1>8 DEF IInv, TypeOK, ProcessTypeOK, StartKill, Killed
    <3> QED
      BY <1>0, <1>8, <3>1, <3>2 DEF IInv, TypeOK, ChildTypeOK, StartKill, Killed
  <2>2. Phases'
    BY <1>0, <1>8 DEF IInv, TypeOK, ChildTypeOK, ProcessTypeOK, Phases, Running, StartKill,
       Killed
  <2>3. Draining'
    BY <1>0, <1>8 DEF IInv, TypeOK, ChildTypeOK, ProcessTypeOK, Phases, Draining, StartKill,
       Killed
  <2>4. Connected'
    BY <1>0, <1>8 DEF IInv, TypeOK, ChildTypeOK, ProcessTypeOK, Phases, Connected, Running,
       StartKill, Killed
  <2>5. Configured'
    BY <1>0, <1>8 DEF IInv, TypeOK, ChildTypeOK, ProcessTypeOK, Phases, Configured, OwnConfig,
       Running, StartKill, Killed
  <2> QED
    BY <2>1, <2>2, <2>3, <2>4, <2>5 DEF IInv
<1>9. CASE (OutputEnds \/ OutputFailed) /\ UNCHANGED instance
  <2> DEFINE t == [s \in Streams |-> IF out[cur][s] = "awaited" THEN "ended" ELSE out[cur][s]]
  <2>a. /\ UNCHANGED <<given, tor, fed, conf, owner, plugin, published, files, conn, orphans,
                       cur, why, state, instance>>
        /\ pc = "drain" /\ Finish(t)
    BY <1>9 DEF OutputEnds, OutputFailed, TaskEnds
  <2>0. /\ out' \in [Runs -> [Streams -> Task]]
        /\ \A n \in Runs \ {cur} : out'[n] = out[n]
        /\ \/ pc' = "drain" /\ out'[cur] \in Awaiting /\ out[cur] \notin Over
           \/ pc' = "drained" /\ out'[cur] \in Over
    <3>1. out[cur] \in Awaiting /\ cur \in Runs /\ TypeOK
      BY <1>0, <2>a DEF IInv, Draining
    <3>2. t \in Kept /\ (out[cur] \in Over => t \in Over)
      BY <3>1 DEF Awaiting, Kept, Over
    <3> HIDE DEF t
    <3> QED  BY <2>a, <3>1, <3>2, Finishing
  <2> HIDE DEF t
  <2>1. TypeOK'
    <3>1. ChildTypeOK'
      BY <1>0, <2>0, <2>a DEF IInv, TypeOK, ChildTypeOK
    <3>2. ProcessTypeOK'
      BY <1>0, <2>0, <2>a DEF IInv, TypeOK, ProcessTypeOK
    <3> QED
      BY <1>0, <2>a, <3>1, <3>2 DEF IInv, TypeOK, ChildTypeOK
  <2>2. Phases'
    BY <1>0, <2>0, <2>a DEF IInv, TypeOK, ChildTypeOK, ProcessTypeOK, Phases, Running
  <2>3. Draining'
    BY <1>0, <2>0, <2>a DEF IInv, Draining
  <2>4. Connected'
    BY <1>0, <2>0, <2>a DEF IInv, TypeOK, ChildTypeOK, ProcessTypeOK, Phases, Connected, Running
  <2>5. Configured'
    BY <1>0, <2>0, <2>a DEF IInv, TypeOK, ChildTypeOK, ProcessTypeOK, Phases, Configured,
       OwnConfig, Running
  <2> QED
    BY <2>1, <2>2, <2>3, <2>4, <2>5 DEF IInv
<1> QED
  BY <1>1, <1>2, <1>3, <1>4, <1>5, <1>6, <1>7, <1>8, <1>9

\* The program dies and is started again.
LEMMA CrashKeepsIInv ==
  ASSUME IInv,
         \/ Crash
         \/ Restart
         \/ UNCHANGED vars
  PROVE  IInv'
<1>0. 0 \notin Runs /\ -1 \notin Runs /\ (pc \notin {"idle", "dead"} => cur \in Runs)
  BY DEF IInv, TypeOK, ProcessTypeOK, Phases, Before, Raised, Used, Stopping, Runs
<1> USE DEF NoConn, Stale, Unread, Default, Torn, given, child, files, process, instance, Goto,
            Before, Raised, Used, Stopping
<1>1. CASE Crash
  <2>1. TypeOK'
    <3>1. ChildTypeOK'
      <4>1. out' \in [Runs -> [Streams -> Task]]
        BY <1>1 DEF IInv, TypeOK, ChildTypeOK, Crash, Task
      <4> QED
        BY <1>0, <1>1, <4>1 DEF IInv, TypeOK, ChildTypeOK, ProcessTypeOK, Crash
    <3>2. ProcessTypeOK'
      BY <1>0, <1>1 DEF IInv, TypeOK, ProcessTypeOK, Crash
    <3> QED
      BY <1>0, <1>1, <3>1, <3>2 DEF IInv, TypeOK, ChildTypeOK, Crash
  <2>2. Phases'
    BY <1>0, <1>1 DEF IInv, TypeOK, ChildTypeOK, ProcessTypeOK, Phases, Running, Crash
  <2>3. Draining'
    <3>1. ASSUME NEW n \in Runs, state'[n] = "stopped" PROVE out'[n] \in Over
      <4>1. out[n] \in Over
        BY <1>1, <3>1 DEF IInv, Draining, Crash
      <4> QED  BY <1>1, <4>1 DEF Crash, Over
    <3> QED
      BY <1>1, <3>1 DEF Draining, Crash
  <2>4. Connected'
    <3>1. \A n \in Runs : state'[n] = "lost" => n \in orphans'
      BY <1>0, <1>1 DEF IInv, TypeOK, ProcessTypeOK, Phases, Runs, Crash
    <3> QED
      BY <1>0, <1>1, <3>1 DEF IInv, Connected, Crash
  <2>5. Configured'
    BY <1>0, <1>1 DEF IInv, TypeOK, ChildTypeOK, ProcessTypeOK, Phases, Configured, OwnConfig,
       Running, Crash
  <2> QED
    BY <2>1, <2>2, <2>3, <2>4, <2>5 DEF IInv
<1>2. CASE Restart
  <2>1. TypeOK'
    <3>1. ChildTypeOK'
      BY <1>0, <1>2 DEF IInv, TypeOK, ChildTypeOK, ProcessTypeOK, Restart
    <3>2. ProcessTypeOK'
      BY <1>0, <1>2 DEF IInv, TypeOK, ProcessTypeOK, Restart
    <3> QED
      BY <1>0, <1>2, <3>1, <3>2 DEF IInv, TypeOK, ChildTypeOK, Restart
  <2>2. Phases'
    BY <1>0, <1>2 DEF IInv, TypeOK, ChildTypeOK, ProcessTypeOK, Phases, Running, Restart
  <2>3. Draining'
    BY <1>0, <1>2 DEF IInv, TypeOK, ChildTypeOK, ProcessTypeOK, Phases, Draining, Restart
  <2>4. Connected'
    BY <1>0, <1>2 DEF IInv, TypeOK, ChildTypeOK, ProcessTypeOK, Phases, Connected, Running,
       Restart
  <2>5. Configured'
    BY <1>0, <1>2 DEF IInv, TypeOK, ChildTypeOK, ProcessTypeOK, Phases, Configured, OwnConfig,
       Running, Restart
  <2> QED
    BY <2>1, <2>2, <2>3, <2>4, <2>5 DEF IInv
<1>3. CASE UNCHANGED vars
  <2>1. TypeOK'
    <3>1. ChildTypeOK'
      BY <1>0, <1>3 DEF IInv, TypeOK, ChildTypeOK, ProcessTypeOK, vars
    <3>2. ProcessTypeOK'
      BY <1>0, <1>3 DEF IInv, TypeOK, ProcessTypeOK, vars
    <3> QED
      BY <1>0, <1>3, <3>1, <3>2 DEF IInv, TypeOK, ChildTypeOK, vars
  <2>2. Phases'
    BY <1>0, <1>3 DEF IInv, TypeOK, ChildTypeOK, ProcessTypeOK, Phases, Running, vars
  <2>3. Draining'
    BY <1>0, <1>3 DEF IInv, TypeOK, ChildTypeOK, ProcessTypeOK, Phases, Draining, vars
  <2>4. Connected'
    BY <1>0, <1>3 DEF IInv, TypeOK, ChildTypeOK, ProcessTypeOK, Phases, Connected, Running, vars
  <2>5. Configured'
    BY <1>0, <1>3 DEF IInv, TypeOK, ChildTypeOK, ProcessTypeOK, Phases, Configured, OwnConfig,
       Running, vars
  <2> QED
    BY <2>1, <2>2, <2>3, <2>4, <2>5 DEF IInv
<1> QED
  BY <1>1, <1>2, <1>3

\* Tor, its plugin and the verification that runs beside.
LEMMA ChildKeepsIInv ==
  ASSUME IInv, NEW n \in Runs,
         \/ ReadConfig(n) /\ UNCHANGED <<process, instance>>
         \/ PublishPort(n) /\ UNCHANGED <<process, instance>>
         \/ StartPlugin(n) /\ UNCHANGED <<process, instance>>
         \/ Exits(n) /\ UNCHANGED <<process, instance>>
         \/ PluginExits(n) /\ UNCHANGED <<process, instance>>
         \/ BlockingStep(n)
  PROVE  IInv'
<1>0. 0 \notin Runs /\ -1 \notin Runs /\ (pc \notin {"idle", "dead"} => cur \in Runs)
  BY DEF IInv, TypeOK, ProcessTypeOK, Phases, Before, Raised, Used, Stopping, Runs
<1> USE DEF NoConn, Stale, Unread, Default, Torn, given, child, files, process, instance, Goto,
            Before, Raised, Used, Stopping
<1>1. CASE ReadConfig(n) /\ UNCHANGED <<process, instance>>
  <2>1. TypeOK'
    <3>1. ChildTypeOK'
      BY <1>0, <1>1 DEF IInv, TypeOK, ChildTypeOK, ProcessTypeOK, ReadConfig, Owning
    <3>2. ProcessTypeOK'
      BY <1>0, <1>1 DEF IInv, TypeOK, ProcessTypeOK, ReadConfig, Owning
    <3> QED
      BY <1>0, <1>1, <3>1, <3>2 DEF IInv, TypeOK, ChildTypeOK, ReadConfig, Owning
  <2>2. Phases'
    BY <1>0, <1>1 DEF IInv, TypeOK, ChildTypeOK, ProcessTypeOK, Phases, Running, ReadConfig,
       Owning
  <2>3. Draining'
    BY <1>0, <1>1 DEF IInv, TypeOK, ChildTypeOK, ProcessTypeOK, Phases, Draining, ReadConfig,
       Owning
  <2>4. Connected'
    BY <1>0, <1>1 DEF IInv, TypeOK, ChildTypeOK, ProcessTypeOK, Phases, Connected, Running,
       ReadConfig, Owning
  <2>5. Configured'
    BY <1>0, <1>1 DEF IInv, TypeOK, ChildTypeOK, ProcessTypeOK, Phases, Configured, OwnConfig,
       Running, ReadConfig, Owning
  <2> QED
    BY <2>1, <2>2, <2>3, <2>4, <2>5 DEF IInv
<1>2. CASE PublishPort(n) /\ UNCHANGED <<process, instance>>
  <2>1. TypeOK'
    <3>1. ChildTypeOK'
      BY <1>0, <1>2 DEF IInv, TypeOK, ChildTypeOK, ProcessTypeOK, PublishPort, Text
    <3>2. ProcessTypeOK'
      BY <1>0, <1>2 DEF IInv, TypeOK, ProcessTypeOK, PublishPort, Text
    <3> QED
      BY <1>0, <1>2, <3>1, <3>2 DEF IInv, TypeOK, ChildTypeOK, PublishPort, Text
  <2>2. Phases'
    BY <1>0, <1>2 DEF IInv, TypeOK, ChildTypeOK, ProcessTypeOK, Phases, Running, PublishPort,
       Text
  <2>3. Draining'
    BY <1>0, <1>2 DEF IInv, TypeOK, ChildTypeOK, ProcessTypeOK, Phases, Draining, PublishPort,
       Text
  <2>4. Connected'
    BY <1>0, <1>2 DEF IInv, TypeOK, ChildTypeOK, ProcessTypeOK, Phases, Connected, Running,
       PublishPort, Text
  <2>5. Configured'
    BY <1>0, <1>2 DEF IInv, TypeOK, ChildTypeOK, ProcessTypeOK, Phases, Configured, OwnConfig,
       Running, PublishPort, Text
  <2> QED
    BY <2>1, <2>2, <2>3, <2>4, <2>5 DEF IInv
<1>3. CASE StartPlugin(n) /\ UNCHANGED <<process, instance>>
  <2>1. TypeOK'
    <3>1. ChildTypeOK'
      BY <1>0, <1>3 DEF IInv, TypeOK, ChildTypeOK, ProcessTypeOK, StartPlugin
    <3>2. ProcessTypeOK'
      BY <1>0, <1>3 DEF IInv, TypeOK, ProcessTypeOK, StartPlugin
    <3> QED
      BY <1>0, <1>3, <3>1, <3>2 DEF IInv, TypeOK, ChildTypeOK, StartPlugin
  <2>2. Phases'
    BY <1>0, <1>3 DEF IInv, TypeOK, ChildTypeOK, ProcessTypeOK, Phases, Running, StartPlugin
  <2>3. Draining'
    BY <1>0, <1>3 DEF IInv, TypeOK, ChildTypeOK, ProcessTypeOK, Phases, Draining, StartPlugin
  <2>4. Connected'
    BY <1>0, <1>3 DEF IInv, TypeOK, ChildTypeOK, ProcessTypeOK, Phases, Connected, Running,
       StartPlugin
  <2>5. Configured'
    BY <1>0, <1>3 DEF IInv, TypeOK, ChildTypeOK, ProcessTypeOK, Phases, Configured, OwnConfig,
       Running, StartPlugin
  <2> QED
    BY <2>1, <2>2, <2>3, <2>4, <2>5 DEF IInv
<1>4. CASE Exits(n) /\ UNCHANGED <<process, instance>>
  <2>1. TypeOK'
    <3>1. ChildTypeOK'
      BY <1>0, <1>4 DEF IInv, TypeOK, ChildTypeOK, ProcessTypeOK, Exits
    <3>2. ProcessTypeOK'
      BY <1>0, <1>4 DEF IInv, TypeOK, ProcessTypeOK, Exits
    <3> QED
      BY <1>0, <1>4, <3>1, <3>2 DEF IInv, TypeOK, ChildTypeOK, Exits
  <2>2. Phases'
    BY <1>0, <1>4 DEF IInv, TypeOK, ChildTypeOK, ProcessTypeOK, Phases, Running, Exits
  <2>3. Draining'
    BY <1>0, <1>4 DEF IInv, TypeOK, ChildTypeOK, ProcessTypeOK, Phases, Draining, Exits
  <2>4. Connected'
    BY <1>0, <1>4 DEF IInv, TypeOK, ChildTypeOK, ProcessTypeOK, Phases, Connected, Running,
       Exits
  <2>5. Configured'
    BY <1>0, <1>4 DEF IInv, TypeOK, ChildTypeOK, ProcessTypeOK, Phases, Configured, OwnConfig,
       Running, Exits
  <2> QED
    BY <2>1, <2>2, <2>3, <2>4, <2>5 DEF IInv
<1>5. CASE PluginExits(n) /\ UNCHANGED <<process, instance>>
  <2>1. TypeOK'
    <3>1. ChildTypeOK'
      BY <1>0, <1>5 DEF IInv, TypeOK, ChildTypeOK, ProcessTypeOK, PluginExits
    <3>2. ProcessTypeOK'
      BY <1>0, <1>5 DEF IInv, TypeOK, ProcessTypeOK, PluginExits
    <3> QED
      BY <1>0, <1>5, <3>1, <3>2 DEF IInv, TypeOK, ChildTypeOK, PluginExits
  <2>2. Phases'
    BY <1>0, <1>5 DEF IInv, TypeOK, ChildTypeOK, ProcessTypeOK, Phases, Running, PluginExits
  <2>3. Draining'
    BY <1>0, <1>5 DEF IInv, TypeOK, ChildTypeOK, ProcessTypeOK, Phases, Draining, PluginExits
  <2>4. Connected'
    BY <1>0, <1>5 DEF IInv, TypeOK, ChildTypeOK, ProcessTypeOK, Phases, Connected, Running,
       PluginExits
  <2>5. Configured'
    BY <1>0, <1>5 DEF IInv, TypeOK, ChildTypeOK, ProcessTypeOK, Phases, Configured, OwnConfig,
       Running, PluginExits
  <2> QED
    BY <2>1, <2>2, <2>3, <2>4, <2>5 DEF IInv
<1>6. CASE BlockingStep(n)
  <2>1. TypeOK'
    <3>1. ChildTypeOK'
      BY <1>0, <1>6 DEF IInv, TypeOK, ChildTypeOK, ProcessTypeOK, BlockingStep, OpenTemp,
         Install, Told, Text
    <3>2. ProcessTypeOK'
      BY <1>0, <1>6 DEF IInv, TypeOK, ProcessTypeOK, BlockingStep, OpenTemp, Install, Told, Text
    <3> QED
      BY <1>0, <1>6, <3>1, <3>2 DEF IInv, TypeOK, ChildTypeOK, BlockingStep, OpenTemp, Install,
         Told, Text
  <2>2. Phases'
    BY <1>0, <1>6 DEF IInv, TypeOK, ChildTypeOK, ProcessTypeOK, Phases, Running, BlockingStep,
       OpenTemp, Install, Told, Text
  <2>3. Draining'
    BY <1>0, <1>6 DEF IInv, TypeOK, ChildTypeOK, ProcessTypeOK, Phases, Draining, BlockingStep,
       OpenTemp, Install, Told, Text
  <2>4. Connected'
    BY <1>0, <1>6 DEF IInv, TypeOK, ChildTypeOK, ProcessTypeOK, Phases, Connected, Running,
       BlockingStep, OpenTemp, Install, Told, Text
  <2>5. Configured'
    <3>1. \A m \in Runs : blocking'[m] \in {"write", "rename", "run"} => m \in late' \/ (m = cur' /\ pc' = "verify")
      BY <1>0, <1>6 DEF IInv, TypeOK, Configured, BlockingStep, OpenTemp, Install, Told, Text
    <3>2. ASSUME NEW m \in Runs, source' = "file", torrc'.text = "whole", Running(m)', conf'[m] = Unread
          PROVE  torrc'.of \in late' \cup {m} \/ (state'[m] = "lost" /\ torrc'.of > m)
      <4>1. CASE UNCHANGED torrc
        BY <1>0, <1>6, <3>2, <4>1 DEF IInv, Configured, Running, BlockingStep, OpenTemp,
           Install, Told, Text
      <4>2. CASE torrc' = [text |-> "whole", of |-> n] /\ n \in late
        BY <1>0, <1>6, <3>2, <4>2 DEF BlockingStep, OpenTemp, Install, Told, Text
      <4>3. CASE torrc' = [text |-> "whole", of |-> n] /\ n = cur /\ pc = "verify"
        <5>1. Running(m) /\ m # cur /\ state[m] = "lost" /\ ~(m > cur)
          BY <1>0, <1>6, <3>2, <4>3 DEF IInv, Phases, Running, BlockingStep, OpenTemp, Install,
             Told, Text
        <5>2. cur > m
          BY <5>1, <4>3 DEF Runs
        <5> QED
          BY <1>0, <1>6, <5>1, <5>2, <4>3 DEF BlockingStep, OpenTemp, Install, Told, Text
      <4> QED
        BY <1>0, <1>6, <4>1, <4>2, <4>3 DEF IInv, Configured, BlockingStep, OpenTemp, Install,
           Told, Text
    <3> QED
      BY <1>0, <1>6, <3>1, <3>2 DEF IInv, Configured, OwnConfig, Running, BlockingStep,
         OpenTemp, Install, Told, Text
  <2> QED
    BY <2>1, <2>2, <2>3, <2>4, <2>5 DEF IInv
<1> QED
  BY <1>1, <1>2, <1>3, <1>4, <1>5, <1>6

\* The steps that may fail.
LEMMA MayFailKeepsIInv ==
  ASSUME IInv,
         \/ VersionDetected
         \/ Verified
         \/ SpawnCleans /\ UNCHANGED instance
         \/ SpawnWrites /\ UNCHANGED instance
         \/ SpawnRenames /\ UNCHANGED instance
         \/ Exec(Spawned) /\ UNCHANGED instance
         \/ StopFails /\ UNCHANGED instance
         \/ OutputDrained /\ UNCHANGED instance
  PROVE  IInv'
<1>1. CASE VersionDetected
  <2>1. CASE pc' # "idle"
    BY <1>1, <2>1, GoesOnKeepsIInv DEF VersionDetected, StartFails, Failed, Goto
  <2>2. CASE pc' = "idle"
    <3>1. Failed /\ UNCHANGED <<given, addr, late>>
      BY <1>1, <2>2 DEF VersionDetected, StartFails, Goto, instance
    <3>2. pc \in Before
      BY <1>1, <2>2 DEF VersionDetected, StartFails, Before, Stopping, Goto
    <3>3. UNCHANGED blocking /\ pc # "verify"
      BY <1>1, <2>2 DEF VersionDetected, StartFails, Goto, instance
    <3> QED
      BY <3>1, <3>2, <3>3, FailedKeepsIInv
  <2> QED
    BY <2>1, <2>2
<1>2. CASE Verified
  <2>1. CASE pc' # "idle"
    BY <1>2, <2>1, GoesOnKeepsIInv DEF Verified, StartFails, Failed, Goto
  <2>2. CASE pc' = "idle"
    <3>1. Failed /\ UNCHANGED <<given, addr, late>>
      BY <1>2, <2>2 DEF Verified, StartFails, Goto, instance
    <3>2. pc \in Before
      BY <1>2, <2>2 DEF Verified, StartFails, Before, Stopping, Goto
    <3>3. blocking' = [blocking EXCEPT ![cur] = "none"]
      BY <1>2, <2>2 DEF Verified, StartFails, Goto, instance
    <3> QED
      BY <3>1, <3>2, <3>3, FailedKeepsIInv
  <2> QED
    BY <2>1, <2>2
<1>3. CASE SpawnCleans /\ UNCHANGED instance
  <2>1. CASE pc' # "idle"
    BY <1>3, <2>1, GoesOnKeepsIInv DEF SpawnCleans, Failed, Goto
  <2>2. CASE pc' = "idle"
    <3>1. Failed /\ UNCHANGED <<given, addr, late>>
      BY <1>3, <2>2 DEF SpawnCleans, Goto, instance
    <3>2. pc \in Before
      BY <1>3, <2>2 DEF SpawnCleans, Before, Stopping, Goto
    <3>3. UNCHANGED blocking /\ pc # "verify"
      BY <1>3, <2>2 DEF SpawnCleans, Goto, instance
    <3> QED
      BY <3>1, <3>2, <3>3, FailedKeepsIInv
  <2> QED
    BY <2>1, <2>2
<1>4. CASE SpawnWrites /\ UNCHANGED instance
  <2>1. CASE pc' # "idle"
    BY <1>4, <2>1, GoesOnKeepsIInv DEF SpawnWrites, Failed, Goto
  <2>2. CASE pc' = "idle"
    <3>1. Failed /\ UNCHANGED <<given, addr, late>>
      BY <1>4, <2>2 DEF SpawnWrites, Goto, instance
    <3>2. pc \in Before
      BY <1>4, <2>2 DEF SpawnWrites, Before, Stopping, Goto
    <3>3. UNCHANGED blocking /\ pc # "verify"
      BY <1>4, <2>2 DEF SpawnWrites, Goto, instance
    <3> QED
      BY <3>1, <3>2, <3>3, FailedKeepsIInv
  <2> QED
    BY <2>1, <2>2
<1>5. CASE SpawnRenames /\ UNCHANGED instance
  <2>1. CASE pc' # "idle"
    BY <1>5, <2>1, GoesOnKeepsIInv DEF SpawnRenames, Failed, Goto
  <2>2. CASE pc' = "idle"
    <3>1. Failed /\ UNCHANGED <<given, addr, late>>
      BY <1>5, <2>2 DEF SpawnRenames, Goto, instance
    <3>2. pc \in Before
      BY <1>5, <2>2 DEF SpawnRenames, Before, Stopping, Goto
    <3>3. UNCHANGED blocking /\ pc # "verify"
      BY <1>5, <2>2 DEF SpawnRenames, Goto, instance
    <3> QED
      BY <3>1, <3>2, <3>3, FailedKeepsIInv
  <2> QED
    BY <2>1, <2>2
<1>6. CASE Exec(Spawned) /\ UNCHANGED instance
  <2>1. CASE pc' # "idle"
    BY <1>6, <2>1, GoesOnKeepsIInv DEF Exec, Spawned, Failed, Goto
  <2>2. CASE pc' = "idle"
    <3>1. Failed /\ UNCHANGED <<given, addr, late>>
      BY <1>6, <2>2 DEF Exec, Spawned, Goto, instance
    <3>2. pc \in Before
      BY <1>6, <2>2 DEF Exec, Spawned, Before, Stopping, Goto
    <3>3. UNCHANGED blocking /\ pc # "verify"
      BY <1>6, <2>2 DEF Exec, Spawned, Goto, instance
    <3> QED
      BY <3>1, <3>2, <3>3, FailedKeepsIInv
  <2> QED
    BY <2>1, <2>2
<1>7. CASE StopFails /\ UNCHANGED instance
  <2>1. CASE pc' # "idle"
    BY <1>7, <2>1, GoesOnKeepsIInv DEF StopFails, Returned, Failed, Goto
  <2>2. CASE pc' = "idle"
    <3>1. Failed /\ UNCHANGED <<given, addr, late>>
      BY <1>7, <2>2 DEF StopFails, Returned, Goto, instance
    <3>2. pc \in Stopping /\ why \in {"err", "spawn"}
      BY <1>7, <2>2 DEF StopFails, Returned, Before, Stopping, Goto
    <3>3. UNCHANGED blocking /\ pc # "verify"
      BY <1>7, <2>2 DEF StopFails, Returned, Goto, instance
    <3> QED
      BY <3>1, <3>2, <3>3, FailedKeepsIInv
  <2> QED
    BY <2>1, <2>2
<1>8. CASE OutputDrained /\ UNCHANGED instance
  <2>1. CASE pc' # "idle"
    BY <1>8, <2>1, GoesOnKeepsIInv DEF OutputDrained, Returned, Failed, Goto
  <2>2. CASE pc' = "idle"
    <3>1. Failed /\ UNCHANGED <<given, addr, late>>
      BY <1>8, <2>2 DEF OutputDrained, Returned, Goto, instance
    <3>2. pc \in Stopping /\ why \in {"err", "spawn"}
      BY <1>8, <2>2 DEF OutputDrained, Returned, Before, Stopping, Goto
    <3>3. UNCHANGED blocking /\ pc # "verify"
      BY <1>8, <2>2 DEF OutputDrained, Returned, Goto, instance
    <3> QED
      BY <3>1, <3>2, <3>3, FailedKeepsIInv
  <2> QED
    BY <2>1, <2>2
<1> QED
  BY <1>1, <1>2, <1>3, <1>4, <1>5, <1>6, <1>7, <1>8

LEMMA StepKeepsIInv == IInv /\ [Next]_vars => IInv'
<1> SUFFICES ASSUME IInv, [Next]_vars PROVE IInv'
  OBVIOUS
<1>1. CASE Begin
  BY <1>1, SpawnKeepsIInv
<1>2. CASE CallStep
  BY <1>2, MayFailKeepsIInv, SpawnKeepsIInv, BringUpKeepsIInv, StopKeepsIInv
     DEF CallStep, SpawnStep, StopStep
<1>3. CASE StartDropped
  BY <1>3, DroppedKeepsIInv
<1>4. CASE OtherStep
  BY <1>4, DroppedKeepsIInv, StopKeepsIInv, MayFailKeepsIInv DEF OtherStep
<1>5. CASE Crash \/ Restart \/ UNCHANGED vars
  BY <1>5, CrashKeepsIInv
<1>6. ASSUME NEW n \in Runs, BlockingStep(n) \/ Child(n) PROVE IInv'
  BY <1>6, ChildKeepsIInv DEF Child, ChildStep
<1> QED
  BY <1>1, <1>2, <1>3, <1>4, <1>5, <1>6 DEF Next

LEMMA InitIInv == Init => IInv
<1> SUFFICES ASSUME Init PROVE IInv
  OBVIOUS
<1> USE DEF Init, ChildInit, ProcessInit, Text, Stale, Unread, Default, NoConn
<1>1. TypeOK
  <2>1. ChildTypeOK
    <3>1. [s \in Streams |-> "none"] \in [Streams -> Task]
      BY DEF Task
    <3> QED
      BY <3>1 DEF ChildTypeOK
  <2>2. ProcessTypeOK
    <3>1. cur \in 0 .. MaxRuns
      BY MaxRunsAssumption
    <3> QED
      BY <3>1 DEF ProcessTypeOK, Stopping
  <2> QED
    BY <2>1, <2>2 DEF TypeOK
<1>2. Phases /\ Draining
  BY DEF Phases, Draining, Before, Raised, Used, Stopping, Running
<1>3. Connected /\ Configured
  BY DEF Connected, Configured, OwnConfig, Before, Raised, Used, Stopping, Running, Runs
<1> QED
  BY <1>1, <1>2, <1>3 DEF IInv

LEMMA IInvHolds == Spec => []IInv
  BY InitIInv, StepKeepsIInv, PTL DEF Spec

-----------------------------------------------------------------------------
(* The theorems.                                                           *)

\* Every variable keeps its type; the configuration file never holds a part of a text.
THEOREM TypeCorrect == Spec => []TypeOK
<1>1. IInv => TypeOK
  BY DEF IInv
<1> QED
  BY <1>1, IInvHolds, PTL

\* A shutdown that has returned Ok has waited for the child and read both streams of its
\* output, but for one whose task an earlier call had taken when it was dropped.
THEOREM StopsDrained == Spec => []Drained
<1>1. IInv => Drained
  BY DEF IInv, Phases, Draining, Drained, Over
<1> QED
  BY <1>1, IInvHolds, PTL

\* An instance talks to the Tor it spawned, or to one that a dead program has left, and
\* owns it.
THEOREM TalksToOwnTor == Spec => []OwnTor
<1>1. IInv => OwnTor
  BY DEF IInv, Connected, OwnTor, Used
<1> QED
  BY <1>1, IInvHolds, PTL

\* A Tor has read the whole configuration of its own start, or of one whose verification
\* went on after it was dropped, but for Tors whose program has died.
THEOREM ReadsOwnConfig == Spec => []OwnConfig
<1>1. IInv => OwnConfig
  BY DEF IInv, Configured
<1> QED
  BY <1>1, IInvHolds, PTL

-----------------------------------------------------------------------------
(* TorInstance implements TorRuns.                                         *)

\* Steps that change neither what became of the starts nor which Tors run.
LEMMA Stutters ==
  ASSUME UNCHANGED state, \A n \in Runs : Running(n)' <=> Running(n)
  PROVE  UNCHANGED Promise!vars
  BY DEF Promise!vars

\* The end of a start or of an instance: Tor no longer runs.
LEMMA Ends ==
  ASSUME TypeOK, cur \in Runs, Release,
         \/ state[cur] = "starting" /\ (Becomes("failed") \/ Becomes("left"))
         \/ state[cur] = "ok" /\ Becomes("left")
         \/ UNCHANGED state
  PROVE  Promise!Next
<1>1. \A n \in Runs : Running(n)' <=> Running(n) /\ n # cur
  BY ReleaseEffect DEF Running
<1>2. {n \in Runs : Running(n)}' = {n \in Runs : Running(n)} \ {cur}
  BY <1>1
<1> QED
  BY <1>2 DEF Promise!Next, Promise!Fail, Promise!Leave, Promise!Die, Promise!Becomes, Becomes

\* Tor dies within a run that goes on.
LEMMA Dies ==
  ASSUME NEW n \in Runs, UNCHANGED state, \A m \in Runs : Running(m)' <=> Running(m) /\ m # n
  PROVE  Promise!Next
<1>1. {m \in Runs : Running(m)}' = {m \in Runs : Running(m)} \ {n}
  OBVIOUS
<1> QED
  BY <1>1 DEF Promise!Next, Promise!Die

LEMMA StepKeepsPromise == IInv /\ [Next]_vars => [Promise!Next]_(Promise!vars)
<1> SUFFICES ASSUME IInv, [Next]_vars PROVE Promise!Next \/ UNCHANGED Promise!vars
  OBVIOUS
<1> USE DEF given, child, files, process, instance
<1>0. TypeOK /\ (pc \notin {"idle", "dead"} => cur \in Runs)
  BY DEF IInv, Phases, TypeOK, ProcessTypeOK, Before, Raised, Used, Stopping
<1>1. CASE Begin
  <2>1. cur' = cur + 1 /\ cur' \in Runs /\ UNCHANGED tor
    BY <1>0, <1>1, MaxRunsAssumption DEF Begin, TypeOK, ProcessTypeOK, Runs
  <2>2. /\ state[cur'] = "unused" /\ tor[cur'] = "none"
        /\ \A m \in Runs : state[m] \notin {"starting", "ok"}
    <3>1. pc = "idle" /\ cur' > cur
      BY <1>0, <1>1, <2>1 DEF Begin, TypeOK, ProcessTypeOK
    <3> QED
      BY <2>1, <3>1 DEF IInv, Phases
  <2>3. {n \in Runs : Running(n)}' = {n \in Runs : Running(n)} /\ ~Running(cur')
    BY <2>1, <2>2 DEF Running
  <2>4. state' = [state EXCEPT ![cur'] = "starting"] \/ state' = [state EXCEPT ![cur'] = "failed"]
    BY <1>1, <2>1 DEF Begin
  <2> QED
    BY <2>1, <2>2, <2>3, <2>4 DEF Promise!Next, Promise!Begin, Promise!Fail, Promise!Becomes
<1>2. CASE Exec(Spawned) /\ UNCHANGED instance
  <2>1. CASE Failed
    BY <1>0, <1>2, <2>1, Ends DEF Failed, Exec, IInv, Phases, Before
  <2>2. CASE ~Failed
    <3>1. pc = "exec" /\ cur \in Runs /\ state[cur] = "starting"
      BY <1>2 DEF Exec, IInv, Phases, Before
    <3>2. tor' = [tor EXCEPT ![cur] = "running"] /\ (UNCHANGED state \/ Becomes("ok"))
      BY <1>2, <2>2 DEF Exec
    <3>3. \A n \in Runs : Running(n)' <=> Running(n) \/ n = cur
      BY <1>0, <3>1, <3>2 DEF TypeOK, ChildTypeOK, Running
    <3>4. {n \in Runs : Running(n)}' = {n \in Runs : Running(n)} \cup {cur}
      BY <3>1, <3>3
    <3> QED
      BY <3>1, <3>2, <3>4 DEF Promise!Next, Promise!Launch, Promise!Becomes, Becomes
  <2> QED
    BY <2>1, <2>2
<1>3. CASE (StdinWritten(Spawned) /\ UNCHANGED instance) \/ SocksListener
  <2>1. cur \in Runs /\ state[cur] = "starting" /\ UNCHANGED tor
        /\ (UNCHANGED state \/ Becomes("ok"))
    BY <1>3 DEF StdinWritten, SocksListener, Advance, IInv, Phases, Raised
  <2>2. {n \in Runs : Running(n)}' = {n \in Runs : Running(n)}
    BY <2>1 DEF Running
  <2> QED
    BY <2>1, <2>2 DEF Promise!vars, Promise!Next, Promise!Succeed, Promise!Becomes, Becomes
<1>4. CASE StdinFails \/ StopTimeout \/ (StartKill /\ UNCHANGED instance)
  <2>1. cur \in Runs /\ tor' = Killed /\ UNCHANGED state
    BY <1>0, <1>4 DEF StdinFails, StopTimeout, StartKill
  <2>2. \A n \in Runs : Running(n)' <=> Running(n) /\ n # cur
    BY <1>0, <2>1 DEF TypeOK, ChildTypeOK, Running, Killed
  <2> QED
    BY <2>1, <2>2, Dies
<1>5. CASE VersionDetected \/ Verified \/ SpawnCleans \/ SpawnWrites \/ SpawnRenames
  <2>1. CASE Failed
    BY <1>0, <1>5, <2>1, Ends
       DEF VersionDetected, Verified, SpawnCleans, SpawnWrites, SpawnRenames, Failed,
           IInv, Phases, Before
  <2>2. CASE ~Failed
    <3>1. UNCHANGED <<tor, state>>
      BY <1>5, <2>2
         DEF VersionDetected, Verified, StartFails, SpawnCleans, SpawnWrites, SpawnRenames
    <3> QED
      BY <3>1, Stutters DEF Running
  <2> QED
    BY <2>1, <2>2
<1>6. CASE PortRead \/ Connect \/ Authenticate \/ Bootstrap \/ StartupFails \/ StopAsks
           \/ Shutdown \/ Wait \/ CallDropped \/ OutputEnds \/ OutputFailed
           \/ Restart \/ UNCHANGED vars
  <2>1. UNCHANGED <<tor, state>>
    BY <1>6 DEF PortRead, Connect, Authenticate, Bootstrap, StartupFails, StopAsks,
                Shutdown, Wait, Call, CallDropped, OutputEnds, OutputFailed, TaskEnds,
                Restart, Advance, vars
  <2> QED
    BY <2>1, Stutters DEF Running
<1>7. CASE ChildReaped \/ TryWait
  <2>1. cur \in Runs /\ ~Running(cur) /\ tor' = [tor EXCEPT ![cur] = "gone"] /\ UNCHANGED state
    BY <1>0, <1>7 DEF ChildReaped, TryWait, Running
  <2>2. \A n \in Runs : Running(n)' <=> Running(n)
    BY <1>0, <2>1 DEF TypeOK, ChildTypeOK, Running
  <2> QED
    BY <2>1, <2>2, Stutters
<1>8. CASE StopFails \/ OutputDrained
  <2>0. pc \in Stopping /\ cur \in Runs
    BY <1>0, <1>8 DEF StopFails, OutputDrained, Stopping
  <2>1. CASE why \in {"err", "spawn"}
    <3>1. Failed /\ state[cur] = "starting"
      BY <1>8, <2>0, <2>1 DEF StopFails, OutputDrained, Returned, IInv, Phases
    <3> QED
      BY <1>0, <2>0, <3>1, Ends DEF Failed
  <2>2. CASE why \notin {"err", "spawn"}
    <3>1. UNCHANGED tor
      BY <1>8, <2>2 DEF StopFails, OutputDrained, Returned
    <3>2. {n \in Runs : Running(n)}' = {n \in Runs : Running(n)}
      BY <3>1 DEF Running
    <3>3. CASE UNCHANGED state
      BY <3>1, <3>3, Stutters DEF Running
    <3>4. CASE state' # state
      <4>1. OutputDrained /\ state[cur] = "ok" /\ Becomes("stopped")
        BY <1>0, <1>8, <2>2, <3>4
           DEF StopFails, OutputDrained, Returned, Becomes, TypeOK, ProcessTypeOK
      <4>2. ~Running(cur)
        BY <4>1 DEF OutputDrained, IInv, Phases, Running
      <4> QED
        BY <2>0, <3>2, <4>1, <4>2 DEF Promise!Next, Promise!Stop, Promise!Becomes, Becomes
    <3> QED
      BY <3>3, <3>4
  <2> QED
    BY <2>1, <2>2
<1>9. CASE StartDropped \/ (Drop /\ UNCHANGED instance)
  <2>1. /\ Release /\ cur \in Runs
        /\ \/ state[cur] \in {"starting", "ok"} /\ Becomes("left")
           \/ UNCHANGED state
    BY <1>0, <1>9 DEF StartDropped, SpawnDropped, Drop, IInv, Phases, Before, Raised, Stopping
  <2> QED
    BY <1>0, <2>1, Ends
<1>10. CASE Crash
  <2>1. CASE \E n \in Runs : state[n] \in {"starting", "ok"}
    <3>1. cur \in Runs /\ state[cur] \in {"starting", "ok"} /\ UNCHANGED tor
          /\ \A n \in Runs \ {cur} : state[n] \notin {"starting", "ok"}
      BY <1>10, <2>1 DEF Crash, IInv, Phases
    <3>2. Becomes("lost")
      BY <1>0, <1>10, <3>1 DEF Crash, Becomes, TypeOK, ProcessTypeOK
    <3>3. {n \in Runs : Running(n)}' = {n \in Runs : Running(n)}
      BY <3>1 DEF Running
    <3> QED
      BY <3>1, <3>2, <3>3 DEF Promise!Next, Promise!Crash, Promise!Becomes, Becomes
  <2>2. CASE ~ \E n \in Runs : state[n] \in {"starting", "ok"}
    <3>1. UNCHANGED <<tor, state>>
      BY <1>0, <1>10, <2>2 DEF Crash, TypeOK, ProcessTypeOK
    <3> QED
      BY <3>1, Stutters DEF Running
  <2> QED
    BY <2>1, <2>2
<1>11. ASSUME NEW n \in Runs, BlockingStep(n) \/ Child(n)
       PROVE  Promise!Next \/ UNCHANGED Promise!vars
  <2>1. CASE Exits(n)
    <3>1. UNCHANGED state /\ tor' = [tor EXCEPT ![n] = "exited"]
      BY <1>11, <2>1 DEF Exits, Child, BlockingStep
    <3>2. \A m \in Runs : Running(m)' <=> Running(m) /\ m # n
      BY <1>0, <3>1 DEF TypeOK, ChildTypeOK, Running
    <3> QED
      BY <3>1, <3>2, Dies
  <2>2. CASE ~Exits(n)
    <3>1. UNCHANGED <<tor, state>>
      BY <1>11, <2>2 DEF BlockingStep, Child, ChildStep, ReadConfig, PublishPort, StartPlugin,
                         PluginExits
    <3> QED
      BY <3>1, Stutters DEF Running
  <2> QED
    BY <2>1, <2>2
<1> QED
  BY <1>1, <1>2, <1>3, <1>4, <1>5, <1>6, <1>7, <1>8, <1>9, <1>10, <1>11
     DEF Next, CallStep, SpawnStep, StopStep, OtherStep

\* A start that failed or was dropped and a dropped instance leave no Tor running, a stop
\* returns Ok when Tor is gone, and only the death of the program leaves one behind.
THEOREM KeepsPromise == Spec => PromiseKept
<1>1. Init => Promise!Init
  BY DEF Init, ChildInit, ProcessInit, Promise!Init, Running
<1> QED
  BY <1>1, StepKeepsPromise, IInvHolds, PTL DEF Spec, PromiseKept, Promise!Spec
=============================================================================
