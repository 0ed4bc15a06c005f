------------------------------ MODULE TorChild ------------------------------
(***************************************************************************)
(* The Tor processes that the program spawns, one per run, and what they   *)
(* share with it: standard input, the output pipes, the configuration file,*)
(* the control port file, the owning process id and the owning connection. *)
(* Tor's side is modelled from what tor/process.rs, tor/instance and       *)
(* tor/controller rely on; a transport plugin is a child of Tor that       *)
(* inherits its output.                                                    *)
(***************************************************************************)
EXTENDS Integers

CONSTANTS MaxRuns  \* bound: how many runs are begun

ASSUME MaxRunsAssumption == MaxRuns \in Nat \ {0}

Runs == 1 .. MaxRuns

Streams == {"stdout", "stderr"}

CONSTANTS Levels     \* what callers start: "instance", "process" or both

ASSUME LevelsAssumption == Levels \subseteq {"instance", "process"}

VARIABLES
  level,      \* a TorInstance, or a TorProcess by itself (low_level)
  source,     \* TorConfigSource: "stdin" or "file"
  tor,        \* tor[n]: "none", "running", "exited" (not waited for), "gone"
  fed,        \* fed[n]: Tor's standard input: "null", "open", "fed", "closed" unfed
  conf,       \* conf[n]: the configuration Tor has read
  owner,      \* owner[n]: what ends Tor with its user: "none", "process", "connection"
  plugin,     \* plugin[n]: a plugin of Tor holds its output pipes
  published,  \* the runs whose Tor has written its control port
  out,        \* out[n][s]: what became of the task that drains stream s of run n
  torrc,      \* the configuration file: its text and the run that wrote it
  portFile,   \* the control port file: its text and the run that wrote it
  conn,       \* the run whose Tor the controller is connected to
  orphans     \* the runs of a program that has died

given == <<level, source>>
child == <<tor, fed, conf, owner, plugin, published, out>>
files == <<torrc, portFile>>

\* What conf[n] may hold beside a run: nothing yet, no configuration at all (Tor's
\* defaults), a part of one.
Unread == 0
Default == -1
Torn == -2

Stale  == 0   \* the writer of a file that an earlier program has left
NoConn == -1

Text(t, n) == [text |-> t, of |-> n]

\* drain_output reads on by itself, and its end shows when its handle is awaited: it is
\* held by the process, taken and awaited by a call, and the task then awaited to its
\* end, aborted with the process, or detached with the call.
Task == {"none", "held", "awaited", "ended", "aborted", "detached"}

\* The destination of the configuration never holds a part of one, and no Tor reads one.
ChildTypeOK ==
  /\ level \in Levels /\ source \in {"stdin", "file"}
  /\ tor \in [Runs -> {"none", "running", "exited", "gone"}]
  /\ fed \in [Runs -> {"null", "open", "fed", "closed"}]
  /\ conf \in [Runs -> Runs \cup {Unread, Default}]
  /\ owner \in [Runs -> {"none", "process", "connection"}]
  /\ plugin \in [Runs -> BOOLEAN]
  /\ published \in SUBSET Runs
  /\ out \in [Runs -> [Streams -> Task]]
  /\ torrc \in [text : {"none", "whole"}, of : Runs \cup {Stale}]
  /\ portFile \in [text : {"none", "part", "whole"}, of : Runs \cup {Stale}]
  /\ conn \in Runs \cup {Stale, NoConn}
  /\ orphans \in SUBSET Runs

\* A root directory that an earlier program may have used.
ChildInit ==
  /\ level \in Levels /\ source \in {"stdin", "file"}
  /\ tor = [n \in Runs |-> "none"] /\ fed = [n \in Runs |-> "null"]
  /\ conf = [n \in Runs |-> Unread] /\ owner = [n \in Runs |-> "none"]
  /\ plugin = [n \in Runs |-> FALSE] /\ published = {}
  /\ out = [n \in Runs |-> [s \in Streams |-> "none"]]
  /\ torrc = Text("none", Stale)
  /\ portFile \in {Text("none", Stale), Text("whole", Stale)}
  /\ conn = NoConn /\ orphans = {}

Running(n) == n \in Runs /\ tor[n] = "running"

-----------------------------------------------------------------------------

\* Faulty: the process id is left out.
OwningNobody(c) == "none"

\* The configuration of an instance names the program as Tor's owner.
Owning(c) == IF level = "instance" /\ c \in Runs THEN "process" ELSE "none"

\* Tor reads its configuration, to the end of standard input or from the file, and
\* locks its data directory, which is that of every run.
ReadConfig(n) ==
  /\ Running(n) /\ conf[n] = Unread
  /\ \E c \in Runs \cup {Default, Torn} :
       /\ \/ source = "stdin" /\ fed[n] = "fed" /\ c = n
          \/ source = "stdin" /\ fed[n] = "closed" /\ c = Default
          \/ source = "file" /\ torrc.text = "whole" /\ c = torrc.of
          \/ source = "file" /\ torrc.text = "part" /\ c = Torn
       /\ c \in Runs => \A m \in Runs : Running(m) => conf[m] \notin Runs
       /\ conf' = [conf EXCEPT ![n] = c]
       /\ owner' = [owner EXCEPT ![n] = Owning(c)]
  /\ UNCHANGED <<given, tor, fed, plugin, published, out, files, conn, orphans>>

\* Tor writes its control port; the file may be seen empty or without its endpoint.
PublishPort(n) ==
  /\ Running(n) /\ conf[n] \in Runs /\ n \notin published
  /\ \E t \in {"part", "whole"} :
       /\ portFile' = Text(t, n) /\ portFile' # portFile
       /\ published' = IF t = "whole" THEN published \cup {n} ELSE published
  /\ UNCHANGED <<given, tor, fed, conf, owner, plugin, out, torrc, conn, orphans>>

StartPlugin(n) ==
  /\ Running(n) /\ conf[n] \in Runs /\ ~plugin[n]
  /\ plugin' = [plugin EXCEPT ![n] = TRUE]
  /\ UNCHANGED <<given, tor, fed, conf, owner, published, out, files, conn, orphans>>

\* The program whose process id is in Tor's configuration has died, or the connection
\* that owns Tor is closed.
OwnerGone(n) ==
  \/ owner[n] = "process" /\ conf[n] \in orphans
  \/ owner[n] = "connection" /\ conn # n

\* Tor exits: it rejects its configuration, fails, was asked to or lost its owner.
Exits(n) ==
  /\ Running(n)
  /\ tor' = [tor EXCEPT ![n] = "exited"]
  /\ UNCHANGED <<given, fed, conf, owner, plugin, published, out, files, conn, orphans>>

PluginExits(n) ==
  /\ plugin[n] /\ ~Running(n)
  /\ plugin' = [plugin EXCEPT ![n] = FALSE]
  /\ UNCHANGED <<given, tor, fed, conf, owner, published, out, files, conn, orphans>>

\* Nobody holds the output pipes of run n: to read them comes to an end.
PipesClosed(n) == ~Running(n) /\ ~plugin[n]

ChildStep(n) ==
  ReadConfig(n) \/ PublishPort(n) \/ StartPlugin(n) \/ Exits(n) \/ PluginExits(n)
=============================================================================
