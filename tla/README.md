# torlane in TLA+

torlane is a Rust library that runs one Tor process and offers its callers a pool
of *lanes*: SOCKS credentials that Tor isolates from each other, replaced
("rotated") by age, by number of assignments, by hand, and all at once when Tor
is restarted. It configures that Tor with a typed model of its options, spawns and
supervises it, and controls it over its Control Port. This directory holds the TLA+ models of it, the TLC configurations
that check them and the TLAPS proofs about them. Paths below are relative to the
repository (`src/pool/manager.rs` is the crate's `pool/manager.rs`).

    Lanes.tla           one lane and its rotation (pool/lane.rs)
    TorPool.tla         the pool: handles, shared state, manager task (pool/manager.rs)
    PoolHistory.tla     TorPool with a history variable: proxies handed out per generation
    PoolService.tla     what a pool promises to the tasks that share it
    PoolClaims.tla      what comments and the README say where the code does otherwise
    TorPoolProofs.tla   TLAPS proofs about TorPool: types, repair of lost updates, unique
                        generations, live addresses
    TorPoolCalls.tla    proofs: one answer for each waiting caller, complete shutdown, what
                        an Ok is worth, TorPool implements PoolService
    PoolHistoryProofs.tla  proof: proxies handed out are counted
    ControlService.tla  what a Control Port client promises to the tasks that share it
    ControlClient.tla   the client, its actor, the connection and Tor (tor/controller/)
    ControlClientProofs.tla  proofs: replies, ownership, ControlClient implements ControlService
    TorRuns.tla         what starting and stopping Tor promises
    TorChild.tla        the children: their input, output, files, owner (external)
    TorProcess.tla      the handle of a child: spawn, stop, wait, drop (tor/process.rs)
    TorInstance.tla     a start step by step, the instance's life, crashes (tor/instance/)
    TorInstanceProofs.tla  proofs: types, ownership, configuration, TorInstance implements TorRuns
    TorConfig.tla       the values of a configuration (tor/torc/)
    TorConfigBuilder.tla  the builder, its checks, the managed configuration
    TorrcFile.tla       the rendered lines, and how Tor reads them (render.rs)
    ControlCodec.tla    replies as text, and what the client finds in them (codec.rs, auth.rs)
    TorStartup.tla      from a configuration to a Tor that is up, over those texts
    ControlCodecProofs.tla  proofs: what the codec reads in every text; induction, concatenation
    TorConfigProofs.tla proofs: what the builder accepts, what a managed pool builds, that
                        Tor reads back what was set
    TorStartupProofs.tla  proofs: replies are framed, the server has proved itself, failures
                        have a cause, a managed pool's Tor comes up, types
    MC*.tla, *.cfg      the instances TLC checks

## 1. Inventory

| Part | State | Operations | Interaction |
|---|---|---|---|
| Pool handles (`pool/manager.rs`, `Pool`) | shared `PoolInner`: `ready`, `unavailable`, `cursor`, `closed`, command sender, task handle | `next`, `for_key`, `rotate`, `restart`, `shutdown`; dropping the last handle | locks and atomics shared by all callers and the manager; commands through an unbounded channel, answers through oneshots |
| Manager task (`run_manager`, `ManagerState`) | the lanes, the run-time address, the `TorInstance` | `assign`, `rotate`, `rotate_expired`, `restart`, `shutdown_instance`, `publish_ready` | one command or one tick at a time; writes `ready` and `unavailable` |
| Lanes (`pool/lane.rs`) | epoch, credentials, assignments, age, state | `Lane::new`, `rotate_lane` | owned by the manager; endpoints are shared immutable values |
| Selection (`pool/select.rs`) | the cursor; a key's hash | `stable_lane_index`, `Proxy` and its URL | called by the handles |
| Pool configuration (`pool/config.rs`, `pool/builder.rs`, `rotation.rs`, `config.rs`) | validated scalars | builders, `validate`, `start` | `start` begins a `TorInstance` and wraps it in a pool |
| Tor instance (`tor/instance/`) | layout, process, controller, SOCKS address | `start` (verify, spawn, wait for the control port file, authenticate, bootstrap, discover), `shutdown` | used by the manager for start and restart |
| Tor process (`tor/process.rs`) | child, two output tasks, configuration file | `spawn`, `shutdown` (SIGTERM, 5 s, kill), `wait`, drop | operating system |
| Control client (`tor/controller/client.rs`, `mod.rs`) | channel of 32 commands, one connection | `command`, `wait_bootstrap`, `socks_listener`, `wait_control_port_file` | any number of callers, one actor task |
| Control codec, authentication (`codec.rs`, `auth.rs`) | none, pure but for the reads | `read_reply`, choice of a method, SAFECOOKIE | used by the actor |
| Verification, version (`tor/verify.rs`, `tor/version.rs`) | none | one child process each, the verification in a thread that nothing cancels | before a spawn; the verification writes the file that the spawn writes too |
| torrc model and rendering (`tor/torc/`) | option values | builders, `validate`, `render` | gives the configuration of a spawn |
| Identity pool (`tor/identity.rs`) | none | generator of credentials | none with the lanes |
| reqwest integration (`reqwest.rs`), errors, facade | none | builds clients from a `Proxy` | calls `next` and `for_key` |

What makes each correct, and what is hard about it:

* **Pool and manager.** `ready` and `unavailable` are behind separate locks, each
  taken and released on its own, and both the callers and the manager
  read-modify-write them. A rotation in a caller thus overlaps with other
  rotations, ticks, restarts and shutdowns at five points. Correct means: lost
  updates of `ready` are repaired, no working lane stays hidden, an address of a
  stopped Tor is not handed out for ever, every waiting call is answered, an `Ok`
  means what it says, and shutting down really stops Tor.
* **Lanes.** A generation is never reused, also at the last epoch and when
  randomness fails half-way through a restart or a tick.
* **Tor instance and process.** Whatever step of a start fails or is dropped, no
  child is left running; the graceful stop races its timeout; the output pipes may
  outlive the child. Files survive runs: a control port file of an earlier Tor must not
  lead the controller to a stranger, and a configuration file that a late verification
  or a dead program has written must not configure the wrong Tor.
* **Control client.** Replies match commands when callers give up; a connection
  that ends fails all commands, those in the channel included.
* **Configuration.** What is accepted can be listened on and reached by its owner only,
  and Tor reads back what was set: the order of the lines, the last word of a raw option,
  the arithmetic of ranges at the last port.
* **Codec, authentication.** A reply is framed by status lines, dot-escaped bodies and
  the end of the stream; paths come quoted; the client must not prove that it knows the
  cookie before the server has.

`PROJECT.json` lists each hazard at its line.

## 2. How the model corresponds to the code

### Lanes

`RotateLane` is `rotate_lane`: epoch + 1 by `checked_add`, new credentials, zero
assignments, `Ready`, or an error that leaves the lane `Retiring` on its old
generation. `Regenerate` adds what each of its callers in the manager makes of
the error (`Failed`). Credentials are 32 random bytes drawn for one lane and
epoch; the pair `(lane, epoch)` stands for them. An address and an instance are
the number of the *run* of Tor they belong to. `MaxEpoch` stands for `u64::MAX`.

### TorPool

| Variable | Code |
|---|---|
| `ready`, `unavailable`, `closed`, `handle`, `queue` | `PoolInner::ready`, `unavailable`, `closed`, `manager_task` (is `Some`), the command channel |
| `lanes`, `runtime`, `tor` | `ManagerState::lanes`, `runtime`, `instance` (the run it is, 0 for `None`) |
| `runs` | how many times Tor was started: names the next run |
| `expired` | the lanes whose `created_at` is older than the duration limit |
| `mpc`, `serving`, `outcome`, `pending`, `todo` | where the manager's future is suspended, and its locals: the command served, its result, the computed set, the lanes restart has still to rotate |
| `pc`, `op`, `arg`, `snap`, `reply` | where a caller is, its operation, the lane, its copy of `ready` (or the endpoint it chose), what its oneshot holds |

Each access to a piece of shared state is an action of its own, so everything
that can run in between does. A caller's `rotate` is `Call`, `ReadRotate`,
`InsertUnavailable`, `WriteFiltered`, `SendRotate`, `Return`. A publication is
`Compute` (under the lock of `unavailable`) and `Publish` (under that of
`ready`). `restart` is `RestartBegin`, `RestartMark`, `RestartStop` or
`RestartStopFails`, `RestartStart` or `RestartStartFails`, one `RestartLane` per
lane in order, and a publication. Purely local work between two accesses is
merged with the access before it. `Cancel` drops a future at one of its
await points; `Drop` lets a handle go; `Age` is the passing of time.

Simplifications, each of them on data and not on control:

* `ready` is a set: the order of the vector matters only to the round robin of
  `next`, which here takes any published endpoint, as `for_key` takes any lane.
* A call that returns at once and changes nothing (closed, unknown lane) is a
  stuttering step.
* `RestartUnavailable` is not modelled: production pools are all built by
  `from_instance`, which keeps the instance configuration; only the unit tests'
  constructor lacks it.
* A start and a stop of Tor are one step each, which succeeds or fails; `TorInstance`
  has what is inside, and `TorRuns` says why one step is enough (see below). When the
  stop fails the instance is dropped, and `TorProcess::drop` kills it; hence `tor' = 0`.
* The tick handles all lanes in one step: no other task can see `lanes`, and
  `ready` is written once, afterwards, in `Publish`.
* `Init` is a pool that has come to be. When the randomness of its first lanes fails,
  `from_instance` shuts the instance down and returns the error: no pool exists then, and
  its handle, queue and task never do.

### PoolHistory and PoolClaims

`PoolHistory` adds `handed`, the number of proxies of a lane's current generation
that calls have returned; the code keeps no such count, it is what the assignment
limit is meant to measure. `PoolClaims` holds the statements under 5.

### PoolService

The pool as its callers may think of it: a server that does one call after the other. It knows
of each lane the endpoint that its generation has (`given`), the run of Tor that is up and how
many there were (`run`, `runs`), the lanes a restart has yet to renew (`todo`), whether anybody is
served (`status`), and of each client its call and what became of it (`call`). `Rotate` does a
rotation and decides its answer in one step, `Expire` one that nobody waits for (age, the
assignment limit, a caller that has given up); a restart is `Begin`, `Down`, `Up`, one `Renew` per lane; a
shutdown `Begin` and `Stop`; `Close` tells the rest that the pool is closed. No other call is done
between `Begin` and the end of a restart (`Free`).

The map is at the end of `TorPool`. A call exists while its client waits (`pc = "wait"`), so `next`,
`for_key` and a second shutdown, which ask the manager for nothing that is waited for, are none of
the service's calls. The manager decides an answer when it has done the work and turns to the
publication (`At`): that is the point at which a rotation takes effect, whatever hiding, filtering
and publishing of `ready` goes on around it. What callers find in `ready` in the meantime is not
the service's business; `ReadyRepaired`, `RotateAnswered` and `RestartAnswered` are about that.

### ControlClient and ControlService

| Variable | Code |
|---|---|
| `channel` | the bounded channel of commands (`COMMAND_BUFFER` places) |
| `apc`, `current` | where `run_actor` is suspended, and the command it serves |
| `toTor`, `fromTor`, `conn` | the two directions of the TCP stream and whether Tor's side is open |
| `up`, `authed`, `owned`, `pid`, `events`, `executed` | Tor: runs, has authenticated the connection, is owned by it, has `__OwningControllerProcess` set (`runtime_config.rs` starts it so), sends events, and the commands it executed |
| `pc`, `op`, `word`, `id`, `answer`, `result` | where a caller is, its call, its current command and that command's number, what its oneshot holds, what the call returned |
| `issued` | how many commands were formed: names the next one |

A call is a *script*: `First` and `AfterSuccess` give the commands of
`authenticate_and_take_ownership` (`protocol_info`, one of the ways of
`authenticate`, `take_ownership`), `wait_bootstrap`, `socks_listener` and the raw
`command`; `After` is what the call makes of a reply (`command_success`,
`parse_protocol_info`, `parse_challenge`, `bootstrap_progress`). Each command is
`Call`/`ReceiveReply`/`Poll` (formed), `Send` (a place in the channel), then
`ReceiveReply` or `ReceiveError`. The actor is `Recv`, `Write`, `Read`, their
failures (`Break`), and `End`, which drops the receiver with the commands in it.
`Timeout` and `GiveUp` drop a call at any await: its command stays where it is, but
nobody listens (`from` becomes `None`). Commands and replies carry a number, which
the code does not see; the actor pairs them by order alone, and `OwnReply` says
that this is enough. A reply is a kind (250 with usable contents, 250 without,
another status, or something that does not parse) instead of its lines. Tor and
the network are external: Tor answers in order, refuses what it likes, cuts a
reply, closes at any moment, and exits with a connection that owns it. A raw command with
a line break is refused before it is sent; that call changes nothing and is left out.

`ControlService` knows only callers, the command each waits for, what each was
given, and whether an error has been met. The map is at the end of
`ControlClient`: a caller waits from forming a command to leaving it, and the
service is open until the actor leaves its loop.

### TorInstance, TorProcess, TorChild and TorRuns

| Variable | Code |
|---|---|
| `tor`, `conf`, `owner`, `plugin`, `published` | the children, one per run: alive, exited but not waited for, or gone; the configuration each has read; what ends it with its user (`__OwningControllerProcess` or `TAKEOWNERSHIP`); a transport plugin that holds its output; whether its port is written. External, modelled from what the code relies on |
| `fed`, `out` | the two sides of the pipes: standard input, and for each of the two streams the task of `drain_output`, with what has become of its `JoinHandle` |
| `torrc`, `portFile` | the configuration file and the control port file of the root directory: their text and whose it is. They survive the program |
| `pc`, `cur`, `why` | where `start`, `spawn`, `shutdown` or `wait` is suspended; the run; and which call a common piece of code will return from |
| `state` | what each start came to: the history that the properties speak of |
| `late` | the runs whose start was dropped while its verification went on |
| `blocking` | where the `spawn_blocking` of each verification is |
| `addr`, `conn` | the endpoint that was read, and the Tor that the controller is connected to |

`Begin` is `InstanceLayout::prepare` and `build_runtime_config`, or the failure of either,
with the old control port file removed or not; then come
`VersionDetected`, `Verified`, `SpawnCleans`, `SpawnWrites`, `SpawnRenames` (or standard
input), `Exec`, `StdinWritten`, `PortRead`, `Connect`, `Authenticate`, `Bootstrap` and
`SocksListener`, each with its failure. `StartupFails` is the error path of
`finish_startup`, which shuts the process down; `StdinFails` is that of `spawn`, which
kills and waits. `Release` is what `Drop` does: `start_kill`, `abort` of the
output tasks whose handles are still held, closed pipes. `Finish` is
`finish_output_tasks`: it takes the handle of standard output, awaits the task, and then does
the same with standard error. A call that is dropped meanwhile takes with it the one handle
it has (`detached`: the task reads on, unwatched) and leaves the other. `StopFails` is an io error
of `try_wait`, of a signal or of a wait, at whichever of them the call is; the error path of `spawn` ignores
it. `StartDropped`, `SpawnDropped` and `CallDropped` drop a future
at each of its awaits. The blocking task of a verification goes on after its start is
dropped, and writes its file then. `Crash` is the death of the program at any moment,
`Restart` its next start, on the same root directory. With `level = "process"` a caller
uses `TorProcess` by itself (feature `low_level`): `wait`, `try_wait`, `start_kill`.

The service `TorRuns` has the state of each start and the set of Tors that run. Its
steps are what the pool's manager relies on: a start ends with its Tor or with
none, a stop returns when it is gone, a drop leaves none, and only a crash does.

* SIGKILL takes effect at once; SIGTERM may be ignored for ever. Tor locks its data
  directory, so of two Tors of one root directory only one gets beyond its configuration.
* The control port file may be seen absent, partial or whole. A text that is partial
  and still parses (a port cut after some of its digits) is left out: Tor replaces the
  file as a whole; any other partial text makes the start fail, as the code does.
* Whether a read of the output has failed is not known before the task is waited for;
  so `OutputFailed` ends a task only then.

### TorConfig, TorConfigBuilder and TorrcFile

A configuration is a record of the parts of `TorConfig`; an `Option` is a set with at
most one element; the setters are operators that replace a part, as the code's do.
Ports are `0 .. MaxPort` (for `u16`), `AutoPort` or a Unix socket. `BuildError` is `build`
with its checks in their order, and gives the error of the first that fails.
`RuntimeBuilder` is `build_runtime_config`, `PoolConfigValid` the validation of a pool.
`Rendered` is `render_config` as a sequence of lines; comments, blank lines and the
spelling of values are left out, but a duration is cut to whole seconds (`Second` units
of time make one) because it is seen by Tor. `ReadOption` and `ReadAuth` are how
Tor reads such a file: the last line of an option counts, but lists accumulate.
Not distinguished: the address of a listener in the check for duplicates, which the code
ignores too. `Warnings` has the five warnings of `build`, with 32 listeners and 10,000
connections made small (`MaxQuiet`, `MaxConns`). Raw options are added any number of times, before, between
and after the setters (`AddRaw`, which counts among the calls of `MaxCalls`). A bridge configuration says
whether bridges are used, as `use_bridges` does, which `BridgeConfig::new` sets and `Default` does not. A bridge has of each key what `find` sees
first: usable, unusable or absent.

### ControlCodec and TorStartup

A text is a sequence of symbols: the characters that the parsers tell apart, and
longer pieces they leave whole. `ReadStatus`, `ReadData` and `ReadEnd` are `read_reply`
and `read_data_body`, a line at a time; `ControlWords` is
`control_words`: `Trim` the blanks around the text, `Scan` it, with `WordStep` for a turn of the
loop, and `WordsAtEnd` for a word that the end finds open; `ProtocolInfo`, `Progress`, `SocksListeners` are the parsers of the replies.
`Encode` and `Quoted` are how Tor writes, from the control protocol: they are the
reference that the reader is compared with, and `Cuts` is what a connection that
breaks delivers of it, to the symbol.

`TorStartup` puts these together: `Configure`, `AddRaw` or `StartManaged`, `Build`,
`Launch` (Tor reads the rendered lines; bound: only texts whose raw options name no listener and no
way in, the rest being built and read back but not started), then the commands of `finish_startup`, each
`Command`, `Read` line by line and `Handle`. `Authenticate` is the choice of the method and
`read_cookie`, `Challenged` the checks of SAFECOOKIE. A hash is a sequence that says what
it was made of; hexadecimal text is left out; a cookie file has the right cookie,
another or none that is usable. Processes, drops and concurrency are not here: they are
in `TorInstance` and `ControlClient`, which in turn take the texts for granted.

## 3. What is checked

Properties of `TorPool`, in words; the comments at the definitions say more.

* `TypeOK`.
* `GenerationsUnique`: among all endpoints anywhere, in `ready`, the manager, a
  stale snapshot of a caller, one lane and epoch is one address, and later epochs
  are never on earlier runs.
* `NoLaneLeaked`: a working lane is unavailable only while a rotation of it is
  under way (in a caller or in the queue), or when the manager is gone.
* `ReadyRepaired`: with the manager at its `select!` and no manual rotation under
  way, `ready` is exactly the current endpoints of the working lanes.
* `AddressesLive`: then, too, each published address is that of the last run of Tor, and no other
  Tor runs. When a stop or a start has failed there may be none, and a lane that a queued
  rotation has revived is published with an address where nobody answers, until the next
  restart; but never with that of an earlier run.
* `AnswersMatch`: each waiting caller is owed exactly one answer, nobody else any.
* `RotateAnswered`, `RestartAnswered` (action properties): what an `Ok` promises.
* `PoolServed` (refinement): `TorPool` implements `PoolService`.
* `ShutdownComplete`: the caller whose shutdown was sent returns only when Tor is
  stopped and the manager out of its loop.
* `CallsReturn`, `Stops`, `ExpiredRotated`, `LaneComesBack` (liveness).
* `AssignmentsCounted` (`PoolHistory`): while a lane works, every proxy of its
  generation is counted already or still queued, none twice, none of another generation; and
  its count is below the limit, so that the count which reaches the limit has taken the
  generation out of use.

Properties of `ControlClient`:

* `TypeOK`.
* `OwnReply`: unless events are on, what a caller holds is Tor's reply to the command
  it waits for, never to one that was given up or timed out.
* `NeverOrphaned`: at each moment of the handshake Tor, if it runs, has the owning
  process id or the owning connection, whatever fails, is given up or runs twice.
* `TakenWhenOk`: `Ok` of `authenticate_and_take_ownership` means authenticated,
  owned, process id cleared; and then Tor ends with the connection.
* `ServiceSpec` (refinement): the client implements `ControlService`.
* `CallsReturn`, `ConnectionEnds` (liveness): every call returns; when the last clone
  is gone the connection ends.

Properties of `TorInstance`:

* `TypeOK`: neither a Tor nor the configuration file ever has a part of a configuration.
* `OwnTor`: an instance that has started owns the Tor it spawned, whatever file an
  earlier one has left. One exception: when the program dies right after it has
  spawned a Tor and is started again at once, the orphan may publish its port behind the
  new program's back, which then connects to it and owns it.
* `OwnConfig`: a Tor has read the whole configuration of its own start; the two
  exceptions, a verification that outlives its start and the death of the program
  before Tor has read, are in the formula.
* `Drained`: `Ok` of `shutdown` means waited for, and each of the two streams of the output read to
  its end, but for one that an earlier call was dropped with while it awaited it.
* `PromiseKept` (refinement): `TorInstance` implements `TorRuns`.
* `StartReturns`, `ShutdownReturns` (liveness): against a Tor that exits, ignores
  SIGTERM, writes no port, or leaves its output to a plugin.
* `OrphansEnd` (liveness): a Tor whose program has died ends too, unless it is adopted.

Properties of `TorStartup`:

* `TypeOK`.
* `BuiltSound`: what is built has no two listeners on one fixed port, only TCP ports,
  no open Control Port outside of the host, and every transport its plugin.
* `ReadBack`: Tor reads in the rendered text what was set, value by value, and nothing that was not: each
  option to its last value, listeners with their addresses and isolation, the Control Port's five
  options, `UseBridges`, plugins and bridges, each in its order and before the raw options of
  that name. Raw options may have any name; the last of them decides, also on who is let in (`LetIn`). Only the way
  in of a text that names both a password and a cookie is left open (`OneWayIn`): Tor takes both.
* `ReplyFramed`: what `read_reply` returns is what Tor answered, unescaped, and nothing of
  it is left for the next command.
* `ServerProved`: the client sends its hash only to a server that has proved it knows the
  same cookie.
* `FailuresExplained`: each error has its cause outside of the client; no legal path,
  body or listener makes a start fail.
* `ManagedBuilds`: the configuration of a managed pool is built whatever its policy
  (unless a bridge is unusable), without a warning about its Control Port or its listener. It may be warned of
  what the policy itself has set: a high limit of connections, unsafe logs.
* `ManagedComesUp`: Tor comes up with it, with the one listener and the cookie the pool
  needs; no start fails for want of an authentication method or of a listener.

| Run | Instance | Distinct states | What it shows |
|---|---|---|---|
| `pool_calls` | 2 clients, 2 lanes, rotate, restart, cancel; all failures on | about 864,000 | the safety properties and the refinement of `PoolService` at every interleaving of two callers with the manager |
| `pool_limits` | 2 clients, 2 lanes, next, for_key, rotate; limit 2, time to live, failing randomness, the history | about 1,569,000 | every proxy of a generation is counted once, whoever rotates the lane in between |
| `pool_stop` | 2 clients, 1 lane, selections up to the limit and all stopping operations, fair | about 341,000 | answers, the shutdown's promise, termination, the refinement of `PoolService` with shutdowns and dropped handles |
| `pool_progress` | 2 clients, 2 lanes, next and rotate, time to live, fair | about 258,000 | due lanes are rotated, hidden lanes come back, whatever clients go on asking for |
| `old_credentials`, `failed_final`, `third_shutdown` | small | counterexamples | see 5 |
| `control_calls` | 2 callers, 1 place, all calls, giving up, events | about 989,000 | replies, ownership and the refinement at every interleaving of two callers, the actor and Tor |
| `control_ends` | 2 callers, 1 place, an authenticated stream, fair | about 28,000 | every call returns, the connection ends |
| `control_events` | 1 caller, raw commands and events | counterexample | see 5 |
| `instance_runs` | 2 runs on one root directory, both levels, both sources, two streams of output, fair | about 411,000 | every failure, drop and crash in a start and a stop; ownership, configuration, the refinement, termination |
| `startup_text` | 2 setters or raw options in any order, or a managed pool; 3 paths, bodies of up to 2 lines | about 486,000 | every such configuration built, rendered and read; every start read from texts that may be cut anywhere |

**Bounds, and why they are enough.** Two clients give every overlap of two
accesses, and the manager is a third process; each hazard listed involves at most
two callers and the manager, except the third shutdown, which has three. Two
lanes give "this lane and another"; a restart goes through both. `MaxEpoch` 2 or
3 lets a lane be rotated, rotated again, and reach its last epoch, the only one
the code treats apart. `MaxRuns` 2 allows one restart that starts (and any number
that fail to stop): addresses are compared only as equal and earlier. `MaxQueue`
keeps a call from beginning when that many commands are queued; calls already
begun still send, so queues reach three commands with two clients. An assignment
limit of 2 distinguishes the first count, the rotating one and a late one. `Ops`
chooses the operations of a run; together the runs use all of them. None of the
bounds is in the theorems' way: those hold for all their values.
In `ControlClient` two callers and one place make the channel fill up, a caller wait
for a place, and one caller's abandoned command precede the other's. `MaxCommands`
keeps a call or a poll from beginning after so many commands; a script that has
begun runs on, so two handshakes can overlap to their ends. `MaxUnread` keeps an
event from arriving behind so many unread replies. `Authenticated` TRUE is a stream
that needs no handshake, which `from_stream` allows: the runs that ask other
questions then need fewer commands.
In `TorInstance` `MaxRuns` 2 gives a run and the one before it: each hazard of a file or a
Tor that was left behind is between one run and a later one, and "before both" is the
file that the initial states may hold. In `TorStartup` `MaxPort` 2 leaves 0, a port and
the last one, so that a range may end at the last port or one beyond it; `MaxLanes` 2 has
0, both legal numbers and the first illegal one; two calls of a setter replace a part, or
give one that clashes with another (Control Port and listeners, listeners and a range); a
raw option repeats an option that was set before or after it, one that was not, adds a log or a
listener, or takes the cookie away. `MaxQuiet` 1 and `MaxConns` 0 have values on both sides
of the two limits. The paths have
a blank, a quote, a backslash and an equals sign; the lines of a body are empty, plain, a
dot, two dots, and a dot before text: the cases that framing tells apart.

**Deadlock** is checked in the runs that go on for ever. It is off in `pool_stop`
and `third_shutdown`, where the program really stops: the manager has ended
and all callers have returned or let go; and in the runs of `ControlClient`, where
the actor has ended and all callers have dropped the client, or `MaxCommands` is met. So
it is in `instance_runs`, where `MaxRuns` runs have been begun and the last has ended, and in
`startup_text`, where a configuration was rejected or has no Control Port to be reached at,
or the start has failed.

**Fairness** (`FairSpec`). Weak fairness of each caller's own steps: a
synchronous call runs to its end and a woken future is polled. Weak fairness of
the manager's steps: the runtime polls the task, and a start or stop of Tor ends.
That last is an assumption: a Tor that accepts the control connection and never
answers would hold `start` for ever (`lifecycle.rs` bounds only two of its
steps), and the hazards list it. Strong fairness of the tick: `select!` polls its
branches in random order, so a tick that is due again and again is taken in spite
of a constant stream of commands. In `pool_progress` selections go on without end, but rotations
with `MaxEpoch`: the endless stream it has is one of selections, and of the ticks and refused rotations
of lanes at their last epoch. With no assignment limit a selection leaves
the manager at its `select!`, so that there weak fairness would do; the strong form is what the code justifies, and is
needed when a stream of served commands takes the manager away again and again. No caller is obliged to call, cancel or drop,
and lanes need not age. In `ControlClient`: weak fairness of each caller's steps and
of the actor's, as above; strong fairness of `Send`, because the channel's semaphore
is a queue and a place that comes free again and again is in the end this caller's;
strong fairness of `Timeout`, because a deadline that has passed is seen at the next
poll; and a Tor that answers what it has read or closes the connection, and notices
when the client has closed it. The last is again an assumption about Tor. In `TorInstance`: weak fairness of a call's own
steps (the runtime polls it, deadlines pass, children that only verify or print end, and a
Tor that is asked answers or closes the connection: `Connect`, `Authenticate` and
`SocksListener` have no timeout in the code), of each verification's thread, of a Tor
that has lost its owner, of a plugin whose Tor is gone, and of an output that has ended.
`ShutdownReturns` rests on the plugin: `shutdown` waits for the end of the output without a
deadline. What the code would do with a Tor that accepts the connection and stays silent, or with a
grandchild that holds the pipe for ever, is thus assumed away: `StartReturns` and
`ShutdownReturns` say that nothing else can hold a call, and the hazards say that these two can.
Nobody is obliged to call, to drop, to crash, or to exit on SIGTERM.

## 4. What is proved

All for any number of clients and lanes, callers and places in the channel, any
limits and any failures, any number of runs, ports, listeners and bridges, from the named
assumptions on the constants:

| Theorem | Module | States |
|---|---|---|
| `TypeCorrect` | `TorPoolProofs` | `Spec => []TypeOK` |
| `Repaired` | `TorPoolProofs` | `Spec => []ReadyRepaired` |
| `NothingLeaked` | `TorPoolProofs` | `Spec => []NoLaneLeaked` |
| `Unique` | `TorPoolProofs` | `Spec => []GenerationsUnique` |
| `Live` | `TorPoolProofs` | `Spec => []AddressesLive` |
| `Matched` | `TorPoolCalls` | `Spec => []AnswersMatch` |
| `Complete` | `TorPoolCalls` | `Spec => []ShutdownComplete` |
| `RotateHeard` | `TorPoolCalls` | `Spec => RotateAnswered` (action property) |
| `RestartHeard` | `TorPoolCalls` | `Spec => RestartAnswered` (action property) |
| `Serves` | `TorPoolCalls` | `Spec => PoolServed` (refinement of `PoolService`) |
| `CountsHandedOut` | `PoolHistoryProofs` | `HSpec => []AssignmentsCounted` |
| `ClientTypes` | `ControlClientProofs` | `Spec => []TypeOK` |
| `RepliesReachTheirCommands` | `ControlClientProofs` | `Spec => []OwnReply` |
| `TorAlwaysOwned` | `ControlClientProofs` | `Spec => []NeverOrphaned` |
| `OwnershipTaken` | `ControlClientProofs` | `Spec => []TakenWhenOk` |
| `ClientServes` | `ControlClientProofs` | `Spec => ServiceSpec` (refinement of `ControlService`) |
| `TypeCorrect` | `TorInstanceProofs` | `Spec => []TypeOK` |
| `StopsDrained` | `TorInstanceProofs` | `Spec => []Drained` |
| `TalksToOwnTor` | `TorInstanceProofs` | `Spec => []OwnTor` |
| `ReadsOwnConfig` | `TorInstanceProofs` | `Spec => []OwnConfig` |
| `KeepsPromise` | `TorInstanceProofs` | `Spec => PromiseKept` (refinement of `TorRuns`) |
| `BuildsSound` | `TorConfigProofs` | `Spec => []BuiltSound` |
| `ManagedPoolBuilds` | `TorConfigProofs` | `Spec => []ManagedBuilds` |
| `ReadsBack` | `TorConfigProofs` | `Spec => []ReadBack` |
| `QuotedIsRead` | `ControlCodecProofs` | `ControlWords(Quoted(text))` is `text`, for every text |
| `FramesReplies` | `TorStartupProofs` | `Spec => []ReplyFramed` |
| `ServerIsProved` | `TorStartupProofs` | `Spec => []ServerProved` |
| `FailuresAreExplained` | `TorStartupProofs` | `Spec => []FailuresExplained` |
| `ManagedPoolComesUp` | `TorStartupProofs` | `Spec => []ManagedComesUp` |
| `StartupTyped` | `TorStartupProofs` | `Spec => []TypeOK` |

**Types and repair.**
`TypeOK` is not inductive alone, because the command a caller will send depends on
where it is in its call: `Typed` adds `CallOK`, which ties `pc`, `op` and `arg`.
`ReadyRepaired` and `NoLaneLeaked` are not inductive either, and need each other:
`ready` is recomputed from `unavailable`, so it is right only if no working lane
is hidden for nothing. `Settled` is their conjunction with

* `PendingCurrent`: when the manager is about to store what it computed, and no
  rotation is in flight, that is still the truth;
* `RestartHides`: from a restart's first step, which empties `ready`, until the old
  Tor is stopped, and while no rotation is in flight, `ready` is empty;
* `StopsRetired`: where a restart may return early, no lane is working, so that
  the empty `ready` it leaves is right.

The key notion is *in flight*: a rotation counts from the caller's insertion into
`unavailable` to the service of its command. Each action either leaves a lane's
status alone, begins such a flight, or ends it in a publication. The proof has
one step per action; `Typing` and `AlwaysSettled` are the temporal steps.

**Addresses.** One lemma, `NextShape`, says all that a step can do to a lane (keep
its generation or take the next one on the current run), to the copies of
endpoints (only of endpoints that exist) and to the run (only between the
lanes' retirement and their rotation). From it, `Generations` is inductive: each
copy anywhere is `Traced`, no newer than its lane's generation, equal to it if as
new, and on a run no later. So is `OnTheRun`: an instance, if there is one, is the
current run, and so is the run of every working lane, whether an instance is there or not; with
`ReadyRepaired` this gives `AddressesLive`. It is needed that a lane revived after a failed stop or
start, on the run that has ended, is retired again before the next start changes the run: in
`rs_stop` and `rs_start` no lane works.

**Answers.** `Answering` follows each client's command: in the queue at most once,
then served, each time exactly while its client waits unanswered, and never an
`Assign`; a shutdown is only served in `sd_stop`, and its caller is told only when
the loop has ended. `AnswersMatch` counts what this invariant says,
`ShutdownComplete` is its last part. The lemmas classify the manager's steps by
what they do to the command served (keep, take, assign, answer, exit).

**What an `Ok` is worth.** The manager answers last, after steps between which clients go
on hiding lanes, giving up and queueing. `Calls` adds to `Settled`, `OnTheRun` and `Answering`
three facts, one per part of the way: `Asked`, the command owed to a caller is the one its call
asks for; `Worked`, once the outcome is `Ok` the command has had its effect (the lane rotated,
or each lane on the new run or failed), lane by lane during a restart; `Published`, what was
computed for publication has every working lane, or that lane has been hidden since by a
rotation that is in flight. At the step that answers, the three together are `RotateAnswered` and
`RestartAnswered`.

**The pool as a server.** `Serving` is `Calls`, `Generations` and `Paced`, which says where in the
manager's loop the count of runs, the run of Tor and the lanes left to a restart agree.
`StepServed` then shows each step of `TorPool` to be one of `PoolService` or none. Clients' accesses
to `ready` and `unavailable` are none; sending is `Ask`, returning and giving up are
`Leave`; a rotation of the manager is `Rotate` when somebody waits for it and `Expire` when nobody
does. That a restart is over before the next call is begun needs `Answering`: only the command served has a call
at work. The publication after it is none of the service's steps, because the answer was decided
before. When the manager ends, `Close` answers exactly those whose commands were left in the
queue.

**Counting.** `QueuedAssigns` is a cardinality of a set of places in the queue, so the lemmas of
`PoolHistoryProofs` say what `Append`, `Tail` and a forgotten caller do to it. `AssignmentsCounted` is
inductive with `Generations`, `Past` (no queued assignment is of a generation still to come, so
that a new generation starts with none) and `Holding` (a caller about to return holds one
endpoint). `Balanced` is the step: a lane that goes on working gains as many counted and queued assignments as proxies
of it were returned. `CountStep` is the other half: what a step makes of a lane's count, which
is kept, begun anew at zero, or raised below the limit.

**Replies.** `OwnReply` needs two facts that are invariant only together with the
types. `Owed`: a command that somebody still listens to is in one place (once in
the channel, or being served), and is the command its listener waits for,
unanswered; it holds with or without events. `OnWire`, without events: between
two commands nothing is on the wire in either direction, and during one there is
that command or its reply, not both and nothing else. This is what makes the actor's
pairing by order right: a command given up is still read to its end.

**Ownership.** `Handshake` adds what is known where: `RESETCONF` exists, with a
caller, in the channel or on the wire, only once Tor is owned (`ResetsOwned`); a reply
on the wire or in a oneshot proves what it answers (`Knows`); Tor itself is owned
only if authenticated, and is down when an owning connection has closed
(`TorOwned`). `NeverOrphaned` and `TakenWhenOk` are consequences.

**Refinement.** With `Numbered` (commands carry numbers up to `issued`, replies those
of executed commands), `StepMaps` shows each step to be one of the service's or
none: forming is `Ask`, leaving `Leave`, a reading that somebody listens to `Give`,
the first failure `Fail`, the end of the channel `Lose`, Tor's answer `Execute`.

**Runs of Tor.** None of the properties of `TorInstance` is inductive. `IInv` is the types and

* `Phases`: the place of the program tells what became of the run it is in, which Tor may
  run (that run's, or one of a dead program) and when it was waited for;
* `Draining`: as long as there is a process, each of its two handles is there, or its task was read
  to its end or taken by a call that was dropped; once a stop has drained, none is there;
* `Connected`: from the removal of the control port file to the connection, what is in
  it, in `addr` and in `conn` is this run's or an orphan's, and has been configured;
* `Configured`: who may still write the configuration file (a late verification, or this
  start), what a Tor that has not read will find there, and what its standard input holds.

`OwnConfig` and `Drained` are parts of it, `OwnTor` follows from `Connected`. For the
refinement each step is shown to be a step of `TorRuns` or none, under the map of `live` to the
Tors that run; `Phases` gives the guards: that a start that fails has no other Tor, that a
stop that returns has none.

**Configurations.** `BuilderInv` says that a builder is well formed at every stage, and
when it was built has no `BuildError`. `NoErrorIsSound` turns that into `BuiltSound`: that no two
fixed listeners have a port in common and none has the Control Port's is an injection, so
the numbers of ports and of listeners are equal. `PortRangeExact` bounds a range. `ManagedInv`
adds that a pool's builder has the Control Port and the listener that `build_runtime_config`
gives it until `build` has seen them, and that only `build` rejects; `ManagedError` goes
through the checks of `build`, of which only that of the bridges can fail then.

**Data by induction.** What the parsers, the renderer and `FlattenSeq` compute is defined by
recursive functions and folds over sequences of any length. `NatBySet` and `SeqBySet` are
induction with a *set* for the property: the library's theorems take an operator, which the
provers cannot instantiate; a set they can. `NatBySet` comes from the well-foundedness of the order of
the numbers. From these come the laws that the rest uses: `FlattenConcat`, `ScanConcat` (a
text is read piece after piece), `ValuesConcat` (so is a torrc).

**What was set is read back.** `TextInv` is `BuilderInv`'s companion: each part of the builder holds
values of its type, and at most one Control Port and one bridge configuration. `Rendered` is a
concatenation of ten sections, and `Values` distributes over it, so that what Tor reads of an
option is what it reads of the section that has it and of the raw options; `ReadsBack` follows
section by section: of each of the options, `LinesOther` says that the sections of the others have no
line of it. Order matters at one place, the raw options, which come last and win.

**Words.** `Trim` changes no word of a text whose strings are closed: the text is what `Trim` leaves
between blanks (`TrimParts`), and blanks before or after add nothing to the words (`BlanksBefore`,
`BlanksAfter`, the latter outside of a string only).

**Replies.** `Encode` is the text of a reply; `Left`, what is still to come of it for a reader
who has got so far; `OnTrack`, that the reader's state is that of reading a part of this
reply. A line read leads from one such state to the next, or the stream was cut in that line, and
then either the reader fails, or it was the last line and is read as whole (`CutWhole`).
`FrameInv` says which of the three the client is in at each moment: following the reply to its own
command, at the end of one whose last line is cut, or with nothing to come, the last two only if
the connection has broken. It also has that a client which has sent nothing finds nothing on the wire.
`ReplyFramed` is a consequence.

**What the client finds.** From `FrameInv` a reply that is handled is Tor's, but for its last line.
Of `PROTOCOLINFO` and of the listeners' answer that line is the closing `OK`, cut or not, which
carries nothing the client looks for (`AnswerRead`, `LastsQuiet`); of the challenge it is the only line, and a
cut one is an error because the nonce comes last (`ChallengeNotAnswered`).
`InfoRead`, `ChallengeAnswered` and `ListenersFound` compute what
`ProtocolInfo`, `Challenged` and `SocksListeners` give for each reply that Tor may give, for
any path: `QuotedIsRead` is used here. `Went` lists what a handled reply can lead to, and
`HandleGoes` proves the list complete. `AuthInv` is what the client knows at each stage: an
accepted client of a Tor that asks for a cookie has that cookie; a hash was only made after
the challenge was met; before `AUTHENTICATE` is answered nobody is authenticated. `ServerProved` is
not inductive without it, because what proves the server is read one command before the
credential is sent. `EndInv` is `FailuresExplained` with the stages at which there is no outcome
yet. `StartInv` has the types that are left, and that a Tor which a managed pool has started reads its text
as the cookie method and one TCP listener (`ManagedText`, from the lemmas of `ReadsBack`); with `EndInv` this
gives `ManagedComesUp`. `StartupInv` is all seven together, from which `StartupTyped` follows.

**What these proofs assume of the constants.** Ports, ranges and Control Ports have the types
of the code's. `Bridges` are lists of bridges and of plugins. `Paths` are texts that are not empty:
`COOKIEFILE` names a file. `Bodies` are sequences of lines. `Pools` are pool configurations, also
ones that validation refuses. `RawOptions` may have any name: `TorOption` is meant "for Tor options without a
typed API" (`tor/torc/option.rs:3`), but nothing in the code enforces it, and a caller who adds a
`SocksPort` or a `CookieAuthentication` as a raw option gets another listener, or another way
in. `ReadBack` says what he gets. Of a raw option that also has a setter it is assumed that its value is of the type of
that option.

**Only model-checked.** The liveness properties: `CallsReturn`, `Stops`, `ExpiredRotated`,
`LaneComesBack`, `ConnectionEnds`, `StartReturns`, `ShutdownReturns`, `OrphansEnd`. Fairness and
`ENABLED` are beyond the prover. Every safety property, action property and refinement that a passing
run checks is a theorem too.

## 5. Where code and words differ

* **Retired credentials come back** (`OldCredentialsGone`). `queue_rotation`
  copies `ready`, filters the copy and stores it with no lock held across. A
  rotation of another lane that completes in between is undone: its old
  credentials are selected again after its `rotate` has returned `Ok`, though
  README.MD says they no longer are. The manager repairs it when it serves the
  second rotation (`ReadyRepaired`).
* **A failed lane may become ready again** (`FailedIsFinal`), against the comment of
  `LaneState::Failed`: a rotation queued behind the failing one revives it.
* **Not every shutdown waits** (`ShutdownStopsAll`): of several concurrent ones, one
  waits for the answer, one for the task, and the rest return at once. What holds
  is `ShutdownComplete`, for the caller that sent the command.
* **An event answers a command** (`RepliesOwn`). `ControlClient::command` "sends a raw
  control command and returns its reply". After a raw `SETEVENTS` the actor gives
  the next asynchronous 650 reply to whoever waits, and every later answer is that
  of an earlier command. The library itself never asks for events; what holds is
  `OwnReply`.

Three more that the models state as they are, without a run of their own:

* A duration below one second is rendered as 0 seconds (`tor/torc/render.rs`, `duration_line`).
  `ReadBack` says whole seconds.
* `read_reply` returns "one complete control reply" by its comment, but takes a last line that
  the end of the stream has cut, before its line break, for complete. `ReplyFramed` has
  the case as `broken`.
* `control_words` does not decode octal escapes in a quoted path; `Quoted` has only the
  escapes that it does decode.

## 6. The plan, and what is not modelled

What would come next is a composition of `TorPool` with `TorRuns`: start and stop as the
service's steps instead of one step of the manager, so that a pool and a Tor that dies by itself
meet.

Not modelled, and why:

* The cursor of `next` and the hash of `for_key`: `TorPool` takes any published lane, so
  every order and every hash is covered; what the wrap of the cursor at `usize::MAX` does to
  fairness among the lanes is not.
* `Proxy`, `SocksUrl`, error texts, the identity generator, the facade: values and their
  formatting, without state or interaction.
* The reqwest integration: it calls `next` and `for_key`, which are modelled, and builds
  clients of another library.
* The start of a Tor whose raw options have replaced its listeners or its way in: such a
  configuration is built and read back, and not launched (`Launch`).
* The error path of `from_instance`, and the refusal of a raw command with a line break: neither leaves a
  pool or a connection in another state.
* The numbers of Tor's version, and `validate_runtime_config`, which looks at the file system
  for a caller who asks.
* The growth of the unbounded command channel: `MaxQueue` bounds it in the model.
* What a `TorOption` may contain beyond being one line, and the wording of its errors.
