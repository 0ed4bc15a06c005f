------------------------------ MODULE TorConfig ------------------------------
(***************************************************************************)
(* The typed Tor configuration (tor/torc): the values of its parts, what   *)
(* TorConfigBuilder::build accepts, and the configuration that a managed   *)
(* pool builds from a TorPolicy (tor/instance/runtime_config.rs).          *)
(* An optional value is a set with at most one element.  The numbers, flags*)
(* and names that an option is set to are sequences of numbers.            *)
(***************************************************************************)
EXTENDS Integers, Sequences, FiniteSets

CONSTANTS MaxPort,    \* bound: u16::MAX, made small
          MaxLanes,   \* bound: MAX_LANES, made small
          MaxQuiet,   \* bound: 32 listeners, above which build warns, made small
          MaxConns,   \* bound: the 10 000 connections above which it warns, made small
          Second      \* how many of the model's units of time make a second

ASSUME MaxPortAssumption  == MaxPort \in Nat
ASSUME MaxLanesAssumption == MaxLanes \in Nat \ {0}
ASSUME MaxQuietAssumption == MaxQuiet \in Nat \ {0}
ASSUME MaxConnsAssumption == MaxConns \in Nat
ASSUME SecondAssumption   == Second \in Nat \ {0}

-----------------------------------------------------------------------------
(* Listeners.                                                              *)

\* A PortSpec that is no fixed port.
AutoPort == -1
UnixSocket == -2

PortSpec == (0 .. MaxPort) \cup {AutoPort, UnixSocket}
Addrs == {"loopback", "other"}

\* PortSpec::tcp_port: a port that is fixed, 0 among them.
Fixed(port) == port >= 0

SocksPort == [addr : Addrs, port : PortSpec, isolated : BOOLEAN]

Localhost(port) == [addr |-> "loopback", port |-> port, isolated |-> FALSE]

\* ExtendedErrors, IsolateSOCKSAuth and KeepAliveIsolateSOCKSAuth together.
IsolatedAuth(port) == [Localhost(port) EXCEPT !.isolated = TRUE]

BindSocks(l, addr) == [l EXCEPT !.addr = addr]

NoSocks == [listeners |-> <<>>, range |-> "none"]

\* SocksConfig::listener keeps the error of a range.
Listener(s, l) == [s EXCEPT !.listeners = Append(@, l)]

\* Faulty: `count' is added, not `count - 1'.
PortRangeLong(start, count) ==
  IF count = 0 THEN [listeners |-> <<>>, range |-> "EmptySocksPortRange"]
  ELSE IF start + count - 1 > MaxPort THEN [listeners |-> <<>>, range |-> "PortRangeOverflow"]
  ELSE [listeners |-> [i \in 1 .. count + 1 |-> Localhost(start + i - 1)], range |-> "none"]

PortRange(start, count) ==
  IF count = 0 THEN [listeners |-> <<>>, range |-> "EmptySocksPortRange"]
  ELSE IF start + count - 1 > MaxPort THEN [listeners |-> <<>>, range |-> "PortRangeOverflow"]
  ELSE [listeners |-> [i \in 1 .. count |-> Localhost(start + i - 1)], range |-> "none"]

-----------------------------------------------------------------------------
(* The Control Port.                                                       *)

Auths == {"cookie", "hashed", "none"}

\* A Unix socket has no address to be bound to.
ControlConfig ==
  {c \in [listen : {"tcp", "unix"}, addr : Addrs, port : PortSpec, auth : Auths,
          file : BOOLEAN, owner : BOOLEAN] :
     c.listen = "unix" => c.addr = "loopback" /\ c.port = UnixSocket}

Tcp(port) ==
  [listen |-> "tcp", addr |-> "loopback", port |-> port, auth |-> "cookie",
   file |-> FALSE, owner |-> FALSE]
AutoTcp == Tcp(AutoPort)
UnixControl == [Tcp(UnixSocket) EXCEPT !.listen = "unix"]

BindControl(c, addr) == IF c.listen = "tcp" THEN [c EXCEPT !.addr = addr] ELSE c
Authentication(c, auth) == [c EXCEPT !.auth = auth]
WritePortToFile(c) == [c EXCEPT !.file = TRUE]
OwningControllerProcess(c) == [c EXCEPT !.owner = TRUE]

\* A Unix socket counts as loopback, and so does its path as the port of an address.
IsLoopback(c) == c.listen = "unix" \/ c.addr = "loopback"
ControlPort(c) == IF c.listen = "tcp" THEN {c.port} \cap (0 .. MaxPort) ELSE {}
UsesAutoPort(c) == c.listen = "tcp" /\ c.port = AutoPort

-----------------------------------------------------------------------------
(* Bridges.                                                                *)

\* args is what `find' sees first of each key: a value that is there and usable
\* ("good"), there and not ("bad"), or no such key ("none").
Bridge == [transport : SUBSET {"obfs4", "meek"}, fingerprint : SUBSET {"good", "bad"},
           cert : {"none", "good", "bad"}, iat : {"none", "good", "bad"}]

PlainBridge == [transport |-> {}, fingerprint |-> {}, cert |-> "none", iat |-> "none"]

\* From<Obfs4Bridge>.
Obfs4Bridge(fingerprint, cert, iat) ==
  [transport |-> {"obfs4"}, fingerprint |-> {fingerprint}, cert |-> cert, iat |-> iat]

\* BridgeConfig::new turns bridges on, its Default does not.
BridgeConfig(use, bridges, plugins) == [use |-> use, bridges |-> bridges, plugins |-> plugins]

Complete(b) == b.fingerprint = {"good"} /\ b.cert = "good" /\ b.iat = "good"

\* BridgeConfig::validate, at the first bridge that fails: plugins is a sequence of
\* the sets of transports that each executable handles.
BridgeFails(bc, b) ==
  \/ ~ b.transport \subseteq UNION {bc.plugins[i] : i \in DOMAIN bc.plugins}
  \/ b.transport = {"obfs4"} /\ ~Complete(b)
BridgesValid(bc) == \A i \in DOMAIN bc.bridges : ~BridgeFails(bc, bc.bridges[i])

-----------------------------------------------------------------------------
(* The options of the other parts, in the order of their rendering.  Every *)
(* option is a field of its own; none is set at first.                     *)

Network  == <<"ClientUseIPv4", "ClientUseIPv6">>
Circuits == <<"MaxCircuitDirtiness", "NewCircuitPeriod", "CircuitsAvailableTimeout",
              "SocksTimeout", "CircuitBuildTimeout", "LearnCircuitBuildTimeout",
              "CircuitStreamTimeout", "MaxClientCircuitsPending", "NumEntryGuards",
              "UseEntryGuards">>
Padding  == <<"ConnectionPadding", "ReducedConnectionPadding", "CircuitPadding",
              "ReducedCircuitPadding", "KeepalivePeriod">>
Nodes    == <<"ExitNodes", "ExcludeExitNodes", "StrictNodes">>
System   == <<"AvoidDiskWrites", "HardwareAccel", "ConnLimit", "DisableDebuggerAttachment">>
Logging  == <<"Log", "SafeLogging", "SyslogIdentityTag">>

Groups == [network |-> Network, circuits |-> Circuits, padding |-> Padding,
           nodes |-> Nodes, system |-> System, logging |-> Logging]

Durations == {"MaxCircuitDirtiness", "NewCircuitPeriod", "CircuitsAvailableTimeout",
              "SocksTimeout", "CircuitBuildTimeout", "CircuitStreamTimeout", "KeepalivePeriod"}
Lists     == {"ExitNodes", "ExcludeExitNodes", "Log"}

OptionsOf(g) == {Groups[g][i] : i \in DOMAIN Groups[g]}

\* The value of a part: what each option of it is set to, <<>> when it is not.
Unset(g) == [o \in OptionsOf(g) |-> <<>>]
Setting(part, o, value) == [part EXCEPT ![o] = value]
=============================================================================
