--------------------------- MODULE TorConfigBuilder ---------------------------
(***************************************************************************)
(* TorConfigBuilder (tor/torc/builder.rs) and the runtime configuration of *)
(* a managed pool (tor/instance/policy.rs, runtime_config.rs,              *)
(* pool/config.rs, pool/builder.rs).                                       *)
(***************************************************************************)
EXTENDS TorConfig

NewBuilder ==
  [control |-> {}, socks |-> NoSocks, bridges |-> {},
   parts |-> [g \in DOMAIN Groups |-> Unset(g)], raw |-> <<>>]

\* The setters, each of which replaces what was there; raw options accumulate.
WithControl(b, c) == [b EXCEPT !.control = {c}]
WithSocks(b, s)   == [b EXCEPT !.socks = s]
WithBridges(b, bc) == [b EXCEPT !.bridges = {bc}]
WithPart(b, g, part) == [b EXCEPT !.parts[g] = part]
WithRaw(b, option) == [b EXCEPT !.raw = Append(@, option)]

-----------------------------------------------------------------------------
(* build.                                                                  *)

FixedListeners(s) == {i \in DOMAIN s.listeners : Fixed(s.listeners[i].port)}

\* Faulty: the listeners are compared with each other only.
DuplicatePortsOfSocks(b) ==
  \E i, j \in FixedListeners(b.socks) :
    i # j /\ b.socks.listeners[i].port = b.socks.listeners[j].port

\* validate_duplicate_ports: whatever address they are bound to.
DuplicatePorts(b) ==
  LET seen == UNION {ControlPort(c) : c \in b.control}
      port(i) == b.socks.listeners[i].port
  IN  \E i \in FixedListeners(b.socks) :
        port(i) \in seen \/ \E j \in FixedListeners(b.socks) : i # j /\ port(i) = port(j)

\* The error of the first check that fails, "none" if the configuration is built.
BuildError(b) ==
  IF b.socks.range # "none" THEN b.socks.range
  ELSE IF b.control = {} /\ b.socks.listeners = <<>> THEN "NoListeners"
  ELSE IF \E c \in b.control : c.auth = "none" /\ ~IsLoopback(c)
    THEN "UnauthenticatedNonLoopbackControlPort"
  ELSE IF DuplicatePorts(b) THEN "DuplicatePort"
  ELSE IF \E bc \in b.bridges : ~BridgesValid(bc) THEN "Bridges"
  ELSE "none"

Warned(condition, warning) == IF condition THEN {warning} ELSE {}

Warnings(b) ==
  Warned(\E c \in b.control : c.auth = "none", "UnauthenticatedLoopbackControlPort")
  \cup Warned(\E c \in b.control : UsesAutoPort(c) /\ ~c.file, "AutoControlPortWithoutWriteFile")
  \cup Warned(Len(b.socks.listeners) > MaxQuiet, "ManySocksListeners")
  \cup Warned(\E i \in DOMAIN b.parts["system"]["ConnLimit"] :
                b.parts["system"]["ConnLimit"][i] > MaxConns, "HighConnLimit")
  \cup Warned(b.parts["logging"]["SafeLogging"] = <<0>>, "UnsafeLoggingDisabled")

-----------------------------------------------------------------------------
(* The managed pool.                                                       *)

\* Faulty: a Control Port that anybody on the host may use.
RuntimeBuilderOpen(policy) ==
  [control |-> {OwningControllerProcess(WritePortToFile(Authentication(AutoTcp, "none")))},
   socks |-> Listener(NoSocks, IsolatedAuth(AutoPort)), bridges |-> policy.bridges,
   parts |-> policy.parts, raw |-> <<>>]

\* build_runtime_config: the policy decides on everything but the two listeners.
RuntimeBuilder(policy) ==
  [control |-> {OwningControllerProcess(WritePortToFile(Authentication(AutoTcp, "cookie")))},
   socks |-> Listener(NoSocks, IsolatedAuth(AutoPort)), bridges |-> policy.bridges,
   parts |-> policy.parts, raw |-> <<>>]

\* A limit is {} when it is not set.
RotationPolicy == [after : SUBSET Nat, assignments : SUBSET Nat]
RotationValid(r) == 0 \notin r.after /\ 0 \notin r.assignments

PoolConfig == [lanes : Nat, rotation : RotationPolicy, bootstrap : Nat]

\* PoolConfig::validate, before Tor is started.
PoolConfigValid(p) ==
  p.lanes \in 1 .. MaxLanes /\ RotationValid(p.rotation) /\ p.bootstrap # 0
=============================================================================
