--------------------------- MODULE TorConfigProofs ---------------------------
(***************************************************************************)
(* What TorConfigBuilder::build promises for every configuration that a    *)
(* caller may put together, whatever the ports, listeners and bridges.     *)
(***************************************************************************)
EXTENDS TorStartup, ControlCodecProofs, FiniteSetTheorems

-----------------------------------------------------------------------------
(* The values of the configuration.                                        *)

RangeErrors == {"EmptySocksPortRange", "PortRangeOverflow"}
SocksConfig == [listeners : Seq(SocksPort), range : RangeErrors \cup {"none"}]

\* A range has the ports that it was asked for, each of them a TCP port, or an error.
LEMMA PortRangeExact ==
  ASSUME NEW start \in 0 .. MaxPort, NEW count \in 0 .. MaxPort
  PROVE  LET s == PortRange(start, count)
         IN  /\ s \in SocksConfig
             /\ s.range = "none" => Len(s.listeners) = count
<1> DEFINE s == PortRange(start, count)
<1>1. CASE count = 0 \/ start + count - 1 > MaxPort
  <2>1. \E e \in RangeErrors : s = [listeners |-> <<>>, range |-> e]
    BY <1>1 DEF PortRange, RangeErrors
  <2>2. <<>> \in Seq(SocksPort)
    OBVIOUS
  <2> QED
    BY <2>1, <2>2 DEF SocksConfig, RangeErrors
<1>2. CASE count # 0 /\ start + count - 1 <= MaxPort
  <2>1. s.listeners = [i \in 1 .. count |-> Localhost(start + i - 1)]
    BY <1>2, MaxPortAssumption DEF PortRange
  <2>2. \A i \in 1 .. count : Localhost(start + i - 1) \in SocksPort
    BY <1>2, MaxPortAssumption DEF Localhost, SocksPort, Addrs, PortSpec
  <2>3. s = [listeners |-> s.listeners, range |-> "none"] /\ Len(s.listeners) = count
    BY <1>2, <2>1 DEF PortRange
  <2> QED
    BY <2>1, <2>2, <2>3 DEF SocksConfig
<1> QED
  BY <1>1, <1>2, MaxPortAssumption

\* No listener is a value to begin with, and another listener keeps it one.
LEMMA NoSocksTyped == NoSocks \in SocksConfig
<1>1. <<>> \in Seq(SocksPort)
  OBVIOUS
<1> QED
  BY <1>1 DEF NoSocks, SocksConfig

LEMMA ListenerTyped ==
  ASSUME NEW s \in SocksConfig, NEW l \in SocksPort
  PROVE  Listener(s, l) \in SocksConfig
  BY DEF Listener, SocksConfig

-----------------------------------------------------------------------------
(* What is built.                                                          *)

BuilderOK(b) ==
  /\ b.control \subseteq ControlConfig
  /\ b.socks \in SocksConfig

\* What BuildError lets pass is sound.
LEMMA NoErrorIsSound ==
  ASSUME NEW b, BuilderOK(b), BuildError(b) = "none"
  PROVE  LET port(i) == b.socks.listeners[i].port
             fixed   == {i \in DOMAIN b.socks.listeners : port(i) \in 0 .. MaxPort}
             control == UNION {ControlPort(c) : c \in b.control}
         IN  /\ b.control # {} \/ b.socks.listeners # <<>>
             /\ \A i \in DOMAIN b.socks.listeners : port(i) <= MaxPort
             /\ Cardinality({port(i) : i \in fixed} \cup control)
                  = Cardinality(fixed) + Cardinality(control)
             /\ \A c \in b.control : c.auth = "none" => c.addr = "loopback"
             /\ \A bc \in b.bridges : BridgesValid(bc)
<1> DEFINE port(i) == b.socks.listeners[i].port
           fixed   == {i \in DOMAIN b.socks.listeners : port(i) \in 0 .. MaxPort}
           control == UNION {ControlPort(c) : c \in b.control}
           ports   == {port(i) : i \in fixed}
<1>1. /\ b.control # {} \/ b.socks.listeners # <<>>
      /\ ~ \E c \in b.control : c.auth = "none" /\ ~IsLoopback(c)
      /\ ~DuplicatePorts(b)
      /\ ~ \E bc \in b.bridges : ~BridgesValid(bc)
  BY DEF BuildError
<1>2. \A i \in DOMAIN b.socks.listeners : port(i) \in PortSpec /\ port(i) <= MaxPort
  <2>1. \A i \in DOMAIN b.socks.listeners : b.socks.listeners[i] \in SocksPort
    BY DEF BuilderOK, SocksConfig
  <2>2. \A i \in DOMAIN b.socks.listeners : port(i) \in PortSpec
    BY <2>1 DEF SocksPort
  <2>3. \A p \in PortSpec : p <= MaxPort
    BY MaxPortAssumption DEF PortSpec, AutoPort, UnixSocket
  <2> QED
    BY <2>2, <2>3
<1>3. \A c \in b.control : c.auth = "none" => c.addr = "loopback"
  BY <1>1 DEF BuilderOK, IsLoopback, ControlConfig
<1>4. fixed = FixedListeners(b.socks)
  <2>1. \A p \in PortSpec : p \in 0 .. MaxPort <=> p >= 0
    BY MaxPortAssumption DEF PortSpec, AutoPort, UnixSocket
  <2> QED
    BY <1>2, <2>1 DEF FixedListeners, Fixed
<1>5. /\ \A i, j \in fixed : port(i) = port(j) => i = j
      /\ \A i \in fixed : port(i) \notin control
  BY <1>1, <1>4 DEF DuplicatePorts
<1>6. IsFiniteSet(fixed) /\ IsFiniteSet(control)
  <2>1. fixed \subseteq 1 .. Len(b.socks.listeners) /\ Len(b.socks.listeners) \in Nat
    BY DEF BuilderOK, SocksConfig
  <2>2. control \subseteq 0 .. MaxPort
    BY DEF ControlPort
  <2>3. IsFiniteSet(1 .. Len(b.socks.listeners)) /\ IsFiniteSet(0 .. MaxPort)
    BY <2>1, MaxPortAssumption, FS_Interval
  <2> QED
    BY <2>1, <2>2, <2>3, FS_Subset
<1>7. IsFiniteSet(ports) /\ Cardinality(ports) = Cardinality(fixed)
  <2> DEFINE f == [i \in fixed |-> port(i)]
  <2>1. f \in Bijection(fixed, ports)
    BY <1>5 DEF Bijection, Injection, Surjection, IsInjective
  <2>2. ExistsBijection(fixed, ports)
    BY <2>1 DEF ExistsBijection
  <2> QED
    BY <1>6, <2>2, FS_Bijection
<1>8. Cardinality(ports \cup control) = Cardinality(fixed) + Cardinality(control)
  <2>1. ports \cap control = {}
    BY <1>5
  <2>2. Cardinality(ports \cap control) = 0
    BY <2>1, FS_EmptySet
  <2>3. Cardinality(ports) \in Nat /\ Cardinality(control) \in Nat
    BY <1>6, <1>7, FS_CardinalityType
  <2>4. Cardinality(ports \cup control)
          = Cardinality(ports) + Cardinality(control) - Cardinality(ports \cap control)
    BY <1>6, <1>7, FS_Union
  <2> HIDE DEF fixed, control, ports
  <2> QED
    BY <1>7, <2>2, <2>3, <2>4
<1> QED
  BY <1>1, <1>2, <1>3, <1>8

-----------------------------------------------------------------------------
(* The invariant of the builder.                                           *)

BuilderInv ==
  /\ BuilderOK(builder)
  /\ stage = "built" => BuildError(builder) = "none"
  /\ asked => stage \in Commands

\* Every choice of listeners that a caller has is well formed.
LEMMA SocksConfigsTyped == SocksConfigs \subseteq SocksConfig
<1> DEFINE some == {NoSocks} \cup {PortRange(r[1], r[2]) : r \in Ranges}
<1>1. NoSocks \in SocksConfig
  BY NoSocksTyped
<1>2. \A r \in Ranges : PortRange(r[1], r[2]) \in SocksConfig
  <2>1. \A r \in Ranges : r[1] \in 0 .. MaxPort /\ r[2] \in 0 .. MaxPort
    BY RangesAssumption
  <2> QED
    BY <2>1, PortRangeExact
<1>3. \A s \in SocksConfig, l \in Listeners : Listener(s, l) \in SocksConfig
  BY ListenerTyped, ListenersAssumption
<1>4. some \subseteq SocksConfig
  BY <1>1, <1>2
<1>5. \A s \in some, l \in Listeners : Listener(s, l) \in SocksConfig
  BY <1>3, <1>4
<1>6. \A l, k \in Listeners : Listener(Listener(NoSocks, l), k) \in SocksConfig
  BY <1>1, <1>3
<1>7. \A s \in SocksConfigs :
        \/ s \in some
        \/ \E r \in some, l \in Listeners : s = Listener(r, l)
        \/ \E l, k \in Listeners : s = Listener(Listener(NoSocks, l), k)
  BY DEF SocksConfigs
<1> HIDE DEF some
<1> QED
  BY <1>4, <1>5, <1>6, <1>7

\* A new builder is well formed.
LEMMA NewBuilderOK == BuilderOK(NewBuilder)
  BY NoSocksTyped DEF BuilderOK, NewBuilder

\* A setter keeps a builder well formed.
LEMMA ConfiguredOK ==
  ASSUME BuilderOK(builder), NEW b \in Configured(builder)
  PROVE  BuilderOK(b)
<1>1. /\ \A c \in Controls : BuilderOK(WithControl(builder, c))
      /\ \A bc \in Bridges : BuilderOK(WithBridges(builder, bc))
      /\ \A g \in DOMAIN Groups : \A p \in Parts(builder, g) : BuilderOK(WithPart(builder, g, p))
  BY ControlsAssumption DEF BuilderOK, WithControl, WithBridges, WithPart
<1>2. \A s \in SocksConfigs : BuilderOK(WithSocks(builder, s))
  BY SocksConfigsTyped DEF BuilderOK, WithSocks
<1> QED
  BY <1>1, <1>2 DEF Configured

\* So does the configuration of a managed pool, whatever its policy.
LEMMA RuntimeBuilderOK == \A policy : BuilderOK(RuntimeBuilder(policy))
<1>1. Listener(NoSocks, IsolatedAuth(AutoPort)) \in SocksConfig
  BY NoSocksTyped, ListenerTyped DEF IsolatedAuth, Localhost, SocksPort, Addrs, PortSpec
<1>2. OwningControllerProcess(WritePortToFile(Authentication(AutoTcp, "cookie"))) \in ControlConfig
  BY DEF OwningControllerProcess, WritePortToFile, Authentication, AutoTcp, Tcp, ControlConfig,
         Addrs, PortSpec, Auths
<1> QED
  BY <1>1, <1>2 DEF RuntimeBuilder, BuilderOK

\* The invariant of the builder holds at first, and every step keeps it.
LEMMA InitBuilder == Init => BuilderInv
  BY NewBuilderOK DEF Init, BuilderInv

LEMMA StepKeepsBuilder == BuilderInv /\ [Next]_vars => BuilderInv'
<1> SUFFICES ASSUME BuilderInv, [Next]_vars PROVE BuilderInv'
  OBVIOUS
<1>1. CASE Configure
  BY <1>1, ConfiguredOK DEF Configure, BuilderInv, client
<1>2. CASE AddRaw
  BY <1>2 DEF AddRaw, WithRaw, BuilderInv, BuilderOK, client
<1>3. CASE StartManaged
  BY <1>3, RuntimeBuilderOK DEF StartManaged, BuilderInv, client
<1>4. CASE Build
  BY <1>4 DEF Build, BuilderInv, Commands, config
<1>5. CASE Launch
  BY <1>5, NewBuilderOK DEF Launch, BuilderInv, Commands
<1>6. CASE Command \/ Break \/ Read \/ Timeout \/ Ask \/ UNCHANGED vars
  BY <1>6 DEF Command, Break, Read, Timeout, Ask, Commands, BuilderInv, vars, config, client
<1>7. CASE Handle
  <2>1. builder' = builder /\ stage' = Outcome.to
    BY <1>7 DEF Handle, config
  <2>2. \A info : Authenticate(info).to \in {"failed", "AUTHCHALLENGE", "AUTHENTICATE"}
    BY DEF Authenticate, Goes, Fails
  <2>3. \A lines : Challenged(lines).to \in {"failed", "AUTHENTICATE"}
    BY DEF Challenged, Goes, Fails
  <2>4. stage \in Commands
    BY <1>7 DEF Handle, BuilderInv
  <2>5. stage # "text" => \A lines : Succeeds(lines).to # "built"
    BY <2>2, <2>3, <2>4 DEF Succeeds, Commands, Goes, Fails
  <2>6. Outcome.to # "built"
    BY <2>5 DEF Outcome, Goes, Fails
  <2> QED
    BY <1>7, <2>1, <2>6 DEF BuilderInv, Handle
<1> QED
  BY <1>1, <1>2, <1>3, <1>4, <1>5, <1>6, <1>7 DEF Next

\* A builder that was built has passed every check.
LEMMA InvGivesSound == BuilderInv => BuiltSound
<1> SUFFICES ASSUME BuilderInv, stage = "built" PROVE BuiltSound
  BY DEF BuiltSound
<1>1. BuilderOK(builder) /\ BuildError(builder) = "none"
  BY DEF BuilderInv
<1>2. ASSUME NEW bc \in builder.bridges, NEW i \in DOMAIN bc.bridges,
             NEW t \in bc.bridges[i].transport
      PROVE  \E k \in DOMAIN bc.plugins : t \in bc.plugins[k]
  <2>1. BridgesValid(bc)
    BY <1>1, NoErrorIsSound
  <2> QED
    BY <2>1 DEF BridgesValid, BridgeFails
<1> QED
  BY <1>1, <1>2, NoErrorIsSound DEF BuiltSound

\* Whatever a caller configures, build only accepts what BuiltSound says: no two fixed
\* ports are the same, a range stays within the TCP ports, and nobody but the host is
\* let in unasked.
THEOREM BuildsSound == Spec => []BuiltSound
<1>1. Spec => []BuilderInv
  BY InitBuilder, StepKeepsBuilder, PTL DEF Spec
<1> QED
  BY <1>1, InvGivesSound, PTL
-----------------------------------------------------------------------------
(* The managed pool.                                                       *)

\* The two listeners that build_runtime_config decides on.
Managed(b) ==
  /\ b.control = {OwningControllerProcess(WritePortToFile(Authentication(AutoTcp, "cookie")))}
  /\ b.socks = Listener(NoSocks, IsolatedAuth(AutoPort))
  /\ b.raw = <<>>

\* Only build rejects, once and for all, and what it sees of a managed pool is the
\* configuration that the pool has made.
ManagedInv ==
  /\ outcome = "rejected" => stage = "failed" /\ BuildError(builder) # "none"
  /\ pool # {} /\ (stage \in {"build", "built"} \/ outcome = "rejected") => Managed(builder)

\* The only thing in it that build may refuse is a bridge.
LEMMA ManagedError ==
  ASSUME NEW b, Managed(b), BuildError(b) # "none"
  PROVE  \E bc \in b.bridges : ~BridgesValid(bc)
<1>1. b.socks = [listeners |-> <<IsolatedAuth(AutoPort)>>, range |-> "none"]
  BY DEF Managed, Listener, NoSocks
<1>2. b.socks.range = "none" /\ DOMAIN b.socks.listeners = {1}
  BY <1>1
<1>3. b.socks.listeners[1].port = AutoPort
  BY <1>1 DEF IsolatedAuth, Localhost
<1>4. ~DuplicatePorts(b)
  BY <1>2, <1>3 DEF DuplicatePorts, FixedListeners, Fixed, AutoPort
<1>5. \A c \in b.control : c.auth = "cookie"
  BY DEF Managed, OwningControllerProcess, WritePortToFile, Authentication, AutoTcp, Tcp
<1>6. b.control # {}
  BY DEF Managed
<1> QED
  BY <1>2, <1>4, <1>5, <1>6 DEF BuildError

\* There is nothing in its Control Port or its listener to warn about.
LEMMA ManagedQuiet ==
  ASSUME NEW b, Managed(b)
  PROVE  Warnings(b) \subseteq {"HighConnLimit", "UnsafeLoggingDisabled"}
<1>1. \A c \in b.control : c.auth = "cookie" /\ c.file
  BY DEF Managed, OwningControllerProcess, WritePortToFile, Authentication, AutoTcp, Tcp
<1>2. b.socks.listeners = <<IsolatedAuth(AutoPort)>>
  BY DEF Managed, Listener, NoSocks
<1>3. ~(Len(b.socks.listeners) > MaxQuiet)
  BY <1>2, MaxQuietAssumption
<1> QED
  BY <1>1, <1>3 DEF Warnings, Warned

\* The reply to a command never sends the client back to build, nor rejects.
LEMMA HandleLater ==
  ASSUME BuilderInv, ManagedInv, Handle
  PROVE  stage' \notin {"build", "built"} /\ outcome' # "rejected"
<1>1. stage' = Outcome.to /\ outcome' = Outcome.outcome
  BY DEF Handle
<1>2. stage \in Commands /\ outcome # "rejected"
  BY DEF Handle, BuilderInv, ManagedInv, Commands
<1>3. \A info : /\ Authenticate(info).to \in {"failed", "AUTHCHALLENGE", "AUTHENTICATE"}
                /\ Authenticate(info).outcome # "rejected"
  BY <1>2 DEF Authenticate, Goes, Fails
<1>4. \A lines : /\ Challenged(lines).to \in {"failed", "AUTHENTICATE"}
                 /\ Challenged(lines).outcome # "rejected"
  BY <1>2 DEF Challenged, Goes, Fails
<1>5. stage # "text" =>
        \A lines : /\ Succeeds(lines).to \notin {"build", "built"}
                   /\ Succeeds(lines).outcome # "rejected"
  BY <1>2, <1>3, <1>4 DEF Succeeds, Commands, Goes, Fails
<1>6. Outcome.to \notin {"build", "built"} /\ Outcome.outcome # "rejected"
  BY <1>2, <1>5 DEF Outcome, Goes, Fails
<1> QED
  BY <1>1, <1>6

\* Nothing is rejected at first, and no pool is there.
LEMMA InitManaged == Init => ManagedInv
  BY DEF Init, ManagedInv

\* Every step keeps it: after build the configuration is Tor's, and no pool's.
LEMMA StepKeepsManaged == BuilderInv /\ ManagedInv /\ [Next]_vars => ManagedInv'
<1> SUFFICES ASSUME BuilderInv, ManagedInv, [Next]_vars PROVE ManagedInv'
  OBVIOUS
<1>1. CASE Configure
  BY <1>1 DEF Configure, ManagedInv, client
<1>2. CASE AddRaw
  BY <1>2 DEF AddRaw, ManagedInv, client
<1>3. CASE StartManaged
  <2>1. Managed(builder')
    BY <1>3 DEF StartManaged, RuntimeBuilder, Managed
  <2> QED
    BY <1>3, <2>1 DEF StartManaged, ManagedInv, client
<1>4. CASE Build
  BY <1>4 DEF Build, ManagedInv, config, Managed
<1>5. CASE Launch
  BY <1>5 DEF Launch, ManagedInv
<1>6. CASE Command \/ Break \/ Read \/ Timeout \/ Ask \/ UNCHANGED vars
  BY <1>6 DEF Command, Break, Read, Timeout, Ask, Commands, ManagedInv, Managed,
              vars, config, client
<1>7. CASE Handle
  BY <1>7, HandleLater DEF ManagedInv
<1> QED
  BY <1>1, <1>2, <1>3, <1>4, <1>5, <1>6, <1>7 DEF Next

\* Whatever the policy of a managed pool: only a bridge that is unusable makes its
\* configuration fail, and build warns of nothing in the Control Port and the listener that
\* the pool has chosen; it still warns of a limit or of logs that the policy has set.
THEOREM ManagedPoolBuilds == Spec => []ManagedBuilds
<1>1. Spec => [](BuilderInv /\ ManagedInv)
  BY InitBuilder, StepKeepsBuilder, InitManaged, StepKeepsManaged, PTL DEF Spec
<1>2. ManagedInv => ManagedBuilds
  BY ManagedError, ManagedQuiet DEF ManagedInv, ManagedBuilds
<1> QED
  BY <1>1, <1>2, PTL

-----------------------------------------------------------------------------
(* The values of a configuration that is being built.                      *)

TextInv ==
  /\ builder.raw \in Seq(RawOptions)
  /\ \A c, d \in builder.control : c = d
  /\ \A bc \in builder.bridges : /\ bc.bridges \in Seq(Bridge)
                                 /\ bc.plugins \in Seq(SUBSET {"obfs4", "meek"})
  /\ \A c, d \in builder.bridges : c = d
  /\ DOMAIN builder.parts = DOMAIN Groups
  /\ \A g \in DOMAIN Groups : builder.parts[g] \in [OptionsOf(g) -> Seq(Int)]

\* An option is set to numbers.
LEMMA OptionValuesTyped == \A o : OptionValues(o) \subseteq Seq(Int)
<1>1. Second \div 2 \in Int /\ 2 * Second + 1 \in Int
  BY SecondAssumption
<1>2. <<Second \div 2>> \in Seq(Int) /\ <<2 * Second + 1>> \in Seq(Int)
  BY <1>1
<1>3. <<>> \in Seq(Int) /\ <<1, 2>> \in Seq(Int) /\ <<0>> \in Seq(Int) /\ <<1>> \in Seq(Int)
  OBVIOUS
<1> QED
  BY <1>2, <1>3 DEF OptionValues

\* A part has a value for each of its options, whatever is set.
LEMMA PartsTyped ==
  ASSUME TextInv, NEW g \in DOMAIN Groups
  PROVE  Parts(builder, g) \subseteq [OptionsOf(g) -> Seq(Int)]
<1>1. Unset(g) \in [OptionsOf(g) -> Seq(Int)]
  BY DEF Unset
<1>2. builder.parts[g] \in [OptionsOf(g) -> Seq(Int)]
  BY DEF TextInv
<1>3. ASSUME NEW part \in [OptionsOf(g) -> Seq(Int)], NEW o \in OptionsOf(g), NEW v \in Seq(Int)
      PROVE  Setting(part, o, v) \in [OptionsOf(g) -> Seq(Int)]
  BY DEF Setting
<1>4. ASSUME NEW p \in Parts(builder, g) PROVE p \in [OptionsOf(g) -> Seq(Int)]
  <2>1. PICK o \in OptionsOf(g) :
          p \in {Setting(part, o, v) : part \in {Unset(g), builder.parts[g]}, v \in OptionValues(o)}
    BY DEF Parts
  <2>2. PICK part \in {Unset(g), builder.parts[g]}, v \in OptionValues(o) : p = Setting(part, o, v)
    BY <2>1
  <2>3. v \in Seq(Int) /\ part \in [OptionsOf(g) -> Seq(Int)]
    BY <1>1, <1>2, OptionValuesTyped
  <2> QED
    BY <1>3, <2>2, <2>3
<1> QED
  BY <1>4

LEMMA InitText == Init => TextInv
<1> SUFFICES ASSUME Init PROVE TextInv
  OBVIOUS
<1>1. builder = NewBuilder /\ builder.raw = <<>> /\ builder.control = {} /\ builder.bridges = {}
      /\ builder.parts = [g \in DOMAIN Groups |-> Unset(g)]
  BY DEF Init, NewBuilder
<1>2. \A g : Unset(g) \in [OptionsOf(g) -> Seq(Int)]
  BY DEF Unset
<1>3. <<>> \in Seq(RawOptions)
  OBVIOUS
<1> QED
  BY <1>1, <1>2, <1>3 DEF TextInv

LEMMA ConfigureText == TextInv /\ Configure => TextInv'
<1> SUFFICES ASSUME TextInv, Configure PROVE TextInv'
  OBVIOUS
<1>1. builder' \in Configured(builder)
  BY DEF Configure
<1>2. ASSUME NEW c \in Controls, builder' = WithControl(builder, c) PROVE TextInv'
  BY <1>2 DEF TextInv, WithControl
<1>3. ASSUME NEW s \in SocksConfigs, builder' = WithSocks(builder, s) PROVE TextInv'
  BY <1>3 DEF TextInv, WithSocks
<1>4. ASSUME NEW bc \in Bridges, builder' = WithBridges(builder, bc) PROVE TextInv'
  BY <1>4, BridgesAssumption DEF TextInv, WithBridges
<1>5. ASSUME NEW g \in DOMAIN Groups, NEW p \in Parts(builder, g), builder' = WithPart(builder, g, p)
      PROVE  TextInv'
  <2>1. p \in [OptionsOf(g) -> Seq(Int)]
    BY PartsTyped
  <2>2. /\ builder'.raw = builder.raw /\ builder'.control = builder.control
        /\ builder'.bridges = builder.bridges
        /\ builder'.parts = [builder.parts EXCEPT ![g] = p]
    BY <1>5 DEF WithPart
  <2>3. \A h \in DOMAIN Groups : builder'.parts[h] = IF h = g THEN p ELSE builder.parts[h]
    BY <2>2 DEF TextInv
  <2>4. DOMAIN builder'.parts = DOMAIN Groups
    BY <2>2 DEF TextInv
  <2> QED
    BY <2>1, <2>2, <2>3, <2>4 DEF TextInv
<1> QED
  BY <1>1, <1>2, <1>3, <1>4, <1>5 DEF Configured

LEMMA StepKeepsText == BuilderInv /\ TextInv /\ [Next]_vars => TextInv'
<1> SUFFICES ASSUME BuilderInv, TextInv, [Next]_vars PROVE TextInv'
  OBVIOUS
<1>1. CASE Configure
  BY <1>1, ConfigureText
<1>2. CASE AddRaw
  <2>1. PICK o \in RawOptions : builder' = WithRaw(builder, o)
    BY <1>2 DEF AddRaw
  <2>2. builder'.raw = Append(builder.raw, o) /\ builder'.raw \in Seq(RawOptions)
    BY <2>1, AppendProperties DEF TextInv, WithRaw
  <2> QED
    BY <2>1, <2>2 DEF TextInv, WithRaw
<1>3. CASE StartManaged
  <2>1. /\ builder'.raw = <<>> /\ builder'.parts = builder.parts /\ builder'.bridges = builder.bridges
        /\ \A c, d \in builder'.control : c = d
    BY <1>3 DEF StartManaged, RuntimeBuilder
  <2>2. <<>> \in Seq(RawOptions)
    OBVIOUS
  <2> QED
    BY <2>1, <2>2 DEF TextInv
<1>4. CASE Launch
  <2>1. builder' = NewBuilder
    BY <1>4 DEF Launch
  <2>2. builder'.raw = <<>> /\ builder'.control = {} /\ builder'.bridges = {}
        /\ builder'.parts = [g \in DOMAIN Groups |-> Unset(g)]
    BY <2>1 DEF NewBuilder
  <2>3. \A g : Unset(g) \in [OptionsOf(g) -> Seq(Int)]
    BY DEF Unset
  <2>4. <<>> \in Seq(RawOptions)
    OBVIOUS
  <2> QED
    BY <2>2, <2>3, <2>4 DEF TextInv
<1>5. CASE Build \/ Command \/ Break \/ Read \/ Handle \/ Timeout \/ Ask \/ UNCHANGED vars
  BY <1>5 DEF Build, Command, Break, Read, Handle, Timeout, Ask, TextInv, vars, config
<1> QED
  BY <1>1, <1>2, <1>3, <1>4, <1>5 DEF Next

-----------------------------------------------------------------------------
(* The text of a configuration is a sequence of lines.                     *)

IsSequence(s) == \E X : s \in Seq(X)

\* The sections of a text.
Typed(b) ==
  <<OptionalLines(b.control, ControlLines), SocksLines(b.socks),
    PartLines(b, "network"), PartLines(b, "circuits"), PartLines(b, "padding"),
    OptionalLines(b.bridges, BridgeLines),
    PartLines(b, "nodes"), PartLines(b, "system"), PartLines(b, "logging")>>

\* Sequences have their elements in one set.
LEMMA SequencesTogether ==
  ASSUME NEW Y, NEW ss \in Seq(Y), \A i \in DOMAIN ss : IsSequence(ss[i])
  PROVE  \E X : ss \in Seq(Seq(X))
<1> DEFINE X == UNION {{ss[i][j] : j \in DOMAIN ss[i]} : i \in DOMAIN ss}
<1>1. ASSUME NEW i \in DOMAIN ss PROVE ss[i] \in Seq(X)
  <2>1. PICK Z : ss[i] \in Seq(Z)
    BY <1>1 DEF IsSequence
  <2> DEFINE s == ss[i]
  <2>2. /\ DOMAIN s = 1 .. Len(s) /\ Len(s) \in Nat /\ s = [j \in 1 .. Len(s) |-> s[j]]
    BY <2>1, LenProperties
  <2>3. \A j \in 1 .. Len(s) : s[j] \in X
    BY <1>1, <2>2
  <2> HIDE DEF X
  <2>4. [j \in 1 .. Len(s) |-> s[j]] \in Seq(X)
    BY <2>2, <2>3
  <2> QED
    BY <2>2, <2>4
<1> HIDE DEF X
<1>2. /\ DOMAIN ss = 1 .. Len(ss) /\ Len(ss) \in Nat /\ ss = [i \in 1 .. Len(ss) |-> ss[i]]
  BY LenProperties
<1>3. [i \in 1 .. Len(ss) |-> ss[i]] \in Seq(Seq(X))
  BY <1>1, <1>2
<1> QED
  BY <1>2, <1>3

LEMMA ConcatIsSequence ==
  ASSUME NEW s, NEW t, IsSequence(s), IsSequence(t)
  PROVE  IsSequence(s \o t)
<1>1. PICK X, Y : s \in Seq(X) /\ t \in Seq(Y)
  BY DEF IsSequence
<1>2. s \in Seq(X \cup Y) /\ t \in Seq(X \cup Y)
  BY <1>1, SeqMonotonic
<1>3. s \o t \in Seq(X \cup Y)
  BY <1>2, ConcatProperties
<1> QED
  BY <1>3 DEF IsSequence

\* So are the lines of a Control Port, of listeners, bridges and options.
LEMMA OneIfIsSequence == \A present, option, value : IsSequence(OneIf(present, option, value))
<1> TAKE present, option, value
<1> DEFINE l == Line(option, value)
<1>1. <<l>> \in Seq({l}) /\ <<>> \in Seq({l})
  OBVIOUS
<1> QED
  BY <1>1 DEF OneIf, IsSequence

LEMMA ControlIsSequence == \A c : IsSequence(ControlLines(c))
<1> TAKE c
<1> DEFINE a == Line("ControlPort", RenderedPort(c.addr, c.port))
           b == IF c.auth = "hashed" THEN Line("HashedControlPassword", "hash")
                ELSE Line("CookieAuthentication", IF c.auth = "cookie" THEN "1" ELSE "0")
           w == OneIf(c.file, "ControlPortWriteToFile", "file")
           o == OneIf(c.owner, "__OwningControllerProcess", "pid")
<1>1. ControlLines(c) = <<a, b>> \o w \o o
  BY DEF ControlLines
<1>2. IsSequence(w) /\ IsSequence(o)
  BY OneIfIsSequence
<1> HIDE DEF a, b, w, o
<1>3. <<a, b>> \in Seq({a, b})
  OBVIOUS
<1>4. IsSequence(<<a, b>>)
  BY <1>3 DEF IsSequence
<1> QED
  BY <1>1, <1>2, <1>4, ConcatIsSequence

LEMMA SocksIsSequence == \A s \in SocksConfig : IsSequence(SocksLines(s))
<1> TAKE s \in SocksConfig
<1> DEFINE n == Len(s.listeners)
           f == SocksLines(s)
           X == {f[i] : i \in 1 .. n}
<1>1. DOMAIN s.listeners = 1 .. n /\ n \in Nat
  BY LenProperties DEF SocksConfig
<1>2. DOMAIN f = 1 .. n /\ f = [i \in 1 .. n |-> f[i]]
  BY <1>1 DEF SocksLines
<1> HIDE DEF f, n
<1>3. [i \in 1 .. n |-> f[i]] \in Seq(X)
  BY <1>1
<1>4. f \in Seq(X)
  BY <1>2, <1>3
<1> QED
  BY <1>4 DEF IsSequence, f

LEMMA BridgeIsSequence ==
  ASSUME NEW A, NEW B, NEW bc, bc.bridges \in Seq(A), bc.plugins \in Seq(B)
  PROVE  IsSequence(BridgeLines(bc))
<1> DEFINE u == Line("UseBridges", IF bc.use THEN "1" ELSE "0")
           p == [i \in DOMAIN bc.plugins |-> Line("ClientTransportPlugin", bc.plugins[i])]
           b == [i \in DOMAIN bc.bridges |-> Line("Bridge", bc.bridges[i])]
           P == {Line("ClientTransportPlugin", x) : x \in B}
           Q == {Line("Bridge", x) : x \in A}
<1>1. p \in Seq(P)
  <2>1. DOMAIN bc.plugins = 1 .. Len(bc.plugins) /\ Len(bc.plugins) \in Nat
        /\ \A i \in 1 .. Len(bc.plugins) : bc.plugins[i] \in B
    BY LenProperties, ElementOfSeq
  <2> QED
    BY <2>1
<1>2. b \in Seq(Q)
  <2>1. DOMAIN bc.bridges = 1 .. Len(bc.bridges) /\ Len(bc.bridges) \in Nat
        /\ \A i \in 1 .. Len(bc.bridges) : bc.bridges[i] \in A
    BY LenProperties, ElementOfSeq
  <2> QED
    BY <2>1
<1>3. BridgeLines(bc) = <<u>> \o p \o b
  BY DEF BridgeLines
<1> HIDE DEF u, p, b
<1>4. <<u>> \in Seq({u})
  OBVIOUS
<1>5. IsSequence(<<u>>) /\ IsSequence(p) /\ IsSequence(b)
  BY <1>1, <1>2, <1>4 DEF IsSequence
<1> QED
  BY <1>3, <1>5, ConcatIsSequence

LEMMA OptionIsSequence == \A o : \A v \in Seq(Int) : IsSequence(OptionLines(o, v))
<1> TAKE o
<1> TAKE v \in Seq(Int)
<1>1. CASE o = "Log"
  <2> DEFINE X == {Line(o, <<x>>) : x \in Int}
  <2>1. DOMAIN v = 1 .. Len(v) /\ Len(v) \in Nat /\ \A i \in 1 .. Len(v) : v[i] \in Int
    BY LenProperties, ElementOfSeq
  <2>2. [i \in 1 .. Len(v) |-> Line(o, <<v[i]>>)] \in Seq(X)
    BY <2>1
  <2>3. OptionLines(o, v) = [i \in 1 .. Len(v) |-> Line(o, <<v[i]>>)]
    BY <1>1, <2>1 DEF OptionLines
  <2> QED
    BY <2>2, <2>3 DEF IsSequence
<1>2. CASE o # "Log" /\ o \in Durations /\ v # <<>>
  <2> DEFINE l == Line(o, <<v[1] \div Second>>)
  <2>1. OptionLines(o, v) = <<l>>
    BY <1>2 DEF OptionLines
  <2>2. <<l>> \in Seq({l})
    OBVIOUS
  <2> QED
    BY <2>1, <2>2 DEF IsSequence
<1>3. CASE o # "Log" /\ ~(o \in Durations /\ v # <<>>)
  <2>1. OptionLines(o, v) = OneIf(v # <<>>, o, v)
    BY <1>3 DEF OptionLines
  <2> QED
    BY <2>1, OneIfIsSequence
<1> QED
  BY <1>1, <1>2, <1>3

\* Each group of options is a sequence.
LEMMA GroupsListed ==
  /\ DOMAIN Groups = {"network", "circuits", "padding", "nodes", "system", "logging"}
  /\ \A g \in DOMAIN Groups : /\ DOMAIN Groups[g] = 1 .. Len(Groups[g]) /\ Len(Groups[g]) \in Nat
                              /\ \A i \in 1 .. Len(Groups[g]) : Groups[g][i] \in OptionsOf(g)
<1>1. DOMAIN Groups = {"network", "circuits", "padding", "nodes", "system", "logging"}
  BY DEF Groups
<1>2. /\ Groups["network"] = Network /\ Groups["circuits"] = Circuits
      /\ Groups["padding"] = Padding /\ Groups["nodes"] = Nodes
      /\ Groups["system"] = System /\ Groups["logging"] = Logging
  BY DEF Groups
<1>3. /\ DOMAIN Network = 1 .. Len(Network) /\ Len(Network) \in Nat
      /\ DOMAIN Circuits = 1 .. Len(Circuits) /\ Len(Circuits) \in Nat
      /\ DOMAIN Padding = 1 .. Len(Padding) /\ Len(Padding) \in Nat
      /\ DOMAIN Nodes = 1 .. Len(Nodes) /\ Len(Nodes) \in Nat
      /\ DOMAIN System = 1 .. Len(System) /\ Len(System) \in Nat
      /\ DOMAIN Logging = 1 .. Len(Logging) /\ Len(Logging) \in Nat
  BY DEF Network, Circuits, Padding, Nodes, System, Logging
<1>4. \A g \in DOMAIN Groups : DOMAIN Groups[g] = 1 .. Len(Groups[g]) /\ Len(Groups[g]) \in Nat
  BY <1>1, <1>2, <1>3
<1> QED
  BY <1>1, <1>4 DEF OptionsOf

\* The lines of each option of a part.
LinesOf(b, g) ==
  [i \in DOMAIN Groups[g] |-> OptionLines(Groups[g][i], b.parts[g][Groups[g][i]])]

LEMMA PartIsSequence ==
  ASSUME TextInv, NEW g \in DOMAIN Groups
  PROVE  /\ \E X : LinesOf(builder, g) \in Seq(Seq(X))
         /\ PartLines(builder, g) = FlattenSeq(LinesOf(builder, g))
         /\ IsSequence(PartLines(builder, g))
<1> DEFINE n == Len(Groups[g])
           f == LinesOf(builder, g)
           Y == {f[i] : i \in 1 .. n}
<1>1. DOMAIN Groups[g] = 1 .. n /\ n \in Nat
  BY GroupsListed
<1>2. \A i \in 1 .. n : f[i] = OptionLines(Groups[g][i], builder.parts[g][Groups[g][i]])
  BY <1>1 DEF LinesOf
<1>3. \A i \in 1 .. n : IsSequence(f[i])
  <2> SUFFICES ASSUME NEW i \in 1 .. n PROVE IsSequence(f[i])
    OBVIOUS
  <2>1. Groups[g][i] \in OptionsOf(g)
    BY GroupsListed
  <2>2. builder.parts[g][Groups[g][i]] \in Seq(Int)
    BY <2>1 DEF TextInv
  <2> QED
    BY <1>2, <2>2, OptionIsSequence
<1>4. DOMAIN f = 1 .. n /\ f = [i \in 1 .. n |-> f[i]]
  BY <1>1 DEF LinesOf
<1> HIDE DEF f, n
<1>5. [i \in 1 .. n |-> f[i]] \in Seq(Y)
  BY <1>1
<1>6. f \in Seq(Y)
  BY <1>4, <1>5
<1>7. PICK X : f \in Seq(Seq(X))
  BY <1>3, <1>4, <1>6, SequencesTogether
<1>8. PartLines(builder, g) = FlattenSeq(f)
  BY DEF PartLines, LinesOf, f
<1>9. FlattenSeq(f) \in Seq(X)
  BY <1>7, FlattenTyped
<1> QED
  BY <1>7, <1>8, <1>9 DEF IsSequence, f

\* The text is the sections, and the raw options after them.
LEMMA TextIsSequence ==
  ASSUME BuilderOK(builder), TextInv
  PROVE  \E X : /\ Typed(builder) \in Seq(Seq(X)) /\ builder.raw \in Seq(X)
                /\ Rendered(builder) = FlattenSeq(Typed(builder)) \o builder.raw
                /\ Rendered(builder) \in Seq(X)
<1> DEFINE s1 == OptionalLines(builder.control, ControlLines)
           s2 == SocksLines(builder.socks)
           s3 == PartLines(builder, "network")
           s4 == PartLines(builder, "circuits")
           s5 == PartLines(builder, "padding")
           s6 == OptionalLines(builder.bridges, BridgeLines)
           s7 == PartLines(builder, "nodes")
           s8 == PartLines(builder, "system")
           s9 == PartLines(builder, "logging")
           s10 == builder.raw
           ss == <<s1, s2, s3, s4, s5, s6, s7, s8, s9>>
           all == <<s1, s2, s3, s4, s5, s6, s7, s8, s9, s10>>
           Y == {s1, s2, s3, s4, s5, s6, s7, s8, s9, s10}
<1>1. IsSequence(<<>>)
  <2>1. <<>> \in Seq({})
    OBVIOUS
  <2> QED
    BY <2>1 DEF IsSequence
<1>2. IsSequence(s1)
  BY <1>1, ControlIsSequence DEF OptionalLines
<1>3. IsSequence(s2)
  BY SocksIsSequence DEF BuilderOK
<1>4. IsSequence(s6)
  <2>1. CASE builder.bridges = {}
    BY <1>1, <2>1 DEF OptionalLines
  <2>2. CASE builder.bridges # {}
    <3>1. PICK bc \in builder.bridges : bc = CHOOSE x \in builder.bridges : TRUE
      BY <2>2
    <3>2. s6 = BridgeLines(bc)
      BY <2>2, <3>1 DEF OptionalLines
    <3>3. bc.bridges \in Seq(Bridge) /\ bc.plugins \in Seq(SUBSET {"obfs4", "meek"})
      BY <3>1 DEF TextInv
    <3> HIDE DEF s6
    <3> QED
      BY <3>2, <3>3, BridgeIsSequence
  <2> QED
    BY <2>1, <2>2
<1>5. IsSequence(s3) /\ IsSequence(s4) /\ IsSequence(s5) /\ IsSequence(s7) /\ IsSequence(s8)
      /\ IsSequence(s9)
  BY PartIsSequence, GroupsListed
<1>6. IsSequence(s10)
  BY DEF TextInv, IsSequence
<1>7. Typed(builder) = ss /\ Rendered(builder) = FlattenSeq(all)
  BY DEF Typed, Rendered
<1> HIDE DEF s1, s2, s3, s4, s5, s6, s7, s8, s9, s10
<1>8. /\ all \in Seq(Y) /\ DOMAIN all = 1 .. 10
      /\ all[1] = s1 /\ all[2] = s2 /\ all[3] = s3 /\ all[4] = s4 /\ all[5] = s5
      /\ all[6] = s6 /\ all[7] = s7 /\ all[8] = s8 /\ all[9] = s9 /\ all[10] = s10
  OBVIOUS
<1>9. all = Append(ss, s10)
  OBVIOUS
<1> HIDE DEF all, Y
<1>10. \A i \in 1 .. 10 : IsSequence(all[i])
  <2>1. \A i \in 1 .. 10 : i \in {1, 2, 3, 4, 5, 6, 7, 8, 9, 10}
    OBVIOUS
  <2> QED
    BY <1>2, <1>3, <1>4, <1>5, <1>6, <1>8, <2>1
<1>11. PICK X : all \in Seq(Seq(X))
  BY <1>8, <1>10, SequencesTogether
<1>12. /\ s1 \in Seq(X) /\ s2 \in Seq(X) /\ s3 \in Seq(X) /\ s4 \in Seq(X) /\ s5 \in Seq(X)
       /\ s6 \in Seq(X) /\ s7 \in Seq(X) /\ s8 \in Seq(X) /\ s9 \in Seq(X) /\ s10 \in Seq(X)
  <2>1. \A i \in 1 .. 10 : all[i] \in Seq(X)
    <3>1. Len(all) = 10
      BY <1>8, LenProperties
    <3>2. \A i \in 1 .. Len(all) : all[i] \in Seq(X)
      BY <1>11, ElementOfSeq
    <3> QED
      BY <3>1, <3>2
  <2>2. \A i \in {1, 2, 3, 4, 5, 6, 7, 8, 9, 10} : i \in 1 .. 10
    OBVIOUS
  <2>3. \A i \in {1, 2, 3, 4, 5, 6, 7, 8, 9, 10} : all[i] \in Seq(X)
    BY <2>1, <2>2
  <2> QED
    BY <1>8, <2>3
<1>13. ss \in Seq(Seq(X))
  BY <1>12
<1> HIDE DEF ss
<1>14. FlattenSeq(all) = FlattenSeq(ss) \o s10
  BY <1>9, <1>12, <1>13, FlattenSnoc
<1>15. FlattenSeq(all) \in Seq(X)
  BY <1>11, FlattenTyped
<1> QED
  BY <1>7, <1>12, <1>13, <1>14, <1>15 DEF s10

-----------------------------------------------------------------------------
(* What Tor reads in the lines.                                            *)

ValueOf(l, o) == IF l.option = o THEN <<l.value>> ELSE <<>>
Matches(lines, o) == [i \in DOMAIN lines |-> ValueOf(lines[i], o)]
ValuesIn(X) == {l.value : l \in X}

LEMMA ValueOfTyped ==
  ASSUME NEW X, NEW o
  PROVE  \A l \in X : ValueOf(l, o) \in Seq(ValuesIn(X))
<1> TAKE l \in X
<1>1. l.value \in ValuesIn(X)
  BY DEF ValuesIn
<1>2. <<l.value>> \in Seq(ValuesIn(X)) /\ <<>> \in Seq(ValuesIn(X))
  BY <1>1
<1> QED
  BY <1>2 DEF ValueOf

LEMMA MatchesTyped ==
  ASSUME NEW X, NEW s \in Seq(X), NEW o
  PROVE  /\ Matches(s, o) \in Seq(Seq(ValuesIn(X))) /\ Len(Matches(s, o)) = Len(s)
         /\ \A i \in 1 .. Len(s) : Matches(s, o)[i] = ValueOf(s[i], o)
         /\ Values(s, o) = FlattenSeq(Matches(s, o)) /\ Values(s, o) \in Seq(ValuesIn(X))
<1>1. DOMAIN s = 1 .. Len(s) /\ Len(s) \in Nat /\ \A i \in 1 .. Len(s) : s[i] \in X
  BY LenProperties, ElementOfSeq
<1>2. \A i \in 1 .. Len(s) : ValueOf(s[i], o) \in Seq(ValuesIn(X))
  BY <1>1, ValueOfTyped
<1>3. Matches(s, o) = [i \in 1 .. Len(s) |-> ValueOf(s[i], o)]
  BY <1>1 DEF Matches
<1>4. Matches(s, o) \in Seq(Seq(ValuesIn(X)))
  BY <1>1, <1>2, <1>3
<1>5. Values(s, o) = FlattenSeq(Matches(s, o))
  BY DEF Values, Matches, ValueOf
<1>6. Len(Matches(s, o)) = Len(s)
  BY <1>1, <1>3
<1> QED
  BY <1>3, <1>4, <1>5, <1>6, FlattenTyped

LEMMA ValuesEmpty == \A o : Values(<<>>, o) = <<>>
<1> TAKE o
<1>1. <<>> \in Seq({})
  OBVIOUS
<1>2. Matches(<<>>, o) = <<>>
  BY DEF Matches
<1> QED
  BY <1>1, <1>2, MatchesTyped, FlattenEmpty

LEMMA ValuesAppend ==
  ASSUME NEW X, NEW s \in Seq(X), NEW x \in X, NEW o
  PROVE  Values(Append(s, x), o) = Values(s, o) \o ValueOf(x, o)
<1> DEFINE t == Append(s, x)
           m == Matches(s, o)
           V == Seq(ValuesIn(X))
<1>1. /\ t \in Seq(X) /\ Len(t) = Len(s) + 1 /\ t[Len(s) + 1] = x /\ Len(s) \in Nat
      /\ \A i \in 1 .. Len(s) : t[i] = s[i]
  BY AppendProperties, LenProperties
<1> HIDE DEF t
<1>2. /\ m \in Seq(V) /\ Len(m) = Len(s)
      /\ \A i \in 1 .. Len(s) : m[i] = ValueOf(s[i], o)
      /\ Values(s, o) = FlattenSeq(m)
  BY MatchesTyped
<1>3. /\ Matches(t, o) \in Seq(V) /\ Len(Matches(t, o)) = Len(s) + 1
      /\ \A i \in 1 .. Len(s) + 1 : Matches(t, o)[i] = ValueOf(t[i], o)
      /\ Values(t, o) = FlattenSeq(Matches(t, o))
  BY <1>1, MatchesTyped
<1>4. ValueOf(x, o) \in V
  BY ValueOfTyped
<1> HIDE DEF m, V
<1>5. /\ Append(m, ValueOf(x, o)) \in Seq(V) /\ Len(Append(m, ValueOf(x, o))) = Len(s) + 1
      /\ Append(m, ValueOf(x, o))[Len(s) + 1] = ValueOf(x, o)
      /\ \A i \in 1 .. Len(s) : Append(m, ValueOf(x, o))[i] = m[i]
  BY <1>2, <1>4, AppendProperties
<1>6. \A i \in 1 .. Len(s) + 1 : Matches(t, o)[i] = Append(m, ValueOf(x, o))[i]
  <2> SUFFICES ASSUME NEW i \in 1 .. Len(s) + 1
               PROVE  Matches(t, o)[i] = Append(m, ValueOf(x, o))[i]
    OBVIOUS
  <2>1. CASE i = Len(s) + 1
    BY <1>1, <1>3, <1>5, <2>1
  <2>2. CASE i \in 1 .. Len(s)
    BY <1>1, <1>2, <1>3, <1>5, <2>2
  <2>3. i = Len(s) + 1 \/ i \in 1 .. Len(s)
    BY <1>1
  <2> QED
    BY <2>1, <2>2, <2>3
<1>7. Matches(t, o) = Append(m, ValueOf(x, o))
  <2>1. /\ Len(Matches(t, o)) = Len(Append(m, ValueOf(x, o)))
        /\ \A i \in 1 .. Len(Matches(t, o)) : Matches(t, o)[i] = Append(m, ValueOf(x, o))[i]
    BY <1>3, <1>5, <1>6
  <2> QED
    BY <1>3, <1>5, <2>1, SeqEqual
<1>8. FlattenSeq(Append(m, ValueOf(x, o))) = FlattenSeq(m) \o ValueOf(x, o)
  BY <1>2, <1>4, FlattenSnoc DEF V
<1> QED
  BY <1>2, <1>3, <1>7, <1>8 DEF t

LEMMA ValuesConcat ==
  ASSUME NEW X, NEW s \in Seq(X), NEW t \in Seq(X), NEW o
  PROVE  Values(s \o t, o) = Values(s, o) \o Values(t, o)
<1> DEFINE S == {u \in Seq(X) : Values(s \o u, o) = Values(s, o) \o Values(u, o)}
           V == ValuesIn(X)
<1>1. <<>> \in S
  <2>1. s \o <<>> = s /\ Values(s, o) \o <<>> = Values(s, o) /\ <<>> \in Seq(X)
    BY MatchesTyped, ConcatEmptySeq
  <2> QED
    BY <2>1, ValuesEmpty
<1>2. ASSUME NEW u \in Seq(X), NEW x \in X, u \in S
      PROVE  Append(u, x) \in S
  <2>1. Append(u, x) = u \o <<x>> /\ Append(u, x) \in Seq(X) /\ <<x>> \in Seq(X) /\ s \o u \in Seq(X)
    BY AppendIsConcat, AppendProperties, ConcatProperties
  <2>2. s \o Append(u, x) = Append(s \o u, x)
    BY <2>1, ConcatAssociative, AppendIsConcat
  <2>3. Values(s \o Append(u, x), o) = Values(s \o u, o) \o ValueOf(x, o)
    BY <2>1, <2>2, ValuesAppend
  <2>4. Values(s \o u, o) = Values(s, o) \o Values(u, o)
    BY <1>2
  <2>5. Values(Append(u, x), o) = Values(u, o) \o ValueOf(x, o)
    BY ValuesAppend
  <2>6. Values(s, o) \in Seq(V) /\ Values(u, o) \in Seq(V) /\ ValueOf(x, o) \in Seq(V)
    BY MatchesTyped, ValueOfTyped
  <2> HIDE DEF V
  <2>7. (Values(s, o) \o Values(u, o)) \o ValueOf(x, o) = Values(s, o) \o (Values(u, o) \o ValueOf(x, o))
    BY <2>6, ConcatAssociative
  <2> QED
    BY <2>1, <2>3, <2>4, <2>5, <2>7
<1> HIDE DEF S
<1>3. \A u \in Seq(X) : u \in S
  BY <1>1, <1>2, SeqBySet
<1> QED
  BY <1>3 DEF S

\* Lines of other options say nothing of an option.
LEMMA ValuesNone ==
  ASSUME NEW X, NEW o, \A l \in X : l.option # o
  PROVE  \A s \in Seq(X) : Values(s, o) = <<>>
<1> DEFINE S == {s \in Seq(X) : Values(s, o) = <<>>}
<1>1. <<>> \in S
  <2>1. <<>> \in Seq(X)
    OBVIOUS
  <2> QED
    BY <2>1, ValuesEmpty
<1>2. ASSUME NEW s \in Seq(X), NEW x \in X, s \in S PROVE Append(s, x) \in S
  <2>1. Values(Append(s, x), o) = Values(s, o) \o ValueOf(x, o)
    BY ValuesAppend
  <2>2. ValueOf(x, o) = <<>> /\ Values(s, o) = <<>> /\ <<>> \o <<>> = <<>>
    BY <1>2 DEF ValueOf
  <2>3. Append(s, x) \in Seq(X)
    BY AppendProperties
  <2> QED
    BY <2>1, <2>2, <2>3
<1> HIDE DEF S
<1>3. \A s \in Seq(X) : s \in S
  BY <1>1, <1>2, SeqBySet
<1> QED
  BY <1>3 DEF S

\* Lines of an option alone say their values.
LEMMA ValuesAll ==
  ASSUME NEW X, NEW o, \A l \in X : l.option = o, NEW s \in Seq(X)
  PROVE  /\ Values(s, o) \in Seq(ValuesIn(X)) /\ Len(Values(s, o)) = Len(s)
         /\ \A i \in 1 .. Len(s) : Values(s, o)[i] = s[i].value
<1> DEFINE V == ValuesIn(X)
           Good(t) == /\ Values(t, o) \in Seq(V) /\ Len(Values(t, o)) = Len(t)
                      /\ \A i \in 1 .. Len(t) : Values(t, o)[i] = t[i].value
           S == {t \in Seq(X) : Good(t)}
<1>1. <<>> \in S
  <2>1. <<>> \in Seq(X) /\ <<>> \in Seq(V) /\ \A i : ~(i \in 1 .. Len(<<>>))
    OBVIOUS
  <2>2. Values(<<>>, o) = <<>>
    BY ValuesEmpty
  <2>3. Good(<<>>)
    BY <2>1, <2>2
  <2> QED
    BY <2>1, <2>3
<1>2. ASSUME NEW t \in Seq(X), NEW x \in X, t \in S PROVE Append(t, x) \in S
  <2>1. Values(Append(t, x), o) = Values(t, o) \o ValueOf(x, o)
    BY ValuesAppend
  <2>2. ValueOf(x, o) = <<x.value>> /\ x.value \in V
    BY DEF ValueOf, ValuesIn
  <2>3. /\ Append(t, x) \in Seq(X) /\ Len(Append(t, x)) = Len(t) + 1 /\ Append(t, x)[Len(t) + 1] = x
        /\ Len(t) \in Nat /\ \A i \in 1 .. Len(t) : Append(t, x)[i] = t[i]
    BY AppendProperties, LenProperties
  <2> DEFINE v == Values(t, o)
  <2>4. v \in Seq(V) /\ Len(v) = Len(t) /\ \A i \in 1 .. Len(t) : v[i] = t[i].value
    BY <1>2
  <2> HIDE DEF V, v
  <2>5. v \o <<x.value>> = Append(v, x.value)
    BY <2>2, <2>4, AppendIsConcat
  <2>6. /\ Append(v, x.value) \in Seq(V) /\ Len(Append(v, x.value)) = Len(t) + 1
        /\ Append(v, x.value)[Len(t) + 1] = x.value
        /\ \A i \in 1 .. Len(t) : Append(v, x.value)[i] = v[i]
    BY <2>2, <2>4, AppendProperties
  <2>7. Values(Append(t, x), o) = Append(v, x.value)
    BY <2>1, <2>2, <2>5 DEF v
  <2>8. \A i \in 1 .. Len(t) + 1 : Append(v, x.value)[i] = Append(t, x)[i].value
    <3> SUFFICES ASSUME NEW i \in 1 .. Len(t) + 1 PROVE Append(v, x.value)[i] = Append(t, x)[i].value
      OBVIOUS
    <3>1. CASE i = Len(t) + 1
      BY <2>3, <2>6, <3>1
    <3>2. CASE i \in 1 .. Len(t)
      BY <2>3, <2>4, <2>6, <3>2
    <3>3. i = Len(t) + 1 \/ i \in 1 .. Len(t)
      BY <2>3
    <3> QED
      BY <3>1, <3>2, <3>3
  <2>9. Good(Append(t, x))
    BY <2>3, <2>6, <2>7, <2>8 DEF V
  <2> HIDE DEF Good
  <2> QED
    BY <2>3, <2>9
<1> HIDE DEF S
<1>3. \A t \in Seq(X) : t \in S
  BY <1>1, <1>2, SeqBySet
<1> QED
  BY <1>3 DEF S

\* The values of an option are those that its lines have.
LEMMA ValuesWithin ==
  ASSUME NEW X, NEW o, NEW V, \A l \in X : l.option = o => l.value \in V
  PROVE  \A s \in Seq(X) : Values(s, o) \in Seq(V)
<1> DEFINE S == {s \in Seq(X) : Values(s, o) \in Seq(V)}
<1>1. <<>> \in S
  <2>1. <<>> \in Seq(X) /\ <<>> \in Seq(V)
    OBVIOUS
  <2> QED
    BY <2>1, ValuesEmpty
<1>2. ASSUME NEW s \in Seq(X), NEW x \in X, s \in S PROVE Append(s, x) \in S
  <2>1. Values(Append(s, x), o) = Values(s, o) \o ValueOf(x, o)
    BY ValuesAppend
  <2>2. ValueOf(x, o) \in Seq(V)
    BY DEF ValueOf
  <2>3. Values(s, o) \o ValueOf(x, o) \in Seq(V)
    BY <1>2, <2>2, ConcatProperties
  <2>4. Append(s, x) \in Seq(X)
    BY AppendProperties
  <2> QED
    BY <2>1, <2>3, <2>4
<1> HIDE DEF S
<1>3. \A s \in Seq(X) : s \in S
  BY <1>1, <1>2, SeqBySet
<1> QED
  BY <1>3 DEF S

\* The lines of an option, one for each of its values, say these.
OneForEach(o, v) == [i \in DOMAIN v |-> Line(o, v[i])]

LEMMA LinesRead ==
  ASSUME NEW A, NEW v \in Seq(A), NEW o
  PROVE  /\ OneForEach(o, v) \in Seq({Line(o, x) : x \in A})
         /\ Values(OneForEach(o, v), o) = v
         /\ \A q : q # o => Values(OneForEach(o, v), q) = <<>>
<1> DEFINE X == {Line(o, x) : x \in A}
           s == OneForEach(o, v)
<1>1. DOMAIN v = 1 .. Len(v) /\ Len(v) \in Nat /\ \A i \in 1 .. Len(v) : v[i] \in A
  BY LenProperties, ElementOfSeq
<1>2. s \in Seq(X) /\ Len(s) = Len(v) /\ \A i \in 1 .. Len(v) : s[i] = Line(o, v[i])
  BY <1>1 DEF OneForEach
<1>3. /\ \A l \in X : l.option = o
      /\ \A x : Line(o, x).value = x
      /\ ValuesIn(X) \subseteq A
  BY DEF Line, ValuesIn
<1> HIDE DEF X, s
<1>4. \A q : q # o => Values(s, q) = <<>>
  BY <1>2, <1>3, ValuesNone
<1> DEFINE w == Values(s, o)
<1>5. /\ Values(s, o) \in Seq(ValuesIn(X)) /\ Len(Values(s, o)) = Len(s)
      /\ \A i \in 1 .. Len(s) : Values(s, o)[i] = s[i].value
  <2>1. s \in Seq(X) /\ \A l \in X : l.option = o
    BY <1>2, <1>3
  <2>2. Values(s, o) \in Seq(ValuesIn(X))
    BY <2>1, ValuesAll
  <2>3. Len(Values(s, o)) = Len(s)
    BY <2>1, ValuesAll
  <2>4. \A i \in 1 .. Len(s) : Values(s, o)[i] = s[i].value
    BY <2>1, <2>2, <2>3, ValuesAll
  <2> QED
    BY <2>2, <2>3, <2>4
<1>6. w \in Seq(ValuesIn(X)) /\ Len(w) = Len(v) /\ \A i \in 1 .. Len(v) : w[i] = v[i]
  BY <1>2, <1>3, <1>5
<1> HIDE DEF w
<1>7. w \in Seq(A)
  BY <1>3, <1>6, SeqMonotonic
<1>8. w = v
  BY <1>6, <1>7, SeqEqual
<1> QED
  BY <1>2, <1>4, <1>8 DEF w, X, s

\* Of some sections, the one that tells of an option says it all.
LEMMA ValuesSections ==
  ASSUME NEW X, NEW o, NEW ss \in Seq(Seq(X))
  PROVE  /\ (\A i \in 1 .. Len(ss) : Values(ss[i], o) = <<>>) => Values(FlattenSeq(ss), o) = <<>>
         /\ \A k \in 1 .. Len(ss) :
              (\A i \in 1 .. Len(ss) : i # k => Values(ss[i], o) = <<>>)
                => Values(FlattenSeq(ss), o) = Values(ss[k], o)
<1> DEFINE Empty(t, k) == \A i \in 1 .. Len(t) : i # k => Values(t[i], o) = <<>>
           Good(t) == /\ Empty(t, 0) => Values(FlattenSeq(t), o) = <<>>
                      /\ \A k \in 1 .. Len(t) : Empty(t, k) => Values(FlattenSeq(t), o) = Values(t[k], o)
           S == {t \in Seq(Seq(X)) : Good(t)}
<1>1. <<>> \in S
  <2>1. <<>> \in Seq(Seq(X)) /\ \A k : ~(k \in 1 .. Len(<<>>))
    OBVIOUS
  <2>2. Values(FlattenSeq(<<>>), o) = <<>>
    BY FlattenEmpty, ValuesEmpty
  <2> QED
    BY <2>1, <2>2
<1>2. ASSUME NEW t \in Seq(Seq(X)), NEW x \in Seq(X), t \in S PROVE Append(t, x) \in S
  <2> DEFINE u == Append(t, x)
             n == Len(t)
  <2>1. /\ u \in Seq(Seq(X)) /\ Len(u) = n + 1 /\ u[n + 1] = x /\ n \in Nat
        /\ \A i \in 1 .. n : u[i] = t[i]
    BY AppendProperties, LenProperties
  <2>2. FlattenSeq(u) = FlattenSeq(t) \o x /\ FlattenSeq(t) \in Seq(X)
    BY FlattenSnoc, FlattenTyped
  <2> HIDE DEF u
  <2>3. Values(FlattenSeq(u), o) = Values(FlattenSeq(t), o) \o Values(x, o)
    BY <2>2, ValuesConcat
  <2>4. /\ Values(FlattenSeq(t), o) \in Seq(ValuesIn(X)) /\ Values(x, o) \in Seq(ValuesIn(X))
    BY <2>2, MatchesTyped
  <2>5. /\ Values(x, o) = <<>> =>
             Values(FlattenSeq(t), o) \o Values(x, o) = Values(FlattenSeq(t), o)
        /\ Values(FlattenSeq(t), o) = <<>> =>
             Values(FlattenSeq(t), o) \o Values(x, o) = Values(x, o)
    BY <2>4, ConcatEmptySeq
  <2>6. Good(t)
    BY <1>2
  <2>7. \A k : Empty(u, k) => Empty(t, k)
    BY <2>1
  <2>8. \A k : Empty(u, k) /\ k # n + 1 => Values(x, o) = <<>>
    BY <2>1
  <2>9. Empty(u, 0) => Values(FlattenSeq(u), o) = <<>>
    <3> SUFFICES ASSUME Empty(u, 0) PROVE Values(FlattenSeq(u), o) = <<>>
      OBVIOUS
    <3>1. Values(FlattenSeq(t), o) = <<>>
      BY <2>6, <2>7
    <3>2. 0 # n + 1
      BY <2>1
    <3>3. Values(x, o) = <<>>
      <4> HIDE DEF Empty
      <4> QED
        BY <2>8, <3>2
    <3>4. Values(FlattenSeq(u), o) = Values(FlattenSeq(t), o)
      <4>1. Values(FlattenSeq(t), o) \o Values(x, o) = Values(FlattenSeq(t), o)
        BY ONLY <2>5, <3>3, Zenon
      <4> QED
        BY ONLY <2>3, <4>1, Zenon
    <3> QED
      BY <3>1, <3>4
  <2>10. ASSUME NEW k \in 1 .. n + 1, Empty(u, k) PROVE Values(FlattenSeq(u), o) = Values(u[k], o)
    <3>1. CASE k = n + 1
      <4>1. Empty(t, 0)
        BY <2>1, <2>10, <3>1
      <4>2. Values(FlattenSeq(t), o) = <<>>
        BY <2>6, <4>1
      <4> QED
        BY <2>1, <2>3, <2>5, <3>1, <4>2
    <3>2. CASE k \in 1 .. n
      <4>1. Values(FlattenSeq(t), o) = Values(t[k], o)
        BY <2>6, <2>7, <2>10, <3>2
      <4>2. k # n + 1
        BY <2>1, <3>2
      <4>3. Values(x, o) = <<>>
        <5> HIDE DEF Empty
        <5> QED
          BY <2>8, <2>10, <4>2
      <4>4. Values(FlattenSeq(u), o) = Values(FlattenSeq(t), o)
        <5>1. Values(FlattenSeq(t), o) \o Values(x, o) = Values(FlattenSeq(t), o)
          BY ONLY <2>5, <4>3, Zenon
        <5> QED
          BY ONLY <2>3, <5>1, Zenon
      <4>5. u[k] = t[k]
        BY <2>1, <3>2
      <4> QED
        BY <4>1, <4>4, <4>5
    <3> QED
      BY <2>1, <3>1, <3>2
  <2> QED
    BY <2>1, <2>9, <2>10 DEF u
<1> HIDE DEF S
<1>3. \A t \in Seq(Seq(X)) : t \in S
  BY <1>1, <1>2, SeqBySet
<1>4. Good(ss)
  BY <1>3 DEF S
<1>5. \A i \in 1 .. Len(ss) : i # 0
  BY LenProperties
<1> QED
  BY <1>4, <1>5

-----------------------------------------------------------------------------
(* What Tor reads in the section of a part, and nowhere else.              *)

NetworkNames  == {"ClientUseIPv4", "ClientUseIPv6"}
CircuitsNames == {"MaxCircuitDirtiness", "NewCircuitPeriod", "CircuitsAvailableTimeout",
                  "SocksTimeout", "CircuitBuildTimeout", "LearnCircuitBuildTimeout",
                  "CircuitStreamTimeout", "MaxClientCircuitsPending", "NumEntryGuards",
                  "UseEntryGuards"}
PaddingNames  == {"ConnectionPadding", "ReducedConnectionPadding", "CircuitPadding",
                  "ReducedCircuitPadding", "KeepalivePeriod"}
NodesNames    == {"ExitNodes", "ExcludeExitNodes", "StrictNodes"}
SystemNames   == {"AvoidDiskWrites", "HardwareAccel", "ConnLimit", "DisableDebuggerAttachment"}
LoggingNames  == {"Log", "SafeLogging", "SyslogIdentityTag"}

\* No two options of a group are the same.
LEMMA GroupNames ==
  /\ OptionsOf("network") = NetworkNames /\ OptionsOf("circuits") = CircuitsNames
  /\ OptionsOf("padding") = PaddingNames /\ OptionsOf("nodes") = NodesNames
  /\ OptionsOf("system") = SystemNames /\ OptionsOf("logging") = LoggingNames
<1>1. /\ Groups["network"] = Network /\ Groups["circuits"] = Circuits
      /\ Groups["padding"] = Padding /\ Groups["nodes"] = Nodes
      /\ Groups["system"] = System /\ Groups["logging"] = Logging
  BY DEF Groups
<1>2. OptionsOf("network") = NetworkNames
  BY <1>1 DEF OptionsOf, Network, NetworkNames
<1>3. OptionsOf("circuits") = CircuitsNames
  <2>1. DOMAIN Circuits = 1 .. 10 /\ \A i \in 1 .. 10 : i \in {1, 2, 3, 4, 5, 6, 7, 8, 9, 10}
    BY DEF Circuits
  <2>2. /\ Circuits[1] = "MaxCircuitDirtiness" /\ Circuits[2] = "NewCircuitPeriod"
        /\ Circuits[3] = "CircuitsAvailableTimeout" /\ Circuits[4] = "SocksTimeout"
        /\ Circuits[5] = "CircuitBuildTimeout" /\ Circuits[6] = "LearnCircuitBuildTimeout"
        /\ Circuits[7] = "CircuitStreamTimeout" /\ Circuits[8] = "MaxClientCircuitsPending"
        /\ Circuits[9] = "NumEntryGuards" /\ Circuits[10] = "UseEntryGuards"
    BY DEF Circuits
  <2>3. OptionsOf("circuits") = {Circuits[i] : i \in 1 .. 10}
    BY <1>1, <2>1 DEF OptionsOf
  <2> QED
    BY <2>1, <2>2, <2>3 DEF CircuitsNames
<1>4. OptionsOf("padding") = PaddingNames
  BY <1>1 DEF OptionsOf, Padding, PaddingNames
<1>5. OptionsOf("nodes") = NodesNames
  BY <1>1 DEF OptionsOf, Nodes, NodesNames
<1>6. OptionsOf("system") = SystemNames
  BY <1>1 DEF OptionsOf, System, SystemNames
<1>7. OptionsOf("logging") = LoggingNames
  BY <1>1 DEF OptionsOf, Logging, LoggingNames
<1> QED
  BY <1>2, <1>3, <1>4, <1>5, <1>6, <1>7

LEMMA GroupsInjective ==
  \A g \in DOMAIN Groups : \A i, j \in 1 .. Len(Groups[g]) : Groups[g][i] = Groups[g][j] => i = j
<1>1. /\ Groups["network"] = Network /\ Groups["circuits"] = Circuits
      /\ Groups["padding"] = Padding /\ Groups["nodes"] = Nodes
      /\ Groups["system"] = System /\ Groups["logging"] = Logging
  BY DEF Groups
<1>2. \A i, j \in 1 .. Len(Network) : Network[i] = Network[j] => i = j
  BY DEF Network
<1>3. \A i, j \in 1 .. Len(Circuits) : Circuits[i] = Circuits[j] => i = j
  <2>1. Len(Circuits) = 10 /\ \A i \in 1 .. 10 : i \in {1, 2, 3, 4, 5, 6, 7, 8, 9, 10}
    BY DEF Circuits
  <2>2. /\ Circuits[1] = "MaxCircuitDirtiness" /\ Circuits[2] = "NewCircuitPeriod"
        /\ Circuits[3] = "CircuitsAvailableTimeout" /\ Circuits[4] = "SocksTimeout"
        /\ Circuits[5] = "CircuitBuildTimeout" /\ Circuits[6] = "LearnCircuitBuildTimeout"
        /\ Circuits[7] = "CircuitStreamTimeout" /\ Circuits[8] = "MaxClientCircuitsPending"
        /\ Circuits[9] = "NumEntryGuards" /\ Circuits[10] = "UseEntryGuards"
    BY DEF Circuits
  <2> QED
    BY <2>1, <2>2
<1>4. \A i, j \in 1 .. Len(Padding) : Padding[i] = Padding[j] => i = j
  BY DEF Padding
<1>5. \A i, j \in 1 .. Len(Nodes) : Nodes[i] = Nodes[j] => i = j
  BY DEF Nodes
<1>6. \A i, j \in 1 .. Len(System) : System[i] = System[j] => i = j
  BY DEF System
<1>7. \A i, j \in 1 .. Len(Logging) : Logging[i] = Logging[j] => i = j
  BY DEF Logging
<1> QED
  BY <1>1, <1>2, <1>3, <1>4, <1>5, <1>6, <1>7, GroupsListed

\* An option is of one part alone.
LEMMA NamesApart ==
  ASSUME NEW g \in DOMAIN Groups, NEW o \in OptionsOf(g)
  PROVE  /\ \A h \in DOMAIN Groups : o \in OptionsOf(h) => h = g
         /\ o \notin ControlNames /\ o \notin BridgeNames /\ o # "SocksPort"
<1> DEFINE all == NetworkNames \cup CircuitsNames \cup PaddingNames \cup NodesNames
                  \cup SystemNames \cup LoggingNames
<1>1. o \in all
  BY GroupsListed, GroupNames
<1>2. \A p \in all : p \notin ControlNames /\ p \notin BridgeNames /\ p # "SocksPort"
  BY DEF NetworkNames, CircuitsNames, PaddingNames, NodesNames, SystemNames, LoggingNames,
         ControlNames, BridgeNames
<1>3. /\ NetworkNames \cap CircuitsNames = {} /\ NetworkNames \cap PaddingNames = {}
      /\ NetworkNames \cap NodesNames = {} /\ NetworkNames \cap SystemNames = {}
      /\ NetworkNames \cap LoggingNames = {}
  BY DEF NetworkNames, CircuitsNames, PaddingNames, NodesNames, SystemNames, LoggingNames
<1>4. /\ CircuitsNames \cap PaddingNames = {} /\ CircuitsNames \cap NodesNames = {}
      /\ CircuitsNames \cap SystemNames = {} /\ CircuitsNames \cap LoggingNames = {}
  BY DEF CircuitsNames, PaddingNames, NodesNames, SystemNames, LoggingNames
<1>5. /\ PaddingNames \cap NodesNames = {} /\ PaddingNames \cap SystemNames = {}
      /\ PaddingNames \cap LoggingNames = {} /\ NodesNames \cap SystemNames = {}
      /\ NodesNames \cap LoggingNames = {} /\ SystemNames \cap LoggingNames = {}
  BY DEF PaddingNames, NodesNames, SystemNames, LoggingNames
<1>6. \A h \in DOMAIN Groups : o \in OptionsOf(h) => h = g
  BY <1>3, <1>4, <1>5, GroupsListed, GroupNames
<1> QED
  BY <1>1, <1>2, <1>6

\* What the lines of an option say of it: a value if it is set, but each log.
TypedValue(o, v) == IF o \in Durations /\ v # <<>> THEN <<v[1] \div Second>> ELSE v

\* Sequences of one element each, one after the other, are the sequence of these.
LEMMA FlattenSingles ==
  ASSUME NEW X, NEW w \in Seq(Seq(X)), NEW v \in Seq(X), Len(w) = Len(v),
         \A i \in 1 .. Len(v) : w[i] = <<v[i]>>
  PROVE  FlattenSeq(w) = v
<1> DEFINE Ones(t) == [i \in 1 .. Len(t) |-> <<t[i]>>]
           S == {t \in Seq(X) : Ones(t) \in Seq(Seq(X)) /\ FlattenSeq(Ones(t)) = t}
<1>1. <<>> \in S
  <2>1. Ones(<<>>) = <<>> /\ <<>> \in Seq(X) /\ <<>> \in Seq(Seq(X))
    OBVIOUS
  <2> QED
    BY <2>1, FlattenEmpty
<1>2. ASSUME NEW t \in Seq(X), NEW x \in X, t \in S PROVE Append(t, x) \in S
  <2> DEFINE u == Append(t, x)
  <2>1. /\ u \in Seq(X) /\ Len(u) = Len(t) + 1 /\ u[Len(t) + 1] = x /\ Len(t) \in Nat
        /\ \A i \in 1 .. Len(t) : u[i] = t[i]
    BY AppendProperties, LenProperties
  <2>2. Ones(t) \in Seq(Seq(X)) /\ FlattenSeq(Ones(t)) = t /\ <<x>> \in Seq(X)
        /\ Len(Ones(t)) = Len(t) /\ \A i \in 1 .. Len(t) : Ones(t)[i] = <<t[i]>>
    BY <1>2, <2>1
  <2>3. Len(Ones(u)) = Len(t) + 1 /\ \A i \in 1 .. Len(t) + 1 : Ones(u)[i] = <<u[i]>>
    BY <2>1
  <2>4. Ones(u) \in Seq(Seq(X))
    <3>1. \A i \in 1 .. Len(u) : <<u[i]>> \in Seq(X)
      BY <2>1, ElementOfSeq
    <3> QED
      BY <2>1, <3>1
  <2> DEFINE a == Append(Ones(t), <<x>>)
  <2> HIDE DEF u, Ones
  <2>5. /\ a \in Seq(Seq(X)) /\ Len(a) = Len(t) + 1 /\ a[Len(t) + 1] = <<x>>
        /\ \A i \in 1 .. Len(t) : a[i] = Ones(t)[i]
    BY <2>2, AppendProperties
  <2> HIDE DEF a
  <2>6. \A i \in 1 .. Len(t) + 1 : Ones(u)[i] = a[i]
    <3> SUFFICES ASSUME NEW i \in 1 .. Len(t) + 1 PROVE Ones(u)[i] = a[i]
      OBVIOUS
    <3>1. CASE i = Len(t) + 1
      BY <2>1, <2>3, <2>5, <3>1
    <3>2. CASE i \in 1 .. Len(t)
      BY <2>1, <2>2, <2>3, <2>5, <3>2
    <3> QED
      BY <2>1, <3>1, <3>2
  <2>7. Ones(u) = a
    BY <2>3, <2>4, <2>5, <2>6, SeqEqual
  <2>8. FlattenSeq(a) = t \o <<x>> /\ t \o <<x>> = u
    BY <2>2, FlattenSnoc, AppendIsConcat DEF a, u
  <2> QED
    BY <2>1, <2>4, <2>7, <2>8 DEF u
<1> HIDE DEF S
<1>3. \A t \in Seq(X) : t \in S
  BY <1>1, <1>2, SeqBySet
<1>4. Ones(v) \in Seq(Seq(X)) /\ FlattenSeq(Ones(v)) = v
  BY <1>3 DEF S
<1>5. Len(Ones(v)) = Len(v) /\ \A i \in 1 .. Len(v) : Ones(v)[i] = <<v[i]>>
  BY LenProperties
<1> HIDE DEF Ones
<1>6. w = Ones(v)
  BY <1>4, <1>5, SeqEqual
<1> QED
  BY <1>4, <1>6

LEMMA SingleValue ==
  ASSUME NEW o, NEW x
  PROVE  Values(<<Line(o, x)>>, o) = <<x>>
<1> DEFINE l == Line(o, x)
<1>1. <<>> \in Seq({l}) /\ Append(<<>>, l) = <<l>>
  OBVIOUS
<1>2. ValueOf(l, o) = <<x>>
  BY DEF ValueOf, Line
<1>3. Values(<<l>>, o) = Values(<<>>, o) \o <<x>>
  <2> HIDE DEF l
  <2>1. l \in {l}
    OBVIOUS
  <2> QED
    BY <1>1, <1>2, <2>1, ValuesAppend
<1>4. <<>> \o <<x>> = <<x>>
  OBVIOUS
<1> QED
  BY <1>3, <1>4, ValuesEmpty

LEMMA OptionRead ==
  ASSUME NEW o, NEW v \in Seq(Int)
  PROVE  /\ o # "Log" => Values(OptionLines(o, v), o) = IF v = <<>> THEN <<>> ELSE <<TypedValue(o, v)>>
         /\ o = "Log" => /\ Values(OptionLines(o, v), o) \in Seq(Seq(Int))
                         /\ FlattenSeq(Values(OptionLines(o, v), o)) = v
         /\ \A p : p # o => Values(OptionLines(o, v), p) = <<>>
<1>1. CASE o = "Log"
  <2> DEFINE X == {Line(o, <<x>>) : x \in Int}
             s == [i \in 1 .. Len(v) |-> Line(o, <<v[i]>>)]
  <2>1. DOMAIN v = 1 .. Len(v) /\ Len(v) \in Nat /\ \A i \in 1 .. Len(v) : v[i] \in Int
    BY LenProperties, ElementOfSeq
  <2>2. s \in Seq(X) /\ Len(s) = Len(v) /\ \A i \in 1 .. Len(v) : s[i].value = <<v[i]>>
    BY <2>1 DEF Line
  <2>3. OptionLines(o, v) = s
    BY <1>1, <2>1 DEF OptionLines
  <2>4. \A l \in X : l.option = o
    BY DEF Line
  <2>5. ValuesIn(X) \subseteq Seq(Int)
    <3>1. \A x \in Int : Line(o, <<x>>).value = <<x>> /\ <<x>> \in Seq(Int)
      BY DEF Line
    <3>2. \A l \in X : l.value \in Seq(Int)
      BY <3>1
    <3> HIDE DEF X
    <3> QED
      BY <3>2 DEF ValuesIn
  <2> HIDE DEF s, X
  <2> DEFINE w == Values(s, o)
  <2>6. w \in Seq(ValuesIn(X)) /\ Len(w) = Len(v) /\ \A i \in 1 .. Len(v) : w[i] = <<v[i]>>
    BY <2>2, <2>4, ValuesAll
  <2>7. w \in Seq(Seq(Int))
    BY <2>5, <2>6, SeqMonotonic
  <2>8. FlattenSeq(w) = v
    BY <2>6, <2>7, FlattenSingles
  <2>9. \A p : p # o => Values(s, p) = <<>>
    BY <2>2, <2>4, ValuesNone
  <2> QED
    BY <1>1, <2>3, <2>7, <2>8, <2>9
<1>2. CASE o # "Log" /\ v = <<>>
  <2>1. OptionLines(o, v) = <<>>
    BY <1>2 DEF OptionLines, OneIf
  <2> QED
    BY <1>2, <2>1, ValuesEmpty
<1>3. CASE o # "Log" /\ v # <<>>
  <2> DEFINE l == Line(o, TypedValue(o, v))
  <2>1. OptionLines(o, v) = <<l>>
    BY <1>3 DEF OptionLines, OneIf, TypedValue
  <2>2. Values(<<l>>, o) = <<TypedValue(o, v)>>
    BY SingleValue
  <2>3. l.option = o
    BY DEF Line
  <2> HIDE DEF l
  <2>4. <<l>> \in Seq({l})
    OBVIOUS
  <2>5. \A p : p # o => Values(<<l>>, p) = <<>>
    BY <2>3, <2>4, ValuesNone
  <2> QED
    BY <1>3, <2>1, <2>2, <2>5
<1> QED
  BY <1>1, <1>2, <1>3

\* The section of a part tells of its own options only, and what they are set to.
LEMMA PartRead ==
  ASSUME TextInv, NEW g \in DOMAIN Groups
  PROVE  /\ \A o \in OptionsOf(g) :
              Values(PartLines(builder, g), o) = Values(OptionLines(o, builder.parts[g][o]), o)
         /\ \A o : o \notin OptionsOf(g) => Values(PartLines(builder, g), o) = <<>>
<1> DEFINE n == Len(Groups[g])
           f == LinesOf(builder, g)
           line(i) == OptionLines(Groups[g][i], builder.parts[g][Groups[g][i]])
<1>1. /\ DOMAIN Groups[g] = 1 .. n /\ n \in Nat /\ \A i \in 1 .. n : Groups[g][i] \in OptionsOf(g)
      /\ \A o \in OptionsOf(g) : \E i \in 1 .. n : Groups[g][i] = o
  BY GroupsListed DEF OptionsOf
<1>2. \A i \in 1 .. n : f[i] = line(i)
  BY <1>1 DEF LinesOf
<1>3. PICK X : f \in Seq(Seq(X))
  BY PartIsSequence
<1>4. PartLines(builder, g) = FlattenSeq(f)
  BY PartIsSequence
<1>5. Len(f) = n
  <2>1. DOMAIN f = 1 .. n
    BY <1>1 DEF LinesOf
  <2> HIDE DEF f, n
  <2> QED
    BY <1>1, <1>3, <2>1, LenProperties
<1>6. \A i \in 1 .. n : \A p : p # Groups[g][i] => Values(line(i), p) = <<>>
  <2> SUFFICES ASSUME NEW i \in 1 .. n PROVE \A p : p # Groups[g][i] => Values(line(i), p) = <<>>
    OBVIOUS
  <2>1. builder.parts[g][Groups[g][i]] \in Seq(Int)
    BY <1>1 DEF TextInv
  <2> QED
    BY <2>1, OptionRead
<1>7. ASSUME NEW o \in OptionsOf(g)
      PROVE  Values(PartLines(builder, g), o) = Values(OptionLines(o, builder.parts[g][o]), o)
  <2>1. PICK k \in 1 .. n : Groups[g][k] = o
    BY <1>1
  <2>2. \A i \in 1 .. n : i # k => Groups[g][i] # o
    BY <2>1, GroupsInjective
  <2>3. \A i \in 1 .. n : i # k => Values(f[i], o) = <<>>
    <3> SUFFICES ASSUME NEW i \in 1 .. n, i # k PROVE Values(f[i], o) = <<>>
      OBVIOUS
    <3>1. f[i] = line(i)
      BY <1>2
    <3>2. o # Groups[g][i]
      BY <2>2
    <3> HIDE DEF f, line, n
    <3>3. Values(line(i), o) = <<>>
      BY <1>6, <3>2
    <3> QED
      BY <3>1, <3>3
  <2> HIDE DEF f
  <2>4. /\ k \in 1 .. Len(f)
        /\ \A i \in 1 .. Len(f) : i # k => Values(f[i], o) = <<>>
    BY <1>5, <2>3
  <2>6. Values(FlattenSeq(f), o) = Values(f[k], o)
    BY <1>3, <2>4, ValuesSections
  <2>5. f[k] = OptionLines(o, builder.parts[g][o])
    BY <1>2, <2>1 DEF f
  <2> QED
    BY <1>4, <2>5, <2>6
<1>8. ASSUME NEW o, o \notin OptionsOf(g) PROVE Values(PartLines(builder, g), o) = <<>>
  <2>1. \A i \in 1 .. n : Values(f[i], o) = <<>>
    <3> SUFFICES ASSUME NEW i \in 1 .. n PROVE Values(f[i], o) = <<>>
      OBVIOUS
    <3>1. f[i] = line(i)
      BY <1>2
    <3>2. o # Groups[g][i]
      BY <1>1, <1>8
    <3> HIDE DEF f, line, n
    <3>3. Values(line(i), o) = <<>>
      BY <1>6, <3>2
    <3> QED
      BY <3>1, <3>3
  <2> HIDE DEF f
  <2>2. \A i \in 1 .. Len(f) : Values(f[i], o) = <<>>
    BY <1>5, <2>1
  <2>3. Values(FlattenSeq(f), o) = <<>>
    BY <1>3, <2>2, ValuesSections
  <2> QED
    BY <1>4, <2>3
<1> QED
  BY <1>7, <1>8

\* The lines of a Control Port.
LEMMA ControlRead ==
  ASSUME NEW c
  PROVE  /\ \A o : o \notin ControlNames => Values(ControlLines(c), o) = <<>>
         /\ Values(ControlLines(c), "ControlPort") = <<RenderedPort(c.addr, c.port)>>
         /\ Values(ControlLines(c), "ControlPortWriteToFile") = IF c.file THEN <<"file">> ELSE <<>>
         /\ Values(ControlLines(c), "__OwningControllerProcess") = IF c.owner THEN <<"pid">> ELSE <<>>
         /\ Values(ControlLines(c), "HashedControlPassword")
              = IF c.auth = "hashed" THEN <<"hash">> ELSE <<>>
         /\ Values(ControlLines(c), "CookieAuthentication")
              = IF c.auth = "hashed" THEN <<>> ELSE <<IF c.auth = "cookie" THEN "1" ELSE "0">>
<1> DEFINE a == Line("ControlPort", RenderedPort(c.addr, c.port))
           h == Line("HashedControlPassword", "hash")
           k == Line("CookieAuthentication", IF c.auth = "cookie" THEN "1" ELSE "0")
           b == IF c.auth = "hashed" THEN h ELSE k
           f == Line("ControlPortWriteToFile", "file")
           p == Line("__OwningControllerProcess", "pid")
           X == {a, b, f, p}
           w == OneIf(c.file, "ControlPortWriteToFile", "file")
           r == OneIf(c.owner, "__OwningControllerProcess", "pid")
<1>1. ControlLines(c) = (<<a, b>> \o w) \o r
  BY DEF ControlLines
<1>2. (w = IF c.file THEN <<f>> ELSE <<>>) /\ (r = IF c.owner THEN <<p>> ELSE <<>>)
  BY DEF OneIf
<1>3. /\ a.option = "ControlPort" /\ f.option = "ControlPortWriteToFile"
      /\ p.option = "__OwningControllerProcess" /\ h.option = "HashedControlPassword"
      /\ k.option = "CookieAuthentication" /\ h.value = "hash"
      /\ a.value = RenderedPort(c.addr, c.port) /\ f.value = "file" /\ p.value = "pid"
      /\ k.value = (IF c.auth = "cookie" THEN "1" ELSE "0")
      /\ (c.auth = "hashed" => b = h) /\ (c.auth # "hashed" => b = k)
  BY DEF Line
<1> HIDE DEF a, b, f, p, h, k, w, r
<1>4. /\ <<>> \in Seq(X) /\ <<a>> \in Seq(X) /\ <<a, b>> \in Seq(X) /\ <<f>> \in Seq(X) /\ <<p>> \in Seq(X)
      /\ Append(<<>>, a) = <<a>> /\ Append(<<a>>, b) = <<a, b>>
      /\ Append(<<>>, f) = <<f>> /\ Append(<<>>, p) = <<p>>
      /\ a \in X /\ b \in X /\ f \in X /\ p \in X
  <2>1. a \in X /\ b \in X /\ f \in X /\ p \in X
    OBVIOUS
  <2> HIDE DEF X
  <2>2. <<>> \in Seq(X) /\ <<a>> \in Seq(X) /\ <<a, b>> \in Seq(X)
    BY <2>1
  <2>3. <<f>> \in Seq(X) /\ <<p>> \in Seq(X)
    BY <2>1
  <2>4. Append(<<>>, a) = <<a>>
    OBVIOUS
  <2>6. Append(<<a>>, b) = <<a, b>>
    <3>1. \A z \in X : Len(<<a>>) = 1 /\ Len(<<a, z>>) = 2
      BY <2>1
    <3>2. \A z \in X : <<a>>[1] = a /\ <<a, z>>[1] = a /\ <<a, z>>[2] = z
      BY <2>1
    <3>3. <<a>> \in Seq(X) /\ <<a, b>> \in Seq(X)
      BY <2>2
    <3>4. /\ Append(<<a>>, b) \in Seq(X) /\ Len(Append(<<a>>, b)) = 2
          /\ Append(<<a>>, b)[1] = a /\ Append(<<a>>, b)[2] = b
      BY <2>1, <3>1, <3>2, <3>3, AppendProperties
    <3>5. \A i \in 1 .. 2 : Append(<<a>>, b)[i] = <<a, b>>[i]
      BY <2>1, <3>2, <3>4
    <3> QED
      BY <2>1, <3>1, <3>3, <3>4, <3>5, SeqEqual
  <2>5. Append(<<>>, f) = <<f>> /\ Append(<<>>, p) = <<p>>
    OBVIOUS
  <2> QED
    BY <2>1, <2>2, <2>3, <2>4, <2>5, <2>6
<1> HIDE DEF X
<1>5. w \in Seq(X) /\ r \in Seq(X)
  <2>1. w \in Seq(X)
    BY <1>2, <1>4
  <2>2. r \in Seq(X)
    BY <1>2, <1>4
  <2> QED
    BY <2>1, <2>2
<1>6. \A o : Values(ControlLines(c), o) = (Values(<<a, b>>, o) \o Values(w, o)) \o Values(r, o)
  <2> TAKE o
  <2> DEFINE ab == <<a, b>>
  <2>1. ab \in Seq(X)
    BY <1>4
  <2> HIDE DEF ab
  <2> DEFINE both == ab \o w
  <2>2. both \in Seq(X)
    BY <1>5, <2>1, ConcatProperties
  <2>4. Values(both, o) = Values(ab, o) \o Values(w, o)
    BY <1>5, <2>1, ValuesConcat
  <2> HIDE DEF both
  <2>3. Values(both \o r, o) = Values(both, o) \o Values(r, o)
    BY <1>5, <2>2, ValuesConcat
  <2> QED
    BY <1>1, <2>3, <2>4 DEF ab, both
<1>7. \A x \in X : \A o : Append(<<>>, x) = <<x>> => Values(<<x>>, o) = ValueOf(x, o)
  <2> TAKE x \in X
  <2> TAKE o
  <2> HAVE Append(<<>>, x) = <<x>>
  <2>1. Values(<<x>>, o) = Values(<<>>, o) \o ValueOf(x, o)
    BY <1>4, ValuesAppend
  <2>2. <<>> \o ValueOf(x, o) = ValueOf(x, o)
    BY ValueOfTyped, ConcatEmptySeq
  <2> QED
    BY <2>1, <2>2, ValuesEmpty
<1>8. \A o : Values(<<a, b>>, o) = ValueOf(a, o) \o ValueOf(b, o)
  <2> TAKE o
  <2>1. Values(Append(<<a>>, b), o) = Values(<<a>>, o) \o ValueOf(b, o)
    BY <1>4, ValuesAppend
  <2>2. Values(<<a>>, o) = ValueOf(a, o)
    BY <1>4, <1>7
  <2>3. Append(<<a>>, b) = <<a, b>>
    BY <1>4
  <2> QED
    BY <2>1, <2>2, <2>3
<1>9. /\ \A o : o # "ControlPortWriteToFile" => Values(w, o) = <<>>
      /\ \A o : o # "__OwningControllerProcess" => Values(r, o) = <<>>
  <2>1. \A o : Values(<<f>>, o) = ValueOf(f, o) /\ Values(<<p>>, o) = ValueOf(p, o)
    BY <1>4, <1>7
  <2>2. \A o : o # "ControlPortWriteToFile" => Values(<<f>>, o) = <<>>
    BY <1>3, <2>1 DEF ValueOf
  <2>3. \A o : o # "__OwningControllerProcess" => Values(<<p>>, o) = <<>>
    BY <1>3, <2>1 DEF ValueOf
  <2>4. \A o : o # "ControlPortWriteToFile" => Values(w, o) = <<>>
    BY <1>2, <2>2, ValuesEmpty
  <2>5. \A o : o # "__OwningControllerProcess" => Values(r, o) = <<>>
    BY <1>2, <2>3, ValuesEmpty
  <2> QED
    BY <2>4, <2>5
<1>10. \A s, t : s = <<>> /\ t = <<>> => s \o t = <<>>
  OBVIOUS
<1>11. \A o : o \notin ControlNames => Values(ControlLines(c), o) = <<>>
  <2> SUFFICES ASSUME NEW o, o \notin ControlNames PROVE Values(ControlLines(c), o) = <<>>
    OBVIOUS
  <2>1. ValueOf(a, o) = <<>> /\ ValueOf(b, o) = <<>> /\ Values(w, o) = <<>> /\ Values(r, o) = <<>>
    BY <1>3, <1>9 DEF ValueOf, ControlNames
  <2> QED
    BY <1>6, <1>8, <1>10, <2>1
<1>12. \A o : o \in {"ControlPort", "HashedControlPassword", "CookieAuthentication"} =>
         Values(ControlLines(c), o) = ValueOf(a, o) \o ValueOf(b, o)
  <2> SUFFICES ASSUME NEW o \in {"ControlPort", "HashedControlPassword", "CookieAuthentication"}
               PROVE  Values(ControlLines(c), o) = ValueOf(a, o) \o ValueOf(b, o)
    OBVIOUS
  <2>1. Values(w, o) = <<>> /\ Values(r, o) = <<>>
    BY <1>9
  <2>2. Values(<<a, b>>, o) \in Seq(ValuesIn(X))
    BY <1>4, MatchesTyped
  <2>3. (Values(<<a, b>>, o) \o <<>>) \o <<>> = Values(<<a, b>>, o)
    BY <2>2, ConcatEmptySeq
  <2> QED
    BY <1>6, <1>8, <2>1, <2>3
<1>13. \A x : <<x>> \o <<>> = <<x>> /\ <<>> \o <<x>> = <<x>> /\ Len(<<x>>) = 1
  OBVIOUS
<1>14. Values(ControlLines(c), "ControlPort") = <<RenderedPort(c.addr, c.port)>>
  <2>1. ValueOf(a, "ControlPort") = <<a.value>> /\ ValueOf(b, "ControlPort") = <<>>
    BY <1>3 DEF ValueOf
  <2> QED
    BY <1>3, <1>12, <1>13, <2>1
<1>15. Values(ControlLines(c), "HashedControlPassword") = IF c.auth = "hashed" THEN <<"hash">> ELSE <<>>
  <2>1. /\ ValueOf(a, "HashedControlPassword") = <<>>
        /\ ValueOf(b, "HashedControlPassword") = IF c.auth = "hashed" THEN <<"hash">> ELSE <<>>
    BY <1>3 DEF ValueOf
  <2> QED
    BY <1>10, <1>12, <1>13, <2>1
<1>16. Values(ControlLines(c), "CookieAuthentication")
         = IF c.auth = "hashed" THEN <<>> ELSE <<IF c.auth = "cookie" THEN "1" ELSE "0">>
  <2>1. /\ ValueOf(a, "CookieAuthentication") = <<>>
        /\ ValueOf(b, "CookieAuthentication") = IF c.auth = "hashed" THEN <<>> ELSE <<k.value>>
    BY <1>3 DEF ValueOf
  <2> QED
    BY <1>3, <1>10, <1>12, <1>13, <2>1
<1>17. \A o : o \in {"ControlPortWriteToFile", "__OwningControllerProcess"} =>
         ValueOf(a, o) = <<>> /\ ValueOf(b, o) = <<>>
  BY <1>3 DEF ValueOf
<1>18. Values(ControlLines(c), "ControlPortWriteToFile") = IF c.file THEN <<"file">> ELSE <<>>
  <2>1. Values(w, "ControlPortWriteToFile") = IF c.file THEN <<"file">> ELSE <<>>
    <3>1. ValueOf(f, "ControlPortWriteToFile") = <<"file">>
      BY <1>3 DEF ValueOf
    <3>2. Values(<<f>>, "ControlPortWriteToFile") = <<"file">>
      BY <1>4, <1>7, <3>1
    <3> QED
      BY <1>2, <3>2, ValuesEmpty
  <2>2. Values(r, "ControlPortWriteToFile") = <<>>
    BY <1>9
  <2>3. Values(<<a, b>>, "ControlPortWriteToFile") = <<>>
    BY <1>8, <1>10, <1>17
  <2>4. Values(ControlLines(c), "ControlPortWriteToFile")
          = (Values(<<a, b>>, "ControlPortWriteToFile") \o Values(w, "ControlPortWriteToFile")) \o Values(r, "ControlPortWriteToFile")
    BY <1>6
  <2>5. <<>> \o <<>> = <<>> /\ (<<>> \o <<"file">>) \o <<>> = <<"file">> /\ <<>> \o <<"file">> = <<"file">>
    OBVIOUS
  <2>6. CASE c.file
    BY <2>1, <2>2, <2>3, <2>4, <2>5, <2>6
  <2>7. CASE ~c.file
    BY <2>1, <2>2, <2>3, <2>4, <2>5, <2>7
  <2> QED
    BY <2>6, <2>7
<1>19. Values(ControlLines(c), "__OwningControllerProcess") = IF c.owner THEN <<"pid">> ELSE <<>>
  <2>1. Values(r, "__OwningControllerProcess") = IF c.owner THEN <<"pid">> ELSE <<>>
    <3>1. ValueOf(p, "__OwningControllerProcess") = <<"pid">>
      BY <1>3 DEF ValueOf
    <3>2. Values(<<p>>, "__OwningControllerProcess") = <<"pid">>
      BY <1>4, <1>7, <3>1
    <3> QED
      BY <1>2, <3>2, ValuesEmpty
  <2>2. Values(w, "__OwningControllerProcess") = <<>>
    BY <1>9
  <2>3. Values(<<a, b>>, "__OwningControllerProcess") = <<>>
    BY <1>8, <1>10, <1>17
  <2>4. Values(ControlLines(c), "__OwningControllerProcess")
          = (Values(<<a, b>>, "__OwningControllerProcess") \o Values(w, "__OwningControllerProcess")) \o Values(r, "__OwningControllerProcess")
    BY <1>6
  <2>5. <<>> \o <<>> = <<>> /\ (<<>> \o <<"pid">>) \o <<>> = <<"pid">> /\ <<>> \o <<"pid">> = <<"pid">>
    OBVIOUS
  <2>6. CASE c.owner
    BY <2>1, <2>2, <2>3, <2>4, <2>5, <2>6
  <2>7. CASE ~c.owner
    BY <2>1, <2>2, <2>3, <2>4, <2>5, <2>7
  <2> QED
    BY <2>6, <2>7
<1> QED
  BY <1>11, <1>14, <1>15, <1>16, <1>18, <1>19

\* Lines that give one option are no lines of another.
LEMMA LinesOther ==
  ASSUME NEW A, NEW v \in Seq(A), NEW o, NEW q, q # o
  PROVE  Values(OneForEach(o, v), q) = <<>>
<1> DEFINE X == {Line(o, x) : x \in A}
           s == OneForEach(o, v)
<1>1. s \in Seq(X)
  BY LinesRead
<1>2. \A l \in X : l.option # q
  BY DEF Line
<1> HIDE DEF X, s
<1>3. \A x \in Seq(X) : Values(x, q) = <<>>
  BY <1>2, ValuesNone
<1> QED
  BY <1>1, <1>3 DEF s

\* The lines of listeners.
LEMMA SocksRead ==
  ASSUME NEW s \in SocksConfig
  PROVE  /\ \A o : o # "SocksPort" => Values(SocksLines(s), o) = <<>>
         /\ Values(SocksLines(s), "SocksPort")
              = [i \in DOMAIN s.listeners |-> RenderedListener(s.listeners[i])]
<1> DEFINE v == [i \in DOMAIN s.listeners |-> RenderedListener(s.listeners[i])]
           A == {RenderedListener(s.listeners[i]) : i \in DOMAIN s.listeners}
<1>1. DOMAIN s.listeners = 1 .. Len(s.listeners) /\ Len(s.listeners) \in Nat
  BY LenProperties DEF SocksConfig
<1>2. v \in Seq(A) /\ DOMAIN v = DOMAIN s.listeners
  BY <1>1
<1>3. SocksLines(s) = OneForEach("SocksPort", v)
  BY DEF SocksLines, OneForEach
<1> HIDE DEF v, A
<1>4. Values(OneForEach("SocksPort", v), "SocksPort") = v
  BY <1>2, LinesRead
<1>5. \A o : o # "SocksPort" => Values(OneForEach("SocksPort", v), o) = <<>>
  <2> DEFINE name == "SocksPort"
  <2> HIDE DEF name
  <2>1. \A o : o # name => Values(OneForEach(name, v), o) = <<>>
    BY <1>2, LinesOther
  <2> QED
    BY <2>1 DEF name
<1> QED
  BY <1>3, <1>4, <1>5 DEF v

\* The lines of bridges.
LEMMA BridgeRead ==
  ASSUME NEW bc, bc.bridges \in Seq(Bridge), bc.plugins \in Seq(SUBSET {"obfs4", "meek"})
  PROVE  /\ \A o : o \notin BridgeNames => Values(BridgeLines(bc), o) = <<>>
         /\ Values(BridgeLines(bc), "UseBridges") = <<IF bc.use THEN "1" ELSE "0">>
         /\ Values(BridgeLines(bc), "ClientTransportPlugin") = bc.plugins
         /\ Values(BridgeLines(bc), "Bridge") = bc.bridges
<1> DEFINE A == Bridge
           B == SUBSET {"obfs4", "meek"}
           flag == IF bc.use THEN "1" ELSE "0"
           u == Line("UseBridges", flag)
           p == OneForEach("ClientTransportPlugin", bc.plugins)
           b == OneForEach("Bridge", bc.bridges)
           P == {Line("ClientTransportPlugin", x) : x \in B}
           Q == {Line("Bridge", x) : x \in A}
           X == {u} \cup P \cup Q
<1>0. bc.bridges \in Seq(A) /\ bc.plugins \in Seq(B)
  OBVIOUS
<1> HIDE DEF A, B
<1>1. /\ p \in Seq(P) /\ Values(p, "ClientTransportPlugin") = bc.plugins
      /\ \A o : o # "ClientTransportPlugin" => Values(p, o) = <<>>
  <2> DEFINE v == bc.plugins
  <2>0. v \in Seq(B)
    BY <1>0
  <2> HIDE DEF v
  <2>1. OneForEach("ClientTransportPlugin", v) \in Seq(P)
    BY <2>0, LinesRead
  <2>2. Values(OneForEach("ClientTransportPlugin", v), "ClientTransportPlugin") = v
    BY <2>0, LinesRead
  <2>3. \A o : o # "ClientTransportPlugin" => Values(OneForEach("ClientTransportPlugin", v), o) = <<>>
    <3> DEFINE name == "ClientTransportPlugin"
    <3> HIDE DEF name
    <3>1. \A o : o # name => Values(OneForEach(name, v), o) = <<>>
      BY <2>0, LinesOther
    <3> QED
      BY <3>1 DEF name
  <2> QED
    BY <2>1, <2>2, <2>3 DEF v
<1>2. /\ b \in Seq(Q) /\ Values(b, "Bridge") = bc.bridges
      /\ \A o : o # "Bridge" => Values(b, o) = <<>>
  <2> DEFINE v == bc.bridges
  <2>0. v \in Seq(A)
    BY <1>0
  <2> HIDE DEF v
  <2>1. OneForEach("Bridge", v) \in Seq(Q)
    BY <2>0, LinesRead
  <2>2. Values(OneForEach("Bridge", v), "Bridge") = v
    BY <2>0, LinesRead
  <2>3. \A o : o # "Bridge" => Values(OneForEach("Bridge", v), o) = <<>>
    <3> DEFINE name == "Bridge"
    <3> HIDE DEF name
    <3>1. \A o : o # name => Values(OneForEach(name, v), o) = <<>>
      BY <2>0, LinesOther
    <3> QED
      BY <3>1 DEF name
  <2> QED
    BY <2>1, <2>2, <2>3 DEF v
<1>3. BridgeLines(bc) = (<<u>> \o p) \o b
  BY DEF BridgeLines, OneForEach
<1>4. u.option = "UseBridges" /\ Values(<<u>>, "UseBridges") = <<flag>>
  BY SingleValue DEF Line
<1>5. P \subseteq X /\ Q \subseteq X /\ u \in X
  OBVIOUS
<1> HIDE DEF u, p, b, P, Q, X, flag
<1>6. <<u>> \in Seq({u}) /\ \A l \in {u} : l.option = "UseBridges"
  BY <1>4
<1>7. <<u>> \in Seq(X) /\ p \in Seq(X) /\ b \in Seq(X)
  BY <1>1, <1>2, <1>5, SeqMonotonic
<1>8. \A o : Values(BridgeLines(bc), o) = (Values(<<u>>, o) \o Values(p, o)) \o Values(b, o)
  <2> TAKE o
  <2> DEFINE one == <<u>>
  <2>1. one \in Seq(X)
    BY <1>7
  <2> HIDE DEF one
  <2> DEFINE both == one \o p
  <2>2. both \in Seq(X)
    BY <1>7, <2>1, ConcatProperties
  <2>4. Values(both, o) = Values(one, o) \o Values(p, o)
    BY <1>7, <2>1, ValuesConcat
  <2> HIDE DEF both
  <2>3. Values(both \o b, o) = Values(both, o) \o Values(b, o)
    BY <1>7, <2>2, ValuesConcat
  <2> QED
    BY <1>3, <2>3, <2>4 DEF one, both
<1>9. \A o : o # "UseBridges" => Values(<<u>>, o) = <<>>
  BY <1>6, ValuesNone
<1>10. \A s, t : s = <<>> /\ t = <<>> => s \o t = <<>>
  OBVIOUS
<1>11. \A o : o \notin BridgeNames => Values(BridgeLines(bc), o) = <<>>
  <2> SUFFICES ASSUME NEW o, o \notin BridgeNames PROVE Values(BridgeLines(bc), o) = <<>>
    OBVIOUS
  <2>1. Values(<<u>>, o) = <<>> /\ Values(p, o) = <<>> /\ Values(b, o) = <<>>
    BY <1>1, <1>2, <1>9 DEF BridgeNames
  <2> QED
    BY <1>8, <1>10, <2>1
<1>12. Values(BridgeLines(bc), "UseBridges") = <<flag>>
  <2>1. Values(p, "UseBridges") = <<>> /\ Values(b, "UseBridges") = <<>>
    BY <1>1, <1>2
  <2>2. (<<flag>> \o <<>>) \o <<>> = <<flag>>
    OBVIOUS
  <2> QED
    BY <1>4, <1>8, <2>1, <2>2
<1>13. Values(BridgeLines(bc), "ClientTransportPlugin") = bc.plugins
  <2>1. Values(<<u>>, "ClientTransportPlugin") = <<>> /\ Values(b, "ClientTransportPlugin") = <<>>
    BY <1>2, <1>9
  <2>2. (<<>> \o bc.plugins) \o <<>> = bc.plugins
    BY ConcatEmptySeq
  <2> QED
    BY <1>1, <1>8, <2>1, <2>2
<1>14. Values(BridgeLines(bc), "Bridge") = bc.bridges
  <2>1. Values(<<u>>, "Bridge") = <<>> /\ Values(p, "Bridge") = <<>>
    BY <1>1, <1>9
  <2>2. (<<>> \o <<>>) \o bc.bridges = bc.bridges
    BY ConcatEmptySeq
  <2> QED
    BY <1>2, <1>8, <2>1, <2>2
<1> QED
  BY <1>11, <1>12, <1>13, <1>14 DEF flag

\* The sections, each with the options that it tells of.
LEMMA SectionsRead ==
  ASSUME BuilderOK(builder), TextInv, NEW o
  PROVE  /\ Len(Typed(builder)) = 9
         /\ o \notin ControlNames => Values(Typed(builder)[1], o) = <<>>
         /\ o # "SocksPort" => Values(Typed(builder)[2], o) = <<>>
         /\ o \notin BridgeNames => Values(Typed(builder)[6], o) = <<>>
         /\ Typed(builder)[1] = OptionalLines(builder.control, ControlLines)
         /\ Typed(builder)[2] = SocksLines(builder.socks)
         /\ Typed(builder)[6] = OptionalLines(builder.bridges, BridgeLines)
         /\ Typed(builder)[3] = PartLines(builder, "network")
         /\ Typed(builder)[4] = PartLines(builder, "circuits")
         /\ Typed(builder)[5] = PartLines(builder, "padding")
         /\ Typed(builder)[7] = PartLines(builder, "nodes")
         /\ Typed(builder)[8] = PartLines(builder, "system")
         /\ Typed(builder)[9] = PartLines(builder, "logging")
<1> DEFINE s1 == OptionalLines(builder.control, ControlLines)
           s2 == SocksLines(builder.socks)
           s3 == PartLines(builder, "network")
           s4 == PartLines(builder, "circuits")
           s5 == PartLines(builder, "padding")
           s6 == OptionalLines(builder.bridges, BridgeLines)
           s7 == PartLines(builder, "nodes")
           s8 == PartLines(builder, "system")
           s9 == PartLines(builder, "logging")
<1>1. Typed(builder) = <<s1, s2, s3, s4, s5, s6, s7, s8, s9>>
  BY DEF Typed
<1>2. o \notin ControlNames => Values(s1, o) = <<>>
  BY ControlRead, ValuesEmpty DEF OptionalLines
<1>3. o # "SocksPort" => Values(s2, o) = <<>>
  BY SocksRead DEF BuilderOK
<1>4. o \notin BridgeNames => Values(s6, o) = <<>>
  <2> SUFFICES ASSUME o \notin BridgeNames PROVE Values(s6, o) = <<>>
    OBVIOUS
  <2>1. CASE builder.bridges = {}
    BY <2>1, ValuesEmpty DEF OptionalLines
  <2>2. CASE builder.bridges # {}
    <3>1. PICK bc \in builder.bridges : bc = CHOOSE x \in builder.bridges : TRUE
      BY <2>2
    <3>2. s6 = BridgeLines(bc)
      BY <2>2, <3>1 DEF OptionalLines
    <3>3. bc.bridges \in Seq(Bridge) /\ bc.plugins \in Seq(SUBSET {"obfs4", "meek"})
      BY <3>1 DEF TextInv
    <3> HIDE DEF s6
    <3>4. Values(BridgeLines(bc), o) = <<>>
      BY <3>3, BridgeRead
    <3> QED
      BY <3>2, <3>4
  <2> QED
    BY <2>1, <2>2
<1> HIDE DEF s1, s2, s3, s4, s5, s6, s7, s8, s9
<1>5. /\ Len(Typed(builder)) = 9
      /\ Typed(builder)[1] = s1 /\ Typed(builder)[2] = s2 /\ Typed(builder)[3] = s3
      /\ Typed(builder)[4] = s4 /\ Typed(builder)[5] = s5 /\ Typed(builder)[6] = s6
      /\ Typed(builder)[7] = s7 /\ Typed(builder)[8] = s8 /\ Typed(builder)[9] = s9
  BY <1>1
<1> QED
  BY <1>2, <1>3, <1>4, <1>5 DEF s1, s2, s3, s4, s5, s6, s7, s8, s9

\* The text tells of an option what its section and the raw options tell.
LEMMA SectionInText ==
  ASSUME BuilderOK(builder), TextInv, NEW o, NEW k \in 1 .. 9,
         \A i \in 1 .. 9 : i # k => Values(Typed(builder)[i], o) = <<>>
  PROVE  /\ Values(Rendered(builder), o) = Values(Typed(builder)[k], o) \o Values(builder.raw, o)
         /\ \E V : Values(Typed(builder)[k], o) \in Seq(V) /\ Values(builder.raw, o) \in Seq(V)
<1>1. PICK X : /\ Typed(builder) \in Seq(Seq(X)) /\ builder.raw \in Seq(X)
               /\ Rendered(builder) = FlattenSeq(Typed(builder)) \o builder.raw
  BY TextIsSequence
<1>2. Len(Typed(builder)) = 9
  BY SectionsRead
<1>3. Values(FlattenSeq(Typed(builder)), o) = Values(Typed(builder)[k], o)
  BY <1>1, <1>2, ValuesSections
<1>4. FlattenSeq(Typed(builder)) \in Seq(X)
  BY <1>1, FlattenTyped
<1>5. Values(Rendered(builder), o) = Values(FlattenSeq(Typed(builder)), o) \o Values(builder.raw, o)
  <2> DEFINE u == FlattenSeq(Typed(builder))
             r == builder.raw
  <2>1. u \in Seq(X) /\ r \in Seq(X) /\ Rendered(builder) = u \o r
    BY <1>1, <1>4
  <2> HIDE DEF u, r
  <2>2. Values(u \o r, o) = Values(u, o) \o Values(r, o)
    BY <2>1, ValuesConcat
  <2> QED
    BY <2>1, <2>2 DEF u, r
<1>6. Typed(builder)[k] \in Seq(X)
  <2>1. k \in 1 .. Len(Typed(builder))
    BY <1>2
  <2> QED
    BY <1>1, <2>1, ElementOfSeq
<1>7. Values(Typed(builder)[k], o) \in Seq(ValuesIn(X)) /\ Values(builder.raw, o) \in Seq(ValuesIn(X))
  BY <1>1, <1>6, MatchesTyped
<1> QED
  BY <1>3, <1>5, <1>7

LEMMA OptionInText ==
  ASSUME BuilderOK(builder), TextInv, NEW g \in DOMAIN Groups, NEW o \in OptionsOf(g)
  PROVE  Values(Rendered(builder), o)
           = Values(OptionLines(o, builder.parts[g][o]), o) \o Values(builder.raw, o)
<1>1. /\ \A h \in DOMAIN Groups : o \in OptionsOf(h) => h = g
      /\ o \notin ControlNames /\ o \notin BridgeNames /\ o # "SocksPort"
  BY NamesApart
<1> DEFINE t == Typed(builder)
           part(h) == PartLines(builder, h)
<1>2. /\ Values(t[1], o) = <<>> /\ Values(t[2], o) = <<>> /\ Values(t[6], o) = <<>>
      /\ t[3] = part("network") /\ t[4] = part("circuits") /\ t[5] = part("padding")
      /\ t[7] = part("nodes") /\ t[8] = part("system") /\ t[9] = part("logging")
  BY <1>1, SectionsRead
<1>3. /\ \A h \in DOMAIN Groups : h # g => Values(part(h), o) = <<>>
      /\ Values(part(g), o) = Values(OptionLines(o, builder.parts[g][o]), o)
  BY <1>1, PartRead
<1>4. DOMAIN Groups = {"network", "circuits", "padding", "nodes", "system", "logging"}
  BY GroupsListed
<1> DEFINE k == CASE g = "network" -> 3 [] g = "circuits" -> 4 [] g = "padding" -> 5
                  [] g = "nodes" -> 7 [] g = "system" -> 8 [] g = "logging" -> 9
<1> HIDE DEF t, part
<1>5. /\ k \in 1 .. 9 /\ t[k] = part(g)
      /\ \A i \in {1, 2, 3, 4, 5, 6, 7, 8, 9} : i # k => Values(t[i], o) = <<>>
  BY <1>2, <1>3, <1>4
<1>6. \A i \in 1 .. 9 : i \in {1, 2, 3, 4, 5, 6, 7, 8, 9}
  OBVIOUS
<1> HIDE DEF k
<1>7. Values(Rendered(builder), o) = Values(t[k], o) \o Values(builder.raw, o)
  BY <1>5, <1>6, SectionInText DEF t
<1> QED
  BY <1>3, <1>5, <1>7

\* It tells of any other option what its own section tells, and then the raw options.
LEMMA OtherInText ==
  ASSUME BuilderOK(builder), TextInv, NEW o,
         o \in ControlNames \cup BridgeNames \cup {"SocksPort"}
  PROVE  /\ Values(Rendered(builder), o)
              = (IF o \in ControlNames THEN Values(OptionalLines(builder.control, ControlLines), o)
                 ELSE IF o = "SocksPort" THEN Values(SocksLines(builder.socks), o)
                 ELSE Values(OptionalLines(builder.bridges, BridgeLines), o))
                \o Values(builder.raw, o)
         /\ \E V : Values(builder.raw, o) \in Seq(V)
<1> DEFINE t == Typed(builder)
           part(h) == PartLines(builder, h)
<1>1. /\ o \notin ControlNames => Values(t[1], o) = <<>>
      /\ o # "SocksPort" => Values(t[2], o) = <<>>
      /\ o \notin BridgeNames => Values(t[6], o) = <<>>
      /\ t[1] = OptionalLines(builder.control, ControlLines) /\ t[2] = SocksLines(builder.socks)
      /\ t[6] = OptionalLines(builder.bridges, BridgeLines)
      /\ t[3] = part("network") /\ t[4] = part("circuits") /\ t[5] = part("padding")
      /\ t[7] = part("nodes") /\ t[8] = part("system") /\ t[9] = part("logging")
  BY SectionsRead
<1>2. \A h \in DOMAIN Groups : Values(part(h), o) = <<>>
  <2>1. \A h \in DOMAIN Groups : o \notin OptionsOf(h)
    BY NamesApart DEF ControlNames, BridgeNames
  <2> QED
    BY <2>1, PartRead
<1>3. DOMAIN Groups = {"network", "circuits", "padding", "nodes", "system", "logging"}
  BY GroupsListed
<1> DEFINE k == IF o \in ControlNames THEN 1 ELSE IF o = "SocksPort" THEN 2 ELSE 6
<1> HIDE DEF t, part
<1>5. /\ o \in ControlNames => o # "SocksPort" /\ o \notin BridgeNames
      /\ o = "SocksPort" => o \notin BridgeNames
  BY DEF ControlNames, BridgeNames
<1>6. /\ k \in 1 .. 9
      /\ \A i \in {1, 2, 3, 4, 5, 6, 7, 8, 9} : i # k => Values(t[i], o) = <<>>
  BY <1>1, <1>2, <1>3, <1>5
<1>7. \A i \in 1 .. 9 : i \in {1, 2, 3, 4, 5, 6, 7, 8, 9}
  OBVIOUS
<1> HIDE DEF k
<1>8. /\ Values(Rendered(builder), o) = Values(t[k], o) \o Values(builder.raw, o)
      /\ \E V : Values(builder.raw, o) \in Seq(V)
  <2>1. \A i \in 1 .. 9 : i # k => Values(Typed(builder)[i], o) = <<>>
    BY <1>6, <1>7 DEF t
  <2>2. k \in 1 .. 9
    BY <1>6
  <2> QED
    BY <2>1, <2>2, SectionInText DEF t
<1> QED
  BY <1>1, <1>8 DEF k

-----------------------------------------------------------------------------
(* Tor reads what was configured.                                          *)

\* The last of two sequences, one after the other.
LEMMA LastOfConcat ==
  ASSUME NEW V, NEW s \in Seq(V), NEW t \in Seq(V)
  PROVE  /\ t = <<>> => s \o t = s
         /\ t # <<>> => s \o t # <<>> /\ Last(s \o t) = Last(t)
<1>1. t = <<>> => s \o t = s
  BY ConcatEmptySeq
<1>2. ASSUME t # <<>> PROVE s \o t # <<>> /\ Last(s \o t) = Last(t)
  <2>1. Len(s) \in Nat /\ Len(t) \in Nat \ {0}
    BY <1>2, LenProperties, EmptySeq
  <2>2. /\ s \o t \in Seq(V) /\ Len(s \o t) = Len(s) + Len(t)
        /\ \A i \in 1 .. Len(s) + Len(t) :
             (s \o t)[i] = IF i <= Len(s) THEN s[i] ELSE t[i - Len(s)]
    BY ConcatProperties
  <2>3. (s \o t)[Len(s) + Len(t)] = t[Len(t)]
    <3>1. Len(s) + Len(t) \in 1 .. Len(s) + Len(t) /\ ~(Len(s) + Len(t) <= Len(s))
          /\ (Len(s) + Len(t)) - Len(s) = Len(t)
      BY <2>1
    <3> QED
      BY <2>2, <3>1
  <2>4. Len(s \o t) # 0
    BY <2>1, <2>2
  <2>5. s \o t # <<>>
    BY <2>2, <2>4, EmptySeq
  <2> QED
    BY <2>2, <2>3, <2>5 DEF Last
<1> QED
  BY <1>1, <1>2

\* An option: what its setter gave it, unless a raw option follows.
LEMMA OptionReadBack ==
  ASSUME BuilderOK(builder), TextInv, NEW g \in DOMAIN Groups, NEW o \in OptionsOf(g)
  PROVE  ReadOption(Rendered(builder), o) = SetTo(builder, g, o)
<1> DEFINE v == builder.parts[g][o]
           A == Values(OptionLines(o, v), o)
           B == Values(builder.raw, o)
           typed == TypedValue(o, v)
<1>1. v \in Seq(Int)
  BY DEF TextInv
<1>2. Values(Rendered(builder), o) = A \o B
  BY OptionInText
<1>3. B \in Seq(Seq(Int))
  <2>1. \A l \in RawOptions : l.option = o => l.value \in Seq(Int)
    BY RawOptionsAssumption
  <2> QED
    BY <2>1, ValuesWithin DEF TextInv
<1>4. SetTo(builder, g, o)
        = IF o = "Log" THEN typed \o FlattenSeq(B) ELSE IF B = <<>> THEN typed ELSE Last(B)
  BY DEF SetTo, TypedValue
<1>5. CASE o = "Log"
  <2>1. A \in Seq(Seq(Int)) /\ FlattenSeq(A) = v
    BY <1>1, <1>5, OptionRead
  <2>2. typed = v
    BY <1>5 DEF TypedValue, Durations
  <2>3. ReadOption(Rendered(builder), o) = FlattenSeq(A \o B)
    BY <1>2, <1>5 DEF ReadOption
  <2> HIDE DEF A, B, v, typed
  <2>4. FlattenSeq(A \o B) = FlattenSeq(A) \o FlattenSeq(B)
    BY <1>3, <2>1, FlattenConcat
  <2> QED
    BY <1>4, <1>5, <2>1, <2>2, <2>3, <2>4
<1>6. CASE o # "Log"
  <2>1. A = IF v = <<>> THEN <<>> ELSE <<typed>>
    BY <1>1, <1>6, OptionRead
  <2>2. v = <<>> => typed = <<>>
    BY DEF TypedValue
  <2>3. ReadOption(Rendered(builder), o) = IF A \o B = <<>> THEN <<>> ELSE Last(A \o B)
    BY <1>2, <1>6 DEF ReadOption, LastValue
  <2> DEFINE V == Seq(Int) \cup {typed}
  <2>4. B \in Seq(V)
    BY <1>3, SeqMonotonic
  <2> HIDE DEF A, B, v, typed
  <2>5. typed \in V /\ <<>> \in Seq(V)
    OBVIOUS
  <2> HIDE DEF V
  <2>6. A \in Seq(V) /\ (v # <<>> => A # <<>> /\ Last(A) = typed)
    BY <2>1, <2>5 DEF Last
  <2>7. /\ B = <<>> => A \o B = A
        /\ B # <<>> => A \o B # <<>> /\ Last(A \o B) = Last(B)
    BY <2>4, <2>6, LastOfConcat
  <2>8. CASE B # <<>>
    BY <1>4, <1>6, <2>3, <2>7, <2>8
  <2>9. CASE B = <<>> /\ v = <<>>
    BY <1>4, <1>6, <2>1, <2>2, <2>3, <2>7, <2>9
  <2>10. CASE B = <<>> /\ v # <<>>
    BY <1>4, <1>6, <2>3, <2>6, <2>7, <2>10
  <2> QED
    BY <2>8, <2>9, <2>10
<1> QED
  BY <1>5, <1>6

\* The Control Port, and how it lets controllers in.
LEMMA ControlReadBack ==
  ASSUME BuilderOK(builder), TextInv, NEW c \in builder.control
  PROVE  /\ Values(Rendered(builder), "ControlPort")
              = <<RenderedPort(c.addr, c.port)>> \o Values(builder.raw, "ControlPort")
         /\ Values(Rendered(builder), "ControlPortWriteToFile")
              = (IF c.file THEN <<"file">> ELSE <<>>) \o Values(builder.raw, "ControlPortWriteToFile")
         /\ Values(Rendered(builder), "__OwningControllerProcess")
              = (IF c.owner THEN <<"pid">> ELSE <<>>)
                \o Values(builder.raw, "__OwningControllerProcess")
         /\ OneWayIn(builder, c) => ReadAuth(Rendered(builder)) = LetIn(builder, c)
<1> DEFINE r(o) == Values(Rendered(builder), o)
           raw(o) == Values(builder.raw, o)
           s == OptionalLines(builder.control, ControlLines)
<1>1. s = ControlLines(c)
  <2>1. builder.control # {} /\ c = CHOOSE x \in builder.control : TRUE
    BY DEF TextInv
  <2> QED
    BY <2>1 DEF OptionalLines
<1>2. \A o \in ControlNames : r(o) = Values(ControlLines(c), o) \o raw(o)
  BY <1>1, OtherInText
<1>3. /\ r("ControlPort") = Values(ControlLines(c), "ControlPort") \o raw("ControlPort")
      /\ r("ControlPortWriteToFile")
           = Values(ControlLines(c), "ControlPortWriteToFile") \o raw("ControlPortWriteToFile")
      /\ r("__OwningControllerProcess")
           = Values(ControlLines(c), "__OwningControllerProcess") \o raw("__OwningControllerProcess")
      /\ r("HashedControlPassword")
           = Values(ControlLines(c), "HashedControlPassword") \o raw("HashedControlPassword")
      /\ r("CookieAuthentication")
           = Values(ControlLines(c), "CookieAuthentication") \o raw("CookieAuthentication")
  BY <1>2 DEF ControlNames
<1>4. PICK V : raw("CookieAuthentication") \in Seq(V)
  BY OtherInText DEF ControlNames
<1>5. c.auth \in {"cookie", "hashed", "none"}
  BY DEF BuilderOK, ControlConfig, Auths
<1> DEFINE h == r("HashedControlPassword")
           k == r("CookieAuthentication")
           w == raw("CookieAuthentication")
           flag == IF c.auth = "cookie" THEN "1" ELSE "0"
<1>6. ReadAuth(Rendered(builder))
        = IF h # <<>> THEN "hashed" ELSE IF k # <<>> /\ Last(k) = "1" THEN "cookie" ELSE "none"
  BY DEF ReadAuth
<1>7. LetIn(builder, c) = IF w = <<>> THEN c.auth ELSE IF Last(w) = "1" THEN "cookie" ELSE "none"
  BY DEF LetIn
<1>8. ASSUME OneWayIn(builder, c) PROVE ReadAuth(Rendered(builder)) = LetIn(builder, c)
  <2>1. raw("HashedControlPassword") = <<>> /\ (c.auth = "hashed" => w = <<>>)
    BY <1>8 DEF OneWayIn
  <2>2. /\ h = (IF c.auth = "hashed" THEN <<"hash">> ELSE <<>>) \o <<>>
        /\ k = (IF c.auth = "hashed" THEN <<>> ELSE <<flag>>) \o w
    BY <1>3, <2>1, ControlRead
  <2> HIDE DEF h, k, w, flag
  <2>3. CASE c.auth = "hashed"
    <3>1. <<"hash">> \o <<>> # <<>>
      OBVIOUS
    <3> QED
      BY <1>6, <1>7, <2>1, <2>2, <2>3, <3>1
  <2>4. CASE c.auth # "hashed"
    <3>1. h = <<>> /\ k = <<flag>> \o w
      <4>1. <<>> \o <<>> = <<>>
        OBVIOUS
      <4> QED
        BY <2>2, <2>4, <4>1
    <3> DEFINE U == V \cup {flag}
               one == <<flag>>
    <3>2. one \in Seq(U) /\ one # <<>> /\ Last(one) = flag
      BY DEF Last
    <3>3. w \in Seq(U)
      BY <1>4, SeqMonotonic DEF w
    <3> HIDE DEF U, one
    <3>4. /\ w = <<>> => one \o w = one
          /\ w # <<>> => one \o w # <<>> /\ Last(one \o w) = Last(w)
      BY <3>2, <3>3, LastOfConcat
    <3>5. k = one \o w
      BY <3>1 DEF one
    <3>6. CASE w # <<>>
      <4>1. k # <<>> /\ Last(k) = Last(w)
        BY <3>4, <3>5, <3>6
      <4> QED
        BY <1>6, <1>7, <3>1, <3>6, <4>1
    <3>7. CASE w = <<>>
      <4>1. k # <<>> /\ Last(k) = flag
        BY <3>2, <3>4, <3>5, <3>7
      <4> QED
        BY <1>5, <1>6, <1>7, <2>4, <3>1, <3>7, <4>1 DEF flag
    <3> QED
      BY <3>6, <3>7
  <2> QED
    BY <2>3, <2>4
<1>9. /\ r("ControlPort") = <<RenderedPort(c.addr, c.port)>> \o raw("ControlPort")
      /\ r("ControlPortWriteToFile")
           = (IF c.file THEN <<"file">> ELSE <<>>) \o raw("ControlPortWriteToFile")
      /\ r("__OwningControllerProcess")
           = (IF c.owner THEN <<"pid">> ELSE <<>>) \o raw("__OwningControllerProcess")
  BY <1>3, ControlRead
<1> QED
  BY <1>8, <1>9

\* The bridges, and the plugins that they need.
LEMMA BridgeReadBack ==
  ASSUME BuilderOK(builder), TextInv, NEW bc \in builder.bridges
  PROVE  /\ Values(Rendered(builder), "UseBridges")
              = <<IF bc.use THEN "1" ELSE "0">> \o Values(builder.raw, "UseBridges")
         /\ Values(Rendered(builder), "ClientTransportPlugin")
              = bc.plugins \o Values(builder.raw, "ClientTransportPlugin")
         /\ Values(Rendered(builder), "Bridge") = bc.bridges \o Values(builder.raw, "Bridge")
<1>1. builder.bridges # {} /\ bc = CHOOSE x \in builder.bridges : TRUE
  BY DEF TextInv
<1>2. OptionalLines(builder.bridges, BridgeLines) = BridgeLines(bc)
  BY <1>1 DEF OptionalLines
<1>3. \A o \in BridgeNames : o \notin ControlNames /\ o # "SocksPort"
  BY DEF BridgeNames, ControlNames
<1>4. \A o \in BridgeNames :
        Values(Rendered(builder), o) = Values(BridgeLines(bc), o) \o Values(builder.raw, o)
  BY <1>2, <1>3, OtherInText
<1>5. bc.bridges \in Seq(Bridge) /\ bc.plugins \in Seq(SUBSET {"obfs4", "meek"})
  BY DEF TextInv
<1>6. /\ Values(BridgeLines(bc), "UseBridges") = <<IF bc.use THEN "1" ELSE "0">>
      /\ Values(BridgeLines(bc), "ClientTransportPlugin") = bc.plugins
      /\ Values(BridgeLines(bc), "Bridge") = bc.bridges
  BY <1>5, BridgeRead
<1>7. "UseBridges" \in BridgeNames /\ "ClientTransportPlugin" \in BridgeNames /\ "Bridge" \in BridgeNames
  BY DEF BridgeNames
<1> QED
  BY <1>4, <1>6, <1>7

\* A section that is not there leaves its options to raw ones.
LEMMA AbsentReadBack ==
  ASSUME BuilderOK(builder), TextInv, NEW o,
         \/ builder.control = {} /\ o \in ControlNames
         \/ builder.bridges = {} /\ o \in BridgeNames
  PROVE  Values(Rendered(builder), o) = <<>> \o Values(builder.raw, o)
<1>1. o \in BridgeNames => o \notin ControlNames /\ o # "SocksPort"
  BY DEF BridgeNames, ControlNames
<1>2. CASE builder.control = {} /\ o \in ControlNames
  <2>1. OptionalLines(builder.control, ControlLines) = <<>>
    BY <1>2 DEF OptionalLines
  <2> QED
    BY <1>2, <2>1, OtherInText, ValuesEmpty
<1>3. CASE builder.bridges = {} /\ o \in BridgeNames
  <2>1. OptionalLines(builder.bridges, BridgeLines) = <<>>
    BY <1>3 DEF OptionalLines
  <2> QED
    BY <1>1, <1>3, <2>1, OtherInText, ValuesEmpty
<1> QED
  BY <1>2, <1>3

LEMMA TextIsReadBack == BuilderInv /\ TextInv => ReadBack
<1> SUFFICES ASSUME BuilderInv, TextInv PROVE ReadBack
  OBVIOUS
<1>1. BuilderOK(builder)
  BY DEF BuilderInv
<1>2. \A g \in DOMAIN Groups : \A o \in OptionsOf(g) :
        ReadOption(Rendered(builder), o) = SetTo(builder, g, o)
  BY <1>1, OptionReadBack
<1>3. Values(Rendered(builder), "SocksPort")
        = [i \in DOMAIN builder.socks.listeners |-> RenderedListener(builder.socks.listeners[i])]
          \o Values(builder.raw, "SocksPort")
  <2>1. Values(Rendered(builder), "SocksPort")
          = Values(SocksLines(builder.socks), "SocksPort") \o Values(builder.raw, "SocksPort")
    BY <1>1, OtherInText DEF ControlNames
  <2> QED
    BY <1>1, <2>1, SocksRead DEF BuilderOK
<1>4. /\ builder.control = {} => \A o \in ControlNames :
           Values(Rendered(builder), o) = <<>> \o Values(builder.raw, o)
      /\ builder.bridges = {} => \A o \in BridgeNames :
           Values(Rendered(builder), o) = <<>> \o Values(builder.raw, o)
  BY <1>1, AbsentReadBack
<1> QED
  BY <1>1, <1>2, <1>3, <1>4, ControlReadBack, BridgeReadBack DEF ReadBack

\* Whatever is configured with any number of setters and raw options, Tor reads in the text
\* that render_config writes every option at the last value it was given, its Control Port,
\* listeners, plugins and bridges with all their values, and whom to let in.
THEOREM ReadsBack == Spec => []ReadBack
<1>1. Spec => [](BuilderInv /\ TextInv)
  BY InitBuilder, StepKeepsBuilder, InitText, StepKeepsText, PTL DEF Spec
<1> QED
  BY <1>1, TextIsReadBack, PTL
=============================================================================
