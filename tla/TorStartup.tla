------------------------------ MODULE TorStartup ------------------------------
(***************************************************************************)
(* From a configuration to a Tor that is up: a caller or a managed pool    *)
(* builds a configuration, Tor is launched with its text, and the client   *)
(* brings it up over the control connection, reply by reply as text        *)
(* (finish_startup in tor/instance/lifecycle.rs, client.rs, auth.rs).      *)
(* TorInstance has the same start with its processes, files and drops, and *)
(* ControlClient the concurrency of the connection; here is what they take *)
(* for granted: that Tor reads what was configured, that replies are read  *)
(* as they were written, and that the client finds in them what it needs.  *)
(***************************************************************************)
EXTENDS TorrcFile, ControlCodec

CONSTANTS MaxCalls,  \* bound: how many setters are called on one builder, raw options included
          Listeners, \* the SOCKS listeners, ranges of ports and control ports that
          Ranges,    \*   callers of the low level API configure
          Controls,
          Bridges,   \* their bridge configurations
          RawOptions,
          Pools,     \* the pool configurations
          Paths,     \* the paths of Tor's cookie file, as texts
          Bodies     \* what a user may read over the connection: sequences of texts

ASSUME MaxCallsAssumption == MaxCalls \in Nat
ASSUME ListenersAssumption == Listeners \subseteq SocksPort
ASSUME RangesAssumption   == Ranges \subseteq (0 .. MaxPort) \X (0 .. MaxPort)
ASSUME ControlsAssumption == Controls \subseteq ControlConfig
ASSUME BridgesAssumption  == \A bc \in Bridges : /\ bc.bridges \in Seq(Bridge)
                                                  /\ bc.plugins \in Seq(SUBSET {"obfs4", "meek"})
\* A raw option may have any name, that of an option with a setter as well; it then has a
\* value of that option.
ASSUME RawOptionsAssumption ==
  \A o \in RawOptions : (\E g \in DOMAIN Groups : o.option \in OptionsOf(g)) => o.value \in Seq(Int)
ASSUME PoolsAssumption    == Pools \subseteq PoolConfig
ASSUME PathsAssumption    == Paths \subseteq Seq(STRING) \ {<<>>}
ASSUME BodiesAssumption   == Bodies \subseteq Seq(Seq(STRING))

VARIABLES
  builder,  \* the TorConfigBuilder, then the TorConfig that it has built
  calls,    \* how many setters were called on it
  pool,     \* the PoolConfig of the managed pool that it is for, if it is for one
  stage,    \* the command that the client is at, or where it is before and after
  asked,    \* the command was sent
  reply,    \* the reply as far as it was read
  cookie, credential,   \* what the client has read from the file, what it authenticates with
  outcome,  \* of the start
  tor,      \* how Tor was configured
  jar,      \* the contents of Tor's cookie file
  authed,   \* Tor has let the client in
  wire, closed,         \* unread lines, and whether no more will come
  meant,    \* the reply that Tor has given
  broken    \* Tor has died or its connection broke

config == <<builder, calls, pool>>
client == <<stage, asked, reply, cookie, credential, outcome>>
server == <<tor, jar, authed, wire, closed, meant, broken>>
vars   == <<config, client, server>>

Commands == {"PROTOCOLINFO", "AUTHCHALLENGE", "AUTHENTICATE", "TAKEOWNERSHIP", "RESETCONF",
             "phase", "listeners", "text"}
NoReply == [code |-> "", lines |-> <<>>]
NoTor   == [auth |-> "none", bound |-> <<>>, path |-> <<>>, safe |-> FALSE]

TorCookie   == <<"k">>
OtherCookie == <<"k2">>
ClientNonce == <<"cn">>
ServerNonce == <<"sn">>

\* safecookie_hash: 32 bytes that say what they were made from.
Hash(key, secret, nonce) == <<key>> \o secret \o ClientNonce \o nonce
HashLen == 4

TypeOK ==
  /\ calls \in 0 .. MaxCalls /\ pool \subseteq PoolConfig /\ Cardinality(pool) <= 1
  /\ builder.control \in SUBSET ControlConfig /\ Cardinality(builder.control) <= 1
  /\ \A i \in DOMAIN builder.socks.listeners : builder.socks.listeners[i] \in SocksPort
  /\ \A g \in DOMAIN Groups : DOMAIN builder.parts[g] = OptionsOf(g)
  /\ stage \in {"build", "built", "up", "failed"} \cup Commands
  /\ asked \in BOOLEAN
  /\ reply.at \in {"first", "more", "data", "whole", "failed", "none"}
  /\ Len(cookie) <= 1 /\ Len(credential) \in {0, 1, HashLen}
  /\ outcome \in {"none", "rejected", "ok", "refused", "closed", "protocol", "cookie",
                  "hash", "unsupported", "timeout", "listeners"}
  /\ authed \in BOOLEAN /\ closed \in BOOLEAN /\ broken \in BOOLEAN

Init ==
  /\ builder = NewBuilder /\ calls = 0 /\ pool = {}
  /\ stage = "build" /\ asked = FALSE /\ reply = StartReply
  /\ cookie = <<>> /\ credential = <<>> /\ outcome = "none"
  /\ tor = NoTor /\ jar = <<>> /\ authed = FALSE
  /\ wire = <<>> /\ closed = FALSE /\ meant = NoReply /\ broken = FALSE

-----------------------------------------------------------------------------
(* The configuration.                                                      *)

OptionValues(o) ==
  IF o \in Durations THEN {<<Second \div 2>>, <<2 * Second + 1>>}
  ELSE IF o \in Lists THEN {<<>>, <<1, 2>>}
  ELSE {<<0>>, <<1>>}

\* A part is given as a new value, or as the one before with another option.
Parts(b, g) ==
  UNION {{Setting(part, o, v) : part \in {Unset(g), b.parts[g]}, v \in OptionValues(o)}
           : o \in OptionsOf(g)}

SocksConfigs ==
  LET some == {NoSocks} \cup {PortRange(r[1], r[2]) : r \in Ranges}
      one  == some \cup {Listener(s, l) : s \in some, l \in Listeners}
  IN  one \cup {Listener(Listener(NoSocks, l), k) : l, k \in Listeners}

Configured(b) ==
  {WithControl(b, c) : c \in Controls} \cup {WithSocks(b, s) : s \in SocksConfigs}
  \cup {WithBridges(b, bc) : bc \in Bridges}
  \cup UNION {{WithPart(b, g, p) : p \in Parts(b, g)} : g \in DOMAIN Groups}

\* A setter is called.
Configure ==
  /\ stage = "build" /\ pool = {} /\ calls < MaxCalls
  /\ builder' \in Configured(builder) /\ calls' = calls + 1
  /\ UNCHANGED <<pool, client, server>>

\* A raw option is added.
AddRaw ==
  /\ stage = "build" /\ pool = {} /\ calls < MaxCalls
  /\ \E o \in RawOptions : builder' = WithRaw(builder, o)
  /\ calls' = calls + 1
  /\ UNCHANGED <<pool, client, server>>

\* PoolBuilder::start up to the build, with the policy whose parts and bridges the
\* caller has chosen.
StartManaged ==
  /\ stage = "build" /\ pool = {}
  /\ builder.control = {} /\ builder.socks = NoSocks /\ builder.raw = <<>>
  /\ \E p \in Pools : PoolConfigValid(p) /\ pool' = {p}
  /\ builder' = RuntimeBuilder([parts |-> builder.parts, bridges |-> builder.bridges])
  /\ UNCHANGED <<calls, client, server>>

\* TorConfigBuilder::build.
Build ==
  /\ stage = "build"
  /\ IF BuildError(builder) = "none"
       THEN stage' = "built" /\ UNCHANGED outcome
       ELSE stage' = "failed" /\ outcome' = "rejected"
  /\ UNCHANGED <<config, asked, reply, cookie, credential, server>>

\* Tor reads the text, and the client finds its Control Port: at the port that was
\* configured, or in the file that Tor writes. Bound: a text whose listeners and whose way
\* in were all set by the typed setters.
Launch ==
  LET lines == Rendered(builder)
      bound == Values(lines, "SocksPort")
  IN  /\ stage = "built"
      /\ \E c \in builder.control :
           c.listen = "tcp" /\ c.port # UnixSocket /\ (c.port # AutoPort \/ c.file)
      /\ \A i \in DOMAIN builder.raw : builder.raw[i].option \notin ControlNames \cup {"SocksPort"}
      /\ \E path \in Paths, safe \in BOOLEAN :
           tor' = [auth |-> ReadAuth(lines), path |-> path, safe |-> safe,
                   bound |-> [i \in DOMAIN bound |->
                                IF bound[i].at.addr = "unix" THEN "unix" ELSE "tcp"]]
      /\ jar' \in {TorCookie, OtherCookie, <<>>}
      /\ stage' = "PROTOCOLINFO"
      /\ builder' = NewBuilder /\ calls' = 0
      /\ UNCHANGED <<pool, asked, reply, cookie, credential, outcome,
                     authed, wire, closed, meant, broken>>

-----------------------------------------------------------------------------
(* Tor's replies.                                                          *)

Ok == TextLine(<<"OK">>)
Answer(lines) == [code |-> "250", lines |-> Append(lines, Ok)]
Refusal == [code |-> "551", lines |-> <<TextLine(<<"no">>)>>]

MethodsText ==
  CASE tor.auth = "cookie" -> IF tor.safe THEN <<"COOKIE", Comma, "SAFECOOKIE">> ELSE <<"COOKIE">>
    [] tor.auth = "hashed" -> <<"HASHEDPASSWORD">>
    [] OTHER               -> <<"NULL">>

FileText ==
  IF tor.auth = "cookie" THEN <<Blank, "COOKIEFILE", Equals>> \o Quoted(tor.path) ELSE <<>>

ListenersText ==
  FlattenSeq([i \in DOMAIN tor.bound |->
                (IF i = 1 THEN <<>> ELSE <<Blank>>) \o Quoted(<<tor.bound[i]>>)])

\* Tor lets in a controller with a credential that its configuration asks for.
Accepted ==
  \/ tor.auth = "none"
  \/ tor.auth = "cookie" /\ credential \in {TorCookie, Hash("client", TorCookie, ServerNonce)}

Replies(command) ==
  CASE command \notin {"PROTOCOLINFO", "AUTHCHALLENGE", "AUTHENTICATE"} /\ ~authed -> {Refusal}
    [] command = "PROTOCOLINFO" ->
         {Answer(<<TextLine(<<"PROTOCOLINFO", Blank, "1">>),
                   TextLine(<<"AUTH", Blank, "METHODS", Equals>> \o MethodsText \o FileText),
                   TextLine(<<"VERSION", Blank, "Tor", Equals>> \o Quoted(<<"0.4.8">>))>>)}
    [] command = "AUTHCHALLENGE" ->
         {[code |-> "250", lines |-> <<TextLine(
             <<"AUTHCHALLENGE", Blank, "SERVERHASH", Equals>>
             \o Hash("server", TorCookie, ServerNonce)
             \o <<Blank, "SERVERNONCE", Equals>> \o ServerNonce)>>]}
    [] command = "AUTHENTICATE" ->
         {IF Accepted THEN Answer(<<>>) ELSE [Refusal EXCEPT !.code = "515"]}
    [] command \in {"TAKEOWNERSHIP", "RESETCONF"} /\ authed -> {Answer(<<>>), Refusal}
    [] command = "phase" /\ authed ->
         {Answer(<<PairLine(<<"status/bootstrap-phase">>,
            <<"NOTICE", Blank, "BOOTSTRAP", Blank, "PROGRESS", Equals, p>>)>>) : p \in {"50", "100"}}
    [] command = "listeners" /\ authed -> {Answer(<<PairLine(<<"net/listeners/socks">>, ListenersText)>>)}
    [] command = "text" /\ authed -> {Answer(<<DataLine(<<"config-text">>, body)>>) : body \in Bodies}

\* The client sends its command, and Tor executes and answers it if it still can.
Command ==
  /\ stage \in Commands /\ ~asked
  /\ asked' = TRUE /\ reply' = StartReply
  /\ IF closed THEN UNCHANGED <<authed, wire, closed, meant>>
     ELSE \E r \in Replies(stage) :
            /\ meant' = r /\ wire' = Encode(r.code, r.lines)
            /\ closed' = (r.code = "515")
            /\ authed' = (authed \/ (stage = "AUTHENTICATE" /\ r.code = "250"))
  /\ UNCHANGED <<config, stage, cookie, credential, outcome, tor, jar, broken>>

\* Tor dies or the connection breaks, and what was not yet read may be lost.
Break ==
  /\ stage \in Commands \cup {"up"} /\ ~broken
  /\ broken' = TRUE /\ closed' = TRUE /\ wire' \in Cuts(wire)
  /\ UNCHANGED <<config, client, tor, jar, authed, meant>>

-----------------------------------------------------------------------------
(* The client.                                                             *)

Reading == asked /\ reply.at \in {"first", "more", "data"}

Read ==
  /\ Reading
  /\ \/ wire # <<>> /\ reply' = ReadLine(reply, Head(wire)) /\ wire' = Tail(wire)
     \/ wire = <<>> /\ closed /\ reply' = ReadEnd(reply) /\ UNCHANGED wire
  /\ UNCHANGED <<config, stage, asked, cookie, credential, outcome,
                 tor, jar, authed, closed, meant, broken>>

\* What a reply leads to: the next command or an end, a cookie, a credential and an
\* outcome.
Goes(to)   == [to |-> to, cookie |-> cookie, credential |-> credential, outcome |-> outcome]
Fails(why) == [Goes("failed") EXCEPT !.outcome = why]

\* read_cookie, of the file that Tor is asked for.
CookieFile(files) == IF files = {tor.path} THEN jar ELSE <<>>

\* authenticate: the strongest method that Tor offers, and no other after it.
Authenticate(info) ==
  LET secret == CookieFile(info.file)
  IN  IF info.methods = {} THEN Fails("protocol")
      ELSE IF info.methods \cap {"SAFECOOKIE", "COOKIE"} # {} /\ Len(secret) # 1
        THEN Fails("cookie")
      ELSE IF "SAFECOOKIE" \in info.methods
        THEN [Goes("AUTHCHALLENGE") EXCEPT !.cookie = secret]
      ELSE IF "COOKIE" \in info.methods
        THEN [Goes("AUTHENTICATE") EXCEPT !.cookie = secret, !.credential = secret]
      ELSE IF "NULL" \in info.methods THEN Goes("AUTHENTICATE")
      ELSE Fails("unsupported")

\* The words of the line that parse_challenge reads.
ChallengeWords(lines) ==
  {WordsOf(l) : l \in FirstAt(lines, {i \in DOMAIN lines : Begins(lines[i], "AUTHCHALLENGE")})}

\* Faulty: the server's hash is not compared.
ChallengedUnchecked(lines) ==
  LET words == ChallengeWords(lines)
      nonces == UNION {Field(w, "SERVERNONCE") : w \in words}
  IN  IF \E n \in nonces : Len(n) = 1
      THEN [Goes("AUTHENTICATE") EXCEPT !.credential =
              Hash("client", cookie, CHOOSE n \in nonces : TRUE)]
      ELSE Fails("protocol")

\* authenticate_safecookie after the challenge: parse_challenge, then the server's
\* hash, then the client's.
Challenged(lines) ==
  LET words == ChallengeWords(lines)
      hashes == {h \in UNION {Field(w, "SERVERHASH") : w \in words} : Len(h) = HashLen}
      nonces == {n \in UNION {Field(w, "SERVERNONCE") : w \in words} : Len(n) = 1}
      nonce == CHOOSE n \in nonces : TRUE
  IN  IF hashes = {} \/ nonces = {} THEN Fails("protocol")
      ELSE IF hashes # {Hash("server", cookie, nonce)} THEN Fails("hash")
      ELSE [Goes("AUTHENTICATE") EXCEPT !.credential = Hash("client", cookie, nonce)]

\* authenticate_and_take_ownership, wait_bootstrap and socks_listener.
Succeeds(lines) ==
  CASE stage = "PROTOCOLINFO"  -> Authenticate(ProtocolInfo(lines))
    [] stage = "AUTHCHALLENGE" -> Challenged(lines)
    [] stage = "AUTHENTICATE"  -> Goes("TAKEOWNERSHIP")
    [] stage = "TAKEOWNERSHIP" -> Goes("RESETCONF")
    [] stage = "RESETCONF"     -> Goes("phase")
    [] stage = "phase"         -> IF Progress(lines) = {<<"100">>} THEN Goes("listeners")
                                                                   ELSE Goes("phase")
    [] stage = "listeners"     -> IF Cardinality(SocksListeners(lines)) = 1
                                  THEN [Goes("up") EXCEPT !.outcome = "ok"] ELSE Fails("listeners")

\* command_success; a raw command takes any reply.
Outcome ==
  IF stage = "text" THEN Goes("up")
  ELSE IF reply.at = "none" THEN Fails("closed")
  ELSE IF reply.at = "failed" THEN Fails("protocol")
  ELSE IF reply.code # "250" THEN Fails("refused")
  ELSE Succeeds(reply.lines)

Handle ==
  /\ asked /\ ~Reading /\ asked' = FALSE
  /\ stage' = Outcome.to /\ cookie' = Outcome.cookie
  /\ credential' = Outcome.credential /\ outcome' = Outcome.outcome
  /\ reply' = StartReply
  /\ UNCHANGED <<config, server>>

\* wait_bootstrap has a deadline.
Timeout ==
  /\ stage = "phase" /\ stage' = "failed" /\ outcome' = "timeout" /\ asked' = FALSE
  /\ UNCHANGED <<config, reply, cookie, credential, server>>

\* A user of an instance that is up sends a command of his own.
Ask ==
  /\ stage = "up" /\ stage' = "text"
  /\ UNCHANGED <<config, asked, reply, cookie, credential, outcome, server>>

Next ==
  \/ Configure \/ AddRaw \/ StartManaged \/ Build \/ Launch
  \/ Command \/ Break \/ Read \/ Handle \/ Timeout \/ Ask

Spec == Init /\ [][Next]_vars

-----------------------------------------------------------------------------
(* Properties.                                                             *)

\* What build accepts can be listened on and reached: no two listeners, the Control
\* Port among them, share a fixed TCP port; the ports of a range are TCP ports; nobody
\* but the host is let in unasked; and no bridge lacks the plugin it needs.
BuiltSound ==
  stage = "built" =>
    LET port(i) == builder.socks.listeners[i].port
        fixed   == {i \in DOMAIN builder.socks.listeners : port(i) \in 0 .. MaxPort}
    IN  /\ builder.control # {} \/ builder.socks.listeners # <<>>
        /\ \A i \in DOMAIN builder.socks.listeners : port(i) <= MaxPort
        /\ Cardinality({port(i) : i \in fixed} \cup UNION {ControlPort(c) : c \in builder.control})
             = Cardinality(fixed) + Cardinality(UNION {ControlPort(c) : c \in builder.control})
        /\ \A c \in builder.control : c.auth = "none" => c.addr = "loopback"
        /\ \A bc \in builder.bridges : \A i \in DOMAIN bc.bridges :
             \A t \in bc.bridges[i].transport : \E k \in DOMAIN bc.plugins : t \in bc.plugins[k]

\* What an option is set to: by its setter, but a raw option of that name has the last
\* word, or adds a log.
SetTo(b, g, o) ==
  LET typed == IF o \in Durations /\ b.parts[g][o] # <<>> THEN <<b.parts[g][o][1] \div Second>>
               ELSE b.parts[g][o]
      raw == Values(b.raw, o)
  IN  IF o = "Log" THEN typed \o FlattenSeq(raw) ELSE IF raw = <<>> THEN typed ELSE Last(raw)

\* How controllers are let in: as configured, but a raw option has the last word on the
\* cookie. A text that names a password as well as a cookie is left out: Tor takes both.
LetIn(b, c) ==
  LET raw == Values(b.raw, "CookieAuthentication")
  IN  IF raw = <<>> THEN c.auth ELSE IF Last(raw) = "1" THEN "cookie" ELSE "none"
OneWayIn(b, c) ==
  /\ Values(b.raw, "HashedControlPassword") = <<>>
  /\ c.auth = "hashed" => Values(b.raw, "CookieAuthentication") = <<>>

\* Tor reads in the rendered text every option that was set, to its last value, and none
\* that was not; the Control Port, the listeners, the plugins and the bridges, each with
\* its own values, in their order and before those of raw options; and whom it lets in.
ReadBack ==
  stage = "built" =>
    LET lines == Rendered(builder)
        Reads(o, typed) == Values(lines, o) = typed \o Values(builder.raw, o)
    IN  /\ \A g \in DOMAIN Groups : \A o \in OptionsOf(g) :
             ReadOption(lines, o) = SetTo(builder, g, o)
        /\ \A c \in builder.control :
             /\ Reads("ControlPort", <<RenderedPort(c.addr, c.port)>>)
             /\ Reads("ControlPortWriteToFile", IF c.file THEN <<"file">> ELSE <<>>)
             /\ Reads("__OwningControllerProcess", IF c.owner THEN <<"pid">> ELSE <<>>)
             /\ OneWayIn(builder, c) => ReadAuth(lines) = LetIn(builder, c)
        /\ builder.control = {} => \A o \in ControlNames : Reads(o, <<>>)
        /\ Reads("SocksPort", [i \in DOMAIN builder.socks.listeners |->
                                 RenderedListener(builder.socks.listeners[i])])
        /\ \A bc \in builder.bridges :
             /\ Reads("UseBridges", <<IF bc.use THEN "1" ELSE "0">>)
             /\ Reads("ClientTransportPlugin", bc.plugins)
             /\ Reads("Bridge", bc.bridges)
        /\ builder.bridges = {} => \A o \in BridgeNames : Reads(o, <<>>)

\* read_reply returns the reply that Tor gave to this command, its lines unescaped, and
\* leaves nothing of it for the next; only a broken connection may cut its last line.
ReplyFramed ==
  asked /\ reply.at = "whole" =>
    /\ wire = <<>> /\ reply.code = meant.code
    /\ \/ reply.lines = meant.lines
       \/ broken /\ Len(reply.lines) = Len(meant.lines) /\ Front(reply.lines) = Front(meant.lines)

\* The client proves that it knows the cookie only to a Tor that has proved the same,
\* whatever file it was given to read.
ServerProved == Len(credential) = HashLen => cookie = TorCookie

\* A start fails only for a cause outside of the client: the text of a path, of a body
\* or of a listener never makes it fail.
FailuresExplained ==
  /\ outcome \in {"closed", "protocol"} => broken
  /\ outcome = "cookie" => tor.auth = "cookie" /\ jar = <<>>
  /\ outcome = "hash" => jar = OtherCookie /\ tor.safe
  /\ outcome = "unsupported" => tor.auth = "hashed"
  /\ outcome = "refused" => meant.code # "250"
  /\ outcome = "listeners" => Cardinality({i \in DOMAIN tor.bound : tor.bound[i] = "tcp"}) # 1

\* The configuration of a managed pool is built whatever its policy, unless a bridge of
\* it is unusable, and without a warning about its Control Port or its listener: what it
\* may be warned of is what the policy set, a limit of connections or unsafe logs.
ManagedBuilds ==
  pool # {} =>
    /\ outcome = "rejected" => \E bc \in builder.bridges : ~BridgesValid(bc)
    /\ stage = "built" => Warnings(builder) \subseteq {"HighConnLimit", "UnsafeLoggingDisabled"}

\* Tor comes up with the configuration of a managed pool, with one TCP listener and an
\* authenticated controller that knows the cookie.
ManagedComesUp ==
  pool # {} =>
    /\ outcome \notin {"unsupported", "listeners"}
    /\ outcome = "ok" => authed /\ cookie = TorCookie /\ tor.bound = <<"tcp">>
=============================================================================
