------------------------------- MODULE TorrcFile -------------------------------
(***************************************************************************)
(* The torrc text of a configuration (tor/torc/render.rs), as its lines:   *)
(* an option and what follows it; and how Tor reads such a file.           *)
(***************************************************************************)
EXTENDS TorConfigBuilder, SequencesExt

Line(option, value) == [option |-> option, value |-> value]
OneIf(present, option, value) == IF present THEN <<Line(option, value)>> ELSE <<>>

\* The options of the lines that no part of Groups has.
ControlNames == {"ControlPort", "CookieAuthentication", "HashedControlPassword",
                 "ControlPortWriteToFile", "__OwningControllerProcess"}
BridgeNames  == {"UseBridges", "ClientTransportPlugin", "Bridge"}

\* A listener as it is rendered: an address for a TCP port, a path for a socket.
RenderedPort(addr, port) ==
  IF port = UnixSocket THEN [addr |-> "unix", port |-> port] ELSE [addr |-> addr, port |-> port]

ControlLines(c) ==
  <<Line("ControlPort", RenderedPort(c.addr, c.port)),
    IF c.auth = "hashed" THEN Line("HashedControlPassword", "hash")
    ELSE Line("CookieAuthentication", IF c.auth = "cookie" THEN "1" ELSE "0")>>
  \o OneIf(c.file, "ControlPortWriteToFile", "file")
  \o OneIf(c.owner, "__OwningControllerProcess", "pid")

RenderedListener(l) == [at |-> RenderedPort(l.addr, l.port), isolated |-> l.isolated]

SocksLines(s) == [i \in DOMAIN s.listeners |-> Line("SocksPort", RenderedListener(s.listeners[i]))]

BridgeLines(bc) ==
  <<Line("UseBridges", IF bc.use THEN "1" ELSE "0")>>
  \o [i \in DOMAIN bc.plugins |-> Line("ClientTransportPlugin", bc.plugins[i])]
  \o [i \in DOMAIN bc.bridges |-> Line("Bridge", bc.bridges[i])]

\* An option that is not set has no line, nor has an empty list; every log has its
\* own; a duration is rendered in whole seconds.
OptionLines(o, v) ==
  IF o = "Log" THEN [i \in DOMAIN v |-> Line(o, <<v[i]>>)]
  ELSE IF o \in Durations /\ v # <<>> THEN <<Line(o, <<v[1] \div Second>>)>>
  ELSE OneIf(v # <<>>, o, v)

PartLines(b, g) ==
  FlattenSeq([i \in DOMAIN Groups[g] |->
                OptionLines(Groups[g][i], b.parts[g][Groups[g][i]])])

OptionalLines(option, Lines(_)) == IF option = {} THEN <<>> ELSE Lines(CHOOSE x \in option : TRUE)

\* Faulty: the raw options come first.
RenderedRawFirst(b) ==
  FlattenSeq(<<b.raw, OptionalLines(b.control, ControlLines), SocksLines(b.socks),
               PartLines(b, "network"), PartLines(b, "circuits"), PartLines(b, "padding"),
               OptionalLines(b.bridges, BridgeLines),
               PartLines(b, "nodes"), PartLines(b, "system"), PartLines(b, "logging")>>)

\* render_config: the sections in their order, after the data directory.
Rendered(b) ==
  FlattenSeq(<<OptionalLines(b.control, ControlLines), SocksLines(b.socks),
               PartLines(b, "network"), PartLines(b, "circuits"), PartLines(b, "padding"),
               OptionalLines(b.bridges, BridgeLines),
               PartLines(b, "nodes"), PartLines(b, "system"), PartLines(b, "logging"), b.raw>>)

-----------------------------------------------------------------------------
(* Tor reads the file.                                                     *)

\* The values that the lines of an option give it, in their order.
Values(lines, o) ==
  FlattenSeq([i \in DOMAIN lines |-> IF lines[i].option = o THEN <<lines[i].value>> ELSE <<>>])

\* The last line of an option counts, but every Log, listener, bridge and plugin.
LastValue(lines, o) == LET vs == Values(lines, o) IN IF vs = <<>> THEN <<>> ELSE Last(vs)
ReadOption(lines, o) == IF o = "Log" THEN FlattenSeq(Values(lines, o)) ELSE LastValue(lines, o)

\* How Tor lets its controllers in.
ReadAuth(lines) ==
  IF Values(lines, "HashedControlPassword") # <<>> THEN "hashed"
  ELSE IF Values(lines, "CookieAuthentication") # <<>>
          /\ Last(Values(lines, "CookieAuthentication")) = "1" THEN "cookie"
  ELSE "none"
=============================================================================
