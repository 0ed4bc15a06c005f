----------------------------- MODULE MCTorStartup -----------------------------
(* A small instance of the configuration and of the bringing up of Tor.     *)
EXTENDS TorStartup

MCControls ==
  LET tcp   == {Tcp(p) : p \in 0 .. MaxPort} \cup {AutoTcp, Tcp(UnixSocket)}
      bound == {BindControl(c, a) : c \in tcp \cup {UnixControl}, a \in Addrs}
  IN  {Authentication(c, a) : c \in bound \cup {WritePortToFile(AutoTcp)}, a \in Auths}

MCListeners ==
  {Localhost(p) : p \in PortSpec} \cup {BindSocks(Localhost(1), "other"), IsolatedAuth(AutoPort)}

\* The two arguments of port_range have the width of a port.
MCRanges == (0 .. MaxPort) \X (0 .. MaxPort)

MCBridges ==
  LET some == {PlainBridge, [PlainBridge EXCEPT !.transport = {"meek"}],
               [PlainBridge EXCEPT !.transport = {"obfs4"}]}
              \cup {Obfs4Bridge(f, c, i) : f, c, i \in {"good", "bad"}}
      plugins == {<<>>, <<{"obfs4"}>>, <<{"obfs4"}, {"meek"}>>, <<{"obfs4", "meek"}>>}
  IN  {BridgeConfig(TRUE, <<PlainBridge, b>>, p) : b \in some, p \in plugins}
      \cup {BridgeConfig(FALSE, <<PlainBridge>>, <<>>)}

MCRawOptions ==
  {Line("ConnLimit", <<7>>), Line("Log", <<7>>), Line("CookieAuthentication", "0"),
   Line("UseBridges", "0"), Line("SocksPort", RenderedListener(Localhost(1)))}

MCPools ==
  [lanes : 0 .. MaxLanes + 1, bootstrap : 0 .. 1,
   rotation : [after : {{}, {0}, {1}}, assignments : {{}, {0}, {1}}]]

MCPaths == {<<"p">>, <<"p", Blank, Quote>>, <<Backslash, Equals>>}

MCBodies ==
  UNION {[1 .. n -> {<<>>, <<"a">>, <<Dot>>, <<Dot, Dot>>, <<Dot, "a">>}] : n \in 0 .. 2}
=============================================================================
