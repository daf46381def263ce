---------------------------- MODULE ServerProofs ----------------------------
(***************************************************************************)
(* Proofs about the server of a node and the port mapping, for any ports   *)
(* and hosts, any configuration and any number of reports of libplum.      *)
(***************************************************************************)
EXTENDS Server, TLAPS

(* From the end of Listen on there is a server, and mTlsEnabled says what  *)
(* it speaks.                                                              *)
ServerStands ==
    pc \in {"external", "map", "assign", "running"} =>
      /\ mWebSocketServer # None
      /\ mWebSocketServer \in WebSocketServer /\ mWebSocketServer.tls = mTlsEnabled

(* The mapping exists from CreateMapping on, is known to the server once   *)
(* the constructor has returned, and is that of the server's port.         *)
MappingIsKnown ==
    /\ pc \in {"init", "listen", "external", "map"} => mapping = None /\ report = None
    /\ pc = "external" => config.externalHost # None
    /\ pc \in {"assign", "running"} /\ mapping # None => mWebSocketServer.port = mapping
    /\ pc = "running" /\ mapping # None => mMappingId = 0

(* The callback runs while the server is there, and restarts it only for a *)
(* mapping that works.                                                     *)
CallbackIsDue ==
    /\ callback # "idle" => /\ pc \in {"assign", "running"}
                            /\ mapping # None /\ report \in Success \cup {Failure}
    /\ callback = "create" => report # Failure
    /\ pc = "assign" /\ report # None => early

(* There is no mapping with a configured external host, whose server has   *)
(* the port of the configuration.                                          *)
HostIsConfigured ==
    /\ pc \in {"map", "assign"} => config.externalHost = None
    /\ config.externalHost # None /\ pc = "running" =>
         mapping = None /\ report = None /\ callback = "idle"
    /\ pc \in {"external", "running"} /\ config.externalHost # None /\ config.port # 0
         => mWebSocketServer.port = config.port

(* The external address is that of the configuration, or the one of the    *)
(* last report, or none, as after a report that is ignored.                *)
External ==
    /\ pc \in {"init", "listen", "external", "map", "assign"} =>
         external = <<None, None>>
    /\ pc = "running" /\ config.externalHost # None =>
         /\ mExternalHost \in IF config.pem THEN {config.externalHost} ELSE Host
         /\ mExternalPort = value_or(config.externalPort, config.port)
    /\ pc = "running" /\ config.externalHost = None /\ callback = "idle" =>
         \/ external = <<None, None>>
         \/ /\ report \in Success /\ mapping # None
            /\ external = <<report.host, report.port>>

ServerInv ==
    /\ TypeOK /\ ServerStands /\ MappingIsKnown /\ CallbackIsDue /\ HostIsConfigured
    /\ External /\ LastReportIsPublished

-----------------------------------------------------------------------------
LEMMA InitServerInv == Init => ServerInv
<1>. SUFFICES ASSUME Init PROVE ServerInv
  OBVIOUS
<1>1. TypeOK
  <2>1. reports \in 0..MaxReports
    BY ServerAssumption DEF Init
  <2>2. early \in BOOLEAN /\ mTlsEnabled \in BOOLEAN
    BY DEF Init
  <2>. QED BY <2>1, <2>2 DEF Init, TypeOK
<1>. QED
  BY <1>1
  DEF Init, external, ServerInv, ServerStands, MappingIsKnown, CallbackIsDue,
      HostIsConfigured, External, LastReportIsPublished

(* createWebSocketServer leaves a server that can be connected to, or none.*)
LEMMA CreateFacts ==
  ASSUME NEW port \in Nat, NEW tls \in BOOLEAN, createWebSocketServer(port, tls)
  PROVE  /\ mTlsEnabled' = tls
         /\ mWebSocketServer' # None =>
              /\ mWebSocketServer' \in WebSocketServer
              /\ mWebSocketServer'.tls = tls
              /\ port # 0 => mWebSocketServer'.port = port
<1>. DEFINE new == [port |-> IF port = 0 THEN Ephemeral ELSE port, tls |-> tls]
<1>1. new \in WebSocketServer
  BY ServerAssumption DEF WebSocketServer
<1>2. mWebSocketServer' # None => mWebSocketServer' = new
  BY DEF createWebSocketServer
<1>. QED BY <1>1, <1>2 DEF createWebSocketServer

LEMMA PlumInitServerInv ==
  ASSUME ServerInv, PlumInit
  PROVE  ServerInv'
  BY DEF PlumInit, external, plum, ServerInv, TypeOK, ServerStands, MappingIsKnown,
         CallbackIsDue, HostIsConfigured, External, LastReportIsPublished

LEMMA ListenServerInv ==
  ASSUME ServerInv, Listen
  PROVE  ServerInv'
<1>1. PICK tls \in IF config.externalHost = None THEN {FALSE}
                   ELSE IF config.pem THEN {TRUE} ELSE GetPlumCertificatePair :
        createWebSocketServer(config.port, tls)
  BY DEF Listen
<1>2. tls \in BOOLEAN /\ config.port \in Nat
  BY ServerAssumption
  DEF ServerInv, TypeOK, Configuration, GetPlumCertificatePair
<1>3. /\ mTlsEnabled' = tls
      /\ mWebSocketServer' # None =>
           /\ mWebSocketServer' \in WebSocketServer /\ mWebSocketServer'.tls = tls
           /\ config.port # 0 => mWebSocketServer'.port = config.port
  BY <1>1, <1>2, CreateFacts
<1>. QED
  BY <1>2, <1>3
  DEF Listen, external, plum, ServerInv, TypeOK, ServerStands, MappingIsKnown,
      CallbackIsDue, HostIsConfigured, External, LastReportIsPublished

LEMMA UpdateExternalServerInv ==
  ASSUME ServerInv, UpdateExternal
  PROVE  ServerInv'
<1>1. PICK host \in IF config.pem THEN {config.externalHost} ELSE Host :
        updateExternal(host, value_or(config.externalPort, config.port))
  BY DEF UpdateExternal
<1>2. /\ config.externalHost \in Host \cup {None} /\ config.port \in Port
      /\ config.externalPort \in Port \cup {None}
  BY DEF ServerInv, TypeOK, Configuration
<1>3. mExternalHost' \in Host \cup {None} /\ mExternalPort' \in Port \cup {None}
  BY <1>1, <1>2 DEF updateExternal, value_or
<1>4. External'
  BY <1>1, <1>2
  DEF UpdateExternal, updateExternal, external, plum, External, ServerInv,
      MappingIsKnown
<1>. QED
  BY <1>3, <1>4
  DEF UpdateExternal, plum, ServerInv, TypeOK, ServerStands, MappingIsKnown,
      CallbackIsDue, HostIsConfigured, LastReportIsPublished

LEMMA CreateMappingServerInv ==
  ASSUME ServerInv, CreateMapping
  PROVE  ServerInv'
<1>1. mWebSocketServer.port \in Nat \ {0}
  BY DEF CreateMapping, ServerInv, ServerStands, WebSocketServer
<1>. QED
  BY <1>1
  DEF CreateMapping, external, plum, ServerInv, TypeOK, ServerStands, MappingIsKnown,
      CallbackIsDue, HostIsConfigured, External, LastReportIsPublished

LEMMA AssignServerInv ==
  ASSUME ServerInv, AssignMappingId
  PROVE  ServerInv'
  BY DEF AssignMappingId, external, plum, ServerInv, TypeOK, ServerStands,
         MappingIsKnown, CallbackIsDue, HostIsConfigured, External,
         LastReportIsPublished

LEMMA ReportServerInv ==
  ASSUME ServerInv, NEW new \in Success \cup {Failure}, Report(new)
  PROVE  ServerInv'
<1>1. TypeOK'
  <2>1. early' \in BOOLEAN
    BY DEF Report
  <2>2. reports' \in 0..MaxReports
    BY ServerAssumption DEF Report, ServerInv, TypeOK
  <2>. QED BY <2>1, <2>2 DEF Report, external, ServerInv, TypeOK
<1>. QED
  BY <1>1
  DEF Report, external, ServerInv, ServerStands, MappingIsKnown,
      CallbackIsDue, HostIsConfigured, External, LastReportIsPublished

LEMMA CheckServerInv ==
  ASSUME ServerInv, CheckMappingId
  PROVE  ServerInv'
  BY DEF CheckMappingId, external, ServerInv, TypeOK, ServerStands, MappingIsKnown,
         CallbackIsDue, HostIsConfigured, External, LastReportIsPublished

LEMMA RestartServerInv ==
  ASSUME ServerInv, Restart
  PROVE  ServerInv'
<1>1. PICK tls \in BOOLEAN : createWebSocketServer(mapping, tls)
  BY DEF Restart, GetPlumCertificatePair
<1>2. mapping \in Nat /\ mapping # 0
  BY DEF Restart, ServerInv, TypeOK, CallbackIsDue
<1>3. /\ mTlsEnabled' = tls
      /\ mWebSocketServer' # None =>
           /\ mWebSocketServer' \in WebSocketServer /\ mWebSocketServer'.tls = tls
           /\ mWebSocketServer'.port = mapping
  BY <1>1, <1>2, CreateFacts
<1>. QED
  BY <1>3
  DEF Restart, external, ServerInv, TypeOK, ServerStands, MappingIsKnown,
      CallbackIsDue, HostIsConfigured, External, LastReportIsPublished

LEMMA PublishServerInv ==
  ASSUME ServerInv, Publish
  PROVE  ServerInv'
<1>1. report # Failure =>
        /\ report.host \in Host /\ report.port \in Port /\ report.port # 0
  BY DEF Publish, ServerInv, CallbackIsDue, Success
<1>2. /\ mExternalHost' \in Host \cup {None} /\ mExternalPort' \in Port \cup {None}
      /\ mExternalPort' # 0
      /\ <<mExternalHost', mExternalPort'>> =
           IF report = Failure THEN <<None, None>> ELSE <<report.host, report.port>>
  BY <1>1, ServerAssumption DEF Publish, updateExternal
<1>. QED
  BY <1>2
  DEF Publish, external, ServerInv, TypeOK, ServerStands, MappingIsKnown,
      CallbackIsDue, HostIsConfigured, External, LastReportIsPublished

LEMMA DestroyServerInv ==
  ASSUME ServerInv, Destroy
  PROVE  ServerInv'
  BY DEF Destroy, external, plum, ServerInv, TypeOK, ServerStands, MappingIsKnown,
         CallbackIsDue, HostIsConfigured, External, LastReportIsPublished

LEMMA NextServerInv == ServerInv /\ [Next]_vars => ServerInv'
<1>. SUFFICES ASSUME ServerInv, [Next]_vars PROVE ServerInv'
  OBVIOUS
<1>1. CASE UNCHANGED vars
  BY <1>1
  DEF vars, external, ServerInv, TypeOK, ServerStands, MappingIsKnown, CallbackIsDue,
      HostIsConfigured, External, LastReportIsPublished
<1>2. CASE Next
  BY <1>2, PlumInitServerInv, ListenServerInv, UpdateExternalServerInv,
     CreateMappingServerInv, AssignServerInv, ReportServerInv, CheckServerInv,
     RestartServerInv, PublishServerInv, DestroyServerInv
  DEF Next
<1>. QED BY <1>1, <1>2

LEMMA ServerInvHolds == Spec => []ServerInv
  BY InitServerInv, NextServerInv, PTL DEF Spec

-----------------------------------------------------------------------------
(* Type correctness of Server, whatever libplum reports and when.          *)
THEOREM ServerTypeOK == Spec => []TypeOK
<1>1. ServerInv => TypeOK
  BY DEF ServerInv
<1>. QED BY <1>1, ServerInvHolds, PTL

(* url() of a server never throws between its construction and its         *)
(* destruction, although the callback stops and starts the WebSocket       *)
(* server; it has the scheme that is spoken, and, once the callback has    *)
(* dealt with the last report, an address that leads to the server, unless *)
(* the configuration names an external host and no port.                   *)
THEOREM ServerUrlIsServed == Spec => []UrlIsServed
<1>1. ASSUME ServerInv PROVE UrlIsServed
  <2>. SUFFICES ASSUME pc = "running"
                PROVE  /\ mWebSocketServer # None /\ Url.tls = mWebSocketServer.tls
                       /\ callback = "idle" /\ ~ PublishesAnyPort
                            => <<Url.host, Url.port>> \in Served
    BY DEF UrlIsServed
  <2>1. /\ mWebSocketServer # None /\ mWebSocketServer.tls = mTlsEnabled
        /\ mWebSocketServer.port \in Nat \ {0}
    BY <1>1 DEF ServerInv, ServerStands, WebSocketServer
  <2>2. /\ Url.tls = mTlsEnabled /\ Url.host = value_or(mExternalHost, LocalAddress)
        /\ Url.port = value_or(mExternalPort, mWebSocketServer.port)
    BY DEF Url
  <2>3. None \notin Nat \cup Host /\ Port \subseteq Nat
    BY ServerAssumption
  <2>. SUFFICES ASSUME callback = "idle", ~ PublishesAnyPort
                PROVE  <<Url.host, Url.port>> \in Served
    BY <2>1, <2>2
  <2>4. CASE external = <<None, None>>
    BY <2>2, <2>4 DEF external, value_or, Served
  <2>5. CASE config.externalHost # None
    <3>1. mExternalHost \in (IF config.pem THEN {config.externalHost} ELSE Host)
          /\ mExternalPort = value_or(config.externalPort, config.port)
      BY <1>1, <2>5 DEF ServerInv, External
    <3>2. /\ config.externalHost \in Host /\ config.port \in Nat
          /\ config.externalPort \in Nat \cup {None}
      BY <1>1, <2>3, <2>5 DEF ServerInv, TypeOK, Configuration
    <3>3. mExternalHost \in Host
      BY <3>1, <3>2
    <3>4. mExternalPort \in Nat /\ mExternalPort # 0
      BY <2>5, <3>1, <3>2 DEF PublishesAnyPort, value_or
    <3>5. Url.host = mExternalHost /\ Url.port = mExternalPort
      BY <2>2, <2>3, <3>3, <3>4 DEF value_or
    <3>6. mExternalPort = value_or(config.externalPort, mWebSocketServer.port)
      <4>1. CASE config.externalPort = None
        <5>1. config.port # 0 /\ mExternalPort = config.port
          BY <3>1, <3>4, <4>1 DEF value_or
        <5>2. mWebSocketServer.port = config.port
          BY <1>1, <2>5, <5>1 DEF ServerInv, HostIsConfigured
        <5>. QED BY <4>1, <5>1, <5>2 DEF value_or
      <4>2. CASE config.externalPort # None
        BY <3>1, <4>2 DEF value_or
      <4>. QED BY <4>1, <4>2
    <3>. QED BY <2>5, <3>1, <3>5, <3>6 DEF Served
  <2>6. CASE /\ config.externalHost = None /\ report \in Success /\ mapping # None
             /\ external = <<report.host, report.port>>
    <3>1. report.host \in Host /\ report.port \in Nat
      BY <2>3, <2>6 DEF Success
    <3>2. Url.host = report.host /\ Url.port = report.port
      BY <2>2, <2>3, <2>6, <3>1 DEF external, value_or
    <3>3. mapping = mWebSocketServer.port
      BY <1>1, <2>6, <3>1 DEF ServerInv, MappingIsKnown
    <3>. QED BY <2>6, <3>2, <3>3 DEF Served
  <2>. QED BY <1>1, <2>4, <2>5, <2>6 DEF ServerInv, External
<1>. QED BY <1>1, ServerInvHolds, PTL

(* createWebSocketServer in the callback keeps to the port that was given  *)
(* to plum_create_mapping, whatever port that was.                         *)
THEOREM ServerMappedPortIsServed == Spec => []MappedPortIsServed
<1>1. ServerInv => MappedPortIsServed
  BY DEF ServerInv, MappingIsKnown, MappedPortIsServed
<1>. QED BY <1>1, ServerInvHolds, PTL

(* Only a report that comes before the constructor has stored mMappingId   *)
(* is missed by PlumMappingCallback.                                       *)
THEOREM ServerLastReportIsPublished == Spec => []LastReportIsPublished
<1>1. ServerInv => LastReportIsPublished
  BY DEF ServerInv
<1>. QED BY <1>1, ServerInvHolds, PTL

=============================================================================
