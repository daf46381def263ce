------------------------------- MODULE Server -------------------------------
(***************************************************************************)
(* The WebSocket server of a node and the URL under which it can be        *)
(* reached (src/src/impl/server.cpp): the constructor on the main thread,  *)
(* which starts the server and asks libplum to map its port, and the       *)
(* callback on libplum's thread, which restarts it with the certificate of *)
(* the mapping and publishes the external address.                         *)
(*                                                                         *)
(* createWebSocketServer and updateExternal hold mMutex, each for itself:  *)
(* they are the steps of both threads.  An exception in the callback has   *)
(* no handler and ends the process.                                        *)
(***************************************************************************)
EXTENDS Integers

CONSTANTS
    Port,           \* ports that are configured or mapped, 0 is any port
    Ephemeral,      \* the port that the system gives for 0
    Host,           \* host names that are configured or mapped
    LocalAddress,   \* what GetLocalAddress returns
    MaxReports,     \* bound on the calls of the callback
    None            \* nullopt, nullptr

ASSUME ServerAssumption ==
    /\ Port \subseteq Nat /\ Ephemeral \in Nat \ {0}
    /\ MaxReports \in Nat
    /\ None \notin Nat \cup Host /\ LocalAddress # None

(* Configuration; pem stands for tlsPemCertificate and tlsPemKey.          *)
Configuration == [port : Port, externalHost : Host \cup {None},
                  externalPort : Port \cup {None}, pem : BOOLEAN]

(* rtc::WebSocketServer: the port that it listens on.                      *)
WebSocketServer == [port : Nat \ {0}, tls : BOOLEAN]

(* A report of libplum: the mapping works, or does not.                    *)
Success == [state : {"success"}, host : Host, port : Port \ {0}]
Failure == [state |-> "failure"]

VARIABLES
    config,
    pc,             \* the next step of the constructor, or what became of it
    mMappingId,
    mWebSocketServer,
    mTlsEnabled,
    mExternalHost, mExternalPort,
    mapping,        \* libplum: the internal port of the mapping
    callback,       \* the next step of the callback
    report,         \* the last report of libplum
    early,          \* it came before the constructor returned
    reports         \* number of reports

vars == <<config, pc, mMappingId, mWebSocketServer, mTlsEnabled, mExternalHost,
          mExternalPort, mapping, callback, report, early, reports>>

TypeOK ==
    /\ config \in Configuration
    /\ pc \in {"init", "listen", "external", "map", "assign", "running",
               "failed", "destroyed", "terminated"}
    /\ mMappingId \in {-1, 0}
    /\ mWebSocketServer \in WebSocketServer \cup {None}
    /\ mTlsEnabled \in BOOLEAN
    /\ mExternalHost \in Host \cup {None}
    /\ mExternalPort \in Port \cup {None}
    /\ mapping \in (Nat \ {0}) \cup {None}
    /\ callback \in {"idle", "check", "create", "update"}
    /\ report \in Success \cup {Failure, None}
    /\ early \in BOOLEAN
    /\ reports \in 0..MaxReports

(* mTlsEnabled is not initialized.                                         *)
Init ==
    /\ config \in Configuration
    /\ pc = "init"
    /\ mMappingId = -1
    /\ mWebSocketServer = None /\ mTlsEnabled \in BOOLEAN
    /\ mExternalHost = None /\ mExternalPort = None
    /\ mapping = None
    /\ callback = "idle" /\ report = None /\ early = FALSE /\ reports = 0

value_or(optional, default) == IF optional = None THEN default ELSE optional

external == <<mExternalHost, mExternalPort>>
plum == <<callback, report, early, reports>>

-----------------------------------------------------------------------------
(* plum_init, which may fail.                                              *)
PlumInit ==
    /\ pc = "init"
    /\ pc' \in {"listen", "failed"}
    /\ UNCHANGED <<config, mMappingId, mWebSocketServer, mTlsEnabled, external,
                   mapping, plum>>

(* createWebSocketServer, with a certificate or without one, that ends in  *)
(* an exception when the port is taken.                                    *)
createWebSocketServerOnly(port, tls) ==
    /\ mWebSocketServer' \in
         {None, [port |-> IF port = 0 THEN Ephemeral ELSE port, tls |-> tls]}
    /\ UNCHANGED mTlsEnabled

createWebSocketServer(port, tls) ==
    /\ mTlsEnabled' = tls
    /\ mWebSocketServer' \in
         {None, [port |-> IF port = 0 THEN Ephemeral ELSE port, tls |-> tls]}

updateExternal(host, port) == mExternalHost' = host /\ mExternalPort' = port

(* GetPlumCertificatePair: libplum may have no certificate.                *)
GetPlumCertificatePair == BOOLEAN

(* The constructor's server: with an external host it has the certificate  *)
(* of the configuration or else libplum's.                                 *)
Listen ==
    /\ pc = "listen"
    /\ \E tls \in IF config.externalHost = None THEN {FALSE}
                  ELSE IF config.pem THEN {TRUE} ELSE GetPlumCertificatePair :
         createWebSocketServer(config.port, tls)
    /\ pc' = IF mWebSocketServer' = None THEN "failed"
             ELSE IF config.externalHost = None THEN "map" ELSE "external"
    /\ UNCHANGED <<config, mMappingId, external, mapping, plum>>

(* The host may be replaced by its name in the dummy TLS domain.           *)
UpdateExternal ==
    /\ pc = "external"
    /\ \E host \in IF config.pem THEN {config.externalHost} ELSE Host :
         updateExternal(host, value_or(config.externalPort, config.port))
    /\ pc' = "running"
    /\ UNCHANGED <<config, mMappingId, mWebSocketServer, mTlsEnabled, mapping, plum>>

(* plum_create_mapping: libplum knows the mapping from here on.            *)
CreateMappingConfigured ==
    /\ pc = "map"
    /\ \/ mapping' = config.port /\ pc' = "assign"
       \/ mapping' = mapping /\ pc' = "failed"
    /\ UNCHANGED <<config, mMappingId, mWebSocketServer, mTlsEnabled, external, plum>>

CreateMapping ==
    /\ pc = "map"
    /\ \/ mapping' = mWebSocketServer.port /\ pc' = "assign"
       \/ mapping' = mapping /\ pc' = "failed"
    /\ UNCHANGED <<config, mMappingId, mWebSocketServer, mTlsEnabled, external, plum>>

(* The constructor stores the identifier that it returned.                 *)
AssignMappingId ==
    /\ pc = "assign"
    /\ mMappingId' = 0
    /\ pc' = "running"
    /\ UNCHANGED <<config, mWebSocketServer, mTlsEnabled, external, mapping, plum>>

(* libplum calls PlumMappingCallback.                                      *)
Report(new) ==
    /\ mapping # None /\ callback = "idle" /\ reports < MaxReports
    /\ pc \in {"assign", "running"}
    /\ callback' = "check"
    /\ report' = new
    /\ early' = (pc = "assign")
    /\ reports' = reports + 1
    /\ UNCHANGED <<config, pc, mMappingId, mWebSocketServer, mTlsEnabled, external,
                   mapping>>

(* A report for another mapping than mMappingId is ignored.                *)
CheckMappingId ==
    /\ callback = "check" /\ pc \in {"assign", "running"}
    /\ callback' = IF mMappingId # 0 THEN "idle"
                   ELSE IF report = Failure THEN "update" ELSE "create"
    /\ UNCHANGED <<config, pc, mMappingId, mWebSocketServer, mTlsEnabled, external,
                   mapping, report, early, reports>>

Restart ==
    /\ callback = "create" /\ pc = "running"
    /\ \E tls \in GetPlumCertificatePair : createWebSocketServer(mapping, tls)
    /\ IF mWebSocketServer' = None
       THEN pc' = "terminated" /\ callback' = "idle"
       ELSE callback' = "update" /\ UNCHANGED pc
    /\ UNCHANGED <<config, mMappingId, external, mapping, report, early, reports>>

PublishSuccess ==
    /\ callback = "update" /\ pc = "running"
    /\ IF report = Failure THEN UNCHANGED external
       ELSE updateExternal(report.host, report.port)
    /\ callback' = "idle"
    /\ UNCHANGED <<config, pc, mMappingId, mWebSocketServer, mTlsEnabled, mapping,
                   report, early, reports>>

Publish ==
    /\ callback = "update" /\ pc = "running"
    /\ IF report = Failure THEN updateExternal(None, None)
       ELSE updateExternal(report.host, report.port)
    /\ callback' = "idle"
    /\ UNCHANGED <<config, pc, mMappingId, mWebSocketServer, mTlsEnabled, mapping,
                   report, early, reports>>

(* The destructor; plum_cleanup waits for a callback that runs.            *)
Destroy ==
    /\ pc = "running" /\ callback = "idle"
    /\ pc' = "destroyed" /\ mapping' = None /\ mWebSocketServer' = None
    /\ UNCHANGED <<config, mMappingId, mTlsEnabled, external, plum>>

Next ==
    \/ PlumInit \/ Listen \/ UpdateExternal \/ CreateMapping \/ AssignMappingId
    \/ \E new \in Success \cup {Failure} : Report(new)
    \/ CheckMappingId \/ Restart \/ Publish
    \/ Destroy

Spec == Init /\ [][Next]_vars

-----------------------------------------------------------------------------
(* generateUrl, when there is a server.                                    *)
Url == [tls |-> mTlsEnabled,
        host |-> value_or(mExternalHost, LocalAddress),
        port |-> value_or(mExternalPort, mWebSocketServer.port)]

(* The addresses that lead to the server: its own in the local network,    *)
(* the one of the mapping of its port in the last report of libplum, and   *)
(* the external one of the configuration, whose port is the server's if    *)
(* none is given.  A name in the dummy TLS domain stands for the host.     *)
Served ==
    {<<LocalAddress, mWebSocketServer.port>>}
    \cup {<<new.host, new.port>> :
            new \in IF mapping = mWebSocketServer.port THEN {report} \cap Success ELSE {}}
    \cup (IF config.externalHost = None THEN {}
          ELSE (IF config.pem THEN {config.externalHost} ELSE Host)
               \X {value_or(config.externalPort, mWebSocketServer.port)})

(* The configurations in which the constructor publishes port 0: it is     *)
(* given an external host and may take any port.                           *)
PublishesAnyPort ==
    config.externalHost # None /\ value_or(config.externalPort, config.port) = 0

(* From the end of the constructor to the destructor url() never throws,   *)
(* although the callback stops and starts the server, and the scheme is    *)
(* the one that the server speaks; once the callback has dealt with the    *)
(* last report, the host and the port are an address that leads to the     *)
(* server, with the exception that PublishesAnyPort names: there the URL   *)
(* has port 0, whatever port the server listens on.                        *)
UrlIsServed ==
    pc = "running" =>
      /\ mWebSocketServer # None /\ Url.tls = mWebSocketServer.tls
      /\ callback = "idle" => <<Url.host, Url.port>> \in Served \/ PublishesAnyPort

(* The port that libplum forwards to is the one that the server listens    *)
(* on, also when the system chose it and after every restart.              *)
MappedPortIsServed ==
    pc = "running" /\ mapping # None => mWebSocketServer.port = mapping

(* Once the callback has returned, the external address is the one of the  *)
(* last report, or none after a failure; a report is only missed if it     *)
(* comes before the constructor has stored mMappingId.                     *)
LastReportIsPublished ==
    pc = "running" /\ callback = "idle" /\ report # None /\ ~early =>
      external = IF report = Failure THEN <<None, None>>
                 ELSE <<report.host, report.port>>

=============================================================================
