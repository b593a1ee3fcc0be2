------------------------------ MODULE DnsServer ------------------------------
(***************************************************************************)
(* Who starts and stops the DNS listeners: the reload of the settings after *)
(* a request (runtime.go), the controller DNSServerThread (dns.go), the     *)
(* goroutine that runs one server (dns/server/server.go), and the shutdown  *)
(* (start.go, main.go).                                                     *)
(*                                                                          *)
(* What happens under serverLifecycleMu is one step: nothing the others do  *)
(* in the meantime depends on it or can be seen by it, except that a socket *)
(* opens, which might as well happen just before or after.  The sockets of  *)
(* the DNS library open in steps of their own, because ListenAndServe is    *)
(* called after the lock is released (UDP) or in a goroutine (TCP).         *)
(* A server is known by its number, 0 stands for nil.                       *)
(***************************************************************************)
EXTENDS Integers, Sequences

CONSTANTS
    Handlers,   \* requests that reload the runtime, at the same time
    MaxStarts,  \* bound on the goroutines that run a server
    MaxPosts    \* bound on the requests

ASSUME DnsAssumption == MaxStarts \in Nat /\ MaxPosts \in Nat

Servers == 1..MaxStarts

VARIABLES
    setting,    \* the stored enable_dns_server
    channel,    \* DNSServerChannel, a buffer of one message
    handler,    \* where a reload is, and the message it sends
    posts,
    controller, \* where DNSServerThread is
    serverDone, \* the goroutine it will join
    leaving,    \* it stops the server to return
    started,    \* the goroutines started so far
    run,        \* where each of them is
    server, tcpServer, mdnsBrowser, serverRunning,
    udp, tcp,   \* the sockets of each server
    browsing,   \* the mDNS browsers at work
    ctxDone,    \* the service was told to stop
    stopper,    \* where application.Stop is
    late,       \* its context has expired
    stopErr

requests == <<setting, channel, handler, posts>>
control == <<controller, serverDone, leaving, started>>
handles == <<server, tcpServer, mdnsBrowser, serverRunning>>
sockets == <<udp, tcp, browsing>>
shutdown == <<ctxDone, stopper, late, stopErr>>
vars == <<requests, control, run, handles, sockets, shutdown>>

StartMsg == 1
StopMsg == 2
Socket == {"none", "new", "up", "down"}

-----------------------------------------------------------------------------
(* Reloading the runtime *)

\* A request stores the setting, or another one and leaves this as it is.
PostSettings(h, v) ==
    /\ handler[h].pc = "idle" /\ posts < MaxPosts /\ stopper = "off"
    /\ setting' = v /\ posts' = posts + 1
    /\ handler' = [handler EXCEPT ![h].pc = "init"]
    /\ UNCHANGED <<channel, control, run, handles, sockets, shutdown>>

\* Init reads it back, perhaps after another request has changed it.
ReadSetting(h) ==
    /\ handler[h].pc = "init"
    /\ handler' = [handler EXCEPT ![h] = [pc |-> "send", msg |-> IF setting THEN StartMsg ELSE StopMsg]]
    /\ UNCHANGED <<setting, channel, posts, control, run, handles, sockets, shutdown>>

\* It waits while the buffer is full.
Send(h) ==
    /\ handler[h].pc = "send" /\ channel = <<>>
    /\ channel' = <<handler[h].msg>>
    /\ handler' = [handler EXCEPT ![h].pc = "idle"]
    /\ UNCHANGED <<setting, posts, control, run, handles, sockets, shutdown>>

-----------------------------------------------------------------------------
(* The controller *)

\* startServer does nothing when there is a goroutine to join, even one that
\* has ended because its port was taken.
StartServer ==
    /\ controller = "select" /\ channel # <<>> /\ Head(channel) = StartMsg
    /\ channel' = Tail(channel)
    /\ \/ /\ serverDone # 0 /\ UNCHANGED <<control, run>>
       \/ /\ serverDone = 0 /\ started < MaxStarts
          /\ started' = started + 1 /\ serverDone' = started + 1
          /\ run' = [run EXCEPT ![started + 1] = "start"]
          /\ controller' = "ready" /\ UNCHANGED leaving
    /\ UNCHANGED <<setting, handler, posts, handles, sockets, shutdown>>

\* <-ready
Ready ==
    /\ controller = "ready" /\ run[serverDone] \notin {"start", "publish", "already"}
    /\ controller' = "select"
    /\ UNCHANGED <<requests, serverDone, leaving, started, run, handles, sockets, shutdown>>

StopMessage ==
    /\ controller = "select" /\ channel # <<>> /\ Head(channel) = StopMsg
    /\ channel' = Tail(channel)
    /\ controller' = IF serverDone = 0 THEN "select" ELSE "stop"
    /\ UNCHANGED <<setting, handler, posts, serverDone, leaving, started, run, handles, sockets, shutdown>>

\* Mutant: the controller leaves the server to application.Stop.
CtxDoneReturns ==
    /\ controller = "select" /\ ctxDone
    /\ leaving' = TRUE /\ serverDone' = 0 /\ controller' = "ended"
    /\ UNCHANGED <<requests, started, run, handles, sockets, shutdown>>

CtxDone ==
    /\ controller = "select" /\ ctxDone
    /\ leaving' = TRUE
    /\ controller' = IF serverDone = 0 THEN "ended" ELSE "stop"
    /\ UNCHANGED <<requests, serverDone, started, run, handles, sockets, shutdown>>

\* The library's Shutdown fails for a server that does not listen (yet).
Shutdown(s, socket) ==
    IF s # 0 /\ socket[s] = "up" THEN [socket EXCEPT ![s] = "down"] ELSE socket

\* Does nothing while no server is published.
StopDNSServer ==
    IF server = 0 \/ ~serverRunning
    THEN UNCHANGED <<handles, sockets>>
    ELSE /\ browsing' = browsing \ {mdnsBrowser}
         /\ tcp' = Shutdown(tcpServer, tcp) /\ udp' = Shutdown(server, udp)
         /\ mdnsBrowser' = 0 /\ tcpServer' = 0 /\ server' = 0
         /\ serverRunning' = FALSE

StopServer ==
    /\ controller = "stop" /\ StopDNSServer
    /\ controller' = "join"
    /\ UNCHANGED <<requests, serverDone, leaving, started, run, shutdown>>

\* Mutant: the controller does not wait for the goroutine.
JoinAtOnce ==
    /\ controller = "join"
    /\ serverDone' = 0
    /\ controller' = IF leaving THEN "ended" ELSE "select"
    /\ UNCHANGED <<requests, leaving, started, run, handles, sockets, shutdown>>

Join ==
    /\ controller = "join" /\ run[serverDone] = "ended"
    /\ serverDone' = 0
    /\ controller' = IF leaving THEN "ended" ELSE "select"
    /\ UNCHANGED <<requests, leaving, started, run, handles, sockets, shutdown>>

-----------------------------------------------------------------------------
(* The goroutine of one server *)

\* With the lock held: the listeners are made and published.  mdns is the
\* setting mdns_browser_enabled.
Publish(s, mdns) ==
    /\ run[s] = "start"
    /\ IF server # 0 \/ serverRunning
       THEN run' = [run EXCEPT ![s] = "already"] /\ UNCHANGED <<handles, sockets>>
       ELSE /\ run' = [run EXCEPT ![s] = "publish"]
            /\ server' = s /\ tcpServer' = s /\ serverRunning' = TRUE
            /\ udp' = [udp EXCEPT ![s] = "new"] /\ tcp' = [tcp EXCEPT ![s] = "new"]
            /\ mdnsBrowser' = IF mdns THEN s ELSE mdnsBrowser
            /\ browsing' = IF mdns THEN browsing \cup {s} ELSE browsing
    /\ UNCHANGED <<requests, control, shutdown>>

\* close(ready); a goroutine that found another server asks for a refresh of the
\* block lists and returns.
CloseReady(s) ==
    /\ run[s] \in {"publish", "already"}
    /\ run' = [run EXCEPT ![s] = IF @ = "publish" THEN "listen" ELSE "ended"]
    /\ UNCHANGED <<requests, control, handles, sockets, shutdown>>

\* ListenAndServe opens the socket, unless the port is taken by another socket
\* or another program, and serves until it is shut down.
ListenUDP(s) ==
    /\ run[s] = "listen" /\ udp[s] = "new"
    /\ \/ /\ \A t \in Servers : udp[t] # "up"
          /\ udp' = [udp EXCEPT ![s] = "up"]
       \/ udp' = [udp EXCEPT ![s] = "down"]
    /\ UNCHANGED <<requests, control, run, handles, tcp, browsing, shutdown>>

ListenTCP(s) ==
    /\ tcp[s] = "new"
    /\ \/ /\ \A t \in Servers : tcp[t] # "up"
          /\ tcp' = [tcp EXCEPT ![s] = "up"]
       \/ tcp' = [tcp EXCEPT ![s] = "down"]
    /\ UNCHANGED <<requests, control, run, handles, udp, browsing, shutdown>>

\* After ListenAndServe has returned, with the lock held.  The mDNS browser
\* is not stopped here.
ServeEnds(s) ==
    /\ run[s] = "listen" /\ udp[s] = "down"
    /\ run' = [run EXCEPT ![s] = "ended"]
    /\ IF server = s
       THEN /\ server' = 0 /\ serverRunning' = FALSE
            /\ tcp' = IF tcpServer = s THEN Shutdown(s, tcp) ELSE tcp
            /\ tcpServer' = IF tcpServer = s THEN 0 ELSE tcpServer
       ELSE UNCHANGED <<server, serverRunning, tcp, tcpServer>>
    /\ UNCHANGED <<requests, control, mdnsBrowser, udp, browsing, shutdown>>

-----------------------------------------------------------------------------
(* The shutdown *)

\* The service manager stops the program.
Cancel ==
    /\ ~ctxDone /\ ctxDone' = TRUE
    /\ UNCHANGED <<requests, control, run, handles, sockets, stopper, late, stopErr>>

\* main calls Stop when the context is done, or when a later part of the start
\* has failed and the controller is not told.
StopBegins ==
    /\ stopper = "off" /\ stopper' = "web"
    /\ UNCHANGED <<requests, control, run, handles, sockets, ctxDone, late, stopErr>>

Expires ==
    /\ stopper \notin {"off", "ended"} /\ ~late /\ late' = TRUE
    /\ UNCHANGED <<requests, control, run, handles, sockets, ctxDone, stopper, stopErr>>

Idle == \A h \in Handlers : handler[h].pc = "idle"

\* The web server waits for its requests, or gives up on them.
WebShutdown ==
    /\ stopper = "web" /\ stopper' = "dns"
    /\ \/ Idle /\ UNCHANGED stopErr
       \/ late /\ stopErr' = TRUE
    /\ UNCHANGED <<requests, control, run, handles, sockets, ctxDone, late>>

DnsShutdown ==
    /\ stopper = "dns" /\ stopper' = "wait" /\ StopDNSServer
    /\ UNCHANGED <<requests, control, run, ctxDone, late, stopErr>>

AwaitController ==
    /\ stopper = "wait" /\ stopper' = "logger"
    /\ \/ controller = "ended" /\ UNCHANGED stopErr
       \/ late /\ stopErr' = TRUE
    /\ UNCHANGED <<requests, control, run, handles, sockets, ctxDone, late>>

\* StopPolicyEnforcement (TailscaleManager has its Stop), then the logger,
\* whose flush or close may fail.
LoggerClose ==
    /\ stopper = "logger" /\ stopper' = "ended"
    /\ stopErr' \in {stopErr, TRUE}
    /\ UNCHANGED <<requests, control, run, handles, sockets, ctxDone, late>>

-----------------------------------------------------------------------------
\* Start has put the first message into the channel.
Init ==
    /\ setting \in BOOLEAN /\ channel = <<IF setting THEN StartMsg ELSE StopMsg>>
    /\ handler = [h \in Handlers |-> [pc |-> "idle", msg |-> StopMsg]] /\ posts = 0
    /\ controller = "select" /\ serverDone = 0 /\ leaving = FALSE /\ started = 0
    /\ run = [s \in Servers |-> "none"]
    /\ server = 0 /\ tcpServer = 0 /\ mdnsBrowser = 0 /\ serverRunning = FALSE
    /\ udp = [s \in Servers |-> "none"] /\ tcp = udp /\ browsing = {}
    /\ ctxDone = FALSE /\ stopper = "off" /\ late = FALSE /\ stopErr = FALSE

Reload == \E h \in Handlers : ReadSetting(h) \/ Send(h) \/ \E v \in BOOLEAN : PostSettings(h, v)
Controller == StartServer \/ Ready \/ StopMessage \/ CtxDone \/ StopServer \/ Join
Serve(s) == CloseReady(s) \/ ListenUDP(s) \/ ServeEnds(s) \/ \E mdns \in BOOLEAN : Publish(s, mdns)
Stop == StopBegins \/ Expires \/ WebShutdown \/ DnsShutdown \/ AwaitController \/ LoggerClose

Next ==
    \/ Reload \/ Controller \/ Cancel \/ Stop
    \/ \E s \in Servers : Serve(s) \/ ListenTCP(s)

Spec == Init /\ [][Next]_vars

\* Every goroutine that can go on does; nobody has to post or stop anything.
FairSpec ==
    /\ Spec /\ WF_vars(Controller)
    /\ \A s \in Servers : WF_vars(Serve(s)) /\ WF_vars(ListenTCP(s))

-----------------------------------------------------------------------------
(* Properties *)

RequestsOK ==
    /\ setting \in BOOLEAN /\ channel \in {<<>>, <<StartMsg>>, <<StopMsg>>}
    /\ handler \in [Handlers -> [pc : {"idle", "init", "send"}, msg : {StartMsg, StopMsg}]]
    /\ posts \in 0..MaxPosts

HandlesOK ==
    /\ started \in 0..MaxStarts /\ serverDone \in 0..started
    /\ server \in 0..started /\ tcpServer \in 0..started /\ mdnsBrowser \in 0..started

SocketsOK ==
    /\ run \in [Servers -> {"none", "start", "publish", "already", "listen", "ended"}]
    /\ udp \in [Servers -> Socket] /\ tcp \in [Servers -> Socket] /\ browsing \subseteq Servers

ControlOK ==
    /\ controller \in {"select", "ready", "stop", "join", "ended"} /\ leaving \in BOOLEAN
    /\ serverRunning \in BOOLEAN
    /\ stopper \in {"off", "web", "dns", "wait", "logger", "ended"}
    /\ ctxDone \in BOOLEAN /\ late \in BOOLEAN /\ stopErr \in BOOLEAN

\* The channel, the handles, the sockets and the places the goroutines are at
\* keep their types; a handle names a server that was started.
TypeOK == RequestsOK /\ HandlesOK /\ SocketsOK /\ ControlOK

Live == {s \in Servers : run[s] \notin {"none", "ended"}}

\* serverDone, server, tcpServer and serverRunning are kept by three goroutines
\* under different locks or none.  They never disagree: at most one goroutine
\* runs a server and it is the one the controller will join, the handles are
\* both its or both gone, and a start never finds the server of an earlier one.
OneServer ==
    /\ Live \subseteq {serverDone}
    /\ (serverRunning <=> server # 0) /\ tcpServer = server
    /\ server # 0 => run[server] \in {"publish", "listen"} /\ udp[server] # "none"
    /\ \A s \in Servers : run[s] = "start" => server = 0

\* A shutdown that reports no error has waited for everybody: no request is
\* still reloading, the controller has returned and no UDP listener is open.
CleanStop ==
    stopper = "ended" /\ ~stopErr =>
        Idle /\ controller = "ended" /\ Live = {} /\ \A s \in Servers : udp[s] # "up"

\* "closes ready after the listener handles are published, allowing a
\* controller to stop and join this blocking server safely" (server.go:484):
\* a controller that waits for its server to end is not left waiting.
StopJoins == controller = "join" ~> controller # "join"
=============================================================================
