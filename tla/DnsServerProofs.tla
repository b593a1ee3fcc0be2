--------------------------- MODULE DnsServerProofs ---------------------------
(***************************************************************************)
(* OneServer and CleanStop hold for any number of requests and servers.     *)
(* OneServer is nearly inductive: it lacks that the controller joins the    *)
(* goroutine it started last (Joining).  CleanStop needs what the shutdown  *)
(* has seen at each of its steps to stay that way (Stopping), and that a    *)
(* UDP socket is only open while its goroutine serves (Open).               *)
(***************************************************************************)
EXTENDS DnsServer, TLAPS

Joining ==
    /\ controller \in {"ready", "stop", "join"} => serverDone # 0
    /\ controller = "ended" => serverDone = 0
    /\ \A s \in Servers : s > started => run[s] = "none"

Open == \A s \in Servers : udp[s] = "up" => run[s] = "listen"

Stopping ==
    /\ ~stopErr /\ stopper \notin {"off", "web"} => Idle
    /\ ~stopErr /\ stopper \in {"logger", "ended"} => controller = "ended"

IInv == TypeOK /\ OneServer /\ Joining /\ Open /\ Stopping

\* What Init sets up satisfies the inductive invariant.
LEMMA InitIInv == Init => IInv
  <1> SUFFICES ASSUME Init PROVE IInv
    OBVIOUS
  <1> USE DnsAssumption DEF Init
  <1>1. TypeOK
    <2>1. channel \in {<<>>, <<StartMsg>>, <<StopMsg>>}
      <3>1. CASE setting
        BY <3>1
      <3>2. CASE ~setting
        BY <3>2
      <3> QED BY <3>1, <3>2
    <2>2. RequestsOK
      BY <2>1 DEF RequestsOK, StartMsg, StopMsg
    <2>3. HandlesOK
      BY DEF HandlesOK
    <2>4. SocketsOK
      BY DEF SocketsOK, Socket
    <2>5. ControlOK
      BY DEF ControlOK
    <2> QED BY <2>2, <2>3, <2>4, <2>5 DEF TypeOK
  <1>2. OneServer /\ Open
    BY DEF OneServer, Open, Live
  <1>3. Joining /\ Stopping
    BY DEF Joining, Stopping
  <1> QED BY <1>1, <1>2, <1>3 DEF IInv

\* No controller, no server: with nothing to join there is no goroutine and
\* no handle.
LEMMA NothingToJoin ==
    ASSUME IInv, serverDone = 0
    PROVE  server = 0 /\ Live = {}
  <1>1. Live = {}
    BY DEF IInv, OneServer, Live, Servers
  <1>2. server = 0
    BY <1>1, DnsAssumption DEF IInv, OneServer, TypeOK, HandlesOK, SocketsOK, Live, Servers
  <1> QED BY <1>1, <1>2

\* Shutting a socket down never opens one.
LEMMA ShutdownOpensNone ==
    ASSUME NEW n, NEW sock \in [Servers -> Socket]
    PROVE  /\ Shutdown(n, sock) \in [Servers -> Socket]
           /\ \A s \in Servers : /\ Shutdown(n, sock)[s] = "up" => sock[s] = "up"
                                 /\ Shutdown(n, sock)[s] = "none" <=> sock[s] = "none"
  BY DEF Shutdown, Socket

\* StopDNSServer forgets the handles, whoever calls it, and opens no socket.
LEMMA StopForgets ==
    ASSUME IInv, StopDNSServer
    PROVE  /\ server' = 0 /\ tcpServer' = 0 /\ serverRunning' = FALSE
           /\ mdnsBrowser' \in 0..started /\ browsing' \subseteq Servers
           /\ udp' \in [Servers -> Socket] /\ tcp' \in [Servers -> Socket]
           /\ \A s \in Servers : udp'[s] = "up" => udp[s] = "up"
  <1>1. CASE server = 0 \/ ~serverRunning
    BY <1>1 DEF StopDNSServer, IInv, OneServer, TypeOK, HandlesOK, SocketsOK, handles, sockets
  <1>2. CASE ~(server = 0 \/ ~serverRunning)
    BY <1>2, ShutdownOpensNone DEF StopDNSServer, IInv, TypeOK, HandlesOK, SocketsOK
  <1> QED BY <1>1, <1>2

\* Every step of a reload, of the controller, of a server and of the shutdown
\* keeps the invariant.
LEMMA NextIInv == IInv /\ [Next]_vars => IInv'
  <1> SUFFICES ASSUME IInv, [Next]_vars PROVE IInv'
    OBVIOUS
  <1> USE DnsAssumption DEF requests, control, handles, sockets, shutdown
  <1>1. ASSUME NEW h \in Handlers, NEW v \in BOOLEAN, PostSettings(h, v) PROVE IInv'
    <2>1. HandlesOK' /\ SocketsOK' /\ ControlOK' /\ OneServer' /\ Open' /\ Joining'
      BY <1>1 DEF PostSettings, IInv, TypeOK, HandlesOK, SocketsOK, ControlOK, OneServer, Open, Live,
         Joining
    <2>2. RequestsOK'
      BY <1>1 DEF PostSettings, IInv, TypeOK, RequestsOK
    <2>3. Stopping'
      BY <1>1 DEF PostSettings, IInv, TypeOK, RequestsOK, ControlOK, Stopping, Idle
    <2> QED BY <2>1, <2>2, <2>3 DEF IInv, TypeOK
  <1>2. ASSUME NEW h \in Handlers, ReadSetting(h) PROVE IInv'
    <2>1. HandlesOK' /\ SocketsOK' /\ ControlOK' /\ OneServer' /\ Open' /\ Joining'
      BY <1>2 DEF ReadSetting, IInv, TypeOK, HandlesOK, SocketsOK, ControlOK, OneServer, Open, Live,
         Joining
    <2>2. RequestsOK'
      BY <1>2 DEF ReadSetting, IInv, TypeOK, RequestsOK
    <2>3. Stopping'
      BY <1>2 DEF ReadSetting, IInv, TypeOK, RequestsOK, ControlOK, Stopping, Idle
    <2> QED BY <2>1, <2>2, <2>3 DEF IInv, TypeOK
  <1>3. ASSUME NEW h \in Handlers, Send(h) PROVE IInv'
    <2>1. HandlesOK' /\ SocketsOK' /\ ControlOK' /\ OneServer' /\ Open' /\ Joining'
      BY <1>3 DEF Send, IInv, TypeOK, HandlesOK, SocketsOK, ControlOK, OneServer, Open, Live, Joining
    <2>2. RequestsOK'
      BY <1>3 DEF Send, IInv, TypeOK, RequestsOK
    <2>3. Stopping'
      BY <1>3 DEF Send, IInv, TypeOK, RequestsOK, ControlOK, Stopping, Idle
    <2> QED BY <2>1, <2>2, <2>3 DEF IInv, TypeOK
  <1>4. CASE StartServer
    <2>1. RequestsOK'
      BY <1>4 DEF StartServer, IInv, TypeOK, RequestsOK
    <2>2. HandlesOK'
      BY <1>4 DEF StartServer, IInv, TypeOK, HandlesOK
    <2>3. SocketsOK'
      BY <1>4 DEF StartServer, IInv, TypeOK, HandlesOK, SocketsOK, Servers
    <2>4. ControlOK'
      BY <1>4 DEF StartServer, IInv, TypeOK, ControlOK
    <2>5. OneServer' /\ Open'
      BY <1>4, NothingToJoin DEF StartServer, IInv, TypeOK, HandlesOK, SocketsOK, OneServer, Open,
         Live, Servers
    <2>6. Joining'
      BY <1>4 DEF StartServer, IInv, TypeOK, HandlesOK, SocketsOK, ControlOK, Joining, Servers
    <2>7. Stopping'
      BY <1>4 DEF StartServer, IInv, TypeOK, RequestsOK, ControlOK, Stopping, Idle
    <2> QED BY <2>1, <2>2, <2>3, <2>4, <2>5, <2>6, <2>7 DEF IInv, TypeOK
  <1>5. CASE Ready
    <2>1. RequestsOK' /\ HandlesOK' /\ SocketsOK' /\ OneServer' /\ Open'
      BY <1>5 DEF Ready, IInv, TypeOK, RequestsOK, HandlesOK, SocketsOK, OneServer, Open, Live
    <2>2. ControlOK'
      BY <1>5 DEF Ready, IInv, TypeOK, ControlOK
    <2>3. Joining'
      BY <1>5 DEF Ready, IInv, TypeOK, ControlOK, Joining
    <2>4. Stopping'
      BY <1>5 DEF Ready, IInv, TypeOK, RequestsOK, ControlOK, Stopping, Idle
    <2> QED BY <2>1, <2>2, <2>3, <2>4 DEF IInv, TypeOK
  <1>6. CASE StopMessage
    <2>1. HandlesOK' /\ SocketsOK' /\ OneServer' /\ Open'
      BY <1>6 DEF StopMessage, IInv, TypeOK, HandlesOK, SocketsOK, OneServer, Open, Live
    <2>2. RequestsOK'
      <3>1. channel = <<StartMsg>> \/ channel = <<StopMsg>>
        BY <1>6 DEF StopMessage, IInv, TypeOK, RequestsOK
      <3>2. Tail(<<StartMsg>>) = <<>> /\ Tail(<<StopMsg>>) = <<>>
        OBVIOUS
      <3> QED BY <1>6, <3>1, <3>2 DEF StopMessage, IInv, TypeOK, RequestsOK
    <2>3. ControlOK'
      BY <1>6 DEF StopMessage, IInv, TypeOK, ControlOK
    <2>4. Joining'
      BY <1>6 DEF StopMessage, IInv, TypeOK, ControlOK, Joining
    <2>5. Stopping'
      BY <1>6 DEF StopMessage, IInv, TypeOK, RequestsOK, ControlOK, Stopping, Idle
    <2> QED BY <2>1, <2>2, <2>3, <2>4, <2>5 DEF IInv, TypeOK
  <1>7. CASE CtxDone
    <2>1. RequestsOK' /\ HandlesOK' /\ SocketsOK' /\ OneServer' /\ Open'
      BY <1>7 DEF CtxDone, IInv, TypeOK, RequestsOK, HandlesOK, SocketsOK, OneServer, Open, Live
    <2>2. ControlOK'
      BY <1>7 DEF CtxDone, IInv, TypeOK, ControlOK
    <2>3. Joining'
      BY <1>7 DEF CtxDone, IInv, TypeOK, ControlOK, Joining
    <2>4. Stopping'
      BY <1>7 DEF CtxDone, IInv, TypeOK, RequestsOK, ControlOK, Stopping, Idle
    <2> QED BY <2>1, <2>2, <2>3, <2>4 DEF IInv, TypeOK
  <1>8. CASE StopServer
    <2>0. /\ server' = 0 /\ tcpServer' = 0 /\ serverRunning' = FALSE
          /\ mdnsBrowser' \in 0..started /\ browsing' \subseteq Servers
          /\ udp' \in [Servers -> Socket] /\ tcp' \in [Servers -> Socket]
          /\ \A s \in Servers : udp'[s] = "up" => udp[s] = "up"
      BY <1>8, StopForgets DEF StopServer
    <2>1. RequestsOK'
      BY <1>8 DEF StopServer, IInv, TypeOK, RequestsOK
    <2>2. HandlesOK'
      BY <1>8, <2>0 DEF StopServer, IInv, TypeOK, HandlesOK
    <2>3. SocketsOK'
      BY <1>8, <2>0 DEF StopServer, IInv, TypeOK, SocketsOK
    <2>4. ControlOK'
      BY <1>8, <2>0 DEF StopServer, IInv, TypeOK, ControlOK
    <2>5. OneServer' /\ Open'
      BY <1>8, <2>0 DEF StopServer, IInv, OneServer, Open, Live
    <2>6. Joining'
      BY <1>8 DEF StopServer, IInv, TypeOK, ControlOK, Joining
    <2>7. Stopping'
      BY <1>8 DEF StopServer, IInv, TypeOK, RequestsOK, ControlOK, Stopping, Idle
    <2> QED BY <2>1, <2>2, <2>3, <2>4, <2>5, <2>6, <2>7 DEF IInv, TypeOK
  <1>9. CASE Join
    <2>1. RequestsOK' /\ SocketsOK'
      BY <1>9 DEF Join, IInv, TypeOK, RequestsOK, SocketsOK
    <2>2. HandlesOK'
      BY <1>9 DEF Join, IInv, TypeOK, HandlesOK
    <2>3. ControlOK'
      BY <1>9 DEF Join, IInv, TypeOK, ControlOK
    <2>4. OneServer' /\ Open'
      BY <1>9 DEF Join, IInv, TypeOK, SocketsOK, OneServer, Open, Live
    <2>5. Joining'
      BY <1>9 DEF Join, IInv, TypeOK, ControlOK, Joining
    <2>6. Stopping'
      BY <1>9 DEF Join, IInv, TypeOK, RequestsOK, ControlOK, Stopping, Idle
    <2> QED BY <2>1, <2>2, <2>3, <2>4, <2>5, <2>6 DEF IInv, TypeOK
  <1>10. ASSUME NEW s \in Servers, NEW mdns \in BOOLEAN, Publish(s, mdns) PROVE IInv'
    <2>1. RequestsOK' /\ Stopping'
      BY <1>10 DEF Publish, IInv, TypeOK, RequestsOK, Stopping, Idle
    <2>2. HandlesOK'
      <3>1. s \in 1..started
        BY <1>10 DEF Publish, IInv, TypeOK, HandlesOK, Joining, Servers
      <3> QED BY <1>10, <3>1 DEF Publish, IInv, TypeOK, HandlesOK
    <2>3. SocketsOK'
      BY <1>10 DEF Publish, IInv, TypeOK, SocketsOK, Socket
    <2>4. ControlOK'
      BY <1>10 DEF Publish, IInv, TypeOK, ControlOK
    <2>5. OneServer' /\ Open'
      <3>1. Open'
        BY <1>10 DEF Publish, IInv, TypeOK, SocketsOK, Open
      <3>2. Live' = Live
        BY <1>10 DEF Publish, IInv, TypeOK, SocketsOK, Live
      <3>3. s = serverDone /\ server = 0 /\ s # 0
        BY <1>10 DEF Publish, IInv, OneServer, Live, Servers
      <3>4. ~serverRunning
        BY <3>3 DEF IInv, OneServer
      <3>5. /\ server' = s /\ tcpServer' = s /\ serverRunning' = TRUE /\ serverDone' = s
            /\ run' = [run EXCEPT ![s] = "publish"] /\ udp' = [udp EXCEPT ![s] = "new"]
        BY <1>10, <3>3, <3>4 DEF Publish
      <3>6. \A r \in Servers : run'[r] # "start"
        BY <3>3, <3>5 DEF IInv, TypeOK, SocketsOK, OneServer, Live
      <3>7. run'[s] = "publish" /\ udp'[s] = "new"
        BY <3>5, <1>10 DEF IInv, TypeOK, SocketsOK
      <3> QED BY <3>1, <3>2, <3>3, <3>5, <3>6, <3>7 DEF IInv, OneServer
    <2>6. Joining'
      BY <1>10 DEF Publish, IInv, TypeOK, SocketsOK, Joining
    <2> QED BY <2>1, <2>2, <2>3, <2>4, <2>5, <2>6 DEF IInv, TypeOK
  <1>11. ASSUME NEW s \in Servers, CloseReady(s) PROVE IInv'
    <2>1. RequestsOK' /\ HandlesOK' /\ ControlOK' /\ Stopping'
      BY <1>11 DEF CloseReady, IInv, TypeOK, RequestsOK, HandlesOK, ControlOK, Stopping, Idle
    <2>2. SocketsOK'
      BY <1>11 DEF CloseReady, IInv, TypeOK, SocketsOK, Socket
    <2>3. OneServer' /\ Open'
      BY <1>11 DEF CloseReady, IInv, TypeOK, SocketsOK, HandlesOK, OneServer, Open, Live, Servers
    <2>4. Joining'
      BY <1>11 DEF CloseReady, IInv, TypeOK, SocketsOK, Joining
    <2> QED BY <2>1, <2>2, <2>3, <2>4 DEF IInv, TypeOK
  <1>12. ASSUME NEW s \in Servers, ListenUDP(s) PROVE IInv'
    <2>1. RequestsOK' /\ HandlesOK' /\ ControlOK' /\ Joining' /\ Stopping'
      BY <1>12 DEF ListenUDP, IInv, TypeOK, RequestsOK, HandlesOK, ControlOK, Joining, Stopping, Idle
    <2>2. SocketsOK'
      BY <1>12 DEF ListenUDP, IInv, TypeOK, SocketsOK, Socket
    <2>3. OneServer' /\ Open'
      BY <1>12 DEF ListenUDP, IInv, TypeOK, HandlesOK, SocketsOK, OneServer, Open, Live, Servers
    <2> QED BY <2>1, <2>2, <2>3 DEF IInv, TypeOK
  <1>13. ASSUME NEW s \in Servers, ListenTCP(s) PROVE IInv'
    <2>1. RequestsOK' /\ HandlesOK' /\ ControlOK' /\ OneServer' /\ Open' /\ Joining' /\ Stopping'
      BY <1>13 DEF ListenTCP, IInv, TypeOK, RequestsOK, HandlesOK, ControlOK, OneServer, Open, Live,
         Joining, Stopping, Idle
    <2>2. SocketsOK'
      BY <1>13 DEF ListenTCP, IInv, TypeOK, SocketsOK, Socket
    <2> QED BY <2>1, <2>2 DEF IInv, TypeOK
  <1>14. ASSUME NEW s \in Servers, ServeEnds(s) PROVE IInv'
    <2>0. Shutdown(s, tcp) \in [Servers -> Socket]
      BY ShutdownOpensNone DEF IInv, TypeOK, SocketsOK
    <2>1. RequestsOK' /\ Stopping'
      BY <1>14 DEF ServeEnds, IInv, TypeOK, RequestsOK, Stopping, Idle
    <2>2. HandlesOK'
      BY <1>14 DEF ServeEnds, IInv, TypeOK, HandlesOK
    <2>3. SocketsOK'
      BY <1>14, <2>0 DEF ServeEnds, IInv, TypeOK, SocketsOK
    <2>4. ControlOK'
      BY <1>14 DEF ServeEnds, IInv, TypeOK, ControlOK
    <2>5. OneServer' /\ Open'
      BY <1>14 DEF ServeEnds, IInv, TypeOK, SocketsOK, HandlesOK, OneServer, Open, Live, Servers
    <2>6. Joining'
      BY <1>14 DEF ServeEnds, IInv, TypeOK, SocketsOK, Joining
    <2> QED BY <2>1, <2>2, <2>3, <2>4, <2>5, <2>6 DEF IInv, TypeOK
  <1>15. CASE Cancel
    <2>1. RequestsOK' /\ HandlesOK' /\ SocketsOK' /\ OneServer' /\ Open' /\ Joining' /\ Stopping'
      BY <1>15 DEF Cancel, IInv, TypeOK, RequestsOK, HandlesOK, SocketsOK, OneServer, Open, Live,
         Joining, Stopping, Idle
    <2>2. ControlOK'
      BY <1>15 DEF Cancel, IInv, TypeOK, ControlOK
    <2> QED BY <2>1, <2>2 DEF IInv, TypeOK
  <1>16. CASE StopBegins
    <2>1. RequestsOK' /\ HandlesOK' /\ SocketsOK' /\ OneServer' /\ Open' /\ Joining'
      BY <1>16 DEF StopBegins, IInv, TypeOK, RequestsOK, HandlesOK, SocketsOK, OneServer, Open, Live,
         Joining
    <2>2. ControlOK'
      BY <1>16 DEF StopBegins, IInv, TypeOK, ControlOK
    <2>3. Stopping'
      BY <1>16 DEF StopBegins, IInv, TypeOK, RequestsOK, ControlOK, Stopping, Idle
    <2> QED BY <2>1, <2>2, <2>3 DEF IInv, TypeOK
  <1>17. CASE Expires
    <2>1. RequestsOK' /\ HandlesOK' /\ SocketsOK' /\ OneServer' /\ Open' /\ Joining' /\ Stopping'
      BY <1>17 DEF Expires, IInv, TypeOK, RequestsOK, HandlesOK, SocketsOK, OneServer, Open, Live,
         Joining, Stopping, Idle
    <2>2. ControlOK'
      BY <1>17 DEF Expires, IInv, TypeOK, ControlOK
    <2> QED BY <2>1, <2>2 DEF IInv, TypeOK
  <1>18. CASE WebShutdown
    <2>1. RequestsOK' /\ HandlesOK' /\ SocketsOK' /\ OneServer' /\ Open' /\ Joining'
      BY <1>18 DEF WebShutdown, IInv, TypeOK, RequestsOK, HandlesOK, SocketsOK, OneServer, Open, Live,
         Joining
    <2>2. ControlOK'
      BY <1>18 DEF WebShutdown, IInv, TypeOK, ControlOK
    <2>3. Stopping'
      BY <1>18 DEF WebShutdown, IInv, TypeOK, RequestsOK, ControlOK, Stopping, Idle
    <2> QED BY <2>1, <2>2, <2>3 DEF IInv, TypeOK
  <1>19. CASE DnsShutdown
    <2>0. /\ server' = 0 /\ tcpServer' = 0 /\ serverRunning' = FALSE
          /\ mdnsBrowser' \in 0..started /\ browsing' \subseteq Servers
          /\ udp' \in [Servers -> Socket] /\ tcp' \in [Servers -> Socket]
          /\ \A s \in Servers : udp'[s] = "up" => udp[s] = "up"
      BY <1>19, StopForgets DEF DnsShutdown
    <2>1. RequestsOK' /\ Joining'
      BY <1>19 DEF DnsShutdown, IInv, TypeOK, RequestsOK, Joining
    <2>2. HandlesOK'
      BY <1>19, <2>0 DEF DnsShutdown, IInv, TypeOK, HandlesOK
    <2>3. SocketsOK'
      BY <1>19, <2>0 DEF DnsShutdown, IInv, TypeOK, SocketsOK
    <2>4. ControlOK'
      BY <1>19, <2>0 DEF DnsShutdown, IInv, TypeOK, ControlOK
    <2>5. OneServer' /\ Open'
      BY <1>19, <2>0 DEF DnsShutdown, IInv, OneServer, Open, Live
    <2>6. Stopping'
      BY <1>19 DEF DnsShutdown, IInv, TypeOK, RequestsOK, ControlOK, Stopping, Idle
    <2> QED BY <2>1, <2>2, <2>3, <2>4, <2>5, <2>6 DEF IInv, TypeOK
  <1>20. CASE AwaitController
    <2>1. RequestsOK' /\ HandlesOK' /\ SocketsOK' /\ OneServer' /\ Open' /\ Joining'
      BY <1>20 DEF AwaitController, IInv, TypeOK, RequestsOK, HandlesOK, SocketsOK, OneServer, Open,
         Live, Joining
    <2>2. ControlOK'
      BY <1>20 DEF AwaitController, IInv, TypeOK, ControlOK
    <2>3. Stopping'
      BY <1>20 DEF AwaitController, IInv, TypeOK, RequestsOK, ControlOK, Stopping, Idle
    <2> QED BY <2>1, <2>2, <2>3 DEF IInv, TypeOK
  <1>21. CASE LoggerClose
    <2>1. RequestsOK' /\ HandlesOK' /\ SocketsOK' /\ OneServer' /\ Open' /\ Joining'
      BY <1>21 DEF LoggerClose, IInv, TypeOK, RequestsOK, HandlesOK, SocketsOK, OneServer, Open, Live,
         Joining
    <2>2. ControlOK'
      BY <1>21 DEF LoggerClose, IInv, TypeOK, ControlOK
    <2>3. Stopping'
      BY <1>21 DEF LoggerClose, IInv, TypeOK, RequestsOK, ControlOK, Stopping, Idle
    <2> QED BY <2>1, <2>2, <2>3 DEF IInv, TypeOK
  <1>22. CASE UNCHANGED vars
    BY <1>22 DEF vars, IInv, TypeOK, RequestsOK, HandlesOK, SocketsOK, ControlOK, OneServer, Joining,
       Open, Stopping, Live, Idle
  <1> QED
    BY <1>1, <1>2, <1>3, <1>4, <1>5, <1>6, <1>7, <1>8, <1>9, <1>10, <1>11,
       <1>12, <1>13, <1>14, <1>15, <1>16, <1>17, <1>18, <1>19, <1>20, <1>21, <1>22
       DEF Next, Reload, Controller, Serve, Stop

\* Every state of the lifecycle satisfies the inductive invariant.
THEOREM LifecycleInvariant == Spec => []IInv
  BY InitIInv, NextIInv, PTL DEF Spec

\* Every variable of the lifecycle keeps its type.
THEOREM DnsTypeCorrect == Spec => []TypeOK
  <1>1. IInv => TypeOK
    BY DEF IInv
  <1> QED BY <1>1, LifecycleInvariant, PTL

\* The handles, the flag and the controller's channel always speak of one and
\* the same server.
THEOREM OneServerAtATime == Spec => []OneServer
  <1>1. IInv => OneServer
    BY DEF IInv
  <1> QED BY <1>1, LifecycleInvariant, PTL

\* A shutdown without an error leaves no reload, controller or UDP listener.
THEOREM CleanStopIsComplete == Spec => []CleanStop
  <1>1. IInv => CleanStop
    BY NothingToJoin DEF IInv, CleanStop, Stopping, Joining, Open, Live
  <1> QED BY <1>1, LifecycleInvariant, PTL
=============================================================================
