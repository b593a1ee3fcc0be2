------------------------ MODULE TailscaleManagerProofs ------------------------
(***************************************************************************)
(* The safety properties of TailscaleManager, for any number of requests at *)
(* the same time and any snapshots.                                         *)
(*                                                                          *)
(* The argument rests on the transition token.  Whoever holds it is at a    *)
(* known place of its code (TokenHeld), so a refresh that is under way      *)
(* cannot be overtaken by a disable (Refreshing), and a stop that has the   *)
(* token has outlived every refresh (StopState).  Numbers of requests are   *)
(* unique (Numbered), which is what makes the later of two of them win.     *)
(***************************************************************************)
EXTENDS TailscaleManager, TLAPS

RefreshPcs == {"refresh", "request", "apply", "applied"}
HoldPcs == RefreshPcs \cup {"locked", "clear", "detect", "wait"}
CallPcs == RefreshPcs \cup {"lock", "locked", "clear"}
StopPcs == {"stop", "mark", "takeover", "wait"}

\* Which goroutine runs which code.
Roles ==
    /\ pc[Poller] \in RefreshPcs \cup {"off", "select", "poll", "detect", "done"}
    /\ pc[Stopper] \in StopPcs \cup {"idle", "done"}
    /\ pc[Starter] \in CallPcs \cup StopPcs \cup {"start", "publish", "call", "done"}
    /\ \A h \in Handlers : pc[h] \in CallPcs \cup {"idle", "mutex", "call", "persist"}
    /\ pc[Starter] = "start" => pc[Poller] = "off"

\* The token is with the goroutine that is in the middle of a transition, a
\* refresh or the end of Stop.
TokenHeld == \A t \in Threads : pc[t] \in HoldPcs <=> token = t

\* What a goroutine in the middle of a refresh may rely on.
Refreshing ==
    \A t \in Refreshers :
        /\ pc[t] \in RefreshPcs => enabled \/ stopped
        /\ pc[t] \in RefreshPcs /\ t # Poller => call[t].want
        /\ pc[t] \in {"request", "apply", "applied", "clear"} => status # "connected"
        /\ pc[t] \in {"apply", "applied"} => fetched[t] \in Snapshots
        /\ pc[t] = "applied" => obs = fetched[t]
        /\ pc[t] = "clear" => ~enabled /\ ~call[t].want

\* Who stops the manager, and what has happened when.
StopState ==
    /\ stopped => closed /\ ~enabled /\ status = "stopped"
    /\ pc[Starter] \in StopPcs => pc[Stopper] = "done" /\ shut
    /\ pc[Stopper] \in StopPcs => shut /\ pc[Starter] \notin {"start", "publish"}
    /\ pc[Stopper] = "idle" => ~shut
    /\ pc[Starter] \in {"start", "publish"} => ~published /\ ~closed /\ ~stopped
    /\ \A t \in {Starter, Stopper} :
        /\ pc[t] \in {"takeover", "wait"} => stopped
        /\ pc[t] = "mark" => closed /\ ~stopped
        /\ pc[t] = "stop" => ~stopped

\* The requests for a transition have numbers of their own.
Numbered ==
    /\ \A c \in Callers : call[c].seq <= seq
    /\ \A c, d \in Callers : c # d /\ call[c].seq = call[d].seq => call[c].seq = 0
    /\ \A c \in Callers : call[c].result = "ok" => call[c].seq > 0
    /\ \A c \in Callers : pc[c] \in CallPcs => call[c].result = "none" /\ call[c].seq > 0
    /\ pc[Starter] \in {"start", "publish"} => call[Starter].result = "none"

\* The inductive invariant.
IInv ==
    /\ TypeOK /\ Roles /\ TokenHeld /\ Refreshing /\ StopState /\ Numbered
    /\ OffIsClean /\ StopIsFinal /\ LaterTransitionWins /\ ConnectedIsApplied

-----------------------------------------------------------------------------
(* The end of a refresh *)

EndPcs(t) == IF t = Poller THEN {"select"} ELSE IF t = Starter THEN {"done"} ELSE {"idle", "persist"}

\* EndRefresh releases the token and leaves the code that needs it, whoever
\* runs it; of the calls it touches the result only.
Released(t, ok) ==
    /\ token' = None /\ \E l \in EndPcs(t) : pc' = [pc EXCEPT ![t] = l]
    /\ call' = IF t = Poller THEN call ELSE [call EXCEPT ![t].result = IF ok THEN "ok" ELSE "error"]
    /\ configMu' \in {configMu, None} /\ fetched' = [fetched EXCEPT ![t] = None]
    /\ UNCHANGED <<setting, published, shut, puts, link>>

\* The shape of the end of a refresh or a transition, for all three kinds of
\* goroutine that may end one.
LEMMA EndRefreshReleases ==
    ASSUME NEW t \in Refreshers, NEW ok \in BOOLEAN, EndRefresh(t, ok)
    PROVE  Released(t, ok)
BY TailscaleAssumption, Zenon DEF EndRefresh, Return, After, Released, EndPcs, Goto, Callers, Refreshers


\* Writing the result of a call changes nothing else of the calls.
LEMMA ResultEffect ==
    ASSUME call \in [Callers -> Call], NEW c \in Callers, NEW r \in {"none", "ok", "error"},
           call' = [call EXCEPT ![c].result = r]
    PROVE  /\ call' \in [Callers -> Call] /\ call'[c].result = r
           /\ call'[c].want = call[c].want /\ call'[c].seq = call[c].seq
           /\ \A d \in Callers \ {c} : call'[d] = call[d]
  BY DEF Call

\* A goroutine that gives the token back keeps the invariant, when it leaves
\* enabled alone, clears the store if it had to, reports "connected" only for
\* what it applied, and success only for what is the case.
LEMMA EndKeeps ==
    ASSUME IInv, NEW t \in Refreshers, NEW ok \in BOOLEAN, EndRefresh(t, ok),
           pc[t] \in HoldPcs \ {"wait"},
           UNCHANGED <<seq, enabled, stopped, closed>>,
           refreshed' \in BOOLEAN, peers' \in Snapshots \cup {None}, status' \in ManagerStatus,
           obs' \in {obs, None}, linked' \in {linked, {}}, pc[t] = "clear" => obs' = None /\ linked' = {},
           stopped => status' = status,
           status' = "connected" => peers' # None /\ obs' = peers',
           ok /\ t # Poller /\ ~stopped /\ call[t].seq = seq => enabled = call[t].want
    PROVE  IInv'
  <1> USE TailscaleAssumption DEF RefreshPcs, HoldPcs, CallPcs, StopPcs, Callers, Refreshers, Threads, IInv
  <1>0. Released(t, ok)
    BY EndRefreshReleases
  <1>a. /\ token' = None /\ UNCHANGED <<setting, published, shut, puts, link>>
        /\ configMu' \in {configMu, None} /\ fetched' = [fetched EXCEPT ![t] = None]
    BY <1>0 DEF Released
  <1>b. PICK l \in EndPcs(t) : pc' = [pc EXCEPT ![t] = l]
    BY <1>0 DEF Released
  <1>c. /\ l \in {"select", "done", "idle", "persist"}
        /\ t = Poller => l = "select"
        /\ t = Starter => l = "done"
        /\ t \in Handlers => l \in {"idle", "persist"}
    BY <1>b DEF EndPcs
  <1>d. /\ call' \in [Callers -> Call]
        /\ t # Poller => call'[t].result = IF ok THEN "ok" ELSE "error"
        /\ \A c \in Callers : call'[c].want = call[c].want /\ call'[c].seq = call[c].seq
        /\ \A c \in Callers : c # t => call'[c].result = call[c].result
    BY <1>0, ResultEffect DEF Released, TypeOK
  <1>e. token = t
    BY DEF TokenHeld
  <1>1. TypeOK'
    BY <1>a, <1>b, <1>c, <1>d, <1>e DEF TypeOK, Call, ManagerStatus, Roles
  <1>2. Roles' /\ TokenHeld'
    BY <1>a, <1>b, <1>c, <1>d, <1>e DEF Roles, TypeOK, Call, ManagerStatus, TokenHeld
  <1>3. Refreshing' /\ StopState' /\ Numbered'
    BY <1>a, <1>b, <1>c, <1>d, <1>e DEF Refreshing, Roles, TokenHeld, StopState, TypeOK, Call,
       ManagerStatus, Numbered
  <1>4. OffIsClean' /\ StopIsFinal' /\ LaterTransitionWins' /\ ConnectedIsApplied'
    <2>1. OffIsClean'
      BY <1>a, <1>b, <1>c, <1>d, <1>e DEF OffIsClean, Stopping, Roles, TokenHeld, Refreshing,
         StopState, TypeOK, Call, ManagerStatus, Numbered
    <2>2. StopIsFinal'
      <3>1. Stopping => Stopping'
        BY <1>b, <1>c DEF Stopping, TypeOK
      <3>2. t \in Threads /\ t \in DOMAIN pc
        BY DEF TypeOK
      <3>3. \A u \in Threads : u # t => pc'[u] = pc[u]
        BY <1>b DEF TypeOK
      <3>4. pc'[t] \in {"select", "done", "idle", "persist"}
        BY <1>b, <1>c, <3>2
      <3>5. CASE stopped /\ ~Stopping
        <4>1. /\ obs = None /\ TRUE \notin linked /\ pc[Poller] = "done"
              /\ \A u \in Refreshers : pc[u] \notin {"clear", "refresh", "request", "apply", "applied"}
          BY <3>5 DEF StopIsFinal
        <4>2. t # Poller
          BY <4>1
        <4>3. obs' = None /\ TRUE \notin linked' /\ pc'[Poller] = "done"
          BY <3>3, <4>1, <4>2
        <4>4. \A u \in Refreshers : pc'[u] \notin {"clear", "refresh", "request", "apply", "applied"}
          BY <3>3, <3>4, <4>1
        <4> QED BY <4>3, <4>4 DEF StopIsFinal
      <3> QED BY <3>1, <3>5 DEF StopIsFinal
    <2>3. LaterTransitionWins' /\ ConnectedIsApplied'
      BY <1>a, <1>b, <1>c, <1>d, <1>e DEF LaterTransitionWins, ConnectedIsApplied, Roles, TokenHeld,
         Refreshing, StopState, TypeOK, Call, ManagerStatus, Numbered
    <2> QED BY <2>1, <2>2, <2>3
  <1> QED BY <1>1, <1>2, <1>3, <1>4 DEF IInv

\* A call that fails before it has the token changes its result only.
LEMMA ReturnKeeps ==
    ASSUME IInv, NEW c \in Callers, pc[c] \in {"call", "lock"}, Return(c, FALSE),
           UNCHANGED <<manager, fetched, setting, published, shut, puts, link>>
    PROVE  IInv'
  <1> USE TailscaleAssumption DEF RefreshPcs, HoldPcs, CallPcs, StopPcs, Callers, Refreshers, Threads,
     IInv, manager
  <1>a. PICK l \in {"done", "idle", "persist"} :
            /\ pc' = [pc EXCEPT ![c] = l]
            /\ c = Starter => l = "done"
            /\ c \in Handlers => l \in {"idle", "persist"}
    BY DEF Return, After, Goto
  <1>b. configMu' \in {configMu, None}
    BY DEF Return
  <1>c. /\ call' \in [Callers -> Call] /\ call'[c].result = "error"
        /\ \A d \in Callers : call'[d].want = call[d].want /\ call'[d].seq = call[d].seq
        /\ \A d \in Callers : d # c => call'[d].result = call[d].result
    BY ResultEffect DEF Return, TypeOK
  <1>1. TypeOK'
    BY <1>a, <1>b, <1>c DEF TypeOK, Call, ManagerStatus, Roles
  <1>2. Roles' /\ TokenHeld'
    BY <1>a, <1>b, <1>c DEF Roles, TypeOK, Call, ManagerStatus, TokenHeld
  <1>3. Refreshing' /\ StopState' /\ Numbered'
    BY <1>a, <1>b, <1>c DEF Refreshing, Roles, TokenHeld, StopState, TypeOK, Call, ManagerStatus, Numbered
  <1>4. OffIsClean' /\ StopIsFinal' /\ LaterTransitionWins' /\ ConnectedIsApplied'
    <2>1. OffIsClean'
      BY <1>a, <1>b, <1>c DEF OffIsClean, Stopping, Roles, TokenHeld, Refreshing, StopState, TypeOK,
         Call, ManagerStatus, Numbered
    <2>2. StopIsFinal'
      BY <1>a, <1>b, <1>c DEF StopIsFinal, Stopping, Roles, TokenHeld, Refreshing, StopState,
         TypeOK, Call, ManagerStatus, Numbered
    <2>3. LaterTransitionWins' /\ ConnectedIsApplied'
      BY <1>a, <1>b, <1>c DEF LaterTransitionWins, ConnectedIsApplied, Roles, TokenHeld, Refreshing,
         StopState, TypeOK, Call, ManagerStatus, Numbered
    <2> QED BY <2>1, <2>2, <2>3
  <1> QED BY <1>1, <1>2, <1>3, <1>4 DEF IInv

-----------------------------------------------------------------------------
(* The actions *)

\* The invariant holds of the process that starts.
LEMMA InitIInv == Init => IInv
  <1> SUFFICES ASSUME Init PROVE IInv
    OBVIOUS
  <1> USE TailscaleAssumption DEF RefreshPcs, HoldPcs, CallPcs, StopPcs, Callers, Refreshers, Threads
  <1>a. call \in [Callers -> Call] /\ \A c \in Callers : call[c].seq = 0 /\ call[c].result = "none"
    BY DEF Init, NoCall, Call
  <1>b. fetched \in [Refreshers -> Snapshots \cup {None}]
    BY DEF Init
  <1>c. /\ pc[Starter] = "start" /\ pc[Poller] = "off" /\ pc[Stopper] = "idle"
        /\ \A h \in Handlers : pc[h] = "idle"
        /\ pc \in [Threads -> {"start", "off", "idle"}]
    BY DEF Init
  <1>d. puts = 0 /\ 0 \in 0 .. MaxPuts
    BY DEF Init
  <1>e. seq = 0 /\ token = None
    BY DEF Init
  <1>1. TypeOK
    BY <1>a, <1>b, <1>c, <1>d DEF Init, TypeOK, ManagerStatus
  <1>2. Roles
    BY <1>a, <1>c, <1>e DEF Init, Roles
  <1>3. TokenHeld
    BY <1>a, <1>c, <1>e DEF Init, TokenHeld
  <1>4. Refreshing
    BY <1>a, <1>c, <1>e DEF Init, Refreshing
  <1>5. StopState
    BY <1>a, <1>c, <1>e DEF Init, StopState
  <1>6. Numbered
    BY <1>a, <1>c, <1>e DEF Numbered
  <1>7. OffIsClean
    BY <1>a, <1>c, <1>e DEF Init, OffIsClean, Stopping
  <1>8. StopIsFinal
    BY <1>a, <1>c, <1>e DEF Init, StopIsFinal, Stopping
  <1>9. LaterTransitionWins
    BY <1>a, <1>c, <1>e DEF Init, LaterTransitionWins
  <1>10. ConnectedIsApplied
    BY <1>a, <1>c, <1>e DEF Init, ConnectedIsApplied
  <1> QED BY <1>1, <1>2, <1>3, <1>4, <1>5, <1>6, <1>7, <1>8, <1>9, <1>10 DEF IInv

\* A request is refused, or numbered.
LEMMA SetEnabledKeeps ==
    ASSUME IInv, NEW c \in Callers, SetEnabled(c)
    PROVE  IInv'
  <1> USE TailscaleAssumption DEF RefreshPcs, HoldPcs, CallPcs, StopPcs, Callers, Refreshers, Threads, IInv
  <1>1. CASE Return(c, FALSE) /\ UNCHANGED seq
    BY <1>1, ReturnKeeps DEF SetEnabled, manager
  <1>2. CASE /\ ~stopped /\ seq' = seq + 1 /\ Goto(c, "lock") /\ UNCHANGED configMu
             /\ call' = [call EXCEPT ![c].seq = seq + 1, ![c].result = "none"]
    <2>a. /\ call' \in [Callers -> Call] /\ call'[c].result = "none" /\ call'[c].seq = seq + 1
          /\ call'[c].want = call[c].want /\ \A d \in Callers \ {c} : call'[d] = call[d]
      BY <1>2 DEF TypeOK, Call
    <2>b. pc[c] = "call" /\ UNCHANGED <<token, enabled, status, stopped, peers, refreshed, closed, obs, linked,
                                        fetched, setting, published, shut, puts, link>>
      BY DEF SetEnabled
    <2>1. TypeOK'
      BY <1>2, <2>a, <2>b DEF Goto, TypeOK, Call, ManagerStatus, Roles
    <2>2. Roles' /\ TokenHeld'
      BY <1>2, <2>a, <2>b DEF Goto, Roles, TypeOK, Call, ManagerStatus, TokenHeld
    <2>3. Refreshing' /\ StopState' /\ Numbered'
      BY <1>2, <2>a, <2>b DEF Goto, Refreshing, Roles, TokenHeld, StopState, TypeOK, Call, ManagerStatus,
         Numbered
    <2>4. OffIsClean' /\ StopIsFinal' /\ LaterTransitionWins' /\ ConnectedIsApplied'
      <3>1. OffIsClean'
        BY <1>2, <2>a, <2>b DEF OffIsClean, Stopping, Goto, Roles, TokenHeld, Refreshing, StopState,
           TypeOK, Call, ManagerStatus, Numbered
      <3>2. StopIsFinal'
        BY <1>2, <2>a, <2>b DEF StopIsFinal, Stopping, Goto, Roles, TokenHeld, Refreshing,
           StopState, TypeOK, Call, ManagerStatus, Numbered
      <3>3. LaterTransitionWins' /\ ConnectedIsApplied'
        BY <1>2, <2>a, <2>b DEF LaterTransitionWins, ConnectedIsApplied, Goto, Roles, TokenHeld,
           Refreshing, StopState, TypeOK, Call, ManagerStatus, Numbered
      <3> QED BY <3>1, <3>2, <3>3
    <2> QED BY <2>1, <2>2, <2>3, <2>4 DEF IInv
  <1> QED BY <1>1, <1>2 DEF SetEnabled

\* A call gives up waiting, or takes the free token.
LEMMA LockKeeps ==
    ASSUME IInv, NEW c \in Callers, lockTransition(c)
    PROVE  IInv'
  <1> USE TailscaleAssumption DEF RefreshPcs, HoldPcs, CallPcs, StopPcs, Callers, Refreshers, Threads, IInv
  <1>1. CASE Return(c, FALSE) /\ UNCHANGED token
    BY <1>1, ReturnKeeps DEF lockTransition, manager
  <1>2. CASE token = None /\ token' = c /\ Goto(c, "locked") /\ UNCHANGED <<call, configMu>>
    <2>1. TypeOK'
      BY <1>2 DEF lockTransition, Goto, TypeOK, Call, ManagerStatus, Roles
    <2>2. Roles' /\ TokenHeld'
      BY <1>2 DEF lockTransition, Goto, Roles, TypeOK, Call, ManagerStatus, TokenHeld
    <2>3. Refreshing' /\ StopState' /\ Numbered'
      BY <1>2 DEF lockTransition, Goto, Refreshing, Roles, TokenHeld, StopState, TypeOK, Call,
         ManagerStatus, Numbered
    <2>4. OffIsClean' /\ StopIsFinal' /\ LaterTransitionWins' /\ ConnectedIsApplied'
      BY <1>2 DEF lockTransition, Goto, OffIsClean, Stopping, Roles, TokenHeld, Refreshing, StopIsFinal,
         StopState, TypeOK, Call, ManagerStatus, LaterTransitionWins, Numbered, ConnectedIsApplied
    <2> QED BY <2>1, <2>2, <2>3, <2>4 DEF IInv
  <1> QED BY <1>1, <1>2 DEF lockTransition

\* A transition gives up, is superseded, disables or enables.
LEMMA TransitionKeeps ==
    ASSUME IInv, NEW c \in Callers, Transition(c)
    PROVE  IInv'
  <1> USE TailscaleAssumption DEF RefreshPcs, HoldPcs, CallPcs, StopPcs, Callers, Refreshers, Threads, IInv
  <1>a. pc[c] = "locked" /\ c \in Refreshers
    BY DEF Transition
  <1>b. UNCHANGED <<seq, stopped, refreshed, closed, obs, linked>>
    BY DEF Transition
  <1>1. CASE \E ok \in BOOLEAN : /\ EndRefresh(c, ok) /\ UNCHANGED <<enabled, status, peers>>
                                 /\ ok => Superseded(c)
    BY <1>a, <1>b, <1>1, EndKeeps DEF Superseded, TypeOK, ConnectedIsApplied
  <1>2. CASE /\ ~stopped /\ ~Superseded(c) /\ ~call[c].want
             /\ enabled' = FALSE /\ status' = "disabled" /\ peers' = None /\ Goto(c, "clear")
             /\ UNCHANGED <<token, callers>>
    <2>1. TypeOK'
      BY <1>a, <1>b, <1>2 DEF Superseded, Goto, callers, TypeOK, Call, ManagerStatus, Roles
    <2>2. Roles' /\ TokenHeld'
      BY <1>a, <1>b, <1>2 DEF Superseded, Goto, callers, Roles, TypeOK, Call, ManagerStatus, TokenHeld
    <2>3. Refreshing' /\ StopState' /\ Numbered'
      BY <1>a, <1>b, <1>2 DEF Superseded, Goto, callers, Refreshing, Roles, TokenHeld, StopState, TypeOK,
         Call, ManagerStatus, Numbered
    <2>4. OffIsClean' /\ StopIsFinal' /\ LaterTransitionWins' /\ ConnectedIsApplied'
      <3>1. OffIsClean'
        BY <1>a, <1>b, <1>2 DEF OffIsClean, Stopping, Superseded, Goto, callers, Roles, TokenHeld,
           Refreshing, StopState, TypeOK, Call, ManagerStatus, Numbered
      <3>2. StopIsFinal'
        BY <1>a, <1>b, <1>2 DEF StopIsFinal, Stopping, Superseded, Goto, callers, Roles, TokenHeld,
           Refreshing, StopState, TypeOK, Call, ManagerStatus, Numbered
      <3>3. LaterTransitionWins' /\ ConnectedIsApplied'
        BY <1>a, <1>b, <1>2 DEF LaterTransitionWins, ConnectedIsApplied, Superseded, Goto, callers,
           Roles, TokenHeld, Refreshing, StopState, TypeOK, Call, ManagerStatus, Numbered
      <3> QED BY <3>1, <3>2, <3>3
    <2> QED BY <2>1, <2>2, <2>3, <2>4 DEF IInv
  <1>3. CASE /\ ~stopped /\ ~Superseded(c) /\ call[c].want
             /\ enabled' = TRUE /\ status' = "connecting" /\ Goto(c, "refresh")
             /\ UNCHANGED <<token, peers, callers>>
    <2>1. TypeOK'
      BY <1>a, <1>b, <1>3 DEF Superseded, Goto, callers, TypeOK, Call, ManagerStatus, Roles
    <2>2. Roles' /\ TokenHeld'
      BY <1>a, <1>b, <1>3 DEF Superseded, Goto, callers, Roles, TypeOK, Call, ManagerStatus, TokenHeld
    <2>3. Refreshing' /\ StopState' /\ Numbered'
      BY <1>a, <1>b, <1>3 DEF Superseded, Goto, callers, Refreshing, Roles, TokenHeld, StopState, TypeOK,
         Call, ManagerStatus, Numbered
    <2>4. OffIsClean' /\ StopIsFinal' /\ ConnectedIsApplied'
      BY <1>a, <1>b, <1>3 DEF Goto, callers, OffIsClean, Stopping, StopIsFinal, ConnectedIsApplied, TypeOK
    <2>5. LaterTransitionWins'
      <3>1. call[c].seq = seq /\ call[c].result = "none" /\ seq > 0
        BY <1>a, <1>3 DEF Superseded, Numbered
      <3>2. \A d \in Callers : ~(call[d].seq = seq /\ call[d].result = "ok")
        BY <3>1 DEF Numbered, TypeOK
      <3> QED BY <1>b, <1>3, <3>2 DEF LaterTransitionWins, callers
    <2> QED BY <2>1, <2>2, <2>3, <2>4, <2>5 DEF IInv
  <1> QED BY <1>1, <1>2, <1>3 DEF Transition

\* Disabling ends with an empty store.
LEMMA ClearKeeps ==
    ASSUME IInv, NEW c \in Callers, Clear(c)
    PROVE  IInv'
  <1> USE TailscaleAssumption DEF RefreshPcs, HoldPcs, CallPcs, StopPcs, Callers, Refreshers, Threads, IInv
  <1>1. pc[c] = "clear" /\ enabled = FALSE /\ call[c].want = FALSE /\ status # "connected"
    BY DEF Clear, TypeOK, Call, Refreshing
  <1> QED BY <1>1, EndKeeps DEF Clear, TypeOK

\* A refresh that fails reports it.
LEMMA FailedKeeps ==
    ASSUME IInv, NEW t \in Refreshers, Failed(t), pc[t] \in RefreshPcs,
           UNCHANGED <<seq, enabled, stopped, peers, refreshed, closed, obs, linked>>
    PROVE  IInv'
  <1>1. status' \in ManagerStatus /\ (stopped => status' = status) /\ status' # "connected"
    BY DEF Failed, failureStatus, IInv, TypeOK, ManagerStatus, StopState
  <1> QED BY <1>1, EndKeeps DEF Failed, IInv, TypeOK, HoldPcs, RefreshPcs

\* The socket is missing, the manager was switched off, or the refresh goes on.
LEMMA DetectKeeps ==
    ASSUME IInv, NEW t \in Refreshers, Detect(t)
    PROVE  IInv'
  <1> USE TailscaleAssumption DEF RefreshPcs, HoldPcs, CallPcs, StopPcs, Callers, Refreshers, Threads, IInv
  <1>a. pc[t] = "refresh" /\ UNCHANGED <<seq, enabled, stopped, peers, refreshed, closed, obs, linked>>
    BY DEF Detect
  <1>1. CASE ~On /\ EndRefresh(t, TRUE) /\ UNCHANGED status
    BY <1>a, <1>1, EndKeeps DEF On, TypeOK, Refreshing, ConnectedIsApplied
  <1>2. CASE Failed(t)
    BY <1>a, <1>2, FailedKeeps
  <1>3. CASE On /\ status' = "connecting" /\ Goto(t, "request") /\ UNCHANGED <<token, callers>>
    <2>1. TypeOK'
      BY <1>a, <1>3 DEF On, Goto, callers, TypeOK, Call, ManagerStatus, Roles
    <2>2. Roles' /\ TokenHeld'
      BY <1>a, <1>3 DEF On, Goto, callers, Roles, TypeOK, Call, ManagerStatus, TokenHeld
    <2>3. Refreshing' /\ StopState' /\ Numbered'
      BY <1>a, <1>3 DEF On, Goto, callers, Refreshing, Roles, TokenHeld, StopState, TypeOK, Call,
         ManagerStatus, Numbered
    <2>4. OffIsClean' /\ StopIsFinal' /\ LaterTransitionWins' /\ ConnectedIsApplied'
      BY <1>a, <1>3 DEF On, Goto, callers, OffIsClean, Stopping, Roles, TokenHeld, Refreshing,
         StopIsFinal, StopState, TypeOK, Call, ManagerStatus, LaterTransitionWins, Numbered,
         ConnectedIsApplied
    <2> QED BY <2>1, <2>2, <2>3, <2>4 DEF IInv
  <1> QED BY <1>1, <1>2, <1>3 DEF Detect

\* The request fails, the manager was switched off, or a snapshot arrives.
LEMMA StatusKeeps ==
    ASSUME IInv, NEW t \in Refreshers, Status(t)
    PROVE  IInv'
  <1> USE TailscaleAssumption DEF RefreshPcs, HoldPcs, CallPcs, StopPcs, Callers, Refreshers, Threads, IInv
  <1>a. pc[t] = "request" /\ UNCHANGED <<seq, enabled, stopped, peers, refreshed, closed, obs, linked>>
    BY DEF Status
  <1>1. CASE ~On /\ EndRefresh(t, TRUE) /\ UNCHANGED status
    BY <1>a, <1>1, EndKeeps DEF On, TypeOK, Refreshing, ConnectedIsApplied
  <1>2. CASE Failed(t)
    BY <1>a, <1>2, FailedKeeps
  <1>3. CASE \E s \in Snapshots :
                 /\ On /\ fetched' = [fetched EXCEPT ![t] = s] /\ Goto(t, "apply")
                 /\ UNCHANGED <<status, token, call, configMu, setting, published, shut, puts, link>>
    <2>1. TypeOK'
      BY <1>a, <1>3 DEF On, Goto, TypeOK, Call, ManagerStatus, Roles
    <2>2. Roles' /\ TokenHeld'
      BY <1>a, <1>3 DEF On, Goto, Roles, TypeOK, Call, ManagerStatus, TokenHeld
    <2>3. Refreshing' /\ StopState' /\ Numbered'
      BY <1>a, <1>3 DEF On, Goto, Refreshing, Roles, TokenHeld, StopState, TypeOK, Call, ManagerStatus,
         Numbered
    <2>4. OffIsClean' /\ StopIsFinal' /\ LaterTransitionWins' /\ ConnectedIsApplied'
      BY <1>a, <1>3 DEF On, Goto, OffIsClean, Stopping, Roles, TokenHeld, Refreshing, StopIsFinal,
         StopState, TypeOK, Call, ManagerStatus, LaterTransitionWins, Numbered, ConnectedIsApplied
    <2> QED BY <2>1, <2>2, <2>3, <2>4 DEF IInv
  <1> QED BY <1>1, <1>2, <1>3 DEF Status

\* The store takes the snapshot or refuses it.
LEMMA ApplyKeeps ==
    ASSUME IInv, NEW t \in Refreshers, Apply(t)
    PROVE  IInv'
  <1> USE TailscaleAssumption DEF RefreshPcs, HoldPcs, CallPcs, StopPcs, Callers, Refreshers, Threads, IInv
  <1>a. pc[t] = "apply" /\ UNCHANGED <<seq, enabled, stopped, peers, refreshed, closed>>
    BY DEF Apply
  <1>1. CASE obs' = fetched[t] /\ linked' = {} /\ Goto(t, "applied") /\ UNCHANGED <<status, token, callers>>
    <2>1. TypeOK'
      BY <1>a, <1>1 DEF Goto, callers, TypeOK, Call, ManagerStatus, Roles
    <2>2. Roles' /\ TokenHeld'
      BY <1>a, <1>1 DEF Goto, callers, Roles, TypeOK, Call, ManagerStatus, TokenHeld
    <2>3. Refreshing' /\ StopState' /\ Numbered'
      BY <1>a, <1>1 DEF Goto, callers, Refreshing, Roles, TokenHeld, StopState, TypeOK, Call,
         ManagerStatus, Numbered
    <2>4. OffIsClean' /\ StopIsFinal' /\ LaterTransitionWins' /\ ConnectedIsApplied'
      BY <1>a, <1>1 DEF Goto, callers, OffIsClean, Stopping, Roles, TokenHeld, Refreshing, StopIsFinal,
         StopState, TypeOK, Call, ManagerStatus, LaterTransitionWins, Numbered, ConnectedIsApplied
    <2> QED BY <2>1, <2>2, <2>3, <2>4 DEF IInv
  <1>2. CASE /\ UNCHANGED <<obs, linked>> /\ EndRefresh(t, stopped)
             /\ status' = IF stopped THEN status ELSE "degraded"
    BY <1>a, <1>2, EndKeeps DEF TypeOK, ManagerStatus, StopState
  <1> QED BY <1>1, <1>2 DEF Apply

\* The manager shows the snapshot it has applied, unless it was stopped.
LEMMA InstallKeeps ==
    ASSUME IInv, NEW t \in Refreshers, Install(t)
    PROVE  IInv'
  <1> USE TailscaleAssumption DEF RefreshPcs, HoldPcs, CallPcs, StopPcs, Callers, Refreshers, Threads, IInv
  <1>a. pc[t] = "applied" /\ EndRefresh(t, TRUE) /\ UNCHANGED <<seq, enabled, stopped, closed, obs, linked>>
    BY DEF Install
  <1>1. CASE On /\ peers' = fetched[t] /\ refreshed' = TRUE /\ status' = "connected"
    <2>1. t # Poller => call[t].want
      BY <1>a DEF Refreshing
    <2>2. fetched[t] \in Snapshots /\ obs = fetched[t]
      BY <1>a DEF Refreshing
    <2> QED BY <1>a, <1>1, <2>1, <2>2, EndKeeps DEF On, TypeOK, ManagerStatus
  <1>2. CASE ~On /\ UNCHANGED <<peers, refreshed, status>>
    BY <1>a, <1>2, EndKeeps DEF On, TypeOK, Refreshing, ConnectedIsApplied
  <1> QED BY <1>1, <1>2 DEF Install

\* The poll loop looks for the socket while the integration is off.
LEMMA DetectOnlyKeeps ==
    ASSUME IInv, DetectOnly
    PROVE  IInv'
  <1> USE TailscaleAssumption DEF RefreshPcs, HoldPcs, CallPcs, StopPcs, Callers, Refreshers, Threads, IInv
  <1>1. status' \in ManagerStatus /\ (stopped => status' = status) /\ (status' = "connected" => status = "connected")
    BY DEF DetectOnly, failureStatus, TypeOK, ManagerStatus, StopState
  <1> QED BY <1>1, EndKeeps DEF DetectOnly, TypeOK, ConnectedIsApplied

\* The ticker fires.
LEMMA TickKeeps ==
    ASSUME IInv, Tick
    PROVE  IInv'
  <1> USE TailscaleAssumption DEF RefreshPcs, HoldPcs, CallPcs, StopPcs, Callers, Refreshers, Threads, IInv
  <1>1. TypeOK'
    BY DEF Tick, Goto, manager, callers, TypeOK, Call, ManagerStatus, Roles
  <1>2. Roles' /\ TokenHeld'
    BY DEF Tick, Goto, manager, callers, Roles, TypeOK, Call, ManagerStatus, TokenHeld
  <1>3. Refreshing' /\ StopState' /\ Numbered'
    BY DEF Tick, Goto, manager, callers, Refreshing, Roles, TokenHeld, StopState, TypeOK, Call,
       ManagerStatus, Numbered
  <1>4. OffIsClean' /\ StopIsFinal' /\ LaterTransitionWins' /\ ConnectedIsApplied'
    BY DEF Tick, Goto, manager, callers, OffIsClean, Stopping, Roles, TokenHeld, Refreshing, StopIsFinal,
       StopState, TypeOK, Call, ManagerStatus, LaterTransitionWins, Numbered, ConnectedIsApplied
  <1> QED BY <1>1, <1>2, <1>3, <1>4 DEF IInv

\* The poll loop ends.
LEMMA PollStoppedKeeps ==
    ASSUME IInv, PollStopped
    PROVE  IInv'
  <1> USE TailscaleAssumption DEF RefreshPcs, HoldPcs, CallPcs, StopPcs, Callers, Refreshers, Threads, IInv
  <1>1. TypeOK'
    BY DEF PollStopped, Goto, manager, callers, TypeOK, Call, ManagerStatus, Roles
  <1>2. Roles' /\ TokenHeld'
    BY DEF PollStopped, Goto, manager, callers, Roles, TypeOK, Call, ManagerStatus, TokenHeld
  <1>3. Refreshing' /\ StopState' /\ Numbered'
    BY DEF PollStopped, Goto, manager, callers, Refreshing, Roles, TokenHeld, StopState, TypeOK, Call,
       ManagerStatus, Numbered
  <1>4. OffIsClean' /\ StopIsFinal' /\ LaterTransitionWins' /\ ConnectedIsApplied'
    BY DEF PollStopped, Goto, manager, callers, OffIsClean, Stopping, Roles, TokenHeld, Refreshing,
       StopIsFinal, StopState, TypeOK, Call, ManagerStatus, LaterTransitionWins, Numbered,
       ConnectedIsApplied
  <1> QED BY <1>1, <1>2, <1>3, <1>4 DEF IInv

\* The poll loop takes the token.
LEMMA PollKeeps ==
    ASSUME IInv, Poll
    PROVE  IInv'
  <1> USE TailscaleAssumption DEF RefreshPcs, HoldPcs, CallPcs, StopPcs, Callers, Refreshers, Threads, IInv
  <1>1. TypeOK'
    BY DEF Poll, On, Goto, manager, callers, TypeOK, Call, ManagerStatus, Roles
  <1>2. Roles' /\ TokenHeld'
    BY DEF Poll, On, Goto, manager, callers, Roles, TypeOK, Call, ManagerStatus, TokenHeld
  <1>3. Refreshing' /\ StopState' /\ Numbered'
    BY DEF Poll, On, Goto, manager, callers, Refreshing, Roles, TokenHeld, StopState, TypeOK, Call,
       ManagerStatus, Numbered
  <1>4. OffIsClean' /\ StopIsFinal' /\ LaterTransitionWins' /\ ConnectedIsApplied'
    BY DEF Poll, On, Goto, manager, callers, OffIsClean, Stopping, Roles, TokenHeld, Refreshing,
       StopIsFinal, StopState, TypeOK, Call, ManagerStatus, LaterTransitionWins, Numbered,
       ConnectedIsApplied
  <1> QED BY <1>1, <1>2, <1>3, <1>4 DEF IInv

\* Stop closes the channel.
LEMMA CloseStopKeeps ==
    ASSUME IInv, NEW t \in {Starter, Stopper}, CloseStop(t)
    PROVE  IInv'
  <1> USE TailscaleAssumption DEF RefreshPcs, HoldPcs, CallPcs, StopPcs, Callers, Refreshers, Threads, IInv
  <1>1. TypeOK'
    BY DEF CloseStop, Goto, manager, callers, TypeOK, Call, ManagerStatus, Roles
  <1>2. Roles' /\ TokenHeld'
    BY DEF CloseStop, Goto, manager, callers, Roles, TypeOK, Call, ManagerStatus, TokenHeld
  <1>3. Refreshing' /\ StopState' /\ Numbered'
    BY DEF CloseStop, Goto, manager, callers, Refreshing, Roles, TokenHeld, StopState, TypeOK, Call,
       ManagerStatus, Numbered
  <1>4. OffIsClean' /\ StopIsFinal' /\ LaterTransitionWins' /\ ConnectedIsApplied'
    BY DEF CloseStop, Goto, manager, callers, OffIsClean, Stopping, Roles, TokenHeld, Refreshing,
       StopIsFinal, StopState, TypeOK, Call, ManagerStatus, LaterTransitionWins, Numbered,
       ConnectedIsApplied
  <1> QED BY <1>1, <1>2, <1>3, <1>4 DEF IInv

\* Stop switches the manager off.
LEMMA MarkStoppedKeeps ==
    ASSUME IInv, NEW t \in {Starter, Stopper}, MarkStopped(t)
    PROVE  IInv'
  <1> USE TailscaleAssumption DEF RefreshPcs, HoldPcs, CallPcs, StopPcs, Callers, Refreshers, Threads, IInv
  <1>1. TypeOK'
    BY DEF MarkStopped, Goto, manager, callers, TypeOK, Call, ManagerStatus, Roles
  <1>2. Roles' /\ TokenHeld'
    BY DEF MarkStopped, Goto, manager, callers, Roles, TypeOK, Call, ManagerStatus, TokenHeld
  <1>3. Refreshing' /\ StopState' /\ Numbered'
    BY DEF MarkStopped, Goto, manager, callers, Refreshing, Roles, TokenHeld, StopState, TypeOK, Call,
       ManagerStatus, Numbered
  <1>4. OffIsClean' /\ StopIsFinal' /\ LaterTransitionWins' /\ ConnectedIsApplied'
    BY DEF MarkStopped, Goto, manager, callers, OffIsClean, Stopping, Roles, TokenHeld, Refreshing,
       StopIsFinal, StopState, TypeOK, Call, ManagerStatus, LaterTransitionWins, Numbered,
       ConnectedIsApplied
  <1> QED BY <1>1, <1>2, <1>3, <1>4 DEF IInv

\* Stop takes the token.
LEMMA TakeOverKeeps ==
    ASSUME IInv, NEW t \in {Starter, Stopper}, lockTransitionForStop(t)
    PROVE  IInv'
  <1> USE TailscaleAssumption DEF RefreshPcs, HoldPcs, CallPcs, StopPcs, Callers, Refreshers, Threads, IInv
  <1>1. TypeOK'
    BY DEF lockTransitionForStop, Goto, manager, callers, TypeOK, Call, ManagerStatus, Roles
  <1>2. Roles' /\ TokenHeld'
    BY DEF lockTransitionForStop, Goto, manager, callers, Roles, TypeOK, Call, ManagerStatus, TokenHeld
  <1>3. Refreshing' /\ StopState' /\ Numbered'
    BY DEF lockTransitionForStop, Goto, manager, callers, Refreshing, Roles, TokenHeld, StopState,
       TypeOK, Call, ManagerStatus, Numbered
  <1>4. OffIsClean' /\ StopIsFinal' /\ LaterTransitionWins' /\ ConnectedIsApplied'
    BY DEF lockTransitionForStop, Goto, manager, callers, OffIsClean, Stopping, Roles, TokenHeld,
       Refreshing, StopIsFinal, StopState, TypeOK, Call, ManagerStatus, LaterTransitionWins, Numbered,
       ConnectedIsApplied
  <1> QED BY <1>1, <1>2, <1>3, <1>4 DEF IInv

\* Stop clears the store when the poll loop has ended.
LEMMA StopEndsKeeps ==
    ASSUME IInv, NEW t \in {Starter, Stopper}, StopEnds(t)
    PROVE  IInv'
  <1> USE TailscaleAssumption DEF RefreshPcs, HoldPcs, CallPcs, StopPcs, Callers, Refreshers, Threads, IInv
  <1>1. TypeOK'
    BY DEF StopEnds, Goto, manager, callers, TypeOK, Call, ManagerStatus, Roles
  <1>2. Roles' /\ TokenHeld'
    BY DEF StopEnds, Goto, manager, callers, Roles, TypeOK, Call, ManagerStatus, TokenHeld
  <1>3. Refreshing' /\ StopState' /\ Numbered'
    BY DEF StopEnds, Goto, manager, callers, Refreshing, Roles, TokenHeld, StopState, TypeOK, Call,
       ManagerStatus, Numbered
  <1>4. OffIsClean' /\ StopIsFinal' /\ LaterTransitionWins' /\ ConnectedIsApplied'
    BY DEF StopEnds, Goto, manager, callers, OffIsClean, Stopping, Roles, TokenHeld, Refreshing,
       StopIsFinal, StopState, TypeOK, Call, ManagerStatus, LaterTransitionWins, Numbered,
       ConnectedIsApplied
  <1> QED BY <1>1, <1>2, <1>3, <1>4 DEF IInv

\* The new manager is published, or stopped because the shutdown was first.
LEMMA PublishKeeps ==
    ASSUME IInv, Publish
    PROVE  IInv'
  <1> USE TailscaleAssumption DEF RefreshPcs, HoldPcs, CallPcs, StopPcs, Callers, Refreshers, Threads, IInv
  <1>1. TypeOK'
    <2>1. CASE shut
      BY <2>1 DEF Publish, Goto, manager, TypeOK
    <2>2. CASE ~shut
      BY <2>2 DEF Publish, Goto, manager, TypeOK
    <2> QED BY <2>1, <2>2
  <1>2. Roles' /\ TokenHeld'
    BY DEF Publish, Goto, manager, callers, Roles, TypeOK, Call, ManagerStatus, TokenHeld
  <1>3. Refreshing' /\ StopState' /\ Numbered'
    BY DEF Publish, Goto, manager, callers, Refreshing, Roles, TokenHeld, StopState, TypeOK, Call,
       ManagerStatus, Numbered
  <1>4. OffIsClean' /\ StopIsFinal' /\ LaterTransitionWins' /\ ConnectedIsApplied'
    BY DEF Publish, Goto, manager, callers, OffIsClean, Stopping, Roles, TokenHeld, Refreshing,
       StopIsFinal, StopState, TypeOK, Call, ManagerStatus, LaterTransitionWins, Numbered,
       ConnectedIsApplied
  <1> QED BY <1>1, <1>2, <1>3, <1>4 DEF IInv

\* The shutdown takes the manager away.
LEMMA ShutdownKeeps ==
    ASSUME IInv, StopPolicyEnforcement
    PROVE  IInv'
  <1> USE TailscaleAssumption DEF RefreshPcs, HoldPcs, CallPcs, StopPcs, Callers, Refreshers, Threads, IInv
  <1>1. TypeOK'
    <2>1. CASE published
      BY <2>1 DEF StopPolicyEnforcement, Goto, manager, TypeOK
    <2>2. CASE ~published
      BY <2>2 DEF StopPolicyEnforcement, Goto, manager, TypeOK
    <2> QED BY <2>1, <2>2
  <1>2. Roles' /\ TokenHeld'
    BY DEF StopPolicyEnforcement, Goto, manager, callers, Roles, TypeOK, Call, ManagerStatus, TokenHeld
  <1>3. Refreshing' /\ StopState' /\ Numbered'
    BY DEF StopPolicyEnforcement, Goto, manager, callers, Refreshing, Roles, TokenHeld, StopState,
       TypeOK, Call, ManagerStatus, Numbered
  <1>4. OffIsClean' /\ StopIsFinal' /\ LaterTransitionWins' /\ ConnectedIsApplied'
    BY DEF StopPolicyEnforcement, Goto, manager, callers, OffIsClean, Stopping, Roles, TokenHeld,
       Refreshing, StopIsFinal, StopState, TypeOK, Call, ManagerStatus, LaterTransitionWins, Numbered,
       ConnectedIsApplied
  <1> QED BY <1>1, <1>2, <1>3, <1>4 DEF IInv

\* The manager is made, with its poll loop.
LEMMA NewManagerKeeps ==
    ASSUME IInv, NewManager
    PROVE  IInv'
  <1> USE TailscaleAssumption DEF RefreshPcs, HoldPcs, CallPcs, StopPcs, Callers, Refreshers, Threads, IInv
  <1>a. /\ call' \in [Callers -> Call] /\ call'[Starter].seq = call[Starter].seq
        /\ call'[Starter].result = call[Starter].result
        /\ \A d \in Callers \ {Starter} : call'[d] = call[d]
    BY DEF NewManager, TypeOK, Call
  <1>1. TypeOK'
    BY <1>a DEF NewManager, Goto, manager, callers, TypeOK, Call, ManagerStatus, Roles
  <1>2. Roles' /\ TokenHeld'
    BY <1>a DEF NewManager, Goto, manager, callers, Roles, TypeOK, Call, ManagerStatus, TokenHeld
  <1>3. Refreshing' /\ StopState' /\ Numbered'
    BY <1>a DEF NewManager, Goto, manager, callers, Refreshing, Roles, TokenHeld, StopState, TypeOK,
       Call, ManagerStatus, Numbered
  <1>4. OffIsClean' /\ StopIsFinal' /\ LaterTransitionWins' /\ ConnectedIsApplied'
    BY <1>a DEF NewManager, Goto, manager, callers, OffIsClean, Stopping, Roles, TokenHeld, Refreshing,
       StopIsFinal, StopState, TypeOK, Call, ManagerStatus, LaterTransitionWins, Numbered,
       ConnectedIsApplied
  <1> QED BY <1>1, <1>2, <1>3, <1>4 DEF IInv

\* A request arrives.
LEMMA PutConfigKeeps ==
    ASSUME IInv, NEW h \in Handlers, NEW e \in BOOLEAN, PutConfig(h, e)
    PROVE  IInv'
  <1> USE TailscaleAssumption DEF RefreshPcs, HoldPcs, CallPcs, StopPcs, Callers, Refreshers, Threads, IInv
  <1>a. /\ call' \in [Callers -> Call] /\ call'[h].seq = 0 /\ call'[h].result = "none"
        /\ \A d \in Callers \ {h} : call'[d] = call[d]
    BY DEF PutConfig, TypeOK, Call
  <1>1. TypeOK'
    BY <1>a DEF PutConfig, Goto, manager, callers, TypeOK, Call, ManagerStatus, Roles
  <1>2. Roles' /\ TokenHeld'
    BY <1>a DEF PutConfig, Goto, manager, callers, Roles, TypeOK, Call, ManagerStatus, TokenHeld
  <1>3. Refreshing' /\ StopState' /\ Numbered'
    BY <1>a DEF PutConfig, Goto, manager, callers, Refreshing, Roles, TokenHeld, StopState, TypeOK, Call,
       ManagerStatus, Numbered
  <1>4. OffIsClean' /\ StopIsFinal' /\ LaterTransitionWins' /\ ConnectedIsApplied'
    BY <1>a DEF PutConfig, Goto, manager, callers, OffIsClean, Stopping, Roles, TokenHeld, Refreshing,
       StopIsFinal, StopState, TypeOK, Call, ManagerStatus, LaterTransitionWins, Numbered,
       ConnectedIsApplied
  <1> QED BY <1>1, <1>2, <1>3, <1>4 DEF IInv

\* A request gets the configuration lock.
LEMMA PutLockKeeps ==
    ASSUME IInv, NEW h \in Handlers, PutLock(h)
    PROVE  IInv'
  <1> USE TailscaleAssumption DEF RefreshPcs, HoldPcs, CallPcs, StopPcs, Callers, Refreshers, Threads, IInv
  <1>a. /\ call' \in [Callers -> Call] /\ call'[h].seq = call[h].seq /\ call'[h].result = call[h].result
        /\ call'[h].want = call[h].want /\ \A d \in Callers \ {h} : call'[d] = call[d]
    BY DEF PutLock, TypeOK, Call
  <1>1. TypeOK'
    BY <1>a DEF PutLock, Goto, manager, callers, TypeOK, Call, ManagerStatus, Roles
  <1>2. Roles' /\ TokenHeld'
    BY <1>a DEF PutLock, Goto, manager, callers, Roles, TypeOK, Call, ManagerStatus, TokenHeld
  <1>3. Refreshing' /\ StopState' /\ Numbered'
    BY <1>a DEF PutLock, Goto, manager, callers, Refreshing, Roles, TokenHeld, StopState, TypeOK, Call,
       ManagerStatus, Numbered
  <1>4. OffIsClean' /\ StopIsFinal' /\ LaterTransitionWins' /\ ConnectedIsApplied'
    <2>1. OffIsClean'
      BY <1>a DEF OffIsClean, Stopping, PutLock, Goto, manager, callers, Roles, TokenHeld,
         Refreshing, StopState, TypeOK, Call, ManagerStatus, Numbered
    <2>2. StopIsFinal'
      BY <1>a DEF StopIsFinal, Stopping, PutLock, Goto, manager, callers, Roles, TokenHeld,
         Refreshing, StopState, TypeOK, Call, ManagerStatus, Numbered
    <2>3. LaterTransitionWins' /\ ConnectedIsApplied'
      BY <1>a DEF LaterTransitionWins, ConnectedIsApplied, PutLock, Goto, manager, callers, Roles,
         TokenHeld, Refreshing, StopState, TypeOK, Call, ManagerStatus, Numbered
    <2> QED BY <2>1, <2>2, <2>3
  <1> QED BY <1>1, <1>2, <1>3, <1>4 DEF IInv

\* The setting is stored, or the manager rolled back.
LEMMA PersistKeeps ==
    ASSUME IInv, NEW h \in Handlers, Persist(h)
    PROVE  IInv'
  <1> USE TailscaleAssumption DEF RefreshPcs, HoldPcs, CallPcs, StopPcs, Callers, Refreshers, Threads, IInv
  <1>1. CASE setting' = call[h].want /\ configMu' = None /\ Goto(h, "idle") /\ UNCHANGED call
    <2>1. TypeOK'
      BY <1>1 DEF Persist, Call, Goto, manager, callers, TypeOK, Call, ManagerStatus, Roles
    <2>2. Roles' /\ TokenHeld'
      BY <1>1 DEF Persist, Call, Goto, manager, callers, Roles, TypeOK, Call, ManagerStatus, TokenHeld
    <2>3. Refreshing' /\ StopState' /\ Numbered'
      BY <1>1 DEF Persist, Call, Goto, manager, callers, Refreshing, Roles, TokenHeld, StopState, TypeOK,
         Call, ManagerStatus, Numbered
    <2>4. OffIsClean' /\ StopIsFinal' /\ LaterTransitionWins' /\ ConnectedIsApplied'
      BY <1>1 DEF Persist, Call, Goto, manager, callers, OffIsClean, Stopping, Roles, TokenHeld,
         Refreshing, StopIsFinal, StopState, TypeOK, Call, ManagerStatus, LaterTransitionWins, Numbered,
         ConnectedIsApplied
    <2> QED BY <2>1, <2>2, <2>3, <2>4 DEF IInv
  <1>2. CASE /\ setting' \in {setting, call[h].want} /\ UNCHANGED configMu /\ Goto(h, "call")
             /\ call' = [call EXCEPT ![h] = [want |-> @.prev, seq |-> 0, prev |-> @.prev,
                                             back |-> TRUE, result |-> "none"]]
    <2>a. /\ call' \in [Callers -> Call] /\ call'[h].seq = 0 /\ call'[h].result = "none"
          /\ \A d \in Callers \ {h} : call'[d] = call[d]
      BY <1>2 DEF TypeOK, Call
    <2>1. TypeOK'
      BY <1>2, <2>a DEF Persist, Call, Goto, manager, callers, TypeOK, Call, ManagerStatus, Roles
    <2>2. Roles' /\ TokenHeld'
      BY <1>2, <2>a DEF Persist, Call, Goto, manager, callers, Roles, TypeOK, Call, ManagerStatus, TokenHeld
    <2>3. Refreshing' /\ StopState' /\ Numbered'
      BY <1>2, <2>a DEF Persist, Call, Goto, manager, callers, Refreshing, Roles, TokenHeld, StopState,
         TypeOK, Call, ManagerStatus, Numbered
    <2>4. OffIsClean' /\ StopIsFinal' /\ LaterTransitionWins' /\ ConnectedIsApplied'
      BY <1>2, <2>a DEF Persist, Call, Goto, manager, callers, OffIsClean, Stopping, Roles, TokenHeld,
         Refreshing, StopIsFinal, StopState, TypeOK, Call, ManagerStatus, LaterTransitionWins, Numbered,
         ConnectedIsApplied
    <2> QED BY <2>1, <2>2, <2>3, <2>4 DEF IInv
  <1> QED BY <1>1, <1>2 DEF Persist

\* A link request reads its peer, which changes none of what the invariant is
\* about but the count of requests.
LEMMA LinkReadKeeps ==
    ASSUME IInv, NEW l \in Linkers, LinkRead(l)
    PROVE  IInv'
  <1> USE TailscaleAssumption DEF IInv
  <1>a. UNCHANGED <<pc, token, seq, enabled, status, stopped, peers, refreshed, closed, obs, linked,
                    fetched, call, configMu, setting, published, shut>>
    BY DEF LinkRead, manager
  <1>1. TypeOK'
    BY <1>a DEF LinkRead, TypeOK
  <1>2. Roles' /\ TokenHeld' /\ Refreshing' /\ StopState' /\ Numbered'
    BY <1>a DEF Roles, TokenHeld, Refreshing, StopState, Numbered
  <1>3. OffIsClean' /\ StopIsFinal' /\ LaterTransitionWins' /\ ConnectedIsApplied'
    BY <1>a DEF OffIsClean, StopIsFinal, Stopping, LaterTransitionWins, ConnectedIsApplied
  <1> QED BY <1>1, <1>2, <1>3

\* It writes the addresses: while the integration is off they count as late.
LEMMA LinkWriteKeeps ==
    ASSUME IInv, NEW l \in Linkers, LinkWrite(l)
    PROVE  IInv'
  <1> USE TailscaleAssumption DEF IInv
  <1>a. UNCHANGED <<pc, token, seq, enabled, status, stopped, peers, refreshed, closed, obs,
                    fetched, call, configMu, setting, published, shut, puts>>
    BY DEF LinkWrite
  <1>b. linked' \in {linked, linked \cup {enabled}}
    BY DEF LinkWrite
  <1>c. ~enabled => (TRUE \in linked' <=> TRUE \in linked)
    BY <1>b DEF TypeOK
  <1>d. linked' \subseteq BOOLEAN
    BY <1>b DEF TypeOK
  <1>1. TypeOK'
    BY <1>a, <1>d DEF LinkWrite, TypeOK
  <1>2. Roles' /\ TokenHeld' /\ Refreshing' /\ StopState' /\ Numbered'
    BY <1>a DEF Roles, TokenHeld, Refreshing, StopState, Numbered
  <1>3. OffIsClean'
    BY <1>a, <1>c DEF OffIsClean, Stopping
  <1>4. StopIsFinal'
    BY <1>a, <1>c DEF StopIsFinal, Stopping, StopState
  <1>5. LaterTransitionWins' /\ ConnectedIsApplied'
    BY <1>a DEF LaterTransitionWins, ConnectedIsApplied
  <1> QED BY <1>1, <1>2, <1>3, <1>4, <1>5

-----------------------------------------------------------------------------
(* The theorems *)

\* Every step of every goroutine keeps the invariant.
LEMMA NextKeeps == IInv /\ [Next]_vars => IInv'
  <1> SUFFICES ASSUME IInv, [Next]_vars PROVE IInv'
    OBVIOUS
  <1>1. ASSUME NEW t \in Refreshers, Refresh(t) PROVE IInv'
    BY <1>1, DetectKeeps, StatusKeeps, ApplyKeeps, InstallKeeps DEF Refresh
  <1>2. ASSUME NEW c \in Callers, Change(c) PROVE IInv'
    BY <1>1, <1>2, SetEnabledKeeps, LockKeeps, TransitionKeeps, ClearKeeps DEF Change, Refreshers
  <1>3. ASSUME NEW t \in {Starter, Stopper}, Stop(t) PROVE IInv'
    BY <1>3, CloseStopKeeps, MarkStoppedKeeps, TakeOverKeeps, StopEndsKeeps DEF Stop
  <1>4. CASE Run
    BY <1>1, <1>4, TickKeeps, PollStoppedKeeps, PollKeeps, DetectOnlyKeeps DEF Run, Refreshers
  <1>5. CASE NewManager \/ Publish \/ StopPolicyEnforcement
    BY <1>5, NewManagerKeeps, PublishKeeps, ShutdownKeeps
  <1>6. ASSUME NEW h \in Handlers, PutLock(h) \/ Persist(h) \/ \E e \in BOOLEAN : PutConfig(h,
     e) PROVE IInv'
    BY <1>6, PutLockKeeps, PersistKeeps, PutConfigKeeps
  <1>7. CASE UNCHANGED vars
    <2>1. TypeOK'
      BY <1>7 DEF vars, manager, callers, IInv, TypeOK
    <2>5. OffIsClean'
      <3>1. UNCHANGED <<pc, token, enabled, obs, linked>>
        BY <1>7 DEF vars, manager
      <3> QED BY <3>1 DEF IInv, OffIsClean, Stopping
    <2>6. LaterTransitionWins' /\ ConnectedIsApplied'
      BY <1>7 DEF vars, manager, callers, IInv, LaterTransitionWins, ConnectedIsApplied
    <2>2. Roles' /\ TokenHeld' /\ Refreshing'
      BY <1>7 DEF vars, manager, callers, IInv, Roles, TokenHeld, Refreshing
    <2>3. StopState' /\ Numbered'
      BY <1>7 DEF vars, manager, callers, IInv, StopState, Numbered
    <2>4. StopIsFinal'
      <3>1. UNCHANGED <<pc, stopped, obs, linked>>
        BY <1>7 DEF vars, manager
      <3> QED BY <3>1 DEF IInv, StopIsFinal, Stopping
    <2> QED BY <2>1, <2>2, <2>3, <2>4, <2>5, <2>6 DEF IInv
  <1>8. ASSUME NEW l \in Linkers, LinkRead(l) \/ LinkWrite(l) PROVE IInv'
    BY <1>8, LinkReadKeeps, LinkWriteKeeps
  <1> QED BY <1>2, <1>3, <1>4, <1>5, <1>6, <1>7, <1>8 DEF Next

\* The invariant holds in every reachable state.
THEOREM Invariance == Spec => []IInv
  BY InitIInv, NextKeeps, PTL DEF Spec

\* The types of the manager's state, of its callers and of the places they are at.
THEOREM TypeCorrect == Spec => []TypeOK
  <1>1. IInv => TypeOK
    BY DEF IInv
  <1> QED BY <1>1, Invariance, PTL

\* Switched off, the manager leaves in the device store none of the addresses
\* that its refreshes and the link requests put there while it was on, however
\* these, the other requests and the shutdown interleave.  Addresses a link
\* request writes after the switch are no part of the statement: the code lets
\* it write them.
THEOREM OffLeavesNothing == Spec => []OffIsClean
  <1>1. IInv => OffIsClean
    BY DEF IInv
  <1> QED BY <1>1, Invariance, PTL

\* Once Stop has returned nobody applies or clears anything any more.
THEOREM StoppedForGood == Spec => []StopIsFinal
  <1>1. IInv => StopIsFinal
    BY DEF IInv
  <1> QED BY <1>1, Invariance, PTL

\* The latest successful request decides whether the manager is on.
THEOREM LatestDecides == Spec => []LaterTransitionWins
  <1>1. IInv => LaterTransitionWins
    BY DEF IInv
  <1> QED BY <1>1, Invariance, PTL

\* The peers shown as current are the ones of the last refresh of the device store.
THEOREM ShownIsApplied == Spec => []ConnectedIsApplied
  <1>1. IInv => ConnectedIsApplied
    BY DEF IInv
  <1> QED BY <1>1, Invariance, PTL
=============================================================================
