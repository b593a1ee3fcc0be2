--------------------------- MODULE TailscaleManager ---------------------------
(***************************************************************************)
(* The Tailscale manager (tailscale/manager.go), what it puts into the      *)
(* device store, and the four that drive it or use it: the start of the     *)
(* policy enforcement, the API handler that switches the integration on and *)
(* off, the one that links a peer to a device, and the shutdown.            *)
(*                                                                          *)
(* A critical section of m.mu is one step.  A goroutine that makes          *)
(* transitions or refreshes holds the transition token over many of them.   *)
(* A context may end at any time, so a call that looks at its context, waits*)
(* with it or asks tailscaled may always fail; cancelling the request of    *)
(* another goroutine only makes that happen sooner, so activeCancel is left *)
(* out.  Whether the socket was detected is only reported, and left out too. *)
(* A snapshot of peers is opaque, and so is what the store keeps of it      *)
(* (DeviceStore has the details).                                           *)
(***************************************************************************)
EXTENDS Naturals

CONSTANTS
    Handlers,    \* requests the web server runs at the same time
    Linkers,     \* of them those that link a peer to a device
    Starter,     \* the goroutine of StartPolicyEnforcement
    Poller,      \* the goroutine of Manager.run
    Stopper,     \* the goroutine of StopPolicyEnforcement
    Snapshots,   \* lists of peers tailscaled may report
    None,
    MaxPuts      \* bound on the requests

Callers == Handlers \cup {Starter}
Refreshers == Callers \cup {Poller}
Threads == Refreshers \cup {Stopper}

ASSUME TailscaleAssumption ==
    /\ MaxPuts \in Nat /\ None \notin Threads \cup Snapshots
    /\ Starter \notin Handlers /\ Poller \notin Callers /\ Stopper \notin Refreshers

ManagerStatus == {"disabled", "unavailable", "connecting", "connected", "degraded", "stopped"}

VARIABLES
    pc,         \* where each goroutine is
    token,      \* the holder of transitionToken
    seq,        \* transitionSequence
    enabled, status, stopped,
    peers,      \* self and peers of the last good snapshot
    refreshed,  \* lastRefresh is set
    closed,     \* the channel m.stop is closed
    obs,        \* the observations of the last refresh the device store holds
    linked,     \* and for each peer a link request wrote since: was it enabled then
    fetched,    \* what each goroutine got from tailscaled
    call,       \* the SetEnabled call each goroutine makes or made last
    configMu,   \* the holder of tailscaleConfigMu
    setting,    \* the stored tailscale_identity_enabled
    published, shut,  \* tailscaleManagerLifecycle: manager # nil, stopped
    puts,
    link        \* where each request to link a peer is

manager == <<token, seq, enabled, status, stopped, peers, refreshed, closed, obs, linked>>
callers == <<fetched, call, configMu, setting, published, shut, puts, link>>
vars == <<pc, manager, callers>>

Call == [want : BOOLEAN, seq : Nat, prev : BOOLEAN, back : BOOLEAN, result : {"none", "ok", "error"}]

-----------------------------------------------------------------------------
(* The end of a call *)

Goto(t, l) == pc' = [pc EXCEPT ![t] = l]

\* Where the caller of SetEnabled goes on: the handler answers after an error
\* while disabling and after a rollback, and stores the setting otherwise.
After(c, ok) ==
    IF c = Starter THEN "done"
    ELSE IF call[c].back \/ (~ok /\ ~call[c].want) THEN "idle"
    ELSE "persist"

Return(c, ok) ==
    /\ Goto(c, After(c, ok))
    /\ call' = [call EXCEPT ![c].result = IF ok THEN "ok" ELSE "error"]
    /\ configMu' = IF After(c, ok) = "idle" THEN None ELSE configMu

\* The refresh of a goroutine ends, and with it its hold of the token.
EndRefresh(t, ok) ==
    /\ token' = None
    /\ IF t = Poller THEN Goto(t, "select") /\ UNCHANGED <<call, configMu>> ELSE Return(t, ok)
    /\ fetched' = [fetched EXCEPT ![t] = None]
    /\ UNCHANGED <<setting, published, shut, puts, link>>

-----------------------------------------------------------------------------
(* SetEnabled *)

\* The request is numbered before it waits.  The context of a rollback and of
\* the start is new; that of a request may have ended.
SetEnabled(c) ==
    /\ pc[c] = "call"
    /\ \/ /\ stopped \/ (c \in Handlers /\ ~call[c].back)
          /\ Return(c, FALSE) /\ UNCHANGED seq
       \/ /\ ~stopped /\ seq' = seq + 1 /\ Goto(c, "lock")
          /\ call' = [call EXCEPT ![c].seq = seq + 1, ![c].result = "none"]
          /\ UNCHANGED configMu
    /\ UNCHANGED <<token, enabled, status, stopped, peers, refreshed, closed, obs, linked,
                   fetched, setting, published, shut, puts, link>>

lockTransitionShared(c) ==
    /\ pc[c] = "lock"
    /\ \/ Return(c, FALSE) /\ UNCHANGED token
       \/ token' = c /\ Goto(c, "locked") /\ UNCHANGED <<call, configMu>>
    /\ UNCHANGED <<seq, enabled, status, stopped, peers, refreshed, closed, obs, linked,
                   fetched, setting, published, shut, puts, link>>

\* lockTransition; the first disjunct is the end of the context or m.stop.
lockTransition(c) ==
    /\ pc[c] = "lock"
    /\ \/ Return(c, FALSE) /\ UNCHANGED token
       \/ token = None /\ token' = c /\ Goto(c, "locked") /\ UNCHANGED <<call, configMu>>
    /\ UNCHANGED <<seq, enabled, status, stopped, peers, refreshed, closed, obs, linked,
                   fetched, setting, published, shut, puts, link>>

SupersededNever(c) == FALSE

Superseded(c) == call[c].seq # seq

Transition(c) ==
    /\ pc[c] = "locked"
    /\ \/ EndRefresh(c, FALSE) /\ UNCHANGED <<enabled, status, peers>>
       \/ /\ ~stopped /\ Superseded(c)
          /\ EndRefresh(c, TRUE) /\ UNCHANGED <<enabled, status, peers>>
       \/ /\ ~stopped /\ ~Superseded(c) /\ ~call[c].want
          /\ enabled' = FALSE /\ status' = "disabled" /\ peers' = None /\ Goto(c, "clear")
          /\ UNCHANGED <<token, callers>>
       \/ /\ ~stopped /\ ~Superseded(c) /\ call[c].want
          /\ enabled' = TRUE /\ status' = "connecting" /\ Goto(c, "refresh")
          /\ UNCHANGED <<token, peers, callers>>
    /\ UNCHANGED <<seq, stopped, refreshed, closed, obs, linked>>

\* Disabling clears the observations and returns.
Clear(c) ==
    /\ pc[c] = "clear" /\ obs' = None /\ linked' = {} /\ EndRefresh(c, TRUE)
    /\ UNCHANGED <<seq, enabled, status, stopped, peers, refreshed, closed>>

-----------------------------------------------------------------------------
(* refreshLocked *)

On == enabled /\ ~stopped

failureStatus == IF refreshed THEN "degraded" ELSE "unavailable"
Failed(t) ==
    /\ status' = IF stopped THEN status ELSE failureStatus
    /\ EndRefresh(t, FALSE)

\* The first check, and the detection of the socket, which may be missing.
Detect(t) ==
    /\ pc[t] = "refresh"
    /\ \/ ~On /\ EndRefresh(t, TRUE) /\ UNCHANGED status
       \/ Failed(t)
       \/ On /\ status' = "connecting" /\ Goto(t, "request") /\ UNCHANGED <<token, callers>>
    /\ UNCHANGED <<seq, enabled, stopped, peers, refreshed, closed, obs, linked>>

\* The answer of tailscaled, or the failure to get one.
Status(t) ==
    /\ pc[t] = "request"
    /\ \/ ~On /\ EndRefresh(t, TRUE) /\ UNCHANGED status
       \/ Failed(t)
       \/ \E s \in Snapshots :
            /\ On /\ fetched' = [fetched EXCEPT ![t] = s] /\ Goto(t, "apply")
            /\ UNCHANGED <<status, token, call, configMu, setting, published, shut, puts, link>>
    /\ UNCHANGED <<seq, enabled, stopped, peers, refreshed, closed, obs, linked>>

ApplyUnchecked(t) ==
    /\ pc[t] = "apply"
    /\ \/ obs' = fetched[t] /\ linked' = {}
       \/ UNCHANGED <<obs, linked>>
    /\ Goto(t, "applied")
    /\ UNCHANGED <<seq, enabled, status, stopped, peers, refreshed, closed, token, callers>>

\* The store takes the snapshot or refuses it, without m.mu: the manager may
\* have been stopped since the last check.
Apply(t) ==
    /\ pc[t] = "apply"
    /\ \/ obs' = fetched[t] /\ linked' = {} /\ Goto(t, "applied") /\ UNCHANGED <<status, token, callers>>
       \/ /\ UNCHANGED <<obs, linked>>
          /\ status' = IF stopped THEN status ELSE "degraded"
          /\ EndRefresh(t, stopped)
    /\ UNCHANGED <<seq, enabled, stopped, peers, refreshed, closed>>

Install(t) ==
    /\ pc[t] = "applied"
    /\ IF On THEN /\ peers' = fetched[t] /\ refreshed' = TRUE
                  /\ status' = "connected"
             ELSE UNCHANGED <<peers, refreshed, status>>
    /\ EndRefresh(t, TRUE)
    /\ UNCHANGED <<seq, enabled, stopped, closed, obs, linked>>

-----------------------------------------------------------------------------
(* The poll loop *)

Tick ==
    /\ pc[Poller] = "select" /\ Goto(Poller, "poll")
    /\ UNCHANGED <<manager, callers>>

PollStoppedIdle ==
    /\ pc[Poller] = "select" /\ closed /\ Goto(Poller, "done")
    /\ UNCHANGED <<manager, callers>>

PollStopped ==
    /\ pc[Poller] \in {"select", "poll"} /\ closed /\ Goto(Poller, "done")
    /\ UNCHANGED <<manager, callers>>

Poll ==
    /\ pc[Poller] = "poll" /\ token = None
    /\ token' = Poller /\ Goto(Poller, IF On THEN "refresh" ELSE "detect")
    /\ UNCHANGED <<seq, enabled, status, stopped, peers, refreshed, closed, obs, linked, callers>>

\* Manager.Detect, while the integration is off.
DetectOnly ==
    /\ pc[Poller] = "detect"
    /\ \/ UNCHANGED status
       \/ status' = IF enabled /\ status # "stopped" THEN failureStatus ELSE status
    /\ EndRefresh(Poller, TRUE)
    /\ UNCHANGED <<seq, enabled, stopped, peers, refreshed, closed, obs, linked>>

-----------------------------------------------------------------------------
(* Stop *)

CloseStop(t) ==
    /\ pc[t] = "stop" /\ closed' = TRUE /\ Goto(t, "mark")
    /\ UNCHANGED <<token, seq, enabled, status, stopped, peers, refreshed, obs, linked, callers>>

MarkStopped(t) ==
    /\ pc[t] = "mark" /\ Goto(t, "takeover")
    /\ stopped' = TRUE /\ enabled' = FALSE /\ status' = "stopped" /\ peers' = None
    /\ UNCHANGED <<token, seq, refreshed, closed, obs, linked, callers>>

lockTransitionForStopAnyway(t) ==
    /\ pc[t] = "takeover" /\ token' = t /\ Goto(t, "wait")
    /\ UNCHANGED <<seq, enabled, status, stopped, peers, refreshed, closed, obs, linked, callers>>

lockTransitionForStop(t) ==
    /\ pc[t] = "takeover" /\ token = None /\ token' = t /\ Goto(t, "wait")
    /\ UNCHANGED <<seq, enabled, status, stopped, peers, refreshed, closed, obs, linked, callers>>

StopEnds(t) ==
    /\ pc[t] = "wait" /\ pc[Poller] = "done"
    /\ obs' = None /\ linked' = {} /\ token' = None /\ Goto(t, "done")
    /\ UNCHANGED <<seq, enabled, status, stopped, peers, refreshed, closed, callers>>

-----------------------------------------------------------------------------
(* The life of the manager: startTailscaleManager and the shutdown *)

NewManager ==
    /\ pc[Starter] = "start"
    /\ pc' = [pc EXCEPT ![Starter] = "publish", ![Poller] = "select"]
    /\ call' = [call EXCEPT ![Starter].want = setting]
    /\ UNCHANGED <<token, seq, enabled, status, stopped, peers, refreshed, closed, obs, linked,
                   fetched, configMu, setting, published, shut, puts, link>>

Publish ==
    /\ pc[Starter] = "publish"
    /\ IF shut THEN Goto(Starter, "stop") /\ UNCHANGED published
       ELSE published' = TRUE /\ Goto(Starter, IF call[Starter].want THEN "call" ELSE "done")
    /\ UNCHANGED <<manager, fetched, call, configMu, setting, shut, puts, link>>

StopPolicyEnforcement ==
    /\ pc[Stopper] = "idle" /\ shut' = TRUE /\ published' = FALSE
    /\ Goto(Stopper, IF published THEN "stop" ELSE "done")
    /\ UNCHANGED <<manager, fetched, call, configMu, setting, puts, link>>

-----------------------------------------------------------------------------
(* The handler *)

PutConfig(h, e) ==
    /\ pc[h] = "idle" /\ published /\ puts < MaxPuts
    /\ puts' = puts + 1 /\ Goto(h, "mutex")
    /\ call' = [call EXCEPT ![h] = [want |-> e, seq |-> 0, prev |-> FALSE, back |-> FALSE, result |-> "none"]]
    /\ UNCHANGED <<manager, fetched, configMu, setting, published, shut, link>>

PutLock(h) ==
    /\ pc[h] = "mutex" /\ configMu = None /\ configMu' = h /\ Goto(h, "call")
    /\ call' = [call EXCEPT ![h].prev = enabled]
    /\ UNCHANGED <<manager, fetched, setting, published, shut, puts, link>>

\* A setting that cannot be stored is rolled back in the manager.
Persist(h) ==
    /\ pc[h] = "persist"
    /\ \/ setting' = call[h].want /\ configMu' = None /\ Goto(h, "idle") /\ UNCHANGED call
       \/ /\ setting' \in {setting, call[h].want}
          /\ call' = [call EXCEPT ![h] = [want |-> @.prev, seq |-> 0, prev |-> @.prev,
                                          back |-> TRUE, result |-> "none"]]
          /\ Goto(h, "call")
          /\ UNCHANGED configMu
    /\ UNCHANGED <<manager, fetched, published, shut, puts, link>>

-----------------------------------------------------------------------------
(* GSApiDeviceTailscaleLinkPUT, which takes neither the token nor the lock *)

\* The checks, and the copy of the peer: it is in the last good snapshot, which
\* a manager that is connected has.
LinkRead(l) ==
    /\ link[l] = "idle" /\ published /\ enabled /\ status = "connected" /\ puts < MaxPuts
    /\ puts' = puts + 1 /\ link' = [link EXCEPT ![l] = "write"]
    /\ UNCHANGED <<pc, manager, fetched, call, configMu, setting, published, shut>>

\* The store takes the addresses of the peer that was read, or refuses them.
LinkWrite(l) ==
    /\ link[l] = "write" /\ link' = [link EXCEPT ![l] = "idle"]
    /\ linked' \in {linked, linked \cup {enabled}}
    /\ UNCHANGED <<pc, token, seq, enabled, status, stopped, peers, refreshed, closed, obs,
                   fetched, call, configMu, setting, published, shut, puts>>

-----------------------------------------------------------------------------

NoCall == [want |-> FALSE, seq |-> 0, prev |-> FALSE, back |-> FALSE, result |-> "none"]

Init ==
    /\ pc = [t \in Threads |-> IF t = Starter THEN "start" ELSE IF t = Poller THEN "off" ELSE "idle"]
    /\ token = None /\ seq = 0 /\ configMu = None /\ setting \in BOOLEAN
    /\ enabled = FALSE /\ status = "disabled" /\ stopped = FALSE
    /\ peers = None /\ refreshed = FALSE /\ closed = FALSE /\ obs = None /\ linked = {}
    /\ fetched = [t \in Refreshers |-> None] /\ call = [c \in Callers |-> NoCall]
    /\ published = FALSE /\ shut = FALSE /\ puts = 0
    /\ link = [l \in Linkers |-> "idle"]

Refresh(t) == Detect(t) \/ Status(t) \/ Apply(t) \/ Install(t)
Change(c) == SetEnabled(c) \/ lockTransition(c) \/ Transition(c) \/ Clear(c) \/ Refresh(c)
Run == Tick \/ PollStopped \/ Poll \/ DetectOnly \/ Refresh(Poller)
Stop(t) == CloseStop(t) \/ MarkStopped(t) \/ lockTransitionForStop(t) \/ StopEnds(t)

Next ==
    \/ \E c \in Callers : Change(c)
    \/ \E t \in {Starter, Stopper} : Stop(t)
    \/ Run \/ NewManager \/ Publish \/ StopPolicyEnforcement
    \/ \E h \in Handlers : PutLock(h) \/ Persist(h) \/ \E e \in BOOLEAN : PutConfig(h, e)
    \/ \E l \in Linkers : LinkRead(l) \/ LinkWrite(l)

Spec == Init /\ [][Next]_vars

\* Goroutines run on, and a goroutine blocked on a channel is served in turn,
\* so the token reaches the one that stops the manager.  Nobody has to send a
\* request or to shut the process down.
FairSpec ==
    /\ Spec /\ WF_vars(Run) /\ WF_vars(Publish)
    /\ \A c \in Callers : WF_vars(Change(c))
    /\ \A t \in {Starter, Stopper} : WF_vars(Stop(t)) /\ SF_vars(lockTransitionForStop(t))

-----------------------------------------------------------------------------
(* Properties *)

\* The fields of Manager, the token and the places the goroutines are at keep
\* their types.
TypeOK ==
    /\ pc \in [Threads -> {"start", "publish", "off", "select", "poll", "detect", "idle", "mutex", "call",
                           "lock", "locked", "clear", "refresh", "request", "apply", "applied",
                           "persist", "stop", "mark", "takeover", "wait", "done"}]
    /\ token \in Threads \cup {None} /\ configMu \in Handlers \cup {None}
    /\ seq \in Nat /\ puts \in 0 .. MaxPuts /\ call \in [Callers -> Call]
    /\ enabled \in BOOLEAN /\ stopped \in BOOLEAN /\ refreshed \in BOOLEAN
    /\ closed \in BOOLEAN /\ setting \in BOOLEAN /\ published \in BOOLEAN /\ shut \in BOOLEAN
    /\ status \in ManagerStatus /\ peers \in Snapshots \cup {None} /\ obs \in Snapshots \cup {None}
    /\ fetched \in [Refreshers -> Snapshots \cup {None}]
    /\ linked \subseteq BOOLEAN /\ link \in [Linkers -> {"idle", "write"}]

Stopping == \E t \in {Starter, Stopper} : pc[t] \in {"takeover", "wait"}

\* While the integration is off the device store holds no observation a
\* refresh made, and no address a link request wrote while it was on, unless
\* the goroutine that switched it off is about to clear them: addresses of
\* peers must not decide policies after the switch.  One case is left out
\* because the code does not prevent it: a link request that had read its peer
\* may write it after the switch (FALSE \in linked), for it holds neither the
\* token nor tailscaleConfigMu.
OffIsClean ==
    ~enabled /\ (obs # None \/ TRUE \in linked) =>
        Stopping \/ \E c \in Callers : pc[c] = "clear" /\ token = c

\* "Once Stop returns, no new applier operation can begin": nobody is left who
\* would refresh or clear the device store, and it holds nothing but what a
\* link request that had read its peer before may still write.
StopIsFinal ==
    stopped /\ ~Stopping =>
        /\ obs = None /\ TRUE \notin linked /\ pc[Poller] = "done"
        /\ \A t \in Refreshers : pc[t] \notin {"clear", "refresh", "request", "apply", "applied"}

\* "A transition superseded while waiting does not overwrite the later
\* request": what the latest call was told to have done is the case, whoever
\* refreshed or waited meanwhile.
LaterTransitionWins ==
    \A c \in Callers : ~stopped /\ call[c].seq = seq /\ call[c].result = "ok" => enabled = call[c].want

\* A manager that reports "Tailscale identity data is current" shows the peers
\* the device store took at its last refresh.
ConnectedIsApplied == status = "connected" => peers # None /\ obs = peers

\* Stop waits for the poll loop while it holds the token the loop wants, and
\* returns all the same.
StopReturns == \A t \in {Starter, Stopper} : pc[t] = "stop" ~> pc[t] = "done"
=============================================================================
