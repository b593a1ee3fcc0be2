--------------------------- MODULE PolicyIdentity ---------------------------
(***************************************************************************)
(* Whose policy a request gets: ResolveIdentity of application/policy over  *)
(* the devices that discovery observes, the choice of the policy, and the   *)
(* choice of the exception or pause that applies to it.                     *)
(*                                                                          *)
(* Discovery keeps observing while a request is served: the resolver asks   *)
(* the device store three questions and takes its lock for each of them.    *)
(* The device store is reduced to the address and the freshness of each     *)
(* device.  The policies of the snapshot are fixed; PolicyStore changes     *)
(* them.                                                                    *)
(***************************************************************************)
EXTENDS Naturals, FiniteSets, FiniteSetsExt

CONSTANTS
    Devices,  \* canonical device IDs, numbers because the lowest ID wins
    IPs,      \* client addresses
    Logins,    \* proxy users
    Groups,   \* policy IDs, numbers as well
    Default,  \* DefaultGroupID
    None,
    MaxMoves  \* bound on the observations during a request

ASSUME IdentityAssumption ==
    /\ Devices \subseteq Nat /\ Groups \subseteq Nat /\ Default \in Groups
    /\ IsFiniteSet(Devices) /\ IsFiniteSet(Groups)
    /\ None \notin Devices \cup IPs \cup Logins \cup Groups
    /\ MaxMoves \in Nat

\* Exceptions and pauses in force for the domain, by what they are scoped to.
Grants == [scope : {"device"}, target : Devices] \cup [scope : {"group"}, target : Groups]
          \cup [scope : {"installation"}, target : {None}]

VARIABLES
    addr,     \* the LAN address of each device
    stale,    \* devices not seen for policyStaleDeviceThreshold
    members,  \* the users listed on each policy
    prio,     \* the priority of each policy
    exists,   \* the policies of the snapshot
    assign,   \* the device assignments of the snapshot
    grants,   \* the exceptions (or pauses) in force
    client,   \* the request: layer, address, login
    at,
    id,       \* Identity, as far as it is resolved
    best,     \* groupForUserIn: the policy found so far
    left,     \* policies its loop has still to visit
    moves     \* observations so far

policies == <<members, prio, exists, assign, grants, client>>
discovery == <<addr, stale, moves>>
identityVars == <<addr, stale, members, prio, exists, assign, grants, client, at, id, best, left, moves>>

NoIdentity == [device |-> None, ambiguous |-> FALSE, stale |-> FALSE, source |-> "unknown", group |-> None, grant |-> "none"]

-----------------------------------------------------------------------------
(* Discovery *)

\* deviceByIPClaims and deviceByIP of rebuildIndexes
Claims(ip) == {d \in Devices : addr[d] = ip}

Moved == moves < MaxMoves /\ moves' = moves + 1

\* ObserveDevice, UpsertDevice: the device is seen at an address.
Observe(d, ip) ==
    /\ Moved
    /\ addr' = [addr EXCEPT ![d] = ip] /\ stale' = stale \ {d}

\* ClearDeviceAddress (a dynamic DNS update), or the device is removed.
Clear(d) == Moved /\ addr[d] # None /\ addr' = [addr EXCEPT ![d] = None] /\ UNCHANGED stale

\* Time passes without a word from the device.
Age(d) == Moved /\ d \notin stale /\ stale' = stale \cup {d} /\ UNCHANGED addr

Discovery ==
    /\ at # "done"
    /\ \E d \in Devices : (\E ip \in IPs : Observe(d, ip)) \/ Clear(d) \/ Age(d)
    /\ UNCHANGED policies /\ UNCHANGED <<at, id, best, left>>

-----------------------------------------------------------------------------
(* ResolveDeviceByIP *)

To(next, i) == at' = next /\ id' = i /\ UNCHANGED policies /\ UNCHANGED discovery /\ UNCHANGED <<best, left>>

\* FindDeviceByIP; an address nobody claims ends the lookup.
Find ==
    /\ at = "find"
    /\ IF Claims(client.ip) = {}
         THEN To("base", id)
         ELSE To("count", [id EXCEPT !.device = Min(Claims(client.ip))])

\* IPClaimCount
Count ==
    /\ at = "count"
    /\ To("seen", [id EXCEPT !.ambiguous = Cardinality(Claims(client.ip)) > 1])

\* LastSeenForIP looks the winner up again; no winner counts as stale.
Seen ==
    /\ at = "seen"
    /\ To("base", [id EXCEPT !.stale = Claims(client.ip) = {} \/ Min(Claims(client.ip)) \in stale])

-----------------------------------------------------------------------------
(* resolveBaseIdentity and groupIDForSnapshot *)

\* Mutant: a shared address is attributed to the lowest device ID.
BaseSource(i) ==
    IF i.stale /\ client.layer = "proxy" THEN "stale"
    ELSE IF i.device = None THEN "unknown"
    ELSE "device"

\* The source of an observation; a DNS query confirms its address.
Source(i) ==
    IF i.ambiguous THEN "nat"
    ELSE IF i.stale /\ client.layer = "proxy" THEN "stale"
    ELSE IF i.device = None THEN "unknown"
    ELSE "device"

\* A login replaces the source; a shared address keeps no device.
Base ==
    /\ at = "base"
    /\ at' = "user"
    /\ id' = [id EXCEPT !.source = IF client.user # None THEN "user" ELSE Source(id),
                        !.device = IF Source(id) = "nat" THEN None ELSE @]
    /\ left' = IF client.user = None THEN {} ELSE exists
    /\ UNCHANGED policies /\ UNCHANGED discovery /\ UNCHANGED best

\* Mutant: equal priorities keep the policy found first.
BetterFirst(g) == best = None \/ prio[g] < prio[best]

Better(g) == best = None \/ prio[g] < prio[best] \/ (prio[g] = prio[best] /\ g < best)

\* groupForUserIn: a pass over the policies in the order of a Go map.
UserLoop(g) ==
    /\ at = "user" /\ g \in left
    /\ left' = left \ {g}
    /\ best' = IF client.user \in members[g] /\ Better(g) THEN g ELSE best
    /\ UNCHANGED policies /\ UNCHANGED discovery /\ UNCHANGED <<at, id>>

\* The user's policy, then the device's assignment, then the default policy.
Choose ==
    /\ at = "user" /\ left = {}
    /\ To("grant", [id EXCEPT !.group =
         IF best # None THEN best
         ELSE IF id.device # None /\ id.source \in {"device", "user"} /\ assign[id.device] \in exists
           THEN assign[id.device] ELSE Default])

\* evaluateExceptionIn and evaluatePauseIn: the most specific scope first.
Grant ==
    /\ at = "grant"
    /\ To("done", [id EXCEPT !.grant =
         IF [scope |-> "device", target |-> id.device] \in grants THEN "device"
         ELSE IF [scope |-> "group", target |-> id.group] \in grants THEN "group"
         ELSE IF [scope |-> "installation", target |-> None] \in grants THEN "installation"
         ELSE "none"])

-----------------------------------------------------------------------------
IdentityInit ==
    /\ addr \in [Devices -> IPs \cup {None}] /\ stale \in SUBSET Devices
    /\ exists \in {e \in SUBSET Groups : Default \in e}
    /\ members \in [Groups -> SUBSET Logins] /\ prio \in [Groups -> {0, 1}]
    /\ assign \in [Devices -> Groups \cup {None}]
    /\ grants \in {g \in SUBSET Grants : Cardinality(g) <= 1}
    /\ client \in [layer : {"dns"}, ip : IPs, user : {None}] \cup [layer : {"proxy"}, ip : IPs, user : Logins \cup {None}]
    /\ at = "find" /\ id = NoIdentity /\ best = None /\ left = {} /\ moves = 0

Resolve == Find \/ Count \/ Seen \/ Base \/ (\E g \in Groups : UserLoop(g)) \/ Choose \/ Grant

IdentityNext == Resolve \/ Discovery

IdentitySpec == IdentityInit /\ [][IdentityNext]_identityVars

-----------------------------------------------------------------------------
(* Properties *)

\* Whatever the order of the map, a user gets the listed policy with the
\* lowest priority and, among equals, the lowest ID ("for determinism").
UserPolicyIsDeterminate ==
    at = "done" /\ client.user # None =>
        LET listed == {g \in exists : client.user \in members[g]} IN
        listed # {} =>
            /\ id.group \in listed
            /\ \A g \in listed \ {id.group} :
                 prio[id.group] < prio[g] \/ (prio[id.group] = prio[g] /\ id.group < g)

\* While discovery is quiet, a request without a login gets the policy of the
\* only device at its address, which a proxy request must find fresh, or the
\* default policy: "a request always has a policy, and it is never someone
\* else's".  A deleted policy is nobody's.
QuietMeansOwnPolicy ==
    at = "done" /\ moves = 0 /\ client.user = None =>
        /\ id.group \in exists
        /\ id.group # Default => \E d \in Devices :
             /\ Claims(client.ip) = {d} /\ assign[d] = id.group
             /\ client.layer = "proxy" => d \notin stale

\* What the comment of ResolveIdentity says of a stale observation: "the
\* address may have been reassigned to a different device", so nothing that
\* is granted to that device may apply.
StaleGrantsNothing ==
    at = "done" /\ moves = 0 /\ client.layer = "proxy" /\ client.user = None /\ id.stale => id.grant # "device"

=============================================================================
