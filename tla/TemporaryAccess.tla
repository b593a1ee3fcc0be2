--------------------------- MODULE TemporaryAccess ---------------------------
(***************************************************************************)
(* Exceptions, pauses and access requests of application/policy: temporary  *)
(* changes to what the policies decide.  Exceptions and pauses are the two  *)
(* kinds of grant; their code has the same shape.  Both live in a stored    *)
(* document and in a copy in memory that the decisions read.                *)
(*                                                                          *)
(* A storage transaction is one step, reading a document another, replacing *)
(* the copy a third; handlers interleave between them, and reading and      *)
(* storing may fail.  Changing the policy groups is part of the model       *)
(* because Reload refreshes these copies too, and because a grant may name  *)
(* a group.                                                                 *)
(***************************************************************************)
EXTENDS Naturals, FiniteSets, Sequences

CONSTANTS
    Threads,      \* HTTP handlers at work at the same time
    GroupIDs,     \* policies that grants may name
    Clients,      \* addresses that connections come from
    Addresses,    \* addresses a request may be counted for: also forwarded ones
    None,
    MaxDuration,  \* MaxExceptionDuration, MaxPauseDuration
    Window,       \* the window of the rate limiter
    MaxHits,      \* MaxAccessRequestsPerMinute
    MaxKept,      \* access requests kept, 200 in the code
    MaxGrants,    \* bound on the grants ever made
    MaxRequests,  \* bound on the access requests ever made
    MaxOps,       \* bound on the handlers served
    MaxTime       \* bound on the clock

Kinds == {"exception", "pause"}
Ids == 1 .. MaxGrants
Time == 0 .. MaxTime
Grant == [group : GroupIDs \cup {None}, until : Time, active : BOOLEAN, revokedAt : Time \cup {None}]
Document == [Ids -> Grant \cup {None}]
Hit == [request : 1 .. MaxRequests, at : Time]
AccessRequest == [id : 1 .. MaxRequests, status : {"pending", "approved", "rejected"}, exc : Ids \cup {None}]

ASSUME AccessAssumption ==
    /\ None \notin GroupIDs \cup Nat \cup Addresses /\ None \notin Grant /\ Clients \subseteq Addresses
    /\ MaxDuration \in Nat \ {0} /\ Window \in Nat \ {0} /\ MaxHits \in Nat \ {0} /\ MaxKept \in Nat \ {0}
    /\ {MaxGrants, MaxRequests, MaxOps, MaxTime} \subseteq Nat

VARIABLES
    now,       \* the clock
    groups,    \* policies in the stored policy document
    groupsMem, \* policies in Service.snapshot
    stored,    \* the stored documents, by kind
    mem,       \* Service.exc and Service.pa
    requests,  \* the stored access requests, oldest first
    hits,      \* rateLimiter.hits: per address the requests counted, with their times
    th,        \* what each handler is doing
    made,      \* grants and requests made so far: the next random IDs
    ops,       \* handlers served
    accepted,  \* history: per address the requests stored since the start, with their times
    ended      \* history: grants whose revocation was answered with success

vars == <<now, groups, groupsMem, stored, mem, requests, hits, th, made, ops, accepted, ended>>

Idle == [at |-> "idle", kinds |-> <<>>, doc |-> None, groups |-> None, req |-> None, exc |-> None, ends |-> None]
Handler == [at : {"idle", "groups", "read", "put", "final", "mark"},
            kinds : Seq(Kinds), doc : Document \cup {None},
            groups : (SUBSET GroupIDs) \cup {None}, req : 1 .. MaxRequests \cup {None},
            exc : Ids \cup {None}, ends : (Kinds \X Ids) \cup {None}]

\* ExceptionSnapshot and pausesActiveAt
InForce(g) == g # None /\ g.active /\ now < g.until

-----------------------------------------------------------------------------
(* Transactions on the documents *)

Starts(t) == th[t].at = "idle" /\ ops < MaxOps /\ ops' = ops + 1

\* Mutant: the copy is refreshed from what the transaction has read.
UpdateInstallsRead(t, k, doc, h) ==
    /\ stored' = [stored EXCEPT ![k] = doc]
    /\ th' = [th EXCEPT ![t] = [h EXCEPT !.at = "put", !.kinds = <<k>>, !.doc = stored[k]]]
    /\ UNCHANGED <<now, groups, groupsMem, mem, requests, hits, accepted, ended>>

\* updateExceptions and updatePauses: write, then refresh the copy.
Update(t, k, doc, h) ==
    /\ stored' = [stored EXCEPT ![k] = doc]
    /\ th' = [th EXCEPT ![t] = [h EXCEPT !.at = "read", !.kinds = <<k>>]]
    /\ UNCHANGED <<now, groups, groupsMem, mem, requests, hits, accepted, ended>>

\* CreateException and CreatePause, after Validate: the group is looked up in
\* the memory of the service.
Create(t, k, g, d, h) ==
    /\ d >= 1 /\ d <= MaxDuration /\ now + d <= MaxTime
    /\ g # None => g \in groupsMem
    /\ made.grants < MaxGrants /\ made' = [made EXCEPT !.grants = @ + 1]
    /\ Update(t, k, [stored[k] EXCEPT ![made.grants + 1] =
                       [group |-> g, until |-> now + d, active |-> TRUE, revokedAt |-> None]],
              [h EXCEPT !.exc = made.grants + 1])

CreateGrant(t, k, g, d) == Starts(t) /\ Create(t, k, g, d, Idle)

\* RevokeException and RevokePause, of a grant that AllExceptions or AllPauses
\* has shown.
Revoke(t, k, id) ==
    /\ Starts(t) /\ mem[k][id] # None
    /\ stored[k][id] # None /\ stored[k][id].active
    /\ Update(t, k, [stored[k] EXCEPT ![id] = [@ EXCEPT !.active = FALSE, !.revokedAt = now]],
              [Idle EXCEPT !.ends = <<k, id>>])
    /\ UNCHANGED made

\* PruneExpiredExceptions and PruneExpiredPauses keep a grant for the audit
\* until MaxDuration after it ended.
Keep(g) == g # None /\ (now < g.until + MaxDuration \/ (~g.active /\ now < g.revokedAt + MaxDuration))

Prune(t, k) ==
    /\ Starts(t)
    /\ Update(t, k, [id \in Ids |-> IF Keep(stored[k][id]) THEN stored[k][id] ELSE None], Idle)
    /\ UNCHANGED made

-----------------------------------------------------------------------------
(* Refreshing the copies *)

Step(t, h) ==
    /\ th' = [th EXCEPT ![t] = h]
    /\ UNCHANGED <<now, groups, requests, hits, made, ops, accepted>>

\* loadExceptions and loadPauses
LoadRead(t) ==
    /\ th[t].at = "read"
    /\ Step(t, [th[t] EXCEPT !.at = "put", !.doc = stored[Head(th[t].kinds)]])
    /\ UNCHANGED <<groupsMem, stored, mem, ended>>

\* The document cannot be read, or the transaction before failed after its
\* rename: the copy stays, and the handler answers with an error.
LoadFails(t) ==
    /\ th[t].at = "read"
    /\ Step(t, Idle)
    /\ UNCHANGED <<groupsMem, stored, mem, ended>>

\* What a handler does after its last refresh.
Then(h) ==
    IF Tail(h.kinds) # <<>> THEN [h EXCEPT !.at = "read", !.kinds = Tail(@), !.doc = None]
    ELSE IF h.groups # None THEN [h EXCEPT !.at = "final", !.kinds = <<>>, !.doc = None]
    ELSE IF h.req # None THEN [h EXCEPT !.at = "mark", !.kinds = <<>>, !.doc = None]
    ELSE Idle

\* Mutant: loadPauses, a copy of loadExceptions, installs into Service.exc.
LoadPutCopied(t) ==
    /\ th[t].at = "put"
    /\ mem' = [mem EXCEPT !["exception"] = th[t].doc]
    /\ ended' = IF th[t].ends = None THEN ended ELSE ended \cup {th[t].ends}
    /\ Step(t, Then(th[t]))
    /\ UNCHANGED <<groupsMem, stored>>

LoadPut(t) ==
    /\ th[t].at = "put"
    /\ mem' = [mem EXCEPT ![Head(th[t].kinds)] = th[t].doc]
    /\ ended' = IF th[t].ends = None THEN ended ELSE ended \cup {th[t].ends}
    /\ Step(t, Then(th[t]))
    /\ UNCHANGED <<groupsMem, stored>>

\* A group handler: its transaction (see PolicyStore), then Reload, which
\* reads the policies, refreshes both copies and installs the policies.
ChangeGroups(t, g) ==
    /\ Starts(t)
    /\ groups' = IF g \in groups THEN groups \ {g} ELSE groups \cup {g}
    /\ th' = [th EXCEPT ![t] = [Idle EXCEPT !.at = "groups"]]
    /\ UNCHANGED <<now, groupsMem, stored, mem, requests, hits, made, accepted, ended>>

ReloadGroups(t) ==
    /\ th[t].at = "groups"
    /\ Step(t, [th[t] EXCEPT !.at = "read", !.groups = groups, !.kinds = <<"exception", "pause">>])
    /\ UNCHANGED <<groupsMem, stored, mem, ended>>

InstallGroups(t) ==
    /\ th[t].at = "final"
    /\ groupsMem' = th[t].groups
    /\ Step(t, Idle)
    /\ UNCHANGED <<stored, mem, ended>>

-----------------------------------------------------------------------------
(* Access requests *)

\* The first address of X-Forwarded-For, or that of the connection.
clientIPFromRequest(peer, forwarded) == IF forwarded = None THEN peer ELSE forwarded

Recent(ip) == {h \in hits[ip] : h.at + Window > now}

\* Mutant: the limiter lets one request too many through.
SubmitOneMore(t, ip) ==
    /\ Starts(t)
    /\ made.requests < MaxRequests
    /\ Cardinality(Recent(ip)) <= MaxHits
    /\ LET h == [request |-> made.requests + 1, at |-> now] IN
       /\ hits' = [hits EXCEPT ![ip] = Recent(ip) \cup {h}]
       /\ accepted' = [accepted EXCEPT ![ip] = @ \cup {h}]
    /\ requests' = <<[id |-> made.requests + 1, status |-> "pending", exc |-> None]>>
    /\ made' = [made EXCEPT !.requests = @ + 1]
    /\ UNCHANGED <<now, groups, groupsMem, stored, mem, th, ended>>

\* CreateAccessRequest: the limiter, then one transaction that drops the
\* oldest requests, or fails; the limiter has counted the request then too.
\* No other step reads both.
Submit(t, ip) ==
    /\ Starts(t)
    /\ made.requests < MaxRequests
    /\ Cardinality(Recent(ip)) < MaxHits
    /\ LET h == [request |-> made.requests + 1, at |-> now]
           all == Append(requests, [id |-> made.requests + 1, status |-> "pending", exc |-> None])
       IN /\ hits' = [hits EXCEPT ![ip] = Recent(ip) \cup {h}]
          /\ \/ /\ accepted' = [accepted EXCEPT ![ip] = @ \cup {h}]
                /\ requests' = IF Len(all) > MaxKept THEN SubSeq(all, Len(all) - MaxKept + 1, Len(all)) ELSE all
             \/ UNCHANGED <<accepted, requests>>
    /\ made' = [made EXCEPT !.requests = @ + 1]
    /\ UNCHANGED <<now, groups, groupsMem, stored, mem, th, ended>>

\* ApproveAccessRequest makes the exception first, whatever became of the
\* request, and marks the request afterwards.
Approve(t, r, g, d) ==
    /\ Starts(t) /\ r <= made.requests
    /\ Create(t, "exception", g, d, [Idle EXCEPT !.req = r])

Position(r) == {i \in 1 .. Len(requests) : requests[i].id = r /\ requests[i].status = "pending"}

\* Mutant: the second review overwrites the first.
MarkAgain(t) ==
    /\ th[t].at = "mark"
    /\ requests' = [i \in 1 .. Len(requests) |->
          IF requests[i].id = th[t].req
            THEN [requests[i] EXCEPT !.status = "approved", !.exc = th[t].exc] ELSE requests[i]]
    /\ th' = [th EXCEPT ![t] = Idle]
    /\ UNCHANGED <<now, groups, groupsMem, stored, mem, hits, made, ops, accepted, ended>>

\* The second transaction; a request reviewed in between is an error.
MarkApproved(t) ==
    /\ th[t].at = "mark"
    /\ requests' = [i \in 1 .. Len(requests) |->
          IF i \in Position(th[t].req)
            THEN [requests[i] EXCEPT !.status = "approved", !.exc = th[t].exc] ELSE requests[i]]
    /\ th' = [th EXCEPT ![t] = Idle]
    /\ UNCHANGED <<now, groups, groupsMem, stored, mem, hits, made, ops, accepted, ended>>

\* RejectAccessRequest
Reject(t, r) ==
    /\ Starts(t) /\ Position(r) # {}
    /\ requests' = [i \in 1 .. Len(requests) |->
          IF i \in Position(r) THEN [requests[i] EXCEPT !.status = "rejected"] ELSE requests[i]]
    /\ UNCHANGED <<now, groups, groupsMem, stored, mem, hits, th, made, accepted, ended>>

-----------------------------------------------------------------------------
\* The process starts again: NewService reads the stores, the limiter is new.
Restart ==
    /\ ops < MaxOps /\ ops' = ops + 1
    /\ mem' = stored /\ groupsMem' = groups
    /\ th' = [t \in Threads |-> Idle]
    /\ hits' = [ip \in Addresses |-> {}] /\ accepted' = hits'
    /\ UNCHANGED <<now, groups, stored, requests, made, ended>>

Tick ==
    /\ now < MaxTime /\ now' = now + 1
    /\ UNCHANGED <<groups, groupsMem, stored, mem, requests, hits, th, made, ops, accepted, ended>>

Init ==
    /\ now = 0
    /\ groups = GroupIDs /\ groupsMem = groups
    /\ stored = [k \in Kinds |-> [id \in Ids |-> None]] /\ mem = stored
    /\ requests = <<>> /\ hits = [ip \in Addresses |-> {}] /\ accepted = hits
    /\ th = [t \in Threads |-> Idle]
    /\ made = [grants |-> 0, requests |-> 0] /\ ops = 0 /\ ended = {}

Serve(t) ==
    \/ \E k \in Kinds, g \in GroupIDs \cup {None}, d \in 1 .. MaxDuration + 1 : CreateGrant(t, k, g, d)
    \/ \E k \in Kinds, id \in Ids : Revoke(t, k, id)
    \/ \E k \in Kinds : Prune(t, k)
    \/ \E g \in GroupIDs : ChangeGroups(t, g)
    \/ \E peer \in Clients, forwarded \in Addresses \cup {None} :
         Submit(t, clientIPFromRequest(peer, forwarded))
    \/ \E r \in 1 .. MaxRequests, g \in GroupIDs \cup {None}, d \in 1 .. MaxDuration + 1 : Approve(t, r, g, d)
    \/ \E r \in 1 .. MaxRequests : Reject(t, r)

Continue(t) ==
    LoadRead(t) \/ LoadFails(t) \/ LoadPut(t) \/ ReloadGroups(t) \/ InstallGroups(t) \/ MarkApproved(t)

Next == Restart \/ Tick \/ \E t \in Threads : Serve(t) \/ Continue(t)

Spec == Init /\ [][Next]_vars

-----------------------------------------------------------------------------
(* Properties *)

\* The documents, their copies, the clock and the handlers keep their shape,
\* and the list of requests never exceeds its limit (CreateAccessRequest).
TypeOK ==
    /\ now \in Time /\ groups \subseteq GroupIDs /\ groupsMem \subseteq GroupIDs
    /\ stored \in [Kinds -> Document] /\ mem \in [Kinds -> Document]
    /\ requests \in Seq(AccessRequest) /\ Len(requests) <= MaxKept
    /\ {hits, accepted} \subseteq [Addresses -> SUBSET Hit]
    /\ th \in [Threads -> Handler] /\ made \in [grants : 0 .. MaxGrants, requests : 0 .. MaxRequests]
    /\ ops \in 0 .. MaxOps /\ ended \subseteq Kinds \X Ids

\* A copy in memory is never ahead of its document: a grant that decisions
\* honour was stored, with the same end and for the same policy, and only
\* its revocation may not have arrived yet.
MemoryFromStore ==
    \A k \in Kinds, id \in Ids : InForce(mem[k][id]) =>
        /\ stored[k][id] # None
        /\ stored[k][id].until = mem[k][id].until /\ stored[k][id].group = mem[k][id].group

\* A revoked grant stays revoked in its document, and a request is reviewed
\* once: two administrators at work cannot undo each other's answer.
ReviewedOnce ==
    [][/\ \A k \in Kinds, id \in Ids :
            stored[k][id] # None /\ ~stored[k][id].active /\ stored'[k][id] # None
              => stored'[k][id] = stored[k][id]
       /\ \A i \in 1 .. Len(requests), j \in 1 .. Len(requests') :
            requests[i].id = requests'[j].id /\ requests[i].status # "pending"
              => requests'[j] = requests[i]]_vars

\* As long as the process runs, no stretch of time as long as the window,
\* wherever it begins, sees more than MaxHits requests stored for one address
\* (rateLimiter.allow).  The address is the one clientIPFromRequest takes: a
\* proxy's clients are told apart by the forwarded address, and requests that
\* name different forwarded addresses are counted apart, whoever sends them, so
\* that nothing is said of the requests of one connection address.
RateBounded ==
    \A ip \in Addresses, t \in Time :
        Cardinality({h \in accepted[ip] : t <= h.at /\ h.at < t + Window}) <= MaxHits

\* A revocation that was answered with success holds: the grant is not
\* honoured when the answer is given, whatever copies other handlers had
\* installed, nor after a restart, and it is honoured again only when another
\* handler installs a copy that is no longer what is stored, read before the
\* revocation (loadExceptions reads outside the lock it installs under).
Honoured(e) == InForce(mem[e[1]][e[2]])
InstallsOld(t, k) == th[t].at = "put" /\ mem'[k] = th[t].doc /\ th[t].doc # stored[k]
RevocationHolds ==
    [][\A e \in ended' : Honoured(e)' =>
          e \in ended /\ (Honoured(e) \/ \E t \in Threads : InstallsOld(t, e[1]))]_vars

\* What the comment of updateExceptions says: the refresh is done "so the
\* change takes effect immediately".
RevocationTakesEffect ==
    \A e \in ended : ~InForce(mem[e[1]][e[2]])

=============================================================================
