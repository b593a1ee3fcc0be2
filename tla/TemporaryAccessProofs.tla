------------------------ MODULE TemporaryAccessProofs ------------------------
(***************************************************************************)
(* Proofs about TemporaryAccess, for every number of handlers, policies,    *)
(* clients, grants and requests, and every length of the windows.           *)
(*                                                                          *)
(* MemoryFromStore speaks of the copies in memory only.  It is kept because *)
(* what a handler has read and not yet installed obeys the same rule, and   *)
(* because a grant pruned from its document was over long before            *)
(* (CopiesOK).  RateBounded is kept because the limiter has not forgotten   *)
(* any request that still counts (RatesOK), ReviewedOnce because the stored *)
(* requests have different numbers (RequestsOK), RevocationHolds because a  *)
(* handler that revokes installs what it reads after its write (RevokedOK). *)
(***************************************************************************)
EXTENDS TemporaryAccess, FiniteSetTheorems, SequenceTheorems, TLAPS

(* D is a copy of the document S, perhaps an old one: n grants were made,   *)
(* and it is m o'clock.                                                     *)
CopyOf(D, S, n, m) ==
    \A id \in Ids : D[id] # None =>
        /\ id <= n
        /\ S[id] # None => S[id].until = D[id].until /\ S[id].group = D[id].group
        /\ S[id] = None => D[id].until <= m

(* A handler that is to install a document has one, and knows of what kind. *)
HandlersOK ==
    \A t \in Threads :
        /\ th[t].at \in {"read", "put"} => th[t].kinds # <<>>
        /\ th[t].at = "put" => th[t].doc \in Document
        /\ th[t].at = "final" => th[t].groups \in SUBSET GroupIDs

CopiesOK ==
    /\ \A k \in Kinds : /\ CopyOf(stored[k], stored[k], made.grants, now)
                        /\ CopyOf(mem[k], stored[k], made.grants, now)
    /\ \A t \in Threads : th[t].at = "put" =>
            CopyOf(th[t].doc, stored[Head(th[t].kinds)], made.grants, now)

RatesOK ==
    \A ip \in Addresses :
        /\ IsFiniteSet(hits[ip])
        /\ \A h \in accepted[ip] : h.at <= now /\ (h.at + Window > now => h \in hits[ip])

RequestsOK ==
    /\ \A i, j \in 1 .. Len(requests) : requests[i].id = requests[j].id => i = j
    /\ \A i \in 1 .. Len(requests) : requests[i].id <= made.requests

AccessInv == TypeOK /\ HandlersOK /\ CopiesOK /\ RatesOK /\ RateBounded /\ RequestsOK

(* The two halves of ReviewedOnce, and what every step owes.                *)
GrantStep ==
    \A k \in Kinds, id \in Ids :
        stored[k][id] # None /\ ~stored[k][id].active /\ stored'[k][id] # None
            => stored'[k][id] = stored[k][id]
RequestStep ==
    \A i \in 1 .. Len(requests), j \in 1 .. Len(requests') :
        requests[i].id = requests'[j].id /\ requests[i].status # "pending"
            => requests'[j] = requests[i]
(* A grant that was made and is gone does not come back.                    *)
GoneStep ==
    /\ made.grants <= made'.grants
    /\ \A k \in Kinds, id \in Ids : id <= made.grants /\ stored[k][id] = None => stored'[k][id] = None
Owed == AccessInv' /\ GrantStep /\ RequestStep /\ GoneStep

-----------------------------------------------------------------------------
(* Documents and their copies *)

(* A transaction that takes a document from S to E, while n grants became   *)
(* o and the clock went from m to l: what was stored is unchanged but for   *)
(* its activity, or over; and no number is used again.                      *)
Succeeds(S, n, m, E, o, l) ==
    /\ n <= o /\ m <= l
    /\ \A id \in Ids : id <= n =>
          /\ S[id] # None => \/ E[id] # None /\ E[id].until = S[id].until /\ E[id].group = S[id].group
                             \/ E[id] = None /\ S[id].until <= l
          /\ S[id] = None => E[id] = None
    /\ \A id \in Ids : E[id] # None => id <= o

(* Copies of a document stay copies when it changes.                        *)
LEMMA CopiesSurvive ==
    ASSUME NEW D \in Document, NEW S \in Document, NEW E \in Document,
           NEW n \in Nat, NEW o \in Nat, NEW m \in Nat, NEW l \in Nat,
           CopyOf(D, S, n, m), Succeeds(S, n, m, E, o, l)
    PROVE  CopyOf(D, E, o, l)
  <1> SUFFICES ASSUME NEW id \in Ids, D[id] # None
               PROVE  /\ id <= o
                      /\ E[id] # None => E[id].until = D[id].until /\ E[id].group = D[id].group
                      /\ E[id] = None => D[id].until <= l
    BY DEF CopyOf
  <1>1. /\ id <= n
        /\ S[id] # None => S[id].until = D[id].until /\ S[id].group = D[id].group
        /\ S[id] = None => D[id].until <= m
    BY DEF CopyOf
  <1>2. /\ n <= o /\ m <= l
        /\ S[id] # None => \/ E[id] # None /\ E[id].until = S[id].until /\ E[id].group = S[id].group
                           \/ E[id] = None /\ S[id].until <= l
        /\ S[id] = None => E[id] = None
    BY <1>1 DEF Succeeds
  <1>3. D[id].until \in Nat /\ id \in Nat
    BY AccessAssumption DEF Document, Grant, Time, Ids
  <1>4. id <= o
    BY <1>1, <1>2, <1>3
  <1>5. E[id] # None => E[id].until = D[id].until /\ E[id].group = D[id].group
    BY <1>1, <1>2
  <1>6. E[id] = None => D[id].until <= l
    BY <1>1, <1>2, <1>3
  <1> QED BY <1>4, <1>5, <1>6

(* The document is a copy of itself.                                        *)
LEMMA SelfCopy ==
    ASSUME NEW E, NEW o, NEW l, \A id \in Ids : E[id] # None => id <= o
    PROVE  CopyOf(E, E, o, l)
  BY DEF CopyOf

(* A document that does not change succeeds itself, also when time passes.  *)
LEMMA Unchanged ==
    ASSUME NEW S, NEW n \in Nat, NEW o \in Nat, NEW m \in Nat, NEW l \in Nat, n <= o, m <= l,
           CopyOf(S, S, n, m)
    PROVE  Succeeds(S, n, m, S, o, l)
  BY AccessAssumption DEF Succeeds, Ids, CopyOf

(* What the constants and the type invariant say of the numbers.            *)
LEMMA Numbers ==
    ASSUME TypeOK
    PROVE  /\ now \in Nat /\ made.grants \in Nat /\ made.requests \in Nat
           /\ MaxGrants \in Nat /\ MaxRequests \in Nat /\ MaxOps \in Nat /\ MaxTime \in Nat
           /\ MaxDuration \in Nat /\ Window \in Nat /\ MaxHits \in Nat /\ MaxKept \in Nat
  BY AccessAssumption DEF TypeOK, Time

(* The stored requests are requests, with numbers.                          *)
LEMMA StoredRequests ==
    ASSUME TypeOK
    PROVE  /\ Len(requests) \in Nat /\ requests \in Seq(AccessRequest)
           /\ \A i \in 1 .. Len(requests) : requests[i] \in AccessRequest /\ requests[i].id \in Nat
  <1>1. requests \in Seq(AccessRequest) /\ Len(requests) \in Nat
    BY DEF TypeOK
  <1>2. \A i \in 1 .. Len(requests) : requests[i] \in AccessRequest
    <2> HIDE DEF AccessRequest
    <2> QED BY <1>1
  <1>3. \A r \in AccessRequest : r.id \in Nat
    BY AccessAssumption DEF AccessRequest
  <1> HIDE DEF AccessRequest
  <1> QED BY <1>1, <1>2, <1>3

-----------------------------------------------------------------------------
(* Parts of the invariant a step does not touch *)

(* The limiter remembers what counts, also while time passes.               *)
LEMMA RatesKept ==
    ASSUME TypeOK, RatesOK, RateBounded, UNCHANGED <<hits, accepted>>, now' \in Nat, now <= now'
    PROVE  RatesOK' /\ RateBounded'
  <1>1. \A ip \in Addresses : \A h \in accepted[ip] : h.at \in Nat
    BY AccessAssumption DEF TypeOK, Hit, Time
  <1>2. now \in Nat /\ Window \in Nat
    BY Numbers
  <1>3. RatesOK'
    <2>1. SUFFICES ASSUME NEW ip \in Addresses
                   PROVE  /\ IsFiniteSet(hits[ip])
                          /\ \A h \in accepted[ip] : h.at <= now' /\ (h.at + Window > now' => h \in hits[ip])
      BY DEF RatesOK
    <2>2. IsFiniteSet(hits[ip])
      BY DEF RatesOK
    <2>3. ASSUME NEW h \in accepted[ip] PROVE h.at <= now' /\ (h.at + Window > now' => h \in hits[ip])
      <3>1. h.at <= now /\ (h.at + Window > now => h \in hits[ip]) /\ h.at \in Nat
        BY <1>1 DEF RatesOK
      <3>2. h.at <= now' /\ (h.at + Window > now' => h.at + Window > now)
        BY <1>2, <3>1
      <3> QED BY <3>1, <3>2
    <2> QED BY <2>2, <2>3
  <1>4. RateBounded'
    BY DEF RateBounded
  <1> QED BY <1>3, <1>4

LEMMA RequestsKept ==
    ASSUME TypeOK, RequestsOK, UNCHANGED requests, made'.requests \in Nat, made.requests <= made'.requests
    PROVE  RequestsOK' /\ RequestStep
  <1>2. \A i \in 1 .. Len(requests) : requests[i].id \in Nat
    BY StoredRequests
  <1>3. RequestStep
    BY DEF RequestStep, RequestsOK
  <1>4. made.requests \in Nat
    BY Numbers
  <1>5. \A i \in 1 .. Len(requests) : requests[i].id <= made'.requests
    BY <1>2, <1>4 DEF RequestsOK
  <1> QED BY <1>3, <1>5 DEF RequestsOK

(* Handlers: one of them moves on, the others are where they were.          *)
LEMMA HandlerMoves ==
    ASSUME TypeOK, HandlersOK, NEW t \in Threads, NEW h \in Handler, th' = [th EXCEPT ![t] = h],
           h.at \in {"read", "put"} => h.kinds # <<>>,
           h.at = "put" => h.doc \in Document,
           h.at = "final" => h.groups \in SUBSET GroupIDs
    PROVE  /\ th' \in [Threads -> Handler] /\ HandlersOK'
           /\ th'[t] = h /\ \A u \in Threads \ {t} : th'[u] = th[u]
  <1>1. th \in [Threads -> Handler]
    BY DEF TypeOK
  <1>2. th' \in [Threads -> Handler] /\ th'[t] = h /\ \A u \in Threads \ {t} : th'[u] = th[u]
    BY <1>1
  <1> HIDE DEF Handler
  <1>3. HandlersOK'
    BY <1>2 DEF HandlersOK
  <1> QED BY <1>2, <1>3

(* The documents succeed each other, and what a handler reads meanwhile is  *)
(* a copy.                                                                  *)
LEMMA CopiesKept ==
    ASSUME TypeOK, TypeOK', HandlersOK, HandlersOK', CopiesOK, now <= now', made.grants <= made'.grants,
           \A k \in Kinds : Succeeds(stored[k], made.grants, now, stored'[k], made'.grants, now'),
           \A k \in Kinds : mem'[k] = mem[k] \/ CopyOf(mem'[k], stored[k], made.grants, now),
           \A t \in Threads : th'[t].at = "put" =>
              \/ th[t].at = "put" /\ th'[t].doc = th[t].doc /\ Head(th'[t].kinds) = Head(th[t].kinds)
              \/ th'[t].doc = stored[Head(th'[t].kinds)]
    PROVE  CopiesOK'
  <1>1. /\ now \in Nat /\ made.grants \in Nat /\ stored \in [Kinds -> Document] /\ mem \in [Kinds -> Document]
        /\ th \in [Threads -> Handler]
    BY Numbers DEF TypeOK
  <1>2. /\ now' \in Nat /\ made'.grants \in Nat /\ stored' \in [Kinds -> Document] /\ mem' \in [Kinds -> Document]
        /\ th' \in [Threads -> Handler]
    BY AccessAssumption DEF TypeOK, Time
  <1>3. \A k \in Kinds : CopyOf(stored'[k], stored'[k], made'.grants, now')
    BY SelfCopy DEF Succeeds
  <1>4. \A k \in Kinds : CopyOf(mem'[k], stored[k], made.grants, now)
    BY DEF CopiesOK
  <1>5. \A k \in Kinds : CopyOf(mem'[k], stored'[k], made'.grants, now')
    BY <1>1, <1>2, <1>4, CopiesSurvive
  <1>6. ASSUME NEW t \in Threads, th'[t].at = "put"
        PROVE  CopyOf(th'[t].doc, stored'[Head(th'[t].kinds)], made'.grants, now')
    <2> DEFINE k == Head(th'[t].kinds)
    <2>1. th'[t].doc \in Document /\ th'[t].kinds # <<>> /\ th'[t].kinds \in Seq(Kinds)
      BY <1>2, <1>6 DEF HandlersOK, Handler
    <2>2. k \in Kinds
      BY <2>1
    <2>3. CopyOf(th'[t].doc, stored[k], made.grants, now)
      <3>1. CASE th[t].at = "put" /\ th'[t].doc = th[t].doc /\ k = Head(th[t].kinds)
        <4>1. CopyOf(th[t].doc, stored[Head(th[t].kinds)], made.grants, now)
          BY <3>1 DEF CopiesOK
        <4> HIDE DEF k
        <4> QED BY <3>1, <4>1
      <3>2. CASE th'[t].doc = stored[k]
        BY <2>2, <3>2 DEF CopiesOK
      <3> QED BY <1>6, <3>1, <3>2
    <2> HIDE DEF k
    <2>4. CopyOf(th'[t].doc, stored'[k], made'.grants, now')
      BY <1>1, <1>2, <2>1, <2>2, <2>3, CopiesSurvive
    <2> QED BY <2>4 DEF k
  <1> QED BY <1>3, <1>5, <1>6 DEF CopiesOK

-----------------------------------------------------------------------------
(* Transactions on the documents *)

(* A transaction (updateExceptions, updatePauses) that succeeds what was    *)
(* stored and leaves revoked grants alone.                                  *)
LEMMA UpdateOwed ==
    ASSUME AccessInv, NEW t \in Threads, NEW k \in Kinds, NEW D \in Document, NEW h \in Handler,
           Update(t, k, D, h),
           made' \in [grants : 0 .. MaxGrants, requests : 0 .. MaxRequests],
           made'.requests = made.requests, ops' \in 0 .. MaxOps,
           Succeeds(stored[k], made.grants, now, D, made'.grants, now),
           \A id \in Ids : stored[k][id] # None /\ ~stored[k][id].active /\ D[id] # None => D[id] = stored[k][id]
    PROVE  Owed
  <1> DEFINE g == [h EXCEPT !.at = "read", !.kinds = <<k>>]
  <1>0. /\ TypeOK /\ HandlersOK /\ CopiesOK /\ RatesOK /\ RateBounded /\ RequestsOK
        /\ now \in Nat /\ made.grants \in Nat /\ made.requests \in Nat /\ stored \in [Kinds -> Document]
    BY Numbers DEF AccessInv, TypeOK
  <1>1. /\ stored' = [stored EXCEPT ![k] = D] /\ th' = [th EXCEPT ![t] = g]
        /\ UNCHANGED <<now, groups, groupsMem, mem, requests, hits, accepted, ended>>
    BY DEF Update
  <1>2. g \in Handler /\ g.at = "read" /\ g.kinds = <<k>> /\ <<k>> # <<>>
    <2>1. <<k>> \in Seq(Kinds) /\ <<k>> # <<>>
      <3> HIDE DEF Kinds
      <3> QED OBVIOUS
    <2>2. g \in Handler /\ g.at = "read" /\ g.kinds = <<k>>
      <3> DEFINE s == <<k>>
      <3> HIDE DEF s
      <3>1. [h EXCEPT !.at = "read", !.kinds = s] \in Handler
        BY <2>1 DEF Handler, s
      <3> QED BY <3>1 DEF s, Handler
    <2> QED BY <2>1, <2>2
  <1> HIDE DEF g
  <1>3. /\ th' \in [Threads -> Handler] /\ HandlersOK'
        /\ th'[t] = g /\ \A u \in Threads \ {t} : th'[u] = th[u]
    BY <1>0, <1>1, <1>2, HandlerMoves
  <1>4. /\ stored' \in [Kinds -> Document] /\ stored'[k] = D
        /\ \A j \in Kinds \ {k} : stored'[j] = stored[j]
    BY <1>0, <1>1
  <1>5. TypeOK'
    BY <1>0, <1>1, <1>3, <1>4 DEF TypeOK
  <1>6. \A j \in Kinds : Succeeds(stored[j], made.grants, now, stored'[j], made'.grants, now')
    <2>1. made'.grants \in Nat /\ made.grants <= made'.grants /\ now <= now
      BY <1>0, AccessAssumption DEF Succeeds
    <2>2. \A j \in Kinds : CopyOf(stored[j], stored[j], made.grants, now)
      BY <1>0 DEF CopiesOK
    <2>3. \A j \in Kinds \ {k} : Succeeds(stored[j], made.grants, now, stored[j], made'.grants, now)
      BY <1>0, <2>1, <2>2, Unchanged
    <2> QED BY <1>1, <1>4, <2>3
  <1>7. CopiesOK'
    <2>1. now <= now' /\ made.grants <= made'.grants
      BY <1>0, <1>1 DEF Succeeds
    <2>2. \A u \in Threads : th'[u].at = "put" => th[u].at = "put" /\ th'[u] = th[u]
      BY <1>2, <1>3
    <2>3. \A u \in Threads : th'[u].at = "put" =>
             /\ th[u].at = "put" /\ th'[u].doc = th[u].doc /\ Head(th'[u].kinds) = Head(th[u].kinds)
      BY <2>2
    <2>4. \A j \in Kinds : mem'[j] = mem[j]
      BY <1>1
    <2> QED BY <1>0, <1>3, <1>5, <1>6, <2>1, <2>3, <2>4, CopiesKept
  <1>8. RatesOK' /\ RateBounded'
    BY <1>0, <1>1, RatesKept
  <1>9. RequestsOK' /\ RequestStep
    BY <1>0, <1>1, RequestsKept
  <1>10. GrantStep
    BY <1>4 DEF GrantStep
  <1>11. GoneStep
    BY <1>4 DEF GoneStep, Succeeds
  <1> QED BY <1>3, <1>5, <1>7, <1>8, <1>9, <1>10, <1>11 DEF Owed, AccessInv

(* A new grant has a number nobody used before.                             *)
LEMMA CreateOwed ==
    ASSUME AccessInv, NEW t \in Threads, NEW k \in Kinds, NEW g \in GroupIDs \cup {None},
           NEW d \in 1 .. MaxDuration + 1, NEW h \in Handler, Create(t, k, g, d, h), ops' \in 0 .. MaxOps
    PROVE  Owed
  <1> DEFINE new == [group |-> g, until |-> now + d, active |-> TRUE, revokedAt |-> None]
             n == made.grants + 1
             D == [stored[k] EXCEPT ![n] = new]
             f == [h EXCEPT !.exc = n]
  <1>0. /\ TypeOK /\ now \in Nat /\ made.grants \in Nat /\ MaxGrants \in Nat /\ MaxTime \in Nat
        /\ MaxRequests \in Nat /\ MaxDuration \in Nat
    BY Numbers DEF AccessInv
  <1>1. now + d \in Time /\ n \in Ids /\ d \in Nat
    BY <1>0 DEF Create, Time, Ids
  <1>2. stored[k] \in Document
    BY <1>0 DEF TypeOK
  <1>3. new \in Grant
    BY <1>1 DEF Grant
  <1>4. D \in Document /\ D[n] = new /\ \A id \in Ids \ {n} : D[id] = stored[k][id]
    BY <1>1, <1>2, <1>3 DEF Document
  <1>5. f \in Handler
    BY <1>1 DEF Handler
  <1>6. Update(t, k, D, f)
    BY DEF Create
  <1>7. /\ made' \in [grants : 0 .. MaxGrants, requests : 0 .. MaxRequests]
        /\ made'.grants = n /\ made'.requests = made.requests
    <2>1. made \in [grants : 0 .. MaxGrants, requests : 0 .. MaxRequests]
      BY <1>0 DEF TypeOK
    <2>2. made' = [made EXCEPT !.grants = @ + 1] /\ made.grants < MaxGrants
      BY DEF Create
    <2> QED BY <1>0, <2>1, <2>2
  <1>8. CopyOf(stored[k], stored[k], made.grants, now)
    BY DEF AccessInv, CopiesOK
  <1>9. stored[k][n] = None
    BY <1>0, <1>1, <1>8 DEF CopyOf
  <1>10. Succeeds(stored[k], made.grants, now, D, made'.grants, now)
    <2> HIDE DEF D
    <2>1. \A id \in Ids : id <= made.grants => id # n
      BY <1>0 DEF Ids
    <2>2. made.grants <= n /\ now <= now /\ n <= n
      BY <1>0
    <2>3. \A id \in Ids : D[id] # None => id <= n
      <3>1. \A id \in Ids : stored[k][id] # None => id <= made.grants
        BY <1>8 DEF CopyOf
      <3>2. \A id \in Ids : id <= made.grants => id <= n
        BY <1>0 DEF Ids
      <3> QED BY <1>4, <2>2, <3>1, <3>2
    <2> HIDE DEF n
    <2> QED BY <1>4, <1>7, <2>1, <2>2, <2>3 DEF Succeeds
  <1> HIDE DEF D, f, n
  <1> QED BY <1>2, <1>4, <1>5, <1>6, <1>7, <1>9, <1>10, UpdateOwed

(* A handler begins with a counted operation.                               *)
LEMMA StartsCounts ==
    ASSUME TypeOK, NEW t \in Threads, Starts(t)
    PROVE  ops' \in 0 .. MaxOps /\ Idle \in Handler
  BY Numbers DEF TypeOK, Starts, Idle, Handler

LEMMA RevokeOwed ==
    ASSUME AccessInv, NEW t \in Threads, NEW k \in Kinds, NEW id \in Ids, Revoke(t, k, id)
    PROVE  Owed
  <1> DEFINE g == stored[k][id]
             new == [g EXCEPT !.active = FALSE, !.revokedAt = now]
             D == [stored[k] EXCEPT ![id] = new]
             f == [Idle EXCEPT !.ends = <<k, id>>]
  <1>0. TypeOK /\ now \in Nat /\ made.grants \in Nat
    BY Numbers DEF AccessInv
  <1>1. stored[k] \in Document /\ g # None /\ g \in Grant /\ g.active /\ now \in Time
    BY <1>0 DEF TypeOK, Document, Revoke
  <1>2. new \in Grant /\ new.until = g.until /\ new.group = g.group
    BY <1>1 DEF Grant
  <1>3. new # None
    BY <1>2, AccessAssumption
  <1>4. ops' \in 0 .. MaxOps /\ Idle \in Handler
    BY <1>0, StartsCounts DEF Revoke
  <1>5. f \in Handler
    BY <1>4 DEF Handler, Idle
  <1>6. Update(t, k, D, f) /\ made' = made
    BY DEF Revoke
  <1> HIDE DEF new, f
  <1>7. D \in Document /\ D[id] = new /\ \A o \in Ids \ {id} : D[o] = stored[k][o]
    BY <1>1, <1>2 DEF Document
  <1> HIDE DEF D
  <1>8. CopyOf(stored[k], stored[k], made.grants, now)
    BY DEF AccessInv, CopiesOK
  <1>9. Succeeds(stored[k], made.grants, now, D, made'.grants, now)
    BY <1>0, <1>1, <1>2, <1>3, <1>6, <1>7, <1>8 DEF Succeeds, CopyOf
  <1>10. made' \in [grants : 0 .. MaxGrants, requests : 0 .. MaxRequests] /\ made'.requests = made.requests
    BY <1>0, <1>6 DEF TypeOK
  <1>11. \A o \in Ids : stored[k][o] # None /\ ~stored[k][o].active /\ D[o] # None => D[o] = stored[k][o]
    BY <1>1, <1>7
  <1> QED BY <1>4, <1>5, <1>6, <1>7, <1>9, <1>10, <1>11, UpdateOwed

(* What is pruned was over MaxDuration ago.                                 *)
LEMMA PruneOwed ==
    ASSUME AccessInv, NEW t \in Threads, NEW k \in Kinds, Prune(t, k)
    PROVE  Owed
  <1> DEFINE D == [id \in Ids |-> IF Keep(stored[k][id]) THEN stored[k][id] ELSE None]
  <1>0. TypeOK /\ now \in Nat /\ made.grants \in Nat /\ MaxDuration \in Nat
    BY Numbers DEF AccessInv
  <1>1. stored[k] \in Document
    BY <1>0 DEF TypeOK
  <1>2. D \in Document
    BY <1>1 DEF Document
  <1>3. \A id \in Ids : D[id] = stored[k][id] \/ (D[id] = None /\ ~Keep(stored[k][id]))
    OBVIOUS
  <1>4. \A id \in Ids : stored[k][id] # None /\ ~Keep(stored[k][id]) => stored[k][id].until <= now
    <2> SUFFICES ASSUME NEW id \in Ids, stored[k][id] # None, ~Keep(stored[k][id])
                 PROVE  stored[k][id].until <= now
      OBVIOUS
    <2>1. stored[k][id].until \in Nat
      BY <1>1, AccessAssumption DEF Document, Grant, Time
    <2>2. ~(now < stored[k][id].until + MaxDuration)
      BY DEF Keep
    <2> QED BY <1>0, <2>1, <2>2
  <1>5. ops' \in 0 .. MaxOps /\ Idle \in Handler
    BY <1>0, StartsCounts DEF Prune
  <1>6. Update(t, k, D, Idle) /\ made' = made
    BY DEF Prune
  <1> HIDE DEF D
  <1>7. CopyOf(stored[k], stored[k], made.grants, now)
    BY DEF AccessInv, CopiesOK
  <1>8. Succeeds(stored[k], made.grants, now, D, made'.grants, now)
    BY <1>0, <1>3, <1>4, <1>6, <1>7 DEF Succeeds, CopyOf
  <1>9. made' \in [grants : 0 .. MaxGrants, requests : 0 .. MaxRequests] /\ made'.requests = made.requests
    BY <1>0, <1>6 DEF TypeOK
  <1>10. \A o \in Ids : stored[k][o] # None /\ ~stored[k][o].active /\ D[o] # None => D[o] = stored[k][o]
    BY <1>3
  <1> QED BY <1>2, <1>5, <1>6, <1>8, <1>9, <1>10, UpdateOwed

-----------------------------------------------------------------------------
(* Refreshing the copies *)

(* A step of a handler after its transaction: the documents stay, a copy    *)
(* may be installed, and what it reads is the document.                     *)
LEMMA StepOwed ==
    ASSUME AccessInv, NEW t \in Threads, NEW h \in Handler, Step(t, h), UNCHANGED stored,
           h.at \in {"read", "put"} => h.kinds # <<>>,
           h.at = "put" => h.doc \in Document /\ h.doc = stored[Head(h.kinds)],
           h.at = "final" => h.groups \in SUBSET GroupIDs,
           groupsMem' \subseteq GroupIDs, mem' \in [Kinds -> Document], ended' \subseteq Kinds \X Ids,
           \A k \in Kinds : mem'[k] = mem[k] \/ CopyOf(mem'[k], stored[k], made.grants, now)
    PROVE  Owed
  <1>0. /\ TypeOK /\ HandlersOK /\ CopiesOK /\ RatesOK /\ RateBounded /\ RequestsOK
        /\ now \in Nat /\ made.grants \in Nat /\ made.requests \in Nat /\ stored \in [Kinds -> Document]
    BY Numbers DEF AccessInv, TypeOK
  <1>1. /\ th' = [th EXCEPT ![t] = h]
        /\ UNCHANGED <<now, groups, requests, hits, made, ops, accepted>>
    BY DEF Step
  <1>2. /\ th' \in [Threads -> Handler] /\ HandlersOK'
        /\ th'[t] = h /\ \A u \in Threads \ {t} : th'[u] = th[u]
    BY <1>0, <1>1, HandlerMoves
  <1>3. TypeOK'
    BY <1>0, <1>1, <1>2 DEF TypeOK
  <1>4. \A j \in Kinds : Succeeds(stored[j], made.grants, now, stored'[j], made'.grants, now')
    <2>1. \A j \in Kinds : CopyOf(stored[j], stored[j], made.grants, now)
      BY <1>0 DEF CopiesOK
    <2>2. made.grants <= made.grants /\ now <= now
      BY <1>0
    <2>3. \A j \in Kinds : Succeeds(stored[j], made.grants, now, stored[j], made.grants, now)
      BY <1>0, <2>1, <2>2, Unchanged
    <2> QED BY <1>1, <2>3
  <1>5. CopiesOK'
    <2>1. now <= now' /\ made.grants <= made'.grants
      BY <1>0, <1>1
    <2>2. ASSUME NEW u \in Threads, th'[u].at = "put"
          PROVE  \/ th[u].at = "put" /\ th'[u].doc = th[u].doc /\ Head(th'[u].kinds) = Head(th[u].kinds)
                 \/ th'[u].doc = stored[Head(th'[u].kinds)]
      <3>1. CASE u = t
        BY <1>2, <2>2, <3>1
      <3>2. CASE u # t
        <4>1. th'[u] = th[u]
          BY <1>2, <3>2
        <4> QED BY <2>2, <4>1
      <3> QED BY <3>1, <3>2
    <2> QED BY <1>0, <1>2, <1>3, <1>4, <2>1, <2>2, CopiesKept
  <1>6. RatesOK' /\ RateBounded'
    BY <1>0, <1>1, RatesKept
  <1>7. RequestsOK' /\ RequestStep
    BY <1>0, <1>1, RequestsKept
  <1>8. GrantStep /\ GoneStep
    BY <1>0, <1>1 DEF GrantStep, GoneStep
  <1> QED BY <1>2, <1>3, <1>5, <1>6, <1>7, <1>8 DEF Owed, AccessInv

LEMMA LoadReadOwed ==
    ASSUME AccessInv, NEW t \in Threads, LoadRead(t)
    PROVE  Owed
  <1> DEFINE k == Head(th[t].kinds)
             h == [th[t] EXCEPT !.at = "put", !.doc = stored[k]]
  <1>0. /\ TypeOK /\ HandlersOK /\ stored \in [Kinds -> Document] /\ th[t] \in Handler
        /\ groupsMem \subseteq GroupIDs /\ mem \in [Kinds -> Document] /\ ended \subseteq Kinds \X Ids
    BY DEF AccessInv, TypeOK
  <1>1. th[t].kinds # <<>> /\ th[t].kinds \in Seq(Kinds)
    BY <1>0 DEF LoadRead, HandlersOK, Handler
  <1>2. k \in Kinds
    <2> HIDE DEF Kinds
    <2> QED BY <1>1
  <1>3. stored[k] \in Document
    BY <1>0, <1>2
  <1>4. h \in Handler /\ h.at = "put" /\ h.doc = stored[k] /\ h.kinds = th[t].kinds
    <2> HIDE DEF k, Document, Kinds
    <2> QED BY <1>0, <1>3 DEF Handler
  <1>5. Step(t, h) /\ UNCHANGED <<groupsMem, stored, mem, ended>>
    BY DEF LoadRead
  <1> HIDE DEF h
  <1>6. h.doc = stored[Head(h.kinds)]
    BY <1>4
  <1> QED BY <1>0, <1>1, <1>3, <1>4, <1>5, <1>6, StepOwed

LEMMA LoadFailsOwed ==
    ASSUME AccessInv, NEW t \in Threads, LoadFails(t)
    PROVE  Owed
  <1>0. /\ TypeOK /\ HandlersOK /\ mem \in [Kinds -> Document] /\ ended \subseteq Kinds \X Ids
        /\ groupsMem \subseteq GroupIDs
    BY DEF AccessInv, TypeOK
  <1>1. Idle \in Handler /\ Idle.at = "idle"
    BY DEF Idle, Handler
  <1>2. Step(t, Idle) /\ UNCHANGED <<groupsMem, stored, mem, ended>>
    BY DEF LoadFails
  <1> QED BY <1>0, <1>1, <1>2, StepOwed

(* What a handler does after its last refresh is something it can do.       *)
LEMMA ThenHandler ==
    ASSUME NEW h \in Handler, h.kinds # <<>>
    PROVE  /\ Then(h) \in Handler /\ Then(h).at # "put"
           /\ Then(h).at = "read" => Then(h).kinds # <<>>
           /\ Then(h).at = "final" => Then(h).groups \in SUBSET GroupIDs
  <1> DEFINE tl == Tail(h.kinds)
             none == <<>>
  <1>1. tl \in Seq(Kinds) /\ none \in Seq(Kinds)
    <2>1. h.kinds \in Seq(Kinds)
      BY DEF Handler
    <2> HIDE DEF Kinds
    <2> QED BY <2>1
  <1>2. Then(h) = IF tl # none THEN [h EXCEPT !.at = "read", !.kinds = tl, !.doc = None]
                  ELSE IF h.groups # None THEN [h EXCEPT !.at = "final", !.kinds = none, !.doc = None]
                  ELSE IF h.req # None THEN [h EXCEPT !.at = "mark", !.kinds = none, !.doc = None]
                  ELSE Idle
    BY DEF Then
  <1>3. Idle \in Handler /\ Idle.at = "idle"
    BY <1>1 DEF Idle, Handler
  <1> HIDE DEF tl, none, Document, Kinds
  <1>4. CASE tl # none
    <2>1. Then(h) = [h EXCEPT !.at = "read", !.kinds = tl, !.doc = None]
      BY <1>2, <1>4
    <2> QED BY <1>1, <1>4, <2>1 DEF Handler, none
  <1>5. CASE tl = none /\ h.groups # None
    <2>1. Then(h) = [h EXCEPT !.at = "final", !.kinds = none, !.doc = None]
      BY <1>2, <1>5
    <2>2. h.groups \in SUBSET GroupIDs
      BY <1>5 DEF Handler
    <2> QED BY <1>1, <2>1, <2>2 DEF Handler
  <1>6. CASE tl = none /\ h.groups = None /\ h.req # None
    <2>1. Then(h) = [h EXCEPT !.at = "mark", !.kinds = none, !.doc = None]
      BY <1>2, <1>6
    <2> QED BY <1>1, <2>1 DEF Handler
  <1>7. CASE tl = none /\ h.groups = None /\ h.req = None
    <2>1. Then(h) = Idle
      BY <1>2, <1>7
    <2> QED BY <1>3, <2>1
  <1> QED BY <1>4, <1>5, <1>6, <1>7

LEMMA LoadPutOwed ==
    ASSUME AccessInv, NEW t \in Threads, LoadPut(t)
    PROVE  Owed
  <1> DEFINE k == Head(th[t].kinds)
             h == Then(th[t])
  <1>0. /\ TypeOK /\ HandlersOK /\ stored \in [Kinds -> Document] /\ th[t] \in Handler
        /\ groupsMem \subseteq GroupIDs /\ mem \in [Kinds -> Document] /\ ended \subseteq Kinds \X Ids
    BY DEF AccessInv, TypeOK
  <1>1. th[t].at = "put" /\ th[t].kinds # <<>> /\ th[t].kinds \in Seq(Kinds) /\ th[t].doc \in Document
    BY <1>0 DEF LoadPut, HandlersOK, Handler
  <1>2. k \in Kinds
    <2> HIDE DEF Kinds
    <2> QED BY <1>1
  <1>3. /\ h \in Handler /\ h.at # "put" /\ (h.at = "read" => h.kinds # <<>>)
        /\ h.at = "final" => h.groups \in SUBSET GroupIDs
    BY <1>0, <1>1, ThenHandler
  <1>4. Step(t, h) /\ UNCHANGED <<groupsMem, stored>>
    BY DEF LoadPut
  <1>5. mem' = [mem EXCEPT ![k] = th[t].doc]
    BY DEF LoadPut
  <1>6. CopyOf(th[t].doc, stored[k], made.grants, now)
    BY <1>1 DEF AccessInv, CopiesOK
  <1> HIDE DEF k, h, Kinds, Document
  <1>7. mem' \in [Kinds -> Document]
    BY <1>0, <1>1, <1>2, <1>5
  <1>8. \A j \in Kinds : mem'[j] = mem[j] \/ CopyOf(mem'[j], stored[j], made.grants, now)
    BY <1>0, <1>2, <1>5, <1>6
  <1>9. ended' \subseteq Kinds \X Ids
    <2>1. th[t].ends \in (Kinds \X Ids) \cup {None}
      BY <1>0 DEF Handler
    <2> QED BY <1>0, <2>1 DEF LoadPut
  <1> QED BY <1>0, <1>3, <1>4, <1>7, <1>8, <1>9, StepOwed

LEMMA ReloadGroupsOwed ==
    ASSUME AccessInv, NEW t \in Threads, ReloadGroups(t)
    PROVE  Owed
  <1> DEFINE all == <<"exception", "pause">>
             h == [th[t] EXCEPT !.at = "read", !.groups = groups, !.kinds = all]
  <1>0. /\ TypeOK /\ HandlersOK /\ stored \in [Kinds -> Document] /\ th[t] \in Handler
        /\ groups \subseteq GroupIDs
        /\ groupsMem \subseteq GroupIDs /\ mem \in [Kinds -> Document] /\ ended \subseteq Kinds \X Ids
    BY DEF AccessInv, TypeOK
  <1>1. all \in Seq(Kinds) /\ all # <<>>
    BY DEF Kinds
  <1>2. Step(t, h) /\ UNCHANGED <<groupsMem, stored, mem, ended>>
    BY DEF ReloadGroups
  <1> HIDE DEF all, Document, Kinds
  <1>3. h \in Handler /\ h.at = "read" /\ h.kinds = all
    BY <1>0, <1>1 DEF Handler
  <1> HIDE DEF h
  <1> QED BY <1>0, <1>1, <1>2, <1>3, StepOwed

LEMMA InstallGroupsOwed ==
    ASSUME AccessInv, NEW t \in Threads, InstallGroups(t)
    PROVE  Owed
  <1>0. /\ TypeOK /\ HandlersOK /\ mem \in [Kinds -> Document] /\ ended \subseteq Kinds \X Ids
    BY DEF AccessInv, TypeOK
  <1>1. Idle \in Handler /\ Idle.at = "idle"
    BY DEF Idle, Handler
  <1>2. groupsMem' \subseteq GroupIDs
    BY <1>0 DEF InstallGroups, HandlersOK
  <1>3. Step(t, Idle) /\ UNCHANGED <<stored, mem, ended>>
    BY DEF InstallGroups
  <1> QED BY <1>0, <1>1, <1>2, <1>3, StepOwed

-----------------------------------------------------------------------------
(* Steps that leave the documents alone *)

LEMMA DocumentsStay ==
    ASSUME AccessInv, TypeOK', HandlersOK', RatesOK', RateBounded', RequestsOK', RequestStep,
           UNCHANGED stored, mem' = mem \/ mem' = stored, now <= now', made'.grants = made.grants,
           \A u \in Threads : th'[u].at = "put" => th'[u] = th[u]
    PROVE  Owed
  <1>0. /\ TypeOK /\ HandlersOK /\ CopiesOK /\ now \in Nat /\ made.grants \in Nat
    BY Numbers DEF AccessInv
  <1>1. now' \in Nat
    BY AccessAssumption DEF TypeOK, Time
  <1>2. \A j \in Kinds : CopyOf(stored[j], stored[j], made.grants, now)
    BY <1>0 DEF CopiesOK
  <1>3. \A j \in Kinds : Succeeds(stored[j], made.grants, now, stored'[j], made'.grants, now')
    <2>1. made.grants <= made.grants
      BY <1>0
    <2>2. \A j \in Kinds : Succeeds(stored[j], made.grants, now, stored[j], made.grants, now')
      BY <1>0, <1>1, <1>2, <2>1, Unchanged
    <2> QED BY <2>2
  <1>4. \A j \in Kinds : mem'[j] = mem[j] \/ CopyOf(mem'[j], stored[j], made.grants, now)
    BY <1>2
  <1>5. \A u \in Threads : th'[u].at = "put" =>
           th[u].at = "put" /\ th'[u].doc = th[u].doc /\ Head(th'[u].kinds) = Head(th[u].kinds)
    OBVIOUS
  <1>6. made.grants <= made'.grants
    BY <1>0
  <1>7. CopiesOK'
    BY <1>0, <1>3, <1>4, <1>5, <1>6, CopiesKept
  <1>8. GrantStep /\ GoneStep
    BY <1>6 DEF GrantStep, GoneStep
  <1> QED BY <1>7, <1>8 DEF Owed, AccessInv

LEMMA ChangeGroupsOwed ==
    ASSUME AccessInv, NEW t \in Threads, NEW g \in GroupIDs, ChangeGroups(t, g)
    PROVE  Owed
  <1> DEFINE h == [Idle EXCEPT !.at = "groups"]
  <1>0. /\ TypeOK /\ HandlersOK /\ RatesOK /\ RateBounded /\ RequestsOK
        /\ now \in Nat /\ made.requests \in Nat
    BY Numbers DEF AccessInv
  <1>1. h \in Handler /\ h.at = "groups"
    <2>1. Idle \in Handler
      BY DEF Idle, Handler
    <2> QED BY <2>1 DEF Handler
  <1>2. th' = [th EXCEPT ![t] = h]
        /\ UNCHANGED <<now, groupsMem, stored, mem, requests, hits, made, accepted, ended>>
    BY DEF ChangeGroups
  <1>3. ops' \in 0 .. MaxOps
    BY <1>0, StartsCounts DEF ChangeGroups
  <1>4. groups' \subseteq GroupIDs
    BY <1>0 DEF ChangeGroups, TypeOK
  <1> HIDE DEF h
  <1>5. /\ th' \in [Threads -> Handler] /\ HandlersOK'
        /\ th'[t] = h /\ \A u \in Threads \ {t} : th'[u] = th[u]
    BY <1>0, <1>1, <1>2, HandlerMoves
  <1>6. TypeOK'
    BY <1>0, <1>2, <1>3, <1>4, <1>5 DEF TypeOK
  <1>7. RatesOK' /\ RateBounded' /\ RequestsOK' /\ RequestStep
    BY <1>0, <1>2, RatesKept, RequestsKept
  <1>8. \A u \in Threads : th'[u].at = "put" => th'[u] = th[u]
    BY <1>1, <1>5
  <1> QED BY <1>0, <1>2, <1>5, <1>6, <1>7, <1>8, DocumentsStay

(* A request accepted now counts with those accepted less than a window     *)
(* ago, all of which the limiter remembers.                                 *)
LEMMA SubmitRates ==
    ASSUME AccessInv, NEW t \in Threads, NEW ip \in Addresses, Submit(t, ip)
    PROVE  RatesOK' /\ RateBounded'
  <1> DEFINE h == [request |-> made.requests + 1, at |-> now]
             R == Recent(ip)
  <1>0. /\ TypeOK /\ RatesOK /\ RateBounded /\ now \in Nat /\ Window \in Nat \ {0} /\ MaxHits \in Nat
        /\ hits \in [Addresses -> SUBSET Hit] /\ accepted \in [Addresses -> SUBSET Hit]
    BY Numbers, AccessAssumption DEF AccessInv, TypeOK
  <1>1. /\ hits' = [hits EXCEPT ![ip] = R \cup {h}]
        /\ accepted' = [accepted EXCEPT ![ip] = @ \cup {h}] \/ accepted' = accepted
        /\ Cardinality(R) < MaxHits /\ now' = now
    BY DEF Submit
  <1>2. /\ hits'[ip] = R \cup {h} /\ accepted'[ip] \in {accepted[ip] \cup {h}, accepted[ip]}
        /\ \A o \in Addresses \ {ip} : hits'[o] = hits[o] /\ accepted'[o] = accepted[o]
    BY <1>0, <1>1
  <1>3. h.at = now
    OBVIOUS
  <1>4. R \subseteq hits[ip] /\ \A e \in hits[ip] : e.at + Window > now => e \in R
    BY DEF Recent
  <1> HIDE DEF h, R
  <1>5. IsFiniteSet(R) /\ IsFiniteSet(R \cup {h}) /\ Cardinality(R \cup {h}) <= MaxHits
        /\ Cardinality(R \cup {h}) \in Nat
    <2>1. IsFiniteSet(R)
      BY <1>0, <1>4, FS_Subset DEF RatesOK
    <2>2. IsFiniteSet(R \cup {h}) /\ Cardinality(R) \in Nat
          /\ Cardinality(R \cup {h}) = IF h \in R THEN Cardinality(R) ELSE Cardinality(R) + 1
      BY <2>1, FS_AddElement, FS_CardinalityType
    <2> QED BY <1>0, <1>1, <2>1, <2>2
  <1>6. \A e \in accepted[ip] : e.at \in Nat /\ e.at <= now /\ (e.at + Window > now => e \in R)
    <2>1. \A e \in accepted[ip] : e.at \in Nat
      BY <1>0, AccessAssumption DEF Hit, Time
    <2> QED BY <1>0, <1>4, <2>1 DEF RatesOK
  <1>7. RatesOK'
    <2>1. SUFFICES ASSUME NEW o \in Addresses
                   PROVE  /\ IsFiniteSet(hits'[o])
                          /\ \A e \in accepted'[o] : e.at <= now /\ (e.at + Window > now => e \in hits'[o])
      BY <1>1 DEF RatesOK
    <2>2. CASE o = ip
      <3>1. now <= now
        BY <1>0
      <3> QED BY <1>2, <1>3, <1>5, <1>6, <2>2, <3>1
    <2>3. CASE o # ip
      BY <1>0, <1>2, <2>3 DEF RatesOK
    <2> QED BY <2>2, <2>3
  <1>8. RateBounded'
    <2>1. SUFFICES ASSUME NEW o \in Addresses, NEW b \in Time
                   PROVE  Cardinality({e \in accepted'[o] : b <= e.at /\ e.at < b + Window}) <= MaxHits
      BY DEF RateBounded
    <2>2. Cardinality({e \in accepted[o] : b <= e.at /\ e.at < b + Window}) <= MaxHits
      BY <1>0 DEF RateBounded
    <2>3. CASE o # ip
      BY <1>2, <2>2, <2>3
    <2>4. CASE o = ip /\ b <= now /\ now < b + Window
      <3> DEFINE W == {e \in accepted'[o] : b <= e.at /\ e.at < b + Window}
      <3>1. b \in Nat
        BY AccessAssumption DEF Time
      <3>2. W \subseteq R \cup {h}
        <4>1. SUFFICES ASSUME NEW e \in accepted[ip], b <= e.at PROVE e \in R
          BY <1>2, <2>4
        <4>2. e.at + Window > now
          BY <1>0, <1>6, <2>4, <3>1, <4>1
        <4> QED BY <1>6, <4>2
      <3> HIDE DEF W
      <3>3. Cardinality(W) <= Cardinality(R \cup {h}) /\ Cardinality(W) \in Nat
        BY <1>5, <3>2, FS_Subset, FS_CardinalityType
      <3>4. Cardinality(W) <= MaxHits
        BY <1>0, <1>5, <3>3
      <3> QED BY <3>4 DEF W
    <2>5. CASE o = ip /\ ~(b <= now /\ now < b + Window)
      <3>1. {e \in accepted'[o] : b <= e.at /\ e.at < b + Window}
              = {e \in accepted[o] : b <= e.at /\ e.at < b + Window}
        BY <1>2, <1>3, <2>5
      <3> QED BY <2>2, <3>1
    <2> QED BY <2>3, <2>4, <2>5
  <1> QED BY <1>7, <1>8

(* A new request has a new number, and dropping the oldest ones changes no  *)
(* other.                                                                   *)
LEMMA SubmitRequests ==
    ASSUME AccessInv, NEW t \in Threads, NEW ip \in Addresses, Submit(t, ip)
    PROVE  /\ requests' \in Seq(AccessRequest) /\ Len(requests') <= MaxKept
           /\ RequestsOK' /\ RequestStep
  <1> DEFINE new == [id |-> made.requests + 1, status |-> "pending", exc |-> None]
             all == Append(requests, new)
             n == Len(requests)
  <1>0. /\ TypeOK /\ RequestsOK /\ made.requests \in Nat /\ MaxRequests \in Nat /\ MaxKept \in Nat \ {0}
        /\ requests \in Seq(AccessRequest) /\ n \in Nat /\ n <= MaxKept
        /\ \A i \in 1 .. n : requests[i] \in AccessRequest /\ requests[i].id \in Nat
    BY Numbers, StoredRequests, AccessAssumption DEF AccessInv, TypeOK
  <1>1. new \in AccessRequest /\ new.id = made.requests + 1
    BY <1>0 DEF AccessRequest, Submit
  <1>2. made'.requests = made.requests + 1
    BY <1>0 DEF Submit, TypeOK
  <1> HIDE DEF AccessRequest, new
  <1>3. /\ all \in Seq(AccessRequest) /\ Len(all) = n + 1 /\ all[n + 1] = new
        /\ \A i \in 1 .. n : all[i] = requests[i]
    BY <1>0, <1>1
  <1>c. CASE requests' = requests
    <2>1. made.requests <= made'.requests /\ made'.requests \in Nat
      BY <1>0, <1>2
    <2> QED BY <1>0, <1>c, <2>1, RequestsKept DEF n
  <1> SUFFICES ASSUME ~(requests' = requests)
               PROVE  /\ requests' \in Seq(AccessRequest) /\ Len(requests') <= MaxKept
                      /\ RequestsOK' /\ RequestStep
    BY <1>c
  <1>4. requests' = IF Len(all) > MaxKept THEN SubSeq(all, Len(all) - MaxKept + 1, Len(all)) ELSE all
    BY DEF Submit, new
  <1> HIDE DEF all, n
  <1>5. PICK d \in Nat : /\ requests' \in Seq(AccessRequest) /\ Len(requests') = n + 1 - d
                         /\ Len(requests') \in Nat /\ Len(requests') <= MaxKept
                         /\ \A j \in 1 .. Len(requests') : j + d \in 1 .. n + 1 /\ requests'[j] = all[j + d]
    <2>1. CASE n + 1 > MaxKept
      <3> DEFINE m == n + 1 - MaxKept
                 s == SubSeq(all, m + 1, n + 1)
      <3>n. n \in Nat /\ MaxKept \in Nat /\ MaxKept >= 1 /\ n <= MaxKept
        BY <1>0
      <3>1. m \in Nat /\ m + 1 \in 1 .. n + 1 /\ n + 1 - m = MaxKept /\ m + MaxKept = n + 1
        BY <3>n, <2>1
      <3>3. requests' = s
        <4>1. Len(all) - MaxKept + 1 = m + 1 /\ Len(all) > MaxKept /\ Len(all) = n + 1
          BY <1>3, <2>1, <3>n
        <4> HIDE DEF m
        <4> QED BY <1>4, <4>1
      <3> HIDE DEF m
      <3>2. s \in Seq(AccessRequest) /\ Len(s) = MaxKept /\ \A j \in 1 .. MaxKept : s[j] = all[j + m]
        <4>1. \A i \in m + 1 .. n + 1 : all[i] \in AccessRequest
          BY <1>3, <3>n, <3>1
        <4>2. /\ s \in Seq(AccessRequest)
              /\ Len(s) = IF m + 1 <= n + 1 THEN (n + 1) - (m + 1) + 1 ELSE 0
              /\ \A j \in 1 .. (n + 1) - (m + 1) + 1 : s[j] = all[(m + 1) + j - 1]
          BY <3>n, <3>1, <4>1, SubSeqProperties
        <4>3. m + 1 <= n + 1 /\ (n + 1) - (m + 1) + 1 = MaxKept
          BY <3>n, <3>1
        <4>4. \A j \in 1 .. MaxKept : (m + 1) + j - 1 = j + m
          BY <3>n, <3>1
        <4> HIDE DEF s
        <4> QED BY <4>2, <4>3, <4>4
      <3> HIDE DEF s
      <3>4. \A j \in 1 .. MaxKept : j + m \in 1 .. n + 1
        BY <3>n, <3>1
      <3>5. MaxKept = n + 1 - m /\ MaxKept <= MaxKept
        BY <3>n, <3>1
      <3> QED BY <3>n, <3>1, <3>2, <3>3, <3>4, <3>5
    <2>2. CASE ~(n + 1 > MaxKept)
      <3>1. requests' = all
        BY <1>3, <1>4, <2>2
      <3>2. n + 1 = n + 1 - 0 /\ n + 1 <= MaxKept /\ n + 1 \in Nat /\ \A j \in 1 .. n + 1 : j + 0 = j
        BY <1>0, <2>2
      <3> QED BY <1>3, <3>1, <3>2
    <2> QED BY <2>1, <2>2
  <1>6. \A i \in 1 .. n : requests[i].id <= made.requests
    BY <1>0 DEF RequestsOK, n
  <1>7. \A i, j \in 1 .. n : requests[i].id = requests[j].id => i = j
    BY <1>0 DEF RequestsOK, n
  <1>8. \A i \in 1 .. n + 1 : all[i].id <= made.requests + 1 /\ (i <= n => all[i] = requests[i])
                               /\ (i > n => i = n + 1 /\ all[i].id = made.requests + 1)
    BY <1>0, <1>1, <1>3, <1>6
  <1>9. \A i, j \in 1 .. n + 1 : all[i].id = all[j].id => i = j
    <2> SUFFICES ASSUME NEW i \in 1 .. n + 1, NEW j \in 1 .. n + 1, all[i].id = all[j].id PROVE i = j
      OBVIOUS
    <2>1. CASE i <= n /\ j <= n
      <3>1. i \in 1 .. n /\ j \in 1 .. n
        BY <1>0, <2>1
      <3> QED BY <1>7, <1>8, <2>1, <3>1
    <2>2. CASE i > n /\ j > n
      BY <1>8, <2>2
    <2>3. CASE (i > n /\ j <= n) \/ (i <= n /\ j > n)
      <3>1. \A a \in 1 .. n + 1 : a <= n => all[a].id \in Nat /\ all[a].id <= made.requests
        <4>1. \A a \in 1 .. n + 1 : a <= n => a \in 1 .. n
          BY <1>0
        <4> QED BY <1>0, <1>6, <1>8, <4>1
      <3> QED BY <1>0, <1>8, <2>3, <3>1
    <2> QED BY <1>0, <2>1, <2>2, <2>3
  <1>10. RequestsOK'
    <2>1. \A i, j \in 1 .. Len(requests') : requests'[i].id = requests'[j].id => i = j
      BY <1>5, <1>9
    <2>2. \A i \in 1 .. Len(requests') : requests'[i].id <= made'.requests
      BY <1>2, <1>5, <1>8
    <2> QED BY <2>1, <2>2 DEF RequestsOK
  <1>11. RequestStep
    <2> SUFFICES ASSUME NEW i \in 1 .. n, NEW j \in 1 .. Len(requests'), requests[i].id = requests'[j].id
                 PROVE  requests'[j] = requests[i]
      BY DEF RequestStep, n
    <2>1. i \in 1 .. n + 1 /\ all[i] = requests[i]
      BY <1>0, <1>3
    <2>2. i = j + d
      BY <1>5, <1>9, <2>1
    <2> QED BY <1>5, <2>1, <2>2
  <1> QED BY <1>5, <1>10, <1>11

LEMMA SubmitOwed ==
    ASSUME AccessInv, NEW t \in Threads, NEW ip \in Addresses, Submit(t, ip)
    PROVE  Owed
  <1> DEFINE h == [request |-> made.requests + 1, at |-> now]
  <1>0. /\ TypeOK /\ HandlersOK /\ now \in Nat /\ made.requests \in Nat /\ MaxRequests \in Nat
        /\ hits \in [Addresses -> SUBSET Hit] /\ accepted \in [Addresses -> SUBSET Hit] /\ now \in Time
        /\ made \in [grants : 0 .. MaxGrants, requests : 0 .. MaxRequests]
    BY Numbers DEF AccessInv, TypeOK
  <1>1. UNCHANGED <<now, groups, groupsMem, stored, mem, th, ended>>
    BY DEF Submit
  <1>2. h \in Hit
    BY <1>0 DEF Hit, Submit
  <1>3. /\ hits' = [hits EXCEPT ![ip] = Recent(ip) \cup {h}]
        /\ accepted' = [accepted EXCEPT ![ip] = @ \cup {h}] \/ accepted' = accepted
    BY DEF Submit
  <1> HIDE DEF h, Hit
  <1>4. hits' \in [Addresses -> SUBSET Hit] /\ accepted' \in [Addresses -> SUBSET Hit]
    BY <1>0, <1>2, <1>3 DEF Recent
  <1>5. made' \in [grants : 0 .. MaxGrants, requests : 0 .. MaxRequests] /\ made'.grants = made.grants
    BY <1>0 DEF Submit
  <1>6. ops' \in 0 .. MaxOps
    BY <1>0, StartsCounts DEF Submit
  <1>7. RatesOK' /\ RateBounded'
    BY SubmitRates
  <1>8. /\ requests' \in Seq(AccessRequest) /\ Len(requests') <= MaxKept
        /\ RequestsOK' /\ RequestStep
    BY SubmitRequests
  <1>9. TypeOK'
    BY <1>0, <1>1, <1>4, <1>5, <1>6, <1>8 DEF TypeOK
  <1>10. HandlersOK' /\ \A u \in Threads : th'[u].at = "put" => th'[u] = th[u]
    BY <1>0, <1>1 DEF HandlersOK
  <1> QED BY <1>0, <1>1, <1>5, <1>7, <1>8, <1>9, <1>10, DocumentsStay

(* A review changes a pending request and nothing else.                     *)
LEMMA ReviewRequests ==
    ASSUME AccessInv, made'.requests = made.requests,
           requests' = [i \in 1 .. Len(requests) |-> requests'[i]],
           \A i \in 1 .. Len(requests) :
              /\ requests'[i] \in AccessRequest /\ requests'[i].id = requests[i].id
              /\ requests[i].status # "pending" => requests'[i] = requests[i]
    PROVE  /\ requests' \in Seq(AccessRequest) /\ Len(requests') <= MaxKept
           /\ RequestsOK' /\ RequestStep
  <1> DEFINE n == Len(requests)
  <1>0. /\ TypeOK /\ RequestsOK /\ made.requests \in Nat /\ n \in Nat /\ n <= MaxKept
        /\ \A i \in 1 .. n : requests[i] \in AccessRequest
    BY Numbers, StoredRequests DEF AccessInv, TypeOK
  <1> HIDE DEF AccessRequest, n
  <1>1. \A i \in 1 .. n : requests'[i] \in AccessRequest /\ requests'[i].id = requests[i].id
    BY DEF n
  <1>2. requests' \in Seq(AccessRequest) /\ Len(requests') = n
    <2>1. requests' = [i \in 1 .. n |-> requests'[i]]
      BY DEF n
    <2>2. requests' \in [1 .. n -> AccessRequest]
      BY <1>1, <2>1
    <2> QED BY <1>0, <2>2
  <1>3. RequestsOK'
    BY <1>0, <1>1, <1>2 DEF RequestsOK, n
  <1>4. RequestStep
    <2> SUFFICES ASSUME NEW i \in 1 .. n, NEW j \in 1 .. n, requests[i].id = requests'[j].id,
                        requests[i].status # "pending"
                 PROVE  requests'[j] = requests[i]
      BY <1>2 DEF RequestStep, n
    <2>1. i = j
      BY <1>0, <1>1 DEF RequestsOK, n
    <2> QED BY <2>1 DEF n
  <1> QED BY <1>0, <1>2, <1>3, <1>4

LEMMA MarkApprovedOwed ==
    ASSUME AccessInv, NEW t \in Threads, MarkApproved(t)
    PROVE  Owed
  <1> DEFINE e == th[t].exc
             r == th[t].req
             f(q) == [q EXCEPT !.status = "approved", !.exc = e]
  <1>0. /\ TypeOK /\ HandlersOK /\ RatesOK /\ RateBounded /\ now \in Nat /\ th[t] \in Handler
    BY Numbers DEF AccessInv, TypeOK
  <1>1. e \in Ids \cup {None}
    BY <1>0 DEF Handler
  <1>2. Idle \in Handler /\ Idle.at = "idle"
    BY DEF Idle, Handler
  <1>3. /\ requests' = [i \in 1 .. Len(requests) |-> IF i \in Position(r) THEN f(requests[i]) ELSE requests[i]]
        /\ th' = [th EXCEPT ![t] = Idle]
        /\ UNCHANGED <<now, groups, groupsMem, stored, mem, hits, made, ops, accepted, ended>>
    BY DEF MarkApproved
  <1>4. \A q \in AccessRequest : f(q) \in AccessRequest /\ f(q).id = q.id
    BY <1>1 DEF AccessRequest
  <1> HIDE DEF f, r
  <1>5. /\ requests' \in Seq(AccessRequest) /\ Len(requests') <= MaxKept
        /\ RequestsOK' /\ RequestStep
    <2>1. requests' = [i \in 1 .. Len(requests) |-> requests'[i]]
      BY <1>3
    <2>2. \A i \in 1 .. Len(requests) :
             /\ requests'[i] \in AccessRequest /\ requests'[i].id = requests[i].id
             /\ requests[i].status # "pending" => requests'[i] = requests[i]
      <3> HIDE DEF AccessRequest
      <3> QED BY <1>0, <1>3, <1>4, StoredRequests DEF Position
    <2> QED BY <1>3, <2>1, <2>2, ReviewRequests
  <1>6. /\ th' \in [Threads -> Handler] /\ HandlersOK'
        /\ th'[t] = Idle /\ \A u \in Threads \ {t} : th'[u] = th[u]
    BY <1>0, <1>2, <1>3, HandlerMoves
  <1>7. TypeOK'
    BY <1>0, <1>3, <1>5, <1>6 DEF TypeOK
  <1>8. RatesOK' /\ RateBounded'
    BY <1>0, <1>3, RatesKept
  <1>9. \A u \in Threads : th'[u].at = "put" => th'[u] = th[u]
    BY <1>2, <1>6
  <1> QED BY <1>0, <1>3, <1>5, <1>6, <1>7, <1>8, <1>9, DocumentsStay

LEMMA RejectOwed ==
    ASSUME AccessInv, NEW t \in Threads, NEW r \in 1 .. MaxRequests, Reject(t, r)
    PROVE  Owed
  <1> DEFINE f(q) == [q EXCEPT !.status = "rejected"]
  <1>0. /\ TypeOK /\ HandlersOK /\ RatesOK /\ RateBounded /\ now \in Nat
    BY Numbers DEF AccessInv, TypeOK
  <1>1. /\ requests' = [i \in 1 .. Len(requests) |-> IF i \in Position(r) THEN f(requests[i]) ELSE requests[i]]
        /\ UNCHANGED <<now, groups, groupsMem, stored, mem, hits, th, made, accepted, ended>>
    BY DEF Reject
  <1>2. \A q \in AccessRequest : f(q) \in AccessRequest /\ f(q).id = q.id
    BY DEF AccessRequest
  <1> HIDE DEF f
  <1>3. /\ requests' \in Seq(AccessRequest) /\ Len(requests') <= MaxKept
        /\ RequestsOK' /\ RequestStep
    <2>1. requests' = [i \in 1 .. Len(requests) |-> requests'[i]]
      BY <1>1
    <2>2. \A i \in 1 .. Len(requests) :
             /\ requests'[i] \in AccessRequest /\ requests'[i].id = requests[i].id
             /\ requests[i].status # "pending" => requests'[i] = requests[i]
      <3> HIDE DEF AccessRequest
      <3> QED BY <1>0, <1>1, <1>2, StoredRequests DEF Position
    <2> QED BY <1>1, <2>1, <2>2, ReviewRequests
  <1>4. ops' \in 0 .. MaxOps
    BY <1>0, StartsCounts DEF Reject
  <1>5. TypeOK'
    BY <1>0, <1>1, <1>3, <1>4 DEF TypeOK
  <1>6. RatesOK' /\ RateBounded'
    BY <1>0, <1>1, RatesKept
  <1>7. HandlersOK' /\ \A u \in Threads : th'[u].at = "put" => th'[u] = th[u]
    BY <1>0, <1>1 DEF HandlersOK
  <1> QED BY <1>0, <1>1, <1>3, <1>5, <1>6, <1>7, DocumentsStay

-----------------------------------------------------------------------------
(* Restart and clock *)

(* A limiter that has seen nothing bounds everything.                       *)
LEMMA NothingAccepted ==
    ASSUME NEW A, A = [ip \in Addresses |-> {}]
    PROVE  \A ip \in Addresses : /\ A[ip] = {} /\ IsFiniteSet(A[ip])
                               /\ \A b \in Time : Cardinality({h \in A[ip] : b <= h.at /\ h.at < b + Window}) <= MaxHits
  <1>1. MaxHits \in Nat
    BY AccessAssumption
  <1>2. IsFiniteSet({}) /\ Cardinality({}) = 0
    BY FS_EmptySet
  <1>3. \A ip \in Addresses : A[ip] = {}
    OBVIOUS
  <1>4. \A ip \in Addresses, b \in Time : {h \in A[ip] : b <= h.at /\ h.at < b + Window} = {}
    BY <1>3
  <1>5. Cardinality({}) <= MaxHits
    BY <1>1, <1>2
  <1> QED BY <1>2, <1>3, <1>4, <1>5

LEMMA RestartOwed ==
    ASSUME AccessInv, Restart
    PROVE  Owed
  <1>0. TypeOK /\ now \in Nat /\ made.requests \in Nat /\ MaxOps \in Nat /\ RequestsOK
    BY Numbers DEF AccessInv
  <1>1. /\ mem' = stored /\ groupsMem' = groups /\ th' = [t \in Threads |-> Idle]
        /\ hits' = [ip \in Addresses |-> {}] /\ accepted' = [ip \in Addresses |-> {}]
        /\ UNCHANGED <<now, groups, stored, requests, made, ended>>
    BY DEF Restart
  <1>2. Idle \in Handler /\ Idle.at = "idle"
    BY DEF Idle, Handler
  <1>3. th' \in [Threads -> Handler] /\ \A t \in Threads : th'[t].at = "idle"
    BY <1>1, <1>2
  <1>4. HandlersOK'
    BY <1>3 DEF HandlersOK
  <1>5. ops' \in 0 .. MaxOps
    BY <1>0 DEF Restart, TypeOK
  <1>6. TypeOK'
    BY <1>0, <1>1, <1>3, <1>5 DEF TypeOK
  <1>7. RatesOK' /\ RateBounded'
    BY <1>1, NothingAccepted DEF RatesOK, RateBounded
  <1>8. RequestsOK' /\ RequestStep
    BY <1>0, <1>1, RequestsKept
  <1> QED BY <1>0, <1>1, <1>3, <1>4, <1>6, <1>7, <1>8, DocumentsStay

LEMMA TickOwed ==
    ASSUME AccessInv, Tick
    PROVE  Owed
  <1>0. /\ TypeOK /\ now \in Nat /\ made.requests \in Nat /\ MaxTime \in Nat
        /\ RequestsOK /\ RatesOK /\ RateBounded /\ HandlersOK
    BY Numbers DEF AccessInv
  <1>1. now' = now + 1 /\ now < MaxTime
        /\ UNCHANGED <<groups, groupsMem, stored, mem, requests, hits, th, made, ops, accepted, ended>>
    BY DEF Tick
  <1>2. now' \in Time /\ now' \in Nat /\ now <= now'
    BY <1>0, <1>1 DEF Time
  <1>3. TypeOK'
    BY <1>0, <1>1, <1>2 DEF TypeOK
  <1>4. RatesOK' /\ RateBounded'
    BY <1>0, <1>1, <1>2, RatesKept
  <1>5. RequestsOK' /\ RequestStep
    BY <1>0, <1>1, RequestsKept
  <1>6. HandlersOK'
    BY <1>0, <1>1 DEF HandlersOK
  <1> QED BY <1>1, <1>2, <1>3, <1>4, <1>5, <1>6, DocumentsStay

-----------------------------------------------------------------------------
(* The specification *)

LEMMA InitAccess == Init => AccessInv
  <1> SUFFICES ASSUME Init PROVE AccessInv
    OBVIOUS
  <1>1. Idle \in Handler /\ Idle.at = "idle"
    BY DEF Idle, Handler
  <1>2. th \in [Threads -> Handler] /\ \A t \in Threads : th[t].at = "idle"
    BY <1>1 DEF Init
  <1>3. /\ stored \in [Kinds -> Document] /\ mem \in [Kinds -> Document]
        /\ \A k \in Kinds, id \in Ids : stored[k][id] = None /\ mem[k][id] = None
    BY DEF Init, Document
  <1>4. requests \in Seq(AccessRequest) /\ Len(requests) = 0
    <2> HIDE DEF AccessRequest
    <2> QED BY DEF Init
  <1>5. TypeOK
    <2>1. now \in Time /\ Len(requests) <= MaxKept /\ ops \in 0 .. MaxOps
          /\ made \in [grants : 0 .. MaxGrants, requests : 0 .. MaxRequests]
      BY <1>4, AccessAssumption DEF Init, Time
    <2>2. {hits, accepted} \subseteq [Addresses -> SUBSET Hit] /\ groups \subseteq GroupIDs
          /\ groupsMem \subseteq GroupIDs /\ ended \subseteq Kinds \X Ids
      BY DEF Init
    <2> QED BY <1>2, <1>3, <1>4, <2>1, <2>2 DEF TypeOK
  <1>6. HandlersOK
    BY <1>2 DEF HandlersOK
  <1>7. CopiesOK
    BY <1>2, <1>3 DEF CopiesOK, CopyOf
  <1>8. RatesOK /\ RateBounded
    BY NothingAccepted DEF Init, RatesOK, RateBounded
  <1>9. RequestsOK
    BY <1>4 DEF RequestsOK
  <1> QED BY <1>5, <1>6, <1>7, <1>8, <1>9 DEF AccessInv

LEMMA StepAccess == AccessInv /\ [Next]_vars => AccessInv' /\ [GrantStep /\ RequestStep /\ GoneStep]_vars
  <1> SUFFICES ASSUME AccessInv, [Next]_vars PROVE AccessInv' /\ [GrantStep /\ RequestStep /\ GoneStep]_vars
    OBVIOUS
  <1>0. TypeOK
    BY DEF AccessInv
  <1>1. CASE UNCHANGED vars
    <2>1. AccessInv'
      BY <1>1 DEF vars, AccessInv, TypeOK, HandlersOK, CopiesOK, RatesOK, RateBounded, RequestsOK
    <2> QED BY <1>1, <2>1
  <1>2. CASE Restart \/ Tick
    BY <1>2, RestartOwed, TickOwed DEF Owed
  <1>3. ASSUME NEW t \in Threads, Serve(t) PROVE Owed
    <2>1. ASSUME NEW k \in Kinds, NEW g \in GroupIDs \cup {None}, NEW d \in 1 .. MaxDuration + 1,
                 CreateGrant(t, k, g, d)
          PROVE  Owed
      <3>1. ops' \in 0 .. MaxOps /\ Idle \in Handler
        BY <1>0, <2>1, StartsCounts DEF CreateGrant
      <3> QED BY <2>1, <3>1, CreateOwed DEF CreateGrant
    <2>2. ASSUME NEW r \in 1 .. MaxRequests, NEW g \in GroupIDs \cup {None}, NEW d \in 1 .. MaxDuration + 1,
                 Approve(t, r, g, d)
          PROVE  Owed
      <3> DEFINE h == [Idle EXCEPT !.req = r]
      <3>1. ops' \in 0 .. MaxOps /\ Idle \in Handler
        BY <1>0, <2>2, StartsCounts DEF Approve
      <3>2. h \in Handler
        BY <3>1 DEF Handler
      <3>3. Create(t, "exception", g, d, h) /\ "exception" \in Kinds
        BY <2>2 DEF Approve, Kinds
      <3> HIDE DEF h
      <3> QED BY <3>1, <3>2, <3>3, CreateOwed
    <2>3. ASSUME NEW p \in Clients, NEW f \in Addresses \cup {None}, Submit(t, clientIPFromRequest(p, f))
          PROVE  Owed
      <3>1. clientIPFromRequest(p, f) \in Addresses
        BY AccessAssumption DEF clientIPFromRequest
      <3> QED BY <2>3, <3>1, SubmitOwed
    <2> QED BY <1>3, <2>1, <2>2, <2>3, RevokeOwed, PruneOwed, ChangeGroupsOwed, RejectOwed DEF Serve
  <1>4. ASSUME NEW t \in Threads, Continue(t) PROVE Owed
    BY <1>4, LoadReadOwed, LoadFailsOwed, LoadPutOwed, ReloadGroupsOwed, InstallGroupsOwed, MarkApprovedOwed DEF Continue
  <1> QED BY <1>1, <1>2, <1>3, <1>4 DEF Next, Owed

(* The documents, their copies, the clock, the limiter and the handlers     *)
(* keep their shape, and the list of requests never exceeds its limit.      *)
THEOREM AccessTypeCorrect == Spec => []TypeOK
  <1>1. AccessInv => TypeOK
    BY DEF AccessInv
  <1> QED BY InitAccess, StepAccess, <1>1, PTL DEF Spec

(* A grant that decisions honour was stored, with the same end and for the  *)
(* same policy, however many handlers read and install copies in whatever   *)
(* order (loadExceptions, loadPauses, Reload).                              *)
THEOREM HonouredWasStored == Spec => []MemoryFromStore
  <1>1. AccessInv => MemoryFromStore
    <2> SUFFICES ASSUME AccessInv, NEW k \in Kinds, NEW id \in Ids, InForce(mem[k][id])
                 PROVE  /\ stored[k][id] # None
                        /\ stored[k][id].until = mem[k][id].until /\ stored[k][id].group = mem[k][id].group
      BY DEF MemoryFromStore
    <2>1. CopyOf(mem[k], stored[k], made.grants, now)
      BY DEF AccessInv, CopiesOK
    <2>2. mem[k][id] # None /\ now < mem[k][id].until
      BY DEF InForce
    <2>3. now \in Nat /\ mem[k][id].until \in Nat
      BY <2>2, Numbers, AccessAssumption DEF AccessInv, TypeOK, Document, Grant, Time
    <2>4. ~(mem[k][id].until <= now)
      BY <2>2, <2>3
    <2> QED BY <2>1, <2>2, <2>4 DEF CopyOf
  <1> QED BY InitAccess, StepAccess, <1>1, PTL DEF Spec

(* In no stretch of time as long as the window are more than MaxHits        *)
(* requests stored for one address, the one clientIPFromRequest takes, as   *)
(* rateLimiter.allow counts them.                                           *)
THEOREM RateIsBounded == Spec => []RateBounded
  <1>1. AccessInv => RateBounded
    BY DEF AccessInv
  <1> QED BY InitAccess, StepAccess, <1>1, PTL DEF Spec

(* A revoked grant stays revoked in its document, and a request is reviewed *)
(* once, whoever else reviews it (ApproveAccessRequest,                     *)
(* RejectAccessRequest, RevokeException).                                   *)
THEOREM AnswersAreFinal == Spec => ReviewedOnce
  <1>1. [GrantStep /\ RequestStep /\ GoneStep]_vars =>
          [/\ \A k \in Kinds, id \in Ids :
                stored[k][id] # None /\ ~stored[k][id].active /\ stored'[k][id] # None
                  => stored'[k][id] = stored[k][id]
           /\ \A i \in 1 .. Len(requests), j \in 1 .. Len(requests') :
                requests[i].id = requests'[j].id /\ requests[i].status # "pending"
                  => requests'[j] = requests[i]]_vars
    BY DEF GrantStep, RequestStep
  <1> QED BY InitAccess, StepAccess, <1>1, PTL DEF Spec, ReviewedOnce

-----------------------------------------------------------------------------
(* Revocations *)

Over(g) == g = None \/ ~g.active

(* Grant e is over in the documents S, and its number below n.              *)
OverIn(e, S, n) == Over(S[e[1]][e[2]]) /\ e[2] <= n

(* A handler that revokes refreshes the copy it has changed, from a         *)
(* document in which the grant is over.                                     *)
RevokerOK(h, S, n) ==
    /\ h.at = "groups" => h.ends = None
    /\ h.at \in {"read", "put"} /\ h.ends # None =>
         /\ Head(h.kinds) = h.ends[1] /\ OverIn(h.ends, S, n)
         /\ Tail(h.kinds) = <<>>
         /\ h.at = "put" => Over(h.doc[h.ends[2]])

RevokedOK ==
    /\ \A e \in ended : OverIn(e, stored, made.grants)
    /\ \A t \in Threads : RevokerOK(th[t], stored, made.grants)

(* What is over stays over.                                                 *)
LEMMA StaysOver ==
    ASSUME TypeOK, TypeOK', GrantStep, GoneStep, NEW e \in Kinds \X Ids, OverIn(e, stored, made.grants)
    PROVE  OverIn(e, stored', made'.grants)
  <1>1. e[1] \in Kinds /\ e[2] \in Ids /\ e[2] \in Nat
    BY AccessAssumption DEF Ids
  <1>2. /\ made.grants \in Nat /\ made'.grants \in Nat /\ made.grants <= made'.grants
        /\ e[2] <= made.grants
    BY AccessAssumption DEF TypeOK, GoneStep, OverIn
  <1>3. Over(stored'[e[1]][e[2]])
    BY <1>1, <1>2 DEF OverIn, Over, GrantStep, GoneStep
  <1> QED BY <1>1, <1>2, <1>3 DEF OverIn

(* A handler that does not move stays as it should be.                      *)
LEMMA RevokerStays ==
    ASSUME TypeOK, TypeOK', GrantStep, GoneStep, NEW h \in Handler, RevokerOK(h, stored, made.grants)
    PROVE  RevokerOK(h, stored', made'.grants)
  <1>1. h.ends # None => h.ends \in Kinds \X Ids
    BY DEF Handler
  <1> QED BY <1>1, StaysOver DEF RevokerOK

(* A step after which one handler is h, and ended grew by at most what is   *)
(* over.                                                                    *)
LEMMA RevokedKept ==
    ASSUME TypeOK, TypeOK', GrantStep, GoneStep, RevokedOK, NEW t \in Threads, NEW h \in Handler,
           th' = [th EXCEPT ![t] = h], RevokerOK(h, stored', made'.grants),
           \A e \in ended' : e \in ended \/ OverIn(e, stored', made'.grants)
    PROVE  RevokedOK'
  <1>1. th \in [Threads -> Handler] /\ ended \subseteq Kinds \X Ids
    BY DEF TypeOK
  <1>2. \A e \in ended' : OverIn(e, stored', made'.grants)
    BY <1>1, StaysOver DEF RevokedOK
  <1>3. \A u \in Threads : RevokerOK(th'[u], stored', made'.grants)
    BY <1>1, RevokerStays DEF RevokedOK
  <1> QED BY <1>2, <1>3 DEF RevokedOK

(* A handler that does not revoke is as it should be.                       *)
LEMMA NoRevoker ==
    ASSUME NEW h, h.ends = None, NEW S, NEW n
    PROVE  RevokerOK(h, S, n)
  BY DEF RevokerOK

LEMMA IdleRevoker == Idle \in Handler /\ Idle.at = "idle" /\ Idle.ends = None
  BY DEF Idle, Handler

(* A transaction of a handler that does not revoke.                         *)
LEMMA UpdateRevoked ==
    ASSUME TypeOK, TypeOK', GrantStep, GoneStep, RevokedOK, NEW t \in Threads, NEW k \in Kinds, NEW D,
           NEW h \in Handler, Update(t, k, D, h),
           \/ h.ends = None
           \/ h.ends[1] = k /\ OverIn(h.ends, stored', made'.grants)
    PROVE  RevokedOK'
  <1> DEFINE s == <<k>>
             g == [h EXCEPT !.at = "read", !.kinds = s]
  <1>1. s \in Seq(Kinds) /\ Head(s) = k /\ Tail(s) = <<>>
    <2> HIDE DEF Kinds
    <2> QED OBVIOUS
  <1>2. th' = [th EXCEPT ![t] = g] /\ ended' = ended
    BY DEF Update
  <1> HIDE DEF s
  <1>3. g \in Handler /\ g.at = "read" /\ g.kinds = s /\ g.ends = h.ends
    BY <1>1 DEF Handler
  <1> HIDE DEF g
  <1>4. RevokerOK(g, stored', made'.grants)
    BY <1>1, <1>3 DEF RevokerOK
  <1> QED BY <1>2, <1>3, <1>4, RevokedKept

LEMMA RevokeRevoked ==
    ASSUME AccessInv, TypeOK', GrantStep, GoneStep, RevokedOK, NEW t \in Threads, NEW k \in Kinds, NEW id \in Ids,
           Revoke(t, k, id)
    PROVE  RevokedOK'
  <1> DEFINE D == [stored[k] EXCEPT ![id] = [@ EXCEPT !.active = FALSE, !.revokedAt = now]]
             e == <<k, id>>
             h == [Idle EXCEPT !.ends = e]
  <1>1. TypeOK /\ stored \in [Kinds -> Document] /\ stored[k][id] # None /\ made' = made
    BY DEF AccessInv, TypeOK, Revoke
  <1>2. Update(t, k, D, h)
    BY DEF Revoke
  <1>3. h \in Handler /\ h.ends = e /\ e[1] = k /\ e[2] = id
    BY IdleRevoker DEF Handler, Idle
  <1>4. id <= made.grants
    BY <1>1 DEF AccessInv, CopiesOK, CopyOf
  <1>5. ~stored'[k][id].active
    <2>1. stored' = [stored EXCEPT ![k] = D]
      BY <1>2 DEF Update
    <2>2. stored[k] \in Document /\ stored[k][id] \in Grant
      BY <1>1 DEF Document
    <2>3. D[id] = [stored[k][id] EXCEPT !.active = FALSE, !.revokedAt = now]
      BY <2>2 DEF Document
    <2>4. ~D[id].active
      BY <2>2, <2>3 DEF Grant
    <2> HIDE DEF D
    <2> QED BY <1>1, <2>1, <2>4
  <1> HIDE DEF D, h
  <1>6. OverIn(e, stored', made'.grants)
    BY <1>1, <1>3, <1>4, <1>5 DEF OverIn, Over
  <1> QED BY <1>1, <1>2, <1>3, <1>6, UpdateRevoked

(* Creating and pruning.                                                    *)
LEMMA CreateRevoked ==
    ASSUME TypeOK, TypeOK', GrantStep, GoneStep, RevokedOK, NEW t \in Threads, NEW k \in Kinds,
           NEW g, NEW d, NEW h \in Handler, h.ends = None, Create(t, k, g, d, h)
    PROVE  RevokedOK'
  <1> DEFINE n == made.grants + 1
             f == [h EXCEPT !.exc = n]
             D == [stored[k] EXCEPT ![n] = [group |-> g, until |-> now + d, active |-> TRUE, revokedAt |-> None]]
  <1>1. n \in Ids
    BY Numbers DEF Create, Ids
  <1>2. Update(t, k, D, f)
    BY DEF Create
  <1> HIDE DEF n, D
  <1>3. f \in Handler /\ f.ends = None
    BY <1>1 DEF Handler
  <1> HIDE DEF f
  <1> QED BY <1>2, <1>3, UpdateRevoked

(* Refreshing.                                                              *)
LEMMA LoadReadRevoked ==
    ASSUME AccessInv, TypeOK', GrantStep, GoneStep, RevokedOK, NEW t \in Threads, LoadRead(t)
    PROVE  RevokedOK'
  <1> DEFINE k == Head(th[t].kinds)
             d == stored[k]
             h == [th[t] EXCEPT !.at = "put", !.doc = d]
  <1>1. TypeOK /\ th[t] \in Handler /\ th[t].at = "read" /\ RevokerOK(th[t], stored, made.grants)
    BY DEF AccessInv, TypeOK, LoadRead, RevokedOK
  <1>2. th' = [th EXCEPT ![t] = h] /\ UNCHANGED <<stored, made, ended>>
    BY DEF LoadRead, Step
  <1>3. d \in Document
    <2>1. th[t].kinds \in Seq(Kinds) /\ th[t].kinds # <<>> /\ stored \in [Kinds -> Document]
      BY <1>1 DEF AccessInv, HandlersOK, Handler, TypeOK
    <2> HIDE DEF Kinds, Document
    <2> QED BY <2>1
  <1>4. h \in Handler /\ h.at = "put" /\ h.kinds = th[t].kinds /\ h.doc = d /\ h.ends = th[t].ends
    <2> HIDE DEF d, k, Document, Kinds
    <2> QED BY <1>1, <1>3 DEF Handler
  <1>5. RevokerOK(h, stored', made'.grants)
    <2> HIDE DEF h
    <2> QED BY <1>1, <1>2, <1>4 DEF RevokerOK, OverIn
  <1> HIDE DEF h
  <1> QED BY <1>1, <1>2, <1>4, <1>5, RevokedKept

LEMMA LoadPutRevoked ==
    ASSUME AccessInv, TypeOK', GrantStep, GoneStep, RevokedOK, NEW t \in Threads, LoadPut(t)
    PROVE  RevokedOK'
  <1> DEFINE h == Then(th[t])
  <1>1. /\ TypeOK /\ th[t] \in Handler /\ th[t].at = "put" /\ RevokerOK(th[t], stored, made.grants)
        /\ th[t].kinds # <<>>
    BY DEF AccessInv, TypeOK, LoadPut, RevokedOK, HandlersOK
  <1>2. /\ th' = [th EXCEPT ![t] = h] /\ UNCHANGED <<stored, made>>
        /\ ended' = IF th[t].ends = None THEN ended ELSE ended \cup {th[t].ends}
    BY DEF LoadPut, Step
  <1>3. h \in Handler
    BY <1>1, ThenHandler
  <1>4. \A e \in ended' : e \in ended \/ OverIn(e, stored', made'.grants)
    BY <1>1, <1>2 DEF RevokerOK
  <1>5. RevokerOK(h, stored', made'.grants)
    <2>1. CASE Tail(th[t].kinds) # <<>>
      <3>1. th[t].ends = None
        BY <1>1, <2>1 DEF RevokerOK
      <3>2. h = [th[t] EXCEPT !.at = "read", !.kinds = Tail(@), !.doc = None]
        BY <2>1 DEF Then
      <3>3. h.ends = None
        BY <1>1, <3>1, <3>2 DEF Handler
      <3> QED BY <3>3, NoRevoker
    <2>2. CASE Tail(th[t].kinds) = <<>>
      <3> DEFINE none == <<>>
      <3>1. h \in {[th[t] EXCEPT !.at = "final", !.kinds = none, !.doc = None],
                   [th[t] EXCEPT !.at = "mark", !.kinds = none, !.doc = None], Idle}
        BY <2>2 DEF Then
      <3> HIDE DEF none
      <3>2. h.at \in {"final", "mark", "idle"}
        BY <1>1, <3>1, IdleRevoker DEF Handler
      <3> HIDE DEF h
      <3> QED BY <3>2 DEF RevokerOK
    <2> QED BY <2>1, <2>2
  <1> HIDE DEF h
  <1> QED BY <1>1, <1>2, <1>3, <1>4, <1>5, RevokedKept

(* Handlers of policies.                                                    *)
LEMMA GroupsRevoked ==
    ASSUME AccessInv, TypeOK', GrantStep, GoneStep, RevokedOK, NEW t \in Threads,
           ReloadGroups(t) \/ \E g \in GroupIDs : ChangeGroups(t, g)
    PROVE  RevokedOK'
  <1>1. TypeOK /\ th[t] \in Handler /\ RevokerOK(th[t], stored, made.grants)
    BY DEF AccessInv, TypeOK, RevokedOK
  <1>2. CASE ReloadGroups(t)
    <2> DEFINE all == <<"exception", "pause">>
               h == [th[t] EXCEPT !.at = "read", !.groups = groups, !.kinds = all]
    <2>1. th' = [th EXCEPT ![t] = h] /\ ended' = ended /\ th[t].at = "groups"
      BY <1>2 DEF ReloadGroups, Step
    <2>2. all \in Seq(Kinds) /\ groups \subseteq GroupIDs
      BY <1>1 DEF Kinds, TypeOK
    <2>3. th[t].ends = None
      BY <1>1, <2>1 DEF RevokerOK
    <2> HIDE DEF all, Kinds, Document
    <2>4. h \in Handler /\ h.ends = None
      BY <1>1, <2>2, <2>3 DEF Handler
    <2> HIDE DEF h
    <2> QED BY <1>1, <2>1, <2>4, NoRevoker, RevokedKept
  <1>3. CASE \E g \in GroupIDs : ChangeGroups(t, g)
    <2> DEFINE h == [Idle EXCEPT !.at = "groups"]
    <2>1. th' = [th EXCEPT ![t] = h] /\ ended' = ended
      BY <1>3 DEF ChangeGroups
    <2>2. h \in Handler /\ h.ends = None
      BY IdleRevoker DEF Handler
    <2> HIDE DEF h
    <2> QED BY <1>1, <2>1, <2>2, NoRevoker, RevokedKept
  <1> QED BY <1>2, <1>3

(* A step leaves memory alone, reads the documents at a start, or installs  *)
(* what a handler has read.                                                 *)
LEMMA MemorySteps ==
    ASSUME Next
    PROVE  \/ UNCHANGED <<mem, ended>>
           \/ mem' = stored /\ ended' = ended
           \/ \E t \in Threads : LoadPut(t)
  <1>1. Restart => mem' = stored /\ ended' = ended
    BY DEF Restart
  <1>2. Tick => UNCHANGED <<mem, ended>>
    BY DEF Tick
  <1>3. ASSUME NEW t \in Threads, Serve(t) PROVE UNCHANGED <<mem, ended>>
    <2>1. ASSUME NEW k, NEW D, NEW h, Update(t, k, D, h) PROVE UNCHANGED <<mem, ended>>
      BY <2>1 DEF Update
    <2>2. ASSUME NEW k, NEW g, NEW d, NEW h, Create(t, k, g, d, h) PROVE UNCHANGED <<mem, ended>>
      BY <2>1, <2>2 DEF Create
    <2>3. ASSUME NEW k \in Kinds, NEW id \in Ids, Revoke(t, k, id) PROVE UNCHANGED <<mem, ended>>
      BY <2>1, <2>3 DEF Revoke
    <2>4. ASSUME NEW k \in Kinds, Prune(t, k) PROVE UNCHANGED <<mem, ended>>
      BY <2>1, <2>4 DEF Prune
    <2>5. ASSUME NEW g \in GroupIDs, ChangeGroups(t, g) PROVE UNCHANGED <<mem, ended>>
      BY <2>5 DEF ChangeGroups
    <2>6. ASSUME NEW ip, Submit(t, ip) PROVE UNCHANGED <<mem, ended>>
      BY <2>6 DEF Submit
    <2>7. ASSUME NEW r \in 1 .. MaxRequests, Reject(t, r) PROVE UNCHANGED <<mem, ended>>
      BY <2>7 DEF Reject
    <2> QED BY <1>3, <2>2, <2>3, <2>4, <2>5, <2>6, <2>7 DEF Serve, CreateGrant, Approve
  <1>4. ASSUME NEW t \in Threads, Continue(t), ~LoadPut(t) PROVE UNCHANGED <<mem, ended>>
    BY <1>4 DEF Continue, LoadRead, LoadFails, ReloadGroups, InstallGroups, MarkApproved
  <1> QED BY <1>1, <1>2, <1>3, <1>4 DEF Next

(* The invariant about revocations is kept.                                 *)
LEMMA RevokedNext == AccessInv /\ RevokedOK /\ [Next]_vars => RevokedOK'
  <1> SUFFICES ASSUME AccessInv, RevokedOK, [Next]_vars PROVE RevokedOK'
    OBVIOUS
  <1>1. CASE UNCHANGED vars
    BY <1>1 DEF vars, RevokedOK
  <1>2. CASE Next /\ ~UNCHANGED vars
    <2>0. TypeOK /\ TypeOK' /\ GrantStep /\ GoneStep /\ th \in [Threads -> Handler]
      BY <1>2, StepAccess DEF AccessInv, TypeOK
    <2>1. ASSUME UNCHANGED <<th, ended>> PROVE RevokedOK'
      BY <2>0, <2>1, StaysOver, RevokerStays DEF RevokedOK, TypeOK
    <2>2. ASSUME NEW t \in Threads, th' = [th EXCEPT ![t] = Idle], ended' = ended PROVE RevokedOK'
      BY <2>0, <2>2, IdleRevoker, NoRevoker, RevokedKept
    <2>3. CASE Restart
      <3>1. \A t \in Threads : th'[t] = Idle
        BY <2>3 DEF Restart
      <3>2. ended' = ended
        BY <2>3 DEF Restart
      <3>3. \A e \in ended' : OverIn(e, stored', made'.grants)
        BY <2>0, <3>2, StaysOver DEF RevokedOK, TypeOK
      <3> QED BY <3>1, <3>3, IdleRevoker, NoRevoker DEF RevokedOK
    <2>4. CASE Tick
      BY <2>1, <2>4 DEF Tick
    <2>5. ASSUME NEW t \in Threads, Serve(t) PROVE RevokedOK'
      <3>1. ASSUME NEW k \in Kinds, NEW g, NEW d, CreateGrant(t, k, g, d) PROVE RevokedOK'
        BY <2>0, <3>1, IdleRevoker, CreateRevoked DEF CreateGrant
      <3>2. ASSUME NEW r \in 1 .. MaxRequests, NEW g, NEW d, Approve(t, r, g, d) PROVE RevokedOK'
        <4> DEFINE h == [Idle EXCEPT !.req = r]
        <4>1. h \in Handler /\ h.ends = None
          BY IdleRevoker DEF Handler
        <4>2. Create(t, "exception", g, d, h) /\ "exception" \in Kinds
          BY <3>2 DEF Approve, Kinds
        <4> HIDE DEF h
        <4> QED BY <2>0, <4>1, <4>2, CreateRevoked
      <3>3. ASSUME NEW k \in Kinds, NEW id \in Ids, Revoke(t, k, id) PROVE RevokedOK'
        BY <2>0, <3>3, RevokeRevoked
      <3>4. ASSUME NEW k \in Kinds, Prune(t, k) PROVE RevokedOK'
        BY <2>0, <3>4, IdleRevoker, UpdateRevoked DEF Prune
      <3>5. ASSUME NEW g \in GroupIDs, ChangeGroups(t, g) PROVE RevokedOK'
        BY <2>0, <3>5, GroupsRevoked
      <3>6. ASSUME NEW ip, Submit(t, ip) PROVE RevokedOK'
        BY <2>1, <3>6 DEF Submit
      <3>7. ASSUME NEW r \in 1 .. MaxRequests, Reject(t, r) PROVE RevokedOK'
        BY <2>1, <3>7 DEF Reject
      <3> QED BY <2>5, <3>1, <3>2, <3>3, <3>4, <3>5, <3>6, <3>7 DEF Serve
    <2>6. ASSUME NEW t \in Threads, Continue(t) PROVE RevokedOK'
      <3>1. LoadFails(t) \/ InstallGroups(t) \/ MarkApproved(t) => RevokedOK'
        BY <2>2 DEF LoadFails, InstallGroups, MarkApproved, Step
      <3> QED BY <2>0, <2>6, <3>1, LoadReadRevoked, LoadPutRevoked, GroupsRevoked DEF Continue
    <2> QED BY <1>2, <2>3, <2>4, <2>5, <2>6 DEF Next
  <1> QED BY <1>1, <1>2

(* A revocation that was answered with success holds until another handler  *)
(* installs a copy it had read before (RevokeException, RevokePause,        *)
(* loadExceptions, loadPauses), for any number of handlers.                 *)
THEOREM RevocationsHold == Spec => RevocationHolds
  <1> DEFINE Held == \A e \in ended' : Honoured(e)' =>
                       e \in ended /\ (Honoured(e) \/ \E t \in Threads : InstallsOld(t, e[1]))
  <1>1. Init => RevokedOK
    BY IdleRevoker, NoRevoker DEF Init, RevokedOK
  <1>2. AccessInv /\ RevokedOK /\ [Next]_vars => [Held]_vars
    <2> SUFFICES ASSUME AccessInv, RevokedOK, Next, NEW e \in ended', Honoured(e)', ~UNCHANGED vars
                 PROVE  e \in ended /\ (Honoured(e) \/ \E t \in Threads : InstallsOld(t, e[1]))
      OBVIOUS
    <2>0. /\ TypeOK /\ TypeOK' /\ mem \in [Kinds -> Document] /\ mem' \in [Kinds -> Document]
          /\ e \in Kinds \X Ids /\ e[1] \in Kinds /\ e[2] \in Ids
      BY StepAccess DEF AccessInv, TypeOK
    <2>1. mem'[e[1]][e[2]] # None /\ mem'[e[1]][e[2]].active /\ now' < mem'[e[1]][e[2]].until
      BY DEF Honoured, InForce
    <2>2. mem'[e[1]][e[2]].until \in Nat /\ now \in Nat /\ now' \in Nat
      <3>1. mem'[e[1]][e[2]] \in Grant
        BY <2>0, <2>1 DEF Document
      <3>2. now \in Time /\ now' \in Time
        BY <2>0 DEF TypeOK
      <3> QED BY <3>1, <3>2, AccessAssumption DEF Grant, Time
    <2>3. now <= now'
      <3>1. now' = now \/ now' = now + 1
        <4>1. ASSUME NEW t \in Threads, Serve(t) \/ Continue(t) PROVE now' = now
          BY <4>1 DEF Serve, Continue, CreateGrant, Create, Update, Revoke, Prune, ChangeGroups, Submit,
             Approve, Reject, LoadRead, LoadFails, LoadPut, ReloadGroups, InstallGroups, MarkApproved, Step
        <4> QED BY <4>1 DEF Next, Restart, Tick
      <3> QED BY <2>2, <3>1
    <2>4. now < mem'[e[1]][e[2]].until
      BY <2>1, <2>2, <2>3
    <2>5. CASE UNCHANGED <<mem, ended>>
      BY <2>1, <2>4, <2>5 DEF Honoured, InForce
    <2>6. CASE mem' = stored /\ ended' = ended
      BY <2>1, <2>6 DEF RevokedOK, OverIn, Over
    <2>7. CASE \E t \in Threads : LoadPut(t)
      <3>1. PICK t \in Threads : LoadPut(t)
        BY <2>7
      <3> DEFINE k == Head(th[t].kinds)
      <3>2. /\ th[t].at = "put" /\ mem' = [mem EXCEPT ![k] = th[t].doc]
            /\ e \in ended \/ (e = th[t].ends /\ th[t].ends # None)
            /\ RevokerOK(th[t], stored, made.grants)
        BY <3>1 DEF LoadPut, RevokedOK
      <3>3. CASE e[1] = k
        <4>1. mem'[e[1]] = th[t].doc
          BY <2>0, <3>2, <3>3
        <4>2. e \in ended
          BY <2>1, <3>2, <4>1 DEF RevokerOK, Over
        <4>3. Over(stored[e[1]][e[2]])
          BY <4>2 DEF RevokedOK, OverIn
        <4>4. th[t].doc # stored[e[1]]
          BY <2>1, <4>1, <4>3 DEF Over
        <4> QED BY <3>2, <4>1, <4>2, <4>4 DEF InstallsOld
      <3>4. CASE e[1] # k
        <4>1. mem'[e[1]] = mem[e[1]]
          BY <2>0, <3>2, <3>4
        <4>2. e \in ended
          BY <3>2, <3>4 DEF RevokerOK
        <4> QED BY <2>1, <2>4, <4>1, <4>2 DEF Honoured, InForce
      <3> QED BY <3>3, <3>4
    <2> QED BY <2>5, <2>6, <2>7, MemorySteps
  <1> QED BY InitAccess, StepAccess, RevokedNext, <1>1, <1>2, PTL DEF Spec, RevocationHolds

=============================================================================
