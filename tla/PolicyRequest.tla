---------------------------- MODULE PolicyRequest ----------------------------
(***************************************************************************)
(* The way of a request through application/policy: whose policy it gets   *)
(* (PolicyIdentity), then what that policy decides (PolicyDecision).  The  *)
(* second half takes any policy and any grant, so what the first half      *)
(* chooses is one of its inputs: a behavior is about one of the halves.    *)
(***************************************************************************)
EXTENDS PolicyIdentity, PolicyDecision

VARIABLE half

IdentityOff ==
    /\ addr = None /\ stale = None /\ members = None /\ prio = None /\ exists = None
    /\ assign = None /\ grants = None /\ client = None /\ at = None /\ id = None
    /\ best = None /\ left = None /\ moves = None

DecisionOff == policy = [rules |-> <<>>] /\ req = None /\ pc = None /\ i = None /\ out = None

RequestInit(decision) ==
    \/ half = "identity" /\ IdentityInit /\ DecisionOff
    \/ half = "decision" /\ IdentityOff /\ decision

RequestNext ==
    \/ half = "identity" /\ IdentityNext /\ UNCHANGED <<half, vars>>
    \/ half = "decision" /\ Next /\ UNCHANGED <<half, identityVars>>

requestVars == <<half, identityVars, vars>>

RequestSpec == RequestInit(Init) /\ [][RequestNext]_requestVars
=============================================================================
