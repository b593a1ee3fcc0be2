------------------------- MODULE PolicyRequestProofs -------------------------
(***************************************************************************)
(* Proofs about the way of a request through application/policy, for every *)
(* set of rules, users, zones, devices and policies: the decision of one   *)
(* policy (Spec of PolicyDecision), its schedules (PolicySchedule), and    *)
(* whose policy a request gets (IdentitySpec of PolicyIdentity).           *)
(***************************************************************************)
EXTENDS PolicyRequest, FiniteSetTheorems, WellFoundedInduction, TLAPS

-----------------------------------------------------------------------------
(* The decision: typing and the invariant of the loop of evaluateGroup *)

DecisionTypeOK ==
    /\ policy \in Policy
    /\ req \in Request
    /\ pc \in {"exception", "rules", "lists", "done"}
    /\ i \in 1 .. Len(policy.rules) + 1
    /\ out \in Outcome

\* The rule is a conditional block about this request.
Conditional(r, q) == Applies(r, q) /\ r.cond /\ (r.users = {} \/ q.user \in r.users)

\* What the loop knows of the rules it has passed: none of them decides,
\* the proxy has collected the conditional ones, and DNS has reported
\* something it cannot see unless none of them applies.
Passed ==
    /\ \A k \in 1 .. i - 1 : ~Decides(policy.rules[k], req)
    /\ req.layer = "proxy" =>
         out.conditions = {k \in 1 .. i - 1 : Conditional(policy.rules[k], req)}
    /\ req.layer = "dns" /\ out.proxyOnly = {} =>
         \A k \in 1 .. i - 1 : ~Applies(policy.rules[k], req)

\* The lists' part of the decision.
ListAction ==
    IF policy.allowed THEN "allow"
    ELSE IF ~req.paused /\ (policy.blocked \/ policy.category) THEN "block"
    ELSE IF policy.gateway THEN "block"
    ELSE "none"

\* Rule i ended the loop, or the lists decided after all the rules.
ByRule == /\ i \in 1 .. Len(policy.rules) /\ Decides(policy.rules[i], req)
          /\ out.action = policy.rules[i].action
ByLists == i = Len(policy.rules) + 1 /\ out.action = ListAction

DecisionInv ==
    /\ DecisionTypeOK
    /\ pc = "exception" => i = 1 /\ out = NoOutcome
    /\ pc \in {"rules", "lists"} => ~req.excepted /\ Passed
    /\ pc = "lists" => i = Len(policy.rules) + 1
    /\ pc = "done" /\ req.excepted => out.action = "allow"
    /\ pc = "done" /\ ~req.excepted => Passed /\ (ByRule \/ ByLists)

\* A policy's rules are a sequence of rules within the bound.
LEMMA PolicyRules ==
    ASSUME NEW p \in Policy
    PROVE  /\ p.rules \in Seq(Rule) /\ Len(p.rules) \in 0 .. MaxRules
           /\ DOMAIN p.rules = 1 .. Len(p.rules)
           /\ \A k \in DOMAIN p.rules : p.rules[k] \in Rule
           /\ {p.allowed, p.blocked, p.category, p.gateway} \subseteq BOOLEAN
<1>1. PICK n \in 0 .. MaxRules : p.rules \in [1 .. n -> Rules]
  BY DEF Policy
<1>2. p.rules \in Seq(Rule) /\ Len(p.rules) = n
  BY <1>1, DecisionAssumption
<1>3. DOMAIN p.rules = 1 .. n
  BY <1>1
<1>4. {p.allowed, p.blocked, p.category, p.gateway} \subseteq BOOLEAN
  BY DEF Policy
<1> QED
  BY <1>1, <1>2, <1>3, <1>4, DecisionAssumption

\* The first outcome is an outcome.
LEMMA NoOutcomeType == NoOutcome \in Outcome
BY DecisionAssumption DEF NoOutcome, Outcome

\* A rule needs nothing from the proxy exactly when it has no condition and
\* names no user.
LEMMA NeedsProxy ==
    ASSUME NEW r \in Rule
    PROVE  /\ RuleConditionsNeedingProxy(r) \in SUBSET {"condition", "user"}
           /\ RuleConditionsNeedingProxy(r) = {} <=> ~r.cond /\ r.users = {}
<1>1. r.cond \in BOOLEAN
  BY DEF Rule
<1> QED
  BY <1>1 DEF RuleConditionsNeedingProxy

\* The loop passes one more rule: the facts about the rules below i, with
\* what this pass adds, are the facts about the rules below i + 1.
LEMMA PassedNext ==
    ASSUME DecisionTypeOK, Passed, i \in 1 .. Len(policy.rules),
           i' = i + 1, policy' = policy, req' = req,
           ~Decides(policy.rules[i], req),
           req.layer = "proxy" =>
             out'.conditions = IF Conditional(policy.rules[i], req)
                                 THEN out.conditions \cup {i} ELSE out.conditions,
           req.layer = "dns" /\ out'.proxyOnly = {} =>
             out.proxyOnly = {} /\ ~Applies(policy.rules[i], req)
    PROVE  Passed'
<1>1. i \in Nat /\ 1 .. i' - 1 = (1 .. i - 1) \cup {i}
  BY DEF DecisionTypeOK
<1> DEFINE D(k) == Decides(policy.rules[k], req)
           C(k) == Conditional(policy.rules[k], req)
           A(k) == Applies(policy.rules[k], req)
<1>2. Passed <=> /\ \A k \in 1 .. i - 1 : ~D(k)
                 /\ req.layer = "proxy" => out.conditions = {k \in 1 .. i - 1 : C(k)}
                 /\ req.layer = "dns" /\ out.proxyOnly = {} => \A k \in 1 .. i - 1 : ~A(k)
  BY DEF Passed
<1>3. Passed' <=> /\ \A k \in 1 .. i' - 1 : ~D(k)
                  /\ req.layer = "proxy" => out'.conditions = {k \in 1 .. i' - 1 : C(k)}
                  /\ req.layer = "dns" /\ out'.proxyOnly = {} => \A k \in 1 .. i' - 1 : ~A(k)
  BY DEF Passed
<1>4. /\ ~D(i)
      /\ req.layer = "proxy" =>
           out'.conditions = IF C(i) THEN out.conditions \cup {i} ELSE out.conditions
      /\ req.layer = "dns" /\ out'.proxyOnly = {} => out.proxyOnly = {} /\ ~A(i)
  OBVIOUS
<1> HIDE DEF D, C, A
<1>5. \A k \in 1 .. i' - 1 : ~D(k)
  BY <1>1, <1>2, <1>4
<1>6. req.layer = "proxy" => out'.conditions = {k \in 1 .. i' - 1 : C(k)}
  BY <1>1, <1>2, <1>4
<1>7. req.layer = "dns" /\ out'.proxyOnly = {} => \A k \in 1 .. i' - 1 : ~A(k)
  BY <1>1, <1>2, <1>4
<1> QED
  BY <1>3, <1>5, <1>6, <1>7

\* The initial states satisfy the invariant.
LEMMA DecisionInit == Init => DecisionInv
<1> SUFFICES ASSUME Init PROVE DecisionInv
  OBVIOUS
<1>1. Len(policy.rules) \in Nat
  BY PolicyRules, DecisionAssumption DEF Init
<1> QED
  BY <1>1, NoOutcomeType DEF Init, DecisionInv, DecisionTypeOK

\* Exception: an exception allows at once, otherwise the loop starts with no
\* rule passed.
LEMMA ExceptionInv == DecisionInv /\ Exception => DecisionInv'
<1> SUFFICES ASSUME DecisionInv, Exception PROVE DecisionInv'
  OBVIOUS
<1>1. CASE req.excepted
  <2>1. /\ pc' = "done" /\ out' = [out EXCEPT !.action = "allow"]
        /\ policy' = policy /\ req' = req /\ i' = i
    BY <1>1 DEF Exception, Done
  <2>2. out' \in Outcome /\ out'.action = "allow"
    BY <2>1 DEF DecisionInv, DecisionTypeOK, Outcome
  <2> QED
    BY <1>1, <2>1, <2>2 DEF DecisionInv, DecisionTypeOK
<1>2. CASE ~req.excepted
  <2>1. /\ pc' = "rules" /\ pc = "exception"
        /\ policy' = policy /\ req' = req /\ i' = i /\ out' = out
    BY <1>2 DEF Exception
  <2>2. i = 1 /\ out.conditions = {} /\ DecisionTypeOK'
    BY <2>1 DEF DecisionInv, DecisionTypeOK, NoOutcome
  <2>3. 1 .. i' - 1 = {}
    BY <2>1, <2>2
  <2>4. Passed'
    BY <2>1, <2>2, <2>3 DEF Passed
  <2> QED
    BY <1>2, <2>1, <2>2, <2>4 DEF DecisionInv
<1> QED
  BY <1>1, <1>2

\* One pass of the loop keeps the invariant: a rule that does not decide is
\* added to the rules passed, a rule that decides ends the loop.
LEMMA NextRuleInv == DecisionInv /\ NextRuleOrDecide => DecisionInv'
<1> SUFFICES ASSUME DecisionInv, NextRuleOrDecide PROVE DecisionInv'
  OBVIOUS
<1> DEFINE r == policy.rules[i]
           proxyOnly == RuleConditionsNeedingProxy(r)
<1>1. /\ pc = "rules" /\ i \in 1 .. Len(policy.rules) /\ i \in 1 .. MaxRules
      /\ DecisionTypeOK /\ Passed /\ ~req.excepted /\ out \in Outcome
      /\ Len(policy.rules) \in Nat /\ MaxRules \in Nat
  BY PolicyRules, DecisionAssumption DEF NextRuleOrDecide, DecisionInv, DecisionTypeOK
<1>2. /\ r \in Rule /\ r.cond \in BOOLEAN /\ r.action \in {"allow", "block"}
      /\ req.layer \in {"dns", "proxy"}
  <2>1. r \in Rule
    BY <1>1, PolicyRules DEF DecisionTypeOK
  <2> QED
    BY <2>1, <1>1 DEF Rule, DecisionTypeOK, Request
<1>3. /\ proxyOnly \in SUBSET {"condition", "user"}
      /\ proxyOnly = {} <=> ~r.cond /\ r.users = {}
  BY <1>2, NeedsProxy
<1> HIDE DEF r, proxyOnly
\* A pass that goes on to the next rule.
<1>4. ASSUME NEW o \in Outcome, NextRule(o), ~Decides(r, req),
             req.layer = "proxy" =>
               o.conditions = IF Conditional(r, req) THEN out.conditions \cup {i} ELSE out.conditions,
             req.layer = "dns" /\ o.proxyOnly = {} => out.proxyOnly = {} /\ ~Applies(r, req)
      PROVE  DecisionInv'
  <2>1. /\ i' = i + 1 /\ out' = o /\ policy' = policy /\ req' = req /\ pc' = "rules"
    BY <1>4, <1>1 DEF NextRule
  <2>2. DecisionTypeOK'
    BY <1>1, <1>4, <2>1 DEF DecisionTypeOK
  <2>3. Passed'
    BY <1>1, <1>4, <2>1, PassedNext DEF r
  <2> QED
    BY <1>1, <2>1, <2>2, <2>3 DEF DecisionInv
<1>5. CASE ~Applies(r, req) /\ NextRule(out)
  BY <1>1, <1>4, <1>5 DEF Decides, Conditional
<1>6. CASE /\ Applies(r, req) /\ req.layer = "dns" /\ proxyOnly # {}
           /\ NextRule([out EXCEPT !.proxyOnly = @ \cup proxyOnly])
  <2>1. /\ [out EXCEPT !.proxyOnly = @ \cup proxyOnly] \in Outcome
        /\ [out EXCEPT !.proxyOnly = @ \cup proxyOnly].proxyOnly # {}
    BY <1>1, <1>3, <1>6 DEF Outcome
  <2>2. ~Decides(r, req) /\ req.layer # "proxy"
    BY <1>3, <1>6 DEF Decides
  <2> QED
    BY <2>1, <2>2, <1>4, <1>6
<1>7. CASE /\ Applies(r, req) /\ req.layer = "proxy" /\ r.users # {} /\ req.user \notin r.users
           /\ NextRule(out)
  BY <1>1, <1>4, <1>7 DEF Decides, Conditional
<1>8. CASE /\ Applies(r, req) /\ req.layer = "proxy" /\ (r.users = {} \/ req.user \in r.users)
           /\ r.cond
           /\ NextRule([out EXCEPT !.conditions = @ \cup {i}])
  <2>1. /\ [out EXCEPT !.conditions = @ \cup {i}] \in Outcome
        /\ [out EXCEPT !.conditions = @ \cup {i}].conditions = out.conditions \cup {i}
    BY <1>1 DEF Outcome
  <2>2. ~Decides(r, req) /\ Conditional(r, req) /\ req.layer # "dns"
    BY <1>8 DEF Decides, Conditional
  <2> QED
    BY <2>1, <2>2, <1>4, <1>8
<1>9. CASE /\ Applies(r, req)
           /\ IF req.layer = "dns" THEN proxyOnly = {}
                                   ELSE ~r.cond /\ (r.users = {} \/ req.user \in r.users)
           /\ Done([out EXCEPT !.action = r.action, !.rule = i])
  <2> DEFINE o == [out EXCEPT !.action = r.action, !.rule = i]
  <2>1. /\ o \in Outcome /\ o.action = r.action
        /\ o.conditions = out.conditions /\ o.proxyOnly = out.proxyOnly
    <3>1. i \in 0 .. MaxRules /\ r.action \in {"none", "allow", "block"}
      BY <1>1, <1>2
    <3> QED
      BY <1>1, <3>1 DEF Outcome
  <2>2. Decides(r, req)
    BY <1>2, <1>3, <1>9 DEF Decides
  <2>3. out' = o /\ pc' = "done" /\ policy' = policy /\ req' = req /\ i' = i
    BY <1>9 DEF Done
  <2> HIDE DEF o
  <2>4. DecisionTypeOK' /\ Passed' /\ ByRule'
    BY <1>1, <2>1, <2>2, <2>3 DEF DecisionTypeOK, Passed, ByRule, r
  <2> QED
    BY <1>1, <2>3, <2>4 DEF DecisionInv
<1> QED
  BY <1>5, <1>6, <1>7, <1>8, <1>9 DEF NextRuleOrDecide, r, proxyOnly

\* RulesEnd and Lists: the lists decide only after every rule was passed.
LEMMA ListsInv == DecisionInv /\ (RulesEnd \/ Lists) => DecisionInv'
<1> SUFFICES ASSUME DecisionInv, RulesEnd \/ Lists PROVE DecisionInv'
  OBVIOUS
<1>1. CASE RulesEnd
  <2>1. i = Len(policy.rules) + 1
    BY <1>1, PolicyRules, DecisionAssumption DEF RulesEnd, DecisionInv, DecisionTypeOK
  <2>2. /\ pc = "rules" /\ pc' = "lists"
        /\ policy' = policy /\ req' = req /\ i' = i /\ out' = out
    BY <1>1 DEF RulesEnd
  <2> QED
    BY <2>1, <2>2 DEF DecisionInv, DecisionTypeOK, Passed
<1>2. CASE Lists
  <2>1. /\ pc = "lists" /\ pc' = "done" /\ out' = [out EXCEPT !.action = ListAction]
        /\ policy' = policy /\ req' = req /\ i' = i
    BY <1>2 DEF Lists, Done, ListAction
  <2>2. ListAction \in {"none", "allow", "block"}
    BY DEF ListAction
  <2>3. /\ out' \in Outcome /\ out'.action = ListAction
        /\ out'.conditions = out.conditions /\ out'.proxyOnly = out.proxyOnly
    BY <2>1, <2>2 DEF DecisionInv, DecisionTypeOK, Outcome
  <2>4. DecisionTypeOK' /\ Passed'
    BY <2>1, <2>3 DEF DecisionInv, DecisionTypeOK, Passed
  <2>5. ByLists'
    BY <2>1, <2>3 DEF DecisionInv, ByLists, ListAction
  <2> QED
    BY <2>1, <2>4, <2>5 DEF DecisionInv
<1> QED
  BY <1>1, <1>2

\* The loop invariant holds in every state.
LEMMA DecisionInvariant == Spec => []DecisionInv
<1>1. DecisionInv /\ UNCHANGED vars => DecisionInv'
  BY DEF DecisionInv, DecisionTypeOK, Passed, ByRule, ByLists, ListAction, vars
<1>2. DecisionInv /\ [Next]_vars => DecisionInv'
  BY <1>1, ExceptionInv, NextRuleInv, ListsInv DEF Next
<1> QED
  BY <1>2, DecisionInit, PTL DEF Spec

-----------------------------------------------------------------------------
(* What FirstMatch and Conditions come to *)

\* The first of the deciding rules decides.
LEMMA FirstMatchRule ==
    ASSUME NEW p \in Policy, NEW q, NEW k \in Deciders(p, q),
           \A l \in 1 .. k - 1 : l \notin Deciders(p, q), ~q.excepted
    PROVE  FirstMatch(p, q) = p.rules[k].action
<1>1. Deciders(p, q) \subseteq Nat
  BY PolicyRules DEF Deciders
<1>2. Deciders(p, q) \subseteq DOMAIN p.rules /\ DOMAIN p.rules = 1 .. Len(p.rules)
  BY PolicyRules DEF Deciders
<1>3. \A l \in Deciders(p, q) : k <= l
  BY <1>1, <1>2
<1>4. k = CHOOSE m \in Deciders(p, q) : \A l \in Deciders(p, q) : m <= l
  BY <1>1, <1>3
<1> QED
  BY <1>4 DEF FirstMatch

\* Without a deciding rule the lists decide.
LEMMA FirstMatchLists ==
    ASSUME NEW p, NEW q, Deciders(p, q) = {}, ~q.excepted
    PROVE  FirstMatch(p, q) =
             IF p.allowed THEN "allow"
             ELSE IF (~q.paused /\ (p.blocked \/ p.category)) \/ p.gateway THEN "block" ELSE "none"
BY DEF FirstMatch

\* At the end of the loop the deciding rule, if any, is the first of them.
LEMMA LoopDeciders ==
    ASSUME DecisionInv, pc = "done", ~req.excepted
    PROVE  \/ /\ ByRule /\ i \in Deciders(policy, req)
              /\ \A l \in 1 .. i - 1 : l \notin Deciders(policy, req)
           \/ ByLists /\ Deciders(policy, req) = {}
<1>1. /\ policy \in Policy /\ DOMAIN policy.rules = 1 .. Len(policy.rules)
      /\ Len(policy.rules) \in Nat
  BY PolicyRules DEF DecisionInv, DecisionTypeOK
<1>2. \A k \in 1 .. i - 1 : ~Decides(policy.rules[k], req)
  BY DEF DecisionInv, Passed
<1>3. CASE ByRule
  BY <1>1, <1>2, <1>3 DEF ByRule, Deciders
<1>4. CASE ByLists
  BY <1>1, <1>2, <1>4 DEF ByLists, Deciders
<1> QED
  BY <1>3, <1>4 DEF DecisionInv

\* The decision of the loop is the promised one.
LEMMA InvFirstMatch == DecisionInv => DecisionIsFirstMatch
<1> SUFFICES ASSUME DecisionInv, pc = "done" PROVE out.action = FirstMatch(policy, req)
  BY DEF DecisionIsFirstMatch
<1>0. policy \in Policy
  BY DEF DecisionInv, DecisionTypeOK
<1>1. CASE req.excepted
  BY <1>1 DEF DecisionInv, FirstMatch
<1>2. CASE ~req.excepted
  <2>1. CASE /\ ByRule /\ i \in Deciders(policy, req)
             /\ \A l \in 1 .. i - 1 : l \notin Deciders(policy, req)
    BY <1>0, <1>2, <2>1, FirstMatchRule DEF ByRule
  <2>2. CASE ByLists /\ Deciders(policy, req) = {}
    BY <1>2, <2>2, FirstMatchLists DEF ByLists, ListAction
  <2> QED
    BY <1>2, <2>1, <2>2, LoopDeciders
<1> QED
  BY <1>1, <1>2

\* The loop of evaluateGroup decides as documented: an exception, else the
\* first rule of the policy that decides at this layer, else the lists.
THEOREM DecisionIsFirstMatchAlways == Spec => []DecisionIsFirstMatch
BY DecisionInvariant, InvFirstMatch, PTL

\* The conditions handed to the proxy are those above the deciding rule.
LEMMA InvConditions == DecisionInv => ConditionsAreAbove
<1> SUFFICES ASSUME DecisionInv, pc = "done", req.layer = "proxy", ~req.excepted
             PROVE  out.conditions = Conditions(policy, req)
  BY DEF ConditionsAreAbove
<1>1. /\ policy \in Policy /\ DOMAIN policy.rules = 1 .. Len(policy.rules)
      /\ Len(policy.rules) \in Nat
  BY PolicyRules DEF DecisionInv, DecisionTypeOK
<1>2. out.conditions = {k \in 1 .. i - 1 : Conditional(policy.rules[k], req)}
  BY DEF DecisionInv, Passed
<1>3. Conditions(policy, req) =
        {k \in DOMAIN policy.rules :
            Conditional(policy.rules[k], req) /\ \A l \in Deciders(policy, req) : k < l}
  BY DEF Conditions, Conditional
<1>4. Deciders(policy, req) \subseteq 1 .. Len(policy.rules)
  BY <1>1 DEF Deciders
<1>5. {k \in DOMAIN policy.rules : \A l \in Deciders(policy, req) : k < l} = 1 .. i - 1
  <2>1. CASE /\ ByRule /\ i \in Deciders(policy, req)
             /\ \A l \in 1 .. i - 1 : l \notin Deciders(policy, req)
    BY <1>1, <1>4, <2>1 DEF ByRule
  <2>2. CASE ByLists /\ Deciders(policy, req) = {}
    BY <1>1, <2>2 DEF ByLists
  <2> QED
    BY <2>1, <2>2, LoopDeciders
<1> QED
  BY <1>2, <1>3, <1>5

\* The proxy gets exactly the conditional blocks above the rule that decided.
THEOREM ConditionsAreAboveAlways == Spec => []ConditionsAreAbove
BY DecisionInvariant, InvConditions, PTL

\* A rule decides for any proxy user when it names nobody and has no
\* condition, and whether it applies does not depend on layer or user.
LEMMA AppliesToUser ==
    ASSUME NEW r, NEW q \in Request, NEW u
    PROVE  Applies(r, [q EXCEPT !.layer = "proxy", !.user = u]) <=> Applies(r, q)
BY DEF Applies, ScheduleActive, Request

\* DNS and the proxy agree when DNS reports nothing it cannot see.
LEMMA InvLayers == DecisionInv => LayersAgree
<1> SUFFICES ASSUME DecisionInv, pc = "done", req.layer = "dns", out.proxyOnly = {},
                    NEW u \in Users \cup {NoUser}
             PROVE  LET q == [req EXCEPT !.layer = "proxy", !.user = u]
                        match == ProxyMatch(FirstMatch(policy, q),
                                            IF q.excepted THEN {} ELSE Conditions(policy, q))
                    IN  match = ProxyMatch(out.action, {})
  BY DEF LayersAgree
<1> DEFINE q == [req EXCEPT !.layer = "proxy", !.user = u]
<1>1. /\ req \in Request /\ policy \in Policy
      /\ DOMAIN policy.rules = 1 .. Len(policy.rules) /\ Len(policy.rules) \in Nat
  BY PolicyRules DEF DecisionInv, DecisionTypeOK
<1>2. q.excepted = req.excepted /\ q.paused = req.paused
  BY <1>1 DEF Request
<1>3. \A r : Applies(r, q) <=> Applies(r, req)
  BY <1>1, AppliesToUser
<1> HIDE DEF q
<1>4. FirstMatch(policy, q) = out.action /\ (q.excepted \/ Conditions(policy, q) = {})
  <2>1. CASE req.excepted
    BY <1>2, <2>1 DEF DecisionInv, FirstMatch
  <2>2. CASE ~req.excepted
    <3>1. \A k \in 1 .. i - 1 : ~Applies(policy.rules[k], q)
      BY <1>3, <2>2 DEF DecisionInv, Passed
    <3>2. CASE ByRule
      <4>1. i \in Nat /\ i \in DOMAIN policy.rules
        BY <1>1, <3>2 DEF ByRule
      <4>2. i \in Deciders(policy, q)
        <5>1. Decides(policy.rules[i], q)
          BY <1>3, <3>2 DEF ByRule, Decides
        <5> QED
          BY <4>1, <5>1 DEF Deciders
      <4>3. \A l \in 1 .. i - 1 : l \notin Deciders(policy, q)
        BY <3>1 DEF Deciders, Decides
      <4>4. FirstMatch(policy, q) = out.action
        BY <1>1, <1>2, <2>2, <3>2, <4>2, <4>3, FirstMatchRule DEF ByRule
      <4>5. Conditions(policy, q) = {}
        BY <1>1, <3>1, <4>1, <4>2 DEF Conditions
      <4> QED
        BY <4>4, <4>5
    <3>3. CASE ByLists
      <4>1. \A k \in DOMAIN policy.rules : ~Applies(policy.rules[k], q)
        BY <1>1, <3>1, <3>3 DEF ByLists
      <4>2. Deciders(policy, q) = {} /\ Conditions(policy, q) = {}
        BY <4>1 DEF Deciders, Decides, Conditions
      <4>3. FirstMatch(policy, q) = out.action
        BY <1>2, <2>2, <3>3, <4>2, FirstMatchLists DEF ByLists, ListAction
      <4> QED
        BY <4>2, <4>3
    <3> QED
      BY <2>2, <3>2, <3>3 DEF DecisionInv
  <2> QED
    BY <2>1, <2>2
<1> QED
  BY <1>4 DEF q

\* When DNS reports no condition it could not see, the proxy decides alike
\* for every user, and without inspecting.
THEOREM LayersAgreeAlways == Spec => []LayersAgree
BY DecisionInvariant, InvLayers, PTL

\* A pause takes blocks away and adds none.
LEMMA AppliesUnpaused ==
    ASSUME NEW r \in Rule, NEW q \in Request, q.paused
    PROVE  /\ Applies(r, q) => r.action = "allow"
           /\ r.action = "allow" =>
                (Decides(r, [q EXCEPT !.paused = FALSE]) <=> Decides(r, q))
<1>1. r.action \in {"allow", "block"}
  BY DEF Rule
<1> QED
  BY <1>1 DEF Applies, ScheduleActive, Decides, Request

\* A set of numbers that is not empty has a least one.
LEMMA LeastNumber ==
    ASSUME NEW S, S \subseteq Nat, S # {}
    PROVE  \E k \in S : \A l \in S : k <= l
<1> DEFINE less == OpToRel(<, Nat)
<1>1. \A x, y \in Nat : x < y => <<x, y>> \in less
  BY DEF OpToRel
<1>2. IsWellFoundedOn(less, Nat)
  BY NatLessThanWellFounded
<1> HIDE DEF less
<1>3. PICK k \in S : \A l \in S : <<l, k>> \notin less
  BY <1>2, WFMin
<1>4. \A l \in S : ~(l < k)
  BY <1>1, <1>3
<1>5. \A l \in S : k <= l
  BY <1>4, SMT
<1> QED
  BY <1>5

\* The numbers of the deciding rules have a least one.
LEMMA LeastDecider ==
    ASSUME NEW p \in Policy, NEW q, Deciders(p, q) # {}
    PROVE  \E k \in Deciders(p, q) : \A l \in 1 .. k - 1 : l \notin Deciders(p, q)
<1>1. Deciders(p, q) \subseteq Nat
  BY PolicyRules DEF Deciders
<1>2. PICK k \in Deciders(p, q) : \A l \in Deciders(p, q) : k <= l
  BY <1>1, LeastNumber
<1>3. \A l \in 1 .. k - 1 : l \notin Deciders(p, q)
  BY <1>1, <1>2, SMT
<1> QED
  BY <1>3

\* Under a pause only the gateway-wide categories block, and nothing that is
\* allowed without it stops being allowed.
LEMMA InvPause == DecisionInv => PauseOnlyLifts
<1> SUFFICES ASSUME DecisionInv, pc = "done", req.paused
             PROVE  LET unpaused == FirstMatch(policy, [req EXCEPT !.paused = FALSE]) IN
                    /\ out.action = "block" => unpaused = "block" /\ policy.gateway
                    /\ unpaused = "allow" => out.action = "allow"
  BY DEF PauseOnlyLifts
<1> DEFINE q == [req EXCEPT !.paused = FALSE]
<1>1. /\ req \in Request /\ policy \in Policy
      /\ DOMAIN policy.rules = 1 .. Len(policy.rules) /\ Len(policy.rules) \in Nat
      /\ \A k \in DOMAIN policy.rules : policy.rules[k] \in Rule
  BY PolicyRules DEF DecisionInv, DecisionTypeOK
<1>2. q.excepted = req.excepted /\ q.paused = FALSE
  BY <1>1 DEF Request
<1>3. \A k \in DOMAIN policy.rules :
        /\ Decides(policy.rules[k], req) => policy.rules[k].action = "allow"
        /\ policy.rules[k].action = "allow" =>
             (Decides(policy.rules[k], q) <=> Decides(policy.rules[k], req))
        /\ policy.rules[k].action \in {"allow", "block"}
  BY <1>1, AppliesUnpaused DEF Decides, Rule
<1> HIDE DEF q
<1>4. CASE req.excepted
  BY <1>2, <1>4 DEF DecisionInv, FirstMatch, q
<1>5. CASE ~req.excepted /\ ByRule
  BY <1>1, <1>3, <1>5 DEF ByRule, q
<1>6. CASE ~req.excepted /\ ByLists /\ Deciders(policy, req) = {}
  <2>1. \A k \in Deciders(policy, q) : policy.rules[k].action = "block"
    BY <1>3, <1>6 DEF Deciders
  <2>2. CASE Deciders(policy, q) # {}
    <3>1. PICK k \in Deciders(policy, q) : \A l \in 1 .. k - 1 : l \notin Deciders(policy, q)
      BY <1>1, <2>2, LeastDecider
    <3>2. FirstMatch(policy, q) = "block"
      BY <1>1, <1>2, <1>6, <2>1, <3>1, FirstMatchRule
    <3> QED
      BY <1>6, <3>2 DEF ByLists, ListAction, q
  <2>3. CASE Deciders(policy, q) = {}
    BY <1>2, <1>6, <2>3, FirstMatchLists DEF ByLists, ListAction, q
  <2> QED
    BY <2>2, <2>3
<1> QED
  BY <1>4, <1>5, <1>6, LoopDeciders

\* A pause never blocks anything: it leaves only the gateway-wide categories
\* and keeps every allow.
THEOREM PauseOnlyLiftsAlways == Spec => []PauseOnlyLifts
BY DecisionInvariant, InvPause, PTL

-----------------------------------------------------------------------------
(* The schedules, for every length of a day and every offset of a zone *)

\* Quotient and remainder are the only ones.
LEMMA DivUnique ==
    ASSUME NEW D \in Nat \ {0}, NEW q \in Nat, NEW r \in 0 .. D - 1
    PROVE  (D * q + r) % D = r /\ (D * q + r) \div D = q
<1> DEFINE x == D * q + r
           c == x \div D
<1>1. x \in Nat
  BY SMT
<1>2. c \in Nat /\ x = D * c + (x % D) /\ x % D \in 0 .. D - 1
  BY <1>1, SMT
<1> HIDE DEF c, x
<1>3. x = D * q + r
  BY DEF x
<1>4. ~(c > q)
  <2> SUFFICES ASSUME c > q PROVE FALSE
    OBVIOUS
  <2>1. D * c >= D * (q + 1)
    BY <1>2, SMT
  <2> QED
    BY <2>1, <1>2, <1>3, SMT
<1>5. ~(c < q)
  <2> SUFFICES ASSUME c < q PROVE FALSE
    OBVIOUS
  <2>1. D * q >= D * (c + 1)
    BY <1>2, SMT
  <2> QED
    BY <2>1, <1>2, <1>3, SMT
<1>6. c = q
  BY <1>2, <1>4, <1>5
<1> QED
  BY <1>6, <1>2, <1>3 DEF c

\* A local time of the week is a weekday and a time of the day.
LEMMA LocalTime ==
    ASSUME NEW local \in Instant
    PROVE  /\ local \div DayLen \in Weekday /\ local % DayLen \in 0 .. DayLen - 1
           /\ local = (local \div DayLen) * DayLen + (local % DayLen)
<1> DEFINE c == local \div DayLen
<1>1. DayLen \in Nat \ {0} /\ local \in Nat /\ local < 7 * DayLen
  BY ScheduleAssumption DEF Instant, Week
<1>2. /\ c \in Nat /\ local % DayLen \in 0 .. DayLen - 1
      /\ local = c * DayLen + (local % DayLen)
  BY <1>1, SMT
<1> HIDE DEF c
<1>3. c < 7
  <2> SUFFICES ASSUME c >= 7 PROVE FALSE
    BY <1>2
  <2>1. c * DayLen >= 7 * DayLen
    BY <1>1, <1>2, SMT
  <2> QED
    BY <1>1, <1>2, <2>1, SMT
<1> QED
  BY <1>2, <1>3 DEF c, Weekday

\* The time since a window opened on day v, told from the local time: it is
\* below the length of the window exactly in the three cases of IsActive.
LEMMA SinceOpened ==
    ASSUME NEW wd \in Weekday, NEW v \in Weekday, NEW tod \in 0 .. DayLen - 1,
           NEW from \in 0 .. DayLen - 1, NEW to \in 0 .. DayLen - 1, from # to,
           NEW since, NEW length,
           since = IF wd * DayLen + tod >= v * DayLen + from
                     THEN (wd * DayLen + tod) - (v * DayLen + from)
                     ELSE (wd * DayLen + tod + 7 * DayLen) - (v * DayLen + from),
           length = IF from < to THEN to - from ELSE to + DayLen - from
    PROVE  since < length <=>
             \/ from <= to /\ tod >= from /\ tod < to /\ v = wd
             \/ from > to /\ tod >= from /\ v = wd
             \/ from > to /\ tod < from /\ tod < to /\ v = (wd + 6) % 7
<1> DEFINE A == wd * DayLen
           B == v * DayLen
<1>1. DayLen \in Nat \ {0} /\ wd \in 0 .. 6 /\ v \in 0 .. 6
  BY ScheduleAssumption DEF Weekday
<1>2. /\ A \in Nat /\ B \in Nat /\ A <= 6 * DayLen /\ B <= 6 * DayLen
      /\ wd = 0 => A = 0
      /\ v = 6 => B = 6 * DayLen
  BY <1>1, SMT
<1>3. /\ v = wd => A = B
      /\ v < wd => B + DayLen <= A
      /\ wd < v => A + DayLen <= B
  BY <1>1, SMT
<1>4. /\ v + 1 = wd => B + DayLen = A
      /\ v + 1 < wd => B + 2 * DayLen <= A
      /\ v < 6 => B <= 5 * DayLen
      /\ wd > 0 => A >= DayLen
  BY <1>1, SMT
<1>5. (wd + 6) % 7 = IF wd = 0 THEN 6 ELSE wd - 1
  BY <1>1, SMT
<1>6. /\ since = IF A + tod >= B + from THEN (A + tod) - (B + from)
                                        ELSE (A + tod + 7 * DayLen) - (B + from)
      /\ length = IF from < to THEN to - from ELSE to + DayLen - from
  OBVIOUS
<1> HIDE DEF A, B
<1> QED
  BY <1>1, <1>2, <1>3, <1>4, <1>5, <1>6, SMTT(60)

\* The remainder by which OpenWindow measures the time since a start.
LEMMA SinceStart ==
    ASSUME NEW x \in Nat, NEW start \in Instant
    PROVE  /\ x % Week \in Instant
           /\ (x + Week - start) % Week =
                IF x % Week >= start THEN (x % Week) - start ELSE (x % Week) + Week - start
<1>1. Week \in Nat \ {0} /\ Instant = 0 .. Week - 1
  BY ScheduleAssumption DEF Week, Instant
<1> DEFINE m == x \div Week
           local == x % Week
<1>2. m \in Nat /\ local \in 0 .. Week - 1 /\ x = Week * m + local
  BY <1>1, SMT
<1> HIDE DEF m, local
<1>3. CASE local >= start
  <2>1. local - start \in 0 .. Week - 1
    BY <1>1, <1>2, <1>3
  <2>2. x + Week - start = Week * (m + 1) + (local - start)
    BY <1>1, <1>2, SMT
  <2>3. (Week * (m + 1) + (local - start)) % Week = local - start
    <3>1. m + 1 \in Nat
      BY <1>2
    <3> QED
      BY <1>1, <2>1, <3>1, DivUnique
  <2> QED
    BY <1>1, <1>2, <1>3, <2>2, <2>3 DEF local
<1>4. CASE ~(local >= start)
  <2>1. local + Week - start \in 0 .. Week - 1
    BY <1>1, <1>2, <1>4
  <2>2. x + Week - start = Week * m + (local + Week - start)
    BY <1>1, <1>2, SMT
  <2>3. (Week * m + (local + Week - start)) % Week = local + Week - start
    BY <1>1, <1>2, <2>1, DivUnique
  <2> QED
    BY <1>1, <1>2, <1>4, <2>2, <2>3 DEF local
<1> QED
  BY <1>3, <1>4

\* The length of a window, across midnight when it ends before it starts.
LEMMA WindowLength ==
    ASSUME NEW from \in 0 .. DayLen - 1, NEW to \in 0 .. DayLen - 1, from # to
    PROVE  (to + DayLen - from) % DayLen = IF from < to THEN to - from ELSE to + DayLen - from
<1>1. DayLen \in Nat \ {0}
  BY ScheduleAssumption
<1>2. CASE from < to
  <2>1. to - from \in 0 .. DayLen - 1 /\ to + DayLen - from = DayLen * 1 + (to - from)
    BY <1>1, <1>2
  <2>2. (DayLen * 1 + (to - from)) % DayLen = to - from
    BY <1>1, <2>1, DivUnique
  <2> QED
    BY <1>2, <2>1, <2>2
<1>3. CASE to < from
  <2>1. /\ to + DayLen - from \in 0 .. DayLen - 1
        /\ to + DayLen - from = DayLen * 0 + (to + DayLen - from)
    BY <1>1, <1>3
  <2>2. (DayLen * 0 + (to + DayLen - from)) % DayLen = to + DayLen - from
    BY <1>1, <2>1, DivUnique
  <2> QED
    BY <1>1, <1>3, <2>1, <2>2
<1> QED
  BY <1>1, <1>2, <1>3

\* A valid schedule is active exactly while one of its windows is open.
LEMMA ActiveOpen ==
    ASSUME NEW sc \in Schedule, Validate(sc), NEW now \in Instant
    PROVE  IsActive(sc, now) <=> OpenWindow(sc, now)
<1> DEFINE x == now + sc.timezone
           local == x % Week
           wd == local \div DayLen
           tod == local % DayLen
           prevWd == (wd + 6) % 7
           Length(w) == (w.to + DayLen - w.from) % DayLen
           Since(w, v) == (x + Week - (v * DayLen + w.from)) % Week
           Case(w) == \/ w.from <= w.to /\ tod >= w.from /\ tod < w.to /\ isWeekdayActive(sc, wd)
                      \/ w.from > w.to /\ tod >= w.from /\ isWeekdayActive(sc, wd)
                      \/ w.from > w.to /\ tod < w.from /\ tod < w.to /\ isWeekdayActive(sc, prevWd)
<1>1. /\ DayLen \in Nat \ {0} /\ Week = 7 * DayLen /\ x \in Nat
      /\ sc.windows \subseteq TimeWindow
  <2>1. sc.timezone \in Nat /\ sc.windows \subseteq TimeWindow
    BY ScheduleAssumption DEF Schedule
  <2>2. DayLen \in Nat \ {0} /\ Week = 7 * DayLen /\ now \in Nat
    BY ScheduleAssumption DEF Instant, Week
  <2> QED
    BY <2>1, <2>2
<1>2. \A w \in sc.windows : w.from \in 0 .. DayLen - 1 /\ w.to \in 0 .. DayLen - 1 /\ w.from # w.to
  BY <1>1 DEF TimeWindow, Validate
<1>3. IsActive(sc, now) <=> \E w \in sc.windows : Case(w)
  BY DEF IsActive
<1>4. OpenWindow(sc, now) <=>
        \E w \in sc.windows : \E v \in Weekday : isWeekdayActive(sc, v) /\ Since(w, v) < Length(w)
  BY DEF OpenWindow
<1>5. local \in Instant
  BY <1>1, SinceStart, ScheduleAssumption DEF Instant, Week
<1>6. /\ wd \in Weekday /\ tod \in 0 .. DayLen - 1 /\ local = wd * DayLen + tod
  BY <1>5, LocalTime
<1>7. prevWd \in Weekday
  BY <1>6 DEF Weekday
<1> HIDE DEF x, local, wd, tod, prevWd
<1>8. ASSUME NEW w \in sc.windows, NEW v \in Weekday
      PROVE  Since(w, v) < Length(w) <=>
               \/ w.from <= w.to /\ tod >= w.from /\ tod < w.to /\ v = wd
               \/ w.from > w.to /\ tod >= w.from /\ v = wd
               \/ w.from > w.to /\ tod < w.from /\ tod < w.to /\ v = prevWd
  <2> DEFINE start == v * DayLen + w.from
  <2>1. w.from \in 0 .. DayLen - 1 /\ w.to \in 0 .. DayLen - 1 /\ w.from # w.to
    BY <1>2
  <2>2. start \in Instant
    <3>1. v * DayLen \in Nat /\ v * DayLen <= 6 * DayLen
      BY <1>1, SMT DEF Weekday
    <3> QED
      BY <1>1, <2>1, <3>1 DEF Instant
  <2>3. Since(w, v) = IF local >= start THEN local - start ELSE local + Week - start
    BY <1>1, <2>2, SinceStart DEF local
  <2>4. Length(w) = IF w.from < w.to THEN w.to - w.from ELSE w.to + DayLen - w.from
    BY <2>1, WindowLength
  <2> HIDE DEF Length, Since
  <2>5. Since(w, v) =
          IF wd * DayLen + tod >= v * DayLen + w.from
            THEN (wd * DayLen + tod) - (v * DayLen + w.from)
            ELSE (wd * DayLen + tod + 7 * DayLen) - (v * DayLen + w.from)
    <3>1. v * DayLen \in Nat /\ wd * DayLen \in Nat
      BY <1>1, <1>6, SMT DEF Weekday
    <3> QED
      BY <1>1, <1>6, <2>1, <2>3, <3>1
  <2> QED
    BY <1>6, <2>1, <2>4, <2>5, SinceOpened DEF prevWd
<1> HIDE DEF Length, Since
<1>9. \A w \in sc.windows :
        Case(w) <=> \E v \in Weekday : isWeekdayActive(sc, v) /\ Since(w, v) < Length(w)
  BY <1>6, <1>7, <1>8
<1> HIDE DEF Case
<1> QED
  BY <1>3, <1>4, <1>9

\* In every state a scheduled rule is active exactly while one of its windows
\* is open, overnight windows and the turn of the week included.
THEOREM ActiveIsOpenWindowAlways == Spec => []ActiveIsOpenWindow
<1>1. DecisionInv => ActiveIsOpenWindow
  <2> SUFFICES ASSUME DecisionInv, NEW k \in DOMAIN policy.rules,
                      policy.rules[k].schedule # Always
               PROVE  IsActive(policy.rules[k].schedule, req.now)
                        <=> OpenWindow(policy.rules[k].schedule, req.now)
    BY DEF ActiveIsOpenWindow
  <2>1. policy.rules[k] \in Rule /\ req.now \in Instant
    BY PolicyRules DEF DecisionInv, DecisionTypeOK, Request
  <2>2. policy.rules[k].schedule \in Schedule /\ Validate(policy.rules[k].schedule)
    BY <2>1 DEF Rule
  <2> QED
    BY <2>1, <2>2, ActiveOpen
<1> QED
  BY <1>1, DecisionInvariant, PTL

-----------------------------------------------------------------------------
(* Whose policy: typing and the invariant of ResolveIdentity *)

IdentityTypeOK ==
    /\ addr \in [Devices -> IPs \cup {None}] /\ stale \subseteq Devices
    /\ exists \subseteq Groups /\ Default \in exists
    /\ prio \in [Groups -> {0, 1}]
    /\ at \in {"find", "count", "seen", "base", "user", "grant", "done"}
    /\ id \in [device : Devices \cup {None}, ambiguous : BOOLEAN, stale : BOOLEAN,
               source : {"unknown", "nat", "stale", "device", "user"},
               group : Groups \cup {None},
               grant : {"none", "device", "group", "installation"}]
    /\ best \in Groups \cup {None}
    /\ left \subseteq exists
    /\ moves \in 0 .. MaxMoves

\* The policies that list the user, among the given ones.
Listed(gs) == {g \in gs : client.user \in members[g]}

\* Policy g is the user's first choice among the given ones.
FirstChoice(g, gs) ==
    /\ g \in Listed(gs)
    /\ \A h \in Listed(gs) \ {g} : prio[g] < prio[h] \/ (prio[g] = prio[h] /\ g < h)

\* groupForUserIn: best is the first choice among the policies visited so
\* far, or none of them lists the user.
UserInv ==
    /\ at \in {"find", "count", "seen", "base"} => best = None /\ left = {}
    /\ client.user = None => best = None /\ left = {}
    /\ at \in {"user", "grant", "done"} /\ client.user # None =>
         IF best = None THEN Listed(exists \ left) = {} ELSE FirstChoice(best, exists \ left)
    /\ at \in {"grant", "done"} => left = {} /\ (best # None => id.group = best)

\* The identity found is the address's own device: the only one there, and
\* for the proxy a fresh one.
OwnDevice(d) ==
    Claims(client.ip) = {d} /\ (client.layer = "proxy" => d \notin stale)

\* What the three questions to the device store have established when
\* nothing moved between them.
QuietInv ==
    moves = 0 =>
      /\ at = "find" => id.device = None /\ ~id.ambiguous
      /\ at = "count" => Claims(client.ip) # {} /\ id.device = Min(Claims(client.ip))
      /\ at = "seen" => /\ Claims(client.ip) # {} /\ id.device = Min(Claims(client.ip))
                        /\ id.ambiguous <=> Cardinality(Claims(client.ip)) > 1
      /\ at = "base" /\ id.device # None =>
           /\ Claims(client.ip) # {} /\ id.device = Min(Claims(client.ip))
           /\ id.ambiguous <=> Cardinality(Claims(client.ip)) > 1
           /\ id.stale <=> id.device \in stale
      /\ at = "user" /\ client.user = None /\ id.device # None /\ id.source \in {"device", "user"} =>
           OwnDevice(id.device)
      /\ at \in {"grant", "done"} /\ client.user = None =>
           /\ id.group \in exists
           /\ id.group # Default => \E d \in Devices : OwnDevice(d) /\ assign[d] = id.group

IdentityInv == IdentityTypeOK /\ UserInv /\ QuietInv

\* The lowest ID of a set of devices is one of them.
LEMMA MinDevice ==
    ASSUME NEW S, S \subseteq Devices, S # {}
    PROVE  Min(S) \in S /\ \A d : S = {d} => Min(S) = d
<1>1. S \subseteq Nat
  BY IdentityAssumption
<1>2. \E k \in S : \A l \in S : k <= l
  BY <1>1, LeastNumber
<1> QED
  BY <1>2 DEF Min

\* A set of devices with no more than one member has exactly one.
LEMMA OnlyDevice ==
    ASSUME NEW S, S \subseteq Devices, S # {}, ~(Cardinality(S) > 1)
    PROVE  S = {Min(S)}
<1>1. IsFiniteSet(S)
  BY IdentityAssumption, FS_Subset
<1>2. PICK d \in S : TRUE
  OBVIOUS
<1>3. IsFiniteSet(S \ {d}) /\ Cardinality(S \ {d}) = Cardinality(S) - 1
  BY <1>1, FS_RemoveElement
<1>4. Cardinality(S) \in Nat /\ Cardinality(S \ {d}) \in Nat
  BY <1>1, <1>3, FS_CardinalityType
<1>5. Cardinality(S \ {d}) = 0
  BY <1>3, <1>4
<1>6. S = {d}
  BY <1>2, <1>3, <1>5, FS_EmptySet
<1> QED
  BY <1>6, MinDevice

\* The devices that claim an address are devices.
LEMMA ClaimsType == \A ip : Claims(ip) \subseteq Devices
BY DEF Claims

\* The initial states satisfy the invariant.
LEMMA IdentityInitInv == IdentityInit => IdentityInv
<1> SUFFICES ASSUME IdentityInit PROVE IdentityInv
  OBVIOUS
<1>1. IdentityTypeOK
  BY IdentityAssumption DEF IdentityInit, IdentityTypeOK, NoIdentity
<1> QED
  BY <1>1 DEF IdentityInit, IdentityInv, UserInv, QuietInv, NoIdentity

\* Discovery touches no policy, and afterwards the request is not quiet.
LEMMA DiscoveryInv == IdentityInv /\ Discovery => IdentityInv'
<1> SUFFICES ASSUME IdentityInv, Discovery PROVE IdentityInv'
  OBVIOUS
<1>1. /\ UNCHANGED <<members, prio, exists, assign, grants, client, at, id, best, left>>
      /\ \E d \in Devices : (\E ip \in IPs : Observe(d, ip)) \/ Clear(d) \/ Age(d)
  BY DEF Discovery, policies
<1>2. PICK d \in Devices : (\E ip \in IPs : Observe(d, ip)) \/ Clear(d) \/ Age(d)
  BY <1>1
<1>3. moves' = moves + 1 /\ moves' \in 0 .. MaxMoves /\ moves' # 0
  BY <1>2, IdentityAssumption DEF Observe, Clear, Age, Moved, IdentityInv, IdentityTypeOK
<1>4. addr' \in [Devices -> IPs \cup {None}] /\ stale' \subseteq Devices
  BY <1>2 DEF Observe, Clear, Age, IdentityInv, IdentityTypeOK
<1>5. IdentityTypeOK'
  BY <1>1, <1>3, <1>4 DEF IdentityInv, IdentityTypeOK
<1>6. UserInv'
  BY <1>1 DEF IdentityInv, UserInv, Listed, FirstChoice
<1>7. QuietInv'
  BY <1>3 DEF QuietInv
<1> QED
  BY <1>5, <1>6, <1>7 DEF IdentityInv

\* The three questions to the device store keep the invariant.
LEMMA LookupInv == IdentityInv /\ (Find \/ Count \/ Seen) => IdentityInv'
<1> SUFFICES ASSUME IdentityInv, Find \/ Count \/ Seen PROVE IdentityInv'
  OBVIOUS
<1>1. /\ UNCHANGED <<members, prio, exists, assign, grants, client, addr, stale, moves, best, left>>
      /\ at \in {"find", "count", "seen"} /\ at' \in {"count", "seen", "base"}
  BY DEF Find, Count, Seen, To, policies, discovery
<1> DEFINE S == Claims(client.ip)
<1>2. S \subseteq Devices /\ Claims(client.ip)' = S
  BY <1>1 DEF Claims
<1>3. S # {} => Min(S) \in Devices
  BY <1>2, MinDevice
<1> HIDE DEF S
<1>4. UserInv'
  BY <1>1 DEF IdentityInv, UserInv
<1>5. CASE Find
  <2>1. /\ at = "find"
        /\ \/ S = {} /\ at' = "base" /\ id' = id
           \/ S # {} /\ at' = "count" /\ id' = [id EXCEPT !.device = Min(S)]
    BY <1>5 DEF Find, To, S
  <2>2. IdentityTypeOK'
    BY <1>1, <1>3, <2>1 DEF IdentityInv, IdentityTypeOK
  <2>3. QuietInv'
    BY <1>1, <1>2, <2>1 DEF IdentityInv, IdentityTypeOK, QuietInv, S
  <2> QED
    BY <1>4, <2>2, <2>3 DEF IdentityInv
<1>6. CASE Count
  <2>1. /\ at = "count" /\ at' = "seen"
        /\ id' = [id EXCEPT !.ambiguous = Cardinality(S) > 1]
    BY <1>6 DEF Count, To, S
  <2>2. IdentityTypeOK'
    <3>1. Cardinality(S) \in Nat
      BY <1>2, IdentityAssumption, FS_Subset, FS_CardinalityType
    <3>2. (Cardinality(S) > 1) \in BOOLEAN
      BY <3>1
    <3> QED
      BY <1>1, <2>1, <3>2 DEF IdentityInv, IdentityTypeOK
  <2>3. QuietInv'
    BY <1>1, <1>2, <2>1 DEF IdentityInv, IdentityTypeOK, QuietInv, S
  <2> QED
    BY <1>4, <2>2, <2>3 DEF IdentityInv
<1>7. CASE Seen
  <2>1. /\ at = "seen" /\ at' = "base"
        /\ id' = [id EXCEPT !.stale = S = {} \/ Min(S) \in stale]
    BY <1>7 DEF Seen, To, S
  <2>2. IdentityTypeOK'
    BY <1>1, <2>1 DEF IdentityInv, IdentityTypeOK
  <2>3. QuietInv'
    BY <1>1, <1>2, <2>1 DEF IdentityInv, IdentityTypeOK, QuietInv, S
  <2> QED
    BY <1>4, <2>2, <2>3 DEF IdentityInv
<1> QED
  BY <1>5, <1>6, <1>7

\* Base: a shared address keeps no device, and a source of "device" is the
\* address's own.
LEMMA BaseInv == IdentityInv /\ Base => IdentityInv'
<1> SUFFICES ASSUME IdentityInv, Base PROVE IdentityInv'
  OBVIOUS
<1>1. /\ UNCHANGED <<members, prio, exists, assign, grants, client, addr, stale, moves, best>>
      /\ at = "base" /\ at' = "user"
      /\ left' = IF client.user = None THEN {} ELSE exists
      /\ id' = [id EXCEPT !.source = IF client.user # None THEN "user" ELSE Source(id),
                          !.device = IF Source(id) = "nat" THEN None ELSE @]
  BY DEF Base, policies, discovery
<1>2. Claims(client.ip) \subseteq Devices /\ Claims(client.ip)' = Claims(client.ip)
  BY <1>1 DEF Claims
<1>3. Source(id) \in {"unknown", "nat", "stale", "device"}
  BY DEF Source
<1>4. IdentityTypeOK'
  BY <1>1, <1>3 DEF IdentityInv, IdentityTypeOK
<1>5. UserInv'
  BY <1>1 DEF IdentityInv, UserInv, Listed
<1>6. QuietInv'
  <2> SUFFICES ASSUME moves = 0, client.user = None, id'.device # None, id'.source \in {"device", "user"}
               PROVE  OwnDevice(id'.device)
    BY <1>1, <1>2 DEF QuietInv, OwnDevice
  <2>1. id'.source = Source(id) /\ (Source(id) # "nat" => id'.device = id.device)
    BY <1>1, <1>3 DEF IdentityInv, IdentityTypeOK
  <2>2. Source(id) = "device" /\ id'.device = id.device
    BY <1>3, <2>1
  <2>3. ~id.ambiguous /\ ~(id.stale /\ client.layer = "proxy")
    BY <2>2 DEF Source
  <2>4. /\ Claims(client.ip) # {} /\ id.device = Min(Claims(client.ip))
        /\ ~(Cardinality(Claims(client.ip)) > 1)
        /\ id.stale <=> id.device \in stale
    BY <1>1, <2>2, <2>3 DEF IdentityInv, QuietInv
  <2>5. Claims(client.ip) = {id.device}
    BY <1>2, <2>4, OnlyDevice
  <2> QED
    BY <2>2, <2>3, <2>4, <2>5 DEF OwnDevice
<1> QED
  BY <1>4, <1>5, <1>6 DEF IdentityInv

\* One pass of the loop of groupForUserIn keeps the first choice among the
\* policies visited, whatever order the map yields them in.
LEMMA UserLoopInv ==
    ASSUME IdentityInv, NEW g \in Groups, UserLoop(g)
    PROVE  IdentityInv'
<1>1. /\ UNCHANGED <<members, prio, exists, assign, grants, client, addr, stale, moves, at, id>>
      /\ at = "user" /\ g \in left /\ left' = left \ {g}
      /\ best' = IF client.user \in members[g] /\ Better(g) THEN g ELSE best
  BY DEF UserLoop, policies, discovery
<1>2. IdentityTypeOK'
  BY <1>1 DEF IdentityInv, IdentityTypeOK
<1>3. QuietInv'
  <2>1. UNCHANGED <<exists, assign, client, addr, stale, moves, at, id>>
    BY <1>1
  <2> QED
    BY <2>1 DEF IdentityInv, QuietInv, OwnDevice, Claims
<1>4. /\ exists \subseteq Nat /\ None \notin exists /\ left \subseteq exists
      /\ \A h \in exists : prio[h] \in Nat
  <2>1. /\ exists \subseteq Groups /\ left \subseteq exists /\ prio \in [Groups -> {0, 1}]
        /\ Groups \subseteq Nat /\ None \notin Groups
    BY IdentityAssumption DEF IdentityInv, IdentityTypeOK
  <2>2. \A h \in Groups : prio[h] \in {0, 1}
    BY <2>1
  <2>3. \A h \in Groups : prio[h] \in Nat
    BY <2>2
  <2>4. exists \subseteq Nat /\ None \notin exists
    BY <2>1
  <2> QED
    BY <2>1, <2>3, <2>4
<1>5. UserInv'
  <2>1. client.user # None
    BY <1>1 DEF IdentityInv, UserInv
  <2> DEFINE V == exists \ left
  <2>2. exists' \ left' = V \cup {g} /\ g \notin V /\ g \in exists
    BY <1>1, <1>4
  <2>3. IF best = None THEN Listed(V) = {} ELSE FirstChoice(best, V)
    BY <1>1, <2>1 DEF IdentityInv, UserInv
  <2>4. \A h : h \in Listed(V \cup {g}) <=> h \in Listed(V) \/ (h = g /\ client.user \in members[g])
    BY DEF Listed
  <2>5. IF best' = None THEN Listed(V \cup {g}) = {} ELSE FirstChoice(best', V \cup {g})
    <3>1. CASE client.user \notin members[g]
      BY <1>1, <2>3, <2>4, <3>1 DEF FirstChoice
    <3>2. CASE client.user \in members[g] /\ best = None
      BY <1>1, <1>4, <2>2, <2>3, <2>4, <3>2 DEF FirstChoice, Better
    <3>3. CASE client.user \in members[g] /\ best # None
      <4>1. Listed(V) \subseteq exists /\ best \in Listed(V) /\ best # g /\ best # None
        BY <2>2, <2>3, <3>3 DEF FirstChoice, Listed
      <4>2. \A h \in Listed(V) \ {best} : prio[best] < prio[h] \/ (prio[best] = prio[h] /\ best < h)
        BY <2>3, <3>3 DEF FirstChoice
      <4>3. /\ best \in Nat /\ g \in Nat /\ prio[best] \in Nat /\ prio[g] \in Nat /\ g # None
            /\ \A h \in Listed(V) : h \in Nat /\ prio[h] \in Nat /\ h # g
        BY <1>4, <2>2, <4>1 DEF Listed
      <4>4. CASE Better(g)
        <5>1. best' = g /\ (prio[g] < prio[best] \/ (prio[g] = prio[best] /\ g < best))
          BY <1>1, <3>3, <4>1, <4>4 DEF Better
        <5>2. \A h \in Listed(V) : prio[g] < prio[h] \/ (prio[g] = prio[h] /\ g < h)
          BY <4>2, <4>3, <5>1
        <5> QED
          BY <2>4, <3>3, <4>3, <5>1, <5>2 DEF FirstChoice
      <4>5. CASE ~Better(g)
        <5>1. best' = best /\ (prio[best] < prio[g] \/ (prio[best] = prio[g] /\ best < g))
          BY <1>1, <3>3, <4>1, <4>3, <4>5 DEF Better
        <5> QED
          BY <2>4, <4>1, <4>2, <5>1 DEF FirstChoice
      <4> QED
        BY <4>4, <4>5
    <3> QED
      BY <3>1, <3>2, <3>3
  <2>6. IF best' = None THEN Listed(exists \ left)' = {} ELSE FirstChoice(best, exists \ left)'
    BY <1>1, <2>2, <2>5 DEF Listed, FirstChoice
  <2> QED
    BY <1>1, <2>1, <2>6 DEF UserInv
<1> QED
  BY <1>2, <1>3, <1>5 DEF IdentityInv

\* Choose: the user's policy, the own device's assignment or the default.
LEMMA ChooseInv == IdentityInv /\ Choose => IdentityInv'
<1> SUFFICES ASSUME IdentityInv, Choose PROVE IdentityInv'
  OBVIOUS
<1> DEFINE assigned == id.device # None /\ id.source \in {"device", "user"} /\ assign[id.device] \in exists
           group == IF best # None THEN best ELSE IF assigned THEN assign[id.device] ELSE Default
<1>1. /\ UNCHANGED <<members, prio, exists, assign, grants, client, addr, stale, moves, best, left>>
      /\ at = "user" /\ left = {} /\ at' = "grant" /\ id' = [id EXCEPT !.group = group]
  BY DEF Choose, To, policies, discovery
<1>2. group \in Groups
  BY IdentityAssumption DEF IdentityInv, IdentityTypeOK
<1> HIDE DEF group
<1>3. id'.group = group /\ IdentityTypeOK'
  BY <1>1, <1>2 DEF IdentityInv, IdentityTypeOK
<1>4. UserInv'
  BY <1>1, <1>3 DEF IdentityInv, UserInv, Listed, FirstChoice, group
<1>5. QuietInv'
  <2> SUFFICES ASSUME moves = 0, client.user = None
               PROVE  /\ group \in exists
                      /\ group # Default => \E d \in Devices : OwnDevice(d) /\ assign[d] = group
    BY <1>1, <1>3 DEF QuietInv, OwnDevice, Claims
  <2>1. best = None
    BY DEF IdentityInv, UserInv
  <2>2. assigned => OwnDevice(id.device) /\ id.device \in Devices
    BY <1>1 DEF IdentityInv, QuietInv, IdentityTypeOK
  <2> QED
    BY <2>1, <2>2 DEF group, IdentityInv, IdentityTypeOK
<1> QED
  BY <1>3, <1>4, <1>5 DEF IdentityInv

\* Grant reads the identity and leaves the policy alone.
LEMMA GrantInv == IdentityInv /\ Grant => IdentityInv'
<1> SUFFICES ASSUME IdentityInv, Grant PROVE IdentityInv'
  OBVIOUS
<1>1. /\ UNCHANGED <<members, prio, exists, assign, grants, client, addr, stale, moves, best, left>>
      /\ at = "grant" /\ at' = "done"
      /\ \E x \in {"none", "device", "group", "installation"} : id' = [id EXCEPT !.grant = x]
  BY DEF Grant, To, policies, discovery
<1>2. IdentityTypeOK' /\ id'.group = id.group
  BY <1>1 DEF IdentityInv, IdentityTypeOK
<1>3. UserInv'
  BY <1>1, <1>2 DEF IdentityInv, UserInv, Listed, FirstChoice
<1>4. QuietInv'
  BY <1>1, <1>2 DEF IdentityInv, QuietInv, OwnDevice, Claims
<1> QED
  BY <1>2, <1>3, <1>4 DEF IdentityInv

\* The invariant of ResolveIdentity holds in every state.
LEMMA IdentityInvariant == IdentitySpec => []IdentityInv
<1>1. IdentityInv /\ UNCHANGED identityVars => IdentityInv'
  BY DEF identityVars, IdentityInv, IdentityTypeOK, UserInv, QuietInv, Listed, FirstChoice, OwnDevice, Claims
<1>2. IdentityInv /\ [IdentityNext]_identityVars => IdentityInv'
  BY <1>1, DiscoveryInv, LookupInv, BaseInv, UserLoopInv, ChooseInv, GrantInv DEF IdentityNext, Resolve
<1> QED
  BY <1>2, IdentityInitInv, PTL DEF IdentitySpec

\* Whatever order the map of the policies is walked in, a user gets the
\* policy of the lowest priority and, among equals, of the lowest ID.
THEOREM UserPolicyIsDeterminateAlways == IdentitySpec => []UserPolicyIsDeterminate
<1>1. IdentityInv => UserPolicyIsDeterminate
  <2> SUFFICES ASSUME IdentityInv, at = "done", client.user # None, Listed(exists) # {}
               PROVE  FirstChoice(id.group, exists)
    BY DEF UserPolicyIsDeterminate, Listed, FirstChoice
  <2>1. exists \ left = exists
    BY DEF IdentityInv, UserInv
  <2> QED
    BY <2>1 DEF IdentityInv, UserInv
<1> QED
  BY <1>1, IdentityInvariant, PTL

\* While discovery is quiet a request gets the policy of the only device at
\* its address, or the default one: never someone else's.
THEOREM QuietMeansOwnPolicyAlways == IdentitySpec => []QuietMeansOwnPolicy
<1>1. IdentityInv => QuietMeansOwnPolicy
  BY DEF IdentityInv, QuietInv, QuietMeansOwnPolicy, OwnDevice
<1> QED
  BY <1>1, IdentityInvariant, PTL

=============================================================================
