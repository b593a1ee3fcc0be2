--------------------------- MODULE PolicyDecision ---------------------------
(***************************************************************************)
(* How one policy decides one request: evaluate and evaluateGroup of        *)
(* application/policy, which the DNS server, the proxy and the preview      *)
(* share.  The loop over the rules is a step per rule; FirstMatch is the    *)
(* order the documentation promises, stated without the loop.               *)
(*                                                                          *)
(* The domain of the request is fixed.  A pattern or category list is       *)
(* reduced to whether it covers that domain, URL and content conditions to  *)
(* whether the rule carries any.                                            *)
(***************************************************************************)
EXTENDS PolicySchedule, Sequences

CONSTANTS
    Users,     \* authenticated proxy users
    NoUser,    \* no login: the user of every DNS query
    Always,    \* no schedule (nil)
    Rules,     \* the rules an administrator may put into a policy
    MaxRules   \* bound on the rules of one policy

\* A rule that passed NormalizeGroupRules: its schedule is valid and
\* conditions only narrow a block.
Rule == {r \in [action : {"allow", "block"}, enabled : BOOLEAN, hit : BOOLEAN,
                schedule : {sc \in Schedule : Validate(sc)} \cup {Always},
                users : SUBSET Users, cond : BOOLEAN] : r.cond => r.action = "block"}

ASSUME DecisionAssumption ==
    /\ Rules \subseteq Rule
    /\ MaxRules \in Nat
    /\ NoUser \notin Users
    /\ Always \notin Schedule

\* What evaluate reads of a policy and of the gateway, for the domain.
Policy == [rules : UNION {[1 .. n -> Rules] : n \in 0 .. MaxRules},
           allowed : BOOLEAN, blocked : BOOLEAN, category : BOOLEAN, gateway : BOOLEAN]

\* evalRequest, with the outcome of evaluateExceptionIn.
Request == {q \in [layer : {"dns", "proxy"}, user : Users \cup {NoUser}, now : Instant,
                   excepted : BOOLEAN, paused : BOOLEAN] : q.layer = "dns" => q.user = NoUser}

VARIABLES
    policy,  \* the resolved policy and the gateway categories
    req,     \* the request
    pc,      \* "exception", "rules", "lists" or "done"
    i,       \* the next rule of the loop
    out      \* groupOutcome: action, rule, conditional rules, proxy-only conditions

vars == <<policy, req, pc, i, out>>

Outcome == [action : {"none", "allow", "block"}, rule : 0 .. MaxRules,
            conditions : SUBSET (1 .. MaxRules), proxyOnly : SUBSET {"condition", "user"}]
NoOutcome == [action |-> "none", rule |-> 0, conditions |-> {}, proxyOnly |-> {}]

-----------------------------------------------------------------------------
Done(o) == pc' = "done" /\ out' = o /\ UNCHANGED <<policy, req, i>>

\* A scoped exception allows before the policy is asked.
Exception ==
    /\ pc = "exception"
    /\ IF req.excepted
         THEN Done([out EXCEPT !.action = "allow"])
         ELSE pc' = "rules" /\ UNCHANGED <<policy, req, i, out>>

\* A nil schedule is always active.
ScheduleActive(r, q) == IF r.schedule = Always THEN TRUE ELSE IsActive(r.schedule, q.now)

\* Mutant: a pause lifts the allows instead of the blocks.
AppliesPausedAllow(r, q) ==
    r.enabled /\ r.hit /\ ScheduleActive(r, q) /\ ~(r.action = "allow" /\ q.paused)

\* The rule is enabled, covers the domain and is inside its schedule, and no
\* pause lifts it.
Applies(r, q) ==
    r.enabled /\ r.hit /\ ScheduleActive(r, q) /\ ~(r.action = "block" /\ q.paused)

\* RuleConditionsNeedingProxy
RuleConditionsNeedingProxy(r) ==
    (IF r.cond THEN {"condition"} ELSE {}) \cup (IF r.users # {} THEN {"user"} ELSE {})

NextRule(o) == i' = i + 1 /\ out' = o /\ UNCHANGED <<policy, req, pc>>

\* Mutant: DNS decides by a rule that names users.
RuleDNSDecides ==
    /\ pc = "rules" /\ i <= Len(policy.rules)
    /\ LET r == policy.rules[i] IN
       \/ ~Applies(r, req) /\ NextRule(out)
       \/ Applies(r, req) /\ r.cond /\ NextRule(out)
       \/ Applies(r, req) /\ ~r.cond /\ Done([out EXCEPT !.action = r.action, !.rule = i])

\* Mutant: a conditional block ends the loop.
RuleConditionDecides ==
    /\ pc = "rules" /\ i <= Len(policy.rules)
    /\ LET r == policy.rules[i] IN
       \/ /\ ~Applies(r, req) \/ req.layer = "dns" \/ (r.users # {} /\ req.user \notin r.users)
          /\ NextRule(out)
       \/ /\ Applies(r, req) /\ req.layer = "proxy" /\ (r.users = {} \/ req.user \in r.users)
          /\ Done([out EXCEPT !.action = r.action, !.rule = i])

\* One pass of the loop: skip the rule, leave it to the proxy, collect its
\* conditions, or let it decide.
NextRuleOrDecide ==
    /\ pc = "rules" /\ i <= Len(policy.rules)
    /\ LET r == policy.rules[i]
           proxyOnly == RuleConditionsNeedingProxy(r)
       IN
       \/ ~Applies(r, req) /\ NextRule(out)
       \/ /\ Applies(r, req) /\ req.layer = "dns" /\ proxyOnly # {}
          /\ NextRule([out EXCEPT !.proxyOnly = @ \cup proxyOnly])
       \/ /\ Applies(r, req) /\ req.layer = "proxy" /\ r.users # {} /\ req.user \notin r.users
          /\ NextRule(out)
       \/ /\ Applies(r, req) /\ req.layer = "proxy" /\ (r.users = {} \/ req.user \in r.users)
          /\ r.cond
          /\ NextRule([out EXCEPT !.conditions = @ \cup {i}])
       \/ /\ Applies(r, req)
          /\ IF req.layer = "dns" THEN proxyOnly = {}
                                  ELSE ~r.cond /\ (r.users = {} \/ req.user \in r.users)
          /\ Done([out EXCEPT !.action = r.action, !.rule = i])

RulesEnd ==
    /\ pc = "rules" /\ i > Len(policy.rules)
    /\ pc' = "lists"
    /\ UNCHANGED <<policy, req, i, out>>

\* Mutant: a pause lifts the gateway-wide categories too.
ListsPauseAll ==
    /\ pc = "lists"
    /\ Done([out EXCEPT !.action =
               IF policy.allowed THEN "allow"
               ELSE IF ~req.paused /\ (policy.blocked \/ policy.category \/ policy.gateway) THEN "block"
               ELSE "none"])

\* Allowed domains, blocked domains and categories, gateway-wide categories.
Lists ==
    /\ pc = "lists"
    /\ Done([out EXCEPT !.action =
               IF policy.allowed THEN "allow"
               ELSE IF ~req.paused /\ (policy.blocked \/ policy.category) THEN "block"
               ELSE IF policy.gateway THEN "block"
               ELSE "none"])

Init ==
    /\ policy \in Policy
    /\ req \in Request
    /\ pc = "exception" /\ i = 1 /\ out = NoOutcome

Next == Exception \/ NextRuleOrDecide \/ RulesEnd \/ Lists

Spec == Init /\ [][Next]_vars

-----------------------------------------------------------------------------
(* The promised decision, without the loop *)

\* The layer can see everything the rule depends on, and the rule is about
\* this request and the whole domain.
Decides(r, q) ==
    /\ Applies(r, q) /\ ~r.cond
    /\ r.users = {} \/ (q.layer = "proxy" /\ q.user \in r.users)

Deciders(p, q) == {k \in DOMAIN p.rules : Decides(p.rules[k], q)}

\* Exceptions, then the first rule that decides, then the lists: an allowed
\* domain wins over the blocked lists, and only the gateway-wide categories
\* outlast a pause.
FirstMatch(p, q) ==
    IF q.excepted THEN "allow"
    ELSE IF Deciders(p, q) # {}
      THEN p.rules[CHOOSE k \in Deciders(p, q) : \A l \in Deciders(p, q) : k <= l].action
    ELSE IF p.allowed THEN "allow"
    ELSE IF (~q.paused /\ (p.blocked \/ p.category)) \/ p.gateway THEN "block" ELSE "none"

\* The conditional block rules about this request, above the deciding rule.
Conditions(p, q) ==
    {k \in DOMAIN p.rules :
        /\ Applies(p.rules[k], q) /\ p.rules[k].cond
        /\ p.rules[k].users = {} \/ q.user \in p.rules[k].users
        /\ \A l \in Deciders(p, q) : k < l}

\* evaluateProxyIn: what the proxy makes of an action and of conditions.
ProxyMatch(action, conditions) ==
    [ShouldBlock |-> action = "block",
     ShouldMITM  |-> action # "block" /\ conditions # {},
     Allowed     |-> action = "allow"]

-----------------------------------------------------------------------------
(* Properties *)

\* The loop of evaluateGroup ends with the decision the comments promise:
\* "rules top to bottom, then the allowed domains, then the blocked domains
\* and categories, then the gateway-wide categories", first match wins.
DecisionIsFirstMatch == pc = "done" => out.action = FirstMatch(policy, req)

\* The proxy is handed exactly the conditional block rules above the rule
\* that decided, so a request that meets none of them is decided "by whatever
\* comes next" (URLRegexes and ContentTypes of groupOutcome).
ConditionsAreAbove ==
    pc = "done" /\ req.layer = "proxy" /\ ~req.excepted =>
        out.conditions = Conditions(policy, req)

\* When DNS reports no condition it could not see (ProxyOnly is empty), the
\* proxy reaches the same decision for every user without inspecting.
LayersAgree ==
    pc = "done" /\ req.layer = "dns" /\ out.proxyOnly = {} =>
        \A u \in Users \cup {NoUser} :
            LET q == [req EXCEPT !.layer = "proxy", !.user = u]
                match == ProxyMatch(FirstMatch(policy, q),
                                    IF q.excepted THEN {} ELSE Conditions(policy, q))
            IN  match = ProxyMatch(out.action, {})

\* A pause only lifts blocks: what it leaves blocked is blocked without it,
\* by a gateway-wide category, and what was allowed stays allowed.
PauseOnlyLifts ==
    pc = "done" /\ req.paused =>
        LET unpaused == FirstMatch(policy, [req EXCEPT !.paused = FALSE]) IN
        /\ out.action = "block" => unpaused = "block" /\ policy.gateway
        /\ unpaused = "allow" => out.action = "allow"

\* A scheduled rule is active in exactly the instants at which one of its
\* windows, opened on one of its weekdays in its own zone, has not closed yet
\* ("a Monday 20:00-07:00 bedtime covers Tuesday morning").
ActiveIsOpenWindow ==
    \A k \in DOMAIN policy.rules :
        LET sc == policy.rules[k].schedule IN
        sc # Always => (IsActive(sc, req.now) <=> OpenWindow(sc, req.now))

=============================================================================
