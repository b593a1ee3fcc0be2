-------------------------- MODULE MCPolicyRequest ---------------------------
(* Policies of up to three rules over eleven kinds of rule, every kind that *)
(* can decide or be skipped for a reason of its own, on a Sunday midnight;  *)
(* and one scheduled rule at every half hour of the week, with the presets, *)
(* windows that touch midnight, overlap or last one unit, in three zones.   *)
(* The identity of a request: two devices at one address, one user, the     *)
(* default policy and one more.                                             *)
EXTENDS PolicyRequest

CONSTANTS ann, bob

live == [action |-> "block", enabled |-> TRUE, hit |-> TRUE, schedule |-> Always,
         users |-> {}, cond |-> FALSE]
noon == [timezone |-> 0, weekdays |-> {}, windows |-> {[from |-> 24, to |-> 26]}]

DecisionRules ==
    {[live EXCEPT !.action = a, !.users = us] : a \in {"allow", "block"}, us \in {{}, {ann}, {ann, bob}}}
    \cup {[live EXCEPT !.cond = TRUE, !.users = us] : us \in {{}, {bob}}}
    \cup {[live EXCEPT !.enabled = FALSE], [live EXCEPT !.hit = FALSE], [live EXCEPT !.schedule = noon]}

W(f, t) == [from |-> f, to |-> t]
Schedules ==
    {Preset(p, tz) : p \in {"bedtime", "school-day"}, tz \in Offsets}
    \cup [timezone : Offsets, weekdays : {{}, {6}, {0, 3}},
          windows : {{W(47, 0)}, {W(0, 47)}, {W(0, 1)}, {W(40, 10), W(8, 20)}, {W(30, 40), W(46, 2)}}]
ScheduleRules == {[live EXCEPT !.schedule = sc] : sc \in Schedules}

MCRules == DecisionRules \cup ScheduleRules

DecisionCases ==
    /\ policy \in [rules : UNION {[1 .. n -> DecisionRules] : n \in 0 .. MaxRules},
                   allowed : BOOLEAN, blocked : BOOLEAN, category : BOOLEAN, gateway : BOOLEAN]
    /\ req \in {q \in [layer : {"dns", "proxy"}, user : Users \cup {NoUser}, now : {0},
                       excepted : BOOLEAN, paused : BOOLEAN] : q.layer = "dns" => q.user = NoUser}

ScheduleCases ==
    /\ policy \in [rules : [1 .. 1 -> ScheduleRules],
                   allowed : {FALSE}, blocked : {FALSE}, category : {FALSE}, gateway : {FALSE}]
    /\ req \in [layer : {"dns"}, user : {NoUser}, now : Instant, excepted : {FALSE}, paused : {FALSE}]

MCInit ==
    /\ DecisionCases \/ ScheduleCases
    /\ pc = "exception" /\ i = 1 /\ out = NoOutcome

MCSpec == RequestInit(MCInit) /\ [][RequestNext]_requestVars
=============================================================================
