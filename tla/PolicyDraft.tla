----------------------------- MODULE PolicyDraft -----------------------------
(***************************************************************************)
(* The draft of a policy in its form (src/ui/src/routes/rules:             *)
(* groupform.svelte over policymodel.ts).  Its rules are shown in two      *)
(* places: the first rule that has the shape of a bedtime is a switch, and *)
(* every other one is a row of the Advanced section.  A rule has no mark   *)
(* that says which of the two it is, so every edit of a rule, and its      *)
(* place among the others, may move it from one place to the other.        *)
(*                                                                         *)
(* Of a rule the model keeps what decides its shape.  The hours and days   *)
(* of a schedule are one value; categories, domains and names are left     *)
(* out, as is the text in a field whose "Add" was not pressed, which a     *)
(* save drops.                                                             *)
(***************************************************************************)
EXTENDS WebCommon, Sequences, SequencesExt

CONSTANTS RuleUsers,     \* proxy users
          Conditions,    \* URL patterns and response types
          Hours,         \* hours of a schedule
          BedtimeHours,  \* those of the preset "bedtime"
          MaxRules       \* bound: rules of a draft

ASSUME DraftAssumption ==
  /\ BedtimeHours \in Hours /\ MaxRules \in Nat
  /\ None \notin [preset : {None, "bedtime"}, hours : Hours]

VARIABLES draft,
          advanced   \* the Advanced section: open, and whether the administrator turned it

draftVars == <<draft, advanced>>

emptyRule == [enabled |-> TRUE, action |-> "block", all_traffic |-> FALSE,
              conditions |-> {}, schedule |-> None, users |-> {}]

(* preset is the name of the preset, if the hours are its hours.           *)
Schedule(preset, hours) == [preset |-> preset, hours |-> hours]

\* Mutant: the rule does not apply to all traffic.
bedtimeRuleNoTarget == [emptyRule EXCEPT !.schedule = Schedule(None, BedtimeHours)]

bedtimeRule == [emptyRule EXCEPT !.all_traffic = TRUE, !.schedule = Schedule(None, BedtimeHours)]

isBedtimeRule(rule) ==
  /\ rule.action = "block" /\ rule.all_traffic /\ rule.schedule # None
  /\ rule.conditions = {} /\ rule.users = {}

(* The rules that group.rules.filter(isBedtimeRule) keeps.                 *)
bedtimes(rules) == {n \in DOMAIN rules : isBedtimeRule(rules[n])}

\* Mutant: a second bedtime is not counted.
hasOtherRules(group) ==
  group.users # {} \/ Len(group.rules) > Cardinality(bedtimes(group.rules))

hasAdvancedSettings(group) ==
  \/ group.users # {}
  \/ Len(group.rules) > Cardinality(bedtimes(group.rules))
  \/ Cardinality(bedtimes(group.rules)) > 1

(* 0 when there is none.                                                   *)
bedtimeIndex(rules) == SelectInSeq(rules, isBedtimeRule)

removeRule(rules, index) == RemoveAt(rules, index)

setBedtime(rules, on) ==
  IF on /\ bedtimeIndex(rules) = 0 THEN <<bedtimeRule>> \o rules
  ELSE IF ~on /\ bedtimeIndex(rules) # 0 THEN removeRule(rules, bedtimeIndex(rules))
  ELSE rules

(* The rows of the Advanced section.                                       *)
rowsOf(rules) == DOMAIN rules \ {bedtimeIndex(rules)}

(* copyGroup and persistableGroup keep what the model has of a draft; what *)
(* the form derives from a draft it derives when it is opened.             *)
Opened(group) == [open |-> hasAdvancedSettings(group), turned |-> FALSE]

emptyGroup(isDefault) == [isDefault |-> isDefault, users |-> {}, rules |-> <<>>]

DraftInit ==
  /\ \E isDefault \in BOOLEAN : draft = emptyGroup(isDefault)
  /\ advanced = Opened(draft)

(* The administrator saves and opens the policy again.  The server refuses *)
(* an allow rule with conditions, and the draft stays as it is.            *)
Acceptable(group) ==
  \A n \in DOMAIN group.rules : group.rules[n].action = "allow" => group.rules[n].conditions = {}

Submitted(group) ==
  /\ draft' = group
  /\ IF Acceptable(group) THEN advanced' = Opened(group) ELSE UNCHANGED advanced

Save == Submitted(draft)

SetRules(rules) ==
  /\ Len(rules) <= MaxRules
  /\ draft' = [draft EXCEPT !.rules = rules]
  /\ UNCHANGED advanced

(***************************************************************************)
(* The switch and its hours.                                               *)
(***************************************************************************)
ToggleBedtime(on) ==
  /\ on = (bedtimeIndex(draft.rules) = 0)
  /\ SetRules(setBedtime(draft.rules, on))

(* onBedtimeTime, onBedtimeDays.                                           *)
onBedtimeHours(h) ==
  LET b == bedtimeIndex(draft.rules) IN
  /\ b # 0
  /\ SetRules([draft.rules EXCEPT ![b].schedule = Schedule(None, h)])

(***************************************************************************)
(* The Advanced section.                                                   *)
(***************************************************************************)
TurnAdvanced ==
  /\ advanced' = [open |-> ~advanced.open, turned |-> TRUE]
  /\ UNCHANGED draft

setGroupUsers(us) ==
  /\ advanced.open /\ ~draft.isDefault /\ RuleUsers # {}
  /\ draft' = [draft EXCEPT !.users = us]
  /\ UNCHANGED advanced

addRule ==
  /\ advanced.open
  /\ SetRules(Append(draft.rules, emptyRule))

RemoveRow(n) ==
  /\ advanced.open /\ n \in rowsOf(draft.rules)
  /\ SetRules(removeRule(draft.rules, n))

moveRule(n, offset) ==
  LET target == n + offset IN
  /\ advanced.open /\ n \in rowsOf(draft.rules)
  /\ target \in DOMAIN draft.rules
  /\ SetRules([draft.rules EXCEPT ![n] = draft.rules[target], ![target] = draft.rules[n]])

(* The fields of a row.  conditionsAllowed: an allow rule shows no fields  *)
(* for conditions, but keeps those it has.                                 *)
conditionsAllowed(rule) == rule.action = "block"

setScheduleChoice(rule, choice) ==
  CASE choice = "always" -> [rule EXCEPT !.schedule = None]
    [] choice = "bedtime" -> [rule EXCEPT !.schedule = Schedule("bedtime", BedtimeHours)]
    [] choice = "custom" -> [rule EXCEPT !.schedule =
         Schedule(None, IF rule.schedule = None THEN CHOOSE h \in Hours : TRUE ELSE rule.schedule.hours)]

(* addListEntry and removeListEntry, by their buttons.                     *)
withEntry(rule, c) == [rule EXCEPT !.conditions = @ \cup {c}]

ruleEdits(rule) ==
  {[rule EXCEPT !.enabled = ~@], [rule EXCEPT !.all_traffic = ~@]}
  \cup {[rule EXCEPT !.action = a] : a \in {"block", "allow"}}
  \cup {setScheduleChoice(rule, choice) : choice \in {"always", "bedtime", "custom"}}
  \cup (IF rule.schedule # None /\ rule.schedule.preset = None
        THEN {[rule EXCEPT !.schedule = Schedule(None, h)] : h \in Hours} ELSE {})
  \cup {[rule EXCEPT !.users = us] : us \in SUBSET RuleUsers}
  \cup (IF conditionsAllowed(rule)
        THEN {withEntry(rule, c) : c \in Conditions}
             \cup {[rule EXCEPT !.conditions = @ \ {c}] : c \in rule.conditions}
        ELSE {})

EditRow(n) ==
  /\ advanced.open /\ n \in rowsOf(draft.rules)
  /\ \E edited \in ruleEdits(draft.rules[n]) :
       SetRules([draft.rules EXCEPT ![n] = edited])

(* Enter in a field for conditions adds the entry and, as in any form,     *)
(* submits it.                                                             *)
EnterCondition(n, c) ==
  /\ advanced.open /\ n \in rowsOf(draft.rules) /\ conditionsAllowed(draft.rules[n])
  /\ Submitted([draft EXCEPT !.rules[n] = withEntry(draft.rules[n], c)])

DraftNext ==
  \/ Save \/ TurnAdvanced \/ addRule
  \/ \E on \in BOOLEAN : ToggleBedtime(on)
  \/ \E h \in Hours : onBedtimeHours(h)
  \/ \E us \in SUBSET RuleUsers : setGroupUsers(us)
  \/ \E n \in DOMAIN draft.rules :
       \/ RemoveRow(n) \/ EditRow(n)
       \/ \E offset \in {-1, 1} : moveRule(n, offset)
       \/ \E c \in Conditions : EnterCondition(n, c)

(***************************************************************************)
(* Properties.                                                             *)
(***************************************************************************)
(* The switch can be taken back: where it is off, turning it on and off    *)
(* again leaves the rules and their order as they were, although the       *)
(* bedtime is only recognized by its shape.  Where it is on, turning it    *)
(* off takes away one rule, one that has no row.                           *)
BedtimeUndo ==
  LET rules == draft.rules
      off == setBedtime(rules, FALSE)
  IN IF bedtimeIndex(rules) = 0
     THEN setBedtime(setBedtime(rules, TRUE), FALSE) = rules
     ELSE /\ Len(off) = Len(rules) - 1
          /\ \A m, n \in rowsOf(rules) : m < n =>
               \E i, j \in DOMAIN off : i < j /\ off[i] = rules[m] /\ off[j] = rules[n]

(* Nothing that takes effect is out of sight: while the Advanced section   *)
(* is as the form opened it, closed, the policy has no users, and no rule  *)
(* but the one the switch stands for.                                      *)
NothingHidden ==
  ~advanced.open /\ ~advanced.turned =>
    draft.users = {} /\ rowsOf(draft.rules) = {}

(* "The API rejects the combination, and the form turns the fields off     *)
(* rather than letting an administrator write it" (groupform.svelte): a    *)
(* draft has no allow rule with conditions.                                *)
AllowHasNoConditions == Acceptable(draft)
=============================================================================
