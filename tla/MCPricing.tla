------------------------------ MODULE MCPricing ------------------------------
(* Instances of Pricing for TLC. *)
EXTENDS Pricing

\* A base price that rounds and one that does not, for one guest and for a group.
SmallItems == [base : {5, 99}, party : {1, 3}, month : {1, 7}]

Rule(type, bound, months, percent) ==
  [ruleType |-> type, bound |-> bound, months |-> months, percent |-> percent]

\* One rule of each type, a second discount, and a config no schema accepts.
SmallRules ==
  << Rule("GROUP_SIZE", 2, {}, 10),
     Rule("ADVANCE_BOOKING", 1, {}, 15),
     Rule("SEASONAL", 0, {6, 7, 8}, 20),
     Rule("GROUP_SIZE", 1, {}, 50),
     Rule("GROUP_SIZE", 1, {}, 150) >>

SmallRuleIds == 1..5

\* On both sides of daysInAdvance.
FewDays == 0..2

=============================================================================
