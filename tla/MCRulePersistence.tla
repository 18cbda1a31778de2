------------------------- MODULE MCRulePersistence -------------------------
(* Two sessions that edit a list of two rules, and may add a third.        *)
EXTENDS RulePersistence

MCInitialRules == <<[id |-> 1, on |-> TRUE], [id |-> 2, on |-> TRUE]>>

=============================================================================
