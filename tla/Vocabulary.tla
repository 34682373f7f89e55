----------------------------- MODULE Vocabulary -----------------------------
(***************************************************************************)
(* The enumerations several components share (domain/enums.py).  Every     *)
(* component that compares risks or costs lists them in the same order.    *)
(***************************************************************************)
EXTENDS Naturals

EdgeTypes ==
    {"contains", "prerequisite_for", "builds_on", "assessed_by", "next_step_for", "alternative_to",
     "supported_by", "derived_from", "quotes", "summarizes", "validated_by", "contradicted_by",
     "supersedes", "deprecated_by", "corrected_by", "translated_from", "forked_from", "adapted_for",
     "applies_in", "requires_tool", "requires_material", "has_failure_mode", "mitigated_by",
     "unsafe_without", "bounded_by"}

Stages == {"foundation", "household", "productive", "community", "advanced"}
RiskRank == [low |-> 0, moderate |-> 1, high |-> 2, expert_only |-> 3]
CostRank == [free |-> 0, low |-> 1, medium |-> 2, high |-> 3]

HighRisk == {"high", "expert_only"}

LifecycleState == {"draft", "in_review", "reviewed", "verified", "published", "deprecated", "archived"}
=============================================================================
