------------------------------- MODULE Policy -------------------------------
(***************************************************************************)
(* The safety policy of the legacy operations (policy.py): which rules     *)
(* apply to an operation, and whether they let it through.  A policy is a  *)
(* record [version, defaults, rules]; a rule is a record [id, operation,   *)
(* environment, severity, require], where require maps a condition to the  *)
(* truth value that is expected of it.  NoPolicy is a file that is missing *)
(* or cannot be parsed.                                                    *)
(***************************************************************************)
EXTENDS FiniteSets

CONSTANTS NoPolicy, NoEnvironment

CONDITION_EVALUATORS ==
  {"target_health_check", "rollback_available", "confirmation_required",
   "plan_exists", "json_receipts", "image_digest_pinned",
   "provider_config_validated", "restore_drill_present",
   "readiness_clean", "backup_fresh"}

KNOWN_SEVERITIES == {"blocker", "warning", "info"}

-----------------------------------------------------------------------------
(* validate_policy: only these make a policy unusable.  An unknown key or  *)
(* condition is a warning.                                                 *)
RuleIsSound(rule) ==
  /\ rule.id # "" /\ rule.operation # ""
  /\ rule.severity \in KNOWN_SEVERITIES

validate_policy(policy) == policy.version /\ \A rule \in policy.rules : RuleIsSound(rule)

(* load_policy: the first file that exists, and it must parse.             *)
load_policy(files) ==
  IF files.runtime # NoPolicy THEN files.runtime ELSE files.repository

-----------------------------------------------------------------------------
_select_rules(policy, operation, environment) ==
  {rule \in policy.rules :
     /\ rule.operation = operation
     /\ rule.environment \in {NoEnvironment, environment}}

ImplicitRule(id, operation, condition) ==
  [id |-> id, operation |-> operation, environment |-> "production",
   severity |-> "blocker", require |-> [c \in {condition} |-> TRUE]]

(* Defaults bind the operations named .apply and .create in production.    *)
_implicit_default_rules(policy, operation, environment, mutating) ==
  IF environment # "production" \/ ~mutating THEN {}
  ELSE {ImplicitRule("default-production-requires-plan", operation, "plan_exists") :
          d \in policy.defaults \cap {"production_requires_plan"}}
       \cup
       {ImplicitRule("default-production-requires-confirmation", operation,
                     "confirmation_required") :
          d \in policy.defaults \cap {"production_requires_confirmation"}}
       \cup
       {ImplicitRule("default-require-json-receipts", operation, "json_receipts") :
          d \in policy.defaults \cap {"require_json_receipts"}}

(* The outcome of one rule: a condition the engine does not know fails     *)
(* closed whatever the severity; a fact that is missing counts as false.   *)
RuleOutcome(rule, facts) ==
  LET unknown == DOMAIN rule.require \ CONDITION_EVALUATORS
      failed  == {c \in DOMAIN rule.require \cap CONDITION_EVALUATORS :
                    (c \in facts) # rule.require[c]}
  IN  CASE unknown # {} -> "blocked"
        [] unknown = {} /\ failed = {} -> "ok"
        [] OTHER -> CASE rule.severity = "warning" -> "warn"
                      [] rule.severity = "info" -> "info"
                      [] OTHER -> "blocked"

(* facts is the set of the conditions that hold.                           *)
evaluate_policy(policy, operation, environment, mutating, facts) ==
  LET selected == _select_rules(policy, operation, environment)
                    \cup _implicit_default_rules(policy, operation, environment, mutating)
      outcomes == {RuleOutcome(rule, facts) : rule \in selected}
  IN  CASE "blocked" \in outcomes -> "blocked"
        [] "warn" \in outcomes /\ "blocked" \notin outcomes -> "warn"
        [] OTHER -> "ok"

(* policy_check_entry never raises: what cannot be evaluated is refused.   *)
policy_check_entry(files, operation, environment, mutating, facts) ==
  LET policy == load_policy(files)
  IN  /\ policy # NoPolicy
      /\ validate_policy(policy)
      /\ evaluate_policy(policy, operation, environment, mutating, facts) # "blocked"

=============================================================================
