---------------------------- MODULE TrafficSwitch ----------------------------
(***************************************************************************)
(* Moving an app's traffic to another host, and back (portability.py: ship *)
(* app traffic plan, apply, rollback).  A plan issues a confirmation token *)
(* derived from its inputs; apply plans again, compares the token, and     *)
(* lets the configured providers change the DNS records (a record file, or *)
(* Cloudflare, one request per route) and the Caddy site file.  The        *)
(* receipt of an apply holds what a later rollback restores.  Nothing      *)
(* excludes two ship processes from one another.                           *)
(***************************************************************************)
EXTENDS Integers, Sequences, FiniteSets, Functions, Policy

CONSTANTS
  Movers,         \* ship processes
  Domains,
  Origins,        \* hosts a domain may point at
  Standing,       \* the records before the first command
  Manifests,      \* the routes of the manifest, as sequences of domains
  Commands,       \* arguments of the traffic commands
  Configs,        \* provider configs, NoConfig included
  Environment, TrafficPolicy,
  MaxApplies, MaxRollbacks,
  MaxEdits,       \* bound on the edits of the operator and the kills
  Absent, NoConfig, NoMutation

(* The policy has the rule of the shipped one: in production nothing is    *)
(* switched without a health check that passed.                            *)
ASSUME HealthIsRequired ==
  \A facts \in SUBSET CONDITION_EVALUATORS :
    policy_check_entry(TrafficPolicy, "app.traffic.apply", "production", TRUE, facts) =>
      "target_health_check" \in facts

ASSUME RoutesInOrder == Manifests \subseteq Seq(Domains)

VARIABLES
  records,        \* the DNS records, in the record file or at Cloudflare
  site,           \* the Caddy site file of the app
  serving,        \* the site as Caddy loaded it
  manifest,       \* the routes declared now
  config,         \* the provider config now
  issued,         \* the plan that was shown last, with its token
  mover,          \* each ship process
  receipts,       \* the receipts of the applies, in order
  rollbacks,      \* the receipts of the rollbacks
  edits

trafficVars == <<records, site, serving, manifest, config, issued, mover, receipts,
                 rollbacks, edits>>

IdleMover == [at |-> "idle"]
Active == Cardinality({n \in Movers : mover[n].at # "idle"})
Moves(m, next) == mover' = [mover EXCEPT ![m] = next]

-----------------------------------------------------------------------------
(* The plan.  A command carries the providers, whether they are to act,    *)
(* whether a health URL is given and to be fetched, and whether the other  *)
(* arguments (origin, TTL, timeout) are well formed.                       *)
_target_origin_issue(cmd) == ~cmd.wellFormed

_traffic_target_health_plan(cmd, healthy) ==
  [configured |-> cmd.health # "none",
   executed   |-> cmd.health = "run",
   ok         |-> cmd.health = "run" /\ healthy,
   blocked    |-> cmd.health = "run" /\ ~healthy]

_traffic_target_health_present(health) == health.configured /\ health.executed /\ health.ok

_plan_file_dns_provider(cfg)       == cfg.dnsAllowed
_plan_cloudflare_dns_provider(cfg) == cfg.dnsAllowed /\ cfg.apiToken
_plan_file_caddy_provider(cfg)     == cfg.caddyAllowed /\ (cfg.reload => cfg.reloadAllowed)

(* What keeps the providers from acting.  A config that cannot be read is  *)
(* refused even where no provider is to act.                               *)
_traffic_provider_execution_plan(cmd, cfg) ==
  /\ cfg # NoConfig => cfg.valid
  /\ cmd.execute =>
       /\ cfg # NoConfig
       /\ cmd.dns # "manual" \/ cmd.caddy # "manual"
       /\ cmd.dns = "file" => _plan_file_dns_provider(cfg)
       /\ cmd.dns = "cloudflare" => _plan_cloudflare_dns_provider(cfg)
       /\ cmd.caddy = "file" => _plan_file_caddy_provider(cfg)

(* Faulty variant: the token says which config file is used, and not what  *)
(* it contains.                                                            *)
TokenOfPath(cmd, cfg) == <<"app.traffic.apply", cmd, cfg # NoConfig>>

TrafficToken(cmd, cfg) == <<"app.traffic.apply", cmd, cfg>>

(* traffic_plan without its blockers: ready is the readiness report, and   *)
(* the policy binds in production only.                                    *)
traffic_plan_clean(cmd, ready, healthy) ==
  LET health == _traffic_target_health_plan(cmd, healthy)
      clean  == /\ ready /\ ~_target_origin_issue(cmd) /\ ~health.blocked
                /\ _traffic_provider_execution_plan(cmd, config)
                /\ manifest # <<>>
      facts  == {"rollback_available", "confirmation_required", "plan_exists", "json_receipts"}
                  \cup (IF _traffic_target_health_present(health)
                        THEN {"target_health_check"} ELSE {})
                  \cup (IF clean THEN {"readiness_clean"} ELSE {})
  IN  /\ clean
      /\ Environment = "production" =>
           policy_check_entry(TrafficPolicy, "app.traffic.apply", Environment, TRUE, facts)

(* A clean plan shows the operator its changes and their token.            *)
traffic_plan(cmd, ready, healthy) ==
  /\ traffic_plan_clean(cmd, ready, healthy)
  /\ issued' = {[token |-> TrafficToken(cmd, config), command |-> cmd,
                 config |-> config, domains |-> Range(manifest)]}
  /\ UNCHANGED <<records, site, serving, manifest, config, mover, receipts, rollbacks, edits>>

-----------------------------------------------------------------------------
(* traffic_apply plans again, and goes on only without a blocker and with  *)
(* the token of this very plan.  A blocked apply stores nothing.           *)
traffic_apply(m, cmd, plan, ready, healthy) ==
  /\ mover[m].at = "idle"
  /\ Len(receipts) + Active < MaxApplies
  /\ traffic_plan_clean(cmd, ready, healthy)
  /\ plan.token = TrafficToken(cmd, config)
  /\ Moves(m, [at |-> CASE ~cmd.execute -> "receipt"
                        [] cmd.execute /\ cmd.dns = "file" -> "read"
                        [] cmd.execute /\ cmd.dns = "cloudflare" -> "request"
                        [] OTHER -> "caddy",
               command |-> cmd, config |-> config, plan |-> plan, healthy |-> healthy,
               routes |-> manifest, seen |-> records, changes |-> <<>>,
               dns |-> NoMutation, caddy |-> NoMutation, before |-> <<>>])
  /\ UNCHANGED <<records, site, serving, manifest, config, issued, receipts, rollbacks, edits>>

AfterDns(cmd) == IF cmd.caddy = "file" THEN "caddy" ELSE "receipt"

DnsMutation(provider, status, changes, located) ==
  [provider |-> provider, status |-> status, changes |-> changes, located |-> located]

(* _apply_file_dns_provider: the record file is read, ...                  *)
ReadRecordFile(m) ==
  /\ mover[m].at = "read"
  /\ Moves(m, [mover[m] EXCEPT !.at = "write", !.seen = records, !.before = records])
  /\ UNCHANGED <<records, site, serving, manifest, config, issued, receipts, rollbacks, edits>>

(* ... one change is made per route, on top of the ones before it, ...     *)
RouteChanges(routes, seen, origin) ==
  [k \in DOMAIN routes |->
     [domain |-> routes[k], next |-> origin,
      previous |-> IF \E j \in 1..(k - 1) : routes[j] = routes[k] THEN origin
                   ELSE seen[routes[k]]]]

(* ... and the whole file is replaced, or none of it on an error.          *)
_apply_file_dns_provider(m) ==
  LET cmd == mover[m].command IN
  /\ mover[m].at = "write"
  /\ \/ /\ records' = [d \in Domains |-> IF d \in Range(mover[m].routes) THEN cmd.origin
                                         ELSE mover[m].seen[d]]
        /\ Moves(m, [mover[m] EXCEPT !.at = AfterDns(cmd),
             !.dns = DnsMutation("file", "succeeded",
                       RouteChanges(mover[m].routes, mover[m].seen, cmd.origin), TRUE)])
     \/ /\ Moves(m, [mover[m] EXCEPT !.at = AfterDns(cmd),
                        !.dns = DnsMutation("file", "failed", <<>>, TRUE)])
        /\ UNCHANGED records
  /\ UNCHANGED <<site, serving, manifest, config, issued, receipts, rollbacks, edits>>

(* _apply_cloudflare_dns_provider, one route: the record is found and      *)
(* patched, or created if that is allowed.                                 *)
_cloudflare_request(m) ==
  LET cmd == mover[m].command
      d   == mover[m].routes[Len(mover[m].changes) + 1]
      changed == Append(mover[m].changes,
                        [domain |-> d, next |-> cmd.origin, previous |-> records[d]])
      finished == Len(changed) = Len(mover[m].routes)
  IN
  /\ mover[m].at = "request"
  /\ records[d] # Absent \/ mover[m].config.create
  /\ records' = [records EXCEPT ![d] = cmd.origin]
  /\ Moves(m, [mover[m] EXCEPT
       !.at = IF finished THEN AfterDns(cmd) ELSE "request",
       !.before = [e \in DOMAIN @ \cup {d} |-> IF e \in DOMAIN @ THEN @[e] ELSE records[e]],
       !.changes = changed,
       !.dns = IF finished THEN DnsMutation("cloudflare", "succeeded", changed, TRUE) ELSE @])
  /\ UNCHANGED <<site, serving, manifest, config, issued, receipts, rollbacks, edits>>

(* It stops at the first route that fails: several records match, a record *)
(* may not be created, the API answers an error, or no answer comes, and   *)
(* then the change may have been made.  The result of a failure says what  *)
(* was changed before and not in which zone.                               *)
CloudflareFails(m) ==
  LET cmd == mover[m].command
      d   == mover[m].routes[Len(mover[m].changes) + 1]
  IN
  /\ mover[m].at = "request"
  /\ records' \in {records, [records EXCEPT ![d] = cmd.origin]}
  /\ Moves(m, [mover[m] EXCEPT
       !.at = AfterDns(cmd),
       !.dns = DnsMutation("cloudflare", "failed", mover[m].changes, FALSE)])
  /\ UNCHANGED <<site, serving, manifest, config, issued, receipts, rollbacks, edits>>

(* _apply_file_caddy_provider: a present site file is copied aside, then   *)
(* it is replaced, validated and loaded as the config asks.  An OSError on *)
(* the way is reported without what was done up to it.                     *)
CaddyMutation(status, previous, written) ==
  [status |-> status, previous |-> previous, written |-> written]

_apply_file_caddy_provider(m) ==
  LET cmd == mover[m].command
      done(mutation) == Moves(m, [mover[m] EXCEPT !.at = "receipt", !.caddy = mutation])
  IN
  /\ mover[m].at = "caddy"
  /\ \/ /\ site' = cmd.origin                         \* written, and loaded if asked for
        /\ serving' = IF mover[m].config.reload THEN cmd.origin ELSE serving
        /\ done(CaddyMutation("succeeded", site, TRUE))
     \/ /\ mover[m].config.reload                     \* written, and not loaded
        /\ site' = cmd.origin
        /\ done(CaddyMutation("failed", site, TRUE))
        /\ UNCHANGED serving
     \/ /\ site' \in {site, cmd.origin}               \* OSError
        /\ done(CaddyMutation("failed", Absent, FALSE))
        /\ UNCHANGED serving
  /\ UNCHANGED <<records, manifest, config, issued, receipts, rollbacks, edits>>

(* The receipt.  A mutation was performed if a provider succeeded, wrote a *)
(* file or lists changes.                                                  *)
provider_mutation_performed(dns, caddy) ==
  \/ dns # NoMutation /\ (dns.status = "succeeded" \/ dns.changes # <<>>)
  \/ caddy # NoMutation /\ (caddy.status = "succeeded" \/ caddy.written)

StoreTrafficReceipt(m) ==
  LET dns == mover[m].dns  caddy == mover[m].caddy IN
  /\ mover[m].at = "receipt"
  /\ receipts' = Append(receipts,
       [dns |-> dns, caddy |-> caddy, before |-> mover[m].before,
        performed |-> provider_mutation_performed(dns, caddy),
        status |-> IF \A x \in {dns, caddy} \ {NoMutation} : x.status = "succeeded"
                   THEN "succeeded" ELSE "failed"])
  /\ Moves(m, IdleMover)
  /\ UNCHANGED <<records, site, serving, manifest, config, issued, rollbacks, edits>>

-----------------------------------------------------------------------------
(* The rollback of a receipt.  What the apply created is only removed with *)
(* an explicit approval; each action is [domain, restore], with Absent for *)
(* a removal.                                                              *)
_dns_file_rollback_change(dns, approved) ==
  \A k \in DOMAIN dns.changes : dns.changes[k].previous = Absent => approved

_cloudflare_dns_rollback_change(dns, approved, apiToken) ==
  /\ dns.located /\ apiToken
  /\ \A k \in DOMAIN dns.changes : dns.changes[k].previous = Absent => approved

_caddy_file_rollback_change(caddy, approved) == caddy.previous = Absent => approved

_traffic_rollback_changes(receipt, approved, apiToken) ==
  /\ receipt.dns # NoMutation =>
       IF receipt.dns.provider = "file"
       THEN _dns_file_rollback_change(receipt.dns, approved)
       ELSE _cloudflare_dns_rollback_change(receipt.dns, approved, apiToken)
  /\ receipt.caddy # NoMutation => _caddy_file_rollback_change(receipt.caddy, approved)

(* The restores of a receipt, in the order in which they are made.         *)
Restores(receipt) ==
  IF receipt.dns = NoMutation THEN <<>>
  ELSE [k \in DOMAIN receipt.dns.changes |->
          [domain |-> receipt.dns.changes[k].domain, restore |-> receipt.dns.changes[k].previous]]

traffic_rollback_apply(m, r, approved, apiToken) ==
  /\ mover[m].at = "idle"
  /\ receipts[r].performed
  /\ _traffic_rollback_changes(receipts[r], approved, apiToken)
  /\ Len(rollbacks) + Active < MaxRollbacks
  /\ Moves(m, [at |-> CASE receipts[r].dns = NoMutation -> "undo caddy"
                        [] receipts[r].dns # NoMutation /\ receipts[r].dns.provider = "file" -> "undo read"
                        [] OTHER -> "undo request",
               receipt |-> r, seen |-> records, left |-> Restores(receipts[r]),
               wrote |-> <<>>, failed |-> FALSE])
  /\ UNCHANGED <<records, site, serving, manifest, config, issued, receipts, rollbacks, edits>>

AfterUndo(r) == IF receipts[r].caddy # NoMutation THEN "undo caddy" ELSE "undo receipt"

UndoReadRecordFile(m) ==
  /\ mover[m].at = "undo read"
  /\ Moves(m, [mover[m] EXCEPT !.at = "undo write", !.seen = records])
  /\ UNCHANGED <<records, site, serving, manifest, config, issued, receipts, rollbacks, edits>>

(* The value a sequence of restores leaves in a domain: the last one's.    *)
LastRestore(left, d) ==
  LET mine == {k \in DOMAIN left : left[k].domain = d}
  IN  left[CHOOSE k \in mine : \A j \in mine : j <= k].restore

(* Faulty variant: the first restore of a domain is the one that stays.    *)
UndoFirstFile(m) ==
  LET left == mover[m].left IN
  /\ mover[m].at = "undo write"
  /\ \E next \in {[d \in Domains |-> IF \E k \in DOMAIN left : left[k].domain = d
                                     THEN left[1].restore ELSE mover[m].seen[d]]} :
       /\ records' = next
       /\ Moves(m, [mover[m] EXCEPT !.at = AfterUndo(mover[m].receipt),
                      !.wrote = [d \in {left[k].domain : k \in DOMAIN left} |-> next[d]]])
  /\ UNCHANGED <<site, serving, manifest, config, issued, receipts, rollbacks, edits>>

_rollback_file_dns_provider(m) ==
  LET left == mover[m].left
      touched == {left[k].domain : k \in DOMAIN left}
  IN
  /\ mover[m].at = "undo write"
  /\ \/ /\ records' = [d \in Domains |-> IF d \in touched THEN LastRestore(left, d)
                                         ELSE mover[m].seen[d]]
        /\ Moves(m, [mover[m] EXCEPT !.at = AfterUndo(mover[m].receipt),
                       !.wrote = [d \in touched |-> LastRestore(left, d)]])
     \/ /\ Moves(m, [mover[m] EXCEPT !.at = AfterUndo(mover[m].receipt), !.failed = TRUE])
        /\ UNCHANGED records
  /\ UNCHANGED <<site, serving, manifest, config, issued, receipts, rollbacks, edits>>

(* Cloudflare: one request per restore.  A record that the apply created   *)
(* is left alone and reported as skipped; a failure ends the restores.     *)
_rollback_cloudflare_dns_provider(m) ==
  LET left == mover[m].left
      on   == AfterUndo(mover[m].receipt)
  IN
  /\ mover[m].at = "undo request"
  /\ \/ /\ left = <<>>
        /\ Moves(m, [mover[m] EXCEPT !.at = on])
        /\ UNCHANGED records
     \/ /\ left # <<>> /\ Head(left).restore = Absent
        /\ Moves(m, [mover[m] EXCEPT !.left = Tail(left)])
        /\ UNCHANGED records
     \/ /\ left # <<>> /\ Head(left).restore # Absent
        /\ records' = [records EXCEPT ![Head(left).domain] = Head(left).restore]
        /\ Moves(m, [mover[m] EXCEPT !.left = Tail(left),
             !.wrote = [e \in DOMAIN @ \cup {Head(left).domain} |->
                          IF e = Head(left).domain THEN Head(left).restore ELSE @[e]]])
     \/ /\ left # <<>> /\ Head(left).restore # Absent
        /\ records' \in {records, [records EXCEPT ![Head(left).domain] = Head(left).restore]}
        /\ Moves(m, [mover[m] EXCEPT !.at = on, !.failed = TRUE])
  /\ UNCHANGED <<site, serving, manifest, config, issued, receipts, rollbacks, edits>>

(* The site file is restored from its copy or removed; Caddy is not told.  *)
_rollback_file_caddy_provider(m) ==
  /\ mover[m].at = "undo caddy"
  /\ \/ /\ site' = receipts[mover[m].receipt].caddy.previous
        /\ Moves(m, [mover[m] EXCEPT !.at = "undo receipt"])
     \/ /\ Moves(m, [mover[m] EXCEPT !.at = "undo receipt", !.failed = TRUE])
        /\ UNCHANGED site
  /\ UNCHANGED <<records, serving, manifest, config, issued, receipts, rollbacks, edits>>

StoreRollbackReceipt(m) ==
  /\ mover[m].at = "undo receipt"
  /\ rollbacks' = Append(rollbacks,
       [receipt |-> mover[m].receipt, wrote |-> mover[m].wrote,
        status |-> IF mover[m].failed THEN "failed" ELSE "succeeded"])
  /\ Moves(m, IdleMover)
  /\ UNCHANGED <<records, site, serving, manifest, config, issued, receipts, edits>>

-----------------------------------------------------------------------------
(* A ship process is killed; the operator edits the manifest or the config.*)
KillMover(m) ==
  /\ mover[m].at # "idle"
  /\ edits < MaxEdits
  /\ edits' = edits + 1
  /\ Moves(m, IdleMover)
  /\ UNCHANGED <<records, site, serving, manifest, config, issued, receipts, rollbacks>>

OperatorEdits ==
  /\ edits < MaxEdits
  /\ edits' = edits + 1
  /\ \/ manifest' \in Manifests /\ UNCHANGED config
     \/ config' \in Configs /\ UNCHANGED manifest
  /\ UNCHANGED <<records, site, serving, issued, mover, receipts, rollbacks>>

TrafficInit ==
  /\ records \in Standing
  /\ site \in {Absent, CHOOSE o \in Origins : TRUE}
  /\ serving = site
  /\ manifest \in Manifests
  /\ config \in Configs
  /\ issued = {}
  /\ mover = [m \in Movers |-> IdleMover]
  /\ receipts = <<>> /\ rollbacks = <<>> /\ edits = 0

TrafficNext ==
  \/ \E cmd \in Commands, ready \in BOOLEAN, healthy \in BOOLEAN : traffic_plan(cmd, ready, healthy)
  \/ \E m \in Movers :
       \/ \E cmd \in Commands, plan \in issued, ready \in BOOLEAN, healthy \in BOOLEAN :
            traffic_apply(m, cmd, plan, ready, healthy)
       \/ ReadRecordFile(m) \/ _apply_file_dns_provider(m)
       \/ _cloudflare_request(m) \/ CloudflareFails(m)
       \/ _apply_file_caddy_provider(m) \/ StoreTrafficReceipt(m)
       \/ \E r \in DOMAIN receipts, approved \in BOOLEAN, apiToken \in BOOLEAN :
            traffic_rollback_apply(m, r, approved, apiToken)
       \/ UndoReadRecordFile(m) \/ _rollback_file_dns_provider(m)
       \/ _rollback_cloudflare_dns_provider(m) \/ _rollback_file_caddy_provider(m)
       \/ StoreRollbackReceipt(m) \/ KillMover(m)
  \/ OperatorEdits

-----------------------------------------------------------------------------
(* The restores of a receipt are made in the order of the routes, so that  *)
(* a domain with several routes ends with the value the apply itself gave. *)
RoutedOnce(receipt, d) ==
  \A j, k \in DOMAIN Restores(receipt) :
    Restores(receipt)[j].domain = d /\ Restores(receipt)[k].domain = d => j = k

(* A rollback that reports success has given every record it wrote the     *)
(* value that the apply it undoes had found there, where the domain has    *)
(* one route (traffic_rollback_apply, after traffic_apply).                *)
RollbackRestores ==
  \A k \in DOMAIN rollbacks :
    rollbacks[k].status = "succeeded" =>
      \A d \in DOMAIN rollbacks[k].wrote :
        RoutedOnce(receipts[rollbacks[k].receipt], d) =>
          rollbacks[k].wrote[d] = receipts[rollbacks[k].receipt].before[d]

(* What the documentation says of every record: a rollback restores the    *)
(* record that was there before the apply (portable-app-pack-spec.md, on   *)
(* traffic_rollback_apply).                                                *)
RollbackRestoresAll ==
  \A k \in DOMAIN rollbacks :
    rollbacks[k].status = "succeeded" =>
      \A d \in DOMAIN rollbacks[k].wrote :
        rollbacks[k].wrote[d] = receipts[rollbacks[k].receipt].before[d]

(* In production the providers act only on a plan whose health check was   *)
(* fetched and passed, and under the config and the arguments that were    *)
(* planned when the token was issued, whatever was edited in between.      *)
ConfirmedAsPlanned ==
  \A m \in Movers :
    mover[m].at \in {"read", "write", "request", "caddy"} =>
      /\ mover[m].command = mover[m].plan.command
      /\ mover[m].config = mover[m].plan.config
      /\ Environment = "production" => mover[m].command.health = "run" /\ mover[m].healthy

=============================================================================
