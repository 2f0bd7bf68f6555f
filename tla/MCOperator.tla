----------------------------- MODULE MCOperator -----------------------------
(* What an operator's tooling does: it plans and runs workflow graphs,     *)
(* starts jobs of the action API, writes below a managed root and switches *)
(* the traffic of an app.  These share no state; subject selects the one a *)
(* behaviour is about, and the others stay as they are at first.           *)
EXTENDS Workflows, ActionJobs, ManagedRoot, TrafficSwitch, TLC

CONSTANTS p1, p2, c1, c2, t1, t2, k1, m1, m2

VARIABLE subject

\* The processes of a graph are interchangeable, and so are the callers.
Symmetry == Permutations({p1, p2}) \cup Permutations({c1, c2})

vars == <<subject, workflowVars, jobVars, rootVars, trafficVars>>

(* The repository's policy, with the defaults it ships, and no policy.     *)
Shipped == [version |-> TRUE, rules |-> {},
            defaults |-> {"production_requires_plan", "production_requires_confirmation",
                          "require_json_receipts"}]
MCPolicyFiles == {[runtime |-> NoPolicy, repository |-> Shipped],
                  [runtime |-> NoPolicy, repository |-> NoPolicy]}

(* Calls on a managed root.                                                *)
Call(op, path, mode, source) == [op |-> op, path |-> path, mode |-> mode, source |-> source]
MCCalls ==
    {Call(op, <<"d", "f">>, {"r", "w"} \cup (IF op = "mkdir" THEN {"x"} ELSE {}), "regular") :
        op \in {"mkdir", "write_bytes", "replace_bytes", "copy_in"}}
    \cup {Call("write_bytes", <<"f">>, {"r"}, "regular"), Call("write_bytes", <<"..", "f">>, {"r"}, "regular"),
          Call("mkdir", <<"d", "f">>, {"r", "x"}, "regular"), Call("copy_in", <<"d", "f">>, {"r", "x"}, "regular"),
          Call("copy_in", <<"d", "f">>, {"r"}, "link")}

-----------------------------------------------------------------------------
Command(dns, caddy, health) ==
  [dns |-> dns, caddy |-> caddy, execute |-> TRUE, health |-> health,
   origin |-> "new", wellFormed |-> TRUE]

MCCommands == {Command("file", "file", "run"), Command("cloudflare", "manual", "run"),
               Command("file", "manual", "url")}

Config(create) ==
  [valid |-> TRUE, dnsAllowed |-> TRUE, apiToken |-> TRUE, caddyAllowed |-> TRUE,
   create |-> create, reload |-> TRUE, reloadAllowed |-> TRUE]

MCConfigs == {Config(TRUE), Config(FALSE)}

(* One rule of the shipped policy: no switch without a passed health check.*)
MCTrafficPolicy ==
  [runtime |-> NoPolicy,
   repository |->
     [version |-> TRUE,
      defaults |-> {"production_requires_plan", "production_requires_confirmation",
                    "require_json_receipts"},
      rules |-> {[id |-> "traffic-health", operation |-> "app.traffic.apply",
                  environment |-> "production", severity |-> "blocker",
                  require |-> [target_health_check |-> TRUE, rollback_available |-> TRUE]]}]]

(* One domain is served for the first time, the other one moves.           *)
MCStanding == {[d \in Domains |-> IF d = "a" THEN Absent ELSE "old"]}

(* Two routes, of two domains or of one (by path).                         *)
TwoRoutes == {<<"a", "b">>, <<"b", "b">>}

-----------------------------------------------------------------------------
Init ==
    /\ subject \in {"workflow", "jobs", "root", "traffic"}
    /\ WorkflowInit
    /\ JobsInit /\ (subject # "jobs" => target = t1)
    /\ RootInit /\ (subject # "root" => live["D"]["f"] = "old")
    /\ TrafficInit /\ config = Config(TRUE) /\ site = Absent /\ manifest = <<"a", "b">>

Next ==
    \/ /\ subject = "workflow" /\ WorkflowNext
       /\ UNCHANGED <<subject, jobVars, rootVars, trafficVars>>
    \/ /\ subject = "jobs" /\ JobsNext
       /\ UNCHANGED <<subject, workflowVars, rootVars, trafficVars>>
    \/ /\ subject = "root" /\ RootNext
       /\ UNCHANGED <<subject, workflowVars, jobVars, trafficVars>>
    \/ /\ subject = "traffic" /\ TrafficNext
       /\ UNCHANGED <<subject, workflowVars, jobVars, rootVars>>

Spec == Init /\ [][Next]_vars

TrafficOnly == Init /\ subject = "traffic" /\ [][Next]_vars
=============================================================================
