---------------------------- MODULE MCDocuments ----------------------------
(* The documents the host reads: manifests of both versions, which differ  *)
(* from a sound one in one place or two and are listed by what they vary,  *)
(* and the receipts of earlier operations.  The readers share no state;    *)
(* subject selects the one a behaviour is about, and the others stay as    *)
(* they are at first.                                                      *)
EXTENDS HostManifests, RevisionBundle, ReceiptIndex

VARIABLE subject

vars == <<subject, manifestVars, revisionVars, receiptVars>>

MCPaths == [p \in {"/", "/a", "/a/", "/a/b", "/c", "/health"} |->
    CASE p = "/" -> <<"">> [] p = "/a" -> <<"a">> [] p = "/a/" -> <<"a", "">>
      [] p = "/a/b" -> <<"a", "b">> [] p = "/c" -> <<"c">> [] OTHER -> <<"health">>]
MCDomains == [d \in {"x.io", "X.io", "y.io"} |-> IF d = "y.io" THEN d ELSE "x.io"]
MCUrls == [u \in {"http://l/a", "http://r/", "https://u@r/"} |->
    [http |-> u # "https://u@r/", loopback |-> u = "http://l/a", plain |-> u # "https://u@r/",
     path |-> IF u = "http://l/a" THEN "/a" ELSE "/"]]
MCLabels == [i \in Identifiers |->
    CASE i = "a-web" -> <<"a", "web">> [] i = "web-web" -> <<"web", "web">> [] OTHER -> <<i>>]

MCAskKeys == [u \in DOMAIN MCUrls |-> IF u = "http://r/" THEN {"TOKEN"} ELSE {}]

-----------------------------------------------------------------------------
Route(f) == Map([domain |-> Str("x.io")] @@ f)
To(s) == [service |-> Str(s)]
At(k, p) == (k :> Str(p))
One(k, v) == Map(k :> v)

Base(kind, f) == f @@ [version |-> Num(1), app |-> Str("a"), kind |-> Str(kind),
                       routes |-> List(<<Route(NoKeys)>>)]

Web == [port |-> Num(80)]
Single == Base("service", [image |-> Str("i"), services |-> Map([web |-> Map(Web)]),
                           routes |-> List(<<Route(To("web"))>>)])
Pair == Base("multi-service",
             [image |-> Str("i"), services |-> Map([web |-> Map(Web), api |-> Map([port |-> Num(81)])]),
              routes |-> List(<<Route(To("web"))>>)])
Static == Base("static", [static_root |-> Str("dist")])
Tunnel == Base("tunnel", [tunnel_target |-> Str("h:1")])
Redirect == Base("redirect", [redirect_to |-> Str("t")])

\* Every value a scalar may wrongly or rightly have.
Scalars == {Null, Str("s"), Str(""), Str("web"), Str("/a"), Str("http://l/a"), Str("https://u@r/"),
            Num(0), Num(308), Num(-1), Bool(TRUE), List(<<>>), List(<<Str("f")>>), Map(NoKeys), <<"date">>}

SectionKeys ==
    [addons |-> {"postgres", "redis"}, resources |-> {"memory"},
     edge |-> {"on_demand_tls", "tls", "catch_all"},
     verify_policy |-> {"attempts", "interval", "timeout", "failure_mode"},
     console |-> {"surface", "admin_domain", "console_asset_path"}, pack |-> {"portability", "owner"},
     host_requirements |-> {"arch", "requires_docker"}, networking |-> {"edge", "internal"},
     data |-> {"postgres", "volumes", "object_storage", "backups", "other"},
     hooks |-> {"freeze", "other"}, observability |-> {"health", "metrics", "logs", "other"},
     lifecycle |-> {"live", "other"}]

\* A section with one field of it set.
SectionTweaks == UNION {{<<s, One(k, v)>> : k \in SectionKeys[s], v \in Scalars} : s \in DOMAIN SectionKeys}

TopTweaks == {<<k, v>> : k \in {"version", "app", "kind", "environment", "profile", "image", "env", "env_files",
    "required_env", "routes", "services", "verify", "static_root", "tunnel_target", "redirect_status",
    "depends_on", "verify_before_next"} \cup DOMAIN SectionKeys, v \in Scalars}

Nested(s, k, fields) == {<<s, One(k, One(f, v))>> : f \in fields, v \in Scalars}
InList(s, k, sound, fields) == {<<s, One(k, List(<<Map((f :> v) @@ sound)>>))>> : f \in fields, v \in Scalars}

DeepTweaks == <<
    Nested("data", "postgres", {"mode", "class", "import", "durable", "service", "other"}),
    Nested("data", "backups", {"required", "offsite", "other"}),
    Nested("observability", "health", {"url", "expect_status"}),
    Nested("observability", "metrics", {"url", "format"}),
    Nested("observability", "logs", {"containers", "retain_days"}),
    Nested("edge", "on_demand_tls", {"ask"}) \cup Nested("edge", "tls", {"mode", "cert_file"}),
    {<<"data", One("backups", One("offsite", One(f, v)))>> :
            f \in {"target", "retention_days", "other"}, v \in Scalars},
    InList("data", "volumes", [name |-> Str("v"), mount |-> Str("/a")],
                {"name", "mount", "source", "service", "class", "import", "other"}),
    {<<"data", One("volumes", List(<<Map([name |-> Str("v"), mount |-> Str("/a"), service |-> Str("web")]),
            Map([name |-> Str(n), mount |-> Str("/c"), service |-> Str("api")])>>))>> : n \in {"v", "web"}},
    {<<"edge", One("tls", Map([mode |-> Str(mode), cert_file |-> Str("c"), key_file |-> Str("k")]))>> :
            mode \in {"auto", "internal", "custom"}}>>

Checks == {One("url", Str("http://r/")), Map([type |-> Str("internal"), service |-> Str("web"),
             url |-> Str("http://l/a")]), Map([command |-> Str("c"), service |-> Str("app")]),
           Map([path |-> Str("/a"), service |-> Str("web")])}
CheckTweaks == {<<"verify", List(<<Map((f :> v) @@ c[2])>>)>> : c \in Checks, v \in Scalars,
    f \in {"type", "url", "path", "service", "command", "expect_exit", "expect_status", "expect_json",
           "json_assertions", "method"}}

ServiceTweaks == {<<"services", Map([web |-> Map((f :> v) @@ Web)])>> : v \in Scalars,
    f \in {"port", "host_port", "image", "command", "env", "env_files", "mounts", "healthcheck"}}
    \cup {<<"services", Map([web |-> Map([mounts |-> List(<<Map((f :> v) @@ [source |-> Str("f"), target |-> Str("/a")])>>)]
            @@ Web)])>> : f \in {"source", "target", "read_only", "bind"}, v \in Scalars}
    \cup {<<"services", Map([web |-> Map([healthcheck |-> One(f, v)] @@ Web)])>> :
            f \in {"path", "interval", "retries", "command"}, v \in Scalars}

RoutePool == {Route(To("web")), Route(To("api")), Route(To("web") @@ At("path", "/a")),
    Route(To("api") @@ At("path_prefix", "/a")), Route(To("web") @@ At("path_prefix", "/a/b")),
    Route(At("upstream", "h:1") @@ At("path", "/a/b")), Route(At("domain", "X.io") @@ To("web") @@ At("path_prefix", "/c")),
    Route(To("web") @@ At("strip_prefix", "/")), Route(To("none"))}
RouteTweaks == {<<"routes", List(s)>> : s \in UNION {[1 .. n -> RoutePool] : n \in 1 .. 3}}

ConsoleTweaks == {[profile |-> Str("console"), console |-> One("admin_domain", Str(d))] : d \in {"x.io", "y.io"}}
NetworkTweaks == {[addons |-> One("redis", Bool(b)), networking |-> One("internal", Str(n))] :
                    b \in BOOLEAN, n \in {"shared", "per-app"}}
CatchTweaks == {[edge |-> Map([on_demand_tls |-> One("ask", Str("http://r/")), catch_all |-> Map(c)])] :
    c \in {To("web"), To("none"), At("upstream", "h"), At("upstream", "h") @@ To("web"),
           To("web") @@ ("http_redirect_status" :> Num(300))}}

Tweak(base, t) == Map((t[1] :> t[2]) @@ base)

Variants == <<
    {Tweak(b, t) : b \in {Single, Static, Tunnel, Redirect}, t \in TopTweaks},
    {Tweak(Single, t) : t \in SectionTweaks}, {Tweak(Single, t) : t \in CheckTweaks},
    {Tweak(Single, t) : t \in ServiceTweaks},
    {Map(("env" :> One("PORT", Num(1))) @@ Single)},
    {Tweak(Pair, t) : t \in RouteTweaks},
    {Tweak(Tunnel, t) : t \in {r \in RouteTweaks : Len(r[2][2]) = 1}},
    {Map(f @@ b) : b \in {Single, Pair, Tunnel}, f \in ConsoleTweaks \cup NetworkTweaks \cup CatchTweaks}>>
    \o [k \in DOMAIN DeepTweaks |-> {Tweak(b, t) : b \in {Single, Pair}, t \in DeepTweaks[k]}]

\* Hosts of two apps.
Neighbour(app, service, port, domain) ==
    Map(Base("service", [app |-> Str(app), image |-> Str("i"),
        services |-> Map(service :> Map([host_port |-> Num(port)] @@ Web)),
        routes |-> List(<<Map([domain |-> Str(domain), service |-> Str(service)])>>)]))
Neighbours == {Neighbour(a, s, p, d) : a \in {"a", "a-web"}, s \in {"web", "web-web"}, p \in {1, 2}, d \in {"x.io", "y.io"}}
Catching(ask) == Map(("edge" :> Map([on_demand_tls |-> One("ask", Str(ask)), catch_all |-> Map(At("upstream", "h"))]))
                     @@ Neighbour("web", "web", 3, "y.io")[2])

MCDocuments == [k \in DOMAIN Variants |-> {<<v, Null>> : v \in Variants[k]}] \o <<
    Neighbours \X Neighbours,
    {<<Catching("http://r/"), Map(f @@ Single)>> : f \in CatchTweaks},
    {<<Catching("http://l/a"), Map(("edge" :> One("on_demand_tls", One("ask", Str("http://r/")))) @@ Single)>>}>>

-----------------------------------------------------------------------------
(* Manifest version 2.                                                     *)

MCIdentifiers == {"a", "web", "api", "a-web", "web-web", "v", "app", "none", "img", "site", "job", "tick", "m",
    "static", "route-1", "route-2", "route-3", "app-image", "api-image", "web-image", "migration-m", "migration-web"}
MCMigrationNames == [n \in MCIdentifiers |-> CASE n = "m" -> "migration-m" [] n = "web" -> "migration-web" [] OTHER -> "too-long"]
MCImageNames == [n \in MCIdentifiers |-> CASE n = "app" -> "app-image" [] n = "api" -> "api-image" [] OTHER -> "web-image"]
MCNameOrder == <<"api", "app", "static", "web">>
MCPinned == ("i@d" :> <<"sha256", "d">>) @@ ("j@e" :> <<"sha256", "e">>)
MCTrees == [t \in {"dist", "dist/sub", "caddy", "linked"} |-> IF t = "linked" THEN Raised ELSE <<"tree", t>>]
MCTreeParts == [t \in DOMAIN MCTrees |-> IF t = "dist/sub" THEN <<"dist", "sub">> ELSE <<t>>]
MCRefs == [r \in {"ref:k", "ref:pool", "ref:auth", "ref:lines", "ref:unsafe", "ref:odd"} |->
    IF r = "ref:odd" THEN Raised
    ELSE <<"a", IF r = "ref:unsafe" THEN "production" ELSE "staging",
           CASE r = "ref:k" -> "K" [] r = "ref:pool" -> "POOL" [] r = "ref:auth" -> "AUTH" [] OTHER -> "LINES">>]
Secret2(v) == <<"value", v>>
MCFacts == [v \in {Secret2(w) : w \in {"short", "word", "lines", "pem", "pem64"}} |->
    [lines |-> v[2] \in {"lines", "pem"}, long |-> v[2] \in {"word", "pem", "pem64"}, pem |-> v[2] = "pem",
     decoded |-> IF v[2] = "pem64" THEN Secret2("pem") ELSE Raised]]
MCProviders == (<<"a", "staging">> :>
        <<<<"absent">>, <<"file", [K |-> Secret2("short"), POOL |-> Secret2("pem64")]>>,
          <<"file", [K |-> Secret2("lines"), AUTH |-> Secret2("word"), LINES |-> Secret2("lines")]>>>>)
    @@ (<<"a", "production">> :> <<Raised, <<"file", [LINES |-> Secret2("word")]>>, <<"absent">>>>)
MCLetters == [p \in DOMAIN MCPaths |->
    CASE p = "/" -> <<"/">> [] p = "/a" -> <<"/", "a">> [] p = "/a/" -> <<"/", "a", "/">>
      [] p = "/a/b" -> <<"/", "a", "/", "b">> [] p = "/c" -> <<"/", "c">> [] OTHER -> <<"/", "h">>]
MCInstants == ("2026Z" :> TRUE) @@ ("2026" :> FALSE)
MCDollars == ("$s" :> "$$s")
MCVolumes == ("v" :> "v") @@ ("w" :> "w")
MCQuantities == ("256Mi" :> <<256, 1024, 2>>) @@ ("1G" :> <<1, 1000, 3>>)
MCSupport == ("f" :> "f") @@ ("d/f" :> "f")

Web2 == [kind |-> Str("web"), artifact |-> Str("img"), port |-> Num(80)]
Task2(kind, f) == Map(f @@ [kind |-> Str(kind), artifact |-> Str("img")])
To2(w, p, f) == Map(f @@ [domain |-> Str("x.io"), target |-> Map([workload |-> Str(w), port |-> Num(p)])])
Named2(routes) == List([i \in DOMAIN routes |-> Map(("name" :> Str(<<"route-1", "route-2", "route-3">>[i])) @@ routes[i][2])])
Base2(f) == Map(f @@
    [version |-> Num(2), app |-> Str("a"), environment |-> Str("staging"),
     artifacts |-> One("img", One("image", Str("i@d"))), workloads |-> One("web", Map(Web2)),
     routes |-> Named2(<<To2("web", 80, NoKeys)>>)])
OneWeb(f) == Base2("workloads" :> One("web", Map(f @@ Web2)))

Scalars2 == Scalars \cup {Str("f"), Str("$s"), List(<<Str("s"), Str("s")>>), List(<<Str("$s")>>), List(<<Str("data")>>),
    List(<<Num(1)>>), One("data", List(<<Str("v")>>)), One("api", Num(81)), One("api", Num(80)), One("K", Str("$s")), Num(70000)}
InMap(k, sound, fields) == {OneWeb(k :> Map((f :> v) @@ sound)) : f \in fields, v \in Scalars2}
InItems(k, sound, fields) == {OneWeb(k :> List(<<Map((f :> v) @@ sound)>>)) : f \in fields, v \in Scalars2}

WorkloadDocuments == <<
    {OneWeb(f :> v) : f \in WorkloadKeys \cup {"other"}, v \in Scalars2},
    InMap("readiness", [command |-> List(<<Str("c")>>)], {"http", "command", "interval_seconds", "timeout_seconds"}),
    {OneWeb("liveness" :> Map([http |-> Map((f :> v) @@ [path |-> Str("/a"), port |-> Num(80)])])) :
            f \in {"path", "port", "method", "expect_status"}, v \in Scalars2},
    InMap("resources", NoKeys, {"memory", "cpu", "pids"}) \cup InMap("update", NoKeys, {"overlap"}),
    InItems("mounts", [source |-> Str("v"), target |-> Str("/a")], {"source", "target", "read_only"}),
    InItems("file_mounts", [source |-> Str("d/f"), target |-> Str("/a")], {"source", "target"}),
    InItems("devices", [source |-> Str("/dev/x")], {"source", "target", "permissions"}),
    {OneWeb("security" :> Map([privileged |-> Bool(p), run_as_user |-> u, no_new_privileges |-> Bool(n),
              seccomp_profile |-> Str(q), apparmor_profile |-> Str("unconfined")])) :
            p, n \in BOOLEAN, u \in {Null, Num(0), Num(9)}, q \in {"unconfined", "runtime_default"}},
    {OneWeb("security" :> Map([add_capabilities |-> List(c), drop_capabilities |-> List(d)])) :
            c, d \in {<<>>, <<Str("ALL")>>, <<Str("NET")>>, <<Str("NET"), Str("ALL")>>, <<Str("?")>>}},
    {OneWeb([networks |-> List(<<Str("app"), Str("data")>>), network_aliases |-> One("data", List(<<Str("v")>>)),
                  mounts |-> List(<<Map([source |-> Str("v"), target |-> Str("/a")])>>),
                  file_mounts |-> List(<<Map([source |-> Str("f"), target |-> Str(t)])>>)]) : t \in {"/a", "/c"}}>>

\* One workload of each kind, alone and with the fields that belong to others.
KindDocuments ==
    {Base2([workloads |-> Map([web |-> Map(Web2), job |-> Task2(kind, f)])]) :
        kind \in WorkloadKinds \cup {"other"},
        f \in {NoKeys, [port |-> Num(81)], [schedule |-> Str("* * * * *")], [schedule |-> Str("bad")],
               [schedule |-> Str("* * * * *"), concurrency_policy |-> Str("replace")],
               [replicas |-> Num(2)], [update |-> One("overlap", Str("allow"))],
               [networks |-> List(<<Str("edge")>>)]}}

\* A web, a static and a worker workload with a migration, of the same image.
Whole(f) == Base2(f @@
    [artifacts |-> Map([img |-> One("image", Str("i@d")), site |-> One("static_root", Str("dist"))]),
     workloads |-> Map([web |-> Map(Web2 @@ [env_files |-> List(<<Str("f"), Str("d/f")>>)]), job |-> Task2("worker", NoKeys),
                        static |-> Map([kind |-> Str("static"), artifact |-> Str("site")])]),
     migrations |-> One("m", One("workload", Task2("migration", [env_files |-> List(<<Str("f")>>)]))),
     routes |-> Named2(<<To2("web", 80, NoKeys), Map([domain |-> Str("y.io"), target |-> One("workload", Str("static"))])>>)])

SecretItems == {Map(f @@ [name |-> Str("K"), ref |-> Str(r)]) : r \in DOMAIN MCRefs \cup {"plain"},
    f \in {NoKeys, [workloads |-> List(<<Str("web")>>)], [workloads |-> List(<<Str("migration-m")>>)],
           [workloads |-> List(<<Str("other")>>)], [mode |-> Str("file"), target |-> Str("/a")], [mode |-> Str("file")],
           [mode |-> Str("file"), target |-> Str("/a"), encoding |-> Str("base64")], [encoding |-> Str("base64")]}}

UpdateItems == {Map([strategy |-> Str(s)] @@ f) : s \in {"recreate", "blue_green", "static_atomic", "other"},
                    f \in {NoKeys, [drain_seconds |-> Num(0)], [drain_seconds |-> Num(3601)], [auto_rollback |-> Num(1)]}}

WholeDocuments == <<
    {Whole(k :> v) : k \in {"version", "app", "environment", "artifacts", "workloads", "migrations", "routes", "update",
                            "secrets", "release", "other"}, v \in Scalars2 \cup {Str("production"), Str("dev")}},
    {Whole("secrets" :> List(<<s>>)) : s \in SecretItems},
    {Whole("secrets" :> List(<<s, Map([name |-> Str("PORT"), ref |-> Str("ref:auth")])>>)) : s \in SecretItems},
    {Whole("update" :> u) : u \in UpdateItems},
    {Whole("artifacts" :> Map([img |-> Map(i), site |-> Map(r)])) :
            i \in {[image |-> Str("i@d")], [image |-> Str("loose")], NoKeys, [image |-> Str("j@e"), static_root |-> Str("dist")]},
            r \in {[static_root |-> Str(d)] : d \in DOMAIN MCTrees \cup {"outside"}}},
    {Whole([update |-> One("strategy", Str(s)), migrations |-> One(n, Map(f @@ [workload |-> Task2(k, NoKeys)]))]) :
            s \in {"recreate", "blue_green"}, n \in {"m", "web", "v"}, k \in {"migration", "task"},
            f \in {NoKeys, [compatibility |-> Str("irreversible")], [backup_required |-> Bool(FALSE)],
                   [compatibility |-> Str("irreversible"), backup_required |-> Bool(FALSE)], [timeout_seconds |-> Num(0)]}},
    {Whole([workloads |-> Map([web |-> Map(Web2), static |-> Map([kind |-> Str("static"), artifact |-> Str("site")] @@ f)])]) :
            f \in {[networks |-> List(<<Str("data")>>)], [port |-> Num(81)], [replicas |-> Num(2)], [env |-> One("K", Str("s"))]}},
    {Whole("release" :> Map([id |-> i, commit_sha |-> c, build_time |-> t])) : i \in {Null, Str("v"), Str("?")},
            c \in {Null, Str("c0ffee"), Str("?")}, t \in {Null, Str("2026Z"), <<"time", "2026Z">>, Str("2026"), Str("?")}}>>

Auth2(f) == [client_auth |-> Map(f @@ [trust_pool_ref |-> Str("ref:pool"), trust_pool_encoding |-> Str("base64")])]
RoutePool2 == {To2("web", 80, NoKeys), To2("web", 80, At("path_prefix", "/a")), To2("web", 81, At("path_prefix", "/a/b")),
    To2("web", 81, At("path_prefix", "/") @@ At("domain", "X.io")), To2("web", 82, NoKeys), To2("none", 80, NoKeys),
    To2("web", 80, [tls |-> One("mode", Str("internal"))] @@ At("path_prefix", "/c")),
    To2("web", 80, Auth2(NoKeys)), To2("web", 81, Auth2([forward |-> One("authorization_ref", Str("ref:auth"))]) @@ At("path_prefix", "/a")),
    To2("web", 80, Auth2([mode |-> Str("verify_if_given")]) @@ At("path_prefix", "/c")),
    To2("web", 80, Auth2([trust_pool_encoding |-> Str("plain")])), To2("web", 80, Auth2([forward |-> One("authorization_ref", Str("ref:k"))])),
    To2("web", 80, [tls |-> One("mode", Str("internal"))] @@ Auth2(NoKeys))}
RouteDocuments == {Base2([workloads |-> One("web", Map([endpoints |-> One("api", Num(81))] @@ Web2)), routes |-> Named2(s)]) :
                    s \in UNION {[1 .. n -> RoutePool2] : n \in 1 .. 3}}

V1Services == {Map([api |-> Map([port |-> Num(81)] @@ f), app |-> Map([port |-> Num(80)] @@ g)]) :
                f, g \in {NoKeys, [image |-> Str("j@e")]}}
MigratedDocuments == <<
    {Map([services |-> s, routes |-> List(r), required_env |-> List(e)] @@ Base(k, [image |-> Str("i@d")])) :
        s \in V1Services \cup {Null, Map([web |-> Map(Web)])}, k \in {"service", "multi-service", "tunnel"}, e \in {<<>>, <<Str("K")>>},
        r \in {<<Route(To("app"))>>, <<Route(NoKeys)>>, <<Route(To("web")), Route(To("web") @@ At("path_prefix", "/a"))>>,
               <<Route(To("app")), Route(To("api") @@ At("path", "/a"))>>}},
    {Map(Static), Map(("static_root" :> Str("linked")) @@ Static)}>>

MCDeclared == WorkloadDocuments \o WholeDocuments \o MigratedDocuments \o <<KindDocuments, RouteDocuments>>

(* Receipts.                                                               *)
Id(n) == <<"r", n>>
Payload == [kind |-> "", receipt_id |-> <<>>, operation_id |-> <<>>, backup_id |-> <<>>, verify_id |-> <<>>,
    operation |-> "", status |-> "", outcome |-> "", app |-> "", environment |-> "", product_id |-> "",
    started |-> 0, completed |-> 0, created |-> 0, nested |-> <<>>, digest |-> <<>>, inputs_redacted |-> TRUE]
Terminal(n, app, operation, at) ==
    [Payload EXCEPT !.kind = "ophelia.kernel.terminal_receipt", !.receipt_id = Id(n), !.operation_id = <<"op", n>>,
        !.operation = operation, !.outcome = "succeeded", !.app = app, !.environment = "staging", !.started = at, !.completed = at]
Wrapper(t) ==
    [Payload EXCEPT !.kind = "ophelia.product-operation-receipt", !.status = t.outcome, !.operation = t.operation,
        !.product_id = t.app, !.nested = <<t>>, !.digest = <<t>>]
T1 == Terminal("1", "a", "deploy.apply", 2)
T2 == Terminal("2", "b", "rollback.apply", 3)
Stray == [Payload EXCEPT !.receipt_id = Id("1"), !.operation = "deploy.apply", !.status = "failed", !.app = "a", !.created = 4]
Backup == [Payload EXCEPT !.backup_id = <<"k">>, !.created = 1, !.verify_id = <<"v">>]
Place(within, name, app, environment, stem, dotted) ==
    [within |-> within, name |-> name, app |-> app, environment |-> environment, stem |-> stem, dotted |-> dotted]
MCPlaces == <<Place({"apps", "x.json"}, "x.json", "a", "", <<"x">>, "x"),
              Place({"backups"}, "backup-manifest.json", "a", "", <<"k">>, "backup.manifest"),
              Place({"receipts", "product"}, "r1.json", "", "", <<"r", "1">>, "r1")>>
MCDrafts == <<{Stray, Wrapper(T1)}, {Backup}, {Wrapper(T1)}>>
MCForeign == {Wrapper([T1 EXCEPT !.app = "b"])}
Query(ref, f) == f @@ [ref |-> ref, app |-> "", environment |-> "", operation |-> "", status |-> "", allowed |-> <<>>]
MCQueries ==
    {Query(ref, <<>>) : ref \in {<<"">>, <<"latest">>, <<"latest:", "">>, <<"latest:", "a">>, <<"latest:", "rollback.apply">>, <<"id", Id("1")>>,
        <<"id", <<"r">>>>, <<"sqlite:", Id("1")>>, <<"path", 1>>}}
    \cup {Query(<<"latest:app:", "a">>, [app |-> "b"]), Query(<<"latest">>, [status |-> "succeeded", environment |-> "staging"]),
          Query(<<"id", <<"r">>>>, [operation |-> "deploy.apply"]), Query(<<"path", 3>>, [app |-> "b"]),
          Query(<<"id", Id("1")>>, [allowed |-> <<{"rollback.apply"}>>])}
MCLinks == {{}} \cup {{l} : l \in {"apps", "product", "database"}}
MCTerminals == {T1, T2}
MCIdOrder == <<<<"k">>, <<"r", "1">>, <<"r", "2">>, <<"v">>, <<"x">>>>

-----------------------------------------------------------------------------
Init ==
    /\ subject \in {"manifests", "revision", "receipts"}
    /\ IF subject = "manifests" THEN ManifestInit ELSE documents = <<Null, Null>> /\ Unloaded
    /\ IF subject = "revision" THEN RevisionInit ELSE declared = Null /\ Unparsed
    /\ ReceiptInit /\ (subject # "receipts" => linked = {})

Next ==
    \/ subject = "manifests" /\ ManifestNext /\ UNCHANGED <<subject, revisionVars, receiptVars>>
    \/ subject = "revision" /\ RevisionNext /\ UNCHANGED <<subject, manifestVars, receiptVars>>
    \/ subject = "receipts" /\ ReceiptNext /\ UNCHANGED <<subject, manifestVars, revisionVars>>

Spec == Init /\ [][Next]_vars
=============================================================================
