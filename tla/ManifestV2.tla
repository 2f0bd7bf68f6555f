----------------------------- MODULE ManifestV2 -----------------------------
(***************************************************************************)
(* Manifest version 2 (manifest_v2.py, domain/revisions.py): a strict      *)
(* document becomes a manifest and a revision, and the lock written from   *)
(* it is a document again.  Values are those of module Manifest.  A tuple  *)
(* the code sorts by name is a mapping from the names, or <<"sorted", S>>. *)
(***************************************************************************)
EXTENDS Manifest, SequencesExt

CONSTANTS
    PinnedImages,   \* [digest-pinned image reference -> its digest]
    Trees,          \* [static root inside the source root -> its tree, or Raised]
    SecretRefs,     \* [opaque reference -> <<app, environment, key>>, or Raised]
    Headers,        \* HTTP header names
    Crons,          \* five-field expressions that select something
    Instants,       \* [RFC 3339 text -> whether it has a zone]
    Commits,        \* hashes of commits
    Quantities,     \* [memory text -> <<amount, base, power>>]
    Cpus,           \* CPU values of at most 128
    Volumes,        \* [managed volume name -> its normal form in Docker]
    SupportFiles,   \* [safe relative file path -> its last component]
    DevicePaths,    \* bounded paths beneath /dev
    Capabilities,   \* names of capabilities, ALL among them
    MigrationNames, \* [name -> the name with "migration-" before it]
    ImageNames,     \* [name -> the name with "-image" after it]
    NameOrder,      \* the identifiers in the order sorted() gives them
    MaxUser         \* 4,294,967,294 in the code

-----------------------------------------------------------------------------
(* Scalars and shapes.                                                     *)

_shape(raw, allowed) == raw[1] = "map" /\ DOMAIN raw[2] \subseteq allowed

\* The member of a singleton.
The(single) == CHOOSE v \in single : TRUE

\* A section with known keys only, whose fields all parse and obey Rule.
Strict(raw, allowed, f, Rule(_)) ==
    The({IF _shape(raw, allowed) /\ Raised \notin Range(g) /\ Rule(g) THEN Obj(g) ELSE Raised : g \in {f}})

_mapping(v, Item(_, _)) ==
    IF v[1] # "map" THEN Raised
    ELSE The({IF Raised \in Range(items) THEN Raised ELSE Map(items) :
                items \in {[k \in DOMAIN v[2] |-> Item(k, v[2][k])]}})

_list(v, Item(_)) == IF v[1] = "list" THEN ListOf(v, Item) ELSE Raised

_identifier(v) == _identifier_value(v)

_environment(v) == IF v = Null THEN Raised ELSE _optional_environment(v)

WorkloadKinds == {"web", "internal", "worker", "cron", "task", "migration", "static"}

_text(v) == IF v[1] = "str" /\ v[2] # "" THEN v ELSE Raised

_workload_kind(v) == IF _text(v) # Raised /\ v[2] \in WorkloadKinds THEN v ELSE Raised

_optional_text(v) == IF v = Null THEN Null ELSE _text(v)

\* _optional_text(v) or the default, among the allowed words.
Word(v, default, allowed) ==
    LET t == Or(_optional_text(v), Str(default)) IN IF t # Raised /\ t[2] \in allowed THEN t ELSE Raised

_text_tuple(v) ==
    LET t == _list(v, _text) IN IF t # Raised /\ IsInjective(t[2]) THEN t ELSE Raised

_command(v) == _text_tuple(v)

Sorted(v) == IF v = Raised THEN Raised ELSE <<"sorted", {t[2] : t \in Range(v[2])}>>

_env(v) == _mapping(v, LAMBDA k, item : IF k \in EnvNames THEN _text(item) ELSE Raised)

_boolean(v) == IF v[1] = "bool" THEN v ELSE Raised

_positive_int(v, maximum) == IF v[1] = "int" /\ v[2] >= 1 /\ v[2] <= maximum THEN v ELSE Raised

_nonnegative_int(v, maximum) == IF v[1] = "int" /\ v[2] >= 0 /\ v[2] <= maximum THEN v ELSE Raised

_positive_number(v) == _positive_int(v, 86400)

_port(v) == _positive_int(v, 65535)

_optional_port(v) == IF v = Null THEN Null ELSE _port(v)

SecretRef(v) == IF _text(v) # Raised /\ v[2] \in DOMAIN SecretRefs THEN v ELSE Raised

\* An absolute path without braces, line ends or parent components.
AbsolutePath(v) == IF _text(v) # Raised /\ v[2] \in DOMAIN Paths THEN v ELSE Raised

\* A cron workload needs a schedule that parses; no other has one.
_validate_cron(v, kind) ==
    IF kind # Str("cron") THEN IF v = Null THEN Null ELSE Raised
    ELSE IF _text(v) # Raised /\ v[2] \in Crons THEN v ELSE Raised

-----------------------------------------------------------------------------
(* Artifacts.                                                              *)

\* Only a real directory of files and directories has a digest.
_tree_digest(root) == IF root \in DOMAIN Trees THEN Trees[root] ELSE Raised

_artifact(name, raw, environment) ==
    LET image == _optional_text(Get(raw, "image"))
        root == _optional_text(Get(raw, "static_root"))
        pinned == image[2] \in DOMAIN PinnedImages
        digest == IF image = Null THEN _tree_digest(root[2])
                  ELSE IF pinned THEN PinnedImages[image[2]] ELSE <<"digest", image>>
    IN  IF \/ name \notin Identifiers \/ ~_shape(raw, {"image", "static_root"})
           \/ Raised \in {image, root} \/ (image = Null) = (root = Null)
        THEN Raised
        ELSE IF (image # Null /\ environment = Str("production") /\ ~pinned) \/ digest = Raised
        THEN Raised
        ELSE Obj([image |-> image, static_root |-> root, digest |-> digest])

-----------------------------------------------------------------------------
(* Workloads.                                                              *)

HttpProbe(raw) ==
    IF raw = Null THEN Null
    ELSE Strict(raw, {"path", "port", "method", "expect_status"},
            [path |-> AbsolutePath(Get(raw, "path")), port |-> _port(Get(raw, "port")),
             method |-> Word(Get(raw, "method"), "GET", {"GET", "HEAD"}),
             expect_status |-> _positive_int(GetOr(raw, "expect_status", Num(200)), 599)],
            LAMBDA p : p.expect_status[2] >= 100)

_probe(raw) ==
    IF raw = Null THEN Null
    ELSE Strict(raw, {"http", "command", "interval_seconds", "timeout_seconds"},
            [http |-> HttpProbe(Get(raw, "http")), command |-> _command(GetOr(raw, "command", List(<<>>))),
             interval_seconds |-> _positive_number(GetOr(raw, "interval_seconds", Num(2))),
             timeout_seconds |-> _positive_number(GetOr(raw, "timeout_seconds", Num(60)))],
            LAMBDA p : (p.http = Null) # (p.command = List(<<>>)))

_resources(raw) ==
    Strict(Or(raw, Map(NoKeys)), {"memory", "cpu", "pids"},
        [memory |-> Word(Get(raw, "memory"), "256Mi", DOMAIN Quantities), cpu |-> Word(Get(raw, "cpu"), "1.0", Cpus),
         pids |-> _positive_int(GetOr(raw, "pids", Num(256)), 65536)],
        LAMBDA r : TRUE)

\* What a privileged workload must say explicitly, and what may not be both
\* added and dropped.
SecurityRule(s) ==
    /\ s.drop_capabilities[2] # {} /\ s.drop_capabilities[2] \cup s.add_capabilities[2] \subseteq Capabilities
    /\ "ALL" \notin s.add_capabilities[2]
    /\ s.add_capabilities[2] \cap (s.drop_capabilities[2] \ {"ALL"}) = {}
    /\ s.run_as_non_root[2] => s.run_as_user # Num(0)
    /\ s.privileged[2] =>
         /\ s.run_as_non_root[2] /\ s.run_as_user # Null /\ ~s.no_new_privileges[2]
         /\ s.seccomp_profile = Str("unconfined") /\ s.apparmor_profile = Str("unconfined")

_security(raw) ==
    LET Flag(k, default) == _boolean(GetOr(raw, k, Bool(default)))
        Profile(k) == Word(Get(raw, k), "runtime_default", {"runtime_default", "unconfined"})
        Names(k, default) == Sorted(_text_tuple(GetOr(raw, k, List(default))))
        user == Get(raw, "run_as_user")
    IN  Strict(Or(raw, Map(NoKeys)),
            {"run_as_non_root", "run_as_user", "read_only_root", "no_new_privileges", "privileged",
             "seccomp_profile", "apparmor_profile", "add_capabilities", "drop_capabilities"},
            [run_as_non_root |-> Flag("run_as_non_root", TRUE), privileged |-> Flag("privileged", FALSE),
             run_as_user |-> IF user = Null THEN Null ELSE _nonnegative_int(user, MaxUser),
             read_only_root |-> Flag("read_only_root", TRUE),
             no_new_privileges |-> Flag("no_new_privileges", TRUE),
             seccomp_profile |-> Profile("seccomp_profile"), apparmor_profile |-> Profile("apparmor_profile"),
             add_capabilities |-> Names("add_capabilities", <<>>),
             drop_capabilities |-> Names("drop_capabilities", <<Str("ALL")>>)],
            SecurityRule)

_workload_update(raw) ==
    Strict(Or(raw, Map(NoKeys)), {"overlap"},
        [overlap |-> Word(Get(raw, "overlap"), "forbid", {"forbid", "allow"})], LAMBDA u : TRUE)

_mount(raw) ==
    Strict(raw, {"source", "target", "read_only"},
        [source |-> _text(Get(raw, "source")), target |-> AbsolutePath(Get(raw, "target")),
         read_only |-> _boolean(GetOr(raw, "read_only", Bool(TRUE)))],
        LAMBDA m : m.source[2] \in DOMAIN Volumes)

_file_mount(raw) ==
    Strict(raw, {"source", "target"},
        [source |-> _text(Get(raw, "source")), target |-> AbsolutePath(Get(raw, "target"))],
        LAMBDA m : m.source[2] \in DOMAIN SupportFiles)

_device(raw) ==
    LET source == _text(Get(raw, "source"))
    IN  Strict(raw, {"source", "target", "permissions"},
            [source |-> source, target |-> Or(_optional_text(Get(raw, "target")), source),
             permissions |-> Word(Get(raw, "permissions"), "rwm", {"r", "w", "m", "rw", "rm", "wm", "rwm"})],
            LAMBDA d : {d.source[2], d.target[2]} \subseteq DevicePaths)

\* Stable aliases live on the shared data network, which the workload joins.
_network_aliases(raw, networks) ==
    LET aliases == _list(_text_tuple(GetOr(raw, "data", List(<<>>))), _identifier)
    IN  IF ~_shape(raw, {"data"}) \/ Raised \in {aliases, networks} THEN Raised
        ELSE IF aliases[2] = <<>> THEN Map(NoKeys)
        ELSE IF Str("data") \notin Range(networks[2]) THEN Raised ELSE Map("data" :> aliases)

WorkloadKeys ==
    {"kind", "artifact", "entrypoint", "command", "port", "endpoints", "replicas", "schedule",
     "concurrency_policy", "env", "env_files", "mounts", "file_mounts", "devices", "networks",
     "network_aliases", "startup", "readiness", "liveness", "resources", "security",
     "shutdown_grace_seconds", "update"}

\* What each kind of workload may and must declare.
WorkloadRule(w, raw, artifacts) ==
    LET kind == w.kind[2]
        ports == w.endpoints[2]
        targets == [i \in DOMAIN w.mounts[2] |-> w.mounts[2][i][2].target]
                   \o [i \in DOMAIN w.file_mounts[2] |-> w.file_mounts[2][i][2].target]
    IN  /\ kind # "migration" /\ w.artifact[2] \in artifacts
        /\ IsInjective(ports) /\ w.port \notin Range(ports)
        /\ kind # "web" => ports = NoKeys /\ Str("edge") \notin Range(w.networks[2])
        /\ kind \in {"web", "internal"} => w.port # Null
        /\ kind \in {"cron", "task", "worker"} => w.port = Null
        /\ kind \in {"cron", "task"} => w.replicas = Num(1)
        /\ kind # "cron" => "concurrency_policy" \notin DOMAIN raw[2]
        /\ IsInjective(targets)
        /\ Range(w.networks[2]) \subseteq {Str("app"), Str("edge"), Str("data")}
        /\ w.update[2].overlap = Str("allow") => kind \in {"web", "worker"}

_workload(name, raw, artifacts) ==
    LET Listed(k, Item(_)) == _list(GetOr(raw, k, List(<<>>)), Item)
        Texts(k) == _text_tuple(GetOr(raw, k, List(<<>>)))
        networks == _text_tuple(GetOr(raw, "networks", List(<<Str("app")>>)))
        none == Map(NoKeys)
    IN  IF name \notin Identifiers THEN Raised
        ELSE Strict(raw, WorkloadKeys,
            [kind |-> _workload_kind(Get(raw, "kind")), artifact |-> _identifier(Get(raw, "artifact")),
             entrypoint |-> Texts("entrypoint"), command |-> Texts("command"),
             port |-> _optional_port(Get(raw, "port")),
             endpoints |-> _mapping(GetOr(raw, "endpoints", none),
                               LAMBDA k, v : IF k \in Identifiers THEN _port(v) ELSE Raised),
             replicas |-> _positive_int(GetOr(raw, "replicas", Num(1)), 64),
             schedule |-> _validate_cron(Get(raw, "schedule"), Get(raw, "kind")),
             concurrency_policy |-> Word(Get(raw, "concurrency_policy"), "forbid", {"forbid", "replace", "allow"}),
             env |-> _env(GetOr(raw, "env", none)), env_files |-> Texts("env_files"),
             mounts |-> Listed("mounts", _mount), file_mounts |-> Listed("file_mounts", _file_mount),
             devices |-> Listed("devices", _device), networks |-> networks,
             network_aliases |-> _network_aliases(GetOr(raw, "network_aliases", none), networks),
             startup |-> _probe(Get(raw, "startup")), readiness |-> _probe(Get(raw, "readiness")),
             liveness |-> _probe(Get(raw, "liveness")), resources |-> _resources(Get(raw, "resources")),
             security |-> _security(Get(raw, "security")),
             shutdown_grace_seconds |-> _nonnegative_int(GetOr(raw, "shutdown_grace_seconds", Num(30)), 3600),
             update |-> _workload_update(Get(raw, "update")), route_ids |-> <<"sorted", {}>>],
            LAMBDA w : WorkloadRule(w, raw, artifacts))

\* A migration is read as a task and then called what it is.
_migration(name, raw, artifacts) ==
    LET declared == Get(raw, "workload")
        compatibility == Word(Get(raw, "compatibility"), "backward_compatible", {"backward_compatible", "irreversible"})
        irreversible == compatibility = Str("irreversible")
        Of(task) ==
            Strict(raw, {"workload", "compatibility", "timeout_seconds", "backup_required"},
                [workload |-> Obj([task EXCEPT !.kind = Str("migration")]), compatibility |-> compatibility,
                 timeout_seconds |-> _positive_int(GetOr(raw, "timeout_seconds", Num(300)), 86400),
                 backup_required |-> _boolean(GetOr(raw, "backup_required", Bool(irreversible)))],
                LAMBDA m : irreversible => m.backup_required[2])
    IN  IF Get(declared, "kind") # Str("migration") THEN Raised
        ELSE The({IF task = Raised THEN Raised ELSE Of(task[2]) : task \in
                    {_workload(name, w, artifacts) : w \in {Map([declared[2] EXCEPT !["kind"] = Str("task")])}}})

-----------------------------------------------------------------------------
(* Routes.                                                                 *)

_route_tls(raw) ==
    Strict(Or(raw, Map(NoKeys)), {"mode"}, [mode |-> Word(Get(raw, "mode"), "auto", {"auto", "internal"})],
           LAMBDA t : TRUE)

ClientAuthForward(raw) ==
    IF raw = Null THEN Null
    ELSE Strict(raw, {"authorization_ref", "authorization_header", "authorization_scheme", "fingerprint_header"},
            [authorization_ref |-> SecretRef(Get(raw, "authorization_ref")),
             authorization_header |-> Word(Get(raw, "authorization_header"), "X-Ophelia-Proxy-Authorization", Headers),
             authorization_scheme |-> Word(Get(raw, "authorization_scheme"), "Bearer", {"Bearer"}),
             fingerprint_header |-> Word(Get(raw, "fingerprint_header"), "X-Ophelia-Client-Certificate-Sha256", Headers)],
            LAMBDA f : TRUE)

_route_client_auth(raw) ==
    IF raw = Null THEN Null
    ELSE Strict(raw, {"trust_pool_ref", "trust_pool_encoding", "mode", "forward"},
            [trust_pool_ref |-> SecretRef(Get(raw, "trust_pool_ref")),
             trust_pool_encoding |-> Word(Get(raw, "trust_pool_encoding"), "plain", {"plain", "base64"}),
             mode |-> Word(Get(raw, "mode"), "require_and_verify", {"verify_if_given", "require_and_verify"}),
             forward |-> ClientAuthForward(Get(raw, "forward"))],
            LAMBDA a : TRUE)

RouteTarget(raw) ==
    Strict(raw, {"workload", "port"},
        [workload |-> _identifier(Get(raw, "workload")), port |-> _optional_port(Get(raw, "port"))], LAMBDA t : TRUE)

_route(raw, workloads) ==
    LET prefix == Get(raw, "path_prefix")
    IN  Strict(raw, {"name", "domain", "target", "path_prefix", "tls", "client_auth"},
            [name |-> _identifier(Get(raw, "name")), domain |-> _domain_value(Get(raw, "domain")),
             target |-> RouteTarget(Get(raw, "target")),
             path_prefix |-> IF prefix = Null THEN Null ELSE AbsolutePath(prefix),
             tls |-> _route_tls(Get(raw, "tls")), client_auth |-> _route_client_auth(Get(raw, "client_auth"))],
            LAMBDA r : /\ r.target[2].workload[2] \in workloads
                       /\ r.client_auth # Null => r.tls[2].mode = Str("auto"))

\* What the routes of one site must have in common.
_route_site_security(r) ==
    <<r.tls, IF r.client_auth = Null THEN Null
             ELSE LET a == r.client_auth[2] IN <<a.mode, a.trust_pool_ref, a.trust_pool_encoding>>>>

-----------------------------------------------------------------------------
(* The document.                                                           *)

_update(raw, kinds) ==
    IF raw = Null
    THEN Obj([strategy |-> Str(IF kinds = {"static"} THEN "static_atomic"
                               ELSE IF "web" \in kinds THEN "blue_green" ELSE "recreate"),
              auto_rollback |-> Bool(TRUE), drain_seconds |-> Num(30)])
    ELSE Strict(raw, {"strategy", "auto_rollback", "drain_seconds"},
            [strategy |-> _text(Get(raw, "strategy")),
             auto_rollback |-> _boolean(GetOr(raw, "auto_rollback", Bool(TRUE))),
             drain_seconds |-> _nonnegative_int(GetOr(raw, "drain_seconds", Num(30)), 3600)],
            LAMBDA u : /\ u.strategy[2] \in {"recreate", "blue_green", "static_atomic"}
                       /\ u.strategy = Str("blue_green") => "web" \in kinds
                       /\ u.strategy = Str("static_atomic") => kinds = {"static"})

\* YAML reads an unquoted timestamp as a datetime, written back as its text.
_release(raw) ==
    LET at == Get(raw, "build_time")
        text == IF at[1] = "time" THEN Str(at[2]) ELSE _optional_text(at)
        id == _optional_text(Get(raw, "id"))
        commit == _optional_text(Get(raw, "commit_sha"))
    IN  Strict(Or(raw, Map(NoKeys)), {"id", "commit_sha", "build_time"},
            [id |-> id, commit_sha |-> commit, build_time |-> text],
            LAMBDA r : /\ id # Null => id[2] \in Identifiers
                       /\ commit # Null => commit[2] \in Commits
                       /\ text # Null => text[2] \in DOMAIN Instants /\ Instants[text[2]])

_secret(raw, workloads) ==
    Strict(raw, {"name", "ref", "workloads", "mode", "target", "encoding"},
        [name |-> _text(Get(raw, "name")), ref |-> SecretRef(Get(raw, "ref")),
         workloads |-> Sorted(_text_tuple(GetOr(raw, "workloads", List(<<>>)))),
         mode |-> Word(Get(raw, "mode"), "env", {"env", "file"}),
         target |-> _optional_text(Get(raw, "target")),
         encoding |-> Word(Get(raw, "encoding"), "plain", {"plain", "base64"})],
        LAMBDA s : /\ s.name[2] \in EnvNames /\ s.workloads[2] \subseteq workloads
                   /\ s.mode = Str("env") => s.target = Null /\ s.encoding = Str("plain")
                   /\ s.mode = Str("file") => AbsolutePath(s.target) # Raised)

Fields(list) == [i \in DOMAIN list[2] |-> list[2][i][2]]
KindsOf(workloads) == {w[2].kind[2] : w \in Range(workloads[2])}

\* Two routes of a site differ in their prefix and agree on its security.
SitesAgree(routes) ==
    \A i, j \in DOMAIN routes : i < j /\ routes[i].domain = routes[j].domain =>
        /\ routes[i].path_prefix # routes[j].path_prefix
        /\ _route_site_security(routes[i]) = _route_site_security(routes[j])

\* A route leads to a web workload's port, or to a static workload.
TargetAccepts(route, w) ==
    \/ /\ w.kind = Str("web")
       /\ route.target[2].port # Null /\ route.target[2].port \in {w.port} \cup Range(w.endpoints[2])
    \/ w.kind = Str("static") /\ route.target[2].port = Null /\ route.client_auth = Null

\* A static workload is a tree and nothing else; every other is an image.
ArtifactFits(w, artifact) ==
    IF w.kind = Str("static")
    THEN /\ artifact.static_root # Null
         /\ {w.command, w.entrypoint, w.env_files, w.mounts, w.file_mounts} = {List(<<>>)}
         /\ {w.port, w.startup, w.readiness, w.liveness} = {Null}
         /\ w.replicas = Num(1) /\ w.env = Map(NoKeys)
    ELSE artifact.image # Null

\* Stable aliases never overlap: one holder, and no second revision beside it.
AliasesAreStable(workloads, update) ==
    LET Aliases(n) == {a : a \in UNION {Range(l[2]) : l \in Range(workloads[n][2].network_aliases[2])}}
    IN  /\ \A n, o \in DOMAIN workloads : n # o => Aliases(n) \cap Aliases(o) = {}
        /\ update.strategy # Str("recreate") => \A n \in DOMAIN workloads : Aliases(n) = {}

ManifestRule(m) ==
    LET routes == Fields(m.routes)
        secrets == Fields(m.secrets)
        Workload(n) == m.workloads[2][n][2]
        Artifact(n) == m.artifacts[2][n][2]
        tasks == {t[2] : t \in Range(m.migrations[2])}
    IN  /\ IsInjective([i \in DOMAIN routes |-> routes[i].name])
        /\ SitesAgree(routes)
        /\ \A r \in Range(routes) : TargetAccepts(r, Workload(r.target[2].workload[2]))
        /\ \A n \in DOMAIN m.workloads[2] : ArtifactFits(Workload(n), Artifact(Workload(n).artifact[2]))
        /\ \A t \in tasks : Artifact(t.workload[2].artifact[2]).image # Null
        /\ AliasesAreStable(m.workloads[2], m.update[2])
        /\ m.update[2].strategy = Str("blue_green") =>
             \A t \in tasks : t.compatibility = Str("backward_compatible")
        /\ IsInjective([i \in DOMAIN secrets |-> secrets[i].name])
        /\ DOMAIN m.artifacts[2] = {Workload(n).artifact[2] : n \in DOMAIN m.workloads[2]}
                                   \cup {t.workload[2].artifact[2] : t \in tasks}
        /\ \A n \in DOMAIN m.workloads[2] :
             Workload(n).kind[2] \in {"web", "static"} => \E r \in Range(routes) : r.target[2].workload = Str(n)

\* Each workload learns the routes that lead to it.
WithRoutes(m) ==
    LET Ids(n) == {r.name[2] : r \in {q \in Range(Fields(m.routes)) : q.target[2].workload = Str(n)}}
    IN  [m EXCEPT !.workloads = Map([n \in DOMAIN @[2] |->
            Obj([@[2][n][2] EXCEPT !.route_ids = <<"sorted", Ids(n)>>])])]

\* Routes and secrets are read once the names they may use are known.
WholeManifest(raw, environment, artifacts, workloads, migrations) ==
    LET targets == DOMAIN workloads[2]
        bound == targets \cup {MigrationNames[n] : n \in DOMAIN migrations[2]}
    IN  The({IF m = Raised THEN Raised ELSE Obj(WithRoutes(m[2])) : m \in {
            Strict(raw, {"version", "app", "environment", "artifacts", "workloads", "migrations", "routes", "update",
                         "secrets", "release"},
                [app |-> _identifier(Get(raw, "app")), environment |-> environment, artifacts |-> artifacts,
                 workloads |-> workloads, migrations |-> migrations,
                 routes |-> _list(Get(raw, "routes"), LAMBDA r : _route(r, targets)),
                 update |-> _update(Get(raw, "update"), KindsOf(workloads)),
                 secrets |-> _list(GetOr(raw, "secrets", List(<<>>)), LAMBDA s : _secret(s, bound)),
                 release |-> _release(Get(raw, "release"))],
                ManifestRule)}})

parse_manifest_v2(raw) ==
    LET NonEmpty(k) == IF Get(raw, k) = Map(NoKeys) THEN Raised ELSE Get(raw, k)
        environment == _environment(Get(raw, "environment"))
        Workloads(names) == _mapping(NonEmpty("workloads"), LAMBDA n, v : _workload(n, v, names))
        Migrations(names) == _mapping(GetOr(raw, "migrations", Map(NoKeys)), LAMBDA n, v : _migration(n, v, names))
        With(artifacts) ==
            The({IF Raised \in {w, m} THEN Raised ELSE WholeManifest(raw, environment, artifacts, w, m) :
                 w \in {Workloads(DOMAIN artifacts[2])}, m \in {Migrations(DOMAIN artifacts[2])}})
    IN  IF raw[1] # "map" \/ Get(raw, "version") # Num(2) \/ environment = Raised THEN Raised
        ELSE The({IF a = Raised THEN Raised ELSE With(a) :
                  a \in {_mapping(NonEmpty("artifacts"), LAMBDA n, v : _artifact(n, v, environment))}})

-----------------------------------------------------------------------------
(* The lock.                                                               *)

RECURSIVE _without_none(_)
_without_none(v) ==
    CASE v[1] = "map" -> Map([k \in {j \in DOMAIN v[2] : v[2][j] # Null} |-> _without_none(v[2][k])])
      [] v[1] = "list" -> List([i \in DOMAIN v[2] |-> _without_none(v[2][i])])
      [] OTHER -> v

asdict(o) == IF o = Null THEN Null ELSE Map(o[2])
SequenceOf(sorted) == List(LET s == SetToSeq(sorted[2]) IN [i \in DOMAIN s |-> Str(s[i])])

_probe_wire(p) ==
    IF p = Null THEN Null ELSE _without_none(Map([p[2] EXCEPT !.http = asdict(@)]))

\* Only a cron workload may declare a concurrency policy.
WireKeys(w) == WorkloadKeys \ (IF w.kind = Str("cron") THEN {} ELSE {"concurrency_policy"})

_workload_wire(w) ==
    _without_none(Map([k \in WireKeys(w) |->
        CASE k \in {"mounts", "file_mounts", "devices"} ->
                List([i \in DOMAIN w[k][2] |-> asdict(w[k][2][i])])
          [] k \in {"startup", "readiness", "liveness"} -> _probe_wire(w[k])
          [] k \in {"resources", "update"} -> asdict(w[k])
          [] k = "security" -> Map([w.security[2] EXCEPT !.add_capabilities = SequenceOf(@),
                                                         !.drop_capabilities = SequenceOf(@)])
          [] OTHER -> w[k]]))

_client_auth_wire(a) ==
    IF a = Null THEN Null ELSE _without_none(Map([a[2] EXCEPT !.forward = asdict(@)]))

to_lock_dict(m) ==
    LET Named(map, Wire(_)) == Map([n \in DOMAIN map[2] |-> Wire(map[2][n][2])])
        Listed(list, Wire(_)) == List([i \in DOMAIN list[2] |-> Wire(list[2][i][2])])
        Artifact(a) == _without_none(Map([image |-> a.image, static_root |-> a.static_root]))
        Migration(t) == Map([t EXCEPT !.workload = _workload_wire(@[2])])
        Route(r) == _without_none(Map([r EXCEPT !.target = asdict(@), !.tls = asdict(@),
                                                !.client_auth = _client_auth_wire(@)]))
        Secret(s) == Map([s EXCEPT !.workloads = SequenceOf(@)])
    IN  Map([version |-> Num(2), app |-> m.app, environment |-> m.environment,
             artifacts |-> Named(m.artifacts, Artifact), workloads |-> Named(m.workloads, _workload_wire),
             migrations |-> Named(m.migrations, Migration), routes |-> Listed(m.routes, Route),
             update |-> asdict(m.update), secrets |-> Listed(m.secrets, Secret),
             release |-> _without_none(asdict(m.release))])

-----------------------------------------------------------------------------
(* The revision.                                                           *)

\* What a workload contract refuses: a name that is no slug, a route to a
\* workload without traffic, overlap where none is safe.
WorkloadContract(w) ==
    /\ w.workload_id \in Identifiers
    /\ w.route_ids # {} => w.workload_kind \in {"web", "static"}
    /\ w.overlap_safe => w.workload_kind \in {"web", "worker", "static"}

to_revision(m) ==
    LET Digest(name) == m.artifacts[2][name[2]][2].digest
        named == {LET w == m.workloads[2][n][2]
                  IN  [workload_id |-> n, workload_kind |-> w.kind[2], artifact |-> Digest(w.artifact),
                       route_ids |-> w.route_ids[2],
                       overlap_safe |-> w.kind = Str("worker") /\ w.update[2].overlap = Str("allow")] :
                  n \in DOMAIN m.workloads[2]}
        tasks == {[workload_id |-> MigrationNames[n], workload_kind |-> "migration",
                   artifact |-> Digest(m.migrations[2][n][2].workload[2].artifact), route_ids |-> {},
                   overlap_safe |-> FALSE] : n \in DOMAIN m.migrations[2]}
        unique == {w.workload_id : w \in named} \cap {w.workload_id : w \in tasks} = {}
    IN  IF ~unique \/ \E w \in named \cup tasks : ~WorkloadContract(w) THEN Raised
        ELSE Obj([app |-> m.app, environment |-> m.environment, manifest |-> to_lock_dict(m),
                  workloads |-> named \cup tasks, artifacts |-> {w.artifact : w \in named \cup tasks}])

-----------------------------------------------------------------------------
(* From version 1.                                                         *)

\* The reference of a variable of the app, as RuntimeSecretResolver reads it.
DerivedRef(app, environment, name) ==
    LET refs == {r \in DOMAIN SecretRefs : SecretRefs[r] = <<app, environment, name>>}
    IN  IF refs = {} THEN "" ELSE CHOOSE r \in refs : TRUE

First(names) == SelectSeq(NameOrder, LAMBDA n : n \in names)[1]

\* In the order of their names, the services share the image that is called
\* app-image so far; one with another image names it after itself.
ArtifactsOf(images) ==
    LET Add(acc, s) ==
            LET other == "app-image" \in DOMAIN acc.artifacts /\ acc.artifacts["app-image"] # images[s]
                name == IF other THEN ImageNames[s] ELSE "app-image"
            IN  [artifacts |-> (name :> images[s]) @@ acc.artifacts, called |-> (s :> name) @@ acc.called]
    IN  FoldLeft(Add, [artifacts |-> NoKeys, called |-> NoKeys], SelectSeq(NameOrder, LAMBDA n : n \in DOMAIN images))

migrate_v1_document(raw) ==
    LET services == IF Get(raw, "services") \in {Null, List(<<>>), Str("")} THEN Map(NoKeys) ELSE Get(raw, "services")
        routes == IF Get(raw, "routes") \in {Null, Map(NoKeys), Str("")} THEN List(<<>>) ELSE Get(raw, "routes")
        kind == Get(raw, "kind")
        app == _identifier(Get(raw, "app"))
        environment == _environment(IF Get(raw, "environment") \in {Null, Str("")} THEN Str("staging")
                                    ELSE Get(raw, "environment"))
        names == DOMAIN services[2]
        routed == {Get(r, "service") : r \in Range(routes[2])}
        Image(s) == IF Get(services[2][s], "image") \in {Null, Str("")} THEN Get(raw, "image")
                    ELSE Get(services[2][s], "image")
        images == [s \in names |-> Image(s)]
        built == ArtifactsOf(images)
        Workload(s) == Map([k \in {"command", "port", "env", "env_files"} \cap DOMAIN services[2][s][2] |->
                               services[2][s][2][k]]
                           @@ [kind |-> Str(IF Str(s) \in routed THEN "web" ELSE "internal"),
                               artifact |-> Str(built.called[s])])
        static == kind = Str("static")
        workloads == IF static THEN [static |-> Map([kind |-> Str("static"), artifact |-> Str("static")])]
                     ELSE [s \in names |-> Workload(s)]
        Target(r) == IF Get(r, "service") \in {Null, Str("")} THEN Str(First(DOMAIN workloads)) ELSE Get(r, "service")
        Port(t) == IF Get(workloads[t[2]], "kind") = Str("web") THEN Get(workloads[t[2]], "port") ELSE Null
        Migrated(i) == LET r == routes[2][i]
                       IN  _without_none(Map([name |-> Str(<<"route-1", "route-2", "route-3">>[i]), domain |-> Get(r, "domain"),
                               target |-> Map([workload |-> Target(r), port |-> Port(Target(r))]),
                               path_prefix |-> IF Get(r, "path_prefix") = Str("") THEN Null ELSE Get(r, "path_prefix")]))
        required == Or(Get(raw, "required_env"), List(<<>>))
        web == \E s \in DOMAIN workloads : Get(workloads[s], "kind") = Str("web")
    IN  IF \/ Get(raw, "version") # Num(1) \/ Raised \in {app, environment}
           \/ kind \notin {Str("service"), Str("multi-service"), Str("static")}
           \/ services[1] # "map" \/ routes[1] # "list" THEN Raised
        ELSE IF \/ (~static /\ \E s \in names : s \notin Identifiers \/ services[2][s][1] # "map")
                \/ \E r \in Range(routes[2]) : r[1] # "map" \/ (DOMAIN workloads = {} /\ Get(r, "service") = Null)
             THEN Raised
        ELSE IF \E r \in Range(routes[2]) : Target(r)[2] \notin DOMAIN workloads THEN Raised
        ELSE Map([version |-> Num(2), app |-> app, environment |-> environment,
                  artifacts |-> IF static THEN Map([static |-> Map([static_root |-> Get(raw, "static_root")])])
                                ELSE Map([a \in DOMAIN built.artifacts |-> Map([image |-> built.artifacts[a]])]),
                  workloads |-> Map(workloads), migrations |-> Map(NoKeys),
                  routes |-> List([i \in DOMAIN routes[2] |-> Migrated(i)]),
                  update |-> Map([strategy |-> Str(IF static THEN "static_atomic" ELSE IF web THEN "blue_green"
                                                   ELSE "recreate"),
                                  auto_rollback |-> Bool(TRUE), drain_seconds |-> Num(30)]),
                  secrets |-> List([i \in DOMAIN required[2] |->
                      Map([name |-> required[2][i],
                           ref |-> Str(DerivedRef(app[2], environment[2], required[2][i][2]))])])])
=============================================================================
