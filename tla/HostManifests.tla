---------------------------- MODULE HostManifests ----------------------------
(***************************************************************************)
(* Two apps of one host: each document is loaded, rendered into a bundle   *)
(* with its lock, read back from there, and the host is scanned for        *)
(* manifests that cannot live together (conflicts.py).                     *)
(*                                                                         *)
(* A bundle (templates.py, and runtime.py) is the Compose file and the     *)
(* Caddy site, as far as they refer to one another.  An alias is the       *)
(* sequence of the dash-separated parts of its name, so that different     *)
(* pairs of app and service can share one.                                 *)
(***************************************************************************)
EXTENDS Manifest, SequencesExt

CONSTANTS
    Labels,         \* [identifier -> its parts between dashes]
    AskKeys         \* [ask URL -> the environment variables it names]

service_alias(m, s) == Labels[m.app[2]] \o Labels[s]

internal_network_name(m) ==
    IF m.networking[2].internal[2] = "per-app"
    THEN <<m.app, Or(m.environment, Str("default")), "internal">> ELSE <<"ophelia-internal">>

-----------------------------------------------------------------------------
(* Volumes, networks and services of the Compose file.                     *)

_data_volumes_for_service(m, s) ==
    {v \in Range(VolumesOf(m)) :
        v[2].mount # Null /\ (v[2].service = Str(s) \/ (v[2].service = Null /\ Services(m) = {s}))}

_data_volume_name(m, v) == <<m.app, Or(m.environment, Str("default")), v[2].name>>

_data_volume_mount_source(m, v) ==
    IF v[2].source # Null THEN <<"host", v[2].source>> ELSE <<"volume", _data_volume_name(m, v)>>

bundle_mount_path(s, i) == <<"artifacts", s, i>>

_render_service_volume_lines(m, s) ==
    LET mounts == m.services[2][s][2].mounts[2]
    IN  {[source |-> IF mounts[i][2].bind[2] THEN <<"host", mounts[i][2].source>>
                     ELSE <<"bundle", bundle_mount_path(s, i)>>,
          target |-> mounts[i][2].target, ro |-> mounts[i][2].read_only[2]] : i \in DOMAIN mounts}
        \cup {[source |-> _data_volume_mount_source(m, v), target |-> v[2].mount, ro |-> FALSE] :
                v \in _data_volumes_for_service(m, s)}

_render_volumes_block(m) ==
    {_data_volume_name(m, v) : v \in {w \in Range(VolumesOf(m)) : w[2].mount # Null /\ w[2].source = Null}}

UsesAddon(m) == m.addons[2].postgres[2] \/ m.addons[2].redis[2]

\* Declared networks, and those that must exist before the app starts.
_render_networks_block(m) ==
    IF m.networking[2].internal[2] = "per-app"
    THEN [own |-> {internal_network_name(m)},
          external |-> {<<"ophelia-edge">>} \cup IF UsesAddon(m) THEN {<<"ophelia-internal">>} ELSE {}]
    ELSE [own |-> {}, external |-> {<<"ophelia-edge">>, <<"ophelia-internal">>}]

bundle_env_file_path(s, i) == <<"env.d", s, i>>

\* Who gives a variable its value: the runtime, the service or the manifest.
_runtime_env_values == {"OPHELIA_APP", "OPHELIA_RELEASE_ID", "PORT"}

EnvironmentOf(m, s) ==
    LET own == DOMAIN m.services[2][s][2].env[2]
    IN  [k \in _runtime_env_values \cup own \cup DOMAIN m.env[2] |->
            IF k \in _runtime_env_values THEN "runtime" ELSE IF k \in own THEN "service" ELSE "manifest"]

_collect_service_env_keys(m) == UNION {DOMAIN m.services[2][s][2].env[2] : s \in Services(m)}

caddy_env_keys(m) == IF m.edge[2].on_demand_tls = Null THEN {} ELSE AskKeys[m.edge[2].on_demand_tls[2].ask[2]]

\* The keys of the env file an operator fills in.
render_env_example(m) ==
    {"OPHELIA_APP"} \cup DOMAIN m.env[2] \cup _collect_service_env_keys(m) \cup caddy_env_keys(m)
    \cup (IF m.addons[2].postgres[2] THEN {"DATABASE_URL"} ELSE {})
    \cup (IF m.addons[2].redis[2] THEN {"REDIS_URL"} ELSE {})
    \cup (IF m.profile = Str("console") THEN {"OPHELIA_CONSOLE_SURFACE", "OPHELIA_CONSOLE_SETUP_TOKEN"} ELSE {})
    \cup {k[2] : k \in Range(m.required_env[2])}

_render_service_block(m, s) ==
    LET service == m.services[2][s][2]
    IN  [alias |-> service_alias(m, s), port |-> service.port,
         image |-> Or(service.image, m.image),
         env_file |-> {bundle_env_file_path("", i) : i \in DOMAIN m.env_files[2]}
                      \cup {bundle_env_file_path(s, i) : i \in DOMAIN service.env_files[2]},
         environment |-> EnvironmentOf(m, s),
         ports |-> IF service.host_port = Null THEN {} ELSE {service.host_port},
         volumes |-> _render_service_volume_lines(m, s),
         networks |-> {<<"ophelia-edge">>, internal_network_name(m)}
                      \cup IF m.networking[2].internal[2] = "per-app" /\ UsesAddon(m)
                           THEN {<<"ophelia-internal">>} ELSE {}]

render_compose(m) ==
    [services |-> IF m.kind[2] \in ServiceKinds
                  THEN [s \in Services(m) |-> _render_service_block(m, s)] ELSE <<>>,
     volumes |-> _render_volumes_block(m), networks |-> _render_networks_block(m)]

\* The support files a bundle is staged with.
_bundle_support_file_map(m) ==
    {bundle_env_file_path("", i) : i \in DOMAIN m.env_files[2]}
    \cup UNION {{bundle_env_file_path(s, i) : i \in DOMAIN m.services[2][s][2].env_files[2]} : s \in Services(m)}
    \cup UNION {{bundle_mount_path(s, i) : i \in {j \in DOMAIN m.services[2][s][2].mounts[2] :
                    ~m.services[2][s][2].mounts[2][j][2].bind[2]}} : s \in Services(m)}

-----------------------------------------------------------------------------
(* The Caddy site.                                                         *)

_default_service_name(m) ==
    IF "web" \in Services(m) THEN "web" ELSE CHOOSE s \in Services(m) : TRUE

\* The console's own domain is routed unless a route has it.
effective_routes(m) ==
    LET admin == IF m.profile = Str("console") /\ m.console # Null THEN m.console[2].admin_domain ELSE Null
    IN  IF admin # Null /\ \A r \in RoutesOf(m) : r[2].domain # admin
        THEN Append(m.routes[2],
                    RouteOf(Map([domain |-> admin, service |-> Str(_default_service_name(m))])))
        ELSE m.routes[2]

\* Faulty variant: prefixes in the order the manifest has them.
RoutesByKind(s) ==
    SelectSeq(s, LAMBDA r : r[2].path # Null)
    \o SelectSeq(s, LAMBDA r : r[2].path = Null /\ r[2].path_prefix # Null)
    \o SelectSeq(s, LAMBDA r : r[2].path = Null /\ r[2].path_prefix = Null)

\* Exact paths, then prefixes, the longer ones first, then the rest.
SortKey(r) ==
    IF r[2].path # Null THEN <<0, -Len(Paths[r[2].path[2]])>>
    ELSE IF r[2].path_prefix # Null THEN <<1, -Len(Paths[r[2].path_prefix[2]])>>
    ELSE <<2, 0>>

Before(r, q) == LET a == SortKey(r) b == SortKey(q) IN a[1] < b[1] \/ (a[1] = b[1] /\ a[2] < b[2])

_sort_routes(s) == SortSeq(s, Before)

\* The alias and port, or the address, behind a route; no upstream raises.
_resolve_upstream(m, r) ==
    IF r[2].upstream # Null THEN <<"address", r[2].upstream>>
    ELSE IF r[2].service # Null
         THEN <<"alias", service_alias(m, r[2].service[2]), m.services[2][r[2].service[2]][2].port>>
    ELSE IF m.tunnel_target # Null THEN <<"address", m.tunnel_target>> ELSE Raised

\* A prefix matches itself and what lies beneath it.
_render_matcher(r) ==
    IF r[2].path # Null THEN {[path |-> Paths[r[2].path[2]], below |-> FALSE]}
    ELSE IF r[2].path_prefix # Null
         THEN {[path |-> Paths[r[2].path_prefix[2]], below |-> b] : b \in BOOLEAN}
    ELSE {[path |-> <<>>, below |-> TRUE]}

_render_proxy_route(m, r) == [match |-> _render_matcher(r), upstream |-> _resolve_upstream(m, r)]

_render_site_block(m, domain) ==
    LET routes == SelectSeq(effective_routes(m), LAMBDA r : r[2].domain = domain)
    IN  CASE m.kind[2] = "static" -> <<[match |-> {[path |-> <<>>, below |-> TRUE]}, upstream |-> <<"files">>]>>
          [] m.kind[2] = "redirect" -> <<[match |-> {[path |-> <<>>, below |-> TRUE]}, upstream |-> <<"redir">>]>>
          [] OTHER -> [i \in DOMAIN routes |-> _render_proxy_route(m, _sort_routes(routes)[i])]

_resolve_catch_all_upstream(m) ==
    LET c == m.edge[2].catch_all[2]
    IN  IF c.upstream # Null THEN <<"address", c.upstream>>
        ELSE <<"alias", service_alias(m, c.service[2]), m.services[2][c.service[2]][2].port>>

_group_routes_by_domain(m) == {r[2].domain : r \in Range(effective_routes(m))}

render_caddy(m) ==
    [sites |-> [d \in _group_routes_by_domain(m) |-> _render_site_block(m, d)],
     rest |-> IF m.edge[2].catch_all = Null THEN <<>> ELSE <<_resolve_catch_all_upstream(m)>>]

-----------------------------------------------------------------------------
(* The two apps.                                                           *)
CONSTANT Documents      \* sets of pairs of YAML documents, in a sequence

VARIABLES documents, manifests, bundles, reopened, report

manifestVars == <<documents, manifests, bundles, reopened, report>>

-----------------------------------------------------------------------------
(* Conflicts.  An owner is a manifest file or the lock of a running app,   *)
(* whose declared manifest speaks for it when there is one.                *)

\* An owner: [path, source, m].
AppEnv(o) == <<o.m.app, o.m.environment>>

_dedupe_active_runtime_owners(owners) ==
    {o \in owners : o.source = "active_runtime" =>
        \A p \in owners : p.source = "manifest" => AppEnv(p) # AppEnv(o)}

Contested(owners) == Cardinality(_dedupe_active_runtime_owners(owners)) > 1

_duplicate_app_ids(owners) ==
    {<<"duplicate_app_id", a>> : a \in {x \in {o.m.app : o \in owners} :
        Contested({o \in owners : o.m.app = x})}}

\* A file counts once for a domain, however many of its routes are on it.
_duplicate_domains(owners) ==
    LET At(d) == {o \in owners : \E r \in RoutesOf(o.m) : r[2].domain = d}
    IN  {<<"duplicate_domain", d>> : d \in {x \in UNION {{r[2].domain : r \in RoutesOf(o.m)} : o \in owners} :
            Contested(At(x))}}

\* A slash at the end of a path makes no difference here.
_route_match(r) ==
    LET Trim(v) == SelectSeq(Paths[v[2]], LAMBDA part : part # "")
    IN  IF r[2].path # Null THEN <<r[2].domain, "path", Trim(r[2].path)>>
        ELSE IF r[2].path_prefix # Null THEN <<r[2].domain, "path_prefix", Trim(r[2].path_prefix)>>
        ELSE <<r[2].domain, "default", <<>>>>

_duplicate_routes(owners) ==
    LET Keys(o) == {_route_match(r) : r \in RoutesOf(o.m)}
    IN  {<<"duplicate_route", k>> : k \in {x \in UNION {Keys(o) : o \in owners} :
            Contested({o \in owners : x \in Keys(o)})}}

\* One entry per service: two services of one file contest a port or an alias.
Entries(owners) == UNION {{[path |-> o.path, source |-> o.source, m |-> o.m, service |-> s] : s \in Services(o.m)} : o \in owners}

_duplicate_host_ports(owners) ==
    LET Port(e) == HostPort(e.m, e.service)
    IN  {<<"duplicate_host_port", p>> : p \in {x \in {Port(e) : e \in Entries(owners)} \ {Null} :
            Contested({e \in Entries(owners) : Port(e) = x})}}

\* Faulty variant: a service is known by its name alone.
NamesOnly(owners) ==
    {<<"duplicate_docker_alias", s>> : s \in {x \in {e.service : e \in Entries(owners)} :
        Contested({e \in Entries(owners) : e.service = x /\ \A f \in Entries(owners) : f.m.app = e.m.app})}}

_duplicate_aliases(owners) ==
    LET Alias(e) == service_alias(e.m, e.service)
    IN  {<<"duplicate_docker_alias", a>> : a \in {x \in {Alias(e) : e \in Entries(owners)} :
            Contested({e \in Entries(owners) : Alias(e) = x})}}

_edge_resource_conflicts(owners) ==
    LET asking == _dedupe_active_runtime_owners({o \in owners : o.m.edge[2].on_demand_tls # Null})
        catching == {o \in owners : o.m.edge[2].catch_all # Null}
    IN  (IF Cardinality({o.m.edge[2].on_demand_tls : o \in asking}) > 1
         THEN {<<"conflicting_on_demand_tls_ask">>} ELSE {})
        \cup (IF Contested(catching) THEN {<<"duplicate_catch_all_edge">>} ELSE {})

_owner(path, source, m) == [path |-> path, source |-> source, m |-> m[2]]

\* A lock that no longer loads is passed over.
_active_runtime_manifests(locked) ==
    {_owner(<<"lock", i>>, "active_runtime", locked[i]) : i \in {j \in DOMAIN locked : locked[j] # Raised}}

\* What load_manifest makes of the documents of the manifest directory, and of
\* the locks of the running apps.
scan_conflicts(loaded, locked) ==
    LET good == {i \in DOMAIN loaded : loaded[i] # Raised}
        owners == {_owner(<<"file", i>>, "manifest", loaded[i]) : i \in good} \cup _active_runtime_manifests(locked)
    IN  _duplicate_app_ids(owners) \cup _duplicate_domains(owners) \cup _duplicate_routes(owners)
        \cup _duplicate_host_ports(owners) \cup _duplicate_aliases(owners)
        \cup _edge_resource_conflicts(owners)
        \cup {<<"manifest_invalid", i>> : i \in DOMAIN loaded \ good}

-----------------------------------------------------------------------------
NoBundle == [lock |-> Null]

render_bundle(m) ==
    [compose |-> render_compose(m), env |-> render_env_example(m), caddy |-> render_caddy(m),
     lock |-> _export_manifest_value(Obj(m)), support |-> _bundle_support_file_map(m)]

Unloaded ==
    /\ manifests = <<Null, Null>> /\ reopened = <<Null, Null>>
    /\ bundles = <<NoBundle, NoBundle>> /\ report = <<"none">>

ManifestInit == (\E k \in DOMAIN Documents : documents \in Documents[k]) /\ Unloaded

Load(i) ==
    /\ manifests[i] = Null
    /\ manifests' = [manifests EXCEPT ![i] = load_manifest(documents[i], FALSE)]
    /\ UNCHANGED <<documents, bundles, reopened, report>>

Render(i) ==
    /\ manifests[i] \notin {Null, Raised} /\ bundles[i] = NoBundle
    /\ bundles' = [bundles EXCEPT ![i] = render_bundle(manifests[i][2])]
    /\ UNCHANGED <<documents, manifests, reopened, report>>

Reopen(i) ==
    /\ bundles[i] # NoBundle /\ reopened[i] = Null
    /\ reopened' = [reopened EXCEPT ![i] = load_manifest(bundles[i].lock, TRUE)]
    /\ UNCHANGED <<documents, manifests, bundles, report>>

\* The running apps are those with a bundle.  load_manifest depends on the
\* document alone: what it returned before is what it returns to the scan.
Scan ==
    /\ report = <<"none">> /\ \A i \in 1 .. 2 : manifests[i] = Raised \/ reopened[i] # Null
    /\ report' = <<"report", scan_conflicts(manifests,
                        [i \in {j \in 1 .. 2 : bundles[j] # NoBundle} |-> reopened[i]])>>
    /\ UNCHANGED <<documents, manifests, bundles, reopened>>

\* One after the other: the two do not meet before the scan.
ManifestNext ==
    \/ \E i \in 1 .. 2 :
          /\ i = 2 => manifests[1] = Raised \/ reopened[1] # Null
          /\ Load(i) \/ Render(i) \/ Reopen(i)
    \/ Scan

-----------------------------------------------------------------------------
\* The route of a request, as the manifest reads: the exact path, else the
\* longest prefix, else the route without a matcher.
Declared(m, domain, request) ==
    LET here == {r \in Range(effective_routes(m)) : r[2].domain = domain}
        exact == {r \in here : r[2].path # Null /\ Paths[r[2].path[2]] = request}
        prefixes == {r \in here : r[2].path_prefix # Null /\ IsPrefix(Paths[r[2].path_prefix[2]], request)}
        longest == {r \in prefixes : \A q \in prefixes :
                        Len(Paths[q[2].path_prefix[2]]) <= Len(Paths[r[2].path_prefix[2]])}
        rest == {r \in here : r[2].path = Null /\ r[2].path_prefix = Null}
    IN  IF exact # {} THEN exact ELSE IF prefixes # {} THEN longest ELSE rest

Matches(handler, request) ==
    \E p \in handler.match : IF p.below THEN IsPrefix(p.path, request) ELSE p.path = request

Served(site, request) ==
    LET hits == {i \in DOMAIN site : Matches(site[i], request)}
    IN  IF hits = {} THEN {} ELSE {site[CHOOSE i \in hits : \A j \in hits : i <= j].upstream}

\* The bundle of an accepted service manifest hangs together: every request is
\* handled by the route the manifest gives it, every alias and port Caddy calls
\* is one a service answers, every mounted volume is declared and mounted once,
\* every file a service names is staged with the bundle, and the port a service
\* is told is the one Caddy calls.  And its lock reopens as the manifest it was
\* written from, so that a rollback or an inspection that reads the bundle sees
\* what was deployed: load_manifest refuses none of the locks that
\* _export_manifest_value writes, and nothing is lost between the two.
BundlesAreWhole ==
    \A i \in 1 .. 2 : bundles[i] # NoBundle =>
        LET m == manifests[i][2]
            b == bundles[i]
            services == Range(b.compose.services)
            answered == {<<"alias", s.alias, s.port>> : s \in services}
            called == UNION {{h.upstream : h \in Range(b.caddy.sites[d])} : d \in DOMAIN b.caddy.sites}
                      \cup Range(b.caddy.rest)
        IN  /\ reopened[i] \in {Null, manifests[i]}
            /\ Raised \notin called
            /\ m.kind[2] \in ServiceKinds \cup {"tunnel"} =>
                 \A d \in DOMAIN b.caddy.sites, p \in Range(Paths) :
                    Served(b.caddy.sites[d], p) = {_resolve_upstream(m, r) : r \in Declared(m, d, p)}
            /\ m.kind[2] \in ServiceKinds =>
                 /\ {u \in called : u[1] = "alias"} \subseteq answered
                 /\ \A v \in Range(VolumesOf(m)) : v[2].mount # Null =>
                      Cardinality({s \in services : \E l \in s.volumes :
                          l.source = _data_volume_mount_source(m, v) /\ l.target = v[2].mount}) = 1
                 /\ \A s \in services :
                      /\ {l.source[2] : l \in {k \in s.volumes : k.source[1] = "volume"}} \subseteq b.compose.volumes
                      /\ {l.source[2] : l \in {k \in s.volumes : k.source[1] = "bundle"}} \cup s.env_file
                            \subseteq b.support
                      /\ s.networks \subseteq b.compose.networks.own \cup b.compose.networks.external
                      /\ s.image # Null /\ s.environment["PORT"] = "runtime"

\* A scan without conflicts leaves room for both apps: no domain of a route, no
\* port of the host, no alias and no catch-all is claimed by the two.
NoConflictMeansRoom ==
    report = <<"report", {}>> =>
        LET m == manifests[1][2]
            n == manifests[2][2]
            Ports(b) == UNION {s.ports : s \in Range(b.compose.services)}
            Aliases(b) == {s.alias : s \in Range(b.compose.services)}
        IN  /\ {r[2].domain : r \in RoutesOf(m)} \cap {r[2].domain : r \in RoutesOf(n)} = {}
            /\ Ports(bundles[1]) \cap Ports(bundles[2]) = {}
            /\ Aliases(bundles[1]) \cap Aliases(bundles[2]) = {}
            /\ bundles[1].caddy.rest = <<>> \/ bundles[2].caddy.rest = <<>>
            /\ m.edge[2].on_demand_tls # Null /\ n.edge[2].on_demand_tls # Null =>
                 m.edge[2].on_demand_tls = n.edge[2].on_demand_tls
=============================================================================
