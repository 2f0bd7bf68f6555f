--------------------------- MODULE RevisionBundle ---------------------------
(***************************************************************************)
(* The runtime inputs of a manifest v2 revision (manifest_v2_renderer.py,  *)
(* manifest_v2_sources.py, runtime_secrets.py and the parts of             *)
(* execution/compose_backend.py that write secrets): the bundle is         *)
(* rendered, its sources are staged beside it, the secrets it names are    *)
(* written where Compose and Caddy will look, and the lock is reopened     *)
(* when the operation is applied.  A Docker name is the tuple of its parts *)
(* and a digest is the thing digested.                                     *)
(***************************************************************************)
EXTENDS ManifestV2

CONSTANTS
    DeclaredDocuments,  \* sets of documents of version 1 or 2, in a sequence
    ProviderFiles,      \* [<<app, environment>> -> the dotenv files, in order]: each
                        \* <<"absent">>, Raised when unsafe, or <<"file", [key -> value]>>
    ValueFacts,         \* [secret value -> [lines, long, pem, decoded]]
    Letters,            \* [path -> its characters]
    Dollars,            \* [text with a dollar sign -> the text with each doubled]
    TreeParts           \* [static root -> its components]

VARIABLES
    declared,           \* the document
    parsed,             \* Null, Raised or the manifest
    revision,           \* Null, Raised or the revision
    bundle,             \* Null, Raised or the rendered files
    deposited,          \* Null, Raised or what lies on disk beside the bundle
    relocked            \* Null, Raised or the manifest the lock reads as

revisionVars == <<declared, parsed, revision, bundle, deposited, relocked>>

WorkloadsOf(m) == {<<n, n, m.workloads[2][n][2]>> : n \in DOMAIN m.workloads[2]}

\* The name derived from a revision's digest: a behaviour has one revision.
RevisionId == "rev"

\* <<service name, workload name, workload>>
_runtime_workloads(m) ==
    WorkloadsOf(m) \cup {<<MigrationNames[n], n, m.migrations[2][n][2].workload[2]>> : n \in DOMAIN m.migrations[2]}

SecretsOf(m) == Fields(m.secrets)

\* Both the name of the workload and the name of its service are matched.
Targeted(m, service, name) ==
    {s \in Range(SecretsOf(m)) : s.workloads[2] = {} \/ {name, service} \cap s.workloads[2] # {}}

ProtectedRoutes(m) == {r \in Range(Fields(m.routes)) : r.client_auth # Null}

secret_references(m) ==
    {s.ref : s \in Range(SecretsOf(m))}
    \cup UNION {{r.client_auth[2].trust_pool_ref}
                \cup (IF r.client_auth[2].forward = Null THEN {} ELSE {r.client_auth[2].forward[2].authorization_ref}) :
                r \in ProtectedRoutes(m)}

-----------------------------------------------------------------------------
(* Compose.                                                                *)

BaseName(source) == IF source \in DOMAIN SupportFiles THEN SupportFiles[source] ELSE source

support_file_target(service, index, source) == <<"support", service, index, BaseName(source)>>
mounted_file_target(service, index, source) == <<"support", service, "files", index, BaseName(source)>>

\* Manifest text stays literal when Compose reads it.
_escape_compose_interpolation(v) ==
    CASE v[1] = "str" /\ v[2] \in DOMAIN Dollars -> Str(Dollars[v[2]])
      [] v[1] = "list" -> List([i \in DOMAIN v[2] |->
                              IF v[2][i][2] \in DOMAIN Dollars THEN Str(Dollars[v[2][i][2]]) ELSE v[2][i]])
      [] OTHER -> v

\* An HTTP probe is run by the backend, so the image's own check is disabled.
_compose_healthcheck(w) ==
    LET p == CASE w.liveness # Null -> w.liveness [] w.readiness # Null -> w.readiness [] OTHER -> w.startup
        seconds == p[2].timeout_seconds[2]
        retries == seconds \div p[2].interval_seconds[2]
    IN  IF p = Null THEN Null
        ELSE IF p[2].command = List(<<>>) THEN <<"disable">>
        ELSE <<"test", p[2].command, IF seconds < 30 THEN seconds ELSE 30, IF retries < 1 THEN 1 ELSE retries>>

resource_memory_bytes(text) == Quantities[text]

_volume_name(m, source) == <<m.app, m.environment, Volumes[source]>>

\* What Ophelia tells every container, over what the manifest declares.
RevisionEnvironment(m) ==
    {"OPHELIA_APP", "OPHELIA_ENVIRONMENT", "OPHELIA_REVISION_ID", "OPHELIA_REVISION_DIGEST", "OPHELIA_WORKLOAD",
     "OPHELIA_SERVICE", "OPHELIA_RELEASE_ID", "OPHELIA_IMAGE_REF", "OPHELIA_IMAGE_DIGEST", "OPHELIA_MANIFEST_HASH"}
    \cup (IF m.release[2].commit_sha = Null THEN {} ELSE {"OPHELIA_COMMIT_SHA"})
    \cup (IF m.release[2].build_time = Null THEN {} ELSE {"OPHELIA_BUILD_TIME"})

_compose_service(m, service, name, w) ==
    LET kind == w.kind[2]
        secrets == Targeted(m, service, name)
        files == {s \in secrets : s.mode = Str("file")}
        FileSecret(k) == CHOOSE s \in files : s.name[2] = k
        aliases == IF w.network_aliases = Map(NoKeys) THEN {} ELSE Range(w.network_aliases[2].data[2])
        networks == {"ophelia-app"} \cup (IF kind = "web" THEN {"ophelia-edge"} ELSE {})
                    \cup (IF Str("data") \in Range(w.networks[2]) THEN {"ophelia-data"} ELSE {})
    IN  [image |-> m.artifacts[2][w.artifact[2]][2].image, kind |-> kind,
         restart |-> kind \notin {"cron", "task", "migration"},
         profile |-> kind \in {"cron", "task", "migration"},
         command |-> _escape_compose_interpolation(w.command),
         entrypoint |-> _escape_compose_interpolation(w.entrypoint),
         environment |-> [k \in DOMAIN w.env[2] \cup RevisionEnvironment(m) \cup {s.name[2] : s \in files} |->
             CASE \E s \in files : s.name[2] = k -> FileSecret(k).target
               [] k \in RevisionEnvironment(m) -> <<"ophelia", k>>
               [] OTHER -> _escape_compose_interpolation(w.env[2][k])],
         networks |-> [n \in networks |->
             CASE n = "ophelia-app" -> {<<name, RevisionId>>} [] n = "ophelia-edge" -> {<<m.app, name, RevisionId>>}
               [] OTHER -> aliases],
         expose |-> ({w.port} \cup Range(w.endpoints[2])) \ {Null},
         env_file |-> {support_file_target(service, i, w.env_files[2][i][2]) : i \in DOMAIN w.env_files[2]}
                      \cup (IF \E s \in secrets : s.mode = Str("env") THEN {<<"secrets", service, ".env">>} ELSE {}),
         volumes |->
             {[source |-> _volume_name(m, v.source[2]), target |-> v.target, writable |-> ~v.read_only[2]] :
                 v \in Range(Fields(w.mounts))}
             \cup {[source |-> mounted_file_target(service, i, Fields(w.file_mounts)[i].source[2]),
                    target |-> Fields(w.file_mounts)[i].target, writable |-> FALSE] : i \in DOMAIN w.file_mounts[2]}
             \cup {[source |-> <<"secrets", service, ".files", s.name>>, target |-> s.target, writable |-> FALSE] :
                 s \in files},
         memory |-> resource_memory_bytes(w.resources[2].memory[2]), security |-> w.security, devices |-> w.devices,
         healthcheck |-> _compose_healthcheck(w)]

\* A service of each workload that is no static tree, and of each migration.
_compose_document(m) ==
    LET running == {w \in _runtime_workloads(m) : w[3].kind # Str("static")}
    IN  [services |-> [s \in {w[1] : w \in running} |->
             LET w == CHOOSE w \in running : w[1] = s IN _compose_service(m, s, w[2], w[3])],
         volumes |-> UNION {{_volume_name(m, v.source[2]) : v \in Range(Fields(w[3].mounts))} : w \in _runtime_workloads(m)},
         networks |-> {"ophelia-app", "ophelia-edge", "ophelia-data"}]

-----------------------------------------------------------------------------
(* Caddy.                                                                  *)

route_auth_root(m, route) == <<"route-auth", m.app, m.environment, RevisionId, route.name>>
route_auth_env_key(m, route) == <<"ROUTE_AUTH", m.app, m.environment, route.name>>

_caddy_route_handler(m, route) ==
    LET name == route.target[2].workload[2]
        w == m.workloads[2][name][2]
        forward == IF route.client_auth = Null THEN Null ELSE route.client_auth[2].forward
    IN  IF w.kind = Str("static") THEN [root |-> <<RevisionId, w.artifact>>]
        ELSE [alias |-> <<m.app, name, RevisionId>>, port |-> route.target[2].port,
              header |-> IF forward = Null THEN Null
                         ELSE <<forward[2].authorization_header, route_auth_env_key(m, route)>>]

\* The site as a prefix meets it in the order the manifest lists the routes.
AsListed(routes) == routes

\* The route without a prefix comes last, and a longer prefix before a shorter.
OrderedRoutes(routes) ==
    LET Size(r) == IF r.path_prefix = Null THEN 0 ELSE Len(Letters[r.path_prefix[2]])
    IN  SortSeq(routes, LAMBDA r, q : Size(r) > Size(q))

\* A site takes its certificate and its trust pool from its first route.
_render_caddy(m) ==
    LET routes == Fields(m.routes)
        Here(d) == SelectSeq(routes, LAMBDA r : r.domain = d)
        Site(d) ==
            LET first == Here(d)[1]
                ordered == OrderedRoutes(Here(d))
            IN  [tls |-> first.tls[2].mode,
                 trust |-> IF first.client_auth = Null THEN Null
                           ELSE <<first.client_auth[2].mode, route_auth_root(m, first)>>,
                 handlers |-> [i \in DOMAIN ordered |->
                     [prefix |-> ordered[i].path_prefix, to |-> _caddy_route_handler(m, ordered[i])]]]
    IN  [d \in {r.domain : r \in Range(routes)} |-> Site(d)]

-----------------------------------------------------------------------------
(* The bundle and its sources.                                             *)

SecretRefsDocument(m) ==
    {[ref |-> s.ref, mode |-> s.mode[2], target |-> s.target] : s \in Range(SecretsOf(m))}
    \cup {[ref |-> r.client_auth[2].trust_pool_ref, mode |-> "route-trust-pool",
           target |-> route_auth_root(m, r)] : r \in ProtectedRoutes(m)}
    \cup {[ref |-> r.client_auth[2].forward[2].authorization_ref, mode |-> "caddy-env",
           target |-> route_auth_env_key(m, r)] : r \in {q \in ProtectedRoutes(m) : q.client_auth[2].forward # Null}}

\* A revision of another scope or of another manifest is refused.
render_revision_bundle(m, rev) ==
    IF rev[2].app # m.app \/ rev[2].environment # m.environment \/ rev[2].manifest # to_lock_dict(m) THEN Raised
    ELSE Obj([lock |-> to_lock_dict(m), revision |-> rev, artifacts |-> m.artifacts,
              secret_refs |-> SecretRefsDocument(m), compose |-> _compose_document(m),
              caddy |-> _render_caddy(m)])

_overlaps(root, other) == IsPrefix(TreeParts[root], TreeParts[other]) \/ IsPrefix(TreeParts[other], TreeParts[root])

GeneratedRoots == {"artifact-lock.json", "caddy", "compose.yml", "manifest.lock.json", "revision.json",
                   "secret-refs.json", "support"}

\* Every source keeps its place beside the bundle; links are not followed.
stage_sources(m) ==
    LET roots == {a[2].static_root[2] : a \in {b \in Range(m.artifacts[2]) : b[2].static_root # Null}}
        trees == {a \in DOMAIN m.artifacts[2] : m.artifacts[2][a][2].static_root # Null}
        EnvFiles(w) == {w[3].env_files[2][i][2] : i \in DOMAIN w[3].env_files[2]}
    IN  IF \/ \E r \in roots : TreeParts[r] = <<>> \/ TreeParts[r][1] \in GeneratedRoots
           \/ \E r, q \in roots : r # q /\ _overlaps(r, q)
           \/ Cardinality(roots) # Cardinality(trees)
           \/ \E w \in _runtime_workloads(m) : ~(EnvFiles(w) \subseteq DOMAIN SupportFiles)
        THEN Raised
        ELSE Obj(UNION {{support_file_target(w[1], i, w[3].env_files[2][i][2]) : i \in DOMAIN w[3].env_files[2]}
                        \cup {mounted_file_target(w[1], i, Fields(w[3].file_mounts)[i].source[2]) :
                              i \in DOMAIN w[3].file_mounts[2]} : w \in _runtime_workloads(m)})

-----------------------------------------------------------------------------
(* Secrets.                                                                *)

\* The files of the app's environment, in order; the first that has the key
\* answers, and an unsafe file on the way refuses.
RuntimeSecretResolver(ref) ==
    LET r == SecretRefs[ref[2]]
        files == IF r # Raised /\ <<r[1], r[2]>> \in DOMAIN ProviderFiles
                 THEN SelectSeq(ProviderFiles[<<r[1], r[2]>>], LAMBDA f : f # <<"absent">>) ELSE <<>>
        stops == {i \in DOMAIN files : files[i] = Raised \/ r[3] \in DOMAIN files[i][2]}
    IN  IF stops = {} THEN Raised
        ELSE LET f == files[CHOOSE i \in stops : \A j \in stops : i <= j]
             IN  IF f = Raised THEN Raised ELSE f[2][r[3]]

\* Decoded, in its encoding and within its bounds.
_decode_secret_file(value, encoding) ==
    IF value = Raised THEN Raised ELSE IF encoding = Str("plain") THEN value ELSE ValueFacts[value].decoded

EnvValue(value) == value # Raised /\ ~ValueFacts[value].lines
TrustPool(value) == value # Raised /\ ValueFacts[value].pem
Authorization(value) == value # Raised /\ ~ValueFacts[value].lines /\ ValueFacts[value].long

\* What the planner asks before it calls a plan executable.
manifest_secret_bindings_available(m) ==
    /\ \A s \in Range(SecretsOf(m)) :
         LET value == RuntimeSecretResolver(s.ref)
         IN  /\ value # Raised
             /\ s.mode = Str("env") => EnvValue(value)
             /\ s.mode = Str("file") => _decode_secret_file(value, s.encoding) # Raised
    /\ \A r \in ProtectedRoutes(m) :
         LET a == r.client_auth[2]
         IN  /\ TrustPool(_decode_secret_file(RuntimeSecretResolver(a.trust_pool_ref), a.trust_pool_encoding))
             /\ a.forward # Null => Authorization(RuntimeSecretResolver(a.forward[2].authorization_ref))

\* A file of its own for a file secret, one env file for the others.
_materialize_secrets(m) ==
    LET Bad(s) == LET value == RuntimeSecretResolver(s.ref)
                  IN  IF s.mode = Str("env") THEN ~EnvValue(value) ELSE _decode_secret_file(value, s.encoding) = Raised
        selected == [w \in _runtime_workloads(m) |-> Targeted(m, w[1], w[2])]
    IN  IF \E w \in DOMAIN selected : \E s \in selected[w] : Bad(s) THEN Raised
        ELSE Obj(UNION {{IF s.mode = Str("env") THEN <<"secrets", w[1], ".env">>
                         ELSE <<"secrets", w[1], ".files", s.name>> : s \in selected[w]} : w \in DOMAIN selected})

\* The trust pool of every protected route, and what Caddy adds for it.
_materialize_route_auth(m) ==
    LET Pool(r) == _decode_secret_file(RuntimeSecretResolver(r.client_auth[2].trust_pool_ref),
                                       r.client_auth[2].trust_pool_encoding)
        forwarding == {r \in ProtectedRoutes(m) : r.client_auth[2].forward # Null}
        Value(r) == RuntimeSecretResolver(r.client_auth[2].forward[2].authorization_ref)
    IN  IF \/ \E r \in ProtectedRoutes(m) : ~TrustPool(Pool(r))
           \/ \E r \in forwarding : ~Authorization(Value(r)) THEN Raised
        ELSE Obj({<<route_auth_root(m, r), Pool(r)>> : r \in ProtectedRoutes(m)}
                 \cup {<<route_auth_env_key(m, r), Value(r)>> : r \in forwarding})

\* Networks that are made when they are missing.
EnsuredNetworks(m) ==
    LET workloads == {w[3] : w \in WorkloadsOf(m)}
    IN  {"ophelia-app"} \cup (IF \E w \in workloads : w.kind = Str("web") THEN {"ophelia-edge"} ELSE {})
        \cup (IF \E w \in workloads : Str("data") \in Range(w.networks[2]) THEN {"ophelia-data"} ELSE {})

-----------------------------------------------------------------------------
(* From the document to what a container finds.                            *)

Unparsed ==
    /\ parsed = Null /\ revision = Null /\ bundle = Null /\ deposited = Null /\ relocked = Null

RevisionInit == (\E k \in DOMAIN DeclaredDocuments : declared \in DeclaredDocuments[k]) /\ Unparsed

MigrateV1 ==
    /\ parsed = Null /\ Get(declared, "version") = Num(1)
    /\ declared' = migrate_v1_document(declared)
    /\ declared' # Raised
    /\ UNCHANGED <<parsed, revision, bundle, deposited, relocked>>

ParseV2 ==
    /\ parsed = Null /\ Get(declared, "version") # Num(1)
    /\ parsed' = parse_manifest_v2(declared)
    /\ UNCHANGED <<declared, revision, bundle, deposited, relocked>>

ReviseV2 ==
    /\ parsed \notin {Null, Raised} /\ revision = Null
    /\ revision' = to_revision(parsed[2])
    /\ UNCHANGED <<declared, parsed, bundle, deposited, relocked>>

RenderV2 ==
    /\ revision \notin {Null, Raised} /\ bundle = Null
    /\ bundle' = render_revision_bundle(parsed[2], revision)
    /\ UNCHANGED <<declared, parsed, revision, deposited, relocked>>

\* Sources are staged when the revision is planned, and secrets written when
\* it starts; the planner refused one whose secrets it could not read.
DepositV2 ==
    /\ bundle \notin {Null, Raised} /\ deposited = Null
    /\ LET m == parsed[2]
           staged == stage_sources(m)
           secrets == _materialize_secrets(m)
           auth == _materialize_route_auth(m)
       IN  deposited' = IF staged = Raised \/ ~manifest_secret_bindings_available(m) THEN <<"refused">>
                        ELSE IF Raised \in {secrets, auth} THEN Raised
                        ELSE Obj([files |-> staged[2] \cup secrets[2], auth |-> auth[2]])
    /\ UNCHANGED <<declared, parsed, revision, bundle, relocked>>

\* The lock is read again when the operation is applied.
ReopenV2 ==
    /\ bundle \notin {Null, Raised} /\ relocked = Null
    /\ relocked' = parse_manifest_v2(bundle[2].lock)
    /\ UNCHANGED <<declared, parsed, revision, bundle, deposited>>

RevisionNext == MigrateV1 \/ ParseV2 \/ ReviseV2 \/ RenderV2 \/ DepositV2 \/ ReopenV2

-----------------------------------------------------------------------------
\* A dollar sign alone is expanded by Compose, a doubled one is a dollar sign.
ComposeReads(v) ==
    IF v[1] = "list" THEN List([i \in DOMAIN v[2] |-> IF v[2][i][2] \in Range(Dollars)
                                   THEN Str(CHOOSE t \in DOMAIN Dollars : Dollars[t] = v[2][i][2])
                                   ELSE IF v[2][i][2] \in DOMAIN Dollars THEN <<"expanded">> ELSE v[2][i]])
    ELSE IF v[1] # "str" THEN v
    ELSE IF v[2] \in Range(Dollars) THEN Str(CHOOSE t \in DOMAIN Dollars : Dollars[t] = v[2])
    ELSE IF v[2] \in DOMAIN Dollars THEN <<"expanded">> ELSE v

\* The routes of a site a request may take: those with the longest prefix of
\* it, or those without a prefix.
Meant(m, domain, request) ==
    LET here == {r \in Range(Fields(m.routes)) : r.domain = domain}
        Hits(r) == r.path_prefix # Null /\ IsPrefix(Letters[r.path_prefix[2]], Letters[request])
        longest == {r \in here : Hits(r) /\ \A q \in here : Hits(q) =>
                        Len(Letters[q.path_prefix[2]]) <= Len(Letters[r.path_prefix[2]])}
    IN  IF longest # {} THEN longest ELSE {r \in here : r.path_prefix = Null}

\* Caddy takes the first handler that matches.
Handled(site, request) ==
    LET hits == {i \in DOMAIN site.handlers : site.handlers[i].prefix = Null
                    \/ IsPrefix(Letters[site.handlers[i].prefix[2]], Letters[request])}
    IN  IF hits = {} THEN {} ELSE {site.handlers[CHOOSE i \in hits : \A j \in hits : i <= j].to}

\* A revision whose plan passes finds everything it names.  Secrets that the
\* planner could read are written without an error; every env file and bind
\* source of a service is a staged file or a written secret; every proxied
\* alias and port is one a running service answers; a request goes to the
\* route with the longest prefix, behind the trust pool its own route
\* declares; the values a container sees are the declared ones; the networks
\* of a workload's service exist; and no secret is left out of secret-refs.
\* And the lock of a revision loads as the same manifest, which renders the same
\* bundle under the same revision: what _load_plan rebuilds from the lock at
\* apply is what was planned and approved.
RevisionIsWhole ==
    /\ relocked \in {Null, parsed}
    /\ deposited \notin {Null, <<"refused">>} =>
            LET m == parsed[2]
                b == bundle[2]
                services == b.compose.services
                Service(n) == services[n]
                there == deposited[2].files
                pools == deposited[2].auth
            IN  /\ deposited # Raised
                /\ \A n \in DOMAIN services :
                     /\ Service(n).env_file \subseteq there
                     /\ \A v \in Service(n).volumes : v.source \in there \cup b.compose.volumes
                     /\ Service(n).kind # "migration" => DOMAIN Service(n).networks \subseteq EnsuredNetworks(m)
                /\ \A w \in _runtime_workloads(m) : w[3].kind # Str("static") =>
                     LET s == Service(w[1])
                     IN  /\ s.image = m.artifacts[2][w[3].artifact[2]][2].image
                         /\ ComposeReads(s.command) = w[3].command
                         /\ \A k \in DOMAIN w[3].env[2] \ RevisionEnvironment(m) :
                              (\E t \in Targeted(m, w[1], w[2]) : t.name = Str(k)) \/ ComposeReads(s.environment[k]) = w[3].env[2][k]
                /\ \A d \in DOMAIN b.caddy : \A p \in DOMAIN Letters :
                     LET meant == Meant(m, d, p)
                     IN  /\ Handled(b.caddy[d], p) = {_caddy_route_handler(m, r) : r \in meant}
                         /\ \A r \in meant :
                              /\ b.caddy[d].tls = r.tls[2].mode
                              /\ IF r.client_auth = Null THEN b.caddy[d].trust = Null
                                 ELSE <<b.caddy[d].trust[2], _decode_secret_file(
                                          RuntimeSecretResolver(r.client_auth[2].trust_pool_ref),
                                          r.client_auth[2].trust_pool_encoding)>> \in pools
                /\ \A d \in DOMAIN b.caddy : \A h \in Range(b.caddy[d].handlers) : "alias" \in DOMAIN h.to =>
                     /\ \E n \in DOMAIN services : /\ "ophelia-edge" \in DOMAIN Service(n).networks
                                                   /\ h.to.alias \in Service(n).networks["ophelia-edge"]
                                                   /\ h.to.port \in Service(n).expose /\ Service(n).restart
                     /\ h.to.header # Null => \E v \in DOMAIN ValueFacts : <<h.to.header[2], v>> \in pools
                /\ {r.ref : r \in b.secret_refs} = secret_references(m)
=============================================================================
