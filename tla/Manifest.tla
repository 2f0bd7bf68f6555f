------------------------------ MODULE Manifest ------------------------------
(***************************************************************************)
(* Manifest version 1 (manifest.py, validation/): what a YAML document     *)
(* becomes when it is loaded, when it is refused, and the lock that is     *)
(* written from it and read back.                                          *)
(*                                                                         *)
(* A YAML value is a tuple whose first component is its type: <<"str", s>>,*)
(* <<"int", n>>, <<"bool", b>>, <<"list", seq>>, <<"map", f>>, <<"null">>, *)
(* and <<"date">> for a value JSON has no form for.  A dataclass is        *)
(* <<"obj", f>>; a parser that raises ManifestError returns Raised.        *)
(***************************************************************************)
EXTENDS Integers, Sequences, FiniteSets, Functions, TLC

CONSTANTS
    Identifiers,    \* the strings parse_identifier accepts
    Domains,        \* [accepted domain -> its canonical form]
    Paths,          \* [string that starts with a slash -> what split("/") makes of it]
    Urls,           \* [URL -> [http, loopback, plain, path]]
    EnvNames,       \* the strings that are environment variable names
    Sources         \* relative paths that exist beneath the source root

Null == <<"null">>
Raised == <<"error">>
Str(s) == <<"str", s>>
Num(n) == <<"int", n>>
Bool(b) == <<"bool", b>>
List(s) == <<"list", s>>
Map(f) == <<"map", f>>
Obj(f) == <<"obj", f>>
NoKeys == [k \in {} |-> Null]

\* raw.get(k) and raw.get(k, default).
Get(raw, k) == IF raw[1] = "map" /\ k \in DOMAIN raw[2] THEN raw[2][k] ELSE Null
GetOr(raw, k, default) == IF raw[1] = "map" /\ k \in DOMAIN raw[2] THEN raw[2][k] ELSE default

Or(v, default) == IF v = Null THEN default ELSE v
When(cond, v) == IF v # Raised /\ cond THEN v ELSE Raised

-----------------------------------------------------------------------------
(* Scalars.                                                                *)

_require_str(v) == IF v[1] = "str" /\ v[2] # "" THEN v ELSE Raised

_optional_str(v) == IF v = Null THEN Null ELSE _require_str(v)

_require_int_value(v) == IF v[1] = "int" /\ v[2] > 0 THEN v ELSE Raised

_optional_int(v) == IF v = Null THEN Null ELSE _require_int_value(v)

_optional_exit_code(v) == IF v = Null \/ (v[1] = "int" /\ v[2] \in 0 .. 255) THEN v ELSE Raised

_optional_float(v) == IF v = Null \/ v[1] = "int" THEN v ELSE Raised

_as_bool(v) == IF v[1] = "bool" THEN v ELSE Raised

_optional_bool(v) == IF v = Null THEN Null ELSE _as_bool(v)

_optional_path(v) == IF v = Null \/ (v[1] = "str" /\ v[2] \in DOMAIN Paths) THEN v ELSE Raised

_identifier_value(v) == IF v[1] = "str" /\ v[2] \in Identifiers THEN v ELSE Raised

_optional_identifier(v) == IF v = Null THEN Null ELSE _identifier_value(v)

_domain_value(v) == IF v[1] = "str" /\ v[2] \in DOMAIN Domains THEN Str(Domains[v[2]]) ELSE Raised

_optional_domain(v) == IF v = Null THEN Null ELSE _domain_value(v)

\* A prefix is neither the root nor ends in a slash.
_optional_http_path(v, kind) ==
    IF v = Null THEN Null
    ELSE When(kind = "prefix" => Paths[v[2]][Len(Paths[v[2]])] # "", _optional_path(v))

_optional_environment(v) ==
    IF v = Null \/ (v[1] = "str" /\ v[2] \in {"dev", "staging", "production"}) THEN v ELSE Raised

\* A status of an HTTP answer; in a check a boolean is an integer, as in Python.
_status(v) == IF v[1] = "int" /\ v[2] \in 100 .. 599 THEN v ELSE Raised

-----------------------------------------------------------------------------
(* Lists, mappings and sections.                                           *)

ListOf(v, Item(_)) ==
    IF v = Null THEN List(<<>>)
    ELSE IF v[1] # "list" THEN Raised
    ELSE LET items == [i \in DOMAIN v[2] |-> Item(v[2][i])]
         IN  IF Raised \in Range(items) THEN Raised ELSE List(items)

MapOf(v, Value(_)) ==
    IF v = Null THEN Map(NoKeys)
    ELSE IF v[1] # "map" THEN Raised
    ELSE LET values == [k \in DOMAIN v[2] |-> Value(v[2][k])]
         IN  IF "" \in DOMAIN values \/ Raised \in Range(values) THEN Raised ELSE Map(values)

_json_compatible(v) == IF v = <<"date">> THEN Raised ELSE v

_string_list(v) == ListOf(v, _require_str)

_identifier_list(v) == ListOf(v, _identifier_value)

\* Values of an env mapping are made strings.
StringOf(v) == CASE v[1] = "str" -> v [] v[1] \in {"int", "bool"} -> <<"str", v>> [] OTHER -> Raised

_mapping_as_str_dict(v) == MapOf(v, StringOf)

_parse_optional_mapping(v) == MapOf(v, _json_compatible)

_parse_optional_data_action(v) ==
    IF v[1] = "map" THEN _parse_optional_mapping(v) ELSE _optional_str(v)

_parse_list_of_mappings(v) ==
    IF v[1] = "map" THEN When(_parse_optional_mapping(v) # Raised, List(<<_parse_optional_mapping(v)>>))
    ELSE ListOf(v, LAMBDA m : IF m[1] = "map" THEN _parse_optional_mapping(m) ELSE Raised)

\* A string is split as a shell would; an empty list is refused.
_optional_command(v) ==
    IF v[1] = "str" THEN IF v[2] # "" THEN List(<<v>>) ELSE Raised
    ELSE IF v = Null THEN Null
    ELSE When(v[2] # <<>>, _string_list(v))

_parse_expect_json(v) == IF v = Null THEN Null ELSE _parse_optional_mapping(v)

_parse_json_assertions(v) ==
    ListOf(v, LAMBDA a : IF a[1] = "map" THEN _parse_optional_mapping(a) ELSE _require_str(a))

\* A section whose fields are f; it is refused when it is no mapping or a field
\* raises.  Absent, it is the one with every default.
Section(raw, f) ==
    IF (raw # Null /\ raw[1] # "map") \/ Raised \in Range(f) THEN Raised ELSE Obj(f)

OptionalSection(raw, f) == IF raw = Null THEN Null ELSE Section(raw, f)

\* Keys nobody reads stay with the section when JSON can carry them.
Extra(raw, known) ==
    IF raw[1] # "map" THEN Map(NoKeys)
    ELSE _parse_optional_mapping(Map([k \in DOMAIN raw[2] \ known |-> raw[2][k]]))

-----------------------------------------------------------------------------
(* Services and routes.                                                    *)

_parse_healthcheck(raw) ==
    Section(raw, [path |-> When(GetOr(raw, "path", Str("/health")) # Null,
                                _optional_path(GetOr(raw, "path", Str("/health")))),
                  interval |-> Or(_optional_str(Get(raw, "interval")), Str("10s")),
                  timeout |-> Or(_optional_str(Get(raw, "timeout")), Str("5s")),
                  retries |-> _require_int_value(GetOr(raw, "retries", Num(5))),
                  command |-> _string_list(Get(raw, "command"))])

MountOf(raw) ==
    IF raw[1] # "map" THEN Raised
    ELSE Section(raw, [source |-> _require_str(Get(raw, "source")),
                       target |-> When(Get(raw, "target") # Null, _optional_path(Get(raw, "target"))),
                       read_only |-> _as_bool(GetOr(raw, "read_only", Bool(TRUE))),
                       bind |-> _as_bool(GetOr(raw, "bind", Bool(FALSE)))])

_parse_mounts(raw) == ListOf(raw, MountOf)

ServiceOf(name, raw) ==
    IF raw[1] # "map" THEN Raised
    ELSE Section(raw, [name |-> _identifier_value(Str(name)),
                       port |-> _require_int_value(Get(raw, "port")),
                       host_port |-> _optional_int(Get(raw, "host_port")),
                       image |-> _optional_str(Get(raw, "image")),
                       command |-> _string_list(Get(raw, "command")),
                       env |-> _mapping_as_str_dict(Get(raw, "env")),
                       env_files |-> _string_list(Get(raw, "env_files")),
                       mounts |-> _parse_mounts(Get(raw, "mounts")),
                       healthcheck |-> _parse_healthcheck(Get(raw, "healthcheck"))])

_parse_services(raw) ==
    IF raw = Null THEN Map(NoKeys)
    ELSE IF raw[1] # "map" THEN Raised
    ELSE LET services == [n \in DOMAIN raw[2] |-> ServiceOf(n, raw[2][n])]
         IN  IF Raised \in Range(services) THEN Raised ELSE Map(services)

RouteOf(raw) ==
    IF raw[1] # "map" THEN Raised
    ELSE Section(raw, [domain |-> _domain_value(Get(raw, "domain")),
                       service |-> _optional_identifier(Get(raw, "service")),
                       upstream |-> _optional_str(Get(raw, "upstream")),
                       path |-> _optional_http_path(Get(raw, "path"), "exact"),
                       path_prefix |-> _optional_http_path(Get(raw, "path_prefix"), "prefix"),
                       strip_prefix |-> _optional_http_path(Get(raw, "strip_prefix"), "prefix"),
                       rewrite_prefix |-> _optional_http_path(Get(raw, "rewrite_prefix"), "exact")])

_parse_routes(raw) == IF raw[1] # "list" \/ raw[2] = <<>> THEN Raised ELSE ListOf(raw, RouteOf)

-----------------------------------------------------------------------------
(* The edge, resources, and the other small sections.                      *)

_parse_addons(raw) ==
    Section(raw, [postgres |-> _as_bool(GetOr(raw, "postgres", Bool(FALSE))),
                  redis |-> _as_bool(GetOr(raw, "redis", Bool(FALSE)))])

_parse_on_demand_tls(raw) ==
    OptionalSection(raw, [ask |-> When(Get(raw, "ask")[2] \in DOMAIN Urls, _require_str(Get(raw, "ask")))])

\* Certificate files come in pairs, and turn the default mode into custom.
_parse_edge_tls(raw) ==
    LET mode == Or(_optional_str(Get(raw, "mode")), Str("auto"))
        cert == _optional_str(Get(raw, "cert_file"))
        key == _optional_str(Get(raw, "key_file"))
        files == cert # Null \/ key # Null
        pair == cert # Null /\ key # Null
    IN  OptionalSection(raw,
            [mode |-> When(/\ mode \in {Str("auto"), Str("internal"), Str("custom")}
                           /\ files => pair /\ mode # Str("internal")
                           /\ mode = Str("custom") => pair,
                           IF files /\ mode = Str("auto") THEN Str("custom") ELSE mode),
             cert_file |-> cert, key_file |-> key])

_parse_catch_all_edge(raw) ==
    OptionalSection(raw,
        [service |-> _optional_identifier(Get(raw, "service")),
         upstream |-> _optional_str(Get(raw, "upstream")),
         http_redirect |-> _as_bool(GetOr(raw, "http_redirect", Bool(TRUE))),
         http_redirect_status |-> Or(_optional_int(Get(raw, "http_redirect_status")), Num(308))])

_parse_edge(raw) ==
    Section(raw, [on_demand_tls |-> _parse_on_demand_tls(Get(raw, "on_demand_tls")),
                  tls |-> _parse_edge_tls(Get(raw, "tls")),
                  catch_all |-> _parse_catch_all_edge(Get(raw, "catch_all"))])

_parse_resources(raw) == Section(raw, [memory |-> _require_str(GetOr(raw, "memory", Str("256m")))])

OneOf(v, default, allowed) ==
    LET s == Or(_optional_str(v), Str(default)) IN When(s[2] \in allowed, s)

_parse_verification_policy(raw) ==
    LET interval == _optional_float(Get(raw, "interval"))
        timeout == _optional_float(Get(raw, "timeout"))
    IN  Section(raw,
            [attempts |-> Or(_optional_int(Get(raw, "attempts")), Num(12)),
             interval |-> When(interval # Null => interval[2] >= 0, Or(interval, Num(5))),
             timeout |-> When(timeout # Null => timeout[2] > 0, Or(timeout, Num(10))),
             failure_mode |-> OneOf(Get(raw, "failure_mode"), "hard", {"hard", "warn"})])

_parse_console(raw) ==
    OptionalSection(raw, [surface |-> OneOf(Get(raw, "surface"), "console", {"console", "root"}),
                          admin_domain |-> _optional_domain(Get(raw, "admin_domain")),
                          console_asset_path |-> _optional_str(Get(raw, "console_asset_path"))])

_parse_pack(raw) ==
    LET portability == _optional_str(Get(raw, "portability"))
    IN  Section(raw, [portability |-> When(portability # Null =>
                                              portability[2] \in {"critical", "standard", "static"},
                                           portability),
                      owner |-> _optional_str(Get(raw, "owner")),
                      description |-> _optional_str(Get(raw, "description")),
                      deploy_binding_file |-> _optional_str(Get(raw, "deploy_binding_file"))])

_parse_host_requirements(raw) ==
    Section(raw, [arch |-> _optional_str(Get(raw, "arch")),
                  min_memory |-> _optional_str(Get(raw, "min_memory")),
                  min_disk_free |-> _optional_str(Get(raw, "min_disk_free")),
                  requires_edge |-> _optional_bool(Get(raw, "requires_edge")),
                  requires_docker |-> _optional_bool(Get(raw, "requires_docker"))])

_parse_networking(raw) ==
    Section(raw, [edge |-> OneOf(Get(raw, "edge"), "shared", {"shared"}),
                  internal |-> OneOf(Get(raw, "internal"), "shared", {"shared", "per-app"})])

-----------------------------------------------------------------------------
(* Verification checks.                                                    *)

\* The type a check without one has.
CheckType(raw) ==
    IF Get(raw, "type") # Null THEN _optional_str(Get(raw, "type"))
    ELSE Str(IF Get(raw, "command") # Null THEN "command"
             ELSE IF Get(raw, "path") # Null THEN "internal" ELSE "http")

_parse_internal_loopback_url(url) ==
    When(url[2] \in DOMAIN Urls /\ Urls[url[2]].http /\ Urls[url[2]].loopback /\ Urls[url[2]].plain, url)

CheckUrl(type, url) ==
    CASE type = "http" -> When(url # Null /\ url[2] \in DOMAIN Urls /\ Urls[url[2]].plain, url)
      [] type = "internal" /\ url # Null -> _parse_internal_loopback_url(url)
      [] OTHER -> When(url = Null, url)

\* The path of an internal check is its own or that of its loopback URL.
CheckPath(type, url, path) ==
    IF type = "internal" /\ url # Null
    THEN When(path \in {Null, Str(Urls[url[2]].path)}, Str(Urls[url[2]].path))
    ELSE path

CheckOf(raw) ==
    LET type == CheckType(raw)
        given == _optional_str(Get(raw, "url"))
        url == IF type = Raised \/ given = Raised THEN Raised ELSE CheckUrl(type[2], given)
        own == _optional_path(Get(raw, "path"))
        path == IF url = Raised \/ own = Raised THEN Raised ELSE CheckPath(type[2], url, own)
        service == _optional_identifier(Get(raw, "service"))
        command == _optional_command(Get(raw, "command"))
        exit == _optional_exit_code(Get(raw, "expect_exit"))
        fits == CASE type = Str("command") -> service # Null /\ command # Null /\ path = Null
                  [] type = Str("internal") -> service # Null /\ path # Null /\ command = Null
                  [] type = Str("http") -> command = Null /\ path = Null
                  [] OTHER -> FALSE
    IN  IF raw[1] # "map" THEN Raised
        ELSE When(fits, Section(raw,
                [type |-> type, url |-> url, path |-> path, service |-> service, command |-> command,
                 method |-> Or(_optional_str(Get(raw, "method")), Str("GET")),
                 expect_exit |-> IF type = Str("command") THEN Or(exit, Num(0)) ELSE exit,
                 expect_status |-> _status(GetOr(raw, "expect_status", Num(200))),
                 contains |-> _optional_str(Get(raw, "contains")),
                 name |-> _optional_str(Get(raw, "name")),
                 expect_json |-> _parse_expect_json(Get(raw, "expect_json")),
                 json_assertions |-> _parse_json_assertions(Get(raw, "json_assertions"))]))

_parse_verifications(raw) == ListOf(raw, CheckOf)

-----------------------------------------------------------------------------
(* Data, lifecycle, hooks and observability keep what they do not know.    *)

_parse_data_service(raw, default_mode) ==
    OptionalSection(raw,
        [mode |-> Or(_optional_str(Get(raw, "mode")), Str(default_mode)),
         inferred_from_addon |-> _as_bool(GetOr(raw, "inferred_from_addon", Bool(FALSE))),
         database |-> _optional_str(Get(raw, "database")),
         service |-> _optional_identifier(Get(raw, "service")),
         class_name |-> _optional_str(Get(raw, "class")),
         durable |-> _optional_bool(Get(raw, "durable")),
         export |-> _parse_optional_mapping(Get(raw, "export")),
         import_config |-> _parse_optional_mapping(Get(raw, "import")),
         verify |-> _parse_optional_mapping(Get(raw, "verify")),
         extra |-> Extra(raw, {"mode", "inferred_from_addon", "database", "service", "class",
                               "durable", "export", "import", "verify"})])

VolumeOf(raw) ==
    IF raw[1] # "map" THEN Raised
    ELSE Section(raw,
        [name |-> _identifier_value(Get(raw, "name")),
         mount |-> _optional_str(Get(raw, "mount")),
         source |-> _optional_str(Get(raw, "source")),
         service |-> _optional_identifier(Get(raw, "service")),
         class_name |-> _optional_str(Get(raw, "class")),
         export |-> _parse_optional_data_action(Get(raw, "export")),
         import_config |-> _parse_optional_data_action(Get(raw, "import")),
         verify |-> _parse_optional_mapping(Get(raw, "verify")),
         extra |-> Extra(raw, {"name", "mount", "source", "service", "class", "export", "import", "verify"})])

_parse_data_volumes(raw) == ListOf(raw, VolumeOf)

_optional_offsite_target(v) ==
    When(v # Null /\ v[2] \in DOMAIN Urls => Urls[v[2]].plain, _optional_str(v))

_parse_offsite_backup(raw) ==
    OptionalSection(raw,
        [provider |-> _optional_str(Get(raw, "provider")),
         target |-> _optional_offsite_target(Get(raw, "target")),
         retention_days |-> _optional_int(Get(raw, "retention_days")),
         encryption_required |-> _optional_bool(Get(raw, "encryption_required")),
         restore_rehearsal_cadence_days |-> _optional_int(Get(raw, "restore_rehearsal_cadence_days")),
         last_rehearsal_ref |-> _optional_str(Get(raw, "last_rehearsal_ref")),
         extra |-> Extra(raw, {"provider", "target", "retention_days", "encryption_required",
                               "restore_rehearsal_cadence_days", "last_rehearsal_ref"})])

_parse_data_backups(raw) ==
    LET Flag(k) == _as_bool(GetOr(raw, k, Bool(FALSE)))
    IN  OptionalSection(raw,
            [required |-> Flag("required"), restore_drill_required |-> Flag("restore_drill_required"),
             offsite_required |-> Flag("offsite_required"),
             offsite |-> _parse_offsite_backup(Get(raw, "offsite")),
             extra |-> Extra(raw, {"required", "restore_drill_required", "offsite_required", "offsite"})])

\* A service that comes with an addon is declared by the addon alone.
Inferred(parsed, addon, mode) ==
    IF parsed = Null /\ addon = Bool(TRUE)
    THEN _parse_data_service(Map([mode |-> Str(mode), inferred_from_addon |-> Bool(TRUE)]), mode)
    ELSE parsed

_parse_data(raw, addons) ==
    Section(raw,
        [postgres |-> Inferred(_parse_data_service(Get(raw, "postgres"), "shared-postgres-database"),
                               addons[2].postgres, "shared-postgres-database"),
         redis |-> Inferred(_parse_data_service(Get(raw, "redis"), "redis-logical-db"),
                            addons[2].redis, "redis-logical-db"),
         volumes |-> _parse_data_volumes(Get(raw, "volumes")),
         object_storage |-> _parse_list_of_mappings(Get(raw, "object_storage")),
         static_assets |-> _parse_list_of_mappings(Get(raw, "static_assets")),
         external_services |-> _parse_list_of_mappings(Get(raw, "external_services")),
         backups |-> _parse_data_backups(Get(raw, "backups")),
         extra |-> Extra(raw, {"postgres", "redis", "volumes", "object_storage", "static_assets",
                               "external_services", "backups"})])

_parse_lifecycle(raw) ==
    Section(raw, [live |-> _as_bool(GetOr(raw, "live", Bool(TRUE))),
                  data_can_be_reset |-> _as_bool(GetOr(raw, "data_can_be_reset", Bool(FALSE))),
                  production_apply_allowed |-> _as_bool(GetOr(raw, "production_apply_allowed", Bool(TRUE))),
                  extra |-> Extra(raw, {"live", "data_can_be_reset", "production_apply_allowed"})])

_parse_hooks(raw) ==
    LET known == {"pre_export", "freeze", "unfreeze", "post_import", "post_cutover"}
    IN  Section(raw, [k \in known |-> _optional_str(Get(raw, k))] @@ [extra |-> Extra(raw, known)])

HealthUrl(v) == When(v # Null => v[2] \in DOMAIN Urls /\ Urls[v[2]].plain, _optional_str(v))

_parse_observability_health(raw) ==
    OptionalSection(raw, [url |-> HealthUrl(Get(raw, "url")),
                          expect_status |-> _status(GetOr(raw, "expect_status", Num(200)))])

_parse_observability_metrics(raw) ==
    OptionalSection(raw, [url |-> HealthUrl(Get(raw, "url")),
                          format |-> OneOf(Get(raw, "format"), "prometheus", {"prometheus", "json", "none"}),
                          auth |-> OneOf(Get(raw, "auth"), "none", {"none", "bearer_env", "basic_env"})])

_parse_observability_logs(raw) ==
    OptionalSection(raw, [containers |-> _as_bool(GetOr(raw, "containers", Bool(TRUE))),
                          retain_days |-> _require_int_value(GetOr(raw, "retain_days", Num(14)))])

_parse_observability(raw) ==
    Section(raw, [health |-> _parse_observability_health(Get(raw, "health")),
                  metrics |-> _parse_observability_metrics(Get(raw, "metrics")),
                  logs |-> _parse_observability_logs(Get(raw, "logs")),
                  extra |-> Extra(raw, {"health", "metrics", "logs"})])

-----------------------------------------------------------------------------
(* What the parts must be together.  m is the record of the manifest, whose *)
(* fields are parsed values.                                               *)

ServiceKinds == {"service", "multi-service"}
Services(m) == DOMAIN m.services[2]
RoutesOf(m) == Range(m.routes[2])
VolumesOf(m) == m.data[2].volumes[2]

_validate_env_key_names(m) ==
    /\ DOMAIN m.env[2] \subseteq EnvNames
    /\ \A k \in Range(m.required_env[2]) : k[2] \in EnvNames
    /\ \A s \in Services(m) : DOMAIN m.services[2][s][2].env[2] \subseteq EnvNames

HostPort(m, s) == m.services[2][s][2].host_port

_validate_host_ports(m) ==
    \A s, t \in Services(m) : s # t /\ HostPort(m, s) # Null => HostPort(m, s) # HostPort(m, t)

\* What a route matches: an exact path, a prefix, or the rest of its domain.
RouteKey(r) ==
    IF r[2].path # Null THEN <<r[2].domain, "path", r[2].path>>
    ELSE IF r[2].path_prefix # Null THEN <<r[2].domain, "path_prefix", r[2].path_prefix>>
    ELSE <<r[2].domain, "default", Str("*")>>

_validate_proxy_routes(m) ==
    /\ \A r \in RoutesOf(m) :
          /\ r[2].service = Null \/ r[2].upstream = Null
          /\ r[2].path = Null \/ (r[2].path_prefix = Null /\ r[2].strip_prefix = Null)
          /\ r[2].service # Null => r[2].service[2] \in Services(m)
          /\ r[2].service # Null \/ r[2].upstream # Null
             \/ (m.kind[2] = "tunnel" /\ m.tunnel_target # Null)
    /\ \A i, j \in DOMAIN m.routes[2] : i # j => RouteKey(m.routes[2][i]) # RouteKey(m.routes[2][j])

_validate_non_proxy_routes(m) ==
    \A r \in RoutesOf(m) : \A k \in DOMAIN r[2] \ {"domain"} : r[2][k] = Null

RedirectStatuses == {Num(301), Num(302), Num(307), Num(308)}

_validate_edge(m) ==
    LET c == m.edge[2].catch_all
    IN  c # Null =>
          /\ m.kind[2] \in ServiceKinds \cup {"tunnel"}
          /\ m.edge[2].on_demand_tls # Null
          /\ (c[2].service = Null) # (c[2].upstream = Null)
          /\ c[2].service # Null => c[2].service[2] \in Services(m)
          /\ c[2].http_redirect_status \in RedirectStatuses

_validate_data_volumes(m) ==
    /\ \A i, j \in DOMAIN VolumesOf(m) : i # j => VolumesOf(m)[i][2].name # VolumesOf(m)[j][2].name
    /\ \A v \in Range(VolumesOf(m)) :
          /\ v[2].service # Null => v[2].service[2] \in Services(m)
          /\ v[2].mount # Null =>
                /\ v[2].mount[2] \in DOMAIN Paths
                /\ m.kind[2] \in ServiceKinds
                /\ v[2].service # Null \/ Cardinality(Services(m)) = 1

\* "app" stands for the only service.
_validate_verification_checks(m) ==
    \A c \in Range(m.verify[2]) : c[2].type[2] \in {"command", "internal"} =>
        /\ m.kind[2] \in ServiceKinds
        /\ c[2].service[2] \in Services(m) \/ (c[2].service[2] = "app" /\ Cardinality(Services(m)) = 1)

_validate_manifest(m) ==
    /\ m.kind[2] \in ServiceKinds \cup {"static", "tunnel", "redirect"}
    /\ m.profile \in {Null, Str("console")}
    /\ _validate_env_key_names(m)
    /\ m.kind[2] \in ServiceKinds =>
          /\ Services(m) # {}
          /\ m.image = Null => \A s \in Services(m) : m.services[2][s][2].image # Null
          /\ _validate_host_ports(m)
    /\ m.kind[2] \in {"static", "redirect"} => Services(m) = {} /\ m.image = Null
    /\ m.kind[2] = "redirect" => m.redirect_to # Null /\ m.redirect_status \in RedirectStatuses
    /\ m.kind[2] = "static" => m.static_root # Null
    /\ m.kind[2] = "tunnel" => m.tunnel_target # Null \/ \E r \in RoutesOf(m) : r[2].upstream # Null
    /\ m.profile = Str("console") =>
          /\ m.kind[2] \in ServiceKinds /\ m.console # Null
          /\ m.console[2].admin_domain # Null =>
                \E r \in RoutesOf(m) : r[2].service # Null \/ r[2].upstream # Null
    /\ IF m.kind[2] \in ServiceKinds \cup {"tunnel"} THEN _validate_proxy_routes(m)
       ELSE _validate_non_proxy_routes(m)
    /\ _validate_edge(m) /\ _validate_data_volumes(m) /\ _validate_verification_checks(m)

\* Without a capability no absolute path is a source, and every source exists.
_resolve_manifest_source(v) == v[2] \in Sources

_validate_source_paths(m) ==
    /\ \A f \in Range(m.env_files[2]) : _resolve_manifest_source(f)
    /\ \A s \in Services(m) :
          /\ \A f \in Range(m.services[2][s][2].env_files[2]) : _resolve_manifest_source(f)
          /\ \A mount \in Range(m.services[2][s][2].mounts[2]) : _resolve_manifest_source(mount[2].source)

ManifestOf(raw) ==
    LET addons == _parse_addons(Get(raw, "addons"))
    IN  Section(raw,
        [version |-> When(Get(raw, "version") = Num(1), Num(1)),
         app |-> _identifier_value(Get(raw, "app")), kind |-> _require_str(Get(raw, "kind")),
         environment |-> _optional_environment(Get(raw, "environment")),
         profile |-> _optional_str(Get(raw, "profile")), image |-> _optional_str(Get(raw, "image")),
         env |-> _mapping_as_str_dict(Get(raw, "env")),
         required_env |-> _string_list(Get(raw, "required_env")),
         env_files |-> _string_list(Get(raw, "env_files")),
         addons |-> addons, resources |-> _parse_resources(Get(raw, "resources")),
         routes |-> _parse_routes(Get(raw, "routes")), services |-> _parse_services(Get(raw, "services")),
         edge |-> _parse_edge(Get(raw, "edge")), verify |-> _parse_verifications(Get(raw, "verify")),
         verify_policy |-> _parse_verification_policy(Get(raw, "verify_policy")),
         console |-> _parse_console(Get(raw, "console")), pack |-> _parse_pack(Get(raw, "pack")),
         host_requirements |-> _parse_host_requirements(Get(raw, "host_requirements")),
         networking |-> _parse_networking(Get(raw, "networking")),
         data |-> IF addons = Raised THEN Raised ELSE _parse_data(Get(raw, "data"), addons),
         hooks |-> _parse_hooks(Get(raw, "hooks")),
         observability |-> _parse_observability(Get(raw, "observability")),
         lifecycle |-> _parse_lifecycle(Get(raw, "lifecycle")),
         static_root |-> _optional_str(Get(raw, "static_root")),
         tunnel_target |-> _optional_str(Get(raw, "tunnel_target")),
         redirect_to |-> _optional_str(Get(raw, "redirect_to")),
         redirect_status |-> Or(_optional_int(Get(raw, "redirect_status")), Num(308)),
         depends_on |-> _identifier_list(Get(raw, "depends_on")),
         deployment_order |-> _optional_int(Get(raw, "deployment_order")),
         migration_before |-> _string_list(Get(raw, "migration_before")),
         verify_before_next |-> _as_bool(GetOr(raw, "verify_before_next", Bool(FALSE)))])

\* A lock is read from a bundle, away from the sources of the manifest.
load_manifest(raw, lock) ==
    LET m == ManifestOf(raw)
    IN  When(raw[1] = "map" /\ _validate_manifest(m[2]) /\ (lock \/ _validate_source_paths(m[2])), m)

-----------------------------------------------------------------------------
(* The lock written beside the rendered files.                             *)

LockKey(k) == CASE k = "import_config" -> "import" [] k = "class_name" -> "class" [] OTHER -> k

RECURSIVE _export_manifest_value(_)

\* Faulty variant: what a section kept without knowing it is left behind.
RECURSIVE ExportKnown(_)
ExportKnown(v) ==
    CASE v[1] = "obj" ->
           Map([k \in {LockKey(f) : f \in {g \in DOMAIN v[2] \ {"extra"} : v[2][g] # Null}} |->
                    ExportKnown(v[2][CHOOSE f \in DOMAIN v[2] : LockKey(f) = k])])
      [] v[1] = "map" -> Map([k \in DOMAIN v[2] |-> ExportKnown(v[2][k])])
      [] v[1] = "list" -> List([i \in DOMAIN v[2] |-> ExportKnown(v[2][i])])
      [] OTHER -> v

\* Fields without a value are left out, and unknown keys join the known ones.
_export_manifest_value(v) ==
    CASE v[1] = "obj" ->
           LET fields == {f \in DOMAIN v[2] \ {"extra"} : v[2][f] # Null}
               known == [k \in {LockKey(f) : f \in fields} |->
                            _export_manifest_value(v[2][CHOOSE f \in fields : LockKey(f) = k])]
           IN  Map(IF "extra" \in DOMAIN v[2] THEN v[2].extra[2] @@ known ELSE known)
      [] v[1] = "map" -> Map([k \in DOMAIN v[2] |-> _export_manifest_value(v[2][k])])
      [] v[1] = "list" -> List([i \in DOMAIN v[2] |-> _export_manifest_value(v[2][i])])
      [] OTHER -> v
=============================================================================
