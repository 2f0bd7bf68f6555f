---------------------------- MODULE ReceiptIndex ----------------------------
(* Receipts as an operator finds them: files below the runtime root, the   *)
(* terminal receipts of the journal and the product receipts that wrap     *)
(* them are read one place after the other, merged by receipt id, and a    *)
(* reference is resolved to one of them while receipts are being written.  *)
EXTENDS Naturals, FiniteSets, SequencesExt, TLC

CONSTANTS
    Places,       \* the receipt files, in the order of their paths
    Drafts,       \* what may be written to each of them
    Terminals,    \* the terminal receipts the journal may commit
    Foreign,      \* product receipts of another host, sound by themselves
    Links,        \* the sets of roots, places and "database" behind a symlink
    Queries,      \* what an operator may ask
    Operations,   \* operation names with a dot in them
    IdOrder,      \* receipt ids, in string order
    MaxDamage     \* stored things that get damaged

VARIABLES
    stored,       \* place -> <<"absent">>, <<"torn">> or <<"whole", payload>>
    rows,         \* receipt id -> row of terminal_receipts
    database,     \* "ok", "unreadable" or "incomplete"
    linked,       \* what is behind a symlink
    damage,       \* damage so far
    query,        \* <<>> or <<what is asked>>
    reading,      \* the place to read next; the journal comes after them
    found,        \* the records read
    warnings,     \* the warnings of the scan
    answer,       \* <<>> or <<the resolution>>
    before        \* the receipts the journal had when the operator asked

receiptVars == <<stored, rows, database, linked, damage, query, reading, found, warnings, answer, before>>

AtJournal == Len(Places) + 1
AtAnswer == Len(Places) + 2
Answered == Len(Places) + 3

\* The first value that is not empty, as Python's `or` picks it.
Said(values, empty) ==
    IF \E i \in DOMAIN values : values[i] # empty
    THEN values[CHOOSE i \in DOMAIN values :
                  values[i] # empty /\ \A j \in 1 .. i - 1 : values[j] = empty]
    ELSE empty

-----------------------------------------------------------------------------
(* receipt_sources.py.  A digest is modelled by what it is a digest of.    *)

TerminalOf(p) == IF p.nested # <<>> THEN p.nested[1] ELSE p

_receipt_id(i, p, stored_id) ==
    Said(<<stored_id, p.receipt_id, p.operation_id, p.backup_id, Places[i].stem>>, <<>>)

_operation_from_receipt_path(i) ==
    CASE Places[i].name = "backup-manifest.json" -> "backup.create"
      [] Places[i].name = "restore-report.json" -> "restore.apply"
      [] "rollback" \in Places[i].within -> "rollback.apply"
      [] OTHER -> Places[i].dotted

_record_from_payload(path, id, fallback, owner, environment, p, source) ==
    LET t == TerminalOf(p) IN
    [receipt_id |-> id, path |-> path, source |-> source, sources |-> {source}, locators |-> {}, readable |-> TRUE,
     aliases |-> {p.verify_id, t.verify_id} \ {<<>>, id},
     operation |-> Said(<<p.operation, t.operation, fallback>>, ""),
     status |-> Said(<<p.status, t.status, t.outcome, "unknown">>, ""),
     app |-> Said(<<p.app, t.app, owner>>, ""),
     environment |-> Said(<<p.environment, t.environment, environment>>, ""),
     started |-> Said(<<p.started, t.started, p.created>>, 0),
     completed |-> Said(<<p.completed, t.completed, p.created>>, 0)]

\* A receipt whose id is known and whose payload cannot be trusted.
InvalidRecord(id, path, source, operation, owner, environment) ==
    [receipt_id |-> id, path |-> path, source |-> source, sources |-> {source}, locators |-> {}, readable |-> FALSE,
     aliases |-> {}, operation |-> operation, status |-> "invalid", app |-> owner, environment |-> environment,
     started |-> 0, completed |-> 0]

_invalid_journal_record(id) == InvalidRecord(id, <<"sqlite", id>>, "journal", "kernel.receipt", "", "")

IsProduct(p) == p.kind \in {"ophelia.product-operation-receipt", "ophelia.product-recovery-receipt"}

_product_wrapper_integrity_warning(p) ==
    /\ IsProduct(p)
    /\ ~ /\ p.nested # <<>>
         /\ LET n == p.nested[1] IN
            /\ n.kind = "ophelia.kernel.terminal_receipt" /\ n.receipt_id # <<>>
            /\ p.digest = <<n>>
            /\ p.operation = n.operation
            /\ p.status = Said(<<n.status, n.outcome>>, "")
            /\ p.app # "" => p.app = n.app
            /\ p.environment # "" => p.environment = n.environment
            /\ p.product_id # "" => p.product_id = n.app
            /\ p.inputs_redacted /\ n.inputs_redacted

_journal_storage_integrity_warning(row) ==
    ~ /\ row.digest = row.payload
      /\ row.operation_id = row.payload[1].operation_id
      /\ row.outcome = row.payload[1].outcome

_journal_contract_warning(id, p) ==
    ~ (p.receipt_id = id /\ p.kind = "ophelia.kernel.terminal_receipt" /\ p.inputs_redacted)

\* What the symlinks leave of the discovered roots.
_is_safe_runtime_path(i) == linked \cap Places[i].within = {}

_open_read_only == database # "unreadable" /\ "database" \notin linked

_journal_columns == database # "incomplete"

\* A row with its payload, or without it when that is not what was stored.
_journal_rows(id) ==
    LET row == rows[id] IN
    CASE row.payload = <<>> -> <<{<<"receipt_journal_payload_invalid", id>>}, <<>>>>
      [] row.payload # <<>> /\ _journal_storage_integrity_warning(row) ->
            <<{<<"receipt_journal_integrity_failed", id>>}, <<>>>>
      [] OTHER -> <<{}, row.payload>>

_journal_receipt_payload(id) ==
    IF ~_open_read_only \/ ~_journal_columns \/ id \notin DOMAIN rows THEN <<>>
    ELSE LET payload == _journal_rows(id)[2] IN
         IF payload # <<>> /\ _journal_contract_warning(id, payload[1]) THEN <<>> ELSE payload

_read_json(i) == IF stored[i][1] = "whole" THEN <<stored[i][2]>> ELSE <<>>

FilePayload(i) ==
    LET payload == _read_json(i) IN
    IF payload # <<>> /\ _product_wrapper_integrity_warning(payload[1]) THEN <<>> ELSE payload

receipt_payload(record) ==
    CASE ~record.readable -> <<>>
      [] record.readable /\ record.source = "journal" -> _journal_receipt_payload(record.receipt_id)
      [] OTHER -> FilePayload(record.path[2])

_receipt_payloads_equivalent(first, second) ==
    receipt_payload(first) # <<>> /\ receipt_payload(first) = receipt_payload(second)

\* Faulty variant: a wrapper is taken for what its own digest covers.
TrustWrapper(product, journal) ==
    ~ \E p \in Range(receipt_payload(product)) : p.digest = p.nested

_product_journal_integrity_warning(product, journal) ==
    ~ \E p \in Range(receipt_payload(product)), j \in Range(receipt_payload(journal)) :
         /\ p.nested = <<j>> /\ p.digest = <<j>>
         /\ p.operation \in {"", j.operation} /\ p.status \in {"", Said(<<j.status, j.outcome>>, "")}
         /\ p.app \in {"", j.app} /\ p.environment \in {"", j.environment}

_record_with_source_metadata(record) ==
    [record EXCEPT !.sources = @ \cup {record.source}, !.locators = {record.path}]

_merge_source_metadata(primary, secondary) ==
    [_record_with_source_metadata(primary) EXCEPT
        !.sources = @ \cup {secondary.source} \cup secondary.sources,
        !.locators = @ \cup secondary.locators \cup {secondary.path},
        !.aliases = @ \cup (IF secondary.readable THEN secondary.aliases ELSE {})]

_record_for_source(first, second, source) == SelectSeq(<<first, second>>, LAMBDA r : r.source = source)

Priority(record) == CASE record.source = "file" -> 1 [] record.source = "journal" -> 2 [] OTHER -> 3

Preferred(record, existing) ==
    \/ Priority(record) > Priority(existing)
    \/ (Priority(record) = Priority(existing) /\ record.path[2] < existing.path[2])

\* The record kept of two with one id, the other one, and what is warned of.
Merged(existing, record) ==
    LET kept == IF Preferred(record, existing) THEN <<record, existing>> ELSE <<existing, record>>
        product == _record_for_source(existing, record, "product")
        journal == _record_for_source(existing, record, "journal")
        authoritative == <<journal[1], product[1]>>
    IN IF product # <<>> /\ journal # <<>>
       THEN CASE ~product[1].readable -> authoritative \o <<{}>>
              [] product[1].readable /\ _product_journal_integrity_warning(product[1], journal[1]) ->
                    authoritative \o <<{<<"receipt_correlation_integrity_failed", record.receipt_id>>}>>
              [] OTHER -> kept \o <<{}>>
       ELSE kept \o <<IF _receipt_payloads_equivalent(existing, record) THEN {}
                      ELSE {<<"receipt_identity_collision", record.receipt_id>>}>>

AddRecord(scan, record) ==
    LET id == record.receipt_id IN
    IF id \notin DOMAIN scan.by_id
    THEN [scan EXCEPT !.by_id = @ @@ (id :> _record_with_source_metadata(record))]
    ELSE LET merge == Merged(scan.by_id[id], record) IN
         [scan EXCEPT !.by_id[id] = _merge_source_metadata(merge[1], merge[2]), !.warnings = @ \cup merge[3]]

receipt_scan(records, warned) == FoldLeft(AddRecord, [by_id |-> <<>>, warnings |-> warned], records)

\* One file, as _file_receipt_records reads it.
FileRecord(i) ==
    LET p == stored[i][2]
        source == IF IsProduct(p) \/ "product" \in Places[i].within THEN "product" ELSE "file"
    IN CASE ~_is_safe_runtime_path(i) -> <<<<>>, {<<"receipt_unsafe_path", i>>}>>
         [] _is_safe_runtime_path(i) /\ stored[i][1] = "absent" -> <<<<>>, {}>>
         [] _is_safe_runtime_path(i) /\ stored[i][1] = "torn" ->
              <<<<InvalidRecord(Places[i].stem, <<"file", i>>, IF "product" \in Places[i].within THEN "product" ELSE "file",
                                _operation_from_receipt_path(i), Places[i].app, Places[i].environment)>>,
                {<<"receipt_unreadable", i>>}>>
         [] OTHER ->
              IF _product_wrapper_integrity_warning(p)
              THEN <<<<InvalidRecord(_receipt_id(i, TerminalOf(p), <<>>), <<"file", i>>, "product", "product.receipt", "", "")>>,
                     {<<"receipt_product_integrity_failed", i>>}>>
              ELSE <<<<_record_from_payload(<<"file", i>>, _receipt_id(i, TerminalOf(p), <<>>), _operation_from_receipt_path(i),
                                            Places[i].app, Places[i].environment, p, source)>>, {}>>

JournalRecord(id) ==
    LET read == _journal_rows(id) IN
    IF read[2] = <<>> THEN <<_invalid_journal_record(id), read[1]>>
    ELSE IF _journal_contract_warning(id, read[2][1])
         THEN <<_invalid_journal_record(id), {<<"receipt_journal_contract_invalid", id>>}>>
         ELSE <<_record_from_payload(<<"sqlite", id>>, id, "operations", "", "", read[2][1], "journal"), {}>>

_journal_receipt_records ==
    CASE "database" \in linked -> <<<<>>, {<<"receipt_journal_unsafe_path", 0>>}>>
      [] "database" \notin linked /\ ~_open_read_only -> <<<<>>, {<<"receipt_journal_unreadable", 0>>}>>
      [] _open_read_only /\ ~_journal_columns -> <<<<>>, {<<"receipt_journal_schema_invalid", 0>>}>>
      [] OTHER -> LET read == [id \in DOMAIN rows |-> JournalRecord(id)]
                      ids == SetToSeq(DOMAIN rows)
                  IN <<[k \in DOMAIN ids |-> read[ids[k]][1]], UNION {read[id][2] : id \in DOMAIN rows}>>

-----------------------------------------------------------------------------
(* receipt_index.py and operation_refs.py.                                 *)


\* The filters a record does not pass.
_scope_blockers(r, q) ==
    {<<"operation_ref_mismatch", f>> : f \in {g \in {"app", "environment", "operation", "status"} : q[g] \notin {"", r[g]}}}

\* The timeline is asked for an environment and a status only; a payload that
\* has become unreadable since the scan is warned of.
receipt_timeline(scan, q) ==
    LET records == {scan.by_id[id] : id \in DOMAIN scan.by_id}
        listed == {r \in records : _scope_blockers(r, [q EXCEPT !.app = "", !.operation = ""]) = {}}
    IN [receipts |-> listed,
        warnings |-> scan.warnings \cup {<<"receipt_payload_unreadable", r.path>> :
                        r \in {s \in listed : s.readable /\ receipt_payload(s) = <<>>}}]

_base_resolution ==
    [ok |-> FALSE, strategy |-> "none", resolved_id |-> <<>>, path |-> <<>>, record |-> <<>>, payload |-> <<>>,
     candidates |-> {}, blockers |-> {}, warnings |-> {}]

Blocked(base, blockers) == [base EXCEPT !.blockers = @ \cup blockers]

_resolved(base, r, strategy) ==
    LET payload == receipt_payload(r)
        hit == [base EXCEPT !.strategy = strategy, !.resolved_id = r.receipt_id, !.path = r.path, !.record = <<r>>]
    IN IF payload = <<>> THEN Blocked(hit, {<<"operation_ref_unreadable", "">>})
       ELSE [hit EXCEPT !.ok = TRUE, !.payload = payload]

\* The record a payload has by itself, outside the scan.
_payload_id(stem, p) ==
    Said(<<p.receipt_id, p.verify_id, p.operation_id, p.backup_id, stem>>, <<>>)

RecordOfPath(path, stem, p) ==
    [_record_from_payload(path, _payload_id(stem, TerminalOf(p)), "", "", "", p,
                          IF path[1] = "sqlite" THEN "journal" ELSE "file")
        EXCEPT !.status = Said(<<p.status, TerminalOf(p).status, TerminalOf(p).outcome>>, "")]

_resolve_path_reference(q) ==
    LET ref == q.ref
        at == IF ref[1] = "sqlite:" THEN <<"sqlite", ref[2]>> ELSE <<"file", ref[2]>>
        payload == IF ref[1] = "sqlite:" THEN _journal_receipt_payload(ref[2]) ELSE FilePayload(ref[2])
        base == [_base_resolution EXCEPT !.strategy = "path", !.path = at]
        r == RecordOfPath(at, IF ref[1] = "sqlite:" THEN ref[2] ELSE Places[ref[2]].stem, payload[1])
        blockers == _scope_blockers(r, q)
    IN IF ref[1] = "path" /\ stored[ref[2]][1] = "absent" THEN <<>>
       ELSE IF payload = <<>> THEN <<Blocked(base, {<<"operation_ref_unreadable", "">>})>>
       ELSE IF blockers # {} THEN <<Blocked([base EXCEPT !.record = <<r>>], blockers)>>
       ELSE <<[base EXCEPT !.ok = TRUE, !.resolved_id = r.receipt_id, !.record = <<r>>, !.payload = payload]>>

Rank(id) == CHOOSE k \in DOMAIN IdOrder : IdOrder[k] = id

Newer(r, s) ==
    LET at(t) == Said(<<t.started, t.completed>>, 0)
    IN at(r) > at(s) \/ (at(r) = at(s) /\ Rank(r.receipt_id) > Rank(s.receipt_id))

\* Unordered: only the newest is ever asked for.
_filter_records(records, q) == {r \in records : _scope_blockers(r, q) = {}}

\* What a suffix names: an application, unless some receipt's operation is
\* called that or it has a dot.
_latest_scope(ref, records) ==
    CASE ref[1] = "latest" -> <<"", "">>
      [] ref[1] = "latest:app:" -> <<ref[2], "">>
      [] ref[1] = "latest:operation:" -> <<"", ref[2]>>
      [] ref[1] = "latest:" -> IF ref[2] \in Operations \cup {r.operation : r \in records}
                               THEN <<"", ref[2]>> ELSE <<ref[2], "">>

_combine_scope(explicit, alias) ==
    [scope |-> Said(<<explicit, alias>>, ""),
     blockers |-> IF explicit # "" /\ alias \notin {"", explicit} THEN {<<"operation_ref_scope_conflict", alias>>} ELSE {}]

ResolveLatest(q, records) ==
    LET alias == _latest_scope(q.ref, records)
        app == _combine_scope(q.app, alias[1])
        operation == _combine_scope(q.operation, alias[2])
        scoped == _filter_records(records, [q EXCEPT !.app = app.scope, !.operation = operation.scope])
    IN IF q.ref = <<"latest:", "">> THEN Blocked(_base_resolution, {<<"operation_ref_invalid", "">>})
       ELSE IF app.blockers \cup operation.blockers # {}
       THEN Blocked(_base_resolution, app.blockers \cup operation.blockers)
       ELSE IF scoped = {}
       THEN Blocked([_base_resolution EXCEPT !.strategy = "latest"], {<<"operation_ref_not_found", "">>})
       ELSE _resolved(_base_resolution, CHOOSE r \in scoped : \A s \in scoped \ {r} : Newer(r, s), "latest")

ResolveId(q, records) ==
    LET scoped == _filter_records(records, q)
        exact == {r \in scoped : r.receipt_id = q.ref[2]}
        prefix == {r \in scoped : IsPrefix(q.ref[2], r.receipt_id)}
    IN CASE exact # {} -> _resolved(_base_resolution, CHOOSE r \in exact : TRUE, "exact")
         [] exact = {} /\ Cardinality(prefix) = 1 -> _resolved(_base_resolution, CHOOSE r \in prefix : TRUE, "prefix")
         [] exact = {} /\ Cardinality(prefix) > 1 ->
              Blocked([_base_resolution EXCEPT !.strategy = "prefix", !.candidates = {r.receipt_id : r \in prefix}],
                      {<<"operation_ref_ambiguous", "">>})
         [] OTHER -> Blocked(_base_resolution, {<<"operation_ref_not_found", "">>})

_resolve_ref(q, records) ==
    CASE q.ref[1] = "" -> Blocked(_base_resolution, {<<"operation_ref_missing", "">>})
      [] q.ref[1] \in {"sqlite:", "path"} ->
            LET at == _resolve_path_reference(q)
            IN IF at # <<>> THEN at[1] ELSE Blocked(_base_resolution, {<<"operation_ref_not_found", "">>})
      [] q.ref[1] = "id" -> ResolveId(q, records)
      [] OTHER -> ResolveLatest(q, records)

\* `allowed` is <<>> or <<the operations the command takes>>.
resolve_receipt_ref(q, timeline) ==
    LET permitted(r) == q.allowed = <<>> \/ r.operation \in q.allowed[1]
        resolution == _resolve_ref(q, {r \in timeline.receipts : permitted(r)})
        checked == IF resolution.ok /\ ~permitted(resolution.record[1])
                   THEN Blocked([resolution EXCEPT !.ok = FALSE, !.payload = <<>>],
                                {<<"operation_ref_mismatch", "operation">>})
                   ELSE resolution
    IN [checked EXCEPT !.warnings = @ \cup timeline.warnings]

-----------------------------------------------------------------------------
(* The host's writers and the operator's command.                          *)

ReceiptInit ==
    /\ stored = [i \in DOMAIN Places |-> <<"absent">>] /\ rows = <<>> /\ database = "ok" /\ linked \in Links
    /\ damage = IF linked = {} THEN 0 ELSE MaxDamage
    /\ query = <<>> /\ reading = 0 /\ found = <<>> /\ warnings = {} /\ answer = <<>> /\ before = {}

readerVars == <<query, reading, found, warnings, answer, before>>

\* The journal commits a terminal receipt.
CommitReceipt(t) ==
    /\ t.receipt_id \notin DOMAIN rows
    /\ rows' = rows @@ (t.receipt_id :> [payload |-> <<t>>, digest |-> <<t>>,
                                         operation_id |-> t.operation_id, outcome |-> t.outcome])
    /\ UNCHANGED <<stored, database, linked, damage, readerVars>>

\* The product receipt is linked in place, whole, once its terminal receipt is
\* committed (_persist_correlated_receipt).
PersistWrapper(i, p) ==
    /\ "product" \in Places[i].within /\ p \in Drafts[i] /\ stored[i] = <<"absent">>
    /\ p.nested[1].receipt_id \in DOMAIN rows
    /\ stored' = [stored EXCEPT ![i] = <<"whole", p>>]
    /\ UNCHANGED <<rows, database, linked, damage, readerVars>>

\* Every other receipt is written where it stays; a crash leaves it torn.
BeginFile(i) ==
    /\ "product" \notin Places[i].within /\ stored[i] = <<"absent">>
    /\ stored' = [stored EXCEPT ![i] = <<"torn">>]
    /\ UNCHANGED <<rows, database, linked, damage, readerVars>>

FinishFile(i, p) ==
    /\ "product" \notin Places[i].within /\ p \in Drafts[i] /\ stored[i] = <<"torn">>
    /\ stored' = [stored EXCEPT ![i] = <<"whole", p>>]
    /\ UNCHANGED <<rows, database, linked, damage, readerVars>>

\* What the digests are there to notice.  Nothing is damaged during a command.
DamageFile(i) ==
    /\ reading = 0 /\ damage < MaxDamage /\ damage' = damage + 1
    /\ stored[i][1] = "whole" /\ IsProduct(stored[i][2])
    /\ stored' = [stored EXCEPT ![i] = <<"whole", [@[2] EXCEPT !.nested = <<[@[1] EXCEPT !.app = "?"]>>]>>]
    /\ UNCHANGED <<rows, database, linked, readerVars>>

ReplaceFile(i, p) ==
    /\ reading = 0 /\ damage < MaxDamage /\ damage' = damage + 1
    /\ p \in Foreign /\ stored[i] # <<"absent">>
    /\ stored' = [stored EXCEPT ![i] = <<"whole", p>>]
    /\ UNCHANGED <<rows, database, linked, readerVars>>

DamageRow(id) ==
    /\ reading = 0 /\ damage < MaxDamage /\ damage' = damage + 1
    /\ \E payload \in {<<>>, <<[rows[id].payload[1] EXCEPT !.app = "?"]>>} :
          rows' = [rows EXCEPT ![id].payload = payload]
    /\ UNCHANGED <<stored, database, linked, readerVars>>

DamageDatabase ==
    /\ reading = 0 /\ damage < MaxDamage /\ damage' = damage + 1
    /\ database' \in {"unreadable", "incomplete"}
    /\ UNCHANGED <<stored, rows, linked, readerVars>>

Ask ==
    /\ reading = 0 /\ reading' = 1
    /\ before' = DOMAIN rows
    /\ UNCHANGED <<stored, rows, database, linked, damage, query, found, warnings, answer>>

Read(records) ==
    /\ found' = found \o records[1] /\ warnings' = warnings \cup records[2]
    /\ reading' = reading + 1
    /\ UNCHANGED <<stored, rows, database, linked, damage, query, answer, before>>

ReadFile == reading \in DOMAIN Places /\ Read(FileRecord(reading))

ReadJournal == reading = AtJournal /\ Read(_journal_receipt_records)

\* What was read is merged, and only now compared with what was asked: nothing
\* that was readable stops being so during the command, so that the payloads
\* read again for the timeline and the answer are the same.
Answer(q) ==
    /\ reading = AtAnswer /\ reading' = Answered
    /\ query' = <<q>>
    /\ answer' = <<resolve_receipt_ref(q, receipt_timeline(receipt_scan(found, warnings), q))>>
    /\ UNCHANGED <<stored, rows, database, linked, damage, found, warnings, before>>

\* A command that has answered is not affected by what is written later.
ReceiptNext ==
    /\ reading # Answered
    /\ \/ \E t \in Terminals : CommitReceipt(t)
       \/ \E i \in DOMAIN Places :
             \/ BeginFile(i) \/ DamageFile(i) \/ \E p \in Foreign : ReplaceFile(i, p)
             \/ \E p \in Drafts[i] : PersistWrapper(i, p) \/ FinishFile(i, p)
       \/ \E id \in DOMAIN rows : DamageRow(id)
       \/ DamageDatabase
       \/ Ask \/ ReadFile \/ ReadJournal
       \/ \E q \in Queries : Answer(q)

-----------------------------------------------------------------------------
\* The terminal receipts that were committed when the operator asked and that
\* the journal still shows as they were.
Standing == IF database = "ok" /\ "database" \notin linked
        THEN {rows[id].payload[1] : id \in {n \in before : rows[n].payload = rows[n].digest}} ELSE {}

InScope(r, q) ==
    _scope_blockers(r, q) = {} /\ (q.allowed # <<>> => r.operation \in q.allowed[1])

\* A terminal receipt has an outcome for a status.
AsRecord(t) == [t EXCEPT !.status = Said(<<@, t.outcome>>, "")]

SameSuffix(ref, r, t) ==
    \/ ref[1] = "latest"
    \/ r.app = ref[2] /\ t.app = ref[2]
    \/ r.operation = ref[2] /\ t.operation = ref[2]

\* A reference resolves to the truth, whatever is being written meanwhile or was
\* damaged before (resolve_receipt_ref over receipt_scan).  What is given for
\* an id the journal has committed is what it committed, even where a product
\* receipt or a stray file claims that id; it passes every filter of the command;
\* `latest` is not older, and a prefix not less unique, than the receipts
\* committed when the command began; another receipt of that id that says
\* something else is warned of; and a committed receipt is found by its id.
ReferencesResolveTruly ==
    reading = Answered =>
    LET a == answer[1]
        q == query[1]
        matching == {t \in Standing : InScope(AsRecord(t), q)}
    IN /\ a.ok =>
            /\ \A t \in Standing : t.receipt_id = a.resolved_id /\ a.path[1] = "sqlite" => a.payload[1] = t
            /\ a.strategy # "path" => \A t \in Standing : t.receipt_id = a.resolved_id => TerminalOf(a.payload[1]) = t
            /\ InScope(a.record[1], q)
            /\ a.strategy = "latest" =>
                 \A t \in matching : SameSuffix(q.ref, a.record[1], t) => ~Newer(AsRecord(t), a.record[1])
            /\ a.strategy = "prefix" => \A t \in matching : IsPrefix(q.ref[2], t.receipt_id) => t.receipt_id = a.resolved_id
            /\ a.strategy # "path" =>
                 \A r \in Range(found) : \A p \in Range(receipt_payload(r)) :
                    r.receipt_id = a.resolved_id /\ TerminalOf(p) # TerminalOf(a.payload[1]) => a.warnings # {}
       /\ (q.ref[1] = "id" /\ \E t \in matching : t.receipt_id = q.ref[2]) => a.ok
=============================================================================
