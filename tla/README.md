# TLA+ models of the score operational scripts

These models cover the operational scripts of this repository (see `spec.md`):

- the admin tool `scripts/admin/delete.py` and its constants in `defaults.py`;
- the log harvester `harvest.py`, kept as two identical copies under
  `object-store-service/` and `dcc-storage-server/`;
- the template expander `score-server-docker/tools/expand.py`.

Each script is a single-threaded, run-to-completion process. The hard behaviour
comes from running several of them at once against shared state that nothing
locks: an S3 bucket and a local settings file. Remote calls fail or give stale
answers, and a script can stop half-way.

## 1. Inventory

### Components, their state and operations

| Component | Source | State | Operations |
|---|---|---|---|
| Settings Store `ICGCStorageSettings` | delete.py 17-171 | the file `.aws-settings`, with an `AWS_KEYS` section holding two options; a per-process `SafeConfigParser` copy | `__init__` (`_create`, `_init_sections`, `read`), `set_access_id`, `set_secret_key` (both go through `_update_setting`, which writes the whole parser), `get_*`, `has_valid_keys` |
| External Settings Importer `DCCOpsSettings` | delete.py 174-276 | a dict `"<repo>.<name>" -> value`, built once per import | `_sync_settings` per repo (boardwalk, action_service, redwood), `get_env_var` |
| Bucket Deleter `ICGCBucketDeleter` | delete.py 364-491 | the bucket: objects `data/<uuid>` and the `redacted_file_uuids` list object | `__init__` (checks the keys, connects, validates the bucket), `delete_file` (lookup, delete, lookup again), `_record_redacted_key` (lookup the list, then create it, or read it and overwrite it), `__del__` |
| Admin CLI `run_cli` | delete.py 494-588, defaults.py | none of its own | `save-access-keys`, `icgc-delete` (with a y/n prompt), `load-dccops-settings` |
| Log Harvester | harvest.py 1-40 | the files `objectstore.*.log` in the log directory, `archive/`, the objects `<instance>/<name>` in bucket `oicr.icgc.audit` | a listing of the top level sorted by name; then, for each file, `put_object` followed by `shutil.move` into `archive/` |
| Template Expander | expand.py | input file, output file, environment | for each line, `re.sub` of each `${NAME}` found; the output is written; the run raises at the end if any name was missing |

### How they interact

- `run_cli` builds an `ICGCStorageSettings` for every command.
- `icgc-delete` passes those settings to `ICGCBucketDeleter`. That constructor
  reads the keys and validates them against S3.
- `load-dccops-settings` runs `DCCOpsSettings` and then writes the two boardwalk
  keys through the settings store.
- Separate invocations of the tool share only two things: the settings file in
  the working directory, and the bucket, which includes the redacted list.
- The harvester and the expander are separate scripts and share nothing with
  the admin tool.

### What is hard

- **Concurrency across processes.** Two operators, or a script and an operator,
  can run the tool at the same time. The redacted list is updated by an
  unconditional read-modify-write. The settings file is emptied by
  `open(..., 'w')` before it is rewritten, and each process writes back the
  whole copy it read when it started.
- **Eventual consistency.** S3 could answer a lookup of a just-deleted key from
  a stale replica; spec section 4.3 accepts this. `delete_file`'s
  verifying lookup then raises IncompleteError for a file that is gone.
- **Partial failure.** `run_cli` catches only some exceptions. The uncaught
  ones are:
  - boto errors inside `delete_file`;
  - `KeyError` from `get_env_var`;
  - `ValueError` from `_sync_settings`;
  - any error in the harvester.

  An uncaught exception stops the script between two effects: between delete
  and record, between writing the id and writing the secret, or between upload
  and move.
- **Start-up.** `delete.py` reads `defaults.DCCOps_*` attributes, but
  `defaults.py` spells them `DCCOPS_*`.

### Properties that make each component correct

- **Bucket Deleter.**
  - A file is deleted only if it was found.
  - Every deleted file is put on the redacted list exactly once.
  - The list is append-only and names only files that are gone.
  - Together these say that `icgc-delete` implements an atomic delete-and-record
    (`AtomicDeletion`).
- **Settings Store.** A pair reported saved is what the file holds afterwards,
  and a failed import leaves the file alone.
- **Importer.** It splits each line at the first `=`, lets the last duplicate
  win, and fails only when a file is missing (spec section 4.2).
- **CLI.** Every sub-command can run.
- **Harvester.**
  - A file is moved to `archive/` only after it has been uploaded.
  - Every matching file is eventually uploaded and archived while harvesting
    keeps running.
  - Files that do not match are never touched.
- **Expander.**
  - Each `${NAME}` with a value is replaced by that value, literally.
  - Unresolved names are left intact and make the run fail.

The hazards in `PROJECT.json` list every place where these properties are at
risk, each at the line where it bites.

## 2. Plan

The modules, in the order they are built. The most important behaviour, the
deletion audit trail, comes first.

1. **`AtomicDeletion`** (done): the abstract promise of `icgc-delete`.
2. **`BucketDeleter`** (done): `delete_file` and `_record_redacted_key`, with
   concurrent invocations, stale lookups and failing remote calls. It is
   checked to refine `AtomicDeletion`.
3. **`DCCOpsEnv`** (done): `_sync_settings`, `DCCOpsSettings` and
   `get_env_var`, written as recursive operators, next to the spec's
   importer (`SpecImport`).
4. **`AdminSettings`** (done): the settings store and the commands that use
   it. It uses `DCCOpsEnv`.
5. **`AdminImport`** (done): module start-up and attribute resolution.
6. **`AdminCLI`** (done): every command of `run_cli`, with `icgc-delete`
   from start to end. It composes `AdminSettings` (building the deleter) with
   `BucketDeleter` (prompt and `delete_file`), so that a deletion's
   credentials come from the settings file.
7. **`Harvester`** (done): the listing, then upload and move for each file. It
   covers crashes between the two, an archive directory that is missing,
   overlapping cron runs, and log rotation adding files during a run. It
   checks:
   - the liveness property `EveryLogHarvested`, under weak fairness of the
     scheduled runs;
   - the refinement `HarvestRefines`: the harvester implements `LogAudit`,
     so a log is archived only once its own upload is in place.
8. **`TemplateExpand`** (done): `main` as a state machine over the lines. The
   per-line substitution and `re.sub`'s template processing of the value are
   recursive operators. They are checked against the spec's literal,
   single-pass substitution over every small line and environment.

Still to do:
- `AdminCLI` with two invocations at once. Its state space is too large as
  the model stands. The races it would show are already checked part by part,
  in `settings_concurrent`, `deleter_concurrent` and `deleter_same_uuid`.

## 3. Modules and how they correspond to the code

### `BucketDeleter` (delete.py 364-491, 537-568)

**State.**
- `objects`: the keys `data/<uuid>` present in the bucket.
- `lagging`: deleted keys that a lookup may still report.
- `log`: the redacted list object, either `NONE` or its lines.
- `proc[p]`: per invocation, the step, the uuid, and the list it read.
- `failures`: a counter.
- `removed`: a history variable, the files the tool removed.

**Actions.** Each action is one remote call:
- `LookupFile` (the FileNotFound early return);
- `DeleteKey`;
- `VerifyDeleted` (IncompleteError or continue);
- `LookupRedactedList`;
- `CreateRedactedList`;
- `ReadRedactedList`;
- `WriteRedactedList` (`"{}\n{}"`: one more line).

`IcgcDelete` and `DeclineDelete` model the y/n prompt of `run_cli`.
`RemoteFailure` models a boto exception or an interrupt at any call. The
call may fail before the store acted, or after: a `delete_key`, or a write
of the list, that landed and whose answer was lost (`Removal` is the
store's side of a delete, shared with `DeleteKey`).
`Propagate` is the store catching up with a delete.

**Abstraction.** A lookup is a set of possible answers:
- `{TRUE}` for a present key;
- `{TRUE, FALSE}` for a lagging key;
- `{FALSE}` otherwise.

**Refinement.** The mapping takes `stored` to `objects`. It takes `redacted` to
the list's lines, followed by the uuid of an invocation that has deleted its
file but not yet written the list.

### `AdminSettings` (delete.py 17-171, 385-414, 532-588)

**State.**
- `file`: the settings file, either `NONE` or `[section, id, secret]`.
- `cli[p]`: the command, its step, the process's parser, the values to set,
  and the pair it started with.
- `dccops`: the directory on disk.
- `expected`: the pair the last completed command saved (a history variable).

**Actions.**
- Writes are split in two: `Truncate` for `open(..., 'w')` and `Flush` for
  `write` and close.
- `Construct` covers `__init__` with its three cases; `Reread` is the `read`
  after `_create`.
- `SetAccessId` and `SetSecretKey` include the `KeyError` of `get_env_var`
  when the command is `load-dccops-settings`. `SetAccessId` also raises
  set()'s NoSectionError when the parser has no `AWS_KEYS` section; with the
  code as it is, `Construct` always gives it one.
- `Connect` is `ICGCBucketDeleter.__init__`:
  - `has_valid_keys` false gives InvalidConfig;
  - a pair other than the account's gives S3ResponseError.
- `Interrupt` is a Ctrl-C or a kill at any step of a settings command, or of
  `icgc-delete` while it builds its settings and connects, which `run_cli`
  does not catch; it ends the command with the outcome `interrupted`. It is bounded by `MaxInterrupts`. The file keeps what the
  last write or truncation left. Between `open(..., 'w')` and the write, the
  file is empty. Between `set_access_id` and `set_secret_key`, it holds the
  new id beside the old secret. Once a save has begun writing its keys
  (`KeysWriteStarted`), `expected` becomes `NONE` until a later save
  completes. `SavedKeysPersist` then checks recovery: the next completed save
  is what the file holds. `SaveCompletesUnlessInterrupted` checks that a
  save started on whatever an interrupt left (an empty file, a missing one,
  no section) still succeeds.

### `DCCOpsEnv` (delete.py 174-276)

An `.env` line is abstracted to three things: its number of `=` (0, 1, or 2+),
its name, and its value.
- `SyncLines`: `_sync_settings` over one file.
- `SyncRepos`: the three files, in order.
- `get_env_var`: the lookup.
- `SpecLines` and `SpecImport`: the contract from spec section 4.2.

### `AdminImport` (delete.py 9-44, 494-588; defaults.py)

This module models the attribute names of `defaults` that are read at import
and by each sub-command. They are checked against the names `defaults.py`
assigns (`MCAdminImport`).

### `Harvester` (harvest.py; both copies are the same code, and the map names the object-store-service copy)

**State.**
- `source[h]`: the top level of host h's log directory. The rotated logs are
  named 1..MaxLogs in rotation order, so name order is numeric order. Other
  files are model values the pattern does not match.
- `archive[h]`: the logs moved into `archive/`.
- `archiveDir[h]`: whether `archive/` exists.
- `rotated[h]`: the logs written by the logger so far (environment).
- `audit`: the audit bucket, keyed `<<instance, name>>`; the value is the host
  whose log the object holds.
- `run[r]`: a cron run's step and the rest of its listing.
- `crashes`: a counter.

**Actions.**
- `Start`: `all_files(source, 'objectstore.*.log', True)` as a sorted snapshot.
- `Upload`: `open` (IOError if the log has gone) and `put_object`.
- `Move`: `shutil.move`, which raises if the log has gone or `archive/` is
  missing.
- `Crash`: an uncaught `put_object` error, or a killed run.
- `Rotate`: the logger adding the next log.

Each raise ends the script: the run goes back to idle.

**Refinement.** `LogAudit` is the abstract harvester of spec sections 4.5
and 8. Per host, it keeps the logs still pending, those uploaded and those
archived. Its actions are `Rotate` (a log of a new name), `Upload` and
`Archive`; `Archive` is allowed only for an uploaded log. The mapping takes:
- `pending[h]` to the matching files in `source[h]`;
- `uploaded[h]` to the names whose audit object `<<Instance[h], f>>` holds
  h's log;
- `archived` to `archive`.

A second upload of a log, a crash, an IOError and the start of a run are
stuttering steps of `LogAudit`. The refinement also says that an upload is
never lost: no other host's log takes its key.

### `AdminCLI` (delete.py 494-592)

This module composes `AdminSettings` and `BucketDeleter` (through `INSTANCE`)
over their joint variables.

**Actions.**
- `StartCommand`: a command starts. It is allowed only when the invocation is
  `Idle`: no step of either part is under way, and no connected deleter is
  waiting for its prompt.
- `SettingsStep`: building, writing or connecting.
- `Prompt`: the `else` branch of `icgc-delete`'s `try`. It is allowed only
  after `Connect` reported `connected`, and starts `BucketDeleter`'s
  `IcgcDelete` or `DeclineDelete`.
- `DeleterStep`: the remote calls of `delete_file`.

### `TemplateExpand` (expand.py)

**Abstraction.** A line, and a value, is a sequence of tokens:
- a character from `q`, `n`, `1` and backslash;
- a name `N`, which stands for the text `${N}`.

No character is `$`, `{` or `}`, so placeholders come only from name tokens.

**Operators.**
- `extract_env_vars` is the `findall`.
- `Template` is `re.sub`'s parsing of the replacement:
  - `\n` becomes a newline;
  - `\\` becomes a backslash;
  - `\1` and a trailing backslash raise `re.error`;
  - `\q` is kept under Python 2 and raises under Python 3.7+;
  - a backslash before `$` is kept.
- `Sub` replaces every occurrence of one name.
- `SubstituteAll` is the inner loop over the names found in the original line,
  each applied to the line substituted so far.

**State.** `input`, `env`, `py` (the interpreter), the lines left, the output
file, `has_missing_env_vars` and how `main` ended.

**Actions.**
- `Open`: the missing-input raise, then the truncating `open`.
- `ExpandLine`: one iteration, or an uncaught `re.error`.
- `Finish`: the raise at the end.

**Reference.** `SpecExpandLine` is spec section 4.6: each defined placeholder
of the input line is replaced by its literal value.

### `LogAudit`

The abstract harvester. `Upload(h, f)` records a pending log as uploaded.
`Archive(h, f)` moves an uploaded pending log to archived. No step removes an
upload.

### `AtomicDeletion`

The abstract deleter:
- `Delete(u)` removes a present file and appends its uuid, in one step.
- The initial list names only absent files, each once.

## 4. Runs

| Run | Expect | Checks | Shows |
|---|---|---|---|
| `cli_refines` | pass | `ImplementsAtomicDeletion`, `SavedKeysPersist`, `SaveCompletesUnlessInterrupted` | the whole tool, every command, one invocation at a time, on a consistent bucket with no remote failure, up to two settings steps interrupted: on this failure-free path `delete_file`'s call order implements the atomic delete-and-record; after an interrupted save the next completed save is what the file holds, and a save that ends reports success unless it was itself interrupted |
| `cli_failures` | pass | `TypeOK`, `RedactedListSound` | one command at a time over every kind of settings file and dcc-ops directory, with stale lookups and a remote call failing before or after the store acted: every uuid on the redacted list names a file the tool removed and that is gone |
| `deleter_concurrent` | violation | `RedactedListAppendOnly` | two concurrent invocations: both see no list and both create it, or both read it and overwrite it; a line is lost |
| `deleter_same_uuid` | violation | `RedactedListNoDuplicates` | two invocations for the same uuid both find, delete and record it: the uuid is on the list twice and both report success |
| `settings_concurrent` | violation | `SavedKeysPersist` | `icgc-delete` reads the file while `save-access-keys` has it truncated, then writes an empty section over the saved keys |
| `settings_partial_import` | violation | `FailedImportLeavesSettings` | boardwalk `.env` without a secret key: the id is saved, then a KeyError is raised |
| `dccops_parse` | violation | `ImportMatchesSpec` | a value containing `=` raises ValueError instead of being split at the first `=` |
| `admin_import_names` | violation | `CommandsResolveDefaults` | `DCCOps_*` versus `DCCOPS_*`: AttributeError on import |
| `harvester` | pass | `TypeOK`, `EveryLogHarvested`, `HarvestRefines` | two hosts with distinct `OBJECTSTORE_INSTANCE` share the bucket, two overlapping cron runs on one, rotation, a crash, `archive/` present or missing: under the fairness below every log on a host with `archive/` is eventually uploaded and archived, and the harvester implements `LogAudit`: a log is archived only once its own audit object is in place, and no upload is lost |
| `expand_fail_at_end` | pass | `FailAtEnd` | every line is written, the run raises exactly when a placeholder was undefined, and that placeholder stays in the output |
| `expand_escapes` | violation | `ValuesCopiedLiterally` | a value is read as a `re.sub` template: a trailing backslash or `\1` raises `re.error` part-way through the output, and `\n` becomes a newline |
| `expand_chained` | violation | `PlaceholdersExpandedOnce` | with `A=${B}`, the line `${A}${B}` has its `${B}` from A's value expanded too |

The deleter's and the settings store's own passing properties are checked
through the composed `AdminCLI`. That run covers every step of both modules,
one invocation at a time. `BucketDeleter` and `AdminSettings` keep their own
MC modules for the concurrent runs, which the composition is too large to
explore.

`ImplementsAtomicDeletion` is checked only where it can hold: no remote
call fails and lookups are consistent, and interrupts reach the settings
steps, not `delete_file`. It says that the order of `delete_file`'s calls
(lookup, `delete_key`, lookup, record) is right. It is not a claim that the
deletion is atomic under failure: a failure or a stale lookup between
`delete_key` and the record leaves a removed file off the list, which spec
section 4.3 accepts.

The stale verifying lookup of `delete_file` is reachable in `cli_failures`
(`EventualDeletes`): a file is deleted, IncompleteError is reported, and the
file is never recorded on the list. So is a failure after `delete_key`. Spec
section 4.3 accepts both as a documented limitation, so no run expects the
list to be complete; `cli_failures` checks that the list never names a file
still stored. A retry cannot repair the list: once the store catches up, a
second `icgc-delete` of that uuid fails with FileNotFound.

An interrupted `save-access-keys` loses the keys saved before it: the file is
left empty, or holds the new id beside the old secret. Spec section 5 says
that no cancellation is handled, so no run expects the old pair to survive.
What `cli_refines` checks is that the tool recovers: a later save, started
on the torn file, succeeds (`SaveCompletesUnlessInterrupted`; without
`_init_sections` its `set()` would raise NoSectionError), and the pair it
saved is what the file holds (`SavedKeysPersist`).

Each property of a passing run has a mutant in `PROJECT.json`: a plausible bug
in the mapped code that makes TLC report that property violated. The mutants
are:
- the FileNotFound check dropped;
- `get_env_var` returning the `<repo>.<name>` key instead of its value;
- `_init_sections` skipped;
- `set_secret_key` writing the access-id option;
- the harvester's pattern dropped, its move before its upload, its key
  without the instance, and copy in place of move;
- the expander raising at the first undefined name.

## 5. Bounds and why they suffice

- **Deleter.**
  - Two or three uuids are enough: every race is about one uuid, or about two
    deletions against one list.
  - Concurrency needs two invocations.
  - `MaxLogLines` (3-4) allows a pre-existing line plus two new ones.
  - `MaxFailures` = 1: a stop at each call site happens in some behaviour.
- **Harvester.**
  - Two hosts with two logs each: same-named logs from both hosts in the
    shared bucket.
  - Two overlapping cron runs on one host: a run's listing can be overtaken on
    its first log while the second remains.
  - Three logs (checked once, in 71 s) add no interleaving that two logs do
    not already reach.
  - One crash, which can happen between upload and move.
  - `archive/` present or missing on each host.
- **Composed CLI.**
  - One invocation: the composed properties are about one invocation's
    commands in sequence; the races between invocations are checked in the
    parts' own runs.
  - Two files, and a list of at most three lines (two for the refinement).
  - One failure, before or after the store acted, and stale lookups.
  - Every dcc-ops directory.
  - Up to two interrupted commands in `cli_refines`: a save can be interrupted,
    and so can the save that repairs it. `cli_failures` has none. With one
    interrupt on top of its remote failure, it reaches 9.6M states in
    6 minutes.
- **Expander.**
  - Every input of one or two lines of up to two tokens (`q`, `${A}`, `${B}`).
  - Environments over nine values: plain text, each escape with a different
    meaning to `re.sub`, a trailing backslash, and values holding a placeholder.
  - Both interpreters.

  That covers each escape case, and a value naming a placeholder of the same
  line, before or after its own.
- **Settings.**
  - Two key values: a saved pair can differ from the one on file.
  - Two invocations for the truncation race.
  - Five dcc-ops directories, one for each outcome of the import:
    - success;
    - missing file;
    - a value containing `=`;
    - id without secret;
    - a duplicate overriding an earlier value.

## 6. Fairness

The admin commands are started by an operator, so no fairness holds for them
and none of their properties is a liveness property.

The harvester is started by cron, again and again, and a started script runs
on until it ends. `FairSpec` therefore assumes weak fairness of `Start`,
`Upload` and `Move` for every run. No fairness is assumed for `Rotate` or
`Crash`, and crashes are bounded by `MaxCrashes`.

`EveryLogHarvested` is stated only for hosts that have `archive/`. Nothing in
the code creates that directory, and without it no log is ever archived.

The harvester run sets CHECK_DEADLOCK FALSE. Once the bounded logs are all
harvested, a cron run lists nothing and changes nothing, so the system really
stops.

The expander's runs set CHECK_DEADLOCK FALSE as well, because `main` runs once
and ends. The composed CLI never stops, since the operator can always start
another command.

## 7. Not modelled, and why

- **`ICGCBucketDeleter.__del__`:** it closes the connection and changes no
  modelled state.
- **Printed messages:** they are left out. Each command's outcome is kept as a
  value instead.
- **S3 read-after-write of new objects and eventual overwrites of the list:**
  these are not modelled. Reads of the list are consistent. Only the
  visibility of deletes lags, which is the behaviour spec section 4.3 names.
- **`.env` line contents:** they are reduced to the count of `=`, the name and
  the value. Whitespace around the name, and the trailing newline removed by
  `.strip()`, are not modelled.
- **Template expander:** characters other than the four kept are left out,
  since they pass through `re.sub` unchanged. Escapes such as `\x41` or
  `\g<name>` are also left out: they behave like the `\n` and `\1` cases
  that are modelled. The Python 3.0-3.6 behaviour for unknown escapes is the
  same as Python 2's.
- **The exception classes of delete.py (279-361):** these are data. Each
  raise is modelled as the outcome it leads to.
- **argparse's own errors for missing arguments:** these exit before any
  command runs.
- **Log names that come back:** put_object and shutil.move both overwrite
  silently. A log whose name is reused would replace the earlier log's audit
  object and its copy in `archive/`. The logger's rotation policy is not in
  this repository. The model gives each rotated log a new name, and
  `LogAudit`'s `Rotate` states that assumption.
- **Harvester:** the file contents, `os.walk`'s subdirectories (skipped by
  `single_level`), and the `print` are not modelled.
