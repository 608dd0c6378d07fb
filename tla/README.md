# SmetaCheck in TLA+

SmetaCheck takes construction estimates (XLSX, XLS, CSV, PDF), checks them, has
an external AI provider look at them, and reports. It is an API server
(`cmd/api`), any number of background workers (`cmd/worker`) and a PostgreSQL
database, with one upload directory that all of them share. This directory
models the parts of it whose correctness depends on the order in which things
happen, or on many cases at once. The modules follow the Go code, not the
documents; line numbers are in `PROJECT.json` under `map`.

Everything runs from this directory:

    tlasany AnalysisBatch.tla                                      # parse
    tlc -workers 2 -config batch_safety.cfg MCAnalysisBatch.tla    # model-check
    tlapm AnalysisBatchProofs.tla                                  # prove

## 1. Inventory

| Component | State | Operations | What is hard |
|---|---|---|---|
| Batch queue and worker (`batch_*.go`, `internal/worker`) | `analysis_batches` (status, attempts, `locked_at`, report), `analysis_batch_files` (status, `estimate_id`), PostgreSQL advisory locks held by pooled connections, the worker's position | create, claim (lease, attempt bound), lock, load, per-file update / analyse / link / touch, provider calls with a heartbeat beside them, complete, fail, release; the owner's deletion of an estimate | workers that interleave between statements; slow workers whose lease is taken over; crashes; a lost lock connection; a commit whose answer is lost; a last attempt nobody finishes |
| Usage quotas (`usage_quota*.go`) | monthly counters, `storage_bytes`, an advisory and a row lock per account | reserve, roll back, release storage | compare-then-add by concurrent requests; refunds after the month has turned; best-effort refunds; crashes between reservation and refund |
| Upload, batch creation, summary (`postgres_handlers.go`, `batch_handlers.go`, `batch_upload.go`, `ai.go`, `ai_store.go`) | the reservation a request holds, the file it wrote, the row it inserted | reserve, store, reconcile size, persist, roll back; cached summary or call | each of the steps failing, in the right order of compensation |
| Stored files (`postgres_store.go`, `estimate_delete_usage.go`, `batch_cleanup.go`, `storage_files.go`) | rows that point to a file, the file, its charge | save, link, delete, retention cleanup | three owners of one file (batch, estimate, cleanup), two cleanups at once, foreign keys |
| Browser sessions (`auth_sessions.go`, `auth_session_management.go`, `auth_logout_secure.go`, `auth_cleanup.go`) | `auth_sessions`, refresh-token history, the cookies of every browser | login, refresh (rotation), reuse detection, logout, revoke one, revoke all, cleanup | two tabs, lost responses, a browser profile used on two machines, slow requests, expiring tokens |
| Passwords, one-time tokens, MFA, external login (`auth_email.go`, `auth_mfa_*.go`, `auth_oidc*.go`, `auth_oauth_cookie.go`) | `users`, `auth_tokens`, `auth_identities`, OAuth cookie, mailbox | register, verify, login and lock, reset, MFA setup / enable / verify, OIDC begin / callback | statements without a transaction around them; first logins that overlap |
| Upload, inspection, checks (`estimates.go`, `compare.go`, `postgres_handlers.go`, `*_consent.go`, `internal/filesecurity`) | the reserved name and the file in the upload directory; rows, items, findings | consent, save, inspect (type, archive limits, virus scanner), store, open, find header, extract, check, score, compare | archives judged by the sizes they declare, a scanner that is late or away, cleaning up after each failing step; numbers with ambiguous marks, several sheets, limits, spellings |
| AI analysis and reconciliation (`ai_*.go`) | chunks, answers, analyses, reports | call and retry, read a reply, merge, match, sum up | partial failure, answers that repeat or claim too much, greedy matching |
| Request limits and the lock of an account (`auth_rate_limit.go`, `endpoint_rate_limit.go`, `auth_email.go`, `auth_cleanup.go`) | `auth_rate_limits` by caller, action and window; `failed_login_attempts`, `locked_until` | count, refuse, clean up; read, compare, write the counter, lock, clear | counting requests that overlap, fail after they counted, or cross a window; a counter read first and written later |
| Servers (`run_production.go`, `run_hardened.go`, `database_core.go`, `legacy_schema.go`, `worker.Run`) | the pool, the migration lock, the schemas and the recorded version | start, migrate, serve, stop, close the pool | processes that start together, die between two schemas, lose the lock's connection; requests under way when the server stops |
| Administration, consent, provider policy, middleware, configuration, frontend, bot, scripts, older packages | see `PROJECT.json` | | single statements, stateless checks or code nothing reaches |

How they interact: an upload reserves quota, writes a file and inserts an
estimate or a batch. The worker claims the batch, makes one estimate per file,
asks the provider about each and stores a report. Deleting an estimate and the
retention cleanup remove files and release what was reserved. The session layer
sits in front of all of it and shares no state with it except the user's id;
the limits stand in front of the session layer. All of it runs in processes that
come and go, and all that must outlive them is in the database or in a file.

What makes each of them correct:

* **Queue**: one worker at a time in a batch; a batch ends once, completed with
  a report whose estimates exist until their owner deletes them, or failed after
  its last attempt; and it does end.
* **Quotas**: no counter passes its limit; what failed costs nothing; what is
  retained is charged, once.
* **Files**: a file goes when its last owner goes, not before, and is released
  exactly once; nothing is left that nobody owns.
* **Sessions**: what the API reports as ended is, and stays so; nobody who did nothing wrong is
  logged out; a token that was superseded does not work next to its successor.
* **Credentials**: a token works once; a reset ends the old sessions; a second
  factor in force is one its owner holds; one identity has one account.
* **Limits**: no window lets more through than its limit; wrong passwords lock
  an account in time, and a lock stands; neither is lost with a process.
* **Servers**: only a complete schema is recorded and served; a server that is
  told to stop is gone in the end, whatever its requests do.
* **Intake**: nothing reaches the parser that was not inspected as a whole;
  whatever fails leaves nothing behind (but a report that could not be written
  to its end).
* **Checks**: items are the rows of the file; a budget called ready reconciles;
  a comparison explains the difference.
* **Reconciliation**: no finding is lost, doubled or made milder; agreement is
  earned.

## 2. Modules

| Module | Models | Composes |
|---|---|---|
| `BatchQueue` | what the queue promises (abstract) | |
| `AnalysisBatch` | queue and worker, statement by statement | implements `BatchQueue` |
| `AnalysisBatchProofs` | theorems about it | |
| `UsageLedger` | what the accounting promises (abstract) | |
| `UsageQuota` | reservations and the handlers around them | implements `UsageLedger` |
| `UsageQuotaProofs` | theorems about it | |
| `EstimateStorage` | files, their rows and their charge | worker, deletions and cleanups together |
| `EstimateStorageProofs` | theorems about it | |
| `AuthSessions` | sessions and refresh tokens | |
| `AuthSessionsProofs` | theorems about it | |
| `Credentials` | passwords, tokens, MFA, external login | |
| `CredentialsProofs` | theorems about it | |
| `LoginGuard` | request limits and the lock of an account | |
| `Server` | processes that start, migrate, serve, stop and die | `LoginGuard`, which it implements |
| `ServerProofs` | theorems about both | |
| `FileInspection` | the decision about one uploaded file (operators) | |
| `EstimateChecks` | parsing, checks, comparison | `FileInspection`, `Ranking` |
| `EstimateIntake` | an upload from consent to the stored analysis | `FileInspection`, `EstimateChecks` |
| `EstimateIntakeProofs` | theorems about intake, inspection, checks and comparison | |
| `Ranking` | the elements of a set in an order (operators) | |
| `AIReconcile` | provider calls, merging, reconciliation | `Ranking` |
| `AIReconcileProofs` | theorems about it | |
| `MC*` | values of the constants for the runs | |

### AnalysisBatch

One action is one SQL statement, or one transaction, of a worker. `status`,
`attempts`, `fresh` (is `locked_at` younger than ten minutes), `count` and
`report` are columns of `analysis_batches`; `fileStatus` and `linked` those of
`analysis_batch_files`; `saved` says which estimates exist under their stable
ids; `lock` is who holds each advisory lock. `pc`, `job`, `at`, `snap` and
`quality` are the worker's local state in `ProcessNextAnalysisBatchSafe` and
`processClaimedAnalysisBatch`. `snap` matters: `pgUpdateBatchFile` writes back
the `estimate_id` read when the batch was loaded, so a stale one would unlink an
estimate. `pgDeleteEstimate` is the owner, who may delete any estimate at any
moment, while the batch runs and after it: the foreign key sets the link to NULL
and `deleted` remembers the file. A batch that runs again makes such an estimate
anew, or fails because the link it writes back leads nowhere (`LinkRefused`);
both are in the model. Advisory locks are keyed by `hashtext(id)`, which may collide; the
constant `hashtext` makes it so in one run.

`env` is the set of faults a behaviour may suffer, chosen at the start: `crash`,
`slow` (a lease grows old under a live worker: nothing renews it outside the
provider call), `drop` (the lock's connection is lost), `ack` (a commit succeeds
and is reported as failed). A property names the faults it survives. Ordinary
errors of statements and timeouts are always possible.

### UsageQuota

`TakeUsageLock`, `CheckUsage` and `Charge` are the three parts of
`reserveAccountUsage`; `RefundCommit` is `rollbackAccountUsage`. A request's
`pc` is its place in `EstimateUploadPostgres`, `AnalysisBatchCreate`,
`generateAISummary` or `EstimateDeleteWithUsage`, and the deferred rollback is
the place `undo`. `period` is the month the transaction has read: a refund uses
the month of *now*, as the code does. The worker and the cleanup appear only as
far as they move counters. `calls` counts what is sent to the provider: one
request per chunk of a file, each repeated by the HTTP client up to
`HttpAttempts` times (`RequestsFor`), again in every attempt of the worker, and
stopped by a crash anywhere between. With the fault `ack` every commit of the accounting
and of the handlers may succeed and be reported as failed: that of a
reservation too (`ChargeAckLost`), of the reduction and of the row. An external
provider is assumed to be configured; under `rules`, batches reserve no AI jobs.

### EstimateStorage

One batch and one account; a file counts one byte. A file is named after
itself, its estimate after the file (the code derives the id from it). The foreign
key of `analysis_batch_files.estimate_id` is in `LinkTo` and `pgDeleteEstimate`
(ON DELETE SET NULL). That a single worker processes the batch is taken from
`AnalysisBatch` (`MutualExclusion`, `SettledIsFinal`).

### AuthSessions

The n-th refresh token of session s is `<<s, n>>`; a request carries the cookies
of the moment it was sent, and the response sets cookies when it arrives, if it
does. `rotateRefreshToken`, `ClassifyReuse` and `IssueTokens` are the steps of
`AuthRefresh`. `ended` and `touched` are history variables. `ended` has a record
[sid, by, sent] of every end the API reports: the 204 of a logout and of "revoke all", also
when their statements failed and nothing was revoked, the 204 of "revoke one",
and the answer that a reused token has ended its session. `touched` is what users
asked for. When the query of `currentRequestUser` fails, a valid access token
counts for none (`LogoutGuard`, `RevokeGuard`). Disturbances (`tabs`, `copy`, `slow`, `lost`,
`error`, `end`) work as `env` above.

### Credentials

One person, one address, one identity at a provider. Each request is used once
and names the token, password, secret or account it makes. A handler's position
is in `pc`, what it has read in `local`. The transaction of `upsertOIDCIdentity`
is several actions whose effects others see only at its end, and who needs a
unique key held by it waits (`Claimed`, `linked`), as PostgreSQL has it.
`raced` is a history variable for two exceptions explained below.

### LoginGuard

One action is one statement: `CountRequest` is the INSERT ... ON CONFLICT ...
RETURNING of both limiters, `LoginRead`, `LoginFails` and `LoginClears` are the
SELECT and the two UPDATEs of `AuthLoginEmail`. The clock is read when a request
arrives, the row is written later (`Patience`). Whom a request counts for is its
address, or the user if the endpoint limits by user and the query of
`currentRequestUser` told who it is; when that query fails, the address is
left (`Identity`). A statement may fail, having
taken effect or not. `served` and `alone` are history variables: requests that
got through, and wrong passwords that overlapped with nothing.

### Server

`Server` EXTENDS `LoginGuard` and puts its handlers into a process. `stage` is
how far each process is in `RunProduction` or `worker.Run`; `holder` is whose
session holds the migration lock, and because the schemas are applied on that
very connection, one that has lost it can apply nothing more
(`LockConnection`). A schema is one `Exec` of several statements, which
PostgreSQL runs as one transaction. A request whose process is killed, or whose
pool is closed, is an orphan: the statement it has sent may still take effect
(`Settle`), even while the next process serves. A scenario says how often
processes start, how many requests come, whether there is trouble (processes
die, connections break, the listener fails), and what database is found. The
patience of `Shutdown` may end in any scenario (`GiveUp`): the pool is then
closed under the requests that still run. The configuration is taken to be accepted; a
process that refuses it exits before it touches anything.

### FileInspection, EstimateIntake

A file to be inspected is a record of what `internal/filesecurity` looks at: what
its name and its bytes say, and for an archive the entries with the sizes, packed
and expanded, that its directory declares; the limits are constants. What an
entry really expands to is not looked at by `validate.go`, and has no place in
the model. `EstimateIntake` is the handler around it: consent, the exclusive
name, the copied bytes, the answer of the inspection and the scanner, the
report, the row, and the removal of what a failed step leaves. `disk` holds the
temporary copy, the kept file and the report of each file; `stored` is what a
row names. A report that cannot be written may be there in part
(`ReportFails`), and the answer of the commit may be lost after the row is there
(`LoseAnswer`): the handler then removes what the row names. That removing a file
fails itself is not modelled. It runs the analysis of `EstimateChecks` on what
passed.

### EstimateChecks

A sequential computation over data: the initial states are all pairs of files
from a set, a step is a phase of `analyzeEstimateFile` or one sheet of
`analyzeExcelWorkbook`. Texts are members of small sets with their normalised
form; a number carries how it is written (decimals, marks), because
`parseNumber` decides by that. The name of a sheet is part of the names of its
items (`Labels`), and `NameKey` is what `normalizeDuplicateKey` makes of label and
name, for duplicates and for the comparison alike: it cuts at the first ` · `, so a label that contains that mark itself leaves its
rest in the key. An XLS file is flattened into one table as in
`readXLSRows`, a CSV file is a table already.

### AIReconcile

A reply of a provider is a status and the blocks of its body, chosen freely from
a set. `parts` holds the answers to the chunks of a file in their order, the
last one included and also for a file of one chunk; `MergeChunks` puts them
together. Retries, chunks, raw PDFs, the three readers of replies, merging, and the
reconciliation of each file and of the batch follow the code; greedy matching
is a fold over the backend's findings. Words of findings are sets, a row is a
number.

## 3. Runs

All passing runs explore their state space completely. Deadlock is not checked:
users may stop asking, bounded behaviours end.

| Run | Instance | Shows |
|---|---|---|
| `batch_safety` | 2 workers (symmetric), 1 batch of 2 files, 3 attempts, an owner who deletes estimates at any moment; `crash`; `crash, slow, ack`; all faults | one worker per batch while lock connections last; attempts and status agree whoever failed; a report has its estimates but for those the owner deleted, and a completed batch is whole; no retry unlinks an estimate |
| `batch_queue` | 2 workers, 2 batches with colliding locks, 1 file, 2 attempts, crashes; fair | every batch settles or strands; workers come back without their lock; a settled batch stays settled; `AnalysisBatch` implements `BatchQueue` |
| `batch_stranded` | 2 workers, 1 batch, no fault; fair | **violation**: a batch can stay `processing` for ever (finding 1) |
| `quota` | 2 requests of each kind and of sizes 1 and 2, tight limits, 2 months, files of up to 2 chunks, 2 HTTP attempts; no fault; `crash, db, month`; `ack`; fair | limits hold; stored files stay charged; accounting is exact without faults; no provider call without a counted job, and no more for one job than its attempts, chunks and repetitions; check-and-add is atomic (`UsageLedger`); no request waits for ever |
| `quota_month` | 2 requests, a turn of the month | **violation**: a refund goes to the wrong month (finding 2) |
| `storage` | 2 batch files, 1 upload, 2 deletions, 2 cleanups, 2 attempts; no fault; `crash, io`; fair | a file is there while a row points to it, and only then; it is charged while retained and released once; expired files go |
| `storage_source` | 1 batch file, an estimate deleted before it is linked | **violation**: the batch's source file is removed (finding 3) |
| `sessions` | 1 session, 2 browsers, 3 tabs (two of one browser), 2 rotations, four sets of disturbances; fair | what the API reports as ended is, and stays so, but for the exceptions below; an undisturbed session stays usable; spent tokens stay recognisable; a superseded token does not live on beside its successor |
| `credentials` | 4 requests (symmetric), lock after 2 failures | a token or state works once; a reset ends older sessions; MFA in force is held by its owner; overlapping first logins leave one account |
| `checks` | about 90 files in all pairs: all tables of one or two of seven rows, files for each branch of the reader, names of sheets with and without the dot; uploads, batches and comparisons with doubtful archives, types, scanners and failures at every step, a lost commit answer among them | items are the rows with their amounts; duplicates are explained; a budget called ready reconciles and leaves no sheet out in silence; differences are explained; only inspected files are analysed or kept; refused requests leave nothing behind but a report half written |
| `server` | 2 requests at once, up to 4 in all, 3 callers, 2 limits; 1 API and 2 workers, 4 schemas, 5 databases; the API killed, stopped, without a listener, or running on; requests that may never end by themselves; fair | limits per window hold; wrong passwords lock in time; a lock stands; only complete schemas are recorded and served; a stop ends: the process is gone in the end |
| `reconcile` | 4 batches, 4 providers, about 45 replies, 2 attempts, chunks of 2 rows (files of one and of two chunks) | findings once and no milder; risks cover; agreement is earned; the analysis of a file keeps what was heard of all its chunks |

### Bounds and why they are enough

* *Workers, batches, attempts.* The hazards of the queue are between a holder,
  one that takes over and one that comes late, which may be the first again: two
  workers, and three attempts so that a takeover is neither first nor last. The
  theorems hold for any number of workers. Two batches matter only through
  colliding lock keys, which `batch_queue` has. Two files are what it takes for
  a partly processed batch.
* *Requests, months.* Two requests overlap in every way a pair can; the account
  lock serialises more of them, and the theorems below hold for any number.
  Refunds touch the month of now or the one before, so two months do.
* *Deletions, cleanups.* Two of each, with the worker: every pair that can
  release one file.
* *Tabs, rotations.* Three requests under way, two of them of one browser; two
  rotations make a token that is neither first nor current. Sessions do not
  share state but by "revoke all", which is set-wise; one is checked.
* *Chunks, HTTP attempts.* Two of each, and two attempts of the worker: one job
  then stands for more calls than one for each of three reasons.
* *Credential requests.* Each handler takes one request; four allow a token to be
  asked for and used twice with a login between.
* *Limits.* Limits of 3 and 2 in windows of 2 and 1 ticks, so that a window is
  filled, overfilled and followed by the next; five clock values, a lock of two
  and a retention of three of them let locks end and rows be removed; two wrong
  passwords lock. Four logins make a second lock possible.
* *Processes.* One API and two workers: two that migrate and one that waits.
  The API starts again once, workers once each; a longer life only repeats. The
  bound is in `StartsAgain`: a process is stopped only to be started again.
  Requests are two at a time: one is under way when a stop begins, the other
  ends before or is an orphan too.
* *Inspection.* Limits of 4 entries, 9 bytes expanded, 5 an entry, a ratio of 2,
  no nesting: each has files on both sides.
* *Files, replies.* The checks look at an item, at pairs of items and at sums:
  two rows of each kind, and each branch of the reader. Limits (`MaxRows`,
  `MaxSheets`, `HeaderRows`, `MaxRawRows`, `MaxFindings`, chunk size) are small
  so that both sides of each are reached.

Symmetry is used for safety only (`batch_safety`, `credentials`), over workers
and requests that no definition tells apart.

### Fairness

* Worker: weak fairness of its claim and of its next step. The loop of
  `worker.Run` polls on a ticker, and the statements and provider calls of an
  attempt run under the batch context, which `AI_BATCH_TIMEOUT` ends. Two run under
  `context.Background`: `pgFail`, so that the failure of an attempt that timed out
  can still be written, and the unlock. That these end is assumed of PostgreSQL:
  it answers, or the connection breaks.
* `LeaseExpires`, `RetentionPasses`, `GraceEnds`: time passes.
* Handlers (`UsageQuota!Step`, `AuthSessions!Serve`): Go runs a handler to its
  end; the locks they wait for are held by such handlers only.
* `CleanerStep`: each worker cleans up at start and every six hours.
* `server`: weak fairness of `GiveUp` (the timer of `Shutdown`), of the stop's
  own steps (`CloseDatabase`, `Exit`) and of `Settle`: a statement under way when
  the pool is closed is answered or its connection ends. None of the handlers, so
  that requests may hang.
* Strong fairness of `SendRefresh` per browser: `frontend/lib/api.js` refreshes
  whenever a request is answered 401, so a browser *that is in use* refreshes
  again and again, although its tabs may be busy in between. It is used in
  `sessions`, for `SupersededTokenEndsSession`, which is about such
  browsers.

Nothing makes users submit, errors occur or faults happen.

### What the properties leave out, on purpose

* `ReportHasItsEstimates` and `EstimateLinksKept` except the estimates the owner has
  deleted: `pgDeleteEstimate` takes them from under a report, and the foreign key
  unlinks them, as `estimate_delete_integration_test.go:92-157` wants it. The
  first also excepts a lost lock connection, with which two workers write one batch.
* `EndedStaysEnded` is about every end the API reports and excepts two by name: a
  logout whose access token has expired and whose refresh token was rotated while
  it was on its way (`Overtaken`) finds no session any more; and with failing
  statements `AuthLogoutSecure` and `AuthRevokeAllSessions` answer 204 although
  nothing was revoked.
* `ResetEndsOldSessions` excepts a login that had checked the old password when
  the reset changed it: `AuthLoginEmail` opens its session afterwards, and the
  code has nothing against that. A failed `revokeAllUserSessions` is excepted
  too; its error is dropped.
* `SecondFactorIsHeld` excepts overlapping setups and enables: `AuthMFAEnable`
  takes whatever is pending when it writes, so a double click can leave MFA on
  with no secret.
* `LockComesInTime` counts attempts that overlap with no other: those that do
  read one counter and count as one. `LockHolds` excepts an attempt whose
  password was being compared when the lock was set. That `AuthLoginEmail`
  locks nothing for good against guesses made at once is why it stands behind
  `authRateLimit`.
* `LimitPerWindow` counts per row of `auth_rate_limits`: a user whom the database
  did not tell counts for the address, and so has that limit besides.
* `StopEnds` does not say that requests under way are finished: when the patience
  of `Shutdown` ends, or the listener fails, they are cut, and what their last
  statement may still do is in the other properties of `server`.
* `NothingLeftBehind` excepts a report that could not be written to its end:
  `postgres_handlers.go:108-112` removes the stored upload only. A lost
  commit answer is excepted by name: the handler then removes what the new row
  names (section 4). A batch whose commit
  answer is lost loses its files in the same way.
* `InspectedFirst` takes the scanner's verdict for what it is; with
  `ANTIVIRUS_FAIL_OPEN` a file that no scanner saw passes, as configured.
* `ItemsAreTheRows` excepts numerals that can be read in two ways (`0.125`,
  `1.234.567`), `DeltaExplained` files with duplicate or very short names, of
  which the comparison keeps the last.
* `ReadyReconciles` does not say that a ready workbook was read as a whole: the
  finding that a sheet was skipped is Medium and does not keep the budget from
  being ready. It says that the sheet is named by that finding; that unreadable
  and cut sheets prevent "ready"; and it says so only of XLSX, because
  `readXLSRows` cuts sheets and rows without a finding.
* `DuplicatesExplained` takes the keys for what the code makes of them: with a ` · `
  in the name of a sheet, equal names on two sheets have two keys and are not
  duplicates.
* `RiskCovers` is about the level the AI states, which is what the code uses,
  not about the findings it lists.
* `FilesFollowRows` and `RetainedIsCharged` except the early deletion of
  finding 3; `StorageCoversFiles` lost answers of commits, which can
  undercharge.
* Nothing forbids a batch that runs again to make an estimate anew that its owner
  has deleted (`batch_processing.go:85`): the code does so until the batch is
  settled, after which `SettledIsFinal` allows no further attempt.
* `CallsAreCovered` does not say that every provider call is counted, as
  `docs/USAGE_QUOTAS.md:19` has it: it bounds the calls by the counted jobs, and
  one job stands for as many calls as the worker's attempts times chunks times
  HTTP attempts allow (section 4).

## 4. Where documents and code disagree

Shown by a run:

1. `docs/backend-release-gates.md:11` wants batches to go from queued to done.
   A claim that finds the advisory lock busy has already counted an attempt and
   is left `processing`; if it was the last attempt, no claim takes the batch
   again. It needs no fault: `pgFail` makes the batch pending before the lock is
   released. `pgReleaseAnalysisBatchClaim`, which would give the claim back, has
   no caller. (`batch_stranded`)
2. `docs/USAGE_QUOTAS.md:27` says that failures are rolled back;
   `rollbackAccountUsage` subtracts from the current month, not from the one that
   was charged. (`quota_month`)
3. `docs/DATA_RETENTION.md:31` says that deleting an estimate preserves the
   batch's source; between `pgSaveEstimate` and the link it does not.
   (`storage_source`)

Met while reading, without a run:

* `docs/USAGE_QUOTAS.md:19` says that AI jobs count external calls; one job is
  reserved per summary and per file of a batch, while the provider is called once
  per chunk (`ai_provider_openai.go:21-24`), each call up to
  `AI_HTTP_MAX_ATTEMPTS` times (`ai_http.go:41`), and a batch that is retried
  calls it all again (`batch_processing.go:63`). What a job stands for at most is
  `RequestsPerJob`, and `CallsAreCovered` shows that it is not more.
* `docs/DATA_RETENTION.md:11` says that an upload is retained together with its
  report until its owner deletes it; when the commit of `pgSaveEstimate` is done
  but its answer is lost, `EstimateUploadPostgres` removes both, and the row
  stays (`LoseAnswer`, then `KeepFails`, in `EstimateIntake`).
* `docs/UPLOAD_SECURITY.md:24` says XLSM is disabled by default; the default list
  of extensions has it, and active content of PDFs is not looked for.
  `docs/UPLOAD_SECURITY.md:56` wants every accepted file to have a clean scan;
  without `ANTIVIRUS_ENABLED`, or with fail-open, it has none.
* `AdminChangeQuota` and `AdminChangePlan` write columns that no handler reads,
  `disabled_at` is cleared by `AdminRestoreUser` and set by nobody, and an error
  of `writeAuditLog` is dropped everywhere.
* `config.go` compares `APP_ENV` exactly, `cmd/api` without regard to case and
  blanks: ` Production ` runs the production server with the checks of a
  development one.
* Consent is recorded for uploads, not for batches and comparisons.
* `docs/AI_SETUP.md:16` says the binary source is not sent to the provider;
  PDFs are sent as they are (`ai_provider_openai_raw.go`,
  `ai_provider_gemini_raw.go`).
* `README.md:30` lists a check for a missing item name; `extractItems` skips
  rows without a name, so the check cannot fire.
* `AI_BATCH_LOCK_TIMEOUT` is set to 15 minutes in `.env.production.example:99`
  and `docker-compose.production.yml:110`; `batch_store.go:78` has ten minutes
  in the statement.
* `validateAIChunkResult` (`ai_chunk_validation.go`), `pgReleaseAnalysisBatchClaim`,
  `ProcessNextAnalysisBatch` and `AuthLogout` are never called.
* A multi-sheet XLS is one table: the header of a second sheet becomes an item.

## 5. Proofs

TLC checks instances; the theorems hold for any sets of workers, batches, files,
requests, months, sessions, browsers and tabs, any limits and any combination of
faults, under the named assumptions on the constants:

* `BatchAssumption`, `QuotaAssumption`, `GuardAssumption`, `ServerAssumption`,
  `StorageAssumption`, `SessionsAssumption`, `CredentialsAssumption`,
  `IntakeAssumption`, `ChecksAssumption`, `ReconcileAssumption` say that counts are naturals, that functions have their
  domains, that a name for "nothing" is none of the things, that files of the
  batch and uploads are different files (the code gives every stored file a
  random name of its own), and that there are finitely many requests and files
  (so that their charges have a sum).
* `ChecksAssumption` says in addition what an estimate file is: a list of sheets,
  each a list of rows, with numbers that do not group their thousands by their own
  decimal mark. How many sheets and rows there are, and what they say, is free.
* For the limits, a row is not cleaned up while its window is open (two days
  against an hour at most).

Nothing is assumed about faults. Where a property excepts one (`early`, `ack`,
`drop`), it does so by name, in the property that the run checks too.

Each invariant below was an invariant of a TLC run before it was proved.

**AnalysisBatchProofs**

* `TypeCorrect`: `Spec => []TypeOK`. Inductive as it stands, including that
  `attempts` never exceeds the bound.
* `Exclusion`: `Spec => []MutualExclusion`. Not inductive: the strengthening
  `LockHeld` says that every worker in the critical section *holds the lock of its batch*
  unless connections are lost. Two workers with one batch would hold one lock.
  `LockStep` collects what every action does to locks.
* `AttemptsDecide`: `Spec => []AttemptsDecideOutcome`. `AttemptsInv` adds that a
  worker with a batch has an attempt counted for it, so that a failure recorded
  late, by a worker that lost the batch, still finds the counter right.
* `SettledStays`: `Spec => SettledIsFinal`. `ClaimInv` says that with crashes alone a
  batch some worker is active with is `processing` and freshly leased, or its
  worker has just given it up. An active worker then never meets a settled batch.
* `LinksKept`: `Spec => EstimateLinksKept`. A worker writes the links it *loaded*
  over those of the table, so the invariant must say that nothing was lost in
  between: `LinkInv` has, for each worker, that what its batch has linked is what
  it loaded plus the files it has passed since, but for those the owner has
  deleted (`HandOf`), and for each batch that what is linked exists and what a
  report was made of is linked or deleted (`LinksOf`).
* `ReportsAreWhole`: `Spec => []ReportHasItsEstimates`: the owner's deletions, at any
  moment, are the only way in which a report loses an estimate. `DoneInv` adds that every
  file an active worker has passed is completed; with `ClaimInv` nobody resets
  them, and the last file completes the count (`DoneOf`).
* `QueueImplemented`: `Spec /\ env \subseteq {"crash"} => QueueSpec`, the refinement
  of `BatchQueue`. The mapping takes as *runner* of a batch the worker that is
  processing it or recording its failure; by `ClaimInv` there is one at most, so
  `runnerOf` needs no choice. Every action starts or ends a runner, settles or
  retries the batch, or stutters. Other faults than crashes are left out because
  a worker that loses its lock or its lease goes on beside the next one, which
  the queue does not promise away.

**UsageQuotaProofs**

* `TypeCorrect`: no counter is ever negative, every delta is well typed.
* `Atomic`: `Spec => LedgerSpec`, the refinement. `CheckedFits` is the invariant
  that makes it true: a transaction that has compared still fits when it
  commits, because it holds the row lock and whoever writes a counter in between
  can only lower it. `StepKinds` splits all actions into quiet ones, charges
  and refunds; `ChargeRaises` and `RefundLowers` map the last two to
  `ChargeAccount` and `RefundAccount`.
* `WithinLimits`: `Spec => []QuotaNeverExceeded`, from the ledger: a counter that
  rises ends at or below its limit.
* `StorageCovers` and `Exact`: what the account is charged is at least the sum of
  what it stores, and, when nothing fails, each counter is exactly the sum of
  what its requests have reserved and kept: the accounting is exact about what it
  counts, which is not the provider's calls. `BooksInv` balances the books at *every* step, not
  only at rest: `Owed(r)` and `Spent(r, x)` are what request `r` has charged so far,
  by the statement it is at, and a step changes one of them by as much as it
  changes the counter.
* `Covered`: `Spec => []CallsAreCovered`. `CoverInv` says that the AI jobs the requests
  have spent are counted in some month, not necessarily the one they were charged
  to, and that a request has asked for no more than what it has spent allows
  (`Asked`). `JobsStep` is the one fact about all actions: a step changes what one
  request has spent and the jobs of one month, and those fall no more than that.
  A request that has asked for anything is beyond every refund of jobs.

The three are about sums over a set of any size. `FoldFunctionOnSet` is recursive over
sets, and the library's induction theorems cannot be instantiated (they take an
operator as a parameter). The proofs go another way: if a statement about finite sets were
false for some subset, the subsets for which it is false would have a least one,
because strict inclusion of finite sets is well-founded; there is none.
`LeastSubset` is that argument; `SumsExist` and `SumsAgree` show with it that the
recursion has one solution, and `TotalUpdate` that changing one summand changes
the sum by as much.

**EstimateStorageProofs**

* `FilesHaveOwners`: `Spec => []FilesFollowRows`, from `FilesInv`. `SourceInv`: nobody but a cleanup
  takes a file from a batch, and only when it has been settled for long;
  `OwnerInv`: a row gives a file up only when the file is gone from disk, which is
  the order of remove and commit in the code; `DeletionInv`: a deleted upload
  belongs to the one deletion that released its row.
* `RetainedCharged`: `Spec => []RetainedIsCharged`. `ChargeInv` counts with the
  retained files those whose deletion has removed the row and has not yet
  released the bytes (`Pending`). A step keeps the charge, releases one file
  together with its bytes, or loses a release that failed (`Kept`, `Released`,
  `Lost`); that no two of them release the same file is `FilesInv`.
* `StorageTypes`: type correctness.

**AuthSessionsProofs**

* `EndedStays`: `Spec => []EndedStaysEnded`. `EndedInv`: the session of a reported end
  is `Dead` (revoked; or its row deleted and its id used up; or its tokens
  expired), or the end is one of the two that are `Excused`. That a report comes after
  the deed is `LogoutInv`: a logout with an access token has the session of that token
  before it, or that session is dead already; one without leaves it to the
  refresh token, which is current unless a refresh overtook it (`CookieInv`).
  `IdsInv` is why a deleted id never comes back.
* `EvidenceStays`: `Spec => []EvidenceKept`. Inductive as it stands, given the types.
* `UndisturbedStays`: `Spec => []UndisturbedSessionIsUsable`, the deepest of the
  module: with any number of tabs refreshing, logging in and being served at
  once, a session nobody asked to end stays. `CalmInv` has four parts. `OwnInv`: a
  browser uses one session and no other browser uses it. `CookieInv`: the tokens
  in jars and requests have been issued. `EndingInv`: what revokes a session, or
  clears a cookie, was asked for by its user. `TokenInv`, the heart, says where
  the current token of a session is: in the jar of its browser, or in one answer
  on its way there, with which no tab is asking yet. A presented token that is
  no longer current is then always one the grace period tolerates.
* `SessionTypes`: type correctness, with `gen` bounded by `MaxRotations`.

**CredentialsProofs**

* `TokensWorkOnce`: `TokenInv`: a token is made once, whoever came through with it
  has consumed it, and what a request does next is what its token is for.
* `ResetEndsSessions`: `ResetInv`: a login under way carries the present password
  or a reset has marked it as raced, so the sessions that survive a reset are
  those the property names.
* `SecondFactorHeld`: `FactorInv`: an enable under way has checked the secret that
  is pending, or another setup came between.
* `IdentityLeadsToOneAccount`: `IdentityInv`: the account an external login goes
  on with is the one its identity leads to or will when its transaction commits.
  `PhaseInv` and `CredentialTypes` carry all four.

**EstimateIntakeProofs**

* `NothingStays`: `Spec => []NothingLeftBehind`. `DiskInv` gives for every phase of a
  request exactly the files it has on disk, its report included, and for a
  refused one what the failed step could leave.
* `Inspected`: `Spec => []InspectedFirst`. `PassedInv` says that what is past the
  inspection passed it, with which answers; the rest is about the decision
  itself, for archives of any number of entries and any limits. The reading of an
  archive is a fold over its entries: `SeenIn` is what it has seen, by the same
  least-subset argument, and `ArchiveIsSound` shows that a file that passes has no
  entry the property forbids, that its totals are within the limits and that the
  parts of a workbook are there.

The checks and the comparison, for files with any number of sheets and rows, rest
on `ChecksInv`. None of the four properties is inductive: they speak of results,
and a result is written once, from `items` and `findings` that grew sheet by sheet.
The invariant therefore follows the reading: in phase "sheets" the items are
the countable rows of the sheets so far, under growing numbers up to `rowOffset`
(`Sheetful`), and the findings tell of every sheet that gave no items
(`ReadFound`); in phase "items" the same of the whole file; and each result is
either `Failed`, empty with a finding of high severity (a PDF needs none), or
`Complete`. `ComparedInv` says what the comparison is made of.

* `ItemsAreRows`: `Spec => []ItemsAreTheRows`. `OneSheet` is about the rows of one
  sheet, `SheetfulGrows` about the next one; `NumberRead` says which numerals are
  read as they are written, and `ListingIsRanked` that items in the order of
  their places are the k-th countable row each. An XLS file is flattened first
  (`RowsJoined`).
* `ReadyAddsUp`: `Spec => []ReadyReconciles`. Without a finding of high severity
  and without one of no total, every item is `Sound` (`ItemsAreSound`), that is,
  within its tolerance, and then so is the sum (`TotalsClose`). `ReadFound` says
  that a sheet which could not be read or was cut off has a finding of high
  severity, which prevents "ready", and that one which was skipped, of medium
  severity, is named by its finding.
* `DuplicatesAreTold`: `Spec => []DuplicatesExplained`. `FlattenLaid` finds the
  findings of each item in the list of all, so that duplicates and repeated items
  correspond one to one (`DuplicatesFound`); `RepeatedCounted` counts the first of
  each key; that rows tell items apart comes from `Sheetful`.
* `DeltaIsExplained`: `Spec => []DeltaExplained`. As many keys as items makes every
  item the only one of its key (`PlainKeys`), so that the sums over items are sums over
  keys (`TotalRenamed`); these are split into added, removed, changed and other
  ones (`TotalParts`), and the others differ by at most a som each (`TotalBounded`).

**ServerProofs**

Of the limits and the lock (`LoginGuard`):

* `WithinLimit`: `Spec => []LimitPerWindow`. `LimitInv` adds that what got through in
  a window is no more than its row has counted *as long as a request of that
  window can still come*; afterwards the row may be gone. `InWindow` is the
  arithmetic of windows.
* `LockInTime`: `Spec => []LockComesInTime`. `LockInv` says that the counter,
  and every count that an attempt under way is about to write over it, is at
  least the number of failures that stood alone, and that attempts under way
  together know it.
* `LockStands`: `Spec => LockHolds`, from the same invariant.

Of the processes:

* `Refines`: `ServerSpec => Spec`. Every step of a process is a step of
  `LoginGuard` or leaves it alone; hence `LimitSurvivesRestarts` and
  `LockSurvivesRestarts`, with no proof of their own.
* `SchemaStaysSafe`, `ServerTypeCorrect`: from `ServerInv`, which
  adds to the properties that a process has in the database what it has applied
  since it began, that a request is an orphan or has a running server, and that
  orphans exist only where a server has been.

**AIReconcileProofs**

The invariant itself is simple (`IInv`: types, `RawIsWhole`, `InTurn`, and
`ReportsAreReconciled`, which says that a report is what `reconcileFile` makes of
its file; `SummaryIsOfAll` says it of the summary). What is hard is what these
functions compute, for lists of any length:

* Greedy matching, the highest risk, flattening and the number of rows are folds.
  TLC's folds are recursive functions over lengths or sets; that such a function
  exists and is the only one (`FoldExists`, `LoopExists`, `FoldsAgree`) is shown by the
  least counterexample, this time the least number. What a fold keeps
  (`MatchesTaken`: no finding of the AI is taken twice) is shown the same way.
* A stable sort is `Ranked` of module `Ranking`: the element with k - 1 elements
  before it. That every position has exactly one such element is a counting
  argument (`RanksDiffer`, `RanksAll`): ranks of n elements are n different numbers
  below n. Hence sorting loses nothing and doubles nothing, and
  `LexicographicOrders` makes the order of the code strict and total.
* `FindingsAreReportedOnce`: `UnifiedFair` says it before sorting,
  `SortedIsReported` after it.
* `AgreementIsAlwaysEarned`: `RoundedBounds` is the arithmetic of rounding,
  `ScoreBounds` applies it to both quotients; `ConfirmedAtMost` counts what is confirmed.
* `RisksAreCovered`: `ReportCovers` of a file, `HighestCovers` of the fold over files.
* `EverythingHeardIsKept`: an action property of the step that makes an analysis of
  the answers to *all* chunks, one or many. `FlatIsFlattened` finds each finding of
  an answer in the list of all, `FirstIsKept` the first of those with its key in the
  merged list; `MergedIsKept` says both of any list of answers, and `SomeChunks`
  that there is at least one when they are merged.

`ReconcileAssumption` is the only assumption: estimates and replies are typed,
counts and limits are naturals. What a provider says is otherwise free.

Type correctness of the modules (`TypeCorrect`, `StorageTypes`, ...) has no run of
its own: the strengthenings need it, and the runs check deeper things.

Model-checked only:

* liveness: `EveryBatchSettlesOrStrands`, `WorkersComeBack`, `RequestsFinish`,
  `FilesArePurged`, `SupersededTokenEndsSession`, `StopEnds`. Fairness and ENABLED are beyond
  TLAPS.

Every invariant that a run checks is proved, and so are the action properties and
the three refinements (`BatchQueue`, `UsageLedger`, `LoginGuard`).

## 6. Plan

In this order:

1. Queue and worker with its abstract specification; quotas with theirs; stored
   files; sessions; credentials; checks; reconciliation. *(done)*
2. Proofs of the queue's and the ledger's main safety properties. *(done)*
3. Limits and locks with their proofs; inspection and intake of files; the
   processes, composed with the limits, with their proofs. *(done)*
4. Proofs of the remaining safety properties of the queue, the quotas, the
   stored files, the sessions, the credentials, the intake, the checks, the
   comparison and the reconciliation, and of the refinement of `BatchQueue`. *(done)*
5. What could still be composed: the seeding of storage counters by
   `usage_schema.sql` with `UsageQuota` (an account that has a file has a row, so
   the seeding is expected to change nothing), and `Server` with `AnalysisBatch`,
   whose `crash` is already the death of a worker at any statement.

## 7. Not modelled

Single statements without a reader (what administrators set, audit records),
stateless checks (consent's texts, provider policy, CSRF, configuration),
cryptography, decoding of file formats, texts, prompts, charts and report
layout, mail transport (whether a mail arrives is a free choice in
`Credentials`), the exchange with OIDC providers (its outcome is chosen freely),
the frontend (the modules let any browser ask for anything it can; that a page
refreshes once for several 401s is not assumed), the bot, which only waits for a
signal, scripts for deployment and backup, and the older packages that neither
server reaches. Locks that PostgreSQL takes on tables while a schema is applied
may make a request or a start fail; that is one of the failures both may have
anyway. Reads are not modelled: listing, dashboards and
downloads change nothing. `PROJECT.json` lists each with its reason.
