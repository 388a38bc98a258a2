# AutoJobsApply: specifications, model checks and proofs

AutoJobsApply lets a user collect jobs, stage applications for them, and have a browser agent
submit the applications. It is a FastAPI back end (`src/backend/app`), an arq worker fed through
Redis (`app/workers`), a PostgreSQL database, and a React front end (`src/frontend/src`). This
directory holds TLA+ modules translated from that code, TLC runs over small instances, and proofs
checked by TLAPS for instances of any size.

Paths below are relative to `src/backend/app` unless they begin with `frontend/`.

## 1. Inventory

Each entry gives the state a component keeps, its operations, what it talks to, what is hard about
it, and what makes it correct. `PROJECT.json` repeats the list with the status of each part, and
lists the hazards line by line.

**Application lifecycle** (`services/application.py`, `api/v1/applications.py`,
`models/application.py`). State: the `applications` table, above all `status`, and a partial unique
index "one active row per (user, job)". Operations: create, batch create, approve, bulk approve,
update status. Each request reads rows into a session and writes attributes back by primary key
later, with no lock and no version column. Hard: every read-check-write pair can interleave with
every other request and with the worker. Correct when: one active row per job, approval only of
staged rows, terminal rows stay terminal, a completed row is not submitted again.

**Dispatch and queue** (`services/dispatch.py`, `db/arq.py`). State: the arq job `apply:<id>` of a
row and its result key. Rows are committed first and enqueued after, one at a time. Hard: a process
that dies between the two, a process without a pool, the refusal of a job whose id is still known.
Correct when: nothing reaches the worker without consent, and nothing is lost silently.

**Apply worker** (`workers/tasks.py`). State: the run of a job, the session's copy of the row, the
number of tries. Operations: `_apply`, `_mark_failed`, `run_apply_pipeline`; also the review job and
two cron jobs. Hard: at-least-once delivery, three kinds of ending (result, transient error,
exception) times three kinds of interruption (job timeout, SIGTERM, death), each with its own idea
of who writes the row last. Correct when: no row stays in APPLYING, APPLIED is not submitted again,
tries are bounded.

**Apply runtime** (`core/automation/runtime`). The agent loop: steps, an observer that records a
trajectory and publishes progress, a classification of the outcome. The worker sees its outcome.

**Legacy automation, intervention** (`core/automation/agent.py`, `session_manager.py`, `platforms`,
`intervention.py`). Older browser drivers; a BLPOP/RPUSH rendezvous between a run and the user's
answer, with keys kept for ten minutes. Nothing calls `request_intervention` at this commit.

**Self-evolving harness** (`core/harness`). State: trajectories, verdicts, diagnoses, the versioned
skills of a domain with scores, system issues. Operations: review (judge, diagnose, distil), score
feedback with retirement at -3, anomaly detection. Hard: read-modify-write of scores, check-then-
insert of skills, a version number that is retried three times, a review job that raises for a retry.

**Auth sessions** (`api/v1/auth.py`, `services/password_reset.py`, `core/security.py`). State:
`refresh_tokens` (family, used, revoked), `password_reset_tokens` (used_at), `users.deleted_at`.
Operations: register, login, refresh, logout, forgot, reset, delete. Hard: two tabs presenting one
cookie, revocation overlapping a rotation, a link redeemed twice, transactions waiting for each
other's rows, rollback of a claim. Correct when: a token is exchanged once, a family has at most one
exchangeable token, revoked means dead, a deleted account has no future, a link sets one password.

**Account purge** (`services/account.py`). Nightly: files first, then rows child before parent.
Hard: a failure between, rows inserted meanwhile.

**Secrets and platform sessions** (`core/secrets`, `services/platform_session.py`). Encrypted
blobs, upserts, re-wrapping of all of them under a new key. Hard: rotation against a concurrent save.

**Storage, documents, resumes, cover letters** (`core/storage`, `core/documents`,
`services/resume.py`). Files and rows written one after the other; parsing and rendering.

**Job search** (`services/job_search.py`, `core/job_discovery`). Discovery, de-duplication, upsert.

**ATS scoring** (`core/ats`). Pure scoring of a resume against a job; gates the worker.

**LLM client** (`core/llm`). A provider chain with fallbacks; usage rows.

**Rate limiter** (`core/ratelimit.py`). INCR, then EXPIRE, on a bucket per window.

**WebSocket events** (`api/websocket`, `db/redis.py`). Tickets, a connection manager, one
subscriber per user on a Redis channel. Hard: connect, disconnect and cancellation of the subscriber.

**Tenant scoping** (`db/tenant.py`). A context variable and a filter added to every SELECT.

**Front end** (`frontend/src/services/api.ts`, `context/AuthProvider.tsx`, `hooks/useWebSocket.ts`,
pages). Single-flight refresh per tab, session hints, reconnection, views over the API.

**Analytics, settings, mail, metrics, logging, unused queue code.** No state of their own that a
property would be about, pure I/O, or no caller.

### How they interact

    browser --HTTP--> applications ---> dispatch --arq/Redis--> worker --> runtime --> job site
       |                   |                                      |   \--> harness (review job)
       |                   +------------- PostgreSQL -------------+
       +--cookie--> auth sessions         (shared rows)           |
       +<--WebSocket-- subscriber <------ Redis pub/sub <---------+

Calls inside a process are ordinary awaits. Everything else is shared rows (read, await, write
back) or messages that can be dropped, repeated or refused.

## 2. Modules

| module | what it is |
|---|---|
| `ApplyContract` | what the apply pipeline promises, without database, handlers or worker |
| `ApplyPipeline` | requests, arq queue and worker over the rows of one user |
| `SessionContract` | what the sessions of an account promise to who holds a token, without rows, locks and transactions |
| `AuthSessions` | the sessions of one account as concurrent transactions |
| `Harness` | browser runs of one site and the reviews that learn skills from them |
| `AccountData` | files, rows and secrets of one account, the requests that write them, the purge |
| `JobSearch` | searches of one user over job sites and Exa, from what an agent returns to the rows |
| `Live` | progress events through Redis to the sockets of one user |
| `Matching` | scoring of a resume against a job, and its rewriting by a chain of models |
| `ResumeText` | the text of an uploaded resume and the two ways it is taken apart |
| `...Proofs` | the theorems about each module of that name, with their proofs; `ApplyContract` is proved about in `ApplyPipelineProofs`, `SessionContract` in `AuthSessionsProofs` |
| `MC...` | one instance for TLC of each module |

`ApplyPipeline` and `Harness` meet at `run_apply`: the pipeline has the outcomes of a run and what
they make of the row, the harness what happens to the run itself and after it. `AccountData` stores
what `ResumeText` parses and what `Matching` scores and rewrites; it takes texts as given. `Live`
publishes what the steps of a run announce. The parts share no variable that one writes and
another's properties read, so they are checked apart.

### ApplyPipeline

Variables, one function per attribute. `status` is the column. A request `c` is `op[c]`, the rows it
has yet to write (`todo`), the rows it has written and must enqueue (`enq`) and its session's view
(`seen`). The queue is the arq job of each row (`arq`: none, queued, running, result) and its `tries`.
A run is its place in `_apply` (`stage`), the worker session's `copy` and the number of
submissions of the current dispatch (`sends`). `approved`
and `completed` are history. A run whose row is gone returns at once (`Load`); what deletes it (a job, with its
applications) is not an action here.

A session is what SQLAlchemy makes of it: a statement reads a row into the session; a commit
writes back by primary key the attributes that differ from what was read, and not the others. `Written` is that
UPDATE; the unique index (`Unique`) may refuse it. Nothing locks a row between the two, so reads and
commits are separate actions.

| actions | code |
|---|---|
| `Insert`, `CreateExisting`, `Refresh` | `create_application`, `create_batch`, with the lost race on the index |
| `Dispatch`, `Enqueue`, `EnqueueUnavailable` | `dispatch_for_mode`, `enqueue_apply`, with and without a pool |
| `ApproveRead`, `ApproveCommit` | `approve_application`, `bulk_approve` |
| `UpdateRead`, `UpdateCommit` | `update_status` |
| `ApiFails` | the API process dies, or Redis refuses the job |
| `Start`, `GiveUp`, `Finish`, `Expire` | the arq worker loop, `max_tries`, the result key |
| `Load`, `GateBlocks`, `Mark`, `Announce`, `AnnounceRaises` | `_apply` up to the submission |
| `Send`, `Reported`, `Transient`, `Permanent`, `Confirm`, `MarkFailed` | `run_apply` and what its outcome makes of the row |
| `Timeout`, `Shutdown`, `Crash` | cancellation by `job_timeout`, cancellation by SIGTERM, death |

`Faults` selects which faults an instance has, and `UserStatuses` which statuses clients send to
`PUT /status`. Rows of different users never meet (each statement is tenant-scoped, the index starts
with `user_id`), so one user is enough. Progress payloads, notes, timestamps and metrics are left out.

The model shows behaviours that no passing property excludes, because the code has them:

* a dispatch made while the result of the previous job is kept is refused without an error;
* `POST /applications` for a row that is APPLIED dispatches it again, and it is submitted again;
* creating an application again whose approved row still has its job puts the row back to
  PENDING_REVIEW, with the job;
* an approval that read its row before the worker did writes APPROVED over APPLYING or APPLIED;
* a row withdrawn while its job waits is submitted all the same: the worker does not look;
* Re-run writes QUEUED and makes no job;
* a Redis error after APPLYING was committed, or a crash on every try (the last one included), leaves the row
  in APPLYING without a job (this is why `NothingStaysApplying` has hypotheses);
* a FAILED row whose job was interrupted by SIGTERM after the failure was written is taken up again.

### ApplyContract

One row needs consent before a dispatch, has one open dispatch at a time, and one dispatch makes at
most `MaxTries` attempts, each submitting at most once. `ApplyPipeline!Implements` maps `consent` to
`approved`, `open` to the rows with a queued or running job, and `attempts` to arq's tries. A
dispatch that is lost before it is queued is a stutter: the contract does not promise that a row is
submitted, only under which conditions and how often.

### AuthSessions

Each request is a transaction of PostgreSQL at READ COMMITTED (`db/session.py` sets no other level).
`family`, `used`, `revoked`, `issued`, `spent` and `deleted` are the committed rows. `kind`, `stage` and `arg`
say what a request does, how far it is and which token it presents. `found` and `spend` are the rows
its bulk UPDATE saw. Locks are not a variable: who holds a row follows from the stages
(`HoldsToken`, `HoldsUser`, `HoldsLink`).

* An UPDATE by key waits for the transaction that has updated the row and then looks at its
  condition again (`Claim`, `WriteLink`, `WriteUser`).
* A bulk UPDATE sees the rows committed when it begins (`RevokeStart`), and waits for those that are
  claimed (`RevokeCommit`). It is atomic from then on: after it the handlers only commit.
* `reset_password` sets the user's hash before `used_at`, but both wait for the flush, which writes
  mappers without a relationship between them in the order of their class names: reset token, then
  user. Two resets by different links therefore can wait for each other (`SpendLinks`, `WriteUser`);
  PostgreSQL aborts one (`BreakDeadlock`).
* A request may be aborted anywhere (`Abort`); an `AuthError` after the claim rolls it back (`CheckUser`).

A reset reads `used_at` before it waits for the link's row, and does not look again: two resets that
overlap redeem one link, both setting a password. The model has it; no property is stated over it.

Clients present any token that was ever issued, because responses get lost and tabs share a cookie.
Left out: access tokens, expiry of rows, wrong passwords, rate limits, registration, and deadlocks
between two bulk UPDATEs that meet the same rows in different orders. `Fresh` picks any unused token:
tokens differ only in name.

### SessionContract

A token is unborn, live, void, exchanged or revoked. A login opens a family; an exchange kills the old token in the
step in which its successor is born; any live tokens may be taken back, for good; what is committed for a closed account
is void. `AuthSessions!Implements` maps this standing to `Standing`, which is read off the rows (`issued`, `used`,
`revoked`, and `late` for tokens committed after a deletion); `family`, `from` and `deleted` are the same in both. Waiting for a lock,
looking at the account, reset links, aborts and deadlocks are stutters. The contract does not say which tokens a logout takes
back: that a logout may miss one is the finding of `RevokedFamilyLives`.

### Harness

A run of one site goes `idle`, `driving`, `record`, `recorded`; the job that reviews it `queued`, then
stage by stage through `review_run` and `_score_skills_from_verdict`. `skills` is the table
`domain_skills` of the site, shared by all users, its versions being the indices of a sequence;
`signals` counts the rows of `skill_feedback`. What a review has read and not yet written back is in
`todo`, `seen` and `left`. `expired` marks a session that was rolled back: SQLAlchemy expires its
objects, and the next attribute read outside a query raises (`CloseRaises`).

| actions | code |
|---|---|
| `Refuse`, `Prepare`, `AgentEnds`, `WorkerDies` | `run_apply`: prerequisites, skills loaded, file materialized, browser run |
| `Record`, `RecordAndReview` | the trajectory and the job that reviews it |
| `Start`, `Interrupt`, `ReviewRaises` | arq's side of the review |
| `Judge`, `Diagnose`, `Distil` | `judge_run`, `record_diagnosis`, `distil_skill` with the PII gate |
| `Dedup`, `DedupRaises`, `ReadVersion`, `Insert` | `record_skill` |
| `Close`, `CloseRaises`, `ReadScore`, `WriteScore`, `Reviewed` | `add_feedback` for each skill of the run |

In the model, as in the code: two reviews may store twin skills (equal and active), after which the
look for a duplicate raises; a transient provider error is raised so that arq may retry, but arq
retries only its own `Retry` and cancellations, so the review is over; if building the agent raises,
the block that removes the materialized file was never entered. `RetiredForGood` is about steps: a review may lift the score
of a retired skill by a stale write (`StatusAfter` keeps the status), but no step makes the row active again or gives it to a run.
The PII gate is taken to find what it looks for; in the code its test for names lets everything pass
while spaCy cannot be loaded (`core/harness/skills.py:50-51`). Anomaly detection is left out.

### AccountData

`files` is storage, `scratch` the local disk, `resumes`, `letter`, `cred` and `meta` are rows. A request
is its `kind` and `stage`, and any step may be its last (`Fail`). A file carries the name of the request
that made it, so that a row and its files can be compared.

| actions | code |
|---|---|
| `Upload`, `Tailor`, `Optimize`, `CoverLetter`, `Download`, `Sent` | the routes and services of resumes and letters |
| `TailorText`, `Rewrite`, `RenderResume`, `RenderLetter` | `DocumentGenerator` with its renderers, both formats in parallel |
| `Put`, `CommitDocument`, `Rescore` | `persist_generated_document`, the commit of the row, the second score |
| `Connect`, `ReadCred`, `WriteCred`, `ReadMeta`, `WriteMeta` | `import_session` and `CredentialStore._put` |
| `Disconnect`, `DropCred`, `DropMeta` | `delete_session` |
| `Rotate` | `rotate_all` |
| `DeleteAccount`, `PurgeFiles`, `PurgeRows`, `PurgeFails` | soft delete and the nightly `delete_user_data` |

A rotation that read a credential before the user saved newer cookies into the same row writes the
older ones back, under the new key; `RotationNeverRevives` is about removed rows only. Local files of
requests that failed are not part of the purge. Both are what the code does.

### JobSearch

A search keeps `known` (the rows it read first), `batch` (what a site has returned and is not registered
yet), `found` (`all_jobs`, in order) and `got` (what it has registered, for the properties). `Scraped` and `Semantic`
are the lists an agent or Exa may return; `CoerceAgentList`, `Parses`, `SiteId`, `ExaId` and `JobIdentity` take them to
keys. The three sites run the same code with other selectors and are one operator.

| actions | code |
|---|---|
| `Begin`, `SiteAnswers`, `SiteFails`, `AskExa` | `search_jobs` from the rows it reads through the sites to Exa |
| `Register`, `LeaveSite` | `_register`, one listing of the batch per step, and the way on to the next site |
| `Commit`, `CommitFails`, `Refresh`, `RefreshFails`, `DeleteJob` | the commit, the second reading of every row, `delete_job` |

An identity says whether it is an id or stands for a url, so that the hash of a url equals no id. A row is its key and
the search that inserted it. A commit that fails, or a row deleted between the commit and
`db.refresh`, empties the answer though other rows were found, or even stored. A JSON null for an id becomes the word
`None`, an identity all such listings share.

### Live

Each socket has a handler (`websocket_endpoint`) and a forwarder (`forward_user_events`), which share
the socket's lock. `inbox` is what Redis has delivered to the subscription, the confirmation included.
`Disconnected` cancels the forwarder wherever it is; `Leaving` awaits it and forgets the socket, unless
the forwarder died of Redis: that error leaves the `finally` block first, and the socket stays
registered (`TaskRaises`); no property forbids it, since the code does it. Tickets are taken as good, and the browser's end connects, pings and leaves at will.

### Matching

A text is none, blanks or words, and a set of terms: all that the scoring rules ask of words is which terms a
substring search finds. The operators are the rules of `ats/`, with fractions of `Scale` for floats (rounding downwards) and
TF-IDF as an equally weighted overlap. spaCy's likeness of a text and a posting is a constant function of both, `Likeness`:
it changes with the text, and may fall as terms are added. The state machine is one `optimize_resume`:
score, suggestions, the chain of models with every way each may answer, the new resume, its score; and
`analyze_job` for the same texts.

The two routes to a score differ in the model as in the code. `score_resume` takes blanks for no text, reads the key
`required` only, and falls back to counting words when the engine raises. `analyze_job` scores blanks, takes the key `skills`
when there is no `required`, and without spaCy has no score. Each has its own answer for a resume without text.

Behaviours no passing property excludes, because the code has them:

* `CandidateProfile` says what the engine is told of a resume: its skills, and never any experience or education. Nobody
  gets more than seven tenths of the scale. `ExperienceCounts` states the repository's claim, and its run refutes it.
* The optimized resume is stored with the text of the original (`SaveOptimized`), so its score, and that of every later
  analysis, is of the old text, whatever `api/v1/resumes.py:142-143` says of improved scores.
* When every model has failed the kind of error is that of the last one alone, although `client.py:156-157` says "on all
  attempts" and "all providers". `EveryModelIsTried` is about the chain being used up, not about the kind.

### ResumeText

A line is a value; which lines are headers, bullets, links, or too long for a title is given by the constants. The upload reads
a text line by line, falls back to decoded bytes, cuts it and stores it. `ExtractSections` is the loop both
`DocumentParser` and `_build_resume_data_from_text` have, as a function from the number of lines read to what has been cut so far
(sections found, open header, lines under it); `Profile` and `ResumeData` are what they make of the sections.
A line of skills is taken apart differently by the two: the tailored resume splits it at every comma, bar and dot (`Tailored`), the editor
only at the first delimiter of its own list that the line holds, strips a bullet, and drops wide lines without a delimiter and skills of one
letter (`EditorSkills`). These are constants, so a theorem holds for every way a line can be split.
`LinesAccountedFor` compares `ResumeData` with a definition of its own, by the numbers of lines and without any loop.

## 3. Runs

| run | expectation | what it shows |
|---|---|---|
| `PipelineRows` | pass | two rows of one job, every request, a worker: `TwoRunsMeanOverridden`, `NoStuckApplying`, `RefusedIsNotQueued` |
| `PipelineDelivery` | pass | one row, two requests, every fault: `PipelineInv`, `HumanGate`, `NeverSubmitsCompleted`, `Implements`, `JobsDrain` |
| `AuthSessions` | pass | `AuthInv`, `SingleExchange`, `OneLivePerFamily`, `DeletedNeverExchanged`, `Implements`, `RequestsEnd` |
| `Harness` | pass | two runs and their reviews: `ScoreWithinSignals`, `RetiredForGood`, `SignalsPerTry`, `FileRemoved`, `GivesUpOnlyWhenBeaten`, `ReviewEnds` |
| `AccountData` | pass | two requests of any kind, then the purge: `RowsHaveFiles`, `FilesOwned`, `ScratchOwned`, `NoFilesBehind`, `MetaAfterCookies`, `OldKeyRetired`, `RotationNeverRevives`, `PurgedInTheEnd` |
| `JobSearch` | pass | two searches and deletions: `DistinctListingsKept`, `ConflictsAreRaces` |
| `Live` | pass | two sockets: `SendsSerialised`, `NoEventSkipped`, `EventsArrive` |
| `Matching` | pass | six resumes, five jobs: `MoreTermsNeverHurt`, `EveryModelIsTried` |
| `ResumeText` | pass | every text of up to five lines: `LinesAccountedFor`, `TailoredSkillsReachEditor` |
| `TwoSubmitters` | violation | withdraw, apply again: two runs submit to one job together |
| `RevokedFamilyLives` | violation | logout or reset waits for a refresh and misses the token it commits |
| `ExperienceCounts` | violation | the engine gives a resume with the years a job asks for nothing for its experience |

Each violation run checks one sentence of a comment, docstring or README of the repository;
`PROJECT.json` quotes it. They use the same next-state relations as the passing runs. Every property of
a passing run has a mutant: a definition of the model changed as a bug would change the code, with
which TLC finds the property violated.

**Bounds.**

* Pipeline. Two rows of one job are the least at which the index, withdrawals and re-creation
  interact; a third only repeats the second, since the index compares pairs (and the theorem covers any
  number). Two tries separate a first from a last one, and with one row there are three. Two requests in flight
  give every pair of racing handlers. There is no counter but `tries` and `sends`, which the code bounds.
  `PipelineRows` has the faults of the API process and the pool (`PipelineDelivery` has all, on one row), and tells states apart by
  `Present`: the history variables, which neither its guards nor its properties read, are left out of the view. Clients are
  interchangeable, and its properties are invariants and a property of single steps, so `Sym` is sound.
* Auth. Three refresh tokens allow a token to have two successors and a family to grow while one of its
  rows is revoked; two links are the least for the deadlock. The bounds are in the guards (`TokensLeft`,
  `LinksLeft`: a request begins only if a row is left for it, so that the bound stops no request that has begun).
* Harness. Two runs make every race of two read-modify-writes, of two inserts, and of a run with a review
  of another. `VersionRetries` and `MaxTries` of 2 (3 in the code)
  have a first and a last attempt; `SkillLimit` of 2 (5 in the code) lets the limit cut off a third skill. One skill known at -1 is
  two failures from retirement, which two reviews and their repetitions reach.
* AccountData. Two requests make every pair (two rotations, save against rotation, disconnect against
  import, tailoring beside a download); an account that is not new has one resume and perhaps one session. Upload sizes
  are the limit and one more.
* JobSearch. Two searches, two sites and Exa, a limit below what they find; lists of up to five items hold each
  kind of identity, twice; `Doomed` bounds what is deleted to the keys two searches can meet in.
* Live. Two sockets, two events, one ping each: an event behind another, and a pong racing both.
* Matching. Texts and jobs are chosen for the cases of the rules: no text, blanks, words that count for nothing, no requirement,
  only preferred skills, skills under another key, aliases, a form without a word boundary, a degree without a rank, a chain of
  three models and of one. Likeness falls with every term the posting does not share, so both sides of the proviso occur.
* ResumeText. Files of six lines of which five are kept, each one of ten: headers of three fields, one of them with two, a header
  no field has, a line with two delimiters and a skill of one letter, a wide line, a bullet, a link, a blank. Two headers of one field, a repeated header and what stands between
  and after them fit, and the cut is met.

**Fairness.** Pipeline: weak fairness of a request that has begun (its event loop runs it on) and of the
work on each row (a worker polls the queue). New requests and all faults are unfair: users may stop,
and nothing has to break. Auth: strong fairness of each request's next step. PostgreSQL grants a row
lock to its waiters in order of arrival, so a request whose step is enabled again and again gets it;
weak fairness would let one wait for ever behind an endless stream of other claims. `Abort` is unfair.
A wait that another transaction never ends is not excused by fairness: `RequestsEnd` depends on the
deadlock being broken. Harness: weak fairness of each review's next step (the worker polls, a job
goes on); `Interrupt` is unfair and bounded only by the tries arq counts, which is what `ReviewEnds` is about.
AccountData: weak fairness of a request that has begun, and strong fairness of a purge of all files
and of the rows, which says that some night storage works, and some night after it the database; nothing
says that they do on the first. Live: weak fairness of each handler and each forwarder, since the event loop runs
what can go on, and `asyncio.Lock` queues its waiters. JobSearch, Matching and ResumeText have safety properties only.

## 4. Theorems

All leaves are checked by TLAPS, for arbitrary sets of rows, jobs, clients, tokens, requests, runs, skills, searches,
sockets, texts and postings, and for every value of the limits.

| module | theorem | statement |
|---|---|---|
| `ApplyPipelineProofs` | `TypeCorrect`, `PipelineInvariant` | `Spec => []TypeOK`, `Spec => []PipelineInv` |
| | `TwoRunsNeedAnOverride` | `Spec => []TwoRunsMeanOverridden` |
| | `RefusalsAreNotQueued` | `Spec => RefusedIsNotQueued` (of steps) |
| | `HumanGateHolds` | `Spec => []HumanGate` |
| | `CompletedIsSafe` | `Spec => []NeverSubmitsCompleted`, if no client writes `applied` by hand |
| | `ApplyingHasAJob` | `Spec => []StuckInv`, if `Faults` holds at most `api` and `pool` and no client writes `applying` |
| | `NothingStaysApplying` | `Spec => []NoStuckApplying`, under the same hypotheses |
| | `DrainedIsResolved` | `Spec /\ JobsDrain => ApplyingResolves`, under the same hypotheses: a row leaves APPLYING if jobs drain |
| | `PipelineImplementsContract` | `Spec => Implements` |
| `AuthSessionsProofs` | `AuthInvariant` | `Spec => []AuthInv` |
| | `RotationReplaces` | `Spec => []OneLivePerFamily` |
| | `ExchangedOnce` | `Spec => []SingleExchange` |
| | `DeletionIsFinal` | `Spec => []DeletedNeverExchanged` |
| | `SessionsImplementContract` | `Spec => Implements` |
| | `NobodyReturns` | after a deletion the tokens that can be exchanged only become fewer (of steps) |
| `HarnessProofs` | `TypeCorrect` | `Spec => []TypeOK` |
| | `ResumeFileIsRemoved` | `Spec => []FileRemoved` |
| | `ScoresAreEarned` | `Spec => []ScoreWithinSignals` |
| | `GivingUpNeedsRivals` | `Spec => GivesUpOnlyWhenBeaten` (of steps) |
| | `OneSignalPerTry` | `Spec => []SignalsPerTry`, for finitely many runs |
| | `RetirementIsFinal` | `Spec => RetiredForGood` (of steps) |
| `AccountDataProofs` | `TypeCorrect` | `Spec => []TypeOK`, with what a request has in its hands at each stage |
| | `RowsNameWhatIsThere` | `Spec => []RowsHaveFiles` |
| | `EveryFileHasAnOwner` | `Spec => []FilesOwned` |
| | `ConnectedMeansCookies` | `Spec => []MetaAfterCookies` |
| | `NoCopiesLeft` | `Spec => []ScratchOwned` |
| | `PurgeIsComplete` | `Spec => []NoFilesBehind` |
| | `OldKeyStaysRetired` | `Spec => []OldKeyRetired` |
| | `RotationRevivesNothing` | `Spec => RotationNeverRevives` (of steps) |
| `JobSearchProofs` | `NoListingIsLost` | `Spec => []DistinctListingsKept` |
| | `OnlyRacesConflict` | `Spec => []ConflictsAreRaces` |
| `LiveProofs` | `OneWriterPerClient` | `Spec => []SendsSerialised` |
| | `EventsInOrder` | `Spec => []NoEventSkipped` |
| `MatchingProofs` | `BetterTextsNeverDoWorse` | `Spec => []MoreTermsNeverHurt` |
| | `WholeChainIsTried` | `Spec => []EveryModelIsTried` |
| `ResumeTextProofs` | `ReadingsAgree` | `Spec => []TailoredSkillsReachEditor` |
| | `NoLineIsLost` | `Spec => []LinesAccountedFor` |

Assumptions on constants, each evaluated by TLC on its instance:

* `PipelineAssumption`: sets included in one another, `MaxTries` positive.
* `AuthAssumption`: `None` is not a token.
* `HarnessAssumption`: limits are naturals; the skills a site has at first are free of personal data and above the threshold.
* `AccountDataAssumption`: `None` is no name, file or credential, and `First` no request.
* `JobSearchAssumption`: the sites and all that is returned are sequences, the limit a natural, `First` no search.
* `LiveAssumption`: the bounds are naturals, and nobody who holds a lock is `None`.
* `MatchingAssumption`: the models are a sequence that is not empty, what has no words has no terms, the terms and skills of a
  posting are finitely many, the likeness of any text and a posting is a fraction of `Scale`, and levels are naturals.
* `ResumeTextAssumption`: the room is a natural; a header is no bullet, no long line, no link and not blank, and neither is the
  blank line any of these; every line is split in some way; `Absent` is no section and no text.

The hypotheses of `CompletedIsSafe`, `ApplyingHasAJob` and `NothingStaysApplying` are needed: a client may write
APPLIED into a row whose job waits, and a Redis error or repeated crashes leave a row in APPLYING. `OneSignalPerTry` counts
tries, so it asks for finitely many runs, which is all a database can have seen.

**Arguments.** `HumanGate` is not inductive: an enqueue reads `enq`, so the invariant adds that every
row waiting to be enqueued is autonomous or approved. The contract's "an attempt submits once" needs
`sends < tries` at every stage before the submission and a run exactly while the job is running. Those parts make
`PipelineInv`. `TwoRunsNeedAnOverride` rests on `Marked`: a run at the site has APPLYING in its session's copy, so two whose
rows are as their sessions know them would be two active rows of one job, which the index (`UniqueStep`) excludes. `RefusalsAreNotQueued`
needs `StagedInv`: the rows an approval
holds it has read as staged, so its commit does write them. `NoStuckApplying` needs `StuckInv`: the run that
marked a row still has a session that knows it as APPLYING (so its last commit is a real write), and
a waiting job has a try left.

For the sessions, `OneLivePerFamily` survives a rotation only if the claimed row is still live at the
commit and is nobody else's, hence `ClaimsHold`; this rests on the conditional UPDATE and on
revocations waiting for claimed rows. `RowsAgree` says that what was exchanged is used, that families are named after
existing rows and that late rows exist only after a deletion. `FromStep` (a commit exchanges only a
token that was live) then gives `SingleExchange` and `DeletedNeverExchanged`.

That the sessions implement their contract takes one case per commit: a login is `Open`, the commit of a refresh `Exchange`, that of a
revocation `Revoke` or `Close`, and every other step leaves `Standing` alone. An exchange needs the claimed token live (`ClaimsHold`) and the new
one unborn; that a new token is not revoked when it is born needs `RevokedInv`, since a bulk UPDATE that waits has seen only rows
there were. `NobodyReturns` then reads off the contract that only a login or an exchange makes a token usable, and neither does once
the account is deleted.

For the harness, `HarnessInv` has three parts that barely need each other. `SharedInv`: a score and its status are
written together, so although a stale write may lift a score, it never makes a retired skill active.
`StageInv`: what a review is about to store has passed the gate, since nothing but `Distil` gives it guidance.
`ListsInv`: what a run has loaded and a review has to score are versions that exist, which stays true because rows are never deleted.
Three more invariants rest on it. `PendingInv`: the score a review has read and not written back lies within the signals
of the row it will overwrite, because signals only grow; hence `ScoreWithinSignals`, whatever is lost. `BeatenInv`: the
highest version a review has read is at least as far above the first ones as the attempts it has used up, because each attempt was lost to a version
committed after it had read; a review with none left has therefore seen as many rivals as it had attempts.
`SignalsPerTry` is about a sum over runs, and is proved without one: `Spent(v)` is the set of pairs of a run and a try that has scored `v`
or never will, and `RoomInv` says that the signals of `v` are at most that many. A signal adds one pair, since a try owes each
skill of its run one signal (`Owes`) and, by `UsedInv`, has it in its list once; an interruption only adds pairs. `RetirementIsFinal` needs no more than `HarnessInv`: the status is written only
when it changes, so no stale write undoes it, and what is loaded is active at that moment.

For an account, `TypeOK` says what a request holds at each stage, above all that one at "store" has at least one
format. `DocumentInv` adds four parts: `Backed` (a document that is about to be committed has each of its files in storage or
still to be put), `Traced` (every object was made by a request that is not over, failed, or is named),
`Cleaned` (local copies belong to formats still to be put, or to a request not done) and `Emptied` (after the
purge of the files no request is under way and none can begin, so that no file appears). `OldKeyRetired` needs
`Rotating`, that a rotation passes through no other request's stages; that a later import writes the new key is in `WriteCred`.

For a site's session, `SessionInv` says that metadata is there or about to be written only after cookies were, or where some
request has disconnected; `KindsKeep` is what makes "about to be" the import's own business.

For the searches, `ReadInv` says that a search knows all earlier jobs that are still there, and that no row is its own before
its commit. `FoundInv` says that `found` has no key twice but that of listings without id and url, that a new row has a key the search did not
know, and that each listing it was given has its key in `found`. A conflict then leaves only rows of other searches that
were not there at the beginning; and as many listings as can be told apart have as many keys (`KeysTellApart`), so there
are as many rows.

For the sockets, `LiveInv` says that who writes is at its writing step and holds the lock of a live socket (`WriterInv`);
that a socket nobody has accepted yet has nothing, and one whose client is there has its lock (`SocketInv`); and that a handler
on its way out has lost its client and cancelled its forwarder or seen it end (`LeavingInv`). `StreamInv` numbers the events: what waits for a
subscribed socket are the latest, without a gap, behind the confirmation if that has not been read; what the client has got ends
just before them. Reading, forwarding and publishing each move this boundary by one. `NoEventSkipped` follows for every
socket, whichever of the two tasks fails; what was published before the subscription, or after it ended, is not promised.

For the scores, the lemmas say that a share rounded down lies between nothing and the whole and grows with what is
had (`ShareBounds`, `ShareMonotone`), which carries over to the scores of skills and keywords, and to their weighted sum. Likeness
is a term of that sum of which nothing is known but its range, hence the proviso. `ChainInv` says that a search goes on only with a
model left and that only the last model asked may have answered.

For the two readings of a resume, what is said of the sections of every text is said of each of its cuts, and a
text of which it fails would have a first cut of which it fails, which the cut before it excludes (`LeastNumber` gives that first one; this
takes the place of an induction). So the sections hold lines of the text and no blank ones (`SectionsOfText`), and a first line that
is no header does not change them (`FirstLineIsNoSection`), although one reading skips it and the other does not. The lists of
keys then agree on the two headers the tailored resume knows; where the editor takes an empty section that the other passes over, it
reads all lines (`SkillLinesAreRead`), and so misses only what it cannot read off the line (`SkillsAreOffered`).

`LinesAccountedFor` compares that loop with a definition by numbers of lines. `Reads(seq, I)` says that a sequence holds each line as often as the
set `I` of line numbers does, and that the entries and degrees parsed from it do the same for the lines of `I` that belong to one;
`ReadsMore` carries it over one line more. `CutInv(n)` says of the cut after `n` lines that the open section is the last header's, that
a section without header is absent, and that each section reads the lines under the last header of its name. It goes from
cut to cut (`CutStep`), with the same least counterexample. A field then reads the lines of one section
(`FieldIsRead`); no line is in two fields, because the headers of fields differ (`FieldsApart`); so the numbers of occurrences add up (`Together`).

**Only model-checked:** the liveness properties (`JobsDrain`, `RequestsEnd`, `ReviewEnds`, `PurgedInTheEnd`,
`EventsArrive`), since fairness is out of the prover's reach; and of course the violation runs. `ApplyingResolves` (a row in
APPLYING comes to another status) has no run of its own: by `DrainedIsResolved` it follows from `JobsDrain`. Every invariant and every property of steps
that a passing run checks, and both refinements, are also proved.

## 5. Not modelled

* The browser side (`frontend/`): tabs, the cookie jar, stores, the hook that opens sockets. `AuthSessions` and `Live` let clients
  do anything a browser may. That two tabs share one cookie but not one `refreshPromise`, so that both may
  present the same token and lose the family, follows from `AuthSessions` but is not a run of its own.
* `core/automation/intervention.py`: `request_intervention` has no caller at this commit.
* Rate limiter: two commands on a counter, no property of weight.
* Tenant filter: which statements it reaches is a question about the text of the handlers, not about their order.
* Anomaly detection and the health monitor: counts over a window, and one cron job that runs alone.
* Registration, access tokens, wrong passwords, expiry of rows, listing and reading routes, analytics, settings.
* Page driving, prompts, layout of documents, mail, metrics, logging, tracing: no state a property is about.
* `services/queue.py`, `services/queue_backend.py`, `core/db_resilience.py`, the `apply` methods of the job sites: no caller.

Worth doing next: the browser session composed with `AuthSessions` (two tabs, one cookie), and the identity of the metadata row
in `AccountData`.
