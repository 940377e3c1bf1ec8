# A formal model of GakuNin RDM

GakuNin RDM is a fork of the Open Science Framework: projects, their files in
many storages, registrations (frozen copies of a project that are published or
kept under embargo), preprints, and what the Japanese institutions added to it
(quotas, synchronisation with mAP core groups, institutional storage, its
export and restore). Most of it is forms over a database. This project models
the parts with a logic of their own, where several people, web workers, celery
tasks, nightly jobs and callbacks change the same rows, and where a mistake
publishes what must not be public, loses data or leaves something stuck.

The same few habits of the code recur in all of them, and most of the
properties are about these: a row is loaded, checked, and written back *whole*
later (Django writes all columns, and rows are seldom locked); an external
service is called in between; whoever must finish something is decided from
what one transaction sees; and exceptions are caught inside a transaction.

## Inventory

| component | state | operations | what is hard | modelled |
|---|---|---|---|---|
| Sanctions (`osf/models/sanctions.py`, `registrations.py`, `osf/utils/tokens`, `scripts/*`) | a row per sanction (state, answers, dates), `is_public`, `is_deleted`, `registered_from` of the registration | approval and rejection links, four nightly jobs, withdrawal, request to end an embargo, privacy, new embargo date, removal of a stuck registration | stale rows; five ways to become public; 48-hour timeouts racing answers; exceptions swallowed in a transaction | `Sanctions`, `Lifecycle` |
| Archiver (`website/archiver`, `osf/models/archive.py`) | an `ArchiveJob` per node, an `ArchiveTarget` per storage | celery chain, copy requests, WaterButler's callbacks, verdict | callbacks in overlapping transactions; failure passed up the tree; who concludes | `Archiver` |
| mAP synchronisation (`nii/mapcore.py`) | the project's row (title, group key, two flags), its members; the group in mAP | visit, change and push, push again, unlock all | a flag as a lock inside a row that others save whole; failures and kills between calls; write skew of administrators | `Mapcore` |
| Quota (`website/util/quota.py`) | `UserQuota.used`, `FileInfo.file_size` | callbacks about uploads and deletions, recalculation, maximum | calls repeated and out of order; a sum computed before the lock; clamping at zero | `Quota` |
| Post-commit and celery queues (`framework/*/handlers.py`, `api/base/middleware.py`) | the queues of a thread, the transaction of a request | begin, put off, commit or roll back, run or hand over what was put off | order of handlers; failures between commit and hand-over; queues that outlive a request | `Requests` |
| Export of institutional storage (`osf/models/export_data.py`, `admin/rdm_custom_storage_location`) | the row of an export, its data at the location, its tasks | export, stop, roll back, check, check before restore, delete | a stop races completion; a status borrowed and written back by views | `Export` (the restore task is not) |
| Reviews (`osf/utils/machines.py`, `workflows.py`, `osf/models/request.py`) | `machine_state`, `is_published`, `ever_public`, `date_withdrawn` of a preprint; withdrawal requests | submit, accept, reject, comment, withdraw, publish, answer, set up a workflow | machines run one inside the other on the same rows; no lock where moderators act | `Reviews` (node access requests are not) |
| osfstorage (`addons/osfstorage`) | tree of file nodes, versions, checkout | upload, move, copy, delete, check out | moves between nodes; reads `archiving` | no |
| Contributors and groups (`osf/models/contributor.py`, `osf_group.py`) | contributors, permission groups | add, remove, set permission | at least one administrator | as far as `Mapcore` needs them |
| project limits, timestamps, notifications, user merge, search, add-ons, user interface | | | bookkeeping, output, or calls of external services | no |

How they interact. `RegistrationCreateSerializer.create` makes the registration
and its first sanction and, by a signal, the archive jobs; the archiver's
verdict calls `sanction.ask` (`archive_success`) or rejects the sanction and
deletes the registration (`handle_archive_fail`), and the job of the approvals
reads `Registration.archiving`. In this fork `ask` mails nothing
(`_notify_authorizer` is disabled, `sanctions.py:305-325`): the tokens exist from
`add_authorizer` on, the project page shows the link to reject while a sanction
is pending (`website/project/views/node.py:951-956`), and `sanction_handler` does
not look at the archiver. In `Sanctions` a link may therefore be opened before
the files are copied. osfstorage feeds Quota through WaterButler's
callbacks. mAP synchronisation changes contributors, whose administrators become
the authorizers of a sanction. What any handler enqueues (the archive chain,
mails, index updates) goes through the queues `Requests` models, and the
transactions of `Sanctions`, `Mapcore` and `Quota` are those it describes.

`PROJECT.json` lists every component and, under `hazards`, each place where
something can go wrong that a test would hardly reach, with the properties that
would catch it.

## Modules

For each component: the model, `MC<model>` with the constants and symmetries of
its runs, and `<model>Proofs` with theorems and proofs; `SerialProofs` extends
`SanctionsProofs` with what holds of `Sanctions` under serializable transactions.
An action of a model is one handler, or the stretch of it between two points
where something else may run: a commit, a call of a service, a load whose row
is written back later.

### Sanctions, Lifecycle

| variable | code |
|---|---|
| `row[k]` | the row that `registration.registration_approval`, `.embargo`, `.embargo_termination_approval` or `.retraction` refers to: primary key, `state`, who has `has_approved` in `approval_state`, `date_retracted` set or not, `for_existing_registration` |
| `created[k]` | keys already given out |
| `public`, `deleted`, `linked` | `is_public`, `is_deleted`, `registered_from` not null |
| `waited[k]`, `ended` | the row is older than the 48 hours of `website/settings/defaults.py`, `end_date` has passed |
| `archive` | `initiated` until the root's job is done, `done` until the verdict, then the verdict |
| `req[r]` | a web worker between the check of the state in `sanction_handler` and its action: what it loaded |
| `job[k]` | a nightly job between its query and its work on the row: what it loaded |

A handler is two actions. `Load` is `sanction_handler` up to the check;
`Approve`/`Reject` is everything after it: the action of the sanction, its
`_on_complete` or `_on_reject`, the `save` of the whole fetched row, and the
commit or rollback. `Fetch(k)` is the query of job `k`, `RunJob(k)` its body.
What runs between the two halves is overwritten as in the code. A second load of
the registration inside the second half sees what is committed then, so
`public`, `deleted` and the other rows are read fresh. Exceptions are branches
of their own: a request that raises is rolled back
(`framework/transactions/handlers.py`), a nightly job that raises inside its
`atomic` block with the exception caught there commits what it saved before.

`Lifecycle` is what a reader of a registration may rely on (private, public,
withdrawn, cancelled, and which moves there are); `Sanctions` implements it.

An abstraction to know of: a request's second half is one step. Two such halves
in truly concurrent transactions of PostgreSQL (READ COMMITTED) could interleave
their reads of the *registration* too; the model interleaves the reads of the
sanction only.

### Archiver

| variable | code |
|---|---|
| `db` | the committed `ArchiveTarget` and `ArchiveJob` rows, and whether `delete_registration_tree` was called |
| `step` | the place of the celery chain of `archive` |
| `copy[n][a]` | how far WaterButler's copy is (external: known from the requests and callbacks in `src`) |
| `open` | the callbacks being served, each with the database it saw |
| `successes`, `asked` | `archive_success` tasks enqueued, calls of `ask` (which sends no mail in this fork) |

A callback (`registration_callbacks`) runs `update_target`,
`_post_update_target`, `_fail_above` and the listener `archive_callback` on the
database it saw, and commits whole rows. `fail_above`, `post_update_target`,
`update_targets`, `archive_callback`, `archive_fail` and `on_failure` are
functions from database to database, named after the code. In `Sanctions` the
archiver is reduced to its outcome (`JobDone`, `ArchiveSuccess`,
`ArchiveFailure`); `Archiver` says when that comes.

### Mapcore

| variable | code |
|---|---|
| `disk` | the committed row of the project (`title`, `map_group_key`, the standby flag, `mapcore_api_locked`, `is_deleted`), its contributors with their permission, and which of them are visible |
| `db`, `owner` | the same with what the transaction that holds the row's lock has written, and who that is |
| `group` | the groups of mAP: title and members (external) |
| `pc`, `my`, `todo`, `outcome` | of each request: where it is, the `node` object it loaded, the calls it has left, how its synchronisation went |

A request is a chain of actions with one call of mAP in each: `Load`, `Change`
(`EditNode`, `SaveContributors`), `LockNode`, `Decide`, `CreateGroup`,
`UpdateGroup`, `ReadGroup`, `Push`, `Download`, `UnlockNode`, `MarkStandby`.
`CallFails` and `Killed` can hit each call. `Leave` commits; what mAP was told
is not rolled back. `Views` and `Edits` are one transaction each; `Manages` is
`project_manage_contributors`, which commits every step. `Downloads` is the set
of ways a download may end: `remove_contributor` passes over whoever is the only
visible member or the last administrator, one member after the other
(`Removals`), and `set_permissions` raises at the last administrator. The
constant `Everywhere` says who administers every component as well: only in the
name of such an administrator `remove_node` deletes the project of a group that
is gone; otherwise the error is logged and nothing happens.

### Quota

| variable | code |
|---|---|
| `file`, `size` | the file live, in the trash or absent, the size of its newest version |
| `info` | `FileInfo.file_size`, or no row |
| `row`, `used`, `owner` | `UserQuota` exists, its `used`, the transaction that selected it for update |
| `calls` | the calls WaterButler has to make or repeat |
| `pc`, `my`, `number` | where a request is, its call, the counter or the sum it read |

`Receive`, `Lock`, `Count` are `update_used_quota` with `file_added`,
`file_modified` and `node_removed`; `Ignore` its early returns; `CallAgain` the
retry of a call that got no answer; `Recalculate`, `Store`, `Insert` are
`update_user_used_quota` (the sum, then the locked row). `Total` counts bytes
(`Bytes`, a set of pairs of a file and a number) where `used_quota` sums sizes:
the same number, with a definition that facts about finite sets reach.

### Requests

`serving`, `phase`, `error`, `status` describe a thread; `queue` is
`_local.queue` of `framework/celery_tasks/handlers.py`, `postcommit` the two
queues of `framework/postcommit_tasks/handlers.py`; `fate` is what became of
the request's transaction. `asked`, `late`, `done` and `answer` record what a
request put off, which functions go on after the five seconds the handler waits
for them, what was run or handed over, and what its client was told. The actions are the handlers, in the order in which Flask
(`website/app.py`) and the Django middleware (`api/base/middleware.py`) call
them; every one may raise.

### Export

| variable | code |
|---|---|
| `row` | the row of `ExportData`: `status`, `task_id`, `export_file` set, `is_deleted`; `None` once deleted |
| `stored` | which of folder, file list, files and export description are at the location |
| `state[t]`, `at[t]` | what celery's result backend says of a task, how far its worker is |
| `view[v]`, `seen[v]` | how far a request is, the row it loaded and will save again |

`BeginExport`, `WritePiece`, `CompleteExport` are `export_data_process`,
`BeginRollback`, `Erase`, `SetStopped`, `Fail`, `Return` are
`export_data_rollback_process` as it is run by a failing export and by the task
of a stop. Nothing here is a transaction (`non_atomic_requests`).

### Reviews

| variable | code |
|---|---|
| `workflow` | `reviews_workflow` of the provider |
| `row` | the preprint: `machine_state`, `is_published`, `ever_public`, `date_withdrawn` set or not |
| `requests[r]` | the rows of `PreprintRequest`: creator and `machine_state` |
| `log` | history: a moderator accepted, somebody withdrew (`ReviewAction`), an author published without a review |
| `handler[h]` | what a request at work has loaded |

A request begins (`OpenReview` with `ReadProvider`, `OpenAnswer` with
`ReadTarget`, `OpenPublish`, `OpenCreate`) and later commits (`Review`, `Answer`, `Publish`, `Create`) or is
undone (`Refuse`). `ReadProvider` is apart because `perform_create` loads the
provider after the preprint (`api/actions/views.py:154-157`); `ReadTarget` and
`OpenCreate` take the provider with the preprint, an abstraction that matters
only for a provider set up between the two queries. `Reviewed` and `Answered` are the transition tables,
`SaveChanges` is `save_changes` with `perform_withdraw`. `Publish` and `Create`
hold the lock of the preprint from load to commit, so others wait (`Unlocked`);
`Review` and `Answer` lock nothing. `Create` contains the acceptance and the
withdrawal that an automatic approval runs inside `save_changes`.

## Runs

| run | what it asks | instance | distinct states, time |
|---|---|---|---|
| `one_link` | no minority approves, the embargo is not passed, nothing cancelled is published, nothing published under embargo is cancelled | 2 administrators, 1 link at a time against all jobs, 1 withdrawal, 1 request to end the embargo | 1.5M, 75 s |
| `serial` | with serializable transactions: `Lifecycle` is implemented, a dated withdrawal is complete, nothing rejected comes back, nothing public is deleted | the same, with up to 2 embargoes | 2.3M, 2.5 min |
| `sanctions_liveness` | an embargo is lifted and a withdrawal decided without any user | 1 administrator, all kinds | 54k, 45 s |
| `archiver` | asked only when all is copied, no false alarm, a verdict comes | 3 nodes, 5 targets, callbacks one at a time | seconds |
| `mapcore` | one transaction at a time talks to mAP; visits make both sides agree | a visit, a change, a change without transaction; 3 people, one without an account, one who administers all components | 585k, 2 min |
| `quota` | no lost update, the counter is the sum of what was counted, what was counted is what is stored | 2 callbacks at a time, 1 recalculation, a new file and one older than `FileInfo` | 2.5M, 90 s |
| `requests` | nothing leaks to another request, what an answer promises was done, nothing is handed over before the commit | 1 thread of each kind; 2 web requests, 1 API request | 4.7M, 2 min |
| `export` | what can be restored is complete, the export ends | 1 stop, 1 check, 1 check before a restore, 1 deletion for good | 483k, 55 s |
| `reviews` | published exactly as shown, nothing unmoderated, one request per author, acceptance withdraws, only the unseen is taken back without a moderator, history is kept | 2 requests at a time, 2 authors, 2 withdrawal requests, every workflow | 1.9M, 100 s |
| `verdict_is_reached`, `stopped_is_final`, `tombstone_is_public` | statements of the repository that the code does not keep | smallest instance that shows it | |

Bounds. Two administrators are enough for a minority (one of two) and for an
approval and a rejection that meet. One link at a time against four jobs already
gives two holders of one stale row. For `NoMinorityApproval`, `NoResurrection`
and `PublishedEmbargoIsKept` the proofs cover any number of links; `EmbargoHolds`
is true of one link at a time only (see below). `MaxRows` bounds how often a sanction of a kind is
asked for; where `MaxRows[Embargo]` is 0 the administration site puts no further
embargo on the registration, which is an assumption of two results (`serial` has
the registrations where it does). `Mapcore` has one change in RDM per request,
two in mAP (one to disagree, one after a failed push) and one failure or kill:
each failure is answered by the same standby flag, so a second repeats the
first. `Quota` has four calls (upload, modify, delete and one more that
overlaps), one repetition, one overtaking and one recalculation. `Requests`
needs two web requests for a queue to leak from one to the next; its action
constraint `OneAtATime` runs threads one after the other, since they share
nothing. `Export` has one check and one check before a restore: two requests that
save what they loaded, of either kind, are enough to undo each other; two checks
before a restore at a time would only add runs that `ExportEnds` excepts, and
`NamedIsStored` is proved for any number.
`Reviews` has no counters: its state space is finite for given constants. It
has two requests at a time because a stale row needs a writer and a reader, and
two authors because one author's second request is what the lock forbids.

Symmetry sets are used in runs without liveness properties, for the
administrators and links, the callbacks, and the handlers, authors and requests
of `Reviews`. Deadlock is not checked where the system really stops: a decided
registration, a finished archive or export, all calls answered. `Reviews` never
stops, and its run checks it.

`Serializable` (an action constraint of the run `serial`) and the `SerialSpec` of
`Sanctions` and of `Archiver` exclude overlaps: what has fetched a row writes it
before anything else happens. Four properties of the sanctions and two of the
archiver hold only so; what overlaps break is below. The theorems speak of
`SerialSpec`; the run has the constraint instead, under which TLC looks at the
same steps.

Fairness. In `Sanctions`, weak fairness on a job's query and body is celery
beat's schedule (`website/settings/defaults.py:569-598`); that of the approvals
is not assumed to be scheduled (`ENABLED_REGISTRATION_APPROVAL_TIME = False`). A
request that is being served ends. Time passes (strong fairness, since its steps
need a quiet moment that recurs): `Elapse` and `EndDatePasses` happen when no
request or job is in flight, since these last seconds and the periods days.
Nobody has to open a link, and the liveness properties speak of the time after
users stopped opening new ones. In `Archiver`, celery runs what is queued and
WaterButler ends its copies; a failure is never forced and never fair. In
`Mapcore`, a request that has begun goes on, and the page is visited again and
again (weak fairness of `Load`): synchronisation happens on visits only. Strong
fairness of `Decide` says that the time in which a synchronised project is not
looked at again (`mapcore_is_sync_time_expired`) does not always come first. In
`Export`, workers and requests that were begun go on; nobody has to ask for
anything. `Quota`, `Requests` and `Reviews` have safety properties only: nobody
has to call, ask or decide.

## What the checks found

Three statements of the repository are refuted, each by a run.

1. `VerdictIsReached` with overlapping callbacks: each of the last two sees the
   other's target as pending, both commit, and nobody concludes
   (`website/archiver/listeners.py:42`).
2. `StoppedIsFinal`: an export that is stopped while its task is queued, or
   after the last check of its task, runs on and overwrites `Stopped`
   (`export.py:434`).
3. `TombstoneIsPublic`: a preprint that was public, was rejected, submitted
   again and withdrawn has no page for its readers, because a withdrawal keeps
   the published state it finds (`osf/utils/machines.py:85-86`).

More of what the code does, visible in the models, stated as exceptions of the
properties or found by runs of earlier stages, and worth a maintainer's eye:

- Sanctions. `RejectedIsFinal` and `PublicIsKept` need serializable
  transactions: an approval writes its stale row over a rejection committed
  after its check (`sanctions.py:217`). What the damage is *not* is
  `NoResurrection`. `EmbargoHolds` needs that one link is served at a time. With
  two, an approval that fetched the embargo while it was pending writes it back
  as pending after it was completed, which lets an administrator make the
  registration private; another, which fetched it completed, writes that back;
  and the registration, private under a completed embargo, can be published
  although its end date has not come and nobody consented again. The nightly job
  approves a withdrawal without its effects (`retract_registrations.py:43`); a request to end an embargo that ended
  otherwise stays pending for ever (`approve_embargo_terminations.py:49`), and
  one that survives applies to a later embargo.
- Archiver. `_fail_above` marks the parent only, where its docstring says "all"
  jobs above (`archive.py:114-120`). In a project whose components have
  components, the failure of a grandchild is lost: the root succeeds, and an
  incomplete copy is reported as ready to be approved. `AskedIsCopied` is
  therefore checked on, and proved of, trees of depth two (`Flat`). `on_failure`
  returns early when the job has failed, so a copy refused then leaves its target
  pending (`tasks.py:82`); `VerdictIsReached` excepts refused copies.
- Mapcore. Two changes that each remove the other's administrator leave none
  (`mixins.py:1661`, write skew); a transaction may wait for the flag while it
  holds the row that the holder of the flag needs (`nii/mapcore.py:160-167`).
  `Converges` excepts both, and groups without an administrator who has an
  account. A member the group no longer has stays in the project for good if
  nobody else would be visible (`remove_contributor` answers `False`,
  `mixins.py:1656-1658`, and the synchronisation does not look at the answer):
  project and group then disagree about this one person, and `Agree` leaves out
  exactly him (`Kept`). A project whose group is gone stays if none of its
  administrators administers all components (`node.py:2314-2319`), in spite of
  `nii/mapcore.py:390-399` (`Over`).
- Quota. A recalculation sums the files before it locks the row (`quota.py:73`):
  `BalanceIsKept` excepts that step, `FilesAreCounted` says that the next
  recalculation repairs it.
- Requests. A post-commit function that takes longer than five seconds goes on by
  itself and may fail unnoticed (`framework/postcommit_tasks/handlers.py:46`), so
  no answer promises anything about functions. On the web site they run *before* the commit
  (`website/app.py:60`); `HandedAfterCommit` speaks of tasks, and of the
  functions of the API. An `AttributeError` raised by a post-commit function is
  taken for a missing queue and the waiting celery functions are dropped
  (`framework/postcommit_tasks/handlers.py:57`); `AnswerIsKept` excepts it.
- Export. Two checks before a restore may write each other's `Running` back, and
  the export can never be used again (`restore.py:137`); the end of a check
  inserts the row of an export again that was deleted for good
  (`management.py:681`). `ExportEnds` and `NamedIsStored` except these.
- Reviews. Moderators' actions that overlap may undo a withdrawal, or
  `ever_public`: `Preprint.save` compares with the row it loaded
  (`preprint.py:641`); `HistoryIsKept` excepts the request that writes such a row. A stale comment
  turns an accepted request back to pending; `AcceptedIsWithdrawn` excepts the
  opposite case. A request of a second author on a withdrawn preprint can never
  be accepted, since a withdrawn preprint cannot be withdrawn. `set_published`
  on a withdrawn preprint that was public sets its state to accepted and keeps
  the date.

## What is proved

For every value of the constants that satisfies the named assumptions; the
bounds of the runs play no part, except where a theorem has a hypothesis, which
is named below with the reason why it is needed. Every safety property of a
passing run is stated by a theorem.

`SanctionsProofs`, with no limit on administrators, links and jobs:

- `TypeCorrect`: `Spec => []TypeOK`.
- `NoMinorityDecides`: `Spec => []NoMinorityApproval`. The property is not
  inductive: an approval is written back from an old row. `ConsentInv` adds that
  every fetched row that still belongs to the registration has the consent its
  state needs, and that no fetched row has a key that is given out later:
  otherwise a row fetched before could be taken for a new one.
- `CancelledStaysPrivate`: if `MaxRows[Embargo] = 0`, then `NoResurrection`. A
  cancelled registration has no source project, because its embargo was not put
  on an existing registration, and every way to publish it needs the source
  project, or a registration that is not deleted, or looks at `is_deleted`.
- `PublishedEmbargoStays`: likewise `PublishedEmbargoIsKept`: the steps that
  delete are the rejections (that of an embargo looks at `is_public` again), the
  archiver's and the operator's, which are over once the files are archived.
- `EmbargoStandsUnderJobs`: `EmbargoHolds`, if no further embargo is put on the
  registration and one link is served at a time (`\A q, r \in Requests : q = r`);
  the jobs may overlap it as they like. Both hypotheses are needed: another
  embargo is decided anew, and two links break it as described above. The
  invariant `StandInv` says when a stale row does no harm. While the registration
  is private and not cancelled its embargo is pending or in force, and a
  completed embargo means it is public (`EmbargoStands`). A job holds only what
  was due (`JobsAreDue`). A link that fetched a completed embargo acts on a
  public registration whose embargo is not pending again, and one that fetched a
  pending request is not behind an approval by everyone (`LinksAreCurrent`); a
  request approved while its job still holds it was approved by everyone
  (`JobIsOvertaken`).

`SerialProofs`, under `SerialSpec`:

- `RejectionIsFinal`, `PublishedIsKept`, `WithdrawalIsComplete`: `RejectedIsFinal`,
  `PublicIsKept` and `DatedWithdrawalIsComplete`. The invariant has two parts.
  `Current`: what is fetched is the row as it is, and can be answered or is due;
  so the checks made before the load still hold at the save. `Decided`: what is
  public has no undecided approval or embargo, a failed archive is cancelled, and
  a living row has a key. With these no rejection can reach a public
  registration, since the sanction it would reject is decided.
- `LifecycleIsImplemented`: `SerialSpec => ImplementsLifecycle`, the refinement of
  `Lifecycle`, if at most one withdrawal is asked for (`MaxRows[Retraction] <= 1`).
  Each action is shown to be a step of `Lifecycle` or to leave unchanged what a
  reader sees. The hypothesis is needed because a withdrawn registration is still
  public, so that another withdrawal of it may be asked for; it replaces the
  first and the registration reads as public again until it is approved.

`ArchiverProofs`, for any tree and any storages:

- `TypeCorrect`: `Spec => []TypeOK`, whatever overlaps.
- `AskedMeansCopied`: `AskedIsCopied` under `SerialSpec` where components have no
  components (`Flat`), for the reason given above. The invariant follows a target
  through the chain (`Untouched`, `FlightOK`, `OpenOK`) and relates jobs to
  targets (`JobsOK`): a failure somewhere is a failure of the root's job, so the
  root succeeds only when every target did.
- `NoFalseCancellation`: `NoFalseAlarm` under `SerialSpec` for any tree: a failed
  job has a failed target somewhere, so a complete copy never fails.

`RequestsProofs` proves all four properties of its run (`TypeCorrect`,
`NothingLeaksEver`, `AnswersAreKept`, `HandsAfterCommit`). Its invariant says
that a request is served by one thread (`Alone`), that the queues of a thread
hold what its present request put off (`Fresh`), and, phase by phase, what has
been committed and handed over (`Answered`, `InOrder`).

`QuotaProofs`: `TypeCorrect`; `NoUpdateIsLost` from the fact that a callback at
`count` owns the row; `FilesAreCountedRight` from an order: while no call
overtakes an older one, what was counted for a file and the calls that are left,
in the order in which they were issued, lead to what is stored, so repeating one
that was committed changes nothing; and, in any order, a stored file without a
`FileInfo` is older than `FileInfo` or the call that adds it is still open
(`NewIsKnown`). `BalanceKept`: each callback changes the
counter by what it changes in `FileInfo`, and since the counter it adds to is the
row's (`NoLostUpdate`) and the file's own bytes are among those counted, clamping
at zero never bites; that a sum over all files changes by what one file changes
is a fact about the cardinality of `Bytes`.

`MapcoreProofs`: `TypeCorrect` and `OneTransactionTalksEver`. The invariant
`Holds` says that a transaction beyond the flag owns the lock of the row, however
the flag was overwritten: the row's lock, not the flag, is what excludes. Two
theorems about the algorithm of a download, the safe core of `Converges`:
`DownloadLeavesAdministrator` (a download never takes the last administrator or
the last visible member, whatever the group says) and `TwoDownloadsAgree` (if the group has an
administrator with an account, the registered members agree after two downloads,
and after each one that follows, all but a member the group no longer has
without whom nobody would be visible, `Spared`). One is not enough: removals come before
upgrades, so an only administrator the group no longer has survives the first.

`ExportProofs`: `TypeCorrect` and `NamedIsStoredEver`. As long as nobody asked to
stop or to purge (`Unasked`), the task of the export is the only one, it passes
the pieces in order, and every copy a check holds names the file (`Kept`).

`ReviewsProofs` proves all seven properties of its run. What holds of the row of
the preprint holds of every copy somebody may write back, judged by today's
workflow and log (`SoundRows`): published exactly as shown, ever public only
with a record, dated only with a withdrawal on record. `SameFlow` says that a
workflow is set up once, `LockHolds` that whoever holds the lock has the current
row and is alone, `SameCreator` that an answer keeps a request's author.

Only model-checked: liveness (`EmbargoIsLifted`, `RetractionIsDecided`,
`VerdictIsReached`, `Converges`, `ExportEnds`), because fairness and `ENABLED` are
beyond the proof system. That the hypotheses of the theorems above are necessary
was seen in counterexamples of TLC; these are not runs of the project.

## What is not modelled

- Sanctions: spam states, draft registration approval, `remove_authorizer` (no
  caller), dry runs, components that are not primary (handlers apply the same
  change to every primary descendant, so the model has the root only), mails and
  logs, except that a log is written through `registered_from`, which raises
  when that is null; the guard of `website/project/decorators.py:104`.
- Archiver: `force_archive`, callbacks delivered twice
  (`register.py:254`), an unexpected exception inside a callback, a job row that
  a callback saves from before another one's failure (`archive.py:135`), nodes
  with no storage.
- Mapcore: `mapcore_sync_rdm_my_projects` (many projects and the flag of a
  user), groups that are not active or public, projects made from groups,
  resignation, upload of all projects, disabled users.
- Quota: moves and copies (no signal), folders, negative sizes, storage of
  institutions (the same operations on other rows), deletion of projects.
- Requests: look-ups in the queues, the handlers for csrf, sessions and CORS,
  the broker's delivery.
- Export: the restore task and its stop (two restores of one destination may
  overlap, `restore.py:213`), removal of a location, windows inside one task
  between a get and its save.
- Reviews: node access requests, a change of a preprint's provider on the
  administration site, whole-row saves by the spam filter, contributors and
  deletion, authors' edits (under the lock, with the state unchanged),
  notifications, and which requirement of publication is not met (one
  nondeterministic refusal).
- The remaining components of the inventory, for the reasons in `PROJECT.json`.

The map covers a small share of the repository: its two thousand Python files
are mostly serializers, views, settings and clients of services, and these
models take the few thousand lines on which the rows above depend.

## Plan

1. Proofs: an abstract specification of what `Requests` and `Export` promise,
   refined like `Lifecycle`; what the type invariant of a model does not say of
   its rows, where a later extension needs it.
2. `Reviews`: node access requests, which add a contributor inside the
   transition; a change of provider.
3. `Export`: the restore task against a second restore and a stop.
4. osfstorage: checkout, move and deletion against `archiving` and the quota.
