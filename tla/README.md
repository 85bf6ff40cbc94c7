# Digilux OTA: a TLA+ verification project

This directory specifies the control logic of the Digilux OTA system in TLA+,
model-checks it with TLC and proves its central invariants with TLAPS. It has
four parts: the *pipeline* (the AWS Lambda functions that move an update from a
deployment to a device and record what became of it), the *catalogue* (those
that take an uploaded package to the version that is offered), the *delivery*
(how a new device gets its group, and an artefact's key its way into a job
document) and the *agent* (the controller that downloads and installs). Paths below are relative to the repository root; `L/x`
stands for `src/infrastructure/06_lambdas/digilux_ota_x/lambda_function.py`.

## 1. Inventory of the system

| Component | State it keeps | Operations | Interacts with |
|---|---|---|---|
| `L/job_create` | `digilux_ota_jobs`, `digilux_ota_user_consents` | create a deployment (one AWAITING_CONSENT row, one PENDING consent per owned device), abort it | AWS IoT `cancel_job`, device table |
| `L/user_consent` | consents, jobs, `pendingJobId` of the device row | accept, decline, user-started update | AWS IoT `create_job`, key server |
| `L/status_handler` | job row (`deviceStatuses`, status), device row | one report of a device | IoT rule on `iot/device/+/ota/status`, AWS IoT job executions |
| `L/job_sync` | job row | lifecycle event (canceled, completed); daily staleness check | AWS IoT events, `describe_job`, `cancel_job` |
| `L/package_activate` | `digilux_ota_packages`, job rows | activate, promote, restore, recall, delete | AWS IoT `cancel_job`, S3 |
| `L/device_register` | device row, thing groups | the agent announces itself; a new device joins DGX-Canary or DGX-Production | IoT rule on `.../ota/register` |
| `L/upload_url`, `L/artifact_processor`, `L/upload_complete`, `L/package_register` | packages, S3 | upload token, encrypt and sign, supersede | S3 events, key server |
| `L/key_server` | master key and API keys, cached per warm instance | wrap, unwrap | user_consent, artifact_processor |
| `L/user_check_updates`, `L/user_get_download_link`, `L/user_update_status`, `L/package_status`, `L/compatibility_check` | none (they read) | queries | all tables |
| `L/beta_users`, `L/dev_simulate_job` | beta list; job rows (development) | administration, simulation | tables |
| AWS IoT Jobs | jobs and executions | create, cancel, update execution, time out | every Lambda above, devices |
| `src/controller` | files, backups, services of a device | download, verify, install, roll back, report | MQTT |
| `src/cdk`, `src/infrastructure/*.sh` | none at run time | create resources | - |

What is hard here: every handler is a chain of separate DynamoDB and AWS IoT
calls without a transaction, most writes have no condition, and Lambda runs any
number of handlers at once. A handler can die between two calls. Status reports
travel over MQTT and an IoT rule, lifecycle events over another: both may be
repeated, late, out of order or lost. Job ids are made from a clock of whole
seconds. `pendingJobId`, the only guard against two updates at a time, is
written by four handlers. `PROJECT.json` lists each hazard at its line.

What makes each component correct:

* deployment and consent: an accepted consent stands for exactly one AWS IoT
  job of that device; no execution without an acceptance; an aborted deployment
  leaves nothing that can still be accepted;
* device guard: `pendingJobId` names a job that exists and belongs to the
  device, is cleared when the job ends, and a device has one update at a time;
* job rows: never go back to the queue, say SUCCEEDED only of an update that
  succeeded, and settle whatever is lost;
* recall: no queued job of a recalled version remains;
* queries: what the app is told (an offer, a running update, a link) agrees with
  what an acceptance does, though each handler looks at other state;
* registration: a device joins one group, and the canary group stays small;
* keys: a job document opens the artefact it points at, or there is none;
* catalogue: a version that is served is in order and is the artefact whose
  checksum was announced; activation leaves no older version ACTIVE; a recalled
  version stays recalled; the plain archive leaves the bucket;
* agent: what is reported as installed or rolled back is; a sound copy of the
  controller's files survives crashes; an agent that is up brings the
  controller service back; every job it hears of ends; no truncated file is
  installed.

## 2. Modules

| Module | Models | Notes |
|---|---|---|
| `OtaTables` | the DynamoDB tables, the running invocations, the clock | constants with their assumptions, types, and the steps every handler uses |
| `IotJobs` | AWS IoT Jobs, devices, delivery of messages and events | external, as the Lambdas use them; a job has one target because `user_consent` creates it for one thing |
| `JobCreate`, `UserConsent`, `StatusHandler`, `JobSync`, `PackageRecall`, `DeviceRegister` | one Lambda each | one action per call |
| `UpdateChecks` | `user_check_updates`, `user_get_download_link`, `user_update_status` | they write nothing: operators, what each answers in one state |
| `OtaJobs` | the composition | requests, crashes, redelivery, time, invariants, fairness |
| `UpdateLock` | what "another update is already in progress" promises | abstract specification |
| `OtaJobs_proofs`, `OtaJobsOrder_proofs`, `OtaJobsGuard_proofs` | - | the theorems about the pipeline |
| `DeliveryTables` | device rows, thing groups, one package row, master key and its caches, running invocations | as `OtaTables` |
| `DeviceGroups`, `KeyServer` | `device_register` with its groups; `key_server` with the callers that wrap and unwrap | one action per call |
| `Delivery` | the composition | invocations that end early, rotations, properties |
| `Delivery_proofs` | - | the theorems about the delivery |
| `CatalogTables` | rows of `digilux_ota_packages`, objects, uploads, S3 events, running invocations | as `OtaTables`, for one package |
| `PackageUpload`, `ArtifactProcessor`, `PackageActivate` | `upload_url` with `upload_complete`, `artifact_processor`, `package_activate` | one action per call |
| `PackageCatalog` | the composition | duplicate events, dying invocations, properties |
| `PackageCatalog_proofs`, `CatalogSettles_proofs` | - | the theorems about the catalogue |
| `AgentDisk` | the controller's directories, backups, downloads, service, threads | what a crash keeps and what it does not |
| `Downloader`, `UpdateHandlers` | `utils/downloader.py`; `firmware_handler`, `driver_handler`, `backup_manager`, `health_check` | one action per step that another thread or a crash can come between |
| `PeripheralHandlers` | `config_handler`, `zigbee_ota_handler`, the file half of `backup_manager` | as above; zigbee2mqtt is external |
| `OtaAgent` | `ota_agent.py`, `jobs_client.py` | messages, threads, reports, restarts, properties, fairness |
| `OtaAgent_proofs`, `OtaAgentSolo_proofs` | - | the theorems about the agent |
| `MCOtaJobs`, `MCPackageCatalog`, `MCDelivery`, `MCOtaAgent` | - | symmetry for TLC |

The parts meet in `PackageRecall` (a recall cancels queued jobs), in
`device_register` and `user_consent`, of which `Delivery` has the calls that the
pipeline leaves out (groups, keys) and the other way round, and in AWS IoT: the
pipeline's `IotJobs` has the device as an environment that may do
anything, the agent's `told` is the same record from the device's side. They are
not composed: what each needs of the other is a handful of states.

### The pipeline

**State.** `jobs`, `consents` and `package` are the tables of those names,
`pending` and `inventory` the two parts of `digilux_device_data`: the guard, and
what registration and reports write. `inv[w]` is a running invocation: `pc`
names the call it makes next and the other fields are its local variables, so a
value read early and used late is stale in the model exactly as it is in the
code. `iot`, `run`, `fw`, `msgs` and `events` are outside the repository: AWS
IoT's record of a job and its execution, what the device does, the firmware it
runs, and what is on its way to the two asynchronous handlers.

**Actions.** The unit of atomicity is one DynamoDB or AWS IoT call; local
computation is folded into the call that follows. A step that fails with a
caught `ClientError` is the disjunct with `Fail`, which draws on the budget
`MaxCrash`; an uncaught one is `Crash`. AWS retries the two asynchronous
handlers, so `Crash` may put their payload back (`Redeliver`).

**One package.** The model has one package with numbered versions; package names
never meet in the code modelled here, except in the key of `installedVersions`.

**Switches.** `Ops` says which requests an instance issues and `Env` what its
environment may do, so that a run can say which of them a property survives.
Without `"delay"` a request waits until no message and no event is under way,
and without `"overlap"` also until no other request is being handled (`Quiet`):
that is the sequential use the documentation describes. `MapReady`, `Mirroring` and
`Telling` say of each device whether its row has the `installedVersions` map, whether
its agent also reports on the reserved topic (as the repository's does), and whether
it registers with `globalInstalledVersion` and `package` (as the repository's does
not: section 4).

**Queries.** The three handlers of `UpdateChecks` write nothing, so there is no
step to model: `Offer`, `JobActive`, `LinkGranted` and `ProgressShown` say what
they answer in a state, and two invariants hold them against each other and
against what the devices do. `ShownStatuses` is a set because
`describe_job_execution` may fail, and then the row is used instead.

### The catalogue

`pkgs` has a row per version, `raw` the object at its `s3Key` (one key for a
version: the optional file name is left out), `grants` what was handed out with
each upload token, `events` the ObjectCreated notifications under way, and
`inv[w]` the running invocations with the row as they read it. `order` stands
for `processedAt`, `promotedAt` and `restoredAt`: the pairs of which the first
was activated after the second. Versions are numbers in the
order of `_semver_tuple`. A checksum is the artefact itself; `BadTars` are those
that `_enrich_tar_manifest` refuses. Signing, encryption and the upload to a
fresh `enc/` key are folded into the read of the artefact: nobody looks there
before the row names it. DynamoDB reads are modelled as consistent.

A grant of a single upload is a presigned URL, which S3 accepts until it expires: it
is `"open"` until the first PUT and `"put"` after it, and with `"reput"` in `Env` the
client may PUT again, any artefact, to a URL that is `"put"`. A multipart upload is
completed once.

`Ops` and `Env` are switches as in the pipeline: `"dup"` delivers events twice,
`"reput"` lets a URL be used again, `"overlap"` lets a version be requested again while its upload is open or being
processed, `"fail"` and `"die"` let calls fail and invocations end. Requests in
`Exclusive` run only while nothing else does. The job check and the cooling-off
period of a deletion only mean that a request may not be made.

### The delivery

`thing` are the rows that have a `thingName`, which is how `device_register`
knows a device; `canary` and `production` are AWS IoT's groups. `secret` is the
value in Secrets Manager and `cache[i]` what instance `i` of the key server took
from there; `Load` is the only place it is written. `pkg.enc` names the data key
of the object at `encS3Key` and `pkg.wrapped` what the key server made of it:
the row holds both, the handlers carry both, and `docs` are the documents given
to AWS IoT. AES-GCM is modelled by what it does: what was wrapped under one
master key opens under that one alone. `EndEarly` is any failure of a call, of
an invocation, or of the key server. `twice` is there for `OneGroup`.

### The agent

`kind` is the operation of a job, `tree` what the jobs of each kind change:
`APP_INSTALL_DIR`, one driver's directory, one configuration file, the firmware
of one Zigbee device. File 0 is what was
there, file `j` what job `j` installs, each absent, torn or whole: a
configuration is replaced at once (`os.replace`), so one of them is left. An artefact
has no suffix (`ota_agent.py:152`), so the firmware handler copies it next to
the files it finds (`firmware_handler.py:132`) and the driver handler copies it
into the directory it has emptied. `tmp` and `dest` are the two names of a
download; `by` is the thread that writes, and stays with the file when it is
moved to the other name, as an inode does. `backups` are in the order of their
timestamps; a copy that is under way, or was cut off, holds torn files. A
backup reads the directory at the moment it starts. `listener` is the client's
`on_message`: the Zigbee handler takes it, and meanwhile `notices` are heard and
dropped (`Overhear`); `z2m` are the requests zigbee2mqtt has not answered. `notices` are the messages
that carry a job; each starts a thread. `told` is AWS IoT's record of a job,
which does not change any more once the job has ended; `alarms` are the jobs of
which NEEDS_RECOVERY went to `TOPIC_OTA_STATUS`, where every report goes as well
(`jobs_client.py:100-114`). `ServiceBack` looks at `alarms`: a job that runs twice
may be recorded as ROLLED_BACK by the first thread, and the second, which fails
to bring the service back, can say so on that topic only. `rolled` and `was`
(what a thread found) are there for the properties, as is `bad`.

`agent` is `"up"`, `"stopping"` or `"stopped"`. `Crash` is the end of the process at any
point and the start that may follow: by an error or the systemd watchdog
(`WatchdogSec=300` in a unit whose process never notifies it), after which
`Restart=on-failure` applies, or a boot of the controller. The start may fail for good
(`Started`): the unit `Requires=` the controller and starts `After=` it, and
`StartLimitBurst` bounds how often it is tried. An agent that starts reads the versions
file and asks for the next job. `StopService` is step 2 of a firmware installation:
systemd stops the agent with the controller, and from then on the agent is stopping,
while its threads go on until `Shutdown` ends them; the exit is a clean one, so that
nothing starts the agent again but a boot. An agent that runs outside its unit is not
stopped, so the step may leave it up. What a stopping agent reports may be lost, since
it has disconnected.

A message is not always heard. With `Drops` it may be published while the client is
not connected (`Lose`: the session is clean and `_on_connect` only subscribes), the
Zigbee handler may be listening (`Overhear`), and a document without `operation` is
logged and dropped (`Ignore`; `silent` are the jobs that have such a document, among
them all that `L/user_consent` makes). `missed` are the jobs whose last message met
one of these.

## 3. Runs

`CHECK_DEADLOCK FALSE` is set because an instance
really stops: clock, consent identifiers and crashes are bounded, and once they
are used up nobody asks for anything. Symmetry (workers, consent identifiers,
devices) is used with safety properties only; every other constant treats the
devices of an instance alike. The same holds of uploads, crashes and jobs.

| Run | Bounds | Shows |
|---|---|---|
| `Unreliable` | 2 workers, 2 consents, 1 device, 1 second, 1 crash | Two overlapping handlers, two acceptances in the same second, a handler that dies anywhere, messages lost, repeated, reordered and late: whatever a row, a consent or a device names exists (`Backed` and its parts), two consents never share a job, and SUCCEEDED is only recorded of an update that succeeded. |
| `Admin` | 2 workers, 2 consents, 2 devices, 2 seconds, devices that also report to AWS IoT themselves, no `installedVersions` map | Aborts, recalls and console cancellations while reports and events are handled, late: types, no job goes back to the queue, and aborts and recalls reach every job and every consent they are about. |
| `Quiet` | 1 worker, 3 consents, 2 versions, 2 seconds, agent restarts, mirrored and progress reports that overtake each other | Requests one at a time: the pipeline implements `UpdateLock`, every execution has an acceptance behind it, a handled report clears `pendingJobId`, what is offered can be taken, and a running update is never hidden from its owner. |
| `Liveness` | 1 worker, 1 consent, 1 crash, losses, late reports, aborts, recalls, the daily check | Under the fairness below, no row stays QUEUED or IN_PROGRESS. |
| `Delivery` | 3 devices, 2 workers, CANARY_MAX 1, 2 master keys, 2 data keys, 1 instance | Registrations, uploads, restorations, rotations and acceptances overlap, and any handler may end early: types, `CanaryBounded`, `OneGroup`, `JobOpens`. |
| `AcceptRace` | 2 workers, 2 consents | *Violated:* two acceptances that overlap give a device two updates. |
| `FalseSuccess` | 1 worker, 1 consent, losses | *Violated:* the daily check records a failed job as SUCCEEDED. |
| `Catalog` | 1 version, 2 uploads, 3 artefacts (one bad), 2 workers, URLs used again, duplicate events, failing calls, dying invocations | A version that waits becomes ACTIVE only as it was announced, and in order. |
| `Orderly` | 2 versions, PROD and BETA, 3 uploads, 2 workers, failing calls, dying invocations, each URL used once | Supersession, promotion and restore overlap with uploads and recalls: what is served is what was announced, no older version survives, a restored one is alone, a recalled one stays so, no plain archive is left. |
| `DuplicateEvent` | 1 version, 1 upload, 2 workers | *Violated:* a second event for one object quarantines the version that the first made ACTIVE. |
| `Agent` | 1 job of any kind, then a firmware job, 2 backups, 2 download attempts, 2 crashes, messages that are lost, documents without `operation` | Any step fails, the agent dies or is stopped anywhere: types, `SoundCopySurvives`, `ServiceBack`, true reports, and every job that is heard of ends. |
| `DoubleNotify` | 2 threads, 2 jobs | *Violated:* two threads of one job; the first moves the half-written file of the second and installs it. |

Two devices, versions and seconds, two overlapping handlers and one failure are
enough for what the properties tell apart: each is about a pair (two handlers
on a row, two jobs of a device, a job and the next one), and every guard of the
code looks at one row at a time. Two consents in one second are the only way the
clock can collide. A longer clock adds jobs that the earlier ones cannot reach.

In the catalogue two versions are one pair of older and newer, and three uploads
let one version be processed, recalled or superseded, and uploaded again next to
the other. `Catalog` has one version because its property is about one row, and
two uploads: the last one and one before, each with a URL that may be used again;
deletions are exclusive there, because an unconditional update of a deleted row
makes a row without a status (section 4). `Orderly` makes restores exclusive for
the same kind of reason: two at once leave two versions ACTIVE, which the code
does not try to prevent. It has each URL used once, because its properties do not
hold where one is used again (section 4).

Recalls, aborts and the daily check are left out of `Quiet`: with them a late
report puts a row that was cancelled back to IN_PROGRESS
(`L/status_handler:229`), and an abort of a started job clears `pendingJobId`
and lets the device go on, so neither `OfferCanBeTaken` nor `LiveUpdateIsShown`
holds (section 4). Messages that are repeated or lost are in `Unreliable`: `Quiet` is
about what holds when each arrives, in any order. `OfferCanBeTaken` excepts a job that
AWS IoT timed out, since a progress report that was under way then wakes its row.

In `Delivery` three devices and two workers make the canary group one larger
than its limit, and the second rotation or data key is the one that differs from
the first; the theorems of section 5 cover every other size. One instance that
is recycled is as good as two: what differs is only which key is in a cache.

In `Agent` two backups are kept so that two crashes use up the limit, and the
copies that a half-way installation leaves are the ones that prune; three
crashes give no other answer and take six times as long. The firmware job comes
second so that it may find a client that a Zigbee job has left deaf. `Agent` has
one thread: the backend gives a device one job at a time (`UpdateLock`). It has one
message of a job under way at a time, and the next after a crash; the notification
and the answer to `$next/get`, which make two of a job created at the wrong moment,
are in `DoubleNotify`, which has a thread for each, and in the theorems.

**Fairness of the agent** (`OtaAgent!FairSpec`). A thread takes its next step, a
message that has reached the client is handed to `_on_message`, and a stop of the agent
comes to its end: weak fairness, which threads, paho's loop and systemd's
`TimeoutStopSec` give. Nothing is promised of what is published while the client is not
connected, nor that a stopped agent is started, a download succeeds, a service starts,
zigbee2mqtt answers (the handler waits ten minutes at most) or the agent stops dying,
except that crashes are bounded. `JobsEnd` says so: a job ends unless the agent stays
stopped for good or nobody is left to tell it of the job.

**Fairness of the pipeline** (`OtaJobs!FairSpec`). A handler that runs makes its next call (weak
fairness: Lambda gives it time; a death is the action `Crash`, whose budget is
bounded). Delivery and the daily check need a free worker, which others may take
again and again: strong fairness, as AWS queues asynchronous invocations until
they run. The `inProgressTimeoutInMinutes` of a job fires and time passes: weak
fairness. A week passes over the rows: strong, because new activity may postpone
it. Nothing makes a device start, finish or report, and nothing makes a person
act; messages and events may be lost without end.

## 4. Disagreements with the documentation

Four are shown by runs and listed in `PROJECT.json` (`AcceptRace`,
`FalseSuccess`, `DuplicateEvent`, `DoubleNotify`). The following were met while
modelling and have no run of their own; a property named with one of them is defined
in the modules, and TLC finds it violated in the instance that is described.

In the pipeline, each with a trace of the same specification in a variation of
those instances:

* `L/user_consent:655` updates the record without a condition on PENDING: a
  decline that read it before an overlapping acceptance wrote it answers "No
  firmware changes will be made to your device" over a job that exists
  (`DeclinedHasNoJob`, in `AcceptRace.cfg` with one consent and declines).

* `L/status_handler:337` clears `pendingJobId` whichever job it names (as do 268,
  312 and 379): a report handled after its row was settled and the device was
  given another job frees the device, and a third update is granted.
* `L/job_create:758-771` does the same when a THING deployment that nobody has
  accepted is aborted while the device is busy with another update.
* `L/package_activate:361-394`: a recall cancels a queued job and leaves
  `pendingJobId` naming it; `OTA_FLOW_DOCUMENT.md:1078` says it is "cleared on
  terminal status". The next acceptance repairs it (`_is_job_still_active`), the
  download link stays refused until then.
* `L/package_activate:341` scans once: an acceptance past its package check puts
  its QUEUED row after the scan. `OTA_INTEGRATION_GUIDE.md:871` says a recall
  "Cancels all QUEUED IoT Jobs for that package version".
* `L/job_create:684` refuses only SUCCEEDED; `OTA_FLOW_DOCUMENT.md:745` says
  "Aborting an already-cancelled job returns 400".
* `L/status_handler:229` updates the row without looking at its status: with an
  agent that reports on the reserved topic too, the lifecycle event can settle
  the row first and the IN_PROGRESS report re-opens it.
  `OTA_INTEGRATION_GUIDE.md:1384` calls that status terminal.
* `L/status_handler:311`: `SET installedVersions.#pkg` raises on a device row
  without the map, which no Lambda makes, and `pendingJobId` is not cleared, though
  `OTA_FLOW_DOCUMENT.md:1078` says "cleared on terminal status"
  (`ReportClearsPending`, in `Quiet.cfg` with `MapReady = {}`).
* `L/user_check_updates:364` answers NOT_REGISTERED unless the row has a
  `globalInstalledVersion` and a `package`; the repository's agent registers with
  `installedVersions` (`jobs_client.py:117-131`), so its owner is told so for good,
  also while an update runs, though `README.md:472` says that it "means the OTA agent
  has never started on that device" (`LiveUpdateIsShown`, in `Quiet.cfg` with
  `Telling = {}`).
* `L/user_consent:821` compares with `globalInstalledVersion`, which a success
  does not update: until the agent registers again, the version just installed
  is accepted once more (`README.md:512` asks for a strictly newer one).
* `L/user_consent:305`: `_check_rate_limit` is never called (`README.md:513`
  promises one consent per device per 5 minutes).
* `L/user_get_download_link:336` refuses a link whenever `pendingJobId` is set,
  whatever became of that job, where `user_consent` looks at the row: after a
  recall, or a report that could not clear it, an owner who is offered a version
  is told that an update is in progress.
* `L/user_get_download_link:199-207` signs the row's `s3Key`, the object that the
  processor has deleted; `OTA_INTEGRATION_GUIDE.md:1689` expects the link to
  answer 200.
* `L/dev_simulate_job:25` says it "Only cancels jobs whose ID starts with
  "digilux-ota-dev-""; its DELETE (233-283) cancels whatever `pendingJobId` names.

In the delivery:

* `L/device_register:153-161` counts and then adds: registrations that overlap
  each find room, where `README.md:650` says "First 5 devices".
  `CanaryBounded` says how far it goes.
* `L/device_register:91` takes a device for new while its row lacks `thingName`,
  and writes that before it chooses a group: an error of IoT in between is
  logged, and the device is in no group for good; two overlapping first messages
  may put it in both (`OneGroup` excepts them).
* `KEY_SERVER_GUIDE.md:518` calls rotating the master key "safe and
  zero-downtime because of the `v1:` version prefix"; `L/key_server` knows one
  master key and one label, and `L/key_server:71` caches it for the life of an
  instance. Once the secret has a new value, an artefact opens or not with the
  instance that answers, and when all are cold none of the older ones opens.
  `JobOpens` shows that a refusal is all that happens. The API keys are cached in
  the same way (72), where `KEY_SERVER_GUIDE.md:535` says the old one "stops
  working immediately" and names a TTL of five minutes.
* `L/package_activate:247` writes ACTIVE to the row it finds: a version uploaded
  anew in between is ACTIVE without an artefact, acceptances of it fail with 500
  for want of `sha256`, and a new upload is refused with 409.

In the catalogue:

* `L/artifact_processor:481` writes what was read when processing began. With
  `"overlap"` in `Env` a version is requested again, with another checksum, while its
  first upload is processed, and the row that waits for the second artefact becomes
  ACTIVE with the first; the new token and checksum are removed, and the second upload
  is skipped as a duplicate (`AwaitedIsAnnounced`, `ServesWhatWasAnnounced`;
  `OTA_INTEGRATION_GUIDE.md:247` says of the checksum "verified by artifact_processor
  on upload").
* The same update has no condition on the status: processing that overlaps with
  a recall makes the recalled version ACTIVE again, though
  `OTA_INTEGRATION_GUIDE.md:418` says a recall "Cannot be undone via API".
* `L/upload_url:222-232` makes a URL that S3 accepts for 3600 s, any number of times.
  With `"reput"` in `Env`, one version and one upload: a PUT after the recall finds no
  token and no checksum to be compared with (488), and the version is ACTIVE again with
  whatever was uploaded (`RecalledStays`, `ServesWhatWasAnnounced`; the guide's line
  418 again); a PUT to an ACTIVE version is skipped (239-245) and its plain archive
  stays, where `OTA_FLOW_DOCUMENT.md:177` says "deletes the original plaintext tar"
  (`PlainDeleted`); two quick PUTs make two events, of which the second quarantines what
  the first made ACTIVE (`ActiveNotQuarantined`, as in `DuplicateEvent`).
* `L/artifact_processor:603` looks at the status only: a BETA upload that queried
  before a promotion supersedes the version that has become PROD meanwhile.
* `L/package_activate:286` and `198` update without a condition: after a hard
  delete they make a row that has no status.
* `L/package_activate:245-255`: two restores at once each supersede what they
  find ACTIVE, and then both are (`OTA_INTEGRATION_GUIDE.md:453`).
* `OTA_FLOW_DOCUMENT.md:182` calls CORRUPTED "permanently rejected";
  `L/upload_url:166` refuses ACTIVE only, and a new request for the version
  replaces the row.
* `L/package_activate:472-482` deletes the object at `s3Key`, which the processor
  has deleted long before; the encrypted artefact stays in the bucket, and the
  answer says "permanently deleted".
* `L/package_register` writes ACTIVE directly. It is deployed and has no route.

In the agent:

* `ota_agent.py:205-217` reports "previous version restored" for every other
  exception: also when the versions file could not be written after a good
  installation (177), or a driver's rollback failed or had no backup
  (`driver_handler.py:114-123`). `OTA_FLOW_DOCUMENT.md:644` says "Device remains healthy
  on the previous version". `RestoredIsTrue` is violated in `Agent.cfg` without
  crashes; `RolledBackIsTrue` is therefore about rollbacks that were carried out.
* After `MAX_BACKUPS` attempts that died half-way the rolling limit removes the
  last sound copy (`backup_manager.py:86`): `SoundCopySurvives` stops there, as
  the code does.
* After a crash, what a rollback restores is what the next attempt found, which
  may be half-installed: `OTA_FLOW_DOCUMENT.md:644` says "Device remains healthy
  on the previous version".
* `digilux-ota-agent.service:6` makes systemd stop the agent when it stops the
  controller in step 2 of its own installation (`firmware_handler.py:68`), and
  `Restart=on-failure` (20) does not start it again: both may stay down, with nothing
  said, where `firmware_handler.py:12` has "Two distinct failure outcomes are reported
  to the cloud" (`NotLeftStopped`, in `Agent.cfg` without crashes).
* `jobs_client.py:39` asks for a clean session and `_on_connect` (135-148) only
  subscribes: a job announced while the client was not connected waits until the agent
  is started again. `README.md:1059` says "The moment the device comes back online and
  reconnects, AWS automatically delivers the pending job" (`QueuedIsTaken`, in
  `Agent.cfg`).
* The agent reads `operation` (`ota_agent.py:106`) and drops a job without it (108-110);
  the document that `L/user_consent:479-491` makes has `operationType`. It is never
  taken up nor reported, where `README.md:1059` goes on "The device picks it up and
  proceeds normally" (`QueuedIsAnswered`, in `Agent.cfg` with `Drops = FALSE`).
* `zigbee_ota_handler.py:99-100` takes `on_message` over and subscribes before the `try`
  of 102: an error of subscribe leaves the agent deaf to jobs, where line 97 says
  "Temporarily add our callback to the MQTT client" (`ListensAgain`).
* `zigbee_ota_handler.py:135` says "Restore original MQTT message handler": the
  client is shared by all threads, and of two overlapping Zigbee jobs the one
  that ends last puts the other's callback back, so that no later job message is
  heard. `JobsEnd` is checked with one thread.
* `zigbee_ota_handler.py:73` recognises an answer by its device: one that comes
  after the timeout of a job is taken for that of the next, which is why
  `SucceededIsInstalled` leaves Zigbee devices out.
* `config_handler.py:21` reads `packageType`, which the job document of
  `L/user_consent` does not have, and raises; `Agent` has documents with it and
  without.

## 5. Proofs

`OtaJobs_proofs` proves, for every set of devices, versions, consents and
concurrent invocations, every clock and crash bound, and every choice of `Ops`,
`Env`, `Mirroring`, `Telling` and `MapReady` that the assumptions `OtaAssumption` and
`OtaJobsAssumption` allow:

* `BackedAlways`: `Spec => []Backed`;
* `TypesCorrect`, `AcceptanceBacked`, `PendingBacked`, `RowBacked`: the parts of
  it that speak about the tables.

None of the three table invariants is inductive: `SetPending` is only safe
because the handler that reaches it has put the row, `WriteConsent` because the
job it names was created by this handler for this device, `UpdateRow` because a
message exists only for a job that exists. `Backed` therefore adds what every
local variable and every message refers to (`HandlerTyped`, `HandlerBacked`,
`SentBacked`) and how AWS IoT's records fit together (`IotConsistent`). The
argument has three layers: no step takes anything back that was referred to
(`JobsKept`, `RowsKept`, `ConsentsKept`), hence the handlers that do not move
stay backed; the handler that moves is backed by its own step; the tables
follow. Each action has a lemma, and `Next` is split into them.

Its last part builds on `Backed`, for all the same values:

* `AcceptancesApart`: `Spec => []JobOfOneConsent`;
* `QueuedOnce`: `"sameSecond" \notin Env => (Spec => NeverRequeued)`.

Their invariant is `OnceInv == Backed /\ Rowed /\ Owned`. `Owned` says who may
write the job's id into a consent: the one handler whose `create_job` succeeded,
since AWS IoT takes an id once. `Rowed` says which values read earlier still
allow a write that leaves the queue. For `QueuedOnce` an induction on the row is
not enough: `PutJob` writes QUEUED without a condition, so the proof needs that
the id is new (`New`), which holds while a second gives a version one id. With
`"sameSecond"` it does not, and the theorem carries the assumption.

`Delivery_proofs` proves, for every finite set of workers, every `CANARY_MAX`
up to the page of 100, and any devices, instances, keys and rotations
(`DeliveryAssumption`):

* `DeliveryTyped`: `Spec => [](TypeOK /\ DeliveryInv)`;
* `CanaryLimited`, `GroupedOnce`, `JobsOpen`: `CanaryBounded`, `OneGroup`,
  `JobOpens`.

None of the three is inductive either. A device that has been counted in will
join later, so `CanaryRoom` bounds members and `Joining` handlers together: a
handler only starts to join while there is room, and there are finitely many.
`FirstAlone` says that the first registration of a device finds it in no group
and is alone with it unless `twice` records otherwise. `KeysMatch` follows data
key and object through the row and the handlers; that it needs nothing about
master keys is the point: `Opens` may refuse, but what opens is what was wrapped.

`OtaJobsOrder_proofs` proves what the pipeline keeps when its environment leaves
something out. Each theorem names what that is, in terms of the constants, and
no hypothesis can be dropped: with it back TLC finds a short counterexample.

* `SuccessReported`: `"stale" \notin Ops => (Spec => []SuccessIsReal)`. The daily
  check takes a job that is COMPLETED for one that succeeded (`FalseSuccess`);
  without it losses, repetitions, late and overtaking reports, crashes and any
  overlap do no harm. `RealInv` adds what the handlers of reports and events hold:
  a SUCCEEDED that was read, folded or is on its way is of a device that finished
  so, and the fold over `reported` only says SUCCEEDED when the device did.
* `NoneWithoutConsent`: `"overlap" \notin Env /\ MaxCrash = 0 => (Spec =>
  []ConsentBehindEveryJob)`. A handler that dies between `create_job` and the
  record leaves a job without one, which is left to run, and a decline
  that overlaps an acceptance undoes the record (section 4).
* `AbortTakesOffersBack`: `"overlap" \notin Env /\ "sameSecond" \notin Env =>
  (Spec => []AbortedOffersNothing)`, wherever handlers die.
* `RecallEmptiesQueue`: `"overlap" \notin Env /\ MaxCrash = 0 => (Spec =>
  []RecalledNotQueued)`. The failed write of a recall is logged and the row stays
  queued; an overlapping acceptance puts its row after the scan (section 4).

The last three rest on `SoleInv`: no two handlers of requests run at a time, and
the record a handler is about to answer is still unanswered, since the handlers
of reports and events and the daily check write no consent (`FollowUpWrites`).
`OfferInv` adds that a PENDING record's deployment waits for consent unless the
abort that is running still holds the record, and that a row that waits has no
AWS IoT job; `RecallInv` that what is queued of a recalled version is in the
hands of the running recall, and that an acceptance past the check of its
package can rely on it until its row is put.

`OtaJobsGuard_proofs` proves when "an update is already in progress on this device"
holds what it promises. `Undisturbed` says: one handler at a time, none dies,
nobody aborts or recalls, the daily check does not run, requests wait until
reports and events were handled, a device reports before its timeout and never
TIMED_OUT, and nobody cancels in the AWS IoT console. Devices may restart, reports be
repeated, lost or overtake each other, execution status be mirrored, ids be used
again, and the installedVersions map be absent.

* `UndisturbedLock`: `Undisturbed => (Spec => OneUpdateAtATime)`, that is, `OtaJobs`
  implements `UpdateLock` with the live executions of a device for its updates.
  `CreateIot` is a grant, the end of an execution a release, and every other step
  leaves the lock alone (`ExecutionSteps`, `LockStep`).
* `RunningIsShown`: `Undisturbed /\ "sameSecond" \notin Env /\ Telling = Devices =>
  (Spec => []LiveUpdateIsShown)`; section 4 says what other agents' owners are told.
* `HandledReportClears`: `Undisturbed /\ "loss" \notin Env /\ MapReady = Devices =>
  (Spec => []ReportClearsPending)`.
* `OffersCanBeTaken`: `Undisturbed /\ "loss" \notin Env /\ MapReady = Devices =>
  (Spec => []OfferCanBeTaken)`: devices report progress and mirror their reports, as
  the repository's agent always does, and reports are repeated and overtake each other.

The invariant of all four is `GuardInv`. `LiveGuarded`: the row of a device names
its live execution, and the row of that job is active, unless the handler that
created the job is still at work. `ReportGuarded` is what `status_handler` needs,
which clears `pendingJobId` whichever job it names: a terminal report under way is
of the update the device row names, or the row names none and no acceptance is
being handled. `EventGuarded` and `Guarding` say the same of events and of what
the running handler holds. `Cleared` adds that a report stays under way until it
has cleared the row, and `EndedByDevice` that an execution which has ended, and was not
timed out, was ended by its device's own report: by `Cleared` its report, once handled,
has left the device row without the job, whatever a late progress report makes of the
job's own row.

No part of `Undisturbed` can be dropped from `UndisturbedLock`: with a crash, a
second handler, an abort, a recall, the daily check, a delay, a late report, a
report of TIMED_OUT or a cancellation in the console TLC finds `OneUpdateAtATime`
violated on one device with two or three acceptances (`AcceptRace` keeps the
second handler as a run). The same holds of what the other three theorems add.

`PackageCatalog_proofs` proves, for all versions, artefacts, workers, uploads and
events (`CatalogAssumption`):

* `CatalogTyped`: `Spec => []TypeOK`, with every switch on;
* `AwaitedAnnounced`: `OrderlyUse => (Spec => AwaitedIsAnnounced)`;
* `ServedAsAnnounced`: `OrderlyUse /\ UsedOnce => (Spec => []ServesWhatWasAnnounced)`.

`OrderlyUse` says that `Env` is without `"overlap"` and that restores and
deletions are `Exclusive`; URLs that are used again,
duplicate events, failing calls, dying invocations and overlapping recalls, promotions and uploads of other versions are all
allowed. `UsedOnce` says that `Env` is without `"reput"`: `ServedAsAnnounced` needs it,
because nothing is left to compare a PUT with once the version was ACTIVE, and
`AwaitedAnnounced` does not, because a version that waits has its token and checksum.
`Catalog` and `Orderly` satisfy `OrderlyUse`, `Orderly` both. Nothing in the code enforces either:
section 4 says what happens without. The handlers act on what they read several
calls before, and the invariant says why it still holds: a URL that is valid is the
last one granted for its version (`ValidIsLast`), nothing has come of an open one
(`GrantsInOrder`), a request that has drawn a token is alone with its version (`Uploads`), a row with
a token has that of the last grant, and a row without one has no plain object
left but the announced one (`RowsInOrder`, `Clean`), so that with URLs used once
a duplicate event, which compares neither token nor checksum, finds nothing else; with
any URLs such an event is of a version that does not wait (`NoneAwaited`). `Current` is
each handler's share of it. Most calls are `Calm`, and one lemma
(`CalmStep`) is enough for them; the others have a lemma each.

`CatalogSettles_proofs` proves the five other properties of the catalogue under
`DeliveredOnce`, which is `OrderlyUse /\ UsedOnce` without `"dup"`:

* `OlderSuperseded`, `PlainGone`: `NoOlderSurvives`, `PlainDeleted`;
* `RecallFinal`, `ServingKept`, `RestoreAlone`: `RecalledStays`,
  `ActiveNotQuarantined`, `RestoredAlone`, which are action properties.

With duplicates, or a second PUT, a second handler of an upload works beside the administrator
(`DuplicateEvent` is one thing that follows). `SettledInv` says that without them
an upload is open, has its event to come, or is handled by one invocation
(`OneHandler`), that its row waits meanwhile and no administrator is at it but to
delete it (`Waiting`), and that the release type a handler read is the row's.
`Overtaken` then follows an activation: what is older and still ACTIVE is in the
list that the newer one's handler is working through. That is where PROD and BETA
matter, and where a promotion in between would break it.

`OtaAgent_proofs` proves, for any number of jobs, threads, backups, crashes and
messages:

* `AgentTyped`: `Spec => []TypeOK`;
* `ServiceComesBack`: `Spec => []ServiceBack`.

`AgentInv` says that jobs are made one after another and only known jobs run,
that each step belongs to the handler of the job's operation, and that while the
service is down and the agent up some thread is on its way to start it or to ask for
help (`ServiceKept`). Only the end of a process leaves threads unfinished, and an
agent that is up again was started after the controller. `ServiceComesBack` does not
say that the agent is up: where the stop of the controller takes it down,
`NotLeftStopped` (section 4) fails.

`OtaAgentSolo_proofs` proves four properties for an agent that handles one message
at a time (`OneThread`, as in `Agent`), with any number of jobs and crashes:

* `SuccessIsInstalled`, `NeverPartial`: `SucceededIsInstalled`,
  `NeverInstallsPartial`. `Genuine` follows the file from its verification over
  the move and the installation to the report;
* `RollbackIsTrue`: `RolledBackIsTrue`. `Remembered` says what the backup a thread
  will restore contains, and that its number is not used twice;
* `CopySurvives`: `SoundCopySurvives`. `CopiesKept` counts: among the backups there
  is a sound one that the attempts which died half-way have not yet pushed over
  the limit.

With the two threads of `DoubleNotify` TLC finds each of the four violated, so
the hypothesis is needed.

Model-checked only: the liveness properties `RowsSettle` and `JobsEnd`, since
liveness under fairness is out of the prover's reach. Every other property of a
passing run is stated by a theorem, most of them under the hypotheses named here,
which the runs that check the property satisfy.

## 6. Not modelled

E-mails, audit records, logs, list and read queries other than the three of
`UpdateChecks`, the ownership and eligibility checks of `user_consent` (a request
that they refuse changes nothing), the entitlement service, the making and checking of
presigned URLs, the API keys of the key server and cryptography. `package_status` and
`compatibility_check` read one table and answer. `package_register` has no
route. `beta_users` checks one row and puts it. `dev_simulate_job` is a
development tool: it writes what `user_consent` and `status_handler` write, under
ids of its own. Provisioning creates resources and has no behaviour.

## 7. Plan

Done: the pipeline, the queries, the delivery, the catalogue and the agent with
all its handlers, and a theorem for every safety and action property that a
passing run checks. Left, in this order:

1. An abstract specification of the catalogue (what a device may be offered),
   which `Orderly` implements, and the proof that it does.
2. The pipeline with overlapping requests of different devices: `Undisturbed` asks
   for one handler at a time, while what the guard needs is one per device.
3. `Agent` with two threads of different jobs, once the bounds allow it.
