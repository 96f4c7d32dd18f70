# Verification of secontrol

secontrol is an agentless control plane: a Go server keeps a SQLite table of
Linux machines, polls them over SSH, stores what they report, acts on their
Docker containers, and serves a single-page dashboard. The code is small; what
is hard about it is time. Handlers, background goroutines and the page read a
row, talk to a machine for seconds or minutes, and then write what they learnt
to whatever has the same key by then. And much can fail on the way: the key, the
machine, its output, the registry, a statement, the stream of the answer.

This directory holds TLA+ models of that, TLC configurations that check them on
small instances, and proofs, checked by TLAPS, that hold for every size.
`PROJECT.json` maps every definition to the lines it models and lists
components, runs, hazards, findings and theorems.

    tlc -workers 2 -config CollectorSafety.cfg MCCollector   # a run
    tlapm CollectorProofs.tla                                # the proofs

Paths below are relative to the repository; `app.go`, `ssh.go`, ... are in
`src/internal/app/`, `app.js` and `index.html` in `src/assets/`.

## 1. Inventory

| Component | Where | State | Operations | Status |
|---|---|---|---|---|
| Collector | app.go 64-91, 139-152, 455-487, 930-1008, ssh.go | tables `agents` and, by cascade, `containers`, `storage_volumes`, `system_*`, `metric_samples`; `App.active` (ids being collected); goroutines | `Poll`/`refreshAll`, `createAgent` with its first check, `deleteAgent`, `refreshAgent`, `collect` | modelled |
| Container cache and actions | app.go 470-829 | cache columns of `containers` (`update_available`, `version_checked`, `image_checked_at`, ...) | `collect`'s upsert, `inspectContainer`, the reset of `refreshAgent`, `containerAction`, `updateComposeContainer` | modelled for one machine and one Compose service |
| SSH keys and registration | app.go 92-152, 241-419, 455-471 | `ssh_keys`, `agents.ssh_key_id`, the machine's own copy of the credential | `createSSHKey`, `generateSSHKey`, `deleteSSHKey`, `createAgent`, `deleteAgent` (and `renameSSHKey`, not modelled) | partly |
| Machine dialog | app.js 195-204, 231-266, index.html, app.go 154-212 | the form, `connectionVerified`, two buttons, requests in flight | open, close, edit, test, save, `renderKeys` | modelled |
| SSH transport | ssh.go | the sessions and their copier goroutines | `runSSH`, `runSSHCredential`, `runSSHCredentialStream` | partly: as steps of its callers; copiers in UpdateStream |
| Master key | app.go 1031-1070 | `master.key`, `APP_MASTER_KEY`, the ciphertexts | `loadKey`, `encrypt`, `decrypt` | modelled |
| Registry client | registry.go, app.go 853-867 | none; the registry changes meanwhile | references, tokens, tag search, digests, versions | modelled |
| Parsing and storing of reports | app.go 941-1029, system.go, storage.go | the tables of one report | `parseSections`, the transaction of `collect` | partly: not the columns of single lines |
| Dashboard | app.js | `fleetContainers`, `containerUpdateCache`, rows and badges, the update console | `load`, badges, refreshes, actions, streamed updates | partly |
| Schema | migrations.go | the database | `migrate` | keys and cascades: in the modules that use them |
| Read endpoints | app.go, system.go, storage.go, models.go | none | single SELECTs, `docker logs` | not modelled: they change nothing |
| Routes, start, shutdown | routes.go, cmd | none | serving | start and restart: actions of Collector, ContainerCache and Exchange |
| Style, packaging | styles.css, Dockerfile, docker-compose.yml | none | none | no behaviour |

How they interact:

- The poller and `createAgent` start background goroutines
  (`context.Background()`, no deadline); `refreshAgent`, `containerAction` and
  `updateComposeContainer` collect inside a request, with a deadline and a
  client that may leave. `App.active` (a `sync.Map`) is all that keeps two
  collects of one machine apart. It is memory: a restart empties it.
- A collect is: take the lock, read the row, SSH, one transaction (or one
  `UPDATE` to `offline`), release. `deleteAgent` takes no lock, and neither do
  `inspectContainer` and the final `UPDATE`s of a refresh or an update.
- `agents.id` and `ssh_keys.id` are `INTEGER PRIMARY KEY` without
  `AUTOINCREMENT`: the largest id is given out again after its row is deleted.
  Writes by key may therefore reach another machine or key.
- The page tests a connection with one request and saves with another; one
  flag, `connectionVerified`, connects them. The server does not check.
- Everything that talks to a machine opens its credential with the master key
  first; an inspection then takes the output apart, asks the registry if it must, and
  compares; a collect stores in one transaction; an update streams.
- The page knows a container by its index in the list that it fetched last. Lists are
  fetched by a timer and after operations; inspections fill in the badges.

What makes each component correct:

- Collector: collects of a machine never overlap and the lock is never leaked;
  a machine shows a report of its own address, never an older one than before;
  it is online only with an inventory; every collect ends and every machine is
  eventually shown as it is.
- Container cache: a verdict is about the image it is shown with; a refresh
  forces new checks, with the exceptions of finding 3; an action reported as done is
  followed by a report of the host (one in which `docker ps` failed is a report, too).
- Keys: an assigned key cannot be deleted; a machine's credential is its key.
- Dialog: what is saved is what was tested.
- Master key: what was stored can be opened again after any restart.
- Parsing, registry: a section is what the machine printed under its header; the registry
  of the image is asked, and no other; the newest tag is offered, with its own digest; a
  verdict rests on two digests that were really there.
- Transaction: the tables of a machine are from one report.
- Update stream: success is the last word, and only after all output; nobody writes to a
  response that is finished.
- Dashboard: an operation is followed by a list that shows it; a refreshed verdict is
  gone; a badge is on the row of its container; the page settles.

## 2. Modules

    FleetMirror             what the collector promises
      ^ implemented by
    Collector               agents, App.active, goroutines, hosts
      CollectorProofs       six theorems
      MCCollector           Collector*.cfg
    ContainerCache          the containers rows of one machine
      ContainerCacheProofs  four theorems
      MCContainerCache      Cache*.cfg
    SSHKeys                 ssh_keys, agents.ssh_key_id, registration
      ^ EXTENDS
    MachineDialog           the form and its requests, composed with SSHKeys
      MachineDialogProofs   four theorems
      MCMachineDialog       Dialog*.cfg
    MasterKey               loadKey, encrypt, decrypt
    Inventory               the transaction of a report
    UpdateStream            a streamed update, its console
      PartsProofs           four theorems about these three
    Versions, References    semantic tags; image references
      ^ EXTENDS
    Registry                a check against a registry
      RegistryProofs        four theorems
    Sections                parseSections
      SectionsProofs        lemmas: what it makes of output of any length
      ^ EXTENDS (all five)
    Exchange                one request from its credential to its answer
      ExchangeProofs        it implements its parts; four more theorems
      MCExchange            ExchangeChecks.cfg
    Dashboard               lists, rows, badges and operations of the page
      DashboardProofs       four theorems
      MCDashboard           DashboardChecks.cfg

The MC modules add symmetry sets and, for Exchange, the tags, images and networks of
its instance. A definition whose comment begins with
"Mutant:" is not part of the specification: it is what a plausible bug would
make of the definition that follows it, and is there to show that a property
notices.

### FleetMirror and Collector

`FleetMirror` has no goroutines: machines are added and removed, hosts change,
and `Observe` moves the mirror of a machine to a state its own host has been
in, never backwards.

`Collector` has one action per step of `collect` (app.go 930-1008) in worker
`<<id, kind>>`:

| Action | Code |
|---|---|
| `Start`, `Bounce` | `active.LoadOrStore`; "refresh already in progress" |
| `Lookup` | `runSSH` reads the address and the credential |
| `Answer`, `Unreachable`, `Hang`, `DeadlineExpires`, `RequestCancelled` | the ways an SSH call ends, or does not |
| `MarkOffline` | `UPDATE agents SET status='offline' ...`, without the request's context |
| `Store` | the transaction; row, inventory and foreign keys together |
| `WriteFails` | a database error: rolled back, or ignored |
| `Finish` | the deferred `active.Delete` |
| `CreateAgent`, `DeleteAgent`, `Request`, `PollTick` | the handlers and the ticker |
| `HostChange`, `HostReach`, `Restart` | the world |

A report is the `version` its host had when it answered: that is all the
properties tell apart. `inventory[i]` stands for every table with a foreign key
to `agents`, because the code replaces them in one transaction. There is one
background and one request slot per id: while a slot is taken, a second
goroutine of its kind either finds the lock held and returns (which is
`Bounce`), or starts later, which is the same as being spawned later. A request
whose client hangs in the SSH handshake, where the context does not reach
`ssh.Dial`, is `Hang`; the model is kinder than the code there, since
`DeadlineExpires` ends it (this is listed among the hazards, ssh.go:105).

`reissued` is a history variable: the ids that were handed out again while the
collect of their deleted machine was running, until the new machine stores a
report of its own.

### ContainerCache

The successive containers of one Compose service (one lives at a time, the
Docker ids are never reused), the cache columns of their rows, the host, the
collect lock with its holder, and the handlers at work. One action per thing
that can happen between two waits: `Inspect` reads, `InspectCached`,
`InspectFails`, `InspectChecks` and `InspectUnanswered` write by key; `Report`
and `StoreReport` are a collect; `Reset` is the `UPDATE` after the collect of a
forced refresh, and `ResetLost` the same when it fails, for the error is dropped and
the answer is 200 (app.go 484-485); `Run` ... `Final` are an action or an update, and
`FinalLost` is its last `UPDATE` when it fails.

Abstracted: labels, digests and tags are the image and the verdict about it
(`about`); `image_checked_at` is `recent` (set, and less than 24 hours ago);
the SSH call and the registry call of one inspection are one wait, for nothing
is written between them; the commit of a collect and the deferred unlock are one step,
since a handler that meets the lock between them behaves as if it met it
before. `basis` and `late` are history: what a verdict rests on, and
whether a collect changed the image under the handler that wrote it. `basis` counts
every refresh that was answered with 200, whether its reset took effect or not: at its end
each older verdict becomes "stale", or "spared" if the reset was lost and the verdict is still
recent, and each handler under way is "excused". A spared verdict is spared for as long as
that refresh is the last one.

### SSHKeys and MachineDialog

`SSHKeys` has the two-statement handlers as two actions each: `CountUses` and
`RemoveKey` (the 409, then `DELETE`, with the foreign key as its guard),
`ReadKey` and `Insert`. A key is the private key it stands for; encryption is
the subject of MasterKey. Names are left out: `renameSSHKey`
touches nothing else.

`MachineDialog` extends it with the page. `Edit` is every `input` or `change`
event of the form, and ends in `invalidateConnectionTest` as the code does;
`ResetDialog` is `resetMachineDialog`; `TestSucceeds` sets the flag, whatever
the form holds when the answer arrives. Blank forms are refused by the page's
`required` attributes and the server's 400. The only registrations are the
dialog's. A reload of the page is not modelled: it loses every variable of the
page and no request that was sent. Nor is an answer to a registration that is lost or late:
the row and the page's reset are one step, and no property is about the order of the two.
`proof` and `excused` are history: what the flag rests on, and whether the form
or its key changed since that test began.

### Exchange and its parts

ContainerCache and Collector ask what handlers do to each other; `Exchange` asks what
the world does to one of them, step by step. The process is stopped and started around
it. Its parts are specifications of their own, each with its own variables, `Init`,
`Next` and properties, and `Exchange` takes their actions:

| Module | Code | Actions |
|---|---|---|
| `MasterKey` | `loadKey`, `encrypt`, `decrypt` | `LoadEnv`, `LoadFile`, `Generate` (which may stop half-way and leave a short file), `Seal`, `StopProcess`; the operator's `SetEnv`, `DamageFile` |
| `Registry` | registry.go 13-41, 96-238 | `BeginCheck`, `AskRegistry`, `Challenged` and `Granted` (401, token), `Listed`, `Examine`, `SearchEnds`, `DigestFound`, `Unanswered`; the registry's `Publish` |
| `Versions`, `References` | registry.go 43-94, 240-260, app.go 853-867 | operators with the names of the functions |
| `Inventory` | the transaction of `collect` | `BeginTx`, `Execute`, `Error` (ends it, or is ignored), `Rollback`, `Commit` |
| `UpdateStream` | `updateComposeContainer`, ssh.go 43-86, `runContainerUpdate` | `StartStream`, `Copy`, `CommandEnds`, `Expire`, `Abandon`, `Return`, `Collected`, `Succeed`; the console's `Read`, `StreamEnds`, `Disconnect` |
| `Sections` | `parseSections`, `nonEmptyLines` | operators; the fold goes line by line |

`StartInspect`, `Answers`, `ReadAnswer`, `CheckRegistry`, `EndInspect` are
`inspectContainer`: what the machine prints is written as the shell script writes it,
taken apart by `parseSections`, and its two digests end in `Verdict`.

Four of the eight sections of an inspection are written: IMAGE_ID, RESTART, HEALTH and
COMPOSE hold a single value each, which cannot be a header. `VerdictHolds` is about the
verdict of the check; when a digest is unknown there is none, and the row keeps what it
had ("kept"), with a new time: that is a matter of ContainerCache and of finding 3.

Abstracted: keys are numbers, and a ciphertext is the key it was made with; a tag is known
by the numbers between its dots (`Parts`), a reference by its names and separators; a
table by the number of the report its rows are from; an event of the stream by its
type. `kind` is chosen at the start and splits the behaviours: handlers of different kinds
share only the master key, and what the operator does to it is one of the kinds.
History: `hit` (keys whose file was damaged or unreadable), `check.page` and
`check.had` (what was listed; what each tag pointed to during the check), `skipped`
(tables the last commit went without), `late` (events sent after the handler's return),
`guessed` (the digest was one of several that `findDigest` may take).

### Dashboard

The container rows of the page. `Tick` and `ReadOwn` are the moments at which the server
reads its tables for a load of the timer, and of an operation; `Apply` is
the answer, which replaces `fleetContainers` and renders (`Render`, `Painted`, `Ask`:
`renderContainerList` and `loadContainerUpdateStatuses`); `AnswerAsk` and `ApplyAsk` are
an inspection on the server and on the page, the latter at the index the former was asked
with (the races on the server, in which a verdict is older than its answer, are
ContainerCache's; the dialog's own inspection, app.js 152, is left out); `Begin`, `Perform`, `Performed`, `OpFails`, `OpEnds` are the buttons. What
follows `await load()` runs at once: in a state with `op.pc = "shown"` nothing else
happens before `OpEnds`. A verdict is known by the number of refreshes before its
check, which is all that "old" means.

Assumed: one operation at a time; one load of the timer and one of the operation under
way (a second one of the timer would be one that comes later); the user changes pages only
while no inspection is under way. A list is rendered only if it asks for no more than
`MaxAsks` inspections. Not in the module: the rows of a machine's page (only their part in
painting, `ShowDetail`), the 24 hours after which a cache entry expires, the entry that the
Update button writes, logs and charts. After an operation has ended, an older list of the
timer may still replace the newer one; `OperationIsShown` does not speak of that, and
`PageSettles` shows that it does not last.

## 3. Runs

| Run | Instance | Shows |
|---|---|---|
| `collector_safety` | 2 ids, 2 hosts, 1 fault; request and background collects | `TypeOK`, `OneCollectPerMachine`, `OwnReportsUnlessReissued`, `StatusMatchesInventory` |
| `collector_mirror` | 1 id, 2 hosts changing twice, hangs, a fault, a restart | `MirrorSpec`: Collector implements FleetMirror |
| `collector_live` | 1 id, 2 hosts, a fault, a restart, no hangs | `CollectsEnd`, `EventuallyCurrent`, `EventuallyOffline` |
| `collector_reissue` | finding | `OwnReports` fails |
| `collector_hang` | finding | `PollingGoesOn` fails |
| `cache_checks` | 2 containers, a pinned and a floating image, 2 handlers, 2 host changes | `TypeOK`, `VerdictIsOwn`, `RefreshIsForcing`, `DoneIsShown` |
| `cache_forced` | finding | `RefreshForcesChecks` fails |
| `cache_refreshed` | finding | `InventoryIsRefreshed` fails |
| `dialog_checks` | 1 key id reused by 2 key pairs, a password, 2 tests, 2 submits | `TypeOK`, `KeysInUseStay`, `CredentialIsKey`, `SavedIsTestedUnlessOvertaken` |
| `dialog_tested` | finding | `SavedIsTested` fails |
| `exchange_checks` | 1 machine, 2 generated keys and one of the environment, 6 tags in pages of 3, 6 images, one change of the registry, 2 reports, 2 copiers | `TypeOK`, `CredentialsReadable`, `SectionsAreOwn`, `OfferIsNewest`, `AsksOwnRepository`, `DigestIsOfOffer`, `VerdictHolds`, `OneReport`, `QuietAfterReturn`, `CompleteIsLast` |
| `dashboard_checks` | 2 containers that come and go, one operation, one failed request | `TypeOK`, `OperationIsShown`, `RefreshForgets`, `RowsAreOwn`, `PageSettles` |

Every property of a passing run has a mutant that breaks it.

### Findings

1. **A new machine shows the old one's report** (`collector_reissue`). The last
   machine is deleted while it is collected, and another is added: it gets the
   same id, and the running collect stores its report, or its failure, there.
   `OwnReportsUnlessReissued` shows that this is the only way.
2. **A remote command that never ends stops polling** (`collector_hang`).
   Background collects have no deadline; the lock stays taken and every later
   poll or refresh of that machine is refused.
3. **A refresh does not always force a check** (`cache_forced`). An inspection
   under way during the refresh writes its older verdict, or the old one when
   the registry is silent, and marks it as checked just now. And when the reset itself
   fails, say because the 30 seconds of the request end between the collect and the
   `UPDATE`, the error is ignored, the answer is 200, and every old verdict stays recent.
   The trace of the run is the first of these; `RefreshForcesChecks` rules out all three.
   `RefreshIsForcing` shows that nothing but these three survives a refresh, and that a
   verdict left over from a lost reset does not survive the next refresh.
4. **"Done" with an old inventory** (`cache_refreshed`). An action that finds
   a collect in progress does not wait for it or collect again, although that
   collect may have asked the host before the change. `DoneIsShown` shows that
   without such a meeting the inventory is new.
5. **A machine is saved untested** (`dialog_tested`). The answer of a test sets
   `connectionVerified` for the form as it is then.
   `SavedIsTestedUnlessOvertaken` shows that editing before or after the
   test, and all other orders of the buttons, are caught.

The other surprises of the code contradict no document. They are stated as the exceptions
that the properties make, each at its line: an unreadable `master.key` is replaced
(`CredentialsReadable`, app.go 1039); a network with the name of a header and no address
starts another section (`SectionsAreOwn`, app.go 1015); the tag of an image with a
digest is taken for a part of its name (`AsksOwnRepository`, registry.go 243); of
the digests of `docker manifest inspect` a random one is compared (`VerdictHolds`, app.go
836); after a timeout a copier may write to the finished response (`QuietAfterReturn`,
ssh.go 77); a badge is painted at an old index (`RowsAreOwn`, app.js 80); an
inspection under way brings back the verdict from before a refresh (`RefreshForgets`,
app.js 77).

### Bounds

- Identifiers: `MaxId = 2` is enough for one machine being reissued beside
  another one; one id suffices for the mirror and for liveness, since nothing
  in `collect` relates two machines. Two hosts tell "own" from "other".
- `MaxVersion` bounds changes of a host. Safety of rows does not depend on it
  (0 there); for the mirror 2 gives older, current and newer.
- `MaxFaults = 1` and `MaxRestarts = 1`: the failures that count are single
  steps in the middle of others. Unlimited faults would refute liveness for no
  reason in the code.
- ContainerCache: `MaxVersion = 2` allows a change under a handler and another
  under the collect that follows; two handlers are the pair whose writes meet.
- MachineDialog: one key id that is deleted and given to another key is the
  smallest reissue; two tests and two submits race each other. `Edit` always
  names a host: a form without one is as incomplete as one without a
  credential, which it does produce. With one host
  the form is told apart by its credential.
- Exchange: `PageSize = 3` of six tags, so that the newest may be on the page or not, and a
  search has several to compare: two spellings of one version, one that is newer as a
  number and older as a string, one that is no version. `MaxChanges = 1`: a tag
  moves or vanishes once, at any moment of the check. `MaxKeys = 2`: a key and
  the one that replaces it. `MaxReports = 2`: a report that fails, and the one before.
  `MaxOutput = 2`: one piece of output before and one after any other event.
- Dashboard: two containers are the least of which one can take the index of the other,
  `MaxChanges = 1` is enough for that; one operation between two loads and
  `MaxFaults = 1` are the case that `load()` treats specially.
- Symmetry is used in runs of invariants only. In ContainerCache handlers and Docker ids
  are interchangeable: no definition chooses or compares one.
- Deadlock is checked in every run.

### Fairness

`FairSpec` of Collector assumes `WF(PollTick)`: the ticker of `Poll` fires for
ever; and `WF(Step(w))` for each worker: the Go scheduler runs a goroutine that
can run, and an SSH call that can end does (the dial has a timeout, a host that
is up answers, a request has a deadline). Nothing is assumed of users, of
`Hang`, cancellations, faults, changes of hosts or restarts, which may or may
not happen. `collector_live` sets `MayHang = FALSE`, and `collector_hang` shows
why it must.

`FairSpec` of Dashboard assumes weak fairness of `Tick` (setInterval repeats), of the
answers to loads, inspections and operations (the server answers or the browser gives up;
either is an answer), and of `OpEnds` (promise handlers run). Nothing is assumed
of the user, of failures or of the fleet. The other modules state safety only.

## 4. Proofs

`CollectorProofs`, for every set of hosts and every bound (assumptions
`BoundsAssumption`: the bounds are naturals; `NullAssumption`: the null values
are none of the others):

| Theorem | States |
|---|---|
| `TypeCorrect` | `Spec => []TypeOK` |
| `LockIsExact` | `Spec => []OneCollectPerMachine` |
| `CollectorInvariant` | `Spec => []CollectorInv` |
| `ReportsAreOwn` | `Spec => []OwnReportsUnlessReissued` |
| `StatusIsBacked` | `Spec => []StatusMatchesInventory` |
| `ImplementsMirror` | `Spec => MirrorSpec` |

`CollectorInv` is `TypeOK`, the lock, and `DataInv`. The properties of the
tables are not inductive: what a goroutine has in hand decides what they will
hold. So `DataInv` adds `OwnTarget` (a running collect talks to the address of
its machine, unless the id was reissued), `FreshReport` (a pending report is
not newer than the host, and not older than what is stored; this needs the
lock: only one collect of a machine can store), `NotFromTheFuture` and
`ReissuedAreRegistered`. The refinement shows each step to be a step of
`FleetMirror` under the mapping, or a stutter: `Store` is `Observe`, or a
stutter when the machine is gone or has been reissued.

`ContainerCacheProofs`, for any number of containers, images, handlers and changes
(assumptions `CacheAssumption`, `NoRowAssumption`):

| Theorem | States |
|---|---|
| `TypeCorrect` | `Spec => []TypeOK` |
| `VerdictsAreOwn` | `Spec => []VerdictIsOwn` |
| `RefreshesForce` | `Spec => []RefreshIsForcing` |
| `DoneIsReported` | `Spec => []DoneIsShown` |

`CacheInv` says of each row what the two properties of rows need (`GoodRow`: every writer
of a row, the lost reset included, leaves it so), and of each
handler that has read one (`SeenIsShown`) that the row still shows the image it read, or
the handler is marked late. For an update, whose last statement goes by the name of the
service, that is about every row, so it needs `OneAlive`: at most one container of
a service lives at a time, on the host, in a report and in the table.
`HolderCollects` ties the handlers to the lock. `VersionsInv` orders three counts: what
a handler waits for, what is stored or about to be, and what the host is at; a
handler that holds the lock during the transaction waits for no more than its report.

`MachineDialogProofs`, for any number of keys, hosts, requests, tests
(assumptions `KeysAssumption`, `NoMachineAssumption`, `DialogAssumption`):

| Theorem | States |
|---|---|
| `TypeCorrect` | `Spec => []TypeOK` |
| `AssignedKeysStay` | `Spec => []KeysInUseStay` |
| `CredentialsMatch` | `Spec => []CredentialIsKey` |
| `SavedWasTested` | `Spec => []SavedIsTestedUnlessOvertaken` |

`TypeInv` adds to the types that a registration and a test have either a key or
a secret. `KeysInv` adds `ReadIsKey`: what a registration has read is still the
key with its id, or that key is gone (and the foreign key will refuse the
insert), or the id was reissued under it. `DialogInv` follows a proof on its
way: a test that was not overtaken tries what the form stands for
(`TestsAreOfForm`), the flag speaks of the form (`VerifiedIsForm`), a post
carries what was tested (`PostsAreTested`), and so does the row that it becomes.
`FormMeans` and `Holds` are the one subtle point: a key id may be empty in the
meantime, and means what it meant as long as no other key took it.

`DashboardProofs`, for any number of containers, loads, inspections, operations and
failures (`DashboardAssumption`: the bounds are naturals):

| Theorem | States |
|---|---|
| `TypeCorrect` | `Spec => []TypeOK` |
| `OperationsAreShown` | `Spec => []OperationIsShown` |
| `RefreshesForget` | `Spec => []RefreshForgets` |
| `BadgesAreOwn` | `Spec => RowsAreOwn`, an action property |

`Inv` follows what an operation promises through the places it passes: the operation's
own load, once it is under way, has read the tables after the operation
(`OwnIsRecent`), so that a list of the timer which arrives between them is replaced in time;
and no verdict from before a refresh is in the memory of the page, in an
inspection under way, in the operation's load or in the list it leaves (`ForcedIsFollowed`).
A verdict of the timer's load may be old: nothing is claimed of it, and nothing needs it.
`AsksKnowTheirRow` is what makes badges right: an inspection that no newer list
has overtaken still finds its container at its index. The order of the list
(`InOrder`) is a function of the set and no recursion, so that it can be reasoned about.

The parts of Exchange, each for every value of its constants (`KeyAssumption`,
`PartsAssumption`, `RegistryAssumption`, `ImagesAssumption`, `ReportsAssumption`,
`OutputAssumption`):

| Module | Theorem | States |
|---|---|---|
| `PartsProofs` | `CredentialsStayReadable` | `KeySpec => []CredentialsReadable` |
| | `StoredAsOneReport` | `TxSpec => []OneReport` |
| | `HandlersReturnQuietly` | `StreamSpec => []QuietAfterReturn` |
| | `CompleteIsTheLastWord` | `StreamSpec => []CompleteIsLast` |
| `RegistryProofs` | `NewerIsStrictOrder` | `Newer` is irreflexive, transitive and total on versions |
| | `NewestIsOffered` | `CheckSpec => []OfferIsNewest` |
| | `OwnRepositoryIsAsked` | `CheckSpec => []AsksOwnRepository` |
| | `DigestsAreOfOffer` | `CheckSpec => []DigestIsOfOffer` |

`KeyInv` adds that a process runs on the key of its setting (`RunsOnItsSetting`) and that
`master.key` holds every generated key that a credential needs, unless it was hit
(`SealedIsKept`). `TxInv` adds `BehindIsWritten`: a statement that the transaction has
passed was executed, or its error is one of the ignored ones. `StreamInv` adds that
the handler waits for its copiers (`CopiersAreWaitedFor`), that neither success nor error
was said while it still works (`NotYet`), and that the console has read what it claims
(`ConsoleKnows`).

The search keeps the best of the tags it has passed, and that it is never overtaken by a
tag passed earlier is the transitivity of `Newer`. `HistoryInv` says that what the catalog
has now is in the history of the check, and that a digest is from the history of what was
asked for. The rest is about references: of every well-formed image, in all its
shapes, the name ends where its tag or digest begins (`NameParts`), `imageWithTag` puts
another tag there and is read back as that tag, and `parseImageReference` finds the
registry and the repository. `ImagesAssumption` is the grammar that Docker accepts:
a first part is a registry exactly if it has a dot or a port or is `localhost`. It leaves out
one thing that Docker accepts, an image without an owner under the address
`registry-1.docker.io` itself, which the code cannot tell from one of Docker
Hub's own images.

`ExchangeProofs`, with `ExchangeAssumption` and `LinesAssumption` (a network's line is
neither empty nor a digest: names of networks have no ":"):

| Theorem | States |
|---|---|
| `TypeCorrect` | `Spec => []TypeOK` |
| `PartsAreImplemented` | `Spec => KeySpec /\ TxSpec /\ StreamSpec /\ CheckSpec` |
| `ExchangeIsSafe` | the seven properties of the parts that are about states, of Exchange |
| `OwnSectionsAreRead` | `Spec => []SectionsAreOwn` |
| `VerdictsHold` | `Spec => []VerdictHolds` |

Every step of Exchange is a step or a stutter of each part, so each theorem about a part
is one about the whole. `TypeOK` says which part may be under way with which handler, and
its inductive invariant is that of all parts with `SlotInv`.
`VerdictHolds` joins them all. `BlocksInv`: what the machine has printed is an output of
the script, and a digest under its last header is one that the registry has had
(`HadNow`); `FoundInv`: so is the digest that the handler took from it. Between the two
stands `parseSections`, and what it makes of output of any length is `SectionsProofs`: a
section without headers and empty lines is read as it is, and leaves the others alone
(`SectionIsRead`), and every line of a section was printed below its header
(`LinesHaveOrigin`). A network named `REGISTRY` may thus bring its neighbours into the
section of the digest (`RemoteIsRead`), but none of them is a digest, and with two lines
the section has no value; so the verdict holds even then, though the section is
not read as it was.

Recursion: `parseSections` and `nonEmptyLines` are recursive functions. That they exist
and obey their loops (`ReadingSteps`, `KeepingSteps`), and every fact about all their
prefixes, is shown with the least number that contradicts it (`LeastExists`), which is
induction for one first-order statement at a time and needs no operator as a parameter.

Only model-checked: `CollectsEnd`, `EventuallyCurrent` and `EventuallyOffline` of
Collector and `PageSettles` of Dashboard, since liveness under fairness and ENABLED are
outside what the prover does. Every other property of a passing run is a
theorem. The findings are counterexamples of TLC.

## 5. Plan

Done, in this order: FleetMirror and Collector, ContainerCache, SSHKeys and
MachineDialog, Exchange and its parts, Dashboard; each with proofs of all its safety
properties. What is left, by what it would add:

1. ContainerCache as a refinement: its rows under a specification of "verdict of an image"
   without handlers, as FleetMirror is one of Collector.
2. The safety half of `EventuallyCurrent`: that a collect which ends after the last change of
   a host, and meets no failure, leaves the machine current.
3. Dashboard with the rows of a machine's page (app.js:69) and its system tables
   (app.js:168) as variables.
4. ContainerCache with two services on one machine, for the last `UPDATE` of an update
   that goes by name.

## 6. Not modelled

- Rendering of text, styling, routing, asset hashes, packaging: no state that the
  properties speak of. Charts, logs and the other pages only show what was read.
- Read endpoints: single statements that change nothing.
- Host keys: the code accepts any; trust is outside these models.
- The ALTER TABLE list of `migrate`: idempotent, run before anything else.
- `renameSSHKey`: it writes a name that nothing else reads.
- The columns of single lines of output (`df`, `ip`, `systemctl`): `strings.Fields` and
  defaults, without state; that a report breaks a primary key (storage.go:74) is
  a step of Inventory, that the machine breaks it at every poll is not.
- The 24 hours of `containerUpdateCache`, and its entry for the Update button.
- Retention of `metric_samples` (seven days).
