# Formal model of flownexus

flownexus connects LwM2M devices to a Django application. A Leshan gateway
(`server/leshan`) speaks CoAP to the devices and HTTP to Django
(`server/django`); Celery workers behind a Redis broker carry what Django wants
the devices to do. This directory holds TLA+ modules of the parts in which
several processes change shared state, the TLC configurations that check them
on small instances, and proofs that TLAPS checks for all instances.
`PROJECT.json` maps definitions to source lines and lists runs, mutants,
hazards, findings and theorems.

## Inventory

| Component | State | Operations | Interacts with |
|---|---|---|---|
| Operation dispatch (`tasks.py`, `EndpointOperation`, admin and API views) | rows with status and `transmit_counter`; Celery messages | create (API, admin, firmware update), `process_pending_operations`, `send_operation` | gateway's command API; firmware updates; registration events trigger it |
| Firmware updates (`serializers/base.py`, `FirmwareUpdate`, `_propagate_failure_to_firmware_update`) | rows with state, result, links to two operations | start, `handle_fota`, abort, propagate a failure | operations; reports of the device; version read after a registration |
| Registration events (`IngestForwarder`, `registration_serializer.py`) | `Endpoint.registered`, `Endpoint.site`, stored events (object 10240) | registered, updated, unregistered; assign, transfer | operations, reading `/3`, permissions page |
| Ingest client (`IngestClient.java`) | `pendingRetries`, scheduled retries | post, send, retry, stop | the ingest API |
| Resource ingest (serializers, `handle_resource`) | `Resource`, `Event`, `EventResource` | validate, store and link one reading after the other | ingest client repeats it; firmware updates |
| Command API (`CommandServlet`, `SingleResourceParser`) | the exchange with the device | read, write, execute | device, `send_operation`, `read_device_object` |
| Value conversions (gateway JSON, serializers, `Resource`) | none | LwM2M value to JSON to column, and back | ingest, command API |
| Access control (`core/middleware.py`, `core/permissions.py`, memberships) | users, sites, memberships, `Endpoint.site`, session key | switch site, check, filter; permissions page, Django admin, `load_scenario` | every page |
| Firmware files (`firmware_list`, `FirmwareAdmin`) | `Firmware` rows with a soft-delete flag | upload, delete, start an update | access control, firmware updates |
| Dashboard, data analysis, pump monitor, exports | none of their own | count, fetch a page, fetch all, count bars | database that goes on changing |
| REST GETs, profile, gateway start-up, device client, tools, deployment | none that is modelled | read, render, start | |

What is hard in this code:

* **Whole-row saves from old copies.** `Model.save()` writes every column.
  `send_operation` holds its object during an HTTP request of up to 25 s,
  `handle_fota` during up to eight statements, the registration serializer
  during three. The database runs in autocommit (no `ATOMIC_REQUESTS`), two
  uvicorn processes and up to 100 Celery greenlets work on it.
* **Messages without state.** A `send_operation` message carries a primary key;
  the status of the row is not looked at when it is run. Celery acknowledges
  early, so a crash loses what runs.
* **Retries by the gateway.** They repeat events Django may have handled and
  reorder them; a request that failed half-way comes back.
* **Counting at a limit** by concurrent callbacks, with increment, test and
  decrement as separate atomic operations.
* **Checks and queries in separate statements.** A page reads the session, the
  sites, the membership, the permission and the devices one after the other; a
  form is validated and saved later; a list is counted and then fetched, page
  by page, while rows arrive, devices move and relative ranges go on with the
  clock.
* **Half a request.** Readings are stored one by one without a transaction, and
  the gateway repeats the whole request, also while the first is still at work.
* **Silence of the device.** The gateway stops waiting and the device applies
  the command afterwards.

What makes each part correct: an operation's recorded outcome is real, retries
are bounded and everything queued settles; an update whose operation failed is
over, a finished update stays finished and idle, and one update at a time is
active; the newest registration event sets the state and nothing else of the
row; the gateway tries each event a bounded number of times, never after an
answer, and remembers a bounded number of retries; a 201 means that everything
is stored and linked, and values survive the conversions; a command that is
reported as done was done, and one that failed at once was not; a page shows
exactly what its user is permitted at that time, nobody changes what he has no
permission for, and one administrator does not undo what another one did; an
export is whole, and a reader of pages misses only what moved under his feet.

## Modules

* `Operations` - the `EndpointOperation` table of one endpoint, the broker's
  messages, and the worker. A task is `Load` (the `get()`), `Mark` (SENDING is
  saved, the request goes out), `Answer` (the reply is classified in memory) and
  `Save`. `e_ops[t]` is the object the task holds. `ApiCreate`, `AdminSave` /
  `AdminCommit` / `AdminChange`, `RegistrationUpdate` are where rows and
  triggers come from, `AdminDelete` is where rows go (a task that still holds
  one inserts it again); `WorkerCrash`, `TaskFails` (an exception, such as a
  locked SQLite database) and `BrokerLoss` are failures. Replies are
  the four classes `send_operation` tells apart. `posted`, `sends`, `applied`,
  `refused`, `crashes` are history variables that no action of the code reads
  (`sends` and `crashes` also bound the model).
* `Fota` extends `Operations`: the two are one system. A handler is a request
  (or the end of `read_device_object`) that runs `handle_fota`: `Receive`,
  `CountActive`, `Latest`, `Others`, `NextStale`, `Get`, `CreateExecute`,
  `TriggerExecute`, the reads and saves of `abort_pending_fota_comms`,
  `SaveUpdate`, or `HandlerFails` at any of them. Users start updates
  (`StartUpdate`), and change or delete them in the admin
  (`AdminChangeUpdate`, `AdminDeleteUpdate`). `fw_obj[h]` and `fw_update[t]` are the objects held in memory.
  `PropagateRead` and `PropagateSave` replace `PropagateNothing` of
  `Operations`. `Serial` restricts the system to one request or task at a time.
* `FotaLife` - the life of an update and nothing else: it begins, progresses
  while it is the only active one, ends once, with its state idle, and may be
  deleted; its Update command is ordered with the report of the download. `Fota`
  implements it when nothing overlaps (`LifeCycle`): an update that a request or
  a task holds in memory has not moved yet, and each save is one step of the
  life.
* `Registration` - the gateway's events, their delivery in any order and any
  number of times, and `RegistrationEventSerializer.create` as `Fetch`,
  `Aggregate`, `StoreEvent`, `SaveEndpoint`, `Delays`, with `Fail` at any point;
  `AssignSite` is the permissions page.
* `IngestDelivery` - the promise about one posted event; `IngestClient` - the
  code, at the grain of the atomic operations on `pendingRetries`, shown to
  implement it.
* `Values` - every conversion of one value as an operator: `ConvertValue`
  (gateway to JSON), `ValidData`, `TypesMatch`, `Stores` (serializers and
  `handle_resource`), `GetValue` (`send_operation`), `Parses`, `Parsed`
  (`SingleResourceParser`). Texts are a few strings that stand for the forms
  that some parser tells apart: digits, a fraction, NaN, hex digits, a text with
  blanks, the empty text.
* `CommandOutcome` - what `send_operation` relies on: a reply, and what it says
  about the device; `Command` - the HTTP request (`SendOperation`,
  `ReadDeviceObject`, any other client's), `CommandServlet` as `Target`, `Body`,
  `Refuse`, `Send`, `Result`, `NoAnswer`, a device that applies, refuses or
  garbles at any time, also when nobody waits, and the end of the task
  (`TaskAnswered`, `TaskGivesUp`, `AnswerLost`). It is shown to implement
  `CommandOutcome`, whose replies are those `Operations!Answer` takes.
* `ResourceIngest` extends `Values`: attempts of one request, each of which
  validates the body (`Begin`), then creates events (`StartGroup`,
  `FirstEvent`), skips or stores a node (`Skip`, `Store`) and links it
  (`Link`); `Fail` at any of them; the client's side is `Answer` and `GiveUp`.
* `SiteAccess` - a request is `Begin` (its session), `LoadUser`, `LoadSites`,
  `CurrentSite`, `DefaultSite` (`SiteContextMiddleware`), then `SwitchSite`, or
  `Check` followed by `Show` or by the statements of a POST: `Permit`; for an
  update `ChooseEndpoint` and `ChooseFirmware` (the queries of the form) and
  `StartUpdate` (the insert), for a deletion `FindFw` and `DeleteFw` (`get()` and
  `save()`), for an upload `UploadFw`; `Refuse` where a form or the database
  refuses. `Reply` saves the session. Global Admins create and delete users,
  sites and memberships, revoke, transfer and promote; forms that are validated
  and saved by separate statements are `CheckForm` and `SaveMembership` or
  `SaveRouting`. `LoadScenario` is the management command. `held`, `kept` and
  `admins` are history variables: where the user had each permission at some
  moment of the request, and all through it, and who was ever a Global Admin. A
  site, user or firmware that is deleted stays "gone"; one created afterwards is
  another one, except that `DeleteFw` inserts a firmware that went since its
  `get()` under its old key.
* `DataViews` - one view and its query string (`Ask`), its queries
  (`CountPage` and `FetchPage` for every page, `CountExport`, `FetchExport`,
  `FetchPumpExport`, `CountBar`), and what changes meanwhile (`Tick`, `Move`,
  `AddReading`, `AddEvent`, `LinkReading`). `known`, `listed` and `late` are
  history variables: the rows there were at first, those a query has found, and
  those that came between the two queries of a page. The events sheet is a set
  of column labels (`ColumnsOf`), which the view takes apart again to fill a row
  (`Cell`) or fails to (`Unreadable`). A name is free text: `Ending` says what
  the names that end with brackets read like, so that a name and an index of
  another name can be the same label.
* `OperationsProofs`, `FotaProofs`, `IngestClientProofs`, `RegistrationProofs`,
  `ResourceIngestProofs`, `SiteAccessProofs`, `CommandProofs`,
  `DataViewsProofs` - theorems.
* `MC*` - instances for TLC.

The modules meet at these places: `Registration!Delays` is
`Operations!RegistrationUpdate` and the version report of `Fota`; a reply of
`Command` is `Operations!Answer`; a reading that `ResourceIngest!Link` has
linked is `Fota!Receive`; `SiteAccess!StartUpdate` is `Fota!StartUpdate`;
`SiteAccess` decides which devices are "here" in `DataViews`; what
`IngestDelivery` promises of a post is the repetition in `Registration` and
`ResourceIngest`.

Grain: one step per database statement, message or atomic operation. The
uvicorn processes and the worker process interleave at any statement. Tasks
inside one worker are greenlets that yield at the HTTP request and the broker
but not at SQLite calls, so between two tasks the model allows more
interleavings than one worker process has, and no fewer. Transactions that the code opens
(`FirmwareUpdate.save`, the admin) are one step, or two where the transaction
is visible to others (`AdminSave`, `AdminCommit`). One endpoint is enough: every
query is by primary key or filtered by the endpoint. Timestamps are order:
primary keys of updates, the numbers of events.

Not modelled inside these parts: which report `handle_fota` refuses
(`ResourceIngest!Link` may refuse any of object 5, `Fota` has the reason);
`last_attempt`, logs, operation types and
values (`Command` has the values); in `Fota` the deletion of an operation that
an update links to, and a change of the endpoint of an update in the admin;
several resources in one request, which `Fota` treats as several requests
(`ResourceIngest` has them). In `SiteAccess` the pages that only differ in the
permission they need are one action, and passwords and logging in are left out.
In `DataViews` rows are not deleted, and rows of the same time keep the order of
their ids, which is what SQLite's sorter leaves.

## Runs

Passing runs. Deadlock checking is off everywhere because the system may be
quiet: nobody has to start an update, and the bounds end each run.

| Run | Properties | What it shows |
|---|---|---|
| `MCOperations` | `TypeOK`, `OutcomeJustified`, `CounterNeverOvercounts`, `QueuedHasAttemptsLeft`, `StrandedOnlyByCrash` | Tasks with stale copies of one row lose counts but never invent an outcome, a retry or a stranded row |
| `MCOperationsLive` | `QueuedSettles` | A queued operation is settled in the end |
| `MCFotaSerial` | `FTypeOK`, `FailurePropagated`, `OwnerUnique`, `ExactlyOneRemains`, `LifeCycle`, `NewestSurvives` | The design without overlap: refinement of `FotaLife`, failures reach the update, duplicates are repaired to exactly the newest |
| `MCFota` | `FinishedIsIdle` | What survives any overlap of two requests, a task and a failure |
| `MCRegistration` | `TypeOK`, `NewestEventWins`, `NewestIsRead`, `AssignmentKept`, `Converges` | One request at a time: late, repeated and half-failed events do no harm, and a site that was assigned stays, unless a request held the row at that moment |
| `MCIngestClient` | `CountExact`, `KeptBounded`, `Implements`, `Ends` | The races at the limit of pending retries; refinement of `IngestDelivery` |
| `MCResourceIngest` | `AcceptedComplete`, `StoredIsPrefix`, `EventsWhole`, `ValuesKept` | A 201 means everything is stored and linked to its own event; a failure leaves a prefix; no valid value is lost or ends in a 500 |
| `MCCommand` | `WrittenAsStored`, `OutcomeSpec`, `ServletEnds` | Refinement of `CommandOutcome`; a column reaches the device unchanged through both conversions; the servlet always ends |
| `MCSiteAccess` | `TypeOK`, `OnlyPermitted`, `OnlyPermittedChanges`, `NothingMissing`, `UpdateKeepsFirmware`, `ErrorOnlyAfterDemotion`, `BulkKeepsRouting` | Users, permissions, sites and routing change between any two statements of a request: a page shows and does what was permitted when the request looked, nothing that was permitted throughout is missing, and only a former Global Admin ends up with a session that fails |
| `MCDataViews` | `MissedBounded`, `ExportWhole`, `SheetLossless`, `BarsComplete` | Lists, files and charts over a database that changes between their queries |

Runs that end in a violation, each a finding in `PROJECT.json`:

| Run | Property | Why it fails |
|---|---|---|
| `MCFotaPropagate` | `FailurePropagated` | a request saves the update over the failure the task recorded |
| `MCRegistrationRace` | `NewestEventWins` | two requests, check and write not atomic |

Both properties hold in the runs without overlap (`MCFotaSerial`,
`MCRegistration`), so that the violations are due to the overlap alone.

### Other disagreements between code and documents

Met while modelling; the modules do what the code does, and no run of its own is
kept for them.

* An operation the device refused is sent again by a second message for the row
  (`tasks.py:46`); `gateway_contract.rst:237` says "without retry".
* A second active update is accepted, because `clean()` catches its own
  `ValidationError` (`models.py:322`, `ota.rst:82`). `NewestSurvives` and
  `ExactlyOneRemains` are about the repair.
* A reported result 0 aborts the operations of an update that stays active
  (`base.py:187`, against the docstring at `base.py:202`).
* A registration event that overlaps the assignment of a site writes the old
  site back (`registration_serializer.py:47`). `AssignmentKept` shows that only
  an overlap can.
* Writing an OPAQUE resource raises `TypeError` in `send_operation`: bytes are
  no JSON, the row stays SENDING (`tasks.py:81`, `gateway_contract.rst:232`).
* A former Global Admin whose session says "unassigned" gets a `ValueError` on
  every page (`middleware.py:120`, `access_control.rst:277`); the label `error`
  of `SiteAccess!CurrentSite`. `ErrorOnlyAfterDemotion` shows that nobody else
  gets there.
* A device that is transferred between the queries of the update form and the
  insert gets the update all the same (`views.py:374-378`), although the user
  who started it has no permission on its new site
  (`access_control.rst`: "Users cannot see devices from Sites they don't belong
  to"). `OnlyPermitted` is therefore about the moment of the query.
* A ResourceType whose name ends with brackets breaks the events sheet
  (`views.py:927-935`): "Temp [C]" makes every export that has a value of it end
  with 500, since `int("C")` raises, and the value of one named "adc[0]" is
  looked up as an index of "adc" and left out. `SheetLossless` is about the
  sheets that are written and the names that do not end so.
* A membership that is revoked between validation and saving of its update form
  is inserted again (`views.py:492`).
* A BOOLEAN reading reaches Django as JSON `true` or `false`, which `CharField`
  refuses: the whole Send is answered with 400 (`ValidData`).
* The JSON page of values cannot write an OPAQUE value and ends with 500
  (`views.py:624`).
* Pending operations are dispatched to offline endpoints although
  `communication_interfaces.rst` says "If endpoint is offline, no further action
  is taken right away".
* The admin triggers the worker before its transaction commits (the row then
  waits for another trigger, which `QueuedSettles` covers).
* A `registered` event overtaken by an `updated` one does not lead to a read of
  `/3`.

### Bounds

* `MCOperations`: one row and two slots are what a lost update needs; 3
  attempts as in the code, 5 sends so that attempts beyond the limit by stale
  copies are reached, 2 messages of a kind so that duplicates exist, one failure.
* `MCOperationsLive`: two rows that compete for one slot, 2 attempts. A trigger is not
  sent any more once a row was sent 6 times, more than both attempts and the
  duplicates can use up; if it bit before an operation settled, `QueuedSettles`
  would fail.
* `MCFotaSerial`: two updates (so that duplicates arise), three operations (two
  Package URIs, one Update command), two images so that a reported version may match or not,
  three reports, one attempt so that failures are reached.
* `MCFota`: one update, two requests and a task that hold it at once, one
  Package URI and one Update operation, two reports, one attempt, one failure.
* The bounds on messages and sends hold back new reasons for a trigger
  (`NewTrigger`), never a request or task that is under way.
* In both, SUCCESS stands for the reported results other than 0; `MCFota` has
  the 0 as well. In `MCFotaSerial` it would break `FailurePropagated`, as said
  above. Reported states are
  DOWNLOADED, the only one the code treats specially, and in `MCFotaSerial` also
  UPDATING, for all those that order nothing.
* `MCRegistration`: four events, enough for registered, updated, unregistered,
  registered in any order of arrival; one half-failed request or lost answer, one
  event given up, one assignment.
* `MCIngestClient`: three requests for one place, three attempts.
* `MCResourceIngest`: every type with every form of value in a request of its
  own, pairs and triples of nodes that are good, unknown, mistyped or refused,
  in one and in two groups, and groups without a node; two attempts that may
  overlap stand for the six of the code, since an attempt only ever adds rows of
  its own.
* `MCCommand`: one command, of every kind; a command starts from a clean state
  (`Request` forgets the last one), so a second adds nothing.
* `MCSiteAccess`: one user, two sites, one device, one firmware, one request at
  a time, two changes. Two sites are what "All Devices" and different
  permissions need, two changes what it takes to revoke and to grant or to move
  a device and revoke during one request; other requests influence this one only
  through the database and the session, which the changes and earlier requests
  reach. A request that is not about the firmware finds it listed, and a form of
  the permissions page is pending only between requests and while devices are
  listed or an update is started (`Bounded`); for a page, what a form saves is a
  change like any other. A membership that is lost and created again while its
  form is open needs three changes and is not reached by TLC; the proofs cover
  it. `firmware_form` stands for the pages that show devices: it is the one
  whose check and filter need different permissions.
* `MCDataViews`: a database of two rows of every kind, or two events with three
  values, of any names; three changes while a list is turned over, two while a
  file or a chart is made (`Bounded`, which also keeps tables that the view does
  not show empty); pages and limits of one row, so that every list has a second
  page and every limit is reached; bars of two minutes and requests at odd and
  even times; a device's clock up to a minute ahead (`MaxAhead`); names that
  read like an index of another, before its first and beyond its last value, and
  like no index. Behaviours end with the answer (`Unanswered`). A device goes
  from "new" to "here" to "moved" and does not come back.
* Symmetry is used for safety only, over operations, slots, handlers and images,
  none of which the specifications order.

### Fairness

* `Operations!Fairness`: the worker runs messages that are in the broker and
  finishes its tasks (HTTP requests have a timeout); a device that is alive sends
  registration updates before its lifetime ends, and each one triggers the
  worker. Users, failures and deregistrations are under no fairness.
* `Registration!FairSpec`: a request is handled to its end, and what is waiting
  is posted again (the gateway's retry). An event it gives up is excluded in
  `Converges` by `dropped`.
* `Command!FairSpec`: the servlet's thread runs, its device timeout and the HTTP
  timeout of the task expire. The device is under no fairness.
* `ResourceIngest`, `SiteAccess` and `DataViews` state safety only.
* `IngestClient!FairSpec`: `sendAsync` completes (timeout of 10 s), callbacks and
  the executor run.

## Proofs

Checked by TLAPS for every value of the constants.

* `OperationsProofs`. `TypeOK`, `OutcomeJustified`, `CounterNeverOvercounts`,
  `QueuedHasAttemptsLeft` for any number of rows, slots and attempts, from
  `OperationsAssumption`. The table's properties are not inductive, because every
  save writes a copy made earlier; `CopyOK` says what each copy is worth at
  each point of `send_operation` (its counter is covered by requests issued,
  strictly while its own request is out; the result it is about to save is
  justified). `StrandedOnlyByCrash` is proved on top of that invariant.
* `FotaProofs`, from `FotaAssumption`, for any number of updates, operations,
  requests and tasks.
  * Overlapping or not: `FTypeOK`, `FinishedIsIdle` and `OwnerUnique`. All three
    are about rows, and rows are written from copies, so each invariant speaks
    of every object held in memory: the row, `fw_obj`, the stale objects still
    to be failed, and `fw_update`. `TInv` gives them types, and the keys of rows
    that exist; `CopiesCoherent` says "active or idle" of each; `ClaimsOK` says
    that no two copies of different updates link to one operation, and that an
    operation with a link exists, which makes the one that `CreateExecute` takes
    a new one.
  * With `Serial` as a hypothesis: `ExactlyOneRemains`, `NewestSurvives` and
    `ResultIsFinal` (no step changes the result of a finished update). `SInv` says that one request or task is at work
    (`OneAtATime`) and what it has found at each statement of the repair: the
    newest active update, the others still to be failed and nothing else active,
    a copy that is the row. `MCFotaPropagate` shows one thing that overlap
    breaks.
  * With `Serial`: `LifeCycle`, the refinement of `FotaLife`. A save writes a
    whole row, so the proof needs to know what the row can be. `LInv` says it of
    whoever holds an object: it is the row as read with one report applied
    (`AsRead`), namely a new state, with an Update operation if and only if that
    state is DOWNLOADED, or an end. Then each save of the table is one step of
    the abstract life (`SaveIsLife`) and everything else is a stutter.
  * With `Serial` and devices that report no result 0: `FailurePropagated`.
    `Settled` strengthens it to every moment: where an active update has a failed
    operation, a task is about to propagate that failure or a request is about to
    end that update. The second hypothesis is needed: for a result 0 the code
    aborts the operations of an update that stays active (see above).
* `IngestClientProofs`. `CountExact` and `KeptBounded` for any finite set of
  requests, from cardinalities of the sets of counted and kept requests; and
  `Implements`, the refinement of `IngestDelivery`, for which `AttemptLeft` is
  needed (a request on its way to a retry has an attempt left).
* `RegistrationProofs`. `TypeOK` and `AssignmentKept` for any number of events
  and of requests at once; `NewestEventWins` and `NewestIsRead` under
  `OneHandler` (`MCRegistrationRace` shows that the first needs it). `Quiet` only
  speaks of the moments between requests, so the invariant says what a request
  in the middle has still to do: `HasNewest` (the stored events have a
  newest one), `CopiesCurrent` (the object a request holds has the site last
  assigned, or the two overlapped) and `OneAtATime` (the row and the reads agree with the newest
  event unless the gateway still has it or gave it up; the event being handled
  is such a one).
* `ResourceIngestProofs`. `AcceptedComplete`, `StoredIsPrefix`, `EventsWhole`
  and `ValuesKept` for any bodies and any number of attempts, overlapping or not,
  from `IngestAssumption`. The invariant goes by the place an attempt is at:
  what it has stored is what can be stored before that place and perhaps at it
  (`RowsOK`), what it has linked are the rows before that place (`LinksOK`), and
  its event is the one the reading there belongs to (`EventOK`), for a Send of
  several readings the group of the first one, also when groups before it are
  empty. The lemmas `NextPlace`, `NextGroup` and `AllBefore` say how the order of
  places goes on from node to node; `AsideOK` that an attempt is not touched by
  the steps of another. `ValueKept` goes through the types.
* `SiteAccessProofs`. `OnlyPermitted`, `OnlyPermittedChanges`,
  `NothingMissing`, `UpdateKeepsFirmware`, `ErrorOnlyAfterDemotion` and
  `BulkKeepsRouting` for any number of users, sites, devices, requests and changes. The argument is about what a
  request remembers: `HistoryOK` (`kept` is within what the user has now, and
  that is within `held`), `GrantOK` (what an earlier statement of the request
  found is in `held`), `FreshOK` (a request shows and does nothing before
  its reply), `AnswerOK` (what it shows, what its form has found, and what it has done).
  For `ErrorOnlyAfterDemotion` the key "unassigned", in a session or in a
  request that read or is about to save it, is that of a former Global Admin
  (`ReadOK`). `UpdateKeepsFirmware` needs no more than the types (`FwInv`): a
  row that an update refers to is not deleted, and none refers to a row that
  went between the query of the form and the insert. `TypeOK`, with the
  references between rows, needs that a form waiting to be saved is about a
  user and a site that were there when it was validated (`FormOK`): where one is
  gone since, the database refuses the row.
* `CommandProofs`. `OutcomeSpec`, the refinement of `CommandOutcome`, for any
  set of bodies and any number of commands. The invariant relates the three
  parties: `DeviceOK` (exchange and device), `ServletOK` (nothing is sent before
  the checks are over; 200, 400 and a 502 with a code are about the exchange as
  it is and stays), `TaskOK` (while servlet or device are at work the task has
  no reply, or "undelivered"). `TextOK` carries the lemmas about `Values`: what
  is sent is a text, so the device never applies `None`. `WrittenAsStored`
  follows the value from the column through `GetValue` and `Parsed` to the
  device (`WInv`).
* `DataViewsProofs`. `ExportWhole` for any database, filter and limit, and any
  number of changes while the file is made, from `DataViewsAssumption`. Rows are
  only added, keep device, type and time, and a device that left stays away
  (`Grown`), so that what was there at first and is listed at the end was listed
  at every query in between (`KnownOK`, `CountedOK`, `SeenOK`). For the export
  of the pump monitor, which does not count, `ShortSlice` shows that
  `queryset[:limit + 1]` with at most `limit` rows is the whole list.

  `MissedBounded` for pages of any size and any number of changes. It speaks of
  the end only; `PageInv` says at every step that each row the reader has not
  seen either has as many rows in front of it, seen or new or gone, as the
  pages he had hold (`Followed`), or that it and the unseen rows in front of it
  are no more than the rows that left there (`Matched`). No change of the
  database undoes either (`StillMatched`). A row that moves up to a page he had
  passes from the first to the second (`SkippedMatched`), and turning a page
  restores the first for all rows behind it (`TurnOn`), because ranks number
  the list without a gap (`Ranks`, `FirstRows`). What is behind the last page
  came after the count (`TurnLast`). It matters that `left` holds the rows a
  query has found, not only those shown: a row that comes with an old time and
  goes again moves the list as well, which takes three changes to see.

  `SheetLossless` for any events. The links of a name are numbered by how many
  of them come before (`Numbering`), so `Values` lists each of them once
  (`ValuesAre`). A link whose name has no brackets has its column (`OwnCell`),
  which no other name can take; where no name has them, the links of an event
  and the filled cells of its row are in bijection (`ColumnsMatchLinks`),
  whatever other columns the sheet has.
  `BarsComplete` for any bars. `BarInv` says after every bar that the sum so far
  is at least the readings counted that are still there (`Remained`) and at most
  those there are in the time spanned (`Spanned`); the bars do not overlap and leave
  no edge out (`Edges`). `Sum` is a recursive function; that it exists, is unique and adds
  the last element is proved through the least number at which it would not
  (`SumsExist`, `SumsUnique`, `SumAppend`).

Left to TLC: liveness (`QueuedSettles`, `Converges`, `Ends`, `ServletEnds`),
which is out of the prover's reach. Every other property of a run is the subject
of a theorem.

## Plan

Done: the core (`Operations`, `Fota`, `Registration`, `IngestClient`) and its
surroundings (`ResourceIngest`, `Values`, `Command`, `SiteAccess`,
`DataViews`), and the abstract specifications `IngestDelivery`,
`CommandOutcome` and `FotaLife`. Worth doing next: a device for `Fota` (after
`devtools/zephyr/client/src/fota.c`), to state which report belongs to which
update.

## Not modelled

* The counts of devices on the dashboard and the flags of the site context: one
  query each, shown side by side without relation.
* Sorting of lists by a column other than time, and the detail view of a pump
  event; wording, layout and the format of files.
* REST GETs, the profile page, settings and migrations: single queries or
  configuration, no state of their own.
* Start-up of the gateway: wiring of third-party servers.
* The device client and the mock: `Fota` and `Command` take any answer at any
  time instead.
* Deployment and test drivers.
