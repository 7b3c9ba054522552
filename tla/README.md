# Verification of Browser Pilot

TLA+ models of Browser Pilot (the FastAPI backend, the Browser Lite desktop
node and the programs inside its browser containers), the TLC configurations
that check them on small instances, and theorems about them that TLAPS checks
for every instance. Paths are relative to the repository's root; names without a
directory are in `backend/app/`.

## 1. The system

Browser Pilot gives people and agents remote browsers ("sessions", in the
governance API "devices"). A session is a row of PostgreSQL plus a runtime: a
container with Chrome, or a task space of a Browser Lite node, a desktop app
that keeps a WebSocket to the backend. Several backend processes may run over
one database; a process's memory (WebSockets, futures, caches, watchers) is its
own and dies with it.

| Component | State | Operations that change it | Meets | What makes it correct |
| --- | --- | --- | --- | --- |
| Agent device leases (`agent_devices.py`, `routes/agent_devices.py`) | `agent_device_leases`, `agent_device_audit_events` | acquire, renew, release, reclaim; the check before a governed action and the record after it; expiry | every browser route, viewer tickets, heartbeats of runtimes; the session row, `FOR UPDATE` | one active lease at most; none ends before its deadline unless released, reclaimed or deleted; a bounded deadline; an audit row for what happened and for nothing else |
| Viewer tickets and bridge (`viewer_tickets.py`, `routes/sessions.py`) | `session_viewer_tickets`, open WebSockets | issue, consume, bridge, close | leases, deletion of sessions | a ticket is used once, under its own lease, for an existing session |
| View-only filter (`rfb_proxy.py`) | bytes of an unfinished message | feed | the bridge | display requests pass, input does not, however the stream is cut |
| Browser Lite gateway (`browser_lite.py`) | nodes, commands, pairing codes, login requests; `_connections` | pair, connect, queue, pump, answer, give up, disconnect | nodes, other backend processes | a command is executed once at most, its caller answered, its row settled; a code makes one node |
| Browser Lite node agent (`services/browser-lite-app/src/node-agent.mjs`, `main.mjs`) | its configuration, connection, generation, back-off | sign in, pair, connect, execute, answer, unpair | gateway, task spaces | one connection; one answer to each request; a restart finds the node that was signed in |
| Task spaces (`services/browser-lite-app/src/task-space-manager.mjs`) | spaces, selections, the state file | create, claim, use, hand off, take over, return, complete, close, delete | the user and agents, in one app | who is in control, through failures and restarts; nothing forgotten; no number used twice |
| Installation (`services/browser-lite-app/src/installation.mjs`) | the decision of the first launch, the imported seed, each instance's data | import, start fresh, prepare an instance, reset | the user's window, the task spaces' browsers | what counts as seeded or prepared is whole and of this installation |
| Session files (`file_service.py`, `file_store.py`, `routes/files.py`) | `session_files`, objects | save, delete, archive, purge with the session | capture, deletion of sessions | a row has its object, an object its row |
| File capture (`file_capture.py`, `download_watcher.py`, `services/selenium-chrome/file-capture-agent.py`) | runtime tokens, processed downloads | start, ingest, retry, stop | runtimes, session files | a download that was captured is kept; a token ends with its container |
| Session lifecycle (`routes/sessions.py`, `container.py`, `runtime_provider.py`) | `sessions`, containers, gateways | create, start, stop, pause, re-create, delete | everything | a container runs on the exit its session asked for; concurrent changes are not lost |
| Network egress (`network_egress.py`, `routes/network_egress.py`) | profiles, managed containers | create, edit, check, disable, delete | session lifecycle | a disabled profile runs nothing; what runs is the configuration of the row |
| Fingerprint profiles (`fingerprint.py`, `routes/sessions.py`, `services/selenium-chrome/start-browser.sh`) | the profile in a session's row, its copies in the container | change of preset, of exit, of identity; observe, sync, override, start | session lifecycle | the container, the row and what was observed agree |
| Fingerprint pool (`routes/fingerprint_pool.py`) | a tenant's pool | fill, edit, reset, choose | creation of sessions | there is something to choose from |
| Fingerprint agent (`services/selenium-chrome/cdp-fingerprint-agent.py`) | its sessions with Chrome's pages, the health file | attach, initialise, check, detach | Chrome | the script runs before the page does |
| Browser images (`routes/browser_images.py`) | image rows, images of Docker, builds | build, record, delete, choose | creation and start of sessions | one ready image a version; a session keeps its image |
| WebDriver cache (`tools/browser/session.py`, `routes/browser.py`) | `_sessions` and their locks | ensure, adopt, use, re-create, clean up | runtimes | an operation that runs alone works and lets go of the browser |
| Cloak driver (`services/cloak-chromium-runtime/bp_cloak_driver.py`) | pages, handles, CDP session, crashed pages | launch, new tab, switch, close, recover | the tab routes | operations keep to the right page; one browser |
| Accounts (`auth/routes.py`, `routes/users.py`) | tenants, users, API tokens, remember tokens | setup, register, invite, change, delete; sign in, refresh, sign out | everything | a tenant keeps a superadmin; an address registers once; one good token a login |
| Vision, editions and configuration, command line, frontend | none or single rows | computation, wiring, rendering | | |

The hard behaviours, in one paragraph. Transactions wait for rows and then
decide by a `NOW()` older than the wait; the runtime's calls do the same work
outside any transaction; exceptions undo audit rows whose ids have been handed
out; deletions cascade in another lock order than the transactions they meet;
connections die long before anybody notices and are replaced across awaits;
pumps and callers of different processes write one row; a user and agents pass a
browser to each other through a queue that not every operation joins; state is
snapshotted at one time and written at another; requests on a session, a
profile or an image read a row, run Docker commands for minutes and write the
row from what they had read, and nothing locks it meanwhile; any command may
fail and leave the rest undone. `PROJECT.json` lists each as a hazard, at the
line where it bites, with the properties about it.

## 2. Modules

`MC*` modules give constants for TLC, bounds and symmetry, and put components
that share no state into one run. Constants carry named assumptions in the module
that declares them. An operator whose comment begins with "Mutant of" is not part
of a specification: it is a plausible bug in the operator after it, and putting
it in that operator's place breaks the property it was written for.

    MCAgentDeviceLeases  AgentDeviceLeases --implements--> DeviceLease
    MCViewerTickets      ViewerTickets --instantiates--> DeviceLease
                         RfbViewFilter
    MCNodeCommands       NodeCommands
    MCBrowserLiteNode    NodeCommands, NodeSignIn, Installation
    MCTaskSpaces         TaskSpaces
    MCSessionRuntime     SessionRuntime, FingerprintProfiles
    MCSessionResources   SessionFiles, NetworkEgress
    MCBrowserIdentity    FingerprintAgent, FingerprintPool, BrowserImages
    MCBrowsers           BrowserSessions, CloakDriver
    MCAccess             Accounts, RememberTokens

The theorems are in modules of their own, each over the module whose
specification they are about:

    AgentDeviceLeases_proofs  AgentDeviceLeases, and the refinement of DeviceLease
    ViewerTickets_proofs      ViewerTickets
    NodeCommands_proofs       MCBrowserLiteNode: commands, sign-in, installation
    TaskSpaces_proofs         TaskSpaces
    SessionRuntime_proofs     MCSessionRuntime: runtime, profiles
    SessionResources_proofs   MCSessionResources: files, egress
    BrowserIdentity_proofs    MCBrowserIdentity: agent, pool, images;
                              MCBrowsers: WebDriver sessions
    Accounts_proofs           MCAccess: accounts, remember tokens

A module that lists several has a variable `which`, that says which of them
moves in this behaviour; the one it extends rests in its initial state when it
does not, the variables of the others are the value `Off`. `MCBrowsers` extends
`MCBrowserIdentity`, all of whose variables are `Off` in its own specification
(`BrowsersSpec`), so that one module of proofs can follow both. Its properties are
theirs: `ProfileHolds == Only("profiles") => Profiles!ProfileHolds`. The
components interact through what each abstracts of the other, said below; no
step of one is left out because another is beside it.

### DeviceLease, AgentDeviceLeases

`DeviceLease` says what a lease is: free or held, by one operator, with a
deadline at most `MaxTtl` away; taken when free or past the deadline, or
reclaimed. `AgentDeviceLeases` is the service, for one device; devices share no
row. A call moves through `req[r].pc`:

| pc | code |
| --- | --- |
| `arrived` | a route's body has run as far as the deadline (`_normalize_expires`) |
| `waiting` | the transaction has its `NOW()` and waits for the session row |
| `locked` | `_session_for_user` has the row, `_expire_active_leases` has selected |
| `chosen` | `reclaim_device` has read the active lease, which it does not lock |
| `refused` | the transaction of a check has rolled back; the rejection is recorded next |
| `acting`, `applied` | the check has passed and the browser is driven; it has been driven, the record is due |
| `selected`, `marked` | the runtime's call has selected what elapsed, has expired it, has yet to record it |
| `replied` | the reply is on its way |

The verdict operators (`ReserveVerdict`, `TargetVerdict`, `ReclaimVerdict`,
`ActionVerdict`) are the early returns of the operations in their order. The
roles are superadmin, admin and member, so whoever may see a device may manage
it: `operator_mismatch` in renew and release, and `insufficient_permissions` in
reclaim, are unreachable. `lock` is the session row; a rejection in the
transaction (`RejectInTx`) undoes its expiries and its audit row.
`record_runtime_action` and `begin_control_action` run `_expire_active_leases`
without a transaction: `Heartbeat`, `MarkExpired` and `AuditExpired` are its
three statements. The row's CHECK constraint on the TTL is evaluated as
PostgreSQL does (`TtlCheck`).

### ViewerTickets, RfbViewFilter

Tickets, the WebSockets they open and the deletion of the session, over
the lease service of `DeviceLease`, whose steps are taken here by `LeaseService`
while it respects row locks. `consume_viewer_ticket` locks the ticket, then the
lease; a deletion locks leases, then tickets; `BreakDeadlock` is PostgreSQL
aborting one of two that wait for each other.

`Strip` is `_RfbClientViewOnlyFilter.feed`, on real bytes; `Receive` is the
bridge passing any chunk. The client's messages (`Bytes`, from the RFB protocol)
carry a filler that reads as another message. The filter does not know the
extensions noVNC sends: it loses its place there, and what must hold then is
only that no input passes.

### NodeCommands, NodeSignIn, Installation

`NodeCommands`: one node, several backend processes, any number of connections. `conn` has both
ends of a WebSocket, because a process notices a dead one late; `registered`
is `_connections` of each process; `pump` is `_command_pump`, statement by
statement between awaits; `cmd` joins a command's row, its future and its
caller. `PopPrevious`, `Register`, `StartPump` are the awaits of `connect_node`.
`_set_node_offline` has no action of its own: it compares `last_seen_at` with
`connected_at`, which is older as soon as the node has been set online, so it
changes nothing and a node goes stale after 45 seconds (`GoStale`).

`NodeSignIn` is how a Mac becomes that node: the requests and codes of the
backend, the app's bootstrap, its operations, and its connect loops, which are
told apart by a generation number. Every piece of JavaScript between two awaits is a
step; the app may quit at each.

`Installation` is what the app keeps on disk. `data` has each instance's
directory with its two markers, `seed` the import; an import, a preparation and
a reset are the file operations they consist of, and a stop may come after each.

### TaskSpaces

`op` is the operation at the head of `dispatchQueue`: `calling` while it awaits
the browser, `saving` while it awaits its snapshot, when all that matters of it is
whether it will `tell` the user to be in control. Operations that change state
before the browser call do so in their first step, and keep the change
when the call throws (`CallFails`). `making` is `createUserTaskSpace`, which
does not join the queue. `writes` is `persistQueue`: a snapshot holds the
map of its time but the space objects themselves, so what is written of
them is what they are by then (`Contents`). `Restart` is a quit at any moment
followed by `load()`. Tabs, previews, profiles and the window are abstracted.

### SessionFiles

A save is its awaits: the row is looked for, the object put, the row inserted, and
on a conflict the row that won is the answer; the object of the save that lost stays in
the store without a row. Agent and watcher are the two programs
that find a download; what each has processed is in `agent` and `watcher`.
`next` counts the identifiers `uuid4` has given. Deleting, archiving and the
purge at the end of the session are sequences of their own, and every call to
the store or to the database may fail.

### SessionRuntime, FingerprintProfiles, NetworkEgress

`SessionRuntime` has one session's container, gateway and tokens, and the
requests on it, each of them the Docker commands and statements of its route in
order. `overlapped` and `kept` are history: whether two requests were under way at
once, and whether Docker has refused to remove a container; what holds without
them is said with them, what holds in spite of them without.

`FingerprintProfiles` follows the JSON profile in the same session's row. A
request is `inspect`, `params`, `create`, `restart`, `probe`, `write`, `remove` or
`sync`; `profile` is what it has read, `made` the profile it makes the container from.
`sound` is history: which of the container and the observation no failed or
overlapped request has disturbed since the container was made anew.

`NetworkEgress` is one managed network profile, the container a check of it starts
and the sessions attached to it; `edited` and `barred` are history, whether the last edit
and the last disabling were clean, with no other request under way and no
command that failed.

### BrowserSessions, CloakDriver

`BrowserSessions` has the cache entry, its `asyncio.Lock` with the queue of those who
wait, Selenium's one session, and requests that create, adopt, use and delete
it. An operation's step of the code may find the cache, the entry's id and Selenium
in any combination that earlier ones have left. `CloakDriver` is the other driver: its commands are coroutines, and pages
open, close and crash at each await. `ensure_started` is its three awaits, under the
driver's lock: the launch (`Launched`), the first page when the browser has none
(`FirstPage`) and the CDP session (`Started`), after which alone `started` is true. Each
may raise (`LaunchFails`). After the first the browser and the driver's context stay
behind, its pages still come and go, and the next operation launches anew; that cannot
succeed while the browser lives, because it has the profile's `SingletonLock` and
`remove_stale_profile_locks` removes only a dead one's.

### BrowserImages, FingerprintAgent, FingerprintPool

`BrowserImages`: rows, Docker's images, the tasks that build, requests that
delete, sessions that choose. `FingerprintAgent`: one thread whose calls
nest, `stack`, because events are handled while a call waits for its answer;
Chrome is external and does what it is told in the order it is sent.
`FingerprintPool`: filling a pool is a count, an insertion for each default and a
note in the process that it is done.

### Accounts, RememberTokens

`Accounts`: a request reads who asks, then what it is about, then writes, each a
statement others come in between. Slugs, and an address within a tenant, are
unique in the database; nothing is locked. `RememberTokens`: tabs that share a
cookie and use the token in it, which is replaced each time it is used. A `Call` is one
request of any of the tabs: a tab refreshes once at a time, but its logout does not wait
for its refresh, so which tab a call is from does not matter.

## 3. Runs

Every passing run explores its whole bounded state space, in two to four minutes.

| Run | Question | Bounds |
| --- | --- | --- |
| `leases_safety` | Is the device exclusive, are deadlines bounded and respected, and does the service implement `DeviceLease`? | 2 calls, 2 leases, the owner and a stranger, TTL 2, clock 2, all operations and heartbeats |
| `leases_transactions` | Without the runtime's calls, does an expired lease have exactly one audit row, and does every call end? | 2 calls, 2 leases, the owner, TTL 1, clock 1, no heartbeats, fair |
| `viewer` | Is a ticket used once, under its own lease, for an existing session; does every call end in spite of deadlocks? Does the filter pass exactly what should pass? | 2 calls or WebSockets, 1 ticket, 2 leases, a user and a token of the same account, TTLs 1, clock 1, fair; streams of up to 3 messages of 7 kinds, 2 fillers, cut in every way |
| `node_safety` | Is a command executed once at most, is a result real and final, is a withdrawn command not executed? Does sign-in keep one connection, one node a code? Is what the installation calls seeded or prepared whole? | 2 processes that crash, 2 connections, 1 command, a pump dies only while its connection is the only one; 2 login requests, 2 codes, 3 connect loops, 3 launches; 2 instances, 1 stop |
| `node_liveness` | Is every caller answered and every row settled? | 1 process that does not crash, 2 connections, 1 command, fair |
| `spaces` | Does control survive failures and restarts, are numbers new, is everything saved in the end, is an agent alone while it drives? | 1 agent and the user, 2 spaces ever, 1 queued snapshot, two at a time of the queue's operation, the user's creation and the queue of writes |
| `session_runtime` | Do tokens end with their containers, does the container use the exit that was asked for, do row, container and observation of a profile agree? | 2 requests, 1 network profile beside the direct one, 2 identities; at most one container without a session, Docker refuses a removal or requests overlap but not both; of two requests on a profile exactly one probes |
| `session_resources` | Is a captured file kept and shown once, is a row without content one that is being deleted, are listed files archived? Does a network profile's container run what its row says? | 1 download, 2 slots, 2 identifiers, a watcher; two at a time of saves, the deletion of a file and the end of the session; 2 requests, 2 configurations, 1 session |
| `identity` | Does the fingerprint's script run before the page? Is there something to draw from? Is there one ready image a version, and does a session keep its own? | 2 pages, one open before the agent starts, 1 fault while none has moved elsewhere; 2 requests on a pool, one edit or stop; 1 administrator, 1 session, 2 image rows, three versions, two at a time of a build, a deletion, a session that chooses |
| `browsers` | Does an operation that runs alone work and leave the browser to the next? Does the Cloak driver launch its browser one at a time, whatever failed before, and keep to the right tab? | 2 requests of unlike kinds (alike only when both read and nothing has failed), 4 cache entries and 7 WebDriver sessions (so many that there is always a new one), 1 fault; two operations on two pages and one on four |
| `access` | Does a tenant keep a superadmin, does an address register once, is one token of a login good? | 2 requests, 3 users, 2 slugs, 2 addresses; 2 calls at once of a browser's tabs, a token's life of one day, clock 1, 3 tokens, 1 fault |
| `leases_audit` | see below: a violation is expected | 2 calls, 2 leases, the owner, TTL 2, clock 3 |

Why the bounds are enough for the cases the properties are about. Two calls,
requests or saves give every race between two of them; where a third could
only queue behind a row or a lock, it adds nothing, and where it could not, the
theorems of section 5 cover any number. Two leases allow one to be displaced or
to follow another; clock 2 with TTL 2 lets a call begin, wait while a deadline
passes and act on what it had read; TTL and clock 1 have each deadline pass once,
which is all that tickets, which are never renewed, and the audit of expiries need.
Two connections are a live one and the half-open one it replaces; identifiers
of commands and connections are used again, so one command stands for a
succession of them. Three connect loops are one that dials, one that waits and one
that has yet to notice it is over. Two spaces suffice for a user's and an agent's,
or an operation's and a concurrent one's. Two identifiers of files are the one that
is kept and the one that loses the conflict. Two pages give a call that nests another
page's initialisation. Three users are two tenants' superadmins, or one with two
others that meet. The view filter's streams are cut inside a header, at
its end and inside a body, of a first, a middle and a last message.

Interchangeable values (calls, leases, processes, connections, requests, slots)
are symmetric in the runs without liveness; `viewer`, `node_liveness` and
`leases_transactions` use no symmetry. The configurations of modules that unite several components
switch off the deadlock check, because a stream ends, a session is deleted for
good, and identifiers and faults run out; in the others a state without a successor
would be reported.

`leases_audit` is expected to end in a violation: "auditStatus and auditEventId
tell whether the action entered the audit trail"
(`frontend/src/views/CliDocPage.vue:344`). A rejection is audited inside the
transaction that its own exception rolls back, and the reply carries the id of the row
that is gone.

Other sentences of the repository that the code does not keep were met. The
first eight are written down as definitions in the modules named, and no run
checks them.

- A permitted release of an active lease releases it
  (`tests/test_agent_devices.py:283`; `PermittedReleaseSucceeds`). A release that
  began before a renewal computed its deadline writes an older `updated_at`
  and fails on the CHECK of migration 0021.
- A token may use its owner's lease (`tests/test_agent_devices.py:337`;
  `RefusedOnlyWithoutLease` of `ViewerTickets`). A control ticket issued to it is
  refused, as its own subject does not hold the lease.
- With a connected node its browser remains remotely available
  (`frontend/src/locales/en.ts:62`; `LiveNodeIsRegistered` of `NodeCommands`). Of two
  simultaneous reconnects the one whose predecessor closes last takes the
  registration over; when it is the dead one, a live node is without.
- "Restart this session to apply it" (`frontend/src/locales/en.ts:354`;
  `RestartAppliesDns` of `FingerprintProfiles`). A container that is stopped and
  started keeps the DNS servers it was made with.
- A rename "leaves the configuration unchanged" (`docs/network-egress-editing.md`;
  `RenameKeepsConfig` of `NetworkEgress`). It writes back the configuration it had
  read.
- "Delete session and container" (`cli_template.sh`; `DeletedHasNoContainer` of
  `SessionRuntime`). A start under way goes on after the deletion.
- "Files in the container's download directory must not be the only copy"
  (`docs/storage-file-contract.md`; `ProcessedIsSaved` of `SessionFiles`). An upload that
  fails makes the agent connect again, which counts every file of the directory as
  processed.
- A refused refresh clears the cookie (`RefusedClearsCookie` of
  `RememberTokens`). It is raised as an exception, whose response has no cookie.
- `CliDocPage.vue:327` says commands with side effects require an active lease;
  the lease is checked before the browser is driven and may end meanwhile.
- `tests/test_agent_devices.py:611` expects one audit row for each expiry; calls
  outside a transaction can record an expiry that did not happen (a renewal came in
  between), twice, or, dying, not at all.
- `locales/en.ts:283` calls a viewer read-only while another operator has
  control; an open control bridge is not checked again when its lease ends.
- `rfb_proxy.py:14` says display messages pass; after an extension message they
  do not.
- `services/browser-lite-app/README.md:19` says agent commands stop until the
  user returns control; `takeOverTaskSpace`, `closeTaskSpace` and
  `removeContextTaskSpace` do not wait for that.

Hazards that are real and that no property covers:

- the lease is checked before the browser is driven and not held while it is
  (`agent_devices.py:860`), or while a viewer is connected
  (`routes/sessions.py:1089`): the code does not promise it;
- a row whose caller's process dies while it is pending is settled by nobody
  (`browser_lite.py:286`);
- two hellos of one node at once (`browser_lite.py:389`, `LiveNodeIsRegistered` above);
- a login callback that arrives before the window is ready (`main.mjs:134`);
- `createUserTaskSpace` selects the user's space in the context of whatever agent
  operation runs at that moment, and that context's next removal deletes it
  (`task-space-manager.mjs:317`; `EndCreateUser` models it);
- a quit after a new space's browser has been created and before the state is
  saved forgets the number: the next space has the same number and profile;
- a setup that fails half-way leaves a tenant without a user
  (`auth/routes.py:389`);
- two instances that are prepared at once (`installation.mjs:813`);
- a launch of the Cloak browser that fails at its first page or its CDP session
  (`bp_cloak_driver.py:243`): nobody closes the browser, and as long as it lives every
  operation fails. `LaunchedOnce` covers only that there is still one launch at a time.

Some properties speak of requests that nothing overlaps, where the code makes no
promise to those that do. The runs explore the overlap, and the properties excuse what
it spoils; for these hazards they show what a request by itself does:

| Property | does not catch |
| --- | --- |
| `ExpiryAuditedExactlyOnce` | a heartbeat that dies between expiry and audit, outside a transaction (`agent_devices.py:414`) |
| `SignInHolds` | a quit in the middle of overlapping sign-ins (`node-agent.mjs:246`); one connection and one node a code hold in any case |
| `TokenSafety` | a start that revokes the token of another's container (`file_capture.py:111`), a container of a session that has gone (`routes/sessions.py:1242`) |
| `RoutedAsAsked` | a change of exit during a creation (`container.py:1170`) |
| `ProfileGoverns` | an edit or a check that writes what it had read before another's edit or disabling (`routes/network_egress.py:195`, `network_egress.py:710`) |
| `ProfileHolds` | a change of profile during a probe (`routes/sessions.py:1703`) |
| `PoolHolds` | a filling that stopped half-way or was overlapped: the pool stays partial until it is reset (`fingerprint.py:423`) |
| `RegisteredOnce` | two registrations of an address at once (`auth/routes.py:258`) |
| `LoginsHold` | two refreshes at once, or one that fails half-way (`auth/routes.py:311`); how long a token lasts holds in any case |

## 4. Fairness

Safety runs assume none. The liveness properties assume:

- what has arrived is served: weak fairness of the steps a process takes by
  itself (`Serve` of the leases, `Pumping` and `Calling` of the nodes). An event
  loop runs what is ready.
- strong fairness of waiting for a row (`Lock`, `NotFound` and `MarkExpired`; in
  `ViewerTickets` all of `Serve`, whose steps wait for rows). PostgreSQL queues the
  waiters of a row, so one that is passed over again and again gets its turn.
- deadlines pass and deadlocks are detected (`Elapse`, `BreakDeadlock`).

Nothing is assumed of clients, nodes, networks, users, crashes or heartbeats.
`leases_transactions` and `viewer` allow crashes: a call that is lost in one has
ended. `node_liveness` leaves process crashes out (`Run` instead of `Next`),
because a row whose caller's process has died while it was pending is settled by
nobody.

## 5. Proofs

The theorems hold for every value of the constants that the named assumptions of
their modules allow: any number of calls, leases, tickets, connections, commands,
spaces, files, requests, sessions, pages, images, users and tokens, and any bound on
clocks, faults and stops. Those about a component that shares an `MC` module are about its
`MCSpec`, whose behaviours are the component's while the others rest; the bounds and
constraints of a configuration are no part of it. Each module proves `Init => IInv`,
`IInv /\ [Next]_vars => IInv'` with one step for each action, and draws the
properties from `IInv`.

| Theorem | says |
| --- | --- |
| `AgentDeviceLeases_proofs` | |
| `TypeCorrect`, `InvariantHolds` | types and the inductive invariant |
| `ExclusiveLease` | one active lease at most: the unique index of migration 0015 never has to refuse an insert |
| `BoundedDeadline`, `NoEarlyExpiry` | no deadline is further away than the TTL; no step expires a lease before its deadline |
| `AcquireIsExclusive` | only a reclaim displaces a holder before its deadline |
| `EndingsAreFinal` | a lease stays ended as it ended, but for a reclaim that relabels what a heartbeat expired |
| `ExpiriesAreAudited` | as long as only transactions expire leases, an expired one has one audit row |
| `Refinement` | every behaviour of the service is one of `DeviceLease` |
| `ViewerTickets_proofs` | |
| `ViewerTypeCorrect` | types |
| `TicketOpensOnce`, `ControlUnderLease`, `NothingAfterDeletion` | a ticket opens one WebSocket, under its own lease, for a session that exists |
| `LeasesAsPromised` | whoever sees the leases only sees `DeviceLease` |
| `NodeCommands_proofs` | |
| `CommandsTypeCorrect` | types |
| `CommandsExecuteOnce`, `ResultsAreExecutions`, `WithdrawnStaysUnexecuted`, `ResultsAreFinal` | a command is executed once at most, results are real and final, what was withdrawn is not executed |
| `SignsInOnce` | one connection answers, and none without a credential; a code makes one node; a restart finds the node that was signed in |
| `InstalledAsTold` | what counts as seeded or prepared is whole, until there is trouble |
| `TaskSpaces_proofs` | |
| `SpacesTypeCorrect`, `FlagAndOwnership` | types; the flag and the ownership agree in the memory and in the file |
| `DrivesOwnSpace` | a browser that an agent drives is the agent's until it has answered |
| `NumbersAreNew`, `CounterIsAhead` | no number is used twice; numbers are below their counter in the memory, in every snapshot and in the file |
| `UserKeepsControl` | a space whose user was told to be in control stays the user's |
| `FileIsComplete` | when everything is at rest, the file is the memory |
| `SessionResources_proofs` | |
| `InvHolds`, `TypeHolds` | types and the inductive invariant of files |
| `CapturesAreKept`, `ContentIsKept`, `ListedAreArchived` | what was saved stays until it is given up; a row without content is being deleted; what was listed is archived |
| `EgressInvariant`, `EgressProfileGoverns`, `EgressDisabledStays` | the invariant of egress; a container runs what the row says; a disabled profile runs nothing, and stays disabled (proved only, no run checks it) |
| `SessionRuntime_proofs` | |
| `InvHolds`, `TypeHolds` | types and the inductive invariant of the runtime |
| `TokensAreSafe`, `RoutesAreKept` | tokens end with their containers; a container uses the exit that was asked for |
| `ProfilesAgree` | row, container and observation agree after a re-creation nothing overlapped |
| `BrowserIdentity_proofs` | |
| `AgentInvariant`, `PagesAreCovered` | a page Chrome stopped runs with the script, or after Chrome refused it; an idle agent leaves none stopped |
| `PoolInvariant`, `PoolIsRestored` | a tenant can draw; a reset leaves the defaults |
| `ImagesInvariant`, `ImagesAgree` | one ready image a version, and a session keeps its own |
| `OneLaunchAtATime` | one operation launches the Cloak browser at a time, and none once the driver has started |
| `WebInvariant`, `LoneOperationsHeal` | an operation that has a browser to itself and meets no fault succeeds and lets go of the browser; a failure that is safe to retry has done nothing |
| `Accounts_proofs` | |
| `AccountsTypeCorrect` | rows, the references between them and requests keep their types |
| `TenantsAdministered`, `AddressesRegisterOnce` | a tenant with users has a superadmin; requests that never overlap register an address once |
| `TokensOfALogin` | one token of a login is good at a time, and none after it |

### Assumptions

Those on the constants, named where the constants are declared: placeholders are
no values (`ReqAssumption`, `LeaseAssumption`, `FreeAssumption`, `NoneAssumption`,
`ContextAssumption`, `FileAssumption`, `DirectAssumption` and their like), users of
subjects are users (`SubjectAssumption`, `OwnerAssumption`, `TicketUserAssumption`), bounds are
numbers, a TTL is positive (`BoundAssumption`, `FaultsAssumption`, `SpaceBoundAssumption`,
`StopsBounded`, `RememberDays`, `MaxImageAssumption`), a version is a pair of
numbers (`VersionAssumption`), the operations on a browser are those of the
routes (`OpsAssumption`), an object or an id that is made is not one in use
(`ObjectsAssumption`, `IdsAssumption`: TLC's sets are large enough), and there are finitely many pages and requests
(`PagesAssumption`, `ProcessAssumption`). Nothing else is taken on trust.

### The arguments

**Leases.** Exclusiveness is not inductive: a call decides by times it read before it
waited for the row, and heartbeats change the table under it. `IInv` adds what
bridges the gap. `RequestsTimely`: no call's clock runs ahead, so a deadline computed
before the wait is no further away when it is stored. `RowHeldInTx`: the row is held
by exactly the call that is in its transaction, so inserts are serialized.
`ElapsedSeen`: what had elapsed when the transaction began was seen by its SELECT, so
its UPDATE clears all of it. `VictimKnown`: no lease but the chosen one can be current
for a reclaim when it writes. `CommitStep`, `InsertStep` and `ChangeStep` hold what
the committing actions share.

The refinement maps `held` to the active lease and `ended` to the statuses. It needs
`RInv`: `IInv`, that callers and holders are operators (`CallersKnown`,
`HoldersKnown`), that who holds the row may see the device (`LockersMaySee`), and that a
chosen victim is active or was expired since (`VictimLive`). Then each action is a
step of `DeviceLease` or leaves `Held` and `Ended` alone. `AuditInv` counts, for each
lease, the audit rows that are committed and those that a transaction has yet to commit.

**Viewer tickets.** A WebSocket that decides has the row of its ticket, and one that admits
the row of the lease too (`HoldsTicket`, `HoldsLease`); so nobody consumes the ticket
between the check and the commit, and the lease service, which respects row locks,
does not end the lease.

**Commands.** There is one message for each command that is dispatched: a request on the
wire, its execution, its answer or its loss. Where it can be is a function of the row
and of the future, whatever connection carries it.

**Sign-in.** Of all the connect loops at most one is of the present generation, and only
that one has a socket that is open and the agent's. What is saved and what the agent
runs with differ only while the one operation under way explains it (`Taking`,
`GivingUp`). A code that has been used stays used.

**Installation.** A call that works on an instance's directory is alone with it, one that
captures the seed is alone altogether, and the seed changes only while nothing is
being prepared from it.

**Task spaces.** `DrivesItsOwn` needs `NewNumbers`: the queue keeps every operation
away from a driven space but the user's creation, which is outside it and must not be given
that space's number. `NewNumbers` needs `NumbersBelowNext`, for queued snapshots too,
because a number comes back when the app starts from a file that was written from one;
`NextNumberIsFiles` shows that the maximum `load()` takes is then the counter of the
file. `ControlSurvives` and `NothingIsForgotten` look at what could become the file:
`OneSnapshotEach`, that the newest queued snapshot has all there is
(`NewestIsComplete`) and that a grant is in each that could be written last
(`TellsSaved`, `GrantsKept`).

**Files.** A number is fresh until its row is inserted (`Numbered`, `Fresh`, `Apart`); an
object is removed only after the removal was asked for (`AskedFirst`), so the save that lost the
conflict leaves one that no row names; who waits for an answer has one call (`OneCallEach`); the end of the session
archives before it removes the container (`PurgeInOrder`).

**Egress.** A request that nothing overlaps has removed the container before it writes, and
has read the row as it is; a request that was clean keeps being alone until it has answered.

**Runtime and profiles.** A token is claimed from the step before it is inserted, so valid tokens
can be counted against requests; a request that is alone finds the container, its token and
the exit in the row as it has left them. Of profiles, a request that nothing has
disturbed has the row as it read it, and the container is made from that.

**Fingerprint agent.** Calls nest on `stack`, with the bootstrap's at the bottom. `IInv` says what a
call that is past its first command knows of its page, that the books (`initializing`,
`initialized`) stand for calls on the stack, and that a page Chrome has stopped has
a call or an event that will let it run. The sessions of the bootstrap are nobody else's
until it asks for them.

**Pool and images.** A pool that nothing has spoiled is full, or empty and about to be filled
by a request that is alone. A ready image stays as it is until a deletion that has
counted the sessions that use it; the two lookups of a session's image take the newest
row of one version, so they agree.

**WebDriver sessions.** Requests that overlap delete each other's sessions and drop
each other's entries, so nothing much can be said of them; `IInv` speaks of the one that
is alone since it began and has met no fault (`Undisturbed`). It begins with a cache in any
state, and `OnCourse` is what it has found out since: from `lock` on the
container runs, from `check` on the id is the entry's, from `adopt` on it is Selenium's
session, and what it would create it creates when Selenium has none. `WebGoes` carries
this over a step, `WebStrays` the rest for a request that is not alone or has met a
fault; `WebDecides` and `WebLeaves` say the same of an attempt's end.

**Cloak driver.** Whoever is at one of the three awaits of a launch has the driver's lock, and
the driver has not started (`LauncherHasLock`); the lock is given back when it starts and when
it fails. Everything else the driver does leaves the lock and the launchers alone.

**Accounts and tokens.** A superadmin's row never changes: whom a change or a deletion has
checked is none and does not become one (`Checked`). `Alone` says that what a request
has read still holds when nothing overlaps it. A lone request of a login found its one
good token in the cookie.

### Only model-checked

- Liveness, which the prover cannot do: `EveryCallEnds` (leases, viewers and nodes)
  and `RowsSettle`.
- `FilterHolds`: `Strip` is recursive and ranges over sequences of bytes.
- `DriverKeepsPlace`: the driver's lists of open pages are made by `SelectSeq`, and
  what such a list contains is an induction over data.

## 6. Not modelled

`PROJECT.json` names each part with its reason. In short:

- vision and page observation, editions, configuration and startup, the command line
  and the frontend: computations, wiring and rendering;
- the VNC handshake of the bridge, and every reading operation;
- `reconcile_browser_network_profile`, the background consensus on the network and its
  cache (`container.py:1033-1116`, `1400-1524`), which nothing calls; rows of sessions older
  than profiles; what the warning `network_profile_unverified` says after it is stale;
- what profiles, configurations and pages contain: identities, exits and contents
  are values that are the same or not;
- a second administrator of images at once; of the installation a second window, the
  contents of the source, a fresh start while an import is under way (the window shows no
  button for it) and two preparations of one instance;
- Kubernetes, whose provider is not in the repository.

## 7. Open

Two backend processes that connect one node, and the sessions of the governance API with more than
one device, are the next things to model.
