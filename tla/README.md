# Syna in TLA+

Syna keeps files of one user in sync between his devices. A small Go server
stores an ordered log of encrypted events per *workspace*; every device runs a
daemon that watches the user's *roots* (directories or single files), submits
what changes as events, and applies what others submitted. The server cannot
read a file; it numbers events, keeps the current head of every path, and
refuses an event whose author did not know that head.

This directory holds TLA+ models of that program, written from `src/`, with TLC
configurations and TLAPS proofs. Line numbers below are those of `src/`.
`PROJECT.json` lists for every definition the lines it stands for.

    tlc -config ServerLogConcurrent.cfg MCServerLog   model-check one run
    tlapm ServerLogProofs.tla                         check the proofs of a module

## 1. The system

### Components, their state, their operations

| component | code | state | operations |
|---|---|---|---|
| event log | `server/db/events.go`, `workspace.go`, `snapshots.go`; `server/api/events.go`, `snapshots.go`, `bootstrap.go` | tables `events`, `roots`, `path_heads`, `workspaces.current_seq` and `.retained_floor_seq`; `API.eventMu` | submit an event (root_add, root_remove, dir_put, file_put, delete), fetch events, save a snapshot, bootstrap, recompute the floor, gc of events |
| hub and websocket | `server/hub/hub.go`, `server/api/websocket.go` | subscribers per workspace, a channel of 32 messages each | subscribe, publish, drop a slow subscriber, ping, serve |
| object store | `server/objectstore/store.go`, `server/db/objects.go`, `refs.go`, `maintenance.go`, `purge.go`, `server/admin/admin.go`, `server/processlock` | files, `objects` with reference counts, `workspace_objects`, `event_object_refs`, `snapshot_object_refs`; the purge staging directory; the lock of the data directory | put, get, count and uncount references, gc, purge-workspace, both recoveries |
| sessions | `server/api/session.go`, `auth.go`, `server/db/sessions.go`, `client/daemon/session.go` | challenges, session tokens, the token a daemon caches | start, finish, authenticate, renew, reject |
| sync engine | `client/daemon/daemon.go`, `conflict.go`, `client/applier`, `client/uploader`, `client/state` | the disk; `entries` (last known head and content of a path), `last_server_seq`, `pending_ops` | rescan and submit, catch up, resolve a conflict, retry, go live |
| roots on a device | `daemon.go` 1549-1809, 2109-2450; `snapshot_apply.go` | `roots` (active, removed, blocked), the staged set (memory only) | bootstrap, apply a snapshot, take a root that appears, drop one that is removed, unblock |
| adding a root | `daemon.go` 428-975, `initial_sync.go`, `snapshotter` | a pending `initial_root` operation | upload a tree, publish the first snapshot, recover from a collision or a replaced root |
| stream and reconnect loop | `daemon.go` 1158-1517, `client/connector` | connection, session timer, one-place notify channel | dial, catch up, stream, renew, back off |
| watcher and scanner | `client/watcher`, `client/scanner`, `daemon.go` 1865-1903, 2598-2689 | inotify watches per directory, debounced hints, a channel of 128 changes, the ignore window | watch, report, merge hints, scan |
| lifecycle | `daemon.go` 139-426, `rpc.go`, `client/agentrpc` | configuration, keyring, `mu`, `syncMu`, `purgeTransition` | connect, disconnect, purge, recreate |
| the rest | CLI, crypto, paths, protocol types, root page, metrics, migrations, scripts | none that changes in a run | |

### How they interact

* A device talks to the server over HTTP only: it submits events, fetches the
  events after its cursor, uploads and downloads objects, and, when its cursor
  is older than what the server retains (410), bootstraps from the snapshots.
* The websocket carries hints. A message makes the device fetch; nothing is
  taken from the message. So delivery may be lossy, if some hint is never lost.
* On the server, handlers run concurrently over one SQLite connection: one
  transaction is atomic, a handler is not. `eventMu` keeps the order of numbers
  and the order of publication the same. `serve`, `gc` and `purge-workspace`
  exclude each other by a lock on the data directory.
* On a device, `syncMu` admits one operation at a time; the user's editor, the
  watcher, and the process's death do not wait for it.

### What is hard

Concurrency inside the server's handlers (floor, bootstrap); the two-phase
bookkeeping of files and rows; hints lost between dialling and fetching; the
conflict protocol, in which a device applies the head of another, may restore
its own version, and replays the same events later from its cursor; answers
lost after the server accepted; a daemon that dies between disk, entry and
cursor; a root that is removed and added again under the same id. `PROJECT.json`
lists each hazard at its line, with the properties that would notice it, or the
reason why none does yet.

## 2. Modules

    IncarnationLog          what the log promises (abstract)
      ServerLog             the tables, handlers and gc that implement it
        MCServerLog         symmetry, restricted next-state relations
    EventStream             hub, websocket, reconnect loop
    ObjectStore             files, rows, counts; serve, gc, purge
    ClientSync              the sync engine of several devices over one log
    RootLifecycle           one root: added, joined, removed, re-added, recovered
      MCRootLifecycle       symmetry
    WatchHints              from an edit on the disk to the rescan that publishes it
      MCWatchHints          a small tree
    DeviceLifecycle         connect, sessions, reconnect loop, purge, disconnect
    <module>Proofs          theorems of the module

`ClientSync` stands on what the other modules establish: it takes the server to
be one log whose path head is the newest event (`TablesMatchLog`), and takes a
live device to be woken for whatever it has not seen (`HintsSuffice`).
`RootLifecycle` takes the server the same way, and leaves what `ClientSync` shows
for a settled root coarse, to go through many more lives of a root. Both take a
change to be reported or not (`Watch`, `Scan`); `WatchHints` shows what becomes of
a report, and of one that is never made. `DeviceLifecycle` is about the identity
under which all of this runs, and keeps nothing of the log's content.

Operators named `X_y` are definitions `X` with the plausible bug `y`. Nothing
uses them; each is there to be put in the place of `X`, upon which the property
named beside it in `PROJECT.json` fails.

### IncarnationLog and ServerLog

`IncarnationLog` is the contract: a log to which a root_add, a root_remove or a
content event may be appended, and the condition under which it may, stated over
the log alone (no tables). `ServerLog` has the tables, the mutex and the
handlers, and its `ImplementsContract` says that each of its steps is an allowed
append or leaves the log alone (refinement, `INSTANCE IncarnationLog WITH log <-
log`; the tables, handlers and the floor have no counterpart in the contract).

One action is one SQLite transaction or one statement outside of one.
`SubmitRootAdd`, `SubmitRootRemove`, `SubmitContent` are the transaction of
`DB.SubmitEvent`; for root events `FloorReadRoots`, `FloorReadSeq`, `FloorWrite`
follow, the three statements of `RecomputeRetainedFloor`; then `Publish`, and
only then is `eventMu` released. `SaveSnapshot` goes through the floor without
the mutex. `BootstrapReadRoots` and `BootstrapReadSeq` are the two reads of
`handleBootstrap`. `RecomputeFails` is the error after the commit. `Crash` may
come anywhere. `PruneEvent` runs while the server is down (process lock).
dir_put, file_put and delete differ in nothing the log decides and are one type.
Requests that are refused change nothing and are left out.

### EventStream

Counts messages in the hub's channel (`buf`) and in the network (`wire`), and
follows a device through `syncAndStream`: offline, dialling, first catch-up,
second catch-up, live, woken. `Leave` is every way a round ends. Page and buffer
sizes are constants.

### ObjectStore

`at` is the command that owns the data directory and where in it. Uploading is
three actions (file, row, ownership), gc is its sequence of statements,
`purge-workspace` moves files aside, commits, and discards them; its recovery,
and that of `serve`, put back what still has a row. `Exit` may come anywhere; with
`TornPrune = FALSE` not inside the handling of one pruned row, see finding 2.

### ClientSync

One file of an active root on any number of devices. Each action is what a
daemon does between two points at which a user, another device or a crash can
come in. `pc[d]` is the point, `job[d]` the local variables: which operation
(`via`), how many retries are left (`rounds`), the scanned content (`item`), the
event being applied (`at`), why (`why`).

| actions | code |
|---|---|
| `Scan`, `Submit`, `Record`, `Finish`, `SubmitFound` | `rescanRootHintWithRetry` |
| `Stage`, `FetchHead`, `Place`, `Note`, `Decide`, `SubmitNewer`, `SubmitCopy` | `resolveFileConflictForIncarnation`, `restoreNewerLocalEdit`, `writeConflictCopy` |
| `Page`, `ConsumeEvent`, `Place`, `Note`, `Advance` | `bootstrapOrCatchUp`, `consumeRemoteEvent`, `ApplyEvent` |
| `Connect`, `Continue`, `Hint`, `RetryPending`, `Watch` | `syncAndStream`, `consumeWebsocketStream`, `watchLoop` |
| `Crash`, `Drop`, and the disjuncts guarded by `Broken(k)` | the error paths; `Breaks` says which kinds a run admits |

`seen` is a history variable: the event that the bytes on a device's disk are, or
derive from. `NoSilentOverwrite` is stated over it: the head that a submission
replaces has a content which the file had up to that event, so its user has had
that version before him, or it is a deletion. `TornReplay` is its one exception, a device
that died between the disk and the entry of an event it replayed.
`NoEcho` counts versions of the file, not conflict copies: a newer local edit that
loses another race is shared as a copy and also stays at its path, where it
meets the next head (`conflict.go:199-204`), so one edit may leave two.

`rules` is the ignore window. Whatever the daemon writes leaves a rule in SQLite that
lasts two seconds, across a restart too (`applier.go:167`, `conflict.go:349`); a rescan
that finds the path as the rule has it passes it over, whatever the entry says, and
queues nothing (`daemon.go:1957`, `2054`). A rule lasts here until a rescan finds it
expired, at any moment: `Scan` passes over what has a rule or submits it, and so does
`SubmitFound` with conflict copies. `passed` is the history variable of what
the last rescan of a device passed over. `EventuallySynced` excepts exactly that:
nothing looks at it again before the next rescan. `NoSilentOverwrite`, `NoEcho` and
`CaughtUp` have no exception for it.

Contents are model values; a content stands for bytes, mode and mtime together.
Conflict copies are told apart by content.

### RootLifecycle

One file root on any number of devices, from `syna add` through removals and
re-adds. Adding a removed root begins a new *incarnation*, named by the sequence
of its root_add; events, snapshots and submissions of one incarnation must not
leak into another. A step is one request of a daemon together with what it
writes before its next request.

| actions | code |
|---|---|
| `AddRoot`, `Announce`, `Upload`, `Collide`, `Recheck`, `Verify`, `Publish`, `Confirm`, `Stage`, `Preserve` | `AddRootWithProgress`, `submitInitialRootEntries`, `reconcileInitialRoot`, `publishInitialSnapshot`, `preserveInitialRootRecovery`, `stageReplacedRootAfterInitialSync` |
| `Recover`, `PendingFallsDue`, `RetryPending` | `recoverPendingInitialRoot`, the pending operation and its backoff |
| `RemoveRoot` | `RemoveRoot` |
| `Consume`, `Resync`, `Bootstrap`, `CaughtUpOn`, `PageFails` | `bootstrapOrCatchUp`, `consumeRemoteEvent`, `bootstrap`, `ensureRootFromDescriptor`, `applySnapshot` |
| `RetryBlocked`, `Unblock`, `Replay` | `retryBlockedRoots`, `catchUpRootFrom` |
| `Watch`, `Scan`, `SkipRescan`, `Overtaken`, `ConflictFails`, `Resolve` | `rescanRootHintWithRetry`, `resolveFileConflictForIncarnation` |
| `Connect`, `Hint` | `syncAndStream` |

`job[d].want` is the incarnation a submission is bound to (0: none), `recover[d]`
the queued recovery, `staged[d]` membership of `stagedRoots`. An idle daemon may
begin anything a new connection, a hint or a timer makes it do, so that whether a
stream is live needs no state.

Abstractions: the workspace has this one root, and it is a file, so that it has
one path and its conflict copies stay where they were made; a bootstrap's reply
and its application are one step (`ServerLog` has the reply in two); of a
session's two catch-ups after the reconcile one is left out; requests fail in the
initial sync, its recovery and the pages they fetch, the failures elsewhere being
those of `ClientSync`; the goroutine that finalizes an add whose last requests
failed (`scheduleInitialRootFinalization`) is left out, and so is the ignore window
(`ClientSync`): it keeps a rescan from submitting, which no property of this module,
all of them safety properties, can be broken by.

`cut[d]` is a history variable: the next sequence at the time a daemon was last
cut short where nothing brings a later one back to what it was doing. There are
two such places. A daemon records a root as active before its root_add is
answered and queues the recovery only after a failure (`daemon.go:491`, `829`): if
it dies in between, it keeps a root the workspace may not have, until the next
root event. And a blocked root becomes active before its events have been
replayed (`daemon.go:2383`): if the replay is cut short by a crash or a 410, the
device is caught up without the file. If that replay had got no further than a
former removal of the root, the device is without the root as well, and the user
may add it again: the root_add is refused, for the workspace has it, and the root
is active from then on without the file (`AddRoot` moves `cut` to that moment; the
proof of `CaughtUp` asked for it). `RootsAgree` and `CaughtUp` except exactly that:
a device so cut short, for what was in the log by then.

### WatchHints

One directory root of one device, as a tree of paths. Four actors run side by
side: the user; the watcher's goroutine; `watchLoop` with its timers; and the
rescans, one at a time.

| actions | code |
|---|---|
| `Write`, `Mkdir`, `Unlink` | the disk, the kernel's watches and its queue of events, as `watcher.go` uses them |
| `Take`, `WalkNew`, `Notify` | `Manager.loop`, `rootsForEventLocked`, `addDirTree`, `onChange` and the channel of changes |
| `Receive`, `TimerFires`, `TakeHint` | `watchLoop`, `mergeRescanHints` |
| `RescanStart`, `ScanVisit`, `DeleteEntry`, `DeletesDone`, `Put`, `RescanFails` | `rescanRootHintWithRetry`, `ScanSubtree`, `queuePendingRootRescan` |
| `AddRoot`, `WalkRoot` | `addWatcherRoot`, `Manager.AddRoot`, `RemoveRoot` |
| `Reconnect` | `reconcileActiveRoots` |

Contents and inodes are numbers of edits. `known` is what the watcher believes to
be watched (`dirRoots`), `watched` the inode that the kernel does watch under a
name; the two come apart when a directory is removed and made again.

`lost` is a history variable: the changes that the code has let go of. It does so in
these ways, and the properties except exactly these:

* a hint is dropped because the channel is full (`daemon.go:183`);
* a scan or an upload meets a file that vanished (`daemon.go:1930`, `2061`);
* a scan fails otherwise: on a file it may not read, for want of descriptors, on a
  symbolic link (`scanner.go:46-117`, `daemon.go:1927`);
* an upload or a submission is refused for good: only a retryable error queues a
  rescan, any other returns (`daemon.go:1979`, `2036`, `2066`, `2086`);
* an edit is made out of sight of the watches.

In the third and fourth the hint is consumed and the error only logged
(`daemon.go:1896`). `GivenUp` is what the rescan would still have published; the
walk that would have ended it is not made either. Out of sight (`OutOfSight`) is a
path under a root that is not watched at all; under a directory that bears the name
of a watched one and is another (`watcher.go:91`), although `docs/06-client.md:332`
promises that new directories are watched; under one that a walk which was cut short
left out, or that was made while the kernel lost events; or under one that the walk
at the end of a rescan, which comes after its scan, has not reached
(`daemon.go:2105`).

Abstractions: a path is a directory or a file for good; moving a directory is
removing and making it; the visit of one directory in a walk is one step;
the hints of waiting callbacks are a set; a retryable error and one that is final
may follow any upload or submission; no staging files; conflicts and the ignore
window are `ClientSync`'s, and the root itself is never removed (`RootLifecycle`).

### DeviceLifecycle

One installation over time, and the workspaces of one server. What it stores is
in three places that are written one after the other (`cfg`, `keyring`, `db`); what
the daemon works with is a copy in memory (`mem`), which the commands change under
`mu` and the reconnect loops use under `syncMu`. A workspace id may be created,
purged and created again: each is a *life* of it, and a token is good for the life
it was issued for. Of the device's index only the lives are kept that its roots
belong to.

| actions | code |
|---|---|
| `Connect`, `ConnectFinish`, `ConnectStoresKeyring`, `ConnectStoresState`, `ConnectBootstraps`, `ConnectStartsLoop`, ... | `Daemon.Connect` write by write |
| `Disconnect`, `DisconnectClearsKeyring`, `DisconnectClearsState`, `Stop` | `Daemon.Disconnect` |
| `Start`, `Die` | `New`, `Run`, the death of the process |
| `LoopTurns` to `LoopExits` | `reconnectLoop`, `syncAndStream`, `ensureSession`, `consumeWebsocketStream`, `finishPurgedWorkspace` |
| `LocalOperation` | `syna add`, `rm`, a rescan, as far as they use the session |
| `PeerCreates`, `PeerAddsRoot`, `Purge`, `TokenLapses` | other devices, the operator, the clock |

`halfway` is a history variable: a command was cut short, by a death or a failing
write, between two of its writes, and none has made that good since. What such a
device has stored may be of two workspaces, and the properties except it.

`had` is the history of lives the device had a session for since it last gave a
workspace up, by a disconnect or because it was told of a purge.
`LiveIndexIsOfThisLife` says that what the device is live with belongs to one of
those, and to its session's workspace: what was given up leaves nothing behind
(`docs/06-client.md:163`, `169`). That it belongs to a single life is not so. A
bootstrap removes the roots that its reply does not name, but a root that it does
name and that is active already keeps its row and its entries, of whatever life
(`Bootstrapped`; `daemon.go:1642-1658`: its id comes from the key and the path). And
a device that is away while another one recreates the workspace is told 401, which
`daemon.go:1199` takes for a session to renew, and no 404
(`DeviceLifecycleRecreated.cfg`).

The user may connect whenever he likes. He is patient (`Patient`) if he does so
with no loop at work: he disconnects before he connects to another workspace, and
leaves a loop that was told to stop the time to end. `hasty` is the history of a
connect that was not so, one of the upsets that `MaxUpsets` bounds, and `overtaken`
that of a connect that finished while a loop held a 404 it had not announced yet.
`OneLoop`, `SyncHasIdentity`, `PurgedIsQuiet` and `LiveIndexIsOfThisLife` are for a user
who never was in haste. For another one the first three are violated: the loop that
holds a 404 purges what he has just connected, beside the loop of the new connect
if he had disconnected in between and that had failed half way. And connecting to
another workspace of the same server keeps the former one's index (`daemon.go:270`
compares the server only, where `docs/06-client.md:227-237` describes one workspace).
`PurgeClearsOnlyTheGone` holds in haste too: from the announcement of a purge
(`daemon.go:1231`) to its end `purgeTransition` keeps every connect out
(`daemon.go:267`). Before the announcement nothing does, and a connect that finishes
while the loop still holds its 404 is purged by it. The property excepts that moment by
name, and `DeviceLifecycleOvertaken.cfg` shows it.

`LoopPanics` is the catch-up after a notification that finds no connector,
because a disconnect came while it waited for `syncMu` (`daemon.go:1484`); a
disconnect that succeeds ends the process anyway.

Abstractions: the requests of a cancelled loop are never answered; the server is
stopped while it purges; reports of a rejected session are a set of at most
`RejectedMax`; cursors are left to the other modules (event numbers are global to
a workspace), as is the loop that retries blocked roots.

## 3. Runs

| run | configuration | distinct states | shows |
|---|---|---|---|
| `log_concurrent` | one root, one path, two requests in flight, 4 events | 900 039 | whatever two handlers, crashes, failing statements and gc do: no update lost, submissions land in the incarnation they name, tables agree with the log, publication in order, bootstrap replies that name a root miss nothing, contract refined; and the floor and gc leave what a bootstrapping device needs, but for one step (`FloorKept`) |
| `log_floor_drop` | two roots, one request at a time, no failing statement, 5 events | violation | finding 1 |
| `event_stream` | one device, two connections, buffers of 1, pages of 2, 3 events | 10 247 | no hint lost; every event reaches the device |
| `object_store` | two workspaces, two chunks, two events, one snapshot | 850 118 | rows that are served have files, what is retained can be fetched, counts are right, purged bytes stay gone |
| `object_store_torn_prune` | one of each, a death inside one pruned row admitted | violation | finding 2 |
| `client_sync` | two devices, three contents, two edits, one fault | 1 078 320 | entries follow the head, no silent overwrite, no echo, convergence but for what the ignore window passed over |
| `client_sync_restart` | the same without faults | violation | finding 3 |
| `root_lifecycle` | two devices, two contents, three user steps, one crash or failed request | 1 131 128 (under symmetry) | devices and server agree on the root and its file; snapshots are history; an initial sync writes into its own incarnation |
| `root_leftovers` | the same with two user steps and no fault | violation | finding 4 |
| `watch_hints` | a root with a directory and two files, a channel of one place, three edits, one fault | 777 754 | every change is covered by a hint under way or by the rescan under way, and is published in the end, but for the named lapses |
| `watch_vanish` | the same | violation | finding 5 |
| `device_lifecycle` | one workspace id with two lives, three tokens, two loops, two commands, one death or failing write, one upset (a session lapses, another device recreates the workspace, or the user connects in haste) | 256 819 | one loop per connected device, never without an identity; its index is of no life it gave up; a purge clears what is gone and leaves nothing at work; a loop gets to stream or finds the workspace gone |

Further configurations stand beside these, for questions that need no run of their
own. `ServerLogSerial.cfg` (two roots, one request at a time, 482 708 states)
checks the absolute form of `FloorKept`, `SerialFloorCovers` and `SerialRetention`,
which are proved. `ClientSyncCopy.cfg`, `ClientSyncIgnored.cfg`,
`RootLifecycleDeletion.cfg`, `DeviceLifecycleRecreated.cfg` and
`DeviceLifecycleOvertaken.cfg` end in violations, listed at the end of section 4.

### Why the bounds are enough

*Log.* Each bad case the properties are about needs two handlers: one between its
reads and its write while the other commits. A root_add, a content event, a
root_remove and another root_add are four events, enough for an event, a
snapshot or a submission of one incarnation to meet the next one. The floor is a
minimum over roots, so the serial configuration has two of them; one path per
root shows a head that outlives its root. The proofs (section 5) then remove the bounds from
most of these properties.

*Stream.* A buffer of one message overflows with the second event; pages of two
and three events make a fetch that comes back full and must be repeated. Two
connections are an old one the server has not noticed to be dead and its
successor. A second device adds interleavings and no interaction beyond the
subscriber limit, which two connections already reach.

*Object store.* Sharing needs two owners of a chunk and two counted references to
it; dying between two statements needs one of each.

*Sync.* Two concurrent edits are the conflict protocol; the fault falls at any
step of it. Three contents let two edits differ from each other and from the
base. `Breaks` leaves out two kinds of fault: `copy` (the failed upload of a
conflict copy, `ClientSyncCopy.cfg`) and `gap`, an edit between the reconcile and
the moment the watcher is ready, which `WatchHints` has as a lapse. Two edits and a
crash are also enough for a rule to matter: a conflict copy whose daemon died before
it published it. For the file itself it takes three (`ClientSyncIgnored.cfg`).

*Roots.* Three user steps are, for instance, add, remove, add; two devices adding
at once and one removing; or an add, an edit and a removal. The fault falls at
any request.

*Hints.* The tree has a directory that comes and goes with a file in it and a file
beside it, so that two hints have a common prefix which is neither of them. Three
edits remove a file and its directory and make the directory again, or make a
directory and a file in it while it is walked. One place in the channel is full
with the second hint. The one fault is any of a lost kernel event, a rescan that fails
in its scan, one refused retryably or for good at a deletion or a put, and a
reconnection. The invariant is proved for every tree and every bound
(section 5), so the instance only has to be large enough for its liveness.

*Lifecycle.* Two lives of one workspace id are what a stale token, index or 404
can be taken for; a second id is needed only for a user who changes workspaces
without a disconnect. Two loops are a former loop that has not ended and its
successor, two commands a connect and the disconnect or the second connect that
follows, three tokens the cached, the new and the rejected one. One upset lets each of
the three hazards come by itself; the proofs have any number together.

`CHECK_DEADLOCK FALSE` stands in the configurations of `ClientSync` (but for the
restart run), `RootLifecycle`, `WatchHints` and `DeviceLifecycle`: there, when the
users have used up their steps and all devices are idle and in agreement, nothing
is left to do. That they do not stop before is `EventuallySynced`,
`ChangesGetPublished` and `LoopGetsThere`. In the other modules a deadlock is an
error.

### Fairness

Fairness is assumed in four runs.

* `event_stream`: a goroutine that can run runs (`WF` of publication, sending,
  reading, a handler's return after its connection is gone); a request that is
  made again and again is answered some day (`SF` of dialling, fetching, applying:
  the reconnect loop and its backoff, `daemon.go:1158-1330`, repeat them, and
  nothing else may be assumed of a network). `EventuallyKnown` alone needs one
  more assumption, and states it: the session's renewal timer ends a live round
  (`daemon.go:1313`, `1466`), for an event that was committed by a handler which
  then failed is never published.
* `client_sync`: `WF` of the daemon's own steps (systemd restarts it,
  `Restart=on-failure`, `client/daemon/service.go:73`; the loop reconnects), of a
  reported change, a hint and the retry ticker. Users, crashes, dropped
  connections and failures owe nothing, and are bounded.
* `watch_hints`: `WF` of the watcher's goroutine, of `watchLoop`, of its timers and
  their callbacks, and of rescans, which wait for a mutex that is handed on. The
  user, lost events, failures and reconnections owe nothing.
* `device_lifecycle`: `WF` of a command's next step and of the start after a death;
  `WF` of each loop's own moves (it is scheduled, gets the mutexes it waits for,
  its timers fire, its requests end); `SF`, per stage of the handshake, of an answer
  to what is asked again and again. No operator need purge, no session lapse.

## 4. Findings

Disagreements of the code with what the repository says of it, each with a run
that exhibits it; the sentences are quoted in `PROJECT.json`.

1. `log_floor_drop` (`db/workspace.go:126`). Adding a root without a snapshot
   lowers the floor to 0 after gc has deleted events. An old cursor is served a
   list with a gap, where the protocol promises 410.
2. `object_store_torn_prune` (`db/maintenance.go:66`). gc uncounts the references of
   an event and deletes them in separate statements. If it dies in between, the
   next gc uncounts them again, and a chunk that a snapshot names is deleted.
3. `client_sync_restart` (`applier/applier.go:161`). After a start the device
   catches up before it reconciles, and replaces a file edited while the daemon
   was stopped.
4. `root_leftovers` (`daemon.go:2068`). Two devices add the same path; the loser
   stages the winner's incarnation, and the next rescan submits its own bytes
   with the staged version as base.
5. `watch_vanish` (`daemon.go:1930`). A file that vanishes while a rescan scans ends
   the scan with not-exist, which is taken for "nothing is under the hint": every
   entry there is published as deleted, also those whose files are there.

Five more have a configuration beside the runs, which shows each as a violation:

* `ClientSyncCopy.cfg`, `NoSilentOverwrite` (`daemon/conflict.go:51`). When the upload
  of a conflict copy fails, the local version goes back in place while the entry
  already names the remote head; the next rescan publishes it over that version.
* `RootLifecycleDeletion.cfg`, `DeletionsArrive` (`applier/applier.go:234`). The
  deletion of a file root's only file is rejected as out of bounds by every other
  device, and passed over.
* `ClientSyncIgnored.cfg`, `ActuallyDiffers` (`daemon.go:1957`, `2054`).
  `docs/06-client.md:403` has a rescan suppress an upload "unless content actually
  differs from the indexed state"; the code compares with the rule, not with the
  entry. A user who edits a file that was just updated, sees it published, and puts the
  former bytes back (or deletes again what a deletion had just removed) within the
  two seconds is passed over, and nothing is queued. So is the conflict copy of a
  daemon that died before it published it and was started again in time
  (`Restart=on-failure`, `client/daemon/service.go:73`).
* `DeviceLifecycleRecreated.cfg`, `LiveIndexIsOfOneLife` (`daemon.go:1199`). A device
  that was away between a purge and another device's `connect --recreate` is told
  401, not 404, opens a session in the new life and goes on with the old index.
* `DeviceLifecycleOvertaken.cfg`, `PurgeClearsOnlyTheGoneEver` (`daemon.go:1231`, `1264`). A
  connect that finishes while the reconnect loop holds a 404 of the former life, and
  before the loop has announced the purge, is cleared by that purge.

Seen in the models and not given a run of their own: `SaveSnapshot` recomputes the
floor without `eventMu`, and may raise it past a root_add that is committed
meanwhile (`db/workspace.go:137`; `FloorKept` says that this and a bootstrap with no
root is all that can); a bootstrap that finds no root at its first read may hand
out a cursor past a root_add (`api/bootstrap.go:20`); a page replayed after a crash
may put older bytes over a newer head, which a queued rescan then publishes
(`daemon.go:2452`: it takes three edits and two faults, more than `client_sync` has;
`NoSilentOverwrite` excepts it by name, and its proof says that with the failed
conflict copy it is all there is); the two places of `cut`, the
lapses of `WatchHints` and what a user in haste meets, above. One file that cannot be
read under an active root also makes `reconcileActiveRoots` fail, and with it every
attempt of the reconnect loop to go live (`daemon.go:1341`, `1927`); `WatchHints` has the
failed rescan, no module the loop together with it. The hazard list of
`PROJECT.json` has them with their notes.

## 5. Proofs

TLAPS checks every theorem, for all values of the constants. Assumed is what the
modules `ASSUME` of their constants. A theorem that needs more says so in its
statement, as a condition on a constant; each such condition has a configuration
or an account of what happens without it:

* `~TornPrune`, for exact counts and for what is retained: finding 2. That counts
  never exceed the references there are is proved without it.
* `"copy" \notin Breaks`, in `NoVersionIsOverwrittenUnseen`: `ClientSyncCopy.cfg`. All
  other breaks are admitted, also those no run enables.
* one handler, in `SerialFloorCovers` and `SerialRetention`: finding 1 and
  `FloorKeptConcurrently` say what more than one can do.

What the properties themselves except is part of the theorems as it is of the runs, in
terms of what has happened and not of constants: `~hasty` and `~overtaken` in
`DeviceLifecycle` (section 2), `cut` in `RootLifecycle`, `lost` in `WatchHints`, `TornReplay`
in `ClientSync`. `OnlyTheGoneIsCleared` has no condition on the user's haste.

| theorem | says | argument |
|---|---|---|
| `IncarnationLogProofs!ContractKept` | a log that grows by allowed appends loses no update and binds events to their incarnation | the allowed append is the inductive step; content only inside incarnations is the strengthening |
| `ServerLogProofs!TypeCorrect` | types | one lemma per action |
| `ServerLogProofs!TablesCorrect` | `TablesMatchLog` | inductive together with types, bounds of the sequences a handler holds, and the mutex: who is between commit and publication holds it |
| `ServerLogProofs!PublishedInOrder` | `PublishInOrder` | from the same invariant: only the holder of the mutex has something to publish |
| `ServerLogProofs!ContractImplemented` | `ServerLog` refines `IncarnationLog` | the tables' answer to "may this be appended" is the log's, by `TablesMatchLog` |
| `ServerLogProofs!LostUpdateExcluded`, `IncarnationRespected` | `NoLostUpdate`, `IncarnationBound` | `ContractKept` along the refinement |
| `ServerLogProofs!SerialFloorCovers`, `SerialRetention` | with one handler, floor and gc respect a bootstrap | `Covered(k)`: no device that bootstraps now needs an event at or below k. With one handler the floor is computed from roots and a head that belong together (`SerialReads`) |
| `ServerLogProofs!FloorKeptConcurrently` | `FloorKept`: with any number of handlers only a recomputation that read no active root, where there is one now, takes the floor above what a bootstrap needs | `CoveredStable`: a covered number stays covered, so a floor computed from at least one root may be written late and is still covered; a recomputation that read none writes the head, which nothing covers |
| `ServerLogProofs!RepliesCover` | `NonEmptyReplyCovers`: with any number of handlers a bootstrap reply that names a root misses nothing | `RepliesSound`: what was read of a root reaches no further than the head; a root the reply does not show was added, and one it shows wrongly removed, after everything it was computed from |
| `EventStreamProofs!StreamTypes`, `WakeupsKept` | types; `NoLostWakeup` | `HintedBeyond`: a device that is live, or about to be on the strength of what it fetched, has a hint under way for whatever was published beyond that; and connections have one device each |
| `ObjectStoreProofs!RowsHaveFiles`, `PurgeIsFinal` | `ServedRowsHaveFiles`, `PurgedStaysPurged` | `StoreInv`: bytes whose row survives are in the store or in the staging directory, and `serve` starts only after recovery; what was erased has no row to be recovered by |
| `ObjectStoreProofs!TypeCorrect` | types; no count leaves its bounds, whatever is torn | `CountsBounded`: what gc has taken off a count is never less than what it has deleted of references, so a count is at most the references there are |
| `ObjectStoreProofs!CountsAreExact`, `RetainedIsServed` | `CountsCountReferences`, `RetainedIsRetrievable`, if no prune is torn | `CountedInv`: a count and what gc has taken off it ahead of the row it prunes are together the references; what a row refers to has a row and is owned by its workspace; gc deletes only rows that nothing refers to |
| `ClientSyncProofs!SyncTypes`, `CaughtUpDevicesKnowTheHead` | types; `CaughtUp` | `KnowsHead`: the entry is an event of the path, no event up to the cursor is newer, and what the operation under way is about to record is newer than the entry, or is the event after the cursor |
| `ClientSyncProofs!VersionsAreAccountedFor` | `NoEcho`, for any number of devices and any fault | see below |
| `ClientSyncProofs!NoVersionIsOverwrittenUnseen` | `NoSilentOverwrite` | see below |
| `RootLifecycleProofs!TypeCorrect` | types, and no bootstrap cursor below zero | the newest root event exists (carried along, since deriving it would take induction), remembered sequences are in the log |
| `RootLifecycleProofs!SnapshotsAreHistory` | `SnapshotIsHistory` | what an initial sync remembers of its upload is what the log holds there, and no root event; so a base the server accepts lies inside the active incarnation; root events drop the snapshot, content does not move the incarnation |
| `RootLifecycleProofs!DevicesAgreeOnTheRoot` | `RootsAgree` | a device agrees with the newest root event unless it waits for an answer (its root_add, or a queued recovery that has not asked yet), was cut short after that event, or has not read as far; a device that replays is judged by its position in the replay |
| `RootLifecycleProofs!CaughtUpDevicesKnowTheFile` | `CaughtUp` of `RootLifecycle` | see below |
| `DeviceLifecycleProofs!TypeCorrect` | types, for any user; a session that is accepted is of the life its workspace has | one lemma per action |
| `DeviceLifecycleProofs!OneLoopAlways`, `SyncHasIdentityAlways` | `OneLoop`, `SyncHasIdentity` | `LoopsSane`: at most one loop has not ended; the one that goes on is the one whose cancel function the daemon holds, and while it does there is an identity and no command is between its writes; a loop that was cancelled has nothing to sync with and excludes a connect until it has ended |
| `DeviceLifecycleProofs!PurgedStaysQuiet` | `PurgedIsQuiet` | `HistorySane`: what is stored in the three places belongs together unless a command was cut short, what is in memory is what is stored, and a loop told of a purge has nothing but that purge left to do |
| `DeviceLifecycleProofs!LiveIndexOfThisLife` | `LiveIndexIsOfThisLife`, whatever other devices recreate and a bootstrap keeps | `Known`: roots, the stored token and the connector's are of lives in `had`, which a disconnect and a purge empty at the moment they empty the index |
| `DeviceLifecycleProofs!OnlyTheGoneIsCleared` | `PurgeClearsOnlyTheGone`, for a user in haste too | `PurgeSane`: a life that is over stays over, for lives only go up (`LivesBegun`); while a purge is announced no connect begins, so what the device has of that workspace, roots and tokens, stays of lives that are over (`PurgeStands`); one loop at most has been told, for only the one that can be cancelled runs (`CancelsWhatRuns`) |
| `WatchHintsProofs!TypeCorrect` | types; the channel within its capacity, at most one pending hint | one lemma per action; the merged hint is the longest common prefix, which exists and is a path (`MergedHintCovers`) |
| `WatchHintsProofs!AnnouncedCorrect` | `ChangesAreAnnounced`, for every tree, capacity and number of edits and faults | see below |
| `RootLifecycleProofs!InitialSyncsStayInTheirOwn` | `OwnIncarnationOnly` | the incarnation a job or a queued recovery names was added by its device, and every step of an initial sync that submits names one; the server refuses all others |

Invariants are seldom inductive alone: `TablesMatchLog` breaks if a handler may
hold stale numbers outside the mutex, `CaughtUp` if an entry may be recorded for
an event other than the one in hand, `OwnIncarnationOnly` if a queued recovery
may name a foreign root_add. The strengthenings say that these do not occur.

`ChangesAreAnnounced` takes two. *Of the changes*: not only what differs from the
published entries must be announced but whatever will differ once the rescan
under way goes on (`Stale`: what a scan has read and the disk no longer has, a
directory about to be published that has gone), for a deletion or a put turns the
one into the other. *Of the watches* (`Structure`): the disk is a tree; inode
numbers are not used again, so a directory that is made anew is never taken for
one the kernel watches; a scan has read nothing below the paths it has yet to
visit; and a directory that is not watched is out of sight, or about to be walked,
or told of by an event (`Watchful`). The last is what covers an edit which the
kernel does not report although the user did nothing wrong: it was made under a
new directory, and the hint that follows the watching of that directory covers it.

`NoEcho` is a matter of debts (`EchoInv`). A device may owe the log two versions: the
one it is about to submit or in conflict over, and the bytes on its disk when they
are not those it takes for known. `|Versions| + |Owed| <= 1 + edits + faults`: an
edit or a fault adds at most one debt, an accepted version settles one, and no other
step adds any. The debts are pairs of a device and a kind in one set, so the count is
for any number of devices.

`NoSilentOverwrite` needs that what a submission names as its base is no news to the
user (`BaseInv`): the entry is a deletion or a content the file had up to event
`seen`, except between the two writes of an applied event, when the disk is ahead
of the entry; and a local version that a conflict has moved aside is put back or
shared with what the entry was when it was moved. It is not inductive without the
exception for a torn replay, which is how that one was found.

`CaughtUp` of `RootLifecycle` (`KnowInv`) says of every point of a daemon how its entry
stands to its cursor: if the event at the cursor is a version of the active
incarnation, and the device was not cut short after it, the entry is that version
or a later one; it is an event of the log; a device's own events are not hidden
behind a snapshot's base when it takes that snapshot; a replay leaves the entry at
no earlier version than it has come by; the head a conflict fetched is not behind
the cursor; and an upload begins before its device has read its own root_add, so the events of
that upload are yet to come by. Each clause is there because a crash, a 410 or a
removal between two requests breaks the invariant without it.

Every safety invariant and action property of the passing runs is stated by a
theorem. Only model-checked are the liveness properties, which are out of TLAPS's
reach under fairness: `EventuallyKnown` and `HintsSuffice` (`EventStream`),
`EventuallySynced` (`ClientSync`), `ChangesGetPublished` (`WatchHints`) and
`LoopGetsThere` (`DeviceLifecycle`). The properties of the runs that expect a
violation are not theorems.

## 6. Not modelled

* Directory roots as trees, in `ClientSync` and `RootLifecycle`: several paths,
  path-type conflicts, the deletion of a root's directory
  (`handleDeletedRoot`). Both follow one file; `WatchHints` has a tree, and no
  second device.
* Several roots that share directories, links, moves of whole directories, and the
  staging files that the scanner passes over.
* The server's own administration beyond gc and purge: backup, restore,
  migrations, configuration.
* The client's state database beyond what its tables hold in the models: each of
  its methods is one SQLite transaction.
* Cryptography, path rules, parsing, the command line, metrics: functions without
  state, or output. Encryption is taken to be injective and authenticated,
  challenges and tokens to be unforgeable.
* Refused requests, which change nothing, in `ServerLog` and `DeviceLifecycle`.

## 7. Plan

In this order:

1. An abstract specification of a device (entry, cursor and the log they follow)
   that `ClientSync` and `RootLifecycle` both implement, so that what the one shows
   of a settled root is carried to the other by refinement.
2. Directory roots in `RootLifecycle`: two paths and the deleted root.
3. Liveness of `RootLifecycle`: an owed recovery ends; a conflict below the floor
   (`ConflictFails`) does not keep a file from being published for ever.
