----------------------------- MODULE WatchHints -----------------------------
(***************************************************************************)
(* How a change that a user makes under an active directory root reaches   *)
(* the rescan that publishes it (src/internal/client/watcher/watcher.go,   *)
(* src/internal/client/scanner/scanner.go and watchLoop and                *)
(* rescanRootHintWithRetry of src/internal/client/daemon/daemon.go).       *)
(*                                                                         *)
(* Four actors run side by side: the user; the watcher's goroutine, which  *)
(* takes the kernel's events, watches new directories and sends the path   *)
(* as a hint; the daemon's watchLoop, which merges the hints of a root     *)
(* until 500 ms have passed without one; and the rescans, one at a time,   *)
(* that scan below the merged hint, publish what differs from the index    *)
(* and walk the root again for directories that are not watched yet.  A    *)
(* scan, an upload and a walk read the disk one path after the other while *)
(* the user goes on.                                                       *)
(*                                                                         *)
(* A path is the sequence of its names below the root, <<>> the root       *)
(* itself.  The content of a file and the inode of a directory are the     *)
(* number of the edit that made it, 0 standing for "not there".            *)
(***************************************************************************)
EXTENDS Naturals, FiniteSets, SequencesExt

CONSTANTS
  Path,           \* the paths below the root, the root included
  Dir,            \* those that are directories whenever they exist
  Present,        \* those that are there when the daemon starts
  ChanCap,        \* places of changeCh (128 in the daemon)
  MaxEdits,       \* bound: edits of the user
  MaxFaults       \* bound: events that the kernel loses, rescans that fail,
                  \* and reconnections

ASSUME PathAssumption ==
  /\ Path \subseteq Seq(STRING)
  /\ <<>> \in Present
  /\ Dir \cup Present \subseteq Path
  /\ \A p \in Path : Prefixes(p) \ {p} \subseteq Dir
  /\ \A p \in Present : Prefixes(p) \subseteq Present
  /\ <<>> \in Dir
ASSUME BoundAssumption ==
  /\ ChanCap \in Nat \ {0}
  /\ {MaxEdits, MaxFaults} \subseteq Nat

VARIABLES
  disk,      \* what is there
  index,     \* the entries of the root: what was published last
  tracked,   \* rootDirs holds the root
  known,     \* dirRoots: the directories taken for watched
  watched,   \* the inode the kernel watches under a name, 0 for none
  events,    \* the kernel's and fsnotify's queue
  mgr,       \* the watcher's goroutine
  changeCh,  \* the hints on their way to watchLoop
  pending,   \* debouncedHints of the root: at most one
  timer,     \* debounced: the root's timer runs
  fired,     \* callbacks that have not taken the hint yet
  due,       \* hints of rescans that wait for syncMu
  scan,      \* the rescan that holds it
  lost,      \* changes that the code has let go of, see Lapses and GivenUp
  skipped,   \* directories that the watcher has not come to, see Lapses
  edits, faults   \* used up of MaxEdits and MaxFaults

world == <<disk, events, edits>>
watches == <<tracked, known, watched, skipped>>
debounce == <<pending, timer, fired>>
vars == <<world, index, watches, mgr, changeCh, debounce, due, scan, lost,
          faults>>

Event == [path : Path, op : {"create", "write", "remove", "overflow"}]

Idle == [pc |-> "idle", path |-> <<>>, todo |-> {}]
NoScan == [pc |-> "idle", hint |-> <<>>, left |-> {},
           found |-> [p \in Path |-> 0]]

Exists(p) == disk[p] # 0
Below(h) == {p \in Path : IsPrefix(h, p)}
ChildrenOf(d) ==
  {p \in Path : p # <<>> /\ Front(p) = d /\ Exists(p)}

\* A directory is published once; only that it is there counts.
ChangedSince(entries) ==
  {p \in Path : IF p \in Dir THEN Exists(p) # (entries[p] # 0)
                ELSE disk[p] # entries[p]}
Changed == ChangedSince(index)

\* What differs, or will when the rescan under way publishes what it has read.
Unsettled ==
  Changed \cup {p \in Path : /\ scan.pc \in {"scan", "delete", "put"}
                           /\ scan.found[p] # disk[p]}

\* The rescan under way will still come to p as it is now.
BeingRescanned(p) ==
  /\ IsPrefix(scan.hint, p)
  /\ \/ scan.pc = "scan" /\ \E a \in scan.left : IsPrefix(a, p)
     \/ scan.pc \in {"scan", "delete"} /\ scan.found[p] = disk[p]
     \/ scan.pc = "put" /\ p \in scan.left /\ Exists(p)

\* The kernel reports what happens in a directory whose inode it watches.
Observed(d) == Exists(d) /\ watched[d] = disk[d]

(***************************************************************************)
(* Lapses.  What a user does is noticed by nobody if, at that time, the    *)
(* root is not watched at all, or an enclosing directory                   *)
(*   - bears the name of a watched one and is another (watcher.go:91),     *)
(*   - was left out by a walk that was cut short (watcher.go:155), or made *)
(*     when the kernel lost events (watcher.go:164), and is not watched    *)
(*     before the next rescan ends, or                                     *)
(*   - has not been reached yet by the walk that ends a rescan, which      *)
(*     comes after its scan (daemon.go:2105).                              *)
(***************************************************************************)
OutOfSight(d) ==
  \/ ~tracked
  \/ \E a \in Dir :
       /\ IsPrefix(a, d)
       /\ \/ a \in known /\ ~Observed(a)
          \/ a \in skipped
          \/ scan.pc = "watch" /\ a \in scan.left
-----------------------------------------------------------------------------
(***************************************************************************)
(* The daemon starts: the root is in the database with the entries of its  *)
(* last run, nothing is watched and reconcileActiveRoots is about to       *)
(* rescan it.                                                              *)
(***************************************************************************)
Init ==
  /\ disk = [p \in Path |-> IF p \in Present THEN 1 ELSE 0]
  /\ index \in {disk, [p \in Path |-> 0]}
  /\ tracked = FALSE
  /\ known = {}
  /\ watched = [d \in Dir |-> 0]
  /\ events = <<>>
  /\ mgr = Idle
  /\ changeCh = <<>>
  /\ pending = {}
  /\ timer = FALSE
  /\ fired = 0
  /\ due = {<<>>}
  /\ scan = NoScan
  /\ lost = {}
  /\ skipped = {}
  /\ edits = 0
  /\ faults = 0
-----------------------------------------------------------------------------
(***************************************************************************)
(* The user.  An edit that the kernel observes is queued as an event, or   *)
(* the queue is full and the edit is one of those that IN_Q_OVERFLOW       *)
(* stands for.                                                             *)
(***************************************************************************)
Edit(p, content, op, observed) ==
  /\ edits < MaxEdits
  /\ edits' = edits + 1
  /\ disk' = [disk EXCEPT ![p] = content]
  /\ \/ /\ observed
        /\ events' = Append(events, [path |-> p, op |-> op])
        /\ lost' = lost \ {p}
        /\ UNCHANGED <<skipped, faults>>
     \/ /\ observed
        /\ faults < MaxFaults
        /\ faults' = faults + 1
        /\ events' = Append(events, [path |-> <<>>, op |-> "overflow"])
        /\ lost' = lost \ {p}
        /\ skipped' = IF op = "create" /\ p \in Dir THEN skipped \cup {p}
                      ELSE skipped
     \/ /\ ~observed
        /\ lost' = IF OutOfSight(Front(p)) THEN lost \cup {p} ELSE lost
        /\ UNCHANGED <<events, skipped, faults>>
  /\ UNCHANGED <<index, tracked, known, mgr, changeCh, debounce, due, scan>>

Write(p) ==
  /\ p \notin Dir
  /\ Exists(Front(p))
  /\ Edit(p, edits + 2, IF Exists(p) THEN "write" ELSE "create",
          Observed(Front(p)))
  /\ UNCHANGED watched

Mkdir(p) ==
  /\ p \in Dir \ {<<>>}
  /\ Exists(Front(p)) /\ ~Exists(p)
  /\ Edit(p, edits + 2, "create", Observed(Front(p)))
  /\ UNCHANGED watched

\* unlink or rmdir; the kernel drops the watch with the inode, dirRoots keeps
\* the name.
Unlink(p) ==
  /\ p # <<>> /\ Exists(p) /\ ChildrenOf(p) = {}
  /\ Edit(p, 0, "remove", Observed(Front(p)) \/ (p \in Dir /\ Observed(p)))
  /\ watched' = IF p \in Dir THEN [watched EXCEPT ![p] = 0] ELSE watched

User == \E p \in Path : Write(p) \/ Mkdir(p) \/ Unlink(p)
-----------------------------------------------------------------------------
(***************************************************************************)
(* A step of WalkDir with addDir: a name that dirRoots holds is taken for  *)
(* watched, whatever the kernel watches under it; any other is added.      *)
(* What is listed in the directory then is visited later.                  *)
(***************************************************************************)
AddDir(d) ==
  /\ known' = known \cup {d}
  /\ watched' = IF d \in known THEN watched
                ELSE [watched EXCEPT ![d] = disk[d]]
  /\ skipped' = skipped \ {d}

Rest(todo, d) == (todo \ {d}) \cup (ChildrenOf(d) \cap Dir)

(***************************************************************************)
(* The watcher's goroutine.  An event concerns the root if the root is     *)
(* tracked and an enclosing directory is in dirRoots; for a path below a   *)
(* root that exists, changesForMissingPath finds no more than that.        *)
(***************************************************************************)
RootsForEvent(path) == tracked /\ \E a \in known : IsPrefix(a, path)

Take ==
  /\ mgr.pc = "idle" /\ events # <<>>
  /\ events' = Tail(events)
  /\ LET e == Head(events) IN
     \/ /\ e.op = "overflow" /\ tracked                     \* notifyAllRoots
        /\ mgr' = [Idle EXCEPT !.pc = "notify"]
        /\ UNCHANGED lost
     \/ /\ e.op # "overflow" /\ RootsForEvent(e.path)
        /\ mgr' = IF e.op # "remove" /\ e.path \in Dir /\ Exists(e.path)
                  THEN [pc |-> "walk", path |-> e.path, todo |-> {e.path}]
                  ELSE [Idle EXCEPT !.pc = "notify", !.path = e.path]
        /\ UNCHANGED lost
     \/ /\ ~(IF e.op = "overflow" THEN tracked ELSE RootsForEvent(e.path))
        /\ lost' = lost \cup (Unsettled \cap Below(e.path))
        /\ UNCHANGED mgr
  /\ UNCHANGED <<disk, edits, index, watches, changeCh, debounce, due, scan,
                 faults>>

\* addDirTree for a new directory, whose error nobody looks at.
WalkNew(d) ==
  /\ mgr.pc = "walk" /\ d \in mgr.todo
  /\ \/ /\ Exists(d)
        /\ AddDir(d)
        /\ mgr' = [mgr EXCEPT !.todo = Rest(@, d),
                              !.pc = IF Rest(mgr.todo, d) = {} THEN "notify"
                                     ELSE "walk"]
     \/ /\ ~Exists(d)
        /\ skipped' = skipped \cup mgr.todo
        /\ mgr' = [mgr EXCEPT !.pc = "notify", !.todo = {}]
        /\ UNCHANGED <<known, watched>>
  /\ UNCHANGED <<world, index, tracked, changeCh, debounce, due, scan, lost,
                 faults>>

\* onChange: a full channel drops the hint.
RoomInChannel_offByOne == Len(changeCh) <= ChanCap
RoomInChannel == Len(changeCh) < ChanCap

Notify ==
  /\ mgr.pc = "notify"
  /\ mgr' = Idle
  /\ \/ /\ RoomInChannel
        /\ changeCh' = Append(changeCh, mgr.path)
        /\ UNCHANGED lost
     \/ /\ ~RoomInChannel
        /\ lost' = lost \cup (Unsettled \cap Below(mgr.path))
        /\ UNCHANGED changeCh
  /\ UNCHANGED <<world, index, watches, debounce, due, scan, faults>>

Manager == Take \/ (\E d \in Dir : WalkNew(d)) \/ Notify
-----------------------------------------------------------------------------
(***************************************************************************)
(* watchLoop.  Stop does not recall a callback that has already begun, so  *)
(* two may be on their way; the one that finds no hint has the empty one,  *)
(* the whole root.                                                         *)
(***************************************************************************)
MergeRescanHints_shorter(hints) ==
  CHOOSE h \in hints : \A g \in hints : Len(h) <= Len(g)
MergeRescanHints(hints) == LongestCommonPrefix(hints)

Receive_armsOnce ==
  /\ changeCh # <<>>
  /\ changeCh' = Tail(changeCh)
  /\ pending' = {MergeRescanHints(pending \cup {Head(changeCh)})}
  /\ timer' = (pending = {})
  /\ UNCHANGED <<world, index, watches, mgr, fired, due, scan, lost, faults>>

Receive ==
  /\ changeCh # <<>>
  /\ changeCh' = Tail(changeCh)
  /\ pending' = {MergeRescanHints(pending \cup {Head(changeCh)})}
  /\ timer' = TRUE
  /\ UNCHANGED <<world, index, watches, mgr, fired, due, scan, lost, faults>>

TimerFires ==
  /\ timer
  /\ timer' = FALSE
  /\ fired' = fired + 1
  /\ UNCHANGED <<world, index, watches, mgr, changeCh, pending, due, scan,
                 lost, faults>>

TakeHint ==
  /\ fired > 0
  /\ fired' = fired - 1
  /\ due' = due \cup (IF pending = {} THEN {<<>>} ELSE pending)
  /\ pending' = {}
  /\ UNCHANGED <<world, index, watches, mgr, changeCh, timer, scan, lost,
                 faults>>

\* The daemon reconnects: reconcileActiveRoots.
Reconnect ==
  /\ faults < MaxFaults
  /\ faults' = faults + 1
  /\ due' = due \cup {<<>>}
  /\ UNCHANGED <<world, index, watches, mgr, changeCh, debounce, scan, lost>>
-----------------------------------------------------------------------------
(***************************************************************************)
(* rescanRootHintWithRetry, under syncMu and mu: the scan, the deletions,  *)
(* the puts, the walk that adds watches.                                   *)
(***************************************************************************)
RescanStart(h) ==
  /\ scan.pc = "idle" /\ h \in due
  /\ due' = due \ {h}
  /\ scan' = [NoScan EXCEPT !.pc = "scan", !.hint = h, !.left = {h}]
  /\ UNCHANGED <<world, index, watches, mgr, changeCh, debounce, lost,
                 faults>>

(***************************************************************************)
(* One path of ScanSubtree: Lstat, and the hash of a file or the list of a *)
(* directory.  A path that has gone since it was listed ends the scan with *)
(* ErrNotExist, for which the caller cannot tell it from a hint that is    *)
(* not there: it goes on with an empty result.                             *)
(***************************************************************************)
ScanVisit(p) ==
  /\ scan.pc = "scan" /\ p \in scan.left
  /\ LET left == (scan.left \ {p})
                   \cup (IF p \in Dir THEN ChildrenOf(p) ELSE {})
     IN scan' =
          IF Exists(p)
          THEN [scan EXCEPT !.found[p] = disk[p], !.left = left,
                            !.pc = IF left = {} THEN "delete" ELSE "scan"]
          ELSE [NoScan EXCEPT !.pc = "delete", !.hint = scan.hint]
  /\ lost' = IF Exists(p) THEN lost ELSE lost \cup Below(scan.hint)
  /\ UNCHANGED <<world, index, watches, mgr, changeCh, debounce, due, faults>>

\* The entries under the hint, and those of them that the scan did not find.
FilterEntriesByHint == {p \in Below(scan.hint) : index[p] # 0}
Missing == {p \in FilterEntriesByHint : scan.found[p] = 0}

\* What the scan found that the entries do not have.
ToPut == {p \in Path : /\ scan.found[p] # 0
                       /\ \/ index[p] = 0
                          \/ p \notin Dir /\ index[p] # scan.found[p]}

DeleteEntry(p) ==
  /\ scan.pc = "delete" /\ p \in Missing
  /\ index' = [index EXCEPT ![p] = 0]
  /\ lost' = lost \cap (ChangedSince(index') \cup Missing \cup ToPut)
  /\ UNCHANGED <<world, watches, mgr, changeCh, debounce, due, scan, faults>>

DeletesDone ==
  /\ scan.pc = "delete" /\ Missing = {}
  /\ scan' = [scan EXCEPT !.pc = "put", !.left = ToPut]
  /\ UNCHANGED <<world, index, watches, mgr, changeCh, debounce, due, lost,
                 faults>>

\* Directories first; the content of a file is what the upload reads, and a
\* file that has gone ends the rescan.
Put(p) ==
  /\ scan.pc = "put" /\ p \in scan.left
  /\ p \in Dir \/ scan.left \cap Dir = {}
  /\ \/ /\ p \in Dir \/ Exists(p)
        /\ index' = [index EXCEPT ![p] = IF p \in Dir THEN scan.found[p]
                                         ELSE disk[p]]
        /\ scan' = [scan EXCEPT !.left = @ \ {p}]
        /\ lost' = lost \cap (ChangedSince(index') \cup scan'.left)
     \/ /\ p \notin Dir /\ ~Exists(p)
        /\ scan' = NoScan
        /\ lost' = lost \cup (Changed \cap scan.left)
        /\ UNCHANGED index
  /\ UNCHANGED <<world, watches, mgr, changeCh, debounce, due, faults>>

(***************************************************************************)
(* A scan fails on a file it may not read, for want of descriptors or on a *)
(* symbolic link (scanner.go:46-117), and the rescan returns the error     *)
(* (daemon.go:1927).  An upload or a submission fails: if the error is one *)
(* that may pass, queuePendingRootRescan stores a rescan of the root;      *)
(* after any other the rescan returns (daemon.go:1979, 2036, 2066, 2086).  *)
(* The hint is consumed, nobody but the log hears of it, and whatever the  *)
(* rescan had still to publish, and its walk, are given up.                *)
(***************************************************************************)
GivenUp == {p \in Changed : BeingRescanned(p)}

RescanFails ==
  /\ faults < MaxFaults
  /\ \/ scan.pc = "scan"
     \/ scan.pc = "delete" /\ Missing # {}
     \/ scan.pc = "put" /\ scan.left # {}
  /\ faults' = faults + 1
  /\ scan' = NoScan
  /\ \/ /\ scan.pc # "scan"                         \* isRetryableSyncError
        /\ due' = due \cup {<<>>}
        /\ UNCHANGED lost
     \/ /\ lost' = lost \cup GivenUp
        /\ UNCHANGED due
  /\ UNCHANGED <<world, index, watches, mgr, changeCh, debounce>>

\* addWatcherRoot: AddRoot walks the whole root.
AddRoot ==
  /\ scan.pc = "put" /\ scan.left = {}
  /\ tracked' = TRUE
  /\ scan' = [NoScan EXCEPT !.pc = "watch", !.left = {<<>>}]
  /\ UNCHANGED <<world, index, known, watched, skipped, mgr, changeCh,
                 debounce, due, lost, faults>>

\* A directory that has gone since it was listed makes AddRoot fail, and
\* RemoveRoot takes back every watch of the root.
WalkRoot(d) ==
  /\ scan.pc = "watch" /\ d \in scan.left
  /\ \/ /\ Exists(d)
        /\ AddDir(d)
        /\ scan' = IF Rest(scan.left, d) = {} THEN NoScan
                   ELSE [scan EXCEPT !.left = Rest(@, d)]
        /\ UNCHANGED tracked
     \/ /\ ~Exists(d)
        /\ tracked' = FALSE
        /\ known' = {}
        /\ watched' = [a \in Dir |-> 0]
        /\ skipped' = {}
        /\ scan' = NoScan
  /\ UNCHANGED <<world, index, mgr, changeCh, debounce, due, lost, faults>>

RescanStep ==
  \/ \E p \in Path : ScanVisit(p) \/ DeleteEntry(p) \/ Put(p)
  \/ DeletesDone \/ AddRoot
  \/ \E d \in Dir : WalkRoot(d)

Next ==
  \/ User \/ Manager
  \/ Receive \/ TimerFires \/ TakeHint
  \/ Reconnect \/ (\E h \in Path : RescanStart(h))
  \/ RescanStep \/ RescanFails

Spec == Init /\ [][Next]_vars

\* Goroutines, timers and a mutex that is handed on; the network may fail and
\* the user need do nothing.
Fairness ==
  /\ WF_vars(Manager)
  /\ WF_vars(Receive)
  /\ WF_vars(TimerFires)
  /\ WF_vars(TakeHint)
  /\ WF_vars(\E h \in Path : RescanStart(h))
  /\ WF_vars(RescanStep)

FairSpec == Spec /\ Fairness
-----------------------------------------------------------------------------
(***************************************************************************)
(* Properties.                                                             *)
(***************************************************************************)
TypeOK ==
  /\ disk \in [Path -> Nat] /\ index \in [Path -> Nat]
  /\ tracked \in BOOLEAN /\ known \subseteq Dir /\ watched \in [Dir -> Nat]
  /\ events \in Seq(Event)
  /\ mgr \in [pc : {"idle", "walk", "notify"}, path : Path, todo : SUBSET Dir]
  /\ changeCh \in Seq(Path) /\ Len(changeCh) <= ChanCap
  /\ pending \subseteq Path /\ Cardinality(pending) <= 1
  /\ timer \in BOOLEAN /\ fired \in Nat
  /\ due \subseteq Path
  /\ scan \in [pc : {"idle", "scan", "delete", "put", "watch"}, hint : Path,
               left : SUBSET Path, found : [Path -> Nat]]
  /\ lost \subseteq Path /\ skipped \subseteq Dir
  /\ edits \in Nat /\ faults \in Nat

\* Some stage on the way to a rescan holds a hint that covers p.
Announced(p) ==
  \/ \E i \in 1..Len(events) : IsPrefix(events[i].path, p)
  \/ mgr.pc # "idle" /\ IsPrefix(mgr.path, p)
  \/ \E i \in 1..Len(changeCh) : IsPrefix(changeCh[i], p)
  \/ (timer \/ fired > 0) /\ \E h \in pending : IsPrefix(h, p)
  \/ \E h \in due : IsPrefix(h, p)

\* Whatever differs between the disk and what was published is on its way to a
\* rescan: no merge of hints, no timer stopped in time or too late, no order of
\* walk, hint and scan leaves a change behind.  The exceptions are the lapses
\* that the code has: a hint dropped by a full changeCh (daemon.go:183), a scan
\* or an upload that met a vanished file (daemon.go:1930, 2061), a scan that
\* failed otherwise (1927), an upload or a submission refused for good (1979,
\* 2036, 2066, 2086), and an edit out of sight of the watches.
ChangesAreAnnounced ==
  \A p \in Changed : Announced(p) \/ BeingRescanned(p) \/ p \in lost

\* And it gets there: again and again, and for good once the user stops, all is
\* published but what was let go of in one of these ways, however long further
\* events prolong the debouncing and whatever a callback that Stop came too
\* late for does to the hint of the next.
ChangesGetPublished == []<>(Changed \subseteq lost)

\* A deletion is published only for what is gone: never for a path that is on
\* the disk exactly as it was published (daemon.go:1930).
DeletesOnlyTheGone ==
  [][\A p \in Path : index[p] # 0 /\ index[p] = disk[p] => index'[p] # 0]_vars
=============================================================================
