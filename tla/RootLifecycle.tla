--------------------------- MODULE RootLifecycle ---------------------------
(***************************************************************************)
(* The life of one root across devices: syna add, syna rm, and what the    *)
(* daemons of src/internal/client/daemon make of the root_add and          *)
(* root_remove events of the others - joining, blocking, staging,          *)
(* bootstrapping from a snapshot and recovering an initial sync that       *)
(* failed.                                                                 *)
(*                                                                         *)
(* The root is a single file, so that it has one path and its conflict     *)
(* copies stay on the device that made them.  Adding a removed root starts *)
(* a new incarnation, named by the sequence of its root_add.  The server   *)
(* is its event log and the latest snapshot of the root: module ServerLog  *)
(* shows that its tables are functions of the log and that one request at  *)
(* a time is a fair picture of it.  The workspace has no other root.       *)
(*                                                                         *)
(* A step is one request of a daemon with what it writes before the next   *)
(* one.  Users, the other devices and crashes come between steps.  What    *)
(* ClientSync shows for a settled root is not repeated: that a stream      *)
(* drops and reconnects needs no state here, because an idle daemon may at *)
(* any time begin what a new connection, a hint or a timer makes it do,    *)
(* and the failures of single requests are those of the initial sync and   *)
(* its recovery.                                                           *)
(***************************************************************************)
EXTENDS Naturals, Sequences, FiniteSets

CONSTANTS
  Device,
  Content,
  None,       \* no file
  MaxSteps,   \* bound on what the users do
  MaxFaults   \* bound on crashes and failed requests

ASSUME ConstantsAssumption ==
  /\ Device # {} /\ Content # {} /\ None \notin Content
  /\ MaxSteps \in Nat
  /\ MaxFaults \in Nat

VARIABLES
  log,       \* the server's events
  snap,      \* the root's latest snapshot: its base sequence and the file
  disk,      \* the file on each device
  copies,    \* the conflict copies on each device
  root,      \* state of the root in the roots table of each device
  snapSeq,   \* roots.latest_snapshot_seq
  entry,     \* the file's row of the entries table
  cursor,    \* last_server_seq
  recover,   \* the pending recover_initial_root operation
  staged,    \* the root is in stagedRoots, which is in memory only
  pc, job,   \* what the daemon is doing
  cut,       \* history: the next sequence when a daemon was last cut short,
             \* or when a root it had lost that way was added again
  steps, faults

vars == <<log, snap, disk, copies, root, snapSeq, entry, cursor, recover,
          staged, pc, job, cut, steps, faults>>

Server == <<log, snap>>
Files == <<disk, copies>>
Tables == <<root, snapSeq, entry, cursor, recover>>
Bounds == <<cut, steps, faults>>

File == Content \cup {None}
Event == [kind : {"add", "remove", "put", "delete"}, by : Device, content : File]
Entry == [seq : Nat, content : File]
Recovery == [queued : BOOLEAN, due : BOOLEAN, base : Nat]
Via == {"none", "first", "hint", "watch", "reconcile", "flush",
        "retry", "add1", "add2", "stage"}
Label == {"idle", "page", "bootstrap", "blocked", "replay", "scan", "conflict",
          "overtaken", "recover", "announce", "upload", "collide", "collision", "recheck",
          "verify", "publish", "confirm", "stage", "preserve"}
\* want: the incarnation a submission is bound to; at: a sequence; again: the
\* rescan may start over; back: a bootstrap returns to the rescan it broke into;
\* mine: what the initial sync uploaded.
Job == [via : Via, want : Nat, at : Nat, again : BOOLEAN, back : BOOLEAN,
        mine : Entry]

NoEntry == [seq |-> 0, content |-> None]
NoRecovery == [queued |-> FALSE, due |-> FALSE, base |-> 0]
Idle == [via |-> "none", want |-> 0, at |-> 0, again |-> FALSE, back |-> FALSE,
         mine |-> NoEntry]

-----------------------------------------------------------------------------
(* The server *)

IsRootEvent(s) == log[s].kind \in {"add", "remove"}

\* The newest root event, 0 if there is none.
LastRootEvent ==
  CHOOSE s \in 0 .. Len(log) :
    /\ s > 0 => IsRootEvent(s)
    /\ \A t \in (s + 1) .. Len(log) : ~IsRootEvent(t)

Active == LastRootEvent > 0 /\ log[LastRootEvent].kind = "add"

\* created_seq of the active root.
Created == IF Active THEN LastRootEvent ELSE 0

\* path_heads of the file; an incarnation begins without one.
PathHead == IF Active /\ Len(log) > Created THEN Len(log) ELSE 0

\* A root without a snapshot holds the floor at 0, no root leaves it at the head.
Floor == IF Active THEN snap.base ELSE Len(log)

NoSnapshot == [base |-> 0, content |-> None]

\* Mutant: no root, no case of its own.
BootstrapAfterSeq_noEmptyCase ==
  IF snap.base > 0 THEN snap.base ELSE Created - 1

\* bootstrap_after_seq: a device that begins there misses nothing.
BootstrapAfterSeq ==
  IF ~Active THEN Len(log)
  ELSE IF snap.base > 0 THEN snap.base ELSE Created - 1

AppendEvent(d, kind, c) ==
  log' = Append(log, [kind |-> kind, by |-> d, content |-> c])

\* Mutant: the incarnation that a submission names is not looked at.
Refused_anyIncarnation(want) == ~Active

\* No such root, or not the incarnation that the submission names.
Refused(want) == ~Active \/ want \notin {0, Created}

Conflicts(base) == IF PathHead = 0 THEN base # 0 ELSE PathHead > base

Broken == faults < MaxFaults /\ faults' = faults + 1

-----------------------------------------------------------------------------
(* Control *)

Goto(d, label) == pc' = [pc EXCEPT ![d] = label]

Rest(d) ==
  /\ Goto(d, "idle")
  /\ job' = [job EXCEPT ![d] = Idle]

CatchUp(d, via) ==
  /\ Goto(d, "page")
  /\ job' = [job EXCEPT ![d] = [Idle EXCEPT !.via = via, !.want = job[d].want,
                                            !.mine = job[d].mine]]

Rescan(d, via, want) ==
  /\ Goto(d, "scan")
  /\ job' = [job EXCEPT ![d].via = via, ![d].want = want, ![d].again = TRUE]

\* A rescan that stands for an initial sync submits what it finds even if the
\* entries agree.
Forced(d) == job[d].via \in {"flush", "retry", "add1"}

Adding(d) == job[d].via \in {"add1", "add2", "stage"}

\* The pending recovery is finished, and the operations that came before it
\* in the session go on.
Recovered(d) ==
  /\ recover' = [recover EXCEPT ![d] = NoRecovery]
  /\ Goto(d, "page")
  /\ job' = [job EXCEPT ![d] =
       [Idle EXCEPT !.via = IF job[d].via = "flush" THEN "first" ELSE "hint"]]

\* A step of the daemon that is not a finished catch-up has failed.
Fail(d) ==
  /\ recover' = [recover EXCEPT ![d].due = @ /\ job[d].via \notin {"flush", "retry"}]
  /\ IF Adding(d) THEN Goto(d, "preserve") /\ UNCHANGED job ELSE Rest(d)

-----------------------------------------------------------------------------
(* Users, crashes and idle daemons *)

UserWrites(d) ==
  /\ steps < MaxSteps
  /\ steps' = steps + 1
  /\ \E c \in File \ {disk[d]} : disk' = [disk EXCEPT ![d] = c]
  /\ UNCHANGED <<Server, copies, Tables, staged, pc, job, cut, faults>>

\* What the daemon does must not end here, for nothing brings a later one back
\* to it: until a root_add has been answered no recovery is queued, and a root
\* that is being unblocked is active before its events have been replayed.
Unguarded(d) ==
  \/ job[d].want = 0 /\ pc[d] \in {"announce", "preserve"}
  \/ pc[d] = "replay"

CutShort(d) == cut' = [cut EXCEPT ![d] = Len(log) + 1]

\* The daemon dies and starts again.
Crash(d) ==
  /\ pc[d] # "idle" \/ staged[d]
  /\ Broken
  /\ IF Unguarded(d) THEN CutShort(d) ELSE UNCHANGED cut
  /\ staged' = [staged EXCEPT ![d] = FALSE]
  /\ Rest(d)
  /\ UNCHANGED <<Server, Files, Tables, steps>>

\* syncAndStream begins with the queue; only an operation that is due is run.
Connect(d) ==
  /\ pc[d] = "idle"
  /\ IF recover[d].due
       THEN /\ Goto(d, "recover")
            /\ job' = [job EXCEPT ![d].via = "flush"]
       ELSE CatchUp(d, "first")
  /\ UNCHANGED <<Server, Files, Tables, staged, Bounds>>

Hint(d) ==
  /\ pc[d] = "idle" /\ cursor[d] < Len(log)
  /\ CatchUp(d, "hint")
  /\ UNCHANGED <<Server, Files, Tables, staged, Bounds>>

\* The watcher reports a change; a staged root is left to the next connection.
Watch(d) ==
  /\ pc[d] = "idle" /\ root[d] = "active" /\ ~staged[d]
  /\ disk[d] # entry[d].content
  /\ Rescan(d, "watch", 0)
  /\ UNCHANGED <<Server, Files, Tables, staged, Bounds>>

RetryPending(d) ==
  /\ pc[d] = "idle" /\ recover[d].due
  /\ Goto(d, "recover")
  /\ job' = [job EXCEPT ![d].via = "retry"]
  /\ UNCHANGED <<Server, Files, Tables, staged, Bounds>>

PendingFallsDue(d) ==
  /\ recover[d].queued /\ ~recover[d].due
  /\ recover' = [recover EXCEPT ![d].due = TRUE]
  /\ UNCHANGED <<Server, Files, root, snapSeq, entry, cursor, staged, pc, job,
                 Bounds>>

\* blockedRetryLoop: every thirty seconds.
RetryBlocked(d) ==
  /\ pc[d] = "idle" /\ root[d] = "blocked"
  /\ Goto(d, "blocked")
  /\ job' = [job EXCEPT ![d].via = "hint"]
  /\ UNCHANGED <<Server, Files, Tables, staged, Bounds>>

-----------------------------------------------------------------------------
(* What a root event and a snapshot do to a device *)

\* markRootRemoved.  The file stays.
MarkRemoved(d) ==
  /\ root' = [root EXCEPT ![d] = "removed"]
  /\ staged' = [staged EXCEPT ![d] = FALSE]
  /\ entry' = [entry EXCEPT ![d] = NoEntry]
  /\ recover' = [recover EXCEPT ![d] = NoRecovery]

\* ensureRootFromDescriptor.  A root that the device had before is taken over
\* whatever is on its disk, a new one only if nothing is in its place.
StateAfterAdd(d) ==
  IF root[d] \in {"active", "removed"} \/ disk[d] = None THEN "active"
                                                         ELSE "blocked"

StagedAfterAdd(d) ==
  root[d] = "removed" \/ (root[d] = "active" /\ staged[d])

EnsureRoot(d, base) ==
  /\ root' = [root EXCEPT ![d] = StateAfterAdd(d)]
  /\ staged' = [staged EXCEPT ![d] = StagedAfterAdd(d)]
  /\ snapSeq' = [snapSeq EXCEPT ![d] = base]

\* What applySnapshot takes to be on the disk before it: nothing while staged.
Baseline(d) == IF StagedAfterAdd(d) THEN None ELSE entry[d].content

\* applySnapshot keeps an edit of the version that the snapshot has, replaces
\* the version last synced, and moves anything else out of the way.
ApplySnapshot(d) ==
  LET c == snap.content
      keep == StagedAfterAdd(d) \/ (disk[d] # None /\ Baseline(d) = c)
      diverged == ~keep /\ disk[d] \notin {None, c, Baseline(d)}
  IN
  /\ disk' = [disk EXCEPT ![d] = IF keep THEN @ ELSE c]
  /\ copies' = [copies EXCEPT ![d] = IF diverged THEN @ \cup {disk[d]} ELSE @]
  /\ entry' = [entry EXCEPT ![d] =
                 [seq |-> IF Baseline(d) = c THEN @.seq ELSE snap.base,
                  content |-> c]]

\* EnsureRoot for a root of a bootstrap reply, with its snapshot.
TakeOver(d) ==
  /\ EnsureRoot(d, snap.base)
  /\ IF StateAfterAdd(d) = "active" /\ snap.base > 0
       THEN ApplySnapshot(d)
       ELSE UNCHANGED <<disk, copies, entry>>

\* ApplyEvent for the file.  A delete that names the root itself is rejected
\* as out of bounds, logged and passed over.
ApplyContent(d, s) ==
  IF root[d] # "active" \/ log[s].kind = "delete"
    THEN UNCHANGED <<disk, entry>>
    ELSE /\ entry' = [entry EXCEPT ![d] = [seq |-> s, content |-> log[s].content]]
         /\ disk' = [disk EXCEPT ![d] = IF staged[d] THEN @ ELSE log[s].content]

\* applyRemoteEvent.
Apply(d, s) ==
  /\ \/ /\ log[s].kind = "add"
        /\ EnsureRoot(d, 0)
        /\ UNCHANGED <<disk, entry, recover>>
     \/ /\ log[s].kind = "remove" /\ root[d] # "none"
        /\ MarkRemoved(d)
        /\ UNCHANGED <<disk, snapSeq>>
     \/ /\ log[s].kind = "remove" /\ root[d] = "none"
        /\ UNCHANGED <<disk, root, staged, snapSeq, entry, recover>>
     \/ /\ ~IsRootEvent(s)
        /\ ApplyContent(d, s)
        /\ UNCHANGED <<root, staged, snapSeq, recover>>
  /\ UNCHANGED copies

-----------------------------------------------------------------------------
(* Catch-up, bootstrap and blocked roots *)

\* Mutant: what this device wrote is never applied to it.
Materialized_own(d, s) == TRUE

\* The effect of an own event is there: it is not applied again.
Materialized(d, s) ==
  CASE log[s].kind = "add" -> root[d] = "active"
    [] log[s].kind = "remove" -> root[d] \in {"none", "removed"}
    [] OTHER -> \/ root[d] # "active"
                \/ snapSeq[d] >= s
                \/ entry[d].seq >= s

\* consumeRemoteEvent for the event after the cursor.
Consume(d) ==
  LET s == cursor[d] + 1 IN
  /\ pc[d] = "page" /\ Floor <= cursor[d] /\ cursor[d] < Len(log)
  /\ IF log[s].by = d /\ Materialized(d, s)
       THEN UNCHANGED <<Files, root, snapSeq, entry, recover, staged>>
       ELSE Apply(d, s)
  /\ cursor' = [cursor EXCEPT ![d] = s]
  /\ UNCHANGED <<Server, pc, job, Bounds>>

\* The events after the cursor are no longer kept.
Resync(d) ==
  /\ pc[d] = "page" /\ cursor[d] < Floor
  /\ Goto(d, "bootstrap")
  /\ UNCHANGED <<Server, Files, Tables, staged, job, Bounds>>

\* Mutant: roots that the reply does not name are left alone.
DropRoot_forgotten(d) == UNCHANGED <<root, staged, entry, recover>>

\* A root that the reply does not name.
DropRoot(d) ==
  IF root[d] \in {"active", "blocked"}
    THEN MarkRemoved(d)
    ELSE UNCHANGED <<root, staged, entry, recover>>

Bootstrap(d) ==
  /\ pc[d] = "bootstrap"
  /\ IF Active THEN TakeOver(d) /\ UNCHANGED recover
               ELSE DropRoot(d) /\ UNCHANGED <<Files, snapSeq>>
  /\ cursor' = [cursor EXCEPT ![d] = BootstrapAfterSeq]
  /\ Goto(d, "page")
  /\ UNCHANGED <<Server, job, Bounds>>

\* What follows the first catch-up of a session.
Reconcile(d) ==
  CASE root[d] = "blocked" -> Goto(d, "blocked") /\ UNCHANGED job
    [] root[d] = "active" -> Rescan(d, "reconcile", 0)
    [] OTHER -> Rest(d)

\* The cursor has reached the head: on to what comes next.
CaughtUpOn(d) ==
  LET via == job[d].via IN
  /\ pc[d] = "page" /\ cursor[d] = Len(log)
  /\ \/ /\ job[d].back
        /\ Goto(d, "scan")
        /\ job' = [job EXCEPT ![d].back = FALSE, ![d].again = FALSE]
        /\ UNCHANGED recover
     \/ /\ ~job[d].back
        /\ \/ via = "first" /\ Reconcile(d) /\ UNCHANGED recover
           \/ via = "hint" /\ Rest(d) /\ UNCHANGED recover
           \/ via \in {"flush", "retry"} /\ Recovered(d)
           \/ via = "add1" /\ Goto(d, "verify") /\ UNCHANGED <<job, recover>>
           \/ via = "add2" /\ Goto(d, "confirm") /\ UNCHANGED <<job, recover>>
           \/ /\ via = "stage"
              /\ \/ Goto(d, "preserve")
                 \/ Created # job[d].at /\ Goto(d, "stage")
              /\ UNCHANGED <<job, recover>>
  /\ UNCHANGED <<Server, Files, root, snapSeq, entry, cursor, staged, Bounds>>

\* What follows retryBlockedRoots.
AfterBlocked(d) ==
  IF job[d].via = "first" THEN Rescan(d, "reconcile", 0) ELSE Rest(d)

\* retryBlockedRoots: a blocked root is tried again.
Unblock(d) ==
  /\ pc[d] = "blocked"
  /\ IF root[d] = "blocked" /\ Active
       THEN /\ TakeOver(d)
            /\ IF StateAfterAdd(d) = "active"
                 THEN /\ Goto(d, "replay")
                      /\ job' = [job EXCEPT ![d].at = snap.base]
                 ELSE AfterBlocked(d)
       ELSE /\ AfterBlocked(d)
            /\ UNCHANGED <<Files, root, snapSeq, entry, staged>>
  /\ UNCHANGED <<Server, cursor, recover, Bounds>>

\* catchUpRootFrom: the events after the snapshot, whatever the cursor says.
Replay(d) ==
  LET s == job[d].at + 1 IN
  /\ pc[d] = "replay"
  /\ \/ /\ Floor <= job[d].at /\ s <= Len(log)
        /\ Apply(d, s)
        /\ job' = [job EXCEPT ![d].at = s]
        /\ UNCHANGED <<pc, cut>>
     \/ /\ Floor <= job[d].at /\ s > Len(log)
        /\ AfterBlocked(d)
        /\ UNCHANGED <<Files, root, snapSeq, entry, recover, staged, cut>>
     \/ /\ job[d].at < Floor
        /\ CutShort(d)
        /\ Rest(d)
        /\ UNCHANGED <<Files, root, snapSeq, entry, recover, staged>>
  /\ UNCHANGED <<Server, cursor, steps, faults>>

\* A page of events, or what it takes to apply one, does not come.
PageFails(d) ==
  /\ pc[d] = "page" /\ (Forced(d) \/ Adding(d))
  /\ Broken
  /\ Fail(d)
  /\ UNCHANGED <<Server, Files, root, snapSeq, entry, cursor, staged, cut, steps>>

-----------------------------------------------------------------------------
(* Rescan and conflicts *)

\* The end of a rescan: the local file counts as reconciled with the staged one.
\* A session then catches up twice, of which one is left out.
FinishRescan(d) ==
  /\ staged' = [staged EXCEPT ![d] = FALSE]
  /\ CatchUp(d, IF job[d].via \in {"reconcile", "watch"} THEN "hint" ELSE job[d].via)

\* The root is not there to be rescanned.
SkipRescan(d) ==
  /\ pc[d] = "scan" /\ root[d] # "active"
  /\ CASE job[d].via \in {"reconcile", "watch"} -> CatchUp(d, "hint") /\ UNCHANGED recover
       [] job[d].via = "add1" -> Fail(d)
       [] OTHER -> Recovered(d)
  /\ UNCHANGED <<Server, Files, root, snapSeq, entry, cursor, staged, Bounds>>

Nothing(d) ==
  disk[d] = entry[d].content /\ (disk[d] = None \/ ~Forced(d))

\* The server takes the file as it is on the disk.
Submit(d) ==
  AppendEvent(d, IF disk[d] = None THEN "delete" ELSE "put", disk[d])

NewEntry(d) == [seq |-> Len(log) + 1, content |-> disk[d]]

\* The file is compared with its entry, uploaded and submitted.
Scan(d) ==
  LET refused == Refused(job[d].want)
      conflicts == ~refused /\ Conflicts(entry[d].seq)
  IN
  /\ pc[d] = "scan" /\ root[d] = "active"
  /\ \/ /\ Nothing(d)
        /\ FinishRescan(d)
        /\ UNCHANGED <<log, entry, recover, faults>>
     \/ /\ ~Nothing(d) /\ ~refused /\ ~conflicts
        /\ Submit(d)
        /\ entry' = [entry EXCEPT ![d] = NewEntry(d)]
        /\ FinishRescan(d)
        /\ UNCHANGED <<recover, faults>>
     \/ /\ ~Nothing(d) /\ conflicts
        /\ IF disk[d] = None /\ ~job[d].again
             THEN Fail(d)
             ELSE /\ Goto(d, IF disk[d] = None THEN "overtaken" ELSE "conflict")
                  /\ job' = [job EXCEPT ![d].at = PathHead]
                  /\ UNCHANGED recover
        /\ UNCHANGED <<log, entry, staged, faults>>
     \/ /\ ~Nothing(d) /\ refused
        /\ Fail(d)
        /\ UNCHANGED <<log, entry, staged, faults>>
     \/ /\ ~Nothing(d) /\ Forced(d)
        /\ Broken
        /\ \/ UNCHANGED log
           \/ ~refused /\ ~conflicts /\ Submit(d)
        /\ Fail(d)
        /\ UNCHANGED <<entry, staged>>
  /\ UNCHANGED <<snap, Files, root, snapSeq, cursor, cut, steps>>

\* applyCurrentRemoteHead: the deletion is dropped and the rescan starts over.
Overtaken(d) ==
  LET at == job[d].at IN
  /\ pc[d] = "overtaken"
  /\ IF at > 0 /\ at <= Floor
       THEN /\ Goto(d, "bootstrap")
            /\ job' = [job EXCEPT ![d].back = TRUE]
       ELSE /\ Goto(d, "scan")
            /\ job' = [job EXCEPT ![d].again = FALSE]
  /\ IF at > Floor THEN ApplyContent(d, at) ELSE UNCHANGED <<disk, entry>>
  /\ UNCHANGED <<Server, copies, root, snapSeq, cursor, recover, staged, Bounds>>

\* Where a resolved conflict leads.
AfterConflict(d) ==
  CASE pc[d] = "collision" -> Goto(d, "recheck") /\ UNCHANGED <<job, staged>>
    [] pc[d] = "conflict" /\ Forced(d) -> /\ Rescan(d, job[d].via, job[d].want)
                                          /\ UNCHANGED staged
    [] pc[d] = "conflict" /\ ~Forced(d) /\ job[d].again ->
         /\ Goto(d, "scan")
         /\ job' = [job EXCEPT ![d].again = FALSE]
         /\ UNCHANGED staged
    [] OTHER -> FinishRescan(d)

\* resolveFileConflict when the head cannot be had: it is unknown, or older than
\* what is kept, or the local file is gone.
ConflictFails(d) ==
  /\ pc[d] \in {"conflict", "collision"}
  /\ job[d].at <= Floor \/ disk[d] = None
  /\ Fail(d)
  /\ UNCHANGED <<Server, Files, root, snapSeq, entry, cursor, staged, Bounds>>

\* The head that won is applied; the local file goes back when the head is a
\* deletion or what the file was edited from, and to a copy otherwise.
Resolve(d) ==
  LET at == job[d].at
      mine == disk[d]
      head == IF log[at].kind = "delete" THEN entry[d]
              ELSE [seq |-> at, content |-> log[at].content]
      there == IF log[at].kind = "delete" \/ staged[d] THEN mine
               ELSE log[at].content
      newer == /\ entry[d].content \notin {None, mine}
               /\ head.content = entry[d].content
      Copy(left) ==
        /\ copies' = [copies EXCEPT ![d] = @ \cup {mine}]
        /\ disk' = [disk EXCEPT ![d] = left]
        /\ entry' = [entry EXCEPT ![d] = head]
        /\ AfterConflict(d)
        /\ UNCHANGED <<log, recover>>
  IN
  /\ pc[d] \in {"conflict", "collision"} /\ job[d].at > Floor /\ mine # None
  /\ \/ /\ head.content \in {None, mine}
        /\ entry' = [entry EXCEPT ![d] = head]
        /\ AfterConflict(d)
        /\ UNCHANGED <<log, Files, recover>>
     \/ /\ newer /\ ~Refused(job[d].want) /\ ~Conflicts(head.seq)
        /\ Submit(d)
        /\ entry' = [entry EXCEPT ![d] = NewEntry(d)]
        /\ AfterConflict(d)
        /\ UNCHANGED <<Files, recover>>
     \/ /\ newer /\ Refused(job[d].want)
        /\ entry' = [entry EXCEPT ![d] = head]
        /\ Fail(d)
        /\ UNCHANGED <<log, Files, staged>>
     \/ newer /\ ~Refused(job[d].want) /\ Conflicts(head.seq) /\ Copy(mine)
     \/ head.content \notin {None, mine} /\ ~newer /\ Copy(there)
  /\ UNCHANGED <<snap, root, snapSeq, cursor, Bounds>>
-----------------------------------------------------------------------------
(* Recovery of an initial sync: recoverPendingInitialRoot *)

\* Mutant: any active root is taken for the one this device added.
OwnIncarnation_active(d, base) == Active

\* The active root is the one that the initial sync added.  If the answer to its
\* root_add never came, the author of the root_add decides.
OwnIncarnation(d, base) ==
  Active /\ IF base > 0 THEN Created = base ELSE log[Created].by = d

\* The root_add that has to be looked at is no longer kept.
AuthorUnknown(base) == base = 0 /\ Created <= Floor

Recover(d) ==
  LET base == recover[d].base IN
  /\ pc[d] = "recover"
  /\ \/ /\ root[d] # "active"
        /\ Recovered(d)
        /\ UNCHANGED <<root, entry, staged, faults>>
     \/ /\ root[d] = "active" /\ ~Active
        /\ MarkRemoved(d)
        /\ Recovered(d)
        /\ UNCHANGED faults
     \/ /\ root[d] = "active" /\ Active /\ ~AuthorUnknown(base)
        /\ ~OwnIncarnation(d, base)
        /\ staged' = [staged EXCEPT ![d] = TRUE]
        /\ Recovered(d)
        /\ UNCHANGED <<root, entry, faults>>
     \/ /\ root[d] = "active" /\ Active /\ ~AuthorUnknown(base)
        /\ OwnIncarnation(d, base) /\ disk[d] # None
        /\ Rescan(d, job[d].via, Created)
        /\ UNCHANGED <<root, entry, recover, staged, faults>>
     \/ /\ root[d] = "active"
        /\ \/ Active /\ (AuthorUnknown(base) \/ disk[d] = None) /\ UNCHANGED faults
           \/ Broken
        /\ Fail(d)
        /\ UNCHANGED <<root, entry, staged>>
  /\ UNCHANGED <<Server, Files, snapSeq, cursor, cut, steps>>

-----------------------------------------------------------------------------
(* syna add and syna rm *)

AddFails(d) == Goto(d, "preserve") /\ UNCHANGED job

\* The root is recorded before anybody else hears of it.  That the workspace has
\* it already is only found out later.  If the device has read about it and is
\* without it all the same, for it was cut short while it unblocked the root,
\* then it has passed over what there is of it by now.
AddRoot(d) ==
  /\ pc[d] = "idle" /\ root[d] \in {"none", "removed"} /\ disk[d] # None
  /\ steps < MaxSteps
  /\ steps' = steps + 1
  /\ root' = [root EXCEPT ![d] = "active"]
  /\ snapSeq' = [snapSeq EXCEPT ![d] = 0]
  /\ Goto(d, "announce")
  /\ job' = [job EXCEPT ![d].via = "add1"]
  /\ IF Active /\ LastRootEvent <= cursor[d] THEN CutShort(d) ELSE UNCHANGED cut
  /\ UNCHANGED <<Server, Files, entry, cursor, recover, staged, faults>>

AppendRootAdd(d) == AppendEvent(d, "add", None) /\ snap' = NoSnapshot

\* root_add.
Announce(d) ==
  /\ pc[d] = "announce"
  /\ \/ /\ Active
        /\ AddFails(d)
        /\ UNCHANGED <<Server, faults>>
     \/ /\ ~Active
        /\ AppendRootAdd(d)
        /\ job' = [job EXCEPT ![d].want = Len(log) + 1]
        /\ Goto(d, "upload")
        /\ UNCHANGED faults
     \/ /\ Broken
        /\ \/ UNCHANGED Server
           \/ ~Active /\ AppendRootAdd(d)
        /\ AddFails(d)
  /\ UNCHANGED <<Files, Tables, staged, cut, steps>>

\* submitInitialRootEntries for the file, as it is by now.
Upload(d) ==
  LET refused == Refused(job[d].want) IN
  /\ pc[d] = "upload"
  /\ \/ /\ disk[d] # None /\ ~refused /\ PathHead = 0
        /\ Submit(d)
        /\ entry' = [entry EXCEPT ![d] = NewEntry(d)]
        /\ Goto(d, "page")
        /\ job' = [job EXCEPT ![d].mine = NewEntry(d)]
        /\ UNCHANGED faults
     \/ /\ disk[d] # None /\ ~refused /\ PathHead > 0
        /\ entry' = [entry EXCEPT ![d] = NoEntry]
        /\ Goto(d, "collide")
        /\ job' = [job EXCEPT ![d].at = PathHead]
        /\ UNCHANGED <<log, faults>>
     \/ /\ \/ (disk[d] = None \/ refused) /\ UNCHANGED <<log, faults>>
           \/ /\ Broken
              /\ \/ UNCHANGED log
                 \/ disk[d] # None /\ ~refused /\ PathHead = 0 /\ Submit(d)
        /\ entry' = [entry EXCEPT ![d] = NoEntry]
        /\ AddFails(d)
  /\ UNCHANGED <<snap, Files, root, snapSeq, cursor, recover, staged, cut, steps>>

\* remoteRootIncarnation, asked by each of the steps below.  A failure is an
\* error of the add, except before the publication of the snapshot.
Asks(d, label) ==
  /\ pc[d] = label
  /\ UNCHANGED <<Server, Files, Tables, cut, steps>>

StillMine(d) == Active /\ Created = job[d].want
Replaced(d) == Active /\ Created # job[d].want

\* Another device was first to put a file into the new root.
Collide(d) ==
  /\ Asks(d, "collide")
  /\ \/ StillMine(d) /\ Goto(d, "collision") /\ UNCHANGED <<job, staged, faults>>
     \/ /\ Replaced(d)
        /\ staged' = [staged EXCEPT ![d] = TRUE]
        /\ AddFails(d)
        /\ UNCHANGED faults
     \/ ~Active /\ AddFails(d) /\ UNCHANGED <<staged, faults>>
     \/ Broken /\ AddFails(d) /\ UNCHANGED staged

\* reconcileInitialRoot begins.
Recheck(d) ==
  /\ Asks(d, "recheck")
  /\ UNCHANGED staged
  /\ \/ /\ StillMine(d) /\ disk[d] # None
        /\ Rescan(d, "add1", job[d].want)
        /\ UNCHANGED faults
     \/ Replaced(d) /\ Goto(d, "stage") /\ UNCHANGED <<job, faults>>
     \/ ~Active /\ AddFails(d) /\ UNCHANGED faults
     \/ StillMine(d) /\ disk[d] = None /\ AddFails(d) /\ UNCHANGED faults
     \/ Broken /\ AddFails(d)

\* The last look before the snapshot, which is left out if the entry is not what
\* was uploaded.
Verify(d) ==
  /\ Asks(d, "verify")
  /\ UNCHANGED staged
  /\ \/ root[d] # "active" /\ AddFails(d) /\ UNCHANGED faults
     \/ /\ root[d] = "active" /\ StillMine(d)
        /\ IF job[d].mine.seq > 0 /\ entry[d] = job[d].mine
             THEN Goto(d, "publish") /\ UNCHANGED job
             ELSE CatchUp(d, "add2")
        /\ UNCHANGED faults
     \/ root[d] = "active" /\ Replaced(d) /\ Goto(d, "stage") /\ UNCHANGED <<job, faults>>
     \/ root[d] = "active" /\ ~Active /\ AddFails(d) /\ UNCHANGED faults
     \/ root[d] = "active" /\ Broken /\ CatchUp(d, "add2")

\* Mutant: a snapshot of an earlier incarnation is taken.
SnapshotAccepted_anyIncarnation(base) == Active /\ base >= snap.base

\* SaveSnapshot.
SnapshotAccepted(base) ==
  /\ Active
  /\ base >= Created /\ base >= snap.base /\ base <= Len(log)

\* publishInitialSnapshot; that it failed is only logged.
Publish(d) ==
  LET mine == job[d].mine IN
  /\ pc[d] = "publish"
  /\ \/ /\ SnapshotAccepted(mine.seq)
        /\ snap' = [base |-> mine.seq, content |-> mine.content]
        /\ UNCHANGED faults
     \/ /\ ~SnapshotAccepted(mine.seq)
        /\ UNCHANGED <<snap, faults>>
     \/ Broken /\ UNCHANGED snap
  /\ CatchUp(d, "add2")
  /\ UNCHANGED <<log, Files, Tables, staged, cut, steps>>

\* The add is done, unless the root is not the one that was added any more.
Confirm(d) ==
  /\ Asks(d, "confirm")
  /\ UNCHANGED staged
  /\ \/ root[d] = "active" /\ StillMine(d) /\ ~staged[d] /\ Rest(d) /\ UNCHANGED faults
     \/ /\ root[d] # "active" \/ ~Active \/ (staged[d] /\ StillMine(d))
        /\ AddFails(d)
        /\ UNCHANGED faults
     \/ root[d] = "active" /\ Replaced(d) /\ Goto(d, "stage") /\ UNCHANGED <<job, faults>>
     \/ Broken /\ AddFails(d)

\* stageReplacedRootAfterInitialSync: the new incarnation is fetched staged.
Stage(d) ==
  /\ Asks(d, "stage")
  /\ \/ /\ Active
        /\ staged' = [staged EXCEPT ![d] = TRUE]
        /\ Goto(d, "page")
        /\ job' = [job EXCEPT ![d].via = "stage", ![d].at = Created]
        /\ UNCHANGED faults
     \/ ~Active /\ AddFails(d) /\ UNCHANGED <<staged, faults>>
     \/ Broken /\ AddFails(d) /\ UNCHANGED staged

\* preserveInitialRootRecovery: what an add that failed leaves behind.
Preserve(d) ==
  LET want == job[d].want IN
  /\ pc[d] = "preserve"
  /\ IF root[d] # "active" THEN UNCHANGED <<recover, staged, faults>>
     ELSE /\ recover' = [recover EXCEPT ![d] = [queued |-> TRUE, due |-> TRUE, base |-> want]]
          /\ \/ /\ staged' = [staged EXCEPT ![d] =
                               @ \/ (Active /\ (AuthorUnknown(want) \/ ~OwnIncarnation(d, want)))]
                /\ UNCHANGED faults
             \/ Broken /\ UNCHANGED staged
  /\ Rest(d)
  /\ UNCHANGED <<Server, Files, root, snapSeq, entry, cursor, cut, steps>>

\* syna rm, on any device that has the root.
RemoveRoot(d) ==
  /\ pc[d] = "idle" /\ root[d] \in {"active", "blocked"} /\ Active
  /\ steps < MaxSteps
  /\ steps' = steps + 1
  /\ AppendEvent(d, "remove", None)
  /\ snap' = NoSnapshot
  /\ CatchUp(d, "hint")
  /\ UNCHANGED <<Files, Tables, staged, cut, faults>>
-----------------------------------------------------------------------------
Init ==
  /\ log = <<>>
  /\ snap = NoSnapshot
  /\ disk \in [Device -> File]
  /\ copies = [d \in Device |-> {}]
  /\ root = [d \in Device |-> "none"]
  /\ snapSeq = [d \in Device |-> 0]
  /\ entry = [d \in Device |-> NoEntry]
  /\ cursor = [d \in Device |-> 0]
  /\ recover = [d \in Device |-> NoRecovery]
  /\ staged = [d \in Device |-> FALSE]
  /\ pc = [d \in Device |-> "idle"]
  /\ job = [d \in Device |-> Idle]
  /\ cut = [d \in Device |-> 0]
  /\ steps = 0
  /\ faults = 0

Begin(d) ==
  Connect(d) \/ Hint(d) \/ Watch(d) \/ RetryPending(d) \/ RetryBlocked(d)

CatchUpStep(d) ==
  \/ Consume(d) \/ Resync(d) \/ Bootstrap(d) \/ CaughtUpOn(d) \/ PageFails(d)
  \/ Unblock(d) \/ Replay(d)

RescanStep(d) ==
  \/ SkipRescan(d) \/ Scan(d) \/ Overtaken(d) \/ ConflictFails(d) \/ Resolve(d)
  \/ Recover(d)

AddStep(d) ==
  \/ Announce(d) \/ Upload(d) \/ Collide(d) \/ Recheck(d) \/ Verify(d)
  \/ Publish(d) \/ Confirm(d) \/ Stage(d) \/ Preserve(d)

Next ==
  \E d \in Device :
    \/ UserWrites(d) \/ AddRoot(d) \/ RemoveRoot(d)
    \/ Crash(d) \/ PendingFallsDue(d)
    \/ Begin(d) \/ CatchUpStep(d) \/ RescanStep(d) \/ AddStep(d)

Spec == Init /\ [][Next]_vars

-----------------------------------------------------------------------------
(* Properties *)

TypeOK ==
  /\ log \in Seq(Event)
  /\ snap \in [base : Nat, content : File]
  /\ disk \in [Device -> File]
  /\ copies \in [Device -> SUBSET Content]
  /\ root \in [Device -> {"none", "active", "blocked", "removed"}]
  /\ snapSeq \in [Device -> Nat]
  /\ entry \in [Device -> Entry]
  /\ cursor \in [Device -> Nat]
  /\ recover \in [Device -> Recovery]
  /\ staged \in [Device -> BOOLEAN]
  /\ pc \in [Device -> Label]
  /\ job \in [Device -> Job]
  /\ cut \in [Device -> Nat]
  /\ steps \in 0 .. MaxSteps
  /\ faults \in 0 .. MaxFaults

\* Whatever adds, removals, bootstraps and failed initial syncs a device has gone
\* through: once it has seen the whole log and owes no recovery, it has the root,
\* blocked or not, if and only if the workspace has it.  A daemon cut short
\* before its root_add was answered keeps the root until the next root event.
RootsAgree ==
  \A d \in Device :
    /\ pc[d] = "idle" /\ cursor[d] = Len(log) /\ ~recover[d].queued
    /\ LastRootEvent >= cut[d]
    => (root[d] \in {"active", "blocked"} <=> Active)

\* And it knows the version that the server has, unless that is a deletion: no
\* event is taken for an own one that is not there, and no snapshot, staged or
\* not, leaves it with something else.  A daemon cut short while it unblocked
\* the root may lack what was there by then, and nothing later; if it had come
\* no further than a former removal of the root, it lacks what was there when
\* the user next added it.
CaughtUp ==
  \A d \in Device :
    /\ pc[d] = "idle" /\ cursor[d] = Len(log) /\ root[d] = "active"
    /\ PathHead > 0 /\ PathHead >= cut[d] /\ log[PathHead].kind = "put"
    => entry[d].content = log[PathHead].content

\* "delete file on client A and observe client B delete": a device that has seen
\* the whole log knows that the file has been deleted.
DeletionsArrive ==
  \A d \in Device :
    /\ pc[d] = "idle" /\ cursor[d] = Len(log) /\ root[d] = "active"
    /\ PathHead > 0 /\ log[PathHead].kind = "delete"
    => entry[d].content = None

\* The initial sync of a root and its recovery write into the incarnation that
\* this device added, and into no other one that came in between.
OwnIncarnationOnly ==
  [][\A d \in Device :
       LET new == log'[Len(log')] IN
       /\ Len(log') > Len(log) /\ new.by = d /\ new.kind \in {"put", "delete"}
       /\ Forced(d) \/ Adding(d)
       => log[Created].by = d]_vars

\* A snapshot is what the path was at its base in the active incarnation, so that
\* snapshot and later events are all a device needs.
SnapshotIsHistory ==
  snap.base > 0 =>
    /\ Created < snap.base /\ snap.base <= Len(log)
    /\ log[snap.base].content = snap.content

\* "Silent overwrite is not allowed": a device that holds the remote version only
\* staged does not replace it by what was left on its disk.
StagedVersionKept ==
  [][\A d \in Device :
       LET new == log'[Len(log')] IN
       /\ Len(log') > Len(log) /\ new.by = d /\ new.kind \in {"put", "delete"}
       /\ staged[d] /\ PathHead > 0
       => log[PathHead].by = d \/ log[PathHead].content \in {None, new.content}]_vars

=============================================================================
