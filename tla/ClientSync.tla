---------------------------- MODULE ClientSync ----------------------------
(***************************************************************************)
(* The sync engine of the client daemon, src/internal/client/daemon: how   *)
(* devices exchange the versions of one file of an active root.            *)
(*                                                                         *)
(* Each device has the file on its disk, where the user edits it whenever  *)
(* he likes, and a daemon with a table of path entries, a cursor into the  *)
(* server's event log and a queue of pending operations, all three in      *)
(* SQLite.  The daemon runs one operation at a time (syncMu): a rescan     *)
(* that submits what differs from the entry, a catch-up that applies the   *)
(* events after the cursor, or the sequence of both that precedes going    *)
(* live.  A step below is what the daemon does between two points at which *)
(* a user, another device or a crash can come in: one request, one write   *)
(* to the disk or one write to SQLite.                                     *)
(*                                                                         *)
(* The server is its event log: module ServerLog shows that path_heads is  *)
(* the newest event of a path and that submissions are serialised, and     *)
(* EventStream that a live client is woken for whatever it has not seen.   *)
(* A content stands for the bytes, mode and mtime of a file; conflict      *)
(* copies are told apart by their content, their names being unique.  The  *)
(* daemon's own writes wake the watcher as the user's do, and leave a rule *)
(* in SQLite for two seconds: a rescan that finds the path as the daemon   *)
(* wrote it passes it over, whatever its entry says.  Bootstrap from a     *)
(* snapshot and roots added or removed are left to RootLifecycle.          *)
(***************************************************************************)
EXTENDS Naturals, Sequences, FiniteSets

CONSTANTS
  Device,
  Content,
  None,       \* no file
  Breaks,     \* what may go wrong: a subset of Trouble
  MaxEdits,   \* bound on the users' edits
  MaxFaults   \* bound on crashes, failed requests and dropped connections

\* A crash of a daemon, a dropped stream, and a request that fails: a page of
\* events or an object, a conflicting head, a submission before it reaches the
\* server or after it was accepted, the upload of a conflict copy; and an edit
\* that falls into the gap between a daemon's first scan and its watch.
Trouble == {"crash", "drop", "page", "head", "submit", "reply", "copy", "gap"}

ASSUME ConstantsAssumption ==
  /\ Device # {} /\ Content # {} /\ None \notin Content
  /\ Breaks \subseteq Trouble
  /\ MaxEdits \in Nat
  /\ MaxFaults \in Nat

VARIABLES
  log,       \* the server's events
  disk,      \* the file on each device
  copies,    \* the conflict copies on each device
  entry,     \* state.Entry of the file: last known head and content
  noted,     \* the conflict copies that have an entry
  cursor,    \* last_server_seq
  pend,      \* the pending rescan_root operation
  rules,     \* ignore_events, until a rescan finds them expired
  stash,     \* the local version staged by a conflict resolution
  noticed,   \* a change the watcher has seen and no rescan has taken up
  watching,  \* the root has a watch
  live,      \* the websocket loop is running
  pc, job,   \* what the daemon is doing
  seen,      \* history: the event that the bytes on disk are, or derive from
  passed,    \* history: what the last rescan passed over because of a rule
  edits, faults

vars == <<log, disk, copies, entry, noted, cursor, pend, rules, stash, noticed,
          watching, live, pc, job, seen, passed, edits, faults>>

Files == <<disk, copies, stash, noticed, seen>>
Ignores == <<rules, passed>>
Tables == <<entry, noted, cursor, pend, Ignores>>

File == Content \cup {None}
Via == {"none", "flush", "first", "reconcile", "second", "hint", "watch",
        "retry"}
Event == [kind : {"put", "delete", "copy"}, by : Device, content : File]
Queue == {"none", "ready", "later"}
Label == {"down", "idle", "page", "next", "place", "note", "advance", "scan",
          "submit", "record", "finish", "stage", "head", "decide", "newer",
          "copy"}
Ignored == [file : SUBSET File, copies : SUBSET Content]
Job ==
  [via : Via, rounds : 0 .. 3, item : File, at : Nat, goal : Nat,
   why : {"none", "page", "delete", "put", "scan", "found", "newer", "copy"},
   baseline : File, seen : Nat]
Idle == [via |-> "none", rounds |-> 0, item |-> None, at |-> 0, goal |-> 0,
         why |-> "none", baseline |-> None, seen |-> 0]

-----------------------------------------------------------------------------
(* The server *)

\* Mutant: a deletion is not an event of the file.
Main_putsOnly(s) == log[s].kind = "put"

Main(s) == log[s].kind # "copy"

\* path_heads.current_seq of the file; 0 when the path has no head.
PathHead ==
  CHOOSE h \in 0 .. Len(log) :
    /\ h > 0 => Main(h)
    /\ \A s \in (h + 1) .. Len(log) : ~Main(s)

Accept(d, kind, content) ==
  log' = Append(log, [kind |-> kind, by |-> d, content |-> content])

CopiesShared == {log[s].content : s \in {t \in DOMAIN log : ~Main(t)}}

Broken(k) == k \in Breaks /\ faults < MaxFaults /\ faults' = faults + 1

-----------------------------------------------------------------------------
(* The user and the process *)

\* Any write to the file wakes an installed watch.
Write(d, c) ==
  /\ disk' = [disk EXCEPT ![d] = c]
  /\ noticed' = [noticed EXCEPT ![d] = watching[d]]

\* The first rescan to succeed installs the watch when it is through; usually it
\* is the one that precedes going live.
InGap(d) ==
  ~watching[d] /\ job[d].via \in {"reconcile", "retry"} /\ pc[d] # "scan"

UserEdits(d) ==
  /\ edits < MaxEdits
  /\ InGap(d) => "gap" \in Breaks
  /\ edits' = edits + 1
  /\ \E c \in File \ {disk[d]} : Write(d, c)
  /\ UNCHANGED <<log, copies, Tables, stash, watching, live, pc, job, seen,
                 faults>>

Start(d) ==
  /\ pc[d] = "down"
  /\ pc' = [pc EXCEPT ![d] = "idle"]
  /\ UNCHANGED <<log, Files, Tables, watching, live, job, edits, faults>>

\* Memory is lost: watches, debounced changes, and the operation under way.
\* A staged copy stays behind in the state directory, where nothing reads it.
Crash(d) ==
  /\ pc[d] # "down"
  /\ Broken("crash")
  /\ pc' = [pc EXCEPT ![d] = "down"]
  /\ job' = [job EXCEPT ![d] = Idle]
  /\ stash' = [stash EXCEPT ![d] = None]
  /\ noticed' = [noticed EXCEPT ![d] = FALSE]
  /\ watching' = [watching EXCEPT ![d] = FALSE]
  /\ live' = [live EXCEPT ![d] = FALSE]
  /\ UNCHANGED <<log, disk, copies, Tables, seen, edits>>

Drop(d) ==
  /\ pc[d] = "idle" /\ live[d]
  /\ Broken("drop")
  /\ live' = [live EXCEPT ![d] = FALSE]
  /\ UNCHANGED <<log, Files, Tables, watching, pc, job, edits>>

-----------------------------------------------------------------------------
(* Control: where an operation begins, goes on and ends *)

Goto(d, label) == pc' = [pc EXCEPT ![d] = label]

BeginRescan(d, via, rounds) ==
  /\ Goto(d, "scan")
  /\ job' = [job EXCEPT ![d] = [Idle EXCEPT !.via = via, !.rounds = rounds]]

BeginCatchUp(d, via) ==
  /\ Goto(d, "page")
  /\ job' = [job EXCEPT ![d] = [Idle EXCEPT !.via = via]]

Rest(d) ==
  /\ Goto(d, "idle")
  /\ job' = [job EXCEPT ![d] = Idle]

\* An operation has succeeded; pend is the queue it leaves.
Continue(d, queue) ==
  LET via == job[d].via IN
  /\ pend' = [pend EXCEPT ![d] = IF via \in {"flush", "retry"} THEN "none"
                                 ELSE queue]
  /\ live' = [live EXCEPT ![d] = @ \/ via = "second"]
  /\ \/ via = "flush" /\ BeginCatchUp(d, "first")
     \/ via = "first" /\ BeginRescan(d, "reconcile", 1)
     \/ via = "reconcile" /\ BeginCatchUp(d, "second")
     \/ via = "retry" /\ BeginCatchUp(d, "hint")
     \/ via \in {"second", "hint", "watch"} /\ Rest(d)

\* It has failed.  A rescan that the watcher asked for is only logged, one
\* from the queue is put off, and a stream gives up unless it was retrying
\* the queue.
Fail(d) ==
  LET via == job[d].via IN
  /\ pend' = [pend EXCEPT ![d] = IF via \in {"flush", "retry"} THEN "later"
                                 ELSE @]
  /\ live' = [live EXCEPT ![d] = @ /\ via \in {"watch", "retry"}]
  /\ Rest(d)

\* A rescan has gone through all entries.
FinishRescan(d) ==
  /\ Goto(d, "finish")
  /\ job' = [job EXCEPT ![d] = [Idle EXCEPT !.via = job[d].via]]

\* Mutant: the rescan counts as done and is not queued.
SubmitFails_notQueued(d) ==
  IF job[d].via \in {"reconcile", "watch"} THEN Continue(d, pend[d])
                                           ELSE Fail(d)

\* A retryable error: the rescan is queued and counts as done, unless it came
\* from the queue.
SubmitFails(d) ==
  IF job[d].via \in {"reconcile", "watch"} THEN Continue(d, "ready")
                                           ELSE Fail(d)

\* syncAndStream begins with the queue; only an operation that is due is run.
Connect(d) ==
  /\ pc[d] = "idle" /\ ~live[d]
  /\ IF pend[d] = "ready" THEN BeginRescan(d, "flush", 3)
                          ELSE BeginCatchUp(d, "first")
  /\ UNCHANGED <<log, Files, Tables, watching, live, edits, faults>>

Watch(d) ==
  /\ pc[d] = "idle" /\ noticed[d]
  /\ noticed' = [noticed EXCEPT ![d] = FALSE]
  /\ BeginRescan(d, "watch", 1)
  /\ UNCHANGED <<log, disk, copies, stash, seen, Tables, watching, live, edits,
                 faults>>

Hint(d) ==
  /\ pc[d] = "idle" /\ live[d] /\ cursor[d] < Len(log)
  /\ BeginCatchUp(d, "hint")
  /\ UNCHANGED <<log, Files, Tables, watching, live, edits, faults>>

RetryPending(d) ==
  /\ pc[d] = "idle" /\ live[d] /\ pend[d] = "ready"
  /\ BeginRescan(d, "retry", 3)
  /\ UNCHANGED <<log, Files, Tables, watching, live, edits, faults>>

\* next_retry_at passes.
PendingFallsDue(d) ==
  /\ pend[d] = "later"
  /\ pend' = [pend EXCEPT ![d] = "ready"]
  /\ UNCHANGED <<log, Files, entry, noted, cursor, Ignores, watching, live, pc,
                 job, edits, faults>>

-----------------------------------------------------------------------------
(* Catch-up: bootstrapOrCatchUp, consumeRemoteEvent, applyRemoteEvent *)

\* The page has the events after the cursor; an empty one ends the catch-up.
Page(d) ==
  /\ pc[d] = "page"
  /\ \/ /\ cursor[d] = Len(log)
        /\ Continue(d, pend[d])
        /\ UNCHANGED faults
     \/ /\ cursor[d] < Len(log)
        /\ job' = [job EXCEPT ![d].goal = Len(log)]
        /\ Goto(d, "next")
        /\ UNCHANGED <<pend, live, faults>>
     \/ Broken("page") /\ Fail(d)
  /\ UNCHANGED <<log, Files, entry, noted, cursor, Ignores, watching, edits>>

\* Mutant: an event of this device is never applied.
Materialized_ownIsEnough(d, s) == log[s].by = d

\* The events of the page are consumed one by one; an event of this device
\* that its entries already cover is not applied again.
Materialized(d, s) ==
  IF Main(s) THEN entry[d].seq >= s ELSE log[s].content \in noted[d]

ConsumeEvent(d) ==
  LET s == cursor[d] + 1
      skip == log[s].by = d /\ Materialized(d, s)
  IN
  /\ pc[d] = "next"
  /\ \/ /\ cursor[d] >= job[d].goal
        /\ Continue(d, pend[d])
        /\ UNCHANGED cursor
     \/ /\ cursor[d] < job[d].goal
        /\ skip
        /\ cursor' = [cursor EXCEPT ![d] = s]
        /\ UNCHANGED <<pend, live, pc, job>>
     \/ /\ cursor[d] < job[d].goal
        /\ ~skip
        /\ job' = [job EXCEPT ![d].at = s, ![d].why = "page"]
        /\ Goto(d, "place")
        /\ UNCHANGED <<cursor, pend, live>>
  /\ UNCHANGED <<log, Files, entry, noted, Ignores, watching, edits, faults>>

\* The staged local version goes back over whatever is at the path.
Restore(d) ==
  /\ disk' = [disk EXCEPT ![d] = stash[d]]
  /\ noticed' = [noticed EXCEPT ![d] = watching[d]]
  /\ seen' = [seen EXCEPT ![d] = job[d].seen]

\* resolveFileConflict returns an error before the local version is preserved.
GiveUp(d) ==
  /\ IF stash[d] # None THEN Restore(d) ELSE UNCHANGED <<disk, noticed, seen>>
  /\ stash' = [stash EXCEPT ![d] = None]
  /\ Fail(d)

\* A rule for two seconds; a new one of the path replaces the old.
IgnoreFile(d, c) == rules' = [rules EXCEPT ![d].file = {c}]
IgnoreCopy(d, c) == rules' = [rules EXCEPT ![d].copies = @ \cup {c}]

\* ApplyEvent, first half: the disk, and the rule that follows at once (a crash
\* between the two is as if it had expired).  Nothing looks at what is there.
Place(d) ==
  LET s == job[d].at IN
  /\ pc[d] = "place"
  /\ \/ /\ Main(s)
        /\ Write(d, log[s].content)
        /\ IgnoreFile(d, log[s].content)
        /\ seen' = [seen EXCEPT ![d] = s]
        /\ Goto(d, "note")
        /\ UNCHANGED <<copies, stash, pend, live, job, faults>>
     \/ /\ ~Main(s)
        /\ copies' = [copies EXCEPT ![d] = @ \cup {log[s].content}]
        /\ IgnoreCopy(d, log[s].content)
        /\ Goto(d, "note")
        /\ UNCHANGED <<disk, noticed, seen, stash, pend, live, job, faults>>
     \/ /\ log[s].kind # "delete" /\ Broken("page")
        /\ GiveUp(d)
        /\ UNCHANGED <<copies, rules>>
  /\ UNCHANGED <<log, entry, noted, cursor, passed, watching, edits>>

\* Mutant: the entry keeps the hash it had.
EntryOf_staleHash(d, s) == [seq |-> s, content |-> entry[d].content]

EntryOf(d, s) == [seq |-> s, content |-> log[s].content]

\* Second half: the entry.
Note(d) ==
  LET s == job[d].at IN
  /\ pc[d] = "note"
  /\ IF Main(s)
       THEN /\ entry' = [entry EXCEPT ![d] = EntryOf(d, s)]
            /\ UNCHANGED noted
       ELSE /\ noted' = [noted EXCEPT ![d] = @ \cup {log[s].content}]
            /\ UNCHANGED entry
  /\ \/ job[d].why = "page" /\ Goto(d, "advance") /\ UNCHANGED job
     \/ job[d].why = "put" /\ Goto(d, "decide") /\ UNCHANGED job
     \/ /\ job[d].why = "delete"
        /\ BeginRescan(d, job[d].via, job[d].rounds - 1)
  /\ UNCHANGED <<log, Files, cursor, pend, Ignores, watching, live, edits,
                 faults>>

Advance(d) ==
  /\ pc[d] = "advance"
  /\ cursor' = [cursor EXCEPT ![d] = job[d].at]
  /\ job' = [job EXCEPT ![d].at = 0, ![d].why = "none"]
  /\ Goto(d, "next")
  /\ UNCHANGED <<log, Files, entry, noted, pend, Ignores, watching, live, edits,
                 faults>>

-----------------------------------------------------------------------------
(* Rescan: rescanRootHintWithRetry *)

\* A conflict copy without an entry is an unknown file: it is uploaded.  If the
\* server has it already, from a submission whose answer was lost, the conflict
\* that follows finds the head to be what is on the disk.  A rule of the copy
\* has expired by then.
ServerHasCopy(d, c) ==
  \E s \in DOMAIN log : ~Main(s) /\ log[s].by = d /\ log[s].content = c

SubmitFound(d) ==
  /\ pc[d] = "scan"
  /\ \E c \in copies[d] \ noted[d] :
       LET known == ServerHasCopy(d, c) IN
       /\ rules' = [rules EXCEPT ![d].copies = @ \ {c}]
       /\ \/ /\ known
             /\ noted' = [noted EXCEPT ![d] = @ \cup {c}]
             /\ UNCHANGED <<log, pend, live, pc, job, faults>>
          \/ /\ ~known
             /\ Accept(d, "copy", c)
             /\ job' = [job EXCEPT ![d].item = c, ![d].at = Len(log) + 1,
                                   ![d].why = "found"]
             /\ Goto(d, "record")
             /\ UNCHANGED <<noted, pend, live, faults>>
          \/ /\ ~known
             /\ \/ Broken("submit") /\ UNCHANGED log
                \/ Broken("reply") /\ Accept(d, "copy", c)
             /\ SubmitFails(d)
             /\ UNCHANGED noted
  /\ UNCHANGED <<Files, entry, cursor, passed, watching, edits>>

\* The file is hashed and compared with its entry, and if it differs with its
\* rule: a file that is as the daemon left it less than two seconds ago, or
\* gone as the daemon removed it, is passed over, and so are copies.  Nothing
\* is queued.
Scan(d) ==
  LET found == copies[d] \ noted[d]
      differs == disk[d] # entry[d].content
  IN
  /\ pc[d] = "scan"
  /\ found \subseteq rules[d].copies
  /\ \/ /\ differs => disk[d] \in rules[d].file
        /\ FinishRescan(d)
        /\ passed' = [passed EXCEPT ![d] =
                       [file |-> IF differs THEN {disk[d]} ELSE {},
                        copies |-> found]]
        /\ UNCHANGED rules
     \/ /\ differs
        /\ job' = [job EXCEPT ![d].item = disk[d]]
        /\ Goto(d, "submit")
        /\ passed' = [passed EXCEPT ![d] = [file |-> {}, copies |-> found]]
        /\ rules' = [rules EXCEPT ![d].file = @ \ {disk[d]}]
  /\ UNCHANGED <<log, Files, entry, noted, cursor, pend, watching, live, edits,
                 faults>>

\* The event that submits c is accepted over the head.
AcceptMain(d, c) ==
  /\ Accept(d, IF c = None THEN "delete" ELSE "put", c)
  /\ seen' = [seen EXCEPT ![d] = Len(log) + 1]

\* UploadFile reads the file once more, and SubmitEvent compares the head with
\* the base, the entry's seq; nothing of this device happens in between, so
\* that reading and submitting is one step.
Submit(d) ==
  LET delete == job[d].item = None
      bytes == IF delete THEN None ELSE disk[d]
      vanished == ~delete /\ disk[d] = None
  IN
  /\ pc[d] = "submit"
  /\ \/ /\ vanished
        /\ Fail(d)
        /\ UNCHANGED <<log, seen, faults>>
     \/ /\ ~vanished /\ PathHead > entry[d].seq
        /\ IF delete /\ job[d].rounds = 0
             THEN Fail(d)
             ELSE /\ job' = [job EXCEPT ![d].at = PathHead, ![d].why =
                                          IF delete THEN "delete" ELSE "put"]
                  /\ Goto(d, IF delete THEN "head" ELSE "stage")
                  /\ UNCHANGED <<pend, live>>
        /\ UNCHANGED <<log, seen, faults>>
     \/ /\ ~vanished /\ PathHead <= entry[d].seq
        /\ AcceptMain(d, bytes)
        /\ job' = [job EXCEPT ![d].item = bytes, ![d].at = Len(log) + 1,
                              ![d].why = "scan"]
        /\ Goto(d, "record")
        /\ UNCHANGED <<pend, live, faults>>
     \/ /\ ~vanished
        /\ Broken("submit")
        /\ SubmitFails(d)
        /\ UNCHANGED <<log, seen>>
     \/ /\ ~vanished /\ PathHead <= entry[d].seq
        /\ Broken("reply")
        /\ AcceptMain(d, bytes)
        /\ SubmitFails(d)
  /\ UNCHANGED <<disk, copies, stash, noticed, entry, noted, cursor, Ignores,
                 watching, edits>>

\* A conflict that was resolved is followed by one more rescan; the last rescan
\* goes on to its end.
Resolved(d) ==
  IF job[d].rounds % 2 = 1
    THEN BeginRescan(d, job[d].via, job[d].rounds - 1)
    ELSE FinishRescan(d)

\* It installs the watch and catches up.
Finish(d) ==
  /\ pc[d] = "finish"
  /\ watching' = [watching EXCEPT ![d] = TRUE]
  /\ BeginCatchUp(d, job[d].via)
  /\ UNCHANGED <<log, Files, Tables, live, edits, faults>>

\* The answer has arrived: the entry follows the accepted event.
Record(d) ==
  /\ pc[d] = "record"
  /\ IF job[d].why \in {"found", "copy"}
       THEN /\ noted' = [noted EXCEPT ![d] = @ \cup {job[d].item}]
            /\ UNCHANGED entry
       ELSE /\ entry' = [entry EXCEPT ![d] =
                          [seq |-> job[d].at, content |-> job[d].item]]
            /\ UNCHANGED noted
  /\ \/ /\ job[d].why = "found"
        /\ BeginRescan(d, job[d].via, job[d].rounds)
        /\ UNCHANGED stash
     \/ job[d].why = "scan" /\ FinishRescan(d) /\ UNCHANGED stash
     \/ /\ job[d].why \in {"newer", "copy"}
        /\ stash' = [stash EXCEPT ![d] = None]
        /\ Resolved(d)
  /\ UNCHANGED <<log, disk, copies, noticed, seen, cursor, pend, Ignores,
                 watching, live, edits, faults>>

-----------------------------------------------------------------------------
(* Conflict: resolveFileConflictForIncarnation, applyCurrentRemoteHead *)

\* stageLocalFileCopy, and the entry's content as the last synced baseline.
Stage(d) ==
  /\ pc[d] = "stage"
  /\ IF disk[d] = None
       THEN Fail(d) /\ UNCHANGED stash
       ELSE /\ stash' = [stash EXCEPT ![d] = disk[d]]
            /\ job' = [job EXCEPT ![d].baseline = entry[d].content,
                                  ![d].seen = seen[d]]
            /\ Goto(d, "head")
            /\ UNCHANGED <<pend, live>>
  /\ UNCHANGED <<log, disk, copies, noticed, seen, entry, noted, cursor,
                 Ignores, watching, edits, faults>>

\* fetchCurrentRemoteHead
FetchHead(d) ==
  /\ pc[d] = "head"
  /\ \/ /\ Goto(d, "place")
        /\ UNCHANGED <<disk, noticed, seen, stash, pend, live, job, faults>>
     \/ Broken("head") /\ GiveUp(d)
  /\ UNCHANGED <<log, copies, entry, noted, cursor, Ignores, watching, edits>>

WriteConflictCopy(d) ==
  /\ copies' = [copies EXCEPT ![d] = @ \cup {stash[d]}]
  /\ IgnoreCopy(d, stash[d])
  /\ Goto(d, "copy")
  /\ UNCHANGED <<disk, noticed, seen, stash, job>>

\* Mutant: what the remote did since the last sync does not matter.
LocalIsNewer_whateverRemote(d) == job[d].baseline \notin {None, job[d].item}

\* Only this device has changed the file since it last synced it.
LocalIsNewer(d) ==
  /\ job[d].baseline \notin {None, job[d].item}
  /\ entry[d].content = job[d].baseline

\* The head has been applied: deleted remotely, the local version returns and
\* is submitted again; equal, there is no conflict; unchanged since the last
\* sync, the local version is newer; otherwise both versions stay.
Decide(d) ==
  LET remote == entry[d].content
      matches == remote = job[d].item
  IN
  /\ pc[d] = "decide"
  /\ \/ /\ remote = None
        /\ Restore(d)
        /\ stash' = [stash EXCEPT ![d] = None]
        /\ Resolved(d)
        /\ UNCHANGED <<copies, rules>>
     \/ /\ remote # None /\ matches
        /\ stash' = [stash EXCEPT ![d] = None]
        /\ Resolved(d)
        /\ UNCHANGED <<disk, noticed, seen, copies, rules>>
     \/ /\ remote # None /\ ~matches /\ LocalIsNewer(d)
        /\ Restore(d)
        /\ Goto(d, "newer")
        /\ UNCHANGED <<stash, copies, rules, job>>
     \/ /\ remote # None /\ ~matches /\ ~LocalIsNewer(d)
        /\ WriteConflictCopy(d)
  /\ UNCHANGED <<log, entry, noted, cursor, pend, passed, watching, live, edits,
                 faults>>

\* restoreNewerLocalEdit, second half: upload with the corrected base.
SubmitNewer(d) ==
  /\ pc[d] = "newer"
  /\ \/ /\ disk[d] = None
        /\ GiveUp(d)
        /\ UNCHANGED <<log, copies, rules, faults>>
     \/ /\ disk[d] # None /\ PathHead > entry[d].seq
        /\ WriteConflictCopy(d)
        /\ UNCHANGED <<log, pend, live, faults>>
     \/ /\ disk[d] # None /\ PathHead <= entry[d].seq
        /\ AcceptMain(d, disk[d])
        /\ job' = [job EXCEPT ![d].item = disk[d], ![d].at = Len(log) + 1,
                              ![d].why = "newer"]
        /\ Goto(d, "record")
        /\ UNCHANGED <<disk, noticed, stash, copies, rules, pend, live, faults>>
     \/ /\ disk[d] # None
        /\ \/ Broken("submit") /\ UNCHANGED log
           \/ /\ PathHead <= entry[d].seq
              /\ Broken("reply") /\ Accept(d, "put", disk[d])
        /\ GiveUp(d)
        /\ UNCHANGED <<copies, rules>>
  /\ UNCHANGED <<entry, noted, cursor, passed, watching, edits>>

\* The copy is uploaded under its own path.  When that fails the local version
\* is put back over the remote one, which has an entry by now.
SubmitCopy(d) ==
  /\ pc[d] = "copy"
  /\ \/ /\ Accept(d, "copy", stash[d])
        /\ job' = [job EXCEPT ![d].item = stash[d], ![d].at = Len(log) + 1,
                              ![d].why = "copy"]
        /\ Goto(d, "record")
        /\ UNCHANGED <<disk, noticed, seen, stash, pend, live, faults>>
     \/ /\ Broken("copy")
        /\ \/ UNCHANGED log
           \/ Accept(d, "copy", stash[d])
        /\ GiveUp(d)
  /\ UNCHANGED <<copies, entry, noted, cursor, Ignores, watching, edits>>

-----------------------------------------------------------------------------
\* A root that was added by one device and is in sync on all; no daemon runs.
\* Whose root and which content does not matter.
Init ==
  LET d0 == CHOOSE d \in Device : TRUE
      c0 == CHOOSE c \in Content : TRUE
  IN
  /\ log = <<[kind |-> "put", by |-> d0, content |-> c0]>>
  /\ disk = [d \in Device |-> c0]
  /\ copies = [d \in Device |-> {}]
  /\ entry = [d \in Device |-> [seq |-> 1, content |-> c0]]
  /\ noted = [d \in Device |-> {}]
  /\ cursor = [d \in Device |-> 1]
  /\ pend = [d \in Device |-> "none"]
  /\ rules = [d \in Device |-> [file |-> {}, copies |-> {}]]
  /\ stash = [d \in Device |-> None]
  /\ noticed = [d \in Device |-> FALSE]
  /\ watching = [d \in Device |-> FALSE]
  /\ live = [d \in Device |-> FALSE]
  /\ pc = [d \in Device |-> "down"]
  /\ job = [d \in Device |-> Idle]
  /\ seen = [d \in Device |-> 1]
  /\ passed = [d \in Device |-> [file |-> {}, copies |-> {}]]
  /\ edits = 0
  /\ faults = 0

CatchUpStep(d) == Page(d) \/ ConsumeEvent(d) \/ Place(d) \/ Note(d) \/ Advance(d)
RescanStep(d) ==
  SubmitFound(d) \/ Scan(d) \/ Submit(d) \/ Record(d) \/ Finish(d)
ConflictStep(d) ==
  Stage(d) \/ FetchHead(d) \/ Decide(d) \/ SubmitNewer(d) \/ SubmitCopy(d)

\* What the daemon does of its own accord; one of these is possible at a time.
Daemon(d) ==
  \/ Start(d) \/ Connect(d)
  \/ CatchUpStep(d)
  \/ RescanStep(d)
  \/ ConflictStep(d)

Next ==
  \E d \in Device :
    \/ UserEdits(d)
    \/ Crash(d) \/ Drop(d)
    \/ Watch(d) \/ Hint(d) \/ RetryPending(d)
    \/ PendingFallsDue(d)
    \/ Daemon(d)

Spec == Init /\ [][Next]_vars

\* systemd restarts a daemon that failed, the reconnect loop keeps trying and an
\* operation under way is carried on; a debounced change fires, a hint is
\* consumed and the retry ticker ticks.  Users and faults owe nothing.
Fairness ==
  \A d \in Device :
    /\ WF_vars(Watch(d))
    /\ WF_vars(Hint(d))
    /\ WF_vars(RetryPending(d))
    /\ WF_vars(PendingFallsDue(d))
    /\ WF_vars(Daemon(d))

FairSpec == Spec /\ Fairness

-----------------------------------------------------------------------------
(* Properties *)

StateOK ==
  /\ log \in Seq(Event)
  /\ disk \in [Device -> File]
  /\ copies \in [Device -> SUBSET Content]
  /\ entry \in [Device -> [seq : Nat, content : File]]
  /\ noted \in [Device -> SUBSET Content]
  /\ cursor \in [Device -> Nat]
  /\ pend \in [Device -> Queue]
  /\ stash \in [Device -> File]
  /\ noticed \in [Device -> BOOLEAN]
  /\ watching \in [Device -> BOOLEAN]
  /\ live \in [Device -> BOOLEAN]
  /\ pc \in [Device -> Label]
  /\ job \in [Device -> Job]
  /\ seen \in [Device -> Nat]
  /\ edits \in 0 .. MaxEdits
  /\ faults \in 0 .. MaxFaults
IgnoresOK == rules \in [Device -> Ignored] /\ passed \in [Device -> Ignored]
TypeOK == StateOK /\ IgnoresOK

\* A device whose cursor has passed an event of the path knows that event or a
\* newer one: whatever order conflicts, own submissions, page replays and
\* crashes come in, once it has seen the whole log its entry is the path head.
CaughtUp ==
  \A d \in Device :
    cursor[d] = Len(log) =>
      /\ entry[d].seq = PathHead
      /\ entry[d].content = log[PathHead].content

\* The contents that the file had in the first n events.
Before(n) == {log[s].content : s \in {t \in 1 .. n : Main(t)}}

\* A crash came between the disk and the entry of an event that was consumed:
\* the disk has what is next for the cursor, which the entry knows nothing of.
TornReplay(d) ==
  /\ "crash" \in Breaks /\ faults > 0
  /\ seen[d] = cursor[d] + 1 /\ log[seen[d]].by # d

\* "Silent overwrite is not allowed": the head that a submission replaces is a
\* version that the device's user had on disk, unless it is a deletion or a
\* return to a content the file had up to the version he had.  The exception is
\* a device that died while it replayed an older event over the head, which a
\* conflict had applied: its disk has the older bytes, its entry the head, and
\* a rescan that was pending submits the one over the other (daemon.go:2452).
NoSilentOverwrite ==
  [][\A d \in Device :
       LET new == log'[Len(log')] IN
       Len(log') > Len(log) /\ new.by = d /\ new.kind # "copy" =>
         log[PathHead].content \in {None} \cup Before(seen[d]) \/ TornReplay(d)]_vars

\* Devices do not echo each other: every version of the file goes back to an
\* edit or to a fault.  Conflict copies are left out, for one edit may leave two:
\* a newer local edit that loses another race is shared as a copy and stays at
\* the path as well, where it meets the next head as a conflict (conflict.go:201).
Versions == {s \in DOMAIN log : Main(s)}
NoEcho == Cardinality(Versions) <= 1 + edits + faults

\* When the users leave the file alone and faults cease, all devices get to hold
\* the head's content and every conflict copy, with nothing pending.  What the
\* last rescan of a device passed over because of a rule may stay behind there:
\* nothing looks at it again before the next rescan.
Settled(d) == live[d] /\ pend[d] = "none"
Synced ==
  \A d \in Device :
    /\ disk[d] \in {log[PathHead].content} \cup passed[d].file
    /\ CopiesShared \subseteq copies[d]
    /\ copies[d] \subseteq CopiesShared \cup passed[d].copies
    /\ Settled(d)
EventuallySynced == <>[]Synced

\* "Suppress upload unless content actually differs from the indexed state"
\* (docs/06-client.md:403): no rescan lets go of what its entry does not have.
ActuallyDiffers ==
  [][\A d \in Device :
       passed'[d] # passed[d] => passed'[d] = [file |-> {}, copies |-> {}]]_vars

\* "Restart must never silently discard local bytes": a step of the daemon that
\* replaces what is on the disk leaves it in the log, in a copy or staged.
LocalBytesKept ==
  [][\A d \in Device :
       disk'[d] # disk[d] /\ edits' = edits =>
         disk[d] \in {None, stash'[d]} \cup copies'[d]
                    \cup {log[s].content : s \in DOMAIN log}]_vars

=============================================================================
