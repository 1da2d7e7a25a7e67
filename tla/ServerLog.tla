------------------------------ MODULE ServerLog ------------------------------
(***************************************************************************)
(* The event log of one workspace on the Syna server: the tables events,   *)
(* roots, path_heads and the workspace row, the HTTP handlers that read    *)
(* and write them, and offline event compaction.                           *)
(*                                                                         *)
(* The server uses one SQLite connection, so a transaction or a single     *)
(* statement is one step.  What is NOT one step is a handler: the retained *)
(* floor is recomputed by three statements after the transaction that made *)
(* it necessary, and a bootstrap reads the roots and the head separately.  *)
(* Requests that are refused change nothing and are left out.              *)
(***************************************************************************)
EXTENDS Integers, FiniteSetsExt

CONSTANTS
  Root,      \* root ids
  Path,      \* path ids within a root
  Handler,   \* HTTP requests that may be in flight at the same time
  None,      \* SQL NULL, an absent JSON field, a free mutex
  MaxSeq     \* bound: highest event sequence number the model assigns

ASSUME ConstantsAssumption ==
  /\ MaxSeq \in Nat
  /\ None \notin Handler
  /\ None \notin Path
  /\ None \notin Int

VARIABLES
  sqliteSeq,   \* AUTOINCREMENT value of events, shared by all workspaces
  currentSeq,  \* workspaces.current_seq
  floor,       \* workspaces.retained_floor_seq
  log,         \* every event ever accepted (rows of events, pruned ones too)
  pruned,      \* sequence numbers whose row gc has deleted
  roots,       \* rows of roots; created = 0: no row, removed = 0: NULL, ...
  heads,       \* path_heads.current_seq; 0: no row
  up,          \* `serve` is running (gc needs it stopped)
  eventMu,     \* API.eventMu
  pc,          \* where each handler is
  rootsRead,   \* its local copy of ActiveRoots
  seqRead,     \* its local copy of CurrentSeq
  accepted,    \* the sequence number SubmitEvent gave it
  published    \* last sequence number handed to the hub

tables   == <<sqliteSeq, currentSeq, floor, log, pruned, roots, heads>>
handlers == <<eventMu, pc, rootsRead, seqRead, accepted>>
vars     == <<tables, up, handlers, published>>

(***************************************************************************)
(* Types.  An event row keeps what the properties compare: the root, the   *)
(* path, the author's baseline, and (history, the table does not store it) *)
(* the incarnation the request named.  dir_put, file_put and delete are    *)
(* handled alike by the log and are one type, "content".                   *)
(***************************************************************************)
Contract == INSTANCE IncarnationLog WITH log <- log

Seqs      == 0 .. MaxSeq
RootRow   == [created : Seqs, removed : Seqs, snap : Seqs]
RootInfo  == [root : Root, created : Seqs, snap : Seqs]

Stage == {"idle", "floor_roots", "floor_seq", "floor_write", "publish",
          "boot_seq", "replied"}

TypeOK ==
  /\ sqliteSeq \in Seqs
  /\ currentSeq \in Seqs
  /\ floor \in Seqs
  /\ log \in SUBSET Contract!Event
  /\ pruned \in SUBSET Seqs
  /\ roots \in [Root -> RootRow]
  /\ heads \in [Root -> [Path -> Seqs]]
  /\ up \in BOOLEAN
  /\ eventMu \in Handler \cup {None}
  /\ pc \in [Handler -> Stage]
  /\ rootsRead \in [Handler -> SUBSET RootInfo]
  /\ seqRead \in [Handler -> Seqs]
  /\ accepted \in [Handler -> Seqs]
  /\ published \in Seqs

(***************************************************************************)
(* Reading the tables.                                                     *)
(***************************************************************************)
Active(r) == roots[r].created # 0 /\ roots[r].removed = 0

ActiveRoots ==
  {[root |-> r, created |-> roots[r].created, snap |-> roots[r].snap] :
     r \in {q \in Root : Active(q)}}

\* Seeded faults: an operator X_y is X with the plausible bug y.  Nothing uses
\* them; each is there to be put in the place of X and be noticed by a property.
FloorValue_exclusive(S, n) ==
  IF S = {} THEN n ELSE Min({x.snap - 1 : x \in S})

FloorValue_skipsUnsnapshotted(S, n) ==
  LET taken == {x.snap : x \in S} \ {0}
  IN IF taken = {} THEN n ELSE Min(taken)

\* The floor RecomputeRetainedFloor writes after reading roots S and head n.
FloorValue(S, n) ==
  CASE S = {}                   -> n
    [] \E x \in S : x.snap = 0  -> 0
    [] OTHER                    -> Min({x.snap : x \in S})

\* One root's share of bootstrap_after_seq, and the cursor a reply carries.
Contribution(x) == IF x.snap # 0 THEN x.snap ELSE x.created - 1

BootstrapAfterSeq_head(S, n) == n

BootstrapAfterSeq(S, n) ==
  IF S = {} THEN n ELSE Min({Contribution(x) : x \in S})

\* The rows GET /v1/events may return for a cursor: ascending in seq.
EventsAfter(after) == {e \in log : e.seq > after /\ e.seq \notin pruned}

ResyncRequired(after) == after < floor

Init ==
  /\ sqliteSeq = 0
  /\ currentSeq = 0
  /\ floor = 0
  /\ log = {}
  /\ pruned = {}
  /\ roots = [r \in Root |-> [created |-> 0, removed |-> 0, snap |-> 0]]
  /\ heads = [r \in Root |-> [p \in Path |-> 0]]
  /\ up = TRUE
  /\ eventMu = None
  /\ pc = [h \in Handler |-> "idle"]
  /\ rootsRead = [h \in Handler |-> {}]
  /\ seqRead = [h \in Handler |-> 0]
  /\ accepted = [h \in Handler |-> 0]
  /\ published = 0

-----------------------------------------------------------------------------
(***************************************************************************)
(* POST /v1/events.  The handler takes eventMu, runs the transaction of    *)
(* SubmitEvent, for a root event recomputes the floor, publishes to the    *)
(* hub and only then releases the mutex.                                   *)
(***************************************************************************)
Begin(h) == up /\ pc[h] = "idle"

SameIncarnation_older(r, inc) == inc # None => inc <= roots[r].created

\* A request that names the incarnation it was made for must match it.
SameIncarnation(r, inc) == inc \in {None, roots[r].created}

LockEventMu_forgotten(h) == UNCHANGED eventMu

LockEventMu(h) == eventMu = None /\ eventMu' = h

AcceptEvent(h, type, r, p, base, inc, next) ==
  LET n == sqliteSeq + 1 IN
  /\ Begin(h)
  /\ LockEventMu(h)
  /\ n <= MaxSeq
  /\ sqliteSeq' = n
  /\ currentSeq' = n
  /\ log' = log \cup {[seq |-> n, type |-> type, root |-> r,
                       path |-> p, base |-> base, inc |-> inc]}
  /\ accepted' = [accepted EXCEPT ![h] = n]
  /\ pc' = [pc EXCEPT ![h] = next]
  /\ UNCHANGED <<floor, pruned, up, rootsRead, seqRead, published>>

DropHeads_kept(r) == UNCHANGED heads

DropHeads(r) == heads' = [heads EXCEPT ![r] = [p \in Path |-> 0]]

SubmitRootAdd(h, r) ==
  /\ ~Active(r)
  /\ AcceptEvent(h, "root_add", r, None, None, None, "floor_roots")
  /\ roots' = [roots EXCEPT ![r] =
                 [created |-> sqliteSeq + 1, removed |-> 0, snap |-> 0]]
  /\ DropHeads(r)

SubmitRootRemove(h, r, inc) ==
  /\ Active(r)
  /\ SameIncarnation(r, inc)
  /\ AcceptEvent(h, "root_remove", r, None, None, inc, "floor_roots")
  /\ roots' = [roots EXCEPT ![r] =
                 [created |-> @.created, removed |-> sqliteSeq + 1, snap |-> 0]]
  /\ DropHeads(r)

BaseAccepted_anyFirst(head, base) == head <= base

BaseAccepted_notChecked(head, base) == TRUE

\* A baseline ahead of the head is accepted: a client bootstrapped from a
\* snapshot knows the snapshot's base, not the head of each path.
BaseAccepted(head, base) == IF head = 0 THEN base = 0 ELSE head <= base

SubmitContent(h, r, p, base, inc) ==
  /\ Active(r)
  /\ SameIncarnation(r, inc)
  /\ BaseAccepted(heads[r][p], base)
  /\ AcceptEvent(h, "content", r, p, base, inc, "publish")
  /\ heads' = [heads EXCEPT ![r][p] = sqliteSeq + 1]
  /\ UNCHANGED roots

Publish(h) ==
  /\ pc[h] = "publish"
  /\ published' = accepted[h]
  /\ pc' = [pc EXCEPT ![h] = "idle"]
  /\ accepted' = [accepted EXCEPT ![h] = 0]
  /\ eventMu' = None
  /\ UNCHANGED <<tables, up, rootsRead, seqRead>>

(***************************************************************************)
(* POST /v1/snapshots.  Runs without eventMu.  The base is whatever the    *)
(* client claims; the server checks it against the incarnation, the latest *)
(* snapshot and the head.                                                  *)
(***************************************************************************)
SaveSnapshot(h, r, base) ==
  /\ Begin(h)
  /\ Active(r)
  /\ base >= roots[r].created
  /\ base >= roots[r].snap
  /\ base <= currentSeq
  /\ roots' = [roots EXCEPT ![r].snap = base]
  /\ pc' = [pc EXCEPT ![h] = "floor_roots"]
  /\ UNCHANGED <<sqliteSeq, currentSeq, floor, log, pruned, heads, up,
                 eventMu, rootsRead, seqRead, accepted, published>>

(***************************************************************************)
(* RecomputeRetainedFloor, after either transaction: read the roots, read  *)
(* the head, write the floor.  A database error in between is returned to  *)
(* the client of a transaction that has already committed; the event is    *)
(* then never published.                                                   *)
(***************************************************************************)
\* A handler's local variables die with it.
Forget(h) ==
  /\ rootsRead' = [rootsRead EXCEPT ![h] = {}]
  /\ seqRead' = [seqRead EXCEPT ![h] = 0]

FloorReadRoots(h) ==
  /\ pc[h] = "floor_roots"
  /\ rootsRead' = [rootsRead EXCEPT ![h] = ActiveRoots]
  /\ pc' = [pc EXCEPT ![h] = "floor_seq"]
  /\ UNCHANGED <<tables, up, eventMu, seqRead, accepted, published>>

FloorReadSeq(h) ==
  /\ pc[h] = "floor_seq"
  /\ seqRead' = [seqRead EXCEPT ![h] = currentSeq]
  /\ pc' = [pc EXCEPT ![h] = "floor_write"]
  /\ UNCHANGED <<tables, up, eventMu, rootsRead, accepted, published>>

FloorWrite(h) ==
  /\ pc[h] = "floor_write"
  /\ floor' = FloorValue(rootsRead[h], seqRead[h])
  /\ pc' = [pc EXCEPT ![h] = IF accepted[h] # 0 THEN "publish" ELSE "idle"]
  /\ Forget(h)
  /\ UNCHANGED <<sqliteSeq, currentSeq, log, pruned, roots, heads, up,
                 eventMu, accepted, published>>

RecomputeFails(h) ==
  /\ pc[h] \in {"floor_roots", "floor_seq", "floor_write"}
  /\ pc' = [pc EXCEPT ![h] = "idle"]
  /\ eventMu' = IF eventMu = h THEN None ELSE eventMu
  /\ accepted' = [accepted EXCEPT ![h] = 0]
  /\ Forget(h)
  /\ UNCHANGED <<tables, up, published>>

(***************************************************************************)
(* GET /v1/bootstrap.  Two reads, no mutex, no transaction.  The reply     *)
(* stands until the client has taken it (or lost it).                      *)
(***************************************************************************)
BootstrapReadRoots(h) ==
  /\ Begin(h)
  /\ rootsRead' = [rootsRead EXCEPT ![h] = ActiveRoots]
  /\ pc' = [pc EXCEPT ![h] = "boot_seq"]
  /\ UNCHANGED <<tables, up, eventMu, seqRead, accepted, published>>

BootstrapReadSeq(h) ==
  /\ pc[h] = "boot_seq"
  /\ seqRead' = [seqRead EXCEPT ![h] = currentSeq]
  /\ pc' = [pc EXCEPT ![h] = "replied"]
  /\ UNCHANGED <<tables, up, eventMu, rootsRead, accepted, published>>

BootstrapDone(h) ==
  /\ pc[h] = "replied"
  /\ pc' = [pc EXCEPT ![h] = "idle"]
  /\ Forget(h)
  /\ UNCHANGED <<tables, up, eventMu, accepted, published>>

(***************************************************************************)
(* The rest of the world: another workspace takes a number from the shared *)
(* sequence; the server process dies at any point and is started again;    *)
(* gc, which the process lock keeps apart from serve, deletes rows at or   *)
(* below the floor.  It goes row by row without a transaction and can be   *)
(* interrupted, and the retention age is not modelled, so any subset of    *)
(* the eligible rows may be gone.                                          *)
(***************************************************************************)
OtherWorkspaceSubmit ==
  /\ sqliteSeq < MaxSeq
  /\ sqliteSeq' = sqliteSeq + 1
  /\ UNCHANGED <<currentSeq, floor, log, pruned, roots, heads, up, handlers,
                 published>>

Crash ==
  /\ up
  /\ up' = FALSE
  /\ eventMu' = None
  /\ pc' = [h \in Handler |-> "idle"]
  /\ rootsRead' = [h \in Handler |-> {}]
  /\ seqRead' = [h \in Handler |-> 0]
  /\ accepted' = [h \in Handler |-> 0]
  /\ UNCHANGED <<tables, published>>

Restart ==
  /\ ~up
  /\ up' = TRUE
  /\ UNCHANGED <<tables, handlers, published>>

PruneEvent_offByOne(e) ==
  /\ ~up
  /\ e.seq <= floor + 1
  /\ e.seq \notin pruned
  /\ pruned' = pruned \cup {e.seq}
  /\ UNCHANGED <<sqliteSeq, currentSeq, floor, log, roots, heads, up, handlers,
                 published>>

PruneEvent(e) ==
  /\ ~up
  /\ e.seq <= floor
  /\ e.seq \notin pruned
  /\ pruned' = pruned \cup {e.seq}
  /\ UNCHANGED <<sqliteSeq, currentSeq, floor, log, roots, heads, up, handlers,
                 published>>

-----------------------------------------------------------------------------
\* Incarnations and baselines a client can name: numbers it has seen.
Incarnation == {None} \cup 1 .. currentSeq

SubmitStep(h) ==
  \/ \E r \in Root : SubmitRootAdd(h, r)
  \/ \E r \in Root, inc \in Incarnation : SubmitRootRemove(h, r, inc)
  \/ \E r \in Root, p \in Path, base \in 0 .. currentSeq, inc \in Incarnation :
       SubmitContent(h, r, p, base, inc)

SnapshotStep(h) ==
  \E r \in Root, base \in 0 .. currentSeq : SaveSnapshot(h, r, base)

FloorStep(h) == FloorReadRoots(h) \/ FloorReadSeq(h) \/ FloorWrite(h)

BootstrapStep(h) ==
  BootstrapReadRoots(h) \/ BootstrapReadSeq(h) \/ BootstrapDone(h)

HandlerStep(h) ==
  \/ SubmitStep(h)
  \/ Publish(h)
  \/ SnapshotStep(h)
  \/ FloorStep(h)
  \/ RecomputeFails(h)
  \/ BootstrapStep(h)

Gc == \E e \in log : PruneEvent(e)

Next ==
  \/ \E h \in Handler : HandlerStep(h)
  \/ OtherWorkspaceSubmit
  \/ Crash
  \/ Restart
  \/ Gc

Spec == Init /\ [][Next]_vars
-----------------------------------------------------------------------------
(***************************************************************************)
(* Safety.                                                                 *)
(***************************************************************************)

\* The event log keeps its contract (see IncarnationLog): every step of the
\* server, with its tables, is an append the log alone would allow, or no
\* change of the log.  db/events.go SubmitEvent.
ImplementsContract == Contract!Spec

\* Optimistic concurrency loses no update, whatever handlers interleave.
\* db/events.go:92-112.
NoLostUpdate == Contract!NoLostUpdate

\* An incarnation-bound event lands in the incarnation it names.
\* db/events.go:66-68, 88-90.
IncarnationBound == Contract!IncarnationBound

\* A row of roots is the last root event of that root in the log.
RootsMatchLog ==
  \A r \in Root :
    /\ roots[r].created # 0 =>
         \E a \in log : /\ a.type = "root_add" /\ a.root = r
                        /\ a.seq = roots[r].created
    /\ roots[r].removed # 0 =>
         /\ roots[r].created # 0
         /\ roots[r].removed > roots[r].created
         /\ \E e \in log : /\ e.type = "root_remove" /\ e.root = r
                           /\ e.seq = roots[r].removed
    /\ \A e \in log :
         e.root = r /\ Contract!IsRootEvent(e) =>
           e.seq <= (IF Active(r) THEN roots[r].created ELSE roots[r].removed)

\* A path head is the last content event on the path in the live
\* incarnation, and there are heads for live incarnations only.
HeadsMatchLog ==
  \A r \in Root, p \in Path :
    /\ heads[r][p] # 0 =>
         /\ Active(r)
         /\ heads[r][p] > roots[r].created
         /\ \E e \in log : /\ e.type = "content" /\ e.root = r /\ e.path = p
                           /\ e.seq = heads[r][p]
    /\ Active(r) =>
         \A e \in log :
           /\ e.type = "content" /\ e.root = r /\ e.path = p
           /\ e.seq > roots[r].created
           => e.seq <= heads[r][p]

\* The tables the server decides by are exactly what a replay of its log
\* would produce (db/events.go:127-173): a re-added root starts without the
\* heads of its former life.
TablesMatchLog == RootsMatchLog /\ HeadsMatchLog

\* Events reach the hub in the order of their numbers, although many
\* handlers submit at once (the promise of api/events.go:80-82).
PublishInOrder == [][published' > published]_published

\* A bootstrap reply that names at least one root misses nothing: a root
\* (or a removal) that it does not show has an event after the reply's
\* cursor, although roots and head were read at different moments.
\* api/bootstrap.go:15-60.
ReplyCursor(h) == BootstrapAfterSeq(rootsRead[h], seqRead[h])

Shows(h, r) ==
  \E x \in rootsRead[h] : x.root = r /\ x.created = roots[r].created

ReplyCovers(h) ==
  /\ \A r \in Root : Active(r) =>
       Shows(h, r) \/ roots[r].created > ReplyCursor(h)
  /\ \A x \in rootsRead[h] : ~(Active(x.root) /\ Shows(h, x.root)) =>
       \E e \in log : /\ e.type = "root_remove" /\ e.root = x.root
                      /\ e.seq > ReplyCursor(h)

NonEmptyReplyCovers ==
  \A h \in Handler :
    pc[h] = "replied" /\ rootsRead[h] # {} => ReplyCovers(h)

\* The cursor a bootstrap hands out can be used: it is not below the floor,
\* so the fetch that follows is not answered with 410 again.  Holds when
\* requests are served one at a time.  db/workspace.go:112-139.
FreshCursor == BootstrapAfterSeq(ActiveRoots, currentSeq)

FloorCoversBootstrap == ~ResyncRequired(FreshCursor)

\* Compaction never deletes an event a bootstrapping device still has to
\* fetch: db/maintenance.go:49-82 deletes by the floor alone.
NeededEventsRetained == \A s \in pruned : s <= FreshCursor

\* What can go wrong when requests are served at once is this and nothing else:
\* a handler that read no active root writes the head as floor although a root
\* has been added since.  Any other step, a recomputation from roots and a head
\* that have since moved on included, keeps the floor and the deletions right
\* once they are.  db/workspace.go:112-139, db/maintenance.go:49-82.
EmptyHanded ==
  \E h \in Handler : FloorWrite(h) /\ rootsRead[h] = {} /\ ActiveRoots # {}

FloorKept ==
  [][FloorCoversBootstrap /\ NeededEventsRetained =>
       (FloorCoversBootstrap /\ NeededEventsRetained)' \/ EmptyHanded]_vars

-----------------------------------------------------------------------------
(***************************************************************************)
(* What the repository says of the log and the code does not do.           *)
(***************************************************************************)

\* docs/05-sync-protocol.md:273-276: a fetch either returns every event after
\* the cursor or is answered with 410.
FetchOmitsNothing ==
  \A after \in 0 .. currentSeq :
    ~ResyncRequired(after) =>
      EventsAfter(after) = {e \in log : e.seq > after}
=============================================================================
