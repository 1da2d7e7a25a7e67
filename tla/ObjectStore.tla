----------------------------- MODULE ObjectStore -----------------------------
(***************************************************************************)
(* The encrypted objects of the server: files on disk, their rows and      *)
(* reference counts in SQLite, and the three commands that own them one    *)
(* at a time under the lock of the data directory - serve, gc and          *)
(* purge-workspace.                                                        *)
(*                                                                         *)
(* A file and its row are never written in one transaction, and gc is a    *)
(* sequence of single statements.  What has to hold is that after any      *)
(* crash the server can still return every object that a retained event    *)
(* or snapshot names, and that purged bytes do not come back.              *)
(*                                                                         *)
(* Ages, floors and which snapshot is the latest decide only WHEN an event *)
(* or a snapshot falls due to gc: at any time here, and for good.  Clients *)
(* encrypt with a fresh nonce, so a snapshot object is saved once and the  *)
(* references of one request are distinct.  A crash is the death of the    *)
(* process, not of the disk's cache.                                       *)
(***************************************************************************)
EXTENDS Integers, FiniteSets

CONSTANTS
  Workspace,
  Chunk,      \* objects that hold file chunks
  Snap,       \* objects that hold snapshots
  Event,      \* rows of events; a pruned one may stand for a new one
  None,
  TornPrune   \* may gc die between a decrement and the end of its row?

Object == Chunk \cup Snap

ASSUME StoreAssumption ==
  /\ None \notin Object \cup Event \cup Workspace \cup Nat
  /\ Chunk \cap Snap = {} /\ Event \cap Snap = {}
  /\ IsFiniteSet(Object) /\ IsFiniteSet(Event)
  /\ TornPrune \in BOOLEAN

VARIABLES
  \* disk
  file,       \* objects/
  staged,     \* tmp/purge-*/
  \* SQLite
  row,        \* objects.ref_count, None without a row
  owned,      \* workspace_objects
  eventRefs,  \* event_object_refs, with the event's workspace
  snaps,      \* snapshots
  snapRefs,   \* snapshot_object_refs
  due,        \* events and snapshots that gc may prune by age and floor
  \* the running command
  at,         \* where it is
  victim,     \* gc: the event or snapshot being pruned
  work,       \* objects it still has to deal with
  target,     \* purge: its workspace
  \* history
  erased      \* objects a purge deleted, and nobody uploaded since

disk    == <<file, staged>>
tables  == <<row, owned, eventRefs, snaps, snapRefs, due>>
command == <<at, victim, work, target>>
vars    == <<disk, tables, command, erased>>

Places == {"stopped", "serveRecovery", "serving",
           "gcRefs", "gcRows", "gcFiles",
           "purgeRecovery", "purgeStage", "purgeUndo", "purgeReturn"}

MaxRefs == Cardinality(Event) + 2 * Cardinality(Snap)

TypeOK ==
  /\ file \subseteq Object /\ staged \subseteq Object
  /\ row \in [Object -> 0 .. MaxRefs \cup {None}]
  /\ owned \subseteq Workspace \X Object
  /\ eventRefs \subseteq Event \X Workspace \X Chunk
  /\ snaps \subseteq Workspace \X Snap
  /\ snapRefs \subseteq Snap \X Chunk
  /\ due \subseteq Event \cup Snap
  /\ at \in Places
  /\ victim \in Event \cup Snap \cup {None}
  /\ work \subseteq Object
  /\ target \in Workspace \cup {None}
  /\ erased \subseteq Object

Init ==
  /\ file = {} /\ staged = {} /\ erased = {}
  /\ row = [o \in Object |-> None]
  /\ owned = {} /\ eventRefs = {} /\ snaps = {} /\ snapRefs = {} /\ due = {}
  /\ at = "stopped" /\ victim = None /\ work = {} /\ target = None

HasRow(o) == row[o] # None

\* What the rows of one event, and of one snapshot, refer to.
RefsOfEvent(e) == {o \in Chunk : \E w \in Workspace : <<e, w, o>> \in eventRefs}
RefsOfSnap(s)  == {o \in Chunk : <<s, o>> \in snapRefs}
Snapped(s)     == \E w \in Workspace : <<w, s>> \in snaps

Incremented(objects) ==
  [o \in Object |-> IF o \in objects /\ HasRow(o) THEN row[o] + 1 ELSE row[o]]

\* Deleting a row of objects cascades to workspace_objects.
Without(objects) == [o \in Object |-> IF o \in objects THEN None ELSE row[o]]
Cascade(pairs, objects) == {p \in pairs : p[2] \notin objects}
-----------------------------------------------------------------------------
(***************************************************************************)
(* serve.  PUT /v1/objects is three steps, and requests interleave.        *)
(***************************************************************************)
PutFile(o) ==
  /\ at = "serving"
  /\ file' = file \cup {o}
  /\ erased' = erased \ {o}
  /\ UNCHANGED <<staged, tables, command>>

\* Only once the file is linked: by this request, or found to exist.
PutRow(o) ==
  /\ at = "serving"
  /\ o \in file
  /\ ~HasRow(o)
  /\ row' = [row EXCEPT ![o] = 0]
  /\ UNCHANGED <<disk, owned, eventRefs, snaps, snapRefs, command, erased, due>>

PutOwner(w, o) ==
  /\ at = "serving"
  /\ HasRow(o)
  /\ owned' = owned \cup {<<w, o>>}
  /\ UNCHANGED <<disk, row, eventRefs, snaps, snapRefs, command, erased, due>>

Visible(w, objects) == \A o \in objects : <<w, o>> \in owned

SubmitEvent(w, e, refs) ==
  /\ at = "serving"
  /\ RefsOfEvent(e) = {} /\ e \notin due
  /\ Visible(w, refs)
  /\ eventRefs' = eventRefs \cup {<<e, w, o>> : o \in refs}
  /\ row' = Incremented(refs)
  /\ UNCHANGED <<disk, owned, snaps, snapRefs, command, erased, due>>

CountedForSnap_notItsChunks(s, refs) == {s}

CountedForSnap(s, refs) == {s} \cup (refs \ RefsOfSnap(s))

SaveSnapshot(w, s, refs) ==
  /\ at = "serving"
  /\ ~Snapped(s)
  /\ Visible(w, {s} \cup refs)
  /\ snaps' = snaps \cup {<<w, s>>}
  /\ snapRefs' = snapRefs \cup {<<s, o>> : o \in refs}
  /\ row' = Incremented(CountedForSnap(s, refs))
  /\ UNCHANGED <<disk, owned, eventRefs, command, erased, due>>

\* A day passes after the floor reached the event, after the snapshot was
\* superseded, or after its root was removed.
FallDue(h) ==
  /\ at = "serving"
  /\ \/ h \in Event /\ RefsOfEvent(h) # {}
     \/ h \in Snap /\ Snapped(h)
  /\ due' = due \cup {h}
  /\ UNCHANGED <<disk, row, owned, eventRefs, snaps, snapRefs, command, erased>>

-----------------------------------------------------------------------------
(***************************************************************************)
(* gc: Prune, statement by statement, then the files.                      *)
(***************************************************************************)
StartGc ==
  /\ at = "stopped"
  /\ at' = "gcRefs"
  /\ UNCHANGED <<disk, tables, victim, work, target, erased>>

PruneEvent(e) ==
  /\ at = "gcRefs" /\ victim = None
  /\ e \in due
  /\ victim' = e
  /\ work' = RefsOfEvent(e)
  /\ UNCHANGED <<disk, tables, at, target, erased>>

UncountedForSnap_notItsChunks(s) == {s}

UncountedForSnap(s) == {s} \cup RefsOfSnap(s)

PruneSnapshot(s) ==
  /\ at = "gcRefs" /\ victim = None
  /\ s \in due /\ due \cap Event = {}
  /\ victim' = s
  /\ work' = UncountedForSnap(s)
  /\ UNCHANGED <<disk, tables, at, target, erased>>

Decremented_forgotten(n) == n

Decremented(n) == IF n > 0 THEN n - 1 ELSE 0

Decrement(o) ==
  /\ at = "gcRefs" /\ o \in work
  /\ row' = [row EXCEPT ![o] = IF HasRow(o) THEN Decremented(@) ELSE None]
  /\ work' = work \ {o}
  /\ UNCHANGED <<disk, owned, eventRefs, snaps, snapRefs, at, victim, target, erased, due>>

DeleteRefs ==
  /\ at = "gcRefs" /\ victim # None /\ work = {}
  /\ RefsOfEvent(victim) \cup RefsOfSnap(victim) # {}
  /\ eventRefs' = {r \in eventRefs : r[1] # victim}
  /\ snapRefs' = {r \in snapRefs : r[1] # victim}
  /\ UNCHANGED <<disk, row, owned, snaps, command, erased, due>>

DeleteVictim ==
  /\ at = "gcRefs" /\ victim # None /\ work = {}
  /\ RefsOfEvent(victim) \cup RefsOfSnap(victim) = {}
  /\ snaps' = {s \in snaps : s[2] # victim}
  /\ due' = due \ {victim}
  /\ victim' = None
  /\ UNCHANGED <<disk, row, owned, eventRefs, snapRefs, at, work, target, erased>>

\* Those that are old enough among the unreferenced.
SelectUnreferenced ==
  /\ at = "gcRefs" /\ victim = None /\ due = {}
  /\ at' = "gcRows"
  /\ work' \in SUBSET {o \in Object : row[o] = 0}
  /\ UNCHANGED <<disk, tables, victim, target, erased>>

DeleteRow(o) ==
  /\ at = "gcRows" /\ o \in work
  /\ HasRow(o)
  /\ row' = Without({o})
  /\ owned' = Cascade(owned, {o})
  /\ UNCHANGED <<disk, eventRefs, snaps, snapRefs, command, erased, due>>

RowsDeleted ==
  /\ at = "gcRows"
  /\ \A o \in work : ~HasRow(o)
  /\ at' = "gcFiles"
  /\ UNCHANGED <<disk, tables, victim, work, target, erased>>

RemoveFile(o) ==
  /\ at = "gcFiles" /\ o \in work
  /\ file' = file \ {o}
  /\ work' = work \ {o}
  /\ UNCHANGED <<staged, tables, at, victim, target, erased>>

GcDone ==
  /\ at = "gcFiles" /\ work = {}
  /\ at' = "stopped"
  /\ UNCHANGED <<disk, tables, victim, work, target, erased>>

-----------------------------------------------------------------------------
(***************************************************************************)
(* purge-workspace.  Files are moved aside before the transaction, and     *)
(* returned or removed after it.  An error on the way exits: a crash.      *)
(***************************************************************************)
StartPurge(w) ==
  /\ at = "stopped"
  /\ at' = "purgeRecovery"
  /\ target' = w
  /\ UNCHANGED <<disk, tables, victim, work, erased>>

\* Objects of no other workspace.
Exclusive(w) ==
  {o \in Object : {v \in Workspace : <<v, o>> \in owned} = {w} /\ HasRow(o)}

PurgeRecovered ==
  /\ at = "purgeRecovery" /\ staged = {}
  /\ at' = "purgeStage"
  /\ work' = Exclusive(target)
  /\ UNCHANGED <<disk, tables, victim, target, erased>>

Stage(o) ==
  /\ at = "purgeStage" /\ o \in work \cap file
  /\ file' = file \ {o}
  /\ staged' = staged \cup {o}
  /\ UNCHANGED <<tables, command, erased>>

\* The transaction: everything of the workspace goes, all reference counts
\* are recomputed, then the candidates nothing refers to go.
PurgeCommit ==
  LET events == {r \in eventRefs : r[2] # target}
      kept   == {s \in snaps : s[1] # target}
      gone   == {s \in Snap : <<target, s>> \in snaps /\ \A k \in kept : k[2] # s}
      refs   == {r \in snapRefs : r[1] \notin gone}
      count(o) == Cardinality({r \in events : r[3] = o})
                  + Cardinality({s \in kept : s[2] = o})
                  + Cardinality({r \in refs : r[2] = o})
      others == {p \in owned : p[1] # target}
      deleted == {o \in work : HasRow(o) /\ count(o) = 0
                                /\ \A p \in others : p[2] # o}
  IN
  /\ at = "purgeStage" /\ work \cap file = {}
  /\ at' = "purgeReturn"
  /\ eventRefs' = events
  /\ snaps' = kept
  /\ snapRefs' = refs
  /\ due' = {h \in due : \/ \E r \in events : r[1] = h
                          \/ \E s \in kept : s[2] = h}
  /\ owned' = others
  /\ row' = [o \in Object |->
               IF o \in deleted \/ ~HasRow(o) THEN None ELSE count(o)]
  /\ erased' = erased \cup deleted
  /\ work' = {}
  /\ UNCHANGED <<disk, victim, target>>

\* It fails and is rolled back, as it is for a workspace that does not exist.
PurgeFails ==
  /\ at = "purgeStage" /\ work \cap file = {}
  /\ at' = "purgeUndo"
  /\ work' = {}
  /\ UNCHANGED <<disk, tables, victim, target, erased>>

Recovering == {"serveRecovery", "purgeRecovery"}

MayRestore_whatever(o) == TRUE

MayRestore(o) == HasRow(o)

Restore(o) ==
  /\ at \in Recovering \cup {"purgeUndo", "purgeReturn"}
  /\ o \in staged /\ MayRestore(o)
  /\ file' = file \cup {o}
  /\ staged' = staged \ {o}
  /\ UNCHANGED <<tables, command, erased>>

\* The command returns what it did not delete before it removes the rest.
Discard(o) ==
  /\ o \in staged /\ ~MayRestore(o)
  /\ \/ at \in Recovering
     \/ at = "purgeReturn" /\ \A p \in staged : ~MayRestore(p)
  /\ staged' = staged \ {o}
  /\ UNCHANGED <<file, tables, command, erased>>

PurgeDone ==
  /\ at \in {"purgeUndo", "purgeReturn"} /\ staged = {}
  /\ at' = "stopped"
  /\ target' = None
  /\ UNCHANGED <<disk, tables, victim, work, erased>>

-----------------------------------------------------------------------------
StartServe ==
  /\ at = "stopped"
  /\ at' = "serveRecovery"
  /\ UNCHANGED <<disk, tables, victim, work, target, erased>>

Listen_atOnce ==
  /\ at = "serveRecovery"
  /\ at' = "serving"
  /\ UNCHANGED <<disk, tables, victim, work, target, erased>>

Listen ==
  /\ at = "serveRecovery" /\ staged = {}
  /\ at' = "serving"
  /\ UNCHANGED <<disk, tables, victim, work, target, erased>>

\* The process dies, is stopped, or gives up after an error.  Shutdown does
\* not wait for requests, so a stop is no gentler than a crash.
Exit ==
  /\ at # "stopped"
  /\ victim = None \/ TornPrune
  /\ at' = "stopped"
  /\ victim' = None /\ work' = {} /\ target' = None
  /\ UNCHANGED <<disk, tables, erased>>

Serve ==
  \/ \E o \in Object : PutFile(o) \/ PutRow(o)
  \/ \E w \in Workspace, o \in Object : PutOwner(w, o)
  \/ \E w \in Workspace, e \in Event, refs \in SUBSET Chunk \ {{}} :
       SubmitEvent(w, e, refs)
  \/ \E w \in Workspace, s \in Snap, refs \in SUBSET Chunk :
       SaveSnapshot(w, s, refs)
  \/ \E h \in Event \cup Snap : FallDue(h)

Gc ==
  \/ StartGc \/ DeleteRefs \/ DeleteVictim
  \/ SelectUnreferenced \/ RowsDeleted \/ GcDone
  \/ \E e \in Event : PruneEvent(e)
  \/ \E s \in Snap : PruneSnapshot(s)
  \/ \E o \in Object : Decrement(o) \/ DeleteRow(o) \/ RemoveFile(o)

Purge ==
  \/ PurgeRecovered \/ PurgeCommit \/ PurgeFails \/ PurgeDone
  \/ \E w \in Workspace : StartPurge(w)
  \/ \E o \in Object : Stage(o) \/ Restore(o) \/ Discard(o)

Next == StartServe \/ Listen \/ Serve \/ Gc \/ Purge \/ Exit

Spec == Init /\ [][Next]_vars
-----------------------------------------------------------------------------
(***************************************************************************)
(* Properties.                                                             *)
(***************************************************************************)

\* Whenever the server serves, every object with a row has its file, whatever
\* crashed before: a download of a visible object is never answered with 404.
\* store.go:65-87, admin.go:60-109, 128-171, app.go:86-93.
ServedRowsHaveFiles ==
  at = "serving" => \A o \in Object : HasRow(o) => o \in file

\* The objects that the retained rows of a workspace name.
Named(w) ==
  {o \in Chunk : \E e \in Event : <<e, w, o>> \in eventRefs}
  \cup {s \in Snap : <<w, s>> \in snaps}
  \cup UNION {RefsOfSnap(s) : s \in {t \in Snap : <<w, t>> \in snaps}}

\* A device can download everything a retained event or snapshot of its
\* workspace names.  api/objects.go:44-62, maintenance.go:66-157.
RetainedIsRetrievable ==
  at = "serving" =>
    \A w \in Workspace : \A o \in Named(w) :
      <<w, o>> \in owned /\ HasRow(o) /\ o \in file

\* While no command is at work on them, the counts count the references.
\* refs.go:8-26, events.go:175-182, snapshots.go:69-90, purge.go:123-136.
References(o) ==
  Cardinality({r \in eventRefs : r[3] = o}) + Cardinality({s \in snaps : s[2] = o})
  + Cardinality({r \in snapRefs : r[2] = o})

CountsCountReferences ==
  at \in {"stopped", "serving"} =>
    \A o \in Object : HasRow(o) => row[o] = References(o)

\* Once a purge has committed, its bytes never come back to objects/, and no
\* copy is left when the next server serves, whether the purge finished or
\* crashed.  admin.go:91-117, 143-160.
PurgedStaysPurged ==
  /\ erased \cap file = {}
  /\ at = "serving" => erased \cap staged = {}
=============================================================================
