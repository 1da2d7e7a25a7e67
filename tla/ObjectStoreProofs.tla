-------------------------- MODULE ObjectStoreProofs --------------------------
(***************************************************************************)
(* For any objects, workspaces and events, and with gc dying wherever it   *)
(* likes: a serving server has the file of every row, and purged bytes do  *)
(* not come back.  Unless gc dies between a decrement and the end of its   *)
(* row, the counts count the references, and what retained rows name can   *)
(* be downloaded.                                                          *)
(***************************************************************************)
EXTENDS ObjectStore, FiniteSetTheorems, TLAPS

RowsOfObjects == row = [o \in Object |-> row[o]]

\* A row's bytes are in objects/ or moved aside; nothing is moved aside while
\* the server serves; and gc removes the files of rows it has deleted.
BytesKept ==
  /\ \A o \in Object : HasRow(o) => o \in file \cup staged
  /\ at = "serving" => staged = {}
  /\ at = "gcFiles" => \A o \in work : ~HasRow(o)

\* What a purge deleted has no row, so no recovery returns it.
ErasedHasNoRow ==
  /\ \A o \in erased : ~HasRow(o)
  /\ erased \cap file = {}

Subsets ==
  /\ erased \subseteq Object /\ staged \subseteq Object /\ work \subseteq Object

StoreInv == RowsOfObjects /\ Subsets /\ BytesKept /\ ErasedHasNoRow

\* The invariant holds initially.
LEMMA StoreInvInit == Init => StoreInv
  BY DEF Init, StoreInv, RowsOfObjects, Subsets, BytesKept, ErasedHasNoRow, HasRow

\* A step that adds no row, takes no bytes and no place of importance keeps it.
LEMMA QuietStep ==
  ASSUME StoreInv, row' = [o \in Object |-> row'[o]],
         \A o \in Object : HasRow(o)' => HasRow(o),
         UNCHANGED <<file, staged, erased>>,
         work' \subseteq Object,
         at' # "serving" \/ at = "serving",
         at' # "gcFiles" \/ \A o \in work' : ~HasRow(o)
  PROVE  StoreInv'
  BY DEF StoreInv, RowsOfObjects, Subsets, BytesKept, ErasedHasNoRow

\* Every step keeps the invariant.
LEMMA StoreInvNext == StoreInv /\ [Next]_vars => StoreInv'
<1> SUFFICES ASSUME StoreInv, [Next]_vars PROVE StoreInv'
  OBVIOUS
<1> USE DEF disk, tables, command
<1>1. CASE Serve
  <2>1. ASSUME NEW o \in Object, PutFile(o) PROVE StoreInv'
    BY <2>1 DEF PutFile, StoreInv, RowsOfObjects, Subsets, BytesKept, ErasedHasNoRow, HasRow
  <2>2. ASSUME NEW o \in Object, PutRow(o) PROVE StoreInv'
    BY <2>2 DEF PutRow, StoreInv, RowsOfObjects, Subsets, BytesKept, ErasedHasNoRow, HasRow
  <2>3. ASSUME NEW w \in Workspace, NEW o \in Object, PutOwner(w, o) PROVE StoreInv'
    BY <2>3, QuietStep DEF PutOwner, StoreInv, RowsOfObjects, Subsets, HasRow
  <2>4. ASSUME NEW w \in Workspace, NEW e \in Event, NEW refs \in SUBSET Chunk,
               SubmitEvent(w, e, refs)
        PROVE  StoreInv'
    BY <2>4, QuietStep DEF SubmitEvent, Incremented, StoreInv, RowsOfObjects, Subsets, HasRow
  <2>5. ASSUME NEW w \in Workspace, NEW s \in Snap, NEW refs \in SUBSET Chunk,
               SaveSnapshot(w, s, refs)
        PROVE  StoreInv'
    BY <2>5, QuietStep DEF SaveSnapshot, Incremented, StoreInv, RowsOfObjects, Subsets, HasRow
  <2>6. ASSUME NEW h \in Event \cup Snap, FallDue(h) PROVE StoreInv'
    BY <2>6, QuietStep DEF FallDue, StoreInv, RowsOfObjects, Subsets, HasRow
  <2> QED
    BY <1>1, <2>1, <2>2, <2>3, <2>4, <2>5, <2>6 DEF Serve
<1>2. CASE Gc
  <2>1. CASE StartGc \/ DeleteRefs \/ DeleteVictim
    BY <2>1, QuietStep DEF StartGc, DeleteRefs, DeleteVictim, StoreInv, RowsOfObjects, Subsets, HasRow
  <2>2. CASE SelectUnreferenced
    BY <2>2, QuietStep DEF SelectUnreferenced, StoreInv, RowsOfObjects, Subsets, HasRow
  <2>3. CASE RowsDeleted
    BY <2>3, QuietStep DEF RowsDeleted, StoreInv, RowsOfObjects, Subsets, HasRow
  <2>4. CASE GcDone
    BY <2>4, QuietStep DEF GcDone, StoreInv, RowsOfObjects, Subsets, HasRow
  <2>5. ASSUME NEW e \in Event, PruneEvent(e) PROVE StoreInv'
    BY <2>5, QuietStep DEF PruneEvent, RefsOfEvent, Object, StoreInv, RowsOfObjects, Subsets, HasRow
  <2>6. ASSUME NEW s \in Snap, PruneSnapshot(s) PROVE StoreInv'
    BY <2>6, QuietStep
       DEF PruneSnapshot, UncountedForSnap, RefsOfSnap, Object, StoreInv, RowsOfObjects, Subsets, HasRow
  <2>7. ASSUME NEW o \in Object, Decrement(o) PROVE StoreInv'
    BY <2>7, QuietStep DEF Decrement, StoreInv, RowsOfObjects, Subsets, HasRow
  <2>8. ASSUME NEW o \in Object, DeleteRow(o) PROVE StoreInv'
    BY <2>8, QuietStep DEF DeleteRow, Without, StoreInv, RowsOfObjects, Subsets, HasRow
  <2>9. ASSUME NEW o \in Object, RemoveFile(o) PROVE StoreInv'
    BY <2>9 DEF RemoveFile, StoreInv, RowsOfObjects, Subsets, BytesKept, ErasedHasNoRow, HasRow
  <2> QED
    BY <1>2, <2>1, <2>2, <2>3, <2>4, <2>5, <2>6, <2>7, <2>8, <2>9 DEF Gc
<1>3. CASE Purge
  <2>1. CASE PurgeRecovered
    BY <2>1, QuietStep DEF PurgeRecovered, Exclusive, StoreInv, RowsOfObjects, Subsets, HasRow
  <2>2. CASE PurgeCommit
    <3>1. /\ row' = [o \in Object |-> row'[o]]
          /\ \A o \in Object : HasRow(o)' => HasRow(o) /\ o \notin erased' \ erased
      BY <2>2 DEF PurgeCommit, StoreInv, RowsOfObjects, Subsets, HasRow
    <3>2. /\ erased' \ erased \subseteq work /\ work \cap file = {}
          /\ UNCHANGED disk /\ at' = "purgeReturn" /\ work' = {}
      BY <2>2 DEF PurgeCommit
    <3> QED
      BY <3>1, <3>2 DEF StoreInv, RowsOfObjects, Subsets, BytesKept, ErasedHasNoRow
  <2>3. CASE PurgeFails
    BY <2>3, QuietStep DEF PurgeFails, StoreInv, RowsOfObjects, Subsets, HasRow
  <2>4. CASE PurgeDone
    BY <2>4, QuietStep DEF PurgeDone, StoreInv, RowsOfObjects, Subsets, HasRow
  <2>5. ASSUME NEW w \in Workspace, StartPurge(w) PROVE StoreInv'
    BY <2>5, QuietStep DEF StartPurge, StoreInv, RowsOfObjects, Subsets, HasRow
  <2>6. ASSUME NEW o \in Object, Stage(o) PROVE StoreInv'
    BY <2>6 DEF Stage, StoreInv, RowsOfObjects, Subsets, BytesKept, ErasedHasNoRow, HasRow
  <2>7. ASSUME NEW o \in Object, Restore(o) PROVE StoreInv'
    BY <2>7 DEF Restore, MayRestore, Recovering, StoreInv, RowsOfObjects, Subsets, BytesKept,
                ErasedHasNoRow, HasRow
  <2>8. ASSUME NEW o \in Object, Discard(o) PROVE StoreInv'
    BY <2>8 DEF Discard, MayRestore, Recovering, StoreInv, RowsOfObjects, Subsets, BytesKept,
                ErasedHasNoRow, HasRow
  <2> QED
    BY <1>3, <2>1, <2>2, <2>3, <2>4, <2>5, <2>6, <2>7, <2>8 DEF Purge
<1>4. CASE StartServe
  BY <1>4, QuietStep DEF StartServe, StoreInv, RowsOfObjects, Subsets, HasRow
<1>5. CASE Listen
  BY <1>5 DEF Listen, StoreInv, RowsOfObjects, Subsets, BytesKept, ErasedHasNoRow, HasRow
<1>6. CASE Exit
  BY <1>6, QuietStep DEF Exit, StoreInv, RowsOfObjects, Subsets, HasRow
<1>7. CASE UNCHANGED vars
  BY <1>7, QuietStep DEF vars, StoreInv, RowsOfObjects, Subsets, BytesKept, HasRow
<1> QED
  BY <1>1, <1>2, <1>3, <1>4, <1>5, <1>6, <1>7 DEF Next

\* Whenever the server serves, every row has its file: whatever gc, a purge
\* or an upload had done when it died.
THEOREM RowsHaveFiles == Spec => []ServedRowsHaveFiles
<1>1. StoreInv => ServedRowsHaveFiles
  BY DEF StoreInv, BytesKept, ServedRowsHaveFiles
<1> QED
  BY StoreInvInit, StoreInvNext, <1>1, PTL DEF Spec

\* Purged bytes never return to objects/, and no copy outlives the recovery of
\* the next server.
THEOREM PurgeIsFinal == Spec => []PurgedStaysPurged
<1>1. StoreInv => PurgedStaysPurged
  BY DEF StoreInv, BytesKept, ErasedHasNoRow, PurgedStaysPurged
<1> QED
  BY StoreInvInit, StoreInvNext, <1>1, PTL DEF Spec

-----------------------------------------------------------------------------
(***************************************************************************)
(* Reference counts.  What makes them right is a balance: the count of an  *)
(* object, and what gc took off it for a row it has not deleted yet, add   *)
(* up to its references.                                                   *)
(***************************************************************************)

\* What the row that gc is pruning still refers to.
Charges(v) == RefsOfEvent(v) \cup RefsOfSnap(v) \cup {s \in Snap : s = v /\ Snapped(s)}

\* What gc took off the count of an object ahead of the row it prunes.
Charge(o) == IF o \in Charges(victim) \ work THEN 1 ELSE 0

RefsTyped ==
  /\ file \subseteq Object
  /\ row \in [Object -> Nat \cup {None}]
  /\ owned \subseteq Workspace \X Object
  /\ eventRefs \subseteq Event \X Workspace \X Chunk
  /\ snaps \subseteq Workspace \X Snap
  /\ snapRefs \subseteq Snap \X Chunk
  /\ due \subseteq Event \cup Snap
  /\ at \in Places
  /\ victim \in Event \cup Snap \cup {None}
  /\ target \in Workspace \cup {None}

\* An event and a snapshot are of one workspace.
OneWorkspaceEach ==
  /\ \A q, r \in eventRefs : q[1] = r[1] => q[2] = r[2]
  /\ \A p, q \in snaps : p[2] = q[2] => p[1] = q[1]

PruneStage ==
  /\ \A s \in due \cap Snap : Snapped(s)
  /\ victim # None => at = "gcRefs"
  /\ at = "gcRefs" => work \subseteq Charges(victim)
  /\ at \in {"stopped", "purgeUndo", "purgeReturn"} => work = {}

RefsInv == RefsTyped /\ OneWorkspaceEach /\ PruneStage

\* Whatever dies where, no count exceeds its references.
CountsBounded ==
  \A o \in Object : HasRow(o) => row[o] + Charge(o) <= References(o)

\* The rows of the references are finitely many.
LEMMA RefsFinite ==
  RefsTyped /\ OneWorkspaceEach =>
    IsFiniteSet(eventRefs) /\ IsFiniteSet(snaps) /\ IsFiniteSet(snapRefs)
<1> SUFFICES ASSUME RefsTyped, OneWorkspaceEach
             PROVE  IsFiniteSet(eventRefs) /\ IsFiniteSet(snaps) /\ IsFiniteSet(snapRefs)
  OBVIOUS
<1>1. IsFiniteSet(Chunk) /\ IsFiniteSet(Snap) /\ IsFiniteSet(Event)
  BY StoreAssumption, FS_Subset DEF Object
<1>2. IsFiniteSet(eventRefs)
  <2> DEFINE f == [r \in eventRefs |-> <<r[1], r[3]>>]
  <2>1. f \in Injection(eventRefs, Event \X Chunk)
    <3>1. f \in [eventRefs -> Event \X Chunk]
      BY DEF RefsTyped
    <3>2. ASSUME NEW q \in eventRefs, NEW r \in eventRefs, f[q] = f[r]
          PROVE  q = r
      <4>1. q[1] = r[1] /\ q[3] = r[3]
        BY <3>2
      <4>2. q[2] = r[2]
        BY <4>1 DEF OneWorkspaceEach
      <4> QED
        BY <4>1, <4>2 DEF RefsTyped
    <3> QED
      BY <3>1, <3>2 DEF Injection, IsInjective
  <2>2. IsFiniteSet(Event \X Chunk)
    BY <1>1, FS_Product
  <2> QED
    BY <2>1, <2>2, FS_Injection
<1>3. IsFiniteSet(snaps)
  <2> DEFINE f == [p \in snaps |-> p[2]]
  <2>1. f \in Injection(snaps, Snap)
    <3>1. f \in [snaps -> Snap]
      BY DEF RefsTyped
    <3>2. ASSUME NEW p \in snaps, NEW q \in snaps, f[p] = f[q]
          PROVE  p = q
      <4>1. p[2] = q[2]
        BY <3>2
      <4>2. p[1] = q[1]
        BY <4>1 DEF OneWorkspaceEach
      <4> QED
        BY <4>1, <4>2 DEF RefsTyped
    <3> QED
      BY <3>1, <3>2 DEF Injection, IsInjective
  <2> QED
    BY <2>1, <1>1, FS_Injection
<1>4. IsFiniteSet(snapRefs)
  BY <1>1, FS_Product, FS_Subset DEF RefsTyped
<1> QED
  BY <1>2, <1>3, <1>4

\* The references of an object, by kind.
FromEvents(o) == Cardinality({r \in eventRefs : r[3] = o})
FromSnaps(o)  == Cardinality({s \in snaps : s[2] = o})
FromChunks(o) == Cardinality({r \in snapRefs : r[2] = o})

\* References are counted by their kind.
LEMMA ByKind ==
  ASSUME NEW o
  PROVE  /\ References(o) = FromEvents(o) + FromSnaps(o) + FromChunks(o)
         /\ References(o)' = FromEvents(o)' + FromSnaps(o)' + FromChunks(o)'
  BY DEF References, FromEvents, FromSnaps, FromChunks

\* Each object has a number of references of each kind.
RefsCounted ==
  \A x : /\ FromEvents(x) \in Nat /\ FromSnaps(x) \in Nat /\ FromChunks(x) \in Nat
        /\ References(x) \in Nat

\* There are finitely many references to an object.
LEMMA ReferencesCounted == RefsTyped /\ OneWorkspaceEach => RefsCounted
<1> SUFFICES ASSUME RefsTyped, OneWorkspaceEach, NEW o
             PROVE  /\ FromEvents(o) \in Nat /\ FromSnaps(o) \in Nat /\ FromChunks(o) \in Nat
                    /\ References(o) \in Nat
  BY DEF RefsCounted
<1>1. IsFiniteSet({r \in eventRefs : r[3] = o})
  BY RefsFinite, FS_Subset
<1>2. IsFiniteSet({s \in snaps : s[2] = o})
  BY RefsFinite, FS_Subset
<1>3. IsFiniteSet({r \in snapRefs : r[2] = o})
  BY RefsFinite, FS_Subset
<1>4. FromEvents(o) \in Nat /\ FromSnaps(o) \in Nat /\ FromChunks(o) \in Nat
  BY <1>1, <1>2, <1>3, FS_CardinalityType DEF FromEvents, FromSnaps, FromChunks
<1> QED
  BY <1>4, ByKind

\* What is left of the references is a number of references too.
LEMMA FewerReferences ==
  ASSUME RefsTyped, OneWorkspaceEach,
         eventRefs' \subseteq eventRefs, snaps' \subseteq snaps, snapRefs' \subseteq snapRefs
  PROVE  \A o \in Object : References(o)' \in Nat
<1> SUFFICES ASSUME NEW o \in Object PROVE References(o)' \in Nat
  OBVIOUS
<1>1. IsFiniteSet({r \in eventRefs' : r[3] = o})
  BY RefsFinite, FS_Subset
<1>2. IsFiniteSet({s \in snaps' : s[2] = o})
  BY RefsFinite, FS_Subset
<1>3. IsFiniteSet({r \in snapRefs' : r[2] = o})
  BY RefsFinite, FS_Subset
<1>4. /\ Cardinality({r \in eventRefs' : r[3] = o}) \in Nat
      /\ Cardinality({s \in snaps' : s[2] = o}) \in Nat
      /\ Cardinality({r \in snapRefs' : r[2] = o}) \in Nat
  BY <1>1, <1>2, <1>3, FS_CardinalityType
<1> QED
  BY <1>4 DEF References

\* One element more, and one fewer.
LEMMA OneMore ==
  ASSUME NEW S, IsFiniteSet(S), NEW x, x \notin S
  PROVE  Cardinality(S \cup {x}) = Cardinality(S) + 1
  BY FS_AddElement

\* A set without one of its members has one member less.
LEMMA OneFewer ==
  ASSUME NEW S, IsFiniteSet(S), NEW x, x \in S
  PROVE  Cardinality(S \ {x}) + 1 = Cardinality(S)
<1>1. Cardinality(S) \in Nat
  BY FS_CardinalityType
<1>2. Cardinality(S \ {x}) = Cardinality(S) - 1
  BY FS_RemoveElement
<1> QED
  BY <1>1, <1>2

Uncharged == Charges(victim) = {} /\ \A x : Charge(x) = 0

\* While gc prunes no row, nothing is charged.
LEMMA NothingCharged ==
  RefsTyped /\ victim = None => Uncharged
  BY StoreAssumption
     DEF Uncharged, RefsTyped, Charges, Charge, RefsOfEvent, RefsOfSnap, Object

\* Initially there are no references and no counts.
LEMMA RefsInvInit == Init => RefsInv /\ CountsBounded
  BY DEF Init, RefsInv, RefsTyped, OneWorkspaceEach, PruneStage, CountsBounded, HasRow, Places

\* The files, rows and commands stay what they are, whatever is done to them.
LEMMA RefsInvNext == StoreInv /\ RefsInv /\ [Next]_vars => RefsInv'
<1> SUFFICES ASSUME StoreInv, RefsInv, [Next]_vars PROVE RefsInv'
  OBVIOUS
<1> USE DEF disk, tables, command
<1>0. Subsets /\ Chunk \subseteq Object /\ Snap \subseteq Object /\ Event \cap Snap = {}
  BY StoreAssumption DEF StoreInv, Object
<1>1. CASE Serve
  <2>1. ASSUME NEW o \in Object, PutFile(o) PROVE RefsInv'
    BY <2>1 DEF PutFile, RefsInv, RefsTyped, OneWorkspaceEach, PruneStage, Charges,
                RefsOfEvent, RefsOfSnap, Snapped, Places
  <2>2. ASSUME NEW o \in Object, PutRow(o) PROVE RefsInv'
    BY <2>2 DEF PutRow, RefsInv, RefsTyped, OneWorkspaceEach, PruneStage, Charges,
                RefsOfEvent, RefsOfSnap, Snapped, Places
  <2>3. ASSUME NEW w \in Workspace, NEW o \in Object, PutOwner(w, o) PROVE RefsInv'
    <3>1. RefsTyped'
      <4>1. owned' \subseteq Workspace \X Object
        BY <2>3 DEF PutOwner, RefsInv, RefsTyped
      <4> QED
        BY <4>1, <2>3 DEF PutOwner, RefsInv, RefsTyped
    <3> QED
      BY <3>1, <2>3 DEF PutOwner, RefsInv, OneWorkspaceEach, PruneStage, Snapped
  <2>4. ASSUME NEW w \in Workspace, NEW e \in Event, NEW refs \in SUBSET Chunk,
               SubmitEvent(w, e, refs)
        PROVE  RefsInv'
    <3>1. RefsTyped'
      BY <2>4 DEF SubmitEvent, Incremented, HasRow, RefsInv, RefsTyped
    <3>2. OneWorkspaceEach'
      <4>1. \A r \in eventRefs : r[1] # e
        BY <2>4 DEF SubmitEvent, RefsOfEvent, RefsInv, RefsTyped
      <4> QED
        BY <4>1, <2>4 DEF SubmitEvent, RefsInv, OneWorkspaceEach
    <3>3. PruneStage'
      BY <2>4 DEF SubmitEvent, RefsInv, PruneStage, Snapped
    <3> QED
      BY <3>1, <3>2, <3>3 DEF RefsInv
  <2>5. ASSUME NEW w \in Workspace, NEW s \in Snap, NEW refs \in SUBSET Chunk,
               SaveSnapshot(w, s, refs)
        PROVE  RefsInv'
    <3>1. RefsTyped'
      BY <2>5 DEF SaveSnapshot, Incremented, HasRow, RefsInv, RefsTyped
    <3>2. OneWorkspaceEach'
      <4>1. \A p \in snaps : p[2] # s
        BY <2>5 DEF SaveSnapshot, Snapped, RefsInv, RefsTyped
      <4> QED
        BY <4>1, <2>5 DEF SaveSnapshot, RefsInv, OneWorkspaceEach
    <3>3. PruneStage'
      BY <2>5 DEF SaveSnapshot, RefsInv, PruneStage, Snapped
    <3> QED
      BY <3>1, <3>2, <3>3 DEF RefsInv
  <2>6. ASSUME NEW h \in Event \cup Snap, FallDue(h) PROVE RefsInv'
    BY <1>0, <2>6 DEF FallDue, RefsInv, RefsTyped, OneWorkspaceEach, PruneStage, Snapped, Places
  <2> QED
    BY <1>1, <2>1, <2>2, <2>3, <2>4, <2>5, <2>6 DEF Serve
<1>2. CASE Gc
  <2>1. CASE StartGc
    BY <2>1, <1>0 DEF StartGc, RefsInv, RefsTyped, OneWorkspaceEach, PruneStage, Snapped, Places
  <2>2. CASE DeleteRefs
    BY <2>2, <1>0 DEF DeleteRefs, RefsInv, RefsTyped, OneWorkspaceEach, PruneStage, Snapped
  <2>3. CASE DeleteVictim
    <3>1. RefsTyped' /\ OneWorkspaceEach'
      BY <2>3 DEF DeleteVictim, RefsInv, RefsTyped, OneWorkspaceEach
    <3>2. PruneStage'
      BY <2>3 DEF DeleteVictim, RefsInv, RefsTyped, PruneStage, Snapped
    <3> QED
      BY <3>1, <3>2 DEF RefsInv
  <2>4. CASE SelectUnreferenced \/ RowsDeleted \/ GcDone
    BY <2>4 DEF SelectUnreferenced, RowsDeleted, GcDone, RefsInv, RefsTyped, OneWorkspaceEach,
                PruneStage, Snapped, Places
  <2>5. ASSUME NEW e \in Event, PruneEvent(e) PROVE RefsInv'
    BY <2>5, <1>0 DEF PruneEvent, RefsInv, RefsTyped, OneWorkspaceEach, PruneStage, Snapped,
                      Charges, RefsOfEvent
  <2>6. ASSUME NEW s \in Snap, PruneSnapshot(s) PROVE RefsInv'
    BY <2>6, <1>0 DEF PruneSnapshot, UncountedForSnap, RefsInv, RefsTyped, OneWorkspaceEach,
                      PruneStage, Snapped, Charges, RefsOfSnap
  <2>7. ASSUME NEW o \in Object, Decrement(o) PROVE RefsInv'
    <3>1. RefsTyped'
      BY <2>7, StoreAssumption DEF Decrement, Decremented, HasRow, RefsInv, RefsTyped
    <3> QED
      BY <3>1, <2>7 DEF Decrement, RefsInv, OneWorkspaceEach, PruneStage, Snapped,
                        Charges, RefsOfEvent, RefsOfSnap
  <2>8. ASSUME NEW o \in Object, DeleteRow(o) PROVE RefsInv'
    BY <2>8 DEF DeleteRow, Without, Cascade, RefsInv, RefsTyped, OneWorkspaceEach, PruneStage,
                Snapped
  <2>9. ASSUME NEW o \in Object, RemoveFile(o) PROVE RefsInv'
    BY <2>9 DEF RemoveFile, RefsInv, RefsTyped, OneWorkspaceEach, PruneStage, Snapped
  <2> QED
    BY <1>2, <2>1, <2>2, <2>3, <2>4, <2>5, <2>6, <2>7, <2>8, <2>9 DEF Gc
<1>3. CASE Purge
  <2>1. CASE PurgeRecovered \/ PurgeFails \/ PurgeDone
    BY <2>1 DEF PurgeRecovered, PurgeFails, PurgeDone, Exclusive, RefsInv, RefsTyped,
                OneWorkspaceEach, PruneStage, Snapped, Places
  <2>2. CASE PurgeCommit
    <3>1. /\ eventRefs' \subseteq eventRefs /\ snaps' \subseteq snaps
          /\ snapRefs' \subseteq snapRefs /\ due' \subseteq due /\ owned' \subseteq owned
          /\ at' = "purgeReturn" /\ UNCHANGED <<file, victim, target>> /\ victim = None
          /\ work' = {}
      BY <2>2 DEF PurgeCommit, RefsInv, PruneStage
    <3>2. row' \in [Object -> Nat \cup {None}]
      <4>1. row' = [o \in Object |-> row'[o]]
        BY <2>2 DEF PurgeCommit
      <4>2. \A o \in Object : row'[o] \in {None, References(o)'}
        BY <2>2 DEF PurgeCommit, References
      <4>3. \A o \in Object : References(o)' \in Nat
        BY <3>1, FewerReferences DEF RefsInv
      <4> QED
        BY <4>1, <4>2, <4>3
    <3>3. RefsTyped' /\ OneWorkspaceEach'
      BY <3>1, <3>2 DEF RefsInv, RefsTyped, OneWorkspaceEach, Places
    <3>4. PruneStage'
      <4> SUFFICES ASSUME NEW s \in due' \cap Snap PROVE Snapped(s)'
        BY <3>1 DEF PruneStage
      <4>1. PICK p \in snaps' : p[2] = s
        BY <2>2, <1>0, <3>1 DEF PurgeCommit, RefsInv, RefsTyped
      <4> QED
        BY <4>1, <3>1 DEF Snapped, RefsInv, RefsTyped
    <3> QED
      BY <3>3, <3>4 DEF RefsInv
  <2>5. ASSUME NEW w \in Workspace, StartPurge(w) PROVE RefsInv'
    BY <2>5 DEF StartPurge, RefsInv, RefsTyped, OneWorkspaceEach, PruneStage, Snapped, Places
  <2>6. ASSUME NEW o \in Object, Stage(o) \/ Restore(o) \/ Discard(o) PROVE RefsInv'
    BY <2>6 DEF Stage, Restore, Discard, RefsInv, RefsTyped, OneWorkspaceEach, PruneStage, Snapped,
                Recovering
  <2> QED
    BY <1>3, <2>1, <2>2, <2>5, <2>6 DEF Purge
<1>4. CASE StartServe \/ Listen \/ Exit
  BY <1>4 DEF StartServe, Listen, Exit, RefsInv, RefsTyped, OneWorkspaceEach, PruneStage, Snapped,
              Places
<1>5. CASE UNCHANGED vars
  BY <1>5 DEF vars, RefsInv, RefsTyped, OneWorkspaceEach, PruneStage, Snapped, Charges,
              RefsOfEvent, RefsOfSnap
<1> QED
  BY <1>1, <1>2, <1>3, <1>4, <1>5 DEF Next

\* What a submission, a snapshot and gc's two deletions do to the references.
LEMMA SubmissionRefers ==
  ASSUME RefsInv, NEW w \in Workspace, NEW e \in Event, NEW refs \in SUBSET Chunk,
         SubmitEvent(w, e, refs), NEW o \in Object
  PROVE  References(o)' = References(o) + (IF o \in refs THEN 1 ELSE 0)
<1> DEFINE R == {r \in eventRefs : r[3] = o}
<1>1. FromSnaps(o)' = FromSnaps(o) /\ FromChunks(o)' = FromChunks(o)
  BY DEF SubmitEvent, FromSnaps, FromChunks
<1>2. ASSUME o \in refs
      PROVE  FromEvents(o)' = FromEvents(o) + 1
  <2>1. {r \in eventRefs' : r[3] = o} = R \cup {<<e, w, o>>}
    BY <1>2 DEF SubmitEvent
  <2>2. <<e, w, o>> \notin R
    BY <1>2 DEF SubmitEvent, RefsOfEvent
  <2>3. IsFiniteSet(R)
    BY RefsFinite, FS_Subset DEF RefsInv
  <2> QED
    BY <2>1, <2>2, <2>3, OneMore DEF FromEvents
<1>3. ASSUME o \notin refs
      PROVE  FromEvents(o)' = FromEvents(o)
  <2>1. {r \in eventRefs' : r[3] = o} = R
    BY <1>3 DEF SubmitEvent
  <2> QED
    BY <2>1 DEF FromEvents
<1>4. FromEvents(o) \in Nat /\ FromSnaps(o) \in Nat /\ FromChunks(o) \in Nat
  BY ReferencesCounted DEF RefsCounted, RefsInv
<1> QED
  BY <1>1, <1>2, <1>3, <1>4, ByKind

\* A saved snapshot adds the references it counts, and no other.
LEMMA SnapshotRefers ==
  ASSUME RefsInv, NEW w \in Workspace, NEW s \in Snap, NEW refs \in SUBSET Chunk,
         SaveSnapshot(w, s, refs), NEW o \in Object
  PROVE  References(o)' = References(o) + (IF o \in CountedForSnap(s, refs) THEN 1 ELSE 0)
<1> DEFINE P == {p \in snaps : p[2] = o}
           R == {r \in snapRefs : r[2] = o}
<1>1. /\ FromEvents(o)' = FromEvents(o)
      /\ snaps' = snaps \cup {<<w, s>>} /\ ~Snapped(s)
      /\ snapRefs' = snapRefs \cup {<<s, c>> : c \in refs}
  BY DEF SaveSnapshot, FromEvents
<1>2. s \notin refs /\ s \notin Chunk
  BY StoreAssumption
<1>3. IsFiniteSet(P) /\ IsFiniteSet(R)
  BY RefsFinite, FS_Subset DEF RefsInv
<1>4. FromEvents(o) \in Nat /\ FromSnaps(o) \in Nat /\ FromChunks(o) \in Nat
  BY ReferencesCounted DEF RefsCounted, RefsInv
<1>5. FromSnaps(o)' = FromSnaps(o) + (IF o = s THEN 1 ELSE 0)
  <2>1. CASE o = s
    <3>1. {p \in snaps' : p[2] = o} = P \cup {<<w, s>>} /\ <<w, s>> \notin P
      BY <1>1, <2>1 DEF Snapped
    <3> QED
      BY <2>1, <3>1, <1>3, OneMore DEF FromSnaps
  <2>2. CASE o # s
    <3>1. {p \in snaps' : p[2] = o} = P
      BY <1>1, <2>2
    <3>2. FromSnaps(o)' = FromSnaps(o)
      BY <3>1 DEF FromSnaps
    <3> QED
      BY <1>4, <2>2, <3>2
  <2> QED
    BY <2>1, <2>2
<1>6. FromChunks(o)' = FromChunks(o) + (IF o \in refs \ RefsOfSnap(s) THEN 1 ELSE 0)
  <2>1. CASE o \in refs \ RefsOfSnap(s)
    <3>1. {r \in snapRefs' : r[2] = o} = R \cup {<<s, o>>}
      BY <1>1, <2>1
    <3>2. <<s, o>> \notin R
      BY <2>1 DEF RefsOfSnap
    <3> QED
      BY <2>1, <3>1, <3>2, <1>3, OneMore DEF FromChunks
  <2>2. CASE o \notin refs \ RefsOfSnap(s)
    <3>1. {r \in snapRefs' : r[2] = o} = R
      BY <1>1, <2>2 DEF RefsOfSnap
    <3>2. FromChunks(o)' = FromChunks(o)
      BY <3>1 DEF FromChunks
    <3> QED
      BY <1>4, <2>2, <3>2
  <2> QED
    BY <2>1, <2>2
<1> QED
  BY <1>1, <1>2, <1>4, <1>5, <1>6, ByKind DEF CountedForSnap

\* The references gc deletes are those of its row, one for each object.
LEMMA RefsDeleted ==
  ASSUME RefsInv, DeleteRefs, NEW o \in Object
  PROVE  References(o)' + (IF o \in RefsOfEvent(victim) \cup RefsOfSnap(victim) THEN 1 ELSE 0)
           = References(o)
<1> DEFINE R == {r \in eventRefs : r[3] = o}
           S == {r \in snapRefs : r[2] = o}
<1>1. /\ eventRefs' = {r \in eventRefs : r[1] # victim}
      /\ snapRefs' = {r \in snapRefs : r[1] # victim}
      /\ FromSnaps(o)' = FromSnaps(o)
      /\ victim \in Event \cup Snap
  BY DEF DeleteRefs, RefsInv, RefsTyped, FromSnaps
<1>2. IsFiniteSet(R) /\ IsFiniteSet(S)
  BY RefsFinite, FS_Subset DEF RefsInv
<1>3. FromEvents(o) \in Nat /\ FromSnaps(o) \in Nat /\ FromChunks(o) \in Nat
  BY ReferencesCounted DEF RefsCounted, RefsInv
<1>4. /\ FromEvents(o)' \in Nat
      /\ FromEvents(o)' + (IF o \in RefsOfEvent(victim) THEN 1 ELSE 0) = FromEvents(o)
  <2>1. CASE o \in RefsOfEvent(victim)
    <3>1. PICK w \in Workspace : <<victim, w, o>> \in eventRefs
      BY <2>1 DEF RefsOfEvent
    <3>2. \A r \in R : r[1] = victim => r = <<victim, w, o>>
      BY <3>1 DEF RefsInv, RefsTyped, OneWorkspaceEach
    <3>3. {r \in eventRefs' : r[3] = o} = R \ {<<victim, w, o>>}
      BY <1>1, <3>2
    <3>4. FromEvents(o)' + 1 = FromEvents(o)
      BY <3>1, <3>3, <1>2, OneFewer DEF FromEvents
    <3>5. FromEvents(o)' \in Nat
      BY <3>3, <1>2, FS_Subset, FS_CardinalityType DEF FromEvents
    <3> QED
      BY <2>1, <3>4, <3>5
  <2>2. CASE o \notin RefsOfEvent(victim)
    <3>1. {r \in eventRefs' : r[3] = o} = R
      BY <1>1, <2>2 DEF RefsOfEvent, RefsInv, RefsTyped
    <3>2. FromEvents(o)' = FromEvents(o)
      BY <3>1 DEF FromEvents
    <3> QED
      BY <1>3, <2>2, <3>2
  <2> QED
    BY <2>1, <2>2
<1>5. /\ FromChunks(o)' \in Nat
      /\ FromChunks(o)' + (IF o \in RefsOfSnap(victim) THEN 1 ELSE 0) = FromChunks(o)
  <2>1. CASE o \in RefsOfSnap(victim)
    <3>1. <<victim, o>> \in S
      BY <2>1 DEF RefsOfSnap
    <3>2. {r \in snapRefs' : r[2] = o} = S \ {<<victim, o>>}
      BY <1>1 DEF RefsInv, RefsTyped
    <3>3. FromChunks(o)' + 1 = FromChunks(o)
      BY <3>1, <3>2, <1>2, OneFewer DEF FromChunks
    <3>4. FromChunks(o)' \in Nat
      BY <3>2, <1>2, FS_Subset, FS_CardinalityType DEF FromChunks
    <3> QED
      BY <2>1, <3>3, <3>4
  <2>2. CASE o \notin RefsOfSnap(victim)
    <3>1. {r \in snapRefs' : r[2] = o} = S
      BY <1>1, <2>2 DEF RefsOfSnap, RefsInv, RefsTyped
    <3>2. FromChunks(o)' = FromChunks(o)
      BY <3>1 DEF FromChunks
    <3> QED
      BY <1>3, <2>2, <3>2
  <2> QED
    BY <2>1, <2>2
<1>6. ~(o \in RefsOfEvent(victim) /\ o \in RefsOfSnap(victim))
  BY StoreAssumption DEF RefsOfEvent, RefsOfSnap, RefsInv, RefsTyped
<1> QED
  BY <1>1, <1>3, <1>4, <1>5, <1>6, ByKind

\* And with a deleted snapshot goes the reference to its own bytes.
LEMMA VictimDeleted ==
  ASSUME RefsInv, DeleteVictim, NEW o \in Object
  PROVE  References(o)' + (IF o = victim /\ Snapped(o) THEN 1 ELSE 0) = References(o)
<1> DEFINE P == {p \in snaps : p[2] = o}
<1>1. /\ FromEvents(o)' = FromEvents(o) /\ FromChunks(o)' = FromChunks(o)
      /\ snaps' = {p \in snaps : p[2] # victim}
  BY DEF DeleteVictim, FromEvents, FromChunks
<1>2. FromEvents(o) \in Nat /\ FromSnaps(o) \in Nat /\ FromChunks(o) \in Nat
  BY ReferencesCounted DEF RefsCounted, RefsInv
<1>3. CASE o = victim /\ Snapped(o)
  <2>1. PICK w \in Workspace : <<w, o>> \in snaps
    BY <1>3 DEF Snapped
  <2>2. P = {<<w, o>>}
    BY <2>1 DEF RefsInv, RefsTyped, OneWorkspaceEach
  <2>3. FromSnaps(o) = 1
    BY <2>2, FS_Singleton DEF FromSnaps
  <2>4. {p \in snaps' : p[2] = o} = {}
    BY <1>1, <1>3
  <2>5. FromSnaps(o)' = 0
    BY <2>4, FS_EmptySet DEF FromSnaps
  <2> QED
    BY <1>1, <1>2, <1>3, <2>3, <2>5, ByKind
<1>4. CASE ~(o = victim /\ Snapped(o))
  <2>1. {p \in snaps' : p[2] = o} = P
    BY <1>1, <1>4 DEF Snapped, RefsInv, RefsTyped
  <2>2. FromSnaps(o)' = FromSnaps(o)
    BY <2>1 DEF FromSnaps
  <2> QED
    BY <1>1, <1>2, <1>4, <2>2, ByKind
<1> QED
  BY <1>3, <1>4

\* What gc takes off is one of the references.
LEMMA ChargedIsReferenced ==
  ASSUME RefsInv, NEW o \in Charges(victim)
  PROVE  References(o) >= 1
<1>1. FromEvents(o) \in Nat /\ FromSnaps(o) \in Nat /\ FromChunks(o) \in Nat
  BY ReferencesCounted DEF RefsCounted, RefsInv
<1>2. /\ IsFiniteSet({r \in eventRefs : r[3] = o})
      /\ IsFiniteSet({s \in snaps : s[2] = o})
      /\ IsFiniteSet({r \in snapRefs : r[2] = o})
  BY RefsFinite, FS_Subset DEF RefsInv
<1>3. CASE o \in RefsOfEvent(victim)
  <2>1. {r \in eventRefs : r[3] = o} # {}
    <3>1. PICK w \in Workspace : <<victim, w, o>> \in eventRefs
      BY <1>3 DEF RefsOfEvent
    <3> QED
      BY <3>1
  <2>2. FromEvents(o) # 0
    BY <2>1, <1>2, FS_EmptySet DEF FromEvents
  <2> QED
    BY <1>1, <2>2, ByKind
<1>4. CASE o \in RefsOfSnap(victim)
  <2>1. {r \in snapRefs : r[2] = o} # {}
    BY <1>4 DEF RefsOfSnap
  <2>2. FromChunks(o) # 0
    BY <2>1, <1>2, FS_EmptySet DEF FromChunks
  <2> QED
    BY <1>1, <2>2, ByKind
<1>5. CASE Snapped(o)
  <2>1. {s \in snaps : s[2] = o} # {}
    BY <1>5 DEF Snapped
  <2>2. FromSnaps(o) # 0
    BY <2>1, <1>2, FS_EmptySet DEF FromSnaps
  <2> QED
    BY <1>1, <2>2, ByKind
<1> QED
  BY <1>3, <1>4, <1>5 DEF Charges

\* Count, charge and references move together.
Balanced(o) ==
  HasRow(o) /\ row'[o] + Charge(o)' + References(o) = row[o] + Charge(o) + References(o)'

\* A step that moves none of them, with gc at no row or at the same one.
LEMMA QuietCount ==
  ASSUME RefsInv, RefsInv', NEW o \in Object, HasRow(o), row'[o] = row[o],
         UNCHANGED <<eventRefs, snaps, snapRefs>>,
         \/ victim = None /\ victim' = None
         \/ UNCHANGED <<victim, work>>
  PROVE  Balanced(o)
<1>1. References(o)' = References(o)
  BY DEF References
<1>2. Charge(o)' = Charge(o)
  <2>1. CASE victim = None /\ victim' = None
    <3>1. (RefsTyped /\ victim = None => Uncharged)'
      BY NothingCharged, PTL
    <3> QED
      BY <2>1, <3>1, NothingCharged DEF Uncharged, RefsInv
  <2>2. CASE UNCHANGED <<victim, work>>
    BY <2>2 DEF Charge, Charges, RefsOfEvent, RefsOfSnap, Snapped
  <2> QED
    BY <2>1, <2>2
<1>3. row[o] \in Nat /\ Charge(o) \in Nat /\ References(o) \in Nat
  BY ReferencesCounted DEF RefsCounted, RefsInv, RefsTyped, HasRow, Charge
<1> QED
  BY <1>1, <1>2, <1>3 DEF Balanced

\* Every step balances the count of every object that has a row after it, but
\* for a new row, a count that was 0 already, the recount of a purge, and the
\* death of gc in the middle of a row.
LEMMA StepBalances ==
  ASSUME StoreInv, RefsInv, RefsInv', [Next]_vars, NEW o \in Object, HasRow(o)'
  PROVE  \/ Balanced(o)
         \/ PutRow(o)
         \/ Decrement(o) /\ row[o] = 0 /\ HasRow(o)
         \/ PurgeCommit
         \/ Exit /\ victim # None
<1> USE DEF disk, tables, command
<1>0. /\ Charge(o) \in {0, 1} /\ References(o) \in Nat
      /\ HasRow(o) => row[o] \in Nat
      /\ (RefsTyped /\ victim = None => Uncharged)'
      /\ victim = None => Charge(o) = 0
      /\ at # "gcRefs" => victim = None
      /\ at' # "gcRefs" => victim' = None
      /\ victim' = None => Charge(o)' = 0
  <2>1. (RefsTyped /\ victim = None => Uncharged)'
    BY NothingCharged, PTL
  <2> QED
    BY <2>1, NothingCharged, ReferencesCounted
       DEF Uncharged, RefsCounted, RefsInv, RefsTyped, PruneStage, HasRow, Charge
<1>1. CASE Serve
  <2>1. CASE \E p \in Object : PutFile(p) \/ (PutRow(p) /\ p # o)
    BY <2>1, <1>0, QuietCount DEF PutFile, PutRow, HasRow, RefsInv, RefsTyped
  <2>2. CASE \E w \in Workspace, p \in Object : PutOwner(w, p)
    BY <2>2, <1>0, QuietCount DEF PutOwner, HasRow
  <2>3. ASSUME NEW w \in Workspace, NEW e \in Event, NEW refs \in SUBSET Chunk,
               SubmitEvent(w, e, refs)
        PROVE  Balanced(o)
    <3>1. References(o)' = References(o) + (IF o \in refs THEN 1 ELSE 0)
      BY <2>3, SubmissionRefers
    <3>2. HasRow(o) /\ row'[o] = row[o] + (IF o \in refs THEN 1 ELSE 0)
      BY <2>3, <1>0 DEF SubmitEvent, Incremented, HasRow
    <3> QED
      BY <2>3, <3>1, <3>2, <1>0 DEF SubmitEvent, Balanced
  <2>4. ASSUME NEW w \in Workspace, NEW s \in Snap, NEW refs \in SUBSET Chunk,
               SaveSnapshot(w, s, refs)
        PROVE  Balanced(o)
    <3>1. References(o)' = References(o) + (IF o \in CountedForSnap(s, refs) THEN 1 ELSE 0)
      BY <2>4, SnapshotRefers
    <3>2. HasRow(o) /\ row'[o] = row[o] + (IF o \in CountedForSnap(s, refs) THEN 1 ELSE 0)
      BY <2>4, <1>0 DEF SaveSnapshot, Incremented, HasRow
    <3> QED
      BY <2>4, <3>1, <3>2, <1>0 DEF SaveSnapshot, Balanced
  <2>5. CASE \E h \in Event \cup Snap : FallDue(h)
    BY <2>5, <1>0, QuietCount DEF FallDue, HasRow
  <2> QED
    BY <1>1, <2>1, <2>2, <2>3, <2>4, <2>5 DEF Serve
<1>2. CASE Gc
  <2>1. CASE StartGc \/ SelectUnreferenced \/ RowsDeleted \/ GcDone
    BY <2>1, <1>0, QuietCount DEF StartGc, SelectUnreferenced, RowsDeleted, GcDone, HasRow
  <2>2. CASE DeleteRefs
    <3>1. References(o)' + (IF o \in RefsOfEvent(victim) \cup RefsOfSnap(victim) THEN 1 ELSE 0)
            = References(o)
      BY <2>2, RefsDeleted
    <3>2. Charge(o) = IF o \in Charges(victim) THEN 1 ELSE 0
      BY <2>2 DEF DeleteRefs, Charge
    <3>3. Charge(o)' = IF o = victim /\ o \in Snap /\ Snapped(o) THEN 1 ELSE 0
      BY <2>2 DEF DeleteRefs, Charge, Charges, RefsOfEvent, RefsOfSnap, Snapped, RefsInv, RefsTyped
    <3>4. \A c \in RefsOfEvent(victim) \cup RefsOfSnap(victim) : c \notin Snap
      BY StoreAssumption DEF RefsOfEvent, RefsOfSnap
    <3>5. row'[o] = row[o] /\ HasRow(o)
      BY <2>2 DEF DeleteRefs, HasRow
    <3>6. References(o)' \in Nat
      BY <2>2, FewerReferences DEF DeleteRefs, RefsInv
    <3> QED
      BY <3>1, <3>2, <3>3, <3>4, <3>5, <3>6, <1>0 DEF Charges, Balanced
  <2>3. CASE DeleteVictim
    <3>1. References(o)' + (IF o = victim /\ Snapped(o) THEN 1 ELSE 0) = References(o)
      BY <2>3, VictimDeleted
    <3>2. Charge(o) = IF o = victim /\ Snapped(o) THEN 1 ELSE 0
      BY <2>3, StoreAssumption
         DEF DeleteVictim, Charge, Charges, Snapped, RefsInv, RefsTyped, Object
    <3>3. row'[o] = row[o] /\ HasRow(o) /\ Charge(o)' = 0
      BY <2>3, <1>0 DEF DeleteVictim, HasRow
    <3>4. References(o)' \in Nat
      BY <2>3, FewerReferences DEF DeleteVictim, RefsInv
    <3> QED
      BY <3>1, <3>2, <3>3, <3>4, <1>0 DEF Balanced
  <2>4. ASSUME NEW e \in Event, PruneEvent(e) PROVE Balanced(o)
    <3>1. Charge(o)' = 0
      BY <2>4, StoreAssumption
         DEF PruneEvent, Charge, Charges, RefsOfEvent, RefsOfSnap, RefsInv, RefsTyped
    <3>2. References(o)' = References(o)
      BY <2>4 DEF PruneEvent, References
    <3> QED
      BY <2>4, <3>1, <3>2, <1>0 DEF PruneEvent, HasRow, Balanced
  <2>5. ASSUME NEW s \in Snap, PruneSnapshot(s) PROVE Balanced(o)
    <3>1. Charge(o)' = 0
      BY <2>5, StoreAssumption
         DEF PruneSnapshot, UncountedForSnap, Charge, Charges, RefsOfEvent, RefsOfSnap,
             RefsInv, RefsTyped
    <3>2. References(o)' = References(o)
      BY <2>5 DEF PruneSnapshot, References
    <3> QED
      BY <2>5, <3>1, <3>2, <1>0 DEF PruneSnapshot, HasRow, Balanced
  <2>6. ASSUME NEW p \in Object, Decrement(p)
        PROVE  Balanced(o) \/ (Decrement(o) /\ row[o] = 0 /\ HasRow(o))
    <3>1. References(o)' = References(o)
      BY <2>6 DEF Decrement, References
    <3>2. HasRow(o)
      BY <2>6 DEF Decrement, HasRow, RefsInv, RefsTyped
    <3>3. CASE p # o
      <4>1. row'[o] = row[o] /\ Charge(o)' = Charge(o)
        BY <2>6, <3>3
           DEF Decrement, RefsInv, RefsTyped, Charge, Charges, RefsOfEvent, RefsOfSnap, Snapped
      <4> QED
        BY <3>1, <3>2, <4>1, <1>0 DEF Balanced
    <3>4. CASE p = o /\ row[o] # 0
      <4>1. row'[o] = row[o] - 1
        BY <2>6, <3>2, <3>4, <1>0 DEF Decrement, Decremented, RefsInv, RefsTyped
      <4>2. Charge(o) = 0 /\ Charge(o)' = 1
        BY <2>6, <3>4
           DEF Decrement, RefsInv, PruneStage, Charge, Charges, RefsOfEvent, RefsOfSnap, Snapped
      <4> QED
        BY <3>1, <3>2, <4>1, <4>2, <1>0 DEF Balanced
    <3> QED
      BY <2>6, <3>2, <3>3, <3>4
  <2>7. ASSUME NEW p \in Object, DeleteRow(p) PROVE Balanced(o)
    <3>1. p # o /\ row'[o] = row[o] /\ HasRow(o)
      BY <2>7 DEF DeleteRow, Without, HasRow
    <3> QED
      BY <2>7, <3>1, <1>0, QuietCount DEF DeleteRow
  <2>8. CASE \E p \in Object : RemoveFile(p)
    BY <2>8, <1>0, QuietCount DEF RemoveFile, HasRow
  <2> QED
    BY <1>2, <2>1, <2>2, <2>3, <2>4, <2>5, <2>6, <2>7, <2>8 DEF Gc
<1>3. CASE Purge
  <2>1. CASE PurgeRecovered \/ PurgeFails \/ PurgeDone
    BY <2>1, <1>0, QuietCount DEF PurgeRecovered, PurgeFails, PurgeDone, HasRow
  <2>2. CASE \E w \in Workspace : StartPurge(w)
    BY <2>2, <1>0, QuietCount DEF StartPurge, HasRow
  <2>3. CASE \E p \in Object : Stage(p) \/ Restore(p) \/ Discard(p)
    BY <2>3, <1>0, QuietCount DEF Stage, Restore, Discard, Recovering, HasRow
  <2> QED
    BY <1>3, <2>1, <2>2, <2>3 DEF Purge
<1>4. CASE StartServe \/ Listen \/ (Exit /\ victim = None)
  BY <1>4, <1>0, QuietCount DEF StartServe, Listen, Exit, HasRow
<1>5. CASE UNCHANGED vars
  BY <1>5, <1>0, QuietCount DEF vars, HasRow
<1> QED
  BY <1>1, <1>2, <1>3, <1>4, <1>5 DEF Next

\* The two exceptions that write a count of their own.
LEMMA CountsWritten ==
  ASSUME RefsInv, RefsInv', NEW o \in Object, HasRow(o)'
  PROVE  /\ References(o)' \in Nat /\ References(o) \in Nat
         /\ HasRow(o) => row[o] \in Nat /\ Charge(o) \in {0, 1}
         /\ row'[o] \in Nat /\ Charge(o)' \in {0, 1}
         /\ PutRow(o) => row'[o] + Charge(o)' = 0 /\ References(o)' = References(o)
         /\ PurgeCommit => row'[o] + Charge(o)' = References(o)'
<1>1. (RefsTyped /\ victim = None => Uncharged)'
  BY NothingCharged, PTL
<1>2. (RefsTyped /\ OneWorkspaceEach => RefsCounted)'
  BY ReferencesCounted, PTL
<1>3. /\ References(o)' \in Nat /\ References(o) \in Nat
      /\ HasRow(o) => row[o] \in Nat /\ Charge(o) \in {0, 1}
      /\ row'[o] \in Nat /\ Charge(o)' \in {0, 1}
  BY <1>2, ReferencesCounted DEF RefsCounted, RefsInv, RefsTyped, HasRow, Charge
<1>4. at' # "gcRefs" => Charge(o)' = 0
  BY <1>1 DEF Uncharged, RefsInv, PruneStage
<1>5. ASSUME PutRow(o)
      PROVE  row'[o] + Charge(o)' = 0 /\ References(o)' = References(o)
  <2>1. References(o)' = References(o)
    BY <1>5 DEF PutRow, References
  <2>2. row'[o] = 0 /\ at' # "gcRefs"
    BY <1>5 DEF PutRow, RefsInv, RefsTyped, command
  <2> QED
    BY <2>1, <2>2, <1>4
<1>6. ASSUME PurgeCommit
      PROVE  row'[o] + Charge(o)' = References(o)'
  <2>1. row'[o] = References(o)'
    BY <1>6 DEF PurgeCommit, References, HasRow
  <2>2. at' # "gcRefs"
    BY <1>6 DEF PurgeCommit
  <2> QED
    BY <2>1, <2>2, <1>3, <1>4
<1> QED
  BY <1>3, <1>5, <1>6

\* When gc dies in a row, nobody is owed what it took off.
LEMMA DeathForgets ==
  ASSUME RefsInv, RefsInv', NEW o \in Object, Exit
  PROVE  /\ row'[o] = row[o] /\ Charge(o)' = 0 /\ References(o)' = References(o)
<1>1. (RefsTyped /\ victim = None => Uncharged)'
  BY NothingCharged, PTL
<1>2. victim' = None /\ row' = row
  BY DEF Exit, tables
<1>3. References(o)' = References(o)
  BY DEF Exit, tables, References
<1> QED
  BY <1>1, <1>2, <1>3 DEF Uncharged, RefsInv

\* No count exceeds its references, wherever gc dies.
LEMMA CountsBoundedNext ==
  StoreInv /\ RefsInv /\ RefsInv' /\ CountsBounded /\ [Next]_vars => CountsBounded'
<1> SUFFICES ASSUME StoreInv, RefsInv, RefsInv', CountsBounded, [Next]_vars,
                    NEW o \in Object, HasRow(o)'
             PROVE  row'[o] + Charge(o)' <= References(o)'
  BY DEF CountsBounded
<1>1. /\ References(o)' \in Nat /\ References(o) \in Nat
      /\ HasRow(o) => row[o] \in Nat /\ Charge(o) \in {0, 1}
      /\ row'[o] \in Nat /\ Charge(o)' \in {0, 1}
      /\ PutRow(o) => row'[o] + Charge(o)' = 0 /\ References(o)' = References(o)
      /\ PurgeCommit => row'[o] + Charge(o)' = References(o)'
  BY CountsWritten
<1>2. CASE Balanced(o)
  BY <1>1, <1>2 DEF Balanced, CountsBounded
<1>3. CASE PutRow(o)
  BY <1>1, <1>3
<1>4. CASE Decrement(o) /\ row[o] = 0 /\ HasRow(o)
  <2>1. o \in Charges(victim)
    BY <1>4 DEF Decrement, RefsInv, PruneStage
  <2>2. References(o) >= 1
    BY <2>1, ChargedIsReferenced
  <2>3. References(o)' = References(o)
    BY <1>4 DEF Decrement, References
  <2>4. row'[o] = 0
    BY <1>4 DEF Decrement, Decremented, RefsInv, RefsTyped
  <2> QED
    BY <1>1, <2>2, <2>3, <2>4
<1>5. CASE PurgeCommit
  BY <1>1, <1>5
<1>6. CASE Exit /\ victim # None
  <2>1. row'[o] = row[o] /\ Charge(o)' = 0 /\ References(o)' = References(o)
    BY <1>6, DeathForgets
  <2>2. HasRow(o)
    BY <2>1 DEF HasRow
  <2> QED
    BY <1>1, <2>1, <2>2 DEF CountsBounded
<1> QED
  BY <1>2, <1>3, <1>4, <1>5, <1>6, StepBalances

-----------------------------------------------------------------------------
(***************************************************************************)
(* Unless gc dies in the middle of a row.                                  *)
(***************************************************************************)

CountsExact ==
  \A o \in Object : HasRow(o) => row[o] + Charge(o) = References(o)

\* What a row refers to has a row and belongs to the workspace of the row, and
\* gc deletes only rows that nothing refers to.
Kept ==
  /\ \A p \in owned : HasRow(p[2])
  /\ \A r \in eventRefs : <<r[2], r[3]>> \in owned
  /\ snaps \subseteq owned
  /\ \A r \in snapRefs : \E p \in snaps : p[2] = r[1] /\ <<p[1], r[2]>> \in owned
  /\ at = "gcRows" =>
       \A o \in work : /\ \A r \in eventRefs : r[3] # o
                       /\ \A p \in snaps : p[2] # o
                       /\ \A r \in snapRefs : r[2] # o

\* Nothing refers to an object without a row.
LEMMA RowlessIsUnreferenced ==
  ASSUME RefsInv, Kept, NEW o \in Object, ~HasRow(o)
  PROVE  References(o) = 0
<1>1. /\ {r \in eventRefs : r[3] = o} = {} /\ {s \in snaps : s[2] = o} = {}
      /\ {r \in snapRefs : r[2] = o} = {}
  BY DEF Kept, RefsInv, RefsTyped
<1> QED
  BY <1>1, FS_EmptySet DEF References

\* What has no references is referred to by no row.
LEMMA UnreferencedIsFree ==
  ASSUME RefsInv, NEW o, References(o) = 0
  PROVE  /\ \A r \in eventRefs : r[3] # o
         /\ \A p \in snaps : p[2] # o
         /\ \A r \in snapRefs : r[2] # o
<1>1. FromEvents(o) = 0 /\ FromSnaps(o) = 0 /\ FromChunks(o) = 0
  BY ReferencesCounted, ByKind DEF RefsCounted, RefsInv
<1>2. /\ IsFiniteSet({r \in eventRefs : r[3] = o})
      /\ IsFiniteSet({s \in snaps : s[2] = o})
      /\ IsFiniteSet({r \in snapRefs : r[2] = o})
  BY RefsFinite, FS_Subset DEF RefsInv
<1>3. /\ {r \in eventRefs : r[3] = o} = {} /\ {s \in snaps : s[2] = o} = {}
      /\ {r \in snapRefs : r[2] = o} = {}
  BY <1>1, <1>2, FS_EmptySet DEF FromEvents, FromSnaps, FromChunks
<1> QED
  BY <1>3

\* Counts stay exact.
LEMMA CountsExactNext ==
  ASSUME ~TornPrune, StoreInv, RefsInv, RefsInv', CountsExact, Kept, [Next]_vars
  PROVE  CountsExact'
<1> SUFFICES ASSUME NEW o \in Object, HasRow(o)'
             PROVE  row'[o] + Charge(o)' = References(o)'
  BY DEF CountsExact
<1>1. /\ References(o)' \in Nat /\ References(o) \in Nat
      /\ HasRow(o) => row[o] \in Nat /\ Charge(o) \in {0, 1}
      /\ row'[o] \in Nat /\ Charge(o)' \in {0, 1}
      /\ PutRow(o) => row'[o] + Charge(o)' = 0 /\ References(o)' = References(o)
      /\ PurgeCommit => row'[o] + Charge(o)' = References(o)'
  BY CountsWritten
<1>2. CASE Balanced(o)
  BY <1>1, <1>2 DEF Balanced, CountsExact
<1>3. CASE PutRow(o)
  BY <1>1, <1>3, RowlessIsUnreferenced DEF PutRow
<1>4. CASE Decrement(o) /\ row[o] = 0 /\ HasRow(o)
  <2>1. o \in Charges(victim) /\ Charge(o) = 0
    BY <1>4 DEF Decrement, RefsInv, PruneStage, Charge
  <2>2. References(o) >= 1
    BY <2>1, ChargedIsReferenced
  <2> QED
    BY <1>1, <1>4, <2>1, <2>2 DEF CountsExact
<1>5. CASE PurgeCommit
  BY <1>1, <1>5
<1>6. CASE Exit /\ victim # None
  BY <1>6 DEF Exit
<1> QED
  BY <1>2, <1>3, <1>4, <1>5, <1>6, StepBalances

\* What rows refer to stays theirs.
LEMMA KeptNext ==
  ASSUME ~TornPrune, StoreInv, RefsInv, RefsInv', CountsExact, Kept, [Next]_vars
  PROVE  Kept'
<1> USE DEF disk, tables, command
<1>0. Chunk \subseteq Object /\ Snap \subseteq Object
  BY DEF Object
<1>1. CASE Serve
  <2>1. CASE \E o \in Object : PutFile(o)
    BY <2>1 DEF PutFile, Kept, HasRow
  <2>2. ASSUME NEW o \in Object, PutRow(o) PROVE Kept'
    BY <2>2, StoreAssumption DEF PutRow, Kept, HasRow, RefsInv, RefsTyped
  <2>3. ASSUME NEW w \in Workspace, NEW o \in Object, PutOwner(w, o) PROVE Kept'
    BY <2>3 DEF PutOwner, Kept, HasRow
  <2>4. ASSUME NEW w \in Workspace, NEW e \in Event, NEW refs \in SUBSET Chunk,
               SubmitEvent(w, e, refs)
        PROVE  Kept'
    <3>1. \A p \in owned : HasRow(p[2])'
      BY <2>4, StoreAssumption
         DEF SubmitEvent, Incremented, Kept, HasRow, RefsInv, RefsTyped
    <3> QED
      BY <2>4, <3>1 DEF SubmitEvent, Visible, Kept
  <2>5. ASSUME NEW w \in Workspace, NEW s \in Snap, NEW refs \in SUBSET Chunk,
               SaveSnapshot(w, s, refs)
        PROVE  Kept'
    <3>1. \A p \in owned : HasRow(p[2])'
      BY <2>5, StoreAssumption
         DEF SaveSnapshot, Incremented, Kept, HasRow, RefsInv, RefsTyped
    <3>2. snaps' \subseteq owned'
      BY <2>5 DEF SaveSnapshot, Visible, Kept
    <3>3. \A r \in snapRefs' : \E p \in snaps' : p[2] = r[1] /\ <<p[1], r[2]>> \in owned'
      <4> SUFFICES ASSUME NEW r \in snapRefs'
                   PROVE  \E p \in snaps' : p[2] = r[1] /\ <<p[1], r[2]>> \in owned
        BY <2>5 DEF SaveSnapshot
      <4>1. CASE r \in snapRefs
        BY <4>1, <2>5 DEF SaveSnapshot, Kept
      <4>2. CASE r \notin snapRefs
        <5>1. PICK o \in refs : r = <<s, o>>
          BY <4>2, <2>5 DEF SaveSnapshot
        <5>2. <<w, o>> \in owned /\ <<w, s>> \in snaps'
          BY <2>5 DEF SaveSnapshot, Visible
        <5> QED
          BY <5>1, <5>2
      <4> QED
        BY <4>1, <4>2
    <3> QED
      BY <2>5, <3>1, <3>2, <3>3 DEF SaveSnapshot, Kept
  <2>6. CASE \E h \in Event \cup Snap : FallDue(h)
    BY <2>6 DEF FallDue, Kept, HasRow
  <2> QED
    BY <1>1, <2>1, <2>2, <2>3, <2>4, <2>5, <2>6 DEF Serve
<1>2. CASE Gc
  <2>1. CASE StartGc \/ RowsDeleted \/ GcDone
    BY <2>1 DEF StartGc, RowsDeleted, GcDone, Kept, HasRow
  <2>2. CASE DeleteRefs
    BY <2>2 DEF DeleteRefs, Kept, HasRow
  <2>3. CASE DeleteVictim
    <3>1. \A r \in snapRefs : r[1] # victim
      BY <2>3 DEF DeleteVictim, RefsOfSnap, RefsInv, RefsTyped
    <3> QED
      BY <2>3, <3>1 DEF DeleteVictim, Kept, HasRow
  <2>4. CASE \/ \E e \in Event : PruneEvent(e)
             \/ \E s \in Snap : PruneSnapshot(s)
    BY <2>4 DEF PruneEvent, PruneSnapshot, Kept, HasRow
  <2>5. CASE SelectUnreferenced
    <3>1. \A o \in work' : References(o) = 0
      <4> SUFFICES ASSUME NEW o \in work' PROVE References(o) = 0
        OBVIOUS
      <4>1. o \in Object /\ row[o] = 0 /\ HasRow(o) /\ victim = None
        BY <2>5, StoreAssumption DEF SelectUnreferenced, HasRow
      <4>2. Charge(o) = 0
        BY <4>1, NothingCharged DEF Uncharged, RefsInv
      <4>3. References(o) \in Nat
        BY ReferencesCounted DEF RefsCounted, RefsInv
      <4> QED
        BY <4>1, <4>2, <4>3 DEF CountsExact
    <3>2. \A o \in work' : /\ \A r \in eventRefs : r[3] # o
                           /\ \A p \in snaps : p[2] # o
                           /\ \A r \in snapRefs : r[2] # o
      BY <3>1, UnreferencedIsFree
    <3> QED
      BY <2>5, <3>2 DEF SelectUnreferenced, Kept, HasRow
  <2>6. ASSUME NEW o \in Object, Decrement(o) PROVE Kept'
    <3>1. \A p \in Object : HasRow(p) => HasRow(p)'
      BY <2>6, StoreAssumption DEF Decrement, Decremented, HasRow, RefsInv, RefsTyped
    <3>2. \A p \in owned : p[2] \in Object
      BY DEF RefsInv, RefsTyped
    <3> QED
      BY <2>6, <3>1, <3>2 DEF Decrement, Kept
  <2>7. ASSUME NEW o \in Object, DeleteRow(o) PROVE Kept'
    <3>1. /\ \A r \in eventRefs : r[3] # o
          /\ \A p \in snaps : p[2] # o
          /\ \A r \in snapRefs : r[2] # o
      BY <2>7 DEF DeleteRow, Kept
    <3>2. /\ owned' = {p \in owned : p[2] # o} /\ row' = Without({o})
          /\ UNCHANGED <<eventRefs, snaps, snapRefs, at, work>>
      BY <2>7 DEF DeleteRow, Cascade
    <3>3. \A p \in owned' : HasRow(p[2])'
      BY <3>2 DEF Without, Kept, HasRow, RefsInv, RefsTyped
    <3>4. \A r \in eventRefs : <<r[2], r[3]>> \in owned'
      BY <3>1, <3>2 DEF Kept
    <3>5. snaps \subseteq owned'
      BY <3>1, <3>2 DEF Kept
    <3>6. \A r \in snapRefs : \E p \in snaps : p[2] = r[1] /\ <<p[1], r[2]>> \in owned'
      BY <3>1, <3>2 DEF Kept
    <3> QED
      BY <3>2, <3>3, <3>4, <3>5, <3>6 DEF Kept
  <2>8. CASE \E o \in Object : RemoveFile(o)
    BY <2>8 DEF RemoveFile, Kept, HasRow
  <2> QED
    BY <1>2, <2>1, <2>2, <2>3, <2>4, <2>5, <2>6, <2>7, <2>8 DEF Gc
<1>3. CASE Purge
  <2>1. CASE PurgeRecovered \/ PurgeFails \/ PurgeDone
    BY <2>1 DEF PurgeRecovered, PurgeFails, PurgeDone, Kept, HasRow
  <2>2. CASE \E w \in Workspace : StartPurge(w)
    BY <2>2 DEF StartPurge, Kept, HasRow
  <2>3. CASE \E o \in Object : Stage(o) \/ Restore(o) \/ Discard(o)
    BY <2>3 DEF Stage, Restore, Discard, Recovering, Kept, HasRow
  <2>4. CASE PurgeCommit
    <3>1. /\ eventRefs' = {r \in eventRefs : r[2] # target}
          /\ snaps' = {s \in snaps : s[1] # target}
          /\ owned' = {p \in owned : p[1] # target}
          /\ at' = "purgeReturn"
      BY <2>4 DEF PurgeCommit
    <3>2. \A r \in snapRefs' : r \in snapRefs /\ ~\E p \in snaps \ snaps' : p[2] = r[1]
      BY <2>4 DEF PurgeCommit, RefsInv, RefsTyped, OneWorkspaceEach
    <3>3. \A p \in owned' : HasRow(p[2])'
      <4> SUFFICES ASSUME NEW p \in owned' PROVE row'[p[2]] # None
        BY DEF HasRow
      <4>1. p \in owned /\ p[1] # target /\ p[2] \in Object /\ HasRow(p[2])
        BY <3>1 DEF Kept, RefsInv, RefsTyped
      <4>2. row'[p[2]] = References(p[2])'
        BY <4>1, <2>4 DEF PurgeCommit, References
      <4>3. References(p[2])' \in Nat
        BY <4>1, <2>4, FewerReferences DEF PurgeCommit, RefsInv
      <4> QED
        BY <4>2, <4>3, StoreAssumption
    <3>4. \A r \in eventRefs' : <<r[2], r[3]>> \in owned'
      BY <3>1 DEF Kept
    <3>5. snaps' \subseteq owned'
      BY <3>1 DEF Kept
    <3>6. \A r \in snapRefs' : \E p \in snaps' : p[2] = r[1] /\ <<p[1], r[2]>> \in owned'
      BY <3>1, <3>2 DEF Kept
    <3> QED
      BY <3>1, <3>3, <3>4, <3>5, <3>6 DEF Kept
  <2> QED
    BY <1>3, <2>1, <2>2, <2>3, <2>4 DEF Purge
<1>4. CASE StartServe \/ Listen \/ Exit
  BY <1>4 DEF StartServe, Listen, Exit, Kept, HasRow
<1>5. CASE UNCHANGED vars
  BY <1>5 DEF vars, Kept, HasRow
<1> QED
  BY <1>1, <1>2, <1>3, <1>4, <1>5 DEF Next

-----------------------------------------------------------------------------
(***************************************************************************)
(* Theorems about the counts.                                              *)
(***************************************************************************)

\* An object has at most one reference of each event, and two of each snapshot.
LEMMA ReferencesAtMost ==
  ASSUME RefsInv, NEW o
  PROVE  References(o) <= MaxRefs
<1> DEFINE E == {r \in eventRefs : r[3] = o}
           P == {s \in snaps : s[2] = o}
           R == {r \in snapRefs : r[2] = o}
<1>1. IsFiniteSet(Snap) /\ IsFiniteSet(Event)
  BY StoreAssumption, FS_Subset DEF Object
<1>2. Cardinality(E) <= Cardinality(Event)
  <2> DEFINE f == [r \in E |-> r[1]]
  <2>1. f \in [E -> Event]
    BY DEF RefsInv, RefsTyped
  <2>2. ASSUME NEW q \in E, NEW r \in E, f[q] = f[r] PROVE q = r
    <3>1. q[1] = r[1] /\ q[3] = r[3]
      BY <2>2
    <3>2. q[2] = r[2]
      BY <3>1 DEF RefsInv, OneWorkspaceEach
    <3> QED
      BY <3>1, <3>2 DEF RefsInv, RefsTyped
  <2> QED
    BY <2>1, <2>2, <1>1, FS_Injection DEF Injection, IsInjective
<1>3. Cardinality(P) <= Cardinality(Snap)
  <2> DEFINE f == [p \in P |-> p[2]]
  <2>1. f \in [P -> Snap]
    BY DEF RefsInv, RefsTyped
  <2>2. ASSUME NEW p \in P, NEW q \in P, f[p] = f[q] PROVE p = q
    <3>1. p[2] = q[2]
      BY <2>2
    <3>2. p[1] = q[1]
      BY <3>1 DEF RefsInv, OneWorkspaceEach
    <3> QED
      BY <3>1, <3>2 DEF RefsInv, RefsTyped
  <2> QED
    BY <2>1, <2>2, <1>1, FS_Injection DEF Injection, IsInjective
<1>4. Cardinality(R) <= Cardinality(Snap)
  <2> DEFINE f == [r \in R |-> r[1]]
  <2>1. f \in [R -> Snap]
    BY DEF RefsInv, RefsTyped
  <2>2. ASSUME NEW q \in R, NEW r \in R, f[q] = f[r] PROVE q = r
    BY <2>2 DEF RefsInv, RefsTyped
  <2> QED
    BY <2>1, <2>2, <1>1, FS_Injection DEF Injection, IsInjective
<1>5. Cardinality(E) \in Nat /\ Cardinality(P) \in Nat /\ Cardinality(R) \in Nat
  BY ReferencesCounted DEF RefsCounted, RefsInv, FromEvents, FromSnaps, FromChunks
<1>6. Cardinality(Event) \in Nat /\ Cardinality(Snap) \in Nat
  BY <1>1, FS_CardinalityType
<1>7. References(o) = Cardinality(E) + Cardinality(P) + Cardinality(R)
  BY DEF References
<1> QED
  BY <1>2, <1>3, <1>4, <1>5, <1>6, <1>7 DEF MaxRefs

\* Every variable keeps its type, and no count exceeds the references there
\* can be, wherever gc dies.  refs.go:8-26, maintenance.go:66-157.
THEOREM TypeCorrect == Spec => []TypeOK
<1>1. StoreInv /\ RefsInv /\ CountsBounded => TypeOK
  <2> SUFFICES ASSUME StoreInv, RefsInv, CountsBounded PROVE TypeOK
    OBVIOUS
  <2>1. row \in [Object -> 0 .. MaxRefs \cup {None}]
    <3> SUFFICES ASSUME NEW o \in Object, row[o] # None PROVE row[o] \in 0 .. MaxRefs
      BY DEF RefsInv, RefsTyped
    <3>1. row[o] \in Nat /\ row[o] + Charge(o) <= References(o) /\ Charge(o) \in {0, 1}
      BY DEF RefsInv, RefsTyped, CountsBounded, HasRow, Charge
    <3>2. References(o) \in Nat /\ References(o) <= MaxRefs
      BY ReferencesCounted, ReferencesAtMost DEF RefsCounted, RefsInv
    <3>3. MaxRefs \in Nat
      BY StoreAssumption, FS_Subset, FS_CardinalityType DEF MaxRefs, Object
    <3> QED
      BY <3>1, <3>2, <3>3
  <2> QED
    BY <2>1 DEF TypeOK, StoreInv, Subsets, RefsInv, RefsTyped
<1> QED
  BY StoreInvInit, RefsInvInit, StoreInvNext, RefsInvNext, CountsBoundedNext, <1>1, PTL DEF Spec

\* The invariant of a store whose gc dies between rows only.
CountedInv == StoreInv /\ RefsInv /\ CountsExact /\ Kept

\* Exact counts and what they keep are inductive, unless a row is torn.
LEMMA CountedAlways == ~TornPrune => (Spec => []CountedInv)
<1> SUFFICES ASSUME ~TornPrune PROVE Spec => []CountedInv
  OBVIOUS
<1>1. Init => CountedInv
  BY StoreInvInit, RefsInvInit DEF Init, CountedInv, CountsExact, Kept, HasRow
<1>2. CountedInv /\ [Next]_vars => CountedInv'
  BY StoreInvNext, RefsInvNext, CountsExactNext, KeptNext DEF CountedInv
<1> QED
  BY <1>1, <1>2, PTL DEF Spec

\* Whatever is uploaded, pruned, purged or interrupted between two rows of gc:
\* while no command is at work, every count is the number of references.
THEOREM CountsAreExact == ~TornPrune => (Spec => []CountsCountReferences)
<1> SUFFICES ASSUME ~TornPrune PROVE Spec => []CountsCountReferences
  OBVIOUS
<1>1. CountedInv => CountsCountReferences
  <2> SUFFICES ASSUME CountedInv, at \in {"stopped", "serving"}, NEW o \in Object, HasRow(o)
               PROVE  row[o] = References(o)
    BY DEF CountsCountReferences
  <2>1. Charge(o) = 0
    BY NothingCharged DEF CountedInv, RefsInv, PruneStage, Uncharged
  <2> QED
    BY <2>1 DEF CountedInv, CountsExact, RefsInv, RefsTyped, HasRow
<1> QED
  BY CountedAlways, <1>1, PTL

\* A serving server can return every object that the events and snapshots of a
\* workspace name, to the devices of that workspace.
THEOREM RetainedIsServed == ~TornPrune => (Spec => []RetainedIsRetrievable)
<1> SUFFICES ASSUME ~TornPrune PROVE Spec => []RetainedIsRetrievable
  OBVIOUS
<1>1. CountedInv => RetainedIsRetrievable
  <2> SUFFICES ASSUME CountedInv, at = "serving", NEW w \in Workspace, NEW o \in Named(w)
               PROVE  <<w, o>> \in owned /\ HasRow(o) /\ o \in file
    BY DEF RetainedIsRetrievable
  <2>1. <<w, o>> \in owned
    <3>1. CASE \E e \in Event : <<e, w, o>> \in eventRefs
      BY <3>1 DEF CountedInv, Kept
    <3>2. CASE <<w, o>> \in snaps
      BY <3>2 DEF CountedInv, Kept
    <3>3. CASE \E s \in Snap : <<w, s>> \in snaps /\ <<s, o>> \in snapRefs
      <4>1. PICK s \in Snap : <<w, s>> \in snaps /\ <<s, o>> \in snapRefs
        BY <3>3
      <4>2. PICK p \in snaps : p[2] = s /\ <<p[1], o>> \in owned
        BY <4>1 DEF CountedInv, Kept
      <4>3. p[1] = w
        BY <4>1, <4>2 DEF CountedInv, RefsInv, OneWorkspaceEach
      <4> QED
        BY <4>2, <4>3
    <3> QED
      BY <3>1, <3>2, <3>3 DEF Named, RefsOfSnap
  <2>2. HasRow(o) /\ o \in Object
    BY <2>1 DEF CountedInv, Kept, RefsInv, RefsTyped
  <2> QED
    BY <2>1, <2>2 DEF CountedInv, StoreInv, BytesKept
<1> QED
  BY CountedAlways, <1>1, PTL
=============================================================================
