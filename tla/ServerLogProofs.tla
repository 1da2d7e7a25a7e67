-------------------------- MODULE ServerLogProofs --------------------------
(***************************************************************************)
(* What holds of the server's event log for any number of roots, paths,    *)
(* concurrent requests and events.                                         *)
(***************************************************************************)
EXTENDS ServerLog, WellFoundedInduction, TLAPS

Proved == INSTANCE IncarnationLogProofs

\* A non-empty set of naturals has a least element, and Min is it.
LEMMA MinIsLeast ==
  ASSUME NEW S \in SUBSET Nat, S # {}
  PROVE  Min(S) \in S /\ \A x \in S : Min(S) <= x
<1>1. PICK x \in S : \A y \in S : ~(<<y, x>> \in OpToRel(<, Nat))
  BY NatLessThanWellFounded, WFMin
<1>2. ASSUME NEW y \in S
      PROVE  x <= y
  <2>1. <<y, x>> \in Nat \X Nat /\ <<y, x>>[1] = y /\ <<y, x>>[2] = x
    OBVIOUS
  <2>2. ~(y < x)
    BY <1>1, <2>1, Zenon DEF OpToRel
  <2>. QED  BY <2>2
<1>3. \E z \in S : \A y \in S : z <= y
  BY <1>2
<1>. QED  BY <1>3 DEF Min

\* The floor written is a sequence number: MIN over the snapshots read, the
\* head, or 0.  db/workspace.go:126-138.
LEMMA FloorValueType ==
  ASSUME NEW S \in SUBSET RootInfo, NEW n \in Seqs
  PROVE  FloorValue(S, n) \in Seqs
<1>. USE ConstantsAssumption DEF Seqs, RootInfo
<1>1. CASE S = {}
  BY <1>1 DEF FloorValue
<1>2. CASE \E x \in S : x.snap = 0
  BY <1>2 DEF FloorValue
<1>3. CASE S # {} /\ ~ \E x \in S : x.snap = 0
  <2>. DEFINE T == {x.snap : x \in S}
  <2>1. T \in SUBSET Seqs /\ T \in SUBSET Nat /\ T # {}
    BY <1>3
  <2>2. FloorValue(S, n) = Min(T)
    BY <1>3 DEF FloorValue
  <2>. HIDE DEF T
  <2>3. Min(T) \in T
    BY <2>1, MinIsLeast
  <2>. QED  BY <2>1, <2>2, <2>3
<1>. QED  BY <1>1, <1>2, <1>3

\* What ActiveRoots returns has the type of a handler's copy of it.
LEMMA ActiveRootsType ==
  ASSUME TypeOK
  PROVE  ActiveRoots \in SUBSET RootInfo
BY DEF TypeOK, ActiveRoots, RootInfo, RootRow

\* A submitted event changes the tables and the submitting handler within
\* their types.  db/events.go:115-127, 187.
LEMMA AcceptEventType ==
  ASSUME TypeOK, NEW h \in Handler, NEW r \in Root,
         NEW p \in Path \cup {None}, NEW base \in Seqs \cup {None},
         NEW inc \in Seqs \cup {None}, NEW next \in Stage,
         NEW type \in {"root_add", "root_remove", "content"},
         AcceptEvent(h, type, r, p, base, inc, next)
  PROVE  /\ sqliteSeq + 1 \in Seqs
         /\ sqliteSeq' \in Seqs /\ currentSeq' \in Seqs /\ floor' \in Seqs
         /\ log' \in SUBSET Contract!Event
         /\ pruned' \in SUBSET Seqs
         /\ up' \in BOOLEAN
         /\ eventMu' \in Handler \cup {None}
         /\ pc' \in [Handler -> Stage]
         /\ rootsRead' \in [Handler -> SUBSET RootInfo]
         /\ seqRead' \in [Handler -> Seqs]
         /\ accepted' \in [Handler -> Seqs]
         /\ published' \in Seqs
<1>. USE ConstantsAssumption DEF TypeOK, AcceptEvent
<1>1. sqliteSeq + 1 \in Seqs
  BY DEF Seqs
<1>2. log' \in SUBSET Contract!Event
  BY <1>1 DEF Contract!Event, Seqs
<1>. QED  BY <1>1, <1>2 DEF LockEventMu, Begin

LEMMA TypeInit == Init => TypeOK
BY ConstantsAssumption DEF Init, TypeOK, Seqs, RootRow, RootInfo, Stage

\* The steps of POST /v1/events keep the types.
LEMMA SubmitType ==
  ASSUME TypeOK, NEW h \in Handler, SubmitStep(h)
  PROVE  TypeOK'
<1>. USE ConstantsAssumption
<1>1. 1 .. currentSeq \subseteq Seqs /\ 0 .. currentSeq \subseteq Seqs
  BY DEF TypeOK, Seqs
<1>2. ASSUME NEW r \in Root, SubmitRootAdd(h, r)
      PROVE  TypeOK'
  <2>1. AcceptEvent(h, "root_add", r, None, None, None, "floor_roots")
    BY <1>2 DEF SubmitRootAdd
  <2>2. sqliteSeq + 1 \in Seqs /\ 0 \in Seqs
    BY <2>1 DEF AcceptEvent, TypeOK, Seqs
  <2>3. roots' \in [Root -> RootRow]
    <3>1. [created |-> sqliteSeq + 1, removed |-> 0, snap |-> 0] \in RootRow
      BY <2>2 DEF RootRow
    <3>. QED  BY <1>2, <3>1 DEF SubmitRootAdd, TypeOK
  <2>4. heads' \in [Root -> [Path -> Seqs]]
    <3>1. [p \in Path |-> 0] \in [Path -> Seqs]
      BY <2>2
    <3>. QED  BY <1>2, <3>1 DEF SubmitRootAdd, TypeOK, DropHeads
  <2>. QED  BY <2>1, <2>3, <2>4, AcceptEventType DEF TypeOK, Stage
<1>3. ASSUME NEW r \in Root, NEW inc \in Incarnation, SubmitRootRemove(h, r, inc)
      PROVE  TypeOK'
  <2>1. /\ AcceptEvent(h, "root_remove", r, None, None, inc, "floor_roots")
        /\ inc \in Seqs \cup {None}
    BY <1>1, <1>3 DEF SubmitRootRemove, Incarnation
  <2>2. sqliteSeq + 1 \in Seqs /\ 0 \in Seqs
    BY <2>1 DEF AcceptEvent, TypeOK, Seqs
  <2>3. roots' \in [Root -> RootRow]
    <3>1. [created |-> roots[r].created, removed |-> sqliteSeq + 1, snap |-> 0]
            \in RootRow
      BY <2>2 DEF RootRow, TypeOK
    <3>. QED  BY <1>3, <3>1 DEF SubmitRootRemove, TypeOK
  <2>4. heads' \in [Root -> [Path -> Seqs]]
    <3>1. [p \in Path |-> 0] \in [Path -> Seqs]
      BY <2>2
    <3>. QED  BY <1>3, <3>1 DEF SubmitRootRemove, TypeOK, DropHeads
  <2>. QED  BY <2>1, <2>3, <2>4, AcceptEventType DEF TypeOK, Stage
<1>4. ASSUME NEW r \in Root, NEW p \in Path, NEW base \in 0 .. currentSeq,
             NEW inc \in Incarnation, SubmitContent(h, r, p, base, inc)
      PROVE  TypeOK'
  <2>1. /\ AcceptEvent(h, "content", r, p, base, inc, "publish")
        /\ inc \in Seqs \cup {None} /\ base \in Seqs
    BY <1>1, <1>4 DEF SubmitContent, Incarnation
  <2>2. roots' \in [Root -> RootRow] /\ heads' \in [Root -> [Path -> Seqs]]
    BY <1>4, <2>1, AcceptEventType DEF SubmitContent, TypeOK, Stage
  <2>. QED  BY <2>1, <2>2, AcceptEventType DEF TypeOK, Stage
<1>. QED  BY <1>2, <1>3, <1>4 DEF SubmitStep

\* All other steps keep the types.
LEMMA TypeStep ==
  ASSUME TypeOK, [Next]_vars
  PROVE  TypeOK'
<1>. USE ConstantsAssumption
<1>1. ASSUME NEW h \in Handler, HandlerStep(h)
      PROVE  TypeOK'
  <2>1. CASE SubmitStep(h)
    BY <2>1, SubmitType
  <2>2. CASE Publish(h)
    BY <2>2 DEF Publish, TypeOK, tables, Stage, Seqs
  <2>3. CASE SnapshotStep(h)
    BY <2>3 DEF SnapshotStep, SaveSnapshot, TypeOK, RootRow, Stage, Seqs
  <2>4. CASE FloorReadRoots(h)
    BY <2>4, ActiveRootsType DEF FloorReadRoots, TypeOK, tables, Stage
  <2>5. CASE FloorReadSeq(h)
    BY <2>5 DEF FloorReadSeq, TypeOK, tables, Stage
  <2>6. CASE FloorWrite(h)
    <3>1. FloorValue(rootsRead[h], seqRead[h]) \in Seqs
      BY FloorValueType DEF TypeOK
    <3>. QED  BY <2>6, <3>1 DEF FloorWrite, Forget, TypeOK, Stage, Seqs
  <2>7. CASE RecomputeFails(h)
    BY <2>7 DEF RecomputeFails, Forget, TypeOK, tables, Stage, Seqs
  <2>8. CASE BootstrapReadRoots(h)
    BY <2>8, ActiveRootsType DEF BootstrapReadRoots, TypeOK, tables, Stage
  <2>9. CASE BootstrapReadSeq(h)
    BY <2>9 DEF BootstrapReadSeq, TypeOK, tables, Stage
  <2>10. CASE BootstrapDone(h)
    BY <2>10 DEF BootstrapDone, Forget, TypeOK, tables, Stage, Seqs
  <2>. QED  BY <1>1, <2>1, <2>2, <2>3, <2>4, <2>5, <2>6, <2>7, <2>8, <2>9, <2>10
            DEF HandlerStep, FloorStep, BootstrapStep
<1>2. CASE OtherWorkspaceSubmit
  BY <1>2 DEF OtherWorkspaceSubmit, TypeOK, handlers, Seqs
<1>3. CASE Crash
  <2>1. 0 \in Seqs /\ "idle" \in Stage /\ FALSE \in BOOLEAN
    BY DEF Seqs, Stage
  <2>. QED  BY <1>3, <2>1 DEF Crash, TypeOK, tables
<1>4. CASE Restart
  BY <1>4 DEF Restart, TypeOK, tables, handlers
<1>5. CASE Gc
  <2>1. PICK e \in log : PruneEvent(e)
    BY <1>5 DEF Gc
  <2>2. e.seq \in Seqs
    BY <2>1 DEF PruneEvent, TypeOK, Seqs, Contract!Event
  <2>. QED  BY <2>1, <2>2 DEF PruneEvent, TypeOK, handlers
<1>6. CASE UNCHANGED vars
  BY <1>6 DEF vars, tables, handlers, TypeOK
<1>. QED  BY <1>1, <1>2, <1>3, <1>4, <1>5, <1>6 DEF Next

\* Type correctness.
THEOREM TypeCorrect == Spec => []TypeOK
BY TypeInit, TypeStep, PTL DEF Spec

-----------------------------------------------------------------------------
(***************************************************************************)
(* The inductive invariant.  The tables agree with the log; numbers are    *)
(* unique and below the head; and the handler that has accepted an event   *)
(* it has not published yet holds eventMu, so nobody has gone further.     *)
(***************************************************************************)
SeqInv ==
  /\ currentSeq <= sqliteSeq
  /\ published <= currentSeq
  /\ \A e \in log : 1 <= e.seq /\ e.seq <= currentSeq
  /\ \A e, f \in log : e.seq = f.seq => e = f

MutexInv ==
  \A h \in Handler :
    /\ accepted[h] # 0 => /\ eventMu = h
                          /\ accepted[h] = currentSeq
                          /\ published < currentSeq
    /\ pc[h] = "publish" => accepted[h] # 0

Inv == TypeOK /\ SeqInv /\ MutexInv /\ TablesMatchLog

LEMMA InvInit == Init => Inv
<1>. SUFFICES ASSUME Init  PROVE SeqInv /\ MutexInv /\ TablesMatchLog
  BY TypeInit DEF Inv
<1>1. SeqInv /\ MutexInv
  BY DEF Init, SeqInv, MutexInv
<1>2. TablesMatchLog
  BY DEF Init, TablesMatchLog, RootsMatchLog, HeadsMatchLog, Active
<1>. QED  BY <1>1, <1>2

\* The event a submission appends.
NewEvent(type, r, p, base, inc) ==
  [seq |-> sqliteSeq + 1, type |-> type, root |-> r,
   path |-> p, base |-> base, inc |-> inc]

\* An accepted event is numbered above the head, hence above the log.
\* db/events.go:115-125, 187.
LEMMA AcceptEventSeq ==
  ASSUME Inv, NEW h \in Handler, NEW type, NEW r, NEW p, NEW base, NEW inc,
         NEW next \in {"floor_roots", "publish"},
         AcceptEvent(h, type, r, p, base, inc, next)
  PROVE  /\ log' = log \cup {NewEvent(type, r, p, base, inc)}
         /\ \A f \in log : f.seq < sqliteSeq + 1
         /\ SeqInv' /\ MutexInv'
<1>. USE ConstantsAssumption DEF Inv
<1>1. /\ log' = log \cup {NewEvent(type, r, p, base, inc)}
      /\ sqliteSeq' = sqliteSeq + 1 /\ currentSeq' = sqliteSeq + 1
      /\ published' = published
      /\ accepted' = [accepted EXCEPT ![h] = sqliteSeq + 1]
      /\ pc' = [pc EXCEPT ![h] = next]
      /\ eventMu = None /\ eventMu' = h
  BY DEF AcceptEvent, NewEvent, LockEventMu
<1>2. sqliteSeq \in Nat /\ currentSeq \in Nat /\ published \in Nat
  BY DEF TypeOK, Seqs
<1>3. \A f \in log : f.seq \in Nat /\ f.seq < sqliteSeq + 1
  BY <1>2 DEF SeqInv, TypeOK, Contract!Event
<1>4. SeqInv'
  BY <1>1, <1>2, <1>3 DEF SeqInv, NewEvent
<1>5. \A g \in Handler : accepted[g] = 0 /\ pc[g] # "publish"
  BY <1>1 DEF MutexInv
<1>6. MutexInv'
  BY <1>1, <1>2, <1>5 DEF MutexInv, TypeOK, SeqInv
<1>. QED  BY <1>1, <1>3, <1>4, <1>6

\* A live root has a running incarnation in the log, the one roots names.
LEMMA LiveIncarnation ==
  ASSUME Inv, NEW r \in Root, Active(r)
  PROVE  \E a \in log : /\ Contract!StartsIncarnation(a)
                        /\ a.root = r
                        /\ a.seq = roots[r].created
BY DEF Inv, TablesMatchLog, RootsMatchLog, Active, Contract!StartsIncarnation

\* A root that is not live has none.
LEMMA NoLiveIncarnation ==
  ASSUME Inv, NEW r \in Root, ~Active(r), NEW a \in log, a.root = r
  PROVE  ~Contract!StartsIncarnation(a)
<1>. SUFFICES ASSUME Contract!StartsIncarnation(a)  PROVE FALSE
  OBVIOUS
<1>. USE DEF Inv, TablesMatchLog
<1>1. a.type = "root_add" /\ 1 <= a.seq /\ a.seq \in Nat
  BY DEF Contract!StartsIncarnation, SeqInv, TypeOK, Contract!Event
<1>2. a.seq <= roots[r].removed
  BY <1>1 DEF RootsMatchLog, Contract!IsRootEvent
<1>3. roots[r].removed # 0
  BY <1>1, <1>2
<1>4. PICK e \in log : /\ e.type = "root_remove" /\ e.root = r
                       /\ e.seq = roots[r].removed
  BY <1>3 DEF RootsMatchLog
<1>5. e.seq <= a.seq /\ e.seq \in Nat
  BY <1>4 DEF Contract!StartsIncarnation, Contract!IsRootEvent, TypeOK,
              Contract!Event
<1>6. e = a
  BY <1>1, <1>2, <1>4, <1>5 DEF SeqInv
<1>. QED  BY <1>1, <1>4, <1>6

\* Steps that leave the log, the heads and the lives of the roots alone leave
\* the tables in agreement with the log.
LEMMA TablesUntouched ==
  ASSUME TablesMatchLog, log' = log, heads' = heads,
         \A r \in Root : /\ roots'[r].created = roots[r].created
                         /\ roots'[r].removed = roots[r].removed
  PROVE  TablesMatchLog'
<1>1. \A r \in Root : Active(r)' <=> Active(r)
  BY DEF Active
<1>2. RootsMatchLog'
  BY <1>1 DEF TablesMatchLog, RootsMatchLog, Contract!IsRootEvent
<1>3. HeadsMatchLog'
  BY <1>1 DEF TablesMatchLog, HeadsMatchLog
<1>. QED  BY <1>2, <1>3 DEF TablesMatchLog

-----------------------------------------------------------------------------
\* root_add: the new row is the root's last root event, and DELETE FROM
\* path_heads leaves no head of an earlier life.  db/events.go:128-145.
LEMMA RootAddTables ==
  ASSUME Inv, NEW h \in Handler, NEW r \in Root, SubmitRootAdd(h, r)
  PROVE  TablesMatchLog'
<1>. DEFINE n == sqliteSeq + 1
            g == NewEvent("root_add", r, None, None, None)
<1>. USE DEF Inv
<1>1. /\ log' = log \cup {g} /\ \A f \in log : f.seq < n
      /\ roots' = [roots EXCEPT ![r] = [created |-> n, removed |-> 0, snap |-> 0]]
      /\ heads' = [heads EXCEPT ![r] = [p \in Path |-> 0]]
  BY AcceptEventSeq DEF SubmitRootAdd, DropHeads
<1>2. /\ n \in Nat /\ n # 0
      /\ g.seq = n /\ g.type = "root_add" /\ g.root = r
      /\ \A f \in log : f.seq \in Nat
  BY ConstantsAssumption DEF NewEvent, TypeOK, Seqs, Contract!Event
<1>3. /\ roots'[r].created = n /\ roots'[r].removed = 0
      /\ \A p \in Path : heads'[r][p] = 0
      /\ \A q \in Root : q # r => roots'[q] = roots[q] /\ heads'[q] = heads[q]
  BY <1>1 DEF TypeOK
<1>. HIDE DEF n, g
<1>4. Active(r)' /\ \A q \in Root : q # r => (Active(q)' <=> Active(q))
  BY <1>2, <1>3 DEF Active
<1>5. RootsMatchLog'
  <2>. SUFFICES ASSUME NEW q \in Root  PROVE (RootsMatchLog!(q))'
    BY DEF RootsMatchLog
  <2>1. CASE q = r
    BY <1>1, <1>2, <1>3, <1>4, <2>1
       DEF TablesMatchLog, RootsMatchLog, Contract!IsRootEvent
  <2>2. CASE q # r
    BY <1>1, <1>2, <1>3, <1>4, <2>2
       DEF TablesMatchLog, RootsMatchLog, Contract!IsRootEvent
  <2>. QED  BY <2>1, <2>2
<1>6. HeadsMatchLog'
  <2>. SUFFICES ASSUME NEW q \in Root, NEW p \in Path
                PROVE  (HeadsMatchLog!(q, p))'
    BY DEF HeadsMatchLog
  <2>1. CASE q = r
    BY <1>1, <1>2, <1>3, <1>4, <2>1 DEF HeadsMatchLog
  <2>2. CASE q # r
    BY <1>1, <1>2, <1>3, <1>4, <2>2 DEF TablesMatchLog, HeadsMatchLog
  <2>. QED  BY <2>1, <2>2
<1>. QED  BY <1>5, <1>6 DEF TablesMatchLog

\* root_remove: the row keeps the removal, the heads go.
\* db/events.go:146-156.
LEMMA RootRemoveTables ==
  ASSUME Inv, NEW h \in Handler, NEW r \in Root, NEW inc,
         SubmitRootRemove(h, r, inc)
  PROVE  TablesMatchLog'
<1>. DEFINE n == sqliteSeq + 1
            g == NewEvent("root_remove", r, None, None, inc)
<1>. USE DEF Inv
<1>1. /\ log' = log \cup {g} /\ \A f \in log : f.seq < n
      /\ roots' = [roots EXCEPT ![r] =
                     [created |-> @.created, removed |-> n, snap |-> 0]]
      /\ heads' = [heads EXCEPT ![r] = [p \in Path |-> 0]]
      /\ Active(r)
  BY AcceptEventSeq DEF SubmitRootRemove, DropHeads
<1>2. /\ n \in Nat /\ n # 0
      /\ g.seq = n /\ g.type = "root_remove" /\ g.root = r
      /\ \A f \in log : f.seq \in Nat
  BY ConstantsAssumption DEF NewEvent, TypeOK, Seqs, Contract!Event
<1>3. /\ roots'[r].created = roots[r].created /\ roots'[r].removed = n
      /\ \A p \in Path : heads'[r][p] = 0
      /\ \A q \in Root : q # r => roots'[q] = roots[q] /\ heads'[q] = heads[q]
  BY <1>1 DEF TypeOK
<1>4. roots[r].created # 0 /\ roots[r].created < n
  <2>1. PICK a \in log : a.seq = roots[r].created
    BY <1>1, LiveIncarnation
  <2>. QED  BY <1>1, <2>1 DEF Active
<1>. HIDE DEF n, g
<1>5. ~Active(r)' /\ \A q \in Root : q # r => (Active(q)' <=> Active(q))
  BY <1>2, <1>3 DEF Active
<1>6. RootsMatchLog'
  <2>. SUFFICES ASSUME NEW q \in Root  PROVE (RootsMatchLog!(q))'
    BY DEF RootsMatchLog
  <2>1. CASE q = r
    BY <1>1, <1>2, <1>3, <1>4, <1>5, <2>1
       DEF TablesMatchLog, RootsMatchLog, Contract!IsRootEvent
  <2>2. CASE q # r
    BY <1>1, <1>2, <1>3, <1>5, <2>2
       DEF TablesMatchLog, RootsMatchLog, Contract!IsRootEvent
  <2>. QED  BY <2>1, <2>2
<1>7. HeadsMatchLog'
  <2>. SUFFICES ASSUME NEW q \in Root, NEW p \in Path
                PROVE  (HeadsMatchLog!(q, p))'
    BY DEF HeadsMatchLog
  <2>1. CASE q = r
    BY <1>3, <1>5, <2>1
  <2>2. CASE q # r
    BY <1>1, <1>2, <1>3, <1>5, <2>2 DEF TablesMatchLog, HeadsMatchLog
  <2>. QED  BY <2>1, <2>2
<1>. QED  BY <1>6, <1>7 DEF TablesMatchLog

\* Content: the event becomes the head of its path.  db/events.go:157-173.
LEMMA ContentTables ==
  ASSUME Inv, NEW h \in Handler, NEW r \in Root, NEW p \in Path, NEW base,
         NEW inc, SubmitContent(h, r, p, base, inc)
  PROVE  TablesMatchLog'
<1>. DEFINE n == sqliteSeq + 1
            g == NewEvent("content", r, p, base, inc)
<1>. USE DEF Inv
<1>1. /\ log' = log \cup {g} /\ \A f \in log : f.seq < n
      /\ roots' = roots
      /\ heads' = [heads EXCEPT ![r][p] = n]
      /\ Active(r)
  BY AcceptEventSeq DEF SubmitContent
<1>2. /\ n \in Nat /\ n # 0
      /\ g.seq = n /\ g.type = "content" /\ g.root = r /\ g.path = p
      /\ \A f \in log : f.seq \in Nat
  BY ConstantsAssumption DEF NewEvent, TypeOK, Seqs, Contract!Event
<1>3. /\ heads'[r][p] = n
      /\ \A q \in Root, x \in Path :
           <<q, x>> # <<r, p>> => heads'[q][x] = heads[q][x]
  BY <1>1 DEF TypeOK
<1>4. roots[r].created < n
  <2>1. PICK a \in log : a.seq = roots[r].created
    BY <1>1, LiveIncarnation
  <2>. QED  BY <1>1, <2>1
<1>. HIDE DEF n, g
<1>5. \A q \in Root : Active(q)' <=> Active(q)
  BY <1>1 DEF Active
<1>6. RootsMatchLog'
  BY <1>1, <1>2, <1>5 DEF TablesMatchLog, RootsMatchLog, Contract!IsRootEvent
<1>7. HeadsMatchLog'
  <2>. SUFFICES ASSUME NEW q \in Root, NEW x \in Path
                PROVE  (HeadsMatchLog!(q, x))'
    BY DEF HeadsMatchLog
  <2>1. CASE q = r /\ x = p
    BY <1>1, <1>2, <1>3, <1>4, <1>5, <2>1 DEF HeadsMatchLog
  <2>2. CASE <<q, x>> # <<r, p>>
    <3>1. heads'[q][x] = heads[q][x] /\ ~(g.root = q /\ g.path = x)
      BY <1>2, <1>3, <2>2
    <3>. QED  BY <1>1, <1>2, <1>5, <3>1 DEF TablesMatchLog, HeadsMatchLog
  <2>. QED  BY <2>1, <2>2
<1>. QED  BY <1>6, <1>7 DEF TablesMatchLog

-----------------------------------------------------------------------------
(***************************************************************************)
(* Every submission is an append the contract allows.                      *)
(***************************************************************************)
LEMMA AppendNext ==
  ASSUME NEW g \in Contract!Event, Contract!MayAppend(g),
         \A f \in log : f.seq < g.seq, log \in SUBSET Contract!Event,
         log' = log \cup {g}
  PROVE  Contract!Next
<1>1. g \notin log
  BY DEF Contract!Event
<1>. QED  BY <1>1 DEF Contract!Next, Contract!Append

\* An accepted submission is an append that the contract allows.
LEMMA SubmitAppends ==
  ASSUME Inv, NEW h \in Handler, SubmitStep(h)
  PROVE  Contract!Next
<1>. USE ConstantsAssumption DEF Inv
<1>0. /\ 1 .. currentSeq \subseteq Nat /\ 0 .. currentSeq \subseteq Nat
      /\ sqliteSeq + 1 \in Nat
  BY DEF TypeOK, Seqs
<1>1. ASSUME NEW r \in Root, SubmitRootAdd(h, r)
      PROVE  Contract!Next
  <2>. DEFINE g == NewEvent("root_add", r, None, None, None)
  <2>1. log' = log \cup {g} /\ \A f \in log : f.seq < g.seq
    BY <1>1, AcceptEventSeq DEF SubmitRootAdd, NewEvent
  <2>2. g \in Contract!Event /\ g.type = "root_add" /\ g.root = r /\ g.inc = None
    BY <1>0 DEF NewEvent, Contract!Event
  <2>3. ~Active(r)
    BY <1>1 DEF SubmitRootAdd
  <2>. HIDE DEF g
  <2>4. Contract!MayAppend(g)
    BY <2>2, <2>3, NoLiveIncarnation DEF Contract!MayAppend
  <2>. QED  BY <2>1, <2>2, <2>4, AppendNext DEF TypeOK
<1>2. ASSUME NEW r \in Root, NEW inc \in Incarnation, SubmitRootRemove(h, r, inc)
      PROVE  Contract!Next
  <2>. DEFINE g == NewEvent("root_remove", r, None, None, inc)
  <2>1. log' = log \cup {g} /\ \A f \in log : f.seq < g.seq
    BY <1>2, AcceptEventSeq DEF SubmitRootRemove, NewEvent
  <2>2. g \in Contract!Event /\ g.type = "root_remove" /\ g.root = r /\ g.inc = inc
    BY <1>0 DEF NewEvent, Contract!Event, Incarnation
  <2>3. Active(r) /\ inc \in {None, roots[r].created}
    BY <1>2 DEF SubmitRootRemove, SameIncarnation
  <2>. HIDE DEF g
  <2>4. Contract!MayAppend(g)
    BY <2>2, <2>3, LiveIncarnation DEF Contract!MayAppend, Contract!Named
  <2>. QED  BY <2>1, <2>2, <2>4, AppendNext DEF TypeOK
<1>3. ASSUME NEW r \in Root, NEW p \in Path, NEW base \in 0 .. currentSeq,
             NEW inc \in Incarnation, SubmitContent(h, r, p, base, inc)
      PROVE  Contract!Next
  <2>. DEFINE g == NewEvent("content", r, p, base, inc)
  <2>1. log' = log \cup {g} /\ \A f \in log : f.seq < g.seq
    BY <1>3, AcceptEventSeq DEF SubmitContent, NewEvent
  <2>2. /\ g \in Contract!Event
        /\ g.type = "content" /\ g.root = r /\ g.path = p
        /\ g.base = base /\ g.inc = inc
    BY <1>0 DEF NewEvent, Contract!Event, Incarnation
  <2>3. /\ Active(r) /\ inc \in {None, roots[r].created}
        /\ BaseAccepted(heads[r][p], base)
    BY <1>3 DEF SubmitContent, SameIncarnation
  <2>. HIDE DEF g
  <2>4. PICK a \in log : /\ Contract!StartsIncarnation(a)
                         /\ a.root = r /\ a.seq = roots[r].created
    BY <2>3, LiveIncarnation
  <2>5. \A f \in Contract!PathEvents(a, p) :
          /\ f \in log /\ f.seq \in Nat /\ f.seq <= heads[r][p]
    BY <2>3, <2>4
       DEF Contract!PathEvents, TablesMatchLog, HeadsMatchLog, TypeOK, Contract!Event
  <2>6. heads[r][p] \in Nat /\ base \in Nat
    BY <1>0 DEF TypeOK, Seqs
  <2>7. IF Contract!PathEvents(a, p) = {}
        THEN base = 0
        ELSE \A f \in Contract!PathEvents(a, p) : base >= f.seq
    <3>1. CASE heads[r][p] = 0
      <4>1. \A f \in Contract!PathEvents(a, p) : 1 <= f.seq
        BY DEF Contract!PathEvents, SeqInv
      <4>2. Contract!PathEvents(a, p) = {}
        BY <2>5, <3>1, <4>1
      <4>. QED  BY <2>3, <3>1, <4>2 DEF BaseAccepted
    <3>2. CASE heads[r][p] # 0
      <4>1. heads[r][p] <= base
        BY <2>3, <3>2 DEF BaseAccepted
      <4>2. Contract!PathEvents(a, p) # {}
        BY <2>4, <3>2 DEF TablesMatchLog, HeadsMatchLog, Contract!PathEvents
      <4>. QED  BY <2>5, <2>6, <4>1, <4>2
    <3>. QED  BY <3>1, <3>2
  <2>8. Contract!MayAppend(g)
    BY <2>2, <2>3, <2>4, <2>7 DEF Contract!MayAppend, Contract!Named
  <2>. QED  BY <2>1, <2>2, <2>8, AppendNext DEF TypeOK
<1>. QED  BY <1>1, <1>2, <1>3 DEF SubmitStep

-----------------------------------------------------------------------------
\* A submission preserves the invariant.
LEMMA SubmitInv ==
  ASSUME Inv, NEW h \in Handler, SubmitStep(h)
  PROVE  Inv'
<1>1. TypeOK'
  BY SubmitType DEF Inv
<1>2. TablesMatchLog'
  BY RootAddTables, RootRemoveTables, ContentTables DEF SubmitStep
<1>3. SeqInv' /\ MutexInv'
  BY AcceptEventSeq
     DEF SubmitStep, SubmitRootAdd, SubmitRootRemove, SubmitContent
<1>. QED  BY <1>1, <1>2, <1>3 DEF Inv

\* The lives of the roots, as the other steps see them.
SameLives ==
  /\ log' = log /\ heads' = heads
  /\ \A r \in Root : /\ roots'[r].created = roots[r].created
                     /\ roots'[r].removed = roots[r].removed

\* What is no submission leaves log, heads and the lives of the roots alone.
LEMMA OtherSteps ==
  ASSUME Inv, [Next]_vars, ~ \E h \in Handler : SubmitStep(h)
  PROVE  SameLives /\ SeqInv' /\ MutexInv'
<1>. USE ConstantsAssumption DEF Inv
<1>1. ASSUME NEW h \in Handler, HandlerStep(h)
      PROVE  SameLives /\ SeqInv' /\ MutexInv'
  <2>1. CASE Publish(h)
    BY <2>1 DEF Publish, tables, SameLives, SeqInv, MutexInv, TypeOK, Seqs
  <2>2. CASE SnapshotStep(h)
    <3>1. PICK r \in Root, base \in 0 .. currentSeq : SaveSnapshot(h, r, base)
      BY <2>2 DEF SnapshotStep
    <3>2. SameLives
      BY <3>1 DEF SaveSnapshot, SameLives, TypeOK, RootRow
    <3>. QED  BY <3>1, <3>2 DEF SaveSnapshot, SeqInv, MutexInv, TypeOK
  <2>3. CASE FloorReadRoots(h)
    BY <2>3 DEF FloorReadRoots, tables, SameLives, SeqInv, MutexInv, TypeOK
  <2>4. CASE FloorReadSeq(h)
    BY <2>4 DEF FloorReadSeq, tables, SameLives, SeqInv, MutexInv, TypeOK
  <2>5. CASE FloorWrite(h)
    BY <2>5 DEF FloorWrite, SameLives, SeqInv, MutexInv, TypeOK
  <2>6. CASE RecomputeFails(h)
    BY <2>6 DEF RecomputeFails, tables, SameLives, SeqInv, MutexInv, TypeOK
  <2>7. CASE BootstrapReadRoots(h)
    BY <2>7 DEF BootstrapReadRoots, tables, SameLives, SeqInv, MutexInv, TypeOK
  <2>8. CASE BootstrapReadSeq(h)
    BY <2>8 DEF BootstrapReadSeq, tables, SameLives, SeqInv, MutexInv, TypeOK
  <2>9. CASE BootstrapDone(h)
    BY <2>9 DEF BootstrapDone, tables, SameLives, SeqInv, MutexInv, TypeOK
  <2>. QED  BY <1>1, <2>1, <2>2, <2>3, <2>4, <2>5, <2>6, <2>7, <2>8, <2>9
            DEF HandlerStep, FloorStep, BootstrapStep
<1>2. CASE OtherWorkspaceSubmit
  BY <1>2 DEF OtherWorkspaceSubmit, handlers, SameLives, SeqInv, MutexInv, TypeOK, Seqs
<1>3. CASE Crash
  BY <1>3 DEF Crash, tables, SameLives, SeqInv, MutexInv
<1>4. CASE Restart
  BY <1>4 DEF Restart, tables, handlers, SameLives, SeqInv, MutexInv
<1>5. CASE Gc
  BY <1>5 DEF Gc, PruneEvent, handlers, SameLives, SeqInv, MutexInv
<1>6. CASE UNCHANGED vars
  BY <1>6 DEF vars, tables, handlers, SameLives, SeqInv, MutexInv
<1>. QED  BY <1>1, <1>2, <1>3, <1>4, <1>5, <1>6 DEF Next

LEMMA InvStep ==
  ASSUME Inv, [Next]_vars
  PROVE  Inv'
<1>1. CASE \E h \in Handler : SubmitStep(h)
  BY <1>1, SubmitInv
<1>2. CASE ~ \E h \in Handler : SubmitStep(h)
  BY <1>2, OtherSteps, TablesUntouched, TypeStep DEF Inv, SameLives
<1>. QED  BY <1>1, <1>2

LEMMA Invariant == Spec => []Inv
BY InvInit, InvStep, PTL DEF Spec

\* The tables never disagree with the log, however requests interleave and
\* wherever the server crashes.  db/events.go:127-173.
THEOREM TablesCorrect == Spec => []TablesMatchLog
BY Invariant, PTL DEF Inv

\* Events are handed to the hub in the order of their numbers.
\* api/events.go:80-104.
THEOREM PublishedInOrder == Spec => PublishInOrder
<1>1. ASSUME Inv, [Next]_vars
      PROVE  [published' > published]_published
  <2>1. ASSUME NEW h \in Handler, Publish(h)
        PROVE  published' > published
    BY <1>1, <2>1 DEF Publish, Inv, MutexInv, TypeOK, Seqs
  <2>2. CASE \E h \in Handler : SubmitStep(h)
    BY <2>2 DEF SubmitStep, SubmitRootAdd, SubmitRootRemove, SubmitContent,
                AcceptEvent
  <2>3. CASE \E h \in Handler : SnapshotStep(h) \/ FloorStep(h)
                                 \/ RecomputeFails(h) \/ BootstrapStep(h)
    BY <2>3 DEF SnapshotStep, SaveSnapshot, FloorStep, FloorReadRoots,
                FloorReadSeq, FloorWrite, RecomputeFails, BootstrapStep,
                BootstrapReadRoots, BootstrapReadSeq, BootstrapDone
  <2>4. CASE OtherWorkspaceSubmit \/ Crash \/ Restart \/ Gc \/ UNCHANGED vars
    BY <2>4 DEF OtherWorkspaceSubmit, Crash, Restart, Gc, PruneEvent, vars
  <2>. QED  BY <1>1, <2>1, <2>2, <2>3, <2>4 DEF Next, HandlerStep
<1>. QED  BY <1>1, Invariant, PTL DEF Spec, PublishInOrder

\* The server implements the contract of the log: its tables never make it
\* accept what the log alone would forbid.  db/events.go:19-221.
THEOREM ContractImplemented == Spec => ImplementsContract
<1>1. Init => Contract!Init
  BY DEF Init, Contract!Init
<1>2. Inv /\ [Next]_vars => [Contract!Next]_log
  <2>. SUFFICES ASSUME Inv, [Next]_vars  PROVE Contract!Next \/ log' = log
    OBVIOUS
  <2>1. CASE \E h \in Handler : SubmitStep(h)
    BY <2>1, SubmitAppends
  <2>2. CASE ~ \E h \in Handler : SubmitStep(h)
    BY <2>2, OtherSteps DEF SameLives
  <2>. QED  BY <2>1, <2>2
<1>. QED  BY <1>1, <1>2, Invariant, PTL DEF Spec, ImplementsContract, Contract!Spec

\* IncarnationLogProofs speaks of the same log and the same contract.
LEMMA SameContract ==
  /\ Contract!Init <=> Proved!Init
  /\ [Contract!Next]_log <=> [Proved!Next]_log
  /\ Contract!NoLostUpdate <=> Proved!NoLostUpdate
  /\ Contract!IncarnationBound <=> Proved!IncarnationBound
<1>1. Contract!Init <=> Proved!Init
  BY DEF Contract!Init, Proved!Init
<1>2. \A e \in log : Contract!StartsIncarnation(e) <=> Proved!StartsIncarnation(e)
  BY DEF Contract!StartsIncarnation, Proved!StartsIncarnation,
         Contract!IsRootEvent, Proved!IsRootEvent
<1>3. \A e, p : Contract!PathEvents(e, p) = Proved!PathEvents(e, p)
  BY DEF Contract!PathEvents, Proved!PathEvents
<1>4. \A e : Contract!Append(e) <=> Proved!Append(e)
  BY <1>2, <1>3 DEF Contract!Append, Proved!Append, Contract!MayAppend,
                    Proved!MayAppend, Contract!Named, Proved!Named
<1>5. [Contract!Next]_log <=> [Proved!Next]_log
  BY <1>4 DEF Contract!Next, Proved!Next, Contract!Event, Proved!Event
<1>6. \A e, f : Contract!SeparatedByRootEvent(e, f) <=> Proved!SeparatedByRootEvent(e, f)
  BY DEF Contract!SeparatedByRootEvent, Proved!SeparatedByRootEvent,
         Contract!IsRootEvent, Proved!IsRootEvent
<1>7. /\ Contract!NoLostUpdate <=> Proved!NoLostUpdate
      /\ Contract!IncarnationBound <=> Proved!IncarnationBound
  BY <1>6 DEF Contract!NoLostUpdate, Proved!NoLostUpdate,
              Contract!IncarnationBound, Proved!IncarnationBound
<1>. QED  BY <1>1, <1>5, <1>7

\* What the contract guarantees the server therefore guarantees: whoever
\* writes a path has seen the last write in the same incarnation.
\* db/events.go:92-112.
THEOREM LostUpdateExcluded == Spec => []NoLostUpdate
BY SameContract, ContractImplemented, Proved!ContractKept, PTL
   DEF ImplementsContract, NoLostUpdate, Contract!Spec, Proved!Spec

\* And an event that names an incarnation lands in it.
\* db/events.go:66-68, 88-90.
THEOREM IncarnationRespected == Spec => []IncarnationBound
BY SameContract, ContractImplemented, Proved!ContractKept, PTL
   DEF ImplementsContract, IncarnationBound, Contract!Spec, Proved!Spec

-----------------------------------------------------------------------------
(***************************************************************************)
(* The retained floor, when requests are served one at a time.             *)
(*                                                                         *)
(* Covered(k): no device that bootstraps now needs an event at or below k. *)
(* The key fact holds for any number of handlers: once covered, a number   *)
(* stays covered, because a root_add counts from a number the log has      *)
(* already reached and snapshots only move up (CoveredStable).  What only  *)
(* a single handler guarantees is that the floor is computed from roots    *)
(* and a head that belong together (SerialReads).                          *)
(***************************************************************************)
RootContribution(r) ==
  IF roots[r].snap # 0 THEN roots[r].snap ELSE roots[r].created - 1

Covered(k) ==
  /\ k <= currentSeq
  /\ \A r \in Root : Active(r) => k <= RootContribution(r)

\* Snapshots lie between their root_add and the head.  db/snapshots.go:43-62.
SnapshotBounds ==
  \A r \in Root :
    Active(r) => /\ roots[r].created <= currentSeq
                 /\ roots[r].snap # 0 => /\ roots[r].created <= roots[r].snap
                                         /\ roots[r].snap <= currentSeq

SerialReads(h) ==
  /\ pc[h] \in {"floor_seq", "floor_write"} => rootsRead[h] = ActiveRoots
  /\ pc[h] = "floor_write" => seqRead[h] = currentSeq

RetentionInv(h) ==
  /\ Inv /\ SnapshotBounds /\ SerialReads(h)
  /\ Covered(floor)
  /\ \A s \in pruned : Covered(s)

\* The share of a live root is a number the log has reached.
LEMMA ContributionReached ==
  ASSUME TypeOK, SnapshotBounds, NEW r \in Root, Active(r)
  PROVE  /\ RootContribution(r) \in Nat
         /\ RootContribution(r) <= currentSeq
<1>1. /\ roots[r].created \in Nat /\ roots[r].snap \in Nat
      /\ roots[r].created # 0 /\ currentSeq \in Nat
  BY ConstantsAssumption DEF TypeOK, RootRow, Seqs, Active
<1>2. /\ roots[r].created <= currentSeq
      /\ roots[r].snap # 0 => roots[r].snap <= currentSeq
  BY DEF SnapshotBounds
<1>. QED  BY <1>1, <1>2 DEF RootContribution

\* ActiveRoots lists the live roots.
LEMMA ActiveRootsLists ==
  /\ \A r \in Root : Active(r) =>
       \E x \in ActiveRoots : /\ x.snap = roots[r].snap
                              /\ Contribution(x) = RootContribution(r)
  /\ \A x \in ActiveRoots :
       \E r \in Root : /\ Active(r)
                       /\ x.snap = roots[r].snap
                       /\ Contribution(x) = RootContribution(r)
<1>1. ASSUME NEW r \in Root, Active(r)
      PROVE  \E x \in ActiveRoots : /\ x.snap = roots[r].snap
                                    /\ Contribution(x) = RootContribution(r)
  <2>. DEFINE x == [root |-> r, created |-> roots[r].created, snap |-> roots[r].snap]
  <2>1. x \in ActiveRoots
    BY <1>1 DEF ActiveRoots
  <2>. QED  BY <2>1 DEF Contribution, RootContribution
<1>2. ASSUME NEW x \in ActiveRoots
      PROVE  \E r \in Root : /\ Active(r)
                             /\ x.snap = roots[r].snap
                             /\ Contribution(x) = RootContribution(r)
  <2>1. PICK r \in Root : /\ Active(r)
                          /\ x = [root |-> r, created |-> roots[r].created,
                                  snap |-> roots[r].snap]
    BY <1>2 DEF ActiveRoots
  <2>. QED  BY <2>1 DEF Contribution, RootContribution
<1>. QED  BY <1>1, <1>2

\* What a fresh bootstrap would be told is the largest covered number.
\* api/bootstrap.go:51-58.
LEMMA FreshCursorCovers ==
  ASSUME TypeOK, SnapshotBounds, NEW k \in Nat
  PROVE  Covered(k) <=> k <= FreshCursor
<1>. DEFINE C == {Contribution(x) : x \in ActiveRoots}
<1>1. currentSeq \in Nat
  BY ConstantsAssumption DEF TypeOK, Seqs
<1>2. CASE ActiveRoots = {}
  BY <1>2, ActiveRootsLists DEF FreshCursor, BootstrapAfterSeq, Covered
<1>3. CASE ActiveRoots # {}
  <2>1. FreshCursor = Min(C)
    BY <1>3 DEF FreshCursor, BootstrapAfterSeq
  <2>2. \A r \in Root : Active(r) => RootContribution(r) \in C
    BY ActiveRootsLists
  <2>3. \A c \in C : \E r \in Root : Active(r) /\ c = RootContribution(r)
    BY ActiveRootsLists
  <2>4. C # {}
    BY <1>3
  <2>. HIDE DEF C
  <2>5. C \in SUBSET Nat /\ \A c \in C : c <= currentSeq
    BY <2>3, ContributionReached
  <2>6. Min(C) \in C /\ \A c \in C : Min(C) <= c
    BY <2>4, <2>5, MinIsLeast
  <2>7. Covered(k) => k <= Min(C)
    BY <2>3, <2>6 DEF Covered
  <2>8. ASSUME k <= Min(C)  PROVE Covered(k)
    <3>1. Min(C) \in Nat /\ Min(C) <= currentSeq
      BY <2>5, <2>6
    <3>2. ASSUME NEW r \in Root, Active(r)  PROVE k <= RootContribution(r)
      <4>1. RootContribution(r) \in Nat /\ Min(C) <= RootContribution(r)
        BY <2>2, <2>5, <2>6, <3>2
      <4>. QED  BY <2>8, <3>1, <4>1
    <3>. QED  BY <1>1, <2>8, <3>1, <3>2 DEF Covered
  <2>. QED  BY <2>1, <2>7, <2>8
<1>. QED  BY <1>2, <1>3

\* The three cases of the floor.
LEMMA FloorValueCases ==
  ASSUME NEW S, NEW n
  PROVE  /\ S = {} => FloorValue(S, n) = n
         /\ (\E x \in S : x.snap = 0) => FloorValue(S, n) = 0
         /\ S # {} /\ ~(\E x \in S : x.snap = 0) =>
              FloorValue(S, n) = Min({x.snap : x \in S})
BY DEF FloorValue

\* What RecomputeRetainedFloor computes from one consistent state is covered.
\* db/workspace.go:112-139.
LEMMA FloorValueCovered ==
  ASSUME TypeOK, SnapshotBounds
  PROVE  Covered(FloorValue(ActiveRoots, currentSeq))
<1>0. currentSeq \in Nat
  BY ConstantsAssumption DEF TypeOK, Seqs
<1>1. CASE ActiveRoots = {}
  BY <1>0, <1>1, ActiveRootsLists DEF FloorValue, Covered
<1>2. CASE \E x \in ActiveRoots : x.snap = 0
  <2>1. FloorValue(ActiveRoots, currentSeq) = 0
    BY <1>2, FloorValueCases
  <2>. QED  BY <1>0, <2>1, ContributionReached DEF Covered
<1>3. CASE ActiveRoots # {} /\ ~ \E x \in ActiveRoots : x.snap = 0
  <2>. DEFINE T == {x.snap : x \in ActiveRoots}
  <2>1. FloorValue(ActiveRoots, currentSeq) = Min(T)
    BY <1>3, FloorValueCases
  <2>2. \A r \in Root : Active(r) => RootContribution(r) \in T
    <3>1. ASSUME NEW r \in Root, Active(r)  PROVE roots[r].snap \in T
      BY <3>1, ActiveRootsLists
    <3>2. ASSUME NEW r \in Root, Active(r)  PROVE roots[r].snap # 0
      BY <1>3, <3>2, ActiveRootsLists
    <3>. QED  BY <3>1, <3>2 DEF RootContribution
  <2>3. \A t \in T : \E r \in Root : Active(r) /\ t = RootContribution(r)
    <3>1. ASSUME NEW x \in ActiveRoots
          PROVE  \E r \in Root : Active(r) /\ x.snap = RootContribution(r)
      BY <1>3, <3>1, ActiveRootsLists DEF RootContribution
    <3>. QED  BY <3>1
  <2>4. T # {}
    BY <1>3
  <2>. HIDE DEF T
  <2>5. T \in SUBSET Nat /\ \A t \in T : t <= currentSeq
    BY <2>3, ContributionReached
  <2>6. Min(T) \in T /\ \A t \in T : Min(T) <= t
    BY <2>4, <2>5, MinIsLeast
  <2>. QED  BY <2>1, <2>2, <2>5, <2>6 DEF Covered
<1>. QED  BY <1>1, <1>2, <1>3

\* Once no bootstrapping device needs k, none ever will again: a root_add
\* counts from a number the log has reached, snapshots only move up.
\* db/events.go:128-137, db/snapshots.go:48-62.
LEMMA CoveredStable ==
  ASSUME Inv, SnapshotBounds, [Next]_vars, NEW k \in Nat, Covered(k)
  PROVE  SnapshotBounds' /\ Covered(k)'
<1>. USE ConstantsAssumption
<1>0. /\ sqliteSeq \in Nat /\ currentSeq \in Nat /\ currentSeq <= sqliteSeq
      /\ \A r \in Root : /\ roots[r].created \in Nat
                         /\ roots[r].removed \in Nat
                         /\ roots[r].snap \in Nat
  BY DEF Inv, SeqInv, TypeOK, RootRow, Seqs
<1>1. ASSUME NEW h \in Handler, NEW r \in Root, SubmitRootAdd(h, r)
      PROVE  SnapshotBounds' /\ Covered(k)'
  <2>1. /\ currentSeq' = sqliteSeq + 1
        /\ roots'[r] = [created |-> sqliteSeq + 1, removed |-> 0, snap |-> 0]
        /\ \A q \in Root : q # r => roots'[q] = roots[q]
    BY <1>1 DEF SubmitRootAdd, AcceptEvent, Inv, TypeOK
  <2>. QED  BY <1>0, <2>1 DEF SnapshotBounds, Covered, RootContribution, Active
<1>2. ASSUME NEW h \in Handler, NEW r \in Root, NEW inc \in Incarnation,
             SubmitRootRemove(h, r, inc)
      PROVE  SnapshotBounds' /\ Covered(k)'
  <2>1. /\ currentSeq' = sqliteSeq + 1
        /\ roots'[r].removed # 0
        /\ \A q \in Root : q # r => roots'[q] = roots[q]
    BY <1>0, <1>2 DEF SubmitRootRemove, AcceptEvent, Inv, TypeOK
  <2>. QED  BY <1>0, <2>1 DEF SnapshotBounds, Covered, RootContribution, Active
<1>3. ASSUME NEW h \in Handler, NEW r \in Root, NEW p \in Path,
             NEW base \in 0 .. currentSeq, NEW inc \in Incarnation,
             SubmitContent(h, r, p, base, inc)
      PROVE  SnapshotBounds' /\ Covered(k)'
  <2>1. currentSeq' = sqliteSeq + 1 /\ roots' = roots
    BY <1>3 DEF SubmitContent, AcceptEvent
  <2>. QED  BY <1>0, <2>1 DEF SnapshotBounds, Covered, RootContribution, Active
<1>4. ASSUME NEW h \in Handler, NEW r \in Root, NEW base \in 0 .. currentSeq,
             SaveSnapshot(h, r, base)
      PROVE  SnapshotBounds' /\ Covered(k)'
  <2>1. /\ currentSeq' = currentSeq
        /\ roots'[r].created = roots[r].created
        /\ roots'[r].removed = roots[r].removed
        /\ roots'[r].snap = base /\ base \in Nat
        /\ roots[r].created <= base /\ roots[r].snap <= base
        /\ base <= currentSeq
        /\ roots[r].created # 0
        /\ \A q \in Root : q # r => roots'[q] = roots[q]
    BY <1>0, <1>4 DEF SaveSnapshot, Inv, TypeOK, RootRow, Active
  <2>. QED  BY <1>0, <2>1 DEF SnapshotBounds, Covered, RootContribution, Active
<1>5. ASSUME currentSeq' = currentSeq, roots' = roots
      PROVE  SnapshotBounds' /\ Covered(k)'
  BY <1>5 DEF SnapshotBounds, Covered, RootContribution, Active
<1>6. ASSUME NEW h \in Handler, HandlerStep(h)
      PROVE  SnapshotBounds' /\ Covered(k)'
  <2>1. CASE SubmitStep(h)
    BY <1>1, <1>2, <1>3, <2>1 DEF SubmitStep
  <2>2. CASE SnapshotStep(h)
    BY <1>4, <2>2 DEF SnapshotStep
  <2>3. CASE Publish(h) \/ FloorStep(h) \/ RecomputeFails(h) \/ BootstrapStep(h)
    BY <1>5, <2>3 DEF Publish, FloorStep, FloorReadRoots, FloorReadSeq,
         FloorWrite, RecomputeFails, BootstrapStep, BootstrapReadRoots,
         BootstrapReadSeq, BootstrapDone, tables
  <2>. QED  BY <1>6, <2>1, <2>2, <2>3 DEF HandlerStep
<1>7. CASE OtherWorkspaceSubmit \/ Crash \/ Restart \/ Gc \/ UNCHANGED vars
  BY <1>5, <1>7 DEF OtherWorkspaceSubmit, Crash, Restart, Gc, PruneEvent,
                    vars, tables
<1>. QED  BY <1>6, <1>7 DEF Next

\* With one handler the two reads behind a floor belong together.
LEMMA SerialReadsStep ==
  ASSUME NEW h, Handler = {h}, Inv, SerialReads(h), [Next]_vars
  PROVE  SerialReads(h)'
<1>. USE DEF Inv
<1>1. CASE SubmitStep(h)
  BY <1>1 DEF SubmitStep, SubmitRootAdd, SubmitRootRemove, SubmitContent,
              AcceptEvent, SerialReads, TypeOK
<1>2. CASE SnapshotStep(h)
  BY <1>2 DEF SnapshotStep, SaveSnapshot, SerialReads, TypeOK
<1>3. CASE FloorReadRoots(h) \/ FloorReadSeq(h)
  BY <1>3 DEF FloorReadRoots, FloorReadSeq, tables, SerialReads, TypeOK,
              ActiveRoots, Active
<1>4. CASE FloorWrite(h) \/ RecomputeFails(h) \/ Publish(h)
  BY <1>4 DEF FloorWrite, RecomputeFails, Publish, SerialReads, TypeOK
<1>5. CASE BootstrapReadRoots(h) \/ BootstrapReadSeq(h) \/ BootstrapDone(h)
  BY <1>5 DEF BootstrapReadRoots, BootstrapReadSeq, BootstrapDone,
              SerialReads, TypeOK
<1>6. CASE Crash
  BY <1>6 DEF Crash, SerialReads
<1>7. CASE OtherWorkspaceSubmit \/ Restart \/ Gc \/ UNCHANGED vars
  BY <1>7 DEF OtherWorkspaceSubmit, Restart, Gc, PruneEvent, vars, tables,
              handlers, SerialReads, ActiveRoots, Active
<1>. QED  BY <1>1, <1>2, <1>3, <1>4, <1>5, <1>6, <1>7
          DEF Next, HandlerStep, FloorStep, BootstrapStep

\* The floor and the deletions stay covered.
LEMMA RetentionStep ==
  ASSUME NEW h, Handler = {h}, RetentionInv(h), [Next]_vars
  PROVE  RetentionInv(h)'
<1>. USE DEF RetentionInv
<1>1. Inv' /\ SerialReads(h)'
  BY InvStep, SerialReadsStep
<1>2. floor \in Nat /\ pruned \in SUBSET Nat /\ currentSeq \in Nat
  BY ConstantsAssumption DEF Inv, TypeOK, Seqs
<1>3. SnapshotBounds'
  BY <1>2, CoveredStable
<1>4. CASE FloorWrite(h)
  <2>1. /\ floor' = FloorValue(ActiveRoots, currentSeq)
        /\ roots' = roots /\ currentSeq' = currentSeq /\ pruned' = pruned
    BY <1>4 DEF FloorWrite, SerialReads
  <2>2. Covered(FloorValue(ActiveRoots, currentSeq))
    BY FloorValueCovered DEF Inv
  <2>. QED  BY <1>1, <1>3, <2>1, <2>2 DEF Covered, Active, RootContribution
<1>5. CASE Gc
  <2>1. PICK e \in log : PruneEvent(e)
    BY <1>5 DEF Gc
  <2>2. /\ e.seq \in Nat /\ e.seq <= floor
        /\ pruned' = pruned \cup {e.seq} /\ floor' = floor
        /\ roots' = roots /\ currentSeq' = currentSeq
    BY <2>1 DEF PruneEvent, Inv, TypeOK, Contract!Event
  <2>3. Covered(e.seq)
    <3>1. \A r \in Root : Active(r) => RootContribution(r) \in Nat
      BY ContributionReached DEF Inv
    <3>. QED  BY <1>2, <2>2, <3>1 DEF Covered
  <2>. QED  BY <1>1, <1>3, <2>2, <2>3 DEF Covered, Active, RootContribution
<1>6. CASE ~FloorWrite(h) /\ ~Gc
  <2>1. floor' = floor /\ pruned' = pruned
    BY <1>6 DEF Next, HandlerStep, SubmitStep, SubmitRootAdd, SubmitRootRemove,
         SubmitContent, AcceptEvent, Publish, SnapshotStep, SaveSnapshot,
         FloorStep, FloorReadRoots, FloorReadSeq, RecomputeFails,
         BootstrapStep, BootstrapReadRoots, BootstrapReadSeq, BootstrapDone,
         OtherWorkspaceSubmit, Crash, Restart, vars, tables
  <2>2. \A k \in Nat : Covered(k) => Covered(k)'
    BY CoveredStable
  <2>3. Covered(floor)'
    <3>1. PICK k \in Nat : k = floor
      BY <1>2
    <3>2. Covered(k)'
      BY <2>2, <3>1
    <3>. QED  BY <2>1, <3>1, <3>2 DEF Covered
  <2>4. \A s \in pruned' : Covered(s)'
    BY <1>2, <2>1, <2>2
  <2>. QED  BY <1>1, <1>3, <2>3, <2>4
<1>. QED  BY <1>4, <1>5, <1>6

LEMMA RetentionInit ==
  ASSUME NEW h, Handler = {h}, Init
  PROVE  RetentionInv(h)
BY InvInit DEF Init, RetentionInv, SnapshotBounds, SerialReads, Covered, Active

\* What the invariant says in the words of the run.
LEMMA RetentionMeaning ==
  ASSUME NEW h, RetentionInv(h)
  PROVE  FloorCoversBootstrap /\ NeededEventsRetained
<1>1. floor \in Nat /\ pruned \in SUBSET Nat
  BY ConstantsAssumption DEF RetentionInv, Inv, TypeOK, Seqs
<1>2. floor <= FreshCursor /\ \A s \in pruned : s <= FreshCursor
  BY <1>1, FreshCursorCovers DEF RetentionInv, Inv
<1>3. FreshCursor \in Int
  <2>1. CASE ActiveRoots = {}
    BY <2>1, ConstantsAssumption
       DEF FreshCursor, BootstrapAfterSeq, RetentionInv, Inv, TypeOK, Seqs
  <2>2. CASE ActiveRoots # {}
    <3>. DEFINE C == {Contribution(x) : x \in ActiveRoots}
    <3>1. FreshCursor = Min(C) /\ C # {}
      BY <2>2 DEF FreshCursor, BootstrapAfterSeq
    <3>2. C \in SUBSET Nat
      BY ActiveRootsLists, ContributionReached DEF RetentionInv, Inv
    <3>. HIDE DEF C
    <3>3. Min(C) \in C
      BY <3>1, <3>2, MinIsLeast
    <3>4. Min(C) \in Nat
      BY <3>2, <3>3
    <3>. QED  BY <3>1, <3>4
  <2>. QED  BY <2>1, <2>2
<1>. QED  BY <1>1, <1>2, <1>3
          DEF FloorCoversBootstrap, ResyncRequired, NeededEventsRetained

\* Served one at a time, requests never leave a floor that refuses the cursor
\* a bootstrap hands out.  db/workspace.go:112-139, db/events.go:254-256.
THEOREM SerialFloorCovers ==
  ASSUME NEW CONSTANT h, Handler = {h}
  PROVE  Spec => []FloorCoversBootstrap
BY RetentionInit, RetentionStep, RetentionMeaning, PTL DEF Spec

\* Nor does compaction then delete what a bootstrapping device has to fetch.
\* db/maintenance.go:47-84.
THEOREM SerialRetention ==
  ASSUME NEW CONSTANT h, Handler = {h}
  PROVE  Spec => []NeededEventsRetained
BY RetentionInit, RetentionStep, RetentionMeaning, PTL DEF Spec
-----------------------------------------------------------------------------
(***************************************************************************)
(* The retained floor, whatever requests are served at once.               *)
(*                                                                         *)
(* A recomputation may write what it computed from roots read long ago.    *)
(* The roots it read make it harmless, if there were any: the floor they   *)
(* give was covered when they were read, and is covered for good           *)
(* (CoveredStable).                                                        *)
(***************************************************************************)
Computing(h) == pc[h] \in {"floor_seq", "floor_write"}

ReadsCovered ==
  \A h \in Handler :
    /\ Computing(h) /\ rootsRead[h] # {} => Covered(FloorValue(rootsRead[h], 0))
    /\ pc[h] = "floor_write" => seqRead[h] <= currentSeq

ConcurrentInv == Inv /\ SnapshotBounds /\ ReadsCovered

Retained == Covered(floor) /\ \A s \in pruned : Covered(s)

\* The head plays no part in a floor computed from at least one root, and such
\* a floor is a number.
LEMMA FloorOfRoots ==
  ASSUME NEW S \in SUBSET RootInfo, S # {}, NEW n
  PROVE  FloorValue(S, n) = FloorValue(S, 0) /\ FloorValue(S, 0) \in Nat
<1>1. CASE \E x \in S : x.snap = 0
  <2>1. \A m : FloorValue(S, m) = 0
    BY <1>1, FloorValueCases, Zenon
  <2>. QED  BY <2>1
<1>2. CASE ~ \E x \in S : x.snap = 0
  <2>. DEFINE T == {x.snap : x \in S}
  <2>1. \A m : FloorValue(S, m) = Min(T)
    BY <1>2, FloorValueCases, Zenon
  <2>2. T \in SUBSET Nat /\ T # {}
    BY ConstantsAssumption DEF RootInfo, Seqs
  <2>. HIDE DEF T
  <2>3. Min(T) \in T
    BY <2>2, MinIsLeast
  <2>. QED  BY <2>1, <2>2, <2>3
<1>. QED  BY <1>1, <1>2

\* The head only grows.
LEMMA HeadGrows ==
  ASSUME Inv, [Next]_vars
  PROVE  currentSeq \in Nat /\ currentSeq' \in Nat /\ currentSeq <= currentSeq'
<1>0. sqliteSeq \in Nat /\ currentSeq \in Nat /\ currentSeq <= sqliteSeq
  BY ConstantsAssumption DEF Inv, SeqInv, TypeOK, Seqs
<1>1. currentSeq' = currentSeq \/ currentSeq' = sqliteSeq + 1
  BY DEF Next, HandlerStep, SubmitStep, SubmitRootAdd, SubmitRootRemove,
     SubmitContent, AcceptEvent, Publish, SnapshotStep, SaveSnapshot,
     FloorStep, FloorReadRoots, FloorReadSeq, FloorWrite, RecomputeFails,
     BootstrapStep, BootstrapReadRoots, BootstrapReadSeq, BootstrapDone,
     OtherWorkspaceSubmit, Crash, Restart, Gc, PruneEvent, vars, tables
<1>. QED  BY <1>0, <1>1

\* A handler that is computing after a step was computing before it with the
\* same roots, or has just read them.
LEMMA ComputingStep ==
  ASSUME Inv, [Next]_vars, NEW g \in Handler, Computing(g)'
  PROVE  \/ Computing(g) /\ rootsRead'[g] = rootsRead[g]
         \/ rootsRead'[g] = ActiveRoots /\ roots' = roots
                                       /\ currentSeq' = currentSeq
<1>. USE DEF Computing
<1>0. /\ pc \in [Handler -> Stage]
      /\ rootsRead \in [Handler -> SUBSET RootInfo]
  BY DEF Inv, TypeOK
<1>1. ASSUME NEW h \in Handler, FloorReadRoots(h)
      PROVE  \/ Computing(g) /\ rootsRead'[g] = rootsRead[g]
             \/ rootsRead'[g] = ActiveRoots /\ roots' = roots
                                           /\ currentSeq' = currentSeq
  BY <1>0, <1>1 DEF FloorReadRoots, tables
<1>2. ASSUME NEW h \in Handler, FloorReadSeq(h)
      PROVE  Computing(g) /\ rootsRead'[g] = rootsRead[g]
  BY <1>0, <1>2 DEF FloorReadSeq
<1>3. ASSUME NEW h \in Handler, FloorWrite(h) \/ RecomputeFails(h)
      PROVE  Computing(g) /\ rootsRead'[g] = rootsRead[g]
  BY <1>0, <1>3 DEF FloorWrite, RecomputeFails, Forget
<1>4. ASSUME NEW h \in Handler, SubmitStep(h) \/ SnapshotStep(h)
      PROVE  Computing(g) /\ rootsRead'[g] = rootsRead[g]
  BY <1>0, <1>4 DEF SubmitStep, SubmitRootAdd, SubmitRootRemove,
     SubmitContent, AcceptEvent, SnapshotStep, SaveSnapshot
<1>5. ASSUME NEW h \in Handler, Publish(h)
      PROVE  Computing(g) /\ rootsRead'[g] = rootsRead[g]
  BY <1>0, <1>5 DEF Publish, Forget
<1>6. ASSUME NEW h \in Handler, BootstrapStep(h)
      PROVE  Computing(g) /\ rootsRead'[g] = rootsRead[g]
  BY <1>0, <1>6 DEF BootstrapStep, BootstrapReadRoots, BootstrapReadSeq,
                    BootstrapDone, Forget, Begin
<1>7. CASE Crash
  BY <1>7 DEF Crash
<1>8. CASE OtherWorkspaceSubmit \/ Restart \/ Gc \/ UNCHANGED vars
  BY <1>8 DEF OtherWorkspaceSubmit, Restart, Gc, PruneEvent, vars, handlers
<1>. QED  BY <1>1, <1>2, <1>3, <1>4, <1>5, <1>6, <1>7, <1>8
          DEF Next, HandlerStep, FloorStep

\* Likewise for the head.
LEMMA SeqReadStep ==
  ASSUME Inv, [Next]_vars, NEW g \in Handler, pc'[g] = "floor_write"
  PROVE  \/ pc[g] = "floor_write" /\ seqRead'[g] = seqRead[g]
         \/ seqRead'[g] = currentSeq
<1>0. /\ pc \in [Handler -> Stage]
      /\ seqRead \in [Handler -> Seqs]
  BY DEF Inv, TypeOK
<1>1. ASSUME NEW h \in Handler, FloorReadRoots(h) \/ FloorReadSeq(h)
      PROVE  \/ pc[g] = "floor_write" /\ seqRead'[g] = seqRead[g]
             \/ seqRead'[g] = currentSeq
  BY <1>0, <1>1 DEF FloorReadRoots, FloorReadSeq
<1>2. ASSUME NEW h \in Handler, FloorWrite(h) \/ RecomputeFails(h) \/ Publish(h)
      PROVE  pc[g] = "floor_write" /\ seqRead'[g] = seqRead[g]
  BY <1>0, <1>2 DEF FloorWrite, RecomputeFails, Publish, Forget
<1>3. ASSUME NEW h \in Handler, SubmitStep(h) \/ SnapshotStep(h)
      PROVE  pc[g] = "floor_write" /\ seqRead'[g] = seqRead[g]
  BY <1>0, <1>3 DEF SubmitStep, SubmitRootAdd, SubmitRootRemove,
     SubmitContent, AcceptEvent, SnapshotStep, SaveSnapshot
<1>4. ASSUME NEW h \in Handler, BootstrapStep(h)
      PROVE  pc[g] = "floor_write" /\ seqRead'[g] = seqRead[g]
  BY <1>0, <1>4 DEF BootstrapStep, BootstrapReadRoots, BootstrapReadSeq,
                    BootstrapDone, Forget, Begin
<1>5. CASE Crash
  BY <1>5 DEF Crash
<1>6. CASE OtherWorkspaceSubmit \/ Restart \/ Gc \/ UNCHANGED vars
  BY <1>6 DEF OtherWorkspaceSubmit, Restart, Gc, PruneEvent, vars, handlers
<1>. QED  BY <1>1, <1>2, <1>3, <1>4, <1>5, <1>6
          DEF Next, HandlerStep, FloorStep

\* What the floor may be computed from is inductive for any handlers.
LEMMA ConcurrentStep ==
  ASSUME ConcurrentInv, [Next]_vars
  PROVE  ConcurrentInv'
<1>. USE DEF ConcurrentInv
<1>1. Inv'
  BY InvStep
<1>2. SnapshotBounds' /\ \A k \in Nat : Covered(k) => Covered(k)'
  <2>1. Covered(0)
    BY HeadGrows, ContributionReached DEF Inv, Covered
  <2>. QED  BY <2>1, CoveredStable
<1>3. ASSUME NEW g \in Handler, Computing(g)', rootsRead'[g] # {}
      PROVE  Covered(FloorValue(rootsRead[g], 0))'
  <2>0. rootsRead'[g] \in SUBSET RootInfo /\ rootsRead[g] \in SUBSET RootInfo
    BY <1>1 DEF Inv, TypeOK
  <2>1. CASE Computing(g) /\ rootsRead'[g] = rootsRead[g]
    <3>1. PICK k \in Nat : k = FloorValue(rootsRead[g], 0)
      BY <1>3, <2>0, <2>1, FloorOfRoots
    <3>2. Covered(k)'
      BY <1>2, <1>3, <2>1, <3>1 DEF ReadsCovered
    <3>3. FloorValue(rootsRead'[g], 0) = k
      BY <2>1, <3>1
    <3>. QED  BY <3>2, <3>3 DEF Covered
  <2>2. CASE /\ rootsRead'[g] = ActiveRoots /\ roots' = roots
             /\ currentSeq' = currentSeq
    <3>1. ActiveRoots # {} /\ ActiveRoots \in SUBSET RootInfo
      BY <1>3, <2>0, <2>2
    <3>2. Covered(FloorValue(ActiveRoots, 0))
      BY <3>1, FloorOfRoots, FloorValueCovered DEF Inv
    <3>. QED  BY <2>2, <3>2 DEF Covered, Active, RootContribution
  <2>. QED  BY <1>3, <2>1, <2>2, ComputingStep
<1>4. ASSUME NEW g \in Handler, pc'[g] = "floor_write"
      PROVE  seqRead'[g] <= currentSeq'
  <2>1. seqRead[g] \in Nat
    BY ConstantsAssumption DEF Inv, TypeOK, Seqs
  <2>. QED  BY <1>4, <2>1, SeqReadStep, HeadGrows DEF ReadsCovered
<1>. QED  BY <1>1, <1>2, <1>3, <1>4 DEF ReadsCovered

\* What FloorWrite writes is covered, unless it read no root and there is one.
LEMMA WrittenFloorCovered ==
  ASSUME ConcurrentInv, NEW h \in Handler, FloorWrite(h),
         rootsRead[h] # {} \/ ActiveRoots = {}
  PROVE  Covered(floor')
<1>. USE DEF ConcurrentInv
<1>0. /\ rootsRead[h] \in SUBSET RootInfo /\ seqRead[h] \in Nat
      /\ pc[h] = "floor_write"
      /\ floor' = FloorValue(rootsRead[h], seqRead[h])
  BY ConstantsAssumption DEF Inv, TypeOK, Seqs, FloorWrite
<1>1. CASE rootsRead[h] # {}
  <2>1. Covered(FloorValue(rootsRead[h], 0))
    BY <1>0, <1>1 DEF ReadsCovered, Computing
  <2>. QED  BY <1>0, <1>1, <2>1, FloorOfRoots
<1>2. CASE rootsRead[h] = {} /\ ActiveRoots = {}
  <2>1. floor' = seqRead[h] /\ seqRead[h] <= currentSeq
    BY <1>0, <1>2, FloorValueCases DEF ReadsCovered
  <2>. QED  BY <1>2, <2>1, ActiveRootsLists DEF Covered
<1>. QED  BY <1>1, <1>2

LEMMA RetainedStep ==
  ASSUME ConcurrentInv, Retained, [Next]_vars, ~EmptyHanded
  PROVE  Retained'
<1>. USE DEF ConcurrentInv, Retained
<1>1. floor \in Nat /\ pruned \in SUBSET Nat /\ currentSeq \in Nat
  BY ConstantsAssumption DEF Inv, TypeOK, Seqs
<1>2. \A k \in Nat : Covered(k) => Covered(k)'
  BY CoveredStable
<1>3. ASSUME NEW h \in Handler, FloorWrite(h)  PROVE Retained'
  <2>1. roots' = roots /\ currentSeq' = currentSeq /\ pruned' = pruned
    BY <1>3 DEF FloorWrite
  <2>2. Covered(floor')
    BY <1>3, WrittenFloorCovered DEF EmptyHanded
  <2>. QED  BY <2>1, <2>2 DEF Covered, Active, RootContribution
<1>4. CASE Gc
  <2>1. PICK e \in log : PruneEvent(e)
    BY <1>4 DEF Gc
  <2>2. /\ e.seq \in Nat /\ e.seq <= floor
        /\ pruned' = pruned \cup {e.seq} /\ floor' = floor
        /\ roots' = roots /\ currentSeq' = currentSeq
    BY <2>1 DEF PruneEvent, Inv, TypeOK, Contract!Event
  <2>3. Covered(e.seq)
    <3>1. \A r \in Root : Active(r) => RootContribution(r) \in Nat
      BY ContributionReached DEF Inv
    <3>. QED  BY <1>1, <2>2, <3>1 DEF Covered
  <2>. QED  BY <2>2, <2>3 DEF Covered, Active, RootContribution
<1>5. CASE ~(\E h \in Handler : FloorWrite(h)) /\ ~Gc
  <2>1. floor' = floor /\ pruned' = pruned
    BY <1>5 DEF Next, HandlerStep, SubmitStep, SubmitRootAdd, SubmitRootRemove,
         SubmitContent, AcceptEvent, Publish, SnapshotStep, SaveSnapshot,
         FloorStep, FloorReadRoots, FloorReadSeq, RecomputeFails,
         BootstrapStep, BootstrapReadRoots, BootstrapReadSeq, BootstrapDone,
         OtherWorkspaceSubmit, Crash, Restart, vars, tables
  <2>2. PICK k \in Nat : k = floor
    BY <1>1
  <2>3. Covered(k)'
    BY <1>2, <2>2
  <2>4. Covered(floor)'
    BY <2>1, <2>2, <2>3 DEF Covered
  <2>5. \A s \in pruned' : Covered(s)'
    BY <1>1, <1>2, <2>1
  <2>. QED  BY <2>4, <2>5
<1>. QED  BY <1>3, <1>4, <1>5

\* A fresh bootstrap is told a number.
LEMMA FreshCursorIsNat ==
  ASSUME TypeOK, SnapshotBounds
  PROVE  FreshCursor \in Nat
<1>1. CASE ActiveRoots = {}
  BY <1>1, ConstantsAssumption DEF FreshCursor, BootstrapAfterSeq, TypeOK, Seqs
<1>2. CASE ActiveRoots # {}
  <2>. DEFINE C == {Contribution(x) : x \in ActiveRoots}
  <2>1. FreshCursor = Min(C) /\ C # {}
    BY <1>2 DEF FreshCursor, BootstrapAfterSeq
  <2>2. C \in SUBSET Nat
    BY ActiveRootsLists, ContributionReached
  <2>. HIDE DEF C
  <2>3. Min(C) \in C
    BY <2>1, <2>2, MinIsLeast
  <2>. QED  BY <2>1, <2>2, <2>3
<1>. QED  BY <1>1, <1>2

\* Retained, in the words of the property.
LEMMA RetainedMeaning ==
  ConcurrentInv => (Retained <=> FloorCoversBootstrap /\ NeededEventsRetained)
<1>. SUFFICES ASSUME ConcurrentInv
     PROVE  Retained <=> FloorCoversBootstrap /\ NeededEventsRetained
  OBVIOUS
<1>. USE DEF ConcurrentInv
<1>1. floor \in Nat /\ pruned \in SUBSET Nat
  BY ConstantsAssumption DEF Inv, TypeOK, Seqs
<1>2. FreshCursor \in Nat
  BY FreshCursorIsNat DEF Inv
<1>3. /\ Covered(floor) <=> floor <= FreshCursor
      /\ \A s \in pruned : Covered(s) <=> s <= FreshCursor
  BY <1>1, FreshCursorCovers DEF Inv
<1>. QED  BY <1>1, <1>2, <1>3
          DEF Retained, FloorCoversBootstrap, ResyncRequired, NeededEventsRetained

LEMMA ConcurrentInit ==
  Init => ConcurrentInv
BY InvInit DEF Init, ConcurrentInv, SnapshotBounds, ReadsCovered, Computing,
               Active

\* However many requests are served at once, only a recomputation that read no
\* active root where there now is one takes the floor above what a fresh
\* bootstrap needs; every other step keeps floor and deletions right.
\* db/workspace.go:112-139, db/maintenance.go:47-84.
THEOREM FloorKeptConcurrently == Spec => FloorKept
<1>1. ConcurrentInv /\ [Next]_vars => ConcurrentInv'
  BY ConcurrentStep
<1>2. ConcurrentInv /\ Retained /\ [Next]_vars => Retained' \/ EmptyHanded
  BY RetainedStep
<1>. QED  BY <1>1, <1>2, ConcurrentInit, RetainedMeaning, PTL
          DEF Spec, FloorKept

-----------------------------------------------------------------------------
(***************************************************************************)
(* A bootstrap reply with roots in it misses nothing.                      *)
(*                                                                         *)
(* The roots were read when the head was at or above every share of the    *)
(* cursor they give, so whatever changed since has a number above all of   *)
(* them, however many requests were served in between.                     *)
(***************************************************************************)
Answering(h) == pc[h] \in {"boot_seq", "replied"}

ShownIn(S, r) == \E x \in S : x.root = r /\ x.created = roots[r].created

ReplySound(S) ==
  /\ \A x \in S : Contribution(x) \in Nat /\ Contribution(x) <= currentSeq
  /\ \A r \in Root : Active(r) /\ ~ShownIn(S, r) =>
       \A x \in S : Contribution(x) < roots[r].created
  /\ \A x \in S : ~(Active(x.root) /\ ShownIn(S, x.root)) =>
       \E e \in log : /\ e.type = "root_remove" /\ e.root = x.root
                      /\ \A y \in S : Contribution(y) < e.seq

RepliesSound == \A h \in Handler : Answering(h) => ReplySound(rootsRead[h])

\* What has just been read is sound.
LEMMA FreshReadSound ==
  ASSUME ConcurrentInv
  PROVE  ReplySound(ActiveRoots)
<1>1. \A x \in ActiveRoots : Contribution(x) \in Nat /\ Contribution(x) <= currentSeq
  BY ActiveRootsLists, ContributionReached DEF ConcurrentInv, Inv
<1>2. \A r \in Root : Active(r) => ShownIn(ActiveRoots, r)
  <2>1. ASSUME NEW r \in Root, Active(r)  PROVE ShownIn(ActiveRoots, r)
    <3>. DEFINE x == [root |-> r, created |-> roots[r].created, snap |-> roots[r].snap]
    <3>1. x \in ActiveRoots
      BY <2>1 DEF ActiveRoots
    <3>. QED  BY <3>1 DEF ShownIn
  <2>. QED  BY <2>1
<1>3. \A x \in ActiveRoots : x.root \in Root /\ Active(x.root)
  BY DEF ActiveRoots
<1>. QED  BY <1>1, <1>2, <1>3 DEF ReplySound

\* What has been read stays sound.
LEMMA ReplySoundStep ==
  ASSUME ConcurrentInv, [Next]_vars, NEW S \in SUBSET RootInfo, ReplySound(S)
  PROVE  ReplySound(S)'
<1>. USE DEF ConcurrentInv
<1>1. /\ currentSeq \in Nat /\ currentSeq' \in Nat /\ currentSeq <= currentSeq'
      /\ sqliteSeq \in Nat /\ currentSeq <= sqliteSeq
  BY HeadGrows, ConstantsAssumption DEF Inv, SeqInv, TypeOK, Seqs
<1>2. /\ \A x \in S : Contribution(x) \in Nat /\ Contribution(x) <= currentSeq
      /\ \A x \in S : Contribution(x) <= currentSeq' /\ Contribution(x) < sqliteSeq + 1
      /\ \A x \in S : x.root \in Root
  BY <1>1 DEF ReplySound, RootInfo
<1>3. CASE ~ \E h \in Handler : SubmitStep(h)
  <2>1. SameLives
    BY <1>3, OtherSteps
  <2>2. \A r \in Root : (Active(r)' <=> Active(r)) /\ (ShownIn(S, r)' <=> ShownIn(S, r))
    BY <2>1 DEF SameLives, Active, ShownIn
  <2>. QED  BY <1>2, <2>1, <2>2 DEF ReplySound, SameLives
<1>4. ASSUME NEW h \in Handler, NEW r \in Root, SubmitRootAdd(h, r)
      PROVE  ReplySound(S)'
  <2>1. ~Active(r) /\ log \subseteq log'
    BY <1>4 DEF SubmitRootAdd, AcceptEvent
  <2>2. roots'[r].created = sqliteSeq + 1
    BY <1>4 DEF SubmitRootAdd, Inv, TypeOK
  <2>3. \A q \in Root : q # r => roots'[q] = roots[q]
    BY <1>4 DEF SubmitRootAdd, Inv, TypeOK
  <2>4. \A q \in Root : q # r => (Active(q)' <=> Active(q)) /\ (ShownIn(S, q)' <=> ShownIn(S, q))
    BY <2>3 DEF Active, ShownIn
  <2>5. \A x \in S : x.root = r =>
          \E e \in log : /\ e.type = "root_remove" /\ e.root = x.root
                         /\ \A y \in S : Contribution(y) < e.seq
    BY <2>1 DEF ReplySound
  <2>6. \A q \in Root : Active(q)' /\ ~ShownIn(S, q)' =>
          \A x \in S : Contribution(x) < roots'[q].created
    BY <1>2, <2>2, <2>3, <2>4 DEF ReplySound
  <2>7. \A x \in S : ~(Active(x.root)' /\ ShownIn(S, x.root)') =>
          \E e \in log : /\ e.type = "root_remove" /\ e.root = x.root
                         /\ \A y \in S : Contribution(y) < e.seq
    BY <1>2, <2>4, <2>5 DEF ReplySound
  <2>. QED  BY <1>2, <2>1, <2>6, <2>7 DEF ReplySound
<1>5. ASSUME NEW h \in Handler, NEW r \in Root, NEW inc \in Incarnation,
             SubmitRootRemove(h, r, inc)
      PROVE  ReplySound(S)'
  <2>. DEFINE n == NewEvent("root_remove", r, None, None, inc)
  <2>1. log' = log \cup {n}
    BY <1>5, AcceptEventSeq DEF SubmitRootRemove
  <2>2. n.type = "root_remove" /\ n.root = r /\ n.seq = sqliteSeq + 1
    BY DEF NewEvent
  <2>3. roots'[r].removed = sqliteSeq + 1
    BY <1>5 DEF SubmitRootRemove, Inv, TypeOK
  <2>4. \A q \in Root : q # r => roots'[q] = roots[q]
    BY <1>5 DEF SubmitRootRemove, Inv, TypeOK
  <2>. HIDE DEF n
  <2>5. \A q \in Root : q # r => (Active(q)' <=> Active(q)) /\ (ShownIn(S, q)' <=> ShownIn(S, q))
    BY <2>4 DEF Active, ShownIn
  <2>6. ~Active(r)'
    BY <1>1, <2>3 DEF Active
  <2>7. \A q \in Root : Active(q)' /\ ~ShownIn(S, q)' =>
          \A x \in S : Contribution(x) < roots'[q].created
    BY <2>4, <2>5, <2>6 DEF ReplySound
  <2>8. \A x \in S : ~(Active(x.root)' /\ ShownIn(S, x.root)') =>
          \E e \in log' : /\ e.type = "root_remove" /\ e.root = x.root
                          /\ \A y \in S : Contribution(y) < e.seq
    <3>1. ASSUME NEW x \in S, x.root = r
          PROVE  \E e \in log' : /\ e.type = "root_remove" /\ e.root = x.root
                                 /\ \A y \in S : Contribution(y) < e.seq
      BY <1>2, <2>1, <2>2, <3>1
    <3>2. ASSUME NEW x \in S, x.root # r, ~(Active(x.root)' /\ ShownIn(S, x.root)')
          PROVE  \E e \in log' : /\ e.type = "root_remove" /\ e.root = x.root
                                 /\ \A y \in S : Contribution(y) < e.seq
      BY <1>2, <2>1, <2>5, <3>2 DEF ReplySound
    <3>. QED  BY <3>1, <3>2
  <2>. QED  BY <1>2, <2>7, <2>8 DEF ReplySound
<1>6. ASSUME NEW h \in Handler, NEW r \in Root, NEW p \in Path,
             NEW base \in 0 .. currentSeq, NEW inc \in Incarnation,
             SubmitContent(h, r, p, base, inc)
      PROVE  ReplySound(S)'
  <2>1. roots' = roots /\ log \subseteq log'
    BY <1>6 DEF SubmitContent, AcceptEvent
  <2>2. \A q \in Root : (Active(q)' <=> Active(q)) /\ (ShownIn(S, q)' <=> ShownIn(S, q))
    BY <2>1 DEF Active, ShownIn
  <2>. QED  BY <1>2, <2>1, <2>2 DEF ReplySound
<1>. QED  BY <1>3, <1>4, <1>5, <1>6 DEF SubmitStep

\* A handler that is answering after a step was answering before it with the
\* same roots, or has just read them.
LEMMA AnsweringStep ==
  ASSUME Inv, [Next]_vars, NEW g \in Handler, Answering(g)'
  PROVE  \/ Answering(g) /\ rootsRead'[g] = rootsRead[g]
         \/ rootsRead'[g] = ActiveRoots /\ UNCHANGED tables
<1>. USE DEF Answering
<1>0. /\ pc \in [Handler -> Stage]
      /\ rootsRead \in [Handler -> SUBSET RootInfo]
  BY DEF Inv, TypeOK
<1>1. ASSUME NEW h \in Handler, BootstrapStep(h)
      PROVE  \/ Answering(g) /\ rootsRead'[g] = rootsRead[g]
             \/ rootsRead'[g] = ActiveRoots /\ UNCHANGED tables
  BY <1>0, <1>1
     DEF BootstrapStep, BootstrapReadRoots, BootstrapReadSeq, BootstrapDone, Forget
<1>2. ASSUME NEW h \in Handler, FloorStep(h) \/ RecomputeFails(h) \/ Publish(h)
      PROVE  Answering(g) /\ rootsRead'[g] = rootsRead[g]
  BY <1>0, <1>2
     DEF FloorStep, FloorReadRoots, FloorReadSeq, FloorWrite, RecomputeFails, Publish, Forget
<1>3. ASSUME NEW h \in Handler, SubmitStep(h) \/ SnapshotStep(h)
      PROVE  Answering(g) /\ rootsRead'[g] = rootsRead[g]
  BY <1>0, <1>3 DEF SubmitStep, SubmitRootAdd, SubmitRootRemove,
     SubmitContent, AcceptEvent, SnapshotStep, SaveSnapshot
<1>4. CASE Crash
  BY <1>4 DEF Crash
<1>5. CASE OtherWorkspaceSubmit \/ Restart \/ Gc \/ UNCHANGED vars
  BY <1>5 DEF OtherWorkspaceSubmit, Restart, Gc, PruneEvent, vars, handlers
<1>. QED  BY <1>1, <1>2, <1>3, <1>4, <1>5 DEF Next, HandlerStep

\* What was read for a reply stays sound, whatever is served meanwhile.
LEMMA RepliesSoundStep ==
  ASSUME ConcurrentInv, RepliesSound, [Next]_vars
  PROVE  RepliesSound'
<1>. SUFFICES ASSUME NEW g \in Handler, Answering(g)'
              PROVE  ReplySound(rootsRead[g])'
  BY DEF RepliesSound
<1>1. Inv /\ rootsRead[g] \in SUBSET RootInfo
  BY DEF ConcurrentInv, Inv, TypeOK
<1>2. CASE Answering(g) /\ rootsRead'[g] = rootsRead[g]
  <2>1. PICK S \in SUBSET RootInfo : S = rootsRead[g]
    BY <1>1
  <2>2. ReplySound(S)'
    BY <1>2, <2>1, ReplySoundStep DEF RepliesSound
  <2>3. rootsRead'[g] = S
    BY <1>2, <2>1
  <2>. QED  BY <2>2, <2>3 DEF ReplySound, ShownIn
<1>3. CASE rootsRead'[g] = ActiveRoots /\ UNCHANGED tables
  <2>1. ReplySound(ActiveRoots)
    BY FreshReadSound
  <2>. QED  BY <1>3, <2>1 DEF ReplySound, ShownIn, Active, tables
<1>. QED  BY <1>1, <1>2, <1>3, AnsweringStep

\* What a sound reply tells.
LEMMA RepliesMeaning ==
  ASSUME ConcurrentInv, RepliesSound
  PROVE  NonEmptyReplyCovers
<1>. SUFFICES ASSUME NEW h \in Handler, pc[h] = "replied", rootsRead[h] # {}
              PROVE  ReplyCovers(h)
  BY DEF NonEmptyReplyCovers
<1>. DEFINE S == rootsRead[h]
            C == {Contribution(x) : x \in S}
<1>1. S \in SUBSET RootInfo /\ ReplySound(S)
  BY DEF ConcurrentInv, Inv, TypeOK, RepliesSound, Answering
<1>2. ReplyCursor(h) = Min(C)
  BY DEF ReplyCursor, BootstrapAfterSeq
<1>3. C \in SUBSET Nat /\ C # {}
  BY <1>1 DEF ReplySound
<1>4. PICK x \in S : Contribution(x) = ReplyCursor(h)
  <2>1. Min(C) \in C
    <3>. HIDE DEF C
    <3>. QED  BY <1>3, MinIsLeast
  <2>. QED  BY <1>2, <2>1
<1>5. \A r \in Root : Shows(h, r) <=> ShownIn(S, r)
  BY DEF Shows, ShownIn
<1>6. /\ \A r \in Root : roots[r].created \in Nat
      /\ \A e \in log : e.seq \in Nat
      /\ ReplyCursor(h) \in Nat
      /\ \A y \in S : y.root \in Root
  BY <1>1, <1>4, ConstantsAssumption
     DEF ReplySound, ConcurrentInv, Inv, TypeOK, RootRow, RootInfo, Seqs, Contract!Event
<1>. HIDE DEF S, C
<1>7. ASSUME NEW r \in Root, Active(r)
      PROVE  Shows(h, r) \/ roots[r].created > ReplyCursor(h)
  BY <1>1, <1>4, <1>5, <1>6, <1>7 DEF ReplySound
<1>8. ASSUME NEW y \in S, ~(Active(y.root) /\ Shows(h, y.root))
      PROVE  \E e \in log : /\ e.type = "root_remove" /\ e.root = y.root
                            /\ e.seq > ReplyCursor(h)
  BY <1>1, <1>4, <1>5, <1>6, <1>8 DEF ReplySound
<1>. QED  BY <1>7, <1>8 DEF ReplyCovers, S

\* A bootstrap reply that names a root misses nothing: what it does not show,
\* a root or a removal, has an event after its cursor, although roots and head
\* were read at different moments and any requests were served in between.
\* api/bootstrap.go:15-60.
THEOREM RepliesCover == Spec => []NonEmptyReplyCovers
<1>1. Init => ConcurrentInv /\ RepliesSound
  BY ConcurrentInit DEF Init, RepliesSound, Answering
<1>2. ConcurrentInv /\ RepliesSound /\ [Next]_vars => (ConcurrentInv /\ RepliesSound)'
  BY ConcurrentStep, RepliesSoundStep
<1>3. ConcurrentInv /\ RepliesSound => NonEmptyReplyCovers
  BY RepliesMeaning
<1>. QED  BY <1>1, <1>2, <1>3, PTL DEF Spec
=============================================================================
