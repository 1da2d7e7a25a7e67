-------------------------- MODULE WatchHintsProofs --------------------------
(***************************************************************************)
(* Theorems about WatchHints, for every tree of paths, every capacity of   *)
(* the channel and any number of edits and faults.                         *)
(***************************************************************************)
EXTENDS WatchHints, TLAPS, FiniteSetTheorems, SequenceTheorems,
        WellFoundedInduction

-----------------------------------------------------------------------------
(***************************************************************************)
(* Paths and their prefixes.                                               *)
(***************************************************************************)
LEMMA PrefixElements ==
  ASSUME NEW s \in Seq(STRING), NEW t \in Seq(STRING)
  PROVE  IsPrefix(s, t) <=> /\ Len(s) <= Len(t)
                            /\ \A i \in 1..Len(s) : s[i] = t[i]
<1> DEFINE n == Len(s)
<1>1. n \in Nat /\ Len(t) \in Nat /\ (\A i \in 1..n : s[i] \in STRING)
  BY ElementOfSeq, LenProperties
<1>2. SubSeq(s, 1, n) = s
  BY SubSeqFull
<1>3. SUFFICES ASSUME n <= Len(t)
               PROVE  SubSeq(t, 1, n) = s <=> \A i \in 1..n : s[i] = t[i]
  BY <1>2 DEF IsPrefix
<1>4. \A i \in 1..n : t[i] \in STRING
  <2>1. \A i \in 1..n : i \in 1..Len(t)
    BY <1>1, <1>3
  <2> QED
    BY <2>1, ElementOfSeq
<1>5. /\ SubSeq(t, 1, n) \in Seq(STRING)
      /\ Len(SubSeq(t, 1, n)) = n
      /\ \A i \in 1..n : SubSeq(t, 1, n)[i] = t[i]
  <2>1. /\ SubSeq(t, 1, n) \in Seq(STRING)
        /\ Len(SubSeq(t, 1, n)) = IF 1 <= n THEN n - 1 + 1 ELSE 0
        /\ \A i \in 1..n-1+1 : SubSeq(t, 1, n)[i] = t[1+i-1]
    BY <1>1, <1>4, SubSeqProperties
  <2> QED
    BY <2>1, <1>1
<1> QED
  BY <1>1, <1>5, SeqEqual

LEMMA PrefixOrder ==
  /\ \A s \in Seq(STRING) : IsPrefix(s, s) /\ IsPrefix(<<>>, s)
  /\ \A s, t \in Seq(STRING) : IsPrefix(s, t) /\ IsPrefix(t, s) => s = t
  /\ \A s, t, u \in Seq(STRING) :
       IsPrefix(s, t) /\ IsPrefix(t, u) => IsPrefix(s, u)
  /\ \A s, t, u \in Seq(STRING) :
       IsPrefix(s, u) /\ IsPrefix(t, u) /\ Len(s) <= Len(t) => IsPrefix(s, t)
<1>0. \A s \in Seq(STRING) : Len(s) \in Nat
  BY LenProperties
<1>1. ASSUME NEW s \in Seq(STRING)
      PROVE  IsPrefix(s, s) /\ IsPrefix(<<>>, s)
  <2>1. <<>> \in Seq(STRING) /\ Len(<<>>) = 0
    BY EmptySeq
  <2>2. Len(s) \in Nat
    BY <1>0
  <2>3. IsPrefix(s, s)
    BY <2>2, PrefixElements
  <2>4. \A i \in 1..Len(<<>>) : <<>>[i] = s[i]
    BY <2>1
  <2>5. Len(<<>>) <= Len(s)
    BY <2>1, <2>2
  <2> QED
    BY <2>1, <2>3, <2>4, <2>5, PrefixElements
<1>2. \A s, t \in Seq(STRING) : IsPrefix(s, t) /\ IsPrefix(t, s) => s = t
  BY <1>0, PrefixElements, SeqEqual
<1>3. ASSUME NEW s \in Seq(STRING), NEW t \in Seq(STRING),
             NEW u \in Seq(STRING)
      PROVE  /\ IsPrefix(s, t) /\ IsPrefix(t, u) => IsPrefix(s, u)
             /\ IsPrefix(s, u) /\ IsPrefix(t, u) /\ Len(s) <= Len(t)
                  => IsPrefix(s, t)
  <2>1. Len(s) <= Len(t) => \A i \in 1..Len(s) : i \in 1..Len(t)
    BY <1>0
  <2> QED
    BY <1>0, <2>1, PrefixElements
<1> QED
  BY <1>1, <1>2, <1>3

\* Every prefix of a path is one, and a directory unless it is the path itself.
LEMMA PrefixesOfPaths ==
  ASSUME NEW p \in Path, NEW n \in 0..Len(p)
  PROVE  LET a == SubSeq(p, 1, n)
         IN a \in Path /\ Len(a) = n /\ IsPrefix(a, p) /\ (a # p => a \in Dir)
<1> DEFINE a == SubSeq(p, 1, n)
<1>1. p \in Seq(STRING) /\ Len(p) \in Nat /\ n \in Nat
  BY PathAssumption, LenProperties
<1>2. \A i \in 1..n : p[i] \in STRING
  BY <1>1, ElementOfSeq
<1>3. /\ a \in Seq(STRING)
      /\ Len(a) = IF 1 <= n THEN n - 1 + 1 ELSE 0
      /\ \A i \in 1..n-1+1 : a[i] = p[1+i-1]
  BY <1>1, <1>2, SubSeqProperties
<1>4. Len(a) = n /\ \A i \in 1..n : a[i] = p[i]
  BY <1>1, <1>3
<1>5. IsPrefix(a, p)
  <2>1. a \in Seq(STRING) /\ Len(a) <= Len(p)
    BY <1>1, <1>3, <1>4
  <2>2. \A i \in 1..Len(a) : a[i] = p[i]
    BY <1>4
  <2> HIDE DEF a
  <2> QED
    BY <1>1, <2>1, <2>2, PrefixElements
<1>6. a \in Prefixes(p)
  BY DEF Prefixes
<1> QED
  BY <1>4, <1>5, <1>6, PathAssumption

LEMMA ParentOf ==
  ASSUME NEW p \in Path, p # <<>>
  PROVE  /\ Front(p) \in Dir /\ Front(p) # p /\ IsPrefix(Front(p), p)
         /\ Len(Front(p)) = Len(p) - 1
         /\ \A a \in Path : IsPrefix(a, p) /\ a # p => IsPrefix(a, Front(p))
<1>1. p \in Seq(STRING) /\ Len(p) \in Nat \ {0}
  BY PathAssumption, EmptySeq
<1>2. Len(p) - 1 \in 0..Len(p)
  BY <1>1
<1>3. /\ Front(p) \in Path /\ Len(Front(p)) = Len(p) - 1
      /\ IsPrefix(Front(p), p) /\ (Front(p) # p => Front(p) \in Dir)
  BY <1>2, PrefixesOfPaths DEF Front
<1>4. Front(p) # p
  BY <1>1, <1>3
<1>5. ASSUME NEW a \in Path, IsPrefix(a, p), a # p
      PROVE  IsPrefix(a, Front(p))
  <2>1. a \in Seq(STRING) /\ Front(p) \in Seq(STRING) /\ Len(a) \in Nat
    BY <1>3, PathAssumption, LenProperties
  <2>2. Len(a) <= Len(p) /\ (Len(a) = Len(p) => a = p)
    BY <1>1, <1>5, <2>1, PrefixElements, SeqEqual
  <2>3. Len(a) <= Len(Front(p))
    BY <1>1, <1>3, <1>5, <2>1, <2>2
  <2> QED
    BY <1>1, <1>3, <1>5, <2>1, <2>3, PrefixOrder
<1> QED
  BY <1>3, <1>4, <1>5

\* The next path on the way from a directory down to a path.
LEMMA ChildToward ==
  ASSUME NEW a \in Path, NEW p \in Path, IsPrefix(a, p), a # p
  PROVE  /\ a \in Dir
         /\ \E c \in Path : /\ c # <<>> /\ Front(c) = a
                            /\ IsPrefix(a, c) /\ IsPrefix(c, p)
                            /\ (c # p => c \in Dir)
<1> DEFINE c == SubSeq(p, 1, Len(a) + 1)
<1>1. /\ a \in Seq(STRING) /\ p \in Seq(STRING)
      /\ Len(a) \in Nat /\ Len(p) \in Nat
  BY PathAssumption, LenProperties
<1>2. Len(a) < Len(p)
  <2>1. Len(a) <= Len(p) /\ (Len(a) = Len(p) => a = p)
    BY <1>1, PrefixElements, SeqEqual
  <2> QED
    BY <1>1, <2>1
<1>3. Len(a) + 1 \in 0..Len(p) /\ Len(a) \in 0..Len(p)
  BY <1>1, <1>2
<1>4. /\ c \in Path /\ Len(c) = Len(a) + 1
      /\ IsPrefix(c, p) /\ (c # p => c \in Dir)
  BY <1>3, PrefixesOfPaths
<1>5. c # <<>> /\ c \in Seq(STRING)
  <2>1. Len(<<>>) = 0
    BY EmptySeq
  <2>2. Len(c) # 0
    BY <1>1, <1>4
  <2> HIDE DEF c
  <2> QED
    BY <1>4, <2>1, <2>2, PathAssumption
<1>6. Front(c) \in Path /\ Len(Front(c)) = Len(a) /\ IsPrefix(Front(c), c)
      /\ Front(c) \in Dir
  <2>1. Front(c) \in Dir /\ IsPrefix(Front(c), c) /\ Len(Front(c)) = Len(c) - 1
    BY <1>4, <1>5, ParentOf
  <2> QED
    BY <1>1, <1>4, <2>1, PathAssumption
<1>7. IsPrefix(Front(c), p) /\ Front(c) \in Seq(STRING)
  BY <1>1, <1>4, <1>5, <1>6, PrefixOrder, PathAssumption
<1>8. Front(c) = a
  <2>1. Len(a) <= Len(Front(c)) /\ Len(Front(c)) <= Len(a)
    BY <1>1, <1>6
  <2>2. IsPrefix(a, Front(c)) /\ IsPrefix(Front(c), a)
    BY <1>1, <1>7, <2>1, PrefixOrder
  <2> QED
    BY <1>1, <1>7, <2>2, PrefixOrder
<1> QED
  BY <1>4, <1>5, <1>6, <1>8

\* The longest common prefix exists, and is a path above all hints merged.
LEMMA MergedHintCovers ==
  ASSUME NEW S \in SUBSET Path, S # {}
  PROVE  /\ MergeRescanHints(S) \in Path
         /\ \A h \in S : IsPrefix(MergeRescanHints(S), h)
<1> DEFINE C == CommonPrefixes(S)
<1>1. PICK h \in S : TRUE
  OBVIOUS
<1>2. h \in Seq(STRING) /\ Len(h) \in Nat
  BY <1>1, PathAssumption, LenProperties
<1>3. \A c \in C : c \in Path /\ (\A t \in S : IsPrefix(c, t))
  <2>1. SUFFICES ASSUME NEW c \in C
                 PROVE  c \in Path
    BY DEF CommonPrefixes
  <2>2. PICK t \in S : c \in Prefixes(t)
    BY DEF CommonPrefixes
  <2>3. PICK n \in 0..Len(t) : c = SubSeq(t, 1, n)
    BY <2>2 DEF Prefixes
  <2> QED
    BY <2>3, PrefixesOfPaths
<1>4. <<>> \in C
  <2>1. 0 \in 0..Len(h) /\ SubSeq(h, 1, 0) = <<>>
    BY <1>2, SubSeqEmpty
  <2>2. <<>> \in Prefixes(h)
    BY <2>1 DEF Prefixes
  <2>3. \A t \in S : IsPrefix(<<>>, t)
    BY PrefixOrder, PathAssumption
  <2> QED
    BY <1>1, <2>2, <2>3 DEF CommonPrefixes
<1>5. \A c \in C : Len(c) \in Nat /\ Len(c) <= Len(h)
  BY <1>1, <1>3, PathAssumption, LenProperties DEF IsPrefix
<1> DEFINE T == {Len(h) - Len(c) : c \in C}
<1>6. T \subseteq Nat /\ T # {}
  BY <1>2, <1>4, <1>5
<1>7. PICK x \in T : \A y \in T : ~ (<<y, x>> \in OpToRel(<, Nat))
  BY <1>6, NatLessThanWellFounded, WFMin
<1>8. \A y \in T : ~(y < x)
  BY <1>6, <1>7 DEF OpToRel
<1>9. PICK m \in C : x = Len(h) - Len(m)
  OBVIOUS
<1>10. \A c \in C : Len(c) <= Len(m)
  <2>1. SUFFICES ASSUME NEW c \in C
                 PROVE  Len(c) <= Len(m)
    OBVIOUS
  <2>2. ~(Len(h) - Len(c) < Len(h) - Len(m))
    BY <1>8, <1>9
  <2> QED
    BY <1>2, <1>5, <2>2
<1>11. MergeRescanHints(S) \in C
  BY <1>10 DEF MergeRescanHints, LongestCommonPrefix
<1> QED
  BY <1>3, <1>11

-----------------------------------------------------------------------------
(***************************************************************************)
(* Types.                                                                  *)
(***************************************************************************)
LEMMA RootPath == <<>> \in Path /\ <<>> \in Dir /\ Dir \subseteq Path
BY PathAssumption

LEMMA NoScanType ==
  NoScan \in [pc : {"idle", "scan", "delete", "put", "watch"}, hint : Path,
              left : SUBSET Path, found : [Path -> Nat]]
BY RootPath DEF NoScan

LEMMA IdleType ==
  Idle \in [pc : {"idle", "walk", "notify"}, path : Path, todo : SUBSET Dir]
BY RootPath DEF Idle

LEMMA InitTypes == Init => TypeOK
<1> SUFFICES ASSUME Init
             PROVE  TypeOK
  OBVIOUS
<1> USE RootPath, NoScanType, IdleType DEF Init
<1>1. disk \in [Path -> Nat] /\ index \in [Path -> Nat]
  OBVIOUS
<1>2. events \in Seq(Event)
  BY EmptySeq
<1>3. changeCh \in Seq(Path) /\ Len(changeCh) <= ChanCap
  <2>1. changeCh \in Seq(Path) /\ Len(changeCh) = 0
    BY EmptySeq
  <2> QED
    BY <2>1, BoundAssumption
<1>4. pending \subseteq Path /\ Cardinality(pending) <= 1
  BY FS_EmptySet
<1>5. watched \in [Dir -> Nat]
  OBVIOUS
<1>6. /\ tracked \in BOOLEAN /\ known \subseteq Dir
      /\ timer \in BOOLEAN /\ fired \in Nat /\ due \subseteq Path
      /\ lost \subseteq Path /\ skipped \subseteq Dir
      /\ edits \in Nat /\ faults \in Nat
  OBVIOUS
<1> QED
  BY <1>1, <1>2, <1>3, <1>4, <1>5, <1>6 DEF TypeOK

LEMMA UserTypes ==
  ASSUME TypeOK, User
  PROVE  TypeOK'
<1> USE RootPath DEF TypeOK
<1>1. PICK p \in Path : Write(p) \/ Mkdir(p) \/ Unlink(p)
  BY DEF User
<1>2. \E content \in Nat : disk' = [disk EXCEPT ![p] = content]
  <2>1. edits + 2 \in Nat
    OBVIOUS
  <2>2. CASE Write(p)
    BY <2>1, <2>2 DEF Write, Edit
  <2>3. CASE Mkdir(p)
    BY <2>1, <2>3 DEF Mkdir, Edit
  <2>4. CASE Unlink(p)
    BY <2>4 DEF Unlink, Edit
  <2> QED
    BY <1>1, <2>2, <2>3, <2>4
<1>3. watched' \in [Dir -> Nat]
  <2>1. watched \in [Dir -> Nat]
    OBVIOUS
  <2>2. watched' = watched \/ watched' = [watched EXCEPT ![p] = 0]
    BY <1>1 DEF Write, Mkdir, Unlink
  <2> HIDE DEF TypeOK
  <2> QED
    BY <2>1, <2>2
<1>4. /\ edits' = edits + 1 /\ (faults' = faults \/ faults' = faults + 1)
      /\ lost' \subseteq lost \cup {p}
      /\ skipped' = skipped \/ (p \in Dir /\ skipped' = skipped \cup {p})
      /\ UNCHANGED <<index, tracked, known, mgr, changeCh, debounce, due, scan>>
  <2>1. CASE Write(p)
    BY <2>1 DEF Write, Edit
  <2>2. CASE Mkdir(p)
    BY <2>2 DEF Mkdir, Edit
  <2>3. CASE Unlink(p)
    BY <2>3 DEF Unlink, Edit
  <2> QED
    BY <1>1, <2>1, <2>2, <2>3
<1>5. \/ events' = events
      \/ \E e \in Event : events' = Append(events, e)
  <2>1. \A q \in Path, op \in {"create", "write", "remove", "overflow"} :
          [path |-> q, op |-> op] \in Event
    BY DEF Event
  <2>2. CASE Write(p)
    <3>1. (IF Exists(p) THEN "write" ELSE "create")
            \in {"create", "write", "remove", "overflow"}
      OBVIOUS
    <3> QED
      BY <2>1, <2>2, <3>1 DEF Write, Edit
  <2>3. CASE Mkdir(p)
    BY <2>1, <2>3 DEF Mkdir, Edit
  <2>4. CASE Unlink(p)
    BY <2>1, <2>4 DEF Unlink, Edit
  <2> QED
    BY <1>1, <2>2, <2>3, <2>4
<1>6. events' \in Seq(Event)
  <2>1. ASSUME NEW e \in Event, events' = Append(events, e)
        PROVE  events' \in Seq(Event)
    BY <2>1, AppendProperties
  <2> QED
    BY <1>5, <2>1
<1>7. disk' \in [Path -> Nat]
  BY <1>2
<1>8. lost' \subseteq Path /\ skipped' \subseteq Dir
  BY <1>4
<1>9. edits' \in Nat /\ faults' \in Nat
  BY <1>4
<1>10. UNCHANGED <<index, tracked, known, mgr, changeCh, pending, timer, fired,
                   due, scan>>
  BY <1>4 DEF debounce
<1> QED
  BY <1>3, <1>6, <1>7, <1>8, <1>9, <1>10

LEMMA ManagerTypes ==
  ASSUME TypeOK, Manager
  PROVE  TypeOK'
<1> USE RootPath, IdleType DEF TypeOK, world, watches, debounce
<1>1. CASE Take
  <2>1. events # <<>> /\ events' = Tail(events)
    BY <1>1 DEF Take
  <2>2. Head(events) \in Event /\ events' \in Seq(Event)
    BY <2>1, HeadTailProperties
  <2>3. lost' \subseteq Path
    <3>1. Unsettled \subseteq Path
      BY DEF Unsettled, Changed, ChangedSince
    <3> QED
      BY <1>1, <3>1 DEF Take
  <2>4. mgr' \in [pc : {"idle", "walk", "notify"}, path : Path,
                  todo : SUBSET Dir]
    <3> DEFINE e == Head(events)
    <3>1. e.path \in Path
      BY <2>2 DEF Event
    <3>2. \/ mgr' = [Idle EXCEPT !.pc = "notify"]
          \/ mgr' = [Idle EXCEPT !.pc = "notify", !.path = e.path]
          \/ e.path \in Dir
             /\ mgr' = [pc |-> "walk", path |-> e.path, todo |-> {e.path}]
          \/ mgr' = mgr
      BY <1>1 DEF Take
    <3> HIDE DEF e
    <3>3. CASE e.path \in Dir
               /\ mgr' = [pc |-> "walk", path |-> e.path, todo |-> {e.path}]
      BY <3>1, <3>3
    <3> QED
      BY <3>1, <3>2, <3>3
  <2> QED
    BY <1>1, <2>2, <2>3, <2>4 DEF Take
<1>2. ASSUME NEW d \in Dir, WalkNew(d)
      PROVE  TypeOK'
  <2>1. Rest(mgr.todo, d) \subseteq Dir /\ mgr.todo \subseteq Dir
    BY DEF Rest
  <2>2. mgr' \in [pc : {"idle", "walk", "notify"}, path : Path,
                  todo : SUBSET Dir]
    BY <1>2, <2>1 DEF WalkNew
  <2>3. known' \subseteq Dir /\ watched' \in [Dir -> Nat] /\ skipped' \subseteq Dir
    BY <1>2, <2>1 DEF WalkNew, AddDir
  <2> QED
    BY <1>2, <2>2, <2>3 DEF WalkNew
<1>3. CASE Notify
  <2>1. lost' \subseteq Path
    <3>1. Unsettled \subseteq Path
      BY DEF Unsettled, Changed, ChangedSince
    <3> QED
      BY <1>3, <3>1 DEF Notify
  <2>2. changeCh' \in Seq(Path) /\ Len(changeCh') <= ChanCap
    <3>1. CASE UNCHANGED changeCh
      BY <3>1
    <3>2. CASE RoomInChannel /\ changeCh' = Append(changeCh, mgr.path)
      <4>1. mgr.path \in Path /\ Len(changeCh) \in Nat
        BY LenProperties
      <4>2. changeCh' \in Seq(Path) /\ Len(changeCh') = Len(changeCh) + 1
        BY <3>2, <4>1, AppendProperties
      <4> QED
        BY <3>2, <4>1, <4>2, BoundAssumption DEF RoomInChannel
    <3> QED
      BY <1>3, <3>1, <3>2 DEF Notify
  <2>3. mgr' = Idle
    BY <1>3 DEF Notify
  <2> QED
    BY <1>3, <2>1, <2>2, <2>3 DEF Notify
<1> QED
  BY <1>1, <1>2, <1>3 DEF Manager

LEMMA DebounceTypes ==
  ASSUME TypeOK, Receive \/ TimerFires \/ TakeHint \/ Reconnect
  PROVE  TypeOK'
<1> USE RootPath DEF TypeOK, world, watches, debounce
<1>1. CASE Receive
  <2>1. changeCh # <<>> /\ changeCh' = Tail(changeCh)
    BY <1>1 DEF Receive
  <2>2. /\ Head(changeCh) \in Path /\ changeCh' \in Seq(Path)
        /\ Len(changeCh') = Len(changeCh) - 1 /\ Len(changeCh) \in Nat
    BY <2>1, HeadTailProperties, LenProperties
  <2>3. Len(changeCh') <= ChanCap
    BY <2>2, BoundAssumption
  <2>4. pending \cup {Head(changeCh)} \in SUBSET Path
    BY <2>2
  <2>5. MergeRescanHints(pending \cup {Head(changeCh)}) \in Path
    BY <2>4, MergedHintCovers
  <2>6. pending' \subseteq Path /\ Cardinality(pending') <= 1
    <3>1. pending' = {MergeRescanHints(pending \cup {Head(changeCh)})}
      BY <1>1 DEF Receive
    <3>2. Cardinality(pending') = 1
      BY <3>1, FS_Singleton
    <3> QED
      BY <2>5, <3>1, <3>2
  <2> QED
    BY <1>1, <2>2, <2>3, <2>6 DEF Receive
<1>2. CASE TimerFires
  <2>1. fired' = fired + 1 /\ fired \in Nat
    BY <1>2 DEF TimerFires
  <2>2. timer' \in BOOLEAN
    BY <1>2 DEF TimerFires
  <2>3. fired' \in Nat
    BY <2>1
  <2> QED
    BY <1>2, <2>2, <2>3 DEF TimerFires
<1>3. CASE TakeHint
  <2>1. fired' \in Nat
    BY <1>3 DEF TakeHint
  <2>2. pending' \subseteq Path /\ Cardinality(pending') <= 1
    BY <1>3, FS_EmptySet DEF TakeHint
  <2> QED
    BY <1>3, <2>1, <2>2 DEF TakeHint
<1>4. CASE Reconnect
  BY <1>4 DEF Reconnect
<1> QED
  BY <1>1, <1>2, <1>3, <1>4

LEMMA RescanTypes ==
  ASSUME TypeOK, \/ \E h \in Path : RescanStart(h)
                 \/ RescanStep \/ RescanFails
  PROVE  TypeOK'
<1> DEFINE Scans == [pc : {"idle", "scan", "delete", "put", "watch"},
                     hint : Path, left : SUBSET Path, found : [Path -> Nat]]
<1>0. NoScan \in Scans
  BY NoScanType
<1> USE RootPath DEF TypeOK, world, watches, debounce
<1>1. ASSUME NEW h \in Path, RescanStart(h)
      PROVE  TypeOK'
  <2>1. scan' \in Scans
    <3> HIDE DEF TypeOK
    <3> QED
      BY <1>0, <1>1 DEF RescanStart
  <2> QED
    BY <1>1, <2>1 DEF RescanStart
<1>2. ASSUME NEW p \in Path, ScanVisit(p)
      PROVE  TypeOK'
  <2> DEFINE left == (scan.left \ {p}) \cup (IF p \in Dir THEN ChildrenOf(p) ELSE {})
  <2>1. left \in SUBSET Path
    BY DEF ChildrenOf
  <2>2. scan' \in Scans
    <3>1. \/ scan' = [scan EXCEPT !.found[p] = disk[p], !.left = left,
                                  !.pc = IF left = {} THEN "delete" ELSE "scan"]
          \/ scan' = [NoScan EXCEPT !.pc = "delete", !.hint = scan.hint]
      BY <1>2 DEF ScanVisit
    <3>2. CASE scan' = [NoScan EXCEPT !.pc = "delete", !.hint = scan.hint]
      BY <1>0, <3>2
    <3>3. CASE scan' = [scan EXCEPT !.found[p] = disk[p], !.left = left,
                          !.pc = IF left = {} THEN "delete" ELSE "scan"]
      <4>1. scan \in Scans /\ disk[p] \in Nat
        OBVIOUS
      <4>2. [scan.found EXCEPT ![p] = disk[p]] \in [Path -> Nat]
        BY <4>1
      <4>3. (IF left = {} THEN "delete" ELSE "scan")
              \in {"idle", "scan", "delete", "put", "watch"}
        OBVIOUS
      <4> HIDE DEF left, TypeOK
      <4> QED
        BY <2>1, <3>3, <4>1, <4>2, <4>3
    <3> QED
      BY <3>1, <3>2, <3>3
  <2>3. lost' \subseteq Path
    BY <1>2 DEF ScanVisit, Below
  <2> QED
    BY <1>2, <2>2, <2>3 DEF ScanVisit
<1>3. ASSUME NEW p \in Path, DeleteEntry(p)
      PROVE  TypeOK'
  <2>1. index' \in [Path -> Nat]
    BY <1>3 DEF DeleteEntry
  <2>2. lost' \subseteq Path
    BY <1>3 DEF DeleteEntry
  <2> QED
    BY <1>3, <2>1, <2>2 DEF DeleteEntry
<1>4. ASSUME NEW p \in Path, Put(p)
      PROVE  TypeOK'
  <2>1. index' \in [Path -> Nat]
    <3>1. scan.found[p] \in Nat /\ disk[p] \in Nat
      OBVIOUS
    <3>2. \/ index' = index
          \/ index' = [index EXCEPT ![p] = scan.found[p]]
          \/ index' = [index EXCEPT ![p] = disk[p]]
      BY <1>4 DEF Put
    <3> QED
      BY <3>1, <3>2
  <2>2. lost' \subseteq Path
    <3>1. Changed \subseteq Path
      BY DEF Changed, ChangedSince
    <3> QED
      BY <1>4, <3>1 DEF Put
  <2>3. scan' \in Scans
    <3>1. scan' = NoScan \/ scan' = [scan EXCEPT !.left = @ \ {p}]
      BY <1>4 DEF Put
    <3>2. scan \in Scans
      OBVIOUS
    <3> HIDE DEF TypeOK
    <3> QED
      BY <1>0, <3>1, <3>2
  <2> QED
    BY <1>4, <2>1, <2>2, <2>3 DEF Put
<1>5. CASE DeletesDone
  <2>1. ToPut \in SUBSET Path
    BY DEF ToPut
  <2>2. scan' \in Scans
    BY <1>5, <2>1 DEF DeletesDone
  <2> QED
    BY <1>5, <2>2 DEF DeletesDone
<1>6. CASE AddRoot
  <2>1. scan' \in Scans
    <3>1. scan' = [NoScan EXCEPT !.pc = "watch", !.left = {<<>>}]
      BY <1>6 DEF AddRoot
    <3> HIDE DEF TypeOK
    <3> QED
      BY <1>0, <3>1
  <2> QED
    BY <1>6, <2>1 DEF AddRoot
<1>7. ASSUME NEW d \in Dir, WalkRoot(d)
      PROVE  TypeOK'
  <2>1. Rest(scan.left, d) \subseteq Path
    BY DEF Rest
  <2>2. scan' \in Scans
    BY <1>0, <1>7, <2>1 DEF WalkRoot
  <2>3. /\ known' \subseteq Dir /\ skipped' \subseteq Dir
        /\ tracked' \in BOOLEAN
    BY <1>7 DEF WalkRoot, AddDir
  <2>4. watched' \in [Dir -> Nat]
    <3>1. disk[d] \in Nat /\ watched \in [Dir -> Nat]
      OBVIOUS
    <3>2. \/ watched' = watched
          \/ watched' = [watched EXCEPT ![d] = disk[d]]
          \/ watched' = [a \in Dir |-> 0]
      BY <1>7 DEF WalkRoot, AddDir
    <3> HIDE DEF TypeOK
    <3> QED
      BY <3>1, <3>2
  <2> QED
    BY <1>7, <2>2, <2>3, <2>4 DEF WalkRoot
<1>8. CASE RescanFails
  <2>1. /\ faults' = faults + 1 /\ scan' = NoScan
        /\ due' = due \cup {<<>>} \/ due' = due
        /\ lost' = lost \/ lost' = lost \cup GivenUp
        /\ UNCHANGED <<world, index, watches, mgr, changeCh, debounce>>
    BY <1>8 DEF RescanFails
  <2>2. scan' \in Scans /\ due' \subseteq Path
    BY <1>0, <2>1
  <2>3. faults' \in Nat
    BY <2>1
  <2>4. lost' \subseteq Path
    BY <2>1 DEF GivenUp, Changed, ChangedSince
  <2> QED
    BY <2>1, <2>2, <2>3, <2>4
<1> QED
  BY <1>1, <1>2, <1>3, <1>4, <1>5, <1>6, <1>7, <1>8 DEF RescanStep

LEMMA StutterTypes == TypeOK /\ UNCHANGED vars => TypeOK'
BY DEF TypeOK, vars, world, watches, debounce

\* Every variable of the daemon's watcher, its debouncing and its rescans stays
\* within its type, and the channel of changes (daemon.go:183) never holds
\* more than its capacity.
THEOREM TypeCorrect == Spec => []TypeOK
<1>1. TypeOK /\ [Next]_vars => TypeOK'
  BY UserTypes, ManagerTypes, DebounceTypes, RescanTypes, StutterTypes DEF Next
<1> QED
  BY <1>1, InitTypes, PTL DEF Spec

-----------------------------------------------------------------------------
(***************************************************************************)
(* What the disk, the scan and the watches look like between two steps.    *)
(***************************************************************************)
\* The disk is a tree, and an inode number is never used again.
Tree ==
  /\ Exists(<<>>)
  /\ \A a, q \in Path : IsPrefix(a, q) /\ Exists(q) => Exists(a)

Fresh ==
  /\ \A q \in Path : disk[q] <= edits + 1
  /\ \A d \in Dir : watched[d] <= edits + 1

\* A scan has found nothing yet below the paths it has still to visit, none of
\* which lies below another; what it found lies below the hint.
Frontier ==
  \A a \in scan.left :
    /\ IsPrefix(scan.hint, a)
    /\ \A q \in Path : IsPrefix(a, q) => scan.found[q] = 0
    /\ \A b \in scan.left : IsPrefix(a, b) => a = b

ScanForm ==
  /\ \A q \in Path : scan.found[q] # 0 => IsPrefix(scan.hint, q)
  /\ scan.pc = "scan" => Frontier
  /\ scan.pc = "put" => \A a \in scan.left : scan.found[a] # 0

\* The watcher walks below the path whose hint it will send.
WalkForm == mgr.pc = "walk" => \A a \in mgr.todo : IsPrefix(mgr.path, a)

Walking(d) == scan.pc = "watch" /\ \E a \in scan.left : IsPrefix(a, d)
RootKnown == tracked => <<>> \in known \/ Walking(<<>>)

\* A directory that is not watched is out of sight, or the event that tells of
\* it is under way, or the walk that watches it.
Unseen(d) ==
  \E a \in Dir : /\ IsPrefix(a, d)
                 /\ \/ a \in known /\ ~Observed(a)
                    \/ a \in skipped
Told(d) ==
  \E i \in 1..Len(events) : /\ events[i].op = "create"
                            /\ events[i].path \in Dir
                            /\ IsPrefix(events[i].path, d)
Reached(d) == mgr.pc = "walk" /\ \E a \in mgr.todo : IsPrefix(a, d)

Watchful ==
  tracked => \A d \in Dir : Exists(d) /\ d \notin known
               => Unseen(d) \/ Walking(d) \/ Told(d) \/ Reached(d)

Structure == Tree /\ Fresh /\ ScanForm /\ WalkForm /\ RootKnown /\ Watchful

LEMMA PathOrder ==
  /\ \A p \in Path : IsPrefix(p, p) /\ IsPrefix(<<>>, p)
  /\ \A p, q \in Path : IsPrefix(p, q) /\ IsPrefix(q, p) => p = q
  /\ \A p, q, r \in Path : IsPrefix(p, q) /\ IsPrefix(q, r) => IsPrefix(p, r)
  /\ \A p, q, r \in Path : IsPrefix(p, r) /\ IsPrefix(q, r)
                              => IsPrefix(p, q) \/ IsPrefix(q, p)
<1>1. \A p \in Path : p \in Seq(STRING) /\ Len(p) \in Nat
  BY PathAssumption, LenProperties
<1>2. \A p, q \in Path : Len(p) <= Len(q) \/ Len(q) <= Len(p)
  BY <1>1
<1> QED
  BY <1>1, <1>2, PrefixOrder

LEMMA InitStructure == Init => Structure
<1> SUFFICES ASSUME Init
             PROVE  Structure
  OBVIOUS
<1> USE RootPath DEF Init
<1>1. Tree
  <2>1. ASSUME NEW a \in Path, NEW q \in Path, IsPrefix(a, q), q \in Present
        PROVE  a \in Present
    <3>1. a \in Seq(STRING) /\ q \in Seq(STRING) /\ Len(a) \in Nat
          /\ Len(q) \in Nat
      BY PathAssumption, LenProperties
    <3>2. Len(a) <= Len(q) /\ a = SubSeq(q, 1, Len(a))
      BY <2>1, <3>1, SubSeqFull DEF IsPrefix
    <3>3. a \in Prefixes(q)
      <4>1. Len(a) \in 0..Len(q)
        BY <3>1, <3>2
      <4>2. PICK n \in 0..Len(q) : a = SubSeq(q, 1, n)
        BY <3>2, <4>1, Zenon
      <4> QED
        BY <4>2 DEF Prefixes
    <3> QED
      BY <2>1, <3>3, PathAssumption
  <2>2. \A q \in Path : Exists(q) <=> q \in Present
    BY DEF Exists
  <2> QED
    BY <2>1, <2>2, PathAssumption DEF Tree
<1>2. Fresh
  BY DEF Fresh
<1>3. ScanForm
  BY DEF ScanForm, NoScan
<1>4. WalkForm
  BY DEF WalkForm, Idle
<1> QED
  BY <1>1, <1>2, <1>3, <1>4 DEF Structure, RootKnown, Watchful

LEMMA UserTree ==
  ASSUME TypeOK, Tree, Fresh, User
  PROVE  Tree' /\ Fresh'
<1> USE RootPath
<1>1. PICK p \in Path : Write(p) \/ Mkdir(p) \/ Unlink(p)
  BY DEF User
<1>2. /\ disk \in [Path -> Nat] /\ watched \in [Dir -> Nat] /\ edits \in Nat
      /\ edits' = edits + 1
  BY <1>1 DEF TypeOK, Write, Mkdir, Unlink, Edit
<1>3. CASE Write(p) \/ Mkdir(p)
  <2>1. /\ p # <<>> /\ Exists(Front(p)) /\ disk' = [disk EXCEPT ![p] = edits + 2]
        /\ watched' = watched
    BY <1>3 DEF Write, Mkdir, Edit
  <2>2. Fresh'
    BY <1>2, <2>1 DEF Fresh
  <2>3. disk'[p] # 0 /\ \A q \in Path \ {p} : disk'[q] = disk[q]
    BY <1>2, <2>1
  <2>4. ASSUME NEW a \in Path, NEW q \in Path, IsPrefix(a, q), disk'[q] # 0
        PROVE  disk'[a] # 0
    <3>1. CASE a = p
      BY <2>3, <3>1
    <3>2. CASE a # p /\ q = p
      <4>1. IsPrefix(a, Front(p)) /\ Front(p) \in Path
        BY <2>1, <2>4, <3>2, ParentOf
      <4> QED
        BY <2>1, <2>3, <3>2, <4>1 DEF Tree, Exists
    <3>3. CASE a # p /\ q # p
      BY <2>3, <2>4, <3>3 DEF Tree, Exists
    <3> QED
      BY <3>1, <3>2, <3>3
  <2>5. disk'[<<>>] # 0
    BY <2>1, <2>3 DEF Tree, Exists
  <2> QED
    BY <2>2, <2>4, <2>5 DEF Tree, Exists
<1>4. CASE Unlink(p)
  <2>1. /\ p # <<>> /\ ChildrenOf(p) = {} /\ disk' = [disk EXCEPT ![p] = 0]
        /\ watched' = watched \/ watched' = [watched EXCEPT ![p] = 0]
    BY <1>4 DEF Unlink, Edit
  <2>2. Fresh'
    <3>1. \A q \in Path : disk'[q] <= edits' + 1
      BY <1>2, <2>1 DEF Fresh
    <3>2. \A d \in Dir : watched'[d] = watched[d] \/ watched'[d] = 0
      BY <1>2, <2>1
    <3>3. \A d \in Dir : watched'[d] <= edits' + 1
      BY <1>2, <3>2 DEF Fresh
    <3> QED
      BY <3>1, <3>3 DEF Fresh
  <2>3. disk'[p] = 0 /\ \A q \in Path \ {p} : disk'[q] = disk[q]
    BY <1>2, <2>1
  <2>4. ASSUME NEW a \in Path, NEW q \in Path, IsPrefix(a, q), disk'[q] # 0
        PROVE  disk'[a] # 0
    <3>1. q # p /\ Exists(q) /\ Exists(a)
      BY <2>3, <2>4 DEF Tree, Exists
    <3>2. a # p
      <4>1. SUFFICES ASSUME a = p
                     PROVE  FALSE
        OBVIOUS
      <4>2. PICK c \in Path : c # <<>> /\ Front(c) = p /\ IsPrefix(c, q)
        BY <2>4, <3>1, <4>1, ChildToward
      <4>3. Exists(c)
        BY <3>1, <4>2 DEF Tree
      <4> QED
        BY <2>1, <4>2, <4>3 DEF ChildrenOf
    <3> QED
      BY <2>3, <3>1, <3>2 DEF Exists
  <2>5. disk'[<<>>] # 0
    BY <2>1, <2>3 DEF Tree, Exists
  <2> QED
    BY <2>2, <2>4, <2>5 DEF Tree, Exists
<1> QED
  BY <1>1, <1>3, <1>4

\* All steps but the user's leave the disk alone, and watch what is there.
LEMMA OthersTree ==
  ASSUME TypeOK, Tree, Fresh,
         UNCHANGED <<disk, edits>>,
         \/ watched' = watched
         \/ \E d \in Dir : watched' = [watched EXCEPT ![d] = disk[d]]
         \/ watched' = [a \in Dir |-> 0]
  PROVE  Tree' /\ Fresh'
<1>1. watched \in [Dir -> Nat] /\ edits \in Nat
  BY DEF TypeOK
<1>2. \A a \in Dir : \/ watched'[a] = watched[a]
                     \/ watched'[a] = disk[a]
                     \/ watched'[a] = 0
  BY <1>1
<1>3. Fresh'
  <2>1. \A a \in Dir : watched'[a] <= edits + 1
    BY <1>1, <1>2, RootPath DEF Fresh
  <2> QED
    BY <2>1 DEF Fresh
<1>4. Tree'
  BY DEF Tree, Exists
<1> QED
  BY <1>3, <1>4

LEMMA OthersLeaveTheDisk ==
  ASSUME TypeOK, Next, ~User
  PROVE  /\ UNCHANGED <<disk, edits>>
         /\ \/ watched' = watched
            \/ \E d \in Dir : watched' = [watched EXCEPT ![d] = disk[d]]
            \/ watched' = [a \in Dir |-> 0]
<1> USE DEF world, watches
<1>1. CASE Manager
  <2>1. ASSUME NEW d \in Dir, WalkNew(d)
        PROVE  /\ UNCHANGED <<disk, edits>>
               /\ watched' = watched \/ watched' = [watched EXCEPT ![d] = disk[d]]
    BY <2>1 DEF WalkNew, AddDir
  <2> QED
    BY <1>1, <2>1 DEF Manager, Take, Notify
<1>2. CASE RescanStep
  <2>1. ASSUME NEW d \in Dir, WalkRoot(d)
        PROVE  /\ UNCHANGED <<disk, edits>>
               /\ \/ watched' = watched
                  \/ watched' = [watched EXCEPT ![d] = disk[d]]
                  \/ watched' = [a \in Dir |-> 0]
    BY <2>1 DEF WalkRoot, AddDir
  <2>2. ASSUME NEW p \in Path, ScanVisit(p) \/ DeleteEntry(p) \/ Put(p)
        PROVE  UNCHANGED <<disk, edits, watched>>
    BY <2>2 DEF ScanVisit, DeleteEntry, Put
  <2>3. DeletesDone \/ AddRoot => UNCHANGED <<disk, edits, watched>>
    BY DEF DeletesDone, AddRoot
  <2> QED
    BY <1>2, <2>1, <2>2, <2>3 DEF RescanStep
<1>3. CASE Receive \/ TimerFires \/ TakeHint
  BY <1>3 DEF Receive, TimerFires, TakeHint
<1>4. CASE Reconnect \/ RescanFails
  BY <1>4 DEF Reconnect, RescanFails
<1>5. ASSUME NEW h \in Path, RescanStart(h)
      PROVE  UNCHANGED <<disk, edits, watched>>
  BY <1>5 DEF RescanStart
<1> QED
  BY <1>1, <1>2, <1>3, <1>4, <1>5 DEF Next

LEMMA ChildrenBelow ==
  ASSUME NEW d \in Path, NEW c \in ChildrenOf(d)
  PROVE  c \in Path /\ c # d /\ IsPrefix(d, c) /\ Exists(c) /\ c # <<>>
         /\ \A a \in Path : IsPrefix(a, c) /\ a # c => IsPrefix(a, d)
BY ParentOf DEF ChildrenOf

\* The paths that a visit leaves are still apart from each other, and nothing
\* has been found below them.
LEMMA VisitKeepsScanForm ==
  ASSUME TypeOK, ScanForm, NEW p \in Path, ScanVisit(p)
  PROVE  ScanForm'
<1> USE RootPath
<1>1. /\ scan.pc = "scan" /\ p \in scan.left /\ Frontier
      /\ scan \in [pc : {"idle", "scan", "delete", "put", "watch"},
                   hint : Path, left : SUBSET Path, found : [Path -> Nat]]
  BY DEF ScanVisit, ScanForm, TypeOK
<1>2. CASE ~Exists(p)
  <2>1. scan' = [NoScan EXCEPT !.pc = "delete", !.hint = scan.hint]
    BY <1>2 DEF ScanVisit
  <2>2. scan'.pc = "delete" /\ \A q \in Path : scan'.found[q] = 0
    BY <2>1 DEF NoScan
  <2> QED
    BY <2>2 DEF ScanForm
<1>3. CASE Exists(p)
  <2> DEFINE left == (scan.left \ {p}) \cup (IF p \in Dir THEN ChildrenOf(p) ELSE {})
  <2>1. scan' = [scan EXCEPT !.found[p] = disk[p], !.left = left,
                            !.pc = IF left = {} THEN "delete" ELSE "scan"]
    BY <1>3 DEF ScanVisit
  <2>2. /\ scan'.hint = scan.hint /\ scan'.left = left /\ scan'.pc # "put"
        /\ \A q \in Path \ {p} : scan'.found[q] = scan.found[q]
    BY <1>1, <2>1
  <2>3. \A q \in Path : scan'.found[q] # 0 => IsPrefix(scan'.hint, q)
    BY <1>1, <2>2 DEF ScanForm, Frontier
  <2>4. ASSUME NEW a \in left
        PROVE  /\ a \in Path /\ a # p /\ IsPrefix(scan.hint, a) /\ ~IsPrefix(a, p)
               /\ \A q \in Path : IsPrefix(a, q) => scan.found[q] = 0
    <3>1. CASE a \in scan.left \ {p}
      BY <1>1, <3>1 DEF Frontier
    <3>2. CASE a \in ChildrenOf(p)
      <4>1. a \in Path /\ a # p /\ IsPrefix(p, a)
        BY <3>2, ChildrenBelow
      <4> QED
        BY <1>1, <4>1, PathOrder DEF Frontier
    <3> QED
      BY <3>1, <3>2
  <2>5. ASSUME NEW a \in left, NEW b \in left, IsPrefix(a, b)
        PROVE  a = b
    <3>1. a \in Path /\ b \in Path /\ ~IsPrefix(a, p) /\ ~IsPrefix(b, p)
      BY <2>4
    <3>2. CASE b \in ChildrenOf(p)
      BY <2>5, <3>1, <3>2, ChildrenBelow
    <3>3. CASE b \in scan.left \ {p} /\ a \in scan.left
      BY <1>1, <2>5, <3>3 DEF Frontier
    <3>4. CASE b \in scan.left \ {p} /\ a \in ChildrenOf(p)
      <4>1. IsPrefix(p, a)
        BY <3>4, ChildrenBelow
      <4>2. IsPrefix(p, b)
        BY <2>5, <3>1, <4>1, PathOrder
      <4> QED
        BY <1>1, <3>4, <4>2 DEF Frontier
    <3> QED
      BY <3>2, <3>3, <3>4
  <2>6. \A a \in left, q \in Path : IsPrefix(a, q) => scan'.found[q] = 0
    BY <2>2, <2>4
  <2>7. Frontier'
    <3> HIDE DEF left
    <3> QED
      BY <2>2, <2>4, <2>5, <2>6 DEF Frontier
  <2> QED
    BY <2>2, <2>3, <2>7 DEF ScanForm
<1> QED
  BY <1>2, <1>3

LEMMA ScanFormKept ==
  ASSUME TypeOK, ScanForm, Next
  PROVE  ScanForm'
<1> USE RootPath
<1>1. scan \in [pc : {"idle", "scan", "delete", "put", "watch"}, hint : Path,
                left : SUBSET Path, found : [Path -> Nat]]
  BY DEF TypeOK
<1>2. CASE scan' = scan
  BY <1>2 DEF ScanForm, Frontier
<1>3. CASE scan' = NoScan
  BY <1>3 DEF ScanForm, NoScan
<1>4. ASSUME NEW h \in Path, RescanStart(h)
      PROVE  ScanForm'
  <2>1. scan' = [NoScan EXCEPT !.pc = "scan", !.hint = h, !.left = {h}]
    BY <1>4 DEF RescanStart
  <2>2. /\ scan'.hint = h /\ scan'.left = {h} /\ scan'.pc = "scan"
        /\ \A q \in Path : scan'.found[q] = 0
    BY <2>1 DEF NoScan
  <2> QED
    BY <2>2, PathOrder DEF ScanForm, Frontier
<1>5. CASE DeletesDone
  <2>1. scan' = [scan EXCEPT !.pc = "put", !.left = ToPut]
    BY <1>5 DEF DeletesDone
  <2>2. /\ scan'.pc = "put" /\ scan'.left = ToPut /\ scan'.found = scan.found
        /\ scan'.hint = scan.hint
    BY <1>1, <2>1
  <2> QED
    BY <2>2 DEF ScanForm, ToPut
<1>6. ASSUME NEW p \in Path, Put(p), scan' # NoScan
      PROVE  ScanForm'
  <2>1. scan' = [scan EXCEPT !.left = @ \ {p}] /\ scan.pc = "put"
    BY <1>6 DEF Put
  <2>2. /\ scan'.pc = "put" /\ scan'.left = scan.left \ {p}
        /\ scan'.found = scan.found /\ scan'.hint = scan.hint
    BY <1>1, <2>1
  <2> QED
    BY <2>1, <2>2 DEF ScanForm
<1>7. CASE AddRoot
  <2>1. scan' = [NoScan EXCEPT !.pc = "watch", !.left = {<<>>}]
    BY <1>7 DEF AddRoot
  <2>2. scan'.pc = "watch" /\ \A q \in Path : scan'.found[q] = 0
    BY <2>1 DEF NoScan
  <2> QED
    BY <2>2 DEF ScanForm
<1>8. ASSUME NEW d \in Dir, WalkRoot(d), scan' # NoScan
      PROVE  ScanForm'
  <2>1. scan' = [scan EXCEPT !.left = Rest(@, d)] /\ scan.pc = "watch"
    BY <1>8 DEF WalkRoot
  <2>2. /\ scan'.pc = "watch"
        /\ scan'.found = scan.found /\ scan'.hint = scan.hint
    BY <1>1, <2>1
  <2> QED
    BY <2>1, <2>2 DEF ScanForm
<1>9. User \/ Manager \/ Receive \/ TimerFires \/ TakeHint \/ Reconnect
        => scan' = scan
  <2>1. ASSUME NEW p \in Path, Write(p) \/ Mkdir(p) \/ Unlink(p)
        PROVE  scan' = scan
    BY <2>1 DEF Write, Mkdir, Unlink, Edit
  <2>2. ASSUME NEW d \in Dir, WalkNew(d)
        PROVE  scan' = scan
    BY <2>2 DEF WalkNew
  <2>3. Take \/ Notify => scan' = scan
    BY DEF Take, Notify
  <2>4. Receive \/ TimerFires \/ TakeHint \/ Reconnect => scan' = scan
    BY DEF Receive, TimerFires, TakeHint, Reconnect
  <2> QED
    BY <2>1, <2>2, <2>3, <2>4 DEF User, Manager
<1>10. RescanFails => scan' = NoScan
  BY DEF RescanFails
<1>11. ASSUME NEW p \in Path, DeleteEntry(p)
       PROVE  scan' = scan
  BY <1>11 DEF DeleteEntry
<1> QED
  BY <1>2, <1>3, <1>4, <1>5, <1>6, <1>7, <1>8, <1>9, <1>10, <1>11,
     VisitKeepsScanForm DEF Next, RescanStep

LEMMA WalkFormKept ==
  ASSUME TypeOK, WalkForm, Next
  PROVE  WalkForm'
<1> USE RootPath
<1>1. mgr \in [pc : {"idle", "walk", "notify"}, path : Path, todo : SUBSET Dir]
  BY DEF TypeOK
<1>2. CASE mgr' = mgr
  BY <1>2 DEF WalkForm
<1>3. CASE mgr'.pc # "walk"
  BY <1>3 DEF WalkForm
<1>4. CASE Take /\ mgr'.pc = "walk"
  <2> DEFINE e == Head(events)
  <2>1. mgr' = [pc |-> "walk", path |-> e.path, todo |-> {e.path}]
        /\ e.path \in Dir
    BY <1>1, <1>4 DEF Take, Idle
  <2> HIDE DEF e
  <2> QED
    BY <2>1, PathOrder DEF WalkForm
<1>5. ASSUME NEW d \in Dir, WalkNew(d), mgr'.pc = "walk"
      PROVE  WalkForm'
  <2>1. /\ mgr.pc = "walk" /\ d \in mgr.todo /\ mgr'.path = mgr.path
        /\ mgr'.todo = Rest(mgr.todo, d)
    BY <1>1, <1>5 DEF WalkNew
  <2>2. \A c \in ChildrenOf(d) : IsPrefix(mgr.path, c)
    <3>1. IsPrefix(mgr.path, d) /\ mgr.path \in Path
      BY <1>1, <2>1 DEF WalkForm
    <3> QED
      BY <3>1, ChildrenBelow, PathOrder
  <2> QED
    BY <2>1, <2>2 DEF WalkForm, Rest
<1>6. Notify => mgr'.pc # "walk"
  BY DEF Notify, Idle
<1>7. User \/ Receive \/ TimerFires \/ TakeHint \/ Reconnect \/ RescanFails
        \/ (\E h \in Path : RescanStart(h)) => mgr' = mgr
  <2>1. ASSUME NEW p \in Path,
               Write(p) \/ Mkdir(p) \/ Unlink(p) \/ RescanStart(p)
        PROVE  mgr' = mgr
    BY <2>1 DEF Write, Mkdir, Unlink, Edit, RescanStart
  <2>2. Receive \/ TimerFires \/ TakeHint \/ Reconnect \/ RescanFails
          => mgr' = mgr
    BY DEF Receive, TimerFires, TakeHint, Reconnect, RescanFails
  <2> QED
    BY <2>1, <2>2 DEF User
<1>8. RescanStep => mgr' = mgr
  <2>1. ASSUME NEW p \in Path, ScanVisit(p) \/ DeleteEntry(p) \/ Put(p)
        PROVE  mgr' = mgr
    BY <2>1 DEF ScanVisit, DeleteEntry, Put
  <2>2. ASSUME NEW d \in Dir, WalkRoot(d)
        PROVE  mgr' = mgr
    BY <2>2 DEF WalkRoot
  <2>3. DeletesDone \/ AddRoot => mgr' = mgr
    BY DEF DeletesDone, AddRoot
  <2> QED
    BY <2>1, <2>2, <2>3 DEF RescanStep
<1> QED
  BY <1>2, <1>3, <1>4, <1>5, <1>6, <1>7, <1>8 DEF Next, Manager

-----------------------------------------------------------------------------
(***************************************************************************)
(* A directory that is not watched will be, or is out of sight.            *)
(***************************************************************************)
Foreseen(d) == Unseen(d) \/ Walking(d) \/ Told(d) \/ Reached(d)

LEMMA ForeseenBelow ==
  ASSUME TypeOK, NEW a \in Dir, NEW d \in Dir, IsPrefix(a, d), Foreseen(a)
  PROVE  Foreseen(d)
<1>1. \A b \in Path : IsPrefix(b, a) => IsPrefix(b, d)
  BY PathOrder, RootPath
<1>2. CASE Unseen(a)
  BY <1>1, <1>2, RootPath DEF Foreseen, Unseen
<1>3. CASE Walking(a)
  BY <1>1, <1>3 DEF Foreseen, Walking, TypeOK
<1>4. CASE Told(a)
  BY <1>1, <1>4, RootPath DEF Foreseen, Told
<1>5. CASE Reached(a)
  <2>1. mgr.todo \subseteq Path
    BY RootPath DEF TypeOK
  <2> QED
    BY <1>1, <1>5, <2>1 DEF Foreseen, Reached
<1> QED
  BY <1>2, <1>3, <1>4, <1>5 DEF Foreseen

\* Below a directory that a walk visits, the walk has more to visit.
LEMMA WalkGoesOn ==
  ASSUME TypeOK, Tree, NEW x \in Dir, NEW d \in Dir, IsPrefix(x, d), x # d,
         Exists(d)
  PROVE  \E c \in ChildrenOf(x) \cap Dir : IsPrefix(c, d)
<1>1. PICK c \in Path : /\ c # <<>> /\ Front(c) = x /\ IsPrefix(c, d)
                        /\ (c # d => c \in Dir)
  BY ChildToward, RootPath
<1>2. Exists(c)
  BY <1>1, RootPath DEF Tree
<1> QED
  BY <1>1, <1>2 DEF ChildrenOf

LEMMA VisitForesees ==
  ASSUME TypeOK, Tree, NEW x \in Dir, Exists(x), AddDir(x), disk' = disk,
         NEW d \in Dir, Exists(d), d \notin known', Unseen(d)
  PROVE  Unseen(d)' \/ \E c \in ChildrenOf(x) \cap Dir : IsPrefix(c, d)
<1>1. PICK a \in Dir : /\ IsPrefix(a, d)
                       /\ (a \in known /\ ~Observed(a)) \/ a \in skipped
  BY DEF Unseen
<1>2. known' = known \cup {x} /\ skipped' = skipped \ {x} /\ x # d
  BY DEF AddDir
<1>3. CASE a \in known /\ ~Observed(a)
  <2>1. watched'[a] = watched[a]
    BY <1>3 DEF AddDir, TypeOK
  <2> QED
    BY <1>1, <1>2, <1>3, <2>1 DEF Unseen, Observed, Exists
<1>4. CASE a \in skipped /\ a # x
  BY <1>1, <1>2, <1>4 DEF Unseen
<1>5. CASE a = x
  BY <1>1, <1>2, <1>5, WalkGoesOn
<1> QED
  BY <1>1, <1>3, <1>4, <1>5

LEMMA WalkingKept ==
  ASSUME TypeOK, Next, ~AddRoot, \A d \in Dir : ~WalkRoot(d)
  PROVE  scan.pc = "watch" => scan' = scan
<1>1. User \/ Manager \/ Receive \/ TimerFires \/ TakeHint \/ Reconnect
        => scan' = scan
  <2>1. ASSUME NEW p \in Path, Write(p) \/ Mkdir(p) \/ Unlink(p)
        PROVE  scan' = scan
    BY <2>1 DEF Write, Mkdir, Unlink, Edit
  <2>2. ASSUME NEW d \in Dir, WalkNew(d)
        PROVE  scan' = scan
    BY <2>2 DEF WalkNew
  <2>3. Take \/ Notify => scan' = scan
    BY DEF Take, Notify
  <2>4. Receive \/ TimerFires \/ TakeHint \/ Reconnect => scan' = scan
    BY DEF Receive, TimerFires, TakeHint, Reconnect
  <2> QED
    BY <2>1, <2>2, <2>3, <2>4 DEF User, Manager
<1>2. ASSUME NEW p \in Path,
             RescanStart(p) \/ ScanVisit(p) \/ DeleteEntry(p) \/ Put(p)
      PROVE  scan.pc # "watch"
  BY <1>2 DEF RescanStart, ScanVisit, DeleteEntry, Put
<1>3. DeletesDone \/ RescanFails => scan.pc # "watch"
  BY DEF DeletesDone, RescanFails
<1> QED
  BY <1>1, <1>2, <1>3 DEF Next, RescanStep

LEMMA RootKnownKept ==
  ASSUME TypeOK, RootKnown, Next
  PROVE  RootKnown'
<1>1. CASE AddRoot
  <2>1. scan' = [NoScan EXCEPT !.pc = "watch", !.left = {<<>>}]
    BY <1>1 DEF AddRoot
  <2>2. scan'.pc = "watch" /\ scan'.left = {<<>>}
    BY <2>1 DEF NoScan
  <2>3. Walking(<<>>)'
    BY <2>2, PathOrder, RootPath DEF Walking
  <2> QED
    BY <2>3 DEF RootKnown
<1>2. ASSUME NEW d \in Dir, WalkRoot(d)
      PROVE  RootKnown'
  <2>1. CASE ~tracked'
    BY <2>1 DEF RootKnown
  <2>2. CASE tracked'
    <3>1. /\ scan.pc = "watch" /\ d \in scan.left /\ tracked
          /\ known' = known \cup {d}
          /\ scan' = IF Rest(scan.left, d) = {} THEN NoScan
                     ELSE [scan EXCEPT !.left = Rest(@, d)]
      BY <1>2, <2>2 DEF WalkRoot, AddDir
    <3>2. CASE <<>> \in known'
      BY <3>2 DEF RootKnown
    <3>3. CASE <<>> \notin known'
      <4>1. PICK a \in scan.left : IsPrefix(a, <<>>)
        BY <2>2, <3>1, <3>3 DEF RootKnown, Walking
      <4>2. a = <<>> /\ a # d
        BY <3>1, <3>3, <4>1, PathOrder, RootPath DEF TypeOK
      <4>3. <<>> \in Rest(scan.left, d)
        BY <4>2 DEF Rest
      <4>4. scan'.pc = "watch" /\ <<>> \in scan'.left
        BY <3>1, <4>3 DEF TypeOK
      <4> QED
        BY <4>1, <4>2, <4>4 DEF RootKnown, Walking
    <3> QED
      BY <3>2, <3>3
  <2> QED
    BY <2>1, <2>2
<1>3. CASE ~AddRoot /\ \A d \in Dir : ~WalkRoot(d)
  <2>1. scan.pc = "watch" => scan' = scan
    BY <1>3, WalkingKept
  <2>2. tracked' = tracked /\ known \subseteq known'
    <3>1. ASSUME NEW p \in Path,
                 \/ Write(p) \/ Mkdir(p) \/ Unlink(p)
                 \/ RescanStart(p) \/ ScanVisit(p) \/ DeleteEntry(p) \/ Put(p)
          PROVE  tracked' = tracked /\ known' = known
      BY <3>1 DEF Write, Mkdir, Unlink, Edit, RescanStart, ScanVisit,
                  DeleteEntry, Put, watches
    <3>2. ASSUME NEW d \in Dir, WalkNew(d)
          PROVE  tracked' = tracked /\ known \subseteq known'
      BY <3>2 DEF WalkNew, AddDir
    <3>3. Take \/ Notify \/ Receive \/ TimerFires \/ TakeHint \/ Reconnect
            => tracked' = tracked /\ known' = known
      BY DEF Take, Notify, Receive, TimerFires, TakeHint, Reconnect, watches
    <3>4. DeletesDone \/ RescanFails => tracked' = tracked /\ known' = known
      BY DEF DeletesDone, RescanFails, watches
    <3> QED
      BY <1>3, <3>1, <3>2, <3>3, <3>4 DEF Next, User, Manager, RescanStep
  <2> QED
    BY <2>1, <2>2 DEF RootKnown, Walking
<1> QED
  BY <1>1, <1>2, <1>3

LEMMA UserKeepsForeseen ==
  ASSUME TypeOK, Fresh, User, NEW d \in Dir, Foreseen(d)
  PROVE  Foreseen(d)'
<1> USE RootPath
<1>1. PICK p \in Path : Write(p) \/ Mkdir(p) \/ Unlink(p)
  BY DEF User
<1>2. /\ disk \in [Path -> Nat] /\ watched \in [Dir -> Nat] /\ edits \in Nat
      /\ events \in Seq(Event)
  BY DEF TypeOK
<1>3. /\ UNCHANGED <<known, mgr, scan>> /\ skipped \subseteq skipped'
      /\ events' = events \/ \E e \in Event : events' = Append(events, e)
  <2>1. UNCHANGED <<known, mgr, scan>> /\ skipped \subseteq skipped'
    BY <1>1 DEF Write, Mkdir, Unlink, Edit
  <2>2. \A q \in Path, op \in {"create", "write", "remove", "overflow"} :
          [path |-> q, op |-> op] \in Event
    BY DEF Event
  <2>3. CASE Write(p)
    <3>1. (IF Exists(p) THEN "write" ELSE "create")
            \in {"create", "write", "remove", "overflow"}
      OBVIOUS
    <3> QED
      BY <2>1, <2>2, <2>3, <3>1 DEF Write, Edit
  <2>4. CASE Mkdir(p)
    BY <2>1, <2>2, <2>4 DEF Mkdir, Edit
  <2>5. CASE Unlink(p)
    BY <2>1, <2>2, <2>5 DEF Unlink, Edit
  <2> QED
    BY <1>1, <2>3, <2>4, <2>5
<1>4. ASSUME NEW a \in Dir, ~Observed(a)
      PROVE  ~Observed(a)'
  <2>1. CASE a # p
    <3>1. disk'[a] = disk[a] /\ watched'[a] = watched[a]
      BY <1>1, <1>2, <2>1 DEF Write, Mkdir, Unlink, Edit
    <3> QED
      BY <1>4, <3>1 DEF Observed, Exists
  <2>2. CASE a = p /\ Mkdir(p)
    <3>1. disk'[a] = edits + 2 /\ watched'[a] = watched[a]
      BY <1>2, <2>2 DEF Mkdir, Edit
    <3>2. watched[a] <= edits + 1
      BY DEF Fresh
    <3>3. disk'[a] # watched'[a]
      BY <1>2, <3>1, <3>2
    <3> QED
      BY <3>3 DEF Observed
  <2>3. CASE a = p /\ Unlink(p)
    BY <1>2, <2>3 DEF Unlink, Edit, Observed, Exists
  <2> QED
    BY <1>1, <2>1, <2>2, <2>3 DEF Write
<1>5. Unseen(d) => Unseen(d)'
  BY <1>3, <1>4 DEF Unseen
<1>6. Told(d) => Told(d)'
  <2>1. ASSUME NEW e \in Event, events' = Append(events, e),
               NEW i \in 1..Len(events)
        PROVE  i \in 1..Len(events') /\ events'[i] = events[i]
    <3>1. /\ Len(events') = Len(events) + 1 /\ Len(events) \in Nat
          /\ events'[i] = events[i]
      BY <1>2, <2>1, AppendProperties, LenProperties
    <3> QED
      BY <3>1
  <2>2. ASSUME NEW e \in Event, events' = Append(events, e), Told(d)
        PROVE  Told(d)'
    <3>1. PICK i \in 1..Len(events) : /\ events[i].op = "create"
                                      /\ events[i].path \in Dir
                                      /\ IsPrefix(events[i].path, d)
      BY <2>2 DEF Told
    <3>2. i \in 1..Len(events') /\ events'[i] = events[i]
      BY <2>1, <2>2
    <3> QED
      BY <3>1, <3>2 DEF Told
  <2>3. CASE events' = events
    BY <2>3 DEF Told
  <2> QED
    BY <1>3, <2>2, <2>3
<1>7. /\ Walking(d) => Walking(d)'
      /\ Reached(d) => Reached(d)'
  BY <1>3 DEF Walking, Reached
<1> QED
  BY <1>5, <1>6, <1>7 DEF Foreseen

\* The user makes a directory: its parent is watched and the event is queued or
\* lost, or what foresees the parent foresees it.
LEMMA UserWatchful ==
  ASSUME TypeOK, Fresh, Watchful, User
  PROVE  Watchful'
<1> USE RootPath
<1>1. PICK p \in Path : Write(p) \/ Mkdir(p) \/ Unlink(p)
  BY DEF User
<1>2. disk \in [Path -> Nat] /\ events \in Seq(Event)
  BY DEF TypeOK
<1>3. UNCHANGED <<tracked, known>>
  BY <1>1 DEF Write, Mkdir, Unlink, Edit
<1> SUFFICES ASSUME tracked, NEW d \in Dir, Exists(d)', d \notin known
             PROVE  Foreseen(d)'
  BY <1>3 DEF Watchful, Foreseen
<1>4. CASE Exists(d)
  <2>1. Foreseen(d)
    BY <1>4 DEF Watchful, Foreseen
  <2> QED
    BY <2>1, UserKeepsForeseen
<1>5. CASE ~Exists(d)
  <2>1. d = p /\ Mkdir(p)
    BY <1>1, <1>2, <1>5 DEF Write, Mkdir, Unlink, Edit, Exists
  <2>2. p # <<>> /\ Exists(Front(p))
    BY <2>1 DEF Mkdir
  <2>3. /\ Front(p) \in Dir /\ Front(p) # p /\ IsPrefix(Front(p), p)
    BY <2>2, ParentOf
  <2>4. CASE events' = Append(events, [path |-> p, op |-> "create"])
    <3>1. [path |-> p, op |-> "create"] \in Event
      BY DEF Event
    <3>2. /\ Len(events') = Len(events) + 1 /\ Len(events) \in Nat
          /\ events'[Len(events) + 1] = [path |-> p, op |-> "create"]
      BY <1>2, <2>4, <3>1, AppendProperties, LenProperties
    <3>3. Len(events) + 1 \in 1..Len(events')
      BY <3>2
    <3> QED
      BY <2>1, <3>2, <3>3, PathOrder DEF Foreseen, Told
  <2>5. CASE p \in skipped'
    BY <2>1, <2>5, PathOrder DEF Foreseen, Unseen
  <2>6. CASE ~Observed(Front(p))
    <3>1. Foreseen(Front(p))
      <4>1. CASE Front(p) \in known
        BY <2>3, <2>6, <4>1, PathOrder DEF Foreseen, Unseen
      <4>2. CASE Front(p) \notin known
        BY <2>2, <2>3, <4>2 DEF Watchful, Foreseen
      <4> QED
        BY <4>1, <4>2
    <3>2. Foreseen(d)
      BY <2>1, <2>3, <3>1, ForeseenBelow
    <3> QED
      BY <3>2, UserKeepsForeseen
  <2> QED
    BY <2>1, <2>4, <2>5, <2>6 DEF Mkdir, Edit
<1> QED
  BY <1>4, <1>5

LEMMA TakeWatchful ==
  ASSUME TypeOK, Tree, RootKnown, Watchful, Take
  PROVE  Watchful'
<1> USE RootPath
<1>1. /\ mgr.pc = "idle" /\ events # <<>> /\ events' = Tail(events)
      /\ UNCHANGED <<disk, tracked, known, watched, skipped, scan>>
  BY DEF Take, watches
<1>2. events \in Seq(Event)
  BY DEF TypeOK
<1> SUFFICES ASSUME tracked, NEW d \in Dir, Exists(d), d \notin known
             PROVE  Foreseen(d)'
  BY <1>1 DEF Watchful, Foreseen, Exists
<1>3. Unseen(d) \/ Walking(d) \/ Told(d)
  BY <1>1 DEF Watchful, Reached
<1>4. CASE Unseen(d) \/ Walking(d)
  BY <1>1, <1>4 DEF Foreseen, Unseen, Walking, Observed, Exists
<1>5. CASE Told(d) /\ ~Walking(d)
  <2>1. PICK i \in 1..Len(events) : /\ events[i].op = "create"
                                    /\ events[i].path \in Dir
                                    /\ IsPrefix(events[i].path, d)
    BY <1>5 DEF Told
  <2>2. /\ Len(events) \in Nat /\ Len(events') = Len(events) - 1
        /\ \A j \in 1..Len(events') : events'[j] = events[j + 1]
    BY <1>1, <1>2, HeadTailProperties, LenProperties
  <2>3. CASE i > 1
    <3>1. i - 1 \in 1..Len(events') /\ (i - 1) + 1 = i
      BY <2>2, <2>3
    <3>2. events'[i - 1] = events[i]
      BY <2>2, <3>1
    <3> QED
      BY <2>1, <3>1, <3>2 DEF Foreseen, Told
  <2>4. CASE i = 1
    <3> DEFINE e == Head(events)
    <3>1. e.op = "create" /\ e.path \in Dir /\ IsPrefix(e.path, d)
      BY <1>1, <1>2, <2>1, <2>4
    <3>2. Exists(e.path)
      BY <3>1 DEF Tree
    <3>3. ~Walking(<<>>)
      BY <1>5, PathOrder DEF Walking, TypeOK
    <3>4. RootsForEvent(e.path)
      BY <3>1, <3>3, PathOrder DEF RootKnown, RootsForEvent
    <3>5. mgr' = [pc |-> "walk", path |-> e.path, todo |-> {e.path}]
      BY <3>1, <3>2, <3>4 DEF Take
    <3> HIDE DEF e
    <3> QED
      BY <3>1, <3>5 DEF Foreseen, Reached
  <2> QED
    BY <2>1, <2>3, <2>4
<1> QED
  BY <1>3, <1>4, <1>5

LEMMA WalkNewWatchful ==
  ASSUME TypeOK, Tree, Watchful, NEW x \in Dir, WalkNew(x)
  PROVE  Watchful'
<1> USE RootPath
<1>1. /\ mgr.pc = "walk" /\ x \in mgr.todo
      /\ UNCHANGED <<disk, events, tracked, scan>>
  BY DEF WalkNew, world
<1>2. known \subseteq known'
  BY DEF WalkNew, AddDir
<1> SUFFICES ASSUME tracked, NEW d \in Dir, Exists(d), d \notin known'
             PROVE  Foreseen(d)'
  BY <1>1 DEF Watchful, Foreseen, Exists
<1>3. Foreseen(d)
  BY <1>2 DEF Watchful, Foreseen
<1>4. CASE Walking(d) \/ Told(d)
  BY <1>1, <1>4 DEF Foreseen, Walking, Told
<1>5. CASE Exists(x)
  <2>1. AddDir(x)
    BY <1>5 DEF WalkNew
  <2>2. x # d
    BY <2>1 DEF AddDir
  <2>3. ASSUME NEW a \in Rest(mgr.todo, x), IsPrefix(a, d)
        PROVE  Reached(d)'
    <3>1. mgr' = [mgr EXCEPT !.todo = Rest(@, x), !.pc = "walk"]
      BY <1>5, <2>3 DEF WalkNew
    <3>2. mgr'.pc = "walk" /\ mgr'.todo = Rest(mgr.todo, x)
      BY <3>1 DEF TypeOK
    <3> QED
      BY <2>3, <3>2 DEF Reached
  <2>4. CASE Reached(d)
    <3>1. PICK a \in mgr.todo : IsPrefix(a, d)
      BY <2>4 DEF Reached
    <3>2. CASE a # x
      <4>1. a \in Rest(mgr.todo, x)
        BY <3>1, <3>2 DEF Rest
      <4> QED
        BY <2>3, <3>1, <4>1 DEF Foreseen
    <3>3. CASE a = x
      <4>1. PICK c \in ChildrenOf(x) \cap Dir : IsPrefix(c, d)
        BY <2>2, <3>1, <3>3, WalkGoesOn
      <4>2. c \in Rest(mgr.todo, x)
        BY <4>1 DEF Rest
      <4> QED
        BY <2>3, <4>1, <4>2 DEF Foreseen
    <3> QED
      BY <3>2, <3>3
  <2>5. CASE Unseen(d)
    <3>1. Unseen(d)' \/ \E c \in ChildrenOf(x) \cap Dir : IsPrefix(c, d)
      BY <1>1, <1>5, <2>1, <2>5, VisitForesees
    <3>2. CASE \E c \in ChildrenOf(x) \cap Dir : IsPrefix(c, d)
      <4>1. PICK c \in ChildrenOf(x) \cap Dir : IsPrefix(c, d)
        BY <3>2
      <4>2. c \in Rest(mgr.todo, x)
        BY <4>1 DEF Rest
      <4> QED
        BY <2>3, <4>1, <4>2 DEF Foreseen
    <3> QED
      BY <3>1, <3>2 DEF Foreseen
  <2> QED
    BY <1>3, <1>4, <2>4, <2>5 DEF Foreseen
<1>6. CASE ~Exists(x)
  <2>1. /\ skipped' = skipped \cup mgr.todo
        /\ UNCHANGED <<known, watched>>
    BY <1>6 DEF WalkNew
  <2>2. CASE Unseen(d)
    BY <1>1, <2>1, <2>2 DEF Foreseen, Unseen, Observed, Exists
  <2>3. CASE Reached(d)
    <3>1. mgr.todo \subseteq Dir
      BY DEF TypeOK
    <3> QED
      BY <2>1, <2>3, <3>1 DEF Foreseen, Reached, Unseen
  <2> QED
    BY <1>3, <1>4, <2>2, <2>3 DEF Foreseen
<1> QED
  BY <1>5, <1>6

LEMMA WalkRootWatchful ==
  ASSUME TypeOK, Tree, Watchful, NEW x \in Dir, WalkRoot(x)
  PROVE  Watchful'
<1> USE RootPath
<1>1. CASE ~tracked'
  BY <1>1 DEF Watchful
<1>2. CASE tracked'
  <2>1. /\ scan.pc = "watch" /\ x \in scan.left /\ tracked' = tracked
        /\ Exists(x) /\ AddDir(x)
        /\ scan' = IF Rest(scan.left, x) = {} THEN NoScan
                   ELSE [scan EXCEPT !.left = Rest(@, x)]
        /\ UNCHANGED <<disk, events, mgr>>
    BY <1>2 DEF WalkRoot, world
  <2>2. known' = known \cup {x}
    BY <2>1 DEF AddDir
  <2> SUFFICES ASSUME NEW d \in Dir, Exists(d), d \notin known'
               PROVE  Foreseen(d)'
    BY <2>1 DEF Watchful, Foreseen, Exists
  <2>3. Foreseen(d) /\ x # d
    BY <1>2, <2>1, <2>2 DEF Watchful, Foreseen
  <2>4. CASE Told(d) \/ Reached(d)
    BY <2>1, <2>4 DEF Foreseen, Told, Reached
  <2>5. ASSUME NEW a \in Rest(scan.left, x), IsPrefix(a, d)
        PROVE  Walking(d)'
    <3>1. scan' = [scan EXCEPT !.left = Rest(@, x)]
      BY <2>1, <2>5
    <3>2. scan'.pc = "watch" /\ scan'.left = Rest(scan.left, x)
      BY <2>1, <3>1 DEF TypeOK
    <3> QED
      BY <2>5, <3>2 DEF Walking
  <2>6. CASE Walking(d)
    <3>1. PICK a \in scan.left : IsPrefix(a, d)
      BY <2>6 DEF Walking
    <3>2. CASE a # x
      <4>1. a \in Rest(scan.left, x)
        BY <3>1, <3>2 DEF Rest
      <4> QED
        BY <2>5, <3>1, <4>1 DEF Foreseen
    <3>3. CASE a = x
      <4>1. PICK c \in ChildrenOf(x) \cap Dir : IsPrefix(c, d)
        BY <2>3, <3>1, <3>3, WalkGoesOn
      <4>2. c \in Rest(scan.left, x)
        BY <4>1 DEF Rest
      <4> QED
        BY <2>5, <4>1, <4>2 DEF Foreseen
    <3> QED
      BY <3>2, <3>3
  <2>7. CASE Unseen(d)
    <3>1. Unseen(d)' \/ \E c \in ChildrenOf(x) \cap Dir : IsPrefix(c, d)
      BY <2>1, <2>7, VisitForesees
    <3>2. CASE \E c \in ChildrenOf(x) \cap Dir : IsPrefix(c, d)
      <4>1. PICK c \in ChildrenOf(x) \cap Dir : IsPrefix(c, d)
        BY <3>2
      <4>2. c \in Rest(scan.left, x)
        BY <4>1 DEF Rest
      <4> QED
        BY <2>5, <4>1, <4>2 DEF Foreseen
    <3> QED
      BY <3>1, <3>2 DEF Foreseen
  <2> QED
    BY <2>3, <2>4, <2>6, <2>7 DEF Foreseen
<1> QED
  BY <1>1, <1>2

LEMMA WatchfulKept ==
  ASSUME TypeOK, Tree, Fresh, RootKnown, Watchful, Next
  PROVE  Watchful'
<1> USE RootPath
<1>1. CASE AddRoot
  <2>1. scan' = [NoScan EXCEPT !.pc = "watch", !.left = {<<>>}]
    BY <1>1 DEF AddRoot
  <2>2. scan'.pc = "watch" /\ scan'.left = {<<>>}
    BY <2>1 DEF NoScan
  <2>3. \A d \in Dir : Walking(d)'
    BY <2>2, PathOrder DEF Walking
  <2> QED
    BY <2>3 DEF Watchful
<1>2. CASE UNCHANGED <<disk, tracked, known, watched, skipped, events, mgr>>
           /\ (scan.pc = "watch" => scan' = scan)
  BY <1>2 DEF Watchful, Unseen, Walking, Told, Reached, Observed, Exists
<1>3. CASE Notify
  <2>1. /\ UNCHANGED <<disk, tracked, known, watched, skipped, events, scan>>
        /\ mgr.pc = "notify"
    BY <1>3 DEF Notify, world, watches
  <2> QED
    BY <2>1 DEF Watchful, Unseen, Walking, Told, Reached, Observed, Exists
<1>4. ASSUME NEW p \in Path,
             RescanStart(p) \/ ScanVisit(p) \/ DeleteEntry(p) \/ Put(p)
      PROVE  UNCHANGED <<disk, tracked, known, watched, skipped, events, mgr>>
             /\ scan.pc # "watch"
  BY <1>4 DEF RescanStart, ScanVisit, DeleteEntry, Put, world, watches
<1>5. Receive \/ TimerFires \/ TakeHint \/ Reconnect
        => UNCHANGED <<disk, tracked, known, watched, skipped, events, mgr,
                       scan>>
  BY DEF Receive, TimerFires, TakeHint, Reconnect, world, watches
<1>6. DeletesDone \/ RescanFails
        => /\ UNCHANGED <<disk, tracked, known, watched, skipped, events, mgr>>
           /\ scan.pc # "watch"
  BY DEF DeletesDone, RescanFails, world, watches
<1> QED
  BY <1>1, <1>2, <1>3, <1>4, <1>5, <1>6, UserWatchful, TakeWatchful,
     WalkNewWatchful, WalkRootWatchful DEF Next, Manager, RescanStep

LEMMA StructureKept ==
  ASSUME TypeOK, Structure, [Next]_vars
  PROVE  Structure'
<1>1. CASE Next
  <2>1. Tree' /\ Fresh'
    BY <1>1, UserTree, OthersTree, OthersLeaveTheDisk DEF Structure
  <2> QED
    BY <1>1, <2>1, ScanFormKept, WalkFormKept, RootKnownKept, WatchfulKept
       DEF Structure
<1>2. CASE UNCHANGED vars
  <2>1. UNCHANGED <<disk, edits, watched, scan, mgr, tracked, known, skipped,
                    events>>
    BY <1>2 DEF vars, world, watches
  <2>2. Tree' /\ Fresh'
    BY <2>1 DEF Structure, Tree, Fresh, Exists
  <2>3. ScanForm' /\ WalkForm'
    BY <2>1 DEF Structure, ScanForm, Frontier, WalkForm
  <2>4. RootKnown' /\ Watchful'
    BY <2>1 DEF Structure, RootKnown, Watchful, Unseen, Walking, Told, Reached,
                Observed, Exists
  <2> QED
    BY <2>2, <2>3, <2>4 DEF Structure
<1> QED
  BY <1>1, <1>2

-----------------------------------------------------------------------------
(***************************************************************************)
(* What must be announced: what differs from the published entries, what a *)
(* scan has read and would publish wrongly, and a directory that is about  *)
(* to be published and has gone.  The first alone is not inductive: a      *)
(* deletion or a put of the rescan turns the others into it.               *)
(***************************************************************************)
Differs(q) ==
  IF q \in Dir THEN Exists(q) # (scan.found[q] # 0)
  ELSE scan.found[q] # disk[q]

Misread ==
  {q \in Path : /\ scan.pc \in {"scan", "delete"}
                /\ IsPrefix(scan.hint, q)
                /\ ~(scan.pc = "scan" /\ \E a \in scan.left : IsPrefix(a, q))
                /\ Differs(q)}

Outlived == {q \in Dir : scan.pc = "put" /\ q \in scan.left /\ ~Exists(q)}

Stale == Changed \cup Misread \cup Outlived

Settles(q) == Announced(q) \/ BeingRescanned(q) \/ q \in lost

StaleAnnounced == \A q \in Stale : Settles(q)

LEMMA StalePaths ==
  /\ Changed \subseteq Path /\ Misread \subseteq Path /\ Outlived \subseteq Path
  /\ Stale \subseteq Path
BY RootPath DEF Stale, Changed, ChangedSince, Misread, Outlived

\* What must be announced is what a dropped hint is charged with.
LEMMA StaleUnsettled ==
  ASSUME TypeOK, ScanForm
  PROVE  Stale \subseteq Unsettled
<1>1. disk \in [Path -> Nat] /\ scan.found \in [Path -> Nat]
  BY DEF TypeOK
<1>2. Misread \subseteq Unsettled
  BY <1>1 DEF Misread, Unsettled, Differs, Exists
<1>3. Outlived \subseteq Unsettled
  BY <1>1, RootPath DEF Outlived, Unsettled, Exists, ScanForm
<1> QED
  BY <1>2, <1>3 DEF Stale, Unsettled

LEMMA SameStale ==
  ASSUME UNCHANGED <<disk, index, scan>>
  PROVE  /\ Stale' = Stale
         /\ \A q \in Path : BeingRescanned(q)' <=> BeingRescanned(q)
<1>1. Changed' = Changed
  BY DEF Changed, ChangedSince, Exists
<1>2. Misread' = Misread
  BY DEF Misread, Differs, Exists
<1>3. Outlived' = Outlived
  BY DEF Outlived, Exists
<1>4. \A q \in Path : BeingRescanned(q)' <=> BeingRescanned(q)
  BY DEF BeingRescanned, Exists
<1> QED
  BY <1>1, <1>2, <1>3, <1>4 DEF Stale

LEMMA SameAnnounced ==
  ASSUME UNCHANGED <<events, mgr, changeCh, pending, timer, fired, due>>
  PROVE  \A q \in Path : Announced(q)' <=> Announced(q)
BY DEF Announced

LEMMA RootHintAnnounces ==
  ASSUME <<>> \in due, NEW q \in Path
  PROVE  Announced(q)
BY PathOrder DEF Announced

LEMMA InitStale == Init => StaleAnnounced
<1> SUFFICES ASSUME Init, NEW q \in Stale
             PROVE  Announced(q)
  BY DEF StaleAnnounced, Settles
<1>1. <<>> \in due /\ q \in Path
  BY StalePaths DEF Init
<1> QED
  BY <1>1, RootHintAnnounces

LEMMA RescanStartStale ==
  ASSUME TypeOK, StaleAnnounced, NEW h \in Path, RescanStart(h)
  PROVE  StaleAnnounced'
<1>1. /\ scan.pc = "idle" /\ h \in due /\ due' = due \ {h} /\ lost' = lost
      /\ UNCHANGED <<disk, index, events, mgr, changeCh, pending, timer, fired>>
  BY DEF RescanStart, world, debounce
<1>2. scan' = [NoScan EXCEPT !.pc = "scan", !.hint = h, !.left = {h}]
  BY DEF RescanStart
<1>3. scan'.pc = "scan" /\ scan'.hint = h /\ scan'.left = {h}
  BY <1>2 DEF NoScan
<1>4. Stale' = Changed
  BY <1>1, <1>3 DEF Stale, Changed, ChangedSince, Misread, Outlived, Exists
<1> SUFFICES ASSUME NEW q \in Changed
             PROVE  Settles(q)'
  BY <1>4 DEF StaleAnnounced
<1>5. Settles(q)
  BY DEF StaleAnnounced, Stale
<1>6. CASE q \in lost
  BY <1>1, <1>6 DEF Settles
<1>7. CASE IsPrefix(h, q)
  <2>1. BeingRescanned(q)'
    BY <1>3, <1>7 DEF BeingRescanned
  <2> QED
    BY <2>1 DEF Settles
<1>8. CASE Announced(q) /\ ~IsPrefix(h, q)
  <2>1. Announced(q)'
    BY <1>1, <1>8 DEF Announced
  <2> QED
    BY <2>1 DEF Settles
<1>9. ~BeingRescanned(q)
  BY <1>1 DEF BeingRescanned
<1> QED
  BY <1>5, <1>6, <1>7, <1>8, <1>9 DEF Settles

LEMMA ScanVisitStale ==
  ASSUME TypeOK, Tree, ScanForm, StaleAnnounced, NEW p \in Path, ScanVisit(p)
  PROVE  StaleAnnounced'
<1> USE RootPath
<1>1. /\ scan.pc = "scan" /\ p \in scan.left /\ Frontier /\ lost \subseteq lost'
      /\ UNCHANGED <<disk, index, events, mgr, changeCh, pending, timer, fired,
                     due>>
  BY DEF ScanVisit, ScanForm, world, debounce
<1>2. /\ scan \in [pc : {"idle", "scan", "delete", "put", "watch"},
                   hint : Path, left : SUBSET Path, found : [Path -> Nat]]
      /\ disk \in [Path -> Nat]
  BY DEF TypeOK
<1>3. \A q \in Path : Announced(q)' <=> Announced(q)
  BY <1>1, SameAnnounced
<1>4. Changed' = Changed
  BY <1>1 DEF Changed, ChangedSince, Exists
<1> SUFFICES ASSUME NEW q \in Stale'
             PROVE  Settles(q)'
  BY DEF StaleAnnounced
<1>5. q \in Path
  BY <1>4, StalePaths DEF Stale, Misread, Outlived
<1>6. CASE ~Exists(p)
  <2>1. scan' = [NoScan EXCEPT !.pc = "delete", !.hint = scan.hint]
        /\ lost' = lost \cup Below(scan.hint)
    BY <1>6 DEF ScanVisit
  <2>2. scan'.pc = "delete" /\ scan'.hint = scan.hint
    BY <2>1 DEF NoScan
  <2>3. CASE IsPrefix(scan.hint, q)
    BY <1>5, <2>1, <2>3 DEF Below, Settles
  <2>4. CASE ~IsPrefix(scan.hint, q)
    <3>1. q \in Changed
      BY <1>4, <2>2, <2>4 DEF Stale, Misread, Outlived
    <3>2. Settles(q) /\ ~BeingRescanned(q)
      BY <2>4, <3>1 DEF StaleAnnounced, Stale, BeingRescanned
    <3> QED
      BY <1>1, <1>3, <1>5, <3>2 DEF Settles
  <2> QED
    BY <2>3, <2>4
<1>7. CASE Exists(p)
  <2> DEFINE left == (scan.left \ {p})
                       \cup (IF p \in Dir THEN ChildrenOf(p) ELSE {})
  <2>1. scan' = [scan EXCEPT !.found[p] = disk[p], !.left = left,
                            !.pc = IF left = {} THEN "delete" ELSE "scan"]
    BY <1>7 DEF ScanVisit
  <2>2. /\ scan'.hint = scan.hint /\ scan'.left = left
        /\ scan'.pc \in {"scan", "delete"} /\ (left # {} => scan'.pc = "scan")
        /\ scan'.found[p] = disk[p]
        /\ \A r \in Path \ {p} : scan'.found[r] = scan.found[r]
    BY <1>2, <2>1
  <2> HIDE DEF left
  <2>3. ASSUME BeingRescanned(q)
        PROVE  BeingRescanned(q)'
    <3>1. IsPrefix(scan'.hint, q)
      BY <2>2, <2>3 DEF BeingRescanned
    <3>2. ASSUME NEW a \in left, IsPrefix(a, q)
          PROVE  BeingRescanned(q)'
      BY <2>2, <3>1, <3>2 DEF BeingRescanned
    <3>3. ASSUME scan'.found[q] = disk[q]
          PROVE  BeingRescanned(q)'
      BY <1>1, <2>2, <3>1, <3>3 DEF BeingRescanned
    <3>4. CASE scan.found[q] = disk[q]
      BY <1>5, <2>2, <3>3, <3>4
    <3>5. ASSUME NEW a \in scan.left, IsPrefix(a, q), a # p
          PROVE  BeingRescanned(q)'
      BY <3>2, <3>5 DEF left
    <3>6. CASE p = q
      BY <2>2, <3>3, <3>6
    <3>7. CASE IsPrefix(p, q) /\ p # q
      <4>1. /\ p \in Dir
            /\ \E c \in Path : /\ c # <<>> /\ Front(c) = p /\ IsPrefix(c, q)
        BY <1>5, <3>7, ChildToward
      <4>2. PICK c \in Path : c # <<>> /\ Front(c) = p /\ IsPrefix(c, q)
        BY <4>1
      <4>3. CASE Exists(c)
        <5>1. c \in left
          BY <4>1, <4>2, <4>3 DEF left, ChildrenOf
        <5> QED
          BY <3>2, <4>2, <5>1
      <4>4. CASE ~Exists(c)
        <5>1. ~Exists(q)
          BY <1>5, <4>2, <4>4 DEF Tree
        <5>2. scan.found[q] = 0
          BY <1>1, <1>5, <3>7 DEF Frontier
        <5> QED
          BY <3>4, <5>1, <5>2 DEF Exists
      <4> QED
        BY <4>3, <4>4
    <3> QED
      BY <1>1, <2>3, <3>4, <3>5, <3>6, <3>7 DEF BeingRescanned
  <2>4. ASSUME Settles(q)
        PROVE  Settles(q)'
    BY <1>1, <1>3, <1>5, <2>3, <2>4 DEF Settles
  <2>5. CASE q \in Changed
    BY <2>4, <2>5 DEF StaleAnnounced, Stale
  <2>6. CASE q \in Misread'
    <3>1. /\ IsPrefix(scan.hint, q)
          /\ ~(scan'.pc = "scan" /\ \E a \in left : IsPrefix(a, q))
          /\ Differs(q)'
      BY <2>2, <2>6 DEF Misread
    <3>2. CASE \E a \in scan.left : IsPrefix(a, q)
      <4>1. BeingRescanned(q)
        BY <1>1, <3>1, <3>2 DEF BeingRescanned
      <4> QED
        BY <2>3, <4>1 DEF Settles
    <3>3. CASE ~\E a \in scan.left : IsPrefix(a, q)
      <4>1. q # p
        BY <1>1, <1>5, <3>3, PathOrder
      <4>2. scan'.found[q] = scan.found[q]
        BY <1>5, <2>2, <4>1
      <4>3. Differs(q)
        BY <1>1, <3>1, <4>2 DEF Differs, Exists
      <4>4. q \in Misread
        BY <1>1, <1>5, <3>1, <3>3, <4>3 DEF Misread
      <4> QED
        BY <2>4, <4>4 DEF StaleAnnounced, Stale
    <3> QED
      BY <3>2, <3>3
  <2> QED
    BY <1>4, <2>2, <2>5, <2>6 DEF Stale, Outlived
<1> QED
  BY <1>6, <1>7

\* Deleting the entry of a path that is there makes it differ, but the scan had
\* read that path wrongly before.
LEMMA DeleteEntryStale ==
  ASSUME TypeOK, StaleAnnounced, NEW p \in Path, DeleteEntry(p)
  PROVE  StaleAnnounced'
<1> USE RootPath
<1>1. /\ scan.pc = "delete" /\ p \in Missing
      /\ index' = [index EXCEPT ![p] = 0]
      /\ lost' = lost \cap (ChangedSince(index') \cup Missing \cup ToPut)
      /\ UNCHANGED <<disk, scan, events, mgr, changeCh, pending, timer, fired,
                     due>>
  BY DEF DeleteEntry, world, debounce
<1>2. /\ index \in [Path -> Nat] /\ scan.found \in [Path -> Nat]
      /\ disk \in [Path -> Nat]
  BY DEF TypeOK
<1>3. index'[p] = 0 /\ \A r \in Path \ {p} : index'[r] = index[r]
  BY <1>1, <1>2
<1>4. scan.found[p] = 0 /\ IsPrefix(scan.hint, p)
  BY <1>1 DEF Missing, FilterEntriesByHint, Below
<1>5. Misread' = Misread /\ Outlived' = {} /\ Changed' = ChangedSince(index')
  BY <1>1 DEF Misread, Differs, Exists, Outlived, Changed, ChangedSince
<1>6. \A q \in Path : /\ Announced(q)' <=> Announced(q)
                      /\ BeingRescanned(q)' <=> BeingRescanned(q)
  <2>1. \A q \in Path : BeingRescanned(q)' <=> BeingRescanned(q)
    BY <1>1 DEF BeingRescanned, Exists
  <2> QED
    BY <1>1, <2>1, SameAnnounced
<1> SUFFICES ASSUME NEW q \in Stale'
             PROVE  Settles(q)'
  BY DEF StaleAnnounced
<1>7. q \in Path
  BY <1>5, StalePaths DEF Stale, ChangedSince
<1>8. q \in Stale /\ (q = p => q \in Missing)
  <2>1. CASE q \in Misread
    BY <1>1, <2>1 DEF Stale
  <2>2. CASE q \in Changed' /\ q # p
    <3>1. q \in Changed
      BY <1>1, <1>3, <1>7, <2>2 DEF Changed, ChangedSince, Exists
    <3> QED
      BY <2>2, <3>1 DEF Stale
  <2>3. CASE q \in Changed' /\ q = p
    <3>1. Differs(p)
      BY <1>1, <1>3, <1>4, <1>5, <2>3 DEF ChangedSince, Differs, Exists
    <3>2. p \in Misread
      BY <1>1, <1>4, <3>1 DEF Misread
    <3> QED
      BY <1>1, <2>3, <3>2 DEF Stale
  <2> QED
    BY <1>5, <2>1, <2>2, <2>3 DEF Stale
<1>9. ASSUME q \in lost
      PROVE  q \in lost'
  <2>1. CASE q \in Changed' \/ q = p
    BY <1>1, <1>5, <1>8, <1>9, <2>1
  <2>2. CASE q \notin Changed' /\ q # p
    <3>1. /\ q \in Misread /\ IsPrefix(scan.hint, q) /\ Differs(q)
      BY <1>5, <2>2 DEF Stale, Misread
    <3>2. /\ q \in Dir => (Exists(q) <=> index[q] # 0)
          /\ q \notin Dir => disk[q] = index[q]
      BY <1>1, <1>3, <1>5, <1>7, <2>2 DEF ChangedSince, Exists
    <3>3. CASE scan.found[q] = 0
      <4>1. index[q] # 0
        BY <1>2, <3>1, <3>2, <3>3 DEF Differs, Exists
      <4>2. q \in Missing
        BY <1>7, <3>1, <3>3, <4>1 DEF Missing, FilterEntriesByHint, Below
      <4> QED
        BY <1>1, <1>9, <4>2
    <3>4. CASE scan.found[q] # 0
      <4>1. index[q] = 0 \/ (q \notin Dir /\ index[q] # scan.found[q])
        BY <3>1, <3>2, <3>4 DEF Differs, Exists
      <4>2. q \in ToPut
        BY <1>7, <3>4, <4>1 DEF ToPut
      <4> QED
        BY <1>1, <1>9, <4>2
    <3> QED
      BY <3>3, <3>4
  <2> QED
    BY <2>1, <2>2
<1> QED
  BY <1>6, <1>7, <1>8, <1>9 DEF StaleAnnounced, Settles

LEMMA DeletesDoneStale ==
  ASSUME TypeOK, ScanForm, StaleAnnounced, DeletesDone
  PROVE  StaleAnnounced'
<1> USE RootPath
<1>1. /\ scan.pc = "delete" /\ Missing = {} /\ lost' = lost
      /\ scan' = [scan EXCEPT !.pc = "put", !.left = ToPut]
      /\ UNCHANGED <<disk, index, events, mgr, changeCh, pending, timer, fired,
                     due>>
  BY DEF DeletesDone, world, debounce
<1>2. /\ scan'.pc = "put" /\ scan'.left = ToPut /\ scan'.hint = scan.hint
      /\ disk \in [Path -> Nat] /\ scan.found \in [Path -> Nat]
  BY <1>1 DEF TypeOK
<1>3. \A q \in Path : Announced(q)' <=> Announced(q)
  BY <1>1, SameAnnounced
<1>4. Changed' = Changed
  BY <1>1 DEF Changed, ChangedSince, Exists
<1>5. ASSUME NEW q \in Changed
      PROVE  Settles(q)'
  <2>1. q \in Path /\ Settles(q)
    BY StalePaths DEF StaleAnnounced, Stale
  <2>2. CASE Announced(q) \/ q \in lost
    BY <1>1, <1>3, <2>1, <2>2 DEF Settles
  <2>3. CASE BeingRescanned(q)
    <3>1. IsPrefix(scan.hint, q) /\ scan.found[q] = disk[q]
      BY <1>1, <2>3 DEF BeingRescanned
    <3>2. scan.found[q] # 0
      <4>1. SUFFICES ASSUME scan.found[q] = 0
                     PROVE  FALSE
        OBVIOUS
      <4>2. index[q] # 0
        BY <3>1, <4>1 DEF Changed, ChangedSince, Exists
      <4>3. q \in Missing
        BY <2>1, <3>1, <4>1, <4>2 DEF Missing, FilterEntriesByHint, Below
      <4> QED
        BY <1>1, <4>3
    <3>3. q \in ToPut
      BY <2>1, <3>1, <3>2 DEF ToPut, Changed, ChangedSince, Exists
    <3>4. BeingRescanned(q)'
      BY <1>1, <1>2, <3>1, <3>2, <3>3 DEF BeingRescanned, Exists
    <3> QED
      BY <3>4 DEF Settles
  <2> QED
    BY <2>1, <2>2, <2>3 DEF Settles
<1>6. ASSUME NEW q \in Outlived'
      PROVE  Settles(q)'
  <2>1. q \in Dir /\ q \in Path /\ q \in ToPut /\ ~Exists(q)
    BY <1>1, <1>2, <1>6 DEF Outlived, Exists
  <2>2. scan.found[q] # 0 /\ IsPrefix(scan.hint, q) /\ Differs(q)
    BY <2>1 DEF ToPut, ScanForm, Differs
  <2>3. q \in Misread
    BY <1>1, <2>1, <2>2 DEF Misread
  <2>4. Settles(q) /\ ~BeingRescanned(q)
    BY <1>1, <2>1, <2>2, <2>3
       DEF StaleAnnounced, Stale, BeingRescanned, Exists
  <2> QED
    BY <1>1, <1>3, <2>1, <2>4 DEF Settles
<1>7. Misread' = {}
  BY <1>2 DEF Misread
<1> QED
  BY <1>4, <1>5, <1>6, <1>7 DEF StaleAnnounced, Stale

LEMMA PutStale ==
  ASSUME TypeOK, ScanForm, StaleAnnounced, NEW p \in Path, Put(p)
  PROVE  StaleAnnounced'
<1> USE RootPath
<1>1. /\ scan.pc = "put" /\ p \in scan.left
      /\ UNCHANGED <<disk, events, mgr, changeCh, pending, timer, fired, due>>
  BY DEF Put, world, debounce
<1>2. /\ index \in [Path -> Nat] /\ disk \in [Path -> Nat]
      /\ scan \in [pc : {"idle", "scan", "delete", "put", "watch"},
                   hint : Path, left : SUBSET Path, found : [Path -> Nat]]
  BY DEF TypeOK
<1>3. \A q \in Path : Announced(q)' <=> Announced(q)
  BY <1>1, SameAnnounced
<1>4. \A q : BeingRescanned(q) => q \in scan.left /\ Exists(q)
  BY <1>1 DEF BeingRescanned
<1>5. CASE scan' = NoScan /\ index' = index
           /\ lost' = lost \cup (Changed \cap scan.left)
  <2>1. Stale' = Changed
    BY <1>1, <1>5 DEF Stale, Changed, ChangedSince, Exists, Misread, Outlived,
                      NoScan
  <2>2. ASSUME NEW q \in Changed
        PROVE  Settles(q)'
    <3>1. q \in Path /\ Settles(q)
      BY StalePaths DEF StaleAnnounced, Stale
    <3> QED
      BY <1>3, <1>4, <1>5, <3>1 DEF Settles
  <2> QED
    BY <2>1, <2>2 DEF StaleAnnounced
<1>6. CASE /\ p \in Dir \/ Exists(p)
           /\ index' = [index EXCEPT ![p] = IF p \in Dir THEN scan.found[p]
                                            ELSE disk[p]]
           /\ scan' = [scan EXCEPT !.left = @ \ {p}]
           /\ lost' = lost \cap (ChangedSince(index') \cup scan'.left)
  <2>1. /\ index'[p] = IF p \in Dir THEN scan.found[p] ELSE disk[p]
        /\ \A r \in Path \ {p} : index'[r] = index[r]
    BY <1>2, <1>6
  <2>2. /\ scan'.pc = "put" /\ scan'.left = scan.left \ {p}
        /\ scan'.hint = scan.hint
    BY <1>1, <1>2, <1>6
  <2>3. Changed' = ChangedSince(index') /\ Misread' = {}
    BY <1>1, <2>2 DEF Changed, ChangedSince, Exists, Misread
  <2> SUFFICES ASSUME NEW q \in Stale'
               PROVE  Settles(q)'
    BY DEF StaleAnnounced
  <2>4. q \in Path /\ (q \in Changed' \/ q \in scan'.left)
    BY <2>3 DEF Stale, Outlived, ChangedSince
  <2>5. q \in Stale /\ (q = p => ~Exists(q))
    <3>1. CASE q = p
      <4>1. p \in Changed'
        BY <1>2, <2>2, <2>3, <3>1 DEF Stale, Outlived
      <4>2. p \in Dir
        BY <1>1, <2>1, <2>3, <4>1 DEF ChangedSince
      <4>3. ~Exists(p)
        BY <1>1, <2>1, <2>3, <4>1, <4>2 DEF ChangedSince, ScanForm, Exists
      <4> QED
        BY <1>1, <3>1, <4>2, <4>3 DEF Stale, Outlived
    <3>2. CASE q # p /\ q \in Changed'
      BY <1>1, <2>1, <2>3, <2>4, <3>2 DEF Stale, Changed, ChangedSince, Exists
    <3>3. CASE q # p /\ q \in Outlived'
      BY <1>1, <2>2, <3>3 DEF Stale, Outlived, Exists
    <3> QED
      BY <2>3, <3>1, <3>2, <3>3 DEF Stale
  <2>6. Settles(q)
    BY <2>5 DEF StaleAnnounced
  <2>7. CASE BeingRescanned(q)
    <3>1. q # p /\ q \in scan.left /\ Exists(q)
      BY <1>4, <2>5, <2>7
    <3>2. BeingRescanned(q)'
      BY <1>1, <2>2, <2>7, <3>1 DEF BeingRescanned, Exists
    <3> QED
      BY <3>2 DEF Settles
  <2>8. CASE q \in lost
    BY <1>6, <2>3, <2>4, <2>8 DEF Settles
  <2> QED
    BY <1>3, <2>4, <2>6, <2>7, <2>8 DEF Settles
<1> QED
  BY <1>5, <1>6 DEF Put

\* A rescan that fails, and the end of one.
LEMMA RescanEndsStale ==
  ASSUME TypeOK, StaleAnnounced,
         RescanFails \/ AddRoot \/ \E d \in Dir : WalkRoot(d)
  PROVE  StaleAnnounced'
<1> USE RootPath
<1>1. CASE RescanFails
  <2>1. /\ scan' = NoScan
        /\ UNCHANGED <<disk, index, events, mgr, changeCh, pending, timer,
                       fired>>
    BY <1>1 DEF RescanFails, world, debounce
  <2>2. Stale' = Changed
    BY <2>1
       DEF Stale, Changed, ChangedSince, Exists, Misread, Outlived, NoScan
  <2>3. CASE due' = due \cup {<<>>}
    <3>1. \A q \in Path : Announced(q)'
      BY <2>3, PathOrder DEF Announced
    <3> QED
      BY <2>2, <3>1, StalePaths DEF StaleAnnounced, Settles
  <2>4. CASE due' = due /\ lost' = lost \cup GivenUp
    <3>1. \A q \in Path : Announced(q)' <=> Announced(q)
      BY <2>1, <2>4, SameAnnounced
    <3>2. \A q \in Changed : BeingRescanned(q) \/ q \in lost => q \in lost'
      BY <2>4 DEF GivenUp
    <3> QED
      BY <2>2, <3>1, <3>2, StalePaths DEF StaleAnnounced, Settles, Stale
  <2> QED
    BY <1>1, <2>3, <2>4 DEF RescanFails
<1>2. CASE AddRoot \/ \E d \in Dir : WalkRoot(d)
  <2>1. /\ \A q : ~BeingRescanned(q)
        /\ scan'.pc \in {"idle", "watch"}
    <3>1. CASE AddRoot
      BY <3>1 DEF AddRoot, BeingRescanned, NoScan
    <3>2. CASE \E d \in Dir : WalkRoot(d)
      <4>1. PICK d \in Dir : WalkRoot(d)
        BY <3>2
      <4>2. /\ scan.pc = "watch"
            /\ \/ scan' = NoScan
               \/ scan' = [scan EXCEPT !.left = Rest(@, d)]
        BY <4>1 DEF WalkRoot
      <4> QED
        BY <4>2 DEF NoScan, BeingRescanned, TypeOK
    <3> QED
      BY <1>2, <3>1, <3>2
  <2>2. UNCHANGED <<disk, index, events, mgr, changeCh, pending, timer, fired,
                    due, lost>>
    BY <1>2 DEF AddRoot, WalkRoot, world, debounce
  <2>3. Stale' = Changed
    BY <2>1, <2>2 DEF Stale, Changed, ChangedSince, Exists, Misread, Outlived
  <2>4. \A q \in Path : Announced(q)' <=> Announced(q)
    BY <2>2, SameAnnounced
  <2> QED
    BY <2>1, <2>2, <2>3, <2>4, StalePaths DEF StaleAnnounced, Settles, Stale
<1> QED
  BY <1>1, <1>2

\* What the debouncing does to the hints.
LEMMA DebounceStale ==
  ASSUME TypeOK, StaleAnnounced, Receive \/ TimerFires \/ TakeHint \/ Reconnect
  PROVE  StaleAnnounced'
<1> USE RootPath
<1>1. UNCHANGED <<disk, index, scan, lost, events, mgr>>
  BY DEF Receive, TimerFires, TakeHint, Reconnect, world
<1>2. /\ events \in Seq(Event) /\ changeCh \in Seq(Path) /\ pending \subseteq Path
      /\ due \subseteq Path /\ fired \in Nat
  BY DEF TypeOK
<1>3. ASSUME NEW q \in Path, Announced(q)
      PROVE  Announced(q)'
  <2>1. CASE \/ \E i \in 1..Len(events) : IsPrefix(events[i].path, q)
             \/ mgr.pc # "idle" /\ IsPrefix(mgr.path, q)
    BY <1>1, <2>1 DEF Announced
  <2>2. CASE Receive
    <3> DEFINE S == pending \cup {Head(changeCh)}
    <3>1. /\ changeCh # <<>> /\ changeCh' = Tail(changeCh) /\ due' = due
          /\ pending' = {MergeRescanHints(S)} /\ timer' = TRUE
      BY <2>2 DEF Receive
    <3>2. Head(changeCh) \in Path
      BY <1>2, <3>1, HeadTailProperties
    <3>3. MergeRescanHints(S) \in Path
          /\ \A h \in S : IsPrefix(MergeRescanHints(S), h)
      <4>1. S \in SUBSET Path /\ S # {}
        BY <1>2, <3>2
      <4> HIDE DEF S
      <4> QED
        BY <4>1, MergedHintCovers
    <3>4. ASSUME NEW h \in S, IsPrefix(h, q)
          PROVE  Announced(q)'
      <4>1. h \in Path
        BY <1>2, <3>2
      <4> HIDE DEF S
      <4>2. IsPrefix(MergeRescanHints(S), q)
        BY <3>3, <3>4, <4>1, PathOrder
      <4> QED
        BY <3>1, <4>2 DEF Announced
    <3>5. ASSUME NEW i \in 1..Len(changeCh), IsPrefix(changeCh[i], q)
          PROVE  Announced(q)'
      <4>1. /\ Len(changeCh) \in Nat /\ Len(changeCh') = Len(changeCh) - 1
            /\ \A j \in 1..Len(changeCh') : changeCh'[j] = changeCh[j + 1]
            /\ Head(changeCh) = changeCh[1]
        BY <1>2, <3>1, HeadTailProperties, LenProperties
      <4>2. CASE i = 1
        BY <3>4, <3>5, <4>1, <4>2
      <4>3. CASE i > 1
        <5>1. i - 1 \in 1..Len(changeCh') /\ (i - 1) + 1 = i
          BY <4>1, <4>3
        <5>2. changeCh'[i - 1] = changeCh[i]
          BY <4>1, <5>1
        <5> QED
          BY <3>5, <5>1, <5>2 DEF Announced
      <4> QED
        BY <4>1, <4>2, <4>3
    <3>6. CASE \E h \in pending : IsPrefix(h, q)
      BY <3>4, <3>6
    <3>7. CASE \E h \in due : IsPrefix(h, q)
      BY <3>1, <3>7 DEF Announced
    <3> QED
      BY <1>3, <2>1, <3>5, <3>6, <3>7 DEF Announced
  <2>3. CASE TimerFires
    <3>1. /\ fired' = fired + 1 /\ UNCHANGED <<changeCh, pending, due>>
      BY <2>3 DEF TimerFires
    <3>2. fired' > 0
      BY <1>2, <3>1
    <3> QED
      BY <1>3, <2>1, <3>1, <3>2 DEF Announced
  <2>4. CASE TakeHint
    <3>1. /\ due' = due \cup (IF pending = {} THEN {<<>>} ELSE pending)
          /\ changeCh' = changeCh
      BY <2>4 DEF TakeHint
    <3>2. CASE \E h \in pending : IsPrefix(h, q)
      <4>1. PICK h \in pending : IsPrefix(h, q)
        BY <3>2
      <4>2. h \in due'
        BY <3>1
      <4> QED
        BY <4>1, <4>2 DEF Announced
    <3> QED
      BY <1>3, <2>1, <3>1, <3>2 DEF Announced
  <2>5. CASE Reconnect
    BY <1>1, <1>3, <2>5 DEF Reconnect, Announced, debounce
  <2> QED
    BY <2>2, <2>3, <2>4, <2>5
<1>4. Stale' = Stale /\ \A q \in Path : BeingRescanned(q)' <=> BeingRescanned(q)
  BY <1>1, SameStale
<1> QED
  BY <1>1, <1>3, <1>4, StalePaths DEF StaleAnnounced, Settles

LEMMA ManagerStale ==
  ASSUME TypeOK, ScanForm, StaleAnnounced, Manager
  PROVE  StaleAnnounced'
<1> USE RootPath
<1>1. /\ UNCHANGED <<disk, index, scan, pending, timer, fired, due>>
      /\ lost \subseteq lost'
  <2>1. ASSUME NEW d \in Dir, WalkNew(d)
        PROVE  /\ UNCHANGED <<disk, index, scan, pending, timer, fired, due>>
               /\ lost \subseteq lost'
    BY <2>1 DEF WalkNew, world, debounce
  <2>2. ASSUME Take
        PROVE  /\ UNCHANGED <<disk, index, scan, pending, timer, fired, due>>
               /\ lost \subseteq lost'
    BY <2>2 DEF Take, debounce
  <2>3. ASSUME Notify
        PROVE  /\ UNCHANGED <<disk, index, scan, pending, timer, fired, due>>
               /\ lost \subseteq lost'
    BY <2>3 DEF Notify, world, debounce
  <2> QED
    BY <2>1, <2>2, <2>3 DEF Manager
<1>2. Stale' = Stale /\ \A q \in Path : BeingRescanned(q)' <=> BeingRescanned(q)
  BY <1>1, SameStale
<1>3. Stale \subseteq Path /\ Stale \subseteq Unsettled
  BY StalePaths, StaleUnsettled
<1>4. /\ events \in Seq(Event) /\ changeCh \in Seq(Path)
      /\ mgr \in [pc : {"idle", "walk", "notify"}, path : Path, todo : SUBSET Dir]
  BY DEF TypeOK
<1> SUFFICES ASSUME NEW q \in Stale, Announced(q)
             PROVE  Announced(q)' \/ q \in lost'
  BY <1>1, <1>2, <1>3 DEF StaleAnnounced, Settles
<1>5. CASE \/ \E h \in due : IsPrefix(h, q)
           \/ (timer \/ fired > 0) /\ \E h \in pending : IsPrefix(h, q)
  BY <1>1, <1>5 DEF Announced
<1>6. CASE Take
  <2> DEFINE e == Head(events)
  <2>1. /\ mgr.pc = "idle" /\ events # <<>> /\ events' = Tail(events)
        /\ changeCh' = changeCh
    BY <1>6 DEF Take
  <2>2. /\ Len(events) \in Nat /\ Len(events') = Len(events) - 1
        /\ \A j \in 1..Len(events') : events'[j] = events[j + 1]
        /\ e = events[1] /\ e \in Event
    BY <1>4, <2>1, HeadTailProperties, LenProperties
  <2>3. ASSUME NEW i \in 1..Len(events), IsPrefix(events[i].path, q), i > 1
        PROVE  Announced(q)'
    <3>1. i - 1 \in 1..Len(events') /\ (i - 1) + 1 = i
      BY <2>2, <2>3
    <3>2. events'[i - 1] = events[i]
      BY <2>2, <3>1
    <3> QED
      BY <2>3, <3>1, <3>2 DEF Announced
  <2>4. CASE IsPrefix(e.path, q)
    <3>1. \/ mgr' = [Idle EXCEPT !.pc = "notify"]
          \/ mgr' = [Idle EXCEPT !.pc = "notify", !.path = e.path]
          \/ mgr' = [pc |-> "walk", path |-> e.path, todo |-> {e.path}]
          \/ lost' = lost \cup (Unsettled \cap Below(e.path))
      BY <1>6 DEF Take
    <3> HIDE DEF e
    <3>2. CASE lost' = lost \cup (Unsettled \cap Below(e.path))
      BY <1>3, <2>4, <3>2 DEF Below
    <3>3. CASE mgr' = [Idle EXCEPT !.pc = "notify"]
      <4>1. mgr'.pc # "idle" /\ mgr'.path = <<>>
        BY <3>3 DEF Idle
      <4> QED
        BY <1>3, <4>1, PathOrder DEF Announced
    <3>4. CASE \/ mgr' = [Idle EXCEPT !.pc = "notify", !.path = e.path]
               \/ mgr' = [pc |-> "walk", path |-> e.path, todo |-> {e.path}]
      <4>1. CASE mgr' = [Idle EXCEPT !.pc = "notify", !.path = e.path]
        BY <2>4, <4>1 DEF Announced, Idle
      <4>2. CASE mgr' = [pc |-> "walk", path |-> e.path, todo |-> {e.path}]
        BY <2>4, <4>2 DEF Announced
      <4> QED
        BY <3>4, <4>1, <4>2
    <3> QED
      BY <3>1, <3>2, <3>3, <3>4
  <2>5. CASE \E i \in 1..Len(changeCh) : IsPrefix(changeCh[i], q)
    BY <2>1, <2>5 DEF Announced
  <2>6. ASSUME NEW i \in 1..Len(events), IsPrefix(events[i].path, q)
        PROVE  Announced(q)' \/ q \in lost'
    <3>1. CASE i = 1
      BY <2>2, <2>4, <2>6, <3>1
    <3>2. CASE i > 1
      BY <2>3, <2>6, <3>2
    <3> QED
      BY <2>2, <3>1, <3>2
  <2> QED
    BY <1>5, <2>1, <2>5, <2>6 DEF Announced
<1>7. ASSUME NEW d \in Dir, WalkNew(d)
      PROVE  Announced(q)'
  <2>1. mgr'.path = mgr.path /\ mgr'.pc # "idle" /\ mgr.pc = "walk"
    BY <1>4, <1>7 DEF WalkNew
  <2>2. events' = events /\ changeCh' = changeCh
    BY <1>7 DEF WalkNew, world
  <2> QED
    BY <1>1, <2>1, <2>2 DEF Announced
<1>8. CASE Notify
  <2>1. mgr.pc = "notify" /\ events' = events
    BY <1>8 DEF Notify, world
  <2>2. CASE lost' = lost \cup (Unsettled \cap Below(mgr.path)) /\ changeCh' = changeCh
    <3>1. CASE IsPrefix(mgr.path, q)
      BY <1>3, <2>2, <3>1 DEF Below
    <3>2. CASE ~IsPrefix(mgr.path, q)
      BY <1>1, <2>1, <2>2, <3>2 DEF Announced
    <3> QED
      BY <3>1, <3>2
  <2>3. CASE changeCh' = Append(changeCh, mgr.path)
    <3>1. /\ Len(changeCh') = Len(changeCh) + 1 /\ Len(changeCh) \in Nat
          /\ changeCh'[Len(changeCh) + 1] = mgr.path
          /\ \A i \in 1..Len(changeCh) : changeCh'[i] = changeCh[i]
      BY <1>4, <2>3, AppendProperties, LenProperties
    <3>2. /\ Len(changeCh) + 1 \in 1..Len(changeCh')
          /\ \A i \in 1..Len(changeCh) : i \in 1..Len(changeCh')
      BY <3>1
    <3>3. CASE IsPrefix(mgr.path, q)
      BY <3>1, <3>2, <3>3 DEF Announced
    <3>4. CASE \E i \in 1..Len(changeCh) : IsPrefix(changeCh[i], q)
      <4>1. PICK i \in 1..Len(changeCh) : IsPrefix(changeCh[i], q)
        BY <3>4
      <4>2. i \in 1..Len(changeCh') /\ IsPrefix(changeCh'[i], q)
        BY <3>1, <3>2, <4>1
      <4> QED
        BY <4>2 DEF Announced
    <3>5. CASE \E i \in 1..Len(events) : IsPrefix(events[i].path, q)
      BY <2>1, <3>5 DEF Announced
    <3> QED
      BY <1>5, <3>3, <3>4, <3>5 DEF Announced
  <2> QED
    BY <1>8, <2>2, <2>3 DEF Notify
<1> QED
  BY <1>6, <1>7, <1>8 DEF Manager

(***************************************************************************)
(* The user's edit is observed and queued, or made under a directory that  *)
(* is out of sight, or under one that is not watched and foreseen: then    *)
(* the hint that will have it watched covers the edit too.                 *)
(***************************************************************************)
LEMMA UserStale ==
  ASSUME TypeOK, Tree, WalkForm, Watchful, StaleAnnounced, User
  PROVE  StaleAnnounced'
<1> USE RootPath
<1>1. PICK p \in Path : Write(p) \/ Mkdir(p) \/ Unlink(p)
  BY DEF User
<1>2. /\ p # <<>> /\ Exists(Front(p)) /\ Front(p) \in Dir /\ Front(p) # p
      /\ IsPrefix(Front(p), p)
  <2>1. p # <<>>
    BY <1>1 DEF Write, Mkdir, Unlink
  <2>2. Front(p) \in Dir /\ Front(p) # p /\ IsPrefix(Front(p), p)
    BY <2>1, ParentOf
  <2>3. Exists(p) => Exists(Front(p))
    BY <2>2 DEF Tree
  <2> QED
    BY <1>1, <2>1, <2>2, <2>3 DEF Write, Mkdir, Unlink
<1>3. /\ disk \in [Path -> Nat] /\ events \in Seq(Event)
      /\ mgr \in [pc : {"idle", "walk", "notify"}, path : Path, todo : SUBSET Dir]
  BY DEF TypeOK
<1>4. /\ \A r \in Path \ {p} : disk'[r] = disk[r]
      /\ UNCHANGED <<index, mgr, changeCh, pending, timer, fired, due, scan>>
      /\ lost \ {p} \subseteq lost'
  <2>1. CASE Write(p)
    BY <1>3, <2>1 DEF Write, Edit, debounce
  <2>2. CASE Mkdir(p)
    BY <1>3, <2>2 DEF Mkdir, Edit, debounce
  <2>3. CASE Unlink(p)
    BY <1>3, <2>3 DEF Unlink, Edit, debounce
  <2> QED
    BY <1>1, <2>1, <2>2, <2>3
<1>5. \/ /\ events' = events /\ ~Observed(Front(p))
         /\ OutOfSight(Front(p)) => p \in lost'
      \/ \E e \in Event : events' = Append(events, e) /\ IsPrefix(e.path, p)
  <2>1. ASSUME NEW op \in {"create", "write", "remove"}
        PROVE  LET e == [path |-> p, op |-> op]
                   o == [path |-> <<>>, op |-> "overflow"]
               IN /\ e \in Event /\ IsPrefix(e.path, p)
                  /\ o \in Event /\ IsPrefix(o.path, p)
    BY PathOrder DEF Event
  <2>2. CASE Write(p)
    <3>1. (IF Exists(p) THEN "write" ELSE "create") \in {"create", "write", "remove"}
      OBVIOUS
    <3> QED
      BY <2>1, <2>2, <3>1 DEF Write, Edit
  <2>3. CASE Mkdir(p)
    BY <2>1, <2>3 DEF Mkdir, Edit
  <2>4. CASE Unlink(p)
    BY <2>1, <2>4 DEF Unlink, Edit
  <2> QED
    BY <1>1, <2>2, <2>3, <2>4
<1>6. ASSUME NEW q \in Path, Announced(q)
      PROVE  Announced(q)'
  <2>1. CASE events' = events
    BY <1>4, <1>6, <2>1, SameAnnounced
  <2>2. ASSUME NEW e \in Event, events' = Append(events, e)
        PROVE  Announced(q)'
    <3>1. /\ Len(events') = Len(events) + 1 /\ Len(events) \in Nat
          /\ \A i \in 1..Len(events) : events'[i] = events[i]
      BY <1>3, <2>2, AppendProperties, LenProperties
    <3>2. \A i \in 1..Len(events) : i \in 1..Len(events')
      BY <3>1
    <3>3. ASSUME NEW i \in 1..Len(events), IsPrefix(events[i].path, q)
          PROVE  Announced(q)'
      <4>1. i \in 1..Len(events') /\ IsPrefix(events'[i].path, q)
        BY <3>1, <3>2, <3>3
      <4> QED
        BY <4>1 DEF Announced
    <3> QED
      BY <1>4, <1>6, <3>3 DEF Announced
  <2> QED
    BY <1>5, <2>1, <2>2
<1>7. ASSUME NEW q \in Stale', q # p
      PROVE  Settles(q)'
  <2>1. q \in Path
    BY <1>7 DEF Stale, Changed, ChangedSince, Misread, Outlived
  <2>2. disk'[q] = disk[q] /\ UNCHANGED <<index, scan>>
    BY <1>4, <1>7, <2>1
  <2>3. q \in Stale /\ (BeingRescanned(q) => BeingRescanned(q)')
    <3>1. q \in Changed' => q \in Changed
      BY <2>2 DEF Changed, ChangedSince, Exists
    <3>2. q \in Misread' => q \in Misread
      BY <2>2 DEF Misread, Differs, Exists
    <3>3. q \in Outlived' => q \in Outlived
      BY <2>2 DEF Outlived, Exists
    <3>4. BeingRescanned(q) => BeingRescanned(q)'
      BY <2>2 DEF BeingRescanned, Exists
    <3> QED
      BY <1>7, <3>1, <3>2, <3>3, <3>4 DEF Stale
  <2> QED
    BY <1>4, <1>6, <1>7, <2>1, <2>3 DEF StaleAnnounced, Settles
<1>8. Settles(p)'
  <2>1. ASSUME NEW e \in Event, events' = Append(events, e), IsPrefix(e.path, p)
        PROVE  Announced(p)'
    <3>1. /\ Len(events') = Len(events) + 1 /\ Len(events) \in Nat
          /\ events'[Len(events) + 1] = e
      BY <1>3, <2>1, AppendProperties, LenProperties
    <3>2. Len(events) + 1 \in 1..Len(events')
      BY <3>1
    <3> QED
      BY <2>1, <3>1, <3>2 DEF Announced
  <2>2. CASE OutOfSight(Front(p)) /\ p \in lost'
    BY <2>2 DEF Settles
  <2>3. CASE ~OutOfSight(Front(p)) /\ ~Observed(Front(p))
    <3>1. tracked /\ ~Unseen(Front(p)) /\ ~Walking(Front(p))
          /\ Front(p) \notin known
      <4>1. tracked /\ ~Unseen(Front(p))
        BY <2>3 DEF OutOfSight, Unseen
      <4>2. ~Walking(Front(p))
        <5>1. SUFFICES ASSUME Walking(Front(p))
                       PROVE  FALSE
          OBVIOUS
        <5>2. PICK a \in scan.left : scan.pc = "watch" /\ IsPrefix(a, Front(p))
          BY <5>1 DEF Walking
        <5>3. a \in Dir
          <6>1. a \in Path /\ Front(p) \in Path
            BY <1>2, <5>2 DEF TypeOK
          <6> QED
            BY <1>2, <5>2, <6>1, ChildToward
        <5> QED
          BY <2>3, <5>2, <5>3 DEF OutOfSight
      <4>3. IsPrefix(Front(p), Front(p))
        BY <1>2, PathOrder
      <4>4. Front(p) \notin known
        BY <1>2, <2>3, <4>3 DEF OutOfSight
      <4> QED
        BY <4>1, <4>2, <4>4
    <3>2. Told(Front(p)) \/ Reached(Front(p))
      BY <1>2, <3>1 DEF Watchful
    <3>3. CASE Told(Front(p))
      <4>1. PICK i \in 1..Len(events) : /\ events[i].path \in Dir
                                        /\ IsPrefix(events[i].path, Front(p))
        BY <3>3 DEF Told
      <4>2. IsPrefix(events[i].path, p)
        BY <1>2, <4>1, PathOrder
      <4> QED
        BY <1>6, <4>2 DEF Announced, Settles
    <3>4. CASE Reached(Front(p))
      <4>1. PICK a \in mgr.todo : mgr.pc = "walk" /\ IsPrefix(a, Front(p))
        BY <3>4 DEF Reached
      <4>2. a \in Path /\ mgr.path \in Path /\ IsPrefix(mgr.path, a)
        BY <1>3, <4>1 DEF WalkForm
      <4>3. IsPrefix(mgr.path, p)
        BY <1>2, <4>1, <4>2, PathOrder
      <4> QED
        BY <1>6, <4>1, <4>3 DEF Announced, Settles
    <3> QED
      BY <3>2, <3>3, <3>4
  <2> QED
    BY <1>5, <2>1, <2>2, <2>3 DEF Settles
<1> QED
  BY <1>7, <1>8 DEF StaleAnnounced

LEMMA StaleKept ==
  ASSUME TypeOK, Structure, StaleAnnounced, [Next]_vars
  PROVE  StaleAnnounced'
<1>1. CASE Next
  <2>1. CASE User
    BY <2>1, UserStale DEF Structure
  <2>2. CASE Manager
    BY <2>2, ManagerStale DEF Structure
  <2>3. CASE Receive \/ TimerFires \/ TakeHint \/ Reconnect
    BY <2>3, DebounceStale
  <2>4. CASE RescanFails
    BY <2>4, RescanEndsStale
  <2>5. CASE RescanStep
    BY <2>5, ScanVisitStale, DeleteEntryStale, PutStale, DeletesDoneStale,
       RescanEndsStale DEF RescanStep, Structure
  <2>6. CASE \E h \in Path : RescanStart(h)
    BY <2>6, RescanStartStale
  <2> QED
    BY <1>1, <2>1, <2>2, <2>3, <2>4, <2>5, <2>6 DEF Next
<1>2. CASE UNCHANGED vars
  <2>1. UNCHANGED <<disk, index, scan, events, mgr, changeCh, pending, timer,
                    fired, due, lost>>
    BY <1>2 DEF vars, world, debounce
  <2> QED
    BY <2>1, SameStale, SameAnnounced, StalePaths DEF StaleAnnounced, Settles
<1> QED
  BY <1>1, <1>2

(***************************************************************************)
(* The watcher, the debouncing of hints and the rescans (watcher.go,       *)
(* watchLoop and rescanRootHintWithRetry of daemon.go) leave no change     *)
(* behind: whatever differs from what was published is covered by a hint   *)
(* that some stage still holds, or is read as it is now by the rescan      *)
(* under way, or was let go of in one of the lapses that "lost" names.     *)
(* This holds for every tree of paths, every capacity of changeCh and any  *)
(* number of edits, lost events and reconnections.                         *)
(***************************************************************************)
THEOREM AnnouncedCorrect == Spec => []ChangesAreAnnounced
<1>1. Init => Structure /\ StaleAnnounced
  BY InitStructure, InitStale
<1>2. TypeOK /\ Structure /\ StaleAnnounced /\ [Next]_vars
        => (Structure /\ StaleAnnounced)'
  BY StructureKept, StaleKept
<1>3. StaleAnnounced => ChangesAreAnnounced
  BY DEF StaleAnnounced, Settles, Stale, ChangesAreAnnounced
<1>4. Spec => []TypeOK
  BY TypeCorrect
<1> QED
  BY <1>1, <1>2, <1>3, <1>4, PTL DEF Spec
=============================================================================
