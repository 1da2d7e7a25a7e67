------------------------ MODULE IncarnationLogProofs ------------------------
(***************************************************************************)
(* What every log that only grows by IncarnationLog!Append satisfies.      *)
(***************************************************************************)
EXTENDS IncarnationLog, TLAPS

TypeOK == log \in SUBSET Event

\* No two events share a number.
UniqueSeq == \A e, f \in log : e.seq = f.seq => e = f

\* The inductive invariant.  ContentInIncarnation is proved along with the
\* other two; none of the three needs another, all need the first line.
Inv ==
  /\ TypeOK /\ UniqueSeq
  /\ NoLostUpdate
  /\ IncarnationBound
  /\ ContentInIncarnation

\* An event appended above all others neither comes between two events of the
\* log nor changes what lies between them.  Append, IncarnationLog.
LEMMA SeparationStable ==
  ASSUME TypeOK, NEW g \in Event, \A f \in log : f.seq < g.seq,
         log' = log \cup {g}, NEW e \in log, NEW f \in log
  PROVE  SeparatedByRootEvent(e, f)' <=> SeparatedByRootEvent(e, f)
BY DEF SeparatedByRootEvent, TypeOK, Event, IsRootEvent

\* When g joins the log right after the incarnation that a began is still
\* running, no root event lies between a and g.
LEMMA LiveNotSeparated ==
  ASSUME TypeOK, UniqueSeq, NEW g \in Event, \A f \in log : f.seq < g.seq,
         log' = log \cup {g}, NEW a \in log, StartsIncarnation(a),
         a.root = g.root
  PROVE  ~SeparatedByRootEvent(a, g)'
BY DEF SeparatedByRootEvent, StartsIncarnation, TypeOK, Event, IsRootEvent

\* An event of the root that is not separated from g is not older than the
\* root_add a that began the incarnation g joins.
LEMMA NotSeparatedIsInIncarnation ==
  ASSUME TypeOK, UniqueSeq, NEW g \in Event, \A f \in log : f.seq < g.seq,
         log' = log \cup {g}, NEW a \in log, StartsIncarnation(a),
         a.root = g.root, NEW e \in log, e.root = g.root,
         e.type = "content", ~SeparatedByRootEvent(e, g)'
  PROVE  e.seq > a.seq
<1>1. a.type = "root_add" /\ a # e
  BY DEF StartsIncarnation
<1>2. a.seq # e.seq
  BY <1>1 DEF UniqueSeq
<1>3. ~(e.seq < a.seq)
  BY <1>1 DEF SeparatedByRootEvent, IsRootEvent, TypeOK, Event
<1>. QED  BY <1>2, <1>3 DEF TypeOK, Event

LEMMA InvInit == Init => Inv
BY DEF Init, Inv, TypeOK, UniqueSeq, NoLostUpdate, IncarnationBound,
       ContentInIncarnation

\* One append preserves the invariant: db/events.go SubmitEvent accepts an
\* event only after the checks MayAppend states.
LEMMA InvAppend ==
  ASSUME NEW g \in Event, Inv, Append(g)
  PROVE  Inv'
<1>. USE DEF Inv
<1>0. log' = log \cup {g} /\ \A f \in log : f.seq < g.seq
  BY DEF Append
<1>1. TypeOK' /\ UniqueSeq'
  BY <1>0 DEF TypeOK, UniqueSeq, Event
\* Unless it starts an incarnation, g was allowed because of a live one, a.
<1>2. ASSUME g.type # "root_add"
      PROVE  \E a \in log :
               /\ StartsIncarnation(a)
               /\ a.root = g.root
               /\ Named(g, a)
               /\ g.type = "content" =>
                    IF PathEvents(a, g.path) = {}
                    THEN g.base = 0
                    ELSE \A f \in PathEvents(a, g.path) : g.base >= f.seq
  BY <1>2 DEF Append, MayAppend, Event
<1>3. NoLostUpdate'
  <2>. SUFFICES ASSUME NEW e \in log', NEW f \in log',
                       e.type = "content", f.type = "content",
                       e.root = f.root, e.path = f.path, e.seq < f.seq,
                       ~SeparatedByRootEvent(e, f)'
                PROVE  f.base >= e.seq
    BY DEF NoLostUpdate
  <2>1. e \in log
    BY <1>0 DEF TypeOK, Event
  <2>2. CASE f \in log
    BY <1>0, <2>1, <2>2, SeparationStable DEF NoLostUpdate
  <2>3. CASE f = g
    <3>1. PICK a \in log : /\ StartsIncarnation(a)
                           /\ a.root = g.root
                           /\ PathEvents(a, g.path) # {} =>
                                \A x \in PathEvents(a, g.path) : g.base >= x.seq
      BY <1>2, <2>3
    <3>2. e.seq > a.seq
      BY <1>0, <2>1, <2>3, <3>1, NotSeparatedIsInIncarnation
    <3>3. e \in PathEvents(a, g.path)
      BY <2>1, <2>3, <3>1, <3>2 DEF PathEvents
    <3>. QED  BY <2>3, <3>1, <3>3
  <2>. QED  BY <1>0, <2>2, <2>3
<1>4. IncarnationBound'
  <2>. SUFFICES ASSUME NEW f \in log', f.inc # None
                PROVE  \E b \in log' : /\ b.type = "root_add" /\ b.root = f.root
                                       /\ b.seq = f.inc /\ b.seq < f.seq
                                       /\ ~SeparatedByRootEvent(b, f)'
    BY DEF IncarnationBound
  <2>1. CASE f \in log
    BY <1>0, <2>1, SeparationStable DEF IncarnationBound
  <2>2. CASE f = g
    <3>1. g.type # "root_add"
      BY <2>2 DEF Append, MayAppend
    <3>2. PICK a \in log : /\ StartsIncarnation(a)
                           /\ a.root = g.root
                           /\ Named(g, a)
      BY <1>2, <3>1
    <3>3. a.seq = g.inc /\ a.type = "root_add" /\ a.seq < g.seq
      BY <1>0, <2>2, <3>2 DEF Named, StartsIncarnation
    <3>4. ~SeparatedByRootEvent(a, g)'
      BY <1>0, <3>2, LiveNotSeparated
    <3>. QED  BY <1>0, <2>2, <3>2, <3>3, <3>4
  <2>. QED  BY <1>0, <2>1, <2>2
<1>5. ContentInIncarnation'
  <2>. SUFFICES ASSUME NEW f \in log', f.type = "content"
                PROVE  \E b \in log' : /\ b.type = "root_add" /\ b.root = f.root
                                       /\ b.seq < f.seq
                                       /\ ~SeparatedByRootEvent(b, f)'
    BY DEF ContentInIncarnation
  <2>1. CASE f \in log
    BY <1>0, <2>1, SeparationStable DEF ContentInIncarnation
  <2>2. CASE f = g
    <3>1. PICK a \in log : StartsIncarnation(a) /\ a.root = g.root
      BY <1>2, <2>2
    <3>2. ~SeparatedByRootEvent(a, g)'
      BY <1>0, <3>1, LiveNotSeparated
    <3>. QED  BY <1>0, <2>2, <3>1, <3>2 DEF StartsIncarnation
  <2>. QED  BY <1>0, <2>1, <2>2
<1>. QED  BY <1>1, <1>3, <1>4, <1>5

\* The three promises hold of every log the contract allows.
\* db/events.go:66-68, 76-112.
THEOREM ContractKept ==
  Spec => [](NoLostUpdate /\ IncarnationBound /\ ContentInIncarnation)
<1>1. Init => Inv
  BY InvInit
<1>2. Inv /\ [Next]_log => Inv'
  <2>. SUFFICES ASSUME Inv, [Next]_log  PROVE Inv'
    OBVIOUS
  <2>1. CASE Next
    BY <2>1, InvAppend DEF Next
  <2>2. CASE UNCHANGED log
    BY <2>2 DEF Inv, TypeOK, UniqueSeq, NoLostUpdate, IncarnationBound,
                ContentInIncarnation, SeparatedByRootEvent
  <2>. QED  BY <2>1, <2>2
<1>3. Inv => NoLostUpdate /\ IncarnationBound /\ ContentInIncarnation
  BY DEF Inv
<1>. QED  BY <1>1, <1>2, <1>3, PTL DEF Spec
=============================================================================
