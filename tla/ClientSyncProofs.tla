-------------------------- MODULE ClientSyncProofs --------------------------
(***************************************************************************)
(* For any devices, contents and faults: the state of the sync engine is   *)
(* well typed, a device that has consumed the whole log knows the file's   *)
(* head, every version of the file goes back to an edit or a fault, and no *)
(* version is replaced that its user had not seen.                         *)
(*                                                                         *)
(* Every step appends at most one event to the log, so a fact about an     *)
(* event that exists outlives it (Grows).  KnowsHead is the argument: the  *)
(* entry of a device is an event of the file, no event of the file between *)
(* the entry and the cursor has been passed over, and an event that is     *)
(* about to become the entry is newer than all that the cursor has passed. *)
(***************************************************************************)
EXTENDS ClientSync, FiniteSetTheorems, TLAPS

IsHead(h) ==
  /\ h \in 1 .. Len(log) /\ Main(h)
  /\ \A s \in (h + 1) .. Len(log) : ~Main(s)
HasHead == \E h \in 1 .. Len(log) : IsHead(h)

CopiesHaveBytes == \A s \in 1 .. Len(log) : ~Main(s) => log[s].content \in Content

\* A version is staged until its conflict is resolved.
Staged(d) ==
  /\ pc[d] = "stage" => job[d].why = "put"
  /\ pc[d] = "head" => job[d].why \in {"put", "delete"}
  /\ pc[d] \in {"head", "place", "note"} /\ job[d].why = "put" => stash[d] \in Content
  /\ pc[d] \in {"head", "place", "note"} /\ job[d].why = "delete" => job[d].rounds > 0
  /\ pc[d] \in {"decide", "newer", "copy"} => stash[d] \in Content
  /\ pc[d] = "record" /\ job[d].why \in {"found", "copy"} => job[d].item \in Content

EntryIsEvent(d) ==
  /\ entry[d].seq \in 1 .. Len(log) /\ Main(entry[d].seq)
  /\ entry[d].content = log[entry[d].seq].content

NothingPassedOver(d) ==
  /\ cursor[d] <= Len(log)
  /\ \A s \in 1 .. cursor[d] : Main(s) => s <= entry[d].seq

\* What the operation under way is about to make of the entry or the cursor.
AboutTo(d) ==
  /\ job[d].goal <= Len(log)
  /\ pc[d] = "advance" =>
       /\ job[d].why = "page"
       /\ Main(job[d].at) => job[d].at <= entry[d].seq
  /\ pc[d] \in {"place", "note", "advance"} /\ job[d].why = "page" =>
       job[d].at = cursor[d] + 1 /\ job[d].at <= Len(log)
  /\ pc[d] \in {"stage", "head", "place", "note"} /\ job[d].why # "page" =>
       /\ job[d].why \in {"put", "delete"}
       /\ job[d].at \in 1 .. Len(log) /\ Main(job[d].at)
       /\ entry[d].seq < job[d].at
  /\ pc[d] = "record" /\ job[d].why \notin {"found", "copy"} =>
       /\ job[d].at \in 1 .. Len(log) /\ Main(job[d].at)
       /\ entry[d].seq < job[d].at
       /\ log[job[d].at].content = job[d].item

KnowsHead(d) == EntryIsEvent(d) /\ NothingPassedOver(d) /\ AboutTo(d)

LogInv == HasHead /\ CopiesHaveBytes
SyncInv == StateOK /\ LogInv /\ \A d \in Device : Staged(d) /\ KnowsHead(d)

\* A step keeps the events there are, and what is true of the log.
Grows ==
  /\ log' \in Seq(Event) /\ LogInv'
  /\ Len(log) <= Len(log')
  /\ \A s \in 1 .. Len(log) : log'[s] = log[s]

-----------------------------------------------------------------------------
\* The head is the only event of the file that no event of the file follows.
LEMMA HeadIsUnique ==
  ASSUME log \in Seq(Event), HasHead
  PROVE  /\ IsHead(PathHead)
         /\ \A h : IsHead(h) => h = PathHead
<1>1. \A h, g : IsHead(h) /\ IsHead(g) => h = g
  BY DEF IsHead
<1>2. PICK h \in 1 .. Len(log) : IsHead(h)
  BY DEF HasHead
<1>3. Len(log) \in Nat
  OBVIOUS
<1>4. /\ PathHead \in 0 .. Len(log)
      /\ PathHead > 0 => Main(PathHead)
      /\ \A s \in (PathHead + 1) .. Len(log) : ~Main(s)
  <2>1. \E g \in 0 .. Len(log) :
          /\ g > 0 => Main(g)
          /\ \A s \in (g + 1) .. Len(log) : ~Main(s)
    BY <1>2, <1>3 DEF IsHead
  <2> QED
    BY <2>1 DEF PathHead
<1>5. PathHead > 0
  BY <1>2, <1>3, <1>4 DEF IsHead
<1>6. IsHead(PathHead)
  BY <1>3, <1>4, <1>5 DEF IsHead
<1> QED
  BY <1>1, <1>6

\* An event of the file becomes the head; a conflict copy is a path of its own.
LEMMA AppendGrows ==
  ASSUME log \in Seq(Event), LogInv, NEW d \in Device,
         NEW k \in {"put", "delete", "copy"}, NEW c \in File, Accept(d, k, c),
         k = "copy" => c \in Content
  PROVE  /\ Grows
         /\ Len(log') = Len(log) + 1
         /\ log'[Len(log) + 1] = [kind |-> k, by |-> d, content |-> c]
<1> DEFINE e == [kind |-> k, by |-> d, content |-> c]
<1>1. e \in Event
  BY DEF Event
<1>2. log' = Append(log, e)
  BY DEF Accept
<1>3. /\ log' \in Seq(Event)
      /\ Len(log') = Len(log) + 1
      /\ \A s \in 1 .. Len(log) : log'[s] = log[s]
      /\ log'[Len(log) + 1] = e
      /\ Len(log) \in Nat
  BY <1>1, <1>2
<1> HIDE DEF e
<1>4. log'[Len(log) + 1].kind = k /\ log'[Len(log) + 1].content = c
  BY <1>3 DEF e
<1>5. CopiesHaveBytes'
  BY <1>3, <1>4 DEF LogInv, CopiesHaveBytes, Main
<1>6. HasHead'
  <2>1. PICK h \in 1 .. Len(log) : IsHead(h)
    BY DEF LogInv, HasHead
  <2>2. CASE k = "copy"
    <3>1. IsHead(h)'
      BY <1>3, <1>4, <2>1, <2>2 DEF IsHead, Main
    <3> QED
      BY <1>3, <3>1 DEF HasHead
  <2>3. CASE k # "copy"
    <3>1. PICK n \in Nat : n = Len(log) + 1
      BY <1>3
    <3>2. IsHead(n)'
      BY <1>3, <1>4, <2>3, <3>1 DEF IsHead, Main
    <3> QED
      BY <1>3, <3>1, <3>2 DEF HasHead
  <2> QED
    BY <2>2, <2>3
<1> QED
  BY <1>3, <1>5, <1>6 DEF Grows, LogInv, e

\* A step that leaves the log alone keeps it.
LEMMA SameGrows ==
  ASSUME log \in Seq(Event), LogInv, log' = log
  PROVE  Grows
<1>1. LogInv'
  BY DEF LogInv, HasHead, IsHead, Main, CopiesHaveBytes
<1> QED
  BY <1>1 DEF Grows

-----------------------------------------------------------------------------
\* A step of d changes what the other devices are doing in nothing.
Moves(d) ==
  /\ pc' \in [Device -> Label] /\ job' \in [Device -> Job]
  /\ \A e \in Device \ {d} : pc'[e] = pc[e] /\ job'[e] = job[e]

\* Here the operation under way has nothing in its hands.
Resting(d) ==
  /\ pc'[d] \in {"down", "idle", "page", "next", "scan", "submit", "finish"}
  /\ job'[d].goal \in 0 .. Len(log)

Settles(d) ==
  /\ Moves(d) /\ Resting(d)
  /\ pend' \in [Device -> Queue] /\ live' \in [Device -> BOOLEAN]

\* A rescan begins with nothing in hand.
LEMMA BeginRescanMoves ==
  ASSUME StateOK, NEW d \in Device, NEW via \in Via, NEW r \in 0 .. 3,
         BeginRescan(d, via, r)
  PROVE  Moves(d) /\ Resting(d)
<1> DEFINE j == [Idle EXCEPT !.via = via, !.rounds = r]
<1>1. j \in Job /\ j.goal = 0
  BY DEF Idle, Job, File
<1>2. job' = [job EXCEPT ![d] = j] /\ pc' = [pc EXCEPT ![d] = "scan"]
  BY DEF BeginRescan, Goto
<1> QED
  BY <1>1, <1>2 DEF StateOK, Label, Moves, Resting

\* So does a catch-up.
LEMMA BeginCatchUpMoves ==
  ASSUME StateOK, NEW d \in Device, NEW via \in Via, BeginCatchUp(d, via)
  PROVE  Moves(d) /\ Resting(d)
<1> DEFINE j == [Idle EXCEPT !.via = via]
<1>1. j \in Job /\ j.goal = 0
  BY DEF Idle, Job, File
<1>2. job' = [job EXCEPT ![d] = j] /\ pc' = [pc EXCEPT ![d] = "page"]
  BY DEF BeginCatchUp, Goto
<1> QED
  BY <1>1, <1>2 DEF StateOK, Label, Moves, Resting

\* An operation that ends leaves its device idle.
LEMMA RestMoves ==
  ASSUME StateOK, NEW d \in Device, Rest(d)
  PROVE  Moves(d) /\ Resting(d)
BY DEF StateOK, Rest, Goto, Idle, Job, Label, Via, File, Moves, Resting, Event

\* A rescan that went through all entries is about to install the watch.
LEMMA FinishRescanMoves ==
  ASSUME StateOK, NEW d \in Device, FinishRescan(d)
  PROVE  Moves(d) /\ Resting(d)
<1>1. job[d].via \in Via
  BY DEF StateOK, Job
<1> QED
  BY <1>1 DEF StateOK, FinishRescan, Goto, Idle, Job, Label, File, Moves, Resting, Event

\* Whatever follows an operation that succeeded starts with nothing in hand.
LEMMA ContinueSettles ==
  ASSUME StateOK, NEW d \in Device, NEW q \in Queue, Continue(d, q)
  PROVE  Settles(d)
<1>1. pend' \in [Device -> Queue] /\ live' \in [Device -> BOOLEAN]
  BY DEF StateOK, Continue, Queue
<1>2. \/ \E via \in Via : BeginCatchUp(d, via)
      \/ BeginRescan(d, "reconcile", 1)
      \/ Rest(d)
  BY DEF Continue, Via
<1> QED
  BY <1>1, <1>2, BeginCatchUpMoves, BeginRescanMoves, RestMoves DEF Settles, Via

\* After a failed one the device is idle.
LEMMA FailSettles ==
  ASSUME StateOK, NEW d \in Device, Fail(d)
  PROVE  Settles(d)
<1>1. pend' \in [Device -> Queue] /\ live' \in [Device -> BOOLEAN]
  BY DEF StateOK, Fail, Queue
<1> QED
  BY <1>1, RestMoves DEF Settles, Fail

\* A failed submission ends in one of the two.
LEMMA SubmitFailsSettles ==
  ASSUME StateOK, NEW d \in Device, SubmitFails(d)
  PROVE  Settles(d)
BY ContinueSettles, FailSettles DEF SubmitFails, Queue

-----------------------------------------------------------------------------
Good(d) == Staged(d) /\ KnowsHead(d)

\* The log only grows, and its events stay what they are.
LEMMA EventsStay ==
  ASSUME SyncInv, Grows
  PROVE  /\ Len(log) \in Nat /\ Len(log') \in Nat /\ Len(log) <= Len(log')
         /\ \A s \in 1 .. Len(log) : log'[s] = log[s]
<1>1. log \in Seq(Event) /\ log' \in Seq(Event)
  BY DEF SyncInv, StateOK, Grows
<1> QED
  BY <1>1 DEF Grows

\* A device that did not take the step knows what it knew.
LEMMA OthersKnow ==
  ASSUME SyncInv, Grows, NEW e \in Device,
         pc'[e] = pc[e], job'[e] = job[e], entry'[e] = entry[e],
         cursor'[e] = cursor[e], stash'[e] = stash[e]
  PROVE  Good(e)'
<1>1. /\ Len(log) \in Nat /\ Len(log') \in Nat /\ Len(log) <= Len(log')
      /\ \A s \in 1 .. Len(log) : log'[s] = log[s]
  BY EventsStay
<1>2. /\ entry[e].seq \in Nat /\ cursor[e] \in Nat
      /\ job[e].at \in Nat /\ job[e].goal \in Nat
  BY DEF SyncInv, StateOK, Job
<1>3. Staged(e) /\ EntryIsEvent(e) /\ NothingPassedOver(e) /\ AboutTo(e)
  BY DEF SyncInv, KnowsHead
<1>4. Staged(e)'
  BY <1>3 DEF Staged
<1>5. EntryIsEvent(e)'
  BY <1>1, <1>2, <1>3 DEF EntryIsEvent, Main
<1>6. NothingPassedOver(e)'
  BY <1>1, <1>2, <1>3 DEF NothingPassedOver, Main
<1>7. AboutTo(e)'
  <2>1. job'[e].goal <= Len(log')
    BY <1>1, <1>2, <1>3 DEF AboutTo
  <2>2. pc'[e] = "advance" =>
          job'[e].why = "page" /\ (Main(job[e].at)' => job[e].at <= entry'[e].seq)
    BY <1>1, <1>2, <1>3 DEF AboutTo, Main
  <2>3. pc[e] \in {"place", "note", "advance"} /\ job[e].why = "page" =>
          job'[e].at = cursor'[e] + 1 /\ job'[e].at <= Len(log')
    BY <1>1, <1>2, <1>3 DEF AboutTo
  <2>4. pc[e] \in {"stage", "head", "place", "note"} /\ job[e].why # "page" =>
          /\ job'[e].why \in {"put", "delete"}
          /\ job[e].at \in 1 .. Len(log') /\ log'[job[e].at].kind # "copy"
          /\ entry'[e].seq < job[e].at
    BY <1>1, <1>2, <1>3 DEF AboutTo, Main
  <2>5. pc[e] = "record" /\ job[e].why \notin {"found", "copy"} =>
          /\ job[e].at \in 1 .. Len(log') /\ log'[job[e].at].kind # "copy"
          /\ entry'[e].seq < job[e].at
          /\ log'[job[e].at].content = job[e].item
    BY <1>1, <1>2, <1>3 DEF AboutTo, Main
  <2> QED
    BY <2>1, <2>2, <2>3, <2>4, <2>5 DEF AboutTo, Main
<1> QED
  BY <1>4, <1>5, <1>6, <1>7 DEF Good, KnowsHead

\* The same holds of the device that took it, if it is at rest.
LEMMA RestedKnows ==
  ASSUME SyncInv, Grows, NEW d \in Device, Resting(d),
         entry'[d] = entry[d], cursor'[d] = cursor[d]
  PROVE  Good(d)'
<1>1. /\ Len(log) \in Nat /\ Len(log') \in Nat /\ Len(log) <= Len(log')
      /\ \A s \in 1 .. Len(log) : log'[s] = log[s]
  BY EventsStay
<1>2. entry[d].seq \in Nat /\ cursor[d] \in Nat
  BY DEF SyncInv, StateOK
<1>3. EntryIsEvent(d) /\ NothingPassedOver(d)
  BY DEF SyncInv, KnowsHead
<1>4. Staged(d)'
  BY DEF Staged, Resting
<1>5. EntryIsEvent(d)'
  BY <1>1, <1>2, <1>3 DEF EntryIsEvent, Main
<1>6. NothingPassedOver(d)'
  BY <1>1, <1>2, <1>3 DEF NothingPassedOver, Main
<1>7. AboutTo(d)'
  BY <1>1 DEF Resting, AboutTo
<1> QED
  BY <1>4, <1>5, <1>6, <1>7 DEF Good, KnowsHead

\* A step that only ends or interrupts what the device was doing.
LEMMA SettledInv ==
  ASSUME SyncInv, Grows, NEW d \in Device, Moves(d), Resting(d), StateOK',
         entry' = entry, cursor' = cursor,
         \A e \in Device \ {d} : stash'[e] = stash[e]
  PROVE  SyncInv'
<1>1. ASSUME NEW e \in Device PROVE Good(e)'
  <2>1. CASE e = d
    BY <2>1, RestedKnows
  <2>2. CASE e # d
    BY <2>2, OthersKnow DEF Moves
  <2> QED
    BY <2>1, <2>2
<1>2. LogInv'
  BY DEF Grows
<1> QED
  BY <1>1, <1>2 DEF SyncInv, Good

Others(d) ==
  \A e \in Device \ {d} :
    /\ pc'[e] = pc[e] /\ job'[e] = job[e] /\ stash'[e] = stash[e]
    /\ entry'[e] = entry[e] /\ cursor'[e] = cursor[e]

\* What is left of a step: the types, and what its own device knows after it.
LEMMA StepInv ==
  ASSUME SyncInv, Grows, NEW d \in Device, Others(d), StateOK', Good(d)'
  PROVE  SyncInv'
<1>1. ASSUME NEW e \in Device PROVE Good(e)'
  BY OthersKnow DEF Others
<1>2. LogInv'
  BY DEF Grows
<1> QED
  BY <1>1, <1>2 DEF SyncInv, Good

\* Nothing that the invariant speaks of has changed.
LEMMA AsideInv ==
  ASSUME SyncInv, log' = log, pc' = pc, job' = job, entry' = entry,
         cursor' = cursor, stash' = stash, StateOK'
  PROVE  SyncInv'
<1>1. Grows
  BY SameGrows DEF SyncInv, StateOK
<1>2. ASSUME NEW e \in Device PROVE Good(e)'
  BY <1>1, OthersKnow
<1> QED
  BY <1>1, <1>2 DEF Grows, SyncInv, Good

-----------------------------------------------------------------------------
\* Users, faults, and the steps that begin something.
LEMMA AsideSteps ==
  ASSUME SyncInv, NEW d \in Device,
         UserEdits(d) \/ Drop(d) \/ PendingFallsDue(d)
  PROVE  SyncInv'
<1> USE DEF SyncInv
<1>1. CASE UserEdits(d)
  <2>1. edits' \in 0 .. MaxEdits
    BY <1>1, ConstantsAssumption DEF UserEdits, StateOK
  <2>2. StateOK'
    BY <1>1, <2>1 DEF UserEdits, Write, StateOK, File, Tables
  <2> QED
    BY <1>1, <2>2, AsideInv DEF UserEdits, Tables
<1>2. CASE Drop(d)
  <2>1. faults' \in 0 .. MaxFaults
    BY <1>2, ConstantsAssumption DEF Drop, Broken, StateOK
  <2>2. StateOK'
    BY <1>2, <2>1 DEF Drop, StateOK, Files, Tables
  <2> QED
    BY <1>2, <2>2, AsideInv DEF Drop, Files, Tables
<1>3. CASE PendingFallsDue(d)
  <2>1. StateOK'
    BY <1>3 DEF PendingFallsDue, StateOK, Files, Queue
  <2> QED
    BY <1>3, <2>1, AsideInv DEF PendingFallsDue, Files
<1> QED
  BY <1>1, <1>2, <1>3

\* A fault is counted, within the bound.
LEMMA BrokenCounts ==
  ASSUME StateOK, NEW k, Broken(k)
  PROVE  faults' \in 0 .. MaxFaults
BY ConstantsAssumption DEF StateOK, Broken

\* What StateOK says of the variables that an operation moves.
LEMMA SettledTypes ==
  ASSUME StateOK, NEW d \in Device, Moves(d), log' \in Seq(Event),
         UNCHANGED <<disk, copies, entry, noted, cursor, stash, noticed, seen, edits>>,
         pend' \in [Device -> Queue], live' \in [Device -> BOOLEAN],
         watching' \in [Device -> BOOLEAN], faults' \in 0 .. MaxFaults
  PROVE  StateOK'
BY DEF StateOK, Moves

\* Steps that start the process, an operation, or the catch-up of a rescan.
LEMMA BeginSteps ==
  ASSUME SyncInv, NEW d \in Device,
         \/ Start(d) \/ Connect(d) \/ Hint(d) \/ RetryPending(d) \/ Finish(d)
  PROVE  SyncInv'
<1>1. StateOK /\ log \in Seq(Event)
  BY DEF SyncInv, StateOK
<1>2. Moves(d) /\ Resting(d)
  <2>1. CASE Start(d)
    <3>1. job[d].goal \in 0 .. Len(log)
      BY <1>1 DEF SyncInv, KnowsHead, AboutTo, StateOK, Job
    <3> QED
      BY <1>1, <2>1, <3>1 DEF Start, StateOK, Moves, Resting, Label
  <2>2. CASE Connect(d)
    BY <1>1, <2>2, BeginRescanMoves, BeginCatchUpMoves DEF Connect, Via
  <2>3. CASE Hint(d)
    BY <1>1, <2>3, BeginCatchUpMoves DEF Hint, Via
  <2>4. CASE RetryPending(d)
    BY <1>1, <2>4, BeginRescanMoves DEF RetryPending, Via
  <2>5. CASE Finish(d)
    <3>1. job[d].via \in Via
      BY <1>1 DEF StateOK, Job
    <3> QED
      BY <1>1, <2>5, <3>1, BeginCatchUpMoves DEF Finish
  <2> QED
    BY <2>1, <2>2, <2>3, <2>4, <2>5
<1>3. UNCHANGED <<log, Files, Tables, live, edits, faults>>
  BY DEF Start, Connect, Hint, RetryPending, Finish
<1>4. watching' \in [Device -> BOOLEAN]
  BY <1>1 DEF Start, Connect, Hint, RetryPending, Finish, StateOK
<1>5. StateOK'
  BY <1>1, <1>2, <1>3, <1>4 DEF StateOK, Moves, Files, Tables
<1>6. Grows
  BY <1>1, <1>3, SameGrows DEF SyncInv
<1> QED
  BY <1>2, <1>3, <1>5, <1>6, SettledInv DEF Files, Tables

\* A crash drops the operation under way; tables and disk stay.
LEMMA CrashStep ==
  ASSUME SyncInv, NEW d \in Device, Crash(d)
  PROVE  SyncInv'
<1>1. StateOK /\ log \in Seq(Event)
  BY DEF SyncInv, StateOK
<1>2. Moves(d) /\ Resting(d)
  <2>1. Idle \in Job /\ Idle.goal = 0
    BY DEF Idle, Job, Via, File
  <2>2. job' = [job EXCEPT ![d] = Idle] /\ pc' = [pc EXCEPT ![d] = "down"]
    BY DEF Crash
  <2> QED
    BY <1>1, <2>1, <2>2 DEF Crash, StateOK, Moves, Resting, Label
<1>3. faults' \in 0 .. MaxFaults
  BY <1>1, BrokenCounts DEF Crash
<1>4. StateOK'
  BY <1>1, <1>2, <1>3 DEF Crash, StateOK, Moves, Tables, File
<1>5. Grows
  BY <1>1, SameGrows DEF Crash, SyncInv
<1> QED
  BY <1>1, <1>2, <1>4, <1>5, SettledInv DEF Crash, Tables, StateOK

\* A debounced change starts a rescan.
LEMMA WatchStep ==
  ASSUME SyncInv, NEW d \in Device, Watch(d)
  PROVE  SyncInv'
<1>1. StateOK /\ log \in Seq(Event)
  BY DEF SyncInv, StateOK
<1>2. Moves(d) /\ Resting(d)
  BY <1>1, BeginRescanMoves DEF Watch, Via
<1>3. StateOK'
  BY <1>1, <1>2 DEF Watch, StateOK, Moves, Tables
<1>4. Grows
  BY <1>1, SameGrows DEF Watch, SyncInv
<1> QED
  BY <1>2, <1>3, <1>4, SettledInv DEF Watch, Tables

-----------------------------------------------------------------------------
\* Catch-up.

\* The operation goes from one step to the next, and only some of job changes.
LEMMA GotoMoves ==
  ASSUME StateOK, NEW d \in Device, NEW label \in Label, Goto(d, label),
         NEW j \in Job, job' = [job EXCEPT ![d] = j]
  PROVE  Moves(d) /\ pc'[d] = label /\ job'[d] = j
BY DEF StateOK, Goto, Moves

Why == {"none", "page", "delete", "put", "scan", "found", "newer", "copy"}

At(j, at, why) == [j EXCEPT !.at = at, !.why = why]
ItemAt(j, item, at, why) == [j EXCEPT !.item = item, !.at = at, !.why = why]

\* A job that names an event is a job.
LEMMA JobAt ==
  ASSUME NEW j \in Job, NEW at \in Nat, NEW why \in Why
  PROVE  /\ At(j, at, why) \in Job
         /\ At(j, at, why).at = at /\ At(j, at, why).why = why
         /\ At(j, at, why).goal = j.goal /\ At(j, at, why).rounds = j.rounds
BY DEF Job, Why, At

\* So is one that also has the submitted content.
LEMMA JobItemAt ==
  ASSUME NEW j \in Job, NEW item \in File, NEW at \in Nat, NEW why \in Why
  PROVE  /\ ItemAt(j, item, at, why) \in Job
         /\ ItemAt(j, item, at, why).at = at
         /\ ItemAt(j, item, at, why).why = why
         /\ ItemAt(j, item, at, why).item = item
         /\ ItemAt(j, item, at, why).goal = j.goal
BY DEF Job, Why, ItemAt

\* A page, an empty one, or a failed request.
LEMMA PageStep ==
  ASSUME SyncInv, NEW d \in Device, Page(d)
  PROVE  SyncInv'
<1>1. StateOK /\ log \in Seq(Event) /\ Len(log) \in Nat
  BY DEF SyncInv, StateOK
<1>2. Settles(d) /\ faults' \in 0 .. MaxFaults
  <2>1. CASE cursor[d] = Len(log) /\ Continue(d, pend[d]) /\ UNCHANGED faults
    BY <1>1, <2>1, ContinueSettles DEF StateOK
  <2>2. CASE /\ job' = [job EXCEPT ![d].goal = Len(log)]
             /\ Goto(d, "next")
             /\ UNCHANGED <<pend, live, faults>>
    <3> DEFINE j == [job[d] EXCEPT !.goal = Len(log)]
    <3>1. job[d] \in Job
      BY <1>1 DEF StateOK
    <3>2. j \in Job /\ j.goal = Len(log)
      BY <1>1, <3>1 DEF Job
    <3>3. job' = [job EXCEPT ![d] = j]
      BY <2>2
    <3>4. Moves(d) /\ pc'[d] = "next" /\ job'[d] = j
      BY <1>1, <2>2, <3>2, <3>3, GotoMoves DEF Label
    <3> QED
      BY <1>1, <2>2, <3>2, <3>4 DEF Settles, Resting, StateOK
  <2>3. CASE Broken("page") /\ Fail(d)
    BY <1>1, <2>3, FailSettles, BrokenCounts
  <2> QED
    BY <2>1, <2>2, <2>3 DEF Page
<1>3. StateOK'
  BY <1>1, <1>2, SettledTypes DEF Page, Settles, Files, StateOK
<1>4. Grows
  BY <1>1, SameGrows DEF Page, SyncInv
<1> QED
  BY <1>2, <1>3, <1>4, SettledInv DEF Page, Settles, Files

\* An own event may be skipped only when the entry is not older than it.
LEMMA ConsumeEventStep ==
  ASSUME SyncInv, NEW d \in Device, ConsumeEvent(d)
  PROVE  SyncInv'
<1>1. StateOK /\ log \in Seq(Event) /\ Len(log) \in Nat /\ LogInv
  BY DEF SyncInv, StateOK
<1>2. /\ job[d] \in Job /\ cursor[d] \in Nat /\ entry[d].seq \in Nat
      /\ pc[d] = "next" /\ job[d].goal \in Nat /\ job[d].goal <= Len(log)
      /\ EntryIsEvent(d) /\ NothingPassedOver(d)
  BY <1>1 DEF ConsumeEvent, SyncInv, KnowsHead, AboutTo, StateOK, Job
<1>3. Grows
  BY <1>1, SameGrows DEF ConsumeEvent
<1>4. CASE Continue(d, pend[d]) /\ UNCHANGED cursor
  <2>1. Settles(d)
    BY <1>1, <1>4, ContinueSettles DEF StateOK
  <2>2. StateOK'
    BY <1>1, <1>4, <2>1, SettledTypes DEF ConsumeEvent, Settles, Files, StateOK
  <2> QED
    BY <1>3, <1>4, <2>1, <2>2, SettledInv DEF ConsumeEvent, Settles, Files
<1>5. CASE /\ cursor[d] < job[d].goal
           /\ Materialized(d, cursor[d] + 1)
           /\ cursor' = [cursor EXCEPT ![d] = cursor[d] + 1]
           /\ UNCHANGED <<pend, live, pc, job>>
  <2>1. StateOK'
    BY <1>1, <1>2, <1>5 DEF ConsumeEvent, Files, StateOK
  <2>2. cursor'[d] = cursor[d] + 1 /\ log' = log /\ entry' = entry
    BY <1>1, <1>5 DEF ConsumeEvent, StateOK
  <2>3. NothingPassedOver(d)'
    BY <1>1, <1>2, <1>5, <2>2 DEF NothingPassedOver, Materialized, Main
  <2>4. EntryIsEvent(d)' /\ AboutTo(d)' /\ Staged(d)'
    BY <1>2, <1>5, <2>2 DEF EntryIsEvent, AboutTo, Staged, Main
  <2>5. Others(d)
    BY <1>1, <1>5 DEF ConsumeEvent, Files, Others, StateOK
  <2> QED
    BY <1>3, <2>1, <2>3, <2>4, <2>5, StepInv DEF Good, KnowsHead
<1>6. CASE /\ cursor[d] < job[d].goal
           /\ job' = [job EXCEPT ![d].at = cursor[d] + 1, ![d].why = "page"]
           /\ Goto(d, "place")
           /\ UNCHANGED <<cursor, pend, live>>
  <2> DEFINE j == At(job[d], cursor[d] + 1, "page")
  <2>1. /\ j \in Job /\ j.at = cursor[d] + 1 /\ j.why = "page"
        /\ j.goal = job[d].goal
    <3>1. job[d] \in Job /\ cursor[d] + 1 \in Nat /\ "page" \in Why
      BY <1>2 DEF Why
    <3> QED
      BY <3>1, JobAt, Zenon
  <2>2. job' = [job EXCEPT ![d] = j]
    BY <1>6 DEF At
  <2> HIDE DEF j
  <2>3. Moves(d) /\ pc'[d] = "place" /\ job'[d] = j
    BY <1>1, <1>6, <2>1, <2>2, GotoMoves DEF Label
  <2>4. StateOK'
    BY <1>1, <1>6, <2>3, SettledTypes DEF ConsumeEvent, Files, StateOK
  <2>5. log' = log /\ entry' = entry /\ cursor' = cursor /\ stash' = stash
    BY <1>6 DEF ConsumeEvent, Files
  <2>6. Good(d)'
    BY <1>1, <1>2, <1>6, <2>1, <2>3, <2>5
       DEF Good, KnowsHead, Staged, EntryIsEvent, NothingPassedOver, AboutTo, Main
  <2>7. Others(d)
    BY <2>3, <2>5 DEF Moves, Others
  <2> QED
    BY <1>3, <2>4, <2>6, <2>7, StepInv
<1> QED
  BY <1>4, <1>5, <1>6 DEF ConsumeEvent

\* The staged version is a file, or none.
LEMMA RestoreTypes ==
  ASSUME StateOK, NEW d \in Device, Restore(d)
  PROVE  /\ disk' \in [Device -> File] /\ noticed' \in [Device -> BOOLEAN]
         /\ seen' \in [Device -> Nat]
<1>1. job[d].seen \in Nat /\ stash[d] \in File /\ watching[d] \in BOOLEAN
  BY DEF StateOK, Job
<1> QED
  BY <1>1 DEF StateOK, Restore

\* A conflict resolution that fails leaves nothing in the daemon's hands.
LEMMA GiveUpInv ==
  ASSUME SyncInv, Grows, NEW d \in Device, GiveUp(d), faults' \in 0 .. MaxFaults,
         UNCHANGED <<copies, entry, noted, cursor, watching, edits>>
  PROVE  SyncInv'
<1>1. StateOK
  BY DEF SyncInv
<1>2. Settles(d)
  BY <1>1, FailSettles DEF GiveUp
<1>3. /\ disk' \in [Device -> File] /\ noticed' \in [Device -> BOOLEAN]
      /\ seen' \in [Device -> Nat]
  <2>1. CASE Restore(d)
    BY <1>1, <2>1, RestoreTypes
  <2>2. CASE UNCHANGED <<disk, noticed, seen>>
    BY <1>1, <2>2 DEF StateOK
  <2> QED
    BY <2>1, <2>2 DEF GiveUp
<1>4. stash' \in [Device -> File] /\ \A e \in Device \ {d} : stash'[e] = stash[e]
  BY <1>1 DEF GiveUp, StateOK, File
<1>5. StateOK'
  BY <1>1, <1>2, <1>3, <1>4 DEF StateOK, Settles, Moves, Grows
<1> QED
  BY <1>2, <1>4, <1>5, SettledInv DEF Settles

\* The disk changes; entry and cursor follow later.
LEMMA PlaceStep ==
  ASSUME SyncInv, NEW d \in Device, Place(d)
  PROVE  SyncInv'
<1>1. StateOK /\ log \in Seq(Event) /\ Len(log) \in Nat /\ LogInv
  BY DEF SyncInv, StateOK
<1>2. Grows
  BY <1>1, SameGrows DEF Place
<1>3. Good(d) /\ pc[d] = "place" /\ job[d] \in Job
  BY <1>1 DEF SyncInv, Good, Place, StateOK
<1>4. job[d].at \in 1 .. Len(log)
  <2>1. job[d].why = "page" => job[d].at = cursor[d] + 1 /\ job[d].at <= Len(log)
    BY <1>3 DEF Good, KnowsHead, AboutTo
  <2>2. job[d].why # "page" => job[d].at \in 1 .. Len(log)
    BY <1>3 DEF Good, KnowsHead, AboutTo
  <2>3. cursor[d] \in Nat
    BY <1>1 DEF StateOK
  <2> QED
    BY <1>1, <2>1, <2>2, <2>3
<1>5. log[job[d].at].content \in File
  <2>1. log[job[d].at] \in Event
    BY <1>1, <1>4
  <2> QED
    BY <2>1 DEF Event
<1>6. ~Main(job[d].at) => log[job[d].at].content \in Content
  BY <1>1, <1>4 DEF LogInv, CopiesHaveBytes
<1>7. CASE GiveUp(d)
  <2>1. faults' \in 0 .. MaxFaults /\ UNCHANGED copies
    <3>1. CASE Goto(d, "note")
      BY <1>1, <1>7, <3>1 DEF Goto, GiveUp, Fail, Rest, StateOK
    <3>2. CASE Broken("page") /\ UNCHANGED copies
      BY <1>1, <3>2, BrokenCounts
    <3> QED
      BY <3>1, <3>2 DEF Place
  <2> QED
    BY <1>2, <1>7, <2>1, GiveUpInv DEF Place
<1>8. CASE /\ Goto(d, "note")
           /\ \/ /\ Write(d, log[job[d].at].content)
                 /\ seen' = [seen EXCEPT ![d] = job[d].at]
                 /\ UNCHANGED copies
              \/ /\ ~Main(job[d].at)
                 /\ copies' = [copies EXCEPT ![d] = @ \cup {log[job[d].at].content}]
                 /\ UNCHANGED <<disk, noticed, seen>>
           /\ UNCHANGED <<stash, pend, live, job, faults>>
  <2>1. /\ pc' \in [Device -> Label] /\ pc'[d] = "note"
        /\ \A e \in Device \ {d} : pc'[e] = pc[e]
    BY <1>1, <1>8 DEF Goto, StateOK, Label
  <2>2. /\ disk' \in [Device -> File] /\ noticed' \in [Device -> BOOLEAN]
        /\ seen' \in [Device -> Nat] /\ copies' \in [Device -> SUBSET Content]
    <3>1. CASE /\ Write(d, log[job[d].at].content)
               /\ seen' = [seen EXCEPT ![d] = job[d].at]
               /\ UNCHANGED copies
      BY <1>1, <1>4, <1>5, <3>1 DEF Write, StateOK
    <3>2. CASE /\ ~Main(job[d].at)
               /\ copies' = [copies EXCEPT ![d] = @ \cup {log[job[d].at].content}]
               /\ UNCHANGED <<disk, noticed, seen>>
      BY <1>1, <1>6, <3>2 DEF StateOK
    <3> QED
      BY <1>8, <3>1, <3>2
  <2>3. StateOK'
    BY <1>1, <1>8, <2>1, <2>2 DEF Place, StateOK
  <2>4. UNCHANGED <<log, job, entry, cursor, stash>>
    BY <1>8 DEF Place
  <2>5. Good(d)'
    BY <1>3, <2>1, <2>4
       DEF Good, KnowsHead, Staged, EntryIsEvent, NothingPassedOver, AboutTo, Main
  <2> QED
    BY <1>2, <2>1, <2>3, <2>4, <2>5, StepInv DEF Others
<1> QED
  BY <1>7, <1>8 DEF Place

\* The entry becomes the applied event, which is newer than all the cursor has passed.
LEMMA NoteStep ==
  ASSUME SyncInv, NEW d \in Device, Note(d)
  PROVE  SyncInv'
<1>1. StateOK /\ log \in Seq(Event) /\ Len(log) \in Nat /\ LogInv
  BY DEF SyncInv, StateOK
<1>2. Grows
  BY <1>1, SameGrows DEF Note
<1>3. /\ pc[d] = "note" /\ job[d] \in Job /\ cursor[d] \in Nat
      /\ entry[d].seq \in Nat
      /\ EntryIsEvent(d) /\ NothingPassedOver(d) /\ AboutTo(d) /\ Staged(d)
  BY <1>1 DEF SyncInv, KnowsHead, Note, StateOK
<1>4. /\ job[d].at \in 1 .. Len(log)
      /\ job[d].goal \in 0 .. Len(log)
      /\ job[d].why = "page" => job[d].at = cursor[d] + 1
      /\ job[d].why # "page" => job[d].why \in {"put", "delete"} /\ Main(job[d].at)
      /\ \A s \in 1 .. cursor[d] : Main(s) => s < job[d].at \/ job[d].why = "page"
  <2>1. job[d].why = "page" => job[d].at = cursor[d] + 1 /\ job[d].at <= Len(log)
    BY <1>3 DEF AboutTo
  <2>2. job[d].why # "page" =>
          /\ job[d].at \in 1 .. Len(log) /\ entry[d].seq < job[d].at
          /\ job[d].why \in {"put", "delete"} /\ Main(job[d].at)
    BY <1>3 DEF AboutTo
  <2>3. job[d].goal \in Nat /\ job[d].goal <= Len(log)
    BY <1>3 DEF AboutTo, Job
  <2> QED
    BY <1>1, <1>3, <2>1, <2>2, <2>3 DEF NothingPassedOver
<1>5. log[job[d].at] \in Event
  BY <1>1, <1>4
<1>6. /\ entry' \in [Device -> [seq : Nat, content : File]]
      /\ noted' \in [Device -> SUBSET Content]
      /\ \A e \in Device \ {d} : entry'[e] = entry[e]
      /\ Main(job[d].at) => /\ entry'[d].seq = job[d].at
                            /\ entry'[d].content = log[job[d].at].content
      /\ ~Main(job[d].at) => entry'[d] = entry[d]
  <2>1. CASE Main(job[d].at)
    <3>1. EntryOf(d, job[d].at) \in [seq : Nat, content : File]
      BY <1>4, <1>5 DEF EntryOf, Event
    <3>2. /\ entry' = [entry EXCEPT ![d] = EntryOf(d, job[d].at)]
          /\ noted' = noted
      BY <2>1 DEF Note
    <3>3. /\ entry \in [Device -> [seq : Nat, content : File]]
          /\ noted \in [Device -> SUBSET Content]
      BY <1>1 DEF StateOK
    <3>4. /\ EntryOf(d, job[d].at).seq = job[d].at
          /\ EntryOf(d, job[d].at).content = log[job[d].at].content
      BY DEF EntryOf
    <3> QED
      BY <2>1, <3>1, <3>2, <3>3, <3>4
  <2>2. CASE ~Main(job[d].at)
    <3>1. log[job[d].at].content \in Content
      BY <1>1, <1>4, <2>2 DEF LogInv, CopiesHaveBytes
    <3>2. /\ noted' = [noted EXCEPT ![d] = @ \cup {log[job[d].at].content}]
          /\ entry' = entry
      BY <2>2 DEF Note
    <3>3. /\ entry \in [Device -> [seq : Nat, content : File]]
          /\ noted \in [Device -> SUBSET Content]
      BY <1>1 DEF StateOK
    <3> QED
      BY <2>2, <3>1, <3>2, <3>3
  <2> QED
    BY <2>1, <2>2
<1>7. EntryIsEvent(d)' /\ NothingPassedOver(d)'
  <2>1. log' = log /\ cursor' = cursor
    BY DEF Note
  <2>2. CASE Main(job[d].at)
    BY <1>1, <1>3, <1>4, <1>6, <2>1, <2>2
       DEF EntryIsEvent, NothingPassedOver, Main
  <2>3. CASE ~Main(job[d].at)
    BY <1>3, <1>6, <2>1, <2>3 DEF EntryIsEvent, NothingPassedOver, Main
  <2> QED
    BY <2>2, <2>3
<1>8. Moves(d) /\ AboutTo(d)' /\ Staged(d)'
  <2>1. CASE job[d].why = "page" /\ Goto(d, "advance") /\ UNCHANGED job
    <3>1. Moves(d) /\ pc'[d] = "advance"
      BY <1>1, <2>1 DEF Moves, Goto, StateOK, Label
    <3>2. log' = log /\ cursor' = cursor
      BY DEF Note
    <3> QED
      BY <1>1, <1>3, <1>4, <1>6, <2>1, <3>1, <3>2 DEF AboutTo, Staged, Main
  <2>2. CASE job[d].why = "put" /\ Goto(d, "decide") /\ UNCHANGED job
    <3>1. Moves(d) /\ pc'[d] = "decide"
      BY <1>1, <2>2 DEF Moves, Goto, StateOK, Label
    <3>2. log' = log /\ stash' = stash
      BY DEF Note, Files
    <3> QED
      BY <1>3, <1>4, <2>2, <3>1, <3>2 DEF AboutTo, Staged
  <2>3. CASE /\ job[d].why = "delete"
             /\ BeginRescan(d, job[d].via, job[d].rounds - 1)
    <3>1. job[d].rounds - 1 \in 0 .. 3 /\ job[d].via \in Via
      BY <1>3, <2>3 DEF Staged, Job
    <3>2. Moves(d) /\ Resting(d)
      BY <1>1, <2>3, <3>1, BeginRescanMoves
    <3>3. log' = log
      BY DEF Note
    <3> QED
      BY <1>1, <3>2, <3>3 DEF Resting, AboutTo, Staged
  <2> QED
    BY <2>1, <2>2, <2>3 DEF Note
<1>9. StateOK'
  BY <1>1, <1>6, <1>8 DEF Note, Moves, Files, StateOK
<1> QED
  BY <1>2, <1>6, <1>7, <1>8, <1>9, StepInv
     DEF Note, Files, Others, Moves, Good, KnowsHead

\* The cursor passes an event that the entry covers.
LEMMA AdvanceStep ==
  ASSUME SyncInv, NEW d \in Device, Advance(d)
  PROVE  SyncInv'
<1>1. StateOK /\ log \in Seq(Event) /\ Len(log) \in Nat /\ LogInv
  BY DEF SyncInv, StateOK
<1>2. Grows
  BY <1>1, SameGrows DEF Advance
<1>3. /\ pc[d] = "advance" /\ job[d] \in Job /\ cursor[d] \in Nat
      /\ entry[d].seq \in Nat
      /\ EntryIsEvent(d) /\ NothingPassedOver(d) /\ AboutTo(d)
  BY <1>1 DEF SyncInv, KnowsHead, Advance, StateOK
<1>4. /\ job[d].at = cursor[d] + 1 /\ job[d].at <= Len(log)
      /\ Main(job[d].at) => job[d].at <= entry[d].seq
      /\ job[d].goal \in 0 .. Len(log) /\ job[d].at \in Nat
  BY <1>1, <1>3 DEF AboutTo, Job
<1>5. /\ cursor' \in [Device -> Nat] /\ cursor'[d] = job[d].at
      /\ \A e \in Device \ {d} : cursor'[e] = cursor[e]
  BY <1>1, <1>4 DEF Advance, StateOK
<1>6. Moves(d) /\ Resting(d)
  <2>1. job[d] \in Job /\ 0 \in Nat /\ "none" \in Why
    BY <1>3 DEF Why
  <2>2. At(job[d], 0, "none") \in Job /\ At(job[d], 0, "none").goal = job[d].goal
    BY <2>1, JobAt, Zenon
  <2>3. job' = [job EXCEPT ![d] = At(job[d], 0, "none")]
    BY DEF Advance, At
  <2>4. Moves(d) /\ pc'[d] = "next" /\ job'[d] = At(job[d], 0, "none")
    BY <1>1, <2>2, <2>3, GotoMoves DEF Advance, Label
  <2> QED
    BY <1>1, <1>4, <2>2, <2>4 DEF Resting, Advance
<1>7. EntryIsEvent(d)' /\ NothingPassedOver(d)' /\ AboutTo(d)' /\ Staged(d)'
  <2>1. log' = log /\ entry' = entry
    BY DEF Advance
  <2>2. EntryIsEvent(d)'
    BY <1>3, <2>1 DEF EntryIsEvent, Main
  <2>3. NothingPassedOver(d)'
    BY <1>1, <1>3, <1>4, <1>5, <2>1 DEF NothingPassedOver, Main
  <2>4. AboutTo(d)' /\ Staged(d)'
    BY <1>1, <1>6, <2>1 DEF Resting, AboutTo, Staged
  <2> QED
    BY <2>2, <2>3, <2>4
<1>8. StateOK'
  BY <1>1, <1>5, <1>6 DEF Advance, Moves, Files, StateOK
<1> QED
  BY <1>2, <1>5, <1>6, <1>7, <1>8, StepInv
     DEF Advance, Files, Others, Moves, Good, KnowsHead

-----------------------------------------------------------------------------
\* Rescan.

\* What an accepted submission leaves in the job.
LEMMA AcceptedTypes ==
  ASSUME SyncInv, NEW d \in Device, NEW c \in File, NEW why \in Why,
         job' = [job EXCEPT ![d] = ItemAt(job[d], c, Len(log) + 1, why)],
         Goto(d, "record")
  PROVE  /\ Moves(d) /\ pc'[d] = "record"
         /\ job'[d].at = Len(log) + 1 /\ job'[d].why = why
         /\ job'[d].item = c /\ job'[d].goal = job[d].goal
<1> DEFINE j == ItemAt(job[d], c, Len(log) + 1, why)
<1>1. StateOK /\ job[d] \in Job /\ Len(log) + 1 \in Nat
  BY DEF SyncInv, StateOK
<1>2. j \in Job
  BY <1>1, JobItemAt, Zenon
<1>3. j.at = Len(log) + 1 /\ j.why = why /\ j.item = c /\ j.goal = job[d].goal
  BY <1>1, JobItemAt
<1> HIDE DEF j
<1>4. Moves(d) /\ pc'[d] = "record" /\ job'[d] = j
  BY <1>1, <1>2, GotoMoves DEF Label, j
<1> QED
  BY <1>3, <1>4

\* The event just accepted is in the daemon's hands: its answer has arrived.
LEMMA AcceptedInv ==
  ASSUME SyncInv, NEW d \in Device, NEW k \in {"put", "delete", "copy"},
         NEW c \in File, NEW why \in Why, Accept(d, k, c),
         k = "copy" => c \in Content /\ why \in {"found", "copy"},
         k # "copy" => why \notin {"found", "copy"},
         job' = [job EXCEPT ![d] = ItemAt(job[d], c, Len(log) + 1, why)],
         Goto(d, "record"), StateOK',
         UNCHANGED <<entry, cursor, stash>>
  PROVE  SyncInv'
<1>1. /\ StateOK /\ LogInv /\ log \in Seq(Event) /\ Len(log) \in Nat
      /\ job[d] \in Job /\ entry[d].seq \in Nat /\ cursor[d] \in Nat
      /\ job \in [Device -> Job] /\ pc \in [Device -> Label]
      /\ KnowsHead(d)
  BY DEF SyncInv, StateOK
<1>2. /\ Grows
      /\ Len(log') = Len(log) + 1
      /\ log'[Len(log) + 1] = [kind |-> k, by |-> d, content |-> c]
  BY <1>1, AppendGrows
<1>3. /\ log'[Len(log) + 1].kind = k
      /\ log'[Len(log) + 1].content = c
      /\ \A s \in 1 .. Len(log) : log'[s] = log[s]
  BY <1>2 DEF Grows
<1>4. /\ job'[d].at = Len(log) + 1 /\ job'[d].why = why /\ job'[d].item = c
      /\ job'[d].goal = job[d].goal
  BY AcceptedTypes
<1>5. pc'[d] = "record"
  BY <1>1 DEF Goto
<1>6. EntryIsEvent(d)' /\ NothingPassedOver(d)'
  BY <1>1, <1>2, <1>3 DEF KnowsHead, EntryIsEvent, NothingPassedOver, Main
<1>7. job[d].goal \in Nat /\ job[d].goal <= Len(log) /\ entry[d].seq <= Len(log)
  BY <1>1 DEF KnowsHead, EntryIsEvent, AboutTo, Job
<1>8. AboutTo(d)'
  <2>1. job'[d].goal <= Len(log')
    BY <1>1, <1>2, <1>4, <1>7
  <2>2. why \notin {"found", "copy"} =>
          /\ job'[d].at \in 1 .. Len(log')
          /\ log'[job'[d].at].kind # "copy"
          /\ entry'[d].seq < job'[d].at
          /\ log'[job'[d].at].content = job'[d].item
    BY <1>1, <1>2, <1>3, <1>4, <1>7
  <2> QED
    BY <1>4, <1>5, <2>1, <2>2 DEF AboutTo, Main
<1>9. Staged(d)'
  BY <1>4, <1>5 DEF Staged
<1>10. Others(d)
  BY <1>1 DEF Others, Goto
<1> QED
  BY <1>2, <1>6, <1>8, <1>9, <1>10, StepInv DEF Good, KnowsHead

\* A conflict copy without an entry is uploaded.
LEMMA SubmitFoundStep ==
  ASSUME SyncInv, NEW d \in Device, SubmitFound(d)
  PROVE  SyncInv'
<1>1. StateOK /\ log \in Seq(Event) /\ LogInv
  BY DEF SyncInv, StateOK
<1>2. PICK c \in copies[d] \ noted[d] :
        \/ /\ noted' = [noted EXCEPT ![d] = @ \cup {c}]
           /\ UNCHANGED <<log, pend, live, pc, job, faults>>
        \/ /\ Accept(d, "copy", c)
           /\ job' = [job EXCEPT ![d].item = c, ![d].at = Len(log) + 1,
                                 ![d].why = "found"]
           /\ Goto(d, "record")
           /\ UNCHANGED <<noted, pend, live, faults>>
        \/ /\ \/ Broken("submit") /\ UNCHANGED log
              \/ Broken("reply") /\ Accept(d, "copy", c)
           /\ SubmitFails(d)
           /\ UNCHANGED noted
  BY DEF SubmitFound
<1>3. c \in Content /\ c \in File
  BY <1>1 DEF StateOK, File
<1>4. CASE /\ noted' = [noted EXCEPT ![d] = @ \cup {c}]
           /\ UNCHANGED <<log, pend, live, pc, job, faults>>
  <2>1. StateOK'
    BY <1>1, <1>3, <1>4 DEF SubmitFound, Files, StateOK
  <2> QED
    BY <1>4, <2>1, AsideInv DEF SubmitFound, Files
<1>5. CASE /\ Accept(d, "copy", c)
           /\ job' = [job EXCEPT ![d].item = c, ![d].at = Len(log) + 1,
                                 ![d].why = "found"]
           /\ Goto(d, "record")
           /\ UNCHANGED <<noted, pend, live, faults>>
  <2>1. job' = [job EXCEPT ![d] = ItemAt(job[d], c, Len(log) + 1, "found")]
    BY <1>5 DEF ItemAt
  <2>2. Moves(d)
    BY <1>3, <1>5, <2>1, AcceptedTypes DEF Why
  <2>3. log' \in Seq(Event)
    BY <1>1, <1>3, <1>5, AppendGrows DEF Grows
  <2>4. StateOK'
    BY <1>1, <1>5, <2>2, <2>3 DEF SubmitFound, Files, Moves, StateOK
  <2> QED
    BY <1>3, <1>5, <2>1, <2>4, AcceptedInv DEF SubmitFound, Files, Why
<1>6. CASE /\ \/ Broken("submit") /\ UNCHANGED log
              \/ Broken("reply") /\ Accept(d, "copy", c)
           /\ SubmitFails(d)
           /\ UNCHANGED noted
  <2>1. Settles(d)
    BY <1>1, <1>6, SubmitFailsSettles
  <2>2. Grows
    BY <1>1, <1>3, <1>6, AppendGrows, SameGrows
  <2>3. faults' \in 0 .. MaxFaults
    BY <1>1, <1>6, BrokenCounts
  <2>4. StateOK'
    BY <1>1, <1>6, <2>1, <2>2, <2>3
       DEF SubmitFound, Files, Settles, Moves, Grows, StateOK
  <2> QED
    BY <2>1, <2>2, <2>4, SettledInv DEF SubmitFound, Files, Settles
<1> QED
  BY <1>2, <1>4, <1>5, <1>6

\* The file is compared with its entry.
LEMMA ScanStep ==
  ASSUME SyncInv, NEW d \in Device, Scan(d)
  PROVE  SyncInv'
<1>1. StateOK /\ log \in Seq(Event)
  BY DEF SyncInv, StateOK
<1>2. Moves(d) /\ Resting(d)
  <2>1. CASE FinishRescan(d)
    BY <1>1, <2>1, FinishRescanMoves
  <2>2. CASE job' = [job EXCEPT ![d].item = disk[d]] /\ Goto(d, "submit")
    <3> DEFINE j == [job[d] EXCEPT !.item = disk[d]]
    <3>1. /\ job[d] \in Job /\ disk[d] \in File
          /\ job[d].goal \in Nat /\ job[d].goal <= Len(log)
      BY <1>1 DEF StateOK, SyncInv, KnowsHead, AboutTo, Job
    <3>2. j \in Job /\ j.goal = job[d].goal
      BY <3>1 DEF Job
    <3>3. Moves(d) /\ pc'[d] = "submit" /\ job'[d] = j
      BY <1>1, <2>2, <3>2, GotoMoves DEF Label
    <3> QED
      BY <1>1, <3>1, <3>2, <3>3 DEF Resting
  <2> QED
    BY <2>1, <2>2 DEF Scan
<1>3. StateOK'
  BY <1>1, <1>2 DEF Scan, Files, Tables, Moves, StateOK
<1>4. Grows
  BY <1>1, SameGrows DEF Scan, SyncInv
<1> QED
  BY <1>2, <1>3, <1>4, SettledInv DEF Scan, Files, Tables

\* A submission is accepted, is in conflict with the head, or fails.
LEMMA SubmitStep ==
  ASSUME SyncInv, NEW d \in Device, Submit(d)
  PROVE  SyncInv'
<1> DEFINE delete == job[d].item = None
           bytes == IF delete THEN None ELSE disk[d]
           vanished == ~delete /\ disk[d] = None
           kind == IF bytes = None THEN "delete" ELSE "put"
<1>1. /\ StateOK /\ LogInv /\ log \in Seq(Event) /\ Len(log) \in Nat
      /\ job[d] \in Job /\ disk[d] \in File /\ entry[d].seq \in Nat
      /\ seen \in [Device -> Nat]
      /\ job[d].goal \in Nat /\ job[d].goal <= Len(log)
      /\ job[d].rounds \in 0 .. 3
      /\ EntryIsEvent(d) /\ NothingPassedOver(d)
  <2>1. StateOK /\ LogInv /\ KnowsHead(d)
    BY DEF SyncInv
  <2>2. /\ log \in Seq(Event) /\ Len(log) \in Nat /\ job[d] \in Job
        /\ disk[d] \in File /\ entry[d].seq \in Nat /\ seen \in [Device -> Nat]
    BY <2>1 DEF StateOK
  <2>3. job[d].goal \in Nat /\ job[d].rounds \in 0 .. 3
    BY <2>2 DEF Job
  <2> QED
    BY <2>1, <2>2, <2>3 DEF KnowsHead, AboutTo
<1>2. bytes \in File
  BY <1>1 DEF File
<1>3. IsHead(PathHead)
  BY <1>1, HeadIsUnique DEF LogInv
<1>4. UNCHANGED <<disk, copies, stash, noticed, entry, noted, cursor, watching, edits>>
  BY DEF Submit
<1>5. CASE /\ Fail(d)
           /\ UNCHANGED <<log, seen, faults>>
  <2>1. Settles(d)
    BY <1>1, <1>5, FailSettles
  <2>2. StateOK'
    BY <1>1, <1>4, <1>5, <2>1 DEF Settles, Moves, StateOK
  <2> QED
    BY <1>1, <1>4, <1>5, <2>1, <2>2, SameGrows, SettledInv DEF Settles
<1>6. CASE /\ PathHead > entry[d].seq
           /\ ~(delete /\ job[d].rounds = 0)
           /\ job' = [job EXCEPT ![d].at = PathHead, ![d].why =
                         IF delete THEN "delete" ELSE "put"]
           /\ Goto(d, IF delete THEN "head" ELSE "stage")
           /\ UNCHANGED <<pend, live, log, seen, faults>>
  <2> DEFINE why == IF delete THEN "delete" ELSE "put"
             j == At(job[d], PathHead, why)
  <2>1. /\ PathHead \in 1 .. Len(log) /\ PathHead \in Nat /\ Main(PathHead)
        /\ why \in Why /\ why \in {"put", "delete"}
    BY <1>1, <1>3 DEF IsHead, Why
  <2> HIDE DEF why
  <2>2. /\ j \in Job /\ j.at = PathHead /\ j.why = why
        /\ j.goal = job[d].goal /\ j.rounds = job[d].rounds
    <3>1. job[d] \in Job /\ PathHead \in Nat /\ why \in Why
      BY <1>1, <2>1
    <3> QED
      BY <3>1, JobAt
  <2>3. job' = [job EXCEPT ![d] = j]
    BY <1>6 DEF At, why
  <2> HIDE DEF j
  <2>4. Moves(d) /\ pc'[d] = (IF delete THEN "head" ELSE "stage") /\ job'[d] = j
    BY <1>1, <1>6, <2>2, <2>3, GotoMoves DEF Label
  <2>5. AboutTo(d)'
    BY <1>1, <1>4, <1>6, <2>1, <2>2, <2>4 DEF AboutTo, Main
  <2>6. Staged(d)'
    BY <1>1, <1>6, <2>2, <2>4 DEF Staged, why
  <2>7. EntryIsEvent(d)' /\ NothingPassedOver(d)'
    BY <1>1, <1>4, <1>6 DEF EntryIsEvent, NothingPassedOver, Main
  <2>8. StateOK'
    BY <1>1, <1>4, <1>6, <2>4 DEF Moves, StateOK
  <2>9. Others(d)
    BY <1>4, <2>4 DEF Moves, Others
  <2> QED
    BY <1>1, <1>6, <2>5, <2>6, <2>7, <2>8, <2>9, SameGrows, StepInv
       DEF Good, KnowsHead
<1>7. CASE /\ AcceptMain(d, bytes)
           /\ job' = [job EXCEPT ![d].item = bytes, ![d].at = Len(log) + 1,
                                 ![d].why = "scan"]
           /\ Goto(d, "record")
           /\ UNCHANGED <<pend, live, faults>>
  <2>1. job' = [job EXCEPT ![d] = ItemAt(job[d], bytes, Len(log) + 1, "scan")]
    BY <1>7 DEF ItemAt
  <2>2. /\ Accept(d, kind, bytes) /\ kind \in {"put", "delete"}
        /\ seen' = [seen EXCEPT ![d] = Len(log) + 1]
    BY <1>7 DEF AcceptMain
  <2> HIDE DEF bytes, kind
  <2>3. Moves(d)
    BY <1>2, <1>7, <2>1, AcceptedTypes DEF Why
  <2>4. log' \in Seq(Event)
    BY <1>1, <1>2, <2>2, AppendGrows DEF Grows
  <2>5. seen' \in [Device -> Nat]
    BY <1>1, <2>2
  <2>6. StateOK'
    BY <1>1, <1>4, <1>7, <2>3, <2>4, <2>5 DEF Moves, StateOK
  <2> QED
    BY <1>2, <1>4, <1>7, <2>1, <2>2, <2>6, AcceptedInv DEF Why
<1>8. CASE /\ \/ Broken("submit") /\ UNCHANGED <<log, seen>>
              \/ Broken("reply") /\ AcceptMain(d, bytes)
           /\ SubmitFails(d)
  <2>1. Settles(d) /\ faults' \in 0 .. MaxFaults
    BY <1>1, <1>8, SubmitFailsSettles, BrokenCounts
  <2>2. Grows /\ seen' \in [Device -> Nat]
    <3>1. CASE UNCHANGED <<log, seen>>
      BY <1>1, <3>1, SameGrows
    <3>2. CASE AcceptMain(d, bytes)
      <4>1. Accept(d, kind, bytes) /\ kind \in {"put", "delete"}
        BY <3>2 DEF AcceptMain
      <4> HIDE DEF bytes, kind
      <4>2. Grows
        BY <1>1, <1>2, <4>1, AppendGrows
      <4> QED
        BY <1>1, <3>2, <4>2 DEF AcceptMain
    <3> QED
      BY <1>8, <3>1, <3>2
  <2>3. StateOK'
    BY <1>1, <1>4, <2>1, <2>2 DEF Settles, Moves, Grows, StateOK
  <2> QED
    BY <1>4, <2>1, <2>2, <2>3, SettledInv DEF Settles
<1> QED
  BY <1>5, <1>6, <1>7, <1>8 DEF Submit

\* A resolved conflict is followed by a rescan or by the end of this one.
LEMMA ResolvedMoves ==
  ASSUME StateOK, NEW d \in Device, Resolved(d)
  PROVE  Moves(d) /\ Resting(d)
<1>1. job[d].via \in Via /\ job[d].rounds \in 0 .. 3
  BY DEF StateOK, Job
<1>2. job[d].rounds % 2 = 1 => job[d].rounds - 1 \in 0 .. 3
  <2>1. job[d].rounds = 0 => job[d].rounds % 2 = 0
    OBVIOUS
  <2> QED
    BY <1>1, <2>1
<1> QED
  BY <1>1, <1>2, BeginRescanMoves, FinishRescanMoves DEF Resolved

\* The entry becomes the event the server accepted.
LEMMA RecordStep ==
  ASSUME SyncInv, NEW d \in Device, Record(d)
  PROVE  SyncInv'
<1>1. /\ StateOK /\ log \in Seq(Event) /\ Len(log) \in Nat /\ LogInv
      /\ entry \in [Device -> [seq : Nat, content : File]]
      /\ noted \in [Device -> SUBSET Content]
      /\ job[d] \in Job /\ job[d].via \in Via /\ job[d].rounds \in 0 .. 3
      /\ cursor[d] \in Nat
  <2>1. StateOK /\ LogInv /\ job[d] \in Job
    BY DEF SyncInv, StateOK
  <2>2. job[d].via \in Via /\ job[d].rounds \in 0 .. 3
    BY <2>1 DEF Job
  <2> QED
    BY <2>1, <2>2 DEF StateOK
<1>2. pc[d] = "record" /\ KnowsHead(d) /\ Staged(d)
  BY DEF SyncInv, Record
<1>3. Grows /\ log' = log /\ cursor' = cursor
  BY <1>1, SameGrows DEF Record
<1>4. Moves(d) /\ Resting(d)
  <2>1. CASE BeginRescan(d, job[d].via, job[d].rounds)
    BY <1>1, <2>1, BeginRescanMoves
  <2>2. CASE FinishRescan(d) \/ Resolved(d)
    BY <1>1, <2>2, FinishRescanMoves, ResolvedMoves
  <2> QED
    BY <2>1, <2>2 DEF Record
<1>5. stash' \in [Device -> File] /\ \A e \in Device \ {d} : stash'[e] = stash[e]
  BY <1>1 DEF Record, StateOK, File
<1>6. /\ entry' \in [Device -> [seq : Nat, content : File]]
      /\ noted' \in [Device -> SUBSET Content]
      /\ \A e \in Device \ {d} : entry'[e] = entry[e]
      /\ EntryIsEvent(d)' /\ NothingPassedOver(d)'
  <2>1. CASE job[d].why \in {"found", "copy"}
    <3>1. /\ entry' = entry /\ job[d].item \in Content
          /\ noted' = [noted EXCEPT ![d] = @ \cup {job[d].item}]
      BY <1>2, <2>1 DEF Record, Staged
    <3>2. EntryIsEvent(d)' /\ NothingPassedOver(d)'
      BY <1>2, <1>3, <3>1 DEF KnowsHead, EntryIsEvent, NothingPassedOver, Main
    <3> QED
      BY <1>1, <3>1, <3>2
  <2>2. CASE job[d].why \notin {"found", "copy"}
    <3> DEFINE new == [seq |-> job[d].at, content |-> job[d].item]
    <3>1. entry' = [entry EXCEPT ![d] = new] /\ noted' = noted
      BY <2>2 DEF Record
    <3>2. new \in [seq : Nat, content : File]
      BY <1>1 DEF Job
    <3>3. /\ job[d].at \in 1 .. Len(log) /\ Main(job[d].at)
          /\ entry[d].seq < job[d].at /\ entry[d].seq \in Nat
          /\ log[job[d].at].content = job[d].item
          /\ NothingPassedOver(d)
      BY <1>1, <1>2, <2>2 DEF KnowsHead, AboutTo
    <3>4. entry'[d].seq = job[d].at /\ entry'[d].content = job[d].item
      BY <1>1, <3>1
    <3>5. EntryIsEvent(d)'
      BY <1>3, <3>3, <3>4 DEF EntryIsEvent, Main
    <3>6. NothingPassedOver(d)'
      BY <1>1, <1>3, <3>3, <3>4 DEF NothingPassedOver, Main
    <3> QED
      BY <1>1, <3>1, <3>2, <3>5, <3>6
  <2> QED
    BY <2>1, <2>2
<1>7. AboutTo(d)' /\ Staged(d)'
  BY <1>1, <1>3, <1>4 DEF Resting, AboutTo, Staged
<1>8. StateOK'
  BY <1>1, <1>4, <1>5, <1>6 DEF Record, Moves, StateOK
<1> QED
  BY <1>3, <1>4, <1>5, <1>6, <1>7, <1>8, StepInv
     DEF Others, Moves, Good, KnowsHead

-----------------------------------------------------------------------------
\* Conflict.

\* What the invariant says of a device in the middle of a conflict.
LEMMA Known ==
  ASSUME SyncInv, NEW d \in Device
  PROVE  /\ StateOK /\ LogInv /\ log \in Seq(Event) /\ Len(log) \in Nat
         /\ job \in [Device -> Job] /\ pc \in [Device -> Label]
         /\ stash \in [Device -> File] /\ disk \in [Device -> File]
         /\ job[d] \in Job /\ entry[d].seq \in Nat /\ entry[d].content \in File
         /\ job[d].goal \in Nat /\ job[d].goal <= Len(log)
         /\ EntryIsEvent(d) /\ NothingPassedOver(d) /\ AboutTo(d) /\ Staged(d)
<1>1. StateOK /\ LogInv /\ KnowsHead(d) /\ Staged(d)
  BY DEF SyncInv
<1>2. /\ log \in Seq(Event) /\ Len(log) \in Nat /\ job[d] \in Job
      /\ job \in [Device -> Job] /\ pc \in [Device -> Label]
      /\ stash \in [Device -> File] /\ disk \in [Device -> File]
      /\ entry[d].seq \in Nat /\ entry[d].content \in File
  BY <1>1 DEF StateOK
<1>3. job[d].goal \in Nat
  BY <1>2 DEF Job
<1> QED
  BY <1>1, <1>2, <1>3 DEF KnowsHead, AboutTo

\* The local version is staged.
LEMMA StageStep ==
  ASSUME SyncInv, NEW d \in Device, Stage(d)
  PROVE  SyncInv'
<1>1. Grows
  BY Known, SameGrows DEF Stage
<1>2. CASE Fail(d) /\ UNCHANGED stash
  <2>1. Settles(d)
    BY <1>2, Known, FailSettles
  <2>2. StateOK'
    BY <1>2, <2>1, Known DEF Stage, Settles, Moves, StateOK
  <2> QED
    BY <1>1, <1>2, <2>1, <2>2, SettledInv DEF Stage, Settles
<1>3. CASE /\ disk[d] # None
           /\ stash' = [stash EXCEPT ![d] = disk[d]]
           /\ job' = [job EXCEPT ![d].baseline = entry[d].content,
                                 ![d].seen = seen[d]]
           /\ Goto(d, "head")
           /\ UNCHANGED <<pend, live>>
  <2> DEFINE j == [job[d] EXCEPT !.baseline = entry[d].content, !.seen = seen[d]]
  <2>1. seen[d] \in Nat /\ entry[d].content \in File /\ job[d] \in Job
    BY Known DEF StateOK
  <2>2. /\ j \in Job /\ j.goal = job[d].goal /\ j.at = job[d].at
        /\ j.why = job[d].why /\ j.rounds = job[d].rounds
    BY <2>1 DEF Job
  <2>3. job' = [job EXCEPT ![d] = j]
    BY <1>3
  <2> HIDE DEF j
  <2>4. Moves(d) /\ pc'[d] = "head" /\ job'[d] = j
    BY <1>3, <2>2, <2>3, Known, GotoMoves DEF Label
  <2>5. UNCHANGED <<log, entry, cursor>> /\ pc[d] = "stage"
    BY DEF Stage
  <2>6. stash'[d] \in Content /\ stash' \in [Device -> File]
    BY <1>3, Known DEF File
  <2>7. AboutTo(d)'
    BY <2>2, <2>4, <2>5, Known DEF AboutTo, Main
  <2>8. Staged(d)'
    <3>1. job[d].why = "put"
      BY <2>5, Known DEF Staged
    <3> QED
      BY <2>2, <2>4, <2>6, <3>1 DEF Staged
  <2>9. EntryIsEvent(d)' /\ NothingPassedOver(d)'
    BY <2>5, Known DEF EntryIsEvent, NothingPassedOver, Main
  <2>10. StateOK'
    BY <1>3, <2>4, <2>6, Known DEF Stage, Moves, StateOK
  <2>11. Others(d)
    BY <1>3, <2>4, <2>5, Known DEF Moves, Others
  <2> QED
    BY <1>1, <2>7, <2>8, <2>9, <2>10, <2>11, StepInv DEF Good, KnowsHead
<1> QED
  BY <1>2, <1>3 DEF Stage

\* The head that the conflict named is fetched.
LEMMA FetchHeadStep ==
  ASSUME SyncInv, NEW d \in Device, FetchHead(d)
  PROVE  SyncInv'
<1>1. Grows
  BY Known, SameGrows DEF FetchHead
<1>2. CASE /\ Goto(d, "place")
           /\ UNCHANGED <<disk, noticed, seen, stash, pend, live, job, faults>>
  <2>1. /\ pc' \in [Device -> Label] /\ pc'[d] = "place" /\ pc[d] = "head"
        /\ \A e \in Device \ {d} : pc'[e] = pc[e]
    BY <1>2, Known DEF FetchHead, Goto, Label
  <2>2. UNCHANGED <<log, job, entry, cursor, stash>>
    BY <1>2 DEF FetchHead
  <2>3. StateOK'
    BY <1>2, <2>1, Known DEF FetchHead, StateOK
  <2>4. AboutTo(d)' /\ Staged(d)'
    BY <2>1, <2>2, Known DEF AboutTo, Staged, Main
  <2>5. EntryIsEvent(d)' /\ NothingPassedOver(d)'
    BY <2>2, Known DEF EntryIsEvent, NothingPassedOver, Main
  <2> QED
    BY <1>1, <2>1, <2>2, <2>3, <2>4, <2>5, StepInv DEF Others, Good, KnowsHead
<1>3. CASE Broken("head") /\ GiveUp(d)
  BY <1>1, <1>3, Known, BrokenCounts, GiveUpInv DEF FetchHead
<1> QED
  BY <1>2, <1>3 DEF FetchHead

\* On to the next step of a conflict, with the version still staged.
LEMMA StillStagedInv ==
  ASSUME SyncInv, NEW d \in Device, NEW label \in {"newer", "copy"},
         pc[d] \in {"decide", "newer"}, Goto(d, label), StateOK',
         UNCHANGED <<log, job, entry, cursor, stash>>
  PROVE  SyncInv'
<1>1. Grows
  BY Known, SameGrows
<1>2. pc'[d] = label /\ \A e \in Device \ {d} : pc'[e] = pc[e]
  BY Known DEF Goto
<1>3. AboutTo(d)' /\ Staged(d)'
  BY <1>2, Known DEF AboutTo, Staged
<1>4. EntryIsEvent(d)' /\ NothingPassedOver(d)'
  BY Known DEF EntryIsEvent, NothingPassedOver, Main
<1> QED
  BY <1>1, <1>2, <1>3, <1>4, StepInv DEF Others, Good, KnowsHead

\* A conflict copy has bytes.
LEMMA WriteConflictCopyInv ==
  ASSUME SyncInv, NEW d \in Device, WriteConflictCopy(d),
         pc[d] \in {"decide", "newer"},
         UNCHANGED <<log, entry, noted, cursor, pend, watching, live, edits, faults>>
  PROVE  SyncInv'
<1>1. stash[d] \in Content
  BY Known DEF Staged
<1>2. pc' \in [Device -> Label]
  BY Known DEF WriteConflictCopy, Goto, Label
<1>3. copies' \in [Device -> SUBSET Content]
  BY <1>1, Known DEF WriteConflictCopy, StateOK
<1>4. StateOK'
  BY <1>2, <1>3, Known DEF WriteConflictCopy, StateOK
<1> QED
  BY <1>4, StillStagedInv DEF WriteConflictCopy

\* Each of the four ways out of a conflict.
LEMMA DecideStep ==
  ASSUME SyncInv, NEW d \in Device, Decide(d)
  PROVE  SyncInv'
<1>1. Grows
  BY Known, SameGrows DEF Decide
<1>2. CASE /\ stash' = [stash EXCEPT ![d] = None]
           /\ Restore(d) \/ UNCHANGED <<disk, noticed, seen>>
           /\ Resolved(d)
           /\ UNCHANGED copies
  <2>1. Moves(d) /\ Resting(d)
    BY <1>2, Known, ResolvedMoves
  <2>2. /\ disk' \in [Device -> File] /\ noticed' \in [Device -> BOOLEAN]
        /\ seen' \in [Device -> Nat]
    <3>1. CASE Restore(d)
      BY <3>1, Known, RestoreTypes
    <3>2. CASE UNCHANGED <<disk, noticed, seen>>
      BY <3>2, Known DEF StateOK
    <3> QED
      BY <1>2, <3>1, <3>2
  <2>3. stash' \in [Device -> File] /\ \A e \in Device \ {d} : stash'[e] = stash[e]
    BY <1>2, Known DEF File
  <2>4. StateOK'
    BY <1>2, <2>1, <2>2, <2>3, Known DEF Decide, Tables, Moves, StateOK
  <2> QED
    BY <1>1, <2>1, <2>3, <2>4, SettledInv DEF Decide, Tables
<1>3. CASE Restore(d) /\ Goto(d, "newer") /\ UNCHANGED <<stash, copies, job>>
  <2>1. /\ disk' \in [Device -> File] /\ noticed' \in [Device -> BOOLEAN]
        /\ seen' \in [Device -> Nat]
    BY <1>3, Known, RestoreTypes
  <2>2. pc' \in [Device -> Label]
    BY <1>3, Known DEF Goto, Label
  <2>3. StateOK'
    BY <1>3, <2>1, <2>2, Known DEF Decide, Tables, StateOK
  <2> QED
    BY <1>3, <2>3, StillStagedInv DEF Decide, Tables
<1>4. CASE WriteConflictCopy(d)
  BY <1>4, WriteConflictCopyInv DEF Decide, Tables
<1> QED
  BY <1>2, <1>3, <1>4 DEF Decide

\* The newer local version is submitted over the head, or is in conflict again.
LEMMA SubmitNewerStep ==
  ASSUME SyncInv, NEW d \in Device, SubmitNewer(d)
  PROVE  SyncInv'
<1>1. disk[d] \in File /\ ("put" \in Why /\ "newer" \in Why)
  BY Known DEF Why
<1>2. CASE GiveUp(d) /\ UNCHANGED copies
  <2>1. Grows /\ faults' \in 0 .. MaxFaults
    <3>1. CASE UNCHANGED <<log, faults>>
      BY <3>1, Known, SameGrows DEF StateOK
    <3>2. CASE Broken("submit") /\ UNCHANGED log
      BY <3>2, Known, SameGrows, BrokenCounts
    <3>3. CASE Broken("reply") /\ Accept(d, "put", disk[d])
      BY <1>1, <3>3, Known, AppendGrows, BrokenCounts
    <3>4. CASE WriteConflictCopy(d)
      <4>1. pc'[d] = "copy" /\ pc'[d] = "idle"
        BY <1>2, <3>4, Known DEF WriteConflictCopy, GiveUp, Fail, Rest, Goto
      <4> QED
        BY <4>1
    <3>5. CASE Goto(d, "record")
      <4>1. pc'[d] = "record" /\ pc'[d] = "idle"
        BY <1>2, <3>5, Known DEF GiveUp, Fail, Rest, Goto
      <4> QED
        BY <4>1
    <3> QED
      BY <3>1, <3>2, <3>3, <3>4, <3>5 DEF SubmitNewer
  <2> QED
    BY <1>2, <2>1, GiveUpInv DEF SubmitNewer
<1>3. CASE WriteConflictCopy(d) /\ UNCHANGED <<log, pend, live, faults>>
  BY <1>3, WriteConflictCopyInv DEF SubmitNewer
<1>4. CASE /\ AcceptMain(d, disk[d]) /\ disk[d] # None
           /\ job' = [job EXCEPT ![d].item = disk[d], ![d].at = Len(log) + 1,
                                 ![d].why = "newer"]
           /\ Goto(d, "record")
           /\ UNCHANGED <<disk, noticed, stash, copies, pend, live, faults>>
  <2>1. job' = [job EXCEPT ![d] = ItemAt(job[d], disk[d], Len(log) + 1, "newer")]
    BY <1>4 DEF ItemAt
  <2>2. /\ Accept(d, "put", disk[d])
        /\ seen' = [seen EXCEPT ![d] = Len(log) + 1]
    BY <1>4 DEF AcceptMain
  <2>3. Moves(d)
    BY <1>1, <1>4, <2>1, AcceptedTypes
  <2>4. log' \in Seq(Event)
    BY <1>1, <2>2, Known, AppendGrows DEF Grows
  <2>5. seen' \in [Device -> Nat]
    BY <2>2, Known DEF StateOK
  <2>6. StateOK'
    BY <1>4, <2>3, <2>4, <2>5, Known DEF SubmitNewer, Moves, StateOK
  <2> QED
    BY <1>1, <1>4, <2>1, <2>2, <2>6, AcceptedInv DEF SubmitNewer
<1> QED
  BY <1>2, <1>3, <1>4 DEF SubmitNewer

\* The conflict copy is submitted, or the local version is put back.
LEMMA SubmitCopyStep ==
  ASSUME SyncInv, NEW d \in Device, SubmitCopy(d)
  PROVE  SyncInv'
<1>1. stash[d] \in Content /\ stash[d] \in File /\ "copy" \in Why
  BY Known DEF SubmitCopy, Staged, Why
<1>2. CASE /\ Accept(d, "copy", stash[d])
           /\ job' = [job EXCEPT ![d].item = stash[d], ![d].at = Len(log) + 1,
                                 ![d].why = "copy"]
           /\ Goto(d, "record")
           /\ UNCHANGED <<disk, noticed, seen, stash, pend, live, faults>>
  <2>1. job' = [job EXCEPT ![d] = ItemAt(job[d], stash[d], Len(log) + 1, "copy")]
    BY <1>2 DEF ItemAt
  <2>2. Moves(d)
    BY <1>1, <1>2, <2>1, AcceptedTypes
  <2>3. log' \in Seq(Event)
    BY <1>1, <1>2, Known, AppendGrows DEF Grows
  <2>4. StateOK'
    BY <1>2, <2>2, <2>3, Known DEF SubmitCopy, Moves, StateOK
  <2> QED
    BY <1>1, <1>2, <2>1, <2>4, AcceptedInv DEF SubmitCopy
<1>3. CASE /\ Broken("copy")
           /\ UNCHANGED log \/ Accept(d, "copy", stash[d])
           /\ GiveUp(d)
  <2>1. Grows
    BY <1>1, <1>3, Known, SameGrows, AppendGrows
  <2> QED
    BY <1>3, <2>1, Known, BrokenCounts, GiveUpInv DEF SubmitCopy
<1> QED
  BY <1>2, <1>3 DEF SubmitCopy

-----------------------------------------------------------------------------
\* The invariant holds initially: every device has the one event there is.
LEMMA SyncInit == ASSUME Init PROVE SyncInv
<1> DEFINE d0 == CHOOSE d \in Device : TRUE
           c0 == CHOOSE c \in Content : TRUE
           first == [kind |-> "put", by |-> d0, content |-> c0]
<1>1. d0 \in Device /\ c0 \in Content /\ c0 \in File
  BY ConstantsAssumption DEF File
<1>2. first \in Event /\ log = <<first>>
  BY <1>1 DEF Init, Event
<1>3. /\ log \in Seq(Event) /\ Len(log) = 1
      /\ log[1].kind = "put" /\ log[1].content = c0
  BY <1>2
<1> HIDE DEF first
<1>4. Idle \in Job /\ Idle.goal = 0
  BY DEF Idle, Job, Via, File
<1>5. StateOK
  BY <1>1, <1>3, <1>4, ConstantsAssumption DEF Init, StateOK, File, Queue, Label
<1>6. LogInv
  <2>1. IsHead(1)
    BY <1>3 DEF IsHead, Main
  <2> QED
    BY <1>3, <2>1 DEF LogInv, HasHead, CopiesHaveBytes, Main
<1>7. ASSUME NEW d \in Device PROVE Staged(d) /\ KnowsHead(d)
  <2>1. /\ entry[d] = [seq |-> 1, content |-> c0] /\ cursor[d] = 1
        /\ pc[d] = "down" /\ job[d] = Idle
    BY DEF Init
  <2> QED
    BY <1>3, <1>4, <2>1
       DEF Staged, KnowsHead, EntryIsEvent, NothingPassedOver, AboutTo, Main
<1> QED
  BY <1>5, <1>6, <1>7 DEF SyncInv

\* Every step keeps the invariant.
LEMMA SyncNext == SyncInv /\ [Next]_vars => SyncInv'
<1> SUFFICES ASSUME SyncInv, [Next]_vars PROVE SyncInv'
  OBVIOUS
<1>1. ASSUME NEW d \in Device, Daemon(d) PROVE SyncInv'
  <2>1. CASE CatchUpStep(d)
    BY <2>1, PageStep, ConsumeEventStep, PlaceStep, NoteStep, AdvanceStep
       DEF CatchUpStep
  <2>2. CASE RescanStep(d)
    BY <2>2, SubmitFoundStep, ScanStep, SubmitStep, RecordStep, BeginSteps
       DEF RescanStep
  <2>3. CASE ConflictStep(d)
    BY <2>3, StageStep, FetchHeadStep, DecideStep, SubmitNewerStep, SubmitCopyStep
       DEF ConflictStep
  <2> QED
    BY <1>1, <2>1, <2>2, <2>3, BeginSteps DEF Daemon
<1>2. ASSUME NEW d \in Device,
             UserEdits(d) \/ Drop(d) \/ PendingFallsDue(d) \/ Crash(d)
             \/ Watch(d) \/ Hint(d) \/ RetryPending(d)
      PROVE  SyncInv'
  BY <1>2, AsideSteps, CrashStep, WatchStep, BeginSteps
<1>3. CASE UNCHANGED vars
  <2>1. StateOK'
    BY <1>3 DEF SyncInv, vars, StateOK
  <2> QED
    BY <1>3, <2>1, AsideInv DEF vars
<1> QED
  BY <1>1, <1>2, <1>3 DEF Next

\* Nothing an invariant device knows is short of the head once its cursor is.
LEMMA InvCaughtUp == SyncInv => CaughtUp
<1> SUFFICES ASSUME SyncInv, NEW d \in Device, cursor[d] = Len(log)
             PROVE  entry[d].seq = PathHead /\ entry[d].content = log[PathHead].content
  BY DEF CaughtUp
<1>1. IsHead(entry[d].seq)
  BY Known DEF EntryIsEvent, NothingPassedOver, IsHead
<1>2. entry[d].seq = PathHead
  BY <1>1, HeadIsUnique, Known DEF LogInv
<1> QED
  BY <1>2, Known DEF EntryIsEvent

\* Rules and what was passed over hold contents: a rule is for what the daemon
\* has just put on the disk, and a rescan passes over what is there.
LEMMA IgnoresKept ==
  ASSUME StateOK, StateOK', IgnoresOK, [Next]_vars
  PROVE  IgnoresOK'
<1>1. ASSUME NEW d \in Device, NEW c \in File, IgnoreFile(d, c)
      PROVE  rules' \in [Device -> Ignored]
  BY <1>1 DEF IgnoreFile, IgnoresOK, Ignored
<1>2. ASSUME NEW d \in Device, NEW c \in Content, IgnoreCopy(d, c)
      PROVE  rules' \in [Device -> Ignored]
  BY <1>2 DEF IgnoreCopy, IgnoresOK, Ignored
<1>3. ASSUME NEW d \in Device, Place(d)
      PROVE  IgnoresOK'
  <2>1. passed' = passed
    BY <1>3 DEF Place
  <2>2. CASE Write(d, log[job[d].at].content)
             /\ IgnoreFile(d, log[job[d].at].content)
    <3>1. disk'[d] \in File /\ disk'[d] = log[job[d].at].content
      BY <2>2 DEF Write, StateOK
    <3> QED
      BY <1>1, <2>1, <2>2, <3>1 DEF IgnoresOK
  <2>3. CASE /\ copies' = [copies EXCEPT ![d] = @ \cup {log[job[d].at].content}]
             /\ IgnoreCopy(d, log[job[d].at].content)
    <3>1. copies'[d] \subseteq Content /\ log[job[d].at].content \in copies'[d]
      BY <2>3 DEF StateOK
    <3> QED
      BY <1>2, <2>1, <2>3, <3>1 DEF IgnoresOK
  <2>4. CASE rules' = rules
    BY <2>1, <2>4 DEF IgnoresOK
  <2> QED
    BY <1>3, <2>2, <2>3, <2>4 DEF Place
<1>4. ASSUME NEW d \in Device, WriteConflictCopy(d), passed' = passed
      PROVE  IgnoresOK'
  <2>1. copies'[d] \subseteq Content /\ stash[d] \in copies'[d]
    BY <1>4 DEF WriteConflictCopy, StateOK
  <2> QED
    BY <1>2, <1>4, <2>1 DEF WriteConflictCopy, IgnoresOK
<1>5. ASSUME NEW d \in Device, Decide(d) \/ SubmitNewer(d)
      PROVE  IgnoresOK'
  <2>1. passed' = passed /\ (WriteConflictCopy(d) \/ rules' = rules)
    BY <1>5 DEF Decide, SubmitNewer
  <2> QED
    BY <1>4, <2>1 DEF IgnoresOK
<1>6. ASSUME NEW d \in Device, SubmitFound(d)
      PROVE  IgnoresOK'
  <2>1. PICK c \in copies[d] : rules' = [rules EXCEPT ![d].copies = @ \ {c}]
    BY <1>6 DEF SubmitFound
  <2>2. passed' = passed
    BY <1>6 DEF SubmitFound
  <2> QED
    BY <2>1, <2>2 DEF IgnoresOK, Ignored
<1>7. ASSUME NEW d \in Device, Scan(d)
      PROVE  IgnoresOK'
  <2>1. rules' = rules \/ rules' = [rules EXCEPT ![d].file = @ \ {disk[d]}]
    BY <1>7 DEF Scan
  <2>2. PICK f \in SUBSET File :
          passed' = [passed EXCEPT ![d] =
                       [file |-> f, copies |-> copies[d] \ noted[d]]]
    <3>1. disk[d] \in File
      BY DEF StateOK
    <3> QED
      BY <1>7, <3>1 DEF Scan
  <2>3. copies[d] \ noted[d] \subseteq Content
    BY DEF StateOK
  <2>4. rules' \in [Device -> Ignored]
    BY <2>1 DEF IgnoresOK, Ignored
  <2>5. passed' \in [Device -> Ignored]
    <3>1. [file |-> f, copies |-> copies[d] \ noted[d]] \in Ignored
      BY <2>3 DEF Ignored
    <3> QED
      BY <2>2, <3>1 DEF IgnoresOK
  <2> QED
    BY <2>4, <2>5 DEF IgnoresOK
<1>8. ASSUME NEW d \in Device,
             UserEdits(d) \/ Start(d) \/ Crash(d) \/ Drop(d) \/ Connect(d)
             \/ Watch(d) \/ Hint(d) \/ RetryPending(d) \/ Finish(d)
      PROVE  UNCHANGED Ignores
  BY <1>8 DEF UserEdits, Start, Crash, Drop, Connect, Watch, Hint,
              RetryPending, Finish, Tables
<1>9. ASSUME NEW d \in Device,
             PendingFallsDue(d) \/ Page(d) \/ ConsumeEvent(d) \/ Note(d)
             \/ Advance(d) \/ Submit(d) \/ Record(d) \/ Stage(d)
             \/ FetchHead(d) \/ SubmitCopy(d)
      PROVE  UNCHANGED Ignores
  BY <1>9 DEF PendingFallsDue, Page, ConsumeEvent, Note, Advance, Submit,
              Record, Stage, FetchHead, SubmitCopy
<1>10. UNCHANGED Ignores => IgnoresOK'
  BY DEF Ignores, IgnoresOK
<1>11. UNCHANGED vars => UNCHANGED Ignores
  BY DEF vars, Ignores
<1> QED
  BY <1>3, <1>5, <1>6, <1>7, <1>8, <1>9, <1>10, <1>11
     DEF Next, Daemon, CatchUpStep, RescanStep, ConflictStep

\* The state of the sync engine is well typed, for any devices and contents.
THEOREM SyncTypes == Spec => []TypeOK
<1>1. Init => SyncInv /\ IgnoresOK
  BY SyncInit DEF Init, IgnoresOK, Ignored
<1>2. SyncInv => StateOK
  BY DEF SyncInv
<1>3. SyncInv /\ IgnoresOK /\ [Next]_vars => (SyncInv /\ IgnoresOK)'
  <2> SUFFICES ASSUME SyncInv, IgnoresOK, [Next]_vars
               PROVE  SyncInv' /\ IgnoresOK'
    OBVIOUS
  <2>1. SyncInv'
    BY SyncNext
  <2>2. StateOK /\ StateOK'
    BY <2>1 DEF SyncInv
  <2> QED
    BY <2>1, <2>2, IgnoresKept
<1>4. SyncInv /\ IgnoresOK => TypeOK
  BY <1>2 DEF TypeOK
<1> QED
  BY <1>1, <1>3, <1>4, PTL DEF Spec

\* A device that has consumed the whole log knows the file's head, whatever
\* order conflicts, its own submissions, replayed pages, lost answers and
\* crashes came in.
THEOREM CaughtUpDevicesKnowTheHead == Spec => []CaughtUp
<1>1. Init => SyncInv
  BY SyncInit
<1> QED
  BY <1>1, SyncNext, InvCaughtUp, PTL DEF Spec

-----------------------------------------------------------------------------
(***************************************************************************)
(* No echo.  A device owes the log at most two versions of the file: the   *)
(* one whose submission or conflict it is at, and the bytes on its disk    *)
(* when they are not those it takes for known.  An edit or a fault adds    *)
(* one to what all devices owe; a version that is accepted settles one.    *)
(* The debts are pairs in a set, so that they can be counted for any       *)
(* number of devices.                                                      *)
(***************************************************************************)

\* It is submitting, or resolving a conflict in which its version may win.
Resolves(d) ==
  \/ pc[d] \in {"submit", "stage", "decide", "newer"}
  \/ pc[d] \in {"head", "place"} /\ job[d].why \in {"put", "delete"}
  \/ pc[d] = "note" /\ job[d].why = "put"

\* Here the daemon takes the content of the entry to be on the disk.
Plain(d) ==
  \/ pc[d] \in {"down", "idle", "page", "next", "advance", "scan", "finish",
                "decide", "copy"}
  \/ pc[d] = "place" /\ job[d].why = "page"
  \/ pc[d] = "note" /\ ~Main(job[d].at)
  \/ pc[d] = "record" /\ job[d].why \in {"found", "copy"}

\* The disk has other bytes than those.
Unsent(d) ==
  \/ Plain(d) /\ disk[d] # entry[d].content
  \/ pc[d] = "submit" /\ job[d].item = None /\ disk[d] # None
  \/ pc[d] \in {"head", "place"} /\ job[d].why = "put" /\ disk[d] # stash[d]
  \/ pc[d] \in {"head", "place"} /\ job[d].why = "delete" /\ disk[d] # None
  \/ pc[d] = "note" /\ Main(job[d].at) /\ disk[d] # log[job[d].at].content
  \/ pc[d] = "record" /\ job[d].why \notin {"found", "copy"} /\ disk[d] # job[d].item
  \/ pc[d] = "newer" /\ disk[d] # stash[d]

Debt(d) == (IF Resolves(d) THEN 1 ELSE 0) + (IF Unsent(d) THEN 1 ELSE 0)

Owed ==
  {t \in Device \X {"resolve", "disk"} :
     IF t[2] = "resolve" THEN Resolves(t[1]) ELSE Unsent(t[1])}

EchoInv ==
  /\ IsFiniteSet(Owed)
  /\ Cardinality(Versions) + Cardinality(Owed) <= 1 + edits + faults

\* The debts of one device on top of those of the others.
LEMMA TwoDebts ==
  ASSUME NEW R, IsFiniteSet(R), NEW d, \A t \in R : t[1] # d,
         NEW A \in BOOLEAN, NEW B \in BOOLEAN
  PROVE  LET S == R \cup (IF A THEN {<<d, "resolve">>} ELSE {})
                    \cup (IF B THEN {<<d, "disk">>} ELSE {})
         IN  /\ IsFiniteSet(S)
             /\ Cardinality(S) = Cardinality(R) + (IF A THEN 1 ELSE 0) + (IF B THEN 1 ELSE 0)
<1> DEFINE T == R \cup (IF A THEN {<<d, "resolve">>} ELSE {})
           S == T \cup (IF B THEN {<<d, "disk">>} ELSE {})
<1>0. Cardinality(R) \in Nat
  BY FS_CardinalityType
<1>1. IsFiniteSet(T) /\ Cardinality(T) = Cardinality(R) + (IF A THEN 1 ELSE 0)
  <2>1. CASE A
    <3>1. T = R \cup {<<d, "resolve">>} /\ <<d, "resolve">> \notin R
      BY <2>1
    <3> QED
      BY <2>1, <3>1, FS_AddElement
  <2>2. CASE ~A
    <3>1. T = R
      BY <2>2
    <3> QED
      BY <2>2, <3>1, <1>0
  <2> QED
    BY <2>1, <2>2
<1>2. <<d, "disk">> \notin T
  OBVIOUS
<1> HIDE DEF T
<1>3. IsFiniteSet(S) /\ Cardinality(S) = Cardinality(T) + (IF B THEN 1 ELSE 0)
  <2>1. CASE B
    <3>1. S = T \cup {<<d, "disk">>}
      BY <2>1
    <3> QED
      BY <2>1, <3>1, <1>1, <1>2, FS_AddElement
  <2>2. CASE ~B
    <3>1. S = T
      BY <2>2
    <3>2. Cardinality(T) \in Nat
      BY <1>1, FS_CardinalityType
    <3> QED
      BY <2>2, <3>1, <3>2, <1>1
  <2> QED
    BY <2>1, <2>2
<1> QED
  BY <1>0, <1>1, <1>3 DEF T

\* The versions in the log are finitely many.
LEMMA VersionsFinite ==
  ASSUME log \in Seq(Event)
  PROVE  IsFiniteSet(Versions) /\ Cardinality(Versions) \in Nat
<1>1. Versions \subseteq 1 .. Len(log) /\ Len(log) \in Nat
  BY DEF Versions
<1>2. IsFiniteSet(1 .. Len(log))
  BY <1>1, FS_Interval
<1> QED
  BY <1>1, <1>2, FS_Subset, FS_CardinalityType

\* A step of d leaves the files and the operations of the others alone.
Apart(d) ==
  /\ \A e \in Device \ {d} :
       /\ pc'[e] = pc[e] /\ job'[e] = job[e] /\ stash'[e] = stash[e]
       /\ entry'[e] = entry[e] /\ disk'[e] = disk[e]
  /\ Grows

\* So they owe what they owed.
LEMMA OthersOwe ==
  ASSUME SyncInv, NEW d \in Device, Apart(d), NEW e \in Device \ {d}
  PROVE  (Resolves(e)' <=> Resolves(e)) /\ (Unsent(e)' <=> Unsent(e))
<1>1. /\ pc'[e] = pc[e] /\ job'[e] = job[e] /\ stash'[e] = stash[e]
      /\ entry'[e] = entry[e] /\ disk'[e] = disk[e]
  BY DEF Apart
<1>2. pc[e] = "note" => log'[job[e].at] = log[job[e].at]
  <2>1. pc[e] = "note" => job[e].at \in 1 .. Len(log)
    BY DEF SyncInv, KnowsHead, NothingPassedOver, AboutTo, StateOK, Job
  <2> QED
    BY <2>1 DEF Apart, Grows
<1>3. pc[e] = "note" => (Main(job[e].at)' <=> Main(job[e].at))
  BY <1>1, <1>2 DEF Main
<1> QED
  BY <1>1, <1>2, <1>3 DEF Resolves, Unsent, Plain

\* A step is paid when its device owes no more than an edit or a fault adds
\* to its debt, a version accepted counting as settled.
LEMMA Paid ==
  ASSUME SyncInv, StateOK', EchoInv, NEW d \in Device, Apart(d), NEW v \in {0, 1}, NEW f \in {0, 1},
         edits' + faults' = edits + faults + f,
         Cardinality(Versions') = Cardinality(Versions) + v,
         Debt(d)' + v <= Debt(d) + f
  PROVE  EchoInv'
<1> DEFINE R == {t \in Owed : t[1] # d}
<1>1. IsFiniteSet(R) /\ Cardinality(R) \in Nat
  BY FS_Subset, FS_CardinalityType DEF EchoInv
<1>2. Owed = R \cup (IF Resolves(d) THEN {<<d, "resolve">>} ELSE {})
               \cup (IF Unsent(d) THEN {<<d, "disk">>} ELSE {})
  BY DEF Owed
<1>3. R = {t \in Owed' : t[1] # d}
  BY OthersOwe DEF Owed
<1>4. Owed' = R \cup (IF Resolves(d)' THEN {<<d, "resolve">>} ELSE {})
                \cup (IF Unsent(d)' THEN {<<d, "disk">>} ELSE {})
  BY <1>3 DEF Owed
<1> HIDE DEF R
<1>5. Cardinality(Owed) = Cardinality(R) + Debt(d)
  <2>1. \A t \in R : t[1] # d
    BY DEF R
  <2>2. PICK A \in BOOLEAN, B \in BOOLEAN : (A <=> Resolves(d)) /\ (B <=> Unsent(d))
    OBVIOUS
  <2>3. Owed = R \cup (IF A THEN {<<d, "resolve">>} ELSE {})
                 \cup (IF B THEN {<<d, "disk">>} ELSE {})
    BY <1>2, <2>2
  <2>4. /\ IsFiniteSet(Owed)
        /\ Cardinality(Owed) = Cardinality(R) + (IF A THEN 1 ELSE 0) + (IF B THEN 1 ELSE 0)
    BY <1>1, <2>1, <2>3, TwoDebts
  <2>5. Debt(d) = (IF A THEN 1 ELSE 0) + (IF B THEN 1 ELSE 0)
    BY <2>2 DEF Debt
  <2> QED
    BY <1>1, <2>4, <2>5
<1>6. IsFiniteSet(Owed') /\ Cardinality(Owed') = Cardinality(R) + Debt(d)'
  <2>1. \A t \in R : t[1] # d
    BY DEF R
  <2>2. PICK A \in BOOLEAN, B \in BOOLEAN : (A <=> Resolves(d)') /\ (B <=> Unsent(d)')
    OBVIOUS
  <2>3. Owed' = R \cup (IF A THEN {<<d, "resolve">>} ELSE {})
                  \cup (IF B THEN {<<d, "disk">>} ELSE {})
    BY <1>4, <2>2
  <2>4. /\ IsFiniteSet(Owed')
        /\ Cardinality(Owed') = Cardinality(R) + (IF A THEN 1 ELSE 0) + (IF B THEN 1 ELSE 0)
    BY <1>1, <2>1, <2>3, TwoDebts
  <2>5. Debt(d)' = (IF A THEN 1 ELSE 0) + (IF B THEN 1 ELSE 0)
    BY <2>2 DEF Debt
  <2> QED
    BY <1>1, <2>4, <2>5
<1>7. Cardinality(Versions) \in Nat /\ edits \in Nat /\ faults \in Nat
  <2>1. log \in Seq(Event) /\ edits \in 0 .. MaxEdits /\ faults \in 0 .. MaxFaults
    BY DEF SyncInv, StateOK
  <2> QED
    BY <2>1, VersionsFinite, ConstantsAssumption
<1>8. Debt(d) \in Nat /\ Debt(d)' \in Nat
  BY DEF Debt
<1>9. edits' \in Nat /\ faults' \in Nat
  BY ConstantsAssumption DEF StateOK
<1>10. Cardinality(Versions) + Cardinality(R) + Debt(d) <= 1 + edits + faults
  BY <1>1, <1>5, <1>7, <1>8 DEF EchoInv
<1>11. Cardinality(Versions') + Cardinality(Owed') <= 1 + edits' + faults'
  <2>1. PICK r \in Nat, x \in Nat, y \in Nat, n \in Nat, e \in Nat, g \in Nat :
          /\ r = Cardinality(R) /\ x = Debt(d) /\ y = Debt(d)'
          /\ n = Cardinality(Versions) /\ e = edits /\ g = faults
    BY <1>1, <1>7, <1>8
  <2>2. PICK e1 \in Nat, g1 \in Nat : e1 = edits' /\ g1 = faults'
    BY <1>9
  <2>3. n + r + x <= 1 + e + g /\ y + v <= x + f /\ e1 + g1 = e + g + f
    BY <1>10, <2>1, <2>2
  <2>4. (n + v) + (r + y) <= 1 + e1 + g1
    BY <2>3
  <2> QED
    BY <1>6, <2>1, <2>2, <2>4
<1> QED
  BY <1>6, <1>11 DEF EchoInv

-----------------------------------------------------------------------------
\* Between operations and their parts a device owes no more than its disk.
Waits == {"down", "idle", "page", "next", "advance", "scan", "finish"}
DiskDebt(d) == IF disk[d] # entry[d].content THEN 1 ELSE 0

\* A device that waits owes what its disk has and its entry has not.
LEMMA WaitingDebt ==
  ASSUME NEW d \in Device
  PROVE  /\ pc[d] \in Waits => Debt(d) = DiskDebt(d)
         /\ pc'[d] \in Waits => Debt(d)' = DiskDebt(d)'
         /\ Debt(d) \in Nat /\ Debt(d)' \in Nat
         /\ DiskDebt(d) \in {0, 1} /\ DiskDebt(d)' \in {0, 1}
<1>1. pc[d] \in Waits => ~Resolves(d) /\ (Unsent(d) <=> disk[d] # entry[d].content)
  BY DEF Waits, Resolves, Unsent, Plain
<1>2. pc'[d] \in Waits =>
        ~Resolves(d)' /\ (Unsent(d)' <=> disk'[d] # entry'[d].content)
  BY DEF Waits, Resolves, Unsent, Plain
<1> QED
  BY <1>1, <1>2 DEF Debt, DiskDebt

\* A device at a submission or in a conflict owes at least that.
LEMMA ResolvingDebt ==
  ASSUME NEW d \in Device, Resolves(d)
  PROVE  /\ Debt(d) \in {1, 2}
         /\ Debt(d) = IF Unsent(d) THEN 2 ELSE 1
BY DEF Debt

\* However an operation ends or begins, its device waits.
LEMMA EndsWaiting ==
  ASSUME StateOK, NEW d \in Device,
         \/ \E q \in Queue : Continue(d, q)
         \/ Fail(d) \/ SubmitFails(d) \/ Resolved(d) \/ FinishRescan(d)
         \/ \E via \in Via, r \in 0 .. 3 : BeginRescan(d, via, r)
         \/ \E via \in Via : BeginCatchUp(d, via)
  PROVE  pc'[d] \in Waits /\ Moves(d)
<1>1. ASSUME NEW label, Goto(d, label) PROVE pc'[d] = label
  BY <1>1 DEF Goto, StateOK
<1>2. ASSUME NEW q \in Queue, Continue(d, q) PROVE pc'[d] \in Waits /\ Moves(d)
  BY <1>1, <1>2, ContinueSettles
     DEF Continue, BeginCatchUp, BeginRescan, Rest, Waits, Settles
<1>3. ASSUME Fail(d) PROVE pc'[d] \in Waits /\ Moves(d)
  BY <1>1, <1>3, FailSettles DEF Fail, Rest, Waits, Settles
<1>4. CASE SubmitFails(d)
  BY <1>2, <1>3, <1>4 DEF SubmitFails, Queue
<1>5. CASE Resolved(d)
  BY <1>1, <1>5, ResolvedMoves DEF Resolved, BeginRescan, FinishRescan, Waits
<1>6. CASE FinishRescan(d)
  BY <1>1, <1>6, FinishRescanMoves DEF FinishRescan, Waits
<1>7. CASE \E via \in Via, r \in 0 .. 3 : BeginRescan(d, via, r)
  BY <1>1, <1>7, BeginRescanMoves DEF BeginRescan, Waits
<1>8. CASE \E via \in Via : BeginCatchUp(d, via)
  BY <1>1, <1>8, BeginCatchUpMoves DEF BeginCatchUp, Waits
<1> QED
  BY <1>2, <1>3, <1>4, <1>5, <1>6, <1>7, <1>8

\* What a submission makes of the versions.
LEMMA VersionsSame ==
  ASSUME SyncInv, log' = log
  PROVE  Cardinality(Versions') = Cardinality(Versions) + 0
<1>1. Versions' = Versions
  BY DEF Versions, Main
<1>2. log \in Seq(Event)
  BY DEF SyncInv, StateOK
<1> QED
  BY <1>1, <1>2, VersionsFinite

\* A conflict copy is not a version of the file.
LEMMA CopyNoVersion ==
  ASSUME SyncInv, NEW d \in Device, NEW c \in Content, Accept(d, "copy", c)
  PROVE  Cardinality(Versions') = Cardinality(Versions) + 0
<1>1. /\ log \in Seq(Event) /\ LogInv
  BY DEF SyncInv, StateOK
<1>2. /\ Len(log') = Len(log) + 1 /\ log' \in Seq(Event) /\ Len(log) \in Nat
      /\ \A s \in 1 .. Len(log) : log'[s] = log[s]
      /\ log'[Len(log) + 1] = [kind |-> "copy", by |-> d, content |-> c]
  BY <1>1, AppendGrows DEF Grows, File
<1>3. log'[Len(log) + 1].kind = "copy"
  BY <1>2
<1>4. Versions' = Versions
  BY <1>1, <1>2, <1>3 DEF Versions, Main
<1> QED
  BY <1>1, <1>4, VersionsFinite

\* An accepted version is one more.
LEMMA VersionAdded ==
  ASSUME SyncInv, NEW d \in Device, NEW k \in {"put", "delete"}, NEW c \in File,
         Accept(d, k, c)
  PROVE  Cardinality(Versions') = Cardinality(Versions) + 1
<1>1. /\ log \in Seq(Event) /\ LogInv
  BY DEF SyncInv, StateOK
<1>2. /\ Len(log') = Len(log) + 1 /\ log' \in Seq(Event) /\ Len(log) \in Nat
      /\ \A s \in 1 .. Len(log) : log'[s] = log[s]
      /\ log'[Len(log) + 1] = [kind |-> k, by |-> d, content |-> c]
  BY <1>1, AppendGrows DEF Grows
<1>3. log'[Len(log) + 1].kind = k
  BY <1>2
<1>4. Versions' = Versions \cup {Len(log) + 1} /\ Len(log) + 1 \notin Versions
  BY <1>1, <1>2, <1>3 DEF Versions, Main
<1> QED
  BY <1>1, <1>4, VersionsFinite, FS_AddElement

\* The ways in which a step is paid.  Nothing that is owed changes:
LEMMA SamePaid ==
  ASSUME SyncInv, StateOK', EchoInv,
         UNCHANGED <<log, disk, entry, stash, pc, job>>,
         edits' + faults' = edits + faults \/ edits' + faults' = edits + faults + 1
  PROVE  EchoInv'
<1>1. Owed' = Owed
  BY DEF Owed, Resolves, Unsent, Plain, Main
<1>2. Versions' = Versions /\ log \in Seq(Event)
  BY DEF Versions, Main, SyncInv, StateOK
<1>3. Cardinality(Versions) \in Nat /\ Cardinality(Owed) \in Nat
  BY <1>2, VersionsFinite, FS_CardinalityType DEF EchoInv
<1>4. edits \in Nat /\ faults \in Nat /\ edits' \in Nat /\ faults' \in Nat
  <2>1. /\ edits \in 0 .. MaxEdits /\ faults \in 0 .. MaxFaults
        /\ edits' \in 0 .. MaxEdits /\ faults' \in 0 .. MaxFaults
    BY DEF SyncInv, StateOK
  <2> QED
    BY <2>1, ConstantsAssumption
<1>5. PICK e \in Nat, g \in Nat, e1 \in Nat, g1 \in Nat :
        e = edits /\ g = faults /\ e1 = edits' /\ g1 = faults'
  BY <1>4
<1>6. Cardinality(Versions) + Cardinality(Owed) <= 1 + edits + faults
  BY DEF EchoInv
<1>7. Cardinality(Versions) + Cardinality(Owed) <= 1 + edits' + faults'
  <2>1. PICK n \in Nat, m \in Nat : n = Cardinality(Versions) /\ m = Cardinality(Owed)
    BY <1>3
  <2>2. n + m <= 1 + e + g /\ (e1 + g1 = e + g \/ e1 + g1 = e + g + 1)
    BY <1>5, <1>6, <2>1
  <2>3. n + m <= 1 + e1 + g1
    BY <2>2
  <2> QED
    BY <1>5, <2>1, <2>3
<1> QED
  BY <1>1, <1>2, <1>7 DEF EchoInv

\* The device waited and waits, and has done nothing to the file.
LEMMA WaitingPaid ==
  ASSUME SyncInv, StateOK', EchoInv, NEW d \in Device, Apart(d), pc[d] \in Waits,
         pc'[d] \in Waits, disk'[d] = disk[d], entry'[d] = entry[d],
         edits' = edits, NEW f \in {0, 1}, faults' = faults + f,
         Cardinality(Versions') = Cardinality(Versions) + 0
  PROVE  EchoInv'
<1>1. DiskDebt(d)' = DiskDebt(d)
  BY DEF DiskDebt
<1>2. Debt(d)' = Debt(d) /\ Debt(d) \in Nat
  BY <1>1, WaitingDebt
<1>3. edits' + faults' = edits + faults + f
  <2>1. edits \in 0 .. MaxEdits /\ faults \in 0 .. MaxFaults
    BY DEF SyncInv, StateOK
  <2> QED
    BY <2>1, ConstantsAssumption
<1>4. Debt(d)' + 0 <= Debt(d) + f
  BY <1>2
<1> QED
  BY <1>3, <1>4, Paid

\* The device waits after a fault, or after it has given up a resolution.
LEMMA EndsPaid ==
  ASSUME SyncInv, StateOK', EchoInv, NEW d \in Device, Apart(d), pc'[d] \in Waits,
         edits' = edits, NEW v \in {0, 1}, NEW f \in {0, 1}, faults' = faults + f,
         Cardinality(Versions') = Cardinality(Versions) + v,
         \/ f = 1 /\ v = 0
         \/ Resolves(d) /\ v = 0
         \/ Resolves(d) /\ f = 1
  PROVE  EchoInv'
<1>1. Debt(d)' \in {0, 1} /\ Debt(d) \in Nat
  BY WaitingDebt
<1>2. edits' + faults' = edits + faults + f
  <2>1. edits \in 0 .. MaxEdits /\ faults \in 0 .. MaxFaults
    BY DEF SyncInv, StateOK
  <2> QED
    BY <2>1, ConstantsAssumption
<1>3. Debt(d)' + v <= Debt(d) + f
  <2>1. CASE f = 1 /\ v = 0
    BY <1>1, <2>1
  <2>2. CASE Resolves(d)
    <3>1. Debt(d) \in {1, 2}
      BY <2>2, ResolvingDebt
    <3>2. v = 0 \/ (v = 1 /\ f = 1)
      OBVIOUS
    <3> QED
      BY <1>1, <3>1, <3>2
  <2> QED
    BY <2>1, <2>2
<1> QED
  BY <1>2, <1>3, Paid

\* The device goes on, and owes no more; a version accepted settles a debt.
LEMMA GoesOnPaid ==
  ASSUME SyncInv, StateOK', EchoInv, NEW d \in Device, Apart(d),
         edits' = edits, faults' = faults, NEW v \in {0, 1},
         Cardinality(Versions') = Cardinality(Versions) + v,
         Debt(d)' + v <= Debt(d)
  PROVE  EchoInv'
<1>1. Debt(d) \in Nat /\ Debt(d)' \in Nat
  BY WaitingDebt
<1>2. edits' + faults' = edits + faults + 0
  <2>1. edits \in 0 .. MaxEdits /\ faults \in 0 .. MaxFaults
    BY DEF SyncInv, StateOK
  <2> QED
    BY <2>1, ConstantsAssumption
<1>3. Debt(d)' + v <= Debt(d) + 0
  BY <1>1
<1> QED
  BY <1>2, <1>3, Paid

\* A step keeps apart from the others what its device owes.
LEMMA MovesApart ==
  ASSUME SyncInv, NEW d \in Device, Moves(d), Grows,
         \A e \in Device \ {d} :
           stash'[e] = stash[e] /\ entry'[e] = entry[e] /\ disk'[e] = disk[e]
  PROVE  Apart(d)
BY DEF Apart, Moves

\* The event of a copy or of a version that the log may have got.
LEMMA LogGrows ==
  ASSUME SyncInv, NEW d \in Device,
         \/ log' = log
         \/ \E c \in Content : Accept(d, "copy", c)
         \/ \E k \in {"put", "delete"}, c \in File : Accept(d, k, c)
  PROVE  Grows
BY Known, SameGrows, AppendGrows DEF File

\* A fault is one more.
LEMMA FaultCounts ==
  ASSUME NEW k, Broken(k)
  PROVE  faults' = faults + 1
BY DEF Broken

-----------------------------------------------------------------------------
\* The users, faults, and the steps between operations.
LEMMA EchoAside ==
  ASSUME SyncInv, StateOK', EchoInv, NEW d \in Device,
         Drop(d) \/ PendingFallsDue(d)
  PROVE  EchoInv'
<1>1. edits \in Nat /\ faults \in Nat
  <2>1. edits \in 0 .. MaxEdits /\ faults \in 0 .. MaxFaults
    BY DEF SyncInv, StateOK
  <2> QED
    BY <2>1, ConstantsAssumption
<1>2. edits' = edits /\ (faults' = faults \/ faults' = faults + 1)
  BY FaultCounts DEF Drop, PendingFallsDue
<1>3. edits' + faults' = edits + faults \/ edits' + faults' = edits + faults + 1
  BY <1>1, <1>2
<1> QED
  BY <1>3, SamePaid DEF Drop, PendingFallsDue, Files, Tables

\* An edit is one more version to come.
LEMMA EchoUserEdits ==
  ASSUME SyncInv, StateOK', EchoInv, NEW d \in Device, UserEdits(d)
  PROVE  EchoInv'
<1>1. Apart(d)
  BY Known, LogGrows DEF UserEdits, Write, Tables, Apart
<1>2. (Resolves(d)' <=> Resolves(d))
  BY DEF UserEdits, Resolves
<1>3. Debt(d)' + 0 <= Debt(d) + 1
  BY <1>2 DEF Debt
<1>4. edits \in Nat /\ faults \in Nat
  <2>1. edits \in 0 .. MaxEdits /\ faults \in 0 .. MaxFaults
    BY DEF SyncInv, StateOK
  <2> QED
    BY <2>1, ConstantsAssumption
<1>5. edits' + faults' = edits + faults + 1
  BY <1>4 DEF UserEdits
<1>6. Cardinality(Versions') = Cardinality(Versions) + 0
  BY VersionsSame DEF UserEdits
<1> QED
  BY <1>1, <1>3, <1>5, <1>6, Paid

\* A crash may leave a version to be submitted again.
LEMMA EchoCrash ==
  ASSUME SyncInv, StateOK', EchoInv, NEW d \in Device, Crash(d)
  PROVE  EchoInv'
<1>1. Apart(d) /\ pc'[d] \in Waits
  BY Known, LogGrows DEF Crash, Tables, Apart, Waits
<1>2. Cardinality(Versions') = Cardinality(Versions) + 0
  BY VersionsSame DEF Crash
<1>3. faults' = faults + 1 /\ edits' = edits
  BY FaultCounts DEF Crash
<1> QED
  BY <1>1, <1>2, <1>3, EndsPaid

\* Nothing is owed because an operation begins.
LEMMA EchoBegins ==
  ASSUME SyncInv, StateOK', EchoInv, NEW d \in Device,
         \/ Start(d) \/ Connect(d) \/ Watch(d) \/ Hint(d) \/ RetryPending(d)
         \/ Finish(d) \/ Page(d) \/ Advance(d)
  PROVE  EchoInv'
<1>1. pc[d] \in Waits
  BY DEF Start, Connect, Watch, Hint, RetryPending, Finish, Page, Advance, Waits
<1>2. pc'[d] \in Waits /\ \A e \in Device \ {d} : pc'[e] = pc[e] /\ job'[e] = job[e]
  <2>1. job[d].via \in Via /\ pend[d] \in Queue
    BY Known DEF StateOK, Job
  <2>2. CASE Start(d) \/ Advance(d)
    BY <2>2, Known DEF Start, Advance, Goto, Waits
  <2>3. CASE Connect(d) \/ Watch(d) \/ Hint(d) \/ RetryPending(d) \/ Finish(d)
    <3>1. \/ \E via \in Via, r \in 0 .. 3 : BeginRescan(d, via, r)
          \/ \E via \in Via : BeginCatchUp(d, via)
      BY <2>1, <2>3 DEF Connect, Watch, Hint, RetryPending, Finish, Via
    <3> QED
      BY <3>1, Known, EndsWaiting DEF Moves
  <2>4. CASE Page(d)
    <3>1. CASE (\E q \in Queue : Continue(d, q)) \/ Fail(d)
      BY <3>1, Known, EndsWaiting DEF Moves
    <3>2. CASE job' = [job EXCEPT ![d].goal = Len(log)] /\ Goto(d, "next")
      BY <3>2, Known DEF Goto, Waits
    <3> QED
      BY <2>1, <2>4, <3>1, <3>2 DEF Page
  <2> QED
    BY <2>2, <2>3, <2>4
<1>3. /\ UNCHANGED <<log, disk, entry, stash, edits>>
      /\ faults' = faults \/ faults' = faults + 1
  BY FaultCounts DEF Start, Connect, Watch, Hint, RetryPending, Finish, Page, Advance,
                     Files, Tables
<1>4. Apart(d)
  BY <1>2, <1>3, LogGrows DEF Apart
<1>5. Cardinality(Versions') = Cardinality(Versions) + 0
  BY <1>3, VersionsSame
<1>6. faults' = faults + 0 \/ faults' = faults + 1
  <2>1. faults \in 0 .. MaxFaults
    BY Known DEF StateOK
  <2> QED
    BY <1>3, <2>1, ConstantsAssumption
<1> QED
  BY <1>1, <1>2, <1>3, <1>4, <1>5, <1>6, WaitingPaid

-----------------------------------------------------------------------------
\* Catch-up: the bytes and then the entry become those of the event, and a
\* version of the device's own that is overwritten is owed no more.
LEMMA EchoConsumeEvent ==
  ASSUME SyncInv, StateOK', EchoInv, NEW d \in Device, ConsumeEvent(d)
  PROVE  EchoInv'
<1>1. pc[d] \in Waits /\ UNCHANGED <<log, disk, entry, stash, edits, faults>>
  BY DEF ConsumeEvent, Waits, Files
<1>2. Cardinality(Versions') = Cardinality(Versions) + 0 /\ Grows
  BY <1>1, VersionsSame, LogGrows
<1>3. CASE Continue(d, pend[d]) \/ UNCHANGED <<pc, job>>
  <2>1. pend[d] \in Queue
    BY Known DEF StateOK
  <2>2. pc'[d] \in Waits /\ \A e \in Device \ {d} : pc'[e] = pc[e] /\ job'[e] = job[e]
    BY <1>1, <1>3, <2>1, Known, EndsWaiting DEF Moves
  <2>3. Apart(d)
    BY <1>1, <1>2, <2>2 DEF Apart
  <2>4. faults' = faults + 0
    <3>1. faults \in 0 .. MaxFaults
      BY Known DEF StateOK
    <3> QED
      BY <1>1, <3>1, ConstantsAssumption
  <2> QED
    BY <1>1, <1>2, <2>2, <2>3, <2>4, WaitingPaid
<1>4. CASE /\ job' = [job EXCEPT ![d].at = cursor[d] + 1, ![d].why = "page"]
           /\ Goto(d, "place")
  <2>1. pc'[d] = "place" /\ \A e \in Device \ {d} : pc'[e] = pc[e] /\ job'[e] = job[e]
    BY <1>4, Known DEF Goto
  <2>2. job'[d].why = "page"
    <3>1. job' = [job EXCEPT ![d] = At(job[d], cursor[d] + 1, "page")]
      BY <1>4 DEF At
    <3>2. cursor[d] + 1 \in Nat /\ "page" \in Why /\ job[d] \in Job
      BY Known DEF StateOK, Why
    <3>3. At(job[d], cursor[d] + 1, "page").why = "page"
      BY <3>2, JobAt, Zenon
    <3> QED
      BY <3>1, <3>3, Known
  <2>3. Apart(d)
    BY <1>1, <1>2, <2>1 DEF Apart
  <2>4. ~Resolves(d)' /\ (Unsent(d)' <=> disk'[d] # entry'[d].content)
    BY <2>1, <2>2 DEF Resolves, Unsent, Plain
  <2>5. Debt(d) = DiskDebt(d) /\ Debt(d)' = DiskDebt(d)
    BY <1>1, <2>4, WaitingDebt DEF Debt, DiskDebt
  <2>6. Debt(d)' + 0 <= Debt(d)
    BY <2>5, WaitingDebt
  <2> QED
    BY <1>1, <1>2, <2>3, <2>6, GoesOnPaid
<1> QED
  BY <1>3, <1>4 DEF ConsumeEvent

\* A resolution is given up after a fault.
LEMMA GivesUp ==
  ASSUME SyncInv, NEW d \in Device, GiveUp(d), Grows, entry' = entry
  PROVE  pc'[d] \in Waits /\ Apart(d)
<1>1. pc'[d] \in Waits /\ Moves(d)
  BY Known, EndsWaiting DEF GiveUp
<1>2. \A e \in Device \ {d} : disk'[e] = disk[e] /\ stash'[e] = stash[e]
  BY Known DEF GiveUp, Restore
<1> QED
  BY <1>1, <1>2, MovesApart

\* The bytes of the event go over those on the disk.
LEMMA EchoPlace ==
  ASSUME SyncInv, StateOK', EchoInv, NEW d \in Device, Place(d)
  PROVE  EchoInv'
<1>1. pc[d] = "place" /\ UNCHANGED <<log, entry, edits>>
  BY DEF Place
<1>2. Cardinality(Versions') = Cardinality(Versions) + 0 /\ Grows
  BY <1>1, VersionsSame, LogGrows
<1>3. CASE GiveUp(d) /\ Broken("page")
  BY <1>1, <1>2, <1>3, GivesUp, FaultCounts, EndsPaid
<1>4. CASE Goto(d, "note") /\ UNCHANGED <<stash, job, faults>>
  <2>1. pc'[d] = "note" /\ \A e \in Device \ {d} : pc'[e] = pc[e] /\ job'[e] = job[e]
    BY <1>4, Known DEF Goto
  <2>2. \A e \in Device \ {d} : disk'[e] = disk[e]
    BY Known DEF Place, Write, GiveUp, Restore
  <2>3. Apart(d)
    BY <1>1, <1>2, <1>4, <2>1, <2>2 DEF Apart
  <2>4. Main(job[d].at)' <=> Main(job[d].at)
    BY <1>1, <1>4 DEF Main
  <2>5. CASE Main(job[d].at)
    <3>1. disk'[d] = log[job[d].at].content
      <4>1. ~GiveUp(d)
        BY <2>1, Known DEF GiveUp, Fail, Rest, Goto
      <4> QED
        BY <2>5, <4>1, Known DEF Place, Write
    <3>2. ~Unsent(d)'
      BY <1>1, <1>4, <2>1, <2>4, <2>5, <3>1 DEF Unsent, Plain
    <3>3. Resolves(d)' => Resolves(d)
      BY <1>1, <1>4, <2>1 DEF Resolves
    <3>4. Debt(d)' + 0 <= Debt(d)
      BY <3>2, <3>3 DEF Debt
    <3> QED
      BY <1>1, <1>2, <1>4, <2>3, <3>4, GoesOnPaid
  <2>6. CASE ~Main(job[d].at)
    <3>1. job[d].why = "page"
      BY <1>1, <2>6, Known DEF AboutTo
    <3>2. disk'[d] = disk[d]
      <4>1. ~GiveUp(d)
        BY <2>1, Known DEF GiveUp, Fail, Rest, Goto
      <4> QED
        BY <2>6, <4>1, Known DEF Place
    <3>3. Unsent(d)' <=> Unsent(d)
      BY <1>1, <1>4, <2>1, <2>4, <2>6, <3>1, <3>2 DEF Unsent, Plain
    <3>4. ~Resolves(d)'
      BY <1>4, <2>1, <3>1 DEF Resolves
    <3>5. Debt(d)' + 0 <= Debt(d)
      BY <3>3, <3>4 DEF Debt
    <3> QED
      BY <1>1, <1>2, <1>4, <2>3, <3>5, GoesOnPaid
  <2> QED
    BY <2>5, <2>6
<1> QED
  BY <1>3, <1>4 DEF Place

\* The entry follows them.
LEMMA EchoNote ==
  ASSUME SyncInv, StateOK', EchoInv, NEW d \in Device, Note(d)
  PROVE  EchoInv'
<1>1. pc[d] = "note" /\ UNCHANGED <<log, disk, stash, edits, faults>>
  BY DEF Note, Files
<1>2. Cardinality(Versions') = Cardinality(Versions) + 0 /\ Grows
  BY <1>1, VersionsSame, LogGrows
<1>3. /\ \A e \in Device \ {d} : pc'[e] = pc[e] /\ job'[e] = job[e] /\ entry'[e] = entry[e]
      /\ pc'[d] \in Waits \cup {"decide"}
      /\ pc'[d] = "decide" => job[d].why = "put"
  <2>1. \A e \in Device \ {d} : entry'[e] = entry[e]
    BY Known DEF Note, StateOK
  <2>2. CASE Goto(d, "advance") /\ UNCHANGED job
    BY <2>1, <2>2, Known DEF Goto, Waits
  <2>3. CASE job[d].why = "put" /\ Goto(d, "decide") /\ UNCHANGED job
    BY <2>1, <2>3, Known DEF Goto, Waits
  <2>4. CASE job[d].why = "delete" /\ BeginRescan(d, job[d].via, job[d].rounds - 1)
    <3>1. job[d].via \in Via /\ job[d].rounds - 1 \in 0 .. 3
      BY <1>1, <2>4, Known DEF Staged, Job
    <3>2. pc'[d] \in Waits /\ Moves(d)
      BY <2>4, <3>1, Known, EndsWaiting
    <3> QED
      BY <2>1, <3>2 DEF Moves, Waits
  <2> QED
    BY <2>2, <2>3, <2>4 DEF Note
<1>4. Apart(d)
  BY <1>1, <1>2, <1>3 DEF Apart
<1>5. Unsent(d)' => Unsent(d)
  <2>1. Unsent(d)' => disk'[d] # entry'[d].content
    BY <1>3 DEF Unsent, Plain, Waits
  <2>2. CASE Main(job[d].at)
    <3>1. entry'[d].content = log[job[d].at].content
      BY <2>2, Known DEF Note, EntryOf, StateOK
    <3> QED
      BY <1>1, <2>1, <2>2, <3>1 DEF Unsent
  <2>3. CASE ~Main(job[d].at)
    <3>1. entry'[d] = entry[d]
      BY <2>3 DEF Note
    <3> QED
      BY <1>1, <2>1, <2>3, <3>1 DEF Unsent, Plain
  <2> QED
    BY <2>2, <2>3
<1>6. Resolves(d)' => Resolves(d)
  BY <1>1, <1>3 DEF Resolves, Waits
<1>7. Debt(d)' + 0 <= Debt(d)
  BY <1>5, <1>6 DEF Debt
<1> QED
  BY <1>1, <1>2, <1>4, <1>7, GoesOnPaid

-----------------------------------------------------------------------------
\* Rescan: what differs from the entry is submitted, and what is accepted is
\* settled.
LEMMA EchoScan ==
  ASSUME SyncInv, StateOK', EchoInv, NEW d \in Device, Scan(d)
  PROVE  EchoInv'
<1>1. pc[d] = "scan" /\ UNCHANGED <<log, disk, entry, stash, edits, faults>>
  BY DEF Scan, Files, Tables
<1>2. Cardinality(Versions') = Cardinality(Versions) + 0 /\ Grows
  BY <1>1, VersionsSame, LogGrows
<1>3. pc[d] \in Waits
  BY <1>1 DEF Waits
<1>4. CASE FinishRescan(d)
  <2>1. pc'[d] \in Waits /\ Moves(d)
    BY <1>4, Known, EndsWaiting
  <2>2. Apart(d)
    BY <1>1, <1>2, <2>1, MovesApart
  <2>3. DiskDebt(d)' = DiskDebt(d)
    BY <1>1 DEF DiskDebt
  <2>4. Debt(d)' + 0 <= Debt(d)
    BY <1>3, <2>1, <2>3, WaitingDebt
  <2> QED
    BY <1>1, <1>2, <2>2, <2>4, GoesOnPaid
<1>5. CASE /\ disk[d] # entry[d].content
           /\ job' = [job EXCEPT ![d].item = disk[d]] /\ Goto(d, "submit")
  <2>1. pc'[d] = "submit" /\ \A e \in Device \ {d} : pc'[e] = pc[e] /\ job'[e] = job[e]
    BY <1>5, Known DEF Goto
  <2>2. job'[d].item = disk[d]
    <3>1. [job[d] EXCEPT !.item = disk[d]].item = disk[d]
      BY Known DEF Job
    <3> QED
      BY <1>5, <3>1, Known
  <2>3. Apart(d)
    BY <1>1, <1>2, <2>1 DEF Apart
  <2>4. Debt(d) = 1
    BY <1>3, <1>5, WaitingDebt DEF DiskDebt
  <2>5. ~Unsent(d)'
    BY <1>1, <2>1, <2>2 DEF Unsent, Plain
  <2>6. Debt(d)' + 0 <= Debt(d)
    BY <2>4, <2>5 DEF Debt
  <2> QED
    BY <1>1, <1>2, <2>3, <2>6, GoesOnPaid
<1> QED
  BY <1>4, <1>5 DEF Scan

\* What an accepted submission leaves in hand.
LEMMA AcceptedDebt ==
  ASSUME SyncInv, NEW d \in Device, NEW c \in File, NEW why \in Why,
         job' = [job EXCEPT ![d] = ItemAt(job[d], c, Len(log) + 1, why)],
         Goto(d, "record"), UNCHANGED <<disk, entry, stash>>, Grows
  PROVE  /\ Apart(d)
         /\ Debt(d)' = IF why \in {"found", "copy"} THEN DiskDebt(d)
                       ELSE IF disk[d] # c THEN 1 ELSE 0
<1>1. Moves(d) /\ pc'[d] = "record" /\ job'[d].why = why /\ job'[d].item = c
  BY AcceptedTypes
<1>2. ~Resolves(d)'
  BY <1>1 DEF Resolves
<1>3. CASE why \in {"found", "copy"}
  <2>1. Unsent(d)' <=> disk[d] # entry[d].content
    BY <1>1, <1>3 DEF Unsent, Plain
  <2> QED
    BY <1>1, <1>2, <1>3, <2>1, MovesApart DEF Debt, DiskDebt
<1>4. CASE why \notin {"found", "copy"}
  <2>1. Unsent(d)' <=> disk[d] # c
    BY <1>1, <1>4 DEF Unsent, Plain
  <2> QED
    BY <1>1, <1>2, <1>4, <2>1, MovesApart DEF Debt
<1> QED
  BY <1>3, <1>4

\* A conflict copy that is shared settles nothing.
LEMMA EchoSubmitFound ==
  ASSUME SyncInv, StateOK', EchoInv, NEW d \in Device, SubmitFound(d)
  PROVE  EchoInv'
<1>1. pc[d] \in Waits /\ UNCHANGED <<disk, entry, stash, edits>>
  BY DEF SubmitFound, Waits, Files
<1>2. PICK c \in copies[d] \ noted[d] :
        \/ UNCHANGED <<log, pc, job, faults>>
        \/ /\ Accept(d, "copy", c)
           /\ job' = [job EXCEPT ![d].item = c, ![d].at = Len(log) + 1,
                                 ![d].why = "found"]
           /\ Goto(d, "record")
           /\ UNCHANGED faults
        \/ /\ \/ Broken("submit") /\ UNCHANGED log
              \/ Broken("reply") /\ Accept(d, "copy", c)
           /\ SubmitFails(d)
  BY DEF SubmitFound
<1>3. c \in Content /\ c \in File
  BY Known DEF StateOK, File
<1>4. Cardinality(Versions') = Cardinality(Versions) + 0 /\ Grows
  BY <1>2, <1>3, VersionsSame, CopyNoVersion, LogGrows
<1>5. CASE UNCHANGED <<log, pc, job, faults>>
  BY <1>1, <1>5, SamePaid
<1>6. CASE /\ Accept(d, "copy", c)
           /\ job' = [job EXCEPT ![d].item = c, ![d].at = Len(log) + 1,
                                 ![d].why = "found"]
           /\ Goto(d, "record")
           /\ UNCHANGED faults
  <2>1. job' = [job EXCEPT ![d] = ItemAt(job[d], c, Len(log) + 1, "found")]
    BY <1>6 DEF ItemAt
  <2>2. Apart(d) /\ Debt(d)' = DiskDebt(d)
    BY <1>1, <1>3, <1>4, <1>6, <2>1, AcceptedDebt DEF Why
  <2>3. Debt(d)' + 0 <= Debt(d)
    BY <1>1, <2>2, WaitingDebt
  <2> QED
    BY <1>1, <1>4, <1>6, <2>2, <2>3, GoesOnPaid
<1>7. CASE /\ \/ Broken("submit") /\ UNCHANGED log
              \/ Broken("reply") /\ Accept(d, "copy", c)
           /\ SubmitFails(d)
  <2>1. pc'[d] \in Waits /\ Moves(d)
    BY <1>7, Known, EndsWaiting
  <2>2. Apart(d)
    BY <1>1, <1>4, <2>1, MovesApart
  <2> QED
    BY <1>1, <1>4, <1>7, <2>1, <2>2, FaultCounts, EndsPaid
<1> QED
  BY <1>2, <1>5, <1>6, <1>7

\* An accepted submission settles what the scan had found.
LEMMA EchoSubmit ==
  ASSUME SyncInv, StateOK', EchoInv, NEW d \in Device, Submit(d)
  PROVE  EchoInv'
<1> DEFINE delete == job[d].item = None
           bytes == IF delete THEN None ELSE disk[d]
           vanished == ~delete /\ disk[d] = None
           kind == IF bytes = None THEN "delete" ELSE "put"
<1>1. pc[d] = "submit" /\ Resolves(d) /\ UNCHANGED <<disk, entry, stash, edits>>
  BY DEF Submit, Resolves
<1>2. bytes \in File /\ kind \in {"put", "delete"}
  BY Known DEF File
<1>3. Debt(d) = IF delete /\ disk[d] # None THEN 2 ELSE 1
  <2>1. Unsent(d) <=> delete /\ disk[d] # None
    BY <1>1 DEF Unsent, Plain
  <2> QED
    BY <1>1, <2>1, ResolvingDebt
<1>4. AcceptMain(d, bytes) =>
        Cardinality(Versions') = Cardinality(Versions) + 1 /\ Grows
  <2>1. AcceptMain(d, bytes) => Accept(d, kind, bytes)
    BY DEF AcceptMain
  <2> HIDE DEF kind, bytes
  <2> QED
    BY <1>2, <2>1, VersionAdded, LogGrows
<1>5. UNCHANGED log => Cardinality(Versions') = Cardinality(Versions) + 0 /\ Grows
  BY VersionsSame, LogGrows
<1>6. faults' = faults => faults' = faults + 0
  <2>1. faults \in 0 .. MaxFaults
    BY Known DEF StateOK
  <2> QED
    BY <2>1, ConstantsAssumption
<1>7. CASE Fail(d) /\ UNCHANGED <<log, faults>>
  <2>1. pc'[d] \in Waits /\ Moves(d)
    BY <1>7, Known, EndsWaiting
  <2>2. Apart(d)
    BY <1>1, <1>5, <1>7, <2>1, MovesApart
  <2> QED
    BY <1>1, <1>5, <1>6, <1>7, <2>1, <2>2, EndsPaid
<1>8. CASE /\ job' = [job EXCEPT ![d].at = PathHead, ![d].why =
                         IF delete THEN "delete" ELSE "put"]
           /\ Goto(d, IF delete THEN "head" ELSE "stage")
           /\ UNCHANGED <<log, faults>>
  <2> DEFINE why == IF delete THEN "delete" ELSE "put"
  <2>1. /\ pc'[d] = (IF delete THEN "head" ELSE "stage")
        /\ \A e \in Device \ {d} : pc'[e] = pc[e] /\ job'[e] = job[e]
    BY <1>8, Known DEF Goto
  <2>2. job'[d].why = why
    <3>1. [job[d] EXCEPT !.at = PathHead, !.why = why].why = why
      BY Known DEF Job
    <3> QED
      BY <1>8, <3>1, Known
  <2>3. Apart(d)
    BY <1>1, <1>5, <1>8, <2>1 DEF Apart
  <2>4. Unsent(d)' => delete /\ disk[d] # None
    BY <1>1, <2>1, <2>2 DEF Unsent, Plain
  <2>5. Debt(d)' + 0 <= Debt(d)
    BY <1>3, <2>4 DEF Debt
  <2> QED
    BY <1>1, <1>5, <1>8, <2>3, <2>5, GoesOnPaid
<1>9. CASE /\ AcceptMain(d, bytes)
           /\ job' = [job EXCEPT ![d].item = bytes, ![d].at = Len(log) + 1,
                                 ![d].why = "scan"]
           /\ Goto(d, "record")
           /\ UNCHANGED faults
  <2>1. disk[d] # bytes <=> delete /\ disk[d] # None
    OBVIOUS
  <2>2. job' = [job EXCEPT ![d] = ItemAt(job[d], bytes, Len(log) + 1, "scan")]
    BY <1>9 DEF ItemAt
  <2> HIDE DEF bytes
  <2>3. /\ Apart(d)
        /\ Debt(d)' = IF disk[d] # bytes THEN 1 ELSE 0
    BY <1>1, <1>2, <1>4, <1>9, <2>2, AcceptedDebt DEF Why
  <2>4. Debt(d)' + 1 <= Debt(d)
    BY <1>3, <2>1, <2>3
  <2> QED
    BY <1>1, <1>4, <1>9, <2>3, <2>4, GoesOnPaid
<1>10. CASE /\ \/ Broken("submit") /\ UNCHANGED log
               \/ Broken("reply") /\ AcceptMain(d, bytes)
            /\ SubmitFails(d)
  <2>1. pc'[d] \in Waits /\ Moves(d)
    BY <1>10, Known, EndsWaiting
  <2>2. Grows
    BY <1>4, <1>5, <1>10
  <2>3. Apart(d)
    BY <1>1, <2>1, <2>2, MovesApart
  <2>4. faults' = faults + 1
    BY <1>10, FaultCounts
  <2>5. \/ Cardinality(Versions') = Cardinality(Versions) + 0
        \/ Cardinality(Versions') = Cardinality(Versions) + 1
    BY <1>4, <1>5, <1>10
  <2> QED
    BY <1>1, <2>1, <2>3, <2>4, <2>5, EndsPaid
<1> QED
  BY <1>7, <1>8, <1>9, <1>10 DEF Submit

\* The entry becomes what was submitted; an edit since then is still owed.
LEMMA EchoRecord ==
  ASSUME SyncInv, StateOK', EchoInv, NEW d \in Device, Record(d)
  PROVE  EchoInv'
<1>1. pc[d] = "record" /\ UNCHANGED <<log, disk, edits, faults>>
  BY DEF Record
<1>2. Cardinality(Versions') = Cardinality(Versions) + 0 /\ Grows
  BY <1>1, VersionsSame, LogGrows
<1>3. pc'[d] \in Waits /\ Moves(d)
  <2>1. job[d].via \in Via /\ job[d].rounds \in 0 .. 3
    BY Known DEF Job
  <2> QED
    BY <2>1, Known, EndsWaiting DEF Record
<1>4. \A e \in Device \ {d} : stash'[e] = stash[e] /\ entry'[e] = entry[e]
  BY Known DEF Record, StateOK
<1>5. Apart(d)
  BY <1>1, <1>2, <1>3, <1>4, MovesApart
<1>6. DiskDebt(d)' <= Debt(d)
  <2>1. CASE job[d].why \in {"found", "copy"}
    <3>1. entry' = entry
      BY <2>1 DEF Record
    <3>2. Unsent(d) <=> disk[d] # entry[d].content
      BY <1>1, <2>1 DEF Unsent, Plain
    <3> QED
      BY <1>1, <3>1, <3>2, WaitingDebt DEF DiskDebt, Debt
  <2>2. CASE job[d].why \notin {"found", "copy"}
    <3>1. entry'[d].content = job[d].item
      BY <2>2, Known DEF Record, StateOK
    <3>2. Unsent(d) <=> disk[d] # job[d].item
      BY <1>1, <2>2 DEF Unsent, Plain
    <3> QED
      BY <1>1, <3>1, <3>2, WaitingDebt DEF DiskDebt, Debt
  <2> QED
    BY <2>1, <2>2
<1>7. Debt(d)' + 0 <= Debt(d)
  BY <1>3, <1>6, WaitingDebt
<1> QED
  BY <1>1, <1>2, <1>5, <1>7, GoesOnPaid

-----------------------------------------------------------------------------
\* Conflict: as long as the local version may win, it is owed.
LEMMA EchoStage ==
  ASSUME SyncInv, StateOK', EchoInv, NEW d \in Device, Stage(d)
  PROVE  EchoInv'
<1>1. pc[d] = "stage" /\ UNCHANGED <<log, disk, entry, edits, faults>> /\ Resolves(d)
  BY DEF Stage, Resolves
<1>2. Cardinality(Versions') = Cardinality(Versions) + 0 /\ Grows
  BY <1>1, VersionsSame, LogGrows
<1>3. faults' = faults + 0
  <2>1. faults \in 0 .. MaxFaults
    BY Known DEF StateOK
  <2> QED
    BY <1>1, <2>1, ConstantsAssumption
<1>4. CASE Fail(d) /\ UNCHANGED stash
  <2>1. pc'[d] \in Waits /\ Moves(d)
    BY <1>4, Known, EndsWaiting
  <2>2. Apart(d)
    BY <1>1, <1>2, <1>4, <2>1, MovesApart
  <2> QED
    BY <1>1, <1>2, <1>3, <2>1, <2>2, EndsPaid
<1>5. CASE /\ stash' = [stash EXCEPT ![d] = disk[d]]
           /\ job' = [job EXCEPT ![d].baseline = entry[d].content,
                                 ![d].seen = seen[d]]
           /\ Goto(d, "head")
  <2>1. pc'[d] = "head" /\ \A e \in Device \ {d} : pc'[e] = pc[e] /\ job'[e] = job[e]
    BY <1>5, Known DEF Goto
  <2>2. job'[d].why = "put"
    <3>1. job[d].why = "put"
      BY <1>1, Known DEF Staged
    <3>2. [job[d] EXCEPT !.baseline = entry[d].content, !.seen = seen[d]].why = job[d].why
      BY Known DEF Job
    <3> QED
      BY <1>5, <3>1, <3>2, Known
  <2>3. stash'[d] = disk[d] /\ \A e \in Device \ {d} : stash'[e] = stash[e]
    BY <1>5, Known
  <2>4. Apart(d)
    BY <1>1, <1>2, <2>1, <2>3 DEF Apart
  <2>5. ~Unsent(d)'
    BY <1>1, <2>1, <2>2, <2>3 DEF Unsent, Plain
  <2>6. Debt(d)' + 0 <= Debt(d)
    BY <1>1, <2>5, ResolvingDebt DEF Debt
  <2> QED
    BY <1>1, <1>2, <2>4, <2>6, GoesOnPaid
<1> QED
  BY <1>4, <1>5 DEF Stage

\* The head has arrived, or the resolution is given up.
LEMMA EchoFetchHead ==
  ASSUME SyncInv, StateOK', EchoInv, NEW d \in Device, FetchHead(d)
  PROVE  EchoInv'
<1>1. pc[d] = "head" /\ UNCHANGED <<log, entry, edits>>
  BY DEF FetchHead
<1>2. Cardinality(Versions') = Cardinality(Versions) + 0 /\ Grows
  BY <1>1, VersionsSame, LogGrows
<1>3. CASE Goto(d, "place") /\ UNCHANGED <<disk, stash, job, faults>>
  <2>1. pc'[d] = "place" /\ \A e \in Device \ {d} : pc'[e] = pc[e] /\ job'[e] = job[e]
    BY <1>3, Known DEF Goto
  <2>2. Apart(d)
    BY <1>1, <1>2, <1>3, <2>1 DEF Apart
  <2>3. job[d].why \in {"put", "delete"}
    BY <1>1, Known DEF Staged
  <2>4. Resolves(d)' => Resolves(d)
    BY <1>1, <1>3, <2>1 DEF Resolves
  <2>5. Unsent(d)' => Unsent(d)
    BY <1>1, <1>3, <2>1, <2>3 DEF Unsent, Plain
  <2>6. Debt(d)' + 0 <= Debt(d)
    BY <2>4, <2>5 DEF Debt
  <2> QED
    BY <1>1, <1>2, <1>3, <2>2, <2>6, GoesOnPaid
<1>4. CASE Broken("head") /\ GiveUp(d)
  BY <1>1, <1>2, <1>4, GivesUp, FaultCounts, EndsPaid
<1> QED
  BY <1>3, <1>4 DEF FetchHead

\* A version that lost stays at most on the disk.
LEMMA CopyPaid ==
  ASSUME SyncInv, StateOK', EchoInv, NEW d \in Device, Resolves(d),
         WriteConflictCopy(d), UNCHANGED <<log, entry, edits, faults>>
  PROVE  EchoInv'
<1>1. Cardinality(Versions') = Cardinality(Versions) + 0 /\ Grows
  BY VersionsSame, LogGrows
<1>2. pc'[d] = "copy" /\ \A e \in Device \ {d} : pc'[e] = pc[e] /\ job'[e] = job[e]
  BY Known DEF WriteConflictCopy, Goto
<1>3. Apart(d)
  BY <1>1, <1>2 DEF WriteConflictCopy, Apart
<1>4. ~Resolves(d)'
  BY <1>2 DEF Resolves
<1>5. Debt(d)' + 0 <= Debt(d)
  BY <1>4, ResolvingDebt DEF Debt
<1> QED
  BY <1>1, <1>3, <1>5, GoesOnPaid

\* The local version returns to the disk, is owed still, or has lost.
LEMMA EchoDecide ==
  ASSUME SyncInv, StateOK', EchoInv, NEW d \in Device, Decide(d)
  PROVE  EchoInv'
<1>1. /\ pc[d] = "decide" /\ UNCHANGED <<log, entry, edits, faults>> /\ Resolves(d)
      /\ stash[d] \in Content
  BY Known DEF Decide, Resolves, Tables, Staged
<1>2. Cardinality(Versions') = Cardinality(Versions) + 0 /\ Grows
  BY <1>1, VersionsSame, LogGrows
<1>3. faults' = faults + 0
  <2>1. faults \in 0 .. MaxFaults
    BY Known DEF StateOK
  <2> QED
    BY <1>1, <2>1, ConstantsAssumption
<1>4. CASE WriteConflictCopy(d)
  BY <1>1, <1>4, CopyPaid
<1>5. CASE /\ Resolved(d) /\ stash' = [stash EXCEPT ![d] = None]
           /\ Restore(d) \/ UNCHANGED disk
  <2>1. pc'[d] \in Waits /\ Moves(d)
    BY <1>5, Known, EndsWaiting
  <2>2. \A e \in Device \ {d} : stash'[e] = stash[e] /\ disk'[e] = disk[e]
    BY <1>5, Known DEF Restore
  <2>3. Apart(d)
    BY <1>1, <1>2, <2>1, <2>2, MovesApart
  <2> QED
    BY <1>1, <1>2, <1>3, <2>1, <2>3, EndsPaid
<1>6. CASE Restore(d) /\ Goto(d, "newer") /\ UNCHANGED <<stash, job>>
  <2>1. /\ pc'[d] = "newer"
        /\ \A e \in Device \ {d} : pc'[e] = pc[e] /\ job'[e] = job[e] /\ disk'[e] = disk[e]
        /\ disk'[d] = stash[d]
    BY <1>6, Known DEF Goto, Restore
  <2>2. Apart(d)
    BY <1>1, <1>2, <1>6, <2>1 DEF Apart
  <2>3. ~Unsent(d)'
    BY <1>6, <2>1 DEF Unsent, Plain
  <2>4. Debt(d)' + 0 <= Debt(d)
    BY <1>1, <2>3, ResolvingDebt DEF Debt
  <2> QED
    BY <1>1, <1>2, <2>2, <2>4, GoesOnPaid
<1> QED
  BY <1>4, <1>5, <1>6 DEF Decide

\* The newer local version is accepted, or loses another race.
LEMMA EchoSubmitNewer ==
  ASSUME SyncInv, StateOK', EchoInv, NEW d \in Device, SubmitNewer(d)
  PROVE  EchoInv'
<1>1. pc[d] = "newer" /\ UNCHANGED <<entry, edits>> /\ Resolves(d) /\ disk[d] \in File
  BY Known DEF SubmitNewer, Resolves
<1>2. UNCHANGED log => Cardinality(Versions') = Cardinality(Versions) + 0 /\ Grows
  BY VersionsSame, LogGrows
<1>3. Accept(d, "put", disk[d]) =>
        Cardinality(Versions') = Cardinality(Versions) + 1 /\ Grows
  BY <1>1, VersionAdded, LogGrows
<1>4. CASE GiveUp(d) /\ UNCHANGED <<log, faults>>
  <2>1. pc'[d] \in Waits /\ Apart(d)
    BY <1>1, <1>2, <1>4, GivesUp
  <2>2. faults' = faults + 0
    <3>1. faults \in 0 .. MaxFaults
      BY Known DEF StateOK
    <3> QED
      BY <1>4, <3>1, ConstantsAssumption
  <2> QED
    BY <1>1, <1>2, <1>4, <2>1, <2>2, EndsPaid
<1>5. CASE WriteConflictCopy(d) /\ UNCHANGED <<log, faults>>
  BY <1>1, <1>5, CopyPaid
<1>6. CASE /\ AcceptMain(d, disk[d]) /\ disk[d] # None
           /\ job' = [job EXCEPT ![d].item = disk[d], ![d].at = Len(log) + 1,
                                 ![d].why = "newer"]
           /\ Goto(d, "record")
           /\ UNCHANGED <<disk, stash, faults>>
  <2>1. Accept(d, "put", disk[d])
    BY <1>6 DEF AcceptMain
  <2>2. job' = [job EXCEPT ![d] = ItemAt(job[d], disk[d], Len(log) + 1, "newer")]
    BY <1>6 DEF ItemAt
  <2>3. Apart(d) /\ Debt(d)' = 0
    BY <1>1, <1>3, <1>6, <2>1, <2>2, AcceptedDebt DEF Why
  <2>4. Debt(d)' + 1 <= Debt(d)
    BY <1>1, <2>3, ResolvingDebt
  <2> QED
    BY <1>1, <1>3, <1>6, <2>1, <2>3, <2>4, GoesOnPaid
<1>7. CASE /\ \/ Broken("submit") /\ UNCHANGED log
              \/ Broken("reply") /\ Accept(d, "put", disk[d])
           /\ GiveUp(d)
  <2>1. Grows
    BY <1>2, <1>3, <1>7
  <2>2. pc'[d] \in Waits /\ Apart(d)
    BY <1>1, <1>7, <2>1, GivesUp
  <2>3. faults' = faults + 1
    BY <1>7, FaultCounts
  <2>4. \/ Cardinality(Versions') = Cardinality(Versions) + 0
        \/ Cardinality(Versions') = Cardinality(Versions) + 1
    BY <1>2, <1>3, <1>7
  <2> QED
    BY <1>1, <2>2, <2>3, <2>4, EndsPaid
<1> QED
  BY <1>4, <1>5, <1>6, <1>7 DEF SubmitNewer

\* The copy is shared; the head's version is on the disk.
LEMMA EchoSubmitCopy ==
  ASSUME SyncInv, StateOK', EchoInv, NEW d \in Device, SubmitCopy(d)
  PROVE  EchoInv'
<1>1. /\ pc[d] = "copy" /\ UNCHANGED <<entry, edits>>
      /\ stash[d] \in Content /\ stash[d] \in File
  BY Known DEF SubmitCopy, Staged
<1>2. Cardinality(Versions') = Cardinality(Versions) + 0 /\ Grows
  <2>1. UNCHANGED log \/ Accept(d, "copy", stash[d])
    BY DEF SubmitCopy
  <2> QED
    BY <1>1, <2>1, VersionsSame, CopyNoVersion, LogGrows
<1>3. CASE /\ job' = [job EXCEPT ![d].item = stash[d], ![d].at = Len(log) + 1,
                                 ![d].why = "copy"]
           /\ Goto(d, "record")
           /\ UNCHANGED <<disk, stash, faults>>
  <2>1. job' = [job EXCEPT ![d] = ItemAt(job[d], stash[d], Len(log) + 1, "copy")]
    BY <1>3 DEF ItemAt
  <2>2. Apart(d) /\ Debt(d)' = DiskDebt(d)
    BY <1>1, <1>2, <1>3, <2>1, AcceptedDebt DEF Why
  <2>3. Unsent(d) <=> disk[d] # entry[d].content
    BY <1>1 DEF Unsent, Plain
  <2>4. Debt(d)' + 0 <= Debt(d)
    BY <2>2, <2>3 DEF Debt, DiskDebt
  <2> QED
    BY <1>1, <1>2, <1>3, <2>2, <2>4, GoesOnPaid
<1>4. CASE Broken("copy") /\ GiveUp(d)
  BY <1>1, <1>2, <1>4, GivesUp, FaultCounts, EndsPaid
<1> QED
  BY <1>3, <1>4 DEF SubmitCopy

-----------------------------------------------------------------------------
\* Nobody owes anything initially, and the log has the one version.
LEMMA EchoInit == ASSUME Init PROVE EchoInv
<1> DEFINE d0 == CHOOSE d \in Device : TRUE
           c0 == CHOOSE c \in Content : TRUE
           first == [kind |-> "put", by |-> d0, content |-> c0]
<1>1. log = <<first>> /\ first.kind = "put"
  BY DEF Init
<1>2. edits = 0 /\ faults = 0
  BY DEF Init
<1>3. Versions = {1}
  BY <1>1 DEF Versions, Main
<1>4. Cardinality(Versions) = 1
  BY <1>3, FS_Singleton
<1>5. Owed = {}
  <2>1. ASSUME NEW d \in Device PROVE ~Resolves(d) /\ ~Unsent(d)
    <3>1. /\ pc[d] = "down" /\ disk[d] = c0 /\ entry[d] = [seq |-> 1, content |-> c0]
      BY DEF Init
    <3> QED
      BY <3>1 DEF Resolves, Unsent, Plain
  <2> QED
    BY <2>1 DEF Owed
<1>6. IsFiniteSet(Owed) /\ Cardinality(Owed) = 0
  BY <1>5, FS_EmptySet
<1> QED
  BY <1>2, <1>4, <1>6 DEF EchoInv

\* Every step is paid.
LEMMA EchoNext == SyncInv /\ EchoInv /\ [Next]_vars => EchoInv'
<1> SUFFICES ASSUME SyncInv, EchoInv, [Next]_vars PROVE EchoInv'
  OBVIOUS
<1>1. StateOK'
  BY SyncNext DEF SyncInv
<1>2. ASSUME NEW d \in Device, Daemon(d) PROVE EchoInv'
  <2>1. CASE CatchUpStep(d)
    BY <1>1, <2>1, EchoBegins, EchoConsumeEvent, EchoPlace, EchoNote DEF CatchUpStep
  <2>2. CASE RescanStep(d)
    BY <1>1, <2>2, EchoSubmitFound, EchoScan, EchoSubmit, EchoRecord, EchoBegins
       DEF RescanStep
  <2>3. CASE ConflictStep(d)
    BY <1>1, <2>3, EchoStage, EchoFetchHead, EchoDecide, EchoSubmitNewer, EchoSubmitCopy
       DEF ConflictStep
  <2> QED
    BY <1>1, <1>2, <2>1, <2>2, <2>3, EchoBegins DEF Daemon
<1>3. ASSUME NEW d \in Device,
             UserEdits(d) \/ Drop(d) \/ PendingFallsDue(d) \/ Crash(d)
             \/ Watch(d) \/ Hint(d) \/ RetryPending(d)
      PROVE  EchoInv'
  BY <1>1, <1>3, EchoUserEdits, EchoAside, EchoCrash, EchoBegins
<1>4. CASE UNCHANGED vars
  BY <1>1, <1>4, SamePaid DEF vars
<1> QED
  BY <1>2, <1>3, <1>4 DEF Next

\* Devices do not echo each other: whatever conflicts, lost answers, crashes
\* and replays there are, the versions of the file are no more than the first
\* one and those that the edits and the faults account for.
THEOREM VersionsAreAccountedFor == Spec => []NoEcho
<1>1. Init => SyncInv /\ EchoInv
  BY SyncInit, EchoInit
<1>2. SyncInv /\ EchoInv => NoEcho
  <2> SUFFICES ASSUME SyncInv, EchoInv PROVE NoEcho
    OBVIOUS
  <2>1. edits \in Nat /\ faults \in Nat /\ log \in Seq(Event)
    <3>1. edits \in 0 .. MaxEdits /\ faults \in 0 .. MaxFaults /\ log \in Seq(Event)
      BY DEF SyncInv, StateOK
    <3> QED
      BY <3>1, ConstantsAssumption
  <2>2. Cardinality(Versions) \in Nat /\ Cardinality(Owed) \in Nat
    BY <2>1, VersionsFinite, FS_CardinalityType DEF EchoInv
  <2> QED
    BY <2>1, <2>2 DEF EchoInv, NoEcho
<1> QED
  BY <1>1, <1>2, SyncNext, EchoNext, PTL DEF Spec

-----------------------------------------------------------------------------
(***************************************************************************)
(* No silent overwrite.  The history variable seen is the event that the   *)
(* bytes on a device's disk are or derive from.  The argument is that the  *)
(* entry, which is the base of the next submission, is no news to a user   *)
(* who had that event on his disk: between the two writes of an applied    *)
(* event the disk is ahead of the entry, and the local version that a      *)
(* conflict has staged keeps what was known when it was staged.            *)
(***************************************************************************)

Crashed == "crash" \in Breaks /\ faults > 0

\* c is a content that a user has seen who has seen s, or is to see it replayed.
NoNews(d, c, s) ==
  /\ s \in 1 .. Len(log) /\ Main(s)
  /\ \/ c \in {None} \cup Before(s)
     \/ Crashed /\ s = cursor[d] + 1 /\ log[s].by # d

\* The entry is no news, except between the disk and the entry of an event.
OnDisk(d) ==
  \/ pc[d] = "note" /\ Main(job[d].at)
  \/ NoNews(d, entry[d].content, seen[d])

\* What has been written to the disk or accepted is what the user has.
Applying(d) ==
  /\ pc[d] \in {"note", "advance"} /\ Main(job[d].at) => seen[d] = job[d].at
  /\ pc[d] = "advance" /\ Main(job[d].at) => entry[d].seq = job[d].at
  /\ pc[d] \in {"place", "note"} /\ job[d].why = "page"
     /\ log[job[d].at].by = d /\ Main(job[d].at) => entry[d].seq < job[d].at
  /\ pc[d] = "record" /\ job[d].why \notin {"found", "copy"} => seen[d] = job[d].at

\* A staged version comes with what the device knew when its user had it.
InConflict == {"head", "place", "note", "decide", "newer", "copy", "record"}
Resolving(d) ==
  stash[d] # None =>
    /\ pc[d] \in InConflict /\ job[d].why \in {"put", "newer", "copy"}
    /\ NoNews(d, job[d].baseline, job[d].seen)
    /\ pc[d] \in {"head", "place", "note", "newer"} => entry[d].content = job[d].baseline

Honest(d) == OnDisk(d) /\ Applying(d) /\ Resolving(d)
BaseInv == \A d \in Device : Honest(d)

\* Faults are counted in numbers.
LEMMA FaultsNat == ASSUME StateOK PROVE faults \in Nat
<1>1. faults \in 0 .. MaxFaults
  BY DEF StateOK
<1> QED
  BY <1>1, ConstantsAssumption

\* What the file had is history.
LEMMA BeforeStays ==
  ASSUME SyncInv, Grows, NEW s \in 1 .. Len(log)
  PROVE  Before(s)' = Before(s)
<1>1. /\ Len(log) \in Nat /\ Len(log) <= Len(log')
      /\ \A t \in 1 .. Len(log) : log'[t] = log[t]
  BY EventsStay
<1>2. \A t \in 1 .. s : log'[t] = log[t]
  BY <1>1
<1> QED
  BY <1>2 DEF Before, Main

\* What a device knows it goes on knowing, as long as its cursor stays.
LEMMA NoNewsStays ==
  ASSUME SyncInv, Grows, faults \in Nat, faults' \in Nat, faults <= faults',
         NEW d \in Device, cursor'[d] = cursor[d], NEW c, NEW s, NoNews(d, c, s)
  PROVE  NoNews(d, c, s)'
<1>1. /\ Len(log) \in Nat /\ Len(log') \in Nat /\ Len(log) <= Len(log')
      /\ \A t \in 1 .. Len(log) : log'[t] = log[t]
  BY EventsStay
<1>2. s \in 1 .. Len(log) /\ s \in 1 .. Len(log') /\ Main(s)
  BY <1>1 DEF NoNews
<1>3. log'[s] = log[s] /\ Before(s)' = Before(s)
  BY <1>1, <1>2, BeforeStays
<1>4. Main(s)'
  BY <1>2, <1>3 DEF Main
<1>5. CASE c \in {None} \cup Before(s)
  BY <1>2, <1>3, <1>4, <1>5 DEF NoNews
<1>6. CASE Crashed /\ s = cursor[d] + 1 /\ log[s].by # d
  <2>1. Crashed'
    BY <1>6 DEF Crashed
  <2> QED
    BY <1>2, <1>3, <1>4, <1>6, <2>1 DEF NoNews
<1> QED
  BY <1>5, <1>6 DEF NoNews

\* The entry's content is one that the file had up to any later event.
LEMMA EntryIsBefore ==
  ASSUME SyncInv, NEW d \in Device, NEW s \in 1 .. Len(log), Main(s),
         entry[d].seq <= s
  PROVE  NoNews(d, entry[d].content, s)
<1>1. /\ entry[d].seq \in 1 .. Len(log) /\ Main(entry[d].seq) /\ Len(log) \in Nat
      /\ entry[d].content = log[entry[d].seq].content
  BY Known DEF EntryIsEvent
<1>2. entry[d].content \in Before(s)
  BY <1>1 DEF Before
<1> QED
  BY <1>2 DEF NoNews

\* A device that does not take the step.
LEMMA OthersHonest ==
  ASSUME SyncInv, Grows, faults \in Nat, faults' \in Nat, faults <= faults',
         NEW e \in Device, Honest(e),
         pc'[e] = pc[e], job'[e] = job[e], entry'[e] = entry[e],
         cursor'[e] = cursor[e], stash'[e] = stash[e], seen'[e] = seen[e]
  PROVE  Honest(e)'
<1>1. /\ Len(log) \in Nat /\ Len(log') \in Nat /\ Len(log) <= Len(log')
      /\ \A s \in 1 .. Len(log) : log'[s] = log[s]
  BY EventsStay
<1>2. pc[e] \in {"place", "note", "advance"} =>
        job[e].at \in 1 .. Len(log)
  <2>1. cursor[e] \in Nat /\ AboutTo(e)
    BY Known DEF StateOK
  <2> QED
    BY <1>1, <2>1 DEF AboutTo
<1>3. pc[e] \in {"place", "note", "advance"} => log'[job[e].at] = log[job[e].at]
  BY <1>1, <1>2
<1>4. OnDisk(e)'
  <2>1. CASE pc[e] = "note" /\ Main(job[e].at)
    BY <1>3, <2>1 DEF OnDisk, Main
  <2>2. CASE NoNews(e, entry[e].content, seen[e])
    <3>1. NoNews(e, entry[e].content, seen[e])'
      <4> DEFINE c == entry[e].content
                 s == seen[e]
      <4>1. NoNews(e, c, s)
        BY <2>2
      <4> QED
        BY <2>2, NoNewsStays
    <3> QED
      BY <3>1 DEF OnDisk
  <2> QED
    BY <2>1, <2>2 DEF Honest, OnDisk
<1>5. Applying(e)'
  BY <1>3 DEF Honest, Applying, Main
<1>6. Resolving(e)'
  BY NoNewsStays DEF Honest, Resolving
<1> QED
  BY <1>4, <1>5, <1>6 DEF Honest

\* A step of d: the log grows, faults are counted, and nothing else changes in
\* what the other devices do and have.
Onward(d) ==
  /\ Grows /\ faults' \in Nat /\ faults <= faults'
  /\ Others(d) /\ \A e \in Device \ {d} : seen'[e] = seen[e]

\* What is left of a step is what its own device does.
LEMMA OnwardInv ==
  ASSUME SyncInv, BaseInv, NEW d \in Device, Onward(d), Honest(d)'
  PROVE  BaseInv'
<1>1. ASSUME NEW e \in Device PROVE Honest(e)'
  <2>1. faults \in Nat
    BY FaultsNat DEF SyncInv
  <2> QED
    BY <2>1, OthersHonest DEF BaseInv, Onward, Others
<1> QED
  BY <1>1 DEF BaseInv

\* A step that leaves alone all that the invariant speaks of.
LEMMA SameHonest ==
  ASSUME SyncInv, BaseInv, faults' \in Nat, faults <= faults',
         UNCHANGED <<log, pc, job, entry, cursor, stash, seen>>
  PROVE  BaseInv'
<1>1. Grows /\ faults \in Nat
  BY Known, SameGrows, FaultsNat DEF SyncInv, StateOK
<1>2. ASSUME NEW e \in Device PROVE Honest(e)'
  BY <1>1, OthersHonest DEF BaseInv
<1> QED
  BY <1>2 DEF BaseInv

\* Outside a conflict nothing is staged.
LEMMA NothingStaged ==
  ASSUME BaseInv, NEW d \in Device, pc[d] \notin InConflict
  PROVE  stash[d] = None
BY DEF BaseInv, Honest, Resolving

\* The device has nothing in hand, and the user had what its entry names.
LEMMA RestedHonest ==
  ASSUME SyncInv, NEW d \in Device, Onward(d), Resting(d), stash'[d] = None,
         entry'[d] = entry[d], cursor'[d] = cursor[d],
         NEW s, seen'[d] = s, NoNews(d, entry[d].content, s)
  PROVE  Honest(d)'
<1>1. pc'[d] \notin {"note", "advance", "place", "record"}
  BY DEF Resting
<1>2. OnDisk(d)'
  <2> DEFINE c == entry[d].content
  <2>1. faults \in Nat
    BY FaultsNat DEF SyncInv
  <2>2. NoNews(d, c, s)'
    BY <2>1, NoNewsStays DEF Onward
  <2> QED
    BY <2>2 DEF OnDisk
<1>3. Applying(d)' /\ Resolving(d)'
  BY <1>1 DEF Applying, Resolving
<1> QED
  BY <1>2, <1>3 DEF Honest

\* A version of this device that has just been accepted.
LEMMA AcceptedKnown ==
  ASSUME SyncInv, NEW d \in Device, NEW k \in {"put", "delete"}, NEW c \in File,
         Accept(d, k, c), NEW n, n = Len(log) + 1, NEW x, x = entry[d].content
  PROVE  NoNews(d, x, n)'
<1>1. /\ log \in Seq(Event) /\ LogInv /\ Len(log) \in Nat
      /\ entry[d].seq \in 1 .. Len(log) /\ Main(entry[d].seq)
      /\ x = log[entry[d].seq].content
  BY Known DEF EntryIsEvent
<1>2. /\ Len(log') = n /\ log'[n] = [kind |-> k, by |-> d, content |-> c]
      /\ \A s \in 1 .. Len(log) : log'[s] = log[s]
  BY <1>1, AppendGrows DEF Grows
<1>3. log'[n].kind = k
  BY <1>2
<1>4. Main(n)' /\ n \in 1 .. Len(log')
  BY <1>1, <1>2, <1>3 DEF Main
<1>5. PICK s \in 1 .. n : s = entry[d].seq /\ log'[s] = log[s]
  BY <1>1, <1>2
<1>6. Main(s)' /\ x = log'[s].content
  BY <1>1, <1>5 DEF Main
<1>7. x \in Before(n)'
  BY <1>5, <1>6 DEF Before
<1> QED
  BY <1>4, <1>7 DEF NoNews

\* A resolution is given up before the head has an entry.
LEMMA GiveUpHonest ==
  ASSUME SyncInv, BaseInv, NEW d \in Device, GiveUp(d), Onward(d),
         UNCHANGED <<entry, cursor>>, pc[d] \in {"head", "place", "newer"}
  PROVE  Honest(d)'
<1>1. Resting(d)
  BY Known, FailSettles DEF GiveUp, Settles
<1>2. stash'[d] = None
  BY Known DEF GiveUp
<1>3. OnDisk(d) /\ Resolving(d)
  BY DEF BaseInv, Honest
<1>4. CASE stash[d] # None
  <2>1. seen'[d] = job[d].seen
    BY <1>4, Known DEF GiveUp, Restore, StateOK
  <2>2. NoNews(d, entry[d].content, job[d].seen)
    BY <1>3, <1>4 DEF Resolving
  <2> QED
    BY <1>1, <1>2, <2>1, <2>2, RestedHonest
<1>5. CASE stash[d] = None
  <2>1. seen'[d] = seen[d] /\ NoNews(d, entry[d].content, seen[d])
    BY <1>3, <1>5 DEF GiveUp, OnDisk
  <2> QED
    BY <1>1, <1>2, <2>1, RestedHonest
<1> QED
  BY <1>4, <1>5

-----------------------------------------------------------------------------
\* Steps between operations, and those that begin one.
LEMMA HonestBegins ==
  ASSUME SyncInv, BaseInv, NEW d \in Device, Onward(d),
         \/ Start(d) \/ Connect(d) \/ Watch(d) \/ Hint(d) \/ RetryPending(d)
         \/ Finish(d) \/ Page(d)
  PROVE  Honest(d)'
<1>1. pc[d] \notin InConflict \cup {"note"}
  BY DEF Start, Connect, Watch, Hint, RetryPending, Finish, Page, InConflict
<1>2. UNCHANGED <<entry, cursor, stash, seen>>
  BY DEF Start, Connect, Watch, Hint, RetryPending, Finish, Page, Files, Tables
<1>3. Resting(d)
  <2>1. job[d].via \in Via /\ pend[d] \in Queue /\ StateOK
    BY Known DEF StateOK, Job
  <2>2. CASE Start(d)
    BY <2>2, Known DEF Start, Resting
  <2>3. CASE Connect(d) \/ Watch(d) \/ Hint(d) \/ RetryPending(d) \/ Finish(d)
    <3>1. \/ \E via \in Via, r \in 0 .. 3 : BeginRescan(d, via, r)
          \/ \E via \in Via : BeginCatchUp(d, via)
      BY <2>1, <2>3 DEF Connect, Watch, Hint, RetryPending, Finish, Via
    <3> QED
      BY <2>1, <3>1, BeginRescanMoves, BeginCatchUpMoves
  <2>4. CASE Page(d)
    <3>1. CASE (\E q \in Queue : Continue(d, q)) \/ Fail(d)
      BY <2>1, <3>1, ContinueSettles, FailSettles DEF Settles
    <3>2. CASE job' = [job EXCEPT ![d].goal = Len(log)] /\ Goto(d, "next")
      <4>1. [job[d] EXCEPT !.goal = Len(log)].goal = Len(log)
        BY Known DEF Job
      <4>2. job'[d].goal = Len(log) /\ pc'[d] = "next"
        BY <3>2, <4>1, Known DEF Goto
      <4> QED
        BY <4>2, Known DEF Resting
    <3> QED
      BY <2>1, <2>4, <3>1, <3>2 DEF Page
  <2> QED
    BY <2>2, <2>3, <2>4
<1>4. NoNews(d, entry[d].content, seen[d])
  BY <1>1 DEF BaseInv, Honest, OnDisk
<1> QED
  BY <1>1, <1>2, <1>3, <1>4, NothingStaged, RestedHonest

\* A crash between the disk and the entry leaves the entry of before.
LEMMA HonestCrash ==
  ASSUME SyncInv, BaseInv, NEW d \in Device, Onward(d), Crash(d)
  PROVE  Honest(d)'
<1>1. /\ pc'[d] = "down" /\ job'[d] = Idle /\ stash'[d] = None
      /\ UNCHANGED <<log, entry, cursor, seen>>
  BY Known DEF Crash, Tables
<1>2. Crashed'
  BY Known, FaultsNat DEF Crash, Broken, Crashed
<1>3. Honest(d) /\ AboutTo(d)
  BY Known DEF BaseInv
<1>4. NoNews(d, entry[d].content, seen[d])'
  <2>1. CASE NoNews(d, entry[d].content, seen[d])
    BY <1>1, <1>2, <2>1 DEF NoNews, Before, Main
  <2>2. CASE pc[d] = "note" /\ Main(job[d].at)
    <3>1. seen[d] = job[d].at
      BY <1>3, <2>2 DEF Honest, Applying
    <3>2. seen[d] \in 1 .. Len(log)
      <4>1. cursor[d] \in Nat
        BY Known DEF StateOK
      <4> QED
        BY <1>3, <2>2, <3>1, <4>1, Known DEF AboutTo
    <3>3. CASE job[d].why = "page" /\ log[job[d].at].by # d
      BY <1>1, <1>2, <1>3, <2>2, <3>1, <3>2, <3>3 DEF AboutTo, NoNews, Main
    <3>4. CASE job[d].why # "page" \/ log[job[d].at].by = d
      <4>1. entry[d].seq <= seen[d]
        BY <1>3, <2>2, <3>1, <3>2, <3>4, Known DEF AboutTo, Honest, Applying
      <4>2. NoNews(d, entry[d].content, seen[d])
        BY <2>2, <3>1, <3>2, <4>1, EntryIsBefore
      <4> QED
        BY <1>1, <1>2, <4>2 DEF NoNews, Before, Main
    <3> QED
      BY <3>3, <3>4
  <2> QED
    BY <1>3, <2>1, <2>2 DEF Honest, OnDisk
<1> QED
  BY <1>1, <1>4 DEF Honest, OnDisk, Applying, Resolving

-----------------------------------------------------------------------------
\* Catch-up.

\* An event is skipped, or is about to be applied.
LEMMA HonestConsumeEvent ==
  ASSUME SyncInv, BaseInv, NEW d \in Device, Onward(d), ConsumeEvent(d)
  PROVE  Honest(d)'
<1> DEFINE s == cursor[d] + 1
<1>1. /\ pc[d] = "next" /\ UNCHANGED <<log, entry, seen, stash, faults>>
      /\ cursor[d] \in Nat
  BY Known DEF ConsumeEvent, Files, StateOK
<1>2. stash[d] = None
  BY <1>1, NothingStaged DEF InConflict
<1>3. NoNews(d, entry[d].content, seen[d])
  BY <1>1 DEF BaseInv, Honest, OnDisk
<1>4. CASE Continue(d, pend[d]) /\ UNCHANGED cursor
  <2>1. Resting(d)
    BY <1>4, Known, ContinueSettles DEF StateOK, Settles
  <2> QED
    BY <1>1, <1>2, <1>3, <1>4, <2>1, RestedHonest
<1>5. CASE /\ log[s].by = d
           /\ cursor' = [cursor EXCEPT ![d] = s]
           /\ UNCHANGED <<pc, job>>
  <2>1. ~(seen[d] = cursor[d] + 1 /\ log[seen[d]].by # d)
    BY <1>5
  <2>2. NoNews(d, entry[d].content, seen[d])'
    BY <1>1, <1>3, <2>1 DEF NoNews, Before, Main
  <2> QED
    BY <1>1, <1>2, <1>5, <2>2 DEF Honest, OnDisk, Applying, Resolving
<1>6. CASE /\ ~(log[s].by = d /\ Materialized(d, s))
           /\ job' = [job EXCEPT ![d].at = s, ![d].why = "page"]
           /\ Goto(d, "place")
           /\ UNCHANGED cursor
  <2>1. pc'[d] = "place"
    BY <1>6, Known DEF Goto
  <2>2. job'[d].at = s
    <3>1. job' = [job EXCEPT ![d] = At(job[d], s, "page")]
      BY <1>6 DEF At
    <3>2. s \in Nat /\ "page" \in Why /\ job[d] \in Job
      BY <1>1, Known DEF Why
    <3>3. At(job[d], s, "page").at = s
      BY <3>2, JobAt, Zenon
    <3> QED
      BY <3>1, <3>3, Known
  <2>3. log[s].by = d /\ Main(s) => entry[d].seq < s
    BY <1>1, <1>6, Known DEF Materialized
  <2>4. NoNews(d, entry[d].content, seen[d])'
    BY <1>1, <1>3, <1>6 DEF NoNews, Before, Main, Crashed
  <2> HIDE DEF s
  <2>5. Applying(d)'
    BY <1>1, <2>1, <2>2, <2>3 DEF Applying, Main
  <2> QED
    BY <1>1, <1>2, <2>1, <2>4, <2>5 DEF Honest, OnDisk, Resolving
<1> QED
  BY <1>4, <1>5, <1>6 DEF ConsumeEvent

\* The user sees the event, and what he had seen before is staged.
LEMMA HonestPlace ==
  ASSUME SyncInv, BaseInv, NEW d \in Device, Onward(d), Place(d)
  PROVE  Honest(d)'
<1>1. /\ pc[d] = "place" /\ UNCHANGED <<log, entry, cursor>>
      /\ OnDisk(d) /\ Applying(d) /\ Resolving(d)
  BY DEF Place, BaseInv, Honest
<1>2. CASE GiveUp(d)
  BY <1>1, <1>2, GiveUpHonest
<1>3. CASE Goto(d, "note") /\ UNCHANGED <<stash, job, faults>>
  <2>1. pc'[d] = "note"
    BY <1>3, Known DEF Goto
  <2>2. ~GiveUp(d)
    BY <2>1, Known DEF GiveUp, Fail, Rest, Goto
  <2>3. Resolving(d)'
    BY <1>1, <1>3, <2>1 DEF Resolving, InConflict, NoNews, Before, Main, Crashed
  <2>4. CASE Main(job[d].at)
    <3>1. seen'[d] = job[d].at
      BY <2>2, <2>4, Known DEF Place, StateOK
    <3>2. OnDisk(d)' /\ Applying(d)'
      BY <1>1, <1>3, <2>1, <2>4, <3>1 DEF OnDisk, Applying, Main
    <3> QED
      BY <2>3, <3>2 DEF Honest
  <2>5. CASE ~Main(job[d].at)
    <3>1. seen' = seen
      BY <2>2, <2>5 DEF Place
    <3>2. NoNews(d, entry[d].content, seen[d])'
      BY <1>1, <1>3, <3>1 DEF OnDisk, NoNews, Before, Main, Crashed
    <3>3. OnDisk(d)' /\ Applying(d)'
      BY <1>1, <1>3, <2>1, <2>5, <3>2 DEF OnDisk, Applying, Main
    <3> QED
      BY <2>3, <3>3 DEF Honest
  <2> QED
    BY <2>4, <2>5
<1> QED
  BY <1>2, <1>3 DEF Place

\* The entry becomes what the user has seen.
LEMMA HonestNote ==
  ASSUME SyncInv, BaseInv, NEW d \in Device, Onward(d), Note(d)
  PROVE  Honest(d)'
<1>1. /\ pc[d] = "note" /\ UNCHANGED <<log, stash, seen, cursor, faults>>
      /\ OnDisk(d) /\ Applying(d) /\ Resolving(d) /\ AboutTo(d) /\ cursor[d] \in Nat
  BY Known DEF Note, Files, BaseInv, Honest, StateOK
<1>2. NoNews(d, entry[d].content, seen[d])'
  <2>1. CASE Main(job[d].at)
    <3>1. seen[d] = job[d].at /\ seen[d] \in 1 .. Len(log)
      BY <1>1, <2>1, Known DEF Applying, AboutTo
    <3>2. entry'[d].content = log[seen[d]].content
      BY <2>1, <3>1, Known DEF Note, EntryOf, StateOK
    <3>3. entry'[d].content \in Before(seen[d])
      BY <2>1, <3>1, <3>2, Known DEF Before
    <3> QED
      BY <1>1, <2>1, <3>1, <3>3 DEF NoNews, Before, Main
  <2>2. CASE ~Main(job[d].at)
    <3>1. entry' = entry
      BY <2>2 DEF Note
    <3> QED
      BY <1>1, <2>2, <3>1 DEF OnDisk, NoNews, Before, Main, Crashed
  <2> QED
    BY <2>1, <2>2
<1>3. CASE job[d].why = "page" /\ Goto(d, "advance") /\ UNCHANGED job
  <2>1. pc'[d] = "advance"
    BY <1>3, Known DEF Goto
  <2>2. stash[d] = None
    BY <1>1, <1>3 DEF Resolving
  <2>3. Main(job[d].at) => entry'[d].seq = job[d].at
    BY Known DEF Note, EntryOf, StateOK
  <2>4. Applying(d)'
    BY <1>1, <1>3, <2>1, <2>3 DEF Applying, Main
  <2> QED
    BY <1>1, <1>2, <2>2, <2>4 DEF Honest, OnDisk, Resolving
<1>4. CASE job[d].why = "put" /\ Goto(d, "decide") /\ UNCHANGED job
  <2>1. pc'[d] = "decide"
    BY <1>4, Known DEF Goto
  <2>2. Resolving(d)'
    BY <1>1, <1>4, <2>1 DEF Resolving, InConflict, NoNews, Before, Main, Crashed
  <2> QED
    BY <1>2, <2>1, <2>2 DEF Honest, OnDisk, Applying
<1>5. CASE job[d].why = "delete" /\ BeginRescan(d, job[d].via, job[d].rounds - 1)
  <2>1. pc'[d] = "scan" /\ stash[d] = None
    BY <1>1, <1>5, Known DEF BeginRescan, Goto, Resolving
  <2> QED
    BY <1>1, <1>2, <2>1 DEF Honest, OnDisk, Applying, Resolving
<1> QED
  BY <1>3, <1>4, <1>5 DEF Note

\* The cursor comes to the event that is on the disk and in the entry.
LEMMA HonestAdvance ==
  ASSUME SyncInv, BaseInv, NEW d \in Device, Onward(d), Advance(d)
  PROVE  Honest(d)'
<1>1. /\ pc[d] = "advance" /\ pc'[d] = "next"
      /\ UNCHANGED <<log, entry, stash, seen, faults>>
      /\ Applying(d) /\ EntryIsEvent(d) /\ AboutTo(d)
  BY Known DEF Advance, Goto, Files, BaseInv, Honest
<1>2. stash[d] = None
  BY <1>1, NothingStaged DEF InConflict
<1>3. NoNews(d, entry[d].content, seen[d])
  BY <1>1 DEF BaseInv, Honest, OnDisk
<1>4. seen[d] = cursor[d] + 1 => entry[d].content \in Before(seen[d])
  <2> SUFFICES ASSUME seen[d] = cursor[d] + 1 PROVE entry[d].content \in Before(seen[d])
    OBVIOUS
  <2>1. seen[d] = job[d].at /\ Main(job[d].at)
    BY <1>1, <1>3 DEF AboutTo, NoNews
  <2>2. entry[d].seq = seen[d]
    BY <1>1, <2>1 DEF Applying
  <2> QED
    BY <1>1, <2>2, Known DEF EntryIsEvent, Before
<1>5. NoNews(d, entry[d].content, seen[d])'
  BY <1>1, <1>3, <1>4 DEF NoNews, Before, Main
<1> QED
  BY <1>1, <1>2, <1>5 DEF Honest, OnDisk, Applying, Resolving

-----------------------------------------------------------------------------
\* Rescan.

\* The answer is in hand: what was accepted is what the user had.
LEMMA RecordedHonest ==
  ASSUME SyncInv, BaseInv, NEW d \in Device, NEW c \in File, NEW why \in Why,
         job' = [job EXCEPT ![d] = ItemAt(job[d], c, Len(log) + 1, why)],
         Goto(d, "record"), Onward(d), UNCHANGED <<entry, cursor>>,
         \/ stash'[d] = None
         \/ why \in {"newer", "copy"} /\ stash' = stash,
         NEW s, seen'[d] = s, NEW x, entry[d].content = x, NoNews(d, x, s)',
         why \notin {"found", "copy"} => s = Len(log) + 1
  PROVE  Honest(d)'
<1>1. /\ pc'[d] = "record" /\ job'[d].why = why /\ job'[d].at = Len(log) + 1
  BY AcceptedTypes
<1>2. job'[d].baseline = job[d].baseline /\ job'[d].seen = job[d].seen
  <2>1. /\ ItemAt(job[d], c, Len(log) + 1, why).baseline = job[d].baseline
        /\ ItemAt(job[d], c, Len(log) + 1, why).seen = job[d].seen
    BY Known DEF ItemAt, Job
  <2> QED
    BY <2>1, Known
<1>3. OnDisk(d)' /\ Applying(d)'
  BY <1>1 DEF OnDisk, Applying
<1>4. Resolving(d)'
  <2>1. CASE stash'[d] = None
    BY <2>1 DEF Resolving
  <2>2. CASE why \in {"newer", "copy"} /\ stash' = stash /\ stash[d] # None
    <3>1. PICK b, n : b = job[d].baseline /\ n = job[d].seen
      OBVIOUS
    <3>2. faults \in Nat /\ NoNews(d, b, n)
      BY <2>2, <3>1, FaultsNat DEF SyncInv, BaseInv, Honest, Resolving
    <3>3. NoNews(d, b, n)'
      BY <3>2, NoNewsStays DEF Onward
    <3>4. NoNews(d, job[d].baseline, job[d].seen)'
      BY <1>2, <3>1, <3>3
    <3> QED
      BY <1>1, <2>2, <3>4 DEF Resolving, InConflict
  <2> QED
    BY <2>1, <2>2 DEF Resolving
<1> QED
  BY <1>3, <1>4 DEF Honest

\* A conflict copy touches neither the entry of the file nor what the user saw.
LEMMA HonestSubmitFound ==
  ASSUME SyncInv, BaseInv, NEW d \in Device, Onward(d), SubmitFound(d)
  PROVE  Honest(d)'
<1>1. pc[d] = "scan" /\ UNCHANGED <<stash, seen, entry, cursor>>
  BY DEF SubmitFound, Files
<1>2. stash[d] = None /\ NoNews(d, entry[d].content, seen[d]) /\ faults \in Nat
  BY <1>1, NothingStaged, FaultsNat DEF InConflict, BaseInv, Honest, OnDisk, SyncInv
<1>3. PICK c \in copies[d] \ noted[d] :
        \/ UNCHANGED <<log, pc, job, faults>>
        \/ /\ Accept(d, "copy", c)
           /\ job' = [job EXCEPT ![d].item = c, ![d].at = Len(log) + 1,
                                 ![d].why = "found"]
           /\ Goto(d, "record")
        \/ SubmitFails(d)
  BY DEF SubmitFound
<1>4. CASE UNCHANGED <<log, pc, job, faults>>
  <2>1. BaseInv'
    BY <1>1, <1>2, <1>4, SameHonest
  <2> QED
    BY <2>1 DEF BaseInv
<1>5. CASE /\ Accept(d, "copy", c)
           /\ job' = [job EXCEPT ![d].item = c, ![d].at = Len(log) + 1,
                                 ![d].why = "found"]
           /\ Goto(d, "record")
  <2>1. job' = [job EXCEPT ![d] = ItemAt(job[d], c, Len(log) + 1, "found")]
    BY <1>5 DEF ItemAt
  <2>2. c \in File /\ "found" \in Why
    BY Known DEF StateOK, File, Why
  <2>3. PICK s, x : s = seen[d] /\ x = entry[d].content
    OBVIOUS
  <2>4. NoNews(d, x, s)'
    BY <1>1, <1>2, <2>3, NoNewsStays DEF Onward
  <2> QED
    BY <1>1, <1>2, <1>5, <2>1, <2>2, <2>3, <2>4, RecordedHonest
<1>6. CASE SubmitFails(d)
  <2>1. Resting(d)
    BY <1>6, Known, SubmitFailsSettles DEF Settles
  <2> QED
    BY <1>1, <1>2, <2>1, RestedHonest
<1> QED
  BY <1>3, <1>4, <1>5, <1>6

\* Comparing changes nothing.
LEMMA HonestScan ==
  ASSUME SyncInv, BaseInv, NEW d \in Device, Onward(d), Scan(d)
  PROVE  Honest(d)'
<1>1. pc[d] = "scan" /\ UNCHANGED <<stash, seen, entry, cursor>>
  BY DEF Scan, Files, Tables
<1>2. stash[d] = None /\ NoNews(d, entry[d].content, seen[d])
  BY <1>1, NothingStaged DEF InConflict, BaseInv, Honest, OnDisk
<1>3. Resting(d)
  <2>1. CASE FinishRescan(d)
    BY <2>1, Known, FinishRescanMoves
  <2>2. CASE job' = [job EXCEPT ![d].item = disk[d]] /\ Goto(d, "submit")
    <3>1. [job[d] EXCEPT !.item = disk[d]].goal = job[d].goal
      BY Known DEF Job
    <3>2. job'[d].goal = job[d].goal /\ pc'[d] = "submit"
      BY <2>2, <3>1, Known DEF Goto
    <3> QED
      BY <3>2, Known DEF Resting
  <2> QED
    BY <2>1, <2>2 DEF Scan
<1> QED
  BY <1>1, <1>2, <1>3, RestedHonest

\* An accepted version is what the user has.
LEMMA HonestSubmit ==
  ASSUME SyncInv, BaseInv, NEW d \in Device, Onward(d), Submit(d)
  PROVE  Honest(d)'
<1> DEFINE delete == job[d].item = None
           bytes == IF delete THEN None ELSE disk[d]
           kind == IF bytes = None THEN "delete" ELSE "put"
<1> PICK n, x : n = Len(log) + 1 /\ x = entry[d].content
  OBVIOUS
<1>1. pc[d] = "submit" /\ UNCHANGED <<stash, entry, cursor>>
  BY DEF Submit
<1>2. stash[d] = None /\ NoNews(d, entry[d].content, seen[d]) /\ faults \in Nat
  BY <1>1, NothingStaged, FaultsNat DEF InConflict, BaseInv, Honest, OnDisk, SyncInv
<1>3. bytes \in File /\ kind \in {"put", "delete"}
  BY Known DEF File
<1>4. AcceptMain(d, bytes) => seen'[d] = n /\ NoNews(d, x, n)'
  <2> SUFFICES ASSUME AcceptMain(d, bytes) PROVE seen'[d] = n /\ NoNews(d, x, n)'
    OBVIOUS
  <2>1. Accept(d, kind, bytes) /\ seen' = [seen EXCEPT ![d] = n]
    BY DEF AcceptMain
  <2> HIDE DEF kind, bytes
  <2>2. NoNews(d, x, n)'
    BY <1>3, <2>1, AcceptedKnown
  <2> QED
    BY <2>1, <2>2, Known DEF StateOK
<1>5. CASE Fail(d) /\ UNCHANGED seen
  <2>1. Resting(d)
    BY <1>5, Known, FailSettles DEF Settles
  <2> QED
    BY <1>1, <1>2, <1>5, <2>1, RestedHonest
<1>6. CASE /\ Goto(d, IF delete THEN "head" ELSE "stage")
           /\ UNCHANGED <<log, seen, faults>>
  <2>1. pc'[d] \in {"head", "stage"}
    BY <1>6, Known DEF Goto
  <2>2. NoNews(d, entry[d].content, seen[d])'
    BY <1>1, <1>2, <1>6 DEF NoNews, Before, Main, Crashed
  <2> QED
    BY <1>1, <1>2, <1>6, <2>1, <2>2 DEF Honest, OnDisk, Applying, Resolving
<1>7. CASE /\ AcceptMain(d, bytes)
           /\ job' = [job EXCEPT ![d].item = bytes, ![d].at = Len(log) + 1,
                                 ![d].why = "scan"]
           /\ Goto(d, "record")
  <2>1. job' = [job EXCEPT ![d] = ItemAt(job[d], bytes, Len(log) + 1, "scan")]
    BY <1>7 DEF ItemAt
  <2>2. seen'[d] = n /\ NoNews(d, x, n)' /\ "scan" \in Why
    BY <1>4, <1>7 DEF Why
  <2> HIDE DEF bytes
  <2> QED
    BY <1>1, <1>2, <1>3, <1>7, <2>1, <2>2, RecordedHonest
<1>8. CASE SubmitFails(d) /\ (UNCHANGED seen \/ AcceptMain(d, bytes))
  <2>1. Resting(d)
    BY <1>8, Known, SubmitFailsSettles DEF Settles
  <2>2. CASE UNCHANGED seen
    BY <1>1, <1>2, <2>1, <2>2, RestedHonest
  <2>3. CASE AcceptMain(d, bytes)
    <3>1. NoNews(d, entry[d].content, seen[d])'
      BY <1>1, <1>4, <2>3
    <3>2. pc'[d] \notin {"note", "advance", "place", "record"}
      BY <2>1 DEF Resting
    <3> QED
      BY <1>1, <1>2, <3>1, <3>2 DEF Honest, OnDisk, Applying, Resolving
  <2> QED
    BY <1>8, <2>2, <2>3
<1> QED
  BY <1>5, <1>6, <1>7, <1>8 DEF Submit

\* The entry becomes what the user had submitted.
LEMMA HonestRecord ==
  ASSUME SyncInv, BaseInv, NEW d \in Device, Onward(d), Record(d)
  PROVE  Honest(d)'
<1>1. /\ pc[d] = "record" /\ UNCHANGED <<log, seen, cursor, faults>>
      /\ AboutTo(d) /\ Applying(d) /\ Resolving(d)
      /\ NoNews(d, entry[d].content, seen[d])
  BY Known DEF Record, BaseInv, Honest, OnDisk
<1>2. stash'[d] = None
  <2>1. CASE job[d].why \in {"found", "scan"}
    BY <1>1, <2>1 DEF Record, Resolving
  <2>2. CASE job[d].why \in {"newer", "copy"}
    BY <2>2, Known DEF Record
  <2> QED
    BY <2>1, <2>2 DEF Record
<1>3. pc'[d] \in {"scan", "finish"}
  <2>1. BeginRescan(d, job[d].via, job[d].rounds) \/ FinishRescan(d)
        \/ BeginRescan(d, job[d].via, job[d].rounds - 1)
    BY DEF Record, Resolved
  <2> QED
    BY <2>1, Known DEF BeginRescan, FinishRescan, Goto
<1>4. NoNews(d, entry[d].content, seen[d])'
  <2>1. CASE job[d].why \in {"found", "copy"}
    <3>1. entry' = entry
      BY <2>1 DEF Record
    <3> QED
      BY <1>1, <3>1 DEF NoNews, Before, Main, Crashed
  <2>2. CASE job[d].why \notin {"found", "copy"}
    <3>1. /\ seen[d] = job[d].at /\ job[d].at \in 1 .. Len(log) /\ Main(job[d].at)
          /\ log[job[d].at].content = job[d].item
      BY <1>1, <2>2 DEF Applying, AboutTo
    <3>2. entry'[d].content = job[d].item
      BY <2>2, Known DEF Record, StateOK
    <3>3. entry'[d].content \in Before(seen[d])
      BY <3>1, <3>2, Known DEF Before
    <3> QED
      BY <1>1, <3>1, <3>3 DEF NoNews, Before, Main
  <2> QED
    BY <2>1, <2>2
<1> QED
  BY <1>2, <1>3, <1>4 DEF Honest, OnDisk, Applying, Resolving

-----------------------------------------------------------------------------
\* Conflict.

\* What the user had is staged along with what the device knew of it.
LEMMA HonestStage ==
  ASSUME SyncInv, BaseInv, NEW d \in Device, Onward(d), Stage(d)
  PROVE  Honest(d)'
<1>1. /\ pc[d] = "stage" /\ UNCHANGED <<log, seen, entry, cursor, faults>>
      /\ job[d].why = "put"
  BY Known DEF Stage, Staged
<1>2. stash[d] = None /\ NoNews(d, entry[d].content, seen[d])
  BY <1>1, NothingStaged DEF InConflict, BaseInv, Honest, OnDisk
<1>3. CASE Fail(d) /\ UNCHANGED stash
  <2>1. Resting(d)
    BY <1>3, Known, FailSettles DEF Settles
  <2> QED
    BY <1>1, <1>2, <1>3, <2>1, RestedHonest
<1>4. CASE /\ job' = [job EXCEPT ![d].baseline = entry[d].content,
                                 ![d].seen = seen[d]]
           /\ Goto(d, "head")
  <2> DEFINE j == [job[d] EXCEPT !.baseline = entry[d].content, !.seen = seen[d]]
  <2>1. j.baseline = entry[d].content /\ j.seen = seen[d] /\ j.why = "put"
    BY <1>1, Known DEF Job
  <2>2. pc'[d] = "head" /\ job'[d] = j
    BY <1>4, Known DEF Goto
  <2>3. NoNews(d, entry[d].content, seen[d])'
    BY <1>1, <1>2 DEF NoNews, Before, Main, Crashed
  <2> HIDE DEF j
  <2>4. NoNews(d, job[d].baseline, job[d].seen)'
    BY <1>1, <2>1, <2>2, <2>3
  <2>5. Resolving(d)'
    BY <1>1, <2>1, <2>2, <2>4 DEF Resolving, InConflict
  <2> QED
    BY <2>2, <2>3, <2>5 DEF Honest, OnDisk, Applying
<1> QED
  BY <1>3, <1>4 DEF Stage

\* The head has arrived.
LEMMA HonestFetchHead ==
  ASSUME SyncInv, BaseInv, NEW d \in Device, Onward(d), FetchHead(d)
  PROVE  Honest(d)'
<1>1. /\ pc[d] = "head" /\ UNCHANGED <<log, entry, cursor>>
      /\ job[d].why \in {"put", "delete"} /\ OnDisk(d) /\ Resolving(d)
  BY Known DEF FetchHead, Staged, BaseInv, Honest
<1>2. CASE Goto(d, "place") /\ UNCHANGED <<seen, stash, job, faults>>
  <2>1. pc'[d] = "place"
    BY <1>2, Known DEF Goto
  <2>2. OnDisk(d)' /\ Resolving(d)'
    BY <1>1, <1>2, <2>1
       DEF OnDisk, Resolving, InConflict, NoNews, Before, Main, Crashed
  <2> QED
    BY <1>1, <1>2, <2>1, <2>2 DEF Honest, Applying
<1>3. CASE GiveUp(d)
  BY <1>1, <1>3, GiveUpHonest
<1> QED
  BY <1>2, <1>3 DEF FetchHead

\* A version that lost is a copy now; the device is still at its conflict.
LEMMA CopyHonest ==
  ASSUME SyncInv, BaseInv, NEW d \in Device, Onward(d), WriteConflictCopy(d),
         pc[d] \in {"decide", "newer"}, UNCHANGED <<log, entry, cursor, faults>>
  PROVE  Honest(d)'
<1>1. pc'[d] = "copy" /\ UNCHANGED <<seen, stash, job>>
  BY Known DEF WriteConflictCopy, Goto
<1>2. OnDisk(d)' /\ Resolving(d)'
  BY <1>1 DEF BaseInv, Honest, OnDisk, Resolving, InConflict, NoNews, Before, Main, Crashed
<1> QED
  BY <1>1, <1>2 DEF Honest, Applying

\* The staged version returns to the disk only over a deletion, or over a head
\* that is what the device knew.
LEMMA HonestDecide ==
  ASSUME SyncInv, BaseInv, NEW d \in Device, Onward(d), Decide(d)
  PROVE  Honest(d)'
<1>1. /\ pc[d] = "decide" /\ UNCHANGED <<log, entry, cursor, faults>>
      /\ stash[d] # None /\ StateOK
      /\ Resolving(d) /\ NoNews(d, entry[d].content, seen[d])
  BY Known, ConstantsAssumption DEF Decide, Tables, Staged, BaseInv, Honest, OnDisk
<1>2. NoNews(d, job[d].baseline, job[d].seen)
  BY <1>1 DEF Resolving
<1>3. Restore(d) => seen'[d] = job[d].seen
  BY <1>1 DEF Restore, StateOK
<1>4. stash' = [stash EXCEPT ![d] = None] => stash'[d] = None
  BY <1>1 DEF StateOK
<1>5. CASE /\ entry[d].content = None /\ Restore(d)
           /\ stash' = [stash EXCEPT ![d] = None] /\ Resolved(d)
  <2>1. NoNews(d, entry[d].content, job[d].seen)
    BY <1>2, <1>5 DEF NoNews
  <2> QED
    BY <1>1, <1>3, <1>4, <1>5, <2>1, ResolvedMoves, RestedHonest
<1>6. CASE /\ UNCHANGED seen
           /\ stash' = [stash EXCEPT ![d] = None] /\ Resolved(d)
  BY <1>1, <1>4, <1>6, ResolvedMoves, RestedHonest
<1>7. CASE LocalIsNewer(d) /\ Restore(d) /\ Goto(d, "newer") /\ UNCHANGED <<stash, job>>
  <2>1. pc'[d] = "newer" /\ seen'[d] = job[d].seen
    BY <1>3, <1>7, Known DEF Goto
  <2>2. entry[d].content = job[d].baseline
    BY <1>7 DEF LocalIsNewer
  <2>3. NoNews(d, entry[d].content, job[d].seen)
    BY <1>2, <2>2
  <2>4. NoNews(d, entry[d].content, seen[d])' /\ Resolving(d)'
    BY <1>1, <1>7, <2>1, <2>2, <2>3
       DEF Resolving, InConflict, NoNews, Before, Main, Crashed
  <2> QED
    BY <2>1, <2>4 DEF Honest, OnDisk, Applying
<1>8. CASE WriteConflictCopy(d)
  BY <1>1, <1>8, CopyHonest
<1> QED
  BY <1>5, <1>6, <1>7, <1>8 DEF Decide

\* The newer local version is accepted, given up, or loses another race.
LEMMA HonestSubmitNewer ==
  ASSUME SyncInv, BaseInv, NEW d \in Device, Onward(d), SubmitNewer(d)
  PROVE  Honest(d)'
<1>1. pc[d] = "newer" /\ UNCHANGED <<entry, cursor>> /\ disk[d] \in File
  BY Known DEF SubmitNewer
<1>2. CASE GiveUp(d)
  BY <1>1, <1>2, GiveUpHonest
<1>3. CASE WriteConflictCopy(d) /\ UNCHANGED <<log, faults>>
  BY <1>1, <1>3, CopyHonest
<1>4. CASE /\ AcceptMain(d, disk[d]) /\ disk[d] # None
           /\ job' = [job EXCEPT ![d].item = disk[d], ![d].at = Len(log) + 1,
                                 ![d].why = "newer"]
           /\ Goto(d, "record")
           /\ UNCHANGED <<disk, noticed, stash, copies, pend, live, faults>>
  <2>1. PICK n, x : n = Len(log) + 1 /\ x = entry[d].content
    OBVIOUS
  <2>2. Accept(d, "put", disk[d]) /\ seen' = [seen EXCEPT ![d] = n]
    BY <1>4, <2>1 DEF AcceptMain
  <2>3. NoNews(d, x, n)' /\ seen'[d] = n
    BY <1>1, <2>1, <2>2, AcceptedKnown, Known DEF StateOK
  <2>4. /\ job' = [job EXCEPT ![d] = ItemAt(job[d], disk[d], Len(log) + 1, "newer")]
        /\ "newer" \in Why
    BY <1>4 DEF ItemAt, Why
  <2> QED
    BY <1>1, <1>4, <2>1, <2>3, <2>4, RecordedHonest
<1> QED
  BY <1>2, <1>3, <1>4 DEF SubmitNewer

\* The copy is shared.  Were its upload to fail, the local version would be put
\* back over the head, which has an entry by now.
LEMMA HonestSubmitCopy ==
  ASSUME SyncInv, BaseInv, "copy" \notin Breaks, NEW d \in Device, Onward(d),
         SubmitCopy(d)
  PROVE  Honest(d)'
<1>1. /\ Accept(d, "copy", stash[d])
      /\ job' = [job EXCEPT ![d].item = stash[d], ![d].at = Len(log) + 1,
                            ![d].why = "copy"]
      /\ Goto(d, "record")
      /\ UNCHANGED <<seen, stash, entry, cursor>>
      /\ pc[d] = "copy"
  BY DEF SubmitCopy, Broken
<1>2. PICK s, x : s = seen[d] /\ x = entry[d].content
  OBVIOUS
<1>3. NoNews(d, x, s) /\ faults \in Nat
  BY <1>1, <1>2, FaultsNat DEF BaseInv, Honest, OnDisk, SyncInv
<1>4. NoNews(d, x, s)'
  BY <1>1, <1>3, NoNewsStays DEF Onward
<1>5. /\ job' = [job EXCEPT ![d] = ItemAt(job[d], stash[d], Len(log) + 1, "copy")]
      /\ "copy" \in Why /\ stash[d] \in File
  BY <1>1, Known DEF ItemAt, Why
<1> QED
  BY <1>1, <1>2, <1>4, <1>5, RecordedHonest

-----------------------------------------------------------------------------
\* A device's step is that device's.
DeviceStep(d) ==
  \/ UserEdits(d) \/ Crash(d) \/ Drop(d)
  \/ Watch(d) \/ Hint(d) \/ RetryPending(d) \/ PendingFallsDue(d)
  \/ Daemon(d)

\* What a step may add to the log: a conflict copy, or a version over a head
\* that the entry knows.
LEMMA StepAccepts ==
  ASSUME SyncInv, NEW d \in Device, DeviceStep(d)
  PROVE  \/ log' = log
         \/ \E c \in Content : Accept(d, "copy", c)
         \/ /\ pc[d] \in {"submit", "newer"} /\ PathHead <= entry[d].seq
            /\ \E k \in {"put", "delete"}, c \in File : Accept(d, k, c)
<1>1. CASE SubmitFound(d) \/ SubmitCopy(d)
  BY <1>1, Known DEF SubmitFound, SubmitCopy, Staged, StateOK
<1>2. CASE Submit(d)
  <2> DEFINE bytes == IF job[d].item = None THEN None ELSE disk[d]
             kind == IF bytes = None THEN "delete" ELSE "put"
  <2>1. \/ log' = log
        \/ PathHead <= entry[d].seq /\ AcceptMain(d, bytes)
    BY <1>2 DEF Submit
  <2>2. AcceptMain(d, bytes) => Accept(d, kind, bytes)
    BY DEF AcceptMain
  <2>3. bytes \in File /\ kind \in {"put", "delete"} /\ pc[d] = "submit"
    BY <1>2, Known DEF Submit, File
  <2> HIDE DEF bytes, kind
  <2> QED
    BY <2>1, <2>2, <2>3
<1>3. CASE SubmitNewer(d)
  <2>1. disk[d] \in File /\ pc[d] = "newer"
    BY <1>3, Known DEF SubmitNewer
  <2>2. \/ log' = log
        \/ PathHead <= entry[d].seq /\ Accept(d, "put", disk[d])
    BY <1>3 DEF SubmitNewer, AcceptMain
  <2> QED
    BY <2>1, <2>2
<1>4. CASE \/ UserEdits(d) \/ Crash(d) \/ Drop(d) \/ PendingFallsDue(d)
           \/ Watch(d) \/ Hint(d) \/ RetryPending(d) \/ Start(d) \/ Connect(d)
  BY <1>4 DEF UserEdits, Crash, Drop, PendingFallsDue, Watch, Hint, RetryPending,
              Start, Connect
<1>5. CASE CatchUpStep(d)
  BY <1>5 DEF CatchUpStep, Page, ConsumeEvent, Place, Note, Advance
<1>6. CASE Scan(d) \/ Record(d) \/ Finish(d) \/ Stage(d) \/ FetchHead(d) \/ Decide(d)
  BY <1>6 DEF Scan, Record, Finish, Stage, FetchHead, Decide
<1> QED
  BY <1>1, <1>2, <1>3, <1>4, <1>5, <1>6 DEF DeviceStep, Daemon, RescanStep, ConflictStep

\* Faults are only ever counted up.
LEMMA StepCounts ==
  ASSUME SyncInv, NEW d \in Device, DeviceStep(d)
  PROVE  faults' \in Nat /\ faults <= faults'
<1>1. faults \in Nat
  BY FaultsNat DEF SyncInv
<1>2. faults' = faults \/ faults' = faults + 1
  <2>1. CASE \/ UserEdits(d) \/ Crash(d) \/ Drop(d) \/ PendingFallsDue(d)
             \/ Watch(d) \/ Hint(d) \/ RetryPending(d) \/ Start(d) \/ Connect(d)
    BY <2>1 DEF UserEdits, Crash, Drop, PendingFallsDue, Watch, Hint, RetryPending,
                Start, Connect, Broken
  <2>2. CASE CatchUpStep(d)
    BY <2>2 DEF CatchUpStep, Page, ConsumeEvent, Place, Note, Advance, Broken
  <2>3. CASE RescanStep(d)
    BY <2>3 DEF RescanStep, SubmitFound, Scan, Submit, Record, Finish, Broken
  <2>4. CASE ConflictStep(d)
    BY <2>4 DEF ConflictStep, Stage, FetchHead, Decide, SubmitNewer, SubmitCopy, Broken
  <2> QED
    BY <2>1, <2>2, <2>3, <2>4 DEF DeviceStep, Daemon
<1> QED
  BY <1>1, <1>2

\* What a step sets of pc and job, it sets for its device.
Own(d) == \A e \in Device \ {d} : pc'[e] = pc[e] /\ job'[e] = job[e]

\* Where an operation begins or ends.
LEMMA ControlOwns ==
  ASSUME StateOK, NEW d \in Device
  PROVE  /\ \A via, r : BeginRescan(d, via, r) => Own(d)
         /\ \A via : BeginCatchUp(d, via) => Own(d)
         /\ Rest(d) => Own(d)
         /\ FinishRescan(d) => Own(d)
         /\ \A q : Continue(d, q) => Own(d)
         /\ Fail(d) => Own(d)
         /\ SubmitFails(d) => Own(d)
         /\ Resolved(d) => Own(d)
<1>1. \A via, r : BeginRescan(d, via, r) => Own(d)
  BY DEF StateOK, BeginRescan, Goto, Own
<1>2. \A via : BeginCatchUp(d, via) => Own(d)
  BY DEF StateOK, BeginCatchUp, Goto, Own
<1>3. (Rest(d) => Own(d)) /\ (FinishRescan(d) => Own(d))
  BY DEF StateOK, Rest, FinishRescan, Goto, Own
<1>4. \A q : Continue(d, q) => Own(d)
  BY <1>1, <1>2, <1>3 DEF Continue
<1>5. Fail(d) => Own(d)
  BY <1>3 DEF Fail
<1> QED
  BY <1>1, <1>2, <1>3, <1>4, <1>5 DEF SubmitFails, Resolved

\* And so with the rest.
LEMMA StepOwns ==
  ASSUME SyncInv, NEW d \in Device, DeviceStep(d)
  PROVE  Own(d)
<1>1. pc \in [Device -> Label] /\ job \in [Device -> Job] /\ StateOK
  BY Known
<1>2. \A label : Goto(d, label) => \A e \in Device \ {d} : pc'[e] = pc[e]
  BY <1>1 DEF Goto
<1>3. CASE \/ UserEdits(d) \/ Crash(d) \/ Drop(d) \/ PendingFallsDue(d)
           \/ Watch(d) \/ Hint(d) \/ RetryPending(d) \/ Start(d) \/ Connect(d)
  BY <1>1, <1>3, ControlOwns
     DEF UserEdits, Crash, Drop, PendingFallsDue, Watch, Hint, RetryPending,
         Start, Connect, Own
<1>4. CASE CatchUpStep(d)
  BY <1>1, <1>2, <1>4, ControlOwns
     DEF CatchUpStep, Page, ConsumeEvent, Place, GiveUp, Note, Advance, Own
<1>5. CASE RescanStep(d)
  BY <1>1, <1>2, <1>5, ControlOwns
     DEF RescanStep, SubmitFound, Scan, Submit, Record, Finish, Own
<1>6. CASE ConflictStep(d)
  BY <1>1, <1>2, <1>6, ControlOwns
     DEF ConflictStep, Stage, FetchHead, Decide, SubmitNewer, SubmitCopy, GiveUp,
         WriteConflictCopy, Own
<1> QED
  BY <1>3, <1>4, <1>5, <1>6 DEF DeviceStep, Daemon

\* Files and tables too.
LEMMA StepKeeps ==
  ASSUME SyncInv, NEW d \in Device, DeviceStep(d), NEW e \in Device \ {d}
  PROVE  /\ stash'[e] = stash[e] /\ seen'[e] = seen[e]
         /\ entry'[e] = entry[e] /\ cursor'[e] = cursor[e]
<1>1. /\ stash \in [Device -> File] /\ seen \in [Device -> Nat]
      /\ entry \in [Device -> [seq : Nat, content : File]] /\ cursor \in [Device -> Nat]
  BY Known DEF StateOK
<1>2. CASE \/ UserEdits(d) \/ Crash(d) \/ Drop(d) \/ PendingFallsDue(d)
           \/ Watch(d) \/ Hint(d) \/ RetryPending(d) \/ Start(d) \/ Connect(d)
  BY <1>1, <1>2
     DEF UserEdits, Crash, Drop, PendingFallsDue, Watch, Hint, RetryPending,
         Start, Connect, Files, Tables
<1>3. CASE CatchUpStep(d)
  BY <1>1, <1>3
     DEF CatchUpStep, Page, ConsumeEvent, Place, GiveUp, Restore, Note, Advance,
         Files, Tables
<1>4. CASE RescanStep(d)
  BY <1>1, <1>4
     DEF RescanStep, SubmitFound, Scan, Submit, AcceptMain, Record, Finish, Files, Tables
<1>5. CASE ConflictStep(d)
  BY <1>1, <1>5
     DEF ConflictStep, Stage, FetchHead, Decide, SubmitNewer, AcceptMain, SubmitCopy,
         GiveUp, Restore, WriteConflictCopy, Files, Tables
<1> QED
  BY <1>2, <1>3, <1>4, <1>5 DEF DeviceStep, Daemon

\* So what remains to be shown of a step concerns its own device.
LEMMA StepOnward ==
  ASSUME SyncInv, NEW d \in Device, DeviceStep(d)
  PROVE  Onward(d)
<1>1. Grows
  BY StepAccepts, LogGrows
<1> QED
  BY <1>1, StepCounts, StepOwns, StepKeeps DEF Onward, Others, Own

-----------------------------------------------------------------------------
\* Everyone has the first version initially.
LEMMA BaseInit == ASSUME Init PROVE BaseInv
<1> DEFINE d0 == CHOOSE d \in Device : TRUE
           c0 == CHOOSE c \in Content : TRUE
           first == [kind |-> "put", by |-> d0, content |-> c0]
<1>1. log = <<first>> /\ first.kind = "put" /\ first.content = c0
  BY DEF Init
<1>2. Len(log) = 1 /\ log[1].kind = "put" /\ log[1].content = c0
  BY <1>1
<1> HIDE DEF first
<1>3. Main(1) /\ c0 \in Before(1)
  BY <1>2 DEF Main, Before
<1>4. ASSUME NEW d \in Device PROVE Honest(d)
  <2>1. /\ entry[d] = [seq |-> 1, content |-> c0] /\ seen[d] = 1
        /\ pc[d] = "down" /\ stash[d] = None
    BY DEF Init
  <2>2. entry[d].content = c0
    BY <2>1
  <2> QED
    BY <1>2, <1>3, <2>1, <2>2 DEF Honest, OnDisk, Applying, Resolving, NoNews
<1> QED
  BY <1>4 DEF BaseInv

\* Every step keeps what devices know of what their users had.
LEMMA BaseNext ==
  ASSUME "copy" \notin Breaks
  PROVE  SyncInv /\ BaseInv /\ [Next]_vars => BaseInv'
<1> SUFFICES ASSUME SyncInv, BaseInv, [Next]_vars PROVE BaseInv'
  OBVIOUS
<1>1. ASSUME NEW d \in Device, DeviceStep(d) PROVE BaseInv'
  <2>1. Onward(d)
    BY <1>1, StepOnward
  <2>2. CASE UserEdits(d) \/ Drop(d) \/ PendingFallsDue(d)
    <3>1. UNCHANGED <<log, pc, job, entry, cursor, stash, seen>>
      BY <2>2 DEF UserEdits, Drop, PendingFallsDue, Files, Tables
    <3> QED
      BY <2>1, <3>1, SameHonest DEF Onward
  <2>3. CASE CatchUpStep(d)
    BY <2>1, <2>3, HonestBegins, HonestConsumeEvent, HonestPlace, HonestNote,
       HonestAdvance, OnwardInv DEF CatchUpStep
  <2>4. CASE RescanStep(d)
    BY <2>1, <2>4, HonestSubmitFound, HonestScan, HonestSubmit, HonestRecord,
       HonestBegins, OnwardInv DEF RescanStep
  <2>5. CASE ConflictStep(d)
    BY <2>1, <2>5, HonestStage, HonestFetchHead, HonestDecide, HonestSubmitNewer,
       HonestSubmitCopy, OnwardInv DEF ConflictStep
  <2>6. CASE \/ Crash(d) \/ Watch(d) \/ Hint(d) \/ RetryPending(d) \/ Start(d)
             \/ Connect(d)
    BY <2>1, <2>6, HonestCrash, HonestBegins, OnwardInv
  <2> QED
    BY <1>1, <2>2, <2>3, <2>4, <2>5, <2>6 DEF DeviceStep, Daemon
<1>2. CASE UNCHANGED vars
  BY <1>2, SameHonest, FaultsNat DEF vars, SyncInv
<1> QED
  BY <1>1, <1>2 DEF Next, DeviceStep

\* The version a submission goes over is the one in the entry.
LEMMA ReplacesKnown ==
  ASSUME SyncInv, BaseInv, [Next]_vars, NEW d \in Device, Len(log') > Len(log),
         log'[Len(log')].by = d, log'[Len(log')].kind # "copy"
  PROVE  log[PathHead].content \in {None} \cup Before(seen[d]) \/ TornReplay(d)
<1>1. log' # log
  OBVIOUS
<1>2. PICK e \in Device : DeviceStep(e)
  BY <1>1 DEF Next, DeviceStep, vars
<1>3. ASSUME NEW k \in {"put", "delete", "copy"}, NEW c \in File, Accept(e, k, c),
             k = "copy" => c \in Content
      PROVE  log'[Len(log')].by = e /\ log'[Len(log')].kind = k
  <2>1. /\ Len(log') = Len(log) + 1
        /\ log'[Len(log) + 1] = [kind |-> k, by |-> e, content |-> c]
    BY <1>3, Known, AppendGrows
  <2> QED
    BY <2>1
<1>4. /\ pc[e] \in {"submit", "newer"} /\ PathHead <= entry[e].seq /\ e = d
  BY <1>1, <1>2, <1>3, StepAccepts DEF File
<1>5. entry[d].seq = PathHead
  BY <1>4, HeadIsUnique, Known DEF LogInv, IsHead, EntryIsEvent
<1>6. NoNews(d, entry[d].content, seen[d])
  BY <1>4 DEF BaseInv, Honest, OnDisk
<1> QED
  BY <1>5, <1>6, Known DEF EntryIsEvent, NoNews, Crashed, TornReplay

\* No version of the file is replaced that the user who replaces it had not on
\* his disk, whatever users, crashes, lost answers and conflicts do, as long as
\* the upload of a conflict copy does not fail and no crash tears a replay.
THEOREM NoVersionIsOverwrittenUnseen ==
  "copy" \notin Breaks => (Spec => NoSilentOverwrite)
<1> SUFFICES ASSUME "copy" \notin Breaks PROVE Spec => NoSilentOverwrite
  OBVIOUS
<1>1. Init => SyncInv /\ BaseInv
  BY SyncInit, BaseInit
<1>2. SyncInv /\ BaseInv /\ [Next]_vars => SyncInv' /\ BaseInv'
  BY SyncNext, BaseNext
<1>3. SyncInv /\ BaseInv /\ [Next]_vars =>
        [\A d \in Device :
           LET new == log'[Len(log')] IN
           Len(log') > Len(log) /\ new.by = d /\ new.kind # "copy" =>
             log[PathHead].content \in {None} \cup Before(seen[d])
             \/ TornReplay(d)]_vars
  BY ReplacesKnown
<1> QED
  BY <1>1, <1>2, <1>3, PTL DEF Spec, NoSilentOverwrite
=============================================================================
