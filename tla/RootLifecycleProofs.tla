------------------------ MODULE RootLifecycleProofs ------------------------
(***************************************************************************)
(* For any devices, contents and bounds: the state is well typed, a        *)
(* snapshot is what its path was at its base, an initial sync and its      *)
(* recovery write into the incarnation their device added, and no other,   *)
(* and devices that have read the log have the root the workspace has and  *)
(* know the file the server has.                                           *)
(***************************************************************************)
EXTENDS RootLifecycle, TLAPS

USE ConstantsAssumption DEF File

\* s is the newest root event.
LastAt(s) ==
  /\ s > 0 => IsRootEvent(s)
  /\ \A t \in (s + 1) .. Len(log) : ~IsRootEvent(t)

\* That there is one is carried along, for it takes induction to derive.
RootEventKnown == \E s \in 0 .. Len(log) : LastAt(s)

\* Sequences that are remembered have been given out.
SeqsKnown ==
  /\ snap.base <= Len(log)
  /\ \A d \in Device : job[d].at <= Len(log)

TypeInv == TypeOK /\ RootEventKnown /\ SeqsKnown

-----------------------------------------------------------------------------
(* The server's tables as functions of its log *)

\* The newest root event is one.
LEMMA LastRootEventIs == RootEventKnown => LastRootEvent \in 0 .. Len(log) /\ LastAt(LastRootEvent)
<1> SUFFICES ASSUME RootEventKnown
             PROVE  LastRootEvent \in 0 .. Len(log) /\ LastAt(LastRootEvent)
  OBVIOUS
<1> DEFINE P(s) == /\ s > 0 => IsRootEvent(s)
                   /\ \A t \in (s + 1) .. Len(log) : ~IsRootEvent(t)
<1>1. \E s \in 0 .. Len(log) : P(s)
  BY DEF RootEventKnown, LastAt
<1>2. LastRootEvent = CHOOSE s \in 0 .. Len(log) : P(s)
  BY DEF LastRootEvent
<1> HIDE DEF P
<1>3. LastRootEvent \in 0 .. Len(log) /\ P(LastRootEvent)
  BY <1>1, <1>2
<1> QED
  BY <1>3 DEF P, LastAt

\* No two sequences are the newest.
LEMMA LastIsUnique ==
  ASSUME TypeOK, NEW s \in 0 .. Len(log), NEW t \in 0 .. Len(log), LastAt(s), LastAt(t)
  PROVE  s = t
<1>1. s \in Nat /\ t \in Nat /\ Len(log) \in Nat
  BY DEF TypeOK
<1>2. ~(s < t) /\ ~(t < s)
  BY <1>1 DEF LastAt
<1> QED
  BY <1>1, <1>2

\* What the operators on the server's state return.
LEMMA ServerTypes ==
  TypeInv =>
    /\ Created \in 0 .. Len(log) /\ (Active => Created > 0 /\ Created = LastRootEvent)
    /\ (Active => log[Created].kind = "add")
    /\ PathHead \in 0 .. Len(log) /\ Floor \in 0 .. Len(log)
    /\ BootstrapAfterSeq \in Nat
    /\ Len(log) \in Nat
<1> SUFFICES ASSUME TypeInv
             PROVE  /\ Created \in 0 .. Len(log) /\ (Active => Created > 0 /\ Created = LastRootEvent)
                    /\ (Active => log[Created].kind = "add")
                    /\ PathHead \in 0 .. Len(log) /\ Floor \in 0 .. Len(log)
                    /\ BootstrapAfterSeq \in Nat
                    /\ Len(log) \in Nat
  OBVIOUS
<1>1. Len(log) \in Nat /\ snap.base \in 0 .. Len(log) /\ LastRootEvent \in 0 .. Len(log)
  BY LastRootEventIs DEF TypeInv, TypeOK, SeqsKnown
<1> QED
  BY <1>1 DEF Active, Created, PathHead, Floor, BootstrapAfterSeq

\* An append adds one event at the end.
LEMMA AppendGrows ==
  ASSUME TypeOK, NEW d \in Device, NEW k \in {"add", "remove", "put", "delete"},
         NEW c \in File, AppendEvent(d, k, c)
  PROVE  /\ log' \in Seq(Event) /\ Len(log') = Len(log) + 1
         /\ \A s \in 1 .. Len(log) : log'[s] = log[s]
         /\ log'[Len(log) + 1] = [kind |-> k, by |-> d, content |-> c]
<1>1. [kind |-> k, by |-> d, content |-> c] \in Event
  BY DEF Event
<1> QED
  BY <1>1 DEF AppendEvent, TypeOK

\* The newest root event is known after an append.
LEMMA AppendKnown ==
  ASSUME TypeOK, RootEventKnown,
         NEW d \in Device, NEW k \in {"add", "remove", "put", "delete"},
         NEW c \in File, AppendEvent(d, k, c)
  PROVE  RootEventKnown'
<1>1. PICK s \in 0 .. Len(log) : LastAt(s)
  BY DEF RootEventKnown
<1>a. Len(log) \in Nat
  BY DEF TypeOK
<1>b. /\ Len(log') = Len(log) + 1
      /\ \A t \in 1 .. Len(log) : log'[t] = log[t]
      /\ log'[Len(log) + 1] = [kind |-> k, by |-> d, content |-> c]
  BY AppendGrows
<1>2. /\ Len(log) \in Nat /\ Len(log') = Len(log) + 1
      /\ \A t \in 1 .. Len(log) : log'[t] = log[t]
      /\ log'[Len(log) + 1].kind = k
  BY <1>a, <1>b
<1>3. CASE k \in {"add", "remove"}
  <2>1. LastAt(Len(log))'
    BY <1>2, <1>3 DEF LastAt, IsRootEvent
  <2> QED
    BY <1>2, <2>1 DEF RootEventKnown
<1>4. CASE k \in {"put", "delete"}
  <2>1. LastAt(s)'
    BY <1>1, <1>2, <1>4 DEF LastAt, IsRootEvent
  <2> QED
    BY <1>2, <2>1 DEF RootEventKnown
<1> QED
  BY <1>3, <1>4
-----------------------------------------------------------------------------
(* Types *)

\* The blank values have the types of what they stand for.
LEMMA Values ==
  /\ Idle \in Job /\ Idle.at = 0 /\ NoEntry \in Entry /\ NoRecovery \in Recovery
BY DEF Idle, Job, Via, NoEntry, Entry, NoRecovery, Recovery

\* The names of stages and purposes are among those declared.
LEMMA Names ==
  /\ "none" \in Via /\ "first" \in Via /\ "hint" \in Via
  /\ "watch" \in Via /\ "reconcile" \in Via /\ "flush" \in Via
  /\ "retry" \in Via /\ "add1" \in Via /\ "add2" \in Via
  /\ "stage" \in Via
  /\ "idle" \in Label /\ "page" \in Label /\ "bootstrap" \in Label
  /\ "blocked" \in Label /\ "replay" \in Label /\ "scan" \in Label
  /\ "conflict" \in Label /\ "overtaken" \in Label /\ "recover" \in Label
  /\ "announce" \in Label /\ "upload" \in Label /\ "collide" \in Label
  /\ "collision" \in Label /\ "recheck" \in Label /\ "verify" \in Label
  /\ "publish" \in Label /\ "confirm" \in Label /\ "stage" \in Label
  /\ "preserve" \in Label
BY DEF Via, Label

\* The jobs and the recoveries after a step that leaves the log alone or longer.
JobsFit == job \in [Device -> Job] /\ \A e \in Device : job[e].at <= Len(log)
JobsAfter == job' \in [Device -> Job] /\ \A e \in Device : job'[e].at <= Len(log)
RecoverAfter == recover' \in [Device -> Recovery]

\* A job that fits is replaced by one that fits.
LEMMA JobGets ==
  ASSUME JobsFit, NEW d \in Device, NEW j \in Job, j.at <= Len(log),
         job' = [job EXCEPT ![d] = j]
  PROVE  JobsAfter
BY DEF JobsFit, JobsAfter

\* The moves that end or begin an operation leave jobs that fit.
LEMMA ControlTypes ==
  ASSUME TypeInv, NEW d \in Device
  PROVE  /\ UNCHANGED job => JobsAfter
         /\ Rest(d) => JobsAfter
         /\ \A v \in Via : CatchUp(d, v) => JobsAfter
         /\ \A v \in Via, w \in Nat : Rescan(d, v, w) => JobsAfter
         /\ Recovered(d) => JobsAfter /\ RecoverAfter
         /\ Fail(d) => JobsAfter /\ RecoverAfter
<1>1. /\ JobsFit /\ Len(log) \in Nat /\ recover \in [Device -> Recovery]
      /\ job[d] \in Job /\ 0 <= Len(log)
  BY ServerTypes DEF TypeInv, TypeOK, SeqsKnown, JobsFit
<1>2. UNCHANGED job => JobsAfter
  BY <1>1 DEF JobsFit, JobsAfter
<1>3. Rest(d) => JobsAfter
  <2>1. Idle \in Job /\ Idle.at <= Len(log)
    BY <1>1, Values
  <2> QED
    BY <1>1, <2>1, JobGets DEF Rest
<1>4. ASSUME NEW v \in Via, CatchUp(d, v) PROVE JobsAfter
  <2> DEFINE j == [Idle EXCEPT !.via = v, !.want = job[d].want, !.mine = job[d].mine]
  <2>1. j \in Job /\ j.at <= Len(log)
    BY <1>1, Values DEF Job
  <2>2. job' = [job EXCEPT ![d] = j]
    BY <1>4 DEF CatchUp
  <2> QED
    BY <1>1, <2>1, <2>2, JobGets
<1>5. ASSUME NEW v \in Via, NEW w \in Nat, Rescan(d, v, w) PROVE JobsAfter
  <2> DEFINE j == [job[d] EXCEPT !.via = v, !.want = w, !.again = TRUE]
  <2>1. j \in Job /\ j.at <= Len(log)
    BY <1>1 DEF Job, JobsFit
  <2>2. job' = [job EXCEPT ![d] = j]
    BY <1>1, <1>5 DEF Rescan, JobsFit
  <2> QED
    BY <1>1, <2>1, <2>2, JobGets
<1>6. ASSUME Recovered(d) PROVE JobsAfter /\ RecoverAfter
  <2> DEFINE j == [Idle EXCEPT !.via = IF job[d].via = "flush" THEN "first" ELSE "hint"]
  <2>1. j \in Job /\ j.at <= Len(log)
    BY <1>1, Values, Names DEF Job
  <2>2. job' = [job EXCEPT ![d] = j]
    BY <1>6 DEF Recovered
  <2>3. JobsAfter
    BY <1>1, <2>1, <2>2, JobGets
  <2>4. RecoverAfter
    BY <1>1, <1>6, Values DEF Recovered, RecoverAfter
  <2> QED
    BY <2>3, <2>4
<1>7. ASSUME Fail(d) PROVE JobsAfter /\ RecoverAfter
  <2>1. JobsAfter
    BY <1>2, <1>3, <1>7 DEF Fail
  <2>2. recover' = [recover EXCEPT ![d] =
                      [recover[d] EXCEPT !.due = @ /\ job[d].via \notin {"flush", "retry"}]]
    BY <1>1, <1>7 DEF Fail
  <2>3. [recover[d] EXCEPT !.due = @ /\ job[d].via \notin {"flush", "retry"}] \in Recovery
    BY <1>1 DEF Recovery
  <2> QED
    BY <1>1, <2>1, <2>2, <2>3 DEF RecoverAfter
<1> QED
  BY <1>2, <1>3, <1>4, <1>5, <1>6, <1>7

\* The single fields that actions set.
LEMMA JobFields ==
  ASSUME JobsFit, NEW d \in Device, NEW v \in Via, NEW n \in Nat, n <= Len(log),
         NEW b \in BOOLEAN, NEW c \in BOOLEAN, NEW w \in Nat, NEW m \in Entry
  PROVE  /\ job' = [job EXCEPT ![d].via = v] => JobsAfter
         /\ job' = [job EXCEPT ![d].at = n] => JobsAfter
         /\ job' = [job EXCEPT ![d].back = b] => JobsAfter
         /\ job' = [job EXCEPT ![d].again = b] => JobsAfter
         /\ job' = [job EXCEPT ![d].want = w] => JobsAfter
         /\ job' = [job EXCEPT ![d].mine = m] => JobsAfter
         /\ job' = [job EXCEPT ![d].via = v, ![d].at = n] => JobsAfter
         /\ job' = [job EXCEPT ![d].back = b, ![d].again = c] => JobsAfter
<1>1. job[d] \in Job /\ job[d].at <= Len(log)
  BY DEF JobsFit
<1>2. job' = [job EXCEPT ![d].via = v] => JobsAfter
  <2>1. [job[d] EXCEPT !.via = v] \in Job /\ [job[d] EXCEPT !.via = v].at <= Len(log)
    BY <1>1 DEF Job
  <2> QED
    BY <2>1, JobGets DEF JobsFit
<1>3. job' = [job EXCEPT ![d].at = n] => JobsAfter
  <2>1. [job[d] EXCEPT !.at = n] \in Job /\ [job[d] EXCEPT !.at = n].at <= Len(log)
    BY <1>1 DEF Job
  <2> QED
    BY <2>1, JobGets DEF JobsFit
<1>4. job' = [job EXCEPT ![d].back = b] => JobsAfter
  <2>1. [job[d] EXCEPT !.back = b] \in Job /\ [job[d] EXCEPT !.back = b].at <= Len(log)
    BY <1>1 DEF Job
  <2> QED
    BY <2>1, JobGets DEF JobsFit
<1>5. job' = [job EXCEPT ![d].again = b] => JobsAfter
  <2>1. [job[d] EXCEPT !.again = b] \in Job /\ [job[d] EXCEPT !.again = b].at <= Len(log)
    BY <1>1 DEF Job
  <2> QED
    BY <2>1, JobGets DEF JobsFit
<1>6. job' = [job EXCEPT ![d].want = w] => JobsAfter
  <2>1. [job[d] EXCEPT !.want = w] \in Job /\ [job[d] EXCEPT !.want = w].at <= Len(log)
    BY <1>1 DEF Job
  <2> QED
    BY <2>1, JobGets DEF JobsFit
<1>7. job' = [job EXCEPT ![d].mine = m] => JobsAfter
  <2>1. [job[d] EXCEPT !.mine = m] \in Job /\ [job[d] EXCEPT !.mine = m].at <= Len(log)
    BY <1>1 DEF Job
  <2> QED
    BY <2>1, JobGets DEF JobsFit
<1>8. job' = [job EXCEPT ![d].via = v, ![d].at = n] => JobsAfter
  <2> DEFINE j == [job[d] EXCEPT !.via = v, !.at = n]
  <2>1. j \in Job /\ j.at <= Len(log)
    BY <1>1 DEF Job
  <2>2. ASSUME job' = [job EXCEPT ![d].via = v, ![d].at = n]
        PROVE  job' = [job EXCEPT ![d] = j]
    BY <1>1, <2>2 DEF JobsFit
  <2> QED
    BY <2>1, <2>2, JobGets DEF JobsFit
<1>9. job' = [job EXCEPT ![d].back = b, ![d].again = c] => JobsAfter
  <2> DEFINE j == [job[d] EXCEPT !.back = b, !.again = c]
  <2>1. j \in Job /\ j.at <= Len(log)
    BY <1>1 DEF Job
  <2>2. ASSUME job' = [job EXCEPT ![d].back = b, ![d].again = c]
        PROVE  job' = [job EXCEPT ![d] = j]
    BY <1>1, <2>2 DEF JobsFit
  <2> QED
    BY <2>1, <2>2, JobGets DEF JobsFit
<1> QED
  BY <1>2, <1>3, <1>4, <1>5, <1>6, <1>7, <1>8, <1>9

DeviceStep(d) ==
  \/ UserWrites(d) \/ AddRoot(d) \/ RemoveRoot(d)
  \/ Crash(d) \/ PendingFallsDue(d)
  \/ Begin(d) \/ CatchUpStep(d) \/ RescanStep(d) \/ AddStep(d)

LEMMA StepJobs == ASSUME TypeInv, NEW d \in Device, DeviceStep(d) PROVE JobsAfter
<1>1. /\ JobsFit /\ job[d].via \in Via /\ job[d].want \in Nat
      /\ job[d].at \in Nat /\ TRUE \in BOOLEAN /\ FALSE \in BOOLEAN
      /\ Created \in Nat /\ Created <= Len(log)
      /\ PathHead \in Nat /\ PathHead <= Len(log)
      /\ snap.base \in Nat /\ snap.base <= Len(log)
      /\ Len(log) + 1 \in Nat /\ NewEntry(d) \in Entry
  <2>1. /\ job \in [Device -> Job] /\ disk[d] \in File /\ snap.base \in Nat
        /\ JobsFit /\ snap.base <= Len(log)
    BY DEF TypeInv, TypeOK, SeqsKnown, JobsFit
  <2>2. job[d].via \in Via /\ job[d].want \in Nat /\ job[d].at \in Nat
    BY <2>1 DEF Job
  <2>3. Len(log) \in Nat /\ Created \in 0 .. Len(log) /\ PathHead \in 0 .. Len(log)
    BY ServerTypes
  <2>4. NewEntry(d) \in Entry
    BY <2>1, <2>3 DEF NewEntry, Entry
  <2> QED
    BY <2>1, <2>2, <2>3, <2>4
<1>2. CASE UserWrites(d) \/ PendingFallsDue(d) \/ Consume(d) \/ Resync(d) \/ Bootstrap(d)
  BY <1>1, <1>2, ControlTypes, JobFields, Names DEF UserWrites, PendingFallsDue, Consume, Resync, Bootstrap
<1>3. CASE Crash(d)
  BY <1>1, <1>3, ControlTypes, JobFields, Names DEF Crash
<1>4. CASE Connect(d) \/ RetryPending(d)
  BY <1>1, <1>4, ControlTypes, JobFields, Names DEF Connect, RetryPending
<1>5. CASE Hint(d) \/ Watch(d) \/ RetryBlocked(d)
  BY <1>1, <1>5, ControlTypes, JobFields, Names DEF Hint, Watch, RetryBlocked
<1>6. CASE CaughtUpOn(d)
  BY <1>1, <1>6, ControlTypes, JobFields, Names DEF CaughtUpOn, Reconcile
<1>7. CASE Unblock(d)
  BY <1>1, <1>7, ControlTypes, JobFields, Names DEF Unblock, AfterBlocked
<1>8. CASE Replay(d)
  <2>1. \/ AfterBlocked(d) \/ Rest(d)
        \/ job[d].at + 1 <= Len(log) /\ job' = [job EXCEPT ![d].at = job[d].at + 1]
    BY <1>8 DEF Replay
  <2>2. job[d].at + 1 \in Nat
    BY <1>1
  <2> QED
    BY <1>1, <2>1, <2>2, ControlTypes, JobFields, Names DEF AfterBlocked
<1>9. CASE PageFails(d)
  BY <1>1, <1>9, ControlTypes, JobFields, Names DEF PageFails
<1>10. CASE SkipRescan(d)
  BY <1>1, <1>10, ControlTypes, JobFields, Names DEF SkipRescan
<1>11. CASE Scan(d)
  BY <1>1, <1>11, ControlTypes, JobFields, Names DEF Scan, FinishRescan
<1>12. CASE Overtaken(d)
  BY <1>1, <1>12, ControlTypes, JobFields, Names DEF Overtaken
<1>13. CASE ConflictFails(d)
  BY <1>1, <1>13, ControlTypes, JobFields, Names DEF ConflictFails
<1>14. CASE Resolve(d)
  BY <1>1, <1>14, ControlTypes, JobFields, Names DEF Resolve, AfterConflict, FinishRescan
<1>15. CASE Recover(d)
  BY <1>1, <1>15, ControlTypes, JobFields, Names DEF Recover
<1>16. CASE AddRoot(d) \/ RemoveRoot(d)
  BY <1>1, <1>16, ControlTypes, JobFields, Names DEF AddRoot, RemoveRoot
<1>17. CASE Announce(d)
  BY <1>1, <1>17, ControlTypes, JobFields, Names DEF Announce, AddFails
<1>18. CASE Upload(d)
  BY <1>1, <1>18, ControlTypes, JobFields, Names DEF Upload, AddFails
<1>19. CASE Collide(d)
  BY <1>1, <1>19, ControlTypes, JobFields, Names DEF Collide, AddFails
<1>20. CASE Recheck(d)
  BY <1>1, <1>20, ControlTypes, JobFields, Names DEF Recheck, AddFails
<1>21. CASE Verify(d)
  BY <1>1, <1>21, ControlTypes, JobFields, Names DEF Verify, AddFails
<1>22. CASE Publish(d)
  BY <1>1, <1>22, ControlTypes, JobFields, Names DEF Publish
<1>23. CASE Confirm(d)
  BY <1>1, <1>23, ControlTypes, JobFields, Names DEF Confirm, AddFails
<1>24. CASE Stage(d)
  <2>1. \/ UNCHANGED job
        \/ job' = [job EXCEPT ![d].via = "stage", ![d].at = Created]
    BY <1>24 DEF Stage, AddFails
  <2>2. job' = [job EXCEPT ![d].via = "stage", ![d].at = Created] => JobsAfter
    BY <1>1, JobFields, Names
  <2> QED
    BY <2>1, <2>2, ControlTypes
<1>25. CASE Preserve(d)
  BY <1>1, <1>25, ControlTypes, JobFields, Names DEF Preserve
<1> QED
  BY <1>2, <1>3, <1>4, <1>5, <1>6, <1>7, <1>8, <1>9, <1>10, <1>11, <1>12, <1>13, <1>14, <1>15, <1>16, <1>17, <1>18, <1>19, <1>20, <1>21, <1>22, <1>23, <1>24, <1>25
     DEF DeviceStep, Begin, CatchUpStep, RescanStep, AddStep

LEMMA StepPc == ASSUME TypeInv, NEW d \in Device, DeviceStep(d) PROVE pc' \in [Device -> Label]
<1>1. pc \in [Device -> Label]
  BY DEF TypeInv, TypeOK
<1>2. CASE UserWrites(d) \/ PendingFallsDue(d) \/ Consume(d)
  BY <1>1, Names, <1>2 DEF UserWrites, PendingFallsDue, Consume
<1>3. CASE Crash(d) \/ Connect(d) \/ Hint(d) \/ Watch(d) \/ RetryPending(d) \/ RetryBlocked(d)
  BY <1>1, Names, <1>3 DEF Crash, Connect, Hint, Watch, RetryPending, RetryBlocked, Goto, Rest, CatchUp, Rescan
<1>4. CASE Resync(d) \/ Bootstrap(d) \/ CaughtUpOn(d)
  BY <1>1, Names, <1>4 DEF Resync, Bootstrap, CaughtUpOn, Goto, Reconcile, Rescan, Rest, Recovered
<1>5. CASE Unblock(d) \/ Replay(d) \/ PageFails(d)
  BY <1>1, Names, <1>5 DEF Unblock, Replay, PageFails, Goto, AfterBlocked, Rescan, Rest, Fail
<1>6. CASE SkipRescan(d) \/ Scan(d) \/ Overtaken(d) \/ ConflictFails(d) \/ Recover(d)
  BY <1>1, Names, <1>6 DEF SkipRescan, Scan, Overtaken, ConflictFails, Recover, Goto, FinishRescan, CatchUp, Fail, Rest, Recovered, Rescan
<1>7. CASE Resolve(d)
  BY <1>1, Names, <1>7 DEF Resolve, Goto, AfterConflict, FinishRescan, CatchUp, Fail, Rest, Rescan
<1>8. CASE AddRoot(d) \/ RemoveRoot(d) \/ Announce(d) \/ Upload(d) \/ Collide(d)
  BY <1>1, Names, <1>8 DEF AddRoot, RemoveRoot, Announce, Upload, Collide, Goto, CatchUp, AddFails
<1>9. CASE Recheck(d) \/ Verify(d) \/ Publish(d)
  BY <1>1, Names, <1>9 DEF Recheck, Verify, Publish, Goto, AddFails, Rescan, CatchUp
<1>10. CASE Confirm(d) \/ Stage(d) \/ Preserve(d)
  BY <1>1, Names, <1>10 DEF Confirm, Stage, Preserve, Goto, AddFails, Rest
<1> QED
  BY <1>2, <1>3, <1>4, <1>5, <1>6, <1>7, <1>8, <1>9, <1>10
     DEF DeviceStep, Begin, CatchUpStep, RescanStep, AddStep

LEMMA StepRecover == ASSUME TypeInv, NEW d \in Device, DeviceStep(d) PROVE RecoverAfter
<1>1. recover \in [Device -> Recovery]
  BY DEF TypeInv, TypeOK
<1>r. [queued |-> TRUE, due |-> TRUE, base |-> job[d].want] \in Recovery
  BY DEF TypeInv, TypeOK, Job, Recovery
<1>2. CASE UserWrites(d) \/ Connect(d) \/ Hint(d) \/ Watch(d) \/ RetryPending(d) \/ RetryBlocked(d) \/ Crash(d)
  BY <1>1, <1>2 DEF UserWrites, Connect, Hint, Watch, RetryPending, RetryBlocked, Crash, RecoverAfter, Tables
<1>3. CASE PendingFallsDue(d)
  BY <1>1, <1>3 DEF PendingFallsDue, RecoverAfter, Recovery
<1>4. CASE Consume(d) \/ Bootstrap(d)
  BY <1>1, Values, <1>4 DEF Consume, Bootstrap, Apply, MarkRemoved, DropRoot, RecoverAfter
<1>5. CASE Replay(d)
  BY <1>1, Values, <1>5 DEF Replay, Apply, MarkRemoved, RecoverAfter
<1>6. CASE Resync(d) \/ Unblock(d) \/ Overtaken(d)
  BY <1>1, <1>6 DEF Resync, Unblock, Overtaken, RecoverAfter, Tables
<1>7. CASE PageFails(d) \/ ConflictFails(d) \/ SkipRescan(d) \/ CaughtUpOn(d)
  BY <1>1, ControlTypes, <1>7 DEF PageFails, ConflictFails, SkipRescan, CaughtUpOn, RecoverAfter
<1>8. CASE Scan(d) \/ Resolve(d)
  BY <1>1, ControlTypes, <1>8 DEF Scan, Resolve, RecoverAfter
<1>9. CASE Recover(d)
  BY <1>1, ControlTypes, <1>9 DEF Recover, RecoverAfter
<1>10. CASE AddRoot(d) \/ RemoveRoot(d) \/ Announce(d) \/ Upload(d)
  BY <1>1, <1>10 DEF AddRoot, RemoveRoot, Announce, Upload, RecoverAfter, Tables
<1>11. CASE Collide(d) \/ Recheck(d) \/ Verify(d) \/ Publish(d) \/ Confirm(d) \/ Stage(d)
  BY <1>1, <1>11 DEF Collide, Recheck, Verify, Publish, Confirm, Stage, RecoverAfter, Asks, Tables
<1>12. CASE Preserve(d)
  BY <1>1, <1>r, <1>12 DEF Preserve, RecoverAfter
<1> QED
  BY <1>2, <1>3, <1>4, <1>5, <1>6, <1>7, <1>8, <1>9, <1>10, <1>11, <1>12
     DEF DeviceStep, Begin, CatchUpStep, RescanStep, AddStep

RootState == {"none", "active", "blocked", "removed"}

LEMMA StepRoots == ASSUME TypeInv, NEW d \in Device, DeviceStep(d) PROVE root' \in [Device -> RootState] /\ staged' \in [Device -> BOOLEAN]
<1>1. root \in [Device -> RootState] /\ staged \in [Device -> BOOLEAN]
  BY DEF TypeInv, TypeOK, RootState
<1>2. CASE UserWrites(d) \/ Connect(d) \/ Hint(d) \/ Watch(d) \/ RetryPending(d) \/ RetryBlocked(d) \/ PendingFallsDue(d)
  BY <1>1, <1>2 DEF UserWrites, Connect, Hint, Watch, RetryPending, RetryBlocked, PendingFallsDue, Tables
<1>3. CASE Crash(d)
  BY <1>1, <1>3 DEF Crash, Tables
<1>4. CASE Consume(d) \/ Replay(d)
  BY <1>1, <1>4 DEF Consume, Replay, Apply, MarkRemoved, EnsureRoot, StateAfterAdd, StagedAfterAdd, RootState
<1>5. CASE Bootstrap(d) \/ Unblock(d)
  BY <1>1, <1>5 DEF Bootstrap, Unblock, TakeOver, EnsureRoot, StateAfterAdd, StagedAfterAdd, DropRoot, MarkRemoved, RootState
<1>6. CASE Resync(d) \/ CaughtUpOn(d) \/ PageFails(d) \/ SkipRescan(d) \/ ConflictFails(d) \/ Overtaken(d)
  BY <1>1, <1>6 DEF Resync, CaughtUpOn, PageFails, SkipRescan, ConflictFails, Overtaken, Tables
<1>7. CASE Scan(d)
  BY <1>1, <1>7 DEF Scan, FinishRescan
<1>8. CASE Resolve(d)
  BY <1>1, <1>8 DEF Resolve, AfterConflict, FinishRescan
<1>9. CASE Recover(d)
  BY <1>1, <1>9 DEF Recover, MarkRemoved, RootState
<1>10. CASE AddRoot(d) \/ RemoveRoot(d) \/ Announce(d) \/ Upload(d)
  BY <1>1, <1>10 DEF AddRoot, RemoveRoot, Announce, Upload, Tables, RootState
<1>11. CASE Collide(d) \/ Recheck(d) \/ Verify(d) \/ Publish(d) \/ Confirm(d) \/ Stage(d)
  BY <1>1, <1>11 DEF Collide, Recheck, Verify, Publish, Confirm, Stage, Asks, Tables
<1>12. CASE Preserve(d)
  BY <1>1, <1>12 DEF Preserve
<1> QED
  BY <1>2, <1>3, <1>4, <1>5, <1>6, <1>7, <1>8, <1>9, <1>10, <1>11, <1>12
     DEF DeviceStep, Begin, CatchUpStep, RescanStep, AddStep

LEMMA StepNumbers == ASSUME TypeInv, NEW d \in Device, DeviceStep(d) PROVE snapSeq' \in [Device -> Nat] /\ cursor' \in [Device -> Nat] /\ cut' \in [Device -> Nat]
<1>1. /\ snapSeq \in [Device -> Nat] /\ cursor \in [Device -> Nat] /\ cut \in [Device -> Nat]
      /\ Len(log) \in Nat /\ BootstrapAfterSeq \in Nat /\ snap.base \in Nat
  BY ServerTypes DEF TypeInv, TypeOK
<1>n. Len(log) + 1 \in Nat /\ cursor[d] + 1 \in Nat
  BY <1>1
<1>2. CASE UserWrites(d) \/ Connect(d) \/ Hint(d) \/ Watch(d) \/ RetryPending(d) \/ RetryBlocked(d) \/ PendingFallsDue(d)
  BY <1>1, <1>n, <1>2 DEF UserWrites, Connect, Hint, Watch, RetryPending, RetryBlocked, PendingFallsDue, Tables, Bounds
<1>3. CASE Crash(d)
  BY <1>1, <1>n, <1>3 DEF Crash, Tables, CutShort
<1>4. CASE Consume(d)
  BY <1>1, <1>n, <1>4 DEF Consume, Apply, EnsureRoot, Bounds
<1>5. CASE Replay(d)
  <2>1. snapSeq' = snapSeq \/ EnsureRoot(d, 0)
    BY <1>5 DEF Replay, Apply
  <2>2. cursor' = cursor /\ (cut' = cut \/ cut' = [cut EXCEPT ![d] = Len(log) + 1])
    BY <1>5 DEF Replay, CutShort
  <2>3. snapSeq' \in [Device -> Nat]
    BY <1>1, <2>1 DEF EnsureRoot
  <2>4. cut' \in [Device -> Nat]
    BY <1>1, <1>n, <2>2
  <2> QED
    BY <1>1, <2>2, <2>3, <2>4
<1>6. CASE Bootstrap(d) \/ Unblock(d)
  BY <1>1, <1>n, <1>6 DEF Bootstrap, Unblock, TakeOver, EnsureRoot, Bounds
<1>7. CASE Resync(d) \/ CaughtUpOn(d) \/ PageFails(d) \/ SkipRescan(d) \/ ConflictFails(d) \/ Overtaken(d)
  BY <1>1, <1>n, <1>7 DEF Resync, CaughtUpOn, PageFails, SkipRescan, ConflictFails, Overtaken, Tables, Bounds
<1>8. CASE Scan(d) \/ Resolve(d) \/ Recover(d)
  BY <1>1, <1>n, <1>8 DEF Scan, Resolve, Recover, Bounds
<1>9. CASE AddRoot(d)
  <2>1. cut' = cut \/ cut' = [cut EXCEPT ![d] = Len(log) + 1]
    BY <1>9 DEF AddRoot, CutShort
  <2>2. cut' \in [Device -> Nat]
    BY <1>1, <1>n, <2>1
  <2>3. snapSeq' = [snapSeq EXCEPT ![d] = 0] /\ cursor' = cursor
    BY <1>9 DEF AddRoot
  <2> QED
    BY <1>1, <1>n, <2>2, <2>3
<1>10. CASE RemoveRoot(d) \/ Announce(d) \/ Upload(d)
  BY <1>1, <1>n, <1>10 DEF RemoveRoot, Announce, Upload, Tables
<1>11. CASE Collide(d) \/ Recheck(d) \/ Verify(d) \/ Publish(d) \/ Confirm(d) \/ Stage(d) \/ Preserve(d)
  BY <1>1, <1>n, <1>11 DEF Collide, Recheck, Verify, Publish, Confirm, Stage, Preserve, Asks, Tables
<1> QED
  BY <1>2, <1>3, <1>4, <1>5, <1>6, <1>7, <1>8, <1>9, <1>10, <1>11
     DEF DeviceStep, Begin, CatchUpStep, RescanStep, AddStep

LEMMA StepBounds == ASSUME TypeInv, NEW d \in Device, DeviceStep(d) PROVE steps' \in 0 .. MaxSteps /\ faults' \in 0 .. MaxFaults
<1>1. steps \in 0 .. MaxSteps /\ faults \in 0 .. MaxFaults
  BY DEF TypeInv, TypeOK
<1>2. CASE UserWrites(d) \/ Connect(d) \/ Hint(d) \/ Watch(d) \/ RetryPending(d) \/ RetryBlocked(d) \/ PendingFallsDue(d)
  BY <1>1, <1>2 DEF UserWrites, Connect, Hint, Watch, RetryPending, RetryBlocked, PendingFallsDue, Bounds
<1>3. CASE Crash(d)
  BY <1>1, <1>3 DEF Crash, Broken
<1>4. CASE Consume(d) \/ Replay(d) \/ Bootstrap(d) \/ Unblock(d) \/ Resync(d) \/ CaughtUpOn(d)
  BY <1>1, <1>4 DEF Consume, Replay, Bootstrap, Unblock, Resync, CaughtUpOn, Bounds
<1>5. CASE PageFails(d) \/ SkipRescan(d) \/ ConflictFails(d) \/ Overtaken(d) \/ Scan(d) \/ Resolve(d) \/ Recover(d)
  BY <1>1, <1>5 DEF PageFails, SkipRescan, ConflictFails, Overtaken, Scan, Resolve, Recover, Bounds, Broken
<1>6. CASE AddRoot(d) \/ RemoveRoot(d) \/ Announce(d) \/ Upload(d)
  BY <1>1, <1>6 DEF AddRoot, RemoveRoot, Announce, Upload, Broken
<1>7. CASE Collide(d) \/ Recheck(d) \/ Verify(d) \/ Publish(d) \/ Confirm(d) \/ Stage(d) \/ Preserve(d)
  BY <1>1, <1>7 DEF Collide, Recheck, Verify, Publish, Confirm, Stage, Preserve, Asks, Broken
<1> QED
  BY <1>2, <1>3, <1>4, <1>5, <1>6, <1>7
     DEF DeviceStep, Begin, CatchUpStep, RescanStep, AddStep

\* What the steps that touch the file leave on the disk and in the entries.
FilesAfter == disk' \in [Device -> File] /\ copies' \in [Device -> SUBSET Content]
EntriesAfter == entry' \in [Device -> Entry]

\* An event has a content.
LEMMA LogContents ==
  ASSUME TypeInv, NEW s \in 1 .. Len(log)
  PROVE  log[s].content \in File /\ s \in Nat
<1>1. log \in Seq(Event)
  BY DEF TypeInv, TypeOK
<1>2. log[s] \in Event
  BY <1>1
<1> QED
  BY <1>2 DEF Event

\* Entries are replaced by entries.
LEMMA EntryGets ==
  ASSUME TypeInv, NEW d \in Device, NEW e \in Entry, entry' = [entry EXCEPT ![d] = e]
  PROVE  EntriesAfter
BY DEF TypeInv, TypeOK, EntriesAfter

\* What is applied was in the log.
LEMMA ApplyContentTypes ==
  ASSUME TypeInv, NEW d \in Device, NEW s \in 1 .. Len(log), ApplyContent(d, s)
  PROVE  disk' \in [Device -> File] /\ EntriesAfter
<1>1. disk \in [Device -> File] /\ entry \in [Device -> Entry]
  BY DEF TypeInv, TypeOK
<1>2. log[s].content \in File /\ s \in Nat
  BY LogContents
<1>3. [seq |-> s, content |-> log[s].content] \in Entry
  BY <1>2 DEF Entry
<1>4. CASE UNCHANGED <<disk, entry>>
  BY <1>1, <1>4 DEF EntriesAfter
<1>5. CASE ~UNCHANGED <<disk, entry>>
  <2>1. /\ entry' = [entry EXCEPT ![d] = [seq |-> s, content |-> log[s].content]]
        /\ disk' = [disk EXCEPT ![d] = IF staged[d] THEN @ ELSE log[s].content]
    BY <1>5 DEF ApplyContent
  <2>2. disk' \in [Device -> File]
    BY <1>1, <1>2, <2>1
  <2> QED
    BY <1>3, <2>1, <2>2, EntryGets
<1> QED
  BY <1>4, <1>5

LEMMA ApplyTypes ==
  ASSUME TypeInv, NEW d \in Device, NEW s \in 1 .. Len(log), Apply(d, s)
  PROVE  FilesAfter /\ EntriesAfter
<1>1. /\ disk \in [Device -> File] /\ entry \in [Device -> Entry]
      /\ copies \in [Device -> SUBSET Content]
  BY DEF TypeInv, TypeOK
<1>2. copies' \in [Device -> SUBSET Content]
  BY <1>1 DEF Apply
<1>3. CASE UNCHANGED <<disk, entry>>
  BY <1>1, <1>2, <1>3 DEF FilesAfter, EntriesAfter
<1>4. CASE UNCHANGED disk /\ MarkRemoved(d)
  BY <1>1, <1>2, <1>4, Values, EntryGets DEF FilesAfter, MarkRemoved
<1>5. CASE ApplyContent(d, s)
  BY <1>2, <1>5, ApplyContentTypes DEF FilesAfter
<1> QED
  BY <1>3, <1>4, <1>5 DEF Apply

LEMMA TakeOverTypes ==
  ASSUME TypeInv, NEW d \in Device, TakeOver(d)
  PROVE  FilesAfter /\ EntriesAfter
<1>1. /\ disk \in [Device -> File] /\ copies \in [Device -> SUBSET Content]
      /\ entry \in [Device -> Entry] /\ snap.content \in File /\ snap.base \in Nat
  BY DEF TypeInv, TypeOK
<1>2. CASE UNCHANGED <<disk, copies, entry>>
  BY <1>1, <1>2 DEF FilesAfter, EntriesAfter
<1>3. CASE ApplySnapshot(d)
  <2>1. FilesAfter
    BY <1>1, <1>3 DEF ApplySnapshot, FilesAfter
  <2>2. ASSUME NEW n \in {entry[d].seq, snap.base}
        PROVE  [seq |-> n, content |-> snap.content] \in Entry
    BY <1>1 DEF Entry
  <2>3. \E n \in {entry[d].seq, snap.base} :
           entry' = [entry EXCEPT ![d] = [seq |-> n, content |-> snap.content]]
    BY <1>1, <1>3 DEF ApplySnapshot
  <2> QED
    BY <2>1, <2>2, <2>3, EntryGets
<1> QED
  BY <1>2, <1>3 DEF TakeOver

LEMMA StepFiles == ASSUME TypeInv, NEW d \in Device, DeviceStep(d) PROVE FilesAfter /\ EntriesAfter
<1>1. /\ disk \in [Device -> File] /\ copies \in [Device -> SUBSET Content]
      /\ entry \in [Device -> Entry] /\ job[d].at \in Nat /\ job[d].at <= Len(log)
      /\ cursor[d] \in Nat /\ Len(log) \in Nat /\ Floor \in Nat
  <2>1. /\ disk \in [Device -> File] /\ copies \in [Device -> SUBSET Content]
        /\ entry \in [Device -> Entry] /\ job[d] \in Job /\ job[d].at <= Len(log)
        /\ cursor[d] \in Nat
    BY DEF TypeInv, TypeOK, SeqsKnown
  <2> QED
    BY <2>1, ServerTypes DEF Job
<1>n. NewEntry(d) \in Entry /\ NoEntry \in Entry
  BY <1>1, Values DEF NewEntry, Entry
<1>h. ASSUME NEW s \in 1 .. Len(log)
      PROVE  [seq |-> s, content |-> log[s].content] \in Entry
  BY LogContents DEF Entry
<1>k. cursor[d] < Len(log) => cursor[d] + 1 \in 1 .. Len(log)
  BY <1>1
<1>a. job[d].at < Len(log) => job[d].at + 1 \in 1 .. Len(log)
  BY <1>1
<1>s. job[d].at > 0 => job[d].at \in 1 .. Len(log)
  BY <1>1
<1>f. job[d].at > Floor => job[d].at \in 1 .. Len(log)
  BY <1>1
<1>2. CASE UserWrites(d)
  BY <1>1, <1>2 DEF UserWrites, FilesAfter, EntriesAfter, Tables
<1>3. CASE Connect(d) \/ Hint(d) \/ Watch(d) \/ RetryPending(d) \/ RetryBlocked(d) \/ PendingFallsDue(d) \/ Crash(d)
  BY <1>1, <1>3 DEF Connect, Hint, Watch, RetryPending, RetryBlocked, PendingFallsDue, Crash, FilesAfter, EntriesAfter, Files, Tables
<1>4. CASE Consume(d)
  BY <1>1, <1>k, ApplyTypes, <1>4 DEF Consume, FilesAfter, EntriesAfter, Files
<1>5. CASE Replay(d)
  BY <1>1, <1>a, ApplyTypes, <1>5 DEF Replay, FilesAfter, EntriesAfter, Files
<1>6. CASE Bootstrap(d)
  BY <1>1, TakeOverTypes, Values, EntryGets, <1>6 DEF Bootstrap, FilesAfter, EntriesAfter, Files, DropRoot, MarkRemoved
<1>7. CASE Unblock(d)
  BY <1>1, TakeOverTypes, <1>7 DEF Unblock, FilesAfter, EntriesAfter, Files
<1>8. CASE Resync(d) \/ CaughtUpOn(d) \/ PageFails(d) \/ SkipRescan(d) \/ ConflictFails(d)
  BY <1>1, <1>8 DEF Resync, CaughtUpOn, PageFails, SkipRescan, ConflictFails, FilesAfter, EntriesAfter, Files, Tables
<1>9. CASE Scan(d)
  BY <1>1, <1>n, EntryGets, <1>9 DEF Scan, FilesAfter, EntriesAfter, Files
<1>10. CASE Recover(d)
  BY <1>1, <1>n, EntryGets, <1>10 DEF Recover, FilesAfter, EntriesAfter, Files, MarkRemoved
<1>11. CASE Overtaken(d)
  BY <1>1, <1>f, ApplyContentTypes, <1>11 DEF Overtaken, FilesAfter, EntriesAfter, Files
<1>12. CASE Resolve(d)
  <2> DEFINE at == job[d].at
             head == IF log[at].kind = "delete" THEN entry[d]
                     ELSE [seq |-> at, content |-> log[at].content]
             there == IF log[at].kind = "delete" \/ staged[d] THEN disk[d]
                      ELSE log[at].content
  <2>1. at \in 1 .. Len(log) /\ disk[d] \in Content
    BY <1>1, <1>f, <1>12 DEF Resolve
  <2>2. head \in Entry /\ there \in File
    BY <1>1, <1>h, <2>1, LogContents
  <2>3. \/ UNCHANGED <<disk, copies>>
        \/ /\ copies' = [copies EXCEPT ![d] = @ \cup {disk[d]}]
           /\ \E f \in {disk[d], there} : disk' = [disk EXCEPT ![d] = f]
    BY <1>12 DEF Resolve, Files
  <2>4. \E e \in {head, NewEntry(d)} : entry' = [entry EXCEPT ![d] = e]
    BY <1>12 DEF Resolve
  <2>5. FilesAfter
    BY <1>1, <2>1, <2>2, <2>3 DEF FilesAfter
  <2> HIDE DEF head
  <2>6. EntriesAfter
    BY <1>n, <2>2, <2>4, EntryGets
  <2> QED
    BY <2>5, <2>6
<1>13. CASE AddRoot(d) \/ RemoveRoot(d) \/ Announce(d)
  BY <1>1, <1>13 DEF AddRoot, RemoveRoot, Announce, FilesAfter, EntriesAfter, Files, Tables
<1>14. CASE Upload(d)
  BY <1>1, <1>n, EntryGets, <1>14 DEF Upload, FilesAfter, EntriesAfter, Files
<1>15. CASE Collide(d) \/ Recheck(d) \/ Verify(d) \/ Publish(d) \/ Confirm(d) \/ Stage(d) \/ Preserve(d)
  BY <1>1, <1>15 DEF Collide, Recheck, Verify, Publish, Confirm, Stage, Preserve, FilesAfter, EntriesAfter, Asks, Files, Tables
<1> QED
  BY <1>2, <1>3, <1>4, <1>5, <1>6, <1>7, <1>8, <1>9, <1>10, <1>11, <1>12, <1>13, <1>14, <1>15
     DEF DeviceStep, Begin, CatchUpStep, RescanStep, AddStep

\* The log grows by at most one event, and a snapshot's base is in it.
ServerAfter ==
  /\ log' \in Seq(Event) /\ snap' \in [base : Nat, content : File]
  /\ Len(log) <= Len(log') /\ snap'.base <= Len(log')
  /\ RootEventKnown'

\* An append leaves a log of events.
LEMMA Appended ==
  ASSUME TypeInv, NEW d \in Device, NEW k \in {"add", "remove", "put", "delete"},
         NEW c \in File, AppendEvent(d, k, c), snap' \in {snap, NoSnapshot}
  PROVE  ServerAfter
<1>1. /\ snap \in [base : Nat, content : File] /\ snap.base <= Len(log)
      /\ Len(log) \in Nat
  BY DEF TypeInv, TypeOK, SeqsKnown
<1>2. log' \in Seq(Event) /\ Len(log') = Len(log) + 1
  BY AppendGrows DEF TypeInv
<1>3. RootEventKnown'
  BY AppendKnown DEF TypeInv
<1>4. NoSnapshot \in [base : Nat, content : File] /\ NoSnapshot.base = 0
  BY DEF NoSnapshot
<1>5. snap' \in [base : Nat, content : File] /\ snap'.base <= Len(log) + 1
  BY <1>1, <1>4
<1> QED
  BY <1>1, <1>2, <1>3, <1>5 DEF ServerAfter

\* A saved snapshot leaves the log alone.
LEMMA LogStays ==
  ASSUME TypeInv, UNCHANGED log,
         snap' \in [base : Nat, content : File], snap'.base <= Len(log)
  PROVE  ServerAfter
<1>1. log \in Seq(Event) /\ Len(log) \in Nat
  BY DEF TypeInv, TypeOK
<1>2. RootEventKnown'
  BY DEF TypeInv, RootEventKnown, LastAt, IsRootEvent
<1> QED
  BY <1>1, <1>2 DEF ServerAfter

\* A submission appends, or is refused.
LEMMA Submitted ==
  ASSUME TypeInv, NEW d \in Device, Submit(d), UNCHANGED snap
  PROVE  ServerAfter
<1>1. disk[d] \in File
  BY DEF TypeInv, TypeOK
<1>2. AppendEvent(d, "delete", disk[d]) \/ AppendEvent(d, "put", disk[d])
  BY DEF Submit
<1> QED
  BY <1>1, <1>2, Appended

LEMMA StepServer == ASSUME TypeInv, NEW d \in Device, DeviceStep(d) PROVE ServerAfter
<1>1. UNCHANGED <<log, snap>> => ServerAfter
  BY LogStays DEF TypeInv, TypeOK, SeqsKnown
<1>0. Submit(d) /\ UNCHANGED snap => ServerAfter
  BY Submitted
<1>a. \A k \in {"add", "remove"} : AppendEvent(d, k, None) /\ snap' = NoSnapshot => ServerAfter
  BY Appended
<1>s. /\ job[d].mine.seq \in Nat /\ job[d].mine.content \in File
      /\ Len(log) \in Nat
  BY ServerTypes DEF TypeInv, TypeOK, Job, Entry
<1>2. CASE UserWrites(d) \/ Connect(d) \/ Hint(d) \/ Watch(d) \/ RetryPending(d) \/ RetryBlocked(d) \/ PendingFallsDue(d) \/ Crash(d)
  BY <1>1, <1>2 DEF UserWrites, Connect, Hint, Watch, RetryPending, RetryBlocked, PendingFallsDue, Crash, Server
<1>3. CASE Consume(d) \/ Replay(d) \/ Bootstrap(d) \/ Unblock(d) \/ Resync(d) \/ CaughtUpOn(d) \/ PageFails(d) \/ SkipRescan(d) \/ ConflictFails(d) \/ Overtaken(d) \/ Recover(d)
  BY <1>1, <1>3 DEF Consume, Replay, Bootstrap, Unblock, Resync, CaughtUpOn, PageFails, SkipRescan, ConflictFails, Overtaken, Recover, Server
<1>4. CASE Scan(d)
  BY <1>1, <1>0, <1>4 DEF Scan
<1>5. CASE Resolve(d)
  BY <1>1, <1>0, <1>5 DEF Resolve
<1>6. CASE AddRoot(d)
  BY <1>1, <1>6 DEF AddRoot, Server
<1>7. CASE RemoveRoot(d)
  BY <1>1, <1>a, <1>7 DEF RemoveRoot
<1>8. CASE Announce(d)
  BY <1>1, <1>a, <1>8 DEF Announce, AppendRootAdd, Server
<1>9. CASE Upload(d)
  BY <1>1, <1>0, <1>9 DEF Upload
<1>10. CASE Collide(d) \/ Recheck(d) \/ Verify(d) \/ Confirm(d) \/ Stage(d) \/ Preserve(d)
  BY <1>1, <1>10 DEF Collide, Recheck, Verify, Confirm, Stage, Preserve, Asks, Server
<1>11. CASE Publish(d)
  BY <1>1, <1>s, LogStays, <1>11 DEF Publish, SnapshotAccepted
<1> QED
  BY <1>2, <1>3, <1>4, <1>5, <1>6, <1>7, <1>8, <1>9, <1>10, <1>11
     DEF DeviceStep, Begin, CatchUpStep, RescanStep, AddStep

LEMMA TypeNext == TypeInv /\ [Next]_vars => TypeInv'
<1> SUFFICES ASSUME TypeInv, [Next]_vars PROVE TypeInv'
  OBVIOUS
<1>1. ASSUME NEW d \in Device, DeviceStep(d) PROVE TypeInv'
  <2>1. /\ JobsAfter /\ pc' \in [Device -> Label] /\ RecoverAfter
        /\ root' \in [Device -> RootState] /\ staged' \in [Device -> BOOLEAN]
        /\ snapSeq' \in [Device -> Nat] /\ cursor' \in [Device -> Nat]
        /\ cut' \in [Device -> Nat]
        /\ steps' \in 0 .. MaxSteps /\ faults' \in 0 .. MaxFaults
        /\ FilesAfter /\ EntriesAfter /\ ServerAfter
    BY <1>1, StepJobs, StepPc, StepRecover, StepRoots, StepNumbers, StepBounds,
       StepFiles, StepServer
  <2>2. TypeOK'
    BY <2>1 DEF TypeOK, JobsAfter, RecoverAfter, RootState, FilesAfter, EntriesAfter,
                ServerAfter
  <2>3. SeqsKnown'
    <3>1. Len(log) \in Nat /\ Len(log') \in Nat
      BY <2>1 DEF TypeInv, TypeOK, ServerAfter
    <3>2. \A e \in Device : job'[e].at \in Nat
      BY <2>1 DEF JobsAfter, Job
    <3> QED
      BY <2>1, <3>1, <3>2 DEF SeqsKnown, JobsAfter, ServerAfter
  <2> QED
    BY <2>1, <2>2, <2>3 DEF TypeInv, ServerAfter
<1>2. CASE UNCHANGED vars
  BY <1>2 DEF vars, TypeInv, TypeOK, SeqsKnown, RootEventKnown, LastAt, IsRootEvent
<1> QED
  BY <1>1, <1>2 DEF Next, DeviceStep

LEMMA TypeInit == Init => TypeInv
<1> SUFFICES ASSUME Init PROVE TypeInv
  OBVIOUS
<1>1. log = <<>> /\ log \in Seq(Event) /\ Len(log) = 0
  BY DEF Init
<1>2. TypeOK
  BY <1>1, Values DEF Init, TypeOK, NoSnapshot, Label
<1>3. RootEventKnown
  <2>1. LastAt(0)
    BY <1>1 DEF LastAt
  <2> QED
    BY <1>1, <2>1 DEF RootEventKnown
<1>4. SeqsKnown
  BY <1>1, Values DEF Init, SeqsKnown, NoSnapshot
<1> QED
  BY <1>2, <1>3, <1>4 DEF TypeInv

\* Every variable keeps its type, whatever users, devices and faults do: no
\* operation reads an event that the server does not have or leaves a bootstrap
\* cursor below zero.
THEOREM TypeCorrect == Spec => []TypeOK
<1>1. TypeInv => TypeOK
  BY DEF TypeInv
<1> QED
  BY TypeInit, TypeNext, <1>1, PTL DEF Spec

-----------------------------------------------------------------------------
(* What a step does to the server, and to the rest of the devices *)

\* What publishInitialSnapshot of device d saves.
Saves(d) ==
  /\ SnapshotAccepted(job[d].mine.seq)
  /\ snap' = [base |-> job[d].mine.seq, content |-> job[d].mine.content]

\* A content event is only submitted into an incarnation the server accepts.
Submits(d) ==
  /\ Submit(d) /\ UNCHANGED snap
  /\ ~Refused(job[d].want)
  /\ pc[d] \in {"scan", "conflict", "collision", "upload"}

ServerStep(d) ==
  \/ UNCHANGED <<log, snap>>
  \/ UNCHANGED log /\ Saves(d)
  \/ AppendEvent(d, "add", None) /\ snap' = NoSnapshot
  \/ AppendEvent(d, "remove", None) /\ snap' = NoSnapshot
  \/ Submits(d)

\* The ways in which a step of a device changes the server.
LEMMA StepServerIs == ASSUME NEW d \in Device, DeviceStep(d) PROVE ServerStep(d)
<1>1. CASE UserWrites(d) \/ Connect(d) \/ Hint(d) \/ Watch(d) \/ RetryPending(d) \/ RetryBlocked(d) \/ PendingFallsDue(d) \/ Crash(d)
  BY <1>1 DEF ServerStep, UserWrites, Connect, Hint, Watch, RetryPending, RetryBlocked, PendingFallsDue, Crash, Server
<1>2. CASE Consume(d) \/ Replay(d) \/ Bootstrap(d) \/ Unblock(d) \/ Resync(d) \/ CaughtUpOn(d) \/ PageFails(d) \/ SkipRescan(d) \/ ConflictFails(d) \/ Overtaken(d) \/ Recover(d)
  BY <1>2 DEF ServerStep, Consume, Replay, Bootstrap, Unblock, Resync, CaughtUpOn, PageFails, SkipRescan, ConflictFails, Overtaken, Recover, Server
<1>3. CASE Scan(d)
  BY <1>3 DEF ServerStep, Submits, Scan
<1>4. CASE Resolve(d)
  BY <1>4 DEF ServerStep, Submits, Resolve
<1>5. CASE AddRoot(d) \/ RemoveRoot(d)
  BY <1>5 DEF ServerStep, AddRoot, RemoveRoot, Server
<1>6. CASE Announce(d)
  BY <1>6 DEF ServerStep, Announce, AppendRootAdd, Server
<1>7. CASE Upload(d)
  BY <1>7 DEF ServerStep, Submits, Upload
<1>8. CASE Collide(d) \/ Recheck(d) \/ Verify(d) \/ Confirm(d) \/ Stage(d) \/ Preserve(d)
  BY <1>8 DEF ServerStep, Collide, Recheck, Verify, Confirm, Stage, Preserve, Asks, Server
<1>9. CASE Publish(d)
  BY <1>9 DEF ServerStep, Saves, Publish
<1> QED
  BY <1>1, <1>2, <1>3, <1>4, <1>5, <1>6, <1>7, <1>8, <1>9
     DEF DeviceStep, Begin, CatchUpStep, RescanStep, AddStep

\* The log is only appended to.
LogGrows ==
  /\ Len(log) <= Len(log')
  /\ \A s \in 1 .. Len(log) : log'[s] = log[s]

LEMMA StepLog == ASSUME TypeInv, NEW d \in Device, DeviceStep(d) PROVE LogGrows
<1>1. Len(log) \in Nat /\ TypeOK /\ disk[d] \in File
  BY DEF TypeInv, TypeOK
<1>2. UNCHANGED log => LogGrows
  BY <1>1 DEF LogGrows
<1>3. ASSUME NEW k \in {"add", "remove", "put", "delete"}, NEW c \in File,
             AppendEvent(d, k, c)
      PROVE  LogGrows
  <2>1. /\ Len(log') = Len(log) + 1
        /\ \A s \in 1 .. Len(log) : log'[s] = log[s]
    BY <1>1, <1>3, AppendGrows
  <2> QED
    BY <1>1, <2>1 DEF LogGrows
<1>4. ServerStep(d)
  BY StepServerIs
<1> QED
  BY <1>1, <1>2, <1>3, <1>4 DEF ServerStep, Submits, Submit

\* A step of one device leaves what the other devices are doing alone.
OthersStay(d) ==
  \A e \in Device \ {d} : job'[e] = job[e] /\ pc'[e] = pc[e] /\ recover'[e] = recover[e]

\* A step of a device leaves the other devices alone.
LEMMA StepOthers == ASSUME TypeInv, NEW d \in Device, DeviceStep(d) PROVE OthersStay(d)
<1>1. /\ DOMAIN job = Device /\ DOMAIN pc = Device /\ DOMAIN recover = Device
      /\ job \in [Device -> Job] /\ pc \in [Device -> Label] /\ recover \in [Device -> Recovery]
  BY DEF TypeInv, TypeOK
<1>2. ASSUME NEW e \in Device \ {d} PROVE job'[e] = job[e]
  <2>1. CASE UserWrites(d) \/ Connect(d) \/ Hint(d) \/ Watch(d) \/ RetryPending(d) \/ RetryBlocked(d) \/ PendingFallsDue(d) \/ Crash(d)
    BY <1>1, <2>1 DEF UserWrites, Connect, Hint, Watch, RetryPending, RetryBlocked, PendingFallsDue, Crash, CatchUp, Rescan, Rest
  <2>2. CASE Consume(d) \/ Replay(d) \/ Bootstrap(d) \/ Unblock(d) \/ Resync(d)
    BY <1>1, <2>2 DEF Consume, Replay, Bootstrap, Unblock, Resync, AfterBlocked, Rescan, Rest
  <2>3. CASE CaughtUpOn(d) \/ PageFails(d) \/ SkipRescan(d) \/ ConflictFails(d) \/ Overtaken(d)
    BY <1>1, <2>3 DEF CaughtUpOn, Reconcile, Recovered, PageFails, SkipRescan, ConflictFails, Overtaken, Fail, Rest, Rescan, CatchUp
  <2>4. CASE Scan(d) \/ Recover(d)
    BY <1>1, <2>4 DEF Scan, Recover, FinishRescan, CatchUp, Fail, Rest, Recovered, Rescan
  <2>5. CASE Resolve(d)
    BY <1>1, <2>5 DEF Resolve, AfterConflict, FinishRescan, CatchUp, Fail, Rest, Rescan
  <2>6. CASE AddRoot(d) \/ RemoveRoot(d) \/ Announce(d) \/ Upload(d) \/ Collide(d) \/ Recheck(d)
    BY <1>1, <2>6 DEF AddRoot, RemoveRoot, Announce, Upload, Collide, Recheck, AddFails, CatchUp, Rescan
  <2>7. CASE Verify(d) \/ Publish(d) \/ Confirm(d) \/ Stage(d) \/ Preserve(d)
    BY <1>1, <2>7 DEF Verify, Publish, Confirm, Stage, Preserve, AddFails, CatchUp, Rest
  <2> QED
    BY <2>1, <2>2, <2>3, <2>4, <2>5, <2>6, <2>7
       DEF DeviceStep, Begin, CatchUpStep, RescanStep, AddStep
<1>3. ASSUME NEW e \in Device \ {d} PROVE pc'[e] = pc[e]
  <2>1. CASE UserWrites(d) \/ Connect(d) \/ Hint(d) \/ Watch(d) \/ RetryPending(d) \/ RetryBlocked(d) \/ PendingFallsDue(d) \/ Crash(d)
    BY <1>1, <2>1 DEF UserWrites, Connect, Hint, Watch, RetryPending, RetryBlocked, PendingFallsDue, Crash, CatchUp, Rescan, Rest, Goto
  <2>2. CASE Consume(d) \/ Replay(d) \/ Bootstrap(d) \/ Unblock(d) \/ Resync(d)
    BY <1>1, <2>2 DEF Consume, Replay, Bootstrap, Unblock, Resync, AfterBlocked, Rescan, Rest, Goto
  <2>3. CASE CaughtUpOn(d) \/ PageFails(d) \/ SkipRescan(d) \/ ConflictFails(d) \/ Overtaken(d)
    BY <1>1, <2>3 DEF CaughtUpOn, Reconcile, Recovered, PageFails, SkipRescan, ConflictFails, Overtaken, Fail, Rest, Rescan, CatchUp, Goto
  <2>4. CASE Scan(d) \/ Recover(d)
    BY <1>1, <2>4 DEF Scan, Recover, FinishRescan, CatchUp, Fail, Rest, Recovered, Rescan, Goto
  <2>5. CASE Resolve(d)
    BY <1>1, <2>5 DEF Resolve, AfterConflict, FinishRescan, CatchUp, Fail, Rest, Rescan, Goto
  <2>6. CASE AddRoot(d) \/ RemoveRoot(d) \/ Announce(d) \/ Upload(d) \/ Collide(d) \/ Recheck(d)
    BY <1>1, <2>6 DEF AddRoot, RemoveRoot, Announce, Upload, Collide, Recheck, AddFails, CatchUp, Rescan, Goto
  <2>7. CASE Verify(d) \/ Publish(d) \/ Confirm(d) \/ Stage(d) \/ Preserve(d)
    BY <1>1, <2>7 DEF Verify, Publish, Confirm, Stage, Preserve, AddFails, CatchUp, Rest, Goto
  <2> QED
    BY <2>1, <2>2, <2>3, <2>4, <2>5, <2>6, <2>7
       DEF DeviceStep, Begin, CatchUpStep, RescanStep, AddStep
<1>4. ASSUME NEW e \in Device \ {d} PROVE recover'[e] = recover[e]
  <2>1. CASE UserWrites(d) \/ Connect(d) \/ Hint(d) \/ Watch(d) \/ RetryPending(d) \/ RetryBlocked(d) \/ PendingFallsDue(d) \/ Crash(d)
    BY <1>1, <2>1 DEF UserWrites, Connect, Hint, Watch, RetryPending, RetryBlocked, PendingFallsDue, Crash, Tables
  <2>2. CASE Consume(d) \/ Replay(d) \/ Bootstrap(d) \/ Unblock(d) \/ Resync(d)
    BY <1>1, <2>2 DEF Consume, Replay, Bootstrap, Unblock, Resync, Apply, MarkRemoved, DropRoot, Tables
  <2>3. CASE CaughtUpOn(d) \/ PageFails(d) \/ SkipRescan(d) \/ ConflictFails(d) \/ Overtaken(d)
    BY <1>1, <2>3 DEF CaughtUpOn, Recovered, PageFails, SkipRescan, ConflictFails, Overtaken, Fail
  <2>4. CASE Scan(d) \/ Resolve(d) \/ Recover(d)
    BY <1>1, <2>4 DEF Scan, Resolve, Recover, Fail, Recovered, MarkRemoved
  <2>5. CASE AddRoot(d) \/ RemoveRoot(d) \/ Announce(d) \/ Upload(d) \/ Collide(d) \/ Recheck(d)
    BY <1>1, <2>5 DEF AddRoot, RemoveRoot, Announce, Upload, Collide, Recheck, Asks, Tables
  <2>6. CASE Verify(d) \/ Publish(d) \/ Confirm(d) \/ Stage(d) \/ Preserve(d)
    BY <1>1, <2>6 DEF Verify, Publish, Confirm, Stage, Preserve, Asks, Tables
  <2> QED
    BY <2>1, <2>2, <2>3, <2>4, <2>5, <2>6
       DEF DeviceStep, Begin, CatchUpStep, RescanStep, AddStep
<1> QED
  BY <1>2, <1>3, <1>4 DEF OthersStay

-----------------------------------------------------------------------------
(* Snapshots *)

\* What an initial sync remembers of its upload is what the server took.
Uploaded(m) ==
  m.seq > 0 => /\ m.seq <= Len(log)
               /\ ~IsRootEvent(m.seq)
               /\ log[m.seq].content = m.content
               /\ m.content # None

MineKnown == \A d \in Device : Uploaded(job[d].mine)

HistoryInv == TypeInv /\ MineKnown /\ SnapshotIsHistory

\* Only Upload makes a device remember something new.
MineIs(d) ==
  \/ job'[d].mine \in {job[d].mine, NoEntry}
  \/ Submits(d) /\ disk[d] # None /\ job'[d].mine = NewEntry(d)

\* The control operators never make up an upload.
LEMMA ControlMine ==
  ASSUME TypeInv, NEW d \in Device
  PROVE  /\ UNCHANGED job => MineIs(d)
         /\ Rest(d) => MineIs(d)
         /\ \A v \in Via : CatchUp(d, v) => MineIs(d)
         /\ \A v \in Via, w \in Nat : Rescan(d, v, w) => MineIs(d)
         /\ Recovered(d) => MineIs(d)
         /\ Fail(d) => MineIs(d)
<1>1. /\ job \in [Device -> Job] /\ Idle.mine = NoEntry
      /\ job[d] \in [via : Via, want : Nat, at : Nat, again : BOOLEAN, back : BOOLEAN,
                     mine : Entry]
  BY DEF TypeInv, TypeOK, Job, Idle
<1>2. UNCHANGED job => MineIs(d)
  BY DEF MineIs
<1>3. Rest(d) => MineIs(d)
  BY <1>1 DEF MineIs, Rest
<1>4. ASSUME NEW v \in Via, CatchUp(d, v) PROVE MineIs(d)
  <2>1. job'[d] = [Idle EXCEPT !.via = v, !.want = job[d].want, !.mine = job[d].mine]
    BY <1>1, <1>4 DEF CatchUp
  <2>2. job'[d].mine = job[d].mine
    BY <2>1 DEF Idle
  <2> QED
    BY <2>2 DEF MineIs
<1>5. ASSUME NEW v \in Via, NEW w \in Nat, Rescan(d, v, w) PROVE MineIs(d)
  <2>1. job'[d].mine = job[d].mine
    BY <1>1, <1>5 DEF Rescan
  <2> QED
    BY <2>1 DEF MineIs
<1>6. ASSUME Recovered(d) PROVE MineIs(d)
  <2> DEFINE v == IF job[d].via = "flush" THEN "first" ELSE "hint"
  <2>1. job'[d] = [Idle EXCEPT !.via = v]
    BY <1>1, <1>6 DEF Recovered
  <2>2. job'[d].mine = NoEntry
    BY <2>1 DEF Idle
  <2> QED
    BY <2>2 DEF MineIs
<1>7. Fail(d) => MineIs(d)
  BY <1>2, <1>3 DEF Fail
<1> QED
  BY <1>2, <1>3, <1>4, <1>5, <1>6, <1>7

\* Nor do the actions that set other fields of the job.
LEMMA OtherFieldsMine ==
  ASSUME TypeInv, NEW d \in Device, NEW v, NEW n, NEW b, NEW c
  PROVE  /\ job' = [job EXCEPT ![d].via = v] => MineIs(d)
         /\ job' = [job EXCEPT ![d].at = n] => MineIs(d)
         /\ job' = [job EXCEPT ![d].back = b] => MineIs(d)
         /\ job' = [job EXCEPT ![d].again = b] => MineIs(d)
         /\ job' = [job EXCEPT ![d].want = n] => MineIs(d)
         /\ job' = [job EXCEPT ![d].via = v, ![d].at = n] => MineIs(d)
         /\ job' = [job EXCEPT ![d].back = b, ![d].again = c] => MineIs(d)
<1>1. /\ job \in [Device -> Job]
      /\ job[d] \in [via : Via, want : Nat, at : Nat, again : BOOLEAN, back : BOOLEAN,
                     mine : Entry]
  BY DEF TypeInv, TypeOK, Job
<1>2. \/ job' = [job EXCEPT ![d].via = v]
      \/ job' = [job EXCEPT ![d].at = n]
      \/ job' = [job EXCEPT ![d].back = b]
      \/ job' = [job EXCEPT ![d].again = b]
      => MineIs(d)
  BY <1>1 DEF MineIs
<1>3. \/ job' = [job EXCEPT ![d].want = n]
      \/ job' = [job EXCEPT ![d].via = v, ![d].at = n]
      \/ job' = [job EXCEPT ![d].back = b, ![d].again = c]
      => MineIs(d)
  BY <1>1 DEF MineIs
<1> QED
  BY <1>2, <1>3

\* No step but an upload does.
LEMMA StepMine == ASSUME TypeInv, NEW d \in Device, DeviceStep(d) PROVE MineIs(d)
<1>1. job[d].want \in Nat /\ job[d].via \in Via /\ Created \in Nat
  <2>1. job[d] \in Job /\ Created \in Nat
    BY ServerTypes DEF TypeInv, TypeOK
  <2> QED
    BY <2>1 DEF Job
<1>2. CASE UserWrites(d) \/ PendingFallsDue(d) \/ Consume(d) \/ Resync(d) \/ Bootstrap(d)
  BY <1>1, <1>2, ControlMine, OtherFieldsMine, Names DEF UserWrites, PendingFallsDue, Consume, Resync, Bootstrap
<1>3. CASE Crash(d) \/ Connect(d) \/ RetryPending(d) \/ Hint(d) \/ Watch(d) \/ RetryBlocked(d)
  BY <1>1, <1>3, ControlMine, OtherFieldsMine, Names DEF Crash, Connect, RetryPending, Hint, Watch, RetryBlocked
<1>4. CASE CaughtUpOn(d)
  BY <1>1, <1>4, ControlMine, OtherFieldsMine, Names DEF CaughtUpOn, Reconcile
<1>5. CASE Unblock(d) \/ Replay(d)
  BY <1>1, <1>5, ControlMine, OtherFieldsMine, Names DEF Unblock, Replay, AfterBlocked
<1>6. CASE PageFails(d) \/ SkipRescan(d) \/ ConflictFails(d)
  BY <1>1, <1>6, ControlMine, OtherFieldsMine, Names DEF PageFails, SkipRescan, ConflictFails
<1>7. CASE Overtaken(d)
  BY <1>1, <1>7, ControlMine, OtherFieldsMine, Names DEF Overtaken
<1>8. CASE Scan(d)
  BY <1>1, <1>8, ControlMine, OtherFieldsMine, Names DEF Scan, FinishRescan
<1>9. CASE Resolve(d)
  BY <1>1, <1>9, ControlMine, OtherFieldsMine, Names DEF Resolve, AfterConflict, FinishRescan
<1>10. CASE Recover(d)
  BY <1>1, <1>10, ControlMine, OtherFieldsMine, Names DEF Recover
<1>11. CASE AddRoot(d) \/ RemoveRoot(d) \/ Announce(d)
  BY <1>1, <1>11, ControlMine, OtherFieldsMine, Names DEF AddRoot, RemoveRoot, Announce, AddFails
<1>12. CASE Upload(d)
  <2>1. \/ UNCHANGED job \/ job' = [job EXCEPT ![d].at = PathHead]
        \/ job' = [job EXCEPT ![d].mine = NewEntry(d)] /\ Submits(d) /\ disk[d] # None
    BY <1>12 DEF Upload, AddFails, Submits
  <2>2. job' = [job EXCEPT ![d].mine = NewEntry(d)] => job'[d].mine = NewEntry(d)
    <3>1. /\ job \in [Device -> Job]
          /\ job[d] \in [via : Via, want : Nat, at : Nat, again : BOOLEAN, back : BOOLEAN,
                         mine : Entry]
      BY DEF TypeInv, TypeOK, Job
    <3> QED
      BY <3>1
  <2>3. UNCHANGED job \/ job' = [job EXCEPT ![d].at = PathHead] => MineIs(d)
    BY ControlMine, OtherFieldsMine
  <2> QED
    BY <2>1, <2>2, <2>3 DEF MineIs
<1>13. CASE Collide(d) \/ Recheck(d) \/ Verify(d)
  BY <1>1, <1>13, ControlMine, OtherFieldsMine, Names DEF Collide, Recheck, Verify, AddFails
<1>14. CASE Publish(d) \/ Confirm(d) \/ Stage(d) \/ Preserve(d)
  BY <1>1, <1>14, ControlMine, OtherFieldsMine, Names DEF Publish, Confirm, Stage, Preserve, AddFails
<1> QED
  BY <1>2, <1>3, <1>4, <1>5, <1>6, <1>7, <1>8, <1>9, <1>10, <1>11, <1>12, <1>13, <1>14
     DEF DeviceStep, Begin, CatchUpStep, RescanStep, AddStep

\* The event that a submission appends is the device's and says what its disk held.
LEMMA SubmitIs ==
  ASSUME TypeInv, NEW d \in Device, Submit(d)
  PROVE  /\ Len(log') = Len(log) + 1
         /\ \A s \in 1 .. Len(log) : log'[s] = log[s]
         /\ log'[Len(log) + 1].kind \in {"put", "delete"}
         /\ log'[Len(log) + 1].by = d
         /\ log'[Len(log) + 1].content = disk[d]
<1> DEFINE k == IF disk[d] = None THEN "delete" ELSE "put"
<1>1. TypeOK /\ k \in {"put", "delete"} /\ disk[d] \in File /\ AppendEvent(d, k, disk[d])
  BY DEF TypeInv, TypeOK, Submit
<1> HIDE DEF k
<1>2. /\ Len(log') = Len(log) + 1
      /\ \A s \in 1 .. Len(log) : log'[s] = log[s]
      /\ log'[Len(log) + 1] = [kind |-> k, by |-> d, content |-> disk[d]]
  BY <1>1, AppendGrows
<1>3. log'[Len(log) + 1].kind = k
  BY <1>2
<1> QED
  BY <1>1, <1>2, <1>3

\* After a step, too, no two sequences are the newest.
LEMMA NewestAfter ==
  ASSUME NEW r \in 0 .. Len(log'), Len(log') \in Nat, LastAt(r)'
  PROVE  LastRootEvent' = r
<1> DEFINE P(s) == /\ s > 0 => IsRootEvent(s)'
                   /\ \A t \in (s + 1) .. Len(log') : ~IsRootEvent(t)'
<1>1. LastRootEvent' = CHOOSE s \in 0 .. Len(log') : P(s)
  BY DEF LastRootEvent
<1>2. P(r)
  BY DEF LastAt
<1>3. \A s \in 0 .. Len(log') : P(s) => s = r
  <2> SUFFICES ASSUME NEW s \in 0 .. Len(log'), P(s) PROVE s = r
    OBVIOUS
  <2>1. ~(s < r) /\ ~(r < s)
    BY <1>2
  <2> QED
    BY <2>1
<1> HIDE DEF P
<1> QED
  BY <1>1, <1>2, <1>3

\* Content does not change which root event is the newest.
LEMMA SubmitKeepsRoot ==
  ASSUME TypeInv, NEW d \in Device, Submit(d)
  PROVE  Created' = Created
<1>1. PICK r \in 0 .. Len(log) : LastAt(r) /\ LastRootEvent = r
  BY LastRootEventIs DEF TypeInv
<1>2. /\ Len(log) \in Nat /\ Len(log') = Len(log) + 1
      /\ \A s \in 1 .. Len(log) : log'[s] = log[s]
      /\ log'[Len(log) + 1].kind \in {"put", "delete"}
  BY SubmitIs DEF TypeInv, TypeOK
<1>3. LastAt(r)'
  BY <1>1, <1>2 DEF LastAt, IsRootEvent
<1>4. LastRootEvent' = r
  BY <1>2, <1>3, NewestAfter
<1>5. r > 0 => log'[r] = log[r]
  BY <1>2
<1> QED
  BY <1>1, <1>4, <1>5 DEF Created, Active

LEMMA MineNext == ASSUME HistoryInv, NEW d \in Device, DeviceStep(d) PROVE MineKnown'
<1>1. TypeInv /\ LogGrows /\ Len(log) \in Nat /\ Len(log') \in Nat
  <2>1. TypeInv /\ LogGrows /\ TypeInv'
    BY StepLog, TypeNext DEF HistoryInv, Next, DeviceStep
  <2>2. log \in Seq(Event) /\ log' \in Seq(Event)
    BY <2>1 DEF TypeInv, TypeOK
  <2> QED
    BY <2>1, <2>2
<1>2. ASSUME NEW m \in Entry, Uploaded(m) PROVE Uploaded(m)'
  <2>1. m.seq \in Nat
    BY DEF Entry
  <2>2. m.seq > 0 => m.seq \in 1 .. Len(log) /\ log'[m.seq] = log[m.seq] /\ m.seq <= Len(log')
    BY <1>1, <1>2, <2>1 DEF Uploaded, LogGrows
  <2> QED
    BY <1>2, <2>2 DEF Uploaded, IsRootEvent
<1>3. \A e \in Device : job[e].mine \in Entry
  BY <1>1 DEF TypeInv, TypeOK, Job
<1>4. SUFFICES ASSUME NEW e \in Device PROVE Uploaded(job[e].mine)'
  BY DEF MineKnown
<1>5. CASE job'[e].mine = job[e].mine
  <2>1. Uploaded(job[e].mine) /\ job[e].mine \in Entry
    BY <1>3 DEF HistoryInv, MineKnown
  <2>2. PICK m \in Entry : m = job[e].mine /\ Uploaded(m)
    BY <2>1
  <2>3. Uploaded(m)'
    BY <1>2, <2>2
  <2> QED
    BY <1>5, <2>2, <2>3 DEF Uploaded
<1>6. CASE job'[e].mine = NoEntry
  BY <1>6 DEF Uploaded, NoEntry
<1>7. CASE Submits(d) /\ disk[d] # None /\ job'[e].mine = NewEntry(d)
  <2>1. /\ Len(log') = Len(log) + 1
        /\ log'[Len(log) + 1].kind \in {"put", "delete"}
        /\ log'[Len(log) + 1].content = disk[d]
    BY <1>1, <1>7, SubmitIs DEF Submits
  <2>2. job'[e].mine.seq = Len(log) + 1 /\ job'[e].mine.content = disk[d]
    BY <1>7 DEF NewEntry
  <2> QED
    BY <1>1, <1>7, <2>1, <2>2 DEF Uploaded, IsRootEvent
<1>8. OthersStay(d) /\ MineIs(d)
  BY <1>1, StepOthers, StepMine
<1> QED
  BY <1>5, <1>6, <1>7, <1>8 DEF OthersStay, MineIs

LEMMA SnapshotNext ==
  ASSUME HistoryInv, NEW d \in Device, DeviceStep(d) PROVE SnapshotIsHistory'
<1>1. /\ TypeInv /\ LogGrows /\ Len(log) \in Nat /\ snap.base \in Nat
      /\ Created \in 0 .. Len(log) /\ job[d].mine.seq \in Nat
  <2>1. TypeInv /\ LogGrows
    BY StepLog DEF HistoryInv
  <2>2. job[d].mine \in Entry
    BY <2>1 DEF TypeInv, TypeOK, Job
  <2> QED
    BY <2>1, <2>2, ServerTypes DEF TypeInv, TypeOK, Entry
<1>2. CASE UNCHANGED <<log, snap>>
  BY <1>2 DEF HistoryInv, SnapshotIsHistory, Created, Active, LastRootEvent, IsRootEvent
<1>3. CASE UNCHANGED log /\ Saves(d)
  <2> DEFINE m == job[d].mine
  <2>1. Created' = Created
    BY <1>3 DEF Created, Active, LastRootEvent, IsRootEvent
  <2>2. /\ snap'.base = m.seq /\ snap'.content = m.content
        /\ Active /\ m.seq >= Created /\ m.seq <= Len(log)
    BY <1>3 DEF Saves, SnapshotAccepted
  <2>3. Uploaded(m)
    BY DEF HistoryInv, MineKnown
  <2>4. m.seq > 0 => m.seq # Created
    BY <1>1, <2>2, <2>3, ServerTypes DEF Uploaded, IsRootEvent
  <2>5. m.seq > 0 => Created < m.seq
    BY <1>1, <2>2, <2>4
  <2> HIDE DEF m
  <2> QED
    BY <1>3, <2>1, <2>2, <2>3, <2>5 DEF SnapshotIsHistory, Uploaded
<1>4. CASE snap' = NoSnapshot
  BY <1>4 DEF SnapshotIsHistory, NoSnapshot
<1>5. CASE Submits(d)
  <2>1. Created' = Created /\ UNCHANGED snap
    BY <1>1, <1>5, SubmitKeepsRoot DEF Submits
  <2>2. snap.base > 0 => /\ Created < snap.base /\ snap.base <= Len(log)
                         /\ log[snap.base].content = snap.content
    BY DEF HistoryInv, SnapshotIsHistory
  <2>3. snap.base > 0 => log'[snap.base] = log[snap.base]
    BY <1>1, <2>2 DEF LogGrows
  <2>4. Len(log') = Len(log) + 1
    BY <1>1, <1>5, SubmitIs DEF Submits
  <2>5. snap.base <= Len(log) => snap.base <= Len(log')
    BY <1>1, <2>4
  <2> QED
    BY <2>1, <2>2, <2>3, <2>5 DEF SnapshotIsHistory
<1> QED
  BY <1>2, <1>3, <1>4, <1>5, StepServerIs DEF ServerStep

LEMMA HistoryNext == HistoryInv /\ [Next]_vars => HistoryInv'
<1> SUFFICES ASSUME HistoryInv, [Next]_vars PROVE HistoryInv'
  OBVIOUS
<1>1. TypeInv'
  BY TypeNext DEF HistoryInv
<1>2. ASSUME NEW d \in Device, DeviceStep(d) PROVE HistoryInv'
  BY <1>1, <1>2, MineNext, SnapshotNext DEF HistoryInv
<1>3. CASE UNCHANGED vars
  <2>1. MineKnown'
    BY <1>3 DEF vars, HistoryInv, MineKnown, Uploaded, IsRootEvent
  <2>2. SnapshotIsHistory'
    BY <1>3 DEF vars, HistoryInv, SnapshotIsHistory, Created, Active, LastRootEvent, IsRootEvent
  <2> QED
    BY <1>1, <2>1, <2>2 DEF HistoryInv
<1> QED
  BY <1>2, <1>3 DEF Next, DeviceStep

LEMMA HistoryInit == Init => HistoryInv
<1> SUFFICES ASSUME Init PROVE HistoryInv
  OBVIOUS
<1>1. MineKnown
  BY DEF Init, MineKnown, Uploaded, Idle, NoEntry
<1>2. SnapshotIsHistory
  BY DEF Init, SnapshotIsHistory, NoSnapshot
<1> QED
  BY <1>1, <1>2, TypeInit DEF HistoryInv

\* SaveSnapshot and publishInitialSnapshot: however long an initial sync takes,
\* and whatever incarnations come and go meanwhile, the snapshot that bootstraps
\* others is of the active incarnation and is the file as of its base.
THEOREM SnapshotsAreHistory == Spec => []SnapshotIsHistory
<1>1. HistoryInv => SnapshotIsHistory
  BY DEF HistoryInv
<1> QED
  BY <1>1, HistoryInit, HistoryNext, PTL DEF Spec

-----------------------------------------------------------------------------
(* Initial syncs and the incarnation they write into *)

\* Device d added the incarnation that begins at s.
OwnAdd(d, s) == s \in 1 .. Len(log) /\ log[s].kind = "add" /\ log[s].by = d

InitialVia == {"flush", "retry", "add1", "add2", "stage"}

\* The steps of syna add after its root_add has been answered.
InitialPc == {"upload", "collide", "collision", "recheck", "verify", "publish",
              "confirm", "stage"}

\* Before it, or before a recovery has found out which root it is about.
NotYet == {"recover", "announce", "preserve"}

\* An initial sync is bound to an incarnation by the time it writes.
BoundJob(d) ==
  job[d].via \in InitialVia \/ pc[d] \in InitialPc
    => job[d].want > 0 \/ pc[d] \in NotYet

OwnJob(d) == job[d].want > 0 => OwnAdd(d, job[d].want)

OwnRecovery(d) == recover[d].base > 0 => OwnAdd(d, recover[d].base)

OwnInv ==
  /\ TypeInv
  /\ \A d \in Device : BoundJob(d) /\ OwnJob(d) /\ OwnRecovery(d)

\* Events stay where they are.
LEMMA OwnAddStays ==
  ASSUME NEW d \in Device, NEW s \in Nat, OwnAdd(d, s), LogGrows,
         Len(log) \in Nat, Len(log') \in Nat
  PROVE  s \in 1 .. Len(log') /\ log'[s].kind = "add" /\ log'[s].by = d
<1>1. s \in 1 .. Len(log) /\ s \in 1 .. Len(log')
  BY DEF OwnAdd, LogGrows
<1> QED
  BY <1>1 DEF OwnAdd, LogGrows

\* Where the incarnation that a job is bound to comes from.
WantIs(d) ==
  \/ job'[d].want \in {0, job[d].want}
  \/ job'[d].want = Created /\ OwnAdd(d, Created)
  \/ job'[d].want = Len(log) + 1 /\ AppendEvent(d, "add", None)

\* And the one of a recovery.
BaseIs(d) == recover'[d].base \in {0, recover[d].base, job[d].want}

BoundAfter(d) ==
  job'[d].via \in InitialVia \/ pc'[d] \in InitialPc
    => job'[d].want > 0 \/ pc'[d] \in NotYet

\* The control operators, for a job whose fields are known.
LEMMA ControlWants ==
  ASSUME TypeInv, NEW d \in Device
  PROVE  /\ Rest(d) => job'[d].want = 0 /\ job'[d].via = "none" /\ pc'[d] = "idle"
         /\ \A v : CatchUp(d, v) => /\ job'[d].want = job[d].want
                                    /\ job'[d].via = v /\ pc'[d] = "page"
         /\ \A v, w : Rescan(d, v, w) => /\ job'[d].want = w
                                         /\ job'[d].via = v /\ pc'[d] = "scan"
         /\ Recovered(d) => /\ job'[d].want = 0 /\ job'[d].via \in {"first", "hint"}
                            /\ pc'[d] = "page" /\ recover'[d].base = 0
         /\ \A l : Goto(d, l) => pc'[d] = l
<1>1. /\ job \in [Device -> Job] /\ pc \in [Device -> Label]
      /\ recover \in [Device -> Recovery]
      /\ job[d] \in [via : Via, want : Nat, at : Nat, again : BOOLEAN, back : BOOLEAN,
                     mine : Entry]
  BY DEF TypeInv, TypeOK, Job
<1>2. Rest(d) => job'[d].want = 0 /\ job'[d].via = "none" /\ pc'[d] = "idle"
  BY <1>1 DEF Rest, Goto, Idle
<1>3. ASSUME NEW v, CatchUp(d, v)
      PROVE  job'[d].want = job[d].want /\ job'[d].via = v /\ pc'[d] = "page"
  <2>1. job'[d] = [Idle EXCEPT !.via = v, !.want = job[d].want, !.mine = job[d].mine]
    BY <1>1, <1>3 DEF CatchUp
  <2>2. pc'[d] = "page"
    BY <1>1, <1>3 DEF CatchUp, Goto
  <2> QED
    BY <2>1, <2>2 DEF Idle
<1>4. ASSUME NEW v, NEW w, Rescan(d, v, w)
      PROVE  job'[d].want = w /\ job'[d].via = v /\ pc'[d] = "scan"
  BY <1>1, <1>4 DEF Rescan, Goto
<1>5. ASSUME Recovered(d)
      PROVE  /\ job'[d].want = 0 /\ job'[d].via \in {"first", "hint"}
             /\ pc'[d] = "page" /\ recover'[d].base = 0
  <2> DEFINE v == IF job[d].via = "flush" THEN "first" ELSE "hint"
  <2>1. job'[d] = [Idle EXCEPT !.via = v]
    BY <1>1, <1>5 DEF Recovered
  <2>2. pc'[d] = "page" /\ recover'[d] = NoRecovery
    BY <1>1, <1>5 DEF Recovered, Goto
  <2> QED
    BY <2>1, <2>2 DEF Idle, NoRecovery
<1>6. \A l : Goto(d, l) => pc'[d] = l
  BY <1>1 DEF Goto
<1> QED
  BY <1>2, <1>3, <1>4, <1>5, <1>6
\* A job is bound to nothing, to what it was bound to before, to an incarnation
\* that recoverPendingInitialRoot found to be the device's own, or to the
\* root_add that was just answered.
LEMMA StepWants == ASSUME OwnInv, NEW d \in Device, DeviceStep(d) PROVE WantIs(d)
<1>1. /\ TypeInv /\ job \in [Device -> Job]
      /\ job[d] \in [via : Via, want : Nat, at : Nat, again : BOOLEAN, back : BOOLEAN,
                     mine : Entry]
  BY DEF OwnInv, TypeInv, TypeOK, Job
<1>2. CASE UserWrites(d) \/ PendingFallsDue(d) \/ Consume(d) \/ Resync(d) \/ Bootstrap(d)
  BY <1>1, <1>2, ControlWants DEF WantIs, UserWrites, PendingFallsDue, Consume, Resync, Bootstrap
<1>3. CASE Crash(d) \/ Hint(d) \/ Watch(d)
  BY <1>1, <1>3, ControlWants DEF WantIs, Crash, Hint, Watch
<1>4. CASE Connect(d) \/ RetryPending(d) \/ RetryBlocked(d)
  BY <1>1, <1>4, ControlWants DEF WantIs, Connect, RetryPending, RetryBlocked
<1>5. CASE CaughtUpOn(d)
  BY <1>1, <1>5, ControlWants DEF WantIs, CaughtUpOn, Reconcile
<1>6. CASE Unblock(d)
  BY <1>1, <1>6, ControlWants DEF WantIs, Unblock, AfterBlocked
<1>7. CASE Replay(d)
  BY <1>1, <1>7, ControlWants DEF WantIs, Replay, AfterBlocked
<1>8. CASE PageFails(d) \/ ConflictFails(d)
  BY <1>1, <1>8, ControlWants DEF WantIs, PageFails, ConflictFails, Fail
<1>9. CASE SkipRescan(d)
  BY <1>1, <1>9, ControlWants DEF WantIs, SkipRescan, Fail
<1>10. CASE Overtaken(d)
  BY <1>1, <1>10, ControlWants DEF WantIs, Overtaken
<1>11. CASE Scan(d)
  BY <1>1, <1>11, ControlWants DEF WantIs, Scan, FinishRescan, Fail
<1>12. CASE Resolve(d)
  BY <1>1, <1>12, ControlWants DEF WantIs, Resolve, AfterConflict, FinishRescan, Fail
<1>13. CASE Recover(d)
  <2>1. CASE Rescan(d, job[d].via, Created) /\ OwnIncarnation(d, recover[d].base) /\ Active
    <3>1. OwnAdd(d, Created)
      BY <1>1, <2>1, ServerTypes DEF OwnIncarnation, OwnInv, OwnRecovery, OwnAdd
    <3> QED
      BY <1>1, <2>1, <3>1, ControlWants DEF WantIs
  <2>2. CASE Recovered(d) \/ Fail(d)
    BY <1>1, <2>2, ControlWants DEF WantIs, Fail
  <2> QED
    BY <1>13, <2>1, <2>2 DEF Recover
<1>14. CASE AddRoot(d) \/ RemoveRoot(d)
  BY <1>1, <1>14, ControlWants DEF WantIs, AddRoot, RemoveRoot
<1>15. CASE Announce(d)
  BY <1>1, <1>15, ControlWants DEF WantIs, Announce, AddFails, AppendRootAdd
<1>16. CASE Upload(d)
  BY <1>1, <1>16, ControlWants DEF WantIs, Upload, AddFails
<1>17. CASE Collide(d) \/ Recheck(d)
  BY <1>1, <1>17, ControlWants DEF WantIs, Collide, Recheck, AddFails
<1>18. CASE Verify(d) \/ Confirm(d)
  BY <1>1, <1>18, ControlWants DEF WantIs, Verify, Confirm, AddFails
<1>19. CASE Publish(d) \/ Preserve(d)
  BY <1>1, <1>19, ControlWants DEF WantIs, Publish, Preserve
<1>20. CASE Stage(d)
  BY <1>1, <1>20, ControlWants DEF WantIs, Stage, AddFails
<1> QED
  BY <1>2, <1>3, <1>4, <1>5, <1>6, <1>7, <1>8, <1>9, <1>10, <1>11, <1>12, <1>13, <1>14, <1>15, <1>16, <1>17, <1>18, <1>19, <1>20
     DEF DeviceStep, Begin, CatchUpStep, RescanStep, AddStep

\* A recovery is queued for the incarnation that the job was bound to.
LEMMA StepBases == ASSUME OwnInv, NEW d \in Device, DeviceStep(d) PROVE BaseIs(d)
<1>1. /\ TypeInv /\ recover \in [Device -> Recovery] /\ NoRecovery.base = 0
      /\ recover[d] \in [queued : BOOLEAN, due : BOOLEAN, base : Nat]
  BY DEF OwnInv, TypeInv, TypeOK, Recovery, NoRecovery
<1>2. CASE UserWrites(d) \/ PendingFallsDue(d) \/ Resync(d)
  BY <1>1, <1>2, ControlWants DEF BaseIs, UserWrites, PendingFallsDue, Resync, Tables
<1>3. CASE Consume(d)
  BY <1>1, <1>3, ControlWants DEF BaseIs, Consume, Apply, MarkRemoved
<1>4. CASE Bootstrap(d)
  BY <1>1, <1>4, ControlWants DEF BaseIs, Bootstrap, DropRoot, MarkRemoved
<1>5. CASE Crash(d) \/ Hint(d) \/ Watch(d)
  BY <1>1, <1>5, ControlWants DEF BaseIs, Crash, Hint, Watch, Tables
<1>6. CASE Connect(d) \/ RetryPending(d) \/ RetryBlocked(d)
  BY <1>1, <1>6, ControlWants DEF BaseIs, Connect, RetryPending, RetryBlocked, Tables
<1>7. CASE CaughtUpOn(d)
  BY <1>1, <1>7, ControlWants DEF BaseIs, CaughtUpOn
<1>8. CASE Unblock(d)
  BY <1>1, <1>8, ControlWants DEF BaseIs, Unblock
<1>9. CASE Replay(d)
  BY <1>1, <1>9, ControlWants DEF BaseIs, Replay, Apply, MarkRemoved
<1>10. CASE PageFails(d) \/ ConflictFails(d)
  BY <1>1, <1>10, ControlWants DEF BaseIs, PageFails, ConflictFails, Fail
<1>11. CASE SkipRescan(d)
  BY <1>1, <1>11, ControlWants DEF BaseIs, SkipRescan, Fail
<1>12. CASE Overtaken(d)
  BY <1>1, <1>12, ControlWants DEF BaseIs, Overtaken
<1>13. CASE Scan(d)
  BY <1>1, <1>13, ControlWants DEF BaseIs, Scan, Fail
<1>14. CASE Resolve(d)
  BY <1>1, <1>14, ControlWants DEF BaseIs, Resolve, Fail
<1>15. CASE Recover(d)
  BY <1>1, <1>15, ControlWants DEF BaseIs, Recover, Fail
<1>16. CASE AddRoot(d) \/ RemoveRoot(d) \/ Announce(d) \/ Upload(d)
  BY <1>1, <1>16, ControlWants DEF BaseIs, AddRoot, RemoveRoot, Announce, Upload, Tables
<1>17. CASE Collide(d) \/ Recheck(d) \/ Verify(d) \/ Confirm(d) \/ Stage(d)
  BY <1>1, <1>17, ControlWants DEF BaseIs, Collide, Recheck, Verify, Confirm, Stage, Asks, Tables
<1>18. CASE Publish(d) \/ Preserve(d)
  BY <1>1, <1>18, ControlWants DEF BaseIs, Publish, Preserve, Tables
<1> QED
  BY <1>2, <1>3, <1>4, <1>5, <1>6, <1>7, <1>8, <1>9, <1>10, <1>11, <1>12, <1>13, <1>14, <1>15, <1>16, <1>17, <1>18
     DEF DeviceStep, Begin, CatchUpStep, RescanStep, AddStep

\* Rescans of the initial sync and of its recovery name the incarnation.
LEMMA StepBound == ASSUME OwnInv, NEW d \in Device, DeviceStep(d) PROVE BoundAfter(d)
<1>1. /\ TypeInv /\ job \in [Device -> Job] /\ BoundJob(d) /\ Len(log) \in Nat
      /\ job[d] \in [via : Via, want : Nat, at : Nat, again : BOOLEAN, back : BOOLEAN,
                     mine : Entry]
      /\ (Active => Created > 0)
  <2>1. TypeInv /\ BoundJob(d)
    BY DEF OwnInv
  <2>2. job \in [Device -> Job] /\ log \in Seq(Event)
    BY <2>1 DEF TypeInv, TypeOK
  <2> QED
    BY <2>1, <2>2, ServerTypes DEF Job
<1>2. CASE UserWrites(d) \/ PendingFallsDue(d) \/ Consume(d) \/ Resync(d) \/ Bootstrap(d)
  BY <1>1, <1>2, ControlWants DEF BoundAfter, BoundJob, InitialVia, InitialPc, NotYet, UserWrites, PendingFallsDue, Consume, Resync, Bootstrap
<1>3. CASE Crash(d) \/ Hint(d) \/ Watch(d)
  BY <1>1, <1>3, ControlWants DEF BoundAfter, BoundJob, InitialVia, InitialPc, NotYet, Crash, Hint, Watch
<1>4. CASE Connect(d) \/ RetryPending(d) \/ RetryBlocked(d)
  BY <1>1, <1>4, ControlWants DEF BoundAfter, BoundJob, InitialVia, InitialPc, NotYet, Connect, RetryPending, RetryBlocked
<1>5. CASE CaughtUpOn(d)
  BY <1>1, <1>5, ControlWants DEF BoundAfter, BoundJob, InitialVia, InitialPc, NotYet, CaughtUpOn, Reconcile
<1>6. CASE Unblock(d)
  BY <1>1, <1>6, ControlWants DEF BoundAfter, BoundJob, InitialVia, InitialPc, NotYet, Unblock, AfterBlocked
<1>7. CASE Replay(d)
  BY <1>1, <1>7, ControlWants DEF BoundAfter, BoundJob, InitialVia, InitialPc, NotYet, Replay, AfterBlocked
<1>8. CASE PageFails(d) \/ ConflictFails(d)
  BY <1>1, <1>8, ControlWants DEF BoundAfter, BoundJob, InitialVia, InitialPc, NotYet, PageFails, ConflictFails, Fail
<1>9. CASE SkipRescan(d)
  BY <1>1, <1>9, ControlWants DEF BoundAfter, BoundJob, InitialVia, InitialPc, NotYet, SkipRescan, Fail
<1>10. CASE Overtaken(d)
  BY <1>1, <1>10, ControlWants DEF BoundAfter, BoundJob, InitialVia, InitialPc, NotYet, Overtaken
<1>11. CASE Scan(d)
  BY <1>1, <1>11, ControlWants DEF BoundAfter, BoundJob, InitialVia, InitialPc, NotYet, Scan, FinishRescan, Fail
<1>12. CASE Resolve(d)
  BY <1>1, <1>12, ControlWants DEF BoundAfter, BoundJob, InitialVia, InitialPc, NotYet, Resolve, AfterConflict, FinishRescan, Fail
<1>13. CASE Recover(d)
  BY <1>1, <1>13, ControlWants DEF BoundAfter, BoundJob, InitialVia, InitialPc, NotYet, Recover, Fail
<1>14. CASE AddRoot(d) \/ RemoveRoot(d)
  BY <1>1, <1>14, ControlWants DEF BoundAfter, BoundJob, InitialVia, InitialPc, NotYet, AddRoot, RemoveRoot
<1>15. CASE Announce(d)
  BY <1>1, <1>15, ControlWants DEF BoundAfter, BoundJob, InitialVia, InitialPc, NotYet, Announce, AddFails, AppendRootAdd
<1>16. CASE Upload(d)
  BY <1>1, <1>16, ControlWants DEF BoundAfter, BoundJob, InitialVia, InitialPc, NotYet, Upload, AddFails
<1>17. CASE Collide(d) \/ Recheck(d)
  BY <1>1, <1>17, ControlWants DEF BoundAfter, BoundJob, InitialVia, InitialPc, NotYet, Collide, Recheck, Asks, AddFails
<1>18. CASE Verify(d) \/ Confirm(d)
  BY <1>1, <1>18, ControlWants DEF BoundAfter, BoundJob, InitialVia, InitialPc, NotYet, Verify, Confirm, Asks, AddFails
<1>19. CASE Publish(d) \/ Preserve(d)
  BY <1>1, <1>19, ControlWants DEF BoundAfter, BoundJob, InitialVia, InitialPc, NotYet, Publish, Preserve
<1>20. CASE Stage(d)
  BY <1>1, <1>20, ControlWants DEF BoundAfter, BoundJob, InitialVia, InitialPc, NotYet, Stage, Asks, AddFails
<1> QED
  BY <1>2, <1>3, <1>4, <1>5, <1>6, <1>7, <1>8, <1>9, <1>10, <1>11, <1>12, <1>13, <1>14, <1>15, <1>16, <1>17, <1>18, <1>19, <1>20
     DEF DeviceStep, Begin, CatchUpStep, RescanStep, AddStep

LEMMA OwnNext == OwnInv /\ [Next]_vars => OwnInv'
<1> SUFFICES ASSUME OwnInv, [Next]_vars PROVE OwnInv'
  OBVIOUS
<1>1. TypeInv /\ TypeInv'
  BY TypeNext DEF OwnInv
<1>2. CASE UNCHANGED vars
  BY <1>1, <1>2 DEF vars, OwnInv, BoundJob, OwnJob, OwnRecovery, OwnAdd
<1>3. ASSUME NEW d \in Device, DeviceStep(d) PROVE OwnInv'
  <2>1. LogGrows /\ OthersStay(d) /\ WantIs(d) /\ BaseIs(d) /\ BoundAfter(d)
    BY <1>1, <1>3, StepLog, StepOthers, StepWants, StepBases, StepBound
  <2>2. /\ Len(log) \in Nat /\ Len(log') \in Nat
        /\ job \in [Device -> Job] /\ recover \in [Device -> Recovery]
        /\ job' \in [Device -> Job] /\ recover' \in [Device -> Recovery]
        /\ TypeOK
    <3>1. log \in Seq(Event) /\ log' \in Seq(Event)
      BY <1>1 DEF TypeInv, TypeOK
    <3>2. job \in [Device -> Job] /\ recover \in [Device -> Recovery] /\ TypeOK
      BY <1>1 DEF TypeInv, TypeOK
    <3>3. job' \in [Device -> Job] /\ recover' \in [Device -> Recovery]
      BY <1>1 DEF TypeInv, TypeOK
    <3> QED
      BY <3>1, <3>2, <3>3
  <2>3. ASSUME NEW e \in Device, NEW s \in Nat, OwnAdd(e, s)
        PROVE  s \in 1 .. Len(log') /\ log'[s].kind = "add" /\ log'[s].by = e
    BY <2>1, <2>2, <2>3, OwnAddStays
  <2>4. \A e \in Device : job[e].want \in Nat /\ recover[e].base \in Nat
    BY <2>2 DEF Job, Recovery
  <2>5. \A e \in Device : BoundJob(e) /\ OwnJob(e) /\ OwnRecovery(e)
    BY DEF OwnInv
  <2>6. ASSUME NEW e \in Device \ {d} PROVE (BoundJob(e) /\ OwnJob(e) /\ OwnRecovery(e))'
    <3>1. job'[e] = job[e] /\ pc'[e] = pc[e] /\ recover'[e] = recover[e]
      BY <2>1 DEF OthersStay
    <3>2. BoundJob(e)'
      BY <2>5, <3>1 DEF BoundJob
    <3>3. OwnJob(e)'
      BY <2>3, <2>4, <2>5, <3>1 DEF OwnJob, OwnAdd
    <3>4. OwnRecovery(e)'
      BY <2>3, <2>4, <2>5, <3>1 DEF OwnRecovery, OwnAdd
    <3> QED
      BY <3>2, <3>3, <3>4
  <2>7. BoundJob(d)'
    BY <2>1 DEF BoundAfter, BoundJob
  <2>8. OwnJob(d)'
    <3>1. CASE job'[d].want \in {0, job[d].want}
      BY <2>3, <2>4, <2>5, <3>1 DEF OwnJob, OwnAdd
    <3>2. CASE job'[d].want = Created /\ OwnAdd(d, Created)
      <4>1. Created \in Nat
        BY <2>2, <3>2 DEF OwnAdd
      <4>2. Created \in 1 .. Len(log') /\ log'[Created].kind = "add" /\ log'[Created].by = d
        BY <2>3, <3>2, <4>1
      <4> QED
        BY <3>2, <4>2 DEF OwnJob, OwnAdd
    <3>3. CASE job'[d].want = Len(log) + 1 /\ AppendEvent(d, "add", None)
      <4>1. /\ Len(log') = Len(log) + 1
            /\ log'[Len(log) + 1] = [kind |-> "add", by |-> d, content |-> None]
        BY <2>2, <3>3, AppendGrows
      <4> QED
        BY <2>2, <3>3, <4>1 DEF OwnJob, OwnAdd
    <3> QED
      BY <2>1, <3>1, <3>2, <3>3 DEF WantIs
  <2>9. OwnRecovery(d)'
    <3>1. recover'[d].base > 0 => OwnAdd(d, recover'[d].base) /\ recover'[d].base \in Nat
      BY <2>1, <2>4, <2>5 DEF BaseIs, OwnJob, OwnRecovery
    <3> QED
      BY <2>3, <3>1 DEF OwnRecovery, OwnAdd
  <2> QED
    BY <1>1, <2>6, <2>7, <2>8, <2>9 DEF OwnInv
<1> QED
  BY <1>2, <1>3 DEF Next, DeviceStep

\* Bound submissions and OwnIncarnation: an initial sync, its retries and its
\* recovery after a restart write into the incarnation that this device added.
\* However the root was removed and added again by others meanwhile, nothing of
\* what this device had is forced into theirs.
THEOREM InitialSyncsStayInTheirOwn == Spec => OwnIncarnationOnly
<1>1. Init => OwnInv
  <2> SUFFICES ASSUME Init PROVE OwnInv
    OBVIOUS
  <2>1. ASSUME NEW d \in Device PROVE BoundJob(d) /\ OwnJob(d) /\ OwnRecovery(d)
    BY DEF Init, BoundJob, OwnJob, OwnRecovery, Idle, NoRecovery, InitialVia, InitialPc
  <2> QED
    BY <2>1, TypeInit DEF OwnInv
<1> DEFINE A == \A d \in Device :
                  LET new == log'[Len(log')] IN
                  /\ Len(log') > Len(log) /\ new.by = d /\ new.kind \in {"put", "delete"}
                  /\ Forced(d) \/ Adding(d)
                  => log[Created].by = d
<1>2. OwnInv /\ [Next]_vars => [A]_vars
  <2> SUFFICES ASSUME OwnInv, Next PROVE A
    OBVIOUS
  <2>1. PICK e \in Device : DeviceStep(e)
    BY DEF Next, DeviceStep
  <2>2. TypeInv /\ ServerStep(e) /\ TypeOK /\ Len(log) \in Nat /\ Created \in Nat
    BY <2>1, StepServerIs, ServerTypes DEF OwnInv, TypeInv
  <2> SUFFICES ASSUME NEW d \in Device, Len(log') > Len(log), log'[Len(log')].by = d,
                      log'[Len(log')].kind \in {"put", "delete"},
                      Forced(d) \/ Adding(d)
               PROVE  log[Created].by = d
    OBVIOUS
  <2>3. CASE UNCHANGED log
    BY <2>2, <2>3
  <2>4. ASSUME NEW k \in {"add", "remove"}, AppendEvent(e, k, None) PROVE FALSE
    <3>1. /\ Len(log') = Len(log) + 1
          /\ log'[Len(log) + 1] = [kind |-> k, by |-> e, content |-> None]
      BY <2>2, <2>4, AppendGrows
    <3> QED
      BY <3>1
  <2>5. CASE Submits(e)
    <3>1. d = e
      BY <2>2, <2>5, SubmitIs DEF Submits
    <3>2. job[d].via \in InitialVia
      BY DEF Forced, Adding, InitialVia
    <3>3. pc[d] \notin NotYet
      BY <2>5, <3>1 DEF Submits, NotYet
    <3>4. job[d].want > 0 /\ OwnAdd(d, job[d].want)
      BY <3>2, <3>3 DEF OwnInv, BoundJob, OwnJob
    <3>5. job[d].want = Created
      BY <2>5, <3>1, <3>4 DEF Submits, Refused
    <3> QED
      BY <3>4, <3>5 DEF OwnAdd
  <2> QED
    BY <2>2, <2>3, <2>4, <2>5 DEF ServerStep
<1> QED
  BY <1>1, <1>2, OwnNext, PTL DEF Spec, OwnIncarnationOnly
-----------------------------------------------------------------------------
(* Whether a device has the root, and whether the workspace has it *)

\* The device has the root, blocked or not.
InPlace(d) == root[d] \in {"active", "blocked"}

\* How far device d has read the log: the replay of an unblocked root goes by
\* its own position.
Pos(d) == IF pc[d] = "replay" THEN job[d].at ELSE cursor[d]

\* The root of d may be there on its own account: it was added, but the
\* root_add has not been answered, or a recovery is queued that has not asked
\* the server yet.
Waits(d) ==
  \/ recover[d].queued /\ (job[d].via \notin {"flush", "retry"} \/ pc[d] = "recover")
  \/ pc[d] \in {"announce", "preserve"} /\ job[d].want = 0

\* What a device that has read as far as the newest root event makes of it.
Agrees(d) ==
  \/ Waits(d) \/ cut[d] > LastRootEvent \/ LastRootEvent > Pos(d)
  \/ (InPlace(d) <=> Active)

\* What is queued or under way is about a root that the device has.
Shape(d) ==
  /\ cursor[d] <= Len(log)
  /\ recover[d].queued => root[d] = "active"
  /\ pc[d] = "recover" => job[d].via \in {"flush", "retry"}
  /\ pc[d] \in {"announce", "preserve"} /\ job[d].want = 0 => root[d] = "active"
  /\ pc[d] \in {"idle", "announce"} => job[d].want = 0

AgreeInv == OwnInv /\ \A d \in Device : Agrees(d) /\ Shape(d)

\* The shape, after a step.
ShapeAfter(d) ==
  /\ cursor'[d] <= Len(log')
  /\ recover'[d].queued => root'[d] = "active"
  /\ pc'[d] = "recover" => job'[d].via \in {"flush", "retry"}
  /\ pc'[d] \in {"announce", "preserve"} /\ job'[d].want = 0 => root'[d] = "active"
  /\ pc'[d] \in {"idle", "announce"} => job'[d].want = 0

WaitsAfter(d) ==
  \/ recover'[d].queued /\ (job'[d].via \notin {"flush", "retry"} \/ pc'[d] = "recover")
  \/ pc'[d] \in {"announce", "preserve"} /\ job'[d].want = 0

\* A step of one device leaves the root and the position of the others alone.
TablesStay(d) ==
  \A e \in Device \ {d} : root'[e] = root[e] /\ cursor'[e] = cursor[e] /\ cut'[e] = cut[e]

\* No step of a device touches these of another.
LEMMA StepTables == ASSUME TypeInv, NEW d \in Device, DeviceStep(d) PROVE TablesStay(d)
<1>1. DOMAIN root = Device /\ DOMAIN cursor = Device /\ DOMAIN cut = Device
  BY DEF TypeInv, TypeOK
<1>2. CASE UserWrites(d) \/ Connect(d) \/ Hint(d) \/ Watch(d) \/ RetryPending(d) \/ RetryBlocked(d) \/ PendingFallsDue(d) \/ Crash(d)
  BY <1>1, <1>2 DEF TablesStay, UserWrites, Connect, Hint, Watch, RetryPending, RetryBlocked, PendingFallsDue, Crash, CutShort, Tables, Bounds
<1>3. CASE Consume(d) \/ Replay(d)
  BY <1>1, <1>3 DEF TablesStay, Consume, Replay, Apply, EnsureRoot, MarkRemoved, CutShort, Tables, Bounds
<1>4. CASE Bootstrap(d) \/ Unblock(d)
  BY <1>1, <1>4 DEF TablesStay, Bootstrap, Unblock, TakeOver, EnsureRoot, DropRoot, MarkRemoved, Tables, Bounds
<1>5. CASE Resync(d) \/ CaughtUpOn(d) \/ PageFails(d) \/ SkipRescan(d) \/ ConflictFails(d) \/ Overtaken(d)
  BY <1>1, <1>5 DEF TablesStay, Resync, CaughtUpOn, PageFails, SkipRescan, ConflictFails, Overtaken, Tables, Bounds
<1>6. CASE Scan(d) \/ Resolve(d) \/ Recover(d)
  BY <1>1, <1>6 DEF TablesStay, Scan, Resolve, Recover, MarkRemoved, Tables, Bounds
<1>7. CASE AddRoot(d) \/ RemoveRoot(d) \/ Announce(d) \/ Upload(d) \/ Collide(d) \/ Recheck(d)
  BY <1>1, <1>7 DEF TablesStay, AddRoot, CutShort, RemoveRoot, Announce, Upload, Collide, Recheck, Asks, Tables, Bounds
<1>8. CASE Verify(d) \/ Publish(d) \/ Confirm(d) \/ Stage(d) \/ Preserve(d)
  BY <1>1, <1>8 DEF TablesStay, Verify, Publish, Confirm, Stage, Preserve, Asks, Tables, Bounds
<1> QED
  BY <1>2, <1>3, <1>4, <1>5, <1>6, <1>7, <1>8
     DEF DeviceStep, Begin, CatchUpStep, RescanStep, AddStep

\* What a root event makes the newest one, and content does not.
LEMMA StepRootEvent ==
  ASSUME TypeInv, NEW d \in Device, DeviceStep(d)
  PROVE  \/ LastRootEvent' = LastRootEvent /\ Active' = Active
         \/ LastRootEvent' = Len(log) + 1 /\ Len(log') = Len(log) + 1
<1>1. PICK r \in 0 .. Len(log) : LastAt(r) /\ LastRootEvent = r
  BY LastRootEventIs DEF TypeInv
<1>2. Len(log) \in Nat /\ TypeOK
  BY DEF TypeInv, TypeOK
<1>3. CASE UNCHANGED log
  BY <1>3 DEF LastRootEvent, Active, IsRootEvent
<1>4. CASE Submit(d)
  <2>1. /\ Len(log') = Len(log) + 1
        /\ \A s \in 1 .. Len(log) : log'[s] = log[s]
        /\ log'[Len(log) + 1].kind \in {"put", "delete"}
    BY <1>4, SubmitIs
  <2>2. LastAt(r)'
    BY <1>1, <1>2, <2>1 DEF LastAt, IsRootEvent
  <2>3. LastRootEvent' = r
    BY <1>1, <1>2, <2>1, <2>2, NewestAfter
  <2>4. r > 0 => log'[r] = log[r]
    BY <2>1
  <2> QED
    BY <1>1, <2>3, <2>4 DEF Active
<1>5. ASSUME NEW k \in {"add", "remove"}, AppendEvent(d, k, None)
      PROVE  LastRootEvent' = Len(log) + 1 /\ Len(log') = Len(log) + 1
  <2>1. /\ Len(log') = Len(log) + 1
        /\ log'[Len(log) + 1] = [kind |-> k, by |-> d, content |-> None]
    BY <1>2, <1>5, AppendGrows
  <2>2. log'[Len(log')].kind = k
    BY <1>2, <2>1
  <2>3. LastAt(Len(log))'
    BY <1>2, <2>1, <2>2 DEF LastAt, IsRootEvent
  <2> QED
    BY <1>2, <2>1, <2>3, NewestAfter
<1> QED
  BY <1>3, <1>4, <1>5, StepServerIs DEF ServerStep, Submits

\* A recovery that is over, or whose root is gone, is not queued any more.
LEMMA QueueEnds ==
  ASSUME TypeInv, NEW d \in Device
  PROVE  /\ Recovered(d) => ~recover'[d].queued
         /\ MarkRemoved(d) => ~recover'[d].queued /\ root'[d] = "removed"
<1>1. /\ DOMAIN recover = Device /\ DOMAIN root = Device
      /\ recover \in [Device -> Recovery] /\ NoRecovery.queued = FALSE
  BY DEF TypeInv, TypeOK, NoRecovery
<1> QED
  BY <1>1 DEF Recovered, MarkRemoved

\* A step that fails goes to rest, or it belongs to syna add and preserves what
\* that has reached.
LEMMA FailIs ==
  ASSUME OwnInv, NEW d \in Device, Shape(d), Fail(d),
         pc[d] \in {"page", "scan", "conflict", "collision", "recover"}
  PROVE  /\ recover'[d].queued = recover[d].queued
         /\ \/ pc'[d] = "idle" /\ job'[d].via = "none" /\ job'[d].want = 0
            \/ /\ pc'[d] = "preserve" /\ job' = job /\ job[d].want > 0
               /\ job[d].via \in {"add1", "add2", "stage"}
<1>1. TypeInv /\ BoundJob(d)
  BY DEF OwnInv
<1>2. recover \in [Device -> Recovery]
  BY <1>1 DEF TypeInv, TypeOK
<1>3. recover'[d].queued = recover[d].queued
  BY <1>2 DEF Fail, Recovery
<1>4. CASE Adding(d)
  <2>1. job[d].via \in {"add1", "add2", "stage"} /\ pc'[d] = "preserve" /\ job' = job
    BY <1>1, <1>4, ControlWants DEF Adding, Fail
  <2>2. pc[d] # "recover"
    BY <2>1 DEF Shape
  <2>3. job[d].want > 0
    BY <1>1, <2>1, <2>2 DEF BoundJob, InitialVia, NotYet
  <2> QED
    BY <1>3, <2>1, <2>3
<1>5. CASE ~Adding(d)
  BY <1>1, <1>3, <1>5, ControlWants DEF Fail
<1> QED
  BY <1>4, <1>5

\* A root event decides whether the device that applies it has the root.
LEMMA ApplyDecides ==
  ASSUME TypeInv, NEW d \in Device, NEW s \in 1 .. Len(log), Apply(d, s)
  PROVE  /\ IsRootEvent(s) => (root'[d] \in {"active", "blocked"} <=> log[s].kind = "add")
         /\ ~IsRootEvent(s) => root'[d] = root[d] /\ recover'[d] = recover[d]
         /\ recover'[d].queued => recover[d].queued /\ (root[d] = "active" => root'[d] = "active")
<1>1. /\ root \in [Device -> {"none", "active", "blocked", "removed"}]
      /\ DOMAIN recover = Device
  BY DEF TypeInv, TypeOK
<1>2. EnsureRoot(d, 0) => root'[d] \in {"active", "blocked"} /\ (root[d] = "active" => root'[d] = "active")
  BY <1>1 DEF EnsureRoot, StateAfterAdd
<1> QED
  BY <1>1, <1>2, QueueEnds DEF Apply, IsRootEvent

\* So does a bootstrap.
LEMMA TakeOverDecides ==
  ASSUME TypeInv, NEW d \in Device
  PROVE  /\ TakeOver(d) => /\ root'[d] \in {"active", "blocked"}
                           /\ root[d] = "active" => root'[d] = "active"
         /\ DropRoot(d) => /\ root'[d] \notin {"active", "blocked"}
                           /\ recover'[d].queued => recover' = recover /\ root' = root
<1>1. root \in [Device -> {"none", "active", "blocked", "removed"}]
  BY DEF TypeInv, TypeOK
<1>2. TakeOver(d) => /\ root'[d] \in {"active", "blocked"}
                     /\ root[d] = "active" => root'[d] = "active"
  BY <1>1 DEF TakeOver, EnsureRoot, StateAfterAdd
<1> QED
  BY <1>1, <1>2, QueueEnds DEF DropRoot

\* The newest root event says whether the root is active.
LEMMA NewestDecides ==
  ASSUME TypeInv, NEW s \in 1 .. Len(log)
  PROVE  /\ s = LastRootEvent => IsRootEvent(s) /\ (Active <=> log[s].kind = "add")
         /\ s > LastRootEvent => ~IsRootEvent(s)
<1>1. LastRootEvent \in 0 .. Len(log) /\ LastAt(LastRootEvent) /\ Len(log) \in Nat
  BY LastRootEventIs DEF TypeInv, TypeOK
<1> QED
  BY <1>1 DEF LastAt, Active

\* The stages of a device go with its root and its job, after each step.
LEMMA StepShape ==
  ASSUME OwnInv, NEW d \in Device, Shape(d), DeviceStep(d)
  PROVE  ShapeAfter(d)
<1> USE DEF ShapeAfter, Shape
<1>1. /\ TypeInv /\ BoundJob(d) /\ LogGrows /\ Len(log) \in Nat /\ Len(log') \in Nat
      /\ cursor[d] \in Nat /\ DOMAIN root = Device /\ DOMAIN cursor = Device
      /\ DOMAIN recover = Device
      /\ recover[d] \in [queued : BOOLEAN, due : BOOLEAN, base : Nat]
      /\ job \in [Device -> Job]
      /\ job[d] \in [via : Via, want : Nat, at : Nat, again : BOOLEAN, back : BOOLEAN,
                     mine : Entry]
      /\ pc \in [Device -> Label]
  <2>1. TypeInv /\ BoundJob(d)
    BY DEF OwnInv
  <2>2. LogGrows /\ TypeInv'
    <3>1. [Next]_vars
      BY DEF Next, DeviceStep
    <3> QED
      BY <2>1, <3>1, StepLog, TypeNext
  <2>3. log \in Seq(Event) /\ log' \in Seq(Event)
    BY <2>1, <2>2 DEF TypeInv, TypeOK
  <2>4. Len(log) \in Nat /\ Len(log') \in Nat
    BY <2>3
  <2> QED
    BY <2>1, <2>2, <2>4 DEF TypeInv, TypeOK, Recovery, Job
<1>2. cursor'[d] = cursor[d] => cursor'[d] <= Len(log')
  BY <1>1 DEF LogGrows
<1>3. CASE UserWrites(d) \/ PendingFallsDue(d) \/ Resync(d)
  BY <1>1, <1>2, <1>3, ControlWants DEF UserWrites, PendingFallsDue, Resync, Tables
<1>4. CASE Crash(d) \/ Hint(d) \/ Watch(d)
  BY <1>1, <1>2, <1>4, ControlWants DEF Crash, Hint, Watch, Tables
<1>5. CASE Connect(d) \/ RetryPending(d) \/ RetryBlocked(d)
  BY <1>1, <1>2, <1>5, ControlWants DEF Connect, RetryPending, RetryBlocked, Tables
<1>6. CASE Consume(d)
  BY <1>1, <1>6, ApplyDecides DEF Consume, Server
<1>7. CASE Replay(d)
  BY <1>1, <1>2, <1>7, ApplyDecides, ControlWants DEF Replay, AfterBlocked, Server
<1>8. CASE Bootstrap(d)
  <2>1. BootstrapAfterSeq <= Len(log) /\ log' = log
    BY <1>1, <1>8, ServerTypes DEF BootstrapAfterSeq, Bootstrap, Server, TypeInv, SeqsKnown
  <2>2. cursor'[d] <= Len(log') /\ pc'[d] = "page"
    BY <1>1, <1>8, <2>1, ControlWants DEF Bootstrap
  <2> QED
    BY <1>1, <1>8, <2>2, TakeOverDecides DEF Bootstrap
<1>9. CASE Unblock(d)
  BY <1>1, <1>2, <1>9, TakeOverDecides, ControlWants DEF Unblock, AfterBlocked
<1>10. CASE CaughtUpOn(d)
  BY <1>1, <1>2, <1>10, QueueEnds, ControlWants DEF BoundJob, InitialVia, NotYet, CaughtUpOn, Reconcile
<1>11. CASE PageFails(d) \/ ConflictFails(d)
  BY <1>1, <1>2, <1>11, FailIs DEF PageFails, ConflictFails
<1>12. CASE SkipRescan(d)
  BY <1>1, <1>2, <1>12, FailIs, QueueEnds, ControlWants DEF SkipRescan
<1>13. CASE Overtaken(d)
  BY <1>1, <1>2, <1>13, ControlWants DEF Overtaken
<1>14. CASE Scan(d)
  BY <1>1, <1>2, <1>14, FailIs, ControlWants DEF Scan, FinishRescan
<1>15. CASE Resolve(d)
  BY <1>1, <1>2, <1>15, FailIs, ControlWants DEF Resolve, AfterConflict, FinishRescan
<1>16. CASE Recover(d)
  BY <1>1, <1>2, <1>16, FailIs, QueueEnds, ControlWants DEF Recover
<1>17. CASE AddRoot(d) \/ RemoveRoot(d)
  BY <1>1, <1>2, <1>17, ControlWants DEF AddRoot, RemoveRoot, Tables
<1>18. CASE Announce(d)
  BY <1>1, <1>2, <1>18, ControlWants DEF Announce, AddFails, Tables
<1>19. CASE Upload(d)
  BY <1>1, <1>2, <1>19, ControlWants DEF BoundJob, InitialPc, NotYet, Upload, AddFails
<1>20. CASE Collide(d) \/ Recheck(d)
  BY <1>1, <1>2, <1>20, ControlWants DEF BoundJob, InitialPc, NotYet, Collide, Recheck, Asks, AddFails, Tables
<1>21. CASE Verify(d) \/ Confirm(d)
  BY <1>1, <1>2, <1>21, ControlWants DEF BoundJob, InitialPc, NotYet, Verify, Confirm, Asks, AddFails, Tables
<1>22. CASE Publish(d) \/ Preserve(d)
  BY <1>1, <1>2, <1>22, ControlWants DEF Publish, Preserve, Tables
<1>23. CASE Stage(d)
  BY <1>1, <1>2, <1>23, ControlWants DEF BoundJob, InitialPc, NotYet, Stage, Asks, AddFails, Tables
<1> QED
  BY <1>3, <1>4, <1>5, <1>6, <1>7, <1>8, <1>9, <1>10, <1>11, <1>12, <1>13, <1>14, <1>15, <1>16, <1>17, <1>18, <1>19, <1>20, <1>21, <1>22, <1>23
     DEF DeviceStep, Begin, CatchUpStep, RescanStep, AddStep

PosAfter(d) == IF pc'[d] = "replay" THEN job'[d].at ELSE cursor'[d]

\* A step leaves alone whether device d has the root, or is one of those that
\* see to it: what the device has is then as the server has it, or waits for an
\* answer, or was cut short, or there is a new root event to come.
Quiet(d) ==
  /\ root'[d] = root[d] /\ cut'[d] = cut[d] /\ PosAfter(d) = Pos(d)
  /\ Waits(d) => WaitsAfter(d)

Settles(d) == UNCHANGED log /\ (root'[d] \in {"active", "blocked"} <=> Active)

Reads(d) ==
  /\ UNCHANGED log /\ cut'[d] = cut[d]
  /\ PosAfter(d) = Pos(d) + 1 /\ Pos(d) + 1 \in 1 .. Len(log)
  /\ LastRootEvent = Pos(d) + 1 => (root'[d] \in {"active", "blocked"} <=> Active)
  /\ Pos(d) + 1 > LastRootEvent => root'[d] = root[d] /\ (Waits(d) => WaitsAfter(d))

HasRead(d) ==
  /\ UNCHANGED log /\ root'[d] = root[d] /\ cut'[d] = cut[d]
  /\ Pos(d) = Len(log) /\ (Waits(d) => WaitsAfter(d))

IsCut(d) == UNCHANGED log /\ cut'[d] = Len(log) + 1

NewRootEvent(d) ==
  /\ Len(log') = Len(log) + 1 /\ LastRootEvent' = Len(log) + 1
  /\ PosAfter(d) <= Len(log)

RootStep(d) ==
  Quiet(d) \/ Settles(d) \/ Reads(d) \/ HasRead(d) \/ IsCut(d) \/ WaitsAfter(d)
    \/ NewRootEvent(d)

\* Every step is in one of these ways.
LEMMA StepRoot ==
  ASSUME OwnInv, NEW d \in Device, Shape(d), DeviceStep(d)
  PROVE  RootStep(d)
<1>1. /\ TypeInv /\ BoundJob(d) /\ Len(log) \in Nat
      /\ cursor[d] \in Nat /\ DOMAIN root = Device /\ DOMAIN cursor = Device
      /\ DOMAIN recover = Device /\ DOMAIN cut = Device
      /\ recover[d] \in [queued : BOOLEAN, due : BOOLEAN, base : Nat]
      /\ job \in [Device -> Job]
      /\ job[d] \in [via : Via, want : Nat, at : Nat, again : BOOLEAN, back : BOOLEAN,
                     mine : Entry]
      /\ pc \in [Device -> Label]
  <2>1. TypeInv /\ BoundJob(d)
    BY DEF OwnInv
  <2>2. log \in Seq(Event)
    BY <2>1 DEF TypeInv, TypeOK
  <2>3. Len(log) \in Nat
    BY <2>2
  <2> QED
    BY <2>1, <2>3 DEF TypeInv, TypeOK, Recovery, Job
<1> DEFINE Stays == root'[d] = root[d] /\ cut'[d] = cut[d] /\ cursor'[d] = cursor[d]
           Quietly == /\ Stays /\ pc[d] # "replay" /\ pc'[d] # "replay"
                      /\ Waits(d) => WaitsAfter(d)
<1>2. Quietly => RootStep(d)
  BY DEF RootStep, Quiet, PosAfter, Pos
<1>3. CASE UserWrites(d) \/ PendingFallsDue(d)
  <2>1. Quiet(d)
    BY <1>1, <1>3 DEF Quiet, Waits, WaitsAfter, Pos, PosAfter, UserWrites, PendingFallsDue, Tables, Bounds
  <2> QED
    BY <2>1 DEF RootStep
<1>4. CASE Crash(d)
  <2>1. CASE Unguarded(d)
    BY <1>1, <1>4, <2>1 DEF RootStep, IsCut, Crash, CutShort, Server
  <2>2. CASE ~Unguarded(d)
    <3>1. Quietly
      BY <1>1, <1>4, <2>2, ControlWants DEF Waits, WaitsAfter, Unguarded, Crash, Tables
    <3> QED
      BY <1>2, <3>1
  <2> QED
    BY <2>1, <2>2
<1>5. CASE Hint(d) \/ Watch(d) \/ Connect(d) \/ RetryPending(d) \/ RetryBlocked(d)
  <2>1. Quietly
    BY <1>1, <1>5, ControlWants DEF Waits, WaitsAfter, Hint, Watch, Connect, RetryPending, RetryBlocked, Tables, Bounds
  <2> QED
    BY <1>2, <2>1
<1>6. CASE Resync(d) \/ CaughtUpOn(d)
  <2>1. Quietly
    BY <1>1, <1>6, QueueEnds, ControlWants DEF Waits, WaitsAfter, BoundJob, InitialVia, NotYet, Resync, CaughtUpOn, Reconcile, Tables, Bounds
  <2> QED
    BY <1>2, <2>1
<1>7. CASE Bootstrap(d)
  BY <1>1, <1>7, TakeOverDecides DEF RootStep, Settles, Bootstrap, Server
<1>8. CASE Consume(d)
  <2> DEFINE s == cursor[d] + 1
  <2>1. /\ s \in 1 .. Len(log) /\ UNCHANGED log /\ cut'[d] = cut[d]
        /\ pc[d] = "page" /\ pc' = pc /\ job' = job /\ cursor'[d] = s
        /\ \/ Apply(d, s)
           \/ Materialized(d, s) /\ root' = root /\ recover' = recover
    BY <1>1, <1>8 DEF Consume, Server, Bounds
  <2> HIDE DEF s
  <2>2. PosAfter(d) = Pos(d) + 1 /\ Pos(d) + 1 = s
    BY <2>1 DEF PosAfter, Pos, s
  <2>3. LastRootEvent = s => (root'[d] \in {"active", "blocked"} <=> Active)
    BY <1>1, <2>1, ApplyDecides, NewestDecides DEF Materialized, IsRootEvent
  <2>4. s > LastRootEvent => root'[d] = root[d] /\ recover'[d] = recover[d]
    BY <1>1, <2>1, ApplyDecides, NewestDecides
  <2>5. Reads(d)
    BY <2>1, <2>2, <2>3, <2>4 DEF Reads, Waits, WaitsAfter
  <2> QED
    BY <2>5 DEF RootStep
<1>9. CASE Replay(d)
  <2> DEFINE s == job[d].at + 1
  <2>a. s \in Nat /\ Floor \in Nat
    BY <1>1, ServerTypes
  <2>1. CASE s <= Len(log) /\ Floor <= job[d].at
    <3>1. /\ s \in 1 .. Len(log) /\ UNCHANGED log /\ cut'[d] = cut[d]
          /\ pc[d] = "replay" /\ pc' = pc /\ job'[d] = [job[d] EXCEPT !.at = s] /\ Apply(d, s)
      BY <1>1, <1>9, <2>1, <2>a DEF Replay, Server
    <3>2. PosAfter(d) = Pos(d) + 1 /\ Pos(d) + 1 = s /\ job'[d].via = job[d].via /\ job'[d].want = job[d].want
      BY <1>1, <3>1 DEF PosAfter, Pos
    <3> HIDE DEF s
    <3>3. LastRootEvent = s => (root'[d] \in {"active", "blocked"} <=> Active)
      BY <1>1, <3>1, ApplyDecides, NewestDecides
    <3>4. s > LastRootEvent => root'[d] = root[d] /\ recover'[d] = recover[d]
      BY <1>1, <3>1, ApplyDecides, NewestDecides
    <3>5. Reads(d)
      BY <3>1, <3>2, <3>3, <3>4 DEF Reads, Waits, WaitsAfter
    <3> QED
      BY <3>5 DEF RootStep
  <2>2. CASE s > Len(log) /\ Floor <= job[d].at
    <3>1. job[d].at = Len(log)
      BY <1>1, <2>2 DEF TypeInv, SeqsKnown
    <3>2. HasRead(d)
      BY <1>1, <1>9, <2>2, <2>a, <3>1, ControlWants DEF HasRead, Pos, Waits, WaitsAfter, Replay, AfterBlocked, Server
    <3> QED
      BY <3>2 DEF RootStep
  <2>3. CASE job[d].at < Floor
    <3>1. ~(Floor <= job[d].at)
      BY <1>1, <2>3, ServerTypes
    <3>2. IsCut(d)
      BY <1>1, <1>9, <2>3, <3>1 DEF IsCut, Replay, CutShort, Server
    <3> QED
      BY <3>2 DEF RootStep
  <2>4. (s <= Len(log) \/ s > Len(log)) /\ (Floor <= job[d].at \/ job[d].at < Floor)
    BY <1>1, <2>a
  <2> QED
    BY <2>1, <2>2, <2>3, <2>4
<1>10. CASE Unblock(d)
  <2>1. CASE root[d] = "blocked" /\ Active
    BY <1>1, <1>10, <2>1, TakeOverDecides DEF RootStep, Settles, Unblock, Server
  <2>2. CASE ~(root[d] = "blocked" /\ Active)
    <3>1. Quietly
      BY <1>1, <1>10, <2>2, ControlWants DEF Waits, WaitsAfter, Unblock, AfterBlocked, Bounds
    <3> QED
      BY <1>2, <3>1
  <2> QED
    BY <2>1, <2>2
<1>11. CASE PageFails(d) \/ ConflictFails(d)
  <2>1. Quietly
    BY <1>1, <1>11, FailIs DEF Waits, WaitsAfter, PageFails, ConflictFails, Bounds
  <2> QED
    BY <1>2, <2>1
<1>12. CASE SkipRescan(d)
  <2>1. Quietly
    BY <1>1, <1>12, FailIs, QueueEnds, ControlWants DEF Shape, Waits, WaitsAfter, SkipRescan, Bounds
  <2> QED
    BY <1>2, <2>1
<1>13. CASE Overtaken(d)
  <2>1. Quietly
    BY <1>1, <1>13, ControlWants DEF Waits, WaitsAfter, Overtaken, Bounds
  <2> QED
    BY <1>2, <2>1
<1>14. CASE Scan(d)
  <2>1. Quietly
    BY <1>1, <1>14, FailIs, ControlWants DEF Waits, WaitsAfter, Scan, FinishRescan
  <2> QED
    BY <1>2, <2>1
<1>15. CASE Resolve(d)
  <2>1. Quietly
    BY <1>1, <1>15, FailIs, ControlWants DEF Waits, WaitsAfter, Resolve, AfterConflict, FinishRescan, Forced, Bounds
  <2> QED
    BY <1>2, <2>1
<1>16. CASE Recover(d)
  <2>1. CASE root[d] # "active"
    <3>1. Quietly
      BY <1>1, <1>16, <2>1, QueueEnds, ControlWants DEF Shape, Waits, WaitsAfter, Recover
    <3> QED
      BY <1>2, <3>1
  <2>2. CASE root[d] = "active" /\ Fail(d) /\ root' = root
    <3>1. Quietly
      BY <1>1, <1>16, <2>2, FailIs DEF Shape, Waits, WaitsAfter, Recover
    <3> QED
      BY <1>2, <3>1
  <2>3. CASE root[d] = "active" /\ ~(Fail(d) /\ root' = root)
    <3>1. Settles(d)
      BY <1>1, <1>16, <2>3, QueueEnds DEF Settles, Recover, Server
    <3> QED
      BY <3>1 DEF RootStep
  <2> QED
    BY <2>1, <2>2, <2>3
<1>17. CASE AddRoot(d)
  <2>1. WaitsAfter(d)
    BY <1>1, <1>17, ControlWants DEF Shape, WaitsAfter, AddRoot
  <2> QED
    BY <2>1 DEF RootStep
<1>18. CASE RemoveRoot(d)
  <2>1. Quietly
    BY <1>1, <1>18, ControlWants DEF Waits, WaitsAfter, RemoveRoot, Tables
  <2> QED
    BY <1>2, <2>1
<1>19. CASE Announce(d)
  <2>1. CASE AddFails(d)
    <3>1. Quietly
      BY <1>1, <1>19, <2>1, ControlWants DEF Waits, WaitsAfter, Announce, AddFails, Tables
    <3> QED
      BY <1>2, <3>1
  <2>2. CASE AppendRootAdd(d) /\ Goto(d, "upload")
    <3>1. /\ Len(log') = Len(log) + 1 /\ log'[Len(log) + 1] = [kind |-> "add", by |-> d, content |-> None]
      BY <1>1, <2>2, AppendGrows DEF AppendRootAdd, TypeInv
    <3>2. log'[Len(log')].kind = "add"
      BY <3>1
    <3>3. LastAt(Len(log))'
      BY <1>1, <3>1, <3>2 DEF LastAt, IsRootEvent
    <3>4. LastRootEvent' = Len(log) + 1
      BY <1>1, <3>1, <3>3, NewestAfter
    <3>5. PosAfter(d) <= Len(log)
      BY <1>1, <1>19, <2>2, ControlWants DEF PosAfter, Shape, Announce, Tables
    <3> QED
      BY <3>1, <3>4, <3>5 DEF RootStep, NewRootEvent
  <2> QED
    BY <1>19, <2>1, <2>2 DEF Announce
<1>20. CASE Upload(d)
  <2>1. Quietly
    BY <1>1, <1>20, ControlWants DEF BoundJob, InitialPc, NotYet, Waits, WaitsAfter, Upload, AddFails
  <2> QED
    BY <1>2, <2>1
<1>21. CASE Collide(d) \/ Recheck(d) \/ Stage(d)
  <2>1. Quietly
    BY <1>1, <1>21, ControlWants DEF BoundJob, InitialPc, NotYet, Waits, WaitsAfter, Collide, Recheck, Stage, Asks, AddFails, Tables
  <2> QED
    BY <1>2, <2>1
<1>22. CASE Verify(d) \/ Confirm(d) \/ Publish(d)
  <2>1. Quietly
    BY <1>1, <1>22, ControlWants DEF BoundJob, InitialPc, NotYet, Waits, WaitsAfter, Verify, Confirm, Publish, Asks, AddFails, Tables
  <2> QED
    BY <1>2, <2>1
<1>23. CASE Preserve(d)
  <2>1. CASE root[d] = "active"
    <3>1. WaitsAfter(d)
      BY <1>1, <1>23, <2>1, ControlWants DEF WaitsAfter, Preserve
    <3> QED
      BY <3>1 DEF RootStep
  <2>2. CASE root[d] # "active"
    <3>1. Quietly
      BY <1>1, <1>23, <2>2, ControlWants DEF Shape, Waits, WaitsAfter, Preserve
    <3> QED
      BY <1>2, <3>1
  <2> QED
    BY <2>1, <2>2
<1> QED
  BY <1>3, <1>4, <1>5, <1>6, <1>7, <1>8, <1>9, <1>10, <1>11, <1>12, <1>13, <1>14, <1>15, <1>16, <1>17, <1>18, <1>19, <1>20, <1>21, <1>22, <1>23
     DEF DeviceStep, Begin, CatchUpStep, RescanStep, AddStep

\* Where the device that takes the step ends up.
LEMMA AgreesAfter ==
  ASSUME OwnInv, NEW d \in Device, Agrees(d), Shape(d), DeviceStep(d)
  PROVE  Agrees(d)'
<1>1. /\ TypeInv /\ Len(log) \in Nat /\ LastRootEvent \in 0 .. Len(log)
      /\ Pos(d) \in Nat /\ Pos(d) <= Len(log) /\ cut[d] \in Nat
  <2>1. TypeInv
    BY DEF OwnInv
  <2>2. log \in Seq(Event) /\ LastRootEvent \in 0 .. Len(log)
    BY <2>1, LastRootEventIs DEF TypeInv, TypeOK
  <2>3. job[d].at \in Nat /\ job[d].at <= Len(log) /\ cursor[d] \in Nat /\ cut[d] \in Nat
    BY <2>1 DEF TypeInv, TypeOK, SeqsKnown, Job
  <2> QED
    BY <2>1, <2>2, <2>3 DEF Pos, Shape
<1> DEFINE there == root'[d] \in {"active", "blocked"}
<1>2. Agrees(d)' <=> \/ WaitsAfter(d) \/ cut'[d] > LastRootEvent'
                     \/ LastRootEvent' > PosAfter(d) \/ (there <=> Active')
  BY DEF Agrees, WaitsAfter, Waits, PosAfter, Pos, InPlace
<1>3. Agrees(d) <=> \/ Waits(d) \/ cut[d] > LastRootEvent
                    \/ LastRootEvent > Pos(d) \/ (root[d] \in {"active", "blocked"} <=> Active)
  BY DEF Agrees, InPlace
<1>4. \/ LastRootEvent' = LastRootEvent /\ Active' = Active
      \/ LastRootEvent' = Len(log) + 1 /\ Len(log') = Len(log) + 1
  BY <1>1, StepRootEvent
<1>5. UNCHANGED log => LastRootEvent' = LastRootEvent /\ Active' = Active
  BY DEF LastRootEvent, Active, IsRootEvent
<1> HIDE DEF there
<1>6. CASE Quiet(d)
  BY <1>1, <1>2, <1>3, <1>4, <1>6 DEF Quiet, there
<1>7. CASE Settles(d)
  BY <1>2, <1>5, <1>7 DEF Settles, there
<1>8. CASE Reads(d)
  BY <1>1, <1>2, <1>3, <1>5, <1>8 DEF Reads, there
<1>9. CASE HasRead(d)
  BY <1>1, <1>2, <1>3, <1>5, <1>9 DEF HasRead, there
<1>10. CASE IsCut(d)
  BY <1>1, <1>2, <1>5, <1>10 DEF IsCut
<1>11. CASE WaitsAfter(d)
  BY <1>2, <1>11
<1>12. CASE NewRootEvent(d)
  <2>1. PosAfter(d) \in Nat
    <3>1. [Next]_vars
      BY DEF Next, DeviceStep
    <3>2. job' \in [Device -> Job] /\ cursor' \in [Device -> Nat]
      BY <1>1, <3>1, TypeNext DEF TypeInv, TypeOK
    <3> QED
      BY <3>2 DEF PosAfter, Job
  <2> QED
    BY <1>1, <1>2, <1>12, <2>1 DEF NewRootEvent
<1> QED
  BY <1>6, <1>7, <1>8, <1>9, <1>10, <1>11, <1>12, StepRoot DEF RootStep

\* The others have read no further than before, and so not a new root event.
LEMMA OthersAgree ==
  ASSUME OwnInv, NEW d \in Device, DeviceStep(d),
         NEW e \in Device \ {d}, Agrees(e), Shape(e)
  PROVE  Agrees(e)' /\ Shape(e)'
<1>1. /\ TypeInv /\ Len(log) \in Nat /\ Len(log') \in Nat /\ Len(log) <= Len(log')
      /\ Pos(e) \in Nat /\ Pos(e) <= Len(log) /\ cursor[e] \in Nat
  <2>1. TypeInv
    BY DEF OwnInv
  <2>2. TypeInv' /\ LogGrows
    <3>1. [Next]_vars
      BY DEF Next, DeviceStep
    <3> QED
      BY <2>1, <3>1, TypeNext, StepLog
  <2>3. log \in Seq(Event) /\ log' \in Seq(Event)
    BY <2>1, <2>2 DEF TypeInv, TypeOK
  <2>4. job[e].at \in Nat /\ job[e].at <= Len(log) /\ cursor[e] \in Nat
    BY <2>1 DEF TypeInv, TypeOK, SeqsKnown, Job
  <2> QED
    BY <2>1, <2>2, <2>3, <2>4 DEF Pos, Shape, LogGrows
<1>2. /\ job'[e] = job[e] /\ pc'[e] = pc[e] /\ recover'[e] = recover[e]
      /\ root'[e] = root[e] /\ cursor'[e] = cursor[e] /\ cut'[e] = cut[e]
  BY <1>1, StepOthers, StepTables DEF OthersStay, TablesStay
<1>3. Shape(e)'
  BY <1>1, <1>2 DEF Shape
<1>4. Pos(e)' = Pos(e) /\ (Waits(e)' <=> Waits(e)) /\ (InPlace(e)' <=> InPlace(e))
  BY <1>2 DEF Pos, Waits, InPlace
<1>5. \/ LastRootEvent' = LastRootEvent /\ Active' = Active
      \/ LastRootEvent' = Len(log) + 1
  BY <1>1, StepRootEvent
<1>6. Agrees(e)'
  BY <1>1, <1>2, <1>4, <1>5 DEF Agrees
<1> QED
  BY <1>3, <1>6

LEMMA AgreeNext == AgreeInv /\ [Next]_vars => AgreeInv'
<1> SUFFICES ASSUME AgreeInv, [Next]_vars PROVE AgreeInv'
  OBVIOUS
<1>1. OwnInv /\ OwnInv'
  BY OwnNext DEF AgreeInv
<1>2. CASE UNCHANGED vars
  BY <1>1, <1>2 DEF vars, AgreeInv, Agrees, Shape, Waits, Pos, InPlace, LastRootEvent, Active, IsRootEvent
<1>3. ASSUME NEW d \in Device, DeviceStep(d) PROVE AgreeInv'
  <2>1. \A e \in Device : Agrees(e) /\ Shape(e)
    BY DEF AgreeInv
  <2>2. Agrees(d)'
    BY <1>1, <1>3, <2>1, AgreesAfter
  <2>3. Shape(d)'
    BY <1>1, <1>3, <2>1, StepShape DEF ShapeAfter, Shape
  <2>4. ASSUME NEW e \in Device \ {d} PROVE Agrees(e)' /\ Shape(e)'
    BY <1>1, <1>3, <2>1, OthersAgree
  <2> QED
    BY <1>1, <2>2, <2>3, <2>4 DEF AgreeInv
<1> QED
  BY <1>2, <1>3 DEF Next, DeviceStep

LEMMA AgreeInit == Init => AgreeInv
<1> SUFFICES ASSUME Init PROVE AgreeInv
  OBVIOUS
<1>1. OwnInv
  <2>1. ASSUME NEW d \in Device PROVE BoundJob(d) /\ OwnJob(d) /\ OwnRecovery(d)
    BY DEF Init, BoundJob, OwnJob, OwnRecovery, Idle, NoRecovery, InitialVia, InitialPc
  <2> QED
    BY <2>1, TypeInit DEF OwnInv
<1>2. Len(log) = 0
  BY DEF Init
<1>3. LastRootEvent = 0
  BY <1>1, <1>2, LastRootEventIs DEF OwnInv, TypeInv
<1>4. ASSUME NEW d \in Device PROVE Agrees(d) /\ Shape(d)
  BY <1>2, <1>3 DEF Init, Agrees, Shape, InPlace, Active, NoRecovery, Idle
<1> QED
  BY <1>1, <1>4 DEF AgreeInv

\* applyRemoteEvent, Bootstrap, retryBlockedRoots and recoverPendingInitialRoot
\* together: whatever adds, removals, bootstraps, failed initial syncs and
\* restarts came in between, a device that has seen the log and owes no recovery
\* has the root if and only if the workspace has it.
THEOREM DevicesAgreeOnTheRoot == Spec => []RootsAgree
<1>1. AgreeInv => RootsAgree
  <2> SUFFICES ASSUME AgreeInv, NEW d \in Device, pc[d] = "idle",
                      cursor[d] = Len(log), ~recover[d].queued, LastRootEvent >= cut[d]
               PROVE  root[d] \in {"active", "blocked"} <=> Active
    BY DEF RootsAgree
  <2>1. /\ LastRootEvent \in 0 .. Len(log) /\ Len(log) \in Nat /\ cut[d] \in Nat
        /\ Agrees(d)
    <3>1. TypeInv
      BY DEF AgreeInv, OwnInv
    <3>2. log \in Seq(Event) /\ cut \in [Device -> Nat]
      BY <3>1 DEF TypeInv, TypeOK
    <3> QED
      BY <3>1, <3>2, LastRootEventIs DEF TypeInv, AgreeInv
  <2>2. ~Waits(d) /\ Pos(d) = Len(log)
    BY DEF Waits, Pos
  <2> QED
    BY <2>1, <2>2 DEF Agrees, InPlace
<1> QED
  BY <1>1, AgreeInit, AgreeNext, PTL DEF Spec

-----------------------------------------------------------------------------
(* What a device knows of the file *)

\* An entry is an event of the log.
EntryIs(d) ==
  entry[d].seq > 0 => /\ entry[d].seq <= Len(log)
                      /\ entry[d].content = log[entry[d].seq].content

\* The head of a conflict is not behind the cursor.
HeadIsAhead(d) ==
  pc[d] \in {"conflict", "overtaken", "collide", "collision"} /\ job[d].at > 0
    => job[d].at >= cursor[d]

\* An upload begins before the device has read of the root it announced.
UploadIsFirst(d) == pc[d] = "upload" => job[d].want > cursor[d]

\* A device that never had the root active has written nothing into it.
Untouched(d) ==
  root[d] \in {"none", "blocked"} =>
    /\ entry[d] = NoEntry
    /\ \A t \in 1 .. Len(log) : log[t].by = d => IsRootEvent(t)

Writing == {"announce", "upload", "collide", "collision", "recheck", "conflict", "overtaken"}

WritesActive(d) == pc[d] \in Writing => root[d] = "active"

\* Where latest_snapshot_seq is ahead of the cursor there is nothing of its own.
SnapshotNotOwn(d) ==
  /\ snapSeq[d] <= Len(log)
  /\ \A t \in (cursor[d] + 1) .. snapSeq[d] : log[t].by = d => IsRootEvent(t)

\* A replay leaves the entry at no earlier version than it has come by.
Replayed(d) ==
  pc[d] = "replay" /\ root[d] = "active" /\ Active =>
    \A t \in (Created + 1) .. job[d].at : log[t].kind = "put" => entry[d].seq >= t

\* A device knows the version at its cursor, or is ahead of it.
Knows(d) ==
  /\ pc[d] # "replay" /\ root[d] = "active" /\ Active
  /\ Created < cursor[d] /\ cut[d] <= cursor[d] /\ log[cursor[d]].kind = "put"
  => entry[d].seq > cursor[d] \/ entry[d].content = log[cursor[d]].content

\* A snapshot has a file in it.
SnapshotHasFile == snap.base > 0 => snap.content # None

KnowsAll(d) ==
  /\ EntryIs(d) /\ HeadIsAhead(d) /\ UploadIsFirst(d) /\ Untouched(d)
  /\ WritesActive(d) /\ SnapshotNotOwn(d) /\ Replayed(d) /\ Knows(d)

KnowInv ==
  /\ AgreeInv /\ HistoryInv /\ SnapshotHasFile
  /\ \A d \in Device : KnowsAll(d)

\* What the steps below start from.
LEMMA Given ==
  ASSUME KnowInv, NEW d \in Device
  PROVE  /\ TypeInv /\ TypeOK /\ OwnInv /\ Shape(d) /\ KnowsAll(d)
         /\ Len(log) \in Nat /\ cursor[d] \in 0 .. Len(log)
         /\ job[d].at \in 0 .. Len(log) /\ job[d].want \in Nat
         /\ job \in [Device -> Job] /\ pc \in [Device -> Label]
         /\ entry \in [Device -> Entry] /\ entry[d].seq \in Nat
         /\ entry[d] = [seq |-> entry[d].seq, content |-> entry[d].content]
         /\ disk[d] \in File /\ snap.base \in 0 .. Len(log)
         /\ DOMAIN root = Device /\ DOMAIN cursor = Device /\ DOMAIN cut = Device
         /\ DOMAIN snapSeq = Device /\ snapSeq[d] \in Nat /\ cut[d] \in Nat
         /\ Created \in 0 .. Len(log) /\ PathHead \in 0 .. Len(log)
         /\ Floor \in 0 .. Len(log)
<1>1. TypeInv /\ TypeOK /\ OwnInv /\ Shape(d) /\ KnowsAll(d) /\ SeqsKnown
  BY DEF KnowInv, AgreeInv, OwnInv, TypeInv
<1>2. log \in Seq(Event) /\ job[d] \in Job /\ entry[d] \in Entry
  BY <1>1 DEF TypeOK
<1>3. /\ Len(log) \in Nat /\ job[d].at \in Nat /\ job[d].want \in Nat /\ entry[d].seq \in Nat
      /\ entry[d] = [seq |-> entry[d].seq, content |-> entry[d].content]
  BY <1>2 DEF Job, Entry
<1>4. snap.base \in Nat /\ snap.base <= Len(log) /\ job[d].at <= Len(log)
  BY <1>1 DEF TypeOK, SeqsKnown
<1>5. cursor[d] \in Nat /\ cursor[d] <= Len(log) /\ snapSeq[d] \in Nat /\ cut[d] \in Nat
  BY <1>1 DEF TypeOK, Shape
<1>6. /\ cursor[d] \in 0 .. Len(log) /\ job[d].at \in 0 .. Len(log)
      /\ snap.base \in 0 .. Len(log)
  BY <1>3, <1>4, <1>5
<1>7. /\ job \in [Device -> Job] /\ pc \in [Device -> Label]
      /\ entry \in [Device -> Entry] /\ disk[d] \in File
      /\ DOMAIN root = Device /\ DOMAIN cursor = Device /\ DOMAIN cut = Device
      /\ DOMAIN snapSeq = Device
  BY <1>1 DEF TypeOK
<1>8. /\ Created \in 0 .. Len(log) /\ PathHead \in 0 .. Len(log)
      /\ Floor \in 0 .. Len(log)
  BY <1>1, ServerTypes
<1> QED
  BY <1>1, <1>3, <1>5, <1>6, <1>7, <1>8

\* A step leaves the other devices' entries alone.
LEMMA StepEntries ==
  ASSUME TypeInv, NEW d \in Device, DeviceStep(d)
  PROVE  \A e \in Device \ {d} : entry'[e] = entry[e] /\ snapSeq'[e] = snapSeq[e]
<1> DEFINE Stay == \A e \in Device \ {d} : entry'[e] = entry[e] /\ snapSeq'[e] = snapSeq[e]
<1>1. DOMAIN entry = Device /\ DOMAIN snapSeq = Device
  BY DEF TypeInv, TypeOK
<1>2. CASE UserWrites(d) \/ Connect(d) \/ Hint(d) \/ Watch(d) \/ RetryPending(d) \/ RetryBlocked(d) \/ PendingFallsDue(d) \/ Crash(d)
  BY <1>1, <1>2 DEF UserWrites, Connect, Hint, Watch, RetryPending, RetryBlocked, PendingFallsDue, Crash, Tables
<1>3. CASE Consume(d) \/ Replay(d)
  BY <1>1, <1>3 DEF Consume, Replay, Apply, EnsureRoot, MarkRemoved, ApplyContent
<1>4. CASE Bootstrap(d) \/ Unblock(d)
  BY <1>1, <1>4 DEF Bootstrap, Unblock, TakeOver, EnsureRoot, ApplySnapshot, DropRoot, MarkRemoved
<1>5. CASE Resync(d) \/ CaughtUpOn(d) \/ PageFails(d) \/ SkipRescan(d) \/ ConflictFails(d) \/ Overtaken(d)
  BY <1>1, <1>5 DEF Resync, CaughtUpOn, PageFails, SkipRescan, ConflictFails, Overtaken, ApplyContent, Tables
<1>6. CASE Scan(d) \/ Resolve(d) \/ Recover(d)
  BY <1>1, <1>6 DEF Scan, Resolve, Recover, MarkRemoved
<1>7. CASE AddRoot(d) \/ RemoveRoot(d) \/ Announce(d) \/ Upload(d) \/ Collide(d) \/ Recheck(d)
  BY <1>1, <1>7 DEF AddRoot, RemoveRoot, Announce, Upload, Collide, Recheck, Asks, Tables
<1>8. CASE Verify(d) \/ Publish(d) \/ Confirm(d) \/ Stage(d) \/ Preserve(d)
  BY <1>1, <1>8 DEF Verify, Publish, Confirm, Stage, Preserve, Asks, Tables
<1> QED
  BY <1>2, <1>3, <1>4, <1>5, <1>6, <1>7, <1>8
     DEF DeviceStep, Begin, CatchUpStep, RescanStep, AddStep

\* A step that adds no event leaves the incarnation.
LEMMA SameRoot ==
  ASSUME log' = log
  PROVE  Active' = Active /\ Created' = Created
BY DEF Active, Created, LastRootEvent, IsRootEvent

\* The incarnation stays as it is, or a root event ends it.
LEMMA CreatedAfter ==
  ASSUME TypeInv, NEW d \in Device, DeviceStep(d)
  PROVE  \/ Active' = Active /\ Created' = Created
         \/ Len(log') = Len(log) + 1 /\ (Active' => Created' = Len(log) + 1)
BY StepRootEvent DEF Created

\* What TakeOver makes of the entry.
LEMMA TakeOverIs ==
  ASSUME KnowInv, NEW d \in Device, TakeOver(d)
  PROVE  /\ snapSeq'[d] = snap.base
         /\ \/ entry'[d] = entry[d] /\ (root'[d] # "active" \/ snap.base = 0)
            \/ /\ entry'[d] = entry[d] /\ entry[d].content = snap.content
               /\ root[d] \notin {"none", "blocked"}
            \/ /\ snap.base > 0 /\ root'[d] = "active"
               /\ entry'[d] = [seq |-> snap.base, content |-> snap.content]
<1>1. /\ entry \in [Device -> Entry] /\ DOMAIN root = Device /\ DOMAIN snapSeq = Device
      /\ entry[d] = [seq |-> entry[d].seq, content |-> entry[d].content]
      /\ snap.base \in Nat /\ SnapshotHasFile /\ Untouched(d)
  BY Given DEF KnowInv, KnowsAll
<1>2. snapSeq'[d] = snap.base /\ root'[d] = StateAfterAdd(d)
  BY <1>1 DEF TakeOver, EnsureRoot
<1>3. CASE ~(StateAfterAdd(d) = "active" /\ snap.base > 0)
  BY <1>1, <1>2, <1>3 DEF TakeOver
<1>4. CASE StateAfterAdd(d) = "active" /\ snap.base > 0
  <2>1. entry'[d] = [seq |-> IF Baseline(d) = snap.content THEN entry[d].seq ELSE snap.base,
                     content |-> snap.content]
    BY <1>1, <1>4 DEF TakeOver, ApplySnapshot
  <2>2. CASE Baseline(d) # snap.content
    BY <1>2, <1>4, <2>1, <2>2
  <2>3. CASE Baseline(d) = snap.content
    <3>1. entry[d].content = snap.content /\ snap.content # None
      BY <1>1, <1>4, <2>3 DEF Baseline, SnapshotHasFile
    <3>2. root[d] \notin {"none", "blocked"}
      BY <1>1, <3>1 DEF Untouched, NoEntry
    <3> QED
      BY <1>1, <1>2, <2>1, <2>3, <3>1, <3>2
  <2> QED
    BY <2>2, <2>3
<1> QED
  BY <1>3, <1>4

\* The entry for event s.
EntryOf(s) == [seq |-> s, content |-> log[s].content]

\* What applying an event makes of it.
LEMMA ApplyIs ==
  ASSUME KnowInv, NEW d \in Device, NEW s \in 1 .. Len(log), Apply(d, s)
  PROVE  /\ snapSeq'[d] \in {snapSeq[d], 0}
         /\ IsRootEvent(s) => \/ entry'[d] = entry[d]
                              \/ entry'[d] = NoEntry /\ root'[d] = "removed"
         /\ ~IsRootEvent(s) =>
              /\ root'[d] = root[d]
              /\ \/ entry'[d] = entry[d] /\ (root[d] # "active" \/ log[s].kind = "delete")
                 \/ entry'[d] = EntryOf(s) /\ root[d] = "active"
<1>1. /\ entry \in [Device -> Entry] /\ DOMAIN root = Device /\ DOMAIN snapSeq = Device
  BY Given
<1>2. CASE IsRootEvent(s)
  BY <1>1, <1>2 DEF Apply, IsRootEvent, EnsureRoot, MarkRemoved
<1>3. CASE ~IsRootEvent(s)
  <2>1. ApplyContent(d, s) /\ UNCHANGED <<root, snapSeq>>
    BY <1>3 DEF Apply, IsRootEvent
  <2> QED
    BY <1>1, <1>3, <2>1 DEF ApplyContent, EntryOf
<1> QED
  BY <1>2, <1>3

\* An entry is taken from the log, from a snapshot - and so from the log - or
\* from a submission.
EntryComesFrom(d) ==
  \/ entry'[d] = entry[d]
  \/ entry'[d] = NoEntry
  \/ /\ UNCHANGED log /\ root'[d] = "active"
     /\ \E s \in 1 .. Len(log) : entry'[d] = EntryOf(s)
  \/ Submit(d) /\ root[d] = "active" /\ entry'[d] = NewEntry(d)

\* A published snapshot is the version at its base.
LEMMA SnapshotIsOf ==
  ASSUME KnowInv, snap.base > 0
  PROVE  snap.base \in 1 .. Len(log) /\ [seq |-> snap.base, content |-> snap.content] = EntryOf(snap.base)
<1>1. snap.base \in Nat /\ Len(log) \in Nat
  <2>1. TypeOK
    BY DEF KnowInv, HistoryInv, TypeInv
  <2>2. log \in Seq(Event) /\ snap.base \in Nat
    BY <2>1 DEF TypeOK
  <2> QED
    BY <2>2
<1>2. snap.base <= Len(log) /\ log[snap.base].content = snap.content
  BY DEF KnowInv, HistoryInv, SnapshotIsHistory
<1> QED
  BY <1>1, <1>2 DEF EntryOf

\* What a resolved conflict leaves for an entry.
LEMMA ResolveIs ==
  ASSUME KnowInv, NEW d \in Device, Resolve(d)
  PROVE  /\ root' = root /\ cursor' = cursor /\ cut' = cut /\ snapSeq' = snapSeq
         /\ root[d] = "active" /\ job[d].at \in 1 .. Len(log) /\ job[d].at >= cursor[d]
         /\ \/ entry'[d] = entry[d] /\ UNCHANGED log
            \/ entry'[d] = EntryOf(job[d].at) /\ UNCHANGED log
            \/ Submit(d) /\ entry'[d] = NewEntry(d)
<1>1. /\ entry \in [Device -> Entry] /\ job[d].at \in 0 .. Len(log) /\ Floor \in 0 .. Len(log)
      /\ HeadIsAhead(d) /\ WritesActive(d) /\ Len(log) \in Nat
  BY Given DEF KnowsAll
<1>2. /\ pc[d] \in {"conflict", "collision"} /\ job[d].at > Floor
      /\ root' = root /\ cursor' = cursor /\ cut' = cut /\ snapSeq' = snapSeq
  BY DEF Resolve, Bounds
<1>3. root[d] = "active" /\ job[d].at \in 1 .. Len(log) /\ job[d].at >= cursor[d]
  BY <1>1, <1>2 DEF HeadIsAhead, WritesActive, Writing
<1> DEFINE head == IF log[job[d].at].kind = "delete" THEN entry[d] ELSE EntryOf(job[d].at)
<1>4. \/ entry' = [entry EXCEPT ![d] = head] /\ UNCHANGED log
      \/ entry' = [entry EXCEPT ![d] = NewEntry(d)] /\ Submit(d)
  BY DEF Resolve, EntryOf
<1>5. head = entry[d] \/ head = EntryOf(job[d].at)
  OBVIOUS
<1> HIDE DEF head
<1> QED
  BY <1>1, <1>2, <1>3, <1>4, <1>5

\* Every step takes the entry from one of these.
LEMMA StepEntry ==
  ASSUME KnowInv, NEW d \in Device, DeviceStep(d)
  PROVE  EntryComesFrom(d)
<1>1. /\ entry \in [Device -> Entry] /\ Len(log) \in Nat /\ cursor[d] \in 0 .. Len(log)
      /\ job[d].at \in 0 .. Len(log) /\ Floor \in 0 .. Len(log) /\ WritesActive(d)
  BY Given DEF KnowsAll
<1>2. CASE UserWrites(d) \/ Connect(d) \/ Hint(d) \/ Watch(d) \/ RetryPending(d) \/ RetryBlocked(d) \/ PendingFallsDue(d) \/ Crash(d)
  BY <1>1, <1>2 DEF EntryComesFrom, UserWrites, Connect, Hint, Watch, RetryPending, RetryBlocked, PendingFallsDue, Crash, Tables
<1>3. CASE Consume(d)
  <2>1. UNCHANGED log /\ cursor[d] + 1 \in 1 .. Len(log)
    BY <1>1, <1>3 DEF Consume, Server
  <2>2. entry' = entry \/ Apply(d, cursor[d] + 1)
    BY <1>3 DEF Consume
  <2> QED
    BY <2>1, <2>2, ApplyIs DEF EntryComesFrom
<1>13. CASE Replay(d)
  <2>1. UNCHANGED log
    BY <1>13 DEF Replay, Server
  <2>2. entry' = entry \/ (Apply(d, job[d].at + 1) /\ job[d].at + 1 \in 1 .. Len(log))
    BY <1>1, <1>13 DEF Replay
  <2> QED
    BY <2>1, <2>2, ApplyIs DEF EntryComesFrom
<1>4. CASE Bootstrap(d) \/ Unblock(d)
  <2>1. UNCHANGED log /\ (TakeOver(d) \/ DropRoot(d) \/ entry' = entry)
    BY <1>4 DEF Bootstrap, Unblock, Server
  <2>2. DropRoot(d) => entry'[d] \in {entry[d], NoEntry}
    BY <1>1 DEF DropRoot, MarkRemoved
  <2> QED
    BY <2>1, <2>2, TakeOverIs, SnapshotIsOf DEF EntryComesFrom
<1>5. CASE Resync(d) \/ CaughtUpOn(d) \/ PageFails(d) \/ SkipRescan(d) \/ ConflictFails(d)
  BY <1>1, <1>5 DEF EntryComesFrom, Resync, CaughtUpOn, PageFails, SkipRescan, ConflictFails, Tables
<1>6. CASE Overtaken(d)
  <2>1. /\ UNCHANGED log /\ root' = root
        /\ entry' = entry \/ (job[d].at > Floor /\ ApplyContent(d, job[d].at))
    BY <1>6 DEF Overtaken, Server
  <2>2. job[d].at > Floor => job[d].at \in 1 .. Len(log)
    BY <1>1
  <2> QED
    BY <1>1, <2>1, <2>2 DEF EntryComesFrom, ApplyContent, EntryOf
<1>7. CASE Scan(d)
  BY <1>1, <1>7 DEF EntryComesFrom, Scan
<1>8. CASE Resolve(d)
  BY <1>8, ResolveIs DEF EntryComesFrom
<1>9. CASE Recover(d)
  BY <1>1, <1>9 DEF EntryComesFrom, Recover, MarkRemoved
<1>10. CASE AddRoot(d) \/ RemoveRoot(d) \/ Announce(d) \/ Collide(d) \/ Recheck(d)
  BY <1>1, <1>10 DEF EntryComesFrom, AddRoot, RemoveRoot, Announce, Collide, Recheck, Asks, Tables
<1>11. CASE Upload(d)
  BY <1>1, <1>11 DEF EntryComesFrom, Upload, WritesActive, Writing
<1>12. CASE Verify(d) \/ Publish(d) \/ Confirm(d) \/ Stage(d) \/ Preserve(d)
  BY <1>1, <1>12 DEF EntryComesFrom, Verify, Publish, Confirm, Stage, Preserve, Asks, Tables
<1> QED
  BY <1>2, <1>3, <1>4, <1>5, <1>6, <1>7, <1>8, <1>9, <1>10, <1>11, <1>12, <1>13
     DEF DeviceStep, Begin, CatchUpStep, RescanStep, AddStep

\* After a step, too, an entry is an event of the log.
LEMMA EntryAfter ==
  ASSUME KnowInv, NEW d \in Device, DeviceStep(d)
  PROVE  EntryIs(d)'
<1>1. /\ EntryIs(d) /\ LogGrows /\ Len(log) \in Nat /\ entry[d].seq \in Nat /\ TypeInv
  BY Given, StepLog DEF KnowsAll
<1>2. CASE entry'[d] = entry[d]
  <2>1. entry[d].seq > 0 => /\ entry[d].seq \in 1 .. Len(log)
                            /\ entry[d].content = log[entry[d].seq].content
    BY <1>1 DEF EntryIs
  <2>2. Len(log') \in Nat
    BY <1>1, TypeNext DEF TypeInv, TypeOK, Next, DeviceStep
  <2> QED
    BY <1>1, <1>2, <2>1, <2>2 DEF EntryIs, LogGrows
<1>3. CASE entry'[d] = NoEntry
  BY <1>3 DEF EntryIs, NoEntry
<1>4. CASE UNCHANGED log /\ \E s \in 1 .. Len(log) : entry'[d] = EntryOf(s)
  BY <1>1, <1>4 DEF EntryIs, EntryOf
<1>5. CASE Submit(d) /\ entry'[d] = NewEntry(d)
  <2>1. /\ Len(log') = Len(log) + 1 /\ log'[Len(log) + 1].content = disk[d]
    BY <1>1, <1>5, SubmitIs
  <2>2. entry'[d].seq = Len(log) + 1 /\ entry'[d].content = disk[d]
    BY <1>5 DEF NewEntry
  <2> QED
    BY <1>1, <2>1, <2>2 DEF EntryIs
<1> QED
  BY <1>2, <1>3, <1>4, <1>5, StepEntry DEF EntryComesFrom

\* Content comes only from a device with the root active, and only a device
\* without it can be blocked.
StateIs(d) ==
  /\ root'[d] \in {"none", "blocked"} => root[d] \in {"none", "blocked"}
  /\ \/ UNCHANGED log
     \/ AppendEvent(d, "add", None) \/ AppendEvent(d, "remove", None)
     \/ Submit(d) /\ root[d] = "active" /\ root' = root

\* Every step is one of these.
LEMMA StepState == ASSUME KnowInv, NEW d \in Device, DeviceStep(d) PROVE StateIs(d)
<1> USE DEF StateIs
<1>1. root \in [Device -> RootState] /\ WritesActive(d)
  <2>1. TypeOK /\ WritesActive(d)
    BY Given DEF KnowsAll
  <2> QED
    BY <2>1 DEF TypeOK, RootState
<1>2. CASE UserWrites(d) \/ Connect(d) \/ Hint(d) \/ Watch(d) \/ RetryPending(d) \/ RetryBlocked(d) \/ PendingFallsDue(d) \/ Crash(d)
  BY <1>1, <1>2 DEF UserWrites, Connect, Hint, Watch, RetryPending, RetryBlocked, PendingFallsDue, Crash, Tables, Server
<1>3. CASE Consume(d) \/ Replay(d)
  BY <1>1, <1>3 DEF RootState, Consume, Replay, Apply, EnsureRoot, StateAfterAdd, MarkRemoved, Server
<1>4. CASE Bootstrap(d) \/ Unblock(d)
  BY <1>1, <1>4 DEF RootState, Bootstrap, Unblock, TakeOver, EnsureRoot, StateAfterAdd, DropRoot, MarkRemoved, Server
<1>5. CASE Resync(d) \/ CaughtUpOn(d) \/ PageFails(d) \/ SkipRescan(d) \/ ConflictFails(d) \/ Overtaken(d)
  BY <1>1, <1>5 DEF Resync, CaughtUpOn, PageFails, SkipRescan, ConflictFails, Overtaken, Tables, Server
<1>6. CASE Scan(d) \/ Recover(d)
  BY <1>1, <1>6 DEF Scan, Recover, MarkRemoved, Server
<1>7. CASE Resolve(d)
  BY <1>1, <1>7, ResolveIs
<1>8. CASE AddRoot(d) \/ RemoveRoot(d) \/ Announce(d)
  BY <1>1, <1>8 DEF AddRoot, RemoveRoot, Announce, AppendRootAdd, Tables, Server
<1>9. CASE Upload(d)
  BY <1>1, <1>9 DEF Upload, WritesActive, Writing
<1>10. CASE Collide(d) \/ Recheck(d) \/ Verify(d) \/ Publish(d) \/ Confirm(d) \/ Stage(d) \/ Preserve(d)
  BY <1>1, <1>10 DEF Collide, Recheck, Verify, Publish, Confirm, Stage, Preserve, Asks, Tables, Server
<1> QED
  BY <1>2, <1>3, <1>4, <1>5, <1>6, <1>7, <1>8, <1>9, <1>10
     DEF DeviceStep, Begin, CatchUpStep, RescanStep, AddStep

\* The one event that a step may append is the device's, and content of it
\* comes with the root active.
LEMMA NewEvent ==
  ASSUME KnowInv, NEW d \in Device, DeviceStep(d), NEW t \in 1 .. Len(log')
  PROVE  \/ t \in 1 .. Len(log) /\ log'[t] = log[t]
         \/ /\ t = Len(log) + 1 /\ log'[t].by = d
            /\ IsRootEvent(t)' \/ (root[d] = "active" /\ root' = root)
<1>1. TypeInv /\ TypeOK /\ Len(log) \in Nat
  BY Given
<1>2. ASSUME NEW k \in {"add", "remove"}, AppendEvent(d, k, None)
      PROVE  /\ Len(log') = Len(log) + 1 /\ \A s \in 1 .. Len(log) : log'[s] = log[s]
             /\ log'[Len(log) + 1].by = d /\ log'[Len(log) + 1].kind = k
  <2>1. /\ Len(log') = Len(log) + 1 /\ \A s \in 1 .. Len(log) : log'[s] = log[s]
        /\ log'[Len(log) + 1] = [kind |-> k, by |-> d, content |-> None]
    BY <1>1, <1>2, AppendGrows
  <2>2. log'[Len(log) + 1].kind = k /\ log'[Len(log) + 1].by = d
    BY <2>1
  <2> QED
    BY <2>1, <2>2
<1>3. CASE AppendEvent(d, "add", None) \/ AppendEvent(d, "remove", None)
  <2>1. t \in 1 .. Len(log) \/ t = Len(log) + 1
    BY <1>1, <1>2, <1>3
  <2> QED
    BY <1>1, <1>2, <1>3, <2>1 DEF IsRootEvent
<1>4. CASE Submit(d) /\ root[d] = "active" /\ root' = root
  BY <1>1, <1>4, SubmitIs
<1>5. CASE UNCHANGED log
  BY <1>5
<1> QED
  BY <1>3, <1>4, <1>5, StepState DEF StateIs

\* A device that never had the root active still has written nothing.
LEMMA UntouchedAfter ==
  ASSUME KnowInv, NEW d \in Device, DeviceStep(d)
  PROVE  Untouched(d)'
<1> SUFFICES ASSUME root'[d] \in {"none", "blocked"}
             PROVE  /\ entry'[d] = NoEntry
                    /\ \A t \in 1 .. Len(log') : log'[t].by = d => IsRootEvent(t)'
  BY DEF Untouched
<1>1. root[d] \in {"none", "blocked"} /\ Untouched(d)
  BY StepState, Given DEF StateIs, KnowsAll
<1>2. entry'[d] = NoEntry
  BY <1>1, StepEntry DEF EntryComesFrom, Untouched
<1>3. ASSUME NEW t \in 1 .. Len(log'), log'[t].by = d PROVE IsRootEvent(t)'
  BY <1>1, <1>3, NewEvent DEF Untouched, IsRootEvent
<1> QED
  BY <1>2, <1>3

\* Where the sequence of the root's snapshot and the cursor come from.
SnapSeqIs(d) ==
  \/ snapSeq'[d] \in {0, snapSeq[d]} /\ cursor'[d] >= cursor[d]
  \/ /\ UNCHANGED log /\ snapSeq'[d] <= Len(log)
     /\ cursor'[d] >= snapSeq'[d] \/ root[d] = "blocked"

\* Every step has them from there.
LEMMA StepSnapSeq == ASSUME KnowInv, NEW d \in Device, DeviceStep(d) PROVE SnapSeqIs(d)
<1> USE DEF SnapSeqIs
<1>1. /\ DOMAIN snapSeq = Device /\ DOMAIN cursor = Device /\ cursor[d] \in Nat
      /\ snapSeq[d] \in Nat /\ snapSeq[d] <= Len(log) /\ Len(log) \in Nat
      /\ snap.base \in 0 .. Len(log)
  <2>1. SnapshotNotOwn(d)
    BY Given DEF KnowsAll
  <2>2. snapSeq[d] <= Len(log)
    BY <2>1 DEF SnapshotNotOwn
  <2>3. cursor[d] \in 0 .. Len(log)
    BY Given
  <2>4. /\ DOMAIN snapSeq = Device /\ DOMAIN cursor = Device
        /\ snapSeq[d] \in Nat /\ Len(log) \in Nat /\ snap.base \in 0 .. Len(log)
    BY Given
  <2> QED
    BY <2>2, <2>3, <2>4
<1>2. CASE UserWrites(d) \/ Connect(d) \/ Hint(d) \/ Watch(d) \/ RetryPending(d) \/ RetryBlocked(d) \/ PendingFallsDue(d) \/ Crash(d)
  BY <1>1, <1>2 DEF UserWrites, Connect, Hint, Watch, RetryPending, RetryBlocked, PendingFallsDue, Crash, Tables
<1>3. CASE Consume(d)
  <2>1. snapSeq'[d] \in {0, snapSeq[d]}
    BY <1>1, <1>3 DEF Consume, Apply, EnsureRoot
  <2>2. cursor'[d] = cursor[d] + 1
    BY <1>1, <1>3 DEF Consume
  <2> QED
    BY <1>1, <2>1, <2>2
<1>4. CASE Replay(d)
  BY <1>1, <1>4 DEF Replay, Apply, EnsureRoot
<1>5. CASE Bootstrap(d)
  <2>1. CASE Active
    <3>1. snapSeq'[d] = snap.base /\ cursor'[d] = BootstrapAfterSeq /\ UNCHANGED log
      BY <1>1, <1>5, <2>1 DEF Bootstrap, TakeOver, EnsureRoot, Server
    <3>2. CASE snap.base > 0
      BY <1>1, <2>1, <3>1, <3>2 DEF BootstrapAfterSeq
    <3>3. CASE snap.base = 0
      <4>1. cursor' \in [Device -> Nat]
        BY <1>5, Given, StepNumbers
      <4> QED
        BY <1>1, <3>1, <3>3, <4>1
    <3> QED
      BY <1>1, <3>2, <3>3
  <2>2. CASE ~Active
    BY <1>1, <1>5, <2>2 DEF Bootstrap, BootstrapAfterSeq, Server
  <2> QED
    BY <2>1, <2>2
<1>6. CASE Unblock(d)
  <2>1. UNCHANGED log /\ cursor' = cursor
    BY <1>6 DEF Unblock, Server
  <2>2. snapSeq' = snapSeq \/ (root[d] = "blocked" /\ snapSeq'[d] = snap.base)
    BY <1>1, <1>6 DEF Unblock, TakeOver, EnsureRoot
  <2> QED
    BY <1>1, <2>1, <2>2
<1>7. CASE Resync(d) \/ CaughtUpOn(d) \/ PageFails(d) \/ SkipRescan(d) \/ ConflictFails(d) \/ Overtaken(d)
  BY <1>1, <1>7 DEF Resync, CaughtUpOn, PageFails, SkipRescan, ConflictFails, Overtaken, Tables
<1>8. CASE Scan(d) \/ Recover(d) \/ Resolve(d)
  BY <1>1, <1>8 DEF Scan, Recover, Resolve
<1>9. CASE AddRoot(d) \/ RemoveRoot(d) \/ Announce(d) \/ Upload(d)
  BY <1>1, <1>9 DEF AddRoot, RemoveRoot, Announce, Upload, Tables
<1>10. CASE Collide(d) \/ Recheck(d) \/ Verify(d) \/ Publish(d) \/ Confirm(d) \/ Stage(d) \/ Preserve(d)
  BY <1>1, <1>10 DEF Collide, Recheck, Verify, Publish, Confirm, Stage, Preserve, Asks, Tables
<1> QED
  BY <1>2, <1>3, <1>4, <1>5, <1>6, <1>7, <1>8, <1>9, <1>10
     DEF DeviceStep, Begin, CatchUpStep, RescanStep, AddStep

\* No own event comes between the cursor and a snapshot that is taken.
LEMMA SnapshotNotOwnAfter ==
  ASSUME KnowInv, NEW d \in Device, DeviceStep(d)
  PROVE  SnapshotNotOwn(d)'
<1>1. /\ SnapshotNotOwn(d) /\ Untouched(d) /\ LogGrows /\ Len(log) \in Nat
      /\ Len(log') \in Nat /\ cursor[d] \in Nat /\ cursor'[d] \in Nat
      /\ snapSeq[d] \in Nat /\ snapSeq'[d] \in Nat
  <2>1. /\ SnapshotNotOwn(d) /\ Untouched(d) /\ TypeInv /\ Len(log) \in Nat
        /\ cursor[d] \in Nat /\ snapSeq[d] \in Nat
    <3>1. SnapshotNotOwn(d) /\ Untouched(d) /\ TypeInv
      BY Given DEF KnowsAll
    <3>2. Len(log) \in Nat /\ cursor[d] \in 0 .. Len(log) /\ snapSeq[d] \in Nat
      BY Given
    <3> QED
      BY <3>1, <3>2
  <2>2. TypeInv'
    BY <2>1, TypeNext DEF Next, DeviceStep
  <2>3. log' \in Seq(Event) /\ cursor' \in [Device -> Nat] /\ snapSeq' \in [Device -> Nat]
    BY <2>2 DEF TypeInv, TypeOK
  <2>4. Len(log') \in Nat /\ cursor'[d] \in Nat /\ snapSeq'[d] \in Nat
    BY <2>3
  <2> QED
    BY <2>1, <2>4, StepLog
<1>2. snapSeq'[d] <= Len(log) /\ snapSeq'[d] <= Len(log')
  BY <1>1, StepSnapSeq DEF SnapSeqIs, SnapshotNotOwn, LogGrows
<1>3. ASSUME NEW t \in (cursor'[d] + 1) .. snapSeq'[d], log'[t].by = d PROVE IsRootEvent(t)'
  <2>1. t \in 1 .. Len(log) /\ log'[t] = log[t]
    BY <1>1, <1>2 DEF LogGrows
  <2>2. t \in (cursor[d] + 1) .. snapSeq[d] \/ root[d] = "blocked"
    BY <1>1, <2>1, StepSnapSeq DEF SnapSeqIs
  <2> QED
    BY <1>1, <1>3, <2>1, <2>2 DEF SnapshotNotOwn, Untouched, IsRootEvent
<1> QED
  BY <1>2, <1>3 DEF SnapshotNotOwn

\* What holds of the steps that write into the root, after a step.
WritingAfter(d) ==
  /\ pc'[d] \in {"conflict", "overtaken", "collide", "collision"} /\ job'[d].at > 0
       => job'[d].at >= cursor'[d]
  /\ pc'[d] = "upload" => job'[d].want > cursor'[d]
  /\ pc'[d] \in Writing => root'[d] = "active"

\* Every step leads to where this holds.
LEMMA StepWriting == ASSUME KnowInv, NEW d \in Device, DeviceStep(d) PROVE WritingAfter(d)
<1> USE DEF WritingAfter, Writing
<1>1. /\ TypeInv /\ HeadIsAhead(d) /\ UploadIsFirst(d) /\ WritesActive(d)
      /\ DOMAIN root = Device /\ DOMAIN cursor = Device
      /\ Len(log) \in Nat /\ cursor[d] \in 0 .. Len(log) /\ PathHead \in 0 .. Len(log)
      /\ job \in [Device -> Job] /\ pc \in [Device -> Label]
      /\ job[d] \in [via : Via, want : Nat, at : Nat, again : BOOLEAN, back : BOOLEAN,
                     mine : Entry]
  <2>1. TypeInv /\ HeadIsAhead(d) /\ UploadIsFirst(d) /\ WritesActive(d)
    BY Given DEF KnowsAll
  <2>2. /\ DOMAIN root = Device /\ DOMAIN cursor = Device
        /\ Len(log) \in Nat /\ cursor[d] \in 0 .. Len(log) /\ PathHead \in 0 .. Len(log)
        /\ job \in [Device -> Job] /\ pc \in [Device -> Label]
    BY Given
  <2> QED
    BY <2>1, <2>2 DEF Job
<1>2. PathHead > 0 => PathHead >= cursor[d]
  BY <1>1 DEF PathHead
<1>3. CASE UserWrites(d) \/ PendingFallsDue(d)
  BY <1>1, <1>3 DEF HeadIsAhead, UploadIsFirst, WritesActive, UserWrites, PendingFallsDue, Tables
<1>4. CASE Crash(d) \/ Hint(d) \/ Watch(d) \/ Connect(d) \/ RetryPending(d) \/ RetryBlocked(d)
  BY <1>1, <1>4, ControlWants DEF Crash, Hint, Watch, Connect, RetryPending, RetryBlocked, Tables
<1>5. CASE Consume(d) \/ Resync(d) \/ Bootstrap(d)
  BY <1>1, <1>5, ControlWants DEF Consume, Resync, Bootstrap
<1>6. CASE Replay(d) \/ Unblock(d)
  BY <1>1, <1>6, ControlWants DEF Replay, Unblock, AfterBlocked
<1>7. CASE CaughtUpOn(d)
  BY <1>1, <1>7, ControlWants DEF CaughtUpOn, Reconcile
<1>8. CASE PageFails(d) \/ ConflictFails(d) \/ SkipRescan(d)
  BY <1>1, <1>8, ControlWants DEF PageFails, ConflictFails, SkipRescan, Fail
<1>9. CASE Overtaken(d)
  BY <1>1, <1>9, ControlWants DEF Overtaken
<1>10. CASE Scan(d)
  <2>1. root' = root /\ cursor' = cursor /\ root[d] = "active"
    BY <1>10 DEF Scan
  <2>2. \/ pc'[d] \in {"page", "idle", "preserve"}
        \/ pc'[d] \in {"overtaken", "conflict"} /\ job' = [job EXCEPT ![d].at = PathHead]
    BY <1>1, <1>10, ControlWants DEF Scan, FinishRescan, Fail
  <2>3. job' = [job EXCEPT ![d].at = PathHead] => job'[d].at = PathHead
    BY <1>1
  <2> QED
    BY <1>1, <1>2, <2>1, <2>2, <2>3
<1>11. CASE Resolve(d)
  <2>1. root' = root /\ root[d] = "active"
    BY <1>11, ResolveIs
  <2>2. pc'[d] \in {"recheck", "scan", "page", "idle", "preserve"}
    BY <1>1, <1>11, ControlWants DEF Resolve, AfterConflict, FinishRescan, Fail
  <2> QED
    BY <1>1, <2>1, <2>2
<1>12. CASE Recover(d)
  BY <1>1, <1>12, ControlWants DEF Recover, Fail
<1>13. CASE AddRoot(d) \/ RemoveRoot(d)
  BY <1>1, <1>13, ControlWants DEF AddRoot, RemoveRoot
<1>14. CASE Announce(d)
  BY <1>1, <1>14, ControlWants DEF WritesActive, Announce, AddFails, Tables
<1>15. CASE Upload(d)
  BY <1>1, <1>2, <1>15, ControlWants DEF WritesActive, Upload, AddFails
<1>16. CASE Collide(d)
  BY <1>1, <1>16, ControlWants DEF HeadIsAhead, WritesActive, Collide, Asks, AddFails, Tables
<1>17. CASE Recheck(d) \/ Verify(d) \/ Publish(d) \/ Confirm(d) \/ Stage(d) \/ Preserve(d)
  BY <1>1, <1>17, ControlWants DEF Recheck, Verify, Publish, Confirm, Stage, Preserve, Asks, AddFails, Tables
<1> QED
  BY <1>3, <1>4, <1>5, <1>6, <1>7, <1>8, <1>9, <1>10, <1>11, <1>12, <1>13, <1>14, <1>15, <1>16, <1>17
     DEF DeviceStep, Begin, CatchUpStep, RescanStep, AddStep

\* The replay, after a step.
LEMMA ReplayedAfter ==
  ASSUME KnowInv, NEW d \in Device, DeviceStep(d)
  PROVE  Replayed(d)'
<1> SUFFICES ASSUME pc'[d] = "replay", root'[d] = "active", Active',
                    NEW t \in (Created' + 1) .. job'[d].at, log'[t].kind = "put"
             PROVE  entry'[d].seq >= t
  BY DEF Replayed
<1>1. /\ TypeInv /\ Replayed(d) /\ Untouched(d)
      /\ job \in [Device -> Job] /\ pc \in [Device -> Label]
      /\ Len(log) \in Nat /\ job[d].at \in 0 .. Len(log) /\ Created \in 0 .. Len(log)
      /\ snap.base \in 0 .. Len(log)
      /\ job[d] \in [via : Via, want : Nat, at : Nat, again : BOOLEAN, back : BOOLEAN,
                     mine : Entry]
  <2>1. TypeInv /\ Replayed(d) /\ Untouched(d)
    BY Given DEF KnowsAll
  <2>2. /\ job \in [Device -> Job] /\ pc \in [Device -> Label]
        /\ Len(log) \in Nat /\ job[d].at \in 0 .. Len(log) /\ Created \in 0 .. Len(log)
        /\ snap.base \in 0 .. Len(log)
    BY Given
  <2> QED
    BY <2>1, <2>2 DEF Job
<1>2. CASE UNCHANGED <<pc, job, root, entry, log>> /\ pc[d] = "replay"
  <2>1. Active' = Active /\ Created' = Created
    BY <1>2, SameRoot
  <2> QED
    BY <1>1, <1>2, <2>1 DEF Replayed
<1>3. CASE Unblock(d)
  <2>1. /\ UNCHANGED log /\ TakeOver(d) /\ root[d] = "blocked"
        /\ job' = [job EXCEPT ![d].at = snap.base]
    BY <1>1, <1>3, ControlWants DEF Unblock, AfterBlocked, Server
  <2>2. job'[d].at = snap.base
    BY <1>1, <2>1
  <2>3. snap.base > 0 => entry'[d].seq = snap.base
    BY <2>1, TakeOverIs
  <2>4. Created' = Created
    BY <2>1, SameRoot
  <2> QED
    BY <1>1, <2>2, <2>3, <2>4
<1>4. CASE Replay(d)
  <2> DEFINE s == job[d].at + 1
  <2>1. /\ UNCHANGED log /\ Apply(d, s) /\ s \in 1 .. Len(log)
        /\ job' = [job EXCEPT ![d].at = s]
    BY <1>1, <1>4, ControlWants DEF Replay, AfterBlocked, Server
  <2>2. job'[d].at = s
    BY <1>1, <2>1
  <2>3. Created' = Created /\ Active
    BY <2>1, SameRoot
  <2>4. s > Created
    BY <1>1, <2>2, <2>3
  <2>5. ~IsRootEvent(s)
    BY <1>1, <2>1, <2>3, <2>4, NewestDecides DEF Created
  <2>6. /\ root'[d] = root[d]
        /\ \/ entry'[d] = entry[d] /\ (root[d] # "active" \/ log[s].kind = "delete")
           \/ entry'[d] = EntryOf(s) /\ root[d] = "active"
    BY <2>1, <2>5, ApplyIs
  <2>7. CASE entry'[d] = EntryOf(s)
    BY <1>1, <2>2, <2>3, <2>7 DEF EntryOf
  <2>8. CASE entry'[d] = entry[d] /\ log[s].kind = "delete"
    <3>1. t # s /\ pc[d] = "replay" /\ root[d] = "active" /\ log[t].kind = "put"
      BY <1>4, <2>1, <2>6, <2>8 DEF Replay
    <3>2. t \in (Created + 1) .. job[d].at
      BY <1>1, <2>2, <2>3, <3>1
    <3> QED
      BY <2>3, <2>8, <3>1, <3>2, <1>1 DEF Replayed
  <2> QED
    BY <2>6, <2>7, <2>8
<1>5. \/ UNCHANGED <<pc, job, root, entry, log>> /\ pc[d] = "replay"
      \/ Unblock(d) \/ Replay(d)
  <2>1. CASE UserWrites(d) \/ PendingFallsDue(d)
    BY <2>1 DEF UserWrites, PendingFallsDue, Tables, Server
  <2>2. CASE Crash(d) \/ Hint(d) \/ Watch(d) \/ Connect(d) \/ RetryPending(d) \/ RetryBlocked(d)
    BY <1>1, <2>2, ControlWants DEF Crash, Hint, Watch, Connect, RetryPending, RetryBlocked
  <2>3. CASE Consume(d) \/ Resync(d) \/ Bootstrap(d)
    BY <1>1, <2>3, ControlWants DEF Consume, Resync, Bootstrap
  <2>4. CASE CaughtUpOn(d)
    BY <1>1, <2>4, ControlWants DEF CaughtUpOn, Reconcile
  <2>5. CASE PageFails(d) \/ ConflictFails(d) \/ SkipRescan(d) \/ Overtaken(d)
    BY <1>1, <2>5, ControlWants DEF PageFails, ConflictFails, SkipRescan, Overtaken, Fail
  <2>6. CASE Scan(d)
    BY <1>1, <2>6, ControlWants DEF Scan, FinishRescan, Fail
  <2>7. CASE Resolve(d)
    BY <1>1, <2>7, ControlWants DEF Resolve, AfterConflict, FinishRescan, Fail
  <2>8. CASE Recover(d)
    BY <1>1, <2>8, ControlWants DEF Recover, Fail
  <2>9. CASE AddRoot(d) \/ RemoveRoot(d) \/ Announce(d) \/ Upload(d)
    BY <1>1, <2>9, ControlWants DEF AddRoot, RemoveRoot, Announce, Upload, AddFails
  <2>10. CASE Collide(d) \/ Recheck(d) \/ Verify(d) \/ Publish(d) \/ Confirm(d) \/ Stage(d) \/ Preserve(d)
    BY <1>1, <2>10, ControlWants DEF Collide, Recheck, Verify, Publish, Confirm, Stage, Preserve, Asks, AddFails
  <2> QED
    BY <2>1, <2>2, <2>3, <2>4, <2>5, <2>6, <2>7, <2>8, <2>9, <2>10
       DEF DeviceStep, Begin, CatchUpStep, RescanStep, AddStep
<1> QED
  BY <1>2, <1>3, <1>4, <1>5

\* A step leaves the device where it was, with what it has at the cursor or newer.
Keeps(d) ==
  /\ pc[d] = "replay" => pc'[d] = "replay"
  /\ root'[d] = root[d] /\ cursor'[d] = cursor[d] /\ cut'[d] = cut[d]
  /\ \/ entry'[d] = entry[d]
     \/ UNCHANGED log /\ \E s \in 1 .. Len(log) : s >= cursor[d] /\ entry'[d] = EntryOf(s)
     \/ entry'[d] = NewEntry(d)

IsCutHere(d) == IsCut(d) /\ cursor'[d] = cursor[d]

\* What there is of the incarnation is still before it.
Before(d) == cursor'[d] = cursor[d] /\ (Active => cursor[d] < Created)

\* It has come to the version at the cursor.
Arrives(d) ==
  /\ UNCHANGED log
  /\ /\ root'[d] = "active" /\ Active /\ Created < cursor'[d]
     /\ log[cursor'[d]].kind = "put"
     => entry'[d].seq > cursor'[d] \/ entry'[d].content = log[cursor'[d]].content

KnowStep(d) ==
  \/ root'[d] # "active" \/ pc'[d] = "replay"
  \/ Keeps(d) \/ IsCutHere(d) \/ Before(d) \/ Arrives(d)

\* The three ways of moving the cursor: an event is consumed,
LEMMA ConsumeArrives ==
  ASSUME KnowInv, NEW d \in Device, Consume(d)
  PROVE  Arrives(d)
<1> DEFINE s == cursor[d] + 1
<1>1. /\ TypeInv /\ EntryIs(d) /\ SnapshotNotOwn(d) /\ DOMAIN cursor = Device
      /\ Len(log) \in Nat /\ cursor[d] \in 0 .. Len(log) /\ entry[d].seq \in Nat
      /\ snapSeq[d] \in Nat
  <2>1. TypeInv /\ EntryIs(d) /\ SnapshotNotOwn(d)
    BY Given DEF KnowsAll
  <2>2. /\ Len(log) \in Nat /\ cursor[d] \in 0 .. Len(log) /\ entry[d].seq \in Nat
        /\ DOMAIN cursor = Device /\ snapSeq[d] \in Nat
    BY Given
  <2> QED
    BY <2>1, <2>2
<1>2. /\ UNCHANGED log /\ s \in 1 .. Len(log) /\ cursor'[d] = s
      /\ \/ Apply(d, s)
         \/ log[s].by = d /\ Materialized(d, s) /\ root' = root /\ entry' = entry
  BY <1>1 DEF Consume, Server
<1> SUFFICES ASSUME root'[d] = "active", Active, Created < s, log[s].kind = "put"
             PROVE  entry'[d].seq > s \/ entry'[d].content = log[s].content
  BY <1>2 DEF Arrives
<1>3. ~IsRootEvent(s)
  BY DEF IsRootEvent
<1>4. CASE Apply(d, s)
  <2>1. /\ root'[d] = root[d]
        /\ \/ entry'[d] = entry[d] /\ (root[d] # "active" \/ log[s].kind = "delete")
           \/ entry'[d] = EntryOf(s) /\ root[d] = "active"
    BY <1>2, <1>3, <1>4, ApplyIs
  <2>2. entry'[d] = EntryOf(s)
    BY <2>1
  <2> QED
    BY <2>2 DEF EntryOf
<1>5. CASE log[s].by = d /\ Materialized(d, s) /\ root' = root /\ entry' = entry
  <2>1. snapSeq[d] >= s \/ entry[d].seq >= s
    BY <1>5 DEF Materialized
  <2>2. ~(snapSeq[d] >= s)
    BY <1>1, <1>2, <1>3, <1>5 DEF SnapshotNotOwn
  <2>3. entry[d].seq = s \/ entry[d].seq > s
    BY <1>1, <2>1, <2>2
  <2> QED
    BY <1>1, <1>5, <2>3 DEF EntryIs
<1> QED
  BY <1>2, <1>4, <1>5

\* the snapshot of a bootstrap is taken,
LEMMA BootstrapArrives ==
  ASSUME KnowInv, NEW d \in Device, Bootstrap(d)
  PROVE  Arrives(d)
<1>1. /\ DOMAIN cursor = Device /\ snap.base \in 0 .. Len(log) /\ Created \in 0 .. Len(log)
      /\ Len(log) \in Nat
  BY Given
<1>2. UNCHANGED log /\ cursor'[d] = BootstrapAfterSeq
  BY <1>1 DEF Bootstrap, Server
<1>3. CASE Active /\ snap.base > 0
  <2>1. TakeOver(d) /\ cursor'[d] = snap.base /\ log[snap.base].content = snap.content
    BY <1>2, <1>3 DEF Bootstrap, BootstrapAfterSeq, KnowInv, HistoryInv, SnapshotIsHistory
  <2>2. root'[d] # "active" \/ entry'[d].content = snap.content
    BY <1>3, <2>1, TakeOverIs
  <2> QED
    BY <1>2, <2>1, <2>2 DEF Arrives
<1>4. CASE Active /\ snap.base = 0
  <2>1. cursor'[d] = Created - 1
    BY <1>2, <1>4 DEF BootstrapAfterSeq
  <2> QED
    BY <1>1, <1>2, <2>1 DEF Arrives
<1>5. CASE ~Active
  BY <1>2, <1>5 DEF Arrives
<1> QED
  BY <1>1, <1>3, <1>4, <1>5

\* or a replay comes to its end, or is cut short.
LEMMA ReplayArrives ==
  ASSUME KnowInv, NEW d \in Device, Replay(d)
  PROVE  pc'[d] = "replay" \/ Arrives(d) \/ IsCutHere(d)
<1>1. /\ EntryIs(d) /\ Replayed(d) /\ DOMAIN cut = Device
      /\ Len(log) \in Nat /\ cursor[d] \in 0 .. Len(log) /\ entry[d].seq \in Nat
      /\ job[d].at \in 0 .. Len(log) /\ Created \in 0 .. Len(log)
  <2>1. EntryIs(d) /\ Replayed(d)
    BY Given DEF KnowsAll
  <2>2. /\ Len(log) \in Nat /\ cursor[d] \in 0 .. Len(log) /\ entry[d].seq \in Nat
        /\ job[d].at \in 0 .. Len(log) /\ Created \in 0 .. Len(log) /\ DOMAIN cut = Device
    BY Given
  <2> QED
    BY <2>1, <2>2
<1>2. pc[d] = "replay" /\ UNCHANGED <<log, cursor>>
  BY DEF Replay, Server
<1>3. CASE job[d].at + 1 > Len(log) /\ UNCHANGED <<root, entry>>
  <2> SUFFICES ASSUME root[d] = "active", Active, Created < cursor[d],
                      log[cursor[d]].kind = "put"
               PROVE  entry[d].seq > cursor[d] \/ entry[d].content = log[cursor[d]].content
    BY <1>2, <1>3 DEF Arrives
  <2>1. cursor[d] \in (Created + 1) .. job[d].at
    BY <1>1, <1>3
  <2>2. entry[d].seq >= cursor[d] /\ cursor[d] > 0
    BY <1>1, <1>2, <2>1 DEF Replayed
  <2>3. entry[d].seq = cursor[d] \/ entry[d].seq > cursor[d]
    BY <1>1, <2>2
  <2> QED
    BY <1>1, <2>2, <2>3 DEF EntryIs
<1>4. CASE CutShort(d)
  BY <1>1, <1>2, <1>4 DEF CutShort, IsCutHere, IsCut
<1> QED
  BY <1>2, <1>3, <1>4 DEF Replay

\* After each step a device knows the version at its cursor.
LEMMA StepKnow == ASSUME KnowInv, NEW d \in Device, DeviceStep(d) PROVE KnowStep(d)
<1> USE DEF KnowStep
<1>1. /\ TypeInv /\ HeadIsAhead(d) /\ UploadIsFirst(d) /\ OwnInv /\ Shape(d)
      /\ DOMAIN root = Device /\ DOMAIN cursor = Device /\ DOMAIN cut = Device
      /\ Len(log) \in Nat /\ cursor[d] \in 0 .. Len(log) /\ Floor \in 0 .. Len(log)
      /\ entry \in [Device -> Entry] /\ pc \in [Device -> Label]
      /\ job[d].at \in 0 .. Len(log) /\ job[d].want \in Nat
  <2>1. TypeInv /\ HeadIsAhead(d) /\ UploadIsFirst(d) /\ OwnInv /\ Shape(d)
    BY Given DEF KnowsAll
  <2>2. /\ DOMAIN root = Device /\ DOMAIN cursor = Device /\ DOMAIN cut = Device
        /\ Len(log) \in Nat /\ cursor[d] \in 0 .. Len(log) /\ Floor \in 0 .. Len(log)
        /\ entry \in [Device -> Entry] /\ pc \in [Device -> Label]
        /\ job[d].at \in 0 .. Len(log) /\ job[d].want \in Nat
    BY Given
  <2> QED
    BY <2>1, <2>2
<1>2. CASE UserWrites(d) \/ PendingFallsDue(d)
  BY <1>2 DEF Keeps, UserWrites, PendingFallsDue, Tables, Bounds
<1>3. CASE Hint(d) \/ Watch(d) \/ Connect(d) \/ RetryPending(d) \/ RetryBlocked(d)
  BY <1>3 DEF Keeps, Hint, Watch, Connect, RetryPending, RetryBlocked, Tables, Bounds
<1>4. CASE Crash(d)
  BY <1>1, <1>4 DEF Keeps, IsCutHere, IsCut, CutShort, Unguarded, Crash, Tables, Server
<1>5. CASE Consume(d)
  BY <1>5, ConsumeArrives
<1>6. CASE Bootstrap(d)
  BY <1>6, BootstrapArrives
<1>7. CASE Replay(d)
  BY <1>7, ReplayArrives
<1>8. CASE Unblock(d)
  <2>1. StateAfterAdd(d) # "active" /\ TakeOver(d) => root'[d] # "active"
    BY <1>1 DEF TakeOver, EnsureRoot
  <2>2. Goto(d, "replay") => pc'[d] = "replay"
    BY <1>1, ControlWants
  <2> QED
    BY <1>1, <1>8, <2>1, <2>2 DEF Keeps, Unblock, Bounds
<1>9. CASE Resync(d) \/ CaughtUpOn(d) \/ PageFails(d) \/ SkipRescan(d) \/ ConflictFails(d)
  BY <1>9 DEF Keeps, Resync, CaughtUpOn, PageFails, SkipRescan, ConflictFails, Tables, Bounds
<1>10. CASE Overtaken(d)
  <2>1. /\ UNCHANGED log /\ UNCHANGED <<root, cursor, cut>> /\ pc[d] = "overtaken"
        /\ entry' = entry \/ (job[d].at > Floor /\ ApplyContent(d, job[d].at))
    BY <1>10 DEF Overtaken, Server, Bounds
  <2>2. job[d].at > Floor => job[d].at \in 1 .. Len(log) /\ job[d].at >= cursor[d]
    BY <1>1, <2>1 DEF HeadIsAhead
  <2>3. ApplyContent(d, job[d].at) => entry'[d] = entry[d] \/ entry'[d] = EntryOf(job[d].at)
    BY <1>1 DEF ApplyContent, EntryOf
  <2> QED
    BY <2>1, <2>2, <2>3 DEF Keeps
<1>11. CASE Scan(d)
  BY <1>1, <1>11 DEF Keeps, Scan
<1>12. CASE Resolve(d)
  <2>1. pc[d] # "replay"
    BY <1>12 DEF Resolve
  <2> QED
    BY <1>12, <2>1, ResolveIs DEF Keeps
<1>13. CASE Recover(d)
  BY <1>1, <1>13 DEF Keeps, Recover, MarkRemoved
<1>14. CASE AddRoot(d)
  <2>1. CASE CutShort(d)
    BY <1>1, <1>14, <2>1 DEF IsCutHere, IsCut, CutShort, AddRoot, Server
  <2>2. CASE ~(Active /\ LastRootEvent <= cursor[d])
    <3>1. UNCHANGED <<log, cursor>>
      BY <1>14 DEF AddRoot, Server
    <3> QED
      BY <1>1, <2>2, <3>1, ServerTypes DEF Arrives, Created
  <2> QED
    BY <1>14, <2>1, <2>2 DEF AddRoot
<1>15. CASE RemoveRoot(d) \/ Announce(d)
  BY <1>15 DEF Keeps, RemoveRoot, Announce, Tables
<1>16. CASE Upload(d)
  <2>1. UNCHANGED <<root, cursor, cut>> /\ pc[d] = "upload"
    BY <1>16 DEF Upload
  <2>2. Active => cursor[d] < Created
    <3>1. job[d].want > cursor[d] /\ job[d].want > 0
      BY <1>1, <2>1 DEF UploadIsFirst
    <3>2. OwnAdd(d, job[d].want)
      BY <1>1, <3>1 DEF OwnInv, OwnJob
    <3>3. job[d].want \in 1 .. Len(log) /\ IsRootEvent(job[d].want)
      BY <3>2 DEF OwnAdd, IsRootEvent
    <3>4. ~(job[d].want > LastRootEvent)
      BY <1>1, <3>3, NewestDecides
    <3>5. LastRootEvent \in 0 .. Len(log)
      BY <1>1, LastRootEventIs DEF TypeInv
    <3> QED
      BY <1>1, <3>1, <3>4, <3>5 DEF Created
  <2> QED
    BY <2>1, <2>2 DEF Before
<1>17. CASE Collide(d) \/ Recheck(d) \/ Verify(d) \/ Publish(d) \/ Confirm(d) \/ Stage(d) \/ Preserve(d)
  BY <1>17 DEF Keeps, Collide, Recheck, Verify, Publish, Confirm, Stage, Preserve, Asks, Tables
<1> QED
  BY <1>2, <1>3, <1>4, <1>5, <1>6, <1>7, <1>8, <1>9, <1>10, <1>11, <1>12, <1>13, <1>14, <1>15, <1>16, <1>17
     DEF DeviceStep, Begin, CatchUpStep, RescanStep, AddStep

\* An entry that was known is known after the step, and one that is read is.
LEMMA KnowsAfter ==
  ASSUME KnowInv, NEW d \in Device, DeviceStep(d), NEW e \in Device,
         IF e = d THEN KnowStep(d) ELSE Keeps(e)
  PROVE  Knows(e)'
<1> SUFFICES ASSUME pc'[e] # "replay", root'[e] = "active", Active', Created' < cursor'[e],
                    cut'[e] <= cursor'[e], log'[cursor'[e]].kind = "put"
             PROVE  \/ entry'[e].seq > cursor'[e]
                    \/ entry'[e].content = log'[cursor'[e]].content
  BY DEF Knows
<1>1. /\ Knows(e) /\ TypeInv /\ Len(log) \in Nat /\ cursor[e] \in 0 .. Len(log)
      /\ Created \in 0 .. Len(log) /\ LogGrows
  <2>1. Knows(e) /\ TypeInv
    BY Given DEF KnowsAll
  <2>2. Len(log) \in Nat /\ cursor[e] \in 0 .. Len(log) /\ Created \in 0 .. Len(log)
    BY Given
  <2> QED
    BY <2>1, <2>2, StepLog
<1>2. KnowStep(e) /\ (e # d => Keeps(e))
  BY DEF KnowStep
<1>3. CASE cursor'[e] = cursor[e]
  <2>1. Active' = Active /\ Created' = Created
    <3>1. Created' # Len(log) + 1
      BY <1>1, <1>3
    <3> QED
      BY <1>1, <3>1, CreatedAfter
  <2>2. cursor[e] \in 1 .. Len(log) /\ log'[cursor[e]] = log[cursor[e]]
    BY <1>1, <1>3, <2>1 DEF LogGrows
  <2>3. CASE Keeps(e)
    <3>1. /\ pc[e] # "replay" /\ root[e] = "active" /\ cut[e] <= cursor[e]
          /\ log[cursor[e]].kind = "put"
      BY <1>3, <2>2, <2>3 DEF Keeps
    <3>2. entry[e].seq > cursor[e] \/ entry[e].content = log[cursor[e]].content
      BY <1>1, <1>3, <2>1, <3>1 DEF Knows
    <3>3. CASE entry'[e] = entry[e]
      BY <1>3, <2>2, <3>2, <3>3
    <3>4. CASE entry'[e] = NewEntry(e)
      <4>1. entry'[e].seq = Len(log) + 1
        BY <3>4 DEF NewEntry
      <4> QED
        BY <1>1, <1>3, <4>1
    <3>5. ASSUME NEW s \in 1 .. Len(log), s >= cursor[e], entry'[e] = EntryOf(s)
          PROVE  \/ entry'[e].seq > cursor'[e]
                 \/ entry'[e].content = log'[cursor'[e]].content
      <4>1. entry'[e].seq = s /\ entry'[e].content = log[s].content
        BY <3>5 DEF EntryOf
      <4>2. s = cursor[e] \/ s > cursor[e]
        BY <1>1, <3>5
      <4> QED
        BY <1>3, <2>2, <4>1, <4>2
    <3> QED
      BY <2>3, <3>3, <3>4, <3>5 DEF Keeps
  <2>4. CASE IsCutHere(e)
    BY <1>1, <1>3, <2>4 DEF IsCutHere, IsCut
  <2>5. CASE Before(e)
    BY <1>1, <1>3, <2>1, <2>5 DEF Before
  <2>6. CASE Arrives(e)
    BY <2>1, <2>6 DEF Arrives
  <2> QED
    BY <1>2, <2>3, <2>4, <2>5, <2>6 DEF KnowStep
<1>4. CASE Arrives(e)
  <2>1. Active' = Active /\ Created' = Created
    BY <1>4, SameRoot DEF Arrives
  <2> QED
    BY <1>4, <2>1 DEF Arrives
<1> QED
  BY <1>2, <1>3, <1>4 DEF KnowStep, Keeps, IsCutHere, Before

\* What the other devices know stays.
LEMMA OthersKnow ==
  ASSUME KnowInv, NEW d \in Device, DeviceStep(d), NEW e \in Device \ {d}
  PROVE  KnowsAll(e)'
<1>1. /\ entry'[e] = entry[e] /\ snapSeq'[e] = snapSeq[e] /\ job'[e] = job[e]
      /\ pc'[e] = pc[e] /\ root'[e] = root[e] /\ cursor'[e] = cursor[e] /\ cut'[e] = cut[e]
  <2>1. TypeInv
    BY Given
  <2> QED
    BY <2>1, StepEntries, StepOthers, StepTables DEF OthersStay, TablesStay
<1>2. KnowsAll(e) /\ LogGrows
  BY Given, StepLog
<1>3. /\ Len(log) \in Nat /\ Len(log') \in Nat /\ cursor[e] \in 0 .. Len(log)
      /\ entry[e].seq \in Nat /\ snapSeq[e] \in Nat /\ job[e].at \in 0 .. Len(log)
      /\ Created \in 0 .. Len(log) /\ TypeInv
  <2>1. TypeInv /\ Len(log) \in Nat /\ cursor[e] \in 0 .. Len(log) /\ entry[e].seq \in Nat
    BY Given
  <2>2. snapSeq[e] \in Nat /\ job[e].at \in 0 .. Len(log) /\ Created \in 0 .. Len(log)
    BY Given
  <2>3. TypeInv'
    BY <2>1, TypeNext DEF Next, DeviceStep
  <2>4. log' \in Seq(Event)
    BY <2>3 DEF TypeInv, TypeOK
  <2>5. Len(log') \in Nat
    BY <2>4
  <2> QED
    BY <2>1, <2>2, <2>5
<1>4. EntryIs(e)'
  <2>1. EntryIs(e)
    BY <1>2 DEF KnowsAll
  <2>2. entry[e].seq > 0 => entry[e].seq \in 1 .. Len(log)
    BY <1>3, <2>1 DEF EntryIs
  <2> QED
    BY <1>1, <1>2, <1>3, <2>1, <2>2 DEF EntryIs, LogGrows
<1>5. HeadIsAhead(e)' /\ UploadIsFirst(e)' /\ WritesActive(e)'
  BY <1>1, <1>2 DEF KnowsAll, HeadIsAhead, UploadIsFirst, WritesActive
<1>6. Untouched(e)'
  <2> SUFFICES ASSUME root[e] \in {"none", "blocked"}
               PROVE  /\ entry[e] = NoEntry
                      /\ \A t \in 1 .. Len(log') : log'[t].by = e => IsRootEvent(t)'
    BY <1>1 DEF Untouched
  <2>1. Untouched(e)
    BY <1>2 DEF KnowsAll
  <2>2. ASSUME NEW t \in 1 .. Len(log'), log'[t].by = e PROVE IsRootEvent(t)'
    <3>1. t \in 1 .. Len(log) /\ log'[t] = log[t]
      BY <2>2, NewEvent
    <3> QED
      BY <2>1, <2>2, <3>1 DEF Untouched, IsRootEvent
  <2> QED
    BY <2>1, <2>2 DEF Untouched
<1>7. SnapshotNotOwn(e)'
  <2>1. SnapshotNotOwn(e)
    BY <1>2 DEF KnowsAll
  <2>2. snapSeq[e] <= Len(log')
    BY <1>2, <1>3, <2>1 DEF SnapshotNotOwn, LogGrows
  <2>3. ASSUME NEW t \in (cursor[e] + 1) .. snapSeq[e], log'[t].by = e PROVE IsRootEvent(t)'
    <3>1. t \in 1 .. Len(log)
      BY <1>3, <2>1 DEF SnapshotNotOwn
    <3>2. log'[t] = log[t]
      BY <1>2, <3>1 DEF LogGrows
    <3> QED
      BY <2>1, <2>3, <3>2 DEF SnapshotNotOwn, IsRootEvent
  <2> QED
    BY <1>1, <2>2, <2>3 DEF SnapshotNotOwn
<1>8. Replayed(e)'
  <2> SUFFICES ASSUME pc[e] = "replay", root[e] = "active", Active',
                      NEW t \in (Created' + 1) .. job[e].at, log'[t].kind = "put"
               PROVE  entry[e].seq >= t
    BY <1>1 DEF Replayed
  <2>1. Active' = Active /\ Created' = Created
    <3>1. Created' # Len(log) + 1
      BY <1>3
    <3> QED
      BY <1>3, <3>1, CreatedAfter
  <2>2. t \in 1 .. Len(log)
    BY <1>3, <2>1
  <2>3. log'[t] = log[t]
    BY <1>2, <2>2 DEF LogGrows
  <2> QED
    BY <1>2, <2>1, <2>3 DEF KnowsAll, Replayed
<1>9. Knows(e)'
  <2>1. Keeps(e)
    BY <1>1 DEF Keeps
  <2> QED
    BY <2>1, KnowsAfter
<1> QED
  BY <1>4, <1>5, <1>6, <1>7, <1>8, <1>9 DEF KnowsAll

LEMMA KnowNext == KnowInv /\ [Next]_vars => KnowInv'
<1> SUFFICES ASSUME KnowInv, [Next]_vars PROVE KnowInv'
  OBVIOUS
<1>1. AgreeInv' /\ HistoryInv'
  BY AgreeNext, HistoryNext DEF KnowInv
<1>2. CASE UNCHANGED vars
  <2>1. SnapshotHasFile'
    BY <1>2 DEF vars, KnowInv, SnapshotHasFile
  <2>2. ASSUME NEW d \in Device PROVE KnowsAll(d)'
    <3>1. KnowsAll(d)
      BY DEF KnowInv
    <3>2. EntryIs(d)' /\ HeadIsAhead(d)' /\ UploadIsFirst(d)' /\ WritesActive(d)'
      BY <1>2, <3>1 DEF vars, KnowsAll, EntryIs, HeadIsAhead, UploadIsFirst, WritesActive
    <3>3. Untouched(d)' /\ SnapshotNotOwn(d)'
      BY <1>2, <3>1 DEF vars, KnowsAll, Untouched, SnapshotNotOwn, IsRootEvent
    <3>4. Active' = Active /\ Created' = Created
      BY <1>2, SameRoot DEF vars
    <3>5. Replayed(d)' /\ Knows(d)'
      BY <1>2, <3>1, <3>4 DEF vars, KnowsAll, Replayed, Knows
    <3> QED
      BY <3>2, <3>3, <3>5 DEF KnowsAll
  <2> QED
    BY <1>1, <2>1, <2>2 DEF KnowInv
<1>3. ASSUME NEW d \in Device, DeviceStep(d) PROVE KnowInv'
  <2>1. SnapshotHasFile'
    <3>1. Uploaded(job[d].mine) /\ SnapshotHasFile
      BY DEF KnowInv, HistoryInv, MineKnown
    <3>2. snap' = NoSnapshot => snap'.base = 0
      BY DEF NoSnapshot
    <3>3. Saves(d) => snap'.base = job[d].mine.seq /\ snap'.content = job[d].mine.content
      BY DEF Saves
    <3> QED
      BY <1>3, <3>1, <3>2, <3>3, StepServerIs DEF ServerStep, Submits, SnapshotHasFile, Uploaded
  <2>2. KnowsAll(d)'
    <3>1. EntryIs(d)' /\ Untouched(d)' /\ SnapshotNotOwn(d)' /\ Replayed(d)'
      BY <1>3, EntryAfter, UntouchedAfter, SnapshotNotOwnAfter, ReplayedAfter
    <3>2. HeadIsAhead(d)' /\ UploadIsFirst(d)' /\ WritesActive(d)'
      BY <1>3, StepWriting DEF WritingAfter, HeadIsAhead, UploadIsFirst, WritesActive
    <3>3. Knows(d)'
      BY <1>3, StepKnow, KnowsAfter
    <3> QED
      BY <3>1, <3>2, <3>3 DEF KnowsAll
  <2>3. ASSUME NEW e \in Device \ {d} PROVE KnowsAll(e)'
    BY <1>3, OthersKnow
  <2> QED
    BY <1>1, <2>1, <2>2, <2>3 DEF KnowInv
<1> QED
  BY <1>2, <1>3 DEF Next, DeviceStep

\* applyRemoteEvent, its test for events whose effect is there already, the
\* bootstrap from a snapshot, the replay of an unblocked root, conflicts and
\* initial syncs together: a device that has seen the log knows the version the
\* server has, unless that is a deletion or it was cut short while unblocking.
THEOREM CaughtUpDevicesKnowTheFile == Spec => []CaughtUp
<1>1. Init => KnowInv
  <2> SUFFICES ASSUME Init PROVE KnowInv
    OBVIOUS
  <2>1. AgreeInv /\ HistoryInv
    BY AgreeInit, HistoryInit
  <2>2. SnapshotHasFile
    BY DEF Init, SnapshotHasFile, NoSnapshot
  <2>3. Len(log) = 0
    BY DEF Init
  <2>4. ~Active
    <3>1. LastRootEvent = 0
      BY <2>1, <2>3, LastRootEventIs DEF HistoryInv, TypeInv
    <3> QED
      BY <3>1 DEF Active
  <2>5. ASSUME NEW d \in Device PROVE KnowsAll(d)
    BY <2>3, <2>4 DEF Init, KnowsAll, EntryIs, HeadIsAhead, UploadIsFirst, Untouched,
         WritesActive, Writing, SnapshotNotOwn, Replayed, Knows, NoEntry
  <2> QED
    BY <2>1, <2>2, <2>5 DEF KnowInv
<1>2. KnowInv => CaughtUp
  <2> SUFFICES ASSUME KnowInv, NEW d \in Device, pc[d] = "idle", cursor[d] = Len(log),
                      root[d] = "active", PathHead > 0, PathHead >= cut[d],
                      log[PathHead].kind = "put"
               PROVE  entry[d].content = log[PathHead].content
    BY DEF CaughtUp
  <2>1. Active /\ Len(log) > Created /\ PathHead = Len(log)
    BY DEF PathHead
  <2>2. Knows(d) /\ EntryIs(d) /\ Len(log) \in Nat /\ entry[d].seq \in Nat /\ cut[d] \in Nat
    BY Given DEF KnowsAll
  <2>3. entry[d].seq > Len(log) \/ entry[d].content = log[Len(log)].content
    BY <2>1, <2>2 DEF Knows
  <2> QED
    BY <2>1, <2>2, <2>3 DEF EntryIs
<1> QED
  BY <1>1, <1>2, KnowNext, PTL DEF Spec
=============================================================================
