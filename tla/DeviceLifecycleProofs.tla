------------------------ MODULE DeviceLifecycleProofs ------------------------
(***************************************************************************)
(* Theorems about DeviceLifecycle, for any number of workspaces, tokens,   *)
(* loops, commands, faults and upsets.                                     *)
(***************************************************************************)
EXTENDS DeviceLifecycle, TLAPS

-----------------------------------------------------------------------------
(***************************************************************************)
(* Types.                                                                  *)
(***************************************************************************)
DbType == [state : ConnectionState, token : Token \cup {None},
           index : SUBSET Life]
MemType == [cfg : Workspace \cup {None}, keys : Workspace \cup {None},
            conn : Token \cup {None, Bare},
            intentional : BOOLEAN, purging : BOOLEAN,
            cancel : 0 .. MaxLoops, loopId : 0 .. MaxLoops]
LoopType == [pc : LoopStage, canceled : BOOLEAN, token : Token \cup {None},
             life : Life \cup {None}, err : Error \cup {None}]
UserType == [pc : UserStage, ws : Workspace \cup {None},
             life : Life \cup {None}, token : Token \cup {None},
             seen : BOOLEAN]

ServerTypes ==
  /\ gen \in [Workspace -> 0 .. MaxGens]
  /\ present \in SUBSET Workspace
  /\ rooted \in SUBSET Life
  /\ accepted \in SUBSET Token
  /\ of \in [Token -> Life \cup {None}]
  /\ due \in SUBSET Token

DiskTypes ==
  /\ cfg \in Workspace \cup {None}
  /\ keyring \in Workspace \cup {None}
  /\ db \in DbType

ProcessTypes ==
  /\ up \in BOOLEAN
  /\ mem \in MemType
  /\ loops \in [LoopId -> LoopType]
  /\ rejected \in SUBSET Token
  /\ user \in UserType

BudgetTypes ==
  /\ halfway \in BOOLEAN
  /\ steps \in 0 .. MaxSteps
  /\ faults \in 0 .. MaxFaults
  /\ upsets \in 0 .. MaxUpsets

\* Types, in the parts that steps leave alone together.
LEMMA TypesSplit ==
  /\ StateOK <=> ServerTypes /\ DiskTypes /\ ProcessTypes /\ BudgetTypes
  /\ StateOK' <=> ServerTypes' /\ DiskTypes' /\ ProcessTypes' /\ BudgetTypes'
  BY DEF StateOK, ServerTypes, DiskTypes, ProcessTypes, BudgetTypes, DbType,
         MemType, LoopType, UserType

\* What the server knows belongs together: a session is for the life of the
\* workspace that is there.
ServerSane ==
  /\ \A w \in present : gen[w] # 0
  /\ \A t \in accepted : /\ of[t] \in Life
                         /\ of[t].ws \in present
                         /\ of[t] = LifeOf(of[t].ws)

\* A process that is not there does nothing.
Down ==
  /\ mem = NoMemory
  /\ user = NoCommand
  /\ rejected = {}
  /\ loops = [l \in LoopId |-> NoLoop]

Late == Connecting \ {"c_finish"}

\* What a command under way, and a loop in the handshake, carry along.
CommandsSane ==
  /\ ~up => Down
  /\ user.pc \in Connecting => /\ user.ws \in Workspace
                               /\ user.life \in Life
                               /\ user.life.ws = user.ws
                               /\ mem.loopId < MaxLoops
  /\ user.pc \in Late => user.token \in Token
  /\ mem.cancel \in {0, mem.loopId}
  /\ \A l \in LoopId :
       /\ loops[l].pc = "finish" => loops[l].life \in Life
       /\ l > mem.loopId => loops[l] = NoLoop

TypeInv == StateOK /\ ServerSane /\ CommandsSane

\* A loop is started only where none can be cancelled.
LEMMA StartLoopEffect ==
  ASSUME NEW m \in MemType, NEW n, n = StartLoop(m), m.loopId < MaxLoops
  PROVE  /\ n \in MemType
         /\ m.cancel # 0 => n = m
         /\ m.cancel = 0 => /\ n.cancel = m.loopId + 1
                            /\ n.loopId = m.loopId + 1
                            /\ n.cfg = m.cfg /\ n.keys = m.keys
                            /\ n.conn = m.conn /\ n.purging = m.purging
                            /\ n.intentional = m.intentional
<1>1. m.loopId + 1 \in 0 .. MaxLoops
  BY LifecycleAssumption DEF MemType
<1>2. CASE m.cancel # 0
  BY <1>2 DEF StartLoop
<1>3. CASE m.cancel = 0
  <2>1. n = [[m EXCEPT !.loopId = m.loopId + 1] EXCEPT !.cancel = m.loopId + 1]
    BY <1>3 DEF StartLoop, MemType
  <2> QED
    BY <1>1, <1>3, <2>1 DEF MemType
<1> QED
  BY <1>2, <1>3

\* The blank records have the types of what they stand for.
LEMMA BlankTypes ==
  NoLoop \in LoopType /\ NoCommand \in UserType /\ NoMemory \in MemType
<1>1. NoLoop \in LoopType
  BY DEF NoLoop, LoopType, LoopStage
<1>2. NoCommand \in UserType
  BY DEF NoCommand, UserType, UserStage
<1>3. NoMemory \in MemType
  BY LifecycleAssumption DEF NoMemory, MemType
<1> QED
  BY <1>1, <1>2, <1>3

\* What a loop's move and its failure do to the loops.
LEMMA GoesEffect ==
  ASSUME NEW l \in LoopId, NEW pc \in LoopStage,
         loops \in [LoopId -> LoopType], Goes(l, pc)
  PROVE  /\ loops' \in [LoopId -> LoopType]
         /\ \A k \in LoopId : k # l => loops'[k] = loops[k]
         /\ loops'[l].pc = pc /\ loops'[l].err = None
         /\ loops'[l].canceled = loops[l].canceled
         /\ loops'[l].token = loops[l].token /\ loops'[l].life = loops[l].life
  BY DEF Goes, LoopType

\* A failing loop changes its own record and no other.
LEMMA FailsEffect ==
  ASSUME NEW l \in LoopId, NEW e \in Error,
         loops \in [LoopId -> LoopType], Fails(l, e)
  PROVE  /\ loops' \in [LoopId -> LoopType]
         /\ \A k \in LoopId : k # l => loops'[k] = loops[k]
         /\ loops'[l].pc = "failed" /\ loops'[l].err = e
         /\ loops'[l].canceled = loops[l].canceled
         /\ loops'[l].token = None /\ loops'[l].life = None
  BY DEF Fails, LoopType, LoopStage

\* What is left of a process that has ended.
LEMMA GoneEffect ==
  ASSUME Gone
  PROVE  /\ up' = FALSE /\ rejected' = {} /\ Down'
         /\ mem' \in MemType /\ user' \in UserType
         /\ loops' \in [LoopId -> LoopType]
  BY BlankTypes DEF Gone, Down

\* A fresh token is held by nobody.
LEMMA NewTokenIsNew ==
  ASSUME Token \ Held # {}
  PROVE  NewToken \in Token /\ NewToken \notin Held
  BY DEF NewToken

\* Only the fresh token becomes accepted, for the life it is issued for, and
\* what is held keeps the life it has.
LEMMA IssueEffect ==
  ASSUME NEW t \in Token, t \notin Held, NEW life \in Life,
         ServerTypes, Issue(t, life)
  PROVE  /\ accepted' \in SUBSET Token /\ due' \in SUBSET Token
         /\ of' \in [Token -> Life \cup {None}]
         /\ accepted' \subseteq (accepted \cap Held) \cup {t}
         /\ t \in accepted' /\ t \notin due' /\ of'[t] = life
         /\ \A x \in Held \cap Token : of'[x] = of[x]
  BY DEF Issue, ServerTypes

LEMMA TypeInvInit == Init => TypeInv
<1> SUFFICES ASSUME Init PROVE TypeInv
  OBVIOUS
<1>1. ServerTypes /\ ServerSane
  BY LifecycleAssumption DEF Init, ServerTypes, ServerSane
<1>2. DiskTypes
  <2>1. [state |-> "disconnected", token |-> None, index |-> {}] \in DbType
    BY DEF DbType, ConnectionState
  <2> QED
    BY <2>1 DEF Init, DiskTypes
<1>2a. BudgetTypes
  <2>1. 0 \in 0 .. MaxSteps /\ 0 \in 0 .. MaxFaults /\ 0 \in 0 .. MaxUpsets
    BY LifecycleAssumption
  <2> QED
    BY <2>1 DEF Init, BudgetTypes
<1>3. ProcessTypes /\ Down
  BY BlankTypes DEF Init, ProcessTypes, Down
<1>4. CommandsSane
  BY <1>3 DEF Init, CommandsSane, Down, NoMemory, NoCommand, NoLoop, Connecting, Late
<1> QED
  BY <1>1, <1>2, <1>2a, <1>3, <1>4, TypesSplit DEF TypeInv

\* A loop that is at work belongs to a process that is there.
LEMMA AtWork ==
  ASSUME TypeInv, NEW l \in LoopId, loops[l].pc # "none"
  PROVE  up /\ l <= mem.loopId
  BY DEF TypeInv, CommandsSane, Down, NoLoop, StateOK, LoopId

\* A step of one loop that leaves the user's command and the loops' numbers.
LEMMA LoopStepTypes ==
  ASSUME TypeInv, NEW l \in LoopId, loops[l].pc # "none",
         loops' \in [LoopId -> LoopType],
         \A k \in LoopId : k # l => loops'[k] = loops[k],
         loops'[l].pc = "finish" => loops'[l].life \in Life,
         ServerTypes', ServerSane', DiskTypes', BudgetTypes',
         mem' \in MemType, mem'.loopId = mem.loopId,
         mem'.cancel \in {0, mem.cancel}, rejected' \in SUBSET Token,
         UNCHANGED <<up, user>>
  PROVE  TypeInv'
<1>1. up /\ l <= mem.loopId /\ mem.loopId \in Nat /\ l \in Nat
  BY AtWork DEF TypeInv, StateOK, LoopId
<1>2. ProcessTypes'
  BY DEF TypeInv, StateOK, ProcessTypes, UserType
<1>3. CommandsSane'
  BY <1>1 DEF TypeInv, CommandsSane, LoopId
<1> QED
  BY <1>2, <1>3, TypesSplit DEF TypeInv

\* What an answered handshake does to the server.
LEMMA IssueTypes ==
  ASSUME TypeInv, NEW t \in Token, t \notin Held, NEW life \in Life,
         ChallengeStands(life), Issue(t, life), UNCHANGED <<gen, present, rooted>>
  PROVE  ServerTypes' /\ ServerSane'
<1>1. ServerTypes
  BY TypesSplit DEF TypeInv
<1>2. ServerTypes'
  BY <1>1, IssueEffect DEF ServerTypes
<1>3. ServerSane'
  <2>1. \A x \in accepted' : x = t \/ (x \in accepted /\ x \in Held \cap Token)
    BY <1>1, IssueEffect DEF ServerTypes
  <2>2. of'[t] = life /\ \A x \in Held \cap Token : of'[x] = of[x]
    BY <1>1, IssueEffect
  <2>3. life.ws \in present /\ life = LifeOf(life.ws)
    BY DEF ChallengeStands
  <2> QED
    BY <2>1, <2>2, <2>3 DEF TypeInv, ServerSane, LifeOf
<1> QED
  BY <1>2, <1>3

\* What the server knows stays sane where the server is not changed.
LEMMA ServerUntouched ==
  ASSUME TypeInv, UNCHANGED server
  PROVE  ServerTypes' /\ ServerSane'
  BY TypesSplit DEF TypeInv, ServerTypes, ServerSane, server, LifeOf

\* A workspace that is there has a life.
LEMMA PresentLife ==
  ASSUME TypeInv, NEW w \in present
  PROVE  w \in Workspace /\ LifeOf(w) \in Life
  BY DEF TypeInv, StateOK, ServerSane, LifeOf, Life

\* Types are kept by each of the steps, in the order of Next.
LEMMA ConnectTypes ==
  ASSUME TypeInv, NEW w \in Workspace, NEW create \in BOOLEAN, Connect(w, create)
  PROVE  TypeInv'
<1> USE DEF Connect, disk
<1>1. /\ gen' \in [Workspace -> 0 .. MaxGens] /\ present' \in SUBSET Workspace
      /\ gen'[w] \in 1 .. MaxGens
      /\ \A v \in present' : gen'[v] # 0
      /\ \A v \in present : v \in present' /\ gen'[v] = gen[v]
  BY LifecycleAssumption DEF TypeInv, StateOK, ServerSane
<1>2. ServerTypes'
  BY <1>1, TypesSplit DEF TypeInv, ServerTypes
<1>3. ServerSane'
  BY <1>1 DEF TypeInv, ServerSane, LifeOf
<1>4. DiskTypes'
  BY TypesSplit DEF TypeInv, DiskTypes
<1>5. /\ user' \in UserType /\ user'.pc = "c_finish" /\ user'.ws = w
      /\ user'.life \in Life /\ user'.life.ws = w
  <2>1. [ws |-> w, gen |-> gen'[w]] \in Life
    BY <1>1 DEF Life
  <2> QED
    BY <2>1 DEF NoCommand, UserType, UserStage, Connecting
<1>6. ProcessTypes'
  BY <1>5, TypesSplit DEF TypeInv, ProcessTypes
<1>7. BudgetTypes'
  BY TypesSplit, LifecycleAssumption DEF TypeInv, BudgetTypes, Chooses
<1>8. CommandsSane'
  BY <1>5 DEF TypeInv, CommandsSane, Connecting, Late
<1> QED
  BY <1>2, <1>3, <1>4, <1>6, <1>7, <1>8, TypesSplit DEF TypeInv

\* A step of the command under way that starts no loop.
LEMMA UserStepTypes ==
  ASSUME TypeInv, up,
         ServerTypes', ServerSane', DiskTypes', BudgetTypes',
         mem' \in MemType, mem'.loopId = mem.loopId, mem'.cancel = mem.cancel,
         rejected' \in SUBSET Token, user' \in UserType,
         \/ user'.pc \notin Connecting
         \/ /\ user.pc \in Connecting /\ user'.ws = user.ws
            /\ user'.life = user.life
            /\ user'.token \in Token,
         UNCHANGED <<up, loops>>
  PROVE  TypeInv'
<1>1. ProcessTypes'
  BY TypesSplit DEF TypeInv, ProcessTypes
<1>2. CommandsSane'
  BY DEF TypeInv, CommandsSane, Connecting, Late
<1> QED
  BY <1>1, <1>2, TypesSplit DEF TypeInv

LEMMA WriteFailsTypes ==
  ASSUME TypeInv, WriteFails, UNCHANGED <<steps, upsets>>
  PROVE  user' \in UserType /\ user'.pc = "idle" /\ BudgetTypes'
<1>1. user' \in UserType /\ user'.pc = "idle"
  BY BlankTypes DEF WriteFails, NoCommand
<1>2. halfway' \in BOOLEAN
  BY DEF WriteFails
<1>3. faults' \in 0 .. MaxFaults
  BY LifecycleAssumption DEF WriteFails, TypeInv, StateOK
<1> QED
  BY <1>1, <1>2, <1>3 DEF TypeInv, StateOK, BudgetTypes

\* The bounds stay within theirs where they are not used.
LEMMA BudgetUntouched ==
  ASSUME TypeInv, halfway' \in BOOLEAN, UNCHANGED budget
  PROVE  BudgetTypes'
  BY DEF TypeInv, StateOK, BudgetTypes, budget

\* A command runs in a running daemon.
LEMMA CommandIsUp ==
  ASSUME TypeInv, user.pc # "idle"
  PROVE  up
  BY DEF TypeInv, CommandsSane, Down, NoCommand

\* The roots a bootstrap hands out are roots that were added.
LEMMA RootsOfType ==
  ASSUME TypeInv, NEW t
  PROVE  RootsOf(t) \in SUBSET Life /\ RootsOf(t) \subseteq rooted
  BY DEF RootsOf, TypeInv, StateOK

\* So is whatever the device has active afterwards.
LEMMA FollowedType ==
  ASSUME TypeInv, NEW t, NEW i \in Followed(t)
  PROVE  i \in SUBSET Life
<1>1. db.index \in SUBSET Life
  BY TypesSplit DEF TypeInv, DiskTypes, DbType
<1> QED
  BY <1>1, RootsOfType DEF Followed

\* A bootstrap names no root of another workspace.
LEMMA BootstrappedIsFollowed ==
  ASSUME NEW t, NEW i \in Bootstrapped(t)
  PROVE  i \in Followed(t) /\ \A life \in i : life.ws = of[t].ws
  BY DEF Bootstrapped

\* What is reported as rejected are tokens.
LEMMA ReportType ==
  ASSUME TypeInv, NEW t, Report(t)
  PROVE  rejected' \in SUBSET Token
  BY DEF Report, TypeInv, StateOK

LEMMA ConnectFinishTypes ==
  ASSUME TypeInv, ConnectFinish
  PROVE  TypeInv'
<1> DEFINE t == NewToken
<1> USE DEF ConnectFinish
<1>1. t \in Token /\ t \notin Held
  BY NewTokenIsNew
<1>2. user.life \in Life /\ user.ws \in Workspace /\ user.pc \in Connecting
  BY DEF TypeInv, CommandsSane, Connecting
<1> HIDE DEF t
<1>3. Issue(t, user.life) /\ ChallengeStands(user.life)
  BY DEF t
<1>4. ServerTypes' /\ ServerSane'
  BY <1>1, <1>2, <1>3, IssueTypes
<1>5. mem' \in MemType /\ mem'.loopId = mem.loopId /\ mem'.cancel = mem.cancel
  <2>1. mem' = [mem EXCEPT !.cfg = user.ws, !.keys = user.ws, !.conn = t]
    BY DEF t
  <2>2. mem \in MemType
    BY TypesSplit DEF TypeInv, ProcessTypes
  <2> QED
    BY <1>1, <1>2, <2>1, <2>2 DEF MemType
<1>6. DiskTypes'
  BY <1>2, TypesSplit DEF TypeInv, DiskTypes
<1>7. up /\ user \in UserType /\ UNCHANGED <<up, loops>> /\ rejected' \in SUBSET Token
  BY CommandIsUp, TypesSplit DEF TypeInv, ProcessTypes
<1>8. CASE WriteFails
  <2>1. BudgetTypes' /\ user' \in UserType /\ user'.pc \notin Connecting
    BY <1>8, WriteFailsTypes DEF Connecting
  <2> QED
    BY <1>4, <1>5, <1>6, <1>7, <2>1, UserStepTypes
<1>9. CASE ~WriteFails
  <2>1. BudgetTypes'
    BY <1>9, TypesSplit DEF TypeInv, BudgetTypes
  <2> DEFINE seen == user.life \in rooted
  <2>2. seen \in BOOLEAN
    OBVIOUS
  <2>2a. user' = [user EXCEPT !.pc = "c_keyring", !.token = t, !.seen = seen]
    BY <1>9 DEF t
  <2> HIDE DEF seen
  <2>3. /\ user' \in UserType /\ user'.ws = user.ws /\ user'.life = user.life
        /\ user'.token \in Token
    BY <1>1, <1>7, <2>2, <2>2a DEF UserType, UserStage, Connecting
  <2> QED
    BY <1>2, <1>4, <1>5, <1>6, <1>7, <2>1, <2>3, UserStepTypes
<1> QED
  BY <1>8, <1>9

LEMMA ConnectStepTypes ==
  ASSUME TypeInv, ConnectStep
  PROVE  TypeInv'
<1> USE DEF disk
<1>1. user \in UserType /\ mem \in MemType /\ rejected \in SUBSET Token /\ db \in DbType
  BY TypesSplit DEF TypeInv, ProcessTypes, DiskTypes
<1>2. CASE ConnectFinish
  BY <1>2, ConnectFinishTypes
<1>3. CASE ConnectGivesUp
  <2>1. up /\ user'.pc = "idle" /\ user' \in UserType
    BY <1>3, CommandIsUp, BlankTypes DEF ConnectGivesUp, NoCommand
  <2>2. DiskTypes' /\ BudgetTypes' /\ ServerTypes' /\ ServerSane'
    BY <1>3, ServerUntouched, BudgetUntouched, TypesSplit
       DEF ConnectGivesUp, TypeInv, DiskTypes, BudgetTypes
  <2> QED
    BY <1>1, <1>3, <2>1, <2>2, UserStepTypes DEF ConnectGivesUp, Connecting
<1>4. CASE ConnectStoresKeyring
  <2>1. up /\ user.pc \in Late /\ user.ws \in Workspace /\ user.token \in Token
    BY <1>4, CommandIsUp DEF ConnectStoresKeyring, Late, Connecting, TypeInv, CommandsSane
  <2>2. DiskTypes' /\ ServerTypes' /\ ServerSane'
    BY <1>4, <2>1, ServerUntouched, TypesSplit DEF ConnectStoresKeyring, TypeInv, DiskTypes
  <2>3. CASE WriteFails
    BY <1>1, <1>4, <2>1, <2>2, <2>3, WriteFailsTypes, UserStepTypes
       DEF ConnectStoresKeyring, Connecting
  <2>4. CASE ~WriteFails
    <3>1. BudgetTypes'
      BY <1>4, <2>4, TypesSplit DEF ConnectStoresKeyring, TypeInv, BudgetTypes
    <3>2. user' \in UserType
      BY <1>1, <1>4, <2>4 DEF ConnectStoresKeyring, UserType, UserStage, Connecting
    <3> QED
      BY <1>1, <1>4, <2>1, <2>2, <2>4, <3>1, <3>2, UserStepTypes
         DEF ConnectStoresKeyring, UserType, Late
  <2> QED
    BY <2>3, <2>4
<1>5. CASE ConnectStoresState
  <2>1. up /\ user.pc \in Late /\ user.ws \in Workspace /\ user.token \in Token
    BY <1>5, CommandIsUp DEF ConnectStoresState, Late, Connecting, TypeInv, CommandsSane
  <2>2. db' \in DbType
    BY <1>1, <1>5, <2>1 DEF ConnectStoresState, DbType, ConnectionState
  <2>3. DiskTypes' /\ ServerTypes' /\ ServerSane'
    BY <1>5, <2>2, ServerUntouched, TypesSplit DEF ConnectStoresState, TypeInv, DiskTypes
  <2>4. CASE WriteFails
    BY <1>1, <1>5, <2>1, <2>3, <2>4, WriteFailsTypes, UserStepTypes
       DEF ConnectStoresState, Connecting
  <2>5. CASE ~WriteFails
    <3>1. BudgetTypes'
      BY <1>5, <2>5, TypesSplit DEF ConnectStoresState, TypeInv, BudgetTypes
    <3>2. user' \in UserType /\ user'.ws = user.ws /\ user'.life = user.life
          /\ user'.token = user.token
      BY <1>1, <1>5, <2>5 DEF ConnectStoresState, UserType, UserStage, Connecting
    <3> QED
      BY <1>1, <1>5, <2>1, <2>3, <3>1, <3>2, UserStepTypes
         DEF ConnectStoresState, Late
  <2> QED
    BY <2>4, <2>5
<1>6. CASE ConnectBootstraps
  <2>1. up /\ user.pc \in Late /\ user.token \in Token
    BY <1>6, CommandIsUp DEF ConnectBootstraps, Late, Connecting, TypeInv, CommandsSane
  <2>2. db' \in DbType
    <3>1. PICK i \in SUBSET Life : db' = [db EXCEPT !.index = i]
      <4>1. PICK i \in Bootstrapped(mem.conn) : db' = [db EXCEPT !.index = i]
        BY <1>6 DEF ConnectBootstraps
      <4>2. i \in SUBSET Life
        BY <4>1, BootstrappedIsFollowed, FollowedType
      <4> QED
        BY <4>1, <4>2
    <3> QED
      BY <1>1, <3>1 DEF DbType
  <2>2a. halfway' \in BOOLEAN
    BY <1>6 DEF ConnectBootstraps
  <2>3. DiskTypes' /\ ServerTypes' /\ ServerSane' /\ BudgetTypes'
    BY <1>6, <2>2, <2>2a, ServerUntouched, BudgetUntouched, TypesSplit
       DEF ConnectBootstraps, TypeInv, DiskTypes
  <2>4. user' \in UserType /\ user'.ws = user.ws /\ user'.life = user.life
        /\ user'.token = user.token
    BY <1>1, <1>6 DEF ConnectBootstraps, UserType, UserStage, Connecting
  <2> QED
    BY <1>1, <1>6, <2>1, <2>3, <2>4, UserStepTypes DEF ConnectBootstraps, Late
<1>7. CASE ConnectBootstrapFails
  <2>1. up /\ user'.pc = "idle" /\ user' \in UserType
    BY <1>7, CommandIsUp, BlankTypes DEF ConnectBootstrapFails, NoCommand
  <2>2. db' \in DbType
    <3>1. PICK i \in SUBSET Life : db' = [db EXCEPT !.state = "degraded", !.index = i]
      BY <1>7, FollowedType DEF ConnectBootstrapFails
    <3> QED
      BY <1>1, <3>1 DEF DbType, ConnectionState
  <2>3. DiskTypes' /\ ServerTypes' /\ ServerSane' /\ BudgetTypes'
    BY <1>7, <2>2, ServerUntouched, BudgetUntouched, TypesSplit
       DEF ConnectBootstrapFails, TypeInv, DiskTypes
  <2>4. rejected' \in SUBSET Token
    BY <1>1, <1>7, ReportType DEF ConnectBootstrapFails
  <2> QED
    BY <1>1, <1>7, <2>1, <2>3, <2>4, UserStepTypes DEF ConnectBootstrapFails, Connecting
<1>8. CASE ConnectStartsLoop
  <2> DEFINE m == [mem EXCEPT !.intentional = FALSE]
  <2>1. up /\ mem.loopId < MaxLoops
    BY <1>8, CommandIsUp DEF ConnectStartsLoop, Connecting, TypeInv, CommandsSane
  <2>2. m \in MemType /\ m.loopId = mem.loopId /\ m.cancel = mem.cancel
        /\ mem.loopId \in Nat
    <3>1. FALSE \in BOOLEAN
      OBVIOUS
    <3>2. m \in MemType /\ m.loopId = mem.loopId /\ m.cancel = mem.cancel
      BY <1>1, <3>1, Zenon DEF MemType
    <3> QED
      BY <1>1, <3>2 DEF MemType
  <2>3. mem' = StartLoop(m) /\ loops' = WithLoopOf(mem', loops)
    BY <1>8 DEF ConnectStartsLoop
  <2> HIDE DEF m
  <2>4. /\ mem' \in MemType
        /\ \/ mem'.loopId = mem.loopId /\ mem'.cancel = mem.cancel
           \/ mem'.loopId = mem.loopId + 1 /\ mem'.cancel = mem'.loopId
    BY <2>1, <2>2, <2>3, StartLoopEffect
  <2>5. /\ loops' \in [LoopId -> LoopType]
        /\ \A l \in LoopId : \/ loops'[l] = loops[l]
                             \/ l = mem'.loopId /\ loops'[l].pc = "top"
    <3>1. CASE mem'.loopId = mem.loopId
      BY <2>3, <3>1, TypesSplit DEF WithLoopOf, TypeInv, ProcessTypes
    <3>2. CASE mem'.loopId = mem.loopId + 1
      <4>1. loops' = [loops EXCEPT ![mem'.loopId] = [NoLoop EXCEPT !.pc = "top"]]
        BY <2>2, <2>3, <3>2 DEF WithLoopOf
      <4>2. [NoLoop EXCEPT !.pc = "top"] \in LoopType /\ [NoLoop EXCEPT !.pc = "top"].pc = "top"
        BY DEF NoLoop, LoopType, LoopStage
      <4> QED
        BY <4>1, <4>2, TypesSplit DEF TypeInv, ProcessTypes
    <3> QED
      BY <2>4, <3>1, <3>2
  <2>6. ServerTypes' /\ ServerSane' /\ DiskTypes' /\ BudgetTypes'
    BY <1>8, ServerUntouched, BudgetUntouched, TypesSplit
       DEF ConnectStartsLoop, TypeInv, DiskTypes, BudgetTypes
  <2>7. user' \in UserType /\ user'.pc = "idle" /\ up' = up /\ rejected' = rejected
    BY <1>8, BlankTypes DEF ConnectStartsLoop, NoCommand
  <2>8. ProcessTypes'
    BY <2>4, <2>5, <2>7, TypesSplit DEF TypeInv, ProcessTypes
  <2>9. CommandsSane'
    BY <2>1, <2>2, <2>4, <2>5, <2>7 DEF TypeInv, CommandsSane, LoopId, Connecting, Late
  <2> QED
    BY <2>6, <2>8, <2>9, TypesSplit DEF TypeInv
<1> QED
  BY <1>2, <1>3, <1>4, <1>5, <1>6, <1>7, <1>8 DEF ConnectStep

\* The process has ended; what it had stored stays.
LEMMA GoneTypes ==
  ASSUME TypeInv, Gone, UNCHANGED <<server, disk>>, BudgetTypes'
  PROVE  TypeInv'
<1>1. ServerTypes' /\ ServerSane'
  BY ServerUntouched
<1>2. DiskTypes'
  BY TypesSplit DEF TypeInv, DiskTypes, disk
<1>3. ProcessTypes' /\ Down' /\ up' = FALSE
  BY GoneEffect DEF ProcessTypes
<1>4. CommandsSane'
  BY <1>3 DEF CommandsSane, Down, NoMemory, NoCommand, NoLoop, Connecting, Late
<1> QED
  BY <1>1, <1>2, <1>3, <1>4, TypesSplit DEF TypeInv

\* To cancel a loop changes nothing but its flag.
LEMMA CanceledTypes ==
  ASSUME loops \in [LoopId -> LoopType],
         loops' = [l \in LoopId |-> IF l = mem.cancel
                                    THEN [loops[l] EXCEPT !.canceled = TRUE]
                                    ELSE loops[l]]
  PROVE  /\ loops' \in [LoopId -> LoopType]
         /\ \A l \in LoopId : /\ loops'[l].pc = loops[l].pc
                              /\ loops'[l].life = loops[l].life
                              /\ loops'[l].token = loops[l].token
                              /\ loops'[l].err = loops[l].err
                              /\ loops'[l].canceled <=> loops[l].canceled \/ l = mem.cancel
                              /\ l # mem.cancel => loops'[l] = loops[l]
<1>1. ASSUME NEW l \in LoopId
      PROVE  /\ [loops[l] EXCEPT !.canceled = TRUE] \in LoopType
             /\ [loops[l] EXCEPT !.canceled = TRUE].pc = loops[l].pc
             /\ [loops[l] EXCEPT !.canceled = TRUE].life = loops[l].life
             /\ [loops[l] EXCEPT !.canceled = TRUE].token = loops[l].token
             /\ [loops[l] EXCEPT !.canceled = TRUE].err = loops[l].err
             /\ [loops[l] EXCEPT !.canceled = TRUE].canceled
  BY DEF LoopType
<1> QED
  BY <1>1

\* A loop that can be cancelled has been started.
LEMMA CancelStarted ==
  ASSUME TypeInv, NEW l \in LoopId, l > mem.loopId
  PROVE  loops[l] = NoLoop
  BY DEF TypeInv, CommandsSane

LEMMA DisconnectTypes ==
  ASSUME TypeInv, Disconnect
  PROVE  TypeInv'
<1> USE DEF Disconnect
<1>1. /\ mem \in MemType /\ loops \in [LoopId -> LoopType]
      /\ rejected \in SUBSET Token /\ db \in DbType
  BY TypesSplit DEF TypeInv, ProcessTypes, DiskTypes
<1>2. /\ loops' \in [LoopId -> LoopType]
      /\ \A l \in LoopId : /\ loops'[l].pc = loops[l].pc
                           /\ loops'[l].life = loops[l].life
                           /\ l # mem.cancel => loops'[l] = loops[l]
  BY <1>1, CanceledTypes
<1>3. mem' \in MemType /\ mem'.loopId = mem.loopId /\ mem'.cancel = 0
  <2>1. 0 \in 0 .. MaxLoops
    BY LifecycleAssumption
  <2>2. TRUE \in BOOLEAN
    OBVIOUS
  <2> QED
    BY <1>1, <2>1, <2>2, Zenon DEF MemType
<1>4. ServerTypes' /\ ServerSane'
  BY ServerUntouched
<1>5. DiskTypes'
  BY TypesSplit DEF TypeInv, DiskTypes, WriteFails
<1>6. user' \in UserType /\ user'.pc \in {"idle", "d_keyring"}
  <2>1. CASE WriteFails
    BY <2>1, BlankTypes DEF WriteFails, NoCommand
  <2>2. CASE ~WriteFails
    BY <2>2 DEF NoCommand, UserType, UserStage, Disconnecting
  <2> QED
    BY <2>1, <2>2
<1>7. BudgetTypes'
  <2>1. steps' \in 0 .. MaxSteps /\ upsets' \in 0 .. MaxUpsets
    BY LifecycleAssumption DEF TypeInv, StateOK
  <2>2. faults' \in 0 .. MaxFaults
    BY LifecycleAssumption DEF TypeInv, StateOK, WriteFails
  <2>3. halfway' \in BOOLEAN
    BY DEF TypeInv, StateOK, WriteFails
  <2> QED
    BY <2>1, <2>2, <2>3 DEF BudgetTypes
<1>8. ProcessTypes'
  BY <1>1, <1>2, <1>3, <1>6, TypesSplit DEF TypeInv, ProcessTypes
<1>9. CommandsSane'
  <2>1. \A l \in LoopId : l > mem.loopId => l # mem.cancel
    BY <1>1 DEF MemType, LoopId, TypeInv, CommandsSane
  <2> QED
    BY <1>2, <1>3, <1>6, <2>1 DEF TypeInv, CommandsSane, Connecting, Late
<1> QED
  BY <1>4, <1>5, <1>7, <1>8, <1>9, TypesSplit DEF TypeInv

\* A cleared state database is one.
LEMMA ClearedTypes ==
  ASSUME NEW state \in ConnectionState
  PROVE  Cleared(state) \in DbType
  BY DEF Cleared, DbType

LEMMA DisconnectStepTypes ==
  ASSUME TypeInv, DisconnectStep
  PROVE  TypeInv'
<1>1. /\ mem \in MemType /\ loops \in [LoopId -> LoopType] /\ user \in UserType
      /\ rejected \in SUBSET Token /\ db \in DbType
  BY TypesSplit DEF TypeInv, ProcessTypes, DiskTypes
<1>2. CASE DisconnectClearsKeyring
  <2>1. up
    BY <1>2, CommandIsUp DEF DisconnectClearsKeyring
  <2>2. ServerTypes' /\ ServerSane' /\ DiskTypes'
    BY <1>2, ServerUntouched, TypesSplit DEF DisconnectClearsKeyring, TypeInv, DiskTypes, WriteFails
  <2>3. CASE WriteFails
    BY <1>1, <1>2, <2>1, <2>2, <2>3, WriteFailsTypes, UserStepTypes
       DEF DisconnectClearsKeyring, Connecting
  <2>4. CASE ~WriteFails
    <3>1. BudgetTypes'
      BY <1>2, <2>4, TypesSplit DEF DisconnectClearsKeyring, TypeInv, BudgetTypes
    <3>2. user' \in UserType /\ user'.pc = "d_state"
      BY <1>1, <1>2, <2>4 DEF DisconnectClearsKeyring, UserType, UserStage, Disconnecting
    <3> QED
      BY <1>1, <1>2, <2>1, <2>2, <3>1, <3>2, UserStepTypes DEF DisconnectClearsKeyring, Connecting
  <2> QED
    BY <2>3, <2>4
<1>3. CASE DisconnectClearsState
  <2>1. up
    BY <1>3, CommandIsUp DEF DisconnectClearsState
  <2>2. ServerTypes' /\ ServerSane' /\ DiskTypes'
    <3>1. db' \in DbType
      BY <1>1, <1>3, ClearedTypes DEF DisconnectClearsState, ConnectionState
    <3> QED
      BY <1>3, <3>1, ServerUntouched, TypesSplit DEF DisconnectClearsState, TypeInv, DiskTypes
  <2>3. CASE WriteFails
    BY <1>1, <1>3, <2>1, <2>2, <2>3, WriteFailsTypes, UserStepTypes
       DEF DisconnectClearsState, Connecting
  <2>4. CASE ~WriteFails
    <3>1. BudgetTypes'
      BY <1>3, <2>4, TypesSplit DEF DisconnectClearsState, TypeInv, BudgetTypes
    <3>2. user' \in UserType /\ user'.pc = "stop"
      BY <1>3, <2>4 DEF DisconnectClearsState, NoCommand, UserType, UserStage
    <3> QED
      BY <1>1, <1>3, <2>1, <2>2, <3>1, <3>2, UserStepTypes DEF DisconnectClearsState, Connecting
  <2> QED
    BY <2>3, <2>4
<1>4. CASE Stop
  BY <1>4, GoneTypes, TypesSplit DEF Stop, budget, TypeInv, BudgetTypes
<1> QED
  BY <1>2, <1>3, <1>4 DEF DisconnectStep

LEMMA DieTypes ==
  ASSUME TypeInv, Die
  PROVE  TypeInv'
<1>1. faults' \in 0 .. MaxFaults
  BY LifecycleAssumption DEF Die, TypeInv, StateOK
<1>2. halfway' \in BOOLEAN
  BY DEF Die, TypeInv, StateOK
<1>3. BudgetTypes'
  BY <1>1, <1>2 DEF Die, TypeInv, StateOK, BudgetTypes
<1> QED
  BY <1>3, GoneTypes DEF Die

LEMMA StartTypes ==
  ASSUME TypeInv, Start
  PROVE  TypeInv'
<1> DEFINE c == Recovered(cfg, db.state)
           m == [NoMemory EXCEPT
                   !.cfg = c, !.keys = keyring,
                   !.conn = CASE c = None -> None
                              [] c # None /\ db.token = None -> Bare
                              [] OTHER -> db.token]
<1>1. ~up /\ Down
  BY DEF Start, TypeInv, CommandsSane
<1>2. c \in Workspace \cup {None} /\ cfg' = c /\ keyring \in Workspace \cup {None} /\ db \in DbType
  BY TypesSplit DEF Start, Recovered, TypeInv, DiskTypes
<1>3. m \in MemType /\ m.loopId = 0 /\ m.cancel = 0
  BY <1>2, BlankTypes DEF MemType, NoMemory, DbType
<1>4. mem' = IF c # None /\ keyring # None THEN StartLoop(m) ELSE m
  BY DEF Start
<1>5. loops' = IF mem'.loopId = 0 THEN loops
               ELSE [loops EXCEPT ![1] = [NoLoop EXCEPT !.pc = "top"]]
  BY DEF Start
<1> HIDE DEF c, m
<1>6. mem' \in MemType /\ mem'.loopId \in {0, 1} /\ mem'.cancel = mem'.loopId
  BY <1>3, <1>4, StartLoopEffect, LifecycleAssumption
<1>7. /\ loops' \in [LoopId -> LoopType]
      /\ \A l \in LoopId : \/ loops'[l] = NoLoop
                           \/ l <= mem'.loopId /\ loops'[l].pc = "top"
  <2>1. /\ [NoLoop EXCEPT !.pc = "top"] \in LoopType
        /\ [NoLoop EXCEPT !.pc = "top"].pc = "top"
    BY DEF NoLoop, LoopType, LoopStage
  <2> QED
    BY <1>1, <1>5, <1>6, <2>1, BlankTypes, LifecycleAssumption DEF Down, LoopId
<1>8. up' = TRUE /\ user' = NoCommand /\ rejected' = {} /\ UNCHANGED <<server, keyring, db, budget, halfway>>
  BY <1>1 DEF Start, Down
<1>9. ServerTypes' /\ ServerSane' /\ BudgetTypes' /\ DiskTypes'
  BY <1>2, <1>8, ServerUntouched, BudgetUntouched, TypesSplit DEF TypeInv, DiskTypes, BudgetTypes
<1>10. ProcessTypes'
  BY <1>6, <1>7, <1>8, BlankTypes DEF ProcessTypes
<1>11. CommandsSane'
  BY <1>6, <1>7, <1>8 DEF CommandsSane, NoCommand, NoLoop, Connecting, Late, LoopId
<1> QED
  BY <1>9, <1>10, <1>11, TypesSplit DEF TypeInv

LEMMA OutsideTypes ==
  ASSUME TypeInv, LocalOperation \/ World
  PROVE  TypeInv'
<1>1. ASSUME ServerTypes', ServerSane', DiskTypes', rejected' \in SUBSET Token,
             up \/ rejected' = rejected,
             upsets' \in 0 .. MaxUpsets,
             UNCHANGED <<up, mem, loops, user, halfway, steps, faults>>
      PROVE  TypeInv'
  <2>1. ProcessTypes' /\ BudgetTypes'
    BY <1>1, TypesSplit DEF TypeInv, ProcessTypes, BudgetTypes
  <2>2. CommandsSane'
    BY <1>1 DEF TypeInv, CommandsSane, Down
  <2> QED
    BY <1>1, <2>1, <2>2, TypesSplit DEF TypeInv
<1>2. upsets \in 0 .. MaxUpsets /\ rejected \in SUBSET Token /\ db \in DbType
  BY TypesSplit DEF TypeInv, BudgetTypes, ProcessTypes, DiskTypes
<1>3. CASE LocalOperation
  <2>1. mem.conn \in accepted => of[mem.conn] \in Life
    BY DEF TypeInv, ServerSane
  <2>2. db' \in DbType /\ rejected' \in SUBSET Token /\ rooted' \in SUBSET Life
    <3>1. CASE mem.conn \in accepted
      <4>1. PICK i \in SUBSET (db.index \cup {of[mem.conn]}) : db' = [db EXCEPT !.index = i]
        BY <1>3, <3>1 DEF LocalOperation
      <4>2. i \in SUBSET Life
        BY <1>2, <2>1, <3>1, <4>1 DEF DbType
      <4> QED
        BY <1>2, <1>3, <2>1, <3>1, <4>1, <4>2, TypesSplit
           DEF LocalOperation, DbType, TypeInv, ServerTypes
    <3>2. CASE mem.conn \notin accepted
      BY <1>2, <1>3, <3>2, ReportType, TypesSplit DEF LocalOperation, TypeInv, ServerTypes
    <3> QED
      BY <3>1, <3>2
  <2>3. ServerTypes' /\ ServerSane' /\ DiskTypes'
    BY <1>3, <2>2, TypesSplit
       DEF LocalOperation, TypeInv, ServerTypes, DiskTypes, ServerSane, LifeOf
  <2> QED
    BY <1>1, <1>2, <1>3, <2>2, <2>3 DEF LocalOperation, budget
<1>4. ASSUME NEW w \in Workspace, PeerCreates(w) PROVE TypeInv'
  <2>1. /\ gen' \in [Workspace -> 0 .. MaxGens] /\ present' \in SUBSET Workspace
        /\ gen'[w] \in 1 .. MaxGens
        /\ \A v \in present : v \in present' /\ gen'[v] = gen[v]
        /\ \A v \in present' : v # w => v \in present
    BY <1>4, LifecycleAssumption DEF PeerCreates, TypeInv, StateOK
  <2>2. ServerTypes' /\ DiskTypes'
    BY <1>4, <2>1, TypesSplit DEF PeerCreates, disk, TypeInv, ServerTypes, DiskTypes
  <2>3. \A v \in present : LifeOf(v)' = LifeOf(v)
    BY <2>1 DEF LifeOf
  <2>3a. \A v \in present' : gen'[v] # 0
    BY <1>4, <2>1, LifecycleAssumption DEF PeerCreates, TypeInv, ServerSane
  <2>3b. ServerSane'
    BY <1>4, <2>1, <2>3, <2>3a DEF PeerCreates, TypeInv, ServerSane
  <2>4. upsets' \in 0 .. MaxUpsets
    BY <1>2, <1>4, LifecycleAssumption DEF PeerCreates
  <2> QED
    BY <1>1, <1>2, <1>4, <2>2, <2>3b, <2>4 DEF PeerCreates
<1>5. ASSUME NEW w \in Workspace, PeerAddsRoot(w) PROVE TypeInv'
  <2>1. LifeOf(w) \in Life
    BY <1>5, PresentLife DEF PeerAddsRoot
  <2>2. ServerTypes' /\ DiskTypes'
    BY <1>5, <2>1, TypesSplit DEF PeerAddsRoot, disk, TypeInv, ServerTypes, DiskTypes
  <2>3. ServerSane'
    BY <1>5 DEF PeerAddsRoot, TypeInv, ServerSane, LifeOf
  <2> QED
    BY <1>1, <1>2, <1>5, <2>2, <2>3 DEF PeerAddsRoot, budget
<1>6. ASSUME NEW w \in Workspace, Purge(w) PROVE TypeInv'
  <2>1. ServerTypes' /\ DiskTypes'
    BY <1>6, TypesSplit DEF Purge, disk, TypeInv, ServerTypes, DiskTypes
  <2>2. ServerSane'
    <3>1. \A t \in accepted' : t \in accepted /\ of[t] # None /\ of[t].ws # w
      BY <1>6, LifecycleAssumption DEF Purge, TypeInv, ServerSane, Life
    <3> QED
      BY <1>6, <3>1 DEF Purge, TypeInv, ServerSane, LifeOf
  <2> QED
    BY <1>1, <1>2, <1>6, <2>1, <2>2 DEF Purge, budget
<1>7. ASSUME NEW t \in Token, TokenLapses(t) PROVE TypeInv'
  <2>1. ServerTypes' /\ DiskTypes'
    BY <1>7, TypesSplit DEF TokenLapses, disk, TypeInv, ServerTypes, DiskTypes
  <2>2. ServerSane'
    BY <1>7 DEF TokenLapses, TypeInv, ServerSane, LifeOf
  <2>3. upsets' \in 0 .. MaxUpsets
    BY <1>2, <1>7, LifecycleAssumption DEF TokenLapses
  <2> QED
    BY <1>1, <1>2, <1>7, <2>1, <2>2, <2>3 DEF TokenLapses
<1> QED
  BY <1>3, <1>4, <1>5, <1>6, <1>7 DEF World

\* Steps of a loop that write nothing, or the state database only.
LEMMA QuietLoopTypes ==
  ASSUME TypeInv, NEW l \in LoopId, loops[l].pc # "none",
         loops' \in [LoopId -> LoopType],
         \A k \in LoopId : k # l => loops'[k] = loops[k],
         loops'[l].pc = "finish" => loops'[l].life \in Life,
         db' \in DbType, rejected' \in SUBSET Token,
         mem' \in MemType, mem'.loopId = mem.loopId, mem'.cancel = mem.cancel,
         UNCHANGED <<server, cfg, keyring, up, user, halfway, budget>>
  PROVE  TypeInv'
<1>1. ServerTypes' /\ ServerSane' /\ DiskTypes' /\ BudgetTypes'
  BY ServerUntouched, BudgetUntouched, TypesSplit DEF TypeInv, DiskTypes, BudgetTypes
<1> QED
  BY <1>1, LoopStepTypes

\* So is what a catch-up leaves.
LEMMA CatchesUpTypes ==
  ASSUME TypeInv
  PROVE  /\ \A state \in ConnectionState : CatchesUp(state) => db' \in DbType
         /\ CatchUpFails => db' \in DbType
         /\ Dialed => db' \in DbType
<1>1. db \in DbType
  BY TypesSplit DEF TypeInv, DiskTypes
<1>2. ASSUME NEW state \in ConnectionState, CatchesUp(state)
      PROVE  db' \in DbType
  <2>1. PICK i \in SUBSET Life : db' = [db EXCEPT !.index = i, !.state = state]
    BY <1>2, FollowedType DEF CatchesUp
  <2> QED
    BY <1>1, <2>1 DEF DbType
<1>3. ASSUME CatchUpFails PROVE db' \in DbType
  BY <1>1, <1>2, <1>3 DEF CatchUpFails, DbType
<1>4. ASSUME Dialed PROVE db' \in DbType
  BY <1>1, <1>4 DEF Dialed, DbType, ConnectionState
<1> QED
  BY <1>2, <1>3, <1>4

LEMMA HandshakeTypes ==
  ASSUME TypeInv, NEW l \in LoopId,
         \/ LoopTurns(l) \/ LoopTakesSync(l) \/ LoopUsesCached(l)
         \/ LoopStartsSession(l) \/ LoopFinishRefused(l)
         \/ LoopFinishesSession(l)
  PROVE  TypeInv'
<1> USE DEF disk
<1>1. /\ mem \in MemType /\ loops \in [LoopId -> LoopType] /\ user \in UserType
      /\ rejected \in SUBSET Token /\ db \in DbType
  BY TypesSplit DEF TypeInv, ProcessTypes, DiskTypes
<1>2. {"exit", "want_sync", "backoff", "session", "finish", "dial"} \subseteq LoopStage
      /\ {"unauthorized", "not_found", "transport"} \subseteq Error
  BY DEF LoopStage, InSync, Error
<1>3. CASE LoopTurns(l)
  <2>1. PICK pc \in {"exit", "want_sync"} : Goes(l, pc)
    BY <1>3 DEF LoopTurns
  <2> QED
    BY <1>1, <1>2, <1>3, <2>1, GoesEffect, QuietLoopTypes DEF LoopTurns
<1>4. CASE LoopTakesSync(l)
  <2>1. PICK pc \in {"backoff", "session"} : Goes(l, pc)
    BY <1>4 DEF LoopTakesSync
  <2> QED
    BY <1>1, <1>2, <1>4, <2>1, GoesEffect, QuietLoopTypes DEF LoopTakesSync
<1>5. CASE LoopUsesCached(l)
  <2>1. mem' \in MemType /\ mem'.loopId = mem.loopId /\ mem'.cancel = mem.cancel
    BY <1>1, <1>5 DEF LoopUsesCached, MemType, DbType
  <2> QED
    BY <1>1, <1>2, <1>5, <2>1, GoesEffect, QuietLoopTypes DEF LoopUsesCached
<1>6. CASE LoopStartsSession(l)
  <2>1. CASE \E e \in Error : Fails(l, e)
    BY <1>1, <1>6, <2>1, FailsEffect, QuietLoopTypes DEF LoopStartsSession
  <2>2. CASE ~ \E e \in Error : Fails(l, e)
    <3>1. mem.cfg \in present /\ LifeOf(mem.cfg) \in Life
      BY <1>2, <1>6, <2>2, PresentLife DEF LoopStartsSession
    <3>2. loops' = [loops EXCEPT ![l].pc = "finish", ![l].life = LifeOf(mem.cfg)]
      BY <1>2, <1>6, <2>2 DEF LoopStartsSession
    <3>3. /\ loops' \in [LoopId -> LoopType] /\ loops'[l].life \in Life
          /\ \A k \in LoopId : k # l => loops'[k] = loops[k]
      BY <1>1, <1>2, <3>1, <3>2 DEF LoopType
    <3> QED
      BY <1>1, <1>6, <3>3, QuietLoopTypes DEF LoopStartsSession
  <2> QED
    BY <2>1, <2>2
<1>7. CASE LoopFinishRefused(l)
  BY <1>1, <1>2, <1>7, FailsEffect, QuietLoopTypes DEF LoopFinishRefused
<1>8. CASE LoopFinishesSession(l)
  <2> DEFINE t == NewToken
  <2>1. t \in Token /\ t \notin Held /\ loops[l].life \in Life
    BY <1>8, NewTokenIsNew DEF LoopFinishesSession, TypeInv, CommandsSane
  <2>2. Issue(t, loops[l].life) /\ ChallengeStands(loops[l].life)
    BY <1>8 DEF LoopFinishesSession
  <2>3. mem' = [mem EXCEPT !.conn = t]
    BY <1>8 DEF LoopFinishesSession
  <2>4. \/ /\ db' = [db EXCEPT !.token = t, !.state = "syncing"]
           /\ loops' = [loops EXCEPT ![l].pc = "dial", ![l].life = None]
           /\ faults' = faults
        \/ /\ faults < MaxFaults /\ faults' = faults + 1
           /\ Fails(l, "transport") /\ db' = db
    BY <1>8 DEF LoopFinishesSession
  <2> HIDE DEF t
  <2>5. ServerTypes' /\ ServerSane'
    BY <1>8, <2>1, <2>2, IssueTypes DEF LoopFinishesSession
  <2>6. mem' \in MemType /\ mem'.loopId = mem.loopId /\ mem'.cancel = mem.cancel
    BY <1>1, <2>1, <2>3 DEF MemType
  <2>7. db' \in DbType
    BY <1>1, <2>1, <2>4 DEF DbType, ConnectionState
  <2>8. faults' \in 0 .. MaxFaults
    BY <2>4, LifecycleAssumption DEF TypeInv, StateOK
  <2>9. DiskTypes' /\ BudgetTypes'
    BY <1>8, <2>7, <2>8, TypesSplit DEF LoopFinishesSession, TypeInv, DiskTypes, BudgetTypes
  <2>10. /\ loops' \in [LoopId -> LoopType] /\ loops'[l].pc \in {"dial", "failed"}
         /\ \A k \in LoopId : k # l => loops'[k] = loops[k]
    <3>1. CASE Fails(l, "transport")
      BY <1>1, <1>2, <3>1, FailsEffect
    <3>2. CASE loops' = [loops EXCEPT ![l].pc = "dial", ![l].life = None]
      BY <1>1, <1>2, <3>2 DEF LoopType
    <3> QED
      BY <2>4, <3>1, <3>2
  <2>11. rejected' \in SUBSET Token /\ UNCHANGED <<up, user>> /\ loops[l].pc # "none"
    BY <1>8 DEF LoopFinishesSession
  <2> QED
    BY <2>5, <2>6, <2>9, <2>10, <2>11, LoopStepTypes
<1> QED
  BY <1>3, <1>4, <1>5, <1>6, <1>7, <1>8

LEMMA StreamTypes ==
  ASSUME TypeInv, NEW l \in LoopId,
         \/ LoopDials(l) \/ LoopSyncs(l) \/ LoopCatchesUp(l)
         \/ LoopRefused(l) \/ LoopHearsNothing(l) \/ LoopEndsStream(l)
         \/ LoopHearsRejection(l) \/ LoopWakes(l) \/ LoopPanics(l)
  PROVE  TypeInv'
<1> USE DEF disk
<1>1. /\ mem \in MemType /\ loops \in [LoopId -> LoopType] /\ user \in UserType
      /\ rejected \in SUBSET Token /\ db \in DbType
  BY TypesSplit DEF TypeInv, ProcessTypes, DiskTypes
<1>2. {"sync", "live", "woken"} \subseteq LoopStage /\ db.state \in ConnectionState
      /\ Error = {"canceled", "renewal", "unauthorized", "not_found", "transport"}
      /\ "live" \in ConnectionState
  BY <1>1 DEF LoopStage, InSync, Streaming, Error, DbType, ConnectionState
<1>3. CASE LoopDials(l)
  <2>1. mem.conn \in Token /\ db' \in DbType
    BY <1>3, CatchesUpTypes DEF LoopDials, TypeInv, StateOK
  <2>2. loops' = [loops EXCEPT ![l].pc = "sync", ![l].token = mem.conn]
    BY <1>3 DEF LoopDials
  <2>3. /\ loops' \in [LoopId -> LoopType] /\ loops'[l].pc = "sync"
        /\ \A k \in LoopId : k # l => loops'[k] = loops[k]
    BY <1>1, <1>2, <2>1, <2>2 DEF LoopType
  <2> QED
    BY <1>1, <1>3, <2>1, <2>3, QuietLoopTypes DEF LoopDials
<1>4. CASE LoopSyncs(l)
  BY <1>1, <1>2, <1>4, GoesEffect, CatchesUpTypes, QuietLoopTypes DEF LoopSyncs
<1>5. CASE LoopCatchesUp(l)
  BY <1>1, <1>2, <1>5, GoesEffect, CatchesUpTypes, QuietLoopTypes
     DEF LoopCatchesUp, CanCatchUp
<1>6. CASE LoopRefused(l)
  <2>1. db' \in DbType /\ loops[l].pc # "none" /\ rejected' \in SUBSET Token
    BY <1>6, CatchesUpTypes, ReportType DEF LoopRefused, CanCatchUp
  <2> QED
    BY <1>1, <1>2, <1>6, <2>1, FailsEffect, QuietLoopTypes DEF LoopRefused
<1>7. CASE LoopHearsNothing(l)
  <2>1. db' \in DbType /\ loops[l].pc # "none"
    BY <1>1, <1>7, CatchesUpTypes DEF LoopHearsNothing, CanCatchUp
  <2>2. \E e \in Error : Fails(l, e)
    BY <1>2, <1>7 DEF LoopHearsNothing
  <2> QED
    BY <1>1, <1>7, <2>1, <2>2, FailsEffect, QuietLoopTypes DEF LoopHearsNothing
<1>8. CASE LoopEndsStream(l)
  <2>1. \E e \in Error : Fails(l, e)
    BY <1>2, <1>8 DEF LoopEndsStream
  <2> QED
    BY <1>1, <1>8, <2>1, FailsEffect, QuietLoopTypes DEF LoopEndsStream
<1>9. CASE LoopHearsRejection(l)
  <2>1. Fails(l, "unauthorized") \/ loops' = loops
    BY <1>9 DEF LoopHearsRejection
  <2>2. rejected' \in SUBSET Token /\ loops[l].pc = "live"
    BY <1>1, <1>9 DEF LoopHearsRejection
  <2> QED
    BY <1>1, <1>2, <1>9, <2>1, <2>2, FailsEffect, QuietLoopTypes DEF LoopHearsRejection
<1>10. CASE LoopWakes(l)
  BY <1>1, <1>2, <1>10, GoesEffect, QuietLoopTypes DEF LoopWakes
<1>11. CASE LoopPanics(l)
  BY <1>11, GoneTypes, TypesSplit DEF LoopPanics, budget, TypeInv, BudgetTypes
<1> QED
  BY <1>3, <1>4, <1>5, <1>6, <1>7, <1>8, <1>9, <1>10, <1>11

\* What a loop makes of an error.
LEMMA AfterEffect ==
  ASSUME NEW l \in LoopId, LoopTurnsFailed(l)
  PROVE  /\ After(l) \in {"exit", "top", "gone", "backoff"}
         /\ After(l) = "exit" <=> loops[l].err = "canceled"
         /\ After(l) = "gone" <=> loops[l].err = "not_found"
  BY DEF After

LEMMA PurgeTypes ==
  ASSUME TypeInv, NEW l \in LoopId,
         \/ LoopTurnsFailed(l) \/ LoopWaits(l) \/ LoopAnnouncesPurge(l)
         \/ LoopClearsState(l) \/ LoopClearsConfig(l) \/ LoopEndsPurge(l)
         \/ LoopExits(l)
  PROVE  TypeInv'
<1> USE DEF disk
<1>1. /\ mem \in MemType /\ loops \in [LoopId -> LoopType] /\ user \in UserType
      /\ rejected \in SUBSET Token /\ db \in DbType
  BY TypesSplit DEF TypeInv, ProcessTypes, DiskTypes
<1>2. /\ {"exit", "top", "gone", "backoff", "purge", "purge_cfg", "purge_wait",
          "purged"} \subseteq LoopStage
      /\ {"degraded", "purged"} \subseteq ConnectionState
  BY DEF LoopStage, ConnectionState
<1>3. CASE LoopTurnsFailed(l)
  <2>1. db' \in DbType
    BY <1>1, <1>2, <1>3, AfterEffect DEF LoopTurnsFailed, DbType
  <2>2. After(l) \in LoopStage /\ Goes(l, After(l)) /\ After(l) # "finish"
    BY <1>2, <1>3, AfterEffect DEF LoopTurnsFailed
  <2> QED
    BY <1>1, <1>3, <2>1, <2>2, GoesEffect, QuietLoopTypes DEF LoopTurnsFailed
<1>4. CASE LoopWaits(l)
  <2>1. PICK pc \in {"exit", "top", "purge"} : Goes(l, pc)
    BY <1>4 DEF LoopWaits
  <2> QED
    BY <1>1, <1>2, <1>4, <2>1, GoesEffect, QuietLoopTypes DEF LoopWaits
<1>5. CASE LoopAnnouncesPurge(l)
  <2>1. mem' \in MemType /\ mem'.loopId = mem.loopId /\ mem'.cancel = mem.cancel
    <3>1. TRUE \in BOOLEAN
      OBVIOUS
    <3> QED
      BY <1>1, <1>5, <3>1, Zenon DEF LoopAnnouncesPurge, MemType
  <2> QED
    BY <1>1, <1>2, <1>5, <2>1, GoesEffect, QuietLoopTypes DEF LoopAnnouncesPurge
<1>6. CASE LoopClearsState(l)
  BY <1>1, <1>2, <1>6, ClearedTypes, GoesEffect, QuietLoopTypes DEF LoopClearsState
<1>7. CASE LoopClearsConfig(l)
  <2>1. PICK pc \in {"purged", "purge_wait"} : Goes(l, pc)
    BY <1>7 DEF LoopClearsConfig
  <2>2. ServerTypes' /\ ServerSane'
    BY <1>7, ServerUntouched DEF LoopClearsConfig
  <2>3. DiskTypes'
    BY <1>7, TypesSplit DEF LoopClearsConfig, TypeInv, DiskTypes
  <2>4. faults' \in 0 .. MaxFaults
    BY <1>7, LifecycleAssumption DEF LoopClearsConfig, TypeInv, StateOK
  <2>5. BudgetTypes'
    BY <1>7, <2>4, TypesSplit DEF LoopClearsConfig, TypeInv, BudgetTypes
  <2>6. mem' \in MemType /\ mem'.loopId = mem.loopId /\ mem'.cancel \in {0, mem.cancel}
    <3>1. TRUE \in BOOLEAN
      OBVIOUS
    <3>2. 0 \in 0 .. MaxLoops
      BY LifecycleAssumption
    <3>3. CASE mem' = mem
      BY <1>1, <3>3
    <3>4. CASE mem' = [mem EXCEPT !.cfg = None, !.keys = None, !.conn = None,
                                  !.intentional = TRUE, !.cancel = 0]
      BY <1>1, <3>1, <3>2, <3>4, Zenon DEF MemType
    <3> QED
      BY <1>7, <3>3, <3>4 DEF LoopClearsConfig
  <2> QED
    BY <1>1, <1>2, <1>7, <2>1, <2>2, <2>3, <2>5, <2>6, GoesEffect, LoopStepTypes
       DEF LoopClearsConfig
<1>8. CASE LoopEndsPurge(l)
  <2>1. mem' \in MemType /\ mem'.loopId = mem.loopId /\ mem'.cancel = mem.cancel
    <3>1. FALSE \in BOOLEAN
      OBVIOUS
    <3> QED
      BY <1>1, <1>8, <3>1, Zenon DEF LoopEndsPurge, MemType
  <2> QED
    BY <1>1, <1>2, <1>8, <2>1, GoesEffect, QuietLoopTypes DEF LoopEndsPurge
<1>9. CASE LoopExits(l)
  <2>1. mem' \in MemType /\ mem'.loopId = mem.loopId /\ mem'.cancel \in {0, mem.cancel}
    BY <1>1, <1>9, LifecycleAssumption DEF LoopExits, Released, MemType
  <2>2. ServerTypes' /\ ServerSane' /\ DiskTypes' /\ BudgetTypes'
    BY <1>9, ServerUntouched, BudgetUntouched, TypesSplit
       DEF LoopExits, TypeInv, DiskTypes, BudgetTypes
  <2>3. /\ loops' \in [LoopId -> LoopType] /\ loops'[l] = NoLoop
        /\ \A k \in LoopId : k # l => loops'[k] = loops[k]
    BY <1>1, <1>9, BlankTypes DEF LoopExits
  <2> QED
    BY <1>1, <1>9, <2>1, <2>2, <2>3, LoopStepTypes DEF LoopExits, NoLoop
<1> QED
  BY <1>3, <1>4, <1>5, <1>6, <1>7, <1>8, <1>9

LEMMA TypeInvNext == TypeInv /\ [Next]_vars => TypeInv'
<1> SUFFICES ASSUME TypeInv, [Next]_vars PROVE TypeInv'
  OBVIOUS
<1>1. ASSUME NEW l \in LoopId, LoopStep(l) PROVE TypeInv'
  BY <1>1, HandshakeTypes, StreamTypes, PurgeTypes DEF LoopStep
<1>2. CASE UNCHANGED vars
  <2>1. ServerTypes' /\ ServerSane'
    BY <1>2, ServerUntouched DEF vars
  <2>2. DiskTypes' /\ ProcessTypes' /\ BudgetTypes' /\ CommandsSane'
    BY <1>2, TypesSplit
       DEF vars, disk, budget, TypeInv, DiskTypes, ProcessTypes, BudgetTypes, CommandsSane, Down
  <2> QED
    BY <2>1, <2>2, TypesSplit DEF TypeInv
<1> QED
  BY <1>1, <1>2, ConnectTypes, ConnectStepTypes, DisconnectTypes, DisconnectStepTypes,
     StartTypes, DieTypes, OutsideTypes DEF Next

\* What is only remembered is not taken back: haste, and an overtaken 404.
Remembered == (hasty => hasty') /\ (overtaken => overtaken')

\* A life is remembered as a session is got for it, until it is given up.
Sessions ==
  \/ had' = had \/ had' = {}
  \/ ConnectFinish /\ had' = had \cup {user.life}
  \/ \E l \in LoopId : LoopFinishesSession(l) /\ had' = had \cup {loops[l].life}

\* How the history variables move.
LEMMA PastMoves ==
  ASSUME [Next]_vars
  PROVE  Remembered /\ Sessions /\ (PastOK => hasty' \in BOOLEAN /\ overtaken' \in BOOLEAN)
<1> DEFINE Kept == UNCHANGED past
<1>1. Kept => Remembered /\ Sessions /\ (PastOK => hasty' \in BOOLEAN /\ overtaken' \in BOOLEAN)
  BY DEF past, Remembered, Sessions, PastOK
<1>2. ASSUME NEW w \in Workspace, NEW create \in BOOLEAN, Connect(w, create)
      PROVE  had' = had /\ overtaken' = overtaken /\ (hasty' = hasty \/ hasty' = TRUE)
  BY <1>2 DEF Connect, Chooses
<1>3. ConnectStep => ConnectFinish \/ Kept
  BY DEF ConnectStep, ConnectGivesUp, ConnectStoresKeyring, ConnectStoresState,
         ConnectBootstraps, ConnectBootstrapFails, ConnectStartsLoop
<1>4. ConnectFinish => /\ had' = had \cup {user.life} /\ hasty' = hasty
                       /\ overtaken' = (overtaken \/ \E l \in LoopId : HoldsNotFound(l))
  BY DEF ConnectFinish
<1>5. DisconnectStep => \/ Kept
                        \/ /\ had' = had \/ had' = {}
                           /\ hasty' = hasty /\ overtaken' = overtaken
  BY DEF DisconnectStep, DisconnectClearsKeyring, DisconnectClearsState, Stop
<1>6. Disconnect \/ Start \/ Die \/ LocalOperation \/ World => Kept
  BY DEF Disconnect, Start, Die, LocalOperation, World, PeerCreates, PeerAddsRoot,
         Purge, TokenLapses
<1>7. ASSUME NEW l \in LoopId, LoopStep(l)
      PROVE  \/ Kept
             \/ LoopFinishesSession(l)
             \/ had' = {} /\ hasty' = hasty /\ overtaken' = overtaken
  BY <1>7 DEF LoopStep, LoopTurns, LoopTakesSync, LoopUsesCached, LoopStartsSession,
     LoopFinishRefused, LoopDials, LoopSyncs, LoopCatchesUp, LoopRefused,
     LoopHearsNothing, LoopEndsStream, LoopHearsRejection, LoopWakes, LoopPanics,
     LoopTurnsFailed, LoopWaits, LoopAnnouncesPurge, LoopClearsState,
     LoopClearsConfig, LoopEndsPurge, LoopExits
<1>8. ASSUME NEW l \in LoopId, LoopFinishesSession(l)
      PROVE  had' = had \cup {loops[l].life} /\ hasty' = hasty /\ overtaken' = overtaken
  BY <1>8 DEF LoopFinishesSession
<1>9. UNCHANGED vars => Kept
  BY DEF vars, past
<1> HIDE DEF Kept
<1>10. CASE \E w \in Workspace, create \in BOOLEAN : Connect(w, create)
  BY <1>2, <1>10 DEF Remembered, Sessions, PastOK
<1>11. CASE ConnectStep
  <2>1. CASE ConnectFinish
    <3>1. Sessions
      BY <1>4, <2>1 DEF Sessions
    <3>2. Remembered
      <4>1. overtaken => overtaken'
        <5>1. ASSUME overtaken PROVE overtaken' = TRUE
          BY <1>4, <2>1, <5>1
        <5> QED
          BY <5>1
      <4> QED
        BY <1>4, <2>1, <4>1 DEF Remembered
    <3>3. overtaken' \in BOOLEAN
      BY <1>4, <2>1
    <3>4. PastOK => hasty' \in BOOLEAN
      BY <1>4, <2>1 DEF PastOK
    <3> QED
      BY <3>1, <3>2, <3>3, <3>4
  <2> QED
    BY <1>1, <1>3, <1>11, <2>1
<1>12. CASE DisconnectStep
  BY <1>1, <1>5, <1>12 DEF Remembered, Sessions, PastOK
<1>13. ASSUME NEW l \in LoopId, LoopStep(l)
       PROVE  Remembered /\ Sessions /\ (PastOK => hasty' \in BOOLEAN /\ overtaken' \in BOOLEAN)
  <2>1. CASE LoopFinishesSession(l)
    BY <1>8, <2>1 DEF Remembered, Sessions, PastOK
  <2>2. CASE had' = {} /\ hasty' = hasty /\ overtaken' = overtaken
    BY <2>2 DEF Remembered, Sessions, PastOK
  <2> QED
    BY <1>1, <1>7, <1>13, <2>1, <2>2
<1> QED
  BY <1>1, <1>6, <1>9, <1>10, <1>11, <1>12, <1>13 DEF Next

\* Of what the device got a session for, lives are remembered.
LEMMA PastNext ==
  ASSUME TypeInv, PastOK, [Next]_vars
  PROVE  PastOK'
<1>1. ConnectFinish => user.life \in Life
  BY DEF ConnectFinish, TypeInv, CommandsSane, Connecting
<1>2. \A l \in LoopId : LoopFinishesSession(l) => loops[l].life \in Life
  BY DEF LoopFinishesSession, TypeInv, CommandsSane
<1>3. had' \in SUBSET Life
  BY <1>1, <1>2, PastMoves DEF Sessions, PastOK
<1> QED
  BY <1>3, PastMoves DEF PastOK

\* Types, whatever the user does: a loop beyond MaxLoops is never started, and
\* a session is only ever accepted for a life the workspace has.
THEOREM TypeCorrect == Spec => []TypeOK
<1>1. Init => PastOK
  BY DEF Init, PastOK
<1>2. TypeInv /\ PastOK /\ [Next]_vars => PastOK'
  BY PastNext
<1>3. TypeInv /\ PastOK => TypeOK
  BY DEF TypeInv, TypeOK
<1> QED
  BY <1>1, <1>2, <1>3, TypeInvInit, TypeInvNext, PTL DEF Spec

-----------------------------------------------------------------------------
(***************************************************************************)
(* One loop, with an identity, for a user who disconnects before he        *)
(* connects to something else.                                             *)
(***************************************************************************)
Identified == None \notin {mem.cfg, mem.keys, mem.conn}

\* What disconnect leaves of the fields of Daemon.
Forgotten == mem.cfg = None /\ mem.keys = None /\ mem.conn = None /\ mem.intentional

\* The loop that runs is the one that can be cancelled, and then there is an
\* identity and no command in the middle of its writes.
RunningLoop ==
  /\ \A l \in LoopId : Runs(l) <=> l = mem.cancel
  /\ mem.cancel # 0 =>
       Identified /\ user.pc \notin Connecting \cup Disconnecting \cup {"stop"}

\* A loop that was told to stop has nothing to sync with, and no command
\* connects before it has ended.
StoppedLoops ==
  \A l \in LoopId :
    /\ loops[l].canceled =>
         /\ Forgotten /\ loops[l].pc \notin InSync
         /\ user.pc \notin Connecting
    /\ loops[l].pc = "failed" /\ loops[l].err = "canceled" => loops[l].canceled

OneAtWork ==
  \A k, l \in LoopId : loops[k].pc \notin Ended /\ loops[l].pc \notin Ended => k = l

\* A command's own fields, and that an identity with no loop is what a command
\* that was cut short leaves.
CommandFields ==
  /\ user.pc \in Late =>
       mem.cfg = user.ws /\ mem.keys = user.ws /\ mem.conn = user.token
  /\ user.pc \in Disconnecting \cup {"stop"} => Forgotten
  /\ up /\ user.pc \in {"idle", "c_finish"} /\ ~halfway /\ Identified => mem.cancel # 0

LoopsSane == RunningLoop /\ StoppedLoops /\ OneAtWork /\ CommandFields

\* The fields the invariant speaks of.
SameMemory ==
  /\ mem'.cfg = mem.cfg /\ mem'.keys = mem.keys /\ mem'.conn = mem.conn
  /\ mem'.intentional = mem.intentional /\ mem'.cancel = mem.cancel

\* The cancel function is that of a loop, or of none: zero is no loop.
LEMMA CancelIsNoLoopAtZero ==
  ASSUME TypeInv
  PROVE  0 \notin LoopId /\ mem.cancel \in 0 .. MaxLoops /\ mem.loopId \in 0 .. MaxLoops
  BY DEF LoopId, TypeInv, StateOK

LEMMA LoopsSaneInit == Init => LoopsSane
<1> SUFFICES ASSUME Init PROVE LoopsSane
  OBVIOUS
<1>1. \A l \in LoopId : loops[l].pc = "none" /\ ~loops[l].canceled
  BY DEF Init, NoLoop
<1>2. mem.cancel = 0 /\ mem.cfg = None /\ up = FALSE /\ user.pc = "idle"
  BY DEF Init, NoMemory, NoCommand
<1> QED
  BY <1>1, <1>2
     DEF LoopsSane, RunningLoop, StoppedLoops, OneAtWork, CommandFields, Runs, Ended,
         LoopId, Connecting, Disconnecting, Late

\* A loop that was under way goes on, or was told to stop and ends.
LEMMA LoopProceeds ==
  ASSUME TypeInv, TypeInv', LoopsSane, NEW l \in LoopId,
         loops[l].pc \notin Ended,
         \A k \in LoopId : k # l => loops'[k] = loops[k],
         loops'[l].canceled = loops[l].canceled,
         \/ loops'[l].pc \notin Ended
         \/ loops[l].canceled /\ loops'[l].pc = "exit",
         loops[l].canceled => loops'[l].pc \notin InSync,
         loops'[l].pc = "failed" /\ loops'[l].err = "canceled" => loops[l].canceled,
         mem'.cfg = mem.cfg, mem'.keys = mem.keys,
         mem'.intentional = mem.intentional, mem'.cancel = mem.cancel,
         mem'.conn = mem.conn \/ (~loops[l].canceled /\ mem'.conn # None),
         UNCHANGED <<up, user, halfway>>
  PROVE  LoopsSane'
<1> USE DEF LoopsSane
<1>0. ~loops[l].canceled => l = mem.cancel /\ mem.cancel # 0
  BY CancelIsNoLoopAtZero DEF RunningLoop, Runs
<1>1. RunningLoop'
  <2>1. \A k \in LoopId : Runs(k)' <=> Runs(k)
    BY DEF Runs, Ended
  <2>2. Identified => Identified'
    BY DEF Identified
  <2> QED
    BY <2>1, <2>2 DEF RunningLoop
<1>2. StoppedLoops'
  <2>1. Forgotten /\ (\E k \in LoopId : loops[k].canceled) => Forgotten'
    BY <1>0 DEF Forgotten, RunningLoop, Identified
  <2> QED
    BY <2>1 DEF StoppedLoops
<1>3. OneAtWork'
  BY DEF OneAtWork, Ended
<1>4. CommandFields'
  <2>1. mem'.conn = mem.conn \/ user.pc \notin Late \cup Disconnecting \cup {"stop"}
    BY <1>0 DEF RunningLoop, Late
  <2>2. mem'.conn = mem.conn \/ mem.cancel # 0
    BY <1>0
  <2> QED
    BY <2>1, <2>2 DEF CommandFields, Forgotten, Identified
<1> QED
  BY <1>1, <1>2, <1>3, <1>4

\* Loops stay sane where neither memory, loops nor command change.
LEMMA NothingMoves ==
  ASSUME LoopsSane, SameMemory, UNCHANGED <<up, loops, user, halfway>>
  PROVE  LoopsSane'
  BY DEF LoopsSane, SameMemory, RunningLoop, Runs, StoppedLoops, OneAtWork, CommandFields,
         Identified, Forgotten

\* Every step of a loop but the last ones.
LEMMA LoopStepSane ==
  ASSUME TypeInv, TypeInv', LoopsSane, NEW l \in LoopId,
         \/ LoopTurns(l) \/ LoopTakesSync(l) \/ LoopUsesCached(l)
         \/ LoopStartsSession(l) \/ LoopFinishRefused(l)
         \/ LoopFinishesSession(l)
         \/ LoopDials(l) \/ LoopSyncs(l) \/ LoopCatchesUp(l)
         \/ LoopRefused(l) \/ LoopHearsNothing(l) \/ LoopEndsStream(l)
         \/ LoopHearsRejection(l) \/ LoopWakes(l)
         \/ LoopTurnsFailed(l) \/ LoopWaits(l) \/ LoopAnnouncesPurge(l)
         \/ LoopClearsState(l)
  PROVE  LoopsSane'
<1> USE DEF disk
<1>1. /\ mem \in MemType /\ loops \in [LoopId -> LoopType] /\ db \in DbType
  BY TypesSplit DEF TypeInv, ProcessTypes, DiskTypes
<1>2. /\ {"exit", "want_sync", "backoff", "session", "finish", "dial", "sync", "live",
          "woken", "top", "gone", "purge", "purge_cfg"} \subseteq LoopStage
      /\ Error = {"canceled", "renewal", "unauthorized", "not_found", "transport"}
  BY DEF LoopStage, InSync, Streaming, Error
<1>3. \A k \in LoopId : loops[k].pc \in InSync => ~loops[k].canceled
  BY DEF LoopsSane, StoppedLoops
<1>4. CASE LoopTurns(l)
  <2>1. PICK pc \in {"exit", "want_sync"} : Goes(l, pc) /\ (pc = "exit" <=> loops[l].canceled)
    BY <1>4 DEF LoopTurns
  <2> QED
    BY <1>1, <1>2, <1>4, <2>1, GoesEffect, LoopProceeds DEF LoopTurns, Ended, InSync
<1>5. CASE LoopTakesSync(l)
  <2>1. PICK pc \in {"backoff", "session"} :
          Goes(l, pc) /\ (mem.intentional => pc = "backoff")
    BY <1>5 DEF LoopTakesSync
  <2>2. loops[l].canceled => mem.intentional
    BY DEF LoopsSane, StoppedLoops, Forgotten
  <2> QED
    BY <1>1, <1>2, <1>5, <2>1, <2>2, GoesEffect, LoopProceeds DEF LoopTakesSync, Ended, InSync
<1>6. CASE LoopUsesCached(l)
  <2>1. ~loops[l].canceled /\ db.token # None
    BY <1>3, <1>6 DEF LoopUsesCached, Cached, InSync
  <2>2. /\ mem'.conn = db.token /\ mem'.cfg = mem.cfg /\ mem'.keys = mem.keys
        /\ mem'.intentional = mem.intentional /\ mem'.cancel = mem.cancel
    BY <1>1, <1>6 DEF LoopUsesCached, MemType
  <2> QED
    BY <1>1, <1>2, <1>6, <2>1, <2>2, GoesEffect, LoopProceeds
       DEF LoopUsesCached, Ended, InSync
<1>7. CASE LoopStartsSession(l)
  <2>1. ~loops[l].canceled /\ loops[l].pc \notin Ended
    BY <1>3, <1>7 DEF LoopStartsSession, InSync, Ended
  <2>2. CASE \E e \in {"not_found", "transport"} : Fails(l, e)
    BY <1>1, <1>2, <1>7, <2>1, <2>2, FailsEffect, LoopProceeds
       DEF LoopStartsSession, Ended, InSync
  <2>3. CASE loops' = [loops EXCEPT ![l].pc = "finish", ![l].life = LifeOf(mem.cfg)]
    <3>1. loops'[l].pc = "finish" /\ loops'[l].canceled = loops[l].canceled
      BY <1>1, <2>3 DEF LoopType
    <3>2. \A k \in LoopId : k # l => loops'[k] = loops[k]
      BY <1>1, <2>3
    <3> QED
      BY <1>7, <2>1, <3>1, <3>2, LoopProceeds DEF LoopStartsSession, Ended
  <2> QED
    BY <1>7, <2>2, <2>3 DEF LoopStartsSession
<1>8. CASE LoopFinishRefused(l)
  BY <1>1, <1>2, <1>8, FailsEffect, LoopProceeds DEF LoopFinishRefused, Ended, InSync
<1>9. CASE LoopFinishesSession(l)
  <2>1. ~loops[l].canceled /\ loops[l].pc \notin Ended
    BY <1>3, <1>9 DEF LoopFinishesSession, InSync, Ended
  <2>2. NewToken # None
    BY <1>9, NewTokenIsNew, LifecycleAssumption DEF LoopFinishesSession
  <2>3. /\ mem'.conn = NewToken /\ mem'.cfg = mem.cfg /\ mem'.keys = mem.keys
        /\ mem'.intentional = mem.intentional /\ mem'.cancel = mem.cancel
    BY <1>1, <1>9 DEF LoopFinishesSession, MemType
  <2>4. /\ loops'[l].pc = "dial" \/ (loops'[l].pc = "failed" /\ loops'[l].err = "transport")
        /\ loops'[l].canceled = loops[l].canceled
        /\ \A k \in LoopId : k # l => loops'[k] = loops[k]
    <3>1. CASE Fails(l, "transport")
      BY <1>1, <1>2, <3>1, FailsEffect
    <3>2. CASE loops' = [loops EXCEPT ![l].pc = "dial", ![l].life = None]
      BY <1>1, <1>2, <3>2 DEF LoopType
    <3> QED
      BY <1>9, <3>1, <3>2 DEF LoopFinishesSession
  <2> QED
    BY <1>9, <2>1, <2>2, <2>3, <2>4, LoopProceeds DEF LoopFinishesSession, Ended
<1>10. CASE LoopDials(l)
  <2>1. ~loops[l].canceled /\ loops[l].pc \notin Ended
    BY <1>3, <1>10 DEF LoopDials, InSync, Ended
  <2>2. loops' = [loops EXCEPT ![l].pc = "sync", ![l].token = mem.conn]
    BY <1>10 DEF LoopDials
  <2>3. /\ loops'[l].pc = "sync" /\ loops'[l].canceled = loops[l].canceled
        /\ \A k \in LoopId : k # l => loops'[k] = loops[k]
    BY <1>1, <2>2 DEF LoopType
  <2> QED
    BY <1>10, <2>1, <2>3, LoopProceeds DEF LoopDials, Ended
<1>11. CASE LoopSyncs(l) \/ LoopCatchesUp(l)
  BY <1>1, <1>2, <1>11, GoesEffect, LoopProceeds
     DEF LoopSyncs, LoopCatchesUp, CanCatchUp, Ended, InSync
<1>12. CASE LoopRefused(l)
  <2>1. loops[l].pc \notin Ended
    BY <1>12 DEF LoopRefused, CanCatchUp, Ended
  <2> QED
    BY <1>1, <1>2, <1>12, <2>1, FailsEffect, LoopProceeds DEF LoopRefused, Ended, InSync
<1>13. CASE LoopHearsNothing(l)
  <2>1. loops[l].pc \notin Ended
    BY <1>13 DEF LoopHearsNothing, CanCatchUp, Ended
  <2>2. \E e \in Error : Fails(l, e) /\ (e = "canceled" => loops[l].canceled)
    BY <1>2, <1>13 DEF LoopHearsNothing, Asks
  <2> QED
    BY <1>1, <1>2, <1>13, <2>1, <2>2, FailsEffect, LoopProceeds
       DEF LoopHearsNothing, Ended, InSync
<1>14. CASE LoopEndsStream(l)
  <2>1. \E e \in Error : Fails(l, e) /\ (e = "canceled" => loops[l].canceled)
    BY <1>2, <1>14 DEF LoopEndsStream
  <2> QED
    BY <1>1, <1>2, <1>14, <2>1, FailsEffect, LoopProceeds DEF LoopEndsStream, Ended, InSync
<1>15. CASE LoopHearsRejection(l)
  <2>1. Fails(l, "unauthorized") \/ loops' = loops
    BY <1>15 DEF LoopHearsRejection
  <2>2. loops[l].pc = "live" /\ UNCHANGED <<up, user, mem, halfway>>
    BY <1>15 DEF LoopHearsRejection
  <2>3. CASE loops' = loops
    BY <2>2, <2>3, NothingMoves DEF SameMemory
  <2>4. CASE Fails(l, "unauthorized")
    BY <1>1, <1>2, <2>2, <2>4, FailsEffect, LoopProceeds DEF Ended, InSync
  <2> QED
    BY <2>1, <2>3, <2>4
<1>16. CASE LoopWakes(l)
  BY <1>1, <1>2, <1>16, GoesEffect, LoopProceeds DEF LoopWakes, Ended, InSync
<1>17. CASE LoopTurnsFailed(l)
  <2>1. After(l) \in {"exit", "top", "gone", "backoff"} /\ Goes(l, After(l))
        /\ loops[l].pc = "failed"
        /\ (After(l) = "exit" => loops[l].canceled)
    BY <1>17, AfterEffect DEF LoopTurnsFailed, LoopsSane, StoppedLoops
  <2> QED
    BY <1>1, <1>2, <1>17, <2>1, GoesEffect, LoopProceeds DEF LoopTurnsFailed, Ended, InSync
<1>18. CASE LoopWaits(l)
  <2>1. PICK pc \in {"exit", "top", "purge"} :
          Goes(l, pc) /\ (pc = "exit" <=> loops[l].canceled)
    BY <1>18 DEF LoopWaits
  <2> QED
    BY <1>1, <1>2, <1>18, <2>1, GoesEffect, LoopProceeds DEF LoopWaits, Ended, InSync
<1>19. CASE LoopAnnouncesPurge(l)
  <2>1. /\ mem'.conn = mem.conn /\ mem'.cfg = mem.cfg /\ mem'.keys = mem.keys
        /\ mem'.intentional = mem.intentional /\ mem'.cancel = mem.cancel
    BY <1>1, <1>19 DEF LoopAnnouncesPurge, MemType
  <2> QED
    BY <1>1, <1>2, <1>19, <2>1, GoesEffect, LoopProceeds DEF LoopAnnouncesPurge, Ended, InSync
<1>20. CASE LoopClearsState(l)
  BY <1>1, <1>2, <1>20, GoesEffect, LoopProceeds DEF LoopClearsState, Ended, InSync
<1> QED
  BY <1>4, <1>5, <1>6, <1>7, <1>8, <1>9, <1>10, <1>11, <1>12, <1>13, <1>14, <1>15,
     <1>16, <1>17, <1>18, <1>19, <1>20

\* The last steps of a loop: a purge takes the identity away, and the goroutine
\* ends.
LEMMA LoopEndSane ==
  ASSUME TypeInv, TypeInv', LoopsSane, NEW l \in LoopId,
         LoopClearsConfig(l) \/ LoopEndsPurge(l) \/ LoopExits(l)
  PROVE  LoopsSane'
<1> USE DEF LoopsSane
<1>1. mem \in MemType /\ loops \in [LoopId -> LoopType]
  BY TypesSplit DEF TypeInv, ProcessTypes
<1>2. {"purged", "purge_wait", "exit"} \subseteq LoopStage
  BY DEF LoopStage
<1>3. CASE LoopClearsConfig(l)
  <2>1. loops[l].pc = "purge_cfg"
    BY <1>3 DEF LoopClearsConfig
  <2>2. CASE mem' = mem
    <3>1. PICK pc \in {"purged", "purge_wait"} : Goes(l, pc)
      BY <1>3 DEF LoopClearsConfig
    <3>2. CASE pc = "purge_wait"
      BY <1>1, <1>2, <1>3, <2>1, <2>2, <3>1, <3>2, GoesEffect, LoopProceeds
         DEF LoopClearsConfig, Ended, InSync
    <3>3. CASE pc = "purged"
      <4>1. mem' = [mem EXCEPT !.cfg = None, !.keys = None, !.conn = None,
                               !.intentional = TRUE, !.cancel = 0]
        <5>1. loops'[l].pc = "purged"
          BY <1>1, <1>2, <3>1, <3>3, GoesEffect
        <5>2. ~Goes(l, "purge_wait")
          BY <1>1, <1>2, <5>1, GoesEffect
        <5> QED
          BY <1>3, <5>2 DEF LoopClearsConfig
      <4>2. mem.cancel = 0 /\ mem.cfg = None
        BY <1>1, <2>2, <4>1 DEF MemType
      <4>3. \A k \in LoopId : Runs(k)' <=> Runs(k)
        BY <1>1, <1>2, <2>1, <3>1, <3>3, <4>2, GoesEffect, CancelIsNoLoopAtZero
           DEF Runs, Ended, RunningLoop
      <4>4. RunningLoop' /\ OneAtWork'
        BY <1>1, <1>2, <1>3, <2>1, <2>2, <3>1, <3>3, <4>2, <4>3, GoesEffect
           DEF LoopClearsConfig, RunningLoop, OneAtWork, Ended
      <4>5. StoppedLoops'
        BY <1>1, <1>2, <1>3, <2>2, <3>1, <3>3, GoesEffect
           DEF LoopClearsConfig, StoppedLoops, Forgotten, InSync
      <4>6. CommandFields'
        BY <1>3, <2>2 DEF LoopClearsConfig, CommandFields, Forgotten, Identified
      <4> QED
        BY <4>4, <4>5, <4>6
    <3> QED
      BY <3>1, <3>2, <3>3
  <2>3. CASE mem' # mem
    <3>1. /\ mem'.cfg = None /\ mem'.keys = None /\ mem'.conn = None
          /\ mem'.intentional = TRUE /\ mem'.cancel = 0
          /\ Goes(l, "purged") /\ UNCHANGED <<up, user, halfway>>
      BY <1>1, <1>3, <2>3 DEF LoopClearsConfig, MemType
    <3>2. /\ loops'[l].pc = "purged" /\ loops'[l].canceled = loops[l].canceled
          /\ \A k \in LoopId : k # l => loops'[k] = loops[k]
      BY <1>1, <1>2, <3>1, GoesEffect
    <3>3. \A k \in LoopId : ~Runs(k)'
      <4>1. \A k \in LoopId : k # l => ~Runs(k)
        BY <2>1 DEF OneAtWork, Runs, Ended
      <4> QED
        BY <3>2, <4>1 DEF Runs, Ended
    <3>4. RunningLoop'
      BY <3>1, <3>3, CancelIsNoLoopAtZero DEF RunningLoop
    <3>5. Forgotten'
      BY <3>1 DEF Forgotten
    <3>6. StoppedLoops'
      BY <3>1, <3>2, <3>5 DEF StoppedLoops, InSync
    <3>7. OneAtWork'
      BY <3>2 DEF OneAtWork, Ended
    <3>8. user.pc \notin Late
      <4>1. loops[l].canceled \/ l = mem.cancel
        BY <2>1 DEF RunningLoop, Runs, Ended
      <4> QED
        BY <4>1, CancelIsNoLoopAtZero DEF RunningLoop, StoppedLoops, Late
    <3>9. CommandFields'
      BY <3>1, <3>5, <3>8 DEF CommandFields, Identified
    <3> QED
      BY <3>4, <3>6, <3>7, <3>9
  <2> QED
    BY <2>2, <2>3
<1>4. CASE LoopEndsPurge(l)
  <2>1. SameMemory
    BY <1>1, <1>4 DEF LoopEndsPurge, MemType, SameMemory
  <2>2. /\ loops[l].pc = "purged" /\ loops'[l].pc = "exit"
        /\ loops'[l].canceled = loops[l].canceled
        /\ \A k \in LoopId : k # l => loops'[k] = loops[k]
        /\ UNCHANGED <<up, user, halfway>>
    BY <1>1, <1>2, <1>4, GoesEffect DEF LoopEndsPurge
  <2>3. RunningLoop' /\ OneAtWork'
    BY <2>1, <2>2 DEF SameMemory, RunningLoop, Runs, OneAtWork, Ended, Identified
  <2>4. StoppedLoops' /\ CommandFields'
    BY <2>1, <2>2 DEF SameMemory, StoppedLoops, CommandFields, Forgotten, Identified, InSync
  <2> QED
    BY <2>3, <2>4
<1>5. CASE LoopExits(l)
  <2>1. /\ loops[l].pc = "exit" /\ loops'[l] = NoLoop
        /\ \A k \in LoopId : k # l => loops'[k] = loops[k]
        /\ UNCHANGED <<up, user, halfway>>
    BY <1>1, <1>5 DEF LoopExits
  <2>2. SameMemory
    <3>1. l # mem.cancel
      BY <2>1 DEF RunningLoop, Runs, Ended
    <3>2. mem.loopId = l => mem.cancel = 0
      BY <3>1 DEF TypeInv, CommandsSane
    <3> QED
      BY <1>1, <1>5, <3>2 DEF LoopExits, Released, SameMemory, MemType
  <2>3. RunningLoop' /\ OneAtWork'
    BY <2>1, <2>2 DEF SameMemory, RunningLoop, Runs, OneAtWork, Ended, Identified, NoLoop
  <2>4. StoppedLoops' /\ CommandFields'
    BY <2>1, <2>2
       DEF SameMemory, StoppedLoops, CommandFields, Forgotten, Identified, NoLoop, InSync
  <2> QED
    BY <2>3, <2>4
<1> QED
  BY <1>3, <1>4, <1>5

\* A process that has ended has no loop.
LEMMA GoneSane ==
  ASSUME TypeInv', Gone
  PROVE  LoopsSane'
<1>1. /\ up' = FALSE /\ user'.pc = "idle" /\ mem'.cancel = 0 /\ mem'.cfg = None
      /\ \A l \in LoopId : loops'[l].pc = "none" /\ ~loops'[l].canceled
  BY DEF Gone, NoMemory, NoCommand, NoLoop
<1>2. 0 \notin LoopId
  BY DEF LoopId
<1> QED
  BY <1>1, <1>2
     DEF LoopsSane, RunningLoop, StoppedLoops, OneAtWork, CommandFields, Runs, Ended,
         Connecting, Disconnecting, Late

\* Where a loop was running or stopped, no command connects.
LEMMA NoLoopWhileConnecting ==
  ASSUME TypeInv, LoopsSane, user.pc \in Connecting
  PROVE  /\ mem.cancel = 0
         /\ \A l \in LoopId : loops[l].pc \in Ended /\ ~loops[l].canceled
<1>1. mem.cancel = 0
  BY DEF LoopsSane, RunningLoop
<1>2. \A l \in LoopId : ~loops[l].canceled /\ ~Runs(l)
  BY <1>1, CancelIsNoLoopAtZero DEF LoopsSane, RunningLoop, StoppedLoops
<1> QED
  BY <1>1, <1>2 DEF Runs

\* A step of a command that leaves the loops and the fields of Daemon.
LEMMA CommandMoves ==
  ASSUME TypeInv, LoopsSane, SameMemory, UNCHANGED <<up, loops>>,
         \/ user.pc \in Connecting
         \/ user'.pc \notin Connecting /\ mem.cancel = 0
         \/ mem.cancel = 0 /\ \A l \in LoopId : ~loops[l].canceled,
         user'.pc \in Late => user.pc \in Late /\ user'.ws = user.ws
                                               /\ user'.token = user.token,
         user'.pc \in Disconnecting \cup {"stop"} => Forgotten,
         user'.pc \in {"idle", "c_finish"} /\ ~halfway' =>
           \/ ~Identified
           \/ user.pc \in {"idle", "c_finish"} /\ ~halfway
  PROVE  LoopsSane'
<1> USE DEF LoopsSane
<1>1. mem.cancel = 0
  BY NoLoopWhileConnecting
<1>2. RunningLoop'
  BY <1>1 DEF SameMemory, RunningLoop, Runs
<1>3. StoppedLoops'
  BY NoLoopWhileConnecting DEF SameMemory, StoppedLoops, Forgotten
<1>4. OneAtWork'
  BY DEF OneAtWork
<1>5. CommandFields'
  BY DEF SameMemory, CommandFields, Forgotten, Identified
<1> QED
  BY <1>2, <1>3, <1>4, <1>5

\* The steps of a command that neither start nor stop a loop.
LEMMA CommandsKeepSane ==
  ASSUME TypeInv, TypeInv', LoopsSane, ~hasty',
         \/ \E w \in Workspace, create \in BOOLEAN : Connect(w, create)
         \/ ConnectFinish \/ ConnectGivesUp \/ ConnectStoresKeyring
         \/ ConnectStoresState \/ ConnectBootstraps \/ ConnectBootstrapFails
         \/ DisconnectClearsKeyring \/ DisconnectClearsState
  PROVE  LoopsSane'
<1> USE DEF disk
<1>1. mem \in MemType /\ user \in UserType
  BY TypesSplit DEF TypeInv, ProcessTypes
<1>2. CASE \E w \in Workspace, create \in BOOLEAN : Connect(w, create)
  <2>1. PICK w \in Workspace, create \in BOOLEAN : Connect(w, create)
    BY <1>2
  <2>1a. Patient(w)
    BY <2>1 DEF Connect, Chooses
  <2>2. mem.cancel = 0 /\ \A l \in LoopId : ~loops[l].canceled
    BY <2>1a DEF Patient, LoopsSane, RunningLoop, Identified
  <2>3. user'.pc = "c_finish" /\ user.pc = "idle"
    BY <2>1 DEF Connect, NoCommand
  <2>4. SameMemory /\ UNCHANGED <<up, loops, halfway>>
    BY <2>1 DEF Connect, SameMemory
  <2> QED
    BY <2>2, <2>3, <2>4, CommandMoves DEF Connecting, Disconnecting, Late
<1>3. CASE ConnectFinish
  <2>1. user.pc = "c_finish" /\ user.pc \in Connecting
    BY <1>3 DEF ConnectFinish, Connecting
  <2>2. /\ mem'.cfg = user.ws /\ mem'.keys = user.ws /\ mem'.conn = NewToken
        /\ mem'.cancel = mem.cancel /\ mem'.intentional = mem.intentional
        /\ UNCHANGED <<up, loops>>
    BY <1>1, <1>3 DEF ConnectFinish, MemType
  <2>3. \/ user'.pc = "c_keyring" /\ user'.ws = user.ws /\ user'.token = NewToken
        \/ user'.pc = "idle" /\ halfway'
    <3>1. CASE WriteFails
      BY <3>1 DEF WriteFails, NoCommand
    <3>2. CASE ~WriteFails
      BY <1>1, <1>3, <3>2 DEF ConnectFinish, UserType
    <3> QED
      BY <3>1, <3>2
  <2>4. mem.cancel = 0 /\ \A l \in LoopId : loops[l].pc \in Ended /\ ~loops[l].canceled
    BY <2>1, NoLoopWhileConnecting
  <2>5. RunningLoop' /\ StoppedLoops' /\ OneAtWork'
    BY <2>2, <2>4 DEF LoopsSane, RunningLoop, Runs, StoppedLoops, OneAtWork
  <2>6. CommandFields'
    BY <2>2, <2>3 DEF CommandFields, Late, Connecting, Disconnecting
  <2> QED
    BY <2>5, <2>6 DEF LoopsSane
<1>4. CASE ConnectGivesUp
  <2>1. user.pc = "c_finish" /\ user'.pc = "idle" /\ UNCHANGED <<up, mem, loops, halfway>>
    BY <1>4 DEF ConnectGivesUp, NoCommand
  <2> QED
    BY <2>1, CommandMoves DEF SameMemory, Connecting, Late, Disconnecting
<1>5. ASSUME user.pc \in Late, SameMemory, UNCHANGED <<up, loops>>,
             \/ /\ user'.pc \in Late
                /\ user'.ws = user.ws /\ user'.token = user.token
             \/ user'.pc = "idle" /\ halfway'
      PROVE  LoopsSane'
  BY <1>5, CommandMoves DEF Late, Connecting, Disconnecting
<1>6. WriteFails => user'.pc = "idle" /\ halfway'
  BY DEF WriteFails, NoCommand
<1>7. CASE ConnectStoresKeyring
  <2>1. \/ /\ user'.pc = "c_state" /\ user'.ws = user.ws /\ user'.token = user.token
        \/ WriteFails
    BY <1>1, <1>7 DEF ConnectStoresKeyring, UserType
  <2> QED
    BY <1>5, <1>6, <1>7, <2>1 DEF ConnectStoresKeyring, SameMemory, Late, Connecting
<1>8. CASE ConnectStoresState
  <2>1. \/ /\ user'.pc \in {"c_bootstrap", "c_loop"} /\ user'.ws = user.ws
           /\ user'.token = user.token
        \/ WriteFails
    BY <1>1, <1>8 DEF ConnectStoresState, UserType
  <2> QED
    BY <1>5, <1>6, <1>8, <2>1 DEF ConnectStoresState, SameMemory, Late, Connecting
<1>9. CASE ConnectBootstraps
  <2>1. user'.pc = "c_loop" /\ user'.ws = user.ws /\ user'.token = user.token
    BY <1>1, <1>9 DEF ConnectBootstraps, UserType
  <2> QED
    BY <1>5, <1>9, <2>1 DEF ConnectBootstraps, SameMemory, Late, Connecting
<1>10. CASE ConnectBootstrapFails
  BY <1>5, <1>10 DEF ConnectBootstrapFails, NoCommand, SameMemory, Late, Connecting
<1>11. CASE DisconnectClearsKeyring \/ DisconnectClearsState
  <2>1. user.pc \in Disconnecting /\ UNCHANGED <<up, mem, loops>>
    BY <1>11 DEF DisconnectClearsKeyring, DisconnectClearsState, Disconnecting
  <2>2. user'.pc \in {"d_state", "stop"} \/ (user'.pc = "idle" /\ halfway')
    BY <1>1, <1>6, <1>11
       DEF DisconnectClearsKeyring, DisconnectClearsState, NoCommand, UserType
  <2>3. mem.cancel = 0 /\ Forgotten
    BY <2>1 DEF LoopsSane, RunningLoop, CommandFields
  <2> QED
    BY <2>1, <2>2, <2>3, CommandMoves DEF SameMemory, Connecting, Late, Disconnecting
<1> QED
  BY <1>2, <1>3, <1>4, <1>7, <1>8, <1>9, <1>10, <1>11

\* The new loop is the only one, since the former has ended.
LEMMA ConnectStartsLoopSane ==
  ASSUME TypeInv, TypeInv', LoopsSane, ConnectStartsLoop
  PROVE  LoopsSane'
<1> DEFINE m == [mem EXCEPT !.intentional = FALSE]
           n == mem.loopId + 1
<1>1. /\ mem \in MemType /\ loops \in [LoopId -> LoopType]
      /\ user.pc \in Connecting /\ user.pc \in Late
      /\ mem.loopId < MaxLoops /\ user.ws \in Workspace /\ user.token \in Token
  BY TypesSplit
     DEF ConnectStartsLoop, Connecting, Late, TypeInv, ProcessTypes, CommandsSane
<1>2. mem.cancel = 0 /\ \A l \in LoopId : loops[l].pc \in Ended /\ ~loops[l].canceled
  BY <1>1, NoLoopWhileConnecting
<1>3. m \in MemType /\ m.loopId = mem.loopId /\ m.cancel = 0
      /\ m.cfg = mem.cfg /\ m.keys = mem.keys /\ m.conn = mem.conn
  <2>1. FALSE \in BOOLEAN
    OBVIOUS
  <2> QED
    BY <1>1, <1>2, <2>1, Zenon DEF MemType
<1>4. mem' = StartLoop(m) /\ loops' = WithLoopOf(mem', loops) /\ user' = NoCommand
      /\ UNCHANGED <<up, halfway>>
  BY DEF ConnectStartsLoop
<1> HIDE DEF m
<1>5. /\ mem'.cancel = n /\ mem'.loopId = n /\ mem'.cfg = mem.cfg
      /\ mem'.keys = mem.keys /\ mem'.conn = mem.conn
  BY <1>1, <1>3, <1>4, StartLoopEffect
<1>6. n \in LoopId /\ n # mem.loopId /\ n # 0
  BY <1>1, CancelIsNoLoopAtZero, LifecycleAssumption DEF LoopId
<1> HIDE DEF n
<1>7. /\ loops'[n].pc = "top" /\ ~loops'[n].canceled
      /\ \A l \in LoopId : l # n => loops'[l] = loops[l]
  <2>1. loops' = [loops EXCEPT ![n] = [NoLoop EXCEPT !.pc = "top"]]
    BY <1>4, <1>5, <1>6 DEF WithLoopOf
  <2>2. [NoLoop EXCEPT !.pc = "top"].pc = "top" /\ ~[NoLoop EXCEPT !.pc = "top"].canceled
    BY DEF NoLoop
  <2> QED
    BY <1>1, <1>6, <2>1, <2>2
<1>8. user'.pc = "idle"
  BY <1>4 DEF NoCommand
<1>9. Identified'
  BY <1>1, <1>5, LifecycleAssumption DEF LoopsSane, CommandFields, Identified
<1>10. RunningLoop'
  BY <1>2, <1>5, <1>6, <1>7, <1>8, <1>9
     DEF RunningLoop, Runs, Ended, Connecting, Disconnecting
<1>11. StoppedLoops' /\ OneAtWork'
  BY <1>2, <1>7 DEF StoppedLoops, OneAtWork, Ended
<1>12. CommandFields'
  BY <1>5, <1>6, <1>8 DEF CommandFields, Late, Connecting, Disconnecting
<1> QED
  BY <1>10, <1>11, <1>12 DEF LoopsSane

\* The loop that is cancelled is the one that ran.
LEMMA DisconnectSane ==
  ASSUME TypeInv, TypeInv', LoopsSane, Disconnect
  PROVE  LoopsSane'
<1>1. mem \in MemType /\ loops \in [LoopId -> LoopType]
  BY TypesSplit DEF TypeInv, ProcessTypes
<1>2. /\ \A l \in LoopId : /\ loops'[l].pc = loops[l].pc
                           /\ loops'[l].err = loops[l].err
                           /\ loops'[l].canceled <=> loops[l].canceled \/ l = mem.cancel
  BY <1>1, CanceledTypes DEF Disconnect
<1>3. Forgotten' /\ mem'.cancel = 0
  BY <1>1 DEF Disconnect, MemType, Forgotten
<1>4. user'.pc = "d_keyring" \/ (user'.pc = "idle" /\ halfway')
  BY DEF Disconnect, WriteFails, NoCommand
<1>5. \A l \in LoopId : loops[l].pc \notin InSync
  BY DEF Disconnect, SyncMuFree
<1>6. RunningLoop'
  BY <1>2, <1>3, CancelIsNoLoopAtZero DEF LoopsSane, RunningLoop, Runs
<1>7. StoppedLoops' /\ OneAtWork'
  BY <1>2, <1>3, <1>4, <1>5 DEF LoopsSane, StoppedLoops, OneAtWork, Connecting
<1>8. CommandFields'
  BY <1>3, <1>4 DEF CommandFields, Late, Connecting, Disconnecting
<1> QED
  BY <1>6, <1>7, <1>8 DEF LoopsSane

\* A start begins with no loop, and with one where an identity is stored.
LEMMA StartSane ==
  ASSUME TypeInv, TypeInv', Start
  PROVE  LoopsSane'
<1> DEFINE c == Recovered(cfg, db.state)
           m == [NoMemory EXCEPT
                   !.cfg = c, !.keys = keyring,
                   !.conn = CASE c = None -> None
                              [] c # None /\ db.token = None -> Bare
                              [] OTHER -> db.token]
<1>1. Down
  BY DEF Start, TypeInv, CommandsSane
<1>2. c \in Workspace \cup {None} /\ keyring \in Workspace \cup {None} /\ db \in DbType
  BY TypesSplit DEF Recovered, TypeInv, DiskTypes
<1>3. m \in MemType /\ m.loopId = 0 /\ m.cancel = 0 /\ m.cfg = c /\ m.keys = keyring
      /\ (c # None => m.conn # None)
  BY <1>2, BlankTypes, LifecycleAssumption DEF MemType, NoMemory, DbType
<1>4. /\ mem' = IF c # None /\ keyring # None THEN StartLoop(m) ELSE m
      /\ loops' = IF mem'.loopId = 0 THEN loops
                  ELSE [loops EXCEPT ![1] = [NoLoop EXCEPT !.pc = "top"]]
      /\ user' = NoCommand
  BY <1>1 DEF Start, Down
<1> HIDE DEF c, m
<1>5. user'.pc = "idle"
  BY <1>4 DEF NoCommand
<1>6. 1 \in LoopId /\ 0 \notin LoopId
  BY LifecycleAssumption DEF LoopId
<1>7. CASE c # None /\ keyring # None
  <2>1. mem'.cancel = 1 /\ mem'.loopId = 1 /\ Identified'
    BY <1>3, <1>4, <1>7, StartLoopEffect, LifecycleAssumption DEF Identified
  <2>2. /\ loops'[1].pc = "top" /\ ~loops'[1].canceled
        /\ \A l \in LoopId : l # 1 => loops'[l] = NoLoop
    <3>1. [NoLoop EXCEPT !.pc = "top"].pc = "top" /\ ~[NoLoop EXCEPT !.pc = "top"].canceled
      BY DEF NoLoop
    <3> QED
      BY <1>1, <1>4, <1>6, <2>1, <3>1 DEF Down
  <2>3. NoLoop.pc = "none" /\ ~NoLoop.canceled
    BY DEF NoLoop
  <2>4. RunningLoop'
    BY <1>5, <1>6, <2>1, <2>2, <2>3 DEF RunningLoop, Runs, Ended, Connecting, Disconnecting
  <2>5. StoppedLoops' /\ OneAtWork'
    BY <2>2, <2>3 DEF StoppedLoops, OneAtWork, Ended
  <2>6. CommandFields'
    BY <1>5, <2>1 DEF CommandFields, Late, Connecting, Disconnecting
  <2> QED
    BY <2>4, <2>5, <2>6 DEF LoopsSane
<1>8. CASE ~(c # None /\ keyring # None)
  <2>1. mem'.cancel = 0 /\ ~Identified' /\ loops' = loops
    BY <1>3, <1>4, <1>8 DEF Identified
  <2>2. \A l \in LoopId : loops'[l].pc = "none" /\ ~loops'[l].canceled
    BY <1>1, <2>1 DEF Down, NoLoop
  <2> QED
    BY <1>5, <1>6, <2>1, <2>2
       DEF LoopsSane, RunningLoop, StoppedLoops, OneAtWork, CommandFields, Runs, Ended,
           Connecting, Disconnecting, Late
<1> QED
  BY <1>7, <1>8

\* One loop with an identity is inductive, until the user connects in haste.
LEMMA LoopsSaneNext ==
  ASSUME TypeInv, LoopsSane, [Next]_vars, ~hasty'
  PROVE  LoopsSane'
<1>1. TypeInv'
  BY TypeInvNext
<1>2. ASSUME NEW l \in LoopId, LoopStep(l) PROVE LoopsSane'
  <2>1. CASE LoopPanics(l)
    BY <1>1, <2>1, GoneSane DEF LoopPanics
  <2> QED
    BY <1>1, <1>2, <2>1, LoopStepSane, LoopEndSane DEF LoopStep
<1>3. CASE Stop \/ Die
  BY <1>1, <1>3, GoneSane DEF Stop, Die
<1>4. CASE LocalOperation \/ World
  <2>1. UNCHANGED <<up, mem, loops, user, halfway>>
    BY <1>4 DEF LocalOperation, World, PeerCreates, PeerAddsRoot, Purge, TokenLapses
  <2> QED
    BY <2>1, NothingMoves DEF SameMemory
<1>5. CASE UNCHANGED vars
  BY <1>5, NothingMoves DEF vars, SameMemory
<1> QED
  BY <1>1, <1>2, <1>3, <1>4, <1>5, CommandsKeepSane, ConnectStartsLoopSane, DisconnectSane,
     StartSane
     DEF Next, ConnectStep, DisconnectStep

LoopsSaneIfPatient == ~hasty => LoopsSane

LEMMA LoopsSaneAlways == Spec => [](TypeInv /\ LoopsSaneIfPatient)
<1>1. TypeInv /\ LoopsSaneIfPatient /\ [Next]_vars => (TypeInv /\ LoopsSaneIfPatient)'
  <2> SUFFICES ASSUME TypeInv, LoopsSaneIfPatient, [Next]_vars, ~hasty'
               PROVE  TypeInv' /\ LoopsSane'
    BY TypeInvNext DEF LoopsSaneIfPatient
  <2>1. ~hasty
    BY PastMoves DEF Remembered
  <2> QED
    BY <2>1, TypeInvNext, LoopsSaneNext DEF LoopsSaneIfPatient
<1>2. Init => TypeInv /\ LoopsSaneIfPatient
  BY TypeInvInit, LoopsSaneInit DEF LoopsSaneIfPatient
<1> QED
  BY <1>1, <1>2, PTL DEF Spec

\* A connected device has exactly one loop that goes on, the one disconnect
\* would stop.
THEOREM OneLoopAlways == Spec => []OneLoop
<1>1. TypeInv /\ LoopsSaneIfPatient => OneLoop
  <2> SUFFICES ASSUME TypeInv, LoopsSane PROVE OneLoop
    BY DEF OneLoop, LoopsSaneIfPatient
  <2>1. Connected => mem.cancel # 0
    BY DEF Connected, LoopsSane, CommandFields, Identified
  <2>2. mem.cancel # 0 => mem.cancel \in LoopId
    BY CancelIsNoLoopAtZero DEF LoopId
  <2> QED
    BY <2>1, <2>2 DEF OneLoop, LoopsSane, RunningLoop
<1> QED
  BY <1>1, LoopsSaneAlways, PTL

\* No loop is ever at a request without a connector, a key and a workspace.
THEOREM SyncHasIdentityAlways == Spec => []SyncHasIdentity
<1>1. TypeInv /\ LoopsSaneIfPatient => SyncHasIdentity
  <2> SUFFICES ASSUME TypeInv, LoopsSane, NEW l \in LoopId
               PROVE  /\ loops[l].pc \in InSync => Identified
                      /\ loops[l].pc \in Streaming /\ mem.conn = None
                           => loops[l].canceled
    BY DEF SyncHasIdentity, Identified, LoopsSaneIfPatient
  <2>1. loops[l].pc \in InSync \cup Streaming => Runs(l) \/ loops[l].canceled
    BY DEF Runs, Ended, InSync, Streaming
  <2>2. Runs(l) => Identified
    BY CancelIsNoLoopAtZero DEF LoopsSane, RunningLoop
  <2> QED
    BY <2>1, <2>2 DEF LoopsSane, StoppedLoops, Identified
<1> QED
  BY <1>1, LoopsSaneAlways, PTL

-----------------------------------------------------------------------------
(***************************************************************************)
(* What is stored, and which life of a workspace it is of.                 *)
(***************************************************************************)
\* Of the workspace the configuration names.
Same(life) == life.ws = cfg
SameToken(t) == t \in Token => of[t] \in Life /\ Same(of[t])

\* Unless a command was cut short, or is taking it back, what is stored belongs
\* to the workspace that is configured.
StoredTogether ==
  ~halfway /\ user.pc \notin Disconnecting =>
    /\ \A life \in db.index : Same(life)
    /\ SameToken(db.token) /\ SameToken(mem.conn)

\* And so does what the daemon works with.
MemoryAsStored ==
  /\ ~halfway /\ up /\ user.pc \in {"idle", "c_finish", "stop"} =>
       /\ mem.cfg = cfg
       /\ cfg # None => mem.keys = cfg /\ mem.conn # None
  /\ ~halfway /\ user.pc = "c_finish" => cfg = None
  /\ ~halfway /\ user.pc = "idle" /\ cfg # None => keyring = cfg

\* What connect has stored by each of its steps.
ConnectStored ==
  /\ user.pc \in Late => cfg = user.ws /\ of[user.token] = user.life
  /\ user.pc \in {"c_state", "c_bootstrap", "c_loop"} => keyring = user.ws
  /\ user.pc \in {"c_bootstrap", "c_loop"} =>
       db.token = user.token /\ db.state = "syncing"

\* What a loop that runs has in hand.
WithConnector == {"dial", "sync"} \cup Streaming
WithSocket == {"sync"} \cup Streaming
LoopsInHand ==
  \A l \in LoopId : Runs(l) =>
    /\ loops[l].pc \in WithConnector => mem.conn \in Token
    /\ loops[l].pc \in WithSocket => loops[l].token \in Token
    /\ loops[l].pc \in WithSocket /\ ~halfway => SameToken(loops[l].token)
    /\ loops[l].pc = "finish" /\ ~halfway => Same(loops[l].life)

\* A loop that has been told the workspace is gone, until it has cleared it.
TellsPurge(l) ==
  \/ loops[l].pc \in {"gone", "purge", "purge_cfg", "purge_wait"}
  \/ loops[l].pc = "failed" /\ loops[l].err = "not_found"

\* It was told the truth, and it stays true: the device gets no new session.
ToldTheTruth ==
  ~halfway => \A l \in LoopId : TellsPurge(l) => mem.conn \notin accepted

PurgeRemains ==
  db.state = "purged" /\ ~halfway =>
    /\ db.token = None /\ db.index = {}
    /\ \A l \in LoopId :
         loops[l].pc \in Ended \cup {"purge", "purge_cfg", "purge_wait"}

\* What a purge and a disconnect have stored between their writes.
BetweenWrites ==
  /\ \A l \in LoopId : loops[l].pc = "purge_cfg" =>
       user.pc \notin Disconnecting /\ db.token = None /\ db.index = {}
  /\ user.pc \in Disconnecting => cfg = None

HistorySane ==
  /\ StoredTogether /\ MemoryAsStored /\ ConnectStored /\ LoopsInHand
  /\ ToldTheTruth /\ PurgeRemains /\ BetweenWrites

AllSane == TypeInv /\ LoopsSane /\ HistorySane

LEMMA HistorySaneInit == Init => HistorySane
<1> SUFFICES ASSUME Init PROVE HistorySane
  OBVIOUS
<1>1. /\ \A l \in LoopId : loops[l].pc = "none"
      /\ user.pc = "idle" /\ cfg = None /\ keyring = None /\ up = FALSE
      /\ mem.conn = None /\ db.index = {} /\ db.token = None
      /\ db.state = "disconnected" /\ rooted = {}
  BY DEF Init, NoLoop, NoMemory, NoCommand
<1>2. StoredTogether /\ MemoryAsStored /\ ConnectStored
  BY <1>1, LifecycleAssumption
     DEF StoredTogether, SameToken, MemoryAsStored, ConnectStored, Connecting, Late
<1>3. LoopsInHand /\ ToldTheTruth /\ PurgeRemains /\ BetweenWrites
  BY <1>1
     DEF LoopsInHand, ToldTheTruth, TellsPurge, PurgeRemains, BetweenWrites,
         Runs, Ended, Disconnecting
<1> QED
  BY <1>2, <1>3 DEF HistorySane

\* A loop at work and a connect exclude each other; one that runs leaves the
\* user idle.
LEMMA LoopExcludesCommand ==
  ASSUME TypeInv, LoopsSane, NEW l \in LoopId, loops[l].pc \notin Ended
  PROVE  /\ up /\ user.pc \notin Connecting
         /\ ~loops[l].canceled => user.pc = "idle" /\ Identified /\ mem.cancel = l
         /\ \A k \in LoopId : k # l => loops[k].pc \in Ended /\ ~Runs(k)
<1>1. up
  BY AtWork DEF Ended
<1>2. user.pc \in UserStage
  BY TypesSplit DEF TypeInv, ProcessTypes, UserType
<1>3. ~loops[l].canceled => l = mem.cancel /\ mem.cancel # 0
  BY CancelIsNoLoopAtZero DEF LoopsSane, RunningLoop, Runs
<1>4. user.pc \notin Connecting /\ (~loops[l].canceled => user.pc = "idle" /\ Identified)
  BY <1>2, <1>3 DEF LoopsSane, RunningLoop, StoppedLoops, UserStage
<1>5. \A k \in LoopId : k # l => loops[k].pc \in Ended /\ ~Runs(k)
  BY DEF LoopsSane, OneAtWork, Runs
<1> QED
  BY <1>1, <1>3, <1>4, <1>5

\* A step of a loop that leaves server, memory, configuration and keyring.
LEMMA LoopStepHistory ==
  ASSUME AllSane, TypeInv', LoopsSane', NEW l \in LoopId, loops[l].pc \notin Ended,
         \A k \in LoopId : k # l => loops'[k] = loops[k],
         loops'[l].canceled = loops[l].canceled,
         UNCHANGED <<server, cfg, keyring, up, user, halfway>>, SameMemory,
         db'.token \in {db.token, None},
         db'.index \in Followed(mem.conn) \/ db'.index = {},
         Runs(l)' =>
           /\ loops'[l].pc \in WithConnector => mem.conn \in Token
           /\ loops'[l].pc \in WithSocket =>
                /\ loops'[l].token \in Token
                /\ ~halfway => SameToken(loops'[l].token)
           /\ loops'[l].pc = "finish" /\ ~halfway => Same(loops'[l].life),
         TellsPurge(l)' /\ ~halfway =>
           mem.conn \notin accepted \/ TellsPurge(l),
         db'.state = "purged" /\ ~halfway =>
           \/ /\ db' = db
              /\ loops'[l].pc \in Ended \cup {"purge", "purge_cfg", "purge_wait"}
           \/ /\ db'.token = None /\ db'.index = {} /\ loops'[l].pc = "purge_cfg",
         loops'[l].pc = "purge_cfg" =>
           user.pc \notin Disconnecting /\ db'.token = None /\ db'.index = {}
  PROVE  HistorySane'
<1> USE DEF AllSane, HistorySane
<1>1. /\ user.pc \notin Connecting
      /\ \A k \in LoopId : k # l => loops[k].pc \in Ended /\ ~Runs(k)
  BY LoopExcludesCommand
<1>2. /\ \A life : Same(life)' <=> Same(life)
      /\ \A t : SameToken(t)' <=> SameToken(t)
  BY DEF Same, SameToken, server
<1>3. \A k \in LoopId : k # l => loops'[k].pc \in Ended /\ ~Runs(k)'
  BY <1>1 DEF Runs
<1>4. StoredTogether'
  <2>1. mem.conn \in Token => SameToken(mem.conn) <=> of[mem.conn] \in Life /\ Same(of[mem.conn])
    BY DEF SameToken
  <2>2. SameToken(None)
    BY LifecycleAssumption DEF SameToken
  <2>3. \A life \in db'.index :
          life \in db.index \/ (mem.conn \in Token /\ life = of[mem.conn])
    BY DEF Followed, RootsOf
  <2> QED
    BY <1>2, <2>1, <2>2, <2>3 DEF StoredTogether, SameMemory
<1>5. MemoryAsStored'
  BY DEF MemoryAsStored, SameMemory
<1>6. ConnectStored'
  BY <1>1 DEF ConnectStored, Late, Connecting
<1>7. LoopsInHand'
  BY <1>2, <1>3 DEF LoopsInHand, SameMemory
<1>8. ToldTheTruth'
  <2>1. \A k \in LoopId : k # l => ~TellsPurge(k)'
    BY <1>3 DEF TellsPurge, Ended
  <2> QED
    BY <1>2, <2>1 DEF ToldTheTruth, SameMemory, server
<1>9. PurgeRemains'
  BY <1>3 DEF PurgeRemains
<1>10. BetweenWrites'
  BY <1>3 DEF BetweenWrites, Ended
<1> QED
  BY <1>4, <1>5, <1>6, <1>7, <1>8, <1>9, <1>10

\* The steps by which a loop gets no new session in hand.
LEMMA QuietLoopStepsHistory ==
  ASSUME AllSane, TypeInv', LoopsSane', NEW l \in LoopId,
         \/ LoopTurns(l) \/ LoopTakesSync(l) \/ LoopStartsSession(l)
         \/ LoopFinishRefused(l) \/ LoopDials(l) \/ LoopSyncs(l)
         \/ LoopCatchesUp(l) \/ LoopRefused(l) \/ LoopHearsNothing(l)
         \/ LoopEndsStream(l) \/ LoopHearsRejection(l) \/ LoopWakes(l)
         \/ LoopTurnsFailed(l) \/ LoopWaits(l) \/ LoopAnnouncesPurge(l)
         \/ LoopClearsState(l)
  PROVE  HistorySane'
<1> USE DEF disk
<1>1. /\ mem \in MemType /\ loops \in [LoopId -> LoopType] /\ db \in DbType
      /\ TypeInv /\ LoopsSane
  BY TypesSplit DEF AllSane, TypeInv, ProcessTypes, DiskTypes
<1>2. /\ {"exit", "want_sync", "backoff", "session", "finish", "dial", "sync", "live",
          "woken", "top", "gone", "purge", "purge_cfg"} \subseteq LoopStage
      /\ Error = {"canceled", "renewal", "unauthorized", "not_found", "transport"}
  BY DEF LoopStage, InSync, Streaming, Error
<1>3. ASSUME loops[l].pc \notin Ended, db.state = "purged", ~halfway
      PROVE  loops[l].pc \in {"purge", "purge_cfg", "purge_wait"}
  BY <1>3 DEF AllSane, HistorySane, PurgeRemains
<1>4. ASSUME loops[l].pc \in InSync
      PROVE  /\ ~loops[l].canceled /\ Runs(l)
             /\ user.pc = "idle" /\ up /\ Identified
  BY <1>1, <1>4, LoopExcludesCommand DEF LoopsSane, StoppedLoops, Runs, Ended, InSync
<1>4a. db.index \in Followed(mem.conn)
  BY DEF Followed
\* A step that writes nothing at all.
<1>5. ASSUME loops[l].pc \notin Ended, NEW pc \in LoopStage \ {"failed", "purge_cfg"}, Goes(l, pc),
             UNCHANGED <<server, cfg, keyring, db, up, user, halfway>>, SameMemory,
             pc \notin WithConnector \cup {"finish"} \/ (loops[l].pc = "live" /\ pc = "woken"),
             pc \in {"gone", "purge", "purge_cfg", "purge_wait"} => TellsPurge(l),
             loops[l].pc \in {"purge", "purge_cfg", "purge_wait"} =>
               pc \in Ended \cup {"purge", "purge_cfg", "purge_wait"}
      PROVE  HistorySane'
  <2>1. /\ loops'[l].pc = pc /\ loops'[l].err = None /\ loops'[l].token = loops[l].token
        /\ loops'[l].canceled = loops[l].canceled
        /\ \A k \in LoopId : k # l => loops'[k] = loops[k]
    BY <1>1, <1>5, GoesEffect
  <2>2. Runs(l)' /\ loops'[l].pc \in WithConnector =>
          mem.conn \in Token /\ loops'[l].token \in Token
          /\ (~halfway => SameToken(loops'[l].token))
    BY <1>5, <2>1
       DEF AllSane, HistorySane, LoopsInHand, Runs, Ended, WithConnector, WithSocket, Streaming
  <2>3. TellsPurge(l)' => TellsPurge(l)
    BY <1>5, <2>1 DEF TellsPurge, LoopStage
  <2>4. loops'[l].pc # "finish"
    BY <1>5, <2>1
  <2> QED
    BY <1>1, <1>3, <1>4a, <1>5, <2>1, <2>2, <2>3, <2>4, LoopStepHistory
       DEF WithConnector, WithSocket
\* A request that fails, with what was consumed before it.
<1>6. ASSUME loops[l].pc \in InSync \cup Streaming, NEW e \in Error, Fails(l, e),
             UNCHANGED <<server, cfg, keyring, up, user, halfway>>, SameMemory,
             \/ db' = db \/ Dialed
             \/ loops[l].pc \in {"sync", "woken"} /\ mem.conn # None /\ CatchUpFails,
             (e = "not_found" /\ ~halfway) => mem.conn \notin accepted
      PROVE  HistorySane'
  <2>1. /\ loops'[l].pc = "failed" /\ loops'[l].err = e
        /\ loops'[l].canceled = loops[l].canceled
        /\ \A k \in LoopId : k # l => loops'[k] = loops[k]
    BY <1>1, <1>6, FailsEffect
  <2>2. loops[l].pc \notin Ended /\ loops[l].pc \notin {"purge", "purge_cfg", "purge_wait"}
    BY <1>6 DEF Ended, InSync, Streaming
  <2>3. /\ (db'.token = db.token /\ db'.state = db.state) \/ Dialed
        /\ db'.index \in Followed(mem.conn)
    <3>1. CASE db' = db
      BY <1>4a, <3>1
    <3>2. CASE Dialed
      BY <1>1, <1>4a, <3>2 DEF Dialed, DbType
    <3>3. CASE loops[l].pc \in {"sync", "woken"} /\ mem.conn # None /\ CatchUpFails
      <4>1. PICK i \in Followed(mem.conn) :
              db' = [db EXCEPT !.index = i, !.state = db.state]
        BY <3>3 DEF CatchUpFails, CatchesUp
      <4> QED
        BY <1>1, <4>1 DEF DbType
    <3> QED
      BY <1>6, <3>1, <3>2, <3>3
  <2>4. db'.token = db.token /\ (db'.state = "purged" => db.state = "purged")
    BY <1>1, <2>3 DEF Dialed, DbType
  <2>5. TellsPurge(l)' => e = "not_found"
    BY <2>1 DEF TellsPurge
  <2>6. db'.state = "purged" => halfway
    BY <1>3, <2>2, <2>4
  <2>7. loops'[l].pc \notin WithConnector \cup WithSocket \cup {"finish"}
    BY <2>1 DEF WithConnector, WithSocket, Streaming
  <2> QED
    BY <1>1, <1>6, <2>1, <2>2, <2>3, <2>4, <2>5, <2>6, <2>7, LoopStepHistory
<1>7. ASSUME UNCHANGED <<server, cfg, keyring, db, up, mem, user, halfway>>
      PROVE  UNCHANGED <<server, cfg, keyring, db, up, user, halfway>> /\ SameMemory
  BY <1>7 DEF SameMemory
<1>8. CASE LoopTurns(l)
  <2>1. PICK pc \in {"exit", "want_sync"} : Goes(l, pc)
    BY <1>8 DEF LoopTurns
  <2> QED
    BY <1>2, <1>5, <1>7, <1>8, <2>1
       DEF LoopTurns, Ended, WithConnector, Streaming
<1>9. CASE LoopTakesSync(l)
  <2>1. PICK pc \in {"backoff", "session"} : Goes(l, pc)
    BY <1>9 DEF LoopTakesSync
  <2> QED
    BY <1>2, <1>5, <1>7, <1>9, <2>1
       DEF LoopTakesSync, Ended, WithConnector, Streaming
<1>10. CASE LoopStartsSession(l)
  <2>1. loops[l].pc = "session" /\ loops[l].pc \in InSync /\ mem.cfg \in Workspace
    BY <1>1, <1>4, <1>10 DEF LoopStartsSession, InSync, Identified, MemType
  <2>2. ~halfway => mem.cfg = cfg
    BY <1>4, <2>1 DEF AllSane, HistorySane, MemoryAsStored
  <2>3. UNCHANGED <<server, cfg, keyring, db, up, user, halfway>> /\ SameMemory
    BY <1>7, <1>10 DEF LoopStartsSession
  <2>4. CASE mem.cfg \notin present /\ Fails(l, "not_found")
    <3>1. ~halfway => mem.conn \notin accepted
      BY <1>4, <2>1, <2>2, <2>4
         DEF AllSane, HistorySane, StoredTogether, Disconnecting, SameToken, Same,
             TypeInv, StateOK, ServerSane
    <3> QED
      BY <1>2, <1>6, <2>1, <2>3, <2>4, <3>1
  <2>5. CASE Fails(l, "transport")
    BY <1>2, <1>6, <2>1, <2>3, <2>5
  <2>6. CASE mem.cfg \in present
             /\ loops' = [loops EXCEPT ![l].pc = "finish", ![l].life = LifeOf(mem.cfg)]
    <3>1. /\ loops'[l].pc = "finish" /\ loops'[l].life = LifeOf(mem.cfg)
          /\ loops'[l].canceled = loops[l].canceled
          /\ \A k \in LoopId : k # l => loops'[k] = loops[k]
      BY <1>1, <2>6 DEF LoopType
    <3>2. ~halfway => Same(LifeOf(mem.cfg))
      BY <2>2 DEF Same, LifeOf
    <3>3. loops'[l].pc \notin WithConnector \cup WithSocket /\ loops[l].pc \notin Ended
      BY <2>1, <3>1 DEF WithConnector, WithSocket, Streaming, Ended
    <3>4. ~TellsPurge(l)'
      BY <3>1 DEF TellsPurge
    <3>5. db.state = "purged" => halfway
      BY <1>3, <2>1, <3>3
    <3> QED
      BY <1>1, <1>4a, <2>3, <3>1, <3>2, <3>3, <3>4, <3>5, LoopStepHistory
  <2> QED
    BY <1>10, <2>4, <2>5, <2>6 DEF LoopStartsSession
<1>11. CASE LoopFinishRefused(l)
  BY <1>2, <1>6, <1>7, <1>11 DEF LoopFinishRefused, InSync
<1>12. CASE LoopDials(l)
  <2>1. loops[l].pc = "dial" /\ loops[l].pc \in InSync /\ loops[l].pc \notin Ended
    BY <1>12 DEF LoopDials, InSync, Ended
  <2>2. mem.conn \in Token
    BY <1>1, <1>12 DEF LoopDials, TypeInv, StateOK
  <2>3. ~halfway => SameToken(mem.conn)
    BY <1>4, <2>1 DEF AllSane, HistorySane, StoredTogether, Disconnecting
  <2>4. loops' = [loops EXCEPT ![l].pc = "sync", ![l].token = mem.conn]
    BY <1>12 DEF LoopDials
  <2>5. /\ loops'[l].pc = "sync" /\ loops'[l].token = mem.conn
        /\ loops'[l].canceled = loops[l].canceled
        /\ \A k \in LoopId : k # l => loops'[k] = loops[k]
    BY <1>1, <1>2, <2>2, <2>4 DEF LoopType
  <2>6. /\ db'.token = db.token /\ db'.index = db.index /\ db'.state = "syncing"
        /\ UNCHANGED <<server, cfg, keyring, up, user, halfway>> /\ SameMemory
    BY <1>1, <1>12 DEF LoopDials, Dialed, DbType, SameMemory
  <2>7. ~TellsPurge(l)'
    BY <2>5 DEF TellsPurge
  <2> QED
    BY <1>1, <1>4a, <2>1, <2>2, <2>3, <2>5, <2>6, <2>7, LoopStepHistory
<1>13. CASE LoopSyncs(l) \/ LoopCatchesUp(l)
  <2>1. /\ loops[l].pc \in {"sync", "woken"} /\ mem.conn \in Token /\ ~loops[l].canceled
        /\ Goes(l, "live") /\ UNCHANGED <<server, cfg, keyring, up, user, halfway>>
        /\ SameMemory
    BY <1>1, <1>13 DEF LoopSyncs, LoopCatchesUp, CanCatchUp, Asks, TypeInv, StateOK, SameMemory
  <2>2. loops[l].pc \notin Ended /\ Runs(l) /\ db.state = "purged" => halfway
    BY <1>3, <2>1 DEF Ended, Runs
  <2>2a. loops[l].pc \notin Ended /\ Runs(l)
    BY <2>1 DEF Ended, Runs
  <2>3. /\ loops'[l].pc = "live" /\ loops'[l].token = loops[l].token
        /\ loops'[l].canceled = loops[l].canceled
        /\ \A k \in LoopId : k # l => loops'[k] = loops[k]
    BY <1>1, <1>2, <2>1, GoesEffect
  <2>4. /\ loops'[l].token \in Token
        /\ ~halfway => SameToken(loops'[l].token)
    BY <2>1, <2>2a, <2>3 DEF AllSane, HistorySane, LoopsInHand, WithSocket, Streaming
  <2>5. PICK state \in {"live", db.state} : CatchesUp(state)
    BY <1>13 DEF LoopSyncs, LoopCatchesUp
  <2>6. PICK i \in Followed(mem.conn) : db' = [db EXCEPT !.index = i, !.state = state]
    BY <2>5 DEF CatchesUp
  <2>7. db'.token = db.token /\ db'.state = state /\ db'.index = i
    BY <1>1, <2>6 DEF DbType
  <2>8. ~TellsPurge(l)'
    BY <2>3 DEF TellsPurge
  <2>9. db'.state = "purged" => halfway
    BY <2>2, <2>2a, <2>7
  <2> QED
    BY <1>1, <2>1, <2>2a, <2>3, <2>4, <2>6, <2>7, <2>8, <2>9, LoopStepHistory
<1>14. CASE LoopRefused(l)
  <2>1. loops[l].pc \in InSync \cup Streaming
        /\ (Dialed \/ (loops[l].pc \in {"sync", "woken"} /\ mem.conn # None /\ CatchUpFails))
    BY <1>4, <1>14 DEF LoopRefused, CanCatchUp, InSync, Streaming, Identified
  <2> QED
    BY <1>2, <1>6, <1>14, <2>1 DEF LoopRefused, SameMemory
<1>15. CASE LoopHearsNothing(l)
  <2>1. loops[l].pc \in InSync \cup Streaming
        /\ (db' = db \/ Dialed \/ (loops[l].pc \in {"sync", "woken"} /\ mem.conn # None
                                                              /\ CatchUpFails))
    BY <1>4, <1>15 DEF LoopHearsNothing, CanCatchUp, InSync, Streaming, Identified
  <2>2. PICK e \in {"transport", "canceled"} : Fails(l, e)
    BY <1>15 DEF LoopHearsNothing
  <2> QED
    BY <1>2, <1>6, <1>15, <2>1, <2>2 DEF LoopHearsNothing, SameMemory
<1>16. CASE LoopEndsStream(l)
  <2>1. PICK e \in {"transport", "canceled", "renewal"} : Fails(l, e)
    BY <1>16 DEF LoopEndsStream
  <2> QED
    BY <1>2, <1>6, <1>7, <1>16, <2>1 DEF LoopEndsStream, Streaming
<1>17. CASE LoopHearsRejection(l)
  <2>1. UNCHANGED <<server, cfg, keyring, db, up, user, mem, halfway>>
        /\ loops[l].pc = "live" /\ loops[l].pc \in Streaming
    BY <1>17 DEF LoopHearsRejection, Streaming
  <2>2. CASE Fails(l, "unauthorized")
    BY <1>2, <1>6, <1>7, <2>1, <2>2
  <2>3. CASE loops' = loops
    BY <2>1, <2>3
       DEF AllSane, HistorySane, StoredTogether, MemoryAsStored, ConnectStored, LoopsInHand,
           ToldTheTruth, PurgeRemains, BetweenWrites, SameToken, Same, TellsPurge, Runs, server
  <2> QED
    BY <1>17, <2>2, <2>3 DEF LoopHearsRejection
<1>18. CASE LoopWakes(l)
  BY <1>2, <1>5, <1>7, <1>18 DEF LoopWakes, Ended
<1>19. CASE LoopTurnsFailed(l)
  <2>1. /\ After(l) \in {"exit", "top", "gone", "backoff"} /\ loops[l].pc = "failed"
        /\ After(l) = "gone" => loops[l].err = "not_found"
        /\ Goes(l, After(l)) /\ loops[l].pc \notin Ended
        /\ UNCHANGED <<server, cfg, keyring, up, user, halfway>> /\ SameMemory
    BY <1>19, AfterEffect DEF LoopTurnsFailed, Ended, SameMemory
  <2>2. /\ loops'[l].pc = After(l) /\ loops'[l].canceled = loops[l].canceled
        /\ \A k \in LoopId : k # l => loops'[k] = loops[k]
    BY <1>1, <1>2, <2>1, GoesEffect
  <2>3. /\ db'.token \in {db.token, None} /\ db'.index = db.index
        /\ db'.state \in {db.state, "degraded"}
    BY <1>1, <1>19, <2>1 DEF LoopTurnsFailed, DbType
  <2>4. db.state = "purged" => halfway
    BY <1>3, <2>1
  <2>5. TellsPurge(l)' => TellsPurge(l)
    BY <2>1, <2>2 DEF TellsPurge
  <2>6. loops'[l].pc \notin WithConnector \cup WithSocket \cup {"finish"}
    BY <2>1, <2>2 DEF WithConnector, WithSocket, Streaming
  <2> QED
    BY <1>1, <1>4a, <2>1, <2>2, <2>3, <2>4, <2>5, <2>6, LoopStepHistory
<1>20. CASE LoopWaits(l)
  <2>1. PICK pc \in {"exit", "top", "purge"} :
          /\ Goes(l, pc)
          /\ pc = "purge" => loops[l].pc = "purge_wait"
          /\ loops[l].pc = "purge_wait" => pc \in {"exit", "purge"}
    BY <1>20 DEF LoopWaits
  <2> QED
    BY <1>2, <1>5, <1>7, <1>20, <2>1
       DEF LoopWaits, Ended, WithConnector, Streaming, TellsPurge
<1>21. CASE LoopAnnouncesPurge(l)
  <2>1. SameMemory
    BY <1>1, <1>21 DEF LoopAnnouncesPurge, MemType, SameMemory
  <2> QED
    BY <1>2, <1>5, <1>21, <2>1
       DEF LoopAnnouncesPurge, Ended, WithConnector, Streaming, TellsPurge
<1>22. CASE LoopClearsState(l)
  <2>1. /\ loops[l].pc = "purge" /\ loops[l].pc \notin Ended /\ Goes(l, "purge_cfg")
        /\ db' = Cleared("purged")
        /\ UNCHANGED <<server, cfg, keyring, up, user, halfway>> /\ SameMemory
        /\ user.pc \notin Disconnecting
    BY <1>22 DEF LoopClearsState, SyncMuFree, Ended, SameMemory
  <2>2. /\ loops'[l].pc = "purge_cfg" /\ loops'[l].canceled = loops[l].canceled
        /\ \A k \in LoopId : k # l => loops'[k] = loops[k]
    BY <1>1, <1>2, <2>1, GoesEffect
  <2>3. db'.token = None /\ db'.index = {}
    BY <2>1 DEF Cleared
  <2>4. TellsPurge(l)
    BY <2>1 DEF TellsPurge
  <2>5. loops'[l].pc \notin WithConnector \cup WithSocket \cup {"finish"}
    BY <2>2 DEF WithConnector, WithSocket, Streaming
  <2> QED
    BY <1>1, <2>1, <2>2, <2>3, <2>4, <2>5, LoopStepHistory
<1> QED
  BY <1>8, <1>9, <1>10, <1>11, <1>12, <1>13, <1>14, <1>15, <1>16, <1>17, <1>18, <1>19,
     <1>20, <1>21, <1>22

\* A session that is still good is taken from the state database.
LEMMA CachedHistory ==
  ASSUME AllSane, NEW l \in LoopId, LoopUsesCached(l)
  PROVE  HistorySane'
<1> USE DEF LoopUsesCached, disk
<1>1. /\ mem \in MemType /\ loops \in [LoopId -> LoopType] /\ db \in DbType
      /\ TypeInv /\ LoopsSane /\ HistorySane
  BY TypesSplit DEF AllSane, TypeInv, ProcessTypes, DiskTypes
<1>2. /\ loops[l].pc \notin Ended /\ loops[l].pc \in InSync
      /\ loops[l].pc \notin {"purge", "purge_cfg", "purge_wait"}
  BY DEF Ended, InSync
<1>3. /\ ~loops[l].canceled /\ user.pc = "idle"
      /\ \A k \in LoopId : k # l => loops[k].pc \in Ended /\ ~Runs(k)
  BY <1>1, <1>2, LoopExcludesCommand DEF LoopsSane, StoppedLoops
<1>4. "dial" \in LoopStage
  BY DEF LoopStage, InSync
<1>5. /\ loops'[l].pc = "dial" /\ \A k \in LoopId : k # l => loops'[k] = loops[k]
  BY <1>1, <1>4, GoesEffect
<1>6. db.token \in Token
  BY <1>1 DEF Cached, DbType
<1>7. mem'.conn = db.token /\ mem'.cfg = mem.cfg /\ mem'.keys = mem.keys
  BY <1>1 DEF MemType
<1>8. /\ \A life : Same(life)' <=> Same(life)
      /\ \A t : SameToken(t)' <=> SameToken(t)
  BY DEF Same, SameToken, LifeOf, server
<1>9. StoredTogether' /\ MemoryAsStored' /\ ConnectStored'
  BY <1>1, <1>3, <1>6, <1>7, <1>8, LifecycleAssumption
     DEF HistorySane, StoredTogether, MemoryAsStored, ConnectStored, Connecting, Late
<1>10. LoopsInHand'
  BY <1>3, <1>5, <1>6, <1>7 DEF LoopsInHand, Runs, WithSocket, Streaming
<1>11. ToldTheTruth'
  BY <1>3, <1>5 DEF ToldTheTruth, TellsPurge, Ended
<1>12. PurgeRemains'
  BY <1>1, <1>2, <1>3, <1>5 DEF HistorySane, PurgeRemains
<1>13. BetweenWrites'
  BY <1>1, <1>3, <1>5 DEF HistorySane, BetweenWrites, server
<1> QED
  BY <1>9, <1>10, <1>11, <1>12, <1>13 DEF HistorySane

\* An answered handshake: the life it was for is the one configured.
LEMMA SessionHistory ==
  ASSUME AllSane, NEW l \in LoopId, LoopFinishesSession(l)
  PROVE  HistorySane'
<1>1. /\ mem \in MemType /\ loops \in [LoopId -> LoopType] /\ db \in DbType
      /\ TypeInv /\ LoopsSane /\ HistorySane /\ ServerTypes
  BY TypesSplit DEF AllSane, TypeInv, ProcessTypes, DiskTypes
<1>2. /\ loops[l].pc = "finish" /\ loops[l].pc \notin Ended /\ loops[l].pc \in InSync
      /\ loops[l].pc \notin {"purge", "purge_cfg", "purge_wait"}
  BY DEF LoopFinishesSession, Ended, InSync
<1>3. /\ ~loops[l].canceled /\ user.pc = "idle" /\ Runs(l) /\ Identified
      /\ \A k \in LoopId : k # l => loops[k].pc \in Ended /\ ~Runs(k)
  BY <1>1, <1>2, LoopExcludesCommand DEF LoopsSane, StoppedLoops, Runs
<1>4. PICK t \in Token : t = NewToken /\ t \notin Held /\ loops[l].life \in Life
  BY <1>1, <1>2, NewTokenIsNew DEF LoopFinishesSession, TypeInv, CommandsSane
<1>5. /\ Issue(t, loops[l].life)
      /\ mem' = [mem EXCEPT !.conn = t]
      /\ UNCHANGED <<gen, present, rooted, cfg, keyring, up, user, halfway>>
      /\ \/ /\ db' = [db EXCEPT !.token = t, !.state = "syncing"]
            /\ loops' = [loops EXCEPT ![l].pc = "dial", ![l].life = None]
         \/ Fails(l, "transport") /\ db' = db
  BY <1>4 DEF LoopFinishesSession
<1>6. mem'.conn = t /\ mem'.cfg = mem.cfg /\ mem'.keys = mem.keys
  BY <1>1, <1>4, <1>5 DEF MemType
<1>7. /\ loops'[l].pc = "dial" \/ (loops'[l].pc = "failed" /\ loops'[l].err = "transport")
      /\ \A k \in LoopId : k # l => loops'[k] = loops[k]
  <2>1. CASE Fails(l, "transport")
    BY <1>1, <2>1, FailsEffect DEF Error
  <2>2. CASE loops' = [loops EXCEPT ![l].pc = "dial", ![l].life = None]
    BY <1>1, <2>2 DEF LoopType
  <2> QED
    BY <1>5, <2>1, <2>2
<1>8. db'.index = db.index /\ db'.token \in {t, db.token} /\ db'.state \in {"syncing", db.state}
  BY <1>1, <1>4, <1>5 DEF DbType
<1>9. of'[t] = loops[l].life /\ \A x \in Held \cap Token : of'[x] = of[x]
  BY <1>1, <1>4, <1>5, IssueEffect
<1>10. /\ \A life : Same(life)' <=> Same(life)
       /\ \A x \in Held : SameToken(x)' <=> SameToken(x)
  BY <1>5, <1>9 DEF Same, SameToken, LifeOf
<1>11. db.token \in Held
  BY DEF Held
<1>12. ~halfway => SameToken(t)'
  BY <1>1, <1>2, <1>3, <1>4, <1>9, <1>10
     DEF HistorySane, LoopsInHand, SameToken
<1>13. StoredTogether' /\ MemoryAsStored' /\ ConnectStored'
  BY <1>1, <1>3, <1>4, <1>5, <1>6, <1>8, <1>10, <1>11, <1>12, LifecycleAssumption
     DEF HistorySane, StoredTogether, MemoryAsStored, ConnectStored, Connecting, Late,
         Disconnecting
<1>14. LoopsInHand'
  BY <1>3, <1>4, <1>6, <1>7 DEF LoopsInHand, Runs, WithSocket, Streaming
<1>15. ToldTheTruth'
  BY <1>3, <1>7 DEF ToldTheTruth, TellsPurge, Ended
<1>16. PurgeRemains'
  BY <1>1, <1>2, <1>5, <1>8 DEF HistorySane, PurgeRemains
<1>17. BetweenWrites'
  <2>1. \A k \in LoopId : loops'[k].pc # "purge_cfg"
    BY <1>3, <1>7 DEF Ended
  <2> QED
    BY <1>1, <1>5, <1>8, <2>1 DEF HistorySane, BetweenWrites
<1> QED
  BY <1>13, <1>14, <1>15, <1>16, <1>17 DEF HistorySane

\* The end of a purge and of a goroutine.
LEMMA LoopEndHistory ==
  ASSUME AllSane, NEW l \in LoopId,
         LoopClearsConfig(l) \/ LoopEndsPurge(l) \/ LoopExits(l)
  PROVE  HistorySane'
<1>1. /\ mem \in MemType /\ loops \in [LoopId -> LoopType] /\ db \in DbType
      /\ TypeInv /\ LoopsSane /\ HistorySane
  BY TypesSplit DEF AllSane, TypeInv, ProcessTypes, DiskTypes
<1>2. {"purged", "purge_wait", "exit"} \subseteq LoopStage
  BY DEF LoopStage
<1>3. /\ loops[l].pc \in {"purge_cfg", "purged", "exit"}
      /\ UNCHANGED <<server, keyring, db, up, user, halfway>>
      /\ cfg' = cfg \/ LoopClearsConfig(l)
  BY DEF LoopClearsConfig, LoopEndsPurge, LoopExits, disk
<1>4. /\ \A k \in LoopId : k # l => loops'[k] = loops[k]
      /\ \/ loops'[l].pc \in Ended
         \/ loops[l].pc = "purge_cfg" /\ loops'[l].pc = "purge_wait"
            /\ cfg' = cfg /\ mem' = mem
  <2>1. CASE LoopClearsConfig(l)
    <3>1. CASE Goes(l, "purged")
      BY <1>1, <1>2, <3>1, GoesEffect DEF Ended
    <3>2. CASE Goes(l, "purge_wait") /\ ~Goes(l, "purged")
      BY <1>1, <1>2, <2>1, <3>2, GoesEffect DEF LoopClearsConfig
    <3> QED
      BY <2>1, <3>1, <3>2 DEF LoopClearsConfig
  <2>2. CASE LoopEndsPurge(l)
    BY <1>1, <1>2, <2>2, GoesEffect DEF LoopEndsPurge, Ended
  <2>3. CASE LoopExits(l)
    BY <1>1, <2>3 DEF LoopExits, NoLoop, Ended
  <2> QED
    BY <2>1, <2>2, <2>3
<1>5. \A k \in LoopId : /\ Runs(k)' => (k # l /\ Runs(k)) \/ loops'[l].pc = "purge_wait"
                        /\ TellsPurge(k)' => TellsPurge(k)
  BY <1>4 DEF Runs, TellsPurge, Ended
<1>6. PurgeRemains' /\ BetweenWrites'
  <2>1. PurgeRemains'
    BY <1>1, <1>3, <1>4 DEF HistorySane, PurgeRemains
  <2>3. cfg = None => cfg' = None
    BY <1>3 DEF LoopClearsConfig
  <2>4. \A k \in LoopId : loops'[k].pc = "purge_cfg" => loops[k].pc = "purge_cfg"
    BY <1>4 DEF Ended
  <2>5. BetweenWrites'
    BY <1>1, <1>3, <2>3, <2>4 DEF HistorySane, BetweenWrites
  <2> QED
    BY <2>1, <2>5
<1>8. CASE cfg' = cfg /\ mem'.cfg = mem.cfg /\ mem'.keys = mem.keys /\ mem'.conn = mem.conn
  <2>1. /\ \A life : Same(life)' <=> Same(life)
        /\ \A t : SameToken(t)' <=> SameToken(t)
    BY <1>3, <1>8 DEF Same, SameToken, LifeOf, server
  <2>2. StoredTogether' /\ MemoryAsStored' /\ ConnectStored'
    BY <1>1, <1>3, <1>8, <2>1
       DEF HistorySane, StoredTogether, MemoryAsStored, ConnectStored, LifeOf, server
  <2>3. LoopsInHand'
    BY <1>1, <1>3, <1>4, <1>5, <1>8, <2>1
       DEF HistorySane, LoopsInHand, WithConnector, WithSocket, Streaming, Ended, Runs
  <2>4. ToldTheTruth'
    BY <1>1, <1>3, <1>5, <1>8 DEF HistorySane, ToldTheTruth, server
  <2> QED
    BY <1>6, <2>2, <2>3, <2>4 DEF HistorySane
<1>9. CASE ~(cfg' = cfg /\ mem'.cfg = mem.cfg /\ mem'.keys = mem.keys /\ mem'.conn = mem.conn)
  <2>1. LoopClearsConfig(l)
    BY <1>1, <1>3, <1>9 DEF LoopEndsPurge, LoopExits, Released, MemType
  <2>2. /\ cfg' = None /\ mem'.cfg = None /\ mem'.conn = None
        /\ loops[l].pc = "purge_cfg" /\ loops'[l].pc \in Ended
    BY <1>1, <1>4, <1>9, <2>1 DEF LoopClearsConfig, MemType, Ended
  <2>3. /\ user.pc \notin Connecting
        /\ \A k \in LoopId : k # l => loops[k].pc \in Ended /\ ~Runs(k)
    BY <1>1, <2>2, LoopExcludesCommand DEF Ended
  <2>4. db.token = None /\ db.index = {}
    BY <1>1, <2>2 DEF HistorySane, BetweenWrites
  <2>5. StoredTogether' /\ MemoryAsStored' /\ ConnectStored'
    BY <1>1, <1>3, <2>2, <2>3, <2>4, LifecycleAssumption
       DEF StoredTogether, SameToken, MemoryAsStored, ConnectStored, Connecting, Late
  <2>6. LoopsInHand' /\ ToldTheTruth'
    BY <1>3, <1>4, <2>2, <2>3, <2>4 DEF LoopsInHand, ToldTheTruth, TellsPurge, Runs, Ended
  <2> QED
    BY <1>6, <2>5, <2>6 DEF HistorySane
<1> QED
  BY <1>8, <1>9

\* The process ends: what was between two writes counts as cut short.
LEMMA GoneHistory ==
  ASSUME AllSane, Gone, UNCHANGED <<server, disk>>,
         ~halfway' => ~halfway /\ user.pc \notin (Late \ {"c_loop"}) \cup Disconnecting
  PROVE  HistorySane'
<1> USE DEF disk
<1>1. /\ up' = FALSE /\ user'.pc = "idle" /\ mem'.cfg = None /\ mem'.conn = None
      /\ \A l \in LoopId : loops'[l].pc = "none"
  BY DEF Gone, NoMemory, NoCommand, NoLoop
<1>2. /\ \A life : Same(life)' <=> Same(life)
      /\ \A t : SameToken(t)' <=> SameToken(t)
  BY DEF Same, SameToken, LifeOf, server
<1>3. TypeInv /\ LoopsSane /\ HistorySane
  BY DEF AllSane
<1>4. StoredTogether'
  BY <1>1, <1>2, <1>3, LifecycleAssumption DEF HistorySane, StoredTogether, SameToken
<1>5. ~halfway' /\ cfg # None => keyring = cfg
  <2>1. user.pc \in UserStage
    BY <1>3, TypesSplit DEF TypeInv, ProcessTypes, UserType
  <2>2. CASE user.pc = "idle"
    BY <1>3, <2>2 DEF HistorySane, MemoryAsStored
  <2>3. CASE user.pc = "stop"
    BY <1>3, <2>3, CommandIsUp
       DEF HistorySane, MemoryAsStored, LoopsSane, CommandFields, Forgotten
  <2>4. CASE user.pc = "c_finish"
    BY <1>3, <2>4 DEF HistorySane, MemoryAsStored
  <2>5. CASE user.pc = "c_loop"
    BY <1>3, <2>5 DEF HistorySane, ConnectStored, Late, Connecting
  <2> QED
    BY <2>1, <2>2, <2>3, <2>4, <2>5 DEF UserStage, Late, Connecting
<1>6. MemoryAsStored' /\ ConnectStored'
  BY <1>1, <1>5 DEF MemoryAsStored, ConnectStored, Connecting, Late
<1>7. LoopsInHand' /\ ToldTheTruth'
  BY <1>1 DEF LoopsInHand, ToldTheTruth, TellsPurge, Runs, Ended
<1>8. PurgeRemains' /\ BetweenWrites'
  BY <1>1, <1>3
     DEF HistorySane, PurgeRemains, BetweenWrites, Ended, server, Disconnecting
<1> QED
  BY <1>4, <1>6, <1>7, <1>8 DEF HistorySane

\* The ways a process ends leave what is stored as it was.
LEMMA EndsHistory ==
  ASSUME AllSane, Stop \/ Die \/ \E l \in LoopId : LoopPanics(l)
  PROVE  HistorySane'
<1>1. TypeInv /\ LoopsSane
  BY DEF AllSane
<1>2. CASE Stop
  BY <1>2, GoneHistory DEF Stop, disk, Late, Connecting, Disconnecting
<1>3. CASE Die
  BY <1>3, GoneHistory DEF Die, disk, Late, Connecting
<1>4. ASSUME NEW l \in LoopId, LoopPanics(l) PROVE HistorySane'
  <2>1. user.pc \notin Connecting \cup Disconnecting
    BY <1>1, <1>4, LoopExcludesCommand DEF LoopPanics, SyncMuFree, Ended
  <2> QED
    BY <1>4, <2>1, GoneHistory DEF LoopPanics, disk, Late
<1> QED
  BY <1>2, <1>3, <1>4

\* A start takes up what is stored, and makes a purge that was cut short good.
LEMMA StartHistory ==
  ASSUME AllSane, Start
  PROVE  HistorySane'
<1> DEFINE c == Recovered(cfg, db.state)
           conn == CASE c = None -> None
                     [] c # None /\ db.token = None -> Bare
                     [] OTHER -> db.token
           m == [NoMemory EXCEPT !.cfg = c, !.keys = keyring, !.conn = conn]
<1>1. Down /\ TypeInv /\ HistorySane /\ user.pc = "idle"
  BY DEF Start, AllSane, TypeInv, CommandsSane, Down, NoCommand
<1>2. c \in Workspace \cup {None} /\ keyring \in Workspace \cup {None} /\ db \in DbType
  BY <1>1, TypesSplit DEF Recovered, TypeInv, DiskTypes
<1>3. conn \in {None, Bare, db.token} /\ (c # None => conn # None)
  BY LifecycleAssumption
<1>4. m \in MemType /\ m.loopId = 0 /\ m.cancel = 0 /\ m.cfg = c /\ m.keys = keyring
      /\ m.conn = conn
  BY <1>2, <1>3, BlankTypes, LifecycleAssumption DEF MemType, NoMemory, DbType
<1>5. /\ mem' = IF c # None /\ keyring # None THEN StartLoop(m) ELSE m
      /\ loops' = IF mem'.loopId = 0 THEN loops
                  ELSE [loops EXCEPT ![1] = [NoLoop EXCEPT !.pc = "top"]]
      /\ cfg' = c
      /\ UNCHANGED <<server, keyring, db, user, halfway>>
  BY DEF Start
<1>6. c \in {None, cfg} /\ (db.state = "purged" => c = None)
  BY DEF Recovered
<1>7. c = cfg \/ db.state = "purged"
  BY DEF Recovered
<1> HIDE DEF c, m, conn
<1>8. mem'.cfg = c /\ mem'.keys = keyring /\ mem'.conn = conn
  BY <1>4, <1>5, StartLoopEffect, LifecycleAssumption
<1>9. \A l \in LoopId : loops'[l].pc \in {"none", "top"}
                        /\ (c = None => loops'[l].pc = "none")
  <2>1. NoLoop.pc = "none" /\ [NoLoop EXCEPT !.pc = "top"].pc = "top"
    BY DEF NoLoop
  <2>2. c = None => loops' = loops
    BY <1>4, <1>5
  <2> QED
    BY <1>1, <1>5, <2>1, <2>2 DEF Down
<1>10. StoredTogether'
  <2>1. CASE c = cfg
    <3>1. /\ \A life : Same(life)' <=> Same(life)
          /\ \A t : SameToken(t)' <=> SameToken(t)
      BY <1>5, <2>1 DEF Same, SameToken, LifeOf, server
    <3>2. SameToken(None) /\ SameToken(Bare)
      BY LifecycleAssumption DEF SameToken
    <3> QED
      BY <1>1, <1>3, <1>5, <1>8, <3>1, <3>2 DEF HistorySane, StoredTogether, Disconnecting
  <2>2. CASE db.state = "purged"
    BY <1>1, <1>3, <1>5, <1>8, <2>2, LifecycleAssumption
       DEF HistorySane, StoredTogether, PurgeRemains, SameToken
  <2> QED
    BY <1>7, <2>1, <2>2
<1>11. MemoryAsStored' /\ ConnectStored'
  BY <1>1, <1>3, <1>5, <1>6, <1>8
     DEF HistorySane, MemoryAsStored, ConnectStored, Connecting, Late
<1>12. LoopsInHand' /\ ToldTheTruth'
  BY <1>9 DEF LoopsInHand, ToldTheTruth, TellsPurge, WithConnector, WithSocket, Streaming
<1>13. PurgeRemains' /\ BetweenWrites'
  BY <1>1, <1>5, <1>6, <1>9
     DEF HistorySane, PurgeRemains, BetweenWrites, Ended, server, Disconnecting
<1> QED
  BY <1>10, <1>11, <1>12, <1>13 DEF HistorySane

\* With no loop at work nothing is said of loops.
LEMMA NoLoopInHand ==
  ASSUME \A l \in LoopId : loops'[l].pc \in Ended
  PROVE  /\ LoopsInHand' /\ ToldTheTruth'
         /\ \A l \in LoopId : loops'[l].pc # "purge_cfg"
         /\ \/ halfway' \/ db'.state # "purged"
            \/ db'.token = None /\ db'.index = {}
            => PurgeRemains'
  BY DEF LoopsInHand, ToldTheTruth, TellsPurge, PurgeRemains, Runs, Ended

\* A command begins where nothing is stored, or a former one was cut short.
LEMMA ConnectHistory ==
  ASSUME AllSane, ~hasty', NEW w \in Workspace, NEW create \in BOOLEAN,
         Connect(w, create)
  PROVE  HistorySane'
<1> USE DEF disk
<1>1. TypeInv /\ LoopsSane /\ HistorySane /\ user.pc = "idle" /\ up
      /\ Patient(w)
  BY DEF AllSane, Connect, Chooses
<1>2. /\ UNCHANGED <<rooted, accepted, of, due, cfg, keyring, db, up, mem, loops, rejected,
                     halfway>>
      /\ user'.pc = "c_finish" /\ user'.ws = w /\ user'.life = [ws |-> w, gen |-> gen'[w]]
  BY DEF Connect, NoCommand
<1>4. mem.cancel = 0 /\ \A l \in LoopId : ~loops[l].canceled
  BY <1>1 DEF Patient, LoopsSane, RunningLoop, Identified
<1>5. \A l \in LoopId : loops[l].pc \in Ended
  BY <1>1, <1>4, CancelIsNoLoopAtZero DEF LoopsSane, RunningLoop, Runs
<1>6. ~halfway => cfg = None
  BY <1>1, <1>4
     DEF HistorySane, MemoryAsStored, LoopsSane, CommandFields, Patient, Identified
<1>7. ~halfway => /\ db.index = {} /\ db.token \notin Token /\ mem.conn \notin Token
  <2>1. cfg = None => /\ \A life \in db.index : ~Same(life)
                      /\ \A t \in Token : ~SameToken(t)
    BY <1>1, LifecycleAssumption DEF Same, SameToken, Life, TypeInv, StateOK
  <2> QED
    BY <1>1, <1>6, <2>1 DEF HistorySane, StoredTogether, Disconnecting
<1>8. StoredTogether'
  BY <1>2, <1>7 DEF StoredTogether, SameToken
<1>9. MemoryAsStored'
  BY <1>1, <1>2, <1>6 DEF HistorySane, MemoryAsStored
<1>10. ConnectStored'
  BY <1>2 DEF ConnectStored, LifeOf, Late, Connecting
<1>11. LoopsInHand' /\ ToldTheTruth' /\ PurgeRemains' /\ BetweenWrites'
  BY <1>1, <1>2, <1>5, NoLoopInHand
     DEF HistorySane, PurgeRemains, BetweenWrites, Disconnecting
<1> QED
  BY <1>8, <1>9, <1>10, <1>11 DEF HistorySane

\* The session of connect is for the workspace it then stores.
LEMMA ConnectFinishHistory ==
  ASSUME AllSane, ConnectFinish
  PROVE  HistorySane'
<1>1. /\ TypeInv /\ LoopsSane /\ HistorySane /\ ServerTypes /\ mem \in MemType
      /\ user \in UserType /\ user.pc = "c_finish" /\ user.pc \in Connecting
  BY TypesSplit DEF AllSane, ConnectFinish, TypeInv, ProcessTypes, Connecting
<1>2. user.ws \in Workspace /\ user.life \in Life /\ user.life.ws = user.ws
  BY <1>1 DEF TypeInv, CommandsSane
<1>3. PICK t \in Token : t = NewToken /\ t \notin Held
  BY NewTokenIsNew DEF ConnectFinish
<1>4. /\ Issue(t, user.life)
      /\ mem' = [mem EXCEPT !.cfg = user.ws, !.keys = user.ws, !.conn = t]
      /\ UNCHANGED <<gen, present, rooted, keyring, db, up, loops>>
      /\ \/ /\ cfg' = user.ws /\ halfway' = halfway
            /\ user' = [user EXCEPT !.pc = "c_keyring", !.token = t,
                                    !.seen = user.life \in rooted]
         \/ user' = NoCommand /\ halfway' = TRUE /\ cfg' = cfg
  BY <1>3 DEF ConnectFinish, WriteFails
<1>5. of'[t] = user.life
  BY <1>1, <1>2, <1>3, <1>4, IssueEffect
<1>6. mem'.conn = t /\ mem'.cfg = user.ws /\ mem'.keys = user.ws
  BY <1>1, <1>2, <1>3, <1>4 DEF MemType
<1>7. \A l \in LoopId : loops'[l].pc \in Ended
  BY <1>1, <1>4, NoLoopWhileConnecting
<1>9. PurgeRemains' /\ LoopsInHand' /\ ToldTheTruth'
  BY <1>1, <1>4, <1>7, NoLoopInHand DEF HistorySane, PurgeRemains
<1>10. CASE cfg' = user.ws /\ halfway' = halfway
            /\ user' = [user EXCEPT !.pc = "c_keyring", !.token = t,
                                    !.seen = user.life \in rooted]
  <2>1. /\ user'.pc = "c_keyring" /\ user'.ws = user.ws /\ user'.life = user.life
        /\ user'.token = t
    BY <1>1, <1>10 DEF UserType
  <2>3. Same(user.life)'
    BY <1>2, <1>4, <1>10, <2>1 DEF Same
  <2>4. ~halfway => db.index = {} /\ db.token \notin Token
    <3>1. cfg = None => /\ \A life \in db.index : ~Same(life)
                        /\ \A x \in Token : ~SameToken(x)
      BY <1>1, LifecycleAssumption DEF Same, SameToken, Life, TypeInv, StateOK
    <3> QED
      BY <1>1, <3>1
         DEF HistorySane, MemoryAsStored, StoredTogether, Disconnecting, Connecting
  <2>5. SameToken(mem.conn)'
    BY <1>2, <1>5, <1>6, <2>1, <2>3 DEF SameToken, Same
  <2>6. StoredTogether'
    BY <1>4, <1>10, <2>4, <2>5 DEF StoredTogether, SameToken
  <2>7. MemoryAsStored' /\ ConnectStored' /\ BetweenWrites'
    BY <1>4, <1>5, <1>7, <1>10, <2>1, NoLoopInHand
       DEF MemoryAsStored, ConnectStored, BetweenWrites, LifeOf, Late, Connecting,
           Disconnecting
  <2> QED
    BY <1>9, <2>6, <2>7 DEF HistorySane
<1>11. CASE user' = NoCommand /\ halfway' = TRUE /\ cfg' = cfg
  <2>1. user'.pc = "idle"
    BY <1>11 DEF NoCommand
  <2>2. StoredTogether' /\ MemoryAsStored' /\ ConnectStored' /\ BetweenWrites'
    BY <1>7, <1>11, <2>1, NoLoopInHand
       DEF StoredTogether, MemoryAsStored, ConnectStored, BetweenWrites, Late, Connecting,
           Disconnecting
  <2> QED
    BY <1>9, <2>2 DEF HistorySane
<1> QED
  BY <1>4, <1>10, <1>11

\* A command that returns an error in the middle: only what holds of any state
\* is left to show.
LEMMA CutShortHistory ==
  ASSUME AllSane, halfway', user' = NoCommand, UNCHANGED <<server, mem, up, loops>>,
         user.pc \in Connecting
  PROVE  HistorySane'
<1>1. TypeInv /\ LoopsSane /\ HistorySane /\ user'.pc = "idle"
  BY DEF AllSane, NoCommand
<1>2. \A l \in LoopId : loops'[l].pc \in Ended
  BY <1>1, NoLoopWhileConnecting
<1>4. StoredTogether' /\ MemoryAsStored' /\ ConnectStored'
  BY <1>1 DEF StoredTogether, MemoryAsStored, ConnectStored, Late, Connecting
<1>5. LoopsInHand' /\ ToldTheTruth' /\ PurgeRemains' /\ BetweenWrites'
  BY <1>1, <1>2, NoLoopInHand DEF BetweenWrites, Disconnecting
<1> QED
  BY <1>4, <1>5 DEF HistorySane

\* The writes of connect, and its bootstrap, which makes good what was left.
LEMMA ConnectWritesHistory ==
  ASSUME AllSane,
         \/ ConnectStoresKeyring \/ ConnectStoresState
         \/ ConnectBootstraps \/ ConnectBootstrapFails
  PROVE  HistorySane'
<1> USE DEF disk
<1>1. /\ TypeInv /\ LoopsSane /\ HistorySane /\ db \in DbType /\ user \in UserType
      /\ user.pc \in Late /\ user.pc \in Connecting
      /\ UNCHANGED <<server, mem, up, loops, cfg>>
  BY TypesSplit
     DEF AllSane, TypeInv, ProcessTypes, DiskTypes, Connecting, Late, server,
         ConnectStoresKeyring, ConnectStoresState, ConnectBootstraps, ConnectBootstrapFails
<1>2. /\ user.ws \in Workspace /\ user.life \in Life /\ user.life.ws = user.ws
      /\ user.token \in Token /\ cfg = user.ws /\ of[user.token] = user.life
      /\ mem.cfg = user.ws /\ mem.keys = user.ws /\ mem.conn = user.token
  BY <1>1 DEF TypeInv, CommandsSane, HistorySane, ConnectStored, LoopsSane, CommandFields
<1>3. SameToken(user.token) /\ Same(user.life)
  BY <1>2 DEF SameToken, Same
<1>4. /\ \A life : Same(life)' <=> Same(life)
      /\ \A t : SameToken(t)' <=> SameToken(t)
  BY <1>1 DEF Same, SameToken, LifeOf, server
<1>5. \A l \in LoopId : loops'[l].pc \in Ended
  BY <1>1, NoLoopWhileConnecting
\* What the steps that succeed have in common.
<1>6. ASSUME user'.pc \in {"c_state", "c_bootstrap", "c_loop"}, user'.ws = user.ws,
             user'.life = user.life, user'.token = user.token,
             keyring' = user.ws, db'.token \in {db.token, user.token},
             \A life \in db'.index : \/ halfway' \/ Same(life)
                                     \/ ~halfway /\ life \in db.index,
             db'.token = user.token \/ halfway' = halfway,
             user'.pc \in {"c_bootstrap", "c_loop"} =>
               db'.token = user.token /\ db'.state = "syncing",
             (db' = db /\ halfway' = halfway) \/ db'.state = "syncing"
      PROVE  HistorySane'
  <2>1. user.pc \notin Disconnecting
    BY <1>1 DEF Late, Connecting, Disconnecting
  <2>2. StoredTogether'
    BY <1>1, <1>2, <1>3, <1>4, <1>6, <2>1 DEF HistorySane, StoredTogether
  <2>3. MemoryAsStored'
    BY <1>6 DEF MemoryAsStored
  <2>4. ConnectStored'
    BY <1>1, <1>2, <1>6 DEF ConnectStored, LifeOf, server
  <2>6. LoopsInHand' /\ ToldTheTruth' /\ PurgeRemains' /\ BetweenWrites'
    BY <1>1, <1>5, <1>6, NoLoopInHand DEF HistorySane, PurgeRemains, BetweenWrites, Disconnecting
  <2> QED
    BY <2>2, <2>3, <2>4, <2>6 DEF HistorySane
<1>7. CASE ConnectStoresKeyring
  <2>1. CASE WriteFails
    BY <1>1, <1>7, <2>1, CutShortHistory DEF ConnectStoresKeyring, WriteFails
  <2>2. CASE keyring' = user.ws /\ user' = [user EXCEPT !.pc = "c_state"] /\ halfway' = halfway
    <3>1. /\ user'.pc = "c_state" /\ user'.ws = user.ws /\ user'.life = user.life
          /\ user'.token = user.token
      BY <1>1, <2>2 DEF UserType
    <3>2. db' = db
      BY <1>7 DEF ConnectStoresKeyring
    <3>3. halfway \in BOOLEAN
      BY <1>1 DEF TypeInv, StateOK
    <3> QED
      BY <1>6, <2>2, <3>1, <3>2, <3>3
  <2> QED
    BY <1>7, <2>1, <2>2 DEF ConnectStoresKeyring
<1>8. CASE ConnectStoresState
  <2>1. CASE WriteFails /\ UNCHANGED db
    BY <1>1, <1>8, <2>1, CutShortHistory DEF ConnectStoresState, WriteFails
  <2>2. CASE /\ db' = [db EXCEPT !.state = "syncing", !.token = user.token]
             /\ user' = [user EXCEPT !.pc = IF user.seen THEN "c_bootstrap" ELSE "c_loop"]
             /\ halfway' = halfway
    <3>1. /\ user'.pc \in {"c_bootstrap", "c_loop"} /\ user'.ws = user.ws
          /\ user'.life = user.life /\ user'.token = user.token
      BY <1>1, <2>2 DEF UserType
    <3>2. db'.token = user.token /\ db'.state = "syncing" /\ db'.index = db.index
      BY <1>1, <2>2 DEF DbType
    <3>3. keyring' = user.ws
      BY <1>1, <1>8 DEF ConnectStoresState, HistorySane, ConnectStored
    <3>4. halfway \in BOOLEAN
      BY <1>1 DEF TypeInv, StateOK
    <3> QED
      BY <1>6, <2>2, <3>1, <3>2, <3>3, <3>4
  <2> QED
    BY <1>8, <2>1, <2>2 DEF ConnectStoresState
<1>9. CASE ConnectBootstraps
  <2>1. user.pc = "c_bootstrap" /\ keyring' = keyring /\ user' = [user EXCEPT !.pc = "c_loop"]
    BY <1>9 DEF ConnectBootstraps
  <2>1a. PICK i \in Bootstrapped(mem.conn) : db' = [db EXCEPT !.index = i]
    BY <1>9 DEF ConnectBootstraps
  <2>2. /\ user'.pc = "c_loop" /\ user'.ws = user.ws /\ user'.life = user.life
        /\ user'.token = user.token
    BY <1>1, <2>1 DEF UserType
  <2>3. db'.token = db.token /\ db'.state = db.state /\ db'.index = i
    BY <1>1, <2>1a DEF DbType
  <2>4. keyring = user.ws /\ db.token = user.token /\ db.state = "syncing"
    BY <1>1, <2>1 DEF HistorySane, ConnectStored
  <2>5. \A life \in i : Same(life)
    BY <1>2, <2>1a, BootstrappedIsFollowed DEF Same
  <2> QED
    BY <1>6, <2>1, <2>2, <2>3, <2>4, <2>5
<1>10. CASE ConnectBootstrapFails
  BY <1>1, <1>10, CutShortHistory DEF ConnectBootstrapFails
<1> QED
  BY <1>7, <1>8, <1>9, <1>10

\* The first and the last step of connect that touch nothing stored.
LEMMA ConnectEndsHistory ==
  ASSUME AllSane, TypeInv', ConnectGivesUp \/ ConnectStartsLoop
  PROVE  HistorySane'
<1> USE DEF disk
<1>1. /\ TypeInv /\ LoopsSane /\ HistorySane /\ user.pc \in Connecting
      /\ user'.pc = "idle" /\ UNCHANGED <<server, disk, up, halfway>>
      /\ mem \in MemType /\ loops \in [LoopId -> LoopType]
  BY TypesSplit
     DEF AllSane, ConnectGivesUp, ConnectStartsLoop, NoCommand, Connecting, TypeInv, ProcessTypes
<1>2. \A l \in LoopId : loops[l].pc \in Ended
  BY <1>1, NoLoopWhileConnecting
<1>3. /\ \A life : Same(life)' <=> Same(life)
      /\ \A t : SameToken(t)' <=> SameToken(t)
  BY <1>1 DEF Same, SameToken, LifeOf, server
<1>4. ConnectStored'
  BY <1>1 DEF HistorySane, ConnectStored, Late, Connecting, server
<1>5. user.pc \notin Disconnecting /\ user'.pc \notin Disconnecting
  BY <1>1 DEF Connecting, Disconnecting
<1>6. CASE ConnectGivesUp
  <2>1. user.pc = "c_finish" /\ UNCHANGED <<mem, loops>>
    BY <1>6 DEF ConnectGivesUp
  <2>2. StoredTogether' /\ MemoryAsStored'
    BY <1>1, <1>3, <1>5, <2>1, CommandIsUp DEF HistorySane, StoredTogether, MemoryAsStored
  <2>3. LoopsInHand' /\ ToldTheTruth' /\ PurgeRemains' /\ BetweenWrites'
    BY <1>1, <1>2, <1>5, <2>1, NoLoopInHand DEF HistorySane, PurgeRemains, BetweenWrites
  <2> QED
    BY <1>4, <2>2, <2>3 DEF HistorySane
<1>7. CASE ConnectStartsLoop
  <2> DEFINE m == [mem EXCEPT !.intentional = FALSE]
  <2>1. /\ user.pc = "c_loop" /\ user.pc \in Late /\ mem' = StartLoop(m)
        /\ loops' = WithLoopOf(mem', loops)
    BY <1>7 DEF ConnectStartsLoop, Late, Connecting
  <2>2. m \in MemType /\ m.loopId = mem.loopId /\ m.cfg = mem.cfg /\ m.keys = mem.keys
        /\ m.conn = mem.conn
    <3>1. FALSE \in BOOLEAN
      OBVIOUS
    <3> QED
      BY <1>1, <3>1, Zenon DEF MemType
  <2>3. mem.loopId < MaxLoops
    BY <1>1 DEF TypeInv, CommandsSane
  <2> HIDE DEF m
  <2>4. mem'.cfg = mem.cfg /\ mem'.keys = mem.keys /\ mem'.conn = mem.conn
    BY <2>1, <2>2, <2>3, StartLoopEffect
  <2>5. \A l \in LoopId : loops'[l].pc \in Ended \cup {"top"}
    <3>1. [NoLoop EXCEPT !.pc = "top"].pc = "top"
      BY DEF NoLoop
    <3> QED
      BY <1>1, <1>2, <2>1, <3>1 DEF WithLoopOf
  <2>6. /\ user.ws \in Workspace /\ cfg = user.ws /\ keyring = user.ws
        /\ mem.cfg = user.ws /\ mem.keys = user.ws /\ mem.conn \in Token
        /\ db.state = "syncing"
    BY <1>1, <2>1
       DEF TypeInv, CommandsSane, HistorySane, ConnectStored, LoopsSane, CommandFields
  <2>7. StoredTogether'
    BY <1>1, <1>3, <1>5, <2>4 DEF HistorySane, StoredTogether
  <2>8. MemoryAsStored'
    BY <1>1, <2>4, <2>6, LifecycleAssumption DEF MemoryAsStored
  <2>9. LoopsInHand' /\ ToldTheTruth'
    BY <2>5
       DEF LoopsInHand, ToldTheTruth, TellsPurge, WithConnector, WithSocket, Streaming,
           Ended, Runs
  <2>10. PurgeRemains' /\ BetweenWrites'
    BY <1>1, <1>5, <2>5, <2>6 DEF PurgeRemains, BetweenWrites, Ended
  <2> QED
    BY <1>4, <2>7, <2>8, <2>9, <2>10 DEF HistorySane
<1> QED
  BY <1>1, <1>6, <1>7

\* Disconnect takes the configuration, the keyring, then the rest.
LEMMA DisconnectHistory ==
  ASSUME AllSane, LoopsSane', Disconnect
  PROVE  HistorySane'
<1>1. /\ TypeInv /\ LoopsSane /\ HistorySane /\ mem \in MemType
      /\ loops \in [LoopId -> LoopType]
  BY TypesSplit DEF AllSane, TypeInv, ProcessTypes
<1>2. \A l \in LoopId : loops'[l].pc = loops[l].pc /\ loops'[l].err = loops[l].err
  BY <1>1, CanceledTypes DEF Disconnect
<1>3. mem'.conn = None /\ mem'.cancel = 0
  BY <1>1 DEF Disconnect, MemType
<1>4. \/ user'.pc = "d_keyring" /\ cfg' = None /\ halfway' = halfway
      \/ user'.pc = "idle" /\ halfway' /\ cfg' = cfg
  BY DEF Disconnect, WriteFails, NoCommand
<1>5. UNCHANGED <<server, keyring, db, up>> /\ \A l \in LoopId : loops[l].pc # "purge_cfg"
  BY DEF Disconnect, SyncMuFree, PurgeStoring
<1>6. StoredTogether' /\ MemoryAsStored' /\ ConnectStored' /\ BetweenWrites'
  BY <1>2, <1>4, <1>5
     DEF StoredTogether, MemoryAsStored, ConnectStored, BetweenWrites, Disconnecting,
         Connecting, Late
<1>7. LoopsInHand'
  <2>1. \A l \in LoopId : ~Runs(l)'
    BY <1>1, <1>3, CancelIsNoLoopAtZero DEF LoopsSane, RunningLoop
  <2> QED
    BY <2>1 DEF LoopsInHand
<1>8. ToldTheTruth'
  <2>1. mem'.conn \notin accepted'
    BY <1>1, <1>3, <1>5, LifecycleAssumption DEF TypeInv, StateOK, server
  <2>2. halfway \in BOOLEAN
    BY <1>1 DEF TypeInv, StateOK
  <2> QED
    BY <1>1, <1>2, <1>4, <1>5, <2>1, <2>2
       DEF HistorySane, ToldTheTruth, TellsPurge, server
<1>9. PurgeRemains'
  <2>1. halfway \in BOOLEAN
    BY <1>1 DEF TypeInv, StateOK
  <2> QED
    BY <1>1, <1>2, <1>4, <1>5, <2>1 DEF HistorySane, PurgeRemains, server
<1> QED
  BY <1>6, <1>7, <1>8, <1>9 DEF HistorySane

\* Disconnect clears the keyring, then the state database.
LEMMA DisconnectWritesHistory ==
  ASSUME AllSane, DisconnectClearsKeyring \/ DisconnectClearsState
  PROVE  HistorySane'
<1>1. /\ TypeInv /\ LoopsSane /\ HistorySane /\ user.pc \in Disconnecting
      /\ user \in UserType /\ UNCHANGED <<server, cfg, up, mem, loops>>
  BY TypesSplit
     DEF AllSane, TypeInv, ProcessTypes, DisconnectClearsKeyring, DisconnectClearsState, Disconnecting
<1>2. Forgotten /\ cfg = None /\ mem.conn = None /\ \A l \in LoopId : loops[l].pc # "purge_cfg"
  BY <1>1 DEF LoopsSane, CommandFields, Forgotten, HistorySane, BetweenWrites
<1>3. \/ user'.pc = "d_state" /\ halfway' = halfway /\ db' = db
      \/ user'.pc = "stop" /\ db' = Cleared("disconnected")
      \/ user'.pc = "idle" /\ halfway' /\ db' = db
  BY <1>1 DEF DisconnectClearsKeyring, DisconnectClearsState, WriteFails, NoCommand, UserType
<1>4. \/ user'.pc = "d_state" /\ halfway' = halfway /\ db' = db
      \/ user'.pc = "stop" /\ db'.token = None /\ db'.index = {} /\ db'.state = "disconnected"
      \/ user'.pc = "idle" /\ halfway' /\ db' = db
  BY <1>3 DEF Cleared
<1>6. ConnectStored' /\ BetweenWrites'
  BY <1>1, <1>2, <1>3 DEF ConnectStored, BetweenWrites, Connecting, Late
<1>7. StoredTogether' /\ MemoryAsStored'
  BY <1>1, <1>2, <1>4, LifecycleAssumption
     DEF StoredTogether, SameToken, MemoryAsStored, Disconnecting, Forgotten
<1>8. LoopsInHand'
  <2>1. \A l \in LoopId : ~Runs(l)'
    BY <1>1, <1>2, CancelIsNoLoopAtZero
       DEF LoopsSane, RunningLoop, Runs, Identified
  <2> QED
    BY <2>1 DEF LoopsInHand
<1>9. ToldTheTruth'
  <2>1. mem'.conn \notin accepted'
    BY <1>1, <1>2, LifecycleAssumption DEF TypeInv, StateOK, server
  <2> QED
    BY <1>1, <1>4, <2>1
       DEF HistorySane, ToldTheTruth, TellsPurge, server
<1>10. PurgeRemains'
  BY <1>1, <1>4 DEF HistorySane, PurgeRemains, server
<1> QED
  BY <1>6, <1>7, <1>8, <1>9, <1>10 DEF HistorySane

\* What makes no session accepted that was not, whatever is created or goes.
LEMMA ServerMovesHistory ==
  ASSUME AllSane, UNCHANGED <<of, disk, up, mem, loops, user, halfway>>,
         accepted' \subseteq accepted
  PROVE  HistorySane'
<1> USE DEF disk
<1>1. HistorySane
  BY DEF AllSane
<1>2. /\ \A life : Same(life)' <=> Same(life)
      /\ \A t : SameToken(t)' <=> SameToken(t)
  BY DEF Same, SameToken
<1>3. StoredTogether' /\ MemoryAsStored' /\ ConnectStored' /\ LoopsInHand'
  BY <1>1, <1>2
     DEF HistorySane, StoredTogether, MemoryAsStored, ConnectStored, LoopsInHand, Runs
<1>4. ToldTheTruth' /\ PurgeRemains' /\ BetweenWrites'
  BY <1>1, <1>2 DEF HistorySane, ToldTheTruth, TellsPurge, PurgeRemains, BetweenWrites
<1> QED
  BY <1>3, <1>4 DEF HistorySane

\* syna add writes roots of the life the session is for, which is there: no
\* loop has been told that it is gone.
LEMMA LocalOperationHistory ==
  ASSUME AllSane, LocalOperation
  PROVE  HistorySane'
<1> USE DEF disk
<1>1. /\ TypeInv /\ LoopsSane /\ HistorySane /\ db \in DbType
      /\ user.pc = "idle" /\ up /\ Identified
      /\ UNCHANGED <<gen, present, accepted, of, due, cfg, keyring, up, mem, loops, user, halfway>>
      /\ \A l \in LoopId : loops[l].pc # "purge_cfg"
  BY TypesSplit
     DEF AllSane, LocalOperation, Identified, TypeInv, DiskTypes, MuFree, PurgeStoring
<1>2. CASE mem.conn \notin accepted
  BY <1>1, <1>2, ServerMovesHistory DEF LocalOperation
<1>3. CASE mem.conn \in accepted
  <2> DEFINE life == of[mem.conn]
  <2>1. PICK i \in SUBSET (db.index \cup {life}) : db' = [db EXCEPT !.index = i]
    BY <1>3 DEF LocalOperation
  <2>2. mem.conn \in Token /\ life \in Life
    BY <1>1, <1>3 DEF TypeInv, StateOK, ServerSane
  <2>4. db'.index \subseteq db.index \cup {life} /\ db'.token = db.token /\ db'.state = db.state
    BY <1>1, <2>1 DEF DbType
  <2>5. ~halfway => \A l \in LoopId : ~TellsPurge(l)
    BY <1>1, <1>3 DEF HistorySane, ToldTheTruth
  <2>6. db.state = "purged" => halfway
    <3>1. ~halfway => mem.cancel \in LoopId /\ Runs(mem.cancel)
      BY <1>1, CancelIsNoLoopAtZero DEF LoopsSane, RunningLoop, CommandFields, LoopId
    <3> QED
      BY <1>1, <2>5, <3>1 DEF HistorySane, PurgeRemains, TellsPurge, Runs
  <2>7. ~halfway => Same(life)
    BY <1>1, <2>2 DEF HistorySane, StoredTogether, SameToken, Disconnecting
  <2> HIDE DEF life
  <2>8. /\ \A x : Same(x)' <=> Same(x)
        /\ \A t : SameToken(t)' <=> SameToken(t)
    BY <1>1 DEF Same, SameToken, LifeOf
  <2>9. StoredTogether'
    BY <1>1, <2>4, <2>7, <2>8 DEF HistorySane, StoredTogether
  <2>10. MemoryAsStored' /\ ConnectStored'
    BY <1>1 DEF HistorySane, MemoryAsStored, ConnectStored, Connecting, Late
  <2>11. LoopsInHand'
    BY <1>1, <2>8 DEF HistorySane, LoopsInHand, Runs
  <2>12. ToldTheTruth' /\ PurgeRemains' /\ BetweenWrites'
    BY <1>1, <2>4, <2>5, <2>6
       DEF ToldTheTruth, TellsPurge, PurgeRemains, BetweenWrites, Disconnecting
  <2> QED
    BY <2>9, <2>10, <2>11, <2>12 DEF HistorySane
<1> QED
  BY <1>2, <1>3

\* What other devices, the operator and the clock do.
LEMMA WorldHistory ==
  ASSUME AllSane, World
  PROVE  HistorySane'
<1>1. /\ UNCHANGED <<of, disk, up, mem, loops, user, halfway>>
      /\ accepted' \subseteq accepted
  BY DEF World, PeerCreates, PeerAddsRoot, Purge, TokenLapses
<1> QED
  BY <1>1, ServerMovesHistory

\* What is stored stays together, one action after the other.
LEMMA HistorySaneNext ==
  ASSUME AllSane, TypeInv', LoopsSane', [Next]_vars, ~hasty'
  PROVE  HistorySane'
<1>1. ASSUME NEW l \in LoopId, LoopStep(l) PROVE HistorySane'
  BY <1>1, QuietLoopStepsHistory, CachedHistory, SessionHistory, LoopEndHistory, EndsHistory
     DEF LoopStep
<1>2. CASE ConnectStep
  BY <1>2, ConnectFinishHistory, ConnectWritesHistory, ConnectEndsHistory DEF ConnectStep
<1>3. CASE Disconnect \/ DisconnectStep
  BY <1>3, DisconnectHistory, DisconnectWritesHistory, EndsHistory DEF DisconnectStep
<1>4. CASE UNCHANGED vars
  BY <1>4, ServerMovesHistory DEF vars, server
<1> QED
  BY <1>1, <1>2, <1>3, <1>4, ConnectHistory, EndsHistory, StartHistory,
     LocalOperationHistory, WorldHistory
     DEF Next

LEMMA AllSaneNext ==
  ASSUME AllSane, [Next]_vars, ~hasty'
  PROVE  AllSane'
<1>1. TypeInv' /\ LoopsSane'
  BY TypeInvNext, LoopsSaneNext DEF AllSane
<1>2. HistorySane'
  BY <1>1, HistorySaneNext
<1> QED
  BY <1>1, <1>2 DEF AllSane

AllSaneIfPatient == ~hasty => AllSane

LEMMA AllSaneAlways == Spec => []AllSaneIfPatient
<1>1. Init => AllSaneIfPatient
  BY TypeInvInit, LoopsSaneInit, HistorySaneInit DEF AllSane, AllSaneIfPatient
<1>2. AllSaneIfPatient /\ [Next]_vars => AllSaneIfPatient'
  BY AllSaneNext, PastMoves DEF AllSaneIfPatient, Remembered
<1> QED
  BY <1>1, <1>2, PTL DEF Spec

\* Once the state database says the workspace is gone nothing of it is left,
\* and no loop goes on with it, wherever the daemon dies.
THEOREM PurgedStaysQuiet == Spec => []PurgedIsQuiet
<1>1. AllSaneIfPatient => PurgedIsQuiet
  BY DEF AllSaneIfPatient, AllSane, HistorySane, PurgeRemains, PurgedIsQuiet, Works, Ended,
         InSync, Streaming
<1> QED
  BY <1>1, AllSaneAlways, PTL

-----------------------------------------------------------------------------
(***************************************************************************)
(* Of what lives the device's index is.                                    *)
(***************************************************************************)
\* What the device has, and what it could get with the sessions it has, is of
\* lives it got a session for since it last gave a workspace up.
Known ==
  /\ user.pc \in Late => user.life \in had
  /\ ~halfway =>
       /\ db.index \subseteq had
       /\ db.token \in Token => of[db.token] \in had
       /\ mem.conn \in accepted => of[mem.conn] \in had
       /\ \A l \in LoopId :
            Runs(l) /\ loops[l].pc \in WithConnector => of[mem.conn] \in had

\* A step that gets no session and gives nothing up.
LEMMA KnownStays ==
  ASSUME AllSane, Known, UNCHANGED <<of, had>>,
         user'.pc \in Late => user.pc \in Late /\ user'.life = user.life,
         ~halfway' =>
           /\ db'.index \subseteq had
           /\ db'.token \notin Token \/ of[db'.token] \in had
           /\ \/ mem'.conn \notin accepted' \/ of[mem'.conn] \in had
           /\ \A l \in LoopId :
                Runs(l)' /\ loops'[l].pc \in WithConnector => of[mem'.conn] \in had
  PROVE  Known'
  BY DEF Known

\* What a catch-up adds is known, where the session is.
LEMMA FollowedIsKnown ==
  ASSUME NEW t, NEW i \in Followed(t), db.index \subseteq had,
         t \in Token => of[t] \in had
  PROVE  i \subseteq had
  BY DEF Followed, RootsOf

\* A loop step that leaves memory, command and sessions, and goes on with the
\* connector only where it had it.
LEMMA LoopKeepsKnown ==
  ASSUME AllSane, Known, NEW l \in LoopId,
         \A k \in LoopId : k # l => loops'[k] = loops[k],
         UNCHANGED <<of, accepted, had, user, halfway>>, mem'.conn = mem.conn,
         Runs(l)' /\ loops'[l].pc \in WithConnector =>
           Runs(l) /\ loops[l].pc \in WithConnector,
         db'.token \in {db.token, None},
         db'.index \in Followed(mem.conn),
         \/ db'.index \subseteq db.index \/ mem.conn \in accepted
         \/ Runs(l) /\ loops[l].pc \in WithConnector
  PROVE  Known'
<1>1. ~halfway => db'.index \subseteq had
  BY FollowedIsKnown DEF Known
<1>2. ~halfway => db'.token \notin Token \/ of[db'.token] \in had
  BY LifecycleAssumption DEF Known
<1>3. ~halfway => \A k \in LoopId :
        Runs(k)' /\ loops'[k].pc \in WithConnector => of[mem.conn] \in had
  BY DEF Known, Runs
<1>4. ~halfway => mem.conn \notin accepted \/ of[mem.conn] \in had
  BY DEF Known
<1> QED
  BY <1>1, <1>2, <1>3, <1>4, KnownStays

\* The steps by which a loop gets no session.
LEMMA QuietLoopKnows ==
  ASSUME AllSane, Known, NEW l \in LoopId,
         \/ LoopTurns(l) \/ LoopTakesSync(l) \/ LoopStartsSession(l)
         \/ LoopFinishRefused(l) \/ LoopDials(l) \/ LoopSyncs(l)
         \/ LoopCatchesUp(l) \/ LoopRefused(l) \/ LoopHearsNothing(l)
         \/ LoopEndsStream(l) \/ LoopHearsRejection(l) \/ LoopWakes(l)
         \/ LoopTurnsFailed(l) \/ LoopWaits(l) \/ LoopAnnouncesPurge(l)
  PROVE  Known'
<1> USE DEF disk, server, past
<1>1. /\ mem \in MemType /\ loops \in [LoopId -> LoopType] /\ db \in DbType
      /\ TypeInv /\ LoopsSane
  BY TypesSplit DEF AllSane, TypeInv, ProcessTypes, DiskTypes
<1>2. /\ {"exit", "want_sync", "backoff", "session", "finish", "dial", "sync", "live",
          "woken", "top", "gone", "purge", "purge_cfg"} \subseteq LoopStage
      /\ Error = {"canceled", "renewal", "unauthorized", "not_found", "transport"}
  BY DEF LoopStage, InSync, Streaming, Error
<1>3. db.index \in Followed(mem.conn)
  BY DEF Followed
<1>4. ASSUME loops[l].pc \in {"sync", "woken"}, loops[l].pc = "woken" => mem.conn # None
      PROVE  Runs(l) /\ loops[l].pc \in WithConnector
  BY <1>1, <1>4
     DEF LoopsSane, StoppedLoops, Forgotten, Runs, Ended, InSync, WithConnector, Streaming
\* A step that leaves the state database.
<1>5. ASSUME NEW pc \in LoopStage, Goes(l, pc), mem'.conn = mem.conn,
             pc \notin WithConnector \/ (loops[l].pc = "live" /\ pc = "woken"),
             UNCHANGED <<of, accepted, db, had, user, halfway>>
      PROVE  Known'
  <2>1. Runs(l)' /\ loops'[l].pc \in WithConnector =>
          Runs(l) /\ loops[l].pc \in WithConnector
    BY <1>1, <1>5, GoesEffect DEF Runs, Ended, WithConnector, Streaming
  <2> QED
    BY <1>1, <1>3, <1>5, <2>1, GoesEffect, LoopKeepsKnown
\* A request that fails.
<1>6. ASSUME NEW e \in Error, Fails(l, e),
             UNCHANGED <<of, accepted, mem, had, user, halfway>>,
             \/ db' = db \/ Dialed
             \/ (loops[l].pc = "sync" \/ CanCatchUp(l)) /\ CatchUpFails
      PROVE  Known'
  <2>1. loops'[l].pc \notin WithConnector /\ \A k \in LoopId : k # l => loops'[k] = loops[k]
    BY <1>1, <1>6, FailsEffect DEF WithConnector, Streaming
  <2>2. CASE db' = db \/ Dialed
    <3>1. db'.token = db.token /\ db'.index = db.index
      BY <1>1, <2>2 DEF Dialed, DbType
    <3> QED
      BY <1>3, <1>6, <2>1, <3>1, LoopKeepsKnown
  <2>3. CASE (loops[l].pc = "sync" \/ CanCatchUp(l)) /\ CatchUpFails
    <3>1. PICK i \in Followed(mem.conn) : db' = [db EXCEPT !.index = i, !.state = db.state]
      BY <2>3 DEF CatchUpFails, CatchesUp
    <3>2. db'.token = db.token /\ db'.index = i
      BY <1>1, <3>1 DEF DbType
    <3>3. Runs(l) /\ loops[l].pc \in WithConnector
      BY <1>4, <2>3 DEF CanCatchUp
    <3> QED
      BY <1>6, <2>1, <3>2, <3>3, LoopKeepsKnown
  <2> QED
    BY <1>6, <2>2, <2>3
<1>7. CASE LoopTurns(l) \/ LoopTakesSync(l) \/ LoopWaits(l)
  <2>1. PICK pc \in {"exit", "want_sync", "backoff", "session", "top", "purge"} : Goes(l, pc)
    BY <1>7 DEF LoopTurns, LoopTakesSync, LoopWaits
  <2>2. pc \in LoopStage /\ pc \notin WithConnector
    BY <2>1 DEF LoopStage, InSync, WithConnector, Streaming
  <2> QED
    BY <1>5, <1>7, <2>1, <2>2 DEF LoopTurns, LoopTakesSync, LoopWaits
<1>8. CASE LoopStartsSession(l)
  <2>1. CASE \E e \in Error : Fails(l, e)
    BY <1>6, <1>8, <2>1 DEF LoopStartsSession
  <2>2. CASE loops' = [loops EXCEPT ![l].pc = "finish", ![l].life = LifeOf(mem.cfg)]
    <3>1. /\ loops'[l].pc \notin WithConnector
          /\ \A k \in LoopId : k # l => loops'[k] = loops[k]
      BY <1>1, <2>2 DEF LoopType, WithConnector, Streaming
    <3> QED
      BY <1>3, <1>8, <3>1, LoopKeepsKnown DEF LoopStartsSession
  <2> QED
    BY <1>2, <1>8, <2>1, <2>2 DEF LoopStartsSession
<1>9. CASE LoopFinishRefused(l) \/ LoopEndsStream(l)
  <2>1. PICK e \in Error : Fails(l, e)
    BY <1>2, <1>9 DEF LoopFinishRefused, LoopEndsStream
  <2> QED
    BY <1>6, <1>9, <2>1 DEF LoopFinishRefused, LoopEndsStream
<1>10. CASE LoopDials(l)
  <2>1. loops' = [loops EXCEPT ![l].pc = "sync", ![l].token = mem.conn]
    BY <1>10 DEF LoopDials
  <2>2. /\ loops'[l].canceled = loops[l].canceled
        /\ \A k \in LoopId : k # l => loops'[k] = loops[k]
    BY <1>1, <2>1 DEF LoopType
  <2>3. Runs(l)' => Runs(l) /\ loops[l].pc \in WithConnector
    BY <1>10, <2>2 DEF LoopDials, Runs, Ended, WithConnector
  <2>4. db'.token = db.token /\ db'.index = db.index
    BY <1>1, <1>10 DEF LoopDials, Dialed, DbType
  <2> QED
    BY <1>3, <1>10, <2>2, <2>3, <2>4, LoopKeepsKnown DEF LoopDials
<1>11. CASE LoopSyncs(l) \/ LoopCatchesUp(l)
  <2>1. PICK state \in ConnectionState, i \in Followed(mem.conn) :
          db' = [db EXCEPT !.index = i, !.state = state]
    <3>1. "live" \in ConnectionState /\ db.state \in ConnectionState
      BY <1>1 DEF ConnectionState, DbType
    <3> QED
      BY <1>11, <3>1 DEF LoopSyncs, LoopCatchesUp, CatchesUp
  <2>2. db'.token = db.token /\ db'.index = i
    BY <1>1, <2>1 DEF DbType
  <2>3. Runs(l) /\ loops[l].pc \in WithConnector
    BY <1>4, <1>11 DEF LoopSyncs, LoopCatchesUp, CanCatchUp
  <2>4. Goes(l, "live")
    BY <1>11 DEF LoopSyncs, LoopCatchesUp
  <2>5. \A k \in LoopId : k # l => loops'[k] = loops[k]
    BY <1>1, <1>2, <2>4, GoesEffect
  <2> QED
    BY <1>11, <2>2, <2>3, <2>5, LoopKeepsKnown DEF LoopSyncs, LoopCatchesUp
<1>12. CASE LoopRefused(l)
  BY <1>2, <1>6, <1>12 DEF LoopRefused
<1>13. CASE LoopHearsNothing(l)
  <2>1. PICK e \in Error : Fails(l, e)
    BY <1>2, <1>13 DEF LoopHearsNothing
  <2> QED
    BY <1>6, <1>13, <2>1 DEF LoopHearsNothing
<1>14. CASE LoopHearsRejection(l)
  <2>1. CASE Fails(l, "unauthorized")
    BY <1>2, <1>6, <1>14, <2>1 DEF LoopHearsRejection
  <2>2. CASE loops' = loops
    BY <1>3, <1>14, <2>2, LoopKeepsKnown DEF LoopHearsRejection, Runs
  <2> QED
    BY <1>14, <2>1, <2>2 DEF LoopHearsRejection
<1>15. CASE LoopWakes(l)
  BY <1>2, <1>5, <1>15 DEF LoopWakes
<1>16. CASE LoopTurnsFailed(l)
  <2>1. After(l) \in LoopStage /\ Goes(l, After(l)) /\ After(l) \notin WithConnector
    BY <1>2, <1>16, AfterEffect DEF LoopTurnsFailed, WithConnector, Streaming
  <2>2. loops'[l].pc \notin WithConnector /\ \A k \in LoopId : k # l => loops'[k] = loops[k]
    BY <1>1, <2>1, GoesEffect
  <2>3. db'.token \in {db.token, None} /\ db'.index = db.index
    BY <1>1, <1>16, AfterEffect DEF LoopTurnsFailed, DbType
  <2> QED
    BY <1>3, <1>16, <2>2, <2>3, LoopKeepsKnown DEF LoopTurnsFailed
<1>17. CASE LoopAnnouncesPurge(l)
  <2>1. mem'.conn = mem.conn /\ "purge" \notin WithConnector
    BY <1>1, <1>17 DEF LoopAnnouncesPurge, MemType, WithConnector, Streaming
  <2> QED
    BY <1>2, <1>5, <1>17, <2>1 DEF LoopAnnouncesPurge
<1> QED
  BY <1>7, <1>8, <1>9, <1>10, <1>11, <1>12, <1>13, <1>14, <1>15, <1>16, <1>17

\* The session that is still good is one the device got.
LEMMA CachedIsKnown ==
  ASSUME AllSane, Known, NEW l \in LoopId, LoopUsesCached(l)
  PROVE  Known'
<1>1. mem \in MemType /\ db \in DbType
  BY TypesSplit DEF AllSane, TypeInv, ProcessTypes, DiskTypes
<1>2. /\ mem'.conn = db.token /\ db.token \in Token
      /\ UNCHANGED <<of, accepted, had, user, halfway, db>>
  BY <1>1 DEF LoopUsesCached, Cached, MemType, DbType, disk, server, past
<1>3. ~halfway => of[db.token] \in had /\ db.index \subseteq had
  BY <1>2 DEF Known
<1> QED
  BY <1>2, <1>3, KnownStays

\* A new session makes its life known.
LEMMA SessionIsKnown ==
  ASSUME AllSane, Known, NEW t \in Token, t \notin Held, NEW life \in Life,
         Issue(t, life), had' = had \cup {life}, mem'.conn = t,
         db'.index = db.index, db'.token \in {t, db.token},
         user'.pc \in Late => user'.life = life,
         ~halfway' => ~halfway
  PROVE  Known'
<1>1. /\ of'[t] = life /\ \A x \in Held \cap Token : of'[x] = of[x]
  BY IssueEffect, TypesSplit DEF AllSane, TypeInv
<1>2. db.token \in Token => of'[db.token] = of[db.token]
  BY <1>1 DEF Held
<1> QED
  BY <1>1, <1>2 DEF Known

\* A loop gets a session.
LEMMA LoopSessionIsKnown ==
  ASSUME AllSane, Known, NEW l \in LoopId, LoopFinishesSession(l)
  PROVE  Known'
<1>1. /\ mem \in MemType /\ db \in DbType /\ TypeInv /\ LoopsSane
      /\ loops[l].pc = "finish" /\ loops[l].pc \notin Ended
  BY TypesSplit DEF AllSane, TypeInv, ProcessTypes, DiskTypes, LoopFinishesSession, Ended
<1>2. PICK t \in Token : t = NewToken /\ t \notin Held /\ loops[l].life \in Life
  BY <1>1, NewTokenIsNew DEF LoopFinishesSession, TypeInv, CommandsSane
<1>3. mem' = [mem EXCEPT !.conn = t] /\ Issue(t, loops[l].life)
      /\ (db' = [db EXCEPT !.token = t, !.state = "syncing"] \/ db' = db)
  BY <1>2 DEF LoopFinishesSession
<1>4. mem'.conn = t /\ db'.index = db.index /\ db'.token \in {t, db.token}
  BY <1>1, <1>2, <1>3 DEF MemType, DbType
<1>5. user'.pc \notin Late /\ halfway' = halfway /\ had' = had \cup {loops[l].life}
  BY <1>1, LoopExcludesCommand DEF LoopFinishesSession, Late
<1> QED
  BY <1>2, <1>3, <1>4, <1>5, SessionIsKnown

\* Connect gets one.
LEMMA ConnectSessionIsKnown ==
  ASSUME AllSane, Known, ConnectFinish
  PROVE  Known'
<1>1. /\ mem \in MemType /\ user \in UserType /\ TypeInv /\ user.pc \in Connecting
  BY TypesSplit DEF AllSane, TypeInv, ProcessTypes, ConnectFinish, Connecting
<1>2. user.ws \in Workspace /\ user.life \in Life
  BY <1>1 DEF TypeInv, CommandsSane
<1>3. PICK t \in Token : t = NewToken /\ t \notin Held
  BY NewTokenIsNew DEF ConnectFinish
<1>4. /\ Issue(t, user.life) /\ had' = had \cup {user.life} /\ db' = db
      /\ mem' = [mem EXCEPT !.cfg = user.ws, !.keys = user.ws, !.conn = t]
      /\ \/ /\ user' = [user EXCEPT !.pc = "c_keyring", !.token = t,
                                    !.seen = user.life \in rooted]
            /\ halfway' = halfway
         \/ user' = NoCommand /\ halfway' = TRUE
  BY <1>3 DEF ConnectFinish, WriteFails
<1>5. mem'.conn = t
  BY <1>1, <1>2, <1>3, <1>4 DEF MemType
<1>6. user'.pc \in Late => user'.life = user.life
  <2>1. CASE user' = NoCommand
    BY <2>1 DEF NoCommand, Late, Connecting
  <2>2. CASE user' # NoCommand
    <3> DEFINE b == user.life \in rooted
    <3>1. b \in BOOLEAN
      OBVIOUS
    <3>2. user' = [user EXCEPT !.pc = "c_keyring", !.token = t, !.seen = b]
      BY <1>4, <2>2
    <3> HIDE DEF b
    <3> QED
      BY <1>1, <3>1, <3>2 DEF UserType
  <2> QED
    BY <2>1, <2>2
<1> QED
  BY <1>2, <1>3, <1>4, <1>5, <1>6, SessionIsKnown

\* A purge gives everything up, and what it leaves in memory is refused.
LEMMA PurgeForgets ==
  ASSUME AllSane, Known, NEW l \in LoopId, LoopClearsState(l)
  PROVE  Known'
<1>1. /\ loops \in [LoopId -> LoopType] /\ TypeInv /\ LoopsSane /\ HistorySane
      /\ loops[l].pc = "purge" /\ loops[l].pc \notin Ended
      /\ UNCHANGED <<accepted, mem, user, halfway>> /\ "purge_cfg" \in LoopStage
  BY TypesSplit
     DEF AllSane, TypeInv, ProcessTypes, LoopClearsState, Ended, LoopStage, server
<1>2. db'.index = {} /\ db'.token = None
  BY DEF LoopClearsState, Cleared
<1>3. user.pc \notin Late
  BY <1>1, LoopExcludesCommand DEF Late
<1>4. ~halfway => mem.conn \notin accepted
  BY <1>1 DEF HistorySane, ToldTheTruth, TellsPurge
<1>5. \A k \in LoopId : Runs(k)' => loops'[k].pc \notin WithConnector
  <2>1. loops'[l].pc = "purge_cfg" /\ \A k \in LoopId : k # l => loops'[k] = loops[k]
    BY <1>1, GoesEffect DEF LoopClearsState
  <2>2. \A k \in LoopId : k # l => ~Runs(k)
    BY <1>1, LoopExcludesCommand
  <2> QED
    BY <2>1, <2>2 DEF Runs, WithConnector, Streaming
<1> QED
  BY <1>1, <1>2, <1>3, <1>4, <1>5, LifecycleAssumption DEF Known

\* The end of a purge and of a goroutine.
LEMMA LoopEndKnows ==
  ASSUME AllSane, Known, NEW l \in LoopId,
         LoopClearsConfig(l) \/ LoopEndsPurge(l) \/ LoopExits(l)
  PROVE  Known'
<1>1. /\ mem \in MemType /\ loops \in [LoopId -> LoopType]
      /\ {"purged", "purge_wait", "exit"} \subseteq LoopStage
      /\ UNCHANGED <<of, accepted, had, user, halfway, db>>
  BY TypesSplit
     DEF AllSane, TypeInv, ProcessTypes, LoopStage, LoopClearsConfig, LoopEndsPurge,
         LoopExits, disk, server, past
<1>2. /\ loops'[l].pc \notin WithConnector
      /\ \A k \in LoopId : k # l => loops'[k] = loops[k]
  <2>1. CASE \E pc \in {"purged", "purge_wait", "exit"} : Goes(l, pc)
    BY <1>1, <2>1, GoesEffect DEF WithConnector, Streaming
  <2>2. CASE LoopExits(l)
    BY <1>1, <2>2 DEF LoopExits, NoLoop, WithConnector, Streaming
  <2> QED
    BY <2>1, <2>2 DEF LoopClearsConfig, LoopEndsPurge
<1>3. mem'.conn \in {mem.conn, None}
  BY <1>1 DEF LoopClearsConfig, LoopEndsPurge, LoopExits, Released, MemType
<1>4. None \notin accepted
  BY LifecycleAssumption DEF AllSane, TypeInv, StateOK
<1>5. \A k \in LoopId : Runs(k)' /\ loops'[k].pc \in WithConnector =>
        Runs(k) /\ loops[k].pc \in WithConnector
  BY <1>2 DEF Runs
<1>6. mem'.conn # mem.conn =>
        \A k \in LoopId : ~(Runs(k)' /\ loops'[k].pc \in WithConnector)
  <2>1. mem'.conn # mem.conn => loops[l].pc = "purge_cfg"
    BY <1>1 DEF LoopClearsConfig, LoopEndsPurge, LoopExits, Released, MemType
  <2>2. loops[l].pc = "purge_cfg" => \A k \in LoopId : k # l => ~Runs(k)
    BY LoopExcludesCommand DEF AllSane, Ended
  <2> QED
    BY <1>2, <1>5, <2>1, <2>2
<1> QED
  BY <1>1, <1>3, <1>4, <1>5, <1>6, KnownStays DEF Known

\* The steps of connect after its session.
LEMMA ConnectKnows ==
  ASSUME AllSane, Known,
         \/ ConnectGivesUp \/ ConnectStoresKeyring \/ ConnectStoresState
         \/ ConnectBootstraps \/ ConnectBootstrapFails \/ ConnectStartsLoop
  PROVE  Known'
<1> USE DEF disk, server, past
<1>1. /\ mem \in MemType /\ user \in UserType /\ db \in DbType /\ TypeInv /\ LoopsSane
      /\ user.pc \in Connecting /\ UNCHANGED <<of, accepted, had>>
  BY TypesSplit
     DEF AllSane, TypeInv, ProcessTypes, DiskTypes, ConnectGivesUp, ConnectStoresKeyring,
         ConnectStoresState, ConnectBootstraps, ConnectBootstrapFails, ConnectStartsLoop,
         Connecting
<1>2. \A l \in LoopId : loops[l].pc \in Ended
  BY <1>1, NoLoopWhileConnecting
<1>3. user.pc \in Late =>
        /\ mem.conn = user.token /\ user.token \in Token
        /\ of[user.token] = user.life /\ user.life \in had
  BY <1>1
     DEF LoopsSane, CommandFields, TypeInv, CommandsSane, AllSane, HistorySane,
         ConnectStored, Known
\* A step that leaves memory and loops.
<1>4. ASSUME mem'.conn = mem.conn, \A l \in LoopId : loops'[l].pc \notin WithConnector,
             user'.pc \in Late => user.pc \in Late /\ user'.life = user.life,
             ~halfway' =>
               /\ db'.index \subseteq had
               /\ db'.token \notin Token \/ of[db'.token] \in had,
             user.pc \in Late \/ ~halfway' => ~halfway
      PROVE  Known'
  BY <1>1, <1>3, <1>4, KnownStays DEF Known
<1>5. loops' = loops => \A l \in LoopId : loops'[l].pc \notin WithConnector
  BY <1>2 DEF Ended, WithConnector, Streaming
<1>6. ASSUME user' = NoCommand, halfway' = TRUE PROVE Known'
  BY <1>6 DEF Known, NoCommand, Late, Connecting
<1>7. CASE ConnectGivesUp
  BY <1>5, <1>7, KnownStays DEF ConnectGivesUp, Known, NoCommand, Late, Connecting
<1>8. CASE ConnectStoresKeyring
  <2>1. CASE WriteFails
    BY <1>6, <2>1 DEF WriteFails
  <2>2. CASE user' = [user EXCEPT !.pc = "c_state"] /\ halfway' = halfway
    <3>1. user'.life = user.life
      BY <1>1, <2>2 DEF UserType
    <3>2. user.pc \in Late
      BY <1>8 DEF ConnectStoresKeyring, Late, Connecting
    <3> QED
      BY <1>5, <1>8, <2>2, <3>1, <3>2, KnownStays DEF ConnectStoresKeyring, Known
  <2> QED
    BY <1>8, <2>1, <2>2 DEF ConnectStoresKeyring
<1>9. CASE ConnectStoresState
  <2>1. CASE WriteFails
    BY <1>6, <2>1 DEF WriteFails
  <2>2. CASE /\ db' = [db EXCEPT !.state = "syncing", !.token = user.token]
             /\ user' = [user EXCEPT !.pc = IF user.seen THEN "c_bootstrap" ELSE "c_loop"]
             /\ halfway' = halfway
    <3>1. user'.life = user.life /\ db'.token = user.token /\ db'.index = db.index
      BY <1>1, <2>2 DEF UserType, DbType
    <3>2. user.pc \in Late
      BY <1>9 DEF ConnectStoresState, Late, Connecting
    <3> QED
      BY <1>3, <1>5, <1>9, <2>2, <3>1, <3>2, KnownStays DEF ConnectStoresState, Known
  <2> QED
    BY <1>9, <2>1, <2>2 DEF ConnectStoresState
<1>10. CASE ConnectBootstraps
  <2>1. /\ user.pc = "c_bootstrap" /\ user.pc \in Late
        /\ user' = [user EXCEPT !.pc = "c_loop"] /\ UNCHANGED <<mem, loops>>
        /\ halfway' = (halfway /\ ~(db'.index \subseteq {of[mem.conn]}))
    BY <1>10 DEF ConnectBootstraps, Late, Connecting
  <2>2. PICK i \in Bootstrapped(mem.conn) : db' = [db EXCEPT !.index = i]
    BY <1>10 DEF ConnectBootstraps
  <2>3. db'.token = db.token /\ db'.index = i
    BY <1>1, <2>2 DEF DbType
  <2>4. user'.life = user.life
    BY <1>1, <2>1 DEF UserType
  <2>5. db.token = user.token
    BY <2>1 DEF AllSane, HistorySane, ConnectStored
  <2>6. ~halfway' => i \subseteq had
    <3>1. CASE ~halfway
      BY <1>3, <2>1, <3>1, BootstrappedIsFollowed, FollowedIsKnown DEF Known
    <3>2. CASE i \subseteq {of[mem.conn]}
      BY <1>3, <2>1, <3>2
    <3> QED
      BY <2>1, <2>3, <3>1, <3>2
  <2> QED
    BY <1>1, <1>3, <1>5, <2>1, <2>3, <2>4, <2>5, <2>6, KnownStays
<1>11. CASE ConnectBootstrapFails
  BY <1>6, <1>11 DEF ConnectBootstrapFails
<1>12. CASE ConnectStartsLoop
  <2> DEFINE m == [mem EXCEPT !.intentional = FALSE]
  <2>1. /\ user.pc \in Late /\ user' = NoCommand /\ halfway' = halfway /\ db' = db
        /\ mem' = StartLoop(m) /\ loops' = WithLoopOf(mem', loops)
        /\ mem.loopId < MaxLoops
    BY <1>1, <1>12 DEF ConnectStartsLoop, Late, Connecting, TypeInv, CommandsSane
  <2>2. m \in MemType /\ m.conn = mem.conn /\ m.loopId = mem.loopId
    <3>1. FALSE \in BOOLEAN
      OBVIOUS
    <3> QED
      BY <1>1, <3>1, Zenon DEF MemType
  <2> HIDE DEF m
  <2>3. mem'.conn = mem.conn
    BY <2>1, <2>2, StartLoopEffect
  <2>4. \A l \in LoopId : loops'[l].pc \notin WithConnector
    <3>1. loops \in [LoopId -> LoopType] /\ [NoLoop EXCEPT !.pc = "top"].pc = "top"
      BY <1>1, TypesSplit DEF TypeInv, ProcessTypes, NoLoop
    <3> QED
      BY <1>2, <2>1, <3>1 DEF WithLoopOf, Ended, WithConnector, Streaming
  <2>5. user'.pc \notin Late
    BY <2>1 DEF NoCommand, Late, Connecting
  <2> QED
    BY <1>1, <1>3, <2>1, <2>3, <2>4, <2>5, KnownStays DEF Known
<1> QED
  BY <1>7, <1>8, <1>9, <1>10, <1>11, <1>12

\* A disconnect, which ends by giving everything up.
LEMMA DisconnectKnows ==
  ASSUME AllSane, AllSane', Known,
         Disconnect \/ DisconnectClearsKeyring \/ DisconnectClearsState
  PROVE  Known'
<1> USE DEF disk, server, past
<1>1. /\ mem \in MemType /\ user \in UserType /\ TypeInv /\ LoopsSane /\ LoopsSane'
      /\ UNCHANGED <<of, accepted>> /\ None \notin accepted
      /\ user'.pc \notin Late
      /\ (~halfway' /\ user'.pc # "stop" => ~halfway)
  BY TypesSplit, LifecycleAssumption
     DEF AllSane, TypeInv, StateOK, ProcessTypes, Disconnect, DisconnectClearsKeyring,
         DisconnectClearsState, WriteFails, NoCommand, UserType, Late, Connecting
<1>2. mem'.conn = None
  <2>1. CASE Disconnect
    BY <1>1, <2>1 DEF Disconnect, MemType
  <2>2. CASE DisconnectClearsKeyring \/ DisconnectClearsState
    BY <1>1, <2>2
       DEF DisconnectClearsKeyring, DisconnectClearsState, LoopsSane, CommandFields,
           Disconnecting, Forgotten
  <2> QED
    BY <2>1, <2>2
<1>3. \A l \in LoopId : ~Runs(l)'
  <2>1. mem'.conn # None \/ mem'.cancel = 0
    BY <1>1 DEF LoopsSane, RunningLoop, Identified
  <2> QED
    BY <1>1, <1>2, <2>1 DEF LoopsSane, RunningLoop, LoopId
<1>4. CASE had' = had /\ db' = db /\ (~halfway' => ~halfway)
  BY <1>1, <1>2, <1>3, <1>4, KnownStays DEF Known
<1>5. CASE had' = {} /\ db' = Cleared("disconnected")
  <2>1. db'.index = {} /\ db'.token = None
    BY <1>5 DEF Cleared
  <2> QED
    BY <1>1, <1>2, <1>3, <2>1, LifecycleAssumption DEF Known
<1>6. CASE Disconnect \/ DisconnectClearsKeyring
  <2>1. had' = had /\ db' = db /\ (halfway' = halfway \/ WriteFails)
    BY <1>6 DEF Disconnect, DisconnectClearsKeyring
  <2>2. WriteFails => halfway'
    BY DEF WriteFails
  <2> QED
    BY <1>4, <2>1, <2>2
<1>7. CASE DisconnectClearsState
  <2>1. \/ db' = Cleared("disconnected") /\ had' = {}
        \/ WriteFails /\ db' = db /\ had' = had
    BY <1>7 DEF DisconnectClearsState
  <2>2. WriteFails => halfway'
    BY DEF WriteFails
  <2> QED
    BY <1>4, <1>5, <2>1, <2>2
<1> QED
  BY <1>6, <1>7

\* The process ends or starts; connect begins; the rest of the world.
LEMMA OthersKnow ==
  ASSUME AllSane, Known,
         \/ \E w \in Workspace, create \in BOOLEAN : Connect(w, create)
         \/ Stop \/ Die \/ (\E l \in LoopId : LoopPanics(l)) \/ Start
         \/ LocalOperation \/ World \/ UNCHANGED vars
  PROVE  Known'
<1> USE DEF disk, server, past
<1>1. TypeInv /\ LoopsSane /\ db \in DbType /\ None \notin accepted /\ Bare \notin accepted
  BY TypesSplit, LifecycleAssumption DEF AllSane, TypeInv, StateOK, DiskTypes
<1>2. CASE Stop \/ Die \/ \E l \in LoopId : LoopPanics(l)
  <2>1. Gone /\ UNCHANGED <<of, had, db>> /\ (~halfway' => ~halfway)
    <3>1. CASE Die
      <4>1. ASSUME halfway PROVE halfway' = TRUE
        BY <3>1, <4>1 DEF Die
      <4> QED
        BY <3>1, <4>1 DEF Die
    <3>2. CASE Stop \/ \E l \in LoopId : LoopPanics(l)
      BY <3>2 DEF Stop, LoopPanics
    <3> QED
      BY <1>2, <3>1, <3>2
  <2>2. /\ mem'.conn = None /\ user'.pc \notin Late /\ accepted' = accepted
        /\ \A l \in LoopId : loops'[l].pc \notin WithConnector
    BY <1>2, <2>1
       DEF Gone, NoMemory, NoCommand, NoLoop, Late, Connecting, WithConnector, Streaming,
           Stop, Die, LoopPanics
  <2> QED
    BY <1>1, <2>1, <2>2, KnownStays DEF Known
<1>3. CASE Start
  <2> DEFINE c == Recovered(cfg, db.state)
             conn == CASE c = None -> None
                       [] c # None /\ db.token = None -> Bare
                       [] OTHER -> db.token
             m == [NoMemory EXCEPT !.cfg = c, !.keys = keyring, !.conn = conn]
  <2>1. Down /\ UNCHANGED <<of, accepted, had, db, halfway, user>>
    BY <1>1, <1>3 DEF Start, TypeInv, CommandsSane
  <2>2. conn \in {None, Bare, db.token}
    OBVIOUS
  <2>3. /\ mem' = IF c # None /\ keyring # None THEN StartLoop(m) ELSE m
        /\ loops' = IF mem'.loopId = 0 THEN loops
                    ELSE [loops EXCEPT ![1] = [NoLoop EXCEPT !.pc = "top"]]
    BY <1>3 DEF Start
  <2>4. c \in Workspace \cup {None} /\ keyring \in Workspace \cup {None}
    BY <1>1, TypesSplit DEF Recovered, TypeInv, DiskTypes
  <2>5. m \in MemType /\ m.conn = conn /\ m.loopId = 0
    BY <1>1, <2>2, <2>4, BlankTypes, LifecycleAssumption DEF MemType, NoMemory, DbType
  <2> HIDE DEF c, m, conn
  <2>6. mem'.conn = conn
    BY <2>3, <2>5, StartLoopEffect, LifecycleAssumption
  <2>7. \A l \in LoopId : loops'[l].pc \notin WithConnector
    <3>1. NoLoop.pc = "none" /\ [NoLoop EXCEPT !.pc = "top"].pc = "top"
      BY DEF NoLoop
    <3> QED
      BY <2>1, <2>3, <3>1 DEF Down, WithConnector, Streaming
  <2>8. mem'.conn \in accepted => mem'.conn = db.token /\ db.token \in Token
    BY <1>1, <2>2, <2>6 DEF TypeInv, StateOK
  <2> QED
    BY <2>1, <2>7, <2>8, KnownStays DEF Known
<1>4. CASE LocalOperation
  <2>1. UNCHANGED <<of, accepted, had, mem, loops, user, halfway>>
    BY <1>4 DEF LocalOperation
  <2>2. db'.token = db.token /\ (~halfway => db'.index \subseteq had)
    <3>1. CASE mem.conn \in accepted
      <4>1. PICK i \in SUBSET (db.index \cup {of[mem.conn]}) : db' = [db EXCEPT !.index = i]
        BY <1>4, <3>1 DEF LocalOperation
      <4>2. db'.token = db.token /\ db'.index = i
        BY <1>1, <4>1 DEF DbType
      <4> QED
        BY <3>1, <4>1, <4>2 DEF Known
    <3>2. CASE mem.conn \notin accepted
      BY <1>4, <3>2 DEF LocalOperation, Known
    <3> QED
      BY <3>1, <3>2
  <2> QED
    BY <2>1, <2>2, KnownStays DEF Known, Runs
<1>5. CASE World \/ UNCHANGED vars
  <2>1. UNCHANGED <<of, had, db, mem, loops, user, halfway>> /\ accepted' \subseteq accepted
    BY <1>5 DEF World, PeerCreates, PeerAddsRoot, Purge, TokenLapses, vars
  <2> QED
    BY <2>1, KnownStays DEF Known, Runs
<1>6. CASE \E w \in Workspace, create \in BOOLEAN : Connect(w, create)
  <2>1. UNCHANGED <<of, accepted, had, db, mem, loops, halfway>> /\ user'.pc \notin Late
    BY <1>6 DEF Connect, NoCommand, Late, Connecting
  <2> QED
    BY <2>1, KnownStays DEF Known, Runs
<1> QED
  BY <1>2, <1>3, <1>4, <1>5, <1>6

LEMMA KnownNext ==
  ASSUME AllSane, AllSane', Known, [Next]_vars
  PROVE  Known'
<1>1. ASSUME NEW l \in LoopId, LoopStep(l) PROVE Known'
  BY <1>1, QuietLoopKnows, CachedIsKnown, LoopSessionIsKnown, PurgeForgets, LoopEndKnows,
     OthersKnow
     DEF LoopStep
<1>2. CASE ConnectStep
  BY <1>2, ConnectSessionIsKnown, ConnectKnows DEF ConnectStep
<1>3. CASE Disconnect \/ DisconnectStep
  BY <1>3, DisconnectKnows, OthersKnow DEF DisconnectStep
<1> QED
  BY <1>1, <1>2, <1>3, OthersKnow DEF Next

KnownIfPatient == ~hasty => Known

\* What a device says it is live with is of the workspace of its session, and of
\* a life it got a session for since it last gave a workspace up.
THEOREM LiveIndexOfThisLife == Spec => []LiveIndexIsOfThisLife
<1>1. Init => KnownIfPatient
  BY LifecycleAssumption
     DEF Init, KnownIfPatient, Known, NoMemory, NoCommand, NoLoop, Late, Connecting,
         WithConnector, Streaming
<1>2. AllSaneIfPatient /\ AllSaneIfPatient' /\ KnownIfPatient /\ [Next]_vars
        => KnownIfPatient'
  BY KnownNext, PastMoves DEF AllSaneIfPatient, KnownIfPatient, Remembered
<1>3. AllSaneIfPatient /\ KnownIfPatient => LiveIndexIsOfThisLife
  <2> SUFFICES ASSUME AllSane, Known, NEW l \in LoopId, ~halfway, loops[l].pc = "live",
                      ~loops[l].canceled, NEW life \in db.index
               PROVE  life \in had /\ life.ws = of[loops[l].token].ws
    BY DEF LiveIndexIsOfThisLife, AllSaneIfPatient, KnownIfPatient
  <2>1. Runs(l) /\ TypeInv /\ LoopsSane /\ HistorySane
    BY DEF Runs, Ended, AllSane
  <2>2. user.pc = "idle"
    BY <2>1, LoopExcludesCommand DEF Ended
  <2>3. loops[l].token \in Token /\ SameToken(loops[l].token)
    BY <2>1 DEF HistorySane, LoopsInHand, WithSocket, Streaming
  <2>4. Same(life)
    BY <2>1, <2>2 DEF HistorySane, StoredTogether, Disconnecting
  <2>5. life \in had
    BY DEF Known
  <2> QED
    BY <2>3, <2>4, <2>5 DEF Same, SameToken
<1> QED
  BY <1>1, <1>2, <1>3, AllSaneAlways, PTL DEF Spec

-----------------------------------------------------------------------------
(***************************************************************************)
(* What a purge throws away, for a user in haste as well.                  *)
(***************************************************************************)
\* Lives the device has roots of, and those that tokens are for.
Lives == {life \in Life : life \in db.index \/ \E t \in Token : of[t] = life}

LifeIsOver(life) == life.ws \notin present \/ life # LifeOf(life.ws)

\* No life is known before it has begun.
LivesBegun == \A life \in Lives : life.gen <= gen[life.ws]

Announced == {"purge", "purge_cfg", "purge_wait"}
InPurge(l) == TellsPurge(l) \/ loops[l].pc = "purged"

\* The loop that runs is the one that can be cancelled, and there is a
\* workspace for it.
CancelsWhatRuns ==
  /\ \A l \in LoopId : Runs(l) => l = mem.cancel
  /\ mem.cancel # 0 \/ user.pc \in Late => mem.cfg # None

\* An announced purge keeps connect out; one that was told to stop, or is over,
\* left no workspace; and what it was told of the workspace stays so.
PurgeStands ==
  \A l \in LoopId :
    /\ loops[l].pc \in Announced \cup {"purged"} =>
         mem.purging /\ user.pc \notin Connecting
    /\ InPurge(l) /\ (loops[l].canceled \/ loops[l].pc = "purged") => mem.cfg = None
    /\ TellsPurge(l) => \A life \in Lives : life.ws = mem.cfg => LifeIsOver(life)

OnePurge == \A k, l \in LoopId : InPurge(k) /\ InPurge(l) => k = l

PurgeSane == CancelsWhatRuns /\ PurgeStands /\ OnePurge

\* A step by which no life becomes known.
LEMMA NoNewLives ==
  ASSUME of' = of,
         \A life \in db'.index :
           life \in db.index \/ \E t \in Token : of[t] = life
  PROVE  Lives' \subseteq Lives
  BY DEF Lives

\* Whatever the device catches up on is of lives it had, or is of its session's.
LEMMA FollowedLives ==
  ASSUME of' = of, NEW t, db'.index \in Followed(t)
  PROVE  Lives' \subseteq Lives
<1>1. \A life \in db'.index : life \in db.index \/ \E x \in Token : of[x] = life
  BY DEF Followed, RootsOf
<1> QED
  BY <1>1, NoNewLives

\* A life that is over stays over: workspaces are only created again.
LEMMA OverStaysOver ==
  ASSUME TypeInv, TypeInv', LivesBegun, NEW life \in Lives, LifeIsOver(life),
         \A w \in Workspace : gen[w] <= gen'[w],
         \A w \in present' : w \in present \/ gen'[w] = gen[w] + 1
  PROVE  LifeIsOver(life)'
<1>1. life \in Life /\ life.ws \in Workspace /\ life.gen \in 1 .. MaxGens
  BY DEF Lives, Life
<1>2. /\ gen[life.ws] \in 0 .. MaxGens /\ gen'[life.ws] \in 0 .. MaxGens
      /\ life.gen <= gen[life.ws] /\ gen[life.ws] <= gen'[life.ws]
  BY <1>1 DEF LivesBegun, TypeInv, StateOK
<1>3. CASE life.ws \notin present'
  BY <1>3 DEF LifeIsOver
<1>4. CASE life.ws \in present' /\ life.ws \notin present
  <2>1. life.gen # gen'[life.ws]
    BY <1>1, <1>2, <1>4, LifecycleAssumption
  <2> QED
    BY <2>1 DEF LifeIsOver, LifeOf
<1>5. CASE life.ws \in present' /\ life.ws \in present
  <2>1. life.gen # gen[life.ws]
    BY <1>1, <1>5 DEF LifeIsOver, LifeOf, Life
  <2>2. life.gen # gen'[life.ws]
    BY <1>1, <1>2, <2>1, LifecycleAssumption
  <2> QED
    BY <2>2 DEF LifeIsOver, LifeOf
<1> QED
  BY <1>3, <1>4, <1>5

\* How workspaces come and go.
GenerationsGrow ==
  /\ \A w \in Workspace : gen[w] <= gen'[w]
  /\ \A w \in present' : w \in present \/ gen'[w] = gen[w] + 1

LEMMA GenerationsMove ==
  ASSUME TypeInv, [Next]_vars
  PROVE  GenerationsGrow
<1>1. gen \in [Workspace -> 0 .. MaxGens] /\ present \in SUBSET Workspace
  BY DEF TypeInv, StateOK
<1>2. gen' = gen /\ present' \subseteq present => GenerationsGrow
  BY <1>1, LifecycleAssumption DEF GenerationsGrow
<1>3. ASSUME NEW w \in Workspace, gen' = [gen EXCEPT ![w] = @ + 1],
             present' = present \cup {w}
      PROVE  GenerationsGrow
  BY <1>1, <1>3, LifecycleAssumption DEF GenerationsGrow
<1>4. ASSUME NEW w \in Workspace, NEW create \in BOOLEAN, Connect(w, create)
      PROVE  GenerationsGrow
  BY <1>2, <1>3, <1>4 DEF Connect
<1>5. ConnectStep \/ Disconnect \/ DisconnectStep \/ Start \/ Die \/ LocalOperation
        => gen' = gen /\ present' = present
  BY DEF ConnectStep, ConnectFinish, ConnectGivesUp, ConnectStoresKeyring,
         ConnectStoresState, ConnectBootstraps, ConnectBootstrapFails, ConnectStartsLoop,
         Disconnect, DisconnectStep, DisconnectClearsKeyring, DisconnectClearsState, Stop,
         Start, Die, LocalOperation, server
<1>6. ASSUME NEW l \in LoopId, LoopStep(l) PROVE gen' = gen /\ present' = present
  BY <1>6 DEF LoopStep, LoopTurns, LoopTakesSync, LoopUsesCached, LoopStartsSession,
     LoopFinishRefused, LoopFinishesSession, LoopDials, LoopSyncs, LoopCatchesUp,
     LoopRefused, LoopHearsNothing, LoopEndsStream, LoopHearsRejection, LoopWakes,
     LoopPanics, LoopTurnsFailed, LoopWaits, LoopAnnouncesPurge, LoopClearsState,
     LoopClearsConfig, LoopEndsPurge, LoopExits, server
<1>7. World => GenerationsGrow
  BY <1>2, <1>3 DEF World, PeerCreates, PeerAddsRoot, Purge, TokenLapses
<1>8. UNCHANGED vars => gen' = gen /\ present' = present
  BY DEF vars, server
<1> QED
  BY <1>2, <1>4, <1>5, <1>6, <1>7, <1>8 DEF Next

\* What a step of the device must leave alone for all this to stay.
LEMMA PurgeStaysSane ==
  ASSUME TypeInv, TypeInv', LivesBegun, GenerationsGrow, PurgeSane,
         Lives' \subseteq Lives,
         mem'.cfg = mem.cfg, mem'.cancel = mem.cancel, mem'.purging = mem.purging,
         user'.pc \in Late => user.pc \in Late,
         user'.pc \in Connecting => user.pc \in Connecting \/ ~mem.purging,
         \A k \in LoopId :
           /\ Runs(k)' => Runs(k)
           /\ TellsPurge(k)' => TellsPurge(k)
           /\ loops'[k].pc \in Announced \cup {"purged"} =>
                loops[k].pc \in Announced \cup {"purged"}
           /\ loops'[k].pc = "purged" => loops[k].pc = "purged"
           /\ InPurge(k)' /\ loops'[k].canceled => loops[k].canceled
  PROVE  PurgeSane'
<1>1. CancelsWhatRuns'
  BY DEF PurgeSane, CancelsWhatRuns
<1>2. \A k \in LoopId : InPurge(k)' => InPurge(k)
  BY DEF InPurge
<1>3. OnePurge'
  BY <1>2 DEF PurgeSane, OnePurge
<1>4. PurgeStands'
  <2> SUFFICES ASSUME NEW l \in LoopId
               PROVE  /\ loops'[l].pc \in Announced \cup {"purged"} =>
                           mem'.purging /\ user'.pc \notin Connecting
                      /\ InPurge(l)' /\ (loops'[l].canceled \/ loops'[l].pc = "purged") =>
                           mem'.cfg = None
                      /\ TellsPurge(l)' =>
                           \A life \in Lives' : life.ws = mem'.cfg => LifeIsOver(life)'
    BY DEF PurgeStands
  <2>1. loops'[l].pc \in Announced \cup {"purged"} =>
          mem'.purging /\ user'.pc \notin Connecting
    BY DEF PurgeSane, PurgeStands
  <2>2. InPurge(l)' /\ (loops'[l].canceled \/ loops'[l].pc = "purged") => mem'.cfg = None
    BY <1>2 DEF PurgeSane, PurgeStands
  <2>3. ASSUME TellsPurge(l)', NEW life \in Lives', life.ws = mem'.cfg
        PROVE  LifeIsOver(life)'
    <3>1. life \in Lives /\ LifeIsOver(life)
      BY <2>3 DEF PurgeSane, PurgeStands
    <3> QED
      BY <3>1, OverStaysOver DEF GenerationsGrow
  <2> QED
    BY <2>1, <2>2, <2>3
<1> QED
  BY <1>1, <1>3, <1>4 DEF PurgeSane

\* Where neither the loops nor the fields of Daemon change.
LEMMA CommandStaysSane ==
  ASSUME TypeInv, TypeInv', LivesBegun, GenerationsGrow, PurgeSane,
         Lives' \subseteq Lives, UNCHANGED <<mem, loops>>,
         user'.pc \in Late => user.pc \in Late,
         user'.pc \in Connecting => user.pc \in Connecting \/ ~mem.purging
  PROVE  PurgeSane'
<1>1. \A k \in LoopId : (Runs(k)' <=> Runs(k)) /\ (TellsPurge(k)' <=> TellsPurge(k))
  BY DEF Runs, TellsPurge
<1> QED
  BY <1>1, PurgeStaysSane

\* A step of a loop that does not learn of a purge and does not end one.
LEMMA LoopStaysSane ==
  ASSUME TypeInv, TypeInv', LivesBegun, GenerationsGrow, PurgeSane, NEW l \in LoopId,
         Lives' \subseteq Lives,
         mem'.cfg = mem.cfg, mem'.cancel = mem.cancel, mem'.purging = mem.purging,
         user' = user,
         \A k \in LoopId : k # l => loops'[k] = loops[k],
         loops'[l].canceled = loops[l].canceled,
         loops[l].pc \notin Ended, loops'[l].pc # "purged",
         loops'[l].pc \in Announced => loops[l].pc \in Announced,
         TellsPurge(l)' => TellsPurge(l)
  PROVE  PurgeSane'
<1>1. \A k \in LoopId : Runs(k)' => Runs(k)
  BY DEF Runs
<1>2. \A k \in LoopId : k # l => (TellsPurge(k)' <=> TellsPurge(k))
  BY DEF TellsPurge
<1> QED
  BY <1>1, <1>2, PurgeStaysSane

\* A loop that asks is the one that runs, and no purge is known of.
LEMMA AskingKnowsNoPurge ==
  ASSUME TypeInv, PurgeSane, NEW l \in LoopId, Runs(l), ~InPurge(l)
  PROVE  \A k \in LoopId : ~InPurge(k)
<1>1. mem.cancel = l /\ mem.cfg # None
  BY CancelIsNoLoopAtZero DEF PurgeSane, CancelsWhatRuns
<1> SUFFICES ASSUME NEW k \in LoopId, InPurge(k) PROVE FALSE
  OBVIOUS
<1>2. k # l
  OBVIOUS
<1>3. ~loops[k].canceled /\ loops[k].pc # "purged"
  BY <1>1 DEF PurgeSane, PurgeStands
<1>4. Runs(k)
  BY <1>3 DEF Runs, Ended, InPurge, TellsPurge
<1> QED
  BY <1>1, <1>2, <1>4 DEF PurgeSane, CancelsWhatRuns

\* Where no loop knows of a purge it is enough that what runs can be cancelled.
LEMMA NothingPurged ==
  ASSUME CancelsWhatRuns', \A k \in LoopId : ~InPurge(k)'
  PROVE  PurgeSane'
<1>1. \A k \in LoopId : ~TellsPurge(k)' /\ loops'[k].pc \notin Announced \cup {"purged"}
  BY DEF InPurge, TellsPurge, Announced
<1> QED
  BY <1>1 DEF PurgeSane, PurgeStands, OnePurge

\* The steps of a loop that learn of no purge, announce none and end none.
LEMMA QuietLoopStaysSane ==
  ASSUME TypeInv, TypeInv', LivesBegun, GenerationsGrow, PurgeSane, NEW l \in LoopId,
         \/ LoopTurns(l) \/ LoopTakesSync(l) \/ LoopUsesCached(l)
         \/ LoopFinishRefused(l) \/ LoopDials(l) \/ LoopSyncs(l)
         \/ LoopCatchesUp(l) \/ LoopRefused(l) \/ LoopHearsNothing(l)
         \/ LoopEndsStream(l) \/ LoopHearsRejection(l) \/ LoopWakes(l)
         \/ LoopTurnsFailed(l) \/ LoopWaits(l) \/ LoopClearsState(l)
  PROVE  PurgeSane'
<1> USE DEF disk, server
<1>1. /\ mem \in MemType /\ loops \in [LoopId -> LoopType] /\ db \in DbType
  BY TypesSplit DEF TypeInv, ProcessTypes, DiskTypes
<1>2. /\ {"exit", "want_sync", "backoff", "session", "finish", "dial", "sync", "live",
          "woken", "top", "gone", "purge", "purge_cfg"} \subseteq LoopStage
      /\ Error = {"canceled", "renewal", "unauthorized", "not_found", "transport"}
  BY DEF LoopStage, InSync, Streaming, Error
<1>3. db' = db /\ of' = of => Lives' \subseteq Lives
  BY DEF Lives
\* A step to a stage.
<1>4. ASSUME NEW pc \in LoopStage, Goes(l, pc), pc \notin {"purged", "failed"},
             loops[l].pc \notin Ended, Lives' \subseteq Lives, user' = user,
             mem'.cfg = mem.cfg, mem'.cancel = mem.cancel, mem'.purging = mem.purging,
             pc \in Announced => loops[l].pc \in Announced, pc = "gone" => TellsPurge(l)
      PROVE  PurgeSane'
  <2>1. /\ \A k \in LoopId : k # l => loops'[k] = loops[k]
        /\ loops'[l].pc = pc /\ loops'[l].canceled = loops[l].canceled
    BY <1>1, <1>4, GoesEffect
  <2>2. TellsPurge(l)' => TellsPurge(l)
    BY <1>4, <2>1 DEF TellsPurge, Announced
  <2> QED
    BY <1>4, <2>1, <2>2, LoopStaysSane
\* A request that fails, but not because the workspace is not found.
<1>5. ASSUME NEW e \in Error \ {"not_found"}, Fails(l, e), loops[l].pc \notin Ended,
             Lives' \subseteq Lives, user' = user, mem' = mem
      PROVE  PurgeSane'
  <2>1. /\ \A k \in LoopId : k # l => loops'[k] = loops[k]
        /\ loops'[l].pc = "failed" /\ loops'[l].err = e
        /\ loops'[l].canceled = loops[l].canceled
    BY <1>1, <1>5, FailsEffect
  <2>2. ~TellsPurge(l)' /\ loops'[l].pc \notin Announced
    BY <1>5, <2>1 DEF TellsPurge, Announced
  <2> QED
    BY <1>5, <2>1, <2>2, LoopStaysSane
\* Consuming the log.
<1>6. ASSUME NEW state, CatchesUp(state), of' = of PROVE Lives' \subseteq Lives
  <2>1. PICK i \in Followed(mem.conn) : db' = [db EXCEPT !.index = i, !.state = state]
    BY <1>6 DEF CatchesUp
  <2>2. db'.index = i
    BY <1>1, <2>1 DEF DbType
  <2> QED
    BY <1>6, <2>1, <2>2, FollowedLives
<1>7. ASSUME Dialed, of' = of PROVE Lives' \subseteq Lives
  <2>1. db'.index = db.index
    BY <1>1, <1>7 DEF Dialed, DbType
  <2> QED
    BY <1>7, <2>1 DEF Lives
<1>8. CASE LoopTurns(l) \/ LoopTakesSync(l) \/ LoopWaits(l)
  <2>1. PICK pc \in {"exit", "want_sync", "backoff", "session", "top", "purge"} :
          Goes(l, pc) /\ (pc = "purge" => loops[l].pc = "purge_wait")
    BY <1>8 DEF LoopTurns, LoopTakesSync, LoopWaits
  <2>2. pc \in LoopStage /\ pc \notin {"purged", "failed", "gone"} /\ loops[l].pc \notin Ended
    BY <1>8, <2>1 DEF LoopStage, InSync, LoopTurns, LoopTakesSync, LoopWaits, Ended
  <2>3. pc \in Announced => loops[l].pc \in Announced
    BY <2>1 DEF Announced
  <2> QED
    BY <1>3, <1>4, <1>8, <2>1, <2>2, <2>3 DEF LoopTurns, LoopTakesSync, LoopWaits
<1>9. CASE LoopUsesCached(l)
  <2>1. mem'.cfg = mem.cfg /\ mem'.cancel = mem.cancel /\ mem'.purging = mem.purging
    BY <1>1, <1>9 DEF LoopUsesCached, MemType
  <2>2. Goes(l, "dial") /\ loops[l].pc \notin Ended /\ "dial" \notin Announced
    BY <1>9 DEF LoopUsesCached, Ended, Announced
  <2> QED
    BY <1>2, <1>3, <1>4, <1>9, <2>1, <2>2 DEF LoopUsesCached
<1>10. CASE LoopFinishRefused(l) \/ LoopEndsStream(l)
  <2>1. PICK e \in Error \ {"not_found"} : Fails(l, e)
    BY <1>2, <1>10 DEF LoopFinishRefused, LoopEndsStream
  <2>2. loops[l].pc \notin Ended
    BY <1>10 DEF LoopFinishRefused, LoopEndsStream, Ended
  <2> QED
    BY <1>3, <1>5, <1>10, <2>1, <2>2 DEF LoopFinishRefused, LoopEndsStream
<1>11. CASE LoopDials(l)
  <2>1. loops' = [loops EXCEPT ![l].pc = "sync", ![l].token = mem.conn]
    BY <1>11 DEF LoopDials
  <2>2. /\ \A k \in LoopId : k # l => loops'[k] = loops[k]
        /\ loops'[l].pc = "sync" /\ loops'[l].canceled = loops[l].canceled
    BY <1>1, <2>1 DEF LoopType
  <2>3. ~TellsPurge(l)' /\ loops'[l].pc \notin Announced /\ loops[l].pc \notin Ended
    BY <1>11, <2>2 DEF TellsPurge, Announced, LoopDials, Ended
  <2>4. Lives' \subseteq Lives
    BY <1>7, <1>11 DEF LoopDials
  <2> QED
    BY <1>11, <2>2, <2>3, <2>4, LoopStaysSane DEF LoopDials
<1>12. CASE LoopSyncs(l) \/ LoopCatchesUp(l)
  <2>1. Goes(l, "live") /\ loops[l].pc \notin Ended /\ "live" \notin Announced
    BY <1>12 DEF LoopSyncs, LoopCatchesUp, CanCatchUp, Ended, Announced
  <2>2. Lives' \subseteq Lives
    BY <1>6, <1>12 DEF LoopSyncs, LoopCatchesUp
  <2> QED
    BY <1>2, <1>4, <1>12, <2>1, <2>2 DEF LoopSyncs, LoopCatchesUp
<1>13. CASE LoopRefused(l) \/ LoopHearsNothing(l)
  <2>1. PICK e \in Error \ {"not_found"} : Fails(l, e)
    BY <1>2, <1>13 DEF LoopRefused, LoopHearsNothing
  <2>2. loops[l].pc \notin Ended
    BY <1>13 DEF LoopRefused, LoopHearsNothing, CanCatchUp, Ended
  <2>3. Lives' \subseteq Lives
    BY <1>3, <1>6, <1>7, <1>13 DEF LoopRefused, LoopHearsNothing, CatchUpFails
  <2> QED
    BY <1>5, <1>13, <2>1, <2>2, <2>3 DEF LoopRefused, LoopHearsNothing
<1>14. CASE LoopHearsRejection(l)
  <2>1. CASE Fails(l, "unauthorized")
    BY <1>2, <1>3, <1>5, <1>14, <2>1 DEF LoopHearsRejection, Ended
  <2>2. CASE loops' = loops
    BY <1>3, <1>14, <2>2, CommandStaysSane DEF LoopHearsRejection
  <2> QED
    BY <1>14, <2>1, <2>2 DEF LoopHearsRejection
<1>15. CASE LoopWakes(l)
  <2>1. loops[l].pc \notin Ended /\ "woken" \notin Announced
    BY <1>15 DEF LoopWakes, Ended, Announced
  <2> QED
    BY <1>2, <1>3, <1>4, <1>15, <2>1 DEF LoopWakes
<1>16. CASE LoopTurnsFailed(l)
  <2>1. PICK pc \in {"exit", "top", "gone", "backoff"} :
          Goes(l, pc) /\ (pc = "gone" => loops[l].err = "not_found")
    BY <1>16, AfterEffect DEF LoopTurnsFailed, After
  <2>2. /\ pc \in LoopStage /\ pc \notin {"purged", "failed"} /\ pc \notin Announced
        /\ loops[l].pc \notin Ended /\ (pc = "gone" => TellsPurge(l))
    BY <1>16, <2>1 DEF LoopStage, LoopTurnsFailed, TellsPurge, Announced, Ended
  <2>3. db'.index = db.index
    BY <1>1, <1>16 DEF LoopTurnsFailed, DbType
  <2>4. Lives' \subseteq Lives
    BY <1>16, <2>3 DEF Lives, LoopTurnsFailed
  <2> QED
    BY <1>4, <1>16, <2>1, <2>2, <2>4 DEF LoopTurnsFailed
<1>17. CASE LoopClearsState(l)
  <2>1. Goes(l, "purge_cfg") /\ loops[l].pc \notin Ended /\ loops[l].pc \in Announced
    BY <1>17 DEF LoopClearsState, Ended, Announced
  <2>2. Lives' \subseteq Lives
    BY <1>17 DEF LoopClearsState, Cleared, Lives
  <2> QED
    BY <1>2, <1>4, <1>17, <2>1, <2>2 DEF LoopClearsState
<1> QED
  BY <1>8, <1>9, <1>10, <1>11, <1>12, <1>13, <1>14, <1>15, <1>16, <1>17

\* A loop that is told of a purge, or gets a session, knew of no purge.
LEMMA HandshakeStaysSane ==
  ASSUME TypeInv, TypeInv', LivesBegun, GenerationsGrow, PurgeSane, NEW l \in LoopId,
         LoopStartsSession(l) \/ LoopFinishesSession(l)
  PROVE  PurgeSane'
<1> USE DEF disk, server
<1>1. /\ mem \in MemType /\ loops \in [LoopId -> LoopType]
      /\ {"not_found", "transport"} \subseteq Error
  BY TypesSplit DEF TypeInv, ProcessTypes, Error
<1>2. loops[l].pc \in {"session", "finish"} /\ ~loops[l].canceled /\ Runs(l) /\ ~InPurge(l)
  BY DEF LoopStartsSession, LoopFinishesSession, Asks, Runs, Ended, InPurge, TellsPurge
<1>3. /\ \A k \in LoopId : ~InPurge(k)
      /\ mem.cancel = l /\ mem.cfg # None
  BY <1>2, AskingKnowsNoPurge, CancelIsNoLoopAtZero DEF PurgeSane, CancelsWhatRuns
<1>4. mem'.cfg = mem.cfg /\ mem'.cancel = mem.cancel /\ user' = user
  BY <1>1 DEF LoopStartsSession, LoopFinishesSession, MemType
<1>5. ASSUME NEW e \in Error, Fails(l, e)
      PROVE  /\ \A k \in LoopId : k # l => loops'[k] = loops[k]
             /\ loops'[l].pc = "failed" /\ loops'[l].err = e
             /\ loops'[l].canceled = loops[l].canceled
  BY <1>1, <1>5, FailsEffect
<1>6. /\ \A k \in LoopId : k # l => loops'[k] = loops[k]
      /\ loops'[l].pc \in {"failed", "finish", "dial"}
      /\ loops'[l].pc = "failed" /\ loops'[l].err = "not_found" =>
           LoopStartsSession(l) /\ mem.cfg \notin present
      /\ ~loops'[l].canceled
  <2>1. CASE LoopStartsSession(l)
    <3>1. CASE mem.cfg \notin present /\ Fails(l, "not_found")
      BY <1>1, <1>2, <1>5, <2>1, <3>1
    <3>2. CASE Fails(l, "transport")
      BY <1>1, <1>2, <1>5, <3>2
    <3>3. CASE loops' = [loops EXCEPT ![l].pc = "finish", ![l].life = LifeOf(mem.cfg)]
      BY <1>1, <1>2, <3>3 DEF LoopType
    <3> QED
      BY <2>1, <3>1, <3>2, <3>3 DEF LoopStartsSession
  <2>2. CASE LoopFinishesSession(l)
    <3>1. CASE Fails(l, "transport")
      BY <1>1, <1>2, <1>5, <3>1
    <3>2. CASE loops' = [loops EXCEPT ![l].pc = "dial", ![l].life = None]
      BY <1>1, <1>2, <3>2 DEF LoopType
    <3> QED
      BY <2>2, <3>1, <3>2 DEF LoopFinishesSession
  <2> QED
    BY <2>1, <2>2
<1>7. CancelsWhatRuns'
  BY <1>2, <1>3, <1>4, <1>6 DEF PurgeSane, CancelsWhatRuns, Runs
<1>8. \A k \in LoopId : k # l => ~InPurge(k)'
  BY <1>3, <1>6 DEF InPurge, TellsPurge
<1>9. CASE ~InPurge(l)'
  BY <1>7, <1>8, <1>9, NothingPurged
<1>10. CASE InPurge(l)'
  <2>1. loops'[l].pc = "failed" /\ loops'[l].err = "not_found"
    BY <1>6, <1>10 DEF InPurge, TellsPurge
  <2>2. UNCHANGED <<gen, present>> /\ mem.cfg \notin present
    BY <1>6, <2>1 DEF LoopStartsSession
  <2>3. \A life \in Lives' : life.ws = mem'.cfg => LifeIsOver(life)'
    BY <1>4, <2>2 DEF LifeIsOver
  <2>4. \A k \in LoopId :
          k # l => ~TellsPurge(k)' /\ loops'[k].pc \notin Announced \cup {"purged"}
    BY <1>8 DEF InPurge, TellsPurge, Announced
  <2>5. PurgeStands'
    BY <1>6, <1>8, <2>1, <2>3, <2>4 DEF PurgeStands, Announced
  <2>6. OnePurge'
    BY <1>8 DEF OnePurge
  <2> QED
    BY <1>7, <2>5, <2>6 DEF PurgeSane
<1> QED
  BY <1>9, <1>10

\* The steps of a purge that change what the daemon works with, and the end of
\* a loop.
LEMMA PurgeStepsStaySane ==
  ASSUME TypeInv, TypeInv', LivesBegun, GenerationsGrow, PurgeSane, NEW l \in LoopId,
         LoopAnnouncesPurge(l) \/ LoopClearsConfig(l) \/ LoopEndsPurge(l) \/ LoopExits(l)
  PROVE  PurgeSane'
<1> USE DEF disk, server
<1>1. mem \in MemType /\ loops \in [LoopId -> LoopType] /\ LoopId \subseteq Nat
  BY TypesSplit DEF TypeInv, ProcessTypes, LoopId
<1>2. {"purge", "purged", "purge_wait", "exit"} \subseteq LoopStage
  BY DEF LoopStage
<1>3. Lives' = Lives /\ user' = user /\ gen' = gen /\ present' = present
  BY DEF LoopAnnouncesPurge, LoopClearsConfig, LoopEndsPurge, LoopExits, Lives
<1>4. \A life \in Lives : LifeIsOver(life) => LifeIsOver(life)'
  BY <1>3 DEF LifeIsOver, LifeOf
<1>5. ASSUME NEW pc \in LoopStage, Goes(l, pc)
      PROVE  /\ \A k \in LoopId : k # l => loops'[k] = loops[k]
             /\ loops'[l].pc = pc /\ loops'[l].canceled = loops[l].canceled
  BY <1>1, <1>5, GoesEffect
<1>6. CASE LoopAnnouncesPurge(l)
  <2>1. /\ \A k \in LoopId : k # l => loops'[k] = loops[k]
        /\ loops'[l].pc = "purge" /\ loops'[l].canceled = loops[l].canceled
        /\ loops[l].pc = "gone" /\ user.pc \notin Connecting
    BY <1>2, <1>5, <1>6 DEF LoopAnnouncesPurge, MuFree
  <2>2. mem'.purging /\ mem'.cfg = mem.cfg /\ mem'.cancel = mem.cancel
    BY <1>1, <1>6 DEF LoopAnnouncesPurge, MemType
  <2>3. TellsPurge(l) /\ ~(loops'[l].pc = "purged")
    BY <2>1 DEF TellsPurge
  <2>4. \A k \in LoopId : (Runs(k)' => Runs(k)) /\ (InPurge(k)' => InPurge(k))
                          /\ (TellsPurge(k)' => TellsPurge(k))
    BY <2>1, <2>3 DEF Runs, Ended, InPurge, TellsPurge
  <2>5. CancelsWhatRuns'
    BY <1>3, <2>2, <2>4 DEF PurgeSane, CancelsWhatRuns
  <2>6. OnePurge'
    BY <2>4 DEF PurgeSane, OnePurge
  <2>7. \A k \in LoopId :
          /\ loops'[k].pc \in Announced \cup {"purged"} =>
               mem'.purging /\ user'.pc \notin Connecting
          /\ InPurge(k)' /\ (loops'[k].canceled \/ loops'[k].pc = "purged") => mem'.cfg = None
    BY <1>3, <2>1, <2>2, <2>3, <2>4 DEF PurgeSane, PurgeStands
  <2>8. \A k \in LoopId : TellsPurge(k)' =>
          \A life \in Lives' : life.ws = mem'.cfg => LifeIsOver(life)'
    BY <1>3, <1>4, <2>2, <2>4 DEF PurgeSane, PurgeStands
  <2> QED
    BY <2>5, <2>6, <2>7, <2>8 DEF PurgeSane, PurgeStands
<1>7. CASE LoopClearsConfig(l)
  <2>1. loops[l].pc = "purge_cfg" /\ loops[l].pc \notin Ended /\ TellsPurge(l)
    BY <1>7 DEF LoopClearsConfig, Ended, TellsPurge
  <2>2. CASE Goes(l, "purge_wait") /\ mem' = mem
    <3>1. /\ \A k \in LoopId : k # l => loops'[k] = loops[k]
          /\ loops'[l].pc = "purge_wait" /\ loops'[l].canceled = loops[l].canceled
      BY <1>2, <1>5, <2>2
    <3>2. loops[l].pc \in Announced
      BY <2>1 DEF Announced
    <3> QED
      BY <1>3, <2>1, <2>2, <3>1, <3>2, LoopStaysSane
  <2>3. CASE /\ mem' = [mem EXCEPT !.cfg = None, !.keys = None, !.conn = None,
                                   !.intentional = TRUE, !.cancel = 0]
             /\ Goes(l, "purged")
    <3>1. /\ \A k \in LoopId : k # l => loops'[k] = loops[k]
          /\ loops'[l].pc = "purged" /\ loops'[l].canceled = loops[l].canceled
      BY <1>2, <1>5, <2>3
    <3>2. mem'.cfg = None /\ mem'.cancel = 0 /\ mem'.purging = mem.purging
      BY <1>1, <2>3 DEF MemType
    <3>3. mem.purging /\ user.pc \notin Connecting
      BY <2>1 DEF PurgeSane, PurgeStands, Announced
    <3>4. \A k \in LoopId : ~Runs(k)'
      <4>1. ~Runs(l)'
        BY <3>1 DEF Runs, Ended
      <4>2. ASSUME NEW k \in LoopId, k # l, Runs(k)' PROVE FALSE
        <5>1. Runs(k) /\ mem.cancel = k
          BY <3>1, <4>2 DEF Runs, PurgeSane, CancelsWhatRuns
        <5>2. loops[l].canceled
          BY <2>1, <4>2, <5>1 DEF Runs, PurgeSane, CancelsWhatRuns
        <5>3. mem.cfg = None
          BY <2>1, <5>2 DEF InPurge, PurgeSane, PurgeStands
        <5> QED
          BY <5>1, <5>3, CancelIsNoLoopAtZero DEF PurgeSane, CancelsWhatRuns
      <4> QED
        BY <4>1, <4>2
    <3>5. CancelsWhatRuns'
      BY <1>3, <3>2, <3>3, <3>4 DEF CancelsWhatRuns, Late
    <3>6. \A k \in LoopId : InPurge(k)' => InPurge(k)
      BY <2>1, <3>1 DEF InPurge, TellsPurge
    <3>7. OnePurge'
      BY <3>6 DEF PurgeSane, OnePurge
    <3>8. \A life \in Lives' : life.ws # mem'.cfg
      BY <3>2, LifecycleAssumption DEF Lives, Life
    <3>9. PurgeStands'
      BY <1>3, <3>2, <3>3, <3>8 DEF PurgeStands
    <3> QED
      BY <3>5, <3>7, <3>9 DEF PurgeSane
  <2> QED
    BY <1>7, <2>2, <2>3 DEF LoopClearsConfig
<1>8. CASE LoopEndsPurge(l) \/ LoopExits(l)
  <2>1. /\ \A k \in LoopId : k # l => loops'[k] = loops[k]
        /\ loops'[l].pc \in {"exit", "none"} /\ loops[l].pc \in {"purged", "exit"}
    <3>1. CASE LoopEndsPurge(l)
      BY <1>2, <1>5, <3>1 DEF LoopEndsPurge
    <3>2. CASE LoopExits(l)
      BY <1>1, <3>2 DEF LoopExits, NoLoop
    <3> QED
      BY <1>8, <3>1, <3>2
  <2>2. /\ mem'.cfg = mem.cfg /\ (mem'.purging = mem.purging \/ loops[l].pc = "purged")
        /\ mem'.cancel = mem.cancel \/ (mem'.cancel = 0 /\ mem.loopId = l)
    BY <1>1, <1>8 DEF LoopEndsPurge, LoopExits, Released, MemType
  <2>3. ~Runs(l) /\ ~Runs(l)' /\ ~InPurge(l)'
    BY <2>1 DEF Runs, Ended, InPurge, TellsPurge
  <2>4. \A k \in LoopId : (Runs(k)' => Runs(k)) /\ (InPurge(k)' => InPurge(k))
                          /\ (TellsPurge(k)' => TellsPurge(k))
    BY <2>1, <2>3 DEF Runs, InPurge, TellsPurge
  <2>5. CancelsWhatRuns'
    <3>1. ASSUME NEW k \in LoopId, Runs(k)' PROVE k = mem'.cancel
      <4>1. Runs(k) /\ k # l /\ k = mem.cancel
        BY <2>3, <2>4, <3>1 DEF PurgeSane, CancelsWhatRuns
      <4>2. mem.loopId # l
        BY <4>1, CancelIsNoLoopAtZero DEF TypeInv, CommandsSane
      <4> QED
        BY <2>2, <4>1, <4>2
    <3>2. mem'.cancel # 0 \/ user'.pc \in Late => mem'.cfg # None
      BY <1>3, <2>2 DEF PurgeSane, CancelsWhatRuns
    <3> QED
      BY <3>1, <3>2 DEF CancelsWhatRuns
  <2>6. OnePurge'
    BY <2>4 DEF PurgeSane, OnePurge
  <2>7. \A k \in LoopId : InPurge(k)' => k # l /\ loops'[k] = loops[k] /\ mem'.purging = mem.purging
    <3> SUFFICES ASSUME NEW k \in LoopId, InPurge(k)'
                 PROVE  k # l /\ loops'[k] = loops[k] /\ mem'.purging = mem.purging
      OBVIOUS
    <3>1. k # l /\ loops'[k] = loops[k] /\ InPurge(k)
      BY <2>1, <2>3, <2>4
    <3>2. loops[l].pc # "purged"
      BY <3>1 DEF InPurge, PurgeSane, OnePurge
    <3> QED
      BY <2>2, <3>1, <3>2
  <2>8. PurgeStands'
    <3> SUFFICES ASSUME NEW k \in LoopId, InPurge(k)'
                 PROVE  /\ loops'[k].pc \in Announced \cup {"purged"} =>
                             mem'.purging /\ user'.pc \notin Connecting
                        /\ loops'[k].canceled \/ loops'[k].pc = "purged" => mem'.cfg = None
                        /\ TellsPurge(k)' =>
                             \A life \in Lives' : life.ws = mem'.cfg => LifeIsOver(life)'
      BY DEF PurgeStands, InPurge, TellsPurge, Announced
    <3>1. InPurge(k) /\ (TellsPurge(k)' => TellsPurge(k)) /\ loops'[k] = loops[k]
      BY <2>4, <2>7
    <3>2. /\ loops'[k].pc \in Announced \cup {"purged"} =>
               mem'.purging /\ user'.pc \notin Connecting
          /\ loops'[k].canceled \/ loops'[k].pc = "purged" => mem'.cfg = None
      BY <1>3, <2>2, <2>7, <3>1 DEF PurgeSane, PurgeStands
    <3>3. TellsPurge(k)' => \A life \in Lives' : life.ws = mem'.cfg => LifeIsOver(life)'
      BY <1>3, <1>4, <2>2, <3>1 DEF PurgeSane, PurgeStands
    <3> QED
      BY <3>2, <3>3
  <2> QED
    BY <2>5, <2>6, <2>8 DEF PurgeSane
<1> QED
  BY <1>6, <1>7, <1>8

\* A process that ends forgets; the next one has the one loop it starts.
LEMMA ProcessStaysSane ==
  ASSUME TypeInv, TypeInv',
         Stop \/ Die \/ (\E l \in LoopId : LoopPanics(l)) \/ Start
  PROVE  PurgeSane'
<1> USE DEF disk, server
<1>1. \A k \in LoopId : NoLoop.pc = "none" /\ [NoLoop EXCEPT !.pc = "top"].pc = "top"
  BY DEF NoLoop
<1>2. CASE Stop \/ Die \/ \E l \in LoopId : LoopPanics(l)
  <2>1. Gone
    BY <1>2 DEF Stop, Die, LoopPanics
  <2>2. /\ mem'.cancel = 0 /\ user'.pc \notin Late
        /\ \A k \in LoopId : loops'[k].pc = "none"
    BY <2>1 DEF Gone, NoMemory, NoCommand, NoLoop, Late, Connecting
  <2>3. CancelsWhatRuns' /\ \A k \in LoopId : ~InPurge(k)'
    BY <2>2 DEF CancelsWhatRuns, Runs, Ended, InPurge, TellsPurge
  <2> QED
    BY <2>3, NothingPurged
<1>3. CASE Start
  <2> DEFINE c == Recovered(cfg, db.state)
             conn == CASE c = None -> None
                       [] c # None /\ db.token = None -> Bare
                       [] OTHER -> db.token
             m == [NoMemory EXCEPT !.cfg = c, !.keys = keyring, !.conn = conn]
  <2>1. Down /\ user' = user
    BY <1>3 DEF Start, TypeInv, CommandsSane
  <2>2. /\ mem' = IF c # None /\ keyring # None THEN StartLoop(m) ELSE m
        /\ loops' = IF mem'.loopId = 0 THEN loops
                    ELSE [loops EXCEPT ![1] = [NoLoop EXCEPT !.pc = "top"]]
    BY <1>3 DEF Start
  <2>3. c \in Workspace \cup {None} /\ keyring \in Workspace \cup {None}
        /\ conn \in Token \cup {None, Bare}
    BY TypesSplit DEF Recovered, TypeInv, DiskTypes, DbType
  <2>4. m \in MemType /\ m.cfg = c /\ m.loopId = 0 /\ m.cancel = 0
    BY <2>3, BlankTypes, LifecycleAssumption DEF MemType, NoMemory
  <2> HIDE DEF c, m, conn
  <2>5. user'.pc \notin Late
    BY <2>1 DEF Down, NoCommand, Late, Connecting
  <2>6. \/ mem'.cancel = 0 /\ mem'.loopId = 0
        \/ mem'.cancel = 1 /\ mem'.loopId = 1 /\ mem'.cfg # None
    BY <2>2, <2>4, StartLoopEffect, LifecycleAssumption
  <2>7. \A k \in LoopId : loops[k].pc = "none" /\ loops \in [LoopId -> LoopType]
    BY <2>1, TypesSplit DEF Down, NoLoop, TypeInv, ProcessTypes
  <2>8. \A k \in LoopId : loops'[k].pc = "none" \/ (loops'[k].pc = "top" /\ k = mem'.cancel)
    BY <1>1, <2>2, <2>6, <2>7
  <2>9. CancelsWhatRuns' /\ \A k \in LoopId : ~InPurge(k)'
    BY <2>5, <2>6, <2>8 DEF CancelsWhatRuns, Runs, Ended, InPurge, TellsPurge
  <2> QED
    BY <2>9, NothingPurged
<1> QED
  BY <1>2, <1>3

\* Connect's first session takes the place of whatever the daemon worked with;
\* the loop that would purge it is none but one that holds a 404.
LEMMA ConnectFinishStaysSane ==
  ASSUME TypeInv, TypeInv', PurgeSane, ConnectFinish, ~overtaken'
  PROVE  PurgeSane'
<1>1. mem \in MemType /\ user.ws \in Workspace /\ user.pc = "c_finish"
  BY TypesSplit DEF TypeInv, ProcessTypes, CommandsSane, ConnectFinish, Connecting
<1>2. /\ mem'.cfg = user.ws /\ mem'.cancel = mem.cancel /\ loops' = loops
      /\ overtaken' = (overtaken \/ \E l \in LoopId : HoldsNotFound(l))
  BY <1>1 DEF ConnectFinish, MemType
<1>3. \A k \in LoopId : ~HoldsNotFound(k)
  BY <1>2
<1>4. \A k \in LoopId : loops[k].pc \notin Announced \cup {"purged"}
  BY <1>1 DEF PurgeSane, PurgeStands, Connecting
<1>5. \A k \in LoopId : ~InPurge(k)'
  BY <1>2, <1>3, <1>4 DEF InPurge, TellsPurge, HoldsNotFound, Announced
<1>6. CancelsWhatRuns'
  BY <1>1, <1>2, LifecycleAssumption DEF PurgeSane, CancelsWhatRuns, Runs
<1> QED
  BY <1>5, <1>6, NothingPurged

\* The other steps of connect.
LEMMA ConnectStepsStaySane ==
  ASSUME TypeInv, TypeInv', LivesBegun, GenerationsGrow, PurgeSane,
         \/ \E w \in Workspace, create \in BOOLEAN : Connect(w, create)
         \/ ConnectGivesUp \/ ConnectStoresKeyring \/ ConnectStoresState
         \/ ConnectBootstraps \/ ConnectBootstrapFails \/ ConnectStartsLoop
  PROVE  PurgeSane'
<1> USE DEF disk, server
<1>1. /\ mem \in MemType /\ loops \in [LoopId -> LoopType] /\ db \in DbType
      /\ user \in UserType
  BY TypesSplit DEF TypeInv, ProcessTypes, DiskTypes
<1>2. db'.index = db.index /\ of' = of => Lives' \subseteq Lives
  BY DEF Lives
<1>3. NoCommand.pc = "idle" /\ "idle" \notin Connecting
  BY DEF NoCommand, Connecting
<1>4. ASSUME UNCHANGED <<mem, loops>>, Lives' \subseteq Lives,
             user'.pc \in {"idle", "c_finish"} \/ user.pc \in Late,
             user'.pc = "c_finish" => ~mem.purging \/ user.pc = "c_finish"
      PROVE  PurgeSane'
  <2>1. user'.pc \in Late => user.pc \in Late
    BY <1>4 DEF Late, Connecting
  <2>2. user'.pc \in Connecting => user.pc \in Connecting \/ ~mem.purging
    BY <1>4 DEF Late, Connecting
  <2> QED
    BY <1>4, <2>1, <2>2, CommandStaysSane
<1>5. CASE \E w \in Workspace, create \in BOOLEAN : Connect(w, create)
  <2>1. user'.pc = "c_finish" /\ ~mem.purging /\ UNCHANGED <<db, of, mem, loops>>
    BY <1>5 DEF Connect, NoPurgeUnderWay, NoCommand
  <2> QED
    BY <1>2, <1>4, <2>1
<1>6. CASE ConnectGivesUp
  BY <1>2, <1>3, <1>4, <1>6 DEF ConnectGivesUp
<1>7. CASE ConnectStoresKeyring
  <2>1. user.pc \in Late /\ user'.pc # "c_finish"
    BY <1>1, <1>3, <1>7 DEF ConnectStoresKeyring, WriteFails, Late, Connecting, UserType
  <2> QED
    BY <1>2, <1>4, <1>7, <2>1 DEF ConnectStoresKeyring
<1>8. CASE ConnectStoresState
  <2>1. user.pc \in Late /\ user'.pc # "c_finish"
    BY <1>1, <1>3, <1>8 DEF ConnectStoresState, WriteFails, Late, Connecting, UserType
  <2>2. db'.index = db.index
    BY <1>1, <1>8 DEF ConnectStoresState, DbType
  <2> QED
    BY <1>2, <1>4, <1>8, <2>1, <2>2 DEF ConnectStoresState
<1>9. CASE ConnectBootstraps
  <2>1. user.pc \in Late /\ user'.pc # "c_finish"
    BY <1>1, <1>9 DEF ConnectBootstraps, Late, Connecting, UserType
  <2>2. PICK i \in Bootstrapped(mem.conn) : db' = [db EXCEPT !.index = i]
    BY <1>9 DEF ConnectBootstraps
  <2>3. db'.index = i /\ i \in Followed(mem.conn)
    BY <1>1, <2>2, BootstrappedIsFollowed DEF DbType
  <2>4. Lives' \subseteq Lives
    BY <1>9, <2>3, FollowedLives DEF ConnectBootstraps
  <2> QED
    BY <1>4, <1>9, <2>1, <2>4 DEF ConnectBootstraps
<1>10. CASE ConnectBootstrapFails
  <2>1. user.pc \in Late /\ user'.pc # "c_finish"
    BY <1>3, <1>10 DEF ConnectBootstrapFails, Late, Connecting
  <2>2. PICK i \in Followed(mem.conn) : db' = [db EXCEPT !.state = "degraded", !.index = i]
    BY <1>10 DEF ConnectBootstrapFails
  <2>3. db'.index = i
    BY <1>1, <2>2 DEF DbType
  <2>4. Lives' \subseteq Lives
    BY <1>10, <2>3, FollowedLives DEF ConnectBootstrapFails
  <2> QED
    BY <1>4, <1>10, <2>1, <2>4 DEF ConnectBootstrapFails
<1>11. CASE ConnectStartsLoop
  <2> DEFINE m == [mem EXCEPT !.intentional = FALSE]
  <2>1. /\ m \in MemType /\ m.cfg = mem.cfg /\ m.cancel = mem.cancel
        /\ m.purging = mem.purging /\ m.loopId = mem.loopId
    BY <1>1 DEF MemType
  <2>2. user.pc = "c_loop" /\ user'.pc = "idle" /\ mem' = StartLoop(m)
        /\ loops' = WithLoopOf(mem', loops) /\ of' = of /\ db' = db
    BY <1>3, <1>11 DEF ConnectStartsLoop
  <2> HIDE DEF m
  <2>3. user.pc \in Connecting /\ user.pc \in Late /\ mem.cfg # None
        /\ mem.loopId < MaxLoops
    BY <2>2 DEF Connecting, Late, PurgeSane, CancelsWhatRuns, TypeInv, CommandsSane
  <2>4. mem'.cfg = mem.cfg /\ mem'.purging = mem.purging
        /\ \/ mem'.cancel = mem.cancel /\ mem'.loopId = mem.loopId
           \/ /\ mem.cancel = 0 /\ mem'.cancel = mem.loopId + 1
              /\ mem'.loopId = mem.loopId + 1
    BY <2>1, <2>2, <2>3, StartLoopEffect
  <2>5. CASE mem'.cancel = mem.cancel /\ mem'.loopId = mem.loopId
    <3>1. loops' = loops
      BY <2>2, <2>5 DEF WithLoopOf
    <3>2. \A k \in LoopId : (Runs(k)' <=> Runs(k)) /\ (TellsPurge(k)' <=> TellsPurge(k))
      BY <3>1 DEF Runs, TellsPurge
    <3>3. user'.pc \notin Late /\ user'.pc \notin Connecting
      BY <2>2 DEF Late, Connecting
    <3> QED
      BY <1>2, <2>2, <2>4, <2>5, <3>1, <3>2, <3>3, PurgeStaysSane
  <2>6. CASE /\ mem.cancel = 0 /\ mem'.cancel = mem.loopId + 1
             /\ mem'.loopId = mem.loopId + 1
    <3>1. mem.loopId \in Nat /\ mem.loopId + 1 \in LoopId /\ mem'.loopId # mem.loopId
      BY <2>3, <2>6, CancelIsNoLoopAtZero, LifecycleAssumption DEF LoopId
    <3>2. /\ \A k \in LoopId : k # mem'.cancel => loops'[k] = loops[k]
          /\ loops'[mem'.cancel] = [NoLoop EXCEPT !.pc = "top"]
      BY <1>1, <2>2, <2>6, <3>1 DEF WithLoopOf
    <3>3. loops'[mem'.cancel].pc = "top" /\ ~loops'[mem'.cancel].canceled
      BY <3>2 DEF NoLoop
    <3>4. \A k \in LoopId : ~Runs(k)
      BY <2>6, CancelIsNoLoopAtZero DEF PurgeSane, CancelsWhatRuns
    <3>5. CancelsWhatRuns'
      BY <2>3, <2>4, <3>2, <3>4 DEF CancelsWhatRuns, Runs
    <3>6. \A k \in LoopId : /\ InPurge(k)' => InPurge(k) /\ loops'[k] = loops[k]
                            /\ TellsPurge(k)' => TellsPurge(k)
      BY <3>2, <3>3 DEF InPurge, TellsPurge
    <3>7. OnePurge'
      BY <3>6 DEF PurgeSane, OnePurge
    <3>8. Lives' \subseteq Lives /\ gen' = gen /\ present' = present
      BY <1>2, <1>11, <2>2 DEF ConnectStartsLoop
    <3>9. \A k \in LoopId : TellsPurge(k)' =>
            \A life \in Lives' : life.ws = mem'.cfg => LifeIsOver(life)'
      BY <2>4, <3>6, <3>8 DEF PurgeSane, PurgeStands, LifeIsOver, LifeOf
    <3>10. \A k \in LoopId :
             /\ loops'[k].pc \in Announced \cup {"purged"} =>
                  mem'.purging /\ user'.pc \notin Connecting
             /\ InPurge(k)' /\ (loops'[k].canceled \/ loops'[k].pc = "purged") =>
                  mem'.cfg = None
      <4> SUFFICES ASSUME NEW k \in LoopId
                   PROVE  /\ loops'[k].pc \in Announced \cup {"purged"} =>
                               mem'.purging /\ user'.pc \notin Connecting
                          /\ InPurge(k)' /\ (loops'[k].canceled \/ loops'[k].pc = "purged") =>
                               mem'.cfg = None
        OBVIOUS
      <4>1. loops'[k].pc \in Announced \cup {"purged"} => loops'[k] = loops[k]
        BY <3>2, <3>3 DEF Announced
      <4>2. loops'[k].pc \in Announced \cup {"purged"} =>
              mem'.purging /\ user'.pc \notin Connecting
        BY <2>3, <4>1 DEF PurgeSane, PurgeStands
      <4>3. InPurge(k)' /\ (loops'[k].canceled \/ loops'[k].pc = "purged") => mem'.cfg = None
        BY <2>4, <3>6 DEF PurgeSane, PurgeStands
      <4> QED
        BY <4>2, <4>3
    <3>11. PurgeStands'
      BY <3>9, <3>10 DEF PurgeStands
    <3> QED
      BY <3>5, <3>7, <3>11 DEF PurgeSane
  <2> QED
    BY <2>4, <2>5, <2>6
<1> QED
  BY <1>5, <1>6, <1>7, <1>8, <1>9, <1>10, <1>11

\* A disconnect leaves no workspace, and no loop that runs.
LEMMA DisconnectStaysSane ==
  ASSUME TypeInv, TypeInv', LivesBegun, GenerationsGrow, PurgeSane,
         Disconnect \/ DisconnectClearsKeyring \/ DisconnectClearsState
  PROVE  PurgeSane'
<1> USE DEF disk, server
<1>1. mem \in MemType /\ loops \in [LoopId -> LoopType] /\ user \in UserType
  BY TypesSplit DEF TypeInv, ProcessTypes
<1>2. user'.pc \notin Connecting /\ user'.pc \notin Late
  BY <1>1 DEF Disconnect, DisconnectClearsKeyring, DisconnectClearsState, WriteFails,
     NoCommand, UserType, Connecting, Late
<1>3. Lives' \subseteq Lives
  BY DEF Disconnect, DisconnectClearsKeyring, DisconnectClearsState, Cleared, Lives
<1>4. CASE DisconnectClearsKeyring \/ DisconnectClearsState
  BY <1>2, <1>3, <1>4, CommandStaysSane DEF DisconnectClearsKeyring, DisconnectClearsState
<1>5. CASE Disconnect
  <2>1. mem'.cfg = None /\ mem'.cancel = 0 /\ mem'.purging = mem.purging
    BY <1>1, <1>5 DEF Disconnect, MemType
  <2>2. \A k \in LoopId : /\ loops'[k].pc = loops[k].pc /\ loops'[k].err = loops[k].err
                          /\ k = mem.cancel => loops'[k].canceled
                          /\ k # mem.cancel => loops'[k] = loops[k]
    BY <1>1, <1>5 DEF Disconnect, LoopType
  <2>3. CancelsWhatRuns'
    BY <1>2, <2>1, <2>2 DEF PurgeSane, CancelsWhatRuns, Runs
  <2>4. OnePurge'
    BY <2>2 DEF PurgeSane, OnePurge, InPurge, TellsPurge
  <2>5. \A life \in Lives' : life.ws # mem'.cfg
    BY <2>1, LifecycleAssumption DEF Lives, Life
  <2>6. PurgeStands'
    BY <1>2, <2>1, <2>2, <2>5 DEF PurgeSane, PurgeStands
  <2> QED
    BY <2>3, <2>4, <2>6 DEF PurgeSane
<1> QED
  BY <1>4, <1>5

\* Whatever happens around connect, disconnect and the loops.
LEMMA OutsideStaysSane ==
  ASSUME TypeInv, TypeInv', LivesBegun, GenerationsGrow, PurgeSane,
         LocalOperation \/ World \/ UNCHANGED vars
  PROVE  PurgeSane'
<1>1. UNCHANGED <<of, mem, loops, user>>
  BY DEF LocalOperation, World, PeerCreates, PeerAddsRoot, Purge, TokenLapses, vars, server
<1>2. Lives' \subseteq Lives
  <2>1. CASE db' = db
    BY <1>1, <2>1 DEF Lives
  <2>2. CASE LocalOperation /\ mem.conn \in accepted
    <3>1. PICK i \in SUBSET (db.index \cup {of[mem.conn]}) : db' = [db EXCEPT !.index = i]
      BY <2>2 DEF LocalOperation
    <3>2. db'.index = i /\ mem.conn \in Token
      BY <2>2, <3>1, TypesSplit DEF TypeInv, DiskTypes, DbType, ServerTypes
    <3> QED
      BY <1>1, <3>1, <3>2, NoNewLives
  <2> QED
    BY <2>1, <2>2
       DEF LocalOperation, World, PeerCreates, PeerAddsRoot, Purge, TokenLapses, vars, disk
<1> QED
  BY <1>1, <1>2, CommandStaysSane

LEMMA PurgeSaneNext ==
  ASSUME TypeInv, TypeInv', LivesBegun, PurgeSane, [Next]_vars, ~overtaken'
  PROVE  PurgeSane'
<1>1. GenerationsGrow
  BY GenerationsMove
<1>2. ASSUME NEW l \in LoopId, LoopStep(l) PROVE PurgeSane'
  BY <1>1, <1>2, QuietLoopStaysSane, HandshakeStaysSane, PurgeStepsStaySane,
     ProcessStaysSane
     DEF LoopStep
<1>3. CASE ConnectStep
  BY <1>1, <1>3, ConnectFinishStaysSane, ConnectStepsStaySane DEF ConnectStep
<1>4. CASE Disconnect \/ DisconnectStep
  BY <1>1, <1>4, DisconnectStaysSane, ProcessStaysSane DEF DisconnectStep
<1> QED
  BY <1>1, <1>2, <1>3, <1>4, ConnectStepsStaySane, ProcessStaysSane, OutsideStaysSane
     DEF Next

\* A new session is for the life the workspace has.
LEMMA SessionHasBegun ==
  ASSUME TypeInv, LivesBegun, NEW t, NEW life \in Life, Issue(t, life),
         ChallengeStands(life), gen' = gen, db'.index = db.index
  PROVE  LivesBegun'
<1>1. of' = [x \in Token |-> IF x = t THEN life ELSE IF x \in Held THEN of[x] ELSE None]
  BY DEF Issue
<1>2. \A x \in Token : of'[x] \in {life, None, of[x]}
  BY <1>1
<1>3. \A k \in Lives' : k \in Lives \/ k = life
  BY <1>2, LifecycleAssumption DEF Lives, Life
<1>4. life.ws \in Workspace /\ life.gen = gen[life.ws] /\ gen[life.ws] \in Nat
  BY LifecycleAssumption DEF ChallengeStands, LifeOf, Life, TypeInv, StateOK
<1> QED
  BY <1>3, <1>4 DEF LivesBegun

LEMMA LivesBegunNext ==
  ASSUME TypeInv, LivesBegun, [Next]_vars
  PROVE  LivesBegun'
<1> USE DEF disk, server
<1>1. /\ gen \in [Workspace -> 0 .. MaxGens] /\ db \in DbType
      /\ \A w \in Workspace : gen[w] <= gen'[w]
  BY TypesSplit, GenerationsMove
     DEF TypeInv, ServerTypes, StateOK, DiskTypes, GenerationsGrow
\* A step by which no life becomes known.
<1>2. ASSUME Lives' \subseteq Lives PROVE LivesBegun'
  <2> SUFFICES ASSUME NEW life \in Lives' PROVE life.gen <= gen'[life.ws]
    BY DEF LivesBegun
  <2>1. life \in Lives /\ life.ws \in Workspace /\ life.gen \in 1 .. MaxGens
    BY <1>2 DEF Lives, Life
  <2>2. gen'[life.ws] \in Nat
    BY <2>1, TypeInvNext DEF TypeInv, StateOK
  <2> QED
    BY <1>1, <2>1, <2>2, LifecycleAssumption DEF LivesBegun
<1>3. ASSUME of' = of, db'.index = db.index PROVE Lives' \subseteq Lives
  BY <1>3 DEF Lives
<1>4. ASSUME of' = of, NEW t, NEW i \in Followed(t), NEW state,
             db' = [db EXCEPT !.index = i, !.state = state]
      PROVE  Lives' \subseteq Lives
  <2>1. db'.index = i
    BY <1>1, <1>4 DEF DbType
  <2> QED
    BY <1>4, <2>1, FollowedLives
<1>5. ASSUME NEW l \in LoopId, LoopStep(l) PROVE LivesBegun'
  <2>1. CASE LoopFinishesSession(l)
    <3>1. db'.index = db.index
      BY <1>1, <2>1 DEF LoopFinishesSession, DbType
    <3>2. loops[l].life \in Life
      BY <2>1 DEF LoopFinishesSession, TypeInv, CommandsSane
    <3> QED
      BY <2>1, <3>1, <3>2, SessionHasBegun DEF LoopFinishesSession
  <2>2. CASE \/ LoopSyncs(l) \/ LoopCatchesUp(l)
             \/ (LoopRefused(l) \/ LoopHearsNothing(l)) /\ CatchUpFails
    BY <1>2, <1>4, <2>2
       DEF LoopSyncs, LoopCatchesUp, LoopRefused, LoopHearsNothing, CatchUpFails, CatchesUp
  <2>3. CASE LoopDials(l) \/ ((LoopRefused(l) \/ LoopHearsNothing(l)) /\ Dialed)
    BY <1>1, <1>2, <1>3, <2>3 DEF LoopDials, LoopRefused, LoopHearsNothing, Dialed, DbType
  <2>4. CASE LoopTurnsFailed(l)
    BY <1>1, <1>2, <1>3, <2>4 DEF LoopTurnsFailed, DbType
  <2>5. CASE LoopClearsState(l)
    BY <1>2, <2>5 DEF LoopClearsState, Cleared, Lives
  <2>6. CASE of' = of /\ db' = db
    BY <1>2, <1>3, <2>6
  <2> QED
    BY <1>5, <2>1, <2>2, <2>3, <2>4, <2>5, <2>6
       DEF LoopStep, LoopTurns, LoopTakesSync, LoopUsesCached, LoopStartsSession,
           LoopFinishRefused, LoopRefused, LoopHearsNothing, LoopEndsStream,
           LoopHearsRejection, LoopWakes, LoopPanics, LoopWaits, LoopAnnouncesPurge,
           LoopClearsConfig, LoopEndsPurge, LoopExits
<1>6. CASE ConnectStep
  <2>1. CASE ConnectFinish
    <3>1. user.life \in Life
      BY <2>1 DEF ConnectFinish, TypeInv, CommandsSane, Connecting
    <3> QED
      BY <2>1, <3>1, SessionHasBegun DEF ConnectFinish
  <2>2. CASE ConnectStoresState
    BY <1>1, <1>2, <1>3, <2>2 DEF ConnectStoresState, DbType
  <2>3. CASE ConnectBootstraps
    <3>1. PICK i \in Bootstrapped(mem.conn) : db' = [db EXCEPT !.index = i]
      BY <2>3 DEF ConnectBootstraps
    <3>2. db'.index = i /\ i \in Followed(mem.conn)
      BY <1>1, <3>1, BootstrappedIsFollowed DEF DbType
    <3> QED
      BY <1>2, <2>3, <3>2, FollowedLives DEF ConnectBootstraps
  <2>4. CASE ConnectBootstrapFails
    <3>1. PICK i \in Followed(mem.conn) : db' = [db EXCEPT !.state = "degraded", !.index = i]
      BY <2>4 DEF ConnectBootstrapFails
    <3>2. db'.index = i
      BY <1>1, <3>1 DEF DbType
    <3> QED
      BY <1>2, <2>4, <3>2, FollowedLives DEF ConnectBootstrapFails
  <2>5. CASE ConnectGivesUp \/ ConnectStoresKeyring \/ ConnectStartsLoop
    BY <1>2, <1>3, <2>5 DEF ConnectGivesUp, ConnectStoresKeyring, ConnectStartsLoop
  <2> QED
    BY <1>6, <2>1, <2>2, <2>3, <2>4, <2>5 DEF ConnectStep
<1>7. CASE LocalOperation
  <2>1. CASE mem.conn \in accepted
    <3>1. PICK i \in SUBSET (db.index \cup {of[mem.conn]}) : db' = [db EXCEPT !.index = i]
      BY <1>7, <2>1 DEF LocalOperation
    <3>2. db'.index = i /\ mem.conn \in Token /\ of' = of
      BY <1>1, <1>7, <2>1, <3>1, TypesSplit DEF TypeInv, DbType, ServerTypes, LocalOperation
    <3> QED
      BY <1>2, <3>1, <3>2, NoNewLives
  <2>2. CASE mem.conn \notin accepted
    BY <1>2, <1>3, <1>7, <2>2 DEF LocalOperation
  <2> QED
    BY <2>1, <2>2
<1>8. CASE DisconnectClearsState
  BY <1>2, <1>8 DEF DisconnectClearsState, Cleared, Lives
<1>9. CASE of' = of /\ db' = db
  BY <1>2, <1>3, <1>9
<1> QED
  BY <1>5, <1>6, <1>7, <1>8, <1>9
     DEF Next, Connect, Disconnect, DisconnectStep, DisconnectClearsKeyring, Stop, Start,
         Die, World, PeerCreates, PeerAddsRoot, Purge, TokenLapses, vars

PurgeSaneUnlessOvertaken == ~overtaken => PurgeSane

\* What the device has of the workspace it is with is thrown away as purged only
\* when that life of the workspace is gone, unless a connect got between the 404
\* and its announcement.
THEOREM OnlyTheGoneIsCleared == Spec => PurgeClearsOnlyTheGone
<1> DEFINE Clears == \A l \in LoopId : LoopClearsState(l) /\ ~overtaken =>
                       \A life \in db.index :
                         life.ws = mem.cfg =>
                           life.ws \notin present \/ life # LifeOf(life.ws)
<1>1. Init => LivesBegun /\ PurgeSaneUnlessOvertaken
  <2> SUFFICES ASSUME Init PROVE LivesBegun /\ PurgeSane
    BY DEF PurgeSaneUnlessOvertaken
  <2>1. Lives = {}
    BY LifecycleAssumption DEF Init, Lives, Life
  <2>2. \A k \in LoopId : ~InPurge(k) /\ ~Runs(k) /\ ~TellsPurge(k)
    BY DEF Init, NoLoop, InPurge, TellsPurge, Runs, Ended
  <2>3. mem.cancel = 0 /\ user.pc \notin Late
    BY DEF Init, NoMemory, NoCommand, Late, Connecting
  <2> QED
    BY <2>1, <2>2, <2>3
       DEF LivesBegun, PurgeSane, CancelsWhatRuns, PurgeStands, OnePurge, Announced, InPurge,
           TellsPurge
<1>2. TypeInv /\ TypeInv' /\ LivesBegun /\ PurgeSaneUnlessOvertaken /\ [Next]_vars
        => LivesBegun' /\ PurgeSaneUnlessOvertaken'
  BY LivesBegunNext, PurgeSaneNext, PastMoves DEF PurgeSaneUnlessOvertaken, Remembered
<1>3. TypeInv /\ PurgeSaneUnlessOvertaken => Clears
  <2> SUFFICES ASSUME TypeInv, PurgeSane, NEW l \in LoopId, LoopClearsState(l),
                      NEW life \in db.index, life.ws = mem.cfg
               PROVE  life.ws \notin present \/ life # LifeOf(life.ws)
    BY DEF PurgeSaneUnlessOvertaken
  <2>1. life \in Lives
    BY TypesSplit DEF TypeInv, DiskTypes, DbType, Lives
  <2>2. TellsPurge(l)
    BY DEF LoopClearsState, TellsPurge
  <2>3. LifeIsOver(life)
    BY <2>1, <2>2 DEF PurgeSane, PurgeStands
  <2> QED
    BY <2>3 DEF LifeIsOver
<1>4. Spec => [](TypeInv /\ LivesBegun /\ PurgeSaneUnlessOvertaken)
  BY <1>1, <1>2, TypeInvInit, TypeInvNext, PTL DEF Spec
<1>5. Clears => [Clears]_vars
  OBVIOUS
<1> HIDE DEF Clears
<1>6. Spec => [][Clears]_vars
  BY <1>3, <1>4, <1>5, PTL
<1> QED
  BY <1>6 DEF Clears, PurgeClearsOnlyTheGone

=============================================================================
