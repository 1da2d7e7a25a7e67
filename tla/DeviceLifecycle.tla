--------------------------- MODULE DeviceLifecycle ---------------------------
(***************************************************************************)
(* One installation and the workspaces of one server over time: connect,   *)
(* session handshake, reconnect loop, renewal and rejection of a session,  *)
(* purge of the workspace, recreation, disconnect, and the death and       *)
(* restart of the daemon between any two writes of these.                  *)
(*                                                                         *)
(* What is stored is in three places written one after the other: the      *)
(* configuration, the keyring and the state database.  What the daemon     *)
(* works with is a copy in memory, which the user's commands change under  *)
(* `mu` and the reconnect loop uses under `syncMu`; connect takes only the *)
(* first of the two.  The content of the log is left to the other modules: *)
(* of a device's index only the lives of workspaces its roots belong to    *)
(* are kept.                                                               *)
(***************************************************************************)
EXTENDS Naturals, FiniteSets

CONSTANTS
  Workspace,      \* workspace ids; an id stands for the key it is derived from
  Token,          \* session tokens
  None,           \* empty string, nil, NULL
  Bare,           \* a connector.Client without a token
  MaxGens,        \* bound: times a workspace is created
  MaxLoops,       \* bound: reconnect loops started by one daemon process
  MaxSteps,       \* bound: connect and disconnect commands
  MaxFaults,      \* bound: deaths of the daemon and failing writes
  MaxUpsets,      \* bound: sessions that become due or expire, workspaces
                  \* another device recreates, connects in haste
  RejectedMax     \* capacity of Daemon.sessionRejected (8 in the code)

ASSUME LifecycleAssumption ==
  /\ MaxGens \in Nat /\ MaxLoops \in Nat \ {0} /\ MaxSteps \in Nat
  /\ MaxFaults \in Nat /\ MaxUpsets \in Nat /\ RejectedMax \in Nat
  /\ None \notin Workspace \cup Token \cup [ws : Workspace, gen : Nat]
  /\ Bare \notin Token \cup {None}

VARIABLES
  gen,       \* times each workspace id was created on the server
  present,   \* ids that have a row in workspaces now
  rooted,    \* lives that have seen an event (current_seq > 0)
  accepted,  \* tokens with an unexpired row in sessions
  of,        \* the life each token was issued for
  due,       \* tokens whose expiry, by the device's clock, is near or past
  cfg,       \* config.json: server_url and workspace_id
  keyring,   \* keyring.json
  db,        \* workspace_state, and the lives the rows of roots belong to
  up,        \* the daemon process is running
  mem,       \* fields of Daemon
  loops,     \* reconnectLoop goroutines of this process
  rejected,  \* Daemon.sessionRejected
  user,      \* the connect or disconnect command under way
  halfway,   \* history: a command was cut short, and what it left not made good
  had,       \* history: lives of the device's sessions since it last gave a
             \* workspace up, by a disconnect or because it was purged
  hasty,     \* history: the user has connected in haste
  overtaken, \* history: while a loop held a 404 it had not acted upon
  steps, faults, upsets   \* used up of MaxSteps, MaxFaults, MaxUpsets

server == <<gen, present, rooted, accepted, of, due>>
disk   == <<cfg, keyring, db>>
budget == <<steps, faults, upsets>>
past   == <<had, hasty, overtaken>>
vars   == <<server, disk, up, mem, loops, rejected, user, halfway, past, budget>>

-----------------------------------------------------------------------------
LoopId == 1 .. MaxLoops

\* A workspace id may be created, purged and created again: another life.
Life == [ws : Workspace, gen : 1 .. MaxGens]

LifeOf(w) == [ws |-> w, gen |-> gen[w]]

\* Inside syncAndStream with syncMu held, and around it.
InSync == {"session", "finish", "dial", "sync"}
Streaming == {"live", "woken"}
LoopStage == {"none", "top", "want_sync"} \cup InSync \cup Streaming
               \cup {"failed", "backoff", "gone", "purge", "purge_cfg",
                     "purge_wait", "purged", "exit"}
Error == {"canceled", "renewal", "unauthorized", "not_found", "transport"}

NoLoop == [pc |-> "none", canceled |-> FALSE, token |-> None, life |-> None,
           err |-> None]

\* Connect holds mu from its first step to its last, disconnect both mutexes.
Connecting == {"c_finish", "c_keyring", "c_state", "c_bootstrap", "c_loop"}
Disconnecting == {"d_keyring", "d_state"}
UserStage == {"idle", "stop"} \cup Connecting \cup Disconnecting

NoCommand == [pc |-> "idle", ws |-> None, life |-> None, token |-> None,
              seen |-> FALSE]

NoMemory == [cfg |-> None, keys |-> None, conn |-> None,
             intentional |-> FALSE, purging |-> FALSE,
             cancel |-> 0, loopId |-> 0]

ConnectionState == {"disconnected", "syncing", "live", "degraded", "purged"}

StateOK ==
  /\ gen \in [Workspace -> 0 .. MaxGens]
  /\ present \in SUBSET Workspace
  /\ rooted \in SUBSET Life
  /\ accepted \in SUBSET Token
  /\ of \in [Token -> Life \cup {None}]
  /\ due \in SUBSET Token
  /\ cfg \in Workspace \cup {None}
  /\ keyring \in Workspace \cup {None}
  /\ db \in [state : ConnectionState, token : Token \cup {None},
             index : SUBSET Life]
  /\ up \in BOOLEAN
  /\ mem \in [cfg : Workspace \cup {None}, keys : Workspace \cup {None},
              conn : Token \cup {None, Bare},
              intentional : BOOLEAN, purging : BOOLEAN,
              cancel : 0 .. MaxLoops, loopId : 0 .. MaxLoops]
  /\ loops \in [LoopId -> [pc : LoopStage, canceled : BOOLEAN,
                           token : Token \cup {None},
                           life : Life \cup {None},
                           err : Error \cup {None}]]
  /\ rejected \in SUBSET Token
  /\ user \in [pc : UserStage, ws : Workspace \cup {None},
               life : Life \cup {None}, token : Token \cup {None},
               seen : BOOLEAN]
  /\ halfway \in BOOLEAN
  /\ steps \in 0 .. MaxSteps
  /\ faults \in 0 .. MaxFaults
  /\ upsets \in 0 .. MaxUpsets

PastOK == had \in SUBSET Life /\ hasty \in BOOLEAN /\ overtaken \in BOOLEAN

TypeOK == StateOK /\ PastOK

Init ==
  /\ gen = [w \in Workspace |-> 0]
  /\ present = {}
  /\ rooted = {}
  /\ accepted = {}
  /\ of = [t \in Token |-> None]
  /\ due = {}
  /\ cfg = None
  /\ keyring = None
  /\ db = [state |-> "disconnected", token |-> None, index |-> {}]
  /\ up = FALSE
  /\ mem = NoMemory
  /\ loops = [l \in LoopId |-> NoLoop]
  /\ rejected = {}
  /\ user = NoCommand
  /\ halfway = FALSE
  /\ had = {}
  /\ hasty = FALSE
  /\ overtaken = FALSE
  /\ steps = 0
  /\ faults = 0
  /\ upsets = 0

-----------------------------------------------------------------------------
(***************************************************************************)
(* Mutexes, the queue of rejections, sessions.                             *)
(***************************************************************************)
PurgeStoring == \E l \in LoopId : loops[l].pc = "purge_cfg"

MuFree == user.pc \notin Connecting \cup Disconnecting /\ ~PurgeStoring

SyncMuFree_whileSyncing ==
  /\ user.pc \notin Disconnecting
  /\ ~PurgeStoring

SyncMuFree ==
  /\ \A l \in LoopId : loops[l].pc \notin InSync
  /\ user.pc \notin Disconnecting
  /\ ~PurgeStoring

\* notifySessionRejected: a full channel drops the report.
Report(t) ==
  rejected' = IF t \in Token /\ Cardinality(rejected) < RejectedMax
              THEN rejected \cup {t} ELSE rejected

\* Tokens something still refers to; the server's rows of others matter to
\* nobody, and their names may be given out again.
Held == {db.token, mem.conn, user.token} \cup rejected
          \cup {loops[l].token : l \in LoopId}

\* CreateSession.  Which unused name stands for the new token is immaterial.
NewToken == CHOOSE t \in Token : t \notin Held

Issue(t, life) ==
  /\ accepted' = (accepted \cap Held) \cup {t}
  /\ due' = (due \cap Held) \ {t}
  /\ of' = [x \in Token |-> IF x = t THEN life
                            ELSE IF x \in Held THEN of[x] ELSE None]

\* What a bootstrap, or events from a cursor on, tell of a token's workspace.
RootsOf(t) == {of[x] : x \in Token \cap {t}} \cap rooted

StartLoop_offByOne(m) ==
  IF m.cancel # 0 THEN m
  ELSE [m EXCEPT !.loopId = @ + 1, !.cancel = m.loopId + 2]

\* startReconnectLoopLocked: at most one at a time.
StartLoop(m) ==
  IF m.cancel # 0 THEN m
  ELSE [m EXCEPT !.loopId = @ + 1, !.cancel = m.loopId + 1]

\* The goroutine of a loop that m started and mem had not.
WithLoopOf(m, ls) ==
  IF m.loopId = mem.loopId THEN ls
  ELSE [ls EXCEPT ![m.loopId] = [NoLoop EXCEPT !.pc = "top"]]

-----------------------------------------------------------------------------
(***************************************************************************)
(* syna connect.  One command at a time: connect and disconnect both keep  *)
(* mu to themselves.  A command that is refused, or fails before it stores *)
(* anything, changes nothing and is left out.                              *)
(***************************************************************************)
\* A blank answer makes a new key; a key that is known joins or, with
\* --recreate, the retained one creates.
Names(w, create) ==
  \/ gen[w] = 0 /\ create
  \/ gen[w] # 0 /\ ~create
  \/ keyring = w /\ create

\* Connect refuses another server's URL only: a device that is connected may
\* name any workspace of its server.  A patient user disconnects first, and
\* when that failed leaves the loop it stopped the time to end.
Patient(w) ==
  /\ mem.cfg = None \/ (mem.cfg = w /\ mem.cancel = 0)
  /\ \A l \in LoopId : ~loops[l].canceled

Chooses(w) ==
  \/ Patient(w) /\ UNCHANGED <<hasty, upsets>>
  \/ ~Patient(w) /\ upsets < MaxUpsets /\ upsets' = upsets + 1 /\ hasty' = TRUE

NoPurgeUnderWay_unasked == TRUE

\* A purge that was announced is finished first.
NoPurgeUnderWay == ~mem.purging

\* SessionStart.
Connect(w, create) ==
  /\ up /\ user.pc = "idle" /\ MuFree /\ NoPurgeUnderWay
  /\ steps < MaxSteps /\ mem.loopId < MaxLoops
  /\ Names(w, create) /\ Chooses(w)
  /\ \/ w \in present /\ UNCHANGED <<gen, present>>
     \/ /\ w \notin present /\ create /\ gen[w] < MaxGens
        /\ gen' = [gen EXCEPT ![w] = @ + 1]
        /\ present' = present \cup {w}
  /\ user' = [NoCommand EXCEPT !.pc = "c_finish", !.ws = w,
                               !.life = [ws |-> w, gen |-> gen'[w]]]
  /\ steps' = steps + 1
  /\ UNCHANGED <<rooted, accepted, of, due, disk, up, mem, loops, rejected,
                 halfway, had, overtaken, faults>>

\* The challenge is deleted with the workspace.
ChallengeStands(life) == life.ws \in present /\ life = LifeOf(life.ws)

\* A write fails: the command returns its error, what it did stays.
WriteFails ==
  /\ faults < MaxFaults
  /\ faults' = faults + 1
  /\ user' = NoCommand
  /\ halfway' = TRUE

\* The workspace was not found when loop l asked: it will announce a purge.
HoldsNotFound(l) ==
  loops[l].pc = "gone" \/ (loops[l].pc = "failed" /\ loops[l].err = "not_found")

\* SessionFinish, the fields of Daemon, SaveConfig.
ConnectFinish ==
  /\ user.pc = "c_finish" /\ ChallengeStands(user.life)
  /\ Token \ Held # {}
  /\ LET t == NewToken IN
       /\ Issue(t, user.life)
       /\ mem' = [mem EXCEPT !.cfg = user.ws, !.keys = user.ws, !.conn = t]
       /\ \/ /\ cfg' = user.ws
             /\ user' = [user EXCEPT !.pc = "c_keyring", !.token = t,
                                     !.seen = user.life \in rooted]
             /\ UNCHANGED <<halfway, faults>>
          \/ WriteFails /\ UNCHANGED cfg
  /\ had' = had \cup {user.life}
  /\ overtaken' = (overtaken \/ \E l \in LoopId : HoldsNotFound(l))
  /\ UNCHANGED <<gen, present, rooted, keyring, db, up, loops, rejected,
                 hasty, steps, upsets>>

ConnectGivesUp ==
  /\ user.pc = "c_finish"
  /\ user' = NoCommand
  /\ UNCHANGED <<server, disk, up, mem, loops, rejected, halfway, past, budget>>

ConnectStoresKeyring ==
  /\ user.pc = "c_keyring"
  /\ \/ /\ keyring' = user.ws
        /\ user' = [user EXCEPT !.pc = "c_state"]
        /\ UNCHANGED <<halfway, faults>>
     \/ WriteFails /\ UNCHANGED keyring
  /\ UNCHANGED <<server, cfg, db, up, mem, loops, rejected, past, steps, upsets>>

\* SaveWorkspaceState keeps the rows of roots as they are.  Whether there is
\* anything to bootstrap was told by the session's current_seq.
ConnectStoresState ==
  /\ user.pc = "c_state"
  /\ \/ /\ db' = [db EXCEPT !.state = "syncing", !.token = user.token]
        /\ user' = [user EXCEPT !.pc = IF user.seen THEN "c_bootstrap"
                                                    ELSE "c_loop"]
        /\ UNCHANGED <<halfway, faults>>
     \/ WriteFails /\ UNCHANGED db
  /\ UNCHANGED <<server, cfg, keyring, up, mem, loops, rejected, past,
                 steps, upsets>>

\* What of db.index and of the workspace of token t the device has active
\* after it consumed events, resynchronised, or operated on a root: events add
\* and remove roots; a bootstrap removes the active roots that its reply does
\* not name; a cursor of a former life may be past the end of the log.
Followed(t) == SUBSET (db.index \cup RootsOf(t))

\* A root that the reply names and that is active already keeps its row and its
\* entries, of whatever life: its id comes from the key and the path.
Bootstrapped(t) == {i \in Followed(t) : \A life \in i : life.ws = of[t].ws}

ConnectBootstraps ==
  /\ user.pc = "c_bootstrap" /\ mem.conn \in accepted
  /\ \E i \in Bootstrapped(mem.conn) : db' = [db EXCEPT !.index = i]
  /\ user' = [user EXCEPT !.pc = "c_loop"]
  /\ halfway' = (halfway /\ ~(db'.index \subseteq {of[mem.conn]}))
  /\ UNCHANGED <<server, cfg, keyring, up, mem, loops, rejected, past, budget>>

ConnectBootstrapFails ==
  /\ user.pc = "c_bootstrap"
  /\ \E i \in Followed(mem.conn) :
       db' = [db EXCEPT !.state = "degraded", !.index = i]
  /\ IF mem.conn \in accepted THEN UNCHANGED rejected ELSE Report(mem.conn)
  /\ user' = NoCommand
  /\ halfway' = TRUE
  /\ UNCHANGED <<server, cfg, keyring, up, mem, loops, past, budget>>

ConnectStartsLoop ==
  /\ user.pc = "c_loop"
  /\ mem' = StartLoop([mem EXCEPT !.intentional = FALSE])
  /\ loops' = WithLoopOf(mem', loops)
  /\ user' = NoCommand
  /\ UNCHANGED <<server, disk, up, rejected, halfway, past, budget>>

(***************************************************************************)
(* syna disconnect: under both mutexes; the daemon is then shut down.      *)
(***************************************************************************)
Disconnect ==
  /\ up /\ user.pc = "idle" /\ SyncMuFree /\ MuFree /\ steps < MaxSteps
  /\ steps' = steps + 1
  /\ mem' = [mem EXCEPT !.cfg = None, !.keys = None, !.conn = None,
                        !.intentional = TRUE, !.cancel = 0]
  /\ loops' = [l \in LoopId |-> IF l = mem.cancel
                                THEN [loops[l] EXCEPT !.canceled = TRUE]
                                ELSE loops[l]]
  /\ \/ /\ cfg' = None
        /\ user' = [NoCommand EXCEPT !.pc = "d_keyring"]
        /\ UNCHANGED <<halfway, faults>>
     \/ WriteFails /\ UNCHANGED cfg
  /\ UNCHANGED <<server, keyring, db, up, rejected, past, upsets>>

DisconnectClearsKeyring ==
  /\ user.pc = "d_keyring"
  /\ \/ /\ keyring' = None
        /\ user' = [user EXCEPT !.pc = "d_state"]
        /\ UNCHANGED <<halfway, faults>>
     \/ WriteFails /\ UNCHANGED keyring
  /\ UNCHANGED <<server, cfg, db, up, mem, loops, rejected, past, steps, upsets>>

Cleared_keepsRoots(state) ==
  [state |-> state, token |-> None, index |-> db.index]

\* clearWorkspace: one transaction.
Cleared(state) == [state |-> state, token |-> None, index |-> {}]

DisconnectClearsState ==
  /\ user.pc = "d_state"
  /\ \/ /\ db' = Cleared("disconnected")
        /\ user' = [NoCommand EXCEPT !.pc = "stop"]
        /\ halfway' = FALSE
        /\ had' = {}
        /\ UNCHANGED faults
     \/ WriteFails /\ UNCHANGED <<db, had>>
  /\ UNCHANGED <<server, cfg, keyring, up, mem, loops, rejected, hasty, overtaken,
                 steps, upsets>>

(***************************************************************************)
(* The process ends: after a disconnect, or at any moment.  It is started  *)
(* by systemd or by the next command.                                      *)
(***************************************************************************)
Gone ==
  /\ up' = FALSE
  /\ mem' = NoMemory
  /\ loops' = [l \in LoopId |-> NoLoop]
  /\ rejected' = {}
  /\ user' = NoCommand

Stop ==
  /\ user.pc = "stop"
  /\ Gone
  /\ UNCHANGED <<server, disk, halfway, past, budget>>

Die ==
  /\ up /\ faults < MaxFaults
  /\ faults' = faults + 1
  /\ Gone
  /\ halfway' = (halfway \/ user.pc \in {"c_keyring", "c_state", "c_bootstrap"}
                                           \cup Disconnecting)
  /\ UNCHANGED <<server, disk, past, steps, upsets>>

Recovered_asStored(c, state) == c

\* New finishes a purge that was cut short between its two writes.
Recovered(c, state) == IF state = "purged" THEN None ELSE c

\* New and Run.
Start ==
  LET c == Recovered(cfg, db.state)
      m == [NoMemory EXCEPT
              !.cfg = c, !.keys = keyring,
              !.conn = CASE c = None -> None
                         [] c # None /\ db.token = None -> Bare
                         [] OTHER -> db.token]
  IN /\ ~up
     /\ up' = TRUE
     /\ cfg' = c
     /\ mem' = IF c # None /\ keyring # None THEN StartLoop(m) ELSE m
     /\ loops' = IF mem'.loopId = 0 THEN loops
                 ELSE [loops EXCEPT ![1] = [NoLoop EXCEPT !.pc = "top"]]
     /\ UNCHANGED <<server, keyring, db, rejected, user, halfway, past, budget>>

-----------------------------------------------------------------------------
(***************************************************************************)
(* The reconnect loop.                                                     *)
(***************************************************************************)
Goes(l, pc) == loops' = [loops EXCEPT ![l].pc = pc, ![l].err = None]

\* syncAndStream returns an error: the stream is closed.
Fails(l, err) ==
  loops' = [loops EXCEPT ![l] = [@ EXCEPT !.pc = "failed", !.err = err,
                                          !.token = None, !.life = None]]

\* A request with a cancelled context fails before it is sent; disconnect,
\* which cancels it, waits for the requests under way to end.
Asks(l) == ~loops[l].canceled

LoopTurns(l) ==
  /\ loops[l].pc = "top"
  /\ Goes(l, IF loops[l].canceled THEN "exit" ELSE "want_sync")
  /\ UNCHANGED <<server, disk, up, mem, rejected, user, halfway, past, budget>>

\* syncMu, then mu for as long as the fields are read.
LoopTakesSync(l) ==
  /\ loops[l].pc = "want_sync" /\ SyncMuFree /\ MuFree
  /\ Goes(l, IF mem.intentional \/ None \in {mem.conn, mem.keys, mem.cfg}
             THEN "backoff" ELSE "session")
  /\ UNCHANGED <<server, disk, up, mem, rejected, user, halfway, past, budget>>

Cached == db.token # None /\ db.token \notin due

\* ensureSession with a session that has more than five minutes left.
LoopUsesCached(l) ==
  /\ loops[l].pc = "session" /\ Cached
  /\ mem' = [mem EXCEPT !.conn = db.token]
  /\ rejected' = {}
  /\ Goes(l, "dial")
  /\ UNCHANGED <<server, disk, up, user, halfway, past, budget>>

\* SessionStart, which never creates; the server is stopped while it purges,
\* so the workspace it has found is there when it saves the challenge.
LoopStartsSession(l) ==
  /\ loops[l].pc = "session" /\ ~Cached /\ Asks(l)
  /\ \/ mem.cfg \notin present /\ Fails(l, "not_found")
     \/ mem.cfg \in present /\ mem.keys # mem.cfg /\ Fails(l, "transport")
     \/ /\ mem.cfg \in present /\ mem.keys = mem.cfg
        /\ loops' = [loops EXCEPT ![l].pc = "finish",
                                  ![l].life = LifeOf(mem.cfg)]
  /\ UNCHANGED <<server, disk, up, mem, rejected, user, halfway, past, budget>>

\* SessionFinish sends no token, so nothing is reported when it is refused.
LoopFinishRefused(l) ==
  /\ loops[l].pc = "finish" /\ Asks(l) /\ ~ChallengeStands(loops[l].life)
  /\ Fails(l, "unauthorized")
  /\ UNCHANGED <<server, disk, up, mem, rejected, user, halfway, past, budget>>

LoopFinishesSession(l) ==
  /\ loops[l].pc = "finish" /\ Asks(l) /\ ChallengeStands(loops[l].life)
  /\ Token \ Held # {}
  /\ Issue(NewToken, loops[l].life)
  /\ mem' = [mem EXCEPT !.conn = NewToken]
  /\ rejected' = {}
  /\ \/ /\ db' = [db EXCEPT !.token = NewToken, !.state = "syncing"]
        /\ loops' = [loops EXCEPT ![l].pc = "dial", ![l].life = None]
        /\ UNCHANGED faults
     \/ /\ faults < MaxFaults
        /\ faults' = faults + 1
        /\ Fails(l, "transport")
        /\ UNCHANGED db
  /\ had' = had \cup {loops[l].life}
  /\ UNCHANGED <<gen, present, rooted, cfg, keyring, up, user, halfway,
                 hasty, overtaken, steps, upsets>>

\* The connector is read under mu; the socket keeps its token.
Dialed == db' = [db EXCEPT !.state = "syncing"]

LoopDials(l) ==
  /\ loops[l].pc = "dial" /\ MuFree /\ Asks(l) /\ mem.conn \in accepted
  /\ Dialed
  /\ loops' = [loops EXCEPT ![l].pc = "sync", ![l].token = mem.conn]
  /\ UNCHANGED <<server, cfg, keyring, up, mem, rejected, user, halfway, past, budget>>

\* bootstrapOrCatchUp; pages consumed before a request fails stay consumed.
CatchesUp(state) ==
  \E i \in Followed(mem.conn) : db' = [db EXCEPT !.index = i, !.state = state]
CatchUpFails == CatchesUp(db.state)

LoopSyncs(l) ==
  /\ loops[l].pc = "sync" /\ Asks(l) /\ mem.conn \in accepted
  /\ CatchesUp("live")
  /\ Goes(l, "live")
  /\ UNCHANGED <<server, cfg, keyring, up, mem, rejected, user, halfway, past, budget>>

CanCatchUp(l) == loops[l].pc = "woken" /\ SyncMuFree /\ mem.conn # None

LoopCatchesUp(l) ==
  /\ CanCatchUp(l) /\ Asks(l) /\ mem.conn \in accepted
  /\ CatchesUp(db.state)
  /\ Goes(l, "live")
  /\ UNCHANGED <<server, cfg, keyring, up, mem, rejected, user, halfway, past, budget>>

\* A request with the connector's token is answered 401.
LoopRefused(l) ==
  /\ Asks(l) /\ mem.conn \notin accepted
  /\ \/ loops[l].pc = "dial" /\ MuFree /\ Dialed
     \/ (loops[l].pc = "sync" \/ CanCatchUp(l)) /\ CatchUpFails
  /\ Report(mem.conn)
  /\ Fails(l, "unauthorized")
  /\ UNCHANGED <<server, cfg, keyring, up, mem, user, halfway, past, budget>>

\* Any request is lost, times out, or is not sent.
LoopHearsNothing(l) ==
  /\ \/ loops[l].pc = "session" /\ ~Cached /\ UNCHANGED db
     \/ loops[l].pc = "finish" /\ UNCHANGED db
     \/ loops[l].pc = "dial" /\ MuFree /\ Dialed
     \/ (loops[l].pc = "sync" \/ CanCatchUp(l)) /\ CatchUpFails
  /\ Fails(l, IF Asks(l) THEN "transport" ELSE "canceled")
  /\ UNCHANGED <<server, cfg, keyring, up, mem, rejected, user, halfway, past, budget>>

\* The streaming loop selects one of what is ready.
LoopEndsStream(l) ==
  /\ loops[l].pc = "live"
  /\ \/ loops[l].canceled /\ Fails(l, "canceled")
     \/ loops[l].token \in due /\ Fails(l, "renewal")
     \/ Fails(l, "transport")
  /\ UNCHANGED <<server, disk, up, mem, rejected, user, halfway, past, budget>>

LoopHearsRejection(l) ==
  /\ loops[l].pc = "live"
  /\ \E t \in rejected :
       /\ rejected' = rejected \ {t}
       /\ IF t = loops[l].token THEN Fails(l, "unauthorized")
                                ELSE UNCHANGED loops
  /\ UNCHANGED <<server, disk, up, mem, user, halfway, past, budget>>

\* A notification: the loop waits for syncMu.
LoopWakes(l) ==
  /\ loops[l].pc = "live"
  /\ Goes(l, "woken")
  /\ UNCHANGED <<server, disk, up, mem, rejected, user, halfway, past, budget>>

\* Unlike the retry of pending work, a notification does not look at the
\* context once it has syncMu; disconnect has left no connector.
LoopPanics(l) ==
  /\ loops[l].pc = "woken" /\ SyncMuFree /\ mem.conn = None
  /\ Gone
  /\ UNCHANGED <<server, disk, halfway, past, budget>>

After_keepsRejected(l) ==
  LET e == loops[l].err
  IN CASE e = "canceled"  -> "exit"
       [] e = "renewal"   -> "top"
       [] e = "not_found" -> "gone"
       [] OTHER           -> "backoff"

\* What reconnectLoop makes of the error; at "top" again, the session that was
\* due or rejected is forgotten.
After(l) ==
  LET e == loops[l].err
  IN CASE e = "canceled"                            -> "exit"
       [] e = "renewal"                             -> "top"
       [] e = "unauthorized" /\ db.token # None      -> "top"
       [] e = "not_found"                           -> "gone"
       [] OTHER                                     -> "backoff"

LoopTurnsFailed(l) ==
  /\ loops[l].pc = "failed"
  /\ Goes(l, After(l))
  /\ db' = CASE After(l) = "top"     -> [db EXCEPT !.token = None]
             [] After(l) = "backoff" -> [db EXCEPT !.state = "degraded"]
             [] OTHER                -> db
  /\ UNCHANGED <<server, cfg, keyring, up, mem, rejected, user, halfway, past, budget>>

LoopWaits(l) ==
  /\ loops[l].pc \in {"backoff", "purge_wait"}
  /\ Goes(l, IF loops[l].canceled THEN "exit"
             ELSE IF loops[l].pc = "backoff" THEN "top" ELSE "purge")
  /\ UNCHANGED <<server, disk, up, mem, rejected, user, halfway, past, budget>>

(***************************************************************************)
(* finishPurgedWorkspace: mu to announce it, both mutexes to do it, mu to  *)
(* take the announcement back.                                             *)
(***************************************************************************)
LoopAnnouncesPurge(l) ==
  /\ loops[l].pc = "gone" /\ MuFree
  /\ mem' = [mem EXCEPT !.purging = TRUE]
  /\ Goes(l, "purge")
  /\ UNCHANGED <<server, disk, up, rejected, user, halfway, past, budget>>

LoopClearsState(l) ==
  /\ loops[l].pc = "purge" /\ SyncMuFree /\ MuFree
  /\ db' = Cleared("purged")
  /\ had' = {}
  /\ Goes(l, "purge_cfg")
  /\ UNCHANGED <<server, cfg, keyring, up, mem, rejected, user, halfway, hasty,
                 overtaken, budget>>

\* The fields of Daemon change only once the configuration is stored.
LoopClearsConfig(l) ==
  /\ loops[l].pc = "purge_cfg"
  /\ \/ /\ cfg' = None
        /\ mem' = [mem EXCEPT !.cfg = None, !.keys = None, !.conn = None,
                              !.intentional = TRUE, !.cancel = 0]
        /\ Goes(l, "purged")
        /\ UNCHANGED faults
     \/ /\ faults < MaxFaults
        /\ faults' = faults + 1
        /\ Goes(l, "purge_wait")
        /\ UNCHANGED <<cfg, mem>>
  /\ UNCHANGED <<server, keyring, db, up, rejected, user, halfway, past,
                 steps, upsets>>

LoopEndsPurge(l) ==
  /\ loops[l].pc = "purged" /\ MuFree
  /\ mem' = [mem EXCEPT !.purging = FALSE]
  /\ Goes(l, "exit")
  /\ UNCHANGED <<server, disk, up, rejected, user, halfway, past, budget>>

Released_always(l) == [mem EXCEPT !.cancel = 0]

\* The goroutine's deferred function: a replacement loop keeps its cancel.
Released(l) == IF mem.loopId = l THEN [mem EXCEPT !.cancel = 0] ELSE mem

LoopExits(l) ==
  /\ loops[l].pc = "exit" /\ MuFree
  /\ mem' = Released(l)
  /\ loops' = [loops EXCEPT ![l] = NoLoop]
  /\ UNCHANGED <<server, disk, up, rejected, user, halfway, past, budget>>

-----------------------------------------------------------------------------
(***************************************************************************)
(* Operations under both mutexes, other devices, the operator, the clock.  *)
(***************************************************************************)
\* syna add, rm, or a rescan.
LocalOperation ==
  /\ up /\ user.pc = "idle" /\ SyncMuFree /\ MuFree
  /\ None \notin {mem.conn, mem.keys, mem.cfg}
  /\ IF mem.conn \in accepted
     THEN /\ rooted' = rooted \cup {of[mem.conn]}
          /\ \E i \in SUBSET (db.index \cup {of[mem.conn]}) :
               db' = [db EXCEPT !.index = i]
          /\ UNCHANGED rejected
     ELSE Report(mem.conn) /\ UNCHANGED <<rooted, db>>
  /\ UNCHANGED <<gen, present, accepted, of, due, cfg, keyring, up, mem, loops,
                 user, halfway, past, budget>>

\* Another device connects, again with --recreate.
PeerCreates(w) ==
  /\ w \notin present /\ gen[w] < MaxGens
  /\ \/ gen[w] = 0 /\ UNCHANGED upsets
     \/ gen[w] # 0 /\ upsets < MaxUpsets /\ upsets' = upsets + 1
  /\ gen' = [gen EXCEPT ![w] = @ + 1]
  /\ present' = present \cup {w}
  /\ UNCHANGED <<rooted, accepted, of, due, disk, up, mem, loops, rejected,
                 user, halfway, past, steps, faults>>

PeerAddsRoot(w) ==
  /\ w \in present
  /\ rooted' = rooted \cup {LifeOf(w)}
  /\ UNCHANGED <<gen, present, accepted, of, due, disk, up, mem, loops,
                 rejected, user, halfway, past, budget>>

\* PurgeWorkspace: the sessions and challenges go with the row.
Purge(w) ==
  /\ w \in present
  /\ present' = present \ {w}
  /\ accepted' = {t \in accepted : of[t] = None \/ of[t].ws # w}
  /\ UNCHANGED <<gen, rooted, of, due, disk, up, mem, loops, rejected, user,
                 halfway, past, budget>>

\* Five minutes before a session's end by the device's clock, or the end.
TokenLapses(t) ==
  /\ t \in Held /\ upsets < MaxUpsets
  /\ upsets' = upsets + 1
  /\ \/ due' = due \cup {t} /\ UNCHANGED accepted
     \/ accepted' = accepted \ {t} /\ UNCHANGED due
  /\ UNCHANGED <<gen, present, rooted, of, disk, up, mem, loops, rejected,
                 user, halfway, past, steps, faults>>

-----------------------------------------------------------------------------
ConnectStep == \/ ConnectFinish \/ ConnectGivesUp \/ ConnectStoresKeyring
               \/ ConnectStoresState \/ ConnectBootstraps
               \/ ConnectBootstrapFails \/ ConnectStartsLoop

DisconnectStep == DisconnectClearsKeyring \/ DisconnectClearsState \/ Stop

LoopStep(l) ==
  \/ LoopTurns(l) \/ LoopTakesSync(l) \/ LoopUsesCached(l)
  \/ LoopStartsSession(l) \/ LoopFinishRefused(l) \/ LoopFinishesSession(l)
  \/ LoopDials(l) \/ LoopSyncs(l) \/ LoopCatchesUp(l)
  \/ LoopRefused(l) \/ LoopHearsNothing(l)
  \/ LoopEndsStream(l) \/ LoopHearsRejection(l) \/ LoopWakes(l)
  \/ LoopPanics(l)
  \/ LoopTurnsFailed(l) \/ LoopWaits(l)
  \/ LoopAnnouncesPurge(l) \/ LoopClearsState(l) \/ LoopClearsConfig(l)
  \/ LoopEndsPurge(l) \/ LoopExits(l)

World ==
  \/ \E w \in Workspace : PeerCreates(w) \/ PeerAddsRoot(w) \/ Purge(w)
  \/ \E t \in Token : TokenLapses(t)

Next ==
  \/ \E w \in Workspace, create \in BOOLEAN : Connect(w, create)
  \/ ConnectStep
  \/ Disconnect \/ DisconnectStep
  \/ Start \/ Die
  \/ \E l \in LoopId : LoopStep(l)
  \/ LocalOperation
  \/ World

-----------------------------------------------------------------------------
Ended == {"none", "purged", "exit"}
Runs(l) == loops[l].pc \notin Ended /\ ~loops[l].canceled

\* Inside the handshake and the requests that follow it.
Works(l) == loops[l].pc \in InSync \cup Streaming

Connected == up /\ user.pc = "idle" /\ ~halfway
               /\ None \notin {mem.cfg, mem.keys, mem.conn}

\* A connected device has exactly one reconnect loop that has not been told to
\* stop, and that is the one disconnect would stop: none is left without, by
\* the end of a former loop (daemon.go:2313) or a purge (1280), and no two
\* sync the same state database.  (For a user who is never in haste.)
OneLoop ==
  ~hasty =>
    /\ \A l \in LoopId : Runs(l) => l = mem.cancel
    /\ Connected => \E l \in LoopId : Runs(l)

\* A loop at work under syncMu has a connector, a key and a workspace: neither
\* disconnect nor a purge takes them away between two of its requests
\* (daemon.go:1298 reads them once).  A stream may have lost them, when it
\* was told to stop.  (For a user who is never in haste.)
SyncHasIdentity ==
  ~hasty => \A l \in LoopId :
    /\ loops[l].pc \in InSync => None \notin {mem.cfg, mem.keys, mem.conn}
    /\ loops[l].pc \in Streaming /\ mem.conn = None => loops[l].canceled

\* What a device says it is live with is of the workspace of its session, and
\* of no life the device has given up, by a purge or a disconnect, before it
\* got the sessions it had since (docs/06-client.md:163 and 169).  Those are of
\* two lives only where another device recreates the workspace before this one
\* is told of the purge: daemon.go:1199 takes the 401 for a session to renew,
\* and there is no 404.
LiveIndexIsOfThisLife ==
  ~halfway /\ ~hasty => \A l \in LoopId :
    loops[l].pc = "live" /\ ~loops[l].canceled =>
      \A life \in db.index : life \in had /\ life.ws = of[loops[l].token].ws

\* Stronger, and not so: of the one life that its session is for.
LiveIndexIsOfOneLife ==
  ~halfway /\ ~hasty => \A l \in LoopId :
    loops[l].pc = "live" /\ ~loops[l].canceled =>
      db.index \subseteq {of[loops[l].token]}

\* Once the state database says the workspace is gone nothing of it is left
\* there, and no loop goes on with it, across a death between the two writes
\* of the purge (daemon.go:1267 and 1273; 160 makes the second one good).
\* (For a user who is never in haste.)
PurgedIsQuiet ==
  db.state = "purged" /\ ~halfway /\ ~hasty =>
    /\ db.token = None /\ db.index = {}
    /\ \A l \in LoopId : ~Works(l)

\* What the device has of the workspace it is with is thrown away as purged
\* only when that life of the workspace is gone: purgeTransition keeps a
\* connect from getting between (daemon.go:267), for a user in haste as well.
\* It does so from the moment the purge is announced (1231); a connect that
\* overtakes the announcement, while the loop holds its 404, is not kept out.
PurgeClearsOnlyTheGone ==
  [][\A l \in LoopId : LoopClearsState(l) /\ ~overtaken =>
       \A life \in db.index :
         life.ws = mem.cfg => life.ws \notin present \/ life # LifeOf(life.ws)]_vars

\* Without that exception, and not so.
PurgeClearsOnlyTheGoneEver ==
  [][\A l \in LoopId : LoopClearsState(l) =>
       \A life \in db.index :
         life.ws = mem.cfg => life.ws \notin present \/ life # LifeOf(life.ws)]_vars

-----------------------------------------------------------------------------
Spec == Init /\ [][Next]_vars

\* A loop is never stuck: its goroutine is scheduled and gets the mutexes it
\* waits for, its timers fire, its requests end, and its stream ends when the
\* session has (the server stops for a purge, and the renewal timer fires
\* before a session expires).
Moves(l) ==
  \/ LoopTurns(l) \/ LoopTakesSync(l) \/ LoopUsesCached(l)
  \/ LoopHearsNothing(l) \/ LoopTurnsFailed(l) \/ LoopWaits(l)
  \/ LoopAnnouncesPurge(l) \/ LoopClearsState(l) \/ LoopClearsConfig(l)
  \/ LoopEndsPurge(l) \/ LoopExits(l)
  \/ loops[l].token \notin accepted /\ LoopEndsStream(l)

\* The server's answer to what is asked at one stage.
Answered(l, stage) ==
  /\ loops[l].pc = stage
  /\ \/ LoopStartsSession(l) \/ LoopFinishesSession(l) \/ LoopFinishRefused(l)
     \/ LoopDials(l) \/ LoopSyncs(l) \/ LoopRefused(l)

\* Commands run to their end, a daemon that died is started, and a server that
\* is asked the same again and again answers again and again.
Fairness ==
  /\ WF_vars(ConnectStep \/ DisconnectStep \/ Start)
  /\ \A l \in LoopId : WF_vars(Moves(l))
  /\ \A stage \in {"session", "finish", "dial", "sync"} :
       SF_vars(\E l \in LoopId : Answered(l, stage))

FairSpec == Spec /\ Fairness

\* A loop that is not stopped comes to stream with a session the server
\* accepts, or finds the workspace gone, whatever session it starts from: due,
\* rejected, of a former life (daemon.go:1175 to 1200).
LoopGetsThere ==
  []<>(\A l \in LoopId :
         Runs(l) => loops[l].pc = "live" /\ loops[l].token \in accepted)
=============================================================================
