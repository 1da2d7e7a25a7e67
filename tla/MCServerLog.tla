----------------------------- MODULE MCServerLog -----------------------------
(***************************************************************************)
(* Model-checking instances of ServerLog.                                  *)
(***************************************************************************)
EXTENDS ServerLog, TLC

\* Requests are interchangeable, and so are roots and paths.
Symmetry == Permutations(Handler) \cup Permutations(Root) \cup Permutations(Path)

\* Behaviours in which no database statement fails, so that what the run
\* exhibits is no fault's doing.
HealthyRequest(h) ==
  SubmitStep(h) \/ Publish(h) \/ SnapshotStep(h) \/ FloorStep(h)
    \/ BootstrapStep(h)

HealthyNext ==
  (\E h \in Handler : HealthyRequest(h)) \/ OtherWorkspaceSubmit
    \/ Crash \/ Restart \/ Gc

HealthySpec == Init /\ [][HealthyNext]_vars
=============================================================================
