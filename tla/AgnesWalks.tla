----------------------------- MODULE AgnesWalks -----------------------------
(***************************************************************************)
(* The three graph walks of the "agnes flash" scheduler side by side, on   *)
(* every graph over Ids: the edge check (AgnesCycleProbe), the cycle audit *)
(* (AgnesCycleAudit) and the failure propagation (AgnesPropagation).  Each *)
(* is one synchronous loop, so a behaviour holds one walk; the initial     *)
(* state says which.  The variables of the others keep their first value.  *)
(***************************************************************************)
EXTENDS Sequences, FiniteSets

CONSTANTS
    Ids,   \* the ids in the maps, finitely many
    NoId   \* no id

ASSUME AgnesWalksAssumption == IsFiniteSet(Ids) /\ NoId \notin Ids

VARIABLES
    walk,                                        \* "probe", "audit" or "propagation"
    deps, parent, answer,                        \* the probe and the audit
    visited, queue,                              \* the probe and the propagation
    task, dep,                                   \* the probe
    tasks, color, stack,                         \* the audit
    before, dependents, origin, status, marked   \* the propagation

probeVars       == <<task, dep>>
auditVars       == <<tasks, color, stack>>
propagationVars == <<before, dependents, origin, status, marked>>
graphVars       == <<deps, parent, answer>>
queueVars       == <<visited, queue>>
vars == <<walk, probeVars, auditVars, propagationVars, graphVars, queueVars>>

Probe       == INSTANCE AgnesCycleProbe
Audit       == INSTANCE AgnesCycleAudit
Propagation == INSTANCE AgnesPropagation

NoProbe       == task = NoId /\ dep = NoId
NoAudit       == tasks = {} /\ color = <<>> /\ stack = <<>>
NoPropagation == before = <<>> /\ dependents = <<>> /\ origin = NoId /\ status = <<>> /\ marked = {}
NoGraph       == deps = <<>> /\ parent = <<>> /\ answer = <<>>
NoQueue       == visited = {} /\ queue = <<>>

Init ==
    \/ walk = "probe" /\ Probe!Init /\ NoAudit /\ NoPropagation
    \/ walk = "audit" /\ Audit!Init /\ NoProbe /\ NoQueue /\ NoPropagation
    \/ walk = "propagation" /\ Propagation!Init /\ NoProbe /\ NoAudit /\ NoGraph

Next ==
    /\ UNCHANGED walk
    /\ \/ walk = "probe" /\ Probe!Next /\ UNCHANGED <<auditVars, propagationVars>>
       \/ walk = "audit" /\ Audit!Next /\ UNCHANGED <<probeVars, queueVars, propagationVars>>
       \/ walk = "propagation" /\ Propagation!Visit
          /\ UNCHANGED <<probeVars, auditVars, graphVars>>

Spec == Init /\ [][Next]_vars /\ WF_vars(Next)
-----------------------------------------------------------------------------
(* Properties *)

TypeOK ==
    CASE walk = "probe" -> Probe!TypeOK
      [] walk = "audit" -> Audit!TypeOK
      [] walk = "propagation" -> Propagation!TypeOK

\* _wouldCreateCycle answers whether the dependency reaches the task, and so
\* whether the edge would close a loop; a refusal names that loop.
EdgeCheckIsRight ==
    walk = "probe" => Probe!AnswerIsReachability /\ Probe!WitnessClosesLoop

\* hasCycle reports a cycle exactly when there is one, and the one it reports is.
AuditIsRight ==
    walk = "audit" => Audit!VerdictIsRight /\ Audit!WitnessIsCycle

\* _propagateFailure fails exactly the victims that AgnesScheduler computes.
PropagationIsRight ==
    walk = "propagation" => Propagation!MarksTheVictims

\* Every walk ends, on cyclic graphs too.
EveryWalkEnds ==
    <>(IF walk = "propagation" THEN queue = <<>> ELSE answer # <<>>)
=============================================================================
