---------------------------- MODULE SerialWriter ----------------------------
(***************************************************************************)
(* What the "agnes flash" scheduler promises of its mutating methods       *)
(* (ARCHITECTURE.md section 4): independent submissions run one at a time, *)
(* strictly in submission order, and a submission may be refused without   *)
(* running.  Nested submissions are part of the operation that makes them  *)
(* and are not visible here.                                               *)
(***************************************************************************)
EXTENDS Sequences, SequencesExt

CONSTANTS
    Ops,    \* the operations callers submit
    NoOp    \* no operation at all

VARIABLES
    order,   \* all that were submitted, oldest first
    waiting, \* those of them not begun and not refused
    active   \* the one operation that runs, or NoOp

serialVars == <<order, waiting, active>>

Init == order = <<>> /\ waiting = {} /\ active = NoOp

Submit(op) ==
    /\ op \notin ToSet(order)
    /\ order' = Append(order, op)
    /\ waiting' = waiting \cup {op}
    /\ UNCHANGED active

\* The i-th submission starts: no earlier one waits.
Start(i) ==
    /\ active = NoOp
    /\ order[i] \in waiting
    /\ \A j \in DOMAIN order : j < i => order[j] \notin waiting
    /\ active' = order[i]
    /\ waiting' = waiting \ {order[i]}
    /\ UNCHANGED order

Finish == active # NoOp /\ active' = NoOp /\ UNCHANGED <<order, waiting>>

Refuse(op) ==
    /\ op \in waiting
    /\ waiting' = waiting \ {op}
    /\ UNCHANGED <<order, active>>

Next ==
    \/ \E op \in Ops : Submit(op) \/ Refuse(op)
    \/ \E i \in DOMAIN order : Start(i)
    \/ Finish

Spec == Init /\ [][Next]_serialVars
=============================================================================
