-------------------------- MODULE AgnesCycleAudit ---------------------------
(***************************************************************************)
(* hasCycle of the "agnes flash" scheduler: the iterative three-colour     *)
(* depth-first search of _findCycle and the witness of _extractCycle       *)
(* (src/scheduler.ts).  The search runs over any graph, since it is the    *)
(* audit for edges that did not come through the API; the order in which   *)
(* tasks and dependencies are visited is left open.                        *)
(***************************************************************************)
EXTENDS Naturals, Sequences, SequencesExt, Reachability

CONSTANTS
    Ids,   \* the ids of tasks, and of dependencies that are not registered
    NoId   \* no parent

VARIABLES
    tasks,  \* the ids in the tasks map
    deps,   \* the dependencies of each, {} for an id the map lacks
    color,
    parent,
    stack,  \* the frames: a node and its dependencies still to be looked at
    answer  \* <<>> while searching, then <<hasCycle, cycle>>

vars == <<tasks, deps, color, parent, stack, answer>>

Init ==
    /\ tasks \in SUBSET Ids
    /\ deps \in {g \in [Ids -> SUBSET Ids] : \A i \in Ids \ tasks : g[i] = {}}
    /\ color = [i \in Ids |-> "white"]
    /\ parent = [i \in Ids |-> NoId]
    /\ stack = <<>>
    /\ answer = <<>>

Top == stack[Len(stack)]

Frame(node) == [node |-> node, todo |-> deps[node]]

\* Mutation: the index of the top frame stays.
NotAdvanced(d) == stack

\* The top frame has looked at d.
Advanced(d) == [stack EXCEPT ![Len(stack)].todo = @ \ {d}]

StartFrom(root) ==
    /\ answer = <<>> /\ stack = <<>>
    /\ root \in tasks /\ color[root] = "white"
    /\ color' = [color EXCEPT ![root] = "gray"]
    /\ stack' = <<Frame(root)>>
    /\ UNCHANGED <<tasks, deps, parent, answer>>

Descend(d) ==
    /\ answer = <<>> /\ stack # <<>>
    /\ d \in Top.todo /\ color[d] = "white"
    /\ color' = [color EXCEPT ![d] = "gray"]
    /\ parent' = [parent EXCEPT ![d] = Top.node]
    /\ stack' = Append(Advanced(d), Frame(d))
    /\ UNCHANGED <<tasks, deps, answer>>

\* Mutation: the chain goes on up to the root of the search.
WitnessTooLong(descendant, ancestor) ==
    LET up[n \in Ids] == IF parent[n] = NoId THEN <<n>> ELSE Append(up[parent[n]], n)
    IN  Append(up[descendant], ancestor)

\* The parents from each node up to the ancestor, reversed; without the ancestor
\* when a parent is missing.
Chain(ancestor) ==
    LET up[n \in Ids] == IF n = ancestor THEN <<n>>
                         ELSE IF parent[n] = NoId THEN <<>> ELSE Append(up[parent[n]], n)
    IN  up

\* _extractCycle: the chain from the ancestor, and the ancestor again;
\* <<descendant, ancestor>> if no ancestor is found.
Witness(descendant, ancestor) ==
    LET chain == Chain(ancestor)[descendant]
    IN  IF chain # <<>> /\ Head(chain) = ancestor THEN Append(chain, ancestor)
        ELSE <<descendant, ancestor>>

BackEdge(d) ==
    /\ answer = <<>> /\ stack # <<>>
    /\ d \in Top.todo /\ color[d] = "gray"
    /\ answer' = <<TRUE, Witness(Top.node, d)>>
    /\ stack' = Advanced(d)
    /\ UNCHANGED <<tasks, deps, color, parent>>

CrossEdge(d) ==
    /\ answer = <<>> /\ stack # <<>>
    /\ d \in Top.todo /\ color[d] = "black"
    /\ stack' = Advanced(d)
    /\ UNCHANGED <<tasks, deps, color, parent, answer>>

\* Mutation: a finished node stays gray.
ColorFinishedGray == "gray"

ColorFinished == "black"

Retreat ==
    /\ answer = <<>> /\ stack # <<>>
    /\ Top.todo = {}
    /\ color' = [color EXCEPT ![Top.node] = ColorFinished]
    /\ stack' = Front(stack)
    /\ UNCHANGED <<tasks, deps, parent, answer>>

Conclude ==
    /\ answer = <<>> /\ stack = <<>>
    /\ \A i \in tasks : color[i] # "white"
    /\ answer' = <<FALSE, <<>>>>
    /\ UNCHANGED <<tasks, deps, color, parent, stack>>

Next ==
    \/ \E i \in Ids : StartFrom(i) \/ Descend(i) \/ BackEdge(i) \/ CrossEdge(i)
    \/ Retreat
    \/ Conclude

\* The search is one synchronous loop.
Spec == Init /\ [][Next]_vars /\ WF_vars(Next)
-----------------------------------------------------------------------------
(* Properties *)

TypeOK ==
    /\ tasks \subseteq Ids
    /\ deps \in [Ids -> SUBSET Ids]
    /\ color \in [Ids -> {"white", "gray", "black"}]
    /\ parent \in [Ids -> Ids \cup {NoId}]
    /\ stack \in Seq([node : Ids, todo : SUBSET Ids])
    /\ {i \in Ids : color[i] = "gray"} = {stack[k].node : k \in DOMAIN stack}

\* The audit reports a cycle exactly when the graph has one, dependencies on
\* unregistered tasks and self-loops included.
VerdictIsRight == answer # <<>> => (answer[1] <=> ~IsAcyclic(deps))

\* A reported cycle is one: consecutive ids are dependency edges and the first id
\* is repeated at the end to close the loop.
WitnessIsCycle ==
    answer # <<>> /\ answer[1] =>
        LET cycle == answer[2]
        IN  /\ Len(cycle) > 1
            /\ cycle[1] = cycle[Len(cycle)]
            /\ \A k \in 1..(Len(cycle) - 1) : cycle[k + 1] \in deps[cycle[k]]
=============================================================================
