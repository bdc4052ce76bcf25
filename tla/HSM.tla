--------------------------------- MODULE HSM ---------------------------------
(***************************************************************************)
(* events/HSM.h: the hierarchical state machine under CameraController.     *)
(* handleEvent() finds the state that handles an event, and when that state *)
(* asks for a transition it computes which states to exit and to enter from *)
(* the superstate links alone; init() enters the first state.  One action   *)
(* per iteration of each loop, so that every state handler call (EV_EXIT,   *)
(* EV_ENTRY, EV_INIT) is a step of its own.                                 *)
(*                                                                          *)
(* States are numbered breadth first, as every tree can be; Top (0) is      *)
(* Hsm_top.  Which machine it is, and what its handlers answer, is chosen   *)
(* freely.  `active' counts entries minus exits of each state; no code      *)
(* keeps it.                                                                *)
(***************************************************************************)
EXTENDS Integers, FiniteSets, FiniteSetsExt

CONSTANTS N,                  \* number of states, Hsm_top not counted
          HSM_MAX_NEST_DEPTH  \* size of the entry path

ASSUME SizesAssumption == N \in Nat \ {0} /\ HSM_MAX_NEST_DEPTH \in Nat \ {0, 1}

Top == 0
Node == 1 .. N
AnyNode == 0 .. N
Unset == -1  \* an element of path[] that was never written

VARIABLES super,     \* the superstate each handler names on EV_EMPTY
          initial,   \* where its EV_INIT leads, Top when it leads nowhere
          pc,        \* which loop of the code is running
          state, temp, source, target, path, index,
          goal,      \* target of the transition being taken
          active

machine == <<super, initial>>
vars == <<super, initial, pc, state, temp, source, target, path, index, goal, active>>

PCs == {"ready", "dispatch", "exit", "classify", "climb", "search", "enter", "drill", "drillPath"}

TypeOK == /\ super \in [Node -> AnyNode] /\ initial \in [Node -> AnyNode]
          /\ pc \in PCs
          /\ state \in AnyNode /\ temp \in AnyNode /\ goal \in AnyNode
          /\ source \in AnyNode /\ target \in AnyNode
          /\ path \in [0 .. N + 1 -> AnyNode \cup {Unset}] /\ index \in -1 .. N + 1
          /\ active \in [AnyNode -> Int]

\* The state and everything above it, for the superstate links sup.
Upward(sup, s) == LET up[n \in AnyNode] == IF n = Top THEN {Top} ELSE {n} \cup up[sup[n]]
                  IN  up[s]

\* The machines that the code supports: no state deeper than the entry path, an
\* EV_INIT that leads to a substate.
Trees == {sup \in [Node -> AnyNode] : \A s \in Node : /\ sup[s] < s
                                                      /\ (s > 1 => sup[s - 1] <= sup[s])}
Hierarchies == {sup \in Trees : \A s \in Node : Cardinality(Upward(sup, s)) <= HSM_MAX_NEST_DEPTH}
Drills(sup) == {ini \in [Node -> AnyNode] :
                  \A s \in Node : ini[s] = Top \/ (ini[s] # s /\ s \in Upward(sup, ini[s]))}

Above(s) == Upward(super, s)

exit(s) == active' = [active EXCEPT ![s] = @ - 1]
entry(s) == active' = [active EXCEPT ![s] = @ + 1]

\* path[], source and index are local variables: they do not outlive the call.
NoPath == [i \in 0 .. N + 1 |-> Unset]
Forget == path' = NoPath /\ index' = -1 /\ source' = target

\* The constructor, and the first call of init(): the initial pseudostate asks
\* for a transition from Hsm_top to t.
Init == /\ super \in Hierarchies
        /\ initial \in Drills(super)
        /\ \E t \in Node : /\ temp = t /\ goal = t
                           /\ path = [NoPath EXCEPT ![0] = t]
        /\ pc = "drillPath"
        /\ state = Top /\ source = Top /\ target = Top
        /\ index = 0
        /\ active = [s \in AnyNode |-> IF s = Top THEN 1 ELSE 0]

----------------------------------------------------------------------------
\* An event is taken from the queue; the search for its handler starts in temp.
Receive == /\ pc = "ready"
           /\ pc' = "dispatch"
           /\ target' = state
           /\ source' = temp
           /\ UNCHANGED <<machine, state, temp, path, index, goal, active>>

\* The handler of source returns SUPER, also by way of UNHANDLED.
PassUp == /\ pc = "dispatch" /\ source # Top
          /\ temp' = super[source]
          /\ source' = temp'
          /\ UNCHANGED <<machine, pc, state, target, path, index, goal, active>>

\* A variant with a fault: temp stays where the search for a handler ended.
NoTransitionKeepsTemp == /\ pc = "dispatch"
                         /\ pc' = "ready"
                         /\ state' = target
                         /\ Forget
                         /\ UNCHANGED <<machine, temp, target, goal, active>>

\* It returns HANDLED or IGNORED, as Hsm_top always does.
NoTransition == /\ pc = "dispatch"
                /\ pc' = "ready"
                /\ state' = target /\ temp' = target
                /\ Forget
                /\ UNCHANGED <<machine, target, goal, active>>

\* It returns transition(t).
TakeTransition == /\ pc = "dispatch" /\ source # Top
                  /\ \E t \in Node :
                       /\ temp' = t /\ goal' = t
                       /\ path' = [path EXCEPT ![0] = t, ![1] = target]
                  /\ index' = -1
                  /\ pc' = "exit"
                  /\ UNCHANGED <<machine, state, source, target, active>>

\* Exit from the current state up to the source of the transition.
ExitToSource == /\ pc = "exit" /\ target # source
                /\ exit(target)
                /\ target' = super[target]
                /\ UNCHANGED <<machine, pc, state, temp, source, path, index, goal>>

AtSource == /\ pc = "exit" /\ target = source
            /\ target' = path[0]
            /\ pc' = "classify"
            /\ UNCHANGED <<machine, state, temp, source, path, index, goal, active>>

\* (A) to (D): the four shapes whose entry path is at most the target itself.
Self == source = target
Child == super[target] = source
Sibling == super[source] = super[target]
Parent == super[source] = target

\* Variants with a fault: the source of a transition to itself is not exited, and
\* the source of a transition to a substate is.
CaseAWithoutExit == /\ pc = "classify" /\ Self
                    /\ index' = 0 /\ pc' = "enter"
                    /\ UNCHANGED <<machine, state, temp, source, target, path, goal, active>>

CaseBWithExit == /\ pc = "classify" /\ ~Self /\ Child
                 /\ exit(source)
                 /\ index' = 0 /\ pc' = "enter"
                 /\ UNCHANGED <<machine, state, temp, source, target, path, goal>>

CaseA == /\ pc = "classify" /\ Self
         /\ exit(source)
         /\ index' = 0 /\ pc' = "enter"
         /\ UNCHANGED <<machine, state, temp, source, target, path, goal>>

CaseB == /\ pc = "classify" /\ ~Self /\ Child
         /\ index' = 0 /\ pc' = "enter"
         /\ UNCHANGED <<machine, state, temp, source, target, path, goal, active>>

CaseC == /\ pc = "classify" /\ ~Self /\ ~Child /\ Sibling
         /\ exit(source)
         /\ index' = 0 /\ pc' = "enter"
         /\ UNCHANGED <<machine, state, temp, source, target, path, goal>>

CaseD == /\ pc = "classify" /\ ~Self /\ ~Child /\ ~Sibling /\ Parent
         /\ exit(source)
         /\ pc' = "enter"
         /\ UNCHANGED <<machine, state, temp, source, target, path, index, goal>>

\* A variant with a fault: the path leaves out an element.
CaseEOffByOne == /\ pc = "classify" /\ ~Self /\ ~Child /\ ~Sibling /\ ~Parent
                 /\ index' = 2
                 /\ path' = [path EXCEPT ![2] = super[target]]
                 /\ target' = super[source]
                 /\ pc' = "climb"
                 /\ UNCHANGED <<machine, state, temp, source, goal, active>>

\* (E): store the superstates of the target until the source or Hsm_top.
CaseE == /\ pc = "classify" /\ ~Self /\ ~Child /\ ~Sibling /\ ~Parent
         /\ index' = 1
         /\ path' = [path EXCEPT ![1] = super[target]]
         /\ target' = super[source]
         /\ pc' = "climb"
         /\ UNCHANGED <<machine, state, temp, source, goal, active>>

Climb == /\ pc = "climb" /\ path[index] # Top
         /\ LET up == super[path[index]]
            IN  /\ path' = [path EXCEPT ![index + 1] = up]
                /\ IF up = source THEN pc' = "enter" /\ UNCHANGED index
                                  ELSE index' = index + 1 /\ UNCHANGED pc
         /\ UNCHANGED <<machine, state, temp, source, target, goal, active>>

ClimbedToTop == /\ pc = "climb" /\ path[index] = Top
                /\ exit(source)
                /\ pc' = "search"
                /\ UNCHANGED <<machine, state, temp, source, target, path, index, goal>>

\* (F) and (G): exit superstates of the source until one is on the path.
OnPath == {k \in 0 .. index : path[k] = target}

FoundLCA == /\ pc = "search" /\ OnPath # {}
            /\ index' = Max(OnPath) - 1
            /\ pc' = "enter"
            /\ UNCHANGED <<machine, state, temp, source, target, path, goal, active>>

ExitFurther == /\ pc = "search" /\ OnPath = {}
               /\ exit(target)
               /\ target' = super[target]
               /\ UNCHANGED <<machine, pc, state, temp, source, path, index, goal>>

\* An entry handler may call transition(), which only sets temp.  (The states
\* init() enters do not: it would send EV_INIT to the state in temp.)
Enter == /\ pc = "enter" /\ index >= 0
         /\ entry(path[index])
         /\ index' = index - 1
         /\ temp' \in IF state = Top THEN {temp} ELSE Node
         /\ UNCHANGED <<machine, pc, state, source, target, path, goal>>

Entered == /\ pc = "enter" /\ index < 0
           /\ target' = path[0] /\ temp' = path[0]
           /\ pc' = "drill"
           /\ UNCHANGED <<machine, state, source, path, index, goal, active>>

\* EV_INIT of the target asks for a transition into the target ...
Drill == /\ pc = "drill" /\ initial[target] # Top
         /\ temp' = initial[target]
         /\ path' = [path EXCEPT ![0] = initial[target]]
         /\ index' = 0
         /\ pc' = "drillPath"
         /\ UNCHANGED <<machine, state, source, target, goal, active>>

\* A variant with a fault: the loop does not move to the superstate.
DrillPathStuck == /\ pc = "drillPath"
                  /\ pc' = IF super[path[index]] = target THEN "enter" ELSE pc
                  /\ UNCHANGED <<machine, state, temp, source, target, path, index, goal, active>>

DrillPath == /\ pc = "drillPath"
             /\ LET up == super[path[index]]
                IN  IF up = target
                    THEN pc' = "enter" /\ UNCHANGED <<path, index>>
                    ELSE /\ index' = index + 1
                         /\ path' = [path EXCEPT ![index + 1] = up]
                         /\ UNCHANGED pc
             /\ UNCHANGED <<machine, state, temp, source, target, goal, active>>

\* A variant with a fault: EV_INIT is not sent to the target.
SettleAtOnce == /\ pc = "drill"
                /\ state' = target /\ temp' = target
                /\ pc' = "ready"
                /\ Forget
                /\ UNCHANGED <<machine, target, goal, active>>

\* ... or does not: the configuration is stable.
Settle == /\ pc = "drill" /\ initial[target] = Top
          /\ state' = target /\ temp' = target
          /\ pc' = "ready"
          /\ Forget
          /\ UNCHANGED <<machine, target, goal, active>>

Handle == \/ PassUp \/ NoTransition \/ TakeTransition
          \/ ExitToSource \/ AtSource
          \/ CaseA \/ CaseB \/ CaseC \/ CaseD \/ CaseE
          \/ Climb \/ ClimbedToTop \/ FoundLCA \/ ExitFurther
          \/ Enter \/ Entered \/ Drill \/ DrillPath \/ Settle

Next == Receive \/ Handle

Spec == Init /\ [][Next]_vars

\* The code of handleEvent() runs on; events need not arrive.
FairSpec == Spec /\ WF_vars(Handle)
----------------------------------------------------------------------------
\* Between any two handler calls the active states are a state and all its
\* superstates, each entered once: a state is exited only after its substates
\* and entered only after its superstate, whatever the shape of the tree.
Nested == \E s \in AnyNode : \A n \in AnyNode :
            active[n] = IF n \in Above(s) THEN 1 ELSE 0

\* When handleEvent() returns, exactly the current state and its superstates
\* are active, and the next event is offered to the current state, not to one
\* that an entry handler or the search for a handler left in temp.
Settled == pc = "ready" => /\ \A n \in AnyNode : active[n] = 1 <=> n \in Above(state)
                           /\ temp = state

\* A transition ends in its target or, by EV_INIT, in a substate of it that has
\* no EV_INIT of its own.
ReachesGoal == pc = "ready" => goal \in Above(state) /\ initial[state] = Top

\* The states that contain both ends of a transition stay active throughout it
\* (for a transition to itself: the superstates of that state).
Shared == IF source = goal THEN Above(source) \ {source} ELSE Above(source) \cap Above(goal)
CommonStatesKept == pc \in PCs \ {"ready", "dispatch"} => \A n \in Shared : active[n] = 1

\* "entry path must not overflow": path[] is never written beyond its end.
PathFits == \A i \in DOMAIN path : i >= HSM_MAX_NEST_DEPTH => path[i] = Unset

\* handleEvent() returns: none of its loops runs past Hsm_top.
HandlingEnds == pc # "ready" ~> pc = "ready"
=============================================================================
