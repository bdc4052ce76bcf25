------------------------------ MODULE HSMProofs ------------------------------
(***************************************************************************)
(* Proofs about HSM, for every tree of states, every number of states and   *)
(* every depth of the entry path: whatever the shape of a transition, the   *)
(* loops of handleEvent() and init() exit and enter the right states, and   *)
(* do not go on forever.                                                    *)
(***************************************************************************)
EXTENDS HSM, TLAPS, WellFoundedInduction, FiniteSetTheorems

USE SizesAssumption

\* Induction: a set of numbers that is not empty has a least element.
LEMMA LeastNumber ==
  ASSUME NEW T \in SUBSET Nat, T # {}
  PROVE  \E x \in T : \A y \in T : x <= y
<1>. DEFINE R == OpToRel(<, Nat)
<1>1. IsWellFoundedOn(R, Nat)
  BY NatLessThanWellFounded
<1>2. \A x, y \in Nat : <<x, y>> \in R <=> x < y
  BY DEF OpToRel
<1>. HIDE DEF R
<1>3. PICK x \in T : \A y \in T : ~ (<<y, x>> \in R)
  BY <1>1, WFMin
<1>4. x \in Nat /\ \A y \in T : y \in Nat /\ ~ (y < x)
  BY <1>2, <1>3
<1>5. \A y \in T : x <= y
  BY <1>4
<1>. QED BY <1>5

----------------------------------------------------------------------------
\* The superstates: f holds them for the states 0 .. n.
Climbs(sup, f, n) == f = [s \in 0 .. n |-> IF s = Top THEN {Top} ELSE {s} \cup f[sup[s]]]

LEMMA ClimbsExists ==
  ASSUME NEW sup \in Trees, NEW n \in AnyNode
  PROVE  \E f : Climbs(sup, f, n)
<1>. DEFINE T == {m \in AnyNode : ~ \E f : Climbs(sup, f, m)}
<1>1. SUFFICES ASSUME T # {} PROVE FALSE
  OBVIOUS
<1>2. PICK m \in T : \A y \in T : m <= y
  <2>1. T \in SUBSET Nat
    BY DEF AnyNode
  <2>. HIDE DEF T
  <2>. QED BY <1>1, <2>1, LeastNumber
<1>3. Climbs(sup, [s \in 0 .. 0 |-> {Top}], 0)
  BY DEF Climbs, Top
<1>4. m \in AnyNode /\ m # 0
  BY <1>3
<1>5. m - 1 \in AnyNode /\ m - 1 \notin T /\ m \in Nat /\ m >= 1
  BY <1>2, <1>4 DEF AnyNode
<1>6. PICK f : Climbs(sup, f, m - 1)
  BY <1>5
<1>7. \A s \in 1 .. m : sup[s] \in 0 .. s - 1
  BY <1>4 DEF Trees, Node, AnyNode
<1>. DEFINE g == [s \in 0 .. m |-> IF s = m THEN {m} \cup f[sup[m]] ELSE f[s]]
<1>8. \A s \in 0 .. m - 1 : g[s] = f[s]
  BY <1>5
<1>9. \A s \in 0 .. m : g[s] = IF s = Top THEN {Top} ELSE {s} \cup g[sup[s]]
  <2>1. TAKE s \in 0 .. m
  <2>2. CASE s = m
    <3>1. sup[m] \in 0 .. m - 1 /\ s # Top
      BY <1>5, <1>7, <2>2 DEF Top
    <3>. QED BY <1>8, <2>2, <3>1
  <2>3. CASE s # m
    <3>1. s \in 0 .. m - 1 /\ (s # Top => sup[s] \in 0 .. m - 1)
      BY <1>5, <1>7, <2>3 DEF Top
    <3>2. f[s] = IF s = Top THEN {Top} ELSE {s} \cup f[sup[s]]
      BY <1>6, <3>1 DEF Climbs
    <3>. QED BY <3>1, <3>2, <1>8
  <2>. QED BY <2>2, <2>3
<1>10. Climbs(sup, g, m)
  <2>1. g = [s \in 0 .. m |-> g[s]]
    OBVIOUS
  <2>. HIDE DEF g
  <2>. QED BY <1>9, <2>1 DEF Climbs
<1>. QED BY <1>10

\* A state is followed by the superstates of its superstate.
LEMMA UpwardUnfolds ==
  ASSUME NEW sup \in Trees
  PROVE  /\ Upward(sup, Top) = {Top}
         /\ \A s \in Node : Upward(sup, s) = {s} \cup Upward(sup, sup[s])
<1>. DEFINE Up(f) == f = [n \in AnyNode |-> IF n = Top THEN {Top} ELSE {n} \cup f[sup[n]]]
            up == CHOOSE f : Up(f)
<1>1. \E f : Up(f)
  <2>1. N \in AnyNode
    BY DEF AnyNode
  <2>2. PICK f : Climbs(sup, f, N)
    BY <2>1, ClimbsExists
  <2>3. Up(f)
    BY <2>2 DEF Climbs, AnyNode
  <2>. QED BY <2>3
<1>2. Up(up)
  <2>. HIDE DEF Up
  <2>. QED BY <1>1
<1>3. \A n \in AnyNode : up[n] = IF n = Top THEN {Top} ELSE {n} \cup up[sup[n]]
  <2>. HIDE DEF up
  <2>. QED BY <1>2
<1>4. \A s : Upward(sup, s) = up[s]
  BY DEF Upward
<1>. HIDE DEF up
<1>5. Top \in AnyNode /\ \A s \in Node : s \in AnyNode /\ s # Top
  BY DEF Top, Node, AnyNode
<1>. QED BY <1>3, <1>4, <1>5

\* What the proofs need to know of a tree: superstates have smaller numbers.
LEMMA TreeOrder ==
  ASSUME NEW sup \in Trees
  PROVE  /\ \A s \in Node : sup[s] \in 0 .. s - 1
         /\ \A s \in AnyNode : Upward(sup, s) \subseteq 0 .. s
         /\ Upward(sup, Top) = {Top}
         /\ \A s \in Node : /\ sup[s] \in AnyNode /\ s \notin Upward(sup, sup[s])
                            /\ Upward(sup, s) = {s} \cup Upward(sup, sup[s])
         /\ \A s \in AnyNode : /\ s \in Upward(sup, s) /\ Top \in Upward(sup, s)
                               /\ Upward(sup, s) \subseteq AnyNode
                               /\ \A n \in Upward(sup, s) : Upward(sup, n) \subseteq Upward(sup, s)
<1>. DEFINE U(s) == Upward(sup, s)
            Good(s) == /\ s \in U(s) /\ Top \in U(s) /\ U(s) \subseteq 0 .. s
                       /\ \A n \in U(s) : U(n) \subseteq U(s)
            T == {m \in AnyNode : ~Good(m)}
<1>1. U(Top) = {Top} /\ \A s \in Node : U(s) = {s} \cup U(sup[s])
  BY UpwardUnfolds
<1>2. \A s \in Node : sup[s] \in 0 .. s - 1 /\ sup[s] \in AnyNode /\ s \in AnyNode
  BY DEF Trees, Node, AnyNode
<1>. HIDE DEF U
<1>3. T = {}
  <2>1. SUFFICES ASSUME T # {} PROVE FALSE
    OBVIOUS
  <2>2. PICK m \in T : \A y \in T : m <= y
    <3>1. T \in SUBSET Nat
      BY DEF AnyNode
    <3>. HIDE DEF T
    <3>. QED BY <2>1, <3>1, LeastNumber
  <2>3. Good(Top)
    BY <1>1 DEF Top
  <2>4. m \in Node
    <3>1. m \in AnyNode /\ m # Top
      BY <2>3
    <3>. QED BY <3>1 DEF Node, AnyNode, Top
  <2>5. Good(sup[m])
    <3>1. sup[m] \in AnyNode /\ ~ (m <= sup[m])
      BY <1>2, <2>4 DEF Node
    <3>2. sup[m] \notin T
      BY <2>2, <3>1
    <3>. QED BY <3>1, <3>2
  <2>6. U(m) = {m} \cup U(sup[m])
    BY <1>1, <2>4
  <2>7. U(sup[m]) \subseteq 0 .. m /\ m \in 0 .. m
    <3>1. sup[m] \in 0 .. m - 1 /\ m \in Nat
      BY <1>2, <2>4 DEF Node
    <3>. QED BY <2>5, <3>1
  <2>8. Good(m)
    BY <2>5, <2>6, <2>7
  <2>. QED BY <2>8
<1>4. \A s \in AnyNode : Good(s)
  BY <1>3
<1>5. \A s \in Node : s \notin U(sup[s])
  <2>1. TAKE s \in Node
  <2>2. U(sup[s]) \subseteq 0 .. sup[s] /\ sup[s] \in 0 .. s - 1 /\ s \in Nat
    BY <1>2, <1>4 DEF Node
  <2>. QED BY <2>2
<1>6. \A s \in AnyNode : U(s) \subseteq AnyNode
  BY <1>4 DEF AnyNode
<1>. QED BY <1>1, <1>2, <1>4, <1>5, <1>6 DEF U

LEMMA Tree ==
  ASSUME NEW sup \in Trees
  PROVE  /\ Upward(sup, Top) = {Top}
         /\ \A s \in Node : /\ sup[s] \in AnyNode /\ s \notin Upward(sup, sup[s])
                            /\ Upward(sup, s) = {s} \cup Upward(sup, sup[s])
         /\ \A s \in AnyNode : /\ s \in Upward(sup, s) /\ Top \in Upward(sup, s)
                               /\ Upward(sup, s) \subseteq AnyNode
                               /\ \A n \in Upward(sup, s) : Upward(sup, n) \subseteq Upward(sup, s)
BY TreeOrder

\* How deep a state lies.
Deepness(sup, s) == Cardinality(Upward(sup, s))

LEMMA TreeDepth ==
  ASSUME NEW sup \in Trees
  PROVE  /\ \A s \in Node : Deepness(sup, s) = Deepness(sup, sup[s]) + 1
         /\ \A s \in AnyNode : Deepness(sup, s) \in 1 .. N + 1
<1>. DEFINE U(s) == Upward(sup, s)
            Good(s) == IsFiniteSet(U(s)) /\ Cardinality(U(s)) \in 1 .. s + 1
            T == {m \in AnyNode : ~Good(m)}
<1>1. /\ U(Top) = {Top}
      /\ \A s \in Node : s \notin U(sup[s]) /\ U(s) = {s} \cup U(sup[s])
  BY Tree
<1>2. \A s \in Node : sup[s] \in 0 .. s - 1 /\ sup[s] \in AnyNode
  BY DEF Trees, Node, AnyNode
<1>. HIDE DEF U
<1>3. ASSUME NEW s \in Node, IsFiniteSet(U(sup[s]))
      PROVE  IsFiniteSet(U(s)) /\ Cardinality(U(s)) = Cardinality(U(sup[s])) + 1
  <2>1. U(s) = U(sup[s]) \cup {s} /\ s \notin U(sup[s])
    BY <1>1
  <2>. QED BY <1>3, <2>1, FS_AddElement
<1>4. T = {}
  <2>1. SUFFICES ASSUME T # {} PROVE FALSE
    OBVIOUS
  <2>2. PICK m \in T : \A y \in T : m <= y
    <3>1. T \in SUBSET Nat
      BY DEF AnyNode
    <3>. HIDE DEF T
    <3>. QED BY <2>1, <3>1, LeastNumber
  <2>3. Good(Top)
    <3>1. IsFiniteSet({Top}) /\ Cardinality({Top}) = 1
      BY FS_Singleton
    <3>2. 1 \in 1 .. Top + 1
      BY DEF Top
    <3>. QED BY <1>1, <3>1, <3>2
  <2>4. m \in Node
    <3>1. m \in AnyNode /\ m # Top
      BY <2>3
    <3>. QED BY <3>1 DEF Node, AnyNode, Top
  <2>5. Good(sup[m])
    <3>1. sup[m] \in AnyNode /\ ~ (m <= sup[m])
      BY <1>2, <2>4 DEF Node
    <3>2. sup[m] \notin T
      BY <2>2, <3>1
    <3>. QED BY <3>1, <3>2
  <2>6. IsFiniteSet(U(m)) /\ Cardinality(U(m)) = Cardinality(U(sup[m])) + 1
    BY <1>3, <2>4, <2>5
  <2>7. sup[m] \in 0 .. m - 1 /\ m \in Nat
    BY <1>2, <2>4 DEF Node
  <2>8. Good(m)
    BY <2>5, <2>6, <2>7
  <2>. QED BY <2>8
<1>5. \A s \in AnyNode : Good(s)
  BY <1>4
<1>6. \A s \in Node : Deepness(sup, s) = Deepness(sup, sup[s]) + 1
  BY <1>2, <1>3, <1>5 DEF Deepness, U
<1>7. \A s \in AnyNode : Deepness(sup, s) \in 1 .. N + 1
  BY <1>5 DEF AnyNode, Deepness, U
<1>. QED BY <1>6, <1>7

----------------------------------------------------------------------------
\* The active states are s and its superstates.
Configuration(act, sup, s) == \A n \in AnyNode : act[n] = IF n \in Upward(sup, s) THEN 1 ELSE 0

LEMMA ExitOne ==
  ASSUME NEW sup \in Trees, NEW act \in [AnyNode -> Int], NEW s \in Node, Configuration(act, sup, s)
  PROVE  Configuration([act EXCEPT ![s] = @ - 1], sup, sup[s])
<1>1. s \notin Upward(sup, sup[s]) /\ Upward(sup, s) = {s} \cup Upward(sup, sup[s])
  BY Tree
<1>2. s \in AnyNode
  BY DEF Node, AnyNode
<1>. QED BY <1>1, <1>2 DEF Configuration

LEMMA EnterOne ==
  ASSUME NEW sup \in Trees, NEW act \in [AnyNode -> Int], NEW s \in Node, Configuration(act, sup, sup[s])
  PROVE  Configuration([act EXCEPT ![s] = @ + 1], sup, s)
<1>1. s \notin Upward(sup, sup[s]) /\ Upward(sup, s) = {s} \cup Upward(sup, sup[s])
  BY Tree
<1>2. s \in AnyNode
  BY DEF Node, AnyNode
<1>. QED BY <1>1, <1>2 DEF Configuration

\* The elements 0 .. ix of the entry path lead up the tree, state by state.
Chain(pa, ix, sup) == \A k \in 0 .. ix :
                        /\ pa[k] \in AnyNode
                        /\ k < ix => pa[k] \in Node /\ pa[k + 1] = sup[pa[k]]

\* The path with one more element.
Longer(pa, ix, sup) == [pa EXCEPT ![ix + 1] = sup[pa[ix]]]

LEMMA ChainGrows ==
  ASSUME NEW sup \in Trees, NEW pa \in [0 .. N + 1 -> AnyNode \cup {Unset}], NEW ix \in Nat,
         ix + 1 <= N + 1, Chain(pa, ix, sup), pa[ix] \in Node
  PROVE  /\ Chain(Longer(pa, ix, sup), ix + 1, sup) /\ Chain(Longer(pa, ix, sup), ix, sup)
         /\ Longer(pa, ix, sup)[ix + 1] = sup[pa[ix]]
         /\ \A k \in 0 .. N + 1 : k # ix + 1 => Longer(pa, ix, sup)[k] = pa[k]
         /\ Longer(pa, ix, sup) \in [0 .. N + 1 -> AnyNode \cup {Unset}]
<1>. DEFINE qa == Longer(pa, ix, sup)
<1>1. sup[pa[ix]] \in AnyNode
  BY Tree
<1>2. /\ qa[ix + 1] = sup[pa[ix]] /\ qa \in [0 .. N + 1 -> AnyNode \cup {Unset}]
      /\ \A k \in 0 .. N + 1 : k # ix + 1 => qa[k] = pa[k]
  BY <1>1 DEF Longer
<1>3. \A k \in 0 .. ix : qa[k] = pa[k]
  BY <1>2
<1>. HIDE DEF qa
<1>4. ASSUME NEW k \in 0 .. ix + 1
      PROVE  qa[k] \in AnyNode /\ (k < ix + 1 => qa[k] \in Node /\ qa[k + 1] = sup[qa[k]])
  <2>1. CASE k = ix + 1
    BY <1>1, <1>2, <2>1
  <2>2. CASE k = ix
    <3>1. qa[k] = pa[ix] /\ qa[k + 1] = sup[pa[ix]]
      BY <1>2, <1>3, <2>2
    <3>. QED BY <3>1 DEF Node, AnyNode
  <2>3. CASE k < ix
    <3>1. k \in 0 .. ix /\ k + 1 \in 0 .. ix
      BY <2>3
    <3>2. qa[k] = pa[k] /\ qa[k + 1] = pa[k + 1]
      BY <1>3, <3>1
    <3>. QED BY <2>3, <3>1, <3>2 DEF Chain
  <2>. QED BY <2>1, <2>2, <2>3
<1>5. Chain(qa, ix + 1, sup)
  BY <1>4 DEF Chain
<1>6. Chain(qa, ix, sup)
  <2>1. \A k \in 0 .. ix : k \in 0 .. ix + 1 /\ (k < ix => k < ix + 1)
    OBVIOUS
  <2>. QED BY <1>4, <2>1 DEF Chain
<1>. QED BY <1>2, <1>3, <1>5, <1>6 DEF qa

----------------------------------------------------------------------------
\* What holds in each loop.  Active(s): the active states are those of s, which
\* are enough to keep what both ends of the transition share.
Active(s) == Configuration(active, super, s)

AtReady == /\ state \in Node /\ temp = state /\ Active(state)
           /\ goal \in Above(state) /\ initial[state] = Top

AtDispatch == /\ state \in Node /\ target = state /\ source \in Above(state) /\ Active(state)
              /\ goal \in Above(state) /\ initial[state] = Top

AtExit == /\ source \in Node /\ goal \in Node /\ path[0] = goal /\ index = -1
          /\ source \in Above(target) /\ Active(target)

AtClassify == /\ source \in Node /\ goal \in Node /\ path[0] = goal /\ index = -1
              /\ target = goal /\ Active(source)

\* While the path is stored: it leads up from the goal, it is as long as the way,
\* so that it ends within path[], and the source is not on it.
AsDeep == Deepness(super, path[index]) + index = Deepness(super, path[0])

AtClimb == /\ source \in Node /\ goal \in Node /\ path[0] = goal /\ index >= 1
           /\ target = super[source] /\ Active(source)
           /\ Chain(path, index, super) /\ AsDeep
           /\ \A k \in 0 .. index : path[k] # source
           /\ \A n \in Above(goal) : n \notin Above(path[index]) => \E k \in 0 .. index : path[k] = n

AtSearch == /\ goal \in Node /\ path[0] = goal /\ index >= 1 /\ path[index] = Top
            /\ Chain(path, index, super) /\ Active(target) /\ Shared \subseteq Above(target)
            /\ \A n \in Above(goal) : \E k \in 0 .. index : path[k] = n

AtEnter == /\ Chain(path, index, super) /\ path[0] \in Node /\ goal \in Above(path[0])
           /\ index >= 0 => /\ path[index] \in Node /\ Active(super[path[index]])
                            /\ Shared \subseteq Above(super[path[index]])
           /\ index < 0 => Active(path[0]) /\ Shared \subseteq Above(path[0])

AtDrill == /\ target \in Node /\ Active(target) /\ Shared \subseteq Above(target)
           /\ goal \in Above(target)

AtDrillPath == /\ index >= 0 /\ path[0] \in Node /\ path[index] \in Node /\ goal \in Above(path[0])
               /\ Chain(path, index, super) /\ AsDeep
               /\ Active(target) /\ Shared \subseteq Above(target)
               /\ target \in Above(path[index]) /\ path[index] # target

Machine == super \in Hierarchies /\ initial \in Drills(super)

AtPC == /\ pc = "ready" => AtReady
        /\ pc = "dispatch" => AtDispatch
        /\ pc = "exit" => AtExit
        /\ pc = "classify" => AtClassify
        /\ pc = "climb" => AtClimb
        /\ pc = "search" => AtSearch
        /\ pc = "enter" => AtEnter
        /\ pc = "drill" => AtDrill
        /\ pc = "drillPath" => AtDrillPath

HSMInv == TypeOK /\ Machine /\ PathFits /\ AtPC

\* The tree of the machine at hand.
LEMMA Facts ==
  ASSUME Machine
  PROVE  /\ super \in Trees
         /\ Above(Top) = {Top}
         /\ \A s \in Node : /\ super[s] \in AnyNode /\ s \in AnyNode /\ s \notin Above(super[s])
                            /\ Above(s) = {s} \cup Above(super[s])
         /\ \A s \in AnyNode : /\ s \in Above(s) /\ Top \in Above(s) /\ Above(s) \subseteq AnyNode
                               /\ \A n \in Above(s) : Above(n) \subseteq Above(s)
                               /\ s \in Node \/ s = Top
<1>1. super \in Trees
  BY DEF Machine, Hierarchies
<1>2. \A s \in Node : s \in AnyNode
  BY DEF Node, AnyNode
<1>3. \A s \in AnyNode : s \in Node \/ s = Top
  BY DEF Node, AnyNode, Top
<1>. QED BY <1>1, <1>2, <1>3, Tree DEF Above

LEMMA InitInv == Init => HSMInv
<1>. SUFFICES ASSUME Init PROVE HSMInv
  OBVIOUS
<1>1. PICK t \in Node : temp = t /\ goal = t /\ path = [NoPath EXCEPT ![0] = t]
  BY DEF Init
<1>2. /\ super \in Hierarchies /\ initial \in Drills(super) /\ pc = "drillPath"
      /\ state = Top /\ source = Top /\ target = Top /\ index = 0
      /\ active = [s \in AnyNode |-> IF s = Top THEN 1 ELSE 0]
  BY DEF Init
<1>3. Machine
  BY <1>2 DEF Machine
<1>4. path[0] = t /\ path \in [0 .. N + 1 -> AnyNode \cup {Unset}] /\ \A i \in 0 .. N + 1 : i # 0 => path[i] = Unset
  <2>1. t \in AnyNode
    BY <1>3, Facts
  <2>. QED BY <1>1, <2>1 DEF NoPath
<1>5. TypeOK
  <2>1. super \in [Node -> AnyNode] /\ initial \in [Node -> AnyNode]
    BY <1>2 DEF Hierarchies, Trees, Drills
  <2>2. t \in AnyNode /\ Top \in AnyNode
    BY <1>3, Facts DEF AnyNode, Top
  <2>3. active \in [AnyNode -> Int]
    BY <1>2
  <2>4. index \in -1 .. N + 1
    BY <1>2
  <2>. QED BY <1>1, <1>2, <1>4, <2>1, <2>2, <2>3, <2>4 DEF TypeOK, PCs
<1>6. PathFits
  BY <1>4 DEF PathFits
<1>7. AtDrillPath
  <2>1. Top \in Above(t) /\ t \in Above(t) /\ t # Top /\ Above(Top) = {Top} /\ t \in AnyNode
    BY <1>3, Facts DEF Node, Top
  <2>2. Chain(path, index, super)
    BY <1>2, <1>4, <2>1 DEF Chain
  <2>3. AsDeep
    <3>1. super \in Trees
      BY <1>3, Facts
    <3>2. Deepness(super, t) \in 1 .. N + 1
      BY <2>1, <3>1, TreeDepth
    <3>. QED BY <1>2, <1>4, <3>2 DEF AsDeep
  <2>4. Active(target)
    BY <1>2, <2>1 DEF Active, Configuration, Above
  <2>5. Shared \subseteq Above(target)
    BY <1>1, <1>2, <2>1 DEF Shared
  <2>. QED BY <1>1, <1>2, <1>4, <2>1, <2>2, <2>3, <2>4, <2>5 DEF AtDrillPath
<1>. QED BY <1>2, <1>3, <1>5, <1>6, <1>7 DEF HSMInv, AtPC

----------------------------------------------------------------------------
\* The machine does not change, nor does what two ends share.
LEMMA Frame ==
  ASSUME Machine, UNCHANGED machine
  PROVE  /\ Machine' /\ super' = super /\ initial' = initial
         /\ \A s : Upward(super', s) = Upward(super, s)
         /\ UNCHANGED <<source, goal>> => Shared' = Shared
<1>1. super' = super /\ initial' = initial
  BY DEF machine
<1>. QED BY <1>1 DEF Machine, Shared, Above

\* The search for the handler of an event.
LEMMA SearchHandler ==
  ASSUME HSMInv, Receive \/ PassUp \/ NoTransition
  PROVE  HSMInv'
<1>1. TypeOK /\ Machine /\ PathFits /\ UNCHANGED machine
  BY DEF HSMInv, Receive, PassUp, NoTransition
<1>2. Machine' /\ super' = super /\ initial' = initial
  BY <1>1, Frame
<1>3. CASE Receive
  <2>1. AtReady
    BY <1>3 DEF HSMInv, AtPC, Receive
  <2>2. TypeOK' /\ PathFits'
    BY <1>1, <1>2, <1>3 DEF Receive, TypeOK, PCs, PathFits
  <2>3. state \in Above(state)
    BY <1>1, Facts DEF TypeOK
  <2>4. AtDispatch'
    BY <1>2, <1>3, <2>1, <2>3 DEF Receive, AtReady, AtDispatch, Active, Above
  <2>. QED BY <1>2, <1>3, <2>2, <2>4 DEF HSMInv, AtPC, Receive
<1>4. CASE PassUp
  <2>1. AtDispatch /\ pc = "dispatch" /\ source \in Node
    BY <1>1, <1>4, Facts DEF HSMInv, AtPC, PassUp, TypeOK
  <2>2. super[source] \in AnyNode /\ super[source] \in Above(source)
    BY <1>1, <2>1, Facts
  <2>3. super[source] \in Above(state)
    BY <1>1, <2>1, <2>2, Facts DEF AtDispatch, TypeOK
  <2>4. TypeOK' /\ PathFits'
    BY <1>1, <1>2, <1>4, <2>2 DEF PassUp, TypeOK, PathFits
  <2>5. AtDispatch'
    BY <1>2, <1>4, <2>1, <2>3 DEF PassUp, AtDispatch, Active, Above
  <2>. QED BY <1>2, <1>4, <2>1, <2>4, <2>5 DEF HSMInv, AtPC, PassUp
<1>5. CASE NoTransition
  <2>1. AtDispatch
    BY <1>5 DEF HSMInv, AtPC, NoTransition
  <2>2. path' = NoPath /\ index' = -1 /\ source' = target
    BY <1>5 DEF NoTransition, Forget
  <2>3. path' \in [0 .. N + 1 -> AnyNode \cup {Unset}] /\ index' \in -1 .. N + 1
    BY <2>2 DEF NoPath
  <2>4. TypeOK'
    BY <1>1, <1>2, <1>5, <2>2, <2>3 DEF NoTransition, TypeOK, PCs
  <2>5. PathFits'
    BY <2>2 DEF PathFits, NoPath
  <2>6. AtReady'
    BY <1>2, <1>5, <2>1 DEF NoTransition, AtDispatch, AtReady, Active, Above
  <2>. QED BY <1>2, <1>5, <2>4, <2>5, <2>6 DEF HSMInv, AtPC, NoTransition
<1>. QED BY <1>3, <1>4, <1>5

\* A transition begins: exit up to its source.
LEMMA Leave ==
  ASSUME HSMInv, TakeTransition \/ ExitToSource \/ AtSource
  PROVE  HSMInv'
<1>1. TypeOK /\ Machine /\ PathFits /\ UNCHANGED machine
  BY DEF HSMInv, TakeTransition, ExitToSource, AtSource
<1>2. Machine' /\ super' = super /\ initial' = initial
  BY <1>1, Frame
<1>3. CASE TakeTransition
  <2>1. AtDispatch /\ source \in Node
    BY <1>1, <1>3, Facts DEF HSMInv, AtPC, TakeTransition, TypeOK
  <2>2. PICK t \in Node : temp' = t /\ goal' = t /\ path' = [path EXCEPT ![0] = t, ![1] = target]
    BY <1>3 DEF TakeTransition
  <2>3. t \in AnyNode /\ path \in [0 .. N + 1 -> AnyNode \cup {Unset}] /\ target \in AnyNode
    BY <1>1, Facts DEF TypeOK
  <2>4. /\ path' \in [0 .. N + 1 -> AnyNode \cup {Unset}] /\ path'[0] = t
        /\ \A i \in 0 .. N + 1 : i # 0 /\ i # 1 => path'[i] = path[i]
    BY <2>2, <2>3
  <2>5. PathFits'
    <3>1. DOMAIN path = 0 .. N + 1 /\ DOMAIN path' = 0 .. N + 1
      BY <2>3, <2>4
    <3>. QED BY <1>1, <2>4, <3>1 DEF PathFits
  <2>6. TypeOK'
    BY <1>1, <1>2, <1>3, <2>2, <2>3, <2>4 DEF TakeTransition, TypeOK, PCs
  <2>7. AtExit'
    BY <1>2, <1>3, <2>1, <2>2, <2>4 DEF TakeTransition, AtDispatch, AtExit, Active, Above
  <2>. QED BY <1>2, <1>3, <2>5, <2>6, <2>7 DEF HSMInv, AtPC, TakeTransition
<1>4. CASE ExitToSource
  <2>1. AtExit /\ target # source /\ target \in AnyNode
    BY <1>1, <1>4 DEF HSMInv, AtPC, ExitToSource, TypeOK
  <2>2. target \in Node
    <3>1. target # Top
      BY <1>1, <2>1, Facts DEF AtExit
    <3>. QED BY <1>1, <2>1, <3>1, Facts
  <2>3. super[target] \in AnyNode /\ source \in Above(super[target]) /\ super \in Trees
    BY <1>1, <2>1, <2>2, Facts DEF AtExit
  <2>4. Configuration(active', super, super[target])
    BY <1>1, <1>4, <2>1, <2>2, <2>3, ExitOne DEF AtExit, Active, ExitToSource, exit, TypeOK
  <2>5. TypeOK' /\ PathFits'
    <3>1. active' \in [AnyNode -> Int]
      BY <1>1, <1>4, <2>1 DEF ExitToSource, exit, TypeOK
    <3>. QED BY <1>1, <1>2, <1>4, <2>3, <3>1 DEF ExitToSource, TypeOK, PathFits
  <2>6. AtExit'
    BY <1>2, <1>4, <2>1, <2>3, <2>4 DEF ExitToSource, AtExit, Active, Above
  <2>. QED BY <1>2, <1>4, <2>5, <2>6 DEF HSMInv, AtPC, ExitToSource
<1>5. CASE AtSource
  <2>1. AtExit /\ target = source
    BY <1>5 DEF HSMInv, AtPC, AtSource
  <2>2. goal \in AnyNode
    BY <1>1 DEF TypeOK
  <2>3. TypeOK' /\ PathFits'
    BY <1>1, <1>2, <1>5, <2>1, <2>2 DEF AtExit, AtSource, TypeOK, PCs, PathFits
  <2>4. AtClassify'
    BY <1>2, <1>5, <2>1 DEF AtExit, AtSource, AtClassify, Active
  <2>. QED BY <1>2, <1>5, <2>3, <2>4 DEF HSMInv, AtPC, AtSource
<1>. QED BY <1>3, <1>4, <1>5

\* The four simple shapes.
LEMMA Simple ==
  ASSUME HSMInv, CaseA \/ CaseB \/ CaseC \/ CaseD
  PROVE  HSMInv'
<1>1. /\ TypeOK /\ Machine /\ PathFits /\ UNCHANGED machine /\ AtClassify
      /\ pc' = "enter" /\ UNCHANGED <<state, temp, source, target, path, goal>>
  BY DEF HSMInv, AtPC, CaseA, CaseB, CaseC, CaseD
<1>2. /\ Machine' /\ super' = super /\ initial' = initial /\ Shared' = Shared
      /\ \A s : Upward(super', s) = Upward(super, s)
  BY <1>1, Frame
<1>3. /\ source \in Node /\ goal \in Node /\ path[0] = goal /\ index = -1 /\ target = goal
      /\ Active(source) /\ super \in Trees /\ source \in AnyNode /\ goal \in AnyNode
  BY <1>1, Facts DEF AtClassify
<1>4. /\ Above(source) = {source} \cup Above(super[source]) /\ source \notin Above(super[source])
      /\ Above(goal) = {goal} \cup Above(super[goal]) /\ goal \in Above(goal)
      /\ super[goal] \in AnyNode /\ super[source] \in AnyNode
  BY <1>1, <1>3, Facts
<1>5. /\ CaseA \/ CaseC \/ CaseD => Configuration(active', super, super[source])
      /\ CaseB => Configuration(active', super, source)
  <2>1. CaseA \/ CaseC \/ CaseD => active' = [active EXCEPT ![source] = @ - 1]
    BY DEF CaseA, CaseC, CaseD, exit
  <2>2. CaseB => active' = active
    BY DEF CaseB
  <2>3. Configuration(active, super, source) /\ active \in [AnyNode -> Int]
    BY <1>1, <1>3 DEF Active, TypeOK
  <2>4. Configuration([active EXCEPT ![source] = @ - 1], super, super[source])
    BY <1>3, <2>3, ExitOne
  <2>. QED BY <2>1, <2>2, <2>3, <2>4
<1>6. active' \in [AnyNode -> Int]
  BY <1>1, <1>3 DEF CaseA, CaseB, CaseC, CaseD, exit, TypeOK
<1>7. (CaseA \/ CaseB \/ CaseC => index' = 0) /\ (CaseD => index' = -1)
  BY <1>3 DEF CaseA, CaseB, CaseC, CaseD
<1>8. TypeOK' /\ PathFits'
  <2>1. index' \in -1 .. N + 1
    BY <1>7
  <2>. QED BY <1>1, <1>2, <1>6, <2>1 DEF TypeOK, PathFits, PCs
<1>9. Chain(path', index', super') /\ path'[0] \in Node /\ goal' \in Above(path[0])'
  <2>1. path'[0] = goal /\ goal' = goal
    BY <1>1, <1>3
  <2>2. index' = 0 => Chain(path', index', super')
    BY <1>3, <2>1 DEF Chain
  <2>3. index' = -1 => Chain(path', index', super')
    BY DEF Chain
  <2>. QED BY <1>2, <1>3, <1>4, <1>7, <2>1, <2>2, <2>3 DEF Above
\* Where the active states end, and why they hold what is shared.
<1>10. CaseA \/ CaseB \/ CaseC => /\ Configuration(active', super, super[goal])
                                  /\ Shared \subseteq Above(super[goal])
  <2>1. CASE CaseA
    <3>1. source = goal
      BY <1>3, <2>1 DEF CaseA, Self
    <3>. QED BY <1>4, <1>5, <2>1, <3>1 DEF Shared
  <2>2. CASE CaseB
    <3>1. source # goal /\ super[goal] = source
      BY <1>3, <2>2 DEF CaseB, Self, Child
    <3>. QED BY <1>4, <1>5, <2>2, <3>1 DEF Shared
  <2>3. CASE CaseC
    <3>1. source # goal /\ super[source] = super[goal]
      BY <1>3, <2>3 DEF CaseC, Self, Sibling
    <3>. QED BY <1>4, <1>5, <2>3, <3>1 DEF Shared
  <2>. QED BY <2>1, <2>2, <2>3
<1>11. CaseD => Configuration(active', super, goal) /\ Shared \subseteq Above(goal)
  <2>1. SUFFICES ASSUME CaseD PROVE Configuration(active', super, goal) /\ Shared \subseteq Above(goal)
    OBVIOUS
  <2>2. source # goal /\ super[source] = goal
    BY <1>3, <2>1 DEF CaseD, Self, Parent
  <2>. QED BY <1>5, <2>1, <2>2 DEF Shared
<1>12. AtEnter'
  <2>1. CASE CaseA \/ CaseB \/ CaseC
    <3>1. index' = 0 /\ path' = path /\ path[0] = goal
      BY <1>1, <1>3, <1>7, <2>1
    <3>2. Active(super[path[index]])'
      BY <1>2, <1>10, <2>1, <3>1 DEF Active
    <3>3. Shared' \subseteq Above(super[path[index]])'
      BY <1>2, <1>10, <2>1, <3>1 DEF Above
    <3>. QED BY <1>3, <1>9, <3>1, <3>2, <3>3 DEF AtEnter
  <2>2. CASE CaseD
    <3>1. index' = -1 /\ path' = path /\ path[0] = goal
      BY <1>1, <1>3, <1>7, <2>2
    <3>2. Active(path[0])'
      BY <1>2, <1>11, <2>2, <3>1 DEF Active
    <3>3. Shared' \subseteq Above(path[0])'
      BY <1>2, <1>11, <2>2, <3>1 DEF Above
    <3>. QED BY <1>3, <1>9, <3>1, <3>2, <3>3 DEF AtEnter
  <2>. QED BY <2>1, <2>2
<1>. QED BY <1>1, <1>2, <1>8, <1>12 DEF HSMInv, AtPC

\* As long as the path has not reached Hsm_top there is room for one more element:
\* path[] is as long as the machine is deep.
LEMMA Room ==
  ASSUME TypeOK, Machine, PathFits, index >= 0, AsDeep, Chain(path, index, super),
         path[0] \in Node, path[index] \in Node
  PROVE  /\ index \in Nat /\ index + 1 \in -1 .. N + 1 /\ super[path[index]] \in AnyNode
         /\ Longer(path, index, super) \in [0 .. N + 1 -> AnyNode \cup {Unset}]
         /\ Longer(path, index, super)[index + 1] = super[path[index]]
         /\ \A k \in 0 .. index : Longer(path, index, super)[k] = path[k]
         /\ Chain(Longer(path, index, super), index + 1, super)
         /\ Chain(Longer(path, index, super), index, super)
         /\ \A i \in 0 .. N + 1 : i >= HSM_MAX_NEST_DEPTH => Longer(path, index, super)[i] = Unset
         /\ Deepness(super, super[path[index]]) + (index + 1) = Deepness(super, path[0])
<1>. DEFINE up == super[path[index]]
            longer == Longer(path, index, super)
            d == Deepness(super, path[index])
            e == Deepness(super, up)
            g == Deepness(super, path[0])
<1>1. super \in Trees /\ up \in AnyNode /\ path[index] \in AnyNode /\ path[0] \in AnyNode
  BY Facts
<1>2. d = e + 1 /\ e \in 1 .. N + 1 /\ g \in 1 .. N + 1 /\ d \in 1 .. N + 1
  BY <1>1, TreeDepth
<1>3. g <= HSM_MAX_NEST_DEPTH
  BY DEF Machine, Hierarchies, Deepness
<1>4. d + index = g /\ index \in Nat
  BY DEF AsDeep, TypeOK
<1>. HIDE DEF d, e, g
<1>5. index + 1 \in -1 .. N + 1 /\ index + 1 <= N + 1 /\ index + 1 < HSM_MAX_NEST_DEPTH /\ e + (index + 1) = g
  BY <1>2, <1>3, <1>4
<1>6. path \in [0 .. N + 1 -> AnyNode \cup {Unset}]
  BY DEF TypeOK
<1>7. /\ Chain(longer, index + 1, super) /\ Chain(longer, index, super)
      /\ longer[index + 1] = up /\ \A k \in 0 .. N + 1 : k # index + 1 => longer[k] = path[k]
      /\ longer \in [0 .. N + 1 -> AnyNode \cup {Unset}]
  <2>1. super \in Trees /\ index \in Nat /\ index + 1 <= N + 1
    BY <1>1, <1>4, <1>5
  <2>2. Chain(path, index, super) /\ path[index] \in Node
    OBVIOUS
  <2>. HIDE DEF longer, up
  <2>3. /\ Chain(Longer(path, index, super), index + 1, super)
        /\ Chain(Longer(path, index, super), index, super)
        /\ Longer(path, index, super)[index + 1] = super[path[index]]
        /\ \A k \in 0 .. N + 1 : k # index + 1 => Longer(path, index, super)[k] = path[k]
        /\ Longer(path, index, super) \in [0 .. N + 1 -> AnyNode \cup {Unset}]
    BY <1>6, <2>1, <2>2, ChainGrows
  <2>. QED BY <2>3 DEF longer, up
<1>. HIDE DEF longer
<1>9. \A k \in 0 .. index : longer[k] = path[k]
  BY <1>4, <1>5, <1>7
<1>8. \A i \in 0 .. N + 1 : i >= HSM_MAX_NEST_DEPTH => longer[i] = Unset
  <2>1. \A i \in 0 .. N + 1 : i >= HSM_MAX_NEST_DEPTH => path[i] = Unset /\ i # index + 1
    BY <1>4, <1>5, <1>6 DEF PathFits
  <2>. QED BY <1>7, <2>1
<1>. QED BY <1>1, <1>4, <1>5, <1>7, <1>8, <1>9 DEF e, g, longer

\* (E): the path is stored.
LEMMA StorePath ==
  ASSUME HSMInv, CaseE \/ Climb \/ ClimbedToTop
  PROVE  HSMInv'
<1>1. TypeOK /\ Machine /\ PathFits /\ UNCHANGED machine /\ UNCHANGED <<state, temp, source, goal>>
  BY DEF HSMInv, CaseE, Climb, ClimbedToTop
<1>2. /\ Machine' /\ super' = super /\ initial' = initial /\ Shared' = Shared
      /\ \A s : Upward(super', s) = Upward(super, s)
  BY <1>1, Frame
<1>3. path \in [0 .. N + 1 -> AnyNode \cup {Unset}] /\ index \in -1 .. N + 1 /\ super \in Trees
  BY <1>1, Facts DEF TypeOK
<1>4. CASE CaseE
  <2>1. AtClassify /\ source # target /\ super[target] # source
    BY <1>4 DEF HSMInv, AtPC, CaseE, Self, Child
  <2>2. /\ source \in Node /\ goal \in Node /\ path[0] = goal /\ target = goal /\ Active(source)
    BY <2>1 DEF AtClassify
  <2>3. /\ super[goal] \in AnyNode /\ goal \in AnyNode /\ super[source] \in AnyNode
        /\ Above(goal) = {goal} \cup Above(super[goal])
    BY <1>1, <2>2, Facts
  <2>4. /\ index' = 1 /\ path' = [path EXCEPT ![1] = super[goal]] /\ target' = super[source]
        /\ pc' = "climb" /\ active' = active
    BY <1>4, <2>2 DEF CaseE
  <2>5. /\ path' \in [0 .. N + 1 -> AnyNode \cup {Unset}] /\ path'[0] = goal /\ path'[1] = super[goal]
        /\ \A i \in 0 .. N + 1 : i # 1 => path'[i] = path[i]
    BY <1>3, <2>2, <2>3, <2>4
  <2>6. TypeOK'
    <3>1. index' \in -1 .. N + 1
      BY <2>4
    <3>. QED BY <1>1, <1>2, <2>3, <2>4, <2>5, <3>1 DEF TypeOK, PCs
  <2>7. PathFits'
    <3>1. DOMAIN path = 0 .. N + 1 /\ DOMAIN path' = 0 .. N + 1
      BY <1>3, <2>5
    <3>. QED BY <1>1, <2>5, <3>1 DEF PathFits
  <2>8. \A k \in 0 .. 1 : k = 0 \/ k = 1
    OBVIOUS
  <2>9. Chain(path', 1, super)
    BY <2>2, <2>3, <2>5, <2>8 DEF Chain
  <2>10. AsDeep'
    <3>1. Deepness(super, goal) = Deepness(super, super[goal]) + 1
      BY <1>3, <2>2, TreeDepth
    <3>. QED BY <1>2, <2>4, <2>5, <3>1 DEF AsDeep
  <2>11. \A k \in 0 .. 1 : path'[k] # source
    BY <2>1, <2>2, <2>5, <2>8
  <2>12. \A n \in Above(goal) : n \notin Above(super[goal]) => \E k \in 0 .. 1 : path'[k] = n
    BY <2>3, <2>5
  <2>13. Active(source)'
    BY <1>1, <1>2, <2>2, <2>4 DEF Active
  <2>14. AtClimb'
    BY <1>1, <1>2, <2>2, <2>4, <2>5, <2>9, <2>10, <2>11, <2>12, <2>13 DEF AtClimb, Above
  <2>. QED BY <1>2, <2>4, <2>6, <2>7, <2>14 DEF HSMInv, AtPC
<1>5. CASE Climb
  <2>. DEFINE up == super[path[index]]
  <2>1. /\ pc = "climb" /\ source \in Node /\ goal \in Node /\ path[0] = goal /\ index >= 1
        /\ target = super[source] /\ Active(source) /\ Chain(path, index, super) /\ AsDeep
        /\ \A k \in 0 .. index : path[k] # source
        /\ \A n \in Above(goal) : n \notin Above(path[index]) => \E k \in 0 .. index : path[k] = n
    BY <1>5 DEF HSMInv, AtPC, AtClimb, Climb
  <2>2. path[index] \in Node
    <3>1. path[index] \in AnyNode /\ path[index] # Top
      BY <1>3, <1>5, <2>1 DEF Chain, Climb
    <3>. QED BY <1>1, <3>1, Facts
  <2>3. /\ path' = Longer(path, index, super) /\ active' = active /\ target' = target
        /\ up = source => pc' = "enter" /\ index' = index
        /\ up # source => pc' = "climb" /\ index' = index + 1
    BY <1>5, <2>1 DEF Climb, Longer
  <2>a. index >= 0
    BY <1>3, <2>1
  <2>4. /\ index \in Nat /\ index + 1 \in -1 .. N + 1 /\ up \in AnyNode
        /\ path' \in [0 .. N + 1 -> AnyNode \cup {Unset}]
        /\ path'[index + 1] = up /\ \A k \in 0 .. index : path'[k] = path[k]
        /\ Chain(path', index + 1, super) /\ Chain(path', index, super)
        /\ \A i \in 0 .. N + 1 : i >= HSM_MAX_NEST_DEPTH => path'[i] = Unset
        /\ Deepness(super, up) + (index + 1) = Deepness(super, path[0])
    BY <1>1, <2>1, <2>2, <2>3, <2>a, Room, Zenon
  <2>5. PathFits'
    BY <2>4 DEF PathFits
  <2>6. TypeOK'
    <3>1. index' \in -1 .. N + 1 /\ pc' \in PCs
      BY <1>3, <2>3, <2>4 DEF PCs
    <3>. QED BY <1>1, <1>2, <2>3, <2>4, <3>1 DEF TypeOK
  <2>7. path'[0] = goal /\ path'[index] = path[index] /\ Above(path[index]) = {path[index]} \cup Above(up)
    BY <1>1, <2>1, <2>2, <2>4, Facts
  <2>8. Active(source)'
    BY <1>1, <1>2, <2>1, <2>3 DEF Active
  <2>9. CASE up = source
    <3>1. /\ Active(super[path[index]])'
      BY <1>1, <1>2, <2>3, <2>7, <2>8, <2>9 DEF Active
    <3>2. Shared \subseteq Above(source)
      BY DEF Shared
    <3>3. Shared' \subseteq Above(super[path[index]])'
      BY <1>2, <2>3, <2>7, <2>9, <3>2 DEF Above
    <3>4. goal \in Above(goal)
      BY <1>1, <2>1, Facts
    <3>5. goal' \in Above(path[0])'
      BY <1>1, <1>2, <2>7, <3>4 DEF Above
    <3>6. Chain(path', index', super')
      BY <1>2, <2>3, <2>4, <2>9
    <3>7. path'[0] \in Node /\ path'[index'] \in Node /\ ~ (index' < 0)
      BY <1>3, <2>1, <2>2, <2>3, <2>7, <2>9
    <3>8. AtEnter'
      BY <3>1, <3>3, <3>5, <3>6, <3>7 DEF AtEnter
    <3>. QED BY <1>2, <2>3, <2>5, <2>6, <2>9, <3>8 DEF HSMInv, AtPC
  <2>10. CASE up # source
    <3>1. index' = index + 1 /\ pc' = "climb" /\ path'[index'] = up
      BY <2>3, <2>4, <2>10
    <3>2. \A k \in 0 .. index + 1 : k \in 0 .. index \/ k = index + 1
      BY <2>4
    <3>3. \A k \in 0 .. index + 1 : path'[k] # source
      BY <2>1, <2>4, <2>10, <3>2
    <3>4. ASSUME NEW n \in Above(goal), n \notin Above(up) PROVE \E k \in 0 .. index + 1 : path'[k] = n
      <4>1. CASE n = path[index]
        <5>1. index \in 0 .. index + 1
          BY <2>4
        <5>. QED BY <2>7, <4>1, <5>1
      <4>2. CASE n # path[index]
        <5>1. PICK k \in 0 .. index : path[k] = n
          BY <2>1, <2>7, <3>4, <4>2
        <5>2. k \in 0 .. index + 1 /\ path'[k] = n
          BY <2>4, <5>1
        <5>. QED BY <5>2
      <4>. QED BY <4>1, <4>2
    <3>5. AsDeep'
      BY <1>2, <2>1, <2>4, <2>7, <3>1 DEF AsDeep
    <3>6. Chain(path', index', super') /\ index' >= 1
      BY <1>2, <2>1, <2>4, <3>1
    <3>7. AtClimb'
      BY <1>1, <1>2, <2>1, <2>3, <2>7, <2>8, <3>1, <3>3, <3>4, <3>5, <3>6 DEF AtClimb, Above
    <3>. QED BY <1>2, <2>5, <2>6, <3>1, <3>7 DEF HSMInv, AtPC
  <2>. QED BY <2>9, <2>10
<1>6. CASE ClimbedToTop
  <2>1. /\ source \in Node /\ goal \in Node /\ path[0] = goal /\ index >= 1 /\ path[index] = Top
        /\ target = super[source] /\ Active(source) /\ Chain(path, index, super)
        /\ \A k \in 0 .. index : path[k] # source
        /\ \A n \in Above(goal) : n \notin Above(path[index]) => \E k \in 0 .. index : path[k] = n
    BY <1>6 DEF HSMInv, AtPC, AtClimb, ClimbedToTop
  <2>2. /\ active' = [active EXCEPT ![source] = @ - 1] /\ pc' = "search"
        /\ UNCHANGED <<target, path, index>>
    BY <1>6 DEF ClimbedToTop, exit
  <2>3. TypeOK' /\ PathFits'
    <3>1. active' \in [AnyNode -> Int]
      BY <1>1, <2>2 DEF TypeOK
    <3>. QED BY <1>1, <1>2, <2>2, <3>1 DEF TypeOK, PCs, PathFits
  <2>4. Active(target)'
    <3>1. Configuration([active EXCEPT ![source] = @ - 1], super, super[source])
      BY <1>1, <1>3, <2>1, ExitOne DEF Active, TypeOK
    <3>. QED BY <1>2, <2>1, <2>2, <3>1 DEF Active
  <2>5. ASSUME NEW n \in Above(goal) PROVE \E k \in 0 .. index : path[k] = n
    <3>1. CASE n \in Above(path[index])
      <4>1. n = path[index] /\ index \in 0 .. index
        BY <1>1, <1>3, <2>1, <3>1, Facts
      <4>. QED BY <4>1
    <3>. QED BY <2>1, <2>5, <3>1
  <2>6. source \notin Above(goal)
    BY <2>1, <2>5
  <2>7. Shared \subseteq Above(target)
    <3>1. Above(source) = {source} \cup Above(target) /\ goal \in Above(goal)
      BY <1>1, <2>1, Facts
    <3>. QED BY <2>6, <3>1 DEF Shared
  <2>8. AtSearch'
    BY <1>1, <1>2, <2>1, <2>2, <2>4, <2>5, <2>7 DEF AtSearch, Above
  <2>. QED BY <1>2, <2>2, <2>3, <2>8 DEF HSMInv, AtPC
<1>. QED BY <1>4, <1>5, <1>6

\* (F) and (G): the least common ancestor is found on the path.
LEMMA MaxExists ==
  ASSUME NEW n \in Nat, NEW S \in SUBSET (0 .. n), S # {}
  PROVE  Max(S) \in S
<1>. DEFINE T == {n - k : k \in S}
<1>1. PICK x \in T : \A y \in T : x <= y
  <2>1. \A k \in S : n - k \in Nat /\ n - k \in T
    OBVIOUS
  <2>2. T \subseteq Nat /\ T # {}
    BY <2>1
  <2>. HIDE DEF T
  <2>. QED BY <2>2, LeastNumber
<1>2. PICK m \in S : x = n - m
  OBVIOUS
<1>3. \A y \in S : m >= y
  <2>1. \A y \in S : n - m <= n - y /\ y \in Int /\ m \in Int
    BY <1>1, <1>2
  <2>. QED BY <2>1
<1>. QED BY <1>3 DEF Max

LEMMA FindLCA ==
  ASSUME HSMInv, FoundLCA \/ ExitFurther
  PROVE  HSMInv'
<1>1. TypeOK /\ Machine /\ PathFits /\ UNCHANGED machine /\ UNCHANGED <<state, temp, source, goal, path>>
  BY DEF HSMInv, FoundLCA, ExitFurther
<1>2. /\ Machine' /\ super' = super /\ initial' = initial /\ Shared' = Shared
      /\ \A s : Upward(super', s) = Upward(super, s)
  BY <1>1, Frame
<1>3. /\ pc = "search" /\ goal \in Node /\ path[0] = goal /\ index >= 1 /\ path[index] = Top
      /\ Chain(path, index, super) /\ Active(target) /\ Shared \subseteq Above(target)
      /\ \A n \in Above(goal) : \E k \in 0 .. index : path[k] = n
  BY DEF HSMInv, AtPC, AtSearch, FoundLCA, ExitFurther
<1>4. index \in Nat /\ index \in -1 .. N + 1 /\ super \in Trees /\ target \in AnyNode
  BY <1>1, <1>3, Facts DEF TypeOK
<1>5. CASE FoundLCA
  <2>1. Max(OnPath) \in OnPath
    BY <1>4, <1>5, MaxExists DEF OnPath, FoundLCA
  <2>2. PICK m \in 0 .. index : m = Max(OnPath) /\ path[m] = target
    BY <2>1 DEF OnPath
  <2>3. index' = m - 1 /\ pc' = "enter" /\ UNCHANGED <<target, active>>
    BY <1>5, <2>2 DEF FoundLCA
  <2>4. TypeOK' /\ PathFits'
    <3>1. index' \in -1 .. N + 1
      BY <1>4, <2>2, <2>3
    <3>. QED BY <1>1, <1>2, <2>3, <3>1 DEF TypeOK, PCs, PathFits
  <2>5. Chain(path, m - 1, super)
    <3>1. \A k \in 0 .. m - 1 : k \in 0 .. index /\ k < index
      BY <1>4, <2>2
    <3>. QED BY <1>3, <3>1 DEF Chain
  <2>6. goal \in Above(goal)
    BY <1>1, <1>3, Facts
  <2>7. CASE m = 0
    <3>1. index' = -1 /\ target = path[0]
      BY <2>2, <2>3, <2>7
    <3>2. Active(path[0])' /\ Shared' \subseteq Above(path[0])'
      BY <1>1, <1>2, <1>3, <2>3, <3>1 DEF Active, Above
    <3>3. AtEnter'
      BY <1>1, <1>2, <1>3, <2>3, <2>5, <2>6, <3>1, <3>2 DEF AtEnter, Above
    <3>. QED BY <1>2, <2>3, <2>4, <3>3 DEF HSMInv, AtPC
  <2>8. CASE m # 0
    <3>1. m - 1 \in 0 .. index /\ m - 1 < index /\ (m - 1) + 1 = m /\ ~ (m - 1 < 0)
      BY <1>4, <2>2, <2>8
    <3>2. path[m - 1] \in Node /\ super[path[m - 1]] = target
      BY <1>3, <2>2, <3>1 DEF Chain
    <3>3. Active(super[path[index]])' /\ Shared' \subseteq Above(super[path[index]])'
      BY <1>1, <1>2, <1>3, <2>3, <3>2 DEF Active, Above
    <3>4. AtEnter'
      BY <1>1, <1>2, <1>3, <2>3, <2>5, <2>6, <3>1, <3>2, <3>3 DEF AtEnter, Above
    <3>. QED BY <1>2, <2>3, <2>4, <3>4 DEF HSMInv, AtPC
  <2>. QED BY <2>7, <2>8
<1>6. CASE ExitFurther
  <2>1. \A k \in 0 .. index : path[k] # target
    BY <1>6 DEF ExitFurther, OnPath
  <2>2. target \in Node
    <3>1. target # Top
      BY <1>3, <1>4, <2>1
    <3>. QED BY <1>1, <1>4, <3>1, Facts
  <2>3. super[target] \in AnyNode /\ Above(target) = {target} \cup Above(super[target])
    BY <1>1, <2>2, Facts
  <2>4. /\ active' = [active EXCEPT ![target] = @ - 1] /\ target' = super[target]
        /\ UNCHANGED <<pc, index>>
    BY <1>6 DEF ExitFurther, exit
  <2>5. TypeOK' /\ PathFits'
    <3>1. active' \in [AnyNode -> Int]
      BY <1>1, <1>4, <2>4 DEF TypeOK
    <3>. QED BY <1>1, <1>2, <2>3, <2>4, <3>1 DEF TypeOK, PathFits
  <2>6. Active(target)'
    <3>1. Configuration([active EXCEPT ![target] = @ - 1], super, super[target])
      BY <1>1, <1>3, <1>4, <2>2, ExitOne DEF Active, TypeOK
    <3>. QED BY <1>2, <2>4, <3>1 DEF Active
  <2>7. Shared \subseteq Above(super[target])
    <3>1. target \notin Above(goal)
      BY <1>3, <2>1
    <3>2. target \notin Shared
      <4>1. CASE source = goal
        BY <3>1, <4>1 DEF Shared
      <4>2. CASE source # goal
        BY <3>1, <4>2 DEF Shared
      <4>. QED BY <4>1, <4>2
    <3>. QED BY <1>3, <2>3, <3>2
  <2>8. AtSearch'
    BY <1>1, <1>2, <1>3, <2>4, <2>6, <2>7 DEF AtSearch, Above
  <2>. QED BY <1>2, <1>3, <2>4, <2>5, <2>8 DEF HSMInv, AtPC
<1>. QED BY <1>5, <1>6

\* The states of the path are entered, the last one stored first.
LEMMA Arrive ==
  ASSUME HSMInv, Enter \/ Entered
  PROVE  HSMInv'
<1>1. TypeOK /\ Machine /\ PathFits /\ UNCHANGED machine /\ UNCHANGED <<state, source, goal, path>>
  BY DEF HSMInv, Enter, Entered
<1>2. /\ Machine' /\ super' = super /\ initial' = initial /\ Shared' = Shared
      /\ \A s : Upward(super', s) = Upward(super, s)
  BY <1>1, Frame
<1>3. AtEnter /\ pc = "enter"
  BY DEF HSMInv, AtPC, Enter, Entered
<1>4. /\ path[0] \in Node /\ path[0] \in AnyNode /\ super \in Trees /\ index \in -1 .. N + 1
      /\ Chain(path, index, super) /\ goal \in Above(path[0])
  BY <1>1, <1>3, Facts DEF AtEnter, TypeOK
<1>5. CASE Enter
  <2>. DEFINE s == path[index]
  <2>1. /\ index \in Nat /\ s \in Node /\ Active(super[s]) /\ Shared \subseteq Above(super[s])
    BY <1>3, <1>4, <1>5 DEF AtEnter, Enter
  <2>2. s \in AnyNode /\ Above(s) = {s} \cup Above(super[s])
    BY <1>1, <2>1, Facts
  <2>3. active' = [active EXCEPT ![s] = @ + 1] /\ index' = index - 1 /\ UNCHANGED <<pc, target>>
    BY <1>5 DEF Enter, entry
  <2>4. TypeOK' /\ PathFits'
    <3>1. active' \in [AnyNode -> Int]
      BY <1>1, <2>2, <2>3 DEF TypeOK
    <3>2. temp' \in AnyNode
      BY <1>1, <1>5 DEF Enter, TypeOK, Node, AnyNode
    <3>3. index' \in -1 .. N + 1
      BY <1>4, <2>1, <2>3
    <3>. QED BY <1>1, <1>2, <2>3, <3>1, <3>2, <3>3 DEF TypeOK, PathFits
  <2>5. Configuration(active', super, s) /\ Shared \subseteq Above(s)
    <3>1. Configuration([active EXCEPT ![s] = @ + 1], super, s)
      BY <1>1, <1>4, <2>1, EnterOne DEF Active, TypeOK
    <3>. QED BY <2>1, <2>2, <2>3, <3>1
  <2>. HIDE DEF s
  <2>6. Chain(path, index - 1, super)
    <3>1. \A k \in 0 .. index - 1 : k \in 0 .. index /\ k < index
      BY <2>1
    <3>. QED BY <1>4, <3>1 DEF Chain
  <2>7. CASE index = 0
    <3>1. index' = -1 /\ s = path'[0]
      BY <1>1, <2>3, <2>7 DEF s
    <3>2. Active(path[0])' /\ Shared' \subseteq Above(path[0])'
      BY <1>2, <2>5, <3>1 DEF Active, Above
    <3>3. AtEnter'
      BY <1>1, <1>2, <1>4, <2>3, <2>6, <3>1, <3>2 DEF AtEnter, Above
    <3>. QED BY <1>2, <1>3, <2>3, <2>4, <3>3 DEF HSMInv, AtPC
  <2>8. CASE index # 0
    <3>1. index - 1 \in 0 .. index /\ index - 1 < index /\ (index - 1) + 1 = index /\ ~ (index - 1 < 0)
      BY <2>1, <2>8
    <3>2. path[index - 1] \in Node /\ super[path[index - 1]] = s
      BY <1>4, <3>1 DEF Chain, s
    <3>3. Active(super[path[index]])' /\ Shared' \subseteq Above(super[path[index]])'
      BY <1>1, <1>2, <2>3, <2>5, <3>2 DEF Active, Above
    <3>4. AtEnter'
      BY <1>1, <1>2, <1>4, <2>3, <2>6, <3>1, <3>2, <3>3 DEF AtEnter, Above
    <3>. QED BY <1>2, <1>3, <2>3, <2>4, <3>4 DEF HSMInv, AtPC
  <2>. QED BY <2>7, <2>8
<1>6. CASE Entered
  <2>1. Active(path[0]) /\ Shared \subseteq Above(path[0])
    BY <1>3, <1>6 DEF AtEnter, Entered
  <2>2. target' = path[0] /\ temp' = path[0] /\ pc' = "drill" /\ UNCHANGED <<index, active>>
    BY <1>6 DEF Entered
  <2>3. TypeOK' /\ PathFits'
    BY <1>1, <1>2, <1>4, <2>2 DEF TypeOK, PCs, PathFits
  <2>4. AtDrill'
    BY <1>1, <1>2, <1>4, <2>1, <2>2 DEF AtDrill, Active, Above
  <2>. QED BY <1>2, <2>2, <2>3, <2>4 DEF HSMInv, AtPC
<1>. QED BY <1>5, <1>6

\* EV_INIT leads further down, or nowhere.
LEMMA Deeper ==
  ASSUME HSMInv, Drill \/ DrillPath \/ Settle
  PROVE  HSMInv'
<1>1. TypeOK /\ Machine /\ PathFits /\ UNCHANGED machine
  BY DEF HSMInv, Drill, DrillPath, Settle
<1>2. /\ Machine' /\ super' = super /\ initial' = initial
      /\ \A s : Upward(super', s) = Upward(super, s)
      /\ UNCHANGED <<source, goal>> => Shared' = Shared
  BY <1>1, Frame
<1>3. /\ path \in [0 .. N + 1 -> AnyNode \cup {Unset}] /\ index \in -1 .. N + 1 /\ super \in Trees
      /\ target \in AnyNode
  BY <1>1, Facts DEF TypeOK
<1>4. CASE Drill
  <2>. DEFINE t == initial[target]
  <2>1. /\ target \in Node /\ Active(target) /\ Shared \subseteq Above(target) /\ goal \in Above(target)
    BY <1>4 DEF HSMInv, AtPC, AtDrill, Drill
  <2>2. t \in AnyNode /\ t # Top /\ t # target /\ target \in Above(t)
    BY <1>1, <1>4, <2>1 DEF Machine, Drills, Drill, Above, TypeOK
  <2>3. t \in Node /\ Above(target) \subseteq Above(t)
    BY <1>1, <2>2, Facts
  <2>4. /\ temp' = t /\ path' = [path EXCEPT ![0] = t] /\ index' = 0 /\ pc' = "drillPath"
        /\ UNCHANGED <<state, source, target, goal, active>>
    BY <1>4 DEF Drill
  <2>. HIDE DEF t
  <2>5. /\ path' \in [0 .. N + 1 -> AnyNode \cup {Unset}] /\ path'[0] = t
        /\ \A i \in 0 .. N + 1 : i # 0 => path'[i] = path[i]
    BY <1>3, <2>2, <2>4
  <2>6. PathFits'
    <3>1. DOMAIN path = 0 .. N + 1 /\ DOMAIN path' = 0 .. N + 1
      BY <1>3, <2>5
    <3>. QED BY <1>1, <2>5, <3>1 DEF PathFits
  <2>7. TypeOK'
    <3>1. index' \in -1 .. N + 1
      BY <2>4
    <3>. QED BY <1>1, <1>2, <2>2, <2>4, <2>5, <3>1 DEF TypeOK, PCs
  <2>8. Chain(path', 0, super)
    BY <2>2, <2>5 DEF Chain
  <2>9. AsDeep'
    <3>1. Deepness(super, t) \in 1 .. N + 1
      BY <1>3, <2>2, TreeDepth
    <3>. QED BY <1>2, <2>4, <2>5, <3>1 DEF AsDeep
  <2>10. Active(target)' /\ Shared' \subseteq Above(target)'
    BY <1>2, <2>1, <2>4 DEF Active, Above
  <2>11. AtDrillPath'
    BY <1>2, <2>1, <2>2, <2>3, <2>4, <2>5, <2>8, <2>9, <2>10 DEF AtDrillPath, Above
  <2>. QED BY <1>2, <2>4, <2>6, <2>7, <2>11 DEF HSMInv, AtPC
<1>5. CASE DrillPath
  <2>. DEFINE up == super[path[index]]
  <2>1. /\ pc = "drillPath" /\ index >= 0 /\ path[0] \in Node /\ path[index] \in Node
        /\ goal \in Above(path[0]) /\ Chain(path, index, super) /\ AsDeep
        /\ Active(target) /\ Shared \subseteq Above(target)
        /\ target \in Above(path[index]) /\ path[index] # target
    BY <1>5 DEF HSMInv, AtPC, AtDrillPath, DrillPath
  <2>2. /\ UNCHANGED <<state, temp, source, target, goal, active>>
        /\ up = target => pc' = "enter" /\ path' = path /\ index' = index
        /\ up # target => pc' = pc /\ index' = index + 1 /\ path' = Longer(path, index, super)
    BY <1>5 DEF DrillPath, Longer
  <2>3. Shared' = Shared
    BY <1>2, <2>2
  <2>4. target \in Above(up)
    BY <1>1, <2>1, Facts
  <2>5. CASE up = target
    <3>1. TypeOK' /\ PathFits'
      BY <1>1, <1>2, <2>2, <2>5 DEF TypeOK, PCs, PathFits
    <3>2. Active(super[path[index]])' /\ Shared' \subseteq Above(super[path[index]])'
      BY <1>2, <2>1, <2>2, <2>3, <2>5 DEF Active, Above
    <3>3. ~ (index' < 0)
      BY <1>3, <2>1, <2>2, <2>5
    <3>4. AtEnter'
      BY <1>2, <2>1, <2>2, <2>5, <3>2, <3>3 DEF AtEnter, Above
    <3>. QED BY <1>2, <2>2, <2>5, <3>1, <3>4 DEF HSMInv, AtPC
  <2>6. CASE up # target
    <3>1. path' = Longer(path, index, super) /\ index' = index + 1 /\ pc' = "drillPath"
      BY <2>1, <2>2, <2>6
    <3>2. /\ index \in Nat /\ index + 1 \in -1 .. N + 1 /\ up \in AnyNode
          /\ path' \in [0 .. N + 1 -> AnyNode \cup {Unset}]
          /\ path'[index + 1] = up /\ \A k \in 0 .. index : path'[k] = path[k]
          /\ Chain(path', index + 1, super)
          /\ \A i \in 0 .. N + 1 : i >= HSM_MAX_NEST_DEPTH => path'[i] = Unset
          /\ Deepness(super, up) + (index + 1) = Deepness(super, path[0])
      BY <1>1, <2>1, <3>1, Room, Zenon
    <3>3. up \in Node
      <4>1. up # Top
        BY <1>1, <2>4, <2>6, Facts
      <4>. QED BY <1>1, <3>2, <4>1, Facts
    <3>4. PathFits'
      BY <3>2 DEF PathFits
    <3>5. TypeOK'
      BY <1>1, <1>2, <2>2, <3>1, <3>2 DEF TypeOK, PCs
    <3>6. path'[0] = path[0] /\ path'[index'] = up
      BY <3>1, <3>2
    <3>7. AsDeep'
      BY <1>2, <3>1, <3>2, <3>6 DEF AsDeep
    <3>8. Active(target)' /\ Shared' \subseteq Above(target)'
      BY <1>2, <2>1, <2>2, <2>3 DEF Active, Above
    <3>9. index' >= 0 /\ Chain(path', index', super')
      BY <1>2, <3>1, <3>2
    <3>10. AtDrillPath'
      BY <1>2, <2>1, <2>2, <2>4, <2>6, <3>3, <3>6, <3>7, <3>8, <3>9 DEF AtDrillPath, Above
    <3>. QED BY <1>2, <3>1, <3>4, <3>5, <3>10 DEF HSMInv, AtPC
  <2>. QED BY <2>5, <2>6
<1>6. CASE Settle
  <2>1. target \in Node /\ Active(target) /\ goal \in Above(target) /\ initial[target] = Top
    BY <1>6 DEF HSMInv, AtPC, AtDrill, Settle
  <2>2. /\ path' = NoPath /\ index' = -1 /\ source' = target /\ state' = target /\ temp' = target
        /\ pc' = "ready" /\ UNCHANGED <<target, goal, active>>
    BY <1>6 DEF Settle, Forget
  <2>3. path' \in [0 .. N + 1 -> AnyNode \cup {Unset}] /\ index' \in -1 .. N + 1
    BY <2>2 DEF NoPath
  <2>4. TypeOK'
    BY <1>1, <1>2, <2>2, <2>3 DEF TypeOK, PCs
  <2>5. PathFits'
    BY <2>2 DEF PathFits, NoPath
  <2>6. AtReady'
    BY <1>2, <2>1, <2>2 DEF AtReady, Active, Above
  <2>. QED BY <1>2, <2>2, <2>4, <2>5, <2>6 DEF HSMInv, AtPC
<1>. QED BY <1>4, <1>5, <1>6

LEMMA StepInv == HSMInv /\ [Next]_vars => HSMInv'
<1>. SUFFICES ASSUME HSMInv, [Next]_vars PROVE HSMInv'
  OBVIOUS
<1>1. CASE UNCHANGED vars
  <2>1. /\ super' = super /\ initial' = initial /\ pc' = pc /\ state' = state /\ temp' = temp
        /\ source' = source /\ target' = target /\ path' = path /\ index' = index
        /\ goal' = goal /\ active' = active
    BY <1>1 DEF vars
  <2>2. TypeOK' /\ Machine' /\ PathFits'
    BY <2>1 DEF HSMInv, TypeOK, Machine, PathFits
  <2>3. Shared' = Shared /\ \A s : Upward(super', s) = Upward(super, s)
    BY <2>1 DEF Shared, Above
  <2>4. /\ AtReady => AtReady'
        /\ AtDispatch => AtDispatch'
        /\ AtExit => AtExit'
        /\ AtClassify => AtClassify'
    BY <2>1 DEF AtReady, AtDispatch, AtExit, AtClassify, Active, Above
  <2>5. AsDeep => AsDeep'
    BY <2>1 DEF AsDeep
  <2>6. AtClimb => AtClimb'
    BY <2>1, <2>5 DEF AtClimb, Active, Above
  <2>7. /\ AtSearch => AtSearch'
        /\ AtEnter => AtEnter'
        /\ AtDrill => AtDrill'
        /\ AtDrillPath => AtDrillPath'
    BY <2>1, <2>3, <2>5 DEF AtSearch, AtEnter, AtDrill, AtDrillPath, Active, Above
  <2>. QED BY <2>1, <2>2, <2>4, <2>6, <2>7 DEF HSMInv, AtPC
<1>. QED BY <1>1, SearchHandler, Leave, Simple, StorePath, FindLCA, Arrive, Deeper DEF Next, Handle

----------------------------------------------------------------------------
\* The configuration of the invariant, whatever the loop.
LEMMA SomeConfiguration ==
  ASSUME HSMInv
  PROVE  \E s \in AnyNode : Active(s) /\ (pc \in PCs \ {"ready", "dispatch"} => Shared \subseteq Above(s))
<1>1. TypeOK /\ Machine /\ super \in Trees
  BY Facts DEF HSMInv
<1>2. state \in AnyNode /\ source \in AnyNode /\ target \in AnyNode /\ pc \in PCs /\ index \in Int
  BY <1>1 DEF TypeOK
<1>3. Shared \subseteq Above(source)
  BY DEF Shared
<1>4. CASE pc \in {"ready", "dispatch"}
  <2>1. Active(state)
    BY <1>4 DEF HSMInv, AtPC, AtReady, AtDispatch
  <2>. QED BY <1>2, <1>4, <2>1
<1>5. CASE pc = "exit"
  <2>1. Active(target) /\ Above(source) \subseteq Above(target)
    BY <1>1, <1>2, <1>5, Facts DEF HSMInv, AtPC, AtExit
  <2>. QED BY <1>2, <1>3, <2>1
<1>6. CASE pc \in {"classify", "climb"}
  <2>1. Active(source)
    BY <1>6 DEF HSMInv, AtPC, AtClassify, AtClimb
  <2>. QED BY <1>2, <1>3, <2>1
<1>7. CASE pc \in {"search", "drill", "drillPath"}
  <2>1. Active(target) /\ Shared \subseteq Above(target)
    BY <1>7 DEF HSMInv, AtPC, AtSearch, AtDrill, AtDrillPath
  <2>. QED BY <1>2, <2>1
<1>8. CASE pc = "enter"
  <2>1. AtEnter
    BY <1>8 DEF HSMInv, AtPC
  <2>2. CASE index >= 0
    <3>1. /\ path[index] \in Node /\ Active(super[path[index]])
          /\ Shared \subseteq Above(super[path[index]])
      BY <2>1, <2>2 DEF AtEnter
    <3>2. super[path[index]] \in AnyNode
      BY <1>1, <3>1, Facts
    <3>. QED BY <3>1, <3>2
  <2>3. CASE ~ (index >= 0)
    <3>1. index < 0
      BY <1>2, <2>3
    <3>2. Active(path[0]) /\ Shared \subseteq Above(path[0]) /\ path[0] \in AnyNode
      BY <1>1, <2>1, <3>1, Facts DEF AtEnter
    <3>. QED BY <3>2
  <2>. QED BY <2>2, <2>3
<1>. QED BY <1>2, <1>4, <1>5, <1>6, <1>7, <1>8 DEF PCs

LEMMA Always == Spec => []HSMInv
BY InitInv, StepInv, PTL DEF Spec

\* In every machine, between any two handler calls of handleEvent() and init()
\* the active states are a state and all its superstates, each entered once.
THEOREM StatesNest == Spec => []Nested
<1>1. HSMInv => Nested
  BY SomeConfiguration DEF Nested, Active, Configuration, Above
<1>. QED BY <1>1, Always, PTL

\* When handleEvent() returns, exactly the current state and its superstates are
\* active and the next event goes to the current state.
THEOREM HandlingSettles == Spec => []Settled
<1>1. HSMInv => Settled
  <2>. SUFFICES ASSUME HSMInv, pc = "ready"
                PROVE  (\A n \in AnyNode : active[n] = 1 <=> n \in Above(state)) /\ temp = state
    BY DEF Settled
  <2>1. Configuration(active, super, state) /\ temp = state
    BY DEF HSMInv, AtPC, AtReady, Active
  <2>. QED BY <2>1 DEF Configuration, Above
<1>. QED BY <1>1, Always, PTL

\* A transition ends in its target or, by EV_INIT, in a substate of it that has no
\* EV_INIT of its own.
THEOREM TransitionsArrive == Spec => []ReachesGoal
<1>1. HSMInv => ReachesGoal
  BY DEF HSMInv, AtPC, AtReady, ReachesGoal
<1>. QED BY <1>1, Always, PTL

\* The states that contain both ends of a transition are never exited by it: the
\* least common ancestor that handleEvent() finds is the right one in all of its
\* cases (A) to (G).
THEOREM SharedStatesStay == Spec => []CommonStatesKept
<1>1. HSMInv => CommonStatesKept
  <2>. SUFFICES ASSUME HSMInv, pc \in PCs \ {"ready", "dispatch"}, NEW n \in Shared
                PROVE  active[n] = 1
    BY DEF CommonStatesKept
  <2>1. PICK s \in AnyNode : Active(s) /\ Shared \subseteq Above(s)
    BY SomeConfiguration
  <2>2. n \in Above(s) /\ n \in AnyNode
    BY <2>1, Facts DEF HSMInv
  <2>. QED BY <2>1, <2>2 DEF Active, Configuration, Above
<1>. QED BY <1>1, Always, PTL

\* path[] never overflows in a machine that is no deeper than HSM_MAX_NEST_DEPTH.
THEOREM PathIsLongEnough == Spec => []PathFits
<1>1. HSMInv => PathFits
  BY DEF HSMInv
<1>. QED BY <1>1, Always, PTL

----------------------------------------------------------------------------
\* handleEvent() ends: what it still has to do is measured by three numbers, each
\* of which counts only as long as those before it stay the same.  First the loop
\* that is running: control never goes back to an earlier one, except that
\* "enter", "drill" and "drillPath" follow each other until EV_INIT leads nowhere.
Stage == CASE pc = "dispatch" -> 6
           [] pc = "exit" -> 5
           [] pc = "classify" -> 4
           [] pc = "climb" -> 3
           [] pc = "search" -> 2
           [] pc \in {"enter", "drill", "drillPath"} -> 1
           [] pc = "ready" -> 0

\* Then, for these three, the states that EV_INIT may still lead to: each EV_INIT
\* leads further down, that is, to a greater number.
Below == CASE pc \in {"enter", "drillPath"} -> N - path[0]
           [] pc = "drill" -> N - target
           [] OTHER -> 0

\* Last, the states the loop may still pass: it goes up, to smaller numbers, or
\* back along the path.
Ahead == CASE pc = "dispatch" -> source
           [] pc \in {"exit", "search"} -> target
           [] pc = "climb" -> path[index]
           [] pc = "drillPath" -> N + 4 + path[index]
           [] pc = "enter" -> index + 2
           [] OTHER -> 0

Measured == Stage \in Nat /\ Below \in Nat /\ Ahead \in Nat

Smaller == \/ Stage' < Stage
           \/ Stage' = Stage /\ Below' < Below
           \/ Stage' = Stage /\ Below' = Below /\ Ahead' < Ahead

LEMMA MeasuredInv == HSMInv => Measured
<1>. SUFFICES ASSUME HSMInv PROVE Measured
  OBVIOUS
<1>1. /\ TypeOK /\ N \in Nat /\ pc \in PCs /\ source \in 0 .. N /\ target \in 0 .. N
      /\ index \in -1 .. N + 1
  BY SizesAssumption DEF HSMInv, TypeOK, AnyNode
<1>2. pc \in {"enter", "drillPath"} => path[0] \in 1 .. N
  BY DEF HSMInv, AtPC, AtEnter, AtDrillPath, Node
<1>3. pc \in {"climb", "drillPath"} => path[index] \in 0 .. N
  <2>1. pc = "climb" => path[index] \in AnyNode
    BY <1>1 DEF HSMInv, AtPC, AtClimb, Chain
  <2>2. pc = "drillPath" => path[index] \in Node
    BY DEF HSMInv, AtPC, AtDrillPath
  <2>. QED BY <2>1, <2>2 DEF Node, AnyNode
<1>4. Stage \in Nat
  BY <1>1 DEF Stage, PCs
<1>5. Below \in Nat
  BY <1>1, <1>2 DEF Below
<1>6. Ahead \in Nat
  BY <1>1, <1>3 DEF Ahead
<1>. QED BY <1>4, <1>5, <1>6 DEF Measured

\* A step into a later loop.
LEMMA NextLoop ==
  ASSUME HSMInv, NoTransition \/ TakeTransition \/ AtSource \/ CaseA \/ CaseB \/ CaseC \/ CaseD
                 \/ CaseE \/ ClimbedToTop \/ FoundLCA \/ Settle
  PROVE  Stage' < Stage
BY DEF Stage, NoTransition, TakeTransition, AtSource, CaseA, CaseB, CaseC, CaseD, CaseE,
       ClimbedToTop, FoundLCA, Settle

\* A step within a loop that follows the superstates.
LEMMA FurtherUp ==
  ASSUME HSMInv, PassUp \/ ExitToSource \/ ExitFurther \/ Climb
  PROVE  Smaller
<1>1. Machine /\ TypeOK /\ super \in Trees /\ N \in Nat
  BY Facts, SizesAssumption DEF HSMInv
<1>2. \A s \in Node : super[s] \in Nat /\ super[s] < s
  <2>1. TAKE s \in Node
  <2>2. super[s] \in 0 .. s - 1 /\ s \in Nat
    BY <1>1, TreeOrder DEF Node
  <2>. QED BY <2>2
<1>3. CASE PassUp
  <2>1. source \in Node /\ source' = super[source] /\ pc = "dispatch" /\ pc' = "dispatch"
    BY <1>1, <1>3, Facts DEF PassUp, TypeOK
  <2>2. Stage' = Stage /\ Below' = Below
    BY <2>1 DEF Stage, Below
  <2>3. Ahead' = super[source] /\ Ahead = source
    BY <2>1 DEF Ahead
  <2>. QED BY <1>2, <2>1, <2>2, <2>3 DEF Smaller
<1>4. CASE ExitToSource
  <2>1. target \in Node
    <3>1. source \in Above(target) /\ source \in Node /\ target # source /\ target \in AnyNode
      BY <1>1, <1>4 DEF HSMInv, AtPC, AtExit, ExitToSource, TypeOK
    <3>2. Top \notin Node
      BY DEF Top, Node
    <3>. QED BY <1>1, <3>1, <3>2, Facts
  <2>2. target' = super[target] /\ pc = "exit" /\ pc' = "exit"
    BY <1>4 DEF ExitToSource
  <2>3. Stage' = Stage /\ Below' = Below
    BY <2>2 DEF Stage, Below
  <2>4. Ahead' = super[target] /\ Ahead = target
    BY <2>2 DEF Ahead
  <2>. QED BY <1>2, <2>1, <2>3, <2>4 DEF Smaller
<1>5. CASE ExitFurther
  <2>1. target \in Node
    <3>1. /\ path[index] = Top /\ index >= 1 /\ OnPath = {} /\ target \in AnyNode
          /\ index \in -1 .. N + 1
      BY <1>1, <1>5 DEF HSMInv, AtPC, AtSearch, ExitFurther, TypeOK
    <3>2. index \in 0 .. index
      BY <3>1
    <3>3. target # Top
      BY <3>1, <3>2 DEF OnPath
    <3>. QED BY <1>1, <3>1, <3>3, Facts
  <2>2. target' = super[target] /\ pc = "search" /\ pc' = "search"
    BY <1>5 DEF ExitFurther
  <2>3. Stage' = Stage /\ Below' = Below
    BY <2>2 DEF Stage, Below
  <2>4. Ahead' = super[target] /\ Ahead = target
    BY <2>2 DEF Ahead
  <2>. QED BY <1>2, <2>1, <2>3, <2>4 DEF Smaller
<1>6. CASE Climb
  <2>. DEFINE up == super[path[index]]
  <2>1. /\ pc = "climb" /\ path[index] # Top /\ index >= 1 /\ Chain(path, index, super)
        /\ index \in -1 .. N + 1 /\ path \in [0 .. N + 1 -> AnyNode \cup {Unset}]
    BY <1>1, <1>6 DEF HSMInv, AtPC, AtClimb, Climb, TypeOK
  <2>2. path[index] \in Node
    <3>1. index \in 0 .. index
      BY <2>1
    <3>2. path[index] \in AnyNode
      BY <2>1, <3>1 DEF Chain
    <3>. QED BY <1>1, <2>1, <3>2, Facts
  <2>3. CASE pc' = "enter"
    BY <2>1, <2>3 DEF Smaller, Stage
  <2>4. CASE pc' # "enter"
    <3>1. pc' = "climb" /\ index' = index + 1 /\ path' = [path EXCEPT ![index + 1] = up]
      BY <1>6, <2>1, <2>4 DEF Climb
    <3>2. index + 1 \in 0 .. N + 1
      <4>1. PathFits /\ index >= 0 /\ AsDeep /\ path[0] \in Node
        BY <2>1 DEF HSMInv, AtPC, AtClimb
      <4>2. index \in Nat /\ index + 1 \in -1 .. N + 1
        BY <1>1, <2>1, <2>2, <4>1, Room
      <4>. QED BY <4>2
    <3>3. path'[index'] = up
      BY <2>1, <3>1, <3>2
    <3>4. Stage' = Stage /\ Below' = Below
      BY <2>1, <3>1 DEF Stage, Below
    <3>5. Ahead' = up /\ Ahead = path[index]
      BY <2>1, <3>1, <3>3 DEF Ahead
    <3>. QED BY <1>2, <2>2, <3>4, <3>5 DEF Smaller
  <2>. QED BY <2>3, <2>4
<1>. QED BY <1>3, <1>4, <1>5, <1>6

\* The steps by which the target, and where EV_INIT leads, is entered.
LEMMA FurtherDown ==
  ASSUME HSMInv, Enter \/ Entered \/ Drill \/ DrillPath
  PROVE  Smaller
<1>1. /\ Machine /\ TypeOK /\ super \in Trees /\ N \in Nat /\ index \in -1 .. N + 1
      /\ path \in [0 .. N + 1 -> AnyNode \cup {Unset}] /\ target \in AnyNode
  BY Facts, SizesAssumption DEF HSMInv, TypeOK
<1>2. CASE Enter
  <2>1. pc = "enter" /\ pc' = "enter" /\ index' = index - 1 /\ path' = path
    BY <1>2 DEF Enter
  <2>2. Stage' = Stage /\ Below' = Below
    BY <2>1 DEF Stage, Below
  <2>3. Ahead' = (index - 1) + 2 /\ Ahead = index + 2
    BY <2>1 DEF Ahead
  <2>. QED BY <1>1, <2>2, <2>3 DEF Smaller
<1>3. CASE Entered
  <2>1. pc = "enter" /\ pc' = "drill" /\ target' = path[0] /\ path' = path
    BY <1>3 DEF Entered
  <2>2. Stage' = Stage /\ Below' = Below
    BY <2>1 DEF Stage, Below
  <2>3. Ahead' = 0 /\ Ahead = index + 2
    BY <2>1 DEF Ahead
  <2>. QED BY <1>1, <2>2, <2>3 DEF Smaller
<1>4. CASE Drill
  <2>. DEFINE t == initial[target]
  <2>1. target \in Node /\ pc = "drill" /\ pc' = "drillPath" /\ path' = [path EXCEPT ![0] = t]
    BY <1>4 DEF HSMInv, AtPC, AtDrill, Drill
  <2>2. t \in AnyNode /\ t # target /\ target \in Upward(super, t)
    BY <1>1, <1>4, <2>1 DEF Machine, Drills, Drill, TypeOK
  <2>3. Upward(super, t) \subseteq 0 .. t
    BY <1>1, <2>2, TreeOrder
  <2>. HIDE DEF t
  <2>4. t \in 0 .. N /\ target \in 0 .. N /\ target < t
    BY <1>1, <2>2, <2>3 DEF AnyNode
  <2>5. 0 \in 0 .. N + 1
    BY <1>1
  <2>6. path'[0] = t
    BY <1>1, <2>1, <2>5
  <2>7. Below' = N - t /\ Below = N - target /\ Stage' = Stage
    BY <2>1, <2>6 DEF Below, Stage
  <2>. QED BY <1>1, <2>4, <2>7 DEF Smaller
<1>5. CASE DrillPath
  <2>. DEFINE up == super[path[index]]
  <2>1. /\ pc = "drillPath" /\ index >= 0 /\ path[0] \in Node /\ path[index] \in Node
        /\ Chain(path, index, super) /\ AsDeep /\ PathFits
    BY <1>5 DEF HSMInv, AtPC, AtDrillPath, DrillPath
  <2>2. up \in Nat /\ up < path[index] /\ path[index] \in Nat
    <3>. DEFINE s == path[index]
    <3>1. super[s] \in 0 .. s - 1 /\ s \in Nat
      BY <1>1, <2>1, TreeOrder DEF Node
    <3>. HIDE DEF s
    <3>2. super[s] \in Nat /\ super[s] < s
      BY <3>1
    <3>. QED BY <3>1, <3>2 DEF s
  <2>3. index \in Nat /\ index + 1 \in -1 .. N + 1
    BY <1>1, <2>1, Room
  <2>4. CASE up = target
    <3>1. pc' = "enter" /\ path' = path /\ index' = index
      BY <1>5, <2>4 DEF DrillPath
    <3>2. Stage' = Stage /\ Below' = Below
      BY <2>1, <3>1 DEF Stage, Below
    <3>3. Ahead' = index + 2 /\ Ahead = N + 4 + path[index]
      BY <2>1, <3>1 DEF Ahead
    <3>. QED BY <1>1, <2>2, <2>3, <3>2, <3>3 DEF Smaller
  <2>5. CASE up # target
    <3>1. pc' = "drillPath" /\ index' = index + 1 /\ path' = [path EXCEPT ![index + 1] = up]
      BY <1>5, <2>1, <2>5 DEF DrillPath
    <3>2. index + 1 \in 0 .. N + 1 /\ 0 \in 0 .. N + 1 /\ index + 1 # 0
      BY <2>3, <1>1
    <3>3. path'[index'] = up /\ path'[0] = path[0]
      BY <1>1, <3>1, <3>2
    <3>4. Stage' = Stage /\ Below' = Below
      BY <2>1, <3>1, <3>3 DEF Stage, Below
    <3>5. Ahead' = N + 4 + up /\ Ahead = N + 4 + path[index]
      BY <2>1, <3>1, <3>3 DEF Ahead
    <3>. HIDE DEF up
    <3>. QED BY <1>1, <2>2, <3>4, <3>5 DEF Smaller
  <2>. QED BY <2>4, <2>5
<1>. QED BY <1>2, <1>3, <1>4, <1>5

\* handleEvent() cannot run forever: in every machine, whatever its handlers
\* answer, each step of it makes three natural numbers smaller, in lexicographic
\* order.  (With the thread scheduled, this is why HandlingEnds holds.)
THEOREM HandlingIsFinite == Spec => []Measured /\ [][Handle => Smaller]_vars
<1>1. HSMInv /\ [Next]_vars => [Handle => Smaller]_vars
  <2>. SUFFICES ASSUME HSMInv, Handle PROVE Smaller
    OBVIOUS
  <2>1. CASE PassUp \/ ExitToSource \/ ExitFurther \/ Climb
    BY <2>1, FurtherUp
  <2>2. CASE Enter \/ Entered \/ Drill \/ DrillPath
    BY <2>2, FurtherDown
  <2>3. CASE NoTransition \/ TakeTransition \/ AtSource \/ CaseA \/ CaseB \/ CaseC \/ CaseD
             \/ CaseE \/ ClimbedToTop \/ FoundLCA \/ Settle
    BY <2>3, NextLoop DEF Smaller
  <2>. QED BY <2>1, <2>2, <2>3 DEF Handle
<1>. QED BY <1>1, Always, MeasuredInv, PTL DEF Spec
=============================================================================
