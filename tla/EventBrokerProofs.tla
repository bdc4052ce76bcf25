-------------------------- MODULE EventBrokerProofs --------------------------
(***************************************************************************)
(* Proofs about EventBroker, for every set of threads, topics and handlers: *)
(* no post() calls a deleted handler, all handlers see the events in one    *)
(* order, and a post() calls each handler once per subscription.            *)
(***************************************************************************)
EXTENDS EventBroker, TLAPS, WellFoundedInduction, FiniteSetTheorems

USE BoundsAssumption, NoThreadAssumption

\* Induction: a set of numbers that is not empty has a least element.
LEMMA LeastNumber ==
  ASSUME NEW T \in SUBSET Nat, T # {}
  PROVE  \E x \in T : \A y \in T : x <= y
<1>. DEFINE R == OpToRel(<, Nat)
<1>1. IsWellFoundedOn(R, Nat)
  BY NatLessThanWellFounded
<1>2. \A x, y \in Nat : <<x, y>> \in R <=> x < y
  BY DEF OpToRel
<1>. HIDE DEF R
<1>3. PICK x \in T : \A y \in T : ~ (<<y, x>> \in R)
  BY <1>1, WFMin
<1>4. x \in Nat /\ \A y \in T : y \in Nat /\ ~ (y < x)
  BY <1>2, <1>3
<1>5. \A y \in T : x <= y
  BY <1>4
<1>. QED BY <1>5

\* f holds what deleteSubscriber() keeps of the first 0 .. n entries.
Keeps(subs, h, f, n) ==
  f = [it \in 0 .. n |-> IF it = 0 THEN << >>
                         ELSE IF subs[it] = h THEN f[it - 1]
                         ELSE Append(f[it - 1], subs[it])]

LEMMA KeepsExists ==
  ASSUME NEW subs, NEW h, NEW n \in Nat
  PROVE  \E f : Keeps(subs, h, f, n)
<1>. DEFINE T == {m \in Nat : ~ \E f : Keeps(subs, h, f, m)}
<1>1. SUFFICES ASSUME T # {} PROVE FALSE
  OBVIOUS
<1>2. PICK m \in T : \A y \in T : m <= y
  <2>1. T \in SUBSET Nat
    OBVIOUS
  <2>. HIDE DEF T
  <2>. QED BY <1>1, <2>1, LeastNumber
<1>3. Keeps(subs, h, [it \in 0 .. 0 |-> << >>], 0)
  BY DEF Keeps
<1>4. m \in Nat /\ m # 0
  BY <1>3
<1>5. m - 1 \in Nat /\ m - 1 \notin T
  BY <1>2, <1>4
<1>6. PICK f : Keeps(subs, h, f, m - 1)
  BY <1>5
<1>. DEFINE last == IF subs[m] = h THEN f[m - 1] ELSE Append(f[m - 1], subs[m])
            g == [it \in 0 .. m |-> IF it = m THEN last ELSE f[it]]
<1>7. \A i \in 0 .. m - 1 : g[i] = f[i]
  BY <1>4
<1>8. \A i \in 0 .. m : g[i] = IF i = 0 THEN << >>
                               ELSE IF subs[i] = h THEN g[i - 1] ELSE Append(g[i - 1], subs[i])
  <2>1. TAKE i \in 0 .. m
  <2>2. CASE i = m
    BY <2>2, <1>4, <1>7
  <2>3. CASE i # m
    <3>1. i \in 0 .. m - 1 /\ (i # 0 => i - 1 \in 0 .. m - 1)
      BY <2>3, <1>4
    <3>2. f[i] = IF i = 0 THEN << >>
                 ELSE IF subs[i] = h THEN f[i - 1] ELSE Append(f[i - 1], subs[i])
      BY <1>6, <3>1 DEF Keeps
    <3>. QED BY <3>1, <3>2, <1>7
  <2>. QED BY <2>2, <2>3
<1>9. Keeps(subs, h, g, m)
  <2>1. g = [it \in 0 .. m |-> g[it]]
    OBVIOUS
  <2>. HIDE DEF g
  <2>. QED BY <1>8, <2>1 DEF Keeps
<1>. QED BY <1>2, <1>9

\* What s holds is in S, is not h, and is no longer than n.
Cleared(s, S, h, n) == /\ s \in Seq(S) /\ Len(s) <= n
                       /\ \A i \in 1 .. Len(s) : s[i] # h

LEMMA ClearedAppend ==
  ASSUME NEW S, NEW h, NEW n \in Nat, NEW s, Cleared(s, S, h, n), NEW e \in S, e # h
  PROVE  Cleared(Append(s, e), S, h, n + 1)
<1>1. /\ s \in Seq(S) /\ Len(s) \in Nat /\ Len(s) <= n
      /\ \A i \in 1 .. Len(s) : s[i] # h
  BY DEF Cleared
<1>2. /\ Append(s, e) \in Seq(S) /\ Len(Append(s, e)) = Len(s) + 1
      /\ \A i \in 1 .. Len(s) : Append(s, e)[i] = s[i]
      /\ Append(s, e)[Len(s) + 1] = e
  BY <1>1
<1>. QED BY <1>1, <1>2 DEF Cleared

LEMMA KeepsCleared ==
  ASSUME NEW S, NEW subs \in Seq(S), NEW h, NEW f, Keeps(subs, h, f, Len(subs))
  PROVE  Cleared(f[Len(subs)], S, h, Len(subs))
<1>. DEFINE N == Len(subs)
            T == {m \in 0 .. N : ~ Cleared(f[m], S, h, m)}
<1>1. N \in Nat
  OBVIOUS
<1>2. SUFFICES ASSUME T # {} PROVE FALSE
  BY <1>1
<1>3. PICK m \in T : \A y \in T : m <= y
  <2>1. T \in SUBSET Nat
    BY <1>1
  <2>. HIDE DEF T
  <2>. QED BY <1>2, <2>1, LeastNumber
<1>4. m \in 0 .. N /\ ~ Cleared(f[m], S, h, m)
  OBVIOUS
<1>5. \A i \in 0 .. N : f[i] = IF i = 0 THEN << >>
                               ELSE IF subs[i] = h THEN f[i - 1] ELSE Append(f[i - 1], subs[i])
  BY <1>1 DEF Keeps
<1>6. m # 0
  <2>1. Cleared(<< >>, S, h, 0)
    BY DEF Cleared
  <2>. QED BY <1>1, <1>4, <1>5, <2>1
<1>7. m - 1 \in 0 .. N /\ m - 1 \notin T /\ m \in 1 .. N
  BY <1>1, <1>3, <1>4, <1>6
<1>8. Cleared(f[m - 1], S, h, m - 1)
  BY <1>7
<1>9. CASE subs[m] = h
  BY <1>5, <1>4, <1>6, <1>7, <1>8, <1>9 DEF Cleared
<1>10. CASE subs[m] # h
  <2>1. f[m] = Append(f[m - 1], subs[m])
    BY <1>5, <1>4, <1>6, <1>10
  <2>2. subs[m] \in S /\ m - 1 \in Nat /\ (m - 1) + 1 = m
    BY <1>7
  <2>3. Cleared(f[m], S, h, (m - 1) + 1)
    BY <1>8, <1>10, <2>1, <2>2, ClearedAppend
  <2>. QED BY <1>4, <2>2, <2>3
<1>. QED BY <1>9, <1>10

\* deleteSubscriber() leaves no entry of h, adds none, and shortens the vector.
LEMMA DeleteSubscriber ==
  ASSUME NEW S, NEW subs \in Seq(S), NEW h
  PROVE  /\ deleteSubscriber(subs, h) \in Seq(S)
         /\ Len(deleteSubscriber(subs, h)) <= Len(subs)
         /\ \A i \in 1 .. Len(deleteSubscriber(subs, h)) : deleteSubscriber(subs, h)[i] # h
<1>1. Len(subs) \in Nat
  OBVIOUS
<1>2. PICK g : Keeps(subs, h, g, Len(subs))
  BY <1>1, KeepsExists
<1>. DEFINE k == CHOOSE f : Keeps(subs, h, f, Len(subs))
<1>3. Keeps(subs, h, k, Len(subs))
  BY <1>2
<1>4. deleteSubscriber(subs, h) = k[Len(subs)]
  BY DEF deleteSubscriber, Keeps
<1>. HIDE DEF k
<1>. QED BY <1>3, <1>4, KeepsCleared DEF Cleared
----------------------------------------------------------------------------
\* The positions of x among the first n of s, and how many there are.
Positions(s, x, n) == {i \in 1 .. n : s[i] = x}

LEMMA PositionsGrow ==
  ASSUME NEW s, NEW x, NEW n \in Nat
  PROVE  /\ Cardinality(Positions(s, x, 0)) = 0
         /\ Cardinality(Positions(s, x, n)) \in Nat
         /\ Cardinality(Positions(s, x, n + 1)) =
              Cardinality(Positions(s, x, n)) + IF s[n + 1] = x THEN 1 ELSE 0
<1>1. Positions(s, x, 0) = {}
  BY DEF Positions
<1>2. IsFiniteSet(Positions(s, x, n))
  <2>1. IsFiniteSet(1 .. n)
    BY FS_Interval
  <2>2. Positions(s, x, n) \in SUBSET (1 .. n)
    BY DEF Positions
  <2>. QED BY <2>1, <2>2, FS_Subset
<1>3. n + 1 \notin Positions(s, x, n)
  BY DEF Positions
<1>4. Positions(s, x, n + 1) = Positions(s, x, n) \cup (IF s[n + 1] = x THEN {n + 1} ELSE {})
  BY DEF Positions
<1>5. Cardinality(Positions(s, x, n)) \in Nat
  BY <1>2, FS_CardinalityType
<1>6. CASE s[n + 1] = x
  <2>1. Positions(s, x, n + 1) = Positions(s, x, n) \cup {n + 1}
    BY <1>4, <1>6
  <2>. DEFINE ps == Positions(s, x, n)
  <2>2. Cardinality(ps \cup {n + 1}) = Cardinality(ps) + 1
    <3>1. IsFiniteSet(ps) /\ n + 1 \notin ps
      BY <1>2, <1>3
    <3>. HIDE DEF ps
    <3>. QED BY <3>1, FS_AddElement
  <2>3. Cardinality(Positions(s, x, n + 1)) = Cardinality(Positions(s, x, n)) + 1
    BY <2>1, <2>2
  <2>4. Cardinality(Positions(s, x, 0)) = 0
    BY <1>1, FS_EmptySet
  <2>. QED BY <1>5, <1>6, <2>3, <2>4
<1>7. CASE s[n + 1] # x
  <2>1. Positions(s, x, n + 1) = Positions(s, x, n)
    BY <1>4, <1>7
  <2>2. Cardinality(Positions(s, x, 0)) = 0
    BY <1>1, FS_EmptySet
  <2>. QED BY <1>5, <1>7, <2>1, <2>2
<1>. QED BY <1>6, <1>7

----------------------------------------------------------------------------
\* Whoever is inside post() holds the mutex, and its event is the latest.
Exclusive == \A th \in DOMAIN calls : mtx_subscribers = th /\ calls[th].ev = posts

\* Every subscriber is alive, and no vector exceeds the bound.
Live == \A t \in DOMAIN subscribers :
          subscribers[t] \in Seq(alive) /\ Len(subscribers[t]) <= MaxSubscriptions

\* The iterator of a post() stops behind the last entry.
InRange == \A th \in DOMAIN calls : calls[th].it <= Len(Subs(calls[th].topic)) + 1

\* A handler's events come in the order in which post() took the mutex.
Ordered == \A h \in Handlers :
             /\ \A i, j \in 1 .. Len(received[h]) : i < j => received[h][i] <= received[h][j]
             /\ \A i \in 1 .. Len(received[h]) : received[h][i] <= posts

\* A post() under way has called each handler once for each entry it has passed.
FannedOut == \A th \in DOMAIN calls : \A h \in Handlers :
               Copies(h, calls[th].ev)
                 = Cardinality(Positions(Subs(calls[th].topic), h, calls[th].it - 1))

BrokerInv == TypeOK /\ Exclusive /\ Live /\ InRange /\ Ordered /\ FannedOut

----------------------------------------------------------------------------
\* The vector that post() iterates over.
LEMMA SubsType ==
  ASSUME TypeOK, Live, NEW t
  PROVE  /\ Subs(t) \in Seq(Handlers) /\ Subs(t) \in Seq(alive)
         /\ Len(Subs(t)) \in Nat /\ Len(Subs(t)) <= MaxSubscriptions
<1>1. CASE t \in DOMAIN subscribers
  BY <1>1 DEF TypeOK, Live, Subs
<1>2. CASE t \notin DOMAIN subscribers
  BY <1>2 DEF Subs
<1>. QED BY <1>1, <1>2

LEMMA CallType ==
  ASSUME TypeOK, NEW th \in DOMAIN calls
  PROVE  /\ th \in Threads /\ calls[th] \in Call
         /\ calls[th].ev \in 1 .. MaxPosts /\ calls[th].topic \in Topics
         /\ calls[th].it \in 1 .. MaxSubscriptions + 1
BY DEF TypeOK, Call, Range

\* Nobody is inside post() when the mutex is free, and only one thread ever is.
LEMMA Idle ==
  ASSUME TypeOK, Exclusive, Free
  PROVE  DOMAIN calls = {}
BY CallType DEF Exclusive, Free

LEMMA Alone ==
  ASSUME Exclusive, NEW th \in DOMAIN calls
  PROVE  DOMAIN calls = {th}
BY DEF Exclusive

LEMMA BrokerInit == Init => BrokerInv
<1>. SUFFICES ASSUME Init PROVE BrokerInv
  OBVIOUS
<1>1. DOMAIN subscribers = {} /\ DOMAIN calls = {}
  BY DEF Init, NoFunction
<1>2. received = [h \in Handlers |-> << >>] /\ alive = Handlers /\ posts = 0 /\ mtx_subscribers = NoThread
  BY DEF Init
<1>3. TypeOK
  BY <1>1, <1>2 DEF TypeOK, Range
<1>4. Exclusive /\ Live /\ InRange /\ FannedOut
  BY <1>1 DEF Exclusive, Live, InRange, FannedOut
<1>5. Ordered
  BY <1>2 DEF Ordered
<1>. QED BY <1>3, <1>4, <1>5 DEF BrokerInv

\* post() takes the mutex: no handler can have the new event yet.
LEMMA PostKeeps ==
  ASSUME BrokerInv, NEW th \in Threads, NEW t \in Topics, post(th, t)
  PROVE  BrokerInv'
<1>. DEFINE c == [ev |-> posts + 1, topic |-> t, it |-> 1]
<1>1. TypeOK /\ Exclusive /\ Live /\ Ordered
  BY DEF BrokerInv
<1>2. DOMAIN calls = {}
  BY <1>1, Idle DEF post
<1>3. DOMAIN calls' = {th} /\ calls'[th] = c
  BY <1>2 DEF post, With
<1>4. /\ posts' = posts + 1 /\ posts' \in 1 .. MaxPosts /\ posts \in Nat /\ mtx_subscribers' = th
      /\ UNCHANGED <<subscribers, alive, received>>
  BY <1>1 DEF post, TypeOK
<1>5. TypeOK'
  <2>1. c \in Call
    BY <1>4 DEF Call
  <2>2. Range(calls)' \subseteq Call
    BY <1>3, <2>1 DEF Range
  <2>. QED BY <1>1, <1>3, <1>4, <2>2 DEF TypeOK
<1>6. Exclusive'
  BY <1>3, <1>4 DEF Exclusive
<1>7. Live'
  BY <1>1, <1>4 DEF Live
<1>8. InRange'
  <2>1. Subs(t)' = Subs(t)
    BY <1>4 DEF Subs
  <2>. QED BY <1>1, <1>3, <2>1, SubsType DEF InRange
<1>9. Ordered'
  <2>1. SUFFICES ASSUME NEW h \in Handlers
                 PROVE  /\ \A i, j \in 1 .. Len(received[h]) : i < j => received[h][i] <= received[h][j]
                        /\ \A i \in 1 .. Len(received[h]) : received[h][i] <= posts + 1
    BY <1>4 DEF Ordered
  <2>2. received[h] \in Seq(1 .. MaxPosts)
    BY <1>1 DEF TypeOK
  <2>3. \A i \in 1 .. Len(received[h]) : received[h][i] \in Nat /\ received[h][i] <= posts
    BY <1>1, <2>2 DEF Ordered
  <2>. QED BY <1>1, <1>4, <2>3 DEF Ordered
<1>10. FannedOut'
  <2>1. SUFFICES ASSUME NEW h \in Handlers
                 PROVE  Cardinality({i \in 1 .. Len(received[h]) : received[h][i] = posts + 1})
                          = Cardinality(Positions(Subs(t)', h, 0))
    <3>1. calls'[th].ev = posts + 1 /\ calls'[th].topic = t /\ calls'[th].it - 1 = 0
      BY <1>3
    <3>. QED BY <1>3, <1>4, <3>1 DEF FannedOut, Copies
  <2>2. received[h] \in Seq(1 .. MaxPosts)
    BY <1>1 DEF TypeOK
  <2>3. \A i \in 1 .. Len(received[h]) : received[h][i] # posts + 1
    BY <1>1, <1>4, <2>2 DEF Ordered
  <2>4. {i \in 1 .. Len(received[h]) : received[h][i] = posts + 1} = {}
    BY <2>3
  <2>5. Cardinality(Positions(Subs(t)', h, 0)) = 0
    BY PositionsGrow
  <2>. QED BY <2>4, <2>5, FS_EmptySet
<1>. QED BY <1>5, <1>6, <1>7, <1>8, <1>9, <1>10 DEF BrokerInv

\* One call of postEvent(): the handler's history grows by the latest event.
LEMMA PostEventKeeps ==
  ASSUME BrokerInv, NEW th \in Threads, postEvent(th)
  PROVE  BrokerInv'
<1>. DEFINE c == calls[th]
            S == Subs(c.topic)
            g == S[c.it]
<1>1. TypeOK /\ Exclusive /\ Live /\ InRange /\ Ordered /\ FannedOut
  BY DEF BrokerInv
<1>2. /\ th \in DOMAIN calls /\ DOMAIN calls = {th}
      /\ c \in Call /\ c.ev = posts /\ c.ev \in 1 .. MaxPosts
      /\ c.it \in 1 .. MaxSubscriptions + 1
  BY <1>1, CallType, Alone DEF postEvent, Exclusive
<1>3. /\ S \in Seq(Handlers) /\ Len(S) \in Nat /\ Len(S) <= MaxSubscriptions
      /\ c.it <= Len(S) /\ g \in Handlers
  BY <1>1, <1>2, SubsType DEF postEvent
<1>4. /\ DOMAIN calls' = {th}
      /\ calls'[th].ev = c.ev /\ calls'[th].topic = c.topic /\ calls'[th].it = c.it + 1
      /\ calls'[th] \in Call
  <2>1. DOMAIN calls' = {th} /\ calls'[th] = [c EXCEPT !.it = @ + 1]
    BY <1>2 DEF postEvent
  <2>. QED BY <1>2, <1>3, <2>1 DEF Call
<1>5. /\ received' = [received EXCEPT ![g] = Append(@, c.ev)]
      /\ UNCHANGED <<subscribers, mtx_subscribers, alive, posts>>
  BY DEF postEvent
<1>6. Subs(calls[th].topic)' = S
  BY <1>4, <1>5 DEF Subs
<1>7. received \in [Handlers -> Seq(1 .. MaxPosts)] /\ posts \in Nat
  BY <1>1 DEF TypeOK
<1>. DEFINE r == received[g]
<1>8. /\ r \in Seq(1 .. MaxPosts) /\ Len(r) \in Nat
      /\ received'[g] = Append(r, c.ev) /\ received'[g] \in Seq(1 .. MaxPosts)
      /\ Len(received'[g]) = Len(r) + 1
      /\ \A i \in 1 .. Len(r) : received'[g][i] = r[i]
      /\ received'[g][Len(r) + 1] = c.ev
      /\ \A h \in Handlers : h # g => received'[h] = received[h]
  <2>1. r \in Seq(1 .. MaxPosts) /\ Len(r) \in Nat /\ c.ev \in 1 .. MaxPosts
    BY <1>2, <1>3, <1>7
  <2>2. received'[g] = Append(r, c.ev) /\ \A h \in Handlers : h # g => received'[h] = received[h]
    BY <1>3, <1>5, <1>7
  <2>. HIDE DEF c, S, g, r
  <2>. QED BY <2>1, <2>2
<1>. HIDE DEF c, S, g, r
<1>9. TypeOK'
  <2>1. received' \in [Handlers -> Seq(1 .. MaxPosts)]
    BY <1>2, <1>3, <1>5, <1>7
  <2>2. Range(calls)' \subseteq Call
    BY <1>4 DEF Range
  <2>. QED BY <1>1, <1>2, <1>4, <1>5, <2>1, <2>2 DEF TypeOK
<1>10. Exclusive'
  BY <1>1, <1>2, <1>4, <1>5 DEF Exclusive
<1>11. Live'
  BY <1>1, <1>5 DEF Live
<1>12. InRange'
  <2>1. \A x \in DOMAIN calls' : x = th
    BY <1>4
  <2>2. c.it + 1 <= Len(S) + 1
    BY <1>2, <1>3
  <2>. QED BY <1>4, <1>6, <2>1, <2>2 DEF InRange
<1>13. Ordered'
  <2>1. ASSUME NEW h \in Handlers, h # g
        PROVE  /\ \A i, j \in 1 .. Len(received'[h]) : i < j => received'[h][i] <= received'[h][j]
               /\ \A i \in 1 .. Len(received'[h]) : received'[h][i] <= posts
    BY <1>1, <1>8, <2>1 DEF Ordered
  <2>2. \A i, j \in 1 .. Len(r) : i < j => r[i] <= r[j]
    BY <1>1, <1>3 DEF Ordered, r
  <2>3. \A i \in 1 .. Len(r) : r[i] \in Nat /\ r[i] <= posts
    BY <1>1, <1>3, <1>8 DEF Ordered, r
  <2>4. \A i \in 1 .. Len(received'[g]) : received'[g][i] <= posts
    BY <1>2, <1>7, <1>8, <2>3
  <2>5. ASSUME NEW i \in 1 .. Len(received'[g]), NEW j \in 1 .. Len(received'[g]), i < j
        PROVE  received'[g][i] <= received'[g][j]
    <3>1. i \in 1 .. Len(r)
      BY <1>8, <2>5
    <3>2. CASE j \in 1 .. Len(r)
      BY <1>8, <2>2, <2>5, <3>1, <3>2
    <3>3. CASE j = Len(r) + 1
      BY <1>2, <1>8, <2>3, <3>1, <3>3
    <3>. QED BY <1>8, <3>2, <3>3
  <2>. QED BY <1>5, <2>1, <2>4, <2>5 DEF Ordered
<1>14. FannedOut'
  <2>1. SUFFICES ASSUME NEW h \in Handlers
                 PROVE  Cardinality(Positions(received'[h], c.ev, Len(received'[h])))
                          = Cardinality(Positions(S, h, c.it))
    <3>1. calls'[th].it - 1 = c.it
      BY <1>2, <1>4
    <3>. QED BY <1>4, <1>6, <3>1 DEF FannedOut, Copies, Positions
  <2>2. Cardinality(Positions(received[h], c.ev, Len(received[h])))
          = Cardinality(Positions(S, h, c.it - 1))
    BY <1>1, <1>2 DEF FannedOut, Copies, Positions, c, S
  <2>3. Cardinality(Positions(S, h, c.it)) =
          Cardinality(Positions(S, h, c.it - 1)) + IF g = h THEN 1 ELSE 0
    <3>. DEFINE k == c.it - 1
    <3>1. k \in Nat /\ k + 1 = c.it
      BY <1>2
    <3>2. S[k + 1] = g
      BY <3>1 DEF g
    <3>. HIDE DEF k
    <3>3. Cardinality(Positions(S, h, k + 1)) =
            Cardinality(Positions(S, h, k)) + IF S[k + 1] = h THEN 1 ELSE 0
      BY <3>1, PositionsGrow
    <3>4. Cardinality(Positions(S, h, c.it)) =
            Cardinality(Positions(S, h, k)) + IF g = h THEN 1 ELSE 0
      BY <3>1, <3>2, <3>3
    <3>. QED BY <3>4 DEF k
  <2>4. Cardinality(Positions(S, h, c.it - 1)) \in Nat
    <3>1. c.it - 1 \in Nat
      BY <1>2
    <3>. QED BY <3>1, PositionsGrow
  <2>5. CASE h # g
    BY <1>8, <2>2, <2>3, <2>4, <2>5
  <2>6. CASE h = g
    <3>1. Positions(received'[g], c.ev, Len(r)) = Positions(r, c.ev, Len(r))
      BY <1>8 DEF Positions
    <3>2. Cardinality(Positions(received'[g], c.ev, Len(r) + 1)) =
            Cardinality(Positions(received'[g], c.ev, Len(r))) + 1
      <4>. DEFINE n == Len(r)
      <4>1. n \in Nat /\ received'[g][n + 1] = c.ev
        BY <1>8
      <4>. HIDE DEF n
      <4>2. Cardinality(Positions(received'[g], c.ev, n + 1)) =
              Cardinality(Positions(received'[g], c.ev, n)) + 1
        BY <4>1, PositionsGrow
      <4>. QED BY <4>2 DEF n
    <3>3. Cardinality(Positions(received'[g], c.ev, Len(received'[g]))) =
            Cardinality(Positions(r, c.ev, Len(r))) + 1
      BY <1>8, <3>1, <3>2
    <3>. QED BY <2>2, <2>3, <2>6, <3>3 DEF r
  <2>. QED BY <2>5, <2>6
<1>. QED BY <1>9, <1>10, <1>11, <1>12, <1>13, <1>14 DEF BrokerInv

\* post() returns: no call is under way any more.
LEMMA PostReturnsKeeps ==
  ASSUME BrokerInv, NEW th \in Threads, postReturns(th)
  PROVE  BrokerInv'
<1>1. TypeOK /\ Exclusive /\ Live /\ Ordered
  BY DEF BrokerInv
<1>2. DOMAIN calls = {th}
  BY <1>1, Alone DEF postReturns
<1>3. DOMAIN calls' = {}
  BY <1>2 DEF postReturns, Restrict
<1>4. mtx_subscribers' = NoThread /\ UNCHANGED <<subscribers, alive, received, posts>>
  BY DEF postReturns
<1>5. TypeOK'
  BY <1>1, <1>3, <1>4 DEF TypeOK, Range
<1>6. Exclusive' /\ InRange' /\ FannedOut'
  BY <1>3 DEF Exclusive, InRange, FannedOut
<1>7. Live' /\ Ordered'
  BY <1>1, <1>4 DEF Live, Ordered
<1>. QED BY <1>5, <1>6, <1>7 DEF BrokerInv

\* Whatever changes the subscribers under the mutex finds no call under way.
LEMMA SubscribersKeep ==
  ASSUME BrokerInv, Free, UNCHANGED <<mtx_subscribers, calls, received, posts>>,
         alive' \subseteq alive,
         DOMAIN subscribers' \subseteq Topics,
         \A t \in DOMAIN subscribers' :
           subscribers'[t] \in Seq(alive') /\ Len(subscribers'[t]) <= MaxSubscriptions
  PROVE  BrokerInv'
<1>1. TypeOK /\ Exclusive /\ Ordered
  BY DEF BrokerInv
<1>2. DOMAIN calls' = {}
  BY <1>1, Idle
<1>3. Exclusive' /\ InRange' /\ FannedOut' /\ Ordered'
  BY <1>1, <1>2 DEF Exclusive, InRange, FannedOut, Ordered
<1>4. Live'
  BY DEF Live
<1>5. alive' \subseteq Handlers
  BY <1>1 DEF TypeOK
<1>6. \A t \in DOMAIN subscribers' : subscribers'[t] \in Seq(Handlers)
  <2>1. TAKE t \in DOMAIN subscribers'
  <2>2. subscribers'[t] \in Seq(alive')
    OBVIOUS
  <2>. QED BY <1>5, <2>2
<1>7. TypeOK'
  BY <1>1, <1>5, <1>6 DEF TypeOK
<1>. QED BY <1>3, <1>4, <1>7 DEF BrokerInv

LEMMA SubscribeKeeps ==
  ASSUME BrokerInv, NEW h \in Handlers, NEW t \in Topics, subscribe(h, t)
  PROVE  BrokerInv'
<1>1. TypeOK /\ Live
  BY DEF BrokerInv
<1>2. /\ Subs(t) \in Seq(alive) /\ Len(Subs(t)) \in Nat /\ Len(Subs(t)) < MaxSubscriptions
      /\ h \in alive
  BY <1>1, SubsType DEF subscribe
<1>. DEFINE s == Append(Subs(t), h)
<1>3. s \in Seq(alive) /\ Len(s) <= MaxSubscriptions
  BY <1>2
<1>. HIDE DEF s
<1>4. subscribers' = With(subscribers, t, s)
  BY DEF subscribe, s
<1>5. DOMAIN subscribers' \subseteq Topics
  BY <1>1, <1>4 DEF With, TypeOK
<1>6. \A u \in DOMAIN subscribers' :
        subscribers'[u] \in Seq(alive) /\ Len(subscribers'[u]) <= MaxSubscriptions
  BY <1>1, <1>3, <1>4 DEF With, Live
<1>. QED BY <1>5, <1>6, SubscribersKeep DEF subscribe

LEMMA UnsubscribeKeeps ==
  ASSUME BrokerInv, NEW h \in Handlers, NEW t \in Topics, unsubscribe(h, t)
  PROVE  BrokerInv'
<1>1. TypeOK /\ Live
  BY DEF BrokerInv
<1>. DEFINE s == deleteSubscriber(subscribers[t], h)
<1>2. subscribers[t] \in Seq(alive) /\ Len(subscribers[t]) <= MaxSubscriptions
  BY <1>1 DEF Live, unsubscribe
<1>3. s \in Seq(alive) /\ Len(s) <= Len(subscribers[t])
  BY <1>2, DeleteSubscriber
<1>4. subscribers' = [subscribers EXCEPT ![t] = s]
  BY DEF unsubscribe
<1>. HIDE DEF s
<1>5. Len(s) <= MaxSubscriptions
  BY <1>2, <1>3
<1>6. DOMAIN subscribers' \subseteq Topics
  BY <1>1, <1>4 DEF TypeOK
<1>7. \A u \in DOMAIN subscribers' :
        subscribers'[u] \in Seq(alive) /\ Len(subscribers'[u]) <= MaxSubscriptions
  BY <1>1, <1>3, <1>4, <1>5 DEF Live
<1>. QED BY <1>6, <1>7, SubscribersKeep DEF unsubscribe

\* ~Sniffer(): every entry of the handler goes before the handler does.
LEMMA DeleteHandlerKeeps ==
  ASSUME BrokerInv, NEW h \in Handlers, deleteHandler(h)
  PROVE  BrokerInv'
<1>1. TypeOK /\ Live
  BY DEF BrokerInv
<1>2. DOMAIN subscribers' = DOMAIN subscribers /\ alive' = alive \ {h}
  BY DEF deleteHandler
<1>3. ASSUME NEW t \in DOMAIN subscribers'
      PROVE  subscribers'[t] \in Seq(alive') /\ Len(subscribers'[t]) <= MaxSubscriptions
  <2>. DEFINE s == deleteSubscriber(subscribers[t], h)
  <2>1. subscribers'[t] = s
    BY <1>2 DEF deleteHandler
  <2>2. subscribers[t] \in Seq(alive) /\ Len(subscribers[t]) <= MaxSubscriptions
    BY <1>1, <1>2 DEF Live
  <2>3. /\ s \in Seq(alive) /\ Len(s) <= Len(subscribers[t])
        /\ \A i \in 1 .. Len(s) : s[i] # h
    BY <2>2, DeleteSubscriber
  <2>. HIDE DEF s
  <2>4. s \in Seq(alive \ {h})
    BY <2>3
  <2>. QED BY <1>2, <2>1, <2>2, <2>3, <2>4
<1>4. DOMAIN subscribers' \subseteq Topics
  BY <1>1, <1>2 DEF TypeOK
<1>. QED BY <1>2, <1>3, <1>4, SubscribersKeep DEF deleteHandler

LEMMA BrokerStep == BrokerInv /\ [Next]_vars => BrokerInv'
<1>. SUFFICES ASSUME BrokerInv, [Next]_vars PROVE BrokerInv'
  OBVIOUS
<1>1. CASE \E th \in Threads, t \in Topics : post(th, t)
  BY <1>1, PostKeeps
<1>2. CASE \E th \in Threads : postEvent(th)
  BY <1>2, PostEventKeeps
<1>3. CASE \E th \in Threads : postReturns(th)
  BY <1>3, PostReturnsKeeps
<1>4. CASE \E h \in Handlers, t \in Topics : subscribe(h, t)
  BY <1>4, SubscribeKeeps
<1>5. CASE \E h \in Handlers, t \in Topics : unsubscribe(h, t)
  BY <1>5, UnsubscribeKeeps
<1>6. CASE \E h \in Handlers : deleteHandler(h)
  BY <1>6, DeleteHandlerKeeps
<1>7. CASE UNCHANGED vars
  BY <1>7 DEF BrokerInv, TypeOK, Exclusive, Live, InRange, Ordered, FannedOut, Subs, Copies, vars
<1>. QED BY <1>1, <1>2, <1>3, <1>4, <1>5, <1>6, <1>7 DEF Next

LEMMA BrokerInvHolds == Spec => []BrokerInv
<1>. QED BY BrokerInit, BrokerStep, PTL DEF Spec

----------------------------------------------------------------------------
LEMMA LiveCalls == BrokerInv => NoDeadCall
<1>. SUFFICES ASSUME BrokerInv, NEW th \in DOMAIN calls,
                     calls[th].it <= Len(Subs(calls[th].topic))
              PROVE  Subs(calls[th].topic)[calls[th].it] \in alive
  BY DEF NoDeadCall
<1>1. Subs(calls[th].topic) \in Seq(alive) /\ calls[th].it \in 1 .. MaxSubscriptions + 1
  BY SubsType, CallType DEF BrokerInv
<1>. DEFINE s == Subs(calls[th].topic)
            i == calls[th].it
<1>2. i \in 1 .. Len(s)
  BY <1>1
<1>. HIDE DEF i, s
<1>3. s[i] \in alive
  BY <1>1, <1>2 DEF s
<1>. QED BY <1>3 DEF s, i

\* No post() calls a handler that ~Sniffer() has deleted: EventBroker.cpp takes
\* mtx_subscribers for both, and deleteSubscriber() erases every entry.
THEOREM NoCallOfTheDead == Spec => []NoDeadCall
<1>. QED BY BrokerInvHolds, LiveCalls, PTL

LEMMA OneOrder == BrokerInv => SameOrder
<1>. SUFFICES ASSUME BrokerInv, NEW g \in Handlers, NEW h \in Handlers,
                     NEW d \in 1 .. posts, NEW e \in 1 .. posts, d # e,
                     Before(g, d, e), Before(h, e, d)
              PROVE  FALSE
  BY DEF SameOrder
<1>1. \A x \in Handlers : \A i, j \in 1 .. Len(received[x]) :
        i < j => received[x][i] <= received[x][j]
  BY DEF BrokerInv, Ordered
<1>2. d <= e
  BY <1>1 DEF Before
<1>3. e <= d
  BY <1>1 DEF Before
<1>4. d \in Nat /\ e \in Nat
  BY DEF BrokerInv, TypeOK
<1>. QED BY <1>2, <1>3, <1>4

\* Two subscribers never see two events in opposite orders, whatever topics
\* they subscribe to and whatever threads post: post() holds one mutex.
THEOREM OneOrderForAll == Spec => []SameOrder
<1>. QED BY BrokerInvHolds, OneOrder, PTL

\* A post() that returns has called every handler once per subscription to the
\* topic, and no other (the loop of EventBroker::post under the mutex).
THEOREM FanOutIsExact == Spec => ExactFanOut
<1>. DEFINE Exact == \A th \in DOMAIN calls \ DOMAIN calls' : \A h \in Handlers :
                       Copies(h, calls[th].ev) = Subscriptions(h, calls[th].topic)
<1>1. BrokerInv /\ [Next]_vars => [Exact]_vars
  <2>1. SUFFICES ASSUME BrokerInv, Next, NEW th \in DOMAIN calls \ DOMAIN calls', NEW h \in Handlers
                 PROVE  Copies(h, calls[th].ev) = Subscriptions(h, calls[th].topic)
    OBVIOUS
  <2>2. postReturns(th)
    <3>1. CASE \E x \in Threads, t \in Topics : post(x, t)
      BY <2>1, <3>1 DEF post, With
    <3>2. CASE \E x \in Threads : postEvent(x)
      BY <2>1, <3>2 DEF postEvent
    <3>3. CASE \E x \in Threads : postReturns(x)
      BY <2>1, <3>3 DEF postReturns, Restrict
    <3>4. CASE \/ \E x \in Handlers, t \in Topics : subscribe(x, t) \/ unsubscribe(x, t)
               \/ \E x \in Handlers : deleteHandler(x)
      BY <2>1, <3>4 DEF subscribe, unsubscribe, deleteHandler
    <3>. QED BY <2>1, <3>1, <3>2, <3>3, <3>4 DEF Next
  <2>. DEFINE S == Subs(calls[th].topic)
              i == calls[th].it
  <2>3. i > Len(S) /\ i <= Len(S) + 1 /\ i \in Nat /\ Len(S) \in Nat
    BY <2>1, <2>2, CallType, SubsType DEF BrokerInv, InRange, postReturns
  <2>4. i - 1 = Len(S)
    BY <2>3
  <2>5. Copies(h, calls[th].ev) = Cardinality(Positions(S, h, i - 1))
    BY <2>1 DEF BrokerInv, FannedOut
  <2>. QED BY <2>4, <2>5 DEF Positions, Subscriptions
<1>. QED BY <1>1, BrokerInvHolds, PTL DEF Spec, ExactFanOut
=============================================================================
