------------------------ MODULE CameraSettingsProofs ------------------------
(***************************************************************************)
(* For every camera (Kits): what was published last is what the camera      *)
(* holds, and a list read since it changed is the camera's; for cameras     *)
(* whose lists survive the conversions, a listed value is in force again in *)
(* the next session; and findNearest() finds a nearest value of the list.   *)
(***************************************************************************)
EXTENDS CameraSettings, TLAPS, WellFoundedInduction

\* Induction: a set of numbers that is not empty has a least element.
LEMMA LeastNumber ==
  ASSUME NEW T \in SUBSET Nat, T # {}
  PROVE  \E x \in T : \A y \in T : x <= y
<1>. DEFINE R == OpToRel(<, Nat)
<1>1. IsWellFoundedOn(R, Nat)
  BY NatLessThanWellFounded
<1>2. \A x, y \in Nat : <<x, y>> \in R <=> x < y
  BY DEF OpToRel
<1>. HIDE DEF R
<1>3. PICK x \in T : \A y \in T : ~ (<<y, x>> \in R)
  BY <1>1, WFMin
<1>4. x \in Nat /\ \A y \in T : y \in Nat /\ ~ (y < x)
  BY <1>2, <1>3
<1>5. \A y \in T : x <= y
  BY <1>4
<1>. QED BY <1>5

----------------------------------------------------------------------------
CallSet == [op : {"set", "get", "list", "publish"}, w : Widgets]

Publishes(q) == {k \in DOMAIN q : q[k].op = "publish"}
Sets(q, w) == {k \in DOMAIN q : q[k].op = "set" /\ q[k].w = w}

\* q[p] is the last publish and q[j] a get of w that follows every other one:
\* the number published there is read after all that is done before.
ReadAt(q, w, j, p) == /\ j < p
                      /\ q[p].op = "publish" /\ q[j].op = "get" /\ q[j].w = w
                      /\ \A k \in Publishes(q) : k = p \/ k < j
Rereads(q, w) == \E j, p \in DOMAIN q : ReadAt(q, w, j, p)

SetsFirst(q) == \A i, j \in DOMAIN q : i < j /\ q[j].op = "set" => q[i].op = "set"

\* Calls that set come first; a get leads to a publish; and where something is
\* set, or published more than once, everything is read before the last publish.
Planned(q) ==
  /\ q \in Seq(CallSet)
  /\ SetsFirst(q)
  /\ \A i \in DOMAIN q : q[i].op = "get" => \E p \in Publishes(q) : i < p
  /\ (\E i \in DOMAIN q : q[i].op = "set") => \A w \in Widgets : Rereads(q, w)
  /\ (\E i, j \in Publishes(q) : i # j) => \A w \in Widgets : Rereads(q, w)

\* The number sh was published, or rd is about to be, or will be read again: for
\* the setting w, whose number is v, when the calls q are still to be made.
ShowsAt(w, q, sh, rd, v) ==
  \/ Publishes(q) = {} /\ sh = v
  \/ Publishes(q) # {} /\ Rereads(q, w)
  \/ Publishes(q) # {} /\ (\A i, j \in Publishes(q) : i = j) /\ rd = v

Shows == \A w \in Widgets \ unseen :
           ShowsAt(w, todo, shown[w], reading[w], ToInt(w, value[w]))

Shape == /\ kit \in Kits
         /\ choices = [w \in Widgets |-> choices[w]]
         /\ \A w \in Widgets : choices[w] \in kit.offers[w]
         /\ value = [w \in Widgets |-> value[w]]
         /\ reading = [w \in Widgets |-> reading[w]]
         /\ options = [w \in Widgets |-> options[w]]

SettingsInv == Shape /\ Planned(todo) /\ Shows

----------------------------------------------------------------------------
\* r is what is left of q when its first n calls are made.
Rest(r, q, n) == /\ r \in Seq(CallSet)
                 /\ n \in 1 .. Len(q) /\ Len(r) = Len(q) - n
                 /\ \A i \in 1 .. Len(r) : r[i] = q[i + n]

LEMMA TailIsRest ==
  ASSUME NEW q \in Seq(CallSet), q # << >>
  PROVE  Rest(Tail(q), q, 1)
<1>1. Len(q) \in Nat /\ Len(q) >= 1 /\ Tail(q) \in Seq(CallSet) /\ Len(Tail(q)) = Len(q) - 1
  OBVIOUS
<1>2. \A i \in 1 .. Len(Tail(q)) : Tail(q)[i] = q[i + 1]
  OBVIOUS
<1>. QED BY <1>1, <1>2 DEF Rest

LEMMA SubSeqIsRest ==
  ASSUME NEW q \in Seq(CallSet), NEW n \in 1 .. Len(q)
  PROVE  Rest(SubSeq(q, n + 1, Len(q)), q, n)
<1>. DEFINE r == SubSeq(q, n + 1, Len(q))
<1>1. Len(q) \in Nat /\ n \in Nat /\ n <= Len(q)
  OBVIOUS
<1>2. r = [i \in 1 .. Len(q) - n |-> q[i + n]]
  <2>1. Len(q) - (n + 1) + 1 = Len(q) - n
    BY <1>1
  <2>2. \A i \in 1 .. Len(q) - n : n + 1 + i - 1 = i + n
    BY <1>1
  <2>. QED BY <1>1, <2>1, <2>2
<1>3. \A i \in 1 .. Len(q) - n : q[i + n] \in CallSet
  <2>1. \A i \in 1 .. Len(q) - n : i + n \in 1 .. Len(q)
    BY <1>1
  <2>. QED BY <2>1
<1>. HIDE DEF r
<1>4. Len(q) - n \in Nat
  BY <1>1
<1>5. r \in Seq(CallSet) /\ Len(r) = Len(q) - n
  BY <1>2, <1>3, <1>4
<1>. QED BY <1>2, <1>5 DEF Rest, r

\* Where the publishes of the rest are.
LEMMA RestPublishes ==
  ASSUME NEW q \in Seq(CallSet), NEW r, NEW n, Rest(r, q, n), NEW k \in Int
  PROVE  k \in Publishes(r) <=> k >= 1 /\ k + n \in Publishes(q)
<1>1. Len(q) \in Nat /\ n \in Nat /\ n >= 1 /\ Len(r) = Len(q) - n
  BY DEF Rest
<1>2. DOMAIN r = 1 .. Len(r) /\ DOMAIN q = 1 .. Len(q)
  BY DEF Rest
<1>3. k \in DOMAIN r <=> k >= 1 /\ k + n \in DOMAIN q
  BY <1>1, <1>2
<1>4. k \in DOMAIN r => r[k] = q[k + n]
  BY <1>2 DEF Rest
<1>. QED BY <1>3, <1>4 DEF Publishes

\* A reading that is still to come is still to come.
LEMMA RestRereads ==
  ASSUME NEW q \in Seq(CallSet), NEW r, NEW n, Rest(r, q, n), NEW w,
         NEW j \in DOMAIN q, NEW p \in DOMAIN q, ReadAt(q, w, j, p), j > n
  PROVE  Rereads(r, w)
<1>1. Len(q) \in Nat /\ n \in Nat /\ n >= 1 /\ Len(r) = Len(q) - n /\ Len(r) \in Nat
  BY DEF Rest
<1>2. DOMAIN r = 1 .. Len(r) /\ DOMAIN q = 1 .. Len(q)
  BY DEF Rest
<1>3. j \in Int /\ p \in Int /\ j < p /\ j - n \in DOMAIN r /\ p - n \in DOMAIN r /\ j - n < p - n
  BY <1>1, <1>2 DEF ReadAt
<1>4. r[j - n] = q[j] /\ r[p - n] = q[p]
  <2>1. \A i \in DOMAIN r : r[i] = q[i + n]
    BY <1>2 DEF Rest
  <2>2. (j - n) + n = j /\ (p - n) + n = p
    BY <1>1, <1>3
  <2>. QED BY <1>3, <2>1, <2>2
<1>5. \A k \in Publishes(r) : k = p - n \/ k < j - n
  <2>1. TAKE k \in Publishes(r)
  <2>2. k \in Int
    BY <1>2 DEF Publishes
  <2>3. k + n \in Publishes(q)
    BY <2>2, RestPublishes
  <2>4. k + n = p \/ k + n < j
    BY <2>3 DEF ReadAt
  <2>. QED BY <1>1, <1>3, <2>2, <2>4
<1>6. ReadAt(r, w, j - n, p - n)
  BY <1>3, <1>4, <1>5 DEF ReadAt
<1>. QED BY <1>3, <1>6 DEF Rereads

\* With two publishes left, the reading before the last one is left as well.
LEMMA RestReadsTwice ==
  ASSUME NEW q, Planned(q), NEW r, NEW n, Rest(r, q, n),
         NEW i \in Publishes(r), NEW k \in Publishes(r), i # k, NEW w \in Widgets
  PROVE  Rereads(r, w)
<1>1. q \in Seq(CallSet) /\ Len(q) \in Nat /\ n \in Nat
  BY DEF Planned, Rest
<1>2. i \in Int /\ k \in Int /\ i >= 1 /\ k >= 1
  BY DEF Publishes, Rest
<1>3. i + n \in Publishes(q) /\ k + n \in Publishes(q) /\ i + n # k + n
  BY <1>1, <1>2, RestPublishes
<1>4. Rereads(q, w)
  BY <1>3 DEF Planned
<1>5. PICK j \in DOMAIN q, p \in DOMAIN q : ReadAt(q, w, j, p)
  BY <1>4 DEF Rereads
<1>6. i + n < j \/ k + n < j
  BY <1>3, <1>5 DEF ReadAt
<1>7. j \in Int /\ j > n
  BY <1>1, <1>2, <1>6
<1>. QED BY <1>1, <1>5, <1>7, RestRereads

\* Plans stay plans.
LEMMA RestPlanned ==
  ASSUME NEW q, Planned(q), NEW r, NEW n, Rest(r, q, n), n = 1 \/ q[1].op # "set"
  PROVE  Planned(r)
<1>1. q \in Seq(CallSet) /\ Len(q) \in Nat /\ n \in Nat /\ n >= 1 /\ n <= Len(q)
  BY DEF Planned, Rest
<1>2. /\ DOMAIN r = 1 .. Len(r) /\ DOMAIN q = 1 .. Len(q) /\ Len(r) = Len(q) - n
      /\ \A i \in DOMAIN r : r[i] = q[i + n]
  BY <1>1 DEF Rest
<1>3. \A i \in DOMAIN r : i \in Int /\ i + n \in DOMAIN q /\ i + n > 1 /\ i >= 1
  BY <1>1, <1>2
<1>4. SetsFirst(r)
  <2>1. \A i, j \in DOMAIN q : i < j /\ q[j].op = "set" => q[i].op = "set"
    BY DEF Planned, SetsFirst
  <2>2. \A i, j \in DOMAIN r : i < j => i + n < j + n
    BY <1>1, <1>3
  <2>. QED BY <1>2, <1>3, <2>1, <2>2 DEF SetsFirst
<1>5. \A i \in DOMAIN r : r[i].op = "get" => \E p \in Publishes(r) : i < p
  <2>1. SUFFICES ASSUME NEW i \in DOMAIN r, r[i].op = "get"
                 PROVE  \E p \in Publishes(r) : i < p
    OBVIOUS
  <2>2. q[i + n].op = "get" /\ i + n \in DOMAIN q
    BY <1>2, <1>3, <2>1
  <2>3. PICK p \in Publishes(q) : i + n < p
    BY <2>2 DEF Planned
  <2>4. p \in Int /\ p - n \in Int /\ p - n > i /\ p - n >= 1 /\ (p - n) + n = p
    BY <1>1, <1>2, <1>3, <2>3 DEF Publishes
  <2>5. p - n \in Publishes(r)
    BY <1>1, <2>3, <2>4, RestPublishes
  <2>. QED BY <2>4, <2>5
<1>6. ASSUME NEW i \in DOMAIN r, r[i].op = "set", NEW w \in Widgets
      PROVE  Rereads(r, w)
  <2>1. q[i + n].op = "set" /\ i + n \in DOMAIN q
    BY <1>2, <1>3, <1>6
  <2>2. 1 \in DOMAIN q /\ 1 < i + n
    BY <1>1, <1>2, <1>3
  <2>3. q[1].op = "set"
    BY <2>1, <2>2 DEF Planned, SetsFirst
  <2>4. Rereads(q, w)
    BY <2>1 DEF Planned
  <2>5. PICK j \in DOMAIN q, p \in DOMAIN q : ReadAt(q, w, j, p)
    BY <2>4 DEF Rereads
  <2>6. j # 1 /\ n = 1
    BY <2>3, <2>5 DEF ReadAt
  <2>7. j > n
    BY <1>1, <1>2, <2>6
  <2>. QED BY <1>1, <2>5, <2>7, RestRereads
<1>7. ASSUME NEW i \in Publishes(r), NEW j \in Publishes(r), i # j, NEW w \in Widgets
      PROVE  Rereads(r, w)
  BY <1>7, RestReadsTwice
<1>8. r \in Seq(CallSet)
  BY DEF Rest
<1>. QED BY <1>4, <1>5, <1>6, <1>7, <1>8 DEF Planned

----------------------------------------------------------------------------
\* The calls of one part of a handler and then those of the next.
Follows(q, s, t) == /\ q \in Seq(CallSet) /\ Len(q) = Len(s) + Len(t)
                    /\ \A i \in 1 .. Len(s) : q[i] = s[i]
                    /\ \A i \in 1 .. Len(t) : q[i + Len(s)] = t[i]

LEMMA Joined ==
  ASSUME NEW s \in Seq(CallSet), NEW t \in Seq(CallSet)
  PROVE  Follows(s \o t, s, t)
<1>1. Len(s) \in Nat /\ Len(t) \in Nat
  OBVIOUS
<1>2. s \o t \in Seq(CallSet) /\ Len(s \o t) = Len(s) + Len(t)
  BY <1>1
<1>3. \A i \in 1 .. Len(s) : (s \o t)[i] = s[i]
  BY <1>1, <1>2
<1>4. \A i \in 1 .. Len(t) : (s \o t)[i + Len(s)] = t[i]
  BY <1>1, <1>2
<1>. QED BY <1>2, <1>3, <1>4 DEF Follows

\* The calls of readStatus(), readOptions() and setConfig().
LEMMA StatusCalls ==
  /\ readStatus \in Seq(CallSet) /\ Len(readStatus) = 5
  /\ \A i \in 1 .. 4 : readStatus[i].op = "get"
  /\ readStatus[5].op = "publish"
  /\ \A w \in Widgets : \E i \in 1 .. 4 : readStatus[i].w = w
<1>1. StatusOrder \in Seq(Widgets) /\ Len(StatusOrder) = 4
  BY DEF StatusOrder, Widgets
<1>2. \A w \in Widgets : \E i \in 1 .. 4 : StatusOrder[i] = w
  BY DEF StatusOrder, Widgets
<1>. DEFINE gets == Calls("get", StatusOrder)
            last == Calls("publish", <<"capturemode">>)
<1>3. gets = [i \in 1 .. 4 |-> [op |-> "get", w |-> StatusOrder[i]]]
  BY <1>1 DEF Calls
<1>4. last = [i \in 1 .. 1 |-> [op |-> "publish", w |-> "capturemode"]]
  BY DEF Calls
<1>5. \A i \in 1 .. 4 : StatusOrder[i] \in Widgets
  BY DEF StatusOrder, Widgets
<1>6. readStatus = gets \o last
  BY DEF readStatus
<1>. HIDE DEF gets, last
<1>7. gets \in Seq(CallSet) /\ Len(gets) = 4
  BY <1>3, <1>5 DEF CallSet
<1>8. last \in Seq(CallSet) /\ Len(last) = 1
  BY <1>4 DEF CallSet, Widgets
<1>f. Follows(readStatus, gets, last)
  BY <1>6, <1>7, <1>8, Joined
<1>9. readStatus \in Seq(CallSet) /\ Len(readStatus) = 5
  BY <1>7, <1>8, <1>f DEF Follows
<1>10. \A i \in 1 .. 4 : readStatus[i] = gets[i]
  BY <1>7, <1>f DEF Follows
<1>11. readStatus[5] = last[1]
  <2>1. \A i \in 1 .. Len(last) : readStatus[i + Len(gets)] = last[i]
    BY <1>f DEF Follows
  <2>2. readStatus[1 + 4] = last[1]
    BY <1>7, <1>8, <2>1
  <2>. QED BY <2>2
<1>12. \A i \in 1 .. 4 : readStatus[i].op = "get" /\ readStatus[i].w = StatusOrder[i]
  BY <1>3, <1>10
<1>13. readStatus[5].op = "publish"
  BY <1>4, <1>11
<1>. QED BY <1>2, <1>9, <1>12, <1>13

LEMMA OptionsCalls ==
  /\ readOptions \in Seq(CallSet) /\ Len(readOptions) = 4
  /\ \A i \in 1 .. 4 : readOptions[i].op = "list"
<1>1. StatusOrder \in Seq(Widgets) /\ Len(StatusOrder) = 4
  BY DEF StatusOrder, Widgets
<1>2. readOptions = [i \in 1 .. 4 |-> [op |-> "list", w |-> StatusOrder[i]]]
  BY <1>1 DEF Calls, readOptions
<1>3. \A i \in 1 .. 4 : StatusOrder[i] \in Widgets
  BY DEF StatusOrder, Widgets
<1>. QED BY <1>2, <1>3 DEF CallSet

\* s makes calls that set.
OnlySets(s) == s \in Seq(CallSet) /\ \A i \in 1 .. Len(s) : s[i].op = "set"

LEMMA OnlySetsJoin ==
  ASSUME NEW s, NEW t, OnlySets(s), OnlySets(t)
  PROVE  /\ OnlySets(s \o t)
         /\ \A w : Sets(s, w) # {} \/ Sets(t, w) # {} => Sets(s \o t, w) # {}
<1>1. s \in Seq(CallSet) /\ t \in Seq(CallSet) /\ Len(s) \in Nat /\ Len(t) \in Nat
  BY DEF OnlySets
<1>f. Follows(s \o t, s, t)
  BY <1>1, Joined
<1>2. s \o t \in Seq(CallSet) /\ Len(s \o t) = Len(s) + Len(t)
  BY <1>f DEF Follows
<1>3. \A i \in 1 .. Len(s) : (s \o t)[i] = s[i] /\ i \in 1 .. Len(s \o t)
  BY <1>1, <1>2, <1>f DEF Follows
<1>4. \A i \in 1 .. Len(t) : (s \o t)[i + Len(s)] = t[i] /\ i + Len(s) \in 1 .. Len(s \o t)
  BY <1>1, <1>2, <1>f DEF Follows
<1>5. \A i \in 1 .. Len(s \o t) : i \in 1 .. Len(s) \/ (i - Len(s) \in 1 .. Len(t) /\ i = (i - Len(s)) + Len(s))
  BY <1>1, <1>2
<1>6. OnlySets(s \o t)
  BY <1>2, <1>3, <1>4, <1>5 DEF OnlySets
<1>7. DOMAIN s = 1 .. Len(s) /\ DOMAIN t = 1 .. Len(t) /\ DOMAIN (s \o t) = 1 .. Len(s \o t)
  BY <1>1, <1>2
<1>8. \A w, i : i \in Sets(s, w) => i \in Sets(s \o t, w)
  BY <1>3, <1>7 DEF Sets
<1>9. \A w, i : i \in Sets(t, w) => i + Len(s) \in Sets(s \o t, w)
  BY <1>4, <1>7 DEF Sets
<1>. QED BY <1>6, <1>8, <1>9

LEMMA SetCalls ==
  ASSUME NEW config
  PROVE  /\ OnlySets(setConfig(config))
         /\ \A w \in Widgets : Given(w, config[w]) => Sets(setConfig(config), w) # {}
<1>. DEFINE Try(w) == IF Given(w, config[w]) THEN Calls("set", <<w>>) ELSE << >>
<1>1. ASSUME NEW w \in Widgets
      PROVE  OnlySets(Try(w)) /\ (Given(w, config[w]) => Sets(Try(w), w) # {})
  <2>1. Calls("set", <<w>>) = [i \in 1 .. 1 |-> [op |-> "set", w |-> w]]
    BY DEF Calls
  <2>2. /\ Calls("set", <<w>>) \in Seq(CallSet) /\ Len(Calls("set", <<w>>)) = 1
        /\ Calls("set", <<w>>)[1] = [op |-> "set", w |-> w]
    <3>1. [op |-> "set", w |-> w] \in CallSet
      BY DEF CallSet
    <3>. DEFINE call == [op |-> "set", w |-> w]
    <3>. HIDE DEF call
    <3>2. Calls("set", <<w>>) = [i \in 1 .. 1 |-> call]
      BY <2>1 DEF call
    <3>3. Calls("set", <<w>>) \in Seq(CallSet)
      <4>1. call \in CallSet
        BY <3>1 DEF call
      <4>2. ASSUME NEW S, NEW c \in S, NEW t, t = [i \in 1 .. 1 |-> c]
            PROVE  t \in Seq(S)
        BY <4>2
      <4>. QED BY <3>2, <4>1, <4>2
    <3>4. Len(Calls("set", <<w>>)) = 1 /\ Calls("set", <<w>>)[1] = call
      BY <3>2
    <3>. QED BY <3>3, <3>4 DEF call
  <2>3. OnlySets(Calls("set", <<w>>)) /\ 1 \in Sets(Calls("set", <<w>>), w)
    BY <2>2 DEF OnlySets, Sets
  <2>4. OnlySets(<< >>)
    BY DEF OnlySets
  <2>. QED BY <2>3, <2>4
<1>. HIDE DEF Try
<1>2. setConfig(config) = Try("f-number") \o Try("shutterspeed") \o Try("iso") \o Try("capturemode")
  BY DEF setConfig, Try
<1>3. "f-number" \in Widgets /\ "shutterspeed" \in Widgets /\ "iso" \in Widgets /\ "capturemode" \in Widgets
  BY DEF Widgets
<1>. DEFINE a == Try("f-number") \o Try("shutterspeed")
            b == a \o Try("iso")
            c == b \o Try("capturemode")
<1>4. OnlySets(a) /\ \A w : Sets(Try("f-number"), w) # {} \/ Sets(Try("shutterspeed"), w) # {} => Sets(a, w) # {}
  BY <1>1, <1>3, OnlySetsJoin
<1>. HIDE DEF a
<1>5. OnlySets(b) /\ \A w : Sets(a, w) # {} \/ Sets(Try("iso"), w) # {} => Sets(b, w) # {}
  BY <1>1, <1>3, <1>4, OnlySetsJoin
<1>. HIDE DEF b
<1>6. OnlySets(c) /\ \A w : Sets(b, w) # {} \/ Sets(Try("capturemode"), w) # {} => Sets(c, w) # {}
  BY <1>1, <1>3, <1>5, OnlySetsJoin
<1>7. setConfig(config) = c
  BY <1>2 DEF a, b
<1>. HIDE DEF c
<1>8. \A w \in Widgets : w \in {"f-number", "shutterspeed", "iso", "capturemode"}
  BY DEF Widgets
<1>9. \A w \in Widgets : Given(w, config[w]) => Sets(c, w) # {}
  BY <1>1, <1>4, <1>5, <1>6, <1>8
<1>. QED BY <1>6, <1>7, <1>9

\* A status is read after other calls: all is read before the last publish.
LEMMA StatusPlanned ==
  ASSUME NEW s \in Seq(CallSet), SetsFirst(s)
  PROVE  /\ Planned(s \o readStatus)
         /\ Publishes(s \o readStatus) # {}
         /\ \A w \in Widgets : Rereads(s \o readStatus, w)
         /\ \A w : Sets(s, w) # {} => Sets(s \o readStatus, w) # {}
<1>. DEFINE q == s \o readStatus
            n == Len(s)
<1>1. n \in Nat /\ DOMAIN s = 1 .. n
  OBVIOUS
<1>2. Follows(q, s, readStatus)
  BY Joined, StatusCalls
<1>. HIDE DEF q
<1>3. q \in Seq(CallSet) /\ Len(q) = n + 5 /\ DOMAIN q = 1 .. n + 5
  BY <1>1, <1>2, StatusCalls DEF Follows
<1>4. \A i \in 1 .. n : q[i] = s[i]
  BY <1>2 DEF Follows, n
<1>5. \A i \in 1 .. 5 : q[i + n] = readStatus[i]
  BY <1>2, StatusCalls DEF Follows, n
<1>. HIDE DEF n
<1>6. \A i \in 1 .. 4 : q[i + n].op = "get"
  BY <1>5, StatusCalls
<1>7. q[n + 5].op = "publish" /\ n + 5 \in DOMAIN q
  <2>1. 5 + n = n + 5 /\ q[5 + n] = readStatus[5]
    BY <1>1, <1>5
  <2>. QED BY <1>1, <1>3, <2>1, StatusCalls
<1>8. \A k \in DOMAIN q : \/ k \in 1 .. n
                          \/ k - n \in 1 .. 4 /\ k = (k - n) + n
                          \/ k = n + 5
  BY <1>1, <1>3
<1>9. n + 5 \in Publishes(q) /\ \A k \in Publishes(q) : k = n + 5 \/ k \in 1 .. n
  BY <1>6, <1>7, <1>8 DEF Publishes
<1>10. ASSUME NEW w \in Widgets PROVE Rereads(q, w)
  <2>1. PICK i \in 1 .. 4 : readStatus[i].w = w
    BY StatusCalls
  <2>2. q[i + n].op = "get" /\ q[i + n].w = w
    BY <1>5, <1>6, <2>1
  <2>3. i + n \in DOMAIN q /\ i + n < n + 5 /\ \A k \in 1 .. n : k < i + n
    BY <1>1, <1>3
  <2>4. ReadAt(q, w, i + n, n + 5)
    BY <1>7, <1>9, <2>2, <2>3 DEF ReadAt
  <2>. QED BY <1>7, <2>3, <2>4 DEF Rereads
<1>11. SetsFirst(q)
  <2>1. \A j \in DOMAIN q : q[j].op = "set" => j \in 1 .. n
    BY <1>6, <1>7, <1>8
  <2>2. \A i, j \in DOMAIN q : i < j /\ j \in 1 .. n => i \in 1 .. n
    BY <1>1, <1>3
  <2>3. \A i, j \in 1 .. n : i < j /\ q[j].op = "set" => q[i].op = "set"
    BY <1>1, <1>4 DEF SetsFirst
  <2>. QED BY <2>1, <2>2, <2>3 DEF SetsFirst
<1>12. \A i \in DOMAIN q : q[i].op = "get" => i < n + 5
  BY <1>1, <1>3, <1>7
<1>13. Planned(q)
  BY <1>3, <1>9, <1>10, <1>11, <1>12 DEF Planned
<1>14. \A w, k : k \in Sets(s, w) => k \in Sets(q, w)
  <2>1. \A k \in DOMAIN s : k \in DOMAIN q /\ q[k] = s[k]
    BY <1>1, <1>3, <1>4
  <2>. QED BY <2>1 DEF Sets
<1>. QED BY <1>9, <1>10, <1>13, <1>14 DEF q

\* Lists are read after other calls: nothing else changes.
LEMMA OptionsPlanned ==
  ASSUME NEW s, Planned(s)
  PROVE  /\ Planned(s \o readOptions)
         /\ Publishes(s \o readOptions) = Publishes(s)
         /\ \A w : Rereads(s, w) => Rereads(s \o readOptions, w)
         /\ \A w : Sets(s, w) # {} => Sets(s \o readOptions, w) # {}
<1>. DEFINE q == s \o readOptions
            n == Len(s)
<1>1. s \in Seq(CallSet) /\ n \in Nat /\ DOMAIN s = 1 .. n
  BY DEF Planned
<1>2. Follows(q, s, readOptions)
  BY <1>1, Joined, OptionsCalls
<1>. HIDE DEF q
<1>3. q \in Seq(CallSet) /\ Len(q) = n + 4 /\ DOMAIN q = 1 .. n + 4
  BY <1>1, <1>2, OptionsCalls DEF Follows
<1>4. \A i \in DOMAIN s : q[i] = s[i] /\ i \in DOMAIN q
  BY <1>1, <1>2, <1>3 DEF Follows, n
<1>5. \A i \in 1 .. 4 : q[i + n].op = "list"
  BY <1>2, OptionsCalls DEF Follows, n
<1>. HIDE DEF n
<1>6. \A k \in DOMAIN q : k \in DOMAIN s \/ (k - n \in 1 .. 4 /\ k = (k - n) + n)
  BY <1>1, <1>3
<1>7. \A k \in DOMAIN q : q[k].op # "list" => k \in DOMAIN s
  BY <1>5, <1>6
<1>8. Publishes(q) = Publishes(s)
  BY <1>4, <1>7 DEF Publishes
<1>9. ASSUME NEW w, Rereads(s, w) PROVE Rereads(q, w)
  <2>1. PICK j \in DOMAIN s, p \in DOMAIN s : ReadAt(s, w, j, p)
    BY <1>9 DEF Rereads
  <2>2. ReadAt(q, w, j, p)
    BY <1>4, <1>8, <2>1 DEF ReadAt
  <2>. QED BY <1>4, <2>2 DEF Rereads
<1>10. SetsFirst(q)
  <2>1. \A i, j \in DOMAIN q : i < j /\ j \in DOMAIN s => i \in DOMAIN s
    BY <1>1, <1>3
  <2>. QED BY <1>4, <1>7, <2>1 DEF Planned, SetsFirst
<1>11. \A i \in DOMAIN q : q[i].op = "get" => \E p \in Publishes(q) : i < p
  BY <1>4, <1>7, <1>8 DEF Planned
<1>12. \A i \in DOMAIN q : q[i].op = "set" => i \in DOMAIN s /\ s[i].op = "set"
  BY <1>4, <1>7
<1>13. Planned(q)
  BY <1>3, <1>8, <1>9, <1>10, <1>11, <1>12 DEF Planned
<1>14. \A w, k : k \in Sets(s, w) => k \in Sets(q, w)
  BY <1>4 DEF Sets
<1>. QED BY <1>8, <1>9, <1>13, <1>14 DEF q

LEMMA OnlySetsFirst ==
  ASSUME NEW s, OnlySets(s)
  PROVE  s \in Seq(CallSet) /\ SetsFirst(s)
BY DEF OnlySets, SetsFirst

\* The calls of the handlers.
LEMMA PlanOfConnected ==
  ASSUME NEW s, OnlySets(s), NEW entry \in {readStatus, << >>},
         NEW q, q = s \o readStatus \o readOptions \o entry
  PROVE  /\ Planned(q) /\ Publishes(q) # {}
         /\ \A w \in Widgets : Rereads(q, w)
         /\ \A w : Sets(s, w) # {} => Sets(q, w) # {}
<1>. DEFINE a == s \o readStatus
            b == a \o readOptions
<1>1. /\ Planned(a) /\ Publishes(a) # {} /\ \A w \in Widgets : Rereads(a, w)
      /\ \A w : Sets(s, w) # {} => Sets(a, w) # {}
  BY OnlySetsFirst, StatusPlanned
<1>. HIDE DEF a
<1>2. /\ Planned(b) /\ Publishes(b) # {} /\ \A w \in Widgets : Rereads(b, w)
      /\ \A w : Sets(a, w) # {} => Sets(b, w) # {}
  BY <1>1, OptionsPlanned
<1>3. q = b \o entry
  BY DEF a
<1>. HIDE DEF b
<1>4. CASE entry = << >>
  <2>1. b \in Seq(CallSet)
    BY <1>2 DEF Planned
  <2>2. q = b
    BY <1>3, <1>4, <2>1
  <2>. QED BY <1>1, <1>2, <2>2
<1>5. CASE entry = readStatus
  <2>1. b \in Seq(CallSet) /\ SetsFirst(b)
    BY <1>2 DEF Planned
  <2>2. q = b \o readStatus
    BY <1>3, <1>5
  <2>3. /\ Planned(q) /\ Publishes(q) # {} /\ \A w \in Widgets : Rereads(q, w)
        /\ \A w : Sets(b, w) # {} => Sets(q, w) # {}
    BY <2>1, <2>2, StatusPlanned
  <2>. QED BY <1>1, <1>2, <2>3
<1>. QED BY <1>4, <1>5

LEMMA PlanOfSetConfig ==
  ASSUME NEW s, OnlySets(s), NEW q, q = s \o readStatus
  PROVE  /\ Planned(q) /\ Publishes(q) # {}
         /\ \A w \in Widgets : Rereads(q, w)
         /\ \A w : Sets(s, w) # {} => Sets(q, w) # {}
BY OnlySetsFirst, StatusPlanned

LEMMA PlanOfGetStatus ==
  Planned(readStatus) /\ Publishes(readStatus) # {} /\ \A w \in Widgets : Rereads(readStatus, w)
<1>1. OnlySets(<< >>)
  BY DEF OnlySets
<1>2. << >> \o readStatus = readStatus
  BY StatusCalls
<1>. QED BY <1>1, <1>2, PlanOfSetConfig

LEMMA PlanOfGetOptions ==
  Planned(readOptions) /\ Publishes(readOptions) = {}
<1>1. readOptions \in Seq(CallSet) /\ DOMAIN readOptions = 1 .. 4
  BY OptionsCalls
<1>2. \A i \in DOMAIN readOptions : readOptions[i].op = "list"
  BY <1>1, OptionsCalls
<1>3. Publishes(readOptions) = {}
  BY <1>2 DEF Publishes
<1>. QED BY <1>1, <1>2, <1>3 DEF Planned, SetsFirst

----------------------------------------------------------------------------
\* A call that is neither a publish nor a get of w brings w's number no nearer
\* and no further from being shown.
LEMMA ShowsRest ==
  ASSUME NEW q, Planned(q), NEW r, Rest(r, q, 1), q[1].op # "publish",
         NEW w, ~ (q[1].op = "get" /\ q[1].w = w),
         NEW sh, NEW rd, NEW v, ShowsAt(w, q, sh, rd, v)
  PROVE  ShowsAt(w, r, sh, rd, v)
<1>1. q \in Seq(CallSet) /\ Len(q) \in Nat /\ DOMAIN q = 1 .. Len(q) /\ DOMAIN r \subseteq Int
  BY DEF Planned, Rest
<1>2. \A k \in Publishes(q) : k \in Int /\ k >= 1 /\ k # 1
  BY <1>1 DEF Publishes
<1>3. \A k \in Publishes(q) : k - 1 \in Publishes(r)
  <2>1. TAKE k \in Publishes(q)
  <2>2. k - 1 \in Int /\ k - 1 >= 1 /\ (k - 1) + 1 = k
    BY <1>2
  <2>. QED BY <1>1, <2>2, RestPublishes
<1>4. \A k \in Publishes(r) : k \in Int /\ k + 1 \in Publishes(q)
  <2>1. TAKE k \in Publishes(r)
  <2>2. k \in Int
    BY <1>1 DEF Publishes
  <2>. QED BY <1>1, <2>2, RestPublishes
<1>5. Publishes(r) = {} <=> Publishes(q) = {}
  BY <1>3, <1>4
<1>6. (\A i, j \in Publishes(q) : i = j) => \A i, j \in Publishes(r) : i = j
  <2>1. SUFFICES ASSUME \A i, j \in Publishes(q) : i = j, NEW i \in Publishes(r), NEW j \in Publishes(r)
                 PROVE  i = j
    OBVIOUS
  <2>2. i + 1 = j + 1 /\ i \in Int /\ j \in Int
    BY <1>4, <2>1
  <2>. QED BY <2>2
<1>7. Rereads(q, w) => Rereads(r, w)
  <2>1. SUFFICES ASSUME Rereads(q, w) PROVE Rereads(r, w)
    OBVIOUS
  <2>2. PICK j \in DOMAIN q, p \in DOMAIN q : ReadAt(q, w, j, p)
    BY <2>1 DEF Rereads
  <2>3. j # 1
    BY <2>2 DEF ReadAt
  <2>4. j > 1
    BY <1>1, <2>3
  <2>. QED BY <1>1, <2>2, <2>4, RestRereads
<1>. QED BY <1>5, <1>6, <1>7 DEF ShowsAt

\* A get of w: its number is about to be published, or will be read again.
LEMMA ShowsRead ==
  ASSUME NEW q, Planned(q), NEW r, Rest(r, q, 1), q[1].op = "get",
         NEW w \in Widgets, NEW sh, NEW v
  PROVE  ShowsAt(w, r, sh, v, v)
<1>1. q \in Seq(CallSet) /\ Len(q) \in Nat /\ DOMAIN q = 1 .. Len(q) /\ 1 \in DOMAIN q
  BY DEF Planned, Rest
<1>2. PICK p \in Publishes(q) : 1 < p
  BY <1>1 DEF Planned
<1>3. p - 1 \in Int /\ p - 1 >= 1 /\ (p - 1) + 1 = p
  BY <1>1, <1>2 DEF Publishes
<1>4. p - 1 \in Publishes(r)
  BY <1>1, <1>2, <1>3, RestPublishes
<1>5. ASSUME NEW i \in Publishes(r), NEW k \in Publishes(r), i # k
      PROVE  Rereads(r, w)
  BY <1>5, RestReadsTwice
<1>. QED BY <1>4, <1>5 DEF ShowsAt

\* A publish shows what was read, or all is read again before the next one.
LEMMA ShowsPublished ==
  ASSUME NEW q, Planned(q), NEW r, Rest(r, q, 1), q[1].op = "publish",
         NEW w \in Widgets, NEW sh, NEW rd, NEW v, NEW rd2, ShowsAt(w, q, sh, rd, v)
  PROVE  ShowsAt(w, r, rd, rd2, v)
<1>1. q \in Seq(CallSet) /\ Len(q) \in Nat /\ DOMAIN q = 1 .. Len(q) /\ 1 \in DOMAIN q
  BY DEF Planned, Rest
<1>2. 1 \in Publishes(q)
  BY <1>1 DEF Publishes
<1>3. CASE Rereads(q, w)
  <2>1. PICK j \in DOMAIN q, p \in DOMAIN q : ReadAt(q, w, j, p)
    BY <1>3 DEF Rereads
  <2>2. j # 1
    BY <2>1 DEF ReadAt
  <2>3. j > 1
    BY <1>1, <2>2
  <2>4. Rereads(r, w)
    BY <1>1, <2>1, <2>3, RestRereads
  <2>5. p \in Publishes(q) /\ j < p
    BY <2>1 DEF ReadAt, Publishes
  <2>6. p - 1 \in Int /\ p - 1 >= 1 /\ (p - 1) + 1 = p
    BY <1>1, <2>3, <2>5
  <2>7. p - 1 \in Publishes(r)
    BY <1>1, <2>5, <2>6, RestPublishes
  <2>. QED BY <2>4, <2>7 DEF ShowsAt
<1>4. CASE (\A i, j \in Publishes(q) : i = j) /\ rd = v
  <2>1. Publishes(r) = {}
    <3>1. SUFFICES ASSUME NEW k \in Publishes(r) PROVE FALSE
      OBVIOUS
    <3>2. k \in Int /\ k >= 1
      BY DEF Publishes, Rest
    <3>3. k + 1 \in Publishes(q)
      BY <1>1, <3>2, RestPublishes
    <3>4. k + 1 = 1
      BY <1>2, <1>4, <3>3
    <3>. QED BY <3>2, <3>4
  <2>. QED BY <1>4, <2>1 DEF ShowsAt
<1>. QED BY <1>2, <1>3, <1>4 DEF ShowsAt

LEMMA Chosen ==
  ASSUME NEW S, NEW f \in OneOfEach(S)
  PROVE  f = [w \in Widgets |-> f[w]] /\ \A w \in Widgets : f[w] \in S[w]
BY DEF OneOfEach, Widgets

\* What the first call is, and that the rest of a plan is one.
LEMMA Advances ==
  ASSUME Planned(todo), todo # << >>
  PROVE  /\ Head(todo) = todo[1] /\ todo[1] \in CallSet /\ W \in Widgets
         /\ W = todo[1].w
         /\ Rest(Tail(todo), todo, 1) /\ Planned(Tail(todo))
<1>1. todo \in Seq(CallSet) /\ Len(todo) \in Nat /\ Len(todo) >= 1
  BY DEF Planned
<1>2. Head(todo) = todo[1] /\ todo[1] \in CallSet
  BY <1>1
<1>3. W = todo[1].w /\ W \in Widgets
  BY <1>2 DEF W, CallSet
<1>4. Rest(Tail(todo), todo, 1)
  BY <1>1, TailIsRest
<1>. QED BY <1>2, <1>3, <1>4, RestPlanned

----------------------------------------------------------------------------
LEMMA InitInv == Init => SettingsInv
<1>. SUFFICES ASSUME Init PROVE SettingsInv
  OBVIOUS
<1>1. kit \in Kits /\ choices \in OneOfEach(kit.offers) /\ value \in Values(choices)
      /\ reading = NotGiven /\ options = [w \in Widgets |-> << >>] /\ unseen = Widgets
      /\ todo = << >>
  BY DEF Init
<1>2. Shape
  <2>1. choices = [w \in Widgets |-> choices[w]] /\ \A w \in Widgets : choices[w] \in kit.offers[w]
    BY <1>1, Chosen
  <2>2. value = [w \in Widgets |-> value[w]]
    BY <1>1, Chosen DEF Values
  <2>3. reading = [w \in Widgets |-> reading[w]]
    BY <1>1 DEF NotGiven
  <2>. QED BY <1>1, <2>1, <2>2, <2>3 DEF Shape
<1>3. Planned(todo)
  BY <1>1 DEF Planned, SetsFirst, Publishes
<1>. QED BY <1>1, <1>2, <1>3 DEF SettingsInv, Shows

LEMMA ConnectedStep == SettingsInv /\ OnConnected => SettingsInv'
<1>. SUFFICES ASSUME SettingsInv, OnConnected PROVE SettingsInv'
  OBVIOUS
<1>1. PICK entry \in {readStatus, << >>} :
        Begin(setConfig(camera_config) \o readStatus \o readOptions \o entry)
  BY DEF OnConnected
<1>2. /\ todo' = setConfig(camera_config) \o readStatus \o readOptions \o entry
      /\ reading' = reading /\ options' = options
  BY <1>1 DEF Begin
<1>3. kit' = kit /\ choices' \in OneOfEach(kit.offers) /\ value' \in Values(choices')
  BY DEF OnConnected
<1>4. OnlySets(setConfig(camera_config))
  BY SetCalls
<1>5. Planned(todo') /\ Publishes(todo') # {} /\ \A w \in Widgets : Rereads(todo', w)
  BY <1>2, <1>4, PlanOfConnected
<1>6. Shape'
  <2>1. choices' = [w \in Widgets |-> choices'[w]] /\ \A w \in Widgets : choices'[w] \in kit.offers[w]
    BY <1>3, Chosen
  <2>2. value' = [w \in Widgets |-> value'[w]]
    BY <1>3, Chosen DEF Values
  <2>. QED BY <1>2, <1>3, <2>1, <2>2 DEF SettingsInv, Shape
<1>7. Shows'
  BY <1>5 DEF Shows, ShowsAt
<1>. QED BY <1>5, <1>6, <1>7 DEF SettingsInv

\* The handlers that leave the camera as it is at first, and their calls.
LEMMA BegunStep ==
  ASSUME SettingsInv, NEW q, Begin(q), UNCHANGED <<kit, choices, value, unseen>>, Planned(q),
         Publishes(q) = {} \/ \A w \in Widgets : Publishes(q) # {} /\ Rereads(q, w)
  PROVE  SettingsInv'
<1>1. todo' = q /\ todo = << >> /\ reading' = reading /\ options' = options /\ shown' = shown
  BY DEF Begin
<1>2. Shape'
  BY <1>1 DEF SettingsInv, Shape
<1>3. Shows'
  <2>1. SUFFICES ASSUME NEW w \in Widgets \ unseen
                 PROVE  ShowsAt(w, q, shown[w], reading[w], ToInt(w, value[w]))
    BY <1>1 DEF Shows
  <2>2. CASE Publishes(q) = {}
    <3>1. ShowsAt(w, << >>, shown[w], reading[w], ToInt(w, value[w]))
      BY <1>1 DEF SettingsInv, Shows
    <3>2. Publishes(<< >>) = {}
      BY DEF Publishes
    <3>3. shown[w] = ToInt(w, value[w])
      BY <3>1, <3>2 DEF ShowsAt
    <3>. QED BY <2>2, <3>3 DEF ShowsAt
  <2>3. CASE Publishes(q) # {} /\ Rereads(q, w)
    BY <2>3 DEF ShowsAt
  <2>. QED BY <2>2, <2>3
<1>. QED BY <1>1, <1>2, <1>3 DEF SettingsInv

LEMMA CommandStep == SettingsInv /\ (OnSetConfig \/ OnGetStatus \/ OnGetOptions) => SettingsInv'
<1>. SUFFICES ASSUME SettingsInv, OnSetConfig \/ OnGetStatus \/ OnGetOptions PROVE SettingsInv'
  OBVIOUS
<1>1. CASE OnSetConfig
  <2>1. PICK config : Begin(setConfig(config) \o readStatus) /\ UNCHANGED <<camera, history>>
    BY <1>1 DEF OnSetConfig
  <2>2. OnlySets(setConfig(config))
    BY SetCalls
  <2>. DEFINE q == setConfig(config) \o readStatus
  <2>3. Planned(q) /\ Publishes(q) # {} /\ \A w \in Widgets : Rereads(q, w)
    BY <2>2, PlanOfSetConfig
  <2>4. Begin(q) /\ UNCHANGED <<kit, choices, value, unseen>>
    BY <2>1 DEF camera, history
  <2>. HIDE DEF q
  <2>. QED BY <2>3, <2>4, BegunStep
<1>2. CASE OnGetStatus
  <2>1. Begin(readStatus) /\ UNCHANGED <<kit, choices, value, unseen>>
    BY <1>2 DEF OnGetStatus, camera, history
  <2>. QED BY <2>1, PlanOfGetStatus, BegunStep
<1>3. CASE OnGetOptions
  <2>1. Begin(readOptions) /\ UNCHANGED <<kit, choices, value, unseen>>
    BY <1>3 DEF OnGetOptions, camera, history
  <2>. QED BY <2>1, PlanOfGetOptions, BegunStep
<1>. QED BY <1>1, <1>2, <1>3

----------------------------------------------------------------------------
\* A call leaves the lists and the camera's choices alone, and values are
\* written setting by setting.
LEMMA SetStep == SettingsInv /\ (setReturns \/ setThrows) => SettingsInv'
<1>. SUFFICES ASSUME SettingsInv, setReturns \/ setThrows PROVE SettingsInv'
  OBVIOUS
<1>1. Planned(todo) /\ Shape /\ todo # << >> /\ Head(todo).op = "set"
  BY DEF SettingsInv, setReturns, setThrows, Call
<1>2. /\ todo' = Tail(todo) /\ UNCHANGED <<kit, choices, reading, options, shown, unseen>>
      /\ (value' = value \/ \E t : value' = [value EXCEPT ![W] = t])
  <2>1. CASE setReturns
    BY <2>1 DEF setReturns, Call, Then
  <2>2. CASE setThrows
    BY <2>2 DEF setThrows, Call, Then
  <2>. QED BY <2>1, <2>2
<1>3. /\ Planned(todo') /\ Rest(todo', todo, 1) /\ todo[1].op = "set" /\ W \in Widgets
  BY <1>1, <1>2, Advances
<1>4. 1 \in DOMAIN todo
  BY <1>1 DEF Planned
<1>5. \A w \in Widgets : Rereads(todo, w)
  BY <1>1, <1>3, <1>4 DEF Planned
<1>6. Shape'
  <2>1. value' = [w \in Widgets |-> value'[w]]
    BY <1>1, <1>2, <1>3 DEF Shape
  <2>. QED BY <1>1, <1>2, <2>1 DEF Shape
<1>7. Shows'
  <2>1. SUFFICES ASSUME NEW w \in Widgets \ unseen'
                 PROVE  ShowsAt(w, todo', shown'[w], reading'[w], ToInt(w, value'[w]))
    BY DEF Shows
  <2>2. Publishes(todo) # {}
    <3>1. PICK j \in DOMAIN todo, p \in DOMAIN todo : ReadAt(todo, w, j, p)
      BY <1>5 DEF Rereads
    <3>. QED BY <3>1 DEF ReadAt, Publishes
  <2>3. ShowsAt(w, todo, shown'[w], reading'[w], ToInt(w, value'[w]))
    BY <1>5, <2>2 DEF ShowsAt
  <2>. QED BY <1>1, <1>3, <2>3, ShowsRest
<1>. QED BY <1>3, <1>6, <1>7 DEF SettingsInv

LEMMA GetStep == SettingsInv /\ getReturns => SettingsInv'
<1>. SUFFICES ASSUME SettingsInv, getReturns PROVE SettingsInv'
  OBVIOUS
<1>1. Planned(todo) /\ Shape /\ todo # << >> /\ Head(todo).op = "get"
  BY DEF SettingsInv, getReturns, Call
<1>2. /\ todo' = Tail(todo) /\ UNCHANGED <<kit, choices, value, options, shown>>
      /\ reading' = [reading EXCEPT ![W] = ToInt(W, value[W])] /\ unseen' = unseen \ {W}
  BY DEF getReturns, Call, Then
<1>3. /\ Planned(todo') /\ Rest(todo', todo, 1) /\ todo[1].op = "get" /\ W \in Widgets
      /\ W = todo[1].w
  BY <1>1, <1>2, Advances
<1>4. /\ reading' = [w \in Widgets |-> reading'[w]]
      /\ reading'[W] = ToInt(W, value[W]) /\ \A w \in Widgets : w # W => reading'[w] = reading[w]
  BY <1>1, <1>2, <1>3 DEF Shape
<1>5. Shape'
  BY <1>1, <1>2, <1>4 DEF Shape
<1>6. Shows'
  <2>1. SUFFICES ASSUME NEW w \in Widgets \ unseen'
                 PROVE  ShowsAt(w, todo', shown'[w], reading'[w], ToInt(w, value'[w]))
    BY DEF Shows
  <2>2. CASE w = W
    <3>1. ShowsAt(w, todo', shown'[w], ToInt(w, value[w]), ToInt(w, value[w]))
      BY <1>1, <1>3, ShowsRead
    <3>. QED BY <1>2, <1>4, <2>2, <3>1
  <2>3. CASE w # W
    <3>1. ShowsAt(w, todo, shown[w], reading[w], ToInt(w, value[w]))
      BY <1>2, <2>3 DEF SettingsInv, Shows
    <3>2. ShowsAt(w, todo', shown[w], reading[w], ToInt(w, value[w]))
      BY <1>1, <1>3, <2>3, <3>1, ShowsRest
    <3>. QED BY <1>2, <1>4, <2>3, <3>2
  <2>. QED BY <2>2, <2>3
<1>. QED BY <1>3, <1>5, <1>6 DEF SettingsInv

\* readStatus() is left: there is a publish to skip, and a plan behind it.
LEMMA GetThrowsStep == SettingsInv /\ getThrows => SettingsInv'
<1>. SUFFICES ASSUME SettingsInv, getThrows PROVE SettingsInv'
  OBVIOUS
<1>. DEFINE First(i) == /\ todo[i].op = "publish"
                        /\ \A j \in 1 .. i - 1 : todo[j].op # "publish"
            n == CHOOSE i \in DOMAIN todo : First(i)
<1>1. Planned(todo) /\ Shape /\ todo # << >> /\ Head(todo).op = "get"
  BY DEF SettingsInv, getThrows, Call
<1>2. todo \in Seq(CallSet) /\ Len(todo) \in Nat /\ DOMAIN todo = 1 .. Len(todo)
  BY <1>1 DEF Planned
<1>3. /\ todo' = SubSeq(todo, n + 1, Len(todo)) /\ UNCHANGED <<kit, choices, value, options>>
      /\ reading' = NotGiven /\ unseen' = Widgets
  BY DEF getThrows, Call, Then
<1>4. todo[1].op = "get" /\ 1 \in DOMAIN todo
  BY <1>1, <1>2, Advances
<1>5. n \in DOMAIN todo
  <2>1. Publishes(todo) # {}
    BY <1>1, <1>4 DEF Planned
  <2>2. Publishes(todo) \in SUBSET Nat
    BY <1>2 DEF Publishes
  <2>3. PICK i \in Publishes(todo) : \A j \in Publishes(todo) : i <= j
    BY <2>1, <2>2, LeastNumber
  <2>4. i \in DOMAIN todo /\ todo[i].op = "publish" /\ i \in Nat
    BY <1>2 DEF Publishes
  <2>5. ASSUME NEW j \in 1 .. i - 1 PROVE todo[j].op # "publish"
    <3>1. j \in DOMAIN todo /\ ~ (i <= j)
      BY <1>2, <2>4
    <3>. QED BY <2>3, <3>1 DEF Publishes
  <2>6. First(i)
    BY <2>4, <2>5
  <2>. HIDE DEF First
  <2>. QED BY <2>4, <2>6
<1>. HIDE DEF n
<1>6. Rest(todo', todo, n)
  BY <1>2, <1>3, <1>5, SubSeqIsRest
<1>7. Planned(todo')
  BY <1>1, <1>4, <1>6, RestPlanned
<1>8. Shape'
  <2>1. reading' = [w \in Widgets |-> reading'[w]]
    BY <1>3 DEF NotGiven
  <2>. QED BY <1>1, <1>3, <2>1 DEF Shape
<1>9. Shows'
  BY <1>3 DEF Shows
<1>. QED BY <1>7, <1>8, <1>9 DEF SettingsInv

LEMMA PublishStep == SettingsInv /\ publish => SettingsInv'
<1>. SUFFICES ASSUME SettingsInv, publish PROVE SettingsInv'
  OBVIOUS
<1>1. Planned(todo) /\ Shape /\ todo # << >> /\ Head(todo).op = "publish"
  BY DEF SettingsInv, publish, Call
<1>2. /\ todo' = Tail(todo) /\ UNCHANGED <<kit, choices, value, options, unseen>>
      /\ reading' = NotGiven /\ shown' = reading
  BY DEF publish, Call, Then, history
<1>3. Planned(todo') /\ Rest(todo', todo, 1) /\ todo[1].op = "publish"
  BY <1>1, <1>2, Advances
<1>4. Shape'
  <2>1. reading' = [w \in Widgets |-> reading'[w]]
    BY <1>2 DEF NotGiven
  <2>. QED BY <1>1, <1>2, <2>1 DEF Shape
<1>5. Shows'
  <2>1. SUFFICES ASSUME NEW w \in Widgets \ unseen'
                 PROVE  ShowsAt(w, todo', shown'[w], reading'[w], ToInt(w, value'[w]))
    BY DEF Shows
  <2>2. ShowsAt(w, todo, shown[w], reading[w], ToInt(w, value[w]))
    BY <1>2 DEF SettingsInv, Shows
  <2>3. ShowsAt(w, todo', reading[w], reading'[w], ToInt(w, value[w]))
    BY <1>1, <1>3, <2>2, ShowsPublished
  <2>. QED BY <1>2, <2>3
<1>. QED BY <1>3, <1>4, <1>5 DEF SettingsInv

LEMMA ListStep == SettingsInv /\ (listReturns \/ listThrows) => SettingsInv'
<1>. SUFFICES ASSUME SettingsInv, listReturns \/ listThrows PROVE SettingsInv'
  OBVIOUS
<1>1. Planned(todo) /\ Shape /\ todo # << >> /\ Head(todo).op = "list"
  BY DEF SettingsInv, listReturns, listThrows, Call
<1>2. /\ todo' = Tail(todo) /\ UNCHANGED <<kit, choices, value, reading, shown, unseen>>
      /\ (options' = options \/ \E list : options' = [options EXCEPT ![W] = list])
  <2>1. CASE listReturns
    BY <2>1 DEF listReturns, Call, Then
  <2>2. CASE listThrows
    BY <2>2 DEF listThrows, Call, Then, history
  <2>. QED BY <2>1, <2>2
<1>3. Planned(todo') /\ Rest(todo', todo, 1) /\ todo[1].op = "list" /\ W \in Widgets
  BY <1>1, <1>2, Advances
<1>4. Shape'
  <2>1. options' = [w \in Widgets |-> options'[w]]
    BY <1>1, <1>2, <1>3 DEF Shape
  <2>. QED BY <1>1, <1>2, <2>1 DEF Shape
<1>5. Shows'
  <2>1. SUFFICES ASSUME NEW w \in Widgets \ unseen'
                 PROVE  ShowsAt(w, todo', shown'[w], reading'[w], ToInt(w, value'[w]))
    BY DEF Shows
  <2>2. ShowsAt(w, todo, shown[w], reading[w], ToInt(w, value[w]))
    BY <1>2 DEF SettingsInv, Shows
  <2>3. ShowsAt(w, todo', shown[w], reading[w], ToInt(w, value[w]))
    BY <1>1, <1>3, <2>2, ShowsRest
  <2>. QED BY <1>2, <2>3
<1>. QED BY <1>3, <1>4, <1>5 DEF SettingsInv

\* A hand changes one setting, which is then unseen.
LEMMA HandStep ==
  ASSUME SettingsInv, NEW w \in Widgets, Turn(w) \/ Swap(w) \/ Lock(w)
  PROVE  SettingsInv'
<1>1. Shape /\ Planned(todo) /\ Shows
  BY DEF SettingsInv
<1>2. /\ UNCHANGED <<kit, todo, reading, options, shown>> /\ unseen' = unseen \cup {w}
      /\ (value' = value \/ \E t : value' = [value EXCEPT ![w] = t])
      /\ (choices' = choices \/ \E list \in kit.offers[w] : choices' = [choices EXCEPT ![w] = list])
  <2>1. CASE Turn(w)
    BY <2>1 DEF Turn, Touch
  <2>2. CASE Swap(w)
    BY <2>2 DEF Swap, Touch
  <2>3. CASE Lock(w)
    BY <2>3 DEF Lock, Touch
  <2>. QED BY <2>1, <2>2, <2>3
<1>3. value' = [x \in Widgets |-> value'[x]] /\ \A x \in Widgets : x # w => value'[x] = value[x]
  BY <1>1, <1>2 DEF Shape
<1>4. choices' = [x \in Widgets |-> choices'[x]] /\ \A x \in Widgets : choices'[x] \in kit.offers[x]
  BY <1>1, <1>2 DEF Shape
<1>5. Shape'
  BY <1>1, <1>2, <1>3, <1>4 DEF Shape
<1>6. Shows'
  BY <1>1, <1>2, <1>3 DEF Shows
<1>. QED BY <1>1, <1>2, <1>5, <1>6 DEF SettingsInv

LEMMA StepInv == SettingsInv /\ [Next]_vars => SettingsInv'
<1>. SUFFICES ASSUME SettingsInv, [Next]_vars PROVE SettingsInv'
  OBVIOUS
<1>1. CASE UNCHANGED <<kit, choices, value, todo, reading, options, shown, unseen>>
  <2>1. Shape'
    BY <1>1 DEF SettingsInv, Shape
  <2>2. Shows'
    BY <1>1 DEF SettingsInv, Shows
  <2>3. Planned(todo')
    BY <1>1 DEF SettingsInv
  <2>. QED BY <2>1, <2>2, <2>3 DEF SettingsInv
<1>2. CASE Run
  <2>1. CASE Uncaught
    <3>1. UNCHANGED <<kit, choices, value, todo, reading, options, shown, unseen>>
      BY <2>1 DEF Uncaught, Call, history
    <3>. QED BY <1>1, <3>1
  <2>. QED BY <1>2, <2>1, ConnectedStep, CommandStep, SetStep, GetStep, GetThrowsStep,
             PublishStep, ListStep DEF Run
<1>3. CASE Photographer
  BY <1>3, HandStep DEF Photographer
<1>4. CASE UNCHANGED vars
  <2>1. UNCHANGED <<kit, choices, value, todo, reading, options, shown, unseen>>
    BY <1>4 DEF vars, camera, history
  <2>. QED BY <1>1, <2>1
<1>. QED BY <1>2, <1>3, <1>4 DEF Next

LEMMA InvHolds == Spec => []SettingsInv
<1>. QED BY InitInv, StepInv, PTL DEF Spec

\* For every camera, whatever calls fail and whatever hands do: what was
\* published last is what the camera holds, once the thread has handled what it
\* was told (readStatus() at the end of the handlers that set something).
THEOREM StatusIsTrue == Spec => []StatusTrue
<1>1. SettingsInv => StatusTrue
  <2>. SUFFICES ASSUME SettingsInv, Quiet, NEW w \in Widgets \ unseen
                PROVE  shown[w] = ToInt(w, value[w])
    BY DEF StatusTrue
  <2>1. ShowsAt(w, << >>, shown[w], reading[w], ToInt(w, value[w]))
    BY DEF SettingsInv, Shows, Quiet
  <2>2. Publishes(<< >>) = {}
    BY DEF Publishes
  <2>. QED BY <2>1, <2>2 DEF ShowsAt
<1>. QED BY <1>1, InvHolds, PTL

----------------------------------------------------------------------------
\* A list that was read since it changed is the camera's, or is empty.
UpToDate == \A w \in fresh : \/ options[w] = << >>
                             \/ options[w] = [i \in DOMAIN choices[w] |-> ToInt(w, choices[w][i])]

FreshInv == SettingsInv /\ fresh \subseteq Widgets /\ UpToDate

\* How a step changes a published list.
LEMMA ListsChange ==
  ASSUME SettingsInv, [Next]_vars, NEW w \in Widgets, options'[w] # options[w]
  PROVE  /\ choices' = choices
         /\ \/ options'[w] = << >>
            \/ options'[w] = [i \in DOMAIN choices[w] |-> ToInt(w, choices[w][i])]
<1>1. CASE listReturns
  <2>1. Shape /\ W \in Widgets
    BY <1>1, Advances DEF SettingsInv, listReturns, Call
  <2>2. PICK list : /\ \/ list = << >>
                       \/ list = [i \in DOMAIN choices[W] |-> ToInt(W, choices[W][i])]
                    /\ options' = [options EXCEPT ![W] = list]
    BY <1>1 DEF listReturns
  <2>3. w # W => options'[w] = options[w]
    BY <2>1, <2>2 DEF Shape
  <2>4. options'[W] = list
    BY <2>1, <2>2 DEF Shape
  <2>5. choices' = choices
    BY <1>1 DEF listReturns, Call
  <2>. QED BY <2>2, <2>3, <2>4, <2>5
<1>2. CASE options' = options
  BY <1>2
<1>3. CASE Run /\ ~listReturns
  <2>1. options' = options
    BY <1>3 DEF Run, OnConnected, OnSetConfig, OnGetStatus, OnGetOptions, Begin, setReturns,
                setThrows, getReturns, getThrows, publish, listThrows, Uncaught
  <2>. QED BY <1>2, <2>1
<1>4. CASE Photographer
  <2>1. options' = options
    BY <1>4 DEF Photographer, Turn, Swap, Lock, Touch
  <2>. QED BY <1>2, <2>1
<1>5. CASE UNCHANGED vars
  <2>1. options' = options
    BY <1>5 DEF vars
  <2>. QED BY <1>2, <2>1
<1>. QED BY <1>1, <1>3, <1>4, <1>5 DEF Next

\* How a step changes what a list should be.
LEMMA FreshChange ==
  ASSUME SettingsInv, [Next]_vars, fresh \subseteq Widgets
  PROVE  /\ fresh' \subseteq Widgets
         /\ \A w \in fresh' : w \notin fresh => listReturns /\ w = W
         /\ \A w \in fresh' : choices'[w] = choices[w]
<1>1. CASE listReturns
  <2>1. W \in Widgets
    BY <1>1, Advances DEF SettingsInv, listReturns, Call
  <2>2. fresh' = fresh \cup {W} /\ choices' = choices
    BY <1>1 DEF listReturns, Call
  <2>. QED BY <1>1, <2>1, <2>2
<1>2. CASE OnConnected
  <2>1. fresh' = {}
    BY <1>2 DEF OnConnected
  <2>. QED BY <2>1
<1>3. CASE fresh' = fresh /\ choices' = choices
  BY <1>3
<1>4. CASE Run /\ ~listReturns /\ ~OnConnected
  <2>1. fresh' = fresh /\ choices' = choices
    BY <1>4 DEF Run, OnSetConfig, OnGetStatus, OnGetOptions, setReturns, setThrows, getReturns,
                getThrows, publish, listThrows, Uncaught, Call, camera, history
  <2>. QED BY <1>3, <2>1
<1>5. ASSUME NEW x \in Widgets, Turn(x) \/ Swap(x) \/ Lock(x)
      PROVE  fresh' \subseteq fresh /\ \A w \in fresh' : choices'[w] = choices[w]
  <2>1. CASE Turn(x)
    BY <2>1 DEF Turn
  <2>2. CASE Swap(x)
    <3>1. PICK list : choices' = [choices EXCEPT ![x] = list]
      BY <2>2 DEF Swap
    <3>2. fresh' = fresh \ {x}
      BY <2>2 DEF Swap
    <3>3. \A w \in Widgets : w # x => choices'[w] = choices[w]
      BY <3>1 DEF SettingsInv, Shape
    <3>. QED BY <3>2, <3>3
  <2>3. CASE Lock(x)
    BY <2>3 DEF Lock
  <2>. QED BY <1>5, <2>1, <2>2, <2>3
<1>6. CASE Photographer
  BY <1>5, <1>6 DEF Photographer
<1>7. CASE UNCHANGED vars
  BY <1>3, <1>7 DEF vars, camera, history
<1>. QED BY <1>1, <1>2, <1>4, <1>6, <1>7 DEF Next

LEMMA FreshHolds == Spec => []FreshInv
<1>1. Init => FreshInv
  <2>1. Init => fresh = {}
    BY DEF Init
  <2>. QED BY <2>1, InitInv DEF FreshInv, UpToDate
<1>2. FreshInv /\ [Next]_vars => FreshInv'
  <2>. SUFFICES ASSUME FreshInv, [Next]_vars PROVE FreshInv'
    OBVIOUS
  <2>1. SettingsInv /\ SettingsInv' /\ fresh \subseteq Widgets
    BY StepInv DEF FreshInv
  <2>2. /\ fresh' \subseteq Widgets
        /\ \A w \in fresh' : w \notin fresh => listReturns /\ w = W
        /\ \A w \in fresh' : choices'[w] = choices[w]
    BY <2>1, FreshChange
  <2>3. ASSUME NEW w \in fresh'
        PROVE  \/ options'[w] = << >>
               \/ options'[w] = [i \in DOMAIN choices'[w] |-> ToInt(w, choices'[w][i])]
    <3>1. CASE options'[w] # options[w]
      BY <2>1, <2>2, <3>1, ListsChange
    <3>2. CASE options'[w] = options[w] /\ w \in fresh
      BY <2>2, <3>2 DEF FreshInv, UpToDate
    <3>3. CASE listReturns /\ w = W
      <4>1. PICK list : /\ \/ list = << >>
                           \/ list = [i \in DOMAIN choices[W] |-> ToInt(W, choices[W][i])]
                        /\ options' = [options EXCEPT ![W] = list]
        BY <3>3 DEF listReturns
      <4>2. W \in Widgets
        BY <2>1, <3>3, Advances DEF SettingsInv, listReturns, Call
      <4>3. options'[W] = list
        BY <2>1, <4>1, <4>2 DEF SettingsInv, Shape
      <4>. QED BY <2>2, <3>3, <4>1, <4>3
    <3>. QED BY <2>2, <3>1, <3>2, <3>3
  <2>. QED BY <2>1, <2>2, <2>3 DEF FreshInv, UpToDate
<1>. QED BY <1>1, <1>2, PTL DEF Spec

\* For every camera, whatever it offers and whenever the hand on its wheels swaps a
\* list, and whichever calls fail: the list published last for a setting (listISOs()
\* and so on) is the camera's present one, value by value converted, or is empty;
\* that is, no answer about another setting, and no earlier list, is taken for it
\* until the camera's own list changes behind the controller's back.
THEOREM ListsAreTheCameras == Spec => []UpToDate
<1>1. FreshInv => UpToDate
  BY DEF FreshInv
<1>. QED BY <1>1, FreshHolds, PTL

----------------------------------------------------------------------------
\* A setting that was asked for is in force or will be set.
InForce == \A w \in Widgets \ excused :
             Given(w, camera_config[w]) =>
               Sets(todo, w) # {} \/ ToInt(w, value[w]) = camera_config[w]

LEMMA NothingSet ==
  ASSUME Planned(todo), todo = << >> \/ Head(todo).op # "set", NEW w
  PROVE  Sets(todo, w) = {}
<1>1. CASE todo = << >>
  BY <1>1 DEF Sets
<1>2. CASE todo # << >>
  <2>1. todo \in Seq(CallSet) /\ Len(todo) \in Nat /\ 1 \in DOMAIN todo /\ DOMAIN todo = 1 .. Len(todo)
    BY <1>2 DEF Planned
  <2>2. todo[1].op # "set"
    BY <1>2, Advances
  <2>3. \A i \in DOMAIN todo : i = 1 \/ 1 < i
    BY <2>1
  <2>4. \A i \in DOMAIN todo : todo[i].op # "set"
    BY <2>1, <2>2, <2>3 DEF Planned, SetsFirst
  <2>. QED BY <2>4 DEF Sets
<1>. QED BY <1>1, <1>2

LEMMA RestSets ==
  ASSUME NEW q \in Seq(CallSet), NEW r, Rest(r, q, 1), NEW w, Sets(q, w) # {}, q[1].w # w
  PROVE  Sets(r, w) # {}
<1>1. PICK i \in DOMAIN q : q[i].op = "set" /\ q[i].w = w
  BY DEF Sets
<1>2. Len(q) \in Nat /\ DOMAIN q = 1 .. Len(q) /\ DOMAIN r = 1 .. Len(r) /\ Len(r) = Len(q) - 1
  BY DEF Rest
<1>3. i - 1 \in DOMAIN r /\ (i - 1) + 1 = i
  BY <1>1, <1>2
<1>4. r[i - 1] = q[i]
  BY <1>2, <1>3 DEF Rest
<1>. QED BY <1>1, <1>3, <1>4 DEF Sets

LEMMA InForceStep ==
  ASSUME \A k \in Kits : Exact(k), SettingsInv, InForce, [Next]_vars
  PROVE  InForce'
<1>1. Planned(todo) /\ Shape
  BY DEF SettingsInv
<1>2. CASE OnConnected \/ OnSetConfig
  <2>1. \A w \in Widgets : Given(w, camera_config'[w]) => Sets(todo', w) # {}
    <3>1. CASE OnConnected
      <4>1. PICK entry \in {readStatus, << >>} :
              todo' = setConfig(camera_config) \o readStatus \o readOptions \o entry
        BY <3>1 DEF OnConnected, Begin
      <4>2. camera_config' = camera_config
        BY <3>1 DEF OnConnected
      <4>3. /\ OnlySets(setConfig(camera_config))
            /\ \A w \in Widgets : Given(w, camera_config[w]) => Sets(setConfig(camera_config), w) # {}
        BY SetCalls
      <4>4. \A w : Sets(setConfig(camera_config), w) # {} => Sets(todo', w) # {}
        BY <4>1, <4>3, PlanOfConnected
      <4>. QED BY <4>2, <4>3, <4>4
    <3>2. CASE OnSetConfig
      <4>1. PICK config : todo' = setConfig(config) \o readStatus /\ camera_config' = config
        BY <3>2 DEF OnSetConfig, Begin
      <4>2. /\ OnlySets(setConfig(config))
            /\ \A w \in Widgets : Given(w, config[w]) => Sets(setConfig(config), w) # {}
        BY SetCalls
      <4>3. \A w : Sets(setConfig(config), w) # {} => Sets(todo', w) # {}
        BY <4>1, <4>2, PlanOfSetConfig
      <4>. QED BY <4>1, <4>2, <4>3
    <3>. QED BY <1>2, <3>1, <3>2
  <2>. QED BY <2>1 DEF InForce
\* Where nothing is left to be set, all is in force, and stays so.
<1>3. ASSUME todo = << >> \/ Head(todo).op # "set",
             UNCHANGED <<value, camera_config, excused>>
      PROVE  InForce'
  <2>1. \A w \in Widgets \ excused : Given(w, camera_config[w]) => ToInt(w, value[w]) = camera_config[w]
    BY <1>1, <1>3, NothingSet DEF InForce
  <2>. QED BY <1>3, <2>1 DEF InForce
<1>4. CASE OnGetStatus \/ OnGetOptions
  <2>1. todo = << >> /\ UNCHANGED <<value, camera_config, excused>>
    BY <1>4 DEF OnGetStatus, OnGetOptions, Begin, camera, history
  <2>. QED BY <1>3, <2>1
<1>5. CASE getReturns \/ getThrows \/ publish \/ listReturns \/ listThrows
  <2>1. Head(todo).op # "set" /\ UNCHANGED <<value, camera_config, excused>>
    BY <1>5 DEF getReturns, getThrows, publish, listReturns, listThrows, Call, history
  <2>. QED BY <1>3, <2>1
<1>6. ASSUME UNCHANGED <<value, todo, camera_config, excused>> PROVE InForce'
  BY <1>6 DEF InForce
<1>7. CASE Uncaught
  BY <1>6, <1>7 DEF Uncaught, Call, history
<1>8. CASE UNCHANGED vars
  BY <1>6, <1>8 DEF vars, camera, history
<1>9. CASE setReturns \/ setThrows
  <2>1. /\ todo # << >> /\ todo' = Tail(todo) /\ camera_config' = camera_config
    BY <1>9 DEF setReturns, setThrows, Call, Then
  <2>2. W \in Widgets /\ W = todo[1].w /\ Rest(todo', todo, 1) /\ todo \in Seq(CallSet)
    BY <1>1, <2>1, Advances DEF Planned
  <2>3. /\ \A w \in Widgets : w # W => value'[w] = value[w]
        /\ \A w \in Widgets : w # W /\ w \notin excused' => w \notin excused
    <3>1. CASE setReturns
      BY <1>1, <2>2, <3>1 DEF setReturns, Shape
    <3>2. CASE setThrows
      BY <3>2 DEF setThrows
    <3>. QED BY <1>9, <3>1, <3>2
  <2>4. ASSUME NEW w \in Widgets \ excused', w # W, Given(w, camera_config[w])
        PROVE  Sets(todo', w) # {} \/ ToInt(w, value'[w]) = camera_config[w]
    <3>1. Sets(todo, w) # {} \/ ToInt(w, value[w]) = camera_config[w]
      BY <2>3, <2>4 DEF InForce
    <3>2. Sets(todo, w) # {} => Sets(todo', w) # {}
      BY <2>2, <2>4, RestSets
    <3>. QED BY <2>3, <2>4, <3>1, <3>2
  <2>5. ASSUME W \notin excused', Given(W, camera_config[W])
        PROVE  ToInt(W, value'[W]) = camera_config[W]
    <3>1. setReturns /\ Wanted \in Listed(W)
      BY <1>9, <2>5 DEF setReturns, setThrows
    <3>2. PICK i \in DOMAIN choices[W] : Wanted = ToInt(W, choices[W][i])
      BY <3>1 DEF Listed
    <3>3. choices[W][i] \in Range(choices[W]) /\ choices[W] \in kit.offers[W] /\ Exact(kit)
      BY <1>1, <2>2 DEF Range, Shape
    <3>4. Wanted = camera_config[W]
      BY DEF Wanted
    <3>5. ToText(W, Wanted) \in Range(choices[W]) /\ ToInt(W, ToText(W, Wanted)) = Wanted
      <4>1. \A t \in Range(choices[W]) :
              Given(W, ToInt(W, t)) => /\ ToText(W, ToInt(W, t)) \in Range(choices[W])
                                       /\ ToInt(W, ToText(W, ToInt(W, t))) = ToInt(W, t)
        BY <2>2, <3>3 DEF Exact
      <4>2. Given(W, ToInt(W, choices[W][i]))
        BY <2>5, <3>2, <3>4
      <4>. QED BY <3>2, <3>3, <4>1, <4>2
    <3>6. value' = [value EXCEPT ![W] = ToText(W, Wanted)]
      BY <3>1, <3>5 DEF setReturns
    <3>7. value'[W] = ToText(W, Wanted)
      BY <1>1, <2>2, <3>6 DEF Shape
    <3>. QED BY <3>4, <3>5, <3>7
  <2>. QED BY <2>1, <2>4, <2>5 DEF InForce
<1>10. ASSUME NEW x \in Widgets, Turn(x) \/ Swap(x) \/ Lock(x) PROVE InForce'
  <2>1. UNCHANGED <<todo, camera_config>> /\ excused' = excused \cup {x}
    BY <1>10 DEF Turn, Swap, Lock, Touch
  <2>2. \A w \in Widgets : w # x => value'[w] = value[w]
    BY <1>1, <1>10 DEF Turn, Swap, Lock, Shape
  <2>. QED BY <2>1, <2>2 DEF InForce
<1>11. CASE Photographer
  BY <1>10, <1>11 DEF Photographer
<1>. QED BY <1>2, <1>4, <1>5, <1>7, <1>8, <1>9, <1>11 DEF Next, Run

\* For every camera whose lists survive the conversions: a setting a client took
\* from the list is in force, in this session and in every later one, unless an
\* error was posted or a hand was faster (setConfig() at EV_CAMERA_CONNECTED and
\* EV_CAMERA_SET_CONFIG).
THEOREM SettingsAreRestored ==
  ASSUME \A k \in Kits : Exact(k)
  PROVE  Spec => []Restored
<1>1. Init => InForce
  <2>. SUFFICES ASSUME Init, NEW w \in Widgets PROVE ~Given(w, camera_config[w])
    BY DEF InForce
  <2>. QED BY DEF Init, NotGiven, Given, Widgets
<1>2. SettingsInv /\ InForce /\ [Next]_vars => InForce'
  BY InForceStep
<1>3. SettingsInv /\ InForce => Restored
  <2>. SUFFICES ASSUME SettingsInv, InForce, Quiet, NEW w \in Widgets \ excused,
                       Given(w, camera_config[w])
                PROVE  ToInt(w, value[w]) = camera_config[w]
    BY DEF Restored
  <2>1. Sets(todo, w) = {}
    BY DEF Quiet, Sets
  <2>. QED BY <2>1 DEF InForce
<1>. QED BY <1>1, <1>2, <1>3, InvHolds, PTL DEF Spec

----------------------------------------------------------------------------
(* findNearest().  The window of the binary search is a recursive function;  *)
(* that there is one that satisfies its definition is shown for any loop on  *)
(* a set D that stops at the members of stop, goes from another x to sub[x], *)
(* which is smaller, and ends with res.                                      *)

\* f is what the loop returns from the places of size n or less.
Solves(D, stop, sub, res, size, f, n) ==
  \A x \in D : size[x] <= n => f[x] = IF x \in stop THEN res[x] ELSE f[sub[x]]

LEMMA SolutionExists ==
  ASSUME NEW D, NEW stop, NEW sub, NEW res, NEW size \in [D -> Nat],
         \A x \in D \ stop : sub[x] \in D /\ size[sub[x]] < size[x],
         NEW n \in Nat
  PROVE  \E f : f = [x \in D |-> f[x]] /\ Solves(D, stop, sub, res, size, f, n)
<1>. DEFINE P(m) == \E f : f = [x \in D |-> f[x]] /\ Solves(D, stop, sub, res, size, f, m)
            T == {m \in Nat : ~P(m)}
<1>1. SUFFICES ASSUME T # {} PROVE FALSE
  OBVIOUS
<1>2. PICK m \in T : \A y \in T : m <= y
  <2>1. T \in SUBSET Nat
    OBVIOUS
  <2>. HIDE DEF T
  <2>. QED BY <1>1, <2>1, LeastNumber
<1>3. PICK f : m # 0 => Solves(D, stop, sub, res, size, f, m - 1)
  <2>1. CASE m = 0
    BY <2>1
  <2>2. CASE m # 0
    <3>1. m - 1 \in Nat /\ ~ (m <= m - 1)
      BY <2>2
    <3>2. P(m - 1)
      BY <1>2, <3>1
    <3>. QED BY <3>2
  <2>. QED BY <2>1, <2>2
<1>. DEFINE g == [x \in D |-> IF x \in stop THEN res[x] ELSE f[sub[x]]]
<1>4. ASSUME NEW x \in D, size[x] <= m PROVE g[x] = IF x \in stop THEN res[x] ELSE g[sub[x]]
  <2>1. CASE x \in stop
    BY <2>1
  <2>2. CASE x \notin stop
    <3>1. sub[x] \in D /\ size[sub[x]] \in Nat /\ size[x] \in Nat /\ m \in Nat /\ size[sub[x]] < size[x]
      BY <2>2
    <3>2. m # 0 /\ size[sub[x]] <= m - 1
      BY <1>4, <3>1
    <3>3. f[sub[x]] = IF sub[x] \in stop THEN res[sub[x]] ELSE f[sub[sub[x]]]
      BY <1>3, <3>1, <3>2 DEF Solves
    <3>4. g[sub[x]] = f[sub[x]]
      BY <3>1, <3>3
    <3>. QED BY <2>2, <3>4
  <2>. QED BY <2>1, <2>2
<1>5. g = [x \in D |-> g[x]]
  OBVIOUS
<1>6. Solves(D, stop, sub, res, size, g, m)
  BY <1>4 DEF Solves
<1>. QED BY <1>5, <1>6

LEMMA SolutionUnique ==
  ASSUME NEW D, NEW stop, NEW sub, NEW res, NEW size \in [D -> Nat],
         \A x \in D \ stop : sub[x] \in D /\ size[sub[x]] < size[x],
         NEW n \in Nat, NEW k \in Nat, NEW f, NEW g, NEW z \in D, size[z] <= n, size[z] <= k,
         Solves(D, stop, sub, res, size, f, n), Solves(D, stop, sub, res, size, g, k)
  PROVE  f[z] = g[z]
<1>. DEFINE T == {m \in Nat : \E x \in D : size[x] = m /\ size[x] <= n /\ size[x] <= k /\ f[x] # g[x]}
<1>1. SUFFICES ASSUME T # {} PROVE FALSE
  <2>1. size[z] \in Nat
    OBVIOUS
  <2>. QED BY <2>1
<1>2. PICK m \in T : \A y \in T : m <= y
  <2>1. T \in SUBSET Nat
    OBVIOUS
  <2>. HIDE DEF T
  <2>. QED BY <1>1, <2>1, LeastNumber
<1>3. PICK x \in D : size[x] = m /\ size[x] <= n /\ size[x] <= k /\ f[x] # g[x]
  OBVIOUS
<1>4. f[x] = (IF x \in stop THEN res[x] ELSE f[sub[x]]) /\ g[x] = (IF x \in stop THEN res[x] ELSE g[sub[x]])
  BY <1>3 DEF Solves
<1>5. x \notin stop /\ f[sub[x]] # g[sub[x]]
  BY <1>3, <1>4
<1>6. sub[x] \in D /\ size[sub[x]] \in Nat /\ size[x] \in Nat /\ size[sub[x]] < size[x]
  BY <1>5
<1>7. size[sub[x]] <= n /\ size[sub[x]] <= k /\ ~ (m <= size[sub[x]])
  BY <1>3, <1>6
<1>8. size[sub[x]] \in T
  BY <1>5, <1>6, <1>7
<1>. QED BY <1>2, <1>7, <1>8

Loop(D, stop, sub, res, f) == f = [x \in D |-> IF x \in stop THEN res[x] ELSE f[sub[x]]]

\* The loop has a result from everywhere.
LEMMA LoopEnds ==
  ASSUME NEW D, NEW stop, NEW sub, NEW res, NEW size \in [D -> Nat],
         \A x \in D \ stop : sub[x] \in D /\ size[sub[x]] < size[x]
  PROVE  \E f : Loop(D, stop, sub, res, f)
<1>. DEFINE Sol(f, n) == f = [x \in D |-> f[x]] /\ Solves(D, stop, sub, res, size, f, n)
            sol(n) == CHOOSE f : Sol(f, n)
            F == [x \in D |-> sol(size[x])[x]]
<1>1. \A n \in Nat : \E f : Sol(f, n)
  BY SolutionExists
<1>2. ASSUME NEW n \in Nat PROVE Sol(sol(n), n)
  <2>1. \E f : Sol(f, n)
    BY <1>1
  <2>. HIDE DEF Sol
  <2>. QED BY <2>1
<1>3. \A n \in Nat : Solves(D, stop, sub, res, size, sol(n), n)
  BY <1>2
<1>. HIDE DEF sol
<1>4. ASSUME NEW x \in D PROVE F[x] = IF x \in stop THEN res[x] ELSE F[sub[x]]
  <2>1. size[x] \in Nat /\ size[x] <= size[x]
    OBVIOUS
  <2>2. F[x] = IF x \in stop THEN res[x] ELSE sol(size[x])[sub[x]]
    BY <1>3, <2>1 DEF Solves
  <2>3. CASE x \notin stop
    <3>1. sub[x] \in D /\ size[sub[x]] \in Nat /\ size[sub[x]] < size[x]
      BY <2>3
    <3>2. size[sub[x]] <= size[x] /\ size[sub[x]] <= size[sub[x]]
      BY <2>1, <3>1
    <3>3. sol(size[x])[sub[x]] = sol(size[sub[x]])[sub[x]]
      BY <1>3, <2>1, <3>1, <3>2, SolutionUnique
    <3>. QED BY <2>2, <2>3, <3>1, <3>3
  <2>4. CASE x \in stop
    BY <2>2, <2>4
  <2>. QED BY <2>3, <2>4
<1>5. F = [x \in D |-> F[x]]
  OBVIOUS
<1>. HIDE DEF F
<1>. QED BY <1>4, <1>5 DEF Loop

\* f returns the last window of the search for v in s.
Middle(w) == (w[1] + w[2]) \div 2
Halves(s, v, f) ==
  f = [w \in Nat \X Nat |->
         IF w[2] - w[1] <= 1 THEN w
         ELSE IF v = s[(w[1] + w[2]) \div 2] THEN <<(w[1] + w[2]) \div 2, (w[1] + w[2]) \div 2>>
         ELSE IF v > s[(w[1] + w[2]) \div 2] THEN f[<<(w[1] + w[2]) \div 2, w[2]>>]
         ELSE f[<<w[1], (w[1] + w[2]) \div 2>>]]

LEMMA SearchEnds ==
  ASSUME NEW s, NEW v
  PROVE  \E f : Halves(s, v, f)
<1>. DEFINE D == Nat \X Nat
            stop == {w \in D : w[2] - w[1] <= 1 \/ v = s[Middle(w)]}
            res == [w \in D |-> IF w[2] - w[1] <= 1 THEN w ELSE <<Middle(w), Middle(w)>>]
            sub == [w \in D |-> IF v > s[Middle(w)] THEN <<Middle(w), w[2]>> ELSE <<w[1], Middle(w)>>]
            size == [w \in D |-> IF w[2] >= w[1] THEN w[2] - w[1] ELSE 0]
<1>1. size \in [D -> Nat]
  OBVIOUS
<1>2. ASSUME NEW w \in D PROVE w[1] \in Nat /\ w[2] \in Nat /\ Middle(w) \in Nat
  BY DEF Middle
<1>3. ASSUME NEW w \in D \ stop PROVE sub[w] \in D /\ size[sub[w]] < size[w]
  <2>1. w[1] \in Nat /\ w[2] \in Nat /\ Middle(w) \in Nat /\ w[2] - w[1] > 1
    BY <1>2
  <2>2. w[1] < Middle(w) /\ Middle(w) < w[2]
    BY <2>1 DEF Middle
  <2>3. <<Middle(w), w[2]>> \in D /\ <<w[1], Middle(w)>> \in D
    BY <2>1
  <2>4. size[w] = w[2] - w[1]
    BY <2>1
  <2>5. size[<<Middle(w), w[2]>>] = w[2] - Middle(w) /\ size[<<w[1], Middle(w)>>] = Middle(w) - w[1]
    BY <2>1, <2>2, <2>3
  <2>6. sub[w] = <<Middle(w), w[2]>> \/ sub[w] = <<w[1], Middle(w)>>
    OBVIOUS
  <2>. QED BY <2>1, <2>2, <2>3, <2>4, <2>5, <2>6
<1>. HIDE DEF size
<1>4. PICK f : Loop(D, stop, sub, res, f)
  <2>1. \A w \in D \ stop : sub[w] \in D /\ size[sub[w]] < size[w]
    BY <1>3
  <2>. HIDE DEF D, stop, res, sub
  <2>. QED BY <1>1, <2>1, LoopEnds
<1>5. ASSUME NEW w \in D
      PROVE  f[w] = IF w[2] - w[1] <= 1 THEN w
                    ELSE IF v = s[Middle(w)] THEN <<Middle(w), Middle(w)>>
                    ELSE IF v > s[Middle(w)] THEN f[<<Middle(w), w[2]>>]
                    ELSE f[<<w[1], Middle(w)>>]
  <2>1. f[w] = IF w \in stop THEN res[w] ELSE f[sub[w]]
    <3>. HIDE DEF D, stop, res, sub
    <3>. QED BY <1>4 DEF Loop
  <2>2. w \in stop <=> w[2] - w[1] <= 1 \/ v = s[Middle(w)]
    OBVIOUS
  <2>3. res[w] = IF w[2] - w[1] <= 1 THEN w ELSE <<Middle(w), Middle(w)>>
    OBVIOUS
  <2>4. sub[w] = IF v > s[Middle(w)] THEN <<Middle(w), w[2]>> ELSE <<w[1], Middle(w)>>
    OBVIOUS
  <2>. HIDE DEF D, stop, res, sub
  <2>. QED BY <2>1, <2>2, <2>3, <2>4
<1>6. f = [w \in D |-> f[w]]
  <2>. HIDE DEF D, stop, res, sub
  <2>. QED BY <1>4 DEF Loop
<1>7. Halves(s, v, f)
  BY <1>5, <1>6 DEF Halves, Middle
<1>. QED BY <1>7

Search(s, v, f) ==
  \A a, b \in Nat :
    f[<<a, b>>] = IF b - a <= 1 THEN <<a, b>>
                  ELSE IF v = s[(a + b) \div 2] THEN <<(a + b) \div 2, (a + b) \div 2>>
                  ELSE IF v > s[(a + b) \div 2] THEN f[<<(a + b) \div 2, b>>]
                  ELSE f[<<a, (a + b) \div 2>>]

LEMMA BisectUnfolds ==
  ASSUME NEW s, NEW v
  PROVE  \E f : Bisect(s, v) = f[<<1, Len(s)>>] /\ Search(s, v, f)
<1>. DEFINE f == CHOOSE g : Halves(s, v, g)
<1>1. Halves(s, v, f)
  BY SearchEnds
<1>2. Bisect(s, v) = f[<<1, Len(s)>>]
  BY DEF Bisect, Halves
<1>. HIDE DEF f
<1>3. Search(s, v, f)
  BY <1>1 DEF Halves, Search
<1>. QED BY <1>2, <1>3

\* The search encloses the value, or finds it.
Encloses(s, v, r) ==
  \E x, y \in 1 .. Len(s) : /\ r = <<x, y>>
                            /\ \/ x = y /\ s[x] = v
                               \/ y = x + 1 /\ s[x] < v /\ v < s[y]

LEMMA Midpoint ==
  ASSUME NEW n \in Nat, NEW a \in 1 .. n, NEW b \in 1 .. n, b - a > 1
  PROVE  (a + b) \div 2 \in 1 .. n /\ a < (a + b) \div 2 /\ (a + b) \div 2 < b
OBVIOUS

LEMMA BisectEncloses ==
  ASSUME NEW s \in Seq(Int), NEW v \in Int, Len(s) > 1, s[1] < v, v < s[Len(s)]
  PROVE  Encloses(s, v, Bisect(s, v))
<1>1. PICK f : Bisect(s, v) = f[<<1, Len(s)>>] /\ Search(s, v, f)
  BY BisectUnfolds
<1>2. Len(s) \in Nat /\ \A i \in 1 .. Len(s) : s[i] \in Int
  OBVIOUS
<1>. DEFINE Around(a, b) == a < b /\ s[a] < v /\ v < s[b]
            Bad(a, b) == Around(a, b) /\ ~Encloses(s, v, f[<<a, b>>])
            T == {m \in Nat : \E a, b \in 1 .. Len(s) : b - a = m /\ Bad(a, b)}
<1>3. T = {}
  <2>1. SUFFICES ASSUME T # {} PROVE FALSE
    OBVIOUS
  <2>2. PICK m \in T : \A y \in T : m <= y
    <3>1. T \in SUBSET Nat
      OBVIOUS
    <3>. HIDE DEF T
    <3>. QED BY <2>1, <3>1, LeastNumber
  <2>3. PICK a \in 1 .. Len(s), b \in 1 .. Len(s) : b - a = m /\ Bad(a, b)
    OBVIOUS
  <2>. DEFINE c == (a + b) \div 2
  <2>4. a \in Nat /\ b \in Nat /\ a < b
    BY <2>3
  <2>5. f[<<a, b>>] = IF b - a <= 1 THEN <<a, b>>
                      ELSE IF v = s[c] THEN <<c, c>>
                      ELSE IF v > s[c] THEN f[<<c, b>>] ELSE f[<<a, c>>]
    BY <1>1, <2>4 DEF Search
  <2>6. b - a > 1 => c \in 1 .. Len(s) /\ a < c /\ c < b
    BY <1>2, <2>4, Midpoint
  <2>. HIDE DEF c
  <2>m. m = b - a
    BY <2>3
  <2>7. CASE b - a <= 1
    <3>1. b = a + 1 /\ f[<<a, b>>] = <<a, b>>
      BY <2>4, <2>5, <2>7
    <3>2. Encloses(s, v, f[<<a, b>>])
      BY <2>3, <3>1 DEF Encloses
    <3>. QED BY <2>3, <3>2
  <2>8. CASE b - a > 1
    <3>0. c \in 1 .. Len(s) /\ a < c /\ c < b /\ c \in Nat /\ s[c] \in Int /\ ~ (b - a <= 1)
      BY <1>2, <2>4, <2>6, <2>8
    <3>1. CASE v = s[c]
      <4>1. f[<<a, b>>] = <<c, c>>
        BY <2>5, <3>0, <3>1
      <4>2. Encloses(s, v, f[<<a, b>>])
        BY <3>0, <3>1, <4>1 DEF Encloses
      <4>. QED BY <2>3, <4>2
    <3>2. CASE v > s[c]
      <4>1. f[<<a, b>>] = f[<<c, b>>]
        BY <2>5, <3>0, <3>2
      <4>2. Bad(c, b)
        BY <2>3, <3>0, <3>2, <4>1
      <4>3. b - c \in Nat /\ ~ (m <= b - c)
        BY <2>4, <2>m, <3>0
      <4>4. b - c \in T
        BY <3>0, <4>2, <4>3
      <4>. QED BY <2>2, <4>3, <4>4
    <3>3. CASE v < s[c]
      <4>1. f[<<a, b>>] = f[<<a, c>>]
        BY <2>5, <3>0, <3>3
      <4>2. Bad(a, c)
        BY <2>3, <3>0, <3>3, <4>1
      <4>3. c - a \in Nat /\ ~ (m <= c - a)
        BY <2>4, <2>m, <3>0
      <4>4. c - a \in T
        BY <3>0, <4>2, <4>3
      <4>. QED BY <2>2, <4>3, <4>4
    <3>. QED BY <3>0, <3>1, <3>2, <3>3
  <2>. QED BY <2>4, <2>7, <2>8
<1>4. 1 \in 1 .. Len(s) /\ Len(s) \in 1 .. Len(s) /\ Len(s) - 1 \in Nat
  BY <1>2
<1>5. Around(1, Len(s))
  BY <1>2
<1>6. ~Bad(1, Len(s))
  <2>. HIDE DEF Bad
  <2>. QED BY <1>3, <1>4
<1>. QED BY <1>1, <1>5, <1>6

\* n is a value of s, and none is nearer to v.
Nearest(s, v, n) == /\ n \in Range(s)
                    /\ \A i \in DOMAIN s : Distance(n, v) <= Distance(s[i], v)

LEMMA FindsNearest ==
  ASSUME NEW s \in Seq(Int), s # << >>, Increasing(s), NEW v \in Int
  PROVE  Nearest(s, v, findNearest(s, v))
<1>1. Len(s) \in Nat /\ Len(s) >= 1 /\ DOMAIN s = 1 .. Len(s) /\ \A i \in 1 .. Len(s) : s[i] \in Int
  OBVIOUS
<1>2. \A i, j \in 1 .. Len(s) : i <= j => s[i] <= s[j]
  <2>1. TAKE i, j \in 1 .. Len(s)
  <2>2. i < j => s[i] < s[j]
    BY <1>1 DEF Increasing
  <2>3. i \in Int /\ j \in Int /\ s[i] \in Int /\ s[j] \in Int
    BY <1>1
  <2>. QED BY <2>2, <2>3
<1>. DEFINE m == Len(s)
<1>3. ASSUME v <= s[1] \/ m = 1 PROVE Nearest(s, v, s[1])
  <2>1. 1 \in DOMAIN s /\ s[1] \in Range(s)
    BY <1>1 DEF Range
  <2>2. ASSUME NEW i \in DOMAIN s PROVE Distance(s[1], v) <= Distance(s[i], v)
    <3>1. s[1] <= s[i] /\ s[1] \in Int /\ s[i] \in Int
      BY <1>1, <1>2
    <3>2. CASE v <= s[1]
      BY <3>1, <3>2 DEF Distance
    <3>3. CASE m = 1
      <4>1. i = 1
        BY <1>1, <3>3
      <4>. QED BY <3>1, <4>1 DEF Distance
    <3>. QED BY <1>3, <3>2, <3>3
  <2>. QED BY <2>1, <2>2 DEF Nearest
<1>4. ASSUME v >= s[m] PROVE Nearest(s, v, s[m])
  <2>1. m \in DOMAIN s /\ s[m] \in Range(s)
    BY <1>1 DEF Range
  <2>2. ASSUME NEW i \in DOMAIN s PROVE Distance(s[m], v) <= Distance(s[i], v)
    <3>1. s[i] <= s[m] /\ s[m] \in Int /\ s[i] \in Int
      BY <1>1, <1>2
    <3>. QED BY <1>4, <3>1 DEF Distance
  <2>. QED BY <2>1, <2>2 DEF Nearest
<1>5. ASSUME m > 1, s[1] < v, v < s[m]
      PROVE  LET w == Bisect(s, v)
                 a == s[w[1]]  b == s[w[2]]
             IN  Nearest(s, v, IF b - v < v - a THEN b ELSE a)
  <2>1. PICK x \in 1 .. Len(s), y \in 1 .. Len(s) :
               /\ Bisect(s, v) = <<x, y>>
               /\ \/ x = y /\ s[x] = v
                  \/ y = x + 1 /\ s[x] < v /\ v < s[y]
    BY <1>5, BisectEncloses DEF Encloses
  <2>. DEFINE n == IF s[y] - v < v - s[x] THEN s[y] ELSE s[x]
  <2>2. Nearest(s, v, n)
    <3>1. n \in Range(s)
      BY <1>1 DEF Range
    <3>2. ASSUME NEW i \in DOMAIN s PROVE Distance(n, v) <= Distance(s[i], v)
      <4>1. s[i] \in Int /\ s[x] \in Int /\ s[y] \in Int /\ i \in Int /\ x \in Int /\ y \in Int
        BY <1>1
      <4>2. CASE x = y /\ s[x] = v
        BY <4>1, <4>2 DEF Distance
      <4>3. CASE y = x + 1 /\ s[x] < v /\ v < s[y]
        <5>1. i <= x \/ y <= i
          BY <4>1, <4>3
        <5>2. s[i] <= s[x] \/ s[y] <= s[i]
          BY <1>1, <1>2, <5>1
        <5>. QED BY <4>1, <4>3, <5>2 DEF Distance
      <4>. QED BY <2>1, <4>2, <4>3
    <3>. HIDE DEF n
    <3>. QED BY <3>1, <3>2 DEF Nearest
  <2>. QED BY <2>1, <2>2
<1>6. CASE m = 1 \/ v <= s[1]
  <2>1. findNearest(s, v) = s[1]
    BY <1>1, <1>6 DEF findNearest
  <2>. QED BY <1>3, <1>6, <2>1
<1>7. CASE ~ (m = 1 \/ v <= s[1]) /\ v >= s[m]
  <2>1. findNearest(s, v) = s[m]
    BY <1>1, <1>7 DEF findNearest
  <2>. QED BY <1>4, <1>7, <2>1
<1>8. CASE ~ (m = 1 \/ v <= s[1]) /\ ~ (v >= s[m])
  <2>1. findNearest(s, v) = LET w == Bisect(s, v)
                                a == s[w[1]]  b == s[w[2]]
                            IN  IF b - v < v - a THEN b ELSE a
    BY <1>1, <1>8 DEF findNearest
  <2>2. m > 1 /\ s[1] < v /\ v < s[m]
    BY <1>1, <1>8
  <2>. QED BY <1>5, <2>1, <2>2
<1>. QED BY <1>6, <1>7, <1>8

\* For every camera whose texts are read as numbers: in a published list that
\* is in increasing order findNearest() finds a value nearest to any other.
THEOREM NearestIsFound ==
  ASSUME \A k \in Kits : Numeric(k)
  PROVE  Spec => NearestFound
<1>. DEFINE Probes(s) == UNION {{s[i] - 1, s[i], s[i] + 1, (s[i] + s[j]) \div 2, (s[i] + s[j] + 1) \div 2}
                                 : i \in DOMAIN s, j \in DOMAIN s}
<1>1. ASSUME SettingsInv, [Next]_vars, NEW w \in Widgets,
             options[w] # options'[w], options'[w] # << >>, Increasing(options'[w]),
             NEW v \in Probes(options'[w])
      PROVE  Nearest(options'[w], v, findNearest(options'[w], v))
  <2>. DEFINE s == options'[w]
  <2>1. s = [i \in DOMAIN choices[w] |-> ToInt(w, choices[w][i])]
    BY <1>1, ListsChange
  <2>2. choices[w] \in kit.offers[w] /\ kit \in Kits /\ Numeric(kit)
    BY <1>1 DEF SettingsInv, Shape
  <2>3. choices[w] \in Seq(Texts)
    BY <2>2, KitsAssumption
  <2>4. \A i \in DOMAIN choices[w] : ToInt(w, choices[w][i]) \in Int
    BY <2>2 DEF Numeric, Range
  <2>5. s \in Seq(Int)
    <3>1. DOMAIN choices[w] = 1 .. Len(choices[w]) /\ Len(choices[w]) \in Nat
      BY <2>3
    <3>. QED BY <2>1, <2>4, <3>1
  <2>. HIDE DEF s
  <2>6. v \in Int
    <3>1. \A i \in DOMAIN s : s[i] \in Int
      BY <2>5
    <3>2. PICK i \in DOMAIN s, j \in DOMAIN s :
            v \in {s[i] - 1, s[i], s[i] + 1, (s[i] + s[j]) \div 2, (s[i] + s[j] + 1) \div 2}
      BY DEF s
    <3>. QED BY <3>1, <3>2
  <2>7. s # << >> /\ Increasing(s)
    BY <1>1 DEF s
  <2>. QED BY <2>5, <2>6, <2>7, FindsNearest DEF s
<1>. DEFINE Finds == \A w \in Widgets : LET s == options'[w] IN
                      options[w] # s /\ s # << >> /\ Increasing(s) =>
                        \A v \in Probes(s) :
                          LET n == findNearest(s, v)
                          IN  n \in Range(s) /\ \A i \in DOMAIN s : Distance(n, v) <= Distance(s[i], v)
<1>2. ASSUME SettingsInv, [Next]_vars PROVE Finds
  <2>. HIDE DEF Probes
  <2>1. ASSUME NEW w \in Widgets, options[w] # options'[w], options'[w] # << >>,
               Increasing(options'[w]), NEW v \in Probes(options'[w])
        PROVE  LET n == findNearest(options'[w], v)
               IN  /\ n \in Range(options'[w])
                   /\ \A i \in DOMAIN options'[w] : Distance(n, v) <= Distance(options'[w][i], v)
    <3>1. Nearest(options'[w], v, findNearest(options'[w], v))
      BY <1>1, <1>2, <2>1
    <3>. QED BY <3>1 DEF Nearest
  <2>. QED BY <2>1
<1>3. SettingsInv /\ [Next]_vars => [Finds]_options
  <2>. HIDE DEF Finds
  <2>. QED BY <1>2
<1>. QED BY <1>3, InvHolds, PTL DEF Spec, NearestFound
=============================================================================
