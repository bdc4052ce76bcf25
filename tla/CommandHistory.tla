--------------------------- MODULE CommandHistory ---------------------------
(***************************************************************************)
(* CameraController with a memory of what became of every session command.  *)
(* The history variables record and never constrain: each step is a step of *)
(* CameraController.                                                        *)
(***************************************************************************)
EXTENDS CameraController, FiniteSets, SequencesExt

VARIABLES issued,       \* ids of the session commands posted so far
          served,       \* ids of the commands Idle has served, in order
          refused,      \* ids taken in a state that has no session
          overwritten,  \* ids the full ring of deferred commands discarded
          batched       \* pairs <<a, b>> that were deferred together, a first

historyVars == <<vars, issued, served, refused, overwritten, batched>>

HistoryInit == /\ Init
               /\ issued = {} /\ refused = {} /\ overwritten = {} /\ batched = {}
               /\ served = << >>

\* The step posts, or takes from the queue, a session command.
Posts == posted' # posted /\ Last(eventList').sig \in SessionCommands
Takes == /\ outbox = << >> /\ eventList # << >> /\ eventList' = Tail(eventList)
         /\ Head(eventList).sig \in SessionCommands

Id == Head(eventList).arg

OrderedPairs(q) == {<<q[p[1]].arg, q[p[2]].arg>> :
                      p \in {r \in (1 .. Len(q)) \X (1 .. Len(q)) : r[1] < r[2]}}

Record(set, elem, condition) == IF condition THEN set \cup {elem} ELSE set

HistoryNext ==
  /\ Next
  /\ issued' = Record(issued, posted', Posts)
  /\ served' = IF Takes /\ state = "Idle" THEN Append(served, Id) ELSE served
  /\ refused' = Record(refused, Id, Takes /\ state \notin InConnected)
  /\ overwritten' = Record(overwritten, Head(deferred_events).arg,
                           /\ Takes /\ state \in InConnected \ {"Idle"}
                           /\ Len(deferred_events) = Capacity)
  /\ batched' = batched \cup OrderedPairs(deferred_events')

HistorySpec == HistoryInit /\ [][HistoryNext]_historyVars

----------------------------------------------------------------------------
IsCommand(e, id) == e.sig \in SessionCommands /\ e.arg = id

Deferred(id) == {i \in 1 .. Len(deferred_events) : IsCommand(deferred_events[i], id)}
Queued(id) == {i \in 1 .. Len(Pending) : IsCommand(Pending[i], id)}
Served(id) == {i \in 1 .. Len(served) : served[i] = id}

\* Where a command is kept.
Places(id) == ({"deferred"} \X Deferred(id)) \cup ({"queued"} \X Queued(id))
                \cup ({"served"} \X Served(id))
                \cup ({"refused"} \X ({id} \cap refused))
                \cup ({"overwritten"} \X ({id} \cap overwritten))

\* Deferring, replaying, failing and reconnecting neither lose nor repeat a
\* command: each one is waiting once, or was served once, or was refused for
\* want of a session, or was overwritten in a full ring, and no two of these
\* (stateIdle, stateConnected, deferred_events).
ExactlyOnce == \A id \in issued : Cardinality(Places(id)) = 1

\* Commands deferred together are replayed in the order in which they were
\* deferred, even when they are deferred again and again: a later one is never
\* served while an earlier one still waits (the repost loop of stateIdle).
BatchOrder == \A p \in batched : Served(p[2]) # {} =>
                /\ Deferred(p[1]) = {} /\ Queued(p[1]) = {}
                /\ \A i \in Served(p[1]), j \in Served(p[2]) : i < j
=============================================================================
