---------------------------- MODULE MCEventBroker ----------------------------
(* Two threads that post on two topics to two handlers.                       *)
EXTENDS EventBroker, TLC

CONSTANTS t1, t2, a, b, h1, h2

MCThreads == {t1, t2}
MCTopics == {a, b}
MCHandlers == {h1, h2}

MCSymmetry == Permutations(MCThreads) \cup Permutations(MCTopics) \cup Permutations(MCHandlers)
=============================================================================
