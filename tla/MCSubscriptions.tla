--------------------------- MODULE MCSubscriptions ---------------------------
(* Small instances of Subscriptions for TLC. *)
EXTENDS Subscriptions, TLC

Symmetry == Permutations(Callers) \cup Permutations(Ids) \cup Permutations(Properties)
              \cup Permutations(Values)

\* What the invariants speak of: the values handed to the dispatcher are not among it.
Shownless == <<storage, poller, actual, calls, faults>>

\* What is polled is what is stored, and nothing is remembered of what is not polled.
PollerHonest == TypeOK /\ CacheInSync /\ NothingStaleRemembered
=============================================================================
