----------------------------- MODULE AtomicItem -----------------------------
(***************************************************************************)
(* What optimistic concurrency promises its callers: every operation on a  *)
(* stored item takes effect at once, on the item as it is at that moment.  *)
(* hist[k] is the history of the item under key k.                         *)
(***************************************************************************)
EXTENDS Integers, Sequences

CONSTANT Keys

VARIABLE hist

Latest(k) == hist[k][Len(hist[k])]

\* The table as it was found: one state per item.
Init == \A k \in Keys : Len(hist[k]) = 1

\* One state is added to the history of k, and nothing else changes.
Extend(k) == hist' = [hist EXCEPT ![k] = Append(@, Latest(k)')]

\* The first write of an item.
Create(k) == ~Latest(k).here /\ Latest(k)'.here /\ Extend(k)

\* A blind update, or a read-modify-write of the latest state; both advance
\* the version by one.
Update(k) ==
    /\ Latest(k).here /\ Latest(k)'.here
    /\ Latest(k)'.base \in {0, Len(hist[k])}
    /\ Latest(k)'.ver = Latest(k).ver + 1
    /\ Extend(k)

Next == \E k \in Keys : Create(k) \/ Update(k)

Spec == Init /\ [][Next]_hist
=============================================================================
