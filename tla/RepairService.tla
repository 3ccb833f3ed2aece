--------------------------- MODULE RepairService ----------------------------
(***************************************************************************)
(* What gap repair and the historical merger promise together, with        *)
(* workers, claims, leases, batches, staging and retries abstracted away:  *)
(* a request for a window leaves no part of it without an open repair,     *)
(* open repairs never overlap, a minute that was acquired is never lost,   *)
(* and a repair is done only once, while it is open and its whole window   *)
(* is canonical; nothing but a new request makes it undone.                *)
(***************************************************************************)
EXTENDS Integers

CONSTANT Window      \* pairs <<lo, hi>> of minutes, lo < hi

VARIABLES acquired,  \* minutes that were downloaded and committed
          canonical, \* those of them that are canonical
          open,      \* windows under repair
          done       \* windows whose last repair succeeded

serviceVars == <<acquired, canonical, open, done>>

Init == acquired = {} /\ canonical = {} /\ open = {} /\ done = {}

\* No two windows of S overlap.
Apart(S) == \A v, w \in S : v = w \/ v[2] <= w[1] \/ w[2] <= v[1]

\* Repairs are opened inside w until the open ones leave no hole in it.
Request(w) ==
    /\ open \subseteq open' /\ open' \subseteq Window
    /\ \A v \in open' \ open : w[1] <= v[1] /\ v[2] <= w[2]
    /\ Apart(open')
    /\ \A m \in w[1]..(w[2] - 1) : \E v \in open' : v[1] <= m /\ m < v[2]
    /\ done' = done \ open'
    /\ UNCHANGED <<acquired, canonical>>

\* Minutes arrive, or minutes that arrived become canonical.
Acquire ==
    /\ acquired \subseteq acquired'
    /\ canonical \subseteq canonical' /\ canonical' \subseteq acquired'
    /\ UNCHANGED <<open, done>>

Finish(w) ==
    /\ w \in open
    /\ w[1]..w[2] \subseteq canonical
    /\ open' = open \ {w} /\ done' = done \cup {w}
    /\ UNCHANGED <<acquired, canonical>>

GiveUp(w) ==
    /\ w \in open
    /\ open' = open \ {w}
    /\ UNCHANGED <<acquired, canonical, done>>

Next == Acquire \/ \E w \in Window : Request(w) \/ Finish(w) \/ GiveUp(w)

Spec == Init /\ [][Next]_serviceVars
=============================================================================
