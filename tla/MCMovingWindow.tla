--------------------------- MODULE MCMovingWindow ---------------------------
(* Instances of MovingWindow for TLC. *)
EXTENDS MovingWindow

\* The change since the slot before the current one.
Change(a) == a[Len(a)] - a[Len(a) - 1]

\* The oldest sample, as one number.
Oldest(t, a) == 10 * t[1] + a[1]
=============================================================================
