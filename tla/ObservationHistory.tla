------------------------- MODULE ObservationHistory -------------------------
(***************************************************************************)
(* What the observation store promises its readers, whoever writes it and  *)
(* whatever fails: for every (epoch, observer), the history of the states  *)
(* ever stored only grows, in the order of the chain's clock, and the slot *)
(* the newest state was last confirmed at never goes back.                 *)
(***************************************************************************)
EXTENDS Naturals, Sequences

CONSTANTS
  Keys,
  Second(_)   \* submitted_at of a state

VARIABLES
  history,    \* [Keys -> the sequence of states stored so far]
  confirmed   \* [Keys -> Nat]

Extends(h, g) ==
  /\ Len(h) <= Len(g)
  /\ \A i \in 1..Len(h) : g[i] = h[i]

Ordered(h) ==
  \A i \in 1..Len(h) - 1 : h[i] # h[i+1] /\ Second(h[i]) <= Second(h[i+1])

Init ==
  /\ history = [k \in Keys |-> << >>]
  /\ confirmed = [k \in Keys |-> 0]

\* A transaction may advance any number of keys, each by any number of states.
Advance(k) ==
  /\ Extends(history[k], history'[k])
  /\ Ordered(history'[k])
  /\ confirmed'[k] >= confirmed[k]

Next == \A k \in Keys : Advance(k)

Spec == Init /\ [][Next]_<<history, confirmed>>
=============================================================================
