---- MODULE MCSched ----
(***************************************************************************)
(* Sched with one, two or three workers and slices of two ticks.           *)
(***************************************************************************)
EXTENDS Sched

CONSTANTS w1, w2, w3

\* What the workers do: all the same, or
Returns == [w \in Workers |-> "returns"]
SleepsAndReturns == [w \in Workers |-> "sleeps_and_returns"]
Spins == [w \in Workers |-> "spins"]
\* one that ends after sleeping, one that only sleeps, one that ends at once.
Mixed == [w \in Workers |-> CASE w = w1 -> "sleeps_and_returns"
                              [] w = w2 -> "sleeps"
                              [] w = w3 -> "returns"]

\* No ticks left, and more than a slice.
Slices == {0, 3}
====
