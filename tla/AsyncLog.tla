------------------------------ MODULE AsyncLog ------------------------------
(***************************************************************************)
(* What an asynchronous log promises: lines are accepted one after the     *)
(* other, and written once each, in the order they were accepted.          *)
(***************************************************************************)
EXTENDS Naturals, Sequences

CONSTANT Line   \* lines that can be logged

VARIABLES
  accepted,   \* the lines accepted so far
  done        \* those that are written

vars == <<accepted, done>>

Init == accepted = <<>> /\ done = <<>>

Accept(line) ==
  /\ accepted' = Append(accepted, line)
  /\ UNCHANGED done

Write ==
  /\ Len(done) < Len(accepted)
  /\ done' = Append(done, accepted[Len(done) + 1])
  /\ UNCHANGED accepted

Next == (\E line \in Line : Accept(line)) \/ Write

Spec == Init /\ [][Next]_vars
=============================================================================
