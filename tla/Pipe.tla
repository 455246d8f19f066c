-------------------------------- MODULE Pipe --------------------------------
(***************************************************************************)
(* What a proxy promises of one direction of a connection, whatever it     *)
(* does to the other one: the chunks it reads are numbered, and leave in   *)
(* that order, each once or never; no more than two are under way.         *)
(***************************************************************************)
EXTENDS Naturals, Sequences

VARIABLES
  taken,    \* how many chunks were read
  flight,   \* those under way, oldest first
  out       \* those written on the other side

vars == <<taken, flight, out>>

Init == taken = 0 /\ flight = <<>> /\ out = <<>>

Take == /\ Len(flight) < 2
        /\ taken' = taken + 1
        /\ flight' = Append(flight, taken + 1)
        /\ UNCHANGED out

Put  == /\ flight # <<>>
        /\ out' = Append(out, Head(flight))
        /\ flight' = Tail(flight)
        /\ UNCHANGED taken

Lose == /\ flight # <<>>
        /\ flight' = Tail(flight)
        /\ UNCHANGED <<taken, out>>

Next == Take \/ Put \/ Lose

Spec == Init /\ [][Next]_vars
==============================================================================
