---------------------------- MODULE ListingScreen ---------------------------
(***************************************************************************)
(* What the Workbench promises about its listing, whatever order answers   *)
(* arrive in: requests are numbered, a listing is shown only for the       *)
(* newest request and the image loaded at that moment, and loading another *)
(* image clears the listing in the same step.  WorkbenchStore implements   *)
(* this.                                                                   *)
(***************************************************************************)
EXTENDS Integers

VARIABLES image, shown, newest

Nothing == [image |-> 0, request |-> 0]

Init == image = 0 /\ shown = Nothing /\ newest = 0

\* A request or a cancellation takes the next number.
Supersede ==
  /\ newest' = newest + 1
  /\ UNCHANGED <<image, shown>>

\* An image that was never loaded before replaces the loaded one.
Install ==
  /\ image' \in Nat /\ image' > image
  /\ shown' = Nothing
  /\ newest' = newest + 1

\* The newest request is answered, once.
Show ==
  /\ shown.request # newest
  /\ shown' = [image |-> image, request |-> newest]
  /\ UNCHANGED <<image, newest>>

Next == Supersede \/ Install \/ Show
Spec == Init /\ [][Next]_<<image, shown, newest>>
=============================================================================
