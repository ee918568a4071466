------------------------------ MODULE JdkStore ------------------------------
(***************************************************************************)
(* What the store of managed JDKs promises to the commands that only look  *)
(* into it, and take no lock: an installation appears at once and is never *)
(* replaced; only a removal takes one away, and what it took it either     *)
(* puts back or gives up.                                                  *)
(***************************************************************************)
CONSTANT Versions
VARIABLES managed,  \* the installations a command finds
          taken     \* those that a removal has set aside

Init == managed = {} /\ taken = {}

Install == \E v \in Versions \ managed : managed' = managed \cup {v} /\ UNCHANGED taken
Take == \E v \in managed : managed' = managed \ {v} /\ taken' = taken \cup {v}
PutBack == \E v \in taken \ managed : managed' = managed \cup {v} /\ taken' = taken \ {v}
GiveUp == taken' \subseteq taken /\ UNCHANGED managed

Next == Install \/ Take \/ PutBack \/ GiveUp

Spec == Init /\ [][Next]_<<managed, taken>>
=============================================================================
