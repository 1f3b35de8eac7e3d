----------------------------- MODULE SafeUpdates -----------------------------
(***************************************************************************)
(* What a hook promises that says of a write and an fsync that all went    *)
(* well: a program makes updates and is told of some that they are safe;   *)
(* of those no more than allowed are missing from the disk, whenever the   *)
(* power fails, and what is on the disk stays.  The promise ends when the  *)
(* policy is off its ground.                                               *)
(*                                                                         *)
(* DurableLog is for a log with a prefix on disk.  Here the updates may    *)
(* reach the disk in any order.                                            *)
(***************************************************************************)
EXTENDS Naturals, FiniteSets

VARIABLES made,     \* updates the program has made
          told,     \* the updates it takes for safe
          safe,     \* the updates on disk
          broken,   \* the policy is off its ground
          allowed   \* updates told safe that a power failure may take

vars == <<made, told, safe, broken, allowed>>

Init == /\ made = 0
        /\ told = {} /\ safe = {}
        /\ broken = FALSE
        /\ allowed \in Nat

Make == /\ made' = made + 1
        /\ UNCHANGED <<told, safe, broken, allowed>>

Tell == /\ told \subseteq told' /\ told' \subseteq 1 .. made
        /\ ~broken => Cardinality(told' \ safe) <= allowed
        /\ UNCHANGED <<made, safe, broken, allowed>>

Persist == /\ safe \subseteq safe' /\ safe' \subseteq 1 .. made
           /\ UNCHANGED <<made, told, broken, allowed>>

Break == /\ broken' = TRUE
         /\ UNCHANGED <<made, told, safe, allowed>>

Next == Make \/ Tell \/ Persist \/ Break

Spec == Init /\ [][Next]_vars
=============================================================================
