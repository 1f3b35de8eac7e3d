----------------------------- MODULE DurableLog -----------------------------
(***************************************************************************)
(* What a durability policy for the append-only file promises, whatever    *)
(* the system calls it uses: the log grows one write at a time, a prefix   *)
(* of it is on disk, and as long as the policy is on its ground no more    *)
(* than MaxPending writes, and no more than MaxAckedLoss acknowledged      *)
(* ones, are missing from the disk.  Writes that a former server process   *)
(* left behind (up to base) are not counted: no policy here knows of them. *)
(***************************************************************************)
EXTENDS Naturals

CONSTANTS MaxPending,    \* writes a power failure may take
          MaxAckedLoss   \* acknowledged writes a power failure may take

VARIABLES written,       \* length of the log as the file system shows it
          acked,         \* writes the server has acknowledged
          durable,       \* length of the prefix that is on disk
          base,          \* length of the log when the server started
          broken         \* the policy is off its ground: an fsync failed, say

vars == <<written, acked, durable, base, broken>>

Larger(a, b) == IF a >= b THEN a ELSE b

(* Length of the part of the log that the policy answers for. *)
Safe == Larger(durable, base)

Init == /\ written = 0
        /\ acked = 0
        /\ durable = 0
        /\ base = 0
        /\ broken = FALSE

Append == /\ written' = written + 1
          /\ ~broken => written' - Safe <= MaxPending
          /\ UNCHANGED <<acked, durable, base, broken>>

Ack == /\ acked' = written
       /\ ~broken => acked' - Safe <= MaxAckedLoss
       /\ UNCHANGED <<written, durable, base, broken>>

Persist == /\ durable' \in durable + 1 .. written
           /\ UNCHANGED <<written, acked, base, broken>>

Break == /\ broken' = TRUE
         /\ UNCHANGED <<written, acked, durable, base>>

(* A new server process takes over the file as it finds it, and with it    *)
(* the policy may be on its ground again.                                  *)
Restart == /\ base' = written
           /\ broken' \in {broken, FALSE}
           /\ UNCHANGED <<written, acked, durable>>

PowerFail == /\ written' = durable
             /\ acked' = durable
             /\ base' = durable
             /\ broken' = FALSE
             /\ UNCHANGED durable

Next == \/ Append
        \/ Ack
        \/ Persist
        \/ Break
        \/ Restart
        \/ PowerFail

Spec == Init /\ [][Next]_vars
=============================================================================
