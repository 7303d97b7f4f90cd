------------------------------ MODULE MCFlashOp ------------------------------
(***************************************************************************)
(* FlashOp for TLC: the storage and net tasks, and a tick of 100 ms, so that *)
(* an erase is 4 ticks on a Winbond part and 8 on MK1C's.                    *)
(***************************************************************************)
EXTENDS FlashOp
=============================================================================
