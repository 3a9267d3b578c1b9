----------------------------- MODULE MCProcess -----------------------------
(* Process with three slots: process 0, a child and a grandchild, so that the
   full table, a failed launch and two levels of unwinding all happen. *)
EXTENDS Process
=============================================================================
