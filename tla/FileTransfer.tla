----------------------------- MODULE FileTransfer -----------------------------
(***************************************************************************)
(* What the file transfer of project2 promises, whatever packets do in     *)
(* between: the receiver's file grows block by block, in order and without *)
(* repetition; it is one block ahead of what the sender knows at most; the *)
(* receiver stops with the whole file, and the sender after the receiver.  *)
(***************************************************************************)
EXTENDS Naturals, Sequences

CONSTANT File       \* the blocks of the file, in order

VARIABLES output,     \* the blocks the receiver has written
          confirmed,  \* how many of them the sender knows to be written
          received,   \* the receiver has stopped
          sent        \* the sender has stopped

vars == <<output, confirmed, received, sent>>

Init == output = <<>> /\ confirmed = 0 /\ received = FALSE /\ sent = FALSE

Write == /\ Len(output) = confirmed /\ confirmed < Len(File) /\ ~received
         /\ output' = Append(output, File[confirmed + 1])
         /\ UNCHANGED <<confirmed, received, sent>>

Confirm == /\ confirmed < Len(output)
           /\ confirmed' = confirmed + 1
           /\ UNCHANGED <<output, received, sent>>

StopReceiver == /\ confirmed = Len(File) /\ ~received
                /\ received' = TRUE
                /\ UNCHANGED <<output, confirmed, sent>>

StopSender == /\ received /\ ~sent
              /\ sent' = TRUE
              /\ UNCHANGED <<output, confirmed, received>>

Next == Write \/ Confirm \/ StopReceiver \/ StopSender

Spec == Init /\ [][Next]_vars
===============================================================================
