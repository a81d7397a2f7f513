---------------------------- MODULE BoundedFifo -----------------------------
(***************************************************************************)
(* What a bounded queue shared by threads promises: items come out in the  *)
(* order in which they went in, each once, and at most Size are inside.    *)
(***************************************************************************)
EXTENDS Naturals, Sequences

CONSTANT Size

VARIABLES
  sent,      \* all items put so far
  received   \* all items got so far

Init == sent = << >> /\ received = << >>

Put ==
  /\ Len(sent) - Len(received) < Size
  /\ Len(sent') = Len(sent) + 1
  /\ sent' = Append(sent, sent'[Len(sent) + 1])
  /\ UNCHANGED received

Get ==
  /\ Len(received) < Len(sent)
  /\ received' = Append(received, sent[Len(received) + 1])
  /\ UNCHANGED sent

Next == Put \/ Get

Spec == Init /\ [][Next]_<<sent, received>>
=============================================================================
