----------------------------- MODULE LeakyQueue -----------------------------
(***************************************************************************)
(* What the ring buffer of internal/channel promises its users, without    *)
(* slots, indices, locks or condition variables: a bounded queue of the    *)
(* writes in their order, with a window of items at its front that were    *)
(* handed out and wait for an acknowledgement.  An item leaves the queue   *)
(* from the front only: acknowledged after it was handed out, or pushed    *)
(* out by a write into a full queue ("leaky bucket", docs/client.md), or   *)
(* by a reset of everything.                                               *)
(***************************************************************************)
EXTENDS Naturals, Sequences

CONSTANT Capacity

VARIABLES queue,     \* ordinals of the writes held, oldest first
          window,    \* how many of them, from the front, are handed out
          accepted   \* number of writes accepted so far

Init ==
    /\ queue = <<>>
    /\ window = 0
    /\ accepted = 0

(* A write joins at the back; in a full queue it pushes the front out.     *)
Put ==
    /\ accepted' = accepted + 1
    /\ \/ /\ Len(queue) < Capacity
          /\ queue' = Append(queue, accepted + 1)
          /\ window' = window
       \/ /\ Len(queue) = Capacity
          /\ queue' = Append(Tail(queue), accepted + 1)
          /\ window' = IF window > 0 THEN window - 1 ELSE 0

(* The oldest item outside the window is handed out.                       *)
Take ==
    /\ window < Len(queue)
    /\ window' = window + 1
    /\ UNCHANGED <<queue, accepted>>

(* The front item was handed out and is acknowledged.                      *)
Acknowledge ==
    /\ window > 0
    /\ queue' = Tail(queue)
    /\ window' = window - 1
    /\ UNCHANGED accepted

(* Everything handed out is to be handed out again.                        *)
TakeBack ==
    /\ window' = 0
    /\ UNCHANGED <<queue, accepted>>

Clear ==
    /\ queue' = <<>>
    /\ window' = 0
    /\ UNCHANGED accepted

Next == Put \/ Take \/ Acknowledge \/ TakeBack \/ Clear

Spec == Init /\ [][Next]_<<queue, window, accepted>>
============================================================================
