---------------------------- MODULE BoundedFifo ----------------------------
(***************************************************************************)
(* What the response queue promises: a first-in first-out buffer of        *)
(* Capacity frames that loses a frame, and counts it, exactly when the     *)
(* buffer is full as the frame is sent.  A frame once accepted is neither  *)
(* lost, repeated, altered nor overtaken.                                  *)
(***************************************************************************)
EXTENDS Naturals, Sequences

CONSTANTS
    Frame,      (* what is sent                                            *)
    Capacity,   (* how many frames it holds                                *)
    LostWrap,   (* the loss counter is kept modulo this                    *)
    Nothing     (* no frame was delivered yet                              *)

VARIABLES
    items,      (* accepted and not yet delivered, oldest first            *)
    out,        (* the frame delivered last                                *)
    lost        (* how many frames were lost                               *)

vars == <<items, out, lost>>

Init ==
    /\ items = <<>>
    /\ out = Nothing
    /\ lost = 0

Accept(f) ==
    /\ Len(items) < Capacity
    /\ items' = Append(items, f)
    /\ UNCHANGED <<out, lost>>

Lose ==
    /\ Len(items) = Capacity
    /\ lost' = (lost + 1) % LostWrap
    /\ UNCHANGED <<items, out>>

Deliver ==
    /\ items # <<>>
    /\ out' = Head(items)
    /\ items' = Tail(items)
    /\ lost' = lost

Next == (\E f \in Frame : Accept(f)) \/ Lose \/ Deliver

Spec == Init /\ [][Next]_vars

(* A buffer that is not empty delivers in the end.                         *)
Fairness == WF_vars(Deliver)
=============================================================================
