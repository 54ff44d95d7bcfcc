------------------------------ MODULE WriteLog ------------------------------
(***************************************************************************)
(* What the persister's single writer promises its callers (the comments   *)
(* at singleWriter and SubmitWrite in session/event_persister.go): accepted *)
(* writes run one at a time in the order they were accepted, each exactly   *)
(* once, and all of them before the writer ends.  Once the application is   *)
(* closing it, a late write runs at once on its caller instead.             *)
(***************************************************************************)
EXTENDS Integers, Sequences

CONSTANT Writes

VARIABLES
  backlog,   \* writes accepted and not yet run
  order,     \* writes run
  closing,   \* the application is shutting down
  ended      \* the writer has returned

vars == <<backlog, order, closing, ended>>

Init == backlog = <<>> /\ order = <<>> /\ closing = FALSE /\ ended = FALSE

(* s is t with one more write.                                              *)
AddsTo(s, t) ==
  Len(s) = Len(t) + 1 /\ SubSeq(s, 1, Len(t)) = t /\ s[Len(s)] \in Writes

Accept ==
  /\ ~ended
  /\ AddsTo(backlog', backlog)
  /\ UNCHANGED <<order, closing, ended>>

Apply ==
  /\ backlog # <<>>
  /\ order' = Append(order, Head(backlog))
  /\ backlog' = Tail(backlog)
  /\ UNCHANGED <<closing, ended>>

Direct ==
  /\ closing
  /\ AddsTo(order', order)
  /\ UNCHANGED <<backlog, closing, ended>>

Close == closing' = TRUE /\ UNCHANGED <<backlog, order, ended>>

End ==
  /\ closing /\ backlog = <<>> /\ ~ended
  /\ ended' = TRUE
  /\ UNCHANGED <<backlog, order, closing>>

Next == Accept \/ Apply \/ Direct \/ Close \/ End

Spec == Init /\ [][Next]_vars
=============================================================================
