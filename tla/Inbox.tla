-------------------------------- MODULE Inbox --------------------------------
(***************************************************************************)
(* What a session promises to those who write to it (sendMessage and the   *)
(* live queue of the orchestrator): every message gets at most one answer, *)
(* and keeps it.  On its way a message is in the live queue or in the      *)
(* hands of one goroutine.  What travels together is answered together;    *)
(* the queue is emptied into one follow-up, or thrown away, as a whole,    *)
(* and the messages a task reads from it leave it one by one.              *)
(***************************************************************************)
EXTENDS FiniteSets

CONSTANT Messages

VARIABLES
  hands,    \* the sets of messages that travel together
  queue,    \* the live queue
  answer    \* what the writer of each message has been told

vars == <<hands, queue, answer>>

Answers == {"delivered", "discarded", "refused", "swallowed"}

Init ==
  /\ hands = {} /\ queue = {}
  /\ answer = [m \in Messages |-> "unsent"]

Answer(ms, a) ==
  answer' = [m \in Messages |-> IF m \in ms THEN a ELSE answer[m]]

(* A client writes a message.                                               *)
Send(m) ==
  /\ answer[m] = "unsent"
  /\ Answer({m}, "open")
  /\ hands' = hands \cup {{m}}
  /\ UNCHANGED queue

(* What travels together gets its answer, or joins the live queue.           *)
Settle(ms, a) ==
  /\ hands' = hands \ {ms}
  /\ Answer(ms, a)
  /\ UNCHANGED queue

Enqueue(ms) ==
  /\ hands' = hands \ {ms}
  /\ queue' = queue \cup ms
  /\ UNCHANGED answer

(* A task reads one message of the queue.                                   *)
Read(m) ==
  /\ queue' = queue \ {m}
  /\ Answer({m}, "delivered")
  /\ UNCHANGED hands

(* A task that ends makes a follow-up of the queue, or throws it away.       *)
FollowUp ==
  /\ queue # {}
  /\ hands' = hands \cup {queue} /\ queue' = {}
  /\ UNCHANGED answer

Discard ==
  /\ queue # {} /\ queue' = {}
  /\ Answer(queue, "discarded")
  /\ UNCHANGED hands

Next ==
  \/ \E m \in Messages : Send(m)
  \/ \E ms \in hands : Enqueue(ms) \/ \E a \in Answers : Settle(ms, a)
  \/ \E m \in queue : Read(m)
  \/ FollowUp \/ Discard

Spec == Init /\ [][Next]_vars
=============================================================================
