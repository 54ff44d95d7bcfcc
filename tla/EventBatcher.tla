---------------------------- MODULE EventBatcher ----------------------------
(***************************************************************************)
(* The batcher between the session events and the frontend                  *)
(* (desktop/event_batcher.go): producers enqueue, the loop flushes on its   *)
(* timer and on request, Stop flushes at the application's shutdown.  The   *)
(* queue is taken under the lock and emitted outside it.                    *)
(*                                                                         *)
(* Events are numbered in the order they enter Enqueue's lock.              *)
(***************************************************************************)
EXTENDS Integers, Sequences, FiniteSets

CONSTANTS
  Producers,  \* goroutines that emit events
  Keys,       \* coalesce keys of transient events
  MaxQueue,   \* maxEvents: the length that forces a flush
  MaxSent     \* events enqueued (bound)

ASSUME ProducersAssumption == Producers \cap {"loop", "stop"} = {}
ASSUME MaxQueueAssumption == MaxQueue \in Nat \ {0}

Flushers == {"loop", "stop"}
Handlers == Producers \cup Flushers

VARIABLES
  backlog,    \* b.queue: numbers of events
  stopped,    \* b.stopped
  wake,       \* flushCh holds its one token
  stopCh,     \* stopCh is closed
  at,         \* where each producer, the loop and Stop are
  hand,       \* events a goroutine has taken and not yet emitted
  (* history *)
  sent,       \* the events, by number
  shown,      \* numbers emitted to the frontend, in order
  replaced    \* numbers overwritten by a newer event of their key

lockVars == <<backlog, stopped>>
chanVars == <<wake, stopCh>>
batchVars == <<backlog, stopped, wake, stopCh, at, hand, sent, shown, replaced>>

NoKey == "none"
Sent == [key : Keys \cup {NoKey}, barrier : BOOLEAN]

Move(p, place) == at' = [at EXCEPT ![p] = place]

BatchInit ==
  /\ backlog = <<>> /\ stopped = FALSE /\ wake = FALSE /\ stopCh = FALSE
  /\ at = [p \in Handlers |-> IF p = "loop" THEN "select" ELSE "idle"]
  /\ hand = [p \in Handlers |-> <<>>]
  /\ sent = <<>> /\ shown = <<>> /\ replaced = {}

-----------------------------------------------------------------------------
(* Enqueue under its lock                                                   *)

(* The newest queued event has the same key: it takes the new payload.      *)
Merges(key) == key # NoKey /\ backlog # <<>> /\ sent[backlog[Len(backlog)]].key = key

(* Mutant: the merge looks for the key in the whole queue.                  *)
MergesAnywhere(key) == key # NoKey /\ \E i \in DOMAIN backlog : sent[backlog[i]].key = key

(* Mutant: only an appended event asks for a flush.                         *)
AsksAppended(key, barrier) ==
  ~Merges(key) /\ (barrier \/ Len(backlog) + 1 >= MaxQueue)

AsksFlush(key, barrier) ==
  barrier \/ (~Merges(key) /\ Len(backlog) + 1 >= MaxQueue)

(* Mutant: an event that comes after Stop is queued as before.               *)
EnqueueLate(p, key, barrier) ==
  /\ at[p] = "idle" /\ Len(sent) < MaxSent
  /\ sent' = Append(sent, [key |-> key, barrier |-> barrier])
  /\ backlog' = Append(backlog, Len(sent'))
  /\ Move(p, IF AsksFlush(key, barrier) THEN "request" ELSE "idle")
  /\ UNCHANGED <<stopped, chanVars, hand, shown, replaced>>

Enqueue(p, key, barrier) ==
  /\ at[p] = "idle" /\ Len(sent) < MaxSent
  /\ sent' = Append(sent, [key |-> key, barrier |-> barrier])
  /\ \/ /\ stopped
        /\ hand' = [hand EXCEPT ![p] = <<Len(sent')>>]
        /\ Move(p, "emit")
        /\ UNCHANGED <<backlog, replaced>>
     \/ /\ ~stopped
        /\ IF Merges(key)
             THEN /\ backlog' = [backlog EXCEPT ![Len(backlog)] = Len(sent')]
                  /\ replaced' = replaced \cup {backlog[Len(backlog)]}
             ELSE backlog' = Append(backlog, Len(sent')) /\ UNCHANGED replaced
        /\ Move(p, IF AsksFlush(key, barrier) THEN "request" ELSE "idle")
        /\ UNCHANGED hand
  /\ UNCHANGED <<stopped, chanVars, shown>>

(* Mutant: the producer flushes on its own goroutine.                       *)
RequestFlushHere(p) ==
  /\ at[p] = "request"
  /\ hand' = [hand EXCEPT ![p] = backlog]
  /\ backlog' = <<>>
  /\ Move(p, "emit")
  /\ UNCHANGED <<stopped, chanVars, sent, shown, replaced>>

(* requestFlush: one token; a second request finds it there.                *)
RequestFlush(p) ==
  /\ at[p] = "request"
  /\ wake' = TRUE
  /\ Move(p, "idle")
  /\ UNCHANGED <<lockVars, stopCh, hand, sent, shown, replaced>>

-----------------------------------------------------------------------------
(* flush: take under the lock, then emit                                    *)

(* Mutant: the queue is read and left as it is.                             *)
TakeKeeping(p) ==
  /\ at[p] \in {"flush", "lastFlush"}
  /\ hand' = [hand EXCEPT ![p] = backlog]
  /\ Move(p, IF at[p] = "flush" THEN "emit" ELSE "lastEmit")
  /\ UNCHANGED <<lockVars, chanVars, sent, shown, replaced>>

Take(p) ==
  /\ at[p] \in {"flush", "lastFlush"}
  /\ hand' = [hand EXCEPT ![p] = backlog]
  /\ backlog' = <<>>
  /\ Move(p, IF at[p] = "flush" THEN "emit" ELSE "lastEmit")
  /\ UNCHANGED <<stopped, chanVars, sent, shown, replaced>>

(* Where p goes on after its flush, or after emitSingle.                    *)
AfterEmit(p) ==
  CASE p = "loop" -> IF at[p] = "emit" THEN "select" ELSE "ended"
    [] p = "stop" -> "close"
    [] OTHER      -> "idle"

(* Mutant: the requests that came during the emission are dropped.          *)
DeliverDropping(p) ==
  /\ at[p] \in {"emit", "lastEmit"}
  /\ shown' = shown \o hand[p]
  /\ hand' = [hand EXCEPT ![p] = <<>>]
  /\ wake' = FALSE
  /\ Move(p, AfterEmit(p))
  /\ UNCHANGED <<lockVars, stopCh, sent, replaced>>

Deliver(p) ==
  /\ at[p] \in {"emit", "lastEmit"}
  /\ shown' = shown \o hand[p]
  /\ hand' = [hand EXCEPT ![p] = <<>>]
  /\ Move(p, AfterEmit(p))
  /\ UNCHANGED <<lockVars, chanVars, sent, replaced>>

(* The loop's select: the token, a tick, or the closed stop channel.        *)
LoopWake ==
  /\ at["loop"] = "select" /\ wake
  /\ wake' = FALSE
  /\ Move("loop", "flush")
  /\ UNCHANGED <<lockVars, stopCh, hand, sent, shown, replaced>>

LoopTick ==
  /\ at["loop"] = "select" /\ backlog # <<>>
  /\ Move("loop", "flush")
  /\ UNCHANGED <<lockVars, chanVars, hand, sent, shown, replaced>>

LoopStop ==
  /\ at["loop"] = "select" /\ stopCh
  /\ Move("loop", "lastFlush")
  /\ UNCHANGED <<lockVars, chanVars, hand, sent, shown, replaced>>

(* Stop: mark, flush, close the channel, wait for the loop.                 *)
Stop ==
  /\ at["stop"] = "idle"
  /\ stopped' = TRUE
  /\ Move("stop", "flush")
  /\ UNCHANGED <<backlog, chanVars, hand, sent, shown, replaced>>

(* Mutant: a loop that is busy does not hear the stop.                      *)
CloseUnheard ==
  /\ at["stop"] = "close"
  /\ stopCh' = (at["loop"] = "select")
  /\ Move("stop", "wait")
  /\ UNCHANGED <<lockVars, wake, hand, sent, shown, replaced>>

CloseStop ==
  /\ at["stop"] = "close"
  /\ stopCh' = TRUE
  /\ Move("stop", "wait")
  /\ UNCHANGED <<lockVars, wake, hand, sent, shown, replaced>>

StopEnd ==
  /\ at["stop"] = "wait" /\ at["loop"] = "ended"
  /\ Move("stop", "ended")
  /\ UNCHANGED <<lockVars, chanVars, hand, sent, shown, replaced>>

-----------------------------------------------------------------------------
LoopStep == LoopWake \/ LoopStop \/ Take("loop") \/ Deliver("loop")
StopStep == CloseStop \/ StopEnd \/ Take("stop") \/ Deliver("stop")
ProducerStep(p) == RequestFlush(p) \/ Deliver(p)

BatchNext ==
  \/ \E p \in Producers : \E key \in Keys \cup {NoKey}, barrier \in BOOLEAN :
       Enqueue(p, key, barrier)
  \/ \E p \in Producers : ProducerStep(p)
  \/ LoopStep \/ LoopTick
  \/ Stop \/ StopStep

(* The goroutines run.  The timer need not tick, nobody need emit or stop.  *)
BatchFairness ==
  /\ WF_batchVars(LoopStep) /\ WF_batchVars(StopStep)
  /\ \A p \in Producers : WF_batchVars(ProducerStep(p))

BatchSpec == BatchInit /\ [][BatchNext]_batchVars /\ BatchFairness

-----------------------------------------------------------------------------
(* Properties                                                               *)

InList(n, s) == {i \in DOMAIN s : s[i] = n}

(* Every event is queued, in hand, shown or replaced by a newer one: in one *)
(* of these only, whatever Stop, the loop and late producers do together.   *)
EventOnce ==
  \A n \in DOMAIN sent :
    Cardinality(InList(n, backlog)) + Cardinality(InList(n, shown))
    + Cardinality({p \in Handlers : InList(n, hand[p]) # {}})
    + (IF n \in replaced THEN 1 ELSE 0) = 1

(* Until Stop, the frontend sees the events in the order they were          *)
(* enqueued: merging keeps a transient event from jumping a content event.  *)
InOrder ==
  ~stopped => \A i, j \in DOMAIN shown : i < j => shown[i] < shown[j]

(* A replaced event was followed by one of its key before any other event   *)
(* that is shown: no other event is shown between the two.                  *)
ReplacedByNext ==
  \A n \in replaced : \E m \in DOMAIN sent :
    /\ m > n /\ sent[m].key = sent[n].key /\ m \notin replaced
    /\ \A k \in n + 1 .. m - 1 : k \in replaced

(* A flush is on its way to the queue: asked for, about to be asked for, or *)
(* about to take it.                                                        *)
FlushPending ==
  \/ wake \/ stopped
  \/ \E p \in Producers : at[p] = "request"
  \/ at["loop"] = "flush"

(* A barrier event, or a queue at its limit, never waits for the timer.     *)
FlushDue ==
  (Len(backlog) >= MaxQueue \/ \E i \in DOMAIN backlog : sent[backlog[i]].barrier)
    => FlushPending

(* When Stop returns nothing is left behind: what is still to be shown is   *)
(* in the hands of a producer that came after it.                           *)
StopDrains ==
  at["stop"] = "ended" => backlog = <<>> /\ hand["loop"] = <<>>

(* What the frontend is promised: every event once, in order, a replaced    *)
(* one only by its successor, at once when it matters, and all of them when *)
(* the window closes.                                                       *)
Delivers == EventOnce /\ InOrder /\ ReplacedByNext /\ FlushDue /\ StopDrains

(* A barrier event reaches the frontend without waiting for the timer,      *)
(* unless a newer event of its key takes its place.                         *)
BarrierShown ==
  \A n \in 1 .. MaxSent :
    []<>(n \in DOMAIN sent /\ sent[n].barrier => n \in replaced \/ InList(n, shown) # {})

(* Stop returns: the loop hears it whatever it was doing.                   *)
StopEnds == []<>(stopped => at["stop"] = "ended")
=============================================================================
