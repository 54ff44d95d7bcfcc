--------------------------- MODULE PersistPipeline ---------------------------
(***************************************************************************)
(* How the events and the token totals of a session reach the store:       *)
(* backend/session/event_persister.go with its single writer goroutine,    *)
(* backend/token_persister.go with its ticker, the emit function of        *)
(* backend/application.go and the tail of Application.Shutdown.            *)
(*                                                                         *)
(* Emitters are goroutines that emit events of one session (the            *)
(* deduplication map and the totals are kept per session).  A step is one  *)
(* hold of a mutex, or one write to the store; a write may fail.           *)
(***************************************************************************)
EXTENDS Integers, Sequences, FiniteSets

CONSTANTS
  Emitters,   \* goroutines that emit events and report token totals
  Texts,      \* assistant answers
  Quotas      \* bounds: the events each emitter emits, the token reports

ASSUME EmittersAssumption == Emitters \cap {"ticker", "quit"} = {}
ASSUME QuotasAssumption == Quotas \subseteq [events : [Emitters -> Nat], totals : Nat]

Procs == Emitters \cup {"ticker", "quit"}

VARIABLES
  (* EventPersister *)
  writer,     \* p.writer is not nil
  lastText,   \* lastAssistantContent of the session
  (* singleWriter *)
  queue, closed,
  busy,       \* the op the writer goroutine has taken, if any
  gone,       \* the writer goroutine has returned
  (* tokenPersister *)
  pending,    \* totals not yet flushed; 0: none
  stop,       \* the stop channel is closed
  (* goroutines *)
  pc, loc,
  released,   \* procs whose flush has been reached by the writer
  (* history *)
  applied,    \* the ops that have run, oldest first
  log,        \* the events emitted
  totals,     \* token reports made so far: the n-th report carries n
  quota       \* the bound of this behaviour

persisterVars == <<writer, lastText>>
writerVars == <<queue, closed, busy, gone>>
tokenVars == <<pending, stop>>
procVars == <<pc, loc, released>>
historyVars == <<log, totals, quota>>
vars == <<persisterVars, writerVars, tokenVars, procVars, applied, historyVars>>

(* A user message, a streamed answer, and a terminal event, which stands for *)
(* task_complete with its text, or without one for the other terminal       *)
(* events that flush.                                                      *)
Kinds == {"user", "done", "complete"}
NoText == "none"
Event == [kind : Kinds, text : Texts \cup {NoText}, row : BOOLEAN, by : Emitters]

(* A queued write: the n-th event's row, the n-th totals, or the op of a    *)
(* flush, which closes its caller's done channel.                           *)
Op == [what : {"row", "totals", "flush"}, n : Nat, by : Procs]
NoOp == [what |-> "none"]
Row(n, p) == [what |-> "row", n |-> n, by |-> p]
Totals(n, p) == [what |-> "totals", n |-> n, by |-> p]
FlushOp(p) == [what |-> "flush", n |-> 0, by |-> p]

Goto(p, label) == pc' = [pc EXCEPT ![p] = label]
Empty == [op |-> NoOp, next |-> "idle"]

(* p's op is queued or done.                                                *)
Advance(p) == Goto(p, loc[p].next) /\ loc' = [loc EXCEPT ![p] = Empty]

(* p has an op to submit, and is at next when it is queued or done.          *)
Carry(p, label, op, next) ==
  /\ Goto(p, label)
  /\ loc' = [loc EXCEPT ![p] = [op |-> op, next |-> next]]

-----------------------------------------------------------------------------
(* EventPersister.Persist: what an event leaves in the store is decided on  *)
(* the emitting goroutine.  An answer that was streamed is not saved again.  *)

(* Mutant: a new user message does not reset the tracking.                  *)
TrackKeeping(k, t) == IF k = "done" THEN t ELSE lastText

Track(k, t) ==
  CASE k = "user" -> NoText
    [] k = "done" -> t
    [] OTHER      -> lastText

SavesRow(k, t) ==
  /\ k # "user"
  /\ k = "complete" /\ t # NoText => t # lastText

(* emitFunc: Persist, and for a terminal event both flushes.                *)
Emit(e, k, t) ==
  /\ pc[e] = "idle" /\ Cardinality({n \in DOMAIN log : log[n].by = e}) < quota.events[e]
  /\ k = "user" => t = NoText
  /\ k = "done" => t # NoText
  /\ lastText' = Track(k, t)
  /\ log' = Append(log, [kind |-> k, text |-> t, row |-> SavesRow(k, t), by |-> e])
  /\ LET next == IF k = "complete" THEN "flushTotals" ELSE "idle"
     IN  IF SavesRow(k, t)
           THEN Carry(e, "submit", Row(Len(log) + 1, e), next)
           ELSE Goto(e, next) /\ UNCHANGED loc
  /\ UNCHANGED <<writer, writerVars, tokenVars, released, applied, totals, quota>>

-----------------------------------------------------------------------------
(* SubmitWrite and singleWriter                                             *)

SubmitWrite(p) ==
  /\ pc[p] = "submit"
  /\ Goto(p, IF writer THEN "enqueue" ELSE "inline")
  /\ UNCHANGED <<persisterVars, writerVars, tokenVars, loc, released, applied, historyVars>>

(* Mutant: a write that meets a closing writer is dropped.                  *)
SubmitDropped(p) ==
  /\ pc[p] = "enqueue"
  /\ queue' = IF closed THEN queue ELSE Append(queue, loc[p].op)
  /\ Advance(p)
  /\ UNCHANGED <<persisterVars, closed, busy, gone, tokenVars, released,
                 applied, historyVars>>

(* Mutant: the newest write is queued first.                                *)
SubmitFirst(p) ==
  /\ pc[p] = "enqueue"
  /\ IF closed
       THEN Goto(p, "inline") /\ UNCHANGED <<queue, loc>>
       ELSE /\ queue' = <<loc[p].op>> \o queue
            /\ Advance(p)
  /\ UNCHANGED <<persisterVars, closed, busy, gone, tokenVars, released,
                 applied, historyVars>>

(* Submit appends, or leaves the op to its caller once the writer closes.    *)
Submit(p) ==
  /\ pc[p] = "enqueue"
  /\ IF closed
       THEN Goto(p, "inline") /\ UNCHANGED <<queue, loc>>
       ELSE /\ queue' = Append(queue, loc[p].op)
            /\ Advance(p)
  /\ UNCHANGED <<persisterVars, closed, busy, gone, tokenVars, released,
                 applied, historyVars>>

(* Mutant: an op that panics does not release its caller.                   *)
ExecutePanicking(op) ==
  /\ applied' = Append(applied, op)
  /\ \/ released' = IF op.what = "flush" THEN released \cup {op.by} ELSE released
     \/ UNCHANGED released

(* The op runs; an error, a timeout and a panic are logged and forgotten,    *)
(* so a failed write counts as run.  A flush's op closes the channel its    *)
(* caller waits for.                                                        *)
Execute(op) ==
  /\ applied' = Append(applied, op)
  /\ released' = IF op.what = "flush" THEN released \cup {op.by} ELSE released

RunInline(p) ==
  /\ pc[p] = "inline"
  /\ Execute(loc[p].op)
  /\ Advance(p)
  /\ UNCHANGED <<persisterVars, writerVars, tokenVars, historyVars>>

(* Mutant: the newest op is taken first.                                    *)
WriterTakeLast ==
  /\ busy = NoOp /\ queue # <<>>
  /\ busy' = queue[Len(queue)]
  /\ queue' = SubSeq(queue, 1, Len(queue) - 1)
  /\ UNCHANGED <<persisterVars, closed, gone, tokenVars, procVars, applied, historyVars>>

WriterTake ==
  /\ busy = NoOp /\ queue # <<>>
  /\ busy' = Head(queue)
  /\ queue' = Tail(queue)
  /\ UNCHANGED <<persisterVars, closed, gone, tokenVars, procVars, applied, historyVars>>

WriterRun ==
  /\ busy # NoOp
  /\ Execute(busy)
  /\ busy' = NoOp
  /\ UNCHANGED <<persisterVars, queue, closed, gone, tokenVars, pc, loc, historyVars>>

(* Mutant: the writer returns as soon as it is closed.                      *)
WriterExitUndrained ==
  /\ busy = NoOp /\ closed /\ ~gone
  /\ gone' = TRUE
  /\ queue' = <<>>
  /\ UNCHANGED <<persisterVars, closed, busy, tokenVars, procVars, applied, historyVars>>

WriterExit ==
  /\ busy = NoOp /\ queue = <<>> /\ closed /\ ~gone
  /\ gone' = TRUE
  /\ UNCHANGED <<persisterVars, queue, closed, busy, tokenVars, procVars, applied,
                 historyVars>>

(* Flush: its op is queued behind all earlier ones.                         *)
FlushCall(p) ==
  /\ pc[p] = "flush"
  /\ IF writer
       THEN Carry(p, "enqueue", FlushOp(p), "await")
       ELSE Goto(p, "idle") /\ UNCHANGED loc
  /\ UNCHANGED <<persisterVars, writerVars, tokenVars, released, applied, historyVars>>

FlushReturn(p) ==
  /\ pc[p] = "await" /\ p \in released
  /\ Goto(p, "idle")
  /\ released' = released \ {p}
  /\ UNCHANGED <<persisterVars, writerVars, tokenVars, loc, applied, historyVars>>

-----------------------------------------------------------------------------
(* tokenPersister                                                           *)

Record(e) ==
  /\ pc[e] = "idle" /\ totals < quota.totals
  /\ totals' = totals + 1
  /\ pending' = totals + 1
  /\ UNCHANGED <<persisterVars, writerVars, stop, procVars, applied, log, quota>>

(* flush: the pending totals are taken under the mutex and submitted after. *)
FlushTotals(p) ==
  /\ pc[p] = "flushTotals"
  /\ LET next == IF p \in Emitters THEN "flush" ELSE IF p = "quit" THEN "closeWriter" ELSE "idle"
     IN  IF pending = 0
           THEN Goto(p, next) /\ UNCHANGED loc
           ELSE Carry(p, "submit", Totals(pending, p), next)
  /\ pending' = 0
  /\ UNCHANGED <<persisterVars, writerVars, stop, released, applied, historyVars>>

Tick ==
  /\ pc["ticker"] = "idle" /\ pending # 0
  /\ Goto("ticker", "flushTotals")
  /\ UNCHANGED <<persisterVars, writerVars, tokenVars, loc, released, applied, historyVars>>

(* Mutant: stop is looked at only when there is something to flush.         *)
TickerExitPending ==
  /\ pc["ticker"] = "idle" /\ stop /\ pending # 0
  /\ Goto("ticker", "gone")
  /\ UNCHANGED <<persisterVars, writerVars, tokenVars, loc, released, applied, historyVars>>

TickerExit ==
  /\ pc["ticker"] = "idle" /\ stop
  /\ Goto("ticker", "gone")
  /\ UNCHANGED <<persisterVars, writerVars, tokenVars, loc, released, applied, historyVars>>

-----------------------------------------------------------------------------
(* Application.Shutdown, after the manager has stopped its tasks; one that  *)
(* outlives the manager's budget still emits.                               *)

Quit ==
  /\ pc["quit"] = "idle"
  /\ stop' = TRUE
  /\ Goto("quit", "join")
  /\ UNCHANGED <<persisterVars, writerVars, pending, loc, released, applied, historyVars>>

QuitJoin ==
  /\ pc["quit"] = "join" /\ pc["ticker"] = "gone"
  /\ Goto("quit", "flushTotals")
  /\ UNCHANGED <<persisterVars, writerVars, tokenVars, loc, released, applied, historyVars>>

(* EventPersister.Close takes the writer away, then closes it.              *)
QuitWriter ==
  /\ pc["quit"] = "closeWriter"
  /\ writer' = FALSE
  /\ Goto("quit", "closeQueue")
  /\ UNCHANGED <<lastText, writerVars, tokenVars, loc, released, applied, historyVars>>

QuitClose ==
  /\ pc["quit"] = "closeQueue"
  /\ closed' = TRUE
  /\ Goto("quit", "drain")
  /\ UNCHANGED <<persisterVars, queue, busy, gone, tokenVars, loc, released, applied,
                 historyVars>>

QuitEnd ==
  /\ pc["quit"] = "drain" /\ gone
  /\ Goto("quit", "done")
  /\ UNCHANGED <<persisterVars, writerVars, tokenVars, loc, released, applied, historyVars>>

-----------------------------------------------------------------------------
Init ==
  /\ writer = TRUE /\ lastText = NoText
  /\ queue = <<>> /\ closed = FALSE /\ busy = NoOp /\ gone = FALSE
  /\ pending = 0 /\ stop = FALSE
  /\ pc = [p \in Procs |-> "idle"]
  /\ loc = [p \in Procs |-> Empty]
  /\ released = {}
  /\ applied = <<>> /\ log = <<>> /\ totals = 0 /\ quota \in Quotas

Start(e) == Record(e) \/ \E k \in Kinds, t \in Texts \cup {NoText} : Emit(e, k, t)

Step(p) ==
  \/ SubmitWrite(p) \/ Submit(p) \/ RunInline(p)
  \/ FlushTotals(p) \/ FlushCall(p) \/ FlushReturn(p)

WriterStep == WriterTake \/ WriterRun \/ WriterExit
QuitStep == QuitJoin \/ QuitWriter \/ QuitClose \/ QuitEnd

Next ==
  \/ \E e \in Emitters : Start(e)
  \/ \E p \in Procs : Step(p)
  \/ WriterStep \/ Tick \/ TickerExit
  \/ Quit \/ QuitStep

Spec == Init /\ [][Next]_vars

(* Every goroutine runs; nobody need emit, report or quit.                  *)
Fairness ==
  /\ \A p \in Procs : WF_vars(Step(p))
  /\ WF_vars(WriterStep) /\ WF_vars(Tick) /\ WF_vars(TickerExit) /\ WF_vars(QuitStep)

FairSpec == Spec /\ Fairness
-----------------------------------------------------------------------------
(* Properties                                                               *)

Labels == {"idle", "submit", "enqueue", "inline", "flush", "flushTotals", "await",
           "gone", "join", "closeWriter", "closeQueue", "drain", "done"}
Ops == [what : {"row"}, n : Nat, by : Procs]
       \cup [what : {"totals"}, n : Nat, by : Procs]
       \cup [what : {"flush"}, n : {0}, by : Procs]

(* Every variable of the persister, the writer and the coalescer has its    *)
(* type.                                                                    *)
TypeOK ==
  /\ writer \in BOOLEAN /\ lastText \in Texts \cup {NoText}
  /\ queue \in Seq(Ops) /\ closed \in BOOLEAN
  /\ busy \in Ops \cup {NoOp} /\ gone \in BOOLEAN
  /\ pending \in Nat /\ stop \in BOOLEAN
  /\ pc \in [Procs -> Labels]
  /\ loc \in [Procs -> [op : Ops \cup {NoOp}, next : Labels]]
  /\ released \subseteq Procs
  /\ applied \in Seq(Ops)
  /\ log \in Seq(Event) /\ totals \in Nat /\ quota \in Quotas

Carriers(op) == {p \in Procs : pc[p] \in {"submit", "enqueue", "inline"} /\ loc[p].op = op}
Places(op) ==
  Cardinality(Carriers(op)) + Cardinality({i \in DOMAIN queue : queue[i] = op})
  + (IF busy = op THEN 1 ELSE 0) + Cardinality({i \in DOMAIN applied : applied[i] = op})

(* No event is lost or saved twice on its way to the store: the row of each *)
(* event is with its emitter, queued, being written or written (or failed), *)
(* in exactly one of these - also when the writer closes under an emitter.  *)
EventHome ==
  \A n \in DOMAIN log : Places(Row(n, log[n].by)) = IF log[n].row THEN 1 ELSE 0

(* An answer that task_complete leaves out has its row already: the same    *)
(* text was streamed since the last user message, by whichever goroutine.   *)
AnswerSaved ==
  \A n \in DOMAIN log :
    log[n].kind = "complete" /\ ~log[n].row =>
      \E m \in 1 .. n - 1 :
        /\ log[m].kind = "done" /\ log[m].text = log[n].text /\ log[m].row
        /\ \A k \in m .. n : log[k].kind # "user"

(* A terminal event is a durability checkpoint: when its flush lets the     *)
(* emitter go on, every event it emitted has been written, as long as the   *)
(* application is not closing the writer.                                   *)
FlushDurable ==
  \A p \in Emitters : writer /\ pc[p] = "await" /\ p \in released =>
    \A n \in DOMAIN log : log[n].by = p /\ log[n].row =>
      \E i \in DOMAIN applied : applied[i] = Row(n, p)

(* The latest token report is never dropped: it is pending, on its way to   *)
(* the store or has been written.                                           *)
TotalsHome ==
  totals > 0 => pending = totals \/ \E p \in Procs : Places(Totals(totals, p)) > 0

(* No event and no token report is lost or stored twice, from the emitter   *)
(* that persists it to the store that has it.                               *)
NothingLost == EventHome /\ AnswerSaved /\ TotalsHome

(* The pipeline implements the write log of WriteLog.                       *)
Log == INSTANCE WriteLog WITH
  Writes <- Ops,
  backlog <- (IF busy = NoOp THEN <<>> ELSE <<busy>>) \o queue,
  order <- applied,
  closing <- ~writer,
  ended <- gone
KeepsLog == Log!Spec

(* A terminal event's flush always lets its emitter go on, whatever fails   *)
(* and whenever the writer closes; and the application's shutdown ends.     *)
FlushReturns == \A p \in Emitters : []<>(pc[p] = "idle")
QuitEnds == []<>(stop => pc["quit"] = "done")

(* The tokenPersister's comment: "The latest report per session wins".       *)
Stored == {i \in DOMAIN applied : applied[i].what = "totals"}
LatestReportWins ==
  \A i, j \in Stored : i < j => applied[i].n < applied[j].n
=============================================================================
