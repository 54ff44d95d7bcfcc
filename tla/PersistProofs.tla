---------------------------- MODULE PersistProofs ----------------------------
(***************************************************************************)
(* Proofs about the pipeline from the emitters to the store, for any        *)
(* emitters, texts and quotas: it implements the write log, loses no event  *)
(* and no token report, and makes a terminal event durable.                 *)
(***************************************************************************)
EXTENDS PersistPipeline, SequenceTheorems, FunctionTheorems, FiniteSetTheorems, TLAPS

Carrying == {"submit", "enqueue", "inline"}

(* A proc that carries an op carries one of its own; a flush is waited for. *)
CarriesOwn ==
  \A p \in Procs : pc[p] \in Carrying =>
    /\ loc[p].op \in Ops /\ loc[p].op.by = p
    /\ loc[p].op.what = "flush" => loc[p].next = "await"

(* The places a proc goes on from when its op is queued or done.            *)
Continues == \A p \in Procs : loc[p].next \in {"idle", "flushTotals", "flush", "await", "closeWriter"}

(* The writer is taken away before it is closed, and ends with an empty     *)
(* queue; only then do writes run on their callers.                         *)
Closing ==
  /\ closed => ~writer
  /\ gone => closed /\ queue = <<>> /\ busy = NoOp
  /\ pc["quit"] = "closeQueue" => ~writer
  /\ \A p \in Procs : pc[p] = "inline" => ~writer

PipeInv == TypeOK /\ CarriesOwn /\ Continues /\ Closing

-----------------------------------------------------------------------------
(* Sequences                                                                *)

(* What is appended is last, the others stay where they are.                *)
LEMMA Appended ==
  ASSUME NEW S, NEW q \in Seq(S), NEW x \in S
  PROVE  /\ Append(q, x) \in Seq(S) /\ Len(Append(q, x)) = Len(q) + 1
         /\ DOMAIN Append(q, x) = 1 .. Len(q) + 1 /\ DOMAIN q = 1 .. Len(q) /\ Len(q) \in Nat
         /\ \A i \in 1 .. Len(q) : Append(q, x)[i] = q[i]
         /\ Append(q, x)[Len(q) + 1] = x
  BY AppendProperties, LenProperties

(* Without its head a sequence moves up by one.                             *)
LEMMA Shortened ==
  ASSUME NEW S, NEW q \in Seq(S), q # <<>>
  PROVE  /\ Head(q) \in S /\ Head(q) = q[1] /\ Tail(q) \in Seq(S)
         /\ Len(q) \in Nat \ {0} /\ Len(Tail(q)) = Len(q) - 1
         /\ DOMAIN q = 1 .. Len(q) /\ DOMAIN Tail(q) = 1 .. Len(q) - 1
         /\ \A i \in 1 .. Len(q) - 1 : Tail(q)[i] = q[i + 1]
  BY HeadTailProperties, LenProperties, EmptySeq

(* A head and its tail are the sequence.                                    *)
LEMMA HeadThenTail ==
  ASSUME NEW S, NEW q \in Seq(S), q # <<>>
  PROVE  <<Head(q)>> \o Tail(q) = q
<1>1. /\ <<Head(q)>> \in Seq(S) /\ Len(<<Head(q)>>) = 1 /\ <<Head(q)>>[1] = q[1]
      /\ Tail(q) \in Seq(S) /\ Len(Tail(q)) = Len(q) - 1 /\ Len(q) \in Nat \ {0}
  BY Shortened
<1>2. /\ <<Head(q)>> \o Tail(q) \in Seq(S) /\ Len(<<Head(q)>> \o Tail(q)) = Len(q)
      /\ \A i \in 1 .. Len(q) : (<<Head(q)>> \o Tail(q))[i] = q[i]
  BY <1>1, Shortened, ConcatProperties
<1> QED BY <1>2, SeqEqual

(* An appended write is the write log's new one.                            *)
LEMMA AppendAdds ==
  ASSUME NEW s \in Seq(Ops), NEW x \in Ops
  PROVE  Log!AddsTo(Append(s, x), s)
<1>1. /\ Append(s, x) \in Seq(Ops) /\ Len(Append(s, x)) = Len(s) + 1 /\ Len(s) \in Nat
      /\ \A i \in 1 .. Len(s) : Append(s, x)[i] = s[i]
      /\ Append(s, x)[Len(s) + 1] = x
  BY Appended
<1>2. /\ SubSeq(Append(s, x), 1, Len(s)) \in Seq(Ops)
      /\ Len(SubSeq(Append(s, x), 1, Len(s))) = Len(s)
      /\ \A i \in 1 .. Len(s) : SubSeq(Append(s, x), 1, Len(s))[i] = s[i]
  BY <1>1, SubSeqProperties, ElementOfSeq
<1>3. SubSeq(Append(s, x), 1, Len(s)) = s
  BY <1>2, SeqEqual
<1> QED BY <1>1, <1>3 DEF Log!AddsTo

-----------------------------------------------------------------------------
(* Types                                                                    *)

(* Ops are told apart by what they write, and from none.                    *)
LEMMA OpKinds ==
  /\ NoOp \notin Ops
  /\ \A op \in Ops : op.what \in {"row", "totals", "flush"} /\ op.by \in Procs
  /\ \A n \in Nat, p \in Procs : Row(n, p) \in Ops /\ Totals(n, p) \in Ops /\ FlushOp(p) \in Ops
  BY DEF NoOp, Ops, Row, Totals, FlushOp

(* The pipeline before its first event.                                     *)
LEMMA PipeInitial == Init => PipeInv
<1> SUFFICES ASSUME Init PROVE PipeInv
  OBVIOUS
<1>1. TypeOK
  BY EmptySeq DEF Init, TypeOK, Empty, Labels
<1>2. CarriesOwn /\ Continues /\ Closing
  BY DEF Init, CarriesOwn, Continues, Closing, Carrying, Empty, Procs
<1> QED BY <1>1, <1>2 DEF PipeInv

(* What a proc that goes somewhere, takes an op or lets it go leaves.       *)
LEMMA Goes ==
  ASSUME TypeOK, NEW p \in Procs, NEW label \in Labels, Goto(p, label)
  PROVE  /\ pc' \in [Procs -> Labels] /\ pc'[p] = label
         /\ \A q \in Procs : q # p => pc'[q] = pc[q]
  BY DEF TypeOK, Goto

LEMMA Takes ==
  ASSUME TypeOK, NEW p \in Procs, NEW label \in Labels, NEW op \in Ops, NEW next \in Labels,
         Carry(p, label, op, next)
  PROVE  /\ pc' \in [Procs -> Labels] /\ pc'[p] = label
         /\ loc' \in [Procs -> [op : Ops \cup {NoOp}, next : Labels]]
         /\ loc'[p].op = op /\ loc'[p].next = next
         /\ \A q \in Procs : q # p => pc'[q] = pc[q] /\ loc'[q] = loc[q]
<1>1. pc' = [pc EXCEPT ![p] = label] /\ loc' = [loc EXCEPT ![p] = [op |-> op, next |-> next]]
  BY DEF Carry, Goto
<1>2. [op |-> op, next |-> next] \in [op : Ops \cup {NoOp}, next : Labels]
  OBVIOUS
<1> QED BY <1>1, <1>2 DEF TypeOK

LEMMA LetsGo ==
  ASSUME TypeOK, NEW p \in Procs, Advance(p)
  PROVE  /\ pc' \in [Procs -> Labels] /\ pc'[p] = loc[p].next
         /\ loc' \in [Procs -> [op : Ops \cup {NoOp}, next : Labels]]
         /\ loc'[p].op = NoOp /\ loc'[p].next = "idle"
         /\ \A q \in Procs : q # p => pc'[q] = pc[q] /\ loc'[q] = loc[q]
<1>1. Empty \in [op : Ops \cup {NoOp}, next : Labels] /\ Empty.op = NoOp /\ Empty.next = "idle"
  BY DEF Empty, Labels
<1>2. loc[p].next \in Labels
  BY DEF TypeOK
<1>3. pc' = [pc EXCEPT ![p] = loc[p].next] /\ loc' = [loc EXCEPT ![p] = Empty]
  BY DEF Advance, Goto
<1> QED BY <1>1, <1>2, <1>3 DEF TypeOK

Plain(p) == SubmitWrite(p) \/ FlushReturn(p)
Elsewhere == Tick \/ TickerExit \/ Quit \/ QuitStep

(* What an emitted event leaves.                                            *)
LEMMA Emits ==
  ASSUME TypeOK, NEW e \in Emitters, NEW k \in Kinds, NEW t \in Texts \cup {NoText}, Emit(e, k, t)
  PROVE  /\ e \in Procs /\ e \notin {"ticker", "quit"} /\ Len(log) \in Nat
         /\ LET ev == [kind |-> k, text |-> t, row |-> SavesRow(k, t), by |-> e]
            IN  ev \in Event /\ log' = Append(log, ev) /\ log' \in Seq(Event)
         /\ Row(Len(log) + 1, e) \in Ops /\ Row(Len(log) + 1, e).by = e
         /\ Row(Len(log) + 1, e).what = "row" /\ Row(Len(log) + 1, e).n = Len(log) + 1
         /\ \E next \in {"flushTotals", "idle"} :
              IF SavesRow(k, t) THEN Carry(e, "submit", Row(Len(log) + 1, e), next)
                                ELSE Goto(e, next) /\ loc' = loc
<1>1. e \in Procs /\ e \notin {"ticker", "quit"}
  BY EmittersAssumption DEF Procs
<1>2. Len(log) \in Nat
  BY LenProperties DEF TypeOK
<1>3. SavesRow(k, t) \in BOOLEAN
  BY DEF SavesRow
<1>4. [kind |-> k, text |-> t, row |-> SavesRow(k, t), by |-> e] \in Event
  BY <1>3 DEF Event
<1>5. log \in Seq(Event) /\ log' = Append(log, [kind |-> k, text |-> t, row |-> SavesRow(k, t), by |-> e])
  BY DEF Emit, TypeOK
<1>6. log' \in Seq(Event)
  BY <1>4, <1>5, Appended
<1>7. /\ Row(Len(log) + 1, e) \in Ops /\ Row(Len(log) + 1, e).by = e
      /\ Row(Len(log) + 1, e).what = "row" /\ Row(Len(log) + 1, e).n = Len(log) + 1
  BY <1>1, <1>2, OpKinds DEF Row
<1>8. \E next \in {"flushTotals", "idle"} :
        IF SavesRow(k, t) THEN Carry(e, "submit", Row(Len(log) + 1, e), next)
                          ELSE Goto(e, next) /\ loc' = loc
  BY DEF Emit
<1> QED BY <1>1, <1>2, <1>4, <1>5, <1>6, <1>7, <1>8

(* Where a flush of the totals, and a flush, go on.                         *)
LEMMA FlushesTotals ==
  ASSUME TypeOK, NEW p \in Procs, FlushTotals(p)
  PROVE  /\ Totals(pending, p) \in Ops /\ Totals(pending, p).by = p /\ Totals(pending, p).what = "totals"
         /\ \E next \in {"flush", "closeWriter", "idle"} :
              IF pending = 0 THEN Goto(p, next) /\ loc' = loc
                             ELSE Carry(p, "submit", Totals(pending, p), next)
<1>1. Totals(pending, p) \in Ops /\ Totals(pending, p).by = p /\ Totals(pending, p).what = "totals"
  BY OpKinds DEF Totals, TypeOK
<1> QED BY <1>1 DEF FlushTotals

LEMMA Flushes ==
  ASSUME TypeOK, NEW p \in Procs, FlushCall(p)
  PROVE  /\ FlushOp(p) \in Ops /\ FlushOp(p).by = p /\ FlushOp(p).what = "flush"
         /\ \/ writer /\ Carry(p, "enqueue", FlushOp(p), "await")
            \/ ~writer /\ Goto(p, "idle") /\ loc' = loc
<1>1. FlushOp(p) \in Ops /\ FlushOp(p).by = p /\ FlushOp(p).what = "flush"
  BY OpKinds DEF FlushOp
<1> QED BY <1>1 DEF FlushCall

(* Where an op that is submitted goes.                                      *)
LEMMA Submits ==
  ASSUME PipeInv, NEW p \in Procs, Submit(p)
  PROVE  /\ loc[p].op \in Ops
         /\ \/ closed /\ Goto(p, "inline") /\ queue' = queue /\ loc' = loc
            \/ ~closed /\ queue' = Append(queue, loc[p].op) /\ queue' \in Seq(Ops) /\ Advance(p)
<1>1. loc[p].op \in Ops /\ queue \in Seq(Ops)
  BY DEF Submit, PipeInv, CarriesOwn, Carrying, TypeOK
<1> QED BY <1>1, Appended DEF Submit

(* What an op that runs leaves.                                             *)
LEMMA Runs ==
  ASSUME TypeOK, NEW op \in Ops, Execute(op)
  PROVE  /\ applied' = Append(applied, op) /\ applied' \in Seq(Ops) /\ released' \subseteq Procs
         /\ released' = released \cup (IF op.what = "flush" THEN {op.by} ELSE {})
<1>1. applied' = Append(applied, op) /\ applied' \in Seq(Ops)
  BY Appended DEF Execute, TypeOK
<1>2. op.by \in Procs
  BY OpKinds
<1>3. released' = released \cup (IF op.what = "flush" THEN {op.by} ELSE {})
  BY DEF Execute
<1> QED BY <1>1, <1>2, <1>3 DEF TypeOK

(* Every step keeps the types.                                              *)
LEMMA PipeTypes == PipeInv /\ [Next]_vars => TypeOK'
<1> SUFFICES ASSUME PipeInv, [Next]_vars PROVE TypeOK'
  OBVIOUS
<1>t. TypeOK
  BY DEF PipeInv
<1> USE DEF TypeOK, persisterVars, writerVars, tokenVars, procVars, historyVars
<1>l. {"idle", "submit", "enqueue", "inline", "flush", "flushTotals", "await", "closeWriter"} \subseteq Labels
  BY DEF Labels
<1>1. ASSUME NEW e \in Emitters, NEW k \in Kinds, NEW t \in Texts \cup {NoText}, Emit(e, k, t)
      PROVE  TypeOK'
  <2>1. e \in Procs /\ log' \in Seq(Event)
    BY <1>t, <1>1, Emits
  <2>2. lastText' \in Texts \cup {NoText}
    BY <1>t, <1>1 DEF Emit, Track
  <2>3. pc' \in [Procs -> Labels] /\ loc' \in [Procs -> [op : Ops \cup {NoOp}, next : Labels]]
    <3>1. PICK next \in {"flushTotals", "idle"} :
            IF SavesRow(k, t) THEN Carry(e, "submit", Row(Len(log) + 1, e), next)
                              ELSE Goto(e, next) /\ loc' = loc
      BY <1>t, <1>1, Emits
    <3>2. e \in Procs /\ Row(Len(log) + 1, e) \in Ops
      BY <1>t, <1>1, Emits
    <3> QED BY <1>t, <1>l, <3>1, <3>2, Goes, Takes
  <2> QED BY <1>t, <1>1, <2>1, <2>2, <2>3 DEF Emit
<1>2. ASSUME NEW e \in Emitters, Record(e)
      PROVE  TypeOK'
  BY <1>t, <1>2 DEF Record
<1>3. ASSUME NEW p \in Procs, Plain(p)
      PROVE  TypeOK'
  BY <1>t, <1>l, <1>3, Goes DEF Plain, SubmitWrite, FlushReturn
<1>4. ASSUME NEW p \in Procs, Submit(p)
      PROVE  TypeOK'
  BY <1>t, <1>l, <1>4, Submits, Goes, LetsGo DEF Submit
<1>5. ASSUME NEW p \in Procs, RunInline(p)
      PROVE  TypeOK'
  <2>1. loc[p].op \in Ops /\ Advance(p) /\ Execute(loc[p].op)
    BY <1>5 DEF RunInline, PipeInv, CarriesOwn, Carrying
  <2>2. pc' \in [Procs -> Labels] /\ loc' \in [Procs -> [op : Ops \cup {NoOp}, next : Labels]]
    BY <1>t, <2>1, LetsGo
  <2>3. applied' \in Seq(Ops) /\ released' \subseteq Procs
    BY <1>t, <2>1, Runs
  <2> QED BY <1>t, <1>5, <2>2, <2>3 DEF RunInline
<1>6. ASSUME NEW p \in Procs, FlushTotals(p)
      PROVE  TypeOK'
  <2>1. pc' \in [Procs -> Labels] /\ loc' \in [Procs -> [op : Ops \cup {NoOp}, next : Labels]]
    BY <1>t, <1>l, <1>6, FlushesTotals, Goes, Takes
  <2> QED BY <1>t, <1>6, <2>1 DEF FlushTotals
<1>7. ASSUME NEW p \in Procs, FlushCall(p)
      PROVE  TypeOK'
  <2>1. pc' \in [Procs -> Labels] /\ loc' \in [Procs -> [op : Ops \cup {NoOp}, next : Labels]]
    BY <1>t, <1>l, <1>7, Flushes, Goes, Takes
  <2> QED BY <1>t, <1>7, <2>1 DEF FlushCall
<1>8. CASE WriterTake
  <2>1. busy' \in Ops /\ queue' \in Seq(Ops)
    BY <1>t, <1>8, Shortened DEF WriterTake
  <2> QED BY <1>t, <1>8, <2>1 DEF WriterTake
<1>9. CASE WriterRun
  <2>1. busy \in Ops /\ Execute(busy)
    BY <1>t, <1>9 DEF WriterRun
  <2>2. applied' \in Seq(Ops) /\ released' \subseteq Procs
    BY <1>t, <2>1, Runs
  <2> QED BY <1>t, <1>9, <2>2 DEF WriterRun
<1>10. CASE WriterExit
  BY <1>t, <1>10 DEF WriterExit
<1>11. CASE Elsewhere
  BY ZenonT(30), <1>t, <1>11 DEF Elsewhere, QuitStep, Tick, TickerExit, Quit, QuitJoin, QuitWriter, QuitClose, QuitEnd, Goto,
     Labels, Procs
<1>12. CASE UNCHANGED vars
  BY <1>t, <1>12 DEF vars
<1> QED
  BY <1>1, <1>2, <1>3, <1>4, <1>5, <1>6, <1>7, <1>8, <1>9, <1>10, <1>11, <1>12
  DEF Next, Start, Step, WriterStep, Plain, Elsewhere

(* Every step keeps what is known of the procs and of the closing writer.   *)
LEMMA PipeStep == PipeInv /\ [Next]_vars => PipeInv'
<1> SUFFICES ASSUME PipeInv, [Next]_vars PROVE PipeInv'
  OBVIOUS
<1>t. TypeOK /\ TypeOK'
  BY PipeTypes DEF PipeInv
<1> SUFFICES CarriesOwn' /\ Continues' /\ Closing'
  BY <1>t DEF PipeInv
<1>l. {"idle", "submit", "enqueue", "inline", "flush", "flushTotals", "await", "closeWriter"} \subseteq Labels
  BY DEF Labels
<1>q. "quit" \in Procs
  BY DEF Procs
<1> USE DEF PipeInv, CarriesOwn, Continues, Closing, Carrying, persisterVars, writerVars, tokenVars,
        procVars, historyVars
<1>1. ASSUME NEW e \in Emitters, NEW k \in Kinds, NEW t \in Texts \cup {NoText}, Emit(e, k, t)
      PROVE  CarriesOwn' /\ Continues' /\ Closing'
  <2>1. PICK next \in {"flushTotals", "idle"} :
          IF SavesRow(k, t) THEN Carry(e, "submit", Row(Len(log) + 1, e), next)
                            ELSE Goto(e, next) /\ loc' = loc
    BY <1>t, <1>1, Emits
  <2>2. e \in Procs /\ e # "quit" /\ Row(Len(log) + 1, e) \in Ops
        /\ Row(Len(log) + 1, e).by = e /\ Row(Len(log) + 1, e).what = "row"
    BY <1>t, <1>1, Emits
  <2>3. /\ pc'[e] \in {"submit", "flushTotals", "idle"} /\ \A q \in Procs : q # e => pc'[q] = pc[q] /\ loc'[q] = loc[q]
        /\ \/ loc'[e].op = Row(Len(log) + 1, e) /\ loc'[e].next = next
           \/ loc'[e] = loc[e] /\ pc'[e] # "submit"
    BY <1>t, <1>l, <2>1, <2>2, Goes, Takes
  <2> QED BY <1>q, <1>1, <2>2, <2>3 DEF Emit
<1>2. ASSUME NEW e \in Emitters, Record(e)
      PROVE  CarriesOwn' /\ Continues' /\ Closing'
  BY <1>2 DEF Record
<1>3. ASSUME NEW p \in Procs, Plain(p)
      PROVE  CarriesOwn' /\ Continues' /\ Closing'
  <2>1. /\ \A q \in Procs : q # p => pc'[q] = pc[q]
        /\ \/ pc[p] = "submit" /\ pc'[p] = IF writer THEN "enqueue" ELSE "inline"
           \/ pc'[p] = "idle"
    BY <1>t, <1>l, <1>3, Goes DEF Plain, SubmitWrite, FlushReturn
  <2> QED BY <1>q, <1>3, <2>1 DEF Plain, SubmitWrite, FlushReturn
<1>4. ASSUME NEW p \in Procs, Submit(p)
      PROVE  CarriesOwn' /\ Continues' /\ Closing'
  <2>1. /\ \A q \in Procs : q # p => pc'[q] = pc[q] /\ loc'[q] = loc[q]
        /\ \/ closed /\ pc'[p] = "inline" /\ loc'[p] = loc[p] /\ queue' = queue
           \/ ~closed /\ pc'[p] = loc[p].next /\ loc'[p].next = "idle"
    BY <1>t, <1>l, <1>4, Submits, Goes, LetsGo
  <2> QED BY <1>q, <1>4, <2>1 DEF Submit
<1>5. ASSUME NEW p \in Procs, RunInline(p)
      PROVE  CarriesOwn' /\ Continues' /\ Closing'
  <2>1. /\ \A q \in Procs : q # p => pc'[q] = pc[q] /\ loc'[q] = loc[q]
        /\ pc'[p] = loc[p].next /\ loc'[p].next = "idle"
    BY <1>t, <1>5, LetsGo DEF RunInline
  <2> QED BY <1>q, <1>5, <2>1 DEF RunInline
<1>6. ASSUME NEW p \in Procs, FlushTotals(p)
      PROVE  CarriesOwn' /\ Continues' /\ Closing'
  <2>1. PICK next \in {"flush", "closeWriter", "idle"} :
          IF pending = 0 THEN Goto(p, next) /\ loc' = loc ELSE Carry(p, "submit", Totals(pending, p), next)
    BY <1>t, <1>6, FlushesTotals
  <2>2. /\ \A q \in Procs : q # p => pc'[q] = pc[q] /\ loc'[q] = loc[q]
        /\ \/ pc'[p] = "submit" /\ loc'[p].op = Totals(pending, p) /\ loc'[p].next = next
           \/ pc'[p] = next /\ loc'[p] = loc[p]
    BY <1>t, <1>l, <1>6, <2>1, FlushesTotals, Goes, Takes
  <2> QED BY <1>q, <1>t, <1>6, <2>2, FlushesTotals DEF FlushTotals
<1>7. ASSUME NEW p \in Procs, FlushCall(p)
      PROVE  CarriesOwn' /\ Continues' /\ Closing'
  <2>1. /\ \A q \in Procs : q # p => pc'[q] = pc[q] /\ loc'[q] = loc[q]
        /\ \/ pc'[p] = "enqueue" /\ loc'[p].op = FlushOp(p) /\ loc'[p].next = "await"
           \/ pc'[p] = "idle" /\ loc'[p] = loc[p]
    BY <1>t, <1>l, <1>7, Flushes, Goes, Takes
  <2> QED BY <1>q, <1>t, <1>7, <2>1, Flushes DEF FlushCall
<1>8. CASE WriterTake
  BY <1>8 DEF WriterTake
<1>9. CASE WriterRun \/ WriterExit
  BY <1>9 DEF WriterRun, WriterExit
<1>10. CASE Elsewhere
  BY <1>t, <1>10 DEF Elsewhere, QuitStep, Tick, TickerExit, Quit, QuitJoin, QuitWriter, QuitClose, QuitEnd, Goto,
     TypeOK, Procs
<1>11. CASE UNCHANGED vars
  BY <1>11 DEF vars
<1> QED
  BY <1>1, <1>2, <1>3, <1>4, <1>5, <1>6, <1>7, <1>8, <1>9, <1>10, <1>11
  DEF Next, Start, Step, WriterStep, Plain, Elsewhere

-----------------------------------------------------------------------------
(* The write log                                                            *)

Backlog == (IF busy = NoOp THEN <<>> ELSE <<busy>>) \o queue

(* What the writer has taken is still the first of the backlog.             *)
LEMMA BacklogIs ==
  ASSUME TypeOK
  PROVE  /\ Backlog = IF busy = NoOp THEN queue ELSE <<busy>> \o queue
         /\ Backlog \in Seq(Ops)
<1>1. queue \in Seq(Ops) /\ busy \in Ops \cup {NoOp}
  BY DEF TypeOK
<1>2. <<>> \o queue = queue
  BY <1>1, ConcatEmptySeq
<1>3. busy # NoOp => <<busy>> \in Seq(Ops) /\ <<busy>> \o queue \in Seq(Ops)
  BY <1>1, ConcatProperties
<1> QED BY <1>1, <1>2, <1>3 DEF Backlog

(* One more write in the queue is one more in the backlog.                  *)
LEMMA BacklogGrows ==
  ASSUME TypeOK, NEW op \in Ops, queue' = Append(queue, op), busy' = busy
  PROVE  Backlog' = Append(Backlog, op)
<1> DEFINE first == IF busy = NoOp THEN <<>> ELSE <<busy>>
<1>1. queue \in Seq(Ops) /\ first \in Seq(Ops) /\ <<op>> \in Seq(Ops)
  BY EmptySeq DEF TypeOK
<1>2. Backlog = first \o queue /\ Backlog' = first \o Append(queue, op)
  BY DEF Backlog
<1> HIDE DEF first
<1>3. Backlog' = (first \o queue) \o <<op>>
  BY SMTT(30), <1>1, <1>2, AppendIsConcat, ConcatAssociative
<1>4. first \o queue \in Seq(Ops)
  BY <1>1, ConcatProperties
<1> QED BY <1>1, <1>2, <1>3, <1>4, AppendIsConcat

LogVars == <<Backlog, applied, ~writer, gone>>

(* Each step of the pipeline is one of the write log, or leaves it.         *)
LEMMA LogStep == PipeInv /\ [Next]_vars => [Log!Next]_(Log!vars)
<1> SUFFICES ASSUME PipeInv, [Next]_vars, ~UNCHANGED LogVars PROVE Log!Next
  BY DEF Log!vars, LogVars, Backlog
<1>t. TypeOK /\ TypeOK'
  BY PipeTypes DEF PipeInv
<1> USE DEF persisterVars, writerVars, tokenVars, procVars, historyVars
<1>1. ASSUME NEW p \in Procs, Submit(p) PROVE Log!Next
  <2>1. ~closed /\ loc[p].op \in Ops /\ queue' = Append(queue, loc[p].op) /\ busy' = busy
    BY <1>1, Submits DEF Submit, LogVars, Backlog
  <2>2. ~gone
    BY <2>1 DEF PipeInv, Closing
  <2>3. Log!AddsTo(Backlog', Backlog)
    BY <1>t, <2>1, BacklogGrows, BacklogIs, AppendAdds
  <2>4. Log!Accept
    BY <1>1, <2>2, <2>3 DEF Log!Accept, Backlog, Submit
  <2> QED BY <2>4 DEF Log!Next
<1>2. ASSUME NEW p \in Procs, RunInline(p) PROVE Log!Next
  <2>1. ~writer /\ loc[p].op \in Ops
    BY <1>2 DEF RunInline, PipeInv, Closing, CarriesOwn, Carrying
  <2>2. Log!AddsTo(applied', applied)
    BY <1>t, <1>2, <2>1, AppendAdds DEF RunInline, Execute, TypeOK
  <2>3. Log!Direct
    BY <1>2, <2>1, <2>2 DEF Log!Direct, RunInline
  <2> QED BY <2>3 DEF Log!Next
<1>3. ~WriterTake
  <2> SUFFICES ASSUME WriterTake PROVE FALSE
    OBVIOUS
  <2>1. queue \in Seq(Ops) /\ queue # <<>> /\ busy = NoOp /\ busy' = Head(queue) /\ queue' = Tail(queue)
    BY <1>t DEF WriterTake, TypeOK
  <2>2. busy' # NoOp
    BY <2>1, Shortened, OpKinds
  <2>3. Backlog' = <<Head(queue)>> \o Tail(queue)
    BY <2>1, <2>2 DEF Backlog
  <2>4. Backlog' = Backlog
    BY <1>t, <2>1, <2>3, HeadThenTail, BacklogIs
  <2> QED BY <2>4 DEF WriterTake, LogVars
<1>4. CASE WriterRun
  <2>1. busy \in Ops /\ busy # NoOp /\ busy' = NoOp /\ queue' = queue /\ queue \in Seq(Ops)
    BY <1>t, <1>4 DEF WriterRun, TypeOK
  <2>2. Backlog = <<busy>> \o queue /\ Backlog' = queue /\ Backlog \in Seq(Ops)
    <3>1. Backlog' = <<>> \o queue
      BY <2>1 DEF Backlog
    <3> QED BY <1>t, <2>1, <3>1, BacklogIs, ConcatEmptySeq
  <2>3. /\ <<busy>> \in Seq(Ops) /\ Len(<<busy>>) = 1 /\ <<busy>>[1] = busy
    BY <2>1
  <2>4. Len(Backlog) = Len(queue) + 1 /\ Len(queue) \in Nat /\ Backlog[1] = busy
        /\ \A i \in 1 .. Len(queue) : Backlog[i + 1] = queue[i]
    BY <2>1, <2>2, <2>3, ConcatProperties, LenProperties
  <2>5. Backlog # <<>>
    BY <2>4, EmptySeq
  <2>6. Head(Backlog) = busy /\ Tail(Backlog) = queue
    BY <2>1, <2>2, <2>4, <2>5, Shortened, SeqEqual
  <2>7. Log!Apply
    BY <1>4, <2>2, <2>5, <2>6 DEF Log!Apply, Backlog, WriterRun, Execute
  <2> QED BY <2>7 DEF Log!Next
<1>5. CASE WriterExit
  <2>1. Backlog = <<>> /\ Backlog' = Backlog
    BY <1>t, <1>5, BacklogIs DEF WriterExit, Backlog
  <2>2. Log!End
    BY <1>5, <2>1 DEF Log!End, Backlog, WriterExit, PipeInv, Closing
  <2> QED BY <2>2 DEF Log!Next
<1>6. CASE QuitWriter
  <2>1. Log!Close
    BY <1>6 DEF Log!Close, QuitWriter
  <2> QED BY <2>1 DEF Log!Next
<1>7. ASSUME NEW e \in Emitters, Start(e) PROVE FALSE
  <2>1. ASSUME NEW k \in Kinds, NEW t \in Texts \cup {NoText}, Emit(e, k, t) PROVE FALSE
    BY <2>1 DEF Emit, LogVars, Backlog
  <2>2. ~Record(e)
    BY DEF Record, LogVars, Backlog
  <2> QED BY <1>7, <2>1, <2>2 DEF Start
<1>8. ASSUME NEW p \in Procs, Plain(p) \/ FlushTotals(p) \/ FlushCall(p) PROVE FALSE
  BY <1>8 DEF Plain, SubmitWrite, FlushReturn, FlushTotals, FlushCall, LogVars, Backlog
<1>9. ~(Tick \/ TickerExit \/ Quit \/ QuitJoin \/ QuitClose \/ QuitEnd \/ UNCHANGED vars)
  BY DEF Tick, TickerExit, Quit, QuitJoin, QuitClose, QuitEnd, vars, LogVars, Backlog
<1> QED BY <1>1, <1>2, <1>3, <1>4, <1>5, <1>6, <1>7, <1>8, <1>9 DEF Next, Step, WriterStep, QuitStep, Plain

(* The initial pipeline is the empty write log.                             *)
LEMMA LogInitial == Init => Log!Init
<1> SUFFICES ASSUME Init PROVE Log!Init
  OBVIOUS
<1>1. TypeOK
  BY PipeInitial DEF PipeInv
<1>2. Backlog = <<>>
  BY <1>1, BacklogIs DEF Init
<1> QED BY <1>2 DEF Init, Log!Init, Backlog

(* Every write that is accepted runs once, in the order of acceptance, and  *)
(* before the writer ends: singleWriter, SubmitWrite and Application's      *)
(* shutdown implement WriteLog.                                             *)
THEOREM KeepsLogHolds == Spec => KeepsLog
  BY PipeInitial, PipeStep, LogInitial, LogStep, PTL DEF Spec, KeepsLog, Log!Spec

-----------------------------------------------------------------------------
(* Counting where an op is                                                  *)

Slots(q, op) == {i \in DOMAIN q : q[i] = op}

(* An op that is appended is in one more place, the others in as many.      *)
LEMMA CountAppended ==
  ASSUME NEW S, NEW q \in Seq(S), NEW x \in S, NEW op
  PROVE  /\ IsFiniteSet(Slots(q, op)) /\ Cardinality(Slots(q, op)) \in Nat
         /\ Cardinality(Slots(Append(q, x), op)) = Cardinality(Slots(q, op)) + (IF x = op THEN 1 ELSE 0)
<1>1. IsFiniteSet(Slots(q, op))
  <2>1. IsFiniteSet(1 .. Len(q)) /\ DOMAIN q = 1 .. Len(q)
    BY Appended, FS_Interval
  <2> QED BY <2>1, FS_Subset DEF Slots
<1>2. Len(q) + 1 \notin Slots(q, op)
  BY Appended DEF Slots
<1>3. CASE x = op
  <2>1. Slots(Append(q, x), op) = Slots(q, op) \cup {Len(q) + 1}
    BY <1>3, Appended DEF Slots
  <2> QED BY <1>1, <1>2, <1>3, <2>1, FS_AddElement, FS_CardinalityType
<1>4. CASE x # op
  <2>1. Slots(Append(q, x), op) = Slots(q, op)
    BY <1>4, Appended DEF Slots
  <2> QED BY <1>1, <1>4, <2>1, FS_CardinalityType
<1> QED BY <1>3, <1>4

(* A head that is taken was one place of its op.                            *)
LEMMA CountTaken ==
  ASSUME NEW S, NEW q \in Seq(S), q # <<>>, NEW op
  PROVE  /\ Cardinality(Slots(Tail(q), op)) \in Nat
         /\ Cardinality(Slots(q, op)) = Cardinality(Slots(Tail(q), op)) + (IF Head(q) = op THEN 1 ELSE 0)
<1> DEFINE T == Slots(Tail(q), op)
           U == {i + 1 : i \in T}
<1>1. IsFiniteSet(T)
  <2>1. IsFiniteSet(1 .. Len(q) - 1) /\ DOMAIN Tail(q) = 1 .. Len(q) - 1
    BY Shortened, FS_Interval
  <2> QED BY <2>1, FS_Subset DEF Slots
<1>2. T \subseteq Nat \ {0} /\ U \subseteq 2 .. Len(q)
  BY Shortened DEF Slots
<1>3. ExistsBijection(T, U)
  <2> DEFINE shift == [i \in T |-> i + 1]
  <2>1. shift \in [T -> U]
    OBVIOUS
  <2>2. \A i, j \in T : shift[i] = shift[j] => i = j
    BY <1>2
  <2>3. \A u \in U : \E i \in T : shift[i] = u
    OBVIOUS
  <2>4. shift \in Bijection(T, U)
    BY <2>1, <2>2, <2>3, Fun_IsBij
  <2> QED BY <2>4 DEF ExistsBijection
<1>4. IsFiniteSet(U) /\ Cardinality(U) = Cardinality(T) /\ Cardinality(T) \in Nat
  BY <1>1, <1>3, FS_Bijection, FS_CardinalityType
<1>5. Slots(q, op) \ {1} = U
  <2>1. /\ Len(q) \in Nat \ {0} /\ DOMAIN q = 1 .. Len(q) /\ DOMAIN Tail(q) = 1 .. Len(q) - 1
        /\ \A i \in 1 .. Len(q) - 1 : Tail(q)[i] = q[i + 1]
    BY Shortened
  <2>2. ASSUME NEW j \in Slots(q, op), j # 1 PROVE j \in U
    <3>1. j \in 1 .. Len(q) /\ q[j] = op /\ j - 1 \in 1 .. Len(q) - 1 /\ (j - 1) + 1 = j
      BY <2>1, <2>2 DEF Slots
    <3>2. Tail(q)[j - 1] = op
      BY <2>1, <3>1
    <3>3. j - 1 \in T
      BY <2>1, <3>1, <3>2 DEF Slots
    <3> QED BY <3>1, <3>3
  <2>3. ASSUME NEW i \in T PROVE i + 1 \in Slots(q, op) /\ i + 1 # 1
    <3>1. i \in 1 .. Len(q) - 1 /\ Tail(q)[i] = op
      BY <2>1 DEF Slots
    <3>2. i + 1 \in 1 .. Len(q) /\ q[i + 1] = op /\ i + 1 # 1
      BY <2>1, <3>1
    <3> QED BY <2>1, <3>2 DEF Slots
  <2> QED BY <2>2, <2>3
<1>6. 1 \notin U /\ (1 \in Slots(q, op) <=> Head(q) = op)
  BY <1>2, Shortened DEF Slots
<1>7. CASE Head(q) = op
  <2>1. Slots(q, op) = U \cup {1}
    BY <1>5, <1>6, <1>7
  <2> QED BY ZenonT(30), <1>4, <1>6, <1>7, <2>1, FS_AddElement
<1>8. CASE Head(q) # op
  <2>1. Slots(q, op) = U
    BY <1>5, <1>6, <1>8
  <2> QED BY <1>4, <1>8, <2>1
<1> QED BY <1>7, <1>8

Carrier(op) == IF pc[op.by] \in Carrying /\ loc[op.by].op = op THEN 1 ELSE 0
Taken(op) == IF busy = op THEN 1 ELSE 0
Queued(op) == Cardinality(Slots(queue, op))
Applied(op) == Cardinality(Slots(applied, op))

(* Each op's places, counted one kind of place at a time.                   *)
PlacesCount ==
  \A op \in Ops :
    /\ Places(op) = Carrier(op) + Queued(op) + Taken(op) + Applied(op)
    /\ Queued(op) \in Nat /\ Applied(op) \in Nat

(* An op is carried by its own proc only.                                   *)
LEMMA PlacesNow == PipeInv => PlacesCount
<1> SUFFICES ASSUME PipeInv, NEW op \in Ops
             PROVE  /\ Places(op) = Carrier(op) + Queued(op) + Taken(op) + Applied(op)
                    /\ Queued(op) \in Nat /\ Applied(op) \in Nat
  BY DEF PlacesCount
<1>1. Queued(op) \in Nat /\ Applied(op) \in Nat
  <2>1. queue \in Seq(Ops) /\ applied \in Seq(Ops)
    BY DEF PipeInv, TypeOK
  <2> QED BY <2>1, CountAppended DEF Queued, Applied
<1>2. op.by \in Procs
  BY OpKinds
<1>3. Carriers(op) = IF pc[op.by] \in Carrying /\ loc[op.by].op = op THEN {op.by} ELSE {}
  BY <1>2 DEF PipeInv, CarriesOwn, Carrying, Carriers
<1>4. Cardinality(Carriers(op)) = Carrier(op)
  BY <1>3, FS_EmptySet, FS_Singleton DEF Carrier
<1>5. Places(op) = Cardinality(Carriers(op)) + Queued(op) + Taken(op) + Applied(op)
  BY DEF Places, Queued, Taken, Applied, Slots
<1> QED BY <1>1, <1>4, <1>5

LEMMA PlacesThen == PipeInv' => PlacesCount'
  BY PlacesNow, PTL

-----------------------------------------------------------------------------
(* No step moves an op out of all its places                                *)

(* An op that a proc takes is in one more place, the others in as many.     *)
LEMMA TakenUp ==
  ASSUME PipeInv, PipeInv', NEW p \in Procs, NEW op \in Ops, op.by = p, NEW next \in Labels,
         pc[p] \notin Carrying, NEW label \in Carrying, Carry(p, label, op, next),
         UNCHANGED <<queue, busy, applied>>
  PROVE  \A o \in Ops : Places(o)' = Places(o) + (IF o = op THEN 1 ELSE 0)
<1> SUFFICES ASSUME NEW o \in Ops
             PROVE  Places(o)' = Places(o) + (IF o = op THEN 1 ELSE 0)
  OBVIOUS
<1>1. o.by \in Procs /\ label \in Labels
  BY OpKinds DEF Carrying, Labels
<1>2. Carrier(o)' = Carrier(o) + (IF o = op THEN 1 ELSE 0)
  <2>1. /\ pc'[p] = label /\ loc'[p].op = op
        /\ \A q \in Procs : q # p => pc'[q] = pc[q] /\ loc'[q] = loc[q]
    BY <1>1, Takes DEF PipeInv
  <2> QED BY <1>1, <2>1 DEF Carrier
<1>3. Queued(o)' = Queued(o) /\ Taken(o)' = Taken(o) /\ Applied(o)' = Applied(o)
  BY DEF Queued, Taken, Applied
<1>4. Carrier(o) \in Nat /\ Taken(o) \in Nat
  BY DEF Carrier, Taken
<1> QED BY <1>2, <1>3, <1>4, PlacesNow, PlacesThen DEF PlacesCount

(* A proc that takes no op leaves every op where it is.                     *)
LEMMA LeftAlone ==
  ASSUME PipeInv, PipeInv', UNCHANGED <<queue, busy, applied>>,
         \A p \in Procs : pc'[p] = pc[p] \/ (pc[p] \in Carrying /\ pc'[p] \in Carrying)
                                        \/ (pc[p] \notin Carrying /\ pc'[p] \notin Carrying),
         loc' = loc
  PROVE  \A o \in Ops : Places(o)' = Places(o)
<1> SUFFICES ASSUME NEW o \in Ops
             PROVE  Places(o)' = Places(o)
  OBVIOUS
<1>1. Carrier(o)' = Carrier(o)
  BY OpKinds DEF Carrier
<1>2. Queued(o)' = Queued(o) /\ Taken(o)' = Taken(o) /\ Applied(o)' = Applied(o)
  BY DEF Queued, Taken, Applied
<1> QED BY <1>1, <1>2, PlacesNow, PlacesThen DEF PlacesCount

(* A proc that lets its op go leaves the others where they are.             *)
LEMMA LetGo ==
  ASSUME PipeInv, NEW p \in Procs, pc[p] \in Carrying, Advance(p)
  PROVE  /\ loc[p].op \in Ops
         /\ \A o \in Ops : Carrier(o)' = Carrier(o) - (IF o = loc[p].op THEN 1 ELSE 0)
<1>1. loc[p].op \in Ops /\ loc[p].op.by = p /\ loc[p].next \notin Carrying
  BY DEF PipeInv, CarriesOwn, Continues, Carrying
<1>2. pc'[p] \notin Carrying /\ \A q \in Procs : q # p => pc'[q] = pc[q] /\ loc'[q] = loc[q]
  BY <1>1, LetsGo DEF PipeInv
<1>3. ASSUME NEW o \in Ops
      PROVE  Carrier(o)' = Carrier(o) - (IF o = loc[p].op THEN 1 ELSE 0)
  BY <1>1, <1>2, OpKinds DEF Carrier
<1> QED BY <1>1, <1>3

(* An op that is queued, taken or run moves from one place to another.      *)
LEMMA MovedOn ==
  ASSUME PipeInv, PipeInv', (\E p \in Procs : Submit(p) \/ RunInline(p)) \/ WriterTake \/ WriterRun
  PROVE  \A o \in Ops : Places(o)' = Places(o)
<1> SUFFICES ASSUME NEW o \in Ops
             PROVE  Places(o)' = Places(o)
  OBVIOUS
<1>t. TypeOK /\ queue \in Seq(Ops) /\ applied \in Seq(Ops)
  BY DEF PipeInv, TypeOK
<1>p. /\ Places(o) = Carrier(o) + Queued(o) + Taken(o) + Applied(o)
      /\ Places(o)' = Carrier(o)' + Queued(o)' + Taken(o)' + Applied(o)'
      /\ Queued(o) \in Nat /\ Applied(o) \in Nat /\ Carrier(o) \in Nat /\ Taken(o) \in Nat
  BY PlacesNow, PlacesThen DEF PlacesCount, Carrier, Taken
<1> USE DEF persisterVars, writerVars, tokenVars, procVars, historyVars
<1>1. ASSUME NEW p \in Procs, Submit(p), closed PROVE Places(o)' = Places(o)
  <2>1. pc[p] = "enqueue" /\ Goto(p, "inline") /\ UNCHANGED <<queue, busy, applied>> /\ loc' = loc
    BY <1>1, Submits DEF Submit
  <2>2. \A q \in Procs : pc'[q] = pc[q] \/ (pc[q] \in Carrying /\ pc'[q] \in Carrying)
    BY <1>t, <2>1, Goes DEF Carrying, Labels
  <2> QED BY <2>1, <2>2, LeftAlone
<1>2. ASSUME NEW p \in Procs, Submit(p), ~closed PROVE Places(o)' = Places(o)
  <2>1. loc[p].op \in Ops /\ queue' = Append(queue, loc[p].op) /\ pc[p] \in Carrying /\ Advance(p)
    BY <1>2, Submits DEF Submit, Carrying
  <2>2. Carrier(o)' = Carrier(o) - (IF o = loc[p].op THEN 1 ELSE 0)
    BY <2>1, LetGo
  <2>3. Queued(o)' = Queued(o) + (IF loc[p].op = o THEN 1 ELSE 0)
    BY <1>t, <2>1, CountAppended DEF Queued
  <2>4. Taken(o)' = Taken(o) /\ Applied(o)' = Applied(o)
    BY <1>2 DEF Submit, Taken, Applied
  <2> QED BY <1>p, <2>2, <2>3, <2>4
<1>3. ASSUME NEW p \in Procs, RunInline(p) PROVE Places(o)' = Places(o)
  <2>1. pc[p] \in Carrying /\ Advance(p) /\ Execute(loc[p].op)
    BY <1>3 DEF RunInline, Carrying
  <2>2. loc[p].op \in Ops /\ Carrier(o)' = Carrier(o) - (IF o = loc[p].op THEN 1 ELSE 0)
    BY <2>1, LetGo
  <2>r. applied' = Append(applied, loc[p].op)
    BY <1>t, <2>1, <2>2, Runs
  <2>3. Applied(o)' = Applied(o) + (IF loc[p].op = o THEN 1 ELSE 0)
    BY <1>t, <2>2, <2>r, CountAppended DEF Applied
  <2>4. Queued(o)' = Queued(o) /\ Taken(o)' = Taken(o)
    BY <1>3 DEF RunInline, Queued, Taken
  <2> QED BY <1>p, <2>2, <2>3, <2>4
<1>4. CASE WriterTake
  <2>1. Queued(o) = Queued(o)' + (IF Head(queue) = o THEN 1 ELSE 0) /\ Queued(o)' \in Nat
    BY <1>t, <1>4, CountTaken DEF WriterTake, Queued
  <2>2. Taken(o) = 0 /\ Taken(o)' = IF Head(queue) = o THEN 1 ELSE 0
    BY <1>4, OpKinds DEF WriterTake, Taken
  <2>3. Carrier(o)' = Carrier(o) /\ Applied(o)' = Applied(o)
    BY <1>4 DEF WriterTake, Carrier, Applied
  <2> QED BY <1>p, <2>1, <2>2, <2>3
<1>5. CASE WriterRun
  <2>1. busy \in Ops /\ Execute(busy)
    BY <1>t, <1>5 DEF WriterRun, TypeOK
  <2>r. applied' = Append(applied, busy)
    BY <1>t, <2>1, Runs
  <2>2. Applied(o)' = Applied(o) + (IF busy = o THEN 1 ELSE 0)
    BY <1>t, <2>1, <2>r, CountAppended DEF Applied
  <2>3. Taken(o)' = 0
    BY <1>5, OpKinds DEF WriterRun, Taken
  <2>4. Carrier(o)' = Carrier(o) /\ Queued(o)' = Queued(o)
    BY <1>5 DEF WriterRun, Carrier, Queued
  <2> QED BY <1>p, <2>2, <2>3, <2>4 DEF Taken
<1> QED BY <1>1, <1>2, <1>3, <1>4, <1>5

(* The other steps leave every op but a flush's where it is.                *)
LEMMA OthersLeave ==
  ASSUME PipeInv, PipeInv',
         \/ \E e \in Emitters : Record(e)
         \/ \E p \in Procs : Plain(p) \/ FlushCall(p)
         \/ WriterExit \/ Elsewhere \/ UNCHANGED vars
  PROVE  \A o \in Ops : o.what # "flush" => Places(o)' = Places(o)
<1>t. TypeOK
  BY DEF PipeInv
<1>l. {"idle", "submit", "enqueue", "inline"} \subseteq Labels
  BY DEF Labels
<1> USE DEF persisterVars, writerVars, tokenVars, procVars, historyVars
<1>1. ASSUME NEW p \in Procs, FlushCall(p)
      PROVE  \A o \in Ops : o.what # "flush" => Places(o)' = Places(o)
  <2>1. pc[p] = "flush" /\ UNCHANGED <<queue, busy, applied>>
    BY <1>1 DEF FlushCall
  <2>2. CASE Carry(p, "enqueue", FlushOp(p), "await")
    <3>1. FlushOp(p) \in Ops /\ FlushOp(p).by = p /\ FlushOp(p).what = "flush"
      BY <1>t, <1>1, Flushes
    <3>2. \A o \in Ops : Places(o)' = Places(o) + (IF o = FlushOp(p) THEN 1 ELSE 0)
      BY <2>1, <2>2, <3>1, TakenUp DEF Carrying, Labels
    <3>3. \A o \in Ops : Places(o) \in Nat
      BY PlacesNow DEF PlacesCount, Carrier, Taken
    <3> QED BY <3>1, <3>2, <3>3
  <2>3. CASE Goto(p, "idle") /\ loc' = loc
    <3>1. \A q \in Procs : pc'[q] = pc[q] \/ (pc[q] \notin Carrying /\ pc'[q] \notin Carrying)
      BY <1>t, <1>l, <2>1, <2>3, Goes DEF Carrying
    <3> QED BY <2>1, <2>3, <3>1, LeftAlone
  <2> QED BY <1>t, <1>1, <2>2, <2>3, Flushes
<1>2. ASSUME ~(\E p \in Procs : FlushCall(p))
      PROVE  \A o \in Ops : Places(o)' = Places(o)
  <2>1. UNCHANGED <<queue, busy, applied>> /\ loc' = loc
    BY <1>2 DEF Record, Plain, SubmitWrite, FlushReturn, WriterExit, Elsewhere, Tick, TickerExit, Quit, QuitStep,
       QuitJoin, QuitWriter, QuitClose, QuitEnd, vars
  <2>2. \A p \in Procs : pc'[p] = pc[p] \/ (pc[p] \in Carrying /\ pc'[p] \in Carrying)
                                        \/ (pc[p] \notin Carrying /\ pc'[p] \notin Carrying)
    <3>1. ASSUME NEW p \in Procs, Plain(p)
          PROVE  \A q \in Procs : pc'[q] = pc[q] \/ (pc[q] \in Carrying /\ pc'[q] \in Carrying)
                                        \/ (pc[q] \notin Carrying /\ pc'[q] \notin Carrying)
      BY <1>t, <1>l, <3>1, Goes DEF Plain, SubmitWrite, FlushReturn, Carrying
    <3>2. CASE Elsewhere
      BY <1>t, <3>2 DEF Elsewhere, Tick, TickerExit, Quit, QuitStep, QuitJoin, QuitWriter, QuitClose, QuitEnd, Goto,
         TypeOK, Carrying
    <3> QED BY <1>2, <3>1, <3>2 DEF Record, WriterExit, vars
  <2> QED BY <2>1, <2>2, LeftAlone
<1> QED BY <1>1, <1>2

(* An emitted event's row is in one more place, the other ops in as many.   *)
LEMMA EmitPlaces ==
  ASSUME PipeInv, PipeInv', NEW e \in Emitters, NEW k \in Kinds, NEW t \in Texts \cup {NoText}, Emit(e, k, t)
  PROVE  \A o \in Ops :
           Places(o)' = Places(o) + (IF SavesRow(k, t) /\ o = Row(Len(log) + 1, e) THEN 1 ELSE 0)
<1>1. TypeOK /\ pc[e] = "idle" /\ UNCHANGED <<queue, busy, applied>>
  BY DEF PipeInv, Emit, writerVars
<1>2. /\ e \in Procs /\ Row(Len(log) + 1, e) \in Ops /\ Row(Len(log) + 1, e).by = e
      /\ \E next \in {"flushTotals", "idle"} :
           IF SavesRow(k, t) THEN Carry(e, "submit", Row(Len(log) + 1, e), next)
                             ELSE Goto(e, next) /\ loc' = loc
  <2>1. e \in Procs /\ Row(Len(log) + 1, e) \in Ops /\ Row(Len(log) + 1, e).by = e
    BY <1>1, Emits
  <2>2. \E next \in {"flushTotals", "idle"} :
           IF SavesRow(k, t) THEN Carry(e, "submit", Row(Len(log) + 1, e), next)
                             ELSE Goto(e, next) /\ loc' = loc
    BY <1>1, Emits
  <2> QED BY <2>1, <2>2
<1>3. \A o \in Ops : Places(o) \in Nat
  BY PlacesNow DEF PlacesCount, Carrier, Taken
<1>4. CASE SavesRow(k, t)
  BY <1>1, <1>2, <1>4, TakenUp DEF Carrying, Labels
<1>5. CASE ~SavesRow(k, t)
  <2>1. \A q \in Procs : pc'[q] = pc[q] \/ (pc[q] \notin Carrying /\ pc'[q] \notin Carrying)
    BY <1>1, <1>2, <1>5, Goes DEF Carrying, Labels
  <2> QED BY <1>1, <1>2, <1>3, <1>5, <2>1, LeftAlone
<1> QED BY <1>4, <1>5

(* Pending totals that are flushed are in one more place.                   *)
LEMMA TotalsPlaces ==
  ASSUME PipeInv, PipeInv', NEW p \in Procs, FlushTotals(p)
  PROVE  \A o \in Ops :
           Places(o)' = Places(o) + (IF pending # 0 /\ o = Totals(pending, p) THEN 1 ELSE 0)
<1>1. TypeOK /\ pc[p] = "flushTotals" /\ UNCHANGED <<queue, busy, applied>>
  BY DEF PipeInv, FlushTotals, writerVars
<1>2. /\ Totals(pending, p) \in Ops /\ Totals(pending, p).by = p
      /\ \E next \in {"flush", "closeWriter", "idle"} :
           IF pending = 0 THEN Goto(p, next) /\ loc' = loc
                          ELSE Carry(p, "submit", Totals(pending, p), next)
  BY <1>1, FlushesTotals
<1>3. \A o \in Ops : Places(o) \in Nat
  BY PlacesNow DEF PlacesCount, Carrier, Taken
<1>4. CASE pending # 0
  BY <1>1, <1>2, <1>4, TakenUp DEF Carrying, Labels
<1>5. CASE pending = 0
  <2>1. \A q \in Procs : pc'[q] = pc[q] \/ (pc[q] \notin Carrying /\ pc'[q] \notin Carrying)
    BY <1>1, <1>2, <1>5, Goes DEF Carrying, Labels
  <2> QED BY <1>1, <1>2, <1>3, <1>5, <2>1, LeftAlone
<1> QED BY <1>4, <1>5

-----------------------------------------------------------------------------
(* Nothing is lost                                                          *)

(* The row of an event that was emitted is in one place, any other in none. *)
HomeInv ==
  \A n \in Nat, e \in Emitters :
    Places(Row(n, e)) = IF n \in DOMAIN log /\ log[n].by = e /\ log[n].row THEN 1 ELSE 0

(* The answer that is tracked was streamed, and saved, since the last user  *)
(* message.                                                                 *)
LastSaved ==
  lastText # NoText =>
    \E m \in DOMAIN log :
      /\ log[m].kind = "done" /\ log[m].text = lastText /\ log[m].row
      /\ \A k \in m .. Len(log) : log[k].kind # "user"

LostInv == PipeInv /\ HomeInv /\ LastSaved /\ AnswerSaved /\ TotalsHome

(* Rows are told apart by their event and their emitter.                    *)
LEMMA RowsDiffer ==
  ASSUME NEW n \in Nat, NEW e \in Emitters
  PROVE  /\ Row(n, e) \in Ops /\ Row(n, e).what = "row" /\ Row(n, e).by = e
         /\ \A m \in Nat, f \in Emitters : Row(n, e) = Row(m, f) <=> n = m /\ e = f
<1>1. e \in Procs
  BY DEF Procs
<1>2. Row(n, e) \in Ops
  BY <1>1, OpKinds
<1>3. Row(n, e).n = n /\ Row(n, e).by = e /\ Row(n, e).what = "row"
  BY DEF Row
<1>4. \A m \in Nat, f \in Emitters : Row(m, f).n = m /\ Row(m, f).by = f
  BY DEF Row
<1> QED BY <1>2, <1>3, <1>4

(* Every place is counted.                                                  *)
LEMMA PlacesNat == PipeInv => \A o \in Ops : Places(o) \in Nat
  BY PlacesNow DEF PlacesCount, Carrier, Taken

(* No op is anywhere before the first event.                                *)
LEMMA NoPlaces == Init => \A o \in Ops : Places(o) = 0
<1> SUFFICES ASSUME Init, NEW o \in Ops PROVE Places(o) = 0
  OBVIOUS
<1>1. PipeInv
  BY PipeInitial
<1>2. o # NoOp /\ o.by \in Procs
  BY OpKinds
<1>3. Carrier(o) = 0 /\ Taken(o) = 0
  BY <1>2 DEF Carrier, Carrying, Taken, Init
<1>4. Slots(queue, o) = {} /\ Slots(applied, o) = {}
  BY EmptySeq DEF Slots, Init
<1>5. Queued(o) = 0 /\ Applied(o) = 0
  BY <1>4, FS_EmptySet DEF Queued, Applied
<1> QED BY <1>1, <1>3, <1>5, PlacesNow DEF PlacesCount

(* Nothing is lost before the first event.                                  *)
LEMMA LostInitial == Init => LostInv
<1> SUFFICES ASSUME Init PROVE LostInv
  OBVIOUS
<1>1. HomeInv
  BY NoPlaces, RowsDiffer DEF Init, HomeInv
<1>2. LastSaved /\ AnswerSaved /\ TotalsHome
  BY DEF Init, LastSaved, AnswerSaved, TotalsHome
<1> QED BY <1>1, <1>2, PipeInitial DEF LostInv

(* A step that emits nothing leaves each row in as many places.             *)
LEMMA RowsStay ==
  ASSUME PipeInv, PipeInv', [Next]_vars,
         ~(\E e \in Emitters, k \in Kinds, t \in Texts \cup {NoText} : Emit(e, k, t))
  PROVE  /\ log' = log /\ lastText' = lastText
         /\ \A o \in Ops : o.what = "row" => Places(o)' = Places(o)
<1> USE DEF persisterVars, writerVars, tokenVars, procVars, historyVars
<1>1. log' = log /\ lastText' = lastText
  BY DEF Next, Start, Step, WriterStep, QuitStep, Record, SubmitWrite, Submit, RunInline, FlushTotals, FlushCall,
     FlushReturn, WriterTake, WriterRun, WriterExit, Tick, TickerExit, Quit, QuitJoin, QuitWriter, QuitClose,
     QuitEnd, vars
<1>2. ASSUME NEW p \in Procs, FlushTotals(p)
      PROVE  \A o \in Ops : o.what = "row" => Places(o)' = Places(o)
  <2>1. Totals(pending, p).what = "totals"
    BY DEF Totals
  <2> QED BY <1>2, <2>1, TotalsPlaces, PlacesNat
<1>3. CASE (\E p \in Procs : Submit(p) \/ RunInline(p)) \/ WriterTake \/ WriterRun
  BY <1>1, <1>3, MovedOn
<1>4. CASE \/ \E e \in Emitters : Record(e)
           \/ \E p \in Procs : Plain(p) \/ FlushCall(p)
           \/ WriterExit \/ Elsewhere \/ UNCHANGED vars
  BY <1>1, <1>4, OthersLeave
<1> QED BY <1>1, <1>2, <1>3, <1>4 DEF Next, Start, Step, WriterStep, Plain, Elsewhere

(* What an emitted event appends to the log.                                *)
LEMMA LogGrows ==
  ASSUME PipeInv, NEW e \in Emitters, NEW k \in Kinds, NEW t \in Texts \cup {NoText}, Emit(e, k, t)
  PROVE  /\ Len(log) \in Nat /\ Len(log') = Len(log) + 1
         /\ DOMAIN log = 1 .. Len(log) /\ DOMAIN log' = 1 .. Len(log) + 1
         /\ \A n \in 1 .. Len(log) : log'[n] = log[n]
         /\ log'[Len(log) + 1] = [kind |-> k, text |-> t, row |-> SavesRow(k, t), by |-> e]
<1>1. TypeOK /\ log \in Seq(Event)
  BY DEF PipeInv, TypeOK
<1>2. /\ [kind |-> k, text |-> t, row |-> SavesRow(k, t), by |-> e] \in Event
      /\ log' = Append(log, [kind |-> k, text |-> t, row |-> SavesRow(k, t), by |-> e])
  BY <1>1, Emits
<1> QED BY <1>1, <1>2, Appended

(* Each row keeps its one place.                                            *)
LEMMA KeepsHome == LostInv /\ PipeInv' /\ [Next]_vars => HomeInv'
<1> SUFFICES ASSUME LostInv, PipeInv', [Next]_vars, NEW n \in Nat, NEW f \in Emitters
             PROVE  Places(Row(n, f))' = IF n \in DOMAIN log' /\ log'[n].by = f /\ log'[n].row THEN 1 ELSE 0
  BY DEF HomeInv, Row
<1>p. PipeInv /\ Places(Row(n, f)) = IF n \in DOMAIN log /\ log[n].by = f /\ log[n].row THEN 1 ELSE 0
  BY DEF LostInv, HomeInv
<1>r. Row(n, f) \in Ops /\ Row(n, f).what = "row"
  BY RowsDiffer
<1>1. ASSUME NEW e \in Emitters, NEW k \in Kinds, NEW t \in Texts \cup {NoText}, Emit(e, k, t)
      PROVE  Places(Row(n, f))' = IF n \in DOMAIN log' /\ log'[n].by = f /\ log'[n].row THEN 1 ELSE 0
  <2>1. /\ Len(log) \in Nat /\ DOMAIN log = 1 .. Len(log) /\ DOMAIN log' = 1 .. Len(log) + 1
        /\ \A m \in 1 .. Len(log) : log'[m] = log[m]
        /\ log'[Len(log) + 1] = [kind |-> k, text |-> t, row |-> SavesRow(k, t), by |-> e]
    BY <1>p, <1>1, LogGrows
  <2>2. Row(n, f) = Row(Len(log) + 1, e) <=> n = Len(log) + 1 /\ f = e
    BY <2>1, RowsDiffer
  <2>3. Places(Row(n, f))' = Places(Row(n, f))
                             + (IF SavesRow(k, t) /\ n = Len(log) + 1 /\ f = e THEN 1 ELSE 0)
    BY <1>p, <1>r, <1>1, <2>2, EmitPlaces
  <2>4. CASE n = Len(log) + 1
    <3>1. log'[n].by = e /\ (log'[n].row <=> SavesRow(k, t)) /\ n \in DOMAIN log' /\ n \notin DOMAIN log
      BY <2>1, <2>4
    <3> QED BY <1>p, <2>3, <2>4, <3>1
  <2>5. CASE n # Len(log) + 1
    <3>1. (n \in DOMAIN log <=> n \in DOMAIN log') /\ (n \in DOMAIN log => log'[n] = log[n])
      BY <2>1, <2>5
    <3> QED BY <1>p, <2>3, <2>5, <3>1
  <2> QED BY <2>4, <2>5
<1>2. CASE ~(\E e \in Emitters, k \in Kinds, t \in Texts \cup {NoText} : Emit(e, k, t))
  <2>1. log' = log /\ Places(Row(n, f))' = Places(Row(n, f))
    BY <1>p, <1>r, <1>2, RowsStay
  <2> QED BY <1>p, <2>1
<1> QED BY <1>1, <1>2

(* An answer that has its row is known to have it, until a user message.    *)
LEMMA KeepsAnswers == LostInv /\ PipeInv' /\ [Next]_vars => LastSaved' /\ AnswerSaved'
<1> SUFFICES ASSUME LostInv, PipeInv', [Next]_vars PROVE LastSaved' /\ AnswerSaved'
  OBVIOUS
<1>p. PipeInv /\ LastSaved /\ AnswerSaved
  BY DEF LostInv
<1>1. ASSUME NEW e \in Emitters, NEW k \in Kinds, NEW t \in Texts \cup {NoText}, Emit(e, k, t)
      PROVE  LastSaved' /\ AnswerSaved'
  <2>1. /\ Len(log) \in Nat /\ Len(log') = Len(log) + 1
        /\ DOMAIN log = 1 .. Len(log) /\ DOMAIN log' = 1 .. Len(log) + 1
        /\ \A n \in 1 .. Len(log) : log'[n] = log[n]
        /\ log'[Len(log) + 1] = [kind |-> k, text |-> t, row |-> SavesRow(k, t), by |-> e]
    BY <1>p, <1>1, LogGrows
  <2>2. /\ log'[Len(log) + 1].kind = k /\ log'[Len(log) + 1].text = t
        /\ log'[Len(log) + 1].row <=> SavesRow(k, t)
    BY <2>1
  <2>3. lastText' = Track(k, t) /\ (k = "done" => t # NoText)
    BY <1>1 DEF Emit
  <2>4. LastSaved'
    <3>1. CASE k = "user"
      BY <2>3, <3>1 DEF Track, LastSaved
    <3>2. CASE k = "done"
      <4>1. lastText' = t /\ SavesRow(k, t)
        BY <2>3, <3>2 DEF Track, SavesRow
      <4>2. \A i \in Len(log) + 1 .. Len(log') : i = Len(log) + 1
        BY <2>1
      <4>3. Len(log) + 1 \in DOMAIN log'
        BY <2>1
      <4> QED BY <2>2, <3>2, <4>1, <4>2, <4>3 DEF LastSaved
    <3>3. CASE k \notin {"user", "done"} /\ lastText # NoText
      <4>1. lastText' = lastText
        BY <2>3, <3>3 DEF Track
      <4>2. PICK m \in DOMAIN log : /\ log[m].kind = "done" /\ log[m].text = lastText /\ log[m].row
                                    /\ \A i \in m .. Len(log) : log[i].kind # "user"
        BY <1>p, <3>3 DEF LastSaved
      <4>3. m \in DOMAIN log' /\ log'[m] = log[m]
        BY <2>1
      <4>4. \A i \in m .. Len(log') : log'[i].kind # "user"
        BY <2>1, <2>2, <3>3, <4>2
      <4> QED BY <4>1, <4>2, <4>3, <4>4 DEF LastSaved
    <3>4. CASE k \notin {"user", "done"} /\ lastText = NoText
      BY <2>3, <3>4 DEF Track, LastSaved
    <3> QED BY <3>1, <3>2, <3>3, <3>4
  <2>5. AnswerSaved'
    <3> SUFFICES ASSUME NEW n \in DOMAIN log', log'[n].kind = "complete", ~log'[n].row
                 PROVE  \E m \in 1 .. n - 1 :
                          /\ log'[m].kind = "done" /\ log'[m].text = log'[n].text /\ log'[m].row
                          /\ \A i \in m .. n : log'[i].kind # "user"
      BY DEF AnswerSaved
    <3>1. CASE n \in 1 .. Len(log)
      <4>1. PICK m \in 1 .. n - 1 :
              /\ log[m].kind = "done" /\ log[m].text = log[n].text /\ log[m].row
              /\ \A i \in m .. n : log[i].kind # "user"
        BY <1>p, <2>1, <3>1 DEF AnswerSaved
      <4>2. \A i \in m .. n : i \in 1 .. Len(log)
        BY <2>1, <3>1
      <4> QED BY <2>1, <3>1, <4>1, <4>2
    <3>2. CASE n = Len(log) + 1
      <4>1. k = "complete" /\ ~SavesRow(k, t) /\ log'[n].text = t
        BY <2>2, <3>2
      <4>2. t # NoText /\ t = lastText
        BY <4>1 DEF SavesRow
      <4>3. PICK m \in DOMAIN log : /\ log[m].kind = "done" /\ log[m].text = lastText /\ log[m].row
                                    /\ \A i \in m .. Len(log) : log[i].kind # "user"
        BY <1>p, <4>2 DEF LastSaved
      <4>4. m \in 1 .. n - 1 /\ log'[m] = log[m]
        BY <2>1, <3>2
      <4>5. \A i \in m .. n : i = n \/ (i \in m .. Len(log) /\ log'[i] = log[i])
        BY <2>1, <3>2
      <4>6. \A i \in m .. n : log'[i].kind # "user"
        BY <2>2, <3>2, <4>1, <4>3, <4>5
      <4> QED BY <4>1, <4>2, <4>3, <4>4, <4>6
    <3> QED BY <2>1, <3>1, <3>2
  <2> QED BY <2>4, <2>5
<1>2. CASE ~(\E e \in Emitters, k \in Kinds, t \in Texts \cup {NoText} : Emit(e, k, t))
  <2>1. log' = log /\ lastText' = lastText
    BY <1>p, <1>2, RowsStay
  <2> QED BY <1>p, <2>1 DEF LastSaved, AnswerSaved
<1> QED BY <1>1, <1>2

(* The latest report stays pending or has a place.                          *)
LEMMA KeepsTotals == LostInv /\ PipeInv' /\ [Next]_vars => TotalsHome'
<1> SUFFICES ASSUME LostInv, PipeInv', [Next]_vars PROVE TotalsHome'
  OBVIOUS
<1>p. PipeInv /\ TotalsHome /\ totals \in Nat /\ pending \in Nat
  BY DEF LostInv, PipeInv, TypeOK
<1>n. \A o \in Ops : Places(o) \in Nat
  BY <1>p, PlacesNat
<1>r. \A q \in Procs : Totals(totals, q) \in Ops /\ Totals(totals, q).what = "totals"
  BY <1>p, OpKinds DEF Totals
<1> USE DEF persisterVars, writerVars, tokenVars, procVars, historyVars
<1>m. \A o \in Ops : Places(o)' \in Nat
  BY PlacesThen DEF PlacesCount, Carrier, Taken
<1>h. ASSUME totals' = totals, NEW q \in Procs, NEW o \in Ops, o = Totals(totals, q), Places(o)' > 0
      PROVE  TotalsHome'
  <2>1. Places(Totals(totals, q))' > 0
    BY <1>h DEF Places, Carriers, Totals
  <2> QED BY <2>1 DEF TotalsHome
<1>k. ASSUME totals' = totals, pending' = pending \/ pending # totals,
             \A o \in Ops : o.what = "totals" => Places(o)' >= Places(o)
      PROVE  TotalsHome'
  <2>1. CASE totals > 0 /\ pending # totals
    <3>1. PICK q \in Procs : Places(Totals(totals, q)) > 0
      BY <1>p, <2>1 DEF TotalsHome
    <3>2. PICK o \in Ops : o = Totals(totals, q) /\ o.what = "totals"
      BY <1>r
    <3>3. Places(o)' > 0
      BY <1>n, <1>m, <1>k, <3>1, <3>2
    <3> QED BY <1>h, <1>k, <3>2, <3>3
  <2>2. CASE ~(totals > 0) \/ pending = totals
    BY <1>k, <2>2 DEF TotalsHome
  <2> QED BY <2>1, <2>2
<1>1. ASSUME NEW e \in Emitters, NEW k \in Kinds, NEW t \in Texts \cup {NoText}, Emit(e, k, t)
      PROVE  TotalsHome'
  <2>1. totals' = totals /\ pending' = pending
    BY <1>1 DEF Emit
  <2>2. \A o \in Ops : Places(o)' >= Places(o)
    BY <1>p, <1>n, <1>1, EmitPlaces
  <2> QED BY <1>k, <2>1, <2>2
<1>2. ASSUME NEW e \in Emitters, Record(e)
      PROVE  TotalsHome'
  BY <1>2 DEF Record, TotalsHome
<1>3. ASSUME NEW p \in Procs, FlushTotals(p)
      PROVE  TotalsHome'
  <2>1. totals' = totals /\ pending' = 0
    BY <1>3 DEF FlushTotals
  <2>2. \A o \in Ops : Places(o)' = Places(o) + (IF pending # 0 /\ o = Totals(pending, p) THEN 1 ELSE 0)
    BY <1>p, <1>3, TotalsPlaces
  <2>3. CASE pending = totals /\ totals > 0
    <3>1. PICK o \in Ops : o = Totals(totals, p)
      BY <1>r
    <3>2. Places(o)' > 0
      BY <1>p, <1>n, <2>2, <2>3, <3>1
    <3> QED BY <1>h, <2>1, <3>1, <3>2
  <2>4. CASE pending # totals
    <3>1. \A o \in Ops : Places(o)' >= Places(o)
      BY <1>n, <2>2
    <3> QED BY <1>k, <2>1, <2>4, <3>1
  <2>5. CASE ~(totals > 0)
    BY <2>1, <2>5 DEF TotalsHome
  <2> QED BY <2>3, <2>4, <2>5
<1>4. CASE (\E p \in Procs : Submit(p) \/ RunInline(p)) \/ WriterTake \/ WriterRun
  <2>1. totals' = totals /\ pending' = pending
    BY <1>4 DEF Submit, RunInline, WriterTake, WriterRun
  <2>2. \A o \in Ops : Places(o)' = Places(o)
    BY <1>p, <1>4, MovedOn
  <2>3. \A o \in Ops : Places(o)' >= Places(o)
    BY <1>n, <2>2
  <2> QED BY <1>k, <2>1, <2>3
<1>5. CASE (\E p \in Procs : Plain(p) \/ FlushCall(p)) \/ WriterExit \/ Elsewhere \/ UNCHANGED vars
  <2>1. totals' = totals /\ pending' = pending
    BY <1>5 DEF Plain, SubmitWrite, FlushReturn, FlushCall, WriterExit, Elsewhere, Tick, TickerExit, Quit, QuitStep,
       QuitJoin, QuitWriter, QuitClose, QuitEnd, vars
  <2>2. \A o \in Ops : o.what # "flush" => Places(o)' = Places(o)
    BY <1>p, <1>5, OthersLeave
  <2>3. \A o \in Ops : o.what = "totals" => Places(o)' >= Places(o)
    BY <1>n, <2>2
  <2> QED BY <1>k, <2>1, <2>3
<1> QED BY <1>1, <1>2, <1>3, <1>4, <1>5 DEF Next, Start, Step, WriterStep, Plain, Elsewhere

(* Every step keeps all of it.                                              *)
LEMMA LostStep == LostInv /\ [Next]_vars => LostInv'
<1> SUFFICES ASSUME LostInv, [Next]_vars PROVE LostInv'
  OBVIOUS
<1>1. PipeInv'
  BY PipeStep DEF LostInv
<1> QED BY <1>1, KeepsHome, KeepsAnswers, KeepsTotals DEF LostInv

(* With one place for each row nothing is lost.                             *)
LEMMA LostImplies == LostInv => NothingLost
<1> SUFFICES ASSUME LostInv PROVE EventHome
  BY DEF LostInv, NothingLost
<1> SUFFICES ASSUME NEW n \in DOMAIN log
             PROVE  Places(Row(n, log[n].by)) = IF log[n].row THEN 1 ELSE 0
  BY DEF EventHome
<1>t. log \in Seq(Event)
  BY DEF LostInv, PipeInv, TypeOK
<1>1. n \in 1 .. Len(log) /\ Len(log) \in Nat /\ log[n] \in Event
  BY <1>t, LenProperties, ElementOfSeq
<1>2. n \in Nat /\ log[n].by \in Emitters
  BY <1>1 DEF Event
<1> QED BY <1>2 DEF LostInv, HomeInv

(* No event and no token report is lost or stored twice on its way from the *)
(* emitter that persists it (EventPersister.Persist, tokenPersister.record) *)
(* to the store, also when the writer closes under an emitter; and an       *)
(* answer that task_complete leaves out has its row already.                *)
THEOREM NothingLostHolds == Spec => []NothingLost
<1> QED BY LostInitial, LostStep, LostImplies, PTL DEF Spec

-----------------------------------------------------------------------------
(* A terminal event is durable                                              *)

(* A flush's op is queued or busy once, while its caller waits and is not   *)
(* let go yet.                                                              *)
Waits ==
  \A p \in Procs :
    /\ p \in released => pc[p] = "await"
    /\ busy = FlushOp(p) => pc[p] = "await" /\ p \notin released
    /\ \A i \in DOMAIN queue : queue[i] = FlushOp(p) =>
         /\ pc[p] = "await" /\ p \notin released /\ busy # FlushOp(p)
         /\ \A j \in DOMAIN queue : queue[j] = FlushOp(p) => i = j

RowOf(op, p) == op.what = "row" /\ op.by = p

(* A caller's rows are queued before its flush.                             *)
RowsFirst ==
  \A p \in Procs :
    /\ \A i, j \in DOMAIN queue : queue[i] = FlushOp(p) /\ RowOf(queue[j], p) => j < i
    /\ busy = FlushOp(p) => \A j \in DOMAIN queue : ~RowOf(queue[j], p)
    /\ writer /\ p \in released =>
         /\ busy # NoOp => ~RowOf(busy, p)
         /\ \A j \in DOMAIN queue : ~RowOf(queue[j], p)

DurableInv == LostInv /\ Waits /\ RowsFirst

(* Nobody waits before the first event.                                     *)
LEMMA DurableInitial == Init => DurableInv
<1> SUFFICES ASSUME Init PROVE Waits /\ RowsFirst
  BY LostInitial DEF DurableInv
<1>1. DOMAIN queue = {} /\ released = {} /\ \A p \in Procs : busy # FlushOp(p)
  BY EmptySeq, OpKinds DEF Init
<1> QED BY <1>1 DEF Waits, RowsFirst

(* Flushes are told apart by their callers, and are no rows.                *)
LEMMA FlushesDiffer ==
  ASSUME NEW p \in Procs
  PROVE  /\ FlushOp(p) \in Ops /\ FlushOp(p) # NoOp /\ ~RowOf(FlushOp(p), p)
         /\ \A q \in Procs : FlushOp(p) = FlushOp(q) <=> p = q
         /\ \A op \in Ops : op.what = "flush" => op = FlushOp(op.by)
<1>1. FlushOp(p).by = p /\ FlushOp(p).what = "flush"
  BY DEF FlushOp
<1>2. \A q \in Procs : FlushOp(q).by = q
  BY DEF FlushOp
<1>3. FlushOp(p) \in Ops /\ FlushOp(p) # NoOp
  BY OpKinds
<1>4. \A op \in Ops : op.what = "flush" => op = FlushOp(op.by)
  BY DEF Ops, FlushOp
<1> QED BY <1>1, <1>2, <1>3, <1>4 DEF RowOf

(* The steps that queue nothing, take nothing and run nothing.              *)
LEMMA Stays ==
  ASSUME PipeInv, [Next]_vars,
         ~(\E p \in Procs : Submit(p) \/ RunInline(p) \/ FlushReturn(p)), ~WriterTake, ~WriterRun
  PROVE  /\ UNCHANGED <<queue, busy, released>> /\ (writer' => writer)
         /\ \A p \in Procs : pc[p] = "await" => pc'[p] = "await"
<1>t. TypeOK
  BY DEF PipeInv
<1>l. {"idle", "submit", "enqueue", "inline", "flushTotals", "flush", "closeWriter", "await"} \subseteq Labels
  BY DEF Labels
<1> USE DEF persisterVars, writerVars, tokenVars, procVars, historyVars
<1>1. UNCHANGED <<queue, busy, released>> /\ (writer' => writer)
  <2>1. ASSUME NEW e \in Emitters, NEW k \in Kinds, NEW t \in Texts \cup {NoText}, Emit(e, k, t)
        PROVE  UNCHANGED <<queue, busy, released, writer>>
    BY <2>1 DEF Emit
  <2>2. ASSUME NEW p \in Procs, Record(p) \/ SubmitWrite(p) \/ FlushTotals(p) \/ FlushCall(p)
        PROVE  UNCHANGED <<queue, busy, released, writer>>
    BY <2>2 DEF Record, SubmitWrite, FlushTotals, FlushCall
  <2>3. CASE WriterExit \/ Tick \/ TickerExit \/ Quit \/ QuitJoin \/ QuitClose \/ QuitEnd \/ UNCHANGED vars
    BY <2>3 DEF WriterExit, Tick, TickerExit, Quit, QuitJoin, QuitClose, QuitEnd, vars
  <2>4. CASE QuitWriter
    BY <2>4 DEF QuitWriter
  <2>5. Emitters \subseteq Procs
    BY DEF Procs
  <2> QED BY <2>1, <2>2, <2>3, <2>4, <2>5 DEF Next, Start, Step, WriterStep, QuitStep
<1>2. ASSUME NEW e \in Emitters, NEW k \in Kinds, NEW t \in Texts \cup {NoText}, Emit(e, k, t)
      PROVE  \A p \in Procs : pc[p] = "await" => pc'[p] = "await"
  <2>1. PICK next \in {"flushTotals", "idle"} :
          IF SavesRow(k, t) THEN Carry(e, "submit", Row(Len(log) + 1, e), next)
                            ELSE Goto(e, next) /\ loc' = loc
    BY <1>t, <1>2, Emits
  <2>2. e \in Procs /\ Row(Len(log) + 1, e) \in Ops /\ pc[e] = "idle"
    BY <1>t, <1>2, Emits DEF Emit
  <2> QED BY <1>t, <1>l, <2>1, <2>2, Goes, Takes
<1>3. ASSUME NEW q \in Procs, SubmitWrite(q)
      PROVE  \A p \in Procs : pc[p] = "await" => pc'[p] = "await"
  BY <1>t, <1>l, <1>3, Goes DEF SubmitWrite
<1>4. ASSUME NEW q \in Procs, FlushTotals(q)
      PROVE  \A p \in Procs : pc[p] = "await" => pc'[p] = "await"
  <2>1. pc[q] = "flushTotals"
    BY <1>4 DEF FlushTotals
  <2> QED BY <1>t, <1>l, <1>4, <2>1, FlushesTotals, Goes, Takes
<1>5. ASSUME NEW q \in Procs, FlushCall(q)
      PROVE  \A p \in Procs : pc[p] = "await" => pc'[p] = "await"
  <2>1. pc[q] = "flush"
    BY <1>5 DEF FlushCall
  <2> QED BY <1>t, <1>l, <1>5, <2>1, Flushes, Goes, Takes
<1>6. CASE Elsewhere
  BY <1>t, <1>6 DEF Elsewhere, Tick, TickerExit, Quit, QuitStep, QuitJoin, QuitWriter, QuitClose, QuitEnd, Goto, TypeOK
<1>7. CASE (\E e \in Emitters : Record(e)) \/ WriterExit \/ UNCHANGED vars
  BY <1>7 DEF Record, WriterExit, vars
<1> QED BY <1>1, <1>2, <1>3, <1>4, <1>5, <1>6, <1>7 DEF Next, Start, Step, WriterStep, Elsewhere

(* What is queued last, by a proc that waits for nothing yet.               *)
LEMMA QueuedLast ==
  ASSUME DurableInv, NEW q \in Procs, Submit(q), ~closed
  PROVE  Waits' /\ RowsFirst'
<1> DEFINE op == loc[q].op
<1>1. /\ op \in Ops /\ op.by = q /\ pc[q] = "enqueue" /\ (op.what = "flush" => loc[q].next = "await")
      /\ queue \in Seq(Ops) /\ queue' = Append(queue, op) /\ Advance(q)
      /\ UNCHANGED <<busy, released, writer>>
  BY Submits DEF Submit, DurableInv, LostInv, PipeInv, CarriesOwn, Carrying, TypeOK, persisterVars
<1>2. /\ DOMAIN queue = 1 .. Len(queue) /\ DOMAIN queue' = 1 .. Len(queue) + 1 /\ Len(queue) \in Nat
      /\ \A i \in 1 .. Len(queue) : queue'[i] = queue[i]
      /\ queue'[Len(queue) + 1] = op
  BY <1>1, Appended
<1>3. pc'[q] = loc[q].next /\ \A p \in Procs : p # q => pc'[p] = pc[p]
  BY <1>1, LetsGo DEF DurableInv, LostInv, PipeInv
<1>4. /\ q \notin released /\ busy # FlushOp(q)
      /\ \A i \in DOMAIN queue : queue[i] # FlushOp(q)
  BY <1>1 DEF DurableInv, Waits
<1>5. \A p \in Procs : op = FlushOp(p) => p = q /\ pc'[q] = "await"
  <2>1. \A p \in Procs : FlushOp(p).by = p /\ FlushOp(p).what = "flush"
    BY DEF FlushOp
  <2> QED BY <1>1, <1>3, <2>1
<1>6. \A p \in Procs : RowOf(op, p) => p = q
  BY <1>1 DEF RowOf
<1> HIDE DEF op
<1>7. Waits'
  <2> SUFFICES ASSUME NEW p \in Procs
               PROVE  /\ p \in released' => pc'[p] = "await"
                      /\ busy' = FlushOp(p) => pc'[p] = "await" /\ p \notin released'
                      /\ \A i \in DOMAIN queue' : queue'[i] = FlushOp(p) =>
                           /\ pc'[p] = "await" /\ p \notin released' /\ busy' # FlushOp(p)
                           /\ \A j \in DOMAIN queue' : queue'[j] = FlushOp(p) => i = j
    BY DEF Waits, FlushOp
  <2>1. CASE p # q
    <3>1. pc'[p] = pc[p] /\ op # FlushOp(p)
      BY <1>3, <1>5, <2>1
    <3> QED BY <1>1, <1>2, <3>1 DEF DurableInv, Waits
  <2>2. CASE p = q
    <3>1. \A i \in DOMAIN queue' : queue'[i] = FlushOp(p) => i = Len(queue) + 1 /\ op = FlushOp(p)
      BY <1>2, <1>4, <2>2
    <3> QED BY <1>1, <1>4, <1>5, <2>2, <3>1
  <2> QED BY <2>1, <2>2
<1>8. RowsFirst'
  <2> SUFFICES ASSUME NEW p \in Procs
               PROVE  /\ \A i, j \in DOMAIN queue' : queue'[i] = FlushOp(p) /\ RowOf(queue'[j], p) => j < i
                      /\ busy' = FlushOp(p) => \A j \in DOMAIN queue' : ~RowOf(queue'[j], p)
                      /\ writer' /\ p \in released' =>
                           /\ busy' # NoOp => ~RowOf(busy', p)
                           /\ \A j \in DOMAIN queue' : ~RowOf(queue'[j], p)
    BY DEF RowsFirst, FlushOp, RowOf
  <2>1. CASE p # q
    <3>1. ~RowOf(op, p) /\ op # FlushOp(p)
      BY <1>5, <1>6, <2>1
    <3> QED BY <1>1, <1>2, <3>1 DEF DurableInv, RowsFirst
  <2>2. CASE p = q
    <3>1. ASSUME NEW i \in DOMAIN queue', NEW j \in DOMAIN queue', queue'[i] = FlushOp(p), RowOf(queue'[j], p)
          PROVE  j < i
      <4>1. i = Len(queue) + 1 /\ op = FlushOp(p)
        BY <1>2, <1>4, <2>2, <3>1
      <4>2. j # Len(queue) + 1
        BY <1>2, <3>1, <4>1, FlushesDiffer
      <4> QED BY <1>2, <4>1, <4>2
    <3> QED BY <1>1, <1>4, <2>2, <3>1
  <2> QED BY <2>1, <2>2
<1> QED BY <1>7, <1>8

(* The oldest op is taken.                                                  *)
LEMMA TakenFirst ==
  ASSUME DurableInv, WriterTake
  PROVE  Waits' /\ RowsFirst'
<1>1. /\ queue \in Seq(Ops) /\ queue # <<>> /\ busy = NoOp /\ busy' = Head(queue) /\ queue' = Tail(queue)
      /\ UNCHANGED <<pc, released, writer>>
  BY DEF WriterTake, DurableInv, LostInv, PipeInv, TypeOK, persisterVars, procVars
<1>2. /\ Head(queue) = queue[1] /\ Len(queue) \in Nat \ {0} /\ Head(queue) \in Ops
      /\ DOMAIN queue = 1 .. Len(queue) /\ DOMAIN queue' = 1 .. Len(queue) - 1
      /\ \A i \in 1 .. Len(queue) - 1 : queue'[i] = queue[i + 1]
  BY <1>1, Shortened
<1>3. /\ 1 \in DOMAIN queue
      /\ \A i \in DOMAIN queue' : i + 1 \in DOMAIN queue /\ i + 1 # 1 /\ queue'[i] = queue[i + 1] /\ i \in Nat \ {0}
  BY <1>2
<1>4. ASSUME NEW p \in Procs
      PROVE  /\ p \in released' => pc'[p] = "await"
             /\ busy' = FlushOp(p) => pc'[p] = "await" /\ p \notin released'
             /\ \A i \in DOMAIN queue' : queue'[i] = FlushOp(p) =>
                  /\ pc'[p] = "await" /\ p \notin released' /\ busy' # FlushOp(p)
                  /\ \A j \in DOMAIN queue' : queue'[j] = FlushOp(p) => i = j
  <2>1. /\ p \in released => pc[p] = "await"
        /\ \A i \in DOMAIN queue : queue[i] = FlushOp(p) =>
             /\ pc[p] = "await" /\ p \notin released
             /\ \A j \in DOMAIN queue : queue[j] = FlushOp(p) => i = j
    BY DEF DurableInv, Waits
  <2>2. busy' = queue[1]
    BY <1>1, <1>2
  <2>3. \A i \in DOMAIN queue' : queue'[i] = FlushOp(p) => queue[1] # FlushOp(p) /\ pc[p] = "await" /\ p \notin released
    BY <1>3, <2>1
  <2>4. \A i, j \in DOMAIN queue' : queue'[i] = FlushOp(p) /\ queue'[j] = FlushOp(p) => i = j
    <3>1. \A i, j \in DOMAIN queue' : queue'[i] = FlushOp(p) /\ queue'[j] = FlushOp(p) => i + 1 = j + 1
      BY <1>3, <2>1
    <3> QED BY <1>3, <3>1
  <2> QED BY <1>1, <1>3, <2>1, <2>2, <2>3, <2>4
<1>5. ASSUME NEW p \in Procs
      PROVE  /\ \A i, j \in DOMAIN queue' : queue'[i] = FlushOp(p) /\ RowOf(queue'[j], p) => j < i
             /\ busy' = FlushOp(p) => \A j \in DOMAIN queue' : ~RowOf(queue'[j], p)
             /\ writer' /\ p \in released' =>
                  /\ busy' # NoOp => ~RowOf(busy', p)
                  /\ \A j \in DOMAIN queue' : ~RowOf(queue'[j], p)
  <2>1. /\ \A i, j \in DOMAIN queue : queue[i] = FlushOp(p) /\ RowOf(queue[j], p) => j < i
        /\ writer /\ p \in released => \A j \in DOMAIN queue : ~RowOf(queue[j], p)
    BY DEF DurableInv, RowsFirst
  <2>2. busy' = queue[1]
    BY <1>1, <1>2
  <2>3. \A i, j \in DOMAIN queue' : queue'[i] = FlushOp(p) /\ RowOf(queue'[j], p) => j < i
    <3>1. \A i, j \in DOMAIN queue' : queue'[i] = FlushOp(p) /\ RowOf(queue'[j], p) => j + 1 < i + 1
      BY <1>3, <2>1
    <3> QED BY <1>3, <3>1
  <2>4. busy' = FlushOp(p) => \A j \in DOMAIN queue' : ~RowOf(queue'[j], p)
    <3>1. queue[1] = FlushOp(p) => \A j \in DOMAIN queue' : RowOf(queue'[j], p) => j + 1 < 1
      BY <1>3, <2>1
    <3> QED BY <1>3, <2>2, <3>1
  <2>5. writer' /\ p \in released' => ~RowOf(busy', p) /\ \A j \in DOMAIN queue' : ~RowOf(queue'[j], p)
    BY <1>1, <1>3, <2>1, <2>2
  <2> QED BY <2>3, <2>4, <2>5
<1>6. Waits'
  BY <1>4 DEF Waits, FlushOp
<1>7. RowsFirst'
  BY <1>5 DEF RowsFirst, FlushOp, RowOf
<1> QED BY <1>6, <1>7

(* The op that was taken runs: a flush has none of its caller's rows left.  *)
LEMMA TakenRuns ==
  ASSUME DurableInv, WriterRun
  PROVE  Waits' /\ RowsFirst'
<1>1. /\ busy \in Ops /\ Execute(busy) /\ busy' = NoOp /\ UNCHANGED <<queue, pc, writer>>
  BY DEF WriterRun, DurableInv, LostInv, PipeInv, TypeOK, persisterVars
<1>2. released' = released \cup (IF busy.what = "flush" THEN {busy.by} ELSE {})
  BY <1>1, Runs DEF DurableInv, LostInv, PipeInv
<1>3. \A p \in Procs : p \in released' => p \in released \/ busy = FlushOp(p)
  BY <1>1, <1>2, FlushesDiffer
<1>4. \A p \in Procs : FlushOp(p) # NoOp
  BY FlushesDiffer
<1>5. Waits'
  <2> SUFFICES ASSUME NEW p \in Procs
               PROVE  /\ p \in released' => pc'[p] = "await"
                      /\ busy' = FlushOp(p) => pc'[p] = "await" /\ p \notin released'
                      /\ \A i \in DOMAIN queue' : queue'[i] = FlushOp(p) =>
                           /\ pc'[p] = "await" /\ p \notin released' /\ busy' # FlushOp(p)
                           /\ \A j \in DOMAIN queue' : queue'[j] = FlushOp(p) => i = j
    BY DEF Waits, FlushOp
  <2> QED BY <1>1, <1>3, <1>4 DEF DurableInv, Waits
<1>6. RowsFirst'
  <2> SUFFICES ASSUME NEW p \in Procs
               PROVE  /\ \A i, j \in DOMAIN queue' : queue'[i] = FlushOp(p) /\ RowOf(queue'[j], p) => j < i
                      /\ busy' = FlushOp(p) => \A j \in DOMAIN queue' : ~RowOf(queue'[j], p)
                      /\ writer' /\ p \in released' =>
                           /\ busy' # NoOp => ~RowOf(busy', p)
                           /\ \A j \in DOMAIN queue' : ~RowOf(queue'[j], p)
    BY DEF RowsFirst, FlushOp, RowOf
  <2> QED BY <1>1, <1>3, <1>4 DEF DurableInv, RowsFirst
<1> QED BY <1>5, <1>6

(* A flush that runs on its caller meets a closed writer.                   *)
LEMMA InlineRuns ==
  ASSUME DurableInv, NEW q \in Procs, RunInline(q)
  PROVE  Waits' /\ RowsFirst'
<1> DEFINE op == loc[q].op
<1>1. /\ op \in Ops /\ op.by = q /\ pc[q] = "inline" /\ (op.what = "flush" => loc[q].next = "await")
      /\ Execute(op) /\ Advance(q) /\ UNCHANGED <<busy, queue, writer>> /\ ~writer
  BY DEF RunInline, DurableInv, LostInv, PipeInv, CarriesOwn, Closing, Carrying, persisterVars, writerVars
<1>2. released' = released \cup (IF op.what = "flush" THEN {q} ELSE {})
  BY <1>1, Runs DEF DurableInv, LostInv, PipeInv
<1>3. pc'[q] = loc[q].next /\ \A p \in Procs : p # q => pc'[p] = pc[p]
  BY <1>1, LetsGo DEF DurableInv, LostInv, PipeInv
<1>4. /\ q \notin released /\ busy # FlushOp(q)
      /\ \A i \in DOMAIN queue : queue[i] # FlushOp(q)
  BY <1>1 DEF DurableInv, Waits
<1> HIDE DEF op
<1>5. Waits'
  <2> SUFFICES ASSUME NEW p \in Procs
               PROVE  /\ p \in released' => pc'[p] = "await"
                      /\ busy' = FlushOp(p) => pc'[p] = "await" /\ p \notin released'
                      /\ \A i \in DOMAIN queue' : queue'[i] = FlushOp(p) =>
                           /\ pc'[p] = "await" /\ p \notin released' /\ busy' # FlushOp(p)
                           /\ \A j \in DOMAIN queue' : queue'[j] = FlushOp(p) => i = j
    BY DEF Waits, FlushOp
  <2>1. CASE p # q
    BY <1>1, <1>2, <1>3, <2>1 DEF DurableInv, Waits
  <2>2. CASE p = q
    BY <1>1, <1>2, <1>3, <1>4, <2>2
  <2> QED BY <2>1, <2>2
<1>6. RowsFirst'
  <2> SUFFICES ASSUME NEW p \in Procs
               PROVE  /\ \A i, j \in DOMAIN queue' : queue'[i] = FlushOp(p) /\ RowOf(queue'[j], p) => j < i
                      /\ busy' = FlushOp(p) => \A j \in DOMAIN queue' : ~RowOf(queue'[j], p)
                      /\ writer' /\ p \in released' =>
                           /\ busy' # NoOp => ~RowOf(busy', p)
                           /\ \A j \in DOMAIN queue' : ~RowOf(queue'[j], p)
    BY DEF RowsFirst, FlushOp, RowOf
  <2> QED BY <1>1 DEF DurableInv, RowsFirst
<1> QED BY <1>5, <1>6

(* A caller that returns was let go.                                        *)
LEMMA Returns ==
  ASSUME DurableInv, NEW q \in Procs, FlushReturn(q)
  PROVE  Waits' /\ RowsFirst'
<1>1. /\ pc[q] = "await" /\ q \in released /\ released' = released \ {q} /\ UNCHANGED <<busy, queue, writer>>
      /\ \A p \in Procs : p # q => pc'[p] = pc[p]
  <2>1. TypeOK /\ "idle" \in Labels
    BY DEF DurableInv, LostInv, PipeInv, Labels
  <2> QED BY <2>1, Goes DEF FlushReturn, persisterVars, writerVars
<1>2. /\ busy # FlushOp(q) /\ \A i \in DOMAIN queue : queue[i] # FlushOp(q)
  BY <1>1 DEF DurableInv, Waits
<1>3. Waits'
  <2> SUFFICES ASSUME NEW p \in Procs
               PROVE  /\ p \in released' => pc'[p] = "await"
                      /\ busy' = FlushOp(p) => pc'[p] = "await" /\ p \notin released'
                      /\ \A i \in DOMAIN queue' : queue'[i] = FlushOp(p) =>
                           /\ pc'[p] = "await" /\ p \notin released' /\ busy' # FlushOp(p)
                           /\ \A j \in DOMAIN queue' : queue'[j] = FlushOp(p) => i = j
    BY DEF Waits, FlushOp
  <2>1. CASE p # q
    BY <1>1, <2>1 DEF DurableInv, Waits
  <2>2. CASE p = q
    BY <1>1, <1>2, <2>2
  <2> QED BY <2>1, <2>2
<1>4. RowsFirst'
  BY <1>1 DEF DurableInv, RowsFirst, FlushOp, RowOf
<1> QED BY <1>3, <1>4

(* Every step keeps the order of a caller's rows and its flush.             *)
LEMMA DurableStep == DurableInv /\ [Next]_vars => DurableInv'
<1> SUFFICES ASSUME DurableInv, [Next]_vars PROVE Waits' /\ RowsFirst'
  BY LostStep DEF DurableInv
<1>1. CASE \E p \in Procs : Submit(p) /\ ~closed
  BY <1>1, QueuedLast
<1>2. CASE \E p \in Procs : Submit(p) /\ closed
  <2>1. PICK q \in Procs : Submit(q) /\ closed
    BY <1>2
  <2>2. TypeOK /\ "inline" \in Labels /\ pc[q] = "enqueue" /\ Goto(q, "inline") /\ UNCHANGED <<queue, busy, released, writer>>
    BY <2>1 DEF DurableInv, LostInv, PipeInv, Labels, Submit, persisterVars
  <2>3. \A p \in Procs : pc[p] = "await" => pc'[p] = "await"
    BY <2>2, Goes
  <2> QED BY <2>2, <2>3 DEF DurableInv, Waits, RowsFirst, FlushOp, RowOf
<1>3. CASE \E p \in Procs : RunInline(p)
  BY <1>3, InlineRuns
<1>4. CASE \E p \in Procs : FlushReturn(p)
  BY <1>4, Returns
<1>5. CASE WriterTake
  BY <1>5, TakenFirst
<1>6. CASE WriterRun
  BY <1>6, TakenRuns
<1>7. CASE /\ ~(\E p \in Procs : Submit(p) \/ RunInline(p) \/ FlushReturn(p))
           /\ ~WriterTake /\ ~WriterRun
  <2>1. /\ UNCHANGED <<queue, busy, released>> /\ (writer' => writer)
        /\ \A p \in Procs : pc[p] = "await" => pc'[p] = "await"
    BY <1>7, Stays DEF DurableInv, LostInv
  <2> QED BY <2>1 DEF DurableInv, Waits, RowsFirst, FlushOp, RowOf
<1> QED BY <1>1, <1>2, <1>3, <1>4, <1>5, <1>6, <1>7

(* A row that is neither carried nor queued nor busy has been written.      *)
LEMMA DurableImplies == DurableInv => FlushDurable
<1> SUFFICES ASSUME DurableInv, NEW p \in Emitters, writer, pc[p] = "await", p \in released,
                    NEW n \in DOMAIN log, log[n].by = p, log[n].row
             PROVE  \E i \in DOMAIN applied : applied[i] = Row(n, p)
  BY DEF FlushDurable
<1>1. p \in Procs /\ PipeInv /\ HomeInv /\ EventHome
  BY LostImplies DEF DurableInv, LostInv, Procs, NothingLost
<1>2. n \in Nat
  BY <1>1, LenProperties DEF PipeInv, TypeOK
<1> DEFINE o == Row(n, p)
<1>3. o \in Ops /\ RowOf(o, p) /\ o.by = p /\ o # NoOp
  BY <1>2, RowsDiffer, OpKinds DEF RowOf
<1>4. Places(o) = 1
  BY <1>1, <1>2 DEF HomeInv
<1>5. Carrier(o) = 0
  BY <1>3 DEF Carrier, Carrying
<1>6. Taken(o) = 0
  BY <1>1, <1>3 DEF Taken, DurableInv, RowsFirst
<1>7. Queued(o) = 0
  <2>1. \A j \in DOMAIN queue : queue[j] # o
    BY <1>1, <1>3 DEF DurableInv, RowsFirst
  <2>2. Slots(queue, o) = {}
    BY <2>1 DEF Slots
  <2> QED BY <2>2, FS_EmptySet DEF Queued
<1>8. Applied(o) = 1
  BY <1>1, <1>3, <1>4, <1>5, <1>6, <1>7, PlacesNow DEF PlacesCount
<1>9. Slots(applied, o) # {}
  BY <1>8, FS_EmptySet DEF Applied
<1> QED BY <1>9 DEF Slots

(* A terminal event is a durability checkpoint: when its Flush lets the     *)
(* emitter go on, every event the emitter persisted has been written, as    *)
(* long as Close has not taken the writer away.                             *)
THEOREM FlushDurableHolds == Spec => []FlushDurable
<1> QED BY DurableInitial, DurableStep, DurableImplies, PTL DEF Spec
=============================================================================
