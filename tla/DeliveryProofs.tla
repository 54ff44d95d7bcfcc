---------------------------- MODULE DeliveryProofs ----------------------------
(***************************************************************************)
(* Proofs about what is sent on its way: the writes of a task through its   *)
(* bounded channel, for any writers, capacity and number of facts, and the  *)
(* events through the batcher, for any producers, keys and limits.          *)
(***************************************************************************)
EXTENDS TaskWriter, EventBatcher, SequenceTheorems, FiniteSetTheorems, TLAPS

(* What is appended is last, the others stay where they are.                *)
LEMMA AppendedLast ==
  ASSUME NEW S, NEW q \in Seq(S), NEW x \in S
  PROVE  /\ Append(q, x) \in Seq(S) /\ Len(Append(q, x)) = Len(q) + 1
         /\ DOMAIN Append(q, x) = 1 .. Len(q) + 1 /\ DOMAIN q = 1 .. Len(q) /\ Len(q) \in Nat
         /\ \A i \in 1 .. Len(q) : Append(q, x)[i] = q[i]
         /\ Append(q, x)[Len(q) + 1] = x
  BY AppendProperties, LenProperties

(* Without its head a sequence moves up by one.                             *)
LEMMA HeadTaken ==
  ASSUME NEW S, NEW q \in Seq(S), q # <<>>
  PROVE  /\ Head(q) \in S /\ Head(q) = q[1] /\ Tail(q) \in Seq(S)
         /\ Len(q) \in Nat \ {0} /\ Len(Tail(q)) = Len(q) - 1
         /\ DOMAIN q = 1 .. Len(q) /\ DOMAIN Tail(q) = 1 .. Len(q) - 1
         /\ \A i \in 1 .. Len(q) - 1 : Tail(q)[i] = q[i + 1]
  BY HeadTailProperties, LenProperties, EmptySeq

-----------------------------------------------------------------------------
(* The writes of a task                                                     *)

Calling == {"snapshot", "send", "wait"}
Spots == {"snapshot", "send", "wait", "idle", "stopping", "ended", "gaveUp"}
OpRecord == [n : Nat, what : {"none", "facts", "reactivate"}, fact : Nat, list : SUBSET Nat]

TaskTypes ==
  /\ facts \subseteq Nat /\ IsFiniteSet(facts)
  /\ job \in [Writers -> OpRecord] /\ channel \in Seq(OpRecord) /\ taken \in OpRecord
  /\ open \in BOOLEAN /\ exited \in BOOLEAN
  /\ status \in Terminal \cup {"in_progress", "paused"}
  /\ doing \in [Writers \cup {"shutdown"} -> Spots]
  /\ answers \subseteq [n : Nat, ok : BOOLEAN]
  /\ ops \in Nat /\ ran \in Seq(Nat)
  /\ storers \subseteq Writers /\ IsFiniteSet(storers) /\ gaveUp \in BOOLEAN

(* The ops that were sent and have not run.                                 *)
Flight == {channel[i] : i \in DOMAIN channel} \cup ({taken} \ {NoJob})

(* A writer has an op while it is in a call, numbered when it was sent; only *)
(* the runner reactivates.                                                  *)
JobOk(w) ==
  /\ doing[w] \in Calling <=> job[w].what # "none"
  /\ doing[w] = "wait" <=> job[w].n # 0
  /\ job[w].n <= ops
  /\ doing[w] = "snapshot" => job[w].what = "facts"
  /\ job[w].what = "reactivate" => w = Runner
  /\ job[w].what = "facts" =>
       /\ w \in storers /\ job[w].fact \in facts /\ job[w].list \subseteq facts
       /\ doing[w] # "snapshot" => job[w].fact \in job[w].list

JobsKnown ==
  \A w \in Writers :
    /\ JobOk(w)
    /\ \A v \in Writers : job[v].n = job[w].n /\ v # w => job[w].n = 0

(* The ops run in the order in which they were sent, none is left out.      *)
Lined ==
  /\ \A i \in DOMAIN ran : ran[i] = i
  /\ taken # NoJob => taken.n = Len(ran) + 1
  /\ LET done == Len(ran) + (IF taken = NoJob THEN 0 ELSE 1)
     IN  ops = done + Len(channel) /\ \A i \in DOMAIN channel : channel[i].n = done + i

(* An op on its way is its caller's, if the caller still waits, and the     *)
(* runner waits for its reactivation unless a wait has timed out.           *)
FlightKnown ==
  /\ \A o \in Flight :
       /\ o.n \in Len(ran) + 1 .. ops /\ o.what \in {"facts", "reactivate"}
       /\ \A w \in Writers : job[w].n = o.n => job[w] = o
       /\ o.what = "facts" => o.list \subseteq facts
       /\ o.what = "reactivate" /\ ~gaveUp => doing[Runner] = "wait" /\ job[Runner].n = o.n
  /\ \A a \in answers : a.n \in 1 .. Len(ran)

(* After a finalizer the runner makes no other call.                        *)
Finalized ==
  final # "none" =>
    /\ doing[Runner] \in {"stopping", "ended"}
    /\ ~gaveUp => status = final

(* The worker returns from a closed and empty channel.                      *)
Returned == exited => ~open /\ channel = <<>> /\ taken = NoJob

(* While one goroutine stores facts, each list that is written has what the *)
(* lists before it had.                                                     *)
ListsGrow ==
  Cardinality(storers) <= 1 =>
    /\ announced \subseteq storedFacts /\ storedFacts \subseteq facts
    /\ \A o \in Flight : o.what = "facts" =>
         /\ storedFacts \subseteq o.list
         /\ \A p \in Flight : p.what = "facts" /\ o.n < p.n => o.list \subseteq p.list
         /\ \A w \in Writers : doing[w] = "send" /\ job[w].what = "facts" => o.list \subseteq job[w].list
    /\ \A w \in Writers : job[w].what = "facts" =>
         /\ doing[w] = "send" => storedFacts \subseteq job[w].list
         /\ \A a \in answers : a.n = job[w].n /\ a.ok => job[w].fact \in storedFacts

TaskIInv ==
  TaskTypes /\ JobsKnown /\ Lined /\ FlightKnown /\ Finalized /\ Returned /\ ListsGrow

-----------------------------------------------------------------------------
(* The ops of a call                                                        *)

(* No op is no op's record.                                                 *)
LEMMA NoOpRecord ==
  /\ NoJob \in OpRecord /\ NoJob.n = 0 /\ NoJob.what = "none"
  /\ \A o \in OpRecord : o.n # 0 => o # NoJob
  BY DEF NoJob, OpRecord

(* A new fact's op, an op with its list, and an op that is numbered.        *)
LEMMA FactOp ==
  ASSUME NEW n \in Nat
  PROVE  LET o == [NoJob EXCEPT !.what = "facts", !.fact = n]
         IN  o \in OpRecord /\ o.n = 0 /\ o.what = "facts" /\ o.fact = n /\ o.list = {}
  BY DEF NoJob, OpRecord

LEMMA ReactivateOp ==
  LET o == [NoJob EXCEPT !.what = "reactivate"]
  IN  o \in OpRecord /\ o.n = 0 /\ o.what = "reactivate"
  BY DEF NoJob, OpRecord

LEMMA ListedOp ==
  ASSUME NEW o \in OpRecord, NEW l \in SUBSET Nat
  PROVE  LET q == [o EXCEPT !.list = l]
         IN  q \in OpRecord /\ q.n = o.n /\ q.what = o.what /\ q.fact = o.fact /\ q.list = l
  BY DEF OpRecord

LEMMA NumberedOp ==
  ASSUME NEW o \in OpRecord, NEW n \in Nat
  PROVE  LET q == [o EXCEPT !.n = n]
         IN  q \in OpRecord /\ q.n = n /\ q.what = o.what /\ q.fact = o.fact /\ q.list = o.list
  BY DEF OpRecord

(* Where a goroutine goes, and what op a writer gets.                       *)
LEMMA Placed ==
  ASSUME TaskTypes, NEW w \in Writers \cup {"shutdown"}, NEW place \in Spots, Put(w, place)
  PROVE  /\ doing' \in [Writers \cup {"shutdown"} -> Spots]
         /\ doing'[w] = place /\ \A v \in Writers : v # w => doing'[v] = doing[v]
  BY DEF TaskTypes, Put, Spots

LEMMA GetsJob ==
  ASSUME TaskTypes, NEW w \in Writers, NEW o \in OpRecord, job' = [job EXCEPT ![w] = o]
  PROVE  /\ job' \in [Writers -> OpRecord]
         /\ job'[w] = o /\ \A v \in Writers : v # w => job'[v] = job[v]
  BY DEF TaskTypes

(* What each action leaves of the writers.                                  *)
LEMMA Stores ==
  ASSUME TaskTypes, NEW w \in Writers, StoreFact(w)
  PROVE  \E fact \in Nat, o \in OpRecord :
           /\ facts' = facts \cup {fact} /\ job' = [job EXCEPT ![w] = o]
           /\ o.n = 0 /\ o.what = "facts" /\ o.fact = fact /\ o.list = {}
<1> DEFINE n == Cardinality(facts) + 1
<1>1. n \in Nat
  BY FS_CardinalityType DEF TaskTypes
<1>2. /\ facts' = facts \cup {Cardinality(facts) + 1}
      /\ job' = [job EXCEPT ![w] = [NoJob EXCEPT !.what = "facts", !.fact = Cardinality(facts) + 1]]
  BY DEF StoreFact
<1> HIDE DEF n
<1>3. \E o \in OpRecord : /\ o = [NoJob EXCEPT !.what = "facts", !.fact = n]
                         /\ o.n = 0 /\ o.what = "facts" /\ o.fact = n /\ o.list = {}
  BY <1>1, FactOp
<1>4. facts' = facts \cup {n} /\ job' = [job EXCEPT ![w] = [NoJob EXCEPT !.what = "facts", !.fact = n]]
  BY <1>2 DEF n
<1> QED BY <1>1, <1>3, <1>4

LEMMA Reactivates ==
  ASSUME TaskTypes, Reactivate
  PROVE  \E o \in OpRecord : job' = [job EXCEPT ![Runner] = o] /\ o.n = 0 /\ o.what = "reactivate"
  BY ReactivateOp DEF Reactivate

LEMMA Snapshots ==
  ASSUME TaskTypes, NEW w \in Writers, Snapshot(w)
  PROVE  \E o \in OpRecord :
           /\ job' = [job EXCEPT ![w] = o]
           /\ o.n = job[w].n /\ o.what = job[w].what /\ o.fact = job[w].fact /\ o.list = facts
<1>1. job[w] \in OpRecord /\ facts \in SUBSET Nat
  BY DEF TaskTypes
<1>2. job' = [job EXCEPT ![w] = [job[w] EXCEPT !.list = facts]]
  BY <1>1 DEF Snapshot, TaskTypes
<1> QED BY <1>1, <1>2, ListedOp

(* A send queues the op with its number, or finds a closed channel.         *)
LEMMA Sends ==
  ASSUME TaskTypes, NEW w \in Writers, Send(w)
  PROVE  \/ \E o \in OpRecord :
              /\ open /\ job' = [job EXCEPT ![w] = o] /\ channel' = Append(channel, o)
              /\ o.n = ops + 1 /\ o.what = job[w].what /\ o.fact = job[w].fact /\ o.list = job[w].list
              /\ ops' = ops + 1 /\ Put(w, "wait")
         \/ /\ ~open /\ job' = [job EXCEPT ![w] = NoJob] /\ Put(w, "idle")
            /\ UNCHANGED <<channel, ops>>
<1>1. job[w] \in OpRecord /\ ops + 1 \in Nat
  BY DEF TaskTypes
<1>2. CASE open
  <2>1. /\ channel' = Append(channel, [job[w] EXCEPT !.n = ops + 1]) /\ ops' = ops + 1 /\ Put(w, "wait")
        /\ job' = [job EXCEPT ![w] = [job[w] EXCEPT !.n = ops + 1]]
    BY <1>1, <1>2 DEF Send, TaskTypes
  <2> QED BY <1>1, <1>2, <2>1, NumberedOp
<1>3. CASE ~open
  BY <1>3 DEF Send
<1> QED BY <1>2, <1>3

(* An op that is sent is on its way, one that is taken still is, one that   *)
(* has run is not.                                                          *)
LEMMA FlightSent ==
  ASSUME TaskTypes, NEW o \in OpRecord, channel' = Append(channel, o), taken' = taken
  PROVE  Flight' = Flight \cup {o}
<1>1. /\ DOMAIN channel' = 1 .. Len(channel) + 1 /\ DOMAIN channel = 1 .. Len(channel) /\ Len(channel) \in Nat
      /\ \A i \in 1 .. Len(channel) : channel'[i] = channel[i]
      /\ channel'[Len(channel) + 1] = o
  BY AppendedLast DEF TaskTypes
<1>2. {channel'[i] : i \in DOMAIN channel'} = {channel[i] : i \in DOMAIN channel} \cup {o}
  <2>1. \A i \in DOMAIN channel' : i = Len(channel) + 1 \/ i \in DOMAIN channel
    BY <1>1
  <2>2. Len(channel) + 1 \in DOMAIN channel' /\ \A i \in DOMAIN channel : i \in DOMAIN channel' /\ channel'[i] = channel[i]
    BY <1>1
  <2> QED BY <1>1, <2>1, <2>2
<1> QED BY <1>2 DEF Flight

LEMMA FlightTaken ==
  ASSUME TaskTypes, Lined, WorkerTake
  PROVE  Flight' = Flight /\ taken' # NoJob /\ taken' \in OpRecord /\ channel' \in Seq(OpRecord)
<1>1. taken = NoJob /\ channel # <<>> /\ taken' = Head(channel) /\ channel' = Tail(channel) /\ channel \in Seq(OpRecord)
  BY DEF WorkerTake, TaskTypes
<1>2. /\ taken' \in OpRecord /\ taken' = channel[1] /\ channel' \in Seq(OpRecord)
      /\ Len(channel) \in Nat \ {0} /\ DOMAIN channel = 1 .. Len(channel) /\ DOMAIN channel' = 1 .. Len(channel) - 1
      /\ \A i \in 1 .. Len(channel) - 1 : channel'[i] = channel[i + 1]
  BY <1>1, HeadTaken
<1>3. taken' # NoJob
  <2>1. 1 \in DOMAIN channel /\ Len(ran) \in Nat
    BY <1>2, LenProperties DEF TaskTypes
  <2>2. channel[1].n = Len(ran) + 1
    BY <1>1, <2>1 DEF Lined
  <2> QED BY <1>2, <2>1, <2>2, NoOpRecord
<1>4. {channel[i] : i \in DOMAIN channel} = {channel'[i] : i \in DOMAIN channel'} \cup {taken'}
  <2>1. 1 \in DOMAIN channel /\ \A i \in DOMAIN channel' : i + 1 \in DOMAIN channel /\ channel'[i] = channel[i + 1]
    BY <1>2
  <2>2. ASSUME NEW i \in DOMAIN channel, i # 1
        PROVE  i - 1 \in DOMAIN channel' /\ channel'[i - 1] = channel[i]
    <3>1. i - 1 \in 1 .. Len(channel) - 1 /\ (i - 1) + 1 = i
      BY <1>2, <2>2
    <3> QED BY <1>2, <3>1
  <2> QED BY <1>2, <2>1, <2>2
<1> QED BY <1>1, <1>2, <1>3, <1>4 DEF Flight

LEMMA FlightRan ==
  ASSUME TaskTypes, Lined, WorkerRun
  PROVE  Flight' = Flight \ {taken} /\ taken \in Flight
<1>1. taken # NoJob /\ taken' = NoJob /\ channel' = channel
  BY DEF WorkerRun
<1>2. \A i \in DOMAIN channel : channel[i] # taken
  <2>1. \A i \in DOMAIN channel : i \in Nat \ {0} /\ channel[i].n = Len(ran) + 1 + i
    BY <1>1, LenProperties DEF Lined, TaskTypes
  <2>2. taken.n = Len(ran) + 1 /\ Len(ran) \in Nat
    BY <1>1, LenProperties DEF Lined, TaskTypes
  <2> QED BY <2>1, <2>2
<1> QED BY <1>1, <1>2 DEF Flight

LEMMA FlightStays ==
  ASSUME UNCHANGED <<channel, taken>>
  PROVE  Flight' = Flight
  BY DEF Flight

-----------------------------------------------------------------------------
(* Each part is kept by every step                                          *)

RunnerEnds == Finalize \/ StopWorker \/ PauseTask
Outside == Shutdown \/ ShutdownReturn \/ ShutdownTimeout
GivesUp(w) == SendTimeout(w) \/ WaitTimeout(w) \/ Answered(w)

(* A task before its first write.                                           *)
LEMMA TaskInitial == TaskInit => TaskIInv
<1> SUFFICES ASSUME TaskInit PROVE TaskIInv
  OBVIOUS
<1> USE DEF TaskInit
<1>1. TaskTypes
  BY NoOpRecord, FS_EmptySet, EmptySeq DEF TaskTypes, Spots, Terminal
<1>2. Flight = {}
  BY EmptySeq DEF Flight
<1>3. JobsKnown
  BY NoOpRecord, WritersAssumption DEF JobsKnown, JobOk, Calling
<1>4. Lined
  BY EmptySeq DEF Lined
<1>5. FlightKnown /\ Finalized /\ Returned
  BY <1>2 DEF FlightKnown, Finalized, Returned
<1>6. ListsGrow
  BY <1>2, NoOpRecord DEF ListsGrow
<1> QED BY <1>1, <1>3, <1>4, <1>5, <1>6 DEF TaskIInv

(* Every step keeps the types.                                              *)
LEMMA KeepsTaskTypes == TaskIInv /\ [TaskNext]_taskVars => TaskTypes'
<1> SUFFICES ASSUME TaskIInv, [TaskNext]_taskVars PROVE TaskTypes'
  OBVIOUS
<1>t. TaskTypes /\ Lined
  BY DEF TaskIInv
<1>d. {"idle", "stopping", "ended", "gaveUp", "snapshot", "send", "wait"} \subseteq Spots
  BY DEF Spots
<1>w. Runner \in Writers /\ \A w \in Writers : w \in Writers \cup {"shutdown"}
  BY WritersAssumption
<1> USE DEF blackboardVars, workerVars, rowVars, taskPastVars
<1>k. ASSUME job' \in [Writers -> OpRecord], doing' \in [Writers \cup {"shutdown"} -> Spots],
             UNCHANGED <<facts, channel, taken, open, exited, status, ran, storers, ops>>,
             answers' \subseteq answers, gaveUp' \in BOOLEAN
      PROVE  TaskTypes'
  BY <1>t, <1>k DEF TaskTypes, Spots
<1>1. ASSUME NEW w \in Writers, StoreFact(w) PROVE TaskTypes'
  <2>1. PICK fact \in Nat, o \in OpRecord : facts' = facts \cup {fact} /\ job' = [job EXCEPT ![w] = o]
    BY <1>t, <1>1, Stores
  <2>2. storers' = storers \cup {w}
    BY <1>1 DEF StoreFact
  <2>3. IsFiniteSet(facts') /\ IsFiniteSet(storers') /\ facts' \subseteq Nat /\ storers' \subseteq Writers
    BY <1>t, <2>1, <2>2, FS_AddElement DEF TaskTypes
  <2>4. job' \in [Writers -> OpRecord]
    BY <1>t, <2>1, GetsJob
  <2>5. doing' \in [Writers \cup {"shutdown"} -> Spots]
    BY <1>t, <1>d, <1>w, <1>1, Placed DEF StoreFact
  <2> QED BY <1>t, <1>1, <2>3, <2>4, <2>5 DEF StoreFact, TaskTypes, Spots
<1>2. ASSUME NEW w \in Writers, Snapshot(w) PROVE TaskTypes'
  <2>1. job' \in [Writers -> OpRecord]
    BY <1>t, <1>2, Snapshots, GetsJob
  <2>2. doing' \in [Writers \cup {"shutdown"} -> Spots]
    BY <1>t, <1>d, <1>w, <1>2, Placed DEF Snapshot
  <2> QED BY <1>t, <1>k, <1>2, <2>1, <2>2 DEF Snapshot, TaskTypes
<1>3. CASE Reactivate
  <2>1. job' \in [Writers -> OpRecord]
    BY <1>t, <1>w, <1>3, Reactivates, GetsJob
  <2>2. doing' \in [Writers \cup {"shutdown"} -> Spots]
    BY <1>t, <1>d, <1>w, <1>3, Placed DEF Reactivate
  <2> QED BY <1>t, <1>k, <1>3, <2>1, <2>2 DEF Reactivate, TaskTypes
<1>4. ASSUME NEW w \in Writers, Send(w) PROVE TaskTypes'
  <2>1. CASE \E o \in OpRecord :
              /\ job' = [job EXCEPT ![w] = o] /\ channel' = Append(channel, o) /\ ops' = ops + 1 /\ Put(w, "wait")
    <3>1. channel' \in Seq(OpRecord) /\ ops' \in Nat
      BY <1>t, <2>1, AppendedLast DEF TaskTypes
    <3>2. job' \in [Writers -> OpRecord] /\ doing' \in [Writers \cup {"shutdown"} -> Spots]
      BY <1>t, <1>d, <1>w, <2>1, GetsJob, Placed
    <3> QED BY <1>t, <1>4, <3>1, <3>2 DEF Send, TaskTypes, Spots
  <2>2. CASE job' = [job EXCEPT ![w] = NoJob] /\ Put(w, "idle") /\ UNCHANGED <<channel, ops>>
    <3>1. job' \in [Writers -> OpRecord] /\ doing' \in [Writers \cup {"shutdown"} -> Spots]
      BY <1>t, <1>d, <1>w, <2>2, NoOpRecord, GetsJob, Placed
    <3> QED BY <1>t, <1>k, <1>4, <2>2, <3>1 DEF Send, TaskTypes
  <2> QED BY <1>t, <1>4, <2>1, <2>2, Sends
<1>5. ASSUME NEW w \in Writers, GivesUp(w) PROVE TaskTypes'
  <2>1. job' = [job EXCEPT ![w] = NoJob] /\ Put(w, "idle")
    BY <1>5 DEF GivesUp, SendTimeout, WaitTimeout, Answered
  <2>2. job' \in [Writers -> OpRecord] /\ doing' \in [Writers \cup {"shutdown"} -> Spots]
    BY <1>t, <1>d, <1>w, <2>1, NoOpRecord, GetsJob, Placed
  <2> QED BY <1>t, <1>k, <1>5, <2>2 DEF GivesUp, SendTimeout, WaitTimeout, Answered, TaskTypes
<1>6. CASE WorkerTake
  BY <1>t, <1>6, FlightTaken DEF WorkerTake, TaskTypes
<1>7. CASE WorkerRun
  <2>n. taken.n \in Nat
    BY <1>t DEF OpRecord, TaskTypes
  <2>1. ran' \in Seq(Nat)
    BY <1>t, <1>7, <2>n, AppendedLast DEF WorkerRun, TaskTypes
  <2>2. answers' \subseteq [n : Nat, ok : BOOLEAN]
    BY <1>t, <1>7, <2>n DEF WorkerRun, TaskTypes
  <2>3. status' \in Terminal \cup {"in_progress", "paused"}
    BY <1>t, <1>7 DEF WorkerRun, TaskTypes
  <2> QED BY <1>t, <1>7, <2>1, <2>2, <2>3, NoOpRecord DEF WorkerRun, TaskTypes
<1>8. CASE WorkerExit
  BY <1>t, <1>8 DEF WorkerExit, TaskTypes
<1>9. CASE RunnerEnds
  BY <1>t, <1>d, <1>w, <1>9, Placed DEF RunnerEnds, Finalize, StopWorker, PauseTask, TaskTypes, Spots
<1>10. CASE Outside
  BY <1>t, <1>d, <1>10, Placed DEF Outside, Shutdown, ShutdownReturn, ShutdownTimeout, TaskTypes, Spots
<1>11. CASE UNCHANGED taskVars
  BY <1>t, <1>11 DEF taskVars, TaskTypes
<1> QED
  BY <1>1, <1>2, <1>3, <1>4, <1>5, <1>6, <1>7, <1>8, <1>9, <1>10, <1>11
  DEF TaskNext, CallerStep, WorkerStep, RunnerEnds, Outside, GivesUp

(* A step of one writer, or of none, keeps what is known of the others.     *)
LEMMA OthersOk ==
  ASSUME TaskTypes, TaskTypes', JobsKnown, NEW w \in Writers,
         \A v \in Writers : v # w => job'[v] = job[v] /\ doing'[v] = doing[v],
         facts \subseteq facts', storers \subseteq storers', ops <= ops',
         JobOk(w)', job'[w].n = 0 \/ job'[w].n = job[w].n \/ job'[w].n > ops
  PROVE  JobsKnown'
<1>1. ops \in Nat /\ ops' \in Nat /\ \A v \in Writers : job[v] \in OpRecord /\ job'[v] \in OpRecord
  BY DEF TaskTypes
<1>2. \A v \in Writers : job[v].n \in Nat /\ job'[v].n \in Nat
  BY <1>1 DEF OpRecord
<1>3. ASSUME NEW v \in Writers PROVE JobOk(v)'
  <2>1. CASE v # w
    BY <1>1, <1>2, <2>1 DEF JobsKnown, JobOk
  <2>2. CASE v = w
    BY <2>2 DEF JobOk
  <2> QED BY <2>1, <2>2
<1>4. ASSUME NEW u \in Writers, NEW v \in Writers, job'[v].n = job'[u].n, v # u
      PROVE  job'[u].n = 0
  BY <1>1, <1>2, <1>4 DEF JobsKnown, JobOk
<1> QED BY <1>3, <1>4 DEF JobsKnown, JobOk

(* A writer's op follows it through its call.                               *)
LEMMA KeepsJobs == TaskIInv /\ TaskTypes' /\ [TaskNext]_taskVars => JobsKnown'
<1> SUFFICES ASSUME TaskIInv, TaskTypes', [TaskNext]_taskVars PROVE JobsKnown'
  OBVIOUS
<1>t. TaskTypes /\ Lined /\ JobsKnown /\ ops \in Nat /\ \A v \in Writers : job[v] \in OpRecord
  BY DEF TaskIInv, TaskTypes
<1>d. {"idle", "stopping", "ended", "gaveUp", "snapshot", "send", "wait"} \subseteq Spots
  BY DEF Spots
<1>w. Runner \in Writers /\ \A w \in Writers : w \in Writers \cup {"shutdown"} /\ w # "shutdown"
  BY WritersAssumption
<1> USE DEF blackboardVars, workerVars, rowVars, taskPastVars
<1>n. ASSUME NEW w \in Writers, job' = [job EXCEPT ![w] = NoJob], Put(w, "idle"),
             UNCHANGED <<facts, storers, ops>>
      PROVE  JobsKnown'
  <2>1. job'[w] = NoJob /\ \A v \in Writers : v # w => job'[v] = job[v]
    BY <1>t, <1>n, NoOpRecord, GetsJob
  <2>2. doing'[w] = "idle" /\ \A v \in Writers : v # w => doing'[v] = doing[v]
    BY <1>t, <1>d, <1>w, <1>n, Placed
  <2>3. JobOk(w)'
    BY <1>t, <1>n, <2>1, <2>2, NoOpRecord DEF JobOk, Calling
  <2> QED BY <1>t, <1>n, <2>1, <2>2, <2>3, NoOpRecord, OthersOk
<1>u. ASSUME NEW w \in Writers, job' = job, UNCHANGED <<facts, storers, ops>>,
             \A v \in Writers : v # w => doing'[v] = doing[v],
             doing'[w] = doing[w] \/ (doing[w] \notin Calling /\ doing'[w] \notin Calling)
      PROVE  JobsKnown'
  <2>1. JobOk(w)'
    BY <1>t, <1>u DEF JobsKnown, JobOk, Calling
  <2> QED BY <1>t, <1>u, <2>1, OthersOk
<1>1. ASSUME NEW w \in Writers, StoreFact(w) PROVE JobsKnown'
  <2>1. PICK fact \in Nat, o \in OpRecord :
          /\ facts' = facts \cup {fact} /\ job' = [job EXCEPT ![w] = o]
          /\ o.n = 0 /\ o.what = "facts" /\ o.fact = fact /\ o.list = {}
    BY <1>t, <1>1, Stores
  <2>2. job'[w] = o /\ \A v \in Writers : v # w => job'[v] = job[v]
    BY <1>t, <2>1, GetsJob
  <2>3. doing'[w] = "snapshot" /\ \A v \in Writers : v # w => doing'[v] = doing[v]
    BY <1>t, <1>d, <1>w, <1>1, Placed DEF StoreFact
  <2>4. storers' = storers \cup {w} /\ ops' = ops
    BY <1>1 DEF StoreFact
  <2>5. JobOk(w)'
    BY <1>t, <2>1, <2>2, <2>3, <2>4 DEF JobOk, Calling
  <2> QED BY <1>t, <2>1, <2>2, <2>3, <2>4, <2>5, OthersOk
<1>2. ASSUME NEW w \in Writers, Snapshot(w) PROVE JobsKnown'
  <2>1. PICK o \in OpRecord :
           /\ job' = [job EXCEPT ![w] = o]
           /\ o.n = job[w].n /\ o.what = job[w].what /\ o.fact = job[w].fact /\ o.list = facts
    BY <1>t, <1>2, Snapshots
  <2>2. job'[w] = o /\ \A v \in Writers : v # w => job'[v] = job[v]
    BY <1>t, <2>1, GetsJob
  <2>3. doing[w] = "snapshot" /\ doing'[w] = "send" /\ \A v \in Writers : v # w => doing'[v] = doing[v]
    BY <1>t, <1>d, <1>w, <1>2, Placed DEF Snapshot
  <2>4. UNCHANGED <<facts, storers, ops>>
    BY <1>2 DEF Snapshot
  <2>5. JobOk(w)'
    BY <1>t, <2>1, <2>2, <2>3, <2>4 DEF JobsKnown, JobOk, Calling
  <2> QED BY <1>t, <2>1, <2>2, <2>3, <2>4, <2>5, OthersOk
<1>3. CASE Reactivate
  <2>1. PICK o \in OpRecord : job' = [job EXCEPT ![Runner] = o] /\ o.n = 0 /\ o.what = "reactivate"
    BY <1>t, <1>3, Reactivates
  <2>2. job'[Runner] = o /\ \A v \in Writers : v # Runner => job'[v] = job[v]
    BY <1>t, <1>w, <2>1, GetsJob
  <2>3. doing'[Runner] = "send" /\ \A v \in Writers : v # Runner => doing'[v] = doing[v]
    BY <1>t, <1>d, <1>w, <1>3, Placed DEF Reactivate
  <2>4. UNCHANGED <<facts, storers, ops>>
    BY <1>3 DEF Reactivate
  <2>5. JobOk(Runner)'
    BY <1>t, <2>1, <2>2, <2>3, <2>4 DEF JobOk, Calling
  <2> QED BY <1>t, <1>w, <2>1, <2>2, <2>3, <2>4, <2>5, OthersOk
<1>4. ASSUME NEW w \in Writers, Send(w) PROVE JobsKnown'
  <2>1. CASE \E o \in OpRecord :
              /\ open /\ job' = [job EXCEPT ![w] = o] /\ channel' = Append(channel, o)
              /\ o.n = ops + 1 /\ o.what = job[w].what /\ o.fact = job[w].fact /\ o.list = job[w].list
              /\ ops' = ops + 1 /\ Put(w, "wait")
    <3>1. PICK o \in OpRecord :
              /\ open /\ job' = [job EXCEPT ![w] = o] /\ channel' = Append(channel, o)
              /\ o.n = ops + 1 /\ o.what = job[w].what /\ o.fact = job[w].fact /\ o.list = job[w].list
              /\ ops' = ops + 1 /\ Put(w, "wait")
      BY <2>1
    <3>2. job'[w] = o /\ \A v \in Writers : v # w => job'[v] = job[v]
      BY <1>t, <3>1, GetsJob
    <3>3. doing'[w] = "wait" /\ \A v \in Writers : v # w => doing'[v] = doing[v]
      BY <1>t, <1>d, <1>w, <3>1, Placed
    <3>4. UNCHANGED <<facts, storers>> /\ doing[w] = "send"
      BY <1>4 DEF Send
    <3>5. JobOk(w)'
      BY <1>t, <3>1, <3>2, <3>3, <3>4 DEF JobsKnown, JobOk, Calling
    <3> QED BY <1>t, <3>1, <3>2, <3>3, <3>4, <3>5, OthersOk
  <2>2. CASE job' = [job EXCEPT ![w] = NoJob] /\ Put(w, "idle") /\ UNCHANGED <<channel, ops>>
    BY <1>n, <1>4, <2>2 DEF Send
  <2> QED BY <1>t, <1>4, <2>1, <2>2, Sends
<1>5. ASSUME NEW w \in Writers, GivesUp(w) PROVE JobsKnown'
  BY <1>n, <1>5 DEF GivesUp, SendTimeout, WaitTimeout, Answered
<1>6. CASE WorkerTake \/ WorkerRun \/ WorkerExit \/ UNCHANGED taskVars
  BY <1>u, <1>w, <1>6 DEF WorkerTake, WorkerRun, WorkerExit, taskVars
<1>7. CASE RunnerEnds
  <2>1. /\ job' = job /\ UNCHANGED <<facts, storers, ops>> /\ doing[Runner] \notin Calling
        /\ Put(Runner, "stopping") \/ Put(Runner, "ended")
    BY <1>7 DEF RunnerEnds, Finalize, StopWorker, PauseTask, Calling
  <2>2. doing'[Runner] \notin Calling /\ \A v \in Writers : v # Runner => doing'[v] = doing[v]
    BY <1>t, <1>d, <1>w, <2>1, Placed DEF Calling
  <2> QED BY <1>u, <1>w, <2>1, <2>2
<1>8. CASE Outside
  <2>1. /\ job' = job /\ UNCHANGED <<facts, storers, ops>>
        /\ Put("shutdown", "wait") \/ Put("shutdown", "ended") \/ Put("shutdown", "gaveUp")
    BY <1>8 DEF Outside, Shutdown, ShutdownReturn, ShutdownTimeout
  <2>2. \A v \in Writers : doing'[v] = doing[v]
    BY <1>t, <1>d, <1>w, <2>1, Placed
  <2> QED BY <1>u, <1>w, <2>1, <2>2
<1> QED
  BY <1>1, <1>2, <1>3, <1>4, <1>5, <1>6, <1>7, <1>8
  DEF TaskNext, CallerStep, WorkerStep, RunnerEnds, Outside, GivesUp

(* What the steps other than a send and the worker's leave alone.           *)
Passive ==
  \/ \E w \in Writers : StoreFact(w) \/ Snapshot(w) \/ GivesUp(w)
  \/ Reactivate \/ RunnerEnds \/ Outside \/ UNCHANGED taskVars

LEMMA PassiveStays ==
  ASSUME Passive
  PROVE  /\ UNCHANGED <<channel, taken, exited, ran, ops, storedFacts>>
         /\ (open' => open) /\ (gaveUp => gaveUp') /\ answers' \subseteq answers
<1> USE DEF blackboardVars, workerVars, rowVars, taskPastVars
<1>1. ASSUME NEW w \in Writers, StoreFact(w) \/ Snapshot(w) \/ GivesUp(w)
      PROVE  /\ UNCHANGED <<channel, taken, exited, ran, ops, storedFacts>>
             /\ (open' => open) /\ (gaveUp => gaveUp') /\ answers' \subseteq answers
  BY <1>1 DEF StoreFact, Snapshot, GivesUp, SendTimeout, WaitTimeout, Answered
<1>2. CASE Reactivate \/ RunnerEnds \/ Outside \/ UNCHANGED taskVars
  BY <1>2 DEF Reactivate, RunnerEnds, Finalize, StopWorker, PauseTask, Outside, Shutdown, ShutdownReturn,
     ShutdownTimeout, taskVars
<1> QED BY <1>1, <1>2 DEF Passive

(* The ops stay in line; the worker ends with an empty channel.             *)
LEMMA KeepsLine == TaskIInv /\ TaskTypes' /\ [TaskNext]_taskVars => Lined' /\ Returned'
<1> SUFFICES ASSUME TaskIInv, TaskTypes', [TaskNext]_taskVars PROVE Lined' /\ Returned'
  OBVIOUS
<1>t. /\ TaskTypes /\ Lined /\ Returned
      /\ channel \in Seq(OpRecord) /\ ran \in Seq(Nat) /\ ops \in Nat
      /\ Len(channel) \in Nat /\ DOMAIN channel = 1 .. Len(channel)
      /\ Len(ran) \in Nat /\ DOMAIN ran = 1 .. Len(ran)
  BY LenProperties DEF TaskIInv, TaskTypes
<1>1. ASSUME NEW w \in Writers, Send(w) PROVE Lined' /\ Returned'
  <2>1. UNCHANGED <<taken, ran, open, exited>>
    BY <1>1 DEF Send
  <2>2. ASSUME NEW o \in OpRecord, open, channel' = Append(channel, o), o.n = ops + 1, ops' = ops + 1
        PROVE  Lined' /\ Returned'
    <3>1. /\ Len(channel') = Len(channel) + 1 /\ DOMAIN channel' = 1 .. Len(channel) + 1
          /\ \A i \in 1 .. Len(channel) : channel'[i] = channel[i]
          /\ channel'[Len(channel) + 1] = o
      BY <1>t, <2>2, AppendedLast
    <3>2. ASSUME NEW d \in Nat, d = Len(ran) + (IF taken = NoJob THEN 0 ELSE 1)
          PROVE  ops' = d + Len(channel') /\ \A i \in DOMAIN channel' : channel'[i].n = d + i
      <4>1. ops = d + Len(channel) /\ \A i \in 1 .. Len(channel) : channel[i].n = d + i
        BY <1>t, <3>2 DEF Lined
      <4> QED BY <1>t, <2>2, <3>1, <4>1
    <3>3. Len(ran) + (IF taken = NoJob THEN 0 ELSE 1) \in Nat
      BY <1>t
    <3> QED BY <1>t, <2>1, <2>2, <3>2, <3>3 DEF Lined, Returned
  <2>3. CASE UNCHANGED <<channel, ops>>
    BY <1>t, <2>1, <2>3 DEF Lined, Returned
  <2> QED BY <1>t, <1>1, <2>2, <2>3, Sends
<1>2. CASE WorkerTake
  <2>1. /\ taken = NoJob /\ channel # <<>> /\ taken' = Head(channel) /\ channel' = Tail(channel)
        /\ UNCHANGED <<ran, ops, exited, open>>
    BY <1>2 DEF WorkerTake, taskPastVars
  <2>2. /\ taken' = channel[1] /\ taken' # NoJob /\ Len(channel) \in Nat \ {0}
        /\ Len(channel') = Len(channel) - 1 /\ DOMAIN channel' = 1 .. Len(channel) - 1
        /\ \A i \in 1 .. Len(channel) - 1 : channel'[i] = channel[i + 1]
    BY <1>t, <1>2, <2>1, HeadTaken, FlightTaken
  <2>3. ops = Len(ran) + Len(channel) /\ \A i \in 1 .. Len(channel) : channel[i].n = Len(ran) + i
    BY <1>t, <2>1 DEF Lined
  <2>4. /\ taken'.n = Len(ran) + 1 /\ ops = (Len(ran) + 1) + Len(channel')
        /\ \A i \in DOMAIN channel' : channel'[i].n = (Len(ran) + 1) + i
    <3>1. 1 \in 1 .. Len(channel) /\ channel[1].n = Len(ran) + 1
      BY <2>2, <2>3
    <3>2. ASSUME NEW i \in DOMAIN channel' PROVE channel'[i].n = (Len(ran) + 1) + i
      <4>1. i \in 1 .. Len(channel) - 1 /\ i + 1 \in 1 .. Len(channel)
        BY <2>2
      <4>2. channel'[i] = channel[i + 1] /\ channel[i + 1].n = Len(ran) + (i + 1)
        BY <2>2, <2>3, <4>1
      <4>3. Len(ran) + (i + 1) = (Len(ran) + 1) + i
        BY <1>t, <4>1
      <4> QED BY <4>2, <4>3
    <3>3. ops = (Len(ran) + 1) + Len(channel')
      BY <1>t, <2>2, <2>3
    <3> QED BY <2>2, <3>1, <3>2, <3>3
  <2> QED BY <1>t, <2>1, <2>2, <2>4 DEF Lined, Returned
<1>3. CASE WorkerRun
  <2>1. taken # NoJob /\ taken' = NoJob /\ ran' = Append(ran, taken.n) /\ UNCHANGED <<channel, ops, exited, open>>
    BY <1>3 DEF WorkerRun
  <2>2. taken.n = Len(ran) + 1 /\ taken.n \in Nat
    BY <1>t, <2>1 DEF Lined
  <2>3. /\ Len(ran') = Len(ran) + 1 /\ DOMAIN ran' = 1 .. Len(ran) + 1
        /\ \A i \in 1 .. Len(ran) : ran'[i] = ran[i]
        /\ ran'[Len(ran) + 1] = Len(ran) + 1
    BY <1>t, <2>1, <2>2, AppendedLast
  <2>4. \A i \in DOMAIN ran' : ran'[i] = i
    BY <1>t, <2>3 DEF Lined
  <2>5. /\ ops = (Len(ran) + 1) + Len(channel)
        /\ \A i \in DOMAIN channel : channel[i].n = (Len(ran) + 1) + i
    BY <1>t, <2>1 DEF Lined
  <2> QED BY <1>t, <2>1, <2>3, <2>4, <2>5 DEF Lined, Returned
<1>4. CASE WorkerExit
  BY <1>t, <1>4 DEF WorkerExit, taskPastVars, Lined, Returned
<1>5. CASE Passive
  BY <1>t, <1>5, PassiveStays DEF Lined, Returned
<1> QED BY <1>1, <1>2, <1>3, <1>4, <1>5 DEF TaskNext, CallerStep, WorkerStep, Passive, RunnerEnds, Outside, GivesUp

(* A finalizer's status is the runner's last word.                          *)
LEMMA KeepsFinal == TaskIInv /\ TaskTypes' /\ [TaskNext]_taskVars => Finalized'
<1> SUFFICES ASSUME TaskIInv, TaskTypes', [TaskNext]_taskVars PROVE Finalized'
  OBVIOUS
<1>t. TaskTypes /\ Finalized /\ Lined /\ JobsKnown /\ FlightKnown
  BY DEF TaskIInv
<1>d. {"idle", "stopping", "ended", "gaveUp", "snapshot", "send", "wait"} \subseteq Spots
  BY DEF Spots
<1>w. Runner \in Writers /\ \A w \in Writers : w \in Writers \cup {"shutdown"} /\ w # "shutdown"
  BY WritersAssumption
<1> USE DEF blackboardVars, workerVars, rowVars, taskPastVars
<1>1. ASSUME NEW w \in Writers, StoreFact(w) \/ CallerStep(w) \/ SendTimeout(w) \/ WaitTimeout(w)
      PROVE  Finalized'
  <2>1. /\ doing[w] \notin {"stopping", "ended"} /\ final' = final /\ status' = status /\ (gaveUp => gaveUp')
        /\ \E place \in Spots : Put(w, place)
    BY <1>d, <1>1 DEF StoreFact, CallerStep, Snapshot, Send, Answered, SendTimeout, WaitTimeout
  <2>2. \A v \in Writers : v # w => doing'[v] = doing[v]
    BY <1>t, <1>w, <2>1, Placed
  <2> QED BY <1>t, <1>w, <2>1, <2>2 DEF Finalized
<1>2. CASE Reactivate \/ PauseTask
  BY <1>t, <1>2 DEF Reactivate, PauseTask, Finalized
<1>3. CASE Finalize
  <2>1. doing'[Runner] = "stopping" /\ doing[Runner] = "idle"
    BY <1>t, <1>d, <1>w, <1>3, Placed DEF Finalize
  <2> QED BY <1>t, <1>3, <2>1 DEF Finalize, Finalized
<1>4. CASE StopWorker
  <2>1. doing'[Runner] = "ended"
    BY <1>t, <1>d, <1>w, <1>4, Placed DEF StopWorker
  <2> QED BY <1>t, <1>4, <2>1 DEF StopWorker, Finalized
<1>5. CASE WorkerRun
  <2>1. UNCHANGED <<doing, final, gaveUp>>
    BY <1>5 DEF WorkerRun
  <2>2. status' = status \/ taken.what = "reactivate"
    BY <1>5 DEF WorkerRun
  <2>3. taken \in Flight
    BY <1>t, <1>5, FlightRan
  <2>4. taken.what = "reactivate" /\ ~gaveUp => doing[Runner] = "wait"
    BY <1>t, <2>3 DEF FlightKnown
  <2> QED BY <1>t, <2>1, <2>2, <2>4 DEF Finalized
<1>6. CASE WorkerTake \/ WorkerExit \/ UNCHANGED taskVars
  BY <1>t, <1>6 DEF WorkerTake, WorkerExit, taskVars, Finalized
<1>7. CASE Outside
  <2>1. /\ UNCHANGED <<final, status, gaveUp>>
        /\ Put("shutdown", "wait") \/ Put("shutdown", "ended") \/ Put("shutdown", "gaveUp")
    BY <1>7 DEF Outside, Shutdown, ShutdownReturn, ShutdownTimeout
  <2>2. doing'[Runner] = doing[Runner]
    BY <1>t, <1>d, <1>w, <2>1, Placed
  <2> QED BY <1>t, <2>1, <2>2 DEF Finalized
<1> QED BY <1>1, <1>2, <1>3, <1>4, <1>5, <1>6, <1>7 DEF TaskNext, WorkerStep, Outside

(* Numbers are numbers.                                                     *)
LEMMA TaskNumbers ==
  ASSUME TaskTypes
  PROVE  /\ ops \in Nat /\ Len(ran) \in Nat
         /\ \A o \in Flight : o \in OpRecord /\ o.n \in Nat
         /\ \A w \in Writers : job[w] \in OpRecord /\ job[w].n \in Nat
         /\ \A a \in answers : a.n \in Nat
<1>1. ops \in Nat /\ ran \in Seq(Nat) /\ answers \subseteq [n : Nat, ok : BOOLEAN] /\ channel \in Seq(OpRecord)
      /\ taken \in OpRecord /\ \A w \in Writers : job[w] \in OpRecord
  BY DEF TaskTypes
<1>2. \A o \in OpRecord : o.n \in Nat
  BY DEF OpRecord
<1>3. \A o \in Flight : o \in OpRecord
  <2>1. \A i \in DOMAIN channel : channel[i] \in OpRecord
    BY <1>1, LenProperties, ElementOfSeq
  <2> QED BY <1>1, <2>1 DEF Flight
<1> QED BY <1>1, <1>2, <1>3, LenProperties

(* What is on its way stays known when a writer's op changes and none is    *)
(* sent or run.                                                             *)
LEMMA FlightKept ==
  ASSUME TaskTypes, TaskTypes', FlightKnown, NEW w \in Writers, Flight' = Flight, UNCHANGED <<ran, ops>>,
         facts \subseteq facts', answers' \subseteq answers,
         \A v \in Writers : v # w => job'[v] = job[v],
         job'[w] = job[w] \/ job'[w].n = 0,
         \A o \in Flight : o.what = "reactivate" /\ ~gaveUp' => doing'[Runner] = "wait" /\ job'[Runner].n = o.n
  PROVE  FlightKnown'
<1>1. \A o \in Flight' : /\ o \in Flight /\ o.n \in Len(ran) + 1 .. ops /\ o.n # 0
                         /\ o.what \in {"facts", "reactivate"}
                         /\ o.what = "facts" => o.list \subseteq facts
                         /\ \A v \in Writers : job[v].n = o.n => job[v] = o
  BY TaskNumbers DEF FlightKnown
<1>2. \A o \in Flight', v \in Writers : job'[v].n = o.n => job'[v] = o
  BY <1>1
<1>3. \A a \in answers' : a.n \in 1 .. Len(ran)
  BY DEF FlightKnown
<1> QED BY <1>1, <1>2, <1>3 DEF FlightKnown

(* What is on its way is known after every step.                            *)
LEMMA KeepsFlight == TaskIInv /\ TaskTypes' /\ [TaskNext]_taskVars => FlightKnown'
<1> SUFFICES ASSUME TaskIInv, TaskTypes', [TaskNext]_taskVars PROVE FlightKnown'
  OBVIOUS
<1>t. TaskTypes /\ Lined /\ JobsKnown /\ FlightKnown
  BY DEF TaskIInv
<1>m. /\ ops \in Nat /\ Len(ran) \in Nat
      /\ \A o \in Flight : o \in OpRecord /\ o.n \in Nat
      /\ \A w \in Writers : job[w] \in OpRecord /\ job[w].n \in Nat
  BY <1>t, TaskNumbers
<1>d. {"idle", "stopping", "ended", "gaveUp", "snapshot", "send", "wait"} \subseteq Spots
  BY DEF Spots
<1>w. Runner \in Writers /\ \A w \in Writers : w \in Writers \cup {"shutdown"} /\ w # "shutdown"
  BY WritersAssumption
<1>r. \A o \in Flight : o.what = "reactivate" /\ ~gaveUp => doing[Runner] = "wait" /\ job[Runner].n = o.n
  BY <1>t DEF FlightKnown
<1> USE DEF blackboardVars, workerVars, rowVars, taskPastVars
<1>1. ASSUME NEW w \in Writers, StoreFact(w) PROVE FlightKnown'
  <2>1. PICK fact \in Nat, o \in OpRecord :
          facts' = facts \cup {fact} /\ job' = [job EXCEPT ![w] = o] /\ o.n = 0
    BY <1>t, <1>1, Stores
  <2>2. job'[w] = o /\ \A v \in Writers : v # w => job'[v] = job[v]
    BY <1>t, <2>1, GetsJob
  <2>3. doing[w] = "idle" /\ \A v \in Writers : v # w => doing'[v] = doing[v]
    BY <1>t, <1>d, <1>w, <1>1, Placed DEF StoreFact
  <2>4. Flight' = Flight /\ UNCHANGED <<ran, ops, answers, gaveUp>>
    BY <1>1, FlightStays DEF StoreFact
  <2>5. \A q \in Flight : q.what = "reactivate" /\ ~gaveUp' => doing'[Runner] = "wait" /\ job'[Runner].n = q.n
    BY <1>r, <1>w, <2>2, <2>3, <2>4
  <2> QED BY <1>t, <2>1, <2>2, <2>4, <2>5, FlightKept
<1>2. ASSUME NEW w \in Writers, Snapshot(w) PROVE FlightKnown'
  <2>1. PICK o \in OpRecord : job' = [job EXCEPT ![w] = o] /\ o.n = job[w].n
    BY <1>t, <1>2, Snapshots
  <2>2. job'[w] = o /\ \A v \in Writers : v # w => job'[v] = job[v]
    BY <1>t, <2>1, GetsJob
  <2>3. doing[w] = "snapshot" /\ \A v \in Writers : v # w => doing'[v] = doing[v]
    BY <1>t, <1>d, <1>w, <1>2, Placed DEF Snapshot
  <2>4. Flight' = Flight /\ UNCHANGED <<ran, ops, answers, gaveUp, facts>>
    BY <1>2, FlightStays DEF Snapshot
  <2>5. \A q \in Flight : q.what = "reactivate" /\ ~gaveUp' => doing'[Runner] = "wait" /\ job'[Runner].n = q.n
    BY <1>r, <1>w, <2>2, <2>3, <2>4
  <2>6. job[w].n = 0
    BY <1>t, <2>3 DEF JobsKnown, JobOk
  <2> QED BY <1>t, <2>1, <2>2, <2>4, <2>5, <2>6, FlightKept
<1>3. CASE Reactivate
  <2>1. PICK o \in OpRecord : job' = [job EXCEPT ![Runner] = o] /\ o.n = 0
    BY <1>t, <1>3, Reactivates
  <2>2. job'[Runner] = o /\ \A v \in Writers : v # Runner => job'[v] = job[v]
    BY <1>t, <1>w, <2>1, GetsJob
  <2>3. doing[Runner] = "idle" /\ Flight' = Flight /\ UNCHANGED <<ran, ops, answers, gaveUp, facts>>
    BY <1>3, FlightStays DEF Reactivate
  <2>4. \A q \in Flight : q.what = "reactivate" /\ ~gaveUp' => doing'[Runner] = "wait" /\ job'[Runner].n = q.n
    BY <1>r, <2>3
  <2> QED BY <1>t, <1>w, <2>1, <2>2, <2>3, <2>4, FlightKept
<1>n. ASSUME NEW w \in Writers, job' = [job EXCEPT ![w] = NoJob], Put(w, "idle"), UNCHANGED <<facts, ran, ops>>,
             Flight' = Flight, answers' \subseteq answers,
             \A q \in Flight : q.what = "reactivate" /\ ~gaveUp' => w # Runner /\ ~gaveUp
      PROVE  FlightKnown'
  <2>1. job'[w] = NoJob /\ \A v \in Writers : v # w => job'[v] = job[v]
    BY <1>t, <1>n, NoOpRecord, GetsJob
  <2>2. \A v \in Writers : v # w => doing'[v] = doing[v]
    BY <1>t, <1>d, <1>w, <1>n, Placed
  <2>3. \A q \in Flight : q.what = "reactivate" /\ ~gaveUp' => doing'[Runner] = "wait" /\ job'[Runner].n = q.n
    BY <1>r, <1>w, <1>n, <2>1, <2>2
  <2> QED BY <1>t, <1>n, <2>1, <2>3, NoOpRecord, FlightKept
<1>4. ASSUME NEW w \in Writers, Send(w) PROVE FlightKnown'
  <2>s. doing[w] = "send" /\ UNCHANGED <<taken, facts, ran, answers, gaveUp>>
    BY <1>4 DEF Send
  <2>1. CASE \E o \in OpRecord :
              /\ open /\ job' = [job EXCEPT ![w] = o] /\ channel' = Append(channel, o)
              /\ o.n = ops + 1 /\ o.what = job[w].what /\ o.fact = job[w].fact /\ o.list = job[w].list
              /\ ops' = ops + 1 /\ Put(w, "wait")
    <3>1. PICK o \in OpRecord :
              /\ open /\ job' = [job EXCEPT ![w] = o] /\ channel' = Append(channel, o)
              /\ o.n = ops + 1 /\ o.what = job[w].what /\ o.fact = job[w].fact /\ o.list = job[w].list
              /\ ops' = ops + 1 /\ Put(w, "wait")
      BY <2>1
    <3>2. job'[w] = o /\ \A v \in Writers : v # w => job'[v] = job[v]
      BY <1>t, <3>1, GetsJob
    <3>3. doing'[w] = "wait" /\ \A v \in Writers : v # w => doing'[v] = doing[v]
      BY <1>t, <1>d, <1>w, <3>1, Placed
    <3>4. Flight' = Flight \cup {o}
      BY <1>t, <2>s, <3>1, FlightSent
    <3>5. /\ o.what \in {"facts", "reactivate"} /\ (o.what = "facts" => o.list \subseteq facts)
          /\ o.what = "reactivate" => w = Runner
      <4>1. job[w].what # "none" /\ job[w].what \in {"none", "facts", "reactivate"}
        BY <1>t, <1>m, <2>s DEF JobsKnown, JobOk, Calling, OpRecord
      <4> QED BY <1>t, <3>1, <4>1 DEF JobsKnown, JobOk
    <3>6. o.n \in Len(ran) + 1 .. ops'
      BY <1>t, <1>m, <3>1, LenProperties DEF Lined, TaskTypes
    <3>7. \A v \in Writers : job[v].n <= ops
      BY <1>t DEF JobsKnown, JobOk
    <3>8. \A v \in Writers : job'[v].n = o.n => job'[v] = o
      BY <1>m, <3>1, <3>2, <3>7
    <3>9. ASSUME NEW q \in Flight
          PROVE  /\ q.n \in Len(ran) + 1 .. ops' /\ q.what \in {"facts", "reactivate"}
                 /\ \A v \in Writers : job'[v].n = q.n => job'[v] = q
                 /\ q.what = "facts" => q.list \subseteq facts
                 /\ q.what = "reactivate" /\ ~gaveUp => doing'[Runner] = "wait" /\ job'[Runner].n = q.n
      <4>1. /\ q.n \in Len(ran) + 1 .. ops /\ q.what \in {"facts", "reactivate"}
            /\ \A v \in Writers : job[v].n = q.n => job[v] = q
            /\ q.what = "facts" => q.list \subseteq facts
            /\ q.what = "reactivate" /\ ~gaveUp => doing[Runner] = "wait" /\ job[Runner].n = q.n
        BY <1>t DEF FlightKnown
      <4>2. q.n # ops + 1 /\ q.n \in Len(ran) + 1 .. ops'
        BY <1>m, <3>1, <4>1
      <4>3. q.what = "reactivate" /\ ~gaveUp => w # Runner
        BY <2>s, <4>1
      <4> QED BY <1>w, <3>1, <3>2, <3>3, <4>1, <4>2, <4>3
    <3> QED BY <1>t, <2>s, <3>2, <3>3, <3>4, <3>5, <3>6, <3>8, <3>9 DEF FlightKnown
  <2>2. CASE job' = [job EXCEPT ![w] = NoJob] /\ Put(w, "idle") /\ UNCHANGED <<channel, ops>>
    <3>1. \A q \in Flight : q.what = "reactivate" /\ ~gaveUp' => w # Runner /\ ~gaveUp
      BY <1>r, <2>s
    <3> QED BY <1>n, <2>s, <2>2, <3>1, FlightStays
  <2> QED BY <1>t, <1>4, <2>1, <2>2, Sends
<1>5. ASSUME NEW w \in Writers, GivesUp(w) PROVE FlightKnown'
  <2>1. /\ job' = [job EXCEPT ![w] = NoJob] /\ Put(w, "idle") /\ UNCHANGED <<facts, ran, ops, channel, taken>>
        /\ answers' \subseteq answers
    BY <1>5 DEF GivesUp, SendTimeout, WaitTimeout, Answered
  <2>2. \A q \in Flight : q.what = "reactivate" /\ ~gaveUp' => w # Runner /\ ~gaveUp
    <3>1. CASE SendTimeout(w)
      BY <1>r, <3>1 DEF SendTimeout
    <3>2. CASE WaitTimeout(w)
      BY <3>2 DEF WaitTimeout
    <3>3. CASE Answered(w)
      <4>1. PICK a \in answers : a.n = job[w].n
        BY <3>3 DEF Answered
      <4>2. a.n \in 1 .. Len(ran) /\ \A q \in Flight : q.n \in Len(ran) + 1 .. ops
        BY <1>t DEF FlightKnown
      <4>3. \A q \in Flight : q.n # job[w].n
        BY <1>m, <4>1, <4>2
      <4> QED BY <1>r, <3>3, <4>3 DEF Answered
    <3> QED BY <1>5, <3>1, <3>2, <3>3 DEF GivesUp
  <2> QED BY <1>n, <2>1, <2>2, FlightStays
<1>6. CASE WorkerTake \/ WorkerExit \/ UNCHANGED taskVars
  <2>1. UNCHANGED <<job, doing, facts, ran, ops, answers, gaveUp>>
    BY <1>6 DEF WorkerTake, WorkerExit, taskVars
  <2>2. Flight' = Flight
    BY <1>t, <1>6, FlightTaken, FlightStays DEF WorkerExit, taskVars
  <2> QED BY <1>t, <1>w, <1>r, <2>1, <2>2, FlightKept
<1>7. CASE WorkerRun
  <2>1. UNCHANGED <<job, doing, facts, ops, gaveUp>> /\ Flight' = Flight \ {taken} /\ taken \in Flight
    BY <1>t, <1>7, FlightRan DEF WorkerRun
  <2>2. ran' = Append(ran, taken.n) /\ taken # NoJob
    BY <1>7 DEF WorkerRun
  <2>3. taken.n = Len(ran) + 1 /\ taken.n \in Nat
    BY <1>t, <1>m, <2>2 DEF Lined
  <2>4. Len(ran') = Len(ran) + 1
    BY <1>t, <2>2, <2>3, AppendedLast DEF TaskTypes
  <2>5. ASSUME NEW q \in Flight' PROVE q.n \in Len(ran') + 1 .. ops
    <3>1. q \in Flight /\ q # taken /\ q.n \in Len(ran) + 1 .. ops
      BY <1>t, <2>1 DEF FlightKnown
    <3>2. q.n # Len(ran) + 1
      <4>1. CASE taken.n = q.n
        <5>1. \E i \in DOMAIN channel : channel[i] = q
          BY <2>2, <3>1 DEF Flight
        <5>2. PICK i \in DOMAIN channel : channel[i] = q
          BY <5>1
        <5>3. i \in Nat \ {0} /\ q.n = (Len(ran) + 1) + i
          BY <1>t, <2>2, <5>2, LenProperties DEF Lined, TaskTypes
        <5> QED BY <1>m, <2>3, <4>1, <5>3
      <4> QED BY <2>3, <4>1
    <3> QED BY <1>m, <2>4, <3>1, <3>2
  <2>6. \A a \in answers' : a.n \in 1 .. Len(ran')
    <3>1. \A a \in answers' : a \in answers \/ a.n = taken.n
      BY <1>7 DEF WorkerRun
    <3>2. \A a \in answers : a.n \in 1 .. Len(ran)
      BY <1>t DEF FlightKnown
    <3> QED BY <1>m, <2>3, <2>4, <3>1, <3>2
  <2> QED BY <1>t, <2>1, <2>5, <2>6 DEF FlightKnown
<1>8. CASE RunnerEnds
  <2>1. /\ doing[Runner] # "wait" /\ job' = job /\ UNCHANGED <<facts, ran, ops, answers, gaveUp, channel, taken>>
    BY <1>8 DEF RunnerEnds, Finalize, StopWorker, PauseTask
  <2>2. \A q \in Flight : q.what = "reactivate" /\ ~gaveUp' => doing'[Runner] = "wait" /\ job'[Runner].n = q.n
    BY <1>r, <2>1
  <2> QED BY <1>t, <1>w, <2>1, <2>2, FlightKept, FlightStays
<1>9. CASE Outside
  <2>1. /\ job' = job /\ UNCHANGED <<facts, ran, ops, answers, gaveUp, channel, taken>>
        /\ Put("shutdown", "wait") \/ Put("shutdown", "ended") \/ Put("shutdown", "gaveUp")
    BY <1>9 DEF Outside, Shutdown, ShutdownReturn, ShutdownTimeout
  <2>2. doing'[Runner] = doing[Runner]
    BY <1>t, <1>d, <1>w, <2>1, Placed
  <2> QED BY <1>t, <1>w, <1>r, <2>1, <2>2, FlightKept, FlightStays
<1> QED
  BY <1>1, <1>2, <1>3, <1>4, <1>5, <1>6, <1>7, <1>8, <1>9
  DEF TaskNext, CallerStep, WorkerStep, RunnerEnds, Outside, GivesUp

(* No second goroutine stores facts than the one that is left alone.        *)
LEMMA OneStorer ==
  ASSUME TaskTypes, TaskTypes', storers \subseteq storers', Cardinality(storers') <= 1
  PROVE  /\ Cardinality(storers) <= 1
         /\ \A v, w \in storers' : v = w
<1>1. IsFiniteSet(storers') /\ Cardinality(storers') \in Nat /\ Cardinality(storers) \in Nat
      /\ Cardinality(storers) <= Cardinality(storers')
  BY FS_CardinalityType, FS_Subset DEF TaskTypes
<1>2. ASSUME NEW v \in storers', NEW w \in storers', v # w PROVE FALSE
  <2>1. IsFiniteSet({w}) /\ Cardinality({w}) = 1
    BY FS_Singleton
  <2>2. IsFiniteSet({w} \cup {v}) /\ Cardinality({w} \cup {v}) = 2
    BY <1>2, <2>1, FS_AddElement
  <2>3. Cardinality({w} \cup {v}) <= Cardinality(storers')
    BY <1>1, FS_Subset
  <2> QED BY <1>1, <2>2, <2>3
<1> QED BY <1>1, <1>2

(* A step that sends nothing and runs nothing.                              *)
LEMMA GrowsOn ==
  ASSUME TaskTypes, TaskTypes', FlightKnown, ListsGrow, storers \subseteq storers', NEW w \in Writers,
         Flight' = Flight, facts \subseteq facts', storedFacts' = storedFacts, answers' \subseteq answers,
         \A v \in Writers : v # w => job'[v] = job[v] /\ doing'[v] = doing[v],
         Cardinality(storers) <= 1 => announced' \subseteq storedFacts,
         \/ job'[w] = job[w] /\ (doing'[w] = "send" => doing[w] = "send")
         \/ job'[w].n = 0 /\ (job'[w].what = "facts" /\ doing'[w] = "send" => job'[w].list = facts)
  PROVE  ListsGrow'
<1> SUFFICES ASSUME Cardinality(storers') <= 1
             PROVE  /\ announced' \subseteq storedFacts' /\ storedFacts' \subseteq facts'
                    /\ \A o \in Flight' : o.what = "facts" =>
                         /\ storedFacts' \subseteq o.list
                         /\ \A p \in Flight' : p.what = "facts" /\ o.n < p.n => o.list \subseteq p.list
                         /\ \A v \in Writers : doing'[v] = "send" /\ job'[v].what = "facts" => o.list \subseteq job'[v].list
                    /\ \A v \in Writers : job'[v].what = "facts" =>
                         /\ doing'[v] = "send" => storedFacts' \subseteq job'[v].list
                         /\ \A a \in answers' : a.n = job'[v].n /\ a.ok => job'[v].fact \in storedFacts'
  BY DEF ListsGrow
<1>1. Cardinality(storers) <= 1
  BY OneStorer
<1>2. /\ announced \subseteq storedFacts /\ storedFacts \subseteq facts
      /\ \A o \in Flight : o.what = "facts" =>
           /\ storedFacts \subseteq o.list
           /\ \A p \in Flight : p.what = "facts" /\ o.n < p.n => o.list \subseteq p.list
           /\ \A v \in Writers : doing[v] = "send" /\ job[v].what = "facts" => o.list \subseteq job[v].list
      /\ \A v \in Writers : job[v].what = "facts" =>
           /\ doing[v] = "send" => storedFacts \subseteq job[v].list
           /\ \A a \in answers : a.n = job[v].n /\ a.ok => job[v].fact \in storedFacts
  BY <1>1 DEF ListsGrow
<1>3. \A o \in Flight : o.what = "facts" => o.list \subseteq facts
  BY DEF FlightKnown
<1>4. \A a \in answers : a.n # 0
  BY TaskNumbers DEF FlightKnown
<1>5. \A o \in Flight : o.what = "facts" =>
        \A v \in Writers : doing'[v] = "send" /\ job'[v].what = "facts" => o.list \subseteq job'[v].list
  BY <1>2, <1>3
<1>6. \A v \in Writers : job'[v].what = "facts" /\ doing'[v] = "send" => storedFacts \subseteq job'[v].list
  BY <1>2
<1>7. \A v \in Writers : job'[v].what = "facts" =>
        \A a \in answers' : a.n = job'[v].n /\ a.ok => job'[v].fact \in storedFacts
  BY <1>2, <1>4
<1> QED BY <1>1, <1>2, <1>5, <1>6, <1>7

(* While one goroutine stores facts, the lists grow.                        *)
LEMMA KeepsGrowing == TaskIInv /\ TaskTypes' /\ [TaskNext]_taskVars => ListsGrow'
<1> SUFFICES ASSUME TaskIInv, TaskTypes', [TaskNext]_taskVars PROVE ListsGrow'
  OBVIOUS
<1>t. TaskTypes /\ Lined /\ JobsKnown /\ FlightKnown /\ ListsGrow
  BY DEF TaskIInv
<1>m. /\ ops \in Nat /\ Len(ran) \in Nat
      /\ \A o \in Flight : o \in OpRecord /\ o.n \in Nat
      /\ \A w \in Writers : job[w] \in OpRecord /\ job[w].n \in Nat
  BY <1>t, TaskNumbers
<1>d. {"idle", "stopping", "ended", "gaveUp", "snapshot", "send", "wait"} \subseteq Spots
  BY DEF Spots
<1>w. Runner \in Writers /\ \A w \in Writers : w \in Writers \cup {"shutdown"} /\ w # "shutdown"
  BY WritersAssumption
<1>a. Cardinality(storers) <= 1 => announced \subseteq storedFacts
  BY <1>t DEF ListsGrow
<1> USE DEF blackboardVars, workerVars, rowVars, taskPastVars
<1>1. ASSUME NEW w \in Writers, StoreFact(w) PROVE ListsGrow'
  <2>1. PICK fact \in Nat, o \in OpRecord :
          facts' = facts \cup {fact} /\ job' = [job EXCEPT ![w] = o] /\ o.n = 0
    BY <1>t, <1>1, Stores
  <2>2. job'[w] = o /\ \A v \in Writers : v # w => job'[v] = job[v]
    BY <1>t, <2>1, GetsJob
  <2>3. doing'[w] = "snapshot" /\ \A v \in Writers : v # w => doing'[v] = doing[v]
    BY <1>t, <1>d, <1>w, <1>1, Placed DEF StoreFact
  <2>4. Flight' = Flight /\ UNCHANGED <<answers, announced, storedFacts>> /\ storers' = storers \cup {w}
    BY <1>1, FlightStays DEF StoreFact
  <2> QED BY <1>t, <1>a, <2>1, <2>2, <2>3, <2>4, GrowsOn
<1>2. ASSUME NEW w \in Writers, Snapshot(w) PROVE ListsGrow'
  <2>1. PICK o \in OpRecord : job' = [job EXCEPT ![w] = o] /\ o.n = job[w].n /\ o.list = facts
    BY <1>t, <1>2, Snapshots
  <2>2. job'[w] = o /\ \A v \in Writers : v # w => job'[v] = job[v]
    BY <1>t, <2>1, GetsJob
  <2>3. doing[w] = "snapshot" /\ \A v \in Writers : v # w => doing'[v] = doing[v]
    BY <1>t, <1>d, <1>w, <1>2, Placed DEF Snapshot
  <2>4. Flight' = Flight /\ UNCHANGED <<answers, announced, storedFacts, storers, facts>>
    BY <1>2, FlightStays DEF Snapshot
  <2>5. job[w].n = 0
    BY <1>t, <2>3 DEF JobsKnown, JobOk
  <2> QED BY <1>t, <1>a, <2>1, <2>2, <2>3, <2>4, <2>5, GrowsOn
<1>3. CASE Reactivate
  <2>1. PICK o \in OpRecord : job' = [job EXCEPT ![Runner] = o] /\ o.n = 0 /\ o.what = "reactivate"
    BY <1>t, <1>3, Reactivates
  <2>2. job'[Runner] = o /\ \A v \in Writers : v # Runner => job'[v] = job[v]
    BY <1>t, <1>w, <2>1, GetsJob
  <2>3. \A v \in Writers : v # Runner => doing'[v] = doing[v]
    BY <1>t, <1>d, <1>w, <1>3, Placed DEF Reactivate
  <2>4. Flight' = Flight /\ UNCHANGED <<answers, announced, storedFacts, storers, facts>>
    BY <1>3, FlightStays DEF Reactivate
  <2> QED BY <1>t, <1>w, <1>a, <2>1, <2>2, <2>3, <2>4, GrowsOn
<1>n. ASSUME NEW w \in Writers, job' = [job EXCEPT ![w] = NoJob], Put(w, "idle"),
             UNCHANGED <<facts, storers, storedFacts>>, Flight' = Flight, answers' \subseteq answers,
             Cardinality(storers) <= 1 => announced' \subseteq storedFacts
      PROVE  ListsGrow'
  <2>1. job'[w] = NoJob /\ \A v \in Writers : v # w => job'[v] = job[v]
    BY <1>t, <1>n, NoOpRecord, GetsJob
  <2>2. \A v \in Writers : v # w => doing'[v] = doing[v]
    BY <1>t, <1>d, <1>w, <1>n, Placed
  <2> QED BY <1>t, <1>n, <2>1, <2>2, NoOpRecord, GrowsOn
<1>4. ASSUME NEW w \in Writers, Send(w) PROVE ListsGrow'
  <2>s. doing[w] = "send" /\ UNCHANGED <<taken, facts, ran, answers, announced, storers, storedFacts>>
    BY <1>4 DEF Send
  <2>1. CASE \E o \in OpRecord :
              /\ open /\ job' = [job EXCEPT ![w] = o] /\ channel' = Append(channel, o)
              /\ o.n = ops + 1 /\ o.what = job[w].what /\ o.fact = job[w].fact /\ o.list = job[w].list
              /\ ops' = ops + 1 /\ Put(w, "wait")
    <3>1. PICK o \in OpRecord :
              /\ open /\ job' = [job EXCEPT ![w] = o] /\ channel' = Append(channel, o)
              /\ o.n = ops + 1 /\ o.what = job[w].what /\ o.fact = job[w].fact /\ o.list = job[w].list
              /\ ops' = ops + 1 /\ Put(w, "wait")
      BY <2>1
    <3>2. job'[w] = o /\ \A v \in Writers : v # w => job'[v] = job[v]
      BY <1>t, <3>1, GetsJob
    <3>3. doing'[w] = "wait" /\ \A v \in Writers : v # w => doing'[v] = doing[v]
      BY <1>t, <1>d, <1>w, <3>1, Placed
    <3>4. Flight' = Flight \cup {o}
      BY <1>t, <2>s, <3>1, FlightSent
    <3> SUFFICES ASSUME Cardinality(storers') <= 1
                 PROVE  /\ announced' \subseteq storedFacts' /\ storedFacts' \subseteq facts'
                        /\ \A q \in Flight' : q.what = "facts" =>
                             /\ storedFacts' \subseteq q.list
                             /\ \A p \in Flight' : p.what = "facts" /\ q.n < p.n => q.list \subseteq p.list
                             /\ \A v \in Writers :
                                  doing'[v] = "send" /\ job'[v].what = "facts" => q.list \subseteq job'[v].list
                        /\ \A v \in Writers : job'[v].what = "facts" =>
                             /\ doing'[v] = "send" => storedFacts' \subseteq job'[v].list
                             /\ \A a \in answers' : a.n = job'[v].n /\ a.ok => job'[v].fact \in storedFacts'
      BY DEF ListsGrow
    <3>5. /\ announced \subseteq storedFacts /\ storedFacts \subseteq facts
          /\ \A q \in Flight : q.what = "facts" =>
               /\ storedFacts \subseteq q.list
               /\ \A p \in Flight : p.what = "facts" /\ q.n < p.n => q.list \subseteq p.list
               /\ \A v \in Writers : doing[v] = "send" /\ job[v].what = "facts" => q.list \subseteq job[v].list
          /\ \A v \in Writers : job[v].what = "facts" =>
               /\ doing[v] = "send" => storedFacts \subseteq job[v].list
               /\ \A a \in answers : a.n = job[v].n /\ a.ok => job[v].fact \in storedFacts
      BY <1>t, <2>s DEF ListsGrow
    <3>6. \A q \in Flight : q.n <= ops
      BY <1>t, <1>m DEF FlightKnown
    <3>7. o.what = "facts" => \A v \in Writers : v # w => job[v].what # "facts"
      <4>1. \A v \in Writers : job[v].what = "facts" => v \in storers'
        BY <1>t, <2>s DEF JobsKnown, JobOk
      <4>2. \A u, v \in storers' : u = v
        BY <1>t, <2>s, OneStorer
      <4> QED BY <3>1, <4>1, <4>2
    <3>8. \A a \in answers : a.n # ops + 1
      <4>1. \A a \in answers : a.n \in 1 .. Len(ran)
        BY <1>t DEF FlightKnown
      <4>2. Len(ran) <= ops
        BY <1>t, <1>m, LenProperties DEF Lined, TaskTypes
      <4> QED BY <1>m, <4>1, <4>2
    <3>9. o.what = "facts" => storedFacts \subseteq o.list /\ \A q \in Flight : q.what = "facts" => q.list \subseteq o.list
      BY <2>s, <3>1, <3>5
    <3>10. ASSUME NEW q \in Flight', q.what = "facts"
           PROVE  /\ storedFacts \subseteq q.list
                  /\ \A p \in Flight' : p.what = "facts" /\ q.n < p.n => q.list \subseteq p.list
                  /\ \A v \in Writers : doing'[v] = "send" /\ job'[v].what = "facts" => q.list \subseteq job'[v].list
      <4>1. CASE q \in Flight
        <5>1. \A p \in Flight' : p.what = "facts" /\ q.n < p.n => q.list \subseteq p.list
          BY <3>4, <3>5, <3>9, <3>10, <4>1
        <5>2. \A v \in Writers : doing'[v] = "send" /\ job'[v].what = "facts" => q.list \subseteq job'[v].list
          BY <3>2, <3>3, <3>5, <3>10, <4>1
        <5> QED BY <3>5, <3>10, <4>1, <5>1, <5>2
      <4>2. CASE q = o
        <5>1. \A p \in Flight' : ~(q.n < p.n)
          BY <1>m, <3>1, <3>4, <3>6, <4>2
        <5>2. \A v \in Writers : ~(doing'[v] = "send" /\ job'[v].what = "facts")
          BY <3>2, <3>3, <3>7, <3>10, <4>2
        <5> QED BY <3>9, <3>10, <4>2, <5>1, <5>2
      <4> QED BY <3>4, <4>1, <4>2
    <3>11. \A v \in Writers : job'[v].what = "facts" =>
             /\ doing'[v] = "send" => storedFacts \subseteq job'[v].list
             /\ \A a \in answers : a.n = job'[v].n /\ a.ok => job'[v].fact \in storedFacts
      BY <3>1, <3>2, <3>3, <3>5, <3>8
    <3> QED BY <2>s, <3>5, <3>10, <3>11
  <2>2. CASE job' = [job EXCEPT ![w] = NoJob] /\ Put(w, "idle") /\ UNCHANGED <<channel, ops>>
    BY <1>n, <1>a, <2>s, <2>2, FlightStays
  <2> QED BY <1>t, <1>4, <2>1, <2>2, Sends
<1>5. ASSUME NEW w \in Writers, GivesUp(w) PROVE ListsGrow'
  <2>1. /\ job' = [job EXCEPT ![w] = NoJob] /\ Put(w, "idle")
        /\ UNCHANGED <<facts, storers, storedFacts, channel, taken>> /\ answers' \subseteq answers
    BY <1>5 DEF GivesUp, SendTimeout, WaitTimeout, Answered
  <2>2. Cardinality(storers) <= 1 => announced' \subseteq storedFacts
    <3>1. CASE SendTimeout(w) \/ WaitTimeout(w)
      BY <1>a, <3>1 DEF SendTimeout, WaitTimeout
    <3>2. CASE Answered(w)
      <4>1. PICK a \in answers :
              /\ a.n = job[w].n
              /\ announced' = IF a.ok /\ job[w].what = "facts" THEN announced \cup {job[w].fact} ELSE announced
        BY <3>2 DEF Answered
      <4>2. Cardinality(storers) <= 1 /\ job[w].what = "facts" /\ a.ok => job[w].fact \in storedFacts
        BY <1>t, <4>1 DEF ListsGrow
      <4> QED BY <1>a, <4>1, <4>2
    <3> QED BY <1>5, <3>1, <3>2 DEF GivesUp
  <2> QED BY <1>n, <2>1, <2>2, FlightStays
<1>6. CASE WorkerTake \/ WorkerExit \/ UNCHANGED taskVars
  <2>1. UNCHANGED <<job, doing, facts, storers, storedFacts, answers, announced>>
    BY <1>6 DEF WorkerTake, WorkerExit, taskVars
  <2>2. Flight' = Flight
    BY <1>t, <1>6, FlightTaken, FlightStays DEF WorkerExit, taskVars
  <2> QED BY <1>t, <1>w, <1>a, <2>1, <2>2, GrowsOn
<1>7. CASE WorkerRun
  <2>1. UNCHANGED <<job, doing, facts, storers, announced>> /\ Flight' = Flight \ {taken} /\ taken \in Flight
    BY <1>t, <1>7, FlightRan DEF WorkerRun
  <2>2. PICK ok \in BOOLEAN :
          /\ storedFacts' = IF ok /\ taken.what = "facts" THEN taken.list ELSE storedFacts
          /\ answers' = answers \cup {[n |-> taken.n, ok |-> ok] : w \in {v \in Writers : job[v].n = taken.n}}
    BY <1>7 DEF WorkerRun
  <2> SUFFICES ASSUME Cardinality(storers) <= 1
               PROVE  /\ announced \subseteq storedFacts' /\ storedFacts' \subseteq facts
                      /\ \A q \in Flight' : q.what = "facts" =>
                           /\ storedFacts' \subseteq q.list
                           /\ \A p \in Flight' : p.what = "facts" /\ q.n < p.n => q.list \subseteq p.list
                           /\ \A v \in Writers : doing[v] = "send" /\ job[v].what = "facts" => q.list \subseteq job[v].list
                      /\ \A v \in Writers : job[v].what = "facts" =>
                           /\ doing[v] = "send" => storedFacts' \subseteq job[v].list
                           /\ \A a \in answers' : a.n = job[v].n /\ a.ok => job[v].fact \in storedFacts'
    BY <2>1 DEF ListsGrow
  <2>3. /\ announced \subseteq storedFacts /\ storedFacts \subseteq facts
        /\ \A q \in Flight : q.what = "facts" =>
             /\ storedFacts \subseteq q.list
             /\ \A p \in Flight : p.what = "facts" /\ q.n < p.n => q.list \subseteq p.list
             /\ \A v \in Writers : doing[v] = "send" /\ job[v].what = "facts" => q.list \subseteq job[v].list
        /\ \A v \in Writers : job[v].what = "facts" =>
             /\ doing[v] = "send" => storedFacts \subseteq job[v].list
             /\ \A a \in answers : a.n = job[v].n /\ a.ok => job[v].fact \in storedFacts
    BY <1>t DEF ListsGrow
  <2>4. /\ taken.what = "facts" => taken.list \subseteq facts
        /\ \A v \in Writers : job[v].n = taken.n => job[v] = taken
    BY <1>t, <2>1 DEF FlightKnown
  <2>5. storedFacts \subseteq storedFacts' /\ storedFacts' \subseteq facts
    BY <2>1, <2>2, <2>3, <2>4
  <2>6. \A q \in Flight' : taken.n < q.n
    <3>1. taken # NoJob /\ taken.n = Len(ran) + 1 /\ taken' = NoJob /\ channel' = channel
      BY <1>t, <1>7 DEF WorkerRun, Lined
    <3>2. ASSUME NEW q \in Flight' PROVE taken.n < q.n
      <4>1. PICK i \in DOMAIN channel : channel[i] = q
        BY <3>1 DEF Flight
      <4>2. i \in Nat \ {0} /\ q.n = (Len(ran) + 1) + i
        BY <1>t, <3>1, <4>1, LenProperties DEF Lined, TaskTypes
      <4> QED BY <1>m, <3>1, <4>2
    <3> QED BY <3>2
  <2>7. \A q \in Flight' : q.what = "facts" => storedFacts' \subseteq q.list
    BY <2>1, <2>2, <2>3, <2>6
  <2>8. \A v \in Writers : job[v].what = "facts" /\ doing[v] = "send" => storedFacts' \subseteq job[v].list
    BY <2>1, <2>2, <2>3
  <2>9. ASSUME NEW v \in Writers, job[v].what = "facts", NEW a \in answers', a.n = job[v].n, a.ok
        PROVE  job[v].fact \in storedFacts'
    <3>1. CASE a \in answers
      BY <2>3, <2>5, <2>9, <3>1
    <3>2. CASE a \notin answers
      <4>1. a.n = taken.n /\ a.ok = ok
        BY <2>2, <3>2
      <4>2. job[v] = taken
        BY <2>4, <2>9, <4>1
      <4>3. storedFacts' = taken.list
        BY <2>2, <2>9, <4>1, <4>2
      <4>4. job[v].n # 0
        BY <1>t, <1>m, <2>1, <2>9, <4>1 DEF FlightKnown
      <4>5. job[v].fact \in job[v].list
        BY <1>t, <2>9, <4>4 DEF JobsKnown, JobOk
      <4> QED BY <4>2, <4>3, <4>5
    <3> QED BY <3>1, <3>2
  <2> QED BY <2>1, <2>3, <2>5, <2>7, <2>8, <2>9
<1>8. CASE RunnerEnds
  <2>1. /\ job' = job /\ UNCHANGED <<facts, storers, storedFacts, answers, announced, channel, taken>>
        /\ Put(Runner, "stopping") \/ Put(Runner, "ended")
    BY <1>8 DEF RunnerEnds, Finalize, StopWorker, PauseTask
  <2>2. doing'[Runner] # "send" /\ \A v \in Writers : v # Runner => doing'[v] = doing[v]
    BY <1>t, <1>d, <1>w, <2>1, Placed
  <2> QED BY <1>t, <1>w, <1>a, <2>1, <2>2, FlightStays, GrowsOn
<1>9. CASE Outside
  <2>1. /\ job' = job /\ UNCHANGED <<facts, storers, storedFacts, answers, announced, channel, taken>>
        /\ Put("shutdown", "wait") \/ Put("shutdown", "ended") \/ Put("shutdown", "gaveUp")
    BY <1>9 DEF Outside, Shutdown, ShutdownReturn, ShutdownTimeout
  <2>2. \A v \in Writers : doing'[v] = doing[v]
    BY <1>t, <1>d, <1>w, <2>1, Placed
  <2> QED BY <1>t, <1>w, <1>a, <2>1, <2>2, FlightStays, GrowsOn
<1> QED
  BY <1>1, <1>2, <1>3, <1>4, <1>5, <1>6, <1>7, <1>8, <1>9
  DEF TaskNext, CallerStep, WorkerStep, RunnerEnds, Outside, GivesUp

(* Every step keeps all of it.                                              *)
LEMMA TaskStep == TaskIInv /\ [TaskNext]_taskVars => TaskIInv'
  BY KeepsTaskTypes, KeepsJobs, KeepsLine, KeepsFlight, KeepsFinal, KeepsGrowing DEF TaskIInv

(* Ops in line are the numbers up to the last one that was sent.            *)
LEMMA TaskImplies == TaskIInv => WritesKept
<1> SUFFICES ASSUME TaskIInv PROVE WritesKept
  OBVIOUS
<1>t. TaskTypes /\ Lined /\ Returned /\ Finalized /\ ListsGrow
  BY DEF TaskIInv
<1> DEFINE mid == IF taken = NoJob THEN <<>> ELSE <<taken.n>>
           rest == [i \in DOMAIN channel |-> channel[i].n]
           d == Len(ran) + (IF taken = NoJob THEN 0 ELSE 1)
<1>1. /\ ran \in Seq(Nat) /\ Len(ran) \in Nat /\ DOMAIN ran = 1 .. Len(ran) /\ ops \in Nat
      /\ channel \in Seq(OpRecord) /\ Len(channel) \in Nat /\ DOMAIN channel = 1 .. Len(channel)
  BY <1>t, LenProperties DEF TaskTypes
<1>2. mid \in Seq(Nat) /\ Len(mid) = d - Len(ran) /\ d \in Nat
      /\ \A i \in 1 .. Len(mid) : mid[i] = Len(ran) + i
  <2>1. CASE taken = NoJob
    BY <1>1, <2>1, EmptySeq
  <2>2. CASE taken # NoJob
    <3>1. taken.n = Len(ran) + 1
      BY <1>t, <2>2 DEF Lined
    <3>2. <<Len(ran) + 1>> \in Seq(Nat) /\ Len(<<Len(ran) + 1>>) = 1 /\ <<Len(ran) + 1>>[1] = Len(ran) + 1
      BY <1>1
    <3> QED BY <1>1, <2>2, <3>1, <3>2
  <2> QED BY <2>1, <2>2
<1>3. ops = d + Len(channel) /\ \A i \in 1 .. Len(channel) : rest[i] = d + i
  BY <1>t, <1>1 DEF Lined
<1>4. rest \in Seq(Nat) /\ Len(rest) = Len(channel)
  <2>1. rest \in [1 .. Len(channel) -> Nat]
    BY <1>1, <1>2, <1>3
  <2> QED BY <1>1, <2>1, IsASeq, LenProperties
<1> HIDE DEF mid, rest, d
<1>5. /\ ran \o mid \in Seq(Nat) /\ Len(ran \o mid) = d
      /\ \A i \in 1 .. d : (ran \o mid)[i] = i
  <2>1. /\ ran \o mid \in Seq(Nat) /\ Len(ran \o mid) = Len(ran) + Len(mid)
        /\ \A i \in 1 .. Len(ran) + Len(mid) :
             (ran \o mid)[i] = IF i <= Len(ran) THEN ran[i] ELSE mid[i - Len(ran)]
    BY <1>1, <1>2, ConcatProperties
  <2>2. Len(mid) \in Nat /\ Len(ran) + Len(mid) = d
    BY <1>1, <1>2, LenProperties
  <2>3. ASSUME NEW i \in 1 .. d PROVE (ran \o mid)[i] = i
    <3>1. CASE i <= Len(ran)
      <4>1. i \in DOMAIN ran /\ i \in 1 .. Len(ran) + Len(mid)
        BY <1>1, <2>2, <3>1
      <4>2. ran[i] = i
        BY <1>t, <4>1 DEF Lined
      <4> QED BY <2>1, <3>1, <4>1, <4>2
    <3>2. CASE i > Len(ran)
      <4>1. i - Len(ran) \in 1 .. Len(mid) /\ Len(ran) + (i - Len(ran)) = i
        BY <1>1, <1>2, <2>2, <3>2
      <4> QED BY <1>1, <1>2, <2>1, <2>2, <3>2, <4>1
    <3> QED BY <1>1, <1>2, <3>1, <3>2
  <2> QED BY <2>1, <2>2, <2>3
<1>6. /\ (ran \o mid) \o rest \in Seq(Nat) /\ Len((ran \o mid) \o rest) = ops
      /\ \A i \in 1 .. ops : ((ran \o mid) \o rest)[i] = i
  <2>1. /\ (ran \o mid) \o rest \in Seq(Nat) /\ Len((ran \o mid) \o rest) = d + Len(rest)
        /\ \A i \in 1 .. d + Len(rest) :
             ((ran \o mid) \o rest)[i] = IF i <= d THEN (ran \o mid)[i] ELSE rest[i - d]
    BY <1>4, <1>5, ConcatProperties
  <2>2. ASSUME NEW i \in 1 .. ops PROVE ((ran \o mid) \o rest)[i] = i
    <3>1. CASE i <= d
      BY <1>1, <1>2, <1>3, <1>4, <1>5, <2>1, <3>1
    <3>2. CASE ~(i <= d)
      <4>1. i - d \in 1 .. Len(channel) /\ d + (i - d) = i
        BY <1>1, <1>2, <1>3, <3>2
      <4> QED BY <1>1, <1>2, <1>3, <1>4, <2>1, <3>2, <4>1
    <3> QED BY <3>1, <3>2
  <2> QED BY <1>3, <1>4, <2>1, <2>2
<1>7. (ran \o mid) \o rest = [n \in 1 .. ops |-> n]
  <2>1. [n \in 1 .. ops |-> n] \in Seq(Nat) /\ Len([n \in 1 .. ops |-> n]) = ops
    BY <1>1, IsASeq, LenProperties
  <2> QED BY <1>1, <1>6, <2>1, SeqEqual
<1>8. exited => Len(ran) = ops
  BY <1>t, <1>1, <1>3, EmptySeq DEF Returned, d
<1>9. SentRunsOnce
  BY <1>7, <1>8 DEF SentRunsOnce, mid, rest
<1> QED BY <1>t, <1>9 DEF WritesKept, FinalStays, AnnouncedStored, Finalized, ListsGrow

(* persistSafe's callers are promised: each op that was sent runs once and  *)
(* in order, also across a finalizer and Shutdown; no reactivation lands    *)
(* after a finalizer unless a wait timed out; and while one goroutine       *)
(* stores facts, an announced fact is in the store.                         *)
THEOREM WritesKeptHolds == TaskSpec => []WritesKept
<1> QED BY TaskInitial, TaskStep, TaskImplies, PTL DEF TaskSpec

-----------------------------------------------------------------------------
(* The events through the batcher                                           *)

Rng(s) == {s[i] : i \in DOMAIN s}
Distinct(s) == \A i, j \in DOMAIN s : s[i] = s[j] => i = j
Increasing(s) == \A i, j \in DOMAIN s : i < j => s[i] < s[j]

BatchTypes ==
  /\ backlog \in Seq(Nat) /\ shown \in Seq(Nat) /\ sent \in Seq(Sent)
  /\ hand \in [Handlers -> Seq(Nat)] /\ replaced \subseteq Nat
  /\ stopped \in BOOLEAN /\ wake \in BOOLEAN /\ stopCh \in BOOLEAN
  /\ at \in [Handlers -> {"idle", "request", "emit", "select", "flush", "lastFlush",
                          "lastEmit", "ended", "close", "wait"}]

(* What a goroutine holds it is about to emit; a producer holds an event    *)
(* only after Stop; Stop takes the queue before it waits, and the loop has  *)
(* nothing left when it has ended.                                          *)
AtPlace ==
  /\ \A p \in Handlers : hand[p] # <<>> => at[p] \in {"emit", "lastEmit"}
  /\ \A p \in Producers : at[p] \in {"idle", "request", "emit"} /\ (at[p] = "emit" => stopped)
  /\ at["loop"] \in {"select", "flush", "emit", "lastFlush", "lastEmit", "ended"}
  /\ at["stop"] \in {"idle", "flush", "emit", "close", "wait", "ended"}
  /\ at["stop"] # "idle" => stopped
  /\ at["stop"] \notin {"idle", "flush"} => backlog = <<>>
  /\ at["stop"] = "ended" => at["loop"] = "ended"

(* The queue, the hands, the shown and the replaced events share no event,  *)
(* hold none twice and leave none out.                                      *)
Apart ==
  /\ Distinct(backlog) /\ Distinct(shown) /\ \A p \in Handlers : Distinct(hand[p])
  /\ \A n \in Rng(backlog) : n \notin Rng(shown) /\ n \notin replaced
  /\ \A n \in Rng(shown) : n \notin replaced
  /\ \A p \in Handlers : \A n \in Rng(hand[p]) :
       /\ n \notin Rng(backlog) /\ n \notin Rng(shown) /\ n \notin replaced
       /\ \A q \in Handlers : q # p => n \notin Rng(hand[q])
  /\ \A n \in Nat :
       n \in DOMAIN sent <=>
         n \in Rng(backlog) \/ n \in Rng(shown) \/ n \in replaced \/ \E p \in Handlers : n \in Rng(hand[p])

(* Until Stop, the shown events are followed by those in the loop's hand,   *)
(* these by the queue, and its last event is the newest.                    *)
Ordered ==
  ~stopped =>
    /\ Increasing(shown) /\ Increasing(hand["loop"]) /\ Increasing(backlog)
    /\ \A m \in Rng(shown) : /\ \A n \in Rng(hand["loop"]) : m < n
                             /\ \A n \in Rng(backlog) : m < n
    /\ \A m \in Rng(hand["loop"]), n \in Rng(backlog) : m < n
    /\ backlog # <<>> => backlog[Len(backlog)] = Len(sent)

BatchIInv == BatchTypes /\ AtPlace /\ Apart /\ Ordered /\ ReplacedByNext /\ FlushDue

(* What a list's elements are after it grows, changes its last or is joined *)
(* with another.                                                            *)
LEMMA RngEmpty == Rng(<<>>) = {} /\ Distinct(<<>>) /\ Increasing(<<>>)
  BY EmptySeq DEF Rng, Distinct, Increasing

LEMMA RngMember ==
  ASSUME NEW q \in Seq(Nat)
  PROVE  /\ \A i \in DOMAIN q : q[i] \in Rng(q) /\ q[i] \in Nat
         /\ \A n \in Rng(q) : n \in Nat /\ \E i \in DOMAIN q : q[i] = n
         /\ q # <<>> => Len(q) \in DOMAIN q
         /\ DOMAIN q = 1 .. Len(q) /\ Len(q) \in Nat
  BY LenProperties, ElementOfSeq, EmptySeq DEF Rng

LEMMA RngAppended ==
  ASSUME NEW q \in Seq(Nat), NEW x \in Nat, x \notin Rng(q), Distinct(q)
  PROVE  /\ Append(q, x) \in Seq(Nat) /\ Append(q, x) # <<>>
         /\ Rng(Append(q, x)) = Rng(q) \cup {x} /\ Distinct(Append(q, x))
         /\ Len(Append(q, x)) = Len(q) + 1 /\ Append(q, x)[Len(q) + 1] = x
         /\ \A i \in DOMAIN q : i \in DOMAIN Append(q, x) /\ Append(q, x)[i] = q[i]
         /\ \A i \in DOMAIN Append(q, x) : i \in DOMAIN q \/ i = Len(q) + 1
         /\ Increasing(q) /\ (\A n \in Rng(q) : n < x) => Increasing(Append(q, x))
<1>1. /\ Append(q, x) \in Seq(Nat) /\ Len(Append(q, x)) = Len(q) + 1
      /\ DOMAIN Append(q, x) = 1 .. Len(q) + 1 /\ DOMAIN q = 1 .. Len(q) /\ Len(q) \in Nat
      /\ \A i \in 1 .. Len(q) : Append(q, x)[i] = q[i]
      /\ Append(q, x)[Len(q) + 1] = x
  BY AppendedLast
<1>2. /\ \A i \in DOMAIN q : i \in DOMAIN Append(q, x) /\ Append(q, x)[i] = q[i]
      /\ \A i \in DOMAIN Append(q, x) : i \in DOMAIN q \/ i = Len(q) + 1
      /\ Len(q) + 1 \in DOMAIN Append(q, x) /\ Len(q) + 1 \notin DOMAIN q
      /\ \A i \in DOMAIN q : i \in Nat /\ i < Len(q) + 1
  BY <1>1
<1>3. Rng(Append(q, x)) = Rng(q) \cup {x}
  <2>1. \A n \in Rng(Append(q, x)) : n \in Rng(q) \cup {x}
    BY <1>1, <1>2 DEF Rng
  <2>2. \A n \in Rng(q) \cup {x} : n \in Rng(Append(q, x))
    BY <1>1, <1>2 DEF Rng
  <2> QED BY <2>1, <2>2
<1>4. \A i \in DOMAIN q : q[i] \in Rng(q)
  BY DEF Rng
<1>5. Distinct(Append(q, x))
  BY <1>1, <1>2, <1>4 DEF Distinct
<1>6. Increasing(q) /\ (\A n \in Rng(q) : n < x) => Increasing(Append(q, x))
  BY <1>1, <1>2, <1>4 DEF Increasing
<1>7. Append(q, x) # <<>>
  BY <1>1, EmptySeq
<1> QED BY <1>1, <1>2, <1>3, <1>5, <1>6, <1>7

LEMMA RngReplaced ==
  ASSUME NEW q \in Seq(Nat), q # <<>>, NEW x \in Nat, x \notin Rng(q), Distinct(q),
         NEW r, r = [q EXCEPT ![Len(q)] = x]
  PROVE  /\ r \in Seq(Nat) /\ r # <<>> /\ Len(r) = Len(q) /\ DOMAIN r = DOMAIN q
         /\ r[Len(q)] = x /\ \A i \in DOMAIN q : i # Len(q) => r[i] = q[i]
         /\ q[Len(q)] \in Rng(q) /\ Rng(r) = (Rng(q) \ {q[Len(q)]}) \cup {x} /\ Distinct(r)
         /\ Increasing(q) /\ (\A n \in Rng(q) : n < x) => Increasing(r)
<1>1. DOMAIN q = 1 .. Len(q) /\ Len(q) \in Nat \ {0} /\ Len(q) \in DOMAIN q
  BY LenProperties, EmptySeq
<1>2. DOMAIN r = DOMAIN q /\ r[Len(q)] = x /\ \A i \in DOMAIN q : i # Len(q) => r[i] = q[i]
  BY <1>1
<1>3. r \in Seq(Nat)
  BY <1>1, ExceptSeq
<1>4. Len(r) = Len(q) /\ r # <<>>
  BY <1>1, <1>2, <1>3, LenProperties, EmptySeq
<1>5. \A i \in DOMAIN q : q[i] \in Rng(q) /\ i \in Nat /\ i <= Len(q)
  BY <1>1 DEF Rng
<1>6. Rng(r) = (Rng(q) \ {q[Len(q)]}) \cup {x}
  <2>1. \A n \in Rng(r) : n \in (Rng(q) \ {q[Len(q)]}) \cup {x}
    BY <1>1, <1>2 DEF Rng, Distinct
  <2>2. \A n \in (Rng(q) \ {q[Len(q)]}) \cup {x} : n \in Rng(r)
    BY <1>1, <1>2 DEF Rng
  <2> QED BY <2>1, <2>2
<1>7. Distinct(r)
  BY <1>1, <1>2, <1>5 DEF Distinct
<1>8. Increasing(q) /\ (\A n \in Rng(q) : n < x) => Increasing(r)
  BY <1>1, <1>2, <1>5 DEF Increasing
<1> QED BY <1>1, <1>2, <1>3, <1>4, <1>5, <1>6, <1>7, <1>8

LEMMA RngJoined ==
  ASSUME NEW q \in Seq(Nat), NEW r \in Seq(Nat), Distinct(q), Distinct(r), \A n \in Rng(r) : n \notin Rng(q)
  PROVE  /\ q \o r \in Seq(Nat) /\ Rng(q \o r) = Rng(q) \cup Rng(r) /\ Distinct(q \o r)
         /\ Increasing(q) /\ Increasing(r) /\ (\A m \in Rng(q), n \in Rng(r) : m < n) => Increasing(q \o r)
<1>1. /\ q \o r \in Seq(Nat) /\ DOMAIN (q \o r) = 1 .. Len(q) + Len(r)
      /\ \A i \in 1 .. Len(q) + Len(r) : (q \o r)[i] = IF i <= Len(q) THEN q[i] ELSE r[i - Len(q)]
      /\ DOMAIN q = 1 .. Len(q) /\ DOMAIN r = 1 .. Len(r) /\ Len(q) \in Nat /\ Len(r) \in Nat
  BY ConcatProperties, LenProperties
<1>2. \A i \in DOMAIN (q \o r) : \/ i \in DOMAIN q /\ (q \o r)[i] = q[i]
                                 \/ i > Len(q) /\ i - Len(q) \in DOMAIN r /\ (q \o r)[i] = r[i - Len(q)]
  BY <1>1
<1>3. /\ \A i \in DOMAIN q : i \in DOMAIN (q \o r) /\ (q \o r)[i] = q[i]
      /\ \A i \in DOMAIN r : i + Len(q) \in DOMAIN (q \o r) /\ (q \o r)[i + Len(q)] = r[i]
  <2>1. ASSUME NEW i \in DOMAIN r
        PROVE  i + Len(q) \in DOMAIN (q \o r) /\ (q \o r)[i + Len(q)] = r[i]
    <3>1. i + Len(q) \in 1 .. Len(q) + Len(r) /\ ~(i + Len(q) <= Len(q)) /\ (i + Len(q)) - Len(q) = i
      BY <1>1
    <3> QED BY <1>1, <3>1
  <2>2. ASSUME NEW i \in DOMAIN q
        PROVE  i \in DOMAIN (q \o r) /\ (q \o r)[i] = q[i]
    BY <1>1
  <2> QED BY <2>1, <2>2
<1>4. Rng(q \o r) = Rng(q) \cup Rng(r)
  <2>1. \A n \in Rng(q \o r) : n \in Rng(q) \cup Rng(r)
    BY <1>2 DEF Rng
  <2>2. \A n \in Rng(q) \cup Rng(r) : n \in Rng(q \o r)
    BY <1>3 DEF Rng
  <2> QED BY <2>1, <2>2
<1>5. (\A i \in DOMAIN q : q[i] \in Rng(q)) /\ (\A i \in DOMAIN r : r[i] \in Rng(r))
  BY DEF Rng
<1>6. Distinct(q \o r)
  <2> SUFFICES ASSUME NEW i \in DOMAIN (q \o r), NEW j \in DOMAIN (q \o r), (q \o r)[i] = (q \o r)[j]
               PROVE  i = j
    BY DEF Distinct
  <2>1. i \in Nat /\ j \in Nat
    BY <1>1
  <2>2. CASE i \in DOMAIN q /\ (q \o r)[i] = q[i]
    BY <1>2, <1>5, <2>2 DEF Distinct
  <2>3. CASE i > Len(q) /\ i - Len(q) \in DOMAIN r /\ (q \o r)[i] = r[i - Len(q)]
    <3>1. j > Len(q) /\ j - Len(q) \in DOMAIN r /\ (q \o r)[j] = r[j - Len(q)]
      BY <1>2, <1>5, <2>3
    <3>2. i - Len(q) = j - Len(q)
      BY <2>3, <3>1 DEF Distinct
    <3> QED BY <1>1, <2>1, <3>2
  <2> QED BY <1>2, <2>2, <2>3
<1>7. ASSUME Increasing(q), Increasing(r), \A m \in Rng(q), n \in Rng(r) : m < n
      PROVE  Increasing(q \o r)
  <2> SUFFICES ASSUME NEW i \in DOMAIN (q \o r), NEW j \in DOMAIN (q \o r), i < j
               PROVE  (q \o r)[i] < (q \o r)[j]
    BY DEF Increasing
  <2>1. i \in Nat /\ j \in Nat
    BY <1>1
  <2>2. CASE i \in DOMAIN q /\ (q \o r)[i] = q[i]
    BY <1>2, <1>5, <1>7, <2>2 DEF Increasing
  <2>3. CASE i > Len(q) /\ i - Len(q) \in DOMAIN r /\ (q \o r)[i] = r[i - Len(q)]
    <3>1. j > Len(q)
      BY <1>1, <2>1, <2>3
    <3>2. j \notin DOMAIN q
      BY <1>1, <2>1, <3>1
    <3>3. j - Len(q) \in DOMAIN r /\ (q \o r)[j] = r[j - Len(q)]
      BY <1>2, <3>2
    <3>4. i - Len(q) < j - Len(q)
      BY <1>1, <2>1
    <3> QED BY <1>7, <2>3, <3>3, <3>4 DEF Increasing
  <2> QED BY <1>2, <2>2, <2>3
<1> QED BY <1>1, <1>4, <1>6, <1>7

(* The next event has a number of its own.                                  *)
LEMMA NewNumber ==
  ASSUME BatchTypes, Apart
  PROVE  /\ Len(sent) \in Nat /\ DOMAIN sent = 1 .. Len(sent)
         /\ Len(sent) + 1 \notin Rng(backlog) /\ Len(sent) + 1 \notin Rng(shown)
         /\ Len(sent) + 1 \notin replaced
         /\ \A p \in Handlers : Len(sent) + 1 \notin Rng(hand[p])
<1>1. Len(sent) \in Nat /\ DOMAIN sent = 1 .. Len(sent)
  BY LenProperties DEF BatchTypes
<1>2. Len(sent) + 1 \in Nat /\ Len(sent) + 1 \notin DOMAIN sent
  BY <1>1
<1> QED BY <1>1, <1>2 DEF Apart

LEMMA NewEvent ==
  ASSUME BatchTypes, NEW p \in Producers, NEW key \in Keys \cup {NoKey}, NEW barrier \in BOOLEAN,
         sent' = Append(sent, [key |-> key, barrier |-> barrier])
  PROVE  /\ sent' \in Seq(Sent) /\ Len(sent') = Len(sent) + 1 /\ Len(sent') \in Nat
         /\ DOMAIN sent' = DOMAIN sent \cup {Len(sent) + 1}
         /\ \A i \in DOMAIN sent : sent'[i] = sent[i]
         /\ sent'[Len(sent) + 1].key = key /\ sent'[Len(sent) + 1].barrier = barrier
<1>1. [key |-> key, barrier |-> barrier] \in Sent
  BY DEF Sent
<1>2. /\ sent' \in Seq(Sent) /\ Len(sent') = Len(sent) + 1 /\ DOMAIN sent' = 1 .. Len(sent) + 1
      /\ DOMAIN sent = 1 .. Len(sent) /\ Len(sent) \in Nat
      /\ \A i \in 1 .. Len(sent) : sent'[i] = sent[i]
      /\ sent'[Len(sent) + 1] = [key |-> key, barrier |-> barrier]
  BY <1>1, AppendProperties, LenProperties DEF BatchTypes
<1> QED BY <1>2

LEMMA BatchInitial == BatchInit => BatchIInv
<1> SUFFICES ASSUME BatchInit PROVE BatchIInv
  OBVIOUS
<1> USE ProducersAssumption
<1>1. BatchTypes
  BY EmptySeq DEF BatchInit, BatchTypes, Handlers, Flushers
<1>2. AtPlace
  BY DEF BatchInit, AtPlace, Handlers, Flushers
<1>3. Apart
  BY RngEmpty, EmptySeq DEF BatchInit, Apart
<1>4. Ordered
  BY RngEmpty DEF BatchInit, Ordered, Handlers, Flushers
<1>5. ReplacedByNext /\ FlushDue
  BY EmptySeq, MaxQueueAssumption DEF BatchInit, ReplacedByNext, FlushDue
<1> QED BY <1>1, <1>2, <1>3, <1>4, <1>5 DEF BatchIInv

(* The cases of a step, and what each says of the program.                  *)
LEMMA TypesKept == BatchIInv /\ [BatchNext]_batchVars => BatchTypes'
<1> SUFFICES ASSUME BatchIInv, BatchNext \/ UNCHANGED batchVars PROVE BatchTypes'
  BY DEF batchVars
<1>t. BatchTypes /\ Apart /\ AtPlace
  BY DEF BatchIInv
<1>1. ASSUME NEW p \in Producers, NEW key \in Keys \cup {NoKey}, NEW barrier \in BOOLEAN,
             Enqueue(p, key, barrier)
      PROVE  BatchTypes'
  <2>1. sent' \in Seq(Sent) /\ Len(sent') = Len(sent) + 1 /\ Len(sent') \in Nat
    BY <1>t, <1>1, NewEvent DEF Enqueue
  <2>2. p \in Handlers /\ <<Len(sent')>> \in Seq(Nat)
    BY <2>1 DEF Handlers
  <2>3. at' \in [Handlers -> {"idle", "request", "emit", "select", "flush", "lastFlush",
                            "lastEmit", "ended", "close", "wait"}]
    BY <1>t, <1>1, <2>2 DEF Enqueue, Move, BatchTypes
  <2>4. hand' \in [Handlers -> Seq(Nat)]
    BY <1>t, <1>1, <2>2 DEF Enqueue, BatchTypes
  <2>5. backlog' \in Seq(Nat) /\ replaced' \subseteq Nat
    <3>1. CASE stopped
      BY <1>t, <1>1, <3>1 DEF Enqueue, BatchTypes
    <3>2. CASE ~stopped /\ Merges(key)
      <4>1. backlog # <<>> /\ Len(backlog) \in DOMAIN backlog /\ backlog[Len(backlog)] \in Nat
        BY <1>t, <3>2, RngMember DEF Merges, BatchTypes
      <4>2. backlog' = [backlog EXCEPT ![Len(backlog)] = Len(sent')]
            /\ replaced' = replaced \cup {backlog[Len(backlog)]}
        BY <1>1, <3>2 DEF Enqueue
      <4>3. backlog' \in Seq(Nat)
        BY <1>t, <2>1, <4>1, <4>2, ExceptSeq, LenProperties DEF BatchTypes
      <4> QED BY <1>t, <4>1, <4>2, <4>3 DEF BatchTypes
    <3>3. CASE ~stopped /\ ~Merges(key)
      <4>1. backlog' = Append(backlog, Len(sent')) /\ replaced' = replaced
        BY <1>1, <3>3 DEF Enqueue
      <4> QED BY <1>t, <2>1, <4>1, AppendProperties DEF BatchTypes
    <3> QED BY <3>1, <3>2, <3>3
  <2> QED BY <1>t, <1>1, <2>1, <2>3, <2>4, <2>5 DEF Enqueue, chanVars, BatchTypes
<1>2. ASSUME NEW p \in Producers, RequestFlush(p) PROVE BatchTypes'
  BY <1>t, <1>2 DEF RequestFlush, Move, lockVars, BatchTypes
<1>3. ASSUME NEW p \in Handlers, Take(p) PROVE BatchTypes'
  BY <1>t, <1>3, EmptySeq DEF Take, Move, chanVars, BatchTypes
<1>4. ASSUME NEW p \in Handlers, Deliver(p) PROVE BatchTypes'
  <2>1. hand[p] \in Seq(Nat) /\ shown \o hand[p] \in Seq(Nat) /\ <<>> \in Seq(Nat)
    BY <1>t, ConcatProperties, EmptySeq DEF BatchTypes
  <2> QED BY <1>t, <1>4, <2>1 DEF Deliver, AfterEmit, Move, chanVars, lockVars, BatchTypes
<1>5. CASE LoopWake \/ LoopTick \/ LoopStop
  BY <1>t, <1>5 DEF LoopWake, LoopTick, LoopStop, Move, lockVars, chanVars, BatchTypes
<1>6. CASE Stop \/ CloseStop \/ StopEnd
  BY <1>t, <1>6 DEF Stop, CloseStop, StopEnd, Move, lockVars, chanVars, BatchTypes
<1>7. CASE UNCHANGED batchVars
  BY <1>t, <1>7 DEF batchVars, BatchTypes
<1> QED BY <1>1, <1>2, <1>3, <1>4, <1>5, <1>6, <1>7 DEF BatchNext, ProducerStep, LoopStep, StopStep, Handlers, Flushers

LEMMA AtPlaceKept == BatchIInv /\ [BatchNext]_batchVars => AtPlace'
<1> SUFFICES ASSUME BatchIInv, BatchNext \/ UNCHANGED batchVars PROVE AtPlace'
  BY DEF batchVars
<1> USE ProducersAssumption DEF Handlers, Flushers
<1>t. BatchTypes /\ Apart /\ AtPlace
  BY DEF BatchIInv
<1>1. ASSUME NEW p \in Producers, NEW key \in Keys \cup {NoKey}, NEW barrier \in BOOLEAN,
             Enqueue(p, key, barrier)
      PROVE  AtPlace'
  <2>1. CASE stopped
    <3>1. /\ hand' = [hand EXCEPT ![p] = <<Len(sent')>>] /\ at' = [at EXCEPT ![p] = "emit"]
          /\ backlog' = backlog /\ stopped' = stopped
      BY <1>1, <2>1 DEF Enqueue, Move
    <3> QED BY <1>t, <2>1, <3>1 DEF AtPlace, BatchTypes
  <2>2. CASE ~stopped
    <3>1. \E place \in {"request", "idle"} : at' = [at EXCEPT ![p] = place]
      BY <1>1, <2>2 DEF Enqueue, Move
    <3>2. hand' = hand /\ stopped' = stopped /\ hand[p] = <<>> /\ at["stop"] = "idle"
      BY <1>t, <1>1, <2>2 DEF Enqueue, AtPlace
    <3> QED BY <1>t, <2>2, <3>1, <3>2 DEF AtPlace, BatchTypes
  <2> QED BY <2>1, <2>2
<1>2. ASSUME NEW p \in Producers, RequestFlush(p) PROVE AtPlace'
  BY <1>t, <1>2 DEF RequestFlush, Move, lockVars, BatchTypes, AtPlace
<1>3. ASSUME NEW p \in Handlers, Take(p) PROVE AtPlace'
  <2>1. /\ p \in {"loop", "stop"} /\ backlog' = <<>> /\ stopped' = stopped
        /\ hand' = [hand EXCEPT ![p] = backlog]
        /\ at' = [at EXCEPT ![p] = IF at[p] = "flush" THEN "emit" ELSE "lastEmit"]
    BY <1>t, <1>3 DEF Take, Move, AtPlace
  <2> QED BY <1>t, <1>3, <2>1 DEF AtPlace, BatchTypes, Take
<1>4. ASSUME NEW p \in Handlers, Deliver(p) PROVE AtPlace'
  <2>1. /\ backlog' = backlog /\ stopped' = stopped /\ hand' = [hand EXCEPT ![p] = <<>>]
        /\ at' = [at EXCEPT ![p] = AfterEmit(p)] /\ at[p] \in {"emit", "lastEmit"}
    BY <1>4 DEF Deliver, Move, lockVars
  <2>2. CASE p \in Producers
    <3>1. AfterEmit(p) = "idle"
      BY <2>2 DEF AfterEmit
    <3> QED BY <1>t, <2>1, <2>2, <3>1 DEF AtPlace, BatchTypes
  <2>3. CASE p = "loop"
    <3>1. AfterEmit(p) \in {"select", "ended"}
      BY <2>3 DEF AfterEmit
    <3> QED BY <1>t, <2>1, <2>3, <3>1 DEF AtPlace, BatchTypes
  <2>4. CASE p = "stop"
    <3>1. AfterEmit(p) = "close"
      BY <2>4 DEF AfterEmit
    <3> QED BY <1>t, <2>1, <2>4, <3>1 DEF AtPlace, BatchTypes
  <2> QED BY <2>2, <2>3, <2>4
<1>5. CASE LoopWake \/ LoopTick \/ LoopStop
  BY <1>t, <1>5 DEF LoopWake, LoopTick, LoopStop, Move, lockVars, chanVars, BatchTypes, AtPlace
<1>6. CASE Stop \/ CloseStop \/ StopEnd
  BY <1>t, <1>6 DEF Stop, CloseStop, StopEnd, Move, lockVars, chanVars, BatchTypes, AtPlace
<1>7. CASE UNCHANGED batchVars
  BY <1>t, <1>7 DEF batchVars, AtPlace
<1> QED BY <1>1, <1>2, <1>3, <1>4, <1>5, <1>6, <1>7 DEF BatchNext, ProducerStep, LoopStep, StopStep

(* What a step does to none of the lists.                                   *)
Quietly == UNCHANGED <<backlog, hand, sent, shown, replaced>>

(* The next state's lists, one by one.                                      *)
LEMMA ApartNext ==
  ASSUME Distinct(backlog'), Distinct(shown'), \A p \in Handlers : Distinct(hand'[p]),
         \A n \in Rng(backlog') : n \notin Rng(shown') /\ n \notin replaced',
         \A n \in Rng(shown') : n \notin replaced',
         \A p \in Handlers : \A n \in Rng(hand'[p]) :
           /\ n \notin Rng(backlog') /\ n \notin Rng(shown') /\ n \notin replaced'
           /\ \A q \in Handlers : q # p => n \notin Rng(hand'[q]),
         \A n \in Nat : n \in DOMAIN sent' <=> \/ n \in Rng(backlog') \/ n \in Rng(shown') \/ n \in replaced'
                                              \/ \E p \in Handlers : n \in Rng(hand'[p])
  PROVE  Apart'
  BY DEF Apart, Rng, Distinct

LEMMA OrderedNext ==
  ASSUME ~stopped' =>
           /\ Increasing(shown') /\ Increasing(hand'["loop"]) /\ Increasing(backlog')
           /\ \A m \in Rng(shown') : /\ \A n \in Rng(hand'["loop"]) : m < n
                                     /\ \A n \in Rng(backlog') : m < n
           /\ \A m \in Rng(hand'["loop"]), n \in Rng(backlog') : m < n
           /\ backlog' # <<>> => backlog'[Len(backlog')] = Len(sent')
  PROVE  Ordered'
  BY DEF Ordered, Rng, Increasing

(* The queue after Enqueue under the lock, before Stop.                     *)
LEMMA Queued ==
  ASSUME BatchIInv, NEW p \in Producers, NEW key \in Keys \cup {NoKey}, NEW barrier \in BOOLEAN,
         Enqueue(p, key, barrier), ~stopped
  PROVE  /\ hand' = hand /\ shown' = shown /\ stopped' = stopped
         /\ backlog' # <<>> /\ backlog'[Len(backlog')] = Len(sent')
         /\ Distinct(backlog') /\ Len(sent) + 1 \in Rng(backlog')
         /\ Increasing(backlog) /\ (\A n \in Rng(backlog) : n < Len(sent) + 1) => Increasing(backlog')
         /\ \/ /\ Merges(key) /\ replaced' = replaced \cup {backlog[Len(backlog)]}
               /\ Len(backlog') = Len(backlog) /\ backlog # <<>> /\ backlog[Len(backlog)] \in Rng(backlog)
               /\ Rng(backlog') = (Rng(backlog) \ {backlog[Len(backlog)]}) \cup {Len(sent) + 1}
            \/ /\ ~Merges(key) /\ replaced' = replaced /\ Len(backlog') = Len(backlog) + 1
               /\ Rng(backlog') = Rng(backlog) \cup {Len(sent) + 1}
<1>1. BatchTypes /\ Apart /\ AtPlace /\ backlog \in Seq(Nat) /\ Distinct(backlog)
  BY DEF BatchIInv, BatchTypes, Apart
<1>2. Len(sent) + 1 \in Nat /\ Len(sent) + 1 \notin Rng(backlog) /\ Len(sent') = Len(sent) + 1
  BY <1>1, NewNumber, NewEvent DEF Enqueue
<1>3. hand' = hand /\ shown' = shown /\ stopped' = stopped
  BY DEF Enqueue
<1>4. CASE Merges(key)
  <2>1. backlog # <<>> /\ replaced' = replaced \cup {backlog[Len(backlog)]}
        /\ backlog' = [backlog EXCEPT ![Len(backlog)] = Len(sent) + 1]
    BY <1>2, <1>4 DEF Enqueue, Merges
  <2> DEFINE N == Len(sent) + 1
  <2>2. /\ backlog' # <<>> /\ Len(backlog') = Len(backlog) /\ backlog'[Len(backlog)] = N
        /\ backlog[Len(backlog)] \in Rng(backlog) /\ Distinct(backlog')
        /\ Rng(backlog') = (Rng(backlog) \ {backlog[Len(backlog)]}) \cup {N}
        /\ Increasing(backlog) /\ (\A n \in Rng(backlog) : n < N) => Increasing(backlog')
    <3>1. ASSUME NEW r, r = [backlog EXCEPT ![Len(backlog)] = N]
          PROVE  /\ r # <<>> /\ Len(r) = Len(backlog) /\ r[Len(backlog)] = N
                 /\ backlog[Len(backlog)] \in Rng(backlog) /\ Distinct(r)
                 /\ Rng(r) = (Rng(backlog) \ {backlog[Len(backlog)]}) \cup {N}
                 /\ Increasing(backlog) /\ (\A n \in Rng(backlog) : n < N) => Increasing(r)
      <4>1. N \in Nat /\ N \notin Rng(backlog)
        BY <1>2
      <4> HIDE DEF N
      <4> QED BY <1>1, <2>1, <3>1, <4>1, RngReplaced
    <3> QED BY <2>1, <3>1
  <2> QED BY <1>2, <1>3, <1>4, <2>1, <2>2
<1>5. CASE ~Merges(key)
  <2>1. replaced' = replaced /\ backlog' = Append(backlog, Len(sent) + 1)
    BY <1>2, <1>5 DEF Enqueue
  <2> QED BY <1>1, <1>2, <1>3, <1>5, <2>1, RngAppended
<1> QED BY <1>4, <1>5

LEMMA ApartKept == BatchIInv /\ [BatchNext]_batchVars => Apart'
<1> SUFFICES ASSUME BatchIInv, BatchNext \/ UNCHANGED batchVars PROVE Apart'
  BY DEF batchVars
<1>t. BatchTypes /\ Apart /\ AtPlace /\ Rng(<<>>) = {} /\ Distinct(<<>>)
  BY RngEmpty DEF BatchIInv
<1>p. \A p \in Producers : p \in Handlers
  BY DEF Handlers
<1>1. ASSUME NEW p \in Producers, NEW key \in Keys \cup {NoKey}, NEW barrier \in BOOLEAN,
             Enqueue(p, key, barrier)
      PROVE  Apart'
  <2> DEFINE N == Len(sent) + 1
  <2>1. /\ N \in Nat /\ N \notin Rng(backlog) /\ N \notin Rng(shown) /\ N \notin replaced
        /\ \A q \in Handlers : N \notin Rng(hand[q])
    BY <1>t, NewNumber
  <2>2. Len(sent') = N /\ DOMAIN sent' = DOMAIN sent \cup {N} /\ shown' = shown
    BY <1>t, <1>1, NewEvent DEF Enqueue
  <2>3. CASE stopped
    <3>1. backlog' = backlog /\ replaced' = replaced /\ hand' = [hand EXCEPT ![p] = <<N>>]
      BY <1>1, <2>2, <2>3 DEF Enqueue
    <3>2. hand[p] = <<>> /\ Rng(hand[p]) = {}
      BY <1>t, <1>p, <1>1 DEF Enqueue, AtPlace
    <3>3. Rng(<<N>>) = {N} /\ Distinct(<<N>>)
      BY DEF Rng, Distinct
    <3>4. hand'[p] = <<N>> /\ \A q \in Handlers : q # p => hand'[q] = hand[q]
      BY <1>t, <1>p, <3>1 DEF BatchTypes
    <3> HIDE DEF N
    <3>5. Rng(hand'[p]) = {N} /\ Distinct(hand'[p]) /\ p \in Handlers
      BY <1>p, <3>3, <3>4
    <3>6. /\ Distinct(backlog') /\ Distinct(shown') /\ \A q \in Handlers : Distinct(hand'[q])
          /\ \A n \in Rng(backlog') : n \notin Rng(shown') /\ n \notin replaced'
          /\ \A n \in Rng(shown') : n \notin replaced'
      BY <1>t, <2>2, <3>1, <3>4, <3>5 DEF Apart
    <3>7. ASSUME NEW q \in Handlers, NEW n \in Rng(hand'[q])
          PROVE  /\ n \notin Rng(backlog') /\ n \notin Rng(shown') /\ n \notin replaced'
                 /\ \A r \in Handlers : r # q => n \notin Rng(hand'[r])
      BY <1>t, <2>1, <2>2, <3>1, <3>4, <3>5, <3>7 DEF Apart
    <3>8. ASSUME NEW n \in Nat
          PROVE  n \in DOMAIN sent' <=> \/ n \in Rng(backlog') \/ n \in Rng(shown') \/ n \in replaced'
                                       \/ \E q \in Handlers : n \in Rng(hand'[q])
      BY <1>t, <2>1, <2>2, <3>1, <3>2, <3>4, <3>5 DEF Apart
    <3> QED BY <3>6, <3>7, <3>8, ApartNext
  <2>4. CASE ~stopped
    <3>1. Distinct(backlog') /\ hand' = hand
      BY <1>1, <2>4, Queued
    <3>2. \/ /\ replaced' = replaced \cup {backlog[Len(backlog)]} /\ backlog[Len(backlog)] \in Rng(backlog)
             /\ Rng(backlog') = (Rng(backlog) \ {backlog[Len(backlog)]}) \cup {N}
          \/ replaced' = replaced /\ Rng(backlog') = Rng(backlog) \cup {N}
      BY <1>1, <2>4, Queued
    <3> HIDE DEF N
    <3>3. /\ \A n \in Rng(backlog') : n \notin Rng(shown') /\ n \notin replaced'
          /\ \A n \in Rng(shown') : n \notin replaced'
      BY <1>t, <2>1, <2>2, <3>2 DEF Apart
    <3>4. ASSUME NEW q \in Handlers, NEW n \in Rng(hand[q])
          PROVE  /\ n \notin Rng(backlog') /\ n \notin Rng(shown') /\ n \notin replaced'
                 /\ \A r \in Handlers : r # q => n \notin Rng(hand[r])
      BY <1>t, <2>1, <2>2, <3>2 DEF Apart
    <3>5. ASSUME NEW n \in Nat
          PROVE  n \in DOMAIN sent' <=> \/ n \in Rng(backlog') \/ n \in Rng(shown') \/ n \in replaced'
                                       \/ \E q \in Handlers : n \in Rng(hand[q])
      BY <1>t, <2>1, <2>2, <3>2 DEF Apart
    <3>6. Distinct(shown') /\ \A q \in Handlers : Distinct(hand[q])
      BY <1>t, <2>2 DEF Apart
    <3> QED BY <3>1, <3>3, <3>4, <3>5, <3>6, ApartNext
  <2> QED BY <2>3, <2>4
<1>2. CASE Quietly
  BY <1>t, <1>2 DEF Quietly, Apart, Rng, Distinct
<1>3. ASSUME NEW p \in Handlers, Take(p) PROVE Apart'
  <2>1. /\ backlog' = <<>> /\ shown' = shown /\ replaced' = replaced /\ sent' = sent
        /\ hand'[p] = backlog /\ \A q \in Handlers : q # p => hand'[q] = hand[q]
    BY <1>t, <1>3 DEF Take, BatchTypes
  <2>2. hand[p] = <<>> /\ Rng(hand[p]) = {} /\ Rng(backlog') = {} /\ Distinct(backlog')
    BY <1>t, <1>3, <2>1 DEF Take, AtPlace
  <2> QED BY <1>t, <1>3, <2>1, <2>2, ApartNext DEF Apart
<1>4. ASSUME NEW p \in Handlers, Deliver(p) PROVE Apart'
  <2>1. /\ backlog' = backlog /\ shown' = shown \o hand[p] /\ replaced' = replaced /\ sent' = sent
        /\ hand'[p] = <<>> /\ \A q \in Handlers : q # p => hand'[q] = hand[q]
    BY <1>t, <1>4 DEF Deliver, lockVars, BatchTypes
  <2>2. Rng(shown') = Rng(shown) \cup Rng(hand[p]) /\ Distinct(shown')
    BY <1>t, <1>4, <2>1, RngJoined DEF Apart, BatchTypes
  <2>3. Rng(hand'[p]) = {} /\ Distinct(hand'[p])
    BY <1>t, <2>1
  <2> QED BY <1>t, <1>4, <2>1, <2>2, <2>3, ApartNext DEF Apart
<1>5. ASSUME NEW p \in Producers, RequestFlush(p) PROVE Quietly
  BY <1>5 DEF RequestFlush, lockVars, Quietly
<1>6. LoopWake \/ LoopTick \/ LoopStop \/ Stop \/ CloseStop \/ StopEnd \/ UNCHANGED batchVars => Quietly
  BY DEF LoopWake, LoopTick, LoopStop, Stop, CloseStop, StopEnd, lockVars, batchVars, Quietly
<1> QED BY <1>1, <1>2, <1>3, <1>4, <1>5, <1>6 DEF BatchNext, ProducerStep, LoopStep, StopStep, Handlers, Flushers

LEMMA OrderedKept == BatchIInv /\ [BatchNext]_batchVars => Ordered'
<1> SUFFICES ASSUME BatchIInv, BatchNext \/ UNCHANGED batchVars, ~stopped' PROVE Ordered'
  BY DEF batchVars, Ordered
<1>t. BatchTypes /\ Apart /\ AtPlace /\ Ordered /\ "loop" \in Handlers /\ "stop" \in Handlers
  BY DEF BatchIInv, Handlers, Flushers
<1>e. Rng(<<>>) = {} /\ Increasing(<<>>)
  BY RngEmpty
<1>o. ASSUME ~stopped PROVE Ordered!2
  BY <1>t, <1>o DEF Ordered
<1>p. \A p \in Producers : p \in Handlers /\ p # "loop"
  BY ProducersAssumption DEF Handlers
<1>1. ASSUME NEW p \in Producers, NEW key \in Keys \cup {NoKey}, NEW barrier \in BOOLEAN,
             Enqueue(p, key, barrier)
      PROVE  Ordered'
  <2> DEFINE N == Len(sent) + 1
  <2>1. ~stopped
    BY <1>1 DEF Enqueue
  <2>2. N \in Nat /\ (\A n \in Rng(backlog) : n < N) /\ (\A n \in Rng(shown) : n < N)
        /\ \A n \in Rng(hand["loop"]) : n < N
    <3>1. \A n \in DOMAIN sent : n < N
      BY <1>t, NewNumber
    <3>2. \A n \in Rng(backlog) \cup Rng(shown) \cup Rng(hand["loop"]) : n \in Nat
      BY <1>t, RngMember DEF BatchTypes
    <3>3. N \in Nat
      BY <1>t, NewNumber
    <3> HIDE DEF N
    <3> QED BY <1>t, <3>1, <3>2, <3>3 DEF Apart
  <2>3. /\ hand' = hand /\ shown' = shown /\ backlog' # <<>> /\ backlog'[Len(backlog')] = Len(sent')
        /\ Increasing(backlog)  => Increasing(backlog')
    BY <1>1, <2>1, <2>2, Queued
  <2>4. Rng(backlog') \subseteq Rng(backlog) \cup {N}
    BY <1>1, <2>1, Queued
  <2> HIDE DEF N
  <2> QED BY <1>o, <2>1, <2>2, <2>3, <2>4, OrderedNext
<1>2. CASE Quietly /\ stopped' = stopped
  BY <1>t, <1>2 DEF Quietly, Ordered, Rng, Increasing
<1>3. ASSUME NEW p \in Handlers, Take(p) PROVE Ordered'
  <2>1. p = "loop" /\ ~stopped
    BY <1>t, <1>3 DEF Take, AtPlace, Handlers, Flushers
  <2>2. /\ backlog' = <<>> /\ shown' = shown /\ sent' = sent /\ hand'["loop"] = backlog
        /\ hand["loop"] = <<>>
    BY <1>t, <1>3, <2>1 DEF Take, BatchTypes, AtPlace
  <2>3. Rng(backlog') = {} /\ Increasing(backlog')
    BY <1>e, <2>2
  <2> QED BY <1>o, <2>1, <2>2, <2>3, OrderedNext
<1>4. ASSUME NEW p \in Handlers, Deliver(p) PROVE Ordered'
  <2>1. p = "loop" /\ ~stopped
    BY <1>t, <1>4 DEF Deliver, lockVars, AtPlace, Handlers, Flushers
  <2>2. /\ backlog' = backlog /\ shown' = shown \o hand["loop"] /\ sent' = sent /\ hand'["loop"] = <<>>
    BY <1>t, <1>4, <2>1 DEF Deliver, lockVars, BatchTypes
  <2>3. Rng(shown') = Rng(shown) \cup Rng(hand["loop"]) /\ Increasing(shown')
    BY <1>t, <1>o, <2>1, <2>2, RngJoined DEF Apart, BatchTypes
  <2>4. Rng(hand'["loop"]) = {} /\ Increasing(hand'["loop"])
    BY <1>e, <2>2
  <2> QED BY <1>o, <2>1, <2>2, <2>3, <2>4, OrderedNext
<1>5. ASSUME NEW p \in Producers, RequestFlush(p) PROVE Quietly /\ stopped' = stopped
  BY <1>5 DEF RequestFlush, lockVars, Quietly
<1>6. LoopWake \/ LoopTick \/ LoopStop \/ CloseStop \/ StopEnd \/ UNCHANGED batchVars
        => Quietly /\ stopped' = stopped
  BY DEF LoopWake, LoopTick, LoopStop, CloseStop, StopEnd, lockVars, batchVars, Quietly
<1>7. ~Stop
  BY DEF Stop
<1> QED BY <1>1, <1>2, <1>3, <1>4, <1>5, <1>6, <1>7 DEF BatchNext, ProducerStep, LoopStep, StopStep, Handlers, Flushers

LEMMA ReplacedKept == BatchIInv /\ [BatchNext]_batchVars => ReplacedByNext'
<1> SUFFICES ASSUME BatchIInv, BatchNext \/ UNCHANGED batchVars PROVE ReplacedByNext'
  BY DEF batchVars
<1>t. BatchTypes /\ Apart /\ AtPlace /\ Ordered /\ ReplacedByNext
  BY DEF BatchIInv
<1>1. ASSUME NEW p \in Producers, NEW key \in Keys \cup {NoKey}, NEW barrier \in BOOLEAN,
             Enqueue(p, key, barrier)
      PROVE  ReplacedByNext'
  <2> DEFINE N == Len(sent) + 1
  <2>1. /\ Len(sent) \in Nat /\ DOMAIN sent = 1 .. Len(sent) /\ N \notin replaced
        /\ replaced \subseteq DOMAIN sent
    BY <1>t, NewNumber DEF Apart, BatchTypes
  <2>2. /\ DOMAIN sent' = DOMAIN sent \cup {N} /\ \A i \in DOMAIN sent : sent'[i] = sent[i]
        /\ sent'[N].key = key
    BY <1>t, <1>1, NewEvent DEF Enqueue
  <2>a. /\ N > Len(sent) /\ N # Len(sent) /\ \A n \in DOMAIN sent : n < N /\ n \in Nat
    <3>1. Len(sent) \in Nat /\ N = Len(sent) + 1
      BY <2>1
    <3>2. N > Len(sent) /\ N # Len(sent)
      BY <3>1
    <3> HIDE DEF N
    <3>3. \A n \in DOMAIN sent : n < N /\ n \in Nat
      BY <2>1, <3>1
    <3> QED BY <3>2, <3>3
  <2>b. ASSUME NEW n \in DOMAIN sent, NEW k \in n + 1 .. N - 1
        PROVE  k = Len(sent) \/ k \in n + 1 .. Len(sent) - 1
    <3>1. Len(sent) \in Nat /\ n \in Nat
      BY <2>1
    <3>2. k \in Nat /\ k <= Len(sent) /\ n + 1 <= k
      BY <3>1
    <3> QED BY <3>1, <3>2
  <2>3. CASE replaced' = replaced
    BY <1>t, <2>1, <2>2, <2>3 DEF ReplacedByNext
  <2>4. CASE ~stopped /\ Merges(key)
    <3>1. /\ replaced' = replaced \cup {backlog[Len(backlog)]} /\ backlog # <<>>
      BY <1>1, <2>4, Queued
    <3>2. backlog[Len(backlog)] = Len(sent) /\ Len(sent) \in DOMAIN sent /\ Len(sent) \notin replaced
      <4>1. backlog[Len(backlog)] \in Rng(backlog) /\ backlog[Len(backlog)] \in Nat
        BY <1>t, <3>1, RngMember DEF BatchTypes
      <4>2. backlog[Len(backlog)] = Len(sent)
        BY <1>t, <2>4, <3>1 DEF Ordered
      <4> QED BY <1>t, <4>1, <4>2 DEF Apart
    <3>3. sent[Len(sent)].key = key
      BY <2>4, <3>2 DEF Merges
    <3>4. ASSUME NEW n \in replaced'
          PROVE  \E m \in DOMAIN sent' :
                   /\ m > n /\ sent'[m].key = sent'[n].key /\ m \notin replaced'
                   /\ \A k \in n + 1 .. m - 1 : k \in replaced'
      <4>1. CASE n = Len(sent)
        <5>1. N \in DOMAIN sent' /\ N > n /\ sent'[N].key = sent'[n].key /\ N \notin replaced'
          <6>1. N \in DOMAIN sent' /\ sent'[N].key = key /\ sent'[n] = sent[Len(sent)]
            BY <2>2, <3>2, <4>1
          <6>2. N \notin replaced' /\ N > n
            BY <2>1, <2>a, <3>1, <3>2, <4>1
          <6> QED BY <3>3, <6>1, <6>2
        <5>2. \A k \in n + 1 .. N - 1 : k \in replaced'
          BY <2>1, <4>1
        <5> QED BY <5>1, <5>2
      <4>2. CASE n # Len(sent)
        <5>1. n \in replaced /\ n \in DOMAIN sent
          BY <2>1, <3>1, <3>2, <4>2
        <5>2. PICK m \in DOMAIN sent : /\ m > n /\ sent[m].key = sent[n].key /\ m \notin replaced
                                       /\ \A k \in n + 1 .. m - 1 : k \in replaced
          BY <1>t, <5>1 DEF ReplacedByNext
        <5>3. CASE m # Len(sent)
          <6>1. m \in DOMAIN sent' /\ m > n /\ sent'[m].key = sent'[n].key /\ m \notin replaced'
            BY <2>2, <3>1, <3>2, <5>1, <5>2, <5>3
          <6> QED BY <3>1, <5>2, <6>1
        <5>4. CASE m = Len(sent)
          <6>1. N \in DOMAIN sent' /\ sent'[N].key = sent'[n].key
            BY <2>2, <3>3, <5>1, <5>2, <5>4
          <6>2. N > n /\ N \notin replaced'
            BY <2>1, <2>a, <3>1, <3>2, <5>1
          <6>3. \A k \in n + 1 .. N - 1 : k \in replaced'
            <7> TAKE k \in n + 1 .. N - 1
            <7>1. k = Len(sent) \/ k \in n + 1 .. Len(sent) - 1
              BY <2>b, <5>1
            <7> QED BY <3>1, <3>2, <5>2, <5>4, <7>1
          <6> QED BY <6>1, <6>2, <6>3
        <5> QED BY <5>3, <5>4
      <4> QED BY <4>1, <4>2
    <3> HIDE DEF N
    <3> QED BY <3>4 DEF ReplacedByNext
  <2>5. (stopped \/ ~Merges(key)) => replaced' = replaced
    BY <1>1 DEF Enqueue
  <2> QED BY <2>3, <2>4, <2>5
<1>2. CASE sent' = sent /\ replaced' = replaced
  BY <1>t, <1>2 DEF ReplacedByNext
<1>3. ASSUME NEW p \in Handlers, RequestFlush(p) \/ Take(p) \/ Deliver(p)
      PROVE  sent' = sent /\ replaced' = replaced
  BY <1>3 DEF RequestFlush, Take, Deliver
<1>4. LoopWake \/ LoopTick \/ LoopStop \/ Stop \/ CloseStop \/ StopEnd \/ UNCHANGED batchVars
        => sent' = sent /\ replaced' = replaced
  BY DEF LoopWake, LoopTick, LoopStop, Stop, CloseStop, StopEnd, batchVars
<1> QED BY <1>1, <1>2, <1>3, <1>4 DEF BatchNext, ProducerStep, LoopStep, StopStep, Handlers, Flushers

LEMMA FlushKept == BatchIInv /\ [BatchNext]_batchVars => FlushDue'
<1> SUFFICES ASSUME BatchIInv, BatchNext \/ UNCHANGED batchVars PROVE FlushDue'
  BY DEF batchVars
<1> USE ProducersAssumption
<1>t. BatchTypes /\ Apart /\ AtPlace /\ FlushDue /\ "loop" \in Handlers /\ \A p \in Producers : p \in Handlers
  BY DEF BatchIInv, Handlers, Flushers
<1>d. ASSUME FlushPending' PROVE FlushDue'
  BY <1>d DEF FlushDue
<1>1. ASSUME NEW p \in Producers, NEW key \in Keys \cup {NoKey}, NEW barrier \in BOOLEAN,
             Enqueue(p, key, barrier)
      PROVE  FlushDue'
  <2>1. CASE stopped
    BY <1>1, <1>d, <2>1 DEF Enqueue, FlushPending
  <2>2. CASE ~stopped /\ AsksFlush(key, barrier)
    <3>1. at' = [at EXCEPT ![p] = "request"]
      BY <1>1, <2>2 DEF Enqueue, Move
    <3>2. at'[p] = "request"
      BY <1>t, <3>1 DEF BatchTypes
    <3> QED BY <1>d, <3>2 DEF FlushPending
  <2>3. CASE ~stopped /\ ~AsksFlush(key, barrier)
    <3>1. SUFFICES ASSUME Len(backlog') >= MaxQueue \/ \E i \in DOMAIN backlog' : sent'[backlog'[i]].barrier
                   PROVE  FlushPending'
      BY DEF FlushDue
    <3>2. Len(backlog) >= MaxQueue \/ \E i \in DOMAIN backlog : sent[backlog[i]].barrier
      <4>1. CASE Len(backlog') >= MaxQueue
        <5>1. Merges(key) \/ ~(Len(backlog) + 1 >= MaxQueue)
          BY <2>3 DEF AsksFlush
        <5>2. Merges(key) => Len(backlog') = Len(backlog)
          BY <1>1, <2>3, Queued
        <5>3. ~Merges(key) => Len(backlog') = Len(backlog) + 1
          BY <1>1, <2>3, Queued
        <5> QED BY <4>1, <5>1, <5>2, <5>3
      <4>2. ASSUME NEW i \in DOMAIN backlog', sent'[backlog'[i]].barrier
            PROVE  \E j \in DOMAIN backlog : sent[backlog[j]].barrier
        <5>1. sent'[Len(sent) + 1].barrier = barrier /\ ~barrier
          BY <1>t, <1>1, <2>3, NewEvent DEF Enqueue, AsksFlush
        <5>2. backlog'[i] \in Rng(backlog')
          BY DEF Rng
        <5>3. Rng(backlog') \subseteq Rng(backlog) \cup {Len(sent) + 1}
          BY <1>1, <2>3, Queued
        <5>4. backlog'[i] \in Rng(backlog)
          BY <4>2, <5>1, <5>2, <5>3
        <5>5. backlog'[i] \in DOMAIN sent
          BY <1>t, <5>4, RngMember DEF Apart, BatchTypes
        <5>6. sent'[backlog'[i]] = sent[backlog'[i]]
          BY <1>t, <1>1, <5>5, NewEvent DEF Enqueue
        <5>7. PICK j \in DOMAIN backlog : backlog[j] = backlog'[i]
          BY <5>4 DEF Rng
        <5> QED BY <4>2, <5>6, <5>7
      <4> QED BY <3>1, <4>1, <4>2
    <3>3. FlushPending
      BY <1>t, <3>2 DEF FlushDue
    <3>4. wake' = wake /\ stopped' = stopped /\ \A q \in Handlers : q # p => at'[q] = at[q]
      BY <1>t, <1>1, <2>3 DEF Enqueue, Move, chanVars, BatchTypes
    <3>5. at[p] = "idle" /\ p # "loop"
      BY <1>1 DEF Enqueue
    <3> QED BY <1>t, <3>3, <3>4, <3>5 DEF FlushPending
  <2> QED BY <2>1, <2>2, <2>3
<1>2. ASSUME NEW p \in Producers, RequestFlush(p) PROVE FlushDue'
  BY <1>2, <1>d DEF RequestFlush, FlushPending
<1>3. ASSUME NEW p \in Handlers, Take(p) PROVE FlushDue'
  BY <1>3, MaxQueueAssumption, EmptySeq DEF Take, FlushDue
<1>4. CASE UNCHANGED <<backlog, sent>> /\ (FlushPending => FlushPending')
  BY <1>t, <1>4 DEF FlushDue
<1>5. ASSUME NEW p \in Handlers, Deliver(p) PROVE UNCHANGED <<backlog, sent>> /\ (FlushPending => FlushPending')
  <2>1. wake' = wake /\ stopped' = stopped /\ UNCHANGED <<backlog, sent>> /\ at[p] \in {"emit", "lastEmit"}
        /\ \A q \in Handlers : q # p => at'[q] = at[q]
    BY <1>t, <1>5 DEF Deliver, Move, lockVars, chanVars, BatchTypes
  <2> QED BY <1>t, <2>1 DEF FlushPending
<1>6. CASE LoopWake \/ LoopTick
  <2>1. at'["loop"] = "flush"
    BY <1>t, <1>6 DEF LoopWake, LoopTick, Move, BatchTypes
  <2> QED BY <1>d, <2>1 DEF FlushPending
<1>7. LoopStop => UNCHANGED <<backlog, sent>> /\ (FlushPending => FlushPending')
  BY <1>t DEF LoopStop, Move, lockVars, chanVars, BatchTypes, FlushPending
<1>8. CASE Stop
  BY <1>d, <1>8 DEF Stop, FlushPending
<1>9. CloseStop \/ StopEnd => UNCHANGED <<backlog, sent>> /\ (FlushPending => FlushPending')
  BY <1>t DEF CloseStop, StopEnd, Move, lockVars, chanVars, BatchTypes, FlushPending
<1>10. UNCHANGED batchVars => UNCHANGED <<backlog, sent>> /\ (FlushPending => FlushPending')
  BY DEF batchVars, FlushPending
<1> QED BY <1>1, <1>2, <1>3, <1>4, <1>5, <1>6, <1>7, <1>8, <1>9, <1>10
        DEF BatchNext, ProducerStep, LoopStep, StopStep, Handlers, Flushers

LEMMA BatchStep == BatchIInv /\ [BatchNext]_batchVars => BatchIInv'
  BY TypesKept, AtPlaceKept, ApartKept, OrderedKept, ReplacedKept, FlushKept DEF BatchIInv

(* How often a number is in a list that holds none twice.                   *)
LEMMA InListCount ==
  ASSUME NEW q \in Seq(Nat), Distinct(q), NEW n
  PROVE  /\ Cardinality(InList(n, q)) = IF n \in Rng(q) THEN 1 ELSE 0
         /\ InList(n, q) # {} <=> n \in Rng(q)
<1>1. CASE n \in Rng(q)
  <2>1. PICK i \in DOMAIN q : q[i] = n
    BY <1>1 DEF Rng
  <2>2. InList(n, q) = {i}
    BY <2>1 DEF InList, Distinct
  <2> QED BY <1>1, <2>2, FS_Singleton
<1>2. CASE n \notin Rng(q)
  <2>1. InList(n, q) = {}
    BY <1>2 DEF InList, Rng
  <2> QED BY <1>2, <2>1, FS_EmptySet
<1> QED BY <1>1, <1>2

LEMMA BatchImplies == BatchIInv => Delivers
<1> SUFFICES ASSUME BatchIInv PROVE Delivers
  OBVIOUS
<1>t. BatchTypes /\ Apart /\ AtPlace /\ Ordered /\ ReplacedByNext /\ FlushDue
  BY DEF BatchIInv
<1>1. EventOnce
  <2> SUFFICES ASSUME NEW n \in DOMAIN sent
               PROVE  Cardinality(InList(n, backlog)) + Cardinality(InList(n, shown))
                      + Cardinality({p \in Handlers : InList(n, hand[p]) # {}})
                      + (IF n \in replaced THEN 1 ELSE 0) = 1
    BY DEF EventOnce
  <2>1. n \in Nat
    BY <1>t, NewNumber
  <2>2. /\ Cardinality(InList(n, backlog)) = IF n \in Rng(backlog) THEN 1 ELSE 0
        /\ Cardinality(InList(n, shown)) = IF n \in Rng(shown) THEN 1 ELSE 0
    BY <1>t, InListCount DEF Apart, BatchTypes
  <2>3. {p \in Handlers : InList(n, hand[p]) # {}} = {p \in Handlers : n \in Rng(hand[p])}
    BY <1>t, InListCount DEF Apart, BatchTypes
  <2>4. CASE \E p \in Handlers : n \in Rng(hand[p])
    <3>1. PICK p \in Handlers : n \in Rng(hand[p])
      BY <2>4
    <3>2. {r \in Handlers : n \in Rng(hand[r])} = {p}
      BY <1>t, <3>1 DEF Apart
    <3>3. Cardinality({r \in Handlers : InList(n, hand[r]) # {}}) = 1
      BY <2>3, <3>2, FS_Singleton
    <3>4. n \notin Rng(backlog) /\ n \notin Rng(shown) /\ n \notin replaced
      BY <1>t, <3>1 DEF Apart
    <3> QED BY <2>2, <3>3, <3>4
  <2>5. CASE ~\E p \in Handlers : n \in Rng(hand[p])
    <3>1. {p \in Handlers : n \in Rng(hand[p])} = {}
      BY <2>5
    <3>2. Cardinality({p \in Handlers : InList(n, hand[p]) # {}}) = 0
      BY <2>3, <3>1, FS_EmptySet
    <3>3. n \in Rng(backlog) \/ n \in Rng(shown) \/ n \in replaced
      BY <1>t, <2>1, <2>5 DEF Apart
    <3>4. /\ n \in Rng(backlog) => n \notin Rng(shown) /\ n \notin replaced
          /\ n \in Rng(shown) => n \notin replaced
      BY <1>t DEF Apart
    <3> QED BY <2>2, <3>2, <3>3, <3>4
  <2> QED BY <2>4, <2>5
<1>2. InOrder
  BY <1>t DEF InOrder, Ordered, Increasing
<1>3. StopDrains
  BY <1>t DEF StopDrains, AtPlace, Handlers, Flushers
<1> QED BY <1>t, <1>1, <1>2, <1>3 DEF Delivers

(* The frontend is promised every session event once: shown, replaced by    *)
(* the next event of its key, or still queued or in a goroutine's hand; in  *)
(* order until Stop; a barrier event and a full queue with a flush on its   *)
(* way; and nothing left behind when Stop returns.                          *)
THEOREM DeliversHolds == BatchSpec => []Delivers
<1> QED BY BatchInitial, BatchStep, BatchImplies, PTL DEF BatchSpec
=============================================================================
