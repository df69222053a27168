------------------------ MODULE ResultBatcherProofs ------------------------
(***************************************************************************)
(* Theorems about ResultBatcher for every number of threads, streams,      *)
(* partial results, bursts and errors, and for a HAL that may report on a  *)
(* burst before it is registered: that every item is accounted for and     *)
(* sent, in order and under its frame, and that SessionResults implements  *)
(* FrameResults.                                                           *)
(***************************************************************************)
EXTENDS SessionResults, FiniteSetTheorems, TLAPS

(* A batch under its lock, as the operators of the batch transform it.     *)
BatchState == [queue : [BatchedClass -> Seq(Nat)],
               delivered : SUBSET BatchedClass,
               calls : Seq(Call)]

-----------------------------------------------------------------------------
(* How the classes of items are related.                                    *)
LEMMA Classes ==
  /\ Shutter \in BatchedClass /\ BatchedBuffers \subseteq BatchedClass
  /\ PartialClass \subseteq BatchedClass /\ BatchedClass \subseteq Class
  /\ Error \notin Class
  /\ Partial(NumPartial) \in PartialClass
BY ConstantsAssumption
   DEF Class, BatchedClass, BatchedBuffers, PartialClass, Shutter, Error, Partial, Buffer

(* The frames of the bursts are intervals, one after the other.             *)
LEMMA Bursts ==
  /\ Batch = 1 .. Len(Burst) /\ Len(Burst) \in Nat
  /\ \A b \in Batch : /\ Burst[b].first \in Nat \ {0} /\ Burst[b].last \in Nat \ {0}
                      /\ Burst[b].first <= Burst[b].last
  /\ \A a, b \in Batch : a < b => Burst[a].last < Burst[b].first
<1>1. Batch = 1 .. Len(Burst) /\ Len(Burst) \in Nat
  BY ConstantsAssumption DEF Batch
<1>2. \A b \in Batch : Burst[b] \in [first : Nat \ {0}, last : Nat \ {0}]
  <2> DEFINE Interval == [first : Nat \ {0}, last : Nat \ {0}]
  <2>1. Burst \in Seq(Interval)
    BY ConstantsAssumption
  <2> HIDE DEF Interval
  <2>2. \A b \in Batch : Burst[b] \in Interval
    BY <1>1, <2>1
  <2>3. QED
    BY <2>2 DEF Interval
<1>3. QED
  BY <1>1, <1>2, ConstantsAssumption DEF Batch

(* What is sent along with a class: itself and earlier parts.               *)
LEMMA UpToClosed ==
  ASSUME NEW c \in Class
  PROVE  /\ c \in UpTo(c) /\ UpTo(c) \subseteq Class
         /\ c \in BatchedClass => UpTo(c) \subseteq BatchedClass
         /\ c \notin PartialClass => UpTo(c) = {c}
<1>1. CASE c \in PartialClass
  <2>1. c[2] <= c[2]
    BY <1>1, ConstantsAssumption DEF PartialClass, Partial
  <2>2. QED
    BY <1>1, <2>1, Classes DEF UpTo
<1>2. CASE c \notin PartialClass
  BY <1>2 DEF UpTo
<1>3. QED
  BY <1>1, <1>2

(* The last part of the metadata takes all parts along.                     *)
LEMMA AllPartials == UpTo(Partial(NumPartial)) = PartialClass
BY Classes, ConstantsAssumption DEF UpTo, PartialClass, Partial

(* The helpers that collect calls yield calls.                              *)
LEMMA AddCallType ==
  ASSUME NEW calls \in Seq(Call), NEW process \in BOOLEAN, NEW items \in SUBSET Delivery
  PROVE  AddCall(calls, process, items) \in Seq(Call)
<1>1. [process |-> process, items |-> items] \in Call
  BY DEF Call
<1>2. QED
  BY <1>1 DEF AddCall

(* Items keep the number of their own frame.                                *)
LEMMA PlainType ==
  ASSUME NEW items \in SUBSET Item
  PROVE  Plain(items) \in SUBSET Delivery
BY DEF Plain, Item, Delivery

(* A queue holds frames.                                                    *)
LEMMA ElemsType ==
  ASSUME NEW q \in Seq(Nat)
  PROVE  Elems(q) \subseteq Nat
BY DEF Elems

(* A queue without positions is empty.                                      *)
LEMMA EmptyDomain ==
  ASSUME NEW q \in Seq(Nat), \A i \in DOMAIN q : FALSE
  PROVE  q = <<>>
<1>1. Len(q) \in Nat /\ DOMAIN q = 1 .. Len(q)
  OBVIOUS
<1>2. 1 \notin 1 .. Len(q)
  BY <1>1
<1>3. Len(q) = 0
  BY <1>1, <1>2
<1>4. QED
  BY <1>3

(* Sending shutters, buffers and metadata keeps the type of a batch.        *)
LEMMA SendShuttersType ==
  ASSUME NEW s \in BatchState
  PROVE  SendBatchShutterCbs(s) \in BatchState
<1>1. CASE Shutter \in s.delivered
  BY <1>1 DEF SendBatchShutterCbs
<1>2. CASE Shutter \notin s.delivered
  <2>1. {Shutter} \X Elems(s.queue[Shutter]) \in SUBSET Item
    BY Classes, ElemsType DEF BatchState, Item
  <2>2. AddCall(s.calls, FALSE, Plain({Shutter} \X Elems(s.queue[Shutter]))) \in Seq(Call)
    BY <2>1, PlainType, AddCallType DEF BatchState
  <2>3. [s.queue EXCEPT ![Shutter] = <<>>] \in [BatchedClass -> Seq(Nat)]
    <3>1. s.queue \in [BatchedClass -> Seq(Nat)] /\ <<>> \in Seq(Nat)
      BY DEF BatchState
    <3>2. QED
      BY <3>1
  <2>4. QED
    BY <1>2, <2>2, <2>3, Classes DEF SendBatchShutterCbs, BatchState
<1>3. QED
  BY <1>1, <1>2

(* The same of buffers,                                                     *)
LEMMA SendBuffersType ==
  ASSUME NEW s \in BatchState, NEW b \in Batch, NEW classes \in SUBSET BatchedClass
  PROVE  SendBatchBuffers(s, b, classes) \in BatchState
<1> DEFINE open == classes \ s.delivered
           items == UNION {{<<Label(b, i), c, s.queue[c][i]>> : i \in DOMAIN s.queue[c]} : c \in open}
<1>1. items \in SUBSET Delivery
  <2>1. SUFFICES ASSUME NEW c \in open, NEW i \in DOMAIN s.queue[c]
                 PROVE  <<Label(b, i), c, s.queue[c][i]>> \in Delivery
    OBVIOUS
  <2>2. s.queue[c] \in Seq(Nat) /\ i \in Nat \ {0} /\ s.queue[c][i] \in Nat
    BY DEF BatchState
  <2>3. Label(b, i) \in Nat
    BY <2>2, Bursts DEF Label
  <2>4. QED
    BY <2>2, <2>3, Classes DEF Delivery
<1>2. AddCall(s.calls, TRUE, items) \in Seq(Call)
  BY <1>1, AddCallType DEF BatchState
<1>3. [c \in BatchedClass |-> IF items # {} /\ c \in classes THEN <<>> ELSE s.queue[c]]
        \in [BatchedClass -> Seq(Nat)]
  BY DEF BatchState
<1>4. QED
  BY <1>2, <1>3 DEF SendBatchBuffers, BatchState

(* and of metadata.                                                         *)
LEMMA SendMetadataType ==
  ASSUME NEW s \in BatchState, NEW p \in PartialClass
  PROVE  SendBatchMetadata(s, p) \in BatchState
<1> DEFINE parts == UpTo(p)
           items == UNION {Plain({c} \X Elems(s.queue[c])) : c \in parts}
<1>1. parts \subseteq BatchedClass
  BY Classes, UpToClosed
<1>2. items \in SUBSET Delivery
  <2>1. SUFFICES ASSUME NEW c \in parts
                 PROVE  Plain({c} \X Elems(s.queue[c])) \in SUBSET Delivery
    OBVIOUS
  <2>2. {c} \X Elems(s.queue[c]) \in SUBSET Item
    BY <1>1, Classes, ElemsType DEF BatchState, Item
  <2>3. QED
    BY <2>2, PlainType
<1>3. AddCall(s.calls, TRUE, items) \in Seq(Call)
  BY <1>2, AddCallType DEF BatchState
<1>4. [c \in BatchedClass |-> IF c \in parts THEN <<>> ELSE s.queue[c]] \in [BatchedClass -> Seq(Nat)]
  BY DEF BatchState
<1>5. QED
  BY <1>1, <1>3, <1>4 DEF SendBatchMetadata, BatchState
-----------------------------------------------------------------------------
(* What a batch has sent up it does not hold back any more.                *)
Sound(s) == \A c \in s.delivered : s.queue[c] = <<>>

(* What is sent is delivered, and what is delivered is not queued.          *)
LEMMA SendShuttersEffect ==
  ASSUME NEW s \in BatchState, Sound(s)
  PROVE  /\ SendBatchShutterCbs(s).delivered = s.delivered \cup {Shutter}
         /\ Sound(SendBatchShutterCbs(s))
<1>1. CASE Shutter \in s.delivered
  BY <1>1 DEF SendBatchShutterCbs
<1>2. CASE Shutter \notin s.delivered
  <2> DEFINE r == SendBatchShutterCbs(s)
  <2>1. r.delivered = s.delivered \cup {Shutter} /\ r.queue = [s.queue EXCEPT ![Shutter] = <<>>]
    BY <1>2 DEF SendBatchShutterCbs
  <2>2. s.queue \in [BatchedClass -> Seq(Nat)] /\ s.delivered \subseteq BatchedClass
    BY DEF BatchState
  <2>3. QED
    BY <2>1, <2>2, Classes DEF Sound
<1>3. QED
  BY <1>1, <1>2

(* The same of buffers,                                                     *)
LEMMA SendBuffersEffect ==
  ASSUME NEW s \in BatchState, Sound(s), NEW b \in Batch, NEW classes \in SUBSET BatchedClass
  PROVE  /\ SendBatchBuffers(s, b, classes).delivered = s.delivered \cup classes
         /\ Sound(SendBatchBuffers(s, b, classes))
<1> DEFINE open == classes \ s.delivered
           items == UNION {{<<Label(b, i), c, s.queue[c][i]>> : i \in DOMAIN s.queue[c]} : c \in open}
           r == SendBatchBuffers(s, b, classes)
<1>1. /\ r.delivered = s.delivered \cup classes
      /\ r.queue = [c \in BatchedClass |-> IF items # {} /\ c \in classes THEN <<>> ELSE s.queue[c]]
  BY DEF SendBatchBuffers
<1>2. s.queue \in [BatchedClass -> Seq(Nat)] /\ s.delivered \subseteq BatchedClass
  BY DEF BatchState
<1>3. ASSUME NEW c \in s.delivered \cup classes
      PROVE  r.queue[c] = <<>>
  <2>1. CASE c \in s.delivered
    BY <1>1, <1>2, <2>1 DEF Sound
  <2>2. CASE c \in classes /\ items # {}
    BY <1>1, <2>2
  <2>3. CASE c \in open /\ items = {}
    <3>1. r.queue[c] = s.queue[c] /\ s.queue[c] \in Seq(Nat)
      BY <1>1, <1>2, <2>3
    <3>2. ASSUME NEW i \in DOMAIN s.queue[c]
          PROVE  FALSE
      <4>1. <<Label(b, i), c, s.queue[c][i]>> \in items
        BY <2>3
      <4>2. QED
        BY <2>3, <4>1
    <3>3. s.queue[c] = <<>>
      BY <3>1, <3>2, EmptyDomain
    <3>4. QED
      BY <3>1, <3>3
  <2>4. QED
    BY <1>3, <2>1, <2>2, <2>3
<1>4. QED
  BY <1>1, <1>3 DEF Sound

(* and of metadata.                                                         *)
LEMMA SendMetadataEffect ==
  ASSUME NEW s \in BatchState, Sound(s), NEW p \in PartialClass
  PROVE  /\ SendBatchMetadata(s, p).delivered = s.delivered \cup UpTo(p)
         /\ Sound(SendBatchMetadata(s, p))
<1> DEFINE r == SendBatchMetadata(s, p)
<1>1. CASE UpTo(p) \subseteq s.delivered
  BY <1>1 DEF SendBatchMetadata
<1>2. CASE ~(UpTo(p) \subseteq s.delivered)
  <2>1. /\ r.delivered = s.delivered \cup UpTo(p)
        /\ r.queue = [c \in BatchedClass |-> IF c \in UpTo(p) THEN <<>> ELSE s.queue[c]]
    BY <1>2 DEF SendBatchMetadata
  <2>2. s.queue \in [BatchedClass -> Seq(Nat)] /\ s.delivered \subseteq BatchedClass
        /\ UpTo(p) \subseteq BatchedClass
    BY Classes, UpToClosed DEF BatchState
  <2>3. QED
    BY <2>1, <2>2 DEF Sound
<1>3. QED
  BY <1>1, <1>2

(* The error path leaves nothing in the batch.                             *)
LEMMA FlushEffect ==
  ASSUME NEW b \in Batch, Held(b) \in BatchState, Sound(Held(b))
  PROVE  /\ FlushBatch(b) \in BatchState
         /\ FlushBatch(b).delivered = BatchedClass
         /\ Sound(FlushBatch(b))
<1> DEFINE s1 == SendBatchShutterCbs(Held(b))
           s2 == SendBatchBuffers(s1, b, BatchedBuffers)
           s3 == SendBatchMetadata(s2, Partial(NumPartial))
<1>1. s1 \in BatchState /\ s1.delivered = delivered[b] \cup {Shutter} /\ Sound(s1)
  BY SendShuttersType, SendShuttersEffect DEF Held
<1>2. s2 \in BatchState /\ s2.delivered = s1.delivered \cup BatchedBuffers /\ Sound(s2)
  BY <1>1, Classes, SendBuffersType, SendBuffersEffect
<1>3. s3 \in BatchState /\ s3.delivered = s2.delivered \cup PartialClass /\ Sound(s3)
  BY <1>2, Classes, AllPartials, SendMetadataType, SendMetadataEffect
<1>4. delivered[b] \subseteq BatchedClass
  BY DEF Held, BatchState
<1>5. s3.delivered = BatchedClass
  BY <1>1, <1>2, <1>3, <1>4 DEF BatchedClass
<1>6. FlushBatch(b) = s3
  BY DEF FlushBatch
<1>7. QED
  BY <1>3, <1>5, <1>6

(* A call of the HAL sends a class up only with the item of the last frame *)
(* of the batch, of that class or of a later partial result.               *)
LEMMA QueueItemsEffect ==
  ASSUME NEW b \in Batch, Held(b) \in BatchState, Sound(Held(b)),
         NEW e \in Event, e.items \subseteq Class \X {e.frame},
         e.kind = "shutter" => <<Shutter, e.frame>> \in e.items,
         \A c \in delivered[b] : <<c, e.frame>> \notin e.items
  PROVE  /\ QueueItems(b, e) \in BatchState
         /\ Sound(QueueItems(b, e))
         /\ \A c \in QueueItems(b, e).delivered :
              \/ c \in delivered[b]
              \/ /\ e.frame = Burst[b].last
                 /\ \E d \in Class : <<d, e.frame>> \in e.items /\ c \in UpTo(d)
<1> DEFINE filled == {i[1] : i \in e.items} \cap BatchedClass
           other == {i \in e.items : i[1] \notin filled}
           newQueue == [c \in BatchedClass |-> IF c \in filled
                          THEN Append(queue[b][c], e.frame) ELSE queue[b][c]]
           pushed == [queue |-> newQueue, delivered |-> delivered[b],
                      calls |-> AddCall(<<>>, TRUE, Plain(other))]
           partial == filled \cap PartialClass
           withMd == IF partial = {} THEN pushed
                     ELSE SendBatchMetadata(pushed, CHOOSE c \in partial : TRUE)
           buffers == filled \cap BatchedBuffers
           r == QueueItems(b, e)
<1>1. queue[b] \in [BatchedClass -> Seq(Nat)] /\ delivered[b] \subseteq BatchedClass
  BY DEF Held, BatchState
<1>2. e.frame \in Nat /\ e.items \in SUBSET Item
  BY DEF Event
<1>3. \A c \in filled : <<c, e.frame>> \in e.items /\ c \in Class
  BY Classes
<1>4. pushed \in BatchState
  <2>1. other \in SUBSET Item
    BY <1>2
  <2>2. AddCall(<<>>, TRUE, Plain(other)) \in Seq(Call)
    <3>1. Plain(other) \in SUBSET Delivery
      BY <2>1, PlainType
    <3>2. <<>> \in Seq(Call)
      OBVIOUS
    <3> HIDE DEF other
    <3>3. QED
      BY <3>1, <3>2, AddCallType
  <2>3. newQueue \in [BatchedClass -> Seq(Nat)]
    BY <1>1, <1>2
  <2>4. QED
    BY <1>1, <2>2, <2>3 DEF BatchState
<1>5. Sound(pushed)
  <2>1. \A c \in delivered[b] : queue[b][c] = <<>>
    BY DEF Sound, Held
  <2>2. \A c \in delivered[b] : c \notin filled
    BY <1>3
  <2>3. QED
    BY <1>1, <2>1, <2>2 DEF Sound
<1>6. CASE e.frame # Burst[b].last
  <2>1. r = pushed
    BY <1>6 DEF QueueItems
  <2>2. QED
    BY <1>4, <1>5, <2>1
<1>7. CASE e.frame = Burst[b].last /\ e.kind = "shutter"
  <2>1. r = SendBatchShutterCbs(pushed)
    BY <1>7 DEF QueueItems
  <2>2. r \in BatchState /\ r.delivered = delivered[b] \cup {Shutter} /\ Sound(r)
    BY <1>4, <1>5, <2>1, SendShuttersType, SendShuttersEffect
  <2>3. QED
    BY <1>7, <2>2, Classes, UpToClosed
<1>8. CASE e.frame = Burst[b].last /\ e.kind # "shutter"
  <2>1. r = SendBatchBuffers(withMd, b, buffers)
    BY <1>8 DEF QueueItems
  <2>2. /\ withMd \in BatchState /\ Sound(withMd)
        /\ \A c \in withMd.delivered :
             c \in delivered[b] \/ \E d \in Class : <<d, e.frame>> \in e.items /\ c \in UpTo(d)
    <3>1. CASE partial = {}
      BY <3>1, <1>4, <1>5
    <3>2. CASE partial # {}
      <4> DEFINE p == CHOOSE c \in partial : TRUE
      <4>1. p \in partial
        BY <3>2
      <4>2. withMd = SendBatchMetadata(pushed, p) /\ p \in PartialClass
        BY <3>2, <4>1
      <4>3. withMd \in BatchState /\ Sound(withMd) /\ withMd.delivered = delivered[b] \cup UpTo(p)
        BY <1>4, <1>5, <4>2, SendMetadataType, SendMetadataEffect
      <4>4. QED
        BY <1>3, <4>1, <4>3
    <3>3. QED
      BY <3>1, <3>2
  <2>3. buffers \in SUBSET BatchedClass
    BY Classes
  <2>4. r \in BatchState /\ Sound(r) /\ r.delivered = withMd.delivered \cup buffers
    <3> HIDE DEF withMd, buffers, r
    <3>1. QED
      BY <2>1, <2>2, <2>3, SendBuffersType, SendBuffersEffect
  <2>5. \A c \in buffers : c \in UpTo(c) /\ <<c, e.frame>> \in e.items /\ c \in Class
    BY <1>3, UpToClosed
  <2>6. QED
    BY <1>8, <2>2, <2>4, <2>5
<1>9. QED
  BY <1>6, <1>7, <1>8
-----------------------------------------------------------------------------
(* The inductive invariant.                                                *)

(* Batches in the deque, and batches that sent something up, belong to     *)
(* bursts that are over; the HAL knows of submitted frames only.           *)
SubmittedOnly ==
  /\ burst >= 1
  /\ burst \in Batch => nextFrame >= Burst[burst].first
  /\ \A k \in DOMAIN inflight : inflight[k] < burst
  /\ \A t \in Thread : at[t] < burst
  /\ \A b \in Batch : delivered[b] # {} => b < burst
  /\ \A i \in pending : i[2] < nextFrame
  /\ \A t \in Thread : \A i \in ev[t].items : i[2] < nextFrame

(* While a thread reports an item, the items before it are reported.       *)
ReportedInOrder ==
  \A t \in Thread : \A i \in ev[t].items : i[1] \in Class =>
    /\ i \notin pending
    /\ \A u \in Thread : i \in ev[u].items => u = t
    /\ \A j \in Before(i[1], i[2]) : j \notin pending /\ \A u \in Thread : j \notin ev[u].items

(* A thread about to lock a batch reports on a frame of that batch.        *)
Queueing(t) ==
  pc[t] = "queue" =>
    /\ at[t] \in Batch /\ ev[t].frame \in Frames(at[t])
    /\ ev[t].items \subseteq Class \X {ev[t].frame}
    /\ ev[t].kind = "shutter" => <<Shutter, ev[t].frame>> \in ev[t].items

(* When a batch has sent a class up, no item of that class is still to be  *)
(* queued in it.                                                           *)
SentIsOver ==
  \A b \in Batch : \A c \in delivered[b] : \A f \in Frames(b) :
    ~removed[b] => /\ <<c, f>> \notin pending
                   /\ \A t \in Thread : pc[t] = "queue" => <<c, f>> \notin ev[t].items

SentIsNotHeld == \A b \in Batch : Sound(Held(b))

IInv ==
  /\ TypeOK
  /\ SubmittedOnly /\ ReportedInOrder /\ (\A t \in Thread : Queueing(t))
  /\ SentIsOver /\ SentIsNotHeld /\ RemovedBatchIsEmpty

-----------------------------------------------------------------------------
(* Type correctness.                                                       *)

(* An event that is not batched becomes one call.                           *)
LEMMA SingleCallType ==
  ASSUME NEW e \in Event
  PROVE  SingleCall(e) \in Seq(Call)
<1>1. Plain(e.items) \in SUBSET Delivery
  BY PlainType DEF Event
<1>2. [process |-> e.kind = "result", items |-> Plain(e.items)] \in Call
  BY <1>1 DEF Call
<1>3. QED
  BY <1>2 DEF SingleCall

(* What a batch holds back has its type.                                    *)
LEMMA HeldType ==
  ASSUME TypeOK, NEW b \in Batch
  PROVE  Held(b) \in BatchState
BY DEF TypeOK, Held, BatchState

(* getBatch() finds a registered batch of the frame, or none.               *)
LEMMA GetBatchType ==
  ASSUME TypeOK, NEW f
  PROVE  \/ GetBatch(f) = 0
         \/ /\ GetBatch(f) \in DOMAIN inflight /\ GetBatch(f) # 0
            /\ inflight[GetBatch(f)] \in Batch
            /\ f \in Frames(inflight[GetBatch(f)])
<1> DEFINE pos == {k \in DOMAIN inflight : f \in Frames(inflight[k])}
<1>1. DOMAIN inflight \subseteq Nat \ {0} /\ \A k \in DOMAIN inflight : inflight[k] \in Batch
  BY DEF TypeOK
<1>2. CASE pos = {}
  BY <1>2 DEF GetBatch
<1>3. CASE pos # {}
  <2>1. GetBatch(f) \in pos
    BY <1>3 DEF GetBatch
  <2>2. QED
    BY <1>1, <2>1
<1>4. QED
  BY <1>2, <1>3

(* A thread without an event has nothing.                                   *)
LEMMA NoEventType == NoEvent \in Event /\ NoEvent.items = {} /\ NoEvent.frame = 0
BY DEF NoEvent, Event

(* A call of the HAL enters with a batch or without.                        *)
LEMMA EnterType ==
  ASSUME TypeOK, NEW t \in Thread, NEW e \in Event, Enter(t, e)
  PROVE  /\ pc' \in [Thread -> State] /\ ev' \in [Thread -> Event]
         /\ at' \in [Thread -> Batch \cup {NotBatched}]
         /\ left' \in [Thread -> Nat] /\ todo' \in [Thread -> Seq(Call)]
<1> DEFINE k == GetBatch(e.frame)
<1>1. k \in Nat /\ (k # 0 => inflight[k] \in Batch)
  BY GetBatchType DEF TypeOK
<1>2. SingleCall(e) \in Seq(Call) /\ <<>> \in Seq(Call)
  BY SingleCallType
<1> HIDE DEF k
<1>3. /\ ev' = [ev EXCEPT ![t] = e] /\ left' = [left EXCEPT ![t] = k]
      /\ at' = [at EXCEPT ![t] = IF k = 0 THEN NotBatched ELSE inflight[k]]
      /\ todo' = [todo EXCEPT ![t] = IF k = 0 THEN SingleCall(e) ELSE <<>>]
      /\ pc' \in {[pc EXCEPT ![t] = "calling"], [pc EXCEPT ![t] = "error"], [pc EXCEPT ![t] = "queue"]}
  BY DEF Enter, k
<1>4. QED
  BY <1>1, <1>2, <1>3 DEF TypeOK, State

(* It keeps the types,                                                      *)
LEMMA HalCallType ==
  ASSUME TypeOK, NEW t \in Thread, HalCall(t), UNCHANGED crashed
  PROVE  TypeOK'
<1> USE DEF halVars, batchVars, lockVars, outVars
<1>1. PICK f \in Frame : NotifyShutter(t, f) \/ NotifyError(t, f) \/ ProcessCaptureResult(t, f)
  BY DEF HalCall
<1>2. f \in Nat
  BY Bursts DEF Frame, Frames
<1>3. PICK e : e \in Event /\ Enter(t, e)
  <2>1. CASE NotifyShutter(t, f)
    BY <1>2, <2>1, Classes DEF NotifyShutter, Event, Item
  <2>2. CASE NotifyError(t, f)
    BY <1>2, <2>2, Classes DEF NotifyError, Event, Item
  <2>3. CASE ProcessCaptureResult(t, f)
    <3>1. PICK classes \in SUBSET (Class \ {Shutter}) :
             Enter(t, [kind |-> "result", frame |-> f, items |-> classes \X {f}])
      BY <2>3 DEF ProcessCaptureResult
    <3>2. [kind |-> "result", frame |-> f, items |-> classes \X {f}] \in Event
      BY <1>2 DEF Event, Item
    <3>3. QED
      BY <3>1, <3>2
  <2>4. QED
    BY <1>1, <2>1, <2>2, <2>3
<1>4. /\ pending' \subseteq pending /\ owed' \subseteq owed /\ errors' \in Nat
      /\ UNCHANGED <<burst, nextFrame, inflight, batchVars, lockVars, outVars>>
  <2>1. UNCHANGED <<burst, nextFrame, inflight, batchVars, lockVars, outVars>>
    BY <1>3 DEF Enter
  <2>2. CASE NotifyShutter(t, f)
    BY <2>1, <2>2 DEF NotifyShutter, TypeOK
  <2>3. CASE NotifyError(t, f)
    BY <2>1, <2>3 DEF NotifyError, TypeOK
  <2>4. CASE ProcessCaptureResult(t, f)
    BY <2>1, <2>4 DEF ProcessCaptureResult, TypeOK
  <2>5. QED
    BY <1>1, <2>2, <2>3, <2>4
<1>5. /\ pc' \in [Thread -> State] /\ ev' \in [Thread -> Event]
      /\ at' \in [Thread -> Batch \cup {NotBatched}]
      /\ left' \in [Thread -> Nat] /\ todo' \in [Thread -> Seq(Call)]
  BY <1>3, EnterType
<1>6. early' \subseteq Batch
  <2>1. early' = early \cup {b \in {burst} \cap Batch : IsBatched(b) /\ e.frame \in Frames(b)}
    BY <1>3 DEF Enter
  <2>2. QED
    BY <2>1 DEF TypeOK
<1>7. QED
  BY <1>4, <1>5, <1>6 DEF TypeOK

(* as does its return,                                                      *)
LEMMA ReturnType ==
  ASSUME TypeOK, NEW t \in Thread, Return(t)
  PROVE  /\ pc' \in [Thread -> State] /\ ev' \in [Thread -> Event]
         /\ at' \in [Thread -> Batch \cup {NotBatched}] /\ left' \in [Thread -> Nat]
BY NoEventType DEF Return, TypeOK, State

(* and so do submission and registration.                                   *)
LEMMA BinderType ==
  ASSUME TypeOK, Submit \/ SubmitFails \/ RegisterBatch, UNCHANGED crashed
  PROVE  TypeOK'
<1> USE DEF halVars, batchVars, lockVars, threadVars, outVars
<1>1. CASE Submit
  BY <1>1 DEF Submit, TypeOK, Item
<1>2. ASSUME NextBurst, burst \in Batch
      PROVE  burst' \in Nat /\ nextFrame' \in Nat
  <2>1. /\ burst \in Nat /\ nextFrame \in Nat /\ burst' = burst + 1
        /\ nextFrame' = IF burst + 1 \in Batch THEN Burst[burst + 1].first ELSE nextFrame
    BY <1>2 DEF NextBurst, TypeOK
  <2>2. \A b \in Batch : Burst[b].first \in Nat
    BY Bursts
  <2>3. QED
    BY <2>1, <2>2
<1>3. CASE SubmitFails
  BY <1>2, <1>3 DEF SubmitFails, TypeOK
<1>4. CASE RegisterBatch
  <2>1. burst' \in Nat /\ nextFrame' \in Nat
    BY <1>2, <1>4 DEF RegisterBatch
  <2>2. inflight' \in Seq(Batch)
    <3>1. inflight \in Seq(Batch) /\ burst \in Batch
      BY <1>4 DEF RegisterBatch, TypeOK
    <3>2. inflight' = Append(inflight, burst) \/ inflight' = inflight
      BY <1>4 DEF RegisterBatch
    <3>3. QED
      BY <3>1, <3>2
  <2>3. QED
    BY <1>4, <2>1, <2>2 DEF RegisterBatch, TypeOK
<1>5. QED
  BY <1>1, <1>3, <1>4

(* Queueing keeps a batch sound, and finishes a class by its last frame only. *)
LEMMA QueueItemsOK ==
  ASSUME IInv, NEW t \in Thread, pc[t] = "queue", ~removed[at[t]]
  PROVE  LET b == at[t]
             s == QueueItems(b, ev[t])
         IN  /\ b \in Batch /\ s \in BatchState /\ Sound(s)
             /\ \A c \in s.delivered :
                  \/ c \in delivered[b]
                  \/ /\ ev[t].frame = Burst[b].last
                     /\ \E d \in Class : <<d, ev[t].frame>> \in ev[t].items /\ c \in UpTo(d)
<1> DEFINE b == at[t]
<1>1. /\ b \in Batch /\ ev[t].frame \in Frames(b)
      /\ ev[t].items \subseteq Class \X {ev[t].frame}
      /\ ev[t].kind = "shutter" => <<Shutter, ev[t].frame>> \in ev[t].items
  BY DEF IInv, Queueing
<1>2. Held(b) \in BatchState /\ Sound(Held(b)) /\ ev[t] \in Event
  BY <1>1, HeldType DEF IInv, SentIsNotHeld, TypeOK
<1>3. \A c \in delivered[b] : <<c, ev[t].frame>> \notin ev[t].items
  BY <1>1 DEF IInv, SentIsOver
<1> HIDE DEF b
<1>4. QED
  BY <1>1, <1>2, <1>3, QueueItemsEffect DEF b

(* The steps of a thread keep the types,                                    *)
LEMMA StepType ==
  ASSUME IInv, NEW t \in Thread, Step(t), UNCHANGED crashed
  PROVE  TypeOK'
<1> USE DEF halVars, batchVars, lockVars, threadVars, outVars
<1>1. TypeOK /\ ev[t] \in Event /\ todo[t] \in Seq(Call)
  BY DEF IInv, TypeOK
<1>2. SingleCall(ev[t]) \in Seq(Call)
  BY <1>1, SingleCallType
<1>3. CASE LockBatch(t)
  <2>1. CASE removed[at[t]]
    BY <1>1, <1>2, <1>3, <2>1 DEF LockBatch, FallsBack, TypeOK, State
  <2>2. CASE ~removed[at[t]]
    <3> DEFINE s == QueueItems(at[t], ev[t])
    <3>1. at[t] \in Batch /\ s \in BatchState
      BY <1>3, <2>2, QueueItemsOK DEF LockBatch
    <3>2. s.queue \in [BatchedClass -> Seq(Nat)] /\ s.delivered \subseteq BatchedClass /\ s.calls \in Seq(Call)
      BY <3>1 DEF BatchState
    <3>3. /\ todo' = [todo EXCEPT ![t] = s.calls]
          /\ queue' = [queue EXCEPT ![at[t]] = s.queue]
          /\ delivered' = [delivered EXCEPT ![at[t]] = s.delivered]
          /\ bLock' = [bLock EXCEPT ![at[t]] = t] /\ pc' = [pc EXCEPT ![t] = "calling"]
          /\ UNCHANGED <<burst, nextFrame, halVars, inflight, removed, mLock, cbLock, ev, at, left, outVars>>
      BY <1>3, <2>2 DEF LockBatch, FallsBack
    <3> HIDE DEF s
    <3>4. QED
      BY <1>1, <3>1, <3>2, <3>3 DEF TypeOK, State
  <2>3. QED
    BY <2>1, <2>2
<1>4. CASE LockForError(t)
  BY <1>1, <1>4 DEF LockForError, TypeOK, State
<1>5. CASE FlushFirstBatch(t)
  <2> DEFINE b == Head(inflight)
             s == FlushBatch(b)
  <2>1. b \in Batch /\ Tail(inflight) \in Seq(Batch)
    BY <1>1, <1>5 DEF FlushFirstBatch, TypeOK
  <2>2. s \in BatchState
    BY <1>1, <2>1, HeldType, FlushEffect DEF IInv, SentIsNotHeld
  <2>3. s.queue \in [BatchedClass -> Seq(Nat)] /\ s.delivered \subseteq BatchedClass /\ s.calls \in Seq(Call)
    BY <2>2 DEF BatchState
  <2>4. left[t] - 1 \in Nat
    BY <1>1, <1>5 DEF FlushFirstBatch, TypeOK
  <2>5. /\ todo' = [todo EXCEPT ![t] = s.calls]
        /\ queue' = [queue EXCEPT ![b] = s.queue]
        /\ delivered' = [delivered EXCEPT ![b] = s.delivered]
        /\ removed' = [removed EXCEPT ![b] = TRUE]
        /\ bLock' = [bLock EXCEPT ![b] = t] /\ pc' = [pc EXCEPT ![t] = "calling"]
        /\ at' = [at EXCEPT ![t] = b] /\ left' = [left EXCEPT ![t] = left[t] - 1]
        /\ inflight' = Tail(inflight)
        /\ UNCHANGED <<burst, nextFrame, halVars, mLock, cbLock, ev, outVars>>
    BY <1>5 DEF FlushFirstBatch
  <2> HIDE DEF b, s
  <2>6. QED
    BY <1>1, <2>1, <2>3, <2>4, <2>5 DEF TypeOK, State
<1>6. CASE SendError(t)
  BY <1>1, <1>2, <1>6 DEF SendError, TypeOK, State
<1>7. ASSUME todo[t] # <<>>
      PROVE  Head(todo[t]).items \subseteq Delivery /\ Tail(todo[t]) \in Seq(Call)
  <2>1. Head(todo[t]) \in Call /\ Tail(todo[t]) \in Seq(Call)
    BY <1>1, <1>7
  <2>2. QED
    BY <2>1 DEF Call
<1>8. CASE CallNotify(t)
  BY <1>1, <1>7, <1>8 DEF CallNotify, MadeCall, TypeOK
<1>9. CASE BeginResultCall(t)
  BY <1>1, <1>9 DEF BeginResultCall, TypeOK
<1>10. CASE EndResultCall(t)
  BY <1>1, <1>7, <1>10 DEF EndResultCall, MadeCall, TypeOK
<1>11. CASE TimeoutResultCall(t)
  BY <1>1, <1>7, <1>11 DEF TimeoutResultCall, MadeCall, TypeOK
<1>12. CASE Release(t)
  <2>1. /\ pc' \in [Thread -> State] /\ ev' \in [Thread -> Event]
        /\ at' \in [Thread -> Batch \cup {NotBatched}] /\ left' \in [Thread -> Nat]
    <3>1. CASE Return(t)
      BY <1>1, <3>1, ReturnType
    <3>2. CASE ~Return(t)
      <4>1. pc' \in {[pc EXCEPT ![t] = "flush"], [pc EXCEPT ![t] = "check"]} /\ UNCHANGED <<ev, at, left>>
        BY <1>12, <3>2 DEF Release
      <4>2. QED
        BY <1>1, <4>1 DEF TypeOK, State
    <3>3. QED
      BY <3>1, <3>2
  <2>2. /\ mLock' \in Thread \cup {NoThread} /\ bLock' \in [Batch -> Thread \cup {NoThread}]
        /\ UNCHANGED <<burst, nextFrame, halVars, inflight, batchVars, cbLock, todo, outVars>>
    BY <1>1, <1>12 DEF Release, TypeOK
  <2>3. QED
    BY <1>1, <2>1, <2>2 DEF TypeOK
<1>13. CASE LockForCheck(t)
  BY <1>1, <1>13 DEF LockForCheck, TypeOK, State
<1>14. CASE RemoveFirstBatch(t)
  <2>1. inflight' \in Seq(Batch) /\ removed' \in [Batch -> BOOLEAN]
    <3>1. inflight \in Seq(Batch) /\ removed \in [Batch -> BOOLEAN]
      BY <1>1 DEF TypeOK
    <3>2. \/ UNCHANGED <<removed, inflight>>
          \/ /\ inflight # <<>> /\ inflight' = Tail(inflight)
             /\ removed' = [removed EXCEPT ![Head(inflight)] = TRUE]
      BY <1>14 DEF RemoveFirstBatch
    <3>3. CASE UNCHANGED <<removed, inflight>>
      BY <3>1, <3>3
    <3>4. ASSUME inflight # <<>>
          PROVE  Head(inflight) \in Batch /\ Tail(inflight) \in Seq(Batch)
      BY <3>1, <3>4
    <3>5. QED
      BY <3>1, <3>2, <3>3, <3>4
  <2>2. QED
    BY <1>1, <1>14, <2>1, ReturnType DEF RemoveFirstBatch, TypeOK
<1>15. QED
  BY <1>3, <1>4, <1>5, <1>6, <1>8, <1>9, <1>10, <1>11, <1>12, <1>13, <1>14 DEF Step

(* and so does reading an empty deque.                                      *)
LEMMA FlushNothingType ==
  ASSUME TypeOK, NEW t \in Thread, FlushNothing(t)
  PROVE  TypeOK'
BY DEF FlushNothing, TypeOK, halVars, batchVars, lockVars, threadVars, outVars

-----------------------------------------------------------------------------
(* The rest of the inductive invariant.  Most steps of a thread touch no   *)
(* batch and report nothing: the invariant holds of them for one reason.   *)
Facts ==
  /\ SubmittedOnly /\ ReportedInOrder /\ (\A t \in Thread : Queueing(t))
  /\ SentIsOver /\ SentIsNotHeld /\ RemovedBatchIsEmpty

(* A step that touches no batch and reports nothing keeps the invariant.    *)
LEMMA QuietStep ==
  ASSUME IInv,
         UNCHANGED <<burst, nextFrame, pending, inflight, batchVars>>,
         \A t \in Thread : ev'[t] = ev[t] \/ ev'[t] = NoEvent,
         \A t \in Thread : at'[t] = at[t] \/ at'[t] = NotBatched,
         \A t \in Thread : pc'[t] = "queue" => pc[t] = "queue" /\ at'[t] = at[t] /\ ev'[t] = ev[t]
  PROVE  Facts'
<1> USE DEF IInv, batchVars
<1>1. \A t \in Thread : ev'[t].items \subseteq ev[t].items
  BY NoEventType
<1>2. SubmittedOnly'
  <2>1. burst \in Nat /\ burst >= 1 /\ NotBatched < burst
    BY DEF SubmittedOnly, NotBatched, TypeOK
  <2>2. \A t \in Thread : at'[t] < burst
    BY <2>1 DEF SubmittedOnly
  <2>3. \A t \in Thread : \A i \in ev'[t].items : i[2] < nextFrame
    BY <1>1 DEF SubmittedOnly
  <2>4. QED
    BY <2>1, <2>2, <2>3 DEF SubmittedOnly
<1>3. ReportedInOrder'
  BY <1>1 DEF ReportedInOrder
<1>4. (\A t \in Thread : Queueing(t))'
  BY DEF Queueing
<1>5. SentIsOver'
  BY <1>1 DEF SentIsOver
<1>6. SentIsNotHeld' /\ RemovedBatchIsEmpty'
  BY DEF SentIsNotHeld, RemovedBatchIsEmpty, Held, Sound
<1>7. QED
  BY <1>2, <1>3, <1>4, <1>5, <1>6 DEF Facts

(* These are such steps.                                                    *)
LEMMA QuietSteps ==
  ASSUME IInv, NEW t \in Thread,
         \/ LockForError(t) \/ SendError(t) \/ CallNotify(t) \/ BeginResultCall(t)
         \/ EndResultCall(t) \/ TimeoutResultCall(t) \/ Release(t) \/ LockForCheck(t)
         \/ FlushNothing(t)
  PROVE  Facts'
<1> USE DEF halVars, batchVars, lockVars, threadVars, outVars
<1>1. /\ pc \in [Thread -> State] /\ ev \in [Thread -> Event]
      /\ at \in [Thread -> Batch \cup {NotBatched}]
  BY DEF IInv, TypeOK
<1>2. UNCHANGED <<burst, nextFrame, pending, inflight, batchVars>>
  BY DEF LockForError, SendError, CallNotify, BeginResultCall, EndResultCall, TimeoutResultCall,
         Release, LockForCheck, FlushNothing
<1>3. \/ UNCHANGED <<pc, ev, at>>
      \/ /\ ev' = ev \/ ev' = [ev EXCEPT ![t] = NoEvent]
         /\ at' = at \/ at' = [at EXCEPT ![t] = NotBatched]
         /\ \E state \in State \ {"queue"} : pc' = [pc EXCEPT ![t] = state]
  <2>1. CASE LockForError(t)
    BY <2>1 DEF LockForError, State
  <2>2. CASE SendError(t)
    BY <2>2 DEF SendError, State
  <2>3. CASE Release(t)
    BY <2>3 DEF Release, Return, State
  <2>4. CASE LockForCheck(t)
    BY <2>4 DEF LockForCheck, State
  <2>5. CASE CallNotify(t) \/ BeginResultCall(t) \/ EndResultCall(t) \/ TimeoutResultCall(t) \/ FlushNothing(t)
    BY <2>5 DEF CallNotify, BeginResultCall, EndResultCall, TimeoutResultCall, FlushNothing
  <2>6. QED
    BY <2>1, <2>2, <2>3, <2>4, <2>5
<1>4. \A u \in Thread : /\ ev'[u] = ev[u] \/ ev'[u] = NoEvent
                        /\ at'[u] = at[u] \/ at'[u] = NotBatched
                        /\ pc'[u] = "queue" => pc[u] = "queue" /\ at'[u] = at[u] /\ ev'[u] = ev[u]
  BY <1>1, <1>3
<1>5. QED
  BY <1>2, <1>4, QuietStep

(* The requests: a new frame comes after everything that was reported, and *)
(* after the frames of every batch that sent something up.                 *)
LEMMA SubmitStep ==
  ASSUME IInv, Submit
  PROVE  Facts'
<1> USE DEF IInv, batchVars, threadVars
<1>1. /\ burst \in Batch /\ nextFrame \in Nat /\ nextFrame' = nextFrame + 1
      /\ pending' = pending \cup (Class \X {nextFrame})
      /\ UNCHANGED <<burst, inflight, queue, delivered, removed, pc, ev, at>>
  BY DEF Submit, TypeOK
<1>2. \A i \in pending : i[2] \in Nat
  BY DEF TypeOK, Item
<1>3. \A t \in Thread : \A i \in ev[t].items : i[2] \in Nat /\ i[2] < nextFrame
  BY DEF TypeOK, Event, Item, SubmittedOnly
<1>4. SubmittedOnly'
  <2>1. \A i \in pending' : i[2] < nextFrame'
    BY <1>1, <1>2 DEF SubmittedOnly
  <2>2. \A t \in Thread : \A i \in ev'[t].items : i[2] < nextFrame'
    BY <1>1, <1>3
  <2>3. burst' \in Batch => nextFrame' >= Burst[burst'].first
    BY <1>1, Bursts DEF SubmittedOnly
  <2>4. QED
    BY <1>1, <2>1, <2>2, <2>3 DEF SubmittedOnly
<1>5. ReportedInOrder'
  <2>1. SUFFICES ASSUME NEW t \in Thread, NEW i \in ev[t].items, i[1] \in Class
                 PROVE  /\ i \notin pending'
                        /\ \A j \in Before(i[1], i[2]) : j \notin pending'
    BY <1>1 DEF ReportedInOrder
  <2>2. \A j \in Class \X {nextFrame} : j[2] = nextFrame
    OBVIOUS
  <2>3. i \notin pending'
    BY <1>1, <1>3, <2>1, <2>2 DEF ReportedInOrder
  <2>4. \A j \in Before(i[1], i[2]) : j[2] \in Nat /\ j[2] <= i[2]
    BY Bursts DEF Before, Frame, Frames
  <2>5. \A j \in Before(i[1], i[2]) : j[2] # nextFrame
    BY <1>1, <1>3, <2>4
  <2>6. QED
    BY <1>1, <2>1, <2>2, <2>3, <2>5 DEF ReportedInOrder
<1>6. (\A t \in Thread : Queueing(t))'
  BY <1>1 DEF Queueing
<1>7. SentIsOver'
  <2>1. ASSUME NEW b \in Batch, NEW c \in delivered[b], NEW f \in Frames(b)
        PROVE  <<c, f>> \notin Class \X {nextFrame}
    <3>1. b < burst /\ f \in Nat /\ f <= Burst[b].last
      BY Bursts DEF Frames, SubmittedOnly
    <3>2. f < Burst[burst].first /\ Burst[burst].first <= nextFrame
      BY <1>1, <3>1, Bursts DEF SubmittedOnly
    <3>3. f # nextFrame
      BY <1>1, <3>1, <3>2, Bursts
    <3>4. QED
      BY <3>3
  <2>2. QED
    BY <1>1, <2>1 DEF SentIsOver
<1>8. SentIsNotHeld' /\ RemovedBatchIsEmpty'
  BY <1>1 DEF SentIsNotHeld, RemovedBatchIsEmpty, Held, Sound
<1>9. QED
  BY <1>4, <1>5, <1>6, <1>7, <1>8 DEF Facts

(* Registration of a burst keeps the invariant.                             *)
LEMMA NextBurstStep ==
  ASSUME IInv, SubmitFails \/ RegisterBatch
  PROVE  Facts'
<1> USE DEF IInv, halVars, batchVars, threadVars
<1>1. /\ burst \in Batch /\ NextBurst /\ nextFrame <= Burst[burst].last + 1
      /\ inflight' = inflight \/ inflight' = Append(inflight, burst)
      /\ UNCHANGED <<pending, queue, delivered, removed, pc, ev, at>>
  BY Bursts DEF SubmitFails, RegisterBatch, TypeOK
<1>2. /\ burst \in Nat /\ burst' = burst + 1 /\ nextFrame \in Nat /\ nextFrame' \in Nat
      /\ nextFrame <= nextFrame' /\ (burst' \in Batch => nextFrame' = Burst[burst'].first)
  <2>1. burst \in Nat /\ burst' = burst + 1 /\ nextFrame \in Nat /\ Burst[burst].last \in Nat
    BY <1>1, Bursts DEF NextBurst, TypeOK
  <2>2. CASE burst + 1 \in Batch
    <3>1. nextFrame' = Burst[burst + 1].first /\ Burst[burst + 1].first \in Nat
      BY <1>1, <2>2, Bursts DEF NextBurst
    <3>2. Burst[burst].last < Burst[burst + 1].first
      BY <1>1, <2>1, <2>2, Bursts
    <3>3. QED
      BY <1>1, <2>1, <3>1, <3>2
  <2>3. CASE burst + 1 \notin Batch
    BY <1>1, <2>1, <2>3 DEF NextBurst
  <2>4. QED
    BY <2>2, <2>3
<1>3. SubmittedOnly'
  <2>1. \A k \in DOMAIN inflight' : inflight'[k] < burst'
    <3>1. /\ inflight \in Seq(Batch) /\ Len(inflight) \in Nat
          /\ \A k \in DOMAIN inflight : inflight[k] \in Nat /\ inflight[k] < burst
      <4>1. inflight \in Seq(Batch) /\ Batch \subseteq Nat
        BY Bursts DEF TypeOK
      <4>2. \A k \in DOMAIN inflight : inflight[k] \in Batch
        BY <4>1
      <4>3. \A k \in DOMAIN inflight : inflight[k] < burst
        BY DEF SubmittedOnly
      <4>4. Len(inflight) \in Nat
        BY <4>1
      <4>5. QED
        BY <4>1, <4>2, <4>3, <4>4
    <3>2. CASE inflight' = inflight
      BY <1>2, <3>1, <3>2
    <3>3. CASE inflight' = Append(inflight, burst)
      <4>1. ASSUME NEW k \in DOMAIN inflight'
            PROVE  k \in DOMAIN inflight \/ k = Len(inflight) + 1
        BY <1>2, <3>1, <3>3
      <4>2. \A k \in DOMAIN inflight : inflight'[k] = inflight[k]
        BY <1>2, <3>1, <3>3
      <4>3. inflight'[Len(inflight) + 1] = burst
        BY <1>2, <3>1, <3>3
      <4>4. QED
        BY <1>2, <3>1, <4>1, <4>2, <4>3
    <3>4. QED
      BY <1>1, <3>2, <3>3
  <2>2. \A t \in Thread : at[t] \in Nat /\ at[t] < burst'
    BY <1>2, Bursts DEF SubmittedOnly, TypeOK, NotBatched
  <2>3. \A i \in pending : i[2] \in Nat /\ i[2] < nextFrame'
    BY <1>2 DEF TypeOK, Item, SubmittedOnly
  <2>4. \A t \in Thread : \A i \in ev[t].items : i[2] < nextFrame'
    <3>1. \A t \in Thread : \A i \in ev[t].items : i[2] \in Nat /\ i[2] < nextFrame
      BY DEF TypeOK, Event, Item, SubmittedOnly
    <3>2. QED
      BY <1>2, <3>1
  <2>5. \A b \in Batch : delivered[b] # {} => b < burst'
    BY <1>2, Bursts DEF SubmittedOnly
  <2>6. QED
    BY <1>1, <1>2, <2>1, <2>2, <2>3, <2>4, <2>5, Bursts DEF SubmittedOnly
<1>4. ReportedInOrder' /\ (\A t \in Thread : Queueing(t))' /\ SentIsOver'
  BY <1>1 DEF ReportedInOrder, Queueing, SentIsOver
<1>5. SentIsNotHeld' /\ RemovedBatchIsEmpty'
  BY <1>1 DEF SentIsNotHeld, RemovedBatchIsEmpty, Held, Sound
<1>6. QED
  BY <1>3, <1>4, <1>5 DEF Facts

(* A call of the HAL takes the items it reports from what is pending, in   *)
(* their order.                                                            *)
LEMMA EnterStep ==
  ASSUME IInv, NEW t \in Thread, NEW e \in Event, Enter(t, e),
         pending' \subseteq pending, UNCHANGED <<removed>>,
         \A i \in e.items : i[1] \in Class => MayReport(i) /\ i \notin pending',
         \A i \in e.items : i[2] < nextFrame,
         e.kind # "error" => e.items \subseteq Class \X {e.frame},
         e.kind = "shutter" => <<Shutter, e.frame>> \in e.items
  PROVE  Facts'
<1> USE DEF IInv, batchVars, threadVars
<1>1. /\ pc \in [Thread -> State] /\ ev \in [Thread -> Event]
      /\ at \in [Thread -> Batch \cup {NotBatched}]
  BY DEF TypeOK
<1>2. /\ UNCHANGED <<burst, nextFrame, inflight, queue, delivered, removed>>
      /\ ev' = [ev EXCEPT ![t] = e]
  BY DEF Enter
<1>3. /\ ev'[t] = e
      /\ \A u \in Thread \ {t} : ev'[u] = ev[u] /\ pc'[u] = pc[u] /\ at'[u] = at[u]
  BY <1>1 DEF Enter
<1>4. \/ at'[t] = NotBatched /\ pc'[t] = "calling"
      \/ /\ at'[t] \in Batch /\ e.frame \in Frames(at'[t]) /\ at'[t] < burst
         /\ pc'[t] = IF e.kind = "error" THEN "error" ELSE "queue"
  BY <1>1, GetBatchType DEF Enter, SubmittedOnly
<1>5. SubmittedOnly'
  <2>1. at'[t] < burst
    BY <1>4 DEF SubmittedOnly, NotBatched, TypeOK
  <2>2. \A u \in Thread : \A i \in ev'[u].items : i[2] < nextFrame
    BY <1>2, <1>3 DEF SubmittedOnly
  <2>3. QED
    BY <1>2, <1>3, <2>1, <2>2 DEF SubmittedOnly
<1>6. ReportedInOrder'
  <2>1. ASSUME NEW i \in e.items, i[1] \in Class
        PROVE  /\ i \in pending
               /\ \A u \in Thread : i \notin ev[u].items
               /\ \A j \in Before(i[1], i[2]) : j \notin pending /\ \A u \in Thread : j \notin ev[u].items
    BY <2>1 DEF MayReport, Unreported, ReportedInOrder
  <2>2. \A i \in e.items : i[1] \in Class => \A j \in Before(i[1], i[2]) : j[1] \in Class /\ j \notin e.items
    <3>1. ASSUME NEW i \in e.items, i[1] \in Class, NEW j \in Before(i[1], i[2])
          PROVE  j[1] \in Class /\ j \notin e.items
      <4>1. j[1] \in Class
        BY <3>1, UpToClosed DEF Before
      <4>2. QED
        BY <2>1, <3>1, <4>1
    <3>2. QED
      BY <3>1
  <2>3. ASSUME NEW u \in Thread \ {t}, NEW i \in ev[u].items, i[1] \in Class
        PROVE  /\ i \notin pending' /\ i \notin e.items
               /\ \A j \in Before(i[1], i[2]) : j \notin pending' /\ j \notin e.items
    <3>1. i \notin pending /\ \A j \in Before(i[1], i[2]) : j \notin pending
      BY <2>3 DEF ReportedInOrder
    <3>2. \A j \in Before(i[1], i[2]) : j[1] \in Class
      BY <2>3, UpToClosed DEF Before
    <3>3. QED
      BY <2>1, <2>3, <3>1, <3>2
  <2>4. SUFFICES ASSUME NEW u \in Thread, NEW i \in ev'[u].items, i[1] \in Class
                 PROVE  /\ i \notin pending'
                        /\ \A w \in Thread : i \in ev'[w].items => w = u
                        /\ \A j \in Before(i[1], i[2]) :
                             j \notin pending' /\ \A w \in Thread : j \notin ev'[w].items
    BY DEF ReportedInOrder
  <2>5. CASE u = t
    BY <1>3, <2>1, <2>2, <2>4, <2>5
  <2>6. CASE u # t
    <3>1. i \in ev[u].items
      BY <1>3, <2>4, <2>6
    <3>2. QED
      BY <1>3, <2>3, <2>4, <2>6, <3>1 DEF ReportedInOrder
  <2>7. QED
    BY <2>5, <2>6
<1>7. (\A u \in Thread : Queueing(u))'
  BY <1>3, <1>4 DEF Queueing, NotBatched
<1>8. SentIsOver'
  <2>1. \A i \in e.items : i[1] \in Class => i \in pending
    BY DEF MayReport
  <2>2. \A b \in Batch : \A c \in delivered[b] : c \in Class
    BY Classes DEF TypeOK
  <2>3. ASSUME NEW b \in Batch, NEW c \in delivered[b], NEW f \in Frames(b), ~removed[b]
        PROVE  <<c, f>> \notin pending /\ <<c, f>> \notin e.items
    BY <2>1, <2>2, <2>3 DEF SentIsOver
  <2>4. QED
    BY ZenonT(60), <1>2, <1>3, <2>3 DEF SentIsOver
<1>9. SentIsNotHeld' /\ RemovedBatchIsEmpty'
  BY <1>2 DEF SentIsNotHeld, RemovedBatchIsEmpty, Held, Sound
<1>10. QED
  BY <1>5, <1>6, <1>7, <1>8, <1>9 DEF Facts

(* A new report of the HAL keeps it, since the HAL reports in order.        *)
LEMMA HalCallStep ==
  ASSUME IInv, NEW t \in Thread, HalCall(t)
  PROVE  Facts'
<1>1. PICK f \in Frame : NotifyShutter(t, f) \/ NotifyError(t, f) \/ ProcessCaptureResult(t, f)
  BY DEF HalCall
<1>2. f \in Nat
  BY Bursts DEF Frame, Frames
<1>3. /\ \A e \in Event : Enter(t, e) => UNCHANGED <<removed>>
      /\ \A i \in pending : i[2] < nextFrame
  BY DEF Enter, batchVars, IInv, SubmittedOnly
<1>4. CASE NotifyShutter(t, f)
  <2> DEFINE e == [kind |-> "shutter", frame |-> f, items |-> {<<Shutter, f>>}]
  <2>1. e \in Event
    BY <1>2, Classes DEF Event, Item
  <2>2. MayReport(<<Shutter, f>>) /\ pending' = pending \ {<<Shutter, f>>} /\ Enter(t, e)
    BY <1>4 DEF NotifyShutter
  <2>3. <<Shutter, f>> \in pending
    BY <2>2 DEF MayReport
  <2>4. e.kind = "shutter" /\ e.frame = f /\ e.items = {<<Shutter, f>>}
    OBVIOUS
  <2>5. f < nextFrame
    BY <1>3, <2>3
  <2> HIDE DEF e
  <2>6. QED
    BY <1>3, <2>1, <2>2, <2>4, <2>5, Classes, EnterStep
<1>5. CASE NotifyError(t, f)
  <2> DEFINE e == [kind |-> "error", frame |-> f, items |-> {<<Error, f>>}]
  <2>1. e \in Event
    BY <1>2 DEF Event, Item
  <2>2. pending' \subseteq pending /\ Enter(t, e) /\ \E i \in pending : i[2] = f
    BY <1>5 DEF NotifyError
  <2>3. e.kind = "error" /\ e.frame = f /\ e.items = {<<Error, f>>}
    OBVIOUS
  <2>4. f < nextFrame
    BY <1>3, <2>2
  <2>5. \A i \in e.items : i[1] \notin Class /\ i[2] < nextFrame
    BY <2>4, Classes
  <2> HIDE DEF e
  <2>6. UNCHANGED <<removed>>
    BY <1>3, <2>1, <2>2
  <2>7. e.kind # "shutter"
    BY <2>3
  <2>8. QED
    BY <2>1, <2>2, <2>3, <2>5, <2>6, <2>7, EnterStep
<1>6. CASE ProcessCaptureResult(t, f)
  <2>1. PICK classes \in SUBSET (Class \ {Shutter}) :
          /\ \A i \in classes \X {f} : MayReport(i)
          /\ pending' = pending \ (classes \X {f})
          /\ Enter(t, [kind |-> "result", frame |-> f, items |-> classes \X {f}])
    BY <1>6 DEF ProcessCaptureResult
  <2> DEFINE e == [kind |-> "result", frame |-> f, items |-> classes \X {f}]
  <2>2. e \in Event
    BY <1>2 DEF Event, Item
  <2>3. e.kind = "result" /\ e.frame = f /\ e.items = classes \X {f} /\ Enter(t, e)
    BY <2>1
  <2>4. \A i \in e.items : i[2] < nextFrame
    BY <1>3, <2>1, <2>3 DEF MayReport
  <2> HIDE DEF e
  <2>5. QED
    BY <1>3, <2>1, <2>2, <2>3, <2>4, EnterStep
<1>7. QED
  BY <1>1, <1>4, <1>5, <1>6

(* The last frame of a class comes with the reports on all its earlier     *)
(* frames made: nothing more can be queued.                                *)
LEMMA LockBatchStep ==
  ASSUME IInv, NEW t \in Thread, LockBatch(t)
  PROVE  Facts'
<1> USE DEF IInv, halVars, batchVars, outVars
<1> DEFINE b == at[t]
           s == QueueItems(b, ev[t])
<1>1. /\ pc \in [Thread -> State] /\ ev \in [Thread -> Event]
      /\ at \in [Thread -> Batch \cup {NotBatched}]
      /\ queue \in [Batch -> [BatchedClass -> Seq(Nat)]]
      /\ delivered \in [Batch -> SUBSET BatchedClass]
  BY DEF TypeOK
<1>2. /\ pc[t] = "queue" /\ pc' = [pc EXCEPT ![t] = "calling"]
      /\ UNCHANGED <<burst, nextFrame, pending, inflight, removed, ev, at>>
  BY DEF LockBatch
<1>3. CASE removed[b]
  <2>1. UNCHANGED <<queue, delivered>>
    BY <1>3 DEF LockBatch, FallsBack
  <2>2. \A u \in Thread : pc'[u] = "queue" => pc[u] = "queue"
    BY <1>1, <1>2
  <2>3. QED
    BY <1>2, <2>1, <2>2, QuietStep
<1>4. CASE ~removed[b]
  <2>1. /\ b \in Batch /\ s \in BatchState /\ Sound(s)
        /\ \A c \in s.delivered :
             \/ c \in delivered[b]
             \/ /\ ev[t].frame = Burst[b].last
                /\ \E d \in Class : <<d, ev[t].frame>> \in ev[t].items /\ c \in UpTo(d)
    BY <1>2, <1>4, QueueItemsOK
  <2>2. /\ queue' = [queue EXCEPT ![b] = s.queue]
        /\ delivered' = [delivered EXCEPT ![b] = s.delivered]
    BY <1>4 DEF LockBatch, FallsBack
  <2>3. b < burst
    BY DEF SubmittedOnly
  <2> HIDE DEF b, s
  <2>4. /\ queue'[b] = s.queue /\ delivered'[b] = s.delivered
        /\ \A a \in Batch \ {b} : queue'[a] = queue[a] /\ delivered'[a] = delivered[a]
    BY <1>1, <2>1, <2>2
  <2>5. SubmittedOnly' /\ ReportedInOrder' /\ (\A u \in Thread : Queueing(u))'
    <3>1. SubmittedOnly'
      BY <1>2, <2>3, <2>4 DEF SubmittedOnly
    <3>2. QED
      BY <1>1, <1>2, <3>1 DEF ReportedInOrder, Queueing
  <2>6. SentIsOver'
    <3>1. ASSUME NEW d \in Class, NEW c \in UpTo(d), <<d, Burst[b].last>> \in ev[t].items,
                 NEW f \in Frames(b)
          PROVE  /\ <<c, f>> \notin pending
                 /\ \A u \in Thread \ {t} : <<c, f>> \notin ev[u].items
      <4>1. f \in Frame /\ f <= Burst[b].last
        BY SMTT(30), <2>1, Bursts DEF Frame, Frames
      <4>2. <<c, f>> = <<d, Burst[b].last>> \/ <<c, f>> \in Before(d, Burst[b].last)
        BY <4>1 DEF Before
      <4>3. \A i \in ev[t].items : i[1] \in Class =>
              /\ i \notin pending
              /\ \A u \in Thread : i \in ev[u].items => u = t
              /\ \A j \in Before(i[1], i[2]) : j \notin pending /\ \A u \in Thread : j \notin ev[u].items
        BY DEF ReportedInOrder
      <4>4. QED
        BY <3>1, <4>2, <4>3
    <3>2. ASSUME NEW a \in Batch, NEW c \in delivered'[a], NEW f \in Frames(a), ~removed[a]
          PROVE  /\ <<c, f>> \notin pending
                 /\ \A u \in Thread \ {t} : pc[u] = "queue" => <<c, f>> \notin ev[u].items
      <4>1. CASE c \in delivered[a]
        BY <3>2, <4>1 DEF SentIsOver
      <4>2. CASE c \notin delivered[a]
        <5>1. a = b /\ ev[t].frame = Burst[b].last
          BY <2>1, <2>4, <3>2, <4>2
        <5>2. PICK d \in Class : <<d, Burst[b].last>> \in ev[t].items /\ c \in UpTo(d)
          BY <2>1, <2>4, <3>2, <4>2, <5>1
        <5>3. QED
          BY <3>1, <3>2, <5>1, <5>2
      <4>3. QED
        BY <4>1, <4>2
    <3>3. \A u \in Thread : pc'[u] = "queue" => u # t /\ pc[u] = "queue"
      BY <1>1, <1>2
    <3>4. QED
      BY <1>2, <3>2, <3>3 DEF SentIsOver
  <2>7. SentIsNotHeld'
    BY <2>1, <2>4 DEF SentIsNotHeld, Held, Sound
  <2>8. RemovedBatchIsEmpty'
    BY <1>2, <1>4, <2>4 DEF RemovedBatchIsEmpty, b
  <2>9. QED
    BY <2>5, <2>6, <2>7, <2>8 DEF Facts
<1>5. QED
  BY <1>3, <1>4

(* The error path empties the batch before it removes it.                  *)
LEMMA FlushFirstBatchStep ==
  ASSUME IInv, NEW t \in Thread, FlushFirstBatch(t)
  PROVE  Facts'
<1> USE DEF IInv, halVars, batchVars, outVars
<1> DEFINE b == Head(inflight)
           s == FlushBatch(b)
<1>1. /\ pc \in [Thread -> State] /\ at \in [Thread -> Batch \cup {NotBatched}]
      /\ queue \in [Batch -> [BatchedClass -> Seq(Nat)]]
      /\ delivered \in [Batch -> SUBSET BatchedClass] /\ removed \in [Batch -> BOOLEAN]
  BY DEF TypeOK
<1>2. /\ inflight \in Seq(Batch) /\ inflight # <<>>
      /\ b \in Batch /\ b < burst
      /\ \A k \in DOMAIN Tail(inflight) : Tail(inflight)[k] < burst
  <2>1. inflight \in Seq(Batch) /\ inflight # <<>> /\ Len(inflight) \in Nat
    BY DEF FlushFirstBatch, TypeOK
  <2>2. b \in Batch /\ 1 \in DOMAIN inflight /\ b = inflight[1]
    BY <2>1
  <2>3. \A k \in DOMAIN Tail(inflight) : k + 1 \in DOMAIN inflight /\ Tail(inflight)[k] = inflight[k + 1]
    BY <2>1
  <2>4. QED
    BY <2>1, <2>2, <2>3 DEF SubmittedOnly
<1>3. s \in BatchState /\ s.delivered = BatchedClass /\ Sound(s)
  BY <1>2, HeldType, FlushEffect DEF SentIsNotHeld
<1>4. /\ queue' = [queue EXCEPT ![b] = s.queue]
      /\ delivered' = [delivered EXCEPT ![b] = s.delivered]
      /\ removed' = [removed EXCEPT ![b] = TRUE]
      /\ at' = [at EXCEPT ![t] = b] /\ inflight' = Tail(inflight)
      /\ pc' = [pc EXCEPT ![t] = "calling"]
      /\ UNCHANGED <<burst, nextFrame, pending, ev>>
  BY DEF FlushFirstBatch
<1> HIDE DEF b, s
<1>5. /\ queue'[b] = s.queue /\ delivered'[b] = s.delivered /\ removed'[b]
      /\ \A a \in Batch \ {b} :
           queue'[a] = queue[a] /\ delivered'[a] = delivered[a] /\ removed'[a] = removed[a]
      /\ \A u \in Thread : pc'[u] = "queue" => u # t /\ pc[u] = "queue"
      /\ at'[t] = b /\ \A u \in Thread \ {t} : at'[u] = at[u]
  BY <1>1, <1>2, <1>4
<1>6. SubmittedOnly'
  BY <1>2, <1>4, <1>5 DEF SubmittedOnly
<1>7. ReportedInOrder' /\ (\A u \in Thread : Queueing(u))'
  BY ZenonT(60), <1>4, <1>5 DEF ReportedInOrder, Queueing
<1>8. SentIsOver'
  <2>1. ASSUME NEW a \in Batch, NEW c \in delivered'[a], NEW f \in Frames(a), ~removed'[a]
        PROVE  /\ <<c, f>> \notin pending
               /\ \A u \in Thread : pc[u] = "queue" => <<c, f>> \notin ev[u].items
    <3>1. c \in delivered[a] /\ ~removed[a]
      BY <1>5, <2>1
    <3>2. QED
      BY <2>1, <3>1 DEF SentIsOver
  <2>2. QED
    BY ZenonT(60), <1>4, <1>5, <2>1 DEF SentIsOver
<1>9. SentIsNotHeld'
  BY <1>3, <1>5 DEF SentIsNotHeld, Held, Sound
<1>10. RemovedBatchIsEmpty'
  BY <1>3, <1>5 DEF RemovedBatchIsEmpty, Sound
<1>11. QED
  BY <1>6, <1>7, <1>8, <1>9, <1>10 DEF Facts

(* A batch whose classes are all delivered holds nothing.                  *)
LEMMA RemoveFirstBatchStep ==
  ASSUME IInv, NEW t \in Thread, RemoveFirstBatch(t)
  PROVE  Facts'
<1> USE DEF IInv, halVars, batchVars, outVars
<1>1. /\ pc \in [Thread -> State] /\ at \in [Thread -> Batch \cup {NotBatched}]
      /\ ev \in [Thread -> Event] /\ removed \in [Batch -> BOOLEAN]
  BY DEF TypeOK
<1>2. /\ pc' = [pc EXCEPT ![t] = "idle"] /\ ev' = [ev EXCEPT ![t] = NoEvent]
      /\ at' = [at EXCEPT ![t] = NotBatched]
      /\ UNCHANGED <<burst, nextFrame, pending, queue, delivered>>
  BY DEF RemoveFirstBatch, Return
<1>3. \A u \in Thread : /\ ev'[u] = ev[u] \/ ev'[u] = NoEvent
                        /\ at'[u] = at[u] \/ at'[u] = NotBatched
                        /\ pc'[u] = "queue" => pc[u] = "queue" /\ at'[u] = at[u] /\ ev'[u] = ev[u]
  BY <1>1, <1>2
<1>4. CASE UNCHANGED <<removed, inflight>>
  BY <1>2, <1>3, <1>4, QuietStep
<1>5. CASE ~UNCHANGED <<removed, inflight>>
  <2> DEFINE b == Head(inflight)
  <2>1. /\ inflight # <<>> /\ AllDelivered(b)
        /\ removed' = [removed EXCEPT ![b] = TRUE] /\ inflight' = Tail(inflight)
    BY <1>5 DEF RemoveFirstBatch
  <2>2. /\ b \in Batch /\ \A k \in DOMAIN inflight' : inflight'[k] < burst
    <3>1. inflight \in Seq(Batch) /\ Len(inflight) \in Nat
      BY DEF TypeOK
    <3>2. b \in Batch
      BY <2>1, <3>1
    <3>3. \A k \in DOMAIN inflight' : k + 1 \in DOMAIN inflight /\ inflight'[k] = inflight[k + 1]
      BY <2>1, <3>1
    <3>4. QED
      BY <3>2, <3>3 DEF SubmittedOnly
  <2> HIDE DEF b
  <2>3. /\ removed'[b] /\ \A a \in Batch \ {b} : removed'[a] = removed[a]
    BY <1>1, <2>1, <2>2
  <2>4. \A c \in BatchedClass : queue[b][c] = <<>>
    BY <2>1, <2>2 DEF AllDelivered, SentIsNotHeld, Sound, Held
  <2>5. \A u \in Thread : ev'[u].items \subseteq ev[u].items
    BY <1>3, NoEventType
  <2>6. SubmittedOnly'
    <3>1. \A u \in Thread : at'[u] < burst
      <4>1. NotBatched < burst
        BY DEF SubmittedOnly, NotBatched, TypeOK
      <4>2. QED
        BY <1>3, <4>1 DEF SubmittedOnly
    <3>2. \A u \in Thread : \A i \in ev'[u].items : i[2] < nextFrame
      BY <2>5 DEF SubmittedOnly
    <3>3. QED
      BY <1>2, <2>2, <3>1, <3>2 DEF SubmittedOnly
  <2>7. ReportedInOrder' /\ (\A u \in Thread : Queueing(u))'
    BY <1>2, <1>3, <2>5 DEF ReportedInOrder, Queueing
  <2>8. SentIsOver'
    <3>1. ASSUME NEW a \in Batch, NEW c \in delivered[a], NEW f \in Frames(a), ~removed'[a]
          PROVE  /\ <<c, f>> \notin pending
                 /\ \A u \in Thread : pc[u] = "queue" => <<c, f>> \notin ev[u].items
      <4>1. ~removed[a]
        BY <2>3, <3>1
      <4>2. QED
        BY <3>1, <4>1 DEF SentIsOver
    <3>2. QED
      BY <1>2, <1>3, <3>1 DEF SentIsOver
  <2>9. SentIsNotHeld' /\ RemovedBatchIsEmpty'
    BY <1>2, <2>3, <2>4 DEF SentIsNotHeld, RemovedBatchIsEmpty, Held, Sound
  <2>10. QED
    BY <2>6, <2>7, <2>8, <2>9 DEF Facts
<1>6. QED
  BY <1>4, <1>5
-----------------------------------------------------------------------------
(* The invariant holds in the beginning.                                    *)
LEMMA InitInvariant == Init => IInv
<1> SUFFICES ASSUME Init PROVE IInv
  OBVIOUS
<1> USE DEF Init
<1>1. /\ burst = 1 /\ nextFrame \in Nat
      /\ burst \in Batch => nextFrame >= Burst[burst].first
  BY Bursts
<1>2. TypeOK
  <2>1. <<>> \in Seq(Batch) /\ <<>> \in Seq(Nat) /\ <<>> \in Seq(Call)
    OBVIOUS
  <2>2. /\ burst \in Nat /\ nextFrame \in Nat /\ errors \in Nat
    BY <1>1
  <2>8. /\ pending \subseteq Item /\ owed \subseteq Item
        /\ received \subseteq Delivery /\ dropped \subseteq Delivery
        /\ crashed \in BOOLEAN
    BY Zenon
  <2>7. inflight \in Seq(Batch)
    BY <2>1
  <2>3. /\ queue \in [Batch -> [BatchedClass -> Seq(Nat)]]
        /\ delivered \in [Batch -> SUBSET BatchedClass]
        /\ removed \in [Batch -> BOOLEAN]
    BY <2>1
  <2>4. /\ {mLock, cbLock} \subseteq Thread \cup {NoThread}
        /\ bLock \in [Batch -> Thread \cup {NoThread}]
        /\ pc \in [Thread -> State] /\ at \in [Thread -> Batch \cup {NotBatched}]
    BY DEF State
  <2>5. ev \in [Thread -> Event] /\ left \in [Thread -> Nat] /\ todo \in [Thread -> Seq(Call)]
    BY <2>1, NoEventType
  <2>6. QED
    BY <2>2, <2>3, <2>4, <2>5, <2>7, <2>8 DEF TypeOK
<1>3. SubmittedOnly
  BY <1>1, NoEventType DEF SubmittedOnly, NotBatched
<1>4. ReportedInOrder /\ (\A t \in Thread : Queueing(t)) /\ SentIsOver
  BY NoEventType DEF ReportedInOrder, Queueing, SentIsOver
<1>5. SentIsNotHeld /\ RemovedBatchIsEmpty
  BY DEF SentIsNotHeld, RemovedBatchIsEmpty, Held, Sound
<1>6. QED
  BY <1>2, <1>3, <1>4, <1>5 DEF IInv

(* Every step keeps it.                                                     *)
LEMMA InductiveInvariant == IInv /\ [Next]_vars => IInv'
<1> SUFFICES ASSUME IInv, [Next]_vars PROVE IInv'
  OBVIOUS
<1>1. SUFFICES TypeOK' /\ Facts'
  BY DEF IInv, Facts
<1>2. TypeOK
  BY DEF IInv
<1>3. CASE (Submit \/ SubmitFails \/ RegisterBatch) /\ UNCHANGED crashed
  BY <1>2, <1>3, BinderType, SubmitStep, NextBurstStep
<1>4. ASSUME NEW t \in Thread, HalCall(t), UNCHANGED crashed
      PROVE  TypeOK' /\ Facts'
  BY <1>2, <1>4, HalCallType, HalCallStep
<1>5. ASSUME NEW t \in Thread, Step(t), UNCHANGED crashed
      PROVE  TypeOK' /\ Facts'
  <2>1. TypeOK'
    BY <1>5, StepType
  <2>2. Facts'
    BY <1>5, QuietSteps, LockBatchStep, FlushFirstBatchStep, RemoveFirstBatchStep DEF Step
  <2>3. QED
    BY <2>1, <2>2
<1>6. ASSUME NEW t \in Thread, FlushNothing(t)
      PROVE  TypeOK' /\ Facts'
  BY <1>2, <1>6, FlushNothingType, QuietSteps
<1>7. CASE UNCHANGED vars
  <2>1. TypeOK'
    BY <1>2, <1>7 DEF TypeOK, vars, halVars, batchVars, lockVars, threadVars, outVars
  <2>2. Facts'
    BY <1>7, QuietStep DEF vars, halVars, batchVars, threadVars
  <2>3. QED
    BY <2>1, <2>2
<1>8. QED
  BY <1>3, <1>4, <1>5, <1>6, <1>7 DEF Next, Work

(* Every variable of the batcher keeps its type.                           *)
THEOREM TypeCorrect == Spec => []TypeOK
<1>1. IInv => TypeOK
  BY DEF IInv
<1>2. QED
  BY <1>1, InitInvariant, InductiveInvariant, PTL DEF Spec

(* A batch that left mInflightBatches, whether complete or flushed by an    *)
(* error, holds nothing back, however the HAL's threads interleave: the     *)
(* check of mRemoved under the lock of the batch is enough.                 *)
THEOREM RemovedBatchesAreEmpty == Spec => []RemovedBatchIsEmpty
<1>1. IInv => RemovedBatchIsEmpty
  BY DEF IInv
<1>2. QED
  BY <1>1, InitInvariant, InductiveInvariant, PTL DEF Spec
-----------------------------------------------------------------------------
(* What is sent up, and under which number: all that is held of a set of   *)
(* classes, in one call.                                                   *)
Number(b, c, k, f) == IF c \in BatchedBuffers THEN Label(b, k) ELSE f
OfClass(queues, b, c) ==
  {<<Number(b, c, k, queues[c][k]), c, queues[c][k]>> : k \in DOMAIN queues[c]}
Content(queues, b, classes) == UNION {OfClass(queues, b, c) : c \in classes}

(* The batch r is what the batch s becomes by sending these classes.       *)
Sends(s, r, b, classes) ==
  /\ r \in BatchState /\ Sound(r)
  /\ r.delivered = s.delivered \cup classes
  /\ r.queue = [c \in BatchedClass |-> IF c \in classes THEN <<>> ELSE s.queue[c]]
  /\ \E process \in BOOLEAN : r.calls = AddCall(s.calls, process, Content(s.queue, b, classes))

(* An item is no buffer unless its class is one.                            *)
LEMMA Kinds ==
  /\ Shutter \notin BatchedBuffers /\ Shutter \notin PartialClass
  /\ PartialClass \cap BatchedBuffers = {}
  /\ BatchedClass = {Shutter} \cup PartialClass \cup BatchedBuffers
BY DEF BatchedClass, BatchedBuffers, PartialClass, Shutter, Partial, Buffer

(* What is not a buffer goes up under the number of its own frame.          *)
LEMMA PlainContent ==
  ASSUME NEW queues \in [BatchedClass -> Seq(Nat)], NEW b, NEW c \in BatchedClass \ BatchedBuffers
  PROVE  OfClass(queues, b, c) = Plain({c} \X Elems(queues[c]))
<1> DEFINE q == queues[c]
<1>1. OfClass(queues, b, c) = {<<q[k], c, q[k]>> : k \in DOMAIN q}
  BY DEF OfClass, Number
<1>2. Plain({c} \X Elems(q)) = {<<f, c, f>> : f \in Elems(q)}
  <2>1. {c} \X Elems(q) = {<<c, f>> : f \in Elems(q)}
    OBVIOUS
  <2>2. \A x : x \in Plain({c} \X Elems(q)) <=> \E f \in Elems(q) : x = <<f, c, f>>
    <3>1. \A i \in {c} \X Elems(q) : i[1] = c /\ i[2] \in Elems(q)
      OBVIOUS
    <3>2. \A f \in Elems(q) : <<c, f>> \in {c} \X Elems(q) /\ <<c, f>>[1] = c /\ <<c, f>>[2] = f
      OBVIOUS
    <3>3. QED
      BY <3>1, <3>2 DEF Plain
  <2>3. QED
    BY <2>2
<1>3. {<<q[k], c, q[k]>> : k \in DOMAIN q} = {<<f, c, f>> : f \in Elems(q)}
  BY DEF Elems
<1>4. QED
  BY <1>1, <1>2, <1>3

(* Classes of which nothing is held add nothing.                            *)
LEMMA EmptyContent ==
  ASSUME NEW queues, NEW b, NEW classes, \A c \in classes : queues[c] = <<>>
  PROVE  Content(queues, b, classes) = {}
BY DEF Content, OfClass

(* Shutters are sent,                                                       *)
LEMMA ShuttersSent ==
  ASSUME NEW s \in BatchState, Sound(s), NEW b
  PROVE  Sends(s, SendBatchShutterCbs(s), b, {Shutter})
<1> DEFINE r == SendBatchShutterCbs(s)
<1>1. /\ r \in BatchState /\ Sound(r) /\ r.delivered = s.delivered \cup {Shutter}
  BY SendShuttersType, SendShuttersEffect
<1>2. s.queue \in [BatchedClass -> Seq(Nat)]
  BY DEF BatchState
<1>3. CASE Shutter \in s.delivered
  <2>1. r = s /\ s.queue[Shutter] = <<>>
    BY <1>3 DEF SendBatchShutterCbs, Sound
  <2>2. Content(s.queue, b, {Shutter}) = {}
    BY <2>1, EmptyContent
  <2>3. r.calls = AddCall(s.calls, TRUE, Content(s.queue, b, {Shutter}))
    BY <2>1, <2>2 DEF AddCall
  <2>4. r.queue = [c \in BatchedClass |-> IF c \in {Shutter} THEN <<>> ELSE s.queue[c]]
    BY <1>2, <2>1
  <2>5. QED
    BY <1>1, <2>3, <2>4 DEF Sends
<1>4. CASE Shutter \notin s.delivered
  <2>1. /\ r.queue = [s.queue EXCEPT ![Shutter] = <<>>]
        /\ r.calls = AddCall(s.calls, FALSE, Plain({Shutter} \X Elems(s.queue[Shutter])))
    BY <1>4 DEF SendBatchShutterCbs
  <2>2. Content(s.queue, b, {Shutter}) = Plain({Shutter} \X Elems(s.queue[Shutter]))
    <3>1. OfClass(s.queue, b, Shutter) = Plain({Shutter} \X Elems(s.queue[Shutter]))
      <4>1. Shutter \in BatchedClass \ BatchedBuffers
        BY Kinds, Classes
      <4>2. QED
        BY <1>2, <4>1, PlainContent
    <3>2. Content(s.queue, b, {Shutter}) = OfClass(s.queue, b, Shutter)
      BY DEF Content
    <3>3. QED
      BY <3>1, <3>2
  <2>3. r.queue = [c \in BatchedClass |-> IF c \in {Shutter} THEN <<>> ELSE s.queue[c]]
    BY <1>2, <2>1
  <2>4. QED
    BY <1>1, <2>1, <2>2, <2>3 DEF Sends
<1>5. QED
  BY <1>3, <1>4

(* buffers are sent,                                                        *)
LEMMA BuffersSent ==
  ASSUME NEW s \in BatchState, Sound(s), NEW b \in Batch, NEW classes \in SUBSET BatchedBuffers
  PROVE  Sends(s, SendBatchBuffers(s, b, classes), b, classes)
<1> DEFINE r == SendBatchBuffers(s, b, classes)
           open == classes \ s.delivered
           items == UNION {{<<Label(b, i), c, s.queue[c][i]>> : i \in DOMAIN s.queue[c]} : c \in open}
<1>1. classes \subseteq BatchedClass
  BY Classes
<1>2. /\ r \in BatchState /\ Sound(r) /\ r.delivered = s.delivered \cup classes
  BY <1>1, SendBuffersType, SendBuffersEffect
<1>3. /\ r.queue = [c \in BatchedClass |-> IF items # {} /\ c \in classes THEN <<>> ELSE s.queue[c]]
      /\ r.calls = AddCall(s.calls, TRUE, items)
  BY DEF SendBatchBuffers
<1>4. s.queue \in [BatchedClass -> Seq(Nat)] /\ \A c \in s.delivered : s.queue[c] = <<>>
  BY DEF BatchState, Sound
<1>5. items = Content(s.queue, b, classes)
  <2>1. ASSUME NEW c \in classes
        PROVE  OfClass(s.queue, b, c) = {<<Label(b, i), c, s.queue[c][i]>> : i \in DOMAIN s.queue[c]}
    BY DEF OfClass, Number
  <2>2. \A c \in classes : c \notin open =>
          {<<Label(b, i), c, s.queue[c][i]>> : i \in DOMAIN s.queue[c]} = {}
    BY <1>4
  <2>3. QED
    BY <2>1, <2>2 DEF Content
<1>6. ASSUME items = {}
      PROVE  \A c \in classes : s.queue[c] = <<>>
  <2>1. SUFFICES ASSUME NEW c \in open PROVE s.queue[c] = <<>>
    BY <1>4
  <2>2. s.queue[c] \in Seq(Nat)
    BY <1>1, <1>4
  <2>3. ASSUME NEW i \in DOMAIN s.queue[c] PROVE FALSE
    <3>1. <<Label(b, i), c, s.queue[c][i]>> \in items
      OBVIOUS
    <3>2. QED
      BY <1>6, <3>1
  <2>4. QED
    BY <2>2, <2>3, EmptyDomain
<1>7. r.queue = [c \in BatchedClass |-> IF c \in classes THEN <<>> ELSE s.queue[c]]
  <2> HIDE DEF items
  <2>1. CASE items = {}
    BY <1>3, <1>6, <2>1
  <2>2. CASE items # {}
    BY <1>3, <2>2
  <2>3. QED
    BY <2>1, <2>2
<1>8. QED
  BY <1>2, <1>3, <1>5, <1>7 DEF Sends

(* and metadata is sent.                                                    *)
LEMMA MetadataSent ==
  ASSUME NEW s \in BatchState, Sound(s), NEW b, NEW p \in PartialClass
  PROVE  Sends(s, SendBatchMetadata(s, p), b, UpTo(p))
<1> DEFINE r == SendBatchMetadata(s, p)
<1>1. p \in Class /\ UpTo(p) \subseteq PartialClass /\ UpTo(p) \subseteq BatchedClass
  BY Classes DEF UpTo
<1>2. /\ r \in BatchState /\ Sound(r) /\ r.delivered = s.delivered \cup UpTo(p)
  BY SendMetadataType, SendMetadataEffect
<1>3. s.queue \in [BatchedClass -> Seq(Nat)] /\ \A c \in s.delivered : s.queue[c] = <<>>
  BY DEF BatchState, Sound
<1>4. CASE UpTo(p) \subseteq s.delivered
  <2>1. r = s
    BY <1>4 DEF SendBatchMetadata
  <2>2. Content(s.queue, b, UpTo(p)) = {}
    BY <1>3, <1>4, EmptyContent
  <2>3. r.calls = AddCall(s.calls, TRUE, Content(s.queue, b, UpTo(p)))
    BY <2>1, <2>2 DEF AddCall
  <2>4. r.queue = [c \in BatchedClass |-> IF c \in UpTo(p) THEN <<>> ELSE s.queue[c]]
    BY <1>3, <1>4, <2>1
  <2>5. QED
    BY <1>2, <2>3, <2>4 DEF Sends
<1>5. CASE ~(UpTo(p) \subseteq s.delivered)
  <2>1. /\ r.queue = [c \in BatchedClass |-> IF c \in UpTo(p) THEN <<>> ELSE s.queue[c]]
        /\ r.calls = AddCall(s.calls, TRUE, UNION {Plain({c} \X Elems(s.queue[c])) : c \in UpTo(p)})
    BY <1>5 DEF SendBatchMetadata
  <2>2. \A c \in UpTo(p) : c \in BatchedClass \ BatchedBuffers
    BY <1>1, Kinds
  <2>3. \A c \in UpTo(p) : OfClass(s.queue, b, c) = Plain({c} \X Elems(s.queue[c]))
    BY <1>3, <2>2, PlainContent
  <2>4. Content(s.queue, b, UpTo(p)) = UNION {Plain({c} \X Elems(s.queue[c])) : c \in UpTo(p)}
    BY <2>3 DEF Content
  <2>5. QED
    BY <1>2, <2>1, <2>4 DEF Sends
<1>6. QED
  BY <1>4, <1>5
-----------------------------------------------------------------------------
(* What a list of calls tells the framework; the classes of a family (one   *)
(* class, or the parts of the metadata) are in one call.                    *)
Carries(calls) == UNION {calls[k].items : k \in DOMAIN calls}
Families(calls) ==
  \A k, l \in DOMAIN calls : \A d \in calls[k].items, e \in calls[l].items :
    d[2] \in UpTo(e[2]) => k = l
Unrelated(some, others) ==
  \A d \in some, e \in others : d[2] \notin UpTo(e[2]) /\ e[2] \notin UpTo(d[2])

(* A call of its own for new families keeps the families apart.             *)
LEMMA AddCallCarries ==
  ASSUME NEW calls \in Seq(Call), NEW process \in BOOLEAN, NEW items \in SUBSET Delivery
  PROVE  /\ AddCall(calls, process, items) \in Seq(Call)
         /\ Carries(AddCall(calls, process, items)) = Carries(calls) \cup items
         /\ Families(calls) /\ Unrelated(items, Carries(calls))
              => Families(AddCall(calls, process, items))
<1> DEFINE new == [process |-> process, items |-> items]
           r == AddCall(calls, process, items)
<1>1. CASE items = {}
  BY <1>1 DEF AddCall
<1>2. CASE items # {}
  <2>1. new \in Call /\ r = Append(calls, new)
    BY <1>2 DEF AddCall, Call
  <2>2. Len(calls) \in Nat /\ DOMAIN calls = 1 .. Len(calls)
    OBVIOUS
  <2>3. /\ r \in Seq(Call) /\ DOMAIN r = 1 .. Len(calls) + 1 /\ r[Len(calls) + 1] = new
        /\ \A k \in DOMAIN calls : k \in DOMAIN r /\ r[k] = calls[k]
    <3> HIDE DEF new, r
    <3>1. QED
      BY <2>1, <2>2
  <2>4. \A k \in DOMAIN r : k \in DOMAIN calls \/ k = Len(calls) + 1
    BY <2>2, <2>3
  <2>5. new.items = items
    OBVIOUS
  <2> HIDE DEF new, r
  <2>6. Len(calls) + 1 \in DOMAIN r
    BY <2>2, <2>3
  <2>7. Carries(r) = Carries(calls) \cup items
    <3>1. ASSUME NEW d \in Carries(r)
          PROVE  d \in Carries(calls) \cup items
      BY <2>3, <2>4, <2>5 DEF Carries
    <3>2. ASSUME NEW d \in Carries(calls) \cup items
          PROVE  d \in Carries(r)
      BY <2>3, <2>5, <2>6 DEF Carries
    <3>3. QED
      BY <3>1, <3>2
  <2>8. ASSUME Families(calls), Unrelated(items, Carries(calls))
        PROVE  Families(r)
    <3>1. SUFFICES ASSUME NEW k \in DOMAIN r, NEW l \in DOMAIN r,
                          NEW d \in r[k].items, NEW e \in r[l].items, d[2] \in UpTo(e[2])
                   PROVE  k = l
      BY DEF Families
    <3>2. CASE k \in DOMAIN calls /\ l \in DOMAIN calls
      BY <2>3, <2>8, <3>1, <3>2 DEF Families
    <3>3. CASE k \in DOMAIN calls /\ l = Len(calls) + 1
      <4>1. d \in Carries(calls) /\ e \in items
        BY <2>3, <2>5, <3>3 DEF Carries
      <4>2. QED
        BY <2>8, <3>1, <4>1 DEF Unrelated
    <3>4. CASE k = Len(calls) + 1 /\ l \in DOMAIN calls
      <4>1. d \in items /\ e \in Carries(calls)
        BY <2>3, <2>5, <3>4 DEF Carries
      <4>2. QED
        BY <2>8, <3>1, <4>1 DEF Unrelated
    <3>5. QED
      BY <2>4, <3>2, <3>3, <3>4
  <2>9. QED
    BY <2>3, <2>7, <2>8 DEF r
<1>3. QED
  BY <1>1, <1>2

(* No calls carry nothing.                                                  *)
LEMMA NoCalls == <<>> \in Seq(Call) /\ Carries(<<>>) = {} /\ Families(<<>>)
BY DEF Carries, Families

(* Classes of different kinds are unrelated.                                *)
LEMMA Related ==
  ASSUME NEW c, NEW d, c \in UpTo(d)
  PROVE  c = d \/ (c \in PartialClass /\ d \in PartialClass)
BY DEF UpTo

(* What is sent is of the classes sent, and of a frame that was held.       *)
LEMMA ContentOf ==
  ASSUME NEW queues \in [BatchedClass -> Seq(Nat)], NEW b \in Batch, NEW classes \in SUBSET BatchedClass
  PROVE  /\ Content(queues, b, classes) \in SUBSET Delivery
         /\ \A d : d \in Content(queues, b, classes) <=>
              \E c \in classes : \E k \in DOMAIN queues[c] :
                 d = <<Number(b, c, k, queues[c][k]), c, queues[c][k]>>
<1>1. \A d : d \in Content(queues, b, classes) <=>
              \E c \in classes : \E k \in DOMAIN queues[c] :
                 d = <<Number(b, c, k, queues[c][k]), c, queues[c][k]>>
  BY DEF Content, OfClass
<1>2. ASSUME NEW c \in classes, NEW k \in DOMAIN queues[c]
      PROVE  <<Number(b, c, k, queues[c][k]), c, queues[c][k]>> \in Delivery
  <2>1. queues[c] \in Seq(Nat) /\ k \in Nat \ {0} /\ queues[c][k] \in Nat
    OBVIOUS
  <2>2. Number(b, c, k, queues[c][k]) \in Nat
    <3>1. Burst[b].first \in Nat
      BY Bursts
    <3>2. Label(b, k) \in Nat
      BY <2>1, <3>1 DEF Label
    <3>3. QED
      BY <2>1, <3>2 DEF Number
  <2>3. c \in Class
    BY Classes
  <2>4. QED
    BY <2>1, <2>2, <2>3 DEF Delivery
<1>3. QED
  BY <1>1, <1>2

(* What is sent is of the classes sent.                                     *)
LEMMA ContentClass ==
  ASSUME NEW queues, NEW b, NEW classes, NEW d \in Content(queues, b, classes)
  PROVE  d[2] \in classes
BY DEF Content, OfClass

(* What a batch becomes by sending classes apart from those it sent before. *)
LEMMA SendsCarries ==
  ASSUME NEW s \in BatchState, NEW r, NEW b \in Batch, NEW classes \in SUBSET BatchedClass,
         Sends(s, r, b, classes),
         Families(s.calls), Unrelated(Content(s.queue, b, classes), Carries(s.calls))
  PROVE  /\ Carries(r.calls) = Carries(s.calls) \cup Content(s.queue, b, classes)
         /\ Families(r.calls)
<1>1. s.queue \in [BatchedClass -> Seq(Nat)] /\ s.calls \in Seq(Call)
  BY DEF BatchState
<1>2. Content(s.queue, b, classes) \in SUBSET Delivery
  BY <1>1, ContentOf
<1>3. PICK process \in BOOLEAN : r.calls = AddCall(s.calls, process, Content(s.queue, b, classes))
  BY DEF Sends
<1>4. QED
  BY <1>1, <1>2, <1>3, AddCallCarries

(* What it holds of other classes it keeps.                                 *)
LEMMA SendsKeeps ==
  ASSUME NEW s, NEW r, NEW b, NEW classes,
         Sends(s, r, b, classes), NEW others \in SUBSET BatchedClass, others \cap classes = {}
  PROVE  Content(r.queue, b, others) = Content(s.queue, b, others)
<1>1. \A c \in others : r.queue[c] = s.queue[c]
  BY DEF Sends
<1>2. QED
  BY <1>1 DEF Content, OfClass
-----------------------------------------------------------------------------
(* What an event does to a batch: it is queued, and an item of the last    *)
(* frame ends its class and the earlier parts.                             *)
Pushed(b, e) ==
  [c \in BatchedClass |-> IF <<c, e.frame>> \in e.items THEN Append(queue[b][c], e.frame) ELSE queue[b][c]]
Ended(b, e) ==
  {c \in BatchedClass : /\ e.frame = Burst[b].last
                        /\ \E d \in BatchedClass : <<d, e.frame>> \in e.items /\ c \in UpTo(d)}
Unbatched(e) == {i \in e.items : i[1] \notin BatchedClass}

(* The events of notify(shutter) and processCaptureResult().               *)
Piecemeal(e) ==
  /\ e.items \subseteq Class \X {e.frame}
  /\ \A i, j \in e.items : {i[1], j[1]} \subseteq PartialClass => i = j
  /\ e.kind = "shutter" => e.items = {<<Shutter, e.frame>>}
  /\ e.kind # "shutter" => <<Shutter, e.frame>> \notin e.items

(* What queueing an event makes of a batch: nothing else changes, and what *)
(* goes up are the unbatched items and all that is held of the ended       *)
(* classes.                                                                *)
LEMMA QueueItemsSends ==
  ASSUME NEW b \in Batch, Held(b) \in BatchState, Sound(Held(b)),
         NEW e \in Event, Piecemeal(e), \A c \in delivered[b] : <<c, e.frame>> \notin e.items
  PROVE  LET r == QueueItems(b, e)
         IN  /\ r \in BatchState /\ Sound(r)
             /\ r.delivered = delivered[b] \cup Ended(b, e)
             /\ r.queue = [c \in BatchedClass |-> IF c \in Ended(b, e) THEN <<>> ELSE Pushed(b, e)[c]]
             /\ Pushed(b, e) \in [BatchedClass -> Seq(Nat)]
             /\ Carries(r.calls) = Plain(Unbatched(e)) \cup Content(Pushed(b, e), b, Ended(b, e))
             /\ Families(r.calls)
<1> DEFINE filled == {i[1] : i \in e.items} \cap BatchedClass
           other == {i \in e.items : i[1] \notin filled}
           newQueue == [c \in BatchedClass |-> IF c \in filled
                          THEN Append(queue[b][c], e.frame) ELSE queue[b][c]]
           pushed == [queue |-> newQueue, delivered |-> delivered[b],
                      calls |-> AddCall(<<>>, TRUE, Plain(other))]
           partial == filled \cap PartialClass
           withMd == IF partial = {} THEN pushed
                     ELSE SendBatchMetadata(pushed, CHOOSE c \in partial : TRUE)
           buffers == filled \cap BatchedBuffers
           r == QueueItems(b, e)
<1>1. queue[b] \in [BatchedClass -> Seq(Nat)] /\ delivered[b] \subseteq BatchedClass
  BY DEF Held, BatchState
<1>2. e.frame \in Nat /\ e.items \in SUBSET Item /\ \A i \in e.items : i = <<i[1], e.frame>> /\ i[1] \in Class
  BY DEF Event, Piecemeal
<1>3. \A c \in BatchedClass : c \in filled <=> <<c, e.frame>> \in e.items
  <2>1. ASSUME NEW c \in filled PROVE <<c, e.frame>> \in e.items
    BY <1>2
  <2>2. ASSUME NEW c \in BatchedClass, <<c, e.frame>> \in e.items PROVE c \in filled
    <3>1. <<c, e.frame>>[1] = c
      OBVIOUS
    <3>2. QED
      BY <2>2, <3>1
  <2>3. QED
    BY <2>1, <2>2
<1>4. other = Unbatched(e)
  BY DEF Unbatched
<1>5. newQueue = Pushed(b, e) /\ newQueue \in [BatchedClass -> Seq(Nat)]
  <2>1. newQueue = Pushed(b, e)
    BY <1>3 DEF Pushed
  <2>2. newQueue \in [BatchedClass -> Seq(Nat)]
    BY <1>1, <1>2
  <2>3. QED
    BY <2>1, <2>2
<1>6. /\ pushed \in BatchState /\ Sound(pushed)
      /\ Carries(pushed.calls) = Plain(other) /\ Families(pushed.calls)
  <2>1. Plain(other) \in SUBSET Delivery
    BY <1>2, PlainType
  <2>2. Unrelated(Plain(other), Carries(<<>>))
    BY NoCalls DEF Unrelated
  <2> DEFINE items == Plain(other)
  <2>3. /\ AddCall(<<>>, TRUE, items) \in Seq(Call)
        /\ Carries(AddCall(<<>>, TRUE, items)) = items
        /\ Families(AddCall(<<>>, TRUE, items))
    <3> HIDE DEF items
    <3>1. items \in SUBSET Delivery /\ Unrelated(items, Carries(<<>>))
      BY <2>1, <2>2 DEF items
    <3>2. Carries(<<>>) \cup items = items
      BY NoCalls
    <3>3. QED
      BY <3>1, <3>2, NoCalls, AddCallCarries
  <2>4. pushed \in BatchState
    BY <1>1, <1>5, <2>3 DEF BatchState
  <2>5. \A c \in delivered[b] : queue[b][c] = <<>> /\ c \notin filled
    BY <1>1, <1>3 DEF Sound, Held
  <2>6. Sound(pushed)
    BY <1>1, <2>5 DEF Sound
  <2>7. QED
    BY <2>3, <2>4, <2>6
<1>7. \A d \in Plain(other) : d[2] \in Class \ BatchedClass
  BY <1>2, <1>4 DEF Plain, Unbatched
<1>8. ASSUME NEW classes \in SUBSET BatchedClass
      PROVE  Unrelated(Content(newQueue, b, classes), Plain(other))
  <2>1. \A d \in Content(newQueue, b, classes) : d[2] \in BatchedClass
    BY ContentClass
  <2>2. QED
    BY <1>7, <2>1, Related, Classes DEF Unrelated
<1> HIDE DEF other
<1>9. CASE e.frame # Burst[b].last
  <2>1. r = pushed
    BY <1>9, <1>4 DEF QueueItems, other
  <2>2. Ended(b, e) = {}
    BY <1>9 DEF Ended
  <2>3. Content(Pushed(b, e), b, {}) = {}
    BY DEF Content
  <2> HIDE DEF r, pushed
  <2>4. pushed.queue = newQueue /\ pushed.delivered = delivered[b]
    BY DEF pushed
  <2>5. newQueue = [c \in BatchedClass |-> IF c \in {} THEN <<>> ELSE newQueue[c]]
    OBVIOUS
  <2> HIDE DEF newQueue
  <2>6. QED
    BY <1>4, <1>5, <1>6, <2>1, <2>2, <2>3, <2>4, <2>5 DEF r
<1>10. CASE e.frame = Burst[b].last /\ e.kind = "shutter"
  <2>1. r = SendBatchShutterCbs(pushed)
    BY <1>10 DEF QueueItems, other
  <2>2. Sends(pushed, r, b, {Shutter})
    <3> HIDE DEF r, pushed
    <3>1. QED
      BY <1>6, <2>1, ShuttersSent
  <2>3. Ended(b, e) = {Shutter}
    <3>1. \A d \in BatchedClass : <<d, e.frame>> \in e.items <=> d = Shutter
      BY <1>10, Classes DEF Piecemeal
    <3>2. UpTo(Shutter) = {Shutter}
      BY Classes, Kinds, UpToClosed
    <3>3. QED
      BY <1>10, <3>1, <3>2, Classes DEF Ended
  <2>4. /\ Carries(r.calls) = Plain(other) \cup Content(newQueue, b, {Shutter})
        /\ Families(r.calls)
    <3>1. {Shutter} \in SUBSET BatchedClass
      BY Classes
    <3>2. pushed.queue = newQueue
      OBVIOUS
    <3> HIDE DEF r, pushed, newQueue
    <3>3. QED
      BY <1>6, <1>8, <2>2, <3>1, <3>2, SendsCarries
  <2>5. QED
    BY <1>4, <1>5, <2>2, <2>3, <2>4 DEF Sends
<1>11. CASE e.frame = Burst[b].last /\ e.kind # "shutter"
  <2>1. r = SendBatchBuffers(withMd, b, buffers)
    BY <1>11 DEF QueueItems, other
  <2> DEFINE parts == UNION {UpTo(p) : p \in partial}
  <2>2. parts \subseteq PartialClass /\ parts \subseteq BatchedClass /\ parts \cap buffers = {}
        /\ buffers \in SUBSET BatchedBuffers /\ buffers \in SUBSET BatchedClass
    <3>1. \A p \in partial : UpTo(p) \subseteq PartialClass
      BY DEF UpTo
    <3>2. QED
      BY <3>1, Kinds, Classes
  <2>3. Ended(b, e) = parts \cup buffers
    <3>1. ASSUME NEW c \in Ended(b, e)
          PROVE  c \in parts \cup buffers
      <4>1. PICK d \in BatchedClass : <<d, e.frame>> \in e.items /\ c \in UpTo(d)
        BY DEF Ended
      <4>2. d \in filled /\ d # Shutter
        BY <1>3, <1>11, <4>1 DEF Piecemeal
      <4>3. d \in partial \/ d \in buffers
        BY <4>2, Kinds
      <4>4. d \in buffers => c = d
        BY <4>1, Related, Kinds
      <4>5. QED
        BY <4>1, <4>3, <4>4
    <3>2. ASSUME NEW c \in parts \cup buffers
          PROVE  c \in Ended(b, e)
      <4>1. PICK d \in filled : c \in UpTo(d)
        BY <2>2, Classes, UpToClosed
      <4>2. QED
        BY <1>3, <1>11, <2>2, <4>1 DEF Ended
    <3>3. QED
      BY <3>1, <3>2
  <2>4. /\ withMd \in BatchState /\ Sound(withMd)
        /\ withMd.delivered = delivered[b] \cup parts
        /\ withMd.queue = [c \in BatchedClass |-> IF c \in parts THEN <<>> ELSE newQueue[c]]
        /\ Carries(withMd.calls) = Plain(other) \cup Content(newQueue, b, parts)
        /\ Families(withMd.calls)
        /\ Content(withMd.queue, b, buffers) = Content(newQueue, b, buffers)
    <3>1. CASE partial = {}
      <4>1. withMd = pushed /\ parts = {} /\ Content(newQueue, b, {}) = {}
        BY <3>1 DEF Content
      <4>2. pushed.queue = newQueue /\ pushed.delivered = delivered[b]
        OBVIOUS
      <4>3. newQueue = [c \in BatchedClass |-> IF c \in {} THEN <<>> ELSE newQueue[c]]
        OBVIOUS
      <4> HIDE DEF pushed, newQueue, withMd, parts, partial, buffers
      <4>4. QED
        BY <1>5, <1>6, <4>1, <4>2, <4>3
    <3>2. CASE partial # {}
      <4> DEFINE p == CHOOSE c \in partial : TRUE
      <4>1. p \in partial
        BY <3>2
      <4>2. withMd = SendBatchMetadata(pushed, p) /\ p \in PartialClass
        BY <3>2, <4>1
      <4>3. \A c \in partial : c = p
        <5>1. \A c \in partial : <<c, e.frame>> \in e.items /\ c \in PartialClass
          BY <1>3
        <5> HIDE DEF p, partial
        <5>2. ASSUME NEW c \in partial PROVE c = p
          <6>1. <<c, e.frame>> = <<p, e.frame>>
            BY <4>1, <5>1 DEF Piecemeal
          <6>2. QED
            BY <6>1
        <5>3. QED
          BY <5>2
      <4>4. parts = UpTo(p)
        BY <4>1, <4>3
      <4> HIDE DEF p, partial, withMd, parts, buffers
      <4>5. Sends(pushed, withMd, b, parts)
        <5> HIDE DEF pushed
        <5>1. QED
          BY <1>6, <4>2, <4>4, MetadataSent
      <4>6. pushed.queue = newQueue /\ pushed.delivered = delivered[b]
        OBVIOUS
      <4> HIDE DEF pushed, newQueue
      <4>7. /\ Carries(withMd.calls) = Plain(other) \cup Content(newQueue, b, parts)
            /\ Families(withMd.calls)
            /\ Content(withMd.queue, b, buffers) = Content(newQueue, b, buffers)
        <5>1. Unrelated(Content(pushed.queue, b, parts), Carries(pushed.calls))
          BY <1>6, <1>8, <2>2, <4>6
        <5>2. /\ Carries(withMd.calls) = Carries(pushed.calls) \cup Content(pushed.queue, b, parts)
              /\ Families(withMd.calls)
          BY <1>6, <2>2, <4>5, <5>1, SendsCarries
        <5>3. buffers \cap parts = {}
          BY <2>2
        <5>4. Content(withMd.queue, b, buffers) = Content(pushed.queue, b, buffers)
          BY <2>2, <4>5, <5>3, SendsKeeps
        <5>5. QED
          BY <1>6, <4>6, <5>2, <5>4
      <4>8. QED
        BY <4>5, <4>6, <4>7 DEF Sends
    <3>3. QED
      BY <3>1, <3>2
  <2> HIDE DEF withMd, buffers, partial, parts, r
  <2>5. Sends(withMd, r, b, buffers)
    BY <2>1, <2>2, <2>4, BuffersSent
  <2>6. Unrelated(Content(newQueue, b, buffers), Carries(withMd.calls))
    <3>1. \A d \in Content(newQueue, b, buffers) : d[2] \in buffers
      BY ContentClass
    <3>2. \A d \in Content(newQueue, b, parts) : d[2] \in parts
      BY ContentClass
    <3>3. Unrelated(Content(newQueue, b, buffers), Content(newQueue, b, parts))
      BY <2>2, <3>1, <3>2, Related, Kinds DEF Unrelated
    <3>4. QED
      BY <1>8, <2>2, <2>4, <3>3 DEF Unrelated
  <2>7. /\ Carries(r.calls) = Carries(withMd.calls) \cup Content(newQueue, b, buffers)
        /\ Families(r.calls)
    <3>1. Unrelated(Content(withMd.queue, b, buffers), Carries(withMd.calls))
      BY <2>4, <2>6
    <3>2. withMd \in BatchState /\ Families(withMd.calls) /\ buffers \in SUBSET BatchedClass
      BY <2>2, <2>4
    <3>3. /\ Carries(r.calls) = Carries(withMd.calls) \cup Content(withMd.queue, b, buffers)
          /\ Families(r.calls)
      BY <2>5, <3>1, <3>2, SendsCarries
    <3>4. QED
      BY <2>4, <3>3
  <2>8. Content(newQueue, b, parts) \cup Content(newQueue, b, buffers) = Content(newQueue, b, parts \cup buffers)
    BY DEF Content
  <2>9. r.queue = [c \in BatchedClass |-> IF c \in parts \cup buffers THEN <<>> ELSE newQueue[c]]
    BY <2>4, <2>5 DEF Sends
  <2>10. QED
    BY <1>4, <1>5, <2>3, <2>4, <2>5, <2>7, <2>8, <2>9 DEF Sends, r
<1>12. QED
  BY <1>9, <1>10, <1>11

(* The error path sends all a batch holds.                                 *)
LEMMA FlushSends ==
  ASSUME NEW b \in Batch, Held(b) \in BatchState, Sound(Held(b))
  PROVE  LET r == FlushBatch(b)
         IN  /\ r \in BatchState /\ Sound(r) /\ r.delivered = BatchedClass
             /\ \A c \in BatchedClass : r.queue[c] = <<>>
             /\ Carries(r.calls) = Content(queue[b], b, BatchedClass)
             /\ Families(r.calls)
<1> DEFINE s1 == SendBatchShutterCbs(Held(b))
           s2 == SendBatchBuffers(s1, b, BatchedBuffers)
           s3 == SendBatchMetadata(s2, Partial(NumPartial))
           q == queue[b]
<1>1. /\ Held(b).queue = q /\ Held(b).calls = <<>> /\ q \in [BatchedClass -> Seq(Nat)]
      /\ FlushBatch(b) = s3
  BY DEF Held, FlushBatch, BatchState
<1>2. /\ {Shutter} \in SUBSET BatchedClass /\ BatchedBuffers \in SUBSET BatchedClass
      /\ PartialClass \in SUBSET BatchedClass
  BY Classes
<1>3. Sends(Held(b), s1, b, {Shutter})
  BY ShuttersSent
<1>4. Sends(s1, s2, b, BatchedBuffers)
  <2>1. s1 \in BatchState /\ Sound(s1)
    BY <1>3 DEF Sends
  <2> HIDE DEF s1
  <2>2. QED
    BY <2>1, BuffersSent
<1>5. Sends(s2, s3, b, PartialClass)
  <2>1. s2 \in BatchState /\ Sound(s2)
    BY <1>4 DEF Sends
  <2> HIDE DEF s2
  <2>2. QED
    BY <2>1, Classes, AllPartials, MetadataSent
<1> HIDE DEF s1, s2, s3
<1>6. s1 \in BatchState /\ s2 \in BatchState /\ s3 \in BatchState /\ Sound(s3)
  BY <1>3, <1>4, <1>5 DEF Sends
<1>7. \A c, d : c \in UpTo(d) => c = d \/ (c \in PartialClass /\ d \in PartialClass)
  BY Related
<1>8. \A classes \in SUBSET BatchedClass : \A d \in Content(q, b, classes) : d[2] \in classes
  BY ContentClass
<1>9. /\ Carries(s1.calls) = Content(q, b, {Shutter}) /\ Families(s1.calls)
      /\ Content(s1.queue, b, BatchedBuffers) = Content(q, b, BatchedBuffers)
      /\ Content(s1.queue, b, PartialClass) = Content(q, b, PartialClass)
  <2>1. /\ Unrelated(Content(Held(b).queue, b, {Shutter}), Carries(Held(b).calls))
        /\ Families(Held(b).calls) /\ Carries(Held(b).calls) = {}
    BY <1>1, NoCalls DEF Unrelated
  <2>2. /\ Carries(s1.calls) = Carries(Held(b).calls) \cup Content(Held(b).queue, b, {Shutter})
        /\ Families(s1.calls)
    BY <1>2, <1>3, <2>1, SendsCarries
  <2>3. BatchedBuffers \cap {Shutter} = {} /\ PartialClass \cap {Shutter} = {}
    BY Kinds
  <2>4. /\ Content(s1.queue, b, BatchedBuffers) = Content(Held(b).queue, b, BatchedBuffers)
        /\ Content(s1.queue, b, PartialClass) = Content(Held(b).queue, b, PartialClass)
    BY <1>2, <1>3, <2>3, SendsKeeps
  <2>5. QED
    BY <1>1, <2>1, <2>2, <2>4
<1>10. /\ Carries(s2.calls) = Content(q, b, {Shutter}) \cup Content(q, b, BatchedBuffers)
       /\ Families(s2.calls)
       /\ Content(s2.queue, b, PartialClass) = Content(q, b, PartialClass)
  <2>1. /\ Unrelated(Content(q, b, BatchedBuffers), Content(q, b, {Shutter}))
        /\ PartialClass \cap BatchedBuffers = {}
    BY <1>2, <1>7, <1>8, Kinds DEF Unrelated
  <2>2. Unrelated(Content(s1.queue, b, BatchedBuffers), Carries(s1.calls))
    BY <1>9, <2>1
  <2>3. /\ Carries(s2.calls) = Carries(s1.calls) \cup Content(s1.queue, b, BatchedBuffers)
        /\ Families(s2.calls)
    BY <1>2, <1>4, <1>6, <1>9, <2>2, SendsCarries
  <2>4. Content(s2.queue, b, PartialClass) = Content(s1.queue, b, PartialClass)
    BY <1>2, <1>4, <2>1, SendsKeeps
  <2>5. QED
    BY <1>9, <2>3, <2>4
<1>11. /\ Carries(s3.calls) = Carries(s2.calls) \cup Content(q, b, PartialClass)
       /\ Families(s3.calls)
  <2>1. \A d \in Content(q, b, PartialClass) : d[2] \in PartialClass
    BY <1>2, <1>8
  <2>2. \A d \in Carries(s2.calls) : d[2] \notin PartialClass
    BY <1>2, <1>8, <1>10, Kinds
  <2>3. Unrelated(Content(q, b, PartialClass), Carries(s2.calls))
    BY <1>7, <2>1, <2>2 DEF Unrelated
  <2>4. Unrelated(Content(s2.queue, b, PartialClass), Carries(s2.calls))
    BY <1>10, <2>3
  <2>5. /\ Carries(s3.calls) = Carries(s2.calls) \cup Content(s2.queue, b, PartialClass)
        /\ Families(s3.calls)
    BY <1>2, <1>5, <1>6, <1>10, <2>4, SendsCarries
  <2>6. QED
    BY <1>10, <2>5
<1>12. Content(q, b, BatchedClass)
         = Content(q, b, {Shutter}) \cup Content(q, b, BatchedBuffers) \cup Content(q, b, PartialClass)
  BY Kinds DEF Content
<1>13. s3.delivered = BatchedClass
  <2>1. delivered[b] \subseteq BatchedClass /\ Held(b).delivered = delivered[b]
    BY DEF Held, BatchState
  <2>2. QED
    BY <1>3, <1>4, <1>5, <2>1, Kinds DEF Sends
<1>14. \A c \in BatchedClass : s3.queue[c] = <<>>
  BY <1>6, <1>13 DEF Sound
<1>15. QED
  BY <1>1, <1>6, <1>10, <1>11, <1>12, <1>13, <1>14
-----------------------------------------------------------------------------
(* Bursts do not overlap.                                                   *)
LEMMA FramesDisjoint ==
  ASSUME NEW a \in Batch, NEW b \in Batch, NEW f, f \in Frames(a), f \in Frames(b)
  PROVE  a = b
<1>1. /\ f \in Nat /\ Burst[a].first <= f /\ f <= Burst[a].last
      /\ Burst[b].first <= f /\ f <= Burst[b].last
  BY Bursts DEF Frames
<1>2. ~(a < b) /\ ~(b < a)
  BY <1>1, Bursts
<1>3. QED
  BY <1>2, Bursts

(* Taking the first batch off the deque,                                    *)
LEMMA DequeTail ==
  ASSUME NEW q \in Seq(Batch), q # <<>>
  PROVE  /\ Head(q) \in Batch /\ Tail(q) \in Seq(Batch)
         /\ 1 \in DOMAIN q /\ q[1] = Head(q)
         /\ \A k \in DOMAIN Tail(q) : k + 1 \in DOMAIN q /\ Tail(q)[k] = q[k + 1]
         /\ \A k \in DOMAIN q : k # 1 => k - 1 \in DOMAIN Tail(q) /\ Tail(q)[k - 1] = q[k]
         /\ Elems(q) = {Head(q)} \cup Elems(Tail(q))
<1>1. /\ Head(q) \in Batch /\ Tail(q) \in Seq(Batch)
      /\ 1 \in DOMAIN q /\ q[1] = Head(q)
      /\ \A k \in DOMAIN Tail(q) : k + 1 \in DOMAIN q /\ Tail(q)[k] = q[k + 1]
      /\ \A k \in DOMAIN q : k # 1 => k - 1 \in DOMAIN Tail(q) /\ Tail(q)[k - 1] = q[k]
  OBVIOUS
<1>2. Elems(q) = {Head(q)} \cup Elems(Tail(q))
  <2>1. ASSUME NEW k \in DOMAIN q
        PROVE  q[k] \in {Head(q)} \cup Elems(Tail(q))
    BY <1>1 DEF Elems
  <2>2. ASSUME NEW b \in {Head(q)} \cup Elems(Tail(q))
        PROVE  \E k \in DOMAIN q : b = q[k]
    BY <1>1 DEF Elems
  <2>3. QED
    BY <2>1, <2>2 DEF Elems
<1>3. QED
  BY <1>1, <1>2

(* and adding one.                                                          *)
LEMMA DequeAppend ==
  ASSUME NEW S, NEW q \in Seq(S), NEW b \in S
  PROVE  /\ Append(q, b) \in Seq(S)
         /\ Len(q) \in Nat /\ DOMAIN q = 1 .. Len(q)
         /\ DOMAIN Append(q, b) = DOMAIN q \cup {Len(q) + 1}
         /\ \A k \in DOMAIN q : Append(q, b)[k] = q[k]
         /\ Append(q, b)[Len(q) + 1] = b
         /\ Elems(Append(q, b)) = Elems(q) \cup {b}
<1>1. /\ Append(q, b) \in Seq(S)
      /\ Len(q) \in Nat /\ DOMAIN q = 1 .. Len(q)
      /\ DOMAIN Append(q, b) = DOMAIN q \cup {Len(q) + 1}
      /\ \A k \in DOMAIN q : Append(q, b)[k] = q[k]
      /\ Append(q, b)[Len(q) + 1] = b
  OBVIOUS
<1>2. QED
  BY <1>1 DEF Elems
-----------------------------------------------------------------------------
(* What the HAL may report: an event of its own kind, with an effect on    *)
(* what it owes.                                                           *)
Reports(t, e) ==
  /\ e \in Event /\ e.frame \in Frame /\ Reportable(e.frame) /\ Enter(t, e)
  /\ \/ /\ e.kind # "error" /\ Piecemeal(e) /\ e.items # {}
        /\ \A i \in e.items : MayReport(i)
        /\ pending' = pending \ e.items
        /\ UNCHANGED <<owed, errors>>
     \/ /\ e.kind = "error" /\ e.items = {<<Error, e.frame>>}
        /\ \E classes \in SUBSET (BatchedClass \ BatchedBuffers) :
             LET lost == pending \cap (classes \X {e.frame})
             IN  pending' = pending \ lost /\ owed' = owed \ lost
        /\ \E i \in pending : i[2] = e.frame
        /\ errors' = errors + 1 /\ errors < MaxErrors

(* The three calls of the HAL report in this way.                           *)
LEMMA HalCallReports ==
  ASSUME NEW t \in Thread, HalCall(t)
  PROVE  \E e \in Event : Reports(t, e)
<1>1. PICK f \in Frame : NotifyShutter(t, f) \/ NotifyError(t, f) \/ ProcessCaptureResult(t, f)
  BY DEF HalCall
<1>2. f \in Nat
  BY Bursts DEF Frame, Frames
<1>3. CASE NotifyShutter(t, f)
  <2> DEFINE e == [kind |-> "shutter", frame |-> f, items |-> {<<Shutter, f>>}]
  <2>1. e \in Event /\ e.kind = "shutter" /\ e.frame = f /\ e.items = {<<Shutter, f>>}
    BY <1>2, Classes DEF Event, Item
  <2>2. /\ MayReport(<<Shutter, f>>) /\ pending' = pending \ {<<Shutter, f>>} /\ Enter(t, e)
        /\ UNCHANGED <<owed, errors>>
    BY <1>3 DEF NotifyShutter
  <2> HIDE DEF e
  <2>3. Piecemeal(e)
    BY <2>1, Classes, Kinds DEF Piecemeal
  <2>4. Reportable(f)
    BY <2>2 DEF MayReport
  <2>5. QED
    BY <2>1, <2>2, <2>3, <2>4 DEF Reports
<1>4. CASE NotifyError(t, f)
  <2> DEFINE e == [kind |-> "error", frame |-> f, items |-> {<<Error, f>>}]
  <2>1. e \in Event /\ e.kind = "error" /\ e.frame = f /\ e.items = {<<Error, f>>}
    BY <1>2 DEF Event, Item
  <2>2. {{}, PartialClass, PartialClass \cup {Shutter}} \subseteq SUBSET (BatchedClass \ BatchedBuffers)
    BY Kinds
  <2>3. PICK classes \in {{}, PartialClass, PartialClass \cup {Shutter}} :
             LET lost == pending \cap (classes \X {f})
             IN  pending' = pending \ lost /\ owed' = owed \ lost
    BY <1>4 DEF NotifyError
  <2>4. /\ Reportable(f) /\ Enter(t, e) /\ errors' = errors + 1 /\ errors < MaxErrors
        /\ \E i \in pending : i[2] = f
    BY <1>4 DEF NotifyError
  <2> HIDE DEF e
  <2>5. QED
    BY <2>1, <2>2, <2>3, <2>4 DEF Reports
<1>5. CASE ProcessCaptureResult(t, f)
  <2>1. PICK classes \in SUBSET (Class \ {Shutter}) :
          /\ classes # {}
          /\ \A c, d \in classes \cap PartialClass : c = d
          /\ \A i \in classes \X {f} : MayReport(i)
          /\ pending' = pending \ (classes \X {f})
          /\ Enter(t, [kind |-> "result", frame |-> f, items |-> classes \X {f}])
          /\ UNCHANGED <<owed, errors>>
    BY <1>5 DEF ProcessCaptureResult
  <2> DEFINE e == [kind |-> "result", frame |-> f, items |-> classes \X {f}]
  <2>2. e \in Event /\ e.kind = "result" /\ e.frame = f /\ e.items = classes \X {f}
    BY <1>2 DEF Event, Item
  <2>3. Enter(t, e)
    BY <2>1
  <2> HIDE DEF e
  <2>4. \A i \in e.items : i = <<i[1], f>> /\ i[1] \in classes
    BY <2>2
  <2>5. Piecemeal(e)
    <3>1. ASSUME NEW i \in e.items, NEW j \in e.items, {i[1], j[1]} \subseteq PartialClass
          PROVE  i = j
      BY <2>1, <2>4, <3>1
    <3>2. e.items \subseteq Class \X {e.frame}
      BY <2>2
    <3>3. <<Shutter, e.frame>> \notin e.items
      BY <2>2
    <3>4. QED
      BY <2>2, <3>1, <3>2, <3>3 DEF Piecemeal
  <2>6. PICK c \in classes : TRUE
    BY <2>1
  <2>7. <<c, f>> \in e.items /\ Reportable(f)
    <3>1. <<c, f>> \in classes \X {f} /\ <<c, f>>[2] = f
      OBVIOUS
    <3>2. MayReport(<<c, f>>)
      BY <2>1, <3>1
    <3>3. QED
      BY <2>2, <3>1, <3>2 DEF MayReport
  <2>8. QED
    BY <2>1, <2>2, <2>3, <2>5, <2>7 DEF Reports
<1>6. QED
  BY <1>1, <1>3, <1>4, <1>5
-----------------------------------------------------------------------------
(* The effect of each step, thread by thread and batch by batch.           *)
Same(u) ==
  /\ pc'[u] = pc[u] /\ ev'[u] = ev[u] /\ at'[u] = at[u]
  /\ left'[u] = left[u] /\ todo'[u] = todo[u]
Returned(t) == pc'[t] = "idle" /\ ev'[t] = NoEvent /\ at'[t] = NotBatched /\ left'[t] = 0

(* A call of the HAL enters.                                                *)
LEMMA ReportsEffect ==
  ASSUME IInv, NEW t \in Thread, NEW e \in Event, Reports(t, e)
  PROVE  /\ pc[t] = "idle" /\ mLock = NoThread
         /\ ev'[t] = e /\ \A u \in Thread \ {t} : Same(u)
         /\ UNCHANGED <<burst, nextFrame, inflight, queue, delivered, removed, mLock, bLock, cbLock,
                        received, dropped>>
         /\ pending' \subseteq pending /\ owed' \subseteq owed
         /\ \/ /\ at'[t] = NotBatched /\ left'[t] = 0 /\ pc'[t] = "calling"
               /\ todo'[t] = SingleCall(e)
               /\ \A k \in DOMAIN inflight : e.frame \notin Frames(inflight[k])
            \/ /\ \E k \in DOMAIN inflight :
                    /\ at'[t] = inflight[k] /\ left'[t] = k /\ inflight[k] \in Batch
                    /\ e.frame \in Frames(inflight[k])
               /\ pc'[t] = IF e.kind = "error" THEN "error" ELSE "queue"
               /\ todo'[t] = <<>>
<1> DEFINE k == GetBatch(e.frame)
<1>1. /\ pc \in [Thread -> State] /\ ev \in [Thread -> Event]
      /\ at \in [Thread -> Batch \cup {NotBatched}]
      /\ left \in [Thread -> Nat] /\ todo \in [Thread -> Seq(Call)]
      /\ TypeOK
  BY DEF IInv, TypeOK
<1>2. /\ pc[t] = "idle" /\ mLock = NoThread
      /\ ev' = [ev EXCEPT ![t] = e]
      /\ left' = [left EXCEPT ![t] = k]
      /\ at' = [at EXCEPT ![t] = IF k = 0 THEN NotBatched ELSE inflight[k]]
      /\ todo' = [todo EXCEPT ![t] = IF k = 0 THEN SingleCall(e) ELSE <<>>]
      /\ pc' = [pc EXCEPT ![t] = CASE k = 0 -> "calling"
                               [] k # 0 /\ e.kind = "error" -> "error"
                               [] OTHER -> "queue"]
      /\ UNCHANGED <<burst, nextFrame, inflight, queue, delivered, removed, mLock, bLock, cbLock,
                     received, dropped>>
  BY DEF Reports, Enter, batchVars, lockVars, outVars
<1>3. \/ k = 0 /\ \A l \in DOMAIN inflight : e.frame \notin Frames(inflight[l])
      \/ k # 0 /\ k \in DOMAIN inflight /\ inflight[k] \in Batch /\ e.frame \in Frames(inflight[k])
  <2> DEFINE pos == {l \in DOMAIN inflight : e.frame \in Frames(inflight[l])}
  <2>1. CASE pos = {}
    BY <2>1 DEF GetBatch
  <2>2. CASE pos # {}
    <3>1. k \in pos
      BY <2>2 DEF GetBatch
    <3>2. DOMAIN inflight \subseteq Nat \ {0} /\ \A l \in DOMAIN inflight : inflight[l] \in Batch
      BY <1>1 DEF TypeOK
    <3>3. QED
      BY <3>1, <3>2
  <2>3. QED
    BY <2>1, <2>2
<1> HIDE DEF k
<1>4. pending' \subseteq pending /\ owed' \subseteq owed
  BY DEF Reports
<1>5. \A u \in Thread \ {t} : Same(u)
  BY <1>1, <1>2 DEF Same
<1>6. CASE k = 0
  BY <1>1, <1>2, <1>3, <1>4, <1>5, <1>6
<1>7. CASE k # 0
  <2>1. /\ at'[t] = inflight[k] /\ left'[t] = k /\ todo'[t] = <<>>
        /\ pc'[t] = IF e.kind = "error" THEN "error" ELSE "queue"
    BY <1>1, <1>2, <1>7
  <2>2. QED
    BY <1>1, <1>2, <1>3, <1>4, <1>5, <1>7, <2>1
<1>8. QED
  BY <1>6, <1>7

(* A thread locks the batch it reports on.                                  *)
LEMMA LockBatchEffect ==
  ASSUME IInv, NEW t \in Thread, LockBatch(t)
  PROVE  LET b == at[t]
         IN  /\ pc[t] = "queue" /\ b \in Batch /\ ev[t].frame \in Frames(b)
             /\ bLock[b] = NoThread /\ bLock'[b] = t
             /\ \A a \in Batch \ {b} :
                  queue'[a] = queue[a] /\ delivered'[a] = delivered[a] /\ bLock'[a] = bLock[a]
             /\ pc'[t] = "calling" /\ \A u \in Thread \ {t} : Same(u)
             /\ UNCHANGED <<burst, nextFrame, pending, owed, errors, inflight, removed, mLock, cbLock,
                            ev, at, left, received, dropped>>
             /\ IF removed[b]
                  THEN /\ todo'[t] = SingleCall(ev[t])
                       /\ queue'[b] = queue[b] /\ delivered'[b] = delivered[b]
                  ELSE /\ todo'[t] = QueueItems(b, ev[t]).calls
                       /\ queue'[b] = QueueItems(b, ev[t]).queue
                       /\ delivered'[b] = QueueItems(b, ev[t]).delivered
<1> DEFINE b == at[t]
           s == QueueItems(b, ev[t])
<1>1. /\ pc \in [Thread -> State] /\ ev \in [Thread -> Event]
      /\ at \in [Thread -> Batch \cup {NotBatched}]
      /\ left \in [Thread -> Nat] /\ todo \in [Thread -> Seq(Call)]
      /\ queue \in [Batch -> [BatchedClass -> Seq(Nat)]]
      /\ delivered \in [Batch -> SUBSET BatchedClass]
      /\ bLock \in [Batch -> Thread \cup {NoThread}]
  BY DEF IInv, TypeOK
<1>2. /\ pc[t] = "queue" /\ bLock[b] = NoThread
      /\ bLock' = [bLock EXCEPT ![b] = t]
      /\ pc' = [pc EXCEPT ![t] = "calling"]
      /\ IF removed[b]
           THEN /\ todo' = [todo EXCEPT ![t] = SingleCall(ev[t])]
                /\ UNCHANGED <<queue, delivered>>
           ELSE /\ todo' = [todo EXCEPT ![t] = s.calls]
                /\ queue' = [queue EXCEPT ![b] = s.queue]
                /\ delivered' = [delivered EXCEPT ![b] = s.delivered]
      /\ UNCHANGED <<burst, nextFrame, pending, owed, errors, inflight, removed, mLock, cbLock,
                     ev, at, left, received, dropped>>
  BY DEF LockBatch, FallsBack, halVars, outVars
<1>3. b \in Batch /\ ev[t].frame \in Frames(b)
  BY <1>2 DEF IInv, Queueing
<1> HIDE DEF b, s
<1>4. \A u \in Thread \ {t} : Same(u)
  BY <1>1, <1>2 DEF Same
<1>5. QED
  BY <1>1, <1>2, <1>3, <1>4 DEF b, s

(* The error path takes the first batch.                                    *)
LEMMA FlushFirstBatchEffect ==
  ASSUME IInv, NEW t \in Thread, FlushFirstBatch(t)
  PROVE  LET b == Head(inflight)
         IN  /\ pc[t] = "flush" /\ left[t] > 0 /\ inflight # <<>> /\ inflight \in Seq(Batch)
             /\ b \in Batch /\ bLock[b] = NoThread /\ bLock'[b] = t
             /\ \A a \in Batch \ {b} :
                  /\ queue'[a] = queue[a] /\ delivered'[a] = delivered[a]
                  /\ bLock'[a] = bLock[a] /\ removed'[a] = removed[a]
             /\ pc'[t] = "calling" /\ at'[t] = b /\ left'[t] = left[t] - 1 /\ ev'[t] = ev[t]
             /\ \A u \in Thread \ {t} : Same(u)
             /\ todo'[t] = FlushBatch(b).calls
             /\ queue'[b] = FlushBatch(b).queue
             /\ delivered'[b] = FlushBatch(b).delivered
             /\ removed'[b] /\ inflight' = Tail(inflight)
             /\ UNCHANGED <<burst, nextFrame, pending, owed, errors, mLock, cbLock, ev, received, dropped>>
<1> DEFINE b == Head(inflight)
           s == FlushBatch(b)
<1>1. /\ pc \in [Thread -> State] /\ ev \in [Thread -> Event]
      /\ at \in [Thread -> Batch \cup {NotBatched}]
      /\ left \in [Thread -> Nat] /\ todo \in [Thread -> Seq(Call)]
      /\ queue \in [Batch -> [BatchedClass -> Seq(Nat)]]
      /\ delivered \in [Batch -> SUBSET BatchedClass]
      /\ removed \in [Batch -> BOOLEAN]
      /\ bLock \in [Batch -> Thread \cup {NoThread}]
      /\ inflight \in Seq(Batch)
  BY DEF IInv, TypeOK
<1>2. /\ pc[t] = "flush" /\ left[t] > 0 /\ inflight # <<>> /\ bLock[b] = NoThread
      /\ bLock' = [bLock EXCEPT ![b] = t]
      /\ at' = [at EXCEPT ![t] = b]
      /\ left' = [left EXCEPT ![t] = left[t] - 1]
      /\ todo' = [todo EXCEPT ![t] = s.calls]
      /\ queue' = [queue EXCEPT ![b] = s.queue]
      /\ delivered' = [delivered EXCEPT ![b] = s.delivered]
      /\ removed' = [removed EXCEPT ![b] = TRUE]
      /\ inflight' = Tail(inflight)
      /\ pc' = [pc EXCEPT ![t] = "calling"]
      /\ UNCHANGED <<burst, nextFrame, pending, owed, errors, mLock, cbLock, ev, received, dropped>>
  BY DEF FlushFirstBatch, halVars, outVars
<1>3. b \in Batch
  BY <1>1, <1>2, DequeTail
<1> HIDE DEF b, s
<1>4. \A u \in Thread \ {t} : Same(u)
  BY <1>1, <1>2 DEF Same
<1>5. QED
  BY <1>1, <1>2, <1>3, <1>4 DEF b, s

(* A call into the framework is made.                                       *)
LEMMA CallEffect ==
  ASSUME IInv, NEW t \in Thread, CallNotify(t) \/ EndResultCall(t) \/ TimeoutResultCall(t)
  PROVE  /\ pc[t] = "calling" /\ todo[t] # <<>>
         /\ todo'[t] = Tail(todo[t]) /\ \A u \in Thread \ {t} : Same(u)
         /\ UNCHANGED <<burst, nextFrame, pending, owed, errors, inflight, queue, delivered, removed,
                        mLock, bLock, pc, ev, at, left>>
         /\ todo' = [todo EXCEPT ![t] = Tail(todo[t])]
         /\ \/ received' = received \cup Head(todo[t]).items /\ UNCHANGED dropped
            \/ MayStall /\ dropped' = dropped \cup Head(todo[t]).items /\ UNCHANGED received
<1>1. todo \in [Thread -> Seq(Call)]
  BY DEF IInv, TypeOK
<1>2. QED
  BY <1>1 DEF CallNotify, EndResultCall, TimeoutResultCall, MadeCall, Same,
              halVars, batchVars, lockVars, outVars

(* All calls are made.                                                      *)
LEMMA ReleaseEffect ==
  ASSUME IInv, NEW t \in Thread, Release(t)
  PROVE  /\ pc[t] = "calling" /\ todo[t] = <<>> /\ todo' = todo
         /\ \A u \in Thread \ {t} : Same(u)
         /\ UNCHANGED <<burst, nextFrame, pending, owed, errors, inflight, queue, delivered, removed,
                        cbLock, received, dropped>>
         /\ \/ /\ at[t] = NotBatched /\ Returned(t) /\ UNCHANGED bLock
            \/ /\ at[t] \in Batch
               /\ bLock'[at[t]] = NoThread /\ \A a \in Batch \ {at[t]} : bLock'[a] = bLock[a]
               /\ \/ /\ ev[t].kind = "error" /\ pc'[t] = "flush"
                     /\ ev'[t] = ev[t] /\ at'[t] = at[t] /\ left'[t] = left[t]
                  \/ /\ ev[t].kind # "error" /\ ChecksFirstBatch(t) /\ pc'[t] = "check"
                     /\ ev'[t] = ev[t] /\ at'[t] = at[t] /\ left'[t] = left[t]
                  \/ ev[t].kind # "error" /\ ~ChecksFirstBatch(t) /\ Returned(t)
<1>1. /\ pc \in [Thread -> State] /\ ev \in [Thread -> Event]
      /\ at \in [Thread -> Batch \cup {NotBatched}]
      /\ left \in [Thread -> Nat] /\ todo \in [Thread -> Seq(Call)]
      /\ bLock \in [Batch -> Thread \cup {NoThread}]
  BY DEF IInv, TypeOK
<1>2. /\ pc[t] = "calling" /\ todo[t] = <<>> /\ todo' = todo
      /\ UNCHANGED <<burst, nextFrame, pending, owed, errors, inflight, queue, delivered, removed,
                     cbLock, received, dropped>>
  BY DEF Release, halVars, batchVars, outVars
<1>3. ASSUME Return(t)
      PROVE  Returned(t) /\ \A u \in Thread \ {t} : Same(u)
  BY <1>1, <1>2, <1>3 DEF Return, Returned, Same
<1>4. ASSUME NEW state, pc' = [pc EXCEPT ![t] = state], UNCHANGED <<ev, at, left>>
      PROVE  /\ pc'[t] = state /\ ev'[t] = ev[t] /\ at'[t] = at[t] /\ left'[t] = left[t]
             /\ \A u \in Thread \ {t} : Same(u)
  BY <1>1, <1>2, <1>4 DEF Same
<1>5. CASE at[t] = NotBatched
  <2>1. Return(t) /\ UNCHANGED bLock
    BY <1>5 DEF Release
  <2>2. QED
    BY <1>2, <1>3, <1>5, <2>1
<1>6. CASE at[t] # NotBatched
  <2>1. at[t] \in Batch /\ bLock' = [bLock EXCEPT ![at[t]] = NoThread]
    BY <1>1, <1>6 DEF Release
  <2>2. CASE ev[t].kind = "error"
    <3>1. pc' = [pc EXCEPT ![t] = "flush"] /\ UNCHANGED <<ev, at, left>>
      BY <1>6, <2>2 DEF Release, ChecksFirstBatch
    <3>2. QED
      BY <1>1, <1>2, <1>4, <2>1, <2>2, <3>1
  <2>3. CASE ev[t].kind # "error" /\ ChecksFirstBatch(t)
    <3>1. pc' = [pc EXCEPT ![t] = "check"] /\ UNCHANGED <<ev, at, left>>
      BY <1>6, <2>3 DEF Release
    <3>2. QED
      BY <1>1, <1>2, <1>4, <2>1, <2>3, <3>1
  <2>4. CASE ev[t].kind # "error" /\ ~ChecksFirstBatch(t)
    <3>1. Return(t)
      BY <1>6, <2>4 DEF Release
    <3>2. QED
      BY <1>1, <1>2, <1>3, <2>1, <2>4, <3>1
  <2>5. QED
    BY <2>2, <2>3, <2>4
<1>7. QED
  BY <1>5, <1>6

(* The first batch is checked.                                              *)
LEMMA RemoveFirstBatchEffect ==
  ASSUME IInv, NEW t \in Thread, RemoveFirstBatch(t)
  PROVE  /\ pc[t] = "remove" /\ inflight \in Seq(Batch)
         /\ Returned(t) /\ \A u \in Thread \ {t} : Same(u)
         /\ UNCHANGED <<burst, nextFrame, pending, owed, errors, queue, delivered,
                        bLock, cbLock, todo, received, dropped>>
         /\ \/ /\ UNCHANGED <<removed, inflight>>
               /\ inflight # <<>> => ~AllDelivered(Head(inflight))
            \/ /\ inflight # <<>> /\ AllDelivered(Head(inflight)) /\ Head(inflight) \in Batch
               /\ bLock[Head(inflight)] = NoThread
               /\ inflight' = Tail(inflight) /\ removed'[Head(inflight)]
               /\ \A a \in Batch \ {Head(inflight)} : removed'[a] = removed[a]
<1>1. /\ pc \in [Thread -> State] /\ ev \in [Thread -> Event]
      /\ at \in [Thread -> Batch \cup {NotBatched}]
      /\ left \in [Thread -> Nat] /\ todo \in [Thread -> Seq(Call)]
      /\ removed \in [Batch -> BOOLEAN] /\ inflight \in Seq(Batch)
  BY DEF IInv, TypeOK
<1>2. /\ pc[t] = "remove" /\ Return(t)
      /\ UNCHANGED <<burst, nextFrame, pending, owed, errors, queue, delivered,
                     bLock, cbLock, todo, received, dropped>>
  BY DEF RemoveFirstBatch, halVars, outVars
<1>3. Returned(t) /\ \A u \in Thread \ {t} : Same(u)
  BY <1>1, <1>2 DEF Return, Returned, Same
<1>4. CASE ~(inflight # <<>> /\ AllDelivered(Head(inflight)))
  BY <1>1, <1>2, <1>3, <1>4 DEF RemoveFirstBatch
<1>5. CASE inflight # <<>> /\ AllDelivered(Head(inflight))
  <2>1. /\ bLock[Head(inflight)] = NoThread /\ inflight' = Tail(inflight)
        /\ removed' = [removed EXCEPT ![Head(inflight)] = TRUE]
    BY <1>5 DEF RemoveFirstBatch
  <2>2. Head(inflight) \in Batch
    BY <1>1, <1>5, DequeTail
  <2>3. QED
    BY <1>1, <1>2, <1>3, <1>5, <2>1, <2>2
<1>6. QED
  BY <1>4, <1>5

(* The other steps of a thread change its step, or a lock.                  *)
LEMMA SmallStepEffect ==
  ASSUME IInv, NEW t \in Thread,
         LockForError(t) \/ SendError(t) \/ BeginResultCall(t) \/ LockForCheck(t) \/ FlushNothing(t)
  PROVE  /\ \A u \in Thread \ {t} : Same(u)
         /\ UNCHANGED <<burst, nextFrame, pending, owed, errors, inflight, queue, delivered, removed,
                        bLock, ev, left, received, dropped>>
         /\ \/ /\ pc[t] = "error" /\ pc'[t] = "flush" /\ at'[t] = at[t] /\ todo'[t] = todo[t]
            \/ /\ pc[t] = "flush" /\ left[t] = 0
               /\ pc'[t] = "calling" /\ at'[t] = NotBatched /\ todo'[t] = SingleCall(ev[t])
            \/ /\ pc[t] = "check" /\ pc'[t] = "remove" /\ at'[t] = at[t] /\ todo'[t] = todo[t]
            \/ UNCHANGED <<pc, at, todo>>
<1>1. /\ pc \in [Thread -> State] /\ ev \in [Thread -> Event]
      /\ at \in [Thread -> Batch \cup {NotBatched}]
      /\ left \in [Thread -> Nat] /\ todo \in [Thread -> Seq(Call)]
  BY DEF IInv, TypeOK
<1> USE DEF halVars, batchVars, lockVars, threadVars, outVars, Same
<1>2. CASE LockForError(t)
  BY <1>1, <1>2 DEF LockForError
<1>3. CASE SendError(t)
  BY <1>1, <1>3 DEF SendError
<1>4. CASE BeginResultCall(t)
  BY <1>4 DEF BeginResultCall
<1>5. CASE LockForCheck(t)
  BY <1>1, <1>5 DEF LockForCheck
<1>6. CASE FlushNothing(t)
  BY <1>6 DEF FlushNothing
<1>7. QED
  BY <1>2, <1>3, <1>4, <1>5, <1>6
-----------------------------------------------------------------------------
(* Batches stand in the deque in the order of their bursts and leave it at *)
(* the head; only a registered batch is filled, sent or locked.            *)
Deque ==
  /\ \A k, l \in DOMAIN inflight : k < l => inflight[k] < inflight[l]
  /\ \A b \in Batch : removed[b] => b < burst /\ \A k \in DOMAIN inflight : b < inflight[k]
  /\ \A b \in Batch : (\E c \in BatchedClass : queue[b][c] # <<>>) => b \in Elems(inflight)
  /\ \A b \in Batch : delivered[b] # {} => b \in Elems(inflight) \/ removed[b]
  /\ \A t \in Thread : at[t] \in Batch => at[t] \in Elems(inflight) \/ removed[at[t]]

(* What a thread is about at each step of its call.                        *)
Phase(t) ==
  /\ pc[t] = "idle" => ev[t] = NoEvent /\ left[t] = 0 /\ at[t] = NotBatched
  /\ pc[t] # "calling" => todo[t] = <<>>
  /\ pc[t] \in {"error", "flush"} => ev[t].kind = "error"
  /\ pc[t] \in {"queue", "check", "remove"} => ev[t].kind # "error" /\ at[t] \in Batch
  /\ pc[t] = "calling" /\ ev[t].kind = "error" /\ at[t] = NotBatched => left[t] = 0
  /\ pc[t] = "calling" /\ at[t] # NotBatched => bLock[at[t]] = t
  /\ ev[t].kind = "error" => ev[t].items = {<<Error, ev[t].frame>>}
  /\ ev[t].kind # "error" => ev[t].items \subseteq Class \X {ev[t].frame}
  /\ pc[t] # "idle" /\ ev[t].kind # "error" => Piecemeal(ev[t])

Ordered == IInv /\ Deque /\ \A t \in Thread : Phase(t)

(* A thread is not disturbed by the others.                                 *)
LEMMA PhaseOfOther ==
  ASSUME NEW u \in Thread, Phase(u), Same(u), at[u] \in Batch \cup {NotBatched},
         \A b \in Batch : bLock[b] = u => bLock'[b] = u
  PROVE  Phase(u)'
BY DEF Phase, Same

(* A free thread has nothing of its own.                                    *)
LEMMA PhaseOfIdle ==
  ASSUME NEW t \in Thread, Returned(t), todo'[t] = <<>>
  PROVE  Phase(t)'
BY NoEventType DEF Phase, Returned, NoEvent

(* The deque, when a step changes no batch but may let go of one.          *)
LEMMA DequeKept ==
  ASSUME Deque, UNCHANGED <<burst, inflight, removed>>,
         \A b \in Batch : queue'[b] = queue[b] /\ delivered'[b] = delivered[b],
         \A u \in Thread : at'[u] = at[u] \/ at'[u] = NotBatched
  PROVE  Deque'
<1>1. NotBatched \notin Batch
  BY Bursts DEF NotBatched
<1>2. QED
  BY <1>1 DEF Deque

(* The first batch leaves the deque, empty.                                 *)
LEMMA DequeShort ==
  ASSUME IInv, Deque, inflight # <<>>, NEW b, b = Head(inflight), inflight' = Tail(inflight),
         UNCHANGED burst, removed'[b],
         \A a \in Batch \ {b} :
            removed'[a] = removed[a] /\ queue'[a] = queue[a] /\ delivered'[a] = delivered[a],
         \A c \in BatchedClass : queue'[b][c] = <<>>,
         \A u \in Thread : at'[u] \in {at[u], NotBatched, b}
  PROVE  Deque'
<1>1. /\ inflight \in Seq(Batch) /\ Batch \subseteq Nat /\ NotBatched \notin Batch /\ burst \in Nat
      /\ DOMAIN inflight \subseteq Nat
  BY Bursts DEF IInv, TypeOK, NotBatched
<1>2. /\ b \in Batch /\ Tail(inflight) \in Seq(Batch)
      /\ 1 \in DOMAIN inflight /\ inflight[1] = b
      /\ \A k \in DOMAIN Tail(inflight) : k + 1 \in DOMAIN inflight /\ Tail(inflight)[k] = inflight[k + 1]
      /\ Elems(inflight) = {b} \cup Elems(Tail(inflight))
  BY <1>1, DequeTail
<1>3. \A k \in DOMAIN Tail(inflight) : k \in Nat \ {0}
  BY <1>2
<1>4. \A k, l \in DOMAIN inflight' : k < l => inflight'[k] < inflight'[l]
  BY <1>2, <1>3 DEF Deque
<1>5. ASSUME NEW a \in Batch, removed'[a]
      PROVE  a < burst' /\ \A k \in DOMAIN inflight' : a < inflight'[k]
  <2>1. CASE a = b
    <3>1. b < burst
      BY <1>2 DEF IInv, SubmittedOnly
    <3>2. \A k \in DOMAIN inflight' : b < inflight'[k]
      BY <1>2, <1>3 DEF Deque
    <3>3. QED
      BY <2>1, <3>1, <3>2
  <2>2. CASE a # b
    BY <1>2, <1>5, <2>2 DEF Deque
  <2>3. QED
    BY <2>1, <2>2
<1>6. ASSUME NEW a \in Batch
      PROVE  /\ (\E c \in BatchedClass : queue'[a][c] # <<>>) => a \in Elems(inflight')
             /\ delivered'[a] # {} => a \in Elems(inflight') \/ removed'[a]
  BY <1>2 DEF Deque
<1>7. \A u \in Thread : at'[u] \in Batch => at'[u] \in Elems(inflight') \/ removed'[at'[u]]
  BY ZenonT(60), <1>1, <1>2 DEF Deque
<1>8. QED
  BY <1>4, <1>5, <1>6, <1>7 DEF Deque

(* The binder thread adds a batch behind the others.                        *)
LEMMA BinderOrdered ==
  ASSUME IInv, Deque, \A t \in Thread : Phase(t), Submit \/ SubmitFails \/ RegisterBatch
  PROVE  Deque' /\ \A t \in Thread : Phase(t)'
<1> USE DEF halVars, batchVars, lockVars, threadVars
<1>1. /\ burst \in Nat /\ burst' \in Nat /\ burst <= burst' /\ burst \in Batch
      /\ UNCHANGED <<queue, delivered, removed, bLock, pc, ev, at, left, todo>>
      /\ inflight' = inflight \/ (inflight' = Append(inflight, burst) /\ burst < burst')
  BY DEF Submit, SubmitFails, RegisterBatch, NextBurst, IInv, TypeOK
<1>2. \A t \in Thread : Phase(t)'
  BY <1>1 DEF Phase
<1>3. CASE inflight' = inflight
  <2>1. \A b \in Batch : removed[b] => b < burst'
    BY <1>1, Bursts DEF Deque
  <2>2. QED
    BY <1>1, <1>2, <1>3, <2>1 DEF Deque
<1>4. CASE inflight' = Append(inflight, burst) /\ burst < burst'
  <2>1. /\ Len(inflight) \in Nat /\ DOMAIN inflight = 1 .. Len(inflight)
        /\ DOMAIN inflight' = DOMAIN inflight \cup {Len(inflight) + 1}
        /\ \A k \in DOMAIN inflight : inflight'[k] = inflight[k]
        /\ inflight'[Len(inflight) + 1] = burst
        /\ Elems(inflight') = Elems(inflight) \cup {burst}
    BY <1>1, <1>4, DequeAppend DEF IInv, TypeOK
  <2>2. \A k, l \in DOMAIN inflight' : k < l => inflight'[k] < inflight'[l]
    <3>1. SUFFICES ASSUME NEW k \in DOMAIN inflight', NEW l \in DOMAIN inflight', k < l
                   PROVE  inflight'[k] < inflight'[l]
      OBVIOUS
    <3>2. k \in DOMAIN inflight
      BY <2>1, <3>1
    <3>3. inflight[k] < burst
      BY <3>2 DEF IInv, SubmittedOnly
    <3>4. QED
      BY <2>1, <3>1, <3>2, <3>3 DEF Deque
  <2>3. ASSUME NEW b \in Batch, removed[b]
        PROVE  b < burst' /\ \A k \in DOMAIN inflight' : b < inflight'[k]
    <3>1. b < burst /\ \A k \in DOMAIN inflight : b < inflight[k]
      BY <2>3 DEF Deque
    <3>2. b \in Nat
      BY Bursts
    <3>3. b < burst'
      BY <1>1, <1>4, <3>1, <3>2
    <3>4. \A k \in DOMAIN inflight' : b < inflight'[k]
      BY <2>1, <3>1
    <3>5. QED
      BY <3>3, <3>4
  <2>4. QED
    BY <1>1, <1>2, <2>1, <2>2, <2>3 DEF Deque
<1>5. QED
  BY <1>1, <1>3, <1>4

(* A report enters with a registered batch.                                 *)
LEMMA ReportOrdered ==
  ASSUME IInv, Deque, \A t \in Thread : Phase(t), NEW t \in Thread, NEW e \in Event, Reports(t, e)
  PROVE  Deque' /\ \A u \in Thread : Phase(u)'
<1>1. /\ ev'[t] = e /\ \A u \in Thread \ {t} : Same(u)
      /\ UNCHANGED <<burst, inflight, queue, delivered, removed, bLock>>
  BY ReportsEffect
<1>2. \/ /\ at'[t] = NotBatched /\ left'[t] = 0 /\ pc'[t] = "calling"
         /\ todo'[t] = SingleCall(e)
      \/ /\ \E k \in DOMAIN inflight : at'[t] = inflight[k] /\ inflight[k] \in Batch
         /\ pc'[t] = IF e.kind = "error" THEN "error" ELSE "queue"
         /\ todo'[t] = <<>>
  BY ReportsEffect
<1>3. /\ e.kind = "error" => e.items = {<<Error, e.frame>>}
      /\ e.kind # "error" => Piecemeal(e)
  BY DEF Reports
<1>4. at \in [Thread -> Batch \cup {NotBatched}] /\ NotBatched \notin Batch
  BY Bursts DEF IInv, TypeOK, NotBatched
<1>5. Phase(t)'
  BY <1>1, <1>2, <1>3, <1>4 DEF Phase, Piecemeal
<1>6. \A u \in Thread \ {t} : Phase(u)'
  BY <1>1, <1>4, PhaseOfOther
<1>7. at'[t] \in Batch => at'[t] \in Elems(inflight)
  BY <1>2, <1>4 DEF Elems
<1>8. \A u \in Thread : at'[u] \in Batch => at'[u] \in Elems(inflight) \/ removed[at'[u]]
  BY <1>1, <1>7 DEF Same, Deque
<1>9. Deque'
  BY <1>1, <1>8 DEF Deque
<1>10. QED
  BY <1>5, <1>6, <1>9

(* A thread fills a registered batch, or none.                              *)
LEMMA LockBatchOrdered ==
  ASSUME IInv, Deque, \A t \in Thread : Phase(t), NEW t \in Thread, LockBatch(t)
  PROVE  Deque' /\ \A u \in Thread : Phase(u)'
<1> DEFINE b == at[t]
<1>1. /\ pc[t] = "queue" /\ b \in Batch /\ bLock[b] = NoThread /\ bLock'[b] = t
      /\ \A a \in Batch \ {b} :
           queue'[a] = queue[a] /\ delivered'[a] = delivered[a] /\ bLock'[a] = bLock[a]
      /\ removed[b] => queue'[b] = queue[b] /\ delivered'[b] = delivered[b]
      /\ pc'[t] = "calling" /\ \A u \in Thread \ {t} : Same(u)
      /\ UNCHANGED <<burst, inflight, removed, ev, at, left>>
  BY LockBatchEffect
<1>2. b \in Elems(inflight) \/ removed[b]
  BY <1>1 DEF Deque
<1>3. Deque'
  BY <1>1, <1>2 DEF Deque
<1>4. t # NoThread /\ at \in [Thread -> Batch \cup {NotBatched}]
  BY ConstantsAssumption DEF IInv, TypeOK
<1> HIDE DEF b
<1>5. Phase(t)'
  BY <1>1 DEF Phase, b
<1>6. ASSUME NEW u \in Thread \ {t}
      PROVE  Phase(u)'
  <2>1. u # NoThread
    BY ConstantsAssumption
  <2>2. \A a \in Batch : bLock[a] = u => bLock'[a] = u
    BY <1>1, <2>1
  <2>3. QED
    BY <1>1, <1>4, <2>2, PhaseOfOther
<1>7. QED
  BY <1>3, <1>5, <1>6

(* The error path empties the batch it removes.                             *)
LEMMA FlushOrdered ==
  ASSUME IInv, Deque, \A t \in Thread : Phase(t), NEW t \in Thread, FlushFirstBatch(t)
  PROVE  Deque' /\ \A u \in Thread : Phase(u)'
<1> DEFINE b == Head(inflight)
<1>1. /\ pc[t] = "flush" /\ inflight # <<>>
      /\ b \in Batch /\ bLock[b] = NoThread /\ bLock'[b] = t
      /\ \A a \in Batch \ {b} :
           /\ queue'[a] = queue[a] /\ delivered'[a] = delivered[a]
           /\ bLock'[a] = bLock[a] /\ removed'[a] = removed[a]
      /\ pc'[t] = "calling" /\ at'[t] = b /\ ev'[t] = ev[t]
      /\ \A u \in Thread \ {t} : Same(u)
      /\ queue'[b] = FlushBatch(b).queue
      /\ removed'[b] /\ inflight' = Tail(inflight)
      /\ UNCHANGED <<burst, ev>>
  BY FlushFirstBatchEffect
<1>2. \A c \in BatchedClass : queue'[b][c] = <<>>
  BY <1>1, HeldType, FlushSends DEF IInv, SentIsNotHeld
<1> HIDE DEF b
<1>3. Deque'
  BY <1>1, <1>2, DequeShort DEF Same, b
<1>4. t # NoThread /\ at \in [Thread -> Batch \cup {NotBatched}] /\ NotBatched \notin Batch
  BY Bursts, ConstantsAssumption DEF IInv, TypeOK, NotBatched
<1>5. Phase(t)'
  BY <1>1, <1>4 DEF Phase
<1>6. ASSUME NEW u \in Thread \ {t}
      PROVE  Phase(u)'
  <2>1. u # NoThread
    BY ConstantsAssumption
  <2>2. \A a \in Batch : bLock[a] = u => bLock'[a] = u
    BY <1>1, <2>1
  <2>3. QED
    BY <1>1, <1>4, <2>2, PhaseOfOther
<1>7. QED
  BY <1>3, <1>5, <1>6

(* A complete batch is empty when it is removed.                            *)
LEMMA RemoveOrdered ==
  ASSUME IInv, Deque, \A t \in Thread : Phase(t), NEW t \in Thread, RemoveFirstBatch(t)
  PROVE  Deque' /\ \A u \in Thread : Phase(u)'
<1>1. /\ pc[t] = "remove" /\ inflight \in Seq(Batch)
      /\ Returned(t) /\ \A u \in Thread \ {t} : Same(u)
      /\ UNCHANGED <<burst, queue, delivered, bLock, todo>>
  BY RemoveFirstBatchEffect
<1>2. at \in [Thread -> Batch \cup {NotBatched}]
  BY DEF IInv, TypeOK
<1>3. \A u \in Thread \ {t} : Phase(u)'
  BY <1>1, <1>2, PhaseOfOther
<1>4. Phase(t)'
  <2>1. todo'[t] = <<>>
    BY <1>1 DEF Phase
  <2>2. QED
    BY <1>1, <2>1, PhaseOfIdle
<1>5. \A u \in Thread : at'[u] = at[u] \/ at'[u] = NotBatched
  BY <1>1 DEF Same, Returned
<1>6. CASE UNCHANGED <<removed, inflight>>
  BY <1>1, <1>3, <1>4, <1>5, <1>6, DequeKept
<1>7. CASE ~UNCHANGED <<removed, inflight>>
  <2> DEFINE b == Head(inflight)
  <2>1. /\ inflight # <<>> /\ AllDelivered(b) /\ b \in Batch
        /\ inflight' = Tail(inflight) /\ removed'[b]
        /\ \A a \in Batch \ {b} : removed'[a] = removed[a]
    BY <1>7, RemoveFirstBatchEffect
  <2>2. \A c \in BatchedClass : queue'[b][c] = <<>>
    BY <1>1, <2>1 DEF AllDelivered, IInv, SentIsNotHeld, Sound, Held
  <2> HIDE DEF b
  <2>3. Deque'
    BY <1>1, <1>5, <2>1, <2>2, DequeShort DEF b
  <2>4. QED
    BY <1>3, <1>4, <2>3
<1>8. QED
  BY <1>6, <1>7

(* The other steps touch no batch.                                          *)
LEMMA QuietOrdered ==
  ASSUME IInv, Deque, \A t \in Thread : Phase(t), NEW t \in Thread,
         \/ CallNotify(t) \/ EndResultCall(t) \/ TimeoutResultCall(t) \/ Release(t)
         \/ LockForError(t) \/ SendError(t) \/ BeginResultCall(t) \/ LockForCheck(t) \/ FlushNothing(t)
  PROVE  Deque' /\ \A u \in Thread : Phase(u)'
<1>1. at \in [Thread -> Batch \cup {NotBatched}] /\ NotBatched \notin Batch /\ t # NoThread
  BY Bursts, ConstantsAssumption DEF IInv, TypeOK, NotBatched
<1>2. CASE CallNotify(t) \/ EndResultCall(t) \/ TimeoutResultCall(t)
  <2>1. /\ pc[t] = "calling" /\ \A u \in Thread \ {t} : Same(u)
        /\ UNCHANGED <<burst, inflight, queue, delivered, removed, bLock, pc, ev, at, left>>
    BY <1>2, CallEffect
  <2>2. Phase(t)'
    BY <2>1 DEF Phase
  <2>3. \A u \in Thread \ {t} : Phase(u)'
    BY <1>1, <2>1, PhaseOfOther
  <2>4. QED
    BY <2>1, <2>2, <2>3, DequeKept
<1>3. CASE Release(t)
  <2>1. /\ pc[t] = "calling" /\ todo[t] = <<>> /\ todo' = todo
        /\ \A u \in Thread \ {t} : Same(u)
        /\ UNCHANGED <<burst, inflight, queue, delivered, removed>>
        /\ \/ /\ at[t] = NotBatched /\ Returned(t) /\ UNCHANGED bLock
           \/ /\ at[t] \in Batch
              /\ bLock'[at[t]] = NoThread /\ \A a \in Batch \ {at[t]} : bLock'[a] = bLock[a]
              /\ \/ /\ ev[t].kind = "error" /\ pc'[t] = "flush"
                    /\ ev'[t] = ev[t] /\ at'[t] = at[t] /\ left'[t] = left[t]
                 \/ /\ ev[t].kind # "error" /\ ChecksFirstBatch(t) /\ pc'[t] = "check"
                    /\ ev'[t] = ev[t] /\ at'[t] = at[t] /\ left'[t] = left[t]
                 \/ ev[t].kind # "error" /\ ~ChecksFirstBatch(t) /\ Returned(t)
    BY <1>3, ReleaseEffect
  <2>2. Phase(t)'
    <3>1. CASE Returned(t)
      BY <2>1, <3>1, PhaseOfIdle
    <3>2. CASE ~Returned(t)
      BY <1>1, <2>1, <3>2 DEF Phase
    <3>3. QED
      BY <3>1, <3>2
  <2>3. ASSUME NEW u \in Thread \ {t}
        PROVE  Phase(u)'
    <3>1. at[t] \in Batch => bLock[at[t]] = t
      BY <1>1, <2>1 DEF Phase
    <3>2. \A a \in Batch : bLock[a] = u => bLock'[a] = u
      BY <2>1, <3>1
    <3>3. QED
      BY <1>1, <2>1, <3>2, PhaseOfOther
  <2>4. \A u \in Thread : at'[u] = at[u] \/ at'[u] = NotBatched
    BY <2>1 DEF Same, Returned
  <2>5. QED
    BY <2>1, <2>2, <2>3, <2>4, DequeKept
<1>4. CASE \/ LockForError(t) \/ SendError(t) \/ BeginResultCall(t) \/ LockForCheck(t)
           \/ FlushNothing(t)
  <2>1. /\ \A u \in Thread \ {t} : Same(u)
        /\ UNCHANGED <<burst, inflight, queue, delivered, removed, bLock, ev, left>>
        /\ \/ /\ pc[t] = "error" /\ pc'[t] = "flush" /\ at'[t] = at[t] /\ todo'[t] = todo[t]
           \/ /\ pc[t] = "flush" /\ left[t] = 0
              /\ pc'[t] = "calling" /\ at'[t] = NotBatched /\ todo'[t] = SingleCall(ev[t])
           \/ /\ pc[t] = "check" /\ pc'[t] = "remove" /\ at'[t] = at[t] /\ todo'[t] = todo[t]
           \/ UNCHANGED <<pc, at, todo>>
    BY <1>4, SmallStepEffect
  <2>2. Phase(t)'
    BY <1>1, <2>1 DEF Phase
  <2>3. \A u \in Thread \ {t} : Phase(u)'
    BY <1>1, <2>1, PhaseOfOther
  <2>4. \A u \in Thread : at'[u] = at[u] \/ at'[u] = NotBatched
    BY <2>1 DEF Same
  <2>5. QED
    BY <2>1, <2>2, <2>3, <2>4, DequeKept
<1>5. QED
  BY <1>2, <1>3, <1>4

(* The deque and the threads are in order in the beginning,                 *)
LEMMA InitOrdered == Init => Ordered
<1> SUFFICES ASSUME Init PROVE Ordered
  OBVIOUS
<1>1. IInv
  BY InitInvariant
<1>2. Deque
  <2>1. NotBatched \notin Batch
    BY Bursts DEF NotBatched
  <2>2. QED
    BY <2>1 DEF Init, Deque
<1>3. \A t \in Thread : Phase(t)
  BY NoEventType DEF Init, Phase, NoEvent
<1>4. QED
  BY <1>1, <1>2, <1>3 DEF Ordered

(* and every step keeps them so.                                            *)
LEMMA StepOrdered == Ordered /\ [Next]_vars => Ordered'
<1> SUFFICES ASSUME Ordered, [Next]_vars PROVE Ordered'
  OBVIOUS
<1>1. IInv /\ Deque /\ \A t \in Thread : Phase(t)
  BY DEF Ordered
<1>2. IInv'
  BY <1>1, InductiveInvariant
<1>3. SUFFICES Deque' /\ \A t \in Thread : Phase(t)'
  BY <1>2 DEF Ordered
<1>4. CASE Submit \/ SubmitFails \/ RegisterBatch
  BY <1>1, <1>4, BinderOrdered
<1>5. ASSUME NEW t \in Thread, HalCall(t)
      PROVE  Deque' /\ \A u \in Thread : Phase(u)'
  BY <1>1, <1>5, HalCallReports, ReportOrdered
<1>6. ASSUME NEW t \in Thread, Step(t) \/ FlushNothing(t)
      PROVE  Deque' /\ \A u \in Thread : Phase(u)'
  BY <1>1, <1>6, LockBatchOrdered, FlushOrdered, RemoveOrdered, QuietOrdered DEF Step
<1>7. CASE UNCHANGED vars
  <2>1. UNCHANGED <<burst, inflight, queue, delivered, removed, bLock, pc, ev, at, left, todo>>
    BY <1>7 DEF vars, batchVars, lockVars, threadVars
  <2>2. \A t \in Thread : Phase(t)'
    BY <1>1, <2>1 DEF Phase
  <2>3. QED
    BY <1>1, <2>1, <2>2, DequeKept
<1>8. QED
  BY <1>4, <1>5, <1>6, <1>7 DEF Next, Work
-----------------------------------------------------------------------------
(* Where an item is: with the HAL, with one thread and in one batch,       *)
(* elsewhere, or sent.                                                     *)
AtHal(i) == {<<"hal">> : x \in {i} \cap pending}
Own(i, t, b) == Entering({t}, i) \cup HeldBy(Batch \cap {b}, i) \cup CalledIn(todo[t], t, i)
Elsewhere(i, t, b) ==
  Entering(Thread \ {t}, i) \cup HeldBy(Batch \ {b}, i) \cup CalledBy(Thread \ {t}, i)
Out(i) == SentUp("received", received, i) \cup SentUp("dropped", dropped, i)

(* A step moves what is in one place to one place.                          *)
Single(S) == \E x : S = {x}
Kept(S, T) == (S = {} => T = {}) /\ (Single(S) => Single(T))

(* A place names what it is in.                                             *)
LEMMA Tags ==
  ASSUME NEW i, NEW threads, NEW batches, NEW t
  PROVE  /\ \A x \in Entering(threads, i) : x[1] = "entering" /\ x[2] \in threads
         /\ \A x \in HeldBy(batches, i) : x[1] = "held" /\ x[2] \in batches
         /\ \A x \in CalledIn(todo[t], t, i) : x[1] = "call" /\ x[2] = t
         /\ \A x \in CalledBy(threads, i) : x[1] = "call" /\ x[2] \in threads
<1>1. \A x \in Entering(threads, i) : x[1] = "entering" /\ x[2] \in threads
  BY DEF Entering
<1>2. ASSUME NEW x \in HeldBy(batches, i)
      PROVE  x[1] = "held" /\ x[2] \in batches
  <2>1. PICK b \in {b \in batches : i[1] \in BatchedClass} : x \in HeldIn(queue[b], b, i)
    BY <1>2 DEF HeldBy
  <2>2. QED
    BY <2>1 DEF HeldIn
<1>3. ASSUME NEW u, NEW x \in CalledIn(todo[u], u, i)
      PROVE  x[1] = "call" /\ x[2] = u
  <2>1. PICK k \in DOMAIN todo[u] : x \in {<<"call", u, k, d>> : d \in {d \in todo[u][k].items : Of(d) = i}}
    BY <1>3 DEF CalledIn
  <2>2. QED
    BY <2>1
<1>4. ASSUME NEW x \in CalledBy(threads, i)
      PROVE  x[1] = "call" /\ x[2] \in threads
  <2>1. PICK u \in threads : x \in CalledIn(todo[u], u, i)
    BY <1>4 DEF CalledBy
  <2>2. QED
    BY <1>3, <2>1
<1>5. QED
  BY <1>1, <1>2, <1>3, <1>4

(* The places of an item, as one thread and one batch see them.            *)
Splits ==
  \A i, b : \A t \in Thread :
    Places(i) = AtHal(i) \cup Own(i, t, b) \cup Elsewhere(i, t, b) \cup Out(i)
LEMMA PlacesSplit == Splits
<1> SUFFICES ASSUME NEW i, NEW b, NEW t \in Thread
             PROVE  Places(i) = AtHal(i) \cup Own(i, t, b) \cup Elsewhere(i, t, b) \cup Out(i)
  BY DEF Splits
<1>1. Entering(Thread, i) = Entering({t}, i) \cup Entering(Thread \ {t}, i)
  BY DEF Entering
<1>2. HeldBy(Batch, i) = HeldBy(Batch \cap {b}, i) \cup HeldBy(Batch \ {b}, i)
  BY DEF HeldBy
<1>3. CalledBy(Thread, i) = CalledIn(todo[t], t, i) \cup CalledBy(Thread \ {t}, i)
  BY DEF CalledBy
<1>4. QED
  BY <1>1, <1>2, <1>3 DEF Places, AtHal, Own, Elsewhere, Out

(* The places are different.                                                *)
LEMMA PlacesApart ==
  ASSUME NEW i, NEW t \in Thread, NEW b
  PROVE  /\ AtHal(i) \cap (Own(i, t, b) \cup Elsewhere(i, t, b) \cup Out(i)) = {}
         /\ Own(i, t, b) \cap (Elsewhere(i, t, b) \cup Out(i)) = {}
<1>1. \A x \in AtHal(i) : x[1] = "hal"
  BY DEF AtHal
<1>2. \A x \in Out(i) : x[1] \in {"received", "dropped"}
  BY DEF Out, SentUp
<1>3. \A x \in Own(i, t, b) :
        (x[1] = "held" /\ x[2] = b) \/ (x[1] \in {"entering", "call"} /\ x[2] = t)
  <2>1. \A x \in Entering({t}, i) : x[1] = "entering" /\ x[2] = t
    <3>1. \A x \in Entering({t}, i) : x[1] = "entering" /\ x[2] \in {t}
      BY ZenonT(60), Tags
    <3>2. QED
      BY <3>1
  <2>2. \A x \in HeldBy(Batch \cap {b}, i) : x[1] = "held" /\ x[2] = b
    BY ZenonT(60), Tags
  <2>3. \A x \in CalledIn(todo[t], t, i) : x[1] = "call" /\ x[2] = t
    BY Tags
  <2>4. QED
    BY <2>1, <2>2, <2>3 DEF Own
<1>4. \A x \in Elsewhere(i, t, b) :
        (x[1] = "held" /\ x[2] # b) \/ (x[1] \in {"entering", "call"} /\ x[2] # t)
  <2>1. \A x \in Entering(Thread \ {t}, i) : x[1] = "entering" /\ x[2] # t
    BY DEF Entering
  <2>2. \A x \in HeldBy(Batch \ {b}, i) : x[1] = "held" /\ x[2] # b
    BY ZenonT(60), Tags
  <2>3. \A x \in CalledBy(Thread \ {t}, i) : x[1] = "call" /\ x[2] # t
    BY ZenonT(60), Tags
  <2>4. QED
    BY <2>1, <2>2, <2>3 DEF Elsewhere
<1>5. \A x \in Own(i, t, b) : x \notin AtHal(i) /\ x \notin Elsewhere(i, t, b) /\ x \notin Out(i)
  BY <1>1, <1>2, <1>3, <1>4
<1>6. \A x \in AtHal(i) : x \notin Elsewhere(i, t, b) /\ x \notin Out(i)
  BY <1>1, <1>2, <1>4
<1>7. QED
  BY <1>5, <1>6

(* A step of one thread on one batch changes nothing elsewhere.            *)
LEMMA ElsewhereKept ==
  ASSUME NEW i, NEW t \in Thread, NEW b,
         \A u \in Thread \ {t} : Same(u), \A a \in Batch \ {b} : queue'[a] = queue[a]
  PROVE  Elsewhere(i, t, b)' = Elsewhere(i, t, b)
<1>1. Entering(Thread \ {t}, i)' = Entering(Thread \ {t}, i)
  BY DEF Same, Entering
<1>2. HeldBy(Batch \ {b}, i)' = HeldBy(Batch \ {b}, i)
  BY DEF HeldBy
<1>3. CalledBy(Thread \ {t}, i)' = CalledBy(Thread \ {t}, i)
  BY DEF Same, CalledBy
<1>4. QED
  BY <1>1, <1>2, <1>3 DEF Elsewhere

(* What is kept of a part is kept of the whole.                             *)
LEMMA KeptPart ==
  ASSUME NEW R, NEW A, NEW B, R \cap A = {}, Kept(A, B)
  PROVE  Kept(R \cup A, R \cup B)
<1>1. CASE A = {}
  BY <1>1 DEF Kept
<1>2. ASSUME A # {}, Single(R \cup A)
      PROVE  Single(R \cup B)
  <2>1. PICK x : R \cup A = {x}
    BY <1>2 DEF Single
  <2>2. A = {x} /\ R = {}
    BY <1>2, <2>1
  <2>3. Single(A) /\ R \cup B = B
    BY <2>2 DEF Single
  <2>4. QED
    BY <2>3 DEF Kept
<1>3. QED
  BY <1>1, <1>2 DEF Kept

(* What is kept twice is kept.                                              *)
LEMMA KeptTwice ==
  ASSUME NEW S, NEW T, NEW U, Kept(S, T), Kept(T, U)
  PROVE  Kept(S, U)
BY DEF Kept

(* A step of one thread on one batch that sends nothing,                    *)
LEMMA HalKept ==
  ASSUME NEW i, NEW t \in Thread, NEW b,
         \A u \in Thread \ {t} : Same(u), \A a \in Batch \ {b} : queue'[a] = queue[a],
         UNCHANGED <<received, dropped>>,
         Kept(AtHal(i) \cup Own(i, t, b), AtHal(i)' \cup Own(i, t, b)')
  PROVE  Kept(Places(i), Places(i)')
<1> DEFINE R == Elsewhere(i, t, b) \cup Out(i)
<1>1. Out(i)' = Out(i) /\ Elsewhere(i, t, b)' = Elsewhere(i, t, b)
  BY ElsewhereKept DEF Out, SentUp
<1>2. Splits /\ Splits'
  BY PlacesSplit, PTL
<1>3. /\ Places(i) = R \cup (AtHal(i) \cup Own(i, t, b))
      /\ R \cap (AtHal(i) \cup Own(i, t, b)) = {}
  BY <1>2, PlacesApart DEF Splits
<1>4. Places(i)' = AtHal(i)' \cup Own(i, t, b)' \cup Elsewhere(i, t, b)' \cup Out(i)'
  BY <1>2 DEF Splits
<1>5. Places(i)' = R \cup (AtHal(i)' \cup Own(i, t, b)')
  BY <1>1, <1>4
<1> HIDE DEF R
<1>6. Kept(R \cup (AtHal(i) \cup Own(i, t, b)), R \cup (AtHal(i)' \cup Own(i, t, b)'))
  BY <1>3, KeptPart
<1>7. QED
  BY <1>3, <1>5, <1>6

(* and touches nothing with the HAL.                                        *)
LEMMA OwnKept ==
  ASSUME NEW i, NEW t \in Thread, NEW b,
         \A u \in Thread \ {t} : Same(u), \A a \in Batch \ {b} : queue'[a] = queue[a],
         UNCHANGED <<pending, received, dropped>>, Kept(Own(i, t, b), Own(i, t, b)')
  PROVE  Kept(Places(i), Places(i)')
<1>1. AtHal(i)' = AtHal(i) /\ AtHal(i) \cap Own(i, t, b) = {}
  BY PlacesApart DEF AtHal
<1>2. Kept(AtHal(i) \cup Own(i, t, b), AtHal(i) \cup Own(i, t, b)')
  BY <1>1, KeptPart
<1>3. Kept(AtHal(i) \cup Own(i, t, b), AtHal(i)' \cup Own(i, t, b)')
  BY <1>1, <1>2
<1>4. QED
  BY <1>3, HalKept
-----------------------------------------------------------------------------
(* The deliveries of an item in a list of calls: none,                     *)
Among(calls, i) == {d \in Carries(calls) : Of(d) = i}
LEMMA CalledNowhere ==
  ASSUME NEW calls, NEW t, NEW i, Among(calls, i) = {}
  PROVE  CalledIn(calls, t, i) = {}
<1>1. \A k \in DOMAIN calls : {d \in calls[k].items : Of(d) = i} = {}
  BY DEF Carries, Among
<1>2. QED
  BY <1>1 DEF CalledIn

(* or one.                                                                  *)
LEMMA CalledOnce ==
  ASSUME NEW calls, Families(calls), NEW t, NEW i \in Class \X Nat, Single(Among(calls, i))
  PROVE  Single(CalledIn(calls, t, i))
<1>0. PICK d : Among(calls, i) = {d}
  BY DEF Single
<1> d \in Carries(calls) /\ Of(d) = i /\ \A e \in Carries(calls) : Of(e) = i => e = d
  BY <1>0 DEF Among
<1>1. PICK k \in DOMAIN calls : d \in calls[k].items
  BY DEF Carries
<1>2. d[2] \in UpTo(d[2])
  <2>1. d[2] = i[1] /\ i[1] \in Class
    BY DEF Of
  <2>2. QED
    BY <2>1, UpToClosed
<1>3. \A l \in DOMAIN calls : \A e \in calls[l].items : Of(e) = i => e = d /\ l = k
  BY <1>1, <1>2 DEF Carries, Families
<1>4. CalledIn(calls, t, i) = {<<"call", t, k, d>>}
  <2>1. <<"call", t, k, d>> \in CalledIn(calls, t, i)
    BY <1>1 DEF CalledIn
  <2>2. ASSUME NEW x \in CalledIn(calls, t, i)
        PROVE  x = <<"call", t, k, d>>
    <3>1. PICK l \in DOMAIN calls : x \in {<<"call", t, l, e>> : e \in {e \in calls[l].items : Of(e) = i}}
      BY <2>2 DEF CalledIn
    <3>2. QED
      BY <1>3, <3>1
  <2>3. QED
    BY <2>1, <2>2
<1>5. QED
  BY <1>4 DEF Single

(* What was held of a class goes up in one delivery each.                   *)
LEMMA SentFromHeld ==
  ASSUME NEW queues \in [BatchedClass -> Seq(Nat)], NEW b \in Batch, NEW t,
         NEW classes \in SUBSET BatchedClass, NEW i \in Class \X Nat, i[1] \in classes,
         NEW calls, Families(calls),
         \A d : Of(d) = i => (d \in Carries(calls) <=> d \in Content(queues, b, classes))
  PROVE  Kept(HeldIn(queues, b, i), CalledIn(calls, t, i))
<1> DEFINE c == i[1]
           f == i[2]
           N(k) == <<Number(b, c, k, f), c, f>>
<1>1. i = <<c, f>>
  OBVIOUS
<1>2. \A d : Of(d) = i => (d \in Carries(calls) <=> \E k \in DOMAIN queues[c] : queues[c][k] = f /\ d = N(k))
  <2>1. ASSUME NEW d, Of(d) = i, d \in Carries(calls)
        PROVE  \E k \in DOMAIN queues[c] : queues[c][k] = f /\ d = N(k)
    <3>1. PICK a \in classes :
             \E k \in DOMAIN queues[a] : d = <<Number(b, a, k, queues[a][k]), a, queues[a][k]>>
      BY SMTT(30), <2>1, ContentOf
    <3>2. PICK k \in DOMAIN queues[a] : d = <<Number(b, a, k, queues[a][k]), a, queues[a][k]>>
      BY <3>1
    <3>3. a = c /\ queues[a][k] = f
      BY <2>1, <3>2 DEF Of
    <3>4. QED
      BY <3>2, <3>3
  <2>2. ASSUME NEW d, Of(d) = i, NEW k \in DOMAIN queues[c], queues[c][k] = f, d = N(k)
        PROVE  d \in Carries(calls)
    <3>1. d = <<Number(b, c, k, queues[c][k]), c, queues[c][k]>>
      BY <2>2
    <3>2. d \in Content(queues, b, classes)
      BY <2>2, <3>1, ContentOf
    <3>3. QED
      BY <2>2, <3>2
  <2>3. QED
    BY <2>1, <2>2
<1>3. \A k : Of(N(k)) = i
  BY <1>1 DEF Of
<1>4. HeldIn(queues, b, i) = {<<"held", b, k>> : k \in {k \in DOMAIN queues[c] : queues[c][k] = f}}
  BY DEF HeldIn
<1> HIDE DEF c, f, N
<1>5. CASE HeldIn(queues, b, i) = {}
  <2>1. \A k \in DOMAIN queues[c] : queues[c][k] # f
    BY <1>4, <1>5
  <2>2. Among(calls, i) = {}
    BY <1>2, <2>1 DEF Among
  <2>3. QED
    BY <1>5, <2>2, CalledNowhere DEF Kept
<1>6. ASSUME Single(HeldIn(queues, b, i))
      PROVE  Single(CalledIn(calls, t, i))
  <2>0. PICK x : HeldIn(queues, b, i) = {x}
    BY <1>6 DEF Single
  <2>1. PICK k \in DOMAIN queues[c] : queues[c][k] = f
    BY <1>4, <2>0
  <2>2. \A l \in DOMAIN queues[c] : queues[c][l] = f => l = k
    <3>1. ASSUME NEW l \in DOMAIN queues[c], queues[c][l] = f
          PROVE  l = k
      <4>1. <<"held", b, l>> = x /\ <<"held", b, k>> = x
        BY <1>4, <2>0, <2>1, <3>1
      <4>2. QED
        BY <4>1
    <3>2. QED
      BY <3>1
  <2>3. Among(calls, i) = {N(k)}
    BY <1>2, <1>3, <2>1, <2>2 DEF Among
  <2>4. Single(Among(calls, i))
    BY <2>3 DEF Single
  <2>5. QED
    BY <2>4, CalledOnce
<1>7. QED
  BY <1>5, <1>6 DEF Kept

(* The call of an event that is not batched carries its items.              *)
LEMMA SingleCallCarries ==
  ASSUME NEW e
  PROVE  Carries(SingleCall(e)) = Plain(e.items) /\ Families(SingleCall(e))
<1>1. DOMAIN SingleCall(e) = {1} /\ SingleCall(e)[1].items = Plain(e.items)
  BY DEF SingleCall
<1>2. QED
  BY <1>1 DEF Carries, Families

(* An item has one plain delivery.                                          *)
LEMMA PlainOf ==
  ASSUME NEW items \in SUBSET Item, NEW i \in Class \X Nat
  PROVE  /\ i \in items => <<i[2], i[1], i[2]>> \in Plain(items)
         /\ Of(<<i[2], i[1], i[2]>>) = i
         /\ \A d \in Plain(items) : Of(d) = i => i \in items /\ d = <<i[2], i[1], i[2]>>
<1>1. i = <<i[1], i[2]>> /\ \A j \in items : j = <<j[1], j[2]>>
  BY DEF Item
<1>2. \A j \in items : Of(<<j[2], j[1], j[2]>>) = j
  BY <1>1 DEF Of
<1>3. QED
  BY <1>1, <1>2 DEF Plain, Of

(* So it goes up in one call, if it is among them.                         *)
LEMMA CalledPlain ==
  ASSUME NEW calls, Families(calls), NEW t, NEW i \in Class \X Nat, NEW items \in SUBSET Item,
         \A d : Of(d) = i => (d \in Carries(calls) <=> d \in Plain(items))
  PROVE  IF i \in items THEN Single(CalledIn(calls, t, i)) ELSE CalledIn(calls, t, i) = {}
<1>1. CASE i \in items
  <2> DEFINE d == <<i[2], i[1], i[2]>>
  <2>1. /\ d \in Plain(items) /\ Of(d) = i
        /\ \A x \in Plain(items) : Of(x) = i => x = d
    BY <1>1, PlainOf
  <2> HIDE DEF d
  <2>2. Among(calls, i) = {d}
    BY <2>1 DEF Among
  <2>3. Single(Among(calls, i))
    BY <2>2 DEF Single
  <2>4. QED
    BY <1>1, <2>3, CalledOnce
<1>2. CASE i \notin items
  <2>1. Among(calls, i) = {}
    BY <1>2, PlainOf DEF Among
  <2>2. QED
    BY <1>2, <2>1, CalledNowhere
<1>3. QED
  BY <1>1, <1>2

(* What is held in one batch.                                               *)
LEMMA HeldByOne ==
  ASSUME NEW b \in Batch, NEW i
  PROVE  HeldBy(Batch \cap {b}, i) = IF i[1] \in BatchedClass THEN HeldIn(queue[b], b, i) ELSE {}
<1>1. CASE i[1] \in BatchedClass
  <2>1. {a \in Batch \cap {b} : i[1] \in BatchedClass} = {b}
    BY <1>1
  <2>2. QED
    BY <1>1, <2>1 DEF HeldBy
<1>2. CASE i[1] \notin BatchedClass
  BY <1>2 DEF HeldBy
<1>3. QED
  BY <1>1, <1>2
-----------------------------------------------------------------------------
(* What the HAL owes is in one place; what it does not owe is nowhere.     *)
AccountedFor(i) == IF i \in owed THEN Single(Places(i)) ELSE Places(i) = {}
Ledger ==
  /\ \A i \in owed : i \in Class \X Frame /\ i[2] < nextFrame
  /\ \A i \in Class \X Frame : AccountedFor(i)

(* The items have frame numbers.                                            *)
LEMMA ItemNumbers == \A i \in Class \X Frame : i \in Class \X Nat /\ i \in Item /\ i[1] # Error
<1>1. Frame \subseteq Nat
  BY Bursts DEF Frame, Frames
<1>2. QED
  BY <1>1, Classes DEF Item

(* What a step keeps stays accounted for.                                   *)
LEMMA KeptAccounted ==
  ASSUME NEW i, AccountedFor(i), Kept(Places(i), Places(i)'), i \in owed' <=> i \in owed
  PROVE  AccountedFor(i)'
BY DEF AccountedFor, Kept

(* What is in one place before and after, or in none.                       *)
LEMMA KeptOne ==
  ASSUME NEW P, NEW x, NEW S, NEW T, S = IF P THEN {x} ELSE {}, IF P THEN Single(T) ELSE T = {}
  PROVE  Kept(S, T)
<1>1. CASE P
  BY <1>1 DEF Kept
<1>2. CASE ~P
  <2>1. S = {} /\ T = {}
    BY <1>2
  <2>2. ~Single(S)
    BY <2>1 DEF Single
  <2>3. QED
    BY <2>1, <2>2 DEF Kept
<1>3. QED
  BY <1>1, <1>2

(* Queueing an item and sending what it ends moves each item once.          *)
LEMMA LockBatchMoves ==
  ASSUME Ordered, NEW t \in Thread, NEW b, b = at[t], LockBatch(t), NEW i \in Class \X Nat
  PROVE  Kept(Own(i, t, b), Own(i, t, b)')
<1> DEFINE e == ev[t]
           c == i[1]
           f == i[2]
<1>1. /\ IInv /\ Phase(t) /\ b \in Batch /\ pc[t] = "queue" /\ pc'[t] = "calling" /\ ev' = ev
      /\ todo[t] = <<>> /\ Piecemeal(e) /\ e \in Event /\ i = <<c, f>>
  BY LockBatchEffect DEF Ordered, Phase, IInv, TypeOK
<1>2. /\ Own(i, t, b) = Entering({t}, i) \cup IF c \in BatchedClass THEN HeldIn(queue[b], b, i) ELSE {}
      /\ Own(i, t, b)' = (IF c \in BatchedClass THEN HeldIn(queue'[b], b, i) ELSE {}) \cup CalledIn(todo'[t], t, i)
  <2>1. HeldBy(Batch \cap {b}, i) = IF c \in BatchedClass THEN HeldIn(queue[b], b, i) ELSE {}
    BY <1>1, HeldByOne
  <2>2. HeldBy(Batch \cap {b}, i)' = IF c \in BatchedClass THEN HeldIn(queue'[b], b, i) ELSE {}
    <3>1. CASE c \in BatchedClass
      <4>1. {a \in Batch \cap {b} : i[1] \in BatchedClass} = {b}
        BY <1>1, <3>1
      <4>2. QED
        BY <3>1, <4>1 DEF HeldBy
    <3>2. CASE c \notin BatchedClass
      BY <3>2 DEF HeldBy
    <3>3. QED
      BY <3>1, <3>2
  <2>3. CalledIn(todo[t], t, i) = {}
    BY <1>1 DEF CalledIn
  <2>4. Entering({t}, i)' = {}
    BY <1>1 DEF Entering
  <2>5. QED
    BY <2>1, <2>2, <2>3, <2>4 DEF Own
<1>3. Entering({t}, i) = IF i \in e.items THEN {<<"entering", t>>} ELSE {}
  BY <1>1 DEF Entering
<1>4. CASE removed[b]
  <2>1. todo'[t] = SingleCall(e) /\ queue'[b] = queue[b]
    BY <1>1, <1>4, LockBatchEffect
  <2>2. c \in BatchedClass => queue[b][c] = <<>>
    BY <1>1, <1>4 DEF IInv, RemovedBatchIsEmpty
  <2>3. c \in BatchedClass => HeldIn(queue[b], b, i) = {}
    BY <2>2 DEF HeldIn
  <2>4. IF i \in e.items THEN Single(CalledIn(todo'[t], t, i)) ELSE CalledIn(todo'[t], t, i) = {}
    <3>1. e.items \in SUBSET Item
      BY <1>1 DEF Event
    <3>2. Carries(todo'[t]) = Plain(e.items) /\ Families(todo'[t])
      BY <2>1, SingleCallCarries
    <3>3. QED
      BY <3>1, <3>2, CalledPlain
  <2>5. Own(i, t, b) = Entering({t}, i) /\ Own(i, t, b)' = CalledIn(todo'[t], t, i)
    BY <1>2, <2>1, <2>3
  <2>6. QED
    BY <1>3, <2>4, <2>5, KeptOne
<1>5. CASE ~removed[b]
  <2> DEFINE p == Pushed(b, e)
             n == Ended(b, e)
  <2>1. /\ queue'[b] = [x \in BatchedClass |-> IF x \in n THEN <<>> ELSE p[x]]
        /\ p \in [BatchedClass -> Seq(Nat)] /\ n \in SUBSET BatchedClass
        /\ Carries(todo'[t]) = Plain(Unbatched(e)) \cup Content(p, b, n)
        /\ Families(todo'[t])
    <3>1. Held(b) \in BatchState /\ Sound(Held(b))
      BY <1>1, HeldType DEF IInv, SentIsNotHeld
    <3>2. \A x \in delivered[b] : <<x, e.frame>> \notin e.items
      BY <1>1, <1>5, LockBatchEffect DEF IInv, SentIsOver
    <3>3. n \in SUBSET BatchedClass
      BY DEF Ended
    <3>4. todo'[t] = QueueItems(b, e).calls /\ queue'[b] = QueueItems(b, e).queue
      BY <1>1, <1>5, LockBatchEffect
    <3>5. QED
      BY <1>1, <3>1, <3>2, <3>3, <3>4, QueueItemsSends
  <2>2. Unbatched(e) \in SUBSET Item
    BY <1>1 DEF Event, Unbatched
  <2> HIDE DEF p, n, e, c, f
  <2>3. CASE c \notin BatchedClass
    <3>1. \A d : Of(d) = i => (d \in Carries(todo'[t]) <=> d \in Plain(Unbatched(e)))
      <4>1. ASSUME NEW d \in Content(p, b, n), Of(d) = i
            PROVE  FALSE
        <5>1. d[2] \in n /\ d[2] = c
          BY <1>1, <4>1, ContentClass DEF Of
        <5>2. QED
          BY <2>1, <2>3, <5>1
      <4>2. QED
        BY <2>1, <4>1
    <3>2. IF i \in Unbatched(e) THEN Single(CalledIn(todo'[t], t, i)) ELSE CalledIn(todo'[t], t, i) = {}
      BY <2>1, <2>2, <3>1, CalledPlain
    <3>3. i \in Unbatched(e) <=> i \in e.items
      BY <2>3 DEF Unbatched, c
    <3>4. Own(i, t, b) = Entering({t}, i) /\ Own(i, t, b)' = CalledIn(todo'[t], t, i)
      BY <1>2, <2>3
    <3>5. QED
      BY <1>3, <3>2, <3>3, <3>4, KeptOne
  <2>4. CASE c \in BatchedClass
    <3>1. Own(i, t, b) = Entering({t}, i) \cup HeldIn(queue[b], b, i)
          /\ Own(i, t, b)' = HeldIn(queue'[b], b, i) \cup CalledIn(todo'[t], t, i)
      BY <1>2, <2>4
    <3>2. \A d \in Plain(Unbatched(e)) : Of(d) # i
      <4>1. i \notin Unbatched(e)
        BY <2>4 DEF Unbatched, c
      <4>2. QED
        BY <2>2, <4>1, PlainOf
    <3>3. Kept(Entering({t}, i) \cup HeldIn(queue[b], b, i), HeldIn(p, b, i))
      <4>1. queue[b][c] \in Seq(Nat) /\ e.frame \in Nat
        BY <1>1, <2>4 DEF IInv, TypeOK, Event
      <4>2. p[c] = IF <<c, e.frame>> \in e.items THEN Append(queue[b][c], e.frame) ELSE queue[b][c]
        BY <2>4 DEF Pushed, p
      <4>3. /\ HeldIn(p, b, i) = {<<"held", b, k>> : k \in {k \in DOMAIN p[c] : p[c][k] = f}}
            /\ HeldIn(queue[b], b, i) = {<<"held", b, k>> : k \in {k \in DOMAIN queue[b][c] : queue[b][c][k] = f}}
        BY DEF HeldIn, c, f
      <4>4. CASE i \in e.items
        <5>1. f = e.frame /\ <<c, e.frame>> \in e.items
          BY <1>1, <4>4 DEF Piecemeal
        <5>2. DEFINE q == queue[b][c]
                     n1 == Len(q) + 1
        <5> q \in Seq(Nat) /\ p[c] = Append(q, e.frame)
          BY <4>1, <4>2, <5>1
        <5> HIDE DEF q
        <5>3. /\ DOMAIN p[c] = DOMAIN q \cup {n1} /\ p[c][n1] = f
              /\ \A k \in DOMAIN q : p[c][k] = q[k]
          BY <4>1, <5>1, DequeAppend
        <5>4. {k \in DOMAIN p[c] : p[c][k] = f} = {k \in DOMAIN q : q[k] = f} \cup {n1}
          BY <5>3
        <5> HIDE DEF n1
        <5>5. HeldIn(p, b, i) = HeldIn(queue[b], b, i) \cup {<<"held", b, n1>>}
          <6>1. \A A, B : A = B \cup {n1} =>
                  {<<"held", b, k>> : k \in A} = {<<"held", b, k>> : k \in B} \cup {<<"held", b, n1>>}
            OBVIOUS
          <6>2. QED
            BY SMTT(30), <4>3, <5>4, <6>1 DEF q
        <5>6. Kept({<<"entering", t>>}, {<<"held", b, n1>>})
          BY DEF Kept, Single
        <5>7. HeldIn(queue[b], b, i) \cap {<<"entering", t>>} = {}
          BY DEF HeldIn
        <5>8. Kept(HeldIn(queue[b], b, i) \cup {<<"entering", t>>}, HeldIn(queue[b], b, i) \cup {<<"held", b, n1>>})
          BY <5>6, <5>7, KeptPart
        <5>9. Entering({t}, i) \cup HeldIn(queue[b], b, i) = HeldIn(queue[b], b, i) \cup {<<"entering", t>>}
          BY <1>3, <4>4
        <5>10. QED
          BY <5>5, <5>8, <5>9
      <4>5. CASE i \notin e.items
        <5>1. Entering({t}, i) = {}
          BY <1>3, <4>5
        <5>2. {k \in DOMAIN p[c] : p[c][k] = f} = {k \in DOMAIN queue[b][c] : queue[b][c][k] = f}
          <6>1. CASE <<c, e.frame>> \notin e.items
            BY <4>2, <6>1
          <6>2. CASE <<c, e.frame>> \in e.items
            <7>1. f # e.frame
              BY <1>1, <4>5, <6>2
            <7> DEFINE q == queue[b][c]
            <7>2. q \in Seq(Nat) /\ p[c] = Append(q, e.frame)
              BY <4>1, <4>2, <6>2
            <7> HIDE DEF q
            <7>3. /\ DOMAIN p[c] = DOMAIN q \cup {Len(q) + 1} /\ p[c][Len(q) + 1] = e.frame
                  /\ \A k \in DOMAIN q : p[c][k] = q[k]
              BY <4>1, <7>2, DequeAppend
            <7>4. {k \in DOMAIN p[c] : p[c][k] = f} = {k \in DOMAIN q : q[k] = f}
              BY <7>1, <7>3
            <7>5. QED
              BY <7>4 DEF q
          <6>3. QED
            BY <6>1, <6>2
        <5>3. HeldIn(p, b, i) = HeldIn(queue[b], b, i)
          BY <4>3, <5>2
        <5>4. QED
          BY <5>1, <5>3 DEF Kept
      <4>6. QED
        BY <4>4, <4>5
    <3>4. CASE c \notin n
      <4>1. queue'[b][c] = p[c]
        BY <2>1, <2>4, <3>4
      <4>2. HeldIn(queue'[b], b, i) = HeldIn(p, b, i)
        BY <4>1 DEF HeldIn, c
      <4>3. \A d \in Carries(todo'[t]) : Of(d) # i
        <5>1. \A d \in Content(p, b, n) : Of(d) # i
          BY <1>1, <3>4, ContentClass DEF Of
        <5>2. QED
          BY <2>1, <3>2, <5>1
      <4>4. CalledIn(todo'[t], t, i) = {}
        BY <4>3, CalledNowhere DEF Among
      <4>5. QED
        BY <3>1, <3>3, <4>2, <4>4
    <3>5. CASE c \in n
      <4>1. queue'[b][c] = <<>>
        BY <2>1, <2>4, <3>5
      <4>2. HeldIn(queue'[b], b, i) = {}
        BY <4>1 DEF HeldIn, c
      <4>3. \A d : Of(d) = i => (d \in Carries(todo'[t]) <=> d \in Content(p, b, n))
        BY <2>1, <3>2
      <4>4. Kept(HeldIn(p, b, i), CalledIn(todo'[t], t, i))
        BY <1>1, <2>1, <3>5, <4>3, SentFromHeld DEF c
      <4>5. Kept(Entering({t}, i) \cup HeldIn(queue[b], b, i), CalledIn(todo'[t], t, i))
        BY <3>3, <4>4, KeptTwice
      <4>6. QED
        BY <3>1, <4>2, <4>5
    <3>6. QED
      BY <3>4, <3>5
  <2>5. QED
    BY <2>3, <2>4
<1>6. QED
  BY <1>4, <1>5

(* The error path sends every item it finds held, once.                     *)
LEMMA FlushMoves ==
  ASSUME Ordered, NEW t \in Thread, NEW b, b = Head(inflight), FlushFirstBatch(t), NEW i \in Class \X Nat
  PROVE  Kept(Own(i, t, b), Own(i, t, b)')
<1> DEFINE c == i[1]
<1>1. /\ IInv /\ Phase(t) /\ b \in Batch /\ pc[t] = "flush" /\ pc'[t] = "calling"
      /\ todo[t] = <<>> /\ todo'[t] = FlushBatch(b).calls /\ queue'[b] = FlushBatch(b).queue
  BY FlushFirstBatchEffect DEF Ordered, Phase
<1>2. /\ \A x \in BatchedClass : queue'[b][x] = <<>>
      /\ Carries(todo'[t]) = Content(queue[b], b, BatchedClass)
      /\ Families(todo'[t]) /\ queue[b] \in [BatchedClass -> Seq(Nat)]
  <2>1. Held(b) \in BatchState /\ Sound(Held(b)) /\ queue[b] \in [BatchedClass -> Seq(Nat)]
    BY <1>1, HeldType DEF IInv, SentIsNotHeld, TypeOK
  <2>2. QED
    BY <1>1, <2>1, FlushSends
<1>3. /\ Own(i, t, b) = IF c \in BatchedClass THEN HeldIn(queue[b], b, i) ELSE {}
      /\ Own(i, t, b)' = CalledIn(todo'[t], t, i)
  <2>1. HeldBy(Batch \cap {b}, i) = IF c \in BatchedClass THEN HeldIn(queue[b], b, i) ELSE {}
    BY <1>1, HeldByOne
  <2>2. HeldBy(Batch \cap {b}, i)' = {}
    BY <1>1, <1>2 DEF HeldBy, HeldIn
  <2>3. CalledIn(todo[t], t, i) = {}
    BY <1>1 DEF CalledIn
  <2>4. Entering({t}, i) = {} /\ Entering({t}, i)' = {}
    BY <1>1 DEF Entering
  <2>5. QED
    BY <2>1, <2>2, <2>3, <2>4 DEF Own
<1>4. CASE c \in BatchedClass
  <2>1. Kept(HeldIn(queue[b], b, i), CalledIn(todo'[t], t, i))
    <3>1. \A d : Of(d) = i => (d \in Carries(todo'[t]) <=> d \in Content(queue[b], b, BatchedClass))
      BY <1>2
    <3>2. BatchedClass \in SUBSET BatchedClass
      OBVIOUS
    <3>3. QED
      BY <1>1, <1>2, <1>4, <3>1, <3>2, SentFromHeld
  <2>2. QED
    BY <1>3, <1>4, <2>1
<1>5. CASE c \notin BatchedClass
  <2>1. Among(todo'[t], i) = {}
    BY <1>2, <1>5, ContentClass DEF Among, Of
  <2>2. CalledIn(todo'[t], t, i) = {}
    BY <2>1, CalledNowhere
  <2>3. QED
    BY <1>3, <1>5, <2>2 DEF Kept
<1>6. QED
  BY <1>4, <1>5

(* A call into the framework takes along the items it carries.              *)
LEMMA CallMoves ==
  ASSUME NEW calls \in Seq(Call), calls # <<>>, NEW t, NEW i, NEW place
  PROVE  Kept(CalledIn(calls, t, i), CalledIn(Tail(calls), t, i) \cup SentUp(place, Head(calls).items, i))
<1> DEFINE rest == Tail(calls)
           sent == Head(calls).items
<1>1. /\ 1 \in DOMAIN calls /\ calls[1].items = sent
      /\ \A k \in DOMAIN rest : k \in Nat /\ k + 1 \in DOMAIN calls /\ k + 1 # 1 /\ rest[k] = calls[k + 1]
      /\ \A k \in DOMAIN calls : k \in Nat /\ (k # 1 => k - 1 \in DOMAIN rest /\ rest[k - 1] = calls[k])
  OBVIOUS
<1> HIDE DEF rest, sent
<1>2. \A k, d : <<"call", t, k, d>> \in CalledIn(calls, t, i) <=> k \in DOMAIN calls /\ d \in calls[k].items /\ Of(d) = i
  BY DEF CalledIn
<1>3. ASSUME NEW x \in CalledIn(rest, t, i)
      PROVE  \E k \in DOMAIN rest : \E d \in rest[k].items : Of(d) = i /\ x = <<"call", t, k, d>>
  <2>1. PICK k \in DOMAIN rest : x \in {<<"call", t, k, d>> : d \in {d \in rest[k].items : Of(d) = i}}
    BY <1>3 DEF CalledIn
  <2>2. QED
    BY <2>1
<1>4. ASSUME NEW x \in CalledIn(calls, t, i)
      PROVE  \E k \in DOMAIN calls : \E d \in calls[k].items : Of(d) = i /\ x = <<"call", t, k, d>>
  <2>1. PICK k \in DOMAIN calls : x \in {<<"call", t, k, d>> : d \in {d \in calls[k].items : Of(d) = i}}
    BY <1>4 DEF CalledIn
  <2>2. QED
    BY <2>1
<1>5. SentUp(place, sent, i) = {<<place, d>> : d \in {d \in sent : Of(d) = i}}
  BY DEF SentUp
<1>6. CASE CalledIn(calls, t, i) = {}
  <2>1. CalledIn(rest, t, i) = {}
    BY <1>1, <1>2, <1>3, <1>6
  <2>2. SentUp(place, sent, i) = {}
    BY <1>1, <1>2, <1>5, <1>6
  <2>3. ~Single(CalledIn(calls, t, i))
    BY <1>6 DEF Single
  <2>4. QED
    BY <2>1, <2>2, <2>3 DEF Kept, rest, sent
<1>7. ASSUME Single(CalledIn(calls, t, i))
      PROVE  Single(CalledIn(rest, t, i) \cup SentUp(place, sent, i))
  <2>1. PICK x : CalledIn(calls, t, i) = {x}
    BY <1>7 DEF Single
  <2>2. PICK k \in DOMAIN calls : \E d \in calls[k].items : Of(d) = i /\ x = <<"call", t, k, d>>
    BY <1>4, <2>1
  <2>3. PICK d \in calls[k].items : Of(d) = i /\ x = <<"call", t, k, d>>
    BY <2>2
  <2>4. \A l \in DOMAIN calls : \A e \in calls[l].items : Of(e) = i => l = k /\ e = d
    <3>1. ASSUME NEW l \in DOMAIN calls, NEW e \in calls[l].items, Of(e) = i
          PROVE  l = k /\ e = d
      <4>1. <<"call", t, l, e>> = <<"call", t, k, d>>
        BY <1>2, <2>1, <2>3, <3>1
      <4>2. QED
        BY <4>1
    <3>2. QED
      BY <3>1
  <2>5. CASE k = 1
    <3>1. CalledIn(rest, t, i) = {}
      <4>1. ASSUME NEW l \in DOMAIN rest, NEW e \in rest[l].items, Of(e) = i
            PROVE  FALSE
        <5>1. l + 1 = k
          BY <1>1, <2>4, <4>1
        <5>2. QED
          BY <1>1, <2>5, <5>1
      <4>2. QED
        BY <1>3, <4>1
    <3>2. SentUp(place, sent, i) = {<<place, d>>}
      BY <1>1, <1>5, <2>3, <2>4, <2>5
    <3>3. QED
      BY <3>1, <3>2 DEF Single
  <2>6. CASE k # 1
    <3>1. SentUp(place, sent, i) = {}
      BY <1>1, <1>5, <2>4, <2>6
    <3>2. k - 1 \in DOMAIN rest /\ d \in rest[k - 1].items
      BY <1>1, <2>3, <2>6
    <3>3. <<"call", t, k - 1, d>> \in CalledIn(rest, t, i)
      BY <2>3, <3>2 DEF CalledIn
    <3>4. \A y \in CalledIn(rest, t, i) : y = <<"call", t, k - 1, d>>
      <4>1. ASSUME NEW l \in DOMAIN rest, NEW e \in rest[l].items, Of(e) = i
            PROVE  l = k - 1 /\ e = d
        <5>1. l + 1 = k /\ e = d
          BY <1>1, <2>4, <4>1
        <5>2. QED
          BY <1>1, <5>1
      <4>2. QED
        BY <1>3, <4>1
    <3>5. CalledIn(rest, t, i) \cup SentUp(place, sent, i) = {<<"call", t, k - 1, d>>}
      BY <3>1, <3>3, <3>4
    <3>6. QED
      BY <3>5 DEF Single
  <2>7. QED
    BY <2>5, <2>6
<1>8. CASE CalledIn(calls, t, i) # {}
  BY <1>7, <1>8 DEF Kept, rest, sent
<1>9. QED
  BY <1>6, <1>8

(* What a thread has of an item when it holds no batch.                     *)
LEMMA OwnOutside ==
  ASSUME NEW i, NEW t
  PROVE  /\ Own(i, t, NotBatched) = Entering({t}, i) \cup CalledIn(todo[t], t, i)
         /\ Own(i, t, NotBatched)' = Entering({t}, i)' \cup CalledIn(todo'[t], t, i)
<1>1. Batch \cap {NotBatched} = {}
  BY Bursts DEF NotBatched
<1>2. HeldBy(Batch \cap {NotBatched}, i) = {} /\ HeldBy(Batch \cap {NotBatched}, i)' = {}
  BY <1>1 DEF HeldBy
<1>3. QED
  BY <1>2 DEF Own

(* The binder thread hands out new items only.                              *)
LEMMA SubmitLedger ==
  ASSUME Ordered, Ledger, Submit
  PROVE  Ledger'
<1>1. /\ nextFrame \in Nat /\ nextFrame' = nextFrame + 1 /\ owed \subseteq Item
      /\ pending' = pending \cup (Class \X {nextFrame})
      /\ owed' = owed \cup (Class \X {nextFrame})
      /\ UNCHANGED <<queue, pc, ev, todo, received, dropped>>
  BY DEF Submit, Ordered, IInv, TypeOK, batchVars, threadVars, outVars
<1>2. \A i \in owed' : i \in Class \X Frame /\ i[2] < nextFrame'
  <2>1. nextFrame \in Frame
    BY <1>1, Bursts DEF Submit, Ordered, IInv, SubmittedOnly, Frame, Frames
  <2>2. \A i \in owed : i[2] \in Nat
    BY <1>1 DEF Item
  <2>3. QED
    BY <1>1, <2>1, <2>2 DEF Ledger
<1>3. ASSUME NEW i \in Class \X Frame
      PROVE  AccountedFor(i)'
  <2> DEFINE R == Entering(Thread, i) \cup HeldBy(Batch, i) \cup CalledBy(Thread, i) \cup Out(i)
  <2>1. Places(i) = AtHal(i) \cup R /\ Places(i)' = AtHal(i)' \cup R'
    BY DEF Places, AtHal, Out
  <2>2. R' = R
    <3>1. Entering(Thread, i)' = Entering(Thread, i)
      BY <1>1 DEF Entering
    <3>2. HeldBy(Batch, i)' = HeldBy(Batch, i)
      BY <1>1 DEF HeldBy
    <3>3. CalledBy(Thread, i)' = CalledBy(Thread, i)
      BY <1>1 DEF CalledBy
    <3>4. Out(i)' = Out(i)
      BY <1>1 DEF Out
    <3>5. QED
      BY <3>1, <3>2, <3>3, <3>4
  <2> HIDE DEF R
  <2>3. CASE i[2] = nextFrame
    <3>1. i \notin owed
      BY <1>1, <2>3 DEF Ledger
    <3>2. R = {}
      BY <2>1, <3>1 DEF Ledger, AccountedFor
    <3>3. i \in pending' /\ i \in owed'
      BY <1>1, <2>3
    <3>4. Places(i)' = {<<"hal">>}
      BY <2>1, <2>2, <3>2, <3>3 DEF AtHal
    <3>5. QED
      BY <3>3, <3>4 DEF AccountedFor, Single
  <2>4. CASE i[2] # nextFrame
    <3>1. (i \in pending' <=> i \in pending) /\ (i \in owed' <=> i \in owed)
      BY <1>1, <2>4
    <3>2. AtHal(i)' = AtHal(i)
      BY <3>1 DEF AtHal
    <3>3. Places(i)' = Places(i)
      BY <2>1, <2>2, <3>2
    <3>4. QED
      BY <3>1, <3>3 DEF Ledger, AccountedFor
  <2>5. QED
    BY <2>3, <2>4
<1>4. QED
  BY <1>2, <1>3 DEF Ledger

(* Frame numbers only grow.                                                 *)
LEMMA NextBurstEffect ==
  ASSUME IInv, SubmitFails \/ RegisterBatch
  PROVE  /\ burst \in Batch /\ burst' = burst + 1
         /\ nextFrame \in Nat /\ nextFrame' \in Nat /\ nextFrame <= nextFrame'
         /\ burst' \in Batch => nextFrame' = Burst[burst'].first
<1>1. /\ burst \in Batch /\ burst \in Nat /\ NextBurst /\ nextFrame <= Burst[burst].last + 1
      /\ nextFrame \in Nat /\ Burst[burst].last \in Nat
  BY Bursts DEF SubmitFails, RegisterBatch, IInv, TypeOK
<1>2. CASE burst + 1 \in Batch
  <2>1. nextFrame' = Burst[burst + 1].first /\ Burst[burst + 1].first \in Nat
    BY <1>1, <1>2, Bursts DEF NextBurst
  <2>2. Burst[burst].last < Burst[burst + 1].first
    BY <1>1, <1>2, Bursts
  <2>3. QED
    BY <1>1, <2>1, <2>2 DEF NextBurst
<1>3. CASE burst + 1 \notin Batch
  BY <1>1, <1>3 DEF NextBurst
<1>4. QED
  BY <1>2, <1>3

(* The end of a burst moves nothing.                                        *)
LEMMA NextBurstLedger ==
  ASSUME Ordered, Ledger, SubmitFails \/ RegisterBatch
  PROVE  Ledger'
<1>1. /\ nextFrame \in Nat /\ nextFrame' \in Nat /\ nextFrame <= nextFrame' /\ owed \subseteq Item
      /\ UNCHANGED <<pending, owed, queue, pc, ev, todo, received, dropped>>
  BY NextBurstEffect DEF SubmitFails, RegisterBatch, Ordered, IInv, TypeOK, halVars, batchVars, threadVars, outVars
<1>2. \A i \in owed' : i \in Class \X Frame /\ i[2] < nextFrame'
  BY <1>1 DEF Ledger, Item
<1>3. \A i : Places(i)' = Places(i)
  BY <1>1 DEF Places, Entering, HeldBy, CalledBy
<1>4. QED
  BY <1>1, <1>2, <1>3 DEF Ledger, AccountedFor

(* A report moves its items from the HAL to the thread; what the HAL gives  *)
(* up was nowhere else.                                                     *)
LEMMA ReportLedger ==
  ASSUME Ordered, Ledger, NEW t \in Thread, NEW e \in Event, Reports(t, e)
  PROVE  Ledger'
<1>1. /\ pc[t] = "idle" /\ todo[t] = <<>> /\ ev'[t] = e /\ \A u \in Thread \ {t} : Same(u)
      /\ UNCHANGED <<nextFrame, queue, received, dropped>>
      /\ owed' \subseteq owed
      /\ \/ pc'[t] = "calling" /\ todo'[t] = SingleCall(e)
         \/ pc'[t] = (IF e.kind = "error" THEN "error" ELSE "queue") /\ todo'[t] = <<>>
  BY ReportsEffect DEF Ordered, Phase
<1>2. SUFFICES ASSUME NEW i \in Class \X Frame
               PROVE  AccountedFor(i)'
  BY <1>1 DEF Ledger
<1>3. i \in Class \X Nat /\ i[1] # Error /\ e.items \in SUBSET Item /\ AccountedFor(i)
  BY ItemNumbers DEF Event, Ledger
<1>4. Own(i, t, NotBatched) = {}
  BY <1>1, OwnOutside DEF Entering, CalledIn
<1>5. IF i \in e.items THEN Single(Own(i, t, NotBatched)') ELSE Own(i, t, NotBatched)' = {}
  <2>1. Own(i, t, NotBatched)' = Entering({t}, i)' \cup CalledIn(todo'[t], t, i)
    BY OwnOutside
  <2>2. CASE pc'[t] = "calling" /\ todo'[t] = SingleCall(e)
    <3>1. Entering({t}, i)' = {}
      BY <2>2 DEF Entering
    <3>2. IF i \in e.items THEN Single(CalledIn(todo'[t], t, i)) ELSE CalledIn(todo'[t], t, i) = {}
      BY <1>3, <2>2, SingleCallCarries, CalledPlain
    <3>3. QED
      BY <2>1, <3>1, <3>2
  <2>3. CASE pc'[t] = (IF e.kind = "error" THEN "error" ELSE "queue") /\ todo'[t] = <<>>
    <3>1. CalledIn(todo'[t], t, i) = {}
      BY <2>3 DEF CalledIn
    <3>2. Entering({t}, i)' = IF pc'[t] = "queue" /\ i \in e.items THEN {<<"entering", t>>} ELSE {}
      BY <1>1 DEF Entering
    <3>3. i \in e.items => pc'[t] = "queue"
      <4>1. e.kind = "error" => i \notin e.items
        BY <1>3 DEF Reports
      <4>2. QED
        BY <2>3, <4>1
    <3>4. QED
      BY <2>1, <3>1, <3>2, <3>3 DEF Single
  <2>4. QED
    BY <1>1, <2>2, <2>3
<1>6. CASE e.kind # "error"
  <2>1. UNCHANGED owed /\ pending' = pending \ e.items /\ \A j \in e.items : j \in pending
    BY <1>6 DEF Reports, MayReport
  <2>2. Kept(AtHal(i) \cup Own(i, t, NotBatched), AtHal(i)' \cup Own(i, t, NotBatched)')
    <3>1. CASE i \in e.items
      <4>1. AtHal(i) = {<<"hal">>} /\ AtHal(i)' = {}
        BY <2>1, <3>1 DEF AtHal
      <4>2. QED
        BY <1>4, <1>5, <3>1, <4>1 DEF Kept
    <3>2. CASE i \notin e.items
      <4>1. AtHal(i)' = AtHal(i)
        BY <2>1, <3>2 DEF AtHal
      <4>2. QED
        BY <1>4, <1>5, <3>2, <4>1 DEF Kept
    <3>3. QED
      BY <3>1, <3>2
  <2>3. Kept(Places(i), Places(i)')
    BY <1>1, <2>2, HalKept
  <2>4. QED
    BY <1>3, <2>1, <2>3, KeptAccounted
<1>7. CASE e.kind = "error"
  <2>1. PICK lost \in SUBSET pending : pending' = pending \ lost /\ owed' = owed \ lost
    BY <1>7 DEF Reports
  <2>2. i \notin e.items
    BY <1>3, <1>7 DEF Reports
  <2>3. CASE i \notin lost
    <3>1. AtHal(i)' = AtHal(i)
      BY <2>1, <2>3 DEF AtHal
    <3>2. Kept(AtHal(i) \cup Own(i, t, NotBatched), AtHal(i)' \cup Own(i, t, NotBatched)')
      BY <1>4, <1>5, <2>2, <3>1 DEF Kept
    <3>3. Kept(Places(i), Places(i)')
      BY <1>1, <3>2, HalKept
    <3>4. QED
      BY <1>3, <2>1, <2>3, <3>3, KeptAccounted
  <2>4. CASE i \in lost
    <3>1. AtHal(i) = {<<"hal">>} /\ AtHal(i)' = {} /\ i \notin owed'
      BY <2>1, <2>4 DEF AtHal
    <3>2. Splits /\ Splits'
      BY PlacesSplit, PTL
    <3>3. /\ Places(i) = AtHal(i) \cup Own(i, t, NotBatched) \cup Elsewhere(i, t, NotBatched) \cup Out(i)
          /\ Places(i)' = AtHal(i)' \cup Own(i, t, NotBatched)' \cup Elsewhere(i, t, NotBatched)' \cup Out(i)'
      BY <3>2 DEF Splits
    <3>4. Elsewhere(i, t, NotBatched)' = Elsewhere(i, t, NotBatched) /\ Out(i)' = Out(i)
      BY <1>1, ElsewhereKept DEF Out, SentUp
    <3>5. AtHal(i) \cap (Elsewhere(i, t, NotBatched) \cup Out(i)) = {}
      BY PlacesApart
    <3>6. Places(i) = {<<"hal">>}
      <4>1. Single(Places(i)) /\ <<"hal">> \in Places(i)
        BY <1>3, <3>1, <3>3 DEF AccountedFor
      <4>2. QED
        BY <4>1 DEF Single
    <3>7. Places(i)' = {}
      BY <1>5, <2>2, <3>1, <3>3, <3>4, <3>5, <3>6
    <3>8. QED
      BY <3>1, <3>7 DEF AccountedFor
  <2>5. QED
    BY <2>3, <2>4
<1>8. QED
  BY <1>6, <1>7

(* Every step of a thread under way moves what it moves once.               *)
LEMMA StepLedger ==
  ASSUME Ordered, Ledger, NEW t \in Thread, Step(t) \/ FlushNothing(t)
  PROVE  Ledger'
<1>1. IInv /\ Phase(t)
  BY DEF Ordered
<1>2. UNCHANGED <<nextFrame, owed>>
  BY <1>1, LockBatchEffect, FlushFirstBatchEffect, CallEffect, ReleaseEffect, RemoveFirstBatchEffect,
     SmallStepEffect DEF Step
<1>3. SUFFICES ASSUME NEW i \in Class \X Frame
               PROVE  Kept(Places(i), Places(i)')
  BY <1>2, KeptAccounted DEF Ledger
<1>4. i \in Class \X Nat /\ i[1] # Error
  BY ItemNumbers
<1>5. CASE LockBatch(t)
  <2>1. /\ \A u \in Thread \ {t} : Same(u)
        /\ \A x \in Batch \ {at[t]} : queue'[x] = queue[x]
        /\ UNCHANGED <<pending, received, dropped>>
    BY <1>1, <1>5, LockBatchEffect
  <2>2. ASSUME NEW a, a = at[t]
        PROVE  Kept(Places(i), Places(i)')
    <3>1. Kept(Own(i, t, a), Own(i, t, a)')
      BY <1>4, <1>5, <2>2, LockBatchMoves
    <3>2. \A x \in Batch \ {a} : queue'[x] = queue[x]
      BY <2>1, <2>2
    <3>3. QED
      BY <2>1, <3>1, <3>2, OwnKept
  <2>3. QED
    BY <2>2
<1>6. CASE FlushFirstBatch(t)
  <2>1. /\ \A u \in Thread \ {t} : Same(u)
        /\ \A a \in Batch \ {Head(inflight)} : queue'[a] = queue[a]
        /\ UNCHANGED <<pending, received, dropped>>
    BY <1>1, <1>6, FlushFirstBatchEffect
  <2>2. ASSUME NEW a, a = Head(inflight)
        PROVE  Kept(Places(i), Places(i)')
    <3>1. Kept(Own(i, t, a), Own(i, t, a)')
      BY <1>4, <1>6, <2>2, FlushMoves
    <3>2. QED
      BY <2>1, <2>2, <3>1, OwnKept
  <2>3. QED
    BY <2>2
<1>7. CASE CallNotify(t) \/ EndResultCall(t) \/ TimeoutResultCall(t)
  <2>1. /\ pc[t] = "calling" /\ todo[t] # <<>> /\ todo'[t] = Tail(todo[t]) /\ todo[t] \in Seq(Call)
        /\ \A u \in Thread \ {t} : Same(u)
        /\ UNCHANGED <<pending, queue, pc, ev>>
        /\ \/ received' = received \cup Head(todo[t]).items /\ UNCHANGED dropped
           \/ dropped' = dropped \cup Head(todo[t]).items /\ UNCHANGED received
    BY <1>1, <1>7, CallEffect DEF IInv, TypeOK
  <2>2. PICK place : Out(i)' = Out(i) \cup SentUp(place, Head(todo[t]).items, i)
    <3>1. \A place, S, T : SentUp(place, S \cup T, i) = SentUp(place, S, i) \cup SentUp(place, T, i)
      BY DEF SentUp
    <3>2. CASE received' = received \cup Head(todo[t]).items /\ UNCHANGED dropped
      <4>1. Out(i)' = Out(i) \cup SentUp("received", Head(todo[t]).items, i)
        BY <3>1, <3>2 DEF Out
      <4>2. QED
        BY <4>1
    <3>3. CASE dropped' = dropped \cup Head(todo[t]).items /\ UNCHANGED received
      <4>1. Out(i)' = Out(i) \cup SentUp("dropped", Head(todo[t]).items, i)
        BY <3>1, <3>3 DEF Out
      <4>2. QED
        BY <4>1
    <3>4. QED
      BY <2>1, <3>2, <3>3
  <2> DEFINE b == NotBatched
             R == AtHal(i) \cup Elsewhere(i, t, b) \cup Out(i)
             N == SentUp(place, Head(todo[t]).items, i)
  <2>3. Splits /\ Splits'
    BY PlacesSplit, PTL
  <2>4. Places(i) = R \cup Own(i, t, b) /\ R \cap Own(i, t, b) = {}
    BY <2>3, PlacesApart DEF Splits
  <2>5. Places(i)' = AtHal(i)' \cup Own(i, t, b)' \cup Elsewhere(i, t, b)' \cup Out(i)'
    BY <2>3 DEF Splits
  <2>6. AtHal(i)' = AtHal(i) /\ Elsewhere(i, t, b)' = Elsewhere(i, t, b)
    BY <2>1, ElsewhereKept DEF AtHal
  <2>7. Places(i)' = R \cup (Own(i, t, b)' \cup N)
    BY <2>2, <2>5, <2>6
  <2>8. Kept(Own(i, t, b), Own(i, t, b)' \cup N)
    <3>1. Entering({t}, i) = {} /\ Entering({t}, i)' = {}
      BY <2>1 DEF Entering
    <3>2. /\ Own(i, t, NotBatched) = Entering({t}, i) \cup CalledIn(todo[t], t, i)
          /\ Own(i, t, NotBatched)' = Entering({t}, i)' \cup CalledIn(todo'[t], t, i)
      BY OwnOutside
    <3>3. Own(i, t, b) = CalledIn(todo[t], t, i)
      BY <3>1, <3>2
    <3>4. Own(i, t, b)' = CalledIn(Tail(todo[t]), t, i)
      BY <2>1, <3>1, <3>2
    <3>5. Kept(CalledIn(todo[t], t, i), CalledIn(Tail(todo[t]), t, i) \cup N)
      BY <2>1, CallMoves
    <3>6. QED
      BY <3>3, <3>4, <3>5
  <2> HIDE DEF R, N, b
  <2>9. Kept(R \cup Own(i, t, b), R \cup (Own(i, t, b)' \cup N))
    BY <2>4, <2>8, KeptPart
  <2>10. QED
    BY <2>4, <2>7, <2>9
<1>8. CASE Release(t) \/ RemoveFirstBatch(t)
  <2>1. /\ pc[t] # "queue" /\ pc'[t] # "queue" /\ todo' = todo
        /\ \A u \in Thread \ {t} : Same(u)
        /\ UNCHANGED <<pending, queue, received, dropped>>
    BY <1>1, <1>8, ReleaseEffect, RemoveFirstBatchEffect DEF Returned
  <2>2. Own(i, t, NotBatched)' = Own(i, t, NotBatched)
    BY <2>1, OwnOutside DEF Entering
  <2>3. Kept(Own(i, t, NotBatched), Own(i, t, NotBatched)')
    BY <2>2 DEF Kept
  <2>4. QED
    BY <2>1, <2>3, OwnKept
<1>9. CASE \/ LockForError(t) \/ SendError(t) \/ BeginResultCall(t) \/ LockForCheck(t)
           \/ FlushNothing(t)
  <2>1. /\ \A u \in Thread \ {t} : Same(u)
        /\ UNCHANGED <<pending, queue, ev, received, dropped>>
        /\ \/ pc[t] # "queue" /\ pc'[t] # "queue" /\ todo'[t] = todo[t]
           \/ pc[t] = "flush" /\ pc'[t] = "calling" /\ todo'[t] = SingleCall(ev[t])
           \/ UNCHANGED <<pc, todo>>
    BY <1>1, <1>9, SmallStepEffect
  <2>2. Own(i, t, NotBatched)' = Own(i, t, NotBatched)
    <3>1. CASE pc[t] = "flush" /\ pc'[t] = "calling" /\ todo'[t] = SingleCall(ev[t])
      <4>1. ev[t].items = {<<Error, ev[t].frame>>} /\ todo[t] = <<>> /\ ev[t].items \in SUBSET Item
        BY <1>1, <3>1 DEF Phase, IInv, TypeOK, Event
      <4>2. i \notin ev[t].items
        BY <1>4, <4>1
      <4>3. CalledIn(todo'[t], t, i) = {}
        BY <1>4, <3>1, <4>1, <4>2, SingleCallCarries, CalledPlain
      <4>4. CalledIn(todo[t], t, i) = {}
        BY <4>1 DEF CalledIn
      <4>5. Entering({t}, i) = {} /\ Entering({t}, i)' = {}
        BY <3>1 DEF Entering
      <4>6. QED
        BY <4>3, <4>4, <4>5, OwnOutside
    <3>2. CASE pc[t] # "queue" /\ pc'[t] # "queue" /\ todo'[t] = todo[t]
      <4>1. Entering({t}, i) = {} /\ Entering({t}, i)' = {}
        BY <3>2 DEF Entering
      <4>2. QED
        BY <3>2, <4>1, OwnOutside
    <3>3. CASE UNCHANGED <<pc, todo>>
      BY ZenonT(60), <2>1, <3>3, OwnOutside DEF Entering
    <3>4. QED
      BY <2>1, <3>1, <3>2, <3>3
  <2>3. Kept(Own(i, t, NotBatched), Own(i, t, NotBatched)')
    BY <2>2 DEF Kept
  <2>4. QED
    BY <2>1, <2>3, OwnKept
<1>10. QED
  BY <1>5, <1>6, <1>7, <1>8, <1>9 DEF Step

(* The books are balanced in the beginning,                                 *)
LEMMA InitLedger == Init => Ledger
<1> SUFFICES ASSUME Init PROVE Ledger
  OBVIOUS
<1>1. ASSUME NEW i
      PROVE  Places(i) = {}
  <2>1. Entering(Thread, i) = {} /\ HeldBy(Batch, i) = {} /\ CalledBy(Thread, i) = {}
    <3>1. Entering(Thread, i) = {}
      BY DEF Init, Entering
    <3>2. HeldBy(Batch, i) = {}
      <4>1. ASSUME NEW b \in Batch, i[1] \in BatchedClass
            PROVE  HeldIn(queue[b], b, i) = {}
        BY <4>1 DEF Init, HeldIn
      <4>2. QED
        BY <4>1 DEF HeldBy
    <3>3. CalledBy(Thread, i) = {}
      BY DEF Init, CalledBy, CalledIn
    <3>4. QED
      BY <3>1, <3>2, <3>3
  <2>2. QED
    BY <2>1 DEF Init, Places, SentUp
<1>2. QED
  BY <1>1 DEF Init, Ledger, AccountedFor

(* and after every step.                                                    *)
LEMMA NextLedger == Ordered /\ Ledger /\ [Next]_vars => Ledger'
<1> SUFFICES ASSUME Ordered, Ledger, [Next]_vars PROVE Ledger'
  OBVIOUS
<1>1. CASE Submit \/ SubmitFails \/ RegisterBatch
  BY <1>1, SubmitLedger, NextBurstLedger
<1>2. ASSUME NEW t \in Thread, HalCall(t)
      PROVE  Ledger'
  BY <1>2, HalCallReports, ReportLedger
<1>3. ASSUME NEW t \in Thread, Step(t) \/ FlushNothing(t)
      PROVE  Ledger'
  BY <1>3, StepLedger
<1>4. CASE UNCHANGED vars
  <2>1. \A i : Places(i)' = Places(i)
    BY <1>4 DEF vars, halVars, batchVars, lockVars, threadVars, outVars, Places, Entering, HeldBy, CalledBy
  <2>2. QED
    BY <1>4, <2>1 DEF Ledger, AccountedFor, vars, halVars
<1>5. QED
  BY <1>1, <1>2, <1>3, <1>4 DEF Next, Work

(* No item is lost or duplicated.                                           *)
THEOREM EveryItemIsAccountedFor == Spec => []AccountedOnce
<1>1. Ledger => AccountedOnce
  <2>1. SUFFICES ASSUME Ledger, NEW i \in Class \X Frame
                 PROVE  Cardinality(Places(i)) = IF i \in owed THEN 1 ELSE 0
    BY DEF AccountedOnce
  <2>2. CASE i \in owed
    <3>1. PICK x : Places(i) = {x}
      BY <2>1, <2>2 DEF Ledger, AccountedFor, Single
    <3>2. QED
      BY <2>2, <3>1, FS_Singleton
  <2>3. CASE i \notin owed
    BY <2>1, <2>3, FS_EmptySet DEF Ledger, AccountedFor
  <2>4. QED
    BY <2>2, <2>3
<1>2. QED
  BY <1>1, InitOrdered, StepOrdered, InitLedger, NextLedger, PTL DEF Spec

-----------------------------------------------------------------------------
(***************************************************************************)
(* A batch is registered after its requests went to the HAL, which may     *)
(* report on them before that (early).  Whatever it does, in every batch   *)
(* that it did not report on too early the buffers go up under their       *)
(* frames, an error comes after all that was held back, and in the end     *)
(* nothing is left behind.                                                 *)
(***************************************************************************)

(* The steps of the system, as what follows tells them apart.  In a quiet   *)
(* step the HAL reports nothing and no batch changes: a thread makes a      *)
(* call, goes on to the next lock, leaves, or begins to send the error.     *)
Calls(t) ==
  /\ pc[t] = "calling" /\ pc'[t] = "calling" /\ todo[t] # <<>> /\ todo'[t] = Tail(todo[t])
  /\ ev'[t] = ev[t] /\ at'[t] = at[t] /\ left'[t] = left[t]
(* Its calls made, a thread goes on to its next lock.                       *)
Proceeds(t) ==
  /\ ev'[t] = ev[t] /\ at'[t] = at[t] /\ left'[t] = left[t] /\ todo[t] = <<>> /\ todo'[t] = <<>>
  /\ \/ ev[t].kind = "error" /\ pc[t] \in {"error", "calling"} /\ pc'[t] = "flush"
     \/ ev[t].kind # "error" /\ pc[t] \in {"calling", "check"} /\ pc'[t] \in {"check", "remove"}
(* Its calls made, a thread is done and returns to the HAL.                 *)
Leaves(t) ==
  /\ pc[t] = "calling" /\ todo[t] = <<>> /\ todo'[t] = <<>> /\ Returned(t)
  /\ at[t] = NotBatched \/ (at[t] \in Batch /\ ev[t].kind # "error" /\ ~ChecksFirstBatch(t))
(* The loop of an error is over: the error itself is sent.                  *)
SendsError(t) ==
  /\ pc[t] = "flush" /\ left[t] = 0 /\ pc'[t] = "calling" /\ todo'[t] = SingleCall(ev[t])
  /\ ev'[t] = ev[t] /\ at'[t] = NotBatched /\ left'[t] = left[t] /\ ev[t].kind = "error"
(* What a thread does in a quiet step.                                      *)
Quietly(t) == Same(t) \/ Calls(t) \/ Proceeds(t) \/ Leaves(t) \/ SendsError(t)
(* A quiet step.  What the framework receives in it, a thread sent.         *)
Quiet ==
  /\ UNCHANGED <<burst, nextFrame, pending, owed, errors, inflight, queue, delivered, removed>>
  /\ \A t \in Thread : Quietly(t)
  /\ received \subseteq received'
  /\ \A d \in received' \ received : \E t \in Thread : Calls(t) /\ d \in Head(todo[t]).items

(* These are the steps.                                                     *)
LEMMA StepKinds ==
  ASSUME Ordered, [Next]_vars
  PROVE  \/ Submit \/ SubmitFails \/ RegisterBatch
         \/ \E t \in Thread : \E e \in Event : Reports(t, e)
         \/ \E t \in Thread : LockBatch(t) \/ FlushFirstBatch(t) \/ RemoveFirstBatch(t)
         \/ Quiet
<1>1. IInv /\ Deque /\ \A t \in Thread : Phase(t)
  BY DEF Ordered
<1>2. ASSUME NEW t \in Thread, CallNotify(t) \/ EndResultCall(t) \/ TimeoutResultCall(t)
      PROVE  Quiet
  <2>1. /\ pc[t] = "calling" /\ todo[t] # <<>>
        /\ todo'[t] = Tail(todo[t]) /\ \A u \in Thread \ {t} : Same(u)
        /\ UNCHANGED <<burst, nextFrame, pending, owed, errors, inflight, queue, delivered, removed,
                       pc, ev, at, left>>
        /\ \/ received' = received \cup Head(todo[t]).items
           \/ received' = received
    BY <1>1, <1>2, CallEffect
  <2>2. Calls(t)
    BY <2>1 DEF Calls
  <2>3. QED
    BY <2>1, <2>2 DEF Quiet, Quietly
<1>3. ASSUME NEW t \in Thread, Release(t)
      PROVE  Quiet
  <2>1. /\ pc[t] = "calling" /\ todo[t] = <<>> /\ todo' = todo
        /\ \A u \in Thread \ {t} : Same(u)
        /\ UNCHANGED <<burst, nextFrame, pending, owed, errors, inflight, queue, delivered, removed,
                       received>>
        /\ \/ at[t] = NotBatched /\ Returned(t)
           \/ /\ at[t] \in Batch
              /\ \/ /\ ev[t].kind = "error" /\ pc'[t] = "flush"
                    /\ ev'[t] = ev[t] /\ at'[t] = at[t] /\ left'[t] = left[t]
                 \/ /\ ev[t].kind # "error" /\ pc'[t] = "check"
                    /\ ev'[t] = ev[t] /\ at'[t] = at[t] /\ left'[t] = left[t]
                 \/ ev[t].kind # "error" /\ ~ChecksFirstBatch(t) /\ Returned(t)
    BY <1>1, <1>3, ReleaseEffect
  <2>2. Proceeds(t) \/ Leaves(t)
    BY <2>1 DEF Proceeds, Leaves
  <2>3. QED
    BY <2>1, <2>2 DEF Quiet, Quietly
<1>4. ASSUME NEW t \in Thread,
             LockForError(t) \/ SendError(t) \/ BeginResultCall(t) \/ LockForCheck(t) \/ FlushNothing(t)
      PROVE  Quiet
  <2>1. /\ \A u \in Thread \ {t} : Same(u)
        /\ UNCHANGED <<burst, nextFrame, pending, owed, errors, inflight, queue, delivered, removed,
                       ev, left, received>>
        /\ \/ /\ pc[t] = "error" /\ pc'[t] = "flush" /\ at'[t] = at[t] /\ todo'[t] = todo[t]
           \/ /\ pc[t] = "flush" /\ left[t] = 0
              /\ pc'[t] = "calling" /\ at'[t] = NotBatched /\ todo'[t] = SingleCall(ev[t])
           \/ /\ pc[t] = "check" /\ pc'[t] = "remove" /\ at'[t] = at[t] /\ todo'[t] = todo[t]
           \/ UNCHANGED <<pc, at, todo>>
    BY <1>1, <1>4, SmallStepEffect
  <2>2. Quietly(t)
    <3>1. Phase(t)
      BY <1>1
    <3>2. QED
      BY <2>1, <3>1 DEF Quietly, Proceeds, SendsError, Same, Phase
  <2>3. QED
    BY <2>1, <2>2 DEF Quiet, Quietly
<1>5. CASE UNCHANGED vars
  BY <1>5 DEF vars, halVars, batchVars, lockVars, threadVars, outVars, Quiet, Quietly, Same
<1>6. QED
  BY <1>2, <1>3, <1>4, <1>5, HalCallReports DEF Next, Work, Step

(* Whatever quiet threads do, nothing new comes from the HAL.               *)
LEMMA QuietEvents ==
  ASSUME Quiet
  PROVE  \A t \in Thread :
           /\ ev'[t] = ev[t] \/ ev'[t] = NoEvent
           /\ pc[t] = "queue" => pc'[t] = "queue" /\ ev'[t] = ev[t]
           /\ pc'[t] = "queue" => pc[t] = "queue" /\ ev'[t] = ev[t]
BY DEF Quiet, Quietly, Same, Calls, Proceeds, Leaves, Returned, SendsError
-----------------------------------------------------------------------------
(* Nothing but a report on the burst that is being submitted makes a batch  *)
(* an early one.                                                            *)
LEMMA EarlyGrows ==
  ASSUME [Next]_vars
  PROVE  early \subseteq early' /\ \A b \in early' : b \in early \/ b \in {burst} \cap Batch
<1>1. ASSUME NEW t \in Thread, HalCall(t)
      PROVE  early' = early \/ \E f : early' = early \cup {b \in {burst} \cap Batch : IsBatched(b) /\ f \in Frames(b)}
  <2>1. PICK f \in Frame : NotifyShutter(t, f) \/ NotifyError(t, f) \/ ProcessCaptureResult(t, f)
    BY <1>1 DEF HalCall
  <2>2. PICK e : Enter(t, e)
    BY <2>1 DEF NotifyShutter, NotifyError, ProcessCaptureResult
  <2>3. QED
    BY <2>2 DEF Enter
<1>2. ASSUME NEW t \in Thread, Step(t) \/ FlushNothing(t)
      PROVE  early' = early
  BY <1>2 DEF Step, LockBatch, LockForError, FlushFirstBatch, SendError, CallNotify, BeginResultCall,
              EndResultCall, TimeoutResultCall, Release, LockForCheck, RemoveFirstBatch, FlushNothing, halVars
<1>3. Submit \/ SubmitFails \/ RegisterBatch \/ UNCHANGED vars => early' = early
  BY DEF Submit, SubmitFails, RegisterBatch, halVars, vars
<1>4. QED
  BY <1>1, <1>2, <1>3 DEF Next, Work

(* As long as the HAL did not report on the burst being submitted, all of   *)
(* it is still with the HAL.                                                *)
Waits ==
  /\ 0 < nextFrame /\ \A t \in Thread : ev[t].frame < nextFrame
  /\ burst \in Batch => nextFrame <= Burst[burst].last + 1
  /\ \A b \in early : b <= burst
  /\ burst \in Batch \ early /\ IsBatched(burst) =>
       /\ \A t \in Thread : ev[t].frame < Burst[burst].first
       /\ \A c \in Class, f \in Frames(burst) : f < nextFrame => <<c, f>> \in pending

(* In the beginning nothing was submitted.                                  *)
LEMMA InitWaits == Init => Waits
<1>1. \A b \in Batch : Burst[b].first \in Nat \ {0}
  BY Bursts
<1>2. ASSUME Init
      PROVE  Waits
  <2>1. ASSUME burst \in Batch, NEW f \in Frames(burst)
        PROVE  ~(f < nextFrame)
    BY <1>1, <1>2, <2>1, Bursts DEF Init, Frames
  <2>2. ASSUME burst \in Batch, NEW t \in Thread
        PROVE  ev[t].frame < Burst[burst].first
    BY <1>1, <1>2, <2>2, NoEventType DEF Init
  <2>3. 0 < nextFrame /\ early = {}
    <3>1. CASE Batch = {}
      BY <1>2, <3>1 DEF Init
    <3>2. CASE Batch # {}
      <4>1. 1 \in Batch
        BY <3>2, ConstantsAssumption DEF Batch
      <4>2. QED
        BY <1>1, <1>2, <3>2, <4>1 DEF Init
    <3>3. QED
      BY <3>1, <3>2
  <2>4. \A t \in Thread : ev[t].frame = 0
    BY <1>2, NoEventType DEF Init
  <2>5. burst \in Batch => nextFrame <= Burst[burst].last + 1
    BY <1>1, <1>2, Bursts DEF Init
  <2>6. QED
    BY <2>1, <2>2, <2>3, <2>4, <2>5 DEF Waits
<1>3. QED
  BY <1>2

(* A report on the burst being submitted makes it an early one.             *)
LEMMA StepWaits ==
  ASSUME Ordered, Waits, [Next]_vars
  PROVE  Waits'
<1>1. IInv /\ (\A t \in Thread : Phase(t)) /\ TypeOK
  BY DEF Ordered, IInv
<1>2. /\ \A b \in Batch : Frames(b) \subseteq Nat /\ Burst[b].first \in Nat \ {0} /\ 0 < Burst[b].first
      /\ nextFrame \in Nat /\ burst \in Nat /\ Batch \subseteq Nat
      /\ \A t \in Thread : ev[t].frame \in Nat
  BY <1>1, Bursts DEF Frames, TypeOK, Event
<1>3. CASE Submit
  <2>1. /\ UNCHANGED <<burst, ev, early>> /\ nextFrame' = nextFrame + 1 /\ nextFrame \in Nat
        /\ pending' = pending \cup (Class \X {nextFrame})
    BY <1>1, <1>3 DEF Submit, TypeOK, threadVars
  <2>2. ASSUME burst \in Batch \ early, IsBatched(burst),
               NEW c \in Class, NEW f \in Frames(burst), f < nextFrame + 1
        PROVE  <<c, f>> \in pending'
    <3>1. f < nextFrame \/ f = nextFrame
      BY <1>2, <2>1, <2>2
    <3>2. QED
      BY <2>1, <2>2, <3>1 DEF Waits
  <2>3. 0 < nextFrame' /\ \A t \in Thread : ev[t].frame < nextFrame'
    BY <1>2, <2>1 DEF Waits
  <2>4. burst \in Batch /\ nextFrame + 1 <= Burst[burst].last + 1
    BY <1>2, <1>3, Bursts DEF Submit
  <2>5. QED
    BY <2>1, <2>2, <2>3, <2>4 DEF Waits
<1>4. CASE SubmitFails \/ RegisterBatch
  <2>1. /\ burst \in Batch /\ burst' = burst + 1 /\ UNCHANGED <<ev, early>>
        /\ nextFrame' \in Nat /\ nextFrame <= nextFrame'
        /\ burst' \in Batch => nextFrame' = Burst[burst'].first
    BY <1>1, <1>4, NextBurstEffect DEF SubmitFails, RegisterBatch, threadVars, halVars
  <2>2. 0 < nextFrame' /\ \A t \in Thread : ev[t].frame < nextFrame'
    BY <1>2, <2>1 DEF Waits
  <2>3. \A b \in early : b <= burst'
    <3>1. \A b \in early : b \in Nat /\ b <= burst
      BY <1>1, <1>2 DEF TypeOK, Waits
    <3>2. QED
      BY <1>2, <2>1, <3>1
  <2>4. ASSUME burst' \in Batch
        PROVE  \A f \in Frames(burst') : ~(f < nextFrame')
    BY <2>1, <2>4, Bursts DEF Frames
  <2>5. burst' \in Batch => nextFrame' <= Burst[burst'].last + 1
    BY <2>1, Bursts
  <2>6. QED
    BY <2>1, <2>2, <2>3, <2>4, <2>5 DEF Waits
<1>5. ASSUME NEW t \in Thread, NEW e \in Event, Reports(t, e)
      PROVE  Waits'
  <2>1. /\ ev'[t] = e /\ \A u \in Thread \ {t} : ev'[u] = ev[u]
        /\ UNCHANGED <<burst, nextFrame>>
    BY <1>1, <1>5, ReportsEffect DEF Same
  <2>2. e.frame \in Nat
    BY DEF Event
  <2>3. e.frame < nextFrame
    <3>1. PICK i \in pending : i[2] = e.frame
      BY <1>5 DEF Reports, Piecemeal, MayReport
    <3>2. QED
      BY <1>1, <3>1 DEF IInv, SubmittedOnly
  <2>4. burst \in Batch /\ IsBatched(burst) /\ e.frame \in Frames(burst) => burst \in early'
    BY <1>5 DEF Reports, Enter
  <2>5. burst \in Batch /\ IsBatched(burst) /\ burst \notin early' => e.frame < Burst[burst].first
    <3>1. SUFFICES ASSUME burst \in Batch, e.frame \notin Frames(burst)
                   PROVE  e.frame < Burst[burst].first
      BY <2>4
    <3>2. /\ Burst[burst].first \in Nat /\ Burst[burst].last \in Nat
          /\ nextFrame <= Burst[burst].last + 1
      BY <1>2, <3>1, Bursts DEF Waits
    <3>3. QED
      BY <1>2, <2>2, <2>3, <3>1, <3>2 DEF Frames
  <2>6. \A i \in pending : i \notin pending' => i[2] = e.frame
    <3>1. CASE e.kind # "error"
      BY <1>5, <3>1 DEF Reports, Piecemeal
    <3>2. CASE e.kind = "error"
      BY <1>5, <3>2 DEF Reports
    <3>3. QED
      BY <3>1, <3>2
  <2>7. ASSUME burst \in Batch \ early', IsBatched(burst),
               NEW c \in Class, NEW f \in Frames(burst), f < nextFrame
        PROVE  <<c, f>> \in pending'
    <3>1. burst \in Batch \ early
      BY <2>7, EarlyGrows
    <3>2. <<c, f>> \in pending /\ <<c, f>>[2] = f
      BY <2>7, <3>1 DEF Waits
    <3>3. f # e.frame
      BY <2>2, <2>5, <2>7, Bursts DEF Frames
    <3>4. QED
      BY <2>6, <3>2, <3>3
  <2>8. burst \in Batch \ early' => burst \in Batch \ early
    BY EarlyGrows
  <2>9. \A b \in early' : b <= burst
    BY <1>2, EarlyGrows DEF Waits
  <2>10. QED
    BY <2>1, <2>3, <2>5, <2>7, <2>8, <2>9 DEF Waits
<1>6. ASSUME UNCHANGED <<burst, nextFrame, pending>>, \A t \in Thread : ev'[t] = ev[t] \/ ev'[t] = NoEvent
      PROVE  Waits'
  <2>1. burst \in Batch \ early' => burst \in Batch \ early
    BY EarlyGrows
  <2>2. \A b \in early' : b <= burst
    BY <1>2, EarlyGrows DEF Waits
  <2>3. \A t \in Thread : ev'[t].frame = ev[t].frame \/ ev'[t].frame = 0
    BY <1>6, NoEventType
  <2>4. 0 < nextFrame' /\ \A t \in Thread : ev'[t].frame < nextFrame'
    BY <1>6, <2>3 DEF Waits
  <2>5. burst \in Batch \ early /\ IsBatched(burst) => \A t \in Thread : ev'[t].frame < Burst[burst].first
    BY <1>2, <2>3 DEF Waits
  <2>6. QED
    BY <1>6, <2>1, <2>2, <2>4, <2>5 DEF Waits
<1>7. ASSUME NEW t \in Thread, LockBatch(t) \/ FlushFirstBatch(t) \/ RemoveFirstBatch(t)
      PROVE  Waits'
  BY <1>1, <1>6, <1>7, LockBatchEffect, FlushFirstBatchEffect, RemoveFirstBatchEffect DEF Same, Returned
<1>8. CASE Quiet
  BY <1>6, <1>8, QuietEvents DEF Quiet
<1>9. QED
  BY <1>3, <1>4, <1>5, <1>7, <1>8, StepKinds

-----------------------------------------------------------------------------
(* The items a batch is still to get: with the HAL, or entering.            *)
Coming(i) == i \in pending \/ \E t \in Thread : pc[t] = "queue" /\ i \in ev[t].items

(* They stay so while nobody reports or queues,                             *)
LEMMA ComingKept ==
  ASSUME UNCHANGED pending,
         \A t \in Thread : pc[t] = "queue" => pc'[t] = "queue" /\ ev'[t] = ev[t],
         \A t \in Thread : pc'[t] = "queue" => pc[t] = "queue" /\ ev'[t] = ev[t]
  PROVE  \A i : Coming(i)' <=> Coming(i)
BY DEF Coming

(* when they are reported, unless the HAL gives them up,                    *)
LEMMA ComingReported ==
  ASSUME Ordered, NEW t \in Thread, NEW e \in Event, Reports(t, e),
         NEW b \in Elems(inflight), NEW f \in Frames(b), NEW c \in Class
  PROVE  \/ Coming(<<c, f>>)' <=> Coming(<<c, f>>)
         \/ e.kind = "error" /\ f = e.frame /\ c \in BatchedClass \ BatchedBuffers
<1> DEFINE i == <<c, f>>
<1>1. /\ pc[t] = "idle" /\ ev'[t] = e /\ \A u \in Thread \ {t} : Same(u)
      /\ pending' \subseteq pending
      /\ \/ \A k \in DOMAIN inflight : e.frame \notin Frames(inflight[k])
         \/ pc'[t] = IF e.kind = "error" THEN "error" ELSE "queue"
      /\ pc'[t] = "queue" => e.kind # "error"
  BY ReportsEffect DEF Ordered, IInv
<1>2. CASE e.kind = "error"
  <2>1. PICK classes \in SUBSET (BatchedClass \ BatchedBuffers) :
             pending' = pending \ (pending \cap (classes \X {e.frame}))
    BY <1>2 DEF Reports
  <2>2. CASE i \in classes \X {e.frame}
    BY <1>2, <2>2
  <2>3. CASE i \notin classes \X {e.frame}
    <3>1. i \in pending' <=> i \in pending
      BY <2>1, <2>3
    <3>2. QED
      BY <1>1, <1>2, <3>1 DEF Coming, Same
  <2>4. QED
    BY <2>2, <2>3
<1>3. CASE e.kind # "error"
  <2>1. /\ pending' = pending \ e.items /\ \A j \in e.items : j \in pending /\ j[2] = e.frame
    BY <1>3 DEF Reports, MayReport, Piecemeal
  <2>2. CASE i \in e.items
    <3>1. f = e.frame
      BY <2>1, <2>2
    <3>2. pc'[t] = "queue"
      BY <1>1, <1>3, <3>1 DEF Elems
    <3>3. QED
      BY <1>1, <2>1, <2>2, <3>2 DEF Coming
  <2>3. CASE i \notin e.items
    <3>1. i \in pending' <=> i \in pending
      BY <2>1, <2>3
    <3>2. QED
      BY <1>1, <2>3, <3>1 DEF Coming, Same
  <2>4. QED
    BY <2>2, <2>3
<1>4. QED
  BY <1>2, <1>3

(* and until they are queued.                                               *)
LEMMA ComingQueued ==
  ASSUME Ordered, NEW t \in Thread, LockBatch(t), NEW i \in Class \X Nat
  PROVE  /\ Coming(i)' <=> Coming(i) /\ i \notin ev[t].items
         /\ i \in ev[t].items => Coming(i)
<1>1. /\ pc[t] = "queue" /\ pc'[t] = "calling" /\ \A u \in Thread \ {t} : Same(u)
      /\ UNCHANGED <<pending, ev>>
  BY LockBatchEffect DEF Ordered
<1>2. i \in ev[t].items => i \notin pending /\ \A u \in Thread : i \in ev[u].items => u = t
  BY DEF Ordered, IInv, ReportedInOrder
<1>3. QED
  BY <1>1, <1>2 DEF Coming, Same

(* A new frame comes after those of the batches registered.                 *)
LEMMA ComingSubmitted ==
  ASSUME Ordered, Submit, NEW b \in Elems(inflight), NEW f \in Frames(b), NEW c \in Class
  PROVE  Coming(<<c, f>>)' <=> Coming(<<c, f>>)
<1>1. /\ burst \in Batch /\ nextFrame \in Nat /\ nextFrame >= Burst[burst].first
      /\ pending' = pending \cup (Class \X {nextFrame}) /\ UNCHANGED <<pc, ev>>
  BY DEF Submit, Ordered, IInv, SubmittedOnly, TypeOK, threadVars
<1>2. b \in Batch /\ b < burst
  BY DEF Ordered, IInv, SubmittedOnly, TypeOK, Elems
<1>3. f # nextFrame
  BY <1>1, <1>2, Bursts DEF Frames
<1>4. QED
  BY <1>1, <1>3 DEF Coming

(* Nothing is in a batch that is registered, and what it gets is all still  *)
(* to come, unless the HAL reported on it early.                            *)
LEMMA RegisteredIsNew ==
  ASSUME Ordered, Waits, SubmitFails \/ RegisterBatch
  PROVE  /\ UNCHANGED <<pending, owed, errors, early, queue, delivered, removed, pc, ev, at, left, todo, received>>
         /\ inflight \in Seq(Batch) /\ burst \in Batch /\ burst \notin Elems(inflight)
         /\ \/ inflight' = inflight
            \/ /\ inflight' = Append(inflight, burst)
               /\ Elems(inflight') = Elems(inflight) \cup {burst}
               /\ burst \notin early =>
                    /\ \A t \in Thread : ev[t].frame < Burst[burst].first
                    /\ \A c \in Class, f \in Frames(burst) : <<c, f>> \in pending /\ <<c, f>> \in pending'
         /\ \A c \in BatchedClass : queue[burst][c] = <<>>
         /\ delivered[burst] = {}
<1>1. /\ UNCHANGED <<pending, owed, errors, early, queue, delivered, removed, pc, ev, at, left, todo, received>>
      /\ burst \in Batch
      /\ \/ inflight' = inflight
         \/ /\ inflight' = Append(inflight, burst) /\ nextFrame = Burst[burst].last + 1
            /\ IsBatched(burst)
  BY DEF SubmitFails, RegisterBatch, halVars, batchVars, threadVars, outVars
<1>2. /\ inflight \in Seq(Batch) /\ burst \in Nat /\ Deque
      /\ \A k \in DOMAIN inflight : inflight[k] < burst
      /\ \A b \in Batch : delivered[b] # {} => b < burst
  BY <1>1 DEF Ordered, IInv, SubmittedOnly, TypeOK
<1>3. burst \notin Elems(inflight)
  BY <1>2 DEF Elems
<1>4. \A c \in BatchedClass : queue[burst][c] = <<>>
  BY <1>1, <1>2, <1>3 DEF Deque
<1>5. ASSUME inflight' = Append(inflight, burst), nextFrame = Burst[burst].last + 1, IsBatched(burst)
      PROVE  /\ Elems(inflight') = Elems(inflight) \cup {burst}
             /\ burst \notin early =>
                  /\ \A t \in Thread : ev[t].frame < Burst[burst].first
                  /\ \A c \in Class, f \in Frames(burst) : <<c, f>> \in pending
  <2>1. Elems(inflight') = Elems(inflight) \cup {burst}
    BY <1>1, <1>2, <1>5, DequeAppend
  <2>2. \A f \in Frames(burst) : f < nextFrame
    BY <1>1, <1>5, Bursts DEF Frames
  <2>3. QED
    BY <1>1, <1>5, <2>1, <2>2 DEF Waits
<1>6. delivered[burst] = {}
  BY <1>1, <1>2
<1>7. QED
  BY <1>1, <1>2, <1>3, <1>4, <1>5, <1>6

-----------------------------------------------------------------------------
(* The buffers a batch holds are those of its first frames, without gaps,   *)
(* and those of the other frames are still to come.                         *)
HeldInOrder(b, c) == \A k \in DOMAIN queue[b][c] : queue[b][c][k] = Label(b, k)
(* The buffers from the first one missing on are those still to come.       *)
RestComes(b, c) ==
  c \notin delivered[b] =>
    \A f \in Frames(b) : Coming(<<c, f>>) <=> f >= Label(b, Len(queue[b][c]) + 1)
(* Both, of every batched stream and every batch that is not an early one.  *)
Numbered ==
  \A c \in BatchedBuffers :
    /\ \A b \in Batch \ early : HeldInOrder(b, c)
    /\ \A b \in Elems(inflight) \ early : RestComes(b, c)

(* A batch that is left alone stays in order.                               *)
LEMMA NumberedKept ==
  ASSUME Numbered, NEW b \in Batch \ early, NEW c \in BatchedBuffers,
         queue'[b] = queue[b], delivered'[b] = delivered[b]
  PROVE  /\ HeldInOrder(b, c)'
         /\ b \in Elems(inflight) /\ (\A f \in Frames(b) : Coming(<<c, f>>)' <=> Coming(<<c, f>>))
              => RestComes(b, c)'
BY DEF Numbered, HeldInOrder, RestComes

(* The next buffer of a stream is the first one missing.                    *)
LEMMA NextInOrder ==
  ASSUME Ordered, Numbered, NEW t \in Thread, LockBatch(t), NEW b, b = at[t], ~removed[b], b \notin early,
         NEW c \in BatchedBuffers, NEW f, f = ev[t].frame, <<c, f>> \in ev[t].items
  PROVE  /\ b \in Elems(inflight) /\ c \notin delivered[b]
         /\ f = Label(b, Len(queue[b][c]) + 1)
<1>1. /\ pc[t] = "queue" /\ b \in Batch /\ f \in Frames(b)
  BY LockBatchEffect DEF Ordered
<1>2. b \in Elems(inflight)
  BY <1>1 DEF Ordered, Deque
<1>3. c \notin delivered[b]
  BY <1>1 DEF Ordered, IInv, SentIsOver
<1>4. c \in Class /\ c \in BatchedClass /\ f \in Nat /\ <<c, f>> \in Class \X Nat
  BY <1>1, Classes, Bursts DEF Frames
<1>5. Coming(<<c, f>>)
  BY <1>4, ComingQueued
<1> DEFINE g == Label(b, Len(queue[b][c]) + 1)
<1>6. Len(queue[b][c]) \in Nat
  <2>1. queue \in [Batch -> [BatchedClass -> Seq(Nat)]]
    BY DEF Ordered, IInv, TypeOK
  <2>2. queue[b][c] \in Seq(Nat)
    BY <1>1, <1>4, <2>1
  <2>3. QED
    BY <2>2
<1>7. g \in Nat /\ g >= Burst[b].first
  <2>1. \A x, n \in Nat : x + (n + 1) - 1 \in Nat /\ x + (n + 1) - 1 >= x
    OBVIOUS
  <2>2. Burst[b].first \in Nat
    BY <1>1, Bursts
  <2>3. QED
    BY <1>6, <2>1, <2>2 DEF Label
<1>8. \A h \in Frames(b) : Coming(<<c, h>>) <=> h >= g
  BY <1>2, <1>3 DEF Numbered, RestComes
<1> HIDE DEF g
<1>9. f >= g
  BY <1>1, <1>5, <1>8
<1>10. ASSUME g # f
       PROVE  FALSE
  <2>1. g \in Frames(b) /\ g <= f
    BY <1>1, <1>4, <1>7, <1>9, Bursts DEF Frames
  <2>2. Coming(<<c, g>>)
    BY <1>7, <1>8, <2>1
  <2>3. <<c, g>> \in Before(c, f)
    <3>1. g \in Frame
      BY <1>1, <2>1 DEF Frame
    <3>2. c \in UpTo(c)
      BY <1>4, UpToClosed
    <3>3. QED
      BY <1>10, <2>1, <3>1, <3>2 DEF Before
  <2>4. <<c, g>> \notin pending /\ \A u \in Thread : <<c, g>> \notin ev[u].items
    <3>1. <<c, f>>[1] = c /\ <<c, f>>[2] = f
      OBVIOUS
    <3>2. QED
      BY <1>4, <2>3, <3>1 DEF Ordered, IInv, ReportedInOrder
  <2>5. QED
    BY <2>2, <2>4 DEF Coming
<1>11. QED
  BY <1>2, <1>3, <1>10 DEF g

(* With it, what is held is still in order.                                 *)
LEMMA PushedInOrder ==
  ASSUME Ordered, Numbered, NEW t \in Thread, LockBatch(t), NEW b, b = at[t], ~removed[b], b \notin early,
         NEW c \in BatchedBuffers
  PROVE  \A k \in DOMAIN Pushed(b, ev[t])[c] : Pushed(b, ev[t])[c][k] = Label(b, k)
<1> DEFINE q == queue[b][c]
           f == ev[t].frame
<1>1. b \in Batch /\ c \in BatchedClass
  BY LockBatchEffect, Classes DEF Ordered
<1>2. q \in Seq(Nat) /\ \A k \in DOMAIN q : q[k] = Label(b, k)
  <2>1. queue \in [Batch -> [BatchedClass -> Seq(Nat)]]
    BY DEF Ordered, IInv, TypeOK
  <2>2. QED
    BY <1>1, <2>1 DEF Numbered, HeldInOrder
<1>3. CASE <<c, f>> \in ev[t].items
  <2>1. f = Label(b, Len(q) + 1)
    BY <1>3, NextInOrder
  <2>2. f \in Nat
    BY DEF Ordered, IInv, TypeOK, Event
  <2>3. Pushed(b, ev[t])[c] = Append(q, f)
    BY <1>1, <1>3 DEF Pushed
  <2> HIDE DEF q, f
  <2>4. /\ DOMAIN Append(q, f) = DOMAIN q \cup {Len(q) + 1}
        /\ \A k \in DOMAIN q : Append(q, f)[k] = q[k]
        /\ Append(q, f)[Len(q) + 1] = f
    BY <1>2, <2>2, DequeAppend
  <2>5. QED
    BY <1>2, <2>1, <2>3, <2>4
<1>4. CASE <<c, f>> \notin ev[t].items
  BY <1>1, <1>2, <1>4 DEF Pushed
<1>5. QED
  BY <1>3, <1>4

(* What LockBatch makes of the batch, in one place.                         *)
LEMMA Queued ==
  ASSUME Ordered, NEW t \in Thread, LockBatch(t), NEW b, b = at[t], ~removed[b]
  PROVE  /\ b \in Batch /\ b \in Elems(inflight) /\ ev[t].frame \in Frames(b)
         /\ ev[t] \in Event /\ Piecemeal(ev[t])
         /\ delivered'[b] = delivered[b] \cup Ended(b, ev[t])
         /\ queue'[b] = [c \in BatchedClass |-> IF c \in Ended(b, ev[t]) THEN <<>> ELSE Pushed(b, ev[t])[c]]
         /\ Pushed(b, ev[t]) \in [BatchedClass -> Seq(Nat)]
         /\ todo'[t] \in Seq(Call) /\ Families(todo'[t])
         /\ Carries(todo'[t]) = Plain(Unbatched(ev[t])) \cup Content(Pushed(b, ev[t]), b, Ended(b, ev[t]))
<1>1. /\ pc[t] = "queue" /\ b \in Batch /\ ev[t].frame \in Frames(b)
      /\ todo'[t] = QueueItems(b, ev[t]).calls
      /\ queue'[b] = QueueItems(b, ev[t]).queue
      /\ delivered'[b] = QueueItems(b, ev[t]).delivered
  BY LockBatchEffect DEF Ordered
<1>2. b \in Elems(inflight)
  BY <1>1 DEF Ordered, Deque
<1>3. ev[t] \in Event /\ Piecemeal(ev[t])
  BY <1>1 DEF Ordered, IInv, TypeOK, Phase
<1>4. \A c \in delivered[b] : <<c, ev[t].frame>> \notin ev[t].items
  BY <1>1 DEF Ordered, IInv, SentIsOver
<1>5. Held(b) \in BatchState /\ Sound(Held(b))
  BY <1>1, HeldType DEF Ordered, IInv, SentIsNotHeld
<1>6. QueueItems(b, ev[t]).calls \in Seq(Call)
  BY <1>1, <1>3, <1>4, <1>5, QueueItemsSends DEF BatchState
<1>7. QED
  BY <1>1, <1>2, <1>3, <1>4, <1>5, <1>6, QueueItemsSends

(* The deque without its first batch.                                       *)
LEMMA HeadLeaves ==
  ASSUME Ordered, inflight # <<>>, inflight' = Tail(inflight), NEW b, b = Head(inflight)
  PROVE  /\ b \in Batch /\ 1 \in DOMAIN inflight /\ inflight[1] = b
         /\ \A k \in DOMAIN inflight' : k \in Nat /\ k + 1 \in DOMAIN inflight /\ inflight'[k] = inflight[k + 1]
         /\ Elems(inflight) = {b} \cup Elems(inflight')
         /\ \A a \in Elems(inflight') : a \in Batch /\ b < a
<1>1. inflight \in Seq(Batch) /\ Batch \subseteq Nat
  BY Bursts DEF Ordered, IInv, TypeOK
<1>2. /\ b \in Batch /\ 1 \in DOMAIN inflight /\ inflight[1] = b
      /\ \A k \in DOMAIN inflight' : k + 1 \in DOMAIN inflight /\ inflight'[k] = inflight[k + 1]
      /\ Elems(inflight) = {b} \cup Elems(inflight')
      /\ inflight' \in Seq(Batch)
  BY <1>1, DequeTail
<1>3. \A k \in DOMAIN inflight' : k \in Nat \ {0}
  BY <1>2
<1>4. ASSUME NEW k \in DOMAIN inflight'
      PROVE  inflight'[k] \in Batch /\ b < inflight'[k]
  <2>1. 1 < k + 1 /\ k + 1 \in DOMAIN inflight
    BY <1>2, <1>3
  <2>2. inflight[1] < inflight[k + 1]
    BY <1>2, <2>1 DEF Ordered, Deque
  <2>3. QED
    BY <1>2, <2>2
<1>5. QED
  BY <1>2, <1>3, <1>4 DEF Elems

(* A report on a frame of another batch than b is none of an item of b.     *)
LEMMA OtherFrames ==
  ASSUME Ordered, NEW t \in Thread, LockBatch(t), NEW b \in Elems(inflight), b # at[t] \/ removed[at[t]],
         NEW f \in Frames(b), NEW c \in Class
  PROVE  <<c, f>> \notin ev[t].items /\ (Coming(<<c, f>>)' <=> Coming(<<c, f>>))
<1>1. pc[t] = "queue" /\ at[t] \in Batch /\ ev[t].frame \in Frames(at[t]) /\ ev[t].items \subseteq Class \X {ev[t].frame}
  BY LockBatchEffect DEF Ordered, Phase
<1>2. b \in Batch /\ f \in Nat
  <2>1. inflight \in Seq(Batch)
    BY DEF Ordered, IInv, TypeOK
  <2>2. b \in Batch
    BY <2>1 DEF Elems
  <2>3. QED
    BY <2>2, Bursts DEF Frames
<1>3. b # at[t]
  <2>1. CASE removed[at[t]]
    <3>1. \A k \in DOMAIN inflight : at[t] < inflight[k]
      BY <1>1, <2>1 DEF Ordered, Deque
    <3>2. QED
      BY <1>2, <3>1, Bursts DEF Elems
  <2>2. QED
    BY <2>1
<1>4. f # ev[t].frame
  BY <1>1, <1>2, <1>3, FramesDisjoint
<1>5. <<c, f>> \notin ev[t].items
  BY <1>1, <1>4
<1>6. QED
  BY <1>2, <1>5, ComingQueued

(* In the beginning no buffer is held.                                      *)
LEMMA InitNumbered == Init => Numbered
BY Classes DEF Init, Numbered, HeldInOrder, RestComes, Elems

(* The frame that is queued was the first to come; then the next one is.    *)
LEMMA QueuedNumbered ==
  ASSUME Ordered, Numbered, NEW t \in Thread, LockBatch(t), NEW b, b = at[t], ~removed[b], b \notin early,
         NEW c \in BatchedBuffers
  PROVE  HeldInOrder(b, c)' /\ RestComes(b, c)'
<1> DEFINE f == ev[t].frame
           q == queue[b][c]
<1>1. /\ b \in Batch /\ b \in Elems(inflight) /\ f \in Frames(b)
      /\ ev[t].items \subseteq Class \X {f}
      /\ delivered'[b] = delivered[b] \cup Ended(b, ev[t])
      /\ \A d \in BatchedClass : queue'[b][d] = IF d \in Ended(b, ev[t]) THEN <<>> ELSE Pushed(b, ev[t])[d]
  <2>1. /\ b \in Batch /\ b \in Elems(inflight) /\ f \in Frames(b)
        /\ Piecemeal(ev[t])
        /\ delivered'[b] = delivered[b] \cup Ended(b, ev[t])
    BY Queued
  <2> DEFINE new == [d \in BatchedClass |-> IF d \in Ended(b, ev[t]) THEN <<>> ELSE Pushed(b, ev[t])[d]]
  <2>4. queue'[b] = new
    BY Queued
  <2>2. \A d \in BatchedClass : queue'[b][d] = IF d \in Ended(b, ev[t]) THEN <<>> ELSE Pushed(b, ev[t])[d]
    BY <2>4
  <2>3. QED
    BY <2>1, <2>2 DEF Piecemeal
<1>2. c \in BatchedClass /\ c \in Class /\ q \in Seq(Nat) /\ f \in Nat
  <2>1. queue \in [Batch -> [BatchedClass -> Seq(Nat)]]
    BY DEF Ordered, IInv, TypeOK
  <2>2. QED
    BY <1>1, <2>1, Classes, Bursts DEF Frames
<1>3. CASE c \in Ended(b, ev[t])
  BY <1>1, <1>2, <1>3 DEF HeldInOrder, RestComes
<1>4. CASE c \notin Ended(b, ev[t])
  <2>1. queue'[b][c] = Pushed(b, ev[t])[c]
    BY <1>1, <1>2, <1>4
  <2>2. HeldInOrder(b, c)'
    BY <2>1, PushedInOrder DEF HeldInOrder
  <2>3. SUFFICES ASSUME c \notin delivered[b], NEW g \in Frames(b)
                 PROVE  Coming(<<c, g>>)' <=> g >= Label(b, Len(queue'[b][c]) + 1)
    BY <1>1, <1>4, <2>2 DEF RestComes
  <2>4. g \in Nat /\ (Coming(<<c, g>>) <=> g >= Label(b, Len(q) + 1))
    BY <1>1, <2>3, Bursts DEF Numbered, RestComes, Frames
  <2>5. Coming(<<c, g>>)' <=> Coming(<<c, g>>) /\ <<c, g>> \notin ev[t].items
    BY <1>2, <2>4, ComingQueued
  <2>6. CASE <<c, f>> \in ev[t].items
    <3>1. f = Label(b, Len(q) + 1)
      BY <2>6, NextInOrder
    <3>2. queue'[b][c] = Append(q, f)
      BY <1>2, <2>1, <2>6 DEF Pushed
    <3>3. Len(queue'[b][c]) = Len(q) + 1 /\ Len(q) \in Nat
      BY <1>2, <3>2
    <3>4. Label(b, Len(q) + 1 + 1) = f + 1
      <4>1. \A x, n \in Nat : x + (n + 1 + 1) - 1 = x + (n + 1) - 1 + 1
        OBVIOUS
      <4>2. Burst[b].first \in Nat
        BY <1>1, Bursts
      <4>3. QED
        BY <3>1, <3>3, <4>1, <4>2 DEF Label
    <3>5. <<c, g>> \in ev[t].items <=> g = f
      BY <1>1, <2>6
    <3>6. g >= f + 1 <=> g >= f /\ g # f
      BY <1>2, <2>4
    <3>7. QED
      BY <2>4, <2>5, <3>1, <3>3, <3>4, <3>5, <3>6
  <2>7. CASE <<c, f>> \notin ev[t].items
    <3>1. queue'[b][c] = q
      BY <1>2, <2>1, <2>7 DEF Pushed
    <3>2. <<c, g>> \notin ev[t].items
      BY <1>1, <2>7
    <3>3. QED
      BY <2>4, <2>5, <3>1, <3>2
  <2>8. QED
    BY <2>6, <2>7
<1>5. QED
  BY <1>3, <1>4

(* Buffers are queued as they come and sent all at once: no gap opens.      *)
LEMMA StepNumbered ==
  ASSUME Ordered, Waits, Numbered, [Next]_vars
  PROVE  Numbered'
<1>0. early \subseteq early'
  BY EarlyGrows
<1>1. IInv /\ Deque /\ Elems(inflight) \subseteq Batch /\ Batch \subseteq Nat
  BY Bursts DEF Ordered, IInv, TypeOK, Elems
<1>2. SUFFICES ASSUME NEW c \in BatchedBuffers
               PROVE  /\ \A b \in Batch \ early : HeldInOrder(b, c)'
                      /\ \A b \in Elems(inflight') \ early : RestComes(b, c)'
  BY <1>0 DEF Numbered
<1>3. c \in BatchedClass /\ c \in Class /\ c \notin BatchedClass \ BatchedBuffers
  BY Classes
<1>4. CASE Submit
  <2>1. UNCHANGED <<inflight, queue, delivered>>
    BY <1>4 DEF Submit, batchVars
  <2>2. QED
    BY <1>1, <1>3, <1>4, <2>1, NumberedKept, ComingSubmitted
<1>5. CASE SubmitFails \/ RegisterBatch
  <2>1. /\ UNCHANGED <<pending, queue, delivered, pc, ev>> /\ burst \in Batch
        /\ \/ inflight' = inflight
           \/ /\ Elems(inflight') = Elems(inflight) \cup {burst}
              /\ burst \notin early => \A f \in Frames(burst) : <<c, f>> \in pending'
        /\ queue[burst][c] = <<>>
    BY <1>3, <1>5, RegisteredIsNew
  <2>2. \A b \in Batch \ early : HeldInOrder(b, c)' /\ (b \in Elems(inflight) => RestComes(b, c)')
    <3>1. \A i : Coming(i)' <=> Coming(i)
      BY <2>1, ComingKept
    <3>2. QED
      BY <1>1, <2>1, <3>1, NumberedKept
  <2>3. ASSUME NEW b \in Batch, b = burst, \A f \in Frames(b) : <<c, f>> \in pending'
        PROVE  RestComes(b, c)'
    <3>1. Label(b, Len(queue'[b][c]) + 1) = Burst[b].first
      <4>1. queue'[b][c] = <<>> /\ Burst[b].first \in Nat
        BY <2>1, <2>3, Bursts
      <4>2. QED
        BY <4>1 DEF Label
    <3>2. \A f \in Frames(b) : f >= Burst[b].first
      BY Bursts DEF Frames
    <3>3. \A f \in Frames(b) : Coming(<<c, f>>)'
      BY <2>3 DEF Coming
    <3>4. QED
      BY <3>1, <3>2, <3>3 DEF RestComes
  <2>4. QED
    BY <1>1, <2>1, <2>2, <2>3
<1>6. ASSUME NEW t \in Thread, NEW e \in Event, Reports(t, e)
      PROVE  /\ \A b \in Batch \ early : HeldInOrder(b, c)'
             /\ \A b \in Elems(inflight') \ early : RestComes(b, c)'
  <2>1. UNCHANGED <<inflight, queue, delivered>>
    BY <1>1, <1>6, ReportsEffect
  <2>2. QED
    BY <1>1, <1>3, <1>6, <2>1, NumberedKept, ComingReported
<1>7. ASSUME NEW t \in Thread, LockBatch(t)
      PROVE  /\ \A b \in Batch \ early : HeldInOrder(b, c)'
             /\ \A b \in Elems(inflight') \ early : RestComes(b, c)'
  <2>1. /\ inflight' = inflight
        /\ \A a \in Batch \ {at[t]} : queue'[a] = queue[a] /\ delivered'[a] = delivered[a]
        /\ removed[at[t]] => queue'[at[t]] = queue[at[t]] /\ delivered'[at[t]] = delivered[at[t]]
    <3>1. inflight' = inflight
      BY <1>1, <1>7, LockBatchEffect
    <3>2. ASSUME NEW a \in Batch, a # at[t] \/ removed[a]
          PROVE  queue'[a] = queue[a] /\ delivered'[a] = delivered[a]
      <4>1. PICK b : b = at[t]
        OBVIOUS
      <4>2. QED
        BY <1>1, <1>7, <3>2, <4>1, LockBatchEffect
    <3>3. at[t] \in Batch
      BY <1>1, <1>7, LockBatchEffect
    <3>4. QED
      BY <3>1, <3>2, <3>3
  <2>2. ASSUME NEW b \in Batch \ early, b # at[t] \/ removed[at[t]]
        PROVE  HeldInOrder(b, c)' /\ (b \in Elems(inflight) => RestComes(b, c)')
    <3>1. queue'[b] = queue[b] /\ delivered'[b] = delivered[b]
      BY <2>1, <2>2
    <3>2. b \in Elems(inflight) => \A f \in Frames(b) : Coming(<<c, f>>)' <=> Coming(<<c, f>>)
      BY <1>3, <1>7, <2>2, OtherFrames
    <3>3. QED
      BY <3>1, <3>2, NumberedKept
  <2>3. \A b \in Batch \ early : b = at[t] /\ ~removed[b] => HeldInOrder(b, c)' /\ RestComes(b, c)'
    BY <1>7, QueuedNumbered
  <2>4. QED
    BY <1>1, <2>1, <2>2, <2>3
<1>8. ASSUME NEW t \in Thread, FlushFirstBatch(t)
      PROVE  /\ \A b \in Batch \ early : HeldInOrder(b, c)'
             /\ \A b \in Elems(inflight') \ early : RestComes(b, c)'
  <2>0. PICK h : h = Head(inflight)
    OBVIOUS
  <2>1. /\ pc[t] = "flush" /\ pc'[t] = "calling" /\ inflight # <<>> /\ inflight' = Tail(inflight)
        /\ \A u \in Thread \ {t} : Same(u)
        /\ \A a \in Batch \ {h} : queue'[a] = queue[a] /\ delivered'[a] = delivered[a]
        /\ UNCHANGED pending /\ h \in Batch /\ queue'[h] = FlushBatch(h).queue
    BY <1>1, <1>8, <2>0, FlushFirstBatchEffect
  <2>2. queue'[h][c] = <<>>
    BY <1>1, <1>3, <2>1, HeldType, FlushSends DEF IInv, SentIsNotHeld
  <2>3. \A a \in Elems(inflight') : a \in Elems(inflight) /\ a # h
    <3>1. \A a \in Elems(inflight') : a \in Batch /\ h < a
      BY <2>0, <2>1, HeadLeaves
    <3>2. Elems(inflight') \subseteq Elems(inflight)
      BY <2>0, <2>1, HeadLeaves
    <3>3. h \in Nat /\ \A a \in Batch : a \in Nat
      BY <1>1, <2>1
    <3>4. QED
      BY <3>1, <3>2, <3>3
  <2>4. \A i : Coming(i)' <=> Coming(i)
    BY <2>1, ComingKept DEF Same
  <2>5. \A b \in Batch \ ({h} \cup early) : HeldInOrder(b, c)' /\ (b \in Elems(inflight) => RestComes(b, c)')
    BY <2>1, <2>4, NumberedKept
  <2>6. HeldInOrder(h, c)'
    BY <2>2 DEF HeldInOrder
  <2>7. QED
    BY <1>1, <2>3, <2>5, <2>6
<1>9. ASSUME UNCHANGED <<pending, queue, delivered>>, Elems(inflight') \subseteq Elems(inflight),
             \A t \in Thread : pc[t] = "queue" => pc'[t] = "queue" /\ ev'[t] = ev[t],
             \A t \in Thread : pc'[t] = "queue" => pc[t] = "queue" /\ ev'[t] = ev[t]
      PROVE  /\ \A b \in Batch \ early : HeldInOrder(b, c)'
             /\ \A b \in Elems(inflight') \ early : RestComes(b, c)'
  <2>1. \A i : Coming(i)' <=> Coming(i)
    BY <1>9, ComingKept
  <2>2. QED
    BY <1>1, <1>9, <2>1, NumberedKept
<1>10. ASSUME NEW t \in Thread, RemoveFirstBatch(t)
       PROVE  /\ \A b \in Batch \ early : HeldInOrder(b, c)'
             /\ \A b \in Elems(inflight') \ early : RestComes(b, c)'
  <2>1. /\ pc[t] = "remove" /\ pc'[t] = "idle" /\ \A u \in Thread \ {t} : Same(u)
        /\ UNCHANGED <<pending, queue, delivered>>
        /\ inflight' = inflight \/ (inflight # <<>> /\ inflight' = Tail(inflight))
    BY <1>1, <1>10, RemoveFirstBatchEffect DEF Returned
  <2>2. Elems(inflight') \subseteq Elems(inflight)
    BY <2>1, HeadLeaves
  <2>3. QED
    BY <1>9, <2>1, <2>2 DEF Same
<1>11. CASE Quiet
  BY <1>9, <1>11, QuietEvents DEF Quiet
<1>12. QED
  BY <1>4, <1>5, <1>6, <1>7, <1>8, <1>10, <1>11, StepKinds

-----------------------------------------------------------------------------
(* What a batch holds is of its frames.                                     *)
HeldOwn ==
  \A b \in Batch, c \in BatchedClass : \A k \in DOMAIN queue[b][c] : queue[b][c][k] \in Frames(b)

(* In the beginning no batch holds anything.                                *)
LEMMA InitHeldOwn == Init => HeldOwn
BY DEF Init, HeldOwn

(* What a thread queues is of the frames of its batch.                      *)
LEMMA PushedOwn ==
  ASSUME Ordered, HeldOwn, NEW t \in Thread, LockBatch(t), NEW b, b = at[t], ~removed[b],
         NEW c \in BatchedClass
  PROVE  \A k \in DOMAIN Pushed(b, ev[t])[c] : Pushed(b, ev[t])[c][k] \in Frames(b)
<1>1. b \in Batch /\ ev[t].frame \in Frames(b)
  BY Queued
<1>2. queue \in [Batch -> [BatchedClass -> Seq(Nat)]] /\ ev[t].frame \in Nat
  BY SMTT(30), <1>1, Bursts DEF Ordered, IInv, TypeOK, Frames
<1>3. queue[b][c] \in Seq(Nat) /\ \A k \in DOMAIN queue[b][c] : queue[b][c][k] \in Frames(b)
  BY <1>1, <1>2 DEF HeldOwn
<1>4. PICK q : q = queue[b][c]
  OBVIOUS
<1>5. PICK f : f = ev[t].frame
  OBVIOUS
<1>6. /\ DOMAIN Append(q, f) = DOMAIN q \cup {Len(q) + 1}
      /\ (\A k \in DOMAIN q : Append(q, f)[k] = q[k]) /\ Append(q, f)[Len(q) + 1] = f
  <2>1. q \in Seq(Nat) /\ f \in Nat
    BY <1>2, <1>3, <1>4, <1>5
  <2>2. QED
    BY <2>1, DequeAppend
<1>7. Pushed(b, ev[t])[c] \in {q, Append(q, f)}
  BY <1>4, <1>5 DEF Pushed
<1>8. CASE Pushed(b, ev[t])[c] = q
  BY <1>3, <1>4, <1>8
<1>9. CASE Pushed(b, ev[t])[c] = Append(q, f)
  <2>1. ASSUME NEW k \in DOMAIN Append(q, f)
        PROVE  Append(q, f)[k] \in Frames(b)
    BY <1>1, <1>3, <1>4, <1>5, <1>6, <2>1
  <2>2. QED
    BY <1>9, <2>1
<1>10. QED
  BY <1>7, <1>8, <1>9

(* And nothing else is ever held.                                           *)
LEMMA StepHeldOwn ==
  ASSUME Ordered, HeldOwn, [Next]_vars
  PROVE  HeldOwn'
<1>1. SUFFICES ASSUME NEW b \in Batch, NEW c \in BatchedClass
               PROVE  \A k \in DOMAIN queue'[b][c] : queue'[b][c][k] \in Frames(b)
  BY DEF HeldOwn
<1>2. CASE queue'[b] = queue[b]
  BY <1>2 DEF HeldOwn
<1>3. ASSUME NEW t \in Thread, LockBatch(t)
      PROVE  \A k \in DOMAIN queue'[b][c] : queue'[b][c][k] \in Frames(b)
  <2>1. PICK a : a = at[t]
    OBVIOUS
  <2>2. CASE b = a /\ ~removed[b]
    <3>1. queue'[b] = [d \in BatchedClass |-> IF d \in Ended(b, ev[t]) THEN <<>> ELSE Pushed(b, ev[t])[d]]
      BY <1>3, <2>1, <2>2, Queued
    <3>2. \A k \in DOMAIN Pushed(b, ev[t])[c] : Pushed(b, ev[t])[c][k] \in Frames(b)
      BY <1>3, <2>1, <2>2, PushedOwn
    <3>3. queue'[b][c] = <<>> \/ queue'[b][c] = Pushed(b, ev[t])[c]
      BY <3>1
    <3>4. QED
      BY <3>2, <3>3
  <2>3. CASE b # a \/ removed[b]
    BY <1>2, <1>3, <2>1, <2>3, LockBatchEffect DEF Ordered
  <2>4. QED
    BY <2>2, <2>3
<1>4. ASSUME NEW t \in Thread, FlushFirstBatch(t)
      PROVE  \A k \in DOMAIN queue'[b][c] : queue'[b][c][k] \in Frames(b)
  <2>1. PICK h : h = Head(inflight)
    OBVIOUS
  <2>2. /\ h \in Batch /\ queue'[h] = FlushBatch(h).queue
        /\ b # h => queue'[b] = queue[b]
    BY <1>4, <2>1, FlushFirstBatchEffect DEF Ordered
  <2>3. CASE b = h
    <3>1. queue'[b][c] = <<>>
      BY <2>2, <2>3, HeldType, FlushSends DEF Ordered, IInv, SentIsNotHeld
    <3>2. QED
      BY <3>1
  <2>4. QED
    BY <1>2, <2>2, <2>3
<1>5. CASE Submit \/ SubmitFails \/ RegisterBatch
  BY <1>2, <1>5 DEF Submit, SubmitFails, RegisterBatch, batchVars
<1>6. ASSUME NEW t \in Thread, NEW e \in Event, Reports(t, e)
      PROVE  queue' = queue
  BY <1>6, ReportsEffect DEF Ordered
<1>7. ASSUME NEW t \in Thread, RemoveFirstBatch(t)
      PROVE  queue' = queue
  BY <1>7, RemoveFirstBatchEffect DEF Ordered
<1>8. Quiet => queue' = queue
  BY DEF Quiet
<1>9. QED
  BY <1>2, <1>3, <1>4, <1>5, <1>6, <1>7, <1>8, StepKinds

-----------------------------------------------------------------------------
(* Making a call leaves the others to make.                                 *)
LEMMA CallsTail ==
  ASSUME NEW calls \in Seq(Call), calls # <<>>
  PROVE  /\ Head(calls).items \subseteq Carries(calls) /\ Carries(Tail(calls)) \subseteq Carries(calls)
         /\ \A k \in DOMAIN Tail(calls) : k + 1 \in DOMAIN calls /\ Tail(calls)[k] = calls[k + 1]
         /\ 1 \in DOMAIN calls /\ Head(calls) = calls[1]
         /\ DOMAIN calls \subseteq Nat \ {0} /\ DOMAIN Tail(calls) \subseteq Nat \ {0}
<1>1. /\ 1 \in DOMAIN calls /\ Head(calls) = calls[1]
      /\ \A k \in DOMAIN Tail(calls) : k + 1 \in DOMAIN calls /\ Tail(calls)[k] = calls[k + 1]
      /\ DOMAIN calls \subseteq Nat \ {0} /\ DOMAIN Tail(calls) \subseteq Nat \ {0}
  OBVIOUS
<1>2. QED
  BY <1>1 DEF Carries

(* Where the calls a thread has to make come from.                          *)
LEMMA NewCalls ==
  ASSUME Ordered, [Next]_vars, NEW t \in Thread
  PROVE  \/ Carries(todo'[t]) \subseteq Carries(todo[t]) /\ (todo'[t] # <<>> => ev'[t] = ev[t] /\ at'[t] = at[t])
         \/ todo'[t] = SingleCall(ev'[t]) /\ (ev'[t].kind = "error" => at'[t] = NotBatched)
         \/ LockBatch(t) /\ ~removed[at[t]]
         \/ FlushFirstBatch(t)
<1>1. IInv /\ (\A u \in Thread : Phase(u)) /\ todo[t] \in Seq(Call)
  BY DEF Ordered, IInv, TypeOK
<1>2. Carries(<<>>) = {}
  BY NoCalls
<1>3. CASE Submit \/ SubmitFails \/ RegisterBatch
  BY <1>3 DEF Submit, SubmitFails, RegisterBatch, threadVars
<1>4. ASSUME NEW u \in Thread, NEW e \in Event, Reports(u, e)
      PROVE  \/ Carries(todo'[t]) \subseteq Carries(todo[t]) /\ (todo'[t] # <<>> => ev'[t] = ev[t] /\ at'[t] = at[t])
             \/ todo'[t] = SingleCall(ev'[t]) /\ (ev'[t].kind = "error" => at'[t] = NotBatched)
  <2>1. /\ ev'[u] = e /\ \A v \in Thread \ {u} : Same(v)
        /\ \/ at'[u] = NotBatched /\ todo'[u] = SingleCall(e)
           \/ todo'[u] = <<>>
    BY <1>1, <1>4, ReportsEffect
  <2>2. QED
    BY <1>2, <2>1 DEF Same
<1>5. ASSUME NEW u \in Thread, LockBatch(u)
      PROVE  \/ Carries(todo'[t]) \subseteq Carries(todo[t]) /\ (todo'[t] # <<>> => ev'[t] = ev[t] /\ at'[t] = at[t])
             \/ todo'[t] = SingleCall(ev'[t]) /\ (ev'[t].kind = "error" => at'[t] = NotBatched)
             \/ u = t /\ ~removed[at[t]]
  <2>1. /\ \A v \in Thread \ {u} : Same(v)
        /\ removed[at[u]] => todo'[u] = SingleCall(ev[u])
        /\ ev' = ev /\ pc[u] = "queue"
    BY <1>1, <1>5, LockBatchEffect
  <2>2. ev[u].kind # "error"
    BY <1>1, <2>1 DEF Phase
  <2>3. QED
    BY <2>1, <2>2 DEF Same
<1>6. ASSUME NEW u \in Thread, FlushFirstBatch(u) \/ RemoveFirstBatch(u)
      PROVE  \/ Carries(todo'[t]) \subseteq Carries(todo[t]) /\ (todo'[t] # <<>> => ev'[t] = ev[t] /\ at'[t] = at[t])
             \/ u = t /\ FlushFirstBatch(u)
  <2>1. /\ \A v \in Thread \ {u} : Same(v)
        /\ RemoveFirstBatch(u) => todo'[u] = <<>>
    BY <1>1, <1>6, FlushFirstBatchEffect, RemoveFirstBatchEffect DEF Phase
  <2>2. QED
    BY <1>2, <1>6, <2>1 DEF Same
<1>7. CASE Quiet
  <2>1. CASE Calls(t)
    <3>1. Carries(todo'[t]) \subseteq Carries(todo[t])
      BY <1>1, <2>1, CallsTail DEF Calls
    <3>2. QED
      BY <2>1, <3>1 DEF Calls
  <2>2. CASE Same(t) \/ Proceeds(t) \/ Leaves(t)
    BY <1>2, <2>2 DEF Same, Proceeds, Leaves
  <2>3. CASE SendsError(t)
    BY <2>3 DEF SendsError
  <2>4. QED
    BY <1>7, <2>1, <2>2, <2>3 DEF Quiet, Quietly
<1>8. QED
  BY <1>3, <1>4, <1>5, <1>6, <1>7, StepKinds

(* The framework is told what a thread was about to tell it.                *)
LEMMA NewlyReceived ==
  ASSUME Ordered, [Next]_vars, NEW d \in received' \ received
  PROVE  \E t \in Thread : /\ d \in Carries(todo[t]) /\ pc[t] = "calling" /\ todo[t] # <<>>
                           /\ UNCHANGED <<inflight, removed>>
<1>1. ~Submit /\ ~SubmitFails /\ ~RegisterBatch
  BY DEF Submit, SubmitFails, RegisterBatch, outVars
<1>2. \A t \in Thread : \A e \in Event : ~Reports(t, e)
  BY ReportsEffect DEF Ordered
<1>3. \A t \in Thread : ~(LockBatch(t) \/ FlushFirstBatch(t) \/ RemoveFirstBatch(t))
  BY LockBatchEffect, FlushFirstBatchEffect, RemoveFirstBatchEffect DEF Ordered
<1>4. Quiet
  BY <1>1, <1>2, <1>3, StepKinds
<1>5. PICK t \in Thread : Calls(t) /\ d \in Head(todo[t]).items
  BY <1>4 DEF Quiet
<1>6. todo[t] \in Seq(Call)
  BY DEF Ordered, IInv, TypeOK
<1>7. QED
  BY <1>4, <1>5, <1>6, CallsTail DEF Calls, Quiet

(* Whatever is sent bears the number of its own frame, or is of a batch     *)
(* that the HAL reported on early.                                          *)
Labelled ==
  /\ \A t \in Thread : \A d \in Carries(todo[t]) : d[1] = d[3] \/ FromEarly(d[3])
  /\ LabelledByFrame

(* In the beginning no call is made.                                        *)
LEMMA InitLabelled == Init => Labelled
BY NoCalls DEF Init, Labelled, LabelledByFrame

(* A call that is made up carries every item under its frame.               *)
LEMMA StepLabelled ==
  ASSUME Ordered, Numbered, HeldOwn, Labelled, [Next]_vars
  PROVE  Labelled'
<1>0. \A f : FromEarly(f) => FromEarly(f)'
  BY EarlyGrows DEF FromEarly
<1>1. \A items : \A d \in Plain(items) : d[1] = d[3]
  BY DEF Plain
<1>2. ASSUME NEW t \in Thread, NEW d \in Carries(todo'[t])
      PROVE  d[1] = d[3] \/ FromEarly(d[3])'
  <2>1. CASE Carries(todo'[t]) \subseteq Carries(todo[t])
    BY <1>0, <1>2, <2>1 DEF Labelled
  <2>2. CASE todo'[t] = SingleCall(ev'[t])
    BY <1>1, <1>2, <2>2, SingleCallCarries
  <2>3. CASE LockBatch(t) /\ ~removed[at[t]]
    <3>1. PICK b : b = at[t]
      OBVIOUS
    <3>2. /\ b \in Batch /\ Pushed(b, ev[t]) \in [BatchedClass -> Seq(Nat)]
          /\ Carries(todo'[t]) = Plain(Unbatched(ev[t])) \cup Content(Pushed(b, ev[t]), b, Ended(b, ev[t]))
      BY <2>3, <3>1, Queued
    <3>3. CASE d \in Plain(Unbatched(ev[t]))
      BY <1>1, <3>3
    <3>4. CASE d \in Content(Pushed(b, ev[t]), b, Ended(b, ev[t]))
      <4>1. Ended(b, ev[t]) \in SUBSET BatchedClass
        BY DEF Ended
      <4>2. PICK c \in Ended(b, ev[t]) : \E k \in DOMAIN Pushed(b, ev[t])[c] :
               d = <<Number(b, c, k, Pushed(b, ev[t])[c][k]), c, Pushed(b, ev[t])[c][k]>>
        BY <3>2, <3>4, <4>1, ContentOf
      <4>6. CASE b \in early
        <5>1. c \in BatchedClass /\ d[3] \in Frames(b)
          BY <2>3, <3>1, <4>1, <4>2, PushedOwn
        <5>2. QED
          BY <1>0, <4>6, <5>1 DEF FromEarly
      <4>3. CASE c \in BatchedBuffers /\ b \notin early
        BY <2>3, <3>1, <4>2, <4>3, PushedInOrder DEF Number
      <4>4. CASE c \notin BatchedBuffers
        BY <4>2, <4>4 DEF Number
      <4>5. QED
        BY <4>3, <4>4, <4>6
    <3>5. QED
      BY <1>2, <3>2, <3>3, <3>4
  <2>4. CASE FlushFirstBatch(t)
    <3>1. PICK b : b = Head(inflight)
      OBVIOUS
    <3>2. b \in Batch /\ todo'[t] = FlushBatch(b).calls
      BY <2>4, <3>1, FlushFirstBatchEffect DEF Ordered
    <3>3. Carries(todo'[t]) = Content(queue[b], b, BatchedClass) /\ queue[b] \in [BatchedClass -> Seq(Nat)]
      BY <3>2, HeldType, FlushSends DEF Ordered, IInv, SentIsNotHeld, TypeOK
    <3>4. PICK c \in BatchedClass : \E k \in DOMAIN queue[b][c] :
               d = <<Number(b, c, k, queue[b][c][k]), c, queue[b][c][k]>>
      BY <1>2, <3>2, <3>3, ContentOf
    <3>5. CASE c \in BatchedBuffers /\ b \notin early
      BY <3>2, <3>4, <3>5 DEF Number, Numbered, HeldInOrder
    <3>6. CASE c \notin BatchedBuffers
      BY <3>4, <3>6 DEF Number
    <3>7. CASE b \in early
      <4>1. d[3] \in Frames(b)
        BY <3>2, <3>4 DEF HeldOwn
      <4>2. QED
        BY <1>0, <3>7, <4>1 DEF FromEarly
    <3>8. QED
      BY <3>5, <3>6, <3>7
  <2>5. QED
    BY <2>1, <2>2, <2>3, <2>4, NewCalls
<1>3. ASSUME NEW d \in received'
      PROVE  d[1] = d[3] \/ FromEarly(d[3])'
  BY <1>0, <1>3, NewlyReceived DEF Labelled, LabelledByFrame
<1>4. QED
  BY <1>2, <1>3 DEF Labelled, LabelledByFrame

(* An item comes up under the number of its own frame, though a buffer of  *)
(* a batch is counted from the first frame: the buffers held back are those *)
(* of the first frames.  Only a batch that the HAL reported on before it    *)
(* was registered may be relabelled, and no other one is.                   *)
THEOREM BuffersAreLabelled == Spec => []LabelledByFrame
<1> DEFINE Inv == Ordered /\ Waits /\ Numbered /\ HeldOwn /\ Labelled
<1>1. Init => Inv
  BY InitOrdered, InitWaits, InitNumbered, InitHeldOwn, InitLabelled
<1>2. Inv /\ [Next]_vars => Inv'
  BY StepOrdered, StepWaits, StepNumbered, StepHeldOwn, StepLabelled
<1>3. Inv => LabelledByFrame
  BY DEF Labelled
<1>4. QED
  BY <1>1, <1>2, <1>3, PTL DEF Spec

-----------------------------------------------------------------------------
(* An error is sent by the thread that flushed for it, and the loop of that *)
(* thread reaches the batch of the failed frame while it is in the deque.   *)
ErrorCalls(t) ==
  \A d \in Carries(todo[t]) : d[2] = Error =>
    ev[t].kind = "error" /\ at[t] = NotBatched /\ d[3] = ev[t].frame
(* The loop of an error counts as far as the batch of its frame.  (An error *)
(* reported before the batch is registered does not count it.)              *)
ErrorReaches(t) ==
  ev[t].kind = "error" =>
    \A k \in DOMAIN inflight :
      inflight[k] \notin early /\ ev[t].frame \in Frames(inflight[k]) => k <= left[t]
(* Both, of every thread.                                                   *)
ErrorsInTurn == \A t \in Thread : ErrorCalls(t) /\ ErrorReaches(t)

(* In the beginning there is no error.                                      *)
LEMMA InitErrors == Init => ErrorsInTurn
BY NoCalls DEF Init, ErrorsInTurn, ErrorCalls, ErrorReaches

(* The batch of a frame has one place in the deque.                         *)
LEMMA OnePlace ==
  ASSUME Ordered, NEW k \in DOMAIN inflight, NEW l \in DOMAIN inflight, NEW f,
         f \in Frames(inflight[k]), f \in Frames(inflight[l])
  PROVE  k = l
<1>1. inflight \in Seq(Batch) /\ Batch \subseteq Nat
  BY Bursts DEF Ordered, IInv, TypeOK
<1>2. inflight[k] \in Batch /\ inflight[l] \in Batch /\ k \in Nat /\ l \in Nat
  BY <1>1
<1>3. inflight[k] = inflight[l]
  BY <1>2, FramesDisjoint
<1>4. inflight[k] \in Nat /\ inflight[l] \in Nat
  BY <1>1, <1>2
<1>5. (k < l => inflight[k] < inflight[l]) /\ (l < k => inflight[l] < inflight[k])
  BY DEF Ordered, Deque
<1>6. QED
  BY <1>2, <1>3, <1>4, <1>5

(* An error is handed to the framework only after the loop.                 *)
LEMMA StepErrorCalls ==
  ASSUME Ordered, ErrorsInTurn, [Next]_vars, NEW t \in Thread
  PROVE  ErrorCalls(t)'
<1>1. SUFFICES ASSUME NEW d \in Carries(todo'[t]), d[2] = Error
               PROVE  ev'[t].kind = "error" /\ at'[t] = NotBatched /\ d[3] = ev'[t].frame
  BY DEF ErrorCalls
<1>2. Error \notin Class /\ Error \notin BatchedClass /\ todo'[t] # <<>>
  BY <1>1, NoCalls, Classes
<1>3. CASE /\ Carries(todo'[t]) \subseteq Carries(todo[t])
           /\ todo'[t] # <<>> => ev'[t] = ev[t] /\ at'[t] = at[t]
  BY <1>1, <1>2, <1>3 DEF ErrorsInTurn, ErrorCalls
<1>4. CASE todo'[t] = SingleCall(ev'[t]) /\ (ev'[t].kind = "error" => at'[t] = NotBatched)
  <2>1. d \in Plain(ev'[t].items)
    BY <1>1, <1>4, SingleCallCarries
  <2>2. PICK i \in ev'[t].items : d = <<i[2], i[1], i[2]>>
    BY <2>1 DEF Plain
  <2>3. Phase(t)'
    BY StepOrdered DEF Ordered
  <2>4. ev'[t].kind = "error"
    BY <1>1, <1>2, <2>2, <2>3 DEF Phase
  <2>5. i = <<Error, ev'[t].frame>>
    BY <2>2, <2>3, <2>4 DEF Phase
  <2>6. QED
    BY <1>4, <2>2, <2>4, <2>5
<1>5. CASE LockBatch(t) /\ ~removed[at[t]]
  <2>1. PICK b : b = at[t]
    OBVIOUS
  <2>2. /\ Piecemeal(ev[t])
        /\ Carries(todo'[t]) = Plain(Unbatched(ev[t])) \cup Content(Pushed(b, ev[t]), b, Ended(b, ev[t]))
    BY <1>5, <2>1, Queued
  <2>3. \A i \in ev[t].items : i[1] \in Class
    BY <2>2 DEF Piecemeal
  <2>4. \A x \in Plain(Unbatched(ev[t])) : x[2] \in Class
    BY <2>3 DEF Plain, Unbatched
  <2>5. \A x \in Content(Pushed(b, ev[t]), b, Ended(b, ev[t])) : x[2] \in BatchedClass
    BY ContentClass DEF Ended
  <2>6. QED
    BY <1>1, <1>2, <2>2, <2>4, <2>5
<1>6. CASE FlushFirstBatch(t)
  <2>1. PICK b : b = Head(inflight)
    OBVIOUS
  <2>2. b \in Batch /\ todo'[t] = FlushBatch(b).calls
    BY <1>6, <2>1, FlushFirstBatchEffect DEF Ordered
  <2>3. Carries(todo'[t]) = Content(queue[b], b, BatchedClass)
    BY <2>2, HeldType, FlushSends DEF Ordered, IInv, SentIsNotHeld
  <2>4. QED
    BY <1>1, <1>2, <2>3, ContentClass
<1>7. QED
  BY <1>3, <1>4, <1>5, <1>6, NewCalls

(* As batches leave the deque the loop has less to go.                      *)
LEMMA StepErrorReaches ==
  ASSUME Ordered, Waits, ErrorsInTurn, [Next]_vars, NEW t \in Thread
  PROVE  ErrorReaches(t)'
<1>0. early \subseteq early'
  BY EarlyGrows
<1>1. /\ IInv /\ inflight \in Seq(Batch) /\ left[t] \in Nat /\ Phase(t)
      /\ \A k \in DOMAIN inflight : inflight[k] \in Batch /\ k \in Nat \ {0}
  <2>1. inflight \in Seq(Batch)
    BY DEF Ordered, IInv, TypeOK
  <2>2. \A k \in DOMAIN inflight : inflight[k] \in Batch /\ k \in Nat \ {0}
    BY <2>1
  <2>3. QED
    BY <2>1, <2>2 DEF Ordered, IInv, TypeOK
<1>2. NoEvent.kind # "error"
  BY DEF NoEvent
<1>3. ASSUME inflight' = inflight, ev'[t] = NoEvent \/ (ev'[t] = ev[t] /\ left'[t] = left[t])
      PROVE  ErrorReaches(t)'
  BY <1>0, <1>2, <1>3 DEF ErrorsInTurn, ErrorReaches
<1>4. CASE Submit
  BY <1>3, <1>4 DEF Submit, threadVars
<1>5. CASE SubmitFails \/ RegisterBatch
  <2>1. /\ UNCHANGED <<ev, left>> /\ burst \in Batch
        /\ \/ inflight' = inflight
           \/ /\ inflight' = Append(inflight, burst)
              /\ burst \notin early => ev[t].frame < Burst[burst].first
    BY <1>5, RegisteredIsNew
  <2>2. CASE inflight' = Append(inflight, burst)
    <3>1. /\ Len(inflight) \in Nat
          /\ DOMAIN inflight' = DOMAIN inflight \cup {Len(inflight) + 1}
          /\ \A k \in DOMAIN inflight : inflight'[k] = inflight[k]
          /\ inflight'[Len(inflight) + 1] = burst
      BY <1>1, <2>1, <2>2, DequeAppend
    <3>2. burst \notin early => ev[t].frame \notin Frames(burst)
      <4>0. inflight' # inflight
        BY <1>1, <2>2
      <4>1. burst \notin early => ev[t].frame < Burst[burst].first
        BY <2>1, <4>0
      <4>2. ev[t].frame \in Nat
        BY <1>1 DEF IInv, TypeOK, Event
      <4>3. QED
        BY <2>1, <4>1, <4>2, Bursts DEF Frames
    <3>3. QED
      BY <1>0, <2>1, <3>1, <3>2 DEF ErrorsInTurn, ErrorReaches
  <2>3. QED
    BY <1>3, <2>1, <2>2
<1>6. ASSUME NEW u \in Thread, NEW e \in Event, Reports(u, e)
      PROVE  ErrorReaches(t)'
  <2>1. /\ ev'[u] = e /\ (\A v \in Thread \ {u} : Same(v)) /\ inflight' = inflight
        /\ \/ \A k \in DOMAIN inflight : e.frame \notin Frames(inflight[k])
           \/ \E k \in DOMAIN inflight : left'[u] = k /\ e.frame \in Frames(inflight[k])
    BY <1>1, <1>6, ReportsEffect
  <2>2. CASE u = t
    <3>1. ASSUME NEW k \in DOMAIN inflight, e.frame \in Frames(inflight[k])
          PROVE  k <= left'[u]
      <4>1. left'[u] = k
        BY <2>1, <3>1, OnePlace
      <4>2. QED
        BY <1>1, <4>1
    <3>2. QED
      BY <2>1, <2>2, <3>1 DEF ErrorReaches
  <2>3. QED
    BY <1>3, <2>1, <2>2 DEF Same
<1>7. ASSUME NEW u \in Thread, LockBatch(u)
      PROVE  ErrorReaches(t)'
  BY <1>1, <1>3, <1>7, LockBatchEffect
<1>8. ASSUME inflight # <<>>, inflight' = Tail(inflight), ev'[t] = ev[t],
             left'[t] = left[t] \/ left'[t] = left[t] - 1
      PROVE  ErrorReaches(t)'
  <2>1. SUFFICES ASSUME ev[t].kind = "error", NEW k \in DOMAIN inflight',
                        inflight'[k] \notin early, ev[t].frame \in Frames(inflight'[k])
                 PROVE  k <= left'[t]
    BY <1>0, <1>8 DEF ErrorReaches
  <2>2. k \in Nat /\ k + 1 \in DOMAIN inflight /\ inflight'[k] = inflight[k + 1]
    BY <1>8, HeadLeaves
  <2>3. k + 1 <= left[t]
    BY <2>1, <2>2 DEF ErrorsInTurn, ErrorReaches
  <2>4. QED
    BY <1>1, <1>8, <2>2, <2>3
<1>9. ASSUME NEW u \in Thread, FlushFirstBatch(u)
      PROVE  ErrorReaches(t)'
  BY <1>1, <1>8, <1>9, FlushFirstBatchEffect DEF Same
<1>10. ASSUME NEW u \in Thread, RemoveFirstBatch(u)
       PROVE  ErrorReaches(t)'
  <2>1. /\ Returned(u) /\ (\A v \in Thread \ {u} : Same(v))
        /\ inflight' = inflight \/ (inflight # <<>> /\ inflight' = Tail(inflight))
    BY <1>1, <1>10, RemoveFirstBatchEffect
  <2>2. CASE u = t
    BY <1>2, <2>1, <2>2 DEF Returned, ErrorReaches
  <2>3. CASE u # t
    BY <1>3, <1>8, <2>1, <2>3 DEF Same
  <2>4. QED
    BY <2>2, <2>3
<1>11. CASE Quiet
  <2>1. inflight' = inflight /\ Quietly(t)
    BY <1>11 DEF Quiet
  <2>2. QED
    BY <1>3, <2>1 DEF Quietly, Same, Calls, Proceeds, Leaves, Returned, SendsError
<1>12. QED
  BY <1>4, <1>5, <1>6, <1>7, <1>9, <1>10, <1>11, StepKinds

(* When the framework hears of an error, every batch up to the one of the   *)
(* failed frame has left the deque, with all it held.  A batch that the HAL *)
(* reported on before it was registered may be passed over.                 *)
THEOREM FlushBeforeError == Spec => ErrorAfterFlush
<1> DEFINE Inv == Ordered /\ Waits /\ ErrorsInTurn
<1>1. Init => Inv
  BY InitOrdered, InitWaits, InitErrors
<1>2. Inv /\ [Next]_vars => Inv'
  BY StepOrdered, StepWaits, StepErrorCalls, StepErrorReaches DEF ErrorsInTurn
<1>3. Inv /\ [Next]_vars =>
        [\A d \in received' \ received, b \in Batch \ early :
           d[2] = Error /\ d[3] \in Frames(b) /\ b \in Elems(inflight) \cup {c \in Batch : removed[c]}
             => \A k \in DOMAIN inflight' : inflight'[k] > b]_vars
  <2>1. SUFFICES ASSUME Ordered, Waits, ErrorsInTurn, [Next]_vars,
                        NEW d \in received' \ received, NEW b \in Batch \ early,
                        d[2] = Error, d[3] \in Frames(b),
                        b \in Elems(inflight) \/ removed[b]
                 PROVE  \A k \in DOMAIN inflight' : inflight'[k] > b
    OBVIOUS
  <2>2. PICK t \in Thread : /\ d \in Carries(todo[t]) /\ pc[t] = "calling"
                            /\ UNCHANGED <<inflight, removed>>
    BY <2>1, NewlyReceived
  <2>3. ev[t].kind = "error" /\ at[t] = NotBatched /\ d[3] = ev[t].frame
    BY <2>1, <2>2 DEF ErrorsInTurn, ErrorCalls
  <2>4. left[t] = 0
    BY <2>1, <2>2, <2>3 DEF Ordered, Phase
  <2>5. b \notin Elems(inflight)
    <3>1. \A k \in DOMAIN inflight : k \in Nat \ {0}
      BY <2>1 DEF Ordered, IInv, TypeOK
    <3>2. \A k \in DOMAIN inflight : inflight[k] \notin early => d[3] \notin Frames(inflight[k])
      BY <2>1, <2>3, <2>4, <3>1 DEF ErrorsInTurn, ErrorReaches
    <3>3. QED
      BY <2>1, <3>2 DEF Elems
  <2>6. \A k \in DOMAIN inflight : b < inflight[k]
    BY <2>1, <2>5 DEF Ordered, Deque
  <2>7. \A k \in DOMAIN inflight : b \in Nat /\ inflight[k] \in Nat
    <3>1. Batch \subseteq Nat /\ inflight \in Seq(Batch)
      BY Bursts, <2>1 DEF Ordered, IInv, TypeOK
    <3>2. \A k \in DOMAIN inflight : inflight[k] \in Batch
      BY <3>1
    <3>3. QED
      BY <3>1, <3>2
  <2>8. QED
    BY <2>2, <2>6, <2>7
<1>4. QED
  BY <1>1, <1>2, <1>3, PTL DEF Spec, ErrorAfterFlush

-----------------------------------------------------------------------------
(* A batch in the deque that an error is about to send and remove.          *)
Doomed(b) ==
  \E t \in Thread : ev[t].kind = "error" /\ \E k \in DOMAIN inflight : inflight[k] = b /\ k <= left[t]

(* A registered batch has sent a class, or gets the item that completes it, *)
(* or is about to be sent for an error.                                     *)
Completed(b, c) == c \in delivered[b] \/ Coming(<<c, Burst[b].last>>) \/ Doomed(b)
(* This holds of every class and every registered batch that is not early.  *)
Completes == \A b \in Elems(inflight) \ early, c \in BatchedClass : Completed(b, c)

(* The loop of an error is not left before it is done.                      *)
LEMMA DoomedKept ==
  ASSUME NEW b, Doomed(b), inflight' = inflight,
         \A t \in Thread : ev[t].kind # "error" \/ left[t] = 0 \/ (ev'[t] = ev[t] /\ left'[t] = left[t]),
         \A k \in DOMAIN inflight : k \in Nat \ {0}
  PROVE  Doomed(b)'
<1>1. PICK t \in Thread, k \in DOMAIN inflight : ev[t].kind = "error" /\ inflight[k] = b /\ k <= left[t]
  BY DEF Doomed
<1>2. left[t] # 0
  BY <1>1
<1>3. QED
  BY <1>1, <1>2 DEF Doomed

(* What is left of the loop shrinks with the deque.                         *)
LEMMA DoomedShortened ==
  ASSUME Ordered, NEW b, Doomed(b), inflight # <<>>, inflight' = Tail(inflight), b \in Elems(inflight'),
         \A t \in Thread : \/ ev[t].kind # "error"
                           \/ ev'[t] = ev[t] /\ (left'[t] = left[t] \/ left'[t] = left[t] - 1)
  PROVE  Doomed(b)'
<1>1. PICK t \in Thread, k \in DOMAIN inflight : ev[t].kind = "error" /\ inflight[k] = b /\ k <= left[t]
  BY DEF Doomed
<1>2. left[t] \in Nat /\ inflight \in Seq(Batch)
  BY DEF Ordered, IInv, TypeOK
<1>3. k \in Nat \ {0}
  BY <1>2
<1>4. k # 1
  <2>1. PICK h : h = Head(inflight)
    OBVIOUS
  <2>2. h \in Batch /\ inflight[1] = h /\ b \in Batch /\ h < b
    BY <2>1, HeadLeaves
  <2>3. h \in Nat
    BY <2>2, Bursts
  <2>4. QED
    BY <1>1, <2>2, <2>3
<1>5. k - 1 \in DOMAIN inflight' /\ inflight'[k - 1] = b
  BY <1>1, <1>2, <1>4, DequeTail
<1>6. ev'[t] = ev[t] /\ k - 1 <= left'[t]
  BY <1>1, <1>2, <1>3
<1>7. QED
  BY <1>1, <1>5, <1>6 DEF Doomed

(* In the beginning no batch is registered.                                 *)
LEMMA InitCompletes == Init => Completes
BY DEF Init, Completes, Elems

(* The item of the last frame sends its class; an error sends everything.   *)
LEMMA StepCompletes ==
  ASSUME Ordered, Waits, Completes, [Next]_vars
  PROVE  Completes'
<1>0. early \subseteq early'
  BY EarlyGrows
<1>1. /\ IInv /\ inflight \in Seq(Batch) /\ Elems(inflight) \subseteq Batch /\ Batch \subseteq Nat
      /\ \A k \in DOMAIN inflight : k \in Nat \ {0}
  <2>1. inflight \in Seq(Batch)
    BY DEF Ordered, IInv, TypeOK
  <2>2. QED
    BY <2>1, Bursts DEF Ordered, Elems
<1>2. \A b \in Batch : Burst[b].last \in Frames(b) /\ Burst[b].last \in Nat
  BY Bursts DEF Frames
<1>3. BatchedClass \subseteq Class
  BY Classes
<1>4. ASSUME NEW b \in Elems(inflight) \ early, NEW c \in BatchedClass,
             c \in delivered[b] => c \in delivered'[b],
             Coming(<<c, Burst[b].last>>) => Coming(<<c, Burst[b].last>>)' \/ c \in delivered'[b],
             Doomed(b) => Doomed(b)'
      PROVE  Completed(b, c)'
  BY <1>4 DEF Completes, Completed
<1>5. CASE Submit
  <2>1. UNCHANGED <<inflight, delivered, ev, left>>
    BY <1>5 DEF Submit, batchVars, threadVars
  <2>2. \A b : Doomed(b)' <=> Doomed(b)
    BY <2>1 DEF Doomed
  <2>3. QED
    BY <1>0, <1>1, <1>2, <1>3, <1>4, <1>5, <2>1, <2>2, ComingSubmitted DEF Completes
<1>6. CASE SubmitFails \/ RegisterBatch
  <2>1. /\ UNCHANGED <<pending, delivered, pc, ev, left>> /\ burst \in Batch /\ burst \notin Elems(inflight)
        /\ \/ inflight' = inflight
           \/ /\ inflight' = Append(inflight, burst)
              /\ Elems(inflight') = Elems(inflight) \cup {burst}
              /\ burst \notin early => \A c \in Class, f \in Frames(burst) : <<c, f>> \in pending'
    BY <1>6, RegisteredIsNew
  <2>2. \A i : Coming(i)' <=> Coming(i)
    BY <2>1, ComingKept
  <2>3. \A k \in DOMAIN inflight : k \in DOMAIN inflight' /\ inflight'[k] = inflight[k]
    BY <1>1, <2>1, DequeAppend
  <2>4. \A b : Doomed(b) => Doomed(b)'
    BY <2>1, <2>3 DEF Doomed
  <2>5. \A b \in Elems(inflight) \ early, c \in BatchedClass : Completed(b, c)'
    BY <1>4, <2>1, <2>2, <2>4
  <2>6. ASSUME NEW b \in Batch \ early, b = burst, inflight' = Append(inflight, burst), NEW c \in BatchedClass
        PROVE  Completed(b, c)'
    <3>1. inflight' # inflight
      BY <1>1, <2>6
    <3>2. <<c, Burst[b].last>> \in pending'
      BY <1>2, <1>3, <2>1, <2>6, <3>1
    <3>3. QED
      BY <3>2 DEF Completed, Coming
  <2>7. QED
    BY <1>0, <1>1, <2>1, <2>5, <2>6 DEF Completes
<1>7. ASSUME NEW t \in Thread, NEW e \in Event, Reports(t, e)
      PROVE  Completes'
  <2>1. /\ pc[t] = "idle" /\ ev'[t] = e /\ \A u \in Thread \ {t} : Same(u)
        /\ UNCHANGED <<inflight, delivered>>
        /\ \/ \A k \in DOMAIN inflight : e.frame \notin Frames(inflight[k])
           \/ \E k \in DOMAIN inflight : left'[t] = k /\ e.frame \in Frames(inflight[k])
    BY <1>1, <1>7, ReportsEffect
  <2>2. ev[t].kind # "error"
    BY <2>1 DEF Ordered, Phase, NoEvent
  <2>3. \A b : Doomed(b) => Doomed(b)'
    BY <1>1, <2>1, <2>2, DoomedKept DEF Same
  <2>4. ASSUME NEW b \in Elems(inflight), e.kind = "error", e.frame = Burst[b].last
        PROVE  Doomed(b)'
    <3>1. PICK k \in DOMAIN inflight : inflight[k] = b
      BY DEF Elems
    <3>2. e.frame \in Frames(inflight[k])
      BY <1>1, <1>2, <2>4, <3>1
    <3>3. left'[t] = k
      BY <2>1, <3>2, OnePlace
    <3>4. QED
      BY <1>1, <2>1, <2>4, <3>1, <3>3 DEF Doomed
  <2>5. ASSUME NEW b \in Elems(inflight) \ early, NEW c \in BatchedClass
        PROVE  Completed(b, c)'
    <3>1. \/ Coming(<<c, Burst[b].last>>)' <=> Coming(<<c, Burst[b].last>>)
          \/ e.kind = "error" /\ Burst[b].last = e.frame
      BY <1>1, <1>2, <1>3, <1>7, ComingReported
    <3>2. CASE Coming(<<c, Burst[b].last>>)' <=> Coming(<<c, Burst[b].last>>)
      BY <1>4, <2>1, <2>3, <3>2
    <3>3. CASE e.kind = "error" /\ Burst[b].last = e.frame
      BY <2>4, <3>3 DEF Completed
    <3>4. QED
      BY <3>1, <3>2, <3>3
  <2>6. QED
    BY <1>0, <2>1, <2>5 DEF Completes
<1>8. ASSUME NEW t \in Thread, LockBatch(t)
      PROVE  Completes'
  <2>1. /\ UNCHANGED <<inflight, ev, left>>
        /\ \A a \in Batch \ {at[t]} : delivered'[a] = delivered[a]
        /\ removed[at[t]] => delivered'[at[t]] = delivered[at[t]]
    BY <1>1, <1>8, LockBatchEffect
  <2>2. \A b : Doomed(b)' <=> Doomed(b)
    BY <2>1 DEF Doomed
  <2>3. ASSUME NEW b \in Elems(inflight) \ early, NEW c \in BatchedClass, b # at[t] \/ removed[at[t]]
        PROVE  Completed(b, c)'
    <3>1. Coming(<<c, Burst[b].last>>)' <=> Coming(<<c, Burst[b].last>>)
      BY <1>1, <1>2, <1>3, <1>8, <2>3, OtherFrames
    <3>2. delivered'[b] = delivered[b]
      BY <1>1, <2>1, <2>3
    <3>3. QED
      BY <1>4, <2>2, <3>1, <3>2
  <2>4. ASSUME NEW b \in Elems(inflight) \ early, NEW c \in BatchedClass, b = at[t], ~removed[b]
        PROVE  Completed(b, c)'
    <3> DEFINE last == Burst[b].last
    <3>1. /\ ev[t].items \subseteq Class \X {ev[t].frame}
          /\ delivered'[b] = delivered[b] \cup Ended(b, ev[t])
      BY <1>8, <2>4, Queued DEF Piecemeal
    <3>2. /\ Coming(<<c, last>>)' <=> Coming(<<c, last>>) /\ <<c, last>> \notin ev[t].items
      BY <1>1, <1>2, <1>3, <1>8, ComingQueued
    <3>3. <<c, last>> \in ev[t].items => c \in Ended(b, ev[t])
      <4>1. c \in UpTo(c)
        BY <1>3, UpToClosed
      <4>2. <<c, last>> \in ev[t].items => last = ev[t].frame
        BY <3>1
      <4>3. QED
        BY <4>1, <4>2 DEF Ended
    <3> HIDE DEF last
    <3>4. QED
      BY <1>4, <2>2, <3>1, <3>2, <3>3 DEF last
  <2>5. QED
    BY <1>0, <2>1, <2>3, <2>4 DEF Completes
<1>9. ASSUME inflight # <<>>, inflight' = Tail(inflight),
             UNCHANGED pending, \A a \in Elems(inflight') : delivered'[a] = delivered[a],
             \A t \in Thread : pc[t] = "queue" => pc'[t] = "queue" /\ ev'[t] = ev[t],
             \A t \in Thread : pc'[t] = "queue" => pc[t] = "queue" /\ ev'[t] = ev[t],
             \A t \in Thread : \/ ev[t].kind # "error"
                               \/ ev'[t] = ev[t] /\ (left'[t] = left[t] \/ left'[t] = left[t] - 1)
      PROVE  Completes'
  <2>1. Elems(inflight') \subseteq Elems(inflight)
    BY <1>9, HeadLeaves
  <2>2. \A i : Coming(i)' <=> Coming(i)
    BY <1>9, ComingKept
  <2>3. \A b \in Elems(inflight') : Doomed(b) => Doomed(b)'
    BY <1>9, DoomedShortened
  <2>4. QED
    BY <1>0, <1>4, <1>9, <2>1, <2>2, <2>3 DEF Completes
<1>10. ASSUME NEW t \in Thread, FlushFirstBatch(t)
       PROVE  Completes'
  <2>1. PICK h : h = Head(inflight)
    OBVIOUS
  <2>2. /\ pc[t] = "flush" /\ pc'[t] = "calling" /\ inflight # <<>> /\ inflight' = Tail(inflight)
        /\ left'[t] = left[t] - 1 /\ ev'[t] = ev[t] /\ \A u \in Thread \ {t} : Same(u)
        /\ \A a \in Batch \ {h} : delivered'[a] = delivered[a]
        /\ UNCHANGED pending /\ h \in Batch
    BY <1>1, <1>10, <2>1, FlushFirstBatchEffect
  <2>3. \A a \in Elems(inflight') : a \in Batch /\ h < a
    BY <2>1, <2>2, HeadLeaves
  <2>4. \A a \in Elems(inflight') : delivered'[a] = delivered[a]
    <3>1. h \in Nat /\ \A a \in Batch : a \in Nat
      BY <1>1, <2>2
    <3>2. \A a \in Elems(inflight') : a \in Batch \ {h}
      BY <2>3, <3>1
    <3>3. QED
      BY <2>2, <3>2
  <2>5. QED
    BY <1>9, <2>2, <2>4 DEF Same
<1>11. ASSUME inflight' = inflight, UNCHANGED <<pending, delivered>>,
             \A t \in Thread : pc[t] = "queue" => pc'[t] = "queue" /\ ev'[t] = ev[t],
             \A t \in Thread : pc'[t] = "queue" => pc[t] = "queue" /\ ev'[t] = ev[t],
             \A t \in Thread : ev[t].kind # "error" \/ left[t] = 0 \/ (ev'[t] = ev[t] /\ left'[t] = left[t])
       PROVE  Completes'
  <2>1. \A i : Coming(i)' <=> Coming(i)
    BY <1>11, ComingKept
  <2>2. \A b : Doomed(b) => Doomed(b)'
    BY <1>1, <1>11, DoomedKept
  <2>3. QED
    BY <1>0, <1>4, <1>11, <2>1, <2>2 DEF Completes
<1>12. ASSUME NEW t \in Thread, RemoveFirstBatch(t)
       PROVE  Completes'
  <2>1. /\ pc[t] = "remove" /\ Returned(t) /\ (\A v \in Thread \ {t} : Same(v))
        /\ UNCHANGED <<pending, delivered>>
        /\ inflight' = inflight \/ (inflight # <<>> /\ inflight' = Tail(inflight))
    BY <1>1, <1>12, RemoveFirstBatchEffect
  <2>2. ev[t].kind # "error"
    BY <2>1 DEF Ordered, Phase
  <2>3. CASE inflight' = inflight
    BY <1>11, <2>1, <2>2, <2>3 DEF Same, Returned
  <2>4. CASE inflight # <<>> /\ inflight' = Tail(inflight)
    BY <1>9, <2>1, <2>2, <2>4 DEF Same, Returned
  <2>5. QED
    BY <2>1, <2>3, <2>4
<1>13. CASE Quiet
  <2>1. \A t \in Thread : ev[t].kind # "error" \/ left[t] = 0 \/ (ev'[t] = ev[t] /\ left'[t] = left[t])
    <3>1. SUFFICES ASSUME NEW t \in Thread
                   PROVE  ev[t].kind # "error" \/ left[t] = 0 \/ (ev'[t] = ev[t] /\ left'[t] = left[t])
      OBVIOUS
    <3>2. Quietly(t) /\ Phase(t) /\ NotBatched \notin Batch
      BY <1>13, Bursts DEF Quiet, Ordered, NotBatched
    <3>3. CASE Leaves(t)
      BY <3>2, <3>3 DEF Leaves, Phase
    <3>4. CASE ~Leaves(t)
      BY <3>2, <3>4 DEF Quietly, Same, Calls, Proceeds, SendsError
    <3>5. QED
      BY <3>3, <3>4
  <2>2. QED
    BY <1>11, <1>13, <2>1, QuietEvents DEF Quiet
<1>14. QED
  BY <1>5, <1>6, <1>7, <1>8, <1>10, <1>12, <1>13, StepKinds

(* In the end, what is left in the deque is complete.                       *)
LEMMA LeftIsComplete ==
  ASSUME Ordered, Completes, Quiescent
  PROVE  \A b \in Elems(inflight) \ early : AllDelivered(b)
<1>1. pending = {} /\ \A t \in Thread : pc[t] = "idle" /\ ev[t] = NoEvent
  BY DEF Quiescent, Ordered, Phase
<1>2. \A b : ~Doomed(b)
  BY <1>1 DEF Doomed, NoEvent
<1>3. \A i : ~Coming(i)
  BY <1>1 DEF Coming
<1>4. QED
  BY <1>2, <1>3 DEF Completes, Completed, AllDelivered

(* When all is over everything the HAL owed was sent, whatever errors and   *)
(* removals there were: nothing is held back in a batch, other than in one  *)
(* that the HAL reported on before it was registered.                       *)
THEOREM EverythingIsSent == Spec => []NothingHeldBack
<1> DEFINE Inv == Ordered /\ Waits /\ HeldOwn /\ Completes /\ Ledger
<1>1. Init => Inv
  BY InitOrdered, InitWaits, InitHeldOwn, InitCompletes, InitLedger
<1>2. Inv /\ [Next]_vars => Inv'
  BY StepOrdered, StepWaits, StepHeldOwn, StepCompletes, NextLedger
<1>3. Inv => NothingHeldBack
  <2>1. SUFFICES ASSUME Ordered, HeldOwn, Completes, Ledger, Quiescent
                 PROVE  /\ \A i \in owed : FromEarly(i[2]) \/ \E d \in received \cup dropped : Of(d) = i
                        /\ \A k \in DOMAIN inflight : inflight[k] \in early \/ AllDelivered(inflight[k])
    BY DEF NothingHeldBack
  <2>2. \A b \in Elems(inflight) \ early : AllDelivered(b)
    BY <2>1, LeftIsComplete
  <2>3. pending = {} /\ \A t \in Thread : pc[t] = "idle" /\ todo[t] = <<>>
    BY <2>1 DEF Quiescent, Ordered, Phase
  <2>4. ASSUME NEW i \in owed, ~FromEarly(i[2])
        PROVE  \E d \in received \cup dropped : Of(d) = i
    <3>1. Places(i) # {}
      BY <2>1, <2>4 DEF Ledger, AccountedFor, Single
    <3>2. Entering(Thread, i) = {} /\ CalledBy(Thread, i) = {}
      BY <2>3 DEF Entering, CalledBy, CalledIn
    <3>3. HeldBy(Batch, i) = {}
      <4>1. SUFFICES ASSUME NEW b \in Batch, i[1] \in BatchedClass
                     PROVE  HeldIn(queue[b], b, i) = {}
        BY DEF HeldBy
      <4>2. CASE b \in early
        <5>1. i[2] \notin Frames(b)
          BY <2>4, <4>2 DEF FromEarly
        <5>2. QED
          BY <2>1, <4>1, <5>1 DEF HeldOwn, HeldIn
      <4>3. CASE b \in Elems(inflight) \ early
        <5>1. queue[b][i[1]] = <<>>
          BY <2>1, <2>2, <4>1, <4>3 DEF AllDelivered, Ordered, IInv, SentIsNotHeld, Sound, Held
        <5>2. QED
          BY <5>1 DEF HeldIn
      <4>4. CASE b \notin Elems(inflight)
        <5>1. queue[b][i[1]] = <<>>
          BY <2>1, <4>1, <4>4 DEF Ordered, Deque
        <5>2. QED
          BY <5>1 DEF HeldIn
      <4>5. QED
        BY <4>2, <4>3, <4>4
    <3>4. SentUp("received", received, i) \cup SentUp("dropped", dropped, i) # {}
      BY <2>3, <3>1, <3>2, <3>3 DEF Places
    <3>5. QED
      BY <3>4 DEF SentUp
  <2>5. \A k \in DOMAIN inflight : inflight[k] \in early \/ AllDelivered(inflight[k])
    BY <2>2 DEF Elems
  <2>6. QED
    BY <2>4, <2>5
<1>4. QED
  BY <1>1, <1>2, <1>3, PTL DEF Spec

-----------------------------------------------------------------------------
(* Parts of the metadata come after the earlier ones.                       *)
LEMMA UpToOrder ==
  ASSUME NEW c \in Class, NEW d \in Class, c \in UpTo(d)
  PROVE  UpTo(c) \subseteq UpTo(d) /\ (d \in UpTo(c) => d = c)
<1>1. CASE d \in PartialClass
  <2>1. c \in PartialClass /\ c[2] <= d[2]
    BY <1>1 DEF UpTo
  <2>2. PICK p \in 1 .. NumPartial : c = <<"partial", p>>
    BY <2>1 DEF PartialClass, Partial
  <2>3. PICK q \in 1 .. NumPartial : d = <<"partial", q>>
    BY <1>1 DEF PartialClass, Partial
  <2>4. p \in Nat /\ q \in Nat /\ p <= q
    BY <2>1, <2>2, <2>3, ConstantsAssumption
  <2>5. \A e \in PartialClass : e[2] \in Nat
    BY ConstantsAssumption DEF PartialClass, Partial
  <2>6. UpTo(c) \subseteq UpTo(d)
    BY <1>1, <2>1, <2>2, <2>3, <2>4, <2>5 DEF UpTo
  <2>7. d \in UpTo(c) => d = c
    BY <2>1, <2>2, <2>3, <2>4 DEF UpTo
  <2>8. QED
    BY <2>6, <2>7
<1>2. CASE d \notin PartialClass
  BY <1>2 DEF UpTo
<1>3. QED
  BY <1>1, <1>2

(* While there are no errors, a class that was sent is over: no item up to  *)
(* the last frame of the batch is with the HAL or being reported.           *)
NoErrors == errors = 0 => \A t \in Thread : ev[t].kind # "error"
(* No item of a class is to come up to the last frame of a batch.           *)
IsOver(b, c) ==
  <<c, Burst[b].last>> \notin pending /\ \A j \in Before(c, Burst[b].last) : ~Unreported(j)
(* That is so of each class that was sent.                                  *)
DeliveredIsOver == errors = 0 => \A b \in Batch : \A c \in delivered[b] : IsOver(b, c)

(* In the beginning nothing was sent.                                       *)
LEMMA InitOver == Init => NoErrors /\ DeliveredIsOver
BY DEF Init, NoErrors, DeliveredIsOver, NoEvent

(* Errors are counted.                                                      *)
LEMMA ErrorsCounted ==
  ASSUME IInv, [Next]_vars, errors' = 0
  PROVE  errors = 0 /\ \A t \in Thread : \A e \in Event : Reports(t, e) => e.kind # "error"
<1>1. errors \in Nat
  BY DEF IInv, TypeOK
<1>2. UNCHANGED errors \/ errors' = errors + 1
  BY ZenonT(60) DEF Next, Work, vars, halVars, Submit, SubmitFails, RegisterBatch, HalCall, NotifyShutter, NotifyError,
         ProcessCaptureResult, Step, LockBatch, LockForError, FlushFirstBatch, SendError, CallNotify,
         BeginResultCall, EndResultCall, TimeoutResultCall, Release, LockForCheck, RemoveFirstBatch,
         FlushNothing
<1>3. errors = 0
  BY <1>1, <1>2
<1>4. \A t \in Thread : \A e \in Event : Reports(t, e) /\ e.kind = "error" => errors' = errors + 1
  BY DEF Reports
<1>5. QED
  BY <1>3, <1>4

(* A thread has an error only after one was reported.                       *)
LEMMA StepNoErrors ==
  ASSUME Ordered, NoErrors, [Next]_vars
  PROVE  NoErrors'
<1>1. SUFFICES ASSUME errors' = 0, NEW t \in Thread
               PROVE  ev'[t].kind # "error"
  BY DEF NoErrors
<1>2. /\ errors = 0 /\ IInv /\ \A u \in Thread : \A e \in Event : Reports(u, e) => e.kind # "error"
  BY <1>1, ErrorsCounted DEF Ordered
<1>3. ev[t].kind # "error" /\ NoEvent.kind # "error"
  BY <1>2 DEF NoErrors, NoEvent
<1>4. CASE Submit \/ SubmitFails \/ RegisterBatch
  BY <1>3, <1>4 DEF Submit, SubmitFails, RegisterBatch, threadVars
<1>5. ASSUME NEW u \in Thread, NEW e \in Event, Reports(u, e)
      PROVE  ev'[t].kind # "error"
  BY <1>2, <1>3, <1>5, ReportsEffect DEF Same
<1>6. ASSUME NEW u \in Thread, LockBatch(u) \/ FlushFirstBatch(u) \/ RemoveFirstBatch(u)
      PROVE  ev'[t].kind # "error"
  BY <1>2, <1>3, <1>6, LockBatchEffect, FlushFirstBatchEffect, RemoveFirstBatchEffect DEF Same, Returned
<1>7. CASE Quiet
  BY <1>3, <1>7, QuietEvents
<1>8. QED
  BY <1>4, <1>5, <1>6, <1>7, StepKinds

(* The item that ends a class comes after the others of the class.          *)
LEMMA EndedIsOver ==
  ASSUME Ordered, NEW t \in Thread, NEW b \in Batch, NEW c \in Ended(b, ev[t])
  PROVE  IsOver(b, c)
<1> DEFINE last == Burst[b].last
<1>1. PICK d \in BatchedClass : <<d, last>> \in ev[t].items /\ c \in UpTo(d)
  BY DEF Ended
<1>2. c \in BatchedClass /\ c \in Class /\ d \in Class /\ last \in Frame /\ last \in Nat
  BY Classes, Bursts DEF Ended, Frame, Frames
<1>3. /\ <<d, last>> \notin pending /\ (\A u \in Thread : <<d, last>> \in ev[u].items => u = t)
      /\ \A j \in Before(d, last) : ~Unreported(j)
  <2> DEFINE i == <<d, last>>
  <2>1. i[1] = d /\ i[2] = last
    OBVIOUS
  <2>2. /\ i \notin pending
        /\ \A u \in Thread : i \in ev[u].items => u = t
        /\ \A j \in Before(i[1], i[2]) : j \notin pending /\ \A u \in Thread : j \notin ev[u].items
    BY <1>1, <1>2, <2>1 DEF Ordered, IInv, ReportedInOrder
  <2>3. QED
    BY <2>1, <2>2 DEF Unreported
<1>4. CASE c = d
  BY <1>3, <1>4 DEF IsOver
<1>5. CASE c # d
  <2>1. UpTo(c) \subseteq UpTo(d) /\ d \notin UpTo(c)
    BY <1>1, <1>2, <1>5, UpToOrder
  <2>2. <<c, last>> \in Before(d, last)
    BY <1>1, <1>2, <1>5 DEF Before
  <2>3. Before(c, last) \subseteq Before(d, last)
    <3>1. SUFFICES ASSUME NEW j \in Before(c, last)
                   PROVE  j \in Before(d, last)
      OBVIOUS
    <3>2. j \in UpTo(c) \X Frame /\ j[2] <= last
      BY DEF Before
    <3>3. j \in UpTo(d) \X Frame /\ j # <<d, last>>
      BY <2>1, <3>2
    <3>4. QED
      BY <3>2, <3>3 DEF Before
  <2>4. QED
    BY <1>3, <2>2, <2>3 DEF IsOver, Unreported
<1>6. QED
  BY <1>4, <1>5

(* Nothing is reported anew.                                                *)
LEMMA OverKept ==
  ASSUME NEW b, NEW c, IsOver(b, c), pending' \subseteq pending,
         \A t \in Thread : \A i \in ev'[t].items : Unreported(i)
  PROVE  IsOver(b, c)'
BY DEF IsOver, Unreported, Before

(* A class is sent when its last item was queued, and items do not come back. *)
LEMMA StepOver ==
  ASSUME Ordered, NoErrors, DeliveredIsOver, [Next]_vars
  PROVE  DeliveredIsOver'
<1>1. SUFFICES ASSUME errors' = 0
               PROVE  \A b \in Batch : \A c \in delivered'[b] : IsOver(b, c)'
  BY DEF DeliveredIsOver
<1>2. /\ errors = 0 /\ IInv /\ \A u \in Thread : \A e \in Event : Reports(u, e) => e.kind # "error"
  BY <1>1, ErrorsCounted DEF Ordered
<1>3. /\ \A t \in Thread : \A i \in ev[t].items : Unreported(i)
      /\ NoEvent.items = {}
  BY NoEventType DEF Unreported
<1>4. ASSUME delivered' = delivered, pending' \subseteq pending,
             \A t \in Thread : \A i \in ev'[t].items : Unreported(i)
      PROVE  \A b \in Batch : \A c \in delivered'[b] : IsOver(b, c)'
  BY <1>2, <1>4, OverKept DEF DeliveredIsOver
<1>5. CASE Submit
  <2>1. /\ burst \in Batch /\ nextFrame \in Nat /\ nextFrame >= Burst[burst].first
        /\ pending' = pending \cup (Class \X {nextFrame}) /\ UNCHANGED <<delivered, ev>>
        /\ \A b \in Batch : delivered[b] # {} => b < burst
    BY <1>2, <1>5 DEF Submit, IInv, SubmittedOnly, TypeOK, batchVars, threadVars
  <2>2. ASSUME NEW b \in Batch, NEW c \in delivered[b]
        PROVE  IsOver(b, c)'
    <3>1. b < burst /\ Burst[b].last < nextFrame
      BY <2>1, Bursts
    <3>2. Burst[b].last \in Nat
      BY Bursts
    <3>3. \A i \in pending' : i \in pending \/ i[2] = nextFrame
      BY <2>1
    <3>4. IsOver(b, c)
      BY <1>2 DEF DeliveredIsOver
    <3>5. \A j \in Before(c, Burst[b].last) : j[2] # nextFrame
      BY <2>1, <3>1, <3>2, Bursts DEF Before, Frame, Frames
    <3>6. QED
      BY <2>1, <3>1, <3>2, <3>3, <3>4, <3>5 DEF IsOver, Unreported, Before
  <2>3. QED
    BY <2>1, <2>2
<1>6. CASE SubmitFails \/ RegisterBatch
  BY <1>3, <1>4, <1>6 DEF SubmitFails, RegisterBatch, halVars, batchVars, threadVars
<1>7. ASSUME NEW t \in Thread, NEW e \in Event, Reports(t, e)
      PROVE  \A b \in Batch : \A c \in delivered'[b] : IsOver(b, c)'
  <2>1. /\ ev'[t] = e /\ (\A u \in Thread \ {t} : Same(u)) /\ UNCHANGED delivered
        /\ pending' \subseteq pending
    BY <1>2, <1>7, ReportsEffect
  <2>2. \A i \in e.items : i \in pending
    BY <1>2, <1>7 DEF Reports, MayReport
  <2>3. QED
    BY <1>3, <1>4, <2>1, <2>2 DEF Same, Unreported
<1>8. ASSUME NEW t \in Thread, LockBatch(t)
      PROVE  \A b \in Batch : \A c \in delivered'[b] : IsOver(b, c)'
  <2>1. /\ UNCHANGED <<pending, ev>>
        /\ \A a \in Batch \ {at[t]} : delivered'[a] = delivered[a]
        /\ removed[at[t]] => delivered'[at[t]] = delivered[at[t]]
    BY <1>2, <1>8, LockBatchEffect
  <2>2. ASSUME NEW b \in Batch, NEW c \in delivered'[b]
        PROVE  IsOver(b, c)
    <3>1. CASE c \in delivered[b]
      BY <1>2, <3>1 DEF DeliveredIsOver
    <3>2. CASE c \notin delivered[b]
      <4>1. b = at[t] /\ ~removed[b]
        BY <2>1, <2>2, <3>2
      <4>2. c \in Ended(b, ev[t])
        <5>1. delivered'[b] = delivered[b] \cup Ended(b, ev[t])
          BY <1>8, <4>1, Queued
        <5>2. QED
          BY <2>2, <3>2, <5>1
      <4>3. QED
        BY <4>2, EndedIsOver
    <3>3. QED
      BY <3>1, <3>2
  <2>3. QED
    BY <1>3, <2>1, <2>2, OverKept
<1>9. ASSUME NEW t \in Thread, FlushFirstBatch(t)
      PROVE  FALSE
  <2>1. pc[t] = "flush"
    BY <1>2, <1>9, FlushFirstBatchEffect
  <2>2. QED
    BY <1>2, <2>1 DEF Ordered, Phase, NoErrors
<1>10. ASSUME NEW t \in Thread, RemoveFirstBatch(t)
       PROVE  \A b \in Batch : \A c \in delivered'[b] : IsOver(b, c)'
  BY <1>2, <1>3, <1>4, <1>10, RemoveFirstBatchEffect DEF Same, Returned
<1>11. CASE Quiet
  BY <1>3, <1>4, <1>11, QuietEvents DEF Quiet
<1>12. QED
  BY <1>5, <1>6, <1>7, <1>8, <1>9, <1>10, <1>11, StepKinds

-----------------------------------------------------------------------------
(* While there are no errors, the thread that completed a batch in the      *)
(* deque has not yet checked the first one.                                 *)
Checking(t, b) ==
  /\ at[t] = b /\ pc[t] \in {"calling", "check", "remove"}
  /\ \E c \in BatchedClass : <<c, Burst[b].last>> \in ev[t].items
(* An earlier batch that is not complete keeps it from the head: one that   *)
(* the HAL reported on before it was registered.                            *)
Blocked(b) == \E a \in early \cap Elems(inflight) : a < b /\ ~AllDelivered(a)
(* Every complete batch in the deque has a thread to check it, or is kept.  *)
Checked ==
  errors = 0 => \A b \in Elems(inflight) : AllDelivered(b) =>
    (\E t \in Thread : Checking(t, b)) \/ Blocked(b)

(* In the beginning the deque is empty.                                     *)
LEMMA InitChecked == Init => Checked
BY DEF Init, Checked, Elems

(* Every class of a batch that is not complete is waited for: no later     *)
(* batch is complete.                                                       *)
LEMMA FirstComesFirst ==
  ASSUME Ordered, NoErrors, DeliveredIsOver, errors = 0,
         NEW a \in Batch, NEW b \in Batch, a < b, AllDelivered(b), NEW c \in BatchedClass
  PROVE  ~Coming(<<c, Burst[a].last>>) /\ \A t \in Thread : <<c, Burst[a].last>> \notin ev[t].items
<1>1. c \in delivered[b]
  BY DEF AllDelivered
<1>2. IsOver(b, c)
  BY <1>1 DEF DeliveredIsOver
<1>3. <<c, Burst[a].last>> \in Before(c, Burst[b].last)
  <2>1. c \in UpTo(c)
    BY Classes, UpToClosed
  <2>2. Burst[a].last \in Frame
    BY Bursts DEF Frame, Frames
  <2>3. Burst[a].last < Burst[b].last
    BY Bursts
  <2>4. Burst[a].last \in Nat /\ Burst[b].last \in Nat
    BY Bursts
  <2>5. QED
    BY <2>1, <2>2, <2>3, <2>4 DEF Before
<1>4. ~Unreported(<<c, Burst[a].last>>)
  BY <1>2, <1>3 DEF IsOver
<1>5. QED
  BY <1>4 DEF Unreported, Coming

(* What keeps a complete batch from the head of the deque stays there.      *)
LEMMA BlockedKept ==
  ASSUME Ordered, NoErrors, DeliveredIsOver, errors = 0, [Next]_vars,
         NEW b \in Batch, AllDelivered(b), Blocked(b)
  PROVE  Blocked(b)'
<1>1. /\ IInv /\ Deque /\ (\A u \in Thread : ev[u].kind # "error") /\ early \subseteq early'
      /\ inflight \in Seq(Batch) /\ \A u \in Thread : Phase(u)
  BY EarlyGrows DEF Ordered, NoErrors, IInv, TypeOK
<1>2. PICK a \in early \cap Elems(inflight) : a < b /\ ~AllDelivered(a)
  BY DEF Blocked
<1>3. a \in Batch
  BY <1>1 DEF Elems
<1>4. \A c \in BatchedClass : \A t \in Thread : <<c, Burst[a].last>> \notin ev[t].items
  BY <1>2, <1>3, FirstComesFirst
<1>5. ASSUME delivered'[a] = delivered[a], a \in Elems(inflight')
      PROVE  Blocked(b)'
  BY <1>1, <1>2, <1>5 DEF Blocked, AllDelivered
<1>6. CASE Submit \/ SubmitFails \/ RegisterBatch
  <2>1. /\ UNCHANGED delivered
        /\ inflight' = inflight \/ (inflight' = Append(inflight, burst) /\ burst \in Batch)
    BY <1>6 DEF Submit, SubmitFails, RegisterBatch, batchVars
  <2>2. CASE inflight' = Append(inflight, burst) /\ burst \in Batch
    <3>1. Elems(Append(inflight, burst)) = Elems(inflight) \cup {burst}
      BY <1>1, <2>2, DequeAppend
    <3>2. a \in Elems(inflight')
      BY <1>2, <2>2, <3>1
    <3>3. QED
      BY <1>5, <2>1, <3>2
  <2>3. QED
    BY <1>2, <1>5, <2>1, <2>2
<1>7. ASSUME NEW t \in Thread, NEW e \in Event, Reports(t, e)
      PROVE  Blocked(b)'
  BY <1>1, <1>2, <1>5, <1>7, ReportsEffect
<1>8. ASSUME NEW t \in Thread, LockBatch(t)
      PROVE  Blocked(b)'
  <2>1. PICK x : x = at[t]
    OBVIOUS
  <2>2. /\ UNCHANGED inflight
        /\ a # x \/ removed[x] => delivered'[a] = delivered[a]
    BY <1>1, <1>3, <1>8, <2>1, LockBatchEffect
  <2>3. CASE a = x /\ ~removed[x]
    <3>1. delivered'[a] = delivered[a] \cup Ended(a, ev[t])
      BY <1>8, <2>1, <2>3, Queued
    <3>2. Ended(a, ev[t]) = {}
      BY <1>4 DEF Ended
    <3>3. delivered'[a] = delivered[a]
      BY <3>1, <3>2
    <3>4. QED
      BY <1>2, <1>5, <2>2, <3>3
  <2>4. QED
    BY <1>2, <1>5, <2>2, <2>3
<1>9. ASSUME NEW t \in Thread, FlushFirstBatch(t)
      PROVE  FALSE
  <2>1. pc[t] = "flush"
    BY <1>1, <1>9, FlushFirstBatchEffect
  <2>2. QED
    BY <1>1, <2>1 DEF Phase
<1>10. ASSUME NEW t \in Thread, RemoveFirstBatch(t)
       PROVE  Blocked(b)'
  <2>1. PICK h : h = Head(inflight)
    OBVIOUS
  <2>2. /\ UNCHANGED delivered
        /\ \/ UNCHANGED inflight
           \/ inflight # <<>> /\ inflight' = Tail(inflight) /\ AllDelivered(h)
    BY <1>1, <1>10, <2>1, RemoveFirstBatchEffect
  <2>3. CASE inflight # <<>> /\ inflight' = Tail(inflight) /\ AllDelivered(h)
    <3>1. Elems(inflight) = {h} \cup Elems(inflight')
      BY <2>1, <2>3, HeadLeaves
    <3>2. a # h
      BY <1>2, <2>3
    <3>3. QED
      BY <1>2, <1>5, <2>2, <3>1, <3>2
  <2>4. QED
    BY <1>2, <1>5, <2>2, <2>3
<1>11. CASE Quiet
  BY <1>2, <1>5, <1>11 DEF Quiet
<1>12. QED
  BY <1>6, <1>7, <1>8, <1>9, <1>10, <1>11, StepKinds

(* The thread that completes a batch checks, and finds it first.            *)
LEMMA StepChecked ==
  ASSUME Ordered, Completes, NoErrors, DeliveredIsOver, Checked, [Next]_vars
  PROVE  Checked'
<1>1. SUFFICES ASSUME errors' = 0, NEW b \in Elems(inflight'), AllDelivered(b)', ~Blocked(b)'
               PROVE  \E t \in Thread : Checking(t, b)'
  BY DEF Checked
<1>2. /\ errors = 0 /\ IInv /\ (\A u \in Thread : ev[u].kind # "error")
      /\ inflight \in Seq(Batch) /\ Elems(inflight) \subseteq Batch /\ Batch \subseteq Nat
      /\ NotBatched \notin Batch
  <2>1. errors = 0 /\ IInv
    BY <1>1, ErrorsCounted DEF Ordered
  <2>2. inflight \in Seq(Batch)
    BY <2>1 DEF IInv, TypeOK
  <2>3. QED
    BY <2>1, <2>2, Bursts DEF NoErrors, Elems, NotBatched
<1>3. ASSUME NEW t \in Thread, Checking(t, b), ev'[t] = ev[t], at'[t] = at[t],
             pc'[t] \in {"calling", "check", "remove"}
      PROVE  \E u \in Thread : Checking(u, b)'
  BY <1>3 DEF Checking
<1>4. ASSUME b \in Elems(inflight), AllDelivered(b)
      PROVE  \E t \in Thread : Checking(t, b)
  <2>1. ~Blocked(b)
    BY <1>1, <1>2, <1>4, BlockedKept
  <2>2. QED
    BY <1>2, <1>4, <2>1 DEF Checked
<1>5. CASE Submit
  <2>1. UNCHANGED <<inflight, delivered, pc, ev, at>>
    BY <1>5 DEF Submit, batchVars, threadVars
  <2>2. PICK t \in Thread : Checking(t, b)
    BY <1>1, <1>4, <2>1 DEF AllDelivered
  <2>3. QED
    BY <2>1, <2>2 DEF Checking
<1>6. CASE SubmitFails \/ RegisterBatch
  <2>1. /\ UNCHANGED <<delivered, pc, ev, at>> /\ burst \in Batch
        /\ inflight' = inflight \/ inflight' = Append(inflight, burst)
    BY <1>6 DEF SubmitFails, RegisterBatch, batchVars, threadVars
  <2>6. delivered[burst] = {}
    <3>1. burst \in Nat /\ \A a \in Batch : delivered[a] # {} => a < burst
      BY <1>2 DEF IInv, SubmittedOnly, TypeOK
    <3>2. QED
      BY <2>1, <3>1
  <2>2. b \in Elems(inflight) \/ b = burst
    <3>1. CASE inflight' = Append(inflight, burst)
      <4>1. Elems(Append(inflight, burst)) = Elems(inflight) \cup {burst}
        BY <1>2, <2>1, DequeAppend
      <4>2. QED
        BY <1>1, <3>1, <4>1
    <3>2. QED
      BY <1>1, <2>1, <3>1
  <2>3. b # burst
    <3>1. Shutter \in delivered'[b]
      BY <1>1, Classes DEF AllDelivered
    <3>2. QED
      BY <2>1, <2>6, <3>1
  <2>4. PICK t \in Thread : Checking(t, b)
    BY <1>1, <1>4, <2>1, <2>2, <2>3 DEF AllDelivered
  <2>5. QED
    BY <2>1, <2>4 DEF Checking
<1>7. ASSUME NEW t \in Thread, NEW e \in Event, Reports(t, e)
      PROVE  \E u \in Thread : Checking(u, b)'
  <2>1. /\ pc[t] = "idle" /\ (\A u \in Thread \ {t} : Same(u)) /\ UNCHANGED <<inflight, delivered>>
    BY <1>2, <1>7, ReportsEffect
  <2>2. PICK u \in Thread : Checking(u, b)
    BY <1>1, <1>4, <2>1 DEF AllDelivered
  <2>3. u # t
    BY <2>1, <2>2 DEF Checking
  <2>4. QED
    BY <1>3, <2>1, <2>2, <2>3 DEF Same, Checking
<1>8. ASSUME NEW t \in Thread, LockBatch(t)
      PROVE  \E u \in Thread : Checking(u, b)'
  <2>1. /\ pc[t] = "queue" /\ pc'[t] = "calling" /\ (\A u \in Thread \ {t} : Same(u))
        /\ UNCHANGED <<inflight, ev, at>>
        /\ \A a \in Batch \ {at[t]} : delivered'[a] = delivered[a]
        /\ removed[at[t]] => delivered'[at[t]] = delivered[at[t]]
    BY <1>2, <1>8, LockBatchEffect
  <2>2. CASE AllDelivered(b)
    <3>1. PICK u \in Thread : Checking(u, b)
      BY <1>1, <1>4, <2>1, <2>2
    <3>2. u # t
      BY <2>1, <3>1 DEF Checking
    <3>3. QED
      BY <1>3, <2>1, <3>1, <3>2 DEF Same, Checking
  <2>3. CASE ~AllDelivered(b)
    <3>1. b \in Batch /\ delivered'[b] # delivered[b]
      BY <1>1, <1>2, <2>1, <2>3 DEF AllDelivered
    <3>2. b = at[t] /\ ~removed[b]
      BY <2>1, <3>1
    <3>3. delivered'[b] = delivered[b] \cup Ended(b, ev[t])
      BY <1>8, <3>2, Queued
    <3>4. PICK c : c \in Ended(b, ev[t])
      BY <3>1, <3>3
    <3>5. \E d \in BatchedClass : <<d, Burst[b].last>> \in ev[t].items
      BY <3>4 DEF Ended
    <3>6. QED
      BY <2>1, <3>2, <3>5 DEF Checking
  <2>4. QED
    BY <2>2, <2>3
<1>9. ASSUME NEW t \in Thread, FlushFirstBatch(t)
      PROVE  FALSE
  <2>1. pc[t] = "flush"
    BY <1>2, <1>9, FlushFirstBatchEffect
  <2>2. QED
    BY <1>2, <2>1 DEF Ordered, Phase
<1>10. ASSUME NEW t \in Thread, RemoveFirstBatch(t)
       PROVE  \E u \in Thread : Checking(u, b)'
  <2>1. /\ Returned(t) /\ (\A u \in Thread \ {t} : Same(u)) /\ UNCHANGED delivered
        /\ \/ inflight' = inflight /\ (inflight # <<>> => ~AllDelivered(Head(inflight)))
           \/ inflight # <<>> /\ inflight' = Tail(inflight) /\ AllDelivered(Head(inflight))
    BY <1>2, <1>10, RemoveFirstBatchEffect
  <2>2. b \in Elems(inflight) /\ AllDelivered(b) /\ b \in Batch /\ inflight # <<>>
    <3>1. b \in Elems(inflight)
      BY <1>1, <2>1, HeadLeaves
    <3>2. QED
      BY <1>1, <1>2, <2>1, <3>1 DEF AllDelivered, Elems
  <2>3. PICK u \in Thread : Checking(u, b)
    BY <1>4, <2>2
  <2>4. CASE u # t
    BY <1>3, <2>1, <2>3, <2>4 DEF Same, Checking
  <2>5. CASE u = t
    <3>1. PICK h : h = Head(inflight)
      OBVIOUS
    <3>2. h \in Batch /\ h \in Elems(inflight) /\ 1 \in DOMAIN inflight /\ inflight[1] = h
      BY <1>2, <2>2, <3>1, DequeTail
    <3>3. CASE inflight' = inflight /\ ~AllDelivered(h)
      <4>1. h < b
        <5>1. PICK k \in DOMAIN inflight : inflight[k] = b
          BY <2>2 DEF Elems
        <5>2. k \in Nat \ {0} /\ k # 1
          BY <1>2, <2>2, <3>2, <3>3, <5>1
        <5>3. QED
          BY <3>2, <5>1, <5>2 DEF Ordered, Deque
      <4>2. PICK c \in BatchedClass : c \notin delivered[h]
        BY <3>3 DEF AllDelivered
      <4>3. ~Doomed(h) /\ h \notin early
        <5>1. h \in early => Blocked(b)'
          <6>1. early \subseteq early' /\ ~AllDelivered(h)'
            BY <2>1, <3>3, EarlyGrows DEF AllDelivered
          <6>2. QED
            BY <3>2, <3>3, <4>1, <6>1 DEF Blocked
        <5>2. QED
          BY <1>1, <1>2, <5>1 DEF Doomed
      <4>4. Coming(<<c, Burst[h].last>>)
        BY <3>2, <4>2, <4>3 DEF Completes, Completed
      <4>5. QED
        BY <1>2, <2>2, <3>2, <4>1, <4>4, FirstComesFirst
    <3>4. CASE inflight' = Tail(inflight) /\ AllDelivered(h)
      <4>1. h < b
        BY <1>1, <2>2, <3>1, <3>4, HeadLeaves
      <4>5. ~Blocked(h)
        <5>1. \A a \in Elems(inflight) : ~(a < h)
          <6>1. \A a \in Elems(inflight) : a = h \/ h < a
            BY <2>2, <3>1, <3>4, HeadLeaves
          <6>2. h \in Nat /\ \A a \in Elems(inflight) : a \in Nat
            BY <1>2, <3>2
          <6>3. QED
            BY <6>1, <6>2
        <5>2. QED
          BY <5>1 DEF Blocked
      <4>2. PICK v \in Thread : Checking(v, h)
        BY <1>2, <3>2, <3>4, <4>5 DEF Checked
      <4>3. PICK c \in BatchedClass : <<c, Burst[h].last>> \in ev[v].items
        BY <4>2 DEF Checking
      <4>4. QED
        BY <1>2, <2>2, <3>2, <4>1, <4>3, FirstComesFirst
    <3>5. QED
      BY <2>1, <2>2, <3>1, <3>3, <3>4
  <2>6. QED
    BY <2>4, <2>5
<1>11. CASE Quiet
  <2>1. UNCHANGED <<inflight, delivered>>
    BY <1>11 DEF Quiet
  <2>2. PICK t \in Thread : Checking(t, b)
    BY <1>1, <1>4, <2>1 DEF AllDelivered
  <2>3. /\ Quietly(t) /\ ev[t].kind # "error" /\ at[t] = b /\ b \in Batch /\ ~removed[b]
        /\ ev[t].items \subseteq Class \X {ev[t].frame}
    <3>1. ~removed[b]
      <4>1. PICK k \in DOMAIN inflight : inflight[k] = b
        BY <1>1, <2>1 DEF Elems
      <4>2. b \in Batch /\ b \in Nat
        BY <1>1, <1>2, <2>1
      <4>3. removed[b] => b < inflight[k]
        BY <4>2 DEF Ordered, Deque
      <4>4. QED
        BY <4>1, <4>2, <4>3
    <3>2. QED
      BY <1>1, <1>2, <1>11, <2>1, <2>2, <3>1 DEF Quiet, Checking, Ordered, Phase
  <2>4. ChecksFirstBatch(t)
    BY <2>2, <2>3 DEF ChecksFirstBatch, Checking
  <2>5. ~Leaves(t)
    BY <1>2, <2>3, <2>4 DEF Leaves
  <2>6. QED
    BY <1>3, <2>2, <2>3, <2>5 DEF Quietly, Same, Calls, Proceeds, SendsError, Checking
<1>12. QED
  BY <1>5, <1>6, <1>7, <1>8, <1>9, <1>10, <1>11, StepKinds

(* Without errors no batch is left behind: the thread that completes a      *)
(* batch finds it at the head of the deque, for the earlier ones completed  *)
(* before and were removed.  Only a batch that the HAL reported on before   *)
(* it was registered may stay at the head.                                  *)
THEOREM EveryBatchLeaves == Spec => []NoBatchLeft
<1> DEFINE Inv == Ordered /\ Waits /\ Completes /\ NoErrors /\ DeliveredIsOver /\ Checked
<1>1. Init => Inv
  BY InitOrdered, InitWaits, InitCompletes, InitOver, InitChecked
<1>2. Inv /\ [Next]_vars => Inv'
  BY StepOrdered, StepWaits, StepCompletes, StepNoErrors, StepOver, StepChecked
<1>3. Inv => NoBatchLeft
  <2>1. SUFFICES ASSUME Ordered, Completes, Checked, Quiescent, errors = 0, inflight # <<>>,
                        NEW h, h = Head(inflight), h \notin early
                 PROVE  FALSE
    BY DEF NoBatchLeft
  <2>2. inflight \in Seq(Batch) /\ Batch \subseteq Nat
    BY <2>1, Bursts DEF Ordered, IInv, TypeOK
  <2>3. h \in Batch /\ 1 \in DOMAIN inflight /\ inflight[1] = h
    BY <2>1, <2>2, DequeTail
  <2>4. h \in Elems(inflight)
    BY <2>3 DEF Elems
  <2>5. AllDelivered(h)
    BY <2>1, <2>4, LeftIsComplete
  <2>6. \A t \in Thread : pc[t] = "idle"
    BY <2>1 DEF Quiescent
  <2>7. \A t \in Thread : ~Checking(t, h)
    BY <2>6 DEF Checking
  <2>8. ~Blocked(h)
    <3>1. SUFFICES ASSUME NEW k \in DOMAIN inflight, inflight[k] < h
                   PROVE  FALSE
      BY DEF Blocked, Elems
    <3>6. k \in Nat \ {0} /\ inflight[k] \in Batch
      BY <2>2, <3>1
    <3>2. k \in Nat \ {0} /\ inflight[k] \in Nat /\ h \in Nat
      BY <2>2, <2>3, <3>6
    <3>3. CASE k = 1
      BY <2>3, <3>1, <3>2, <3>3
    <3>4. CASE 1 < k
      <4>1. inflight[1] < inflight[k]
        BY <2>1, <2>3, <3>4 DEF Ordered, Deque
      <4>2. QED
        BY <2>3, <3>1, <3>2, <4>1
    <3>5. QED
      BY <3>2, <3>3, <3>4
  <2>9. QED
    BY <2>1, <2>4, <2>5, <2>7, <2>8 DEF Checked
<1>4. QED
  BY <1>1, <1>2, <1>3, PTL DEF Spec

-----------------------------------------------------------------------------
(* What disturbs a session is not undone: while it is undisturbed, so it    *)
(* was before.                                                              *)
LEMMA UndisturbedBefore ==
  ASSUME Ordered, [Next]_vars, Undisturbed'
  PROVE  Undisturbed
<1>1. errors = 0
  BY ErrorsCounted DEF Ordered, Undisturbed
<1>2. dropped \subseteq dropped'
  <2>1. ASSUME NEW t \in Thread, HalCall(t)
        PROVE  UNCHANGED dropped
    BY ZenonT(60), <2>1 DEF HalCall, NotifyShutter, NotifyError, ProcessCaptureResult, Enter, outVars
  <2>2. ASSUME NEW t \in Thread, Step(t) \/ FlushNothing(t), ~TimeoutResultCall(t)
        PROVE  UNCHANGED dropped
    BY <2>2 DEF Step, LockBatch, LockForError, FlushFirstBatch, SendError, CallNotify, BeginResultCall,
                EndResultCall, Release, LockForCheck, RemoveFirstBatch, FlushNothing, outVars
  <2>3. ASSUME NEW t \in Thread, TimeoutResultCall(t)
        PROVE  dropped \subseteq dropped'
    BY <2>3 DEF TimeoutResultCall
  <2>4. Submit \/ SubmitFails \/ RegisterBatch \/ UNCHANGED vars => UNCHANGED dropped
    BY DEF Submit, SubmitFails, RegisterBatch, outVars, vars
  <2>5. QED
    BY <2>1, <2>2, <2>3, <2>4 DEF Next, Work
<1>3. early \subseteq early'
  BY EarlyGrows
<1>4. QED
  BY <1>1, <1>2, <1>3 DEF Undisturbed

(* What is left of the steps without errors.                                *)
LEMMA UndisturbedSteps ==
  ASSUME Ordered, NoErrors, Undisturbed, Undisturbed', [Next]_vars
  PROVE  /\ \A t \in Thread : ev[t].kind # "error"
         /\ \/ Submit \/ SubmitFails \/ RegisterBatch
            \/ \E t \in Thread : \E e \in Event : Reports(t, e) /\ e.kind # "error"
            \/ \E t \in Thread : LockBatch(t) \/ RemoveFirstBatch(t)
            \/ Quiet
<1>1. /\ \A t \in Thread : ev[t].kind # "error"
      /\ \A t \in Thread : \A e \in Event : Reports(t, e) => e.kind # "error"
  BY ErrorsCounted DEF Ordered, NoErrors, Undisturbed
<1>2. \A t \in Thread : ~FlushFirstBatch(t)
  BY <1>1, FlushFirstBatchEffect DEF Ordered, Phase
<1>3. QED
  BY <1>1, <1>2, StepKinds

(* Whoever makes a call goes on with the next one.                          *)
LEMMA QuietCalls ==
  ASSUME Ordered, NoErrors, Undisturbed, Quiet, NEW t \in Thread
  PROVE  \/ todo'[t] = <<>>
         \/ /\ ev'[t] = ev[t] /\ at'[t] = at[t]
            /\ todo'[t] = todo[t] \/ (todo[t] # <<>> /\ todo'[t] = Tail(todo[t]))
<1>1. Quietly(t) /\ ev[t].kind # "error"
  BY DEF Quiet, NoErrors, Undisturbed
<1>2. QED
  BY <1>1 DEF Quietly, Same, Calls, Proceeds, Leaves, SendsError

(* A thread that makes calls holds the lock of its batch, which nobody      *)
(* removes meanwhile.                                                       *)
LEMMA CallersBatchStays ==
  ASSUME Ordered, NEW t \in Thread, RemoveFirstBatch(t), NEW u \in Thread, todo[u] # <<>>,
         at[u] \in Elems(inflight)
  PROVE  at[u] \in Elems(inflight') /\ u # t
<1>1. pc[u] = "calling" /\ pc[t] = "remove" /\ at[u] \in Batch /\ at[u] # NotBatched
  <2>1. pc[u] = "calling" /\ pc[t] = "remove"
    BY RemoveFirstBatchEffect DEF Ordered, Phase
  <2>2. inflight \in Seq(Batch)
    BY DEF Ordered, IInv, TypeOK
  <2>3. at[u] \in Batch
    BY <2>2 DEF Elems
  <2>4. QED
    BY <2>1, <2>3, Bursts DEF NotBatched
<1>2. bLock[at[u]] = u /\ u # NoThread
  BY <1>1, ConstantsAssumption DEF Ordered, Phase
<1>3. PICK h : h = Head(inflight)
  OBVIOUS
<1>4. \/ UNCHANGED inflight
      \/ inflight # <<>> /\ inflight' = Tail(inflight) /\ bLock[h] = NoThread
  BY <1>3, RemoveFirstBatchEffect DEF Ordered
<1>5. CASE UNCHANGED inflight
  BY <1>1, <1>5
<1>6. CASE inflight # <<>> /\ inflight' = Tail(inflight) /\ bLock[h] = NoThread
  <2>1. Elems(inflight) = {h} \cup Elems(inflight')
    BY <1>3, <1>6, HeadLeaves
  <2>2. QED
    BY <1>1, <1>2, <1>6, <2>1
<1>7. QED
  BY <1>4, <1>5, <1>6

(* A batch changes only in the hands of a thread that queues in it.         *)
LEMMA BatchSteps ==
  ASSUME Ordered, Waits, NoErrors, Undisturbed, Undisturbed', [Next]_vars, NEW b \in Batch
  PROVE  \/ queue'[b] = queue[b] /\ delivered'[b] = delivered[b]
         \/ \E t \in Thread : LockBatch(t) /\ at[t] = b /\ ~removed[b]
<1>1. CASE Submit
  BY <1>1 DEF Submit, batchVars
<1>2. CASE SubmitFails \/ RegisterBatch
  BY <1>2, RegisteredIsNew
<1>3. ASSUME NEW t \in Thread, NEW e \in Event, Reports(t, e)
      PROVE  UNCHANGED <<queue, delivered>>
  BY <1>3, ReportsEffect DEF Ordered
<1>4. ASSUME NEW t \in Thread, LockBatch(t)
      PROVE  \/ queue'[b] = queue[b] /\ delivered'[b] = delivered[b]
             \/ at[t] = b /\ ~removed[b]
  BY <1>4, LockBatchEffect DEF Ordered
<1>5. ASSUME NEW t \in Thread, RemoveFirstBatch(t)
      PROVE  UNCHANGED <<queue, delivered>>
  BY <1>5, RemoveFirstBatchEffect DEF Ordered
<1>6. CASE Quiet
  BY <1>6 DEF Quiet
<1>7. QED
  BY <1>1, <1>2, <1>3, <1>4, <1>5, <1>6, UndisturbedSteps

(* A batch sends the parts of the metadata with the earlier ones, and the   *)
(* HAL reports on requests only.                                            *)
Closed == \A b \in Batch : \A c \in delivered[b] : UpTo(c) \subseteq delivered[b]
(* What a thread reports is of a request.                                   *)
InFrames == \A t \in Thread : \A i \in ev[t].items : i[2] \in Frame

(* In the beginning nothing is sent or reported.                            *)
LEMMA InitRegular == Init => Closed /\ InFrames
BY DEF Init, Closed, InFrames, NoEvent

(* These facts stay true.                                                   *)
LEMMA StepRegular ==
  ASSUME Ordered, Waits, NoErrors, Undisturbed, Undisturbed', Closed, InFrames, [Next]_vars
  PROVE  Closed' /\ InFrames'
<1>1. ASSUME NEW b \in Batch, NEW c \in delivered'[b]
      PROVE  UpTo(c) \subseteq delivered'[b]
  <2>1. CASE delivered'[b] = delivered[b]
    BY <1>1, <2>1 DEF Closed
  <2>2. ASSUME NEW t \in Thread, LockBatch(t), at[t] = b, ~removed[b]
        PROVE  UpTo(c) \subseteq delivered'[b]
    <3>1. delivered'[b] = delivered[b] \cup Ended(b, ev[t])
      BY <2>2, Queued
    <3>2. CASE c \in delivered[b]
      BY <3>1, <3>2 DEF Closed
    <3>3. CASE c \in Ended(b, ev[t])
      <4>1. PICK d \in BatchedClass : <<d, ev[t].frame>> \in ev[t].items /\ c \in UpTo(d)
        BY <3>3 DEF Ended
      <4>2. c \in BatchedClass /\ ev[t].frame = Burst[b].last
        BY <3>3 DEF Ended
      <4>3. UpTo(c) \subseteq UpTo(d) /\ UpTo(c) \subseteq BatchedClass
        BY <4>1, <4>2, Classes, UpToOrder, UpToClosed
      <4>4. UpTo(c) \subseteq Ended(b, ev[t])
        BY <4>1, <4>2, <4>3 DEF Ended
      <4>5. QED
        BY <3>1, <4>4
    <3>4. QED
      BY <1>1, <3>1, <3>2, <3>3
  <2>3. QED
    BY <2>1, <2>2, BatchSteps
<1>2. ASSUME NEW t \in Thread, NEW i \in ev'[t].items
      PROVE  i[2] \in Frame
  <2>1. NoEvent.items = {}
    BY NoEventType
  <2>2. CASE ev'[t] = ev[t] \/ ev'[t] = NoEvent
    BY <1>2, <2>1, <2>2 DEF InFrames
  <2>3. ASSUME NEW e \in Event, Reports(t, e), e.kind # "error"
        PROVE  i[2] \in Frame
    <3>1. ev'[t] = e /\ e.items \subseteq Class \X {e.frame} /\ e.frame \in Frame
      BY <2>3, ReportsEffect DEF Ordered, Reports, Piecemeal
    <3>2. QED
      BY <1>2, <3>1
  <2>4. CASE Submit \/ SubmitFails \/ RegisterBatch
    BY <2>2, <2>4 DEF Submit, SubmitFails, RegisterBatch, threadVars
  <2>5. ASSUME NEW u \in Thread, NEW e \in Event, Reports(u, e), e.kind # "error"
        PROVE  i[2] \in Frame
    <3>1. u = t \/ ev'[t] = ev[t]
      BY <2>5, ReportsEffect DEF Ordered, Same
    <3>2. QED
      BY <2>2, <2>3, <2>5, <3>1
  <2>6. ASSUME NEW u \in Thread, LockBatch(u) \/ RemoveFirstBatch(u)
        PROVE  ev'[t] = ev[t] \/ ev'[t] = NoEvent
    BY <2>6, LockBatchEffect, RemoveFirstBatchEffect DEF Ordered, Same, Returned
  <2>7. CASE Quiet
    BY <2>2, <2>7, QuietEvents
  <2>8. QED
    BY <2>2, <2>4, <2>5, <2>6, <2>7, UndisturbedSteps
<1>3. QED
  BY <1>1, <1>2 DEF Closed, InFrames

(* Nothing that was sent is to be sent again.                               *)
LEMMA DeliveredGrows ==
  ASSUME Ordered, Waits, NoErrors, Undisturbed, Undisturbed', [Next]_vars, NEW b \in Batch
  PROVE  delivered[b] \subseteq delivered'[b]
<1>1. ASSUME NEW t \in Thread, LockBatch(t), at[t] = b, ~removed[b]
      PROVE  delivered[b] \subseteq delivered'[b]
  <2>1. delivered'[b] = delivered[b] \cup Ended(b, ev[t])
    BY <1>1, Queued
  <2>2. QED
    BY <2>1
<1>2. QED
  BY <1>1, BatchSteps

(* A call is due to an item that its thread reports: the one it sends, or   *)
(* the last one of its class in a batch in the deque.                       *)
Due(t, d) ==
  \/ Of(d) \in ev[t].items
  \/ /\ at[t] \in Elems(inflight) /\ d[3] \in Frames(at[t]) /\ d[2] \in BatchedClass
     /\ <<d[2], Burst[at[t]].last>> \in ev[t].items
(* A call for a frame of a batch in the deque sends the class of this batch *)
(* for good.                                                                *)
ForGood(d) ==
  d[2] \in BatchedClass => \A b \in Elems(inflight) : d[3] \in Frames(b) => d[2] \in delivered[b]
(* So it is with every call, and what belongs together goes in one call.    *)
Told == \A t \in Thread : Families(todo[t]) /\ \A d \in Carries(todo[t]) : Due(t, d) /\ ForGood(d)

(* In the beginning there are no calls.                                     *)
LEMMA InitTold == Init => Told
BY NoCalls DEF Init, Told

(* A call that is still to be made is due to the same item as before.       *)
LEMMA DueKept ==
  ASSUME NEW t \in Thread, NEW d, Due(t, d), ev'[t] = ev[t], at'[t] = at[t],
         at[t] \in Elems(inflight) => at[t] \in Elems(inflight')
  PROVE  Due(t, d)'
BY DEF Due

(* Nor does its class come to an end in another batch.                      *)
LEMMA ForGoodKept ==
  ASSUME NEW d, ForGood(d), \A b \in Elems(inflight) : delivered[b] \subseteq delivered'[b],
         \A b \in Elems(inflight') \ Elems(inflight) : d[3] \notin Frames(b)
  PROVE  ForGood(d)'
BY DEF ForGood

(* What the batch of a thread sends is due to the item the thread queues: a *)
(* part of the metadata that goes with a later one was sent before.         *)
LEMMA ContentIsDue ==
  ASSUME Ordered, NoErrors, Undisturbed, Completes, HeldOwn,
         NEW t \in Thread, LockBatch(t), NEW b, b = at[t], ~removed[b],
         NEW d \in Content(Pushed(b, ev[t]), b, Ended(b, ev[t]))
  PROVE  /\ d[2] \in Ended(b, ev[t]) /\ d[3] \in Frames(b) /\ d[2] \in BatchedClass
         /\ <<d[2], Burst[b].last>> \in ev[t].items
<1>1. /\ b \in Batch /\ b \in Elems(inflight) /\ ev[t].frame \in Frames(b)
      /\ Pushed(b, ev[t]) \in [BatchedClass -> Seq(Nat)]
      /\ delivered'[b] = delivered[b] \cup Ended(b, ev[t])
  BY Queued
<1>2. Ended(b, ev[t]) \in SUBSET BatchedClass
  BY DEF Ended
<1>3. PICK c \in Ended(b, ev[t]) : \E k \in DOMAIN Pushed(b, ev[t])[c] :
         d = <<Number(b, c, k, Pushed(b, ev[t])[c][k]), c, Pushed(b, ev[t])[c][k]>>
  BY <1>1, <1>2, ContentOf
<1>4. PICK k \in DOMAIN Pushed(b, ev[t])[c] :
         d = <<Number(b, c, k, Pushed(b, ev[t])[c][k]), c, Pushed(b, ev[t])[c][k]>>
  BY <1>3
<1>5. c \in BatchedClass /\ d[2] = c /\ d[3] = Pushed(b, ev[t])[c][k]
  BY <1>2, <1>4
<1>6. d[3] \in Frames(b)
  BY <1>4, <1>5, PushedOwn
<1>7. PICK l : l = Burst[b].last
  OBVIOUS
<1>8. ev[t].frame = l
  BY <1>3, <1>7 DEF Ended
<1>9. PICK a \in BatchedClass : <<a, l>> \in ev[t].items /\ c \in UpTo(a)
  BY <1>3, <1>8 DEF Ended
<1>10. <<c, l>> \in ev[t].items
  <2>1. SUFFICES ASSUME <<c, l>> \notin ev[t].items
                 PROVE  FALSE
    OBVIOUS
  <2>2. c # a
    BY <1>9, <2>1
  <2>3. l \in Nat /\ l \in Frame /\ a \in Class /\ c \in Class
    BY SMTT(30), <1>1, <1>5, <1>7, <1>9, Bursts, Classes DEF Frame, Frames
  <2>4. PICK i : i = <<a, l>>
    OBVIOUS
  <2>5. i[1] \in Class /\ i[1] = a /\ i[2] = l /\ i \in ev[t].items
    BY <1>9, <2>3, <2>4
  <2>6. \A j \in Before(a, l) : j \notin pending /\ \A u \in Thread : j \notin ev[u].items
    BY <2>5 DEF Ordered, IInv, ReportedInOrder
  <2>7. <<c, l>> \in Before(a, l)
    BY <1>9, <2>2, <2>3 DEF Before
  <2>8. ~Coming(<<c, l>>) /\ ~Doomed(b)
    BY <2>6, <2>7 DEF Coming, Doomed, NoErrors, Undisturbed
  <2>9. c \in delivered[b]
    BY <1>1, <1>5, <1>7, <2>8 DEF Completes, Completed, Undisturbed
  <2>10. Held(b).queue[c] = <<>>
    BY <1>1, <2>9 DEF Ordered, IInv, SentIsNotHeld, Sound, Held
  <2>11. Pushed(b, ev[t])[c] = <<>>
    BY <1>5, <1>8, <2>1, <2>10 DEF Pushed, Held
  <2>12. QED
    BY <1>4, <2>11
<1>11. QED
  BY <1>3, <1>5, <1>6, <1>7, <1>10

(* So the calls that a thread makes up are told.                            *)
LEMMA QueuedTold ==
  ASSUME Ordered, NoErrors, Undisturbed, Completes, HeldOwn,
         NEW t \in Thread, LockBatch(t), ~removed[at[t]]
  PROVE  Families(todo'[t]) /\ \A d \in Carries(todo'[t]) : Due(t, d)' /\ ForGood(d)'
<1>1. PICK b : b = at[t]
  OBVIOUS
<1>2. /\ b \in Batch /\ b \in Elems(inflight) /\ Families(todo'[t])
      /\ delivered'[b] = delivered[b] \cup Ended(b, ev[t])
      /\ Carries(todo'[t]) = Plain(Unbatched(ev[t])) \cup Content(Pushed(b, ev[t]), b, Ended(b, ev[t]))
  BY <1>1, Queued
<1>3. UNCHANGED <<inflight, ev, at>>
  BY LockBatchEffect DEF Ordered
<1>4. ASSUME NEW d \in Plain(Unbatched(ev[t]))
      PROVE  Due(t, d)' /\ ForGood(d)'
  <2>1. PICK i \in ev[t].items : i[1] \notin BatchedClass /\ d = <<i[2], i[1], i[2]>>
    BY <1>4 DEF Plain, Unbatched
  <2>2. ev[t].items \subseteq Class \X {ev[t].frame}
    BY <1>1, Queued DEF Piecemeal
  <2>3. Of(d) = i /\ d[2] = i[1]
    BY <2>1, <2>2 DEF Of
  <2>4. QED
    BY <1>3, <2>1, <2>3 DEF Due, ForGood
<1>5. ASSUME NEW d \in Content(Pushed(b, ev[t]), b, Ended(b, ev[t]))
      PROVE  Due(t, d)' /\ ForGood(d)'
  <2>1. /\ d[2] \in Ended(b, ev[t]) /\ d[3] \in Frames(b) /\ d[2] \in BatchedClass
        /\ <<d[2], Burst[b].last>> \in ev[t].items
    BY <1>1, <1>2, <1>5, ContentIsDue
  <2>2. Due(t, d)'
    BY <1>1, <1>2, <1>3, <2>1 DEF Due
  <2>3. inflight \in Seq(Batch)
    BY DEF Ordered, IInv, TypeOK
  <2>4. Elems(inflight) \subseteq Batch
    BY <2>3 DEF Elems
  <2>5. \A a \in Elems(inflight) : d[3] \in Frames(a) => a = b
    BY <1>2, <2>1, <2>4, FramesDisjoint
  <2>6. d[2] \in delivered'[b]
    BY <1>2, <2>1
  <2>7. QED
    BY <1>3, <2>2, <2>5, <2>6 DEF ForGood
<1>6. QED
  BY <1>2, <1>4, <1>5

(* The calls after the first one are as far apart as they were.             *)
LEMMA TailFamilies ==
  ASSUME NEW calls \in Seq(Call), calls # <<>>, Families(calls)
  PROVE  Families(Tail(calls))
<1>1. SUFFICES ASSUME NEW k \in DOMAIN Tail(calls), NEW l \in DOMAIN Tail(calls),
                      NEW d \in Tail(calls)[k].items, NEW e \in Tail(calls)[l].items, d[2] \in UpTo(e[2])
               PROVE  k = l
  BY DEF Families
<1>2. /\ k \in Nat /\ l \in Nat /\ k + 1 \in DOMAIN calls /\ l + 1 \in DOMAIN calls
      /\ d \in calls[k + 1].items /\ e \in calls[l + 1].items
  BY <1>1, CallsTail
<1>3. k + 1 = l + 1
  BY <1>1, <1>2 DEF Families
<1>4. QED
  BY <1>2, <1>3

(* What goes up by itself is of no batch in the deque.                      *)
LEMMA SingleTold ==
  ASSUME NEW t \in Thread, NEW e, e.items \subseteq Class \X {e.frame},
         todo'[t] = SingleCall(e), ev'[t] = e,
         \A b \in Elems(inflight') : e.frame \notin Frames(b)
  PROVE  Families(todo'[t]) /\ \A d \in Carries(todo'[t]) : Due(t, d)' /\ ForGood(d)'
<1>1. Families(todo'[t]) /\ Carries(todo'[t]) = Plain(e.items)
  BY SingleCallCarries
<1>2. ASSUME NEW d \in Plain(e.items)
      PROVE  Due(t, d)' /\ ForGood(d)'
  <2>1. PICK i \in e.items : d = <<i[2], i[1], i[2]>>
    BY <1>2 DEF Plain
  <2>2. Of(d) = i /\ d[3] = e.frame
    BY <2>1 DEF Of
  <2>3. QED
    BY <2>1, <2>2 DEF Due, ForGood
<1>3. QED
  BY <1>1, <1>2

(* The calls a thread already had stay told, also when a burst is           *)
(* registered: the HAL has reported nothing on it.                          *)
LEMMA OldTold ==
  ASSUME Ordered, Waits, NoErrors, Undisturbed, Undisturbed', Told, [Next]_vars, NEW t \in Thread,
         todo'[t] = todo[t] \/ (todo[t] # <<>> /\ todo'[t] = Tail(todo[t])), todo[t] # <<>>,
         ev'[t] = ev[t], at'[t] = at[t],
         at[t] \in Elems(inflight) => at[t] \in Elems(inflight'),
         \A b \in Elems(inflight') \ Elems(inflight) :
            /\ b \in Batch /\ ev[t].frame \notin Frames(b)
  PROVE  Families(todo'[t]) /\ \A d \in Carries(todo'[t]) : Due(t, d)' /\ ForGood(d)'
<1>1. todo[t] \in Seq(Call) /\ inflight \in Seq(Batch)
  BY DEF Ordered, IInv, TypeOK
<1>2. Families(todo'[t]) /\ Carries(todo'[t]) \subseteq Carries(todo[t])
  BY <1>1, TailFamilies, CallsTail DEF Told
<1>3. Elems(inflight) \subseteq Batch
  BY <1>1 DEF Elems
<1>4. \A b \in Elems(inflight) : delivered[b] \subseteq delivered'[b]
  BY <1>3, DeliveredGrows
<1>5. ev[t].items \subseteq Class \X {ev[t].frame}
  BY DEF Ordered, Phase, NoErrors, Undisturbed
<1>6. ASSUME NEW d \in Carries(todo'[t])
      PROVE  Due(t, d)' /\ ForGood(d)'
  <2>1. Due(t, d) /\ ForGood(d)
    BY <1>2, <1>6 DEF Told
  <2>2. \A b \in Elems(inflight') \ Elems(inflight) : d[3] \notin Frames(b)
    <3>1. CASE Of(d) \in ev[t].items
      <4>1. d[3] = ev[t].frame
        BY <1>5, <3>1 DEF Of
      <4>2. QED
        BY <4>1
    <3>2. CASE at[t] \in Elems(inflight) /\ d[3] \in Frames(at[t])
      BY <1>3, <3>2, FramesDisjoint
    <3>3. QED
      BY <2>1, <3>1, <3>2 DEF Due
  <2>3. QED
    BY <1>4, <2>1, <2>2, DueKept, ForGoodKept
<1>7. QED
  BY <1>2, <1>6

(* Every call is told at any time.                                          *)
LEMMA StepTold ==
  ASSUME Ordered, Waits, Completes, NoErrors, Undisturbed, Undisturbed', HeldOwn, Told, [Next]_vars
  PROVE  Told'
<1>1. SUFFICES ASSUME NEW t \in Thread
               PROVE  Families(todo'[t]) /\ \A d \in Carries(todo'[t]) : Due(t, d)' /\ ForGood(d)'
  BY DEF Told
<1>2. inflight \in Seq(Batch) /\ IInv /\ Deque /\ Phase(t) /\ ev[t].kind # "error" /\ Batch \subseteq Nat
  BY Bursts DEF Ordered, IInv, TypeOK, NoErrors, Undisturbed
<1>3. Elems(inflight) \subseteq Batch
  BY <1>2 DEF Elems
<1>4. CASE todo'[t] = <<>>
  BY <1>4, NoCalls
<1>5. CASE /\ todo'[t] = todo[t] \/ (todo[t] # <<>> /\ todo'[t] = Tail(todo[t]))
           /\ ev'[t] = ev[t] /\ at'[t] = at[t] /\ inflight' = inflight
  BY <1>4, <1>5, OldTold
<1>6. CASE Submit
  BY <1>5, <1>6 DEF Submit, threadVars
<1>7. CASE SubmitFails \/ RegisterBatch
  <2>1. /\ UNCHANGED <<ev, at, todo>> /\ burst \in Batch
        /\ \/ inflight' = inflight
           \/ /\ Elems(inflight') = Elems(inflight) \cup {burst}
              /\ ev[t].frame < Burst[burst].first
    BY <1>7, RegisteredIsNew DEF Undisturbed
  <2>2. ev[t].frame \in Nat
    BY <1>2 DEF IInv, TypeOK, Event
  <2>3. ev[t].frame < Burst[burst].first => ev[t].frame \notin Frames(burst)
    BY <2>1, <2>2, Bursts DEF Frames
  <2>4. QED
    BY <1>4, <2>1, <2>3, OldTold
<1>8. ASSUME NEW u \in Thread, NEW e \in Event, Reports(u, e), e.kind # "error"
      PROVE  Families(todo'[t]) /\ \A d \in Carries(todo'[t]) : Due(t, d)' /\ ForGood(d)'
  <2>1. CASE u # t
    BY <1>2, <1>5, <1>8, <2>1, ReportsEffect DEF Same
  <2>2. CASE u = t
    <3>1. ev'[t] = e /\ inflight' = inflight /\ e.items \subseteq Class \X {e.frame}
      BY <1>2, <1>8, <2>2, ReportsEffect DEF Reports, Piecemeal
    <3>2. \/ todo'[t] = <<>>
          \/ todo'[t] = SingleCall(e) /\ \A k \in DOMAIN inflight : e.frame \notin Frames(inflight[k])
      BY <1>2, <1>8, <2>2, ReportsEffect
    <3>3. CASE todo'[t] = SingleCall(e) /\ \A k \in DOMAIN inflight : e.frame \notin Frames(inflight[k])
      <4>1. \A b \in Elems(inflight') : e.frame \notin Frames(b)
        BY <3>1, <3>3 DEF Elems
      <4>2. QED
        BY <3>1, <3>3, <4>1, SingleTold
    <3>4. QED
      BY <1>4, <3>2, <3>3
  <2>3. QED
    BY <2>1, <2>2
<1>9. ASSUME NEW u \in Thread, LockBatch(u)
      PROVE  Families(todo'[t]) /\ \A d \in Carries(todo'[t]) : Due(t, d)' /\ ForGood(d)'
  <2>1. CASE u # t
    BY <1>2, <1>5, <1>9, <2>1, LockBatchEffect DEF Same
  <2>2. CASE u = t /\ ~removed[at[t]]
    BY <1>9, <2>2, QueuedTold
  <2>3. CASE u = t /\ removed[at[t]]
    <3>1. PICK b : b = at[t]
      OBVIOUS
    <3>2. /\ b \in Batch /\ ev[t].frame \in Frames(b) /\ todo'[t] = SingleCall(ev[t])
          /\ ev'[t] = ev[t] /\ inflight' = inflight
      BY <1>2, <1>9, <2>3, <3>1, LockBatchEffect
    <3>3. \A k \in DOMAIN inflight : b < inflight[k]
      BY <1>2, <2>3, <3>1, <3>2 DEF Deque
    <3>4. \A a \in Elems(inflight') : b < a /\ a \in Batch
      BY <1>3, <3>2, <3>3 DEF Elems
    <3>5. \A a \in Elems(inflight') : ev[t].frame \notin Frames(a)
      <4>1. SUFFICES ASSUME NEW a \in Elems(inflight'), ev[t].frame \in Frames(a)
                     PROVE  FALSE
        OBVIOUS
      <4>2. a = b /\ b < a /\ a \in Nat
        BY <1>2, <3>2, <3>4, <4>1, FramesDisjoint
      <4>3. QED
        BY <4>2
    <3>6. ev[t].items \subseteq Class \X {ev[t].frame}
      BY <1>2 DEF Phase
    <3>7. QED
      BY <3>2, <3>5, <3>6, SingleTold
  <2>4. QED
    BY <2>1, <2>2, <2>3
<1>10. ASSUME NEW u \in Thread, RemoveFirstBatch(u)
       PROVE  Families(todo'[t]) /\ \A d \in Carries(todo'[t]) : Due(t, d)' /\ ForGood(d)'
  <2>1. todo'[t] = todo[t] /\ (t # u => ev'[t] = ev[t] /\ at'[t] = at[t])
    BY <1>2, <1>10, RemoveFirstBatchEffect DEF Same
  <2>2. CASE todo[t] = <<>>
    BY <1>4, <2>1, <2>2
  <2>3. CASE todo[t] # <<>>
    <3>1. t # u
      BY <1>2, <1>10, <2>3, RemoveFirstBatchEffect DEF Phase
    <3>2. at[t] \in Elems(inflight) => at[t] \in Elems(inflight')
      BY <1>10, <2>3, CallersBatchStays
    <3>3. Elems(inflight') \subseteq Elems(inflight)
      <4>1. PICK h : h = Head(inflight)
        OBVIOUS
      <4>2. inflight' = inflight \/ (inflight # <<>> /\ inflight' = Tail(inflight))
        BY <1>2, <1>10, RemoveFirstBatchEffect
      <4>3. inflight # <<>> /\ inflight' = Tail(inflight) => Elems(inflight) = {h} \cup Elems(inflight')
        BY <4>1, HeadLeaves
      <4>4. QED
        BY <4>2, <4>3
    <3>4. QED
      BY <2>1, <2>3, <3>1, <3>2, <3>3, OldTold
  <2>4. QED
    BY <2>2, <2>3
<1>11. CASE Quiet
  <2>1. \/ todo'[t] = <<>>
        \/ /\ ev'[t] = ev[t] /\ at'[t] = at[t]
           /\ todo'[t] = todo[t] \/ (todo[t] # <<>> /\ todo'[t] = Tail(todo[t]))
    BY <1>11, QuietCalls
  <2>2. inflight' = inflight
    BY <1>11 DEF Quiet
  <2>3. QED
    BY <1>4, <1>5, <2>1, <2>2
<1>12. QED
  BY <1>6, <1>7, <1>8, <1>9, <1>10, <1>11, UndisturbedSteps

(* The item a call is due to, and what the order of the HAL says of it:     *)
(* nothing that comes before it is with the HAL or being reported.          *)
Cause(t, d, f) ==
  /\ <<d[2], f>> \in ev[t].items /\ d[3] <= f
  /\ \/ f = d[3]
     \/ /\ at[t] \in Elems(inflight) /\ d[3] \in Frames(at[t]) /\ d[2] \in BatchedClass
        /\ f = Burst[at[t]].last
  /\ <<d[2], f>> \notin pending /\ (\A u \in Thread : <<d[2], f>> \in ev[u].items => u = t)
  /\ \A j \in Before(d[2], d[3]) \cup Before(d[2], f) : ~Unreported(j)

(* An item before another one is before a later one.                        *)
LEMMA BeforeLater ==
  ASSUME NEW c, NEW g \in Nat, NEW f \in Nat, g <= f, NEW j \in Before(c, g)
  PROVE  j \in Before(c, f)
<1>1. j \in UpTo(c) \X Frame /\ j[2] <= g /\ j # <<c, g>> /\ Frame \subseteq Nat
  BY Bursts DEF Before, Frame, Frames
<1>2. j[2] \in Nat
  BY <1>1
<1>3. j[2] <= f
  BY <1>1, <1>2
<1>4. j # <<c, f>>
  <2>1. SUFFICES ASSUME j = <<c, f>>
                 PROVE  FALSE
    OBVIOUS
  <2>2. j[2] = f
    BY <2>1
  <2>3. f = g
    BY <1>1, <2>2
  <2>4. QED
    BY <1>1, <2>1, <2>3
<1>5. QED
  BY <1>1, <1>3, <1>4 DEF Before

(* Every call has such an item.                                             *)
LEMMA CallsHaveCause ==
  ASSUME Ordered, Told, NEW t \in Thread, NEW d \in Carries(todo[t]), d[2] \in Class
  PROVE  /\ d \in Delivery /\ pc[t] = "calling" /\ todo[t] # <<>>
         /\ \E f \in Nat : Cause(t, d, f)
<1>1. todo[t] \in Seq(Call) /\ inflight \in Seq(Batch)
  BY DEF Ordered, IInv, TypeOK
<1>2. PICK k \in DOMAIN todo[t] : d \in todo[t][k].items
  BY DEF Carries
<1>3. todo[t][k] \in Call
  BY <1>1, <1>2
<1>4. d \in Delivery
  BY <1>2, <1>3 DEF Call
<1>5. todo[t] # <<>> /\ pc[t] = "calling"
  BY <1>2 DEF Ordered, Phase
<1>6. d[3] \in Nat
  BY <1>4 DEF Delivery
<1>7. PICK f \in Nat : /\ <<d[2], f>> \in ev[t].items /\ d[3] <= f
                       /\ \/ f = d[3]
                          \/ /\ at[t] \in Elems(inflight) /\ d[3] \in Frames(at[t]) /\ d[2] \in BatchedClass
                             /\ f = Burst[at[t]].last
  <2>1. CASE Of(d) \in ev[t].items
    BY <1>6, <2>1 DEF Of
  <2>2. CASE /\ at[t] \in Elems(inflight) /\ d[3] \in Frames(at[t]) /\ d[2] \in BatchedClass
             /\ <<d[2], Burst[at[t]].last>> \in ev[t].items
    <3>1. at[t] \in Batch
      BY <1>1, <2>2 DEF Elems
    <3>2. Burst[at[t]].last \in Nat /\ d[3] <= Burst[at[t]].last
      BY <2>2, <3>1, Bursts DEF Frames
    <3>3. QED
      BY <2>2, <3>2
  <2>3. QED
    BY <2>1, <2>2 DEF Told, Due
<1>8. PICK i : i = <<d[2], f>>
  OBVIOUS
<1>9. i \in ev[t].items /\ i[1] \in Class /\ i[1] = d[2] /\ i[2] = f
  BY <1>7, <1>8
<1>10. /\ i \notin pending /\ (\A u \in Thread : i \in ev[u].items => u = t)
       /\ \A j \in Before(d[2], f) : j \notin pending /\ \A u \in Thread : j \notin ev[u].items
  BY <1>9 DEF Ordered, IInv, ReportedInOrder
<1>11. Before(d[2], d[3]) \subseteq Before(d[2], f)
  BY <1>6, <1>7, BeforeLater
<1>12. Cause(t, d, f)
  BY <1>7, <1>8, <1>10, <1>11 DEF Cause, Unreported
<1>13. QED
  BY <1>4, <1>5, <1>12

(* The class of an item is that of the items before it, or another part of  *)
(* the metadata.                                                            *)
LEMMA BeforeBatched ==
  ASSUME NEW c \in Class, NEW f, NEW j \in Before(c, f)
  PROVE  /\ j[1] \in UpTo(c) /\ j[1] \in Class /\ j[2] \in Nat /\ j[2] <= f /\ j = <<j[1], j[2]>>
         /\ j[1] \in BatchedClass => c \in BatchedClass
<1>1. j \in UpTo(c) \X Frame /\ j[2] <= f /\ Frame \subseteq Nat /\ UpTo(c) \subseteq Class
  BY Bursts, UpToClosed DEF Before, Frame, Frames
<1>2. j[1] = c \/ c \in PartialClass
  BY <1>1, UpToClosed
<1>3. j[1] \in UpTo(c) /\ j[2] \in Frame /\ j = <<j[1], j[2]>>
  BY <1>1
<1>4. QED
  BY <1>1, <1>2, <1>3, Classes

(* When a thread sends an item, none that comes before it is held back: its *)
(* batch still waits for the end of the class, and has not sent it, while   *)
(* what is sent ends the class for good.                                    *)
LEMMA NotHeld ==
  ASSUME Ordered, Completes, NoErrors, Undisturbed, Closed, HeldOwn, Told,
         NEW t \in Thread, NEW d \in Carries(todo[t]), d[2] \in Class, NEW j \in Before(d[2], d[3]),
         j[1] \in BatchedClass, NEW b \in Batch, NEW k \in DOMAIN queue[b][j[1]], queue[b][j[1]][k] = j[2]
  PROVE  FALSE
<1>1. PICK f \in Nat : Cause(t, d, f)
  BY CallsHaveCause
<1>2. /\ d \in Delivery /\ pc[t] = "calling" /\ d[3] \in Nat
  BY CallsHaveCause DEF Delivery
<1>3. /\ j[1] \in UpTo(d[2]) /\ j[1] \in Class /\ j[2] \in Nat /\ j[2] <= d[3] /\ d[2] \in BatchedClass
  BY BeforeBatched
<1>4. j[2] \in Frames(b) /\ queue[b][j[1]] # <<>>
  BY DEF HeldOwn
<1>5. b \in Elems(inflight)
  BY <1>4 DEF Ordered, Deque
<1>6. j[1] \notin delivered[b]
  BY <1>4 DEF Ordered, IInv, SentIsNotHeld, Sound, Held
<1>7. PICK l : l = Burst[b].last
  OBVIOUS
<1>8. l \in Nat /\ Burst[b].first \in Nat /\ l \in Frame /\ Burst[b].first <= j[2]
  BY SMTT(30), <1>4, <1>7, Bursts DEF Frame, Frames
<1>9. Coming(<<j[1], l>>)
  BY <1>5, <1>6, <1>7 DEF Completes, Completed, Doomed, NoErrors, Undisturbed
<1>10. Unreported(<<j[1], l>>)
  BY <1>9 DEF Coming, Unreported
<1>11. CASE <<j[1], l>> = <<d[2], f>>
  BY <1>1, <1>2, <1>9, <1>11 DEF Cause, Coming
<1>12. CASE <<j[1], l>> # <<d[2], f>>
  <2>1. <<j[1], l>> \notin Before(d[2], f) /\ d[3] <= f
    BY <1>1, <1>10 DEF Cause
  <2>2. ~(l <= f)
    BY <1>3, <1>8, <1>12, <2>1 DEF Before
  <2>3. d[3] \in Frames(b)
    BY <1>2, <1>3, <1>7, <1>8, <2>1, <2>2 DEF Frames
  <2>4. d[2] \in delivered[b]
    BY <1>3, <1>5, <2>3 DEF Told, ForGood
  <2>5. QED
    BY <1>3, <1>6, <2>4 DEF Closed
<1>13. QED
  BY <1>11, <1>12

(* Nor is another thread about to send it.                                  *)
LEMMA NotCalledElsewhere ==
  ASSUME Ordered, NoErrors, DeliveredIsOver, Undisturbed, Told,
         NEW t \in Thread, NEW d \in Carries(todo[t]), d[2] \in Class, NEW j \in Before(d[2], d[3]),
         NEW u \in Thread \ {t}, NEW e \in Carries(todo[u]), Of(e) = j
  PROVE  FALSE
<1>1. /\ d[3] \in Nat /\ j[1] \in UpTo(d[2]) /\ j[1] \in Class /\ j[2] \in Nat /\ j[2] <= d[3]
      /\ j = <<j[1], j[2]>> /\ e[2] = j[1] /\ e[3] = j[2]
      /\ j[1] \in BatchedClass => d[2] \in BatchedClass
  BY CallsHaveCause, BeforeBatched DEF Delivery, Of
<1>2. PICK f \in Nat : Cause(t, d, f)
  BY CallsHaveCause
<1>3. PICK g \in Nat : Cause(u, e, g)
  BY <1>1, CallsHaveCause
<1>4. Unreported(<<j[1], g>>) /\ Unreported(<<d[2], f>>)
  BY <1>1, <1>2, <1>3 DEF Cause, Unreported
<1>5. g # j[2]
  BY <1>1, <1>2, <1>4 DEF Cause
<1>6. PICK b : b = at[u]
  OBVIOUS
<1>7. /\ b \in Elems(inflight) /\ j[2] \in Frames(b) /\ j[1] \in BatchedClass /\ g = Burst[b].last
  BY <1>1, <1>3, <1>5, <1>6 DEF Cause
<1>8. inflight \in Seq(Batch)
  BY DEF Ordered, IInv, TypeOK
<1>9. b \in Batch
  BY <1>7, <1>8 DEF Elems
<1>10. Burst[b].first \in Nat /\ g \in Frame /\ Burst[b].first <= j[2]
  BY <1>7, <1>9, Bursts DEF Frame, Frames
<1>11. <<j[1], g>> # <<d[2], f>>
  BY <1>1, <1>2, <1>3 DEF Cause
<1>12. ~(g <= f) /\ d[3] <= f
  BY <1>1, <1>2, <1>4, <1>10, <1>11 DEF Cause, Before
<1>13. d[3] \in Frames(b) /\ f \in Frames(b)
  BY <1>1, <1>7, <1>9, <1>10, <1>12 DEF Frames
<1>14. d[2] \in delivered[b]
  BY <1>1, <1>7, <1>13 DEF Told, ForGood
<1>15. IsOver(b, d[2])
  BY <1>9, <1>14 DEF DeliveredIsOver, Undisturbed
<1>16. CASE j[1] = d[2]
  <2>1. <<d[2], f>> \in Before(j[1], g)
    <3>1. d[2] \in UpTo(d[2]) /\ f \in Frame /\ f <= g
      BY <1>9, <1>12, <1>13, UpToClosed DEF Frame
    <3>2. QED
      BY <1>11, <1>16, <3>1 DEF Before
  <2>2. QED
    BY <1>1, <1>3, <1>4, <2>1 DEF Cause
<1>17. CASE j[1] # d[2]
  <2>1. <<j[1], g>> \in Before(d[2], Burst[b].last)
    BY <1>1, <1>7, <1>10, <1>17 DEF Before
  <2>2. QED
    BY <1>4, <1>15, <2>1 DEF IsOver
<1>18. QED
  BY <1>16, <1>17

(* A step that gives the framework something is one call of one thread.     *)
LEMMA Receives ==
  ASSUME Ordered, [Next]_vars, received' # received
  PROVE  \E t \in Thread :
           /\ pc[t] = "calling" /\ todo[t] # <<>> /\ UNCHANGED owed
           /\ received' = received \cup Head(todo[t]).items
<1>1. ~Submit /\ ~SubmitFails /\ ~RegisterBatch /\ ~UNCHANGED vars
  BY DEF Submit, SubmitFails, RegisterBatch, outVars, vars
<1>2. ASSUME NEW t \in Thread, HalCall(t)
      PROVE  UNCHANGED received
  BY ZenonT(60), <1>2 DEF HalCall, NotifyShutter, NotifyError, ProcessCaptureResult, Enter, outVars
<1>3. PICK t \in Thread : Step(t) \/ FlushNothing(t)
  BY <1>1, <1>2 DEF Next, Work
<1>4. CallNotify(t) \/ EndResultCall(t) \/ TimeoutResultCall(t)
  BY <1>3 DEF Step, LockBatch, LockForError, FlushFirstBatch, SendError, BeginResultCall, Release,
              LockForCheck, RemoveFirstBatch, FlushNothing, outVars
<1>5. QED
  BY <1>4, CallEffect DEF Ordered

(* An item that is owed was sent, or is somewhere on its way.               *)
LEMMA OwedIsSomewhere ==
  ASSUME Ordered, Ledger, Undisturbed, NEW j \in owed
  PROVE  \/ Unreported(j)
         \/ j[1] \in BatchedClass /\ \E b \in Batch : \E k \in DOMAIN queue[b][j[1]] : queue[b][j[1]][k] = j[2]
         \/ \E u \in Thread : \E k \in DOMAIN todo[u] : \E e \in todo[u][k].items : Of(e) = j
         \/ \E e \in received : Of(e) = j
<1>1. Single(Places(j))
  BY DEF Ledger, AccountedFor
<1>2. PICK x : x \in Places(j)
  BY <1>1 DEF Single
<1>3. SentUp("dropped", dropped, j) = {}
  BY DEF Undisturbed, SentUp
<1>4. CASE x \in {<<"hal">> : y \in {j} \cap pending} \cup Entering(Thread, j)
  BY <1>4 DEF Entering, Unreported
<1>5. CASE x \in HeldBy(Batch, j)
  BY <1>5 DEF HeldBy, HeldIn
<1>6. CASE x \in CalledBy(Thread, j)
  BY <1>6 DEF CalledBy, CalledIn
<1>7. CASE x \in SentUp("received", received, j)
  BY <1>7 DEF SentUp
<1>8. QED
  BY <1>2, <1>3, <1>4, <1>5, <1>6, <1>7 DEF Places

(* The item of a call is owed.                                              *)
LEMMA CalledIsOwed ==
  ASSUME Ordered, Ledger, Told, InFrames, NEW t \in Thread, NEW d \in Carries(todo[t]), d[2] \in Class
  PROVE  Of(d) \in owed
<1>1. d \in Delivery
  BY CallsHaveCause
<1>2. inflight \in Seq(Batch)
  BY DEF Ordered, IInv, TypeOK
<1>3. d[3] \in Frame
  <2>1. CASE Of(d) \in ev[t].items
    BY <2>1 DEF InFrames, Of
  <2>2. CASE at[t] \in Elems(inflight) /\ d[3] \in Frames(at[t])
    BY <1>2, <2>2 DEF Elems, Frame
  <2>3. QED
    BY <2>1, <2>2 DEF Told, Due
<1>4. PICK i : i = Of(d)
  OBVIOUS
<1>5. i \in Class \X Frame
  BY <1>3, <1>4 DEF Of
<1>6. PICK k \in DOMAIN todo[t] : d \in todo[t][k].items
  BY DEF Carries
<1>7. <<"call", t, k, d>> \in CalledIn(todo[t], t, i)
  BY <1>4, <1>6 DEF CalledIn
<1>8. Places(i) # {}
  BY <1>7 DEF CalledBy, Places
<1>9. QED
  BY <1>4, <1>5, <1>8 DEF Ledger, AccountedFor

(* A delivery under the number of its frame is that of its item.            *)
LEMMA UnderItsFrame ==
  ASSUME NEW d \in Delivery, d[1] = d[3]
  PROVE  d = Results!Under(Of(d))
BY DEF Results!Under, Of, Delivery

(* All that is ever sent comes in order: whatever goes before an item that  *)
(* a thread sends has been sent, or goes up in the same call.               *)
LEMMA InOrder ==
  ASSUME Ordered, Ledger, Labelled, Completes, NoErrors, DeliveredIsOver, Undisturbed, Closed, HeldOwn, Told,
         NEW t \in Thread, todo[t] # <<>>, NEW d \in Head(todo[t]).items, d[2] \in Class,
         NEW j \in Before(d[2], d[3]), j \in owed
  PROVE  Results!Under(j) \in received \cup Head(todo[t]).items
<1>1. todo[t] \in Seq(Call) /\ received \subseteq Delivery
  BY DEF Ordered, IInv, TypeOK
<1>2. /\ d \in Carries(todo[t]) /\ d \in todo[t][1].items /\ 1 \in DOMAIN todo[t]
      /\ Head(todo[t]) = todo[t][1]
  BY <1>1, CallsTail
<1>3. /\ j[1] \in UpTo(d[2]) /\ j[1] \in Class
  BY BeforeBatched
<1>4. ~Unreported(j)
  BY <1>2, CallsHaveCause DEF Cause
<1>5. ASSUME j[1] \in BatchedClass, NEW b \in Batch, NEW k \in DOMAIN queue[b][j[1]], queue[b][j[1]][k] = j[2]
      PROVE  FALSE
  BY <1>2, <1>5, NotHeld
<1>6. ASSUME NEW u \in Thread, NEW k \in DOMAIN todo[u], NEW e \in todo[u][k].items, Of(e) = j
      PROVE  e \in Head(todo[t]).items /\ Results!Under(j) = e
  <2>1. e \in Carries(todo[u])
    BY <1>6 DEF Carries
  <2>2. u = t
    BY <1>2, <1>6, <2>1, NotCalledElsewhere
  <2>3. e[2] = j[1]
    BY <1>6 DEF Of
  <2>4. k = 1
    BY <1>2, <1>3, <1>6, <2>2, <2>3 DEF Told, Families
  <2>5. e \in Delivery /\ e[1] = e[3]
    BY <1>3, <2>1, <2>3, CallsHaveCause DEF Labelled, FromEarly, Undisturbed
  <2>6. QED
    BY <1>2, <1>6, <2>2, <2>4, <2>5, UnderItsFrame
<1>7. ASSUME NEW e \in received, Of(e) = j
      PROVE  Results!Under(j) = e
  BY <1>1, <1>7, UnderItsFrame DEF Labelled, LabelledByFrame, FromEarly, Undisturbed
<1>8. QED
  BY <1>4, <1>5, <1>6, <1>7, OwedIsSomewhere

(* A call is a step of Send.                                                *)
LEMMA CallSends ==
  ASSUME Ordered, Ledger, Labelled, Completes, NoErrors, DeliveredIsOver, Undisturbed,
         Closed, HeldOwn, InFrames, Told, [Next]_vars, received' # received
  PROVE  Results!Send
<1>1. PICK t \in Thread : /\ todo[t] # <<>> /\ UNCHANGED owed
                          /\ received' = received \cup Head(todo[t]).items
  BY Receives
<1>2. PICK new : new = Head(todo[t]).items
  OBVIOUS
<1>3. todo[t] \in Seq(Call)
  BY DEF Ordered, IInv, TypeOK
<1>4. new \subseteq Carries(todo[t])
  BY <1>1, <1>2, <1>3, CallsTail
<1>5. new \subseteq Delivery
  <2>1. Head(todo[t]) \in Call
    BY <1>1, <1>3
  <2>2. QED
    BY <1>2, <2>1 DEF Call
<1>6. \A d \in new : d[2] \in Class \/ d[2] = Error
  BY <1>5 DEF Delivery
<1>7. ASSUME NEW d \in new, d[2] # Error
      PROVE  Of(d) \in owed /\ d = Results!Under(Of(d))
  BY <1>4, <1>5, <1>6, <1>7, CalledIsOwed, UnderItsFrame DEF Labelled, FromEarly, Undisturbed
<1> DEFINE sent == {d \in received : d[2] # Error}
           after == {d \in received' : d[2] # Error}
<1>8. received' = received \cup new
  BY <1>1, <1>2
<1>9. sent \subseteq after /\ after \subseteq sent \cup {Results!Under(i) : i \in owed}
  BY <1>7, <1>8
<1>10. ASSUME NEW i \in owed, Results!Under(i) \in after \ sent, NEW j \in Before(i[1], i[2]) \cap owed
       PROVE  Results!Under(j) \in after
  <2>1. PICK d : d = Results!Under(i)
    OBVIOUS
  <2>2. d \in new
    BY <1>8, <1>10, <2>1
  <2>3. i[1] \in Class /\ j[1] \in Class /\ Error \notin Class
    BY <1>10, Classes DEF Ledger
  <2>4. d[2] = i[1] /\ d[3] = i[2]
    BY <2>1 DEF Results!Under
  <2>5. Results!Under(j) \in received \cup new
    BY <1>1, <1>2, <1>10, <2>2, <2>3, <2>4, InOrder
  <2>6. \A e : e = Results!Under(j) => e[2] # Error
    BY <2>3 DEF Results!Under
  <2>7. QED
    BY <1>8, <2>5, <2>6
<1>11. QED
  BY <1>1, <1>9, <1>10, Zenon DEF Results!Send

(* A request is accepted, and every other step leaves alone what is owed.   *)
LEMMA OthersAccept ==
  ASSUME Ordered, Waits, Ledger, NoErrors, Undisturbed, Undisturbed', [Next]_vars, received' = received
  PROVE  (\E f \in Frame : Results!Accept(f)) \/ UNCHANGED (Results!vars)
<1>1. CASE Submit
  <2>1. PICK f : f = nextFrame
    OBVIOUS
  <2>2. /\ burst \in Batch /\ f <= Burst[burst].last /\ Burst[burst].first <= f /\ f \in Nat
    BY <1>1, <2>1 DEF Submit, Ordered, IInv, SubmittedOnly, TypeOK
  <2>3. f \in Frame
    BY <2>2, Bursts DEF Frame, Frames
  <2>4. Results!Accept(f)
    BY <1>1, <2>1 DEF Submit, Results!Accept, Ledger
  <2>5. QED
    BY <2>3, <2>4
<1>2. CASE SubmitFails \/ RegisterBatch
  BY <1>2, RegisteredIsNew DEF Results!vars
<1>3. ASSUME NEW t \in Thread, NEW e \in Event, Reports(t, e), e.kind # "error"
      PROVE  UNCHANGED owed
  BY <1>3 DEF Reports
<1>4. ASSUME NEW t \in Thread, LockBatch(t) \/ RemoveFirstBatch(t)
      PROVE  UNCHANGED owed
  BY <1>4, LockBatchEffect, RemoveFirstBatchEffect DEF Ordered
<1>5. CASE Quiet
  BY <1>5 DEF Quiet, Results!vars
<1>6. UNCHANGED owed => UNCHANGED (Results!vars)
  BY DEF Results!vars
<1>7. QED
  BY <1>1, <1>2, <1>3, <1>4, <1>5, <1>6, UndisturbedSteps

(* The batcher implements FrameResults: whatever the interleaving of        *)
(* submissions, reports, calls and removals of batches, what the framework  *)
(* receives is what a session without batching would send, each item once,  *)
(* under its own frame and in order within its class.  An error lets a      *)
(* later item overtake what its thread still has to send of a batch, a call *)
(* that is given up sends nothing, and a batch that the HAL reported on     *)
(* before it was registered is counted wrong: up to the first of these.     *)
THEOREM ImplementsFrameResults == Spec => ResultsUntilDisturbed
<1> DEFINE Inv == /\ Ordered /\ Waits /\ Numbered /\ HeldOwn /\ Labelled /\ Completes /\ Ledger
                  /\ NoErrors /\ DeliveredIsOver
                  /\ Undisturbed => Closed /\ InFrames /\ Told
<1>1. Init => Inv
  BY InitOrdered, InitWaits, InitNumbered, InitHeldOwn, InitLabelled, InitCompletes, InitLedger, InitOver,
     InitRegular, InitTold
<1>2. Inv /\ [Next]_vars => Inv'
  <2>1. SUFFICES ASSUME Inv, [Next]_vars
                 PROVE  Inv'
    OBVIOUS
  <2>2. Undisturbed' => Undisturbed
    BY <2>1, UndisturbedBefore
  <2>3. Undisturbed' => Closed' /\ InFrames'
    BY <2>1, <2>2, StepRegular
  <2>4. Undisturbed' => Told'
    BY <2>1, <2>2, StepTold
  <2>5. Ordered' /\ Waits' /\ Numbered' /\ HeldOwn' /\ Labelled' /\ Completes' /\ Ledger'
    BY <2>1, StepOrdered, StepWaits, StepNumbered, StepHeldOwn, StepLabelled, StepCompletes, NextLedger
  <2>6. NoErrors' /\ DeliveredIsOver'
    BY <2>1, StepNoErrors, StepOver
  <2>7. QED
    BY <2>3, <2>4, <2>5, <2>6
<1>3. Init => Results!Init
  BY DEF Init, Results!Init
<1>4. Inv /\ [Next]_vars => [Undisturbed' => Results!Next]_(Results!vars)
  <2>1. SUFFICES ASSUME Inv, [Next]_vars, Undisturbed'
                 PROVE  Results!Next \/ UNCHANGED (Results!vars)
    OBVIOUS
  <2>2. Undisturbed
    BY <2>1, UndisturbedBefore
  <2>3. received' # received => Results!Send
    BY <2>1, <2>2, CallSends
  <2>4. received' = received => (\E f \in Frame : Results!Accept(f)) \/ UNCHANGED (Results!vars)
    BY <2>1, <2>2, OthersAccept
  <2>5. QED
    BY <2>3, <2>4 DEF Results!Next
<1>5. QED
  BY <1>1, <1>2, <1>3, <1>4, PTL DEF Spec, ResultsUntilDisturbed
=============================================================================
