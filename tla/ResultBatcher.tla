--------------------------- MODULE ResultBatcher ---------------------------
(***************************************************************************)
(* CameraDeviceSession::ResultBatcher: the part of a camera session that   *)
(* holds back the shutters, metadata and buffers of a burst of capture     *)
(* requests and sends them to the framework in a few calls.                *)
(*                                                                         *)
(* A binder thread submits bursts and registers each one as a batch; HAL   *)
(* threads call notify() and processCaptureResult().  Locks are modelled   *)
(* as the code takes them: mLock (the deque), InflightBatch::mLock (one    *)
(* batch) and mProcessCaptureResultLock (a call into the framework).       *)
(***************************************************************************)
EXTENDS Naturals, Sequences, FiniteSets

CONSTANTS
  Thread,      \* threads of the camera HAL that call back into the session
  NoThread,    \* the owner of a free lock
  Stream,      \* configured output streams
  Batched,     \* mStreamsToBatch: the (video) streams whose buffers are batched
  NumPartial,  \* mNumPartialResults: metadata of a frame comes in that many parts
  Burst,       \* the bursts submitted, each with its first and last frame number
  MaxErrors,   \* bound on the errors the HAL reports
  Ahead,       \* bound: bursts the HAL may report on before they are registered
  MayStall     \* TRUE: a framework call may last longer than the 1 s timed lock

ASSUME ConstantsAssumption ==
  /\ NoThread \notin Thread
  /\ Batched \subseteq Stream
  /\ NumPartial \in Nat \ {0}
  /\ Burst \in Seq([first : Nat \ {0}, last : Nat \ {0}])
  /\ \A b \in DOMAIN Burst : Burst[b].first <= Burst[b].last
  /\ \A a, b \in DOMAIN Burst : a < b => Burst[a].last < Burst[b].first
  /\ MaxErrors \in Nat
  /\ MayStall \in BOOLEAN

Batch == DOMAIN Burst
NotBatched == 0

(* A burst of one request is not batched.                                   *)
IsBatched(b) == Burst[b].first < Burst[b].last

Frames(b) == Burst[b].first .. Burst[b].last
Frame == UNION {Frames(b) : b \in Batch}

(* What the HAL owes for a frame: one shutter message, NumPartial pieces   *)
(* of metadata and one buffer per stream.  An item is a class and a frame. *)
Shutter == <<"shutter", 0>>
Error == <<"error", 0>>
Partial(p) == <<"partial", p>>
Buffer(s) == <<"buffer", s>>
PartialClass == {Partial(p) : p \in 1 .. NumPartial}
BatchedBuffers == {Buffer(s) : s \in Batched}
BatchedClass == {Shutter} \cup PartialClass \cup BatchedBuffers
Class == BatchedClass \cup {Buffer(s) : s \in Stream}
Item == (Class \cup {Error}) \X Nat

(* A partial result stands for the earlier ones of its frame.              *)
UpTo(c) == IF c \in PartialClass THEN {d \in PartialClass : d[2] <= c[2]} ELSE {c}

(* A delivery tells the framework: here is the item of this class, from    *)
(* the given frame, for the frame number of the label.                     *)
Delivery == Nat \X (Class \cup {Error}) \X Nat
Call == [process : BOOLEAN, items : SUBSET Delivery]
Event == [kind : {"shutter", "error", "result"}, frame : Nat, items : SUBSET Item]

NoEvent == [kind |-> "shutter", frame |-> 0, items |-> {}]

VARIABLES
  burst,      \* the burst the binder thread is submitting
  nextFrame,  \* the frame number it submits next
  pending,    \* items the HAL has not reported yet
  owed,       \* items of the submitted frames that the HAL did not give up
  errors,     \* errors reported so far
  early,      \* batches the HAL reported on before they were registered (a
              \*   history of the calls, which no step of the code looks at)
  inflight,   \* mInflightBatches
  queue,      \* queue[b][c]: frames whose item of class c is held back in b
  delivered,  \* delivered[b]: classes sent up (mShutterDelivered, mDelivered,
              \*   and the partial results up to mPartialResultProgress)
  removed,    \* removed[b]: mRemoved
  mLock,      \* owner of ResultBatcher::mLock
  bLock,      \* bLock[b]: owner of InflightBatch::mLock
  cbLock,     \* owner of mProcessCaptureResultLock
  pc, ev, at, left, todo,   \* per thread: step, argument, batch, loop count, calls to make
  received,   \* deliveries the framework got
  dropped,    \* deliveries given up after the 1 s timeout
  crashed     \* the process died of undefined behaviour

halVars == <<pending, owed, errors, early>>
batchVars == <<queue, delivered, removed>>
lockVars == <<mLock, bLock, cbLock>>
threadVars == <<pc, ev, at, left, todo>>
outVars == <<received, dropped>>
vars == <<burst, nextFrame, halVars, inflight, batchVars, lockVars, threadVars, outVars, crashed>>

Init ==
  /\ burst = 1
  /\ nextFrame = IF Batch = {} THEN 1 ELSE Burst[1].first
  /\ pending = {} /\ owed = {} /\ errors = 0 /\ early = {}
  /\ inflight = <<>>
  /\ queue = [b \in Batch |-> [c \in BatchedClass |-> <<>>]]
  /\ delivered = [b \in Batch |-> {}]
  /\ removed = [b \in Batch |-> FALSE]
  /\ mLock = NoThread /\ cbLock = NoThread
  /\ bLock = [b \in Batch |-> NoThread]
  /\ pc = [t \in Thread |-> "idle"]
  /\ ev = [t \in Thread |-> NoEvent]
  /\ at = [t \in Thread |-> NotBatched]
  /\ left = [t \in Thread |-> 0]
  /\ todo = [t \in Thread |-> <<>>]
  /\ received = {} /\ dropped = {}
  /\ crashed = FALSE
-----------------------------------------------------------------------------
(* The binder thread: processCaptureRequest() hands the requests of a burst *)
(* to the HAL one by one and only then registers the batch.                 *)

Submit ==
  /\ burst \in Batch /\ nextFrame <= Burst[burst].last
  /\ pending' = pending \cup (Class \X {nextFrame})
  /\ owed' = owed \cup (Class \X {nextFrame})
  /\ nextFrame' = nextFrame + 1
  /\ UNCHANGED <<burst, errors, early, inflight, batchVars, lockVars, threadVars, outVars>>

NextBurst ==
  /\ burst' = burst + 1
  /\ nextFrame' = IF burst + 1 \in Batch THEN Burst[burst + 1].first ELSE nextFrame

(* A request the HAL or the session refuses ends the burst: no batch.       *)
SubmitFails ==
  /\ burst \in Batch /\ nextFrame <= Burst[burst].last
  /\ NextBurst
  /\ UNCHANGED <<halVars, inflight, batchVars, lockVars, threadVars, outVars>>

(* The HAL may have reported on the burst already.                          *)
RegisterBatch ==
  /\ burst \in Batch /\ nextFrame = Burst[burst].last + 1
  /\ IF IsBatched(burst)
       THEN mLock = NoThread /\ inflight' = Append(inflight, burst)
       ELSE UNCHANGED inflight
  /\ NextBurst
  /\ UNCHANGED <<halVars, batchVars, lockVars, threadVars, outVars>>

-----------------------------------------------------------------------------
(* What a thread does to a batch while it holds the lock of the batch: s is *)
(* the batch with the calls to the framework collected so far.              *)

Elems(q) == {q[i] : i \in DOMAIN q}
AddCall(calls, process, items) ==
  IF items = {} THEN calls ELSE Append(calls, [process |-> process, items |-> items])
Plain(items) == {<<i[2], i[1], i[2]>> : i \in items}

(* Faulty: mShutterMsgs is not cleared.                                    *)
SendBatchShutterCbs_NoClear(s) ==
  IF Shutter \in s.delivered THEN s
  ELSE [queue |-> s.queue,
        delivered |-> s.delivered \cup {Shutter},
        calls |-> AddCall(s.calls, FALSE, Plain({Shutter} \X Elems(s.queue[Shutter])))]

SendBatchShutterCbs(s) ==
  IF Shutter \in s.delivered THEN s
  ELSE [queue |-> [s.queue EXCEPT ![Shutter] = <<>>],
        delivered |-> s.delivered \cup {Shutter},
        calls |-> AddCall(s.calls, FALSE, Plain({Shutter} \X Elems(s.queue[Shutter])))]

(* Faulty: one frame too far; counting backwards.                          *)
Label_OffByOne(b, i) == Burst[b].first + i
Label_Backwards(b, i) == Burst[b].first - i

(* The i-th buffer held back goes up as a buffer of the i-th frame.         *)
Label(b, i) == Burst[b].first + i - 1

SendBatchBuffers(s, b, classes) ==
  LET open  == classes \ s.delivered
      items == UNION {{<<Label(b, i), c, s.queue[c][i]>> : i \in DOMAIN s.queue[c]} : c \in open}
  IN  [queue |-> [c \in BatchedClass |->
                    IF items # {} /\ c \in classes THEN <<>> ELSE s.queue[c]],
       delivered |-> s.delivered \cup classes,
       calls |-> AddCall(s.calls, TRUE, items)]

SendBatchMetadata(s, lastPartial) ==
  LET parts == UpTo(lastPartial)
  IN  IF parts \subseteq s.delivered THEN s
      ELSE [queue |-> [c \in BatchedClass |-> IF c \in parts THEN <<>> ELSE s.queue[c]],
            delivered |-> s.delivered \cup parts,
            calls |-> AddCall(s.calls, TRUE,
                        UNION {Plain({c} \X Elems(s.queue[c])) : c \in parts})]

(* Faulty: the buffers are forgotten.                                      *)
AllDelivered_NoBuffers(b) == {Shutter} \cup PartialClass \subseteq delivered[b]

AllDelivered(b) == BatchedClass \subseteq delivered[b]
Held(b) == [queue |-> queue[b], delivered |-> delivered[b], calls |-> <<>>]

(* notify(shutter) and processCaptureResult() once they have the batch lock: *)
(* queue what is batched, send the rest, and send the batch up with the      *)
(* items of its last frame.                                                  *)
QueueItems(b, e) ==
  LET filled == {i[1] : i \in e.items} \cap BatchedClass
      pushed == [queue |-> [c \in BatchedClass |-> IF c \in filled
                              THEN Append(queue[b][c], e.frame) ELSE queue[b][c]],
                 delivered |-> delivered[b],
                 calls |-> AddCall(<<>>, TRUE, Plain({i \in e.items : i[1] \notin filled}))]
      partial == filled \cap PartialClass
      withMd == IF partial = {} THEN pushed
                ELSE SendBatchMetadata(pushed, CHOOSE c \in partial : TRUE)
  IN  CASE e.frame # Burst[b].last -> pushed
        [] e.frame = Burst[b].last /\ e.kind = "shutter" -> SendBatchShutterCbs(pushed)
        [] OTHER -> SendBatchBuffers(withMd, b, filled \cap BatchedBuffers)

(* The error path of notify() sends everything held back in a batch.        *)
FlushBatch(b) ==
  SendBatchMetadata(SendBatchBuffers(SendBatchShutterCbs(Held(b)), b, BatchedBuffers),
                    Partial(NumPartial))

(* notifySingleMsg() and processOneCaptureResult().                         *)
SingleCall(e) == <<[process |-> e.kind = "result", items |-> Plain(e.items)]>>

-----------------------------------------------------------------------------
(* The HAL reports in frame order within a class, and the parts of the      *)
(* metadata of a frame in their order: an item is reported when the calls   *)
(* that report the items before it have returned.                           *)

Unreported(i) == i \in pending \/ \E t \in Thread : i \in ev[t].items
Before(c, f) == {i \in UpTo(c) \X Frame : i[2] <= f /\ i # <<c, f>>}
Reportable(f) == burst \in Batch \ Ahead => f < Burst[burst].first
MayReport(i) == i \in pending /\ Reportable(i[2]) /\ \A j \in Before(i[1], i[2]) : ~Unreported(j)

(* Faulty: the last frame of a batch is taken for the next one's.          *)
GetBatch_OpenEnd(f) ==
  LET pos == {k \in DOMAIN inflight : f \in Frames(inflight[k]) \ {Burst[inflight[k]].last}}
  IN  IF pos = {} THEN 0 ELSE CHOOSE k \in pos : TRUE

(* getBatch(), under mLock: the position of the batch of a frame, 0 if none. *)
GetBatch(f) ==
  LET pos == {k \in DOMAIN inflight : f \in Frames(inflight[k])}
  IN  IF pos = {} THEN 0 ELSE CHOOSE k \in pos : TRUE

Enter(t, e) ==
  LET k == GetBatch(e.frame) IN
  /\ pc[t] = "idle" /\ mLock = NoThread
  /\ early' = early \cup {b \in {burst} \cap Batch : IsBatched(b) /\ e.frame \in Frames(b)}
  /\ ev' = [ev EXCEPT ![t] = e]
  /\ left' = [left EXCEPT ![t] = k]
  /\ at' = [at EXCEPT ![t] = IF k = 0 THEN NotBatched ELSE inflight[k]]
  /\ todo' = [todo EXCEPT ![t] = IF k = 0 THEN SingleCall(e) ELSE <<>>]
  /\ pc' = [pc EXCEPT ![t] = CASE k = 0 -> "calling"
                               [] k # 0 /\ e.kind = "error" -> "error"
                               [] OTHER -> "queue"]
  /\ UNCHANGED <<burst, nextFrame, inflight, batchVars, lockVars, outVars>>

NotifyShutter(t, f) ==
  /\ MayReport(<<Shutter, f>>)
  /\ pending' = pending \ {<<Shutter, f>>}
  /\ Enter(t, [kind |-> "shutter", frame |-> f, items |-> {<<Shutter, f>>}])
  /\ UNCHANGED <<owed, errors>>

(* An error on a buffer, on the result or on the whole request: the HAL     *)
(* then gives up nothing, the metadata, or the metadata and the shutter.    *)
NotifyError(t, f) ==
  /\ errors < MaxErrors /\ Reportable(f)
  /\ \E i \in pending : i[2] = f
  /\ \E classes \in {{}, PartialClass, PartialClass \cup {Shutter}} :
       LET lost == pending \cap (classes \X {f})
       IN  pending' = pending \ lost /\ owed' = owed \ lost
  /\ errors' = errors + 1
  /\ Enter(t, [kind |-> "error", frame |-> f, items |-> {<<Error, f>>}])

(* A result carries buffers and at most one part of the metadata.           *)
ProcessCaptureResult(t, f) ==
  \E classes \in SUBSET (Class \ {Shutter}) :
    LET items == classes \X {f} IN
    /\ classes # {}
    /\ \A c, d \in classes \cap PartialClass : c = d
    /\ \A i \in items : MayReport(i)
    /\ pending' = pending \ items
    /\ Enter(t, [kind |-> "result", frame |-> f, items |-> items])
    /\ UNCHANGED <<owed, errors>>

-----------------------------------------------------------------------------
(* Faulty: mRemoved is not checked.                                        *)
FallsBack_Never(b) == FALSE

(* Under the batch lock: the batch may have been removed since getBatch().  *)
FallsBack(b) == removed[b]

LockBatch(t) ==
  LET b == at[t]
      s == QueueItems(b, ev[t])
  IN
  /\ pc[t] = "queue" /\ bLock[b] = NoThread
  /\ bLock' = [bLock EXCEPT ![b] = t]
  /\ pc' = [pc EXCEPT ![t] = "calling"]
  /\ IF FallsBack(b)
       THEN /\ todo' = [todo EXCEPT ![t] = SingleCall(ev[t])]
            /\ UNCHANGED <<queue, delivered>>
       ELSE /\ todo' = [todo EXCEPT ![t] = s.calls]
            /\ queue' = [queue EXCEPT ![b] = s.queue]
            /\ delivered' = [delivered EXCEPT ![b] = s.delivered]
  /\ UNCHANGED <<burst, nextFrame, halVars, inflight, removed, mLock, cbLock, ev, at, left, outVars>>

(* Faulty: the loop stops before the batch of the failed frame.            *)
LockForError_ShortLoop(t) ==
  /\ pc[t] = "error" /\ mLock = NoThread
  /\ mLock' = t
  /\ left' = [left EXCEPT ![t] = @ - 1]
  /\ pc' = [pc EXCEPT ![t] = "flush"]
  /\ UNCHANGED <<burst, nextFrame, halVars, inflight, batchVars, bLock, cbLock, ev, at, todo, outVars>>

(* The error path holds mLock while it sends up and removes batches from    *)
(* the head of the deque, as many as getBatch() counted before.             *)
LockForError(t) ==
  /\ pc[t] = "error" /\ mLock = NoThread
  /\ mLock' = t
  /\ pc' = [pc EXCEPT ![t] = "flush"]
  /\ UNCHANGED <<burst, nextFrame, halVars, inflight, batchVars, bLock, cbLock, ev, at, left, todo, outVars>>

FlushFirstBatch(t) ==
  LET b == Head(inflight)
      s == FlushBatch(b)
  IN
  /\ pc[t] = "flush" /\ left[t] > 0 /\ inflight # <<>> /\ bLock[b] = NoThread
  /\ bLock' = [bLock EXCEPT ![b] = t]
  /\ at' = [at EXCEPT ![t] = b]
  /\ left' = [left EXCEPT ![t] = @ - 1]
  /\ todo' = [todo EXCEPT ![t] = s.calls]
  /\ queue' = [queue EXCEPT ![b] = s.queue]
  /\ delivered' = [delivered EXCEPT ![b] = s.delivered]
  /\ removed' = [removed EXCEPT ![b] = TRUE]
  /\ inflight' = Tail(inflight)
  /\ pc' = [pc EXCEPT ![t] = "calling"]
  /\ UNCHANGED <<burst, nextFrame, halVars, mLock, cbLock, ev, outVars>>

(* mInflightBatches[0] of an empty deque: the process is taken to die.      *)
FlushNothing(t) ==
  /\ pc[t] = "flush" /\ left[t] > 0 /\ inflight = <<>>
  /\ crashed' = TRUE
  /\ UNCHANGED <<burst, nextFrame, halVars, inflight, batchVars, lockVars, threadVars, outVars>>

SendError(t) ==
  /\ pc[t] = "flush" /\ left[t] = 0
  /\ at' = [at EXCEPT ![t] = NotBatched]
  /\ todo' = [todo EXCEPT ![t] = SingleCall(ev[t])]
  /\ pc' = [pc EXCEPT ![t] = "calling"]
  /\ UNCHANGED <<burst, nextFrame, halVars, inflight, batchVars, lockVars, ev, left, outVars>>

-----------------------------------------------------------------------------
(* Calls into the framework: notify() takes no lock, processCaptureResult() *)
(* takes mProcessCaptureResultLock or gives up after a second.              *)

MadeCall(t) == todo' = [todo EXCEPT ![t] = Tail(@)]

CallNotify(t) ==
  /\ pc[t] = "calling" /\ todo[t] # <<>> /\ ~Head(todo[t]).process
  /\ received' = received \cup Head(todo[t]).items
  /\ MadeCall(t)
  /\ UNCHANGED <<burst, nextFrame, halVars, inflight, batchVars, lockVars, pc, ev, at, left, dropped>>

BeginResultCall(t) ==
  /\ pc[t] = "calling" /\ todo[t] # <<>> /\ Head(todo[t]).process
  /\ cbLock = NoThread
  /\ cbLock' = t
  /\ UNCHANGED <<burst, nextFrame, halVars, inflight, batchVars, mLock, bLock, threadVars, outVars>>

EndResultCall(t) ==
  /\ pc[t] = "calling" /\ todo[t] # <<>> /\ cbLock = t
  /\ received' = received \cup Head(todo[t]).items
  /\ MadeCall(t)
  /\ cbLock' = NoThread
  /\ UNCHANGED <<burst, nextFrame, halVars, inflight, batchVars, mLock, bLock, pc, ev, at, left, dropped>>

TimeoutResultCall(t) ==
  /\ MayStall
  /\ pc[t] = "calling" /\ todo[t] # <<>> /\ Head(todo[t]).process
  /\ cbLock \notin {NoThread, t}
  /\ dropped' = dropped \cup Head(todo[t]).items
  /\ MadeCall(t)
  /\ UNCHANGED <<burst, nextFrame, halVars, inflight, batchVars, lockVars, pc, ev, at, left, received>>

(* The call of the HAL returns.                                             *)
Return(t) ==
  /\ pc' = [pc EXCEPT ![t] = "idle"]
  /\ ev' = [ev EXCEPT ![t] = NoEvent]
  /\ at' = [at EXCEPT ![t] = NotBatched]
  /\ left' = [left EXCEPT ![t] = 0]

(* Faulty: only processCaptureResult() looks whether the batch is complete. *)
ChecksFirstBatch_ResultsOnly(t) ==
  ev[t].kind = "result" /\ ev[t].frame = Burst[at[t]].last /\ ~removed[at[t]]

(* The item of the last frame of a batch may have been the last one missing. *)
ChecksFirstBatch(t) ==
  ev[t].kind # "error" /\ ev[t].frame = Burst[at[t]].last /\ ~removed[at[t]]

(* All calls made: release the locks of the scope the calls were made in.   *)
(* The error path goes on with its loop; a call that may have completed its  *)
(* batch checks the first one.                                              *)
Release(t) ==
  LET b == at[t]
      goOn(state) == pc' = [pc EXCEPT ![t] = state] /\ UNCHANGED <<ev, at, left>>
  IN
  /\ pc[t] = "calling" /\ todo[t] = <<>>
  /\ \/ /\ b = NotBatched
        /\ mLock' = IF mLock = t THEN NoThread ELSE mLock
        /\ Return(t)
        /\ UNCHANGED bLock
     \/ /\ b # NotBatched
        /\ bLock' = [bLock EXCEPT ![b] = NoThread]
        /\ CASE ev[t].kind = "error" -> goOn("flush")
             [] ChecksFirstBatch(t) -> goOn("check")
             [] OTHER -> Return(t)
        /\ UNCHANGED mLock
  /\ UNCHANGED <<burst, nextFrame, halVars, inflight, batchVars, cbLock, todo, outVars>>

(* checkAndRemoveFirstBatch() takes mLock, then the lock of the first batch. *)
LockForCheck(t) ==
  /\ pc[t] = "check" /\ mLock = NoThread
  /\ mLock' = t
  /\ pc' = [pc EXCEPT ![t] = "remove"]
  /\ UNCHANGED <<burst, nextFrame, halVars, inflight, batchVars, bLock, cbLock, ev, at, left, todo, outVars>>

RemoveFirstBatch(t) ==
  /\ pc[t] = "remove"
  /\ inflight # <<>> => bLock[Head(inflight)] = NoThread
  /\ IF inflight # <<>> /\ AllDelivered(Head(inflight))
       THEN /\ removed' = [removed EXCEPT ![Head(inflight)] = TRUE]
            /\ inflight' = Tail(inflight)
       ELSE UNCHANGED <<removed, inflight>>
  /\ mLock' = NoThread
  /\ Return(t)
  /\ UNCHANGED <<burst, nextFrame, halVars, queue, delivered, bLock, cbLock, todo, outVars>>

-----------------------------------------------------------------------------
(* A thread of the HAL that is in no call reports, once it gets mLock.       *)
HalCall(t) ==
  /\ pc[t] = "idle" /\ mLock = NoThread
  /\ \E f \in Frame : NotifyShutter(t, f) \/ NotifyError(t, f) \/ ProcessCaptureResult(t, f)

(* The steps of a call that is under way, other than FlushNothing.          *)
Step(t) ==
  \/ LockBatch(t) \/ LockForError(t) \/ FlushFirstBatch(t) \/ SendError(t)
  \/ CallNotify(t) \/ BeginResultCall(t) \/ EndResultCall(t) \/ TimeoutResultCall(t)
  \/ Release(t) \/ LockForCheck(t) \/ RemoveFirstBatch(t)

Work == Submit \/ SubmitFails \/ RegisterBatch \/ \E t \in Thread : HalCall(t) \/ Step(t)

(* Nothing more to do: the requests are over and the HAL has reported all.  *)
Quiescent == burst \notin Batch /\ pending = {} /\ \A t \in Thread : pc[t] = "idle"

Next ==
  \/ ~crashed /\ Work /\ UNCHANGED crashed
  \/ ~crashed /\ \E t \in Thread : FlushNothing(t)
  \/ (crashed \/ Quiescent) /\ UNCHANGED vars

Spec == Init /\ [][Next]_vars

(* Scheduling: the system does not stop while a step can be taken (threads  *)
(* run, callbacks return, requests are submitted or refused and the HAL      *)
(* reports what it owes).  As bursts and errors are finitely many, every     *)
(* step is progress and no fairness between the threads is needed.           *)
FairSpec == Spec /\ WF_vars(Next)

-----------------------------------------------------------------------------
State == {"idle", "queue", "error", "flush", "calling", "check", "remove"}

TypeOK ==
  /\ burst \in Nat /\ nextFrame \in Nat /\ errors \in Nat
  /\ pending \subseteq Item /\ owed \subseteq Item /\ early \subseteq Batch
  /\ inflight \in Seq(Batch)
  /\ queue \in [Batch -> [BatchedClass -> Seq(Nat)]]
  /\ delivered \in [Batch -> SUBSET BatchedClass]
  /\ removed \in [Batch -> BOOLEAN]
  /\ {mLock, cbLock} \subseteq Thread \cup {NoThread}
  /\ bLock \in [Batch -> Thread \cup {NoThread}]
  /\ pc \in [Thread -> State]
  /\ ev \in [Thread -> Event]
  /\ at \in [Thread -> Batch \cup {NotBatched}]
  /\ left \in [Thread -> Nat]
  /\ todo \in [Thread -> Seq(Call)]
  /\ received \subseteq Delivery /\ dropped \subseteq Delivery
  /\ crashed \in BOOLEAN

(* The places where an item of the HAL can be: with the HAL, entering with  *)
(* a thread, held back in the queues of a batch, in the calls a thread is   *)
(* making, or sent.                                                         *)
Of(d) == <<d[2], d[3]>>
Entering(threads, i) ==
  {<<"entering", t>> : t \in {t \in threads : pc[t] = "queue" /\ i \in ev[t].items}}
HeldIn(queues, b, i) ==
  {<<"held", b, k>> : k \in {k \in DOMAIN queues[i[1]] : queues[i[1]][k] = i[2]}}
HeldBy(batches, i) ==
  UNION {HeldIn(queue[b], b, i) : b \in {b \in batches : i[1] \in BatchedClass}}
CalledIn(calls, t, i) ==
  UNION {{<<"call", t, k, d>> : d \in {d \in calls[k].items : Of(d) = i}} : k \in DOMAIN calls}
CalledBy(threads, i) == UNION {CalledIn(todo[t], t, i) : t \in threads}
SentUp(place, sent, i) == {<<place, d>> : d \in {d \in sent : Of(d) = i}}
Places(i) ==
  {<<"hal">> : x \in {i} \cap pending}
    \cup Entering(Thread, i) \cup HeldBy(Batch, i) \cup CalledBy(Thread, i)
    \cup SentUp("received", received, i) \cup SentUp("dropped", dropped, i)

(* No item is lost or duplicated: at any time an item the HAL owes is in    *)
(* exactly one place, whatever the interleaving of submissions, callbacks,  *)
(* removals of batches, errors and timeouts; and what the HAL gave up on,   *)
(* or never accepted, is nowhere.                                           *)
AccountedOnce ==
  \A i \in Class \X Frame : Cardinality(Places(i)) = IF i \in owed THEN 1 ELSE 0

(* A batch that left mInflightBatches holds nothing back: nobody would ever *)
(* send it up (the reason for the mRemoved flag).                           *)
RemovedBatchIsEmpty == \A b \in Batch : removed[b] => \A c \in BatchedClass : queue[b][c] = <<>>

(* An item of a batch that the HAL reported on before it was registered.    *)
FromEarly(f) == \E b \in early : f \in Frames(b)

(* When all is over, everything owed was sent, and no batch left in the     *)
(* deque waits for anything: what an error leaves there is complete.  Only  *)
(* a batch the HAL reported on before registerBatch() may keep items back.  *)
NothingHeldBack ==
  Quiescent /\ ~crashed =>
    /\ \A i \in owed : FromEarly(i[2]) \/ \E d \in received \cup dropped : Of(d) = i
    /\ \A k \in DOMAIN inflight : inflight[k] \in early \/ AllDelivered(inflight[k])

(* Without errors no batch is left behind: a batch that completes is at the *)
(* head of the deque, unless one reported on too early blocks the head.     *)
NoBatchLeft == Quiescent /\ errors = 0 /\ inflight # <<>> => Head(inflight) \in early

(* When the framework hears of an error on a batched frame, every batch up  *)
(* to the one of the failed frame has been sent up and removed, unless the  *)
(* HAL reported on that one before registerBatch().                         *)
ErrorAfterFlush ==
  [][\A d \in received' \ received, b \in Batch \ early :
       d[2] = Error /\ d[3] \in Frames(b) /\ b \in Elems(inflight) \cup {c \in Batch : removed[c]}
         => \A k \in DOMAIN inflight' : inflight'[k] > b]_vars

(* An item comes up under the number of the frame it belongs to.  The code  *)
(* counts the buffers of a batch from its first frame; a buffer reported    *)
(* before registerBatch() is not in the count, and relabels that batch, but *)
(* no other one.                                                            *)
LabelledByFrame == \A d \in received : d[1] = d[3] \/ FromEarly(d[3])

(* notify(error) stops batching for the batches up to the failed frame and  *)
(* for no later one.                                                        *)
FlushesOnlyEarlierBatches ==
  [][\A t \in Thread, b \in Batch :
       mLock = t /\ ev[t].kind = "error" /\ removed'[b] /\ ~removed[b]
         => Burst[b].first <= ev[t].frame]_vars
=============================================================================
