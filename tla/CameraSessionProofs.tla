------------------------ MODULE CameraSessionProofs ------------------------
(* What a session has in flight, imported and open agrees with what the    *)
(* camera HAL has, for any streams, buffers, threads and number of requests. *)
EXTENDS CameraSession, TLAPS

Submitting == call \in {"import", "record", "submit"}

(* The device is open while the session is not closed; while it is not, no  *)
(* thread of the HAL runs and the HAL has nothing.                          *)
Lifecycle ==
  /\ call # "free" => (halOpen <=> ~mClosed)
  /\ call = "free" => ~halOpen /\ ~mClosed /\ life # "none"
  /\ mClosed => mCirculatingBuffers = [s \in {} |-> {}]
  /\ life = "none" => mClosed /\ call = "none"
  /\ call \notin {"none", "free"} => life = "live" /\ halOpen /\ InitStatusOK
  /\ ~halOpen => held = {} /\ \A t \in HalThread : thread[t] = IdleThread

Threads ==
  \A t \in HalThread :
    /\ thread[t].at = "idle" => thread[t] = IdleThread
    /\ thread[t].at # "idle" => thread[t].frame \in Frame
    /\ thread[t].at = "metadata" => thread[t].part # 0
    /\ thread[t].part = 0 => ~thread[t].boost

(* A request that is not submitted yet has the newest frame: nothing else   *)
(* is of that frame.                                                        *)
Frames ==
  /\ \A b \in mInflightBuffers \cup held : b.frame <= frame
  /\ \A t \in HalThread : thread[t].frame <= frame /\ \A b \in thread[t].buffers : b.frame <= frame
  /\ \A f \in Frame : part[f] # 0 => f <= frame
  /\ call \in {"import", "record"} => \A b \in mInflightBuffers : b.frame < frame
  /\ Submitting =>
       /\ request.frame = frame /\ \A b \in request.buffers : b.frame = frame
       /\ \A b \in held : b.frame < frame
       /\ \A t \in HalThread : thread[t].frame < frame /\ \A b \in thread[t].buffers : b.frame < frame
       /\ \A f \in Frame : part[f] # 0 => f < frame

(* The HAL returns no buffer twice.                                        *)
Apart ==
  /\ \A t \in HalThread : thread[t].buffers \cap held = {}
  /\ \A t, u \in HalThread : t # u => thread[t].buffers \cap thread[u].buffers = {}

Flight == call = "submit" => request.buffers \subseteq mInflightBuffers

(* The framework waits for every buffer the session or the HAL has.        *)
Awaited ==
  /\ held \subseteq awaited
  /\ \A t \in HalThread : thread[t].buffers \subseteq awaited
  /\ Submitting => request.buffers \subseteq awaited

(* It waits for the metadata of a frame until one thread has the last part  *)
(* or the error.                                                            *)
HasMetadata(t) == thread[t].part # 0 \/ thread[t].at \in {"error", "deliver error"}
OwedIsAwaited == \A f \in Frame : part[f] # 0 => f \in awaitedMetadata
ReturnedIsAwaited == \A t \in HalThread : HasMetadata(t) => thread[t].frame \in awaitedMetadata
OneThread ==
  \A t, u \in HalThread : t # u /\ HasMetadata(t) /\ HasMetadata(u) => thread[t].frame # thread[u].frame
LastIsLast ==
  \A t \in HalThread :
    thread[t].at \in {"error", "deliver error"} \/ thread[t].part = mNumPartialResults
      => part[thread[t].frame] = 0
SubmittedIsAwaited == Submitting => request.frame \in awaitedMetadata
Parts == OwedIsAwaited /\ ReturnedIsAwaited /\ OneThread /\ LastIsLast /\ SubmittedIsAwaited

Streams == Submitting => \A b \in request.buffers : b.stream \in mStreamMap

First ==
  /\ halFresh => mFirstRequest /\ call # "taken"
  /\ Submitting /\ mFirstRequest => request.settings # "null"
  /\ call = "submit" /\ mFirstRequest => request.physical # "null"

IInv ==
  /\ TypeOK /\ Lifecycle /\ Threads /\ Frames /\ Apart /\ Flight /\ Awaited /\ Parts
  /\ Streams /\ First /\ InflightIsOwed /\ HalBuffersAreImported /\ StreamsHaveCaches

ThreadRecord ==
  [at : {"idle", "check", "metadata", "erase", "deliver", "error", "deliver error"},
   frame : Frame \cup {0}, buffers : SUBSET Buffer,
   part : 0 .. mNumPartialResults, boost : BOOLEAN, override : BOOLEAN]

(* What the steps of the threads of the HAL do to the rest of the session. *)
SessionStays == UNCHANGED <<life, mClosed, mInitFail, mStreamMap, mCirculatingBuffers, mFirstRequest,
                            call, request, halOpen, halFresh, configured, stranded, frame>>
OthersStay(t) ==
  /\ thread' \in [HalThread -> ThreadRecord]
  /\ \A u \in HalThread \ {t} : thread'[u] = thread[u]

(* A thread goes on with what it has.                                      *)
Moves(t) ==
  /\ OthersStay(t)
  /\ thread'[t].frame = thread[t].frame /\ thread'[t].buffers = thread[t].buffers
  /\ thread'[t].part = thread[t].part
  /\ thread[t].at # "metadata" => thread'[t].boost = thread[t].boost
  /\ \/ thread[t].at = "check" /\ thread'[t].at \in {"metadata", "erase"}
     \/ thread[t].at = "metadata" /\ thread'[t].at = "erase"
     \/ thread[t].at = "erase" /\ thread'[t].at = "deliver"
     \/ thread[t].at = "error" /\ thread'[t].at = "deliver error"
  /\ thread'[t].at = "metadata" => thread[t].part # 0
  /\ mInflightBuffers' = mInflightBuffers \ (IF thread[t].at = "erase" THEN thread[t].buffers ELSE {})
  /\ SessionStays /\ UNCHANGED <<held, part, awaited, awaitedMetadata>>

(* It has delivered what it had to the framework, or dropped it.           *)
Ends(t) ==
  /\ OthersStay(t)
  /\ thread'[t] = IdleThread
  /\ thread[t].at \in {"deliver", "error", "deliver error"}
  /\ awaited \ thread[t].buffers \subseteq awaited'
  /\ \/ /\ thread[t].at = "deliver error" \/ thread[t].part = mNumPartialResults
        /\ awaitedMetadata' = awaitedMetadata \ {thread[t].frame}
     \/ awaitedMetadata' = awaitedMetadata
  /\ SessionStays /\ UNCHANGED <<mInflightBuffers, held, part>>

(* The HAL gives it buffers, a part of the metadata or both; or an error.   *)
Gives(t, f, bs, p) ==
  /\ OthersStay(t)
  /\ thread[t] = IdleThread /\ halOpen
  /\ thread'[t].at = "check" /\ thread'[t].frame = f /\ thread'[t].buffers = bs /\ thread'[t].part = p
  /\ p = 0 => ~thread'[t].boost
  /\ bs \subseteq OfFrame(held, f) /\ held' = held \ bs
  /\ p \in {0, part[f]} /\ (p # 0 => OwesPart(f)) /\ (bs # {} \/ p # 0)
  /\ part' = IF p = 0 THEN part ELSE [part EXCEPT ![f] = NextPart(f)]
  /\ SessionStays /\ UNCHANGED <<mInflightBuffers, awaited, awaitedMetadata>>

Errs(t, f) ==
  /\ OthersStay(t)
  /\ thread[t] = IdleThread /\ halOpen /\ OwesPart(f)
  /\ thread'[t].at = "error" /\ thread'[t].frame = f /\ thread'[t].buffers = {} /\ thread'[t].part = 0
  /\ ~thread'[t].boost
  /\ part' = [part EXCEPT ![f] = 0]
  /\ SessionStays /\ UNCHANGED <<mInflightBuffers, held, awaited, awaitedMetadata>>

(* An idle thread has the type of every thread.                             *)
LEMMA IdleIsRecord == IdleThread \in ThreadRecord
  BY SessionAssumption DEF IdleThread, ThreadRecord

(* What an idle thread has: nothing.                                        *)
LEMMA IdleFields ==
  /\ IdleThread.at = "idle" /\ IdleThread.frame = 0 /\ IdleThread.buffers = {}
  /\ IdleThread.part = 0 /\ ~IdleThread.boost
  BY DEF IdleThread

(* The type of the threads, by one name.                                    *)
LEMMA ThreadsHaveRecords == TypeOK => thread \in [HalThread -> ThreadRecord]
  BY DEF TypeOK, ThreadRecord

(* A buffer is returning when some thread has it and has not erased it.     *)
LEMMA ReturningBuffers ==
  /\ \A b : b \in Returning <=>
       \E t \in HalThread : thread[t].at \in {"check", "metadata", "erase"} /\ b \in thread[t].buffers
  /\ \A b : b \in Returning' <=>
       \E t \in HalThread : thread'[t].at \in {"check", "metadata", "erase"} /\ b \in thread'[t].buffers
  BY DEF Returning

(* A step that replaces what one thread has leaves the others alone.        *)
LEMMA Replaced ==
  ASSUME TypeOK, NEW t \in HalThread, NEW r \in ThreadRecord, thread' = [thread EXCEPT ![t] = r]
  PROVE  OthersStay(t) /\ thread'[t] = r
  BY ThreadsHaveRecords DEF OthersStay

(* A result on its way is never dropped: what the HAL returns is in flight. *)
LEMMA CheckMoves ==
  ASSUME IInv, NEW t \in HalThread, CheckInflight(t)
  PROVE  Moves(t)
<1> DEFINE r == [thread[t] EXCEPT !.at = IF thread[t].part = 0 THEN "erase" ELSE "metadata"]
<1>1. thread[t] \in ThreadRecord
  BY ThreadsHaveRecords DEF IInv
<1>2. thread[t] # IdleThread
  BY DEF CheckInflight, IdleThread
<1>3. thread[t].buffers \subseteq mInflightBuffers
  BY <1>2, ReturningBuffers DEF CheckInflight, IInv, Lifecycle, InflightIsOwed
<1>4. thread' = [thread EXCEPT ![t] = r]
  BY <1>3, ThreadsHaveRecords DEF CheckInflight, IInv
<1>5. r \in ThreadRecord
  BY <1>1 DEF ThreadRecord
<1>6. OthersStay(t) /\ thread'[t] = r
  BY <1>4, <1>5, Replaced DEF IInv
<1>7. thread[t].at = "check"
  BY DEF CheckInflight
<1>8. SessionStays /\ UNCHANGED <<held, part, awaited, awaitedMetadata, mInflightBuffers>>
  BY DEF CheckInflight, SessionStays, stateVars, streamVars, inflightVars, callVars, halVars, frameworkVars, bounds
<1> QED BY <1>1, <1>6, <1>7, <1>8 DEF Moves, ThreadRecord

(* A thread that overrides metadata goes on with what it has.               *)
LEMMA OverrideMoves ==
  ASSUME IInv, NEW t \in HalThread, OverrideMetadata(t)
  PROVE  Moves(t)
<1>1. thread[t] \in ThreadRecord
  BY ThreadsHaveRecords DEF IInv
<1> DEFINE added == thread[t].part = mNumPartialResults /\ AddBoost(t)
           override == thread[t].frame \in mInflightAETriggerOverrides
           r == [thread[t] EXCEPT !.at = "erase", !.boost = @ \/ added, !.override = override]
<1>2. added \in BOOLEAN /\ override \in BOOLEAN
  BY DEF AddBoost
<1>3. thread' = [thread EXCEPT ![t] = r]
  BY Zenon DEF OverrideMetadata
<1> HIDE DEF added, override
<1>4. r \in ThreadRecord
  BY <1>1, <1>2 DEF ThreadRecord
<1>5. OthersStay(t) /\ thread'[t] = r
  BY <1>3, <1>4, Replaced DEF IInv
<1>6. thread[t].at = "metadata"
  BY DEF OverrideMetadata
<1>7. SessionStays /\ UNCHANGED <<held, part, awaited, awaitedMetadata, mInflightBuffers>>
  BY DEF OverrideMetadata, SessionStays, stateVars, streamVars, callVars, halVars, frameworkVars, bounds
<1> QED BY <1>1, <1>5, <1>6, <1>7 DEF Moves, ThreadRecord

(* So does one that erases its buffers from those in flight.                *)
LEMMA EraseMoves ==
  ASSUME IInv, NEW t \in HalThread, EraseInflight(t)
  PROVE  Moves(t)
<1> DEFINE r == [thread[t] EXCEPT !.at = "deliver"]
<1>1. thread[t] \in ThreadRecord
  BY ThreadsHaveRecords DEF IInv
<1>2. r \in ThreadRecord
  BY <1>1 DEF ThreadRecord
<1>3. thread' = [thread EXCEPT ![t] = r]
  BY ThreadsHaveRecords DEF EraseInflight, IInv
<1>4. OthersStay(t) /\ thread'[t] = r
  BY <1>2, <1>3, Replaced DEF IInv
<1>5. thread[t].at = "erase" /\ mInflightBuffers' = mInflightBuffers \ thread[t].buffers
  BY DEF EraseInflight, Erased
<1>6. SessionStays /\ UNCHANGED <<held, part, awaited, awaitedMetadata>>
  BY DEF EraseInflight, SessionStays, stateVars, streamVars, callVars, halVars, frameworkVars, bounds
<1> QED BY <1>1, <1>4, <1>5, <1>6 DEF Moves, ThreadRecord

(* And one that clears the notes of a failed frame.                         *)
LEMMA NotifyMoves ==
  ASSUME IInv, NEW t \in HalThread, NotifyError(t)
  PROVE  Moves(t)
<1> DEFINE r == [thread[t] EXCEPT !.at = "deliver error"]
<1>1. thread[t] \in ThreadRecord
  BY ThreadsHaveRecords DEF IInv
<1>2. r \in ThreadRecord
  BY <1>1 DEF ThreadRecord
<1>3. thread' = [thread EXCEPT ![t] = r]
  BY ThreadsHaveRecords DEF NotifyError, IInv
<1>4. OthersStay(t) /\ thread'[t] = r
  BY <1>2, <1>3, Replaced DEF IInv
<1>5. thread[t].at = "error"
  BY DEF NotifyError
<1>6. SessionStays /\ UNCHANGED <<held, part, awaited, awaitedMetadata, mInflightBuffers>>
  BY DEF NotifyError, SessionStays, stateVars, streamVars, callVars, halVars, frameworkVars, bounds
<1> QED BY <1>1, <1>4, <1>5, <1>6 DEF Moves, ThreadRecord

(* A thread that has delivered or dropped something has nothing left.       *)
LEMMA DeliveryEnds ==
  ASSUME IInv, NEW t \in HalThread, Deliver(t) \/ DropError(t) \/ DeliverError(t)
  PROVE  Ends(t)
<1>1. OthersStay(t) /\ thread'[t] = IdleThread
  BY Replaced, IdleIsRecord DEF Deliver, DropError, DeliverError, IInv
<1>2. SessionStays /\ UNCHANGED <<mInflightBuffers, held, part>>
  BY DEF Deliver, DropError, DeliverError, SessionStays, stateVars, streamVars, inflightVars, callVars, halVars,
         frameworkVars, bounds
<1>3. CASE Deliver(t)
  <2>1. CASE Arrives(t)
    BY <1>1, <1>2, <1>3, <2>1 DEF Ends, Deliver, Arrives, Noticed, MetadataIsOver
  <2>2. CASE Dropped(t)
    BY <1>1, <1>2, <1>3, <2>2 DEF Ends, Deliver, Dropped, Noticed
  <2> QED BY <1>3, <2>1, <2>2 DEF Deliver
<1>4. CASE DropError(t)
  BY <1>1, <1>2, <1>4 DEF Ends, DropError, frameworkVars
<1>5. CASE DeliverError(t)
  BY <1>1, <1>2, <1>5 DEF Ends, DeliverError, MetadataIsOver
<1> QED BY <1>3, <1>4, <1>5

(* A result of the HAL gives a thread buffers, a part, or both.             *)
LEMMA ResultGives ==
  ASSUME IInv, NEW t \in HalThread, NEW f \in Frame, HalResult(t, f)
  PROVE  \E bs, p : Gives(t, f, bs, p)
<1>1. PICK bs \in SUBSET OfFrame(held, f), p \in {0, part[f]} :
        /\ p # 0 => OwesPart(f)
        /\ bs # {} \/ p # 0
        /\ \E key \in {FALSE, p # 0 /\ f \notin boosted} :
             thread' = [thread EXCEPT ![t] = [at |-> "check", frame |-> f, buffers |-> bs, part |-> p,
                                              boost |-> key, override |-> FALSE]]
        /\ held' = held \ bs
        /\ part' = IF p = 0 THEN part ELSE [part EXCEPT ![f] = NextPart(f)]
  BY DEF HalResult
<1>2. PICK key \in {FALSE, p # 0 /\ f \notin boosted} :
        thread' = [thread EXCEPT ![t] = [at |-> "check", frame |-> f, buffers |-> bs, part |-> p,
                                         boost |-> key, override |-> FALSE]]
  BY <1>1
<1>3. key \in BOOLEAN /\ (key => p # 0)
  BY <1>2
<1> DEFINE r == [at |-> "check", frame |-> f, buffers |-> bs, part |-> p, boost |-> key, override |-> FALSE]
<1>4. bs \subseteq Buffer /\ p \in 0 .. mNumPartialResults
  <2>1. held \subseteq Buffer /\ part \in [Frame -> 0 .. mNumPartialResults]
    BY DEF IInv, TypeOK
  <2>2. p = 0 \/ p = part[f]
    OBVIOUS
  <2> QED BY <2>1, <2>2, SessionAssumption DEF OfFrame
<1>5. r \in ThreadRecord
  BY <1>3, <1>4 DEF ThreadRecord
<1>6. OthersStay(t) /\ thread'[t] = r
  BY <1>2, <1>5, Replaced DEF IInv
<1>7. SessionStays /\ UNCHANGED <<mInflightBuffers, awaited, awaitedMetadata>>
  BY DEF HalResult, SessionStays, stateVars, streamVars, inflightVars, callVars, frameworkVars, bounds
<1>8. halOpen /\ thread[t] = IdleThread
  BY DEF HalResult
<1> QED BY <1>1, <1>3, <1>6, <1>7, <1>8 DEF Gives

(* An error of the HAL gives a thread the rest of the metadata.             *)
LEMMA ErrorErrs ==
  ASSUME IInv, NEW t \in HalThread, NEW f \in Frame, HalError(t, f)
  PROVE  Errs(t, f)
<1> DEFINE r == [IdleThread EXCEPT !.at = "error", !.frame = f]
<1>1. r \in ThreadRecord
  <2>1. IdleThread \in ThreadRecord
    BY IdleIsRecord
  <2> QED BY <2>1 DEF ThreadRecord
<1>2. OthersStay(t) /\ thread'[t] = r
  BY <1>1, Replaced DEF HalError, IInv
<1>3. SessionStays /\ UNCHANGED <<mInflightBuffers, held, awaited, awaitedMetadata>>
  BY DEF HalError, SessionStays, stateVars, streamVars, inflightVars, callVars, frameworkVars, bounds
<1> QED BY <1>2, <1>3 DEF HalError, Errs, IdleThread

(* Every step is one of the framework's or one of these.                   *)
LEMMA Cases ==
  ASSUME IInv, Next
  PROVE  \/ Open \/ ClientDies \/ DestructorOfClosed \/ CloseDevice \/ FreeBuffers
         \/ \E streams \in SUBSET Stream \ {{}} : ConfigureStreams(streams)
         \/ \E settings \in {"null", "plain", "cancel", "corrupt"}, physical \in {"fine", "null", "corrupt"} :
              BeginRequest(settings, physical)
         \/ ImportRequest \/ RecordRequest \/ HalTakesRequest \/ HalRefusesRequest \/ EndRequest
         \/ \E t \in HalThread : Moves(t) \/ Ends(t)
         \/ \E t \in HalThread, f \in Frame : Errs(t, f) \/ \E bs, p : Gives(t, f, bs, p)
  BY CheckMoves, OverrideMoves, EraseMoves, NotifyMoves, DeliveryEnds, ResultGives, ErrorErrs DEF Next
-----------------------------------------------------------------------------
(* Nothing else is of the frame of a request that is being submitted.      *)
LEMMA Newest ==
  ASSUME IInv, Submitting
  PROVE  /\ request.buffers \cap held = {}
         /\ \A t \in HalThread : request.buffers \cap thread[t].buffers = {}
         /\ call \in {"import", "record"} => request.buffers \cap mInflightBuffers = {}
<1>1. frame \in Nat
  <2>1. frame \in 0 .. MaxFrames /\ MaxFrames \in Nat
    BY SessionAssumption DEF IInv, TypeOK
  <2> QED BY <2>1
<1>2. \A b \in request.buffers : ~(b.frame < frame)
  BY <1>1 DEF IInv, Frames
<1> QED BY <1>2 DEF IInv, Frames

(* One lemma for each part of the invariant; in each, a step for each       *)
(* action, where the threads of the HAL have the four kinds of Cases.        *)
LEMMA LifecycleStep == IInv /\ [Next]_vars => Lifecycle'
<1> SUFFICES ASSUME IInv, [Next]_vars PROVE Lifecycle'
  OBVIOUS
<1> USE DEF IInv, stateVars, streamVars, inflightVars, callVars, halVars, frameworkVars, bounds
<1>1. CASE Open
  BY <1>1 DEF Open, NewSession, MayReopen, InitializeFails, QueueFails, Lifecycle
<1>2. CASE ClientDies \/ DestructorOfClosed
  BY <1>2 DEF ClientDies, DestructorOfClosed, Lifecycle, InitStatusOK
<1>3. CASE CloseDevice
  BY <1>3 DEF CloseDevice, Lifecycle, InitStatusOK
<1>4. CASE FreeBuffers
  BY <1>4 DEF FreeBuffers, Lifecycle
<1>5. ASSUME NEW streams \in SUBSET Stream \ {{}}, ConfigureStreams(streams) PROVE Lifecycle'
  BY <1>5 DEF ConfigureStreams, MayCall, Lifecycle, InitStatusOK
<1>6. ASSUME NEW settings, NEW physical, BeginRequest(settings, physical) PROVE Lifecycle'
  BY <1>6 DEF BeginRequest, MayCall, Lifecycle, InitStatusOK
<1>7. CASE ImportRequest \/ RecordRequest
  BY <1>7 DEF ImportRequest, RecordRequest, RequestFails, Lifecycle, InitStatusOK
<1>8. CASE HalTakesRequest \/ HalRefusesRequest \/ EndRequest
  BY <1>8 DEF HalTakesRequest, HalRefusesRequest, RequestFails, EndRequest, Lifecycle, InitStatusOK
<1>9. ASSUME NEW t \in HalThread, Moves(t) PROVE Lifecycle'
  <2>1. halOpen
    BY <1>9, IdleFields DEF Lifecycle, Moves
  <2> QED BY <1>9, <2>1 DEF Moves, SessionStays, Lifecycle, InitStatusOK
<1>10. ASSUME NEW t \in HalThread, Ends(t) PROVE Lifecycle'
  BY <1>10 DEF Ends, OthersStay, SessionStays, Lifecycle, InitStatusOK
<1>11. ASSUME NEW t \in HalThread, NEW f \in Frame, Errs(t, f) PROVE Lifecycle'
  BY <1>11 DEF Errs, SessionStays, Lifecycle, InitStatusOK
<1>12. ASSUME NEW t \in HalThread, NEW f \in Frame, NEW bs, NEW p, Gives(t, f, bs, p) PROVE Lifecycle'
  BY <1>12 DEF Gives, SessionStays, Lifecycle, InitStatusOK
<1>13. CASE UNCHANGED vars
  BY <1>13 DEF vars, Lifecycle, InitStatusOK
<1> QED BY <1>1, <1>2, <1>3, <1>4, <1>5, <1>6, <1>7, <1>8, <1>9, <1>10, <1>11, <1>12, <1>13, Cases

(* What the fields of a thread say of each other.                           *)
LEMMA ThreadsStep == IInv /\ [Next]_vars => Threads'
<1> SUFFICES ASSUME IInv, [Next]_vars PROVE Threads'
  OBVIOUS
<1> USE DEF IInv
<1>1. ASSUME NEW t \in HalThread, Moves(t) PROVE Threads'
  <2>1. thread[t].frame \in Frame
    BY <1>1 DEF Moves, Threads
  <2>2. thread'[t].at # "idle" /\ (thread'[t].part = 0 => ~thread'[t].boost)
    BY <1>1 DEF Moves, Threads
  <2> QED BY <1>1, <2>1, <2>2 DEF Moves, OthersStay, Threads
<1>2. ASSUME NEW t \in HalThread, Ends(t) PROVE Threads'
  BY <1>2, IdleFields DEF Ends, OthersStay, Threads
<1>3. ASSUME NEW t \in HalThread, NEW f \in Frame, Errs(t, f) PROVE Threads'
  BY <1>3 DEF Errs, OthersStay, Threads
<1>4. ASSUME NEW t \in HalThread, NEW f \in Frame, NEW bs, NEW p, Gives(t, f, bs, p) PROVE Threads'
  <2>1. thread'[t].at = "check" /\ thread'[t].frame = f /\ (thread'[t].part = 0 => ~thread'[t].boost)
    BY <1>4 DEF Gives
  <2> QED BY <1>4, <2>1 DEF Gives, OthersStay, Threads
<1>5. CASE thread' = thread
  BY <1>5 DEF Threads
<1>6. thread' = thread \/ (\E t \in HalThread : Moves(t) \/ Ends(t))
        \/ (\E t \in HalThread, f \in Frame : Errs(t, f) \/ \E bs, p : Gives(t, f, bs, p))
  <2>1. CASE UNCHANGED vars
    BY <2>1 DEF vars
  <2> QED BY <2>1, Cases DEF Open, ClientDies, DestructorOfClosed, CloseDevice, FreeBuffers, ConfigureStreams,
        BeginRequest, ImportRequest, RecordRequest, HalTakesRequest, HalRefusesRequest, EndRequest
<1> QED BY <1>1, <1>2, <1>3, <1>4, <1>5, <1>6

(* A request is in flight before the HAL is given it.                       *)
LEMMA FlightStep == IInv /\ [Next]_vars => Flight'
<1> SUFFICES ASSUME IInv, [Next]_vars, call' = "submit" PROVE request'.buffers \subseteq mInflightBuffers'
  BY DEF Flight
<1> USE DEF IInv
<1>1. CASE RecordRequest
  BY <1>1 DEF RecordRequest, RequestFails
<1>2. ASSUME NEW t \in HalThread, Moves(t) PROVE request'.buffers \subseteq mInflightBuffers'
  <2>1. call = "submit" /\ request' = request
    BY <1>2 DEF Moves, SessionStays
  <2>2. \A b \in thread[t].buffers : b \notin request.buffers
    BY <2>1, Newest DEF Submitting
  <2> QED BY <1>2, <2>1, <2>2 DEF Moves, Flight
<1>3. CASE UNCHANGED <<call, request, mInflightBuffers>>
  BY <1>3 DEF Flight
<1>4. RecordRequest \/ (\E t \in HalThread : Moves(t)) \/ UNCHANGED <<call, request, mInflightBuffers>>
  <2>1. CASE UNCHANGED vars
    BY <2>1 DEF vars, callVars, inflightVars
  <2>2. ASSUME NEW t \in HalThread, NEW f \in Frame, NEW bs, NEW p, Gives(t, f, bs, p) \/ Errs(t, f)
        PROVE UNCHANGED <<call, request, mInflightBuffers>>
    BY <2>2 DEF Gives, Errs, SessionStays
  <2>7. ASSUME NEW t \in HalThread, Ends(t) PROVE UNCHANGED <<call, request, mInflightBuffers>>
    BY <2>7 DEF Ends, SessionStays
  <2>3. CASE Open \/ ClientDies \/ DestructorOfClosed \/ CloseDevice \/ FreeBuffers \/ EndRequest
    BY <2>3 DEF Open, MayReopen, ClientDies, DestructorOfClosed, CloseDevice, FreeBuffers, EndRequest,
                callVars, inflightVars, Lifecycle
  <2>4. ASSUME NEW streams, ConfigureStreams(streams)
        PROVE UNCHANGED <<call, request, mInflightBuffers>>
    BY <2>4 DEF ConfigureStreams, callVars, inflightVars
  <2>6. ASSUME NEW settings, NEW physical, BeginRequest(settings, physical)
        PROVE UNCHANGED <<call, request, mInflightBuffers>>
    BY <2>6 DEF BeginRequest, callVars, inflightVars
  <2>5. CASE ImportRequest \/ HalTakesRequest \/ HalRefusesRequest
    BY <2>5 DEF ImportRequest, HalTakesRequest, HalRefusesRequest, RequestFails, inflightVars
  <2> QED BY <2>1, <2>2, <2>3, <2>4, <2>5, <2>6, <2>7, Cases
<1> QED BY <1>1, <1>2, <1>3, <1>4
-----------------------------------------------------------------------------
(* A request stays one of known streams.                                    *)
LEMMA StreamsStep == IInv /\ [Next]_vars => Streams'
<1> SUFFICES ASSUME IInv, [Next]_vars, Submitting' PROVE \A b \in request'.buffers : b.stream \in mStreamMap'
  BY DEF Streams
<1> USE DEF IInv, Submitting
<1>1. ASSUME NEW settings, NEW physical, BeginRequest(settings, physical)
      PROVE  \A b \in request'.buffers : b.stream \in mStreamMap'
  <2>1. PICK bs \in Outputs(frame + 1) : request'.buffers = bs
    BY <1>1 DEF BeginRequest, MayCall, callVars
  <2>2. bs \subseteq [stream : configured, frame : {frame + 1}, buffer : BufferId]
    BY DEF Outputs
  <2>3. configured \subseteq mStreamMap /\ mStreamMap' = mStreamMap
    BY <1>1 DEF TypeOK, BeginRequest
  <2> QED BY <2>1, <2>2, <2>3
<1>2. CASE UNCHANGED vars
  BY <1>2 DEF vars, callVars, streamVars, Streams
<1>3. CASE Open \/ ClientDies \/ DestructorOfClosed \/ CloseDevice \/ FreeBuffers
  BY <1>3 DEF Open, MayReopen, ClientDies, DestructorOfClosed, CloseDevice, FreeBuffers, callVars, streamVars,
              Lifecycle, Streams
<1>4. ASSUME NEW streams, ConfigureStreams(streams) PROVE FALSE
  BY <1>4 DEF ConfigureStreams, MayCall, callVars
<1>5. CASE ImportRequest \/ RecordRequest \/ HalTakesRequest \/ HalRefusesRequest \/ EndRequest
  BY <1>5 DEF ImportRequest, RecordRequest, HalTakesRequest, HalRefusesRequest, EndRequest, RequestFails,
              streamVars, Streams
<1>6. ASSUME NEW t \in HalThread, Moves(t) \/ Ends(t) PROVE UNCHANGED <<call, request, mStreamMap>>
  BY <1>6 DEF Moves, Ends, SessionStays
<1>7. ASSUME NEW t \in HalThread, NEW f \in Frame, NEW bs, NEW p, Errs(t, f) \/ Gives(t, f, bs, p)
      PROVE  UNCHANGED <<call, request, mStreamMap>>
  BY <1>7 DEF Errs, Gives, SessionStays
<1>8. CASE UNCHANGED <<call, request, mStreamMap>>
  BY <1>8 DEF Streams
<1> QED BY <1>1, <1>2, <1>3, <1>4, <1>5, <1>6, <1>7, <1>8, Cases

(* The first request after a configuration has settings.                    *)
LEMMA FirstStep == IInv /\ [Next]_vars => First'
<1> SUFFICES ASSUME IInv, [Next]_vars PROVE First'
  OBVIOUS
<1> USE DEF IInv, First, Submitting
<1>1. CASE Open \/ ClientDies \/ DestructorOfClosed \/ CloseDevice \/ FreeBuffers
  BY <1>1 DEF Open, NewSession, MayReopen, ClientDies, DestructorOfClosed, CloseDevice, FreeBuffers,
              callVars, streamVars, halVars, Lifecycle
<1>2. ASSUME NEW streams, ConfigureStreams(streams) PROVE First'
  BY <1>2 DEF ConfigureStreams, MayCall, ChangedStream, HalRefusesStreams, HalTakesStreams, callVars
<1>3. ASSUME NEW settings, NEW physical, BeginRequest(settings, physical) PROVE First'
  BY <1>3 DEF BeginRequest, MayCall, SettingsRefused, callVars, halVars
<1>4. CASE ImportRequest \/ RecordRequest
  BY <1>4 DEF ImportRequest, RecordRequest, PhysicalRefused, RequestFails, streamVars, halVars
<1>5. CASE HalTakesRequest \/ HalRefusesRequest \/ EndRequest
  BY <1>5 DEF HalTakesRequest, HalRefusesRequest, EndRequest, RequestFails, streamVars, halVars
<1>6. ASSUME NEW t \in HalThread, Moves(t) \/ Ends(t) PROVE First'
  <2>1. UNCHANGED <<call, request, halFresh, mFirstRequest>>
    BY <1>6 DEF Moves, Ends, SessionStays
  <2> QED BY <2>1
<1>7. ASSUME NEW t \in HalThread, NEW f \in Frame, NEW bs, NEW p, Errs(t, f) \/ Gives(t, f, bs, p) PROVE First'
  BY <1>7 DEF Errs, Gives, SessionStays
<1>8. CASE UNCHANGED vars
  BY <1>8 DEF vars, streamVars, callVars, halVars
<1> QED BY <1>1, <1>2, <1>3, <1>4, <1>5, <1>6, <1>7, <1>8, Cases

(* Every way a configuration may end leaves each stream a cache.            *)
LEMMA StreamsHaveCachesStep == IInv /\ [Next]_vars => StreamsHaveCaches'
<1> SUFFICES ASSUME IInv, [Next]_vars PROVE StreamsHaveCaches'
  OBVIOUS
<1> USE DEF IInv, StreamsHaveCaches, InitStatusOK
<1>1. CASE Open \/ ClientDies \/ DestructorOfClosed \/ CloseDevice \/ FreeBuffers
  BY <1>1 DEF Open, NewSession, ClientDies, DestructorOfClosed, CloseDevice, FreeBuffers
<1>2. ASSUME NEW streams \in SUBSET Stream \ {{}}, ConfigureStreams(streams) PROVE StreamsHaveCaches'
  <2>1. life = "live" /\ call # "free" /\ mStreamMap = DOMAIN mCirculatingBuffers
    BY <1>2 DEF ConfigureStreams, MayCall
  <2>2. CASE ChangedStream(streams)
    BY <2>1, <2>2 DEF ChangedStream, AddStreams
  <2>3. CASE HalRefusesStreams(streams)
    BY <2>1, <2>3 DEF HalRefusesStreams, FailedCaches, AddStreams, CleanupBuffers
  <2>4. CASE HalTakesStreams(streams)
    BY <2>1, <2>4 DEF HalTakesStreams, KeepStreams, AddStreams, CleanupBuffers
  <2> QED BY <1>2, <2>2, <2>3, <2>4 DEF ConfigureStreams
<1>3. ASSUME NEW settings, NEW physical, BeginRequest(settings, physical) PROVE StreamsHaveCaches'
  BY <1>3 DEF BeginRequest, MayCall, UpdateBufferCaches, stateVars
<1>4. CASE ImportRequest
  BY <1>4 DEF ImportRequest, Import, stateVars
<1>5. CASE RecordRequest \/ HalTakesRequest \/ HalRefusesRequest \/ EndRequest
  BY <1>5 DEF RecordRequest, HalTakesRequest, HalRefusesRequest, EndRequest, stateVars, streamVars
<1>6. ASSUME NEW t \in HalThread, Moves(t) \/ Ends(t) PROVE StreamsHaveCaches'
  BY <1>6 DEF Moves, Ends, SessionStays
<1>7. ASSUME NEW t \in HalThread, NEW f \in Frame, NEW bs, NEW p, Errs(t, f) \/ Gives(t, f, bs, p)
      PROVE  StreamsHaveCaches'
  BY <1>7 DEF Errs, Gives, SessionStays
<1>8. CASE UNCHANGED vars
  BY <1>8 DEF vars, stateVars, streamVars, callVars
<1> QED BY <1>1, <1>2, <1>3, <1>4, <1>5, <1>6, <1>7, <1>8, Cases

(* No step gives a buffer to two holders.                                   *)
LEMMA ApartStep == IInv /\ [Next]_vars => Apart'
<1> SUFFICES ASSUME IInv, [Next]_vars PROVE Apart'
  OBVIOUS
<1> USE DEF IInv, Apart
<1>1. CASE Open \/ CloseDevice
  BY <1>1 DEF Open, NewSession, CloseDevice
<1>2. CASE HalTakesRequest
  <2>1. \A t \in HalThread : request.buffers \cap thread[t].buffers = {}
    BY <1>2, Newest DEF HalTakesRequest, Submitting
  <2> QED BY <1>2, <2>1 DEF HalTakesRequest
<1>3. CASE UNCHANGED <<held, thread>>
  BY <1>3
<1>4. ASSUME NEW t \in HalThread, Moves(t) PROVE Apart'
  BY <1>4 DEF Moves, OthersStay
<1>5. ASSUME NEW t \in HalThread, Ends(t) PROVE Apart'
  <2>1. thread'[t].buffers = {} /\ held' = held
    BY <1>5, IdleFields DEF Ends
  <2> QED BY <1>5, <2>1 DEF Ends, OthersStay
<1>6. ASSUME NEW t \in HalThread, NEW f \in Frame, Errs(t, f) PROVE Apart'
  BY <1>6 DEF Errs, OthersStay
<1>7. ASSUME NEW t \in HalThread, NEW f \in Frame, NEW bs, NEW p, Gives(t, f, bs, p) PROVE Apart'
  BY <1>7 DEF Gives, OthersStay, OfFrame
<1>8. CASE UNCHANGED vars
  BY <1>8 DEF vars, halVars
<1> QED BY <1>1, <1>2, <1>3, <1>4, <1>5, <1>6, <1>7, <1>8, Cases
     DEF ClientDies, DestructorOfClosed, FreeBuffers, ConfigureStreams, BeginRequest, ImportRequest, RecordRequest,
         HalRefusesRequest, EndRequest, halVars
-----------------------------------------------------------------------------
(* The framework waits for a buffer until it is delivered.                  *)
LEMMA AwaitedStep == IInv /\ [Next]_vars => Awaited'
<1> SUFFICES ASSUME IInv, [Next]_vars PROVE Awaited'
  OBVIOUS
<1> USE DEF IInv, Awaited
<1>1. CASE Open \/ CloseDevice
  BY <1>1, IdleFields DEF Open, NewSession, MayReopen, CloseDevice, callVars, Lifecycle, Submitting
<1>2. CASE ClientDies \/ DestructorOfClosed \/ FreeBuffers \/ EndRequest
  BY <1>2 DEF ClientDies, DestructorOfClosed, FreeBuffers, EndRequest, callVars, halVars, frameworkVars, Submitting
<1>3. ASSUME NEW streams, ConfigureStreams(streams) PROVE Awaited'
  BY <1>3 DEF ConfigureStreams, callVars, Submitting
<1>4. ASSUME NEW settings, NEW physical, BeginRequest(settings, physical) PROVE Awaited'
  BY <1>4 DEF BeginRequest, MayCall, callVars, halVars, Submitting
<1>5. ASSUME Submitting, RequestFails, UNCHANGED <<held, thread>> PROVE Awaited'
  BY <1>5, Newest DEF RequestFails, Submitting
<1>6. CASE ImportRequest \/ RecordRequest \/ HalRefusesRequest
  <2>1. Submitting /\ UNCHANGED <<held, thread>>
    BY <1>6 DEF ImportRequest, RecordRequest, HalRefusesRequest, Submitting, halVars
  <2>2. CASE RequestFails
    BY <1>5, <2>1, <2>2
  <2>3. CASE ~RequestFails
    BY <1>6, <2>1, <2>3 DEF ImportRequest, RecordRequest, HalRefusesRequest
  <2> QED BY <2>2, <2>3
<1>7. CASE HalTakesRequest
  BY <1>7 DEF HalTakesRequest, Submitting, frameworkVars
<1>8. ASSUME NEW t \in HalThread, Moves(t) PROVE Awaited'
  BY <1>8 DEF Moves, OthersStay, SessionStays, Submitting
<1>9. ASSUME NEW t \in HalThread, Ends(t) PROVE Awaited'
  <2>1. held \cap thread[t].buffers = {}
    BY DEF Apart
  <2>2. \A u \in HalThread \ {t} : thread[u].buffers \cap thread[t].buffers = {}
    BY DEF Apart
  <2>3. Submitting => request.buffers \cap thread[t].buffers = {}
    BY Newest
  <2>4. thread'[t].buffers = {}
    BY <1>9, IdleFields DEF Ends
  <2> QED BY <1>9, <2>1, <2>2, <2>3, <2>4 DEF Ends, OthersStay, SessionStays, Submitting
<1>10. ASSUME NEW t \in HalThread, NEW f \in Frame, Errs(t, f) PROVE Awaited'
  BY <1>10 DEF Errs, OthersStay, SessionStays, Submitting
<1>11. ASSUME NEW t \in HalThread, NEW f \in Frame, NEW bs, NEW p, Gives(t, f, bs, p) PROVE Awaited'
  BY <1>11 DEF Gives, OthersStay, SessionStays, OfFrame, Submitting
<1>12. CASE UNCHANGED vars
  BY <1>12 DEF vars, halVars, callVars, frameworkVars, Submitting
<1> QED BY <1>1, <1>2, <1>3, <1>4, <1>6, <1>7, <1>8, <1>9, <1>10, <1>11, <1>12, Cases

(* A buffer leaves what is in flight on the thread that returns it, or with  *)
(* the request that the HAL refuses.                                         *)
LEMMA InflightIsOwedStep == IInv /\ [Next]_vars => InflightIsOwed'
<1> SUFFICES ASSUME IInv, [Next]_vars PROVE InflightIsOwed'
  OBVIOUS
<1> USE DEF IInv, InflightIsOwed
<1>1. CASE Open
  <2>1. \A t \in HalThread : thread[t] = IdleThread
    BY <1>1 DEF Open, MayReopen, Lifecycle
  <2>2. held' = {} /\ mInflightBuffers' = {} /\ thread' = thread
    BY <1>1 DEF Open, NewSession
  <2>3. Returning' = {}
    BY <2>1, <2>2, IdleFields, ReturningBuffers
  <2> QED BY <2>2, <2>3
<1>2. CASE CloseDevice
  BY <1>2 DEF CloseDevice
<1>3. ASSUME thread' = thread PROVE Returning' = Returning
  BY <1>3 DEF Returning
<1>4. CASE ClientDies \/ DestructorOfClosed \/ FreeBuffers \/ EndRequest
  BY <1>3, <1>4 DEF ClientDies, DestructorOfClosed, FreeBuffers, EndRequest,
                      inflightVars, callVars, halVars, frameworkVars
<1>5. ASSUME NEW streams, ConfigureStreams(streams) PROVE InflightIsOwed'
  BY <1>3, <1>5 DEF ConfigureStreams, inflightVars, callVars
<1>6. ASSUME NEW settings, NEW physical, BeginRequest(settings, physical) PROVE InflightIsOwed'
  BY <1>3, <1>6 DEF BeginRequest, MayCall, inflightVars, callVars, halVars
<1>7. CASE ImportRequest
  BY <1>3, <1>7 DEF ImportRequest, inflightVars, halVars
<1>8. CASE RecordRequest
  <2>1. \A b \in request.buffers : b.frame = request.frame
    BY <1>8 DEF RecordRequest, Frames, Submitting
  <2>2. /\ UNCHANGED <<halOpen, held>> /\ Returning' = Returning
        /\ mInflightBuffers' = mInflightBuffers \cup request.buffers
    BY <1>3, <1>8 DEF RecordRequest, halVars
  <2>3. CASE PhysicalRefused(request)
    <3>1. stranded' = stranded \cup {request.frame} /\ call # "submit"
      BY <1>8, <2>3 DEF RecordRequest
    <3> QED BY <2>1, <2>2, <3>1
  <2>4. CASE ~PhysicalRefused(request)
    <3>1. UNCHANGED <<request, stranded>> /\ call = "record" /\ call' = "submit"
      BY <1>8, <2>4 DEF RecordRequest
    <3> QED BY <2>2, <3>1
  <2> QED BY <2>3, <2>4
<1>9. CASE HalTakesRequest
  <2>1. request.buffers \subseteq mInflightBuffers
    BY <1>9 DEF HalTakesRequest, Flight
  <2> QED BY <1>3, <1>9, <2>1 DEF HalTakesRequest, inflightVars, frameworkVars
<1>10. CASE HalRefusesRequest
  <2>1. request.buffers \cap (held \cup Returning) = {}
    BY <1>10, Newest, ReturningBuffers DEF HalRefusesRequest, Submitting
  <2> QED BY <1>3, <1>10, <2>1 DEF HalRefusesRequest, UndoRequest, RequestFails, halVars
<1>11. ASSUME NEW t \in HalThread, Moves(t) PROVE InflightIsOwed'
  <2>1. UNCHANGED <<halOpen, held, call, request, stranded>>
    BY <1>11 DEF Moves, SessionStays
  <2>2. CASE thread[t].at = "erase"
    <3>1. mInflightBuffers' = mInflightBuffers \ thread[t].buffers
      BY <1>11, <2>2 DEF Moves
    <3>2. Returning' = Returning \ thread[t].buffers
      <4>1. thread'[t].at = "deliver"
        BY <1>11, <2>2 DEF Moves
      <4>2. \A u \in HalThread \ {t} : thread'[u] = thread[u] /\ thread[u].buffers \cap thread[t].buffers = {}
        BY <1>11 DEF Moves, OthersStay, Apart
      <4> QED BY <4>1, <4>2, ReturningBuffers
    <3>3. held \cap thread[t].buffers = {}
      BY DEF Apart
    <3> QED BY <2>1, <3>1, <3>2, <3>3
  <2>3. CASE thread[t].at # "erase"
    <3>1. mInflightBuffers' = mInflightBuffers
      BY <1>11, <2>3 DEF Moves
    <3>2. Returning' = Returning
      <4>1. thread[t].at \in {"check", "metadata", "erase"} <=> thread'[t].at \in {"check", "metadata", "erase"}
        BY <1>11, <2>3 DEF Moves
      <4>2. thread'[t].buffers = thread[t].buffers /\ \A u \in HalThread \ {t} : thread'[u] = thread[u]
        BY <1>11 DEF Moves, OthersStay
      <4>3. \A b : b \in Returning' <=> b \in Returning
        BY <4>1, <4>2, ReturningBuffers
      <4> QED BY <4>3
    <3> QED BY <2>1, <3>1, <3>2
  <2> QED BY <2>2, <2>3
<1>12. ASSUME NEW t \in HalThread, Ends(t) PROVE InflightIsOwed'
  <2>1. Returning' = Returning
    BY <1>12, IdleFields, ReturningBuffers DEF Ends, OthersStay
  <2> QED BY <1>12, <2>1 DEF Ends, SessionStays
<1>13. ASSUME NEW t \in HalThread, NEW f \in Frame, Errs(t, f) PROVE InflightIsOwed'
  <2>1. Returning' = Returning
    BY <1>13, IdleFields, ReturningBuffers DEF Errs, OthersStay
  <2> QED BY <1>13, <2>1 DEF Errs, SessionStays
<1>14. ASSUME NEW t \in HalThread, NEW f \in Frame, NEW bs, NEW p, Gives(t, f, bs, p) PROVE InflightIsOwed'
  <2>1. Returning' = Returning \cup bs
    BY <1>14, IdleFields, ReturningBuffers DEF Gives, OthersStay
  <2>2. bs \subseteq held /\ held' = held \ bs
    BY <1>14 DEF Gives, OfFrame
  <2> QED BY <1>14, <2>1, <2>2 DEF Gives, SessionStays
<1>15. CASE UNCHANGED vars
  BY <1>3, <1>15 DEF vars, inflightVars, callVars, halVars, frameworkVars
<1> QED BY <1>1, <1>2, <1>4, <1>5, <1>6, <1>7, <1>8, <1>9, <1>10, <1>11, <1>12, <1>13, <1>14, <1>15, Cases
-----------------------------------------------------------------------------
(* Frames can be compared.                                                  *)
LEMMA FramesAreNumbers ==
  ASSUME TypeOK
  PROVE  /\ frame \in Nat
         /\ \A f \in Frame : f \in Nat
         /\ \A b \in mInflightBuffers \cup held : b.frame \in Nat
         /\ \A t \in HalThread : thread[t].frame \in Nat /\ \A b \in thread[t].buffers : b.frame \in Nat
<1>1. frame \in 0 .. MaxFrames /\ MaxFrames \in Nat /\ mInflightBuffers \cup held \subseteq Buffer
  BY SessionAssumption DEF TypeOK
<1>2. \A f \in Frame : f \in Nat
  BY <1>1 DEF Frame
<1>3. \A b \in Buffer : b.frame \in Frame
  BY DEF Buffer
<1>4. \A t \in HalThread : thread[t].frame \in Frame \cup {0} /\ thread[t].buffers \subseteq Buffer
  BY ThreadsHaveRecords DEF ThreadRecord
<1> QED BY <1>1, <1>2, <1>3, <1>4

(* The request that is being submitted stays the newest.                    *)
LEMMA FramesStep == IInv /\ [Next]_vars => Frames'
<1> SUFFICES ASSUME IInv, [Next]_vars PROVE Frames'
  OBVIOUS
<1>0. frame \in Nat
  BY FramesAreNumbers DEF IInv
<1> USE DEF IInv, Frames, Submitting
<1>1. CASE Open
  BY <1>0, <1>1, IdleFields DEF Open, NewSession, MayReopen, callVars, Lifecycle
<1>2. CASE ClientDies \/ DestructorOfClosed \/ FreeBuffers \/ EndRequest
  BY <1>2 DEF ClientDies, DestructorOfClosed, FreeBuffers, EndRequest, inflightVars, callVars, halVars, bounds
<1>3. CASE CloseDevice
  BY <1>3 DEF CloseDevice, inflightVars, bounds
<1>4. ASSUME NEW streams, ConfigureStreams(streams) PROVE Frames'
  BY <1>4 DEF ConfigureStreams, MayCall, inflightVars, callVars
<1>5. ASSUME NEW settings, NEW physical, BeginRequest(settings, physical) PROVE Frames'
  <2>1. frame' = frame + 1 /\ UNCHANGED <<mInflightBuffers, held, part, thread>> /\ call = "none"
    BY <1>5 DEF BeginRequest, MayCall, inflightVars, halVars
  <2>2. UNCHANGED <<call, request>> \/
          /\ call' = "import" /\ request'.frame = frame'
          /\ \A b \in request'.buffers : b.frame = frame'
    BY <1>5 DEF BeginRequest, Outputs, callVars
  <2>5. \A n \in Nat : n <= frame => n < frame' /\ n <= frame'
    BY <1>0, <2>1
  <2>7. \A b \in mInflightBuffers \cup held : b.frame < frame' /\ b.frame <= frame'
    BY <2>5, FramesAreNumbers
  <2>8. \A t \in HalThread : /\ thread[t].frame < frame' /\ thread[t].frame <= frame'
                             /\ \A b \in thread[t].buffers : b.frame < frame' /\ b.frame <= frame'
    BY <2>5, FramesAreNumbers
  <2>9. \A f \in Frame : part[f] # 0 => f < frame' /\ f <= frame'
    BY <2>5, FramesAreNumbers
  <2> QED BY <2>1, <2>2, <2>7, <2>8, <2>9
<1>6. CASE ImportRequest
  BY <1>6 DEF ImportRequest, RequestFails, inflightVars, halVars, bounds
<1>7. CASE RecordRequest
  <2>1. \A b \in request.buffers : b.frame <= frame
    BY <1>0, <1>7 DEF RecordRequest
  <2>2. UNCHANGED <<held, part, thread, frame>> /\ mInflightBuffers' = mInflightBuffers \cup request.buffers
    BY <1>7 DEF RecordRequest, halVars, bounds
  <2>3. call' = "none" \/ (call' = "submit" /\ request' = request)
    <3>1. CASE PhysicalRefused(request)
      <4>1. RequestFails
        BY <1>7, <3>1 DEF RecordRequest
      <4> QED BY <4>1 DEF RequestFails, MetadataIsOver
    <3>2. CASE ~PhysicalRefused(request)
      BY <1>7, <3>2 DEF RecordRequest
    <3> QED BY <3>1, <3>2
  <2> QED BY <1>7, <2>1, <2>2, <2>3 DEF RecordRequest
<1>8. CASE HalTakesRequest
  <2>1. \A b \in request.buffers : b.frame <= frame
    BY <1>0, <1>8 DEF HalTakesRequest
  <2>2. \A f \in Frame : part'[f] # 0 => part[f] # 0 \/ f = request.frame
    BY <1>8 DEF HalTakesRequest, TypeOK
  <2>3. request.frame <= frame
    BY <1>0, <1>8 DEF HalTakesRequest
  <2> QED BY <1>8, <2>1, <2>2, <2>3 DEF HalTakesRequest, inflightVars, bounds
<1>9. CASE HalRefusesRequest
  BY <1>9 DEF HalRefusesRequest, UndoRequest, RequestFails, halVars, bounds
<1>10. ASSUME NEW t \in HalThread, Moves(t) PROVE Frames'
  BY <1>10 DEF Moves, OthersStay, SessionStays
<1>11. ASSUME NEW t \in HalThread, Ends(t) PROVE Frames'
  <2>1. thread'[t].frame = 0 /\ thread'[t].buffers = {}
    BY <1>11, IdleFields DEF Ends
  <2>2. 0 <= frame /\ (Submitting => 0 < frame)
    <3>1. Submitting => thread[t].frame < frame
      OBVIOUS
    <3> QED BY <3>1, FramesAreNumbers
  <2> QED BY <1>11, <2>1, <2>2 DEF Ends, OthersStay, SessionStays
<1>12. ASSUME NEW t \in HalThread, NEW f \in Frame, Errs(t, f) PROVE Frames'
  <2>1. part[f] # 0
    BY <1>12, SessionAssumption DEF Errs, OwesPart
  <2>2. \A g \in Frame : part'[g] # 0 => part[g] # 0
    BY <1>12 DEF Errs, TypeOK
  <2> QED BY <1>12, <2>1, <2>2 DEF Errs, OthersStay, SessionStays
<1>13. ASSUME NEW t \in HalThread, NEW f \in Frame, NEW bs, NEW p, Gives(t, f, bs, p) PROVE Frames'
  <2>1. bs \subseteq held /\ held' = held \ bs /\ \A b \in bs : b.frame = f
    BY <1>13 DEF Gives, OfFrame
  <2>2. p # 0 => part[f] # 0
    BY <1>13 DEF Gives
  <2>3. \A g \in Frame : part'[g] # 0 => part[g] # 0
    BY <1>13, <2>2 DEF Gives, TypeOK
  <2>4. part[f] # 0 \/ \E b \in held : b.frame = f
    BY <1>13, <2>1, <2>2 DEF Gives
  <2>5. f <= frame /\ (Submitting => f < frame)
    BY <2>4
  <2>6. thread'[t].frame = f /\ thread'[t].buffers = bs
    BY <1>13 DEF Gives
  <2> QED BY <1>13, <2>1, <2>3, <2>5, <2>6 DEF Gives, OthersStay, SessionStays
<1>14. CASE UNCHANGED vars
  BY <1>14 DEF vars, inflightVars, callVars, halVars, bounds
<1> QED BY <1>1, <1>2, <1>3, <1>4, <1>5, <1>6, <1>7, <1>8, <1>9, <1>10, <1>11, <1>12, <1>13, <1>14, Cases

(* Nothing is freed under the HAL: a configuration finds nothing in flight,  *)
(* and the framework waits for what the HAL has.                            *)
LEMMA HalBuffersStep == IInv /\ [Next]_vars => HalBuffersAreImported'
<1> SUFFICES ASSUME IInv, [Next]_vars PROVE HalBuffersAreImported'
  OBVIOUS
<1> USE DEF IInv
<1> DEFINE Held == held \cup Returning \cup (IF call \in {"record", "submit"} THEN request.buffers ELSE {})
<1>0. ASSUME mCirculatingBuffers' = mCirculatingBuffers, Held' \subseteq Held PROVE HalBuffersAreImported'
  BY <1>0 DEF HalBuffersAreImported
<1>1. ASSUME thread' = thread PROVE Returning' = Returning
  BY <1>1 DEF Returning
<1>2. ASSUME \A t \in HalThread : thread'[t] = IdleThread, held' = {}, call' \notin {"record", "submit"}
      PROVE  HalBuffersAreImported'
  <2>1. Returning' = {}
    BY <1>2, IdleFields, ReturningBuffers
  <2> QED BY <1>2, <2>1 DEF HalBuffersAreImported
<1>3. CASE Open \/ CloseDevice \/ FreeBuffers
  BY <1>2, <1>3 DEF Open, MayReopen, NewSession, CloseDevice, FreeBuffers, Lifecycle, callVars, halVars
<1>4. CASE ClientDies \/ DestructorOfClosed \/ EndRequest
  BY <1>0, <1>1, <1>4 DEF ClientDies, DestructorOfClosed, EndRequest, streamVars, callVars, halVars
<1>5. ASSUME NEW streams, ConfigureStreams(streams) PROVE HalBuffersAreImported'
  <2>1. held = {} /\ Returning = {}
    BY <1>5 DEF ConfigureStreams, MayCall, InitStatusOK, NothingInflight, InflightIsOwed, Lifecycle
  <2>2. held' = {} /\ Returning' = {} /\ call' = "none"
    BY <1>1, <1>5, <2>1 DEF ConfigureStreams, MayCall, callVars
  <2> QED BY <2>2 DEF HalBuffersAreImported
<1>6. ASSUME NEW settings, NEW physical, BeginRequest(settings, physical) PROVE HalBuffersAreImported'
  <2>1. PICK removed \in Removable : UpdateBufferCaches(removed)
    BY <1>6 DEF BeginRequest
  <2>2. held' = held /\ Returning' = Returning /\ call' \notin {"record", "submit"}
    BY <1>1, <1>6 DEF BeginRequest, MayCall, callVars, halVars
  <2>3. \A b \in held \cup Returning : <<b.stream, b.buffer>> \notin removed
    BY ReturningBuffers DEF Removable, Awaited
  <2>4. \A b \in held \cup Returning :
          b.stream \in DOMAIN mCirculatingBuffers' /\ b.buffer \in mCirculatingBuffers'[b.stream]
    BY <2>1, <2>3 DEF UpdateBufferCaches, HalBuffersAreImported
  <2> QED BY <2>2, <2>4 DEF HalBuffersAreImported
<1>7. CASE ImportRequest
  <2>1. PICK done \in SUBSET request.buffers : Import(done) /\ (call' = "record" => done = request.buffers)
    BY <1>7 DEF ImportRequest, RequestFails
  <2>2. /\ held' = held /\ Returning' = Returning /\ call' \in {"none", "record"}
        /\ (call' = "record" => request' = request)
    BY <1>1, <1>7 DEF ImportRequest, RequestFails, halVars
  <2>3. \A b \in held \cup Returning :
          b.stream \in DOMAIN mCirculatingBuffers' /\ b.buffer \in mCirculatingBuffers'[b.stream]
    BY <2>1 DEF Import, HalBuffersAreImported
  <2>4. \A b \in request.buffers : b.stream \in DOMAIN mCirculatingBuffers
    BY <1>7 DEF ImportRequest, Streams, Submitting, StreamsHaveCaches, Lifecycle
  <2>5. \A b \in done : b.stream \in DOMAIN mCirculatingBuffers' /\ b.buffer \in mCirculatingBuffers'[b.stream]
    BY <2>1, <2>4 DEF Import
  <2> QED BY <2>1, <2>2, <2>3, <2>5 DEF HalBuffersAreImported
<1>8. CASE RecordRequest \/ HalTakesRequest \/ HalRefusesRequest
  BY <1>0, <1>1, <1>8 DEF RecordRequest, HalTakesRequest, HalRefusesRequest, RequestFails, streamVars, halVars
<1>9. ASSUME NEW t \in HalThread, Moves(t) PROVE HalBuffersAreImported'
  <2>1. Returning' \subseteq Returning
    BY <1>9, ReturningBuffers DEF Moves, OthersStay
  <2> QED BY <1>0, <1>9, <2>1 DEF Moves, SessionStays
<1>10. ASSUME NEW t \in HalThread, Ends(t) PROVE HalBuffersAreImported'
  <2>1. Returning' \subseteq Returning
    BY <1>10, IdleFields, ReturningBuffers DEF Ends, OthersStay
  <2> QED BY <1>0, <1>10, <2>1 DEF Ends, SessionStays
<1>11. ASSUME NEW t \in HalThread, NEW f \in Frame, Errs(t, f) PROVE HalBuffersAreImported'
  <2>1. Returning' \subseteq Returning
    BY <1>11, IdleFields, ReturningBuffers DEF Errs, OthersStay
  <2> QED BY <1>0, <1>11, <2>1 DEF Errs, SessionStays
<1>12. ASSUME NEW t \in HalThread, NEW f \in Frame, NEW bs, NEW p, Gives(t, f, bs, p) PROVE HalBuffersAreImported'
  <2>1. Returning' \subseteq Returning \cup bs /\ bs \subseteq held /\ held' = held \ bs
    BY <1>12, ReturningBuffers DEF Gives, OthersStay, OfFrame
  <2> QED BY <1>0, <1>12, <2>1 DEF Gives, SessionStays
<1>13. CASE UNCHANGED vars
  BY <1>0, <1>1, <1>13 DEF vars, streamVars, callVars, halVars
<1> QED BY <1>3, <1>4, <1>5, <1>6, <1>7, <1>8, <1>9, <1>10, <1>11, <1>12, <1>13, Cases
-----------------------------------------------------------------------------
(* One thread at a time has metadata of a frame, and who has the last part  *)
(* is not followed by another.                                              *)
LEMMA PartsStep == IInv /\ [Next]_vars => Parts'
<1> SUFFICES ASSUME IInv, [Next]_vars PROVE Parts'
  OBVIOUS
<1>0. mNumPartialResults \in Nat \ {0} /\ part \in [Frame -> 0 .. mNumPartialResults]
  BY SessionAssumption DEF IInv, TypeOK
<1> USE DEF IInv
<1>1. ASSUME \A t \in HalThread : thread'[t] = IdleThread, part' = [f \in Frame |-> 0], call' \in {"none", "free"}
      PROVE  Parts'
  <2>1. \A t \in HalThread : thread'[t].part = 0 /\ thread'[t].at = "idle"
    BY <1>1, IdleFields
  <2>2. \A f \in Frame : part'[f] = 0
    BY <1>1
  <2> QED BY <1>0, <1>1, <2>1, <2>2
        DEF Parts, OwedIsAwaited, ReturnedIsAwaited, OneThread, LastIsLast, SubmittedIsAwaited,
            HasMetadata, Submitting
<1>2. CASE Open \/ CloseDevice
  BY <1>1, <1>2 DEF Open, MayReopen, NewSession, CloseDevice, Lifecycle, callVars
<1>3. ASSUME UNCHANGED <<thread, part>>, awaitedMetadata \subseteq awaitedMetadata',
             Submitting' => request'.frame \in awaitedMetadata'
      PROVE  Parts'
  BY <1>3 DEF Parts, OwedIsAwaited, ReturnedIsAwaited, OneThread, LastIsLast, SubmittedIsAwaited, HasMetadata
<1>4. CASE ClientDies \/ DestructorOfClosed \/ FreeBuffers \/ EndRequest
  <2>1. UNCHANGED <<thread, part, awaitedMetadata>>
    BY <1>4 DEF ClientDies, DestructorOfClosed, FreeBuffers, EndRequest, halVars, frameworkVars
  <2>2. Submitting' => Submitting /\ request' = request
    BY <1>4 DEF ClientDies, DestructorOfClosed, FreeBuffers, EndRequest, callVars, Submitting
  <2> QED BY <1>3, <2>1, <2>2 DEF Parts, SubmittedIsAwaited
<1>5. ASSUME NEW streams, ConfigureStreams(streams) PROVE Parts'
  BY <1>3, <1>5 DEF ConfigureStreams, Parts, SubmittedIsAwaited, Submitting, callVars
<1>6. ASSUME NEW settings, NEW physical, BeginRequest(settings, physical) PROVE Parts'
  BY <1>3, <1>6 DEF BeginRequest, MayCall, Parts, SubmittedIsAwaited, Submitting, callVars, halVars
<1>7. ASSUME Submitting, RequestFails, UNCHANGED <<thread, part>> PROVE Parts'
  <2>1. \A t \in HalThread : thread[t].frame # request.frame
    BY <1>7, FramesAreNumbers DEF Frames
  <2>2. \A f \in Frame : part[f] # 0 => f # request.frame
    BY <1>7, FramesAreNumbers DEF Frames
  <2>3. awaitedMetadata' = awaitedMetadata \ {request.frame} /\ call' = "none"
    BY <1>7 DEF RequestFails, MetadataIsOver
  <2> QED BY <1>7, <2>1, <2>2, <2>3
        DEF Parts, OwedIsAwaited, ReturnedIsAwaited, OneThread, LastIsLast, SubmittedIsAwaited,
            HasMetadata, Submitting
<1>8. CASE ImportRequest \/ RecordRequest \/ HalRefusesRequest
  <2>1. Submitting /\ UNCHANGED <<thread, part>>
    BY <1>8 DEF ImportRequest, RecordRequest, HalRefusesRequest, Submitting, halVars
  <2>2. CASE RequestFails
    BY <1>7, <2>1, <2>2
  <2>3. CASE ~RequestFails
    BY <1>3, <1>8, <2>1, <2>3 DEF ImportRequest, RecordRequest, HalRefusesRequest, Parts, SubmittedIsAwaited
  <2> QED BY <2>2, <2>3
<1>9. CASE HalTakesRequest
  <2>1. Submitting /\ part' = [part EXCEPT ![request.frame] = 1] /\ call' = "taken"
          /\ UNCHANGED <<thread, awaitedMetadata>>
    BY <1>9 DEF HalTakesRequest, Submitting, frameworkVars
  <2>2. \A t \in HalThread : thread[t].frame # request.frame
    BY <2>1, FramesAreNumbers DEF Frames
  <2>3. request.frame \in awaitedMetadata
    BY <2>1 DEF Parts, SubmittedIsAwaited
  <2>4. \A f : f # request.frame => part'[f] = part[f]
    BY <1>0, <2>1
  <2> QED BY <2>1, <2>2, <2>3, <2>4
        DEF Parts, OwedIsAwaited, ReturnedIsAwaited, OneThread, LastIsLast, SubmittedIsAwaited,
            HasMetadata, Submitting
<1>10. ASSUME NEW t \in HalThread, Moves(t) PROVE Parts'
  <2>1. \A u \in HalThread : /\ thread'[u].frame = thread[u].frame /\ thread'[u].part = thread[u].part
                             /\ thread'[u].at \in {"error", "deliver error"}
                                  <=> thread[u].at \in {"error", "deliver error"}
    BY <1>10 DEF Moves, OthersStay
  <2>2. UNCHANGED <<part, awaitedMetadata, call, request>>
    BY <1>10 DEF Moves, SessionStays
  <2>a. OwedIsAwaited'
    BY <2>1, <2>2 DEF Parts, OwedIsAwaited
  <2>b. ReturnedIsAwaited'
    BY <2>1, <2>2 DEF Parts, ReturnedIsAwaited, HasMetadata
  <2>c. OneThread'
    BY <2>1, <2>2 DEF Parts, OneThread, HasMetadata
  <2>d. LastIsLast'
    BY <2>1, <2>2 DEF Parts, LastIsLast
  <2>e. SubmittedIsAwaited'
    BY <2>1, <2>2 DEF Parts, SubmittedIsAwaited, Submitting
  <2> QED BY <2>a, <2>b, <2>c, <2>d, <2>e DEF Parts
<1>11. ASSUME NEW t \in HalThread, Ends(t) PROVE Parts'
  <2>1. \A u \in HalThread \ {t} : thread'[u] = thread[u]
    BY <1>11 DEF Ends, OthersStay
  <2>2. thread'[t].part = 0 /\ thread'[t].at = "idle"
    BY <1>11, IdleFields DEF Ends
  <2>3. CASE /\ thread[t].at = "deliver error" \/ thread[t].part = mNumPartialResults
             /\ awaitedMetadata' = awaitedMetadata \ {thread[t].frame}
    <3>1. HasMetadata(t) /\ part[thread[t].frame] = 0
      BY <1>0, <2>3 DEF HasMetadata, Parts, LastIsLast
    <3>2. Submitting => request.frame # thread[t].frame
      BY FramesAreNumbers DEF Frames
    <3>3. awaitedMetadata' = awaitedMetadata \ {thread[t].frame} /\ part' = part /\ UNCHANGED <<call, request>>
      BY <1>11, <2>3 DEF Ends, SessionStays
    <3>a. OwedIsAwaited'
      BY <1>0, <2>1, <2>2, <3>1, <3>2, <3>3 DEF Parts, OwedIsAwaited
    <3>b. ReturnedIsAwaited'
      BY <1>0, <2>1, <2>2, <3>1, <3>2, <3>3 DEF Parts, ReturnedIsAwaited, OneThread, HasMetadata
    <3>c. OneThread'
      BY <1>0, <2>1, <2>2, <3>1, <3>2, <3>3 DEF Parts, OneThread, HasMetadata
    <3>d. LastIsLast'
      BY <1>0, <2>1, <2>2, <3>1, <3>2, <3>3 DEF Parts, LastIsLast
    <3>e. SubmittedIsAwaited'
      BY <1>0, <2>1, <2>2, <3>1, <3>2, <3>3 DEF Parts, SubmittedIsAwaited, Submitting
    <3> QED BY <3>a, <3>b, <3>c, <3>d, <3>e DEF Parts
  <2>4. CASE awaitedMetadata' = awaitedMetadata
    <3>1. UNCHANGED <<awaitedMetadata, part, call, request>>
      BY <1>11, <2>4 DEF Ends, SessionStays
    <3>a. OwedIsAwaited'
      BY <1>0, <2>1, <2>2, <3>1 DEF Parts, OwedIsAwaited
    <3>b. ReturnedIsAwaited'
      BY <1>0, <2>1, <2>2, <3>1 DEF Parts, ReturnedIsAwaited, HasMetadata
    <3>c. OneThread'
      BY <1>0, <2>1, <2>2, <3>1 DEF Parts, OneThread, HasMetadata
    <3>d. LastIsLast'
      BY <1>0, <2>1, <2>2, <3>1 DEF Parts, LastIsLast
    <3>e. SubmittedIsAwaited'
      BY <1>0, <2>1, <2>2, <3>1 DEF Parts, SubmittedIsAwaited, Submitting
    <3> QED BY <3>a, <3>b, <3>c, <3>d, <3>e DEF Parts
  <2> QED BY <1>11, <2>3, <2>4 DEF Ends
<1>12. ASSUME NEW t \in HalThread, NEW f \in Frame, Errs(t, f) PROVE Parts'
  <2>1. /\ \A u \in HalThread \ {t} : thread'[u] = thread[u]
        /\ thread'[t].part = 0 /\ thread'[t].at = "error" /\ thread'[t].frame = f
        /\ UNCHANGED <<awaitedMetadata, call, request>>
    BY <1>12 DEF Errs, OthersStay, SessionStays
  <2>2. part'[f] = 0 /\ \A g \in Frame : g # f => part'[g] = part[g]
    BY <1>0, <1>12 DEF Errs
  <2>3. part[f] # 0
    BY <1>0, <1>12 DEF Errs, OwesPart
  <2>4. \A u \in HalThread : HasMetadata(u) => thread[u].frame # f
    BY <1>12, <2>3 DEF Errs, OwesPart, MetadataFree, HasMetadata, Parts, LastIsLast
  <2>5. \A u \in HalThread : part'[thread[u].frame] = 0 \/ part'[thread[u].frame] = part[thread[u].frame]
    BY <1>0, <1>12 DEF Errs
  <2>a. OwedIsAwaited'
    BY <1>0, <2>1, <2>2, <2>3, <2>4, <2>5 DEF Parts, OwedIsAwaited
  <2>b. ReturnedIsAwaited'
    BY <2>1, <2>3 DEF Parts, OwedIsAwaited, ReturnedIsAwaited, HasMetadata
  <2>c. OneThread'
    <3>1. ASSUME NEW u \in HalThread, NEW v \in HalThread, u # v, HasMetadata(u)', HasMetadata(v)'
          PROVE  thread'[u].frame # thread'[v].frame
      BY <2>1, <2>4, <3>1 DEF Parts, OneThread, HasMetadata
    <3> QED BY <3>1 DEF OneThread
  <2>d. LastIsLast'
    BY <1>0, <2>1, <2>2, <2>3, <2>4, <2>5 DEF Parts, LastIsLast
  <2>e. SubmittedIsAwaited'
    BY <1>0, <2>1, <2>2, <2>3, <2>4, <2>5 DEF Parts, SubmittedIsAwaited, Submitting
  <2> QED BY <2>a, <2>b, <2>c, <2>d, <2>e DEF Parts
<1>13. ASSUME NEW t \in HalThread, NEW f \in Frame, NEW bs, NEW p, Gives(t, f, bs, p) PROVE Parts'
  <2>1. /\ \A u \in HalThread \ {t} : thread'[u] = thread[u]
        /\ thread'[t].part = p /\ thread'[t].at = "check" /\ thread'[t].frame = f
        /\ UNCHANGED <<awaitedMetadata, call, request>>
    BY <1>13 DEF Gives, OthersStay, SessionStays
  <2>2. CASE p = 0
    <3>1. part' = part
      BY <1>13, <2>2 DEF Gives
    <3>a. OwedIsAwaited'
      BY <1>0, <2>1, <2>2, <3>1 DEF Parts, OwedIsAwaited
    <3>b. ReturnedIsAwaited'
      BY <1>0, <2>1, <2>2, <3>1 DEF Parts, ReturnedIsAwaited, HasMetadata
    <3>c. OneThread'
      BY <1>0, <2>1, <2>2, <3>1 DEF Parts, OneThread, HasMetadata
    <3>d. LastIsLast'
      BY <1>0, <2>1, <2>2, <3>1 DEF Parts, LastIsLast
    <3>e. SubmittedIsAwaited'
      BY <1>0, <2>1, <2>2, <3>1 DEF Parts, SubmittedIsAwaited, Submitting
    <3> QED BY <3>a, <3>b, <3>c, <3>d, <3>e DEF Parts
  <2>3. CASE p # 0
    <3>1. p = part[f] /\ OwesPart(f) /\ part' = [part EXCEPT ![f] = NextPart(f)]
      BY <1>13, <2>3 DEF Gives
    <3>2. \A u \in HalThread : HasMetadata(u) => thread[u].frame # f
      BY <2>3, <3>1 DEF OwesPart, MetadataFree, HasMetadata, Parts, LastIsLast
    <3>3. p = mNumPartialResults => part'[f] = 0
      BY <1>0, <3>1 DEF NextPart
    <3>4. \A g : g # f => part'[g] = part[g]
      BY <1>0, <3>1
    <3>a. OwedIsAwaited'
      BY <1>0, <2>1, <2>3, <3>1, <3>2, <3>3, <3>4 DEF Parts, OwedIsAwaited
    <3>b. ReturnedIsAwaited'
      <4>1. f \in awaitedMetadata
        BY <2>3, <3>1 DEF Parts, OwedIsAwaited
      <4> QED BY <2>1, <4>1 DEF Parts, ReturnedIsAwaited, HasMetadata
    <3>c. OneThread'
      <4>1. ASSUME NEW u \in HalThread, NEW v \in HalThread, u # v, HasMetadata(u)', HasMetadata(v)'
            PROVE  thread'[u].frame # thread'[v].frame
        BY <2>1, <3>2, <4>1 DEF Parts, OneThread, HasMetadata
      <4> QED BY <4>1 DEF OneThread
    <3>d. LastIsLast'
      <4>1. ASSUME NEW u \in HalThread,
                   thread'[u].at \in {"error", "deliver error"} \/ thread'[u].part = mNumPartialResults
            PROVE  part'[thread'[u].frame] = 0
        <5>1. CASE u = t
          BY <2>1, <3>3, <4>1, <5>1
        <5>2. CASE u # t
          <6>1. HasMetadata(u) /\ thread'[u] = thread[u]
            BY <1>0, <2>1, <4>1, <5>2 DEF HasMetadata
          <6>2. part[thread[u].frame] = 0
            BY <4>1, <6>1 DEF Parts, LastIsLast
          <6> QED BY <3>2, <3>4, <6>1, <6>2
        <5> QED BY <5>1, <5>2
      <4> QED BY <4>1 DEF LastIsLast
    <3>e. SubmittedIsAwaited'
      BY <1>0, <2>1, <2>3, <3>1, <3>2, <3>3, <3>4 DEF Parts, SubmittedIsAwaited, Submitting
    <3> QED BY <3>a, <3>b, <3>c, <3>d, <3>e DEF Parts
  <2> QED BY <2>2, <2>3
<1>14. CASE UNCHANGED vars
  BY <1>3, <1>14 DEF vars, Parts, SubmittedIsAwaited, Submitting, callVars, halVars, frameworkVars
<1> QED BY <1>2, <1>4, <1>5, <1>6, <1>8, <1>9, <1>10, <1>11, <1>12, <1>13, <1>14, Cases
-----------------------------------------------------------------------------
(* The parts of TypeOK.                                                    *)
StateTyped ==
  /\ life \in {"none", "live", "destroyed"}
  /\ {mClosed, mInitFail, mFreeBufEarly, mFirstRequest, halOpen, halFresh} \subseteq BOOLEAN
StreamsTyped ==
  /\ mStreamMap \subseteq Stream /\ configured \subseteq mStreamMap
  /\ DOMAIN mCirculatingBuffers \subseteq Stream
  /\ \A s \in DOMAIN mCirculatingBuffers : mCirculatingBuffers[s] \subseteq BufferId
BuffersTyped == mInflightBuffers \subseteq Buffer /\ held \subseteq Buffer /\ awaited \subseteq Buffer
OverridesTyped == mInflightAETriggerOverrides \subseteq Frame /\ mInflightRawBoostPresent \subseteq Frame \X BOOLEAN
CallTyped ==
  /\ call \in {"none", "free", "import", "record", "submit", "taken"}
  /\ request \in Request \cup {NoRequest}
PartTyped == part \in [Frame -> 0 .. mNumPartialResults] /\ boosted \subseteq Frame
MetadataTyped ==
  /\ awaitedMetadata \subseteq Frame /\ stranded \subseteq Frame
  /\ seen \subseteq awaitedMetadata /\ cancelled \subseteq awaitedMetadata
BoundsTyped == frame \in 0 .. MaxFrames /\ configurations \in 0 .. MaxConfigurations

(* The type invariant in parts, one for each step below.                    *)
LEMMA TypeParts ==
  /\ TypeOK <=> /\ StateTyped /\ StreamsTyped /\ BuffersTyped /\ OverridesTyped /\ CallTyped /\ PartTyped
                /\ MetadataTyped /\ BoundsTyped /\ thread \in [HalThread -> ThreadRecord]
  /\ (StateTyped /\ StreamsTyped /\ BuffersTyped /\ OverridesTyped /\ CallTyped /\ PartTyped
                /\ MetadataTyped /\ BoundsTyped /\ thread \in [HalThread -> ThreadRecord])' => TypeOK'
  BY DEF TypeOK, StateTyped, StreamsTyped, BuffersTyped, OverridesTyped, CallTyped, PartTyped, MetadataTyped,
         BoundsTyped, ThreadRecord

(* The flags of the session and of the HAL keep their types.                *)
LEMMA StateStep == ASSUME IInv, Next PROVE StateTyped'
<1> USE TypeParts DEF IInv, StateTyped, stateVars, streamVars, halVars
<1>1. CASE Open
  BY <1>1 DEF Open, NewSession, InitializeFails, QueueFails
<1>2. CASE ClientDies \/ DestructorOfClosed \/ CloseDevice \/ FreeBuffers
  BY <1>2 DEF ClientDies, DestructorOfClosed, CloseDevice, FreeBuffers
<1>3. ASSUME NEW streams, ConfigureStreams(streams) PROVE StateTyped'
  BY <1>3 DEF ConfigureStreams, ChangedStream, HalRefusesStreams, HalTakesStreams
<1>4. ASSUME NEW settings, NEW physical, BeginRequest(settings, physical) PROVE StateTyped'
  BY <1>4 DEF BeginRequest
<1>5. CASE ImportRequest \/ RecordRequest \/ HalTakesRequest \/ HalRefusesRequest \/ EndRequest
  BY <1>5 DEF ImportRequest, RecordRequest, HalTakesRequest, HalRefusesRequest, EndRequest
<1>6. ASSUME NEW t \in HalThread, NEW f \in Frame, HalResult(t, f) \/ HalError(t, f) PROVE StateTyped'
  BY <1>6 DEF HalResult, HalError
<1>7. ASSUME NEW t \in HalThread, CheckInflight(t) \/ OverrideMetadata(t) \/ EraseInflight(t) PROVE StateTyped'
  BY <1>7 DEF CheckInflight, OverrideMetadata, EraseInflight
<1>8. ASSUME NEW t \in HalThread, Deliver(t) \/ NotifyError(t) \/ DropError(t) \/ DeliverError(t) PROVE StateTyped'
  BY <1>8 DEF Deliver, NotifyError, DropError, DeliverError
<1> QED BY <1>1, <1>2, <1>3, <1>4, <1>5, <1>6, <1>7, <1>8 DEF Next

(* So do the streams and their caches,                                      *)
LEMMA StreamsTypedStep == ASSUME IInv, Next PROVE StreamsTyped'
<1> USE TypeParts DEF IInv, StreamsTyped, streamVars, frameworkVars
<1>1. CASE Open \/ CloseDevice \/ FreeBuffers
  BY <1>1 DEF Open, NewSession, CloseDevice, FreeBuffers
<1>2. CASE ClientDies \/ DestructorOfClosed
  BY <1>2 DEF ClientDies, DestructorOfClosed
<1>3. ASSUME NEW streams \in SUBSET Stream \ {{}}, ConfigureStreams(streams) PROVE StreamsTyped'
  <2>1. CASE ChangedStream(streams)
    BY <2>1 DEF ChangedStream, AddStreams
  <2>2. CASE HalRefusesStreams(streams)
    BY <2>2 DEF HalRefusesStreams, FailedCaches, AddStreams, CleanupBuffers
  <2>3. CASE HalTakesStreams(streams)
    BY <2>3 DEF HalTakesStreams, KeepStreams, AddStreams, CleanupBuffers
  <2> QED BY <1>3, <2>1, <2>2, <2>3 DEF ConfigureStreams
<1>4. ASSUME NEW settings, NEW physical, BeginRequest(settings, physical) PROVE StreamsTyped'
  BY <1>4 DEF BeginRequest, UpdateBufferCaches
<1>5. CASE ImportRequest
  <2>1. PICK done \in SUBSET request.buffers : Import(done)
    BY <1>5 DEF ImportRequest
  <2>2. \A b \in request.buffers : b.buffer \in BufferId
    BY DEF CallTyped, Request, NoRequest, Buffer
  <2>3. DOMAIN mCirculatingBuffers' = DOMAIN mCirculatingBuffers
    BY <2>1 DEF Import
  <2>4. \A s \in DOMAIN mCirculatingBuffers : mCirculatingBuffers'[s] \subseteq BufferId
    BY <2>1, <2>2 DEF Import
  <2> QED BY <1>5, <2>3, <2>4 DEF ImportRequest
<1>6. CASE RecordRequest \/ HalTakesRequest \/ HalRefusesRequest \/ EndRequest
  BY <1>6 DEF RecordRequest, HalTakesRequest, HalRefusesRequest, EndRequest
<1>7. ASSUME NEW t \in HalThread, NEW f \in Frame, HalResult(t, f) \/ HalError(t, f) PROVE StreamsTyped'
  BY <1>7 DEF HalResult, HalError
<1>8. ASSUME NEW t \in HalThread, CheckInflight(t) \/ OverrideMetadata(t) \/ EraseInflight(t) PROVE StreamsTyped'
  BY <1>8 DEF CheckInflight, OverrideMetadata, EraseInflight
<1>9. ASSUME NEW t \in HalThread, Deliver(t) \/ NotifyError(t) \/ DropError(t) \/ DeliverError(t) PROVE StreamsTyped'
  BY <1>9 DEF Deliver, NotifyError, DropError, DeliverError
<1> QED BY <1>1, <1>2, <1>3, <1>4, <1>5, <1>6, <1>7, <1>8, <1>9 DEF Next

(* the buffers in flight, held and waited for,                              *)
LEMMA BuffersTypedStep == ASSUME IInv, Next PROVE BuffersTyped'
<1> USE TypeParts DEF IInv, BuffersTyped, inflightVars, halVars, frameworkVars
<1>0. request.buffers \subseteq Buffer
  BY DEF CallTyped, Request, NoRequest
<1>1. CASE Open \/ CloseDevice
  BY <1>1 DEF Open, NewSession, CloseDevice
<1>2. CASE ClientDies \/ DestructorOfClosed \/ FreeBuffers
  BY <1>2 DEF ClientDies, DestructorOfClosed, FreeBuffers
<1>3. ASSUME NEW streams, ConfigureStreams(streams) PROVE BuffersTyped'
  BY <1>3 DEF ConfigureStreams
<1>4. ASSUME NEW settings, NEW physical, BeginRequest(settings, physical) PROVE BuffersTyped'
  <2>1. /\ UNCHANGED <<mInflightBuffers, held>>
        /\ (awaited' = awaited \/ \E bs \in Outputs(frame + 1) : awaited' = awaited \cup bs)
    BY <1>4 DEF BeginRequest
  <2>2. frame + 1 \in Frame
    BY <1>4, SessionAssumption DEF BeginRequest, BoundsTyped, Frame
  <2>3. \A bs \in Outputs(frame + 1) : bs \subseteq Buffer
    BY <2>2 DEF Outputs, StreamsTyped, Buffer
  <2> QED BY <2>1, <2>3
<1>5. CASE ImportRequest \/ RecordRequest \/ HalTakesRequest
  BY <1>0, <1>5 DEF ImportRequest, RecordRequest, HalTakesRequest, RequestFails
<1>6. CASE HalRefusesRequest \/ EndRequest
  BY <1>6 DEF HalRefusesRequest, UndoRequest, EndRequest, RequestFails
<1>7. ASSUME NEW t \in HalThread, NEW f \in Frame, HalResult(t, f) \/ HalError(t, f) PROVE BuffersTyped'
  BY <1>7 DEF HalResult, HalError
<1>8. ASSUME NEW t \in HalThread, CheckInflight(t) \/ OverrideMetadata(t) \/ EraseInflight(t) PROVE BuffersTyped'
  BY <1>8 DEF CheckInflight, OverrideMetadata, EraseInflight
<1>9. ASSUME NEW t \in HalThread, Deliver(t) \/ NotifyError(t) \/ DropError(t) \/ DeliverError(t) PROVE BuffersTyped'
  BY <1>9 DEF Deliver, Arrives, Dropped, NotifyError, DropError, DeliverError
<1> QED BY <1>1, <1>2, <1>3, <1>4, <1>5, <1>6, <1>7, <1>8, <1>9 DEF Next
-----------------------------------------------------------------------------
(* The request being submitted has a frame.                                 *)
LEMMA RequestFrame == ASSUME IInv, Submitting PROVE request.frame \in Frame
  BY TypeParts DEF IInv, Parts, SubmittedIsAwaited, MetadataTyped

(* The overrides and the notes of the boost key keep their types,           *)
LEMMA OverridesTypedStep == ASSUME IInv, Next PROVE OverridesTyped'
<1> USE TypeParts DEF IInv, OverridesTyped, inflightVars
<1>1. CASE Open \/ ClientDies \/ DestructorOfClosed \/ CloseDevice \/ FreeBuffers
  BY <1>1 DEF Open, NewSession, ClientDies, DestructorOfClosed, CloseDevice, FreeBuffers
<1>2. ASSUME NEW streams, ConfigureStreams(streams) PROVE OverridesTyped'
  BY <1>2 DEF ConfigureStreams
<1>3. ASSUME NEW settings, NEW physical, BeginRequest(settings, physical) PROVE OverridesTyped'
  BY <1>3 DEF BeginRequest
<1>4. CASE RecordRequest
  <2>1. request.frame \in Frame
    BY <1>4, RequestFrame DEF RecordRequest, Submitting
  <2> QED BY <1>4, <2>1 DEF RecordRequest
<1>5. CASE ImportRequest \/ HalTakesRequest \/ HalRefusesRequest \/ EndRequest
  BY <1>5 DEF ImportRequest, HalTakesRequest, HalRefusesRequest, UndoRequest, EndRequest
<1>6. ASSUME NEW t \in HalThread, NEW f \in Frame, HalResult(t, f) \/ HalError(t, f) PROVE OverridesTyped'
  BY <1>6 DEF HalResult, HalError
<1>7. ASSUME NEW t \in HalThread, OverrideMetadata(t) PROVE OverridesTyped'
  <2>1. thread[t].frame \in Frame
    BY <1>7 DEF OverrideMetadata, Threads
  <2>2. thread[t].boost \in BOOLEAN
    BY ThreadsHaveRecords DEF ThreadRecord
  <2>3. <<thread[t].frame, thread[t].boost \/ BoostSeen(thread[t].frame)>> \in Frame \X BOOLEAN
    BY <2>1, <2>2 DEF BoostSeen
  <2> QED BY <1>7, <2>3 DEF OverrideMetadata, NoteBoost, WithoutFrame
<1>8. ASSUME NEW t \in HalThread, NotifyError(t) PROVE OverridesTyped'
  BY <1>8 DEF NotifyError, WithoutFrame
<1>9. ASSUME NEW t \in HalThread, CheckInflight(t) \/ EraseInflight(t) \/ Deliver(t) \/ DropError(t) \/ DeliverError(t)
      PROVE  OverridesTyped'
  BY <1>9 DEF CheckInflight, EraseInflight, Deliver, DropError, DeliverError
<1> QED BY <1>1, <1>2, <1>3, <1>4, <1>5, <1>6, <1>7, <1>8, <1>9 DEF Next

(* so do the call and its request,                                          *)
LEMMA CallTypedStep == ASSUME IInv, Next PROVE CallTyped'
<1> USE TypeParts DEF IInv, CallTyped, callVars
<1>1. CASE Open \/ ClientDies \/ DestructorOfClosed \/ CloseDevice \/ FreeBuffers
  BY <1>1 DEF Open, ClientDies, DestructorOfClosed, CloseDevice, FreeBuffers
<1>2. ASSUME NEW streams, ConfigureStreams(streams) PROVE CallTyped'
  BY <1>2 DEF ConfigureStreams
<1>3. ASSUME NEW settings \in {"null", "plain", "cancel", "corrupt"}, NEW physical \in {"fine", "null", "corrupt"},
             BeginRequest(settings, physical)
      PROVE  CallTyped'
  <2>1. UNCHANGED callVars \/ \E bs \in Outputs(frame + 1) :
          /\ request' = [frame |-> frame + 1, buffers |-> bs, settings |-> settings, physical |-> physical]
          /\ call' = "import"
    BY <1>3 DEF BeginRequest
  <2>2. frame + 1 \in Frame
    BY <1>3, SessionAssumption DEF BeginRequest, BoundsTyped, Frame
  <2>3. \A bs \in Outputs(frame + 1) : bs \subseteq Buffer
    BY <2>2 DEF Outputs, StreamsTyped, Buffer
  <2> QED BY <2>1, <2>2, <2>3 DEF Request
<1>4. CASE ImportRequest \/ RecordRequest
  BY <1>4 DEF ImportRequest, RecordRequest, RequestFails
<1>5. CASE HalTakesRequest \/ HalRefusesRequest \/ EndRequest
  BY <1>5 DEF HalTakesRequest, HalRefusesRequest, EndRequest, RequestFails
<1>6. ASSUME NEW t \in HalThread, NEW f \in Frame, HalResult(t, f) \/ HalError(t, f) PROVE CallTyped'
  BY <1>6 DEF HalResult, HalError
<1>7. ASSUME NEW t \in HalThread, CheckInflight(t) \/ OverrideMetadata(t) \/ EraseInflight(t) PROVE CallTyped'
  BY <1>7 DEF CheckInflight, OverrideMetadata, EraseInflight
<1>8. ASSUME NEW t \in HalThread, Deliver(t) \/ NotifyError(t) \/ DropError(t) \/ DeliverError(t) PROVE CallTyped'
  BY <1>8 DEF Deliver, NotifyError, DropError, DeliverError
<1> QED BY <1>1, <1>2, <1>3, <1>4, <1>5, <1>6, <1>7, <1>8 DEF Next

(* the parts that the HAL owes,                                             *)
LEMMA PartTypedStep == ASSUME IInv, Next PROVE PartTyped'
<1> USE TypeParts, SessionAssumption DEF IInv, PartTyped, halVars
<1>1. CASE Open \/ CloseDevice
  BY <1>1 DEF Open, NewSession, CloseDevice
<1>2. CASE ClientDies \/ DestructorOfClosed \/ FreeBuffers
  BY <1>2 DEF ClientDies, DestructorOfClosed, FreeBuffers
<1>3. ASSUME NEW streams, ConfigureStreams(streams) PROVE PartTyped'
  BY <1>3 DEF ConfigureStreams
<1>4. ASSUME NEW settings, NEW physical, BeginRequest(settings, physical) PROVE PartTyped'
  BY <1>4 DEF BeginRequest
<1>5. CASE HalTakesRequest
  <2>1. request.frame \in Frame
    BY <1>5, RequestFrame DEF HalTakesRequest, Submitting
  <2>2. 1 \in 0 .. mNumPartialResults
    OBVIOUS
  <2> QED BY <1>5, <2>1, <2>2 DEF HalTakesRequest
<1>6. CASE ImportRequest \/ RecordRequest \/ HalRefusesRequest \/ EndRequest
  BY <1>6 DEF ImportRequest, RecordRequest, HalRefusesRequest, EndRequest
<1>7. ASSUME NEW t \in HalThread, NEW f \in Frame, HalResult(t, f) PROVE PartTyped'
  <2>1. boosted' \subseteq Frame
    BY <1>7 DEF HalResult
  <2>2. PICK bs, p : Gives(t, f, bs, p)
    BY <1>7, ResultGives
  <2>3. CASE p = 0
    BY <2>1, <2>2, <2>3 DEF Gives
  <2>4. CASE p # 0
    <3>1. OwesPart(f) /\ part' = [part EXCEPT ![f] = NextPart(f)]
      BY <2>2, <2>4 DEF Gives
    <3>2. NextPart(f) \in 0 .. mNumPartialResults
      BY <3>1 DEF OwesPart, NextPart
    <3> QED BY <2>1, <3>1, <3>2
  <2> QED BY <2>3, <2>4
<1>8. ASSUME NEW t \in HalThread, NEW f \in Frame, HalError(t, f) PROVE PartTyped'
  BY <1>8 DEF HalError
<1>9. ASSUME NEW t \in HalThread, CheckInflight(t) \/ OverrideMetadata(t) \/ EraseInflight(t) PROVE PartTyped'
  BY <1>9 DEF CheckInflight, OverrideMetadata, EraseInflight
<1>10. ASSUME NEW t \in HalThread, Deliver(t) \/ NotifyError(t) \/ DropError(t) \/ DeliverError(t) PROVE PartTyped'
  BY <1>10 DEF Deliver, NotifyError, DropError, DeliverError
<1> QED BY <1>1, <1>2, <1>3, <1>4, <1>5, <1>6, <1>7, <1>8, <1>9, <1>10 DEF Next

(* what the framework has of metadata,                                      *)
LEMMA MetadataTypedStep == ASSUME IInv, Next PROVE MetadataTyped'
<1> USE TypeParts DEF IInv, MetadataTyped, frameworkVars, MetadataIsOver
<1>1. CASE Open \/ CloseDevice
  BY <1>1 DEF Open, NewSession, CloseDevice
<1>2. CASE ClientDies \/ DestructorOfClosed \/ FreeBuffers
  BY <1>2 DEF ClientDies, DestructorOfClosed, FreeBuffers
<1>3. ASSUME NEW streams, ConfigureStreams(streams) PROVE MetadataTyped'
  BY <1>3 DEF ConfigureStreams
<1>4. ASSUME NEW settings, NEW physical, BeginRequest(settings, physical) PROVE MetadataTyped'
  <2>1. frame + 1 \in Frame
    BY <1>4, SessionAssumption DEF BeginRequest, BoundsTyped, Frame
  <2> QED BY <1>4, <2>1 DEF BeginRequest
<1>5. CASE ImportRequest \/ HalRefusesRequest
  BY <1>5 DEF ImportRequest, HalRefusesRequest, RequestFails
<1>6. CASE RecordRequest
  <2>1. request.frame \in Frame
    BY <1>6, RequestFrame DEF RecordRequest, Submitting
  <2> QED BY <1>6, <2>1 DEF RecordRequest, RequestFails
<1>7. CASE HalTakesRequest \/ EndRequest
  BY <1>7 DEF HalTakesRequest, EndRequest
<1>8. ASSUME NEW t \in HalThread, NEW f \in Frame, HalResult(t, f) \/ HalError(t, f) PROVE MetadataTyped'
  BY <1>8 DEF HalResult, HalError
<1>9. ASSUME NEW t \in HalThread, CheckInflight(t) \/ OverrideMetadata(t) \/ EraseInflight(t) \/ NotifyError(t) \/ DropError(t)
      PROVE  MetadataTyped'
  BY <1>9 DEF CheckInflight, OverrideMetadata, EraseInflight, NotifyError, DropError
<1>10. ASSUME NEW t \in HalThread, Deliver(t) PROVE MetadataTyped'
  <2>1. thread[t].boost => thread[t].frame \in awaitedMetadata
    BY DEF Threads, Parts, ReturnedIsAwaited, HasMetadata
  <2>2. CASE Arrives(t)
    BY <1>10, <2>1, <2>2 DEF Deliver, Arrives, Noticed
  <2>3. CASE Dropped(t)
    BY <1>10, <2>1, <2>3 DEF Deliver, Dropped, Noticed
  <2> QED BY <1>10, <2>2, <2>3 DEF Deliver
<1>11. ASSUME NEW t \in HalThread, DeliverError(t) PROVE MetadataTyped'
  BY <1>11 DEF DeliverError
<1> QED BY <1>1, <1>2, <1>3, <1>4, <1>5, <1>6, <1>7, <1>8, <1>9, <1>10, <1>11 DEF Next

(* and the counters.                                                        *)
LEMMA BoundsTypedStep == ASSUME IInv, Next PROVE BoundsTyped'
<1> USE TypeParts, SessionAssumption DEF IInv, BoundsTyped, bounds
<1>1. CASE Open
  BY <1>1 DEF Open
<1>2. CASE ClientDies \/ DestructorOfClosed \/ CloseDevice \/ FreeBuffers
  BY <1>2 DEF ClientDies, DestructorOfClosed, CloseDevice, FreeBuffers
<1>3. ASSUME NEW streams, ConfigureStreams(streams) PROVE BoundsTyped'
  BY <1>3 DEF ConfigureStreams
<1>4. ASSUME NEW settings, NEW physical, BeginRequest(settings, physical) PROVE BoundsTyped'
  BY <1>4 DEF BeginRequest
<1>5. CASE ImportRequest \/ RecordRequest \/ HalTakesRequest \/ HalRefusesRequest \/ EndRequest
  BY <1>5 DEF ImportRequest, RecordRequest, HalTakesRequest, HalRefusesRequest, EndRequest
<1>6. ASSUME NEW t \in HalThread, NEW f \in Frame, HalResult(t, f) \/ HalError(t, f) PROVE BoundsTyped'
  BY <1>6 DEF HalResult, HalError
<1>7. ASSUME NEW t \in HalThread, CheckInflight(t) \/ OverrideMetadata(t) \/ EraseInflight(t) PROVE BoundsTyped'
  BY <1>7 DEF CheckInflight, OverrideMetadata, EraseInflight
<1>8. ASSUME NEW t \in HalThread, Deliver(t) \/ NotifyError(t) \/ DropError(t) \/ DeliverError(t) PROVE BoundsTyped'
  BY <1>8 DEF Deliver, NotifyError, DropError, DeliverError
<1> QED BY <1>1, <1>2, <1>3, <1>4, <1>5, <1>6, <1>7, <1>8 DEF Next

(* Hence every step keeps the type invariant.                               *)
LEMMA TypeStep == IInv /\ [Next]_vars => TypeOK'
<1> SUFFICES ASSUME IInv, [Next]_vars PROVE TypeOK'
  OBVIOUS
<1>1. CASE Next
  <2>1. thread' \in [HalThread -> ThreadRecord]
    <3>1. thread \in [HalThread -> ThreadRecord]
      BY ThreadsHaveRecords DEF IInv
    <3> QED BY <1>1, <3>1, Cases DEF Moves, Ends, Errs, Gives, OthersStay, Open, ClientDies, DestructorOfClosed,
              CloseDevice, FreeBuffers, ConfigureStreams, BeginRequest, ImportRequest, RecordRequest,
              HalTakesRequest, HalRefusesRequest, EndRequest
  <2> QED BY <1>1, <2>1, StateStep, StreamsTypedStep, BuffersTypedStep, OverridesTypedStep, CallTypedStep,
             PartTypedStep, MetadataTypedStep, BoundsTypedStep, TypeParts
<1>2. CASE UNCHANGED vars
  BY <1>2 DEF IInv, TypeOK, vars, stateVars, streamVars, inflightVars, callVars, halVars, frameworkVars, bounds
<1> QED BY <1>1, <1>2

(* The invariant holds before the first session,                            *)
LEMMA InitIInv == Init => IInv
<1> SUFFICES ASSUME Init PROVE IInv
  OBVIOUS
<1> USE SessionAssumption, IdleFields DEF Init
<1>1. TypeOK
  <2>1. thread \in [HalThread -> ThreadRecord]
    BY IdleIsRecord
  <2>2. StateTyped /\ StreamsTyped /\ BuffersTyped /\ OverridesTyped
    BY DEF StateTyped, StreamsTyped, BuffersTyped, OverridesTyped
  <2>3. CallTyped /\ PartTyped /\ MetadataTyped /\ BoundsTyped
    BY DEF CallTyped, PartTyped, MetadataTyped, BoundsTyped
  <2> QED BY <2>1, <2>2, <2>3, TypeParts
<1>2. Lifecycle /\ Threads /\ Frames /\ Apart
  BY DEF Lifecycle, Threads, Frames, Apart, Submitting
<1>3. Flight /\ Awaited /\ Streams /\ First
  BY DEF Flight, Awaited, Streams, First, Submitting
<1>4. Parts
  BY DEF Parts, OwedIsAwaited, ReturnedIsAwaited, OneThread, LastIsLast, SubmittedIsAwaited,
            HasMetadata, Submitting
<1>5. Returning = {}
  BY ReturningBuffers
<1>6. InflightIsOwed /\ HalBuffersAreImported /\ StreamsHaveCaches
  BY <1>5 DEF InflightIsOwed, HalBuffersAreImported, StreamsHaveCaches
<1> QED BY <1>1, <1>2, <1>3, <1>4, <1>6 DEF IInv
-----------------------------------------------------------------------------
(* every step keeps it,                                                     *)
LEMMA NextIInv == IInv /\ [Next]_vars => IInv'
  BY TypeStep, LifecycleStep, ThreadsStep, FramesStep, ApartStep, FlightStep, AwaitedStep, PartsStep,
     StreamsStep, FirstStep, InflightIsOwedStep, HalBuffersStep, StreamsHaveCachesStep DEF IInv

(* and so it always holds.                                                  *)
LEMMA SessionInvariant == Spec => []IInv
  BY InitIInv, NextIInv, PTL DEF Spec

(* The variables of a session keep their types.                            *)
THEOREM SessionTypeCorrect == Spec => []TypeOK
<1>1. IInv => TypeOK
  BY DEF IInv
<1> QED BY <1>1, SessionInvariant, PTL

(* While the device is open the session has in flight exactly what the HAL  *)
(* has, returns or is being given, and what was stranded.                  *)
THEOREM SessionInflightIsOwed == Spec => []InflightIsOwed
<1>1. IInv => InflightIsOwed
  BY DEF IInv
<1> QED BY <1>1, SessionInvariant, PTL

(* No configuration, removal of caches or close() frees a buffer that the   *)
(* HAL has, returns or is being given.                                     *)
THEOREM SessionBuffersAreImported == Spec => []HalBuffersAreImported
<1>1. IInv => HalBuffersAreImported
  BY DEF IInv
<1> QED BY <1>1, SessionInvariant, PTL

(* Every stream has a cache, whatever configurations failed before.        *)
THEOREM SessionStreamsHaveCaches == Spec => []StreamsHaveCaches
<1>1. IInv => StreamsHaveCaches
  BY DEF IInv
<1> QED BY <1>1, SessionInvariant, PTL

(* The first request after a configuration has settings.                   *)
THEOREM SessionFirstHasSettings == Spec => []FirstHasSettings
<1>1. IInv => FirstHasSettings
  BY DEF IInv, First, Submitting, FirstHasSettings
<1> QED BY <1>1, SessionInvariant, PTL

(* The device is open exactly while its session is, and a closed session    *)
(* has freed its buffers.                                                  *)
THEOREM SessionClosedIsReleased == Spec => []ClosedIsReleased
<1>1. IInv => ClosedIsReleased
  BY DEF IInv, Lifecycle, ClosedIsReleased
<1> QED BY <1>1, SessionInvariant, PTL
-----------------------------------------------------------------------------
(* What is noted of a frame until its metadata is over: the override of the  *)
(* AE trigger and whether a part had the boost key.                         *)
Noted(f) == \E x \in mInflightRawBoostPresent : x[1] = f
Quiet(f) == \A t \in HalThread : HasMetadata(t) => thread[t].frame # f

(* Nothing is left of a frame whose last part or error is being delivered.  *)
IsOver(t) ==
  \/ thread[t].at = "deliver error"
  \/ thread[t].part = mNumPartialResults /\ thread[t].at \in {"erase", "deliver"}

(* While a frame is owed and no thread has metadata of it, the session, the *)
(* framework and the HAL agree on it.                                      *)
FrameNotes(f) ==
  /\ part[f] # 0 => (f \in mInflightAETriggerOverrides <=> f \in cancelled)
  /\ part[f] # 0 /\ Quiet(f) => (f \in seen <=> f \in boosted) /\ (BoostSeen(f) <=> f \in seen)
  /\ halOpen => /\ f \in mInflightAETriggerOverrides => f \in stranded \cup awaitedMetadata
                /\ Noted(f) => f \in awaitedMetadata

(* What a thread has differs from that by what it did already.             *)
ThreadNotes(t) ==
  LET f == thread[t].frame
      last == thread[t].part = mNumPartialResults IN
  /\ IsOver(t) => f \notin mInflightAETriggerOverrides /\ ~Noted(f)
  /\ thread[t].part # 0 /\ thread[t].at \in {"check", "metadata"} =>
       /\ f \in mInflightAETriggerOverrides <=> f \in cancelled
       /\ BoostSeen(f) <=> f \in seen
       /\ thread[t].boost => f \notin seen
       /\ ~last => (f \in boosted <=> thread[t].boost \/ f \in seen)
  /\ thread[t].part # 0 /\ thread[t].at \in {"erase", "deliver"} =>
       /\ thread[t].override <=> f \in cancelled
       /\ thread[t].boost => f \notin seen
       /\ last => thread[t].boost \/ f \in seen
       /\ ~last => /\ f \in boosted <=> thread[t].boost \/ f \in seen
                   /\ BoostSeen(f) <=> thread[t].boost \/ f \in seen

(* Nothing is noted of a frame before its request is recorded.             *)
RequestNotes ==
  /\ \A f \in Frame :
       Noted(f) \/ f \in mInflightAETriggerOverrides \cup seen \cup boosted \cup cancelled => f <= frame
  /\ call \in {"import", "record"} => frame \notin mInflightAETriggerOverrides
  /\ Submitting => /\ frame \notin seen /\ frame \notin boosted /\ ~Noted(frame)
                   /\ request.settings = "cancel" <=> frame \in cancelled
  /\ call = "submit" => (frame \in mInflightAETriggerOverrides <=> frame \in cancelled)

Notes == RequestNotes /\ (\A f \in Frame : FrameNotes(f)) /\ (\A t \in HalThread : ThreadNotes(t))

(* A step that changes nothing that is noted of a frame.                   *)
NotesStay(f) ==
  /\ f \in mInflightAETriggerOverrides' <=> f \in mInflightAETriggerOverrides
  /\ Noted(f)' <=> Noted(f)
  /\ BoostSeen(f)' <=> BoostSeen(f)
  /\ f \in seen' <=> f \in seen
  /\ f \in boosted' <=> f \in boosted
  /\ f \in cancelled' <=> f \in cancelled
  /\ f \in awaitedMetadata' <=> f \in awaitedMetadata
  /\ part'[f] = part[f]

(* A thread's step about a frame leaves what is noted of other frames.      *)
About(t, f) ==
  /\ OthersStay(t) /\ SessionStays
  /\ f \in Frame /\ f <= frame /\ (Submitting => f < frame)
  /\ \A g \in Frame \ {f} : NotesStay(g)
  /\ HasMetadata(t) => thread[t].frame = f
  /\ HasMetadata(t)' => thread'[t].frame = f
  /\ \A u \in HalThread \ {t} : HasMetadata(u) => thread[u].frame # f

(* A thread with the last of a frame has metadata of it.                    *)
LEMMA IsOverHas ==
  ASSUME NEW t
  PROVE  (IsOver(t) => HasMetadata(t)) /\ (IsOver(t)' => HasMetadata(t)')
<1>1. mNumPartialResults # 0
  BY SessionAssumption
<1>2. IsOver(t) => thread[t].at = "deliver error" \/ thread[t].part # 0
  BY <1>1, Zenon DEF IsOver
<1>3. IsOver(t)' => thread'[t].at = "deliver error" \/ thread'[t].part # 0
  BY <1>1, Zenon DEF IsOver
<1> QED
  BY <1>2, <1>3, Zenon DEF HasMetadata

(* What stays noted of a frame keeps agreeing with what threads have of it. *)
LEMMA ThreadKeeps ==
  ASSUME IInv, NEW u \in HalThread, ThreadNotes(u), thread'[u] = thread[u],
         NEW f, thread[u].frame = f, HasMetadata(u) => NotesStay(f)
  PROVE  ThreadNotes(u)'
<1>1. CASE HasMetadata(u)
  <2>1. NotesStay(f)
    BY <1>1
  <2> QED
    BY <2>1 DEF ThreadNotes, NotesStay, Noted, BoostSeen, IsOver
<1>2. CASE ~HasMetadata(u)
  BY <1>2, IsOverHas DEF ThreadNotes, HasMetadata
<1> QED
  BY <1>1, <1>2

(* Other frames and other threads keep agreeing.                            *)
LEMMA OthersKeep ==
  ASSUME IInv, Notes, NEW t \in HalThread, NEW f, About(t, f)
  PROVE  /\ \A g \in Frame \ {f} : FrameNotes(g)'
         /\ \A u \in HalThread \ {t} : ThreadNotes(u)'
<1>1. ASSUME NEW g \in Frame \ {f} PROVE FrameNotes(g)'
  <2>1. NotesStay(g) /\ FrameNotes(g) /\ halOpen' = halOpen /\ stranded' = stranded
    BY DEF About, SessionStays, Notes
  <2>2. ASSUME Quiet(g)' PROVE Quiet(g)
    <3> SUFFICES ASSUME NEW u \in HalThread, HasMetadata(u) PROVE thread[u].frame # g
      BY DEF Quiet
    <3>1. CASE u = t
      BY <3>1 DEF About
    <3>2. CASE u # t
      <4>1. thread'[u] = thread[u]
        BY <3>2 DEF About, OthersStay
      <4>2. HasMetadata(u)' /\ thread'[u].frame = thread[u].frame
        BY <4>1 DEF HasMetadata
      <4> QED
        BY <2>2, <4>2 DEF Quiet
    <3> QED
      BY <3>1, <3>2
  <2> QED
    BY <2>1, <2>2 DEF FrameNotes, NotesStay
<1>2. ASSUME NEW u \in HalThread \ {t} PROVE ThreadNotes(u)'
  <2>1. thread'[u] = thread[u] /\ ThreadNotes(u)
    BY DEF About, OthersStay, Notes
  <2>2. HasMetadata(u) => thread[u].frame \in Frame \ {f}
    <3>1. HasMetadata(u) => thread[u].at # "idle"
      <4>1. thread[u].at = "idle" => thread[u] = IdleThread
        BY DEF IInv, Threads
      <4> QED
        BY <4>1, IdleFields DEF HasMetadata
    <3> QED
      BY <3>1 DEF About, IInv, Threads
  <2>3. PICK g : thread[u].frame = g
    OBVIOUS
  <2>4. HasMetadata(u) => NotesStay(g)
    BY <2>2, <2>3 DEF About
  <2> QED
    BY <2>1, <2>3, <2>4, ThreadKeeps
<1> QED
  BY <1>1, <1>2

(* And so does the request that is being submitted.                         *)
LEMMA RequestKeeps ==
  ASSUME IInv, Notes, NEW t \in HalThread, NEW f, About(t, f),
         f \in mInflightAETriggerOverrides' => f \in mInflightAETriggerOverrides
  PROVE  RequestNotes'
<1>1. frame' = frame /\ call' = call /\ request' = request /\ f \in Frame /\ f <= frame
  BY DEF About, SessionStays
<1>2. Submitting => frame \in Frame /\ f # frame
  <2>1. Submitting => request.frame \in Frame /\ request.frame = frame
    BY RequestFrame DEF IInv, Frames
  <2>2. frame \in Nat
    BY FramesAreNumbers DEF IInv
  <2> QED
    BY <2>1, <2>2 DEF About
<1>3. Submitting => NotesStay(frame)
  BY <1>2 DEF About
<1>4. ASSUME NEW g \in Frame,
             Noted(g)' \/ g \in (mInflightAETriggerOverrides \cup seen \cup boosted \cup cancelled)'
      PROVE  g <= frame
  <2>1. CASE g = f
    BY <1>1, <2>1
  <2>2. CASE g # f
    <3>1. NotesStay(g)
      BY <2>2 DEF About
    <3> QED
      BY <1>4, <3>1 DEF NotesStay, Notes, RequestNotes
  <2> QED
    BY <2>1, <2>2
<1>5. call \in {"import", "record", "submit"} <=> Submitting
  BY DEF Submitting
<1>6. Submitting' <=> Submitting
  BY <1>1 DEF Submitting
<1>7. RequestNotes
  BY DEF Notes
<1> QED
  BY <1>1, <1>3, <1>4, <1>5, <1>6, <1>7 DEF RequestNotes, NotesStay

(* Hence a step about a frame keeps all notes when it keeps this frame's.   *)
LEMMA NotesKept ==
  ASSUME IInv, Notes, NEW t \in HalThread, NEW f, About(t, f),
         f \in mInflightAETriggerOverrides' => f \in mInflightAETriggerOverrides,
         FrameNotes(f)', ThreadNotes(t)'
  PROVE  Notes'
<1>1. RequestNotes' /\ (\A g \in Frame \ {f} : FrameNotes(g)') /\ (\A u \in HalThread \ {t} : ThreadNotes(u)')
  BY RequestKeeps, OthersKeep
<1>2. \A g \in Frame : FrameNotes(g)'
  BY <1>1
<1>3. \A u \in HalThread : ThreadNotes(u)'
  BY <1>1
<1> QED
  BY <1>1, <1>2, <1>3 DEF Notes

(* What is not assigned stays.                                              *)
LEMMA SameNotes ==
  UNCHANGED <<mInflightAETriggerOverrides, mInflightRawBoostPresent, seen, boosted, cancelled, awaitedMetadata, part>>
    => \A g \in Frame : NotesStay(g)
  BY DEF NotesStay, Noted, BoostSeen

(* A step of a thread that has buffers only.                               *)
LEMMA NothingNoted ==
  ASSUME IInv, Notes, NEW t \in HalThread, OthersStay(t), SessionStays,
         ~HasMetadata(t), ~HasMetadata(t)', \A g \in Frame : NotesStay(g)
  PROVE  Notes'
<1>1. RequestNotes'
  <2>1. Submitting => frame \in Frame
    BY RequestFrame DEF IInv, Frames
  <2>2. frame' = frame /\ call' = call /\ request' = request /\ (Submitting' <=> Submitting)
    BY DEF SessionStays, Submitting
  <2>3. call \in {"import", "record", "submit"} <=> Submitting
    BY DEF Submitting
  <2>4. RequestNotes /\ (Submitting => NotesStay(frame))
    BY <2>1 DEF Notes
  <2>5. ASSUME NEW g \in Frame,
               Noted(g)' \/ g \in (mInflightAETriggerOverrides \cup seen \cup boosted \cup cancelled)'
        PROVE  g <= frame
    BY <2>4, <2>5 DEF NotesStay, RequestNotes
  <2> QED
    BY <2>2, <2>3, <2>4, <2>5 DEF RequestNotes, NotesStay
<1>2. ASSUME NEW u \in HalThread
      PROVE  ThreadNotes(u)' /\ (HasMetadata(u)' <=> HasMetadata(u))
             /\ (HasMetadata(u) => thread'[u] = thread[u])
  <2>1. CASE u = t
    BY <2>1, IsOverHas DEF ThreadNotes, HasMetadata
  <2>2. CASE u # t
    <3>1. thread'[u] = thread[u] /\ ThreadNotes(u)
      BY <2>2 DEF OthersStay, Notes
    <3>2. PICK g : thread[u].frame = g
      OBVIOUS
    <3>3. HasMetadata(u) => thread[u].at # "idle"
      <4>1. thread[u].at = "idle" => thread[u] = IdleThread
        BY DEF IInv, Threads
      <4> QED
        BY <4>1, IdleFields DEF HasMetadata
    <3>4. HasMetadata(u) => NotesStay(g)
      BY <3>2, <3>3 DEF IInv, Threads
    <3>5. ThreadNotes(u)'
      BY <3>1, <3>2, <3>4, ThreadKeeps
    <3> QED
      BY <3>1, <3>5 DEF HasMetadata
  <2> QED
    BY <2>1, <2>2
<1>3. ASSUME NEW g \in Frame PROVE FrameNotes(g)'
  <2>1. Quiet(g)' => Quiet(g)
    BY <1>2 DEF Quiet
  <2>2. NotesStay(g) /\ FrameNotes(g) /\ halOpen' = halOpen /\ stranded' = stranded
    BY DEF Notes, SessionStays
  <2> QED
    BY <2>1, <2>2 DEF FrameNotes, NotesStay
<1> QED
  BY <1>1, <1>2, <1>3 DEF Notes

(* The frame of a thread, and what a step of it is about.                  *)
LEMMA ThreadAbout ==
  ASSUME IInv, NEW t \in HalThread, HasMetadata(t), OthersStay(t), SessionStays,
         NEW f, thread[t].frame = f, HasMetadata(t)' => thread'[t].frame = f,
         \A g \in Frame \ {f} : NotesStay(g)
  PROVE  About(t, f)
<1>1. thread[t].at # "idle"
  <2>1. thread[t].at = "idle" => thread[t] = IdleThread
    BY DEF IInv, Threads
  <2> QED
    BY <2>1, IdleFields DEF HasMetadata
<1>2. f \in Frame /\ f <= frame /\ (Submitting => f < frame)
  BY <1>1 DEF IInv, Threads, Frames
<1>3. \A u \in HalThread \ {t} : HasMetadata(u) => thread[u].frame # f
  BY DEF IInv, Parts, OneThread
<1> QED
  BY <1>2, <1>3 DEF About

(* A frame some thread has metadata of agrees as long as its notes stay.    *)
LEMMA FrameKeeps ==
  ASSUME Notes, SessionStays, NEW t \in HalThread, NEW f \in Frame,
         thread'[t].frame = f, HasMetadata(t)', NotesStay(f)
  PROVE  FrameNotes(f)'
<1>1. ~Quiet(f)'
  BY DEF Quiet
<1>2. FrameNotes(f) /\ halOpen' = halOpen /\ stranded' = stranded
  BY DEF Notes, SessionStays
<1> QED
  BY <1>1, <1>2 DEF FrameNotes, NotesStay

(* A result that is checked: the notes stay.                                *)
LEMMA CheckNotes == ASSUME IInv, Notes, NEW t \in HalThread, CheckInflight(t) PROVE Notes'
<1>1. Moves(t) /\ thread[t].at = "check"
  BY CheckMoves DEF CheckInflight
<1>2. \A g \in Frame : NotesStay(g)
  BY SameNotes DEF CheckInflight, inflightVars, halVars, frameworkVars
<1>3. thread'[t].at = IF thread[t].part = 0 THEN "erase" ELSE "metadata"
  <2>1. thread[t] \in ThreadRecord
    BY ThreadsHaveRecords DEF IInv
  <2>2. thread'[t].at # "idle"
    BY <1>1 DEF Moves
  <2>3. thread'[t] = IF thread[t].buffers \subseteq mInflightBuffers
                       THEN [thread[t] EXCEPT !.at = IF thread[t].part = 0 THEN "erase" ELSE "metadata"]
                       ELSE IdleThread
    BY ThreadsHaveRecords DEF CheckInflight, IInv
  <2>4. thread'[t] = [thread[t] EXCEPT !.at = IF thread[t].part = 0 THEN "erase" ELSE "metadata"]
    BY <2>2, <2>3, IdleFields
  <2> QED
    BY <2>1, <2>4 DEF ThreadRecord
<1>4. CASE thread[t].part = 0
  <2>1. ~HasMetadata(t) /\ ~HasMetadata(t)'
    BY <1>1, <1>3, <1>4 DEF HasMetadata, Moves
  <2> QED
    BY <1>1, <1>2, <2>1, NothingNoted DEF Moves
<1>5. CASE thread[t].part # 0
  <2>1. PICK f : thread[t].frame = f
    OBVIOUS
  <2>2. /\ HasMetadata(t) /\ HasMetadata(t)' /\ thread'[t].frame = f /\ thread'[t].at = "metadata"
        /\ thread'[t].part = thread[t].part /\ thread'[t].boost = thread[t].boost
    BY <1>1, <1>3, <1>5, <2>1 DEF HasMetadata, Moves
  <2>3. About(t, f)
    BY <1>1, <1>2, <2>1, <2>2, ThreadAbout DEF Moves
  <2>4. NotesStay(f) /\ ThreadNotes(t) /\ f \in Frame
    BY <1>2, <2>3 DEF About, Notes
  <2>5. FrameNotes(f)'
    BY <1>1, <2>2, <2>4, FrameKeeps DEF Moves
  <2>6. ThreadNotes(t)'
    BY <1>1, <1>5, <2>1, <2>2, <2>4 DEF ThreadNotes, NotesStay, IsOver, Noted, BoostSeen
  <2> QED
    BY <2>3, <2>4, <2>5, <2>6, NotesKept DEF NotesStay
<1> QED
  BY <1>4, <1>5

(* Buffers that are erased: the notes stay.                                 *)
LEMMA EraseNotes == ASSUME IInv, Notes, NEW t \in HalThread, EraseInflight(t) PROVE Notes'
<1>1. Moves(t) /\ thread[t].at = "erase"
  BY EraseMoves DEF EraseInflight
<1>2. \A g \in Frame : NotesStay(g)
  BY SameNotes DEF EraseInflight, halVars, frameworkVars
<1>3. /\ thread'[t].at = "deliver" /\ thread'[t].part = thread[t].part /\ thread'[t].frame = thread[t].frame
      /\ thread'[t].boost = thread[t].boost /\ thread'[t].override = thread[t].override
  <2>1. thread[t] \in ThreadRecord
    BY ThreadsHaveRecords DEF IInv
  <2>2. thread'[t] = [thread[t] EXCEPT !.at = "deliver"]
    BY ThreadsHaveRecords DEF EraseInflight, IInv
  <2> QED
    BY <2>1, <2>2 DEF ThreadRecord
<1>4. CASE thread[t].part = 0
  <2>1. ~HasMetadata(t) /\ ~HasMetadata(t)'
    BY <1>1, <1>3, <1>4 DEF HasMetadata
  <2> QED
    BY <1>1, <1>2, <2>1, NothingNoted DEF Moves
<1>5. CASE thread[t].part # 0
  <2>1. PICK f : thread[t].frame = f
    OBVIOUS
  <2>2. HasMetadata(t) /\ HasMetadata(t)'
    BY <1>3, <1>5 DEF HasMetadata
  <2>3. About(t, f)
    BY <1>1, <1>2, <1>3, <2>1, <2>2, ThreadAbout DEF Moves
  <2>4. NotesStay(f) /\ ThreadNotes(t) /\ f \in Frame
    BY <1>2, <2>3 DEF About, Notes
  <2>5. FrameNotes(f)'
    BY <1>1, <1>3, <2>1, <2>2, <2>4, FrameKeeps DEF Moves
  <2>6. ThreadNotes(t)'
    BY <1>1, <1>3, <1>5, <2>1, <2>4 DEF ThreadNotes, NotesStay, IsOver, Noted, BoostSeen
  <2> QED
    BY <2>3, <2>4, <2>5, <2>6, NotesKept DEF NotesStay
<1> QED
  BY <1>4, <1>5

(* What OverrideMetadata does to the notes of its frame and the thread's.   *)
LEMMA OverrideIs ==
  ASSUME IInv, NEW t \in HalThread, OverrideMetadata(t), NEW f, thread[t].frame = f
  PROVE  /\ thread'[t].at = "erase" /\ thread'[t].part = thread[t].part /\ thread'[t].frame = f
         /\ thread'[t].override <=> f \in mInflightAETriggerOverrides
         /\ thread'[t].boost <=>
              thread[t].boost \/ (thread[t].part = mNumPartialResults /\ ~BoostSeen(f))
         /\ mInflightAETriggerOverrides' =
              mInflightAETriggerOverrides \ (IF thread[t].part = mNumPartialResults THEN {f} ELSE {})
         /\ thread[t].part = mNumPartialResults => ~Noted(f)' /\ ~BoostSeen(f)'
         /\ thread[t].part # mNumPartialResults => (BoostSeen(f)' <=> thread[t].boost \/ BoostSeen(f))
         /\ \A g \in Frame \ {f} : NotesStay(g)
<1>1. thread[t] \in ThreadRecord
  BY ThreadsHaveRecords DEF IInv
<1> DEFINE added == thread[t].part = mNumPartialResults /\ AddBoost(t)
           override == thread[t].frame \in mInflightAETriggerOverrides
           r == [thread[t] EXCEPT !.at = "erase", !.boost = @ \/ added, !.override = override]
<1>2. added \in BOOLEAN /\ override \in BOOLEAN
  BY DEF AddBoost
<1>3. thread' = [thread EXCEPT ![t] = r]
  BY Zenon DEF OverrideMetadata
<1>4. thread[t].boost \in BOOLEAN
  BY <1>1 DEF ThreadRecord
<1>5. added <=> thread[t].part = mNumPartialResults /\ ~BoostSeen(f) /\ ~thread[t].boost
  BY DEF AddBoost
<1>6. override <=> f \in mInflightAETriggerOverrides
  OBVIOUS
<1> HIDE DEF added, override
<1>7. /\ thread'[t].at = "erase" /\ thread'[t].part = thread[t].part /\ thread'[t].frame = f
      /\ thread'[t].override <=> f \in mInflightAETriggerOverrides
      /\ thread'[t].boost <=>
           thread[t].boost \/ (thread[t].part = mNumPartialResults /\ ~BoostSeen(f))
  <2>1. /\ r.at = "erase" /\ r.part = thread[t].part /\ r.frame = f /\ r.override = override
        /\ r.boost = (thread[t].boost \/ added)
    BY <1>1, <1>2, Zenon DEF ThreadRecord
  <2> HIDE DEF r
  <2>2. thread'[t] = r
    BY <1>3, ThreadsHaveRecords DEF IInv
  <2>3. /\ thread'[t].at = "erase" /\ thread'[t].part = thread[t].part /\ thread'[t].frame = f
        /\ thread'[t].override = override /\ thread'[t].boost = (thread[t].boost \/ added)
    BY <2>1, <2>2, Zenon
  <2> QED
    BY <1>4, <1>5, <1>6, <2>3, Zenon
<1>8. mInflightRawBoostPresent' =
        {x \in mInflightRawBoostPresent : x[1] # f} \cup
          (IF thread[t].part = mNumPartialResults THEN {} ELSE {<<f, thread[t].boost \/ BoostSeen(f)>>})
  BY DEF OverrideMetadata, NoteBoost, WithoutFrame
<1>9. thread[t].part = mNumPartialResults => ~Noted(f)' /\ ~BoostSeen(f)'
  <2> SUFFICES ASSUME thread[t].part = mNumPartialResults PROVE ~Noted(f)' /\ ~BoostSeen(f)'
    OBVIOUS
  <2>1. \A x \in mInflightRawBoostPresent' : x[1] # f
    BY <1>8
  <2>2. <<f, TRUE>>[1] = f
    OBVIOUS
  <2> QED
    BY <2>1, <2>2 DEF Noted, BoostSeen
<1>10. thread[t].part # mNumPartialResults => (BoostSeen(f)' <=> thread[t].boost \/ BoostSeen(f))
  <2> SUFFICES ASSUME thread[t].part # mNumPartialResults
               PROVE  BoostSeen(f)' <=> thread[t].boost \/ BoostSeen(f)
    OBVIOUS
  <2> DEFINE b == thread[t].boost \/ BoostSeen(f)
  <2>1. b \in BOOLEAN
    BY DEF BoostSeen
  <2>2. mInflightRawBoostPresent' = {x \in mInflightRawBoostPresent : x[1] # f} \cup {<<f, b>>}
    BY <1>8
  <2> HIDE DEF b
  <2>3. <<f, TRUE>> \in mInflightRawBoostPresent' <=> b
    BY <2>1, <2>2
  <2> QED
    BY <2>3 DEF b, BoostSeen
<1>11. ASSUME NEW g \in Frame \ {f} PROVE NotesStay(g)
  <2>1. \A x : x[1] = g => (x \in mInflightRawBoostPresent' <=> x \in mInflightRawBoostPresent)
    <3>1. \A y : <<f, y>>[1] = f
      OBVIOUS
    <3> QED
      BY <1>8, <3>1
  <2>2. (Noted(g)' <=> Noted(g)) /\ (BoostSeen(g)' <=> BoostSeen(g))
    <3>1. <<g, TRUE>>[1] = g
      OBVIOUS
    <3> QED
      BY <2>1, <3>1 DEF Noted, BoostSeen
  <2>3. g \in mInflightAETriggerOverrides' <=> g \in mInflightAETriggerOverrides
    BY DEF OverrideMetadata, EndOverride
  <2>4. UNCHANGED <<seen, boosted, cancelled, awaitedMetadata, part>>
    BY DEF OverrideMetadata, halVars, frameworkVars
  <2> QED
    BY <2>2, <2>3, <2>4 DEF NotesStay
<1>12. mInflightAETriggerOverrides' =
         mInflightAETriggerOverrides \ (IF thread[t].part = mNumPartialResults THEN {f} ELSE {})
  BY DEF OverrideMetadata, EndOverride
<1> QED
  BY <1>7, <1>9, <1>10, <1>11, <1>12, Zenon

(* The notes move to the thread that overrides the metadata.                *)
LEMMA OverrideNotes == ASSUME IInv, Notes, NEW t \in HalThread, OverrideMetadata(t) PROVE Notes'
<1>1. Moves(t) /\ thread[t].at = "metadata"
  BY OverrideMoves DEF OverrideMetadata
<1>2. PICK f : thread[t].frame = f
  OBVIOUS
<1>3. /\ thread'[t].at = "erase" /\ thread'[t].part = thread[t].part /\ thread'[t].frame = f
      /\ thread'[t].override <=> f \in mInflightAETriggerOverrides
      /\ thread'[t].boost <=>
           thread[t].boost \/ (thread[t].part = mNumPartialResults /\ ~BoostSeen(f))
      /\ mInflightAETriggerOverrides' =
           mInflightAETriggerOverrides \ (IF thread[t].part = mNumPartialResults THEN {f} ELSE {})
      /\ thread[t].part = mNumPartialResults => ~Noted(f)' /\ ~BoostSeen(f)'
      /\ thread[t].part # mNumPartialResults => (BoostSeen(f)' <=> thread[t].boost \/ BoostSeen(f))
      /\ \A g \in Frame \ {f} : NotesStay(g)
  BY <1>2, OverrideIs
<1>4. thread[t].part # 0
  BY <1>1 DEF IInv, Threads
<1>5. HasMetadata(t) /\ HasMetadata(t)'
  BY <1>3, <1>4 DEF HasMetadata
<1>6. About(t, f)
  BY <1>1, <1>2, <1>3, <1>5, ThreadAbout DEF Moves
<1>7. FrameNotes(f) /\ ThreadNotes(t) /\ f \in Frame
  BY <1>6 DEF About, Notes
<1>8. UNCHANGED <<seen, boosted, cancelled, awaitedMetadata, part, halOpen, stranded>>
  BY DEF OverrideMetadata, halVars, frameworkVars
<1>9. thread[t].part = mNumPartialResults => part[f] = 0
  BY <1>2 DEF IInv, Parts, LastIsLast
<1>10. f \in awaitedMetadata
  BY <1>2, <1>5 DEF IInv, Parts, ReturnedIsAwaited
<1>11. FrameNotes(f)'
  <2>1. ~Quiet(f)'
    BY <1>3, <1>5 DEF Quiet
  <2>2. part'[f] # 0 => (f \in mInflightAETriggerOverrides' <=> f \in cancelled')
    BY <1>3, <1>7, <1>8, <1>9 DEF FrameNotes
  <2> QED
    BY <1>8, <1>10, <2>1, <2>2 DEF FrameNotes
<1>12. ThreadNotes(t)'
  <2>1. /\ f \in mInflightAETriggerOverrides <=> f \in cancelled
        /\ BoostSeen(f) <=> f \in seen
        /\ thread[t].boost => f \notin seen
        /\ thread[t].part # mNumPartialResults => (f \in boosted <=> thread[t].boost \/ f \in seen)
    BY <1>1, <1>2, <1>4, <1>7 DEF ThreadNotes
  <2>2. IsOver(t)' <=> thread[t].part = mNumPartialResults
    BY <1>3 DEF IsOver
  <2>3. IsOver(t)' => f \notin mInflightAETriggerOverrides' /\ ~Noted(f)'
    BY <1>3, <2>2
  <2>4. /\ thread'[t].override <=> f \in cancelled'
        /\ thread'[t].boost => f \notin seen'
        /\ thread'[t].part = mNumPartialResults => thread'[t].boost \/ f \in seen'
        /\ thread'[t].part # mNumPartialResults =>
             /\ f \in boosted' <=> thread'[t].boost \/ f \in seen'
             /\ BoostSeen(f)' <=> thread'[t].boost \/ f \in seen'
    BY <1>3, <1>8, <2>1
  <2> QED
    BY <1>3, <2>3, <2>4 DEF ThreadNotes, Noted, BoostSeen
<1> QED
  BY <1>3, <1>6, <1>11, <1>12, NotesKept

(* An idle thread has no metadata and agrees with any notes.                *)
LEMMA IdleHasNothing ==
  ASSUME NEW t \in HalThread
  PROVE  /\ thread[t] = IdleThread => ~HasMetadata(t) /\ ~IsOver(t)
         /\ thread'[t] = IdleThread => ~HasMetadata(t)' /\ ThreadNotes(t)'
<1>1. mNumPartialResults # 0
  BY SessionAssumption
<1>2. ASSUME thread[t] = IdleThread PROVE ~HasMetadata(t) /\ ~IsOver(t)
  BY <1>1, <1>2, IdleFields DEF HasMetadata, IsOver
<1>3. ASSUME thread'[t] = IdleThread PROVE ~HasMetadata(t)' /\ ThreadNotes(t)'
  <2>1. thread'[t].at = "idle" /\ thread'[t].part = 0
    BY <1>3, IdleFields
  <2>2. ~HasMetadata(t)' /\ ~IsOver(t)'
    BY <1>1, <2>1 DEF HasMetadata, IsOver
  <2> QED
    BY <2>1, <2>2 DEF ThreadNotes
<1> QED
  BY <1>2, <1>3

(* What the thread showed, or dropped, is then what was seen.               *)
LEMMA DeliverNotes == ASSUME IInv, Notes, NEW t \in HalThread, Deliver(t) PROVE Notes'
<1>1. Ends(t) /\ thread[t].at = "deliver" /\ ~HasMetadata(t)' /\ ThreadNotes(t)'
  BY DeliveryEnds, IdleHasNothing DEF Deliver, Ends
<1>2. PICK f : thread[t].frame = f
  OBVIOUS
<1>3. UNCHANGED <<mInflightAETriggerOverrides, mInflightRawBoostPresent, boosted, part, halOpen, stranded>>
  BY DEF Deliver, inflightVars, halVars
<1>4. CASE thread[t].part = 0
  <2>1. ~HasMetadata(t) /\ ~thread[t].boost
    BY <1>1, <1>4 DEF HasMetadata, IInv, Threads
  <2>2. thread[t].part # mNumPartialResults
    BY <1>4, SessionAssumption
  <2>3. UNCHANGED <<seen, cancelled, awaitedMetadata>>
    BY <2>1, <2>2 DEF Deliver, Arrives, Dropped, Noticed
  <2> QED
    BY <1>1, <1>3, <2>1, <2>3, SameNotes, NothingNoted DEF Ends
<1>5. CASE thread[t].part # 0
  <2>1. HasMetadata(t)
    BY <1>5 DEF HasMetadata
  <2>2. ASSUME NEW g \in Frame \ {f} PROVE NotesStay(g)
    BY <1>2, <1>3 DEF Deliver, Arrives, Dropped, Noticed, MetadataIsOver, NotesStay, Noted, BoostSeen
  <2>3. About(t, f)
    BY <1>1, <1>2, <2>1, <2>2, ThreadAbout DEF Ends
  <2>4. FrameNotes(f) /\ ThreadNotes(t)
    BY <2>3 DEF About, Notes
  <2>5. CASE thread[t].part = mNumPartialResults
    <3>1. part[f] = 0
      BY <1>2, <2>5 DEF IInv, Parts, LastIsLast
    <3>2. f \notin mInflightAETriggerOverrides /\ ~Noted(f)
      BY <1>1, <1>2, <2>4, <2>5 DEF ThreadNotes, IsOver
    <3>3. FrameNotes(f)'
      BY <1>3, <3>1, <3>2 DEF FrameNotes, Noted
    <3> QED
      BY <1>1, <1>3, <2>3, <3>3, NotesKept
  <2>6. CASE thread[t].part # mNumPartialResults
    <3>1. UNCHANGED <<cancelled, awaitedMetadata>>
      BY <2>6 DEF Deliver, Arrives, Dropped, Noticed
    <3>2. f \in seen' <=> thread[t].boost \/ f \in seen
      BY <1>2, <2>6 DEF Deliver, Arrives, Dropped, Noticed
    <3>3. /\ f \in boosted <=> thread[t].boost \/ f \in seen
          /\ BoostSeen(f) <=> thread[t].boost \/ f \in seen
      BY <1>1, <1>2, <1>5, <2>4, <2>6 DEF ThreadNotes
    <3>4. FrameNotes(f)'
      BY <1>3, <2>4, <3>1, <3>2, <3>3 DEF FrameNotes, Noted, BoostSeen
    <3> QED
      BY <1>1, <1>3, <2>3, <3>4, NotesKept
  <2> QED
    BY <2>5, <2>6
<1> QED
  BY <1>4, <1>5

(* An error takes all notes of its frame,                                   *)
LEMMA NotifyNotes == ASSUME IInv, Notes, NEW t \in HalThread, NotifyError(t) PROVE Notes'
<1>1. Moves(t) /\ thread[t].at = "error"
  BY NotifyMoves DEF NotifyError
<1>2. PICK f : thread[t].frame = f
  OBVIOUS
<1>3. thread'[t].at = "deliver error" /\ thread'[t].frame = f
  BY <1>1, <1>2 DEF Moves
<1>4. HasMetadata(t) /\ HasMetadata(t)' /\ IsOver(t)'
  BY <1>1, <1>3 DEF HasMetadata, IsOver
<1>5. /\ mInflightAETriggerOverrides' = mInflightAETriggerOverrides \ {f}
      /\ mInflightRawBoostPresent' = {x \in mInflightRawBoostPresent : x[1] # f}
      /\ UNCHANGED <<seen, boosted, cancelled, awaitedMetadata, part, halOpen, stranded>>
  BY <1>2 DEF NotifyError, WithoutFrame, halVars, frameworkVars
<1>6. ASSUME NEW g \in Frame \ {f} PROVE NotesStay(g)
  <2>1. <<g, TRUE>>[1] = g
    OBVIOUS
  <2> QED
    BY <1>5, <2>1 DEF NotesStay, Noted, BoostSeen
<1>7. About(t, f)
  BY <1>1, <1>2, <1>3, <1>4, <1>6, ThreadAbout DEF Moves
<1>8. f \notin mInflightAETriggerOverrides' /\ ~Noted(f)'
  BY <1>5 DEF Noted
<1>9. part'[f] = 0
  BY <1>1, <1>2, <1>5 DEF IInv, Parts, LastIsLast
<1>10. FrameNotes(f)'
  BY <1>8, <1>9 DEF FrameNotes, Noted
<1>11. ThreadNotes(t)'
  BY <1>3, <1>8 DEF ThreadNotes, Noted
<1> QED
  BY <1>5, <1>7, <1>10, <1>11, NotesKept

(* unless it is dropped: then they stay, and the framework waits on,        *)
LEMMA DropErrorNotes == ASSUME IInv, Notes, NEW t \in HalThread, DropError(t) PROVE Notes'
<1>1. Ends(t) /\ thread[t].at = "error" /\ ~HasMetadata(t)' /\ ThreadNotes(t)'
  BY DeliveryEnds, IdleHasNothing DEF DropError, Ends
<1>2. PICK f : thread[t].frame = f
  OBVIOUS
<1>3. UNCHANGED <<mInflightAETriggerOverrides, mInflightRawBoostPresent, seen, boosted, cancelled, awaitedMetadata,
                  part, halOpen, stranded>>
  BY DEF DropError, inflightVars, halVars, frameworkVars
<1>4. HasMetadata(t)
  BY <1>1 DEF HasMetadata
<1>5. ASSUME NEW g \in Frame \ {f} PROVE NotesStay(g)
  BY <1>3, SameNotes
<1>6. About(t, f)
  BY <1>1, <1>2, <1>4, <1>5, ThreadAbout DEF Ends
<1>7. FrameNotes(f) /\ part[f] = 0
  BY <1>1, <1>2, <1>6 DEF About, Notes, IInv, Parts, LastIsLast
<1>8. FrameNotes(f)'
  BY <1>3, <1>7 DEF FrameNotes, Noted
<1> QED
  BY <1>1, <1>3, <1>6, <1>8, NotesKept

(* so that none is left when the framework hears of it.                     *)
LEMMA DeliverErrorNotes == ASSUME IInv, Notes, NEW t \in HalThread, DeliverError(t) PROVE Notes'
<1>1. Ends(t) /\ thread[t].at = "deliver error" /\ ~HasMetadata(t)' /\ ThreadNotes(t)'
  BY DeliveryEnds, IdleHasNothing DEF DeliverError, Ends
<1>2. PICK f : thread[t].frame = f
  OBVIOUS
<1>3. UNCHANGED <<mInflightAETriggerOverrides, mInflightRawBoostPresent, boosted, part, halOpen, stranded>>
  BY DEF DeliverError, inflightVars, halVars
<1>4. HasMetadata(t) /\ IsOver(t)
  BY <1>1 DEF HasMetadata, IsOver
<1>5. ASSUME NEW g \in Frame \ {f} PROVE NotesStay(g)
  BY <1>2, <1>3 DEF DeliverError, MetadataIsOver, NotesStay, Noted, BoostSeen
<1>6. About(t, f)
  BY <1>1, <1>2, <1>4, <1>5, ThreadAbout DEF Ends
<1>7. f \notin mInflightAETriggerOverrides /\ ~Noted(f) /\ part[f] = 0
  BY <1>1, <1>2, <1>4, <1>6 DEF About, Notes, ThreadNotes, IInv, Parts, LastIsLast
<1>8. FrameNotes(f)'
  BY <1>3, <1>7 DEF FrameNotes, Noted
<1> QED
  BY <1>1, <1>3, <1>6, <1>8, NotesKept

(* A frame whose next part or error the HAL reports is in no thread.       *)
LEMMA OwedIsQuiet ==
  ASSUME IInv, NEW f \in Frame, OwesPart(f)
  PROVE  /\ Quiet(f) /\ part[f] # 0 /\ f <= frame /\ (Submitting => f < frame)
<1>1. part[f] # 0
  BY DEF OwesPart
<1>2. Quiet(f)
  BY <1>1 DEF OwesPart, MetadataFree, Quiet, HasMetadata, IInv, Parts, LastIsLast
<1> QED
  BY <1>1, <1>2 DEF IInv, Frames

(* The HAL fails a frame: it is owed no more.                               *)
LEMMA ErrorNotes ==
  ASSUME IInv, Notes, NEW t \in HalThread, NEW f \in Frame, HalError(t, f)
  PROVE  Notes'
<1>1. Errs(t, f)
  BY ErrorErrs
<1>2. part[f] # 0 /\ Quiet(f) /\ f <= frame /\ (Submitting => f < frame)
  BY <1>1, OwedIsQuiet DEF Errs
<1>3. /\ UNCHANGED <<mInflightAETriggerOverrides, mInflightRawBoostPresent, seen, cancelled, awaitedMetadata,
                     halOpen, stranded>>
      /\ boosted' = boosted \ {f} /\ part' = [part EXCEPT ![f] = 0]
  BY DEF HalError, inflightVars, frameworkVars
<1>4. part'[f] = 0 /\ \A g \in Frame \ {f} : part'[g] = part[g]
  BY <1>3 DEF IInv, TypeOK
<1>5. ASSUME NEW g \in Frame \ {f} PROVE NotesStay(g)
  BY <1>3, <1>4 DEF NotesStay, Noted, BoostSeen
<1>6. thread[t] = IdleThread /\ thread'[t].frame = f /\ thread'[t].at = "error" /\ thread'[t].part = 0
  BY <1>1 DEF Errs
<1>7. ~HasMetadata(t) /\ ~IsOver(t)'
  <2>1. mNumPartialResults # 0
    BY SessionAssumption
  <2> QED
    BY <1>6, <2>1, IdleHasNothing DEF IsOver
<1>8. About(t, f)
  BY <1>1, <1>2, <1>5, <1>6, <1>7 DEF About, Errs, Quiet
<1>9. FrameNotes(f)'
  BY <1>3, <1>4, <1>8 DEF FrameNotes, Noted, About, Notes
<1>10. ThreadNotes(t)'
  BY <1>6, <1>7 DEF ThreadNotes
<1> QED
  BY <1>3, <1>8, <1>9, <1>10, NotesKept

(* The HAL reports a part, with the boost key only if none had it.          *)
LEMMA ResultNotes ==
  ASSUME IInv, Notes, NEW t \in HalThread, NEW f \in Frame, HalResult(t, f)
  PROVE  Notes'
<1>1. PICK bs \in SUBSET OfFrame(held, f), p \in {0, part[f]} :
        /\ p # 0 => OwesPart(f)
        /\ \E key \in {FALSE, p # 0 /\ f \notin boosted} :
             /\ thread' = [thread EXCEPT ![t] = [at |-> "check", frame |-> f, buffers |-> bs, part |-> p,
                                                 boost |-> key, override |-> FALSE]]
             /\ boosted' = IF p = mNumPartialResults THEN boosted \ {f}
                           ELSE IF key THEN boosted \cup {f} ELSE boosted
        /\ part' = IF p = 0 THEN part ELSE [part EXCEPT ![f] = NextPart(f)]
  BY DEF HalResult
<1>2. PICK key \in {FALSE, p # 0 /\ f \notin boosted} :
        /\ thread' = [thread EXCEPT ![t] = [at |-> "check", frame |-> f, buffers |-> bs, part |-> p,
                                            boost |-> key, override |-> FALSE]]
        /\ boosted' = IF p = mNumPartialResults THEN boosted \ {f}
                      ELSE IF key THEN boosted \cup {f} ELSE boosted
  BY <1>1
<1>3. key \in BOOLEAN /\ (key => p # 0 /\ f \notin boosted)
  BY <1>2
<1>4. thread'[t] = [at |-> "check", frame |-> f, buffers |-> bs, part |-> p, boost |-> key, override |-> FALSE]
  BY <1>2, ThreadsHaveRecords DEF IInv
<1>5. /\ thread'[t].at = "check" /\ thread'[t].frame = f /\ thread'[t].part = p /\ thread'[t].boost = key
  BY <1>4
<1>6. UNCHANGED <<mInflightAETriggerOverrides, mInflightRawBoostPresent, seen, cancelled, awaitedMetadata,
                  halOpen, stranded>>
  BY DEF HalResult, inflightVars, frameworkVars
<1>7. OthersStay(t) /\ SessionStays /\ thread[t] = IdleThread
  BY ResultGives DEF Gives
<1>8. ~HasMetadata(t) /\ (HasMetadata(t)' <=> p # 0)
  BY <1>5, <1>7, IdleHasNothing DEF HasMetadata
<1>9. CASE p = 0
  <2>1. p # mNumPartialResults
    BY <1>9, SessionAssumption
  <2>2. UNCHANGED <<boosted, part>>
    BY <1>1, <1>2, <1>3, <1>9, <2>1
  <2> QED
    BY <1>6, <1>7, <1>8, <1>9, <2>2, SameNotes, NothingNoted
<1>10. CASE p # 0
  <2>1. part[f] # 0 /\ Quiet(f) /\ f <= frame /\ (Submitting => f < frame) /\ p = part[f]
    BY <1>1, <1>10, OwedIsQuiet
  <2>2. \A g \in Frame \ {f} : part'[g] = part[g]
    BY <1>1, <1>10 DEF IInv, TypeOK
  <2>3. ASSUME NEW g \in Frame \ {f} PROVE NotesStay(g)
    BY <1>2, <1>6, <2>2 DEF NotesStay, Noted, BoostSeen
  <2>4. About(t, f)
    BY <1>5, <1>7, <1>8, <2>1, <2>3 DEF About, Quiet
  <2>5. /\ FrameNotes(f)
        /\ f \in seen <=> f \in boosted
        /\ BoostSeen(f) <=> f \in seen
        /\ f \in mInflightAETriggerOverrides <=> f \in cancelled
    BY <2>1, <2>4 DEF About, Notes, FrameNotes
  <2>6. FrameNotes(f)'
    <3>1. ~Quiet(f)'
      BY <1>5, <1>8, <1>10 DEF Quiet
    <3> QED
      BY <1>6, <2>5, <3>1 DEF FrameNotes, Noted
  <2>7. ThreadNotes(t)'
    <3>1. ~IsOver(t)'
      BY <1>5 DEF IsOver
    <3>2. f \in mInflightAETriggerOverrides' <=> f \in cancelled'
      BY <1>6, <2>5
    <3>3. BoostSeen(f)' <=> f \in seen'
      BY <1>6, <2>5 DEF BoostSeen
    <3>4. thread'[t].boost => f \notin seen'
      BY <1>3, <1>5, <1>6, <2>5
    <3>5. thread'[t].part # mNumPartialResults => (f \in boosted' <=> thread'[t].boost \/ f \in seen')
      BY <1>2, <1>3, <1>5, <1>6, <2>5
    <3> QED
      BY <1>5, <3>1, <3>2, <3>3, <3>4, <3>5 DEF ThreadNotes, BoostSeen
  <2> QED
    BY <1>6, <2>4, <2>6, <2>7, NotesKept
<1> QED
  BY <1>9, <1>10
-----------------------------------------------------------------------------
(* The framework's steps leave what threads have, and what is noted of a    *)
(* frame other than the one submitted.                                     *)
LEMMA FrameworkKeeps ==
  ASSUME IInv, Notes, UNCHANGED <<thread, halOpen>>, stranded \subseteq stranded',
         NEW r, \A t \in HalThread : HasMetadata(t) => thread[t].frame # r,
         \A g \in Frame \ {r} : NotesStay(g)
  PROVE  /\ \A g \in Frame \ {r} : FrameNotes(g)'
         /\ \A t \in HalThread : ThreadNotes(t)'
<1>1. ASSUME NEW g \in Frame \ {r} PROVE FrameNotes(g)'
  <2>1. Quiet(g)' <=> Quiet(g)
    BY DEF Quiet, HasMetadata
  <2>2. NotesStay(g) /\ FrameNotes(g)
    BY DEF Notes
  <2> QED
    BY <2>1, <2>2 DEF FrameNotes, NotesStay
<1>2. ASSUME NEW t \in HalThread PROVE ThreadNotes(t)'
  <2>1. PICK g : thread[t].frame = g
    OBVIOUS
  <2>2. HasMetadata(t) => g \in Frame
    <3>1. HasMetadata(t) => thread[t].at # "idle"
      BY IdleHasNothing DEF IInv, Threads
    <3> QED
      BY <2>1, <3>1 DEF IInv, Threads
  <2>3. HasMetadata(t) => NotesStay(g)
    BY <2>1, <2>2
  <2>4. ThreadNotes(t) /\ thread'[t] = thread[t]
    BY DEF Notes
  <2> QED
    BY <2>1, <2>3, <2>4, ThreadKeeps
<1> QED
  BY <1>1, <1>2

(* The notes of a request that is being submitted.                         *)
LEMMA RequestIsNew ==
  ASSUME IInv, Notes, Submitting
  PROVE  /\ request.frame = frame /\ frame \in Frame /\ part[frame] = 0
         /\ \A t \in HalThread : thread[t].frame # frame
         /\ FrameNotes(frame)
<1>1. request.frame = frame /\ frame \in Frame
  BY RequestFrame DEF IInv, Frames
<1>2. ~(frame < frame)
  BY FramesAreNumbers DEF IInv
<1> QED
  BY <1>1, <1>2 DEF IInv, Frames, Notes

(* When no thread has anything and the HAL owes nothing, nothing noted      *)
(* matters but that it is of no later frame.                               *)
LEMMA EmptyNotes ==
  ASSUME \A t \in HalThread : thread'[t] = IdleThread, \A f \in Frame : part'[f] = 0,
         call' \in {"none", "free"},
         halOpen' => mInflightAETriggerOverrides' = {} /\ mInflightRawBoostPresent' = {},
         \A f \in Frame : Noted(f)' \/ f \in (mInflightAETriggerOverrides \cup seen \cup boosted \cup cancelled)'
            => f <= frame'
  PROVE  Notes'
<1>1. \A f \in Frame : FrameNotes(f)'
  BY DEF FrameNotes, Noted
<1>2. \A t \in HalThread : ThreadNotes(t)'
  BY IdleHasNothing
<1>3. RequestNotes'
  BY DEF RequestNotes, Submitting
<1> QED
  BY <1>1, <1>2, <1>3 DEF Notes

(* A step that touches no notes.                                            *)
LEMMA SameStep ==
  ASSUME Notes, RequestNotes',
         UNCHANGED <<mInflightAETriggerOverrides, mInflightRawBoostPresent, seen, boosted, cancelled, awaitedMetadata,
                     part, thread, halOpen, stranded>>
  PROVE  Notes'
<1>1. \A f \in Frame : FrameNotes(f)'
  BY DEF Notes, FrameNotes, Quiet, HasMetadata, Noted, BoostSeen
<1>2. \A t \in HalThread : ThreadNotes(t)'
  BY DEF Notes, ThreadNotes, IsOver, Noted, BoostSeen
<1> QED
  BY <1>1, <1>2 DEF Notes

(* Opening, closing, configuring and the end of a request.                  *)
LEMMA SessionNotes ==
  ASSUME IInv, Notes,
         \/ Open \/ ClientDies \/ DestructorOfClosed \/ CloseDevice \/ FreeBuffers \/ EndRequest
         \/ \E streams \in SUBSET Stream \ {{}} : ConfigureStreams(streams)
  PROVE  Notes'
<1>1. CASE Open
  <2>1. call = "none" /\ \A t \in HalThread : thread[t] = IdleThread
    BY <1>1 DEF Open, MayReopen, IInv, Lifecycle
  <2>2. /\ mInflightAETriggerOverrides' = {} /\ mInflightRawBoostPresent' = {}
        /\ seen' = {} /\ boosted' = {} /\ cancelled' = {} /\ part' = [f \in Frame |-> 0]
        /\ UNCHANGED <<thread, call>>
    BY <1>1 DEF Open, NewSession, callVars
  <2> QED
    BY <2>1, <2>2, EmptyNotes DEF Noted
<1>2. CASE CloseDevice
  <2>1. /\ seen' = {} /\ boosted' = {} /\ cancelled' = {} /\ part' = [f \in Frame |-> 0]
        /\ call' = "free" /\ ~halOpen' /\ \A t \in HalThread : thread[t] = IdleThread
        /\ UNCHANGED <<thread, frame, mInflightAETriggerOverrides, mInflightRawBoostPresent>>
    BY <1>2 DEF CloseDevice, inflightVars, bounds
  <2>2. ASSUME NEW f \in Frame,
               Noted(f)' \/ f \in (mInflightAETriggerOverrides \cup seen \cup boosted \cup cancelled)'
        PROVE  f <= frame'
    BY <2>1, <2>2 DEF Noted, Notes, RequestNotes
  <2> QED
    BY <2>1, <2>2, EmptyNotes
<1>3. ASSUME \/ ClientDies \/ DestructorOfClosed \/ FreeBuffers \/ EndRequest
             \/ \E streams \in SUBSET Stream \ {{}} : ConfigureStreams(streams)
      PROVE  Notes'
  <2>1. UNCHANGED <<mInflightAETriggerOverrides, mInflightRawBoostPresent, seen, boosted, cancelled, awaitedMetadata,
                    part, thread, halOpen, stranded, frame>>
    BY <1>3 DEF ClientDies, DestructorOfClosed, FreeBuffers, EndRequest, ConfigureStreams, inflightVars, halVars,
                frameworkVars, bounds
  <2>2. call' = "none"
    BY <1>3 DEF ClientDies, DestructorOfClosed, FreeBuffers, EndRequest, ConfigureStreams, MayCall, callVars,
                IInv, Lifecycle
  <2>3. RequestNotes'
    BY <2>1, <2>2 DEF Notes, RequestNotes, Submitting, Noted
  <2> QED
    BY <2>1, <2>3, SameStep
<1> QED
  BY <1>1, <1>2, <1>3

(* A new request: nothing is noted of its frame yet.                        *)
LEMMA BeginNotes ==
  ASSUME IInv, Notes, NEW settings, NEW physical, BeginRequest(settings, physical)
  PROVE  Notes'
<1>0. PICK r : r = frame + 1
  OBVIOUS
<1>1. frame \in Nat /\ r \in Frame
  BY <1>0, SessionAssumption, FramesAreNumbers DEF BeginRequest, IInv, Frame
<1>2. frame' = r /\ call = "none"
  BY <1>0 DEF BeginRequest, MayCall
<1>3. /\ UNCHANGED <<mInflightAETriggerOverrides, mInflightRawBoostPresent, seen, boosted, part, thread, halOpen,
                     stranded>>
  BY DEF BeginRequest, inflightVars, halVars
<1>4. \/ UNCHANGED <<call, request, awaitedMetadata, cancelled>>
      \/ /\ call' = "import" /\ request'.settings = settings /\ awaitedMetadata' = awaitedMetadata \cup {r}
         /\ cancelled' = IF settings = "cancel" THEN cancelled \cup {r} ELSE cancelled
  BY <1>0 DEF BeginRequest, callVars
<1>5. ~(r <= frame) /\ \A g \in Frame : g <= frame => g <= r
  BY <1>0, <1>1 DEF Frame
<1>6. /\ part[r] = 0 /\ r \notin mInflightAETriggerOverrides /\ r \notin seen /\ r \notin boosted /\ ~Noted(r)
      /\ r \notin cancelled /\ \A t \in HalThread : thread[t].frame # r
  BY <1>1, <1>5 DEF IInv, Frames, Notes, RequestNotes
<1>7. ASSUME NEW g \in Frame \ {r} PROVE NotesStay(g)
  BY <1>3, <1>4 DEF NotesStay, Noted, BoostSeen
<1>8. (\A g \in Frame \ {r} : FrameNotes(g)') /\ (\A t \in HalThread : ThreadNotes(t)')
  BY <1>3, <1>6, <1>7, FrameworkKeeps
<1>9. FrameNotes(r)'
  BY <1>3, <1>6 DEF FrameNotes, Noted
<1>10. RequestNotes'
  <2>1. ASSUME NEW g \in Frame,
               Noted(g)' \/ g \in (mInflightAETriggerOverrides \cup seen \cup boosted \cup cancelled)'
        PROVE  g <= frame'
    <3>1. CASE g = r
      BY <1>0, <1>1, <1>2, <1>5, <3>1
    <3>2. CASE g # r
      <4>1. g <= frame
        BY <1>7, <2>1, <3>2 DEF NotesStay, Notes, RequestNotes
      <4> QED
        BY <1>2, <1>5, <4>1
    <3> QED
      BY <3>1, <3>2
  <2>2. /\ r \notin mInflightAETriggerOverrides' /\ r \notin seen' /\ r \notin boosted' /\ ~Noted(r)'
    BY <1>3, <1>6 DEF Noted
  <2>3. call' \in {"none", "import"} /\ (call' = "import" => (request'.settings = "cancel" <=> r \in cancelled'))
    BY <1>2, <1>4, <1>6
  <2> QED
    BY <1>2, <2>1, <2>2, <2>3 DEF RequestNotes, Submitting, Noted
<1> QED
  BY <1>8, <1>9, <1>10 DEF Notes

(* A request that is given up leaves no notes, unless it is stranded.      *)
LEMMA FailedNotes ==
  ASSUME IInv, Notes, Submitting, RequestFails,
         \A g \in Frame \ {frame} : NotesStay(g), ~Noted(frame)',
         frame \in mInflightAETriggerOverrides' => frame \in stranded',
         stranded \subseteq stranded', UNCHANGED <<thread, halOpen, part, boosted, frame>>
  PROVE  Notes'
<1>1. /\ frame \in Frame /\ part[frame] = 0 /\ \A t \in HalThread : thread[t].frame # frame
  BY RequestIsNew
<1>2. (\A g \in Frame \ {frame} : FrameNotes(g)') /\ (\A t \in HalThread : ThreadNotes(t)')
  BY <1>1, FrameworkKeeps
<1>3. FrameNotes(frame)'
  BY <1>1 DEF FrameNotes, Noted
<1>4. RequestNotes'
  <2>1. call' = "none"
    BY DEF RequestFails
  <2>2. ASSUME NEW g \in Frame,
               Noted(g)' \/ g \in (mInflightAETriggerOverrides \cup seen \cup boosted \cup cancelled)'
        PROVE  g <= frame
    <3>1. CASE g = frame
      BY <3>1, FramesAreNumbers DEF IInv
    <3>2. CASE g # frame
      BY <2>2, <3>2 DEF NotesStay, Notes, RequestNotes
    <3> QED
      BY <3>1, <3>2
  <2> QED
    BY <2>1, <2>2 DEF RequestNotes, Submitting
<1> QED
  BY <1>2, <1>3, <1>4 DEF Notes

(* Giving up the request leaves the notes of other frames.                  *)
LEMMA FailingKeeps ==
  ASSUME IInv, Submitting, RequestFails, UNCHANGED <<mInflightRawBoostPresent, boosted, part>>,
         NEW g \in Frame \ {frame},
         g \in mInflightAETriggerOverrides' <=> g \in mInflightAETriggerOverrides
  PROVE  NotesStay(g)
<1>1. request.frame = frame
  BY DEF IInv, Frames
<1> QED
  BY <1>1 DEF RequestFails, MetadataIsOver, NotesStay, Noted, BoostSeen

(* Its buffers are imported, or it fails.                                   *)
LEMMA ImportNotes == ASSUME IInv, Notes, ImportRequest PROVE Notes'
<1>1. Submitting /\ call = "import" /\ frame \notin mInflightAETriggerOverrides /\ ~Noted(frame)
  BY DEF ImportRequest, Submitting, Notes, RequestNotes
<1>2. UNCHANGED <<mInflightAETriggerOverrides, mInflightRawBoostPresent, boosted, part, thread, halOpen, stranded,
                  frame>>
  BY DEF ImportRequest, inflightVars, halVars, bounds
<1>3. CASE RequestFails
  <2>1. \A g \in Frame \ {frame} : NotesStay(g)
    BY <1>1, <1>2, <1>3, FailingKeeps
  <2> QED
    BY <1>1, <1>2, <1>3, <2>1, FailedNotes DEF Noted
<1>4. CASE call' = "record" /\ UNCHANGED <<request, awaitedMetadata, seen, cancelled>>
  <2>1. RequestNotes'
    BY <1>1, <1>2, <1>4 DEF Notes, RequestNotes, Submitting, Noted
  <2> QED
    BY <1>2, <1>4, <2>1, SameStep
<1> QED
  BY <1>3, <1>4 DEF ImportRequest

(* Its override is noted; or it is stranded.                                *)
LEMMA RecordNotes == ASSUME IInv, Notes, RecordRequest PROVE Notes'
<1>1. /\ request.frame = frame /\ frame \in Frame /\ part[frame] = 0
      /\ \A t \in HalThread : thread[t].frame # frame
  BY RequestIsNew DEF RecordRequest, Submitting
<1>2. /\ Submitting /\ call = "record" /\ frame \notin mInflightAETriggerOverrides /\ ~Noted(frame)
      /\ frame \notin seen /\ frame \notin boosted
      /\ request.settings = "cancel" <=> frame \in cancelled
  BY DEF RecordRequest, Submitting, Notes, RequestNotes
<1>3. /\ UNCHANGED <<mInflightRawBoostPresent, boosted, part, thread, halOpen, frame>>
      /\ mInflightAETriggerOverrides' =
           mInflightAETriggerOverrides \cup (IF request.settings = "cancel" THEN {frame} ELSE {})
  BY <1>1 DEF RecordRequest, halVars, bounds
<1>4. CASE RequestFails /\ stranded' = stranded \cup {frame}
  <2>1. \A g \in Frame \ {frame} : NotesStay(g)
    BY <1>2, <1>3, <1>4, FailingKeeps
  <2> QED
    BY <1>2, <1>3, <1>4, <2>1, FailedNotes DEF Noted
<1>5. CASE call' = "submit" /\ UNCHANGED <<request, awaitedMetadata, seen, cancelled, stranded>>
  <2>1. \A g \in Frame \ {frame} : NotesStay(g)
    BY <1>3, <1>5 DEF NotesStay, Noted, BoostSeen
  <2>2. (\A g \in Frame \ {frame} : FrameNotes(g)') /\ (\A t \in HalThread : ThreadNotes(t)')
    BY <1>1, <1>3, <1>5, <2>1, FrameworkKeeps
  <2>3. frame \in awaitedMetadata
    BY <1>1, <1>2 DEF IInv, Parts, SubmittedIsAwaited
  <2>4. FrameNotes(frame)'
    BY <1>1, <1>2, <1>3, <1>5, <2>3 DEF FrameNotes, Noted
  <2>5. RequestNotes'
    <3>1. ASSUME NEW g \in Frame,
                 Noted(g)' \/ g \in (mInflightAETriggerOverrides \cup seen \cup boosted \cup cancelled)'
          PROVE  g <= frame
      <4>1. CASE g = frame
        BY <4>1, FramesAreNumbers DEF IInv
      <4>2. CASE g # frame
        BY <2>1, <3>1, <4>2 DEF NotesStay, Notes, RequestNotes
      <4> QED
        BY <4>1, <4>2
    <3> QED
      BY <1>2, <1>3, <1>5, <3>1 DEF RequestNotes, Submitting, Noted
  <2> QED
    BY <1>3, <2>2, <2>4, <2>5 DEF Notes
<1> QED
  BY <1>1, <1>4, <1>5 DEF RecordRequest

(* The HAL takes it: the notes agree from then on.                          *)
LEMMA TakeNotes == ASSUME IInv, Notes, HalTakesRequest PROVE Notes'
<1>1. /\ request.frame = frame /\ frame \in Frame /\ part[frame] = 0 /\ FrameNotes(frame)
      /\ \A t \in HalThread : thread[t].frame # frame
  BY RequestIsNew DEF HalTakesRequest, Submitting
<1>2. /\ Submitting /\ call = "submit" /\ ~Noted(frame) /\ frame \notin seen /\ frame \notin boosted
      /\ frame \in mInflightAETriggerOverrides <=> frame \in cancelled
  BY DEF HalTakesRequest, Submitting, Notes, RequestNotes
<1>3. /\ UNCHANGED <<mInflightAETriggerOverrides, mInflightRawBoostPresent, boosted, seen, cancelled, awaitedMetadata,
                     thread, halOpen, stranded, frame>>
      /\ part' = [part EXCEPT ![frame] = 1] /\ call' = "taken"
  BY <1>1 DEF HalTakesRequest, inflightVars, frameworkVars, bounds
<1>4. ASSUME NEW g \in Frame \ {frame} PROVE NotesStay(g)
  <2>1. part'[g] = part[g]
    BY <1>3 DEF IInv, TypeOK
  <2> QED
    BY <1>3, <2>1 DEF NotesStay, Noted, BoostSeen
<1>5. (\A g \in Frame \ {frame} : FrameNotes(g)') /\ (\A t \in HalThread : ThreadNotes(t)')
  BY <1>1, <1>3, <1>4, FrameworkKeeps
<1>6. ~BoostSeen(frame)
  <2>1. <<frame, TRUE>>[1] = frame
    OBVIOUS
  <2> QED
    BY <1>2, <2>1 DEF Noted, BoostSeen
<1>7. FrameNotes(frame)'
  BY <1>1, <1>2, <1>3, <1>6 DEF FrameNotes, Noted, BoostSeen
<1>8. RequestNotes'
  BY <1>3 DEF Notes, RequestNotes, Submitting, Noted
<1> QED
  BY <1>3, <1>5, <1>7, <1>8 DEF Notes

(* The HAL refuses it: the override is undone.                              *)
LEMMA RefuseNotes == ASSUME IInv, Notes, HalRefusesRequest PROVE Notes'
<1>1. Submitting /\ request.frame = frame /\ ~Noted(frame)
  BY RequestIsNew DEF HalRefusesRequest, Submitting, Notes, RequestNotes
<1>2. /\ UNCHANGED <<mInflightRawBoostPresent, boosted, part, thread, halOpen, stranded, frame>>
      /\ mInflightAETriggerOverrides' = mInflightAETriggerOverrides \ {frame} /\ RequestFails
  BY <1>1 DEF HalRefusesRequest, UndoRequest, halVars, bounds
<1>3. \A g \in Frame \ {frame} : NotesStay(g)
  BY <1>1, <1>2, FailingKeeps
<1> QED
  BY <1>1, <1>2, <1>3, FailedNotes DEF Noted

(* Every step keeps the notes agreeing,                                     *)
LEMMA NextNotes == IInv /\ Notes /\ [Next]_vars => Notes'
<1> SUFFICES ASSUME IInv, Notes, [Next]_vars PROVE Notes'
  OBVIOUS
<1>1. CASE Next
  BY <1>1, SessionNotes, BeginNotes, ImportNotes, RecordNotes, TakeNotes, RefuseNotes, ResultNotes, ErrorNotes,
     CheckNotes, OverrideNotes, EraseNotes, DeliverNotes, NotifyNotes, DropErrorNotes,
     DeliverErrorNotes DEF Next
<1>2. CASE UNCHANGED vars
  <2>1. UNCHANGED <<mInflightAETriggerOverrides, mInflightRawBoostPresent, seen, boosted, cancelled, awaitedMetadata,
                    part, thread, halOpen, stranded, frame, call, request>>
    BY <1>2 DEF vars, inflightVars, halVars, frameworkVars, callVars, bounds
  <2>2. RequestNotes'
    BY <2>1 DEF Notes, RequestNotes, Submitting, Noted
  <2> QED
    BY <2>1, <2>2, SameStep
<1> QED
  BY <1>1, <1>2

(* as they do in the beginning,                                             *)
LEMMA InitNotes == Init => Notes
<1> SUFFICES ASSUME Init PROVE Notes
  OBVIOUS
<1>1. \A t \in HalThread : thread[t] = IdleThread
  BY DEF Init
<1>2. \A t \in HalThread : ThreadNotes(t)
  <2> TAKE t \in HalThread
  <2>1. thread[t].at = "idle" /\ ~IsOver(t)
    BY <1>1, IdleFields, IdleHasNothing
  <2> QED
    BY <2>1 DEF ThreadNotes
<1>3. RequestNotes /\ \A f \in Frame : FrameNotes(f)
  BY DEF Init, RequestNotes, FrameNotes, Submitting, Noted
<1> QED
  BY <1>2, <1>3 DEF Notes

(* and so they always agree.                                                *)
LEMMA SessionNotesHold == Spec => [](IInv /\ Notes)
<1>1. Init => IInv /\ Notes
  BY InitIInv, InitNotes
<1>2. IInv /\ Notes /\ [Next]_vars => (IInv /\ Notes)'
  BY NextIInv, NextNotes
<1> QED
  BY <1>1, <1>2, PTL DEF Spec

(* When the framework has all it waits for, nothing in flight stands in the *)
(* way of a configuration but what was stranded.                           *)
THEOREM SessionIdleIsEmpty == Spec => []IdleIsEmpty
<1>1. IInv /\ Notes => IdleIsEmpty
  <2> SUFFICES ASSUME IInv, Notes, MayCall, awaited = {}, awaitedMetadata = {}
               PROVE  /\ \A b \in mInflightBuffers : b.frame \in stranded
                      /\ mInflightAETriggerOverrides \subseteq stranded
                      /\ mInflightRawBoostPresent = {}
    BY DEF IdleIsEmpty
  <2>1. halOpen /\ call = "none"
    BY DEF MayCall, InitStatusOK, IInv, Lifecycle
  <2>2. held \cup Returning = {}
    BY ReturningBuffers DEF IInv, Awaited
  <2>3. \A b \in mInflightBuffers : b.frame \in stranded
    BY <2>1, <2>2 DEF IInv, InflightIsOwed
  <2>4. mInflightAETriggerOverrides \subseteq Frame /\ mInflightRawBoostPresent \subseteq Frame \X BOOLEAN
    BY DEF IInv, TypeOK
  <2>5. \A f \in Frame : (f \in mInflightAETriggerOverrides => f \in stranded) /\ ~Noted(f)
    BY <2>1 DEF Notes, FrameNotes
  <2>6. mInflightRawBoostPresent = {}
    BY <2>4, <2>5 DEF Noted
  <2> QED
    BY <2>3, <2>4, <2>5, <2>6
<1> QED
  BY <1>1, SessionNotesHold, PTL

(* The framework sees in every part of a result the AE trigger it asked for. *)
THEOREM SessionAskedIsShown == Spec => []AskedIsShown
<1>1. IInv /\ Notes => AskedIsShown
  BY DEF Notes, ThreadNotes, AskedIsShown
<1> QED
  BY <1>1, SessionNotesHold, PTL

(* It sees the boost key in exactly one part: the HAL's, or else the last.  *)
THEOREM SessionBoostOnce == Spec => []BoostOnce
<1>1. IInv /\ Notes => BoostOnce
  <2> SUFFICES ASSUME IInv, Notes, NEW t \in HalThread, thread[t].at = "deliver"
               PROVE  /\ thread[t].boost => thread[t].frame \notin seen
                      /\ thread[t].part = mNumPartialResults => thread[t].boost \/ thread[t].frame \in seen
    BY DEF BoostOnce
  <2>1. thread[t].part = 0 => ~thread[t].boost
    BY DEF IInv, Threads
  <2>2. mNumPartialResults # 0
    BY SessionAssumption
  <2> QED
    BY <2>1, <2>2 DEF Notes, ThreadNotes
<1> QED
  BY <1>1, SessionNotesHold, PTL
=============================================================================
