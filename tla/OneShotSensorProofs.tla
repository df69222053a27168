------------------------ MODULE OneShotSensorProofs ------------------------
(***************************************************************************)
(* Theorems about OneShotSensor for any number of callers, any size of the *)
(* pipe and any outcome of the construction.                               *)
(***************************************************************************)
EXTENDS OneShotSensor, TLAPS

(* The thread that polls, or handles what poll() returned, saw the sensor   *)
(* enabled after the last event; when it posts one it has disabled it.      *)
ArmedThread ==
  start # "base" =>
    /\ mIsEnabled => armed
    /\ run \in {"polling", "polled", "posting"} => armed
    /\ run = "posting" => ~mIsEnabled

(* Only the thread reads the pipe: the byte poll() reported is still there. *)
ReportedByte == run = "polled" /\ "pipe" \in revents => pipe > 0

NotStarted == start \in {"stopped", "nopipe"} => mStopThread

IInv == TypeOK /\ ArmedThread /\ ReportedByte /\ NotStarted /\ PollIsInterrupted /\ WaiterIsWoken

-----------------------------------------------------------------------------
(* The invariant holds in the beginning.                                    *)
LEMMA InitInvariant == Init => IInv
<1> SUFFICES ASSUME Init PROVE IInv
  OBVIOUS
<1>1. TypeOK
  <2>1. pipe \in 0 .. PipeSize
    BY SensorAssumption DEF Init
  <2>2. mStopThread \in BOOLEAN /\ mIsEnabled \in BOOLEAN /\ armed \in BOOLEAN
    <3>1. mStopThread = (start \in {"stopped", "nopipe"})
      BY DEF Init
    <3>2. (start \in {"stopped", "nopipe"}) \in BOOLEAN
      OBVIOUS
    <3>3. mIsEnabled = FALSE /\ armed = FALSE
      BY DEF Init
    <3>4. mStopThread \in BOOLEAN
      BY ONLY <3>1, <3>2, Zenon
    <3>5. QED
      BY <3>3, <3>4
  <2>3. /\ run \in {"start", "waiting"} /\ dtor = "no" /\ mMode = "NORMAL"
        /\ start \in Start /\ pressed \in BOOLEAN /\ fired \in BOOLEAN
        /\ revents \subseteq {"pipe", "sysfs", "error"}
    BY DEF Init
  <2>4. pc = [c \in Client |-> "idle"]
    BY DEF Init
  <2>5. QED
    BY <2>1, <2>2, <2>3, <2>4 DEF TypeOK
<1>2. ArmedThread /\ ReportedByte /\ NotStarted /\ PollIsInterrupted /\ WaiterIsWoken
  BY DEF Init, ArmedThread, ReportedByte, NotStarted, PollIsInterrupted, WaiterIsWoken, Active
<1>3. QED
  BY <1>1, <1>2 DEF IInv

(* Where the thread goes on after it took the lock again.                   *)
LEMMA ResumeResult ==
  ASSUME NEW stop \in BOOLEAN
  PROVE  \/ stop /\ Resume(stop) = "stopped"
         \/ ~stop /\ ~Active /\ Resume(stop) = "waiting"
         \/ ~stop /\ Active /\ start = "base" /\ Resume(stop) = "posting"
         \/ ~stop /\ Active /\ start # "base" /\ Resume(stop) = "polling"
BY DEF Resume

(* The steps of the polling thread keep the invariant.                      *)
LEMMA ThreadStep ==
  ASSUME IInv, RunStep \/ SpuriousWake \/ PollFails
  PROVE  IInv'
<1> USE DEF IInv, TypeOK
<1>1. CASE Wake
  <2>1. run' = Resume(mStopThread) /\ UNCHANGED <<start, mIsEnabled, mMode, mStopThread, pipe, pressed, fired, revents, pc, dtor, armed>>
    BY <1>1 DEF Wake
  <2>2. \/ mStopThread /\ run' = "stopped"
        \/ ~mStopThread /\ ~Active /\ run' = "waiting"
        \/ ~mStopThread /\ Active /\ start = "base" /\ run' = "posting"
        \/ ~mStopThread /\ Active /\ start # "base" /\ run' = "polling"
    BY <2>1, ResumeResult
  <2>3. QED
    BY <2>1, <2>2 DEF ArmedThread, ReportedByte, NotStarted, PollIsInterrupted, WaiterIsWoken, Active
<1>2. CASE SpuriousWake
  BY <1>2 DEF SpuriousWake, ArmedThread, ReportedByte, NotStarted, PollIsInterrupted, WaiterIsWoken
<1>3. CASE PollReturns
  <2>1. ReportedByte'
    BY <1>3 DEF PollReturns, ReportedByte
  <2>2. QED
    BY <1>3, <2>1 DEF PollReturns, ArmedThread, NotStarted, PollIsInterrupted, WaiterIsWoken
<1>4. CASE PollFails
  BY <1>4 DEF PollFails, ArmedThread, ReportedByte, NotStarted, PollIsInterrupted, WaiterIsWoken
<1>5. CASE HandlePoll
  <2>1. /\ run = "polled" /\ fired' \in BOOLEAN
        /\ UNCHANGED <<start, mMode, pressed, revents, pc, dtor, armed>>
    BY <1>5 DEF HandlePoll
  <2>2. CASE mStopThread' = TRUE /\ run' = "stopped" /\ UNCHANGED <<mIsEnabled, pipe>>
    BY <2>1, <2>2 DEF ArmedThread, ReportedByte, NotStarted, PollIsInterrupted, WaiterIsWoken
  <2>3. CASE mIsEnabled' = FALSE /\ run' = "posting" /\ UNCHANGED <<mStopThread, pipe>>
    BY <2>1, <2>3 DEF ArmedThread, ReportedByte, NotStarted, PollIsInterrupted, WaiterIsWoken
  <2>4. CASE /\ pipe' = IF "pipe" \in revents THEN pipe - 1 ELSE pipe
             /\ run' = Resume(mStopThread)
             /\ UNCHANGED <<mIsEnabled, mStopThread>>
    <3>1. pipe' \in 0 .. PipeSize
      BY <2>1, <2>4, SensorAssumption DEF ReportedByte
    <3>2. \/ mStopThread /\ run' = "stopped"
          \/ ~mStopThread /\ ~Active /\ run' = "waiting"
          \/ ~mStopThread /\ Active /\ start = "base" /\ run' = "posting"
          \/ ~mStopThread /\ Active /\ start # "base" /\ run' = "polling"
      BY <2>4, ResumeResult
    <3>3. Active' = Active
      BY <2>1, <2>4 DEF Active
    <3>4. ArmedThread' /\ ReportedByte' /\ NotStarted'
      BY <2>1, <2>4, <3>2 DEF ArmedThread, ReportedByte, NotStarted, Active
    <3>5. PollIsInterrupted' /\ WaiterIsWoken'
      BY <2>4, <3>2, <3>3 DEF PollIsInterrupted, WaiterIsWoken
    <3>6. TypeOK'
      BY <2>1, <2>4, <3>1, <3>2
    <3>7. QED
      BY <3>4, <3>5, <3>6
  <2>5. QED
    BY <1>5, <2>2, <2>3, <2>4 DEF HandlePoll
<1>6. CASE Post
  <2>1. /\ run = "posting" /\ armed' = FALSE
        /\ UNCHANGED <<start, mIsEnabled, mMode, mStopThread, pipe, pressed, fired, revents, pc, dtor>>
    BY <1>6 DEF Post
  <2>2. CASE start = "base" /\ run' = "woken"
    BY <2>1, <2>2 DEF ArmedThread, ReportedByte, NotStarted, PollIsInterrupted, WaiterIsWoken
  <2>3. CASE start # "base" /\ run' = Resume(mStopThread)
    <3>1. ~mIsEnabled /\ ~Active /\ ~Active'
      BY <2>1, <2>3 DEF ArmedThread, Active
    <3>2. run' \in {"stopped", "waiting"}
      BY <2>3, <3>1, ResumeResult
    <3>3. QED
      BY <2>1, <2>3, <3>1, <3>2
         DEF ArmedThread, ReportedByte, NotStarted, PollIsInterrupted, WaiterIsWoken
  <2>4. QED
    BY <1>6, <2>2, <2>3 DEF Post
<1>7. QED
  BY <1>1, <1>2, <1>3, <1>4, <1>5, <1>6 DEF RunStep

(* So do the calls of the framework,                                        *)
LEMMA CallStep ==
  ASSUME IInv, NEW c \in Client, Call(c) \/ ClientStep(c)
  PROVE  IInv'
<1> USE DEF IInv, TypeOK
<1>1. \A d \in Client \ {c} : pc'[d] = pc[d]
  BY DEF Call, ClientStep, Activate, SetOperationMode, Interrupt
<1>2. CASE Call(c)
  <2>1. pc[c] = "idle" /\ UNCHANGED <<start, mIsEnabled, mMode, mStopThread, pipe, pressed, fired, run, revents, dtor, armed>>
    BY <1>2 DEF Call
  <2>2. pc' \in [Client -> {"idle", "activate", "deactivate", "normal", "inject", "activated", "modeSet"}]
    BY <1>2 DEF Call
  <2>3. QED
    BY <1>1, <2>1, <2>2 DEF ArmedThread, ReportedByte, NotStarted, PollIsInterrupted, WaiterIsWoken, Active
<1>3. CASE Activate(c)
  <2>1. /\ pc[c] \in {"activate", "deactivate"} /\ ~Locked
        /\ UNCHANGED <<start, mMode, mStopThread, pipe, pressed, fired, run, revents, dtor>>
    BY <1>3 DEF Activate
  <2>2. CASE pc' = [pc EXCEPT ![c] = "idle"] /\ UNCHANGED <<mIsEnabled, armed>>
    BY <1>1, <2>1, <2>2 DEF ArmedThread, ReportedByte, NotStarted, PollIsInterrupted, WaiterIsWoken, Active
  <2>3. CASE /\ mIsEnabled' = (pc[c] = "activate") /\ armed' = (armed \/ pc[c] = "activate")
             /\ pc' = [pc EXCEPT ![c] = "activated"]
    <3>1. pc'[c] = "activated"
      BY <2>3
    <3>2. run # "posting"
      BY <2>1 DEF Locked
    <3>3. TypeOK'
      BY <2>1, <2>3
    <3>4. QED
      BY <2>1, <2>3, <3>1, <3>2, <3>3 DEF ArmedThread, ReportedByte, NotStarted, PollIsInterrupted, WaiterIsWoken
  <2>4. QED
    BY <1>3, <2>2, <2>3 DEF Activate
<1>4. CASE SetOperationMode(c)
  <2>1. /\ pc[c] \in {"normal", "inject"} /\ ~Locked /\ pc' = [pc EXCEPT ![c] = "modeSet"]
        /\ mMode' \in {"NORMAL", "DATA_INJECTION"}
        /\ UNCHANGED <<start, mIsEnabled, mStopThread, pipe, pressed, fired, revents, dtor, armed>>
    BY <1>4 DEF SetOperationMode
  <2>2. \/ mMode' = mMode /\ run' = run
        \/ run' = Notified
    BY <1>4 DEF SetOperationMode
  <2>3. pc'[c] = "modeSet" /\ run # "posting" /\ \A d \in Client : pc[d] # "activated"
    BY <2>1 DEF Locked
  <2>4. run' = run \/ run' = "woken"
    BY <2>2 DEF Notified
  <2>5. TypeOK' /\ ArmedThread' /\ ReportedByte' /\ NotStarted'
    BY <2>1, <2>4 DEF ArmedThread, ReportedByte, NotStarted
  <2>6. PollIsInterrupted'
    BY <2>3 DEF PollIsInterrupted
  <2>7. WaiterIsWoken'
    <3>1. CASE mMode' = mMode /\ run' = run
      BY <2>1, <2>3, <3>1 DEF WaiterIsWoken, Active
    <3>2. CASE run' = Notified
      BY <3>2 DEF WaiterIsWoken, Notified
    <3>3. QED
      BY <2>2, <3>1, <3>2
  <2>8. QED
    BY <2>5, <2>6, <2>7
<1>5. CASE Interrupt(c)
  <2>1. /\ pc[c] \in {"activated", "modeSet"} /\ pc' = [pc EXCEPT ![c] = "idle"]
        /\ run' = IF pc[c] = "activated" THEN Notified ELSE run
        /\ UNCHANGED <<start, mIsEnabled, mMode, mStopThread, pressed, fired, revents, dtor, armed>>
    BY <1>5 DEF Interrupt
  <2>2. \/ start = "nopipe" /\ pipe' = pipe
        \/ pipe' \in 0 .. PipeSize /\ pipe' > 0 /\ pipe' >= pipe
    BY <1>5, SensorAssumption DEF Interrupt, InterruptPoll
  <2>3. run' = run \/ run' = "woken"
    BY <2>1 DEF Notified
  <2>4. TypeOK'
    BY <2>1, <2>2, <2>3
  <2>5. ArmedThread' /\ NotStarted'
    BY <2>1, <2>3 DEF ArmedThread, NotStarted
  <2>6. ReportedByte'
    BY <2>1, <2>2, <2>3 DEF ReportedByte
  <2>7. PollIsInterrupted'
    BY <2>1, <2>2 DEF PollIsInterrupted, NotStarted
  <2>8. WaiterIsWoken'
    <3>1. CASE pc[c] = "activated"
      BY <2>1, <3>1 DEF WaiterIsWoken, Notified
    <3>2. CASE pc[c] # "activated"
      BY <1>1, <2>1, <3>2 DEF WaiterIsWoken, Active
    <3>3. QED
      BY <3>1, <3>2
  <2>9. QED
    BY <2>4, <2>5, <2>6, <2>7, <2>8
<1>6. QED
  BY <1>2, <1>3, <1>4, <1>5 DEF ClientStep

(* the driver, construction and destruction,                                *)
LEMMA OtherStep ==
  ASSUME IInv, Touch \/ Destroy \/ Dtor \/ UNCHANGED vars
  PROVE  IInv'
<1> USE DEF IInv, TypeOK
<1>1. CASE Touch
  BY <1>1 DEF Touch, ArmedThread, ReportedByte, NotStarted, PollIsInterrupted, WaiterIsWoken, Active
<1>2. CASE Destroy
  BY <1>2 DEF Destroy, ArmedThread, ReportedByte, NotStarted, PollIsInterrupted, WaiterIsWoken, Active
<1>3. CASE DestroyDerived
  <2>1. UNCHANGED <<start, mIsEnabled, mMode, mStopThread, pressed, fired, run, revents, pc, armed>> /\ dtor' = "stopping"
    BY <1>3 DEF DestroyDerived
  <2>2. pipe' \in 0 .. PipeSize /\ pipe' >= pipe
    BY <1>3, SensorAssumption DEF DestroyDerived, InterruptPoll
  <2>3. ReportedByte' /\ PollIsInterrupted'
    BY <2>1, <2>2 DEF ReportedByte, PollIsInterrupted, Active
  <2>4. QED
    BY <2>1, <2>2, <2>3 DEF ArmedThread, NotStarted, WaiterIsWoken, Active
<1>4. CASE DestroyBase
  BY <1>4 DEF DestroyBase, Notified, ArmedThread, ReportedByte, NotStarted, PollIsInterrupted, WaiterIsWoken
<1>5. CASE Join
  BY <1>5 DEF Join, ArmedThread, ReportedByte, NotStarted, PollIsInterrupted, WaiterIsWoken, Active
<1>6. CASE UNCHANGED vars
  BY <1>6 DEF vars, ArmedThread, ReportedByte, NotStarted, PollIsInterrupted, WaiterIsWoken, Active
<1>7. QED
  BY <1>1, <1>2, <1>3, <1>4, <1>5, <1>6 DEF Dtor

(* and hence every step.                                                    *)
LEMMA InductiveInvariant == IInv /\ [Next]_vars => IInv'
BY ThreadStep, CallStep, OtherStep DEF Next

(* Every variable of the sensor keeps its type; in particular the thread    *)
(* never blocks on an empty pipe.                                           *)
THEOREM SensorTypeCorrect == Spec => []TypeOK
<1>1. IInv => TypeOK
  BY DEF IInv
<1>2. QED
  BY <1>1, InitInvariant, InductiveInvariant, PTL DEF Spec

(* The thread is never left in poll(), or in the wait, by a change it has   *)
(* to react to.                                                             *)
THEOREM NoLostWakeup == Spec => []SleepsThroughNothing
<1>1. IInv => SleepsThroughNothing
  BY DEF IInv, SleepsThroughNothing
<1>2. QED
  BY <1>1, InitInvariant, InductiveInvariant, PTL DEF Spec

(* A sensor whose thread runs the right function posts at most one event    *)
(* each time it is enabled.                                                 *)
THEOREM OneEventPerActivation == Spec => []OneShot
<1>1. IInv => OneShot
  BY DEF IInv, TypeOK, ArmedThread, OneShot
<1>2. QED
  BY <1>1, InitInvariant, InductiveInvariant, PTL DEF Spec
=============================================================================
