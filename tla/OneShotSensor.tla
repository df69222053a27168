--------------------------- MODULE OneShotSensor ---------------------------
(***************************************************************************)
(* SysfsPollingOneShotSensor (the under-display fingerprint sensor): its   *)
(* thread polls a sysfs attribute and a pipe, the binder threads of the    *)
(* sensors HAL enable, disable and switch it, and its destructor joins the *)
(* thread.  mRunMutex is held across a step only where a holder can block: *)
(* in postEvents() and in the write to the pipe of activate().             *)
(***************************************************************************)
EXTENDS Naturals

CONSTANTS
  Client,    \* binder threads that call the sensor
  PipeSize,  \* bytes the pipe takes before a write blocks
  Start      \* how the construction of the sensor may have gone (see Init)

ASSUME SensorAssumption ==
  /\ PipeSize \in Nat \ {0}
  /\ Start \subseteq {"clean", "stopped", "nopipe", "base"}

VARIABLES
  start,        \* one of Start
  mIsEnabled, mMode, mStopThread,
  pipe,         \* bytes in mWaitPipeFd
  pressed,      \* the value of the sysfs attribute
  fired,        \* the attribute changed since it was last read
  run, revents, \* the thread: where it is, what poll() returned
  pc,           \* the call each binder thread is in
  dtor,         \* the destructor
  armed         \* enabled since the last event

vars == <<start, mIsEnabled, mMode, mStopThread, pipe, pressed, fired, run, revents, pc, dtor, armed>>

Locked == run = "posting" \/ \E c \in Client : pc[c] = "activated"
Active == mIsEnabled /\ mMode = "NORMAL"

(* The constructor of the base class starts the thread.  The rest of the    *)
(* construction may come first ("clean"); or the thread may run the base     *)
(* class's run(), the virtual table not being set yet ("base"); mStopThread, *)
(* which is never initialised, may read TRUE, or be set because a file did   *)
(* not open ("stopped"), or the pipe did not ("nopipe").                     *)
Init ==
  /\ start \in Start
  /\ mIsEnabled = FALSE /\ mMode = "NORMAL"
  /\ mStopThread = (start \in {"stopped", "nopipe"})
  /\ pipe = 0 /\ pressed \in BOOLEAN /\ fired \in BOOLEAN
  /\ run \in IF mStopThread THEN {"start", "waiting"} ELSE {"start"}
  /\ revents = {}
  /\ pc = [c \in Client |-> "idle"]
  /\ dtor = "no"
  /\ armed = FALSE
-----------------------------------------------------------------------------
(* The head of the loop, under the lock.                                   *)
Resume(stop) ==
  CASE stop -> "stopped"
    [] ~stop /\ ~Active -> "waiting"
    [] ~stop /\ Active -> IF start = "base" THEN "posting" ELSE "polling"

(* notify_all(): the thread wakes up if it waits, and takes the lock again. *)
Notified == IF run = "waiting" THEN "woken" ELSE run

Wake ==
  /\ run \in {"start", "woken"} /\ ~Locked
  /\ run' = Resume(mStopThread)
  /\ UNCHANGED <<start, mIsEnabled, mMode, mStopThread, pipe, pressed, fired, revents, pc, dtor, armed>>

SpuriousWake ==
  /\ run = "waiting"
  /\ run' = "woken"
  /\ UNCHANGED <<start, mIsEnabled, mMode, mStopThread, pipe, pressed, fired, revents, pc, dtor, armed>>

PollReturns ==
  /\ run = "polling" /\ (pipe > 0 \/ fired)
  /\ revents' = {x \in {"pipe", "sysfs"} : (x = "pipe" /\ pipe > 0) \/ (x = "sysfs" /\ fired)}
  /\ run' = "polled"
  /\ UNCHANGED <<start, mIsEnabled, mMode, mStopThread, pipe, pressed, fired, pc, dtor, armed>>

PollFails ==
  /\ run = "polling"
  /\ revents' = {"error"}
  /\ run' = "polled"
  /\ UNCHANGED <<start, mIsEnabled, mMode, mStopThread, pipe, pressed, fired, pc, dtor, armed>>

(* Faulty: a byte is read from the pipe whatever poll() returned.           *)
HandlePoll_BlindRead ==
  /\ run = "polled" /\ ~Locked
  /\ fired' = (fired /\ "sysfs" \notin revents)
  /\ IF "sysfs" \in revents /\ pressed
       THEN mIsEnabled' = FALSE /\ run' = "posting" /\ UNCHANGED pipe
       ELSE pipe' = pipe - 1 /\ run' = Resume(mStopThread) /\ UNCHANGED mIsEnabled
  /\ UNCHANGED <<start, mStopThread, mMode, pressed, revents, pc, dtor, armed>>

(* Faulty: a press does not disable the sensor.                            *)
HandlePoll_StaysEnabled ==
  /\ run = "polled" /\ ~Locked
  /\ fired' = (fired /\ "sysfs" \notin revents)
  /\ IF "sysfs" \in revents /\ pressed
       THEN run' = "posting" /\ UNCHANGED pipe
       ELSE /\ pipe' = IF "pipe" \in revents THEN pipe - 1 ELSE pipe
            /\ run' = Resume(mStopThread)
  /\ UNCHANGED <<start, mIsEnabled, mStopThread, mMode, pressed, revents, pc, dtor, armed>>

(* The lock is taken again after poll(): the sensor may have been disabled. *)
(* A press disables it, without a notification, and is posted.              *)
HandlePoll ==
  /\ run = "polled" /\ ~Locked
  /\ fired' = (fired /\ "sysfs" \notin revents)
  /\ \/ /\ "error" \in revents
        /\ mStopThread' = TRUE /\ run' = "stopped"
        /\ UNCHANGED <<mIsEnabled, pipe>>
     \/ /\ "sysfs" \in revents /\ pressed
        /\ mIsEnabled' = FALSE /\ run' = "posting"
        /\ UNCHANGED <<mStopThread, pipe>>
     \/ /\ "error" \notin revents /\ ~("sysfs" \in revents /\ pressed)
        /\ pipe' = IF "pipe" \in revents THEN pipe - 1 ELSE pipe
        /\ run' = Resume(mStopThread)
        /\ UNCHANGED <<mIsEnabled, mStopThread>>
  /\ UNCHANGED <<start, mMode, pressed, revents, pc, dtor, armed>>

(* Faulty: activate(false, false, true) takes the lock the thread holds.    *)
Post_Relocks ==
  /\ run = "posting" /\ ~Locked
  /\ armed' = FALSE
  /\ run' = Resume(mStopThread)
  /\ UNCHANGED <<start, mIsEnabled, mMode, mStopThread, pipe, pressed, fired, revents, pc, dtor>>

(* postEvents() under the lock.  The base class then waits for the sampling *)
(* period, which is zero, and looks again.                                  *)
Post ==
  /\ run = "posting"
  /\ armed' = FALSE
  /\ run' = IF start = "base" THEN "woken" ELSE Resume(mStopThread)
  /\ UNCHANGED <<start, mIsEnabled, mMode, mStopThread, pipe, pressed, fired, revents, pc, dtor>>
-----------------------------------------------------------------------------
(* The binder threads.                                                     *)

Call(c) ==
  /\ dtor = "no" /\ pc[c] = "idle"
  /\ \E op \in {"activate", "deactivate", "normal", "inject"} : pc' = [pc EXCEPT ![c] = op]
  /\ UNCHANGED <<start, mIsEnabled, mMode, mStopThread, pipe, pressed, fired, run, revents, dtor, armed>>

(* Faulty: only enabling the sensor notifies the thread.                    *)
Activate_SilentDisable(c) ==
  LET enable == pc[c] = "activate" IN
  /\ pc[c] \in {"activate", "deactivate"} /\ ~Locked
  /\ mIsEnabled' = enable
  /\ armed' = (armed \/ enable)
  /\ pc' = [pc EXCEPT ![c] = IF mIsEnabled # enable /\ enable THEN "activated" ELSE "idle"]
  /\ UNCHANGED <<start, mMode, mStopThread, pipe, pressed, fired, run, revents, dtor>>

Activate(c) ==
  LET enable == pc[c] = "activate" IN
  /\ pc[c] \in {"activate", "deactivate"} /\ ~Locked
  /\ IF mIsEnabled = enable
       THEN pc' = [pc EXCEPT ![c] = "idle"] /\ UNCHANGED <<mIsEnabled, armed>>
       ELSE /\ mIsEnabled' = enable
            /\ armed' = (armed \/ enable)
            /\ pc' = [pc EXCEPT ![c] = "activated"]
  /\ UNCHANGED <<start, mMode, mStopThread, pipe, pressed, fired, run, revents, dtor>>

(* Faulty: a change of the mode is not notified.                            *)
SetOperationMode_NoNotify(c) ==
  /\ pc[c] \in {"normal", "inject"} /\ ~Locked
  /\ mMode' = IF pc[c] = "normal" THEN "NORMAL" ELSE "DATA_INJECTION"
  /\ pc' = [pc EXCEPT ![c] = "modeSet"]
  /\ UNCHANGED <<start, mIsEnabled, mStopThread, pipe, pressed, fired, run, revents, dtor, armed>>

SetOperationMode(c) ==
  LET mode == IF pc[c] = "normal" THEN "NORMAL" ELSE "DATA_INJECTION" IN
  /\ pc[c] \in {"normal", "inject"} /\ ~Locked
  /\ mMode' = mode
  /\ run' = IF mMode # mode THEN Notified ELSE run
  /\ pc' = [pc EXCEPT ![c] = "modeSet"]
  /\ UNCHANGED <<start, mIsEnabled, mStopThread, pipe, pressed, fired, revents, dtor, armed>>

InterruptPoll ==
  \/ start = "nopipe" /\ UNCHANGED pipe
  \/ start # "nopipe" /\ pipe < PipeSize /\ pipe' = pipe + 1

(* The end of activate(), which still holds the lock, or of                *)
(* setOperationMode(), which does not: the write may block.                *)
Interrupt(c) ==
  /\ pc[c] \in {"activated", "modeSet"}
  /\ InterruptPoll
  /\ run' = IF pc[c] = "activated" THEN Notified ELSE run
  /\ pc' = [pc EXCEPT ![c] = "idle"]
  /\ UNCHANGED <<start, mIsEnabled, mMode, mStopThread, pressed, fired, revents, dtor, armed>>

ClientStep(c) == Activate(c) \/ SetOperationMode(c) \/ Interrupt(c)

(* The driver reports that the finger came down or went up.                *)
Touch ==
  /\ pressed' = ~pressed /\ fired' = TRUE
  /\ UNCHANGED <<start, mIsEnabled, mMode, mStopThread, pipe, run, revents, pc, dtor, armed>>
-----------------------------------------------------------------------------
(* The destructors: the derived class interrupts poll(), then the base      *)
(* class stops and joins the thread.                                        *)

Destroy ==
  /\ dtor = "no" /\ \A c \in Client : pc[c] = "idle"
  /\ dtor' = "interrupting"
  /\ UNCHANGED <<start, mIsEnabled, mMode, mStopThread, pipe, pressed, fired, run, revents, pc, armed>>

DestroyDerived ==
  /\ dtor = "interrupting"
  /\ InterruptPoll
  /\ dtor' = "stopping"
  /\ UNCHANGED <<start, mIsEnabled, mMode, mStopThread, pressed, fired, run, revents, pc, armed>>

(* Faulty: the waiting thread is not notified.                              *)
DestroyBase_NoNotify ==
  /\ dtor = "stopping" /\ ~Locked
  /\ mStopThread' = TRUE /\ mIsEnabled' = FALSE
  /\ dtor' = "joining"
  /\ UNCHANGED <<start, mMode, pipe, pressed, fired, run, revents, pc, armed>>

DestroyBase ==
  /\ dtor = "stopping" /\ ~Locked
  /\ mStopThread' = TRUE /\ mIsEnabled' = FALSE
  /\ run' = Notified
  /\ dtor' = "joining"
  /\ UNCHANGED <<start, mMode, pipe, pressed, fired, revents, pc, armed>>

Join ==
  /\ dtor = "joining" /\ run = "stopped"
  /\ dtor' = "gone"
  /\ UNCHANGED <<start, mIsEnabled, mMode, mStopThread, pipe, pressed, fired, run, revents, pc, armed>>

Dtor == DestroyDerived \/ DestroyBase \/ Join
RunStep == Wake \/ PollReturns \/ HandlePoll \/ Post

Next ==
  \/ RunStep \/ SpuriousWake \/ PollFails \/ Touch
  \/ \E c \in Client : Call(c) \/ ClientStep(c)
  \/ Destroy \/ Dtor

Spec == Init /\ [][Next]_vars

(* Scheduling: threads run, and one that waits for a lock that is free again *)
(* and again gets it.  The driver, the callers, a failing poll() and         *)
(* spurious wake-ups are not forced to happen.                               *)
FairSpec ==
  /\ Spec
  /\ SF_vars(RunStep) /\ SF_vars(Dtor)
  /\ \A c \in Client : SF_vars(ClientStep(c))
-----------------------------------------------------------------------------
TypeOK ==
  /\ start \in Start
  /\ mIsEnabled \in BOOLEAN /\ mStopThread \in BOOLEAN
  /\ mMode \in {"NORMAL", "DATA_INJECTION"}
  /\ pipe \in 0 .. PipeSize
  /\ pressed \in BOOLEAN /\ fired \in BOOLEAN /\ armed \in BOOLEAN
  /\ run \in {"start", "waiting", "woken", "polling", "polled", "posting", "stopped"}
  /\ revents \subseteq {"pipe", "sysfs", "error"}
  /\ pc \in [Client -> {"idle", "activate", "deactivate", "normal", "inject", "activated", "modeSet"}]
  /\ dtor \in {"no", "interrupting", "stopping", "joining", "gone"}

(* Between two events the sensor was enabled again, although run() does not *)
(* look at mIsEnabled after poll() (the run() of the base class, which a race *)
(* of the construction may start instead, keeps posting).                   *)
OneShot == run = "posting" /\ start # "base" => armed

(* No lost wake-up in poll(): when the sensor is not to be polled any more, *)
(* a byte is in the pipe or about to be written.                            *)
PollIsInterrupted ==
  run = "polling" /\ ~Active /\ ~mStopThread =>
    pipe > 0 \/ \E c \in Client : pc[c] \in {"activated", "modeSet"}

(* No lost wake-up in the wait: when the sensor is to be polled, a           *)
(* notification is about to come.                                            *)
WaiterIsWoken ==
  run = "waiting" /\ Active /\ ~mStopThread => \E c \in Client : pc[c] = "activated"

(* run() sleeps through no change it has to react to, neither in poll() nor  *)
(* on mWaitCV, whatever activate(), setOperationMode() and the destructors   *)
(* do between its test of the sensor's state and its sleep.                  *)
SleepsThroughNothing == PollIsInterrupted /\ WaiterIsWoken

PipeFull == pipe = PipeSize

(* A press is posted, unless the sensor is disabled, switched or stopped, or *)
(* the finger goes up, or a caller is stuck on the pipe.                     *)
PressReported ==
  (Active /\ pressed /\ fired /\ ~mStopThread)
    ~> (run = "posting" \/ ~Active \/ ~pressed \/ mStopThread \/ PipeFull)

(* A call returns, unless the pipe is full.                                 *)
CallsReturn == \A c \in Client : pc[c] # "idle" ~> (pc[c] = "idle" \/ PipeFull)

(* A sensor that is disabled can be destroyed.                              *)
JoinReturnsWhenDisabled ==
  (dtor = "interrupting" /\ ~mIsEnabled) ~> (dtor = "gone" \/ PipeFull)

(* ~Sensor() does not hang in mRunThread.join(), whatever the state of the   *)
(* sensor.  Of no run: the code breaks it, see the README.                   *)
JoinReturns == dtor = "joining" ~> dtor = "gone"
=============================================================================
