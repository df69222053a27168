---------------------------- MODULE Fingerprint ----------------------------
(***************************************************************************)
(* BiometricsFingerprint with the reader under the display: the calls of   *)
(* the framework, the messages of the vendor's library, and the spot of    *)
(* the panel that is lit while a finger is on the reader.                  *)
(*                                                                         *)
(* The service has one binder thread; the library calls notify() from      *)
(* threads of its own.  mClientCallbackMutex guards the client,            *)
(* mSetHbmFodMutex the switching of the panel; hbmFodEnabled is also read  *)
(* without it, by cancel() and notify(), and has no initial value.  The    *)
(* panel keeps its state when the service dies.                            *)
(***************************************************************************)
EXTENDS Naturals

CONSTANTS
  VendorThread,  \* the threads of the vendor's library
  Binder,        \* the binder thread of the service
  Nobody,        \* the holder of a free mutex
  MaxFrameworks  \* bound on the frameworks, one after the other

ASSUME FingerprintAssumption ==
  /\ Binder \notin VendorThread /\ Nobody \notin VendorThread \cup {Binder}
  /\ MaxFrameworks \in Nat \ {0}

VARIABLES
  mDevice,          \* openHal() has returned a device
  mClientCallback,  \* whose client is called, 0 when null
  hbmFodEnabled,
  written,          \* hbmFodEnabled has been assigned
  panel, scanning,  \* the spot is lit; the reader scans
  pc,               \* what each thread is about to do
  call, caller,     \* the call the binder thread handles, and whose it is
  mSetHbmFodMutex, mClientCallbackMutex,
  framework,        \* the framework now alive: 1, 2, ...
  started,          \* it knows of an operation that runs
  fingerDown,       \* it has called onFingerDown() and not onFingerUp() since
  lighter           \* the framework for which the panel was lit last

fod == <<hbmFodEnabled, written, panel, scanning, lighter>>
callers == <<framework, started, fingerDown>>
mutexes == <<mSetHbmFodMutex, mClientCallbackMutex>>
vars == <<mDevice, mClientCallback, fod, pc, call, caller, mutexes, callers>>

Thread == VendorThread \cup {Binder}
Framework == 1..MaxFrameworks
Calls == {"setNotify", "onFingerDown", "onFingerUp", "cancel", "start", "other"}

Goes(t, to) == pc' = [pc EXCEPT ![t] = to]
At(t, at) == pc[t] = at

(* Where a thread goes on when onFingerUp() returns.                       *)
FingerIsUp(t) ==
  IF t = Binder THEN (IF call = "cancel" THEN "vendor" ELSE "idle") ELSE "notified"

Init ==
  /\ mDevice \in BOOLEAN /\ mClientCallback = 0
  /\ hbmFodEnabled \in BOOLEAN /\ written = FALSE
  /\ panel = FALSE /\ scanning = FALSE /\ lighter = 0
  /\ pc = [t \in Thread |-> "idle"] /\ call = "other" /\ caller = 1
  /\ mSetHbmFodMutex = Nobody /\ mClientCallbackMutex = Nobody
  /\ framework = 1 /\ started = FALSE /\ fingerDown = FALSE

(***************************************************************************)
(* The framework calls.  It sets its client first, reports a finger only   *)
(* while an operation it started runs, and its lifting afterwards.         *)
(***************************************************************************)
MayCall(c) ==
  /\ c # "setNotify" => mClientCallback = framework
  /\ c = "onFingerDown" => started /\ ~fingerDown
  /\ c = "onFingerUp" => fingerDown

(* Faulty: onFingerUp() is not implemented. *)
EntryOf_NoFingerUp(c) ==
  CASE c = "setNotify" -> "setNotify" [] c = "onFingerDown" -> "lockOn"
    [] c = "onFingerUp" -> "idle" [] c = "cancel" -> "cancel" [] OTHER -> "vendor"

EntryOf(c) ==
  CASE c = "setNotify" -> "setNotify" [] c = "onFingerDown" -> "lockOn"
    [] c = "onFingerUp" -> "lockOff" [] c = "cancel" -> "cancel" [] OTHER -> "vendor"

Call(c) ==
  /\ At(Binder, "idle") /\ MayCall(c)
  /\ call' = c /\ caller' = framework /\ Goes(Binder, EntryOf(c))
  /\ fingerDown' = CASE c = "onFingerDown" -> TRUE [] c = "onFingerUp" -> FALSE
                     [] OTHER -> fingerDown
  /\ UNCHANGED <<mDevice, mClientCallback, fod, mutexes, framework, started>>

SetNotify ==
  /\ At(Binder, "setNotify") /\ mClientCallbackMutex = Nobody
  /\ mClientCallback' = caller /\ Goes(Binder, "idle")
  /\ UNCHANGED <<mDevice, fod, call, caller, mutexes, callers>>

(* Faulty: the device is looked at after the panel was darkened. *)
Cancel_LateCheck ==
  /\ At(Binder, "cancel") /\ Goes(Binder, IF hbmFodEnabled THEN "lockOff" ELSE "vendor")
  /\ UNCHANGED <<mDevice, mClientCallback, fod, call, caller, mutexes, callers>>

(* cancel() reads hbmFodEnabled without the mutex.                         *)
Cancel ==
  /\ At(Binder, "cancel")
  /\ Goes(Binder, IF ~mDevice THEN "idle" ELSE IF hbmFodEnabled THEN "lockOff" ELSE "vendor")
  /\ UNCHANGED <<mDevice, mClientCallback, fod, call, caller, mutexes, callers>>

(* What is left to the vendor's library, which may refuse it.              *)
AskVendor ==
  /\ At(Binder, "vendor") /\ Goes(Binder, "idle")
  /\ \E status \in IF mDevice THEN {"SYS_OK", "failed"} ELSE {"SYS_UNKNOWN"} :
       started' = CASE caller # framework -> started
                    [] call = "start" -> status = "SYS_OK"
                    [] call = "cancel" -> FALSE
                    [] OTHER -> started
  /\ UNCHANGED <<mDevice, mClientCallback, fod, call, caller, mutexes, framework, fingerDown>>

(***************************************************************************)
(* enableHighBrightFod()                                                   *)
(***************************************************************************)
LockOn ==
  /\ At(Binder, "lockOn") /\ mSetHbmFodMutex = Nobody
  /\ IF hbmFodEnabled THEN Goes(Binder, "idle") /\ UNCHANGED mSetHbmFodMutex
     ELSE Goes(Binder, "scanStart") /\ mSetHbmFodMutex' = Binder
  /\ UNCHANGED <<mDevice, mClientCallback, fod, call, caller, mClientCallbackMutex, callers>>

ScanStart ==
  /\ At(Binder, "scanStart") /\ mDevice /\ scanning' = TRUE /\ Goes(Binder, "light")
  /\ UNCHANGED <<mDevice, mClientCallback, hbmFodEnabled, written, panel, lighter, call, caller,
                 mutexes, callers>>

Light ==
  /\ At(Binder, "light") /\ panel' = TRUE /\ lighter' = caller /\ Goes(Binder, "enabled")
  /\ UNCHANGED <<mDevice, mClientCallback, hbmFodEnabled, written, scanning, call, caller,
                 mutexes, callers>>

Enabled ==
  /\ At(Binder, "enabled") /\ hbmFodEnabled' = TRUE /\ written' = TRUE
  /\ mSetHbmFodMutex' = Nobody /\ Goes(Binder, "idle")
  /\ UNCHANGED <<mDevice, mClientCallback, panel, scanning, lighter, call, caller,
                 mClientCallbackMutex, callers>>

(***************************************************************************)
(* disableHighBrightFod(), of the binder thread or one of the vendor's.    *)
(***************************************************************************)
LockOff(t) ==
  /\ At(t, "lockOff") /\ mSetHbmFodMutex = Nobody
  /\ IF hbmFodEnabled THEN Goes(t, "scanStop") /\ mSetHbmFodMutex' = t
     ELSE Goes(t, FingerIsUp(t)) /\ UNCHANGED mSetHbmFodMutex
  /\ UNCHANGED <<mDevice, mClientCallback, fod, call, caller, mClientCallbackMutex, callers>>

(* Faulty: the flag is cleared before the panel is darkened. *)
ScanStop_ClearsFlag(t) ==
  /\ At(t, "scanStop") /\ mDevice /\ scanning' = FALSE /\ Goes(t, "darken")
  /\ hbmFodEnabled' = FALSE /\ written' = TRUE
  /\ UNCHANGED <<mDevice, mClientCallback, panel, lighter, call, caller, mutexes, callers>>

ScanStop(t) ==
  /\ At(t, "scanStop") /\ mDevice /\ scanning' = FALSE /\ Goes(t, "darken")
  /\ UNCHANGED <<mDevice, mClientCallback, hbmFodEnabled, written, panel, lighter, call, caller,
                 mutexes, callers>>

Darken(t) ==
  /\ At(t, "darken") /\ panel' = FALSE /\ Goes(t, "disabled")
  /\ UNCHANGED <<mDevice, mClientCallback, hbmFodEnabled, written, scanning, lighter, call,
                 caller, mutexes, callers>>

Disabled(t) ==
  /\ At(t, "disabled") /\ hbmFodEnabled' = FALSE /\ written' = TRUE
  /\ mSetHbmFodMutex' = Nobody /\ Goes(t, FingerIsUp(t))
  /\ UNCHANGED <<mDevice, mClientCallback, panel, scanning, lighter, call, caller,
                 mClientCallbackMutex, callers>>

(***************************************************************************)
(* notify(), on a thread of the vendor's library.                          *)
(***************************************************************************)
Notify(v) ==
  /\ mDevice /\ At(v, "idle") /\ mClientCallbackMutex = Nobody /\ mClientCallback # 0
  /\ mClientCallbackMutex' = v /\ Goes(v, "deliver")
  /\ UNCHANGED <<mDevice, mClientCallback, fod, call, caller, mSetHbmFodMutex, callers>>

(* The message may end the operation, for the framework that hears it.     *)
Deliver(v) ==
  /\ At(v, "deliver") /\ Goes(v, "delivered")
  /\ started' \in IF mClientCallback = framework THEN {started, FALSE} ELSE {started}
  /\ UNCHANGED <<mDevice, mClientCallback, fod, call, caller, mutexes, framework, fingerDown>>

(* It reads hbmFodEnabled without the mutex, too.                          *)
Delivered(v) ==
  /\ At(v, "delivered") /\ Goes(v, IF hbmFodEnabled THEN "lockOff" ELSE "notified")
  /\ UNCHANGED <<mDevice, mClientCallback, fod, call, caller, mutexes, callers>>

Notified(v) ==
  /\ At(v, "notified") /\ mClientCallbackMutex' = Nobody /\ Goes(v, "idle")
  /\ UNCHANGED <<mDevice, mClientCallback, fod, call, caller, mSetHbmFodMutex, callers>>

(***************************************************************************)
(* Deaths.  The service is started anew and tries to open the library; the *)
(* panel stays as it was.                                                  *)
(***************************************************************************)
ServiceDies ==
  /\ mDevice' \in BOOLEAN /\ mClientCallback' = 0
  /\ hbmFodEnabled' \in BOOLEAN /\ written' = FALSE /\ scanning' = FALSE
  /\ pc' = [t \in Thread |-> "idle"] /\ call' = "other" /\ caller' = framework
  /\ mSetHbmFodMutex' = Nobody /\ mClientCallbackMutex' = Nobody
  /\ started' = FALSE /\ fingerDown' = FALSE
  /\ UNCHANGED <<framework, panel, lighter>>

FrameworkDies ==
  /\ framework < MaxFrameworks /\ framework' = framework + 1
  /\ started' = FALSE /\ fingerDown' = FALSE
  /\ UNCHANGED <<mDevice, mClientCallback, fod, pc, call, caller, mutexes>>

Handle == SetNotify \/ Cancel \/ AskVendor \/ LockOn \/ ScanStart \/ Light \/ Enabled
FingerUp(t) == LockOff(t) \/ ScanStop(t) \/ Darken(t) \/ Disabled(t)
Message(v) == Notify(v) \/ Deliver(v) \/ Delivered(v) \/ Notified(v)

Next ==
  \/ \E c \in Calls : Call(c)
  \/ Handle
  \/ \E t \in Thread : FingerUp(t)
  \/ \E v \in VendorThread : Message(v)
  \/ ServiceDies \/ FrameworkDies

Spec == Init /\ [][Next]_vars

(* Threads run and get a mutex that is free time and again; the framework  *)
(* gets the binder thread to report that the finger was lifted.            *)
FairSpec ==
  /\ Spec
  /\ SF_vars(Handle) /\ SF_vars(Call("onFingerUp"))
  /\ \A t \in Thread : SF_vars(FingerUp(t))
  /\ \A v \in VendorThread : WF_vars(Deliver(v) \/ Delivered(v) \/ Notified(v))

-----------------------------------------------------------------------------
Steps == {"idle", "setNotify", "cancel", "vendor", "lockOn", "scanStart", "light", "enabled",
          "lockOff", "scanStop", "darken", "disabled", "deliver", "delivered", "notified"}

(* The values the variables take.                                          *)
TypeOK ==
  /\ mDevice \in BOOLEAN /\ mClientCallback \in Framework \cup {0}
  /\ hbmFodEnabled \in BOOLEAN /\ written \in BOOLEAN
  /\ panel \in BOOLEAN /\ scanning \in BOOLEAN /\ lighter \in Framework \cup {0}
  /\ pc \in [Thread -> Steps] /\ call \in Calls /\ caller \in Framework
  /\ mSetHbmFodMutex \in Thread \cup {Nobody} /\ mClientCallbackMutex \in Thread \cup {Nobody}
  /\ framework \in Framework /\ started \in BOOLEAN /\ fingerDown \in BOOLEAN

(* Whenever nobody is switching, hbmFodEnabled tells whether the panel is  *)
(* lit and the reader scans, from its first assignment on.                 *)
FlagIsPanel ==
  mSetHbmFodMutex = Nobody /\ written => (panel <=> hbmFodEnabled) /\ (scanning <=> hbmFodEnabled)

(* When cancel() comes to cancel the operation the panel is dark, although *)
(* it looked at hbmFodEnabled without the mutex under which a message may  *)
(* just be darkening it.                                                   *)
CancelLeavesDark == At(Binder, "vendor") /\ call = "cancel" /\ written => ~panel

(* The library's functions are only called of a library that was opened,   *)
(* also when hbmFodEnabled happens to be true from the start: cancel()     *)
(* looks at mDevice first; onFingerDown() and onFingerUp() do not, and     *)
(* rest on the framework, which calls them during an operation (MayCall).  *)
DeviceIsThere == \A t \in Thread : pc[t] \in {"scanStart", "scanStop"} => mDevice

(* A panel that is lit does not stay so: the framework that asked for it   *)
(* reports that the finger was lifted, unless it or the service has died.  *)
LightEnds == (panel /\ written) ~> (~panel \/ ~written \/ lighter # framework)
=============================================================================
