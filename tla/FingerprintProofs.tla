------------------------ MODULE FingerprintProofs ------------------------
(* The panel follows hbmFodEnabled, cancel() leaves it dark and the library  *)
(* is only called when it was opened, for any threads of the library and any *)
(* number of frameworks.                                                     *)
EXTENDS Fingerprint, TLAPS

Enabling == {"scanStart", "light", "enabled"}
Disabling == {"scanStop", "darken", "disabled"}

(* The binder thread handles calls, the others deliver messages.           *)
Places ==
  /\ pc[Binder] \notin {"deliver", "delivered", "notified"}
  /\ \A v \in VendorThread :
       pc[v] \in {"idle", "deliver", "delivered", "notified", "lockOff"} \cup Disabling

(* mSetHbmFodMutex is held by whoever switches the panel.                  *)
Switching ==
  \A t \in Thread : mSetHbmFodMutex = t <=> pc[t] \in Enabling \cup Disabling

(* Each side switches only what the flag says is the other way.            *)
FlagSaysOther ==
  /\ pc[Binder] \in Enabling => ~hbmFodEnabled
  /\ \A t \in Thread : pc[t] \in Disabling => hbmFodEnabled

(* How far the panel and the reader are switched.                          *)
HalfWay ==
  /\ pc[Binder] = "scanStart" /\ written => ~panel
  /\ pc[Binder] = "light" => scanning /\ (written => ~panel)
  /\ pc[Binder] = "enabled" => scanning /\ panel
  /\ \A t \in Thread :
       /\ pc[t] = "darken" => ~scanning
       /\ pc[t] = "disabled" => ~scanning /\ ~panel

(* A thread that may come to call the library has a device.                *)
Devices ==
  /\ started \/ fingerDown => mDevice
  /\ \A v \in VendorThread : pc[v] # "idle" => mDevice
  /\ pc[Binder] \in {"lockOn", "lockOff"} \cup Enabling \cup Disabling => mDevice

IInv == TypeOK /\ Places /\ Switching /\ FlagSaysOther /\ HalfWay /\ FlagIsPanel
        /\ CancelLeavesDark /\ Devices

(* Every step keeps the types. *)
LEMMA TypeOKStep == IInv /\ [Next]_vars => TypeOK'
<1> SUFFICES ASSUME IInv, [Next]_vars PROVE TypeOK'
  OBVIOUS
<1> USE FingerprintAssumption DEF IInv, TypeOK, Steps, Calls, Framework, vars, fod, callers, mutexes, Goes, At, Thread
<1>1. CASE \E c \in Calls : Call(c)
  <2>0. PICK c \in Calls : Call(c)
    BY <1>1
  <2>1. pc' \in [Thread -> Steps]
    BY <2>0 DEF Call, MayCall, EntryOf
  <2>2. hbmFodEnabled' \in BOOLEAN /\ written' \in BOOLEAN /\ panel' \in BOOLEAN
    BY <2>0 DEF Call, MayCall, EntryOf
  <2>3. scanning' \in BOOLEAN /\ started' \in BOOLEAN /\ fingerDown' \in BOOLEAN
    BY <2>0 DEF Call, MayCall, EntryOf
  <2>4. mDevice' \in BOOLEAN /\ mClientCallback' \in Framework \cup {0}
        /\ lighter' \in Framework \cup {0} /\ call' \in Calls /\ caller' \in Framework
        /\ framework' \in Framework /\ mSetHbmFodMutex' \in Thread \cup {Nobody}
        /\ mClientCallbackMutex' \in Thread \cup {Nobody}
    BY <2>0 DEF Call, MayCall, EntryOf
  <2> QED
    BY <2>1, <2>2, <2>3, <2>4 DEF TypeOK
<1>2. CASE SetNotify
  BY <1>2 DEF SetNotify
<1>3. CASE Cancel
  BY <1>3 DEF Cancel
<1>4. CASE AskVendor
  <2>1. pc' \in [Thread -> Steps]
    BY <1>4 DEF AskVendor
  <2>2. hbmFodEnabled' \in BOOLEAN /\ written' \in BOOLEAN /\ panel' \in BOOLEAN
    BY <1>4 DEF AskVendor
  <2>3. scanning' \in BOOLEAN /\ started' \in BOOLEAN /\ fingerDown' \in BOOLEAN
    BY <1>4 DEF AskVendor
  <2>4. mDevice' \in BOOLEAN /\ mClientCallback' \in Framework \cup {0}
        /\ lighter' \in Framework \cup {0} /\ call' \in Calls /\ caller' \in Framework
        /\ framework' \in Framework /\ mSetHbmFodMutex' \in Thread \cup {Nobody}
        /\ mClientCallbackMutex' \in Thread \cup {Nobody}
    BY <1>4 DEF AskVendor
  <2> QED
    BY <2>1, <2>2, <2>3, <2>4 DEF TypeOK
<1>5. CASE LockOn
  BY <1>5 DEF LockOn
<1>6. CASE ScanStart
  BY <1>6 DEF ScanStart
<1>7. CASE Light
  BY <1>7 DEF Light
<1>8. CASE Enabled
  BY <1>8 DEF Enabled
<1>9. CASE \E t \in Thread : LockOff(t)
  BY <1>9 DEF LockOff, FingerIsUp
<1>10. CASE \E t \in Thread : ScanStop(t)
  <2>0. PICK t \in Thread : ScanStop(t)
    BY <1>10
  <2>1. pc' \in [Thread -> Steps]
    BY <2>0 DEF ScanStop
  <2>2. hbmFodEnabled' \in BOOLEAN /\ written' \in BOOLEAN /\ panel' \in BOOLEAN
    BY <2>0 DEF ScanStop
  <2>3. scanning' \in BOOLEAN /\ started' \in BOOLEAN /\ fingerDown' \in BOOLEAN
    BY <2>0 DEF ScanStop
  <2>4. mDevice' \in BOOLEAN /\ mClientCallback' \in Framework \cup {0}
        /\ lighter' \in Framework \cup {0} /\ call' \in Calls /\ caller' \in Framework
        /\ framework' \in Framework /\ mSetHbmFodMutex' \in Thread \cup {Nobody}
        /\ mClientCallbackMutex' \in Thread \cup {Nobody}
    BY <2>0 DEF ScanStop
  <2> QED
    BY <2>1, <2>2, <2>3, <2>4 DEF TypeOK
<1>11. CASE \E t \in Thread : Darken(t)
  <2>0. PICK t \in Thread : Darken(t)
    BY <1>11
  <2>1. pc' \in [Thread -> Steps]
    BY <2>0 DEF Darken
  <2>2. hbmFodEnabled' \in BOOLEAN /\ written' \in BOOLEAN /\ panel' \in BOOLEAN
    BY <2>0 DEF Darken
  <2>3. scanning' \in BOOLEAN /\ started' \in BOOLEAN /\ fingerDown' \in BOOLEAN
    BY <2>0 DEF Darken
  <2>4. mDevice' \in BOOLEAN /\ mClientCallback' \in Framework \cup {0}
        /\ lighter' \in Framework \cup {0} /\ call' \in Calls /\ caller' \in Framework
        /\ framework' \in Framework /\ mSetHbmFodMutex' \in Thread \cup {Nobody}
        /\ mClientCallbackMutex' \in Thread \cup {Nobody}
    BY <2>0 DEF Darken
  <2> QED
    BY <2>1, <2>2, <2>3, <2>4 DEF TypeOK
<1>12. CASE \E t \in Thread : Disabled(t)
  <2>0. PICK t \in Thread : Disabled(t)
    BY <1>12
  <2>1. pc' \in [Thread -> Steps]
    BY <2>0 DEF Disabled, FingerIsUp
  <2>2. hbmFodEnabled' \in BOOLEAN /\ written' \in BOOLEAN /\ panel' \in BOOLEAN
    BY <2>0 DEF Disabled, FingerIsUp
  <2>3. scanning' \in BOOLEAN /\ started' \in BOOLEAN /\ fingerDown' \in BOOLEAN
    BY <2>0 DEF Disabled, FingerIsUp
  <2>4. mDevice' \in BOOLEAN /\ mClientCallback' \in Framework \cup {0}
        /\ lighter' \in Framework \cup {0} /\ call' \in Calls /\ caller' \in Framework
        /\ framework' \in Framework /\ mSetHbmFodMutex' \in Thread \cup {Nobody}
        /\ mClientCallbackMutex' \in Thread \cup {Nobody}
    BY <2>0 DEF Disabled, FingerIsUp
  <2> QED
    BY <2>1, <2>2, <2>3, <2>4 DEF TypeOK
<1>13. CASE \E v \in VendorThread : Notify(v)
  BY <1>13 DEF Notify
<1>14. CASE \E v \in VendorThread : Deliver(v)
  <2>0. PICK v \in VendorThread : Deliver(v)
    BY <1>14
  <2>1. pc' \in [Thread -> Steps]
    BY <2>0 DEF Deliver
  <2>2. hbmFodEnabled' \in BOOLEAN /\ written' \in BOOLEAN /\ panel' \in BOOLEAN
    BY <2>0 DEF Deliver
  <2>3. scanning' \in BOOLEAN /\ started' \in BOOLEAN /\ fingerDown' \in BOOLEAN
    BY <2>0 DEF Deliver
  <2>4. mDevice' \in BOOLEAN /\ mClientCallback' \in Framework \cup {0}
        /\ lighter' \in Framework \cup {0} /\ call' \in Calls /\ caller' \in Framework
        /\ framework' \in Framework /\ mSetHbmFodMutex' \in Thread \cup {Nobody}
        /\ mClientCallbackMutex' \in Thread \cup {Nobody}
    BY <2>0 DEF Deliver
  <2> QED
    BY <2>1, <2>2, <2>3, <2>4 DEF TypeOK
<1>15. CASE \E v \in VendorThread : Delivered(v)
  BY <1>15 DEF Delivered
<1>16. CASE \E v \in VendorThread : Notified(v)
  BY <1>16 DEF Notified
<1>17. CASE ServiceDies
  BY <1>17 DEF ServiceDies
<1>18. CASE FrameworkDies
  <2>1. pc' \in [Thread -> Steps]
    BY <1>18 DEF FrameworkDies
  <2>2. hbmFodEnabled' \in BOOLEAN /\ written' \in BOOLEAN /\ panel' \in BOOLEAN
    BY <1>18 DEF FrameworkDies
  <2>3. scanning' \in BOOLEAN /\ started' \in BOOLEAN /\ fingerDown' \in BOOLEAN
    BY <1>18 DEF FrameworkDies
  <2>4. mDevice' \in BOOLEAN /\ mClientCallback' \in Framework \cup {0}
        /\ lighter' \in Framework \cup {0} /\ call' \in Calls /\ caller' \in Framework
        /\ framework' \in Framework /\ mSetHbmFodMutex' \in Thread \cup {Nobody}
        /\ mClientCallbackMutex' \in Thread \cup {Nobody}
    BY <1>18 DEF FrameworkDies
  <2> QED
    BY <2>1, <2>2, <2>3, <2>4 DEF TypeOK
<1>19. CASE UNCHANGED vars
  BY <1>19
<1> QED
  BY <1>1, <1>2, <1>3, <1>4, <1>5, <1>6, <1>7, <1>8, <1>9, <1>10, <1>11, <1>12, <1>13, <1>14, <1>15, <1>16, <1>17, <1>18, <1>19 DEF Next, Handle, FingerUp, Message

(* Every thread stays in its part of the code. *)
LEMMA PlacesStep == IInv /\ [Next]_vars => Places'
<1> SUFFICES ASSUME IInv, [Next]_vars PROVE Places'
  OBVIOUS
<1> USE FingerprintAssumption DEF IInv, TypeOK, Places, Disabling, vars, fod, callers, mutexes, Goes, At, Thread
<1>1. CASE \E c \in Calls : Call(c)
  BY <1>1 DEF Call, MayCall, EntryOf
<1>2. CASE SetNotify
  BY <1>2 DEF SetNotify
<1>3. CASE Cancel
  BY <1>3 DEF Cancel
<1>4. CASE AskVendor
  BY <1>4 DEF AskVendor
<1>5. CASE LockOn
  BY <1>5 DEF LockOn
<1>6. CASE ScanStart
  BY <1>6 DEF ScanStart
<1>7. CASE Light
  BY <1>7 DEF Light
<1>8. CASE Enabled
  BY <1>8 DEF Enabled
<1>9. CASE \E t \in Thread : LockOff(t)
  BY <1>9 DEF LockOff, FingerIsUp
<1>10. CASE \E t \in Thread : ScanStop(t)
  BY <1>10 DEF ScanStop
<1>11. CASE \E t \in Thread : Darken(t)
  BY <1>11 DEF Darken
<1>12. CASE \E t \in Thread : Disabled(t)
  BY <1>12 DEF Disabled, FingerIsUp
<1>13. CASE \E v \in VendorThread : Notify(v)
  BY <1>13 DEF Notify
<1>14. CASE \E v \in VendorThread : Deliver(v)
  BY <1>14 DEF Deliver
<1>15. CASE \E v \in VendorThread : Delivered(v)
  BY <1>15 DEF Delivered
<1>16. CASE \E v \in VendorThread : Notified(v)
  BY <1>16 DEF Notified
<1>17. CASE ServiceDies
  BY <1>17 DEF ServiceDies
<1>18. CASE FrameworkDies
  BY <1>18 DEF FrameworkDies
<1>19. CASE UNCHANGED vars
  BY <1>19
<1> QED
  BY <1>1, <1>2, <1>3, <1>4, <1>5, <1>6, <1>7, <1>8, <1>9, <1>10, <1>11, <1>12, <1>13, <1>14, <1>15, <1>16, <1>17, <1>18, <1>19 DEF Next, Handle, FingerUp, Message

(* The mutex is taken and released together with the place in the code. *)
LEMMA SwitchingStep == IInv /\ [Next]_vars => Switching'
<1> SUFFICES ASSUME IInv, [Next]_vars PROVE Switching'
  OBVIOUS
<1> USE FingerprintAssumption DEF IInv, TypeOK, Places, Switching, Enabling, Disabling, vars, fod, callers, mutexes, Goes, At, Thread
<1>1. CASE \E c \in Calls : Call(c)
  BY <1>1 DEF Call, MayCall, EntryOf
<1>2. CASE SetNotify
  BY <1>2 DEF SetNotify
<1>3. CASE Cancel
  BY <1>3 DEF Cancel
<1>4. CASE AskVendor
  BY <1>4 DEF AskVendor
<1>5. CASE LockOn
  BY <1>5 DEF LockOn
<1>6. CASE ScanStart
  BY <1>6 DEF ScanStart
<1>7. CASE Light
  BY <1>7 DEF Light
<1>8. CASE Enabled
  BY <1>8 DEF Enabled
<1>9. CASE \E t \in Thread : LockOff(t)
  BY <1>9 DEF LockOff, FingerIsUp
<1>10. CASE \E t \in Thread : ScanStop(t)
  BY <1>10 DEF ScanStop
<1>11. CASE \E t \in Thread : Darken(t)
  BY <1>11 DEF Darken
<1>12. CASE \E t \in Thread : Disabled(t)
  BY <1>12 DEF Disabled, FingerIsUp
<1>13. CASE \E v \in VendorThread : Notify(v)
  BY <1>13 DEF Notify
<1>14. CASE \E v \in VendorThread : Deliver(v)
  BY <1>14 DEF Deliver
<1>15. CASE \E v \in VendorThread : Delivered(v)
  BY <1>15 DEF Delivered
<1>16. CASE \E v \in VendorThread : Notified(v)
  BY <1>16 DEF Notified
<1>17. CASE ServiceDies
  BY <1>17 DEF ServiceDies
<1>18. CASE FrameworkDies
  BY <1>18 DEF FrameworkDies
<1>19. CASE UNCHANGED vars
  BY <1>19
<1> QED
  BY <1>1, <1>2, <1>3, <1>4, <1>5, <1>6, <1>7, <1>8, <1>9, <1>10, <1>11, <1>12, <1>13, <1>14, <1>15, <1>16, <1>17, <1>18, <1>19 DEF Next, Handle, FingerUp, Message

(* The flag is tested when the mutex is taken and written when it is released. *)
LEMMA FlagSaysOtherStep == IInv /\ [Next]_vars => FlagSaysOther'
<1> SUFFICES ASSUME IInv, [Next]_vars PROVE FlagSaysOther'
  OBVIOUS
<1> USE FingerprintAssumption DEF IInv, TypeOK, Places, Switching, FlagSaysOther, Enabling, Disabling, vars, fod, callers, mutexes, Goes, At, Thread
<1>1. CASE \E c \in Calls : Call(c)
  BY <1>1 DEF Call, MayCall, EntryOf
<1>2. CASE SetNotify
  BY <1>2 DEF SetNotify
<1>3. CASE Cancel
  BY <1>3 DEF Cancel
<1>4. CASE AskVendor
  BY <1>4 DEF AskVendor
<1>5. CASE LockOn
  BY <1>5 DEF LockOn
<1>6. CASE ScanStart
  BY <1>6 DEF ScanStart
<1>7. CASE Light
  BY <1>7 DEF Light
<1>8. CASE Enabled
  BY <1>8 DEF Enabled
<1>9. CASE \E t \in Thread : LockOff(t)
  BY <1>9 DEF LockOff, FingerIsUp
<1>10. CASE \E t \in Thread : ScanStop(t)
  BY <1>10 DEF ScanStop
<1>11. CASE \E t \in Thread : Darken(t)
  BY <1>11 DEF Darken
<1>12. CASE \E t \in Thread : Disabled(t)
  BY <1>12 DEF Disabled, FingerIsUp
<1>13. CASE \E v \in VendorThread : Notify(v)
  BY <1>13 DEF Notify
<1>14. CASE \E v \in VendorThread : Deliver(v)
  BY <1>14 DEF Deliver
<1>15. CASE \E v \in VendorThread : Delivered(v)
  BY <1>15 DEF Delivered
<1>16. CASE \E v \in VendorThread : Notified(v)
  BY <1>16 DEF Notified
<1>17. CASE ServiceDies
  BY <1>17 DEF ServiceDies
<1>18. CASE FrameworkDies
  BY <1>18 DEF FrameworkDies
<1>19. CASE UNCHANGED vars
  BY <1>19
<1> QED
  BY <1>1, <1>2, <1>3, <1>4, <1>5, <1>6, <1>7, <1>8, <1>9, <1>10, <1>11, <1>12, <1>13, <1>14, <1>15, <1>16, <1>17, <1>18, <1>19 DEF Next, Handle, FingerUp, Message

(* The reader is switched before the panel. *)
LEMMA HalfWayStep == IInv /\ [Next]_vars => HalfWay'
<1> SUFFICES ASSUME IInv, [Next]_vars PROVE HalfWay'
  OBVIOUS
<1> USE FingerprintAssumption DEF IInv, TypeOK, Places, Switching, FlagSaysOther, HalfWay, FlagIsPanel, Enabling, Disabling, vars, fod, callers, mutexes, Goes, At, Thread
<1>1. CASE \E c \in Calls : Call(c)
  BY <1>1 DEF Call, MayCall, EntryOf
<1>2. CASE SetNotify
  BY <1>2 DEF SetNotify
<1>3. CASE Cancel
  BY <1>3 DEF Cancel
<1>4. CASE AskVendor
  BY <1>4 DEF AskVendor
<1>5. CASE LockOn
  BY <1>5 DEF LockOn
<1>6. CASE ScanStart
  BY <1>6 DEF ScanStart
<1>7. CASE Light
  BY <1>7 DEF Light
<1>8. CASE Enabled
  BY <1>8 DEF Enabled
<1>9. CASE \E t \in Thread : LockOff(t)
  BY <1>9 DEF LockOff, FingerIsUp
<1>10. CASE \E t \in Thread : ScanStop(t)
  BY <1>10 DEF ScanStop
<1>11. CASE \E t \in Thread : Darken(t)
  BY <1>11 DEF Darken
<1>12. CASE \E t \in Thread : Disabled(t)
  BY <1>12 DEF Disabled, FingerIsUp
<1>13. CASE \E v \in VendorThread : Notify(v)
  BY <1>13 DEF Notify
<1>14. CASE \E v \in VendorThread : Deliver(v)
  BY <1>14 DEF Deliver
<1>15. CASE \E v \in VendorThread : Delivered(v)
  BY <1>15 DEF Delivered
<1>16. CASE \E v \in VendorThread : Notified(v)
  BY <1>16 DEF Notified
<1>17. CASE ServiceDies
  BY <1>17 DEF ServiceDies
<1>18. CASE FrameworkDies
  BY <1>18 DEF FrameworkDies
<1>19. CASE UNCHANGED vars
  BY <1>19
<1> QED
  BY <1>1, <1>2, <1>3, <1>4, <1>5, <1>6, <1>7, <1>8, <1>9, <1>10, <1>11, <1>12, <1>13, <1>14, <1>15, <1>16, <1>17, <1>18, <1>19 DEF Next, Handle, FingerUp, Message

(* A completed switch leaves the flag, the panel and the reader alike. *)
LEMMA FlagIsPanelStep == IInv /\ [Next]_vars => FlagIsPanel'
<1> SUFFICES ASSUME IInv, [Next]_vars PROVE FlagIsPanel'
  OBVIOUS
<1> USE FingerprintAssumption DEF IInv, TypeOK, Places, Switching, FlagSaysOther, HalfWay, FlagIsPanel, Enabling, Disabling, vars, fod, callers, mutexes, Goes, At, Thread
<1>1. CASE \E c \in Calls : Call(c)
  BY <1>1 DEF Call, MayCall, EntryOf
<1>2. CASE SetNotify
  BY <1>2 DEF SetNotify
<1>3. CASE Cancel
  BY <1>3 DEF Cancel
<1>4. CASE AskVendor
  BY <1>4 DEF AskVendor
<1>5. CASE LockOn
  BY <1>5 DEF LockOn
<1>6. CASE ScanStart
  BY <1>6 DEF ScanStart
<1>7. CASE Light
  BY <1>7 DEF Light
<1>8. CASE Enabled
  BY <1>8 DEF Enabled
<1>9. CASE \E t \in Thread : LockOff(t)
  BY <1>9 DEF LockOff, FingerIsUp
<1>10. CASE \E t \in Thread : ScanStop(t)
  BY <1>10 DEF ScanStop
<1>11. CASE \E t \in Thread : Darken(t)
  BY <1>11 DEF Darken
<1>12. CASE \E t \in Thread : Disabled(t)
  BY <1>12 DEF Disabled, FingerIsUp
<1>13. CASE \E v \in VendorThread : Notify(v)
  BY <1>13 DEF Notify
<1>14. CASE \E v \in VendorThread : Deliver(v)
  BY <1>14 DEF Deliver
<1>15. CASE \E v \in VendorThread : Delivered(v)
  BY <1>15 DEF Delivered
<1>16. CASE \E v \in VendorThread : Notified(v)
  BY <1>16 DEF Notified
<1>17. CASE ServiceDies
  BY <1>17 DEF ServiceDies
<1>18. CASE FrameworkDies
  BY <1>18 DEF FrameworkDies
<1>19. CASE UNCHANGED vars
  BY <1>19
<1> QED
  BY <1>1, <1>2, <1>3, <1>4, <1>5, <1>6, <1>7, <1>8, <1>9, <1>10, <1>11, <1>12, <1>13, <1>14, <1>15, <1>16, <1>17, <1>18, <1>19 DEF Next, Handle, FingerUp, Message

(* cancel() sees the flag set for as long as the panel may be lit. *)
LEMMA CancelLeavesDarkStep == IInv /\ [Next]_vars => CancelLeavesDark'
<1> SUFFICES ASSUME IInv, [Next]_vars PROVE CancelLeavesDark'
  OBVIOUS
<1> USE FingerprintAssumption DEF IInv, TypeOK, Places, Switching, FlagSaysOther, HalfWay, FlagIsPanel, CancelLeavesDark, Enabling, Disabling, vars, fod, callers, mutexes, Goes, At, Thread
<1>1. CASE \E c \in Calls : Call(c)
  BY <1>1 DEF Call, MayCall, EntryOf
<1>2. CASE SetNotify
  BY <1>2 DEF SetNotify
<1>3. CASE Cancel
  BY <1>3 DEF Cancel
<1>4. CASE AskVendor
  BY <1>4 DEF AskVendor
<1>5. CASE LockOn
  BY <1>5 DEF LockOn
<1>6. CASE ScanStart
  BY <1>6 DEF ScanStart
<1>7. CASE Light
  BY <1>7 DEF Light
<1>8. CASE Enabled
  BY <1>8 DEF Enabled
<1>9. CASE \E t \in Thread : LockOff(t)
  BY <1>9 DEF LockOff, FingerIsUp
<1>10. CASE \E t \in Thread : ScanStop(t)
  BY <1>10 DEF ScanStop
<1>11. CASE \E t \in Thread : Darken(t)
  BY <1>11 DEF Darken
<1>12. CASE \E t \in Thread : Disabled(t)
  BY <1>12 DEF Disabled, FingerIsUp
<1>13. CASE \E v \in VendorThread : Notify(v)
  BY <1>13 DEF Notify
<1>14. CASE \E v \in VendorThread : Deliver(v)
  BY <1>14 DEF Deliver
<1>15. CASE \E v \in VendorThread : Delivered(v)
  BY <1>15 DEF Delivered
<1>16. CASE \E v \in VendorThread : Notified(v)
  BY <1>16 DEF Notified
<1>17. CASE ServiceDies
  BY <1>17 DEF ServiceDies
<1>18. CASE FrameworkDies
  BY <1>18 DEF FrameworkDies
<1>19. CASE UNCHANGED vars
  BY <1>19
<1> QED
  BY <1>1, <1>2, <1>3, <1>4, <1>5, <1>6, <1>7, <1>8, <1>9, <1>10, <1>11, <1>12, <1>13, <1>14, <1>15, <1>16, <1>17, <1>18, <1>19 DEF Next, Handle, FingerUp, Message

(* Each way into the library's functions starts where there is a device. *)
LEMMA DevicesStep == IInv /\ [Next]_vars => Devices'
<1> SUFFICES ASSUME IInv, [Next]_vars PROVE Devices'
  OBVIOUS
<1> USE FingerprintAssumption DEF IInv, TypeOK, Places, Devices, Enabling, Disabling, vars, fod, callers, mutexes, Goes, At, Thread
<1>1. CASE \E c \in Calls : Call(c)
  BY <1>1 DEF Call, MayCall, EntryOf
<1>2. CASE SetNotify
  BY <1>2 DEF SetNotify
<1>3. CASE Cancel
  BY <1>3 DEF Cancel
<1>4. CASE AskVendor
  BY <1>4 DEF AskVendor
<1>5. CASE LockOn
  BY <1>5 DEF LockOn
<1>6. CASE ScanStart
  BY <1>6 DEF ScanStart
<1>7. CASE Light
  BY <1>7 DEF Light
<1>8. CASE Enabled
  BY <1>8 DEF Enabled
<1>9. CASE \E t \in Thread : LockOff(t)
  BY <1>9 DEF LockOff, FingerIsUp
<1>10. CASE \E t \in Thread : ScanStop(t)
  BY <1>10 DEF ScanStop
<1>11. CASE \E t \in Thread : Darken(t)
  BY <1>11 DEF Darken
<1>12. CASE \E t \in Thread : Disabled(t)
  BY <1>12 DEF Disabled, FingerIsUp
<1>13. CASE \E v \in VendorThread : Notify(v)
  BY <1>13 DEF Notify
<1>14. CASE \E v \in VendorThread : Deliver(v)
  BY <1>14 DEF Deliver
<1>15. CASE \E v \in VendorThread : Delivered(v)
  BY <1>15 DEF Delivered
<1>16. CASE \E v \in VendorThread : Notified(v)
  BY <1>16 DEF Notified
<1>17. CASE ServiceDies
  BY <1>17 DEF ServiceDies
<1>18. CASE FrameworkDies
  BY <1>18 DEF FrameworkDies
<1>19. CASE UNCHANGED vars
  BY <1>19
<1> QED
  BY <1>1, <1>2, <1>3, <1>4, <1>5, <1>6, <1>7, <1>8, <1>9, <1>10, <1>11, <1>12, <1>13, <1>14, <1>15, <1>16, <1>17, <1>18, <1>19 DEF Next, Handle, FingerUp, Message

(* The service starts with the panel dark and nothing going on. *)
LEMMA FingerprintInit == Init => IInv
<1> SUFFICES ASSUME Init PROVE IInv
  OBVIOUS
<1> USE FingerprintAssumption DEF Init
<1>1. mDevice \in BOOLEAN /\ hbmFodEnabled \in BOOLEAN
  OBVIOUS
<1>2. pc \in [Thread -> Steps]
  BY DEF Steps
<1>3. TypeOK
  <2>1. call \in Calls /\ caller \in Framework /\ framework \in Framework
    BY DEF Calls, Framework
  <2>2. written \in BOOLEAN /\ panel \in BOOLEAN /\ scanning \in BOOLEAN
        /\ started \in BOOLEAN /\ fingerDown \in BOOLEAN
    OBVIOUS
  <2> QED
    BY <1>1, <1>2, <2>1, <2>2 DEF TypeOK
<1>4. Places /\ Switching
  BY DEF Places, Switching, Thread, Enabling, Disabling
<1>5. FlagSaysOther /\ HalfWay /\ FlagIsPanel /\ CancelLeavesDark /\ Devices
  BY DEF FlagSaysOther, HalfWay, FlagIsPanel, CancelLeavesDark, Devices, Thread, At, Enabling,
    Disabling
<1> QED
  BY <1>3, <1>4, <1>5 DEF IInv

(* Every step keeps every part. *)
LEMMA FingerprintStep == IInv /\ [Next]_vars => IInv'
BY TypeOKStep, PlacesStep, SwitchingStep, FlagSaysOtherStep, HalfWayStep, FlagIsPanelStep,
  CancelLeavesDarkStep, DevicesStep DEF IInv

(* Every part holds in every reachable state. *)
LEMMA FingerprintInvariant == Spec => []IInv
BY FingerprintInit, FingerprintStep, PTL DEF Spec

(* Every reachable state of the service has its type. *)
THEOREM FingerprintTypeCorrect == Spec => []TypeOK
<1>1. IInv => TypeOK
  BY DEF IInv
<1> QED
  BY <1>1, FingerprintInvariant, PTL

(* From its first assignment on hbmFodEnabled tells, whenever nobody holds   *)
(* mSetHbmFodMutex, whether the panel is lit and the reader scans.           *)
THEOREM PanelFollowsFlag == Spec => []FlagIsPanel
<1>1. IInv => FlagIsPanel
  BY DEF IInv
<1> QED
  BY <1>1, FingerprintInvariant, PTL

(* cancel() leaves the panel dark before it cancels the operation, although  *)
(* it reads hbmFodEnabled without the mutex.                                 *)
THEOREM CancelDarkens == Spec => []CancelLeavesDark
<1>1. IInv => CancelLeavesDark
  BY DEF IInv
<1> QED
  BY <1>1, FingerprintInvariant, PTL

(* Scanning is only started or stopped in a library that was opened.         *)
THEOREM OnlyOpenDevices == Spec => []DeviceIsThere
<1>1. IInv => DeviceIsThere
  BY DEF IInv, Devices, DeviceIsThere, Thread, Enabling, Disabling, Places
<1> QED
  BY <1>1, FingerprintInvariant, PTL
=============================================================================
