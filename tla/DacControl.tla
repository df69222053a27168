----------------------------- MODULE DacControl -----------------------------
(***************************************************************************)
(* The settings of the DAC.  The DAC service writes each one to a sysfs    *)
(* attribute of the driver and to a persistent property, and writes all    *)
(* properties back to the driver when it starts.  The custom filter is one *)
(* attribute with the data of several properties.  The only client, the    *)
(* settings app, sets what the user chooses, and re-sets everything when   *)
(* it enables the DAC.                                                     *)
(*                                                                         *)
(* The service serves one call at a time, write by write; a write may      *)
(* fail, the service may die between two writes, the device may reboot.    *)
(***************************************************************************)
EXTENDS Integers, Sequences

CONSTANTS
  Feature,     \* the features with a value that the driver has attributes for
  Coeffs,      \* the coefficients of the custom filter, in a sequence
  Choice,      \* Choice[s]: the values of a setting the user can choose
  MaxEvents    \* bound on the calls of the app, deaths of the service and reboots

AllFeatures == {"DigitalFilter", "BalanceLeft", "BalanceRight", "AVCVolume", "HifiMode"}
Custom == <<"shape", "symmetry">> \o Coeffs
CustomSetting == {Custom[i] : i \in DOMAIN Custom}
Coeff == {Coeffs[i] : i \in DOMAIN Coeffs}
Setting == Feature \cup CustomSetting

ASSUME DacAssumption ==
  /\ Feature \subseteq AllFeatures
  /\ Coeffs \in Seq(STRING \ (AllFeatures \cup {"shape", "symmetry", "reset"}))
  /\ MaxEvents \in Nat
  /\ Choice \in [Setting -> SUBSET Int]

VARIABLES
  prop,     \* prop[s]: the persistent property of a setting
  attr,     \* attr[f]: the attribute of a feature, in the units of the driver
  custom,   \* the attribute of the custom filter
  service,  \* "down", "starting" or "up"
  calls,    \* the calls the constructor or the app has still to make
  writes,   \* the writes the service has still to make in its call
  chosen,   \* the settings whose value the user chose in the calls under way
  failed,   \* attributes that a failed write left behind the properties
  events    \* calls of the app, deaths and reboots so far

vars == <<prop, attr, custom, service, calls, writes, chosen, failed, events>>

CustomData == [s \in CustomSetting |-> prop[s]]

(* What the driver starts with, and the properties that were never set.     *)
ResetDriver == attr' = [f \in Feature |-> 0] /\ custom' = [s \in CustomSetting |-> 0]
Unset(s) == IF s = "AVCVolume" THEN -14 ELSE 0

Init ==
  /\ prop = [s \in Setting |-> Unset(s)]
  /\ attr = [f \in Feature |-> 0] /\ custom = [s \in CustomSetting |-> 0]
  /\ service = "down" /\ calls = <<>> /\ writes = <<>>
  /\ chosen = {} /\ failed = {} /\ events = 0
-----------------------------------------------------------------------------
(* The writes of a call of the service.                                    *)

Write(to, s, v) == [to |-> to, setting |-> s, value |-> v]

(* The driver numbers the digital filters its own way and takes the volume *)
(* as an attenuation.                                                      *)
Units(f, v) ==
  CASE f = "DigitalFilter" -> <<9, 4, 5, 3>>[v + 1]
    [] f = "AVCVolume" -> -v
    [] OTHER -> v

(* Faulty: the value is saved in the units of the driver.                  *)
SetFeatureValue_SavesUnits(f, v) ==
  IF f \notin Feature \/ (f = "DigitalFilter" /\ v \notin 0 .. 3) THEN <<>>
  ELSE <<Write("attr", f, v), Write("prop", f, Units(f, v))>>

SetFeatureValue(f, v) ==
  IF f \notin Feature \/ (f = "DigitalFilter" /\ v \notin 0 .. 3) THEN <<>>
  ELSE <<Write("attr", f, v), Write("prop", f, v)>>

(* Faulty: the attribute is written before the property.                   *)
SetCustom_WriteFirst(s, v) ==
  <<Write("custom", s, 0), Write("prop", s, IF s = "shape" /\ v > 4 THEN v + 1 ELSE v)>>

(* The driver has no shape 5: the shapes from 5 on are saved as one more.  *)
SetCustom(s, v) ==
  <<Write("prop", s, IF s = "shape" /\ v > 4 THEN v + 1 ELSE v), Write("custom", s, 0)>>

ResetCoeffs == [i \in DOMAIN Coeffs |-> Write("prop", Coeffs[i], 0)] \o <<Write("custom", "shape", 0)>>

(* A call: set a setting to a value or to the value it has then, or reset.  *)
Set(s, v) == [setting |-> s, given |-> {v}]
SetSaved(s) == [setting |-> s, given |-> {}]
Reset == SetSaved("reset")

Execute(c) ==
  LET v == IF c.given = {} THEN prop[c.setting] ELSE CHOOSE x \in c.given : TRUE
  IN  CASE c = Reset -> ResetCoeffs
        [] c # Reset /\ c.setting \in CustomSetting -> SetCustom(c.setting, v)
        [] OTHER -> SetFeatureValue(c.setting, v)
-----------------------------------------------------------------------------
(* The service: a constructor that re-applies what is saved, then calls.   *)

Supported(f) == IF f \in Feature THEN <<f>> ELSE <<>>
Features ==
  Supported("DigitalFilter") \o Supported("BalanceLeft") \o Supported("BalanceRight")
    \o Supported("AVCVolume") \o Supported("HifiMode")
SetAll(order, set(_)) == [i \in DOMAIN order |-> set(order[i])]

Start ==
  /\ service = "down"
  /\ service' = "starting"
  /\ calls' = SetAll(Features, SetSaved) \o SetAll(Custom, SetSaved)
  /\ UNCHANGED <<prop, attr, custom, writes, chosen, failed, events>>

Register ==
  /\ service = "starting" /\ calls = <<>> /\ writes = <<>>
  /\ service' = "up"
  /\ UNCHANGED <<prop, attr, custom, calls, writes, chosen, failed, events>>

NextCall ==
  /\ service # "down" /\ writes = <<>> /\ calls # <<>>
  /\ writes' = Execute(Head(calls))
  /\ calls' = Tail(calls)
  /\ UNCHANGED <<prop, attr, custom, service, chosen, failed, events>>

Done == writes' = Tail(writes)

WriteAttr ==
  LET w == Head(writes) IN
  /\ writes # <<>> /\ w.to = "attr"
  /\ Done
  /\ \/ /\ attr' = [attr EXCEPT ![w.setting] = Units(w.setting, w.value)]
        /\ failed' = failed \ {w.setting}
     \/ /\ failed' = failed \cup {w.setting}
        /\ UNCHANGED attr
  /\ UNCHANGED <<prop, custom, service, calls, chosen, events>>

WriteCustom ==
  /\ writes # <<>> /\ Head(writes).to = "custom"
  /\ Done
  /\ \/ custom' = CustomData /\ failed' = failed \ {"custom"}
     \/ UNCHANGED custom /\ failed' = failed \cup {"custom"}
  /\ UNCHANGED <<prop, attr, service, calls, chosen, events>>

(* When a property cannot be set the call ends.                            *)
WriteProp ==
  LET w == Head(writes) IN
  /\ writes # <<>> /\ w.to = "prop"
  /\ \/ /\ prop' = [prop EXCEPT ![w.setting] = w.value]
        /\ Done
        /\ UNCHANGED failed
     \/ /\ writes' = <<>>
        /\ failed' = failed \cup {IF w.setting \in Feature THEN w.setting ELSE "custom"}
        /\ UNCHANGED prop
  /\ UNCHANGED <<attr, custom, service, calls, chosen, events>>

Count == events < MaxEvents /\ events' = events + 1

(* The calls that are left fail with it.                                   *)
Dies ==
  /\ Count /\ service # "down"
  /\ service' = "down" /\ calls' = <<>> /\ writes' = <<>>
  /\ UNCHANGED <<prop, attr, custom, chosen, failed>>

Reboot ==
  /\ Count
  /\ ResetDriver
  /\ service' = "down" /\ calls' = <<>> /\ writes' = <<>>
  /\ failed' = {}
  /\ UNCHANGED <<prop, chosen>>
-----------------------------------------------------------------------------
(* The app makes its calls on one thread.                                  *)

Idle == service = "up" /\ calls = <<>> /\ writes = <<>>

(* setDigitalFilter(): a custom filter is applied by setting its shape.     *)
SetDigitalFilter(v) ==
  <<Set("DigitalFilter", v)>> \o IF v = 3 THEN <<SetSaved("shape")>> ELSE <<>>

(* The panel applies the custom filter when it opens, when the headset is   *)
(* plugged in, and when the custom filter or the DAC was enabled.           *)
EnableCustomFilter == <<SetSaved("shape")>>

OnPreferenceChange(s, v) ==
  /\ Count /\ Idle
  /\ calls' = IF s # "DigitalFilter" THEN <<Set(s, v)>>
              ELSE SetDigitalFilter(v) \o IF v = 3 THEN EnableCustomFilter ELSE <<>>
  /\ chosen' = {s}
  /\ UNCHANGED <<prop, attr, custom, service, writes, failed>>

ResetCustomFilter ==
  /\ Count /\ Idle
  /\ calls' = <<Reset>>
  /\ chosen' = Coeff
  /\ UNCHANGED <<prop, attr, custom, service, writes, failed>>

EnableExtraSettings ==
  /\ Count /\ Idle
  /\ calls' = EnableCustomFilter
  /\ chosen' = {}
  /\ UNCHANGED <<prop, attr, custom, service, writes, failed>>

(* enable(), from the panel or the tile, reads every setting and sets it.   *)
(* It reads the custom filter after setDigitalFilter(), and each part of it *)
(* before it sets that part, as SetSaved does.                              *)
Enable(fromPanel) ==
  LET keep(s) == Set(s, prop[s])
      order == Supported("HifiMode") \o Supported("BalanceLeft")
                 \o Supported("BalanceRight") \o Supported("AVCVolume")
  IN
  /\ Count /\ Idle
  /\ calls' = SetAll(order, keep)
       \o (IF "DigitalFilter" \in Feature THEN SetDigitalFilter(prop["DigitalFilter"]) ELSE <<>>)
       \o SetAll(Custom, SetSaved) \o IF fromPanel THEN EnableCustomFilter ELSE <<>>
  /\ chosen' = {}
  /\ UNCHANGED <<prop, attr, custom, service, writes, failed>>

Next ==
  \/ Start \/ Register \/ NextCall \/ WriteAttr \/ WriteCustom \/ WriteProp
  \/ Dies \/ Reboot
  \/ \E s \in Setting : \E v \in Choice[s] : OnPreferenceChange(s, v)
  \/ ResetCustomFilter \/ EnableExtraSettings \/ \E fromPanel \in BOOLEAN : Enable(fromPanel)

Spec == Init /\ [][Next]_vars
-----------------------------------------------------------------------------
TypeOK ==
  /\ prop \in [Setting -> Int] /\ attr \in [Feature -> Int] /\ custom \in [CustomSetting -> Int]
  /\ "DigitalFilter" \in Feature => prop["DigitalFilter"] \in 0 .. 3
  /\ service \in {"down", "starting", "up"}
  /\ chosen \subseteq Setting /\ failed \subseteq Feature \cup {"custom"}
  /\ events \in 0 .. MaxEvents

(* When the service is at rest the driver has what is saved, whatever died  *)
(* or rebooted in between, but for a setting whose last write failed.       *)
DriverHasSettings ==
  Idle =>
    /\ \A f \in Feature \ failed : attr[f] = Units(f, prop[f])
    /\ "custom" \notin failed => custom = CustomData

OnlyChosenChange(settings) ==
  \A s \in settings : prop'[s] # prop[s] => s \in chosen /\ service = "up"

(* A setting changes only when the user chooses it: restarts and enabling   *)
(* the DAC re-apply the settings and change none.                           *)
SettingsSurvive == [][OnlyChosenChange(Setting \ {"shape"})]_vars

(* The same of the shape of the custom filter.                             *)
ShapeSurvives == [][OnlyChosenChange({"shape"})]_vars
=============================================================================
