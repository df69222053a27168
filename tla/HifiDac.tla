------------------------------ MODULE HifiDac ------------------------------
(***************************************************************************)
(* The switch of the Hi-Fi Quad DAC.  A property says whether the user     *)
(* wants the DAC; the amplifier, a plug-in of the audio HAL, switches the  *)
(* path of the headphones when the HAL routes a stream to them, or when    *)
(* the DAC service passes on a request of the user.  The audio HAL and the *)
(* service may die and restart; the property is persistent.                *)
(*                                                                         *)
(* The audio HAL holds its device lock in each of its calls to the         *)
(* amplifier, so a handler is one step.                                    *)
(***************************************************************************)
CONSTANT Usecase   \* playback use cases of the audio HAL

VARIABLES
  enabled,           \* the property persist.vendor.audio.hifi.enabled
  hifi_dac_enabled,  \* the path the amplifier believes it has applied
  path,              \* "hifi" or "normal": backend and mixer path of the headphones
  device,            \* the device each use case plays on
  audio, service,    \* the audio HAL and the DAC service are running
  handle,            \* the service holds the device of the running audio HAL
  asked              \* what the user last asked for, of a service that answered

vars == <<enabled, hifi_dac_enabled, path, device, audio, service, handle, asked>>

(* Headsets and lines have the sound device of headphones.                 *)
Jack == {"headphones", "headset"}
Device == Jack \cup {"none", "other"}
Path(on) == IF on THEN "hifi" ELSE "normal"
Silent == [u \in Usecase |-> "none"]

Init ==
  /\ enabled \in BOOLEAN
  /\ hifi_dac_enabled = FALSE /\ path = "normal"
  /\ device = Silent
  /\ audio = TRUE /\ service = FALSE /\ handle = FALSE
  /\ asked = enabled
-----------------------------------------------------------------------------
(* The amplifier.                                                          *)

Apply == hifi_dac_enabled' = enabled' /\ path' = Path(enabled')

(* Faulty: other callers than set_parameters() are not served.              *)
SetOutputDevices_OnlyForced(d, configChanged) ==
  IF d \in Jack /\ configChanged
    THEN Apply
    ELSE UNCHANGED <<hifi_dac_enabled, path>>

(* The property is read anew; configChanged is hifi_dac_config_changed.  The *)
(* test is for the sound device, SND_DEVICE_OUT_HEADPHONES.                 *)
SetOutputDevices(d, configChanged) ==
  IF d \in Jack /\ (configChanged \/ enabled' # hifi_dac_enabled)
    THEN Apply
    ELSE UNCHANGED <<hifi_dac_enabled, path>>

(* Here the test is for the audio device, AUDIO_DEVICE_OUT_WIRED_HEADPHONE.  *)
Playing == \E u \in Usecase : device[u] = "headphones"

(* "hifi_dac=on" or "off" is refused when the amplifier has applied it       *)
(* already; else a stream that plays on the headphones is switched at once,  *)
(* and one that plays on a headset is not.                                  *)
SetParameters(on) ==
  IF on = hifi_dac_enabled
    THEN UNCHANGED <<enabled, hifi_dac_enabled, path>>
    ELSE /\ enabled' = on
         /\ IF Playing THEN SetOutputDevices("headphones", TRUE)
                       ELSE UNCHANGED <<hifi_dac_enabled, path>>
-----------------------------------------------------------------------------
(* The audio HAL routes a use case; to the device it is on, it does nothing. *)
(* There is one jack: it is unplugged before it is of the other kind.       *)
Route(u, d) ==
  /\ audio /\ d # device[u]
  /\ d \in Jack => \A v \in Usecase : device[v] \notin Jack \ {d}
  /\ device' = [device EXCEPT ![u] = d]
  /\ UNCHANGED enabled
  /\ SetOutputDevices(d, FALSE)
  /\ UNCHANGED <<audio, service, handle, asked>>

(* When it dies its streams end; it starts with the default paths and opens  *)
(* the amplifier again.                                                      *)
AudioDies ==
  /\ audio
  /\ audio' = FALSE /\ handle' = FALSE /\ device' = Silent
  /\ UNCHANGED <<enabled, hifi_dac_enabled, path, service, asked>>

AudioStarts ==
  /\ ~audio
  /\ audio' = TRUE
  /\ hifi_dac_enabled' = FALSE /\ path' = "normal"
  /\ UNCHANGED <<enabled, device, service, handle, asked>>

(* The constructor opens the audio device and sets the state it reads.      *)
ServiceStarts ==
  /\ ~service /\ audio
  /\ service' = TRUE /\ handle' = TRUE
  /\ SetParameters(enabled)
  /\ UNCHANGED <<device, audio, asked>>

(* The user switches the DAC.  With the device of an audio HAL that died the *)
(* service dies in the call.                                                 *)
SetHifiDacState(on) ==
  /\ service
  /\ IF handle
       THEN /\ SetParameters(on)
            /\ asked' = on
            /\ UNCHANGED <<service, handle>>
       ELSE /\ service' = FALSE
            /\ UNCHANGED <<enabled, hifi_dac_enabled, path, handle, asked>>
  /\ UNCHANGED <<device, audio>>

Next ==
  \/ \E u \in Usecase, d \in Device : Route(u, d)
  \/ AudioDies \/ AudioStarts \/ ServiceStarts
  \/ \E on \in BOOLEAN : SetHifiDacState(on)

Spec == Init /\ [][Next]_vars
-----------------------------------------------------------------------------
TypeOK ==
  /\ {enabled, hifi_dac_enabled, audio, service, handle, asked} \subseteq BOOLEAN
  /\ path \in {"hifi", "normal"}
  /\ device \in [Usecase -> Device]
  /\ handle => audio /\ service

(* Whatever plays on wired headphones plays on the path the property asks    *)
(* for, whichever came first, the stream or the setting, and after any       *)
(* restart.  (A stream on a headset follows at its next routing only.)       *)
PathFollowsProperty == Playing => path = Path(enabled)

(* The amplifier knows the path that is applied: it decides on its flag     *)
(* alone whether there is anything to switch.                               *)
AppliedIsKnown == audio => path = Path(hifi_dac_enabled)

(* What the user asked for is the state of the DAC from then on.  Of no run: *)
(* set_parameters() breaks it, see the README.                               *)
AskedIsEnabled == enabled = asked
=============================================================================
