--------------------------- MODULE HifiDacProofs ---------------------------
(* The headphones play on the path the property asks for, for any use cases. *)
EXTENDS HifiDac, TLAPS

(* A dead audio HAL plays nothing: what it forgets when it starts again      *)
(* concerns no stream.                                                       *)
DeadIsSilent == ~audio => device = Silent

IInv == TypeOK /\ DeadIsSilent /\ AppliedIsKnown /\ PathFollowsProperty

(* The invariant holds in the beginning.                                    *)
LEMMA InitIInv == Init => IInv
  BY DEF Init, IInv, TypeOK, DeadIsSilent, AppliedIsKnown, PathFollowsProperty, Playing,
         Path, Silent, Device, Jack

(* What the two calls of the amplifier preserve, whoever makes them: the     *)
(* flag is the applied path, and a call on behalf of the headphones leaves   *)
(* the path the property asks for.                                           *)
LEMMA OutputDevices ==
  ASSUME IInv, audio, NEW d \in Device, NEW forced \in BOOLEAN,
         enabled' \in BOOLEAN, SetOutputDevices(d, forced)
  PROVE  /\ hifi_dac_enabled' \in BOOLEAN /\ path' = Path(hifi_dac_enabled')
         /\ d = "headphones" => path' = Path(enabled')
         /\ d \notin Jack => path' = path
  BY DEF IInv, TypeOK, AppliedIsKnown, SetOutputDevices, Apply, Path, Jack

(* The amplifier ends on the path of the property whenever it is told of it. *)
LEMMA Parameters ==
  ASSUME IInv, audio, NEW on \in BOOLEAN, SetParameters(on)
  PROVE  /\ enabled' \in BOOLEAN /\ hifi_dac_enabled' \in BOOLEAN
         /\ path' = Path(hifi_dac_enabled')
         /\ Playing => path' = Path(enabled')
<1>1. CASE on = hifi_dac_enabled
  BY <1>1 DEF IInv, TypeOK, AppliedIsKnown, PathFollowsProperty, SetParameters
<1>2. CASE on # hifi_dac_enabled
  BY <1>2 DEF IInv, TypeOK, AppliedIsKnown, SetParameters, SetOutputDevices, Apply, Path, Jack
<1> QED BY <1>1, <1>2

(* Every step keeps the invariant.                                          *)
LEMMA NextIInv == IInv /\ [Next]_vars => IInv'
<1> SUFFICES ASSUME IInv, [Next]_vars PROVE IInv'
  OBVIOUS
<1> USE DEF IInv
<1>1. ASSUME NEW u \in Usecase, NEW d \in Device, Route(u, d) PROVE IInv'
  <2>1. /\ hifi_dac_enabled' \in BOOLEAN /\ path' = Path(hifi_dac_enabled')
        /\ d = "headphones" => path' = Path(enabled')
        /\ d \notin Jack => path' = path
    BY <1>1, OutputDevices DEF Route, TypeOK
  <2>2. TypeOK'
    BY <1>1, <2>1 DEF Route, TypeOK, Path
  <2>3. PathFollowsProperty'
    <3>1. CASE d = "headphones"
      BY <2>1, <3>1 DEF PathFollowsProperty
    <3>2. CASE d \notin Jack
      BY <1>1, <2>1, <3>2 DEF Route, TypeOK, PathFollowsProperty, Playing, Jack
    <3>3. CASE d = "headset"
      BY <1>1, <3>3 DEF Route, TypeOK, PathFollowsProperty, Playing, Jack
    <3> QED BY <3>1, <3>2, <3>3 DEF Jack
  <2> QED BY <1>1, <2>1, <2>2, <2>3 DEF Route, DeadIsSilent, AppliedIsKnown
<1>2. CASE AudioDies
  BY <1>2 DEF AudioDies, TypeOK, DeadIsSilent, AppliedIsKnown, PathFollowsProperty,
              Playing, Silent, Device, Jack
<1>3. CASE AudioStarts
  BY <1>3 DEF AudioStarts, TypeOK, DeadIsSilent, AppliedIsKnown, PathFollowsProperty,
              Playing, Silent, Path
<1>4. CASE ServiceStarts
  <2>1. /\ enabled' \in BOOLEAN /\ hifi_dac_enabled' \in BOOLEAN
        /\ path' = Path(hifi_dac_enabled')
        /\ Playing => path' = Path(enabled')
    BY <1>4, Parameters DEF ServiceStarts, TypeOK
  <2> QED BY <1>4, <2>1 DEF ServiceStarts, TypeOK, DeadIsSilent, AppliedIsKnown,
                            PathFollowsProperty, Playing, Path
<1>5. ASSUME NEW on \in BOOLEAN, SetHifiDacState(on) PROVE IInv'
  <2>1. CASE audio /\ handle
    <3>1. SetParameters(on) /\ asked' = on /\ UNCHANGED <<service, handle, device, audio>>
      BY <1>5, <2>1 DEF SetHifiDacState
    <3>2. /\ enabled' \in BOOLEAN /\ hifi_dac_enabled' \in BOOLEAN
          /\ path' = Path(hifi_dac_enabled')
          /\ Playing => path' = Path(enabled')
      BY <2>1, <3>1, Parameters
    <3> QED BY <2>1, <3>1, <3>2 DEF TypeOK, DeadIsSilent, AppliedIsKnown,
                                    PathFollowsProperty, Playing, Path
  <2>2. CASE ~handle
    BY <1>5, <2>2 DEF SetHifiDacState, TypeOK, DeadIsSilent, AppliedIsKnown,
                      PathFollowsProperty, Playing
  <2> QED BY <2>1, <2>2 DEF TypeOK
<1>6. CASE UNCHANGED vars
  BY <1>6 DEF vars, TypeOK, DeadIsSilent, AppliedIsKnown, PathFollowsProperty, Playing
<1> QED BY <1>1, <1>2, <1>3, <1>4, <1>5, <1>6 DEF Next

(* Whatever plays on wired headphones plays on the path the property asks    *)
(* for, and the amplifier's flag is the path it applied.                     *)
THEOREM HeadphonesFollowProperty == Spec => [](PathFollowsProperty /\ AppliedIsKnown)
<1>1. IInv => PathFollowsProperty /\ AppliedIsKnown
  BY DEF IInv
<1> QED BY InitIInv, NextIInv, <1>1, PTL DEF Spec
=============================================================================
