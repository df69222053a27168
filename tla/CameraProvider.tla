--------------------------- MODULE CameraProvider ---------------------------
(***************************************************************************)
(* CameraProvider: the list of cameras between the camera module, which    *)
(* reports cameras that come and go on a thread of its own, and the camera *)
(* service of the framework, which connects, asks for the list, is told of *)
(* changes, and may die and connect again.                                 *)
(*                                                                         *)
(* mCbLock makes the status callback and setCallback() one step each;      *)
(* initialize() and getCameraIdList() do not take it.                      *)
(***************************************************************************)
EXTENDS Naturals, Sequences, FiniteSets, SequencesExt

CONSTANTS
  Camera,        \* camera ids
  Legacy,        \* the cameras the module counts when it is loaded
  Blacklisted,   \* the ids in vendor.camera.provider.blacklist_ids
  MaxChanges,    \* bound on the changes of cameras
  MaxDeaths      \* bound on the deaths of the camera service

ASSUME ProviderAssumption ==
  /\ IsFiniteSet(Camera) /\ Legacy \subseteq Camera /\ Blacklisted \subseteq Camera
  /\ MaxChanges \in Nat /\ MaxDeaths \in Nat

VARIABLES
  camera,    \* the state of each camera
  news,      \* the status callbacks the module has still to make
  changes, deaths,
  init,      \* initialize(): "start", "blacklist", "cameras", then "up" or "failed"
  left,      \* the cameras its loop has still to add
  mBlacklistedCameraIds, mLegacyCameras, mCameraStatusMap,
  mCameraDeviceNames,   \* the cameras that have a name
  mCallbacks,           \* "null", "live", or "dead": the camera service died
  service,   \* the camera service: "down", "connected", "listing", "up"
  torn,      \* names changed while getCameraIdList() walked over them
  reports,   \* what it was told and has not looked at yet
  view,      \* the state of each camera as it believes
  unsure,    \* cameras whose last news initialize() overwrote or that it skipped
  crashed

halVars == <<camera, news, changes>>
initVars == <<init, left, mBlacklistedCameraIds, mLegacyCameras, unsure>>
listVars == <<mCameraStatusMap, mCameraDeviceNames>>
serviceVars == <<service, deaths, torn, view>>
vars == <<halVars, initVars, listVars, mCallbacks, serviceVars, reports, crashed>>

Status == {"PRESENT", "NOT_PRESENT", "ENUMERATING"}
External == Camera \ Legacy

Init ==
  /\ camera \in [Camera -> {"PRESENT", "NOT_PRESENT"}]
  /\ \A c \in Legacy : camera[c] = "PRESENT"
  /\ news = <<>> /\ changes = 0 /\ deaths = 0
  /\ init = "start" /\ left = {} /\ unsure = {}
  /\ mBlacklistedCameraIds = {} /\ mLegacyCameras = {}
  /\ mCameraStatusMap = [c \in {} |-> "PRESENT"]
  /\ mCameraDeviceNames = {}
  /\ mCallbacks = "null"
  /\ service = "down" /\ torn = FALSE
  /\ reports = <<>> /\ view = [c \in Camera |-> "NOT_PRESENT"]
  /\ crashed = FALSE
-----------------------------------------------------------------------------
(* initialize(), in the constructor.  Once it has the callbacks the module  *)
(* tells of the external cameras that are there.                            *)

(* The module cannot be loaded or does not take the callbacks.              *)
NoModule ==
  /\ init = "start"
  /\ init' = "failed"
  /\ UNCHANGED <<halVars, left, mBlacklistedCameraIds, mLegacyCameras, unsure, listVars, mCallbacks,
                 serviceVars, reports, crashed>>

SetCallbacks ==
  /\ init = "start"
  /\ init' = "blacklist"
  /\ news' = SetToSeq({<<c, "PRESENT">> : c \in {c \in External : camera[c] = "PRESENT"}})
  /\ UNCHANGED <<camera, changes, left, mBlacklistedCameraIds, mLegacyCameras, unsure,
                 listVars, mCallbacks, serviceVars, reports, crashed>>

ReadBlacklist ==
  /\ init = "blacklist"
  /\ mBlacklistedCameraIds' = Blacklisted
  /\ init' = "cameras" /\ left' = Legacy
  /\ UNCHANGED <<halVars, mLegacyCameras, unsure, listVars, mCallbacks, serviceVars, reports, crashed>>

Hidden(c) == c \in mBlacklistedCameraIds
SetStatus(c, s) ==
  mCameraStatusMap' = [x \in DOMAIN mCameraStatusMap \cup {c} |->
                         IF x = c THEN s ELSE mCameraStatusMap[x]]

(* Faulty: the camera gets a name and no status.                            *)
AddLegacyCamera_NoStatus(c) ==
  /\ init = "cameras" /\ c \in left /\ ~Hidden(c)
  /\ left' = left \ {c}
  /\ mLegacyCameras' = mLegacyCameras \cup {c}
  /\ mCameraDeviceNames' = mCameraDeviceNames \cup {c}
  /\ UNCHANGED <<halVars, init, mBlacklistedCameraIds, unsure, mCameraStatusMap, mCallbacks, serviceVars,
                 reports, crashed>>

AddLegacyCamera(c) ==
  /\ init = "cameras" /\ c \in left
  /\ left' = left \ {c}
  /\ IF Hidden(c)
       THEN UNCHANGED <<mLegacyCameras, listVars>>
       ELSE /\ mLegacyCameras' = mLegacyCameras \cup {c}
            /\ SetStatus(c, "PRESENT")
            /\ mCameraDeviceNames' = mCameraDeviceNames \cup {c}
  /\ UNCHANGED <<halVars, init, mBlacklistedCameraIds, unsure, mCallbacks, serviceVars, reports, crashed>>

(* The module cannot describe a camera: it is skipped when a property says  *)
(* so, or initialize() fails and lets go of the module.                     *)
LegacyCameraFails(c) ==
  /\ init = "cameras" /\ c \in left /\ ~Hidden(c)
  /\ left' = left \ {c} /\ unsure' = unsure \cup {c}
  /\ \/ init' = "cameras" /\ UNCHANGED mLegacyCameras
     \/ init' = "failed" /\ mLegacyCameras' \in {mLegacyCameras, mLegacyCameras \cup {c}}
  /\ UNCHANGED <<halVars, mBlacklistedCameraIds, listVars, mCallbacks, serviceVars, reports, crashed>>

InitializeReturns ==
  /\ init = "cameras" /\ left = {}
  /\ init' = "up"
  /\ UNCHANGED <<halVars, left, mBlacklistedCameraIds, mLegacyCameras, unsure, listVars, mCallbacks,
                 serviceVars, reports, crashed>>
-----------------------------------------------------------------------------
(* The module.                                                             *)

Change(c, s) ==
  /\ init \notin {"start", "failed"} /\ changes < MaxChanges /\ camera[c] # s
  /\ camera' = [camera EXCEPT ![c] = s]
  /\ news' = Append(news, <<c, s>>)
  /\ changes' = changes + 1
  /\ UNCHANGED <<initVars, listVars, mCallbacks, serviceVars, reports, crashed>>

Told(r) == reports' = IF mCallbacks = "live" THEN reports \o r ELSE reports
NamesChange(names) ==
  /\ mCameraDeviceNames' = names
  /\ torn' = (torn \/ (service = "listing" /\ names # mCameraDeviceNames))

(* A camera that goes away is reported twice, before and after its name is  *)
(* removed.                                                                 *)
StatusChange(c, s) ==
  LET found == c \in mCameraDeviceNames IN
  IF s # "NOT_PRESENT"
    THEN NamesChange(mCameraDeviceNames \cup {c}) /\ Told(<<<<c, s>>>>)
    ELSE /\ NamesChange(mCameraDeviceNames \ {c})
         /\ Told(IF found THEN <<<<c, s>>, <<c, s>>>> ELSE <<>>)

(* initialize() will set the status of a camera it has still to add.         *)
Overwritten(c) == c \in Legacy /\ (init = "blacklist" \/ c \in left)

(* sCameraDeviceStatusChange().  To add or remove a name it asks the module, *)
(* which is gone when initialize() failed.                                   *)
StatusCallback ==
  /\ news # <<>>
  /\ news' = Tail(news)
  /\ LET c == Head(news)[1]
         s == Head(news)[2]
     IN  IF Hidden(c)
           THEN UNCHANGED <<listVars, torn, reports, unsure, crashed>>
           ELSE /\ SetStatus(c, s)
                /\ unsure' = IF Overwritten(c) THEN unsure \cup {c} ELSE unsure \ {c}
                /\ IF mCallbacks = "null"
                     THEN UNCHANGED <<mCameraDeviceNames, torn, reports, crashed>>
                     ELSE /\ StatusChange(c, s)
                          /\ crashed' = (init = "failed" /\ mCameraDeviceNames' # mCameraDeviceNames)
  /\ UNCHANGED <<camera, changes, init, left, mBlacklistedCameraIds, mLegacyCameras, mCallbacks,
                 service, deaths, view>>

(* The callback and initialize() use the maps at the same time.              *)
CallbackCrashes ==
  /\ news # <<>> /\ init \in {"blacklist", "cameras"}
  /\ crashed' = TRUE
  /\ UNCHANGED <<halVars, initVars, listVars, mCallbacks, serviceVars, reports>>
-----------------------------------------------------------------------------
(* The camera service.  It puts off what it is told until it has the list.  *)

Reported == {c \in DOMAIN mCameraStatusMap :
               c \notin mLegacyCameras /\ mCameraStatusMap[c] # "NOT_PRESENT"}

(* Faulty: external cameras are only named, not reported.                   *)
SetCallback_Silent ==
  /\ mCallbacks' = "live"
  /\ mCameraDeviceNames' = mCameraDeviceNames \cup Reported
  /\ UNCHANGED reports

SetCallback ==
  /\ mCallbacks' = "live"
  /\ mCameraDeviceNames' = mCameraDeviceNames \cup Reported
  /\ reports' = SetToSeq({<<c, mCameraStatusMap[c]>> : c \in Reported})

(* The service is registered whether initialize() succeeded or not; to give *)
(* a camera a name setCallback() asks the module, which may be gone.        *)
Connect ==
  /\ init \in {"up", "failed"} /\ service = "down"
  /\ SetCallback
  /\ service' = "connected"
  /\ crashed' = (init = "failed" /\ Reported # {})
  /\ UNCHANGED <<halVars, initVars, mCameraStatusMap, deaths, torn, view>>

(* notifyDeviceStateChange() passes a state on to the module.               *)
NotifyDeviceStateChange ==
  /\ service = "connected"
  /\ IF init = "failed" THEN crashed' = TRUE /\ UNCHANGED service
                        ELSE service' = "listing" /\ UNCHANGED crashed
  /\ UNCHANGED <<halVars, initVars, listVars, mCallbacks, deaths, torn, reports, view>>

CameraIdList == {c \in mCameraDeviceNames \cap mLegacyCameras : mCameraStatusMap[c] = "PRESENT"}

(* getCameraIdList(): the list of a walk that was disturbed is not known.   *)
GetCameraIdList ==
  /\ service = "listing"
  /\ \E list \in IF torn THEN SUBSET mLegacyCameras ELSE {CameraIdList} :
       view' = [c \in Camera |-> IF c \in list THEN "PRESENT" ELSE "NOT_PRESENT"]
  /\ service' = "up"
  /\ UNCHANGED <<halVars, initVars, listVars, mCallbacks, deaths, torn, reports, crashed>>

WalkCrashes ==
  /\ service = "listing" /\ torn
  /\ crashed' = TRUE
  /\ UNCHANGED <<halVars, initVars, listVars, mCallbacks, serviceVars, reports>>

ReadReport ==
  /\ service = "up" /\ reports # <<>>
  /\ view' = [view EXCEPT ![Head(reports)[1]] = Head(reports)[2]]
  /\ reports' = Tail(reports)
  /\ UNCHANGED <<halVars, initVars, listVars, mCallbacks, service, deaths, torn, crashed>>

ServiceDies ==
  /\ service # "down" /\ deaths < MaxDeaths
  /\ service' = "down" /\ mCallbacks' = "dead" /\ deaths' = deaths + 1
  /\ torn' = FALSE /\ reports' = <<>>
  /\ view' = [c \in Camera |-> "NOT_PRESENT"]
  /\ UNCHANGED <<halVars, initVars, listVars, crashed>>

(* getCameraDeviceInterface() succeeds.                                    *)
GetCameraDeviceInterface(c) == c \in mCameraDeviceNames

Step ==
  \/ NoModule \/ SetCallbacks \/ ReadBlacklist \/ InitializeReturns
  \/ \E c \in Camera : AddLegacyCamera(c) \/ LegacyCameraFails(c)
  \/ \E c \in Camera, s \in Status : Change(c, s)
  \/ StatusCallback \/ CallbackCrashes
  \/ Connect \/ NotifyDeviceStateChange \/ GetCameraIdList \/ WalkCrashes \/ ReadReport \/ ServiceDies

Next == ~crashed /\ Step
Spec == Init /\ [][Next]_vars
-----------------------------------------------------------------------------
TypeOK ==
  /\ camera \in [Camera -> Status] /\ view \in [Camera -> Status]
  /\ news \in Seq(Camera \X Status) /\ reports \in Seq(Camera \X Status)
  /\ changes \in 0 .. MaxChanges /\ deaths \in 0 .. MaxDeaths
  /\ init \in {"start", "blacklist", "cameras", "up", "failed"}
  /\ left \subseteq Legacy /\ unsure \subseteq Camera
  /\ mBlacklistedCameraIds \subseteq Blacklisted /\ mLegacyCameras \subseteq Legacy
  /\ DOMAIN mCameraStatusMap \subseteq Camera
  /\ \A c \in DOMAIN mCameraStatusMap : mCameraStatusMap[c] \in Status
  /\ mCameraDeviceNames \subseteq DOMAIN mCameraStatusMap
  /\ mCallbacks \in {"null", "live", "dead"}
  /\ service \in {"down", "connected", "listing", "up"}
  /\ torn \in BOOLEAN /\ crashed \in BOOLEAN

Settled == init = "up" /\ service = "up" /\ news = <<>> /\ reports = <<>>

(* When all news has arrived the camera service believes exactly those      *)
(* cameras to be present that are, through any changes before, while and    *)
(* after it connects, and any deaths of it.  It may not for a camera that   *)
(* initialize() skipped or whose news it overwrote, nor when the list was   *)
(* walked over while it changed.  What it believes to be present it can open.*)
ViewIsRight ==
  Settled /\ ~torn =>
    /\ \A c \in Camera \ (unsure \cup Blacklisted) : view[c] = "PRESENT" <=> camera[c] = "PRESENT"
    /\ \A c \in Camera : view[c] = "PRESENT" => GetCameraDeviceInterface(c)

=============================================================================
