--------------------------- MODULE CameraSession ---------------------------
(***************************************************************************)
(* CameraDeviceSession: between the framework, which opens a camera,       *)
(* configures streams, submits requests and closes it, and the camera HAL, *)
(* which returns buffers and metadata on threads of its own.               *)
(*                                                                         *)
(* The framework makes one call at a time.  What a call does under         *)
(* mInflightLock is one step.  What becomes of results on the way to the   *)
(* framework is the subject of ResultBatcher; here they arrive.            *)
(***************************************************************************)
EXTENDS Naturals, FiniteSets

CONSTANTS
  Stream,              \* ids of streams
  BufferId,            \* ids of buffers, per stream
  HalThread,           \* threads on which the HAL calls back
  mNumPartialResults,  \* parts of the metadata of a result
  MaxFrames,           \* bound on requests
  MaxConfigurations    \* bound on configurations

ASSUME SessionAssumption ==
  mNumPartialResults \in Nat \ {0} /\ {MaxFrames, MaxConfigurations} \subseteq Nat

VARIABLES
  life,            \* the session object: "none", "live" or "destroyed"
  mClosed, mInitFail, mFreeBufEarly, mFirstRequest,
  mStreamMap,                   \* the streams known
  mCirculatingBuffers,          \* stream -> ids of its imported buffers
  mInflightBuffers,
  mInflightAETriggerOverrides,  \* the frames with an override
  mInflightRawBoostPresent,     \* pairs of a frame and whether a part had the key
  call,            \* what the call of the framework does next, or "none"
  request,         \* the request it submits
  halOpen,         \* the device is open
  halFresh,        \* it has had no settings since it was configured
  held,            \* the buffers the HAL has
  part,            \* the next part of the metadata of each frame; 0 when none is owed
  boosted,         \* of these frames, those it reported the boost key of
  thread,          \* what each thread of the HAL does
  configured,      \* the framework: streams it may use,
  awaited, awaitedMetadata,  \* buffers and frames it waits for,
  seen, cancelled,  \* of the latter, where a part had the boost key, and it cancelled the AE precapture
  stranded,        \* frames refused after they were entered as in flight
  frame, configurations

stateVars == <<life, mClosed, mInitFail, mFreeBufEarly>>
streamVars == <<mStreamMap, mCirculatingBuffers, mFirstRequest>>
inflightVars == <<mInflightBuffers, mInflightAETriggerOverrides, mInflightRawBoostPresent>>
callVars == <<call, request>>
halVars == <<halOpen, halFresh, held, part, boosted>>
frameworkVars == <<configured, awaited, awaitedMetadata, seen, cancelled, stranded>>
bounds == <<frame, configurations>>
vars == <<stateVars, streamVars, inflightVars, callVars, halVars, thread, frameworkVars, bounds>>

Frame == 1 .. MaxFrames
Buffer == [stream : Stream, frame : Frame, buffer : BufferId]
NoRequest == [frame |-> 0, buffers |-> {}, settings |-> "null", physical |-> "fine"]
Request == [frame : Frame, buffers : SUBSET Buffer,
            settings : {"null", "plain", "cancel", "corrupt"}, physical : {"fine", "null", "corrupt"}]
IdleThread == [at |-> "idle", frame |-> 0, buffers |-> {}, part |-> 0,
               boost |-> FALSE, override |-> FALSE]
OfFrame(buffers, f) == {b \in buffers : b.frame = f}

(* Variables of a session that has just been constructed.                  *)
NewSession ==
  /\ mStreamMap' = {} /\ mCirculatingBuffers' = [s \in {} |-> {}]
  /\ mInflightBuffers' = {} /\ mInflightAETriggerOverrides' = {} /\ mInflightRawBoostPresent' = {}
  /\ mFirstRequest' = FALSE
  /\ halFresh' = FALSE /\ held' = {} /\ part' = [f \in Frame |-> 0]
  /\ configured' = {} /\ awaited' = {} /\ awaitedMetadata' = {}
  /\ boosted' = {} /\ seen' = {} /\ cancelled' = {} /\ stranded' = {}

Init ==
  /\ life = "none" /\ mClosed = TRUE /\ mInitFail = FALSE /\ mFreeBufEarly \in BOOLEAN
  /\ mStreamMap = {} /\ mCirculatingBuffers = [s \in {} |-> {}] /\ mFirstRequest = FALSE
  /\ mInflightBuffers = {} /\ mInflightAETriggerOverrides = {} /\ mInflightRawBoostPresent = {}
  /\ call = "none" /\ request = NoRequest
  /\ halOpen = FALSE /\ halFresh = FALSE /\ held = {} /\ part = [f \in Frame |-> 0] /\ boosted = {}
  /\ thread = [t \in HalThread |-> IdleThread]
  /\ configured = {} /\ awaited = {} /\ awaitedMetadata = {}
  /\ seen = {} /\ cancelled = {} /\ stranded = {}
  /\ frame = 0 /\ configurations = 0
-----------------------------------------------------------------------------
(* CameraDevice.open() with the constructor.  Who cannot initialise the     *)
(* device or make its queues is destroyed; the former has closed the device *)
(* already.                                                                 *)

(* Faulty: the device is closed, the session does not know.                 *)
InitializeFails_Unmarked == halOpen' = FALSE /\ mClosed' = FALSE

InitializeFails == halOpen' = FALSE /\ mClosed' = TRUE
QueueFails == halOpen' = TRUE /\ mClosed' = FALSE

(* open() looks for a session that is not closed.  One whose destructor is  *)
(* still closing it is not found: the HAL, whose device is open until then, *)
(* is taken to refuse a second one, which changes nothing.                  *)
MayReopen == life = "live" /\ mClosed /\ call = "none"

Open ==
  /\ life = "none" \/ MayReopen
  /\ NewSession
  /\ \/ life' = "live" /\ mInitFail' = FALSE /\ halOpen' = TRUE /\ mClosed' = FALSE
     \/ life' = "destroyed" /\ mInitFail' = TRUE /\ (InitializeFails \/ QueueFails)
  /\ UNCHANGED <<mFreeBufEarly, callVars, thread, frame, configurations>>

(* The object is kept while a call of it runs.                             *)
ClientDies ==
  /\ life = "live" /\ call = "none"
  /\ life' = "destroyed"
  /\ UNCHANGED <<mClosed, mInitFail, mFreeBufEarly, streamVars, inflightVars, callVars, halVars, thread,
                 frameworkVars, bounds>>

DestructorOfClosed ==
  /\ life = "destroyed" /\ mClosed
  /\ life' = "none"
  /\ UNCHANGED <<mClosed, mInitFail, mFreeBufEarly, streamVars, inflightVars, callVars, halVars, thread,
                 frameworkVars, bounds>>

(* close(), by the framework or the destructor.  When the HAL has closed    *)
(* the device none of its threads calls back any more.                      *)
CloseDevice ==
  /\ life # "none" /\ call = "none" /\ ~mClosed
  /\ \A t \in HalThread : thread[t] = IdleThread
  /\ halOpen' = FALSE /\ held' = {} /\ part' = [f \in Frame |-> 0] /\ boosted' = {}
  /\ awaited' = {} /\ awaitedMetadata' = {} /\ seen' = {} /\ cancelled' = {} /\ configured' = {}
  /\ call' = "free"
  /\ UNCHANGED <<stateVars, streamVars, inflightVars, request, halFresh, thread, stranded, bounds>>

FreeBuffers ==
  /\ call = "free"
  /\ mCirculatingBuffers' = [s \in {} |-> {}]
  /\ mClosed' = TRUE /\ call' = "none"
  /\ UNCHANGED <<life, mInitFail, mFreeBufEarly, mStreamMap, mFirstRequest, inflightVars, request, halVars,
                 thread, frameworkVars, bounds>>
-----------------------------------------------------------------------------
(* configureStreams(): mInflightLock is held throughout.                   *)

InitStatusOK == ~mInitFail /\ ~mClosed
MayCall == life = "live" /\ call = "none" /\ InitStatusOK

(* Faulty: buffers in flight do not stand in the way.                       *)
NothingInflight_Unchecked == mInflightAETriggerOverrides = {} /\ mInflightRawBoostPresent = {}

NothingInflight ==
  mInflightBuffers = {} /\ mInflightAETriggerOverrides = {} /\ mInflightRawBoostPresent = {}

AddStreams(caches, streams) ==
  [s \in DOMAIN caches \cup streams |-> IF s \in DOMAIN caches THEN caches[s] ELSE {}]
CleanupBuffers(caches, streams) == [s \in DOMAIN caches \ streams |-> caches[s]]

(* A known stream changed: the streams before it were added.               *)
ChangedStream(streams) ==
  /\ streams \cap mStreamMap # {}
  /\ \E new \in SUBSET (streams \ mStreamMap) :
       /\ mStreamMap' = mStreamMap \cup new
       /\ mCirculatingBuffers' = AddStreams(mCirculatingBuffers, new)
  /\ configured' = {}
  /\ UNCHANGED <<mFirstRequest, halFresh>>

(* Faulty: the streams that stay have no caches.                            *)
FailedCaches_NotRebuilt(streams, removed) ==
  LET added == AddStreams(mCirculatingBuffers, streams) IN
  IF mFreeBufEarly THEN CleanupBuffers(added, removed) ELSE added

(* The caches after a configuration the HAL refused: where they were freed  *)
(* early the streams that stay have empty ones.                             *)
FailedCaches(streams, removed) ==
  LET added == AddStreams(mCirculatingBuffers, streams) IN
  IF mFreeBufEarly THEN AddStreams(CleanupBuffers(added, removed), removed) ELSE added

HalRefusesStreams(streams) ==
  /\ mStreamMap' = mStreamMap \cup streams
  /\ mCirculatingBuffers' = FailedCaches(streams, mStreamMap \ streams)
  /\ configured' = {}
  /\ UNCHANGED <<mFirstRequest, halFresh>>

(* Faulty: the requested streams are erased, not the others.                *)
KeepStreams_Inverted(streams) ==
  /\ mStreamMap' = mStreamMap \ streams
  /\ mCirculatingBuffers' = CleanupBuffers(AddStreams(mCirculatingBuffers, streams), streams)

KeepStreams(streams) ==
  /\ mStreamMap' = streams
  /\ mCirculatingBuffers' = CleanupBuffers(AddStreams(mCirculatingBuffers, streams), mStreamMap \ streams)

HalTakesStreams(streams) ==
  KeepStreams(streams) /\ configured' = streams /\ halFresh' = TRUE /\ mFirstRequest' = TRUE

ConfigureStreams(streams) ==
  /\ MayCall /\ NothingInflight /\ configurations < MaxConfigurations
  /\ configurations' = configurations + 1
  /\ ChangedStream(streams) \/ HalRefusesStreams(streams) \/ HalTakesStreams(streams)
  /\ UNCHANGED <<stateVars, inflightVars, callVars, halOpen, held, part, boosted, thread, awaited,
                 awaitedMetadata, seen, cancelled, stranded, frame>>
-----------------------------------------------------------------------------
(* processCaptureRequest(), of one request; a burst is a series of them     *)
(* that ends with the first one refused.                                    *)

Outputs(f) ==
  {bs \in SUBSET [stream : configured, frame : {f}, buffer : BufferId] :
     /\ bs # {}
     /\ \A b1, b2 \in bs : b1.stream = b2.stream => b1 = b2
     /\ \A b \in bs, a \in awaited : <<b.stream, b.buffer>> # <<a.stream, a.buffer>>}

(* updateBufferCaches().  The framework removes no buffer it waits for.     *)
UpdateBufferCaches(removed) ==
  mCirculatingBuffers' =
    [s \in DOMAIN mCirculatingBuffers |-> {b \in mCirculatingBuffers[s] : <<s, b>> \notin removed}]
Removable ==
  SUBSET {c \in Stream \X BufferId : \A a \in awaited : c # <<a.stream, a.buffer>>}

SettingsRefused(r) == r.settings = "corrupt" \/ (mFirstRequest /\ r.settings = "null")
PhysicalRefused(r) == r.physical = "corrupt" \/ (mFirstRequest /\ r.physical = "null")

BeginRequest(settings, physical) ==
  /\ MayCall /\ frame < MaxFrames
  /\ frame' = frame + 1
  /\ \E removed \in Removable : UpdateBufferCaches(removed)
  /\ \E bs \in Outputs(frame + 1) :
       LET r == [frame |-> frame + 1, buffers |-> bs, settings |-> settings, physical |-> physical] IN
       IF SettingsRefused(r)
         THEN UNCHANGED <<callVars, awaited, awaitedMetadata, cancelled>>
         ELSE /\ request' = r /\ call' = "import"
              /\ awaited' = awaited \cup bs /\ awaitedMetadata' = awaitedMetadata \cup {r.frame}
              /\ cancelled' = IF settings = "cancel" THEN cancelled \cup {r.frame} ELSE cancelled
  /\ UNCHANGED <<stateVars, mStreamMap, mFirstRequest, inflightVars, halVars, thread, configured, seen,
                 stranded, configurations>>

(* The framework does not wait for the metadata of a frame any more.       *)
MetadataIsOver(f) ==
  /\ awaitedMetadata' = awaitedMetadata \ {f}
  /\ seen' = seen \ {f} /\ cancelled' = cancelled \ {f}

RequestFails ==
  /\ call' = "none" /\ request' = NoRequest
  /\ awaited' = awaited \ request.buffers
  /\ MetadataIsOver(request.frame)

Import(buffers) ==
  mCirculatingBuffers' =
    [s \in DOMAIN mCirculatingBuffers |->
       mCirculatingBuffers[s] \cup {b.buffer : b \in {b \in buffers : b.stream = s}}]

(* importRequest(): what was imported before it failed is kept.            *)
ImportRequest ==
  /\ call = "import"
  /\ \/ Import(request.buffers) /\ call' = "record"
        /\ UNCHANGED <<request, awaited, awaitedMetadata, seen, cancelled>>
     \/ (\E done \in SUBSET request.buffers : Import(done)) /\ RequestFails
  /\ UNCHANGED <<stateVars, mStreamMap, mFirstRequest, inflightVars, halVars, thread, configured,
                 stranded, bounds>>

RecordRequest ==
  /\ call = "record"
  /\ mInflightBuffers' = mInflightBuffers \cup request.buffers
  /\ mInflightAETriggerOverrides' =
       mInflightAETriggerOverrides \cup (IF request.settings = "cancel" THEN {request.frame} ELSE {})
  /\ IF PhysicalRefused(request)
       THEN RequestFails /\ stranded' = stranded \cup {request.frame}
       ELSE call' = "submit" /\ UNCHANGED <<request, awaited, awaitedMetadata, seen, cancelled, stranded>>
  /\ UNCHANGED <<stateVars, streamVars, mInflightRawBoostPresent, halVars, thread, configured, bounds>>

HalTakesRequest ==
  /\ call = "submit"
  /\ held' = held \cup request.buffers
  /\ part' = [part EXCEPT ![request.frame] = 1]
  /\ halFresh' = FALSE
  /\ call' = "taken"
  /\ UNCHANGED <<stateVars, streamVars, inflightVars, request, halOpen, boosted, thread, frameworkVars, bounds>>

EndRequest ==
  /\ call = "taken"
  /\ mFirstRequest' = FALSE
  /\ call' = "none" /\ request' = NoRequest
  /\ UNCHANGED <<stateVars, mStreamMap, mCirculatingBuffers, inflightVars, halVars, thread, frameworkVars, bounds>>

(* Faulty: the override stays.                                             *)
UndoRequest_KeepsOverride ==
  /\ mInflightBuffers' = mInflightBuffers \ request.buffers
  /\ UNCHANGED mInflightAETriggerOverrides

UndoRequest ==
  /\ mInflightBuffers' = mInflightBuffers \ request.buffers
  /\ mInflightAETriggerOverrides' = mInflightAETriggerOverrides \ {request.frame}

HalRefusesRequest ==
  /\ call = "submit"
  /\ UndoRequest
  /\ RequestFails
  /\ UNCHANGED <<stateVars, streamVars, mInflightRawBoostPresent, halVars, thread, configured, stranded,
                 bounds>>
-----------------------------------------------------------------------------
(* The HAL: it returns each buffer once and the parts of the metadata of a  *)
(* frame in order, one after the other.  One part may have the boost key.   *)

MetadataFree(f) == \A t \in HalThread : thread[t].frame = f => thread[t].part = 0 /\ thread[t].at # "error"
OwesPart(f) == part[f] \in 1 .. mNumPartialResults /\ MetadataFree(f)
NextPart(f) == IF part[f] = mNumPartialResults THEN 0 ELSE part[f] + 1

HalResult(t, f) ==
  /\ halOpen /\ thread[t] = IdleThread
  /\ \E bs \in SUBSET OfFrame(held, f), p \in {0, part[f]} :
       /\ bs # {} \/ p # 0
       /\ p # 0 => OwesPart(f)
       /\ \E key \in {FALSE, p # 0 /\ f \notin boosted} :
            /\ thread' = [thread EXCEPT ![t] = [at |-> "check", frame |-> f, buffers |-> bs, part |-> p,
                                                boost |-> key, override |-> FALSE]]
            /\ boosted' = IF p = mNumPartialResults THEN boosted \ {f}
                          ELSE IF key THEN boosted \cup {f} ELSE boosted
       /\ held' = held \ bs
       /\ part' = IF p = 0 THEN part ELSE [part EXCEPT ![f] = NextPart(f)]
  /\ UNCHANGED <<stateVars, streamVars, inflightVars, callVars, halOpen, halFresh, frameworkVars, bounds>>

(* ERROR_REQUEST or ERROR_RESULT: the rest of the metadata is not sent.     *)
HalError(t, f) ==
  /\ halOpen /\ thread[t] = IdleThread /\ OwesPart(f)
  /\ thread' = [thread EXCEPT ![t] = [IdleThread EXCEPT !.at = "error", !.frame = f]]
  /\ part' = [part EXCEPT ![f] = 0] /\ boosted' = boosted \ {f}
  /\ UNCHANGED <<stateVars, streamVars, inflightVars, callVars, halOpen, halFresh, held, frameworkVars, bounds>>
-----------------------------------------------------------------------------
(* sProcessCaptureResult() with constructCaptureResult(), sNotify().       *)

(* A result with a buffer that is not in flight is dropped.                *)
CheckInflight(t) ==
  /\ thread[t].at = "check"
  /\ thread' = [thread EXCEPT ![t] = IF thread[t].buffers \subseteq mInflightBuffers
                                       THEN [@ EXCEPT !.at = IF thread[t].part = 0 THEN "erase" ELSE "metadata"]
                                       ELSE IdleThread]
  /\ UNCHANGED <<stateVars, streamVars, inflightVars, callVars, halVars, frameworkVars, bounds>>

BoostSeen(f) == <<f, TRUE>> \in mInflightRawBoostPresent
WithoutFrame(f) == {x \in mInflightRawBoostPresent : x[1] # f}

(* Faulty: what earlier parts had is not looked at.                         *)
AddBoost_Forgets(t) == ~thread[t].boost

(* The last part gets the boost key when no part had it.                   *)
AddBoost(t) == ~thread[t].boost /\ ~BoostSeen(thread[t].frame)

NoteBoost(t) ==
  LET f == thread[t].frame IN
  mInflightRawBoostPresent' =
    WithoutFrame(f) \cup
      (IF thread[t].part = mNumPartialResults THEN {} ELSE {<<f, thread[t].boost \/ BoostSeen(f)>>})

(* Faulty: the override ends with the first part.                           *)
EndOverride_Early(t) == {thread[t].frame}

EndOverride(t) == IF thread[t].part = mNumPartialResults THEN {thread[t].frame} ELSE {}

OverrideMetadata(t) ==
  /\ thread[t].at = "metadata"
  /\ NoteBoost(t)
  /\ mInflightAETriggerOverrides' = mInflightAETriggerOverrides \ EndOverride(t)
  /\ thread' = [thread EXCEPT ![t] =
       [thread[t] EXCEPT !.at = "erase",
                         !.boost = @ \/ (thread[t].part = mNumPartialResults /\ AddBoost(t)),
                         !.override = thread[t].frame \in mInflightAETriggerOverrides]]
  /\ UNCHANGED <<stateVars, streamVars, mInflightBuffers, callVars, halVars, frameworkVars, bounds>>

(* Faulty: all buffers of the frame are taken to have come.                 *)
Erased_Frame(t) == OfFrame(mInflightBuffers, thread[t].frame)

Erased(t) == thread[t].buffers

EraseInflight(t) ==
  /\ thread[t].at = "erase"
  /\ mInflightBuffers' = mInflightBuffers \ Erased(t)
  /\ thread' = [thread EXCEPT ![t].at = "deliver"]
  /\ UNCHANGED <<stateVars, streamVars, mInflightAETriggerOverrides, mInflightRawBoostPresent, callVars,
                 halVars, frameworkVars, bounds>>

Noticed(t) ==
  /\ seen' = IF thread[t].boost THEN seen \cup {thread[t].frame} ELSE seen
  /\ UNCHANGED <<awaitedMetadata, cancelled>>

Arrives(t) ==
  /\ awaited' = awaited \ thread[t].buffers
  /\ IF thread[t].part = mNumPartialResults THEN MetadataIsOver(thread[t].frame) ELSE Noticed(t)

(* A result with metadata of a physical camera that is not there is dropped *)
(* at this point: nothing is in flight any more, the framework waits on.    *)
Dropped(t) == thread[t].part # 0 /\ Noticed(t) /\ UNCHANGED awaited

Deliver(t) ==
  /\ thread[t].at = "deliver"
  /\ Arrives(t) \/ Dropped(t)
  /\ thread' = [thread EXCEPT ![t] = IdleThread]
  /\ UNCHANGED <<stateVars, streamVars, inflightVars, callVars, halVars, configured, stranded, bounds>>

(* An error of a stream that is not known (any more) is dropped: what was   *)
(* noted of the frame stays.                                                *)
DropError(t) ==
  /\ thread[t].at = "error"
  /\ thread' = [thread EXCEPT ![t] = IdleThread]
  /\ UNCHANGED <<stateVars, streamVars, inflightVars, callVars, halVars, frameworkVars, bounds>>

NotifyError(t) ==
  /\ thread[t].at = "error"
  /\ mInflightAETriggerOverrides' = mInflightAETriggerOverrides \ {thread[t].frame}
  /\ mInflightRawBoostPresent' = WithoutFrame(thread[t].frame)
  /\ thread' = [thread EXCEPT ![t].at = "deliver error"]
  /\ UNCHANGED <<stateVars, streamVars, mInflightBuffers, callVars, halVars, frameworkVars, bounds>>

DeliverError(t) ==
  /\ thread[t].at = "deliver error"
  /\ MetadataIsOver(thread[t].frame)
  /\ thread' = [thread EXCEPT ![t] = IdleThread]
  /\ UNCHANGED <<stateVars, streamVars, inflightVars, callVars, halVars, configured, awaited, stranded, bounds>>

Next ==
  \/ Open \/ ClientDies \/ DestructorOfClosed \/ CloseDevice \/ FreeBuffers
  \/ \E streams \in SUBSET Stream \ {{}} : ConfigureStreams(streams)
  \/ \E settings \in {"null", "plain", "cancel", "corrupt"}, physical \in {"fine", "null", "corrupt"} :
       BeginRequest(settings, physical)
  \/ ImportRequest \/ RecordRequest \/ HalTakesRequest \/ HalRefusesRequest \/ EndRequest
  \/ \E t \in HalThread, f \in Frame : HalResult(t, f) \/ HalError(t, f)
  \/ \E t \in HalThread :
       \/ CheckInflight(t) \/ OverrideMetadata(t) \/ EraseInflight(t) \/ Deliver(t)
       \/ NotifyError(t) \/ DropError(t) \/ DeliverError(t)

Spec == Init /\ [][Next]_vars
-----------------------------------------------------------------------------
TypeOK ==
  /\ life \in {"none", "live", "destroyed"}
  /\ {mClosed, mInitFail, mFreeBufEarly, mFirstRequest, halOpen, halFresh} \subseteq BOOLEAN
  /\ mStreamMap \subseteq Stream /\ configured \subseteq mStreamMap
  /\ DOMAIN mCirculatingBuffers \subseteq Stream
  /\ \A s \in DOMAIN mCirculatingBuffers : mCirculatingBuffers[s] \subseteq BufferId
  /\ mInflightBuffers \subseteq Buffer /\ held \subseteq Buffer /\ awaited \subseteq Buffer
  /\ mInflightAETriggerOverrides \subseteq Frame
  /\ mInflightRawBoostPresent \subseteq Frame \X BOOLEAN
  /\ call \in {"none", "free", "import", "record", "submit", "taken"}
  /\ request \in Request \cup {NoRequest}
  /\ part \in [Frame -> 0 .. mNumPartialResults] /\ boosted \subseteq Frame
  /\ thread \in [HalThread -> [at : {"idle", "check", "metadata", "erase", "deliver", "error", "deliver error"},
                               frame : Frame \cup {0}, buffers : SUBSET Buffer,
                               part : 0 .. mNumPartialResults, boost : BOOLEAN, override : BOOLEAN]]
  /\ awaitedMetadata \subseteq Frame /\ stranded \subseteq Frame
  /\ seen \subseteq awaitedMetadata /\ cancelled \subseteq awaitedMetadata
  /\ frame \in 0 .. MaxFrames /\ configurations \in 0 .. MaxConfigurations

(* Buffers on their way back that are still entered as in flight.          *)
Returning == UNION {thread[t].buffers : t \in {t \in HalThread : thread[t].at \in {"check", "metadata", "erase"}}}

(* "Free inflight record [...] before call back to camera service because   *)
(* camera service might jump to configure_streams right after": when the    *)
(* framework has all it waits for nothing stands in the way of a            *)
(* configuration, but for a request refused for its physical settings.      *)
IdleIsEmpty ==
  MayCall /\ awaited = {} /\ awaitedMetadata = {} =>
    /\ \A b \in mInflightBuffers : b.frame \in stranded
    /\ mInflightAETriggerOverrides \subseteq stranded
    /\ mInflightRawBoostPresent = {}

(* What is in flight while the device is open is what the HAL has, returns  *)
(* or is being given; or it was refused for its physical settings.          *)
InflightIsOwed ==
  halOpen =>
    /\ held \cup Returning \subseteq mInflightBuffers
    /\ \A b \in mInflightBuffers \ (held \cup Returning) :
         b.frame \in stranded \/ (call = "submit" /\ b \in request.buffers)

(* A buffer that the HAL has, or that is being returned or submitted, is    *)
(* imported: configurations, removed caches and close() free no such one.   *)
HalBuffersAreImported ==
  \A b \in held \cup Returning \cup (IF call \in {"record", "submit"} THEN request.buffers ELSE {}) :
    b.stream \in DOMAIN mCirculatingBuffers /\ b.buffer \in mCirculatingBuffers[b.stream]

(* Every stream has a cache, so that cleanupBuffersLocked(), which takes    *)
(* mCirculatingBuffers.at(id), finds it: through failed configurations, early *)
(* freeing and requests.                                                    *)
StreamsHaveCaches == life = "live" /\ InitStatusOK /\ call # "free" => mStreamMap = DOMAIN mCirculatingBuffers

(* The first request the HAL gets after a configuration has settings.      *)
FirstHasSettings == call = "submit" /\ halFresh => request.settings # "null" /\ request.physical # "null"

(* The framework sees in each part of the result the AE trigger it asked    *)
(* for, not the one the HAL was given.                                      *)
AskedIsShown ==
  \A t \in HalThread :
    thread[t].at = "deliver" /\ thread[t].part # 0 => (thread[t].override <=> thread[t].frame \in cancelled)

(* The boost key is in exactly one part of a result on its way to the       *)
(* framework: the one the HAL put it in, or else the last.  When that part  *)
(* is dropped for a wrong physical camera no other gets it.                 *)
BoostOnce ==
  \A t \in HalThread :
    thread[t].at = "deliver" =>
      /\ thread[t].boost => thread[t].frame \notin seen
      /\ thread[t].part = mNumPartialResults => thread[t].boost \/ thread[t].frame \in seen

(* The device is open exactly while its session has not been closed,        *)
(* whichever way it ends; then all buffers are freed.  (That no session is  *)
(* opened while the last one is being destroyed is left to the HAL: Open.)  *)
ClosedIsReleased ==
  /\ call # "free" => (halOpen <=> ~mClosed)
  /\ mClosed => mCirculatingBuffers = [s \in {} |-> {}]
  /\ life = "none" => mClosed

=============================================================================
