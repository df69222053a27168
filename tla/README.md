# TLA+ models of the LGE hardware HALs

The repository holds the hardware services of LG devices: HALs (services that
the Android framework calls through binder or hwbinder, and that in turn call a
vendor library or the kernel) and one settings app.  This directory models the
parts that have concurrency, failures or state that must stay related, checks
them with TLC and proves the central invariants with TLAPS.

## The system

| Part | State it keeps | Operations | Talks to |
|---|---|---|---|
| Camera session, `aidl/camera/device/CameraDeviceSession.*` | streams, buffers in flight, imported buffers per stream, first-request and closed/disconnected flags, result queues | `configureStreams`, `processCaptureRequest`, `flush`, `signalStreamFlush`, `close`, callbacks of the HAL | camera HAL (calls and callbacks from its threads), framework callback |
| `ResultBatcher`, inside the session | deque of batches in flight, what each one holds back | `registerBatch`, `notify`, `processCaptureResult` | called by the session, calls the framework |
| Camera device, `CameraDevice.cpp` | the session handed out, whether the device is connected | `open`, `setTorchMode`, status changes | camera module, session |
| Camera provider, `aidl/camera/provider` | camera ids and status, device names, callback | `setCallback`, `getCameraIdList`, `getCameraDeviceInterface`, status callback | camera module, framework |
| Sensors, `sensors/Sensor.cpp` | enabled, mode, stop flag, wait pipe, one thread | `activate`, `setOperationMode`, `flush`, destructor | sysfs attribute of the touch driver, sensors framework |
| Fingerprint, `hidl/biometrics/fingerprint` | the vendor's device, client callback, `hbmFodEnabled`; the panel keeps a state of its own | `setNotify`, `enroll`, `authenticate`, `cancel`, `onFingerDown`, `onFingerUp` on one binder thread, `notify()` on the library's threads | vendor library, sysfs files of the panel, framework |
| Amplifier, `amplifier/amplifier.c` | path of the headphones, speaker feedback | `set_output_devices`, `set_parameters`, `set_feedback` | audio HAL (called under its lock), mixer, a persistent property |
| DAC service, `interfaces/hardware/audio/dac/control/2.0/default` | nothing of its own: sysfs attributes of the driver and persistent properties | `setFeatureValue`, custom filter settings, `setHifiDacState` | driver, properties, audio HAL |
| DAC settings app, `dac_panel` | preferences shown | enable, choose a value, reset | DAC service |
| Radio proxy, `hidl/radio` | the vendor's radio, the framework's functions, the last registration (`mRat`, `mDataRoaming`) | IRadio 1.0 - 1.5 requests, responses, indications, `setResponseFunctions` | vendor radio, LGE radio, telephony framework (one-way calls on all sides) |
| Vibrator, `aidl/vibrator` | none (driver) | `on`, `off`, `perform`, amplitude | sysfs or input effects |
| Lights, `aidl/light` | last state per light | `setLightState` | sysfs |
| Live display, touch | none | one attribute per call | sysfs |

What is hard in it: callbacks of the camera HAL on several threads against the
binder thread that submits; a lock that is released and taken again in the
middle of an operation; a thread that sleeps in `poll()` and is to be woken by
another one; constructors and destructors that race a thread they started;
services that die and find driver, properties and peers in another state;
requests of which some steps fail; requests and answers of six interface versions
that must meet under one serial number.  `PROJECT.json` lists these hazards line by
line and says which properties are about them.

## Modules

| Module | Models |
|---|---|
| `CameraSession` | the session: opening, configurations, requests, imported buffers, results and errors, closing |
| `ResultBatcher` | the batcher, with HAL threads, the binder thread, three kinds of locks, errors and the timed lock |
| `FrameResults` | abstract: what a session promises about the results of its requests |
| `SessionResults` | the batcher as an implementation of `FrameResults` (`INSTANCE ... WITH`) |
| `OneShotSensor` | the polling one-shot sensor: its thread, its callers, construction and destruction |
| `HifiDac` | the switch of the DAC: property, amplifier, audio HAL, service, user |
| `DacControl` | the settings of the DAC: service, driver, properties, settings app, deaths and reboots |
| `CameraProvider` | the list of cameras between the camera module and a camera service that may die |
| `RadioProxy` | the radio of one slot between a framework and a vendor of an older version, both of which may die |
| `RadioValues` | the arguments the radio proxy translates, there and back |
| `Fingerprint` | the reader under the display: calls, messages, and the lit spot of the panel |
| `...Proofs` | theorems about the module of that name |
| `MC...` | values of constants for TLC |

### CameraSession

The framework makes one call at a time; `call` is what it does next.  What the
code does under one hold of `mInflightLock` is one step, so that
`configureStreams()`, which keeps the lock throughout, is one step with its three
ends (`ChangedStream`, `HalRefusesStreams`, `HalTakesStreams`), and a request is
`BeginRequest` (caches removed, settings read), `ImportRequest`, `RecordRequest`
(entered as in flight, physical settings read), `HalTakesRequest` or
`HalRefusesRequest`, `EndRequest`; each may fail.  The HAL may call back before
`EndRequest`.  A result is `CheckInflight`, `OverrideMetadata`, `EraseInflight` (three
holds of the lock) and `Deliver`, which drops one with metadata of a wrong physical camera
after its records are gone; an error is `NotifyError` and `DeliverError`, or
`DropError` for a stream that is not known.  The framework waits on for what is dropped.

`mInflightBuffers` is a set of stream, frame and buffer; an input buffer is one
more buffer.  `mCirculatingBuffers` has per stream the ids of the imported buffers:
a handle is freed where the id is removed.  Both kinds of overrides are modelled,
as on a device of version 3.2 with a derived boost key; a newer device has fewer.
A burst is a series of requests that ends with the first one refused;
`registerBatch()` belongs to `ResultBatcher`.  The framework may configure at any
time between its calls, uses only streams of a successful configuration, and
neither reuses nor removes a buffer it waits for.  The HAL returns each buffer
once, the parts of the metadata in order, and has no thread left in a callback
when it has closed the device.  It also refuses to open a device that is open: `open()`
does not find a session whose destructor is still closing it (`CameraDevice.cpp:276`).

### ResultBatcher

A burst of several requests is registered as an *inflight batch*.  Shutters,
metadata and the buffers of the batched (video) streams of its frames are held
back (`queue`) until the one of the last frame comes, which sends up its class
(`delivered`); once all classes are sent the batch leaves the deque `inflight`.
An error sends up and removes every batch up to the one of the failed frame.

A HAL thread's call is a program: `Enter` (`getBatch` under `mLock`), `LockBatch`
(queue or send, under the lock of the batch; `removed` means fall back to a
single call), the framework calls it collected (`CallNotify`,
`BeginResultCall`/`EndResultCall` under `mProcessCaptureResultLock`, or
`TimeoutResultCall`), `Release`, `LockForCheck`, `RemoveFirstBatch`.  The error
path is `LockForError`, `FlushFirstBatch` for each counted batch, `SendError`.
Locks are variables, so a lock order that deadlocks would be found.  Reading an
element of an empty deque is undefined and taken to kill the process
(`FlushNothing`).

Data is an *item*, a class (shutter, n-th part of the metadata, buffer of a
stream) and a frame.  The HAL is external: it reports, per class, in frame
order, an item only when the calls for the items before it have returned.  An
error may make it give up the metadata, or metadata and shutter, of the frame.
`processCaptureRequest()` registers a burst only after the HAL has it, so that the HAL may
report on it first.  What it reports then goes up unbatched, and the batch counts as if
it were still to come: its buffers are numbered by position and may be relabelled, its
last items may stay held back, it may stay in the deque.  `early` is a history variable, the
batches this happened to; `Ahead` bounds it for TLC.  The properties except these batches and
no others.
`physicalCameraMetadata` is not modelled; a call with nothing in it is skipped.

### FrameResults and SessionResults

The contract: frames are accepted in order; every item owed is sent at most
once, under the number of its own frame, after the items of its class in earlier
frames and the earlier parts of its metadata; items the HAL gives up are not
owed; again and again everything owed is sent.  `sent` is mapped to what the
framework `received`, errors aside.  `ResultsUntilDisturbed` says that every step is one of
the contract until the first error, given-up call or report on a batch before its
registration; `ResultsSpec` adds that without any of these all that is owed is sent.  An
error lets a later item overtake what another thread is still sending of a
batch it flushed, a given-up call never sends, and an early report relabels.

### OneShotSensor

`run` is the thread's position in `SysfsPollingOneShotSensor::run()`, `pipe` the
bytes in the wait pipe, `fired` the pending `POLLPRI` of the attribute.  The
mutex is held in single steps except where its holder can block: in
`postEvents()` and in the write to a full pipe inside `activate()`.  `start` says
how the construction went: the thread is started by the base-class constructor,
so it may run the base class's `run()`, see an uninitialised `mStopThread`, or the
files may not open.

### HifiDac

`enabled` is the property; `hifi_dac_enabled` what the amplifier believes;
`path` what the mixer has.  A handler of the amplifier is one step because the
audio HAL calls it with its device lock held.  Audio HAL and service may die at
any time and come back; the property survives.  The audio HAL is taken to start
with the mixer on its default paths, and a service that uses a device of a dead
audio HAL to die in the call.  A headset (or a line) has the sound device of headphones, which
`set_output_devices()` tests, but is not the audio device for which `set_parameters()`
switches at once; the jack holds one plug, which is out for a while before it is of
another kind.  Combined devices (speaker and headphones) and
speaker feedback are not modelled.

### DacControl

A call of the service is a sequence of writes (attribute, then property; for the
custom filter property, then attribute), each of which may fail, and between
which the service may die or the device reboot.  The constructor and
`QuadDAC.enable()` re-apply what is saved.  The app makes its calls on one
thread.  Driver defaults are zero; the sound presets of the proprietary build are
not modelled.

### CameraProvider

`mCbLock` makes the status callback and `setCallback()` one step each.
`initialize()` takes no lock and is several steps (`SetCallbacks`, `ReadBlacklist`,
one `AddLegacyCamera` per camera), between which the module may already call
back.  `getCameraIdList()` takes no lock either: a walk over names that change is
undefined, and may crash or yield any list of legacy cameras.  `news` holds the
callbacks the module has still to make, `reports` what the camera service was
told before it had the list, `view` what it believes.  The module and the camera
service are external: the first reports every change in order, the second
connects, passes the device state, asks for the list and then reads its reports.
After a failed `initialize()` the module is gone, and what still uses it crashes:
`setCallback()` with an external camera to name (`Connect`), the status callback,
`notifyDeviceStateChange()`.

### RadioProxy and RadioValues

A request or answer under way is one message in `flying`, with its serial number
and where it is: at the proxy, being translated (`reading`), with the vendor,
`answered`, or being stored (`storing`).  All the calls are one-way, so each side
handles one at a time, but requests and answers are handled at the same time: the two
values that `setupDataCall_1_4()` adds from `RadioResponse` are read in one step each,
in any order, and `getDataRegistrationStateResponse()` stores them in one step each.

The 172 methods of `Radio` differ in their way only, which is data: `Responses` (the versions of
a response), `RaisedTo` (the version an older response is forwarded as), `Older` (the older
methods a request may be passed on as), `Lossy` (those whose arguments may not fit).
`PassOn`, `Translate`, `Drop` and `Refuse` are the ends a method may have; `Passed`
picks the newest method the vendor has, as the macros do.  A vendor that died
answers no cast (`Casts`), until `serviceDied()` ends the proxy and `init` starts it
again (`ProxyRestarts`).  `setResponseFunctions()` is its five assignments, in order.

External: the framework uses a serial number again only when nothing is under way
for it; the vendor answers what it was asked once, with a response of its version
at least as new as the method; a framework that was not the one to ask ignores an
answer it does not know.  An old framework's call of `setResponseFunctions()` may
still run when the next one makes its own: the two then overlap, and whose
functions are set is anybody's guess.  `HeardByTheLiving`, `NoneForgotten` and
`EveryoneAnswered` except this one case (`overlap`).

Registration answers are numbered.  `StoreRoaming` and `StoreRat` store every one, as the
code does, with or without an error; `failed` are the numbers of those with an error,
whose values are of no report.  The process may end at any time, for a null interface
(`ILgeRadio::getService()` without an LGE radio, `castFrom()` of functions whose framework
died): `ProxyRestarts`, which is forced only after the vendor's death.

`RadioValues` has the two tables of network types (the `switch` of
`setPreferredNetworkTypeBitmap()` and the one of `getPreferredNetworkTypeResponse()`),
the carrier restrictions and the protocol strings.  `SetIsAnswered` says that the
way back undoes the way there, for every combination of groups of bits with none,
one or all of their bits.

### Fingerprint

The service has one binder thread (`service.cpp`), the library calls `notify()` from
threads of its own.  `pc` says what each is about to do.  The statements of
`enableHighBrightFod()` and `disableHighBrightFod()` are steps of their own under
`mSetHbmFodMutex`, since `cancel()` and `notify()` read `hbmFodEnabled` without it.
The flag has no initial value and is either; `written` says whether it has been
assigned since the service started.  The panel belongs to the kernel and keeps its
state when the service dies.

External: the framework sets its client before it calls anything else, and calls
`onFingerDown()` and `onFingerUp()` only while an operation it started runs (`MayCall`); the
library is then open.  `DeviceIsThere` rests on that for these two calls, since
`enableHighBrightFod()` and `disableHighBrightFod()` use `mDevice` without a look at it
(`:428`, `:441`); for `cancel()`, which looks, it rests on the code.  The framework calls
`onFingerUp()` once the finger is lifted.

## Runs

| Run | Instance | Shows |
|---|---|---|
| `CameraSession` | any number of sessions, 2 threads, 2 streams of 1 buffer, 2 requests, 2 configurations, metadata in 2 parts | when the framework has everything no configuration is refused; what is in flight is with the HAL; no buffer the HAL may use is freed; every stream has a cache; overrides are undone in every result, and one part has the boost key; the device is closed once, whichever way the session ends |
| `ResultBatcher_errors` | 2 threads, 2 batches of 2 frames, 1 error, reports on the first batch before its registration | removed batches are empty, nothing is held back or left over at the end, labels are right, an error comes after the batches it ends: in every batch but one reported on too early |
| `ResultBatcher_early` | 1 batch, metadata in 2 parts, 1 error, reports before registration, framework calls over a second | every owed item is in exactly one place; the batcher implements `FrameResults` until the first error, report before registration or call given up |
| `SessionResults_fair` | a batch and a single request, a batched and an unbatched stream, none of these disturbances | the batcher implements `FrameResults`, liveness included |
| `ResultBatcher_stale_index` | as `_errors`, no early reports | **violation**: the error path counts batches, releases `mLock`, and pops that many later |
| `OneShotSensor` | 2 callers, pipe of 3 bytes, every outcome of the construction | one event per activation, no lost wake-up, presses reported, calls return, a disabled sensor can be destroyed |
| `HifiDac_route` | 3 use cases | what plays on wired headphones plays on the path the property asks for |
| `DacControl_settings` | 2 features, 1 coefficient, 3 calls, deaths or reboots | at rest the driver has what is saved; re-applying settings changes none |
| `DacControl_shape` | 1 feature | **violation**: re-applying the shape of the custom filter moves it on |
| `CameraProvider_view` | 2 legacy cameras (one blacklisted), 1 external, 3 changes, 1 death | after everything is delivered the camera service believes what is true and can open what it believes to be there |
| `RadioProxy` | 2 serial numbers, one method of each kind, vendors of 1.0 and 1.2, 2 frameworks, 1 registration answer | one answer for each serial number, in the version the framework counts on, to the living framework; nothing forgotten that could be passed on; data calls with a registration answer no older than the report the framework knew; what is set on an old vendor is what it answers |
| `Fingerprint` | 2 threads of the library, 2 frameworks | `cancel()` leaves the panel dark, the library is never called unopened, a lit panel is darkened again |

In `CameraSession` one kind of request is excepted: one refused for its physical
settings stays in flight for ever (`stranded`), since
`processOneCaptureRequest()` has entered its buffers before it reads those
settings; the properties say that nothing else does.  `ViewIsRight` excepts
blacklisted cameras: the module may call back before `initialize()` has read the
blacklist, and the camera is then reported as an external one.

The batcher's properties except the batches the HAL reported on before they were
registered (`early`), and only these; `AccountedOnce` and `RemovedBatchIsEmpty` except nothing.
`LabelledByFrame` does fail for such a batch (a buffer reported early is sent at once, and
the ones held back are then numbered by position from the first frame on), and so
does `NothingHeldBack` (an early shutter of the last frame never triggers the flush).

Three things the code's own comments promise do not hold, and are stated in the modules
without a run:

- Destroying an enabled sensor can hang in `join()`.  `~SysfsPollingOneShotSensor()`
  (`Sensor.cpp:261`-`263`) writes its byte before `~Sensor()` sets `mStopThread`; the thread
  may take the byte, find nothing to stop for and go back to `poll()`, where nobody
  wakes it.  `OneShotSensor` has it as `JoinReturns`; the run has `JoinReturnsWhenDisabled`.
- `hifi_dac=off` is refused as "already disabled!" (`amplifier.c:267`-`268`) while the
  property is on and nothing has played since the audio HAL started: the amplifier
  compares with the path it applied last.  `HifiDac` has it as `AskedIsEnabled`.
- "If this was triggered during playback, switch immediately!" (`amplifier.c:284`) is not
  done for a stream on a headset: line 287 looks for wired headphones, line 185 for their
  sound device, which headsets and lines share.  Such a stream keeps its path
  until it is routed again; in `HifiDac`, `SetParameters` with a use case on "headset".

In `RadioProxy`, `getDataRegistrationStateResponse()` stores roaming and technology without
looking at `info.error` (`RadioResponse.cpp:154`, `:825`): after a failed answer an older data
call carries the values of none, although the framework keeps its last report.
`FreshRegistration` says that this is the only way to values older than what the
framework knew.  Requests of a vendor too old for them are dropped without an answer
where the code says "TODO implement", `emergencyDial()` among them; `NoneForgotten`
and `EveryoneAnswered` say that these are the only ones.  In `Fingerprint`, the first touch
after a start stays dark when `hbmFodEnabled` happens to be true, and a panel lit by a service
or for a framework that died stays lit until the next touch or call: the properties hold
from the first assignment of the flag on, and `LightEnds` for a living framework.

Bounds.  Two threads are enough for every race between two calls (a lock has one
holder and one waiter); two batches for a deque whose head is not the batch of
the call; two frames for "last" and "not last".  `MaxErrors` = 1: one error ends
all batches up to its frame.  `Ahead` = {1}: the first batch is reported on too early, the
second shows that others are not disturbed by it.  The pipe of 3 bytes lets two callers and the
destructor write, and lets it fill.  `MaxEvents` = 3 in `DacControl` is a choice of
the user, then a death or reboot, then another choice or `enable()`.
`CameraSession`: two frames overlap on two threads, also with a configuration
between them, and a part of the metadata that is not the last; threads and streams
are symmetric.  Three changes let a camera come, go and come back around a connection.
`RadioProxy`: two serial numbers let a data call overtake a registration request; the four
methods stand for one response that stores, a request with an argument that may not
fit, one that is translated with both values, and one that is refused; a vendor of 1.0 makes
the proxy add both values, one of 1.2 only the roaming; one answer, good or failed, is older or
newer than the data call (what several do is left to the theorem); the second framework is the one that may
overlap with the first.  The theorems have no such bounds.  `Fingerprint`: two threads of the
library, one of which waits for a mutex the other holds.
`CHECK_DEADLOCK FALSE` is set for `DacControl`, `CameraProvider`,
`RadioProxy` and `Fingerprint`, where the bounded events end.

Fairness.  `ResultBatcher`: only that the system does not stop while it can take a
step; bursts and errors being finite, every step is progress.  `OneShotSensor`:
strong fairness of the thread, of each call and of the destructor, because a
step that needs `mRunMutex` is enabled and disabled as others take it, and a
waiter of a mutex that is free again and again gets it.  The driver, the
callers, a failing `poll()` and spurious wake-ups are never forced.  `RadioProxy`:
strong fairness of the work on each serial number, which binder threads do in turn
with others and a vendor that lives its share of; weak fairness of each statement of
`setResponseFunctions()` and of the restart by `init`; deaths are never forced, nor is any request.
`Fingerprint`: strong fairness of the handlers and of the switching, since mutexes are
free again and again, and of the framework's `onFingerUp()`, which must find the
binder thread idle; no message and no other call is forced.

## Proofs

Each `...Proofs` module proves an inductive invariant `IInv` for every value of the
constants, one step per action.

- `ResultBatcherProofs`: `TypeCorrect`, `RemovedBatchesAreEmpty` and
  `EveryItemIsAccountedFor`, whatever the HAL, errors and timeouts do.  That a removed
  batch holds nothing needs why `AllDelivered` implies empty queues: a class that is
  delivered is not queued any more.  That in turn needs the order of the HAL
  (`SubmittedOnly`, `ReportedInOrder`: at most one call of a class is under way, in
  frame order), what a call between its two locks may still queue (`Queueing`), and
  that a class is sent by its last frame only (`SentIsOver`, `SentIsNotHeld`).
  `AccountedOnce` needs in addition what every thread is about at each step (`Phase`), the
  order of the deque (`Deque`), and that no two calls of a thread carry the same class
  (`Families`).  `Ledger` is the invariant: each item owed has exactly one place.  The
  functions that send a batch are reduced to one form first (`Sends`: empty the queues
  of some classes into one call), so that a step moves an item from one place to the next
  (`Kept`) and an item elsewhere stays where it is (`Own`, `Elsewhere`).
  Its second part has `BuffersAreLabelled`, `FlushBeforeError`, `EverythingIsSent` and
  `EveryBatchLeaves`, for any HAL.
  The steps are reduced to a few kinds (`StepKinds`, `Quiet`).  `Waits` says that the HAL has
  all of the burst being submitted left to report unless it is in `early`, and a batch in
  `early` stays there (`EarlyGrows`); every batch holds items of its own frames only (`HeldOwn`).
  `BuffersAreLabelled`: what any other batch
  holds of a stream are its first frames without a gap, and the others are still to
  come (`Numbered`).  `FlushBeforeError`: the loop of an error counts as far as the
  batch of its frame (`ErrorsInTurn`).  `EverythingIsSent`: a registered batch has sent a
  class, gets the item of its last frame, or is about to be sent by the loop of an error
  (`Completes`, `Doomed`).  `EveryBatchLeaves`: without errors a class that was sent is over
  up to the last frame (`DeliveredIsOver`), so a batch that completes is at the head
  when the thread that completed it looks (`Checked`), unless one in `early` is before it
  (`Blocked`, which stays so).
  `ImplementsFrameResults` is the refinement: as long as the state is `Undisturbed`, `Submit` is
  `Accept`, a call into the framework is `Send`, and every other step is a stutter.  A call is
  due to an item its thread reports (`Told`, `Cause`).  What comes before the item
  it sends is then not with the HAL any more (`CallsHaveCause`), not held by a batch
  (`NotHeld`: the batch would still wait for the end of the class, though the call ended the
  class for good), not in the calls of another thread (`NotCalledElsewhere`), and if
  in its own, in the same call; so it was received (`InOrder`).
- `OneShotSensorProofs`: `SensorTypeCorrect`, `NoLostWakeup`, `OneEventPerActivation`,
  for any number of callers and size of the pipe.  `ArmedThread` says what the
  thread knew when it left the lock; `ReportedByte` that only the thread empties
  the pipe; the two halves of `SleepsThroughNothing`, `PollIsInterrupted` and
  `WaiterIsWoken`, are inductive with them.
- `HifiDacProofs`: `HeadphonesFollowProperty`, for any set of use cases, from
  `AppliedIsKnown` and "a dead audio HAL plays nothing" (`DeadIsSilent`).
- `CameraSessionProofs`: `TypeOK`, `InflightIsOwed`, `HalBuffersAreImported`,
  `StreamsHaveCaches`, `FirstHasSettings` and `ClosedIsReleased` of the session, for
  any streams, buffers, threads and numbers of requests.  They are inductive together
  with: nothing else is of the frame of a request being submitted (`Frames`), so that
  undoing it takes nothing from others; the HAL returns no buffer twice (`Apart`); the
  framework waits for whatever the session holds (`Awaited`), so that no cache it
  removes is in use; and one thread at a time has metadata of a frame (`Parts`).  The
  nine steps of the HAL's threads are reduced to four kinds first (`Cases`).
  A second invariant, `Notes`, gives `IdleIsEmpty`, `AskedIsShown` and `BoostOnce`:
  while a frame is owed and no thread has metadata of it, what the session has noted of
  it, what the framework saw and what the HAL reported agree (`FrameNotes`); a thread's
  part differs from that by what the thread did already (`ThreadNotes`); nothing is noted
  of a frame before its request is recorded (`RequestNotes`).  A step is about one frame
  (`About`), so that only this frame and this thread need an argument (`NotesKept`).
- `RadioProxyProofs`: `TypeOK`, `AnsweredOnce`, `NoneForgotten`, `FreshRegistration`,
  `HeardByTheLiving`, `AnsweredInKind` and `SetIsAnswered`, for any methods, vendors, serial numbers, reports and frameworks.
  `FreshRegistration` needs why what is read is never older than what the framework
  heard: answers are stored one at a time and before they are forwarded (`Newest`), none
  with an error is a report the framework took (`Failures`), a
  vendor older than 1.2 always reports the technology (`RatIsStored`), and only such a
  vendor is given one (`RatIsForTheOldest`); `Reading` carries that through the
  translation.  `HeardByTheLiving` rests on how far the living framework's call has got
  (`Registered`) and on nobody asking before it returned (`Askers`).  The eight steps
  that move a message from one place to the next are reduced to one (`Becomes`).
  A second invariant, `InKind`, gives `AnsweredInKind`: on its way to the vendor a request
  is the method the framework called or one the table `Older` has for it (`Suits`), and
  whatever response the vendor has for such an older method goes back as one new enough
  (`OlderAnswersSuit`, entry by entry).  `SetIsAnswered` is about the tables alone: the
  type a vendor is told and the one it answers stand for the same groups (`BitmapIsCase`),
  and the bits asked for complete to exactly the groups they are of (`CompletedIsGroups`),
  so that no combination has to be enumerated.
- `FingerprintProofs`: `TypeOK`, `FlagIsPanel`, `CancelLeavesDark` and `DeviceIsThere`, for any
  number of threads of the library.  The mutex is held by whoever switches (`Switching`),
  who switches only what the flag says is the other way (`FlagSaysOther`), and
  how far it got is known (`HalfWay`); a thread that may call the library has one (`Devices`).
- `DacControlProofs`: `TypeOK`, `DriverHasSettings` and `SettingsSurvive`, for any features,
  coefficients, choices, failures, deaths and reboots.  The writes left are those of one
  call, with the attribute first (`Queues`), and a feature or a custom filter whose attribute
  is behind what is saved has a call or a write coming (`FeaturesFollow`,
  `CustomFollows`); at rest none is coming.  For `SettingsSurvive` the invariant `Keeps`
  says that every call or write that is coming leaves its setting as it is, unless the user
  chose it or it is the shape; re-applying reads each saved value once, after the
  writes of the call before.
- `CameraProviderProofs`: `TypeOK` and `ViewIsRight`, for any cameras, changes and deaths of
  the camera service.  Each queue of news is read by its last entry for a camera: what
  the module has still to report ends in the truth (`NewsIsTrue`), the provider's map is
  the truth unless news is coming (`MapFollows`), so are its names (`NamesFollow`), and
  the camera service's view is the map unless its reports end otherwise (`ViewFollows`).

Assumptions are those on the constants (`ConstantsAssumption`, `SensorAssumption`,
`SessionAssumption`, `RadioAssumption`: a method that is called exists, so that it has a response
of its version or an older one; `FingerprintAssumption`, `ProviderAssumption`: cameras
are finitely many, since the list of them is a sequence; `DacAssumption`: no coefficient has
the name of another setting).  Only model-checked:
liveness and the fair specifications, with the half of `FrameResults` that says that all
owed is sent again and again.  `ImplementsFrameResults`
ends with the first error, given-up call or early report, since the contract does not
hold from there on; what does hold then is in the other theorems.

## Not modelled, and why

- Torch status, vendor tags, stream-configuration metadata, default settings: nothing
  the properties distinguish depends on them.
- `flush()` and `signalStreamFlush()`: they only pass a call on.
  `setConnectionStatus()` and `disconnect()`: never called.
- Live display and touch HALs: one attribute per call, no state to relate.
- The records of cells, signals and data calls that `Helpers.cpp` converts: constants are
  filled in, nothing is decided.  `LgeRadioResponseV2`: its methods are empty, and the
  proxy makes no request of the LGE radio; of `LgeRadioIndicationV2` only
  `lgeCurrentSignalStrength()` does anything.
- The error and acquisition codes of the fingerprint library: a translation of numbers.
- The speaker feedback of the amplifier (`start_feedback`, `stop_feedback`): `usecase_tx`
  points to freed memory after a failed start, but both functions assign it before they
  use it.  `physicalCameraMetadata` of a batched result, which is never sent.  Values of DAC
  features out of range: what the driver makes of them is not known.
- `SensorsSubHal`: a table look-up in front of `OneShotSensor`.
- The build system, SELinux policy, resources and proprietary presets.

## Plan

In this order; `PROJECT.json` marks as "partly" or "not_modelled" what is open.

1. The session composed with `ResultBatcher` through `registerBatch()` and
   `notify()`; `signalStreamFlush()` against `configureStreams()`; several
   `CameraDevice` objects of one camera.
2. `Vibrator`, `Lights`, the speaker feedback of the amplifier: small modules.
