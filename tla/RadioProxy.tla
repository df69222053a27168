----------------------------- MODULE RadioProxy -----------------------------
(***************************************************************************)
(* Radio, RadioResponse, RadioIndication: the IRadio 1.5 service of one    *)
(* SIM slot, which stands between the telephony framework and the vendor's *)
(* radio of an older version 1.v.  A request goes on to the vendor as it   *)
(* is, as an older method, or is refused or dropped; the vendor's answer,  *)
(* with the same serial number, goes back as the newest response that says *)
(* the same.                                                               *)
(*                                                                         *)
(* All calls but setResponseFunctions() are one-way: requests are handled  *)
(* one at a time, answers one at a time, and both at the same time.  When  *)
(* the vendor dies the proxy ends itself and is started again; the         *)
(* framework may die and a new one sets its functions.                     *)
(***************************************************************************)
EXTENDS Integers, FiniteSets, FiniteSetsExt, RadioValues

CONSTANTS
  Serial,        \* serial numbers in use at a time
  Asked,         \* the methods the framework calls: records [name, version]
  Vendor,        \* versions v the vendor's radio may have
  MaxReports,    \* bound on registration answers in one life of the proxy
  MaxFrameworks  \* bound on the frameworks, one after the other

VARIABLES
  version,    \* the vendor's radio is an IRadio 1.version
  vendorUp,
  framework,  \* the framework now alive: 1, 2, ...
  request,    \* what the framework waits for under each serial number
  known,      \* the last registration report it heard: answers are numbered, and
              \*   a report is an answer without an error
  flying,     \* the calls and answers under way, each in one place
  setting,    \* how far setResponseFunctions() of each framework has got, 0..5
  overlap,    \* two calls of it ran at the same time
  realResponse, realIndication,  \* whose functions they are, 0 when null
  mLgeRadioIndication,           \* for whom it was made
  lgeListener,                   \* for whom the one the LGE radio calls was made
  connected,  \* the vendor's radio has the functions of the proxy
  misled,     \* a framework that has died was told instead of the living one
  mRat, mDataRoaming,  \* the answer they are taken from, 0 at first
  reports,    \* registration answers handled in this life of the proxy
  failed      \* those of them with an error: their values are of no report

pointers == <<realResponse, realIndication, mLgeRadioIndication, lgeListener, connected>>
stored == <<mRat, mDataRoaming, reports, failed>>
others == <<framework, setting, overlap>>
vars == <<version, vendorUp, others, request, known, flying, pointers, misled, stored>>

NotSent == [name |-> "none"]
Unread == -1
Framework == 1..MaxFrameworks

(* The versions there are of a response, by the name of its method; the    *)
(* methods left out have one version and go through like dial.             *)
Responses ==
  [getIccCardStatus |-> {0, 2, 4, 5}, getCurrentCalls |-> {0, 2},
   getSignalStrength |-> {0, 2, 4}, getVoiceRegistrationState |-> {0, 2, 5},
   getDataRegistrationState |-> {0, 2, 4, 5}, setupDataCall |-> {0, 4, 5},
   getDataCallList |-> {0, 4, 5}, setPreferredNetworkType |-> {0, 4},
   getPreferredNetworkType |-> {0, 4}, getCellInfoList |-> {0, 2, 4, 5},
   setInitialAttachApn |-> {0, 5}, setDataProfile |-> {0, 5},
   setAllowedCarriers |-> {0, 4}, getAllowedCarriers |-> {0, 4},
   setIndicationFilter |-> {0, 5}, setSimCardPower |-> {0, 1},
   setRadioPower |-> {0, 5}, setNetworkSelectionModeManual |-> {0, 5},
   startNetworkScan |-> {1, 4, 5}, setCarrierInfoForImsiEncryption |-> {1},
   stopNetworkScan |-> {1}, startKeepalive |-> {1}, stopKeepalive |-> {1},
   setSignalStrengthReportingCriteria |-> {2, 5},
   setLinkCapacityReportingCriteria |-> {2, 5},
   setSystemSelectionChannels |-> {3, 5}, enableModem |-> {3},
   getModemStackStatus |-> {3}, emergencyDial |-> {4},
   enableUiccApplications |-> {5}, areUiccApplicationsEnabled |-> {5},
   getBarringInfo |-> {5}, sendCdmaSmsExpectMore |-> {5},
   supplySimDepersonalization |-> {5}, deactivateDataCall |-> {0}, dial |-> {0}]

ASSUME RadioAssumption ==
  /\ Asked \subseteq [name : DOMAIN Responses, version : 0..5]
  /\ \A m \in Asked : \E r \in Responses[m.name] : r <= m.version
  /\ Vendor \subseteq 0..5
  /\ MaxReports \in Nat /\ MaxFrameworks \in Nat \ {0}

(* An older response goes on under this version; the others as they came.  *)
RaisedTo ==
  [getIccCardStatus |-> 4, getCurrentCalls |-> 2, getSignalStrength |-> 4,
   getVoiceRegistrationState |-> 2, getDataRegistrationState |-> 4,
   setupDataCall |-> 4, getDataCallList |-> 4, setPreferredNetworkType |-> 4,
   getPreferredNetworkType |-> 4, getCellInfoList |-> 4,
   setAllowedCarriers |-> 4, getAllowedCarriers |-> 4, setSimCardPower |-> 1,
   startNetworkScan |-> 4]

(* Faulty: setSimCardPowerResponse() is forwarded as it is. *)
Raised_AsItIs(n, v) ==
  IF n # "setSimCardPower" /\ n \in DOMAIN RaisedTo /\ v < RaisedTo[n] THEN RaisedTo[n] ELSE v

Raised(n, v) == IF n \in DOMAIN RaisedTo /\ v < RaisedTo[n] THEN RaisedTo[n] ELSE v

(* The response a caller of method 1.v may count on.                       *)
Paired(n, v) == Max({r \in Responses[n] : r <= v})

(* <<method, version, older version it may be passed on as>>.              *)
Older ==
  {<<"setSimCardPower", 1, 0>>, <<"setIndicationFilter", 2, 0>>,
   <<"deactivateDataCall", 2, 0>>, <<"getSignalStrength", 4, 0>>,
   <<"setupDataCall", 4, 2>>, <<"setupDataCall", 4, 0>>,
   <<"setInitialAttachApn", 4, 0>>, <<"setDataProfile", 4, 0>>,
   <<"startNetworkScan", 4, 2>>, <<"startNetworkScan", 4, 1>>,
   <<"getPreferredNetworkType", 4, 0>>, <<"setPreferredNetworkType", 4, 0>>,
   <<"setAllowedCarriers", 4, 0>>, <<"getAllowedCarriers", 4, 0>>}

(* Those whose argument the older method may not be able to say: power on  *)
(* in pass-through, no persistent profile, a list of excluded carriers.    *)
Lossy == {"setSimCardPower", "setDataProfile", "setAllowedCarriers"}

(* How request r goes on to a vendor of version 1.v: as the newest of its  *)
(* methods the vendor has, if any.                                         *)
Passed(r, v) ==
  IF r.version <= v THEN {r.version}
  ELSE LET old == {o \in 0..v : <<r.name, r.version, o>> \in Older}
       IN  IF old = {} \/ (r.name \in Lossy /\ ~r.fits) THEN {} ELSE {Max(old)}

Refused(r, v) == r.version = 5 /\ v < 5

(* What the proxy adds to an older data call out of its own memory.        *)
Added(r, o) ==
  IF o >= r.version THEN {}
  ELSE CASE r.name = "setupDataCall" -> IF o = 0 THEN {"rat", "roaming"} ELSE {"roaming"}
         [] r.name \in {"setInitialAttachApn", "setDataProfile"} -> {"roaming"}
         [] OTHER -> {}

Sent(s) == request[s] # NotSent
Free(s) == ~Sent(s) /\ \A x \in flying : x.serial # s
Moved(x, y) == flying' = (flying \ {x}) \cup {y}
Idle(places) == \A x \in flying : x.at \notin places

Message(s, at, v) ==
  [serial |-> s, at |-> at, version |-> v, left |-> {}, rat |-> Unread,
   roaming |-> Unread, report |-> Unread]

Init ==
  /\ version \in Vendor /\ vendorUp = TRUE
  /\ framework = 1 /\ setting = [f \in Framework |-> 0] /\ overlap = FALSE
  /\ request = [s \in Serial |-> NotSent] /\ known = 0
  /\ flying = {} /\ misled = FALSE
  /\ realResponse = 0 /\ realIndication = 0
  /\ mLgeRadioIndication = 0 /\ lgeListener = 0 /\ connected = FALSE
  /\ mRat = 0 /\ mDataRoaming = 0 /\ reports = 0 /\ failed = {}

(***************************************************************************)
(* setResponseFunctions() of framework f, in the order of its statements.  *)
(***************************************************************************)
Setting(f, n) ==
  /\ setting[f] = n /\ setting' = [setting EXCEPT ![f] = n + 1]
  /\ UNCHANGED <<version, vendorUp, framework, request, known, flying, misled, stored>>

SetResponse(f) ==
  /\ f = framework /\ Setting(f, 0)
  /\ realResponse' = f
  /\ overlap' = (overlap \/ \E g \in Framework \ {f} : setting[g] \in 1..4)
  /\ UNCHANGED <<realIndication, mLgeRadioIndication, lgeListener, connected>>

SetIndication(f) ==
  /\ Setting(f, 1) /\ realIndication' = f
  /\ UNCHANGED <<overlap, realResponse, mLgeRadioIndication, lgeListener, connected>>

MakeLge(f) ==
  /\ Setting(f, 2) /\ mLgeRadioIndication' = f
  /\ UNCHANGED <<overlap, realResponse, realIndication, lgeListener, connected>>

(* Faulty: the LGE radio is given its functions only once. *)
SetLge_Once(f) ==
  /\ Setting(f, 3) /\ lgeListener' = IF lgeListener # 0 THEN lgeListener ELSE mLgeRadioIndication
  /\ UNCHANGED <<overlap, realResponse, realIndication, mLgeRadioIndication, connected>>

SetLge(f) ==
  /\ Setting(f, 3) /\ lgeListener' = mLgeRadioIndication
  /\ UNCHANGED <<overlap, realResponse, realIndication, mLgeRadioIndication, connected>>

(* Faulty: the vendor's radio is not given the proxy's functions. *)
SetVendor_Not(f) ==
  /\ Setting(f, 4)
  /\ UNCHANGED <<overlap, pointers>>

SetVendor(f) ==
  /\ Setting(f, 4) /\ connected' = vendorUp
  /\ UNCHANGED <<overlap, realResponse, realIndication, mLgeRadioIndication, lgeListener>>

SetResponseFunctions(f) ==
  SetResponse(f) \/ SetIndication(f) \/ MakeLge(f) \/ SetLge(f) \/ SetVendor(f)

(***************************************************************************)
(* Requests.                                                               *)
(***************************************************************************)
ReportsDue == Cardinality({s \in Serial : request[s].name = "getDataRegistrationState"})

Send(s) == \E m \in Asked, fits \in BOOLEAN :
  /\ setting[framework] = 5 /\ Free(s)
  /\ m.name = "getDataRegistrationState" => reports + ReportsDue < MaxReports
  /\ m.name \notin Lossy => fits
  /\ request' = [request EXCEPT ![s] = [name |-> m.name, version |-> m.version,
                   fits |-> fits, known |-> known, by |-> framework]]
  /\ flying' = flying \cup {Message(s, "proxy", m.version)}
  /\ UNCHANGED <<version, vendorUp, others, known, pointers, misled, stored>>

(* A dead vendor cannot be cast to any of the newer versions.              *)
Casts == {version} \cup (IF vendorUp THEN {} ELSE {0})

(* Framework f is told something: it should be the living one, once that   *)
(* has set its functions and no dead one's call can undo it.               *)
Sound == setting[framework] = 5 /\ ~overlap
Tells(f) == misled' = (misled \/ (Sound /\ f # framework))

(* The framework whose functions are set hears the answer to s; another    *)
(* one than the one that asked does not know s and ignores it.             *)
Told(s) ==
  /\ Tells(realResponse)
  /\ request' = [request EXCEPT
       ![s] = IF realResponse = framework \/ @.by # framework THEN NotSent ELSE @]

Handled(x) == x \in flying /\ x.at = "proxy" /\ Idle({"reading"})

ToVendor(x, y) == IF vendorUp THEN Moved(x, y) ELSE flying' = flying \ {x}

(* Faulty: the macros do not return, an older method is called as well. *)
PassOn_NoReturn(x) ==
  /\ Handled(x)
  /\ \E v \in Casts : \E o \in Passed(request[x.serial], v) :
       /\ Added(request[x.serial], o) = {}
       /\ flying' = (flying \ {x}) \cup
            {[x EXCEPT !.at = "vendor", !.version = p] :
               p \in {o} \cup {q \in 0..v : <<request[x.serial].name, o, q>> \in Older}}
  /\ UNCHANGED <<version, vendorUp, others, request, known, pointers, misled, stored>>

PassOn(x) ==
  /\ Handled(x)
  /\ \E v \in Casts : \E o \in Passed(request[x.serial], v) :
       /\ Added(request[x.serial], o) = {}
       /\ ToVendor(x, [x EXCEPT !.at = "vendor", !.version = o])
  /\ UNCHANGED <<version, vendorUp, others, request, known, pointers, misled, stored>>

Translate(x) ==
  /\ Handled(x)
  /\ \E v \in Casts : \E o \in Passed(request[x.serial], v) :
       /\ Added(request[x.serial], o) # {}
       /\ Moved(x, [x EXCEPT !.at = "reading", !.version = o,
                             !.left = Added(request[x.serial], o)])
  /\ UNCHANGED <<version, vendorUp, others, request, known, pointers, misled, stored>>

(* The arguments are evaluated in any order.                               *)
ReadRat(x) ==
  /\ x \in flying /\ x.at = "reading" /\ "rat" \in x.left
  /\ Moved(x, [x EXCEPT !.left = @ \ {"rat"}, !.rat = mRat])
  /\ UNCHANGED <<version, vendorUp, others, request, known, pointers, misled, stored>>

ReadRoaming(x) ==
  /\ x \in flying /\ x.at = "reading" /\ "roaming" \in x.left
  /\ Moved(x, [x EXCEPT !.left = @ \ {"roaming"}, !.roaming = mDataRoaming])
  /\ UNCHANGED <<version, vendorUp, others, request, known, pointers, misled, stored>>

PassTranslated(x) ==
  /\ x \in flying /\ x.at = "reading" /\ x.left = {}
  /\ ToVendor(x, [x EXCEPT !.at = "vendor"])
  /\ UNCHANGED <<version, vendorUp, others, request, known, pointers, misled, stored>>

(* Faulty: the methods of 1.5 end like the older ones. *)
Drop_Newest(x) ==
  /\ Handled(x)
  /\ \E v \in Casts : Passed(request[x.serial], v) = {}
  /\ flying' = flying \ {x}
  /\ UNCHANGED <<version, vendorUp, others, request, known, pointers, misled, stored>>

(* "TODO implement", and arguments the older method cannot say.            *)
Drop(x) ==
  /\ Handled(x)
  /\ \E v \in Casts : /\ Passed(request[x.serial], v) = {}
                      /\ ~Refused(request[x.serial], v)
  /\ flying' = flying \ {x}
  /\ UNCHANGED <<version, vendorUp, others, request, known, pointers, misled, stored>>

Refuse(x) ==
  /\ Handled(x)
  /\ \E v \in Casts : Refused(request[x.serial], v)
  /\ flying' = flying \ {x} /\ Told(x.serial)
  /\ UNCHANGED <<version, vendorUp, others, known, pointers, stored>>

(***************************************************************************)
(* The vendor and its answers.                                             *)
(***************************************************************************)
VendorAnswers(x) ==
  /\ vendorUp /\ connected /\ x \in flying /\ x.at = "vendor"
  /\ \E r \in Responses[request[x.serial].name] :
       /\ r <= version /\ Paired(request[x.serial].name, x.version) <= r
       /\ Moved(x, [Message(x.serial, "answered", r) EXCEPT !.left =
                      IF request[x.serial].name # "getDataRegistrationState" THEN {}
                      ELSE IF r = 0 THEN {"roaming", "rat"}
                      ELSE IF r = 2 THEN {"roaming"} ELSE {}])
  /\ UNCHANGED <<version, vendorUp, others, request, known, pointers, misled, stored>>

Answering(x) == x \in flying /\ x.at = "answered" /\ Idle({"storing"})

(* Registration state, responses 1.0 and 1.2: mDataRoaming, then mRat, also *)
(* from an answer that has an error, and so no values of a report.          *)
StoreRoaming(x) ==
  /\ Answering(x) /\ x.left # {}
  /\ reports' = reports + 1 /\ mDataRoaming' = reports + 1
  /\ failed' \in {failed, failed \cup {reports + 1}}
  /\ Moved(x, [x EXCEPT !.at = "storing", !.left = @ \ {"roaming"}, !.report = reports + 1])
  /\ UNCHANGED <<version, vendorUp, others, request, known, pointers, misled, mRat>>

StoreRat(x) ==
  /\ x \in flying /\ x.at = "storing" /\ "rat" \in x.left
  /\ mRat' = x.report
  /\ Moved(x, [x EXCEPT !.left = {}])
  /\ UNCHANGED <<version, vendorUp, others, request, known, pointers, misled,
                 mDataRoaming, reports, failed>>

(* The framework takes a report from an answer to its own request.         *)
Learns(x) == known' = IF /\ realResponse = framework /\ x.report \notin failed
                         /\ request[x.serial] # NotSent /\ request[x.serial].by = framework
                      THEN x.report ELSE known

(* Faulty: the report is forwarded before its technology is stored. *)
ForwardRegistration_Early(x) ==
  /\ x \in flying /\ x.at = "storing"
  /\ flying' = flying \ {x} /\ Told(x.serial) /\ Learns(x)
  /\ UNCHANGED <<version, vendorUp, others, pointers, stored>>

ForwardRegistration(x) ==
  /\ x \in flying /\ x.at = "storing" /\ x.left = {}
  /\ flying' = flying \ {x} /\ Told(x.serial) /\ Learns(x)
  /\ UNCHANGED <<version, vendorUp, others, pointers, stored>>

Forward(x) ==
  /\ Answering(x) /\ x.left = {}
  /\ flying' = flying \ {x} /\ Told(x.serial)
  /\ UNCHANGED <<version, vendorUp, others, known, pointers, stored>>

Indicate ==
  /\ vendorUp /\ connected /\ Tells(realIndication)
  /\ UNCHANGED <<version, vendorUp, others, request, known, flying, pointers, stored>>

LgeSignalStrength ==
  /\ lgeListener # 0 /\ Tells(lgeListener)
  /\ UNCHANGED <<version, vendorUp, others, request, known, flying, pointers, stored>>

(***************************************************************************)
(* Deaths.                                                                 *)
(***************************************************************************)
VendorDies ==
  /\ vendorUp /\ vendorUp' = FALSE /\ connected' = FALSE
  /\ flying' = {x \in flying : x.at # "vendor"}
  /\ UNCHANGED <<version, others, request, known, realResponse, realIndication,
                 mLgeRadioIndication, lgeListener, misled, stored>>

(* Faulty: mRat has no initial value. *)
ProxyRestarts_NoRat ==
  /\ vendorUp' = TRUE
  /\ setting' = [f \in Framework |-> 0] /\ overlap' = FALSE
  /\ request' = [s \in Serial |-> NotSent] /\ known' = 0
  /\ flying' = {} /\ misled' = FALSE
  /\ realResponse' = 0 /\ realIndication' = 0
  /\ mLgeRadioIndication' = 0 /\ lgeListener' = 0 /\ connected' = FALSE
  /\ mRat' = Unread /\ mDataRoaming' = 0 /\ reports' = 0 /\ failed' = {}
  /\ UNCHANGED <<version, framework>>

(* serviceDied() ends the process when the vendor has died, and a null     *)
(* interface at any other time: an LGE radio that is not there, functions   *)
(* that cannot be cast.  init starts the service anew, which waits for the  *)
(* vendor, and the framework gives up what it waited for.                   *)
ProxyRestarts ==
  /\ vendorUp' = TRUE
  /\ setting' = [f \in Framework |-> 0] /\ overlap' = FALSE
  /\ request' = [s \in Serial |-> NotSent] /\ known' = 0
  /\ flying' = {} /\ misled' = FALSE
  /\ realResponse' = 0 /\ realIndication' = 0
  /\ mLgeRadioIndication' = 0 /\ lgeListener' = 0 /\ connected' = FALSE
  /\ mRat' = 0 /\ mDataRoaming' = 0 /\ reports' = 0 /\ failed' = {}
  /\ UNCHANGED <<version, framework>>

(* What the dead framework asked for and is still under way stays so.      *)
FrameworkDies ==
  /\ framework < MaxFrameworks /\ framework' = framework + 1
  /\ known' = 0
  /\ request' = [s \in Serial |->
       IF \E x \in flying : x.serial = s THEN request[s] ELSE NotSent]
  /\ UNCHANGED <<version, vendorUp, setting, overlap, flying, pointers, misled, stored>>

Proxy(x) ==
  \/ PassOn(x) \/ Translate(x) \/ ReadRat(x) \/ ReadRoaming(x) \/ PassTranslated(x)
  \/ Drop(x) \/ Refuse(x)
  \/ StoreRoaming(x) \/ StoreRat(x) \/ ForwardRegistration(x) \/ Forward(x)

Next ==
  \/ \E f \in Framework : SetResponseFunctions(f)
  \/ \E s \in Serial : Send(s)
  \/ \E x \in flying : Proxy(x) \/ VendorAnswers(x)
  \/ Indicate \/ LgeSignalStrength
  \/ VendorDies \/ ProxyRestarts \/ FrameworkDies

Spec == Init /\ [][Next]_vars

(* Binder threads are not held up for ever, the death of the vendor ends    *)
(* the proxy, init restarts it, and a vendor that lives answers what it was *)
(* asked.                                                                  *)
Work(s) == \E x \in flying : x.serial = s /\ (Proxy(x) \/ VendorAnswers(x))

FairSpec ==
  /\ Spec
  /\ \A s \in Serial : SF_vars(Work(s))
  /\ \A f \in Framework : WF_vars(SetResponseFunctions(f))
  /\ WF_vars(~vendorUp /\ ProxyRestarts)

-----------------------------------------------------------------------------
Requests ==
  [name : DOMAIN Responses, version : 0..5, fits : BOOLEAN, known : Nat, by : Framework]

Messages ==
  [serial : Serial, at : {"proxy", "reading", "vendor", "answered", "storing"}, version : 0..5,
   left : SUBSET {"rat", "roaming"}, rat : Int, roaming : Int, report : Int]

(* The values the variables take; no report is referred to that was not    *)
(* handled.                                                                *)
TypeOK ==
  /\ version \in 0..5 /\ vendorUp \in BOOLEAN
  /\ framework \in Framework /\ setting \in [Framework -> 0..5] /\ overlap \in BOOLEAN
  /\ request \in [Serial -> Requests \cup {NotSent}]
  /\ flying \subseteq Messages
  /\ \A x \in flying : {x.rat, x.roaming, x.report} \subseteq Unread..reports
  /\ {realResponse, realIndication, mLgeRadioIndication, lgeListener} \subseteq Framework \cup {0}
  /\ connected \in BOOLEAN /\ misled \in BOOLEAN
  /\ reports \in Nat /\ {mRat, mDataRoaming, known} \subseteq 0..reports
  /\ failed \subseteq 1..reports

(* One serial number, one answer: a request is in one place at a time from *)
(* Radio through the vendor to RadioResponse, and nothing is under way for *)
(* a serial number the framework has had its answer to.                    *)
AnsweredOnce ==
  /\ \A x, y \in flying : x.serial = y.serial => x = y
  /\ \A x \in flying : Sent(x.serial)

Translatable(r) == Passed(r, version) # {} \/ Refused(r, version)

(* While vendor and registration are sound, a request of the framework     *)
(* that nobody works on any more is one Radio has no older method for: no  *)
(* other serial number is left without an answer.                          *)
NoneForgotten ==
  vendorUp /\ ~overlap =>
    \A s \in Serial :
      Sent(s) /\ request[s].by = framework /\ (\A x \in flying : x.serial # s)
        => ~Translatable(request[s])

(* What Radio adds to an older data call from memory (roaming, radio       *)
(* technology) comes from a registration answer at least as new as the     *)
(* last report the framework had heard when it asked for the call; and it   *)
(* is of no report only if the vendor has failed to answer with one since.  *)
Fresh(answer, r) == answer >= r.known /\ (answer \in failed => answer > r.known)
FreshRegistration ==
  \A x \in flying : x.at = "vendor" =>
    LET r == request[x.serial] IN
    /\ "roaming" \in Added(r, x.version) => Fresh(x.roaming, r)
    /\ "rat" \in Added(r, x.version) => Fresh(x.rat, r)

(* An answer goes back as a response at least as new as the one paired     *)
(* with the method the framework called, whichever older method and older  *)
(* response it went through.                                               *)
AnsweredInKind ==
  \A x \in flying : x.at \in {"answered", "storing"} =>
    LET r == request[x.serial] IN Raised(r.name, x.version) >= Paired(r.name, r.version)

(* What the framework sets through Radio on a vendor that is told and      *)
(* answers in the terms of 1.0 is what RadioResponse answers it: network   *)
(* types, carriers and protocols.                                          *)
SetIsAnswered == version < 4 => TranslatedBothWays

(* Once setResponseFunctions() has returned to the framework, and unless   *)
(* it overlapped with the call of one that died, neither an answer nor an  *)
(* indication of either radio is told to a framework that has died.        *)
HeardByTheLiving == ~misled

(* Every request the proxy can pass on, translate or refuse is answered,   *)
(* or given up with the process that died.                                 *)
EveryoneAnswered ==
  \A s \in Serial :
    (Sent(s) /\ Translatable(request[s])) ~> (~Sent(s) \/ overlap)
=============================================================================
