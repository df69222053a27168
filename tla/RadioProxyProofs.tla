-------------------------- MODULE RadioProxyProofs --------------------------
(* Every serial number is answered at most once, with a response new enough  *)
(* for the method called, and forgotten only when no older method exists;    *)
(* what is added to an older data call is fresh, what is set is answered as  *)
(* it was set, and the living framework is the one that is told, for any     *)
(* methods asked, any vendor and any number of serial numbers and            *)
(* frameworks.                                                               *)
EXTENDS RadioProxy, TLAPS

(* The functions set are the living framework's, as far as its call has got, *)
(* unless the call of another one overlapped with it.                        *)
Registered ==
  /\ \A g \in Framework : g > framework => setting[g] = 0
  /\ ~overlap =>
       /\ setting[framework] >= 1 =>
            /\ realResponse = framework
            /\ \A g \in Framework : g # framework => setting[g] \notin 1..4
       /\ setting[framework] >= 2 => realIndication = framework
       /\ setting[framework] >= 3 => mLgeRadioIndication = framework
       /\ setting[framework] >= 4 => lgeListener = framework

(* Who waits has set its functions.                                          *)
Askers ==
  \A s \in Serial : Sent(s) =>
    /\ request[s].by <= framework
    /\ request[s].by = framework => setting[framework] = 5

(* One report is handled at a time, the newest.                              *)
Newest ==
  /\ mDataRoaming = reports
  /\ \A s \in Serial : Sent(s) => request[s].known <= reports
  /\ \A x \in flying : x.at = "storing" => x.report = reports
  /\ \A x, y \in flying : x.at = "storing" /\ y.at = "storing" => x = y

(* A vendor older than 1.2 reports the radio technology each time, and it is *)
(* stored before the framework hears of it.                                  *)
RatIsStored ==
  version < 2 =>
    /\ known <= mRat
    /\ \A s \in Serial : Sent(s) => request[s].known <= mRat
    /\ \A x \in flying : x.at = "answered" /\ x.left # {} => "rat" \in x.left
    /\ \A x \in flying : x.at = "storing" /\ "rat" \notin x.left => mRat = reports

(* What has been read for a data call is fresh already.                      *)
Reading ==
  \A x \in flying :
    /\ x.at \in {"proxy", "vendor"} => x.left = {}
    /\ x.at = "vendor" => vendorUp
    /\ x.at \in {"reading", "vendor"} =>
         /\ "roaming" \in Added(request[x.serial], x.version) /\ "roaming" \notin x.left
              => x.roaming >= request[x.serial].known
         /\ "rat" \in Added(request[x.serial], x.version) =>
              /\ vendorUp => version < 2
              /\ version < 2 /\ "rat" \notin x.left => x.rat >= request[x.serial].known

(* No answer with an error is a report the framework knows of.               *)
Failures ==
  /\ known \notin failed
  /\ \A s \in Serial : Sent(s) => request[s].known \notin failed

(* The inductive invariant: the types, the properties and the parts above.   *)
IInv ==
  /\ TypeOK /\ AnsweredOnce /\ Registered /\ Askers /\ NoneForgotten /\ HeardByTheLiving
  /\ Newest /\ RatIsStored /\ Reading /\ Failures

(* An answer has the method of some version, and "none" is no method.        *)
LEMMA ResponseVersions ==
  ASSUME NEW n \in DOMAIN Responses
  PROVE  Responses[n] \subseteq 0..5 /\ n # "none"
BY DEF Responses

(* The newest of a set of versions is one of them, and none is newer.        *)
LEMMA MaxIsOne ==
  ASSUME NEW S \in SUBSET (0..5), S # {}
  PROVE  Max(S) \in S /\ \A y \in S : Max(S) >= y
<1>1. \E m \in S : \A y \in S : m >= y
  <2>1. \A k \in 0..5 : k \in S /\ (\A j \in 0..5 : j > k => j \notin S)
                           => \E m \in S : \A y \in S : m >= y
    OBVIOUS
  <2>2. CASE 5 \in S \/ 4 \in S \/ 3 \in S
    <3>1. CASE 5 \in S
      BY <2>1, <3>1
    <3>2. CASE 5 \notin S /\ 4 \in S
      BY <2>1, <3>2
    <3>3. CASE 5 \notin S /\ 4 \notin S /\ 3 \in S
      BY <2>1, <3>3
    <3> QED
      BY <2>2, <3>1, <3>2, <3>3
  <2>3. CASE 5 \notin S /\ 4 \notin S /\ 3 \notin S
    <3>1. CASE 2 \in S
      BY <2>1, <2>3, <3>1
    <3>2. CASE 2 \notin S /\ 1 \in S
      BY <2>1, <2>3, <3>2
    <3>3. CASE 2 \notin S /\ 1 \notin S
      <4>1. PICK e \in S : e \in 0..5
        OBVIOUS
      <4>2. e = 0
        BY <2>3, <3>3, <4>1
      <4> QED
        BY <2>1, <2>3, <3>3, <4>2
    <3> QED
      BY <3>1, <3>2, <3>3
  <2> QED
    BY <2>2, <2>3
<1> QED
  BY <1>1 DEF Max

(* Only what the proxy remembers of the registration is ever added.          *)
LEMMA AddedIsMemory ==
  ASSUME NEW r, NEW o
  PROVE  Added(r, o) \subseteq {"rat", "roaming"}
BY DEF Added

(* A request is passed on with the method of an existing version.            *)
LEMMA PassedIsOlder ==
  ASSUME NEW r \in Requests, NEW v \in 0..5, NEW o \in Passed(r, v)
  PROVE  o \in 0..5
<1> DEFINE old == {p \in 0..v : <<r.name, r.version, p>> \in Older}
<1>1. CASE r.version <= v
  BY <1>1 DEF Passed, Requests
<1>2. CASE ~(r.version <= v)
  <2>1. old # {} /\ o = Max(old)
    BY <1>2 DEF Passed
  <2>2. old \in SUBSET (0..5)
    OBVIOUS
  <2> QED
    BY <2>1, <2>2, MaxIsOne
<1> QED
  BY <1>1, <1>2

(* The radio technology is only added for a vendor older than 1.2.           *)
LEMMA RatIsForTheOldest ==
  ASSUME NEW r \in Requests, NEW v \in 0..5, NEW o \in Passed(r, v),
         "rat" \in Added(r, o)
  PROVE  v < 2
<1> DEFINE old == {p \in 0..v : <<r.name, r.version, p>> \in Older}
<1>1. o \in 0..5 /\ r.version \in 0..5
  BY PassedIsOlder DEF Requests
<1>2. ~(r.version <= v)
  <2> SUFFICES ASSUME r.version <= v PROVE FALSE
    OBVIOUS
  <2>1. o = r.version
    BY DEF Passed
  <2> QED
    BY <2>1, <1>1 DEF Added
<1>3. old # {} /\ o = Max(old) /\ old \in SUBSET (0..5)
  BY <1>2 DEF Passed
<1>4. o \in old /\ \A p \in old : o >= p
  BY <1>3, MaxIsOne
<1>5. r.name = "setupDataCall" /\ o = 0
  BY <1>1 DEF Added
<1>6. r.version = 4
  BY <1>4, <1>5 DEF Older
<1>7. <<r.name, r.version, 2>> \in Older
  BY <1>5, <1>6 DEF Older
<1> QED
  BY <1>4, <1>5, <1>7

(* Message x of the flying goes on as y, or is lost at a dead vendor.        *)
Becomes(x, y) ==
  /\ y \in Messages /\ y.serial = x.serial
  /\ flying' = (flying \ {x}) \cup (IF y.at = "vendor" /\ ~vendorUp THEN {} ELSE {y})
  /\ UNCHANGED <<version, vendorUp, framework, setting, overlap, request, known,
                 realResponse, realIndication, mLgeRadioIndication, lgeListener,
                 connected, misled>>

Numbers(x, y) == y.rat = x.rat /\ y.roaming = x.roaming /\ y.report = x.report

(* A message under way belongs to a request that was sent.                   *)
LEMMA FlyingIs ==
  ASSUME IInv, NEW x \in flying
  PROVE  /\ x \in Messages /\ request[x.serial] \in Requests
         /\ {mRat, mDataRoaming} \subseteq Int /\ reports \in Nat
<1>1. x \in Messages /\ request \in [Serial -> Requests \cup {NotSent}]
        /\ request[x.serial] # NotSent
  BY DEF IInv, TypeOK, AnsweredOnce, Sent
<1>2. x.serial \in Serial
  BY <1>1 DEF Messages
<1>3. request[x.serial] \in Requests
  BY <1>1, <1>2
<1>4. {mRat, mDataRoaming} \subseteq Int /\ reports \in Nat
  BY DEF IInv, TypeOK
<1> QED
  BY <1>1, <1>3, <1>4

PassOnAs(x, y) ==
  /\ Becomes(x, y)
  /\ x.at = "proxy" /\ y.at = "vendor" /\ y.left = x.left
  /\ Numbers(x, y)
  /\ Added(request[x.serial], y.version) = {}
  /\ UNCHANGED stored

(* A request passed on unchanged goes on as a message at the vendor.         *)
LEMMA PassOnMoves ==
  ASSUME IInv, NEW x \in flying, PassOn(x)
  PROVE  \E y \in Messages : PassOnAs(x, y)
<1>1. /\ x \in Messages /\ request[x.serial] \in Requests
      /\ {mRat, mDataRoaming} \subseteq Int /\ reports \in Nat
  BY FlyingIs
<1>0. PICK v \in Casts : \E o \in Passed(request[x.serial], v) :
         /\ Added(request[x.serial], o) = {}
         /\ ToVendor(x, [x EXCEPT !.at = "vendor", !.version = o])
  BY DEF PassOn
<1>2. PICK o \in Passed(request[x.serial], v) :
         /\ Added(request[x.serial], o) = {}
         /\ ToVendor(x, [x EXCEPT !.at = "vendor", !.version = o])
  BY <1>0
<1>3. v \in 0..5 /\ (vendorUp => v = version)
  BY DEF Casts, IInv, TypeOK
<1>4. o \in 0..5
  BY <1>1, <1>3, PassedIsOlder
<1>5. Added(request[x.serial], o) \subseteq {"rat", "roaming"}
  BY AddedIsMemory
<1> DEFINE y == [x EXCEPT !.at = "vendor", !.version = o]
<1>7. y \in Messages /\ y.serial = x.serial
  BY <1>1, <1>4, <1>5 DEF Messages, Unread
<1>8. y.at = "vendor" /\ y.left = x.left /\ y.version = o /\ Numbers(x, y)
  BY <1>1, <1>4, <1>5 DEF Messages, Numbers, Unread, IInv, TypeOK
<1>9. ToVendor(x, y)
  BY <1>2 DEF PassOn
<1> HIDE DEF y
<1>10. Becomes(x, y)
  BY <1>1, <1>7, <1>8, <1>9 DEF Becomes, PassOn, Handled, Moved, ToVendor, others, pointers,
        stored
<1> QED
  BY <1>1, <1>2, <1>7, <1>8, <1>10 DEF PassOnAs, PassOn, Handled, stored

TranslateAs(x, y) ==
  /\ Becomes(x, y)
  /\ x.at = "proxy" /\ y.at = "reading"
  /\ y.left = Added(request[x.serial], y.version)
  /\ Numbers(x, y)
  /\ "rat" \in Added(request[x.serial], y.version) /\ vendorUp => version < 2
  /\ UNCHANGED stored

(* A request to be translated goes on as one that has values to read.        *)
LEMMA TranslateMoves ==
  ASSUME IInv, NEW x \in flying, Translate(x)
  PROVE  \E y \in Messages : TranslateAs(x, y)
<1>1. /\ x \in Messages /\ request[x.serial] \in Requests
      /\ {mRat, mDataRoaming} \subseteq Int /\ reports \in Nat
  BY FlyingIs
<1>0. PICK v \in Casts : \E o \in Passed(request[x.serial], v) :
         /\ Added(request[x.serial], o) # {}
         /\ Moved(x, [x EXCEPT !.at = "reading", !.version = o, !.left = Added(request[x.serial], o)])
  BY DEF Translate
<1>2. PICK o \in Passed(request[x.serial], v) :
         /\ Added(request[x.serial], o) # {}
         /\ Moved(x, [x EXCEPT !.at = "reading", !.version = o, !.left = Added(request[x.serial], o)])
  BY <1>0
<1>3. v \in 0..5 /\ (vendorUp => v = version)
  BY DEF Casts, IInv, TypeOK
<1>4. o \in 0..5
  BY <1>1, <1>3, PassedIsOlder
<1>5. Added(request[x.serial], o) \subseteq {"rat", "roaming"}
  BY AddedIsMemory
<1>6. "rat" \in Added(request[x.serial], o) /\ vendorUp => version < 2
  BY <1>1, <1>3, RatIsForTheOldest
<1> DEFINE y == [x EXCEPT !.at = "reading", !.version = o, !.left = Added(request[x.serial], o)]
<1>7. y \in Messages /\ y.serial = x.serial
  BY <1>1, <1>4, <1>5 DEF Messages, Unread
<1>8. y.at = "reading" /\ y.left = Added(request[x.serial], o) /\ y.version = o /\ Numbers(x, y)
  BY <1>1, <1>4, <1>5 DEF Messages, Numbers, Unread, IInv, TypeOK
<1>9. Moved(x, y)
  BY <1>2 DEF Translate
<1> HIDE DEF y
<1>10. Becomes(x, y)
  BY <1>1, <1>7, <1>8, <1>9 DEF Becomes, Translate, Handled, Moved, ToVendor, others,
        pointers, stored
<1> QED
  BY <1>1, <1>2, <1>6, <1>7, <1>8, <1>10 DEF TranslateAs, Translate, Handled, stored

ReadRatAs(x, y) ==
  /\ Becomes(x, y)
  /\ x.at = "reading" /\ y.at = "reading"
  /\ y.left = x.left \ {"rat"} /\ y.version = x.version
  /\ y.rat = mRat /\ y.roaming = x.roaming /\ y.report = x.report
  /\ UNCHANGED stored

(* Reading the radio technology fills in that value and no other.            *)
LEMMA ReadRatMoves ==
  ASSUME IInv, NEW x \in flying, ReadRat(x)
  PROVE  \E y \in Messages : ReadRatAs(x, y)
<1>1. /\ x \in Messages /\ request[x.serial] \in Requests
      /\ {mRat, mDataRoaming} \subseteq Int /\ reports \in Nat
  BY FlyingIs
<1> DEFINE y == [x EXCEPT !.left = @ \ {"rat"}, !.rat = mRat]
<1>7. y \in Messages /\ y.serial = x.serial
  BY <1>1 DEF Messages, Unread
<1>8. y.at = x.at /\ y.left = x.left \ {"rat"} /\ y.version = x.version /\ y.rat = mRat
        /\ y.roaming = x.roaming /\ y.report = x.report
  BY <1>1 DEF Messages, Numbers, Unread, IInv, TypeOK
<1>9. Moved(x, y)
  BY DEF ReadRat
<1> HIDE DEF y
<1>10. Becomes(x, y)
  BY <1>1, <1>7, <1>8, <1>9 DEF Becomes, ReadRat, Moved, ToVendor, others, pointers, stored
<1> QED
  BY <1>1, <1>7, <1>8, <1>10 DEF ReadRatAs, ReadRat, stored

ReadRoamingAs(x, y) ==
  /\ Becomes(x, y)
  /\ x.at = "reading" /\ y.at = "reading"
  /\ y.left = x.left \ {"roaming"} /\ y.version = x.version
  /\ y.rat = x.rat /\ y.roaming = mDataRoaming /\ y.report = x.report
  /\ UNCHANGED stored

(* Reading the roaming state fills in that value and no other.               *)
LEMMA ReadRoamingMoves ==
  ASSUME IInv, NEW x \in flying, ReadRoaming(x)
  PROVE  \E y \in Messages : ReadRoamingAs(x, y)
<1>1. /\ x \in Messages /\ request[x.serial] \in Requests
      /\ {mRat, mDataRoaming} \subseteq Int /\ reports \in Nat
  BY FlyingIs
<1> DEFINE y == [x EXCEPT !.left = @ \ {"roaming"}, !.roaming = mDataRoaming]
<1>7. y \in Messages /\ y.serial = x.serial
  BY <1>1 DEF Messages, Unread
<1>8. y.at = x.at /\ y.left = x.left \ {"roaming"} /\ y.version = x.version
        /\ y.rat = x.rat /\ y.roaming = mDataRoaming /\ y.report = x.report
  BY <1>1 DEF Messages, Numbers, Unread, IInv, TypeOK
<1>9. Moved(x, y)
  BY DEF ReadRoaming
<1> HIDE DEF y
<1>10. Becomes(x, y)
  BY <1>1, <1>7, <1>8, <1>9 DEF Becomes, ReadRoaming, Moved, ToVendor, others, pointers, stored
<1> QED
  BY <1>1, <1>7, <1>8, <1>10 DEF ReadRoamingAs, ReadRoaming, stored

PassTranslatedAs(x, y) ==
  /\ Becomes(x, y)
  /\ x.at = "reading" /\ y.at = "vendor"
  /\ x.left = {} /\ y.left = {} /\ y.version = x.version
  /\ Numbers(x, y)
  /\ UNCHANGED stored

(* A translated request goes on to the vendor with nothing left to read.     *)
LEMMA PassTranslatedMoves ==
  ASSUME IInv, NEW x \in flying, PassTranslated(x)
  PROVE  \E y \in Messages : PassTranslatedAs(x, y)
<1>1. /\ x \in Messages /\ request[x.serial] \in Requests
      /\ {mRat, mDataRoaming} \subseteq Int /\ reports \in Nat
  BY FlyingIs
<1> DEFINE y == [x EXCEPT !.at = "vendor"]
<1>7. y \in Messages /\ y.serial = x.serial
  BY <1>1 DEF Messages, Unread
<1>8. y.at = "vendor" /\ y.left = x.left /\ y.version = x.version /\ Numbers(x, y)
  BY <1>1 DEF Messages, Numbers, Unread, IInv, TypeOK
<1>9. ToVendor(x, y)
  BY DEF PassTranslated
<1> HIDE DEF y
<1>10. Becomes(x, y)
  BY <1>1, <1>7, <1>8, <1>9 DEF Becomes, PassTranslated, Moved, ToVendor, others, pointers, stored
<1> QED
  BY <1>1, <1>7, <1>8, <1>10 DEF PassTranslatedAs, PassTranslated, stored

StoreRoamingAs(x, y) ==
  /\ Becomes(x, y)
  /\ x.at = "answered" /\ y.at = "storing" /\ (\A z \in flying : z.at # "storing")
  /\ x.left # {} /\ y.left = x.left \ {"roaming"}
  /\ y.rat = x.rat /\ y.roaming = x.roaming /\ y.report = reports + 1
  /\ reports' = reports + 1 /\ mDataRoaming' = reports + 1 /\ mRat' = mRat

(* Storing the roaming state leaves the technology to be stored.             *)
LEMMA StoreRoamingMoves ==
  ASSUME IInv, NEW x \in flying, StoreRoaming(x)
  PROVE  \E y \in Messages : StoreRoamingAs(x, y)
<1>1. /\ x \in Messages /\ request[x.serial] \in Requests
      /\ {mRat, mDataRoaming} \subseteq Int /\ reports \in Nat
  BY FlyingIs
<1> DEFINE y == [x EXCEPT !.at = "storing", !.left = @ \ {"roaming"}, !.report = reports + 1]
<1>2. reports + 1 \in Int /\ x.left \ {"roaming"} \in SUBSET {"rat", "roaming"}
  BY <1>1 DEF Messages
<1>7. y \in Messages /\ y.serial = x.serial
  BY <1>1, <1>2 DEF Messages, Unread
<1>8. y.at = "storing" /\ y.left = x.left \ {"roaming"} /\ y.rat = x.rat
        /\ y.roaming = x.roaming /\ y.report = reports + 1
  BY <1>1, <1>2 DEF Messages, Numbers, Unread, IInv, TypeOK
<1>9. Moved(x, y)
  BY DEF StoreRoaming
<1> HIDE DEF y
<1>10. Becomes(x, y)
  BY <1>1, <1>7, <1>8, <1>9 DEF Becomes, StoreRoaming, Answering, Idle, Moved, ToVendor,
        others, pointers, stored
<1> QED
  BY <1>1, <1>7, <1>8, <1>10 DEF StoreRoamingAs, StoreRoaming, Answering, Idle, stored

StoreRatAs(x, y) ==
  /\ Becomes(x, y)
  /\ x.at = "storing" /\ y.at = "storing"
  /\ y.left = {}
  /\ Numbers(x, y)
  /\ mRat' = x.report /\ UNCHANGED <<mDataRoaming, reports>>

(* Storing the technology leaves the roaming state alone.                    *)
LEMMA StoreRatMoves ==
  ASSUME IInv, NEW x \in flying, StoreRat(x)
  PROVE  \E y \in Messages : StoreRatAs(x, y)
<1>1. /\ x \in Messages /\ request[x.serial] \in Requests
      /\ {mRat, mDataRoaming} \subseteq Int /\ reports \in Nat
  BY FlyingIs
<1> DEFINE y == [x EXCEPT !.left = {}]
<1>7. y \in Messages /\ y.serial = x.serial
  BY <1>1 DEF Messages, Unread
<1>8. y.at = x.at /\ y.left = {} /\ Numbers(x, y)
  BY <1>1 DEF Messages, Numbers, Unread, IInv, TypeOK
<1>9. Moved(x, y)
  BY DEF StoreRat
<1> HIDE DEF y
<1>10. Becomes(x, y)
  BY <1>1, <1>7, <1>8, <1>9 DEF Becomes, StoreRat, Moved, ToVendor, others, pointers, stored
<1> QED
  BY <1>1, <1>7, <1>8, <1>10 DEF StoreRatAs, StoreRat, stored

VendorAnswersAs(x, y) ==
  /\ Becomes(x, y)
  /\ x.at = "vendor" /\ y.at = "answered"
  /\ version < 2 /\ y.left # {} => "rat" \in y.left
  /\ y.rat = Unread /\ y.roaming = Unread /\ y.report = Unread
  /\ UNCHANGED stored

(* An answer of the vendor takes the place of the request it answers.        *)
LEMMA VendorAnswersMoves ==
  ASSUME IInv, NEW x \in flying, VendorAnswers(x)
  PROVE  \E y \in Messages : VendorAnswersAs(x, y)
<1>1. /\ x \in Messages /\ request[x.serial] \in Requests
      /\ {mRat, mDataRoaming} \subseteq Int /\ reports \in Nat
  BY FlyingIs
<1>2. PICK r \in Responses[request[x.serial].name] :
         r <= version /\ Moved(x, [Message(x.serial, "answered", r) EXCEPT !.left =
                   IF request[x.serial].name # "getDataRegistrationState" THEN {}
                   ELSE IF r = 0 THEN {"roaming", "rat"}
                   ELSE IF r = 2 THEN {"roaming"} ELSE {}])
  BY DEF VendorAnswers
<1>3. r \in 0..5
  BY <1>1, ResponseVersions DEF Requests
<1> DEFINE y == [Message(x.serial, "answered", r) EXCEPT !.left =
                   IF request[x.serial].name # "getDataRegistrationState" THEN {}
                   ELSE IF r = 0 THEN {"roaming", "rat"}
                   ELSE IF r = 2 THEN {"roaming"} ELSE {}]
<1>4. y = [serial |-> x.serial, at |-> "answered", version |-> r,
            left |-> y.left, rat |-> Unread, roaming |-> Unread, report |-> Unread]
  BY DEF Message
<1>5. y.left \in SUBSET {"rat", "roaming"}
  BY DEF Message
<1>6. x.serial \in Serial
  BY <1>1 DEF Messages
<1>7. y \in Messages /\ y.serial = x.serial
  BY <1>3, <1>4, <1>5, <1>6 DEF Messages, Unread
<1>8. y.at = "answered" /\ (version < 2 /\ y.left # {} => "rat" \in y.left)
        /\ y.rat = Unread /\ y.roaming = Unread /\ y.report = Unread
  BY <1>3, <1>4, <1>5, <1>6, <1>2 DEF Messages, Numbers, Unread, IInv, TypeOK
<1>9. Moved(x, y)
  BY <1>2 DEF VendorAnswers
<1> HIDE DEF y
<1>10. Becomes(x, y)
  BY <1>1, <1>7, <1>8, <1>9 DEF Becomes, VendorAnswers, Moved, ToVendor, others, pointers, stored
<1> QED
  BY <1>1, <1>2, <1>7, <1>8, <1>10 DEF VendorAnswersAs, VendorAnswers, stored

(* What does not look inside the messages is kept by every move of one.      *)
LEMMA MovesKeep ==
  ASSUME IInv, NEW x \in flying, NEW y \in Messages, Becomes(x, y)
  PROVE  AnsweredOnce' /\ Registered' /\ Askers' /\ NoneForgotten' /\ HeardByTheLiving'
<1> USE DEF IInv, Becomes
<1>1. AnsweredOnce'
  BY DEF AnsweredOnce, Sent
<1>2. Registered'
  BY DEF Registered
<1>3. Askers'
  BY DEF Askers, Sent
<1>4. NoneForgotten'
  BY DEF NoneForgotten, Sent, Translatable
<1>5. HeardByTheLiving'
  BY DEF HeardByTheLiving
<1> QED
  BY <1>1, <1>2, <1>3, <1>4, <1>5

(* Every step inside the proxy or the vendor is one of these moves.          *)
LEMMA MessagesMove ==
  ASSUME IInv, NEW x \in flying,
         \/ PassOn(x) \/ Translate(x) \/ ReadRat(x) \/ ReadRoaming(x) \/ PassTranslated(x)
         \/ StoreRoaming(x) \/ StoreRat(x) \/ VendorAnswers(x)
  PROVE  \E y \in Messages : Becomes(x, y)
BY PassOnMoves, TranslateMoves, ReadRatMoves, ReadRoamingMoves,
   PassTranslatedMoves, StoreRoamingMoves, StoreRatMoves, VendorAnswersMoves DEF PassOnAs,
         TranslateAs, ReadRatAs, ReadRoamingAs,
   PassTranslatedAs, StoreRoamingAs, StoreRatAs, VendorAnswersAs

(* Request q of serial number s is sent as message y.                        *)
Adds(s, y, q) ==
  /\ y.serial = s /\ y.at = "proxy" /\ y.left = {}
  /\ y.rat = Unread /\ y.roaming = Unread /\ y.report = Unread
  /\ q.known = known /\ q.by = framework
  /\ setting[framework] = 5 /\ ~Sent(s) /\ (\A x \in flying : x.serial # s)
  /\ request' = [request EXCEPT ![s] = q] /\ flying' = flying \cup {y}
  /\ UNCHANGED <<version, vendorUp, others, known, pointers, misled, stored>>

(* A request adds one message with a number nothing else has.               *)
LEMMA SendAdds ==
  ASSUME IInv, NEW s \in Serial, Send(s)
  PROVE  \E y \in Messages, q \in Requests : Adds(s, y, q)
<1>1. PICK m \in Asked, fits \in BOOLEAN :
        /\ request' = [request EXCEPT ![s] = [name |-> m.name, version |-> m.version,
                         fits |-> fits, known |-> known, by |-> framework]]
        /\ flying' = flying \cup {Message(s, "proxy", m.version)}
  BY DEF Send
<1>2. m.name \in DOMAIN Responses /\ m.version \in 0..5
  BY RadioAssumption
<1>3. known \in Nat /\ framework \in Framework
  BY DEF IInv, TypeOK
<1> DEFINE y == Message(s, "proxy", m.version)
           q == [name |-> m.name, version |-> m.version, fits |-> fits,
                 known |-> known, by |-> framework]
<1>4. y \in Messages /\ y.serial = s /\ y.at = "proxy" /\ y.left = {}
      /\ y.rat = Unread /\ y.roaming = Unread /\ y.report = Unread
  BY <1>2 DEF Message, Messages, Unread
<1>5. q \in Requests
  BY <1>2, <1>3 DEF Requests
<1>6. q.known = known /\ q.by = framework
  OBVIOUS
<1>7. request' = [request EXCEPT ![s] = q] /\ flying' = flying \cup {y}
  BY <1>1
<1> HIDE DEF y, q
<1> QED
  BY <1>4, <1>5, <1>6, <1>7 DEF Adds, Send, Free

(* The answers with an error are among those handled, and the reports the    *)
(* framework knows of are not.                                               *)
LEMMA FailuresStep == IInv /\ [Next]_vars => failed' \subseteq 1..reports' /\ Failures'
<1> SUFFICES ASSUME IInv, [Next]_vars PROVE failed' \subseteq 1..reports' /\ Failures'
  OBVIOUS
<1>1. /\ failed \subseteq 1..reports /\ reports \in Nat /\ known \in 0..reports
      /\ request \in [Serial -> Requests \cup {NotSent}]
  BY DEF IInv, TypeOK
<1>2. known \notin failed
  BY DEF IInv, Failures
<1>3. ASSUME NEW s \in Serial, Sent(s)
      PROVE  request[s].known \notin failed /\ request[s].known \in 0..reports
  BY <1>1, <1>3 DEF IInv, Failures, Newest, Requests, Sent
<1> DEFINE Keeps == \A s \in Serial : request'[s] \in {request[s], NotSent}
<1>4. ASSUME Keeps, UNCHANGED <<failed, reports>>, known' = known \/ known' \notin failed
      PROVE  failed' \subseteq 1..reports' /\ Failures'
  BY <1>1, <1>2, <1>3, <1>4 DEF Failures, Sent
<1>5. ASSUME NEW s \in Serial, Told(s)
      PROVE  Keeps
  BY <1>1, <1>5 DEF Told
<1>6. ASSUME UNCHANGED <<request, failed, reports, known>>
      PROVE  failed' \subseteq 1..reports' /\ Failures'
  BY <1>4, <1>6
<1>7. ASSUME NEW f \in Framework, SetResponseFunctions(f)
      PROVE  failed' \subseteq 1..reports' /\ Failures'
  BY <1>6, <1>7 DEF SetResponseFunctions, SetResponse, SetIndication, MakeLge, SetLge,
                    SetVendor, Setting, stored
<1>8. ASSUME NEW s \in Serial, Send(s)
      PROVE  failed' \subseteq 1..reports' /\ Failures'
  <2>1. PICK y \in Messages, q \in Requests : Adds(s, y, q)
    BY <1>8, SendAdds
  <2>2. q.known = known /\ UNCHANGED <<failed, reports, known>>
        /\ request' = [request EXCEPT ![s] = q]
    BY <2>1 DEF Adds, stored
  <2>3. ASSUME NEW z \in Serial, Sent(z)'
        PROVE  request'[z].known \notin failed
    <3>1. CASE z = s
      BY <1>1, <1>2, <2>2, <3>1
    <3>2. CASE z # s
      BY <1>1, <1>3, <2>2, <2>3, <3>2 DEF Sent
    <3> QED
      BY <3>1, <3>2
  <2> QED
    BY <1>1, <1>2, <2>2, <2>3 DEF Failures
<1>9. ASSUME NEW x \in flying, StoreRoaming(x)
      PROVE  failed' \subseteq 1..reports' /\ Failures'
  <2>1. failed' \subseteq failed \cup {reports + 1} /\ reports' = reports + 1
        /\ UNCHANGED <<request, known>>
    BY <1>9 DEF StoreRoaming
  <2>2. ASSUME NEW n \in 0..reports, n \notin failed
        PROVE  n \notin failed'
    BY <1>1, <2>1, <2>2
  <2> QED
    BY <1>1, <1>2, <1>3, <2>1, <2>2 DEF Failures, Sent
<1>10. ASSUME NEW x \in flying, Refuse(x) \/ ForwardRegistration(x) \/ Forward(x)
       PROVE  failed' \subseteq 1..reports' /\ Failures'
  <2>1. x.serial \in Serial
    BY DEF IInv, TypeOK, Messages
  <2>2. Told(x.serial) /\ UNCHANGED <<failed, reports>>
        /\ (known' = known \/ known' \notin failed)
    BY <1>10 DEF Refuse, ForwardRegistration, Learns, Forward, stored
  <2> QED
    BY <1>4, <1>5, <2>1, <2>2
<1>11. ASSUME NEW x \in flying,
              \/ PassOn(x) \/ Translate(x) \/ ReadRat(x) \/ ReadRoaming(x)
              \/ PassTranslated(x) \/ Drop(x) \/ StoreRat(x) \/ VendorAnswers(x)
       PROVE  failed' \subseteq 1..reports' /\ Failures'
  BY <1>6, <1>11 DEF PassOn, Translate, ReadRat, ReadRoaming, PassTranslated, Drop, StoreRat,
                     VendorAnswers, stored
<1>12. CASE Indicate \/ LgeSignalStrength \/ VendorDies \/ UNCHANGED vars
  BY <1>6, <1>12 DEF Indicate, LgeSignalStrength, VendorDies, vars, stored
<1>13. CASE ProxyRestarts
  BY <1>13 DEF ProxyRestarts, Failures, Sent
<1>14. CASE FrameworkDies
  <2>1. Keeps /\ UNCHANGED <<failed, reports>> /\ known' = 0
    BY <1>14 DEF FrameworkDies, stored
  <2> QED
    BY <1>1, <1>4, <2>1
<1> QED
  BY <1>7, <1>8, <1>9, <1>10, <1>11, <1>12, <1>13, <1>14 DEF Next, Proxy

(* Every step keeps the types.                                              *)
LEMMA TypeOKStep == IInv /\ [Next]_vars => TypeOK'
<1> SUFFICES ASSUME IInv, [Next]_vars PROVE TypeOK'
  OBVIOUS
<1>0. failed' \subseteq 1..reports'
  BY FailuresStep
<1> USE <1>0
<1> USE RadioAssumption DEF IInv, TypeOK, Requests, Messages, Framework, vars, others,
      pointers, stored
<1>1. CASE \E f \in Framework : SetResponse(f)
  <2> PICK f \in Framework : SetResponse(f)
    BY <1>1
  <2> QED
    BY DEF SetResponse, Setting
<1>2. CASE \E f \in Framework : SetIndication(f)
  <2> PICK f \in Framework : SetIndication(f)
    BY <1>2
  <2> QED
    BY DEF SetIndication, Setting
<1>3. CASE \E f \in Framework : MakeLge(f)
  <2> PICK f \in Framework : MakeLge(f)
    BY <1>3
  <2> QED
    BY DEF MakeLge, Setting
<1>4. CASE \E f \in Framework : SetLge(f)
  <2> PICK f \in Framework : SetLge(f)
    BY <1>4
  <2> QED
    BY DEF SetLge, Setting
<1>5. CASE \E f \in Framework : SetVendor(f)
  <2> PICK f \in Framework : SetVendor(f)
    BY <1>5
  <2> QED
    BY DEF SetVendor, Setting
<1>6. CASE \E s \in Serial : Send(s)
  <2>1. PICK s \in Serial : Send(s)
    BY <1>6
  <2>2. PICK y \in Messages, q \in Requests : Adds(s, y, q)
    BY <2>1, SendAdds
  <2>3. request' \in [Serial -> Requests \cup {NotSent}]
    BY <2>2 DEF Adds
  <2>4. flying' \subseteq Messages
          /\ \A z \in flying' : {z.rat, z.roaming, z.report} \subseteq Unread..reports
    BY <2>2 DEF Adds, Unread
  <2> QED
    BY <2>2, <2>3, <2>4 DEF Adds
<1>7. CASE \E x \in flying : PassOn(x)
  <2>1. PICK x \in flying : PassOn(x)
    BY <1>7
  <2>2. PICK y \in Messages : PassOnAs(x, y)
    BY <2>1, PassOnMoves
  <2>3. flying' \subseteq flying \cup {y} /\ flying \subseteq Messages
    BY <2>2 DEF PassOnAs, Becomes
  <2>4. {y.rat, y.roaming, y.report} \subseteq Unread..reports' /\ reports' \in Nat
          /\ reports \in Nat /\ reports <= reports'
    BY <2>2 DEF PassOnAs, Numbers, Unread
  <2>5. \A z \in flying' : {z.rat, z.roaming, z.report} \subseteq Unread..reports'
    <3>1. \A z \in flying : {z.rat, z.roaming, z.report} \subseteq Unread..reports
      OBVIOUS
    <3>2. Unread..reports \subseteq Unread..reports'
      BY <2>4 DEF Unread
    <3> QED
      BY <2>3, <2>4, <3>1, <3>2
  <2>6. reports' \in Nat /\ {mRat', mDataRoaming', known'} \subseteq 0..reports'
    BY <2>2 DEF PassOnAs, Becomes, Unread
  <2> QED
    BY <2>2, <2>3, <2>5, <2>6 DEF PassOnAs, Becomes
<1>8. CASE \E x \in flying : Translate(x)
  <2>1. PICK x \in flying : Translate(x)
    BY <1>8
  <2>2. PICK y \in Messages : TranslateAs(x, y)
    BY <2>1, TranslateMoves
  <2>3. flying' \subseteq flying \cup {y} /\ flying \subseteq Messages
    BY <2>2 DEF TranslateAs, Becomes
  <2>4. {y.rat, y.roaming, y.report} \subseteq Unread..reports' /\ reports' \in Nat
          /\ reports \in Nat /\ reports <= reports'
    BY <2>2 DEF TranslateAs, Numbers, Unread
  <2>5. \A z \in flying' : {z.rat, z.roaming, z.report} \subseteq Unread..reports'
    <3>1. \A z \in flying : {z.rat, z.roaming, z.report} \subseteq Unread..reports
      OBVIOUS
    <3>2. Unread..reports \subseteq Unread..reports'
      BY <2>4 DEF Unread
    <3> QED
      BY <2>3, <2>4, <3>1, <3>2
  <2>6. reports' \in Nat /\ {mRat', mDataRoaming', known'} \subseteq 0..reports'
    BY <2>2 DEF TranslateAs, Becomes, Unread
  <2> QED
    BY <2>2, <2>3, <2>5, <2>6 DEF TranslateAs, Becomes
<1>9. CASE \E x \in flying : ReadRat(x)
  <2>1. PICK x \in flying : ReadRat(x)
    BY <1>9
  <2>2. PICK y \in Messages : ReadRatAs(x, y)
    BY <2>1, ReadRatMoves
  <2>3. flying' \subseteq flying \cup {y} /\ flying \subseteq Messages
    BY <2>2 DEF ReadRatAs, Becomes
  <2>4. {y.rat, y.roaming, y.report} \subseteq Unread..reports' /\ reports' \in Nat
          /\ reports \in Nat /\ reports <= reports'
    BY <2>2 DEF ReadRatAs, Numbers, Unread
  <2>5. \A z \in flying' : {z.rat, z.roaming, z.report} \subseteq Unread..reports'
    <3>1. \A z \in flying : {z.rat, z.roaming, z.report} \subseteq Unread..reports
      OBVIOUS
    <3>2. Unread..reports \subseteq Unread..reports'
      BY <2>4 DEF Unread
    <3> QED
      BY <2>3, <2>4, <3>1, <3>2
  <2>6. reports' \in Nat /\ {mRat', mDataRoaming', known'} \subseteq 0..reports'
    BY <2>2 DEF ReadRatAs, Becomes, Unread
  <2> QED
    BY <2>2, <2>3, <2>5, <2>6 DEF ReadRatAs, Becomes
<1>10. CASE \E x \in flying : ReadRoaming(x)
  <2>1. PICK x \in flying : ReadRoaming(x)
    BY <1>10
  <2>2. PICK y \in Messages : ReadRoamingAs(x, y)
    BY <2>1, ReadRoamingMoves
  <2>3. flying' \subseteq flying \cup {y} /\ flying \subseteq Messages
    BY <2>2 DEF ReadRoamingAs, Becomes
  <2>4. {y.rat, y.roaming, y.report} \subseteq Unread..reports' /\ reports' \in Nat
          /\ reports \in Nat /\ reports <= reports'
    BY <2>2 DEF ReadRoamingAs, Numbers, Unread
  <2>5. \A z \in flying' : {z.rat, z.roaming, z.report} \subseteq Unread..reports'
    <3>1. \A z \in flying : {z.rat, z.roaming, z.report} \subseteq Unread..reports
      OBVIOUS
    <3>2. Unread..reports \subseteq Unread..reports'
      BY <2>4 DEF Unread
    <3> QED
      BY <2>3, <2>4, <3>1, <3>2
  <2>6. reports' \in Nat /\ {mRat', mDataRoaming', known'} \subseteq 0..reports'
    BY <2>2 DEF ReadRoamingAs, Becomes, Unread
  <2> QED
    BY <2>2, <2>3, <2>5, <2>6 DEF ReadRoamingAs, Becomes
<1>11. CASE \E x \in flying : PassTranslated(x)
  <2>1. PICK x \in flying : PassTranslated(x)
    BY <1>11
  <2>2. PICK y \in Messages : PassTranslatedAs(x, y)
    BY <2>1, PassTranslatedMoves
  <2>3. flying' \subseteq flying \cup {y} /\ flying \subseteq Messages
    BY <2>2 DEF PassTranslatedAs, Becomes
  <2>4. {y.rat, y.roaming, y.report} \subseteq Unread..reports' /\ reports' \in Nat
          /\ reports \in Nat /\ reports <= reports'
    BY <2>2 DEF PassTranslatedAs, Numbers, Unread
  <2>5. \A z \in flying' : {z.rat, z.roaming, z.report} \subseteq Unread..reports'
    <3>1. \A z \in flying : {z.rat, z.roaming, z.report} \subseteq Unread..reports
      OBVIOUS
    <3>2. Unread..reports \subseteq Unread..reports'
      BY <2>4 DEF Unread
    <3> QED
      BY <2>3, <2>4, <3>1, <3>2
  <2>6. reports' \in Nat /\ {mRat', mDataRoaming', known'} \subseteq 0..reports'
    BY <2>2 DEF PassTranslatedAs, Becomes, Unread
  <2> QED
    BY <2>2, <2>3, <2>5, <2>6 DEF PassTranslatedAs, Becomes
<1>12. CASE \E x \in flying : Drop(x)
  <2> PICK x \in flying : Drop(x)
    BY <1>12
  <2> QED
    BY DEF Drop, Handled, Casts
<1>13. CASE \E x \in flying : Refuse(x)
  <2> PICK x \in flying : Refuse(x)
    BY <1>13
  <2> QED
    BY DEF Refuse, Handled, Told, Tells, Sound
<1>14. CASE \E x \in flying : StoreRoaming(x)
  <2>1. PICK x \in flying : StoreRoaming(x)
    BY <1>14
  <2>2. PICK y \in Messages : StoreRoamingAs(x, y)
    BY <2>1, StoreRoamingMoves
  <2>3. flying' \subseteq flying \cup {y} /\ flying \subseteq Messages
    BY <2>2 DEF StoreRoamingAs, Becomes
  <2>4. {y.rat, y.roaming, y.report} \subseteq Unread..reports' /\ reports' \in Nat
          /\ reports \in Nat /\ reports <= reports'
    BY <2>2 DEF StoreRoamingAs, Numbers, Unread
  <2>5. \A z \in flying' : {z.rat, z.roaming, z.report} \subseteq Unread..reports'
    <3>1. \A z \in flying : {z.rat, z.roaming, z.report} \subseteq Unread..reports
      OBVIOUS
    <3>2. Unread..reports \subseteq Unread..reports'
      BY <2>4 DEF Unread
    <3> QED
      BY <2>3, <2>4, <3>1, <3>2
  <2>6. reports' \in Nat /\ {mRat', mDataRoaming', known'} \subseteq 0..reports'
    BY <2>2 DEF StoreRoamingAs, Becomes, Unread
  <2> QED
    BY <2>2, <2>3, <2>5, <2>6 DEF StoreRoamingAs, Becomes
<1>15. CASE \E x \in flying : StoreRat(x)
  <2>1. PICK x \in flying : StoreRat(x)
    BY <1>15
  <2>2. PICK y \in Messages : StoreRatAs(x, y)
    BY <2>1, StoreRatMoves
  <2>3. flying' \subseteq flying \cup {y} /\ flying \subseteq Messages
    BY <2>2 DEF StoreRatAs, Becomes
  <2>4. {y.rat, y.roaming, y.report} \subseteq Unread..reports' /\ reports' \in Nat
          /\ reports \in Nat /\ reports <= reports'
    BY <2>2 DEF StoreRatAs, Numbers, Unread
  <2>5. \A z \in flying' : {z.rat, z.roaming, z.report} \subseteq Unread..reports'
    <3>1. \A z \in flying : {z.rat, z.roaming, z.report} \subseteq Unread..reports
      OBVIOUS
    <3>2. Unread..reports \subseteq Unread..reports'
      BY <2>4 DEF Unread
    <3> QED
      BY <2>3, <2>4, <3>1, <3>2
  <2>6. x.report = reports
    BY <2>2 DEF StoreRatAs, Newest
  <2>7. reports' \in Nat /\ {mRat', mDataRoaming', known'} \subseteq 0..reports'
    BY <2>2, <2>6 DEF StoreRatAs, Becomes
  <2> QED
    BY <2>2, <2>3, <2>5, <2>7 DEF StoreRatAs, Becomes
<1>16. CASE \E x \in flying : ForwardRegistration(x)
  <2> PICK x \in flying : ForwardRegistration(x)
    BY <1>16
  <2>1. x.report = reports
    BY DEF ForwardRegistration, Newest
  <2>2. known' \in 0..reports
    BY <2>1 DEF ForwardRegistration, Learns
  <2>3. request' \in [Serial -> Requests \cup {NotSent}] /\ misled' \in BOOLEAN
    BY DEF ForwardRegistration, Learns, Told, Tells, Sound
  <2> QED
    BY <2>2, <2>3 DEF ForwardRegistration
<1>17. CASE \E x \in flying : Forward(x)
  <2> PICK x \in flying : Forward(x)
    BY <1>17
  <2> QED
    BY DEF Forward, Answering, Told, Tells, Sound
<1>18. CASE \E x \in flying : VendorAnswers(x)
  <2>1. PICK x \in flying : VendorAnswers(x)
    BY <1>18
  <2>2. PICK y \in Messages : VendorAnswersAs(x, y)
    BY <2>1, VendorAnswersMoves
  <2>3. flying' \subseteq flying \cup {y} /\ flying \subseteq Messages
    BY <2>2 DEF VendorAnswersAs, Becomes
  <2>4. {y.rat, y.roaming, y.report} \subseteq Unread..reports' /\ reports' \in Nat
          /\ reports \in Nat /\ reports <= reports'
    BY <2>2 DEF VendorAnswersAs, Numbers, Unread
  <2>5. \A z \in flying' : {z.rat, z.roaming, z.report} \subseteq Unread..reports'
    <3>1. \A z \in flying : {z.rat, z.roaming, z.report} \subseteq Unread..reports
      OBVIOUS
    <3>2. Unread..reports \subseteq Unread..reports'
      BY <2>4 DEF Unread
    <3> QED
      BY <2>3, <2>4, <3>1, <3>2
  <2>6. reports' \in Nat /\ {mRat', mDataRoaming', known'} \subseteq 0..reports'
    BY <2>2 DEF VendorAnswersAs, Becomes, Unread
  <2> QED
    BY <2>2, <2>3, <2>5, <2>6 DEF VendorAnswersAs, Becomes
<1>19. CASE Indicate
  BY <1>19 DEF Indicate, Tells, Sound
<1>20. CASE LgeSignalStrength
  BY <1>20 DEF LgeSignalStrength, Tells, Sound
<1>21. CASE VendorDies
  BY <1>21 DEF VendorDies
<1>22. CASE ProxyRestarts
  <2>1. /\ setting' \in [Framework -> 0..5] /\ request' \in [Serial -> Requests \cup {NotSent}]
        /\ flying' = {} /\ {mRat', mDataRoaming', known'} \subseteq 0..reports' /\ reports' = 0
    BY <1>22 DEF ProxyRestarts
  <2>2. /\ framework' \in Framework /\ version' \in 0..5 /\ vendorUp' \in BOOLEAN
          /\ overlap' \in BOOLEAN
        /\ connected' \in BOOLEAN /\ misled' \in BOOLEAN
        /\ {realResponse', realIndication', mLgeRadioIndication', lgeListener'} \subseteq Framework \cup {0}
    BY <1>22 DEF ProxyRestarts
  <2> QED
    BY <2>1, <2>2
<1>23. CASE FrameworkDies
  BY <1>23 DEF FrameworkDies
<1>24. CASE UNCHANGED vars
  BY <1>24
<1> QED
  BY <1>1, <1>2, <1>3, <1>4, <1>5, <1>6, <1>7, <1>8, <1>9, <1>10, <1>11, <1>12,
     <1>13, <1>14, <1>15, <1>16, <1>17, <1>18, <1>19, <1>20, <1>21, <1>22, <1>23,
           <1>24 DEF Next, SetResponseFunctions, Proxy

(* No step makes a second message or answer of a number.                    *)
LEMMA AnsweredOnceStep == IInv /\ [Next]_vars => AnsweredOnce'
<1> SUFFICES ASSUME IInv, [Next]_vars PROVE AnsweredOnce'
  OBVIOUS
<1> USE RadioAssumption DEF IInv, TypeOK, AnsweredOnce, Sent, Messages, Framework, vars,
      others, pointers, stored
<1>1. CASE \E x \in flying :
             \/ PassOn(x) \/ Translate(x) \/ ReadRat(x) \/ ReadRoaming(x)
             \/ PassTranslated(x) \/ StoreRoaming(x) \/ StoreRat(x) \/ VendorAnswers(x)
  BY <1>1, MessagesMove, MovesKeep
<1>2. CASE \E f \in Framework : SetResponse(f)
  <2> PICK f \in Framework : SetResponse(f)
    BY <1>2
  <2> QED
    BY DEF SetResponse, Setting
<1>3. CASE \E f \in Framework : SetIndication(f)
  <2> PICK f \in Framework : SetIndication(f)
    BY <1>3
  <2> QED
    BY DEF SetIndication, Setting
<1>4. CASE \E f \in Framework : MakeLge(f)
  <2> PICK f \in Framework : MakeLge(f)
    BY <1>4
  <2> QED
    BY DEF MakeLge, Setting
<1>5. CASE \E f \in Framework : SetLge(f)
  <2> PICK f \in Framework : SetLge(f)
    BY <1>5
  <2> QED
    BY DEF SetLge, Setting
<1>6. CASE \E f \in Framework : SetVendor(f)
  <2> PICK f \in Framework : SetVendor(f)
    BY <1>6
  <2> QED
    BY DEF SetVendor, Setting
<1>7. CASE \E s \in Serial : Send(s)
  <2>1. PICK s \in Serial : Send(s)
    BY <1>7
  <2>2. PICK y \in Messages, q \in Requests : Adds(s, y, q)
    BY <2>1, SendAdds
  <2>3. request'[s] = q /\ q # NotSent /\ (\A z \in Serial \ {s} : request'[z] = request[z])
    BY <2>2, ResponseVersions DEF Adds, Requests, NotSent
  <2> QED
    BY <2>2, <2>3 DEF Adds
<1>8. CASE \E x \in flying : Drop(x)
  <2> PICK x \in flying : Drop(x)
    BY <1>8
  <2> QED
    BY DEF Drop, Handled, Casts
<1>9. CASE \E x \in flying : Refuse(x)
  <2> PICK x \in flying : Refuse(x)
    BY <1>9
  <2> QED
    BY DEF Refuse, Handled, Told, Tells, Sound
<1>10. CASE \E x \in flying : ForwardRegistration(x)
  <2> PICK x \in flying : ForwardRegistration(x)
    BY <1>10
  <2> QED
    BY DEF ForwardRegistration, Learns, Told, Tells, Sound
<1>11. CASE \E x \in flying : Forward(x)
  <2> PICK x \in flying : Forward(x)
    BY <1>11
  <2> QED
    BY DEF Forward, Answering, Told, Tells, Sound
<1>12. CASE Indicate
  BY <1>12 DEF Indicate, Tells, Sound
<1>13. CASE LgeSignalStrength
  BY <1>13 DEF LgeSignalStrength, Tells, Sound
<1>14. CASE VendorDies
  BY <1>14 DEF VendorDies
<1>15. CASE ProxyRestarts
  BY <1>15 DEF ProxyRestarts
<1>16. CASE FrameworkDies
  BY <1>16 DEF FrameworkDies
<1>17. CASE UNCHANGED vars
  BY <1>17
<1> QED
  BY <1>1, <1>2, <1>3, <1>4, <1>5, <1>6, <1>7, <1>8, <1>9, <1>10, <1>11, <1>12,
     <1>13, <1>14, <1>15, <1>16, <1>17 DEF Next, SetResponseFunctions, Proxy

(* How far the call of the living framework has got.                        *)
LEMMA RegisteredStep == IInv /\ [Next]_vars => Registered'
<1> SUFFICES ASSUME IInv, [Next]_vars PROVE Registered'
  OBVIOUS
<1> USE RadioAssumption DEF IInv, TypeOK, Registered, Framework, vars, others, pointers, stored
<1>1. CASE \E x \in flying :
             \/ PassOn(x) \/ Translate(x) \/ ReadRat(x) \/ ReadRoaming(x)
             \/ PassTranslated(x) \/ StoreRoaming(x) \/ StoreRat(x) \/ VendorAnswers(x)
  BY <1>1, MessagesMove, MovesKeep
<1>2. CASE \E f \in Framework : SetResponse(f)
  <2> PICK f \in Framework : SetResponse(f)
    BY <1>2
  <2>1. f = framework /\ setting' = [setting EXCEPT ![f] = 1] /\ realResponse' = f
          /\ framework' = framework
    BY DEF SetResponse, Setting
  <2>2. ~overlap' => \A g \in Framework : g # f => setting[g] \notin 1..4
    BY DEF SetResponse
  <2>3. setting'[f] = 1 /\ \A g \in Framework : g # f => setting'[g] = setting[g]
    BY <2>1
  <2>4. \A g \in Framework : g > framework' => setting'[g] = 0
    BY <2>1, <2>3
  <2>5. ~overlap' => /\ realResponse' = framework'
                    /\ \A g \in Framework : g # framework' => setting'[g] \notin 1..4
    BY <2>1, <2>2, <2>3
  <2>6. setting'[framework'] = 1
    BY <2>1, <2>3
  <2> QED
    BY <2>4, <2>5, <2>6, SMTT(30)
<1>3. CASE \E f \in Framework : SetIndication(f)
  <2> PICK f \in Framework : SetIndication(f)
    BY <1>3
  <2>1. /\ setting[f] = 1 /\ setting' = [setting EXCEPT ![f] = 2] /\ realIndication' = f
        /\ UNCHANGED <<framework, overlap, realResponse, mLgeRadioIndication, lgeListener>>
    BY DEF SetIndication, Setting
  <2>2. setting'[f] = 2 /\ \A g \in Framework : g # f => setting'[g] = setting[g]
    BY <2>1
  <2>3. CASE f = framework
    BY <2>1, <2>2, <2>3, SMTT(30)
  <2>4. CASE f # framework
    <3>1. f < framework /\ (overlap \/ setting[framework] = 0)
      BY <2>1, <2>4, SMTT(30)
    <3> QED
      BY <3>1, <2>1, <2>2, <2>4, SMTT(30)
  <2> QED
    BY <2>3, <2>4
<1>4. CASE \E f \in Framework : MakeLge(f)
  <2> PICK f \in Framework : MakeLge(f)
    BY <1>4
  <2>1. /\ setting[f] = 2 /\ setting' = [setting EXCEPT ![f] = 3] /\ mLgeRadioIndication' = f
        /\ UNCHANGED <<framework, overlap, realResponse, realIndication, lgeListener>>
    BY DEF MakeLge, Setting
  <2>2. setting'[f] = 3 /\ \A g \in Framework : g # f => setting'[g] = setting[g]
    BY <2>1
  <2>3. CASE f = framework
    BY <2>1, <2>2, <2>3, SMTT(30)
  <2>4. CASE f # framework
    <3>1. f < framework /\ (overlap \/ setting[framework] = 0)
      BY <2>1, <2>4, SMTT(30)
    <3> QED
      BY <3>1, <2>1, <2>2, <2>4, SMTT(30)
  <2> QED
    BY <2>3, <2>4
<1>5. CASE \E f \in Framework : SetLge(f)
  <2> PICK f \in Framework : SetLge(f)
    BY <1>5
  <2>1. /\ setting[f] = 3 /\ setting' = [setting EXCEPT ![f] = 4]
          /\ lgeListener' = mLgeRadioIndication
        /\ UNCHANGED <<framework, overlap, realResponse, realIndication, mLgeRadioIndication>>
    BY DEF SetLge, Setting
  <2>2. setting'[f] = 4 /\ \A g \in Framework : g # f => setting'[g] = setting[g]
    BY <2>1
  <2>3. CASE f = framework
    BY <2>1, <2>2, <2>3, SMTT(30)
  <2>4. CASE f # framework
    <3>1. f < framework /\ (overlap \/ setting[framework] = 0)
      BY <2>1, <2>4, SMTT(30)
    <3> QED
      BY <3>1, <2>1, <2>2, <2>4, SMTT(30)
  <2> QED
    BY <2>3, <2>4
<1>6. CASE \E f \in Framework : SetVendor(f)
  <2> PICK f \in Framework : SetVendor(f)
    BY <1>6
  <2> QED
    BY DEF SetVendor, Setting
<1>7. CASE \E s \in Serial : Send(s)
  <2>1. PICK s \in Serial : Send(s)
    BY <1>7
  <2>2. PICK y \in Messages, q \in Requests : Adds(s, y, q)
    BY <2>1, SendAdds
  <2> QED
    BY <2>2 DEF Adds
<1>8. CASE \E x \in flying : Drop(x)
  <2> PICK x \in flying : Drop(x)
    BY <1>8
  <2> QED
    BY DEF Drop, Handled, Casts
<1>9. CASE \E x \in flying : Refuse(x)
  <2> PICK x \in flying : Refuse(x)
    BY <1>9
  <2> QED
    BY DEF Refuse, Handled, Told, Tells, Sound
<1>10. CASE \E x \in flying : ForwardRegistration(x)
  <2> PICK x \in flying : ForwardRegistration(x)
    BY <1>10
  <2> QED
    BY DEF ForwardRegistration, Learns, Told, Tells, Sound
<1>11. CASE \E x \in flying : Forward(x)
  <2> PICK x \in flying : Forward(x)
    BY <1>11
  <2> QED
    BY DEF Forward, Answering, Told, Tells, Sound
<1>12. CASE Indicate
  BY <1>12 DEF Indicate, Tells, Sound
<1>13. CASE LgeSignalStrength
  BY <1>13 DEF LgeSignalStrength, Tells, Sound
<1>14. CASE VendorDies
  BY <1>14 DEF VendorDies
<1>15. CASE ProxyRestarts
  BY <1>15 DEF ProxyRestarts
<1>16. CASE FrameworkDies
  BY <1>16 DEF FrameworkDies
<1>17. CASE UNCHANGED vars
  BY <1>17
<1> QED
  BY <1>1, <1>2, <1>3, <1>4, <1>5, <1>6, <1>7, <1>8, <1>9, <1>10, <1>11, <1>12,
     <1>13, <1>14, <1>15, <1>16, <1>17 DEF Next, SetResponseFunctions, Proxy

(* Nobody asks before that call has returned.                               *)
LEMMA AskersStep == IInv /\ [Next]_vars => Askers'
<1> SUFFICES ASSUME IInv, [Next]_vars PROVE Askers'
  OBVIOUS
<1> USE RadioAssumption DEF IInv, TypeOK, Askers, AnsweredOnce, Sent, Registered, Framework,
      vars, others, pointers, stored
<1>1. CASE \E x \in flying :
             \/ PassOn(x) \/ Translate(x) \/ ReadRat(x) \/ ReadRoaming(x)
             \/ PassTranslated(x) \/ StoreRoaming(x) \/ StoreRat(x) \/ VendorAnswers(x)
  BY <1>1, MessagesMove, MovesKeep
<1>2. CASE \E f \in Framework : SetResponse(f)
  <2> PICK f \in Framework : SetResponse(f)
    BY <1>2
  <2> QED
    BY DEF SetResponse, Setting
<1>3. CASE \E f \in Framework : SetIndication(f)
  <2> PICK f \in Framework : SetIndication(f)
    BY <1>3
  <2> QED
    BY DEF SetIndication, Setting
<1>4. CASE \E f \in Framework : MakeLge(f)
  <2> PICK f \in Framework : MakeLge(f)
    BY <1>4
  <2> QED
    BY DEF MakeLge, Setting
<1>5. CASE \E f \in Framework : SetLge(f)
  <2> PICK f \in Framework : SetLge(f)
    BY <1>5
  <2> QED
    BY DEF SetLge, Setting
<1>6. CASE \E f \in Framework : SetVendor(f)
  <2> PICK f \in Framework : SetVendor(f)
    BY <1>6
  <2> QED
    BY DEF SetVendor, Setting
<1>7. CASE \E s \in Serial : Send(s)
  <2>1. PICK s \in Serial : Send(s)
    BY <1>7
  <2>2. PICK y \in Messages, q \in Requests : Adds(s, y, q)
    BY <2>1, SendAdds
  <2>3. request'[s] = q /\ q # NotSent /\ (\A z \in Serial \ {s} : request'[z] = request[z])
    BY <2>2, ResponseVersions DEF Adds, Requests, NotSent
  <2> QED
    BY <2>2, <2>3 DEF Adds
<1>8. CASE \E x \in flying : Drop(x)
  <2> PICK x \in flying : Drop(x)
    BY <1>8
  <2> QED
    BY DEF Drop, Handled, Casts
<1>9. CASE \E x \in flying : Refuse(x)
  <2> PICK x \in flying : Refuse(x)
    BY <1>9
  <2> QED
    BY DEF Refuse, Handled, Told, Tells, Sound
<1>10. CASE \E x \in flying : ForwardRegistration(x)
  <2> PICK x \in flying : ForwardRegistration(x)
    BY <1>10
  <2> QED
    BY DEF ForwardRegistration, Learns, Told, Tells, Sound
<1>11. CASE \E x \in flying : Forward(x)
  <2> PICK x \in flying : Forward(x)
    BY <1>11
  <2> QED
    BY DEF Forward, Answering, Told, Tells, Sound
<1>12. CASE Indicate
  BY <1>12 DEF Indicate, Tells, Sound
<1>13. CASE LgeSignalStrength
  BY <1>13 DEF LgeSignalStrength, Tells, Sound
<1>14. CASE VendorDies
  BY <1>14 DEF VendorDies
<1>15. CASE ProxyRestarts
  BY <1>15 DEF ProxyRestarts
<1>16. CASE FrameworkDies
  <2>1. framework' = framework + 1 /\ framework \in Nat
    BY <1>16 DEF FrameworkDies
  <2>2. ASSUME NEW s \in Serial, request'[s] # NotSent
        PROVE  request'[s] = request[s] /\ Sent(s)
    BY <1>16, <2>2 DEF FrameworkDies
  <2>3. \A s \in Serial : Sent(s) => request[s].by \in Nat
    BY DEF Requests
  <2> QED
    BY <2>1, <2>2, <2>3
<1>17. CASE UNCHANGED vars
  BY <1>17
<1> QED
  BY <1>1, <1>2, <1>3, <1>4, <1>5, <1>6, <1>7, <1>8, <1>9, <1>10, <1>11, <1>12,
     <1>13, <1>14, <1>15, <1>16, <1>17 DEF Next, SetResponseFunctions, Proxy

(* A message leaves only by an answer or a permitted drop.                  *)
LEMMA NoneForgottenStep == IInv /\ [Next]_vars => NoneForgotten'
<1> SUFFICES ASSUME IInv, [Next]_vars PROVE NoneForgotten'
  OBVIOUS
<1> USE RadioAssumption DEF IInv, TypeOK, Messages, AnsweredOnce, Askers, Registered,
      NoneForgotten, Sent, Translatable, Framework, vars, others, pointers, stored
<1>1. CASE \E x \in flying :
             \/ PassOn(x) \/ Translate(x) \/ ReadRat(x) \/ ReadRoaming(x)
             \/ PassTranslated(x) \/ StoreRoaming(x) \/ StoreRat(x) \/ VendorAnswers(x)
  BY <1>1, MessagesMove, MovesKeep
<1>2. CASE \E f \in Framework : SetResponse(f)
  <2> PICK f \in Framework : SetResponse(f)
    BY <1>2
  <2> QED
    BY DEF SetResponse, Setting
<1>3. CASE \E f \in Framework : SetIndication(f)
  <2> PICK f \in Framework : SetIndication(f)
    BY <1>3
  <2> QED
    BY DEF SetIndication, Setting
<1>4. CASE \E f \in Framework : MakeLge(f)
  <2> PICK f \in Framework : MakeLge(f)
    BY <1>4
  <2> QED
    BY DEF MakeLge, Setting
<1>5. CASE \E f \in Framework : SetLge(f)
  <2> PICK f \in Framework : SetLge(f)
    BY <1>5
  <2> QED
    BY DEF SetLge, Setting
<1>6. CASE \E f \in Framework : SetVendor(f)
  <2> PICK f \in Framework : SetVendor(f)
    BY <1>6
  <2> QED
    BY DEF SetVendor, Setting
<1>7. CASE \E s \in Serial : Send(s)
  <2>1. PICK s \in Serial : Send(s)
    BY <1>7
  <2>2. PICK y \in Messages, q \in Requests : Adds(s, y, q)
    BY <2>1, SendAdds
  <2>3. request'[s] = q /\ q # NotSent /\ (\A z \in Serial \ {s} : request'[z] = request[z])
    BY <2>2, ResponseVersions DEF Adds, Requests, NotSent
  <2> QED
    BY <2>2, <2>3 DEF Adds
<1>8. CASE \E x \in flying : Drop(x)
  <2> PICK x \in flying : Drop(x)
    BY <1>8
  <2>1. vendorUp => ~Translatable(request[x.serial])
    BY DEF Drop, Casts
  <2>2. /\ flying' = flying \ {x}
        /\ UNCHANGED <<version, vendorUp, framework, overlap, request>>
    BY DEF Drop
  <2> QED
    BY <2>1, <2>2
<1>9. CASE \E x \in flying : Refuse(x)
  <2> PICK x \in flying : Refuse(x)
    BY <1>9
  <2> QED
    BY SMTT(30) DEF Refuse, Handled, Told, Tells, Sound
<1>10. CASE \E x \in flying : ForwardRegistration(x)
  <2> PICK x \in flying : ForwardRegistration(x)
    BY <1>10
  <2> QED
    BY SMTT(30) DEF ForwardRegistration, Learns, Told, Tells, Sound
<1>11. CASE \E x \in flying : Forward(x)
  <2> PICK x \in flying : Forward(x)
    BY <1>11
  <2> QED
    BY DEF Forward, Answering, Told, Tells, Sound
<1>12. CASE Indicate
  BY <1>12 DEF Indicate, Tells, Sound
<1>13. CASE LgeSignalStrength
  BY <1>13 DEF LgeSignalStrength, Tells, Sound
<1>14. CASE VendorDies
  BY <1>14 DEF VendorDies
<1>15. CASE ProxyRestarts
  BY <1>15 DEF ProxyRestarts
<1>16. CASE FrameworkDies
  BY <1>16 DEF FrameworkDies
<1>17. CASE UNCHANGED vars
  BY <1>17
<1> QED
  BY <1>1, <1>2, <1>3, <1>4, <1>5, <1>6, <1>7, <1>8, <1>9, <1>10, <1>11, <1>12,
     <1>13, <1>14, <1>15, <1>16, <1>17 DEF Next, SetResponseFunctions, Proxy

(* Answers go to the functions of the living framework.                     *)
LEMMA HeardByTheLivingStep == IInv /\ [Next]_vars => HeardByTheLiving'
<1> SUFFICES ASSUME IInv, [Next]_vars PROVE HeardByTheLiving'
  OBVIOUS
<1> USE RadioAssumption DEF IInv, HeardByTheLiving, TypeOK, Registered, Framework, vars,
      others, pointers, stored
<1>1. CASE \E x \in flying :
             \/ PassOn(x) \/ Translate(x) \/ ReadRat(x) \/ ReadRoaming(x)
             \/ PassTranslated(x) \/ StoreRoaming(x) \/ StoreRat(x) \/ VendorAnswers(x)
  BY <1>1, MessagesMove, MovesKeep
<1>2. CASE \E f \in Framework : SetResponse(f)
  <2> PICK f \in Framework : SetResponse(f)
    BY <1>2
  <2> QED
    BY DEF SetResponse, Setting
<1>3. CASE \E f \in Framework : SetIndication(f)
  <2> PICK f \in Framework : SetIndication(f)
    BY <1>3
  <2> QED
    BY DEF SetIndication, Setting
<1>4. CASE \E f \in Framework : MakeLge(f)
  <2> PICK f \in Framework : MakeLge(f)
    BY <1>4
  <2> QED
    BY DEF MakeLge, Setting
<1>5. CASE \E f \in Framework : SetLge(f)
  <2> PICK f \in Framework : SetLge(f)
    BY <1>5
  <2> QED
    BY DEF SetLge, Setting
<1>6. CASE \E f \in Framework : SetVendor(f)
  <2> PICK f \in Framework : SetVendor(f)
    BY <1>6
  <2> QED
    BY DEF SetVendor, Setting
<1>7. CASE \E s \in Serial : Send(s)
  <2>1. PICK s \in Serial : Send(s)
    BY <1>7
  <2>2. PICK y \in Messages, q \in Requests : Adds(s, y, q)
    BY <2>1, SendAdds
  <2> QED
    BY <2>2 DEF Adds
<1>8. CASE \E x \in flying : Drop(x)
  <2> PICK x \in flying : Drop(x)
    BY <1>8
  <2> QED
    BY DEF Drop, Handled, Casts
<1>9. CASE \E x \in flying : Refuse(x)
  <2> PICK x \in flying : Refuse(x)
    BY <1>9
  <2> QED
    BY DEF Refuse, Handled, Told, Tells, Sound
<1>10. CASE \E x \in flying : ForwardRegistration(x)
  <2> PICK x \in flying : ForwardRegistration(x)
    BY <1>10
  <2> QED
    BY DEF ForwardRegistration, Learns, Told, Tells, Sound
<1>11. CASE \E x \in flying : Forward(x)
  <2> PICK x \in flying : Forward(x)
    BY <1>11
  <2> QED
    BY DEF Forward, Answering, Told, Tells, Sound
<1>12. CASE Indicate
  BY <1>12 DEF Indicate, Tells, Sound
<1>13. CASE LgeSignalStrength
  BY <1>13 DEF LgeSignalStrength, Tells, Sound
<1>14. CASE VendorDies
  BY <1>14 DEF VendorDies
<1>15. CASE ProxyRestarts
  BY <1>15 DEF ProxyRestarts
<1>16. CASE FrameworkDies
  BY <1>16 DEF FrameworkDies
<1>17. CASE UNCHANGED vars
  BY <1>17
<1> QED
  BY <1>1, <1>2, <1>3, <1>4, <1>5, <1>6, <1>7, <1>8, <1>9, <1>10, <1>11, <1>12,
     <1>13, <1>14, <1>15, <1>16, <1>17 DEF Next, SetResponseFunctions, Proxy

(* Reports are stored in order, before they are forwarded.                  *)
LEMMA NewestStep == IInv /\ [Next]_vars => Newest'
<1> SUFFICES ASSUME IInv, [Next]_vars PROVE Newest'
  OBVIOUS
<1> USE RadioAssumption DEF IInv, TypeOK, Messages, AnsweredOnce, Newest, Sent, Framework,
      vars, others, pointers, stored
<1>1. CASE \E f \in Framework : SetResponse(f)
  <2> PICK f \in Framework : SetResponse(f)
    BY <1>1
  <2> QED
    BY DEF SetResponse, Setting
<1>2. CASE \E f \in Framework : SetIndication(f)
  <2> PICK f \in Framework : SetIndication(f)
    BY <1>2
  <2> QED
    BY DEF SetIndication, Setting
<1>3. CASE \E f \in Framework : MakeLge(f)
  <2> PICK f \in Framework : MakeLge(f)
    BY <1>3
  <2> QED
    BY DEF MakeLge, Setting
<1>4. CASE \E f \in Framework : SetLge(f)
  <2> PICK f \in Framework : SetLge(f)
    BY <1>4
  <2> QED
    BY DEF SetLge, Setting
<1>5. CASE \E f \in Framework : SetVendor(f)
  <2> PICK f \in Framework : SetVendor(f)
    BY <1>5
  <2> QED
    BY DEF SetVendor, Setting
<1>6. CASE \E s \in Serial : Send(s)
  <2>1. PICK s \in Serial : Send(s)
    BY <1>6
  <2>2. PICK y \in Messages, q \in Requests : Adds(s, y, q)
    BY <2>1, SendAdds
  <2>3. request'[s] = q /\ q # NotSent /\ (\A z \in Serial \ {s} : request'[z] = request[z])
    BY <2>2, ResponseVersions DEF Adds, Requests, NotSent
  <2> QED
    BY <2>2, <2>3 DEF Adds
<1>7. CASE \E x \in flying : PassOn(x)
  <2>1. PICK x \in flying : PassOn(x)
    BY <1>7
  <2>2. PICK y \in Messages : PassOnAs(x, y)
    BY <2>1, PassOnMoves
  <2> QED
    BY <2>2 DEF PassOnAs, Becomes, Numbers, Unread
<1>8. CASE \E x \in flying : Translate(x)
  <2>1. PICK x \in flying : Translate(x)
    BY <1>8
  <2>2. PICK y \in Messages : TranslateAs(x, y)
    BY <2>1, TranslateMoves
  <2> QED
    BY <2>2 DEF TranslateAs, Becomes, Numbers, Unread
<1>9. CASE \E x \in flying : ReadRat(x)
  <2>1. PICK x \in flying : ReadRat(x)
    BY <1>9
  <2>2. PICK y \in Messages : ReadRatAs(x, y)
    BY <2>1, ReadRatMoves
  <2> QED
    BY <2>2 DEF ReadRatAs, Becomes, Numbers, Unread
<1>10. CASE \E x \in flying : ReadRoaming(x)
  <2>1. PICK x \in flying : ReadRoaming(x)
    BY <1>10
  <2>2. PICK y \in Messages : ReadRoamingAs(x, y)
    BY <2>1, ReadRoamingMoves
  <2> QED
    BY <2>2 DEF ReadRoamingAs, Becomes, Numbers, Unread
<1>11. CASE \E x \in flying : PassTranslated(x)
  <2>1. PICK x \in flying : PassTranslated(x)
    BY <1>11
  <2>2. PICK y \in Messages : PassTranslatedAs(x, y)
    BY <2>1, PassTranslatedMoves
  <2> QED
    BY <2>2 DEF PassTranslatedAs, Becomes, Numbers, Unread
<1>12. CASE \E x \in flying : Drop(x)
  <2> PICK x \in flying : Drop(x)
    BY <1>12
  <2> QED
    BY DEF Drop, Handled, Casts
<1>13. CASE \E x \in flying : Refuse(x)
  <2> PICK x \in flying : Refuse(x)
    BY <1>13
  <2> QED
    BY DEF Refuse, Handled, Told, Tells, Sound
<1>14. CASE \E x \in flying : StoreRoaming(x)
  <2>1. PICK x \in flying : StoreRoaming(x)
    BY <1>14
  <2>2. PICK y \in Messages : StoreRoamingAs(x, y)
    BY <2>1, StoreRoamingMoves
  <2>3. \A z \in flying' : z.at = "storing" => z = y
    BY <2>2 DEF StoreRoamingAs, Becomes
  <2>4. y.report = reports' /\ mDataRoaming' = reports'
    BY <2>2 DEF StoreRoamingAs
  <2>5. \A s \in Serial : Sent(s) => request[s].known <= reports + 1
    BY DEF Requests
  <2>6. request' = request /\ reports' = reports + 1
    BY <2>2 DEF StoreRoamingAs, Becomes
  <2> QED
    BY <2>3, <2>4, <2>5, <2>6
<1>15. CASE \E x \in flying : StoreRat(x)
  <2>1. PICK x \in flying : StoreRat(x)
    BY <1>15
  <2>2. PICK y \in Messages : StoreRatAs(x, y)
    BY <2>1, StoreRatMoves
  <2> QED
    BY <2>2 DEF StoreRatAs, Becomes, Numbers, Unread
<1>16. CASE \E x \in flying : ForwardRegistration(x)
  <2> PICK x \in flying : ForwardRegistration(x)
    BY <1>16
  <2> QED
    BY DEF ForwardRegistration, Learns, Told, Tells, Sound
<1>17. CASE \E x \in flying : Forward(x)
  <2> PICK x \in flying : Forward(x)
    BY <1>17
  <2> QED
    BY DEF Forward, Answering, Told, Tells, Sound
<1>18. CASE \E x \in flying : VendorAnswers(x)
  <2>1. PICK x \in flying : VendorAnswers(x)
    BY <1>18
  <2>2. PICK y \in Messages : VendorAnswersAs(x, y)
    BY <2>1, VendorAnswersMoves
  <2> QED
    BY <2>2 DEF VendorAnswersAs, Becomes, Numbers, Unread
<1>19. CASE Indicate
  BY <1>19 DEF Indicate, Tells, Sound
<1>20. CASE LgeSignalStrength
  BY <1>20 DEF LgeSignalStrength, Tells, Sound
<1>21. CASE VendorDies
  BY <1>21 DEF VendorDies
<1>22. CASE ProxyRestarts
  BY <1>22 DEF ProxyRestarts
<1>23. CASE FrameworkDies
  BY <1>23 DEF FrameworkDies
<1>24. CASE UNCHANGED vars
  BY <1>24
<1> QED
  BY <1>1, <1>2, <1>3, <1>4, <1>5, <1>6, <1>7, <1>8, <1>9, <1>10, <1>11, <1>12,
     <1>13, <1>14, <1>15, <1>16, <1>17, <1>18, <1>19, <1>20, <1>21, <1>22, <1>23,
           <1>24 DEF Next, SetResponseFunctions, Proxy

(* An old vendor has always reported the technology.                        *)
LEMMA RatIsStoredStep == IInv /\ [Next]_vars => RatIsStored'
<1> SUFFICES ASSUME IInv, [Next]_vars PROVE RatIsStored'
  OBVIOUS
<1> USE RadioAssumption DEF IInv, TypeOK, Messages, AnsweredOnce, Newest, RatIsStored, Sent,
      Framework, vars, others, pointers, stored
<1>1. CASE \E f \in Framework : SetResponse(f)
  <2> PICK f \in Framework : SetResponse(f)
    BY <1>1
  <2> QED
    BY DEF SetResponse, Setting
<1>2. CASE \E f \in Framework : SetIndication(f)
  <2> PICK f \in Framework : SetIndication(f)
    BY <1>2
  <2> QED
    BY DEF SetIndication, Setting
<1>3. CASE \E f \in Framework : MakeLge(f)
  <2> PICK f \in Framework : MakeLge(f)
    BY <1>3
  <2> QED
    BY DEF MakeLge, Setting
<1>4. CASE \E f \in Framework : SetLge(f)
  <2> PICK f \in Framework : SetLge(f)
    BY <1>4
  <2> QED
    BY DEF SetLge, Setting
<1>5. CASE \E f \in Framework : SetVendor(f)
  <2> PICK f \in Framework : SetVendor(f)
    BY <1>5
  <2> QED
    BY DEF SetVendor, Setting
<1>6. CASE \E s \in Serial : Send(s)
  <2>1. PICK s \in Serial : Send(s)
    BY <1>6
  <2>2. PICK y \in Messages, q \in Requests : Adds(s, y, q)
    BY <2>1, SendAdds
  <2>3. request'[s] = q /\ q # NotSent /\ (\A z \in Serial \ {s} : request'[z] = request[z])
    BY <2>2, ResponseVersions DEF Adds, Requests, NotSent
  <2> QED
    BY <2>2, <2>3 DEF Adds
<1>7. CASE \E x \in flying : PassOn(x)
  <2>1. PICK x \in flying : PassOn(x)
    BY <1>7
  <2>2. PICK y \in Messages : PassOnAs(x, y)
    BY <2>1, PassOnMoves
  <2> QED
    BY <2>2 DEF PassOnAs, Becomes, Numbers, Unread
<1>8. CASE \E x \in flying : Translate(x)
  <2>1. PICK x \in flying : Translate(x)
    BY <1>8
  <2>2. PICK y \in Messages : TranslateAs(x, y)
    BY <2>1, TranslateMoves
  <2> QED
    BY <2>2 DEF TranslateAs, Becomes, Numbers, Unread
<1>9. CASE \E x \in flying : ReadRat(x)
  <2>1. PICK x \in flying : ReadRat(x)
    BY <1>9
  <2>2. PICK y \in Messages : ReadRatAs(x, y)
    BY <2>1, ReadRatMoves
  <2> QED
    BY <2>2 DEF ReadRatAs, Becomes, Numbers, Unread
<1>10. CASE \E x \in flying : ReadRoaming(x)
  <2>1. PICK x \in flying : ReadRoaming(x)
    BY <1>10
  <2>2. PICK y \in Messages : ReadRoamingAs(x, y)
    BY <2>1, ReadRoamingMoves
  <2> QED
    BY <2>2 DEF ReadRoamingAs, Becomes, Numbers, Unread
<1>11. CASE \E x \in flying : PassTranslated(x)
  <2>1. PICK x \in flying : PassTranslated(x)
    BY <1>11
  <2>2. PICK y \in Messages : PassTranslatedAs(x, y)
    BY <2>1, PassTranslatedMoves
  <2> QED
    BY <2>2 DEF PassTranslatedAs, Becomes, Numbers, Unread
<1>12. CASE \E x \in flying : Drop(x)
  <2> PICK x \in flying : Drop(x)
    BY <1>12
  <2> QED
    BY DEF Drop, Handled, Casts
<1>13. CASE \E x \in flying : Refuse(x)
  <2> PICK x \in flying : Refuse(x)
    BY <1>13
  <2> QED
    BY DEF Refuse, Handled, Told, Tells, Sound
<1>14. CASE \E x \in flying : StoreRoaming(x)
  <2>1. PICK x \in flying : StoreRoaming(x)
    BY <1>14
  <2>2. PICK y \in Messages : StoreRoamingAs(x, y)
    BY <2>1, StoreRoamingMoves
  <2> QED
    BY <2>2 DEF StoreRoamingAs, Becomes, Numbers, Unread
<1>15. CASE \E x \in flying : StoreRat(x)
  <2>1. PICK x \in flying : StoreRat(x)
    BY <1>15
  <2>2. PICK y \in Messages : StoreRatAs(x, y)
    BY <2>1, StoreRatMoves
  <2> QED
    BY <2>2 DEF StoreRatAs, Becomes, Numbers, Unread
<1>16. CASE \E x \in flying : ForwardRegistration(x)
  <2> PICK x \in flying : ForwardRegistration(x)
    BY <1>16
  <2> QED
    BY DEF ForwardRegistration, Learns, Told, Tells, Sound
<1>17. CASE \E x \in flying : Forward(x)
  <2> PICK x \in flying : Forward(x)
    BY <1>17
  <2> QED
    BY DEF Forward, Answering, Told, Tells, Sound
<1>18. CASE \E x \in flying : VendorAnswers(x)
  <2>1. PICK x \in flying : VendorAnswers(x)
    BY <1>18
  <2>2. PICK y \in Messages : VendorAnswersAs(x, y)
    BY <2>1, VendorAnswersMoves
  <2> QED
    BY <2>2 DEF VendorAnswersAs, Becomes, Numbers, Unread
<1>19. CASE Indicate
  BY <1>19 DEF Indicate, Tells, Sound
<1>20. CASE LgeSignalStrength
  BY <1>20 DEF LgeSignalStrength, Tells, Sound
<1>21. CASE VendorDies
  BY <1>21 DEF VendorDies
<1>22. CASE ProxyRestarts
  BY <1>22 DEF ProxyRestarts
<1>23. CASE FrameworkDies
  BY <1>23 DEF FrameworkDies
<1>24. CASE UNCHANGED vars
  BY <1>24
<1> QED
  BY <1>1, <1>2, <1>3, <1>4, <1>5, <1>6, <1>7, <1>8, <1>9, <1>10, <1>11, <1>12,
     <1>13, <1>14, <1>15, <1>16, <1>17, <1>18, <1>19, <1>20, <1>21, <1>22, <1>23,
           <1>24 DEF Next, SetResponseFunctions, Proxy

(* What is read is no older than what the framework knew.                   *)
LEMMA ReadingStep == IInv /\ [Next]_vars => Reading'
<1> SUFFICES ASSUME IInv, [Next]_vars PROVE Reading'
  OBVIOUS
<1> USE RadioAssumption DEF IInv, TypeOK, Messages, AnsweredOnce, Newest, RatIsStored,
      Reading, Sent, Framework, vars, others, pointers, stored
<1>1. CASE \E f \in Framework : SetResponse(f)
  <2> PICK f \in Framework : SetResponse(f)
    BY <1>1
  <2> QED
    BY DEF SetResponse, Setting
<1>2. CASE \E f \in Framework : SetIndication(f)
  <2> PICK f \in Framework : SetIndication(f)
    BY <1>2
  <2> QED
    BY DEF SetIndication, Setting
<1>3. CASE \E f \in Framework : MakeLge(f)
  <2> PICK f \in Framework : MakeLge(f)
    BY <1>3
  <2> QED
    BY DEF MakeLge, Setting
<1>4. CASE \E f \in Framework : SetLge(f)
  <2> PICK f \in Framework : SetLge(f)
    BY <1>4
  <2> QED
    BY DEF SetLge, Setting
<1>5. CASE \E f \in Framework : SetVendor(f)
  <2> PICK f \in Framework : SetVendor(f)
    BY <1>5
  <2> QED
    BY DEF SetVendor, Setting
<1>6. CASE \E s \in Serial : Send(s)
  <2>1. PICK s \in Serial : Send(s)
    BY <1>6
  <2>2. PICK y \in Messages, q \in Requests : Adds(s, y, q)
    BY <2>1, SendAdds
  <2>3. request'[s] = q /\ q # NotSent /\ (\A z \in Serial \ {s} : request'[z] = request[z])
    BY <2>2, ResponseVersions DEF Adds, Requests, NotSent
  <2> QED
    BY <2>2, <2>3 DEF Adds
<1>7. CASE \E x \in flying : PassOn(x)
  <2>1. PICK x \in flying : PassOn(x)
    BY <1>7
  <2>2. PICK y \in Messages : PassOnAs(x, y)
    BY <2>1, PassOnMoves
  <2> QED
    BY <2>2 DEF PassOnAs, Becomes, Numbers, Unread
<1>8. CASE \E x \in flying : Translate(x)
  <2>1. PICK x \in flying : Translate(x)
    BY <1>8
  <2>2. PICK y \in Messages : TranslateAs(x, y)
    BY <2>1, TranslateMoves
  <2> QED
    BY <2>2 DEF TranslateAs, Becomes, Numbers, Unread
<1>9. CASE \E x \in flying : ReadRat(x)
  <2>1. PICK x \in flying : ReadRat(x)
    BY <1>9
  <2>2. PICK y \in Messages : ReadRatAs(x, y)
    BY <2>1, ReadRatMoves
  <2> QED
    BY <2>2 DEF ReadRatAs, Becomes, Numbers, Unread
<1>10. CASE \E x \in flying : ReadRoaming(x)
  <2>1. PICK x \in flying : ReadRoaming(x)
    BY <1>10
  <2>2. PICK y \in Messages : ReadRoamingAs(x, y)
    BY <2>1, ReadRoamingMoves
  <2> QED
    BY <2>2 DEF ReadRoamingAs, Becomes, Numbers, Unread
<1>11. CASE \E x \in flying : PassTranslated(x)
  <2>1. PICK x \in flying : PassTranslated(x)
    BY <1>11
  <2>2. PICK y \in Messages : PassTranslatedAs(x, y)
    BY <2>1, PassTranslatedMoves
  <2> QED
    BY <2>2 DEF PassTranslatedAs, Becomes, Numbers, Unread
<1>12. CASE \E x \in flying : Drop(x)
  <2> PICK x \in flying : Drop(x)
    BY <1>12
  <2> QED
    BY DEF Drop, Handled, Casts
<1>13. CASE \E x \in flying : Refuse(x)
  <2> PICK x \in flying : Refuse(x)
    BY <1>13
  <2> QED
    BY DEF Refuse, Handled, Told, Tells, Sound
<1>14. CASE \E x \in flying : StoreRoaming(x)
  <2>1. PICK x \in flying : StoreRoaming(x)
    BY <1>14
  <2>2. PICK y \in Messages : StoreRoamingAs(x, y)
    BY <2>1, StoreRoamingMoves
  <2> QED
    BY <2>2 DEF StoreRoamingAs, Becomes, Numbers, Unread
<1>15. CASE \E x \in flying : StoreRat(x)
  <2>1. PICK x \in flying : StoreRat(x)
    BY <1>15
  <2>2. PICK y \in Messages : StoreRatAs(x, y)
    BY <2>1, StoreRatMoves
  <2> QED
    BY <2>2 DEF StoreRatAs, Becomes, Numbers, Unread
<1>16. CASE \E x \in flying : ForwardRegistration(x)
  <2> PICK x \in flying : ForwardRegistration(x)
    BY <1>16
  <2> QED
    BY DEF ForwardRegistration, Learns, Told, Tells, Sound
<1>17. CASE \E x \in flying : Forward(x)
  <2> PICK x \in flying : Forward(x)
    BY <1>17
  <2> QED
    BY DEF Forward, Answering, Told, Tells, Sound
<1>18. CASE \E x \in flying : VendorAnswers(x)
  <2>1. PICK x \in flying : VendorAnswers(x)
    BY <1>18
  <2>2. PICK y \in Messages : VendorAnswersAs(x, y)
    BY <2>1, VendorAnswersMoves
  <2> QED
    BY <2>2 DEF VendorAnswersAs, Becomes, Numbers, Unread
<1>19. CASE Indicate
  BY <1>19 DEF Indicate, Tells, Sound
<1>20. CASE LgeSignalStrength
  BY <1>20 DEF LgeSignalStrength, Tells, Sound
<1>21. CASE VendorDies
  BY <1>21 DEF VendorDies
<1>22. CASE ProxyRestarts
  BY <1>22 DEF ProxyRestarts
<1>23. CASE FrameworkDies
  BY <1>23 DEF FrameworkDies
<1>24. CASE UNCHANGED vars
  BY <1>24
<1> QED
  BY <1>1, <1>2, <1>3, <1>4, <1>5, <1>6, <1>7, <1>8, <1>9, <1>10, <1>11, <1>12,
     <1>13, <1>14, <1>15, <1>16, <1>17, <1>18, <1>19, <1>20, <1>21, <1>22, <1>23,
           <1>24 DEF Next, SetResponseFunctions, Proxy

(* The invariant holds in the beginning.                                    *)
LEMMA InitHolds == Init => IInv
<1> SUFFICES ASSUME Init PROVE IInv
  OBVIOUS
<1> USE RadioAssumption DEF Init, Sent
<1>1. TypeOK
  <2>1. 1 \in Framework /\ setting \in [Framework -> 0..5]
    BY DEF Framework
  <2>2. request \in [Serial -> Requests \cup {NotSent}]
    OBVIOUS
  <2>3. /\ {mRat, mDataRoaming, known} \subseteq 0..reports /\ reports \in Nat
        /\ failed \subseteq 1..reports
    OBVIOUS
  <2> QED
    BY <2>1, <2>2, <2>3 DEF TypeOK
<1>2. AnsweredOnce /\ Registered /\ Askers /\ HeardByTheLiving
  BY DEF AnsweredOnce, Registered, Askers, HeardByTheLiving, Framework
<1>3. NoneForgotten /\ Newest /\ RatIsStored /\ Reading /\ Failures
  BY DEF NoneForgotten, Newest, RatIsStored, Reading, Failures
<1> QED
  BY <1>1, <1>2, <1>3 DEF IInv

(* Every step keeps every part.                                              *)
LEMMA Invariance == Spec => []IInv
<1>1. IInv /\ [Next]_vars => IInv'
  BY TypeOKStep, AnsweredOnceStep, RegisteredStep, AskersStep, NoneForgottenStep,
     HeardByTheLivingStep, NewestStep, RatIsStoredStep, ReadingStep, FailuresStep DEF IInv
<1> QED
  BY InitHolds, <1>1, PTL DEF Spec

(* No variable leaves its range; no data call and no request refers to a     *)
(* registration report the proxy has not handled (Radio, RadioResponse).     *)
THEOREM RadioTypeCorrect == Spec => []TypeOK
<1>1. IInv => TypeOK
  BY DEF IInv
<1> QED
  BY <1>1, Invariance, PTL

(* Radio and RadioResponse never answer a serial number twice, and what they *)
(* work on is still waited for, whatever dies in between.                    *)
THEOREM EachAnsweredOnce == Spec => []AnsweredOnce
<1>1. IInv => AnsweredOnce
  BY DEF IInv
<1> QED
  BY <1>1, Invariance, PTL

(* Radio forgets a request of the living framework only where it has no      *)
(* older method for it and does not refuse it.                               *)
THEOREM OnlyTheOldIsForgotten == Spec => []NoneForgotten
<1>1. IInv => NoneForgotten
  BY DEF IInv
<1> QED
  BY <1>1, Invariance, PTL

(* Roaming and radio technology that setupDataCall_1_4() and the like add    *)
(* are of an answer at least as new as the report the framework knew of when *)
(* it asked, although RadioResponse stores them in two steps from another    *)
(* thread; and of a failed answer, which it stores as well, only if that one *)
(* came after the report.                                                    *)
THEOREM AddedIsFresh == Spec => []FreshRegistration
<1>1. IInv => FreshRegistration
  <2> SUFFICES ASSUME IInv, NEW x \in flying, x.at = "vendor"
               PROVE  /\ "roaming" \in Added(request[x.serial], x.version)
                           => Fresh(x.roaming, request[x.serial])
                      /\ "rat" \in Added(request[x.serial], x.version)
                           => Fresh(x.rat, request[x.serial])
    BY DEF FreshRegistration
  <2>1. x.left = {} /\ vendorUp
    BY DEF IInv, Reading
  <2>2. /\ "roaming" \in Added(request[x.serial], x.version)
             => x.roaming >= request[x.serial].known
        /\ "rat" \in Added(request[x.serial], x.version)
             => x.rat >= request[x.serial].known
    BY <2>1 DEF IInv, Reading
  <2>3. x.serial \in Serial /\ Sent(x.serial) /\ {x.rat, x.roaming} \subseteq Int
    BY DEF IInv, TypeOK, AnsweredOnce, Messages
  <2>4. request[x.serial].known \in Nat /\ request[x.serial].known \notin failed
    BY <2>3, FlyingIs DEF IInv, Failures, Requests
  <2> QED
    BY <2>2, <2>3, <2>4 DEF Fresh
<1> QED
  BY <1>1, Invariance, PTL

(* setResponseFunctions() once returned, only the living framework is told.  *)
THEOREM OnlyTheLivingHear == Spec => []HeardByTheLiving
<1>1. IInv => HeardByTheLiving
  BY DEF IInv
<1> QED
  BY <1>1, Invariance, PTL

-----------------------------------------------------------------------------
(* What a message in flight says is in kind with the request r it is for: on *)
(* its way to the vendor it is the method asked for or an older one it may   *)
(* be passed on as; on its way back it will do for the method asked for.     *)
Suits(x, r) ==
  /\ x.at \in {"proxy", "reading", "vendor"} =>
       \/ x.version = r.version
       \/ <<r.name, r.version, x.version>> \in Older
  /\ x.at \in {"answered", "storing"} => Raised(r.name, x.version) >= Paired(r.name, r.version)

(* What is waited for is a method the framework calls.                       *)
MethodsAsked ==
  \A s \in Serial : Sent(s) => [name |-> request[s].name, version |-> request[s].version] \in Asked

(* The inductive invariant of the answers' versions, on top of IInv.         *)
InKind ==
  /\ MethodsAsked
  /\ \A x \in flying : Suits(x, request[x.serial])

(* The newest version of a set, once it is known.                            *)
LEMMA MaxIs ==
  ASSUME NEW S \in SUBSET (0..5), NEW m \in S, \A y \in S : y <= m
  PROVE  Max(S) = m
<1>1. Max(S) \in S /\ Max(S) >= m
  BY MaxIsOne
<1>2. Max(S) <= m /\ Max(S) \in 0..5 /\ m \in 0..5
  BY <1>1
<1> QED
  BY <1>1, <1>2

(* A method with a response has a paired one, none newer than itself.        *)
LEMMA PairedIsOne ==
  ASSUME NEW n \in DOMAIN Responses, NEW v \in 0..5, NEW a \in Responses[n], a <= v
  PROVE  Paired(n, v) \in 0..5 /\ Paired(n, v) >= a
<1> DEFINE S == {r \in Responses[n] : r <= v}
<1>1. S \in SUBSET (0..5) /\ a \in S
  BY ResponseVersions
<1>2. Max(S) \in S /\ Max(S) >= a
  BY <1>1, MaxIsOne
<1> QED
  BY <1>1, <1>2 DEF Paired

(* A request goes on as the method it is, or as an older one of the table.   *)
LEMMA PassedIsInTable ==
  ASSUME NEW r \in Requests, NEW v \in 0..5, NEW o \in Passed(r, v)
  PROVE  o = r.version \/ <<r.name, r.version, o>> \in Older
<1> DEFINE old == {p \in 0..v : <<r.name, r.version, p>> \in Older}
<1>1. CASE r.version <= v
  BY <1>1 DEF Passed
<1>2. CASE ~(r.version <= v)
  <2>1. old # {} /\ o = Max(old)
    BY <1>2 DEF Passed
  <2>2. old \in SUBSET (0..5)
    OBVIOUS
  <2>3. o \in old
    BY <2>1, <2>2, MaxIsOne
  <2> QED
    BY <2>3
<1> QED
  BY <1>1, <1>2

(* Whatever an older method is answered with, what RadioResponse makes of it *)
(* is as new as the response paired with the method that was called.         *)
LEMMA OlderAnswersSuit ==
  ASSUME NEW n, NEW v, NEW o, <<n, v, o>> \in Older, NEW a \in Responses[n]
  PROVE  Raised(n, a) >= Paired(n, v)
<1>1. CASE n = "setSimCardPower" /\ v = 1
  <2>1. {r \in Responses[n] : r <= v} = {0, 1}
    BY <1>1 DEF Responses
  <2>2. Paired(n, v) = 1
    BY <2>1, MaxIs DEF Paired
  <2> QED
    BY <1>1, <2>2 DEF Raised, RaisedTo, Responses
<1>2. CASE n \in {"setIndicationFilter", "deactivateDataCall"} /\ v = 2
  <2>1. {r \in Responses[n] : r <= v} = {0}
    BY <1>2 DEF Responses
  <2>2. Paired(n, v) = 0
    BY <2>1, MaxIs DEF Paired
  <2> QED
    BY <1>2, <2>2 DEF Raised, RaisedTo, Responses
<1>3. CASE n \in {"setInitialAttachApn", "setDataProfile"} /\ v = 4
  <2>1. {r \in Responses[n] : r <= v} = {0}
    BY <1>3 DEF Responses
  <2>2. Paired(n, v) = 0
    BY <2>1, MaxIs DEF Paired
  <2> QED
    BY <1>3, <2>2 DEF Raised, RaisedTo, Responses
<1>4. CASE /\ v = 4
           /\ n \in {"getSignalStrength", "setupDataCall", "startNetworkScan",
                     "getPreferredNetworkType", "setPreferredNetworkType",
                     "setAllowedCarriers", "getAllowedCarriers"}
  <2>1. 4 \in Responses[n] /\ Responses[n] \subseteq 0..5
    BY <1>4 DEF Responses
  <2>2. Paired(n, v) = 4
    <3> DEFINE S == {r \in Responses[n] : r <= v}
    <3>1. S \in SUBSET (0..5) /\ 4 \in S /\ \A y \in S : y <= 4
      BY <1>4, <2>1
    <3>2. Max(S) = 4
      BY <3>1, MaxIs
    <3> QED
      BY <3>2 DEF Paired
  <2>3. n \in DOMAIN RaisedTo /\ RaisedTo[n] = 4
    BY <1>4 DEF RaisedTo
  <2> QED
    BY <2>1, <2>2, <2>3 DEF Raised
<1> QED
  BY <1>1, <1>2, <1>3, <1>4 DEF Older

(* So an answer suits the request, however that was passed on.               *)
LEMMA AnswersSuit ==
  ASSUME NEW r \in Requests, [name |-> r.name, version |-> r.version] \in Asked,
         NEW o, o = r.version \/ <<r.name, r.version, o>> \in Older,
         NEW a \in Responses[r.name], Paired(r.name, o) <= a
  PROVE  Raised(r.name, a) >= Paired(r.name, r.version)
<1>1. CASE o = r.version
  <2>1. r.name \in DOMAIN Responses /\ r.version \in 0..5
    BY DEF Requests
  <2>2. PICK p \in Responses[r.name] : p <= r.version
    BY RadioAssumption
  <2>3. Paired(r.name, r.version) \in 0..5 /\ a \in 0..5
    BY <2>1, <2>2, PairedIsOne, ResponseVersions
  <2>4. r.name \in DOMAIN RaisedTo => RaisedTo[r.name] \in 0..5
    BY DEF RaisedTo
  <2>5. Raised(r.name, a) \in 0..5 /\ Raised(r.name, a) >= a
    BY <2>3, <2>4 DEF Raised
  <2> QED
    BY <1>1, <2>3, <2>5
<1>2. CASE <<r.name, r.version, o>> \in Older
  BY <1>2, OlderAnswersSuit
<1> QED
  BY <1>1, <1>2

(* Each message that is new in a step suits its request, and no request that *)
(* is still waited for has changed: then all is in kind as before.           *)
LEMMA InKindKept ==
  ASSUME IInv, InKind, IInv', NEW y, flying' \subseteq flying \cup {y},
         \A s \in Serial : Sent(s)' => request'[s] = request[s],
         y \in flying \/ Suits(y, request[y.serial])
  PROVE  InKind'
<1>1. MethodsAsked'
  BY DEF InKind, MethodsAsked, Sent
<1>2. ASSUME NEW x \in flying'
      PROVE  Suits(x, request'[x.serial])
  <2>1. x.serial \in Serial /\ Sent(x.serial)'
    BY DEF IInv, TypeOK, AnsweredOnce, Messages, Sent
  <2>2. request'[x.serial] = request[x.serial]
    BY <2>1
  <2>3. Suits(x, request[x.serial])
    BY DEF InKind
  <2> QED
    BY <2>2, <2>3
<1> QED
  BY <1>1, <1>2 DEF InKind

(* The messages that leave Radio, and those it works on.                     *)
LEMMA RadioSuits ==
  ASSUME IInv, InKind, NEW x \in flying,
         \/ PassOn(x) \/ Translate(x) \/ ReadRat(x) \/ ReadRoaming(x) \/ PassTranslated(x)
  PROVE  \E y : flying' \subseteq flying \cup {y} /\ Suits(y, request[x.serial])
                  /\ y.serial = x.serial
<1>1. x \in Messages /\ request[x.serial] \in Requests
  BY FlyingIs
<1>2. Suits(x, request[x.serial])
  BY DEF InKind
<1>3. Casts \subseteq 0..5
  BY DEF Casts, IInv, TypeOK
<1>4. CASE PassOn(x)
  <2>1. PICK v \in Casts : \E o \in Passed(request[x.serial], v) :
          ToVendor(x, [x EXCEPT !.at = "vendor", !.version = o])
    BY <1>4 DEF PassOn
  <2>2. PICK o \in Passed(request[x.serial], v) :
          ToVendor(x, [x EXCEPT !.at = "vendor", !.version = o])
    BY <2>1
  <2>3. o = request[x.serial].version
          \/ <<request[x.serial].name, request[x.serial].version, o>> \in Older
    BY <1>1, <1>3, PassedIsInTable
  <2> DEFINE y == [x EXCEPT !.at = "vendor", !.version = o]
  <2>4. y.serial = x.serial /\ y.at = "vendor" /\ y.version = o
    BY <1>1 DEF Messages
  <2>5. flying' \subseteq flying \cup {y}
    BY <2>2 DEF ToVendor, Moved
  <2> HIDE DEF y
  <2>6. Suits(y, request[x.serial])
    BY <2>3, <2>4 DEF Suits
  <2> QED
    BY <2>4, <2>5, <2>6
<1>5. CASE Translate(x)
  <2>1. PICK v \in Casts : \E o \in Passed(request[x.serial], v) :
          Moved(x, [x EXCEPT !.at = "reading", !.version = o,
                             !.left = Added(request[x.serial], o)])
    BY <1>5 DEF Translate
  <2>2. PICK o \in Passed(request[x.serial], v) :
          Moved(x, [x EXCEPT !.at = "reading", !.version = o,
                             !.left = Added(request[x.serial], o)])
    BY <2>1
  <2>3. o = request[x.serial].version
          \/ <<request[x.serial].name, request[x.serial].version, o>> \in Older
    BY <1>1, <1>3, PassedIsInTable
  <2> DEFINE y == [x EXCEPT !.at = "reading", !.version = o,
                            !.left = Added(request[x.serial], o)]
  <2>4. y.serial = x.serial /\ y.at = "reading" /\ y.version = o
    BY <1>1 DEF Messages
  <2>5. flying' \subseteq flying \cup {y}
    BY <2>2 DEF Moved
  <2> HIDE DEF y
  <2>6. Suits(y, request[x.serial])
    BY <2>3, <2>4 DEF Suits
  <2> QED
    BY <2>4, <2>5, <2>6
<1>6. CASE ReadRat(x) \/ ReadRoaming(x) \/ PassTranslated(x)
  <2>1. PICK y \in Messages : /\ Becomes(x, y) /\ y.version = x.version
                              /\ x.at = "reading" /\ y.at \in {"reading", "vendor"}
    BY <1>6, ReadRatMoves, ReadRoamingMoves, PassTranslatedMoves
       DEF ReadRatAs, ReadRoamingAs, PassTranslatedAs
  <2>2. flying' \subseteq flying \cup {y} /\ y.serial = x.serial
    BY <2>1 DEF Becomes
  <2>3. Suits(y, request[x.serial])
    BY <1>2, <2>1 DEF Suits
  <2> QED
    BY <2>2, <2>3
<1> QED
  BY <1>4, <1>5, <1>6

(* The vendor's answers, and those RadioResponse works on.                   *)
LEMMA ResponsesSuit ==
  ASSUME IInv, InKind, NEW x \in flying, VendorAnswers(x) \/ StoreRoaming(x) \/ StoreRat(x)
  PROVE  \E y : flying' \subseteq flying \cup {y} /\ Suits(y, request[x.serial])
                  /\ y.serial = x.serial
<1>1. x \in Messages /\ request[x.serial] \in Requests
  BY FlyingIs
<1>2. Suits(x, request[x.serial])
  BY DEF InKind
<1>3. CASE VendorAnswers(x)
  <2>1. x.at = "vendor"
    BY <1>3 DEF VendorAnswers
  <2>2. PICK a \in Responses[request[x.serial].name] :
          /\ Paired(request[x.serial].name, x.version) <= a
          /\ Moved(x, [Message(x.serial, "answered", a) EXCEPT !.left =
                         IF request[x.serial].name # "getDataRegistrationState" THEN {}
                         ELSE IF a = 0 THEN {"roaming", "rat"}
                         ELSE IF a = 2 THEN {"roaming"} ELSE {}])
    BY <1>3 DEF VendorAnswers
  <2>3. x.version = request[x.serial].version
          \/ <<request[x.serial].name, request[x.serial].version, x.version>> \in Older
    BY <1>2, <2>1 DEF Suits
  <2>4. [name |-> request[x.serial].name, version |-> request[x.serial].version] \in Asked
    BY <1>1 DEF InKind, MethodsAsked, IInv, AnsweredOnce, Messages
  <2>5. Raised(request[x.serial].name, a)
          >= Paired(request[x.serial].name, request[x.serial].version)
    BY <1>1, <2>2, <2>3, <2>4, AnswersSuit
  <2> DEFINE y == [Message(x.serial, "answered", a) EXCEPT !.left =
                     IF request[x.serial].name # "getDataRegistrationState" THEN {}
                     ELSE IF a = 0 THEN {"roaming", "rat"}
                     ELSE IF a = 2 THEN {"roaming"} ELSE {}]
  <2>6. y.serial = x.serial /\ y.at = "answered" /\ y.version = a
    BY DEF Message
  <2>7. flying' \subseteq flying \cup {y}
    BY <2>2 DEF Moved
  <2> HIDE DEF y
  <2>8. Suits(y, request[x.serial])
    BY <2>5, <2>6 DEF Suits
  <2> QED
    BY <2>6, <2>7, <2>8
<1>4. CASE StoreRoaming(x)
  <2> DEFINE y == [x EXCEPT !.at = "storing", !.left = @ \ {"roaming"}, !.report = reports + 1]
  <2>1. x.at = "answered"
    BY <1>4 DEF StoreRoaming, Answering
  <2>2. y.serial = x.serial /\ y.at = "storing" /\ y.version = x.version
    BY <1>1, <2>1 DEF Messages
  <2>3. flying' \subseteq flying \cup {y}
    BY <1>4 DEF StoreRoaming, Moved
  <2> HIDE DEF y
  <2>4. Suits(y, request[x.serial])
    BY <1>2, <2>1, <2>2 DEF Suits
  <2> QED
    BY <2>2, <2>3, <2>4
<1>5. CASE StoreRat(x)
  <2> DEFINE y == [x EXCEPT !.left = {}]
  <2>1. x.at = "storing"
    BY <1>5 DEF StoreRat
  <2>2. y.serial = x.serial /\ y.at = "storing" /\ y.version = x.version
    BY <1>1, <2>1 DEF Messages
  <2>3. flying' \subseteq flying \cup {y}
    BY <1>5 DEF StoreRat, Moved
  <2> HIDE DEF y
  <2>4. Suits(y, request[x.serial])
    BY <1>2, <2>1, <2>2 DEF Suits
  <2> QED
    BY <2>2, <2>3, <2>4
<1> QED
  BY <1>3, <1>4, <1>5

(* A new request is of a method the framework calls, in its own terms.       *)
LEMMA SentSuits ==
  ASSUME IInv, InKind, NEW s \in Serial, Send(s)
  PROVE  InKind'
<1>1. PICK m \in Asked, fits \in BOOLEAN :
        /\ request' = [request EXCEPT ![s] = [name |-> m.name, version |-> m.version,
                         fits |-> fits, known |-> known, by |-> framework]]
        /\ flying' = flying \cup {Message(s, "proxy", m.version)}
  BY DEF Send
<1>2. m = [name |-> m.name, version |-> m.version]
  BY RadioAssumption
<1>3. /\ request'[s].name = m.name /\ request'[s].version = m.version
      /\ \A z \in Serial \ {s} : request'[z] = request[z]
  BY <1>1 DEF IInv, TypeOK
<1>4. MethodsAsked'
  <2> SUFFICES ASSUME NEW z \in Serial, request'[z] # NotSent
               PROVE  [name |-> request'[z].name, version |-> request'[z].version] \in Asked
    BY DEF MethodsAsked, Sent
  <2>1. CASE z = s
    BY <1>2, <1>3, <2>1
  <2>2. CASE z # s
    BY <1>3, <2>2 DEF InKind, MethodsAsked, Sent
  <2> QED
    BY <2>1, <2>2
<1>5. ASSUME NEW x \in flying'
      PROVE  Suits(x, request'[x.serial])
  <2>1. CASE x \in flying
    <3>1. x.serial \in Serial /\ x.serial # s
      BY <2>1 DEF IInv, TypeOK, Messages, Send, Free
    <3> QED
      BY <1>3, <2>1, <3>1 DEF InKind
  <2>2. CASE x = Message(s, "proxy", m.version)
    <3>1. x.serial = s /\ x.at = "proxy" /\ x.version = m.version
      BY <2>2 DEF Message
    <3> QED
      BY <1>3, <3>1 DEF Suits
  <2> QED
    BY <1>1, <2>1, <2>2
<1> QED
  BY <1>4, <1>5 DEF InKind

(* What only takes messages away or gives requests up keeps all in kind.     *)
LEMMA NothingNew ==
  ASSUME IInv, InKind, IInv', flying' \subseteq flying,
         \A s \in Serial : Sent(s)' => request'[s] = request[s]
  PROVE  InKind'
<1>1. CASE flying = {}
  <2>1. MethodsAsked' /\ flying' = {}
    BY <1>1 DEF InKind, MethodsAsked, Sent
  <2> QED
    BY <2>1 DEF InKind
<1>2. CASE flying # {}
  <2>1. PICK y : y \in flying
    BY <1>2
  <2> QED
    BY <2>1, InKindKept
<1> QED
  BY <1>1, <1>2

(* Every step keeps the versions in kind.                                    *)
LEMMA InKindStep == IInv /\ InKind /\ IInv' /\ [Next]_vars => InKind'
<1> SUFFICES ASSUME IInv, InKind, IInv', [Next]_vars PROVE InKind'
  OBVIOUS
<1> DEFINE Kept == \A s \in Serial : Sent(s)' => request'[s] = request[s]
<1>1. ASSUME NEW x \in flying,
             \/ PassOn(x) \/ Translate(x) \/ ReadRat(x) \/ ReadRoaming(x)
             \/ PassTranslated(x) \/ StoreRoaming(x) \/ StoreRat(x) \/ VendorAnswers(x)
      PROVE  InKind'
  <2>1. Kept
    BY <1>1, MessagesMove DEF Becomes
  <2>2. PICK y : flying' \subseteq flying \cup {y} /\ Suits(y, request[x.serial])
                   /\ y.serial = x.serial
    BY <1>1, RadioSuits, ResponsesSuit
  <2>3. Suits(y, request[y.serial])
    BY <2>2
  <2> QED
    BY <2>1, <2>2, <2>3, InKindKept
<1>2. ASSUME NEW s \in Serial, Send(s)
      PROVE  InKind'
  BY <1>2, SentSuits
<1>3. ASSUME NEW x \in flying, Drop(x)
      PROVE  InKind'
  BY <1>3, NothingNew DEF Drop
<1>4. ASSUME NEW s \in Serial, Told(s)
      PROVE  Kept
  BY <1>4 DEF Told, Sent, IInv, TypeOK
<1>5. ASSUME NEW x \in flying, Refuse(x) \/ ForwardRegistration(x) \/ Forward(x)
      PROVE  InKind'
  <2>1. x.serial \in Serial
    BY DEF IInv, TypeOK, Messages
  <2>2. Told(x.serial) /\ flying' \subseteq flying
    BY <1>5 DEF Refuse, ForwardRegistration, Forward
  <2>3. Kept
    BY <2>1, <2>2, <1>4
  <2> QED
    BY <2>2, <2>3, NothingNew
<1>6. ASSUME NEW f \in Framework, SetResponseFunctions(f)
      PROVE  InKind'
  <2>1. UNCHANGED <<request, flying>>
    BY <1>6 DEF SetResponseFunctions, SetResponse, SetIndication, MakeLge, SetLge, SetVendor,
                Setting
  <2> QED
    BY <2>1, NothingNew
<1>7. CASE Indicate \/ LgeSignalStrength \/ UNCHANGED vars
  <2>1. UNCHANGED <<request, flying>>
    BY <1>7 DEF Indicate, LgeSignalStrength, vars
  <2> QED
    BY <2>1, NothingNew
<1>8. CASE VendorDies
  <2>1. request' = request /\ flying' \subseteq flying
    BY <1>8 DEF VendorDies
  <2> QED
    BY <2>1, NothingNew
<1>9. CASE ProxyRestarts
  <2>1. request' = [s \in Serial |-> NotSent] /\ flying' = {}
    BY <1>9 DEF ProxyRestarts
  <2>2. Kept
    BY <2>1 DEF Sent
  <2> QED
    BY <2>1, <2>2, NothingNew
<1>10. CASE FrameworkDies
  <2>1. flying' = flying
    BY <1>10 DEF FrameworkDies
  <2>2. Kept
    BY <1>10 DEF FrameworkDies, Sent
  <2> QED
    BY <2>1, <2>2, NothingNew
<1> QED
  BY <1>1, <1>2, <1>3, <1>5, <1>6, <1>7, <1>8, <1>9, <1>10 DEF Next, Proxy

(* What is asked and answered is in kind from the beginning on.              *)
LEMMA InKindInvariance == Spec => []InKind
<1>1. Init => InKind
  <2> SUFFICES ASSUME Init PROVE InKind
    OBVIOUS
  <2>1. flying = {} /\ \A s \in Serial : ~Sent(s)
    BY DEF Init, Sent
  <2> QED
    BY <2>1 DEF InKind, MethodsAsked
<1> QED
  BY <1>1, Invariance, InKindStep, PTL DEF Spec

(* Whichever older method Radio passes a request on as, and whichever older  *)
(* response the vendor gives to that, RadioResponse answers with a response  *)
(* at least as new as the one paired with the method the framework called.   *)
THEOREM EachAnsweredInKind == Spec => []AnsweredInKind
<1>1. InKind => AnsweredInKind
  BY DEF InKind, AnsweredInKind, Suits
<1> QED
  BY <1>1, InKindInvariance, PTL

-----------------------------------------------------------------------------
(* What a type is answered as is the case it is told for.                    *)
LEMMA BitmapIsCase ==
  ASSUME NEW t \in DOMAIN Case
  PROVE  Bitmap(t) = Case[t]
<1>1. t \in {"GSM_WCDMA_AUTO", "GSM_ONLY", "WCDMA", "CDMA_EVDO_AUTO", "CDMA_ONLY",
           "EVDO_ONLY", "GSM_WCDMA_CDMA_EVDO_AUTO", "LTE_CDMA_EVDO", "LTE_GSM_WCDMA",
           "LTE_CMDA_EVDO_GSM_WCDMA", "LTE_ONLY", "LTE_WCDMA", "TD_SCDMA_ONLY",
           "TD_SCDMA_WCDMA", "TD_SCDMA_LTE", "TD_SCDMA_GSM", "TD_SCDMA_GSM_LTE",
           "TD_SCDMA_GSM_WCDMA", "TD_SCDMA_WCDMA_LTE", "TD_SCDMA_GSM_WCDMA_LTE",
           "TD_SCDMA_GSM_WCDMA_CDMA_EVDO_AUTO", "TD_SCDMA_LTE_CDMA_EVDO_GSM_WCDMA"}
  BY DEF Case
<1>2. /\ Bitmap("GSM_WCDMA_AUTO") = Case["GSM_WCDMA_AUTO"]
      /\ Bitmap("GSM_ONLY") = Case["GSM_ONLY"]
      /\ Bitmap("WCDMA") = Case["WCDMA"]
      /\ Bitmap("CDMA_EVDO_AUTO") = Case["CDMA_EVDO_AUTO"]
  BY DEF Bitmap, Case
<1>3. /\ Bitmap("CDMA_ONLY") = Case["CDMA_ONLY"]
      /\ Bitmap("EVDO_ONLY") = Case["EVDO_ONLY"]
      /\ Bitmap("GSM_WCDMA_CDMA_EVDO_AUTO") = Case["GSM_WCDMA_CDMA_EVDO_AUTO"]
      /\ Bitmap("LTE_CDMA_EVDO") = Case["LTE_CDMA_EVDO"]
  BY DEF Bitmap, Case
<1>4. /\ Bitmap("LTE_GSM_WCDMA") = Case["LTE_GSM_WCDMA"]
      /\ Bitmap("LTE_CMDA_EVDO_GSM_WCDMA") = Case["LTE_CMDA_EVDO_GSM_WCDMA"]
      /\ Bitmap("LTE_ONLY") = Case["LTE_ONLY"]
      /\ Bitmap("LTE_WCDMA") = Case["LTE_WCDMA"]
  BY DEF Bitmap, Case
<1>5. /\ Bitmap("TD_SCDMA_ONLY") = Case["TD_SCDMA_ONLY"]
      /\ Bitmap("TD_SCDMA_WCDMA") = Case["TD_SCDMA_WCDMA"]
      /\ Bitmap("TD_SCDMA_LTE") = Case["TD_SCDMA_LTE"]
      /\ Bitmap("TD_SCDMA_GSM") = Case["TD_SCDMA_GSM"]
  BY DEF Bitmap, Case
<1>6. /\ Bitmap("TD_SCDMA_GSM_LTE") = Case["TD_SCDMA_GSM_LTE"]
      /\ Bitmap("TD_SCDMA_GSM_WCDMA") = Case["TD_SCDMA_GSM_WCDMA"]
      /\ Bitmap("TD_SCDMA_WCDMA_LTE") = Case["TD_SCDMA_WCDMA_LTE"]
      /\ Bitmap("TD_SCDMA_GSM_WCDMA_LTE") = Case["TD_SCDMA_GSM_WCDMA_LTE"]
  BY DEF Bitmap, Case
<1>7. /\ Bitmap("TD_SCDMA_GSM_WCDMA_CDMA_EVDO_AUTO") = Case["TD_SCDMA_GSM_WCDMA_CDMA_EVDO_AUTO"]
      /\ Bitmap("TD_SCDMA_LTE_CDMA_EVDO_GSM_WCDMA") = Case["TD_SCDMA_LTE_CDMA_EVDO_GSM_WCDMA"]
  BY DEF Bitmap, Case
<1> QED
  BY <1>1, <1>2, <1>3, <1>4, <1>5, <1>6, <1>7

(* What is asked for by some bits of each group completes to those groups.   *)
LEMMA CompletedIsGroups ==
  ASSUME NEW asked, asked \subseteq UNION Groups
  PROVE  Completed(asked) = UNION {g \in Groups : g \cap asked # {}}
<1> DEFINE groups == UNION {g \in Groups : g \cap asked # {}}
           Five == {GSMBITS, CDMABITS, EVDOBITS, WCDMABITS, LTEBITS}
           five == UNION {g \in Five : g \cap asked # {}}
<1>1. Groups = Five \cup {TDSCDMABIT, NRBIT}
  BY DEF Groups
<1>2. Completed(asked) = asked \cup five
  BY DEF Completed
<1>3. five \subseteq groups
  BY <1>1
<1>4. asked \subseteq groups
  OBVIOUS
<1>5. ASSUME NEW b \in groups
      PROVE  b \in asked \cup five
  <2>1. PICK g \in Groups : b \in g /\ g \cap asked # {}
    OBVIOUS
  <2>2. CASE g \in Five
    BY <2>1, <2>2
  <2>3. CASE g \in {TDSCDMABIT, NRBIT}
    BY <2>1, <2>3 DEF TDSCDMABIT, NRBIT
  <2> QED
    BY <1>1, <2>2, <2>3
<1> QED
  BY <1>2, <1>3, <1>4, <1>5

(* The preferred network type goes there and back.                           *)
LEMMA NetworkTypes == NetworkTypeRoundTrip
<1> SUFFICES ASSUME NEW gsm \in Some(GSMBITS), NEW cdma \in Some(CDMABITS),
                    NEW evdo \in Some(EVDOBITS), NEW wcdma \in Some(WCDMABITS),
                    NEW lte \in Some(LTEBITS), NEW td \in Some(TDSCDMABIT), NEW nr \in Some(NRBIT)
             PROVE  LET asked == gsm \cup cdma \cup evdo \cup wcdma \cup lte \cup td \cup nr
                        groups == UNION {g \in Groups : g \cap asked # {}}
                        answered == Bitmap(TypeSet(asked))
                    IN  IF \E t \in DOMAIN Case : Bitmap(t) = groups
                        THEN answered = groups ELSE answered = Bitmap(Default)
  BY DEF NetworkTypeRoundTrip
<1> DEFINE asked == gsm \cup cdma \cup evdo \cup wcdma \cup lte \cup td \cup nr
           groups == UNION {g \in Groups : g \cap asked # {}}
           hit == {t \in DOMAIN Case : Case[t] = Completed(asked)}
<1>1. ASSUME NEW g, NEW x \in Some(g)
      PROVE  x \subseteq g
  BY DEF Some
<1>2. asked \subseteq UNION Groups
  <2>1. /\ gsm \subseteq GSMBITS /\ cdma \subseteq CDMABITS /\ evdo \subseteq EVDOBITS
        /\ wcdma \subseteq WCDMABITS /\ lte \subseteq LTEBITS /\ td \subseteq TDSCDMABIT
        /\ nr \subseteq NRBIT
    BY <1>1
  <2>2. \A g \in Groups : g \subseteq UNION Groups
    OBVIOUS
  <2>3. /\ GSMBITS \in Groups /\ CDMABITS \in Groups /\ EVDOBITS \in Groups
        /\ WCDMABITS \in Groups /\ LTEBITS \in Groups /\ TDSCDMABIT \in Groups /\ NRBIT \in Groups
    BY DEF Groups
  <2>4. /\ GSMBITS \subseteq UNION Groups /\ CDMABITS \subseteq UNION Groups
        /\ EVDOBITS \subseteq UNION Groups /\ WCDMABITS \subseteq UNION Groups
        /\ LTEBITS \subseteq UNION Groups /\ TDSCDMABIT \subseteq UNION Groups
        /\ NRBIT \subseteq UNION Groups
    BY <2>2, <2>3
  <2> QED
    BY <2>1, <2>4
<1> HIDE DEF asked
<1>3. Completed(asked) = groups
  BY <1>2, CompletedIsGroups
<1>4. TypeSet(asked) = IF hit = {} THEN Default ELSE CHOOSE t \in hit : TRUE
  BY DEF TypeSet
<1> HIDE DEF groups
<1>5. CASE hit = {}
  <2>1. ~\E t \in DOMAIN Case : Bitmap(t) = groups
    BY <1>3, <1>5, BitmapIsCase
  <2> QED
    BY <1>4, <1>5, <2>1 DEF asked, groups
<1>6. CASE hit # {}
  <2>1. TypeSet(asked) \in hit
    BY <1>4, <1>6
  <2>2. TypeSet(asked) \in DOMAIN Case /\ Bitmap(TypeSet(asked)) = groups
    BY <1>3, <2>1, BitmapIsCase
  <2> QED
    BY <2>2 DEF asked, groups
<1> QED
  BY <1>5, <1>6

(* A restriction to some carriers goes there and back.                       *)
LEMMA Carriers == CarriersRoundTrip
<1> SUFFICES ASSUME NEW allowed \in SUBSET {"carrier"}, NEW excluded \in SUBSET {"carrier"},
                    NEW prioritized \in BOOLEAN, NEW policy \in {"none", "one_valid_sim"},
                    Supported([allowed |-> allowed, excluded |-> excluded,
                               prioritized |-> prioritized, policy |-> policy])
             PROVE  CarriersAnswered(LegacyCarriers(
                      [allowed |-> allowed, excluded |-> excluded,
                       prioritized |-> prioritized, policy |-> policy]))
                    = [allowed |-> allowed, excluded |-> excluded,
                       prioritized |-> prioritized, policy |-> policy]
  BY DEF CarriersRoundTrip
<1> QED
  BY DEF Supported, AllAllowed, LegacyCarriers, CarriersAnswered

(* The protocol of a data call goes there and back.                          *)
LEMMA Protocols == ProtocolRoundTrip
<1> SUFFICES ASSUME NEW p \in DOMAIN ProtocolString
             PROVE  Protocol(ProtocolString[p]) = p
  BY DEF ProtocolRoundTrip
<1>1. p \in {"IP", "IPV6", "IPV4V6", "PPP", "NON_IP", "UNSTRUCTURED", "UNKNOWN"}
  BY DEF ProtocolString
<1>2. CASE p \in {"IP", "IPV6", "IPV4V6", "PPP", "UNSTRUCTURED"}
  <2>1. /\ ProtocolString["IP"] = "IP" /\ ProtocolString["IPV6"] = "IPV6"
        /\ ProtocolString["IPV4V6"] = "IPV4V6" /\ ProtocolString["PPP"] = "PPP"
        /\ ProtocolString["UNSTRUCTURED"] = "UNSTRUCTURED"
    BY DEF ProtocolString
  <2> QED
    BY <1>2, <2>1 DEF Protocol
<1>3. CASE p = "NON_IP"
  <2>1. ProtocolString[p] = "NON-IP"
    BY <1>3 DEF ProtocolString
  <2> QED
    BY <1>3, <2>1 DEF Protocol
<1>4. CASE p = "UNKNOWN"
  <2>1. ProtocolString[p] = ""
    BY <1>4 DEF ProtocolString
  <2> QED
    BY <1>4, <2>1 DEF Protocol
<1> QED
  BY <1>1, <1>2, <1>3, <1>4

(* The preferred network type, the allowed carriers and the protocol that    *)
(* Radio translates for a vendor of 1.0 are translated back by RadioResponse *)
(* as what was set, or as the default for a type the vendor cannot say.      *)
THEOREM EachSettingIsAnswered == Spec => []SetIsAnswered
<1>1. TranslatedBothWays
  BY NetworkTypes, Carriers, Protocols DEF TranslatedBothWays
<1>2. SetIsAnswered
  BY <1>1 DEF SetIsAnswered
<1> QED
  BY <1>2, PTL
=============================================================================
