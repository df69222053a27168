------------------------ MODULE CameraProviderProofs ------------------------
(* What the camera service believes once everything was delivered is true,   *)
(* for any cameras, any changes of them and any deaths of the service.       *)
EXTENDS CameraProvider, FiniteSetTheorems, SequenceTheorems, TLAPS

(* The news in a sequence about a camera: none, or the last of them.         *)
None(q, c) == \A i \in DOMAIN q : q[i][1] # c
LastIs(q, c, s) ==
  \E i \in DOMAIN q : q[i] = <<c, s>> /\ \A j \in DOMAIN q : j > i => q[j][1] # c

News == Camera \X Status
-----------------------------------------------------------------------------
(* There is no news in an empty sequence.                                    *)
LEMMA NoneInEmpty == \A c : None(<<>>, c) /\ \A s : ~LastIs(<<>>, c, s)
BY DEF None, LastIs

(* What is appended is the last news of its camera and of no other.          *)
LEMMA AppendIs ==
  ASSUME NEW q \in Seq(News), NEW c \in Camera, NEW s \in Status
  PROVE  /\ Append(q, <<c, s>>) \in Seq(News)
         /\ LastIs(Append(q, <<c, s>>), c, s) /\ ~None(Append(q, <<c, s>>), c)
         /\ \A d : d # c => /\ None(q, d) => None(Append(q, <<c, s>>), d)
                            /\ \A t : LastIs(q, d, t) => LastIs(Append(q, <<c, s>>), d, t)
<1> DEFINE r == Append(q, <<c, s>>)
<1>1. <<c, s>> \in News
  BY DEF News
<1>2. /\ r \in Seq(News) /\ Len(q) \in Nat /\ DOMAIN q = 1 .. Len(q)
      /\ DOMAIN r = 1 .. (Len(q) + 1) /\ r[Len(q) + 1] = <<c, s>>
      /\ \A i \in 1 .. Len(q) : r[i] = q[i]
  BY <1>1
<1> HIDE DEF r
<1>3. LastIs(r, c, s)
  <2>1. Len(q) + 1 \in DOMAIN r /\ \A j \in DOMAIN r : ~(j > Len(q) + 1)
    BY <1>2
  <2> QED
    BY <1>2, <2>1 DEF LastIs
<1>4. ~None(r, c)
  <2>1. Len(q) + 1 \in DOMAIN r /\ r[Len(q) + 1][1] = c
    BY <1>2
  <2> QED
    BY <2>1 DEF None
<1>5. ASSUME NEW d, d # c, None(q, d) PROVE None(r, d)
  <2> SUFFICES ASSUME NEW i \in DOMAIN r PROVE r[i][1] # d
    BY DEF None
  <2>1. i \in 1 .. Len(q) \/ i = Len(q) + 1
    BY <1>2
  <2> QED
    BY <1>2, <1>5, <2>1 DEF None
<1>6. ASSUME NEW d, d # c, NEW t, LastIs(q, d, t) PROVE LastIs(r, d, t)
  <2>1. PICK i \in DOMAIN q : q[i] = <<d, t>> /\ \A j \in DOMAIN q : j > i => q[j][1] # d
    BY <1>6 DEF LastIs
  <2>2. i \in DOMAIN r /\ r[i] = <<d, t>>
    BY <1>2, <2>1
  <2>3. ASSUME NEW j \in DOMAIN r, j > i PROVE r[j][1] # d
    <3>1. j \in 1 .. Len(q) \/ j = Len(q) + 1
      BY <1>2
    <3> QED
      BY <1>2, <1>6, <2>1, <2>3, <3>1
  <2> QED
    BY <2>2, <2>3 DEF LastIs
<1> QED
  BY <1>2, <1>3, <1>4, <1>5, <1>6 DEF r

(* When the first news is taken the later ones stay.                         *)
LEMMA TailIs ==
  ASSUME NEW q \in Seq(News), q # <<>>
  PROVE  /\ Tail(q) \in Seq(News) /\ Head(q)[1] \in Camera /\ Head(q)[2] \in Status
         /\ ~None(q, Head(q)[1])
         /\ \A c : /\ None(q, c) => None(Tail(q), c)
                   /\ \A s : LastIs(q, c, s) =>
                        \/ LastIs(Tail(q), c, s)
                        \/ None(Tail(q), c) /\ Head(q)[1] = c /\ Head(q)[2] = s
<1>1. /\ Tail(q) \in Seq(News) /\ Head(q) = q[1] /\ q[1] \in News
      /\ Len(q) \in Nat \ {0} /\ DOMAIN q = 1 .. Len(q) /\ DOMAIN Tail(q) = 1 .. (Len(q) - 1)
      /\ \A i \in 1 .. (Len(q) - 1) : Tail(q)[i] = q[i + 1]
  OBVIOUS
<1>2. Head(q)[1] \in Camera /\ Head(q)[2] \in Status
  BY <1>1 DEF News
<1>3. ~None(q, Head(q)[1])
  BY <1>1, 1 \in DOMAIN q DEF None
<1>4. ASSUME NEW c, None(q, c) PROVE None(Tail(q), c)
  <2>1. \A i \in DOMAIN Tail(q) : i + 1 \in DOMAIN q /\ Tail(q)[i] = q[i + 1]
    BY <1>1
  <2> QED
    BY <1>4, <2>1 DEF None
<1>5. ASSUME NEW c, NEW s, LastIs(q, c, s)
      PROVE  \/ LastIs(Tail(q), c, s)
             \/ None(Tail(q), c) /\ Head(q)[1] = c /\ Head(q)[2] = s
  <2>1. PICK i \in DOMAIN q : q[i] = <<c, s>> /\ \A j \in DOMAIN q : j > i => q[j][1] # c
    BY <1>5 DEF LastIs
  <2>2. CASE i = 1
    <3>1. ASSUME NEW j \in DOMAIN Tail(q) PROVE Tail(q)[j][1] # c
      <4>1. j + 1 \in DOMAIN q /\ j + 1 > i /\ Tail(q)[j] = q[j + 1]
        BY <1>1, <2>2
      <4> QED
        BY <2>1, <4>1
    <3> QED
      BY <1>1, <2>1, <2>2, <3>1 DEF None
  <2>3. CASE i # 1
    <3>1. i - 1 \in DOMAIN Tail(q) /\ Tail(q)[i - 1] = q[i]
      BY <1>1, <2>3
    <3>2. ASSUME NEW j \in DOMAIN Tail(q), j > i - 1 PROVE Tail(q)[j][1] # c
      <4>1. j + 1 \in DOMAIN q /\ j + 1 > i /\ Tail(q)[j] = q[j + 1]
        BY <1>1, <3>2
      <4> QED
        BY <2>1, <4>1
    <3> QED
      BY <2>1, <3>1, <3>2 DEF LastIs
  <2> QED
    BY <2>2, <2>3
<1> QED
  BY <1>1, <1>2, <1>3, <1>4, <1>5

(* The list of a set of news, one of each camera, has them all.              *)
LEMMA ListIs ==
  ASSUME NEW S \in SUBSET News, IsFiniteSet(S)
  PROVE  /\ SetToSeq(S) \in Seq(News)
         /\ \A c : (\A s : <<c, s>> \notin S) => None(SetToSeq(S), c)
         /\ \A c, s : <<c, s>> \in S /\ (\A t : <<c, t>> \in S => t = s) => LastIs(SetToSeq(S), c, s)
<1> DEFINE n == Cardinality(S)
           q == SetToSeq(S)
<1>1. n \in Nat /\ ExistsBijection(1 .. n, S)
  BY FS_CardinalityType
<1>2. \E f \in [1 .. n -> S] : IsInjective(f)
  BY <1>1 DEF ExistsBijection, Bijection, Injection
<1>3. q \in [1 .. n -> S] /\ IsInjective(q)
  BY <1>2 DEF SetToSeq
<1> HIDE DEF q
<1>4. q \in Injection(1 .. n, S)
  BY <1>3 DEF Injection
<1>5. Cardinality(1 .. n) = n
  BY <1>1, FS_Interval
<1>6. q \in Surjection(1 .. n, S)
  BY <1>4, <1>5, FS_Injection
<1>7. \A x \in S : \E i \in 1 .. n : q[i] = x
  BY <1>6 DEF Surjection
<1>8. DOMAIN q = 1 .. n /\ \A i \in 1 .. n : q[i] \in S
  BY <1>3
<1>9. \A i, j \in 1 .. n : q[i] = q[j] => i = j
  BY <1>3, <1>8 DEF IsInjective
<1>10. \A x \in S : x = <<x[1], x[2]>>
  BY DEF News
<1>11. q \in Seq(News)
  BY <1>1, <1>3, q \in [1 .. n -> News]
<1>12. ASSUME NEW c, \A s : <<c, s>> \notin S PROVE None(q, c)
  BY <1>8, <1>10, <1>12 DEF None
<1>13. ASSUME NEW c, NEW s, <<c, s>> \in S, \A t : <<c, t>> \in S => t = s
       PROVE  LastIs(q, c, s)
  <2>1. PICK i \in 1 .. n : q[i] = <<c, s>>
    BY <1>7, <1>13
  <2>2. ASSUME NEW j \in 1 .. n, j > i, q[j][1] = c PROVE FALSE
    <3>1. q[j] = <<c, s>>
      BY <1>8, <1>10, <1>13, <2>2
    <3>2. i = j
      BY <1>9, <2>1, <3>1
    <3> QED
      BY <1>1, <2>2, <3>2
  <2> QED
    BY <1>8, <2>1, <2>2 DEF LastIs
<1> QED
  BY <1>11, <1>12, <1>13 DEF q

(* The news of finitely many cameras is finite.                              *)
LEMMA PairsAreFinite ==
  ASSUME NEW S, IsFiniteSet(S), NEW f
  PROVE  IsFiniteSet({<<c, f[c]>> : c \in S})
<1> DEFINE T == {<<c, f[c]>> : c \in S}
           g == [c \in S |-> <<c, f[c]>>]
<1>1. g \in Surjection(S, T)
  BY DEF Surjection
<1> QED
  BY <1>1, FS_Surjection
-----------------------------------------------------------------------------
(* The inductive invariant.                                                  *)

St(c) == IF c \in DOMAIN mCameraStatusMap THEN mCameraStatusMap[c] ELSE "NOT_PRESENT"

(* What c is when the news in q has arrived, if it is v now.                 *)
Ends(q, c, v, s) == (None(q, c) /\ v = s) \/ LastIs(q, c, s)

(* initialize() has still to add the camera.                                 *)
Awaited(c) == c \in Legacy /\ (init \in {"start", "blacklist"} \/ c \in left)

(* How far initialize() and the camera service are.                          *)
Stages ==
  /\ init = "start" =>
       /\ news = <<>> /\ unsure = {} /\ DOMAIN mCameraStatusMap = {} /\ mLegacyCameras = {}
       /\ \A c \in Camera : camera[c] \in {"PRESENT", "NOT_PRESENT"}
       /\ \A c \in Legacy : camera[c] = "PRESENT"
  /\ init = "up" => left = {}
  /\ init \notin {"up", "failed"} => service = "down" /\ mCallbacks = "null"
  /\ service # "down" => mCallbacks = "live"

(* The last news of a camera is what it is.                                  *)
NewsIsTrue == \A c \in Camera : None(news, c) \/ LastIs(news, c, camera[c])

(* When the news has arrived the status of a camera is what it is.           *)
MapFollows ==
  init \notin {"start", "failed"} =>
    \A c \in Camera \ (unsure \cup Blacklisted) :
      Ends(news, c, IF Awaited(c) THEN "PRESENT" ELSE St(c), camera[c])

(* Once a camera service has connected every camera that is there has a name.*)
NamesFollow ==
  init # "failed" =>
    /\ mCallbacks = "null" => mLegacyCameras \subseteq mCameraDeviceNames
    /\ mCallbacks # "null" =>
         \A c \in DOMAIN mCameraStatusMap :
           mCameraStatusMap[c] # "NOT_PRESENT" => c \in mCameraDeviceNames

(* When the reports were read the camera service believes the status.        *)
Listed(c) ==
  IF c \in mLegacyCameras THEN None(reports, c) \/ LastIs(reports, c, St(c))
                          ELSE Ends(reports, c, "NOT_PRESENT", St(c))
Believed(c) ==
  \/ None(reports, c) /\ (view[c] = "PRESENT" <=> St(c) = "PRESENT")
  \/ LastIs(reports, c, St(c))
ViewFollows ==
  init = "up" =>
    /\ service \in {"connected", "listing"} => \A c \in Camera : Listed(c)
    /\ service = "up" /\ ~torn => \A c \in Camera : Believed(c)

IInv == TypeOK /\ Stages /\ NewsIsTrue /\ MapFollows /\ NamesFollow /\ ViewFollows
-----------------------------------------------------------------------------
(* Before initialize() nothing is known of the cameras.                      *)
LEMMA InitHolds == Init => IInv
<1> SUFFICES ASSUME Init PROVE IInv
  OBVIOUS
<1>1. TypeOK
  <2>1. camera \in [Camera -> Status] /\ view \in [Camera -> Status]
    BY DEF Init, Status
  <2>2. news \in Seq(Camera \X Status) /\ reports \in Seq(Camera \X Status)
    BY DEF Init
  <2>3. DOMAIN mCameraStatusMap = {}
    BY DEF Init
  <2>4. /\ changes = 0 /\ deaths = 0 /\ init = "start" /\ left = {} /\ unsure = {}
        /\ mBlacklistedCameraIds = {} /\ mLegacyCameras = {} /\ mCameraDeviceNames = {}
        /\ mCallbacks = "null" /\ service = "down" /\ torn = FALSE /\ crashed = FALSE
    BY DEF Init
  <2> QED
    <3>1. 0 \in 0 .. MaxChanges /\ 0 \in 0 .. MaxDeaths
      BY ProviderAssumption
    <3> QED
      BY <2>1, <2>2, <2>3, <2>4, <3>1 DEF TypeOK
<1>2. Stages
  BY DEF Init, Stages
<1>3. NewsIsTrue
  BY NoneInEmpty DEF Init, NewsIsTrue
<1> QED
  BY <1>1, <1>2, <1>3 DEF Init, IInv, MapFollows, NamesFollow, ViewFollows

(* Without a module there is nothing to follow.                              *)
LEMMA NoModuleStep == ASSUME IInv, NoModule PROVE IInv'
<1>1. TypeOK'
  BY DEF IInv, TypeOK, NoModule, halVars, listVars, serviceVars
<1>2. Stages' /\ NewsIsTrue'
  BY DEF IInv, Stages, NewsIsTrue, NoModule, halVars, listVars, serviceVars
<1>3. init' = "failed"
  BY DEF NoModule
<1> QED
  BY <1>1, <1>2, <1>3 DEF IInv, MapFollows, NamesFollow, ViewFollows

(* The module tells of the external cameras that are there.                  *)
LEMMA SetCallbacksStep == ASSUME IInv, SetCallbacks PROVE IInv'
<1> DEFINE there == {c \in External : camera[c] = "PRESENT"}
           told == {<<c, "PRESENT">> : c \in there}
<1>1. /\ init = "start" /\ init' = "blacklist" /\ news' = SetToSeq(told)
      /\ UNCHANGED <<camera, changes, left, mBlacklistedCameraIds, mLegacyCameras, unsure,
                     mCameraStatusMap, mCameraDeviceNames, mCallbacks, service, deaths, torn,
                     view, reports, crashed>>
  BY DEF SetCallbacks, listVars, serviceVars
<1>2. told \in SUBSET News /\ IsFiniteSet(told)
  <2>1. there \in SUBSET Camera /\ IsFiniteSet(Camera)
    BY ProviderAssumption DEF External
  <2>2. IsFiniteSet(there)
    BY <2>1, FS_Subset
  <2>3. told = {<<c, camera[c]>> : c \in there}
    OBVIOUS
  <2>4. IsFiniteSet(told)
    <3> HIDE DEF there, told
    <3> QED
      BY <2>2, <2>3, PairsAreFinite
  <2> QED
    BY <2>1, <2>4 DEF News, Status
<1>3. /\ news' \in Seq(News)
      /\ \A c : c \notin there => None(news', c)
      /\ \A c : c \in there => LastIs(news', c, "PRESENT")
  <2>1. \A c, s : <<c, s>> \in told <=> c \in there /\ s = "PRESENT"
    OBVIOUS
  <2> HIDE DEF told
  <2> QED
    BY <1>1, <1>2, <2>1, ListIs
<1>4. TypeOK'
  BY <1>1, <1>3 DEF IInv, TypeOK, News
<1>5. Stages'
  BY <1>1 DEF IInv, Stages
<1>6. NewsIsTrue'
  BY <1>1, <1>3 DEF IInv, NewsIsTrue, Stages
<1>7. MapFollows'
  <2> SUFFICES ASSUME NEW c \in Camera
               PROVE  Ends(news', c, IF c \in Legacy THEN "PRESENT" ELSE "NOT_PRESENT", camera[c])
    BY <1>1 DEF MapFollows, Awaited, St, IInv, Stages
  <2>1. camera[c] \in {"PRESENT", "NOT_PRESENT"} /\ (c \in Legacy => camera[c] = "PRESENT")
    BY <1>1 DEF IInv, Stages
  <2>2. c \in there <=> c \notin Legacy /\ camera[c] = "PRESENT"
    BY DEF External
  <2> QED
    BY <1>3, <2>1, <2>2 DEF Ends
<1>8. NamesFollow' /\ ViewFollows'
  BY <1>1 DEF IInv, NamesFollow, ViewFollows
<1> QED
  BY <1>4, <1>5, <1>6, <1>7, <1>8 DEF IInv

(* The cameras of the module are awaited until they are added.               *)
LEMMA ReadBlacklistStep == ASSUME IInv, ReadBlacklist PROVE IInv'
<1>1. /\ init = "blacklist" /\ init' = "cameras" /\ left' = Legacy
      /\ mBlacklistedCameraIds' = Blacklisted
      /\ UNCHANGED <<camera, news, changes, mLegacyCameras, unsure,
                     mCameraStatusMap, mCameraDeviceNames, mCallbacks, service, deaths, torn,
                     view, reports, crashed>>
  BY DEF ReadBlacklist, halVars, listVars, serviceVars
<1>2. TypeOK' /\ Stages' /\ NewsIsTrue'
  BY <1>1 DEF IInv, TypeOK, Stages, NewsIsTrue
<1>3. MapFollows'
  BY <1>1 DEF IInv, MapFollows, Awaited, St
<1>4. NamesFollow' /\ ViewFollows'
  BY <1>1 DEF IInv, NamesFollow, ViewFollows
<1> QED
  BY <1>2, <1>3, <1>4 DEF IInv

(* A status is set for one camera.                                           *)
LEMMA SetStatusIs ==
  ASSUME NEW c, NEW s, SetStatus(c, s)
  PROVE  /\ DOMAIN mCameraStatusMap' = DOMAIN mCameraStatusMap \cup {c}
         /\ mCameraStatusMap'[c] = s /\ St(c)' = s
         /\ \A d \in DOMAIN mCameraStatusMap : d # c => mCameraStatusMap'[d] = mCameraStatusMap[d]
         /\ \A d : d # c => St(d)' = St(d)
<1>1. /\ DOMAIN mCameraStatusMap' = DOMAIN mCameraStatusMap \cup {c}
      /\ mCameraStatusMap'[c] = s
      /\ \A d \in DOMAIN mCameraStatusMap : d # c => mCameraStatusMap'[d] = mCameraStatusMap[d]
  BY DEF SetStatus
<1> QED
  BY <1>1 DEF St

(* A camera that is added was present unless there was news of it.           *)
LEMMA AddLegacyCameraStep == ASSUME IInv, NEW c \in Camera, AddLegacyCamera(c) PROVE IInv'
<1>1. /\ init = "cameras" /\ c \in left /\ left' = left \ {c}
      /\ UNCHANGED <<camera, news, changes, init, mBlacklistedCameraIds, unsure, mCallbacks,
                     service, deaths, torn, view, reports, crashed>>
  BY DEF AddLegacyCamera, halVars, serviceVars
<1>2. CASE c \in mBlacklistedCameraIds
  <2>1. UNCHANGED <<mLegacyCameras, mCameraStatusMap, mCameraDeviceNames>>
    BY <1>2 DEF AddLegacyCamera, Hidden, listVars
  <2>2. TypeOK' /\ Stages' /\ NewsIsTrue'
    BY <1>1, <2>1 DEF IInv, TypeOK, Stages, NewsIsTrue
  <2>3. c \in Blacklisted
    BY <1>2 DEF IInv, TypeOK
  <2>4. MapFollows'
    BY <1>1, <2>1, <2>3 DEF IInv, MapFollows, Awaited, St
  <2>5. NamesFollow' /\ ViewFollows'
    BY <1>1, <2>1 DEF IInv, NamesFollow, ViewFollows
  <2> QED
    BY <2>2, <2>4, <2>5 DEF IInv
<1>3. CASE c \notin mBlacklistedCameraIds
  <2>1. /\ mLegacyCameras' = mLegacyCameras \cup {c} /\ SetStatus(c, "PRESENT")
        /\ mCameraDeviceNames' = mCameraDeviceNames \cup {c}
    BY <1>3 DEF AddLegacyCamera, Hidden
  <2>2. /\ DOMAIN mCameraStatusMap' = DOMAIN mCameraStatusMap \cup {c}
        /\ mCameraStatusMap'[c] = "PRESENT" /\ St(c)' = "PRESENT"
        /\ \A d \in DOMAIN mCameraStatusMap : d # c => mCameraStatusMap'[d] = mCameraStatusMap[d]
        /\ \A d : d # c => St(d)' = St(d)
    BY <2>1, SetStatusIs
  <2>3. TypeOK'
    BY <1>1, <2>1, <2>2 DEF IInv, TypeOK, Status
  <2>4. Stages' /\ NewsIsTrue'
    BY <1>1 DEF IInv, Stages, NewsIsTrue
  <2>5. MapFollows'
    <3> SUFFICES ASSUME NEW d \in Camera \ (unsure \cup Blacklisted)
                 PROVE  Ends(news, d, IF Awaited(d)' THEN "PRESENT" ELSE St(d)', camera[d])
      BY <1>1 DEF MapFollows, Ends
    <3>1. Ends(news, d, IF Awaited(d) THEN "PRESENT" ELSE St(d), camera[d])
      BY <1>1 DEF IInv, MapFollows
    <3>2. CASE d = c
      <4>1. Awaited(d)
        BY <1>1, <3>2 DEF Awaited, IInv, TypeOK
      <4> QED
        BY <2>2, <3>1, <3>2, <4>1
    <3>3. CASE d # c
      BY <1>1, <2>2, <3>1, <3>3 DEF Awaited
    <3> QED
      BY <3>2, <3>3
  <2>6. NamesFollow' /\ ViewFollows'
    BY <1>1, <2>1 DEF IInv, Stages, NamesFollow, ViewFollows
  <2> QED
    BY <2>3, <2>4, <2>5, <2>6 DEF IInv
<1> QED
  BY <1>2, <1>3

(* A camera that is skipped is given up.                                     *)
LEMMA LegacyCameraFailsStep == ASSUME IInv, NEW c \in Camera, LegacyCameraFails(c) PROVE IInv'
<1>1. /\ init = "cameras" /\ c \in left /\ left' = left \ {c} /\ unsure' = unsure \cup {c}
      /\ \/ init' = "cameras" /\ mLegacyCameras' = mLegacyCameras
         \/ init' = "failed" /\ mLegacyCameras' \in {mLegacyCameras, mLegacyCameras \cup {c}}
      /\ UNCHANGED <<camera, news, changes, mBlacklistedCameraIds, mCallbacks,
                     mCameraStatusMap, mCameraDeviceNames,
                     service, deaths, torn, view, reports, crashed>>
  BY DEF LegacyCameraFails, halVars, listVars, serviceVars
<1>2. TypeOK' /\ Stages' /\ NewsIsTrue'
  BY <1>1 DEF IInv, TypeOK, Stages, NewsIsTrue
<1>3. MapFollows'
  BY <1>1 DEF IInv, MapFollows, Awaited, St
<1>4. NamesFollow' /\ ViewFollows'
  BY <1>1 DEF IInv, NamesFollow, ViewFollows
<1> QED
  BY <1>2, <1>3, <1>4 DEF IInv

(* When initialize() returns no camera is awaited.                           *)
LEMMA InitializeReturnsStep == ASSUME IInv, InitializeReturns PROVE IInv'
<1>1. /\ init = "cameras" /\ left = {} /\ init' = "up"
      /\ UNCHANGED <<camera, news, changes, left, unsure, mLegacyCameras, mBlacklistedCameraIds,
                     mCallbacks, mCameraStatusMap, mCameraDeviceNames,
                     service, deaths, torn, view, reports, crashed>>
  BY DEF InitializeReturns, halVars, listVars, serviceVars
<1>2. TypeOK' /\ Stages' /\ NewsIsTrue'
  BY <1>1 DEF IInv, TypeOK, Stages, NewsIsTrue
<1>3. MapFollows'
  BY <1>1 DEF IInv, MapFollows, Awaited, St
<1>4. NamesFollow' /\ ViewFollows'
  BY <1>1 DEF IInv, Stages, NamesFollow, ViewFollows
<1> QED
  BY <1>2, <1>3, <1>4 DEF IInv

(* A change is news.                                                         *)
LEMMA ChangeStep == ASSUME IInv, NEW c \in Camera, NEW s \in Status, Change(c, s) PROVE IInv'
<1>1. /\ init \notin {"start", "failed"} /\ changes < MaxChanges
      /\ camera' = [camera EXCEPT ![c] = s]
      /\ news' = Append(news, <<c, s>>) /\ changes' = changes + 1
      /\ UNCHANGED <<init, left, unsure, mLegacyCameras, mBlacklistedCameraIds,
                     mCallbacks, mCameraStatusMap, mCameraDeviceNames,
                     service, deaths, torn, view, reports, crashed>>
  BY DEF Change, initVars, listVars, serviceVars
<1>2. news \in Seq(News) /\ camera \in [Camera -> Status]
  BY DEF IInv, TypeOK, News
<1>3. /\ news' \in Seq(News) /\ LastIs(news', c, s)
      /\ \A d : d # c => /\ None(news, d) => None(news', d)
                         /\ \A t : LastIs(news, d, t) => LastIs(news', d, t)
  BY <1>1, <1>2, AppendIs
<1>4. camera'[c] = s /\ \A d \in Camera : d # c => camera'[d] = camera[d]
  BY <1>1, <1>2
<1>5. TypeOK'
  BY <1>1, <1>2, <1>3, ProviderAssumption DEF IInv, TypeOK, News
<1>6. Stages'
  BY <1>1 DEF IInv, Stages
<1>7. NewsIsTrue'
  BY <1>3, <1>4 DEF IInv, NewsIsTrue
<1>8. MapFollows'
  <2> SUFFICES ASSUME NEW d \in Camera \ (unsure \cup Blacklisted)
               PROVE  Ends(news', d, IF Awaited(d) THEN "PRESENT" ELSE St(d), camera'[d])
    BY <1>1 DEF MapFollows, Awaited, St, Ends
  <2>1. Ends(news, d, IF Awaited(d) THEN "PRESENT" ELSE St(d), camera[d])
    BY <1>1 DEF IInv, MapFollows
  <2> QED
    BY <1>3, <1>4, <2>1 DEF Ends
<1>9. NamesFollow' /\ ViewFollows'
  BY <1>1 DEF IInv, NamesFollow, ViewFollows, Listed, Believed, St, Ends
<1> QED
  BY <1>5, <1>6, <1>7, <1>8, <1>9 DEF IInv

(* What is done to the maps for one news, the blacklisted cameras apart.     *)
LEMMA StatusCallbackTypes ==
  ASSUME IInv, NEW c \in Camera, NEW s \in Status, SetStatus(c, s),
         IF mCallbacks = "null" THEN UNCHANGED <<mCameraDeviceNames, torn, reports>>
                                ELSE StatusChange(c, s)
  PROVE  /\ reports' \in Seq(News) /\ torn' \in BOOLEAN
         /\ mCameraDeviceNames' \subseteq DOMAIN mCameraStatusMap'
         /\ DOMAIN mCameraStatusMap' \subseteq Camera
         /\ \A d \in DOMAIN mCameraStatusMap' : mCameraStatusMap'[d] \in Status
<1>1. /\ DOMAIN mCameraStatusMap' = DOMAIN mCameraStatusMap \cup {c}
      /\ mCameraStatusMap'[c] = s
      /\ \A d \in DOMAIN mCameraStatusMap : d # c => mCameraStatusMap'[d] = mCameraStatusMap[d]
  BY SetStatusIs
<1>2. /\ reports \in Seq(News) /\ torn \in BOOLEAN
      /\ mCameraDeviceNames \subseteq DOMAIN mCameraStatusMap
      /\ DOMAIN mCameraStatusMap \subseteq Camera
      /\ \A d \in DOMAIN mCameraStatusMap : mCameraStatusMap[d] \in Status
  BY DEF IInv, TypeOK, News
<1>3. CASE mCallbacks = "null"
  BY <1>1, <1>2, <1>3
<1>4. CASE mCallbacks # "null"
  <2>1. <<c, s>> \in News
    BY DEF News
  <2>2. <<<<c, s>>>> \in Seq(News) /\ <<<<c, s>>, <<c, s>>>> \in Seq(News) /\ <<>> \in Seq(News)
    BY <2>1
  <2>3. \A r \in Seq(News) : reports \o r \in Seq(News)
    BY <1>2
  <2>4. reports' \in Seq(News)
    BY <1>2, <1>4, <2>2, <2>3 DEF StatusChange, Told
  <2>5. torn' \in BOOLEAN
    BY <1>2, <1>4 DEF StatusChange, NamesChange
  <2>6. mCameraDeviceNames' \subseteq mCameraDeviceNames \cup {c}
    BY <1>4 DEF StatusChange, NamesChange
  <2> QED
    BY <1>1, <1>2, <2>4, <2>5, <2>6
<1> QED
  BY <1>3, <1>4

(* Every camera that has no name is believed to be away.                     *)
LEMMA StatusChangeNames ==
  ASSUME IInv, init # "failed", NEW c \in Camera, NEW s \in Status, SetStatus(c, s),
         IF mCallbacks = "null" THEN UNCHANGED <<mCameraDeviceNames, torn, reports>>
                                ELSE StatusChange(c, s),
         UNCHANGED <<mCallbacks, mLegacyCameras, init>>
  PROVE  NamesFollow'
<1>1. /\ DOMAIN mCameraStatusMap' = DOMAIN mCameraStatusMap \cup {c}
      /\ mCameraStatusMap'[c] = s
      /\ \A d \in DOMAIN mCameraStatusMap : d # c => mCameraStatusMap'[d] = mCameraStatusMap[d]
  BY SetStatusIs
<1>2. CASE mCallbacks = "null"
  BY <1>2 DEF IInv, NamesFollow
<1>3. CASE mCallbacks # "null"
  <2>1. IF s # "NOT_PRESENT" THEN mCameraDeviceNames' = mCameraDeviceNames \cup {c}
                             ELSE mCameraDeviceNames' = mCameraDeviceNames \ {c}
    BY <1>3 DEF StatusChange, NamesChange
  <2> QED
    BY <1>1, <1>3, <2>1 DEF IInv, NamesFollow
<1> QED
  BY <1>2, <1>3

(* What the camera service is told of a change is the status.                *)
LEMMA StatusChangeReports ==
  ASSUME IInv, init = "up", NEW c \in Camera, NEW s \in Status, SetStatus(c, s),
         mCallbacks = "live", StatusChange(c, s),
         UNCHANGED <<mCallbacks, mLegacyCameras, init, service, view>>
  PROVE  ViewFollows'
<1>1. St(c)' = s /\ \A d : d # c => St(d)' = St(d)
  BY SetStatusIs
<1>2. reports \in Seq(News)
  BY DEF IInv, TypeOK, News
<1>3. \A d : d # c => /\ None(reports, d) => None(reports', d)
                      /\ \A t : LastIs(reports, d, t) => LastIs(reports', d, t)
  <2> DEFINE x == <<c, s>>
             one == Append(reports, x)
             two == Append(one, x)
  <2>1. reports' = one \/ reports' = two \/ reports' = reports
    <3>1. x \in News
      BY DEF News
    <3> HIDE DEF x
    <3>2. reports \o <<x>> = one /\ reports \o <<x, x>> = two /\ reports \o <<>> = reports
      BY <1>2, <3>1
    <3>3. reports' = reports \o <<x>> \/ reports' = reports \o <<x, x>> \/ reports' = reports \o <<>>
      BY DEF StatusChange, Told, x
    <3> QED
      BY <3>2, <3>3
  <2>2. /\ one \in Seq(News)
        /\ \A d : d # c => /\ None(reports, d) => None(one, d)
                           /\ \A t : LastIs(reports, d, t) => LastIs(one, d, t)
    BY <1>2, AppendIs
  <2> HIDE DEF one
  <2>3. \A d : d # c => /\ None(one, d) => None(two, d)
                        /\ \A t : LastIs(one, d, t) => LastIs(two, d, t)
    BY <2>2, AppendIs
  <2> QED
    BY <2>1, <2>2, <2>3
<1>4. \/ LastIs(reports', c, s)
      \/ reports' = reports /\ s = "NOT_PRESENT" /\ c \notin mCameraDeviceNames
  <2> DEFINE x == <<c, s>>
             one == Append(reports, x)
             two == Append(one, x)
  <2>1. \/ reports' = one \/ reports' = two
        \/ reports' = reports /\ s = "NOT_PRESENT" /\ c \notin mCameraDeviceNames
    <3>1. x \in News
      BY DEF News
    <3> HIDE DEF x
    <3>2. reports \o <<x>> = one /\ reports \o <<x, x>> = two /\ reports \o <<>> = reports
      BY <1>2, <3>1
    <3>3. \/ reports' = reports \o <<x>> \/ reports' = reports \o <<x, x>>
          \/ reports' = reports \o <<>> /\ s = "NOT_PRESENT" /\ c \notin mCameraDeviceNames
      BY DEF StatusChange, Told, x
    <3> QED
      BY <3>2, <3>3
  <2>2. one \in Seq(News) /\ LastIs(one, c, s)
    BY <1>2, AppendIs
  <2> HIDE DEF one
  <2>3. LastIs(two, c, s)
    BY <2>2, AppendIs
  <2> QED
    BY <2>1, <2>2, <2>3
<1>5. c \notin mCameraDeviceNames => St(c) = "NOT_PRESENT"
  BY DEF IInv, NamesFollow, St
<1>6. service = "up" => torn' = torn
  BY DEF StatusChange, NamesChange, IInv, TypeOK
<1>7. ASSUME NEW d \in Camera, Listed(d) PROVE Listed(d)'
  <2>1. CASE d = c
    BY <1>1, <1>4, <1>5, <1>7, <2>1 DEF Listed, Ends
  <2>2. CASE d # c
    BY <1>1, <1>3, <1>7, <2>2 DEF Listed, Ends
  <2> QED
    BY <2>1, <2>2
<1>8. ASSUME NEW d \in Camera, Believed(d) PROVE Believed(d)'
  <2>1. CASE d = c
    BY <1>1, <1>4, <1>5, <1>8, <2>1 DEF Believed
  <2>2. CASE d # c
    BY <1>1, <1>3, <1>8, <2>2 DEF Believed
  <2> QED
    BY <2>1, <2>2
<1> QED
  BY <1>6, <1>7, <1>8 DEF IInv, ViewFollows

(* News that initialize() will not overwrite is the last the map has had.    *)
LEMMA NewsTaken ==
  ASSUME IInv, news # <<>>, news' = Tail(news), init \notin {"start", "failed"},
         UNCHANGED <<camera, init, left>>,
         LET c == Head(news)[1]
             s == Head(news)[2]
         IN  IF Hidden(c) THEN UNCHANGED <<mCameraStatusMap, unsure>>
             ELSE /\ SetStatus(c, s)
                  /\ unsure' = IF Overwritten(c) THEN unsure \cup {c} ELSE unsure \ {c}
  PROVE  MapFollows'
<1>1. news \in Seq(News)
  BY DEF IInv, TypeOK, News
<1>2. PICK c \in Camera, s \in Status :
        /\ c = Head(news)[1] /\ s = Head(news)[2] /\ ~None(news, c)
        /\ \A d : /\ None(news, d) => None(news', d)
                  /\ \A t : LastIs(news, d, t) =>
                       \/ LastIs(news', d, t)
                       \/ None(news', d) /\ c = d /\ s = t
  BY <1>1, TailIs
<1>0. IF Hidden(c) THEN UNCHANGED <<mCameraStatusMap, unsure>>
      ELSE /\ SetStatus(c, s)
           /\ unsure' = IF Overwritten(c) THEN unsure \cup {c} ELSE unsure \ {c}
  BY <1>2
<1>3. \A d : Awaited(d)' <=> Awaited(d)
  BY DEF Awaited
<1>4. Hidden(c) => c \in Blacklisted
  BY DEF Hidden, IInv, TypeOK
<1>5. \A d : d # c /\ d \notin unsure' => d \notin unsure /\ St(d)' = St(d)
  BY <1>0, SetStatusIs DEF St
<1> SUFFICES ASSUME NEW d \in Camera \ (unsure' \cup Blacklisted)
             PROVE  Ends(news', d, IF Awaited(d) THEN "PRESENT" ELSE St(d)', camera[d])
  BY <1>3 DEF MapFollows, Ends
<1>6. CASE d = c
  <2>1. ~Awaited(c) /\ SetStatus(c, s)
    BY <1>0, <1>4, <1>6 DEF Awaited, Overwritten
  <2>2. St(c)' = s
    BY <2>1, SetStatusIs
  <2>3. LastIs(news, c, camera[c])
    BY <1>2 DEF IInv, NewsIsTrue
  <2> QED
    BY <1>2, <1>6, <2>1, <2>2, <2>3 DEF Ends
<1>7. CASE d # c
  <2>1. Ends(news, d, IF Awaited(d) THEN "PRESENT" ELSE St(d), camera[d])
    BY <1>5, <1>7 DEF IInv, MapFollows
  <2> QED
    BY <1>2, <1>5, <1>7, <2>1 DEF Ends
<1> QED
  BY <1>6, <1>7

(* News that is taken goes to the map, the names and the reports.            *)
LEMMA StatusCallbackStep == ASSUME IInv, StatusCallback PROVE IInv'
<1>1. /\ news # <<>> /\ news' = Tail(news)
      /\ UNCHANGED <<camera, changes, init, left, mBlacklistedCameraIds, mLegacyCameras,
                     mCallbacks, service, deaths, view>>
  BY DEF StatusCallback
<1>3. news \in Seq(News)
  BY DEF IInv, TypeOK, News
<1>4. PICK c \in Camera, s \in Status :
        /\ c = Head(news)[1] /\ s = Head(news)[2] /\ news' \in Seq(News)
        /\ \A d : /\ None(news, d) => None(news', d)
                  /\ \A t : LastIs(news, d, t) => LastIs(news', d, t) \/ None(news', d)
  BY <1>1, <1>3, TailIs
<1>2. \/ c \in mBlacklistedCameraIds
         /\ UNCHANGED <<mCameraStatusMap, mCameraDeviceNames, torn, reports, unsure, crashed>>
      \/ /\ c \notin mBlacklistedCameraIds /\ SetStatus(c, s)
         /\ unsure' = IF Overwritten(c) THEN unsure \cup {c} ELSE unsure \ {c}
         /\ IF mCallbacks = "null" THEN UNCHANGED <<mCameraDeviceNames, torn, reports>>
                                   ELSE StatusChange(c, s)
         /\ crashed' \in BOOLEAN
  BY <1>4 DEF StatusCallback, Hidden, listVars, IInv, TypeOK
<1>5. MapFollows'
  <2>1. CASE init \in {"start", "failed"}
    BY <1>1, <2>1 DEF MapFollows
  <2>2. CASE init \notin {"start", "failed"}
    BY <1>1, <1>2, <1>4, <2>2, NewsTaken DEF Hidden
  <2> QED
    BY <2>1, <2>2
<1>6. NewsIsTrue'
  BY <1>1, <1>4 DEF IInv, NewsIsTrue
<1>7. Stages'
  BY <1>1 DEF IInv, Stages
<1>8. CASE c \in mBlacklistedCameraIds
           /\ UNCHANGED <<mCameraStatusMap, mCameraDeviceNames, torn, reports, unsure, crashed>>
  <2>1. TypeOK'
    BY <1>1, <1>4, <1>8 DEF IInv, TypeOK, News
  <2>2. NamesFollow' /\ ViewFollows'
    BY <1>1, <1>8 DEF IInv, NamesFollow, ViewFollows, Listed, Believed, St, Ends
  <2> QED
    BY <1>5, <1>6, <1>7, <2>1, <2>2 DEF IInv
<1>9. CASE /\ c \notin mBlacklistedCameraIds /\ SetStatus(c, s)
           /\ unsure' = IF Overwritten(c) THEN unsure \cup {c} ELSE unsure \ {c}
           /\ IF mCallbacks = "null" THEN UNCHANGED <<mCameraDeviceNames, torn, reports>>
                                     ELSE StatusChange(c, s)
           /\ crashed' \in BOOLEAN
  <2>1. TypeOK'
    <3>1. /\ reports' \in Seq(News) /\ torn' \in BOOLEAN
          /\ mCameraDeviceNames' \subseteq DOMAIN mCameraStatusMap'
          /\ DOMAIN mCameraStatusMap' \subseteq Camera
          /\ \A d \in DOMAIN mCameraStatusMap' : mCameraStatusMap'[d] \in Status
      BY <1>4, <1>9, StatusCallbackTypes
    <3>2. unsure' \subseteq Camera
      BY <1>4, <1>9 DEF IInv, TypeOK
    <3> QED
      BY <1>1, <1>4, <1>9, <3>1, <3>2 DEF IInv, TypeOK, News
  <2>2. NamesFollow'
    <3>1. CASE init = "failed"
      BY <1>1, <3>1 DEF NamesFollow
    <3>2. CASE init # "failed"
      BY <1>1, <1>4, <1>9, <3>2, StatusChangeNames
    <3> QED
      BY <3>1, <3>2
  <2>3. ViewFollows'
    <3>1. CASE init = "up" /\ service # "down"
      <4>1. mCallbacks = "live"
        BY <3>1 DEF IInv, Stages
      <4> QED
        BY <1>1, <1>4, <1>9, <3>1, <4>1, StatusChangeReports
    <3>2. CASE init # "up" \/ service = "down"
      BY <1>1, <3>2 DEF ViewFollows
    <3> QED
      BY <3>1, <3>2
  <2> QED
    BY <1>5, <1>6, <1>7, <2>1, <2>2, <2>3 DEF IInv
<1> QED
  BY <1>2, <1>8, <1>9

(* A crash changes nothing else.                                             *)
LEMMA CrashStep == ASSUME IInv, CallbackCrashes \/ WalkCrashes PROVE IInv'
<1>1. crashed' = TRUE
      /\ UNCHANGED <<camera, news, changes, init, left, unsure, mLegacyCameras,
                     mBlacklistedCameraIds, mCallbacks, mCameraStatusMap, mCameraDeviceNames,
                     service, deaths, torn, view, reports>>
  BY DEF CallbackCrashes, WalkCrashes, halVars, initVars, listVars, serviceVars
<1>2. TypeOK' /\ Stages' /\ NewsIsTrue'
  BY <1>1 DEF IInv, TypeOK, Stages, NewsIsTrue
<1>3. MapFollows'
  BY <1>1 DEF IInv, MapFollows, Awaited, St
<1>4. NamesFollow' /\ ViewFollows'
  BY <1>1 DEF IInv, NamesFollow, ViewFollows, Listed, Believed, St, Ends
<1> QED
  BY <1>2, <1>3, <1>4 DEF IInv

(* The camera service is told of every external camera that is there.        *)
LEMMA ConnectStep == ASSUME IInv, Connect PROVE IInv'
<1> DEFINE told == {<<c, mCameraStatusMap[c]>> : c \in Reported}
<1>1. /\ init \in {"up", "failed"} /\ service = "down" /\ service' = "connected"
      /\ mCallbacks' = "live"
      /\ mCameraDeviceNames' = mCameraDeviceNames \cup Reported
      /\ reports' = SetToSeq(told)
      /\ UNCHANGED <<camera, news, changes, init, left, unsure, mLegacyCameras,
                     mBlacklistedCameraIds, mCameraStatusMap, deaths, torn, view>>
      /\ crashed' \in BOOLEAN
  BY DEF Connect, SetCallback, halVars, initVars
<1>2. /\ DOMAIN mCameraStatusMap \subseteq Camera
      /\ \A c \in DOMAIN mCameraStatusMap : mCameraStatusMap[c] \in Status
  BY DEF IInv, TypeOK
<1>3. Reported \subseteq DOMAIN mCameraStatusMap
  BY DEF Reported
<1>4. told \in SUBSET News /\ IsFiniteSet(told)
  <2>1. IsFiniteSet(Reported)
    BY <1>2, <1>3, FS_Subset, ProviderAssumption
  <2>2. told \in SUBSET News
    BY <1>2, <1>3 DEF News
  <2> QED
    BY <2>1, <2>2, PairsAreFinite
<1>5. /\ reports' \in Seq(News)
      /\ \A c : c \notin Reported => None(reports', c)
      /\ \A c : c \in Reported => LastIs(reports', c, mCameraStatusMap[c])
  <2>1. \A c, s : <<c, s>> \in told <=> c \in Reported /\ s = mCameraStatusMap[c]
    OBVIOUS
  <2> HIDE DEF told
  <2> QED
    BY <1>1, <1>4, <2>1, ListIs
<1>6. TypeOK'
  BY <1>1, <1>3, <1>5 DEF IInv, TypeOK, News
<1>7. Stages' /\ NewsIsTrue'
  BY <1>1 DEF IInv, Stages, NewsIsTrue
<1>8. MapFollows'
  BY <1>1 DEF IInv, MapFollows, Awaited, St
<1>9. NamesFollow'
  <2> SUFFICES ASSUME init # "failed", NEW c \in DOMAIN mCameraStatusMap,
                      mCameraStatusMap[c] # "NOT_PRESENT"
               PROVE  c \in mCameraDeviceNames \cup Reported
    BY <1>1 DEF NamesFollow
  <2>1. CASE c \in mLegacyCameras
    BY <2>1 DEF IInv, NamesFollow
  <2>2. CASE c \notin mLegacyCameras
    BY <2>2 DEF Reported
  <2> QED
    BY <2>1, <2>2
<1>10. ViewFollows'
  <2> SUFFICES ASSUME NEW c \in Camera PROVE Listed(c)'
    BY <1>1 DEF ViewFollows
  <2>1. CASE c \in mLegacyCameras
    <3>1. c \notin Reported
      BY <2>1 DEF Reported
    <3> QED
      BY <1>1, <1>5, <2>1, <3>1 DEF Listed
  <2>2. CASE c \in Reported
    <3>1. St(c)' = mCameraStatusMap[c] /\ c \notin mLegacyCameras
      BY <1>1, <2>2 DEF Reported, St
    <3> QED
      BY <1>1, <1>5, <2>2, <3>1 DEF Listed, Ends
  <2>3. CASE c \notin mLegacyCameras /\ c \notin Reported
    <3>1. St(c)' = "NOT_PRESENT"
      BY <1>1, <2>3 DEF Reported, St
    <3> QED
      BY <1>1, <1>5, <2>3, <3>1 DEF Listed, Ends
  <2> QED
    BY <2>1, <2>2, <2>3
<1> QED
  BY <1>6, <1>7, <1>8, <1>9, <1>10 DEF IInv

(* The service is connected before it asks for the list.                     *)
LEMMA NotifyStep == ASSUME IInv, NotifyDeviceStateChange PROVE IInv'
<1>1. /\ service = "connected"
      /\ \/ service' = "listing" /\ crashed' = crashed
         \/ init = "failed" /\ service' = service /\ crashed' = TRUE
      /\ UNCHANGED <<camera, news, changes, init, left, unsure, mLegacyCameras,
                     mBlacklistedCameraIds, mCallbacks, mCameraStatusMap, mCameraDeviceNames,
                     deaths, torn, view, reports>>
  BY DEF NotifyDeviceStateChange, halVars, initVars, listVars
<1>2. TypeOK' /\ Stages' /\ NewsIsTrue'
  BY <1>1 DEF IInv, TypeOK, Stages, NewsIsTrue
<1>3. MapFollows'
  BY <1>1 DEF IInv, MapFollows, Awaited, St
<1>4. NamesFollow' /\ ViewFollows'
  BY <1>1 DEF IInv, NamesFollow, ViewFollows, Listed, St, Ends
<1> QED
  BY <1>2, <1>3, <1>4 DEF IInv

(* A list that was not disturbed has the cameras whose status is present.    *)
LEMMA GetCameraIdListStep == ASSUME IInv, GetCameraIdList PROVE IInv'
<1>1. /\ service = "listing" /\ service' = "up"
      /\ UNCHANGED <<camera, news, changes, init, left, unsure, mLegacyCameras,
                     mBlacklistedCameraIds, mCallbacks, mCameraStatusMap, mCameraDeviceNames,
                     deaths, torn, reports, crashed>>
  BY DEF GetCameraIdList, halVars, initVars, listVars
<1>2. PICK list : /\ view' = [c \in Camera |-> IF c \in list THEN "PRESENT" ELSE "NOT_PRESENT"]
                  /\ ~torn => list = CameraIdList
  BY DEF GetCameraIdList
<1>3. view' \in [Camera -> Status]
  BY <1>2 DEF Status
<1>4. TypeOK' /\ Stages' /\ NewsIsTrue'
  BY <1>1, <1>3 DEF IInv, TypeOK, Stages, NewsIsTrue
<1>5. MapFollows'
  BY <1>1 DEF IInv, MapFollows, Awaited, St
<1>6. NamesFollow'
  BY <1>1 DEF IInv, NamesFollow
<1>7. ViewFollows'
  <2> SUFFICES ASSUME init = "up", ~torn, NEW c \in Camera PROVE Believed(c)'
    BY <1>1 DEF ViewFollows
  <2>1. Listed(c) /\ St(c)' = St(c)
    BY <1>1 DEF IInv, ViewFollows, St
  <2>2. mCallbacks # "null"
    BY <1>1 DEF IInv, Stages
  <2>3. c \in CameraIdList <=> c \in mLegacyCameras /\ St(c) = "PRESENT"
    BY <2>2 DEF CameraIdList, IInv, TypeOK, NamesFollow, St
  <2>4. view'[c] = "PRESENT" <=> c \in mLegacyCameras /\ St(c) = "PRESENT"
    BY <1>2, <2>3
  <2> QED
    BY <1>1, <2>1, <2>4 DEF Listed, Believed, Ends
<1> QED
  BY <1>4, <1>5, <1>6, <1>7 DEF IInv

(* The service takes the reports in the order of the changes.                *)
LEMMA ReadReportStep == ASSUME IInv, ReadReport PROVE IInv'
<1>1. /\ service = "up" /\ reports # <<>> /\ reports' = Tail(reports)
      /\ view' = [view EXCEPT ![Head(reports)[1]] = Head(reports)[2]]
      /\ UNCHANGED <<camera, news, changes, init, left, unsure, mLegacyCameras,
                     mBlacklistedCameraIds, mCallbacks, mCameraStatusMap, mCameraDeviceNames,
                     deaths, torn, service, crashed>>
  BY DEF ReadReport, halVars, initVars, listVars
<1>2. reports \in Seq(News) /\ view \in [Camera -> Status]
  BY DEF IInv, TypeOK, News
<1>3. PICK c \in Camera, s \in Status :
        /\ c = Head(reports)[1] /\ s = Head(reports)[2] /\ ~None(reports, c)
        /\ reports' \in Seq(News)
        /\ \A d : /\ None(reports, d) => None(reports', d)
                  /\ \A t : LastIs(reports, d, t) =>
                       \/ LastIs(reports', d, t)
                       \/ None(reports', d) /\ c = d /\ s = t
  BY <1>1, <1>2, TailIs
<1>4. /\ view' \in [Camera -> Status] /\ view'[c] = s
      /\ \A d \in Camera : d # c => view'[d] = view[d]
  BY <1>1, <1>2, <1>3
<1>5. TypeOK' /\ Stages' /\ NewsIsTrue'
  BY <1>1, <1>3, <1>4 DEF IInv, TypeOK, Stages, NewsIsTrue, News
<1>6. MapFollows'
  BY <1>1 DEF IInv, MapFollows, Awaited, St
<1>7. NamesFollow'
  BY <1>1 DEF IInv, NamesFollow
<1>8. ViewFollows'
  <2> SUFFICES ASSUME init = "up", ~torn, NEW d \in Camera PROVE Believed(d)'
    BY <1>1 DEF ViewFollows
  <2>1. Believed(d) /\ St(d)' = St(d)
    BY <1>1 DEF IInv, ViewFollows, St
  <2> QED
    BY <1>3, <1>4, <2>1 DEF Believed
<1> QED
  BY <1>5, <1>6, <1>7, <1>8 DEF IInv

(* A service that died believes nothing.                                     *)
LEMMA ServiceDiesStep == ASSUME IInv, ServiceDies PROVE IInv'
<1>1. /\ service # "down" /\ deaths < MaxDeaths
      /\ service' = "down" /\ mCallbacks' = "dead" /\ deaths' = deaths + 1
      /\ torn' = FALSE /\ reports' = <<>>
      /\ view' = [c \in Camera |-> "NOT_PRESENT"]
      /\ UNCHANGED <<camera, news, changes, init, left, unsure, mLegacyCameras,
                     mBlacklistedCameraIds, mCameraStatusMap, mCameraDeviceNames, crashed>>
  BY DEF ServiceDies, halVars, initVars, listVars
<1>2. reports' \in Seq(News) /\ view' \in [Camera -> Status]
  BY <1>1 DEF Status
<1>3. TypeOK'
  <2>1. deaths' \in 0 .. MaxDeaths
    BY <1>1, ProviderAssumption DEF IInv, TypeOK
  <2> QED
    BY <1>1, <1>2, <2>1 DEF IInv, TypeOK, News
<1>4. Stages' /\ NewsIsTrue'
  BY <1>1 DEF IInv, Stages, NewsIsTrue
<1>5. MapFollows'
  BY <1>1 DEF IInv, MapFollows, Awaited, St
<1>6. NamesFollow'
  BY <1>1 DEF IInv, Stages, NamesFollow
<1>7. ViewFollows'
  BY <1>1 DEF ViewFollows
<1> QED
  BY <1>3, <1>4, <1>5, <1>6, <1>7 DEF IInv

(* Every step keeps every part.                                              *)
LEMMA NextIInv == IInv /\ [Next]_vars => IInv'
<1> SUFFICES ASSUME IInv, [Next]_vars PROVE IInv'
  OBVIOUS
<1>1. CASE UNCHANGED vars
  <2>1. UNCHANGED <<camera, news, changes, init, left, unsure, mLegacyCameras,
                    mBlacklistedCameraIds, mCallbacks, mCameraStatusMap, mCameraDeviceNames,
                    service, deaths, torn, view, reports, crashed>>
    BY <1>1 DEF vars, halVars, initVars, listVars, serviceVars
  <2>2. TypeOK' /\ Stages' /\ NewsIsTrue'
    BY <2>1 DEF IInv, TypeOK, Stages, NewsIsTrue
  <2>3. MapFollows'
    BY <2>1 DEF IInv, MapFollows, Awaited, St
  <2>4. NamesFollow' /\ ViewFollows'
    BY <2>1 DEF IInv, NamesFollow, ViewFollows, Listed, Believed, St, Ends
  <2> QED
    BY <2>2, <2>3, <2>4 DEF IInv
<1> QED
  BY <1>1, NoModuleStep, SetCallbacksStep, ReadBlacklistStep, AddLegacyCameraStep,
     LegacyCameraFailsStep, InitializeReturnsStep, ChangeStep, StatusCallbackStep, CrashStep,
     ConnectStep, NotifyStep, GetCameraIdListStep, ReadReportStep, ServiceDiesStep
  DEF Next, Step

(* Every part holds in every reachable state.                                *)
LEMMA ProviderInvariant == Spec => []IInv
BY InitHolds, NextIInv, PTL DEF Spec

(* Every reachable state has its type: whatever has a name has a status, and *)
(* only cameras that exist are reported.                                     *)
THEOREM ProviderTypeCorrect == Spec => []TypeOK
<1>1. IInv => TypeOK
  BY DEF IInv
<1> QED
  BY <1>1, ProviderInvariant, PTL

(* When all news has arrived the camera service believes exactly those       *)
(* cameras to be present that are, and can open them, but for the cameras    *)
(* that initialize() skipped, hid or overwrote the news of, and unless the   *)
(* list changed while getCameraIdList() walked over it.                      *)
THEOREM ViewComesRight == Spec => []ViewIsRight
<1>1. IInv => ViewIsRight
  <2> SUFFICES ASSUME IInv, Settled, ~torn, NEW c \in Camera
               PROVE  /\ c \notin unsure \cup Blacklisted =>
                           (view[c] = "PRESENT" <=> camera[c] = "PRESENT")
                      /\ view[c] = "PRESENT" => c \in mCameraDeviceNames
    BY DEF ViewIsRight, GetCameraDeviceInterface
  <2>1. init = "up" /\ service = "up" /\ news = <<>> /\ reports = <<>>
    BY DEF Settled
  <2>2. view[c] = "PRESENT" <=> St(c) = "PRESENT"
    BY <2>1, NoneInEmpty DEF IInv, ViewFollows, Believed
  <2>3. ~Awaited(c)
    BY <2>1 DEF IInv, Stages, Awaited
  <2>4. c \notin unsure \cup Blacklisted => St(c) = camera[c]
    BY <2>1, <2>3, NoneInEmpty DEF IInv, MapFollows, Ends
  <2>5. mCallbacks # "null"
    BY <2>1 DEF IInv, Stages
  <2>6. St(c) = "PRESENT" => c \in mCameraDeviceNames
    BY <2>1, <2>5 DEF IInv, NamesFollow, St
  <2> QED
    BY <2>2, <2>4, <2>6
<1> QED
  BY <1>1, ProviderInvariant, PTL
=============================================================================
