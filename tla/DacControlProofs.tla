-------------------------- MODULE DacControlProofs --------------------------
(* At rest the driver has what is saved, and a setting is only changed by    *)
(* the user, for any features, coefficients and choices.                     *)
EXTENDS DacControl, SequenceTheorems, TLAPS

Values(s) == {s[i] : i \in DOMAIN s}

(* What the service can be asked, and the writes of one call of each kind.   *)
Calls ==
  {Reset} \cup {Set(s, v) : s \in Setting, v \in Int} \cup {SetSaved(s) : s \in Setting}

Value(c) == IF c.given = {} THEN prop[c.setting] ELSE CHOOSE x \in c.given : TRUE

Allowed(f, v) == f \in Feature /\ v \in Int /\ (f = "DigitalFilter" => v \in 0 .. 3)
Both(f, v) == <<Write("attr", f, v), Write("prop", f, v)>>
Rest(f, v) == <<Write("prop", f, v)>>

CustomWrite == [to : {"prop", "custom"}, setting : CustomSetting, value : Int]
EndsCustom(ws) == ws \in Seq(CustomWrite) /\ ws # <<>> /\ ws[Len(ws)].to = "custom"

(* The writes left are those of one call, and its attribute comes first.     *)
Queues ==
  /\ calls \in Seq(Calls)
  /\ service = "down" => calls = <<>> /\ writes = <<>>
  /\ \/ writes = <<>>
     \/ \E f \in Feature, v \in Int : Allowed(f, v) /\ writes = Both(f, v)
     \/ \E f \in Feature, v \in Int :
          Allowed(f, v) /\ writes = Rest(f, v) /\ (f \notin failed => attr[f] = Units(f, v))
     \/ EndsCustom(writes)

(* A feature whose attribute is behind has a call or a write coming.         *)
FeaturesFollow ==
  service # "down" =>
    \A f \in Feature \ failed :
      \/ attr[f] = Units(f, prop[f])
      \/ SetSaved(f) \in Values(calls)
      \/ \E w \in Values(writes) : w.setting = f

(* And so has a custom filter.                                               *)
CustomFollows ==
  service # "down" /\ "custom" \notin failed =>
    \/ custom = CustomData
    \/ \E s \in CustomSetting : SetSaved(s) \in Values(calls)
    \/ EndsCustom(writes)

IInv == TypeOK /\ Queues /\ FeaturesFollow /\ CustomFollows

(* A call or a write that is coming keeps its setting, unless the user       *)
(* chose it or it is the shape.                                              *)
Free(s) == s = "shape" \/ (s \in chosen /\ service = "up")
CallKeeps(c) ==
  \/ c = Reset /\ Coeff \subseteq chosen /\ service = "up"
  \/ c.setting \in Setting /\ (Free(c.setting) \/ Value(c) = prop[c.setting])
WriteKeeps(w) == w.to = "prop" => Free(w.setting) \/ w.value = prop[w.setting]
Keeps ==
  /\ \A c \in Values(calls) : CallKeeps(c)
  /\ \A w \in Values(writes) : WriteKeeps(w)
-----------------------------------------------------------------------------
(* What a sequence holds when its head is taken.                             *)
LEMMA TailValues ==
  ASSUME NEW S, NEW s \in Seq(S), s # <<>>
  PROVE  /\ Head(s) \in S /\ Tail(s) \in Seq(S)
         /\ Values(s) = {Head(s)} \cup Values(Tail(s))
<1>1. /\ Head(s) \in S /\ Tail(s) \in Seq(S) /\ Head(s) = s[1]
      /\ DOMAIN s = 1 .. Len(s) /\ Len(s) \in Nat \ {0}
      /\ DOMAIN Tail(s) = 1 .. (Len(s) - 1)
      /\ \A i \in 1 .. (Len(s) - 1) : Tail(s)[i] = s[i + 1]
  OBVIOUS
<1>2. Values(s) \subseteq {Head(s)} \cup Values(Tail(s))
  <2> SUFFICES ASSUME NEW i \in 1 .. Len(s), i # 1 PROVE s[i] \in Values(Tail(s))
    BY <1>1 DEF Values
  <2>1. i - 1 \in 1 .. (Len(s) - 1) /\ s[i] = Tail(s)[i - 1]
    BY <1>1
  <2> QED
    BY <1>1, <2>1 DEF Values
<1>3. Values(Tail(s)) \subseteq Values(s)
  BY <1>1 DEF Values
<1>4. Head(s) \in Values(s)
  BY <1>1 DEF Values
<1> QED
  BY <1>1, <1>2, <1>3, <1>4

(* What is appended is held too.                                             *)
LEMMA JoinedValues ==
  ASSUME NEW S, NEW s \in Seq(S), NEW t \in Seq(S)
  PROVE  s \o t \in Seq(S) /\ Values(s \o t) = Values(s) \cup Values(t)
<1>1. /\ s \o t \in Seq(S) /\ Len(s \o t) = Len(s) + Len(t)
      /\ Len(s) \in Nat /\ Len(t) \in Nat
      /\ DOMAIN s = 1 .. Len(s) /\ DOMAIN t = 1 .. Len(t)
      /\ DOMAIN (s \o t) = 1 .. (Len(s) + Len(t))
  OBVIOUS
<1>2. \A i \in 1 .. (Len(s) + Len(t)) :
         (s \o t)[i] = IF i <= Len(s) THEN s[i] ELSE t[i - Len(s)]
  BY ConcatProperties
<1>3. Values(s \o t) \subseteq Values(s) \cup Values(t)
  <2> SUFFICES ASSUME NEW i \in 1 .. (Len(s) + Len(t))
               PROVE  (s \o t)[i] \in Values(s) \cup Values(t)
    BY <1>1 DEF Values
  <2>1. CASE i <= Len(s)
    BY <1>1, <1>2, <2>1 DEF Values
  <2>2. CASE ~(i <= Len(s))
    BY <1>1, <1>2, <2>2, i - Len(s) \in 1 .. Len(t) DEF Values
  <2> QED
    BY <2>1, <2>2
<1>4. Values(s) \subseteq Values(s \o t)
  <2> SUFFICES ASSUME NEW i \in 1 .. Len(s) PROVE s[i] \in Values(s \o t)
    BY <1>1 DEF Values
  <2>1. i \in 1 .. (Len(s) + Len(t)) /\ (s \o t)[i] = s[i]
    BY <1>1, <1>2
  <2> QED
    BY <1>1, <2>1 DEF Values
<1>5. Values(t) \subseteq Values(s \o t)
  <2> SUFFICES ASSUME NEW i \in 1 .. Len(t) PROVE t[i] \in Values(s \o t)
    BY <1>1 DEF Values
  <2>1. /\ i + Len(s) \in 1 .. (Len(s) + Len(t)) /\ ~(i + Len(s) <= Len(s))
        /\ i + Len(s) - Len(s) = i
    BY <1>1
  <2>2. (s \o t)[i + Len(s)] = t[i]
    BY <1>2, <2>1
  <2> QED
    BY <1>1, <2>1, <2>2 DEF Values
<1> QED
  BY <1>1, <1>3, <1>4, <1>5

(* The values of short sequences.                                            *)
LEMMA SmallValues ==
  /\ \A s : Values(s) = {s[i] : i \in DOMAIN s}
  /\ Values(<<>>) = {}
  /\ \A x : Values(<<x>>) = {x}
  /\ \A x, y : Values(<<x, y>>) = {x, y}
<1>1. Values(<<>>) = {}
  BY DEF Values
<1>2. \A x : Values(<<x>>) = {x}
  BY DEF Values
<1>3. \A x, y : Values(<<x, y>>) = {x, y}
  <2> TAKE x, y
  <2>1. DOMAIN <<x, y>> = {1, 2} /\ <<x, y>>[1] = x /\ <<x, y>>[2] = y
    OBVIOUS
  <2> QED
    BY <2>1 DEF Values
<1> QED
  BY <1>1, <1>2, <1>3 DEF Values

(* The features and the settings of the custom filter have different names.  *)
LEMMA Names ==
  /\ Feature \cap CustomSetting = {} /\ "reset" \notin Setting /\ "custom" \notin Feature
  /\ "shape" \in CustomSetting /\ Coeff \subseteq CustomSetting /\ Feature \subseteq Setting
  /\ CustomSetting \subseteq Setting /\ "shape" \notin Coeff
  /\ Custom \in Seq(CustomSetting) /\ Values(Custom) = CustomSetting
  /\ Coeffs \in Seq(Coeff)
  /\ Coeff \cap AllFeatures = {} /\ CustomSetting = {"shape", "symmetry"} \cup Coeff
<1> DEFINE Named == (STRING \cup {"shape", "symmetry"}) \ (AllFeatures \cup {"reset"})
<1>1. Coeffs \in Seq(STRING \ (AllFeatures \cup {"shape", "symmetry", "reset"}))
      /\ Feature \subseteq AllFeatures
  BY DacAssumption
<1>2. Coeff \subseteq STRING \ (AllFeatures \cup {"shape", "symmetry", "reset"})
  BY <1>1 DEF Coeff
<1>3. Coeffs \in Seq(Named) /\ <<"shape", "symmetry">> \in Seq(Named)
  <2>1. Coeffs \in Seq(Named)
    BY <1>1, SeqMonotonic,
       STRING \ (AllFeatures \cup {"shape", "symmetry", "reset"}) \subseteq Named
  <2>2. "shape" \in Named /\ "symmetry" \in Named
    BY DEF AllFeatures
  <2> HIDE DEF Named
  <2> QED
    BY <2>1, <2>2
<1>4. /\ Custom \in Seq(Named)
      /\ Values(Custom) = Values(<<"shape", "symmetry">>) \cup Values(Coeffs)
  <2> DEFINE two == <<"shape", "symmetry">>
  <2>1. two \in Seq(Named) /\ Coeffs \in Seq(Named) /\ Custom = two \o Coeffs
    BY <1>3 DEF Custom
  <2> HIDE DEF two, Named
  <2>2. \A s, u \in Seq(Named) : s \o u \in Seq(Named) /\ Values(s \o u) = Values(s) \cup Values(u)
    BY JoinedValues
  <2>3. Custom \in Seq(Named) /\ Values(Custom) = Values(two) \cup Values(Coeffs)
    BY <2>1, <2>2
  <2> QED
    BY <2>3 DEF two
<1>5. Values(Custom) = CustomSetting /\ Values(Coeffs) = Coeff
  BY DEF Values, CustomSetting, Coeff
<1>6. CustomSetting = {"shape", "symmetry"} \cup Coeff
  BY <1>4, <1>5, SmallValues
<1>7. Custom \in Seq(CustomSetting) /\ Coeffs \in Seq(Coeff)
  <2>1. DOMAIN Custom = 1 .. Len(Custom) /\ Len(Custom) \in Nat
    BY <1>4
  <2>2. DOMAIN Coeffs = 1 .. Len(Coeffs) /\ Len(Coeffs) \in Nat
    BY <1>1
  <2>3. Custom \in [1 .. Len(Custom) -> CustomSetting]
    BY <1>4, <2>1 DEF CustomSetting
  <2>4. Coeffs \in [1 .. Len(Coeffs) -> Coeff]
    BY <1>1, <2>2 DEF Coeff
  <2> QED
    BY <2>1, <2>2, <2>3, <2>4
<1>8. Setting = Feature \cup CustomSetting
  BY DEF Setting
<1> QED
  BY <1>1, <1>2, <1>5, <1>6, <1>7, <1>8 DEF AllFeatures

(* A feature is in the list when the driver has it.                          *)
LEMMA SupportedIs ==
  ASSUME NEW f
  PROVE  Supported(f) \in Seq(Feature) /\ Values(Supported(f)) = Feature \cap {f}
BY SmallValues DEF Supported

(* The constructor has a call for every feature the driver has.              *)
LEMMA FeaturesAre == Features \in Seq(Feature) /\ Values(Features) = Feature
<1> DEFINE d == Supported("DigitalFilter")
           l == Supported("BalanceLeft")
           r == Supported("BalanceRight")
           a == Supported("AVCVolume")
           h == Supported("HifiMode")
<1>1. /\ d \in Seq(Feature) /\ Values(d) = Feature \cap {"DigitalFilter"}
      /\ l \in Seq(Feature) /\ Values(l) = Feature \cap {"BalanceLeft"}
      /\ r \in Seq(Feature) /\ Values(r) = Feature \cap {"BalanceRight"}
      /\ a \in Seq(Feature) /\ Values(a) = Feature \cap {"AVCVolume"}
      /\ h \in Seq(Feature) /\ Values(h) = Feature \cap {"HifiMode"}
  BY SupportedIs
<1>2. Features = ((((d \o l) \o r) \o a) \o h)
  BY DEF Features
<1> HIDE DEF d, l, r, a, h
<1> DEFINE dl == d \o l
           dlr == dl \o r
           dlra == dlr \o a
<1>0. \A s, t \in Seq(Feature) :
         s \o t \in Seq(Feature) /\ Values(s \o t) = Values(s) \cup Values(t)
  BY JoinedValues
<1>3. dl \in Seq(Feature) /\ Values(dl) = Values(d) \cup Values(l)
  BY <1>1, <1>0
<1> HIDE DEF dl
<1>4. dlr \in Seq(Feature) /\ Values(dlr) = Values(dl) \cup Values(r)
  BY <1>1, <1>3, <1>0
<1> HIDE DEF dlr
<1>5. dlra \in Seq(Feature) /\ Values(dlra) = Values(dlr) \cup Values(a)
  BY <1>1, <1>4, <1>0
<1> HIDE DEF dlra
<1>6. dlra \o h \in Seq(Feature) /\ Values(dlra \o h) = Values(dlra) \cup Values(h)
  BY <1>1, <1>5, <1>0
<1>7. Features = dlra \o h
  BY <1>2 DEF dl, dlr, dlra
<1> QED
  BY <1>1, <1>3, <1>4, <1>5, <1>6, <1>7, DacAssumption DEF AllFeatures

(* A call is made for each setting of a sequence.                            *)
LEMMA EachSaved ==
  ASSUME NEW order \in Seq(Setting)
  PROVE  /\ SetAll(order, SetSaved) \in Seq(Calls)
         /\ Values(SetAll(order, SetSaved)) = {SetSaved(s) : s \in Values(order)}
<1> DEFINE q == [i \in DOMAIN order |-> SetSaved(order[i])]
<1>1. SetAll(order, SetSaved) = q
  BY DEF SetAll
<1>2. DOMAIN order = 1 .. Len(order) /\ Len(order) \in Nat
      /\ \A i \in DOMAIN order : order[i] \in Setting
  OBVIOUS
<1>3. \A s \in Setting : SetSaved(s) \in Calls
  BY DEF Calls
<1>4. q \in [1 .. Len(order) -> Calls]
  BY <1>2, <1>3
<1>5. Values(q) = {SetSaved(s) : s \in Values(order)}
  BY DEF Values
<1> QED
  BY <1>1, <1>2, <1>4, <1>5
-----------------------------------------------------------------------------
(* What a call asks for.                                                     *)
LEMMA ValueIs ==
  ASSUME TypeOK, NEW c \in Calls, c # Reset
  PROVE  /\ c.setting \in Setting /\ Value(c) \in Int
         /\ c.given = {} => Value(c) = prop[c.setting]
<1>1. CASE \E s \in Setting, v \in Int : c = Set(s, v)
  <2>1. PICK s \in Setting, v \in Int : c = Set(s, v)
    BY <1>1
  <2>2. c.setting = s /\ c.given = {v} /\ c.given # {}
    BY <2>1 DEF Set
  <2>3. Value(c) = CHOOSE x \in {v} : TRUE
    BY <2>2 DEF Value
  <2>4. Value(c) = v
    BY <2>3
  <2> QED
    BY <2>2, <2>4
<1>2. CASE \E s \in Setting : c = SetSaved(s)
  <2>1. PICK s \in Setting : c = SetSaved(s)
    BY <1>2
  <2>2. c.setting = s /\ c.given = {}
    BY <2>1 DEF SetSaved
  <2>3. Value(c) = prop[s]
    BY <2>2 DEF Value
  <2> QED
    BY <2>2, <2>3 DEF TypeOK
<1> QED
  BY <1>1, <1>2 DEF Calls

(* A call with a value asks for that value.                                  *)
LEMMA GivenIs ==
  ASSUME NEW s, NEW v
  PROVE  Set(s, v).setting = s /\ Value(Set(s, v)) = v /\ (s # "reset" => Set(s, v) # Reset)
<1>1. Set(s, v).setting = s /\ Set(s, v).given = {v} /\ Set(s, v).given # {}
  BY DEF Set
<1>2. Value(Set(s, v)) = CHOOSE x \in {v} : TRUE
  BY <1>1 DEF Value
<1>3. Reset.setting = "reset"
  BY DEF Reset, SetSaved
<1> QED
  BY <1>1, <1>2, <1>3

(* A call without one asks for the value that is saved.                      *)
LEMMA SavedIs ==
  ASSUME NEW s
  PROVE  /\ SetSaved(s).setting = s /\ SetSaved(s).given = {} /\ Value(SetSaved(s)) = prop[s]
         /\ s # "reset" => SetSaved(s) # Reset
<1>1. SetSaved(s).setting = s /\ SetSaved(s).given = {}
  BY DEF SetSaved
<1>3. Reset.setting = "reset"
  BY DEF Reset, SetSaved
<1> QED
  BY <1>1, <1>3 DEF Value

(* The parts of a write.                                                     *)
LEMMA WriteIs ==
  ASSUME NEW to, NEW s, NEW v
  PROVE  Write(to, s, v).to = to /\ Write(to, s, v).setting = s /\ Write(to, s, v).value = v
BY DEF Write

(* Resetting writes every coefficient and then the filter.                   *)
LEMMA ResetIs ==
  /\ EndsCustom(ResetCoeffs)
  /\ \A w \in Values(ResetCoeffs) : w.to = "prop" => w.setting \in Coeff
<1> DEFINE zeros == [i \in DOMAIN Coeffs |-> Write("prop", Coeffs[i], 0)]
           last == <<Write("custom", "shape", 0)>>
<1>1. Coeffs \in Seq(Coeff) /\ Coeff \subseteq CustomSetting /\ "shape" \in CustomSetting
  BY Names
<1>2. DOMAIN Coeffs = 1 .. Len(Coeffs) /\ Len(Coeffs) \in Nat
      /\ \A i \in DOMAIN Coeffs : Coeffs[i] \in Coeff
  BY <1>1
<1>3. \A i \in DOMAIN Coeffs : Write("prop", Coeffs[i], 0) \in CustomWrite
  BY <1>1, <1>2 DEF Write, CustomWrite
<1>4. zeros \in Seq(CustomWrite)
  BY <1>2, <1>3, zeros \in [1 .. Len(Coeffs) -> CustomWrite]
<1>5. Write("custom", "shape", 0) \in CustomWrite
  BY <1>1 DEF Write, CustomWrite
<1>6. last \in Seq(CustomWrite) /\ Len(last) = 1 /\ last[1].to = "custom"
  BY <1>5, WriteIs
<1>7. ResetCoeffs = zeros \o last
  BY DEF ResetCoeffs
<1>8. \A w \in Values(zeros) : w.setting \in Coeff
  BY <1>2, WriteIs DEF Values
<1>9. \A w \in Values(last) : w.to = "custom"
  BY SmallValues, WriteIs
<1> HIDE DEF zeros, last
<1>10. ResetCoeffs \in Seq(CustomWrite) /\ Values(ResetCoeffs) = Values(zeros) \cup Values(last)
  BY <1>4, <1>6, <1>7, JoinedValues
<1>11. Len(ResetCoeffs) = Len(zeros) + 1 /\ Len(zeros) \in Nat
       /\ ResetCoeffs[Len(zeros) + 1] = last[1]
  <2>1. Len(zeros) \in Nat
    BY <1>4
  <2>2. /\ Len(zeros \o last) = Len(zeros) + Len(last)
        /\ \A i \in 1 .. Len(zeros) + Len(last) :
             (zeros \o last)[i] = IF i <= Len(zeros) THEN zeros[i] ELSE last[i - Len(zeros)]
    BY <1>4, <1>6, ConcatProperties
  <2>3. (zeros \o last)[Len(zeros) + 1] = last[Len(zeros) + 1 - Len(zeros)]
    BY <1>6, <2>1, <2>2
  <2>4. Len(zeros) + 1 - Len(zeros) = 1
    BY <2>1
  <2> QED
    BY <1>6, <1>7, <2>1, <2>2, <2>3, <2>4
<1>12. EndsCustom(ResetCoeffs)
  BY <1>6, <1>10, <1>11 DEF EndsCustom
<1> QED
  BY <1>8, <1>9, <1>10, <1>12

(* The writes of a call.                                                     *)
LEMMA ExecuteIs ==
  ASSUME TypeOK, NEW c \in Calls
  PROVE  \/ c = Reset /\ Execute(c) = ResetCoeffs
         \/ /\ c # Reset /\ c.setting \in CustomSetting /\ EndsCustom(Execute(c))
            /\ c.setting # "shape" =>
                 \A w \in Values(Execute(c)) :
                   w.to = "prop" => w.setting = c.setting /\ w.value = Value(c)
            /\ \A w \in Values(Execute(c)) : w.to = "prop" => w.setting = c.setting
         \/ /\ c # Reset /\ c.setting \in Feature /\ c.setting \notin CustomSetting
            /\ \/ Execute(c) = <<>> /\ ~Allowed(c.setting, Value(c))
               \/ Allowed(c.setting, Value(c)) /\ Execute(c) = Both(c.setting, Value(c))
<1> DEFINE s == c.setting
           v == Value(c)
           saved == IF s = "shape" /\ v > 4 THEN v + 1 ELSE v
<1>1. CASE c = Reset
  BY <1>1 DEF Execute
<1>2. CASE c # Reset /\ s \in CustomSetting
  <2>1. s \in Setting /\ v \in Int
    BY <1>2, ValueIs
  <2>2. Execute(c) = <<Write("prop", s, saved), Write("custom", s, 0)>>
    BY <1>2 DEF Execute, SetCustom, Value
  <2>3. saved \in Int /\ (s # "shape" => saved = v)
    BY <2>1
  <2> HIDE DEF saved, s, v
  <2>4. Write("prop", s, saved) \in CustomWrite /\ Write("custom", s, 0) \in CustomWrite
    BY <1>2, <2>3 DEF Write, CustomWrite
  <2>5. Write("custom", s, 0).to = "custom"
    BY WriteIs
  <2>6. EndsCustom(Execute(c))
    BY <2>2, <2>4, <2>5 DEF EndsCustom
  <2>7. Values(Execute(c)) = {Write("prop", s, saved), Write("custom", s, 0)}
    BY <2>2, SmallValues
  <2> QED
    BY <1>2, <2>3, <2>6, <2>7, WriteIs DEF s, v
<1>3. CASE c # Reset /\ s \notin CustomSetting
  <2>1. s \in Setting /\ v \in Int /\ s \in Feature
    BY <1>3, ValueIs DEF Setting
  <2>2. Execute(c) = SetFeatureValue(s, v)
    BY <1>3 DEF Execute, Value
  <2> QED
    BY <1>3, <2>1, <2>2 DEF SetFeatureValue, Allowed, Both
<1> QED
  BY <1>1, <1>2, <1>3
-----------------------------------------------------------------------------
(* The driver takes numbers.                                                 *)
LEMMA UnitsIsInt ==
  ASSUME NEW f, NEW v, Allowed(f, v)
  PROVE  Units(f, v) \in Int
<1>1. CASE f = "DigitalFilter"
  <2>1. v \in {0, 1, 2, 3}
    BY <1>1 DEF Allowed
  <2>2. Units(f, v) = <<9, 4, 5, 3>>[v + 1]
    BY <1>1 DEF Units
  <2> QED
    BY <2>1, <2>2
<1>2. CASE f # "DigitalFilter"
  <2>1. v \in Int /\ -v \in Int
    BY DEF Allowed
  <2> QED
    BY <1>2, <2>1 DEF Units
<1> QED
  BY <1>1, <1>2

(* Before the service starts nothing is asked of it.                         *)
LEMMA InitHolds == Init => IInv
<1> SUFFICES ASSUME Init PROVE IInv
  OBVIOUS
<1>1. TypeOK
  <2>1. prop \in [Setting -> Int] /\ ("DigitalFilter" \in Feature => prop["DigitalFilter"] = 0)
    BY Names DEF Init, Unset
  <2> QED
    BY <2>1, DacAssumption DEF Init, TypeOK
<1>2. Queues
  BY DEF Init, Queues
<1> QED
  BY <1>1, <1>2 DEF Init, IInv, FeaturesFollow, CustomFollows

(* The constructor has a call for every setting.                             *)
LEMMA StartStep == ASSUME IInv, Start PROVE IInv'
<1>1. /\ Features \in Seq(Setting) /\ Values(Features) = Feature
      /\ Custom \in Seq(Setting) /\ Values(Custom) = CustomSetting
  BY FeaturesAre, Names, SeqMonotonic
<1> DEFINE q == SetAll(Features, SetSaved)
           p == SetAll(Custom, SetSaved)
<1>2. /\ q \in Seq(Calls) /\ Values(q) = {SetSaved(s) : s \in Feature}
      /\ p \in Seq(Calls) /\ Values(p) = {SetSaved(s) : s \in CustomSetting}
  BY <1>1, EachSaved
<1>3. calls' = q \o p /\ service' = "starting"
      /\ UNCHANGED <<prop, attr, custom, writes, chosen, failed, events>>
  BY DEF Start
<1>4. writes = <<>>
  BY DEF Start, IInv, Queues
<1> HIDE DEF q, p
<1>5. calls' \in Seq(Calls) /\ Values(calls') = Values(q) \cup Values(p)
  BY <1>2, <1>3, JoinedValues
<1>6. TypeOK'
  BY <1>3 DEF IInv, TypeOK
<1>7. Queues'
  BY <1>3, <1>4, <1>5 DEF Queues
<1>8. FeaturesFollow'
  BY <1>2, <1>5 DEF FeaturesFollow
<1>9. CustomFollows'
  BY <1>2, <1>5, Names DEF CustomFollows
<1> QED
  BY <1>6, <1>7, <1>8, <1>9 DEF IInv

(* Registering changes no setting.                                           *)
LEMMA RegisterStep == ASSUME IInv, Register PROVE IInv'
<1> USE DEF Register
<1>1. TypeOK'
  BY DEF IInv, TypeOK
<1>2. Queues'
  BY DEF IInv, Queues
<1>3. FeaturesFollow'
  BY DEF IInv, FeaturesFollow
<1>4. CustomFollows'
  BY DEF IInv, CustomFollows, CustomData
<1> QED
  BY <1>1, <1>2, <1>3, <1>4 DEF IInv

(* The writes of a call bring up the setting it was for.                     *)
LEMMA NextCallStep == ASSUME IInv, NextCall PROVE IInv'
<1> DEFINE c == Head(calls)
<1>1. /\ writes = <<>> /\ writes' = Execute(c) /\ calls' = Tail(calls)
      /\ service' = service /\ service # "down"
      /\ UNCHANGED <<prop, attr, custom, service, chosen, failed, events>>
  BY DEF NextCall
<1>2. c \in Calls /\ Tail(calls) \in Seq(Calls) /\ Values(calls) = {c} \cup Values(Tail(calls))
  BY TailValues DEF NextCall, IInv, Queues
<1> HIDE DEF c
<1>3. TypeOK /\ TypeOK'
  BY <1>1 DEF IInv, TypeOK
<1>4. /\ c = Reset => EndsCustom(writes')
      /\ c # Reset /\ c.setting \in CustomSetting => EndsCustom(writes')
      /\ c # Reset /\ c.setting \notin CustomSetting =>
           /\ c.setting \in Feature
           /\ \/ writes' = <<>> /\ ~Allowed(c.setting, Value(c))
              \/ Allowed(c.setting, Value(c)) /\ writes' = Both(c.setting, Value(c))
  BY <1>1, <1>2, <1>3, ExecuteIs, ResetIs
<1>5. Queues'
  <2>1. CASE EndsCustom(writes')
    BY <1>1, <1>2, <2>1 DEF Queues, EndsCustom
  <2>2. CASE c # Reset /\ c.setting \notin CustomSetting
    <3>1. CASE writes' = <<>>
      BY <1>1, <1>2, <3>1 DEF Queues
    <3>2. CASE Allowed(c.setting, Value(c)) /\ writes' = Both(c.setting, Value(c))
      <4>1. c.setting \in Feature /\ Value(c) \in Int
        BY <3>2 DEF Allowed
      <4> QED
        BY <1>1, <1>2, <3>2, <4>1 DEF Queues
    <3> QED
      BY <1>4, <2>2, <3>1, <3>2
  <2> QED
    BY <1>4, <2>1, <2>2
<1>6. FeaturesFollow'
  <2> SUFFICES ASSUME NEW f \in Feature \ failed, attr[f] # Units(f, prop[f]),
                      SetSaved(f) \notin Values(Tail(calls))
               PROVE  \E w \in Values(writes') : w.setting = f
    BY <1>1 DEF FeaturesFollow
  <2>1. ~(\E w \in Values(writes) : w.setting = f)
    BY <1>1, SmallValues
  <2>2. c = SetSaved(f)
    BY <1>1, <1>2, <2>1 DEF IInv, FeaturesFollow
  <2>3. c # Reset /\ c.setting = f /\ Value(c) = prop[f] /\ f \notin CustomSetting
    BY <2>2, SavedIs, Names
  <2>4. Allowed(f, prop[f])
    BY Names, <1>3 DEF Allowed, TypeOK
  <2>5. writes' = Both(f, prop[f])
    BY <1>4, <2>3, <2>4
  <2>6. Write("prop", f, prop[f]) \in Values(writes')
    BY <2>5, SmallValues DEF Both
  <2> QED
    BY <2>6, WriteIs
<1>7. CustomFollows'
  <2> SUFFICES ASSUME "custom" \notin failed, custom # CustomData,
                      \A s \in CustomSetting : SetSaved(s) \notin Values(Tail(calls))
               PROVE  EndsCustom(writes')
    BY <1>1 DEF CustomFollows, CustomData
  <2>1. ~EndsCustom(writes)
    BY <1>1 DEF EndsCustom
  <2>2. PICK s \in CustomSetting : c = SetSaved(s)
    BY <1>1, <1>2, <2>1 DEF IInv, CustomFollows
  <2>3. c # Reset /\ c.setting = s
    BY <2>2, SavedIs, Names
  <2> QED
    BY <1>4, <2>3
<1> QED
  BY <1>3, <1>5, <1>6, <1>7 DEF IInv

(* The kinds of writes that are left and what is left after one of them.     *)
LEMMA WritesAre ==
  ASSUME IInv, writes # <<>>
  PROVE  \/ \E f \in Feature, v \in Int :
              /\ Allowed(f, v) /\ writes = Both(f, v)
              /\ Head(writes) = Write("attr", f, v) /\ Tail(writes) = Rest(f, v)
         \/ \E f \in Feature, v \in Int :
              /\ Allowed(f, v) /\ writes = Rest(f, v) /\ (f \notin failed => attr[f] = Units(f, v))
              /\ Head(writes) = Write("prop", f, v) /\ Tail(writes) = <<>>
         \/ /\ EndsCustom(writes) /\ Head(writes) \in CustomWrite
            /\ Tail(writes) # <<>> => EndsCustom(Tail(writes))
            /\ Tail(writes) = <<>> => Head(writes).to = "custom"
            /\ \A w \in Values(Tail(writes)) : w \in Values(writes)
<1>1. CASE \E f \in Feature, v \in Int : Allowed(f, v) /\ writes = Both(f, v)
  <2>1. PICK f \in Feature, v \in Int : Allowed(f, v) /\ writes = Both(f, v)
    BY <1>1
  <2>2. Head(writes) = Write("attr", f, v) /\ Tail(writes) = Rest(f, v)
    BY <2>1 DEF Both, Rest
  <2> QED
    BY <2>1, <2>2
<1>2. CASE \E f \in Feature, v \in Int :
             Allowed(f, v) /\ writes = Rest(f, v) /\ (f \notin failed => attr[f] = Units(f, v))
  <2>1. PICK f \in Feature, v \in Int :
          Allowed(f, v) /\ writes = Rest(f, v) /\ (f \notin failed => attr[f] = Units(f, v))
    BY <1>2
  <2>2. Head(writes) = Write("prop", f, v) /\ Tail(writes) = <<>>
    BY <2>1 DEF Rest
  <2> QED
    BY <2>1, <2>2
<1>3. CASE EndsCustom(writes)
  <2>1. writes \in Seq(CustomWrite) /\ writes[Len(writes)].to = "custom"
    BY <1>3 DEF EndsCustom
  <2>2. /\ Head(writes) \in CustomWrite /\ Tail(writes) \in Seq(CustomWrite)
        /\ Values(writes) = {Head(writes)} \cup Values(Tail(writes))
    BY <2>1, TailValues
  <2>3. /\ Len(Tail(writes)) = Len(writes) - 1 /\ Head(writes) = writes[1]
        /\ \A i \in 1 .. (Len(writes) - 1) : Tail(writes)[i] = writes[i + 1]
        /\ Len(writes) \in Nat \ {0}
    BY <2>1
  <2>0. Tail(writes) = <<>> <=> Len(Tail(writes)) = 0
    BY <2>2, EmptySeq
  <2>4. CASE Len(writes) = 1
    <3>1. Tail(writes) = <<>> /\ Head(writes).to = "custom"
      BY <2>0, <2>1, <2>3, <2>4
    <3> QED
      BY <1>3, <2>2, <3>1
  <2>5. CASE Len(writes) # 1
    <3>1. Len(writes) - 1 \in 1 .. (Len(writes) - 1) /\ Len(writes) - 1 + 1 = Len(writes)
      BY <2>3, <2>5
    <3>2. Tail(writes)[Len(writes) - 1] = writes[Len(writes)]
      BY <2>3, <3>1
    <3>3. Tail(writes) # <<>>
      BY <2>0, <2>3, <2>5
    <3>4. EndsCustom(Tail(writes))
      BY <2>1, <2>2, <2>3, <3>2, <3>3 DEF EndsCustom
    <3> QED
      BY <1>3, <2>2, <3>3, <3>4
  <2> QED
    BY <2>4, <2>5
<1> QED
  BY <1>1, <1>2, <1>3 DEF IInv, Queues

(* Only a running service writes.                                            *)
LEMMA RunningWrites == ASSUME IInv, writes # <<>> PROVE service # "down"
BY DEF IInv, Queues

(* The parts of a write of the custom filter.                                *)
LEMMA CustomWriteIs ==
  ASSUME NEW w \in CustomWrite
  PROVE  w.setting \in CustomSetting /\ w.to \in {"prop", "custom"} /\ w.value \in Int
BY DEF CustomWrite

(* After the attribute comes the property with the same value.               *)
LEMMA WriteAttrStep == ASSUME IInv, WriteAttr PROVE IInv'
<1>1. /\ writes # <<>> /\ writes' = Tail(writes) /\ Head(writes).to = "attr"
      /\ UNCHANGED <<prop, custom, service, calls, chosen, events>> /\ service # "down"
  BY RunningWrites DEF WriteAttr, Done
<1>2. PICK f \in Feature, v \in Int :
        /\ Allowed(f, v) /\ writes = Both(f, v)
        /\ Head(writes) = Write("attr", f, v) /\ Tail(writes) = Rest(f, v)
  <2>1. \A g, u : Write("prop", g, u).to # "attr"
    BY WriteIs
  <2>2. ~(Head(writes) \in CustomWrite)
    BY <1>1, CustomWriteIs
  <2> QED
    BY <1>1, <2>1, <2>2, WritesAre
<1>3. \/ attr' = [attr EXCEPT ![f] = Units(f, v)] /\ failed' = failed \ {f}
      \/ attr' = attr /\ failed' = failed \cup {f}
  BY <1>2, WriteIs DEF WriteAttr
<1>4. f # "custom" /\ f \notin CustomSetting
  BY Names
<1>5. /\ f \notin failed' => attr'[f] = Units(f, v)
      /\ \A g \in Feature \ {f} : attr'[g] = attr[g] /\ (g \in failed' <=> g \in failed)
      /\ "custom" \in failed' <=> "custom" \in failed
  BY <1>3, <1>4 DEF IInv, TypeOK
<1>6. TypeOK'
  BY <1>1, <1>2, <1>3, UnitsIsInt DEF IInv, TypeOK
<1>7. Queues'
  <2>1. writes' = Rest(f, v) /\ (f \notin failed' => attr'[f] = Units(f, v))
    BY <1>1, <1>2, <1>5
  <2> QED
    BY <1>1, <1>2, <2>1 DEF IInv, Queues
<1>8. FeaturesFollow'
  <2>1. Values(writes) = {Write("attr", f, v), Write("prop", f, v)}
        /\ Values(writes') = {Write("prop", f, v)}
    BY <1>1, <1>2, SmallValues DEF Both, Rest
  <2>2. \A g \in Feature \ {f} : \A w \in Values(writes) : w.setting # g
    BY <2>1, WriteIs
  <2>3. \E w \in Values(writes') : w.setting = f
    BY <2>1, WriteIs
  <2> SUFFICES ASSUME NEW g \in Feature \ failed', g # f
               PROVE  attr'[g] = Units(g, prop[g]) \/ SetSaved(g) \in Values(calls)
    BY <1>1, <2>3 DEF FeaturesFollow
  <2> QED
    BY <1>1, <1>5, <2>2 DEF IInv, FeaturesFollow
<1>9. CustomFollows'
  <2>1. ~EndsCustom(writes)
    <3>1. writes[Len(writes)] = Write("prop", f, v)
      BY <1>2 DEF Both
    <3> QED
      BY <3>1, WriteIs DEF EndsCustom
  <2>2. custom' = custom /\ CustomData' = CustomData
    BY <1>1 DEF CustomData
  <2> QED
    BY <1>1, <1>5, <2>1, <2>2 DEF IInv, CustomFollows
<1> QED
  BY <1>6, <1>7, <1>8, <1>9 DEF IInv

(* The custom filter is written with all that is saved of it.                *)
LEMMA WriteCustomStep == ASSUME IInv, WriteCustom PROVE IInv'
<1>1. /\ writes # <<>> /\ writes' = Tail(writes) /\ Head(writes).to = "custom"
      /\ UNCHANGED <<prop, attr, service, calls, chosen, events>> /\ service # "down"
      /\ \/ custom' = CustomData /\ failed' = failed \ {"custom"}
         \/ custom' = custom /\ failed' = failed \cup {"custom"}
  BY RunningWrites DEF WriteCustom, Done
<1>2. /\ EndsCustom(writes) /\ Head(writes) \in CustomWrite
      /\ Tail(writes) # <<>> => EndsCustom(Tail(writes))
  <2>1. \A g, u : Write("prop", g, u).to # "custom" /\ Write("attr", g, u).to # "custom"
    BY WriteIs
  <2> QED
    BY <1>1, <2>1, WritesAre
<1>3. \A f \in Feature : f \in failed' <=> f \in failed
  BY <1>1, Names
<1>4. \A f \in Feature : \A w \in Values(writes) : w.setting # f
  <2>1. \A w \in Values(writes) : w \in CustomWrite
    BY <1>2 DEF EndsCustom, Values
  <2> QED
    BY <2>1, CustomWriteIs, Names
<1>5. TypeOK'
  <2>1. CustomData \in [CustomSetting -> Int]
    BY Names DEF CustomData, IInv, TypeOK
  <2> QED
    BY <1>1, <2>1 DEF IInv, TypeOK
<1>6. Queues'
  BY <1>1, <1>2 DEF IInv, Queues, EndsCustom
<1>7. FeaturesFollow'
  BY <1>1, <1>3, <1>4 DEF IInv, FeaturesFollow
<1>8. CustomFollows'
  BY <1>1 DEF CustomFollows, CustomData
<1> QED
  BY <1>5, <1>6, <1>7, <1>8 DEF IInv

(* A failing property ends the call and marks its setting.                   *)
LEMMA WritePropStep == ASSUME IInv, WriteProp PROVE IInv'
<1> DEFINE w == Head(writes)
<1>1. /\ writes # <<>> /\ w.to = "prop" /\ service # "down"
      /\ UNCHANGED <<attr, custom, service, calls, chosen, events>>
      /\ \/ /\ prop' = [prop EXCEPT ![w.setting] = w.value]
            /\ writes' = Tail(writes) /\ failed' = failed
         \/ /\ writes' = <<>> /\ prop' = prop
            /\ failed' = failed \cup {IF w.setting \in Feature THEN w.setting ELSE "custom"}
  BY RunningWrites DEF WriteProp, Done
<1>0. calls \in Seq(Calls) /\ prop \in [Setting -> Int]
  BY DEF IInv, TypeOK, Queues
<1> HIDE DEF w
<1>2. CASE EndsCustom(writes) /\ w \in CustomWrite
           /\ (Tail(writes) # <<>> => EndsCustom(Tail(writes)))
           /\ (Tail(writes) = <<>> => w.to = "custom")
  <2>1. w.setting \in CustomSetting /\ w.setting \notin Feature
    BY <1>2, CustomWriteIs, Names
  <2>2. writes' = <<>> \/ EndsCustom(writes')
    BY <1>1, <1>2
  <2>3. \A f \in Feature : prop'[f] = prop[f] /\ (f \in failed' <=> f \in failed)
    <3>1. \A f \in Feature : f \in Setting /\ f # w.setting /\ f # "custom"
      BY <2>1, Names
    <3> QED
      BY <1>0, <1>1, <2>1, <3>1
  <2>4. TypeOK'
    <3>1. prop' \in [Setting -> Int] /\ failed' \subseteq Feature \cup {"custom"}
      BY <1>0, <1>1, <1>2, CustomWriteIs, Names DEF IInv, TypeOK
    <3> QED
      BY <1>1, <2>3, <3>1 DEF IInv, TypeOK
  <2>5. Queues'
    BY <1>1, <2>2 DEF IInv, Queues, EndsCustom
  <2>6. \A f \in Feature : \A x \in Values(writes) : x.setting # f
    <3>1. \A x \in Values(writes) : x \in CustomWrite
      BY <1>2 DEF EndsCustom, Values
    <3> QED
      BY <3>1, CustomWriteIs, Names
  <2>7. FeaturesFollow'
    BY <1>1, <2>3, <2>6 DEF IInv, FeaturesFollow
  <2>8. CustomFollows'
    <3>1. "custom" \in failed' \/ EndsCustom(writes')
      <4>1. w.setting \notin Feature
        BY <1>2, CustomWriteIs, Names
      <4>2. "custom" # "prop"
        OBVIOUS
      <4> QED
        BY <1>1, <1>2, <4>1
    <3> QED
      BY <3>1 DEF CustomFollows
  <2> QED
    BY <2>4, <2>5, <2>7, <2>8 DEF IInv
<1>3. ASSUME NEW f \in Feature, NEW v \in Int,
             Allowed(f, v), writes = Rest(f, v), f \notin failed => attr[f] = Units(f, v),
             w = Write("prop", f, v), Tail(writes) = <<>>
      PROVE  IInv'
  <2>1. w.setting = f /\ w.value = v /\ f \in Setting /\ f \notin CustomSetting /\ f # "custom"
    BY <1>3, WriteIs, Names
  <2>2. /\ writes' = <<>> /\ Values(writes) = {w} /\ Values(writes') = {}
        /\ \/ prop' = [prop EXCEPT ![f] = v] /\ failed' = failed
           \/ prop' = prop /\ failed' = failed \cup {f}
    BY <1>1, <1>3, <2>1, SmallValues DEF Rest
  <2>3. TypeOK'
    <3>1. prop' \in [Setting -> Int] /\ failed' \subseteq Feature \cup {"custom"}
      BY <1>0, <2>1, <2>2 DEF IInv, TypeOK
    <3>2. "DigitalFilter" \in Feature => prop'["DigitalFilter"] \in 0 .. 3
      BY <1>0, <1>3, <2>1, <2>2, Names DEF IInv, TypeOK, Allowed
    <3> QED
      BY <1>1, <3>1, <3>2 DEF IInv, TypeOK
  <2>4. Queues'
    BY <1>1, <2>2 DEF IInv, Queues
  <2>5. FeaturesFollow'
    <3> SUFFICES ASSUME NEW g \in Feature \ failed'
                 PROVE  attr[g] = Units(g, prop'[g]) \/ SetSaved(g) \in Values(calls)
      BY <1>1 DEF FeaturesFollow
    <3>1. CASE g = f
      BY <1>0, <1>3, <2>1, <2>2, <3>1
    <3>2. CASE g # f
      <4>1. prop'[g] = prop[g] /\ g \notin failed
        BY <1>0, <2>2, <3>2, Names
      <4>2. \A x \in Values(writes) : x.setting # g
        BY <2>1, <2>2, <3>2
      <4> QED
        BY <1>1, <4>1, <4>2 DEF IInv, FeaturesFollow
    <3> QED
      BY <3>1, <3>2
  <2>6. CustomFollows'
    <3>1. \A s \in CustomSetting : prop'[s] = prop[s]
      BY <1>0, <2>1, <2>2, Names
    <3>2. CustomData' = CustomData
      BY <3>1 DEF CustomData
    <3>3. ~EndsCustom(writes)
      <4>1. writes[Len(writes)] = Write("prop", f, v)
        BY <1>3 DEF Rest
      <4> QED
        BY <4>1, WriteIs DEF EndsCustom
    <3>4. "custom" \in failed' <=> "custom" \in failed
      BY <2>1, <2>2
    <3> QED
      BY <1>1, <3>2, <3>3, <3>4 DEF IInv, CustomFollows
  <2> QED
    BY <2>3, <2>4, <2>5, <2>6 DEF IInv
<1>4. \A g, u : Write("attr", g, u).to # "prop"
  BY WriteIs
<1> QED
  BY <1>1, <1>2, <1>3, <1>4, WritesAre DEF w

(* A service that is down owes nothing.                                      *)
LEMMA DownStep == ASSUME IInv, Dies \/ Reboot PROVE IInv'
<1>1. TypeOK'
  BY DacAssumption DEF IInv, TypeOK, Dies, Reboot, Count, ResetDriver
<1>2. Queues' /\ FeaturesFollow' /\ CustomFollows'
  <2>1. calls' = <<>> /\ writes' = <<>> /\ service' = "down"
    BY DEF Dies, Reboot
  <2> QED
    BY <2>1 DEF Queues, FeaturesFollow, CustomFollows
<1> QED
  BY <1>1, <1>2 DEF IInv

(* Calls of the app are made when the driver has what is saved.              *)
LEMMA Asked ==
  ASSUME IInv, Count, Idle, calls' \in Seq(Calls), chosen' \subseteq Setting,
         UNCHANGED <<prop, attr, custom, service, writes, failed>>
  PROVE  IInv'
<1>1. service # "down" /\ calls = <<>> /\ writes = <<>> /\ Values(calls) = {} /\ Values(writes) = {}
  BY SmallValues DEF Idle
<1>2. TypeOK'
  BY DacAssumption DEF IInv, TypeOK, Count
<1>3. Queues'
  BY <1>1 DEF Queues
<1>4. FeaturesFollow'
  BY <1>1 DEF IInv, FeaturesFollow
<1>5. CustomFollows'
  BY <1>1 DEF IInv, CustomFollows, EndsCustom, CustomData
<1> QED
  BY <1>2, <1>3, <1>4, <1>5 DEF IInv

(* The calls the app and the constructor make.                               *)
LEMMA CallsAre ==
  ASSUME NEW s \in Setting, NEW v \in Int
  PROVE  /\ Set(s, v) \in Calls /\ <<Set(s, v)>> \in Seq(Calls)
         /\ SetSaved(s) \in Calls /\ <<SetSaved(s)>> \in Seq(Calls)
BY DEF Calls

(* Setting the digital filter re-applies the custom one by its shape.        *)
LEMMA DigitalFilterCalls ==
  ASSUME NEW v \in Int, "DigitalFilter" \in Feature
  PROVE  /\ SetDigitalFilter(v) \in Seq(Calls)
         /\ Values(SetDigitalFilter(v)) \subseteq {Set("DigitalFilter", v), SetSaved("shape")}
<1> DEFINE first == <<Set("DigitalFilter", v)>>
           second == IF v = 3 THEN <<SetSaved("shape")>> ELSE <<>>
<1>1. /\ first \in Seq(Calls) /\ second \in Seq(Calls)
      /\ Values(first) = {Set("DigitalFilter", v)} /\ Values(second) \subseteq {SetSaved("shape")}
  BY CallsAre, Names, SmallValues
<1>2. SetDigitalFilter(v) = first \o second
  BY DEF SetDigitalFilter
<1> HIDE DEF first, second
<1>3. first \o second \in Seq(Calls) /\ Values(first \o second) = Values(first) \cup Values(second)
  BY <1>1, JoinedValues
<1> QED
  BY <1>1, <1>2, <1>3

(* The app asks for what the user chose and for the shape that is saved.     *)
LEMMA ChangeCalls ==
  ASSUME NEW s \in Setting, NEW v \in Choice[s], OnPreferenceChange(s, v)
  PROVE  /\ calls' \in Seq(Calls) /\ v \in Int
         /\ Values(calls') \subseteq {Set(s, v), SetSaved("shape")}
<1>1. v \in Int
  BY DacAssumption
<1>2. CASE s # "DigitalFilter"
  <2>1. calls' = <<Set(s, v)>>
    BY <1>2 DEF OnPreferenceChange
  <2> QED
    BY <1>1, <2>1, CallsAre, SmallValues
<1>3. CASE s = "DigitalFilter"
  <2> DEFINE first == SetDigitalFilter(v)
             second == IF v = 3 THEN EnableCustomFilter ELSE <<>>
  <2>1. calls' = first \o second
    BY <1>3 DEF OnPreferenceChange
  <2>2. s \in Feature
    <3>1. "DigitalFilter" \notin CustomSetting
      <4>1. /\ "DigitalFilter" \in AllFeatures
            /\ "DigitalFilter" # "shape" /\ "DigitalFilter" # "symmetry"
        BY DEF AllFeatures
      <4>2. Coeff \cap AllFeatures = {} /\ CustomSetting = {"shape", "symmetry"} \cup Coeff
        BY Names
      <4> QED
        BY <4>1, <4>2
    <3> QED
      BY <1>3, <3>1 DEF Setting
  <2>3. first \in Seq(Calls) /\ Values(first) \subseteq {Set(s, v), SetSaved("shape")}
    BY <1>1, <1>3, <2>2, DigitalFilterCalls
  <2>4. second \in Seq(Calls) /\ Values(second) \subseteq {SetSaved("shape")}
    BY <1>1, CallsAre, Names, SmallValues DEF EnableCustomFilter
  <2> HIDE DEF first, second
  <2>5. /\ first \o second \in Seq(Calls)
        /\ Values(first \o second) = Values(first) \cup Values(second)
    BY <2>3, <2>4, JoinedValues
  <2> QED
    BY <1>1, <2>1, <2>3, <2>4, <2>5
<1> QED
  BY <1>2, <1>3

(* Enabling the DAC asks for what is saved.                                  *)
LEMMA EachKept ==
  ASSUME TypeOK, NEW order \in Seq(Setting)
  PROVE  LET q == [i \in DOMAIN order |-> Set(order[i], prop[order[i]])]
         IN  /\ q \in Seq(Calls)
             /\ \A c \in Values(q) : \E s \in Setting : c = Set(s, prop[s])
<1> DEFINE q == [i \in DOMAIN order |-> Set(order[i], prop[order[i]])]
<1>1. DOMAIN order = 1 .. Len(order) /\ Len(order) \in Nat
      /\ \A i \in DOMAIN order : order[i] \in Setting
  OBVIOUS
<1>2. \A s \in Setting : prop[s] \in Int /\ Set(s, prop[s]) \in Calls
  BY CallsAre DEF TypeOK
<1>3. q \in [1 .. Len(order) -> Calls]
  BY <1>1, <1>2
<1>4. \A c \in Values(q) : \E s \in Setting : c = Set(s, prop[s])
  BY <1>1 DEF Values
<1> QED
  BY <1>1, <1>3, <1>4

(* And re-applies the custom filter by its shape.                            *)
LEMMA EnableCalls ==
  ASSUME TypeOK, NEW fromPanel \in BOOLEAN, Enable(fromPanel)
  PROVE  /\ calls' \in Seq(Calls)
         /\ \A c \in Values(calls') :
              \E s \in Setting : c = SetSaved(s) \/ c = Set(s, prop[s])
<1> DEFINE h == Supported("HifiMode")
           l == Supported("BalanceLeft")
           r == Supported("BalanceRight")
           a == Supported("AVCVolume")
           hl == h \o l
           hlr == hl \o r
           order == hlr \o a
           features == [i \in DOMAIN order |-> Set(order[i], prop[order[i]])]
           filter == IF "DigitalFilter" \in Feature
                     THEN SetDigitalFilter(prop["DigitalFilter"]) ELSE <<>>
           all == SetAll(Custom, SetSaved)
           last == IF fromPanel THEN EnableCustomFilter ELSE <<>>
           Good(q) == /\ q \in Seq(Calls)
                      /\ \A c \in Values(q) :
                           \E s \in Setting : c = SetSaved(s) \/ c = Set(s, prop[s])
<1>1. order \in Seq(Setting)
  <2>1. h \in Seq(Setting) /\ l \in Seq(Setting) /\ r \in Seq(Setting) /\ a \in Seq(Setting)
    BY SupportedIs, SeqMonotonic, Names
  <2> HIDE DEF h, l, r, a
  <2> QED
    BY <2>1
<1>2. calls' = ((features \o filter) \o all) \o last
  BY DEF Enable, SetAll
<1>3. Good(features)
  <2> HIDE DEF order
  <2> QED
    BY <1>1, EachKept
<1>4. Good(filter)
  <2>1. CASE "DigitalFilter" \in Feature
    <3> DEFINE v == prop["DigitalFilter"]
    <3>1. v \in Int /\ "DigitalFilter" \in Setting /\ "shape" \in Setting
      BY <2>1, Names DEF TypeOK
    <3>2. /\ SetDigitalFilter(v) \in Seq(Calls)
          /\ Values(SetDigitalFilter(v)) \subseteq {Set("DigitalFilter", v), SetSaved("shape")}
      BY <2>1, <3>1, DigitalFilterCalls
    <3>3. filter = SetDigitalFilter(v)
      BY <2>1
    <3> HIDE DEF filter
    <3> QED
      BY <3>1, <3>2, <3>3
  <2>2. CASE "DigitalFilter" \notin Feature
    BY <2>2, SmallValues
  <2> QED
    BY <2>1, <2>2
<1>5. Good(all)
  <2>1. Custom \in Seq(Setting) /\ Values(Custom) = CustomSetting
    BY Names, SeqMonotonic
  <2>2. all \in Seq(Calls) /\ Values(all) = {SetSaved(s) : s \in CustomSetting}
    BY <2>1, EachSaved
  <2> HIDE DEF all
  <2> QED
    BY <2>2, Names
<1>6. Good(last)
  BY Names, CallsAre, SmallValues DEF EnableCustomFilter
<1>7. ASSUME NEW p, NEW q, Good(p), Good(q) PROVE Good(p \o q)
  BY <1>7, JoinedValues
<1> HIDE DEF features, filter, all, last, Good
<1>8. Good(((features \o filter) \o all) \o last)
  BY <1>3, <1>4, <1>5, <1>6, <1>7
<1> QED
  BY <1>2, <1>8 DEF Good

(* No call of the app finds the driver behind.                               *)
LEMMA AppStep ==
  ASSUME IInv,
         \/ \E s \in Setting : \E v \in Choice[s] : OnPreferenceChange(s, v)
         \/ ResetCustomFilter \/ EnableExtraSettings
         \/ \E fromPanel \in BOOLEAN : Enable(fromPanel)
  PROVE  IInv'
<1>1. ASSUME NEW s \in Setting, NEW v \in Choice[s], OnPreferenceChange(s, v) PROVE IInv'
  <2>1. calls' \in Seq(Calls)
    BY <1>1, ChangeCalls
  <2> QED
    BY <1>1, <2>1, Asked DEF OnPreferenceChange
<1>2. CASE ResetCustomFilter
  <2>1. calls' \in Seq(Calls) /\ chosen' \subseteq Setting
    BY <1>2, Names DEF ResetCustomFilter, Calls
  <2> QED
    BY <1>2, <2>1, Asked DEF ResetCustomFilter
<1>3. CASE EnableExtraSettings
  <2>1. calls' \in Seq(Calls)
    BY <1>3, Names, CallsAre, 0 \in Int DEF EnableExtraSettings, EnableCustomFilter
  <2> QED
    BY <1>3, <2>1, Asked DEF EnableExtraSettings
<1>4. ASSUME NEW fromPanel \in BOOLEAN, Enable(fromPanel) PROVE IInv'
  <2>1. calls' \in Seq(Calls)
    BY <1>4, EnableCalls DEF IInv
  <2> QED
    BY <1>4, <2>1, Asked DEF Enable
<1> QED
  BY <1>1, <1>2, <1>3, <1>4

(* Every step keeps every part.                                              *)
LEMMA NextIInv == IInv /\ [Next]_vars => IInv'
<1> SUFFICES ASSUME IInv, [Next]_vars PROVE IInv'
  OBVIOUS
<1>1. CASE UNCHANGED vars
  BY <1>1 DEF vars, IInv, TypeOK, Queues, FeaturesFollow, CustomFollows, CustomData, EndsCustom
<1> QED
  BY <1>1, StartStep, RegisterStep, NextCallStep, WriteAttrStep, WriteCustomStep,
     WritePropStep, DownStep, AppStep DEF Next

(* Every part holds in every reachable state.                                *)
LEMMA SettingsInvariant == Spec => []IInv
BY InitHolds, NextIInv, PTL DEF Spec

(* Every reachable state has its type, and the digital filter that is saved  *)
(* is one that setDigitalFilterState() knows.                                *)
THEOREM SettingsTypeCorrect == Spec => []TypeOK
<1>1. IInv => TypeOK
  BY DEF IInv
<1> QED
  BY <1>1, SettingsInvariant, PTL

(* At rest the driver has the settings that are saved, whatever writes       *)
(* failed, whenever the service died or the device rebooted, but for the     *)
(* settings whose last write failed.                                         *)
THEOREM RestIsSaved == Spec => []DriverHasSettings
<1>1. IInv => DriverHasSettings
  <2> SUFFICES ASSUME IInv, Idle PROVE DriverHasSettings
    BY DEF DriverHasSettings
  <2>1. service # "down" /\ Values(calls) = {} /\ Values(writes) = {} /\ writes = <<>>
    BY SmallValues DEF Idle
  <2> QED
    BY <2>1 DEF IInv, FeaturesFollow, CustomFollows, EndsCustom, DriverHasSettings
<1> QED
  BY <1>1, SettingsInvariant, PTL
-----------------------------------------------------------------------------
(* A call that keeps its setting still does when only free settings change.  *)
LEMMA StillKeeps ==
  ASSUME TypeOK, UNCHANGED <<chosen, service>>,
         \A s \in Setting : prop'[s] = prop[s] \/ Free(s)
  PROVE  /\ \A c : CallKeeps(c) => CallKeeps(c)'
         /\ \A w : (w.to = "prop" => w.setting \in Setting) /\ WriteKeeps(w) => WriteKeeps(w)'
<1>1. \A s : Free(s)' <=> Free(s)
  BY DEF Free
<1>2. ASSUME NEW c, CallKeeps(c) PROVE CallKeeps(c)'
  <2>1. CASE c = Reset /\ Coeff \subseteq chosen /\ service = "up"
    BY <2>1 DEF CallKeeps
  <2>2. CASE c.setting \in Setting /\ Free(c.setting)
    BY <1>1, <2>2 DEF CallKeeps
  <2>3. CASE c.setting \in Setting /\ ~Free(c.setting) /\ Value(c) = prop[c.setting]
    <3>1. prop'[c.setting] = prop[c.setting]
      BY <2>3
    <3>2. Value(c)' = prop'[c.setting]
      BY <2>3, <3>1 DEF Value
    <3> QED
      BY <2>3, <3>2 DEF CallKeeps
  <2> QED
    BY <1>2, <2>1, <2>2, <2>3 DEF CallKeeps
<1>3. ASSUME NEW w, w.to = "prop" => w.setting \in Setting, WriteKeeps(w) PROVE WriteKeeps(w)'
  BY <1>1, <1>3 DEF WriteKeeps
<1> QED
  BY <1>2, <1>3

(* The writes of a call that keeps its setting keep it.                      *)
LEMMA ExecutionKeeps ==
  ASSUME TypeOK, NEW c \in Calls, CallKeeps(c)
  PROVE  \A w \in Values(Execute(c)) : WriteKeeps(w)
<1>1. CASE c = Reset
  <2>1. Coeff \subseteq chosen /\ service = "up"
    BY <1>1, SavedIs, Names DEF CallKeeps, Reset
  <2>2. Execute(c) = ResetCoeffs
    BY <1>1, ExecuteIs
  <2> QED
    BY <2>1, <2>2, ResetIs DEF WriteKeeps, Free
<1>2. CASE c # Reset /\ c.setting \in CustomSetting
  <2>1. Free(c.setting) \/ Value(c) = prop[c.setting]
    BY <1>2 DEF CallKeeps
  <2>2. CASE Free(c.setting)
    BY <1>2, <2>2, ExecuteIs DEF WriteKeeps
  <2>3. CASE ~Free(c.setting)
    <3>1. c.setting # "shape"
      BY <2>3 DEF Free
    <3> QED
      BY <1>2, <2>1, <2>3, <3>1, ExecuteIs DEF WriteKeeps
  <2> QED
    BY <2>2, <2>3
<1>3. CASE c # Reset /\ c.setting \notin CustomSetting
  <2>1. Free(c.setting) \/ Value(c) = prop[c.setting]
    BY <1>3 DEF CallKeeps
  <2>2. Execute(c) = <<>> \/ Execute(c) = Both(c.setting, Value(c))
    BY <1>3, ExecuteIs
  <2> QED
    BY <2>1, <2>2, SmallValues, WriteIs DEF Both, WriteKeeps
<1> QED
  BY <1>1, <1>2, <1>3

(* What a write of a property changes is free to change.                     *)
LEMMA PropChange ==
  ASSUME IInv, Keeps, WriteProp
  PROVE  /\ \A s \in Setting : prop'[s] = prop[s] \/ Free(s)
         /\ \A w \in Values(writes') : w \in Values(writes)
         /\ \A w \in Values(writes) : w.setting \in Setting
         /\ UNCHANGED <<service, calls, chosen>>
<1> DEFINE w == Head(writes)
<1>1. /\ writes # <<>> /\ w.to = "prop" /\ UNCHANGED <<service, calls, chosen>>
      /\ prop' = prop \/ prop' = [prop EXCEPT ![w.setting] = w.value]
      /\ writes' = <<>> \/ writes' = Tail(writes)
  BY DEF WriteProp, Done
<1>2. PICK S : writes \in Seq(S) /\ \A x \in S : x.setting \in Setting
  <2>1. CASE EndsCustom(writes)
    BY <2>1, CustomWriteIs, Names DEF EndsCustom
  <2>2. ASSUME NEW f \in Feature, NEW v \in Int, writes = Both(f, v)
        PROVE  \E S : writes \in Seq(S) /\ \A x \in S : x.setting \in Setting
    <3>1. writes \in Seq({Write("attr", f, v), Write("prop", f, v)})
      BY <2>2 DEF Both
    <3> QED
      BY <3>1, WriteIs, Names
  <2>3. ASSUME NEW f \in Feature, NEW v \in Int, writes = Rest(f, v)
        PROVE  \E S : writes \in Seq(S) /\ \A x \in S : x.setting \in Setting
    <3>1. writes \in Seq({Write("prop", f, v)})
      BY <2>3 DEF Rest
    <3> QED
      BY <3>1, WriteIs, Names
  <2> QED
    BY <1>1, <2>1, <2>2, <2>3 DEF IInv, Queues
<1>3. w \in S /\ Tail(writes) \in Seq(S) /\ Values(writes) = {w} \cup Values(Tail(writes))
  BY <1>1, <1>2, TailValues
<1> HIDE DEF w
<1>4. \A x \in Values(writes) : x.setting \in Setting
  BY <1>2 DEF Values
<1>5. Free(w.setting) \/ w.value = prop[w.setting]
  BY <1>1, <1>3 DEF Keeps, WriteKeeps
<1>6. \A s \in Setting : prop'[s] = prop[s] \/ Free(s)
  BY <1>1, <1>5 DEF IInv, TypeOK
<1> QED
  BY <1>1, <1>3, <1>4, <1>6, SmallValues

(* Every step keeps what is coming from changing a setting unasked.          *)
LEMMA NextKeeps == IInv /\ Keeps /\ [Next]_vars => Keeps'
<1> SUFFICES ASSUME IInv, Keeps, [Next]_vars PROVE Keeps'
  OBVIOUS
<1> USE SmallValues
<1>1. CASE Start
  <2>1. /\ Features \in Seq(Setting) /\ Values(Features) = Feature
        /\ Custom \in Seq(Setting) /\ Values(Custom) = CustomSetting
    BY FeaturesAre, Names, SeqMonotonic
  <2> DEFINE q == SetAll(Features, SetSaved)
             p == SetAll(Custom, SetSaved)
  <2>2. /\ q \in Seq(Calls) /\ Values(q) = {SetSaved(s) : s \in Feature}
        /\ p \in Seq(Calls) /\ Values(p) = {SetSaved(s) : s \in CustomSetting}
    BY <2>1, EachSaved
  <2>3. calls' = q \o p /\ writes' = <<>> /\ prop' = prop
    BY <1>1 DEF Start, IInv, Queues
  <2> HIDE DEF q, p
  <2>4. Values(calls') = Values(q) \cup Values(p)
    BY <2>2, <2>3, JoinedValues
  <2>5. ASSUME NEW s \in Setting PROVE CallKeeps(SetSaved(s))'
    <3>1. SetSaved(s).setting = s /\ SetSaved(s).given = {}
      BY SavedIs
    <3> QED
      BY <3>1 DEF CallKeeps, Value
  <2> QED
    BY <2>2, <2>3, <2>4, <2>5, Names DEF Keeps
<1>2. CASE Register \/ Dies \/ Reboot
  <2>1. calls' = <<>> /\ writes' = <<>>
    BY <1>2 DEF Register, Dies, Reboot
  <2> QED
    BY <2>1 DEF Keeps
<1>3. CASE NextCall
  <2> DEFINE c == Head(calls)
  <2>1. writes' = Execute(c) /\ calls' = Tail(calls) /\ UNCHANGED <<prop, service, chosen>>
    BY <1>3 DEF NextCall
  <2>2. c \in Calls /\ Values(calls) = {c} \cup Values(Tail(calls))
    BY <1>3, TailValues DEF NextCall, IInv, Queues
  <2> HIDE DEF c
  <2>3. CallKeeps(c) /\ \A d \in Values(Tail(calls)) : CallKeeps(d)
    BY <2>2 DEF Keeps
  <2>4. \A x \in Values(Execute(c)) : WriteKeeps(x)
    BY <2>2, <2>3, ExecutionKeeps DEF IInv
  <2>5. \A d : CallKeeps(d) => CallKeeps(d)'
    BY <2>1, StillKeeps DEF IInv
  <2>6. \A x : WriteKeeps(x) => WriteKeeps(x)'
    BY <2>1 DEF WriteKeeps, Free
  <2> QED
    BY <2>1, <2>3, <2>4, <2>5, <2>6 DEF Keeps
<1>4. CASE WriteAttr \/ WriteCustom
  <2>1. writes # <<>> /\ writes' = Tail(writes) /\ UNCHANGED <<prop, service, chosen, calls>>
    BY <1>4 DEF WriteAttr, WriteCustom, Done
  <2>2. Values(writes') \subseteq Values(writes)
    <3>1. \E S : writes \in Seq(S)
      <4>1. CASE EndsCustom(writes)
        BY <4>1 DEF EndsCustom
      <4>2. ASSUME NEW f, NEW v, writes = Both(f, v) \/ writes = Rest(f, v)
            PROVE  writes \in Seq({Write("attr", f, v), Write("prop", f, v)})
        <5>1. CASE writes = Both(f, v)
          BY <5>1 DEF Both
        <5>2. CASE writes = Rest(f, v)
          BY <5>2 DEF Rest
        <5> QED
          BY <4>2, <5>1, <5>2
      <4> QED
        BY <2>1, <4>1, <4>2 DEF IInv, Queues
    <3> QED
      BY <2>1, <3>1, TailValues
  <2>3. \A d : CallKeeps(d) => CallKeeps(d)'
    BY <2>1, StillKeeps DEF IInv
  <2>4. \A x : WriteKeeps(x) => WriteKeeps(x)'
    BY <2>1 DEF WriteKeeps, Free
  <2> QED
    BY <2>1, <2>2, <2>3, <2>4 DEF Keeps
<1>5. CASE WriteProp
  BY <1>5, PropChange, StillKeeps DEF IInv, Keeps
<1>6. ASSUME NEW s \in Setting, NEW v \in Choice[s], OnPreferenceChange(s, v) PROVE Keeps'
  <2>1. Values(calls') \subseteq {Set(s, v), SetSaved("shape")} /\ writes' = <<>>
        /\ chosen' = {s} /\ service' = "up"
    BY <1>6, ChangeCalls DEF OnPreferenceChange, Idle
  <2>2. Set(s, v).setting = s /\ SetSaved("shape").setting = "shape" /\ "shape" \in Setting
    BY GivenIs, SavedIs, Names
  <2> QED
    BY <2>1, <2>2 DEF Keeps, CallKeeps, Free
<1>7. CASE ResetCustomFilter
  <2>1. calls' = <<Reset>> /\ writes' = <<>> /\ chosen' = Coeff /\ service' = "up"
    BY <1>7 DEF ResetCustomFilter, Idle
  <2>2. CallKeeps(Reset)'
    BY <2>1 DEF CallKeeps
  <2>3. Values(calls') = {Reset} /\ Values(writes') = {}
    BY <2>1
  <2> QED
    BY <2>2, <2>3 DEF Keeps
<1>8. CASE EnableExtraSettings
  <2>1. Values(calls') = {SetSaved("shape")} /\ writes' = <<>>
    BY <1>8 DEF EnableExtraSettings, EnableCustomFilter, Idle
  <2>2. SetSaved("shape").setting = "shape" /\ "shape" \in Setting
    BY SavedIs, Names
  <2> QED
    BY <2>1, <2>2 DEF Keeps, CallKeeps, Free
<1>9. ASSUME NEW fromPanel \in BOOLEAN, Enable(fromPanel) PROVE Keeps'
  <2>1. \A c \in Values(calls') : \E s \in Setting : c = SetSaved(s) \/ c = Set(s, prop[s])
    BY <1>9, EnableCalls DEF IInv
  <2>2. writes' = <<>> /\ prop' = prop
    BY <1>9 DEF Enable, Idle
  <2>3. ASSUME NEW s \in Setting PROVE CallKeeps(SetSaved(s))'
    <3>1. SetSaved(s).setting = s /\ SetSaved(s).given = {}
      BY SavedIs
    <3> QED
      BY <3>1 DEF CallKeeps, Value
  <2>4. ASSUME NEW s \in Setting PROVE CallKeeps(Set(s, prop[s]))'
    <3> DEFINE v == prop[s]
    <3>1. Set(s, v).setting = s /\ Set(s, v).given = {v} /\ Set(s, v).given # {}
      BY DEF Set
    <3>2. (CHOOSE x \in Set(s, v).given : TRUE) = v
      BY <3>1
    <3> HIDE DEF v
    <3>3. v = prop'[s]
      BY <2>2 DEF v
    <3> QED
      BY <2>2, <3>1, <3>2, <3>3 DEF CallKeeps, Value, v
  <2> QED
    BY <2>1, <2>2, <2>3, <2>4 DEF Keeps
<1>10. CASE UNCHANGED vars
  BY <1>10 DEF vars, Keeps, CallKeeps, WriteKeeps, Free, Value
<1> QED
  BY <1>1, <1>2, <1>3, <1>4, <1>5, <1>6, <1>7, <1>8, <1>9, <1>10 DEF Next

(* Nothing that is coming ever changes a setting unasked.                    *)
LEMMA KeepsInvariant == Spec => [](IInv /\ Keeps)
<1>1. Init => Keeps
  BY SmallValues DEF Init, Keeps
<1> QED
  BY <1>1, InitHolds, NextIInv, NextKeeps, PTL DEF Spec

(* A setting other than the shape of the custom filter changes only when the *)
(* user chose it and the service is up: the constructor and QuadDAC.enable() *)
(* set every setting again and change none.                                  *)
THEOREM OnlyTheUserChanges == Spec => SettingsSurvive
<1>1. IInv /\ Keeps /\ [Next]_vars => [OnlyChosenChange(Setting \ {"shape"})]_vars
  <2> SUFFICES ASSUME IInv, Keeps, Next
               PROVE  OnlyChosenChange(Setting \ {"shape"}) \/ UNCHANGED vars
    OBVIOUS
  <2>1. CASE WriteProp
    BY <2>1, PropChange DEF OnlyChosenChange, Free
  <2>2. CASE ~WriteProp
    <3>1. prop' = prop
      BY <2>2 DEF Next, Start, Register, NextCall, WriteAttr, WriteCustom, Dies, Reboot,
                  OnPreferenceChange, ResetCustomFilter, EnableExtraSettings, Enable
    <3> QED
      BY <3>1 DEF OnlyChosenChange
  <2> QED
    BY <2>1, <2>2
<1> QED
  BY <1>1, KeepsInvariant, PTL DEF Spec, SettingsSurvive
=============================================================================
