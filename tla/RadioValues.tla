---------------------------- MODULE RadioValues ----------------------------
(***************************************************************************)
(* The arguments that Radio and RadioResponse translate for a vendor's     *)
(* radio of version 1.0, there and back: the preferred network types, the  *)
(* carriers a SIM is locked to, the protocol of a data call.  The way      *)
(* there and the way back are tables in two files.                         *)
(***************************************************************************)
EXTENDS FiniteSets

(* A bitmap of radio access families is the set of its bits.               *)
GSMBITS == {"GSM", "GPRS", "EDGE"}
CDMABITS == {"IS95A", "IS95B", "ONE_X_RTT"}
EVDOBITS == {"EVDO_0", "EVDO_A", "EVDO_B", "EHRPD"}
WCDMABITS == {"HSUPA", "HSDPA", "HSPA", "HSPAP", "UMTS"}
LTEBITS == {"LTE", "LTE_CA"}
TDSCDMABIT == {"TD_SCDMA"}
NRBIT == {"NR"}

Default == "LTE_CMDA_EVDO_GSM_WCDMA"

(* setPreferredNetworkTypeBitmap(): the cases of its switch.               *)
Case ==
  [GSM_WCDMA_AUTO |-> GSMBITS \cup WCDMABITS,
   GSM_ONLY |-> GSMBITS,
   WCDMA |-> WCDMABITS,
   CDMA_EVDO_AUTO |-> CDMABITS \cup EVDOBITS,
   CDMA_ONLY |-> CDMABITS,
   EVDO_ONLY |-> EVDOBITS,
   GSM_WCDMA_CDMA_EVDO_AUTO |-> GSMBITS \cup WCDMABITS \cup CDMABITS \cup EVDOBITS,
   LTE_CDMA_EVDO |-> LTEBITS \cup CDMABITS \cup EVDOBITS,
   LTE_GSM_WCDMA |-> LTEBITS \cup GSMBITS \cup WCDMABITS,
   LTE_CMDA_EVDO_GSM_WCDMA |-> LTEBITS \cup CDMABITS \cup EVDOBITS \cup GSMBITS \cup WCDMABITS,
   LTE_ONLY |-> LTEBITS,
   LTE_WCDMA |-> LTEBITS \cup WCDMABITS,
   TD_SCDMA_ONLY |-> TDSCDMABIT,
   TD_SCDMA_WCDMA |-> TDSCDMABIT \cup WCDMABITS,
   TD_SCDMA_LTE |-> TDSCDMABIT \cup LTEBITS,
   TD_SCDMA_GSM |-> TDSCDMABIT \cup GSMBITS,
   TD_SCDMA_GSM_LTE |-> TDSCDMABIT \cup GSMBITS \cup LTEBITS,
   TD_SCDMA_GSM_WCDMA |-> TDSCDMABIT \cup GSMBITS \cup WCDMABITS,
   TD_SCDMA_WCDMA_LTE |-> TDSCDMABIT \cup WCDMABITS \cup LTEBITS,
   TD_SCDMA_GSM_WCDMA_LTE |-> TDSCDMABIT \cup GSMBITS \cup WCDMABITS \cup LTEBITS,
   TD_SCDMA_GSM_WCDMA_CDMA_EVDO_AUTO |->
     TDSCDMABIT \cup GSMBITS \cup WCDMABITS \cup CDMABITS \cup EVDOBITS,
   TD_SCDMA_LTE_CDMA_EVDO_GSM_WCDMA |->
     TDSCDMABIT \cup LTEBITS \cup CDMABITS \cup EVDOBITS \cup GSMBITS \cup WCDMABITS]

(* Faulty: the bits of 3G are not completed. *)
Completed_NoWcdma(bits) ==
  bits \cup UNION {g \in {GSMBITS, CDMABITS, EVDOBITS, LTEBITS} : g \cap bits # {}}

(* A bit of a group stands for the group.                                  *)
Completed(bits) ==
  bits \cup UNION {g \in {GSMBITS, CDMABITS, EVDOBITS, WCDMABITS, LTEBITS} : g \cap bits # {}}

TypeSet(bits) ==
  LET hit == {t \in DOMAIN Case : Case[t] = Completed(bits)}
  IN  IF hit = {} THEN Default ELSE CHOOSE t \in hit : TRUE

(* getPreferredNetworkTypeResponse().                                      *)
Bitmap(type) ==
  CASE type \in {"GSM_WCDMA", "GSM_WCDMA_AUTO"} -> GSMBITS \cup WCDMABITS
    [] type = "GSM_ONLY" -> GSMBITS
    [] type = "WCDMA" -> WCDMABITS
    [] type = "CDMA_EVDO_AUTO" -> CDMABITS \cup EVDOBITS
    [] type = "CDMA_ONLY" -> CDMABITS
    [] type = "EVDO_ONLY" -> EVDOBITS
    [] type = "GSM_WCDMA_CDMA_EVDO_AUTO" -> GSMBITS \cup WCDMABITS \cup CDMABITS \cup EVDOBITS
    [] type = "LTE_CDMA_EVDO" -> LTEBITS \cup CDMABITS \cup EVDOBITS
    [] type = "LTE_GSM_WCDMA" -> LTEBITS \cup GSMBITS \cup WCDMABITS
    [] type = "LTE_CMDA_EVDO_GSM_WCDMA" ->
         LTEBITS \cup CDMABITS \cup EVDOBITS \cup GSMBITS \cup WCDMABITS
    [] type = "LTE_ONLY" -> LTEBITS
    [] type = "LTE_WCDMA" -> LTEBITS \cup WCDMABITS
    [] type = "TD_SCDMA_ONLY" -> TDSCDMABIT
    [] type = "TD_SCDMA_WCDMA" -> TDSCDMABIT \cup WCDMABITS
    [] type = "TD_SCDMA_LTE" -> TDSCDMABIT \cup LTEBITS
    [] type = "TD_SCDMA_GSM" -> TDSCDMABIT \cup GSMBITS
    [] type = "TD_SCDMA_GSM_LTE" -> TDSCDMABIT \cup GSMBITS \cup LTEBITS
    [] type = "TD_SCDMA_GSM_WCDMA" -> TDSCDMABIT \cup GSMBITS \cup WCDMABITS
    [] type = "TD_SCDMA_WCDMA_LTE" -> TDSCDMABIT \cup WCDMABITS \cup LTEBITS
    [] type = "TD_SCDMA_GSM_WCDMA_LTE" -> TDSCDMABIT \cup GSMBITS \cup WCDMABITS \cup LTEBITS
    [] type = "TD_SCDMA_GSM_WCDMA_CDMA_EVDO_AUTO" ->
         TDSCDMABIT \cup GSMBITS \cup WCDMABITS \cup CDMABITS \cup EVDOBITS
    [] type = "TD_SCDMA_LTE_CDMA_EVDO_GSM_WCDMA" ->
         TDSCDMABIT \cup LTEBITS \cup CDMABITS \cup EVDOBITS \cup GSMBITS \cup WCDMABITS
    [] OTHER -> {}

(* setAllowedCarriers_1_4(): c is [allowed, excluded, prioritized, policy].*)
AllAllowed(c) == c.allowed = {} /\ c.excluded = {} /\ ~c.prioritized

Supported(c) ==
  /\ AllAllowed(c) \/ (c.excluded = {} /\ c.prioritized)
  /\ c.policy = "none"

LegacyCarriers(c) == [all |-> AllAllowed(c), allowed |-> c.allowed, excluded |-> {}]

(* getAllowedCarriersResponse(): the vendor answers what it was told.      *)
CarriersAnswered(l) ==
  IF l.all THEN [allowed |-> {}, excluded |-> {}, prioritized |-> FALSE, policy |-> "none"]
  ELSE [allowed |-> l.allowed, excluded |-> l.excluded, prioritized |-> TRUE, policy |-> "none"]

(* getProtocolStringFromInt(), Create1_4SetupDataCallResult().             *)
ProtocolString ==
  [IP |-> "IP", IPV6 |-> "IPV6", IPV4V6 |-> "IPV4V6", PPP |-> "PPP", NON_IP |-> "NON-IP",
   UNSTRUCTURED |-> "UNSTRUCTURED", UNKNOWN |-> ""]

Protocol(string) ==
  IF string \in {"IP", "IPV6", "IPV4V6", "PPP", "UNSTRUCTURED"} THEN string
  ELSE IF string = "NON-IP" THEN "NON_IP" ELSE "UNKNOWN"

-----------------------------------------------------------------------------
(* Every way to ask for some of a group's bits: none, one or all.          *)
Some(group) == {{}, group} \cup {{b} : b \in group}

Groups == {GSMBITS, CDMABITS, EVDOBITS, WCDMABITS, LTEBITS, TDSCDMABIT, NRBIT}

(* A network type the vendor can say is the one it is told, and is         *)
(* answered as the groups that were asked for; what it cannot say becomes  *)
(* the default and nothing else.                                           *)
NetworkTypeRoundTrip ==
  \A gsm \in Some(GSMBITS), cdma \in Some(CDMABITS), evdo \in Some(EVDOBITS),
     wcdma \in Some(WCDMABITS), lte \in Some(LTEBITS), td \in Some(TDSCDMABIT), nr \in Some(NRBIT) :
    LET asked == gsm \cup cdma \cup evdo \cup wcdma \cup lte \cup td \cup nr
        groups == UNION {g \in Groups : g \cap asked # {}}
        answered == Bitmap(TypeSet(asked))
    IN  IF \E t \in DOMAIN Case : Bitmap(t) = groups
        THEN answered = groups ELSE answered = Bitmap(Default)

(* A restriction that is passed on to an old vendor at all is answered as  *)
(* it was set: no carrier is allowed, locked out or reordered on the way.  *)
CarriersRoundTrip ==
  \A allowed, excluded \in SUBSET {"carrier"}, prioritized \in BOOLEAN,
     policy \in {"none", "one_valid_sim"} :
    LET c == [allowed |-> allowed, excluded |-> excluded, prioritized |-> prioritized,
              policy |-> policy]
    IN  Supported(c) => CarriersAnswered(LegacyCarriers(c)) = c

(* The protocol a data call was asked to use is the one it is answered to  *)
(* have.                                                                   *)
ProtocolRoundTrip ==
  \A p \in DOMAIN ProtocolString : Protocol(ProtocolString[p]) = p

TranslatedBothWays == NetworkTypeRoundTrip /\ CarriersRoundTrip /\ ProtocolRoundTrip
=============================================================================
