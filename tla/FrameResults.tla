---------------------------- MODULE FrameResults ----------------------------
(***************************************************************************)
(* What a camera session promises the framework about the results of its   *)
(* capture requests: every item owed for a frame (shutter message, part of *)
(* the metadata, buffer) is sent exactly once, under the number of its own *)
(* frame, in frame order within its class and in order of the parts within *)
(* a frame.  Items the HAL gives up on are no longer owed.                 *)
(***************************************************************************)
EXTENDS Naturals

CONSTANTS Class,           \* classes of items
          Frame,           \* frame numbers
          Before(_, _)     \* the items sent before the item of a class and a frame

VARIABLES owed, sent

Under(i) == <<i[2], i[1], i[2]>>
Sent(i) == Under(i) \in sent

Init == owed = {} /\ sent = {}

(* Requests are accepted frame by frame.                                   *)
Accept(f) ==
  /\ \A i \in owed : i[2] < f
  /\ owed' = owed \cup (Class \X {f})
  /\ UNCHANGED sent

(* After an error the HAL owes less.                                       *)
GiveUp ==
  /\ owed' \in SUBSET owed
  /\ \A i \in owed \ owed' : ~Sent(i)
  /\ UNCHANGED sent

(* Any of the items owed, each after the ones before it.                   *)
Send ==
  /\ sent \subseteq sent' /\ sent' \in SUBSET (sent \cup {Under(i) : i \in owed})
  /\ \A i \in owed : Under(i) \in sent' \ sent =>
       \A j \in Before(i[1], i[2]) \cap owed : Under(j) \in sent'
  /\ UNCHANGED owed

Next == (\E f \in Frame : Accept(f)) \/ GiveUp \/ Send

vars == <<owed, sent>>
Safety == Init /\ [][Next]_vars

(* Again and again a moment comes when all that is owed is sent.           *)
AllSent == []<>(\A i \in owed : Sent(i))
Spec == Safety /\ AllSent
=============================================================================
