--------------------------- MODULE SessionResults ---------------------------
(***************************************************************************)
(* The result batcher implements FrameResults: what the framework receives *)
(* from it, errors aside, is what a session without batching would send.   *)
(***************************************************************************)
EXTENDS ResultBatcher

Results == INSTANCE FrameResults WITH sent <- {d \in received : d[2] # Error}

(* No error was reported, no call to the framework given up after a second, *)
(* and no batch reported on before it was registered.                       *)
Undisturbed == errors = 0 /\ dropped = {} /\ early = {}

(* Until then, every step of the submission, of batching and of the removal *)
(* of batches sends what is owed, once, in order and under its own frame.   *)
ResultsUntilDisturbed == Results!Init /\ [][Undisturbed' => Results!Next]_(Results!vars)

(* And if that stays so and the system does not stop, everything owed is    *)
(* sent.                                                                    *)
ResultsSpec == ResultsUntilDisturbed /\ ([]Undisturbed => Results!AllSent)
=============================================================================
