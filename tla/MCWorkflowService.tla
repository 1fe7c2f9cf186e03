-------------------------- MODULE MCWorkflowService -------------------------
(* Instances of WorkflowService for TLC. *)
EXTENDS WorkflowService, TLC

CONSTANTS a, b

ProcsSymmetry == Permutations(Procs)

Manual    == [ai |-> FALSE, autoEdit |-> FALSE, autoUpload |-> FALSE, sourceTitle |-> TRUE]
Automatic == [ai |-> FALSE, autoEdit |-> TRUE, autoUpload |-> TRUE, sourceTitle |-> FALSE]
Dubbed    == [ai |-> TRUE, autoEdit |-> TRUE, autoUpload |-> TRUE, sourceTitle |-> FALSE]

RaceProfiles == {Automatic, Manual}
SoloProfiles == {Automatic, Manual, Dubbed, [Dubbed EXCEPT !.autoEdit = FALSE]}
=============================================================================
