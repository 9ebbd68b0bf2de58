------------------------ MODULE MCExternalOperation ------------------------
(***************************************************************************)
(* Two small instances of ExternalOperation.                               *)
(*                                                                         *)
(* Recovery: one workflow whose only step is external, with every report,  *)
(* query, crash and manual attestation.                                    *)
(*                                                                         *)
(* Shared: two workflows with an external step each, bound to the same     *)
(* subject; the first also has a provider step, so that either of its steps*)
(* may finish it or make it fail.                                          *)
(***************************************************************************)
EXTENDS ExternalOperation, TLC

CONSTANTS w1, w2, ext1, ext2, build, subj1, o1, o2, o3, r1

RecoveryWorkflowOf == ext1 :> w1
RecoveryDependsOn  == ext1 :> {}
RecoverySubjectOf  == ext1 :> subj1
RecoveryExpires    == ext1 :> 2

SharedWorkflowOf == ext1 :> w1 @@ ext2 :> w2 @@ build :> w1
SharedDependsOn  == ext1 :> {} @@ ext2 :> {} @@ build :> {}
SharedSubjectOf  == ext1 :> subj1 @@ ext2 :> subj1
SharedExpires    == ext1 :> 1 @@ ext2 :> 2

Symmetry == Permutations(ObsId) \cup Permutations(Remote)

=============================================================================
