-------------------------- MODULE WorldRefinement --------------------------
(***************************************************************************)
(* World implements WorldVolume: the volume's user is the first pod of a   *)
(* seed Job or a server pod, and "saved" is the history variable kept.     *)
(***************************************************************************)
EXTENDS World

VolumeUser ==
  CASE Live # {} -> "server"
    [] \E j \in Jobs : Seeding(j) /\ FirstPod(j) -> "copier"
    [] OTHER -> "nobody"

Volume == INSTANCE WorldVolume WITH data <- vol, user <- VolumeUser, saved <- kept

VolumePromise == Volume!Spec

=============================================================================
