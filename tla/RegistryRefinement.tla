------------------------- MODULE RegistryRefinement -------------------------
(***************************************************************************)
(* Registry implements Leases: a world's lease is what its record says, or *)
(* its release where the record is lost or never saw the RCON port.        *)
(***************************************************************************)
EXTENDS Registry

Either(p, q) == IF p # 0 THEN p ELSE q

LeaseOf(w) ==
  [game |-> Either(record[w].port, release[w].port),
   rcon |-> Either(record[w].rcon, release[w].rcon)]

Lease == INSTANCE Leases
  WITH Tenants <- Worlds, Games <- GamePorts, Rcons <- RconPorts,
       lease <- [w \in Worlds |-> LeaseOf(w)]

(***************************************************************************)
(* Every world keeps the game port it was let until it is gone, and no     *)
(* port is let twice, whatever fails or gets lost (docs/design.md: "lowest *)
(* free at launch, kept for the world's life").                            *)
(***************************************************************************)
LeasesKept == Lease!Spec

=============================================================================
