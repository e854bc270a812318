------------------------------- MODULE Leases -------------------------------
(***************************************************************************)
(* What the dashboard promises about ports, seen by a player or a router:  *)
(* a world is let a game port and perhaps an RCON port, nobody else is let *)
(* them meanwhile, and the game port is the same until the world is gone.  *)
(***************************************************************************)
EXTENDS Naturals

CONSTANTS Tenants, Games, Rcons

VARIABLE lease  \* the ports of each tenant; 0: none

Vacant == [game |-> 0, rcon |-> 0]

Taken(p) == \E t \in Tenants : p \in {lease[t].game, lease[t].rcon}

Grant(t) ==
  /\ lease[t] = Vacant
  /\ \E p \in Games, q \in Rcons :
       /\ ~Taken(p) /\ ~Taken(q)
       /\ lease' = [lease EXCEPT ![t] = [game |-> p, rcon |-> q]]

Extend(t) ==
  /\ lease[t].game # 0 /\ lease[t].rcon = 0
  /\ \E q \in Rcons :
       ~Taken(q) /\ lease' = [lease EXCEPT ![t] = [game |-> lease[t].game, rcon |-> q]]

\* An RCON port that was assigned and never served is forgotten.
Forget(t) == lease' = [lease EXCEPT ![t] = [game |-> lease[t].game, rcon |-> 0]]

End(t) == lease' = [lease EXCEPT ![t] = Vacant]

Apart ==
  \A s, t \in Tenants : s # t =>
    {lease[s].game, lease[s].rcon} \cap {lease[t].game, lease[t].rcon} \subseteq {0}

Init ==
  /\ lease \in [Tenants -> [game: Games \cup {0}, rcon: Rcons \cup {0}]]
  /\ Apart

Next == \E t \in Tenants : Grant(t) \/ Extend(t) \/ Forget(t) \/ End(t)

Spec == Init /\ [][Next]_lease

=============================================================================
