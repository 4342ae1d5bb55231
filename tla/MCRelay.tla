-------------------------------- MODULE MCRelay --------------------------------
(* Small networks for Relay. *)
EXTENDS Relay, TLC

CONSTANTS orig, r1, r2, r3, rcpt,
          o1, o2, p1, pr    \* passes of the origin, a relay, the recipient

(* Which node runs which pass. *)
Hosts == (o1 :> orig @@ o2 :> orig @@ p1 :> r1 @@ pr :> rcpt)

HostOf == [s \in Passes |-> Hosts[s]]

(* Everybody has everybody in the routing cache. *)
Everybody == [n \in Nodes |-> Nodes]

AllLinks == {l \in Nodes \X Nodes : l[1] # l[2]}

(* The origin and the recipient cannot dial each other. *)
Apart == AllLinks \ {<<orig, rcpt>>, <<rcpt, orig>>}

(* Only the recipient can dial the origin. *)
OneWay == AllLinks \ {<<orig, rcpt>>}

(* Relays that run no pass are interchangeable, and so are the passes of   *)
(* the origin.                                                             *)
Interchangeable ==
    {f @@ g : f \in Permutations({r1, r2, r3}), g \in Permutations({o1, o2})}

=============================================================================
