----------------------------- MODULE PrefixMap -----------------------------
(***************************************************************************)
(* What ip_match needs of its tree: a map from prefixes to expirations, in *)
(* which the last expiration given to a prefix holds.                      *)
(***************************************************************************)
CONSTANTS Prefix, Expiration

VARIABLE map

Init == map = [p \in {} |-> 0]

Put(p, expiration) ==
    map' = [q \in DOMAIN map \cup {p} |-> IF q = p THEN expiration ELSE map[q]]

Next == \E p \in Prefix, expiration \in Expiration : Put(p, expiration)

Spec == Init /\ [][Next]_map
=============================================================================
