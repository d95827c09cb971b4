----------------------------- MODULE MCIpMatch -----------------------------
EXTENDS IpMatch

MCMapped == <<0, 1>>

(* Every network of 3 bits, written with the bits after its mask set or not; *)
(* the two IPv4 addresses; and what parse_cidr refuses.                      *)
Networks ==
    {[family |-> "ipv6", bits |-> b, mask |-> m] :
        b \in [1..3 -> {0, 1}], m \in {<<0>>, <<1>>, <<2>>, << >>}}
    \cup {[family |-> "ipv4", bits |-> b, mask |-> m] :
             b \in [1..1 -> {0, 1}], m \in {<<0>>, << >>}}
    \cup {[family |-> "ipv4", bits |-> <<1>>, mask |-> <<2>>],
          [family |-> "ipv6", bits |-> <<1, 1, 1>>, mask |-> <<4>>],
          [family |-> "ipv6", bits |-> <<1, 1, 1>>, mask |-> <<-1>>],
          [family |-> "none", bits |-> << >>, mask |-> << >>]}

MCEntries ==
    {[family |-> n.family, bits |-> n.bits, mask |-> n.mask, expiration |-> e] :
        n \in Networks, e \in {0, 5}}
=============================================================================
