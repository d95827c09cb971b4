------------------------------ MODULE IpMatch ------------------------------
(***************************************************************************)
(* Addresses and networks with expirations, in a tree (ip_utils.cpp,       *)
(* rule_processor/ip_match.cpp, third_party/radixlib).  A node of the tree *)
(* is named by the bits it stands for, so that node->bit is their number;  *)
(* a pointer is << >> when it is null, and <<a node>>.                     *)
(***************************************************************************)
EXTENDS Integers, Sequences, FiniteSets, SequencesExt

CONSTANTS
    Width,       \* bits of an IPv6 address: 128
    ShortWidth,  \* bits of an IPv4 address: 32
    Mapped,      \* the bits before a mapped IPv4 address: 80 zeros, 16 ones
    Entries,     \* what a list may hold: [family, bits, mask, expiration]
    Times,       \* the values of the system clock
    MaxNodes     \* bound on the nodes of the tree

Bit == {0, 1}

ASSUME WidthAssumption ==
    Mapped \in Seq(Bit) /\ ShortWidth \in Nat /\ Len(Mapped) + ShortWidth = Width

ASSUME EntriesAssumption == \A entry \in Entries :
    /\ entry.family = "ipv4" => entry.bits \in [1..ShortWidth -> Bit]
    /\ entry.family \notin {"ipv4", "none"} => entry.bits \in [1..Width -> Bit]
    /\ entry.mask \in Seq(Int) /\ entry.expiration \in Nat

VARIABLES
    head,       \* radix->head
    node,       \* the nodes: [has: prefix # NULL, l, r, parent, expiration]
    listed      \* history: for each network listed, its last expiration

vars == <<head, node, listed>>

Null == << >>
Address == [1..Width -> Bit]

-----------------------------------------------------------------------------
(* parse_ip, ipv4_to_ipv6 and parse_cidr.  The mask is what std::stoi makes *)
(* of the text after the slash, or << >> when there is no slash.            *)

Accepted(entry) ==
    entry.family # "none" /\ (entry.mask # << >> => entry.mask[1] \in 0..Len(entry.bits))

ToIPv6(entry) == IF entry.family = "ipv4" THEN Mapped \o entry.bits ELSE entry.bits

MaskOf(entry) == IF entry.mask = << >> THEN Len(entry.bits) ELSE entry.mask[1]

\* Mutant: the mask of an IPv4 network is not moved.
PrefixLength_Unmoved(entry) == MaskOf(entry)

PrefixLength(entry) == MaskOf(entry) + (IF entry.family = "ipv4" THEN Len(Mapped) ELSE 0)

Masked(entry) == [i \in 1..Width |-> IF i <= PrefixLength(entry) THEN ToIPv6(entry)[i] ELSE 0]

-----------------------------------------------------------------------------
(* radix_put_if_absent. *)

Side(address, bit) == IF bit < Width /\ address[bit + 1] = 1 THEN "r" ELSE "l"

Landing(address, length) ==
    LET down[k \in DOMAIN node] ==
          LET next == node[k][Side(address, Len(k))] IN
          IF (Len(k) < length \/ ~node[k].has) /\ next # Null THEN down[next[1]] ELSE k
    IN down[head[1]]

DifferBit(address, length, k) ==
    LET check == IF Len(k) < length THEN Len(k) ELSE length
    IN Min({check} \cup {i \in 0..check-1 : address[i + 1] # k[i + 1]})

Climb(from, differ) ==
    LET up[k \in DOMAIN node] ==
          IF node[k].parent # Null /\ Len(node[k].parent[1]) >= differ
          THEN up[node[k].parent[1]] ELSE k
    IN up[from]

New(parent, expiration) ==
    [has |-> TRUE, l |-> Null, r |-> Null, parent |-> parent, expiration |-> expiration]

(* The tree with k, or what was at k, in the place below (or above all). *)
Hang(tree, parent, old, k) ==
    IF parent = Null THEN tree
    ELSE [tree EXCEPT ![parent[1]][IF tree[parent[1]].r = <<old>> THEN "r" ELSE "l"] = <<k>>]

AddNode(tree, k, n) == [j \in DOMAIN tree \cup {k} |-> IF j = k THEN n ELSE tree[j]]

PutFirst(key, expiration) ==
    /\ head = Null
    /\ head' = <<key>>
    /\ node' = AddNode(node, key, New(Null, expiration))

PutFound(key, at, differ, expiration) ==
    /\ differ = Len(key) /\ Len(at) = Len(key)
    /\ node' = [node EXCEPT ![at].has = TRUE, ![at].expiration = expiration]
    /\ UNCHANGED head

PutBelow(key, at, differ, address, expiration) ==
    /\ differ # Len(key) \/ Len(at) # Len(key)
    /\ Len(at) = differ
    /\ node' = AddNode([node EXCEPT ![at][Side(address, Len(at))] = <<key>>],
                       key, New(<<at>>, expiration))
    /\ UNCHANGED head

\* Mutant: the node below keeps its old parent.
PutAbove_NotUp(key, landing, at, differ, expiration) ==
    /\ Len(at) # differ /\ differ = Len(key)
    /\ LET parent == node[at].parent
           n == [New(parent, expiration) EXCEPT ![Side(landing, Len(key))] = <<at>>]
       IN /\ node' = AddNode(Hang(node, parent, at, key), key, n)
          /\ head' = IF parent = Null THEN <<key>> ELSE head

PutAbove(key, landing, at, differ, expiration) ==
    /\ Len(at) # differ /\ differ = Len(key)
    /\ LET parent == node[at].parent
           n == [New(parent, expiration) EXCEPT ![Side(landing, Len(key))] = <<at>>]
       IN /\ node' = AddNode([Hang(node, parent, at, key) EXCEPT ![at].parent = <<key>>], key, n)
          /\ head' = IF parent = Null THEN <<key>> ELSE head

\* Mutant: the node made to branch counts as a network too.
PutBeside_Listed(key, at, differ, address, expiration) ==
    /\ Len(at) # differ /\ differ # Len(key)
    /\ LET parent == node[at].parent
           glue == SubSeq(address, 1, differ)
           right == Side(address, differ) = "r"
           g == [has |-> TRUE, parent |-> parent, expiration |-> 0,
                 l |-> IF right THEN <<at>> ELSE <<key>>, r |-> IF right THEN <<key>> ELSE <<at>>]
       IN /\ node' = AddNode(AddNode([Hang(node, parent, at, glue) EXCEPT ![at].parent = <<glue>>],
                                     glue, g),
                             key, New(<<glue>>, expiration))
          /\ head' = IF parent = Null THEN <<glue>> ELSE head

PutBeside(key, at, differ, address, expiration) ==
    /\ Len(at) # differ /\ differ # Len(key)
    /\ LET parent == node[at].parent
           glue == SubSeq(address, 1, differ)
           right == Side(address, differ) = "r"
           g == [has |-> FALSE, parent |-> parent, expiration |-> 0,
                 l |-> IF right THEN <<at>> ELSE <<key>>, r |-> IF right THEN <<key>> ELSE <<at>>]
       IN /\ node' = AddNode(AddNode([Hang(node, parent, at, glue) EXCEPT ![at].parent = <<glue>>],
                                     glue, g),
                             key, New(<<glue>>, expiration))
          /\ head' = IF parent = Null THEN <<glue>> ELSE head

\* The addresses of a network, as it is written.
Covered(entry) ==
    LET prefix == SubSeq(entry.bits, 1, MaskOf(entry))
        bits == IF entry.family = "ipv4" THEN Mapped \o prefix ELSE prefix
    IN {a \in Address : IsPrefix(bits, a)}

(* One turn of the loop of ip_match::ip_match: an address that is not one   *)
(* is left out; the expiration is written to the node whatever it was.      *)
Add(entry) ==
    /\ Accepted(entry)
    /\ Cardinality(DOMAIN node) < MaxNodes
    /\ LET address == Masked(entry)
           key == SubSeq(address, 1, PrefixLength(entry))
           landing == Landing(address, Len(key))
           differ == DifferBit(address, Len(key), landing)
           at == Climb(landing, differ)
       IN \/ PutFirst(key, entry.expiration)
          \/ /\ head # Null
             /\ \/ PutFound(key, at, differ, entry.expiration)
                \/ PutBelow(key, at, differ, address, entry.expiration)
                \/ PutAbove(key, landing, at, differ, entry.expiration)
                \/ PutBeside(key, at, differ, address, entry.expiration)
    /\ listed' = [net \in DOMAIN listed \cup {Covered(entry)} |->
                     IF net = Covered(entry) THEN entry.expiration ELSE listed[net]]

Init == head = Null /\ node = [k \in {} |-> 0] /\ listed = [net \in {} |-> 0]

Next == \E entry \in Entries : Add(entry)

Spec == Init /\ [][Next]_vars

-----------------------------------------------------------------------------
(* radix_matching_do and ip_match::match. *)

\* The nodes with a prefix on the way down, the deepest last.
Way(address) ==
    LET down[k \in DOMAIN node] ==
          LET next == node[k][Side(address, Len(k))]
              here == IF node[k].has THEN <<k>> ELSE << >>
          IN IF Len(k) < Width /\ next # Null THEN here \o down[next[1]] ELSE here
    IN IF head = Null THEN << >> ELSE down[head[1]]

Agrees(address, k) == SubSeq(address, 1, Len(k)) = k

Found(address) ==
    LET way == Way(address)
        agreeing == {i \in DOMAIN way : Agrees(address, way[i])}
    IN IF agreeing = {} THEN Null ELSE <<way[Max(agreeing)]>>

Match(address, now) ==
    LET k == Found(address) IN
    k # Null /\ (node[k[1]].expiration > 0 => node[k[1]].expiration >= now)

-----------------------------------------------------------------------------
Pointer == {Null} \cup {<<k>> : k \in DOMAIN node}
Children(k) == node[k].l \o node[k].r
IsPrefixOf(j, k) == Len(j) < Len(k) /\ SubSeq(k, 1, Len(j)) = j

(* A node has a prefix or two children, its children continue its bits on    *)
(* their side, and pointers go both ways: so that a descent always ends at   *)
(* a node with a prefix, which radix_put_if_absent reads without a test.     *)
TreeShape ==
    /\ head \in Pointer /\ (head = Null <=> node = [k \in {} |-> 0])
    /\ \A k \in DOMAIN node :
          /\ k \in UNION {[1..n -> Bit] : n \in 0..Width}
          /\ node[k].has \in BOOLEAN /\ node[k].expiration \in Nat
          /\ node[k].l \in Pointer /\ node[k].r \in Pointer /\ node[k].parent \in Pointer
          /\ ~node[k].has => node[k].l # Null /\ node[k].r # Null
          /\ \A side \in {"l", "r"} : node[k][side] # Null =>
                LET child == node[k][side][1] IN
                IsPrefixOf(k, child) /\ Side(child, Len(k)) = side /\ node[child].parent = <<k>>
          /\ IF node[k].parent = Null THEN head = <<k>> ELSE Contains(Children(node[k].parent[1]), k)

(* An address matches if and only if the smallest network in the list that  *)
(* holds it has no expiration or has not expired, by the last one given to  *)
(* it: whatever the order of the list, IPv4 networks and mapped ones being  *)
(* the same (ip_match::match, tests TestIPMatch.CIDR and Expiration).       *)
SmallestNetworkDecides ==
    \A address \in Address, now \in Times :
       Match(address, now) <=>
          \E net \in DOMAIN listed :
             /\ address \in net
             /\ \A other \in DOMAIN listed : address \in other => net \subseteq other
             /\ listed[net] = 0 \/ listed[net] >= now

(* The tree, with the nodes it makes to branch, is a map from prefixes to   *)
(* expirations (radix_put_if_absent as ip_match uses it).                   *)
Map == INSTANCE PrefixMap WITH
          Prefix <- UNION {[1..n -> Bit] : n \in 0..Width},
          Expiration <- {entry.expiration : entry \in Entries},
          map <- [k \in {j \in DOMAIN node : node[j].has} |-> node[k].expiration]

IsAPrefixMap == Map!Spec
=============================================================================
