----------------------------- MODULE MCContext -----------------------------
(* A ruleset in which rules of both kinds, filters of both kinds and two    *)
(* types that share an action meet over two addresses.                      *)
EXTENDS ContextProperties, TLC

CONSTANTS x, y, z, bad, odd, p1, p2, p3, n1, n2, off, nodata, rf, inf, a, b, t1, t2

MCTarget == {x, y}
MCValue == {bad, odd}
MCRule == {p1, p2, p3, n1, n2, off, nodata}
MCRuleFilter == {rf}
MCInputFilter == {inf}
MCAction == {a, b}
MCType == {t1, t2}

On(targets, value) == [targets |-> targets, accepts |-> {value}, processor |-> TRUE]

MCConditions ==
    p1 :> <<On(<<x>>, bad), On(<<y>>, bad)>> @@ p2 :> <<On(<<y>>, bad)>>
    @@ p3 :> <<On(<<x, y>>, odd)>>
    @@ n1 :> <<On(<<x>>, bad)>> @@ n2 :> <<On(<<x>>, odd), On(<<y>>, odd)>>
    @@ off :> <<On(<<x>>, bad)>> @@ nodata :> <<[On(<<x>>, bad) EXCEPT !.processor = FALSE]>>
    @@ rf :> <<On(<<x>>, odd)>> @@ inf :> <<On(<<y>>, odd)>>

MCRuleType == p1 :> t1 @@ p2 :> t1 @@ p3 :> t2 @@ n1 :> t1 @@ n2 :> t2 @@ off :> t2 @@ nodata :> t1
MCRuleActions == p1 :> {a, b} @@ p2 :> {a} @@ p3 :> {a} @@ n1 :> {} @@ n2 :> {}
                 @@ off :> {} @@ nodata :> {}
MCFilterRules == rf :> {p2} @@ inf :> {p1, n1, n2}
MCFilterTargets == inf :> {x}
MCEnabled == MCRule \ {off}

\* Every map over the two addresses, and one over an address that the
\* manifest does not know.
MCParams == (UNION {[D -> MCValue] : D \in SUBSET MCTarget}) \cup {z :> bad}
=============================================================================
