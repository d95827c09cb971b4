-------------------------- MODULE MCRuleDiagnostics --------------------------
EXTENDS RuleDiagnostics

MCEntry ==
    {[map |-> FALSE, id |-> << >>, error |-> << >>], [map |-> TRUE, id |-> << >>, error |-> << >>]}
    \cup [map : {TRUE}, id : {<<i>> : i \in Id}, error : {<<e>> : e \in Error} \cup {<< >>}]
=============================================================================
