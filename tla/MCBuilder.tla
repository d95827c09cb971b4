----------------------------- MODULE MCBuilder -----------------------------
(* Small documents over two addresses, two rules, a tag and a data id.     *)
EXTENDS BuilderProperties, TLC

CONSTANTS x, y, r1, r2, ips

MCAddress == {x, y}
MCId == {r1, r2}
MCDataId == {ips}

\* Tags with one key, with two, and with three.
tag == "k" :> "v"
other == "k" :> "w"
Two == tag @@ "l" :> "v"
Three == Two @@ "m" :> "v"
Three1 == other @@ Three
MCTagKey == {"k", "l", "m"}
MCTagValue == {"v", "w"}

Whole(nodes) == [nodes |-> nodes, broken |-> FALSE]
Broken(nodes) == [nodes |-> nodes, broken |-> TRUE]

RuleOn(i, ok, a, t) ==
    [id |-> i, valid |-> ok, targets |-> a, tags |-> t, data |-> NoData, op |-> "ip_match"]
RuleData(i, a, op) ==
    [id |-> i, valid |-> TRUE, targets |-> a, tags |-> tag, data |-> ips, op |-> op]
Override(how, scope, sets) == [valid |-> TRUE, by |-> how, scope |-> scope, sets |-> sets]
ById(i) == [ids |-> {i}, tags |-> {}]
ByTag(t) == [ids |-> {}, tags |-> {t}]
Every == [ids |-> {}, tags |-> {}]
FilterOn(i, ok, kind, scope, conds, inputs) ==
    [id |-> i, valid |-> ok, kind |-> kind, scope |-> scope, conditions |-> conds, inputs |-> inputs]

\* Rules on x, rules on y (the second rule failing to parse and repeated), and both.
RulesX == Whole(<<RuleOn(r1, TRUE, {x}, tag), RuleOn(r2, TRUE, {x}, other)>>)
RulesY == Whole(<<RuleOn(r2, FALSE, {x}, tag), RuleOn(r2, TRUE, {y}, tag), RuleOn(r2, TRUE, {x}, other)>>)
RulesXY == Whole(<<RuleOn(r1, TRUE, {x}, other), RuleOn(r2, TRUE, {y}, tag)>>)
RulesIp == Whole(<<RuleData(r1, {x}, "ip_match")>>)
RulesExact == Whole(<<RuleData(r1, {x}, "exact_match")>>)
NoRules == Whole(<<RuleOn(r1, FALSE, {y}, tag)>>)
BrokenRules == Broken(<<RuleOn(r2, TRUE, {y}, tag)>>)

DataIp == Whole(<<[id |-> ips, type |-> "ip_with_expiration"]>>)
DataOther == Whole(<<[id |-> ips, type |-> "other"], [id |-> ips, type |-> "data_with_expiration"]>>)

OvrTag == Whole(<<Override("ids", ById(r2), {"actions"}), Override("tags", ByTag(tag), Setting)>>)
OvrId == Whole(<<Override("ids", ById(r1), {"enabled"}), Override("tags", ByTag(other), {"enabled"}),
                 Override("ids", ById(r1), Setting)>>)
OvrInvalid == Whole(<<[Override("ids", ById(r1), {}) EXCEPT !.valid = FALSE]>>)

ExcRule == Whole(<<FilterOn(r1, TRUE, "rule", ById(r1), {y}, {})>>)
ExcInput == Whole(<<FilterOn(r1, TRUE, "input", ByTag(tag), {}, {x, y}), FilterOn(r2, TRUE, "rule", Every, {x}, {})>>)
ExcInputY == Whole(<<FilterOn(r1, TRUE, "input", Every, {}, {y})>>)
ExcPartly == Whole(<<FilterOn(r1, FALSE, "rule", Every, {y}, {}), FilterOn(r1, TRUE, "rule", ByTag(tag), {x}, {})>>)
ExcInvalid == Whole(<<FilterOn(r1, FALSE, "rule", Every, {y}, {})>>)

Empty == Whole(<<>>)
Malformed == Broken(<<>>)

RulesTags(t1, t2) == Whole(<<RuleOn(r1, TRUE, {x}, t1), RuleOn(r2, TRUE, {y}, t2)>>)
OvrTags(t) == Whole(<<Override("tags", ByTag(t), {"enabled"})>>)
ExcTags(t) == Whole(<<FilterOn(r1, TRUE, "rule", ByTag(t), {x}, {})>>)

Corpus(r, d, o, e) == [rules |-> r, data |-> d, overrides |-> o, exclusions |-> e]
OnlyAbsent == {Absent}

\* Documents all of whose keys are arrays with something valid in them.
Good == Corpus({Absent, RulesY, RulesXY}, OnlyAbsent, {Absent, OvrTag, OvrId, OvrInvalid, Empty},
               {Absent, ExcRule, ExcInput, ExcPartly, Empty})

\* Documents that may fail at every key.
Faulty == Corpus({Absent, RulesX, RulesIp, NoRules, BrokenRules}, {Absent, DataIp, DataOther, Malformed},
                 {Absent, OvrTag, Malformed},
                 {Absent, ExcRule, ExcInvalid, Broken(<<FilterOn(r2, TRUE, "rule", Every, {y}, {})>>)})

\* Rules with several tags, and scopes of up to three.
Tagged == Corpus({Absent} \cup {RulesTags(Two, t) : t \in {Three, Three1}},
                 OnlyAbsent, {Absent} \cup {OvrTags(t) : t \in {Two, Three, Three1}},
                 {Absent, ExcTags(Three)})
MCCorpora == {Good, Faulty, Tagged}

\* Documents for each disagreement.
Failing == {Corpus({Absent, RulesX, RulesXY}, {Absent, Malformed}, {Absent, OvrTag}, {Absent, ExcPartly, Empty})}
LateRules == Corpus({Absent, RulesX, RulesXY}, OnlyAbsent, OnlyAbsent, {Absent, ExcInputY})
NewOperator == Corpus({Absent, RulesIp, RulesExact}, {Absent, DataIp}, OnlyAbsent, OnlyAbsent)
Disagreements == {LateRules, NewOperator}
=============================================================================
