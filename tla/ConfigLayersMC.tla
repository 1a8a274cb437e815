---------------------------- MODULE ConfigLayersMC ----------------------------
(* Small instances of ConfigLayers. *)
EXTENDS ConfigLayers, TLC

Retries(n) == [EmptyPatch EXCEPT !.retries = {n}]
Disable(b) == [EmptyPatch EXCEPT !.disable = {b}]
Statuses(set) == [EmptyPatch EXCEPT !.statuses = {set}]

\* Every way to speak of retries, valid or not, and two other fields.
Patches ==
    {EmptyPatch, Disable(TRUE), Disable(FALSE), Retries(0), Retries(2), Retries(-1),
     [Disable(FALSE) EXCEPT !.retries = {3}], [Disable(TRUE) EXCEPT !.retries = {3}],
     [Statuses({}) EXCEPT !.elapsed = {5}], [Statuses({503}) EXCEPT !.on429 = {FALSE}]}

InternalRead(p) ==
    [EmptyFile EXCEPT !.internalHosts = {"in"}, !.policies["internal_read"] = p]

Rule(name, priority, disabled, match, patch) ==
    [name |-> name, priority |-> priority, disabled |-> disabled, match |-> match, patch |-> patch]

NoMatch == [d \in {} |-> {}]
ForDownstream == "downstream" :> {"pay"}
ForRead == "class" :> {"internal_read"}
ForBoth == ForDownstream @@ ForRead
ForOperation == "operation" :> {"query", "GET /p"}

\* Two names and none, two priorities, more or fewer dimensions, disabled, invalid.
SomeRules ==
    {Rule("a", 0, FALSE, ForDownstream, Retries(4)), Rule("a", 1, TRUE, NoMatch, EmptyPatch),
     Rule("", 0, FALSE, ForRead, Retries(5)), Rule("b", 0, FALSE, ForBoth, Disable(TRUE)),
     Rule("b", 1, FALSE, ForOperation, Retries(6)), Rule("", 0, FALSE, NoMatch, Retries(7))}

RuleLists == {<<>>} \cup {<<r>> : r \in SomeRules} \cup {<<r, q>> : r, q \in SomeRules}

Pattern(exact, segment, literal, matched) ==
    [exact |-> exact, segment |-> segment, literal |-> literal, matches |-> matched]
Down(name, hosts) == [name |-> name, hosts |-> hosts]

ExactHost == Pattern(TRUE, FALSE, 6, {"in"})
ExactSegment == Pattern(TRUE, TRUE, 9, {"in"})
Glob == Pattern(FALSE, FALSE, 5, {"in", "out"})
GlobSegment == Pattern(FALSE, TRUE, 7, {"in", "out"})

SomeDownstreams ==
    {<<Down("pay", <<ExactHost>>)>>, <<Down("pay", <<Glob, GlobSegment>>), Down("api", <<Glob>>)>>,
     <<Down("api", <<Glob, ExactSegment>>)>>, <<Down("all", <<GlobSegment>>)>>,
     <<Down("pay", <<>>)>>}

Query == [name |-> "query", priority |-> 0, match |-> ForDownstream]
Fetch == [name |-> "fetch", priority |-> 0, match |-> ForDownstream @@ ("method" :> {"GET"})]

LayerFiles ==
    {InternalRead(p) : p \in Patches}
    \cup {[EmptyFile EXCEPT !.rules = rules] : rules \in RuleLists}
    \cup {[InternalRead(Disable(TRUE)) EXCEPT !.downstreams = d, !.operations = <<Query>>,
                                              !.rules = <<Rule("b", 1, FALSE, ForOperation, Retries(6))>>] :
            d \in SomeDownstreams}
    \cup {[EmptyFile EXCEPT !.downstreams = d, !.operations = <<Query, Fetch>>] :
            d \in SomeDownstreams}

Ask(host, label, method) ==
    [host |-> host, label |-> label, method |-> method, path |-> "/p", class |-> {}, scope |-> NoMatch,
     policy |-> {}]

Scoped(r, d, v) == [r EXCEPT !.scope = [x \in {d} |-> v]]

OwnPolicy ==
    [retries |-> 2, timeout |-> 1, elapsed |-> 0, initial |-> 1, maxBackoff |-> 1, statuses |-> {{500}},
     on429 |-> FALSE]

LayerRequests ==
    {Ask("in", "pay", "GET"), Ask("in", "other", "POST"), Ask("out", "pay", "GET"),
     [Ask("out", "other", "POST") EXCEPT !.class = {"internal_read"}],
     [Ask("out", "other", "POST") EXCEPT !.policy = {OwnPolicy}],
     Scoped(Ask("in", "other", "GET"), "downstream", "pay"),
     Scoped(Ask("in", "other", "GET"), "class", "external_write"),
     Scoped(Ask("in", "other", "GET"), "class", "partner"),
     Scoped([Ask("in", "other", "GET") EXCEPT !.class = {"internal_read"}], "class", "external_write")}

\* The shared client, an independent one, and clients of the application's own
\* provider with and without a resolver of classes.
SomeClients ==
    {[managed |-> TRUE, own |-> {}, registered |-> "managed"],
     [managed |-> TRUE, own |-> {}, registered |-> "none"],
     [managed |-> FALSE, own |-> {"external_write"}, registered |-> "internal_read"],
     [managed |-> FALSE, own |-> {}, registered |-> "external_write"],
     [managed |-> FALSE, own |-> {}, registered |-> "none"]}
=============================================================================
