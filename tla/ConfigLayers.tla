----------------------------- MODULE ConfigLayers -----------------------------
(***************************************************************************)
(* What the configuration says of one request: the application's and the   *)
(* service's files are validated (compileRetryConfigFile), merged          *)
(* (mergeRetryConfigFiles), validated again, and a request is classified,  *)
(* given its downstream and operation, and its policy, by the provider of  *)
(* this configuration or by one of the application's own                   *)
(* (src/retry_config_file.go, src/retry_consul.go, src/dynamic_config.go,  *)
(* src/request_classification.go, src/transport.go).                       *)
(* Names are taken without regard to case and surrounding blanks, and a    *)
(* list of patterns is the set of the values it matches.  retry_budget is  *)
(* in ConfigReload and BudgetParameters.                                   *)
(***************************************************************************)
EXTENDS RetryPolicy, Sequences, SequencesExt

CONSTANTS
    Files,          \* what the application's key and the service's may hold
    RequestsSeen,   \* the requests to resolve
    Clients         \* the transports they may go through

Classes == {"internal_read", "internal_write", "external_read", "external_write"}

\* A value a file may give or not is a set of at most one value.
Patch == [disable : {{}, {TRUE}, {FALSE}}, retries : SUBSET Int, timeout : SUBSET Int,
          elapsed : SUBSET Int, initial : SUBSET Int, maxBackoff : SUBSET Int,
          statuses : SUBSET SUBSET Int, on429 : SUBSET BOOLEAN]

\* A rule: [name, priority, disabled, match, patch]; match is a function from the
\* dimensions the rule mentions to the values it accepts.
\* An operation: [name, priority, match].  A downstream: [name, hosts], hosts a
\* sequence of patterns [exact, segment : BOOLEAN, literal : Nat, matches].
\* A file: [internalHosts, downstreams, operations, policies, rules].
\* A request: [host, label, method, path, class, scope, policy]: label is the
\* first label of the host name; the class and the policy are what its context
\* says, scope what it overrides.
\* A client: [managed, own, registered]: whether its provider is the one of the
\* two files; the class its own one gives, if it resolves classes; what
\* SetRequestClassResolver has, "none", "managed" or the class that one gives.
ASSUME LayersAssumption ==
    /\ \A f \in Files :
           /\ f.policies \in [Classes -> Patch]
           /\ \A list \in {f.downstreams, f.operations, f.rules} : list \in Seq(ToSet(list))
           /\ \A rule \in ToSet(f.rules) :
                  /\ rule.disabled \in BOOLEAN /\ rule.priority \in Int /\ rule.patch \in Patch
                  /\ IsFiniteSet(DOMAIN rule.match)
           /\ \A item \in ToSet(f.downstreams) :
                  /\ item.hosts \in Seq(ToSet(item.hosts))
                  /\ \A pattern \in ToSet(item.hosts) :
                         /\ pattern.exact \in BOOLEAN /\ pattern.segment \in BOOLEAN
                         /\ pattern.literal \in Nat
    /\ \A r \in RequestsSeen :
           /\ IsFiniteSet(r.class)
           /\ r.policy \subseteq
                  [retries : Int, timeout : Int, elapsed : Int, initial : Int,
                   maxBackoff : Int, statuses : SUBSET SUBSET Int, on429 : BOOLEAN]

VARIABLES
    application, service,   \* the two files
    merged,                 \* the configuration served, once loaded
    status,                 \* "stored", "loaded", "rejected" or "resolved"
    request,                \* the request resolved, once one is
    scope,                  \* its RetryConfigScope
    policy,                 \* its RetryPolicy
    classes                 \* [default, event]: the classes by which its default
                            \* policy is chosen and its events are labelled

vars == <<application, service, merged, status, request, scope, policy, classes>>

Blank == ""
Writes == {"internal_write", "external_write"}
ReadMethods == {"GET", "HEAD", "OPTIONS", "TRACE"}

\* The override if it is given.
Over(base, override) == IF override # {} THEN override ELSE base
Given(optional, default) == IF optional # {} THEN CHOOSE v \in optional : TRUE ELSE default

EmptyPatch == [disable |-> {}, retries |-> {}, timeout |-> {}, elapsed |-> {}, initial |-> {},
               maxBackoff |-> {}, statuses |-> {}, on429 |-> {}]

EmptyFile == [internalHosts |-> {}, downstreams |-> <<>>, operations |-> <<>>,
              policies |-> [c \in Classes |-> EmptyPatch], rules |-> <<>>]

-----------------------------------------------------------------------------
(* Validation *)

\* RetryPolicyPatchFile.toPatch succeeds.
toPatch(p) ==
    /\ \A n \in p.retries : n >= 0
    /\ ~(p.disable = {TRUE} /\ p.retries # {})
    /\ \A d \in p.timeout \cup p.elapsed \cup p.initial \cup p.maxBackoff : d > 0
    /\ \A s \in UNION p.statuses : s \in 100 .. 599

specificity(item) == Cardinality(DOMAIN item.match)

NamesUnique(items) ==
    \A i, j \in DOMAIN items :
        i # j /\ items[i].name # Blank => items[i].name # items[j].name

\* A disabled rule only claims its name.
RuleCompiles(r) ==
    r.disabled \/ (r.patch # EmptyPatch /\ toPatch(r.patch) /\ specificity(r) > 0)

compileRetryConfigFile(file) ==
    /\ NamesUnique(file.downstreams)
    /\ \A i \in DOMAIN file.downstreams :
         file.downstreams[i].name # Blank /\ file.downstreams[i].hosts # <<>>
    /\ NamesUnique(file.operations)
    /\ \A i \in DOMAIN file.operations : file.operations[i].name # Blank
    /\ \A c \in Classes : toPatch(file.policies[c])
    /\ NamesUnique(file.rules)
    /\ \A i \in DOMAIN file.rules : RuleCompiles(file.rules[i])

\* sort.SliceStable: by priority, then by the dimensions mentioned.
Before(a, b) ==
    \/ a.priority > b.priority
    \/ a.priority = b.priority /\ specificity(a) > specificity(b)

\* Mutant: the sort is not stable.
InsertAhead(sorted, item) ==
    InsertAt(sorted, 1 + Cardinality({i \in DOMAIN sorted : Before(sorted[i], item)}), item)

\* An item goes behind every one it does not come before.
Insert(sorted, item) ==
    InsertAt(sorted, 1 + Cardinality({i \in DOMAIN sorted : ~Before(item, sorted[i])}), item)

Sorted(items) == FoldLeft(Insert, <<>>, items)

Keep(kept, r) == IF r.disabled THEN kept ELSE Append(kept, r)

Enabled(rules) == FoldLeft(Keep, <<>>, rules)

-----------------------------------------------------------------------------
(* Merging *)

\* Mutant: the application's disable_retry stays beside the service's
\* max_retries.
mergeDisableKept(base, override) == Over(base.disable, override.disable)

\* disable_retry of a merged patch: max_retries alone lifts it.
mergeDisable(base, override) ==
    IF override.disable = {} /\ override.retries # {} THEN {}
    ELSE Over(base.disable, override.disable)

\* max_retries of a merged patch: disable_retry alone drops it.
mergeRetries(base, override) ==
    IF override.disable = {TRUE} THEN override.retries
    ELSE Over(base.retries, override.retries)

mergeRetryPolicyPatchFiles(base, override) ==
    [disable    |-> mergeDisable(base, override),
     retries    |-> mergeRetries(base, override),
     timeout    |-> Over(base.timeout, override.timeout),
     elapsed    |-> Over(base.elapsed, override.elapsed),
     initial    |-> Over(base.initial, override.initial),
     maxBackoff |-> Over(base.maxBackoff, override.maxBackoff),
     statuses   |-> Over(base.statuses, override.statuses),
     on429      |-> Over(base.on429, override.on429)]

\* An item is taken unless its name is there already.
Take(taken, item) ==
    IF item.name # Blank /\ \E i \in DOMAIN taken : taken[i].name = item.name
    THEN taken
    ELSE Append(taken, item)

mergeNamedItems(base, override) == FoldLeft(Take, <<>>, override \o base)

mergeRetryConfigFiles(base, override) ==
    [internalHosts |-> base.internalHosts \cup override.internalHosts,
     downstreams   |-> mergeNamedItems(base.downstreams, override.downstreams),
     operations    |-> mergeNamedItems(base.operations, override.operations),
     policies      |-> [c \in Classes |->
                          mergeRetryPolicyPatchFiles(base.policies[c], override.policies[c])],
     rules         |-> mergeNamedItems(base.rules, override.rules)]

-----------------------------------------------------------------------------
(* Resolving a request *)

\* Mutant: the scope of the context does not count.
ClassOfContext(r) == r.class

\* explicitRequestClassFromContext
ExplicitClass(r) ==
    Over(IF "class" \in DOMAIN r.scope THEN {r.scope["class"]} ELSE {}, r.class)

resolveRequestClass(r, file) ==
    IF r.host \in file.internalHosts
    THEN IF r.method \in ReadMethods THEN "internal_read" ELSE "internal_write"
    ELSE IF r.method \in ReadMethods THEN "external_read" ELSE "external_write"

resolveRequestClassByExtension(r, client, file) ==
    CASE client.registered = "none"    -> {}
      [] client.registered = "managed" -> {resolveRequestClass(r, file)}
      [] OTHER                         -> {client.registered}

\* The context's class, the resolver's, the registered resolver's, the method's.
requestClassFromContextOrResolver(r, own, client, file) ==
    LET byMethod == IF r.method \in ReadMethods THEN "internal_read" ELSE "internal_write"
    IN  Given(ExplicitClass(r),
              Given(own, Given(resolveRequestClassByExtension(r, client, file), byMethod)))

\* DefaultRetryPolicyResolver: the context's policy, or no retry for a write.
BasePolicy(r, class) ==
    normalizeRetryPolicy(Given(r.policy,
        [retries |-> IF class \in Writes THEN 0 ELSE 1, timeout |-> DefaultTimeout, elapsed |-> 0,
         initial |-> DefaultInitial, maxBackoff |-> DefaultMaxBackoff,
         statuses |-> {defaultRetryStatusSet}, on429 |-> TRUE]))

\* How well a pattern matches a host, 0 if it does not.
downstreamPatternMatchSpecificity(pattern, host) ==
    IF host \notin pattern.matches THEN 0
    ELSE (IF pattern.exact THEN 1000 ELSE 100) + pattern.literal
         + (IF pattern.segment THEN 200 ELSE 0)

\* Mutant: a later pattern wins a tie.
BetterOrEqual(score, best) == score >= best

\* A pattern replaces the best so far.
Better(score, best) == score > best

\* The best pattern of all downstreams, the first one of equals; the first
\* label of the host if there is none.
inferDownstream(r, downstreams) ==
    LET Host(item) == [i \in DOMAIN item.hosts |-> [name |-> item.name,
                           score |-> downstreamPatternMatchSpecificity(item.hosts[i], r.host)]]
        candidates == FoldLeft(LAMBDA all, item : all \o Host(item), <<>>, downstreams)
        best == FoldLeft(LAMBDA b, c : IF c.score > 0 /\ Better(c.score, b.score) THEN c ELSE b,
                         [name |-> r.label, score |-> 0], candidates)
    IN  best.name

matches(item, s) == \A d \in DOMAIN item.match : s[d] \in item.match[d]

\* The first of the sorted items that matches, if any.
FirstMatch(items, s) ==
    LET list == Sorted(items)
        found == {i \in DOMAIN list : matches(list[i], s)}
    IN  IF found = {} THEN {} ELSE {list[Min(found)]}

inferOperation(s, operations) ==
    IF FirstMatch(operations, s) # {}
    THEN (CHOOSE o \in FirstMatch(operations, s) : TRUE).name
    ELSE s.method \o " " \o s.path

\* The scope: what the context overrides, then the host, the method and the
\* class, then what is inferred; the operation may depend on the downstream.
resolveRetryConfigScope(r, class, downstreams, operations) ==
    LET Or(d, default) == IF d \in DOMAIN r.scope THEN r.scope[d] ELSE default
        known == [caller |-> Or("caller", "self"),
                  downstream |-> Or("downstream", inferDownstream(r, downstreams)),
                  operation |-> Blank, method |-> Or("method", r.method),
                  host |-> Or("host", r.host), path |-> Or("path", r.path),
                  class |-> Or("class", class)]
        asked == [known EXCEPT !.method = r.method, !.host = r.host, !.path = r.path]
    IN  [known EXCEPT !.operation = Or("operation", inferOperation(asked, operations))]

\* RetryPolicyPatch.Apply
Apply(p, base) ==
    normalizeRetryPolicy(
        [retries    |-> Given(p.retries, IF p.disable = {TRUE} THEN 0 ELSE base.retries),
         timeout    |-> Given(p.timeout, base.timeout),
         elapsed    |-> Given(p.elapsed, base.elapsed),
         initial    |-> Given(p.initial, base.initial),
         maxBackoff |-> Given(p.maxBackoff, base.maxBackoff),
         statuses   |-> Over(base.statuses, p.statuses),
         on429      |-> Given(p.on429, base.on429)])

\* A class beside the four has no patch.
ClassPatch(file, class) == IF class \in Classes THEN file.policies[class] ELSE EmptyPatch

\* The patch of the class, then the first rule that matches.
resolveRetryPolicy(s, file, base) ==
    LET classed == Apply(ClassPatch(file, s.class), base)
        rule == FirstMatch(Enabled(file.rules), s)
    IN  IF rule = {} THEN classed ELSE Apply((CHOOSE r \in rule : TRUE).patch, classed)

-----------------------------------------------------------------------------
Init ==
    /\ application \in Files
    /\ service \in Files
    /\ merged = EmptyFile
    /\ status = "stored"
    /\ request \in RequestsSeen
    /\ scope = {}
    /\ policy = {}
    /\ classes = {}

Load ==
    /\ status = "stored"
    /\ LET file == mergeRetryConfigFiles(application, service)
       IN  IF /\ compileRetryConfigFile(application)
              /\ compileRetryConfigFile(service)
              /\ compileRetryConfigFile(file)
           THEN merged' = file /\ status' = "loaded"
           ELSE status' = "rejected" /\ UNCHANGED merged
    /\ UNCHANGED <<application, service, request, scope, policy, classes>>

Resolved(s, p, default, event) ==
    /\ scope' = {s}
    /\ policy' = {p}
    /\ classes' = {[default |-> default, event |-> event]}
    /\ status' = "resolved"
    /\ UNCHANGED <<application, service, merged, request>>

\* The policy resolver takes the class from the context or from a resolver;
\* resolveRequestConfig, under the read lock, from the context or the file.
Resolve(client) ==
    /\ status = "loaded"
    /\ client.managed
    /\ LET class == Given(ExplicitClass(request), resolveRequestClass(request, merged))
           default == requestClassFromContextOrResolver(request, {}, client, merged)
           s == resolveRetryConfigScope(request, class, merged.downstreams, merged.operations)
       IN  Resolved(s, resolveRetryPolicy(s, merged, BasePolicy(request, default)),
                    default, s.class)

\* Without the provider of the files the class is found once, and the policy
\* resolver gets it with the request; the application's own provider may change
\* the policy, here it returns it.
ResolveCustom(client) ==
    /\ status = "stored"
    /\ ~client.managed
    /\ LET class == requestClassFromContextOrResolver(request, client.own, client, merged)
           s == resolveRetryConfigScope(request, class, <<>>, <<>>)
       IN  Resolved(s, BasePolicy(request, class), class, class)

Next == Load \/ \E client \in Clients : Resolve(client) \/ ResolveCustom(client)

Spec == Init /\ [][Next]_vars

-----------------------------------------------------------------------------
(* Properties *)

\* Two layers that are valid alone are never rejected together: merging makes
\* no duplicate name, no rule without conditions and no disable_retry beside a
\* max_retries (mergeRetryConfigFiles against compileRetryConfigFile).
MergeAccepted ==
    status = "rejected" =>
        ~compileRetryConfigFile(application) \/ ~compileRetryConfigFile(service)

\* The number of retries a patch asks for, by either of its fields.
AsksRetries(p) == IF p.disable = {TRUE} THEN {0} ELSE p.retries

\* What the first of the three says that says anything, else the default.
FirstGiven(rule, upper, lower, default) == Given(Over(Over(lower, upper), rule), default)

\* The places, among the service's rules and then the application's, of the rules
\* in force: the service's, and the application's whose name the service does not
\* use.
AllRules == service.rules \o application.rules

InForce ==
    {i \in DOMAIN AllRules :
        \/ i <= Len(service.rules)
        \/ AllRules[i].name = Blank
        \/ \A j \in DOMAIN service.rules : service.rules[j].name # AllRules[i].name}

RuleHits(s) == {i \in InForce : ~AllRules[i].disabled /\ matches(AllRules[i], s)}

\* By priority, among equals by dimensions, among equals by position.
Ahead(items, i, j) ==
    \/ items[i].priority > items[j].priority
    \/ /\ items[i].priority = items[j].priority
       /\ specificity(items[i]) > specificity(items[j])
    \/ /\ items[i].priority = items[j].priority
       /\ specificity(items[i]) = specificity(items[j])
       /\ i < j

RulePatch(s) ==
    IF RuleHits(s) = {} THEN EmptyPatch
    ELSE AllRules[CHOOSE i \in RuleHits(s) :
                      \A j \in RuleHits(s) \ {i} : Ahead(AllRules, i, j)].patch

\* The policy p says, field by field, what the rule's patch says, else the upper
\* patch, else the lower one, else the base; a disable_retry says as much as a
\* max_retries of 0, and the upper's disable_retry: false takes back the lower's.
Layered(p, rule, upper, lower, base) ==
    /\ p.retries = FirstGiven(AsksRetries(rule), AsksRetries(upper),
                              IF upper.disable = {FALSE} THEN lower.retries
                              ELSE AsksRetries(lower), base.retries)
    /\ p.timeout = FirstGiven(rule.timeout, upper.timeout, lower.timeout, base.timeout)
    /\ p.elapsed = FirstGiven(rule.elapsed, upper.elapsed, lower.elapsed, base.elapsed)
    /\ p.initial = FirstGiven(rule.initial, upper.initial, lower.initial, base.initial)
    /\ p.maxBackoff = FirstGiven(rule.maxBackoff, upper.maxBackoff, lower.maxBackoff,
                                 base.maxBackoff)
    /\ p.statuses = Over(base.statuses, Over(Over(lower.statuses, upper.statuses), rule.statuses))
    /\ p.on429 = FirstGiven(rule.on429, upper.on429, lower.on429, base.on429)

\* A request's policy is layered: the first matching rule, the service's class
\* policy, the application's, the default (config-reference.md, sections 10 and 11).
PolicyLayered ==
    \A s \in scope, p \in policy, c \in classes :
        merged = mergeRetryConfigFiles(application, service) =>
            Layered(p, RulePatch(s), ClassPatch(service, s.class),
                    ClassPatch(application, s.class), BasePolicy(request, c.default))

\* The patterns that match the request, by their places in the file served.
Hits ==
    {h \in UNION {{i} \X DOMAIN merged.downstreams[i].hosts : i \in DOMAIN merged.downstreams} :
        request.host \in merged.downstreams[h[1]].hosts[h[2]].matches}

\* Exact before glob, with a path segment before without, longer before shorter.
MoreSpecific(a, b) ==
    \/ a.exact /\ ~b.exact
    \/ a.exact = b.exact /\ a.segment /\ ~b.segment
    \/ a.exact = b.exact /\ a.segment = b.segment /\ a.literal > b.literal

\* A request that names no downstream gets the one with the most specific of the
\* patterns that match it, the first in the order of the configuration among
\* equals, however many patterns another one has (inferDownstream;
\* config-reference.md, section 6).
DownstreamMostSpecific ==
    LET pattern(h) == merged.downstreams[h[1]].hosts[h[2]]
        best == {h \in Hits : \A g \in Hits :
                    /\ ~MoreSpecific(pattern(g), pattern(h))
                    /\ ~MoreSpecific(pattern(h), pattern(g)) => h[1] <= g[1]}
    IN  \A s \in scope :
            "downstream" \notin DOMAIN request.scope =>
                IF Hits = {} THEN s.downstream = request.label
                ELSE s.downstream \in {merged.downstreams[h[1]].name : h \in best}

\* The context names one class at most.
NamesOneClass(r) == Cardinality(r.class \cup (IF "class" \in DOMAIN r.scope THEN {r.scope["class"]} ELSE {})) <= 1

\* One class governs a request: the number of retries it has by default, the
\* class policy and the rules applied to it, and the label of its events agree,
\* on both ways through RoundTrip (transport.go:89-109, dynamic_config.go:127,
\* request_classification.go:42-53; usage.md, section 4). A context that names two
\* classes splits them, and so may a registered resolver beside the files'.
ClassAgreed ==
    \A s \in scope, c \in classes :
        NamesOneClass(request) =>
            /\ c.event = s.class
            /\ c.default \in Writes <=> s.class \in Writes
=============================================================================
