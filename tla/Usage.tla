------------------------------- MODULE Usage -------------------------------
(* What the sessions of one evaluation run used: how the steps of a trace  *)
(* become messages (internal/eval/runner/evidence.go, usageFromTrace), how *)
(* messages and sessions are added up (internal/eval/metrics/aggregate.go) *)
(* and what a message costs by a pricing table (metrics/pricing.go).       *)
(*                                                                         *)
(* A trace is a sequence of sessions [id, parent, steps]; a step is        *)
(* [id, finish, tokens, cost, model]: whether its type is step-finish, the *)
(* counts it reports (<<>> if none) and the cost field (Absent if it has   *)
(* none).  Counts and amounts are whole numbers; a sum past MaxCount is    *)
(* the integer overflow that safeAdd refuses.                              *)
EXTENDS Integers, Sequences, FiniteSets, SequencesExt

CONSTANTS
    MaxCount,    \* the largest count that fits
    Prices       \* the pricing table: records [model, includesCache, rates]

ASSUME CountIsBounded == MaxCount \in Nat

Absent == -1
Classes == {"input", "output", "cacheRead"}
NoTokens == [class \in Classes |-> 0]

-----------------------------------------------------------------------------
(* A cost is [known, usd]: zero is a known cost, not a missing one.         *)

Unknown == [known |-> FALSE, usd |-> 0]
Known(usd) == [known |-> TRUE, usd |-> usd]

SumOf(f, S) == FoldSet(LAMBDA x, sum : sum + f[x], 0, S)

(* Only for the exact model, and only if every class that was used has a    *)
(* rate; an input that includes the cached part is charged without it.      *)
CalculateCost(tokens, model) ==
    LET matched == {price \in ToSet(Prices) : price.model = model}
    IN  IF matched = {} \/ \E class \in Classes : tokens[class] < 0
        THEN Unknown
        ELSE LET price == CHOOSE price \in matched : TRUE
                 cached == IF price.includesCache THEN tokens.cacheRead ELSE 0
                 charged == [tokens EXCEPT !.input = @ - cached]
                 used == {class \in Classes : charged[class] # 0}
             IN  IF charged.input < 0 \/ ~(used \subseteq DOMAIN price.rates)
                 THEN Unknown
                 ELSE Known(SumOf([class \in used |->
                                charged[class] * price.rates[class]], used))

(* A reported cost of zero counts if the field is there.                    *)
providerCost(step) ==
    IF step.cost = Absent THEN Unknown ELSE Known(step.cost)

-----------------------------------------------------------------------------
(* Messages and sessions.                                                   *)

(* The finished steps that report tokens, each a message of its session.    *)
messagesOf(session) ==
    LET finished == SelectSeq(session.steps, LAMBDA step :
                        step.finish /\ step.tokens # <<>>)
    IN  [i \in DOMAIN finished |->
            [session |-> session.id, id |-> finished[i].id,
             tokens |-> finished[i].tokens[1],
             provider |-> providerCost(finished[i]),
             calculated |-> CalculateCost(finished[i].tokens[1],
                                          finished[i].model)]]

NoCost == [usd |-> 0, unavailable |-> 0]
newAggregate == [tokens |-> NoTokens, first |-> 0, peak |-> 0,
                 messages |-> 0, sessions |-> 0, provider |-> NoCost,
                 calculated |-> NoCost, complete |-> TRUE]

Fatal(aggregate) == [aggregate EXCEPT !.complete = FALSE]

safeAdd(left, right) == left <= MaxCount - right
addTokens(left, right) ==
    [class \in Classes |-> left[class] + right[class]]
TokensFit(left, right) ==
    \A class \in Classes : safeAdd(left[class], right[class])

addCost(total, value) ==
    IF value.known /\ value.usd >= 0
    THEN [total EXCEPT !.usd = @ + value.usd]
    ELSE [total EXCEPT !.unavailable = @ + 1]

addMessage(aggregate, m) ==
    [aggregate EXCEPT
        !.tokens = addTokens(@, m.tokens),
        !.messages = @ + 1,
        !.first = IF aggregate.messages = 0 THEN m.tokens.input ELSE @,
        !.peak = IF m.tokens.input > @ THEN m.tokens.input ELSE @,
        !.provider = addCost(@, m.provider),
        !.calculated = addCost(@, m.calculated)]

(* Whether an observation of a message is a second one of its identifier.   *)
Repeated(messages, i) == \E j \in 1..(i - 1) : messages[j].id = messages[i].id
Conflicting(messages, i) ==
    LET earlier == {j \in 1..(i - 1) : messages[j].id = messages[i].id}
    IN  earlier # {} /\ messages[Min(earlier)] # messages[i]

(* Each observation in turn: a repeated one never counts, and what is not   *)
(* a plain repetition, has negative counts or overflows is an issue.        *)
Observe(messages, aggregate, i) ==
    LET m == messages[i]
    IN  CASE Conflicting(messages, i) -> Fatal(aggregate)
          [] Repeated(messages, i) -> aggregate
          [] \E class \in Classes : m.tokens[class] < 0 -> Fatal(aggregate)
          [] ~TokensFit(aggregate.tokens, m.tokens) -> Fatal(aggregate)
          [] OTHER -> addMessage(aggregate, m)

AggregateMessages(messages) ==
    FoldLeft(LAMBDA aggregate, i : Observe(messages, aggregate, i),
             [newAggregate EXCEPT !.sessions = 1],
             [i \in DOMAIN messages |-> i])
AggregateSession(session) == AggregateMessages(messagesOf(session))

mergeCost(total, other) ==
    [usd |-> total.usd + other.usd,
     unavailable |-> total.unavailable + other.unavailable]

merge(a, b) ==
    LET fits == TokensFit(a.tokens, b.tokens)
    IN  [tokens |-> IF fits THEN addTokens(a.tokens, b.tokens) ELSE a.tokens,
         first |-> IF a.sessions = 0 THEN b.first ELSE a.first,
         peak |-> IF b.peak > a.peak THEN b.peak ELSE a.peak,
         messages |-> a.messages + b.messages,
         sessions |-> a.sessions + b.sessions,
         provider |-> mergeCost(a.provider, b.provider),
         calculated |-> mergeCost(a.calculated, b.calculated),
         complete |-> a.complete /\ b.complete /\ fits]

-----------------------------------------------------------------------------
(* The tree of sessions below the root.                                     *)

(* The first snapshot of every session; a different second one is a         *)
(* conflict.                                                                *)
FirstOf(trace, id) ==
    trace[Min({i \in DOMAIN trace : trace[i].id = id})]
Identifiers(trace) == {session.id : session \in ToSet(trace)}
ConflictingSession(trace) ==
    \E session \in ToSet(trace) : session # FirstOf(trace, session.id)

(* The sessions that can be reached from the root by way of their parents.  *)
ChildrenOf(trace, root, ids) ==
    {id \in Identifiers(trace) \ {root} : FirstOf(trace, id).parent \in ids}
Reachable(trace, root) ==
    FoldLeft(LAMBDA ids, i : ids \cup ChildrenOf(trace, root, ids),
             {root}, [i \in DOMAIN trace |-> i])

(* Unlinked, orphaned, cyclic and unreachable sessions are not added.       *)
AggregateTree(trace, root) ==
    IF root \notin Identifiers(trace)
    THEN Fatal(newAggregate)
    ELSE LET reached == Reachable(trace, root)
             total == FoldSet(LAMBDA id, sum :
                          merge(sum, AggregateSession(FirstOf(trace, id))),
                          AggregateSession(FirstOf(trace, root)),
                          reached \ {root})
         IN  [total EXCEPT !.complete =
                 /\ @ /\ ~ConflictingSession(trace)
                 /\ reached = Identifiers(trace)
                 /\ FirstOf(trace, root).parent = ""]

(* A total is available when some message counts and none lacks its cost.   *)
finishCost(aggregate, total) ==
    IF aggregate.messages > 0 /\ total.unavailable = 0
    THEN Known(total.usd) ELSE Unknown

(* The usage of a run: the root's own messages, and those of its tree.      *)
usageFromTrace(trace, root) ==
    LET Own(parent) ==
            [tokens |-> parent.tokens, first |-> parent.first,
             peak |-> parent.peak,
             provider |-> finishCost(parent, parent.provider),
             calculated |-> finishCost(parent, parent.calculated)]
        Tree(tree) ==
            [tokens |-> tree.tokens, sessions |-> tree.sessions,
             provider |-> finishCost(tree, tree.provider),
             calculated |-> finishCost(tree, tree.calculated)]
    IN  [parent |-> Own(IF root \in Identifiers(trace)
                         THEN AggregateSession(FirstOf(trace, root))
                         ELSE Fatal(newAggregate)),
         tree |-> Tree(AggregateTree(trace, root))]

NoUsage == [parent |-> [tokens |-> NoTokens, first |-> 0, peak |-> 0,
                        provider |-> Unknown, calculated |-> Unknown],
            tree |-> [tokens |-> NoTokens, sessions |-> 0,
                      provider |-> Unknown, calculated |-> Unknown]]

(* Reference: what the distinct messages of the reachable sessions cost,    *)
(* whatever they were observed as: the least and the most.                  *)
Observations(trace, root) ==
    UNION {{<<id, m>> : m \in ToSet(messagesOf(FirstOf(trace, id)))}
              : id \in Reachable(trace, root) \cap Identifiers(trace)}
Spends(trace, root, Extreme(_)) ==
    LET seen == Observations(trace, root)
        names == {<<o[1], o[2].id>> : o \in seen}
        amounts == [name \in names |->
            Extreme({o[2].provider.usd : o \in {o \in seen :
                         <<o[1], o[2].id>> = name}})]
    IN  SumOf(amounts, names)

=============================================================================
