-------------------------- MODULE MCWebSocketBroker --------------------------
EXTENDS WebSocketBroker, TLC

Plan(accounts, creds, refresh, reset) ==
    [accounts |-> accounts, creds |-> creds, refresh |-> refresh, reset |-> reset]
OneOf(S) == CHOOSE x \in S : TRUE
Pair == LET a == OneOf(Accounts) IN <<a, OneOf(Accounts \ {a})>>
Alone == <<OneOf(Accounts)>>

Env(brokers, kinds, plans, sent, faults, pauses) ==
    [brokers |-> brokers, kinds |-> kinds, plans |-> plans, frames |-> sent,
     faults |-> faults, pauses |-> pauses]

Single == {Plan(Alone, 1, FALSE, 0), Plan(Alone, 1, FALSE, 1), Plan(Pair, 1, FALSE, 0)}
Every == Single \cup {Plan(Alone, 0, TRUE, 0), Plan(Alone, 2, TRUE, 1), Plan(Pair, 2, FALSE, 1),
                      Plan(Pair, 0, TRUE, 1)}
Kinds == {"warm", "create", "continue", "adopt"}

\* A client that leaves, comes back and prewarms again; two sessions that wait
\* for each other's request, over accounts with one credential; two with
\* refreshes and reserves; one session under every fault and kind of plan.
SafetyEnvironments ==
    {Env(Brokers, Kinds, {Plan(Alone, 1, FALSE, 0)}, 3, {"gone"}, 0),
     Env(Brokers, {"create", "continue"}, Single, 2, {"gone", "write"}, 1),
     Env(Brokers, {"create"}, Every, 2, {"refresh", "reserve"}, 1),
     Env({OneOf(Brokers)}, Kinds, Every, 2, Faults, 1)}
\* One client, which may leave while its account's credentials are tried.
OrphanEnvironments ==
    {Env({OneOf(Brokers)}, {"create"}, {Plan(Alone, 2, TRUE, 0)}, 1, {"gone"}, 0)}
=============================================================================
