---------------------------- MODULE RateLimiter ----------------------------
(***************************************************************************)
(* The rate limiter of request_hardening_middleware (main.py): for each    *)
(* client and path a list of the times of the calls it let through, which  *)
(* is pruned when the next call comes, and only then.                      *)
(*                                                                         *)
(* The middleware runs on the event loop and awaits nothing between the    *)
(* reading of the list and its writing, so each call is one step.  A list  *)
(* is a function from the calls it holds to their age: its order is never  *)
(* looked at.  All ages beyond the window are one, Window + 1.             *)
(***************************************************************************)
EXTENDS Integers, FiniteSets

CONSTANTS
    Clients, \* pairs of client host and path, the keys of _rate_limit_buckets
    Calls,   \* names for the calls of a list
    Limit,   \* RATE_LIMIT_REQUESTS_PER_MINUTE
    Window   \* 60 seconds

ASSUME ConstantsAssumption == Limit \in Nat /\ Window \in Nat

VARIABLES
    buckets, \* _rate_limit_buckets
    answers  \* history: what each client was last answered, in this unit of time

vars == <<buckets, answers>>

Ages == 0..(Window + 1)
Bucket == UNION {[S -> Ages] : S \in SUBSET Calls}
Empty == [i \in {} |-> 0]

NoAnswers == [c \in Clients |-> "none"]

Init ==
    /\ buckets = [c \in Clients |-> Empty]
    /\ answers = NoAnswers

\* Mutant: a call exactly one window old is left out.
KeptStrictly(c) == {i \in DOMAIN buckets[c] : buckets[c][i] < Window}

\* The calls of the list that the list comprehension keeps.
Kept(c) == {i \in DOMAIN buckets[c] : buckets[c][i] <= Window}

\* Mutant: the list is extended as it was stored.
AppendedUnpruned(c, call) ==
    [i \in DOMAIN buckets[c] \cup {call} |-> IF i = call THEN 0 ELSE buckets[c][i]]

\* The pruned list, with one more call of age 0.
Appended(c, call) ==
    [i \in Kept(c) \cup {call} |-> IF i = call THEN 0 ELSE buckets[c][i]]

\* Mutant: the list is counted as it was stored.
FullStored(c) == Cardinality(DOMAIN buckets[c]) >= Limit

\* len(bucket) >= RATE_LIMIT_REQUESTS_PER_MINUTE
Full(c) == Cardinality(Kept(c)) >= Limit

Serve(c) ==
    /\ ~Full(c)
    /\ \E call \in Calls \ Kept(c) : buckets' = [buckets EXCEPT ![c] = Appended(c, call)]
    /\ answers' = [answers EXCEPT ![c] = "served"]

\* 429: the pruned list is dropped, the stored one stays.  (A body that is too large
\* is turned away with 413 before the list is looked at: a step that changes nothing.)
Reject(c) ==
    /\ Full(c)
    /\ answers' = [answers EXCEPT ![c] = "rejected"]
    /\ UNCHANGED buckets

Older(age) == IF age > Window THEN age ELSE age + 1

TimePasses ==
    /\ buckets' = [c \in Clients |-> [i \in DOMAIN buckets[c] |-> Older(buckets[c][i])]]
    /\ answers' = NoAnswers

\* The lists live in the memory of the process.
Restart ==
    /\ buckets' = [c \in Clients |-> Empty]
    /\ answers' = NoAnswers

Next ==
    \/ TimePasses
    \/ Restart
    \/ \E c \in Clients : Serve(c) \/ Reject(c)

\* Time goes on; no call need ever come, and any number may.
Fairness == WF_vars(TimePasses)

Spec == Init /\ [][Next]_vars /\ Fairness

----------------------------------------------------------------------------
(***************************************************************************)
(* Properties.                                                             *)
(***************************************************************************)

\* Every list holds calls with ages, at most Limit of them: what is stale is never
\* kept beside a full window.
TypeOK ==
    /\ answers \in [Clients -> {"none", "served", "rejected"}]
    /\ buckets \in [Clients -> Bucket]
    /\ \A c \in Clients : IsFiniteSet(DOMAIN buckets[c])
                          /\ Cardinality(DOMAIN buckets[c]) <= Limit

\* The calls of the last Window, as the promise has them.
recent == [c \in Clients |-> [i \in Kept(c) |-> buckets[c][i]]]

Promise == INSTANCE SlidingWindow WITH recent <- recent

\* Pruning late makes no difference to any client: a call is served, and a call is
\* turned away, only when a window of its own for every client, forgotten in time,
\* would do so.
ImplementsSlidingWindow == Promise!Spec

\* A client whose calls are turned away can be served again after a time, however
\* many calls it makes meanwhile.
Unblocks == \A c \in Clients : Full(c) ~> ~Full(c)
=============================================================================
