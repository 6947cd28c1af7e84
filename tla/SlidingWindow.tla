--------------------------- MODULE SlidingWindow ---------------------------
(***************************************************************************)
(* What the rate limiter of SecureDoc promises to each client: a call is   *)
(* served if fewer than Limit calls of the client have been served within  *)
(* the last Window, the boundary included, and is turned away otherwise.   *)
(* What is older is forgotten at once; RateLimiter, which forgets when it  *)
(* next looks, implements this.                                            *)
(***************************************************************************)
EXTENDS Integers, FiniteSets

CONSTANTS Clients, Calls, Limit, Window

VARIABLES
    recent, \* per client, the calls served within the last Window, with their age
    answers \* per client, the answer to its last call in this unit of time

NoCalls == [c \in Clients |-> [i \in {} |-> 0]]
NoAnswers == [c \in Clients |-> "none"]

Init == recent = NoCalls /\ answers = NoAnswers

Full(c) == Cardinality(DOMAIN recent[c]) >= Limit

Serve(c) ==
    /\ ~Full(c)
    /\ \E call \in Calls \ DOMAIN recent[c] :
          recent' = [recent EXCEPT
                        ![c] = [i \in DOMAIN recent[c] \cup {call} |->
                                   IF i = call THEN 0 ELSE recent[c][i]]]
    /\ answers' = [answers EXCEPT ![c] = "served"]

Reject(c) ==
    /\ Full(c)
    /\ answers' = [answers EXCEPT ![c] = "rejected"]
    /\ UNCHANGED recent

TimePasses ==
    /\ recent' = [c \in Clients |->
                     [i \in {j \in DOMAIN recent[c] : recent[c][j] < Window} |->
                         recent[c][i] + 1]]
    /\ answers' = NoAnswers

\* The process is restarted.
Forget == recent' = NoCalls /\ answers' = NoAnswers

Next == TimePasses \/ Forget \/ \E c \in Clients : Serve(c) \/ Reject(c)

Spec == Init /\ [][Next]_<<recent, answers>>
=============================================================================
