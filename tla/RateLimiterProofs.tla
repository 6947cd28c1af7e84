------------------------- MODULE RateLimiterProofs -------------------------
(***************************************************************************)
(* Proofs about RateLimiter: its lists never outgrow the limit, and        *)
(* pruning them late implements the exact sliding window.                  *)
(***************************************************************************)
EXTENDS RateLimiter, FiniteSetTheorems, TLAPS

\* A pruned list is a part of the stored one, so it is finite and no longer.
LEMMA KeptIsSmaller ==
    ASSUME TypeOK, NEW c \in Clients
    PROVE  /\ Kept(c) \subseteq DOMAIN buckets[c]
           /\ IsFiniteSet(Kept(c))
           /\ Cardinality(Kept(c)) \in Nat
           /\ Cardinality(Kept(c)) <= Limit
  <1>1. Kept(c) \subseteq DOMAIN buckets[c]
    BY DEF Kept
  <1>2. IsFiniteSet(DOMAIN buckets[c]) /\ Cardinality(DOMAIN buckets[c]) <= Limit
    BY DEF TypeOK
  <1>3. /\ IsFiniteSet(Kept(c))
        /\ Cardinality(Kept(c)) <= Cardinality(DOMAIN buckets[c])
    BY <1>1, <1>2, FS_Subset
  <1>4. Cardinality(Kept(c)) \in Nat /\ Cardinality(DOMAIN buckets[c]) \in Nat
    BY <1>2, <1>3, FS_CardinalityType
  <1> QED
    BY <1>1, <1>2, <1>3, <1>4, ConstantsAssumption

\* A list is a function from some of the names to ages.
LEMMA BucketIsFunction ==
    ASSUME NEW b
    PROVE  b \in Bucket <=> \E S \in SUBSET Calls : b \in [S -> Ages]
  BY DEF Bucket

\* The empty list.
LEMMA EmptyIsBucket ==
    /\ Empty \in Bucket
    /\ IsFiniteSet(DOMAIN Empty)
    /\ Cardinality(DOMAIN Empty) <= Limit
  <1>1. DOMAIN Empty = {} /\ Empty \in [{} -> Ages]
    BY DEF Empty
  <1>2. {} \in SUBSET Calls
    OBVIOUS
  <1>3. Empty \in Bucket
    BY <1>1, <1>2 DEF Bucket
  <1>4. IsFiniteSet({}) /\ Cardinality({}) = 0
    BY FS_EmptySet
  <1>5. 0 <= Limit
    BY ConstantsAssumption
  <1> QED
    BY <1>1, <1>3, <1>4, <1>5

\* Serving a call that fits leaves a list of at most Limit calls.
LEMMA AppendedFits ==
    ASSUME TypeOK, NEW c \in Clients, NEW call \in Calls \ Kept(c), ~Full(c)
    PROVE  /\ Appended(c, call) \in Bucket
           /\ IsFiniteSet(DOMAIN Appended(c, call))
           /\ Cardinality(DOMAIN Appended(c, call)) <= Limit
  <1>1. DOMAIN Appended(c, call) = Kept(c) \cup {call}
    BY DEF Appended
  <1>2. PICK S \in SUBSET Calls : buckets[c] \in [S -> Ages]
    BY BucketIsFunction DEF TypeOK
  <1>3. Kept(c) \cup {call} \in SUBSET Calls
    BY <1>2, KeptIsSmaller
  <1>4. Appended(c, call) \in [Kept(c) \cup {call} -> Ages]
    <2>1. 0 \in Ages
      BY ConstantsAssumption DEF Ages
    <2>2. \A i \in Kept(c) : buckets[c][i] \in Ages
      BY <1>2, KeptIsSmaller
    <2> QED
      BY <2>1, <2>2 DEF Appended
  <1>5. /\ IsFiniteSet(Kept(c) \cup {call})
        /\ Cardinality(Kept(c) \cup {call}) = Cardinality(Kept(c)) + 1
    BY KeptIsSmaller, FS_AddElement
  <1>6. Cardinality(Kept(c)) + 1 <= Limit
    BY KeptIsSmaller, ConstantsAssumption DEF Full
  <1> QED
    BY <1>1, <1>3, <1>4, <1>5, <1>6, BucketIsFunction

\* A list keeps its calls while they grow older.
LEMMA OlderFits ==
    ASSUME TypeOK, NEW c \in Clients
    PROVE  /\ [i \in DOMAIN buckets[c] |-> Older(buckets[c][i])] \in Bucket
           /\ DOMAIN [i \in DOMAIN buckets[c] |-> Older(buckets[c][i])] = DOMAIN buckets[c]
  <1>1. PICK S \in SUBSET Calls : buckets[c] \in [S -> Ages]
    BY BucketIsFunction DEF TypeOK
  <1>2. ASSUME NEW a \in Ages PROVE Older(a) \in Ages
    BY ConstantsAssumption DEF Older, Ages
  <1>3. [i \in DOMAIN buckets[c] |-> Older(buckets[c][i])] \in [S -> Ages]
    BY <1>1, <1>2
  <1> QED
    BY <1>1, <1>3, BucketIsFunction

\* Both modules mean the same by a cardinality.
LEMMA SameCardinality == \A S : Promise!Cardinality(S) = Cardinality(S)
  BY DEF Promise!Cardinality, Cardinality

----------------------------------------------------------------------------
\* What every list holds is what middleware puts there: calls with ages, and never
\* more than RATE_LIMIT_REQUESTS_PER_MINUTE of them.
THEOREM TypeCorrect == Spec => []TypeOK
  <1>1. Init => TypeOK
    BY EmptyIsBucket DEF Init, NoAnswers, TypeOK
  <1>2. TypeOK /\ [Next]_vars => TypeOK'
    <2> SUFFICES ASSUME TypeOK, [Next]_vars PROVE TypeOK'
      OBVIOUS
    <2>1. CASE TimePasses
      BY <2>1, OlderFits DEF TimePasses, NoAnswers, TypeOK
    <2>2. CASE Restart
      BY <2>2, EmptyIsBucket DEF Restart, NoAnswers, TypeOK
    <2>3. ASSUME NEW c \in Clients, Serve(c) PROVE TypeOK'
      <3>1. PICK call \in Calls \ Kept(c) :
               buckets' = [buckets EXCEPT ![c] = Appended(c, call)]
        BY <2>3 DEF Serve
      <3>2. /\ Appended(c, call) \in Bucket
            /\ IsFiniteSet(DOMAIN Appended(c, call))
            /\ Cardinality(DOMAIN Appended(c, call)) <= Limit
        BY <2>3, AppendedFits DEF Serve
      <3>3. answers' \in [Clients -> {"none", "served", "rejected"}]
        BY <2>3 DEF Serve, TypeOK
      <3> QED
        BY <3>1, <3>2, <3>3 DEF TypeOK
    <2>4. ASSUME NEW c \in Clients, Reject(c) PROVE TypeOK'
      BY <2>4 DEF Reject, TypeOK
    <2>5. CASE UNCHANGED vars
      BY <2>5 DEF vars, TypeOK
    <2> QED
      BY <2>1, <2>2, <2>3, <2>4, <2>5 DEF Next
  <1> QED
    BY <1>1, <1>2, PTL DEF Spec

\* Pruning when the next call comes, and only then, serves and turns away the calls
\* that the promised sliding window serves and turns away.
THEOREM Refinement == Spec => ImplementsSlidingWindow
  <1>1. Init => Promise!Init
    BY ConstantsAssumption DEF Init, NoAnswers, Promise!Init, Promise!NoCalls,
       Promise!NoAnswers, recent, Kept, Empty
  <1>2. TypeOK /\ [Next]_vars => [Promise!Next]_<<recent, answers>>
    <2> SUFFICES ASSUME TypeOK, [Next]_vars PROVE Promise!Next \/ UNCHANGED <<recent, answers>>
      OBVIOUS
    <2>0. \A c \in Clients : Full(c) <=> Promise!Full(c)
      <3>1. \A c \in Clients : DOMAIN recent[c] = Kept(c)
        BY DEF recent
      <3> QED
        BY <3>1, SameCardinality DEF Full, Promise!Full
    <2>1. CASE TimePasses
      <3> SUFFICES ASSUME NEW c \in Clients
                   PROVE  recent'[c] = [i \in {j \in DOMAIN recent[c] : recent[c][j] < Window} |->
                                           recent[c][i] + 1]
        BY <2>1 DEF TimePasses, NoAnswers, Promise!Next, Promise!TimePasses,
           Promise!NoAnswers, recent
      <3>1. PICK S \in SUBSET Calls : buckets[c] \in [S -> Ages]
        BY BucketIsFunction DEF TypeOK
      <3>2. buckets'[c] = [i \in S |-> Older(buckets[c][i])]
        BY <2>1, <3>1 DEF TimePasses
      <3>3. Kept(c)' = {i \in S : Older(buckets[c][i]) <= Window}
        BY <3>2 DEF Kept
      <3>4. ASSUME NEW i \in S
            PROVE  /\ buckets[c][i] \in Nat
                   /\ Older(buckets[c][i]) <= Window <=> buckets[c][i] < Window
                   /\ buckets[c][i] < Window => Older(buckets[c][i]) = buckets[c][i] + 1
        BY <3>1, ConstantsAssumption DEF Older, Ages
      <3>5. Kept(c)' = {i \in S : buckets[c][i] < Window}
        BY <3>3, <3>4
      <3>6. Kept(c) = {i \in S : buckets[c][i] <= Window}
        BY <3>1 DEF Kept
      <3>7. {j \in DOMAIN recent[c] : recent[c][j] < Window} = Kept(c)'
        BY <3>4, <3>5, <3>6, ConstantsAssumption DEF recent
      <3>8. recent'[c] = [i \in Kept(c)' |-> buckets[c][i] + 1]
        BY <3>2, <3>4, <3>5 DEF recent
      <3>9. \A i \in Kept(c)' : recent[c][i] = buckets[c][i]
        BY <3>4, <3>5, <3>6, ConstantsAssumption DEF recent
      <3> QED
        BY <3>7, <3>8, <3>9
    <2>2. CASE Restart
      BY <2>2 DEF Restart, NoAnswers, Empty, recent, Kept, Promise!Next, Promise!Forget,
         Promise!NoCalls, Promise!NoAnswers
    <2>3. ASSUME NEW c \in Clients, Serve(c) PROVE Promise!Next
      <3>1. PICK call \in Calls \ Kept(c) :
               buckets' = [buckets EXCEPT ![c] = Appended(c, call)]
        BY <2>3 DEF Serve
      <3>2. DOMAIN recent[c] = Kept(c)
        BY DEF recent
      <3>3. Kept(c)' = Kept(c) \cup {call}
        BY <3>1, ConstantsAssumption DEF Kept, Appended, TypeOK
      <3>4. recent'[c] = [i \in Kept(c) \cup {call} |-> IF i = call THEN 0 ELSE recent[c][i]]
        BY <3>1, <3>3 DEF recent, Appended, TypeOK
      <3>5. ASSUME NEW d \in Clients, d # c PROVE recent'[d] = recent[d]
        BY <3>1, <3>5 DEF recent, Kept, TypeOK
      <3>6. recent' = [recent EXCEPT
                          ![c] = [i \in DOMAIN recent[c] \cup {call} |->
                                     IF i = call THEN 0 ELSE recent[c][i]]]
        BY <3>2, <3>4, <3>5 DEF recent
      <3>7. Promise!Serve(c)
        BY <2>0, <2>3, <3>1, <3>2, <3>6 DEF Serve, Promise!Serve
      <3> QED
        BY <3>7 DEF Promise!Next
    <2>4. ASSUME NEW c \in Clients, Reject(c) PROVE Promise!Next
      <3>1. recent' = recent
        BY <2>4 DEF Reject, recent, Kept
      <3>2. Promise!Reject(c)
        BY <2>0, <2>4, <3>1 DEF Reject, Promise!Reject
      <3> QED
        BY <3>2 DEF Promise!Next
    <2>5. CASE UNCHANGED vars
      BY <2>5 DEF vars, recent, Kept
    <2> QED
      BY <2>1, <2>2, <2>3, <2>4, <2>5 DEF Next
  <1> QED
    BY <1>1, <1>2, TypeCorrect, PTL DEF Spec, ImplementsSlidingWindow, Promise!Spec
=============================================================================
