-------------------------- MODULE BlindTokenProofs --------------------------
(***************************************************************************)
(* Proofs about BlindToken: for any key, sessions, messages and threads,   *)
(* a token is redeemed by overlapping calls only, and only with a final    *)
(* signature of its message after its session was signed.  For this,       *)
(* nothing is used of the arithmetic but that signing the same message     *)
(* again gives the same signature.                                         *)
(*                                                                         *)
(* That taking the factor off gives a signature that verifies is proved    *)
(* from the definitions of the powers and of the remainder, and from what  *)
(* makes N, E and D a key: KeyPairAssumption.                              *)
(***************************************************************************)
EXTENDS BlindToken, WellFoundedInduction, TLAPS

----------------------------------------------------------------------------
(***************************************************************************)
(* The inductive invariant.                                                *)
(***************************************************************************)

\* A session has its message and its factor from the start, and there is one blind
\* signature it can have.
RowsAreSigned ==
    \A s \in Sessions :
        LET row == sessions[s] IN
        /\ row.status = "none" => row.blindSignature = NoValue /\ ~row.spent
        /\ row.status # "none" =>
              /\ row.message \in Messages /\ row.factor \in BlindingFactors
              /\ row.blindSignature \in {NoValue, SignBlinded(BlindMessage(row.message, row.factor))}

\* A thread works on a session that is there; one that verifies or redeems has seen a
\* final signature of its message, and one that redeems has read the session before its
\* first redemption.
ThreadsHaveSeen ==
    \A w \in Workers : ~At(w, "idle") =>
        LET row == sessions[handlers[w].session] IN
        /\ row.status # "none"
        /\ At(w, "verify_write") \/ At(w, "redeem_write") =>
              row.blindSignature # NoValue /\ VerifyFinal(row.message, handlers[w].final)
        /\ At(w, "redeem_write") => handlers[w].past = 0

\* A token that is not spent was never redeemed, and a spent one has its signatures.
SpentOnce ==
    \A s \in Sessions :
        LET row == sessions[s] IN
        /\ ~row.spent => redemptions[s] = 0
        /\ row.spent => row.blindSignature # NoValue /\ VerifyFinal(row.message, row.finalSignature)

BlindInv == TypeOK /\ RowsAreSigned /\ ThreadsHaveSeen /\ SpentOnce
----------------------------------------------------------------------------
(***************************************************************************)
(* Rows and threads.                                                       *)
(***************************************************************************)

\* What a thread has while it works.
LEMMA Fields ==
    ASSUME TypeOK, NEW w \in Workers
    PROVE  /\ handlers[w].step \in {"idle", "sign_write", "verify_write", "redeem_write"}
           /\ ~At(w, "idle") => /\ handlers[w].session \in Sessions /\ handlers[w].seen \in Statuses
                                /\ handlers[w].final \in Finals \cup {NoValue}
<1>1. handlers[w] \in HandlerState
    BY DEF TypeOK
<1> QED
    BY <1>1 DEF HandlerState, Idle, At

\* The other threads stay where they are.
LEMMA GotoStep ==
    ASSUME TypeOK, NEW w \in Workers, NEW state \in HandlerState, Goto(w, state)
    PROVE  /\ handlers' \in [Workers -> HandlerState]
           /\ handlers'[w] = state /\ \A v \in Workers : v # w => handlers'[v] = handlers[v]
BY DEF TypeOK, Goto

LEMMA IdleIsThread == Idle \in HandlerState
BY DEF HandlerState

\* A row that changes while threads at most stop: it keeps its message, its factor and
\* its blind signature, and what the invariant says of it is true of the new row.
LEMMA RowChanges ==
    ASSUME BlindInv, NEW s \in Sessions, NEW row \in Session,
           sessions' = [sessions EXCEPT ![s] = row], now' = now,
           handlers' \in [Workers -> HandlerState],
           \A w \in Workers : handlers'[w] = Idle \/ handlers'[w] = handlers[w],
           redemptions' \in [Sessions -> Nat],
           \A t \in Sessions : t # s => redemptions'[t] = redemptions[t],
           row.status # "none",
           row.message \in Messages, row.factor \in BlindingFactors,
           row.blindSignature \in {NoValue, SignBlinded(BlindMessage(row.message, row.factor))},
           sessions[s].status # "none" =>
               /\ row.message = sessions[s].message
               /\ sessions[s].blindSignature # NoValue => row.blindSignature # NoValue,
           ~row.spent => redemptions'[s] = 0,
           row.spent => row.blindSignature # NoValue /\ VerifyFinal(row.message, row.finalSignature)
    PROVE  BlindInv'
<1>1. sessions'[s] = row /\ \A t \in Sessions : t # s => sessions'[t] = sessions[t]
    BY DEF BlindInv, TypeOK
<1>2. TypeOK'
    BY DEF BlindInv, TypeOK
<1>3. RowsAreSigned'
    BY <1>1 DEF BlindInv, RowsAreSigned
<1>4. ThreadsHaveSeen'
    <2> SUFFICES ASSUME NEW w \in Workers, handlers'[w] = handlers[w], ~At(w, "idle")
                 PROVE  LET new == sessions'[handlers[w].session] IN
                        /\ new.status # "none"
                        /\ At(w, "verify_write") \/ At(w, "redeem_write") =>
                              /\ new.blindSignature # NoValue
                              /\ VerifyFinal(new.message, handlers[w].final)
                        /\ At(w, "redeem_write") => handlers[w].past = 0
        BY DEF ThreadsHaveSeen, At, Idle
    <2>1. /\ handlers[w].session \in Sessions
          /\ sessions[handlers[w].session].status # "none"
          /\ At(w, "verify_write") \/ At(w, "redeem_write") =>
                /\ sessions[handlers[w].session].blindSignature # NoValue
                /\ VerifyFinal(sessions[handlers[w].session].message, handlers[w].final)
          /\ At(w, "redeem_write") => handlers[w].past = 0
        BY Fields DEF BlindInv, ThreadsHaveSeen
    <2> QED
        BY <1>1, <2>1
<1>5. SpentOnce'
    BY <1>1 DEF BlindInv, SpentOnce
<1> QED
    BY <1>2, <1>3, <1>4, <1>5 DEF BlindInv

\* A thread that moves and writes no row.
LEMMA ThreadMoves ==
    ASSUME BlindInv, NEW w \in Workers, NEW state \in HandlerState, Goto(w, state),
           UNCHANGED <<now, sessions, redemptions>>,
           state.step # "idle" => sessions[state.session].status # "none",
           state.step \in {"verify_write", "redeem_write"} =>
               /\ sessions[state.session].blindSignature # NoValue
               /\ VerifyFinal(sessions[state.session].message, state.final),
           state.step = "redeem_write" => state.past = 0
    PROVE  BlindInv'
<1>1. /\ handlers' \in [Workers -> HandlerState]
      /\ handlers'[w] = state /\ \A v \in Workers : v # w => handlers'[v] = handlers[v]
    BY GotoStep DEF BlindInv
<1>2. TypeOK'
    BY <1>1 DEF BlindInv, TypeOK
<1>3. RowsAreSigned'
    BY DEF BlindInv, RowsAreSigned
<1>4. ThreadsHaveSeen'
    BY <1>1 DEF BlindInv, ThreadsHaveSeen, At
<1>5. SpentOnce'
    BY DEF BlindInv, SpentOnce
<1> QED
    BY <1>2, <1>3, <1>4, <1>5 DEF BlindInv

\* What a client can present is a final signature of the session.
LEMMA PresentedIsFinal ==
    ASSUME BlindInv, NEW s \in Sessions, NEW final \in Presented(s), sessions[s].status # "none"
    PROVE  sessions[s].blindSignature # NoValue /\ final \in Finals
<1>1. /\ sessions[s].blindSignature # NoValue
      /\ final \in {sessions[s].blindSignature, Unblind(sessions[s].blindSignature, sessions[s].factor)}
    BY DEF Presented
<1>2. sessions[s].blindSignature \in Signatures /\ sessions[s].factor \in BlindingFactors
    BY <1>1 DEF BlindInv, RowsAreSigned, Signatures
<1> QED
    BY <1>1, <1>2 DEF Finals

\* What a handler has when it has loaded a row.
LEMMA Loaded ==
    ASSUME BlindInv, NEW w \in Workers, NEW step \in {"sign_write", "verify_write", "redeem_write"},
           NEW s \in Sessions, NEW final \in Finals \cup {NoValue},
           Load(w, step, s, final), UNCHANGED <<now, sessions, redemptions>>,
           sessions[s].status # "none",
           step \in {"verify_write", "redeem_write"} =>
               sessions[s].blindSignature # NoValue /\ VerifyFinal(sessions[s].message, final),
           step = "redeem_write" => ~sessions[s].spent
    PROVE  BlindInv'
<1> DEFINE state == [step |-> step, session |-> s, seen |-> sessions[s].status, final |-> final,
                     past |-> redemptions[s]]
<1>1. Goto(w, state)
    BY DEF Load
<1>2. sessions[s].status \in Statuses /\ redemptions[s] \in Nat
    BY DEF BlindInv, TypeOK, Session
<1>3. state \in HandlerState
    BY <1>2 DEF HandlerState
<1>4. state.step = step /\ state.session = s /\ state.final = final /\ state.past = redemptions[s]
    OBVIOUS
<1>5. step = "redeem_write" => redemptions[s] = 0
    BY DEF BlindInv, SpentOnce
<1> HIDE DEF state
<1> QED
    BY <1>1, <1>3, <1>4, <1>5, ThreadMoves
----------------------------------------------------------------------------
(***************************************************************************)
(* The invariant is kept.                                                  *)
(***************************************************************************)

\* The row of a thread at work, and the status it assigns.
LEMMA RowAtWork ==
    ASSUME BlindInv, NEW w \in Workers, ~At(w, "idle"), NEW status \in Statuses \ {"none"}
    PROVE  LET s == handlers[w].session
               row == sessions[s] IN
           /\ s \in Sessions /\ row \in Session /\ row.status # "none"
           /\ row.message \in Messages /\ row.factor \in BlindingFactors
           /\ row.blindSignature \in {NoValue, SignBlinded(BlindMessage(row.message, row.factor))}
           /\ StatusAfter(handlers[w], status) \in Statuses \ {"none"}
           /\ handlers[w].final \in Finals \cup {NoValue}
           /\ redemptions[s] \in Nat
<1> DEFINE s == handlers[w].session
<1>1. s \in Sessions /\ handlers[w].final \in Finals \cup {NoValue}
    BY Fields DEF BlindInv
<1>2. sessions[s].status # "none"
    BY DEF BlindInv, ThreadsHaveSeen
<1>3. sessions[s] \in Session /\ sessions[s].status \in Statuses /\ redemptions[s] \in Nat
    BY <1>1 DEF BlindInv, TypeOK, Session
<1>4. /\ sessions[s].message \in Messages /\ sessions[s].factor \in BlindingFactors
      /\ sessions[s].blindSignature \in
             {NoValue, SignBlinded(BlindMessage(sessions[s].message, sessions[s].factor))}
    BY <1>1, <1>2 DEF BlindInv, RowsAreSigned
<1>5. StatusAfter(handlers[w], status) \in Statuses \ {"none"}
    BY <1>2, <1>3 DEF StatusAfter
<1> QED
    BY <1>1, <1>2, <1>3, <1>4, <1>5

\* The deadline: the status only.
LEMMA ExpiredInv ==
    ASSUME BlindInv, NEW s \in Sessions, MarkExpired(s)
    PROVE  BlindInv'
<1> DEFINE old == sessions[s]
           row == [old EXCEPT !.status = "expired"]
<1>1. old.status # "none" /\ old \in Session
    BY DEF MarkExpired, IsExpired, BlindInv, TypeOK
<1>2. sessions' = [sessions EXCEPT ![s] = row] /\ UNCHANGED <<now, handlers, redemptions>>
    BY DEF MarkExpired
<1>3. /\ row \in Session /\ row.status = "expired" /\ row.message = old.message
      /\ row.factor = old.factor /\ row.blindSignature = old.blindSignature
      /\ row.finalSignature = old.finalSignature /\ row.spent = old.spent
    BY <1>1 DEF Session, Statuses
<1>4. /\ old.message \in Messages /\ old.factor \in BlindingFactors
      /\ old.blindSignature \in {NoValue, SignBlinded(BlindMessage(old.message, old.factor))}
    BY <1>1 DEF BlindInv, RowsAreSigned
<1>5. /\ ~old.spent => redemptions[s] = 0
      /\ old.spent => old.blindSignature # NoValue /\ VerifyFinal(old.message, old.finalSignature)
    BY DEF BlindInv, SpentOnce
<1>6. handlers' \in [Workers -> HandlerState] /\ redemptions' \in [Sessions -> Nat]
    BY <1>2 DEF BlindInv, TypeOK
<1> HIDE DEF row
<1> QED
    BY <1>1, <1>2, <1>3, <1>4, <1>5, <1>6, RowChanges

\* A new session: the one that was not there has no blind signature and no redemption.
LEMMA CreateInv ==
    ASSUME BlindInv, NEW s \in Sessions, NEW m \in Messages, NEW r \in BlindingFactors,
           CreateSession(s, m, r)
    PROVE  BlindInv'
<1> DEFINE old == sessions[s]
           row == [old EXCEPT !.status = "created", !.message = m, !.factor = r,
                              !.expiresAt = now + Ttl]
<1>1. old.status = "none" /\ old \in Session
    BY DEF CreateSession, BlindInv, TypeOK
<1>2. sessions' = [sessions EXCEPT ![s] = row] /\ UNCHANGED <<now, handlers, redemptions>>
    BY DEF CreateSession
<1>3. now + Ttl \in Nat
    BY ConstantsAssumption DEF BlindInv, TypeOK, Time
<1>4. /\ row \in Session /\ row.status = "created" /\ row.message = m /\ row.factor = r
      /\ row.blindSignature = old.blindSignature
      /\ row.finalSignature = old.finalSignature /\ row.spent = old.spent
    BY <1>1, <1>3 DEF Session, Statuses
<1>5. old.blindSignature = NoValue /\ ~old.spent
    BY <1>1 DEF BlindInv, RowsAreSigned
<1>6. redemptions[s] = 0
    BY <1>5 DEF BlindInv, SpentOnce
<1>7. handlers' \in [Workers -> HandlerState] /\ redemptions' \in [Sessions -> Nat]
    BY <1>2 DEF BlindInv, TypeOK
<1> HIDE DEF row
<1> QED
    BY <1>1, <1>2, <1>4, <1>5, <1>6, <1>7, RowChanges

\* sign writes the one blind signature the session can have.
LEMMA SignInv ==
    ASSUME BlindInv, NEW w \in Workers, SignWrite(w),
           NEW s \in Sessions, s = handlers[w].session
    PROVE  BlindInv'
<1> DEFINE old == sessions[s]
           signature == SignBlinded(BlindMessage(old.message, old.factor))
           status == StatusAfter(handlers[w], "blind_signed")
           row == [old EXCEPT !.blindSignature = signature, !.status = status]
<1>1. ~At(w, "idle") /\ Goto(w, Idle) /\ UNCHANGED <<now, redemptions>>
    BY DEF SignWrite, At
<1>2. /\ s \in Sessions /\ old \in Session /\ old.status # "none"
      /\ old.message \in Messages /\ old.factor \in BlindingFactors
      /\ old.blindSignature \in {NoValue, signature}
      /\ status \in Statuses \ {"none"} /\ redemptions[s] \in Nat
    BY <1>1, RowAtWork DEF Statuses
<1>3. sessions' = [sessions EXCEPT ![s] = row]
    BY DEF SignWrite
<1>4. signature \in Signatures
    BY <1>2 DEF Signatures
<1> HIDE DEF signature, status
<1>5. /\ row \in Session /\ row.status = status /\ row.message = old.message
      /\ row.factor = old.factor /\ row.blindSignature = signature
      /\ row.finalSignature = old.finalSignature /\ row.spent = old.spent
    BY <1>2, <1>4 DEF Session
<1>6. /\ handlers' \in [Workers -> HandlerState]
      /\ \A v \in Workers : handlers'[v] = Idle \/ handlers'[v] = handlers[v]
    BY <1>1, IdleIsThread, GotoStep DEF BlindInv
<1>7. /\ ~old.spent => redemptions[s] = 0
      /\ old.spent => old.blindSignature # NoValue /\ VerifyFinal(old.message, old.finalSignature)
    BY <1>2 DEF BlindInv, SpentOnce
<1>8. redemptions' \in [Sessions -> Nat]
    BY <1>1 DEF BlindInv, TypeOK
<1> HIDE DEF row
<1>9. row.blindSignature \in {NoValue, SignBlinded(BlindMessage(row.message, row.factor))}
    BY <1>5 DEF signature
<1>10. old.blindSignature # NoValue => row.blindSignature # NoValue
    BY <1>2, <1>5
<1>11. row.spent => row.blindSignature # NoValue /\ VerifyFinal(row.message, row.finalSignature)
    BY <1>5, <1>7, <1>10
<1> QED
    BY <1>1, <1>2, <1>3, <1>5, <1>6, <1>7, <1>8, <1>9, <1>10, <1>11, RowChanges

\* verify writes a final signature it has verified, over a spent row too.
LEMMA VerifyInv ==
    ASSUME BlindInv, NEW w \in Workers, VerifyWrite(w),
           NEW s \in Sessions, s = handlers[w].session
    PROVE  BlindInv'
<1> DEFINE h == handlers[w]
           old == sessions[s]
           status == IF h.seen = "spent" THEN old.status ELSE StatusAfter(h, "verified")
           row == [old EXCEPT !.finalSignature = h.final, !.status = status]
<1>1. ~At(w, "idle") /\ At(w, "verify_write") /\ Goto(w, Idle) /\ UNCHANGED <<now, redemptions>>
    BY DEF VerifyWrite, At
<1>2. /\ s \in Sessions /\ old \in Session /\ old.status # "none"
      /\ old.message \in Messages /\ old.factor \in BlindingFactors
      /\ old.blindSignature \in {NoValue, SignBlinded(BlindMessage(old.message, old.factor))}
      /\ StatusAfter(h, "verified") \in Statuses \ {"none"} /\ redemptions[s] \in Nat
      /\ h.final \in Finals \cup {NoValue}
    BY <1>1, RowAtWork DEF Statuses
<1>3. status \in Statuses \ {"none"}
    BY <1>2 DEF Session
<1>4. old.blindSignature # NoValue /\ VerifyFinal(old.message, h.final)
    BY <1>1 DEF BlindInv, ThreadsHaveSeen
<1>5. sessions' = [sessions EXCEPT ![s] = row]
    BY DEF VerifyWrite
<1> HIDE DEF status
<1>6. /\ row \in Session /\ row.status = status /\ row.message = old.message
      /\ row.factor = old.factor /\ row.blindSignature = old.blindSignature
      /\ row.finalSignature = h.final /\ row.spent = old.spent
    BY <1>2, <1>3 DEF Session
<1>7. /\ handlers' \in [Workers -> HandlerState]
      /\ \A v \in Workers : handlers'[v] = Idle \/ handlers'[v] = handlers[v]
    BY <1>1, IdleIsThread, GotoStep DEF BlindInv
<1>8. ~old.spent => redemptions[s] = 0
    BY <1>2 DEF BlindInv, SpentOnce
<1>9. redemptions' \in [Sessions -> Nat]
    BY <1>1 DEF BlindInv, TypeOK
<1> HIDE DEF row
<1> QED
    BY <1>1, <1>2, <1>3, <1>4, <1>5, <1>6, <1>7, <1>8, <1>9, RowChanges

\* redeem: one redemption more, of a row that is now spent.
LEMMA RedeemInv ==
    ASSUME BlindInv, NEW w \in Workers, RedeemWrite(w),
           NEW s \in Sessions, s = handlers[w].session
    PROVE  BlindInv'
<1> DEFINE h == handlers[w]
           old == sessions[s]
           status == StatusAfter(h, "spent")
           row == [old EXCEPT !.finalSignature = h.final, !.status = status, !.spent = TRUE]
<1>1. /\ ~At(w, "idle") /\ At(w, "redeem_write") /\ Goto(w, Idle) /\ now' = now
      /\ redemptions' = [redemptions EXCEPT ![s] = @ + 1]
    BY DEF RedeemWrite, At
<1>2. /\ s \in Sessions /\ old \in Session /\ old.status # "none"
      /\ old.message \in Messages /\ old.factor \in BlindingFactors
      /\ old.blindSignature \in {NoValue, SignBlinded(BlindMessage(old.message, old.factor))}
      /\ status \in Statuses \ {"none"} /\ redemptions[s] \in Nat
      /\ h.final \in Finals \cup {NoValue}
    BY <1>1, RowAtWork DEF Statuses
<1>3. old.blindSignature # NoValue /\ VerifyFinal(old.message, h.final)
    BY <1>1 DEF BlindInv, ThreadsHaveSeen
<1>4. sessions' = [sessions EXCEPT ![s] = row]
    BY DEF RedeemWrite
<1> HIDE DEF status
<1>5. /\ row \in Session /\ row.status = status /\ row.message = old.message
      /\ row.factor = old.factor /\ row.blindSignature = old.blindSignature
      /\ row.finalSignature = h.final /\ row.spent
    BY <1>2 DEF Session
<1>6. /\ handlers' \in [Workers -> HandlerState] /\ handlers'[w] = Idle
      /\ \A v \in Workers : handlers'[v] = Idle \/ handlers'[v] = handlers[v]
    BY <1>1, IdleIsThread, GotoStep DEF BlindInv
<1>7. /\ redemptions' \in [Sessions -> Nat]
      /\ \A t \in Sessions : t # s => redemptions'[t] = redemptions[t]
    BY <1>1, <1>2 DEF BlindInv, TypeOK
<1> HIDE DEF row
<1>8. /\ row.status # "none" /\ row.message \in Messages /\ row.factor \in BlindingFactors
      /\ row.blindSignature \in {NoValue, SignBlinded(BlindMessage(row.message, row.factor))}
      /\ row.blindSignature # NoValue /\ VerifyFinal(row.message, row.finalSignature)
    BY <1>2, <1>3, <1>5
<1> QED
    BY <1>1, <1>4, <1>5, <1>6, <1>7, <1>8, RowChanges

LEMMA BlindInvInit ==
    ASSUME Init
    PROVE  BlindInv
<1> DEFINE row == [status |-> "none", message |-> NoValue, factor |-> NoValue, expiresAt |-> 0,
                   blindSignature |-> NoValue, finalSignature |-> NoValue, spent |-> FALSE]
<1>1. /\ \A s \in Sessions : sessions[s] = row /\ redemptions[s] = 0
      /\ \A w \in Workers : handlers[w] = Idle /\ At(w, "idle")
    BY DEF Init, Idle, At
<1>2. row \in Session
    BY DEF Session, Statuses
<1>3. TypeOK
    BY <1>2, ConstantsAssumption DEF Init, TypeOK, Time, HandlerState
<1>4. RowsAreSigned /\ ThreadsHaveSeen
    BY <1>1 DEF RowsAreSigned, ThreadsHaveSeen
<1>5. SpentOnce
    BY <1>1 DEF SpentOnce
<1> QED
    BY <1>3, <1>4, <1>5 DEF BlindInv

LEMMA BlindInvStep ==
    ASSUME BlindInv, [Next]_vars
    PROVE  BlindInv'
<1>1. ASSUME now' \in Time, UNCHANGED <<sessions, handlers, redemptions>> PROVE BlindInv'
    BY <1>1 DEF BlindInv, TypeOK, RowsAreSigned, ThreadsHaveSeen, SpentOnce, At
<1>2. CASE Tick
    BY <1>1, <1>2, ConstantsAssumption DEF Tick, BlindInv, TypeOK, Time
<1>3. CASE UNCHANGED vars
    BY <1>1, <1>3 DEF vars, BlindInv, TypeOK
<1>4. ASSUME NEW w \in Workers, HandlerFails(w) PROVE BlindInv'
    BY <1>4, IdleIsThread, ThreadMoves DEF HandlerFails, Idle
<1>5. ASSUME NEW w \in Workers, NEW s \in Sessions, SignRead(w, s) PROVE BlindInv'
    BY <1>5, Loaded DEF SignRead, Live
<1>6. ASSUME NEW w \in Workers, NEW s \in Sessions, NEW final \in Presented(s),
             VerifyRead(w, s, final) \/ RedeemRead(w, s, final)
      PROVE  BlindInv'
    <2>1. sessions[s].status # "none"
        BY <1>6 DEF VerifyRead, RedeemRead, Live
    <2>2. sessions[s].blindSignature # NoValue /\ final \in Finals
        BY <2>1, PresentedIsFinal
    <2>3. CASE VerifyRead(w, s, final)
        BY <2>1, <2>2, <2>3, Loaded DEF VerifyRead
    <2>4. CASE RedeemRead(w, s, final)
        BY <2>1, <2>2, <2>4, Loaded DEF RedeemRead, AlreadySpent
    <2> QED
        BY <1>6, <2>3, <2>4
<1>7. ASSUME NEW w \in Workers, SignWrite(w) \/ VerifyWrite(w) \/ RedeemWrite(w) PROVE BlindInv'
    <2>1. handlers[w].session \in Sessions
        BY <1>7, Fields DEF BlindInv, SignWrite, VerifyWrite, RedeemWrite, At
    <2> QED
        BY <1>7, <2>1, SignInv, VerifyInv, RedeemInv
<1> QED
    BY <1>2, <1>3, <1>4, <1>5, <1>6, <1>7, ExpiredInv, CreateInv
       DEF Next, SignExpired, VerifyExpired, RedeemExpired

----------------------------------------------------------------------------
(***************************************************************************)
(* Induction over the natural numbers, as a fact about sets.               *)
(***************************************************************************)

\* Every set of natural numbers that is not empty has a least element.
LEMMA LeastNumber ==
    ASSUME NEW T, T \subseteq Nat, T # {}
    PROVE  \E n \in T : \A m \in T : n <= m
<1> DEFINE R == {p \in Nat \X Nat : p[1] < p[2]}
<1>1. IsWellFoundedOn(R, Nat)
    <2>1. OpToRel(<, Nat) = R
        BY Zenon DEF OpToRel
    <2> QED
        BY <2>1, NatLessThanWellFounded, Zenon
<1> HIDE DEF R
<1>2. PICK n \in T : \A m \in T : <<m, n>> \notin R
    BY <1>1, WFMin
<1>3. ASSUME NEW m \in T PROVE n <= m
    <2>1. m \in Nat /\ n \in Nat
        OBVIOUS
    <2>2. <<m, n>> \in Nat \X Nat /\ <<m, n>>[1] = m /\ <<m, n>>[2] = n
        BY <2>1
    <2>3. ~(m < n)
        BY <1>2, <2>2 DEF R
    <2> QED
        BY <2>1, <2>3
<1> QED
    BY <1>3

\* A set that has 0 and the successor of each of its numbers has them all.
LEMMA InductiveSet ==
    ASSUME NEW S, 0 \in S, \A n \in Nat : n \in S => n + 1 \in S
    PROVE  \A n \in Nat : n \in S
<1> SUFFICES ASSUME Nat \ S # {} PROVE FALSE
    OBVIOUS
<1>1. PICK n \in Nat \ S : \A m \in Nat \ S : n <= m
    BY LeastNumber
<1>2. n - 1 \in Nat /\ n - 1 \in S
    BY <1>1
<1> QED
    BY <1>1, <1>2

----------------------------------------------------------------------------
(***************************************************************************)
(* Remainders.                                                             *)
(***************************************************************************)

LEMMA Products ==
    ASSUME NEW a \in Int, NEW b \in Int, NEW c \in Int
    PROVE  /\ a * b \in Int
           /\ (a * b) * c = a * (b * c)
           /\ a * b = b * a
           /\ (a + b) * c = (a * c) + (b * c)
           /\ a * (b + c) = (a * b) + (a * c)
OBVIOUS

LEMMA Division ==
    ASSUME NEW a \in Int
    PROVE  a \div N \in Int /\ a % N \in 0..(N - 1) /\ a = (N * (a \div N)) + (a % N)
BY KeyAssumption

\* There is one remainder.
LEMMA RemainderUnique ==
    ASSUME NEW q \in Int, NEW r \in 0..(N - 1)
    PROVE  ((N * q) + r) % N = r
<1>1. N \in Nat \ {0}
    BY KeyAssumption
<1> QED
    BY <1>1

\* Multiples of the modulus do not count,
LEMMA RemainderOfSum ==
    ASSUME NEW q \in Int, NEW s \in Int
    PROVE  ((N * q) + s) % N = s % N
<1> DEFINE t == s \div N
           r == s % N
<1>1. r \in 0..(N - 1) /\ s = (N * t) + r /\ t \in Int /\ N \in Int
    BY Division, KeyAssumption
<1> HIDE DEF t, r
<1>2. (N * q) + ((N * t) + r) = (N * (q + t)) + r
    BY <1>1, Products
<1>3. ((N * (q + t)) + r) % N = r
    BY <1>1, RemainderUnique
<1> QED
    BY <1>1, <1>2, <1>3 DEF r

\* so that a factor can be replaced by its remainder.
LEMMA RemainderOfProduct ==
    ASSUME NEW a \in Int, NEW b \in Int
    PROVE  ((a % N) * b) % N = (a * b) % N
<1> DEFINE t == a \div N
           r == a % N
<1>1. r \in Int /\ a = (N * t) + r /\ t \in Int /\ N \in Int
    BY Division, KeyAssumption
<1> HIDE DEF t, r
<1>2. ((N * t) + r) * b = (N * (t * b)) + (r * b)
    BY <1>1, Products
<1>3. t * b \in Int /\ r * b \in Int
    BY <1>1
<1>4. ((N * (t * b)) + (r * b)) % N = (r * b) % N
    BY <1>3, RemainderOfSum
<1> QED
    BY <1>1, <1>2, <1>4 DEF r

\* The same for both factors.
LEMMA RemainderOfFactors ==
    ASSUME NEW a \in Int, NEW b \in Int
    PROVE  ((a % N) * (b % N)) % N = (a * b) % N
<1>1. a % N \in Int /\ b % N \in Int
    BY Division
<1>2. ((a % N) * (b % N)) % N = (a * (b % N)) % N
    BY <1>1, RemainderOfProduct
<1>3. a * (b % N) = (b % N) * a
    BY <1>1
<1>4. ((b % N) * a) % N = (b * a) % N
    BY <1>1, RemainderOfProduct
<1> QED
    BY <1>2, <1>3, <1>4

----------------------------------------------------------------------------
(***************************************************************************)
(* What Pow computes.                                                      *)
(***************************************************************************)

\* p has the powers of b up to k.
IsPower(b, k, p) == p = [i \in 0..k |-> IF i = 0 THEN 1 ELSE (p[i - 1] * b) % N]

LEMMA PowerExists ==
    ASSUME NEW b, NEW k \in Nat
    PROVE  \E p : IsPower(b, k, p)
<1> DEFINE S == {j \in Nat : \E p : IsPower(b, j, p)}
<1>1. 0 \in S
    <2>1. IsPower(b, 0, [i \in 0..0 |-> 1])
        BY DEF IsPower
    <2> QED
        BY <2>1
<1>2. ASSUME NEW n \in Nat, n \in S
      PROVE  n + 1 \in S
    <2>1. PICK p : IsPower(b, n, p)
        BY <1>2
    <2> DEFINE q == [i \in 0..(n + 1) |-> IF i = n + 1 THEN (p[n] * b) % N ELSE p[i]]
    <2>2. \A i \in 0..n : q[i] = p[i]
        OBVIOUS
    <2>3. \A i \in 0..n : p[i] = IF i = 0 THEN 1 ELSE (p[i - 1] * b) % N
        BY <2>1 DEF IsPower
    <2>4. ASSUME NEW i \in 0..(n + 1)
          PROVE  q[i] = IF i = 0 THEN 1 ELSE (q[i - 1] * b) % N
        <3>1. CASE i = n + 1
            <4>1. i # 0 /\ i - 1 = n /\ q[i] = (p[n] * b) % N
                BY <3>1
            <4>2. q[n] = p[n]
                <5>1. n \in 0..n
                    OBVIOUS
                <5> QED
                    BY <2>2, <5>1
            <4> QED
                BY <4>1, <4>2
        <3>2. CASE i # n + 1
            <4>1. i \in 0..n /\ (i # 0 => i - 1 \in 0..n)
                BY <3>2
            <4>2. q[i] = p[i] /\ (i # 0 => q[i - 1] = p[i - 1])
                BY <2>2, <4>1
            <4>3. p[i] = IF i = 0 THEN 1 ELSE (p[i - 1] * b) % N
                BY <2>3, <4>1
            <4> HIDE DEF q
            <4> QED
                BY <4>2, <4>3
        <3> QED
            BY <3>1, <3>2
    <2>5. q = [i \in 0..(n + 1) |-> IF i = 0 THEN 1 ELSE (q[i - 1] * b) % N]
        BY <2>4
    <2> HIDE DEF q
    <2>6. IsPower(b, n + 1, q)
        BY <2>5 DEF IsPower
    <2> QED
        BY <2>6
<1> HIDE DEF S
<1>3. k \in S
    BY <1>1, <1>2, InductiveSet
<1> QED
    BY <1>3 DEF S

LEMMA PowerUnique ==
    ASSUME NEW b, NEW j \in Nat, NEW k \in Nat, NEW p, NEW q,
           IsPower(b, j, p), IsPower(b, k, q),
           NEW n \in Nat, n <= j, n <= k
    PROVE  p[n] = q[n]
<1> DEFINE S == {i \in Nat : i <= j /\ i <= k => p[i] = q[i]}
<1>1. /\ \A i \in 0..j : p[i] = IF i = 0 THEN 1 ELSE (p[i - 1] * b) % N
      /\ \A i \in 0..k : q[i] = IF i = 0 THEN 1 ELSE (q[i - 1] * b) % N
    BY DEF IsPower
<1>2. 0 \in S
    BY <1>1
<1>3. ASSUME NEW i \in Nat, i \in S
      PROVE  i + 1 \in S
    <2> SUFFICES ASSUME i + 1 <= j, i + 1 <= k
                 PROVE  p[i + 1] = q[i + 1]
        OBVIOUS
    <2>1. p[i] = q[i]
        BY <1>3
    <2>2. i + 1 \in 0..j /\ i + 1 \in 0..k /\ i + 1 # 0 /\ (i + 1) - 1 = i
        OBVIOUS
    <2> QED
        BY <1>1, <2>1, <2>2
<1> HIDE DEF S
<1>4. n \in S
    BY <1>2, <1>3, InductiveSet
<1> QED
    BY <1>4 DEF S

\* The powers as they are reckoned in the code, one multiplication after the other.
LEMMA PowSteps ==
    ASSUME NEW b
    PROVE  /\ Pow(b, 0) = 1
           /\ \A k \in Nat : Pow(b, k + 1) = (Pow(b, k) * b) % N
<1>1. ASSUME NEW k \in Nat
      PROVE  \E p : IsPower(b, k, p) /\ Pow(b, k) = p[k]
    <2>1. \E p : IsPower(b, k, p)
        BY PowerExists
    <2> QED
        BY <2>1 DEF Pow, IsPower
<1>2. Pow(b, 0) = 1
    BY <1>1 DEF IsPower
<1>3. ASSUME NEW k \in Nat
      PROVE  Pow(b, k + 1) = (Pow(b, k) * b) % N
    <2>1. PICK p : IsPower(b, k, p) /\ Pow(b, k) = p[k]
        BY <1>1
    <2>2. PICK q : IsPower(b, k + 1, q) /\ Pow(b, k + 1) = q[k + 1]
        BY <1>1
    <2>3. p[k] = q[k]
        BY <2>1, <2>2, PowerUnique
    <2>4. q[k + 1] = (q[k] * b) % N
        BY <2>2 DEF IsPower
    <2> QED
        BY <2>1, <2>2, <2>3, <2>4
<1> QED
    BY <1>2, <1>3

LEMMA PowType ==
    ASSUME NEW b \in Int, NEW k \in Nat
    PROVE  Pow(b, k) \in 0..(N - 1)
<1> DEFINE S == {j \in Nat : Pow(b, j) \in 0..(N - 1)}
<1>1. 0 \in S
    BY PowSteps, KeyAssumption
<1>2. ASSUME NEW j \in Nat, j \in S
      PROVE  j + 1 \in S
    <2>1. Pow(b, j) \in Int
        BY <1>2
    <2>2. Pow(b, j) * b \in Int
        BY <2>1
    <2>3. Pow(b, j + 1) = (Pow(b, j) * b) % N
        BY PowSteps
    <2> QED
        BY <2>2, <2>3, Division
<1> HIDE DEF S
<1>3. k \in S
    BY <1>1, <1>2, InductiveSet
<1> QED
    BY <1>3 DEF S

\* A power of a product is the product of the powers.
LEMMA PowOfProduct ==
    ASSUME NEW a \in Int, NEW b \in Int, NEW k \in Nat
    PROVE  Pow((a * b) % N, k) = (Pow(a, k) * Pow(b, k)) % N
<1> DEFINE ab == (a * b) % N
           S == {j \in Nat : Pow(ab, j) = (Pow(a, j) * Pow(b, j)) % N}
<1>0. ab \in Int /\ a * b \in Int
    BY Division
<1>1. 0 \in S
    <2>1. (1 * 1) % N = 1
        BY KeyAssumption
    <2> QED
        BY <2>1, PowSteps
<1>2. ASSUME NEW j \in Nat, j \in S
      PROVE  j + 1 \in S
    <2> DEFINE x == Pow(a, j)
               y == Pow(b, j)
    <2>1. x \in Int /\ y \in Int
        BY PowType
    <2>2. Pow(ab, j) = (x * y) % N
        BY <1>2
    <2>3. Pow(ab, j + 1) = (((x * y) % N) * ab) % N
        BY <2>2, PowSteps
    <2>4. /\ Pow(a, j + 1) = (x * a) % N
          /\ Pow(b, j + 1) = (y * b) % N
        BY PowSteps
    <2> HIDE DEF x, y
    <2>5. (((x * y) % N) * ((a * b) % N)) % N = ((x * y) * (a * b)) % N
        <3>1. x * y \in Int
            BY <2>1
        <3> QED
            BY <1>0, <3>1, RemainderOfFactors
    <2>6. (((x * a) % N) * ((y * b) % N)) % N = ((x * a) * (y * b)) % N
        <3>1. x * a \in Int /\ y * b \in Int
            BY <2>1
        <3> QED
            BY <3>1, RemainderOfFactors
    <2>7. (x * y) * (a * b) = (x * a) * (y * b)
        <3>1. (x * y) * (a * b) = x * (y * (a * b)) /\ y * (a * b) = (y * a) * b
            BY <2>1, <1>0, Products
        <3>2. (x * a) * (y * b) = x * (a * (y * b)) /\ a * (y * b) = (a * y) * b
            BY <2>1, Products
        <3>3. y * a = a * y
            BY <2>1
        <3> QED
            BY <3>1, <3>2, <3>3
    <2> QED
        BY <2>3, <2>4, <2>5, <2>6, <2>7
<1> HIDE DEF S
<1>3. k \in S
    BY <1>1, <1>2, InductiveSet
<1> QED
    BY <1>3 DEF S

\* Two exponents can be taken in either order.
LEMMA PowSwaps ==
    ASSUME NEW b \in Int, NEW j \in Nat, NEW k \in Nat
    PROVE  Pow(Pow(b, j), k) = Pow(Pow(b, k), j)
<1> DEFINE S == {i \in Nat : Pow(Pow(b, i), k) = Pow(Pow(b, k), i)}
           T == {i \in Nat : Pow(1, i) = 1}
<1>1. 0 \in S
    <2>1. 0 \in T
        BY PowSteps
    <2>2. ASSUME NEW i \in Nat, i \in T
          PROVE  i + 1 \in T
        <3>1. (1 * 1) % N = 1
            BY KeyAssumption
        <3> QED
            BY <2>2, <3>1, PowSteps
    <2> HIDE DEF T
    <2>3. k \in T
        BY <2>1, <2>2, InductiveSet
    <2> QED
        BY <2>3, PowSteps DEF T
<1>2. ASSUME NEW i \in Nat, i \in S
      PROVE  i + 1 \in S
    <2> DEFINE x == Pow(b, i)
               y == Pow(b, k)
    <2>1. x \in Int /\ y \in Int
        BY PowType
    <2>2. Pow(x, k) = Pow(y, i)
        BY <1>2
    <2>3. Pow(b, i + 1) = (x * b) % N /\ Pow(y, i + 1) = (Pow(y, i) * y) % N
        BY PowSteps
    <2>4. Pow((x * b) % N, k) = (Pow(x, k) * y) % N
        BY <2>1, PowOfProduct
    <2> QED
        BY <2>2, <2>3, <2>4
<1> HIDE DEF S
<1>3. j \in S
    BY <1>1, <1>2, InductiveSet
<1> QED
    BY <1>3 DEF S

\* Taking the factor off gives the signature of the message itself, which verifies.
LEMMA UnblindingIsSigning ==
    ASSUME NEW m \in 1..(N - 1), NEW r \in BlindingFactors
    PROVE  /\ Unblind(SignBlinded(BlindMessage(m, r)), r) = Pow(m, D)
           /\ VerifyFinal(m, Pow(m, D))
<1> DEFINE s == Pow(m, D)
           i == InverseOf(r)
<1>1. E \in Nat /\ D \in Nat /\ N \in Nat /\ N > 3
    BY KeyAssumption
<1>2. m \in Int /\ m \in 0..(N - 1) /\ r \in Int /\ r \in 0..(N - 1)
    BY <1>1 DEF BlindingFactors, Units
<1>3. i \in Int /\ (r * i) % N = 1
    <2>1. \E y \in 1..(N - 1) : (r * y) % N = 1
        BY DEF BlindingFactors, Units
    <2> QED
        BY <1>1, <2>1 DEF InverseOf
<1>4. s \in 0..(N - 1) /\ s \in Int /\ Pow(r, E) \in Int
    <2>1. Pow(m, D) \in 0..(N - 1) /\ Pow(r, E) \in 0..(N - 1)
        BY <1>1, <1>2, PowType
    <2>2. \A x \in 0..(N - 1) : x \in Int
        OBVIOUS
    <2> QED
        BY <2>1, <2>2
<1>5. Pow(Pow(r, E), D) = r
    BY <1>2, KeyPairAssumption
<1>6. SignBlinded(BlindMessage(m, r)) = (s * r) % N
    <2>1. Pow((m * Pow(r, E)) % N, D) = (s * Pow(Pow(r, E), D)) % N
        BY <1>1, <1>2, <1>4, PowOfProduct
    <2> QED
        BY <1>5, <2>1 DEF SignBlinded, BlindMessage
<1> HIDE DEF i, s
<1>7. (((s * r) % N) * i) % N = s
    <2>1. s * r \in Int /\ r * i \in Int /\ (s * r) * i = s * (r * i)
        BY <1>2, <1>3, <1>4, Products
    <2>2. (((s * r) % N) * i) % N = ((s * r) * i) % N
        BY <1>3, <2>1, RemainderOfProduct
    <2>3. ((s % N) * ((r * i) % N)) % N = (s * (r * i)) % N
        BY <1>4, <2>1, RemainderOfFactors
    <2>4. s % N = s
        BY <1>1, <1>4
    <2>5. (s * 1) % N = s
        BY <1>4, <2>4
    <2> QED
        BY <1>3, <2>1, <2>2, <2>3, <2>4, <2>5
<1>8. Unblind(SignBlinded(BlindMessage(m, r)), r) = s
    BY <1>6, <1>7 DEF Unblind, i
<1>9. Pow(s, E) = m
    <2>1. Pow(Pow(m, D), E) = Pow(Pow(m, E), D)
        BY <1>1, <1>2, PowSwaps
    <2> QED
        BY <1>2, <2>1, KeyPairAssumption DEF s
<1> QED
    BY <1>8, <1>9 DEF VerifyFinal, s

----------------------------------------------------------------------------
(***************************************************************************)
(* The theorems.                                                           *)
(***************************************************************************)

\* A session has one blind signature it can have, threads have seen what they write, and
\* one that is about to redeem has read a session that was never redeemed.
THEOREM BlindInvariant == Spec => []BlindInv
<1>1. Init => BlindInv
    BY BlindInvInit
<1>2. BlindInv /\ [Next]_vars => BlindInv'
    BY BlindInvStep
<1> QED
    BY <1>1, <1>2, PTL DEF Spec

\* Rows and threads hold values of their types, and nothing is stored as a signature
\* that did not come from the signer or from taking a factor off.
THEOREM TypeCorrect == Spec => []TypeOK
<1>1. BlindInv => TypeOK
    BY DEF BlindInv
<1> QED
    BY <1>1, BlindInvariant, PTL

\* The step that redeems is RedeemWrite: the others leave the count alone.
LEMMA RedeemsAtWrite ==
    ASSUME BlindInv, Next, NEW s \in Sessions, redemptions'[s] # redemptions[s]
    PROVE  \E w \in Workers : RedeemWrite(w) /\ handlers[w].session = s
<1>1. redemptions' # redemptions
    OBVIOUS
<1>2. PICK w \in Workers : RedeemWrite(w)
    BY <1>1 DEF Next, Tick, SignExpired, VerifyExpired, RedeemExpired, MarkExpired, CreateSession,
                HandlerFails, SignWrite, VerifyWrite, SignRead, VerifyRead, RedeemRead
<1>3. redemptions' = [redemptions EXCEPT ![handlers[w].session] = @ + 1]
    BY <1>2 DEF RedeemWrite
<1>4. redemptions \in [Sessions -> Nat]
    BY DEF BlindInv, TypeOK
<1> QED
    BY <1>2, <1>3, <1>4

\* However its status is rewritten, a session is redeemed again only by a thread that
\* had read it before its first redemption.
THEOREM RedeemedByOverlap == Spec => RedeemedOnlyByOverlap
<1> DEFINE Overlaps(s) ==
               \E w \in Workers : /\ At(w, "redeem_write") /\ handlers[w].session = s
                                  /\ handlers'[w] = Idle
                                  /\ handlers[w].past = 0
           Overlapped == \A s \in Sessions : redemptions'[s] > redemptions[s] => Overlaps(s)
<1>1. ASSUME BlindInv, [Next]_vars PROVE [Overlapped]_vars
    <2> SUFFICES ASSUME Next, NEW s \in Sessions, redemptions'[s] > redemptions[s]
                 PROVE  Overlaps(s)
        BY <1>1
    <2>1. redemptions'[s] # redemptions[s]
        <3>1. redemptions[s] \in Nat
            BY <1>1 DEF BlindInv, TypeOK
        <3> QED
            BY <3>1
    <2>2. PICK w \in Workers : RedeemWrite(w) /\ handlers[w].session = s
        BY <1>1, <2>1, RedeemsAtWrite
    <2>3. At(w, "redeem_write") /\ Goto(w, Idle)
        BY <2>2 DEF RedeemWrite
    <2>4. handlers'[w] = Idle
        BY <1>1, <2>3, IdleIsThread, GotoStep DEF BlindInv
    <2>5. handlers[w].past = 0
        BY <1>1, <2>3 DEF BlindInv, ThreadsHaveSeen, At
    <2> QED
        BY <2>2, <2>3, <2>4, <2>5
<1> HIDE DEF Overlapped
<1>2. BlindInv /\ [Next]_vars => [Overlapped]_vars
    BY <1>1
<1>3. Spec => [][Overlapped]_vars
    BY <1>2, BlindInvariant, PTL DEF Spec
<1> QED
    BY <1>3 DEF RedeemedOnlyByOverlap, Overlapped

\* What is redeemed was signed, and its row keeps a signature of its message.
THEOREM RedeemedIsSigned == Spec => []RedeemsSignedToken
<1>1. ASSUME BlindInv PROVE RedeemsSignedToken
    <2> SUFFICES ASSUME NEW s \in Sessions, redemptions[s] > 0
                 PROVE  /\ sessions[s].spent /\ sessions[s].blindSignature # NoValue
                        /\ VerifyFinal(sessions[s].message, sessions[s].finalSignature)
        BY DEF RedeemsSignedToken
    <2>1. sessions[s].spent
        BY <1>1 DEF BlindInv, SpentOnce
    <2> QED
        BY <1>1, <2>1 DEF BlindInv, SpentOnce
<1> QED
    BY <1>1, BlindInvariant, PTL

\* Whatever the message and the factor, the signature of a session verifies for its
\* message once the factor is taken off.
THEOREM UnblindingVerifies == Spec => []UnblindedVerifies
<1>1. ASSUME BlindInv PROVE UnblindedVerifies
    <2> SUFFICES ASSUME NEW s \in Sessions, sessions[s].blindSignature # NoValue
                 PROVE  VerifyFinal(sessions[s].message,
                                    Unblind(sessions[s].blindSignature, sessions[s].factor))
        BY DEF UnblindedVerifies
    <2> DEFINE m == sessions[s].message
               r == sessions[s].factor
    <2>1. sessions[s].status # "none"
        BY <1>1 DEF BlindInv, RowsAreSigned
    <2>2. /\ m \in Messages /\ r \in BlindingFactors
          /\ sessions[s].blindSignature = SignBlinded(BlindMessage(m, r))
        BY <1>1, <2>1 DEF BlindInv, RowsAreSigned
    <2>3. m \in 1..(N - 1)
        BY <2>2, ConstantsAssumption
    <2> QED
        BY <2>2, <2>3, UnblindingIsSigning
<1> QED
    BY <1>1, BlindInvariant, PTL
=============================================================================
