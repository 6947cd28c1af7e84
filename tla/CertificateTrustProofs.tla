----------------------- MODULE CertificateTrustProofs -----------------------
(***************************************************************************)
(* Proofs about CertificateTrust: for any packages, threads, validity      *)
(* period and number of revocations, verify_v2 decides by the time of the  *)
(* signature, the signed lists agree with it, and only a confirmation that *)
(* was under way takes a rejection back.                                   *)
(***************************************************************************)
EXTENDS CertificateTrust, TLAPS

----------------------------------------------------------------------------
(***************************************************************************)
(* The inductive invariant.                                                *)
(***************************************************************************)

\* The status column and the table of revocations are committed together.
StatusIsTable == status = "revoked" <=> revocations # <<>>

\* No revocation is dated in the future, one that is about to be stored included.
RevokedByNow ==
    /\ \A i \in DOMAIN revocations : revocations[i] <= now
    /\ \A w \in Workers : At(w, "revoke_write") => handlers[w].at <= now

\* A list that names the certificate gives the time of a revocation that is stored,
\* the one its history says it has read.
ListsRow(revokedAt, rows) ==
    revokedAt # NotListed => rows \in DOMAIN revocations /\ revokedAt = revocations[rows]

\* What is listed, in the list signed last and in those that are being made, and no
\* signed list is older than what it lists.
ListsAreRows ==
    /\ ListsRow(crl.revokedAt, crl.rows)
    /\ crl.revokedAt <= crl.thisUpdate
    /\ \A w \in Workers :
          /\ At(w, "crl_latest") => revocations # <<>>
          /\ At(w, "crl_sign") => ListsRow(handlers[w].revokedAt, handlers[w].rows)

TrustInv == StatusIsTable /\ RevokedByNow /\ ListsAreRows

----------------------------------------------------------------------------
(***************************************************************************)
(* Types.                                                                  *)
(***************************************************************************)

\* The fields of what a thread is doing, by its step.
LEMMA HandlerFields ==
    ASSUME TypeOK, NEW w \in Workers
    PROVE  /\ At(w, "revoke_write") => handlers[w].at \in Time
           /\ At(w, "confirm_write") => handlers[w].package \in Packages
           /\ At(w, "submit_stamp") => handlers[w].package \in Packages
           /\ At(w, "submit_write") => handlers[w].package \in Packages /\ handlers[w].at \in Time
           /\ At(w, "crl_sign") => /\ handlers[w].revokedAt \in Time \cup {NotListed}
                                   /\ handlers[w].rows \in Nat
<1>1. handlers[w] \in HandlerState
    BY DEF TypeOK
<1> QED
    BY <1>1 DEF HandlerState, Idle, At

\* What a thread goes on to.
LEMMA NextStates ==
    ASSUME NEW t \in Time, NEW p \in Packages, NEW r \in Time \cup {NotListed},
           NEW n \in Nat
    PROVE  /\ Idle \in HandlerState
           /\ [step |-> "revoke_write", at |-> t] \in HandlerState
           /\ [step |-> "confirm_write", package |-> p] \in HandlerState
           /\ [step |-> "submit_stamp", package |-> p] \in HandlerState
           /\ [step |-> "submit_write", package |-> p, at |-> t] \in HandlerState
           /\ [step |-> "crl_latest"] \in HandlerState
           /\ [step |-> "crl_sign", revokedAt |-> r, rows |-> n] \in HandlerState
BY DEF HandlerState

\* The latest revocation of a table that has one.
LEMMA Latest ==
    ASSUME TypeOK, revocations # <<>>
    PROVE  /\ Len(revocations) \in DOMAIN revocations
           /\ Len(revocations) \in Nat \ {0}
           /\ LatestRevocation \in Time
           /\ LatestRevocation \in RevokedAt
BY DEF TypeOK, LatestRevocation, RevokedAt

\* Every step keeps the types.
LEMMA TypeStep ==
    ASSUME TypeOK, TrustInv, [Next]_vars
    PROVE  TypeOK'
<1> USE DEF TypeOK, Goto
<1>1. CASE Tick
    BY <1>1, ConstantsAssumption DEF Tick, Time
<1>2. ASSUME NEW w \in Workers, HandlerFails(w) PROVE TypeOK'
    BY <1>2, NextStates DEF HandlerFails, HandlerState
<1>3. ASSUME NEW w \in Workers, RevokeRead(w) PROVE TypeOK'
    BY <1>3 DEF RevokeRead, HandlerState
<1>4. ASSUME NEW w \in Workers, RevokeWrite(w) PROVE TypeOK'
    <2>1. handlers[w].at \in Time
        BY <1>4, HandlerFields DEF RevokeWrite
    <2> QED
        BY <1>4, <2>1 DEF RevokeWrite, HandlerState
<1>5. ASSUME NEW w \in Workers, SubmitStamp(w) PROVE TypeOK'
    <2>1. handlers[w].package \in Packages
        BY <1>5, HandlerFields DEF SubmitStamp
    <2> QED
        BY <1>5, <2>1 DEF SubmitStamp, HandlerState
<1>6. ASSUME NEW w \in Workers, SubmitWrite(w) PROVE TypeOK'
    <2>1. handlers[w].package \in Packages /\ handlers[w].at \in Time
        BY <1>6, HandlerFields DEF SubmitWrite
    <2> QED
        BY <1>6, <2>1 DEF SubmitWrite, HandlerState
<1>7. ASSUME NEW w \in Workers, CrlRead(w) PROVE TypeOK'
    <2>1. CASE status = "revoked"
        BY <1>7, <2>1 DEF CrlRead, HandlerState
    <2>2. CASE status # "revoked"
        <3>1. [step |-> "crl_sign", revokedAt |-> NotListed, rows |-> 0] \in HandlerState
            BY DEF HandlerState
        <3> QED
            BY <1>7, <2>2, <3>1 DEF CrlRead
    <2> QED
        BY <2>1, <2>2
<1>8. ASSUME NEW w \in Workers, CrlLatest(w) PROVE TypeOK'
    <2>1. revocations # <<>>
        BY <1>8 DEF CrlLatest, TrustInv, ListsAreRows
    <2>2. [step |-> "crl_sign", revokedAt |-> LatestRevocation, rows |-> Len(revocations)]
             \in HandlerState
        BY <2>1, Latest DEF HandlerState
    <2> QED
        BY <1>8, <2>2 DEF CrlLatest
<1>9. ASSUME NEW w \in Workers, CrlSign(w) PROVE TypeOK'
    <2>1. handlers[w].revokedAt \in Time \cup {NotListed} /\ handlers[w].rows \in Nat
        BY <1>9, HandlerFields DEF CrlSign
    <2> QED
        BY <1>9, <2>1 DEF CrlSign, HandlerState, Crl
<1>10. ASSUME NEW w \in Workers, NEW p \in Packages, SubmitRead(w, p) PROVE TypeOK'
    BY <1>10 DEF SubmitRead, HandlerState
<1>11. ASSUME NEW p \in Packages, MarkExpired(p) PROVE TypeOK'
    BY <1>11 DEF MarkExpired
<1>12. ASSUME NEW w \in Workers, NEW p \in Packages, ConfirmRead(w, p) PROVE TypeOK'
    BY <1>12 DEF ConfirmRead, HandlerState
<1>13. ASSUME NEW w \in Workers, ConfirmWrite(w) PROVE TypeOK'
    BY <1>13, NextStates DEF ConfirmWrite, HandlerState
<1>14. CASE UNCHANGED vars
    BY <1>14 DEF vars
<1> QED
    BY <1>1, <1>2, <1>3, <1>4, <1>5, <1>6, <1>7, <1>8, <1>9, <1>10, <1>11, <1>12, <1>13,
       <1>14 DEF Next

----------------------------------------------------------------------------
(***************************************************************************)
(* The invariant is kept.                                                  *)
(***************************************************************************)

\* What the step of a thread makes of each thread.
LEMMA GotoMoves ==
    ASSUME TypeOK, NEW w \in Workers, NEW state, Goto(w, state)
    PROVE  handlers'[w] = state /\ \A x \in Workers \ {w} : handlers'[x] = handlers[x]
BY DEF Goto, TypeOK

\* A step stores at most one more revocation, dated when it was asked for, and time
\* does not go back.
LEMMA RevocationsGrow ==
    ASSUME TypeOK, [Next]_vars
    PROVE  /\ now \in Int /\ now' \in Int /\ now <= now'
           /\ \/ UNCHANGED <<status, revocations>>
              \/ \E w \in Workers : RevokeWrite(w)
<1>1. now \in Int /\ now' \in Int /\ now <= now'
    <2>1. CASE Tick
        BY <2>1 DEF Tick, TypeOK, Time
    <2>2. CASE now' = now
        BY <2>2 DEF TypeOK, Time
    <2> QED
        BY <2>1, <2>2 DEF Next, vars, HandlerFails, RevokeRead, RevokeWrite, ConfirmRead,
           ConfirmWrite, SubmitStamp, SubmitWrite, CrlRead, CrlLatest, CrlSign, SubmitRead,
           MarkExpired
<1>2. \/ UNCHANGED <<status, revocations>>
      \/ \E w \in Workers : RevokeWrite(w)
    BY DEF Next, vars, Tick, HandlerFails, RevokeRead, ConfirmRead, ConfirmWrite,
       SubmitStamp, SubmitWrite, CrlRead, CrlLatest, CrlSign, SubmitRead, MarkExpired
<1> QED
    BY <1>1, <1>2

\* A revocation that is added leaves the others where they are.
LEMMA RevokeAppends ==
    ASSUME TypeOK, NEW w \in Workers, RevokeWrite(w)
    PROVE  /\ revocations' # <<>>
           /\ Len(revocations') = Len(revocations) + 1
           /\ DOMAIN revocations \subseteq DOMAIN revocations'
           /\ \A i \in DOMAIN revocations : revocations'[i] = revocations[i]
           /\ \A i \in DOMAIN revocations' :
                 i \in DOMAIN revocations \/ revocations'[i] = handlers[w].at
BY HandlerFields DEF RevokeWrite, TypeOK

\* A row that a list has read stays where it is.
LEMMA ListsStayRows ==
    ASSUME TypeOK, [Next]_vars, NEW t, NEW n, ListsRow(t, n)
    PROVE  /\ ListsRow(t, n)'
           /\ revocations # <<>> => revocations' # <<>>
BY RevocationsGrow, RevokeAppends DEF ListsRow

\* The status and the table stay together.
LEMMA StatusStep ==
    ASSUME TypeOK, TrustInv, [Next]_vars
    PROVE  StatusIsTable'
<1>1. ASSUME NEW w \in Workers, RevokeWrite(w) PROVE StatusIsTable'
    <2>1. status' = "revoked"
        BY <1>1 DEF RevokeWrite
    <2> QED
        BY <1>1, <2>1, RevokeAppends DEF StatusIsTable
<1> QED
    BY <1>1, RevocationsGrow DEF TrustInv, StatusIsTable

\* What a step makes of a thread: it goes on as it was, is idle, or is what the step
\* has just read.
LEMMA Moves ==
    ASSUME TypeOK, [Next]_vars, NEW x \in Workers
    PROVE  \/ handlers'[x] = handlers[x]
           \/ handlers'[x].step \in {"idle", "confirm_write", "submit_stamp", "submit_write"}
           \/ RevokeRead(x) /\ handlers'[x] = [step |-> "revoke_write", at |-> now]
           \/ /\ CrlRead(x)
              /\ handlers'[x] = IF status = "revoked"
                                THEN [step |-> "crl_latest"]
                                ELSE [step |-> "crl_sign", revokedAt |-> NotListed, rows |-> 0]
           \/ /\ CrlLatest(x)
              /\ handlers'[x] = [step |-> "crl_sign", revokedAt |-> LatestRevocation,
                                 rows |-> Len(revocations)]
<1>1. CASE UNCHANGED handlers
    BY <1>1
<1>2. ASSUME NEW w \in Workers, NEW state, Goto(w, state), w # x
      PROVE  handlers'[x] = handlers[x]
    BY <1>2, GotoMoves
<1>3. ASSUME NEW state, Goto(x, state) PROVE handlers'[x] = state
    BY <1>3, GotoMoves
<1>4. ASSUME NEW w \in Workers, \/ HandlerFails(w) \/ RevokeWrite(w)
                             \/ ConfirmWrite(w) \/ SubmitWrite(w) \/ CrlSign(w)
      PROVE  handlers'[x] = handlers[x] \/ handlers'[x].step = "idle"
    BY <1>2, <1>3, <1>4 DEF HandlerFails, RevokeWrite, ConfirmWrite, SubmitWrite, CrlSign, Idle
<1>5. ASSUME NEW w \in Workers, SubmitStamp(w)
      PROVE  handlers'[x] = handlers[x] \/ handlers'[x].step = "submit_write"
    BY <1>2, <1>3, <1>5 DEF SubmitStamp
<1>6. ASSUME NEW w \in Workers, RevokeRead(w)
      PROVE  \/ handlers'[x] = handlers[x]
             \/ RevokeRead(x) /\ handlers'[x] = [step |-> "revoke_write", at |-> now]
    BY <1>2, <1>3, <1>6 DEF RevokeRead
<1>7. ASSUME NEW w \in Workers, CrlRead(w)
      PROVE  \/ handlers'[x] = handlers[x]
             \/ /\ CrlRead(x)
                /\ handlers'[x] = IF status = "revoked"
                                  THEN [step |-> "crl_latest"]
                                  ELSE [step |-> "crl_sign", revokedAt |-> NotListed, rows |-> 0]
    BY <1>2, <1>3, <1>7 DEF CrlRead
<1>8. ASSUME NEW w \in Workers, CrlLatest(w)
      PROVE  \/ handlers'[x] = handlers[x]
             \/ /\ CrlLatest(x)
                /\ handlers'[x] = [step |-> "crl_sign", revokedAt |-> LatestRevocation,
                                   rows |-> Len(revocations)]
    BY <1>2, <1>3, <1>8 DEF CrlLatest
<1>9. ASSUME NEW w \in Workers, NEW p \in Packages, SubmitRead(w, p)
      PROVE  handlers'[x] = handlers[x] \/ handlers'[x].step = "submit_stamp"
    BY <1>2, <1>3, <1>9 DEF SubmitRead
<1>10. ASSUME NEW w \in Workers, NEW p \in Packages, ConfirmRead(w, p)
      PROVE  handlers'[x] = handlers[x] \/ handlers'[x].step = "confirm_write"
    BY <1>2, <1>3, <1>10 DEF ConfirmRead
<1> QED
    BY <1>1, <1>4, <1>5, <1>6, <1>7, <1>8, <1>9, <1>10 DEF Next, vars, Tick, MarkExpired

\* Revocations stay in the past.
LEMMA RevokedByNowStep ==
    ASSUME TypeOK, TrustInv, [Next]_vars
    PROVE  RevokedByNow'
<1>1. ASSUME NEW i \in DOMAIN revocations' PROVE revocations'[i] <= now'
    <2>1. CASE UNCHANGED revocations
        <3>1. revocations'[i] \in Time /\ revocations'[i] <= now
            BY <1>1, <2>1 DEF TrustInv, RevokedByNow, TypeOK
        <3> QED
            BY <3>1, RevocationsGrow DEF Time
    <2>2. ASSUME NEW w \in Workers, RevokeWrite(w) PROVE revocations'[i] <= now'
        <3>1. now' = now /\ handlers[w].at <= now
            BY <2>2 DEF RevokeWrite, TrustInv, RevokedByNow
        <3>2. CASE i \in DOMAIN revocations
            BY <2>2, <3>1, <3>2, RevokeAppends DEF TrustInv, RevokedByNow
        <3>3. CASE i \notin DOMAIN revocations
            BY <1>1, <2>2, <3>1, <3>3, RevokeAppends
        <3> QED
            BY <3>2, <3>3
    <2> QED
        BY <2>1, <2>2, RevocationsGrow
<1>2. ASSUME NEW x \in Workers, At(x, "revoke_write")' PROVE handlers'[x].at <= now'
    <2>1. CASE handlers'[x] = handlers[x]
        <3>1. handlers[x].at \in Time /\ handlers[x].at <= now
            BY <1>2, <2>1, HandlerFields DEF At, TrustInv, RevokedByNow
        <3> QED
            BY <2>1, <3>1, RevocationsGrow DEF Time
    <2>2. CASE handlers'[x] = [step |-> "revoke_write", at |-> now]
        BY <2>2, RevocationsGrow
    <2> QED
        BY <1>2, <2>1, <2>2, Moves DEF At
<1> QED
    BY <1>1, <1>2 DEF RevokedByNow

\* Lists name rows.
LEMMA ListsStep ==
    ASSUME TypeOK, TrustInv, [Next]_vars
    PROVE  ListsAreRows'
<1>1. ASSUME NEW x \in Workers, At(x, "crl_latest")' PROVE revocations' # <<>>
    <2>1. revocations # <<>>
        <3>1. CASE handlers'[x] = handlers[x]
            BY <1>1, <3>1 DEF At, TrustInv, ListsAreRows
        <3>2. CASE status = "revoked"
            BY <3>2 DEF TrustInv, StatusIsTable
        <3> QED
            BY <1>1, <3>1, <3>2, Moves DEF At
    <2> QED
        BY <2>1, RevocationsGrow, RevokeAppends
<1>2. ASSUME NEW x \in Workers, At(x, "crl_sign")'
      PROVE  ListsRow(handlers[x].revokedAt, handlers[x].rows)'
    <2>1. ListsRow(handlers'[x].revokedAt, handlers'[x].rows)
        <3>1. CASE handlers'[x] = handlers[x]
            BY <1>2, <3>1 DEF At, TrustInv, ListsAreRows
        <3>2. CASE handlers'[x] = [step |-> "crl_sign", revokedAt |-> NotListed, rows |-> 0]
            BY <3>2 DEF ListsRow
        <3>3. CASE CrlLatest(x) /\ handlers'[x] = [step |-> "crl_sign",
                       revokedAt |-> LatestRevocation, rows |-> Len(revocations)]
            <4>1. revocations # <<>>
                BY <3>3 DEF CrlLatest, TrustInv, ListsAreRows
            <4> QED
                BY <3>3, <4>1, Latest DEF ListsRow, LatestRevocation
        <3> QED
            BY <1>2, <3>1, <3>2, <3>3, Moves DEF At
    <2> QED
        BY <2>1, ListsStayRows DEF ListsRow
<1>3. ListsRow(crl.revokedAt, crl.rows)' /\ crl'.revokedAt <= crl'.thisUpdate
    <2>1. CASE UNCHANGED crl
        BY <2>1, ListsStayRows DEF TrustInv, ListsAreRows, ListsRow
    <2>2. ASSUME NEW w \in Workers, CrlSign(w)
          PROVE  ListsRow(crl.revokedAt, crl.rows)' /\ crl'.revokedAt <= crl'.thisUpdate
        <3>1. ListsRow(handlers[w].revokedAt, handlers[w].rows) /\ revocations' = revocations
            BY <2>2 DEF CrlSign, TrustInv, ListsAreRows
        <3>2. /\ crl'.revokedAt = handlers[w].revokedAt
              /\ crl'.rows = handlers[w].rows
              /\ crl'.thisUpdate = now
            BY <2>2 DEF CrlSign
        <3>3. handlers[w].revokedAt <= now
            <4>1. CASE handlers[w].revokedAt = NotListed
                BY <4>1 DEF NotListed, TypeOK, Time
            <4>2. CASE handlers[w].revokedAt # NotListed
                BY <3>1, <4>2 DEF ListsRow, TrustInv, RevokedByNow
            <4> QED
                BY <4>1, <4>2
        <3> QED
            BY <3>1, <3>2, <3>3 DEF ListsRow
    <2> QED
        BY <2>1, <2>2 DEF Next, vars, Tick, HandlerFails, RevokeRead, RevokeWrite,
           ConfirmRead, ConfirmWrite, SubmitStamp, SubmitWrite, CrlRead, CrlLatest, SubmitRead, MarkExpired
<1> QED
    BY <1>1, <1>2, <1>3 DEF ListsAreRows

\* Types, the status and its table, and what lists name, in every reachable state.
THEOREM TrustInvariant == Spec => [](TypeOK /\ TrustInv)
<1>1. Init => TypeOK /\ TrustInv
    <2> SUFFICES ASSUME Init PROVE TypeOK /\ TrustInv
        OBVIOUS
    <2>1. TypeOK
        BY ConstantsAssumption DEF Init, TypeOK, Time, Crl, HandlerState
    <2>2. TrustInv
        BY ConstantsAssumption DEF Init, TrustInv, StatusIsTable, RevokedByNow, ListsAreRows,
           ListsRow, At, Idle, NotListed
    <2> QED
        BY <2>1, <2>2
<1>2. TypeOK /\ TrustInv /\ [Next]_vars => (TypeOK /\ TrustInv)'
    BY TypeStep, StatusStep, RevokedByNowStep, ListsStep DEF TrustInv
<1> QED
    BY <1>1, <1>2, PTL DEF Spec

\* Rows, packages, lists and threads hold values of their types, whatever handlers of
\* revoke_v2, submit_signature and certificate_crl overlap.
THEOREM TypeCorrect == Spec => []TypeOK
BY TrustInvariant, PTL

----------------------------------------------------------------------------
(***************************************************************************)
(* The decision of verify_v2.                                              *)
(***************************************************************************)

\* After its early checks, a package that nothing is wrong with is turned down exactly
\* when its certificate was revoked at its time.
LEMMA FlawlessVerdict ==
    ASSUME NEW p, ~Expired
    PROVE  /\ RevokedAtSigning(p, "issued") => Verdict(p, NoFlaw, "issued") = "certificate revoked"
           /\ ~RevokedAtSigning(p, "issued") => Verdict(p, NoFlaw, "issued") \in Decisions
BY DEF Verdict, NoFlaw, EarlyFlaws, RecordFlaws, LateFlaws, Decisions

\* A package whose certificate was revoked at its time is never decided for.
LEMMA RevokedVerdict ==
    ASSUME NEW p, NEW flaw, NEW token, RevokedAtSigning(p, token)
    PROVE  Verdict(p, flaw, token) \notin Decisions
BY DEF Verdict, EarlyFlaws, RecordFlaws, Decisions

\* The decision for a stored package: it was revoked at its signing exactly when the
\* latest revocation is not later than the token.
LEMMA RevokedByLatest ==
    ASSUME TypeOK, TrustInv, NEW p \in Packages, revocations # <<>>, NEW token
    PROVE  /\ token # "issued" => RevokedAtSigning(p, token)
           /\ token = "issued" => (RevokedAtSigning(p, token) <=> LatestRevocation <= stamps[p])
<1>1. status # "valid"
    BY DEF TrustInv, StatusIsTable
<1>2. LatestRevocation \in Int /\ stamps[p] \in Int
    BY Latest DEF TypeOK, Time, NotStored
<1> QED
    BY <1>1, <1>2 DEF RevokedAtSigning, SignedEarlier

\* A stored package presented with its token stays good, after any number of later
\* revocations: verify_v2 compares the token with the latest of them.
THEOREM EarlierSignatures == Spec => []EarlierSignatureStaysValid
<1>1. TypeOK /\ TrustInv => EarlierSignatureStaysValid
    <2> SUFFICES ASSUME TypeOK, TrustInv, NEW p \in Packages,
                        ~Expired, \A t \in RevokedAt : stamps[p] < t
                 PROVE  Verdict(p, NoFlaw, "issued") \in Decisions
        BY DEF EarlierSignatureStaysValid
    <2>1. CASE revocations = <<>>
        <3>1. status = "valid"
            BY <2>1 DEF TrustInv, StatusIsTable, TypeOK
        <3> QED
            BY <3>1, FlawlessVerdict DEF RevokedAtSigning
    <2>2. CASE revocations # <<>>
        <3>1. stamps[p] < LatestRevocation /\ LatestRevocation \in Int /\ stamps[p] \in Int
            BY <2>2, Latest DEF TypeOK, Time, NotStored
        <3>2. ~(LatestRevocation <= stamps[p])
            BY <3>1
        <3>3. ~RevokedAtSigning(p, "issued")
            BY <2>2, <3>2, RevokedByLatest
        <3> QED
            BY <3>3, FlawlessVerdict
    <2> QED
        BY <2>1, <2>2
<1> QED
    BY <1>1, TrustInvariant, PTL

\* After a committed revocation, only a token that verifies and that some revocation is
\* later than gets a package through.
THEOREM UnprovenTimes == Spec => []UnprovenTimeIsRevoked
<1>1. TypeOK /\ TrustInv => UnprovenTimeIsRevoked
    <2> SUFFICES ASSUME TypeOK, TrustInv, revocations # <<>>,
                        NEW p \in Packages, NEW flaw \in Flaws, NEW token \in Tokens(p),
                        token = "issued" => \A t \in RevokedAt : t <= stamps[p]
                 PROVE  Verdict(p, flaw, token) \notin Decisions
        BY DEF UnprovenTimeIsRevoked
    <2>1. RevokedAtSigning(p, token)
        BY RevokedByLatest, Latest
    <2> QED
        BY <2>1, RevokedVerdict
<1> QED
    BY <1>1, TrustInvariant, PTL

\* Whoever reads the signed list decides as verify_v2 does, until a further revocation
\* is committed: the list names the row that was the latest when it was read.
THEOREM CrlAgrees == Spec => []CrlAgreesWithVerification
<1>1. TypeOK /\ TrustInv => CrlAgreesWithVerification
    <2> SUFFICES ASSUME TypeOK, TrustInv, crl.revokedAt # NotListed
                 PROVE  /\ crl.revokedAt <= crl.thisUpdate
                        /\ (Len(revocations) = crl.rows /\ ~Expired) =>
                               \A p \in Packages : Stored(p) =>
                                   (Verdict(p, NoFlaw, "issued") = "certificate revoked"
                                        <=> crl.revokedAt <= stamps[p])
        BY DEF CrlAgreesWithVerification
    <2>1. crl.revokedAt <= crl.thisUpdate
        BY DEF TrustInv, ListsAreRows
    <2>2. ASSUME Len(revocations) = crl.rows, ~Expired, NEW p \in Packages
          PROVE  Verdict(p, NoFlaw, "issued") = "certificate revoked"
                     <=> crl.revokedAt <= stamps[p]
        <3>1. /\ crl.rows \in DOMAIN revocations
              /\ crl.revokedAt = revocations[crl.rows]
            BY DEF TrustInv, ListsAreRows, ListsRow
        <3>2. revocations # <<>> /\ crl.revokedAt = LatestRevocation
            BY <2>2, <3>1 DEF LatestRevocation, TypeOK
        <3>3. RevokedAtSigning(p, "issued") <=> LatestRevocation <= stamps[p]
            BY <3>2, RevokedByLatest
        <3>4. "certificate revoked" \notin Decisions
            BY DEF Decisions
        <3> QED
            BY <2>2, <3>2, <3>3, <3>4, FlawlessVerdict
    <2> QED
        BY <2>1, <2>2
<1> QED
    BY <1>1, TrustInvariant, PTL

----------------------------------------------------------------------------
(***************************************************************************)
(* Rejections stand.                                                       *)
(***************************************************************************)

\* A stored package keeps its token, and its request once it has expired, but for the
\* commit of a confirmation of it.
LEMMA StoredStays ==
    ASSUME TypeOK, [Next]_vars, NEW p \in Packages, Stored(p)
    PROVE  /\ stamps'[p] = stamps[p]
           /\ Stored(p)'
           /\ \/ requests'[p] \in {requests[p], "expired"}
              \/ \E w \in Workers : At(w, "confirm_write") /\ handlers[w].package = p
<1> DEFINE Confirming == \E w \in Workers : At(w, "confirm_write") /\ handlers[w].package = p
<1>1. ASSUME NEW w \in Workers, SubmitWrite(w)
      PROVE  stamps'[p] = stamps[p] /\ requests'[p] = requests[p]
    <2>1. handlers[w].package # p
        BY <1>1 DEF SubmitWrite, Stored
    <2> QED
        BY <1>1, <2>1 DEF SubmitWrite, TypeOK
<1>2. ASSUME NEW q \in Packages, MarkExpired(q)
      PROVE  stamps'[p] = stamps[p] /\ requests'[p] \in {requests[p], "expired"}
    BY <1>2 DEF MarkExpired, TypeOK
<1>3. ASSUME NEW w \in Workers, ConfirmWrite(w)
      PROVE  stamps'[p] = stamps[p] /\ (requests'[p] = requests[p] \/ Confirming)
    <2>1. At(w, "confirm_write") /\ UNCHANGED stamps
        BY <1>3 DEF ConfirmWrite
    <2>2. CASE handlers[w].package = p
        BY <2>1, <2>2
    <2>3. CASE handlers[w].package # p
        BY <1>3, <2>3 DEF ConfirmWrite, TypeOK
    <2> QED
        BY <2>1, <2>2, <2>3
<1> HIDE DEF Confirming
<1>4. stamps'[p] = stamps[p] /\ (requests'[p] \in {requests[p], "expired"} \/ Confirming)
    BY <1>1, <1>2, <1>3 DEF Next, vars, Tick, HandlerFails, RevokeRead, RevokeWrite,
       ConfirmRead, SubmitStamp, CrlRead, CrlLatest, CrlSign, SubmitRead
<1> QED
    BY <1>4 DEF Stored, Confirming

\* What gets a package past the checks, and what the server's records add to that.
LEMMA Decided ==
    ASSUME NEW p, NEW flaw \in Flaws, NEW token
    PROVE  /\ Verdict(p, flaw, token) \in Decisions <=>
                  /\ flaw = NoFlaw
                  /\ ~Expired
                  /\ ~RevokedAtSigning(p, token)
                  /\ token # "foreign"
           /\ Verdict(p, flaw, token) \in Decisions =>
                  (Verdict(p, flaw, token) = "valid" <=> ServerAccepted(p))
BY DEF Verdict, Decisions, Flaws, NoFlaw, EarlyFlaws, RecordFlaws, LateFlaws

\* The same after a step.
LEMMA DecidedNext ==
    ASSUME NEW p, NEW flaw \in Flaws, NEW token
    PROVE  /\ Verdict(p, flaw, token)' \in Decisions <=>
                  /\ flaw = NoFlaw
                  /\ ~Expired'
                  /\ ~RevokedAtSigning(p, token)'
                  /\ token # "foreign"
           /\ Verdict(p, flaw, token)' \in Decisions =>
                  (Verdict(p, flaw, token)' = "valid" <=> ServerAccepted(p)')
BY DEF Verdict, Decisions, Flaws, NoFlaw, EarlyFlaws, RecordFlaws, LateFlaws

\* As long as one revocation at most is committed, each check that turns a stored
\* package down goes on doing so.
LEMMA ChecksStay ==
    ASSUME TypeOK, TrustInv, [Next]_vars, NEW p \in Packages, NEW token \in Tokens(p),
           Stored(p), Len(revocations') <= 1
    PROVE  /\ Expired => Expired'
           /\ RevokedAtSigning(p, token) => RevokedAtSigning(p, token)'
<1>1. Expired => Expired'
    BY RevocationsGrow, ConstantsAssumption DEF Expired
<1>2. RevokedAtSigning(p, token) => RevokedAtSigning(p, token)'
    <2>1. CASE UNCHANGED <<status, revocations>>
        BY <2>1, StoredStays DEF RevokedAtSigning, SignedEarlier, LatestRevocation
    <2>2. ASSUME NEW w \in Workers, RevokeWrite(w), RevokedAtSigning(p, token)
          PROVE  FALSE
        <3>1. revocations # <<>>
            BY <2>2 DEF RevokedAtSigning, TrustInv, StatusIsTable, TypeOK
        <3> QED
            BY <2>2, <3>1, Latest, RevokeAppends
    <2> QED
        BY <2>1, <2>2, RevocationsGrow
<1> QED
    BY <1>1, <1>2

\* As long as one revocation at most is committed, no later revocation, submission, tick,
\* confirmation or expiry gets a package past the check that turned it down, and none but
\* the commit of a confirmation that had read its request before takes back that its
\* request has expired.
THEOREM RejectionsStay == Spec => RejectionStands
<1> DEFINE Stands ==
               \A p \in Packages, flaw \in Flaws : \A token \in Tokens(p) :
                   (Stored(p) /\ Len(revocations') <= 1) =>
                       /\ Verdict(p, flaw, token) \notin Decisions =>
                              Verdict(p, flaw, token)' \notin Decisions
                       /\ (Verdict(p, flaw, token) \in Decisions \ {"valid"}
                              /\ Verdict(p, flaw, token)' = "valid") =>
                              \E w \in Workers :
                                  At(w, "confirm_write") /\ handlers[w].package = p
<1>1. TypeOK /\ TrustInv /\ TypeOK' /\ [Next]_vars => Stands
    <2> SUFFICES ASSUME TypeOK, TrustInv, TypeOK', [Next]_vars,
                        NEW p \in Packages, NEW flaw \in Flaws, NEW token \in Tokens(p),
                        Stored(p), Len(revocations') <= 1
                 PROVE  /\ Verdict(p, flaw, token) \notin Decisions =>
                               Verdict(p, flaw, token)' \notin Decisions
                        /\ (Verdict(p, flaw, token) \in Decisions \ {"valid"}
                               /\ Verdict(p, flaw, token)' = "valid") =>
                               \E w \in Workers :
                                   At(w, "confirm_write") /\ handlers[w].package = p
        OBVIOUS
    <2>1. Verdict(p, flaw, token) \notin Decisions => Verdict(p, flaw, token)' \notin Decisions
        BY ChecksStay, Decided, DecidedNext
    <2>2. ASSUME Verdict(p, flaw, token) \in Decisions \ {"valid"},
                 Verdict(p, flaw, token)' = "valid"
          PROVE  \E w \in Workers : At(w, "confirm_write") /\ handlers[w].package = p
        <3>1. ~ServerAccepted(p)
            BY <2>2, Decided
        <3>2. ServerAccepted(p)'
            BY <2>2, DecidedNext DEF Decisions
        <3>3. requests[p] \notin {"mfa_confirmed", "signed"}
            BY <3>1 DEF ServerAccepted
        <3>4. requests'[p] \in {"mfa_confirmed", "signed"}
            BY <3>2 DEF ServerAccepted
        <3> QED
            BY <3>3, <3>4, StoredStays
    <2> QED
        BY <2>1, <2>2
<1> HIDE DEF Stands
<1>2. TypeOK /\ TrustInv /\ TypeOK' /\ [Next]_vars => [Stands]_vars
    BY <1>1
<1>3. Spec => [][Stands]_vars
    BY <1>2, TrustInvariant, PTL DEF Spec
<1> QED
    BY <1>3 DEF RejectionStands, Stands
=============================================================================
