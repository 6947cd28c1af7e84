--------------------------- MODULE AccountsProofs ---------------------------
(***************************************************************************)
(* Proofs about Accounts: for any accounts, threads, seeds and bounds, a   *)
(* login code gives at most one access token per thread, a code that was   *)
(* replaced gives none, and a row of users only changes to what was asked. *)
(* The last section is about TotpSetup: for any threads and bounds, and    *)
(* whether the key is kept or not, what is enabled stays enabled.          *)
(***************************************************************************)
EXTENDS Accounts, FiniteSetTheorems, TLAPS

----------------------------------------------------------------------------
(***************************************************************************)
(* The inductive invariant.                                                *)
(***************************************************************************)

\* The code a call works with is not older than the one that was the latest when the
\* call began: verify_email_otp reads the latest, whatever was added in between.
ReadsLatest ==
    \A w \in Workers :
        /\ At(w, "verify_read") => handlers[w].newest <= Len(otps[handlers[w].account])
        /\ At(w, "verify_write") =>
              /\ handlers[w].otp \in DOMAIN otps[handlers[w].account]
              /\ handlers[w].newest <= handlers[w].otp

\* The threads that are about to issue an access token for a code.
Issuers(a, k) ==
    {w \in Workers : /\ At(w, "verify_write")
                     /\ handlers[w].account = a /\ handlers[w].otp = k
                     /\ handlers[w].ok /\ handlers[w].login}

\* A code that is not used up has given no access token: whoever passes it later is
\* one of the threads that read it before the first of them committed.
TokensPerCode ==
    \A a \in Accounts : \A k \in DOMAIN otps[a] :
        /\ ~otps[a][k].used => otps[a][k].logins = 0
        /\ otps[a][k].logins + Cardinality(Issuers(a, k)) <= Cardinality(Workers)

\* A change of a user assigns what was asked for, and no column besides.
AssignsAsked ==
    \A w \in Workers : At(w, "user_insert") \/ At(w, "user_update") =>
        \A c \in {"role", "status"} :
            handlers[w].assigned[c] \in {Keep, handlers[w].asked[c]}

\* A seeded account has its row, so that a restart has none to insert.
SeedsThere == \A a \in DOMAIN Seeds : users[a].status # "none"

AccountsInv == ReadsLatest /\ TokensPerCode /\ AssignsAsked /\ SeedsThere
----------------------------------------------------------------------------
(***************************************************************************)
(* Types.                                                                  *)
(***************************************************************************)

\* What a thread has at each step.
LEMMA Fields ==
    ASSUME TypeOK, NEW w \in Workers
    PROVE  /\ handlers[w].step \in {"idle", "admitted", "otp_write", "verify_read",
                                    "verify_write", "user_insert", "user_update"}
           /\ handlers[w].step # "idle" => handlers[w].account \in Accounts
           /\ handlers[w].step \in {"verify_read", "verify_write"} =>
                 handlers[w].login \in BOOLEAN /\ handlers[w].newest \in Nat
           /\ handlers[w].step = "verify_write" =>
                 /\ handlers[w].otp \in Nat \ {0} /\ handlers[w].ok \in BOOLEAN
                 /\ handlers[w].attempts \in 1..MaxAttempts
           /\ handlers[w].step \in {"user_insert", "user_update"} =>
                 handlers[w].asked \in Change /\ handlers[w].assigned \in Change
<1>1. handlers[w] \in HandlerState
    BY DEF TypeOK
<1> QED
    BY <1>1 DEF HandlerState, Idle

\* The number of threads is a bound for their sets.
LEMMA Threads ==
    ASSUME NEW W \in SUBSET Workers
    PROVE  /\ Cardinality(Workers) \in Nat /\ IsFiniteSet(W)
           /\ Cardinality(W) \in Nat /\ Cardinality(W) <= Cardinality(Workers)
BY ConstantsAssumption, FS_Subset, FS_CardinalityType

\* A step that only moves one thread keeps the types.
LEMMA MoveTypes ==
    ASSUME TypeOK, NEW w \in Workers, NEW state \in HandlerState, Goto(w, state), UNCHANGED tables
    PROVE  TypeOK'
BY DEF TypeOK, Goto, tables

\* What the steps that write no table move their thread to.
LEMMA MovesTyped ==
    ASSUME TypeOK, NEW w \in Workers
    PROVE  /\ Idle \in HandlerState
           /\ \A a \in Accounts :
                 /\ Active(a) => [step |-> "admitted", account |-> a, role |-> users[a].role]
                                     \in HandlerState
                 /\ [step |-> "otp_write", account |-> a] \in HandlerState
                 /\ \A login \in BOOLEAN :
                       [step |-> "verify_read", account |-> a, login |-> login,
                        newest |-> Len(otps[a])] \in HandlerState
                 /\ \A asked \in Change, assigned \in Change : \A step \in {"user_insert", "user_update"} :
                       [step |-> step, account |-> a, asked |-> asked, assigned |-> assigned]
                           \in HandlerState
<1>1. ASSUME NEW a \in Accounts PROVE users[a].role \in Roles /\ Len(otps[a]) \in Nat
    <2>1. users[a] \in User /\ otps[a] \in Seq(Otp)
        BY DEF TypeOK
    <2> QED
        BY <2>1 DEF User
<1> QED
    BY <1>1 DEF HandlerState

\* The OTP that is read, when it can be verified.
LEMMA LatestIsOtp ==
    ASSUME TypeOK, NEW a \in Accounts, Verifiable(a)
    PROVE  /\ LatestOtp(a) \in DOMAIN otps[a] /\ LatestOtp(a) \in Nat \ {0}
           /\ otps[a][LatestOtp(a)].attempts + 1 \in 1..MaxAttempts
<1>1. otps[a] \in Seq(Otp)
    BY DEF TypeOK
<1>2. LatestOtp(a) \in DOMAIN otps[a] /\ LatestOtp(a) \in Nat \ {0}
    BY <1>1 DEF Verifiable, LatestOtp
<1>3. otps[a][LatestOtp(a)] \in Otp
    BY <1>1, <1>2
<1>4. /\ otps[a][LatestOtp(a)].attempts \in 0..MaxAttempts
      /\ otps[a][LatestOtp(a)].attempts < MaxAttempts
    BY <1>3 DEF Otp, Verifiable
<1> QED
    BY <1>2, <1>4, ConstantsAssumption

\* Verifying spends an attempt, and the code when it is right.
LEMMA SpendTyped ==
    ASSUME NEW otp \in Otp, NEW h, h.ok \in BOOLEAN, h.login \in BOOLEAN,
           h.attempts \in 1..MaxAttempts
    PROVE  /\ SpendOtp(otp, h) \in Otp
           /\ h.ok => SpendOtp(otp, h).used
           /\ ~(h.ok /\ h.login) => SpendOtp(otp, h).logins = otp.logins
           /\ ~h.ok => SpendOtp(otp, h).used = otp.used
           /\ SpendOtp(otp, h).logins <= otp.logins + 1
<1> DEFINE issued == h.ok /\ h.login
           logins == IF issued /\ otp.logins <= Cardinality(Workers)
                     THEN otp.logins + 1 ELSE otp.logins
           used == otp.used \/ h.ok
<1>1. Cardinality(Workers) \in Nat
    BY Threads
<1>2. otp.used \in BOOLEAN /\ otp.attempts \in 0..MaxAttempts /\ otp.logins \in 0..(Cardinality(Workers) + 1)
    BY DEF Otp
<1>3. /\ logins \in 0..(Cardinality(Workers) + 1) /\ logins <= otp.logins + 1
      /\ ~issued => logins = otp.logins
    BY <1>1, <1>2
<1>4. used \in BOOLEAN /\ (h.ok => used = TRUE) /\ (~h.ok => used = otp.used)
    BY <1>2, Zenon
<1>5. SpendOtp(otp, h) = [used |-> used, attempts |-> h.attempts, logins |-> logins]
    <2>1. SpendOtp(otp, h) = [otp EXCEPT !.attempts = h.attempts, !.used = used, !.logins = logins]
        BY Zenon DEF SpendOtp
    <2> HIDE DEF logins, used
    <2> QED
        BY <2>1 DEF Otp
<1> HIDE DEF logins, used
<1>6. h.attempts \in 0..MaxAttempts
    BY ConstantsAssumption
<1>7. SpendOtp(otp, h) \in Otp
    BY <1>3, <1>4, <1>5, <1>6 DEF Otp
<1>8. SpendOtp(otp, h).logins = logins /\ SpendOtp(otp, h).used = used
    BY <1>5
<1> QED
    BY <1>3, <1>4, <1>7, <1>8

\* A user after a change of what is asked for is a user.
LEMMA ApplyTyped ==
    ASSUME NEW user \in User, NEW assigned \in Change
    PROVE  /\ ApplyTo(user, assigned) \in User
           /\ user.status # "none" => ApplyTo(user, assigned).status # "none"
           /\ \A c \in {"role", "status"} :
                 ApplyTo(user, assigned)[c] # user[c] => ApplyTo(user, assigned)[c] = assigned[c]
<1>1. assigned.status \in {"active", "disabled", Keep} /\ (assigned.role # Keep => assigned.role \in Roles)
    BY DEF Change
<1>2. /\ assigned["status"] = assigned.status /\ assigned["role"] = assigned.role
      /\ user["status"] = user.status /\ user["role"] = user.role
    BY DEF User, Change
<1>3. user.status \in {"none", "active", "disabled"} /\ user.role \in Roles
    BY DEF User
<1> DEFINE new == ApplyTo(user, assigned)
<1>4. /\ new.role = IF assigned.role = Keep THEN user.role ELSE assigned.role
      /\ new.status = IF assigned.status = Keep THEN user.status ELSE assigned.status
      /\ new["role"] = new.role /\ new["status"] = new.status
    BY <1>2 DEF ApplyTo
<1>5. new = [role |-> new.role, status |-> new.status]
    BY DEF ApplyTo
<1> HIDE DEF new
<1>6. new.role \in Roles /\ new.status \in {"none", "active", "disabled"}
    BY <1>1, <1>3, <1>4
<1>7. new \in User
    BY <1>5, <1>6 DEF User
<1>8. user.status # "none" => new.status # "none"
    BY <1>1, <1>4 DEF Keep
<1>9. \A c \in {"role", "status"} : new[c] # user[c] => new[c] = assigned[c]
    BY <1>2, <1>4
<1> QED
    BY <1>7, <1>8, <1>9 DEF new

\* What an update assigns is a change, of what was asked for.
LEMMA AssignedTyped ==
    ASSUME NEW user \in User, NEW asked \in Change
    PROVE  /\ Assigned(user, asked) \in Change
           /\ \A c \in {"role", "status"} : Assigned(user, asked)[c] \in {Keep, asked[c]}
<1>1. /\ asked["status"] = asked.status /\ asked["role"] = asked.role
      /\ asked.role \in Roles \cup {Keep} /\ asked.status \in {"active", "disabled", Keep}
    BY DEF Change
<1>2. \A c \in {"role", "status"} : Assigned(user, asked)[c] \in {Keep, asked[c]}
    BY DEF Assigned
<1> DEFINE new == Assigned(user, asked)
<1>3. new = [role |-> new["role"], status |-> new["status"]]
    BY DEF Assigned
<1> HIDE DEF new
<1>4. new["role"] \in Roles \cup {Keep} /\ new["status"] \in {"active", "disabled", Keep}
    BY <1>1, <1>2 DEF new
<1>5. new \in Change
    BY <1>3, <1>4 DEF Change
<1> QED
    BY <1>2, <1>5 DEF new

\* The asked-for changes.
LEMMA AsksTyped ==
    /\ Asks \subseteq Change
    /\ \A status \in {"active", "disabled"} : [role |-> Keep, status |-> status] \in Change
BY ConstantsAssumption DEF Change, Keep

\* The row of a seeded account after a restart.
LEMMA SeededTyped ==
    ASSUME NEW user \in User, NEW a \in Accounts
    PROVE  /\ Seeded(user, a) \in User
           /\ user.status # "none" => Seeded(user, a).status # "none"
           /\ Seeded(user, a) # user => a \in DOMAIN Seeds /\ (user.status = "none" \/ SyncSeededUsers)
BY ConstantsAssumption DEF Seeded, User
----------------------------------------------------------------------------
(***************************************************************************)
(* The invariant is kept.                                                  *)
(***************************************************************************)

\* What a step leaves to the other threads.
LEMMA GotoStep ==
    ASSUME TypeOK, NEW w \in Workers, NEW state, Goto(w, state)
    PROVE  handlers'[w] = state /\ \A v \in Workers : v # w => handlers'[v] = handlers[v]
BY DEF TypeOK, Goto

\* The counts of tokens: rows and threads.
LEMMA Counts ==
    ASSUME TypeOK, NEW a \in Accounts, NEW k
    PROVE  /\ Cardinality(Workers) \in Nat /\ Cardinality(Issuers(a, k)) \in Nat
           /\ IsFiniteSet(Issuers(a, k)) /\ Cardinality(Issuers(a, k)) <= Cardinality(Workers)
           /\ k \in DOMAIN otps[a] => otps[a][k] \in Otp /\ otps[a][k].logins \in Nat
<1>1. Issuers(a, k) \subseteq Workers
    BY DEF Issuers
<1>2. Cardinality(Workers) \in Nat
    BY Threads
<1>3. ASSUME k \in DOMAIN otps[a] PROVE otps[a][k] \in Otp /\ otps[a][k].logins \in Nat
    <2>1. otps[a] \in Seq(Otp)
        BY DEF TypeOK
    <2>2. otps[a][k] \in Otp
        BY <1>3, <2>1
    <2> QED
        BY <1>2, <2>2 DEF Otp
<1> QED
    BY <1>1, <1>2, <1>3, Threads

\* Threads that stop only make room.
LEMMA FewerIssuers ==
    ASSUME NEW a, NEW k, Issuers(a, k)' \subseteq Issuers(a, k)
    PROVE  Cardinality(Issuers(a, k)') \in Nat
           /\ Cardinality(Issuers(a, k)') <= Cardinality(Issuers(a, k))
<1>1. IsFiniteSet(Issuers(a, k))
    BY Threads DEF Issuers
<1> QED
    BY <1>1, FS_Subset, FS_CardinalityType

\* A thread that moves and writes nothing: its new state says what the invariant says of it.
LEMMA MoveInv ==
    ASSUME TypeOK, AccountsInv, NEW w \in Workers, NEW state \in HandlerState, Goto(w, state),
           UNCHANGED tables,
           state.step = "verify_read" => state.newest <= Len(otps[state.account]),
           state.step = "verify_write" =>
               /\ state.otp \in DOMAIN otps[state.account] /\ state.newest <= state.otp
               /\ ~otps[state.account][state.otp].used,
           state.step \in {"user_insert", "user_update"} =>
               \A c \in {"role", "status"} : state.assigned[c] \in {Keep, state.asked[c]}
    PROVE  TypeOK' /\ AccountsInv'
<1>1. handlers'[w] = state /\ \A v \in Workers : v # w => handlers'[v] = handlers[v]
    BY GotoStep
<1>2. UNCHANGED <<users, otps, sessions>>
    BY DEF tables
<1>3. ReadsLatest'
    BY <1>1, <1>2 DEF AccountsInv, ReadsLatest, At
<1>4. TokensPerCode'
    <2> SUFFICES ASSUME NEW a \in Accounts, NEW k \in DOMAIN otps[a]
                 PROVE  otps[a][k].logins + Cardinality(Issuers(a, k)') <= Cardinality(Workers)
        BY <1>2 DEF AccountsInv, TokensPerCode
    <2>1. /\ ~otps[a][k].used => otps[a][k].logins = 0
          /\ otps[a][k].logins + Cardinality(Issuers(a, k)) <= Cardinality(Workers)
        BY DEF AccountsInv, TokensPerCode
    <2>2. CASE w \notin Issuers(a, k)'
        <3>1. Issuers(a, k)' \subseteq Issuers(a, k)
            BY <1>1, <2>2 DEF Issuers, At
        <3> QED
            BY <2>1, <3>1, Counts, FewerIssuers
    <2>3. CASE w \in Issuers(a, k)'
        <3>1. state.step = "verify_write" /\ state.account = a /\ state.otp = k
            BY <1>1, <2>3 DEF Issuers, At
        <3>2. otps[a][k].logins = 0
            BY <2>1, <3>1
        <3>3. /\ Cardinality(Issuers(a, k)') \in Nat
              /\ Cardinality(Issuers(a, k)') <= Cardinality(Workers)
            BY Threads DEF Issuers
        <3> QED
            BY <3>2, <3>3
    <2> QED
        BY <2>2, <2>3
<1>5. AssignsAsked'
    BY <1>1 DEF AccountsInv, AssignsAsked, At
<1>6. SeedsThere'
    BY <1>2 DEF AccountsInv, SeedsThere
<1> QED
    BY <1>3, <1>4, <1>5, <1>6, MoveTypes DEF AccountsInv

\* A step that leaves the OTPs and at most stops threads.
LEMMA StopInv ==
    ASSUME TypeOK, AccountsInv, otps' = otps,
           \A w \in Workers : handlers'[w] = Idle \/ handlers'[w] = handlers[w],
           SeedsThere'
    PROVE  AccountsInv'
<1>1. \A w \in Workers : At(w, "idle")' \/ handlers'[w] = handlers[w]
    BY DEF At, Idle
<1>2. ReadsLatest'
    BY <1>1 DEF AccountsInv, ReadsLatest, At
<1>3. TokensPerCode'
    <2> SUFFICES ASSUME NEW a \in Accounts, NEW k \in DOMAIN otps[a]
                 PROVE  otps[a][k].logins + Cardinality(Issuers(a, k)') <= Cardinality(Workers)
        BY DEF AccountsInv, TokensPerCode
    <2>1. otps[a][k].logins + Cardinality(Issuers(a, k)) <= Cardinality(Workers)
        BY DEF AccountsInv, TokensPerCode
    <2>2. Issuers(a, k)' \subseteq Issuers(a, k)
        BY <1>1 DEF Issuers, At
    <2> QED
        BY <2>1, <2>2, Counts, FewerIssuers
<1>4. AssignsAsked'
    BY <1>1 DEF AccountsInv, AssignsAsked, At
<1> QED
    BY <1>2, <1>3, <1>4 DEF AccountsInv

\* A new code has given no token.
LEMMA OtpWriteInv ==
    ASSUME TypeOK, AccountsInv, NEW w \in Workers, OtpWrite(w)
    PROVE  TypeOK' /\ AccountsInv'
<1> DEFINE a == handlers[w].account
           new == [used |-> FALSE, attempts |-> 0, logins |-> 0]
<1>1. a \in Accounts /\ UNCHANGED <<users, sessions>> /\ Goto(w, Idle)
    BY Fields DEF OtpWrite, At
<1>2. new \in Otp
    BY ConstantsAssumption, Threads DEF Otp
<1>3. \A b \in Accounts : otps[b] \in Seq(Otp)
    BY DEF TypeOK
<1>4. otps' = [otps EXCEPT ![a] = Append(@, new)]
    BY DEF OtpWrite
<1>5. handlers'[w] = Idle /\ \A v \in Workers : v # w => handlers'[v] = handlers[v]
    BY <1>1, GotoStep
<1> HIDE DEF a, new
<1>6. TypeOK'
    <2>1. otps' \in [Accounts -> Seq(Otp)]
        BY <1>1, <1>2, <1>3, <1>4 DEF TypeOK
    <2>2. handlers' \in [Workers -> HandlerState]
        BY <1>1, MovesTyped DEF TypeOK, Goto
    <2> QED
        BY <1>1, <2>1, <2>2 DEF TypeOK
<1>7. ASSUME NEW b \in Accounts
      PROVE  /\ Len(otps[b]) <= Len(otps'[b]) /\ Len(otps[b]) \in Nat /\ Len(otps'[b]) \in Nat
             /\ DOMAIN otps[b] \subseteq DOMAIN otps'[b]
             /\ \A k \in DOMAIN otps'[b] : otps'[b][k] = IF k \in DOMAIN otps[b] THEN otps[b][k] ELSE new
    BY <1>1, <1>2, <1>3, <1>4 DEF TypeOK
<1>8. ReadsLatest'
    <2> SUFFICES ASSUME NEW v \in Workers, v # w
                 PROVE  /\ At(v, "verify_read") =>
                              handlers[v].newest <= Len(otps'[handlers[v].account])
                        /\ At(v, "verify_write") =>
                              /\ handlers[v].otp \in DOMAIN otps'[handlers[v].account]
                              /\ handlers[v].newest <= handlers[v].otp
        BY <1>5 DEF ReadsLatest, At, Idle
    <2>1. CASE At(v, "verify_read")
        <3>1. /\ handlers[v].account \in Accounts /\ handlers[v].newest \in Nat
              /\ handlers[v].newest <= Len(otps[handlers[v].account])
            BY <2>1, Fields DEF AccountsInv, ReadsLatest, At
        <3> QED
            BY <1>7, <2>1, <3>1 DEF At
    <2>2. CASE At(v, "verify_write")
        <3>1. /\ handlers[v].account \in Accounts
              /\ handlers[v].otp \in DOMAIN otps[handlers[v].account]
              /\ handlers[v].newest <= handlers[v].otp
            BY <2>2, Fields DEF AccountsInv, ReadsLatest, At
        <3> QED
            BY <1>7, <2>2, <3>1 DEF At
    <2> QED
        BY <2>1, <2>2
<1>9. TokensPerCode'
    <2> SUFFICES ASSUME NEW b \in Accounts, NEW k \in DOMAIN otps'[b]
                 PROVE  /\ ~otps'[b][k].used => otps'[b][k].logins = 0
                        /\ otps'[b][k].logins + Cardinality(Issuers(b, k)') <= Cardinality(Workers)
        BY DEF TokensPerCode
    <2>1. Issuers(b, k)' \subseteq Issuers(b, k)
        BY <1>5 DEF Issuers, At, Idle
    <2>2. CASE k \in DOMAIN otps[b]
        <3>1. /\ ~otps[b][k].used => otps[b][k].logins = 0
              /\ otps[b][k].logins + Cardinality(Issuers(b, k)) <= Cardinality(Workers)
            BY <2>2 DEF AccountsInv, TokensPerCode
        <3>2. otps'[b][k] = otps[b][k]
            BY <1>7, <2>2
        <3> QED
            BY <2>1, <2>2, <3>1, <3>2, Counts, FewerIssuers
    <2>3. CASE k \notin DOMAIN otps[b]
        <3>1. otps'[b][k].logins = 0
            BY <1>7, <2>3 DEF new
        <3> QED
            BY <2>1, <3>1, Counts, FewerIssuers
    <2> QED
        BY <2>2, <2>3
<1>10. AssignsAsked'
    BY <1>5 DEF AccountsInv, AssignsAsked, At, Idle
<1>11. SeedsThere'
    BY <1>1 DEF AccountsInv, SeedsThere
<1> QED
    BY <1>6, <1>8, <1>9, <1>10, <1>11 DEF AccountsInv
\* The commit of a verification: a right code is used up, and its thread issues no more.
LEMMA VerifyWriteInv ==
    ASSUME TypeOK, AccountsInv, NEW w \in Workers, VerifyWrite(w)
    PROVE  TypeOK' /\ AccountsInv'
<1> DEFINE h == handlers[w]
           a == h.account
           k == h.otp
           new == SpendOtp(otps[a][k], h)
<1>1. /\ a \in Accounts /\ h.login \in BOOLEAN /\ h.ok \in BOOLEAN /\ h.attempts \in 1..MaxAttempts
      /\ h.step = "verify_write" /\ k \in DOMAIN otps[a]
    BY Fields DEF VerifyWrite, At, AccountsInv, ReadsLatest
<1>2. users' = users /\ Goto(w, Idle)
    BY DEF VerifyWrite
<1>3. handlers'[w] = Idle /\ \A v \in Workers : v # w => handlers'[v] = handlers[v]
    BY <1>2, GotoStep
<1>4. otps[a][k] \in Otp /\ otps[a][k].logins \in Nat
    BY <1>1, Counts
<1>5. /\ new \in Otp
      /\ h.ok => new.used
      /\ ~(h.ok /\ h.login) => new.logins = otps[a][k].logins
      /\ ~h.ok => new.used = otps[a][k].used
      /\ new.logins <= otps[a][k].logins + 1
    BY <1>1, <1>4, SpendTyped
<1>6. otps' = [otps EXCEPT ![a] = [@ EXCEPT ![k] = new]]
    BY DEF VerifyWrite
<1>7. sessions' = sessions \/ sessions' = sessions \cup {a}
    BY DEF VerifyWrite
<1>8. At(w, "verify_write")
    BY <1>1 DEF At
<1>9. w \in Issuers(a, k) <=> h.ok /\ h.login
    BY <1>8, Zenon DEF Issuers
<1>10. \A b \in Accounts : otps[b] \in Seq(Otp)
    BY DEF TypeOK
<1> HIDE DEF a, k, new, h
<1>11. ASSUME NEW b \in Accounts
       PROVE  /\ Len(otps'[b]) = Len(otps[b]) /\ DOMAIN otps'[b] = DOMAIN otps[b]
              /\ otps'[b] \in Seq(Otp)
              /\ \A j \in DOMAIN otps[b] :
                    otps'[b][j] = IF b = a /\ j = k THEN new ELSE otps[b][j]
    BY <1>1, <1>5, <1>6, <1>10 DEF TypeOK
<1>12. TypeOK'
    <2>1. otps' \in [Accounts -> Seq(Otp)]
        BY <1>6, <1>11 DEF TypeOK
    <2>2. handlers' \in [Workers -> HandlerState]
        BY <1>2, MovesTyped DEF TypeOK, Goto
    <2> QED
        BY <1>1, <1>2, <1>7, <2>1, <2>2 DEF TypeOK
<1>13. ReadsLatest'
    <2> SUFFICES ASSUME NEW v \in Workers, v # w
                 PROVE  /\ At(v, "verify_read") =>
                              handlers[v].newest <= Len(otps'[handlers[v].account])
                        /\ At(v, "verify_write") =>
                              /\ handlers[v].otp \in DOMAIN otps'[handlers[v].account]
                              /\ handlers[v].newest <= handlers[v].otp
        BY <1>3 DEF ReadsLatest, At, Idle
    <2>1. At(v, "verify_read") \/ At(v, "verify_write") => handlers[v].account \in Accounts
        BY Fields DEF At
    <2> QED
        BY <1>11, <2>1 DEF AccountsInv, ReadsLatest
<1>14. TokensPerCode'
    <2> SUFFICES ASSUME NEW b \in Accounts, NEW j \in DOMAIN otps[b]
                 PROVE  /\ ~otps'[b][j].used => otps'[b][j].logins = 0
                        /\ otps'[b][j].logins + Cardinality(Issuers(b, j)') <= Cardinality(Workers)
        BY <1>11 DEF TokensPerCode
    <2>1. /\ ~otps[b][j].used => otps[b][j].logins = 0
          /\ otps[b][j].logins + Cardinality(Issuers(b, j)) <= Cardinality(Workers)
        BY DEF AccountsInv, TokensPerCode
    <2>2. Issuers(b, j)' \subseteq Issuers(b, j) \ {w}
        BY <1>3 DEF Issuers, At, Idle
    <2>3. CASE ~(b = a /\ j = k)
        <3>1. otps'[b][j] = otps[b][j]
            BY <1>11, <2>3
        <3> QED
            BY <2>1, <2>2, <3>1, Counts, FewerIssuers
    <2>4. CASE b = a /\ j = k
        <3>1. otps'[b][j] = new /\ otps[a][k].logins \in Nat
            BY <1>4, <1>11, <2>4
        <3>2. CASE h.ok /\ h.login
            <4>1. /\ IsFiniteSet(Issuers(b, j)) /\ Cardinality(Issuers(b, j)) \in Nat
                  /\ w \in Issuers(b, j)
                BY <1>9, <2>4, <3>2, Counts
            <4>2. /\ IsFiniteSet(Issuers(b, j) \ {w})
                  /\ Cardinality(Issuers(b, j) \ {w}) = Cardinality(Issuers(b, j)) - 1
                BY <4>1, FS_RemoveElement
            <4>3. /\ Cardinality(Issuers(b, j)') <= Cardinality(Issuers(b, j)) - 1
                  /\ Cardinality(Issuers(b, j)') \in Nat
                BY <2>2, <4>2, FS_Subset, FS_CardinalityType
            <4>4. /\ new.logins <= otps[a][k].logins + 1 /\ new.used
                  /\ new.logins \in Nat /\ Cardinality(Workers) \in Nat
                BY <1>5, <3>2, Threads DEF Otp
            <4> QED
                BY <2>1, <2>4, <3>1, <4>1, <4>3, <4>4
        <3>3. CASE ~(h.ok /\ h.login)
            <4>1. new.logins = otps[a][k].logins
                BY <1>5, <3>3
            <4>2. ~new.used => otps[a][k].logins = 0
                <5>1. ~new.used => ~otps[a][k].used
                    BY <1>5, Zenon
                <5> QED
                    BY <2>1, <2>4, <5>1
            <4>3. /\ Cardinality(Issuers(b, j)') <= Cardinality(Issuers(b, j))
                  /\ Cardinality(Issuers(b, j)') \in Nat /\ Cardinality(Issuers(b, j)) \in Nat
                  /\ Cardinality(Workers) \in Nat
                BY <2>2, FewerIssuers, Counts
            <4> QED
                BY <2>1, <2>4, <3>1, <4>1, <4>2, <4>3
        <3> QED
            BY <3>2, <3>3
    <2> QED
        BY <2>3, <2>4
<1>15. AssignsAsked'
    BY <1>3 DEF AccountsInv, AssignsAsked, At, Idle
<1>16. SeedsThere'
    BY <1>2 DEF AccountsInv, SeedsThere
<1> QED
    BY <1>12, <1>13, <1>14, <1>15, <1>16 DEF AccountsInv

\* The commit of a change of a user: what was asked for, and the row stays.
LEMMA UserWrite ==
    ASSUME TypeOK, AccountsInv, NEW w \in Workers, CreateUserWrite(w) \/ UpdateUserWrite(w)
    PROVE  /\ TypeOK' /\ AccountsInv'
           /\ \A a \in Accounts : \A c \in {"role", "status"} : users'[a][c] # users[a][c] =>
                 /\ At(w, "user_insert") \/ At(w, "user_update")
                 /\ handlers[w].account = a /\ handlers[w].asked[c] = users'[a][c]
<1> DEFINE h == handlers[w]
<1>1. /\ At(w, "user_insert") \/ At(w, "user_update")
      /\ users' = [users EXCEPT ![h.account] = ApplyTo(@, h.assigned)]
      /\ Goto(w, Idle) /\ UNCHANGED <<otps, sessions>>
    BY DEF CreateUserWrite, UpdateUserWrite
<1>2. h.account \in Accounts /\ h.asked \in Change /\ h.assigned \in Change
    BY <1>1, Fields DEF At
<1>3. \A c \in {"role", "status"} : h.assigned[c] \in {Keep, h.asked[c]}
    BY <1>1 DEF AccountsInv, AssignsAsked
<1>4. \A a \in Accounts : users[a] \in User
    BY DEF TypeOK
<1>5. /\ ApplyTo(users[h.account], h.assigned) \in User
      /\ users[h.account].status # "none" =>
             ApplyTo(users[h.account], h.assigned).status # "none"
      /\ \A c \in {"role", "status"} :
            ApplyTo(users[h.account], h.assigned)[c] # users[h.account][c] =>
                ApplyTo(users[h.account], h.assigned)[c] = h.assigned[c]
    BY <1>2, <1>4, ApplyTyped
<1>6. \A c \in {"role", "status"} :
          ApplyTo(users[h.account], h.assigned)[c] # users[h.account][c] => h.assigned[c] # Keep
    BY DEF ApplyTo
<1>7. \A a \in Accounts : users'[a] = IF a = h.account
                                      THEN ApplyTo(users[h.account], h.assigned) ELSE users[a]
    BY <1>1, <1>2 DEF TypeOK
<1>8. TypeOK'
    <2>1. handlers' \in [Workers -> HandlerState]
        BY <1>1, MovesTyped DEF TypeOK, Goto
    <2>2. users' \in [Accounts -> User]
        BY <1>1, <1>2, <1>5 DEF TypeOK
    <2> QED
        BY <1>1, <2>1, <2>2 DEF TypeOK
<1>9. SeedsThere'
    BY <1>5, <1>7, ConstantsAssumption DEF AccountsInv, SeedsThere
<1>10. \A v \in Workers : handlers'[v] = Idle \/ handlers'[v] = handlers[v]
    BY <1>1, GotoStep
<1>11. AccountsInv'
    BY <1>1, <1>9, <1>10, StopInv
<1>12. \A a \in Accounts : \A c \in {"role", "status"} : users'[a][c] # users[a][c] =>
           handlers[w].account = a /\ handlers[w].asked[c] = users'[a][c]
    BY <1>3, <1>5, <1>6, <1>7
<1> QED
    BY <1>1, <1>8, <1>11, <1>12

\* A restart: the threads are gone, and only rows of seeded accounts may change.
LEMMA RestartInv ==
    ASSUME TypeOK, AccountsInv, Restart
    PROVE  /\ TypeOK' /\ AccountsInv'
           /\ \A a \in Accounts : users'[a] # users[a] => SyncSeededUsers
<1>1. \A a \in Accounts : users[a] \in User
    BY DEF TypeOK
<1>2. \A a \in Accounts :
          /\ users'[a] = Seeded(users[a], a) /\ users'[a] \in User
          /\ users[a].status # "none" => users'[a].status # "none"
          /\ users'[a] # users[a] => a \in DOMAIN Seeds /\ (users[a].status = "none" \/ SyncSeededUsers)
    BY <1>1, SeededTyped DEF Restart
<1>3. /\ handlers' = [w \in Workers |-> Idle] /\ users' = [a \in Accounts |-> Seeded(users[a], a)]
      /\ UNCHANGED <<otps, sessions>>
    BY DEF Restart
<1>4. TypeOK'
    BY <1>2, <1>3 DEF TypeOK, HandlerState
<1>5. SeedsThere'
    BY <1>2, ConstantsAssumption DEF AccountsInv, SeedsThere
<1>6. AccountsInv'
    BY <1>3, <1>5, StopInv
<1> QED
    BY <1>2, <1>4, <1>6 DEF AccountsInv, SeedsThere

\* The steps of a login that read.
LEMMA LoginReads ==
    ASSUME TypeOK, AccountsInv, NEW w \in Workers,
           \/ HandlerFails(w) \/ VerifyRefused(w)
           \/ \E a \in Accounts : Admit(w, a) \/ LoginOtpReadUser(w, a) \/ LoginReadUser(w, a)
           \/ EmailOtpAdmitted(w) \/ EmailOtpVerifyAdmitted(w)
           \/ \E ok \in BOOLEAN : VerifyCompare(w, ok)
    PROVE  UNCHANGED tables /\ TypeOK' /\ AccountsInv'
<1>1. CASE HandlerFails(w) \/ VerifyRefused(w)
    <2>1. Goto(w, Idle) /\ UNCHANGED tables
        BY <1>1 DEF HandlerFails, VerifyRefused
    <2> QED
        BY <2>1, MovesTyped, MoveInv DEF Idle
<1>2. ASSUME NEW a \in Accounts, Admit(w, a) PROVE UNCHANGED tables /\ TypeOK' /\ AccountsInv'
    <2> DEFINE state == [step |-> "admitted", account |-> a, role |-> users[a].role]
    <2>1. Goto(w, state) /\ UNCHANGED tables /\ state \in HandlerState /\ state.step = "admitted"
        BY <1>2, MovesTyped DEF Admit
    <2> HIDE DEF state
    <2> QED
        BY <2>1, MoveInv
<1>3. ASSUME NEW a \in Accounts, Goto(w, [step |-> "otp_write", account |-> a]), UNCHANGED tables
      PROVE  TypeOK' /\ AccountsInv'
    <2> DEFINE state == [step |-> "otp_write", account |-> a]
    <2>1. Goto(w, state) /\ state \in HandlerState /\ state.step = "otp_write"
        BY <1>3, MovesTyped
    <2> HIDE DEF state
    <2> QED
        BY <1>3, <2>1, MoveInv
<1>4. ASSUME NEW a \in Accounts, NEW login \in BOOLEAN, UNCHANGED tables,
             Goto(w, [step |-> "verify_read", account |-> a, login |-> login, newest |-> Len(otps[a])])
      PROVE  TypeOK' /\ AccountsInv'
    <2> DEFINE state == [step |-> "verify_read", account |-> a, login |-> login,
                         newest |-> Len(otps[a])]
    <2>1. /\ Goto(w, state) /\ state \in HandlerState /\ state.step = "verify_read"
          /\ state.account = a /\ state.newest = Len(otps[a])
        BY <1>4, MovesTyped
    <2>2. otps[a] \in Seq(Otp)
        BY DEF TypeOK
    <2> HIDE DEF state
    <2>3. state.newest <= Len(otps[state.account])
        BY <2>1, <2>2
    <2> QED
        BY <1>4, <2>1, <2>3, MoveInv
<1>5. ASSUME NEW ok \in BOOLEAN, VerifyCompare(w, ok)
      PROVE  UNCHANGED tables /\ TypeOK' /\ AccountsInv'
    <2> DEFINE h == handlers[w]
               a == h.account
               k == LatestOtp(a)
               state == [step |-> "verify_write", account |-> a, login |-> h.login,
                         newest |-> h.newest, otp |-> k,
                         attempts |-> otps[a][k].attempts + 1, ok |-> ok]
    <2>1. h.step = "verify_read" /\ Verifiable(a) /\ Goto(w, state) /\ UNCHANGED tables
        BY <1>5 DEF VerifyCompare, At
    <2>2. a \in Accounts /\ h.login \in BOOLEAN /\ h.newest \in Nat /\ h.newest <= Len(otps[a])
        BY <2>1, Fields DEF AccountsInv, ReadsLatest, At
    <2>3. k \in DOMAIN otps[a] /\ k \in Nat \ {0} /\ otps[a][k].attempts + 1 \in 1..MaxAttempts
        BY <2>1, <2>2, LatestIsOtp
    <2>4. ~otps[a][k].used /\ h.newest <= k
        BY <2>1, <2>2 DEF Verifiable, LatestOtp
    <2> HIDE DEF a, k
    <2>5. state \in HandlerState
        BY <2>2, <2>3 DEF HandlerState
    <2>6. /\ state.step = "verify_write" /\ state.account = a /\ state.otp = k
          /\ state.newest = h.newest
        OBVIOUS
    <2> HIDE DEF state
    <2> QED
        BY <2>1, <2>3, <2>4, <2>5, <2>6, MoveInv
<1>6. ASSUME EmailOtpAdmitted(w) \/ EmailOtpVerifyAdmitted(w)
      PROVE  UNCHANGED tables /\ TypeOK' /\ AccountsInv'
    <2>1. handlers[w].account \in Accounts
        BY <1>6, Fields DEF EmailOtpAdmitted, EmailOtpVerifyAdmitted, Admitted, At
    <2> QED
        BY <1>3, <1>4, <1>6, <2>1 DEF EmailOtpAdmitted, EmailOtpVerifyAdmitted
<1> QED
    BY <1>1, <1>2, <1>3, <1>4, <1>5, <1>6 DEF LoginOtpReadUser, LoginReadUser

\* The steps of user management that read.
LEMMA UserReads ==
    ASSUME TypeOK, AccountsInv, NEW w \in Workers, NEW a \in Accounts, NEW asked \in Change,
           CreateUserRead(w, a, asked) \/ UpdateUserRead(w, a, asked)
    PROVE  UNCHANGED tables /\ TypeOK' /\ AccountsInv'
<1>1. ASSUME NEW step \in {"user_insert", "user_update"}, NEW assigned \in Change,
             \A c \in {"role", "status"} : assigned[c] \in {Keep, asked[c]},
             Goto(w, [step |-> step, account |-> a, asked |-> asked, assigned |-> assigned]),
             UNCHANGED tables
      PROVE  TypeOK' /\ AccountsInv'
    <2> DEFINE state == [step |-> step, account |-> a, asked |-> asked, assigned |-> assigned]
    <2>1. /\ Goto(w, state) /\ state \in HandlerState /\ state.step \in {"user_insert", "user_update"}
          /\ state.asked = asked /\ state.assigned = assigned
        BY <1>1, MovesTyped
    <2> HIDE DEF state
    <2> QED
        BY <1>1, <2>1, MoveInv
<1>2. users[a] \in User
    BY DEF TypeOK
<1>3. CASE CreateUserRead(w, a, asked)
    BY <1>1, <1>3 DEF CreateUserRead
<1>4. CASE UpdateUserRead(w, a, asked)
    BY <1>1, <1>2, <1>4, AssignedTyped DEF UpdateUserRead
<1> QED
    BY <1>3, <1>4
----------------------------------------------------------------------------
(***************************************************************************)
(* The theorems.                                                           *)
(***************************************************************************)

\* What a step may do to the rows of users.
AskedFor ==
    \A a \in Accounts : \A c \in {"role", "status"} :
        users'[a][c] # users[a][c] =>
            \/ \E w \in Workers : /\ At(w, "user_insert") \/ At(w, "user_update")
                                  /\ handlers[w].account = a
                                  /\ handlers[w].asked[c] = users'[a][c]
            \/ SyncSeededUsers /\ Restart

LEMMA AccountsStep ==
    ASSUME TypeOK, AccountsInv, Next
    PROVE  TypeOK' /\ AccountsInv' /\ AskedFor
<1>1. ASSUME UNCHANGED tables PROVE AskedFor
    BY <1>1 DEF AskedFor, tables
<1>2. ASSUME users' = users PROVE AskedFor
    BY <1>2 DEF AskedFor
<1>3. ASSUME NEW a \in Accounts, SessionExpires(a) PROVE TypeOK' /\ AccountsInv' /\ AskedFor
    <2>1. UNCHANGED <<users, otps, handlers>> /\ sessions' = sessions \ {a}
        BY <1>3 DEF SessionExpires
    <2>2. TypeOK'
        BY <2>1 DEF TypeOK
    <2>3. AccountsInv'
        BY <2>1, StopInv DEF AccountsInv, SeedsThere
    <2> QED
        BY <1>2, <2>1, <2>2, <2>3
<1>4. CASE Restart
    BY <1>4, RestartInv DEF AskedFor
<1>5. ASSUME NEW w \in Workers, HandlerFails(w) \/ (\E a \in Accounts : Admit(w, a))
      PROVE  TypeOK' /\ AccountsInv' /\ AskedFor
    BY <1>1, <1>5, LoginReads
<1>6. ASSUME NEW w \in Workers, Login(w) PROVE TypeOK' /\ AccountsInv' /\ AskedFor
    <2>1. CASE OtpWrite(w) \/ VerifyWrite(w)
        <3>1. users' = users
            BY <2>1 DEF OtpWrite, VerifyWrite
        <3> QED
            BY <1>2, <2>1, <3>1, OtpWriteInv, VerifyWriteInv
    <2>2. CASE ~(OtpWrite(w) \/ VerifyWrite(w))
        BY <1>1, <1>6, <2>2, LoginReads DEF Login
    <2> QED
        BY <2>1, <2>2
<1>7. ASSUME NEW w \in Workers, Administrate(w) PROVE TypeOK' /\ AccountsInv' /\ AskedFor
    <2>1. ASSUME NEW a \in Accounts, NEW asked \in Asks,
                 CreateUserRead(w, a, asked) \/ UpdateUserRead(w, a, asked)
          PROVE  TypeOK' /\ AccountsInv' /\ AskedFor
        BY <1>1, <2>1, AsksTyped, UserReads
    <2>2. ASSUME NEW a \in Accounts, NEW status \in {"active", "disabled"},
                 SetUserStatusRead(w, a, status)
          PROVE  TypeOK' /\ AccountsInv' /\ AskedFor
        BY <1>1, <2>2, AsksTyped, UserReads DEF SetUserStatusRead
    <2>3. CASE CreateUserWrite(w) \/ UpdateUserWrite(w)
        BY <2>3, UserWrite DEF AskedFor
    <2> QED
        BY <1>7, <2>1, <2>2, <2>3 DEF Administrate
<1> QED
    BY <1>3, <1>4, <1>5, <1>6, <1>7 DEF Next

LEMMA AccountsInit ==
    ASSUME Init
    PROVE  TypeOK /\ AccountsInv
<1>1. /\ otps = [a \in Accounts |-> <<>>] /\ handlers = [w \in Workers |-> Idle]
      /\ \A a \in Accounts : DOMAIN otps[a] = {}
    BY DEF Init
<1>2. TypeOK
    <2>1. users \in [Accounts -> User]
        <3>1. {NoUser, [role |-> "SIGNER", status |-> "active"], [role |-> "ADMIN", status |-> "active"]}
                  \subseteq User
            BY ConstantsAssumption DEF NoUser, User
        <3> QED
            BY <3>1 DEF Init
    <2>2. otps \in [Accounts -> Seq(Otp)] /\ handlers \in [Workers -> HandlerState]
        BY <1>1 DEF HandlerState
    <2> QED
        BY <2>1, <2>2, ConstantsAssumption DEF Init, TypeOK
<1>3. ReadsLatest /\ AssignsAsked
    BY <1>1 DEF ReadsLatest, AssignsAsked, At, Idle
<1>4. TokensPerCode
    BY <1>1 DEF TokensPerCode
<1>5. SeedsThere
    BY DEF Init, SeedsThere
<1> QED
    BY <1>2, <1>3, <1>4, <1>5 DEF AccountsInv

LEMMA AccountsStutter ==
    ASSUME TypeOK, AccountsInv, UNCHANGED vars
    PROVE  TypeOK' /\ AccountsInv'
<1>1. UNCHANGED <<users, otps, sessions, handlers>>
    BY DEF vars, tables
<1>2. TypeOK'
    BY <1>1 DEF TypeOK
<1> QED
    BY <1>1, <1>2, StopInv DEF AccountsInv, SeedsThere

\* A call works with the code that was the latest when it read it, the codes that are
\* not used up have given no token, and a change assigns what was asked for.
THEOREM AccountsInvariant == Spec => [](TypeOK /\ AccountsInv)
<1>1. Init => TypeOK /\ AccountsInv
    BY AccountsInit
<1>2. TypeOK /\ AccountsInv /\ [Next]_vars => TypeOK' /\ AccountsInv'
    BY AccountsStep, AccountsStutter
<1> QED
    BY <1>1, <1>2, PTL DEF Spec

\* The tables and the threads hold values of their types.
THEOREM TypeCorrect == Spec => []TypeOK
BY AccountsInvariant, PTL

\* A login code gives no more access tokens than there are threads.
THEOREM TokensBounded == Spec => []SessionsPerCode
<1>1. ASSUME TypeOK, AccountsInv PROVE SessionsPerCode
    <2> SUFFICES ASSUME NEW a \in Accounts, NEW k \in DOMAIN otps[a]
                 PROVE  otps[a][k].logins <= Cardinality(Workers)
        BY DEF SessionsPerCode
    <2>1. otps[a][k].logins + Cardinality(Issuers(a, k)) <= Cardinality(Workers)
        BY <1>1 DEF AccountsInv, TokensPerCode
    <2> QED
        BY <1>1, <2>1, Counts
<1> QED
    BY <1>1, AccountsInvariant, PTL

\* A code that was replaced before the call gives no access token.
THEOREM SupersededCodes == Spec => SupersededCodeIsDead
<1> DEFINE A == \A w \in Workers :
                    At(w, "verify_write") /\ sessions' # sessions /\ handlers'[w] = Idle
                        => handlers[w].otp >= handlers[w].newest
<1>1. ASSUME AccountsInv, TypeOK PROVE A
    <2> SUFFICES ASSUME NEW w \in Workers, At(w, "verify_write")
                 PROVE  handlers[w].otp >= handlers[w].newest
        OBVIOUS
    <2>1. handlers[w].newest <= handlers[w].otp
        BY <1>1 DEF AccountsInv, ReadsLatest
    <2>2. handlers[w].otp \in Nat /\ handlers[w].newest \in Nat
        BY <1>1, Fields DEF At
    <2> QED
        BY <2>1, <2>2
<1>2. TypeOK /\ AccountsInv /\ [Next]_vars => [A]_vars
    BY <1>1
<1> QED
    BY <1>2, AccountsInvariant, PTL DEF Spec, SupersededCodeIsDead

\* Roles and statuses change to what was asked for, or to their seeds at a restart.
THEOREM ChangesAsked == Spec => ChangesAreAskedFor
<1>1. TypeOK /\ AccountsInv /\ [Next]_vars => [AskedFor]_vars
    BY AccountsStep
<1> QED
    BY <1>1, AccountsInvariant, PTL DEF Spec, ChangesAreAskedFor, AskedFor

----------------------------------------------------------------------------
(***************************************************************************)
(* The authenticator of an account, which TotpSetup models on its own: its *)
(* threads work on one row of user_mfa_settings and on no table of         *)
(* Accounts.                                                               *)
(***************************************************************************)
CONSTANTS KeyIsStable, MaxSecrets, MaxRestarts

VARIABLES setting, key, restarts, proved, raced, used, calls

Totp == INSTANCE TotpSetup WITH handlers <- calls

\* What a call has at each step.
LEMMA TotpFields ==
    ASSUME Totp!TypeOK, NEW w \in Workers
    PROVE  /\ calls[w].step \in {"idle", "setup_write", "enable_write", "use_write"}
           /\ calls[w].step # "idle" =>
                 /\ calls[w].read \in Totp!Setting
                 /\ calls[w].read.secret \in Totp!Secrets \cup {0}
<1>1. calls[w] \in Totp!HandlerState
    BY DEF Totp!TypeOK
<1> QED
    BY <1>1 DEF Totp!HandlerState, Totp!Idle, Totp!Setting, Totp!NoSecret

\* A call that stops, or that reads the setting, leaves the others where they are.
LEMMA TotpGoto ==
    ASSUME Totp!TypeOK, NEW w \in Workers, NEW state \in Totp!HandlerState,
           Totp!Goto(w, state)
    PROVE  /\ calls' \in [Workers -> Totp!HandlerState]
           /\ calls'[w] = state /\ \A v \in Workers : v # w => calls'[v] = calls[v]
BY DEF Totp!TypeOK, Totp!Goto

\* What a call becomes when it stops, and when it reads.
LEMMA TotpThreads ==
    ASSUME Totp!TypeOK,
           NEW step \in {"setup_write", "enable_write", "use_write"}
    PROVE  /\ Totp!Idle \in Totp!HandlerState
           /\ Totp!Idle.step = "idle"
           /\ [step |-> step, read |-> setting] \in Totp!HandlerState
BY DEF Totp!TypeOK, Totp!HandlerState, Totp!Idle

\* Nothing is in flight and nothing proved when the row is not there yet.
LEMMA TotpInitInv ==
    ASSUME MaxRestarts \in Nat, Totp!Init
    PROVE  Totp!TotpInv
<1>1. setting \in Totp!Setting /\ Totp!Idle \in Totp!HandlerState
    BY DEF Totp!Init, Totp!Setting, Totp!NoSecret, Totp!HandlerState
<1>2. Totp!TypeOK
    <2>1. calls \in [Workers -> Totp!HandlerState]
        BY <1>1 DEF Totp!Init
    <2>2. key \in 0..MaxRestarts /\ restarts \in 0..MaxRestarts
        BY DEF Totp!Init
    <2>3. proved \in SUBSET Totp!Secrets /\ used \in SUBSET Totp!Secrets /\ raced \in BOOLEAN
        BY DEF Totp!Init
    <2> QED
        BY <1>1, <2>1, <2>2, <2>3 DEF Totp!TypeOK
<1>3. Totp!ReadsASecret /\ Totp!ProvesTheStored
    BY DEF Totp!Init, Totp!ReadsASecret, Totp!ProvesTheStored, Totp!At, Totp!Idle
<1> QED
    BY <1>2, <1>3 DEF Totp!TotpInv

\* A restart, or an exception, only stops calls.
LEMMA TotpStopInv ==
    ASSUME Totp!TotpInv,
           calls' \in [Workers -> Totp!HandlerState],
           \A w \in Workers : calls'[w] \in {Totp!Idle, calls[w]},
           key' \in 0..MaxRestarts, restarts' \in 0..MaxRestarts,
           UNCHANGED <<setting, proved, raced, used>>
    PROVE  Totp!TotpInv'
<1>1. Totp!TypeOK'
    BY DEF Totp!TotpInv, Totp!TypeOK
<1>2. \A w \in Workers : calls'[w] = calls[w] \/ calls'[w].step = "idle"
    BY DEF Totp!Idle
<1>3. Totp!ReadsASecret'
    BY <1>2 DEF Totp!TotpInv, Totp!ReadsASecret, Totp!At
<1>4. Totp!ProvesTheStored'
    <2>1. CASE raced
        BY <2>1 DEF Totp!ProvesTheStored
    <2>2. CASE ~raced
        BY <1>2, <2>2 DEF Totp!TotpInv, Totp!ProvesTheStored, Totp!At
    <2> QED
        BY <2>1, <2>2
<1> QED
    BY <1>1, <1>3, <1>4 DEF Totp!TotpInv

\* A call reads the setting that is stored.
LEMMA TotpReadInv ==
    ASSUME Totp!TotpInv, NEW w \in Workers,
           Totp!SetupRead(w) \/ Totp!EnableRead(w) \/ Totp!UseRead(w)
    PROVE  Totp!TotpInv'
<1>1. PICK step \in {"setup_write", "enable_write", "use_write"} :
          /\ Totp!Goto(w, [step |-> step, read |-> setting])
          /\ step = "setup_write" => ~setting.enabled
          /\ step # "setup_write" => setting.secret # Totp!NoSecret
          /\ step = "use_write" => setting.enabled
    BY DEF Totp!SetupRead, Totp!EnableRead, Totp!UseRead, Totp!Decryptable
<1>2. UNCHANGED <<setting, key, restarts, proved, raced, used>>
    BY DEF Totp!SetupRead, Totp!EnableRead, Totp!UseRead
<1>3. /\ calls' \in [Workers -> Totp!HandlerState]
      /\ calls'[w] = [step |-> step, read |-> setting]
      /\ \A v \in Workers : v # w => calls'[v] = calls[v]
    BY <1>1, TotpGoto, TotpThreads DEF Totp!TotpInv
<1>4. Totp!TypeOK'
    BY <1>2, <1>3 DEF Totp!TotpInv, Totp!TypeOK
<1>5. Totp!ReadsASecret'
    BY <1>1, <1>3 DEF Totp!TotpInv, Totp!ReadsASecret, Totp!At, Totp!NoSecret
<1>6. Totp!ProvesTheStored'
    <2>1. CASE raced
        BY <1>2, <2>1 DEF Totp!ProvesTheStored
    <2>2. CASE ~raced
        BY <1>1, <1>2, <1>3, <2>2 DEF Totp!TotpInv, Totp!ProvesTheStored, Totp!At
    <2> QED
        BY <2>1, <2>2
<1> QED
    BY <1>4, <1>5, <1>6 DEF Totp!TotpInv

\* A set-up stores another secret: a verification of the one before is overlapped, and
\* as long as there is none, the setting is still not enabled.
LEMMA TotpSetupInv ==
    ASSUME Totp!TotpInv, MaxSecrets \in Nat, NEW w \in Workers, Totp!SetupWrite(w)
    PROVE  Totp!TotpInv'
<1>1. /\ calls' \in [Workers -> Totp!HandlerState]
      /\ calls'[w] = Totp!Idle /\ \A v \in Workers : v # w => calls'[v] = calls[v]
    BY TotpGoto, TotpThreads DEF Totp!TotpInv, Totp!SetupWrite
<1>2. /\ setting.secret + 1 \in Totp!Secrets /\ setting \in Totp!Setting
      /\ key \in 0..MaxRestarts /\ setting.secret < MaxSecrets
    BY DEF Totp!TotpInv, Totp!TypeOK, Totp!SetupWrite, Totp!Setting, Totp!Secrets, Totp!NoSecret
<1>3. /\ setting' \in Totp!Setting
      /\ setting'.enabled = setting.enabled
    BY <1>2 DEF Totp!SetupWrite, Totp!StoreSecret, Totp!Setting
<1>4. UNCHANGED <<key, restarts, proved, used>> /\ raced' \in BOOLEAN
    BY DEF Totp!SetupWrite
<1>5. Totp!TypeOK'
    BY <1>1, <1>3, <1>4 DEF Totp!TotpInv, Totp!TypeOK
<1>6. Totp!ReadsASecret'
    BY <1>1 DEF Totp!TotpInv, Totp!ReadsASecret, Totp!At, Totp!Idle
<1>7. Totp!ProvesTheStored'
    <2> SUFFICES ASSUME ~raced'
                 PROVE  Totp!ProvesTheStored'
        BY DEF Totp!ProvesTheStored
    <2>1. ~raced /\ \A v \in Workers : ~Totp!At(v, "enable_write")
        BY DEF Totp!SetupWrite, Totp!InFlight
    <2>2. /\ used \subseteq proved
          /\ \A v \in Workers :
                /\ Totp!At(v, "setup_write") => ~setting.enabled
                /\ Totp!At(v, "use_write") => calls[v].read.secret \in proved
        BY <2>1 DEF Totp!TotpInv, Totp!ProvesTheStored
    <2>3. ~setting.enabled
        BY <2>2 DEF Totp!SetupWrite
    <2> QED
        BY <1>1, <1>3, <1>4, <2>1, <2>2, <2>3 DEF Totp!ProvesTheStored, Totp!At, Totp!Idle
<1> QED
    BY <1>5, <1>6, <1>7 DEF Totp!TotpInv

\* A verification proves the secret it has read: the stored one, unless a set-up has
\* come between.
LEMMA TotpEnableInv ==
    ASSUME Totp!TotpInv, NEW w \in Workers, Totp!EnableWrite(w)
    PROVE  Totp!TotpInv'
<1>1. /\ calls' \in [Workers -> Totp!HandlerState]
      /\ calls'[w] = Totp!Idle /\ \A v \in Workers : v # w => calls'[v] = calls[v]
    BY TotpGoto, TotpThreads DEF Totp!TotpInv, Totp!EnableWrite
<1>2. calls[w].read.secret \in Totp!Secrets
    BY TotpFields DEF Totp!TotpInv, Totp!ReadsASecret, Totp!EnableWrite, Totp!At, Totp!NoSecret
<1>3. /\ setting' \in Totp!Setting
      /\ setting'.secret = setting.secret
    BY DEF Totp!TotpInv, Totp!TypeOK, Totp!EnableWrite, Totp!Setting
<1>4. /\ UNCHANGED <<key, restarts, used>> /\ raced' \in BOOLEAN
      /\ proved' = proved \cup {calls[w].read.secret}
    BY DEF Totp!EnableWrite
<1>5. Totp!TypeOK'
    BY <1>1, <1>2, <1>3, <1>4 DEF Totp!TotpInv, Totp!TypeOK
<1>6. Totp!ReadsASecret'
    BY <1>1 DEF Totp!TotpInv, Totp!ReadsASecret, Totp!At, Totp!Idle
<1>7. Totp!ProvesTheStored'
    <2> SUFFICES ASSUME ~raced'
                 PROVE  Totp!ProvesTheStored'
        BY DEF Totp!ProvesTheStored
    <2>1. ~raced /\ \A v \in Workers : ~Totp!At(v, "setup_write")
        BY DEF Totp!EnableWrite, Totp!InFlight
    <2>2. /\ used \subseteq proved
          /\ \A v \in Workers :
                /\ Totp!At(v, "enable_write") => calls[v].read.secret = setting.secret
                /\ Totp!At(v, "use_write") => calls[v].read.secret \in proved
        BY <2>1 DEF Totp!TotpInv, Totp!ProvesTheStored
    <2>3. setting.secret \in proved'
        BY <1>4, <2>2 DEF Totp!EnableWrite
    <2> QED
        BY <1>1, <1>3, <1>4, <2>1, <2>2, <2>3 DEF Totp!ProvesTheStored, Totp!At, Totp!Idle
<1> QED
    BY <1>5, <1>6, <1>7 DEF Totp!TotpInv

\* A confirmation is by the secret that was read, which was proved by then.
LEMMA TotpUseInv ==
    ASSUME Totp!TotpInv, NEW w \in Workers, Totp!UseWrite(w)
    PROVE  Totp!TotpInv'
<1>1. /\ calls' \in [Workers -> Totp!HandlerState]
      /\ calls'[w] = Totp!Idle /\ \A v \in Workers : v # w => calls'[v] = calls[v]
    BY TotpGoto, TotpThreads DEF Totp!TotpInv, Totp!UseWrite
<1>2. calls[w].read.secret \in Totp!Secrets
    BY TotpFields DEF Totp!TotpInv, Totp!ReadsASecret, Totp!UseWrite, Totp!At, Totp!NoSecret
<1>3. /\ UNCHANGED <<setting, key, restarts, proved, raced>>
      /\ used' = used \cup {calls[w].read.secret}
    BY DEF Totp!UseWrite
<1>4. Totp!TypeOK'
    BY <1>1, <1>2, <1>3 DEF Totp!TotpInv, Totp!TypeOK
<1>5. Totp!ReadsASecret'
    BY <1>1 DEF Totp!TotpInv, Totp!ReadsASecret, Totp!At, Totp!Idle
<1>6. Totp!ProvesTheStored'
    <2>1. CASE raced
        BY <1>3, <2>1 DEF Totp!ProvesTheStored
    <2>2. CASE ~raced
        <3>1. calls[w].read.secret \in proved
            BY <2>2 DEF Totp!TotpInv, Totp!ProvesTheStored, Totp!UseWrite
        <3> QED
            BY <1>1, <1>3, <2>2, <3>1 DEF Totp!TotpInv, Totp!ProvesTheStored, Totp!At, Totp!Idle
    <2> QED
        BY <2>1, <2>2
<1> QED
    BY <1>4, <1>5, <1>6 DEF Totp!TotpInv

\* Each of the handlers, or a restart.
LEMMA TotpStep ==
    ASSUME Totp!TotpInv, {MaxSecrets, MaxRestarts} \subseteq Nat, [Totp!Next]_(Totp!vars)
    PROVE  Totp!TotpInv'
<1>1. CASE Totp!Restart
    <2>1. /\ calls' \in [Workers -> Totp!HandlerState]
          /\ \A w \in Workers : calls'[w] = Totp!Idle
        BY <1>1, TotpThreads DEF Totp!Restart, Totp!TotpInv
    <2>2. key' \in 0..MaxRestarts /\ restarts' \in 0..MaxRestarts
        BY <1>1 DEF Totp!Restart, Totp!TotpInv, Totp!TypeOK
    <2> QED
        BY <1>1, <2>1, <2>2, TotpStopInv DEF Totp!Restart
<1>2. ASSUME NEW w \in Workers, Totp!HandlerFails(w) PROVE Totp!TotpInv'
    <2>1. /\ calls' \in [Workers -> Totp!HandlerState]
          /\ calls'[w] = Totp!Idle /\ \A v \in Workers : v # w => calls'[v] = calls[v]
        BY <1>2, TotpGoto, TotpThreads DEF Totp!TotpInv, Totp!HandlerFails
    <2>2. key' \in 0..MaxRestarts /\ restarts' \in 0..MaxRestarts
        BY <1>2 DEF Totp!HandlerFails, Totp!TotpInv, Totp!TypeOK
    <2> QED
        BY <1>2, <2>1, <2>2, TotpStopInv DEF Totp!HandlerFails
<1>3. CASE UNCHANGED Totp!vars
    <2>1. UNCHANGED <<setting, key, restarts, proved, raced, used, calls>>
        BY <1>3 DEF Totp!vars
    <2>2. /\ calls \in [Workers -> Totp!HandlerState]
          /\ key \in 0..MaxRestarts /\ restarts \in 0..MaxRestarts
        BY DEF Totp!TotpInv, Totp!TypeOK
    <2> QED
        BY <2>1, <2>2, TotpStopInv
<1> QED
    BY <1>1, <1>2, <1>3, TotpReadInv, TotpSetupInv, TotpEnableInv, TotpUseInv DEF Totp!Next

\* The authenticator's row, its threads and its history hold values of their types, and
\* until a set-up and a verification overlap, what is enabled or used is proved.
THEOREM TotpInvariant ==
    ASSUME {MaxSecrets, MaxRestarts} \subseteq Nat
    PROVE  Totp!Spec => []Totp!TotpInv
<1>1. Totp!Init => Totp!TotpInv
    BY TotpInitInv
<1>2. Totp!TotpInv /\ [Totp!Next]_(Totp!vars) => Totp!TotpInv'
    BY TotpStep
<1> QED
    BY <1>1, <1>2, PTL DEF Totp!Spec

\* The types alone: no code is ever checked against a secret that is not there.
THEOREM TotpTypes ==
    ASSUME {MaxSecrets, MaxRestarts} \subseteq Nat
    PROVE  Totp!Spec => []Totp!TypeOK
<1>1. Totp!TotpInv => Totp!TypeOK
    BY DEF Totp!TotpInv
<1> QED
    BY <1>1, TotpInvariant, PTL

\* TOTP is not taken away from an account that has enabled it, and a confirmation is by
\* a proved secret unless a set-up and a verification overlapped.
THEOREM EnabledStays ==
    ASSUME {MaxSecrets, MaxRestarts} \subseteq Nat
    PROVE  Totp!Spec => Totp!EnabledIsProved
<1> DEFINE A == /\ setting.enabled => setting'.enabled
                /\ raced' \/ used' \subseteq proved'
<1>1. ASSUME Totp!TotpInv, Totp!TotpInv', Totp!Next
      PROVE  A
    <2>1. setting.enabled => setting'.enabled
        <3>1. setting \in Totp!Setting
            BY <1>1 DEF Totp!TotpInv, Totp!TypeOK
        <3>2. ASSUME NEW w \in Workers, Totp!SetupWrite(w)
              PROVE  setting'.enabled = setting.enabled
            BY <3>1, <3>2 DEF Totp!SetupWrite, Totp!StoreSecret, Totp!Setting
        <3>3. ASSUME NEW w \in Workers, Totp!EnableWrite(w)
              PROVE  setting'.enabled
            BY <3>1, <3>3 DEF Totp!EnableWrite, Totp!Setting
        <3>4. \/ setting' = setting
              \/ \E w \in Workers : Totp!SetupWrite(w) \/ Totp!EnableWrite(w)
            BY <1>1 DEF Totp!Next, Totp!Restart, Totp!HandlerFails, Totp!SetupRead,
                        Totp!EnableRead, Totp!UseRead, Totp!UseWrite
        <3> QED
            BY <3>2, <3>3, <3>4, Zenon
    <2>2. raced' \/ used' \subseteq proved'
        BY <1>1 DEF Totp!TotpInv, Totp!ProvesTheStored
    <2> QED
        BY <2>1, <2>2
<1> HIDE DEF A
<1>2. Totp!TotpInv /\ Totp!TotpInv' /\ [Totp!Next]_(Totp!vars) => [A]_(Totp!vars)
    BY <1>1
<1> QED
    BY <1>2, TotpInvariant, PTL DEF Totp!Spec, Totp!EnabledIsProved, A
=============================================================================
