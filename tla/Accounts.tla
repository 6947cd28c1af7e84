------------------------------ MODULE Accounts ------------------------------
(***************************************************************************)
(* Accounts: the login by e-mail OTP of routes_auth.py and auth_utils.py,  *)
(* the access tokens of security.py, the user management of                *)
(* routes_admin.py, and what a restart does to them: the seeding of        *)
(* database.py.  TotpSetup has the authenticator's part.                   *)
(*                                                                         *)
(* Handlers run in threads with a session each, as in SigningRequests:     *)
(* every SELECT is a step, and the write is a step.  The session's UPDATE  *)
(* names only the columns whose value differs from the one that was read,  *)
(* so a column assigned its old value is not written.  Time is abstracted: *)
(* a code or an access token may expire at any moment.                     *)
(***************************************************************************)
EXTENDS Integers, Sequences, FiniteSets

CONSTANTS
    Accounts,    \* e-mail addresses
    FirstAdmin,  \* the first administrator
    Seeds,       \* the roles of the accounts that _seed_default_users lists
    Roles,       \* VALID_ROLES; all but ADMIN and SIGNER are alike here
    SyncSeededUsers, \* SYNC_SEEDED_USERS
    Workers,     \* threads that run handlers
    MaxAttempts, \* OTP_MAX_ATTEMPTS
    MaxOtps,     \* bound of the runs: OTPs, per account
    Asks         \* bound of the runs: the changes administrators ask for

ASSUME ConstantsAssumption ==
    /\ FirstAdmin \in Accounts
    /\ {"ADMIN", "SIGNER"} \subseteq Roles
    /\ DOMAIN Seeds \subseteq Accounts
    /\ \A a \in DOMAIN Seeds : Seeds[a] \in Roles /\ (Seeds[a] = "ADMIN" <=> a = FirstAdmin)
    /\ SyncSeededUsers \in BOOLEAN
    /\ IsFiniteSet(Workers)
    /\ MaxAttempts \in Nat \ {0}
    /\ MaxOtps \in [Accounts -> Nat]
    /\ Asks \subseteq [role : Roles \cup {"keep"}, status : {"active", "disabled", "keep"}]

VARIABLES
    users,    \* table users
    otps,     \* the LOGIN_MFA rows of email_otp_tokens: per account, by increasing id
    sessions, \* the accounts that have an unexpired access token
    handlers  \* what each thread is doing, with the values it has read

tables == <<users, otps, sessions>>
vars == <<tables, handlers>>

User == [role : Roles, status : {"none", "active", "disabled"}]
NoUser == [role |-> "SIGNER", status |-> "none"]

\* logins: history, the access tokens issued for this code, up to one too many.
Otp == [used : BOOLEAN, attempts : 0..MaxAttempts,
        logins : 0..(Cardinality(Workers) + 1)]

\* What an administrator's call asks for, or assigns, per column.
Keep == "keep"
Change == [role : Roles \cup {Keep}, status : {"active", "disabled", Keep}]

Idle == [step |-> "idle"]
HandlerState ==
    {Idle}
    \cup [step : {"admitted"}, account : Accounts, role : Roles]
    \cup [step : {"otp_write"}, account : Accounts]
    \cup [step : {"verify_read"}, account : Accounts, login : BOOLEAN, newest : Nat]
    \cup [step : {"verify_write"}, account : Accounts, login : BOOLEAN, newest : Nat,
          otp : Nat \ {0}, attempts : 1..MaxAttempts, ok : BOOLEAN]
    \cup [step : {"user_insert", "user_update"}, account : Accounts,
          asked : Change, assigned : Change]

\* init_db has run, and the administrator has logged in with a code that is used up
\* and left out.
Init ==
    /\ users \in [Accounts -> {NoUser, [role |-> "SIGNER", status |-> "active"],
                               [role |-> "ADMIN", status |-> "active"]}]
    /\ \A a \in Accounts : users[a].role = "ADMIN" <=> a = FirstAdmin
    /\ \A a \in DOMAIN Seeds : users[a].status = "active"
    /\ otps = [a \in Accounts |-> <<>>]
    /\ sessions = {FirstAdmin}
    /\ handlers = [w \in Workers |-> Idle]

----------------------------------------------------------------------------
(***************************************************************************)
(* Handlers and authorisation.                                             *)
(***************************************************************************)

At(w, step) == handlers[w].step = step
Goto(w, state) == handlers' = [handlers EXCEPT ![w] = state]

\* The handler raises before its commit: rollback.
HandlerFails(w) ==
    /\ ~At(w, "idle")
    /\ Goto(w, Idle)
    /\ UNCHANGED tables

\* Mutant: the flag is not looked at.
SeededAlways(user, a) ==
    IF a \in DOMAIN Seeds THEN [role |-> Seeds[a], status |-> "active"] ELSE user

\* _seed_default_users: a row that is missing is inserted; SYNC_SEEDED_USERS also
\* resets the others.
Seeded(user, a) ==
    IF a \in DOMAIN Seeds /\ (user.status = "none" \/ SyncSeededUsers)
    THEN [role |-> Seeds[a], status |-> "active"]
    ELSE user

\* The process is stopped and started again: requests are lost, and init_db runs.
\* JWT_SECRET is not drawn: the access tokens go on.
Restart ==
    /\ handlers' = [w \in Workers |-> Idle]
    /\ users' = [a \in Accounts |-> Seeded(users[a], a)]
    /\ UNCHANGED <<otps, sessions>>

Active(a) == users[a].status = "active"

\* JWT_TTL_SECONDS have passed.
SessionExpires(a) ==
    /\ sessions' = sessions \ {a}
    /\ UNCHANGED <<users, otps, handlers>>

\* require_roles: an unexpired access token, and the role and status of the row.
Admit(w, a) ==
    /\ At(w, "idle")
    /\ a \in sessions
    /\ Active(a)
    /\ Goto(w, [step |-> "admitted", account |-> a, role |-> users[a].role])
    /\ UNCHANGED tables

\* An administrator may call every handler.
Admitted(w, role) == At(w, "admitted") /\ handlers[w].role \in {role, "ADMIN"}

----------------------------------------------------------------------------
(***************************************************************************)
(* POST /api/auth/login/request-otp, POST /api/auth/email-otp/request      *)
(***************************************************************************)

LoginOtpReadUser(w, a) ==
    /\ At(w, "idle")
    /\ Active(a)
    /\ Goto(w, [step |-> "otp_write", account |-> a])
    /\ UNCHANGED tables

\* The generic endpoint, for one's own account and the purpose LOGIN_MFA.
EmailOtpAdmitted(w) ==
    /\ Admitted(w, "SIGNER")
    /\ Goto(w, [step |-> "otp_write", account |-> handlers[w].account])
    /\ UNCHANGED tables

\* One transaction from the INSERT, through the mail, to the commit.  Earlier OTPs
\* are left as they are.
OtpWrite(w) ==
    LET a == handlers[w].account IN
    /\ At(w, "otp_write")
    /\ Len(otps[a]) < MaxOtps[a]
    /\ otps' = [otps EXCEPT ![a] = Append(@, [used |-> FALSE, attempts |-> 0, logins |-> 0])]
    /\ Goto(w, Idle)
    /\ UNCHANGED <<users, sessions>>

----------------------------------------------------------------------------
(***************************************************************************)
(* POST /api/auth/login/verify-otp, POST /api/auth/email-otp/verify        *)
(***************************************************************************)

\* newest: history, the latest OTP when the call began.
LoginReadUser(w, a) ==
    /\ At(w, "idle")
    /\ Active(a)
    /\ Goto(w, [step |-> "verify_read", account |-> a, login |-> TRUE,
                newest |-> Len(otps[a])])
    /\ UNCHANGED tables

EmailOtpVerifyAdmitted(w) ==
    LET a == handlers[w].account IN
    /\ Admitted(w, "SIGNER")
    /\ Goto(w, [step |-> "verify_read", account |-> a, login |-> FALSE,
                newest |-> Len(otps[a])])
    /\ UNCHANGED tables

\* Mutant: used OTPs are filtered out by the query.
LatestUnused(a) ==
    LET unused == {k \in DOMAIN otps[a] : ~otps[a][k].used} IN
    IF unused = {} THEN 0 ELSE CHOOSE k \in unused : \A j \in unused : j <= k

\* The OTP that verify_email_otp reads: the one with the highest id, 0 for none.
LatestOtp(a) == Len(otps[a])

\* Mutant: the attempt after the last one is let through.
VerifiableOnceMore(a) ==
    LET k == LatestOtp(a) IN
    /\ k # 0
    /\ ~otps[a][k].used
    /\ otps[a][k].attempts <= MaxAttempts

Verifiable(a) ==
    LET k == LatestOtp(a) IN
    /\ k # 0
    /\ ~otps[a][k].used
    /\ otps[a][k].attempts < MaxAttempts

\* The code is compared with the hash of the OTP: ok is the outcome.  A right code
\* may turn out wrong: its hash may have been made with a pepper lost at a restart.
VerifyCompare(w, ok) ==
    LET h == handlers[w]
        k == LatestOtp(h.account) IN
    /\ At(w, "verify_read")
    /\ Verifiable(h.account)
    /\ Goto(w, [step |-> "verify_write", account |-> h.account, login |-> h.login,
                newest |-> h.newest, otp |-> k,
                attempts |-> otps[h.account][k].attempts + 1, ok |-> ok])
    /\ UNCHANGED tables

\* No OTP, one that cannot be verified any more, or one that has expired, which it
\* may have at any time.
VerifyRefused(w) ==
    /\ At(w, "verify_read")
    /\ Goto(w, Idle)
    /\ UNCHANGED tables

\* Mutant: a right code is not marked as used.
SpendOtpUnmarked(otp, h) ==
    [otp EXCEPT !.attempts = h.attempts,
                !.logins = IF h.ok /\ h.login /\ @ <= Cardinality(Workers) THEN @ + 1 ELSE @]

\* attempt_count and used_at are assigned from the row that was read.
SpendOtp(otp, h) ==
    [otp EXCEPT !.attempts = h.attempts,
                !.used = @ \/ h.ok,
                !.logins = IF h.ok /\ h.login /\ @ <= Cardinality(Workers) THEN @ + 1 ELSE @]

\* The commit, and the access token of a login.
VerifyWrite(w) ==
    LET h == handlers[w] IN
    /\ At(w, "verify_write")
    /\ otps' = [otps EXCEPT ![h.account][h.otp] = SpendOtp(@, h)]
    /\ sessions' = IF h.ok /\ h.login
                   THEN sessions \cup {h.account}
                   ELSE sessions
    /\ Goto(w, Idle)
    /\ UNCHANGED <<users>>

----------------------------------------------------------------------------
(***************************************************************************)
(* /api/admin/users                                                        *)
(***************************************************************************)

\* Mutant: every column is written, the others as they were read.
AssignedWholeRow(user, asked) ==
    [c \in {"role", "status"} |-> IF asked[c] = Keep THEN user[c] ELSE asked[c]]

\* The columns an update writes: those asked for that differ from the row.
Assigned(user, asked) ==
    [c \in {"role", "status"} |-> IF asked[c] = user[c] THEN Keep ELSE asked[c]]

ApplyTo(user, assigned) ==
    [c \in {"role", "status"} |-> IF assigned[c] = Keep THEN user[c] ELSE assigned[c]]

\* create_user: 409 for an address that is taken.
CreateUserRead(w, a, asked) ==
    /\ Admitted(w, "ADMIN")
    /\ users[a].status = "none"
    /\ Keep \notin {asked.role, asked.status}
    /\ Goto(w, [step |-> "user_insert", account |-> a, asked |-> asked, assigned |-> asked])
    /\ UNCHANGED tables

\* update_user: 400 when nothing changes.
UpdateUserRead(w, a, asked) ==
    LET assigned == Assigned(users[a], asked) IN
    /\ Admitted(w, "ADMIN")
    /\ users[a].status # "none"
    /\ \E c \in {"role", "status"} : asked[c] \notin {Keep, users[a][c]}
    /\ Goto(w, [step |-> "user_update", account |-> a, asked |-> asked, assigned |-> assigned])
    /\ UNCHANGED tables

\* _set_user_status: disable_user and enable_user.
SetUserStatusRead(w, a, status) ==
    /\ status \in {ask.status : ask \in Asks}
    /\ UpdateUserRead(w, a, [role |-> Keep, status |-> status])

\* The primary key refuses the second of two rows: the handler then fails.
CreateUserWrite(w) ==
    LET h == handlers[w] IN
    /\ At(w, "user_insert")
    /\ users[h.account].status = "none"
    /\ users' = [users EXCEPT ![h.account] = ApplyTo(@, h.assigned)]
    /\ Goto(w, Idle)
    /\ UNCHANGED <<otps, sessions>>

UpdateUserWrite(w) ==
    LET h == handlers[w] IN
    /\ At(w, "user_update")
    /\ users' = [users EXCEPT ![h.account] = ApplyTo(@, h.assigned)]
    /\ Goto(w, Idle)
    /\ UNCHANGED <<otps, sessions>>

----------------------------------------------------------------------------
Login(w) ==
    \/ \E a \in Accounts : LoginOtpReadUser(w, a) \/ LoginReadUser(w, a)
    \/ EmailOtpAdmitted(w) \/ EmailOtpVerifyAdmitted(w)
    \/ OtpWrite(w)
    \/ \E ok \in BOOLEAN : VerifyCompare(w, ok)
    \/ VerifyRefused(w) \/ VerifyWrite(w)

Administrate(w) ==
    \/ \E a \in Accounts, asked \in Asks : CreateUserRead(w, a, asked) \/ UpdateUserRead(w, a, asked)
    \/ \E a \in Accounts, status \in {"active", "disabled"} : SetUserStatusRead(w, a, status)
    \/ CreateUserWrite(w) \/ UpdateUserWrite(w)

Next ==
    \/ \E a \in Accounts : SessionExpires(a)
    \/ Restart
    \/ \E w \in Workers :
           \/ \E a \in Accounts : Admit(w, a)
           \/ HandlerFails(w) \/ Login(w) \/ Administrate(w)

Spec == Init /\ [][Next]_vars

----------------------------------------------------------------------------
(***************************************************************************)
(* Properties.                                                             *)
(***************************************************************************)

\* Every table and every thread holds values of its type.
TypeOK ==
    /\ users \in [Accounts -> User]
    /\ otps \in [Accounts -> Seq(Otp)]
    /\ sessions \in SUBSET Accounts
    /\ handlers \in [Workers -> HandlerState]

\* A login code gives one access token; calls that overlap may each get one, but
\* never more than there are threads, whatever is retried.
SessionsPerCode ==
    \A a \in Accounts : \A k \in DOMAIN otps[a] : otps[a][k].logins <= Cardinality(Workers)

\* A code that a newer one had replaced when the call began gives no access token,
\* not even when the newer one is used up.
SupersededCodeIsDead ==
    [][\A w \in Workers :
          At(w, "verify_write") /\ sessions' # sessions /\ handlers'[w] = Idle
              => handlers[w].otp >= handlers[w].newest]_vars

\* A role or a status only changes to what the call that commits has asked for: of
\* two administrators who change an account at once, one's role change never
\* undoes the other's disabling.  At a restart a seeded account only changes if the
\* flag is set, and then to its seed.
ChangesAreAskedFor ==
    [][\A a \in Accounts : \A c \in {"role", "status"} :
          users'[a][c] # users[a][c] =>
              \/ \E w \in Workers : /\ At(w, "user_insert") \/ At(w, "user_update")
                                    /\ handlers[w].account = a
                                    /\ handlers[w].asked[c] = users'[a][c]
              \/ SyncSeededUsers /\ Restart]_vars
=============================================================================
