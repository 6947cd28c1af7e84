------------------------------ MODULE TotpSetup -----------------------------
(***************************************************************************)
(* The authenticator of one account: create_totp_setting,                  *)
(* verify_totp_setup and verify_enabled_totp_for_email of auth_utils.py,   *)
(* behind /api/auth/totp and the confirmation of a signing request.        *)
(*                                                                         *)
(* A handler reads the account's row of user_mfa_settings in one step and  *)
(* writes it in another.  The session's UPDATE names only the columns      *)
(* whose value differs from the one that was read, so a column assigned    *)
(* the value it had is not written.                                        *)
(***************************************************************************)
EXTENDS Integers, FiniteSets

CONSTANTS
    Workers,     \* threads that run handlers
    KeyIsStable, \* whether SECUREDOC_TOTP_ENCRYPTION_KEY is configured
    MaxSecrets,  \* bound of the runs: set-ups
    MaxRestarts  \* bound of the runs: restarts of the process

ASSUME ConstantsAssumption ==
    /\ KeyIsStable \in BOOLEAN
    /\ {MaxSecrets, MaxRestarts} \subseteq Nat

VARIABLES
    setting,  \* the row: secrets are numbered in the order they are stored, 0 is no row
    key,      \* the key secrets are encrypted with, numbered by process
    restarts,
    proved,   \* history: the secrets for which a right code was accepted
    raced,    \* history: a set-up and a verification of one overlapped
    used,     \* history: the secret of each confirmation that succeeded
    handlers  \* what each thread is doing, with the row it has read

vars == <<setting, key, restarts, proved, raced, used, handlers>>

NoSecret == 0
Secrets == 1..MaxSecrets
Setting == [secret : Secrets \cup {NoSecret}, key : 0..MaxRestarts, enabled : BOOLEAN]

Idle == [step |-> "idle"]
HandlerState == {Idle} \cup [step : {"setup_write", "enable_write", "use_write"}, read : Setting]

Init ==
    /\ setting = [secret |-> NoSecret, key |-> 0, enabled |-> FALSE]
    /\ key = 0
    /\ restarts = 0
    /\ proved = {}
    /\ raced = FALSE
    /\ used = {}
    /\ handlers = [w \in Workers |-> Idle]

----------------------------------------------------------------------------
At(w, step) == handlers[w].step = step
Goto(w, state) == handlers' = [handlers EXCEPT ![w] = state]
InFlight(step) == \E w \in Workers : At(w, step)

\* The handler raises before its commit: rollback.
HandlerFails(w) ==
    /\ ~At(w, "idle")
    /\ Goto(w, Idle)
    /\ UNCHANGED <<setting, key, restarts, proved, raced, used>>

\* The process dies and starts again, with a new key unless one is configured.
Restart ==
    /\ restarts < MaxRestarts
    /\ restarts' = restarts + 1
    /\ key' = IF KeyIsStable THEN key ELSE restarts + 1
    /\ handlers' = [w \in Workers |-> Idle]
    /\ UNCHANGED <<setting, proved, raced, used>>

\* Mutant: that there may be no row is forgotten.
DecryptableUnset == setting.key = key

\* _decrypt_totp_secret: a secret of an earlier process may not be readable any more.
Decryptable == setting.secret # NoSecret /\ setting.key = key

----------------------------------------------------------------------------
(***************************************************************************)
(* POST /api/auth/totp/setup                                               *)
(***************************************************************************)

\* Mutant: an enabled setting is not refused.
SetupReadEnabled(w) ==
    /\ At(w, "idle")
    /\ Goto(w, [step |-> "setup_write", read |-> setting])
    /\ UNCHANGED <<setting, key, restarts, proved, raced, used>>

\* An enabled setting is refused with a 403.
SetupRead(w) ==
    /\ At(w, "idle")
    /\ ~setting.enabled
    /\ Goto(w, [step |-> "setup_write", read |-> setting])
    /\ UNCHANGED <<setting, key, restarts, proved, raced, used>>

\* Mutant: enabled is written although it was 0 when read.
StoreSecretWholeRow(row, s) == [secret |-> s, key |-> key, enabled |-> FALSE]

\* enabled and verified_at are assigned what they were, and are not in the UPDATE.
StoreSecret(row, s) == [row EXCEPT !.secret = s, !.key = key]

\* The first set-up inserts the row.  When another has come first, the unique
\* address refuses it: HandlerFails.
SetupWrite(w) ==
    /\ At(w, "setup_write")
    /\ handlers[w].read.secret = NoSecret => setting.secret = NoSecret
    /\ setting.secret < MaxSecrets
    /\ setting' = StoreSecret(setting, setting.secret + 1)
    /\ raced' = (raced \/ InFlight("enable_write"))
    /\ Goto(w, Idle)
    /\ UNCHANGED <<key, restarts, proved, used>>

----------------------------------------------------------------------------
(***************************************************************************)
(* POST /api/auth/totp/verify-setup                                        *)
(***************************************************************************)

\* A right code for the secret that was read; a wrong one changes nothing.
EnableRead(w) ==
    /\ At(w, "idle")
    /\ Decryptable
    /\ Goto(w, [step |-> "enable_write", read |-> setting])
    /\ UNCHANGED <<setting, key, restarts, proved, raced, used>>

EnableWrite(w) ==
    /\ At(w, "enable_write")
    /\ setting' = [setting EXCEPT !.enabled = TRUE]
    /\ proved' = proved \cup {handlers[w].read.secret}
    /\ raced' = (raced \/ InFlight("setup_write"))
    /\ Goto(w, Idle)
    /\ UNCHANGED <<key, restarts, used>>

----------------------------------------------------------------------------
(***************************************************************************)
(* The confirmation of a signing request by a TOTP code                    *)
(***************************************************************************)

UseRead(w) ==
    /\ At(w, "idle")
    /\ setting.enabled
    /\ Decryptable
    /\ Goto(w, [step |-> "use_write", read |-> setting])
    /\ UNCHANGED <<setting, key, restarts, proved, raced, used>>

\* Only last_used_at changes.
UseWrite(w) ==
    /\ At(w, "use_write")
    /\ used' = used \cup {handlers[w].read.secret}
    /\ Goto(w, Idle)
    /\ UNCHANGED <<setting, key, restarts, proved, raced>>

----------------------------------------------------------------------------
Next ==
    \/ Restart
    \/ \E w \in Workers :
           \/ HandlerFails(w)
           \/ SetupRead(w) \/ SetupWrite(w)
           \/ EnableRead(w) \/ EnableWrite(w)
           \/ UseRead(w) \/ UseWrite(w)

Spec == Init /\ [][Next]_vars

----------------------------------------------------------------------------
(***************************************************************************)
(* Properties.                                                             *)
(***************************************************************************)

\* The row, the threads and the history hold values of their types.
TypeOK ==
    /\ setting \in Setting
    /\ key \in 0..MaxRestarts
    /\ restarts \in 0..MaxRestarts
    /\ proved \in SUBSET Secrets
    /\ raced \in BOOLEAN
    /\ used \in SUBSET Secrets
    /\ handlers \in [Workers -> HandlerState]

\* No call takes TOTP away from an account that has enabled it, not even a set-up
\* that read the row before; and a confirmation is by a secret whose code was accepted
\* in a set-up, unless a set-up and a verification overlapped.
EnabledIsProved ==
    [][/\ setting.enabled => setting'.enabled
       /\ raced' \/ used' \subseteq proved']_vars

\* Why that holds: a code is only compared with a secret that could be read,
ReadsASecret ==
    \A w \in Workers :
        At(w, "enable_write") \/ At(w, "use_write") => handlers[w].read.secret # NoSecret

\* and, as long as no set-up and verification overlapped, a verification is of the
\* secret that is stored, a set-up works on a setting that is not enabled, and an
\* enabled setting has a proved secret: the one a confirmation has read.
ProvesTheStored ==
    \/ raced
    \/ /\ used \subseteq proved
       /\ setting.enabled => setting.secret \in proved
       /\ \A w \in Workers :
             /\ At(w, "enable_write") => handlers[w].read.secret = setting.secret
             /\ At(w, "setup_write") => ~setting.enabled
             /\ At(w, "use_write") => handlers[w].read.secret \in proved

TotpInv == TypeOK /\ ReadsASecret /\ ProvesTheStored
=============================================================================
