----------------------------- MODULE BlindToken -----------------------------
(***************************************************************************)
(* The blind-signature token demo of routes_blind.py: a session is         *)
(* created, its blinded message is signed, the final signature is          *)
(* verified, and the token is redeemed.                                    *)
(*                                                                         *)
(* As in SigningRequests, a handler loads the row of the session outside   *)
(* any transaction and commits its assignments later.  The object-         *)
(* relational mapper writes only the columns whose value differs from the  *)
(* one it has loaded.                                                      *)
(***************************************************************************)
EXTENDS BlindRsa

CONSTANTS
    Sessions, \* session ids
    Workers,  \* threads that run handlers
    Messages, \* token hashes, as integers below the modulus
    Ttl,      \* ttlSeconds
    MaxTime   \* bound of the runs: the clock stops here

ASSUME ConstantsAssumption ==
    /\ Messages \subseteq 1..(N - 1)
    /\ Ttl \in Nat /\ MaxTime \in Nat

VARIABLES
    now,        \* utc_now(), in ticks
    sessions,   \* table blind_signature_sessions
    handlers,   \* what each thread is doing, with the values it has read
    redemptions \* history: successful redemptions of each session

vars == <<now, sessions, handlers, redemptions>>

Time == 0..MaxTime
NoValue == 0
Statuses == {"none", "created", "blind_signed", "verified", "spent", "expired"}
\* What the server signs, and what a client makes of it.
Signatures == {SignBlinded(BlindMessage(m, r)) : m \in Messages, r \in BlindingFactors}
Finals == Signatures \cup {Unblind(b, r) : b \in Signatures, r \in BlindingFactors}

Session == [status : Statuses, message : Messages \cup {NoValue},
            factor : BlindingFactors \cup {NoValue}, expiresAt : Nat,
            blindSignature : Signatures \cup {NoValue}, finalSignature : Finals \cup {NoValue},
            spent : BOOLEAN]

Idle == [step |-> "idle"]
HandlerState ==
    {Idle} \cup [step : {"sign_write", "verify_write", "redeem_write"}, session : Sessions,
                 seen : Statuses, final : Finals \cup {NoValue}, past : Nat]

Init ==
    /\ now = 0
    /\ sessions = [s \in Sessions |->
           [status |-> "none", message |-> NoValue, factor |-> NoValue, expiresAt |-> 0,
            blindSignature |-> NoValue, finalSignature |-> NoValue, spent |-> FALSE]]
    /\ handlers = [w \in Workers |-> Idle]
    /\ redemptions = [s \in Sessions |-> 0]

----------------------------------------------------------------------------
Tick ==
    /\ now < MaxTime
    /\ now' = now + 1
    /\ UNCHANGED <<sessions, handlers, redemptions>>

At(w, step) == handlers[w].step = step
Goto(w, state) == handlers' = [handlers EXCEPT ![w] = state]

\* past: how often the session had been redeemed when its row was read (history).
Load(w, step, s, final) ==
    Goto(w, [step |-> step, session |-> s, seen |-> sessions[s].status, final |-> final,
             past |-> redemptions[s]])

\* The handler raises before its commit: rollback.
HandlerFails(w) ==
    /\ ~At(w, "idle")
    /\ Goto(w, Idle)
    /\ UNCHANGED <<now, sessions, redemptions>>

Live(s) == sessions[s].status # "none" /\ now <= sessions[s].expiresAt
IsExpired(s) == sessions[s].status # "none" /\ now > sessions[s].expiresAt

\* The value a status column has after an assignment is committed.
\* (A token has one final signature that verifies: of that column, it is all the same
\* whether it is written again.)
StatusAfter(h, status) ==
    IF h.seen = status THEN sessions[h.session].status ELSE status

\* POST /sessions
CreateSession(s, message, factor) ==
    /\ sessions[s].status = "none"
    /\ sessions' = [sessions EXCEPT ![s].status = "created", ![s].message = message,
                                    ![s].factor = factor, ![s].expiresAt = now + Ttl]
    /\ UNCHANGED <<now, handlers, redemptions>>

MarkExpired(s) ==
    /\ IsExpired(s)
    /\ sessions' = [sessions EXCEPT ![s].status = "expired"]
    /\ UNCHANGED <<now, handlers, redemptions>>

\* sign and verify look at the deadline only: a spent session becomes expired too.
SignExpired(s) == MarkExpired(s)
VerifyExpired(s) == MarkExpired(s)

----------------------------------------------------------------------------
\* POST /sign, for the blinded message of the session

SignRead(w, s) ==
    /\ At(w, "idle")
    /\ Live(s)
    /\ Signable(BlindMessage(sessions[s].message, sessions[s].factor))
    /\ Load(w, "sign_write", s, NoValue)
    /\ UNCHANGED <<now, sessions, redemptions>>

SignWrite(w) ==
    LET h == handlers[w]
        s == sessions[h.session] IN
    /\ At(w, "sign_write")
    /\ sessions' = [sessions EXCEPT
           ![h.session].blindSignature = SignBlinded(BlindMessage(s.message, s.factor)),
           ![h.session].status = StatusAfter(h, "blind_signed")]
    /\ Goto(w, Idle)
    /\ UNCHANGED <<now, redemptions>>

----------------------------------------------------------------------------
\* POST /verify

\* What a client that has got the blind signature presents: the unblinded
\* signature, or the blind signature as it is, by mistake.
Presented(s) ==
    LET blind == sessions[s].blindSignature IN
    IF blind = NoValue THEN {} ELSE {blind, Unblind(blind, sessions[s].factor)}

\* An invalid signature, or another session's token, changes nothing.
VerifyRead(w, s, final) ==
    /\ At(w, "idle")
    /\ Live(s)
    /\ VerifyFinal(sessions[s].message, final)
    /\ Load(w, "verify_write", s, final)
    /\ UNCHANGED <<now, sessions, redemptions>>

VerifyWrite(w) ==
    LET h == handlers[w] IN
    /\ At(w, "verify_write")
    /\ sessions' = [sessions EXCEPT
           ![h.session].finalSignature = h.final,
           ![h.session].status = IF h.seen = "spent" THEN @ ELSE StatusAfter(h, "verified")]
    /\ Goto(w, Idle)
    /\ UNCHANGED <<now, redemptions>>

----------------------------------------------------------------------------
\* POST /redeem

\* Mutant: only the status is looked at.
AlreadySpentByStatus(s) == sessions[s].status = "spent"

AlreadySpent(s) == sessions[s].status = "spent" \/ sessions[s].spent

RedeemExpired(s) == ~AlreadySpent(s) /\ MarkExpired(s)

\* Mutant: the signature is not verified again.
RedeemReadUnverified(w, s, final) ==
    /\ At(w, "idle")
    /\ ~AlreadySpent(s)
    /\ Live(s)
    /\ Load(w, "redeem_write", s, final)
    /\ UNCHANGED <<now, sessions, redemptions>>

RedeemRead(w, s, final) ==
    /\ At(w, "idle")
    /\ ~AlreadySpent(s)
    /\ Live(s)
    /\ VerifyFinal(sessions[s].message, final)
    /\ Load(w, "redeem_write", s, final)
    /\ UNCHANGED <<now, sessions, redemptions>>

RedeemWrite(w) ==
    LET h == handlers[w] IN
    /\ At(w, "redeem_write")
    /\ sessions' = [sessions EXCEPT ![h.session].finalSignature = h.final,
                                    ![h.session].status = StatusAfter(h, "spent"),
                                    ![h.session].spent = TRUE]
    /\ redemptions' = [redemptions EXCEPT ![h.session] = @ + 1]
    /\ Goto(w, Idle)
    /\ UNCHANGED now

----------------------------------------------------------------------------
Next ==
    \/ Tick
    \/ \E s \in Sessions : SignExpired(s) \/ VerifyExpired(s) \/ RedeemExpired(s)
    \/ \E s \in Sessions, m \in Messages, r \in BlindingFactors : CreateSession(s, m, r)
    \/ \E w \in Workers :
          HandlerFails(w) \/ SignWrite(w) \/ VerifyWrite(w) \/ RedeemWrite(w)
    \/ \E w \in Workers, s \in Sessions : SignRead(w, s)
    \/ \E w \in Workers, s \in Sessions : \E final \in Presented(s) :
          VerifyRead(w, s, final) \/ RedeemRead(w, s, final)

Spec == Init /\ [][Next]_vars

----------------------------------------------------------------------------
(***************************************************************************)
(* Properties.                                                             *)
(***************************************************************************)

\* The sessions and the threads hold values of their types; nothing but what came from
\* the arithmetic is stored as a signature.
TypeOK ==
    /\ now \in Time
    /\ sessions \in [Sessions -> Session]
    /\ handlers \in [Workers -> HandlerState]
    /\ redemptions \in [Sessions -> Nat]

\* However the status of a spent session is rewritten by sign, verify or the deadline, a
\* token is redeemed again only by a call that had read the session before the first
\* redemption committed: one that begins later never redeems.  The second redeem that
\* docs/api.md:842 says fails can succeed in this way, and in no other.
RedeemedOnlyByOverlap ==
    [][\A s \in Sessions :
          redemptions'[s] > redemptions[s] =>
              \E w \in Workers :
                  /\ At(w, "redeem_write") /\ handlers[w].session = s
                  /\ handlers'[w] = Idle
                  /\ handlers[w].past = 0]_vars

\* Taking the factor off a blind signature gives a signature that verifies for the
\* token, for every message and every factor that can be drawn.
UnblindedVerifies ==
    \A s \in Sessions :
        LET row == sessions[s] IN
        row.blindSignature # NoValue =>
            VerifyFinal(row.message, Unblind(row.blindSignature, row.factor))

\* A token is redeemed only after its session was signed, with the row keeping a final
\* signature of that token, whichever of verify and redeem wrote it last, and whatever
\* sign wrote in between.
RedeemsSignedToken ==
    \A s \in Sessions :
        LET row == sessions[s] IN
        redemptions[s] > 0 =>
            /\ row.spent
            /\ row.blindSignature # NoValue
            /\ VerifyFinal(row.message, row.finalSignature)
=============================================================================
