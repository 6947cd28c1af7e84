# A verification project for SecureDoc

SecureDoc is a document-signing demo: a FastAPI backend over SQLAlchemy and
SQLite, and a React client that signs in the browser. This directory holds TLA+
modules that model the parts of the backend with state, TLC configurations that
check them on small instances, and TLAPS proofs about all of them. Paths are
relative to the repository; line numbers are those of the modelled commit.

`PROJECT.json` maps every definition to the lines it models, lists the runs, the
mutants, the hazards and the findings.

## 1. Inventory

### How the system runs

Endpoints declared with `def` run in a pool of threads; `async def` endpoints
(`store_document`, `update_document_content`, PAdES, the rate-limiting
middleware) share one event loop and are suspended only at an `await`. Every
request has a database session of its own (`database.py:16`, `autoflush=False`).
On SQLite this gives the isolation all modules are built on:

* a SELECT before the first write runs outside any transaction: two SELECTs of
  one handler may see two different databases;
* the first flush begins a transaction and takes the single write lock, which is
  held until the commit; a thread that waits too long for it gets an error, and
  its session is rolled back;
* a row that a session has loaded is not loaded again, and an assignment writes
  the value computed from what was loaded, only for columns that changed.

So a handler is a few *read steps* and one *write step*, and may stop (rollback)
before its write. There is no queue, no background job and no message; handlers
interact through the tables and files they share. Files are outside the
transactions: a file is created empty and then filled, and stays as it is when
the process is killed between the two.

### Components

| Component | State | Operations | What makes it correct | Module |
|---|---|---|---|---|
| Signing requests (`routes_v2.py` 865-1353, `auth_utils.py` 123-271) | `signing_requests`, `email_otp_tokens`, `used_nonces`, `signature_records`, the certificate's row | prepare, OTP request, confirm, submit, revoke | one signature per request, confirmed by a second factor in time, never after a revocation; OTPs are used once; what is accepted is recorded | `SigningRequests` implementing `SigningProtocol` |
| Audit log (`audit_service.py`, `routes_v2.py` 2006-2079) | `audit_logs` | `log_audit` from every handler, verify-chain, export | an edit of what a hash covers is found, an event is not lost, an honest log verifies | `AuditChain`, `AuditChainProofs` |
| Revocation and verification (`routes_v2.py` 1356-1924) | `certificates`, `certificate_revocations`, the timestamp in a package | revoke, submit, verify | signatures older than the revocation stay good, others are turned down, and stay so unless a confirmation was under way | `CertificateTrust` |
| Document store (`routes_v2.py` 223-236, 730-862) | `documents`, files named by content hash | store, update, mark-signed | a signed document does not change; rows refer to whole files | `DocumentStore` |
| Blind tokens (`routes_blind.py`, `blind_signature.py`) | `blind_signature_sessions` | create, sign, verify, redeem | a token is redeemed once unless calls overlap, and only if it was signed | `BlindToken` over `BlindRsa` |
| Demo CA, TSA and PAdES key files (`x509_utils.py`, `pades_utils.py`, `crypto_utils.py`, `blind_signature.py`) | twelve PEM files | created at startup or on demand | keys and certificates match after a race or a crash, no key that has signed is replaced, the server comes up | `KeyFiles` |
| Accounts (`routes_auth.py`, `routes_admin.py`, `security.py`, `auth_utils.py` 103-215) | `users`, login OTPs, access tokens | login, role check, admin changes | a code logs in at most once per thread and never once replaced; an account only changes as asked, restarts included | `Accounts` |
| Authenticator (`auth_utils.py` 281-342) | `user_mfa_settings`, the process's key | set up, verify, confirm | TOTP stays enabled; it confirms with a secret that was verified | `TotpSetup`, proofs in `AccountsProofs` |
| Rate limiter (`main.py` 73-99) | request times per client | middleware | a window admits at most its limit; a client is not kept out for ever | `RateLimiter` implementing `SlidingWindow` |
| Signed CRL (`routes_v2.py` 1951-2003, `x509_utils.py` 403-415) | none of its own | made from two SELECTs | it agrees with the verification | in `CertificateTrust` |
| Seeding (`database.py` 26-59) | rows of `users` | at every start | changes by administrators outlive a restart | in `Accounts` |
| Configuration, primitives, legacy v1, web client | none of their own, or libraries | | | not modelled, see section 6 |

### Hard behaviours

Interleaved handlers that read before the write lock and write after it; partial
writes committed by an error path (`_reject_submit`); deadlines that pass
during a handler; retries of calls that already succeeded; an `await` between a
check and its use; a process killed while it writes a file, or between two files
that belong together; restarts that keep the tables and lose the rest.
`PROJECT.json` lists each at its line with the property that watches it.

## 2. Modules

**SigningProtocol** is the abstract promise: per request a `phase` that goes
from unknown to prepared, confirmed and accepted, each at most once.

**SigningRequests** is the detailed workflow of one signer with one certificate.
`requests`, `tokens`, `certificate`, `usedNonces` and `signatures` are the
tables, `handlers` is what each thread has read so far, `now` the clock.

| Code | Actions |
|---|---|
| `prepare_signing_request` | `PrepareReadCertificate`, `PrepareWrite` |
| `request_signing_email_otp`, `create_signing_email_otp` | `OtpRequestExpired`, `OtpReadRequest`, `OtpReadLatest` (cooldown), `OtpReadStale`, `OtpWrite` |
| `confirm_signing_request`, `verify_*` | `ConfirmExpired`, `ConfirmReadRequest`, `ConfirmTokenRefused`, `ConfirmCompareEmailOtp`, `ConfirmCompareTotp`, `ConfirmWrite` |
| `submit_signature` | `SubmitPayloadExpired`, `SubmitRequestExpired`, `SubmitReadRequest`, `SubmitReadNonce`, `SubmitReadCertificate`, then `SubmitWrite`, `SubmitTimestampRejected` or `SubmitConflict` |
| `revoke_v2` | `RevokeReadCertificate`, `RevokeWrite` |
| an exception, a lock timeout, a killed process | `HandlerFails` |
| `verify_v2`, the server's side of its answer | `ServerAccepted` |

The package of a submission names a request `r` and carries the nonce and
deadline of a request `n`, equal to `r` unless the client mixes two packages
up. The payload's own deadline is the client's to choose and is compared with the
clock before anything else, so `SubmitPayloadExpired` may mark any request expired at
any time; the other three expiries look at the deadline of the row (`Expire`). Early
rejections that write only the audit log are stutters here. The history variable
`firstConfirmed` serves the properties only.

**AuditChain** models `log_audit` as a read of the last hash and an insert,
handlers that log once or twice in a transaction, handlers that already hold the
lock, `_audit_chain_status`, and the export: its
own event, the SELECT the chain is checked on (`ExportReadChain`) and the SELECT
whose events are shown. The session hands out the objects it has loaded, so the
second SELECT refreshes nothing (`Shown`). A hash is the sequence of contents it
covers, so it is injective and nothing else. Rows are edited outside the program, as
the tests do: a column the hash covers (`Edit`), `document_hash` or
`certificate_serial`, which it does not (`EditUncovered`), and the two hash columns
(`EditHashes`: chained to any hash of the log, computed anew or not), each to another
value or back. `content` and `uncovered` stand for the two groups of columns. No row
is deleted: a log whose newest rows are gone is a valid one, and nothing says
otherwise.

**CertificateTrust** takes the revocation rows, the status of each request with the
confirmation that writes `mfa_confirmed` from an old read of it, the token a submission issues
and the decision of `verify_v2` as an operator, `Verdict`, over what is wrong
with the package presented (`Flaws`, in the order of the checks; `Verdict` stops at
the first that fails, as the code does) and which timestamp token it brings. The CRL is three steps: the revoked rows (`CrlRead`),
the revocation of each (`CrlLatest`), the time and the signature (`CrlSign`); `crl` is the
last one made. `SigningRequests` keeps only when a certificate was first revoked;
the rows are here.

**DocumentStore** separates the coroutines of the event loop (`LoopBusy`: no
other coroutine runs between the upload and the commit) from the plain function
`mark_document_signed`, and keeps a file absent, partial or whole. A row has the
columns that come from the form (name and type, one value here) and those that
come from the bytes (hash, size and path); `AssignUpload` writes a column only
where it differs from the row as it was loaded.

**BlindRsa** is the arithmetic over a small modulus, with the unit group, the
factors that can be drawn and the inverse computed by definition; **BlindToken**
is the life of a session over it. What a handler has loaded includes how often the
session had been redeemed by then (`past`, history).

**Accounts** starts every authenticated call with `Admit` (`require_roles`: an
unexpired token, the role and status of the row) and then does what the role
allows: a code of its own through the generic endpoints, or the creation and
update of users. An update is two steps around the lock; `Assigned` is the set of
columns SQLAlchemy will write, those that differ from the row as it was read. Only
codes of the purpose LOGIN_MFA are kept, since no query mixes purposes. Time is
abstracted: a code may be refused as expired and a token end at any moment.
`Restart` loses the requests, keeps rows and access tokens, and seeds the default
users (`Seeded`); a right code may always be taken as wrong, which includes a
pepper that was drawn anew.

**TotpSetup** is the row of one account. `handlers` holds the row as each call
read it, `key` the key a process without configuration draws when it starts.
`StoreSecret` leaves `enabled` alone: create_totp_setting assigns it the 0 it has
read, which the session does not write.

**KeyFiles** holds the twelve files, each absent, torn, or a key or certificate
named by numbers. `stage` is how far `on_startup` has come and `todo` the writes an
actor (startup, or a thread of a handler) has still to make, in order; every write is
`OpenFile` and then `CloseFile`. `Crash` may come at any step and `WriteFails` at
any handler's write.

| Code | Actions |
|---|---|
| `on_startup` | `Start`, then `LegacyCa`, `RootCa`, `IntermediateCa`, `BlindSigner`, each of which may be the end of the process (`StartupFails`) |
| `issue_user_x509_certificate`, `build_signed_demo_crl`, blind signing, v1 certificates | `SignWithStartupKeys` |
| `ensure_demo_tsa_key`, `issue_timestamp_token` | `TsaLoad`, `TsaCreate`, `TsaCreated` |
| `ensure_demo_pades_signer`, `sign_pdf_pades` (run in the thread pool) | `SignerCreate`, `SignerLoadKey`, `SignerSign` |

**SlidingWindow** is what a client is promised; **RateLimiter** is the middleware,
whose lists are pruned when the next call comes and not stored when that call is
turned away. The middleware awaits nothing between reading and storing a list, so a
call is one step. `recent`, the part of a list that is young enough, is the
refinement mapping; `answers`, what each client was last answered in this unit of
time, is part of both, so that the limiter can neither serve nor turn away a call
where the promise would not. A call turned away for its size (413) changes nothing.
`time.time` is taken as a clock that does not go back.

Each `*Proofs` module extends the module it is named for and adds the inductive
invariant, where that is not in the module itself, the lemmas and the theorems of
section 5. The last section of `AccountsProofs` is about an instance of `TotpSetup`.

The `MC*` modules add symmetry sets for TLC, where model values are
interchangeable: no module distinguishes two requests, threads, packages,
contents or documents, and every property is symmetric in them.

## 3. Runs

| Run | Shows | Bounds, and why they are enough |
|---|---|---|
| `signing_submit` | at most one signature, in time, confirmed, not after a revocation; a stored one is reported as accepted unless a call marks its request expired; `Spec` implements `SigningProtocol` | 2 requests (a mixed-up package needs two), 2 threads (each race here is between two handlers), clock 0..3 with TTL 2 and the certificate's end at 2, so that both deadlines pass while handlers run; TOTP only (`MaxTokens = 0`) |
| `signing_otp` | tokens are closed for good; unused tokens are bounded by the concurrent resends | 1 request (tokens of different requests never meet), 3 tokens of 2 attempts, 2 threads, clock 0..1 with TTL and cooldown 1 so that a resend is allowed and refused |
| `accounts` | a code logs in at most once per thread, and not once replaced; roles and statuses change only as asked, through restarts | an administrator and a signer, both seeded, 2 threads, 2 codes of 2 attempts (a replaced code, a lost attempt); the administrator's own codes are left out, administrators create signers and update one column at a time (`Asks`), which is what the race of two updates needs; two roles; `SYNC_SEEDED_USERS` off, as it is by default and always in production |
| `totp_setup` | TOTP is never taken away, and what it is enabled with was verified unless calls overlapped | 3 threads (a set-up, a verification, a confirmation), 3 secrets (one replaced, one after it), 1 restart with a new key |
| `failed_timestamp` | finding: accepted without a record | one request |
| `audit_chain` | edits of covered columns found, events extended, forks explained, breaks mended by nothing but an edit, reports coherent | 2 threads (a fork, or one that logs while the other exports), 3 events (a fork and an event after it, or one that an export sees late), 3 edits (an event, its hash and the hash after it; or an edit, another one and the first taken back), 2 values of each group of columns |
| `certificate_trust` | which packages are found good under revocation, expiry and races; only a confirmation under way takes a rejection back; the CRL agrees with the verdict | 1 package (the checks of one never look at another), 3 threads (two revocations and a submission or a CRL; two confirmations and a submission), 3 revocation rows, clock 0..3 with expiry after 2 (a revocation before, at and after the token) |
| `document_store` | rows refer to files, versions follow signed documents and these stay signed, a row is one upload | 2 documents (a document and its next version), 2 names and 2 contents in 3 of the 4 pairs (the fourth is the row nobody uploaded), 2 requests |
| `signed_overwritten` | finding: content of a signed document is replaced | the same |
| `blind_token` | a second redemption only by a call that had read the session before the first; redeemed tokens were signed; unblinding is right (`UnblindedVerifies`) | modulus 15 with e = d = 3, messages that are and are not units, every factor; 1 session (sessions never meet), 2 threads |
| `key_files` | files that fit together whenever the server is up; keys that have signed are kept; PDFs verify; the server comes up | startup and 2 threads (two creations that overlap), 2 faults (one leaves half a pair, one more cuts off its repair), keys 1..12, more than are ever in use at once: the bound is in the guards of what draws one (`KeyLeft`), and holds nothing back |
| `rate_limiter` | the limiter serves and turns away as a sliding window does; no client is kept out for ever | 2 clients, limit 2, window 3: full and stale lists, the boundary, and calls at every age |

All times are ticks of one clock; what matters is only which deadlines pass
between which steps. `MaxTime`, `MaxTokens`, `MaxEvents`, `MaxEdits`, `MaxRevocations`,
`MaxOtps`, `Asks`, `MaxSecrets`, `MaxRestarts`, `MaxKeys` and `MaxFaults` bound the
runs and are named as such in the modules. Deadlock is checked for `KeyFiles` and
`RateLimiter`, which always can go on; elsewhere, at the last tick with no call
left, the system rightly stops.

Every property of a passing run has a mutant, an operator marked `Mutant` that
makes a plausible mistake in a mapped definition and makes TLC find the property
violated.

### Findings

1. A rejected timestamp token still spends the nonce and marks the request
   signed (`routes_v2.py:1263`): reported as accepted, never stored (run
   `failed_timestamp`).
2. An update that awaits its upload does not see a mark-signed that commits
   meanwhile, and replaces the content of a signed document (`routes_v2.py:794`; run
   `signed_overwritten`).

Met while modelling; the properties are stated so as to say exactly how far these
go:

* `document_hash` and `certificate_serial` of an audit event are in no hash
  (`crypto_utils.py:416`) and are shown by the export: an edit of either is found by
  nothing, where `docs/SECUREDOC_SECURITY_REFACTOR_PLAN.md:1192` says that an edited
  event makes verify-chain fail (and line 1200, that it is detected). `EditUncovered`
  is that edit; `EditIsReported` and `ExportShowsChecked` are about the other columns.
* Two overlapping redemptions of a blind token both succeed (`routes_blind.py:231`),
  where `docs/api.md:842`, `README.md:115` and `docs/crypto-flow.md:110` say that the
  second one fails. `RedeemedOnlyByOverlap` says that nothing but overlap allows it.
* `docs/demo-guide.md:48` and `README.md:97` expect a package to fail verification
  once its certificate is revoked. The code, and `docs/api.md:528`, find it good when
  its timestamp is earlier than the revocation, as it is in that very case:
  `EarlierSignatureStaysValid` is what the code does.
* Concurrent handlers fork the audit chain (`audit_service.py:24`), which is then
  reported as broken for ever though nobody has edited it, where
  `docs/demo-guide.md:82` expects `valid=true`. `BreakHasCause` says that nothing
  but a fork or an edit does this, `BreakIsPermanent` that only an edit mends it.
* A retry past the deadline turns a signed request into an expired one
  (`routes_v2.py:1017`, `1070`, `1164`, `1176`), and so does, at any time, a package
  that names it with an `expiresAt` in the past, before its owner or content is looked
  at (`routes_v2.py:1160`): the stored signature is no longer reported as accepted.
  `StoredAcceptedUnlessExpired` says that nothing else takes the acceptance away.
* A confirmation that read the request as pending and commits last writes
  `mfa_confirmed` over whatever the request has become (`routes_v2.py:1107`): a stored
  package whose request had expired is found valid again. `RejectionStands` says that
  nothing else brings one back.
* An interrupted write leaves a partial content file that later uploads take as
  stored (`routes_v2.py:227`).
* Of two overlapping revocations the row with the highest id decides, not the
  earliest time (`routes_v2.py:405`), and overlapping attempts at a code are counted
  as one (`auth_utils.py:207`, `254`).
* A TOTP set-up that overlaps a verification replaces the secret of an enabled
  authenticator by one nobody has verified (`auth_utils.py:286`, `320`):
  `EnabledIsProved` holds only up to that overlap (`raced`). After a restart without
  a configured key an enabled authenticator can neither confirm nor be set up again
  (`auth_utils.py:26`, `286`).
* Two overlapping updates of a document may leave the name of one upload on the
  content of the other (`routes_v2.py:823`): `RowIsOneUpload` holds up to `crossed`.
* A process killed while it writes the legacy key, one of the two X.509
  certificates or the blind signer's key leaves a file that exists and does not
  load: every later start ends there (`FatalFiles` in `ComesUp`). A torn key of the
  root or the intermediate is written again, as its certificate is still missing. A
  torn timestamping key makes every later submission fail, and a PAdES signer cut
  off after its certificate is never completed; no statement of the code excludes
  this, so no property does.
* Two first calls that overlap may sign a timestamp with a key that is then
  overwritten (`x509_utils.py:443`), or leave a PAdES key and certificate of
  different creations; `SignedStaysVerifiable` and `PdfVerifies` hold up to that.

## 4. Fairness and liveness

The handlers have no loop, job or retry that must go on by itself: every step is
the answer to a client's call, and no client has to call again. What must
eventually happen, a handler's answer, is the scheduling of the thread pool, not of
this code, so the modules of handlers assume no fairness and state safety
properties. Two parts do promise something:

* `KeyFiles`: a process that has ended is started again (its supervisor's part,
  `WF(Start)`), and `on_startup`, one thread with no lock to wait for, takes its
  next step (`WF` of `Startup` and of its writes). Under this, `ComesUp`: after the
  last fault the server stays up, or one of four files is torn. Handlers need no
  fairness for it, and crashes are never forced or forbidden, only bounded in
  number.
* `RateLimiter`: time goes on (`WF(TimePasses)`). Under this, `Unblocks`: a client
  that was turned away can be served again, even if it never stops calling. No call
  need come for it: stale calls are ignored, pruned or not.

## 5. Proofs

Every theorem holds for every value of the constants under the module's
`ConstantsAssumption`, the bounds of the runs included.

| Module | Assumed | Inductive invariant |
|---|---|---|
| `SigningRequestsProofs` | lifetimes, cooldown and attempt limit positive; finitely many threads | `SigningInv`, `ConfirmedInv`, `TokensHaveMakers` |
| `AuditChainProofs` | the bounds on rows and edits are numbers | `ChainInv` |
| `CertificateTrustProofs` | times and bounds are numbers | `TrustInv` |
| `DocumentStoreProofs` | uploads have names and contents | `TypeInvariant` and one more for each property |
| `BlindTokenProofs` | messages below the modulus; times are numbers; for `UnblindingVerifies`, that N, E and D are a key | `BlindInv` |
| `AccountsProofs` | the seeds name accounts and roles, one administrator among them; finitely many threads; an attempt limit; for `TotpSetup`, that its bounds are numbers | `AccountsInv`, `TotpInv` |
| `KeyFilesProofs` | bounds are numbers; startup is not one of the threads | `KeyInv` |
| `RateLimiterProofs` | limit and window are numbers | `TypeOK` |

That the threads are finitely many is the thread pool's size; it is what a bound on
a number of threads needs.

### SigningRequests

| Theorem | Statement |
|---|---|
| `TypeCorrect` | `Spec => []TypeOK` |
| `SigningInvariant` | `Spec => [](TypeOK /\ SigningInv)` |
| `OneSignaturePerRequest` | `Spec => []AtMostOneSignature` |
| `SignedAfterConfirmation` | `Spec => []SignatureIsConfirmedInTime` |
| `RevocationIsEffective` | `Spec => []NoSignatureAfterRevocation` |
| `NonceBelongsToRequest` | `Spec => []NonceFollowsRequest` |
| `StoredIsAccepted` | `Spec => []StoredAcceptedUnlessExpired` |
| `TokensStayUsed` | `Spec => TokenUseIsPermanent` |
| `OpenTokensBounded` | `Spec => []UnusedTokensBounded` |
| `Refinement` | `Spec => ImplementsProtocol` |

*The argument.* None of the invariants is inductive: that a second
signature cannot be stored depends on what a thread in the middle of a
submission has already checked. `SigningInv` adds it. `RequestsConsistent` ties
the status, the nonce and the history of a request together; it tolerates a
status that a race has rewritten (signed back to confirmed or on to expired),
which is why it speaks of the nonce and not of the status.
`HandlersConsistent` says what each thread has established at each step: a
submission past its first read was admitted while the request was live and
confirmed, past its second read it carries the request's own nonce, past its
third it precedes any committed revocation. `SignaturesConsistent` keeps that of
every stored record. A second signature is then impossible because a stored
record has its request's nonce in `usedNonces`, a submission about to write
carries the same nonce, and the primary key lets a nonce be inserted once.

`Refinement` maps the tables to a phase through the signature records and the
history, not the status column, which may go back; each of prepare's,
confirm's and submit's writes is the protocol's step the first time, and every
other step a stutter.

`StoredIsAccepted` needs one more invariant, `ConfirmedInv`: a request that was ever
confirmed is not pending again, so that a stored signature, whose request was
confirmed, is confirmed, signed or expired.

`TokensStayUsed` needs types only: a resend and an attempt are the steps that write
tokens, each keeps every token in its place, and neither assigns "not used".
`OpenTokensBounded` counts. Its invariant, `TokensHaveMakers`, lays each unused token
to a thread of its own, the one that made it, such that a thread about to make
another one holds its last one among the tokens it will close. A resend then replaces
its own token, and the set of unused ones injects into the set of threads
(`FS_Injection`). Counting alone is not inductive: how many tokens a resend will leave
open depends on which ones it has seen.

The lemmas are one per kind of step, combined in `SigningInvariant` by a case
split on `Next`; what a step leaves alone is stated once (`MovePreservesInv`,
`RewritePreservesInv`, `SignaturesKept`).

### AuditChain

`ChainInv` says that every row keeps its event and, unless its hash columns were edited,
the hash of what was logged (`AsLogged`), and that a thread between its read and its
insert holds the hash of a committed row (`ReadsCommitted`), without which
`ExtendsCommitted` is not inductive. From it:

* `ChainsToCommitted`: `ExtendsCommitted`, in any interleaving;
* `EveryEditIsReported`: up to the first break, the hash of a row is over the contents
  of the rows before it and its own, as they are now (`LinkedHashes`, by induction). A
  hash over an original that is no longer there therefore lies at or behind a break. An
  edited row whose hash columns were left alone has such a hash itself; otherwise any
  later one gives it away, until all of them are rewritten;
* `BreaksHaveCause`: at the first break of an unedited log the event extends an
  earlier hash which is not its predecessor's, and the row after that hash,
  being linked, extends it too;
* `BrokenStaysBroken`: rows that are added do not disturb a break, and a row is linked
  or not by its own columns and the hash before it, so an edit of anything else leaves
  the break where it was or makes an earlier one;
* `ReportIsCoherent`: what an export has checked is shown as it was checked, and
  `EveryEditIsReported`'s argument applies to it. It is about the covered columns: of
  the other two nothing can be said, as no hash covers them.

### RateLimiter

`TypeCorrect` proves that no list ever exceeds the limit, whence it is finite;
`Refinement` that `Spec` implements `SlidingWindow`: a served call appends the same call
to both, time drops from `recent` exactly the calls of age `Window`, and the limiter is
full exactly when the promise's list is, so both serve and turn away the same calls. The
limit is on a number of calls, so the lemmas are about the cardinality of finite sets
(`FS_AddElement`, `FS_Subset`).

### DocumentStore

Types are inductive together with `LoadedExist`, that a row some request has loaded is there
(an update of a missing row would not be a row). On top of `TypeInvariant`:

* `RowsReferToFiles`: `FilesBeforeRows` with `OneInLoop`, that one coroutine at most
  is between its upload and its commit, and `CommitsStored`, that the file it commits
  is there; so nobody is writing a file while a row is committed;
* `VersionsAreOfSigned`: `VersionsFollowSigned` with `LoadedVersions`, that a loaded
  row has kept its version, and its flag if it was set;
* `RowsAreUploads`: `RowIsOneUpload` with `LoadedIsCurrent`, that an update of a
  document outside `crossed` has loaded the name and content the row still has, so
  that the columns it leaves alone are those of its own upload.

### CertificateTrust

`TrustInv` says that the status column and the table of revocations are committed
together (`StatusIsTable`), that no revocation, stored or about to be, is of the future
(`RevokedByNow`), and that a list, signed or in the making, names a row that is stored
and is not younger than its own time (`ListsAreRows`). From it:

* `EarlierSignatures` and `UnprovenTimes`, about every package and every choice of
  flaws: the first check that fails decides (`Verdict`), so each needs only the checks
  before it;
* `CrlAgrees`: a list that has read as many rows as there are names the latest, the one
  `verify_v2` decides by;
* `RejectionsStay`, an action property: each check that turns a package down outlives a
  step, as long as at most one revocation is committed, since a second one with a later
  time moves the line (a finding above); and of the steps that write the status of a
  stored package's request, only the commit of a confirmation makes an expired one
  acceptable (`StoredStays`).

### BlindToken

`BlindInv` is `TypeOK` (no signature is stored but what came from the signer or from
taking a factor off), `RowsAreSigned` (there is one blind signature a session
can have, since signing is a function of the blinded message), `ThreadsHaveSeen` (a
thread that is about to verify or redeem has seen a final signature that verifies for
the session's message, and the message is never rewritten; and one that is about to
redeem has read a session that was never redeemed) and `SpentOnce`: a session that is
not spent was never redeemed, and `spent` is never taken back, whatever becomes of the
status. `RedeemedByOverlap` and `RedeemedIsSigned` follow. Nothing is used of the
arithmetic of `BlindRsa`, so they hold for any keys.

`UnblindingVerifies` (`Spec => []UnblindedVerifies`) is about that arithmetic. By
`RowsAreSigned` the signature of a session is that of its blinded message, and
`UnblindingIsSigning` shows that (m * r^E)^D, times the inverse of r, is m^D, and that
m^D verifies. It assumes of the key what generating one provides, `KeyPairAssumption`:
raising to E and then to D gives back every value below the modulus. That the other
order does too is proved (`PowSwaps`), as is all else it rests on:

* remainders may be taken of each factor before or after a product
  (`RemainderOfFactors`), from the division with remainder;
* `Pow` is a recursive function, and a power of a product is the product of the powers
  (`PowOfProduct`). That there is such a function, that it is the only one, and what it
  computes are inductions on the exponent. They cite `InductiveSet`: a set of natural
  numbers without a least element is empty, which is the well-foundedness of < in the
  library. Stated of a set and not of a predicate, it needs no operator as a parameter.

### Accounts

`AccountsInv` is `ReadsLatest` (a call works with a code not older than the one that was
the latest when it began), `TokensPerCode` (tokens given for a code, and threads about to
give one, are at most the threads, and none was given for a code that is not used up),
`AssignsAsked` (a thread about to write a user assigns, of role and status, only what was
asked for) and `SeedsThere` (a seeded account has its row, so a restart inserts none).

* `TokensBounded` is `TokensPerCode`;
* `SupersededCodes`: the step that gives a token does it for the code the call has read;
* `ChangesAsked`: an update writes `assigned`, and a restart only what `Seeded` says.

### TotpSetup

`TotpInv`, in the module itself, is `TypeOK`, `ReadsASecret` (a call that checks a code
has read a row with a secret, without which the history is not of secrets) and
`ProvesTheStored`. The last one holds until a set-up and a verification overlap: a
verification in flight is of the secret that is stored, a set-up in flight works on a
setting that is not enabled, and the secret of an enabled setting, and each one that a
confirmation has read, is proved. What `EnabledIsProved` says of the history is not
inductive without it: a set-up that is still to be written would replace the secret of
a setting that was enabled in the meantime. `TotpTypes` and `EnabledStays` follow, with
the key kept or drawn anew at each restart. (They stand in `AccountsProofs`, as
`Totp!TypeOK` and `Totp!EnabledIsProved`, whose `calls` are `TotpSetup`'s `handlers`.)

### KeyFiles

What is on disk after any number of cut-off writes, restarts and overlaps. `KeyInv`:

* `CertificatesLast`: a certificate is written after its key, so one that exists has a
  whole, matching key under it, or is torn itself and never touched again;
* `StagesDone`: at each stage of startup, what the earlier stages create is whole, and
  what is still to be written of this one is missing, or torn by its writer;
* `HandlersWait`: handlers work only while the server is up, and write no file of startup;
* `VouchedKeys`: once something was signed, all of startup's files are whole and the keys
  that signed are on them. Startup then finds nothing to write, which is why no later
  start replaces one;
* `TsaCreations`, `StampedKeys`: a lone creation of the timestamping key is the only
  one and its key is on disk when it stamps;
* `SignerInv`: unless two creations of the PAdES signer have overlapped, its files match
  in the order they are written in.

`UpConsistent`, `SignaturesStay` and `PdfsVerify` are consequences. None of the three is
inductive: each depends on the order of the writes still to be made, which is what a
crash cuts off. The bulk of the module is one lemma for each action and part.

### Only model-checked

Liveness (`ComesUp`, `Unblocks`) is out of the prover's reach; every other property of
the passing runs is stated by a theorem. (`BlindToken`'s `TypeOK` is the reverse: proved,
and in no run.)

## 6. Not modelled, and why

* Issuing with a proof of possession (`routes_v2.py` 562-727): the challenge is
  signed by the server and carries its own deadline, nothing is stored until the
  certificate is, and each call is decided by what it brings. A challenge can be
  used more than once before its deadline. The models start from certificates and
  accounts that exist.
* Of accounts: names and OTP purposes other than LOGIN_MFA.
* Cryptographic primitives, X.509 parsing, the PDF library, canonical JSON: library
  code without state. The models take hashes and signatures as injective, and keys
  that are drawn as new.
* More than one server process on one set of files: the code has no lock for it and
  nothing says that it is meant to be run so.
* Web client: pages and calls; the models accept any order, overlap and
  repetition of calls, which covers it.
* Legacy v1 endpoints (disabled by default), configuration, readiness report, the
  creation of tables and columns: no state of their own, or run once.
* Within modelled parts: sizes and wording; certificate
  columns filled in for legacy rows; the audit event of each handler (it is
  `AuditChain`'s).

## 7. Plan

1. Core (done): `SigningProtocol`, `SigningRequests`, `AuditChain`,
   `CertificateTrust`, `DocumentStore`, `BlindRsa`, `BlindToken`, `Accounts`,
   `TotpSetup`; the proofs of `SigningRequests` and `AuditChain`.
2. Extension (done): `KeyFiles`; `SlidingWindow` and `RateLimiter` with proofs; the
   signed CRL; the export's two SELECTs; the columns of a document; restarts and
   seeding of accounts.
3. Proofs (done): `DocumentStore`, `CertificateTrust`, `KeyFiles`, `Accounts`,
   `TotpSetup`, `BlindToken` with its arithmetic, and the OTP properties of
   `SigningRequests`.
