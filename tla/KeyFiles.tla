------------------------------ MODULE KeyFiles ------------------------------
(***************************************************************************)
(* The key and certificate files of the server: the legacy CA, the X.509   *)
(* CA and the blind signer, which startup creates when they are missing,   *)
(* and the timestamping key and the PAdES signer, which the first handler  *)
(* that needs them creates.                                                *)
(*                                                                         *)
(* write_bytes and write_text truncate a file and then fill it; each is    *)
(* two steps here, and a fault between them leaves a torn file, which      *)
(* exists and does not load.  Files survive a crash of the process,        *)
(* nothing else does.  One server process, with both demo features on.     *)
(***************************************************************************)
EXTENDS Integers, Sequences, Functions

CONSTANTS
    Workers,  \* threads that run handlers
    MaxKeys,  \* bound of the runs: keys in use at one time
    MaxFaults \* bound of the runs: crashes and failed writes

Main == "main"   \* the thread that runs on_startup

ASSUME ConstantsAssumption ==
    /\ {MaxKeys, MaxFaults} \subseteq Nat
    /\ Main \notin Workers

Actors == {Main} \cup Workers

SigningFiles == {"legacyKey", "rootKey", "intKey", "blindKey"}
StartupFiles == SigningFiles \cup {"legacyPublic", "rootCert", "intCert"}
SignerFiles == {"signerKey", "signerCert", "signerInt", "signerRoot"}
Files == StartupFiles \cup SignerFiles \cup {"tsaKey"}

VARIABLES
    files,    \* the secrets directory
    stage,    \* what on_startup does next; "down" when there is no process
    todo,     \* the writes each actor has still to make, in order
    open,     \* whether an actor has truncated the first file of its todo
    jobs,     \* the call of each worker
    faults,   \* counts the faults, for MaxFaults
    vouched,  \* history: which keys startup's files have signed something with
    stamped,  \* history: the keys of the timestamp tokens of calls during which no other
              \* call was creating the timestamping key
    pdfs,     \* history: whether the PDFs signed verify
    overlap   \* history: two calls were creating the PAdES signer at once

vars == <<files, stage, todo, open, jobs, faults, vouched, stamped, pdfs, overlap>>
server == <<stage, todo, open, jobs>>
history == <<vouched, stamped, pdfs, overlap>>

\* A key of the file, and for a certificate the key that signed it.
Keys == 1..MaxKeys
Key(k) == [key |-> k, issuer |-> 0]
Cert(k, issuer) == [key |-> k, issuer |-> issuer]
Absent == [key |-> 0, issuer |-> 0]
Torn == [key |-> -1, issuer |-> 0]
Content == [key : Keys, issuer : {0} \cup Keys] \cup {Absent, Torn}

Exists(f) == files[f] # Absent
Loads(f) == files[f] \notin {Absent, Torn}

Write(f, content) == [file |-> f, content |-> content]

Idle == [op |-> "idle"]
Job ==
    {Idle}
    \cup [op : {"tsa_create"}, key : Keys, alone : BOOLEAN]
    \cup [op : {"signer_create"}]
    \cup [op : {"signer_load_cert"}, key : Keys]

\* A key that is drawn differs from every key that is still to be seen anywhere, as
\* long as the bound leaves one.
KeysInUse ==
    UNION {{files[f].key, files[f].issuer} : f \in Files}
    \cup UNION {{todo[a][i].content.key : i \in DOMAIN todo[a]} : a \in Actors}
    \cup {jobs[w].key : w \in {x \in Workers : jobs[x].op \in {"tsa_create", "signer_load_cert"}}}
    \cup stamped \cup UNION {Range(v) : v \in vouched}
KeyLeft == Keys \ KeysInUse # {}
Drawn == CHOOSE k \in Keys : k \notin KeysInUse

Init ==
    /\ files = [f \in Files |-> Absent]
    /\ stage = "down"
    /\ todo = [a \in Actors |-> <<>>]
    /\ open = [a \in Actors |-> FALSE]
    /\ jobs = [w \in Workers |-> Idle]
    /\ faults = 0
    /\ vouched = {}
    /\ stamped = {}
    /\ pdfs = {}
    /\ overlap = FALSE

----------------------------------------------------------------------------
(***************************************************************************)
(* Writing files, and faults.                                              *)
(***************************************************************************)

OpenFile(a) ==
    /\ todo[a] # <<>>
    /\ ~open[a]
    /\ files' = [files EXCEPT ![Head(todo[a]).file] = Torn]
    /\ open' = [open EXCEPT ![a] = TRUE]
    /\ UNCHANGED <<stage, todo, jobs, faults, history>>

CloseFile(a) ==
    /\ open[a]
    /\ files' = [files EXCEPT ![Head(todo[a]).file] = Head(todo[a]).content]
    /\ todo' = [todo EXCEPT ![a] = Tail(@)]
    /\ open' = [open EXCEPT ![a] = FALSE]
    /\ UNCHANGED <<stage, jobs, faults, history>>

\* The process is killed.
Crash ==
    /\ stage # "down"
    /\ faults < MaxFaults
    /\ faults' = faults + 1
    /\ stage' = "down"
    /\ todo' = [a \in Actors |-> <<>>]
    /\ open' = [a \in Actors |-> FALSE]
    /\ jobs' = [w \in Workers |-> Idle]
    /\ UNCHANGED <<files, history>>

\* The write of a handler fails (a full disk): its call is over, the rest is not written.
WriteFails(w) ==
    /\ open[w]
    /\ faults < MaxFaults
    /\ faults' = faults + 1
    /\ todo' = [todo EXCEPT ![w] = <<>>]
    /\ open' = [open EXCEPT ![w] = FALSE]
    /\ jobs' = [jobs EXCEPT ![w] = Idle]
    /\ UNCHANGED <<files, stage, history>>

----------------------------------------------------------------------------
(***************************************************************************)
(* on_startup: what it creates is written before the next thing is looked  *)
(* at.                                                                     *)
(***************************************************************************)

\* Startup has loaded or drawn what this stage is about.
Proceed(from, to, writes) ==
    /\ stage = from
    /\ todo[Main] = <<>>
    /\ stage' = to
    /\ todo' = [todo EXCEPT ![Main] = writes]
    /\ UNCHANGED <<files, open, jobs, faults, history>>

\* Mutant: a process that has failed to start is neither up nor down.
StartupFailsHalfway(from) == Proceed(from, "failed", <<>>)

\* A file that exists does not load: the exception ends the process.
StartupFails(from) == Proceed(from, "down", <<>>)

Start == Proceed("down", "legacy", <<>>)

\* Mutant: a public key that exists is left alone.
LegacyCaTrustsPublic ==
    \/ /\ ~Exists("legacyKey")
       /\ KeyLeft
       /\ Proceed("legacy", "root", <<Write("legacyKey", Key(Drawn)),
                                      Write("legacyPublic", Key(Drawn))>>)
    \/ /\ Loads("legacyKey")
       /\ Proceed("legacy", "root",
                  IF Exists("legacyPublic") THEN <<>>
                  ELSE <<Write("legacyPublic", files["legacyKey"])>>)
    \/ files["legacyKey"] = Torn /\ StartupFails("legacy")

\* ensure_demo_ca_keys: a public key that differs from the private one is written again.
LegacyCa ==
    LET public == Write("legacyPublic", files["legacyKey"]) IN
    \/ /\ ~Exists("legacyKey")
       /\ KeyLeft
       /\ Proceed("legacy", "root", <<Write("legacyKey", Key(Drawn)),
                                      Write("legacyPublic", Key(Drawn))>>)
    \/ /\ Loads("legacyKey")
       /\ Proceed("legacy", "root",
                  IF files["legacyPublic"] = files["legacyKey"] THEN <<>> ELSE <<public>>)
    \/ files["legacyKey"] = Torn /\ StartupFails("legacy")

\* Mutant: only the key is looked for.
RootCaKeyOnly ==
    \/ /\ ~Exists("rootKey")
       /\ KeyLeft
       /\ Proceed("root", "intermediate", <<Write("rootKey", Key(Drawn)),
                                            Write("rootCert", Cert(Drawn, Drawn))>>)
    \/ /\ Exists("rootKey")
       /\ IF Loads("rootKey") /\ Loads("rootCert")
          THEN Proceed("root", "intermediate", <<>>)
          ELSE StartupFails("root")

\* ensure_demo_x509_ca, first half.
RootCa ==
    \/ /\ ~(Exists("rootKey") /\ Exists("rootCert"))
       /\ KeyLeft
       /\ Proceed("root", "intermediate", <<Write("rootKey", Key(Drawn)),
                                            Write("rootCert", Cert(Drawn, Drawn))>>)
    \/ /\ Exists("rootKey") /\ Exists("rootCert")
       /\ IF Loads("rootKey") /\ Loads("rootCert")
          THEN Proceed("root", "intermediate", <<>>)
          ELSE StartupFails("root")

\* ensure_demo_x509_ca, second half: the key of an intermediate that exists is not loaded.
IntermediateCa ==
    \/ /\ ~(Exists("intKey") /\ Exists("intCert"))
       /\ KeyLeft
       /\ Proceed("intermediate", "blind",
                  <<Write("intKey", Key(Drawn)),
                    Write("intCert", Cert(Drawn, files["rootKey"].key))>>)
    \/ /\ Exists("intKey") /\ Exists("intCert")
       /\ IF Loads("intCert")
          THEN Proceed("intermediate", "blind", <<>>)
          ELSE StartupFails("intermediate")

\* Mutant: the blind signer is drawn anew at every start.
BlindSignerAnew == Proceed("blind", "up", <<Write("blindKey", Key(Drawn))>>)

\* ensure_blind_signer_key
BlindSigner ==
    \/ /\ ~Exists("blindKey")
       /\ KeyLeft
       /\ Proceed("blind", "up", <<Write("blindKey", Key(Drawn))>>)
    \/ Loads("blindKey") /\ Proceed("blind", "up", <<>>)
    \/ files["blindKey"] = Torn /\ StartupFails("blind")

Startup == LegacyCa \/ RootCa \/ IntermediateCa \/ BlindSigner

\* Requests are served once on_startup has returned.
Up == stage = "up" /\ todo[Main] = <<>>

----------------------------------------------------------------------------
(***************************************************************************)
(* Handlers.                                                               *)
(***************************************************************************)

Free(w) == Up /\ jobs[w] = Idle
Goto(w, job) == jobs' = [jobs EXCEPT ![w] = job]

\* Calls that sign with the keys of startup: v1 certificates, certificates and CRLs
\* of the intermediate, blind tokens.  One step stands for a call of each.
SignWithStartupKeys(w) ==
    /\ Free(w)
    /\ \A f \in SigningFiles : Loads(f)
    /\ vouched' = vouched \cup {[f \in SigningFiles |-> files[f].key]}
    /\ UNCHANGED <<files, server, faults, stamped, pdfs, overlap>>

CreatingTsa == {w \in Workers : jobs[w].op = "tsa_create"}

\* issue_timestamp_token and verify_timestamp_token, with the key on file.
TsaLoad(w) ==
    /\ Free(w)
    /\ Loads("tsaKey")
    /\ stamped' = IF CreatingTsa = {} THEN stamped \cup {files["tsaKey"].key} ELSE stamped
    /\ UNCHANGED <<files, server, faults, vouched, pdfs, overlap>>

\* ensure_demo_tsa_key finds no file.
TsaCreate(w) ==
    /\ Free(w)
    /\ ~Exists("tsaKey")
    /\ KeyLeft
    /\ jobs' = [x \in Workers |->
                   IF x = w THEN [op |-> "tsa_create", key |-> Drawn,
                                  alone |-> CreatingTsa = {}]
                   ELSE IF x \in CreatingTsa THEN [jobs[x] EXCEPT !.alone = FALSE]
                   ELSE jobs[x]]
    /\ todo' = [todo EXCEPT ![w] = <<Write("tsaKey", Key(Drawn))>>]
    /\ UNCHANGED <<files, stage, open, faults, history>>

\* The token is signed with the key that was drawn, whatever the file holds by now.
TsaCreated(w) ==
    /\ jobs[w].op = "tsa_create"
    /\ todo[w] = <<>>
    /\ stamped' = IF jobs[w].alone THEN stamped \cup {jobs[w].key} ELSE stamped
    /\ Goto(w, Idle)
    /\ UNCHANGED <<files, stage, todo, open, faults, vouched, pdfs, overlap>>

SignerOnFile == Exists("signerKey") /\ Exists("signerCert")

\* Mutant: a key that an earlier, interrupted creation has left is kept.
SignerCreateKeepsKey(w) ==
    LET k == Drawn IN
    /\ Free(w)
    /\ ~SignerOnFile
    /\ KeyLeft
    /\ Goto(w, [op |-> "signer_create"])
    /\ todo' = [todo EXCEPT ![w] =
                   (IF Exists("signerKey") THEN <<>> ELSE <<Write("signerKey", Key(k))>>)
                   \o <<Write("signerCert", Cert(k, files["intKey"].key)),
                        Write("signerInt", files["intCert"]),
                        Write("signerRoot", files["rootCert"])>>]
    /\ overlap' = (overlap \/ \E x \in Workers : jobs[x].op = "signer_create")
    /\ UNCHANGED <<files, stage, open, faults, vouched, stamped, pdfs>>

\* ensure_demo_pades_signer creates the signer, with a certificate of the intermediate.
SignerCreate(w) ==
    LET k == Drawn IN
    /\ Free(w)
    /\ ~SignerOnFile
    /\ KeyLeft
    /\ Goto(w, [op |-> "signer_create"])
    /\ todo' = [todo EXCEPT ![w] = <<
                   Write("signerKey", Key(k)),
                   Write("signerCert", Cert(k, files["intKey"].key)),
                   Write("signerInt", files["intCert"]),
                   Write("signerRoot", files["rootCert"])>>]
    /\ overlap' = (overlap \/ \E x \in Workers : jobs[x].op = "signer_create")
    /\ UNCHANGED <<files, stage, open, faults, vouched, stamped, pdfs>>

SignerLoadKey(w) ==
    /\ \/ Free(w) /\ SignerOnFile
       \/ jobs[w].op = "signer_create" /\ todo[w] = <<>>
    /\ Goto(w, IF Loads("signerKey")
               THEN [op |-> "signer_load_cert", key |-> files["signerKey"].key]
               ELSE Idle)
    /\ UNCHANGED <<files, stage, todo, open, faults, history>>

\* The signature verifies under the certificate, and the chain under the trusted root.
SignerVerifies(key) ==
    /\ files["signerCert"] = Cert(key, files["signerInt"].key)
    /\ files["signerInt"].issuer = files["signerRoot"].key
    /\ files["signerRoot"] = files["rootCert"]

\* The certificate and its chain are loaded, and the PDF is signed.
SignerSign(w) ==
    /\ jobs[w].op = "signer_load_cert"
    /\ IF \A f \in {"signerCert", "signerInt", "signerRoot"} : Loads(f)
       THEN pdfs' = pdfs \cup {SignerVerifies(jobs[w].key)}
       ELSE pdfs' = pdfs
    /\ Goto(w, Idle)
    /\ UNCHANGED <<files, stage, todo, open, faults, vouched, stamped, overlap>>

----------------------------------------------------------------------------
Next ==
    \/ Crash \/ Start \/ Startup
    \/ \E a \in Actors : OpenFile(a) \/ CloseFile(a)
    \/ \E w \in Workers :
          \/ WriteFails(w)
          \/ SignWithStartupKeys(w)
          \/ TsaLoad(w)
          \/ TsaCreate(w)
          \/ TsaCreated(w)
          \/ SignerCreate(w)
          \/ SignerLoadKey(w)
          \/ SignerSign(w)

\* A process that has ended is started again, and startup makes progress.
Fairness == WF_vars(Start) /\ WF_vars(Startup) /\ WF_vars(OpenFile(Main) \/ CloseFile(Main))

Spec == Init /\ [][Next]_vars /\ Fairness
----------------------------------------------------------------------------
(***************************************************************************)
(* Properties.                                                             *)
(***************************************************************************)

\* The files, the threads and the histories hold values of their types.
TypeOK ==
    /\ files \in [Files -> Content]
    /\ stage \in {"down", "legacy", "root", "intermediate", "blind", "up"}
    /\ todo \in [Actors -> Seq([file : Files, content : Content])]
    /\ open \in [Actors -> BOOLEAN]
    /\ jobs \in [Workers -> Job]
    /\ faults \in 0..MaxFaults
    /\ vouched \subseteq [SigningFiles -> Keys]
    /\ stamped \subseteq Keys
    /\ pdfs \subseteq BOOLEAN
    /\ overlap \in BOOLEAN

\* Wherever startup was cut off before, a server that is up has whole key files,
\* certificates that match the keys, and a public key that matches the private one.
UpIsConsistent ==
    Up => /\ \A f \in StartupFiles : Loads(f)
          /\ files["legacyPublic"] = files["legacyKey"]
          /\ files["rootCert"] = Cert(files["rootKey"].key, files["rootKey"].key)
          /\ files["intCert"] = Cert(files["intKey"].key, files["rootKey"].key)

\* What has been signed with a key on file stays verifiable: no later start, crash or
\* handler replaces a key of startup that has signed a certificate, a CRL or a blind
\* token, nor the timestamping key, unless the call that issued the timestamp token
\* overlapped the creation of another timestamping key.
SignedStaysVerifiable ==
    /\ \A v \in vouched : \A f \in SigningFiles : files[f].key = v[f]
    /\ \A k \in stamped : files["tsaKey"] = Key(k)

\* As long as no two calls have created the PAdES signer at the same time, a PDF that
\* is signed verifies: key, certificate and chain are those of one creation,
\* whatever creations were cut off before.
PdfVerifies == FALSE \in pdfs => overlap

\* The files whose torn state ends every start.
FatalFiles == {"legacyKey", "rootCert", "intCert", "blindKey"}

\* A server whose starts are cut off a number of times ends up serving requests, or a
\* fault has torn one of the four files that startup loads and never writes again.
ComesUp == <>[](Up \/ \E f \in FatalFiles : files[f] = Torn)
=============================================================================
