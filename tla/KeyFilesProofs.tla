--------------------------- MODULE KeyFilesProofs ---------------------------
(***************************************************************************)
(* Proofs about KeyFiles: for any threads, keys and number of crashes and  *)
(* failed writes, a server that is up has keys and certificates that       *)
(* match, nothing that has signed is replaced, and a PDF verifies unless   *)
(* two calls have created its signer at once.                              *)
(***************************************************************************)
EXTENDS KeyFiles, TLAPS

----------------------------------------------------------------------------
(***************************************************************************)
(* The inductive invariant: the files of startup.                          *)
(***************************************************************************)

LegacyOK == Loads("legacyKey") /\ files["legacyPublic"] = files["legacyKey"]
RootOK ==
    /\ Loads("rootKey")
    /\ files["rootCert"] = Cert(files["rootKey"].key, files["rootKey"].key)
IntOK ==
    /\ Loads("intKey")
    /\ files["intCert"] = Cert(files["intKey"].key, files["rootKey"].key)

\* All that startup creates once and for all.
Founded == Loads("legacyKey") /\ RootOK /\ IntOK /\ Loads("blindKey")

\* A key file holds a key, unless it is missing or torn.
KeyOrNone(f) == files[f] \in {Absent, Torn} \cup {Key(k) : k \in Keys}
KeyFileNames == SigningFiles \cup {"tsaKey"}

\* A certificate is written last, so it stands for the key it certifies and for the
\* certificates above it; when it is torn it is never written again.
CertificatesLast ==
    /\ \A f \in KeyFileNames : KeyOrNone(f)
    /\ files["rootCert"] # Absent => RootOK \/ (files["rootCert"] = Torn /\ Loads("rootKey"))
    /\ files["intCert"] # Absent =>
           RootOK /\ (IntOK \/ (files["intCert"] = Torn /\ Loads("intKey")))

\* A file that is still to be written is missing, or torn by its writer.
Pending(a, f) == files[f] = (IF open[a] THEN Torn ELSE Absent)

\* What startup has still to write of each stage, and what it has written.
LegacyPending ==
    \/ todo[Main] = <<>> /\ LegacyOK
    \/ todo[Main] = <<Write("legacyPublic", files["legacyKey"])>> /\ Loads("legacyKey")
    \/ \E k \in Keys :
          /\ todo[Main] = <<Write("legacyKey", Key(k)), Write("legacyPublic", Key(k))>>
          /\ Pending(Main, "legacyKey")
RootPending ==
    \/ todo[Main] = <<>> /\ RootOK
    \/ \E k \in Keys :
          \/ /\ todo[Main] = <<Write("rootCert", Cert(k, k))>>
             /\ files["rootKey"] = Key(k)
             /\ Pending(Main, "rootCert")
          \/ /\ todo[Main] = <<Write("rootKey", Key(k)), Write("rootCert", Cert(k, k))>>
             /\ files["rootCert"] = Absent
IntPending ==
    LET root == files["rootKey"].key IN
    \/ todo[Main] = <<>> /\ IntOK
    \/ \E k \in Keys :
          \/ /\ todo[Main] = <<Write("intCert", Cert(k, root))>>
             /\ files["intKey"] = Key(k)
             /\ Pending(Main, "intCert")
          \/ /\ todo[Main] = <<Write("intKey", Key(k)), Write("intCert", Cert(k, root))>>
             /\ files["intCert"] = Absent
BlindPending ==
    \/ todo[Main] = <<>> /\ Loads("blindKey")
    \/ \E k \in Keys : todo[Main] = <<Write("blindKey", Key(k))>> /\ Pending(Main, "blindKey")

StagesDone ==
    /\ stage \in {"down", "legacy"} => todo[Main] = <<>>
    /\ stage = "root" => LegacyPending
    /\ stage = "intermediate" => LegacyOK /\ RootPending
    /\ stage = "blind" => LegacyOK /\ RootOK /\ IntPending
    /\ stage = "up" => LegacyOK /\ RootOK /\ IntOK /\ BlindPending

\* Handlers wait for startup, and write what their job is about.
HandlersWait ==
    /\ \A a \in Actors : open[a] => todo[a] # <<>>
    /\ \A w \in Workers : jobs[w] # Idle => Up
    /\ \A w \in Workers :
          /\ jobs[w].op \in {"idle", "signer_load_cert"} => todo[w] = <<>>
          /\ jobs[w].op = "signer_create" =>
                \A i \in DOMAIN todo[w] : todo[w][i].file \in SignerFiles

\* What has signed something is there for good.
VouchedKeys ==
    vouched # {} => Founded /\ \A v \in vouched : \A f \in SigningFiles : files[f].key = v[f]

----------------------------------------------------------------------------
(***************************************************************************)
(* The timestamping key.                                                   *)
(***************************************************************************)

\* A creation under way writes its key, and one that is alone is the only one.
TsaCreations ==
    \A w \in CreatingTsa :
        /\ todo[w] \in {<<>>, <<Write("tsaKey", Key(jobs[w].key))>>}
        /\ jobs[w].alone =>
              /\ CreatingTsa = {w}
              /\ todo[w] = <<>> => files["tsaKey"] = Key(jobs[w].key)

\* While a key is being created no token counts, and then the key on file has stamped.
StampedKeys ==
    /\ stamped # {} => CreatingTsa = {}
    /\ \A k \in stamped : files["tsaKey"] = Key(k)

----------------------------------------------------------------------------
(***************************************************************************)
(* The PAdES signer.                                                       *)
(***************************************************************************)

Creators == {w \in Workers : jobs[w].op = "signer_create"}

\* The certificate stands for the key, and the chain for the certificate.
SignerFilesLast ==
    /\ files["signerCert"] = Absent => files["signerInt"] = Absent /\ files["signerRoot"] = Absent
    /\ files["signerCert"] # Absent =>
          /\ Founded
          /\ Loads("signerKey")
          /\ files["signerCert"] \in {Torn, Cert(files["signerKey"].key, files["intKey"].key)}
    /\ files["signerInt"] \in {Absent, Torn, files["intCert"]}
    /\ files["signerRoot"] \in {Absent, Torn, files["rootCert"]}

\* The writes of a creation, from each of them on.
RootWrites == <<Write("signerRoot", files["rootCert"])>>
ChainWrites == <<Write("signerInt", files["intCert"]), Write("signerRoot", files["rootCert"])>>
CertWrites(k) ==
    <<Write("signerCert", Cert(k, files["intKey"].key)),
      Write("signerInt", files["intCert"]), Write("signerRoot", files["rootCert"])>>
SignerWrites(k) ==
    <<Write("signerKey", Key(k)), Write("signerCert", Cert(k, files["intKey"].key)),
      Write("signerInt", files["intCert"]), Write("signerRoot", files["rootCert"])>>

\* How far a creation has come, if it is the only one.
Creation(w) ==
    \/ todo[w] \in {<<>>, RootWrites, ChainWrites} /\ files["signerCert"] # Absent
    \/ \E k \in Keys :
          \/ todo[w] = CertWrites(k) /\ files["signerKey"] = Key(k) /\ Pending(w, "signerCert")
          \/ todo[w] = SignerWrites(k) /\ files["signerCert"] = Absent

SignerInv ==
    ~overlap =>
        /\ \A v, w \in Creators : v = w
        /\ \A w \in Creators : Creation(w)
        /\ SignerFilesLast /\ KeyOrNone("signerKey")
        /\ \A w \in Workers : jobs[w].op = "signer_load_cert" =>
              files["signerCert"] # Absent /\ files["signerKey"] = Key(jobs[w].key)
        /\ FALSE \notin pdfs

KeyInv ==
    /\ CertificatesLast /\ StagesDone /\ HandlersWait
    /\ VouchedKeys /\ TsaCreations /\ StampedKeys
    /\ SignerInv

----------------------------------------------------------------------------
(***************************************************************************)
(* Contents and lists of writes.                                           *)
(***************************************************************************)

\* Whole keys and certificates are contents, neither missing nor torn.
LEMMA Whole ==
    ASSUME NEW k \in Keys, NEW i \in Keys
    PROVE  /\ Key(k) \in Content \ {Absent, Torn} /\ Key(k).key = k
           /\ Cert(k, i) \in Content \ {Absent, Torn}
           /\ Cert(k, i).key = k /\ Cert(k, i).issuer = i
           /\ Absent \in Content /\ Torn \in Content /\ Absent # Torn
BY ConstantsAssumption DEF Keys, Key, Cert, Content, Absent, Torn

\* A missing file is not torn, and both are contents.
LEMMA NotWhole == Absent \in Content /\ Torn \in Content /\ Absent # Torn
BY DEF Content, Absent, Torn

\* A key file that loads holds its key.
LEMMA KeyLoads ==
    ASSUME NEW f, KeyOrNone(f), Loads(f)
    PROVE  files[f].key \in Keys /\ files[f] = Key(files[f].key)
<1>1. PICK k \in Keys : files[f] = Key(k)
    BY DEF KeyOrNone, Loads
<1> QED
    BY <1>1, Whole

\* As long as there is one left, what is drawn is a key.
LEMMA DrawnIsKey ==
    ASSUME KeyLeft
    PROVE  Drawn \in Keys
BY DEF KeyLeft, Drawn

\* A write has its file and its content.
LEMMA WriteFields ==
    ASSUME NEW f, NEW c
    PROVE  Write(f, c).file = f /\ Write(f, c).content = c
BY DEF Write

\* The first of one to four writes, and the others.
LEMMA One ==
    ASSUME NEW a
    PROVE  <<a>> # <<>> /\ Head(<<a>>) = a /\ Tail(<<a>>) = <<>>
OBVIOUS

LEMMA Two ==
    ASSUME NEW a, NEW b
    PROVE  <<a, b>> # <<>> /\ Head(<<a, b>>) = a /\ Tail(<<a, b>>) = <<b>>
OBVIOUS

LEMMA Three ==
    ASSUME NEW a, NEW b, NEW c
    PROVE  <<a, b, c>> # <<>> /\ Head(<<a, b, c>>) = a /\ Tail(<<a, b, c>>) = <<b, c>>
OBVIOUS

LEMMA Four ==
    ASSUME NEW a, NEW b, NEW c, NEW d
    PROVE  /\ <<a, b, c, d>> # <<>> /\ Head(<<a, b, c, d>>) = a
           /\ Tail(<<a, b, c, d>>) = <<b, c, d>>
OBVIOUS

\* What opening and closing a file do to each file and to each actor.
LEMMA OpenStep ==
    ASSUME TypeOK, NEW a \in Actors, OpenFile(a)
    PROVE  /\ todo[a] # <<>> /\ ~open[a]
           /\ \A f \in Files : files'[f] = IF f = Head(todo[a]).file THEN Torn ELSE files[f]
           /\ todo' = todo
           /\ open'[a] /\ \A b \in Actors \ {a} : open'[b] = open[b]
           /\ UNCHANGED <<stage, jobs, faults, vouched, stamped, pdfs, overlap>>
BY DEF TypeOK, OpenFile, history

LEMMA CloseStep ==
    ASSUME TypeOK, NEW a \in Actors, CloseFile(a)
    PROVE  /\ open[a]
           /\ \A f \in Files : files'[f] = IF f = Head(todo[a]).file
                                           THEN Head(todo[a]).content ELSE files[f]
           /\ todo'[a] = Tail(todo[a]) /\ \A b \in Actors \ {a} : todo'[b] = todo[b]
           /\ ~open'[a] /\ \A b \in Actors \ {a} : open'[b] = open[b]
           /\ UNCHANGED <<stage, jobs, faults, vouched, stamped, pdfs, overlap>>
BY DEF TypeOK, CloseFile, history

\* The actors, and their jobs.
LEMMA ActorsAndJobs ==
    ASSUME TypeOK
    PROVE  /\ Main \in Actors /\ Main \notin Workers /\ \A a \in Actors : a = Main \/ a \in Workers
           /\ \A w \in Workers :
                 /\ w \in Actors
                 /\ jobs[w] # Idle <=> jobs[w].op \in {"tsa_create", "signer_create", "signer_load_cert"}
                 /\ jobs[w].op = "idle" <=> jobs[w] = Idle
                 /\ jobs[w].op = "tsa_create" => jobs[w].key \in Keys /\ jobs[w].alone \in BOOLEAN
                 /\ jobs[w].op = "signer_load_cert" => jobs[w].key \in Keys
<1>1. Main \notin Workers
    BY ConstantsAssumption
<1>2. ASSUME NEW w \in Workers
      PROVE  /\ jobs[w] # Idle <=> jobs[w].op \in {"tsa_create", "signer_create", "signer_load_cert"}
             /\ jobs[w].op = "idle" <=> jobs[w] = Idle
             /\ jobs[w].op = "tsa_create" => jobs[w].key \in Keys /\ jobs[w].alone \in BOOLEAN
             /\ jobs[w].op = "signer_load_cert" => jobs[w].key \in Keys
    <2>1. jobs[w] \in Job
        BY DEF TypeOK
    <2> QED
        BY <2>1 DEF Job, Idle
<1> QED
    BY <1>1, <1>2 DEF Actors

\* A server that is up has everything that startup creates.
LEMMA UpIsFounded ==
    ASSUME KeyInv, Up
    PROVE  Founded /\ LegacyOK
BY One DEF KeyInv, StagesDone, BlindPending, Up, Founded, LegacyOK

\* Workers write the files of the timestamping key and of the PAdES signer only, and
\* only once the server is up; then startup writes nothing.
LEMMA WorkersWrite ==
    ASSUME TypeOK, KeyInv, NEW w \in Workers, todo[w] # <<>>
    PROVE  /\ Up
           /\ \/ /\ w \in CreatingTsa
                 /\ todo[w] = <<Write("tsaKey", Key(jobs[w].key))>>
                 /\ Head(todo[w]) = Write("tsaKey", Key(jobs[w].key))
              \/ w \in Creators /\ Head(todo[w]).file \in SignerFiles
<1>1. jobs[w].op \in {"tsa_create", "signer_create"}
    BY ActorsAndJobs DEF KeyInv, HandlersWait
<1>2. Up
    BY <1>1, ActorsAndJobs DEF KeyInv, HandlersWait
<1>3. CASE jobs[w].op = "tsa_create"
    BY <1>2, <1>3, One DEF KeyInv, TsaCreations, CreatingTsa
<1>4. CASE jobs[w].op = "signer_create"
    <2>1. todo[w] \in Seq([file : Files, content : Content])
        BY ActorsAndJobs DEF TypeOK
    <2>2. 1 \in DOMAIN todo[w] /\ Head(todo[w]) = todo[w][1]
        BY <2>1
    <2> QED
        BY <1>2, <1>4, <2>2 DEF KeyInv, HandlersWait, Creators
<1> QED
    BY <1>1, <1>3, <1>4

\* Startup writes its own files.
LEMMA MainWrites ==
    ASSUME TypeOK, KeyInv, todo[Main] # <<>>
    PROVE  /\ ~Up
           /\ Head(todo[Main]).file \in StartupFiles
           /\ \A w \in Workers : todo[w] = <<>> /\ jobs[w] = Idle
<1>1. ~Up
    BY DEF Up
<1>2. \A w \in Workers : todo[w] = <<>> /\ jobs[w] = Idle
    BY <1>1, ActorsAndJobs DEF KeyInv, HandlersWait
<1>3. stage \notin {"down", "legacy"}
    BY DEF KeyInv, StagesDone
<1>4. ASSUME LegacyPending PROVE Head(todo[Main]).file \in StartupFiles
    <2>1. Head(todo[Main]).file \in {"legacyKey", "legacyPublic"}
        BY <1>4, One, Two, WriteFields DEF LegacyPending
    <2> QED
        BY <2>1 DEF StartupFiles, SigningFiles
<1>5. ASSUME RootPending PROVE Head(todo[Main]).file \in StartupFiles
    <2>1. Head(todo[Main]).file \in {"rootKey", "rootCert"}
        BY <1>5, One, Two, WriteFields DEF RootPending
    <2> QED
        BY <2>1 DEF StartupFiles, SigningFiles
<1>6. ASSUME IntPending PROVE Head(todo[Main]).file \in StartupFiles
    <2>1. Head(todo[Main]).file \in {"intKey", "intCert"}
        BY <1>6, One, Two, WriteFields DEF IntPending
    <2> QED
        BY <2>1 DEF StartupFiles, SigningFiles
<1>7. ASSUME BlindPending PROVE Head(todo[Main]).file \in StartupFiles
    <2>1. Head(todo[Main]).file = "blindKey"
        BY <1>7, One, WriteFields DEF BlindPending
    <2> QED
        BY <2>1 DEF StartupFiles, SigningFiles
<1>8. stage \in {"root", "intermediate", "blind", "up"}
    BY <1>3 DEF TypeOK
<1> QED
    BY <1>1, <1>2, <1>4, <1>5, <1>6, <1>7, <1>8 DEF KeyInv, StagesDone

----------------------------------------------------------------------------
(***************************************************************************)
(* Startup writes its files.                                               *)
(***************************************************************************)

MainWritesFile == OpenFile(Main) \/ CloseFile(Main)

\* A write of startup changes the file at the head of its list, and nothing else.
LEMMA MainFileStep ==
    ASSUME TypeOK, KeyInv, MainWritesFile
    PROVE  /\ todo[Main] # <<>>
           /\ UNCHANGED <<stage, jobs, faults, vouched, stamped, pdfs, overlap>>
           /\ \A w \in Workers : todo'[w] = todo[w] /\ open'[w] = open[w]
           /\ \A f \in Files : f # Head(todo[Main]).file => files'[f] = files[f]
           /\ \/ /\ ~open[Main] /\ open'[Main] /\ todo'[Main] = todo[Main]
                 /\ files'[Head(todo[Main]).file] = Torn
              \/ /\ open[Main] /\ ~open'[Main] /\ todo'[Main] = Tail(todo[Main])
                 /\ files'[Head(todo[Main]).file] = Head(todo[Main]).content
<1>1. Main \in Actors /\ \A w \in Workers : w \in Actors \ {Main}
    BY ActorsAndJobs
<1>2. todo[Main] # <<>>
    BY <1>1 DEF MainWritesFile, OpenFile, CloseFile, KeyInv, HandlersWait
<1>3. Head(todo[Main]).file \in Files
    BY <1>2, MainWrites DEF Files
<1>4. CASE OpenFile(Main)
    BY <1>1, <1>3, <1>4, OpenStep
<1>5. CASE CloseFile(Main)
    BY <1>1, <1>2, <1>3, <1>5, CloseStep
<1> QED
    BY <1>4, <1>5 DEF MainWritesFile

\* The first stage: the legacy key, then its public key.
LEMMA LegacyWrites ==
    ASSUME TypeOK, KeyInv, LegacyPending, MainWritesFile
    PROVE  /\ LegacyPending'
           /\ KeyOrNone("legacyKey")'
           /\ Head(todo[Main]).file \in {"legacyKey", "legacyPublic"}
           /\ Loads("legacyKey") => files'["legacyKey"] = files["legacyKey"]
<1> USE MainFileStep, NotWhole
<1>1. "legacyKey" \in Files /\ "legacyPublic" \in Files
    BY DEF Files, StartupFiles, SigningFiles
<1>2. CASE /\ todo[Main] = <<Write("legacyPublic", files["legacyKey"])>>
           /\ Loads("legacyKey")
    <2>1. /\ Head(todo[Main]) = Write("legacyPublic", files["legacyKey"])
          /\ Head(todo[Main]).file = "legacyPublic"
          /\ Head(todo[Main]).content = files["legacyKey"]
          /\ Tail(todo[Main]) = <<>>
        BY <1>2, One, WriteFields
    <2>2. files'["legacyKey"] = files["legacyKey"]
        BY <1>1, <2>1
    <2>3. KeyOrNone("legacyKey")'
        BY <2>2 DEF KeyInv, CertificatesLast, KeyFileNames, SigningFiles, KeyOrNone
    <2>4. LegacyPending'
        BY <1>2, <2>1, <2>2 DEF LegacyPending, LegacyOK, Loads
    <2> QED
        BY <2>1, <2>2, <2>3, <2>4
<1>3. ASSUME NEW k \in Keys,
             todo[Main] = <<Write("legacyKey", Key(k)), Write("legacyPublic", Key(k))>>,
             Pending(Main, "legacyKey")
      PROVE  /\ LegacyPending' /\ KeyOrNone("legacyKey")'
             /\ Head(todo[Main]).file = "legacyKey" /\ ~Loads("legacyKey")
    <2>1. /\ Head(todo[Main]) = Write("legacyKey", Key(k))
          /\ Head(todo[Main]).file = "legacyKey"
          /\ Head(todo[Main]).content = Key(k)
          /\ Tail(todo[Main]) = <<Write("legacyPublic", Key(k))>>
        BY <1>3, Two, WriteFields
    <2>2. ~Loads("legacyKey")
        BY <1>3 DEF Pending, Loads
    <2>3. CASE ~open[Main]
        <3>1. open'[Main] /\ todo'[Main] = todo[Main] /\ files'["legacyKey"] = Torn
            BY <2>1, <2>3
        <3>2. LegacyPending'
            BY <1>3, <3>1 DEF LegacyPending, Pending
        <3> QED
            BY <2>1, <2>2, <3>1, <3>2 DEF KeyOrNone
    <2>4. CASE open[Main]
        <3>1. /\ todo'[Main] = <<Write("legacyPublic", Key(k))>>
              /\ files'["legacyKey"] = Key(k)
            BY <2>1, <2>4
        <3>2. LegacyPending'
            BY <3>1, Whole DEF LegacyPending, Loads
        <3> QED
            BY <2>1, <2>2, <3>1, <3>2 DEF KeyOrNone
    <2> QED
        BY <2>3, <2>4
<1> QED
    BY <1>2, <1>3 DEF LegacyPending

\* The second stage: the key of the root, then its certificate.
LEMMA RootWritten ==
    ASSUME TypeOK, KeyInv, RootPending, MainWritesFile
    PROVE  /\ RootPending'
           /\ KeyOrNone("rootKey")'
           /\ files'["rootCert"] # Absent =>
                  RootOK' \/ (files'["rootCert"] = Torn /\ Loads("rootKey")')
           /\ Head(todo[Main]).file \in {"rootKey", "rootCert"}
           /\ ~RootOK
<1> USE MainFileStep, NotWhole
<1>1. "rootKey" \in Files /\ "rootCert" \in Files
    BY DEF Files, StartupFiles, SigningFiles
<1>2. ASSUME NEW k \in Keys, todo[Main] = <<Write("rootCert", Cert(k, k))>>,
             files["rootKey"] = Key(k), Pending(Main, "rootCert")
      PROVE  /\ RootPending' /\ KeyOrNone("rootKey")'
             /\ (files'["rootCert"] = Torn /\ Loads("rootKey")') \/ RootOK'
             /\ Head(todo[Main]).file = "rootCert" /\ ~RootOK
    <2>1. /\ Head(todo[Main]) = Write("rootCert", Cert(k, k))
          /\ Head(todo[Main]).file = "rootCert"
          /\ Head(todo[Main]).content = Cert(k, k)
          /\ Tail(todo[Main]) = <<>>
        BY <1>2, One, WriteFields
    <2>2. files'["rootKey"] = Key(k) /\ Key(k) \notin {Absent, Torn} /\ Key(k).key = k
        BY <1>1, <1>2, <2>1, Whole
    <2>3. ~RootOK
        BY <1>2, <2>2, Whole DEF RootOK, Pending
    <2>4. KeyOrNone("rootKey")' /\ Loads("rootKey")'
        BY <2>2 DEF KeyOrNone, Loads
    <2>5. CASE ~open[Main]
        <3>1. open'[Main] /\ todo'[Main] = todo[Main] /\ files'["rootCert"] = Torn
            BY <2>1, <2>5
        <3>2. RootPending'
            BY <1>2, <2>2, <3>1 DEF RootPending, Pending
        <3> QED
            BY <2>1, <2>3, <2>4, <3>1, <3>2
    <2>6. CASE open[Main]
        <3>1. todo'[Main] = <<>> /\ files'["rootCert"] = Cert(k, k)
            BY <2>1, <2>6
        <3>2. RootOK'
            BY <2>2, <2>4, <3>1 DEF RootOK
        <3>3. RootPending'
            BY <3>1, <3>2 DEF RootPending
        <3> QED
            BY <2>1, <2>3, <2>4, <3>2, <3>3
    <2> QED
        BY <2>5, <2>6
<1>3. ASSUME NEW k \in Keys, files["rootCert"] = Absent,
             todo[Main] = <<Write("rootKey", Key(k)), Write("rootCert", Cert(k, k))>>
      PROVE  /\ RootPending' /\ KeyOrNone("rootKey")'
             /\ files'["rootCert"] = Absent
             /\ Head(todo[Main]).file = "rootKey" /\ ~RootOK
    <2>1. /\ Head(todo[Main]) = Write("rootKey", Key(k))
          /\ Head(todo[Main]).file = "rootKey"
          /\ Head(todo[Main]).content = Key(k)
          /\ Tail(todo[Main]) = <<Write("rootCert", Cert(k, k))>>
        BY <1>3, Two, WriteFields
    <2>2. files'["rootCert"] = Absent
        BY <1>1, <1>3, <2>1
    <2>3. ~RootOK
        <3>1. CASE Loads("rootKey")
            BY <1>3, <3>1, KeyLoads, Whole
               DEF RootOK, KeyInv, CertificatesLast, KeyFileNames, SigningFiles
        <3> QED
            BY <3>1 DEF RootOK
    <2>4. CASE ~open[Main]
        <3>1. todo'[Main] = todo[Main] /\ files'["rootKey"] = Torn
            BY <2>1, <2>4
        <3>2. RootPending'
            BY <1>3, <2>2, <3>1 DEF RootPending
        <3> QED
            BY <2>1, <2>2, <2>3, <3>1, <3>2 DEF KeyOrNone
    <2>5. CASE open[Main]
        <3>1. /\ todo'[Main] = <<Write("rootCert", Cert(k, k))>>
              /\ files'["rootKey"] = Key(k) /\ ~open'[Main]
            BY <2>1, <2>5
        <3>2. RootPending'
            BY <2>2, <3>1 DEF RootPending, Pending
        <3> QED
            BY <2>1, <2>2, <2>3, <3>1, <3>2 DEF KeyOrNone
    <2> QED
        BY <2>4, <2>5
<1>4. todo[Main] # <<>>
    OBVIOUS
<1> QED
    BY <1>2, <1>3, <1>4 DEF RootPending

\* The third stage: the key of the intermediate, then its certificate.
LEMMA IntWritten ==
    ASSUME TypeOK, KeyInv, RootOK, IntPending, MainWritesFile
    PROVE  /\ IntPending' /\ RootOK'
           /\ KeyOrNone("intKey")'
           /\ files'["intCert"] # Absent =>
                  IntOK' \/ (files'["intCert"] = Torn /\ Loads("intKey")')
           /\ Head(todo[Main]).file \in {"intKey", "intCert"}
           /\ ~IntOK
<1> DEFINE root == files["rootKey"].key
<1> USE MainFileStep, NotWhole
<1>1. {"intKey", "intCert", "rootKey", "rootCert"} \subseteq Files
    BY DEF Files, StartupFiles, SigningFiles
<1>2. root \in Keys
    BY KeyLoads DEF RootOK, KeyInv, CertificatesLast, KeyFileNames, SigningFiles
<1>3. ASSUME Head(todo[Main]).file \in {"intKey", "intCert"}
      PROVE  files'["rootKey"] = files["rootKey"] /\ files'["rootKey"].key = root /\ RootOK'
    BY <1>1, <1>3 DEF RootOK, Loads
<1> HIDE DEF root
<1>4. ASSUME NEW k \in Keys, todo[Main] = <<Write("intCert", Cert(k, root))>>,
             files["intKey"] = Key(k), Pending(Main, "intCert")
      PROVE  /\ IntPending' /\ KeyOrNone("intKey")'
             /\ (files'["intCert"] = Torn /\ Loads("intKey")') \/ IntOK'
             /\ Head(todo[Main]).file = "intCert" /\ ~IntOK
    <2>1. /\ Head(todo[Main]) = Write("intCert", Cert(k, root))
          /\ Head(todo[Main]).file = "intCert"
          /\ Head(todo[Main]).content = Cert(k, root)
          /\ Tail(todo[Main]) = <<>>
        BY <1>4, One, WriteFields
    <2>2. files'["intKey"] = Key(k) /\ Key(k) \notin {Absent, Torn} /\ Key(k).key = k
        BY <1>1, <1>4, <2>1, Whole
    <2>3. ~IntOK
        <3>1. files["intCert"] \in {Absent, Torn}
            BY <1>4 DEF Pending
        <3> QED
            BY <1>2, <1>4, <2>2, <3>1, Whole DEF IntOK, root
    <2>4. KeyOrNone("intKey")' /\ Loads("intKey")'
        BY <2>2 DEF KeyOrNone, Loads
    <2>5. files'["rootKey"].key = root
        BY <1>3, <2>1
    <2>6. CASE ~open[Main]
        <3>1. open'[Main] /\ todo'[Main] = todo[Main] /\ files'["intCert"] = Torn
            BY <2>1, <2>6
        <3>2. IntPending'
            BY <1>4, <2>2, <2>5, <3>1 DEF IntPending, Pending
        <3> QED
            BY <2>1, <2>3, <2>4, <3>1, <3>2
    <2>7. CASE open[Main]
        <3>1. todo'[Main] = <<>> /\ files'["intCert"] = Cert(k, root)
            BY <2>1, <2>7
        <3>2. IntOK'
            BY <2>2, <2>4, <2>5, <3>1 DEF IntOK
        <3>3. IntPending'
            BY <3>1, <3>2 DEF IntPending
        <3> QED
            BY <2>1, <2>3, <2>4, <3>2, <3>3
    <2> QED
        BY <2>6, <2>7
<1>5. ASSUME NEW k \in Keys, files["intCert"] = Absent,
             todo[Main] = <<Write("intKey", Key(k)), Write("intCert", Cert(k, root))>>
      PROVE  /\ IntPending' /\ KeyOrNone("intKey")'
             /\ files'["intCert"] = Absent
             /\ Head(todo[Main]).file = "intKey" /\ ~IntOK
    <2>1. /\ Head(todo[Main]) = Write("intKey", Key(k))
          /\ Head(todo[Main]).file = "intKey"
          /\ Head(todo[Main]).content = Key(k)
          /\ Tail(todo[Main]) = <<Write("intCert", Cert(k, root))>>
        BY <1>5, Two, WriteFields
    <2>2. files'["intCert"] = Absent
        BY <1>1, <1>5, <2>1
    <2>3. ~IntOK
        <3>1. CASE Loads("intKey")
            BY <1>2, <1>5, <3>1, KeyLoads, Whole
               DEF IntOK, KeyInv, CertificatesLast, KeyFileNames, SigningFiles, root
        <3> QED
            BY <3>1 DEF IntOK
    <2>4. files'["rootKey"].key = root
        BY <1>3, <2>1
    <2>5. CASE ~open[Main]
        <3>1. todo'[Main] = todo[Main] /\ files'["intKey"] = Torn
            BY <2>1, <2>5
        <3>2. IntPending'
            BY <1>5, <2>2, <2>4, <3>1 DEF IntPending
        <3> QED
            BY <2>1, <2>2, <2>3, <3>1, <3>2 DEF KeyOrNone
    <2>6. CASE open[Main]
        <3>1. /\ todo'[Main] = <<Write("intCert", Cert(k, root))>>
              /\ files'["intKey"] = Key(k) /\ ~open'[Main]
            BY <2>1, <2>6
        <3>2. IntPending'
            BY <2>2, <2>4, <3>1 DEF IntPending, Pending
        <3> QED
            BY <2>1, <2>2, <2>3, <3>1, <3>2 DEF KeyOrNone
    <2> QED
        BY <2>5, <2>6
<1>6. todo[Main] # <<>>
    OBVIOUS
<1> QED
    BY <1>3, <1>4, <1>5, <1>6 DEF IntPending, root

\* The last stage: the key of the blind signer.
LEMMA BlindWritten ==
    ASSUME TypeOK, KeyInv, BlindPending, MainWritesFile
    PROVE  /\ BlindPending'
           /\ KeyOrNone("blindKey")'
           /\ Head(todo[Main]).file = "blindKey"
           /\ ~Loads("blindKey")
<1> USE MainFileStep, NotWhole
<1>1. "blindKey" \in Files
    BY DEF Files, StartupFiles, SigningFiles
<1>2. PICK k \in Keys : todo[Main] = <<Write("blindKey", Key(k))>> /\ Pending(Main, "blindKey")
    BY DEF BlindPending
<1>3. /\ Head(todo[Main]) = Write("blindKey", Key(k))
      /\ Head(todo[Main]).file = "blindKey"
      /\ Head(todo[Main]).content = Key(k)
      /\ Tail(todo[Main]) = <<>>
    BY <1>2, One, WriteFields
<1>4. ~Loads("blindKey")
    BY <1>2 DEF Pending, Loads
<1>5. CASE ~open[Main]
    <2>1. open'[Main] /\ todo'[Main] = todo[Main] /\ files'["blindKey"] = Torn
        BY <1>3, <1>5
    <2>2. BlindPending'
        BY <1>2, <2>1 DEF BlindPending, Pending
    <2> QED
        BY <1>3, <1>4, <2>1, <2>2 DEF KeyOrNone
<1>6. CASE open[Main]
    <2>1. todo'[Main] = <<>> /\ files'["blindKey"] = Key(k)
        BY <1>3, <1>6
    <2>2. BlindPending'
        BY <2>1, Whole DEF BlindPending, Loads
    <2> QED
        BY <1>3, <1>4, <2>1, <2>2 DEF KeyOrNone
<1> QED
    BY <1>5, <1>6

----------------------------------------------------------------------------
(***************************************************************************)
(* What startup has created lasts.                                         *)
(***************************************************************************)

LastingFiles == SigningFiles \cup {"rootCert", "intCert"}

\* Everything is there as long as its files stay.
LEMMA FoundedStays ==
    ASSUME Founded, \A f \in LastingFiles : files'[f] = files[f]
    PROVE  Founded'
BY DEF Founded, RootOK, IntOK, Loads, LastingFiles, SigningFiles

\* The parts of the invariant that speak of startup's files hold when they stay.
LEMMA StartupFilesStay ==
    ASSUME KeyInv, UNCHANGED stage, todo'[Main] = todo[Main], open'[Main] = open[Main],
           \A f \in StartupFiles : files'[f] = files[f], KeyOrNone("tsaKey")'
    PROVE  CertificatesLast' /\ StagesDone'
<1>1. /\ \A f \in LastingFiles \cup {"legacyPublic"} : files'[f] = files[f]
      /\ (RootOK <=> RootOK') /\ (IntOK <=> IntOK') /\ (LegacyOK <=> LegacyOK')
    BY DEF StartupFiles, SigningFiles, LastingFiles, RootOK, IntOK, LegacyOK, Loads
<1>2. CertificatesLast'
    <2>1. \A f \in SigningFiles : KeyOrNone(f)'
        BY <1>1 DEF KeyInv, CertificatesLast, KeyFileNames, KeyOrNone, LastingFiles
    <2>2. /\ files'["rootCert"] = files["rootCert"] /\ files'["intCert"] = files["intCert"]
          /\ files'["rootKey"] = files["rootKey"] /\ files'["intKey"] = files["intKey"]
        BY <1>1 DEF LastingFiles, SigningFiles
    <2> QED
        BY <1>1, <2>1, <2>2 DEF KeyInv, CertificatesLast, KeyFileNames, Loads
<1>3. /\ LegacyPending => LegacyPending'
      /\ RootPending => RootPending'
      /\ IntPending => IntPending'
      /\ BlindPending => BlindPending'
    <2>1. /\ files'["legacyKey"] = files["legacyKey"]
          /\ files'["legacyPublic"] = files["legacyPublic"]
          /\ files'["rootKey"] = files["rootKey"] /\ files'["rootCert"] = files["rootCert"]
          /\ files'["intKey"] = files["intKey"] /\ files'["intCert"] = files["intCert"]
          /\ files'["blindKey"] = files["blindKey"]
        BY <1>1 DEF LastingFiles, SigningFiles
    <2>2. LegacyPending => LegacyPending'
        BY <1>1, <2>1 DEF LegacyPending, Pending, Loads
    <2>3. RootPending => RootPending'
        BY <1>1, <2>1 DEF RootPending, Pending
    <2>4. IntPending => IntPending'
        BY <1>1, <2>1 DEF IntPending, Pending
    <2>5. BlindPending => BlindPending'
        BY <2>1 DEF BlindPending, Pending, Loads
    <2> QED
        BY <2>2, <2>3, <2>4, <2>5
<1> QED
    BY <1>1, <1>2, <1>3 DEF KeyInv, StagesDone

\* A write of startup keeps what the stages have done, and replaces nothing that
\* is there for good.
LEMMA MainFileKeeps ==
    ASSUME TypeOK, KeyInv, MainWritesFile
    PROVE  /\ CertificatesLast' /\ StagesDone'
           /\ Founded => \A f \in LastingFiles : files'[f] = files[f]
<1> DEFINE head == Head(todo[Main]).file
<1>1. /\ stage' = stage /\ todo[Main] # <<>>
      /\ \A f \in Files : f # head => files'[f] = files[f]
      /\ stage \in {"root", "intermediate", "blind", "up"}
    BY MainFileStep DEF KeyInv, StagesDone, TypeOK
<1>2. /\ \A f \in KeyFileNames : KeyOrNone(f)
      /\ files["rootCert"] # Absent => RootOK \/ (files["rootCert"] = Torn /\ Loads("rootKey"))
      /\ files["intCert"] # Absent =>
             RootOK /\ (IntOK \/ (files["intCert"] = Torn /\ Loads("intKey")))
    BY DEF KeyInv, CertificatesLast
<1>3. ASSUME NEW f \in KeyFileNames, f # head PROVE KeyOrNone(f)'
    <2>1. files'[f] = files[f]
        BY <1>1, <1>3 DEF KeyFileNames, Files, StartupFiles
    <2> QED
        BY <1>2, <1>3, <2>1 DEF KeyOrNone
<1>4. ASSUME head \notin {"rootKey", "rootCert"} PROVE RootOK' <=> RootOK
    <2>1. files'["rootKey"] = files["rootKey"] /\ files'["rootCert"] = files["rootCert"]
        BY <1>1, <1>4 DEF Files, StartupFiles, SigningFiles
    <2> QED
        BY <2>1 DEF RootOK, Loads
<1>5. ASSUME head \notin {"intKey", "intCert", "rootKey"} PROVE IntOK' <=> IntOK
    <2>1. /\ files'["intKey"] = files["intKey"] /\ files'["intCert"] = files["intCert"]
          /\ files'["rootKey"] = files["rootKey"]
        BY <1>1, <1>5 DEF Files, StartupFiles, SigningFiles
    <2> QED
        BY <2>1 DEF IntOK, Loads
<1>6. ASSUME head \notin {"legacyKey", "legacyPublic"} PROVE LegacyOK' <=> LegacyOK
    <2>1. /\ files'["legacyKey"] = files["legacyKey"]
          /\ files'["legacyPublic"] = files["legacyPublic"]
        BY <1>1, <1>6 DEF Files, StartupFiles, SigningFiles
    <2> QED
        BY <2>1 DEF LegacyOK, Loads
<1>7. ASSUME NEW f \in Files, f # head PROVE files'[f] = files[f]
    BY <1>1, <1>7
<1>8. /\ \A f \in LastingFiles : f \in Files
      /\ {"rootKey", "rootCert", "intKey", "intCert"} \subseteq LastingFiles
    BY DEF LastingFiles, Files, StartupFiles, SigningFiles
<1> HIDE DEF head
<1>9. CASE stage = "root"
    <2>1. /\ LegacyPending' /\ KeyOrNone("legacyKey")' /\ head \in {"legacyKey", "legacyPublic"}
          /\ Loads("legacyKey") => files'["legacyKey"] = files["legacyKey"]
        BY <1>9, LegacyWrites DEF KeyInv, StagesDone, head
    <2>2. /\ files'["rootCert"] = files["rootCert"] /\ files'["rootKey"] = files["rootKey"]
          /\ files'["intCert"] = files["intCert"] /\ files'["intKey"] = files["intKey"]
        BY <1>7, <1>8, <2>1
    <2>3. (RootOK' <=> RootOK) /\ (IntOK' <=> IntOK)
        BY <1>4, <1>5, <2>1
    <2>4. \A f \in KeyFileNames : KeyOrNone(f)'
        BY <1>3, <2>1 DEF KeyFileNames, SigningFiles
    <2>5. CertificatesLast'
        BY <1>2, <2>2, <2>3, <2>4 DEF CertificatesLast, Loads
    <2>6. StagesDone'
        BY <1>1, <1>9, <2>1 DEF StagesDone
    <2>7. Founded => \A f \in LastingFiles : files'[f] = files[f]
        BY <1>7, <1>8, <2>1 DEF Founded, LastingFiles, SigningFiles
    <2> QED
        BY <2>5, <2>6, <2>7
<1>10. CASE stage = "intermediate"
    <2>1. /\ RootPending' /\ KeyOrNone("rootKey")' /\ head \in {"rootKey", "rootCert"} /\ ~RootOK
          /\ files'["rootCert"] # Absent =>
                  RootOK' \/ (files'["rootCert"] = Torn /\ Loads("rootKey")')
          /\ LegacyOK
        BY <1>10, RootWritten DEF KeyInv, StagesDone, head
    <2>2. files'["intCert"] = Absent
        BY <1>2, <1>7, <1>8, <2>1
    <2>3. \A f \in KeyFileNames : KeyOrNone(f)'
        BY <1>3, <2>1 DEF KeyFileNames, SigningFiles
    <2>4. CertificatesLast'
        BY <2>1, <2>2, <2>3 DEF CertificatesLast
    <2>5. StagesDone'
        BY <1>1, <1>6, <1>10, <2>1 DEF StagesDone
    <2> QED
        BY <2>1, <2>4, <2>5 DEF Founded
<1>11. CASE stage = "blind"
    <2>1. /\ IntPending' /\ RootOK' /\ KeyOrNone("intKey")'
          /\ head \in {"intKey", "intCert"} /\ ~IntOK
          /\ files'["intCert"] # Absent =>
                  IntOK' \/ (files'["intCert"] = Torn /\ Loads("intKey")')
          /\ LegacyOK
        BY <1>11, IntWritten DEF KeyInv, StagesDone, head
    <2>2. \A f \in KeyFileNames : KeyOrNone(f)'
        BY <1>3, <2>1 DEF KeyFileNames, SigningFiles
    <2>3. CertificatesLast'
        BY <2>1, <2>2 DEF CertificatesLast
    <2>4. StagesDone'
        BY <1>1, <1>6, <1>11, <2>1 DEF StagesDone
    <2> QED
        BY <2>1, <2>3, <2>4 DEF Founded
<1>12. CASE stage = "up"
    <2>1. /\ BlindPending' /\ KeyOrNone("blindKey")' /\ head = "blindKey" /\ ~Loads("blindKey")
          /\ LegacyOK /\ RootOK /\ IntOK
        BY <1>12, BlindWritten DEF KeyInv, StagesDone, head
    <2>2. /\ files'["rootCert"] = files["rootCert"] /\ files'["rootKey"] = files["rootKey"]
          /\ files'["intCert"] = files["intCert"] /\ files'["intKey"] = files["intKey"]
        BY <1>7, <1>8, <2>1
    <2>3. LegacyOK' /\ RootOK' /\ IntOK'
        BY <1>4, <1>5, <1>6, <2>1
    <2>4. \A f \in KeyFileNames : KeyOrNone(f)'
        BY <1>3, <2>1 DEF KeyFileNames, SigningFiles
    <2>5. CertificatesLast'
        BY <2>3, <2>4 DEF CertificatesLast
    <2>6. StagesDone'
        BY <1>1, <1>12, <2>1, <2>3 DEF StagesDone
    <2> QED
        BY <2>1, <2>5, <2>6 DEF Founded
<1> QED
    BY <1>1, <1>9, <1>10, <1>11, <1>12

----------------------------------------------------------------------------
(***************************************************************************)
(* Types.                                                                  *)
(***************************************************************************)

WriteType == [file : Files, content : Content]

\* A write of a content to a file, and lists of such writes.
LEMMA WriteTypes ==
    ASSUME NEW f \in Files, NEW c \in Content
    PROVE  Write(f, c) \in WriteType
BY DEF Write, WriteType

LEMMA WriteLists ==
    ASSUME NEW a \in WriteType, NEW b \in WriteType, NEW c \in WriteType, NEW d \in WriteType
    PROVE  /\ <<>> \in Seq(WriteType) /\ <<a>> \in Seq(WriteType)
           /\ <<a, b>> \in Seq(WriteType) /\ <<a, b, c, d>> \in Seq(WriteType)
OBVIOUS

\* The keys of startup that are there.
LEMMA FoundedKeys ==
    ASSUME TypeOK, KeyInv
    PROVE  /\ RootOK => files["rootKey"].key \in Keys
           /\ IntOK => files["intKey"].key \in Keys
           /\ \A f \in SigningFiles : Loads(f) => files[f].key \in Keys
           /\ Loads("tsaKey") => files["tsaKey"].key \in Keys /\ files["tsaKey"] = Key(files["tsaKey"].key)
<1>1. \A f \in KeyFileNames : KeyOrNone(f)
    BY DEF KeyInv, CertificatesLast
<1>2. ASSUME NEW f \in KeyFileNames, Loads(f)
      PROVE  files[f].key \in Keys /\ files[f] = Key(files[f].key)
    BY <1>1, <1>2, KeyLoads
<1> QED
    BY <1>2 DEF RootOK, IntOK, KeyFileNames, SigningFiles

\* Writing a file keeps the types.
LEMMA FileTypes ==
    ASSUME TypeOK, KeyInv, NEW a \in Actors, OpenFile(a) \/ CloseFile(a)
    PROVE  TypeOK'
<1>1. todo[a] # <<>>
    BY DEF OpenFile, CloseFile, KeyInv, HandlersWait
<1>2. todo[a] \in Seq(WriteType) /\ todo \in [Actors -> Seq(WriteType)]
    BY DEF TypeOK, WriteType
<1>3. Head(todo[a]).file \in Files /\ Head(todo[a]).content \in Content
    <2>1. Head(todo[a]) \in WriteType
        BY <1>1, <1>2
    <2> QED
        BY <2>1 DEF WriteType
<1>4. Tail(todo[a]) \in Seq(WriteType)
    BY <1>1, <1>2
<1>5. UNCHANGED <<stage, jobs, faults, vouched, stamped, pdfs, overlap>>
    BY DEF OpenFile, CloseFile, history
<1>6. CASE OpenFile(a)
    BY <1>3, <1>5, <1>6, NotWhole DEF OpenFile, TypeOK
<1>7. CASE CloseFile(a)
    BY <1>2, <1>3, <1>4, <1>5, <1>7 DEF CloseFile, TypeOK, WriteType
<1> QED
    BY <1>6, <1>7

\* A stage of startup keeps the types when its writes are of theirs.
LEMMA ProceedTypes ==
    ASSUME TypeOK, NEW from, NEW writes \in Seq(WriteType),
           NEW to \in {"down", "legacy", "root", "intermediate", "blind", "up"},
           Proceed(from, to, writes)
    PROVE  TypeOK'
BY DEF Proceed, TypeOK, WriteType, history

\* What the stages write are writes.
LEMMA StageTypes ==
    ASSUME TypeOK, KeyInv, Start \/ Startup
    PROVE  TypeOK'
<1> DEFINE k == Drawn
<1>1. \A f \in StartupFiles : f \in Files
    BY DEF Files
<1>2. ASSUME NEW f \in StartupFiles, NEW c \in Content PROVE <<Write(f, c)>> \in Seq(WriteType)
    BY <1>1, <1>2, WriteTypes, WriteLists
<1>3. ASSUME NEW f \in StartupFiles, NEW c \in Content, NEW g \in StartupFiles, NEW d \in Content
      PROVE  <<Write(f, c), Write(g, d)>> \in Seq(WriteType)
    BY <1>1, <1>3, WriteTypes, WriteLists
<1>4. <<>> \in Seq(WriteType)
    OBVIOUS
<1>5. ASSUME NEW n \in {"legacyKey", "legacyPublic", "rootKey", "rootCert", "intKey", "intCert", "blindKey"}
      PROVE n \in StartupFiles /\ n \in Files /\ files[n] \in Content
    BY <1>5 DEF StartupFiles, SigningFiles, Files, TypeOK
<1>6. ASSUME KeyLeft PROVE k \in Keys /\ Key(k) \in Content /\ Cert(k, k) \in Content
    BY <1>6, DrawnIsKey, Whole
<1> HIDE DEF k
<1>7. CASE Start
    BY <1>4, <1>7, ProceedTypes DEF Start
<1>8. CASE LegacyCa
    <2>1. CASE /\ KeyLeft
               /\ Proceed("legacy", "root", <<Write("legacyKey", Key(k)),
                                              Write("legacyPublic", Key(k))>>)
        BY <1>3, <1>5, <1>6, <2>1, ProceedTypes
    <2>2. CASE Proceed("legacy", "root", <<Write("legacyPublic", files["legacyKey"])>>)
        BY <1>2, <1>5, <2>2, ProceedTypes
    <2>3. CASE Proceed("legacy", "root", <<>>) \/ Proceed("legacy", "down", <<>>)
        BY <1>4, <2>3, ProceedTypes
    <2> QED
        BY <1>8, <2>1, <2>2, <2>3 DEF LegacyCa, StartupFails, k
<1>9. CASE RootCa
    <2>1. CASE /\ KeyLeft
               /\ Proceed("root", "intermediate", <<Write("rootKey", Key(k)),
                                                    Write("rootCert", Cert(k, k))>>)
        BY <1>3, <1>5, <1>6, <2>1, ProceedTypes
    <2>2. CASE Proceed("root", "intermediate", <<>>) \/ Proceed("root", "down", <<>>)
        BY <1>4, <2>2, ProceedTypes
    <2> QED
        BY <1>9, <2>1, <2>2 DEF RootCa, StartupFails, k
<1>10. CASE IntermediateCa
    <2>1. CASE /\ KeyLeft
               /\ Proceed("intermediate", "blind",
                          <<Write("intKey", Key(k)),
                            Write("intCert", Cert(k, files["rootKey"].key))>>)
        <3>1. todo[Main] = <<>> /\ stage = "intermediate"
            BY <2>1 DEF Proceed
        <3>2. files["rootKey"].key \in Keys
            BY <3>1, FoundedKeys, One, Two DEF KeyInv, StagesDone, RootPending
        <3>3. Cert(k, files["rootKey"].key) \in Content
            BY <1>6, <2>1, <3>2, Whole
        <3> QED
            BY <1>3, <1>5, <1>6, <2>1, <3>3, ProceedTypes
    <2>2. CASE Proceed("intermediate", "blind", <<>>) \/ Proceed("intermediate", "down", <<>>)
        BY <1>4, <2>2, ProceedTypes
    <2> QED
        BY <1>10, <2>1, <2>2 DEF IntermediateCa, StartupFails, k
<1>11. CASE BlindSigner
    <2>1. CASE KeyLeft /\ Proceed("blind", "up", <<Write("blindKey", Key(k))>>)
        BY <1>2, <1>5, <1>6, <2>1, ProceedTypes
    <2>2. CASE Proceed("blind", "up", <<>>) \/ Proceed("blind", "down", <<>>)
        BY <1>4, <2>2, ProceedTypes
    <2> QED
        BY <1>11, <2>1, <2>2 DEF BlindSigner, StartupFails, k
<1> QED
    BY <1>7, <1>8, <1>9, <1>10, <1>11 DEF Startup

\* Faults and handlers keep the types.
LEMMA HandlerTypes ==
    ASSUME TypeOK, KeyInv, NEW w \in Workers,
           \/ WriteFails(w) \/ SignWithStartupKeys(w)
           \/ TsaLoad(w) \/ TsaCreate(w) \/ TsaCreated(w)
           \/ SignerCreate(w) \/ SignerLoadKey(w) \/ SignerSign(w)
    PROVE  TypeOK'
<1>1. w \in Actors /\ Idle \in Job /\ <<>> \in Seq(WriteType)
    BY ActorsAndJobs DEF Job
<1>2. /\ "tsaKey" \in Files
      /\ {"signerKey", "signerCert", "signerInt", "signerRoot"} \subseteq Files
      /\ {"rootCert", "intCert"} \subseteq Files
    BY DEF Files, SignerFiles, StartupFiles
<1>3. todo \in [Actors -> Seq(WriteType)]
    BY DEF TypeOK, WriteType
<1>4. CASE WriteFails(w)
    <2>1. faults' \in 0..MaxFaults
        BY <1>4, ConstantsAssumption DEF WriteFails, TypeOK
    <2>2. todo' \in [Actors -> Seq(WriteType)] /\ jobs' \in [Workers -> Job]
        BY <1>1, <1>3, <1>4 DEF WriteFails, TypeOK
    <2> QED
        BY <1>4, <2>1, <2>2 DEF WriteFails, TypeOK, WriteType, history
<1>5. CASE SignWithStartupKeys(w)
    <2>1. [f \in SigningFiles |-> files[f].key] \in [SigningFiles -> Keys]
        BY <1>5, FoundedKeys DEF SignWithStartupKeys
    <2> QED
        BY <1>5, <2>1 DEF SignWithStartupKeys, TypeOK, server
<1>6. CASE TsaLoad(w)
    BY <1>6, FoundedKeys DEF TsaLoad, TypeOK, server
<1>7. CASE TsaCreate(w)
    <2>1. Drawn \in Keys /\ Key(Drawn) \in Content
        BY <1>7, DrawnIsKey, Whole DEF TsaCreate
    <2>2. <<Write("tsaKey", Key(Drawn))>> \in Seq(WriteType)
        BY <1>2, <2>1, WriteTypes, WriteLists
    <2>3. todo' \in [Actors -> Seq(WriteType)]
        BY <1>3, <1>7, <2>2 DEF TsaCreate
    <2>4. ASSUME NEW x \in CreatingTsa PROVE [jobs[x] EXCEPT !.alone = FALSE] \in Job
        <3>1. x \in Workers /\ jobs[x] \in Job /\ jobs[x].op = "tsa_create"
            BY <2>4 DEF CreatingTsa, TypeOK
        <3>2. jobs[x] \in [op : {"tsa_create"}, key : Keys, alone : BOOLEAN]
            BY <3>1 DEF Job, Idle
        <3> QED
            BY <3>2 DEF Job
    <2>5. [op |-> "tsa_create", key |-> Drawn, alone |-> CreatingTsa = {}] \in Job
        BY <2>1 DEF Job
    <2>6. jobs' \in [Workers -> Job]
        <3>1. \A x \in Workers : jobs[x] \in Job
            BY DEF TypeOK
        <3> QED
            BY <1>7, <2>4, <2>5, <3>1 DEF TsaCreate
    <2> QED
        BY <1>7, <2>3, <2>6 DEF TsaCreate, TypeOK, WriteType, history
<1>8. CASE TsaCreated(w)
    BY <1>1, <1>8, ActorsAndJobs DEF TsaCreated, Goto, TypeOK
<1>9. CASE SignerCreate(w)
    <2> DEFINE k == Drawn
    <2>1. k \in Keys /\ Key(k) \in Content
        BY <1>9, DrawnIsKey, Whole DEF SignerCreate
    <2>2. Cert(k, files["intKey"].key) \in Content
        <3>1. Up
            BY <1>9 DEF SignerCreate, Free
        <3>2. files["intKey"].key \in Keys
            BY <3>1, UpIsFounded, FoundedKeys DEF Founded
        <3> QED
            BY <2>1, <3>2, Whole
    <2>3. files["intCert"] \in Content /\ files["rootCert"] \in Content
        BY <1>2 DEF TypeOK
    <2> HIDE DEF k
    <2>4. /\ Write("signerKey", Key(k)) \in WriteType
          /\ Write("signerCert", Cert(k, files["intKey"].key)) \in WriteType
          /\ Write("signerInt", files["intCert"]) \in WriteType
          /\ Write("signerRoot", files["rootCert"]) \in WriteType
        BY <1>2, <2>1, <2>2, <2>3, WriteTypes
    <2>5. <<Write("signerKey", Key(k)), Write("signerCert", Cert(k, files["intKey"].key)),
            Write("signerInt", files["intCert"]), Write("signerRoot", files["rootCert"])>>
              \in Seq(WriteType)
        BY <2>4, WriteLists
    <2>6. todo' \in [Actors -> Seq(WriteType)]
        BY <1>3, <1>9, <2>5 DEF SignerCreate, k
    <2>7. [op |-> "signer_create"] \in Job
        BY DEF Job
    <2> QED
        BY <1>9, <2>6, <2>7 DEF SignerCreate, Goto, TypeOK, WriteType
<1>10. CASE SignerLoadKey(w)
    <2>1. ASSUME Loads("signerKey")
          PROVE  [op |-> "signer_load_cert", key |-> files["signerKey"].key] \in Job
        <3>1. files["signerKey"] \in Content
            BY <1>2 DEF TypeOK
        <3>2. files["signerKey"].key \in Keys
            BY <2>1, <3>1 DEF Content, Loads
        <3> QED
            BY <3>2 DEF Job
    <2>2. jobs' \in [Workers -> Job]
        BY <1>1, <1>10, <2>1 DEF SignerLoadKey, Goto, TypeOK
    <2> QED
        BY <1>10, <2>2 DEF SignerLoadKey, TypeOK, history
<1>11. CASE SignerSign(w)
    <2>1. SignerVerifies(jobs[w].key) \in BOOLEAN
        BY DEF SignerVerifies
    <2> QED
        BY <1>1, <1>11, <2>1 DEF SignerSign, Goto, TypeOK
<1> QED
    BY <1>4, <1>5, <1>6, <1>7, <1>8, <1>9, <1>10, <1>11

\* Every step keeps the types.
LEMMA TypeStep ==
    ASSUME TypeOK, KeyInv, [Next]_vars
    PROVE  TypeOK'
<1>1. CASE Crash
    <2>1. Idle \in Job /\ <<>> \in Seq(WriteType)
        BY DEF Job
    <2> QED
        BY <1>1, <2>1, ConstantsAssumption DEF Crash, TypeOK, WriteType, history
<1>2. CASE UNCHANGED vars
    BY <1>2 DEF vars, TypeOK
<1> QED
    BY <1>1, <1>2, FileTypes, StageTypes, HandlerTypes DEF Next

----------------------------------------------------------------------------
(***************************************************************************)
(* The invariant is kept: writes to files.                                 *)
(***************************************************************************)

\* What is said of the signer's files stays true while they and what they are made
\* from stay.
LEMMA SignerFilesStay ==
    ASSUME SignerFilesLast, KeyOrNone("signerKey"),
           \A f \in SignerFiles : files'[f] = files[f],
           Founded => \A f \in LastingFiles : files'[f] = files[f]
    PROVE  SignerFilesLast' /\ KeyOrNone("signerKey")'
<1>1. /\ files'["signerKey"] = files["signerKey"] /\ files'["signerCert"] = files["signerCert"]
      /\ files'["signerInt"] = files["signerInt"] /\ files'["signerRoot"] = files["signerRoot"]
    BY DEF SignerFiles
<1>2. KeyOrNone("signerKey")'
    BY <1>1 DEF KeyOrNone
<1>3. CASE files["signerCert"] = Absent
    BY <1>1, <1>2, <1>3 DEF SignerFilesLast
<1>4. CASE files["signerCert"] # Absent
    <2>1. Founded'
        BY <1>4, FoundedStays DEF SignerFilesLast
    <2>2. /\ files'["intKey"] = files["intKey"] /\ files'["intCert"] = files["intCert"]
          /\ files'["rootCert"] = files["rootCert"]
        BY <1>4 DEF SignerFilesLast, LastingFiles, SigningFiles
    <2> QED
        BY <1>1, <1>2, <1>4, <2>1, <2>2 DEF SignerFilesLast, Loads
<1> QED
    BY <1>2, <1>3, <1>4

\* What has signed stays as long as the lasting files do.
LEMMA VouchedStays ==
    ASSUME KeyInv, UNCHANGED vouched, Founded => \A f \in LastingFiles : files'[f] = files[f]
    PROVE  VouchedKeys'
<1> SUFFICES ASSUME vouched # {}
             PROVE  Founded' /\ \A v \in vouched : \A f \in SigningFiles : files'[f].key = v[f]
    BY DEF VouchedKeys
<1>1. Founded /\ \A v \in vouched : \A f \in SigningFiles : files[f].key = v[f]
    BY DEF KeyInv, VouchedKeys
<1>2. \A f \in LastingFiles : files'[f] = files[f]
    BY <1>1
<1> QED
    BY <1>1, <1>2, FoundedStays DEF LastingFiles

\* A write of startup: no handler runs, and the handlers' files stay.
LEMMA MainFileInv ==
    ASSUME TypeOK, KeyInv, MainWritesFile
    PROVE  KeyInv'
<1>1. /\ \A w \in Workers : todo[w] = <<>> /\ jobs[w] = Idle
      /\ Head(todo[Main]).file \in StartupFiles
    BY MainFileStep, MainWrites
<1>2. \A f \in SignerFiles \cup {"tsaKey"} : files'[f] = files[f]
    BY <1>1, MainFileStep DEF Files, StartupFiles, SigningFiles, SignerFiles
<1>3. Founded => \A f \in LastingFiles : files'[f] = files[f]
    BY MainFileKeeps
<1>4. CertificatesLast' /\ StagesDone'
    BY MainFileKeeps
<1>5. jobs' = jobs /\ \A w \in Workers : jobs[w].op = "idle"
    BY <1>1, MainFileStep DEF Idle
<1>6. HandlersWait'
    <2>1. ASSUME NEW a \in Actors, open'[a] PROVE todo'[a] # <<>>
        <3>1. CASE a = Main
            BY <2>1, <3>1, MainFileStep
        <3>2. CASE a \in Workers
            BY <2>1, <3>2, MainFileStep, ActorsAndJobs DEF KeyInv, HandlersWait
        <3> QED
            BY <3>1, <3>2, ActorsAndJobs
    <2>2. \A w \in Workers : jobs'[w] = Idle /\ jobs'[w].op = "idle" /\ todo'[w] = <<>>
        BY <1>1, <1>5, MainFileStep
    <2> QED
        BY <2>1, <2>2 DEF HandlersWait
<1>7. VouchedKeys'
    BY <1>3, MainFileStep, VouchedStays
<1>8. TsaCreations' /\ StampedKeys'
    <2>1. CreatingTsa' = {}
        BY <1>5 DEF CreatingTsa
    <2> QED
        BY <1>2, <2>1, MainFileStep DEF TsaCreations, StampedKeys, KeyInv
<1>9. SignerInv'
    <2> SUFFICES ASSUME ~overlap PROVE SignerInv'
        BY MainFileStep DEF SignerInv
    <2>1. SignerFilesLast' /\ KeyOrNone("signerKey")'
        BY <1>2, <1>3, SignerFilesStay DEF KeyInv, SignerInv
    <2>2. Creators' = {} /\ \A w \in Workers : jobs'[w].op # "signer_load_cert"
        BY <1>5 DEF Creators
    <2>3. FALSE \notin pdfs'
        BY MainFileStep DEF KeyInv, SignerInv
    <2> QED
        BY <2>1, <2>2, <2>3 DEF SignerInv
<1> QED
    BY <1>4, <1>6, <1>7, <1>8, <1>9 DEF KeyInv

WorkerWritesFile(w) == OpenFile(w) \/ CloseFile(w)

\* A write of a handler: startup's files stay, and so do the other actors' writes.
LEMMA WorkerFileStep ==
    ASSUME TypeOK, KeyInv, NEW w \in Workers, WorkerWritesFile(w)
    PROVE  /\ todo[w] # <<>> /\ Up /\ Founded
           /\ UNCHANGED <<stage, jobs, faults, vouched, stamped, pdfs, overlap>>
           /\ \A a \in Actors \ {w} : todo'[a] = todo[a] /\ open'[a] = open[a]
           /\ Head(todo[w]).file \in SignerFiles \cup {"tsaKey"}
           /\ \A f \in Files : f # Head(todo[w]).file => files'[f] = files[f]
           /\ \/ /\ ~open[w] /\ open'[w] /\ todo'[w] = todo[w]
                 /\ files'[Head(todo[w]).file] = Torn
              \/ /\ open[w] /\ ~open'[w] /\ todo'[w] = Tail(todo[w])
                 /\ files'[Head(todo[w]).file] = Head(todo[w]).content
<1>1. w \in Actors
    BY ActorsAndJobs
<1>2. todo[w] # <<>>
    BY <1>1 DEF WorkerWritesFile, OpenFile, CloseFile, KeyInv, HandlersWait
<1>3. Up /\ Head(todo[w]).file \in SignerFiles \cup {"tsaKey"}
    BY <1>2, WorkersWrite, WriteFields
<1>4. Founded
    BY <1>3, UpIsFounded
<1>5. Head(todo[w]).file \in Files
    BY <1>3 DEF Files
<1>6. CASE OpenFile(w)
    BY <1>1, <1>3, <1>4, <1>5, <1>6, OpenStep
<1>7. CASE CloseFile(w)
    BY <1>1, <1>2, <1>3, <1>4, <1>5, <1>7, CloseStep
<1> QED
    BY <1>6, <1>7 DEF WorkerWritesFile

\* A creation of the signer goes on: each of its files after the one it stands for.
LEMMA SignerWritten ==
    ASSUME TypeOK, KeyInv, ~overlap, NEW w \in Creators, WorkerWritesFile(w)
    PROVE  /\ Creation(w)' /\ SignerFilesLast' /\ KeyOrNone("signerKey")'
           /\ files["signerCert"] # Absent =>
                 files'["signerCert"] # Absent /\ files'["signerKey"] = files["signerKey"]
<1> USE WorkerFileStep, NotWhole
<1>1. w \in Workers /\ Creation(w) /\ SignerFilesLast /\ KeyOrNone("signerKey")
    BY DEF Creators, KeyInv, SignerInv
<1>2. {"signerKey", "signerCert", "signerInt", "signerRoot", "intKey", "intCert", "rootCert"}
          \subseteq Files
    BY DEF Files, SignerFiles, StartupFiles, SigningFiles
<1>3. \A f \in LastingFiles : f \in Files /\ f \notin SignerFiles \cup {"tsaKey"}
    BY DEF LastingFiles, Files, SignerFiles, StartupFiles, SigningFiles
<1>4. \A f \in LastingFiles : files'[f] = files[f]
    BY <1>1, <1>3
<1>5. /\ files'["intKey"] = files["intKey"] /\ files'["intCert"] = files["intCert"]
      /\ files'["rootCert"] = files["rootCert"]
    BY <1>4 DEF LastingFiles, SigningFiles
<1>6. Founded /\ Founded'
    BY <1>1, <1>4, FoundedStays
<1>7. CASE todo[w] = RootWrites /\ files["signerCert"] # Absent
    <2>1. /\ Head(todo[w]).file = "signerRoot" /\ Head(todo[w]).content = files["rootCert"]
          /\ Tail(todo[w]) = <<>>
        BY <1>7, One, WriteFields DEF RootWrites
    <2>2. /\ files'["signerKey"] = files["signerKey"] /\ files'["signerCert"] = files["signerCert"]
          /\ files'["signerInt"] = files["signerInt"]
          /\ files'["signerRoot"] \in {Torn, files["rootCert"]}
        BY <1>1, <1>2, <2>1
    <2>3. todo'[w] \in {RootWrites, <<>>} /\ RootWrites' = RootWrites
        BY <1>1, <1>5, <1>7, <2>1 DEF RootWrites
    <2>4. SignerFilesLast' /\ KeyOrNone("signerKey")'
        BY <1>1, <1>5, <1>6, <1>7, <2>2 DEF SignerFilesLast, Loads, KeyOrNone
    <2> QED
        BY <1>7, <2>2, <2>3, <2>4 DEF Creation
<1>8. CASE todo[w] = ChainWrites /\ files["signerCert"] # Absent
    <2>1. /\ Head(todo[w]).file = "signerInt" /\ Head(todo[w]).content = files["intCert"]
          /\ Tail(todo[w]) = RootWrites
        BY <1>8, Two, WriteFields DEF RootWrites, ChainWrites
    <2>2. /\ files'["signerKey"] = files["signerKey"] /\ files'["signerCert"] = files["signerCert"]
          /\ files'["signerRoot"] = files["signerRoot"]
          /\ files'["signerInt"] \in {Torn, files["intCert"]}
        BY <1>1, <1>2, <2>1
    <2>3. /\ todo'[w] \in {ChainWrites, RootWrites}
          /\ RootWrites' = RootWrites /\ ChainWrites' = ChainWrites
        BY <1>1, <1>5, <1>8, <2>1 DEF RootWrites, ChainWrites
    <2>4. SignerFilesLast' /\ KeyOrNone("signerKey")'
        BY <1>1, <1>5, <1>6, <1>8, <2>2 DEF SignerFilesLast, Loads, KeyOrNone
    <2> QED
        BY <1>8, <2>2, <2>3, <2>4 DEF Creation
<1>9. ASSUME NEW k \in Keys, todo[w] = CertWrites(k), files["signerKey"] = Key(k),
             Pending(w, "signerCert")
      PROVE  /\ Creation(w)' /\ SignerFilesLast' /\ KeyOrNone("signerKey")'
             /\ files'["signerCert"] # Absent /\ files'["signerKey"] = files["signerKey"]
    <2>1. /\ Head(todo[w]).file = "signerCert"
          /\ Head(todo[w]).content = Cert(k, files["intKey"].key)
          /\ Tail(todo[w]) = ChainWrites
        BY <1>9, Three, WriteFields DEF CertWrites, ChainWrites
    <2>2. /\ files'["signerKey"] = files["signerKey"] /\ files'["signerInt"] = files["signerInt"]
          /\ files'["signerRoot"] = files["signerRoot"]
        BY <1>1, <1>2, <2>1
    <2>3. files["intKey"].key \in Keys
        BY <1>6, FoundedKeys DEF Founded
    <2>4. /\ Key(k) \notin {Absent, Torn} /\ Key(k).key = k
          /\ Cert(k, files["intKey"].key) # Absent
        BY <2>3, Whole
    <2>5. files'["signerCert"] \in {Torn, Cert(k, files["intKey"].key)}
        BY <1>1, <2>1
    <2>6. SignerFilesLast' /\ KeyOrNone("signerKey")'
        BY <1>1, <1>5, <1>6, <1>9, <2>2, <2>4, <2>5 DEF SignerFilesLast, Loads, KeyOrNone
    <2>7. CASE ~open[w]
        <3>1. open'[w] /\ todo'[w] = CertWrites(k) /\ files'["signerCert"] = Torn
            BY <1>1, <1>9, <2>1, <2>7
        <3>2. CertWrites(k)' = CertWrites(k)
            BY <1>5 DEF CertWrites
        <3>3. Creation(w)'
            BY <1>9, <2>2, <3>1, <3>2 DEF Creation, Pending
        <3> QED
            BY <2>2, <2>6, <3>1, <3>3
    <2>8. CASE open[w]
        <3>1. todo'[w] = ChainWrites /\ files'["signerCert"] # Absent
            BY <1>1, <2>1, <2>4, <2>8
        <3>2. ChainWrites' = ChainWrites
            BY <1>5 DEF ChainWrites
        <3>3. Creation(w)'
            BY <3>1, <3>2 DEF Creation
        <3> QED
            BY <2>2, <2>6, <3>1, <3>3
    <2> QED
        BY <2>7, <2>8
<1>10. ASSUME NEW k \in Keys, todo[w] = SignerWrites(k), files["signerCert"] = Absent
       PROVE  Creation(w)' /\ SignerFilesLast' /\ KeyOrNone("signerKey")'
    <2>1. /\ Head(todo[w]).file = "signerKey" /\ Head(todo[w]).content = Key(k)
          /\ Tail(todo[w]) = CertWrites(k)
        BY <1>10, Four, WriteFields DEF CertWrites, SignerWrites
    <2>2. /\ files'["signerCert"] = Absent /\ files'["signerInt"] = files["signerInt"]
          /\ files'["signerRoot"] = files["signerRoot"]
        BY <1>1, <1>2, <1>10, <2>1
    <2>3. SignerFilesLast'
        BY <1>1, <1>10, <2>2 DEF SignerFilesLast
    <2>4. SignerWrites(k)' = SignerWrites(k) /\ CertWrites(k)' = CertWrites(k)
        BY <1>5 DEF SignerWrites, CertWrites
    <2>5. CASE ~open[w]
        <3>1. todo'[w] = SignerWrites(k) /\ files'["signerKey"] = Torn
            BY <1>1, <1>10, <2>1, <2>5
        <3>2. Creation(w)'
            BY <2>2, <2>4, <3>1 DEF Creation
        <3> QED
            BY <2>3, <3>1, <3>2 DEF KeyOrNone
    <2>6. CASE open[w]
        <3>1. ~open'[w] /\ todo'[w] = CertWrites(k) /\ files'["signerKey"] = Key(k)
            BY <1>1, <2>1, <2>6
        <3>2. Creation(w)'
            BY <2>2, <2>4, <3>1 DEF Creation, Pending
        <3> QED
            BY <2>3, <3>1, <3>2 DEF KeyOrNone
    <2> QED
        BY <2>5, <2>6
<1>11. todo[w] # <<>>
    BY <1>1
<1> QED
    BY <1>1, <1>7, <1>8, <1>9, <1>10, <1>11 DEF Creation
\* A creation of the signer that does nothing is where it was.
LEMMA CreationStays ==
    ASSUME NEW w, Creation(w), todo'[w] = todo[w], open'[w] = open[w],
           \A f \in SignerFiles \cup LastingFiles : files'[f] = files[f]
    PROVE  Creation(w)'
<1>1. /\ files'["signerKey"] = files["signerKey"] /\ files'["signerCert"] = files["signerCert"]
      /\ files'["intKey"] = files["intKey"] /\ files'["intCert"] = files["intCert"]
      /\ files'["rootCert"] = files["rootCert"]
    BY DEF SignerFiles, LastingFiles, SigningFiles
<1>2. /\ RootWrites' = RootWrites /\ ChainWrites' = ChainWrites
      /\ \A k \in Keys : CertWrites(k)' = CertWrites(k) /\ SignerWrites(k)' = SignerWrites(k)
    BY <1>1 DEF RootWrites, ChainWrites, CertWrites, SignerWrites
<1>3. Pending(w, "signerCert")' <=> Pending(w, "signerCert")
    BY <1>1 DEF Pending
<1> QED
    BY <1>1, <1>2, <1>3 DEF Creation

\* The items of the tail of a sequence are items of the sequence.
LEMMA TailItems ==
    ASSUME NEW S, NEW s \in Seq(S), s # <<>>, NEW i \in DOMAIN Tail(s)
    PROVE  i + 1 \in DOMAIN s /\ Tail(s)[i] = s[i + 1]
OBVIOUS

\* A write of a handler keeps the threads' state.
LEMMA WorkerFileWaits ==
    ASSUME TypeOK, KeyInv, NEW w \in Workers, WorkerWritesFile(w)
    PROVE  HandlersWait'
<1>1. w \in Actors /\ \A x \in Workers : x \in Actors /\ x # Main
    BY ActorsAndJobs
<1>2. UNCHANGED <<stage, jobs>> /\ todo'[Main] = todo[Main]
    BY <1>1, WorkerFileStep, ActorsAndJobs
<1>3. ASSUME NEW a \in Actors, open'[a] PROVE todo'[a] # <<>>
    <2>1. CASE a = w
        BY <1>3, <2>1, WorkerFileStep
    <2>2. CASE a # w
        BY <1>3, <2>2, WorkerFileStep DEF KeyInv, HandlersWait
    <2> QED
        BY <2>1, <2>2
<1>4. \A x \in Workers : jobs'[x] # Idle => Up'
    BY <1>2 DEF KeyInv, HandlersWait, Up
<1>5. ASSUME NEW x \in Workers, jobs'[x].op \in {"idle", "signer_load_cert"} PROVE todo'[x] = <<>>
    <2>1. todo[x] = <<>>
        BY <1>2, <1>5 DEF KeyInv, HandlersWait
    <2>2. x # w
        BY <2>1, WorkerFileStep
    <2> QED
        BY <1>1, <2>1, <2>2, WorkerFileStep
<1>6. ASSUME NEW x \in Workers, jobs'[x].op = "signer_create", NEW i \in DOMAIN todo'[x]
      PROVE  todo'[x][i].file \in SignerFiles
    <2>1. \A j \in DOMAIN todo[x] : todo[x][j].file \in SignerFiles
        BY <1>2, <1>6 DEF KeyInv, HandlersWait
    <2>2. CASE todo'[x] = todo[x]
        BY <1>6, <2>1, <2>2
    <2>3. CASE x = w /\ todo[x] # <<>> /\ todo'[x] = Tail(todo[x])
        <3>1. todo[x] \in Seq(WriteType)
            BY <1>1 DEF TypeOK, WriteType
        <3>2. i + 1 \in DOMAIN todo[x] /\ todo'[x][i] = todo[x][i + 1]
            BY <1>6, <2>3, <3>1, TailItems
        <3> QED
            BY <2>1, <3>2
    <2> QED
        BY <1>1, <2>2, <2>3, WorkerFileStep
<1> QED
    BY <1>3, <1>4, <1>5, <1>6 DEF HandlersWait

\* A write of the timestamping key: a creation that is alone has written its own key.
LEMMA TsaFileInv ==
    ASSUME TypeOK, KeyInv, NEW w \in CreatingTsa, WorkerWritesFile(w)
    PROVE  KeyInv'
<1>1. /\ w \in Workers /\ w \in Actors /\ jobs[w].op = "tsa_create" /\ jobs[w].key \in Keys
      /\ jobs'= jobs
    BY WorkerFileStep, ActorsAndJobs DEF CreatingTsa
<1>2. /\ todo[w] = <<Write("tsaKey", Key(jobs[w].key))>>
      /\ Head(todo[w]) = Write("tsaKey", Key(jobs[w].key)) /\ Tail(todo[w]) = <<>>
    <2>1. todo[w] = <<Write("tsaKey", Key(jobs[w].key))>>
        BY <1>1, WorkerFileStep DEF KeyInv, TsaCreations
    <2> QED
        BY <2>1, One
<1>3. Head(todo[w]).file = "tsaKey" /\ Head(todo[w]).content = Key(jobs[w].key)
    BY <1>2, WriteFields
<1>4. \A f \in StartupFiles \cup SignerFiles : f \in Files /\ f # "tsaKey" /\ files'[f] = files[f]
    BY <1>1, <1>3, WorkerFileStep DEF Files, StartupFiles, SigningFiles, SignerFiles
<1>5. LastingFiles \subseteq StartupFiles
    BY DEF LastingFiles, StartupFiles
<1>6. KeyOrNone("tsaKey")'
    BY <1>1, <1>3, WorkerFileStep DEF KeyOrNone
<1>7. Main # w /\ Main \in Actors /\ \A x \in Workers : x \in Actors
    BY <1>1, ActorsAndJobs
<1>8. CertificatesLast' /\ StagesDone'
    BY <1>1, <1>4, <1>6, <1>7, WorkerFileStep, StartupFilesStay
<1>9. HandlersWait'
    BY <1>1, WorkerFileWaits
<1>10. VouchedKeys'
    BY <1>1, <1>4, <1>5, WorkerFileStep, VouchedStays
<1>11. CreatingTsa' = CreatingTsa
    BY <1>1 DEF CreatingTsa
<1>12. TsaCreations'
    <2>1. ASSUME NEW x \in CreatingTsa
          PROVE  /\ todo'[x] \in {<<>>, <<Write("tsaKey", Key(jobs[x].key))>>}
                 /\ jobs[x].alone =>
                       /\ CreatingTsa = {x}
                       /\ todo'[x] = <<>> => files'["tsaKey"] = Key(jobs[x].key)
        <3>1. CASE x = w
            <4>1. jobs[w].alone => CreatingTsa = {w}
                BY DEF KeyInv, TsaCreations
            <4>2. CASE ~open[w] /\ todo'[w] = todo[w]
                BY <1>2, <3>1, <4>1, <4>2
            <4>3. CASE todo'[w] = <<>> /\ files'["tsaKey"] = Key(jobs[w].key)
                BY <3>1, <4>1, <4>3
            <4> QED
                BY <1>1, <1>2, <1>3, <4>2, <4>3, WorkerFileStep
        <3>2. CASE x # w
            <4>1. todo'[x] = todo[x]
                BY <1>1, <1>7, <3>2, WorkerFileStep DEF CreatingTsa
            <4>2. ~(CreatingTsa = {x})
                BY <3>2
            <4> QED
                BY <4>1, <4>2 DEF KeyInv, TsaCreations
        <3> QED
            BY <3>1, <3>2
    <2> QED
        BY <1>1, <1>11, <2>1 DEF TsaCreations
<1>13. StampedKeys'
    <2>1. stamped' = {}
        BY <1>1, WorkerFileStep DEF KeyInv, StampedKeys
    <2> QED
        BY <2>1 DEF StampedKeys
<1>14. SignerInv'
    <2> SUFFICES ASSUME ~overlap PROVE SignerInv'
        BY <1>1, WorkerFileStep DEF SignerInv
    <2>1. SignerFilesLast' /\ KeyOrNone("signerKey")'
        BY <1>4, <1>5, SignerFilesStay DEF KeyInv, SignerInv
    <2>2. Creators' = Creators
        BY <1>1 DEF Creators
    <2>3. ASSUME NEW x \in Creators PROVE Creation(x)'
        <3>1. x # w /\ x \in Actors
            BY <1>1, <1>7 DEF Creators
        <3>2. todo'[x] = todo[x] /\ open'[x] = open[x]
            BY <1>1, <3>1, WorkerFileStep
        <3>3. Creation(x)
            BY DEF KeyInv, SignerInv
        <3> QED
            BY <1>4, <1>5, <3>2, <3>3, CreationStays
    <2>4. files'["signerCert"] = files["signerCert"] /\ files'["signerKey"] = files["signerKey"]
        BY <1>4 DEF SignerFiles
    <2>5. pdfs' = pdfs
        BY <1>1, WorkerFileStep
    <2> QED
        BY <1>1, <2>1, <2>2, <2>3, <2>4, <2>5 DEF SignerInv, KeyInv
<1> QED
    BY <1>8, <1>9, <1>10, <1>12, <1>13, <1>14 DEF KeyInv

\* A write of the PAdES signer.
LEMMA SignerFileInv ==
    ASSUME TypeOK, KeyInv, NEW w \in Creators, WorkerWritesFile(w)
    PROVE  KeyInv'
<1>1. /\ w \in Workers /\ w \in Actors /\ jobs[w].op = "signer_create" /\ w \notin CreatingTsa
      /\ jobs' = jobs
    BY WorkerFileStep, ActorsAndJobs DEF Creators, CreatingTsa
<1>2. Head(todo[w]).file \in SignerFiles
    BY <1>1, WorkersWrite, WorkerFileStep
<1>3. \A f \in StartupFiles \cup {"tsaKey"} : f \in Files /\ files'[f] = files[f]
    BY <1>1, <1>2, WorkerFileStep DEF Files, StartupFiles, SigningFiles, SignerFiles
<1>4. LastingFiles \subseteq StartupFiles
    BY DEF LastingFiles, StartupFiles
<1>5. KeyOrNone("tsaKey")'
    BY <1>3 DEF KeyInv, CertificatesLast, KeyFileNames, KeyOrNone
<1>6. Main # w /\ Main \in Actors /\ \A x \in Workers : x \in Actors
    BY <1>1, ActorsAndJobs
<1>7. CertificatesLast' /\ StagesDone'
    BY <1>1, <1>3, <1>5, <1>6, WorkerFileStep, StartupFilesStay
<1>8. HandlersWait'
    BY <1>1, WorkerFileWaits
<1>9. VouchedKeys'
    BY <1>1, <1>3, <1>4, WorkerFileStep, VouchedStays
<1>10. CreatingTsa' = CreatingTsa /\ files'["tsaKey"] = files["tsaKey"] /\ stamped' = stamped
    BY <1>1, <1>3, WorkerFileStep DEF CreatingTsa
<1>11. \A x \in CreatingTsa : todo'[x] = todo[x]
    BY <1>1, <1>6, WorkerFileStep DEF CreatingTsa
<1>12. TsaCreations' /\ StampedKeys'
    BY <1>1, <1>10, <1>11 DEF TsaCreations, StampedKeys, KeyInv
<1>13. SignerInv'
    <2> SUFFICES ASSUME ~overlap PROVE SignerInv'
        BY <1>1, WorkerFileStep DEF SignerInv
    <2>1. /\ Creation(w)' /\ SignerFilesLast' /\ KeyOrNone("signerKey")'
          /\ files["signerCert"] # Absent =>
                files'["signerCert"] # Absent /\ files'["signerKey"] = files["signerKey"]
        BY SignerWritten
    <2>2. Creators' = Creators /\ pdfs' = pdfs
        BY <1>1, WorkerFileStep DEF Creators
    <2>3. \A v, x \in Creators : v = x
        BY DEF KeyInv, SignerInv
    <2>4. \A x \in Creators' : Creation(x)'
        BY <2>1, <2>2, <2>3
    <2>5. \A x \in Workers : jobs'[x].op = "signer_load_cert" =>
              files'["signerCert"] # Absent /\ files'["signerKey"] = Key(jobs'[x].key)
        BY <1>1, <2>1 DEF KeyInv, SignerInv
    <2> QED
        BY <2>1, <2>2, <2>3, <2>4, <2>5 DEF SignerInv, KeyInv
<1> QED
    BY <1>7, <1>8, <1>9, <1>12, <1>13 DEF KeyInv

LEMMA WorkerFileInv ==
    ASSUME TypeOK, KeyInv, NEW w \in Workers, WorkerWritesFile(w)
    PROVE  KeyInv'
<1>1. w \in CreatingTsa \/ w \in Creators
    BY WorkerFileStep, WorkersWrite
<1> QED
    BY <1>1, TsaFileInv, SignerFileInv
----------------------------------------------------------------------------
(***************************************************************************)
(* The invariant is kept: startup and faults.                              *)
(***************************************************************************)

\* A killed process leaves the files and the histories.
LEMMA CrashInv ==
    ASSUME TypeOK, KeyInv, Crash
    PROVE  KeyInv'
<1>1. /\ files' = files /\ stage' = "down"
      /\ UNCHANGED <<vouched, stamped, pdfs, overlap>>
      /\ \A a \in Actors : todo'[a] = <<>> /\ ~open'[a]
      /\ \A w \in Workers : jobs'[w] = Idle
    BY DEF Crash, history
<1>2. Main \in Actors /\ \A w \in Workers : w \in Actors
    BY ActorsAndJobs
<1>3. \A w \in Workers : jobs'[w].op = "idle"
    BY <1>1 DEF Idle
<1>4. CertificatesLast'
    BY <1>1 DEF KeyInv, CertificatesLast, KeyOrNone, RootOK, IntOK, Loads
<1>5. StagesDone'
    BY <1>1, <1>2 DEF StagesDone
<1>6. HandlersWait'
    BY <1>1, <1>2, <1>3 DEF HandlersWait
<1>7. VouchedKeys'
    BY <1>1, VouchedStays
<1>8. CreatingTsa' = {} /\ Creators' = {}
    BY <1>3 DEF CreatingTsa, Creators
<1>9. TsaCreations' /\ StampedKeys'
    BY <1>1, <1>8 DEF TsaCreations, StampedKeys, KeyInv
<1>10. SignerInv'
    <2> SUFFICES ASSUME ~overlap PROVE SignerInv'
        BY <1>1 DEF SignerInv
    <2>1. SignerFilesLast' /\ KeyOrNone("signerKey")'
        BY <1>1, SignerFilesStay DEF KeyInv, SignerInv
    <2> QED
        BY <1>1, <1>3, <1>8, <2>1 DEF SignerInv, KeyInv
<1> QED
    BY <1>4, <1>5, <1>6, <1>7, <1>9, <1>10 DEF KeyInv

\* A stage of startup changes no file, and no handler runs.
LEMMA ProceedStep ==
    ASSUME TypeOK, KeyInv, NEW from, NEW to, NEW writes, Proceed(from, to, writes)
    PROVE  /\ stage = from /\ stage' = to /\ todo[Main] = <<>> /\ todo'[Main] = writes
           /\ ~open[Main] /\ open' = open /\ files' = files /\ jobs' = jobs
           /\ UNCHANGED <<vouched, stamped, pdfs, overlap>>
           /\ \A w \in Workers : todo'[w] = todo[w]
BY ActorsAndJobs DEF Proceed, history, TypeOK, KeyInv, HandlersWait

LEMMA ProceedInv ==
    ASSUME TypeOK, KeyInv, NEW from, NEW to, NEW writes, Proceed(from, to, writes),
           from # "up", StagesDone'
    PROVE  KeyInv'
<1> USE ProceedStep
<1>1. \A w \in Workers : jobs[w] = Idle /\ todo[w] = <<>> /\ ~open[w]
    BY ActorsAndJobs DEF KeyInv, HandlersWait, Up
<1>2. \A w \in Workers : jobs'[w] = Idle /\ jobs'[w].op = "idle" /\ todo'[w] = <<>>
    BY <1>1 DEF Idle
<1>3. CertificatesLast'
    BY DEF KeyInv, CertificatesLast, KeyOrNone, RootOK, IntOK, Loads
<1>4. HandlersWait'
    BY <1>1, <1>2, ActorsAndJobs DEF HandlersWait
<1>5. VouchedKeys'
    BY VouchedStays
<1>6. CreatingTsa' = {} /\ Creators' = {}
    BY <1>2 DEF CreatingTsa, Creators
<1>7. TsaCreations' /\ StampedKeys'
    BY <1>6 DEF TsaCreations, StampedKeys, KeyInv
<1>8. SignerInv'
    <2> SUFFICES ASSUME ~overlap PROVE SignerInv'
        BY DEF SignerInv
    <2>1. SignerFilesLast' /\ KeyOrNone("signerKey")'
        BY SignerFilesStay DEF KeyInv, SignerInv
    <2> QED
        BY <1>2, <1>6, <2>1 DEF SignerInv, KeyInv
<1> QED
    BY <1>3, <1>4, <1>5, <1>7, <1>8 DEF KeyInv

\* A stage whose list of writes is empty has what it is about; the writes of the next
\* are pending.
LEMMA StartupInv ==
    ASSUME TypeOK, KeyInv, Start \/ Startup
    PROVE  KeyInv'
<1> USE ProceedStep, One, Two
<1>1. ASSUME NEW from, from # "up", Proceed(from, "down", <<>>) \/ Proceed(from, "legacy", <<>>)
      PROVE  KeyInv'
    <2>1. StagesDone'
        BY <1>1 DEF StagesDone
    <2> QED
        BY <1>1, <2>1, ProceedInv
<1>2. CASE Start
    BY <1>1, <1>2 DEF Start
<1>3. CASE LegacyCa
    <2> DEFINE k == Drawn
    <2>1. ASSUME NEW writes, Proceed("legacy", "root", writes), LegacyPending' PROVE KeyInv'
        <3>1. StagesDone'
            BY <2>1 DEF StagesDone
        <3> QED
            BY <2>1, <3>1, ProceedInv
    <2>2. CASE /\ ~Exists("legacyKey") /\ KeyLeft
               /\ Proceed("legacy", "root", <<Write("legacyKey", Key(k)),
                                              Write("legacyPublic", Key(k))>>)
        <3>1. Pending(Main, "legacyKey")'
            BY <2>2 DEF Pending, Exists
        <3>2. k \in Keys
            BY <2>2, DrawnIsKey
        <3> HIDE DEF k
        <3>3. LegacyPending'
            BY <2>2, <3>1, <3>2 DEF LegacyPending
        <3> QED
            BY <2>1, <2>2, <3>3
    <2>3. CASE /\ Loads("legacyKey")
               /\ Proceed("legacy", "root", <<Write("legacyPublic", files["legacyKey"])>>)
        <3>1. LegacyPending'
            BY <2>3 DEF LegacyPending, Loads
        <3> QED
            BY <2>1, <2>3, <3>1
    <2>4. CASE /\ Loads("legacyKey") /\ files["legacyPublic"] = files["legacyKey"]
               /\ Proceed("legacy", "root", <<>>)
        <3>1. LegacyPending'
            BY <2>4 DEF LegacyPending, LegacyOK, Loads
        <3> QED
            BY <2>1, <2>4, <3>1
    <2>5. CASE Proceed("legacy", "down", <<>>)
        BY <1>1, <2>5
    <2> QED
        BY <1>3, <2>2, <2>3, <2>4, <2>5 DEF LegacyCa, StartupFails
<1>4. CASE RootCa
    <2> DEFINE k == Drawn
    <2>1. ASSUME NEW writes, Proceed("root", "intermediate", writes), RootPending' PROVE KeyInv'
        <3>1. LegacyPending /\ todo[Main] = <<>>
            BY <2>1 DEF KeyInv, StagesDone
        <3>2. LegacyOK
            BY <3>1 DEF LegacyPending
        <3>3. LegacyOK'
            BY <2>1, <3>2 DEF LegacyOK, Loads
        <3>4. StagesDone'
            BY <2>1, <3>3 DEF StagesDone
        <3> QED
            BY <2>1, <3>4, ProceedInv
    <2>2. files["rootCert"] # Absent => Loads("rootKey")
        BY DEF KeyInv, CertificatesLast, RootOK
    <2>3. CASE /\ ~(Exists("rootKey") /\ Exists("rootCert")) /\ KeyLeft
               /\ Proceed("root", "intermediate", <<Write("rootKey", Key(k)),
                                                    Write("rootCert", Cert(k, k))>>)
        <3>1. files["rootCert"] = Absent
            BY <2>2, <2>3 DEF Exists, Loads
        <3>2. k \in Keys
            BY <2>3, DrawnIsKey
        <3> HIDE DEF k
        <3>3. RootPending'
            BY <2>3, <3>1, <3>2 DEF RootPending
        <3> QED
            BY <2>1, <2>3, <3>3
    <2>4. CASE Loads("rootCert") /\ Proceed("root", "intermediate", <<>>)
        <3>1. RootOK
            BY <2>4 DEF KeyInv, CertificatesLast, Loads
        <3>2. RootPending'
            BY <2>4, <3>1 DEF RootPending, RootOK, Loads
        <3> QED
            BY <2>1, <2>4, <3>2
    <2>5. CASE Proceed("root", "down", <<>>)
        BY <1>1, <2>5
    <2> QED
        BY <1>4, <2>3, <2>4, <2>5 DEF RootCa, StartupFails
<1>5. CASE IntermediateCa
    <2> DEFINE k == Drawn
               root == files["rootKey"].key
    <2>1. ASSUME NEW writes, Proceed("intermediate", "blind", writes), IntPending' PROVE KeyInv'
        <3>1. LegacyOK /\ RootPending /\ todo[Main] = <<>>
            BY <2>1 DEF KeyInv, StagesDone
        <3>2. RootOK
            BY <3>1 DEF RootPending
        <3>3. LegacyOK' /\ RootOK'
            BY <2>1, <3>1, <3>2 DEF LegacyOK, RootOK, Loads
        <3>4. StagesDone'
            BY <2>1, <3>3 DEF StagesDone
        <3> QED
            BY <2>1, <3>4, ProceedInv
    <2>2. files["intCert"] # Absent => Loads("intKey")
        BY DEF KeyInv, CertificatesLast, IntOK
    <2>3. CASE /\ ~(Exists("intKey") /\ Exists("intCert")) /\ KeyLeft
               /\ Proceed("intermediate", "blind", <<Write("intKey", Key(k)),
                                                     Write("intCert", Cert(k, root))>>)
        <3>1. files["intCert"] = Absent
            BY <2>2, <2>3 DEF Exists, Loads
        <3>2. k \in Keys
            BY <2>3, DrawnIsKey
        <3>3. todo'[Main] = <<Write("intKey", Key(k)), Write("intCert", Cert(k, root'))>>
            BY <2>3
        <3>4. files'["intCert"] = Absent
            BY <2>3, <3>1
        <3> HIDE DEF k
        <3>5. IntPending'
            BY <3>2, <3>3, <3>4 DEF IntPending
        <3> QED
            BY <2>1, <2>3, <3>5
    <2>4. CASE Loads("intCert") /\ Proceed("intermediate", "blind", <<>>)
        <3>1. IntOK
            BY <2>4 DEF KeyInv, CertificatesLast, Loads
        <3>2. IntPending'
            BY <2>4, <3>1 DEF IntPending, IntOK, Loads
        <3> QED
            BY <2>1, <2>4, <3>2
    <2>5. CASE Proceed("intermediate", "down", <<>>)
        BY <1>1, <2>5
    <2> QED
        BY <1>5, <2>3, <2>4, <2>5 DEF IntermediateCa, StartupFails
<1>6. CASE BlindSigner
    <2> DEFINE k == Drawn
    <2>1. ASSUME NEW writes, Proceed("blind", "up", writes), BlindPending' PROVE KeyInv'
        <3>1. LegacyOK /\ RootOK /\ IntPending /\ todo[Main] = <<>>
            BY <2>1 DEF KeyInv, StagesDone
        <3>2. IntOK
            BY <3>1 DEF IntPending
        <3>3. LegacyOK' /\ RootOK' /\ IntOK'
            BY <2>1, <3>1, <3>2 DEF LegacyOK, RootOK, IntOK, Loads
        <3>4. StagesDone'
            BY <2>1, <3>3 DEF StagesDone
        <3> QED
            BY <2>1, <3>4, ProceedInv
    <2>2. CASE /\ ~Exists("blindKey") /\ KeyLeft
               /\ Proceed("blind", "up", <<Write("blindKey", Key(k))>>)
        <3>1. Pending(Main, "blindKey")'
            BY <2>2 DEF Pending, Exists
        <3>2. k \in Keys
            BY <2>2, DrawnIsKey
        <3> HIDE DEF k
        <3>3. BlindPending'
            BY <2>2, <3>1, <3>2 DEF BlindPending
        <3> QED
            BY <2>1, <2>2, <3>3
    <2>3. CASE Loads("blindKey") /\ Proceed("blind", "up", <<>>)
        <3>1. BlindPending'
            BY <2>3 DEF BlindPending, Loads
        <3> QED
            BY <2>1, <2>3, <3>1
    <2>4. CASE Proceed("blind", "down", <<>>)
        BY <1>1, <2>4
    <2> QED
        BY <1>6, <2>2, <2>3, <2>4 DEF BlindSigner, StartupFails
<1> QED
    BY <1>2, <1>3, <1>4, <1>5, <1>6 DEF Startup
----------------------------------------------------------------------------
(***************************************************************************)
(* The invariant is kept: handlers.                                        *)
(***************************************************************************)

\* A step of a handler between its writes: no file, no stage, no other actor changes.
HandlerFrame(w) ==
    /\ Up /\ files' = files /\ stage' = stage
    /\ \A a \in Actors : a # w => todo'[a] = todo[a] /\ open'[a] = open[a]
    /\ \A x \in Workers : x # w => jobs'[x].op = jobs[x].op

\* Startup's files and the other threads are as they were.
LEMMA HandlerKeeps ==
    ASSUME TypeOK, KeyInv, NEW w \in Workers, HandlerFrame(w),
           open'[w] => todo'[w] # <<>>,
           jobs'[w].op \in {"idle", "signer_load_cert"} => todo'[w] = <<>>,
           jobs'[w].op = "signer_create" =>
               \A i \in DOMAIN todo'[w] : todo'[w][i].file \in SignerFiles
    PROVE  CertificatesLast' /\ StagesDone' /\ HandlersWait'
<1>1. /\ Main \in Actors /\ Main # w /\ \A x \in Workers : x \in Actors
      /\ todo'[Main] = todo[Main] /\ open'[Main] = open[Main]
    BY ActorsAndJobs DEF HandlerFrame
<1>2. KeyOrNone("tsaKey")'
    BY DEF HandlerFrame, KeyInv, CertificatesLast, KeyFileNames, KeyOrNone
<1>3. CertificatesLast' /\ StagesDone'
    BY <1>1, <1>2, StartupFilesStay DEF HandlerFrame
<1>4. Up'
    BY <1>1 DEF Up, HandlerFrame
<1>5. \A a \in Actors : open'[a] => todo'[a] # <<>>
    BY DEF KeyInv, HandlersWait, HandlerFrame
<1>6. ASSUME NEW x \in Workers
      PROVE  /\ jobs'[x].op \in {"idle", "signer_load_cert"} => todo'[x] = <<>>
             /\ jobs'[x].op = "signer_create" =>
                   \A i \in DOMAIN todo'[x] : todo'[x][i].file \in SignerFiles
    <2>1. CASE x = w
        BY <2>1
    <2>2. CASE x # w
        <3>1. todo'[x] = todo[x] /\ jobs'[x].op = jobs[x].op
            BY <1>1, <2>2 DEF HandlerFrame
        <3> QED
            BY <3>1 DEF KeyInv, HandlersWait
    <2> QED
        BY <2>1, <2>2
<1> QED
    BY <1>3, <1>4, <1>5, <1>6 DEF HandlersWait

\* Creations of the timestamping key that go on, or end without having stamped.
LEMMA TsaStays ==
    ASSUME KeyInv, files' = files, stamped' = stamped,
           \A x \in CreatingTsa' : x \in CreatingTsa /\ jobs'[x] = jobs[x] /\ todo'[x] = todo[x]
    PROVE  TsaCreations' /\ StampedKeys'
<1>1. TsaCreations'
    BY DEF KeyInv, TsaCreations
<1>2. StampedKeys'
    BY DEF KeyInv, StampedKeys
<1> QED
    BY <1>1, <1>2

\* Creations and uses of the signer that go on, or end without having signed.
LEMMA SignerStays ==
    ASSUME KeyInv, files' = files, pdfs' = pdfs, overlap' = overlap,
           \A x \in Creators' : x \in Creators /\ todo'[x] = todo[x] /\ open'[x] = open[x],
           \A x \in Workers : jobs'[x].op = "signer_load_cert" => jobs'[x] = jobs[x]
    PROVE  SignerInv'
<1> SUFFICES ASSUME ~overlap PROVE SignerInv'
    BY DEF SignerInv
<1>1. SignerFilesLast' /\ KeyOrNone("signerKey")'
    BY SignerFilesStay DEF KeyInv, SignerInv
<1>2. \A x \in Creators : Creation(x)
    BY DEF KeyInv, SignerInv
<1>3. \A x \in Creators' : Creation(x)'
    BY <1>2, CreationStays
<1>4. \A v, x \in Creators' : v = x
    BY DEF KeyInv, SignerInv
<1>5. \A x \in Workers : jobs'[x].op = "signer_load_cert" =>
          files'["signerCert"] # Absent /\ files'["signerKey"] = Key(jobs'[x].key)
    BY DEF KeyInv, SignerInv
<1>6. FALSE \notin pdfs'
    BY DEF KeyInv, SignerInv
<1> QED
    BY <1>1, <1>3, <1>4, <1>5, <1>6 DEF SignerInv

\* A failed write ends the call.
LEMMA WriteFailsInv ==
    ASSUME TypeOK, KeyInv, NEW w \in Workers, WriteFails(w)
    PROVE  KeyInv'
<1>1. w \in Actors /\ \A x \in Workers : x \in Actors
    BY ActorsAndJobs
<1>2. jobs[w] # Idle
    <2>1. todo[w] # <<>>
        BY <1>1 DEF WriteFails, KeyInv, HandlersWait
    <2> QED
        BY <2>1 DEF KeyInv, HandlersWait, Idle
<1>3. /\ todo'[w] = <<>> /\ ~open'[w] /\ jobs'[w] = Idle /\ jobs'[w].op = "idle"
      /\ \A a \in Actors : a # w => todo'[a] = todo[a] /\ open'[a] = open[a]
      /\ \A x \in Workers : x # w => jobs'[x] = jobs[x]
      /\ files' = files /\ stage' = stage
      /\ UNCHANGED <<vouched, stamped, pdfs, overlap>>
    BY <1>1 DEF WriteFails, TypeOK, Idle, history
<1>4. HandlerFrame(w)
    BY <1>2, <1>3 DEF HandlerFrame, KeyInv, HandlersWait
<1>5. CertificatesLast' /\ StagesDone' /\ HandlersWait'
    BY <1>3, <1>4, HandlerKeeps
<1>6. VouchedKeys'
    BY <1>3, VouchedStays
<1>7. \A x \in CreatingTsa' : x \in CreatingTsa /\ jobs'[x] = jobs[x] /\ todo'[x] = todo[x]
    BY <1>1, <1>3 DEF CreatingTsa
<1>8. TsaCreations' /\ StampedKeys'
    BY <1>3, <1>7, TsaStays
<1>9. SignerInv'
    <2>1. \A x \in Creators' : x \in Creators /\ todo'[x] = todo[x] /\ open'[x] = open[x]
        BY <1>1, <1>3 DEF Creators
    <2>2. \A x \in Workers : jobs'[x].op = "signer_load_cert" => jobs'[x] = jobs[x]
        BY <1>3
    <2> QED
        BY <1>3, <2>1, <2>2, SignerStays
<1> QED
    BY <1>5, <1>6, <1>8, <1>9 DEF KeyInv

\* A call that changes no thread, no file and nothing of the signer.
LEMMA QuietInv ==
    ASSUME TypeOK, KeyInv, NEW w \in Workers, Free(w), UNCHANGED <<files, server, pdfs, overlap>>,
           VouchedKeys', TsaCreations', StampedKeys'
    PROVE  KeyInv'
<1>1. Up /\ jobs[w].op = "idle" /\ todo[w] = <<>> /\ w \in Actors
    BY ActorsAndJobs DEF Free, Idle, KeyInv, HandlersWait
<1>2. HandlerFrame(w) /\ todo' = todo /\ jobs' = jobs /\ open' = open
    BY <1>1 DEF HandlerFrame, server
<1>3. CertificatesLast' /\ StagesDone' /\ HandlersWait'
    BY <1>1, <1>2, HandlerKeeps DEF KeyInv, HandlersWait
<1>4. SignerInv'
    BY <1>2, SignerStays DEF Creators
<1> QED
    BY <1>3, <1>4 DEF KeyInv

\* Signing with the keys of startup.
LEMMA VouchInv ==
    ASSUME TypeOK, KeyInv, NEW w \in Workers, SignWithStartupKeys(w)
    PROVE  KeyInv'
<1> DEFINE new == [f \in SigningFiles |-> files[f].key]
<1>1. /\ Free(w) /\ vouched' = vouched \cup {new}
      /\ UNCHANGED <<files, server, stamped, pdfs, overlap>>
    BY DEF SignWithStartupKeys
<1>2. Founded
    BY <1>1, UpIsFounded DEF Free
<1>3. Founded'
    BY <1>1, <1>2, FoundedStays
<1>4. \A f \in SigningFiles : files'[f].key = new[f]
    BY <1>1
<1>5. \A v \in vouched : \A f \in SigningFiles : files'[f].key = v[f]
    BY <1>1 DEF KeyInv, VouchedKeys
<1>6. VouchedKeys'
    BY <1>1, <1>3, <1>4, <1>5 DEF VouchedKeys
<1>7. TsaCreations' /\ StampedKeys'
    BY <1>1, TsaStays DEF CreatingTsa, server
<1> QED
    BY <1>1, <1>6, <1>7, QuietInv

\* A timestamp with the key on file.
LEMMA TsaLoadInv ==
    ASSUME TypeOK, KeyInv, NEW w \in Workers, TsaLoad(w)
    PROVE  KeyInv'
<1>1. Free(w) /\ UNCHANGED <<files, server, vouched, pdfs, overlap>>
    BY DEF TsaLoad
<1>2. CreatingTsa' = CreatingTsa
    BY <1>1 DEF CreatingTsa, server
<1>3. TsaCreations'
    BY <1>1, <1>2 DEF KeyInv, TsaCreations, server
<1>4. files["tsaKey"] = Key(files["tsaKey"].key)
    BY FoundedKeys DEF TsaLoad
<1>5. StampedKeys'
    BY <1>1, <1>2, <1>4 DEF TsaLoad, KeyInv, StampedKeys
<1>6. VouchedKeys'
    BY <1>1, VouchedStays
<1> QED
    BY <1>1, <1>3, <1>5, <1>6, QuietInv

\* A creation of the timestamping key begins: there is no key on file, so none has stamped.
LEMMA TsaCreateInv ==
    ASSUME TypeOK, KeyInv, NEW w \in Workers, TsaCreate(w)
    PROVE  KeyInv'
<1> DEFINE k == Drawn
<1>1. w \in Actors /\ \A x \in Workers : x \in Actors
    BY ActorsAndJobs
<1>2. /\ Up /\ files["tsaKey"] = Absent /\ k \in Keys
      /\ jobs'[w] = [op |-> "tsa_create", key |-> k, alone |-> CreatingTsa = {}]
      /\ jobs[w] = Idle /\ jobs[w].op = "idle" /\ ~open[w]
    BY <1>1, DrawnIsKey DEF TsaCreate, Free, Exists, Idle, KeyInv, HandlersWait
<1>3. /\ todo'[w] = <<Write("tsaKey", Key(k))>> /\ ~open'[w]
      /\ \A a \in Actors : a # w => todo'[a] = todo[a] /\ open'[a] = open[a]
      /\ files' = files /\ stage' = stage
      /\ UNCHANGED <<vouched, stamped, pdfs, overlap>>
    BY <1>1, <1>2 DEF TsaCreate, TypeOK, history
<1> HIDE DEF k
<1>4. ASSUME NEW x \in Workers, x # w
      PROVE  /\ jobs'[x].op = jobs[x].op
             /\ x \in CreatingTsa => jobs'[x].key = jobs[x].key /\ ~jobs'[x].alone
             /\ x \notin CreatingTsa => jobs'[x] = jobs[x]
    <2>1. CASE x \in CreatingTsa
        <3>1. /\ jobs[x] \in [op : {"tsa_create"}, key : Keys, alone : BOOLEAN]
              /\ jobs'[x] = [jobs[x] EXCEPT !.alone = FALSE]
            BY <1>4, <2>1 DEF TsaCreate, TypeOK, Job, Idle, CreatingTsa
        <3> QED
            BY <2>1, <3>1
    <2>2. CASE x \notin CreatingTsa
        BY <1>4, <2>2 DEF TsaCreate
    <2> QED
        BY <2>1, <2>2
<1>5. HandlerFrame(w)
    BY <1>2, <1>3, <1>4 DEF HandlerFrame
<1>6. jobs'[w].op = "tsa_create" /\ jobs'[w].key = k /\ (jobs'[w].alone => CreatingTsa = {})
    <2> DEFINE first == CreatingTsa = {}
    <2>1. jobs'[w] = [op |-> "tsa_create", key |-> k, alone |-> first]
        BY <1>2
    <2> HIDE DEF first
    <2>2. jobs'[w].op = "tsa_create" /\ jobs'[w].key = k /\ jobs'[w].alone = first
        BY <2>1
    <2>3. jobs'[w].alone => first
        BY <2>2, Zenon
    <2> QED
        BY <2>2, <2>3 DEF first
<1>7. CertificatesLast' /\ StagesDone' /\ HandlersWait'
    BY <1>3, <1>5, <1>6, HandlerKeeps
<1>8. VouchedKeys'
    BY <1>3, VouchedStays
<1>9. CreatingTsa' = CreatingTsa \cup {w} /\ w \notin CreatingTsa
    BY <1>2, <1>4, <1>6 DEF CreatingTsa
<1>10. StampedKeys'
    <2>1. ASSUME NEW n \in stamped PROVE FALSE
        <3>1. n \in Keys /\ files["tsaKey"] = Key(n)
            BY DEF KeyInv, StampedKeys, TypeOK
        <3> QED
            BY <1>2, <3>1, Whole
    <2> QED
        BY <1>3, <2>1 DEF StampedKeys
<1>11. TsaCreations'
    <2>1. ASSUME NEW x \in CreatingTsa'
          PROVE  /\ todo'[x] \in {<<>>, <<Write("tsaKey", Key(jobs'[x].key))>>}
                 /\ jobs'[x].alone =>
                       /\ CreatingTsa' = {x}
                       /\ todo'[x] = <<>> => files'["tsaKey"] = Key(jobs'[x].key)
        <3>1. CASE x = w
            <4>1. todo'[x] # <<>>
                BY <1>3, <3>1, One
            <4> QED
                BY <1>3, <1>6, <1>9, <3>1, <4>1
        <3>2. CASE x # w
            <4>1. x \in CreatingTsa /\ x \in Workers
                BY <1>9, <3>2 DEF CreatingTsa
            <4>2. jobs'[x].key = jobs[x].key /\ ~jobs'[x].alone /\ todo'[x] = todo[x]
                BY <1>1, <1>3, <1>4, <3>2, <4>1
            <4> QED
                BY <4>1, <4>2 DEF KeyInv, TsaCreations
        <3> QED
            BY <3>1, <3>2
    <2> QED
        BY <2>1 DEF TsaCreations
<1>12. SignerInv'
    <2>1. \A x \in Creators' : x \in Creators /\ todo'[x] = todo[x] /\ open'[x] = open[x]
        BY <1>1, <1>3, <1>4, <1>6 DEF Creators
    <2>2. \A x \in Workers : jobs'[x].op = "signer_load_cert" => jobs'[x] = jobs[x]
        BY <1>4, <1>6 DEF CreatingTsa
    <2> QED
        BY <1>3, <2>1, <2>2, SignerStays
<1> QED
    BY <1>7, <1>8, <1>10, <1>11, <1>12 DEF KeyInv

\* A creation of the timestamping key ends: one that was alone has written the key it
\* signs with.
LEMMA TsaCreatedInv ==
    ASSUME TypeOK, KeyInv, NEW w \in Workers, TsaCreated(w)
    PROVE  KeyInv'
<1>1. w \in Actors /\ \A x \in Workers : x \in Actors
    BY ActorsAndJobs
<1>2. /\ jobs[w].op = "tsa_create" /\ todo[w] = <<>> /\ w \in CreatingTsa /\ jobs[w] # Idle
      /\ ~open[w] /\ jobs'[w] = Idle /\ jobs'[w].op = "idle"
      /\ \A x \in Workers : x # w => jobs'[x] = jobs[x]
      /\ UNCHANGED <<files, stage, todo, open, vouched, pdfs, overlap>>
    BY <1>1 DEF TsaCreated, Goto, TypeOK, CreatingTsa, Idle, KeyInv, HandlersWait
<1>3. HandlerFrame(w)
    BY <1>2 DEF HandlerFrame, KeyInv, HandlersWait
<1>4. CertificatesLast' /\ StagesDone' /\ HandlersWait'
    BY <1>2, <1>3, HandlerKeeps
<1>5. VouchedKeys'
    BY <1>2, VouchedStays
<1>6. CreatingTsa' = CreatingTsa \ {w}
    BY <1>2 DEF CreatingTsa
<1>7. stamped = {}
    BY <1>2 DEF KeyInv, StampedKeys
<1>8. TsaCreations'
    BY <1>2, <1>6 DEF KeyInv, TsaCreations, CreatingTsa
<1>9. StampedKeys'
    <2>1. CASE jobs[w].alone
        <3>1. CreatingTsa = {w} /\ files["tsaKey"] = Key(jobs[w].key)
            BY <1>2, <2>1 DEF KeyInv, TsaCreations
        <3>2. stamped' = {jobs[w].key}
            BY <1>7, <2>1 DEF TsaCreated
        <3> QED
            BY <1>2, <1>6, <3>1, <3>2 DEF StampedKeys
    <2>2. CASE ~jobs[w].alone
        <3>1. stamped' = {}
            BY <1>7, <2>2 DEF TsaCreated
        <3> QED
            BY <3>1 DEF StampedKeys
    <2> QED
        BY <2>1, <2>2
<1>10. SignerInv'
    <2>1. \A x \in Creators' : x \in Creators /\ todo'[x] = todo[x] /\ open'[x] = open[x]
        BY <1>2 DEF Creators
    <2>2. \A x \in Workers : jobs'[x].op = "signer_load_cert" => jobs'[x] = jobs[x]
        BY <1>2
    <2> QED
        BY <1>2, <2>1, <2>2, SignerStays
<1> QED
    BY <1>4, <1>5, <1>8, <1>9, <1>10 DEF KeyInv
\* A creation of the signer begins: unless the calls overlap it is the only one, and
\* it finds no certificate.
LEMMA SignerCreateInv ==
    ASSUME TypeOK, KeyInv, NEW w \in Workers, SignerCreate(w)
    PROVE  KeyInv'
<1> DEFINE k == Drawn
<1>1. w \in Actors /\ \A x \in Workers : x \in Actors
    BY ActorsAndJobs
<1>2. /\ Up /\ ~SignerOnFile /\ k \in Keys
      /\ jobs[w] = Idle /\ jobs[w].op = "idle" /\ ~open[w]
      /\ overlap' = (overlap \/ \E x \in Workers : jobs[x].op = "signer_create")
    BY <1>1, DrawnIsKey DEF SignerCreate, Free, Idle, KeyInv, HandlersWait
<1>3. /\ todo'[w] = SignerWrites(k) /\ ~open'[w] /\ jobs'[w].op = "signer_create"
      /\ \A a \in Actors : a # w => todo'[a] = todo[a] /\ open'[a] = open[a]
      /\ \A x \in Workers : x # w => jobs'[x] = jobs[x]
      /\ files' = files /\ stage' = stage
      /\ UNCHANGED <<vouched, stamped, pdfs>>
    BY <1>1, <1>2 DEF SignerCreate, SignerWrites, Goto, TypeOK
<1> HIDE DEF k
<1>4. PICK n \in Keys : todo'[w] = SignerWrites(n)
    BY <1>2, <1>3
<1>5. HandlerFrame(w)
    BY <1>2, <1>3 DEF HandlerFrame
<1>6. \A i \in DOMAIN todo'[w] : todo'[w][i].file \in SignerFiles
    <2>1. ASSUME NEW i \in DOMAIN SignerWrites(n)
          PROVE  \E f \in SignerFiles : \E c : SignerWrites(n)[i] = Write(f, c)
        BY <2>1 DEF SignerWrites, SignerFiles
    <2> QED
        BY <1>4, <2>1, WriteFields
<1>7. CertificatesLast' /\ StagesDone' /\ HandlersWait'
    BY <1>3, <1>5, <1>6, HandlerKeeps
<1>8. VouchedKeys'
    BY <1>3, VouchedStays
<1>9. TsaCreations' /\ StampedKeys'
    <2>1. \A x \in CreatingTsa' : x \in CreatingTsa /\ jobs'[x] = jobs[x] /\ todo'[x] = todo[x]
        BY <1>1, <1>3 DEF CreatingTsa
    <2> QED
        BY <1>3, <2>1, TsaStays
<1>10. SignerInv'
    <2> SUFFICES ASSUME ~overlap' PROVE SignerInv'
        BY DEF SignerInv
    <2>1. ~overlap /\ \A x \in Workers : jobs[x].op # "signer_create"
        BY <1>2
    <2>2. Creators' = {w}
        BY <1>3, <2>1 DEF Creators
    <2>3. SignerFilesLast' /\ KeyOrNone("signerKey")'
        BY <1>3, <2>1, SignerFilesStay DEF KeyInv, SignerInv
    <2>4. files["signerCert"] = Absent
        BY <1>2, <2>1 DEF KeyInv, SignerInv, SignerFilesLast, SignerOnFile, Exists, Loads
    <2>5. SignerWrites(n)' = SignerWrites(n)
        BY <1>3 DEF SignerWrites
    <2>6. Creation(w)'
        BY <1>3, <1>4, <2>4, <2>5 DEF Creation
    <2>7. ASSUME NEW x \in Workers, jobs'[x].op = "signer_load_cert"
          PROVE  files'["signerCert"] # Absent /\ files'["signerKey"] = Key(jobs'[x].key)
        <3>1. jobs'[x] = jobs[x]
            BY <1>3, <2>7
        <3> QED
            BY <1>3, <2>1, <2>7, <3>1 DEF KeyInv, SignerInv
    <2>8. FALSE \notin pdfs'
        BY <1>3, <2>1 DEF KeyInv, SignerInv
    <2> QED
        BY <2>2, <2>3, <2>6, <2>7, <2>8 DEF SignerInv
<1> QED
    BY <1>7, <1>8, <1>9, <1>10 DEF KeyInv

\* The call of a worker moves on or ends after its last write.
LEMMA CallGoesOn ==
    ASSUME TypeOK, KeyInv, NEW w \in Workers, NEW job, Goto(w, job), Up,
           UNCHANGED <<files, stage, todo, open, vouched, stamped>>,
           jobs[w].op # "tsa_create", job.op \in {"idle", "signer_load_cert"}, todo[w] = <<>>
    PROVE  /\ CertificatesLast' /\ StagesDone' /\ HandlersWait'
           /\ VouchedKeys' /\ TsaCreations' /\ StampedKeys'
           /\ jobs'[w] = job /\ \A x \in Workers : x # w => jobs'[x] = jobs[x]
<1>1. jobs'[w] = job /\ \A x \in Workers : x # w => jobs'[x] = jobs[x]
    BY DEF Goto, TypeOK
<1>2. HandlerFrame(w)
    BY <1>1 DEF HandlerFrame
<1>3. w \in Actors /\ ~open[w]
    BY ActorsAndJobs DEF KeyInv, HandlersWait
<1>4. CertificatesLast' /\ StagesDone' /\ HandlersWait'
    BY <1>1, <1>2, <1>3, HandlerKeeps
<1>5. VouchedKeys'
    BY VouchedStays
<1>6. \A x \in CreatingTsa' : x \in CreatingTsa /\ jobs'[x] = jobs[x] /\ todo'[x] = todo[x]
    BY <1>1 DEF CreatingTsa
<1> QED
    BY <1>1, <1>4, <1>5, <1>6, TsaStays

\* The key of the signer is loaded: where there is a certificate there is its key.
LEMMA SignerLoadKeyInv ==
    ASSUME TypeOK, KeyInv, NEW w \in Workers, SignerLoadKey(w)
    PROVE  KeyInv'
<1> DEFINE job == IF Loads("signerKey")
                  THEN [op |-> "signer_load_cert", key |-> files["signerKey"].key] ELSE Idle
<1>1. \/ Free(w) /\ SignerOnFile
      \/ jobs[w].op = "signer_create" /\ todo[w] = <<>>
    BY DEF SignerLoadKey
<1>2. Goto(w, job) /\ UNCHANGED <<files, stage, todo, open, vouched, stamped, pdfs, overlap>>
    BY DEF SignerLoadKey, history
<1>3. /\ job.op \in {"idle", "signer_load_cert"}
      /\ job.op = "signer_load_cert" => Loads("signerKey") /\ job.key = files["signerKey"].key
    BY DEF Idle
<1> HIDE DEF job
<1>4. Up /\ todo[w] = <<>> /\ jobs[w].op # "tsa_create"
    <2>1. CASE Free(w)
        BY <2>1 DEF Free, Idle, KeyInv, HandlersWait
    <2>2. CASE jobs[w].op = "signer_create" /\ todo[w] = <<>>
        BY <2>2 DEF Idle, KeyInv, HandlersWait
    <2> QED
        BY <1>1, <2>1, <2>2
<1>5. /\ CertificatesLast' /\ StagesDone' /\ HandlersWait'
      /\ VouchedKeys' /\ TsaCreations' /\ StampedKeys'
      /\ jobs'[w] = job /\ \A x \in Workers : x # w => jobs'[x] = jobs[x]
    BY <1>2, <1>3, <1>4, CallGoesOn
<1>6. SignerInv'
    <2> SUFFICES ASSUME ~overlap PROVE SignerInv'
        BY <1>2 DEF SignerInv
    <2>1. SignerFilesLast' /\ KeyOrNone("signerKey")'
        BY <1>2, SignerFilesStay DEF KeyInv, SignerInv
    <2>2. files["signerCert"] # Absent
        <3>1. CASE SignerOnFile
            BY <3>1 DEF SignerOnFile, Exists
        <3>2. CASE jobs[w].op = "signer_create" /\ todo[w] = <<>>
            <4>1. Creation(w)
                BY <3>2 DEF KeyInv, SignerInv, Creators
            <4>2. \A k \in Keys : todo[w] # CertWrites(k) /\ todo[w] # SignerWrites(k)
                BY <3>2, Three, Four DEF CertWrites, SignerWrites
            <4> QED
                BY <4>1, <4>2 DEF Creation
        <3> QED
            BY <1>1, <3>1, <3>2
    <2>3. Loads("signerKey") => files["signerKey"] = Key(files["signerKey"].key)
        BY KeyLoads DEF KeyInv, SignerInv
    <2>4. ASSUME NEW x \in Workers, jobs'[x].op = "signer_load_cert"
          PROVE  files'["signerCert"] # Absent /\ files'["signerKey"] = Key(jobs'[x].key)
        <3>1. CASE x = w
            BY <1>2, <1>3, <1>5, <2>2, <2>3, <2>4, <3>1
        <3>2. CASE x # w
            BY <1>2, <1>5, <2>4, <3>2 DEF KeyInv, SignerInv
        <3> QED
            BY <3>1, <3>2
    <2>5. \A x \in Creators' : x \in Creators /\ todo'[x] = todo[x] /\ open'[x] = open[x]
        BY <1>2, <1>3, <1>5 DEF Creators
    <2>6. \A x \in Creators' : Creation(x)'
        <3>1. \A x \in Creators : Creation(x)
            BY DEF KeyInv, SignerInv
        <3> QED
            BY <1>2, <2>5, <3>1, CreationStays
    <2>7. \A v, x \in Creators' : v = x
        BY <2>5 DEF KeyInv, SignerInv
    <2>8. FALSE \notin pdfs'
        BY <1>2 DEF KeyInv, SignerInv
    <2> QED
        BY <2>1, <2>4, <2>6, <2>7, <2>8 DEF SignerInv
<1> QED
    BY <1>5, <1>6 DEF KeyInv

\* A PDF is signed: what loads is the key, the certificate and the chain of one creation.
LEMMA SignerSignInv ==
    ASSUME TypeOK, KeyInv, NEW w \in Workers, SignerSign(w)
    PROVE  KeyInv'
<1>1. /\ jobs[w].op = "signer_load_cert" /\ Goto(w, Idle) /\ Idle.op = "idle"
      /\ UNCHANGED <<files, stage, todo, open, vouched, stamped, overlap>>
    BY DEF SignerSign, Idle
<1>2. Up /\ todo[w] = <<>>
    BY <1>1, ActorsAndJobs DEF KeyInv, HandlersWait
<1>3. /\ CertificatesLast' /\ StagesDone' /\ HandlersWait'
      /\ VouchedKeys' /\ TsaCreations' /\ StampedKeys'
      /\ jobs'[w] = Idle /\ \A x \in Workers : x # w => jobs'[x] = jobs[x]
    BY <1>1, <1>2, CallGoesOn
<1>4. SignerInv'
    <2> SUFFICES ASSUME ~overlap PROVE SignerInv'
        BY <1>1 DEF SignerInv
    <2>1. SignerFilesLast' /\ KeyOrNone("signerKey")'
        BY <1>1, SignerFilesStay DEF KeyInv, SignerInv
    <2>2. \A x \in Creators' : x \in Creators /\ todo'[x] = todo[x] /\ open'[x] = open[x]
        BY <1>1, <1>3 DEF Creators
    <2>3. \A x \in Creators' : Creation(x)'
        <3>1. \A x \in Creators : Creation(x)
            BY DEF KeyInv, SignerInv
        <3> QED
            BY <1>1, <2>2, <3>1, CreationStays
    <2>4. \A v, x \in Creators' : v = x
        BY <2>2 DEF KeyInv, SignerInv
    <2>5. ASSUME NEW x \in Workers, jobs'[x].op = "signer_load_cert"
          PROVE  files'["signerCert"] # Absent /\ files'["signerKey"] = Key(jobs'[x].key)
        <3>1. x # w
            BY <1>1, <1>3, <2>5
        <3> QED
            BY <1>1, <1>3, <2>5, <3>1 DEF KeyInv, SignerInv
    <2>6. ASSUME Loads("signerCert"), Loads("signerInt"), Loads("signerRoot")
          PROVE  SignerVerifies(jobs[w].key)
        <3>1. /\ files["signerCert"] = Cert(files["signerKey"].key, files["intKey"].key)
              /\ files["signerInt"] = files["intCert"] /\ files["signerRoot"] = files["rootCert"]
              /\ Founded
            BY <2>6 DEF KeyInv, SignerInv, SignerFilesLast, Loads
        <3>2. files["signerKey"].key = jobs[w].key
            <4>1. files["signerKey"] = Key(jobs[w].key)
                BY <1>1 DEF KeyInv, SignerInv
            <4>2. jobs[w].key \in Keys
                BY <1>1, ActorsAndJobs
            <4> QED
                BY <4>1, <4>2, Whole
        <3>3. files["rootKey"].key \in Keys /\ files["intKey"].key \in Keys
            BY <3>1, FoundedKeys DEF Founded
        <3>4. /\ files["intCert"].key = files["intKey"].key
              /\ files["intCert"].issuer = files["rootKey"].key
              /\ files["rootCert"].key = files["rootKey"].key
            BY <3>1, <3>3, Whole DEF Founded, IntOK, RootOK
        <3> QED
            BY <3>1, <3>2, <3>4 DEF SignerVerifies
    <2>7. pdfs' = pdfs \/ pdfs' = pdfs \cup {TRUE}
        <3>1. CASE \A f \in {"signerCert", "signerInt", "signerRoot"} : Loads(f)
            <4>1. SignerVerifies(jobs[w].key)
                BY <2>6, <3>1
            <4>2. SignerVerifies(jobs[w].key) = TRUE
                BY <4>1 DEF SignerVerifies
            <4> QED
                BY <3>1, <4>2 DEF SignerSign
        <3>2. CASE ~\A f \in {"signerCert", "signerInt", "signerRoot"} : Loads(f)
            BY <3>2 DEF SignerSign
        <3> QED
            BY <3>1, <3>2
    <2>8. FALSE \notin pdfs'
        BY <2>7 DEF KeyInv, SignerInv
    <2> QED
        BY <2>1, <2>3, <2>4, <2>5, <2>8 DEF SignerInv
<1> QED
    BY <1>3, <1>4 DEF KeyInv

----------------------------------------------------------------------------
(***************************************************************************)
(* The theorems.                                                           *)
(***************************************************************************)

LEMMA KeyInvInit ==
    ASSUME Init
    PROVE  TypeOK /\ KeyInv
<1>1. \A f \in Files : files[f] = Absent
    BY DEF Init
<1>2. Main \in Actors /\ \A w \in Workers : w \in Actors
    BY DEF Actors
<1>3. TypeOK
    <2>1. files \in [Files -> Content] /\ jobs \in [Workers -> Job]
        BY NotWhole DEF Init, Job
    <2>2. todo \in [Actors -> Seq(WriteType)] /\ open \in [Actors -> BOOLEAN]
        BY DEF Init
    <2>3. faults \in 0..MaxFaults
        BY ConstantsAssumption DEF Init
    <2> QED
        BY <2>1, <2>2, <2>3 DEF Init, TypeOK, WriteType
<1>4. CertificatesLast
    BY <1>1 DEF CertificatesLast, KeyFileNames, KeyOrNone, Files, StartupFiles, SigningFiles
<1>5. StagesDone
    BY <1>2 DEF Init, StagesDone
<1>6. \A w \in Workers : jobs[w] = Idle /\ jobs[w].op = "idle"
    BY DEF Init, Idle
<1>7. HandlersWait
    BY <1>2, <1>6 DEF Init, HandlersWait
<1>8. VouchedKeys /\ TsaCreations /\ StampedKeys
    BY <1>6 DEF Init, VouchedKeys, TsaCreations, StampedKeys, CreatingTsa
<1>9. SignerInv
    BY <1>1, <1>6 DEF Init, SignerInv, Creators, SignerFilesLast, KeyOrNone, Files, SignerFiles
<1> QED
    BY <1>3, <1>4, <1>5, <1>7, <1>8, <1>9 DEF KeyInv

LEMMA KeyInvStep ==
    ASSUME TypeOK, KeyInv, [Next]_vars
    PROVE  TypeOK' /\ KeyInv'
<1>1. TypeOK'
    BY TypeStep
<1>2. CASE Crash
    BY <1>1, <1>2, CrashInv
<1>3. CASE Start \/ Startup
    BY <1>1, <1>3, StartupInv
<1>4. ASSUME NEW a \in Actors, OpenFile(a) \/ CloseFile(a) PROVE KeyInv'
    <2>1. a = Main \/ a \in Workers
        BY ActorsAndJobs
    <2> QED
        BY <1>4, <2>1, MainFileInv, WorkerFileInv DEF MainWritesFile, WorkerWritesFile
<1>5. ASSUME NEW w \in Workers,
             \/ WriteFails(w) \/ SignWithStartupKeys(w)
             \/ TsaLoad(w) \/ TsaCreate(w) \/ TsaCreated(w)
             \/ SignerCreate(w) \/ SignerLoadKey(w) \/ SignerSign(w)
      PROVE  KeyInv'
    BY <1>5, WriteFailsInv, VouchInv, TsaLoadInv, TsaCreateInv, TsaCreatedInv, SignerCreateInv,
       SignerLoadKeyInv, SignerSignInv
<1>6. CASE UNCHANGED vars
    <2>1. /\ UNCHANGED <<files, stage, todo, open, jobs, vouched, stamped, pdfs, overlap>>
          /\ Main \in Actors
        BY <1>6, ActorsAndJobs DEF vars
    <2>2. CertificatesLast' /\ StagesDone'
        <3>1. KeyOrNone("tsaKey")'
            BY <2>1 DEF KeyInv, CertificatesLast, KeyFileNames, KeyOrNone
        <3> QED
            BY <2>1, <3>1, StartupFilesStay
    <2>3. HandlersWait' /\ VouchedKeys'
        BY <2>1, VouchedStays DEF KeyInv, HandlersWait, Up
    <2>4. TsaCreations' /\ StampedKeys'
        BY <2>1, TsaStays DEF CreatingTsa
    <2>5. SignerInv'
        BY <2>1, SignerStays DEF Creators
    <2> QED
        BY <1>1, <2>2, <2>3, <2>4, <2>5 DEF KeyInv
<1> QED
    BY <1>1, <1>2, <1>3, <1>4, <1>5, <1>6 DEF Next

\* Whatever writes are cut off: certificates are written last, a stage of startup has
\* what the earlier ones create, and what has signed is there for good.
THEOREM KeyInvariant == Spec => [](TypeOK /\ KeyInv)
<1>1. Init => TypeOK /\ KeyInv
    BY KeyInvInit
<1>2. TypeOK /\ KeyInv /\ [Next]_vars => TypeOK' /\ KeyInv'
    BY KeyInvStep
<1> QED
    BY <1>1, <1>2, PTL DEF Spec

\* The files, the threads and the histories hold values of their types.
THEOREM TypeCorrect == Spec => []TypeOK
BY KeyInvariant, PTL

\* A server that is up has whole keys and certificates that match.
THEOREM UpConsistent == Spec => []UpIsConsistent
<1>1. ASSUME TypeOK, KeyInv PROVE UpIsConsistent
    <2> SUFFICES ASSUME Up
                 PROVE  /\ \A f \in StartupFiles : Loads(f)
                        /\ files["legacyPublic"] = files["legacyKey"]
                        /\ files["rootCert"] = Cert(files["rootKey"].key, files["rootKey"].key)
                        /\ files["intCert"] = Cert(files["intKey"].key, files["rootKey"].key)
        BY DEF UpIsConsistent
    <2>1. Founded /\ LegacyOK
        BY <1>1, UpIsFounded
    <2>2. files["rootKey"].key \in Keys /\ files["intKey"].key \in Keys
        BY <1>1, <2>1, FoundedKeys DEF Founded
    <2>3. Loads("rootCert") /\ Loads("intCert") /\ Loads("legacyPublic")
        BY <2>1, <2>2, Whole DEF Founded, RootOK, IntOK, LegacyOK, Loads
    <2>4. \A f \in StartupFiles : Loads(f)
        BY <2>1, <2>3 DEF Founded, RootOK, IntOK, StartupFiles, SigningFiles
    <2> QED
        BY <2>1, <2>4 DEF Founded, RootOK, IntOK, LegacyOK
<1> QED
    BY <1>1, KeyInvariant, PTL

\* No start, crash or handler replaces a key that has signed.
THEOREM SignaturesStay == Spec => []SignedStaysVerifiable
<1>1. ASSUME KeyInv PROVE SignedStaysVerifiable
    BY <1>1 DEF KeyInv, VouchedKeys, StampedKeys, SignedStaysVerifiable
<1> QED
    BY <1>1, KeyInvariant, PTL

\* A PDF verifies unless two calls have created its signer at once.
THEOREM PdfsVerify == Spec => []PdfVerifies
<1>1. ASSUME KeyInv PROVE PdfVerifies
    BY <1>1 DEF KeyInv, SignerInv, PdfVerifies
<1> QED
    BY <1>1, KeyInvariant, PTL
=============================================================================
