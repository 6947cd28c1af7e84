------------------------ MODULE DocumentStoreProofs ------------------------
(***************************************************************************)
(* Proofs about DocumentStore: for any documents, uploads and requests,    *)
(* rows refer to files nobody is writing, versions follow signed           *)
(* documents, and a row is one upload unless its updates overlap.          *)
(***************************************************************************)
EXTENDS DocumentStore, TLAPS

Busy(w) == handlers[w].step \in {"fill", "commit"}
Updates(w) == handlers[w].step \in {"receive", "fill", "commit"} /\ handlers[w].op = "update"

\* The rows that requests have loaded are still there.
LoadedExist ==
    \A w \in Workers : Updates(w) \/ At(w, "mark") => Exists(handlers[w].doc)

\* The fields of what a request is doing, by its step.
LEMMA HandlerFields ==
    ASSUME TypeOK, NEW w \in Workers
    PROVE  /\ Busy(w) => /\ handlers[w].upload \in Uploads
                         /\ handlers[w].upload.content \in Contents
                         /\ handlers[w].upload.name \in Names
                         /\ handlers[w].op \in {"store", "update"}
           /\ At(w, "receive") => handlers[w].op = "update" /\ handlers[w].upload \in Uploads
           /\ Updates(w) => /\ handlers[w].doc \in Documents
                            /\ handlers[w].row \in Document
                            /\ handlers[w].upload \in Uploads
           /\ At(w, "mark") => handlers[w].doc \in Documents
<1>1. handlers[w] \in HandlerState
    BY DEF TypeOK
<1>2. CASE handlers[w] = Idle
    BY <1>2 DEF Idle, At, Busy, Updates
<1>3. CASE handlers[w] \in [step : {"fill", "commit"}, op : {"store"}, upload : Uploads]
    BY <1>3, UploadsAssumption DEF At, Busy, Updates
<1>4. CASE handlers[w] \in [step : {"receive", "fill", "commit"}, op : {"update"},
                            upload : Uploads, doc : Documents, row : Document]
    BY <1>4, UploadsAssumption DEF At, Busy, Updates
<1>5. CASE handlers[w] \in [step : {"mark"}, doc : Documents]
    BY <1>5 DEF At, Busy, Updates
<1> QED
    BY <1>1, <1>2, <1>3, <1>4, <1>5 DEF HandlerState

\* What a request may go on to, by what it is doing.
LEMMA NextStates ==
    ASSUME TypeOK, NEW w \in Workers, NEW step \in {"fill", "commit"}
    PROVE  /\ Busy(w) \/ At(w, "receive") =>
                 LET next == [handlers[w] EXCEPT !.step = step] IN
                 /\ next \in HandlerState
                 /\ next.step = step
                 /\ next.op = handlers[w].op
                 /\ next.upload = handlers[w].upload
                 /\ handlers[w].op = "update" =>
                       next.doc = handlers[w].doc /\ next.row = handlers[w].row
           /\ Idle \in HandlerState
<1> DEFINE next == [handlers[w] EXCEPT !.step = step]
<1>1. handlers[w] \in HandlerState
    BY DEF TypeOK
<1>2. CASE handlers[w] = Idle
    BY <1>2 DEF Idle, At, Busy, HandlerState
<1>3. CASE handlers[w] \in [step : {"fill", "commit"}, op : {"store"}, upload : Uploads]
    BY <1>3 DEF At, Busy, HandlerState
<1>4. CASE handlers[w] \in [step : {"receive", "fill", "commit"}, op : {"update"},
                            upload : Uploads, doc : Documents, row : Document]
    BY <1>4 DEF At, Busy, HandlerState
<1>5. CASE handlers[w] \in [step : {"mark"}, doc : Documents]
    BY <1>5 DEF At, Busy, HandlerState
<1> QED
    BY <1>1, <1>2, <1>3, <1>4, <1>5 DEF HandlerState

\* A row is there exactly when it is a row.
LEMMA ExistsIsRow ==
    ASSUME TypeOK, NEW d \in Documents
    PROVE  /\ Exists(d) <=> documents[d] \in Document
           /\ ~Exists(d) <=> documents[d] = Absent
BY DEF TypeOK, Exists, Document, Absent

\* The row of an upload is a row.
LEMMA NewDocumentIsRow ==
    ASSUME NEW u \in Uploads, NEW version \in Nat \ {0},
           NEW previous \in Documents \cup {NoDocument}
    PROVE  NewDocument(u, version, previous) \in Document
BY UploadsAssumption DEF NewDocument, Document

\* The update of a row is a row, with the version and the flag it had.
LEMMA AssignUploadIsRow ==
    ASSUME NEW row \in Document, NEW loaded \in Document, NEW u \in Uploads
    PROVE  /\ AssignUpload(row, loaded, u) \in Document
           /\ AssignUpload(row, loaded, u).version = row.version
           /\ AssignUpload(row, loaded, u).previous = row.previous
           /\ AssignUpload(row, loaded, u).immutable = row.immutable
           /\ AssignUpload(row, loaded, u).content \in {row.content, u.content}
BY UploadsAssumption DEF AssignUpload, Document

----------------------------------------------------------------------------
(***************************************************************************)
(* Types.                                                                  *)
(***************************************************************************)

\* Taking an upload in keeps the types, whatever the row.
LEMMA PersistTypes ==
    ASSUME TypeOK, NEW w \in Workers, NEW h,
           h.upload.content \in Contents,
           [h EXCEPT !.step = "fill"] \in HandlerState,
           [h EXCEPT !.step = "commit"] \in HandlerState,
           Persist(w, h)
    PROVE  /\ files' \in [Contents -> {"absent", "partial", "whole"}]
           /\ handlers' \in [Workers -> HandlerState]
<1>1. CASE files[h.upload.content] = "absent"
    BY <1>1 DEF Persist, Goto, TypeOK
<1>2. CASE files[h.upload.content] # "absent"
    BY <1>2 DEF Persist, Goto, TypeOK
<1> QED
    BY <1>1, <1>2

\* Every step keeps the types, as long as loaded rows exist.
LEMMA TypeStep ==
    ASSUME TypeOK, LoadedExist, [Next]_vars
    PROVE  TypeOK'
<1>1. ASSUME NEW w \in Workers, WriteFile(w) PROVE TypeOK'
    <2>1. Busy(w)
        BY <1>1 DEF WriteFile, At, Busy
    <2> QED
        BY <1>1, <2>1, HandlerFields, NextStates DEF WriteFile, Goto, TypeOK
<1>2. ASSUME NEW w \in Workers, HandlerFails(w) PROVE TypeOK'
    BY <1>2, NextStates DEF HandlerFails, Goto, TypeOK
<1>3. ASSUME NEW w \in Workers, UpdateUploaded(w) PROVE TypeOK'
    <2>1. /\ handlers[w].upload.content \in Contents
          /\ [handlers[w] EXCEPT !.step = "fill"] \in HandlerState
          /\ [handlers[w] EXCEPT !.step = "commit"] \in HandlerState
        BY <1>3, HandlerFields, NextStates, UploadsAssumption DEF UpdateUploaded
    <2> QED
        BY <1>3, <2>1, PersistTypes DEF UpdateUploaded, TypeOK
<1>4. ASSUME NEW w \in Workers, UpdateCommit(w) PROVE TypeOK'
    <2> DEFINE h == handlers[w]
    <2>1. h.doc \in Documents /\ h.row \in Document /\ h.upload \in Uploads
        BY <1>4, HandlerFields DEF UpdateCommit, At, Updates
    <2>2. documents[h.doc] \in Document
        BY <1>4, <2>1, ExistsIsRow DEF UpdateCommit, At, Updates, LoadedExist
    <2>3. AssignUpload(documents[h.doc], h.row, h.upload) \in Document
        BY <2>1, <2>2, AssignUploadIsRow
    <2> QED
        BY <1>4, <2>1, <2>3, NextStates DEF UpdateCommit, Goto, TypeOK
<1>5. ASSUME NEW w \in Workers, MarkCommit(w) PROVE TypeOK'
    <2> DEFINE d == handlers[w].doc
    <2>1. d \in Documents /\ documents[d] \in Document
        BY <1>5, HandlerFields, ExistsIsRow DEF MarkCommit, LoadedExist
    <2>2. [documents[d] EXCEPT !.immutable = TRUE] \in Document
        BY <2>1 DEF Document
    <2>3. documents[d].content \in Contents
        BY <2>1 DEF Document
    <2> QED
        BY <1>5, <2>1, <2>2, <2>3, NextStates DEF MarkCommit, Goto, TypeOK
<1>6. ASSUME NEW w \in Workers, NEW u \in Uploads, StoreUploaded(w, u) PROVE TypeOK'
    <2> DEFINE h == [step |-> "receive", op |-> "store", upload |-> u]
    <2>1. /\ h.upload.content \in Contents
          /\ [h EXCEPT !.step = "fill"] \in HandlerState
          /\ [h EXCEPT !.step = "commit"] \in HandlerState
        BY UploadsAssumption DEF HandlerState
    <2> QED
        BY <1>6, <2>1, PersistTypes DEF StoreUploaded, TypeOK
<1>7. ASSUME NEW w \in Workers, NEW d \in Documents, StoreCommit(w, d) PROVE TypeOK'
    <2>1. NewDocument(handlers[w].upload, 1, NoDocument) \in Document
        BY <1>7, HandlerFields, NewDocumentIsRow DEF StoreCommit, At, Busy
    <2> QED
        BY <1>7, <2>1, NextStates DEF StoreCommit, Goto, TypeOK
<1>8. ASSUME NEW w \in Workers, NEW d \in Documents, VersionCommit(w, d) PROVE TypeOK'
    <2> DEFINE h == handlers[w]
    <2>1. h.doc \in Documents /\ h.row \in Document /\ h.upload \in Uploads
        BY <1>8, HandlerFields DEF VersionCommit, At, Updates
    <2>2. h.row.version + 1 \in Nat \ {0}
        BY <2>1 DEF Document
    <2>3. NewDocument(h.upload, h.row.version + 1, h.doc) \in Document
        BY <2>1, <2>2, NewDocumentIsRow
    <2> QED
        BY <1>8, <2>3, NextStates DEF VersionCommit, Goto, TypeOK
<1>9. ASSUME NEW w \in Workers, NEW d \in Documents, MarkRead(w, d) PROVE TypeOK'
    <2>1. [step |-> "mark", doc |-> d] \in HandlerState
        BY DEF HandlerState
    <2> QED
        BY <1>9, <2>1 DEF MarkRead, Goto, TypeOK
<1>10. ASSUME NEW w \in Workers, NEW d \in Documents, NEW u \in Uploads,
              UpdateLoad(w, d, u)
       PROVE  TypeOK'
    <2>1. documents[d] \in Document
        BY <1>10, ExistsIsRow DEF UpdateLoad
    <2>2. [step |-> "receive", op |-> "update", upload |-> u, doc |-> d,
           row |-> documents[d]] \in HandlerState
        BY <2>1 DEF HandlerState
    <2> QED
        BY <1>10, <2>2 DEF UpdateLoad, Goto, TypeOK
<1>11. CASE UNCHANGED vars
    BY <1>11 DEF vars, TypeOK
<1> QED
    BY <1>1, <1>2, <1>3, <1>4, <1>5, <1>6, <1>7, <1>8, <1>9, <1>10, <1>11 DEF Next

\* No step takes a row away, or changes more of it than its name, its content, and
\* its flag, which is only set; names and contents are written by an update.
LEMMA RowsKept ==
    ASSUME TypeOK, LoadedExist, [Next]_vars, NEW d \in Documents, Exists(d)
    PROVE  /\ Exists(d)'
           /\ documents'[d].version = documents[d].version
           /\ documents'[d].previous = documents[d].previous
           /\ documents[d].immutable => documents'[d].immutable
           /\ \/ /\ documents'[d].name = documents[d].name
                 /\ documents'[d].content = documents[d].content
              \/ \E w \in Workers : UpdateCommit(w) /\ handlers[w].doc = d
<1>1. documents[d] \in Document
    BY ExistsIsRow
<1>2. CASE documents' = documents
    BY <1>2 DEF Exists
<1>3. ASSUME documents'[d] = documents[d] PROVE Exists(d)'
    BY <1>3 DEF Exists
<1>4. ASSUME documents'[d] \in Document PROVE Exists(d)'
    BY <1>4 DEF Exists, Document, Absent
<1>5. ASSUME NEW w \in Workers, UpdateCommit(w), handlers[w].doc = d
      PROVE  /\ documents'[d] \in Document
             /\ documents'[d].version = documents[d].version
             /\ documents'[d].previous = documents[d].previous
             /\ documents'[d].immutable = documents[d].immutable
    <2> DEFINE h == handlers[w]
    <2>1. h.row \in Document /\ h.upload \in Uploads
        BY <1>5, HandlerFields DEF UpdateCommit, At, Updates
    <2>2. documents'[d] = AssignUpload(documents[d], h.row, h.upload)
        BY <1>5 DEF UpdateCommit, TypeOK
    <2> DEFINE row == AssignUpload(documents[d], h.row, h.upload)
    <2>3. /\ row \in Document
          /\ row.version = documents[d].version
          /\ row.previous = documents[d].previous
          /\ row.immutable = documents[d].immutable
        BY <1>1, <2>1, AssignUploadIsRow
    <2> HIDE DEF row
    <2> QED
        BY <2>2, <2>3 DEF row
<1>6. ASSUME NEW w \in Workers, MarkCommit(w), handlers[w].doc = d
      PROVE  /\ documents'[d] \in Document
             /\ documents'[d].version = documents[d].version
             /\ documents'[d].previous = documents[d].previous
             /\ documents'[d].immutable
             /\ documents'[d].name = documents[d].name
             /\ documents'[d].content = documents[d].content
    <2>1. documents'[d] = [documents[d] EXCEPT !.immutable = TRUE]
        BY <1>6 DEF MarkCommit, TypeOK
    <2> QED
        BY <1>1, <2>1 DEF Document
<1>7. ASSUME NEW w \in Workers, UpdateCommit(w) \/ MarkCommit(w), handlers[w].doc # d
      PROVE  documents'[d] = documents[d]
    BY <1>7 DEF UpdateCommit, MarkCommit, TypeOK
<1>8. ASSUME NEW w \in Workers, NEW e \in Documents, StoreCommit(w, e) \/ VersionCommit(w, e)
      PROVE  documents'[d] = documents[d]
    <2>1. e # d
        BY <1>8 DEF StoreCommit, VersionCommit
    <2> QED
        BY <1>8, <2>1 DEF StoreCommit, VersionCommit, TypeOK
<1> QED
    BY <1>2, <1>3, <1>4, <1>5, <1>6, <1>7, <1>8 DEF Next, vars, WriteFile, HandlerFails,
       UpdateUploaded, StoreUploaded, MarkRead, UpdateLoad

\* What a step makes of one request.
LEMMA Moves ==
    ASSUME TypeOK, [Next]_vars, NEW x \in Workers
    PROVE  \/ handlers'[x] = handlers[x]
           \/ handlers'[x] = Idle
           \/ WriteFile(x) \/ UpdateUploaded(x)
           \/ \E u \in Uploads : StoreUploaded(x, u)
           \/ \E d \in Documents : MarkRead(x, d)
           \/ \E d \in Documents, u \in Uploads : UpdateLoad(x, d, u)
<1>1. ASSUME NEW w \in Workers, NEW state, Goto(w, state), w # x
      PROVE  handlers'[x] = handlers[x]
    BY <1>1 DEF Goto, TypeOK
<1>2. ASSUME NEW w \in Workers, NEW h, Persist(w, h), w # x
      PROVE  handlers'[x] = handlers[x]
    BY <1>1, <1>2 DEF Persist
<1>3. ASSUME NEW state, Goto(x, Idle)
      PROVE  handlers'[x] = Idle
    BY <1>3 DEF Goto, TypeOK
<1>4. CASE UNCHANGED vars
    BY <1>4 DEF vars
<1>5. ASSUME NEW w \in Workers,
              WriteFile(w) \/ HandlerFails(w) \/ UpdateUploaded(w) \/ UpdateCommit(w) \/ MarkCommit(w)
       PROVE  \/ handlers'[x] = handlers[x] \/ handlers'[x] = Idle
              \/ WriteFile(x) \/ UpdateUploaded(x)
    BY <1>1, <1>2, <1>3, <1>5 DEF WriteFile, HandlerFails, UpdateUploaded, UpdateCommit, MarkCommit
<1>6. ASSUME NEW w \in Workers, NEW u \in Uploads, StoreUploaded(w, u)
       PROVE  handlers'[x] = handlers[x] \/ StoreUploaded(x, u)
    BY <1>2, <1>6 DEF StoreUploaded
<1>7. ASSUME NEW w \in Workers, NEW d \in Documents,
              StoreCommit(w, d) \/ VersionCommit(w, d) \/ MarkRead(w, d)
       PROVE  handlers'[x] = handlers[x] \/ handlers'[x] = Idle \/ MarkRead(x, d)
    BY <1>1, <1>3, <1>7 DEF StoreCommit, VersionCommit, MarkRead
<1>8. ASSUME NEW w \in Workers, NEW d \in Documents, NEW u \in Uploads, UpdateLoad(w, d, u)
       PROVE  handlers'[x] = handlers[x] \/ UpdateLoad(x, d, u)
    BY <1>1, <1>8 DEF UpdateLoad
<1> QED
    BY <1>4, <1>5, <1>6, <1>7, <1>8 DEF Next

\* What a request has loaded is what it held before, or a row as it is now.
LEMMA Loads ==
    ASSUME TypeOK, [Next]_vars, NEW x \in Workers
    PROVE  \/ ~(Updates(x) \/ At(x, "mark"))'
           \/ /\ Updates(x)' => /\ Updates(x)
                                /\ handlers'[x].doc = handlers[x].doc
                                /\ handlers'[x].row = handlers[x].row
                                /\ handlers'[x].upload = handlers[x].upload
              /\ At(x, "mark")' => At(x, "mark") /\ handlers'[x].doc = handlers[x].doc
           \/ /\ UNCHANGED <<documents, crossed>>
              /\ handlers'[x].doc \in Documents
              /\ Exists(handlers'[x].doc)
              /\ Updates(x)' => handlers'[x].row = documents[handlers'[x].doc]
<1>1. CASE handlers'[x] = handlers[x]
    BY <1>1 DEF Updates, At
<1>2. CASE handlers'[x] = Idle
    BY <1>2 DEF Updates, At, Idle
<1>3. CASE WriteFile(x)
    <2>1. handlers'[x] = [handlers[x] EXCEPT !.step = "commit"] /\ Busy(x)
        BY <1>3 DEF WriteFile, Goto, TypeOK, At, Busy
    <2> QED
        BY <2>1, NextStates DEF Updates, At, Busy
<1>4. CASE UpdateUploaded(x)
    <2>1. At(x, "receive") /\ handlers[x].op = "update"
        BY <1>4, HandlerFields DEF UpdateUploaded
    <2>2. \E step \in {"fill", "commit"} : handlers'[x] = [handlers[x] EXCEPT !.step = step]
        BY <1>4 DEF UpdateUploaded, Persist, Goto, TypeOK
    <2> QED
        BY <2>1, <2>2, NextStates DEF Updates, At
<1>5. ASSUME NEW u \in Uploads, StoreUploaded(x, u)
      PROVE  ~(Updates(x) \/ At(x, "mark"))'
    <2> DEFINE h == [step |-> "receive", op |-> "store", upload |-> u]
    <2>1. handlers'[x] \in {[h EXCEPT !.step = "fill"], [h EXCEPT !.step = "commit"]}
        BY <1>5 DEF StoreUploaded, Persist, Goto, TypeOK
    <2> QED
        BY <2>1 DEF Updates, At
<1>6. ASSUME NEW d \in Documents, MarkRead(x, d)
      PROVE  /\ UNCHANGED <<documents, crossed>>
             /\ handlers'[x].doc = d /\ Exists(d) /\ ~Updates(x)'
    BY <1>6 DEF MarkRead, Goto, TypeOK, Updates
<1>7. ASSUME NEW d \in Documents, NEW u \in Uploads, UpdateLoad(x, d, u)
      PROVE  /\ UNCHANGED <<documents, crossed>>
             /\ handlers'[x].doc = d /\ Exists(d) /\ handlers'[x].row = documents[d]
    BY <1>7 DEF UpdateLoad, Goto, TypeOK
<1> QED
    BY <1>1, <1>2, <1>3, <1>4, <1>5, <1>6, <1>7, Moves

\* A request loads a row that exists, and goes on with it.
LEMMA LoadedExistStep ==
    ASSUME TypeOK, LoadedExist, [Next]_vars
    PROVE  LoadedExist'
<1> SUFFICES ASSUME NEW x \in Workers, (Updates(x) \/ At(x, "mark"))'
             PROVE  Exists(handlers[x].doc)'
    BY DEF LoadedExist
<1>1. CASE Exists(handlers'[x].doc) /\ UNCHANGED documents
    BY <1>1 DEF Exists
<1>2. CASE (Updates(x) \/ At(x, "mark")) /\ handlers'[x].doc = handlers[x].doc
    <2>1. handlers[x].doc \in Documents /\ Exists(handlers[x].doc)
        BY <1>2, HandlerFields DEF LoadedExist
    <2>2. Exists(handlers[x].doc)' <=> documents'[handlers'[x].doc] # Absent
        BY DEF Exists
    <2>3. documents'[handlers[x].doc] # Absent
        BY <2>1, RowsKept DEF Exists
    <2> QED
        BY <1>2, <2>2, <2>3
<1> QED
    BY <1>1, <1>2, Loads

\* Whatever interleaving of requests, files and rows are of their types, and a row
\* that a request has loaded stays.
THEOREM TypeInvariant == Spec => [](TypeOK /\ LoadedExist)
<1>1. Init => TypeOK /\ LoadedExist
    BY DEF Init, TypeOK, HandlerState, LoadedExist, Updates, At, Idle
<1>2. TypeOK /\ LoadedExist /\ [Next]_vars => (TypeOK /\ LoadedExist)'
    BY TypeStep, LoadedExistStep
<1> QED
    BY <1>1, <1>2, PTL DEF Spec

\* Every row, file and request is of its type, in any interleaving.
THEOREM TypeCorrect == Spec => []TypeOK
BY TypeInvariant, PTL

----------------------------------------------------------------------------
(***************************************************************************)
(* Files.                                                                  *)
(***************************************************************************)

\* One coroutine at most is between its upload and its commit.
OneInLoop == \A v, w \in Workers : Busy(v) /\ Busy(w) => v = w

\* The file a row is about to refer to is there.
CommitsStored ==
    \A w \in Workers : At(w, "commit") => files[handlers[w].upload.content] # "absent"

\* A request that commits has an upload.
LEMMA CommitUpload ==
    ASSUME NEW h \in HandlerState, h.step = "commit"
    PROVE  h.upload.content \in Contents
BY UploadsAssumption DEF HandlerState, Idle

FileInv == OneInLoop /\ CommitsStored /\ FilesBeforeRows

\* A file is never taken away.
LEMMA FilesStay ==
    ASSUME TypeOK, [Next]_vars, NEW c \in Contents, files[c] # "absent"
    PROVE  files'[c] # "absent"
<1>1. ASSUME NEW w \in Workers, WriteFile(w) PROVE files'[c] # "absent"
    BY <1>1 DEF WriteFile, TypeOK
<1>2. ASSUME NEW w \in Workers, NEW h, Persist(w, h) PROVE files'[c] # "absent"
    BY <1>2 DEF Persist, TypeOK
<1> QED
    BY <1>1, <1>2 DEF Next, vars, HandlerFails, UpdateUploaded, UpdateCommit, MarkCommit,
       StoreUploaded, StoreCommit, VersionCommit, MarkRead, UpdateLoad

\* A coroutine that has taken an upload in when no other was in the loop.
Enters(x) ==
    LET c == handlers'[x].upload.content IN
    /\ ~LoopBusy
    /\ \A v \in Workers \ {x} : handlers'[v] = handlers[v]
    /\ UNCHANGED documents
    /\ \/ At(x, "fill")' /\ files[c] = "absent"
       \/ At(x, "commit")' /\ files[c] # "absent"

\* Taking an upload in.
LEMMA PersistEnters ==
    ASSUME TypeOK, NEW x \in Workers, NEW h, ~LoopBusy, UNCHANGED documents, Persist(x, h),
           \A step \in {"fill", "commit"} :
               /\ [h EXCEPT !.step = step].step = step
               /\ [h EXCEPT !.step = step].upload = h.upload
    PROVE  Enters(x)
<1>1. CASE files[h.upload.content] = "absent"
    <2>1. /\ handlers'[x] = [h EXCEPT !.step = "fill"]
          /\ \A v \in Workers \ {x} : handlers'[v] = handlers[v]
        BY <1>1 DEF Persist, Goto, TypeOK
    <2>2. handlers'[x].step = "fill" /\ handlers'[x].upload = h.upload
        BY <2>1
    <2> QED
        BY <1>1, <2>1, <2>2 DEF Enters, At
<1>2. CASE files[h.upload.content] # "absent"
    <2>1. /\ handlers'[x] = [h EXCEPT !.step = "commit"]
          /\ \A v \in Workers \ {x} : handlers'[v] = handlers[v]
        BY <1>2 DEF Persist, Goto, TypeOK
    <2>2. handlers'[x].step = "commit" /\ handlers'[x].upload = h.upload
        BY <2>1
    <2> QED
        BY <1>2, <2>1, <2>2 DEF Enters, At
<1> QED
    BY <1>1, <1>2

\* A request in the loop was in it, has written its file, or has just come in.
LEMMA LoopMoves ==
    ASSUME TypeOK, [Next]_vars, NEW x \in Workers, Busy(x)'
    PROVE  \/ handlers'[x] = handlers[x]
           \/ /\ At(x, "fill") /\ At(x, "commit")'
              /\ handlers'[x].upload = handlers[x].upload
              /\ files'[handlers[x].upload.content] # "absent"
           \/ Enters(x)
<1>1. handlers'[x] # Idle
    BY DEF Busy, Idle
<1>2. CASE WriteFile(x)
    <2>1. /\ handlers'[x] = [handlers[x] EXCEPT !.step = "commit"]
          /\ At(x, "fill") /\ Busy(x)
        BY <1>2 DEF WriteFile, Goto, TypeOK, At, Busy
    <2>2. handlers'[x].step = "commit" /\ handlers'[x].upload = handlers[x].upload
        BY <2>1, NextStates
    <2>3. files'[handlers[x].upload.content] = "whole"
        BY <1>2, <2>1, HandlerFields DEF WriteFile, TypeOK
    <2> QED
        BY <2>1, <2>2, <2>3 DEF At
<1>3. CASE UpdateUploaded(x)
    <2>1. \A step \in {"fill", "commit"} :
              /\ [handlers[x] EXCEPT !.step = step].step = step
              /\ [handlers[x] EXCEPT !.step = step].upload = handlers[x].upload
        BY <1>3, NextStates DEF UpdateUploaded
    <2> QED
        BY <1>3, <2>1, PersistEnters DEF UpdateUploaded
<1>4. ASSUME NEW u \in Uploads, StoreUploaded(x, u) PROVE Enters(x)
    <2> DEFINE h == [step |-> "receive", op |-> "store", upload |-> u]
    <2>1. \A step \in {"fill", "commit"} :
              /\ [h EXCEPT !.step = step].step = step
              /\ [h EXCEPT !.step = step].upload = h.upload
        OBVIOUS
    <2> QED
        BY <1>4, <2>1, PersistEnters DEF StoreUploaded
<1>5. ASSUME NEW d \in Documents, MarkRead(x, d) PROVE FALSE
    BY <1>5 DEF MarkRead, Goto, TypeOK, Busy
<1>6. ASSUME NEW d \in Documents, NEW u \in Uploads, UpdateLoad(x, d, u) PROVE FALSE
    BY <1>6 DEF UpdateLoad, Goto, TypeOK, Busy
<1> QED
    BY <1>1, <1>2, <1>3, <1>4, <1>5, <1>6, Moves

\* The content of a row is the one it had, or was committed by the coroutine in the loop.
LEMMA RowsContent ==
    ASSUME TypeOK, LoadedExist, [Next]_vars, NEW d \in Documents, Exists(d)'
    PROVE  \/ Exists(d) /\ documents'[d].content = documents[d].content
           \/ \E w \in Workers :
                 /\ At(w, "commit")
                 /\ documents'[d].content = handlers[w].upload.content
                 /\ UNCHANGED files
                 /\ handlers' = [handlers EXCEPT ![w] = Idle]
<1>1. CASE Exists(d)
    <2>1. ASSUME NEW w \in Workers, UpdateCommit(w), handlers[w].doc = d,
                 documents'[d].content # documents[d].content
          PROVE  /\ At(w, "commit")
                 /\ documents'[d].content = handlers[w].upload.content
                 /\ UNCHANGED files
                 /\ handlers' = [handlers EXCEPT ![w] = Idle]
        <3>1. At(w, "commit") /\ handlers[w].row \in Document /\ handlers[w].upload \in Uploads
            BY <2>1, HandlerFields DEF UpdateCommit, At, Updates
        <3>2. documents[d] \in Document
            BY <1>1, ExistsIsRow
        <3>3. documents'[d] = AssignUpload(documents[d], handlers[w].row, handlers[w].upload)
            BY <2>1 DEF UpdateCommit, TypeOK
        <3>4. documents'[d].content \in {documents[d].content, handlers[w].upload.content}
            BY <3>1, <3>2, <3>3, AssignUploadIsRow
        <3> QED
            BY <2>1, <3>1, <3>4 DEF UpdateCommit, Goto
    <2> QED
        BY <1>1, <2>1, RowsKept
<1>2. CASE ~Exists(d)
    <2>1. documents' # documents
        BY <1>2 DEF Exists
    <2>2. ASSUME NEW w \in Workers, UpdateCommit(w) \/ MarkCommit(w) PROVE FALSE
        <3>1. handlers[w].doc \in Documents /\ Exists(handlers[w].doc)
            BY <2>2, HandlerFields DEF UpdateCommit, MarkCommit, LoadedExist, Updates, At
        <3>2. documents'[d] = documents[d]
            BY <1>2, <2>2, <3>1 DEF UpdateCommit, MarkCommit, TypeOK
        <3> QED
            BY <1>2, <3>2 DEF Exists
    <2>3. ASSUME NEW w \in Workers, NEW e \in Documents, StoreCommit(w, e) \/ VersionCommit(w, e)
          PROVE  /\ At(w, "commit")
                 /\ documents'[d].content = handlers[w].upload.content
                 /\ UNCHANGED files
                 /\ handlers' = [handlers EXCEPT ![w] = Idle]
        <3>1. e = d
            <4>1. e # d => documents'[d] = documents[d]
                BY <2>3 DEF StoreCommit, VersionCommit, TypeOK
            <4> QED
                BY <1>2, <4>1 DEF Exists
        <3>2. documents'[d].content = handlers[w].upload.content
            BY <2>3, <3>1 DEF StoreCommit, VersionCommit, NewDocument, TypeOK
        <3> QED
            BY <2>3, <3>2 DEF StoreCommit, VersionCommit, Goto
    <2> QED
        BY <2>1, <2>2, <2>3 DEF Next, vars, WriteFile, HandlerFails, UpdateUploaded,
           StoreUploaded, MarkRead, UpdateLoad
<1> QED
    BY <1>1, <1>2

\* A row is committed with a file that is there, while nobody is writing it, since the
\* coroutine that commits is the only one in the loop.
LEMMA FileStep ==
    ASSUME TypeOK, LoadedExist, FileInv, [Next]_vars
    PROVE  FileInv'
<1>1. OneInLoop'
    <2> SUFFICES ASSUME NEW v \in Workers, NEW w \in Workers, Busy(v)', Busy(w)', v # w
                 PROVE  FALSE
        BY DEF OneInLoop
    <2>1. ASSUME NEW x \in Workers, Busy(x)', ~Busy(x)
          PROVE  Enters(x)
        BY <2>1, LoopMoves DEF Busy, At
    <2>2. ASSUME NEW x \in Workers, NEW y \in Workers, x # y, Enters(x), Busy(y)'
          PROVE  FALSE
        BY <2>2 DEF Enters, LoopBusy, Busy
    <2> QED
        BY <2>1, <2>2 DEF FileInv, OneInLoop
<1>2. CommitsStored'
    <2> SUFFICES ASSUME NEW x \in Workers, At(x, "commit")'
                 PROVE  files'[handlers'[x].upload.content] # "absent"
        BY DEF CommitsStored
    <2>1. TypeOK'
        BY TypeStep
    <2>2. handlers'[x].upload.content \in Contents
        BY <2>1, CommitUpload DEF TypeOK, At
    <2> QED
        BY <2>2, LoopMoves, FilesStay DEF FileInv, CommitsStored, Busy, At, Enters
<1>3. ASSUME NEW d \in Documents, Exists(d)'
      PROVE  /\ files'[documents'[d].content] # "absent"
             /\ \A x \in Workers : At(x, "fill")' =>
                   handlers'[x].upload.content # documents'[d].content
    <2>1. CASE Exists(d) /\ documents'[d].content = documents[d].content
        <3>1. documents[d].content \in Contents
            BY <2>1, ExistsIsRow DEF Document
        <3>2. files[documents[d].content] # "absent"
            BY <2>1 DEF FileInv, FilesBeforeRows
        <3>3. ASSUME NEW x \in Workers, At(x, "fill")'
              PROVE  handlers'[x].upload.content # documents[d].content
            BY <2>1, <3>2, <3>3, LoopMoves DEF FileInv, FilesBeforeRows, Busy, At, Enters
        <3> QED
            BY <2>1, <3>1, <3>2, <3>3, FilesStay
    <2>2. ASSUME NEW w \in Workers, At(w, "commit"), UNCHANGED files,
                 documents'[d].content = handlers[w].upload.content,
                 handlers' = [handlers EXCEPT ![w] = Idle]
          PROVE  /\ files'[documents'[d].content] # "absent"
                 /\ \A x \in Workers : ~At(x, "fill")'
        <3>1. files'[documents'[d].content] # "absent"
            BY <2>2 DEF FileInv, CommitsStored
        <3>2. \A x \in Workers \ {w} : ~At(x, "fill")
            BY <2>2 DEF FileInv, OneInLoop, Busy, At
        <3> QED
            BY <2>2, <3>1, <3>2 DEF At, Idle, TypeOK
    <2> QED
        BY <1>3, <2>1, <2>2, RowsContent
<1> QED
    BY <1>1, <1>2, <1>3 DEF FileInv, FilesBeforeRows

\* A row never refers to a file that is missing or being written by a request.
THEOREM RowsReferToFiles == Spec => []FilesBeforeRows
<1>1. Init => FileInv
    BY DEF Init, FileInv, OneInLoop, CommitsStored, FilesBeforeRows, Busy, At, Idle, Exists
<1>2. TypeOK /\ LoadedExist /\ FileInv /\ [Next]_vars => FileInv'
    BY FileStep
<1>3. FileInv => FilesBeforeRows
    BY DEF FileInv
<1> QED
    BY <1>1, <1>2, <1>3, TypeInvariant, PTL DEF Spec

----------------------------------------------------------------------------
(***************************************************************************)
(* Versions.                                                               *)
(***************************************************************************)

\* A row that a request has loaded has kept its version, and its flag if it was set.
LoadedVersions ==
    \A w \in Workers : Updates(w) =>
        LET row == handlers[w].row
            now == documents[handlers[w].doc] IN
        now.version = row.version /\ (row.immutable => now.immutable)

\* What a request has loaded stays true of the row.
LEMMA LoadedVersionsStep ==
    ASSUME TypeOK, LoadedExist, LoadedVersions, [Next]_vars
    PROVE  LoadedVersions'
<1> SUFFICES ASSUME NEW x \in Workers, Updates(x)'
             PROVE  /\ documents'[handlers'[x].doc].version = handlers'[x].row.version
                    /\ handlers'[x].row.immutable => documents'[handlers'[x].doc].immutable
    BY DEF LoadedVersions
<1>1. CASE /\ Updates(x)
           /\ handlers'[x].doc = handlers[x].doc
           /\ handlers'[x].row = handlers[x].row
    <2>1. handlers[x].doc \in Documents /\ Exists(handlers[x].doc)
        BY <1>1, HandlerFields DEF LoadedExist
    <2> QED
        BY <1>1, <2>1, RowsKept DEF LoadedVersions
<1>2. CASE UNCHANGED documents /\ handlers'[x].row = documents[handlers'[x].doc]
    BY <1>2
<1> QED
    BY <1>1, <1>2, Loads

\* A new version is one of a row that was signed when it was loaded, and so still is.
LEMMA VersionsStep ==
    ASSUME TypeOK, LoadedExist, LoadedVersions, VersionsFollowSigned, [Next]_vars
    PROVE  VersionsFollowSigned'
<1> SUFFICES ASSUME NEW d \in Documents, documents'[d].previous # NoDocument
             PROVE  LET previous == documents'[documents'[d].previous] IN
                    /\ previous.immutable
                    /\ documents'[d].version = previous.version + 1
    BY DEF VersionsFollowSigned
<1>1. ASSUME NEW e \in Documents, documents[e].immutable
      PROVE  Exists(e) /\ documents'[e].immutable /\ documents'[e].version = documents[e].version
    <2>1. Exists(e)
        BY <1>1 DEF Exists, Absent
    <2> QED
        BY <1>1, <2>1, RowsKept
<1>2. CASE /\ documents'[d].previous = documents[d].previous
           /\ documents'[d].version = documents[d].version
    <2> DEFINE e == documents[d].previous
    <2>1. e \in Documents
        BY <1>2, ExistsIsRow DEF Document, Absent
    <2>2. documents[e].immutable /\ documents[d].version = documents[e].version + 1
        BY <1>2 DEF VersionsFollowSigned
    <2> QED
        BY <1>1, <1>2, <2>1, <2>2
<1>3. ASSUME NEW w \in Workers, NEW e \in Documents, StoreCommit(w, e) \/ VersionCommit(w, e),
             documents'[d] # documents[d]
      PROVE  /\ e = d /\ VersionCommit(w, d)
             /\ documents'[d] = NewDocument(handlers[w].upload, handlers[w].row.version + 1,
                                            handlers[w].doc)
    <2>1. e = d
        BY <1>3 DEF StoreCommit, VersionCommit, TypeOK
    <2>2. ASSUME StoreCommit(w, d) PROVE FALSE
        <3>1. documents'[d].previous = NoDocument
            BY <2>2 DEF StoreCommit, NewDocument, TypeOK
        <3> QED
            BY <3>1
    <2> QED
        BY <1>3, <2>1, <2>2 DEF VersionCommit, TypeOK
<1>4. ASSUME NEW w \in Workers, VersionCommit(w, d),
             documents'[d] = NewDocument(handlers[w].upload, handlers[w].row.version + 1,
                                         handlers[w].doc)
      PROVE  LET previous == documents'[documents'[d].previous] IN
             /\ previous.immutable
             /\ documents'[d].version = previous.version + 1
    <2> DEFINE e == handlers[w].doc
    <2>1. documents'[d].previous = e /\ documents'[d].version = handlers[w].row.version + 1
        BY <1>4 DEF NewDocument
    <2>2. e \in Documents /\ Updates(w) /\ handlers[w].row.immutable
        BY <1>4, HandlerFields DEF VersionCommit, Updates, At
    <2>3. documents[e].immutable /\ documents[e].version = handlers[w].row.version
        BY <2>2 DEF LoadedVersions
    <2> QED
        BY <1>1, <2>1, <2>2, <2>3
<1>5. CASE Exists(d)
    BY <1>2, <1>5, RowsKept
<1>6. CASE ~Exists(d)
    <2>1. ASSUME NEW w \in Workers, UpdateCommit(w) \/ MarkCommit(w)
          PROVE  documents'[d] = documents[d]
        <3>1. handlers[w].doc \in Documents /\ Exists(handlers[w].doc)
            BY <2>1, HandlerFields DEF UpdateCommit, MarkCommit, LoadedExist, Updates, At
        <3> QED
            BY <1>6, <2>1, <3>1 DEF UpdateCommit, MarkCommit, TypeOK
    <2>2. CASE documents'[d] = documents[d]
        BY <1>2, <2>2
    <2>3. CASE documents'[d] # documents[d]
        <3>1. \E w \in Workers, e \in Documents : StoreCommit(w, e) \/ VersionCommit(w, e)
            BY <2>1, <2>3 DEF Next, vars, WriteFile, HandlerFails, UpdateUploaded,
               StoreUploaded, MarkRead, UpdateLoad
        <3> QED
            BY <1>3, <1>4, <2>3, <3>1
    <2> QED
        BY <2>2, <2>3
<1> QED
    BY <1>5, <1>6

\* Every version but the first follows a signed document, which stays signed.
THEOREM VersionsAreOfSigned == Spec => []VersionsFollowSigned
<1>1. Init => LoadedVersions /\ VersionsFollowSigned
    BY DEF Init, LoadedVersions, VersionsFollowSigned, Updates, Idle, Absent
<1>2. TypeOK /\ LoadedExist /\ LoadedVersions /\ VersionsFollowSigned /\ [Next]_vars
          => (LoadedVersions /\ VersionsFollowSigned)'
    BY LoadedVersionsStep, VersionsStep
<1> QED
    BY <1>1, <1>2, TypeInvariant, PTL DEF Spec

----------------------------------------------------------------------------
(***************************************************************************)
(* Rows of one upload.                                                     *)
(***************************************************************************)

\* As long as no two updates of a document have overlapped, one under way has loaded
\* the name and the content that the row still has.
LoadedIsCurrent ==
    \A w \in Workers : Updates(w) /\ handlers[w].doc \notin crossed =>
        LET now == documents[handlers[w].doc] IN
        handlers[w].row.name = now.name /\ handlers[w].row.content = now.content

\* Only an update that overlaps another one is remembered.
LEMMA CrossedStep ==
    ASSUME TypeOK, [Next]_vars
    PROVE  /\ crossed \subseteq crossed'
           /\ \A w, x \in Workers :
                 (UpdateCommit(w) /\ w # x /\ Updates(x) /\ handlers[x].doc = handlers[w].doc)
                    => handlers[w].doc \in crossed'
<1>1. crossed \subseteq crossed'
    BY DEF Next, vars, WriteFile, HandlerFails, UpdateUploaded, UpdateCommit, MarkCommit,
       StoreUploaded, StoreCommit, VersionCommit, MarkRead, UpdateLoad
<1>2. ASSUME NEW w \in Workers, NEW x \in Workers, UpdateCommit(w), w # x, Updates(x),
             handlers[x].doc = handlers[w].doc
      PROVE  handlers[w].doc \in crossed'
    <2>1. AlsoUpdates(w, handlers[w].doc)
        BY <1>2 DEF AlsoUpdates, Updates
    <2> QED
        BY <1>2, <2>1 DEF UpdateCommit
<1> QED
    BY <1>1, <1>2

\* What an update has loaded stays current until another one commits.
LEMMA LoadedIsCurrentStep ==
    ASSUME TypeOK, LoadedExist, LoadedIsCurrent, [Next]_vars
    PROVE  LoadedIsCurrent'
<1> SUFFICES ASSUME NEW x \in Workers, Updates(x)', handlers'[x].doc \notin crossed'
             PROVE  /\ handlers'[x].row.name = documents'[handlers'[x].doc].name
                    /\ handlers'[x].row.content = documents'[handlers'[x].doc].content
    BY DEF LoadedIsCurrent
<1>1. CASE /\ Updates(x)
           /\ handlers'[x].doc = handlers[x].doc
           /\ handlers'[x].row = handlers[x].row
    <2> DEFINE d == handlers[x].doc
    <2>1. d \in Documents /\ Exists(d)
        BY <1>1, HandlerFields DEF LoadedExist
    <2>2. d \notin crossed
        BY <1>1, CrossedStep
    <2>3. ~ \E w \in Workers : UpdateCommit(w) /\ handlers[w].doc = d
        <3> SUFFICES ASSUME NEW w \in Workers, UpdateCommit(w), handlers[w].doc = d
                     PROVE  FALSE
            OBVIOUS
        <3>1. CASE w = x
            BY <3>1 DEF UpdateCommit, Goto, TypeOK, Updates, Idle
        <3>2. CASE w # x
            BY <1>1, <3>2, CrossedStep
        <3> QED
            BY <3>1, <3>2
    <2> QED
        BY <1>1, <2>1, <2>2, <2>3, RowsKept DEF LoadedIsCurrent
<1>2. CASE UNCHANGED documents /\ handlers'[x].row = documents[handlers'[x].doc]
    BY <1>2
<1> QED
    BY <1>1, <1>2, Loads

\* The name and the content of a row that is updated alone are those of the upload.
LEMMA RowsStep ==
    ASSUME TypeOK, LoadedExist, LoadedIsCurrent, RowIsOneUpload, [Next]_vars
    PROVE  RowIsOneUpload'
<1> DEFINE Pair(row) == [name |-> row.name, content |-> row.content]
<1> SUFFICES ASSUME NEW d \in Documents, Exists(d)', d \notin crossed'
             PROVE  Pair(documents'[d]) \in Uploads
    BY DEF RowIsOneUpload
<1>1. d \notin crossed
    BY CrossedStep
<1>2. ASSUME NEW u \in Uploads PROVE u = [name |-> u.name, content |-> u.content]
    BY UploadsAssumption
<1>3. CASE Exists(d) /\ ~ \E w \in Workers : UpdateCommit(w) /\ handlers[w].doc = d
    <2>1. documents'[d].name = documents[d].name /\ documents'[d].content = documents[d].content
        BY <1>3, RowsKept
    <2>2. Pair(documents[d]) \in Uploads
        BY <1>1, <1>3 DEF RowIsOneUpload
    <2> QED
        BY <2>1, <2>2
<1>4. ASSUME NEW w \in Workers, UpdateCommit(w), handlers[w].doc = d
      PROVE  Pair(documents'[d]) \in Uploads
    <2> DEFINE h == handlers[w]
    <2>1. h.row \in Document /\ h.upload \in Uploads /\ Updates(w)
        BY <1>4, HandlerFields DEF UpdateCommit, At, Updates
    <2>2. documents[d] \in Document
        BY <1>4, <2>1, ExistsIsRow DEF LoadedExist
    <2>3. h.row.name = documents[d].name /\ h.row.content = documents[d].content
        BY <1>1, <1>4, <2>1 DEF LoadedIsCurrent
    <2>4. documents'[d] = AssignUpload(documents[d], h.row, h.upload)
        BY <1>4 DEF UpdateCommit, TypeOK
    <2>5. /\ AssignUpload(documents[d], h.row, h.upload).name = h.upload.name
          /\ AssignUpload(documents[d], h.row, h.upload).content = h.upload.content
        BY <2>2, <2>3 DEF AssignUpload, Document
    <2>6. h.upload = [name |-> h.upload.name, content |-> h.upload.content]
        BY <1>2, <2>1
    <2> QED
        BY <2>1, <2>4, <2>5, <2>6
<1>5. CASE ~Exists(d)
    <2>1. ASSUME NEW w \in Workers, UpdateCommit(w) \/ MarkCommit(w) PROVE FALSE
        <3>1. handlers[w].doc \in Documents /\ Exists(handlers[w].doc)
            BY <2>1, HandlerFields DEF UpdateCommit, MarkCommit, LoadedExist, Updates, At
        <3>2. documents'[d] = documents[d]
            BY <1>5, <2>1, <3>1 DEF UpdateCommit, MarkCommit, TypeOK
        <3> QED
            BY <1>5, <3>2 DEF Exists
    <2>2. PICK w \in Workers, e \in Documents : StoreCommit(w, e) \/ VersionCommit(w, e)
        BY <1>5, <2>1 DEF Exists, Next, vars, WriteFile, HandlerFails, UpdateUploaded,
           StoreUploaded, MarkRead, UpdateLoad
    <2>3. e = d
        <3>1. e # d => documents'[d] = documents[d]
            BY <2>2 DEF StoreCommit, VersionCommit, TypeOK
        <3> QED
            BY <1>5, <3>1 DEF Exists
    <2>4. /\ documents'[d].name = handlers[w].upload.name
          /\ documents'[d].content = handlers[w].upload.content
        BY <2>2, <2>3 DEF StoreCommit, VersionCommit, NewDocument, TypeOK
    <2>5. handlers[w].upload \in Uploads
        BY <2>2, HandlerFields DEF StoreCommit, VersionCommit, At, Busy
    <2> QED
        BY <1>2, <2>4, <2>5
<1> QED
    BY <1>3, <1>4, <1>5

\* A row describes one upload, unless updates of it have overlapped.
THEOREM RowsAreUploads == Spec => []RowIsOneUpload
<1>1. Init => LoadedIsCurrent /\ RowIsOneUpload
    BY DEF Init, LoadedIsCurrent, RowIsOneUpload, Updates, Idle, Exists
<1>2. TypeOK /\ LoadedExist /\ LoadedIsCurrent /\ RowIsOneUpload /\ [Next]_vars
          => (LoadedIsCurrent /\ RowIsOneUpload)'
    BY LoadedIsCurrentStep, RowsStep
<1> QED
    BY <1>1, <1>2, TypeInvariant, PTL DEF Spec
=============================================================================
