--------------------------- MODULE DocumentStore ---------------------------
(***************************************************************************)
(* The document store of routes_v2.py: files named by the hash of their    *)
(* content, and rows that describe documents, their versions and whether   *)
(* they are signed.                                                        *)
(*                                                                         *)
(* store_document and update_document_content are coroutines of one event  *)
(* loop: between two suspension points nothing else of the loop runs, and  *)
(* the only suspension is the reading of the upload.  mark_document_signed *)
(* is a plain function, run by a thread at the same time.  A row that has  *)
(* been loaded is not loaded again, and a commit writes the columns whose  *)
(* value differs from the one loaded.                                      *)
(*                                                                         *)
(* One owner: a call by another account is turned away.  An upload is a    *)
(* name (original_filename and mime_type, read from the form) and a        *)
(* content: the bytes, and so their hash, their size and the path of their *)
(* file.                                                                   *)
(***************************************************************************)
EXTENDS Naturals, FiniteSets

CONSTANTS
    Documents, \* document ids
    Names,     \* names that are uploaded
    Contents,  \* contents that are uploaded
    Uploads,   \* the names and contents that are uploaded together
    Workers    \* requests being handled

ASSUME UploadsAssumption == Uploads \subseteq [name : Names, content : Contents]

VARIABLES
    documents,    \* table documents
    files,        \* the runtime storage, per content
    handlers,     \* what each request is doing, with the row it has loaded
    signedContent, \* history: the content when the document was first marked
    crossed       \* history: documents updated while another update held their row

vars == <<documents, files, handlers, signedContent, crossed>>

NoContent == "no content"
NoDocument == "no document"
Document == [name : Names, content : Contents, version : Nat \ {0},
             previous : Documents \cup {NoDocument}, immutable : BOOLEAN]
Absent == [name |-> NoContent, content |-> NoContent, version |-> 0,
           previous |-> NoDocument, immutable |-> FALSE]

Idle == [step |-> "idle"]
HandlerState ==
    {Idle}
    \cup [step : {"fill", "commit"}, op : {"store"}, upload : Uploads]
    \cup [step : {"receive", "fill", "commit"}, op : {"update"}, upload : Uploads,
          doc : Documents, row : Document]
    \cup [step : {"mark"}, doc : Documents]

Init ==
    /\ documents = [d \in Documents |-> Absent]
    /\ files = [c \in Contents |-> "absent"]
    /\ handlers = [w \in Workers |-> Idle]
    /\ signedContent = [d \in Documents |-> NoContent]
    /\ crossed = {}

----------------------------------------------------------------------------
Exists(d) == documents[d] # Absent
At(w, step) == handlers[w].step = step
Goto(w, state) == handlers' = [handlers EXCEPT ![w] = state]

\* Mutant: plain functions instead of coroutines.
LoopBusyNever == FALSE

\* A coroutine is between the upload and its commit.
LoopBusy == \E w \in Workers : handlers[w].step \in {"fill", "commit"}

\* _persist_document_content: a file that exists is taken as it is; another is
\* opened, which creates it, and then written.
Persist(w, h) ==
    IF files[h.upload.content] = "absent"
    THEN /\ files' = [files EXCEPT ![h.upload.content] = "partial"]
         /\ Goto(w, [h EXCEPT !.step = "fill"])
    ELSE /\ Goto(w, [h EXCEPT !.step = "commit"])
         /\ UNCHANGED files

WriteFile(w) ==
    /\ At(w, "fill")
    /\ files' = [files EXCEPT ![handlers[w].upload.content] = "whole"]
    /\ Goto(w, [handlers[w] EXCEPT !.step = "commit"])
    /\ UNCHANGED <<documents, signedContent, crossed>>

\* The disk is full, the database lock is not obtained, or the process is killed:
\* the transaction is rolled back, the file stays as it is.
HandlerFails(w) ==
    /\ ~At(w, "idle")
    /\ Goto(w, Idle)
    /\ UNCHANGED <<documents, files, signedContent, crossed>>

\* The row of an upload.
NewDocument(u, version, previous) ==
    [name |-> u.name, content |-> u.content, version |-> version,
     previous |-> previous, immutable |-> FALSE]

----------------------------------------------------------------------------
\* POST /api/documents/store

StoreUploaded(w, u) ==
    /\ At(w, "idle")
    /\ ~LoopBusy
    /\ Persist(w, [step |-> "receive", op |-> "store", upload |-> u])
    /\ UNCHANGED <<documents, signedContent, crossed>>

\* Mutant: versions are counted from zero.
StoreCommitFromZero(w, d) ==
    LET h == handlers[w] IN
    /\ At(w, "commit") /\ h.op = "store"
    /\ ~Exists(d)
    /\ documents' = [documents EXCEPT ![d] = NewDocument(h.upload, 0, NoDocument)]
    /\ Goto(w, Idle)
    /\ UNCHANGED <<files, signedContent, crossed>>

StoreCommit(w, d) ==
    LET h == handlers[w] IN
    /\ At(w, "commit") /\ h.op = "store"
    /\ ~Exists(d)
    /\ documents' = [documents EXCEPT ![d] = NewDocument(h.upload, 1, NoDocument)]
    /\ Goto(w, Idle)
    /\ UNCHANGED <<files, signedContent, crossed>>

----------------------------------------------------------------------------
\* PUT /api/documents/{id}/content

\* The row is loaded, and then the upload is read.
UpdateLoad(w, d, u) ==
    /\ At(w, "idle")
    /\ ~LoopBusy
    /\ Exists(d)
    /\ Goto(w, [step |-> "receive", op |-> "update", upload |-> u, doc |-> d,
                row |-> documents[d]])
    /\ UNCHANGED <<documents, files, signedContent, crossed>>

UpdateUploaded(w) ==
    /\ At(w, "receive")
    /\ ~LoopBusy
    /\ Persist(w, handlers[w])
    /\ UNCHANGED <<documents, signedContent, crossed>>

\* Mutant: the whole row is written back.
AssignUploadWholeRow(row, loaded, u) == [loaded EXCEPT !.name = u.name, !.content = u.content]

\* Mutant: an update leaves the name as it was.
AssignUploadWithoutName(row, loaded, u) == [row EXCEPT !.content = u.content]

\* The row after a commit that assigns the upload to the row loaded earlier: a column
\* is written where the upload differs from the row that was loaded.
AssignUpload(row, loaded, u) ==
    [row EXCEPT !.name = IF loaded.name = u.name THEN @ ELSE u.name,
                !.content = IF loaded.content = u.content THEN @ ELSE u.content]

\* Another request has loaded the row of d to update it.
AlsoUpdates(w, d) ==
    \E v \in Workers \ {w} : handlers[v].step \in {"receive", "fill", "commit"}
        /\ handlers[v].op = "update" /\ handlers[v].doc = d

UpdateCommit(w) ==
    LET h == handlers[w] IN
    /\ At(w, "commit") /\ h.op = "update" /\ ~h.row.immutable
    /\ documents' = [documents EXCEPT ![h.doc] = AssignUpload(@, h.row, h.upload)]
    /\ crossed' = crossed \cup {d \in {h.doc} : AlsoUpdates(w, d)}
    /\ Goto(w, Idle)
    /\ UNCHANGED <<files, signedContent>>

\* Mutant: the new version takes the number of the old one.
VersionCommitSameNumber(w, d) ==
    LET h == handlers[w] IN
    /\ At(w, "commit") /\ h.op = "update" /\ h.row.immutable
    /\ ~Exists(d)
    /\ documents' = [documents EXCEPT ![d] = NewDocument(h.upload, h.row.version, h.doc)]
    /\ Goto(w, Idle)
    /\ UNCHANGED <<files, signedContent, crossed>>

\* A signed document is left alone: a new row is its next version.
VersionCommit(w, d) ==
    LET h == handlers[w] IN
    /\ At(w, "commit") /\ h.op = "update" /\ h.row.immutable
    /\ ~Exists(d)
    /\ documents' = [documents EXCEPT ![d] = NewDocument(h.upload, h.row.version + 1, h.doc)]
    /\ Goto(w, Idle)
    /\ UNCHANGED <<files, signedContent, crossed>>

----------------------------------------------------------------------------
\* POST /api/documents/{id}/mark-signed

MarkRead(w, d) ==
    /\ At(w, "idle")
    /\ Exists(d)
    /\ Goto(w, [step |-> "mark", doc |-> d])
    /\ UNCHANGED <<documents, files, signedContent, crossed>>

MarkCommit(w) ==
    LET d == handlers[w].doc IN
    /\ At(w, "mark")
    /\ documents' = [documents EXCEPT ![d].immutable = TRUE]
    /\ signedContent' = [signedContent EXCEPT
                            ![d] = IF documents[d].immutable THEN @ ELSE documents[d].content]
    /\ Goto(w, Idle)
    /\ UNCHANGED <<files, crossed>>

----------------------------------------------------------------------------
Next ==
    \/ \E w \in Workers :
          WriteFile(w) \/ HandlerFails(w) \/ UpdateUploaded(w) \/ UpdateCommit(w) \/ MarkCommit(w)
    \/ \E w \in Workers, u \in Uploads : StoreUploaded(w, u)
    \/ \E w \in Workers, d \in Documents :
          StoreCommit(w, d) \/ VersionCommit(w, d) \/ MarkRead(w, d)
    \/ \E w \in Workers, d \in Documents, u \in Uploads : UpdateLoad(w, d, u)

Spec == Init /\ [][Next]_vars

----------------------------------------------------------------------------
(***************************************************************************)
(* Properties.                                                             *)
(***************************************************************************)

\* The rows, the files and the requests hold values of their types.
TypeOK ==
    /\ documents \in [Documents -> Document \cup {Absent}]
    /\ files \in [Contents -> {"absent", "partial", "whole"}]
    /\ handlers \in [Workers -> HandlerState]
    /\ signedContent \in [Documents -> Contents \cup {NoContent}]
    /\ crossed \subseteq Documents

\* A row never refers to a file that does not exist, or that another request is
\* still writing: only an interrupted write can leave a file incomplete.
FilesBeforeRows ==
    \A d \in Documents : Exists(d) =>
        /\ files[documents[d].content] # "absent"
        /\ \A w \in Workers : At(w, "fill") => handlers[w].upload.content # documents[d].content

\* A document with a predecessor is its next version, and the predecessor is signed
\* and stays so, whatever a request that loaded it before it was signed commits.
VersionsFollowSigned ==
    \A d \in Documents : documents[d].previous # NoDocument =>
        LET previous == documents[documents[d].previous] IN
        /\ previous.immutable
        /\ documents[d].version = previous.version + 1

\* The name and the content of a row were uploaded together, unless one update of the
\* document committed while another held the row: then each may have written the
\* columns the other left alone, and the row is one that nobody uploaded.
RowIsOneUpload ==
    \A d \in Documents : Exists(d) =>
        \/ [name |-> documents[d].name, content |-> documents[d].content] \in Uploads
        \/ d \in crossed

\* The content of a signed document is the one it was signed with.
SignedContentKept ==
    \A d \in Documents : documents[d].immutable => documents[d].content = signedContent[d]
=============================================================================
