----------------------------- MODULE AuditChain -----------------------------
(***************************************************************************)
(* The audit log: log_audit of audit_service.py, which chains every event  *)
(* to the one before it, _audit_chain_status of routes_v2.py, which checks *)
(* the chain, and export_audit_report, which shows events beside the       *)
(* outcome of that check.                                                  *)
(*                                                                         *)
(* log_audit first SELECTs the last event and then inserts its own.  Most  *)
(* handlers have written nothing when they call it, so the SELECT runs     *)
(* outside any transaction and other threads may insert before the INSERT  *)
(* takes SQLite's write lock.  Handlers that have flushed already hold the *)
(* lock, and their SELECT and INSERT are one step.                         *)
(*                                                                         *)
(* A hash is modelled as the sequence of the contents it was computed      *)
(* over: two hashes are equal exactly when those are.                      *)
(*                                                                         *)
(* Rows are also edited behind the program's back, in the database: any    *)
(* column, to another value or back to what it was.  None is deleted.      *)
(***************************************************************************)
EXTENDS Integers, Sequences, FiniteSetsExt

CONSTANTS
    Workers,   \* threads that run handlers
    Values,    \* what a group of columns may hold
    Logged,    \* the value that log_audit has inserted
    MaxEvents, \* bound of the runs: rows of the log
    MaxEdits   \* bound of the runs: edits of rows

ASSUME ConstantsAssumption ==
    /\ {MaxEvents, MaxEdits} \subseteq Nat
    /\ Logged \in Values

VARIABLES
    log,       \* table audit_logs, by increasing id
    handlers,  \* what each thread is doing, with the hash it has read
    edits,     \* how many edits there were
    rewritten  \* history: the rows whose hash columns were edited

vars == <<log, handlers, edits, rewritten>>

\* The columns build_audit_event_json covers: the event's random id, and the value of
\* the others as it writes them (it writes no actor and an empty one alike).
Content == [event : 1..MaxEvents, value : Values]
Hash == Seq(Content)
NoHash == <<>>

\* uncovered: document_hash and certificate_serial, which no hash covers.
Row == [content : Content, uncovered : Values, prev : Hash, hash : Hash]

Idle == [step |-> "idle"]
HandlerState ==
    {Idle}
    \cup [step : {"insert"}, prev : Hash]
    \cup [step : {"export_chain"}]
    \cup [step : {"export_events"}, checked : Seq(Row)]

Init ==
    /\ log = <<>>
    /\ handlers = [w \in Workers |-> Idle]
    /\ edits = 0
    /\ rewritten = {}

----------------------------------------------------------------------------
(***************************************************************************)
(* Logging.                                                                *)
(***************************************************************************)

At(w, step) == handlers[w].step = step
Goto(w, state) == handlers' = [handlers EXCEPT ![w] = state]

ComputeHash(content, prev) == Append(prev, content)

LastHash == IF log = <<>> THEN NoHash ELSE log[Len(log)].hash

\* What log_audit makes of the k-th event.
Original(k) == [event |-> k, value |-> Logged]

Chained(content, prev) ==
    [content |-> content, uncovered |-> Logged, prev |-> prev,
     hash |-> ComputeHash(content, prev)]

\* Mutant: events are counted from zero.
NewRowFromZero(k, prev) == Chained(Original(k - 1), prev)

\* The k-th row of the log, chained to prev.
NewRow(k, prev) == Chained(Original(k), prev)

\* Mutant: the first of two events is rolled back on its own.
NewRowsLoseFirst(n, prev) ==
    LET k == Len(log) + 1
        first == NewRow(k, prev) IN
    IF n = 1 THEN <<first>> ELSE <<NewRow(k, first.hash)>>

\* What a handler that logs n events, one or two, inserts: the second call of
\* log_audit runs in the same transaction and reads the row of the first.
NewRows(n, prev) ==
    LET k == Len(log) + 1
        first == NewRow(k, prev) IN
    IF n = 1 THEN <<first>> ELSE <<first, NewRow(k + 1, first.hash)>>

\* SELECT of the last event, outside a transaction.
ReadLast(w) ==
    /\ handlers[w] = Idle
    /\ Goto(w, [step |-> "insert", prev |-> LastHash])
    /\ UNCHANGED <<log, edits, rewritten>>

\* The transaction: the INSERT, and the commit of the handler.
Insert(w, n) ==
    /\ At(w, "insert")
    /\ Len(log) + n <= MaxEvents
    /\ log' = log \o NewRows(n, handlers[w].prev)
    /\ Goto(w, Idle)
    /\ UNCHANGED <<edits, rewritten>>

\* A handler that has flushed before it logs (an OTP, a TOTP) holds the lock.
InsertLocked(w) ==
    /\ handlers[w] = Idle
    /\ Len(log) < MaxEvents
    /\ log' = log \o NewRows(1, LastHash)
    /\ UNCHANGED <<handlers, edits, rewritten>>

\* The lock is not obtained in time, or the handler raises: rollback.
HandlerFails(w) ==
    /\ handlers[w] # Idle
    /\ Goto(w, Idle)
    /\ UNCHANGED <<log, edits, rewritten>>

----------------------------------------------------------------------------
(***************************************************************************)
(* Edits of stored rows, as test_audit_chain_detects_tampered_log makes.   *)
(***************************************************************************)

Edits ==
    /\ edits < MaxEdits
    /\ edits' = edits + 1
    /\ UNCHANGED handlers

\* A column the hash covers gets another value, or its own again.
Edit(i, v) ==
    /\ Edits
    /\ v # log[i].content.value
    /\ log' = [log EXCEPT ![i].content.value = v]
    /\ UNCHANGED rewritten

\* A column the hash does not cover.
EditUncovered(i, v) ==
    /\ Edits
    /\ v # log[i].uncovered
    /\ log' = [log EXCEPT ![i].uncovered = v]
    /\ UNCHANGED rewritten

KnownHashes == {NoHash} \cup {log[j].hash : j \in DOMAIN log}

\* The hash columns: the row is chained to any hash of the log, and its own hash is
\* left as it was or computed anew.
EditHashes(i, prev) ==
    /\ Edits
    /\ \E hash \in {log[i].hash, ComputeHash(log[i].content, prev)} :
          log' = [log EXCEPT ![i].prev = prev, ![i].hash = hash]
    /\ rewritten' = rewritten \cup {i}

----------------------------------------------------------------------------
(***************************************************************************)
(* GET /api/audit/verify-chain                                             *)
(***************************************************************************)

\* Mutant: the loop does not carry the hash over to the next event.
PredecessorNotCarried(l, i) == NoHash

Predecessor(l, i) == IF i = 1 THEN NoHash ELSE l[i - 1].hash

\* Mutant: the stored hash is not computed again.
LinkedByPrevious(l, i) == l[i].prev = Predecessor(l, i)

Linked(l, i) ==
    /\ l[i].prev = Predecessor(l, i)
    /\ l[i].hash = ComputeHash(l[i].content, Predecessor(l, i))

\* Mutant: only the two newest events are checked.
BreaksLatest(l) == {i \in DOMAIN l : i > Len(l) - 2 /\ ~Linked(l, i)}

Breaks(l) == {i \in DOMAIN l : ~Linked(l, i)}

\* The index of brokenAt, 0 for a valid chain.
BrokenAt(l) == IF Breaks(l) = {} THEN 0 ELSE Min(Breaks(l))

----------------------------------------------------------------------------
(***************************************************************************)
(* GET /api/audit/export                                                   *)
(***************************************************************************)

\* The export logs an event of its own first, like any other handler.
ExportInsert(w) ==
    /\ At(w, "insert")
    /\ Len(log) < MaxEvents
    /\ log' = log \o NewRows(1, handlers[w].prev)
    /\ Goto(w, [step |-> "export_chain"])
    /\ UNCHANGED <<edits, rewritten>>

\* SELECT of all events, for the check of the chain.
ExportReadChain(w) ==
    /\ At(w, "export_chain")
    /\ Goto(w, [step |-> "export_events", checked |-> log])
    /\ UNCHANGED <<log, edits, rewritten>>

\* SELECT of the newest events, for the report; the handler answers.
ExportReadEvents(w) ==
    /\ At(w, "export_events")
    /\ Goto(w, Idle)
    /\ UNCHANGED <<log, edits, rewritten>>

\* Mutant: the second SELECT loads every row again.
ShownReloaded(checked, i) == log[i]

\* What a report made now shows of event i: the session hands out the row objects that
\* the first SELECT has loaded, and loads only the newer ones.
Shown(checked, i) == IF i \in DOMAIN checked THEN checked[i] ELSE log[i]

----------------------------------------------------------------------------
Next ==
    \/ \E w \in Workers : ReadLast(w) \/ InsertLocked(w) \/ HandlerFails(w)
    \/ \E w \in Workers : ExportInsert(w) \/ ExportReadChain(w) \/ ExportReadEvents(w)
    \/ \E w \in Workers, n \in 1..2 : Insert(w, n)
    \/ \E i \in DOMAIN log, v \in Values : Edit(i, v) \/ EditUncovered(i, v)
    \/ \E i \in DOMAIN log, prev \in KnownHashes : EditHashes(i, prev)

Spec == Init /\ [][Next]_vars

----------------------------------------------------------------------------
(***************************************************************************)
(* Properties.                                                             *)
(***************************************************************************)

\* The log and the threads hold values of their types.
TypeOK ==
    /\ log \in Seq(Row)
    /\ handlers \in [Workers -> HandlerState]
    /\ edits \in 0..MaxEdits
    /\ rewritten \subseteq DOMAIN log

\* The rows whose covered columns are not what log_audit has inserted.
Edited == {i \in DOMAIN log : log[i].content # Original(i)}

\* A hash that was computed over a content, directly or through the hash before it.
Covers(hash, content) == \E m \in DOMAIN hash : hash[m] = content

\* An edit of a covered column stays hidden from verify-chain only if the hashes of that
\* event and of every later one that was logged over it are rewritten too: a single hash
\* left over the original gives it away, at that row or an earlier one.  An edit of
\* the uncovered columns (EditUncovered) is given away by nothing, although the
\* refactoring plan (docs/SECUREDOC_SECURITY_REFACTOR_PLAN.md:1192) says of every event
\* that editing it makes verify-chain fail.
EditIsReported ==
    \A i \in Edited :
        /\ i \notin rewritten => BrokenAt(log) \in 1..i
        /\ \A k \in i..Len(log) :
              Covers(log[k].hash, Original(i)) => BrokenAt(log) \in 1..k

\* An event extends an event that was committed before it, never one that was
\* rolled back: of two concurrent handlers none loses the other's event.
ExtendsCommitted ==
    rewritten = {} =>
        \A i \in DOMAIN log :
            log[i].prev = NoHash \/ \E j \in 1..(i - 1) : log[j].hash = log[i].prev

\* Unless a covered or a hash column was edited, the chain can only be broken by two
\* events that extend the same event: handlers that log one after the other never
\* break it, and an edit that is taken back leaves no break.
BreakHasCause ==
    BrokenAt(log) # 0 =>
        \/ Edited # {}
        \/ rewritten # {}
        \/ \E i, j \in DOMAIN log : i # j /\ log[i].prev = log[j].prev

\* What is logged never makes verify-chain report a broken chain as valid again, nor
\* moves the break to a later event.  Only an edit does, and only one of the broken row
\* itself or of the hash it should extend.
BreakIsPermanent ==
    [][LET b == BrokenAt(log) IN
       b # 0 =>
           \/ BrokenAt(log') \in 1..b
           \/ /\ edits' # edits
              /\ log'[b] # log[b] \/ (b > 1 /\ log'[b - 1].hash # log[b - 1].hash)]_vars

\* An event among the totalEvents that a report has checked and found valid is shown as
\* it was logged, unless the hashes shown of it and of all later ones were rewritten,
\* whatever is logged and edited between the two SELECTs.  Of the columns shown beside
\* them that no hash covers, the report promises nothing.
ExportShowsChecked ==
    \A w \in Workers : At(w, "export_events") =>
        LET checked == handlers[w].checked IN
        BrokenAt(checked) = 0 =>
            \A i \in DOMAIN checked : \A k \in i..Len(checked) :
                Covers(Shown(checked, k).hash, Original(i)) =>
                    Shown(checked, i).content = Original(i)
=============================================================================
