-------------------------- MODULE AuditChainProofs --------------------------
(***************************************************************************)
(* Theorems about AuditChain, for every number of threads and events.      *)
(***************************************************************************)
EXTENDS AuditChain, SequenceTheorems, WellFoundedInduction, TLAPS

----------------------------------------------------------------------------
(***************************************************************************)
(* Rows that are added.                                                    *)
(***************************************************************************)

\* The log grows by one row, chained to prev.
GrowsBy(row) ==
    /\ Len(log') = Len(log) + 1
    /\ \A i \in 1..Len(log) : log'[i] = log[i]
    /\ log'[Len(log) + 1] = row

\* The log grows by two rows, the second chained to the first.
GrowsByTwo(prev) ==
    /\ Len(log') = Len(log) + 2
    /\ \A i \in 1..Len(log) : log'[i] = log[i]
    /\ log'[Len(log) + 1] = NewRow(Len(log) + 1, prev)
    /\ log'[Len(log) + 2] = NewRow(Len(log) + 2, log'[Len(log) + 1].hash)

\* A new row is a row, of the event that is its index, as it was logged.
LEMMA NewRowType ==
    ASSUME NEW k \in 1..MaxEvents, NEW prev \in Hash
    PROVE  /\ NewRow(k, prev) \in Row
           /\ NewRow(k, prev).content = Original(k)
           /\ NewRow(k, prev).prev = prev
           /\ NewRow(k, prev).hash = Append(prev, Original(k))
<1>1. Original(k) \in Content
    BY ConstantsAssumption DEF Content, Original
<1>2. Append(prev, Original(k)) \in Hash
    BY <1>1 DEF Hash
<1> QED
    BY <1>1, <1>2, ConstantsAssumption DEF NewRow, Chained, ComputeHash, Row

\* What the write of one or two events makes of the log.
LEMMA NewRowsGrow ==
    ASSUME TypeOK, NEW n \in 1..2, NEW prev \in Hash,
           Len(log) + n <= MaxEvents, log' = log \o NewRows(n, prev)
    PROVE  /\ log' \in Seq(Row)
           /\ n = 1 => GrowsBy(NewRow(Len(log) + 1, prev))
           /\ n = 2 => GrowsByTwo(prev)
<1> DEFINE k == Len(log) + 1
           first == NewRow(k, prev)
<1>1. k \in 1..MaxEvents /\ log \in Seq(Row) /\ Len(log) \in Nat
    BY ConstantsAssumption DEF TypeOK
<1>2. first \in Row /\ first.hash \in Hash
    BY <1>1, NewRowType DEF Row
<1>3. CASE n = 1
    <2>1. NewRows(n, prev) = <<first>>
        BY <1>3 DEF NewRows
    <2> HIDE DEF first
    <2>2. <<first>> \in Seq(Row)
        BY <1>2
    <2>3. log' \in Seq(Row) /\ Len(log') = Len(log) + 1
        BY <1>1, <2>1, <2>2
    <2>4. \A i \in 1..Len(log) : log'[i] = log[i]
        BY <1>1, <2>1, <2>2
    <2>5. log'[Len(log) + 1] = first
        BY <1>1, <2>1, <2>2
    <2> QED
        BY <1>3, <2>3, <2>4, <2>5 DEF GrowsBy, first
<1>4. CASE n = 2
    <2> DEFINE second == NewRow(k + 1, first.hash)
    <2>1. NewRows(n, prev) = <<first, second>>
        BY <1>4 DEF NewRows
    <2>2. k + 1 \in 1..MaxEvents
        BY <1>1, <1>4, ConstantsAssumption
    <2>3. second \in Row
        BY <1>2, <2>2, NewRowType
    <2> HIDE DEF first, second
    <2>4. <<first, second>> \in Seq(Row)
        BY <1>2, <2>3
    <2>5. log' \in Seq(Row) /\ Len(log') = Len(log) + 2
        BY <1>1, <2>1, <2>4
    <2>6. \A i \in 1..Len(log) : log'[i] = log[i]
        BY <1>1, <2>1, <2>4
    <2>7. log'[Len(log) + 1] = first /\ log'[Len(log) + 2] = second
        BY <1>1, <2>1, <2>4
    <2>8. k + 1 = Len(log) + 2
        BY <1>1
    <2> QED
        BY <1>4, <2>5, <2>6, <2>7, <2>8 DEF GrowsByTwo, first, second
<1> QED
    BY <1>3, <1>4

\* The hash log_audit reads is one.
LEMMA LastHashType ==
    ASSUME TypeOK
    PROVE  LastHash \in Hash
<1>1. CASE log = <<>>
    BY <1>1 DEF LastHash, NoHash, Hash
<1>2. CASE log # <<>>
    <2>1. log[Len(log)] \in Row
        BY <1>2 DEF TypeOK
    <2>2. log[Len(log)].hash \in Hash
        BY <2>1 DEF Row
    <2> QED
        BY <1>2, <2>2 DEF LastHash
<1> QED
    BY <1>1, <1>2

\* A thread that has read the last event holds a hash, one that exports a log.
LEMMA HandlerFields ==
    ASSUME TypeOK, NEW w \in Workers
    PROVE  /\ At(w, "insert") => handlers[w].prev \in Hash
           /\ At(w, "export_events") => handlers[w].checked \in Seq(Row)
<1>1. handlers[w] \in HandlerState
    BY DEF TypeOK
<1>2. CASE handlers[w] = Idle
    BY <1>2 DEF At, Idle
<1>3. CASE handlers[w] \in [step : {"insert"}, prev : Hash]
    BY <1>3 DEF At
<1>4. CASE handlers[w] \in [step : {"export_chain"}]
    BY <1>4 DEF At
<1>5. CASE handlers[w] \in [step : {"export_events"}, checked : Seq(Row)]
    BY <1>5 DEF At
<1> QED
    BY <1>1, <1>2, <1>3, <1>4, <1>5 DEF HandlerState

\* An edit changes one row, which keeps its event.
RowEdited(i) ==
    /\ log' \in Seq(Row)
    /\ DOMAIN log' = DOMAIN log /\ Len(log') = Len(log)
    /\ \A j \in DOMAIN log : /\ log'[j].content.event = log[j].content.event
                             /\ j # i => log'[j] = log[j]

\* Putting a row in the place of another of the same event edits it.
LEMMA ReplacedRow ==
    ASSUME TypeOK, NEW i \in DOMAIN log, NEW row \in Row,
           row.content.event = log[i].content.event, log' = [log EXCEPT ![i] = row]
    PROVE  RowEdited(i) /\ log'[i] = row
<1>1. log' \in Seq(Row) /\ Len(log') = Len(log)
    BY DEF TypeOK
<1>2. DOMAIN log' = DOMAIN log
    OBVIOUS
<1>3. \A j \in DOMAIN log : j # i => log'[j] = log[j]
    OBVIOUS
<1>4. log'[i] = row
    OBVIOUS
<1>5. \A j \in DOMAIN log : log'[j].content.event = log[j].content.event
    BY <1>3, <1>4
<1> QED
    BY <1>1, <1>2, <1>3, <1>4, <1>5 DEF RowEdited

\* An edit of a column that is no hash leaves the hash columns alone.
LEMMA EditRow ==
    ASSUME TypeOK, NEW i \in DOMAIN log, NEW v \in Values, Edit(i, v) \/ EditUncovered(i, v)
    PROVE  /\ RowEdited(i)
           /\ log'[i].prev = log[i].prev /\ log'[i].hash = log[i].hash
           /\ rewritten' = rewritten
<1>0. log[i] \in Row
    BY DEF TypeOK
<1>1. log[i] \in Row /\ log[i].content \in Content
    BY <1>0 DEF Row
<1>2. CASE Edit(i, v)
    <2> DEFINE row == [log[i] EXCEPT !.content.value = v]
    <2>1. [log[i].content EXCEPT !.value = v] \in Content
        BY <1>1 DEF Content
    <2>2. row \in Row /\ row.content.event = log[i].content.event
        BY <1>1, <2>1 DEF Row, Content
    <2>3. row.prev = log[i].prev /\ row.hash = log[i].hash
        BY <1>1 DEF Row
    <2>4. log' = [log EXCEPT ![i] = row] /\ rewritten' = rewritten
        BY <1>2 DEF Edit
    <2> HIDE DEF row
    <2> QED
        BY <2>2, <2>3, <2>4, ReplacedRow
<1>3. CASE EditUncovered(i, v)
    <2> DEFINE row == [log[i] EXCEPT !.uncovered = v]
    <2>1. row \in Row /\ row.content = log[i].content
        BY <1>1 DEF Row
    <2>2. row.prev = log[i].prev /\ row.hash = log[i].hash
        BY <1>1 DEF Row
    <2>3. log' = [log EXCEPT ![i] = row] /\ rewritten' = rewritten
        BY <1>3 DEF EditUncovered
    <2> HIDE DEF row
    <2> QED
        BY <2>1, <2>2, <2>3, ReplacedRow
<1> QED
    BY <1>2, <1>3

\* An edit of the hash columns is remembered.
LEMMA EditHashesRow ==
    ASSUME TypeOK, NEW i \in DOMAIN log, NEW prev \in KnownHashes, EditHashes(i, prev)
    PROVE  RowEdited(i) /\ rewritten' = rewritten \cup {i}
<1>0. log[i] \in Row
    BY DEF TypeOK
<1>1. log[i] \in Row /\ log[i].content \in Content /\ log[i].hash \in Hash
    BY <1>0 DEF Row
<1>2. prev \in Hash
    <2>1. \A j \in DOMAIN log : log[j] \in Row
        BY DEF TypeOK
    <2>2. \A j \in DOMAIN log : log[j].hash \in Hash
        BY <2>1 DEF Row
    <2>3. NoHash \in Hash
        BY DEF NoHash, Hash
    <2> QED
        BY <2>2, <2>3 DEF KnownHashes
<1>3. PICK hash \in {log[i].hash, ComputeHash(log[i].content, prev)} :
          log' = [log EXCEPT ![i].prev = prev, ![i].hash = hash]
    BY DEF EditHashes
<1>4. hash \in Hash
    <2>1. ComputeHash(log[i].content, prev) \in Hash
        BY <1>1, <1>2, AppendProperties DEF ComputeHash, Hash
    <2> QED
        BY <1>1, <1>3, <2>1
<1> DEFINE row == [log[i] EXCEPT !.prev = prev, !.hash = hash]
<1>5. row \in Row /\ row.content = log[i].content
    BY <1>1, <1>2, <1>4 DEF Row
<1>6. log' = [log EXCEPT ![i] = row]
    BY <1>3
<1> HIDE DEF row
<1>7. RowEdited(i)
    BY <1>5, <1>6, ReplacedRow
<1> QED
    BY <1>7 DEF EditHashes

----------------------------------------------------------------------------
(***************************************************************************)
(* Type correctness.                                                       *)
(***************************************************************************)

\* The log and the threads hold values of their types in every reachable state.
THEOREM TypeCorrect == Spec => []TypeOK
<1>1. Init => TypeOK
    BY ConstantsAssumption DEF Init, TypeOK, HandlerState
<1>2. TypeOK /\ [Next]_vars => TypeOK'
    <2> SUFFICES ASSUME TypeOK, [Next]_vars
                 PROVE  TypeOK'
        OBVIOUS
    <2>0. Len(log) \in Nat /\ DOMAIN log = 1..Len(log)
        BY DEF TypeOK
    <2>1. ASSUME NEW w \in Workers, ReadLast(w)
          PROVE  TypeOK'
        <3>1. [step |-> "insert", prev |-> LastHash] \in HandlerState
            BY LastHashType DEF HandlerState
        <3> QED
            BY <2>1, <3>1 DEF ReadLast, Goto, TypeOK
    <2>2. ASSUME NEW n \in 1..2, NEW prev \in Hash, Len(log) + n <= MaxEvents,
                 log' = log \o NewRows(n, prev)
          PROVE  log' \in Seq(Row) /\ DOMAIN log \subseteq DOMAIN log'
        BY <2>0, <2>2, NewRowsGrow DEF GrowsBy, GrowsByTwo
    <2>3. Idle \in HandlerState /\ [step |-> "export_chain"] \in HandlerState
        BY DEF HandlerState
    <2>4. ASSUME NEW w \in Workers, NEW n \in 1..2, Insert(w, n)
          PROVE  TypeOK'
        <3>1. log' \in Seq(Row) /\ DOMAIN log \subseteq DOMAIN log'
            BY <2>2, <2>4, HandlerFields DEF Insert
        <3> QED
            BY <2>3, <2>4, <3>1 DEF Insert, Goto, TypeOK
    <2>5. ASSUME NEW w \in Workers, InsertLocked(w)
          PROVE  TypeOK'
        <3>1. Len(log) + 1 <= MaxEvents
            BY <2>0, <2>5, ConstantsAssumption DEF InsertLocked
        <3>2. log' \in Seq(Row) /\ DOMAIN log \subseteq DOMAIN log'
            BY <2>2, <2>5, <3>1, LastHashType DEF InsertLocked
        <3> QED
            BY <2>5, <3>2 DEF InsertLocked, TypeOK
    <2>6. ASSUME NEW w \in Workers, ExportInsert(w)
          PROVE  TypeOK'
        <3>1. Len(log) + 1 <= MaxEvents
            BY <2>0, <2>6, ConstantsAssumption DEF ExportInsert
        <3>2. log' \in Seq(Row) /\ DOMAIN log \subseteq DOMAIN log'
            BY <2>2, <2>6, <3>1, HandlerFields DEF ExportInsert
        <3> QED
            BY <2>3, <2>6, <3>2 DEF ExportInsert, Goto, TypeOK
    <2>7. ASSUME NEW w \in Workers, HandlerFails(w) \/ ExportReadEvents(w)
          PROVE  TypeOK'
        BY <2>3, <2>7 DEF HandlerFails, ExportReadEvents, Goto, TypeOK
    <2>8. ASSUME NEW w \in Workers, ExportReadChain(w)
          PROVE  TypeOK'
        <3>1. [step |-> "export_events", checked |-> log] \in HandlerState
            BY DEF HandlerState, TypeOK
        <3> QED
            BY <2>8, <3>1 DEF ExportReadChain, Goto, TypeOK
    <2>9. ASSUME Edits
          PROVE  edits' \in 0..MaxEdits /\ handlers' = handlers
        BY <2>9, ConstantsAssumption DEF Edits, TypeOK
    <2>10. ASSUME NEW i \in DOMAIN log, NEW v \in Values, Edit(i, v) \/ EditUncovered(i, v)
           PROVE  TypeOK'
        <3>1. RowEdited(i) /\ rewritten' = rewritten
            BY <2>10, EditRow
        <3> QED
            BY <2>9, <2>10, <3>1 DEF Edit, EditUncovered, RowEdited, TypeOK
    <2>11. ASSUME NEW i \in DOMAIN log, NEW prev \in KnownHashes, EditHashes(i, prev)
           PROVE  TypeOK'
        <3>1. RowEdited(i) /\ rewritten' = rewritten \cup {i}
            BY <2>11, EditHashesRow
        <3> QED
            BY <2>9, <2>11, <3>1 DEF EditHashes, RowEdited, TypeOK
    <2>12. CASE UNCHANGED vars
        BY <2>12 DEF vars, TypeOK
    <2> QED
        BY <2>1, <2>4, <2>5, <2>6, <2>7, <2>8, <2>10, <2>11, <2>12 DEF Next
<1> QED
    BY <1>1, <1>2, PTL DEF Spec

----------------------------------------------------------------------------
(***************************************************************************)
(* The invariant of the chain.                                             *)
(***************************************************************************)

\* Every row keeps its event, and the stored hash of what was logged unless the hash
\* columns themselves were edited.
AsLogged ==
    \A i \in DOMAIN log :
        /\ log[i].content.event = i
        /\ i \notin rewritten => log[i].hash = Append(log[i].prev, Original(i))

\* What a thread has read is the hash of a row that is still there, unless hash columns
\* were edited.
ReadsCommitted ==
    rewritten = {} =>
        \A w \in Workers : At(w, "insert") => handlers[w].prev \in KnownHashes

ChainInv == TypeOK /\ AsLogged /\ ReadsCommitted /\ ExtendsCommitted

\* The last hash is the hash of a row.
LEMMA LastHashCommitted ==
    ASSUME TypeOK
    PROVE  LastHash \in KnownHashes
<1>1. CASE log = <<>>
    BY <1>1 DEF LastHash, KnownHashes
<1>2. CASE log # <<>>
    <2>1. Len(log) \in DOMAIN log
        BY <1>2 DEF TypeOK
    <2> QED
        BY <1>2, <2>1 DEF LastHash, KnownHashes
<1> QED
    BY <1>1, <1>2

\* Logging one or two events after a committed one keeps the chain, and every hash.
LEMMA LoggingKeepsChain ==
    ASSUME ChainInv, NEW n \in 1..2, NEW prev \in Hash,
           rewritten = {} => prev \in KnownHashes, rewritten' = rewritten,
           Len(log) + n <= MaxEvents, log' = log \o NewRows(n, prev)
    PROVE  /\ AsLogged' /\ ExtendsCommitted'
           /\ KnownHashes \subseteq KnownHashes'
<1> DEFINE k == Len(log) + 1
           first == NewRow(k, prev)
           second == NewRow(k + 1, first.hash)
<1>1. TypeOK /\ log \in Seq(Row) /\ Len(log) \in Nat /\ DOMAIN log = 1..Len(log)
    BY DEF ChainInv, TypeOK
<1>2. k \in 1..MaxEvents
    BY <1>1, ConstantsAssumption
<1>3. /\ log' \in Seq(Row)
      /\ n = 1 => GrowsBy(first)
      /\ n = 2 => GrowsByTwo(prev)
    BY <1>1, NewRowsGrow
<1>4. /\ first.prev = prev /\ first.content.event = k
      /\ first.hash = Append(prev, Original(k))
      /\ first.hash \in Hash
    <2>1. first \in Row /\ first.content = Original(k) /\ first.prev = prev
          /\ first.hash = Append(prev, Original(k))
        BY <1>2, NewRowType
    <2>2. Original(k).event = k
        BY DEF Original
    <2> HIDE DEF first, k
    <2> QED
        BY <2>1, <2>2 DEF Row
<1>5. n = 2 => /\ second.prev = first.hash /\ second.content.event = k + 1
               /\ second.hash = Append(first.hash, Original(k + 1))
    <2>1. n = 2 => k + 1 \in 1..MaxEvents
        BY <1>1, ConstantsAssumption
    <2>2. Original(k + 1).event = k + 1
        BY DEF Original
    <2>3. ASSUME n = 2
          PROVE  /\ second.content = Original(k + 1) /\ second.prev = first.hash
                 /\ second.hash = Append(first.hash, Original(k + 1))
        BY <2>1, <2>3, <1>4, NewRowType
    <2> HIDE DEF first, second, k
    <2> QED
        BY <2>2, <2>3
<1> HIDE DEF first, second
<1>6. \A i \in DOMAIN log : i \in DOMAIN log' /\ log'[i] = log[i]
    BY <1>1, <1>3 DEF GrowsBy, GrowsByTwo
<1>7. /\ k \in DOMAIN log' /\ log'[k] = first
      /\ n = 1 => DOMAIN log' = 1..k
      /\ n = 2 => DOMAIN log' = 1..(k + 1) /\ log'[k + 1] = second
    <2>1. CASE n = 1
        BY <2>1, <1>1, <1>3 DEF GrowsBy
    <2>2. CASE n = 2
        <3>1. log'[k] = first /\ Len(log') = k + 1
            BY <2>2, <1>1, <1>3 DEF GrowsByTwo, first
        <3>2. Len(log) + 2 = k + 1
            BY <1>1
        <3>3. log'[k + 1] = second
            BY <2>2, <1>3, <3>1, <3>2 DEF GrowsByTwo, second
        <3> QED
            BY <2>2, <1>1, <1>3, <3>1, <3>3
    <2> QED
        BY <2>1, <2>2
<1>8. AsLogged'
    <2> SUFFICES ASSUME NEW i \in DOMAIN log'
                 PROVE  /\ log'[i].content.event = i
                        /\ i \notin rewritten => log'[i].hash = Append(log'[i].prev, Original(i))
        BY DEF AsLogged
    <2>1. CASE i \in DOMAIN log
        BY <2>1, <1>6 DEF ChainInv, AsLogged
    <2>2. CASE i = k
        BY <2>2, <1>4, <1>7
    <2>3. CASE n = 2 /\ i = k + 1
        BY <2>3, <1>5, <1>7
    <2> QED
        BY <2>1, <2>2, <2>3, <1>1, <1>7
<1>9. ExtendsCommitted'
    <2> SUFFICES ASSUME rewritten = {}, NEW i \in DOMAIN log', log'[i].prev # NoHash
                 PROVE  \E j \in 1..(i - 1) : log'[j].hash = log'[i].prev
        BY DEF ExtendsCommitted
    <2>1. CASE i \in DOMAIN log
        <3>1. PICK j \in 1..(i - 1) : log[j].hash = log[i].prev
            BY <2>1, <1>6 DEF ChainInv, ExtendsCommitted
        <3>2. j \in DOMAIN log
            BY <2>1, <3>1, <1>1
        <3> QED
            BY <2>1, <3>1, <3>2, <1>6
    <2>2. CASE i = k
        <3>1. log'[i].prev = prev
            BY <2>2, <1>4, <1>7
        <3>2. PICK j \in DOMAIN log : log[j].hash = prev
            BY <3>1 DEF KnownHashes
        <3>3. j \in 1..(i - 1)
            BY <2>2, <3>2, <1>1
        <3> QED
            BY <3>1, <3>2, <3>3, <1>6
    <2>3. CASE n = 2 /\ i = k + 1
        <3>1. k \in 1..(i - 1)
            BY <2>3, <1>1
        <3>2. log'[k].hash = log'[i].prev
            BY <2>3, <1>5, <1>7
        <3> QED
            BY <3>1, <3>2
    <2> QED
        BY <2>1, <2>2, <2>3, <1>1, <1>7
<1>10. KnownHashes \subseteq KnownHashes'
    BY <1>6 DEF KnownHashes
<1> QED
    BY <1>8, <1>9, <1>10

\* An edit that is not of the hash columns leaves the stored hashes alone.
LEMMA EditKeepsChain ==
    ASSUME ChainInv, NEW i \in DOMAIN log, NEW v \in Values, Edit(i, v) \/ EditUncovered(i, v)
    PROVE  /\ AsLogged' /\ ExtendsCommitted'
           /\ KnownHashes' = KnownHashes
<1>1. TypeOK /\ DOMAIN log = 1..Len(log) /\ Len(log) \in Nat
    BY DEF ChainInv, TypeOK
<1>2. /\ DOMAIN log' = DOMAIN log
      /\ rewritten' = rewritten
      /\ \A j \in DOMAIN log : /\ log'[j].prev = log[j].prev
                               /\ log'[j].hash = log[j].hash
                               /\ log'[j].content.event = log[j].content.event
    BY <1>1, EditRow DEF RowEdited
<1>3. AsLogged'
    BY <1>2 DEF ChainInv, AsLogged
<1>4. ExtendsCommitted'
    <2> SUFFICES ASSUME rewritten = {}, NEW m \in DOMAIN log, log[m].prev # NoHash
                 PROVE  \E j \in 1..(m - 1) : log'[j].hash = log'[m].prev
        BY <1>2 DEF ExtendsCommitted
    <2>1. PICK j \in 1..(m - 1) : log[j].hash = log[m].prev
        BY DEF ChainInv, ExtendsCommitted
    <2>2. j \in DOMAIN log
        BY <1>1, <2>1
    <2> QED
        BY <1>2, <2>1, <2>2
<1>5. KnownHashes' = KnownHashes
    BY <1>2 DEF KnownHashes
<1> QED
    BY <1>3, <1>4, <1>5

\* The chain's invariant holds in every reachable state: no interleaving of handlers and
\* failures makes a thread chain its event to a hash that no row stores, and only an
\* edit of the hash columns parts a row from the hash of what was logged.
THEOREM ChainInvariant == Spec => []ChainInv
<1>1. Init => ChainInv
    BY ConstantsAssumption DEF Init, ChainInv, TypeOK, HandlerState, AsLogged, ReadsCommitted,
           ExtendsCommitted, At, Idle
<1>2. ChainInv /\ TypeOK' /\ [Next]_vars => ChainInv'
    <2> SUFFICES ASSUME ChainInv, TypeOK', [Next]_vars
                 PROVE  ChainInv'
        OBVIOUS
    <2>0. TypeOK /\ ReadsCommitted /\ Len(log) \in Nat
        BY DEF ChainInv, TypeOK
    <2>1. ASSUME NEW n \in 1..2, NEW prev \in Hash, rewritten = {} => prev \in KnownHashes,
                 rewritten' = rewritten,
                 Len(log) + n <= MaxEvents, log' = log \o NewRows(n, prev),
                 \A v \in Workers : At(v, "insert")' => handlers'[v] = handlers[v]
          PROVE  ChainInv'
        <3>1. AsLogged' /\ ExtendsCommitted' /\ KnownHashes \subseteq KnownHashes'
            BY <2>1, LoggingKeepsChain
        <3>2. ReadsCommitted'
            BY <2>0, <2>1, <3>1 DEF At, ReadsCommitted
        <3> QED
            BY <3>1, <3>2 DEF ChainInv
    <2>2. ASSUME UNCHANGED <<log, rewritten>>
          PROVE  AsLogged' /\ ExtendsCommitted' /\ KnownHashes' = KnownHashes
        BY <2>2 DEF ChainInv, AsLogged, ExtendsCommitted, KnownHashes
    <2>3. ASSUME NEW w \in Workers, NEW state, state.step # "insert", Goto(w, state)
          PROVE  \A v \in Workers : At(v, "insert")' => handlers'[v] = handlers[v]
        BY <2>0, <2>3 DEF Goto, At, TypeOK
    <2>4. Idle.step # "insert"
        BY DEF Idle
    <2>5. ASSUME NEW w \in Workers, ReadLast(w)
          PROVE  ChainInv'
        <3>1. AsLogged' /\ ExtendsCommitted' /\ KnownHashes' = KnownHashes
            BY <2>2, <2>5 DEF ReadLast
        <3>2. /\ handlers' = [handlers EXCEPT ![w] = [step |-> "insert", prev |-> LastHash]]
              /\ rewritten' = rewritten
            BY <2>5 DEF ReadLast, Goto
        <3>3. ReadsCommitted'
            BY <2>0, <3>1, <3>2, LastHashCommitted DEF ReadsCommitted, At, TypeOK
        <3> QED
            BY <3>1, <3>3 DEF ChainInv
    <2>6. ASSUME NEW w \in Workers, NEW n \in 1..2, Insert(w, n)
          PROVE  ChainInv'
        <3>1. handlers[w].prev \in Hash /\ (rewritten = {} => handlers[w].prev \in KnownHashes)
            BY <2>0, <2>6, HandlerFields DEF Insert, ReadsCommitted
        <3>2. \A v \in Workers : At(v, "insert")' => handlers'[v] = handlers[v]
            BY <2>3, <2>4, <2>6 DEF Insert
        <3> QED
            BY <2>1, <2>6, <3>1, <3>2 DEF Insert
    <2>7. ASSUME NEW w \in Workers, ExportInsert(w)
          PROVE  ChainInv'
        <3>1. handlers[w].prev \in Hash /\ (rewritten = {} => handlers[w].prev \in KnownHashes)
            BY <2>0, <2>7, HandlerFields DEF ExportInsert, ReadsCommitted
        <3>2. Len(log) + 1 <= MaxEvents
            BY <2>0, <2>7, ConstantsAssumption DEF ExportInsert
        <3>3. [step |-> "export_chain"].step # "insert"
            OBVIOUS
        <3>4. \A v \in Workers : At(v, "insert")' => handlers'[v] = handlers[v]
            BY <2>3, <2>7, <3>3 DEF ExportInsert
        <3> QED
            BY <2>1, <2>7, <3>1, <3>2, <3>4 DEF ExportInsert
    <2>8. ASSUME NEW w \in Workers, InsertLocked(w)
          PROVE  ChainInv'
        <3>1. Len(log) + 1 <= MaxEvents
            BY <2>0, <2>8, ConstantsAssumption DEF InsertLocked
        <3> QED
            BY <2>0, <2>1, <2>8, <3>1, LastHashType, LastHashCommitted DEF InsertLocked, At
    <2>9. ASSUME NEW w \in Workers, HandlerFails(w) \/ ExportReadChain(w) \/ ExportReadEvents(w)
          PROVE  ChainInv'
        <3>1. UNCHANGED <<log, rewritten>>
            BY <2>9 DEF HandlerFails, ExportReadChain, ExportReadEvents
        <3>2. \A v \in Workers : At(v, "insert")' => handlers'[v] = handlers[v]
            <4>1. [step |-> "export_events", checked |-> log].step # "insert"
                OBVIOUS
            <4> QED
                BY <2>3, <2>4, <2>9, <4>1 DEF HandlerFails, ExportReadChain, ExportReadEvents
        <3>3. AsLogged' /\ ExtendsCommitted' /\ KnownHashes' = KnownHashes
            BY <2>2, <3>1
        <3>4. ReadsCommitted'
            BY <2>0, <3>1, <3>2, <3>3 DEF At, ReadsCommitted
        <3> QED
            BY <3>3, <3>4 DEF ChainInv
    <2>10. ASSUME NEW i \in DOMAIN log, NEW v \in Values, Edit(i, v) \/ EditUncovered(i, v)
           PROVE  ChainInv'
        <3>1. AsLogged' /\ ExtendsCommitted' /\ KnownHashes' = KnownHashes
            BY <2>10, EditKeepsChain
        <3>2. UNCHANGED <<handlers, rewritten>>
            BY <2>10 DEF Edit, EditUncovered, Edits
        <3>3. ReadsCommitted'
            BY <2>0, <3>1, <3>2 DEF At, ReadsCommitted
        <3> QED
            BY <3>1, <3>3 DEF ChainInv
    <2>11. ASSUME NEW i \in DOMAIN log, NEW prev \in KnownHashes, EditHashes(i, prev)
           PROVE  ChainInv'
        <3>1. RowEdited(i) /\ rewritten' = rewritten \cup {i}
            BY <2>0, <2>11, EditHashesRow
        <3>2. AsLogged'
            BY <3>1 DEF ChainInv, AsLogged, RowEdited
        <3> QED
            BY <3>1, <3>2 DEF ChainInv, ReadsCommitted, ExtendsCommitted
    <2>12. CASE UNCHANGED vars
        BY <2>12 DEF vars, ChainInv, TypeOK, AsLogged, ReadsCommitted, ExtendsCommitted,
                     KnownHashes, At
    <2> QED
        BY <2>5, <2>6, <2>7, <2>8, <2>9, <2>10, <2>11, <2>12 DEF Next
<1> QED
    BY <1>1, <1>2, TypeCorrect, PTL DEF Spec

\* An event extends a committed event, never one that was rolled back.
THEOREM ChainsToCommitted == Spec => []ExtendsCommitted
<1>1. ChainInv => ExtendsCommitted
    BY DEF ChainInv
<1> QED
    BY <1>1, ChainInvariant, PTL

----------------------------------------------------------------------------
(***************************************************************************)
(* verify-chain.                                                           *)
(***************************************************************************)

\* A set of numbers that is not empty has a least one.
LEMMA LeastNumber ==
    ASSUME NEW S \in SUBSET Nat, S # {}
    PROVE  Min(S) \in S /\ \A y \in S : Min(S) <= y
<1> DEFINE below == {p \in Nat \X Nat : p[1] < p[2]}
<1>1. IsWellFoundedOn(below, Nat)
    BY NatLessThanWellFounded DEF OpToRel
<1>2. PICK x \in S : \A y \in S : ~(<<y, x>> \in below)
    <2> HIDE DEF below
    <2> QED
        BY <1>1, WFMin
<1>3. \A y \in S : x <= y
    <2> SUFFICES ASSUME NEW y \in S
                 PROVE  x <= y
        OBVIOUS
    <2>1. x \in Nat /\ y \in Nat /\ <<y, x>> \notin below
        BY <1>2
    <2> QED
        BY <2>1
<1> QED
    BY <1>3 DEF Min

\* brokenAt is the first break.
LEMMA BrokenAtFirst ==
    ASSUME NEW l \in Seq(Row)
    PROVE  /\ Breaks(l) = {} => BrokenAt(l) = 0
           /\ Breaks(l) # {} => /\ BrokenAt(l) \in Breaks(l)
                               /\ BrokenAt(l) \in Nat \ {0}
                               /\ \A i \in Breaks(l) : BrokenAt(l) <= i
<1>1. Breaks(l) \subseteq 1..Len(l) /\ Len(l) \in Nat
    BY DEF Breaks
<1>2. Breaks(l) \in SUBSET Nat
    BY <1>1
<1>3. Breaks(l) # {} => /\ Min(Breaks(l)) \in Breaks(l)
                        /\ \A i \in Breaks(l) : Min(Breaks(l)) <= i
    BY <1>2, LeastNumber
<1> QED
    BY <1>1, <1>3 DEF BrokenAt

\* A break bounds brokenAt.
LEMMA BreakIsFound ==
    ASSUME NEW l \in Seq(Row), NEW i \in Breaks(l)
    PROVE  BrokenAt(l) \in 1..i
<1>1. i \in Nat
    BY DEF Breaks
<1>2. BrokenAt(l) \in Nat \ {0} /\ BrokenAt(l) <= i
    BY BrokenAtFirst
<1> QED
    BY <1>1, <1>2

\* A set that has 0 and the successor of each of its numbers has them all.
LEMMA InductiveSet ==
    ASSUME NEW S, 0 \in S, \A n \in Nat : n \in S => n + 1 \in S
    PROVE  \A n \in Nat : n \in S
<1> SUFFICES ASSUME Nat \ S # {} PROVE FALSE
    OBVIOUS
<1> DEFINE missing == Nat \ S
           m == Min(missing)
<1>1. missing \in SUBSET Nat /\ missing # {}
    OBVIOUS
<1> HIDE DEF missing
<1>2. m \in missing /\ \A y \in missing : m <= y
    BY <1>1, LeastNumber
<1> HIDE DEF m
<1>3. m \in Nat /\ m # 0
    BY <1>2 DEF missing
<1>4. m - 1 \in Nat /\ m - 1 \notin missing
    BY <1>2, <1>3
<1>5. (m - 1) + 1 \in S
    BY <1>4 DEF missing
<1> QED
    BY <1>2, <1>3, <1>5 DEF missing

\* Up to the first break, a hash is computed over the rows' own contents, in order.
LEMMA LinkedHashes ==
    ASSUME NEW l \in Seq(Row), NEW k \in DOMAIN l, \A j \in 1..k : Linked(l, j)
    PROVE  \A m \in DOMAIN l[k].hash : m \in 1..k /\ l[k].hash[m] = l[m].content
<1> DEFINE Holds(n) == /\ Len(l[n].hash) = n
                       /\ \A m \in 1..n : l[n].hash[m] = l[m].content
           S == {n \in Nat : n \in 1..k => Holds(n)}
<1>1. k \in Nat /\ \A n \in 1..k : n \in DOMAIN l
    OBVIOUS
<1>2. \A n \in 1..k : l[n].hash \in Seq(Content) /\ l[n].content \in Content
    <2>1. \A n \in 1..k : l[n] \in Row
        BY <1>1
    <2> QED
        BY <2>1 DEF Row, Hash
<1>3. 0 \in S
    OBVIOUS
<1>4. ASSUME NEW n \in Nat, n \in S
      PROVE  n + 1 \in S
    <2> SUFFICES ASSUME n + 1 \in 1..k PROVE Holds(n + 1)
        OBVIOUS
    <2> DEFINE before == Predecessor(l, n + 1)
    <2>1. before \in Seq(Content) /\ Len(before) = n /\ \A m \in 1..n : before[m] = l[m].content
        <3>1. CASE n = 0
            <4>1. before = <<>>
                BY <3>1 DEF Predecessor, NoHash
            <4>2. 1..n = {}
                BY <3>1
            <4> HIDE DEF before
            <4> QED
                BY <3>1, <4>1, <4>2
        <3>2. CASE n # 0
            <4>1. n \in 1..k /\ before = l[n].hash
                BY <1>1, <3>2 DEF Predecessor
            <4>2. Holds(n)
                BY <1>4, <4>1
            <4> QED
                BY <1>2, <4>1, <4>2
        <3> QED
            BY <3>1, <3>2
    <2>2. l[n + 1].hash = Append(before, l[n + 1].content)
        BY DEF Linked, ComputeHash
    <2> HIDE DEF before
    <2>3. l[n + 1].content \in Content
        BY <1>2
    <2> QED
        BY <2>1, <2>2, <2>3
<1> HIDE DEF S
<1>5. k \in S
    BY <1>1, <1>3, <1>4, InductiveSet
<1>6. Holds(k)
    <2>1. k \in 1..k
        BY <1>1
    <2> QED
        BY <1>5, <2>1 DEF S
<1>7. DOMAIN l[k].hash = 1..k
    BY <1>1, <1>2, <1>6
<1> QED
    BY <1>6, <1>7

\* A hash over what was logged, stored at an edited row or after it, gives the edit away.
LEMMA EditIsFound ==
    ASSUME NEW l \in Seq(Row), \A j \in DOMAIN l : l[j].content.event = j,
           NEW i \in DOMAIN l, l[i].content # Original(i),
           NEW k \in i..Len(l), Covers(l[k].hash, Original(i))
    PROVE  BrokenAt(l) \in 1..k
<1>1. k \in DOMAIN l /\ DOMAIN l = 1..Len(l) /\ Len(l) \in Nat
    OBVIOUS
<1>2. PICK m \in DOMAIN l[k].hash : l[k].hash[m] = Original(i)
    BY DEF Covers
<1>3. \E j \in 1..k : ~Linked(l, j)
    <2> SUFFICES ASSUME \A j \in 1..k : Linked(l, j) PROVE FALSE
        OBVIOUS
    <2>1. m \in 1..k /\ l[m].content = Original(i)
        BY <1>1, <1>2, LinkedHashes
    <2>2. m \in DOMAIN l
        BY <1>1, <2>1
    <2>3. m = i
        BY <2>1, <2>2 DEF Original
    <2> QED
        BY <2>1, <2>3
<1>4. PICK j \in 1..k : j \in Breaks(l)
    BY <1>1, <1>3 DEF Breaks
<1>5. BrokenAt(l) \in 1..j
    BY <1>4, BreakIsFound
<1> QED
    BY <1>1, <1>4, <1>5

\* verify-chain reports every edit of a covered column whose row, or any later one, still
\* has a hash over what was logged, for a log of any length, any interleaving of the
\* handlers that wrote it and any other edits.
THEOREM EveryEditIsReported == Spec => []EditIsReported
<1>1. ChainInv => EditIsReported
    <2> SUFFICES ASSUME ChainInv, NEW i \in Edited
                 PROVE  /\ i \notin rewritten => BrokenAt(log) \in 1..i
                        /\ \A k \in i..Len(log) :
                              Covers(log[k].hash, Original(i)) => BrokenAt(log) \in 1..k
        BY DEF EditIsReported
    <2>1. /\ log \in Seq(Row) /\ \A j \in DOMAIN log : log[j].content.event = j
          /\ i \in DOMAIN log /\ log[i].content # Original(i)
        BY DEF ChainInv, TypeOK, AsLogged, Edited
    <2>2. \A k \in i..Len(log) : Covers(log[k].hash, Original(i)) => BrokenAt(log) \in 1..k
        BY <2>1, EditIsFound
    <2>3. ASSUME i \notin rewritten
          PROVE  Covers(log[i].hash, Original(i))
        <3>1. log[i] \in Row
            BY <2>1
        <3>2. log[i].prev \in Seq(Content) /\ Original(i) \in Content
            BY <2>1, <3>1, ConstantsAssumption DEF Row, Hash, Original, Content
        <3>3. log[i].hash = Append(log[i].prev, Original(i))
            BY <2>1, <2>3 DEF ChainInv, AsLogged
        <3> DEFINE c == Original(i)
                   q == log[i].prev
        <3> HIDE DEF c, q
        <3>4. /\ Len(q) + 1 \in DOMAIN Append(q, c)
              /\ Append(q, c)[Len(q) + 1] = c
            BY <3>2 DEF c, q
        <3> QED
            BY <3>3, <3>4 DEF Covers, c, q
    <2>4. i \in i..Len(log)
        BY <2>1
    <2> QED
        BY <2>2, <2>3, <2>4
<1> QED
    BY <1>1, ChainInvariant, PTL

\* A chain that shows no edit is broken only where two events extend the same one.
THEOREM BreaksHaveCause == Spec => []BreakHasCause
<1>1. ChainInv => BreakHasCause
    <2> SUFFICES ASSUME ChainInv, BrokenAt(log) # 0, Edited = {}, rewritten = {}
                 PROVE  \E i, j \in DOMAIN log : i # j /\ log[i].prev = log[j].prev
        BY DEF BreakHasCause
    <2> DEFINE b == BrokenAt(log)
    <2>1. TypeOK /\ log \in Seq(Row) /\ DOMAIN log = 1..Len(log) /\ Len(log) \in Nat
        BY DEF ChainInv, TypeOK
    <2>2. b \in Breaks(log) /\ \A i \in Breaks(log) : b <= i
        BY <2>1, BrokenAtFirst
    <2> HIDE DEF b
    <2>3. b \in DOMAIN log /\ ~Linked(log, b)
        BY <2>2 DEF Breaks
    <2>4. \A i \in 1..(b - 1) : i \in DOMAIN log /\ Linked(log, i)
        BY <2>1, <2>2, <2>3 DEF Breaks
    <2>5. log[b].content = Original(b)
        BY <2>3 DEF Edited
    <2>6. log[b].hash = ComputeHash(log[b].content, log[b].prev)
        BY <2>3, <2>5 DEF ChainInv, AsLogged, ComputeHash
    <2>7. log[b].prev # Predecessor(log, b)
        BY <2>3, <2>6 DEF Linked
    <2>8. log[b].prev = NoHash \/ \E j \in 1..(b - 1) : log[j].hash = log[b].prev
        BY <2>3 DEF ChainInv, ExtendsCommitted
    <2>9. b # 1
        BY <2>7, <2>8 DEF Predecessor
    <2>10. CASE log[b].prev = NoHash
        <3>1. 1 \in DOMAIN log /\ log[1].prev = NoHash
            BY <2>1, <2>3, <2>4, <2>9 DEF Linked, Predecessor
        <3> QED
            BY <2>3, <2>9, <2>10, <3>1
    <2>11. ASSUME NEW j \in 1..(b - 1), log[j].hash = log[b].prev
           PROVE  \E i, m \in DOMAIN log : i # m /\ log[i].prev = log[m].prev
        <3>1. j # b - 1
            BY <2>7, <2>9, <2>11 DEF Predecessor
        <3>2. b \in Nat
            BY <2>1, <2>3
        <3>3. j + 1 \in 1..(b - 1) /\ j + 1 # 1 /\ (j + 1) - 1 = j /\ j + 1 # b
            BY <3>1, <3>2
        <3>4. log[j + 1].prev = log[b].prev
            BY <2>4, <2>11, <3>3 DEF Linked, Predecessor
        <3> QED
            BY <2>3, <2>4, <3>3, <3>4
    <2> QED
        BY <2>8, <2>10, <2>11
<1> QED
    BY <1>1, ChainInvariant, PTL

\* The rows that are logged are added to those that are there.
LEMMA LogGrows ==
    ASSUME TypeOK, Next
    PROVE  \/ \A i \in DOMAIN log : i \in DOMAIN log' /\ log'[i] = log[i]
           \/ edits' # edits /\ DOMAIN log' = DOMAIN log
<1>0. Len(log) \in Nat /\ DOMAIN log = 1..Len(log)
    BY DEF TypeOK
<1>1. ASSUME NEW n \in 1..2, NEW prev \in Hash, Len(log) + n <= MaxEvents,
             log' = log \o NewRows(n, prev)
      PROVE  \A i \in DOMAIN log : i \in DOMAIN log' /\ log'[i] = log[i]
    BY <1>0, <1>1, NewRowsGrow DEF GrowsBy, GrowsByTwo
<1>2. ASSUME NEW w \in Workers, NEW n \in 1..2, Insert(w, n)
      PROVE  \A i \in DOMAIN log : i \in DOMAIN log' /\ log'[i] = log[i]
    BY <1>1, <1>2, HandlerFields DEF Insert
<1>3. ASSUME NEW w \in Workers, ExportInsert(w) \/ InsertLocked(w)
      PROVE  \A i \in DOMAIN log : i \in DOMAIN log' /\ log'[i] = log[i]
    <2>1. Len(log) + 1 <= MaxEvents
        BY <1>0, <1>3, ConstantsAssumption DEF ExportInsert, InsertLocked
    <2> QED
        BY <1>1, <1>3, <2>1, HandlerFields, LastHashType DEF ExportInsert, InsertLocked
<1>4. ASSUME Edits PROVE edits' # edits
    BY <1>4 DEF Edits, TypeOK
<1>5. ASSUME NEW i \in DOMAIN log, NEW v \in Values, Edit(i, v) \/ EditUncovered(i, v)
      PROVE  edits' # edits /\ DOMAIN log' = DOMAIN log
    BY <1>4, <1>5, EditRow DEF Edit, EditUncovered, RowEdited
<1>6. ASSUME NEW i \in DOMAIN log, NEW prev \in KnownHashes, EditHashes(i, prev)
      PROVE  edits' # edits /\ DOMAIN log' = DOMAIN log
    BY <1>4, <1>6, EditHashesRow DEF EditHashes, RowEdited
<1>7. ASSUME UNCHANGED log
      PROVE  \A i \in DOMAIN log : i \in DOMAIN log' /\ log'[i] = log[i]
    BY <1>7
<1> QED
    BY <1>2, <1>3, <1>5, <1>6, <1>7
    DEF Next, ReadLast, HandlerFails, ExportReadChain, ExportReadEvents

\* Once broken, the chain stays broken, at that event or an earlier one, until the broken
\* row or the hash before it is edited: logging never mends it.
THEOREM BrokenStaysBroken == Spec => BreakIsPermanent
<1>1. TypeOK /\ TypeOK' /\ [Next]_vars =>
          [LET b == BrokenAt(log) IN
           b # 0 =>
               \/ BrokenAt(log') \in 1..b
               \/ /\ edits' # edits
                  /\ log'[b] # log[b] \/ (b > 1 /\ log'[b - 1].hash # log[b - 1].hash)]_vars
    <2> SUFFICES ASSUME TypeOK, TypeOK', Next, NEW b, b = BrokenAt(log), b # 0,
                        \/ edits' = edits
                        \/ /\ log'[b] = log[b]
                           /\ b > 1 => log'[b - 1].hash = log[b - 1].hash
                 PROVE  BrokenAt(log') \in 1..b
        OBVIOUS
    <2>1. log \in Seq(Row) /\ log' \in Seq(Row)
        BY DEF TypeOK
    <2>2. b \in Breaks(log)
        BY <2>1, BrokenAtFirst
    <2>3. /\ b \in DOMAIN log /\ ~Linked(log, b)
          /\ b \in Nat \ {0}
          /\ b # 1 => b > 1 /\ b - 1 \in DOMAIN log
        BY <2>1, <2>2 DEF Breaks
    <2>4. /\ b \in DOMAIN log' /\ log'[b] = log[b]
          /\ b # 1 => log'[b - 1].hash = log[b - 1].hash
        BY <2>3, LogGrows
    <2>5. Predecessor(log', b) = Predecessor(log, b)
        BY <2>4 DEF Predecessor
    <2>6. b \in Breaks(log')
        BY <2>3, <2>4, <2>5 DEF Breaks, Linked
    <2> QED
        BY <2>1, <2>6, BreakIsFound
<1> QED
    BY <1>1, TypeCorrect, PTL DEF Spec, BreakIsPermanent

----------------------------------------------------------------------------
(***************************************************************************)
(* The report.                                                             *)
(***************************************************************************)

\* What an export has checked was a log: its rows are those of their events.
CheckedNumbered ==
    \A w \in Workers : At(w, "export_events") =>
        \A i \in DOMAIN handlers[w].checked : handlers[w].checked[i].content.event = i

\* A report that finds the chain valid shows no edit of a covered column, unless the
\* hashes it shows from there on were rewritten, however many events are logged and
\* edited while it is made.
THEOREM ReportIsCoherent == Spec => []ExportShowsChecked
<1>1. Init => CheckedNumbered
    BY DEF Init, CheckedNumbered, At, Idle
<1>2. ChainInv /\ CheckedNumbered /\ [Next]_vars => CheckedNumbered'
    <2> SUFFICES ASSUME TypeOK, AsLogged, CheckedNumbered, [Next]_vars,
                        NEW x \in Workers, At(x, "export_events")',
                        NEW i \in DOMAIN handlers'[x].checked
                 PROVE  handlers'[x].checked[i].content.event = i
        BY DEF CheckedNumbered, ChainInv
    <2>1. CASE handlers'[x] = handlers[x]
        BY <2>1 DEF CheckedNumbered, At
    <2>2. ASSUME NEW w \in Workers, ExportReadChain(w), handlers'[x] # handlers[x]
          PROVE  handlers'[x].checked[i].content.event = i
        <3>1. handlers'[x] = [step |-> "export_events", checked |-> log]
            BY <2>2 DEF ExportReadChain, Goto, TypeOK
        <3>2. handlers'[x].checked = log /\ i \in DOMAIN log
            BY <3>1
        <3> QED
            BY <3>2 DEF AsLogged
    <2>3. ASSUME NEW w \in Workers, NEW state,
                 state.step # "export_events", Goto(w, state)
          PROVE  handlers'[x] = handlers[x]
        BY <2>3 DEF Goto, At, TypeOK
    <2>4. ASSUME UNCHANGED handlers
          PROVE  handlers'[x] = handlers[x]
        BY <2>4
    <2>5. Idle.step # "export_events"
        BY DEF Idle
    <2> QED
        BY <2>1, <2>2, <2>3, <2>4, <2>5
        DEF Next, vars, ReadLast, Insert, InsertLocked, HandlerFails, ExportInsert,
            ExportReadEvents, Edit, EditUncovered, EditHashes, Edits
<1>3. TypeOK /\ CheckedNumbered => ExportShowsChecked
    <2> SUFFICES ASSUME TypeOK, CheckedNumbered, NEW w \in Workers, At(w, "export_events"),
                        NEW checked, checked = handlers[w].checked,
                        BrokenAt(checked) = 0, NEW i \in DOMAIN checked,
                        NEW k \in i..Len(checked),
                        Covers(Shown(checked, k).hash, Original(i)),
                        Shown(checked, i).content # Original(i)
                 PROVE  FALSE
        BY DEF ExportShowsChecked
    <2>1. checked \in Seq(Row) /\ \A j \in DOMAIN checked : checked[j].content.event = j
        BY HandlerFields DEF CheckedNumbered
    <2>2. k \in DOMAIN checked
        BY <2>1
    <2>3. Shown(checked, k) = checked[k] /\ Shown(checked, i) = checked[i]
        BY <2>2 DEF Shown
    <2>4. BrokenAt(checked) \in 1..k
        BY <2>1, <2>3, EditIsFound
    <2> QED
        BY <2>4
<1> QED
    BY <1>1, <1>2, <1>3, ChainInvariant, TypeCorrect, PTL DEF Spec
=============================================================================
