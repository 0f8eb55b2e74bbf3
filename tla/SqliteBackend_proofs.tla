------------------------- MODULE SqliteBackend_proofs -------------------------
(***************************************************************************)
(* Proofs about SqliteBackend, for every set of sessions, names, spellings *)
(* and attributes: no failure leaves a transaction open, the committed     *)
(* tables are consistent, and the calls of the sessions behave as those of *)
(* the abstract Backend do.                                                *)
(***************************************************************************)
EXTENDS SqliteBackend, TLAPS

-----------------------------------------------------------------------------
(* What the statements do to the tables.                                   *)

\* The rows that writeAttributes inserts are rows of the entry.
LEMMA NewRows ==
  ASSUME NEW d \in Dns, NEW a \in Attrs
  PROVE  newRows(d, a) \subseteq Row /\ \A r \in newRows(d, a) : r.dn = d
<1> SUFFICES ASSUME NEW r \in newRows(d, a) PROVE r \in Row /\ r.dn = d
  OBVIOUS
<1>1. PICK u \in DOMAIN a : r \in {[dn |-> d, type |-> u, pos |-> i, value |-> a[u][i]]
                                     : i \in DOMAIN a[u]}
  BY DEF newRows
<1>2. PICK i \in DOMAIN a[u] : r = [dn |-> d, type |-> u, pos |-> i, value |-> a[u][i]]
  BY <1>1
<1>3. u \in STRING /\ i \in Nat /\ a[u][i] \in DOMAIN Cut
  BY <1>1, <1>2, AttrsAssumption
<1> QED BY <1>2, <1>3 DEF Row

\* Writing some rows of an entry that is there keeps the tables consistent.
LEMMA WriteSome ==
  ASSUME NEW t \in Tables, Consistent(t), NEW d \in t.entries,
         NEW R \in SUBSET Row, \A r \in R : r.dn = d
  PROVE  writeSome(t, d, R) \in Tables /\ Consistent(writeSome(t, d, R))
<1>1. writeSome(t, d, R) =
        [entries |-> t.entries, attributes |-> (t.attributes \ rowsOf(t, d)) \cup R]
  BY DEF writeSome, Tables
<1> QED BY <1>1 DEF Tables, Consistent

\* A name that is not stored yet may be inserted.
LEMMA InsertEntry ==
  ASSUME NEW t \in Tables, Consistent(t), NEW d \in Dns, storedDn(t, d) = {}
  PROVE  /\ insertEntry(t, d) \in Tables /\ Consistent(insertEntry(t, d))
         /\ d \in insertEntry(t, d).entries
<1>1. insertEntry(t, d) = [entries |-> t.entries \cup {d}, attributes |-> t.attributes]
  BY DEF insertEntry, Tables
<1>2. \A e \in t.entries : lower(e) # lower(d)
  BY DEF storedDn
<1> QED BY <1>1, <1>2 DEF Tables, Consistent

\* DELETE takes the rows of the entry along.
LEMMA DeleteEntry ==
  ASSUME NEW t \in Tables, Consistent(t), NEW d \in Dns
  PROVE  deleteEntry(t, d) \in Tables /\ Consistent(deleteEntry(t, d))
BY DEF deleteEntry, rowsOf, Tables, Consistent

\* UPDATE to a name that is not stored takes the rows along.
LEMMA UpdateEntry ==
  ASSUME NEW t \in Tables, Consistent(t), NEW d \in t.entries,
         NEW to \in Dns, storedDn(t, to) = {}
  PROVE  updateEntry(t, d, to) \in Tables /\ Consistent(updateEntry(t, d, to))
<1>1. \A e \in t.entries : lower(e) # lower(to)
  BY DEF storedDn
<1>2. \A r \in updateEntry(t, d, to).attributes :
        r \in Row /\ r.dn \in updateEntry(t, d, to).entries
  <2> SUFFICES ASSUME NEW r \in updateEntry(t, d, to).attributes
               PROVE  r \in Row /\ r.dn \in updateEntry(t, d, to).entries
    OBVIOUS
  <2>1. PICK q \in t.attributes : r = IF q.dn = d THEN [q EXCEPT !.dn = to] ELSE q
    BY DEF updateEntry
  <2>2. q \in Row /\ q.dn \in t.entries
    BY DEF Tables, Consistent
  <2>3. CASE q.dn = d
    BY <2>1, <2>2, <2>3 DEF Row, updateEntry
  <2>4. CASE q.dn # d
    BY <2>1, <2>2, <2>4 DEF updateEntry
  <2> QED BY <2>3, <2>4
<1> QED BY <1>1, <1>2 DEF updateEntry, Tables, Consistent

-----------------------------------------------------------------------------
(* The inductive invariant.                                                *)

\* What check() found out still holds of the committed tables.
Fits(c) ==
  /\ c.op \in {"add", "modify", "remove", "rename"}
  /\ c.op = "add" <=> storedDn(db, c.dn) = {}
  /\ c.op = "rename" => storedDn(db, c.to) = {}

\* Nobody calls before the start.  A call that has not begun finds no transaction, one that has begun starts
\* from the committed tables, and one that has done its work has left them
\* consistent.
Prepared ==
  \A s \in Sessions :
    /\ ~up => pc[s] = "idle"
    /\ pc[s] \in {"check", "begin"} => tx = NoTx
    /\ pc[s] \in {"begin", "work"} => Fits(call[s])
    /\ pc[s] = "work" => tx = Begun(db)
    /\ pc[s] = "commit" => Consistent(tx.tables)

IInv == TypeOK /\ NoTransactionLeft /\ TablesConsistent /\ Prepared

\* The session that holds the mutex works alone.
LEMMA Alone ==
  ASSUME NoTransactionLeft, NEW s \in Sessions, pc[s] \in Working
  PROVE  mutex = s /\ \A t \in Sessions \ {s} : pc[t] \notin Working
BY DEF NoTransactionLeft

\* Nobody works and no transaction is open while the mutex is free.
LEMMA Free ==
  ASSUME NoTransactionLeft, mutex = Nobody
  PROVE  tx = NoTx /\ \A t \in Sessions : pc[t] \notin Working
BY SessionsAssumption DEF NoTransactionLeft, Working

\* The statements of a call that fits keep the tables consistent, all of them
\* or some.
LEMMA WorkKeeps ==
  ASSUME TypeOK, TablesConsistent, tx = Begun(db), NEW c \in Calls, Fits(c)
  PROVE  /\ Worked(c, stored(c)) \in Tables
         /\ Consistent(Worked(c, stored(c)))
         /\ Half(c) \subseteq Tables
<1>1. tx.tables = db /\ db \in Tables /\ Consistent(db)
  BY DEF Begun, TypeOK, TablesConsistent
<1>2. /\ c.dn \in Dns /\ c.to \in Dns /\ c.attrs \in Attrs
      /\ c.op \in {"add", "modify", "remove", "rename"}
  BY CallsAssumption DEF Fits
<1>3. ASSUME c.op # "add" PROVE stored(c) \in db.entries /\ stored(c) \in Dns
  <2>1. \E d \in Dns : d \in storedDn(tx.tables, c.dn)
    BY <1>1, <1>3 DEF Fits, storedDn, Tables
  <2>2. stored(c) \in storedDn(tx.tables, c.dn)
    BY <2>1 DEF stored
  <2> QED BY <1>1, <2>2 DEF storedDn, Tables
<1>4. CASE c.op = "add"
  <2> DEFINE t == insertEntry(db, c.dn)
  <2>1. t \in Tables /\ Consistent(t) /\ c.dn \in t.entries
    BY <1>1, <1>2, <1>4, InsertEntry DEF Fits
  <2>2. newRows(c.dn, c.attrs) \subseteq Row /\ \A r \in newRows(c.dn, c.attrs) : r.dn = c.dn
    BY <1>2, NewRows
  <2>3. \A R \in SUBSET newRows(c.dn, c.attrs) :
          writeSome(t, c.dn, R) \in Tables /\ Consistent(writeSome(t, c.dn, R))
    <3> SUFFICES ASSUME NEW R \in SUBSET newRows(c.dn, c.attrs)
                 PROVE  writeSome(t, c.dn, R) \in Tables /\ Consistent(writeSome(t, c.dn, R))
      OBVIOUS
    <3>1. R \in SUBSET Row /\ \A r \in R : r.dn = c.dn
      BY <2>2
    <3> HIDE DEF t
    <3> QED BY <2>1, <3>1, WriteSome
  <2>4. Worked(c, stored(c)) = writeSome(t, c.dn, newRows(c.dn, c.attrs))
    BY <1>1, <1>4 DEF Worked, writeAttributes
  <2>5. Half(c) = {db} \cup {writeSome(t, c.dn, R) : R \in SUBSET newRows(c.dn, c.attrs)}
    BY <1>1, <1>4 DEF Half
  <2> HIDE DEF t
  <2> QED BY <1>1, <2>3, <2>4, <2>5
<1>5. CASE c.op = "modify"
  <2> DEFINE d == stored(c)
  <2>1. d \in db.entries /\ d \in Dns
    BY <1>3, <1>5
  <2>2. newRows(d, c.attrs) \subseteq Row /\ \A r \in newRows(d, c.attrs) : r.dn = d
    BY <1>2, <2>1, NewRows
  <2>3. \A R \in SUBSET newRows(d, c.attrs) :
          writeSome(db, d, R) \in Tables /\ Consistent(writeSome(db, d, R))
    <3> SUFFICES ASSUME NEW R \in SUBSET newRows(d, c.attrs)
                 PROVE  writeSome(db, d, R) \in Tables /\ Consistent(writeSome(db, d, R))
      OBVIOUS
    <3>1. R \in SUBSET Row /\ \A r \in R : r.dn = d
      BY <2>2
    <3> HIDE DEF d
    <3> QED BY <1>1, <2>1, <3>1, WriteSome
  <2>4. Worked(c, d) = writeSome(db, d, newRows(d, c.attrs))
    BY <1>1, <1>5 DEF Worked, writeAttributes
  <2>5. Half(c) = {db} \cup {writeSome(db, d, R) : R \in SUBSET newRows(d, c.attrs)}
    BY <1>1, <1>5 DEF Half
  <2> HIDE DEF d
  <2>6. Worked(c, d) \in Tables /\ Consistent(Worked(c, d)) /\ Half(c) \subseteq Tables
    BY <1>1, <2>3, <2>4, <2>5
  <2> QED BY <2>6 DEF d
<1>6. CASE c.op = "remove"
  <2>1. Worked(c, stored(c)) = deleteEntry(db, stored(c)) /\ Half(c) = {db}
    BY <1>1, <1>6 DEF Worked, Half
  <2> QED BY <1>1, <1>3, <1>6, <2>1, DeleteEntry
<1>7. CASE c.op = "rename"
  <2>1. Worked(c, stored(c)) = updateEntry(db, stored(c), c.to) /\ Half(c) = {db}
    BY <1>1, <1>7 DEF Worked, Half
  <2> QED BY <1>1, <1>2, <1>3, <1>7, <2>1, UpdateEntry DEF Fits
<1> QED BY <1>2, <1>4, <1>5, <1>6, <1>7

\* The seed is a consistent set of tables, and so is the empty one.
LEMMA SeedTables ==
  ASSUME TypeOK, TablesConsistent
  PROVE  seeded \in Tables /\ Consistent(seeded)
<1>1. CASE db.entries # {}
  BY <1>1 DEF seeded, TypeOK, TablesConsistent
<1>2. CASE db.entries = {}
  <2> DEFINE E == {SeedFile[i].dn : i \in DOMAIN SeedFile}
             A == UNION {newRows(SeedFile[i].dn, SeedFile[i].attrs) : i \in DOMAIN SeedFile}
  <2>1. seeded = [entries |-> E, attributes |-> A]
    BY <1>2 DEF seeded
  <2>2. E \subseteq Dns /\ \A d, e \in E : lower(d) = lower(e) => d = e
    BY SeedAssumption
  <2>3. \A r \in A : r \in Row /\ r.dn \in E
    <3> SUFFICES ASSUME NEW r \in A PROVE r \in Row /\ r.dn \in E
      OBVIOUS
    <3>1. PICK i \in DOMAIN SeedFile : r \in newRows(SeedFile[i].dn, SeedFile[i].attrs)
      OBVIOUS
    <3>2. SeedFile[i].dn \in Dns /\ SeedFile[i].attrs \in Attrs
      BY SeedAssumption
    <3> QED BY <3>1, <3>2, NewRows
  <2> HIDE DEF E, A
  <2> QED BY <2>1, <2>2, <2>3 DEF Tables, Consistent
<1> QED BY <1>1, <1>2

\* No call is the call that is none.
LEMMA RealCalls == NoCall \notin Calls
BY CallsAssumption DEF NoCall

LEMMA InitKeeps == Init => IInv
<1> SUFFICES ASSUME Init PROVE IInv
  OBVIOUS
<1>1. TypeOK
  BY DEF Init, TypeOK, NoTables, Tables, Working
<1>2. NoTransactionLeft
  BY SessionsAssumption DEF Init, NoTransactionLeft, Working
<1>3. TablesConsistent /\ Prepared
  BY DEF Init, TablesConsistent, Consistent, NoTables, Prepared
<1> QED BY <1>1, <1>2, <1>3 DEF IInv

\* A session calls the backend, or goes on with the result: neither touches
\* the connection.
LEMMA OutsideKeeps ==
  ASSUME IInv, NEW s \in Sessions, invoke(s) \/ proceed(s)
  PROVE  IInv'
<1> USE DEF IInv
<1>1. /\ pc[s] \notin Working /\ pc'[s] \notin Working
      /\ \A t \in Sessions \ {s} : pc'[t] = pc[t] /\ call'[t] = call[t]
      /\ UNCHANGED <<up, db, tx, mutex>> /\ (~up => pc'[s] = "idle")
  BY DEF TypeOK, invoke, proceed, Working
<1>2. TypeOK'
  BY RealCalls DEF TypeOK, invoke, proceed
<1>3. NoTransactionLeft'
  BY <1>1 DEF NoTransactionLeft, Working
<1>4. TablesConsistent' /\ Prepared'
  BY <1>1 DEF TablesConsistent, Prepared, Fits, Working
<1> QED BY <1>2, <1>3, <1>4

\* A call takes the mutex, or is turned away.
LEMMA LockKeeps ==
  ASSUME IInv, NEW s \in Sessions, lock(s)
  PROVE  IInv'
<1> USE DEF IInv
<1>1. TypeOK'
  BY DEF TypeOK, lock, Working
<1>2. CASE emptyNames(call[s])
  <2>1. /\ pc[s] \notin Working /\ pc'[s] \notin Working
        /\ \A t \in Sessions \ {s} : pc'[t] = pc[t]
        /\ UNCHANGED <<up, db, tx, mutex, call>> /\ up
    BY <1>2 DEF TypeOK, Prepared, lock, Working
  <2> QED BY <1>1, <2>1 DEF NoTransactionLeft, TablesConsistent, Prepared, Fits, Working
<1>3. CASE ~emptyNames(call[s])
  <2>1. /\ mutex = Nobody /\ mutex' = s /\ pc'[s] = "check"
        /\ \A t \in Sessions \ {s} : pc'[t] = pc[t]
        /\ UNCHANGED <<up, db, tx, call>> /\ up
    BY <1>3 DEF TypeOK, Prepared, lock
  <2>2. tx = NoTx /\ \A t \in Sessions : pc[t] \notin Working
    BY <2>1, Free
  <2>3. NoTransactionLeft'
    BY <2>1, <2>2 DEF NoTransactionLeft, Working
  <2>4. TablesConsistent' /\ Prepared'
    BY <2>1, <2>2 DEF TablesConsistent, Prepared, Working
  <2> QED BY <1>1, <2>3, <2>4
<1> QED BY <1>2, <1>3

\* A call that works returns: it must leave no transaction and consistent
\* tables.
LEMMA ReturnKeeps ==
  ASSUME IInv, NEW s \in Sessions, pc[s] \in Working, NEW r, Return(s, r),
         up' = up, call' = call, tx' = NoTx, db' \in Tables, Consistent(db')
  PROVE  IInv'
<1>1. mutex = s /\ \A t \in Sessions \ {s} : pc[t] \notin Working
  BY Alone DEF IInv
<1>2. /\ pc' = [pc EXCEPT ![s] = "returned"] /\ mutex' = Nobody
      /\ pc'[s] = "returned" /\ \A t \in Sessions \ {s} : pc'[t] = pc[t]
  BY DEF Return, IInv, TypeOK
<1>3. TypeOK'
  BY <1>2 DEF IInv, TypeOK, Working
<1>4. NoTransactionLeft'
  BY <1>1, <1>2, SessionsAssumption DEF NoTransactionLeft, Working
<1>5. up
  BY DEF IInv, Prepared, Working
<1>6. TablesConsistent' /\ Prepared'
  BY <1>1, <1>2, <1>5 DEF TablesConsistent, Prepared, Working
<1> QED BY <1>3, <1>4, <1>6 DEF IInv

\* A call that works goes on: only its own state counts.
LEMMA GoesKeeps ==
  ASSUME IInv, NEW s \in Sessions, pc[s] \in Working,
         NEW next \in Working, Goes(s, next),
         up' = up, call' = call, db' = db,
         tx' \in [open : {"yes"}, tables : Tables] \cup {NoTx},
         tx' # NoTx => next \in {"work", "commit", "rollback"},
         next \in {"begin", "work"} => Fits(call[s]),
         next = "work" => tx' = Begun(db),
         next = "commit" => Consistent(tx'.tables)
  PROVE  IInv'
<1>1. mutex = s /\ \A t \in Sessions \ {s} : pc[t] \notin Working
  BY Alone DEF IInv
<1>2. /\ pc' = [pc EXCEPT ![s] = next] /\ mutex' = s
      /\ pc'[s] = next /\ \A t \in Sessions \ {s} : pc'[t] = pc[t]
  BY <1>1 DEF Goes, IInv, TypeOK
<1>3. TypeOK'
  BY <1>2 DEF IInv, TypeOK, Working
<1>4. NoTransactionLeft'
  BY <1>1, <1>2 DEF NoTransactionLeft
<1>5. Prepared'
  <2>1. next \in {"check", "begin"} => tx' = NoTx
    OBVIOUS
  <2>2. \A t \in Sessions \ {s} : pc'[t] \notin {"check", "begin", "work", "commit"}
    BY <1>1, <1>2 DEF Working
  <2>3. Fits(call[s]) => Fits(call[s])'
    BY DEF Fits
  <2>4. up
    BY DEF IInv, Prepared, Working
  <2> QED BY <1>2, <2>1, <2>2, <2>3, <2>4 DEF Prepared
<1>6. TablesConsistent'
  BY DEF IInv, TablesConsistent
<1> QED BY <1>3, <1>4, <1>5, <1>6 DEF IInv

\* Every step of a call that has the mutex.
LEMMA WorkingKeeps ==
  ASSUME IInv, NEW s \in Sessions,
         \/ lookup(s) \/ search(s) \/ check(s) \/ begin(s) \/ beginFails(s)
         \/ work(s) \/ workFails(s) \/ commit(s) \/ commitFails(s) \/ rollback(s)
  PROVE  IInv'
<1> USE DEF IInv
<1>1. /\ db \in Tables /\ Consistent(db)
      /\ tx \in [open : {"yes"}, tables : Tables] \cup {NoTx}
      /\ tx.tables \in Tables
  BY DEF TypeOK, TablesConsistent, NoTx, NoTables, Tables
<1>2. /\ pc[s] \in {"check", "begin"} => tx = NoTx
      /\ pc[s] \in {"begin", "work"} => Fits(call[s])
      /\ pc[s] = "work" => tx = Begun(db)
      /\ pc[s] = "commit" => Consistent(tx.tables)
  BY DEF Prepared
<1>3. pc[s] # "idle" => call[s] \in Calls
  BY DEF TypeOK
<1>4. CASE lookup(s) \/ search(s)
  <2>1. /\ pc[s] = "check" /\ UNCHANGED <<up, db, tx, call>>
        /\ \E r : Return(s, r)
    BY <1>4 DEF lookup, search
  <2> QED BY <1>1, <1>2, <2>1, ReturnKeeps DEF Working
<1>5. CASE check(s)
  <2>1. pc[s] = "check" /\ UNCHANGED <<up, db, tx, call>> /\ tx = NoTx /\ Seen = db
    BY <1>2, <1>5 DEF check, Seen
  <2>2. CASE \E r : Return(s, r)
    BY <1>1, <2>1, <2>2, ReturnKeeps DEF Working
  <2>3. CASE Goes(s, "begin") /\ Fits(call[s])
    BY <1>1, <2>1, <2>3, GoesKeeps DEF Working
  <2>4. (\E r : Return(s, r)) \/ (Goes(s, "begin") /\ Fits(call[s]))
    <3>1. call[s].op \in {"add", "modify", "remove", "rename"}
      BY <1>3, <1>5, CallsAssumption DEF check
    <3> QED BY <1>5, <2>1, <3>1 DEF check, Fits
  <2> QED BY <2>2, <2>3, <2>4
<1>6. CASE begin(s)
  <2>1. /\ pc[s] = "begin" /\ UNCHANGED <<up, db, call>> /\ Goes(s, "work")
        /\ tx' = Begun(db) /\ Fits(call[s])
    BY <1>2, <1>6 DEF begin
  <2>2. Begun(db) \in [open : {"yes"}, tables : Tables]
    BY <1>1 DEF Begun
  <2> QED BY <2>1, <2>2, GoesKeeps DEF Working
<1>7. CASE beginFails(s)
  <2>1. pc[s] = "begin" /\ UNCHANGED <<up, db, tx, call>> /\ tx = NoTx
    BY <1>2, <1>7 DEF beginFails
  <2>2. CASE Goes(s, "rollback")
    BY <1>1, <2>1, <2>2, GoesKeeps DEF Working
  <2>3. CASE Return(s, False)
    BY <1>1, <2>1, <2>3, ReturnKeeps DEF Working
  <2> QED BY <1>7, <2>2, <2>3 DEF beginFails
<1>8. CASE work(s)
  <2>1. /\ pc[s] = "work" /\ UNCHANGED <<up, db, call>> /\ Goes(s, "commit")
        /\ tx' = Begun(Worked(call[s], stored(call[s])))
    BY <1>8 DEF work
  <2>2. /\ Worked(call[s], stored(call[s])) \in Tables
        /\ Consistent(Worked(call[s], stored(call[s])))
    BY <1>2, <1>3, <2>1, WorkKeeps
  <2>3. tx'.tables = Worked(call[s], stored(call[s])) /\ tx' \in [open : {"yes"}, tables : Tables]
    BY <2>1, <2>2 DEF Begun
  <2> QED BY <2>1, <2>2, <2>3, GoesKeeps DEF Working
<1>9. CASE workFails(s)
  <2>1. /\ pc[s] = "work" /\ UNCHANGED <<up, db, call>> /\ Goes(s, "rollback")
        /\ \E tables \in Half(call[s]) : tx' = Begun(tables)
    BY <1>9 DEF workFails
  <2>2. Half(call[s]) \subseteq Tables
    BY <1>2, <1>3, <2>1, WorkKeeps
  <2>3. tx' \in [open : {"yes"}, tables : Tables]
    BY <2>1, <2>2 DEF Begun
  <2> QED BY <2>1, <2>3, GoesKeeps DEF Working
<1>10. CASE commit(s)
  <2>1. /\ pc[s] = "commit" /\ UNCHANGED <<up, call>> /\ Return(s, True)
        /\ db' = tx.tables /\ tx' = NoTx
    BY <1>10 DEF commit
  <2> QED BY <1>1, <1>2, <2>1, ReturnKeeps DEF Working
<1>11. CASE commitFails(s)
  <2>1. /\ pc[s] = "commit" /\ UNCHANGED <<up, db, call>> /\ Goes(s, "rollback")
        /\ tx' \in {tx, NoTx}
    BY <1>11 DEF commitFails
  <2> QED BY <1>1, <2>1, GoesKeeps DEF Working
<1>12. CASE rollback(s)
  <2>1. /\ pc[s] = "rollback" /\ UNCHANGED <<up, db, call>> /\ Return(s, False)
        /\ tx' = NoTx
    BY <1>12 DEF rollback
  <2> QED BY <1>1, <2>1, ReturnKeeps DEF Working
<1> QED BY <1>4, <1>5, <1>6, <1>7, <1>8, <1>9, <1>10, <1>11, <1>12

\* A crash and the next start.
LEMMA LifeKeeps ==
  ASSUME IInv, crash \/ initialize
  PROVE  IInv'
<1> USE DEF IInv
<1>1. CASE crash
  <2>1. TypeOK'
    BY <1>1 DEF crash, TypeOK
  <2>2. NoTransactionLeft'
    BY <1>1, SessionsAssumption DEF crash, NoTransactionLeft, Working
  <2>3. TablesConsistent' /\ Prepared'
    BY <1>1 DEF crash, TablesConsistent, Prepared
  <2> QED BY <2>1, <2>2, <2>3
<1>2. CASE initialize /\ db' = seeded /\ up' = TRUE
  <2>1. seeded \in Tables /\ Consistent(seeded)
    BY SeedTables
  <2>2. TypeOK' /\ NoTransactionLeft' /\ TablesConsistent'
    BY <1>2, <2>1 DEF initialize, TypeOK, NoTransactionLeft, TablesConsistent
  <2>3. Prepared'
    <3>1. \A s \in Sessions : pc[s] = "idle"
      BY <1>2 DEF initialize, Prepared
    <3> QED BY <1>2, <3>1 DEF initialize, Prepared
  <2> QED BY <2>2, <2>3
<1>3. CASE initialize /\ UNCHANGED <<up, db>>
  BY <1>3 DEF initialize, TypeOK, NoTransactionLeft, TablesConsistent, Prepared, Fits
<1> QED BY <1>1, <1>2, <1>3 DEF initialize

-----------------------------------------------------------------------------
\* Every step keeps IInv.
LEMMA StepKeeps == ASSUME IInv, [Next]_vars PROVE IInv'
<1>1. ASSUME NEW s \in Sessions, invoke(s) \/ proceed(s) PROVE IInv'
  BY <1>1, OutsideKeeps
<1>2. ASSUME NEW s \in Sessions, lock(s) PROVE IInv'
  BY <1>2, LockKeeps
<1>3. ASSUME NEW s \in Sessions,
             \/ lookup(s) \/ search(s) \/ check(s) \/ begin(s) \/ beginFails(s)
             \/ work(s) \/ workFails(s) \/ commit(s) \/ commitFails(s) \/ rollback(s)
      PROVE  IInv'
  BY <1>3, WorkingKeeps
<1>4. CASE crash \/ initialize
  BY <1>4, LifeKeeps
<1>5. CASE UNCHANGED vars
  BY <1>5 DEF vars, IInv, TypeOK, NoTransactionLeft, TablesConsistent, Prepared, Fits
<1> QED BY <1>1, <1>2, <1>3, <1>4, <1>5 DEF Next, Proceeds

\* IInv is inductive.
THEOREM SqliteInductive == Spec => []IInv
<1>1. IInv /\ [Next]_vars => IInv'
  BY StepKeeps
<1> QED BY <1>1, InitKeeps, PTL DEF Spec

\* Every variable of SqliteBackend keeps its type.
THEOREM SqliteTypeCorrect == Spec => []TypeOK
<1>1. IInv => TypeOK
  BY DEF IInv
<1> QED BY <1>1, SqliteInductive, PTL

\* However a call ends, by success, by an error at any statement or by a crash,
\* it leaves no transaction open, and only the holder of the mutex has one.
THEOREM NoTransactionIsLeft == Spec => []NoTransactionLeft
<1>1. IInv => NoTransactionLeft
  BY DEF IInv
<1> QED BY <1>1, SqliteInductive, PTL

\* Although the primary key tells spellings apart, the checks before BEGIN keep
\* every name under one spelling, and no row is without its entry.
THEOREM TablesAreConsistent == Spec => []TablesConsistent
<1>1. IInv => TablesConsistent
  BY DEF IInv
<1> QED BY <1>1, SqliteInductive, PTL

-----------------------------------------------------------------------------
(* The tree that the tables hold.                                          *)

\* A row is known by its entry, type and position.
Keyed(R) == \A r, q \in R : r.dn = q.dn /\ r.type = q.type /\ r.pos = q.pos => r = q

\* What is read of the rows R of one entry, and what is kept of attributes.
Types(R) == {r.type : r \in R}
Places(R, u) == {r.pos : r \in {q \in R : q.type = u}}
Load(R) == [u \in Types(R) |-> [i \in Places(R, u) |->
              Cut[(CHOOSE r \in R : r.type = u /\ r.pos = i).value]]]
KeptOf(a) == [u \in {v \in DOMAIN a : a[v] # << >>} |-> [i \in DOMAIN a[u] |-> Cut[a[u][i]]]]

LEMMA LoadIs == ASSUME NEW t, NEW d PROVE loadAttributes(t, d) = Load(rowsOf(t, d))
  BY DEF loadAttributes, Load, Types, Places

\* Rows with the same types, positions and values read the same.
LEMMA SameLoad ==
  ASSUME NEW R, NEW Q, Keyed(Q), \A q, p \in Q : q.dn = p.dn,
         \A r \in R : \E q \in Q : q.type = r.type /\ q.pos = r.pos /\ q.value = r.value,
         \A q \in Q : \E r \in R : q.type = r.type /\ q.pos = r.pos /\ q.value = r.value
  PROVE  Load(R) = Load(Q)
<1>1. Types(R) = Types(Q)
  BY DEF Types
<1>2. \A u : Places(R, u) = Places(Q, u)
  BY DEF Places
<1>3. ASSUME NEW u, NEW i \in Places(R, u)
      PROVE  (CHOOSE r \in R : r.type = u /\ r.pos = i).value =
             (CHOOSE r \in Q : r.type = u /\ r.pos = i).value
  <2> DEFINE x == CHOOSE r \in R : r.type = u /\ r.pos = i
             y == CHOOSE r \in Q : r.type = u /\ r.pos = i
  <2>1. (\E r \in R : r.type = u /\ r.pos = i) /\ (\E r \in Q : r.type = u /\ r.pos = i)
    BY <1>2, <1>3 DEF Places
  <2>2. x \in R /\ x.type = u /\ x.pos = i /\ y \in Q /\ y.type = u /\ y.pos = i
    BY <2>1
  <2> HIDE DEF x, y
  <2>3. PICK q \in Q : q.type = u /\ q.pos = i /\ q.value = x.value
    BY <2>2
  <2>4. q = y
    BY <2>2, <2>3 DEF Keyed
  <2>5. x.value = y.value
    BY <2>3, <2>4
  <2> QED BY <2>5 DEF x, y
<1>4. \A u : [i \in Places(R, u) |-> Cut[(CHOOSE r \in R : r.type = u /\ r.pos = i).value]]
           = [i \in Places(Q, u) |-> Cut[(CHOOSE r \in Q : r.type = u /\ r.pos = i).value]]
  BY <1>2, <1>3
<1> QED BY <1>1, <1>4 DEF Load

\* The rows that writeAttributes inserts read as what is kept of the attributes.
LEMMA NewRowIs ==
  ASSUME NEW d, NEW a, NEW r
  PROVE  r \in newRows(d, a) <=>
           \E u \in DOMAIN a : \E i \in DOMAIN a[u] :
             r = [dn |-> d, type |-> u, pos |-> i, value |-> a[u][i]]
  BY DEF newRows

LEMMA NewKeyed ==
  ASSUME NEW d, NEW a
  PROVE  /\ Keyed(newRows(d, a))
         /\ \A r \in newRows(d, a) : /\ r.type \in DOMAIN a /\ r.pos \in DOMAIN a[r.type]
                                     /\ r.value = a[r.type][r.pos] /\ r.dn = d
         /\ \A u \in DOMAIN a : \A i \in DOMAIN a[u] :
              \E r \in newRows(d, a) : r.type = u /\ r.pos = i
<1>1. \A r \in newRows(d, a) :
         /\ r.type \in DOMAIN a /\ r.pos \in DOMAIN a[r.type]
         /\ r.value = a[r.type][r.pos] /\ r.dn = d
         /\ r = [dn |-> d, type |-> r.type, pos |-> r.pos, value |-> a[r.type][r.pos]]
  <2> SUFFICES ASSUME NEW r \in newRows(d, a)
      PROVE  /\ r.type \in DOMAIN a /\ r.pos \in DOMAIN a[r.type]
             /\ r.value = a[r.type][r.pos] /\ r.dn = d
             /\ r = [dn |-> d, type |-> r.type, pos |-> r.pos, value |-> a[r.type][r.pos]]
    OBVIOUS
  <2>0. PICK u \in DOMAIN a :
          \E i \in DOMAIN a[u] : r = [dn |-> d, type |-> u, pos |-> i, value |-> a[u][i]]
    BY NewRowIs
  <2>1. PICK i \in DOMAIN a[u] : r = [dn |-> d, type |-> u, pos |-> i, value |-> a[u][i]]
    BY <2>0
  <2>2. r.type = u /\ r.pos = i /\ r.value = a[u][i] /\ r.dn = d
    BY <2>1
  <2> QED BY <2>1, <2>2
<1>2. Keyed(newRows(d, a))
  <2> SUFFICES ASSUME NEW r \in newRows(d, a), NEW q \in newRows(d, a),
                      r.type = q.type, r.pos = q.pos
               PROVE  r = q
    BY DEF Keyed
  <2> DEFINE u == r.type
             i == r.pos
             v == [dn |-> d, type |-> u, pos |-> i, value |-> a[u][i]]
  <2>1. r = v
    BY <1>1
  <2>2. q = v
    BY <1>1
  <2> QED BY <2>1, <2>2
<1>3. ASSUME NEW u \in DOMAIN a, NEW i \in DOMAIN a[u]
      PROVE  \E r \in newRows(d, a) : r.type = u /\ r.pos = i
  <2> DEFINE r == [dn |-> d, type |-> u, pos |-> i, value |-> a[u][i]]
  <2>1. r \in newRows(d, a)
    BY NewRowIs
  <2>2. r.type = u /\ r.pos = i
    OBVIOUS
  <2> QED BY <2>1, <2>2
<1> QED BY <1>1, <1>2, <1>3

LEMMA NewLoad ==
  ASSUME NEW d, NEW a \in Attrs
  PROVE  Load(newRows(d, a)) = KeptOf(a)
<1> DEFINE R == newRows(d, a)
<1>0. /\ Keyed(R)
      /\ \A r \in R : /\ r.type \in DOMAIN a /\ r.pos \in DOMAIN a[r.type]
                      /\ r.value = a[r.type][r.pos] /\ r.dn = d
      /\ \A u \in DOMAIN a : \A i \in DOMAIN a[u] : \E r \in R : r.type = u /\ r.pos = i
  BY NewKeyed
<1> HIDE DEF R
<1>1. \A u \in DOMAIN a : a[u] # << >> <=> \E i : i \in DOMAIN a[u]
  <2> SUFFICES ASSUME NEW u \in DOMAIN a PROVE a[u] # << >> <=> \E i : i \in DOMAIN a[u]
    OBVIOUS
  <2>1. a[u] \in Seq(DOMAIN Cut)
    BY AttrsAssumption
  <2>2. a[u] # << >> => 1 \in DOMAIN a[u]
    BY <2>1
  <2> QED BY <2>2
<1>2. Types(R) = {v \in DOMAIN a : a[v] # << >>}
  <2>1. \A u : u \in Types(R) <=> u \in DOMAIN a /\ a[u] # << >>
    BY <1>0, <1>1 DEF Types
  <2> QED BY <2>1
<1>3. \A u \in DOMAIN a : Places(R, u) = DOMAIN a[u]
  <2> SUFFICES ASSUME NEW u \in DOMAIN a, NEW i PROVE i \in Places(R, u) <=> i \in DOMAIN a[u]
    OBVIOUS
  <2>1. i \in Places(R, u) <=> \E r \in R : r.type = u /\ r.pos = i
    BY DEF Places
  <2> QED BY <1>0, <2>1
<1>4. ASSUME NEW u \in DOMAIN a, NEW i \in DOMAIN a[u]
      PROVE  (CHOOSE r \in R : r.type = u /\ r.pos = i).value = a[u][i]
  <2> DEFINE x == CHOOSE r \in R : r.type = u /\ r.pos = i
  <2>1. x \in R /\ x.type = u /\ x.pos = i
    BY <1>0, <1>4
  <2> HIDE DEF x
  <2>2. x.value = a[u][i]
    BY <1>0, <2>1
  <2> QED BY <2>2 DEF x
<1>5. \A u \in DOMAIN a :
        [i \in Places(R, u) |-> Cut[(CHOOSE r \in R : r.type = u /\ r.pos = i).value]]
          = [i \in DOMAIN a[u] |-> Cut[a[u][i]]]
  BY <1>3, <1>4
<1>6. Load(R) = KeptOf(a)
  BY <1>2, <1>5 DEF Load, KeptOf
<1> QED BY <1>6 DEF R

\* An entry of consistent tables reads as its rows do.
LEMMA TreeIs ==
  ASSUME NEW t, Consistent(t)
  PROVE  /\ DOMAIN allEntries(t) = {lower(d) : d \in t.entries}
         /\ \A d \in t.entries : allEntries(t)[lower(d)] = Load(rowsOf(t, d))
<1>1. DOMAIN allEntries(t) = {lower(d) : d \in t.entries}
  BY DEF allEntries
<1>2. ASSUME NEW d \in t.entries PROVE allEntries(t)[lower(d)] = Load(rowsOf(t, d))
  <2>1. (CHOOSE e \in t.entries : lower(e) = lower(d)) = d
    BY DEF Consistent
  <2>2. allEntries(t)[lower(d)] = loadAttributes(t, CHOOSE e \in t.entries : lower(e) = lower(d))
    BY DEF allEntries
  <2> QED BY <2>1, <2>2, LoadIs
<1> QED BY <1>1, <1>2

LEMMA TreeFun == ASSUME NEW t PROVE allEntries(t) = [n \in DOMAIN allEntries(t) |-> allEntries(t)[n]]
  BY DEF allEntries

\* Writing the attributes of d leaves the other entries of the tree as they were.
LEMMA WriteTree ==
  ASSUME NEW t, Consistent(t), Keyed(t.attributes), NEW d, NEW a \in Attrs,
         NEW w, Consistent(w), w.entries = t.entries \cup {d},
         w.attributes = (t.attributes \ rowsOf(t, d)) \cup newRows(d, a)
  PROVE  /\ allEntries(w) = Abstract!Put(allEntries(t), lower(d), KeptOf(a))
         /\ Keyed(w.attributes)
<1>1. /\ Keyed(newRows(d, a)) /\ \A r \in newRows(d, a) : r.dn = d
  BY NewKeyed
<1>2. rowsOf(w, d) = newRows(d, a)
  BY <1>1 DEF rowsOf
<1>3. \A e : e # d => rowsOf(w, e) = rowsOf(t, e)
  BY <1>1 DEF rowsOf
<1>4. Keyed(w.attributes)
  BY <1>1 DEF Keyed, rowsOf
<1>5. /\ DOMAIN allEntries(w) = {lower(e) : e \in w.entries}
      /\ \A e \in w.entries : allEntries(w)[lower(e)] = Load(rowsOf(w, e))
  BY TreeIs
<1>6. /\ DOMAIN allEntries(t) = {lower(e) : e \in t.entries}
      /\ \A e \in t.entries : allEntries(t)[lower(e)] = Load(rowsOf(t, e))
  BY TreeIs
<1>7. DOMAIN allEntries(w) = DOMAIN allEntries(t) \cup {lower(d)}
  BY <1>5, <1>6
<1>8. ASSUME NEW n \in DOMAIN allEntries(w)
      PROVE  allEntries(w)[n] = IF n = lower(d) THEN KeptOf(a) ELSE allEntries(t)[n]
  <2>1. CASE n = lower(d)
    BY <1>2, <1>5, <2>1, NewLoad
  <2>2. CASE n # lower(d)
    <3>1. PICK e \in w.entries : n = lower(e)
      BY <1>5
    <3>2. e \in t.entries /\ e # d
      BY <2>2, <3>1
    <3> QED BY <1>3, <1>5, <1>6, <2>2, <3>1, <3>2
  <2> QED BY <2>1, <2>2
<1>9. allEntries(w) = [n \in DOMAIN allEntries(w) |-> allEntries(w)[n]]
  BY TreeFun
<1>10. allEntries(w) = [n \in DOMAIN allEntries(t) \cup {lower(d)} |->
                          IF n = lower(d) THEN KeptOf(a) ELSE allEntries(t)[n]]
  BY <1>7, <1>8, <1>9
<1> QED BY <1>4, <1>10 DEF Abstract!Put

\* Deleting d takes it from the tree.
LEMMA DeleteTree ==
  ASSUME NEW t, Consistent(t), Keyed(t.attributes), NEW d \in t.entries,
         Consistent(deleteEntry(t, d))
  PROVE  /\ allEntries(deleteEntry(t, d)) = Abstract!Erase(allEntries(t), lower(d))
         /\ Keyed(deleteEntry(t, d).attributes)
<1> DEFINE w == deleteEntry(t, d)
<1>1. w.entries = t.entries \ {d} /\ w.attributes = t.attributes \ rowsOf(t, d)
  BY DEF deleteEntry
<1> HIDE DEF w
<1>2. \A e : e # d => rowsOf(w, e) = rowsOf(t, e)
  BY <1>1 DEF rowsOf
<1>3. Keyed(w.attributes)
  BY <1>1 DEF Keyed
<1>4. /\ DOMAIN allEntries(w) = {lower(e) : e \in w.entries}
      /\ \A e \in w.entries : allEntries(w)[lower(e)] = Load(rowsOf(w, e))
  BY TreeIs DEF w
<1>5. /\ DOMAIN allEntries(t) = {lower(e) : e \in t.entries}
      /\ \A e \in t.entries : allEntries(t)[lower(e)] = Load(rowsOf(t, e))
  BY TreeIs
<1>6. \A e \in t.entries : lower(e) = lower(d) => e = d
  BY DEF Consistent
<1>7. DOMAIN allEntries(w) = DOMAIN allEntries(t) \ {lower(d)}
  BY <1>1, <1>4, <1>5, <1>6
<1>8. ASSUME NEW n \in DOMAIN allEntries(w) PROVE allEntries(w)[n] = allEntries(t)[n]
  BY <1>1, <1>2, <1>4, <1>5
<1>9. allEntries(w) = [n \in DOMAIN allEntries(w) |-> allEntries(w)[n]]
  BY TreeFun
<1>10. allEntries(w) = [n \in DOMAIN allEntries(t) \ {lower(d)} |-> allEntries(t)[n]]
  BY <1>7, <1>8, <1>9
<1> QED BY <1>3, <1>10 DEF Abstract!Erase, w

\* Moving d to a free name moves its attributes.
LEMMA UpdateTree ==
  ASSUME NEW t \in Tables, Consistent(t), Keyed(t.attributes), NEW d \in t.entries,
         NEW to \in Dns, storedDn(t, to) = {}, Consistent(updateEntry(t, d, to))
  PROVE  /\ allEntries(updateEntry(t, d, to)) =
              Abstract!Put(Abstract!Erase(allEntries(t), lower(d)), lower(to),
                           allEntries(t)[lower(d)])
         /\ Keyed(updateEntry(t, d, to).attributes)
<1> DEFINE w == updateEntry(t, d, to)
           Moved(r) == IF r.dn = d THEN [r EXCEPT !.dn = to] ELSE r
<1>1. w.entries = (t.entries \ {d}) \cup {to} /\ w.attributes = {Moved(r) : r \in t.attributes}
  BY DEF updateEntry
<1>2. /\ \A e \in t.entries : lower(e) # lower(to)
      /\ \A e \in t.entries : lower(e) = lower(d) => e = d
      /\ \A r \in t.attributes : r.dn \in t.entries /\ r \in Row
  BY DEF storedDn, Consistent, Tables
<1>3. \A r \in t.attributes :
        /\ Moved(r).type = r.type /\ Moved(r).pos = r.pos /\ Moved(r).value = r.value
        /\ r.dn = d => Moved(r).dn = to
        /\ r.dn # d => Moved(r) = r
        /\ Moved(r).dn # to => r.dn # d
        /\ Moved(r).dn = to => r.dn = d
  BY <1>2 DEF Row
<1> HIDE DEF w, Moved
<1>4. \A e \in t.entries : e # d => rowsOf(w, e) = rowsOf(t, e)
  <2> SUFFICES ASSUME NEW e \in t.entries, e # d, NEW r
               PROVE  r \in rowsOf(w, e) <=> r \in rowsOf(t, e)
    OBVIOUS
  <2>1. e # to
    BY <1>2
  <2>2. ASSUME r \in rowsOf(w, e) PROVE r \in rowsOf(t, e)
    BY <1>1, <1>3, <2>1, <2>2 DEF rowsOf
  <2>3. ASSUME r \in rowsOf(t, e) PROVE r \in rowsOf(w, e)
    BY <1>1, <1>3, <2>1, <2>3 DEF rowsOf
  <2> QED BY <2>2, <2>3
<1>5. Keyed(w.attributes)
  <2> SUFFICES ASSUME NEW x \in w.attributes, NEW y \in w.attributes,
                      x.dn = y.dn, x.type = y.type, x.pos = y.pos
               PROVE  x = y
    BY DEF Keyed
  <2>1. PICK r \in t.attributes : x = Moved(r)
    BY <1>1
  <2>2. PICK q \in t.attributes : y = Moved(q)
    BY <1>1
  <2>3. r.type = q.type /\ r.pos = q.pos
    BY <1>3, <2>1, <2>2
  <2>4. r.dn = q.dn
    BY <1>3, <2>1, <2>2
  <2>5. r = q
    BY <2>3, <2>4 DEF Keyed
  <2> QED BY <2>1, <2>2, <2>5
<1>6. Load(rowsOf(w, to)) = Load(rowsOf(t, d))
  <2> DEFINE R == rowsOf(w, to)
             Q == rowsOf(t, d)
  <2>1. Keyed(Q) /\ \A q, p \in Q : q.dn = p.dn
    BY DEF rowsOf, Keyed
  <2>2. \A r \in R : \E q \in Q : q.type = r.type /\ q.pos = r.pos /\ q.value = r.value
    <3> SUFFICES ASSUME NEW r \in R
                 PROVE  \E q \in Q : q.type = r.type /\ q.pos = r.pos /\ q.value = r.value
      OBVIOUS
    <3>1. PICK q \in t.attributes : r = Moved(q)
      BY <1>1 DEF rowsOf
    <3>2. q \in Q
      BY <1>3, <3>1 DEF rowsOf
    <3> QED BY <1>3, <3>1, <3>2
  <2>3. \A q \in Q : \E r \in R : q.type = r.type /\ q.pos = r.pos /\ q.value = r.value
    <3> SUFFICES ASSUME NEW q \in Q
                 PROVE  \E r \in R : q.type = r.type /\ q.pos = r.pos /\ q.value = r.value
      OBVIOUS
    <3>1. q \in t.attributes /\ q.dn = d
      BY DEF rowsOf
    <3>2. Moved(q) \in R
      BY <1>1, <1>3, <3>1 DEF rowsOf
    <3> QED BY <1>3, <3>1, <3>2
  <2> HIDE DEF R, Q
  <2>4. Load(R) = Load(Q)
    BY <2>1, <2>2, <2>3, SameLoad
  <2> QED BY <2>4 DEF R, Q
<1>7. /\ DOMAIN allEntries(w) = {lower(e) : e \in w.entries}
      /\ \A e \in w.entries : allEntries(w)[lower(e)] = Load(rowsOf(w, e))
  BY TreeIs DEF w
<1>8. /\ DOMAIN allEntries(t) = {lower(e) : e \in t.entries}
      /\ \A e \in t.entries : allEntries(t)[lower(e)] = Load(rowsOf(t, e))
  BY TreeIs
<1>9. DOMAIN allEntries(w) = (DOMAIN allEntries(t) \ {lower(d)}) \cup {lower(to)}
  BY <1>1, <1>2, <1>7, <1>8
<1>10. ASSUME NEW n \in DOMAIN allEntries(w)
       PROVE  allEntries(w)[n] = IF n = lower(to) THEN allEntries(t)[lower(d)] ELSE allEntries(t)[n]
  <2>1. CASE n = lower(to)
    <3>1. to \in w.entries
      BY <1>1
    <3> QED BY <1>6, <1>7, <1>8, <2>1, <3>1
  <2>2. CASE n # lower(to)
    <3>1. PICK e \in w.entries : n = lower(e)
      BY <1>7
    <3>2. e \in t.entries /\ e # d
      BY <1>1, <2>2, <3>1
    <3> QED BY <1>4, <1>7, <1>8, <2>2, <3>1, <3>2
  <2> QED BY <2>1, <2>2
<1>11. allEntries(w) = [n \in DOMAIN allEntries(w) |-> allEntries(w)[n]]
  BY TreeFun
<1> DEFINE T == Abstract!Erase(allEntries(t), lower(d))
<1>12. /\ DOMAIN T = DOMAIN allEntries(t) \ {lower(d)}
       /\ \A n \in DOMAIN T : T[n] = allEntries(t)[n]
  BY DEF Abstract!Erase
<1> HIDE DEF T
<1>13. allEntries(w) = [n \in DOMAIN T \cup {lower(to)} |->
                          IF n = lower(to) THEN allEntries(t)[lower(d)] ELSE T[n]]
  BY <1>9, <1>10, <1>11, <1>12
<1> QED BY <1>5, <1>13 DEF Abstract!Put, T, w

\* storedDn finds the names of the tree.
LEMMA TreeHas ==
  ASSUME NEW t, Consistent(t), NEW d
  PROVE  storedDn(t, d) # {} <=> lower(d) \in DOMAIN allEntries(t)
<1>1. DOMAIN allEntries(t) = {lower(e) : e \in t.entries}
  BY TreeIs
<1> QED BY <1>1 DEF storedDn

\* The results of both levels, and what a call that writes is answered.
LEMMA SameResults ==
  /\ Abstract!NoCall = NoCall /\ Abstract!NoResult = None /\ Abstract!Pending = Pending
  /\ Abstract!Refused = False /\ Abstract!Done = True
  /\ Pending # None /\ Pending # False /\ \A x : Pending # Result("true", x)
BY DEF Abstract!Pending, Abstract!Refused, Abstract!Done, Abstract!NoResult, Abstract!NoCall,
       None, Pending, True, False, Result, NoCall

\* The call can be carried out on the committed tables, and t is what it makes of them.
Outcome(t, c) ==
  /\ Keyed(t.attributes)
  /\ Abstract!Possible(allEntries(db), c)
  /\ Abstract!Effect(allEntries(db), c) = allEntries(t)

LEMMA WorkedOutcome ==
  ASSUME IInv, Keyed(db.attributes), tx = Begun(db), NEW c \in Calls, Fits(c), ~emptyNames(c)
  PROVE  Outcome(Worked(c, stored(c)), c)
<1> DEFINE w == Worked(c, stored(c))
           d == stored(c)
           n == lower(c.dn)
           T == allEntries(db)
<1>1. tx.tables = db /\ db \in Tables /\ Consistent(db)
  BY DEF Begun, IInv, TypeOK, TablesConsistent
<1>2. /\ c.dn \in Dns /\ c.to \in Dns /\ c.attrs \in Attrs
      /\ c.op \in {"add", "modify", "remove", "rename"}
  BY CallsAssumption DEF Fits
<1>3. Consistent(w)
  BY WorkKeeps DEF IInv
<1>4. ASSUME c.op # "add" PROVE d \in db.entries /\ lower(d) = n /\ n \in DOMAIN T
  <2>1. \E e \in Dns : e \in storedDn(tx.tables, c.dn)
    BY <1>1, <1>4 DEF Fits, storedDn, Tables
  <2>2. stored(c) \in storedDn(tx.tables, c.dn)
    BY <2>1 DEF stored
  <2>3. d \in db.entries /\ lower(d) = n
    BY <1>1, <2>2 DEF storedDn
  <2>4. DOMAIN allEntries(db) = {lower(e) : e \in db.entries}
    BY <1>1, TreeIs
  <2> QED BY <2>3, <2>4
<1>5. c.op = "add" => n \notin DOMAIN T
  BY <1>1, TreeHas DEF Fits
<1>6. c.op = "rename" => lower(c.to) \notin DOMAIN T
  BY <1>1, TreeHas DEF Fits
<1>7. Abstract!Possible(T, c)
  <2> HIDE DEF T, n
  <2>1. c.op = "add" => n # NoName
    BY DEF emptyNames, n
  <2>2. c.op = "rename" => n # NoName /\ lower(c.to) # NoName
    BY DEF emptyNames, n
  <2> QED BY <1>2, <1>4, <1>5, <1>6, <2>1, <2>2 DEF Abstract!Possible, n
<1>8. CASE c.op = "add"
  <2>1. w.entries = db.entries \cup {c.dn}
        /\ w.attributes = (db.attributes \ rowsOf(db, c.dn)) \cup newRows(c.dn, c.attrs)
    BY <1>1, <1>8 DEF Worked, writeAttributes, writeSome, insertEntry, rowsOf, Tables
  <2> HIDE DEF w
  <2>2. allEntries(w) = Abstract!Put(T, n, KeptOf(c.attrs)) /\ Keyed(w.attributes)
    BY <1>1, <1>2, <1>3, <2>1, WriteTree
  <2>3. Abstract!Effect(T, c) = Abstract!Put(T, n, KeptOf(c.attrs))
    <3> HIDE DEF T
    <3> QED BY <1>2, <1>8 DEF Abstract!Effect, KeptOf
  <2> QED BY <1>7, <2>2, <2>3 DEF Outcome, w
<1>9. CASE c.op = "modify"
  <2>1. w.entries = db.entries \cup {d}
        /\ w.attributes = (db.attributes \ rowsOf(db, d)) \cup newRows(d, c.attrs)
    <3>1. w = [db EXCEPT !.attributes = (@ \ rowsOf(db, d)) \cup newRows(d, c.attrs)]
      BY <1>1, <1>9 DEF Worked, writeAttributes, writeSome
    <3> HIDE DEF w, d
    <3> QED BY <1>1, <1>4, <1>9, <3>1 DEF Tables
  <2> HIDE DEF w, d
  <2>2. allEntries(w) = Abstract!Put(T, lower(d), KeptOf(c.attrs)) /\ Keyed(w.attributes)
    BY <1>1, <1>2, <1>3, <2>1, WriteTree
  <2>3. Abstract!Effect(T, c) = Abstract!Put(T, n, KeptOf(c.attrs))
    <3> HIDE DEF T
    <3> QED BY <1>2, <1>9 DEF Abstract!Effect, KeptOf
  <2> QED BY <1>4, <1>7, <1>9, <2>2, <2>3 DEF Outcome, w
<1>10. CASE c.op = "remove"
  <2>1. w = deleteEntry(db, d)
    BY <1>1, <1>10 DEF Worked
  <2> HIDE DEF w, d
  <2>2. allEntries(w) = Abstract!Erase(T, lower(d)) /\ Keyed(w.attributes)
    BY <1>1, <1>3, <1>4, <1>10, <2>1, DeleteTree
  <2>3. Abstract!Effect(T, c) = Abstract!Erase(T, n)
    <3> HIDE DEF T
    <3> QED BY <1>10 DEF Abstract!Effect
  <2> QED BY <1>4, <1>7, <1>10, <2>2, <2>3 DEF Outcome, w
<1>11. CASE c.op = "rename"
  <2>1. w = updateEntry(db, d, c.to)
    BY <1>1, <1>11 DEF Worked
  <2> HIDE DEF w, d
  <2>2. /\ allEntries(w) = Abstract!Put(Abstract!Erase(T, lower(d)), lower(c.to), T[lower(d)])
        /\ Keyed(w.attributes)
    BY <1>1, <1>2, <1>3, <1>4, <1>11, <2>1, UpdateTree DEF Fits
  <2>3. Abstract!Effect(T, c) = Abstract!Put(Abstract!Erase(T, n), lower(c.to), T[n])
    <3> HIDE DEF T
    <3>1. n # lower(c.to)
      BY <1>4, <1>6, <1>11
    <3> QED BY <1>11, <3>1 DEF Abstract!Effect
  <2> QED BY <1>4, <1>7, <1>11, <2>2, <2>3 DEF Outcome, w
<1> QED BY <1>2, <1>8, <1>9, <1>10, <1>11

-----------------------------------------------------------------------------
(* The refinement.                                                         *)

\* The result of a call is pending until it returns; a call that holds the
\* mutex names something, and one that may commit holds its outcome.
Answered ==
  /\ Keyed(db.attributes)
  /\ res = [s \in Sessions |-> res[s]]
  /\ \A s \in Sessions :
       /\ pc[s] = "idle" => res[s] = None
       /\ pc[s] \in {"lock"} \cup Working => res[s] = Pending
       /\ pc[s] = "returned" => res[s] # Pending
       /\ pc[s] \in Working => ~emptyNames(call[s])
       /\ pc[s] = "commit" => /\ call[s].op \notin {"lookup", "search"}
                              /\ Outcome(tx.tables, call[s])

RInv == IInv /\ Answered

\* The call takes effect and is answered in one step.
LEMMA Refused ==
  ASSUME NEW s \in Sessions, res[s] = Pending, res' = [res EXCEPT ![s] = False],
         UNCHANGED <<db, call>>
  PROVE  Abstract!Refuse(s)
BY SameResults DEF Abstract!Refuse

LEMMA CarriedOut ==
  ASSUME NEW s \in Sessions, res[s] = Pending, call' = call,
         Abstract!Possible(allEntries(db), call[s]),
         allEntries(db)' = Abstract!Effect(allEntries(db), call[s]),
         res' = [res EXCEPT ![s] = Abstract!Answer(allEntries(db), call[s])]
  PROVE  Abstract!CarryOut(s)
BY SameResults DEF Abstract!CarryOut

\* Every step of a session is one of the abstract backend's, or none.
LEMMA SessionMaps ==
  ASSUME RInv, NEW s \in Sessions, invoke(s) \/ Proceeds(s)
  PROVE  \/ Abstract!Invoke(s) \/ Abstract!CarryOut(s) \/ Abstract!Refuse(s) \/ Abstract!Return(s)
         \/ UNCHANGED Abstract!vars
<1> DEFINE T == allEntries(db)
           c == call[s]
<1>1. /\ pc[s] = "idle" => res[s] = None /\ call[s] = NoCall
      /\ pc[s] # "idle" => call[s] # NoCall /\ call[s] \in Calls
      /\ pc[s] \in {"lock", "begin", "work", "commit", "rollback", "check"} => res[s] = Pending
      /\ pc[s] = "returned" => res[s] # Pending
      /\ pc[s] \in {"check", "begin"} => tx = NoTx
      /\ Consistent(db) /\ DOMAIN res = Sessions
  BY DEF RInv, Answered, IInv, TypeOK, Prepared, Working, TablesConsistent
<1>2. CASE invoke(s)
  BY <1>1, <1>2, SameResults DEF invoke, Abstract!Invoke
<1>3. CASE lock(s)
  BY <1>1, <1>3, Refused DEF lock, Abstract!vars
<1>4. CASE lookup(s)
  <2>0. pc[s] = "check" /\ UNCHANGED <<db, call>> /\ Seen = db /\ c.op = "lookup"
    BY <1>1, <1>4 DEF lookup, Seen
  <2>1. CASE storedDn(db, c.dn) = {}
    <3>1. res' = [res EXCEPT ![s] = False]
      BY <1>4, <2>0, <2>1 DEF lookup, Return
    <3> QED BY <1>1, <2>0, <3>1, Refused
  <2>2. CASE storedDn(db, c.dn) # {}
    <3> DEFINE d == CHOOSE e \in storedDn(db, c.dn) : TRUE
    <3>1. d \in db.entries /\ lower(d) = lower(c.dn)
      BY <2>2 DEF storedDn
    <3>2. res' = [res EXCEPT ![s] = Result("true", loadAttributes(db, d))]
      BY <1>4, <2>0, <2>2 DEF lookup, Return
    <3> HIDE DEF d
    <3>3. loadAttributes(db, d) = T[lower(c.dn)] /\ lower(c.dn) \in DOMAIN T
      <4>1. T[lower(d)] = Load(rowsOf(db, d))
        BY <1>1, <3>1, TreeIs
      <4> QED BY <1>1, <2>2, <3>1, <4>1, LoadIs, TreeHas
    <3> HIDE DEF T
    <3>4. /\ Abstract!Possible(T, c) /\ Abstract!Effect(T, c) = T
          /\ Abstract!Answer(T, c) = Result("true", T[lower(c.dn)])
      BY <2>0, <3>3 DEF Abstract!Possible, Abstract!Effect, Abstract!Answer, Abstract!Done,
                        Abstract!NoResult, Result
    <3>5. T' = T
      BY <2>0 DEF T
    <3> QED BY <1>1, <2>0, <3>2, <3>3, <3>4, <3>5, CarriedOut DEF T
  <2> QED BY <2>1, <2>2
<1>5. CASE search(s)
  <2>0. /\ pc[s] = "check" /\ UNCHANGED <<db, call>> /\ c.op = "search"
        /\ res' = [res EXCEPT ![s] = Result("true", T)]
    BY <1>1, <1>5 DEF search, Seen, Return
  <2>1. T' = T
    BY <2>0
  <2> HIDE DEF T
  <2>2. /\ Abstract!Possible(T, c) /\ Abstract!Effect(T, c) = T
        /\ Abstract!Answer(T, c) = Result("true", T)
    BY <2>0 DEF Abstract!Possible, Abstract!Effect, Abstract!Answer, Abstract!Done,
                Abstract!NoResult, Result
  <2> QED BY <1>1, <2>0, <2>1, <2>2, CarriedOut DEF T
<1>6. CASE check(s)
  <2>0. pc[s] = "check" /\ UNCHANGED <<db, call>> /\ Seen = db /\ res[s] = Pending
    BY <1>1, <1>6 DEF check, Seen
  <2>1. CASE Return(s, False)
    BY <2>0, <2>1, Refused DEF Return
  <2>2. CASE Goes(s, "begin")
    BY <2>0, <2>2 DEF Goes, Abstract!vars
  <2>3. CASE Return(s, True) /\ c.op = "rename" /\ lower(c.dn) = lower(c.to) /\ storedDn(db, c.dn) # {}
    <3>1. T' = T
      BY <2>0
    <3>2. lower(c.dn) \in DOMAIN T
      BY <1>1, <2>3, TreeHas
    <3>3. lower(c.dn) # NoName
      BY <2>0, <2>3 DEF RInv, Answered, emptyNames, Working
    <3> HIDE DEF T
    <3>4. Abstract!Possible(T, c)
      BY <2>3, <3>2, <3>3 DEF Abstract!Possible
    <3>5. Abstract!Effect(T, c) = T /\ Abstract!Answer(T, c) = True
      BY <2>3, SameResults DEF Abstract!Effect, Abstract!Answer
    <3> QED BY <2>0, <2>3, <3>1, <3>4, <3>5, CarriedOut DEF T, Return
  <2> QED BY <1>6, <2>0, <2>1, <2>2, <2>3 DEF check
<1>7. CASE begin(s) \/ work(s) \/ workFails(s) \/ commitFails(s)
  BY <1>7 DEF begin, work, workFails, commitFails, Goes, Abstract!vars
<1>8. CASE beginFails(s)
  BY <1>1, <1>8, Refused DEF beginFails, Goes, Return, Abstract!vars
<1>9. CASE rollback(s)
  BY <1>1, <1>9, Refused DEF rollback, Return
<1>10. CASE commit(s)
  <2>1. /\ pc[s] = "commit" /\ db' = tx.tables /\ call' = call /\ res[s] = Pending
        /\ res' = [res EXCEPT ![s] = True]
    BY <1>1, <1>10 DEF commit, Return
  <2>2. Abstract!Possible(T, c) /\ Abstract!Effect(T, c) = allEntries(tx.tables)
    BY <2>1 DEF RInv, Answered, Outcome
  <2>3. T' = allEntries(tx.tables)
    BY <2>1
  <2>4. Abstract!Answer(T, c) = True
    <3> HIDE DEF T
    <3>1. c.op \notin {"lookup", "search"}
      BY <2>1 DEF RInv, Answered
    <3> QED BY <3>1, SameResults DEF Abstract!Answer
  <2> QED BY <2>1, <2>2, <2>3, <2>4, CarriedOut
<1>11. CASE proceed(s)
  BY <1>1, <1>11, SameResults DEF proceed, Abstract!Return
<1> QED BY <1>2, <1>3, <1>4, <1>5, <1>6, <1>7, <1>8, <1>9, <1>10, <1>11 DEF Proceeds

\* A crash and the next start are the abstract ones.
LEMMA LifeMaps ==
  ASSUME RInv, crash \/ initialize
  PROVE  Abstract!Crash \/ Abstract!Restart \/ UNCHANGED Abstract!vars
<1>1. CASE crash
  BY <1>1, SameResults DEF crash, Abstract!Crash
<1>2. CASE initialize /\ db' = db
  BY <1>2 DEF initialize, Abstract!vars
<1>3. CASE initialize /\ db' = seeded /\ db.entries = {}
  <2>1. allEntries(db) = NoTree
    BY <1>3 DEF allEntries, NoTree
  <2>2. call = [s \in Sessions |-> NoCall]
    <3>1. \A s \in Sessions : call[s] = NoCall
      BY <1>3 DEF initialize, RInv, IInv, Prepared, TypeOK
    <3> QED BY <3>1 DEF RInv, IInv, TypeOK
  <2>3. UNCHANGED <<call, res>>
    BY <1>3 DEF initialize
  <2>4. db' = [entries |-> {SeedFile[i].dn : i \in DOMAIN SeedFile},
               attributes |-> UNION {newRows(SeedFile[i].dn, SeedFile[i].attrs)
                                       : i \in DOMAIN SeedFile}]
    BY <1>3 DEF seeded
  <2> QED BY <2>1, <2>2, <2>3, <2>4, SameResults DEF Abstract!Restart
<1> QED BY <1>1, <1>2, <1>3 DEF initialize, seeded

\* The rows of the seed are keyed: no two records of it have one name.
LEMMA SeedKeyed == ASSUME Keyed(db.attributes) PROVE Keyed(seeded.attributes)
<1> DEFINE A == UNION {newRows(SeedFile[i].dn, SeedFile[i].attrs) : i \in DOMAIN SeedFile}
<1>1. Keyed(A)
  <2> SUFFICES ASSUME NEW r \in A, NEW q \in A,
                      r.dn = q.dn, r.type = q.type, r.pos = q.pos
               PROVE  r = q
    BY DEF Keyed
  <2>1. PICK i \in DOMAIN SeedFile : r \in newRows(SeedFile[i].dn, SeedFile[i].attrs)
    OBVIOUS
  <2>2. PICK j \in DOMAIN SeedFile : q \in newRows(SeedFile[j].dn, SeedFile[j].attrs)
    OBVIOUS
  <2>3. r.dn = SeedFile[i].dn /\ q.dn = SeedFile[j].dn
    BY <2>1, <2>2, NewKeyed
  <2>4. i = j
    BY <2>3, SeedAssumption
  <2> QED BY <2>1, <2>2, <2>4, NewKeyed DEF Keyed
<1>2. seeded.attributes = IF db.entries # {} THEN db.attributes ELSE A
  BY DEF seeded
<1> HIDE DEF A
<1> QED BY <1>1, <1>2

LEMMA AnsweredKeeps ==
  ASSUME RInv, IInv', NEW s \in Sessions, invoke(s) \/ Proceeds(s)
  PROVE  Answered'
<1>0. /\ res = [t \in Sessions |-> res[t]] /\ pc \in [Sessions -> {"idle", "lock", "returned"} \cup Working]
      /\ Keyed(db.attributes) /\ call \in [Sessions -> Calls \cup {NoCall}]
  BY DEF RInv, Answered, IInv, TypeOK
\* Nothing is claimed of another session that this step could disturb.
<1>1. ASSUME NEW next, NEW r,
             pc' = [pc EXCEPT ![s] = next], res' = [res EXCEPT ![s] = r],
             Keyed(db.attributes)',
             \A t \in Sessions \ {s} : call'[t] = call[t],
             UNCHANGED <<db, tx>> \/ pc[s] \in Working,
             next = "idle" => r = None,
             next \in {"lock"} \cup Working => r = Pending,
             next = "returned" => r # Pending,
             next \in Working => ~emptyNames(call'[s]),
             next = "commit" => call'[s].op \notin {"lookup", "search"} /\ Outcome(tx.tables, call[s])'
      PROVE  Answered'
  <2>1. /\ pc'[s] = next /\ \A t \in Sessions \ {s} : pc'[t] = pc[t]
        /\ res'[s] = r /\ \A t \in Sessions \ {s} : res'[t] = res[t]
        /\ res' = [t \in Sessions |-> res'[t]]
    BY <1>0, <1>1
  <2>2. ASSUME NEW t \in Sessions \ {s}, pc[t] = "commit"
        PROVE  Outcome(tx.tables, call[t])'
    <3>1. UNCHANGED <<db, tx>>
      BY <1>1, <2>2, Alone DEF RInv, IInv, Working
    <3>2. call'[t] = call[t]
      BY <1>1
    <3>3. Outcome(tx.tables, call[t])
      BY <2>2 DEF RInv, Answered
    <3> QED BY <3>1, <3>2, <3>3 DEF Outcome
  <2>3. ASSUME NEW t \in Sessions
        PROVE  /\ pc'[t] = "idle" => res'[t] = None
               /\ pc'[t] \in {"lock"} \cup Working => res'[t] = Pending
               /\ pc'[t] = "returned" => res'[t] # Pending
               /\ pc'[t] \in Working => ~emptyNames(call'[t])
               /\ pc'[t] = "commit" => /\ call'[t].op \notin {"lookup", "search"}
                                       /\ Outcome(tx.tables, call[t])'
    <3>1. CASE t = s
      BY <1>1, <2>1, <3>1
    <3>2. CASE t # s
      BY <1>1, <2>1, <2>2, <3>2 DEF RInv, Answered
    <3> QED BY <3>1, <3>2
  <2> QED BY <1>1, <2>1, <2>3 DEF Answered
<1>2. CASE invoke(s)
  BY <1>0, <1>1, <1>2 DEF invoke, Working
<1>3. CASE proceed(s)
  BY <1>0, <1>1, <1>3 DEF proceed, Working
<1>4. CASE lock(s)
  <2>0. UNCHANGED <<db, tx, call>> /\ pc[s] = "lock" /\ res[s] = Pending
    BY <1>4 DEF lock, RInv, Answered
  <2>1. CASE res' = [res EXCEPT ![s] = False] /\ pc' = [pc EXCEPT ![s] = "returned"]
    BY <1>0, <1>1, <2>0, <2>1, SameResults DEF Working
  <2>2. CASE pc' = [pc EXCEPT ![s] = "check"] /\ res' = res /\ ~emptyNames(call[s])
    <3>1. res' = [res EXCEPT ![s] = Pending]
      BY <1>0, <2>0, <2>2
    <3> QED BY <1>0, <1>1, <2>0, <2>2, <3>1 DEF Working
  <2> QED BY <1>4, <2>1, <2>2 DEF lock
<1>5. CASE lookup(s) \/ search(s) \/ check(s) \/ begin(s) \/ beginFails(s)
           \/ work(s) \/ workFails(s) \/ commit(s) \/ commitFails(s) \/ rollback(s)
  <2>0. /\ pc[s] \in Working /\ call' = call /\ res[s] = Pending /\ ~emptyNames(call[s])
        /\ call[s] \in Calls
    <3>1. pc[s] \in Working /\ call' = call
      BY <1>5 DEF lookup, search, check, begin, beginFails, work, workFails, commit, commitFails,
                  rollback, Working
    <3>2. pc[s] # "idle"
      BY <3>1 DEF Working
    <3> QED BY <3>1, <3>2 DEF RInv, Answered, IInv, TypeOK
  <2>1. ASSUME NEW r, Return(s, r), r # Pending, Keyed(db.attributes)' PROVE Answered'
    BY <1>1, <2>0, <2>1 DEF Return, Working
  <2>2. ASSUME NEW next \in Working \ {"commit"}, Goes(s, next), db' = db PROVE Answered'
    <3>1. pc' = [pc EXCEPT ![s] = next] /\ res' = [res EXCEPT ![s] = Pending]
      BY <1>0, <2>0, <2>2 DEF Goes
    <3> QED BY <1>0, <1>1, <2>0, <2>2, <3>1 DEF Working
  <2>3. CASE lookup(s) \/ search(s)
    <3>1. UNCHANGED db /\ \E r : Return(s, r) /\ r # Pending
      BY <2>3, SameResults DEF lookup, search
    <3> QED BY <1>0, <2>1, <3>1
  <2>4. CASE check(s) \/ beginFails(s)
    <3>1. True # Pending
      BY SameResults DEF True
    <3>2. UNCHANGED db /\ (Return(s, False) \/ Return(s, True) \/ Goes(s, "begin") \/ Goes(s, "rollback"))
      BY <2>4 DEF check, beginFails
    <3> QED BY <1>0, <2>1, <2>2, <3>1, <3>2, SameResults DEF Working
  <2>5. CASE begin(s) \/ workFails(s) \/ commitFails(s)
    <3>1. UNCHANGED db /\ (Goes(s, "work") \/ Goes(s, "rollback"))
      BY <2>5 DEF begin, workFails, commitFails
    <3> QED BY <2>2, <3>1 DEF Working
  <2>6. CASE rollback(s)
    BY <1>0, <2>1, <2>6, SameResults DEF rollback
  <2>7. CASE commit(s)
    <3>1. True # Pending
      BY SameResults DEF True
    <3>2. Return(s, True) /\ db' = tx.tables /\ Keyed(tx.tables.attributes)
      BY <2>7 DEF commit, RInv, Answered, Outcome
    <3> QED BY <2>1, <3>1, <3>2
  <2>8. CASE work(s)
    <3>1. /\ pc[s] = "work" /\ Goes(s, "commit") /\ db' = db
          /\ tx' = Begun(Worked(call[s], stored(call[s])))
      BY <2>8 DEF work
    <3>2. Fits(call[s]) /\ tx = Begun(db)
      BY <3>1 DEF RInv, IInv, Prepared
    <3>3. Outcome(Worked(call[s], stored(call[s])), call[s])
      BY <1>0, <2>0, <3>2, WorkedOutcome DEF RInv
    <3>4. tx'.tables = Worked(call[s], stored(call[s]))
      BY <3>1 DEF Begun
    <3>5. Outcome(tx.tables, call[s])'
      BY <2>0, <3>1, <3>3, <3>4 DEF Outcome
    <3>6. pc' = [pc EXCEPT ![s] = "commit"] /\ res' = [res EXCEPT ![s] = Pending]
      BY <1>0, <2>0, <3>1 DEF Goes
    <3>7. call[s].op \notin {"lookup", "search"}
      BY <3>2 DEF Fits
    <3> QED BY <1>0, <1>1, <2>0, <3>1, <3>5, <3>6, <3>7 DEF Working
  <2> QED BY <1>5, <2>3, <2>4, <2>5, <2>6, <2>7, <2>8
<1> QED BY <1>2, <1>3, <1>4, <1>5 DEF Proceeds

LEMMA AnsweredLives ==
  ASSUME RInv, crash \/ initialize
  PROVE  Answered'
<1>1. CASE crash
  <2>1. Keyed(db.attributes)' /\ \A s \in Sessions : pc'[s] = "idle" /\ res'[s] = None
    BY <1>1 DEF crash, RInv, Answered
  <2>2. res' = [s \in Sessions |-> res'[s]]
    BY <1>1 DEF crash
  <2> QED BY <2>1, <2>2 DEF Answered, Working
<1>2. CASE initialize
  <2>1. Keyed(db.attributes)'
    BY <1>2, SeedKeyed DEF initialize, RInv, Answered
  <2>2. /\ UNCHANGED <<pc, call, res>> /\ \A s \in Sessions : pc[s] = "idle"
    BY <1>2 DEF initialize, RInv, IInv, Prepared
  <2> QED BY <2>1, <2>2 DEF RInv, Answered, Working
<1> QED BY <1>1, <1>2

\* The SQLite backend is a backend of backend.hpp: each call takes effect in one
\* step on the tree that the committed tables hold or has no effect, a read
\* returns that tree, and a crash loses no call that was answered.
THEOREM SqliteImplementsBackend == Spec => ImplementsBackend
<1>1. Init => RInv /\ Abstract!Init
  <2> SUFFICES ASSUME Init PROVE RInv /\ Abstract!Init
    OBVIOUS
  <2>1. allEntries(NoTables) = NoTree
    BY DEF allEntries, NoTables, NoTree
  <2>2. Abstract!Init
    BY <2>1, SameResults DEF Init, Abstract!Init
  <2>3. Answered
    <3>1. Keyed(db.attributes)
      BY DEF Init, NoTables, Keyed
    <3> QED BY <3>1 DEF Init, Answered, Working
  <2> QED BY <2>2, <2>3, InitKeeps DEF RInv
<1>2. RInv /\ [Next]_vars => RInv' /\ [Abstract!Next]_(Abstract!vars)
  <2> SUFFICES ASSUME RInv, [Next]_vars PROVE RInv' /\ [Abstract!Next]_(Abstract!vars)
    OBVIOUS
  <2>0. IInv'
    BY StepKeeps DEF RInv
  <2>1. ASSUME NEW s \in Sessions, invoke(s) \/ Proceeds(s)
        PROVE  RInv' /\ [Abstract!Next]_(Abstract!vars)
    <3>1. Answered' /\ [Abstract!Next]_(Abstract!vars)
      BY <2>0, <2>1, AnsweredKeeps, SessionMaps DEF Abstract!Next
    <3> QED BY <2>0, <3>1 DEF RInv
  <2>2. CASE crash \/ initialize
    <3>1. Answered' /\ [Abstract!Next]_(Abstract!vars)
      BY <2>2, AnsweredLives, LifeMaps DEF Abstract!Next
    <3> QED BY <2>0, <3>1 DEF RInv
  <2>3. CASE UNCHANGED vars
    <3>1. UNCHANGED <<db, tx, pc, call, res>>
      BY <2>3 DEF vars
    <3>2. UNCHANGED Abstract!vars
      BY <3>1 DEF Abstract!vars
    <3>3. Answered'
      BY <3>1 DEF RInv, Answered, Outcome
    <3> QED BY <2>0, <3>2, <3>3 DEF RInv
  <2> QED BY <2>1, <2>2, <2>3 DEF Next
<1> QED BY <1>1, <1>2, PTL DEF Spec, ImplementsBackend, Abstract!Spec
=============================================================================
