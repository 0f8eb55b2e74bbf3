---------------------------- MODULE SqliteBackend ----------------------------
(***************************************************************************)
(* backend/sqlite.cpp: the directory in two tables of an SQLite file.      *)
(*                                                                         *)
(* All calls share one connection under one mutex.  A write checks the     *)
(* name, begins a transaction, changes the tables and commits; the steps   *)
(* can fail (the file is locked by another process, the disk is full), and *)
(* each way out must leave the connection without an open transaction:     *)
(* reads would see what it holds, and no other could begin.  The process   *)
(* may crash anywhere.  Statements that read are taken to succeed.         *)
(*                                                                         *)
(* A stored name has a spelling: it is <<name, spelling>>, and lower() of  *)
(* it is the name.  The column ord numbers the rows of an entry; here pos  *)
(* numbers them within their type, which is all that loadAttributes uses.  *)
(***************************************************************************)
EXTENDS Naturals, Sequences

CONSTANTS
  Sessions,
  Names,      \* names without spelling; NoName is the empty one
  NoName,
  Spellings,
  Attrs,      \* the attributes an entry may have: functions from types to sequences
  Cut,        \* what columnText reads of each value: it ends at a NUL byte
  Calls,      \* the calls of the sessions: [op, dn, to, attrs]
  SeedFile    \* the content records of ldif_file, a sequence of [dn, attrs]

Dns == Names \X Spellings
lower(d) == d[1]

ASSUME CallsAssumption ==
  /\ \A c \in Calls : /\ c.op \in {"lookup", "search", "add", "modify", "remove", "rename"}
                      /\ c.dn \in Dns /\ c.to \in Dns /\ c.attrs \in Attrs
\* parseLdifFile may return two spellings of one name; no check refuses them.
ASSUME SeedAssumption ==
  /\ \A i \in DOMAIN SeedFile : /\ SeedFile[i].dn \in Dns /\ SeedFile[i].attrs \in Attrs
                                /\ lower(SeedFile[i].dn) # NoName
  /\ \A i, j \in DOMAIN SeedFile : lower(SeedFile[i].dn) = lower(SeedFile[j].dn) => i = j
ASSUME AttrsAssumption ==
  \A a \in Attrs : \A u \in DOMAIN a : u \in STRING /\ a[u] \in Seq(DOMAIN Cut)
ASSUME CutAssumption == \A v \in DOMAIN Cut : Cut[v] \in DOMAIN Cut /\ Cut[Cut[v]] = Cut[v]

VARIABLES
  up,      \* initialize() has succeeded and the process runs
  db,      \* the committed tables: entries and attributes
  tx,      \* the tables as the open transaction sees them, or NoTx
  mutex,   \* the session that holds Impl::mutex, or Nobody
  pc,      \* where each session is in its call
  call,    \* the call each session is in
  res      \* its result

vars == <<up, db, tx, mutex, pc, call, res>>

NoTables == [entries |-> {}, attributes |-> {}]
NoTx == [open |-> "no", tables |-> NoTables]
Begun(tables) == [open |-> "yes", tables |-> tables]
Nobody == "nobody"

ASSUME SessionsAssumption == Nobody \notin Sessions

NoCall == [op |-> "none"]
NoTree == [n \in {} |-> 0]
Result(ok, read) == [ok |-> ok, read |-> read]
None == Result("none", NoTree)
Pending == Result("pending", NoTree)
False == Result("false", NoTree)
True == Result("true", NoTree)

-----------------------------------------------------------------------------
(* The tables.                                                             *)

\* The tables a statement of this connection sees.
Seen == IF tx = NoTx THEN db ELSE tx.tables

\* storedDn: the spellings under which a name is stored.
storedDn(t, d) == {e \in t.entries : lower(e) = lower(d)}

\* loadAttributes: a type is there if it has a row.
rowsOf(t, d) == {r \in t.attributes : r.dn = d}
loadAttributes(t, d) ==
  [u \in {r.type : r \in rowsOf(t, d)} |->
     [i \in {r.pos : r \in {q \in rowsOf(t, d) : q.type = u}} |->
        Cut[(CHOOSE r \in rowsOf(t, d) : r.type = u /\ r.pos = i).value]]]

\* allEntries.
allEntries(t) ==
  [n \in {lower(d) : d \in t.entries} |->
     loadAttributes(t, CHOOSE d \in t.entries : lower(d) = n)]

\* writeAttributes: the rows of the entry go, those of a come.  It may stop
\* after some of them.
newRows(d, a) ==
  UNION {{[dn |-> d, type |-> u, pos |-> i, value |-> a[u][i]] : i \in DOMAIN a[u]}
           : u \in DOMAIN a}
writeSome(t, d, rows) == [t EXCEPT !.attributes = (@ \ rowsOf(t, d)) \cup rows]
\* Mutant: the old rows stay.
writeAttributes_noDelete(t, d, a) == [t EXCEPT !.attributes = @ \cup newRows(d, a)]
writeAttributes(t, d, a) == writeSome(t, d, newRows(d, a))

insertEntry(t, d) == [t EXCEPT !.entries = @ \cup {d}]

\* ON DELETE CASCADE and ON UPDATE CASCADE.
deleteEntry(t, d) ==
  [entries |-> t.entries \ {d}, attributes |-> t.attributes \ rowsOf(t, d)]
updateEntry(t, d, to) ==
  [entries |-> (t.entries \ {d}) \cup {to},
   attributes |-> {IF r.dn = d THEN [r EXCEPT !.dn = to] ELSE r : r \in t.attributes}]

-----------------------------------------------------------------------------
(* A call.                                                                 *)

\* The function returns, which releases the mutex.
Return(s, r) ==
  /\ res' = [res EXCEPT ![s] = r]
  /\ pc' = [pc EXCEPT ![s] = "returned"]
  /\ mutex' = Nobody

Goes(s, next) == pc' = [pc EXCEPT ![s] = next] /\ UNCHANGED <<mutex, res>>

\* A session calls the backend.
invoke(s) ==
  /\ up /\ pc[s] = "idle"
  /\ \E c \in Calls : call' = [call EXCEPT ![s] = c]
  /\ res' = [res EXCEPT ![s] = Pending]
  /\ pc' = [pc EXCEPT ![s] = "lock"]
  /\ UNCHANGED <<up, db, tx, mutex>>

\* Empty names are turned away before the lock; everybody else takes it.
emptyNames(c) == \/ c.op = "add" /\ lower(c.dn) = NoName
                 \/ c.op = "rename" /\ NoName \in {lower(c.dn), lower(c.to)}
lock(s) ==
  /\ pc[s] = "lock"
  /\ IF emptyNames(call[s])
     THEN /\ res' = [res EXCEPT ![s] = False]
          /\ pc' = [pc EXCEPT ![s] = "returned"]
          /\ UNCHANGED mutex
     ELSE /\ mutex = Nobody /\ mutex' = s
          /\ pc' = [pc EXCEPT ![s] = "check"]
          /\ UNCHANGED res
  /\ UNCHANGED <<up, db, tx, call>>

\* lookup and search return at once.
lookup(s) ==
  LET found == storedDn(Seen, call[s].dn)
  IN  /\ pc[s] = "check" /\ call[s].op = "lookup"
      /\ Return(s, IF found = {} THEN False
                   ELSE Result("true", loadAttributes(Seen, CHOOSE d \in found : TRUE)))
      /\ UNCHANGED <<up, db, tx, call>>

search(s) ==
  /\ pc[s] = "check" /\ call[s].op = "search"
  /\ Return(s, Result("true", allEntries(Seen)))
  /\ UNCHANGED <<up, db, tx, call>>

\* Mutant: a name is looked for as it is spelled.
check_exactName(s) ==
  LET c == call[s]
  IN  /\ pc[s] = "check" /\ c.op \notin {"lookup", "search"}
      /\ IF (c.op = "add") = (c.dn \in Seen.entries)
         THEN Return(s, False) ELSE Goes(s, "begin")
      /\ UNCHANGED <<up, db, tx, call>>

\* add, modify, remove and rename look for the name or names first.
check(s) ==
  LET c    == call[s]
      have == storedDn(Seen, c.dn) # {}
  IN  /\ pc[s] = "check" /\ c.op \notin {"lookup", "search"}
      /\ IF (c.op = "add") = have                          THEN Return(s, False)
         ELSE IF c.op = "rename" /\ lower(c.dn) = lower(c.to)     THEN Return(s, True)
         ELSE IF c.op = "rename" /\ storedDn(Seen, c.to) # {}     THEN Return(s, False)
         ELSE Goes(s, "begin")
      /\ UNCHANGED <<up, db, tx, call>>

\* BEGIN IMMEDIATE ...
begin(s) ==
  /\ pc[s] = "begin" /\ tx = NoTx
  /\ tx' = Begun(db)
  /\ Goes(s, "work")
  /\ UNCHANGED <<up, db, call>>

\* ... which fails inside a transaction, or when another process has held the
\* file for the busy timeout.  modify() rolls back, the others return.
beginFails(s) ==
  /\ pc[s] = "begin"
  /\ IF call[s].op = "modify" THEN Goes(s, "rollback") ELSE Return(s, False)
  /\ UNCHANGED <<up, db, tx, call>>

\* What the statements of a write do to the tables; d is the stored spelling.
Worked(c, d) ==
  CASE c.op = "add"    -> writeAttributes(insertEntry(tx.tables, c.dn), c.dn, c.attrs)
    [] c.op = "modify" -> writeAttributes(tx.tables, d, c.attrs)
    [] c.op = "remove" -> deleteEntry(tx.tables, d)
    [] c.op = "rename" -> updateEntry(tx.tables, d, c.to)

stored(c) == CHOOSE d \in Dns : d \in storedDn(tx.tables, c.dn)

work(s) ==
  /\ pc[s] = "work"
  /\ tx' = Begun(Worked(call[s], stored(call[s])))
  /\ Goes(s, "commit")
  /\ UNCHANGED <<up, db, call>>

\* A statement fails: add and modify have made some of their changes by then.
Half(c) ==
  {tx.tables} \cup
  CASE c.op = "add" ->
         {writeSome(insertEntry(tx.tables, c.dn), c.dn, R) : R \in SUBSET newRows(c.dn, c.attrs)}
    [] c.op = "modify" ->
         {writeSome(tx.tables, stored(c), R) : R \in SUBSET newRows(stored(c), c.attrs)}
    [] OTHER -> {}
workFails(s) ==
  /\ pc[s] = "work"
  /\ \E tables \in Half(call[s]) : tx' = Begun(tables)
  /\ Goes(s, "rollback")
  /\ UNCHANGED <<up, db, call>>

commit(s) ==
  /\ pc[s] = "commit"
  /\ db' = tx.tables /\ tx' = NoTx
  /\ Return(s, True)
  /\ UNCHANGED <<up, call>>

\* COMMIT fails; the transaction is still open, or SQLite has ended it.
commitFails(s) ==
  /\ pc[s] = "commit"
  /\ tx' \in {tx, NoTx}
  /\ Goes(s, "rollback")
  /\ UNCHANGED <<up, db, call>>

\* Mutant: the error path returns without ROLLBACK.
rollback_missing(s) ==
  /\ pc[s] = "rollback"
  /\ Return(s, False)
  /\ UNCHANGED <<up, db, tx, call>>

rollback(s) ==
  /\ pc[s] = "rollback"
  /\ tx' = NoTx
  /\ Return(s, False)
  /\ UNCHANGED <<up, db, call>>

\* Mutant: the call is still there when the session is idle.
proceed_keepsCall(s) ==
  /\ pc[s] = "returned"
  /\ pc' = [pc EXCEPT ![s] = "idle"]
  /\ res' = [res EXCEPT ![s] = None]
  /\ UNCHANGED <<up, db, tx, mutex, call>>

\* The session goes on with the result.
proceed(s) ==
  /\ pc[s] = "returned"
  /\ pc' = [pc EXCEPT ![s] = "idle"]
  /\ call' = [call EXCEPT ![s] = NoCall]
  /\ res' = [res EXCEPT ![s] = None]
  /\ UNCHANGED <<up, db, tx, mutex>>

-----------------------------------------------------------------------------
\* The process dies: what was committed stays.
crash ==
  /\ up
  /\ up' = FALSE
  /\ tx' = NoTx /\ mutex' = Nobody
  /\ pc' = [s \in Sessions |-> "idle"]
  /\ call' = [s \in Sessions |-> NoCall]
  /\ res' = [s \in Sessions |-> None]
  /\ UNCHANGED db

\* The tables after the import of the seed, which an empty database gets in
\* one transaction.
seeded ==
  IF db.entries # {} THEN db
  ELSE [entries |-> {SeedFile[i].dn : i \in DOMAIN SeedFile},
        attributes |-> UNION {newRows(SeedFile[i].dn, SeedFile[i].attrs)
                                : i \in DOMAIN SeedFile}]

\* initialize(): the daemon does not start if any of it fails.
initialize ==
  /\ ~up
  /\ \/ up' = TRUE /\ db' = seeded
     \/ UNCHANGED <<up, db>>
  /\ UNCHANGED <<tx, mutex, pc, call, res>>

Init ==
  /\ up = FALSE
  /\ db = NoTables /\ tx = NoTx
  /\ mutex = Nobody
  /\ pc = [s \in Sessions |-> "idle"]
  /\ call = [s \in Sessions |-> NoCall]
  /\ res = [s \in Sessions |-> None]

Proceeds(s) ==
  \/ lock(s) \/ lookup(s) \/ search(s) \/ check(s)
  \/ begin(s) \/ beginFails(s) \/ work(s) \/ workFails(s)
  \/ commit(s) \/ commitFails(s) \/ rollback(s) \/ proceed(s)

Next == (\E s \in Sessions : invoke(s) \/ Proceeds(s)) \/ crash \/ initialize

Spec == Init /\ [][Next]_vars

-----------------------------------------------------------------------------
Row == [dn : Dns, type : STRING, pos : Nat, value : DOMAIN Cut]
Tables == [entries : SUBSET Dns, attributes : SUBSET Row]
Working == {"begin", "work", "commit", "rollback", "check"}

\* Every session is at a step of a call, holds the mutex while it works, and
\* the tables are tables.
TypeOK ==
  /\ up \in BOOLEAN
  /\ db \in Tables
  /\ tx \in [open : {"yes"}, tables : Tables] \cup {NoTx}
  /\ mutex \in Sessions \cup {Nobody}
  /\ pc \in [Sessions -> {"idle", "lock", "returned"} \cup Working]
  /\ call \in [Sessions -> Calls \cup {NoCall}]
  /\ \A s \in Sessions : pc[s] = "idle" <=> call[s] = NoCall

\* Whatever failed, a transaction is open only between the begin and the end
\* of one call, whose session holds the mutex.
NoTransactionLeft ==
  /\ \A s \in Sessions : pc[s] \in Working <=> mutex = s
  /\ tx # NoTx => \E s \in Sessions : pc[s] \in {"work", "commit", "rollback"}

Consistent(t) ==
  /\ \A d, e \in t.entries : lower(d) = lower(e) => d = e
  /\ \A r \in t.attributes : r.dn \in t.entries

\* A name is stored under one spelling only, and every row belongs to an entry.
TablesConsistent == Consistent(db)

\* The promise of backend.hpp: each operation happens at once or not at all
\* for everybody, a session that was told true will find it after a crash,
\* and a read returns what was committed.
Abstract ==
  INSTANCE Backend WITH
    nameOf <- lower,
    Kept <- [a \in Attrs |->
               [t \in {u \in DOMAIN a : a[u] # << >>} |->
                  [i \in DOMAIN a[t] |-> Cut[a[t][i]]]]],
    Empty <- NoTree,
    Seed <- allEntries([entries |-> {SeedFile[i].dn : i \in DOMAIN SeedFile},
                        attributes |-> UNION {newRows(SeedFile[i].dn, SeedFile[i].attrs)
                                                : i \in DOMAIN SeedFile}]),
    tree <- allEntries(db)
ImplementsBackend == Abstract!Spec
=============================================================================
