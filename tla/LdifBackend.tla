----------------------------- MODULE LdifBackend -----------------------------
(***************************************************************************)
(* The file behind backend/ldif.cpp.                                       *)
(*                                                                         *)
(* A write handler changes the tree, then calls persist(), which rewrites  *)
(* the whole ldif_file under persist_mutex_: it opens the file (which      *)
(* truncates it), takes a snapshot of the tree with search(), writes the   *)
(* entries in the order of the map, and closes.  Other sessions go on      *)
(* changing the tree meanwhile.  A file that cannot be opened or written   *)
(* is only logged and the client still gets Success.  ModifyDN changes the *)
(* tree twice, and does not persist when the second change is refused.     *)
(* The process may crash anywhere; at the next start the file is imported. *)
(*                                                                         *)
(* Names, and the attribute values of an entry, are numbers, in the order  *)
(* in which export writes them.  The file is the sequence of its lines.    *)
(* Export writes a value as it is, so that one with a line break becomes   *)
(* several lines, Lines[a], and import trims and splits what it reads.     *)
(***************************************************************************)
EXTENDS Naturals, SequencesExt

CONSTANTS
  Sessions,
  Names,        \* names of entries
  Attributes,   \* attribute types with a value
  Lines,        \* how the lines that export writes for each of them read
  Cut,          \* how a line of which only a beginning was written can read
  Contents,     \* the sets of attributes that clients store
  Seeds,        \* the files there may be at the first start
  MaxChanges    \* bound on the writes of one life of the process

ASSUME ContentsAssumption == Contents \subseteq SUBSET Attributes
ASSUME BoundAssumption == MaxChanges \in Nat

VARIABLES
  up,        \* the process runs
  tree,      \* MemoryBackend::entries_
  file,      \* the lines of ldif_file
  pc,        \* where each session is: idle, store, rename, persist, opened, writing
  move,      \* the two names of the ModifyDN a session is in
  snap,      \* the entries a session in exportFile read
  failed,    \* the last export or import did not go through
  half,      \* a ModifyDN ended after its first write, and nobody has exported since
  ver,       \* number of changes made to the tree
  mine,      \* the number of the last change of the request in hand
  snapVer,   \* the number of changes a snapshot includes
  fileVer,   \* the number of changes the last complete file includes
  ackVer     \* the last change whose client has been told Success

vars == <<up, tree, file, pc, move, snap, failed, half, ver, mine, snapVer, fileVer, ackVer>>

Trees == UNION {[N -> SUBSET Attributes] : N \in SUBSET Names}
Empty == [n \in {} |-> {}]
NoMove == <<0, 0>>

\* How importFile reads a line: it starts an entry, it is an attribute, it ends
\* an entry, or it is passed over.
Dn(n) == <<"dn", n>>
Attr(a) == <<"attr", a>>
Blank == <<"blank", 0>>
Skip == <<"skip", 0>>

\* exportFile: the lines of a tree.
exportEntry(n, e) ==
  <<Dn(n)>> \o FlattenSeq([i \in 1..Cardinality(e) |-> Lines[SetToSortSeq(e, <)[i]]]) \o <<Blank>>
exportText(t) ==
  LET order == SetToSortSeq(DOMAIN t, <)
  IN  FlattenSeq([i \in 1..Cardinality(DOMAIN t) |-> exportEntry(order[i], t[order[i]])])

\* importFile: an entry has the attributes from its dn line to the line that
\* flushes it, and those before its dn line that belong to no entry.  Of two
\* entries with one name, add() takes the first.
importFile(text) ==
  LET at == DOMAIN text
      starts == {p \in at : text[p][1] = "dn"}
      flushed(p, i) == \E q \in at : p < q /\ q <= i /\ text[q][1] \in {"dn", "blank"}
      entry(p) == {i \in at : \/ p < i /\ ~flushed(p, i)
                              \/ i < p /\ \A q \in starts : q < p => flushed(q, i)}
      places(n) == {p \in at : text[p] = Dn(n)}
      first(n) == CHOOSE p \in places(n) : \A q \in places(n) : p <= q
  IN  [n \in {m \in Names : places(m) # {}} |->
         {a \in Attributes : \E i \in entry(first(n)) : text[i] = Attr(a)}]

\* The beginnings of the file, with a last line that may not be whole.
Partial(text) ==
  {SubSeq(text, 1, k) : k \in 0..Len(text)}
    \cup UNION {{Append(SubSeq(text, 1, k - 1), l) : l \in Cut[text[k]]} : k \in DOMAIN text}

Exporting == {"opened", "writing"}
lockFree == \A s \in Sessions : pc[s] \notin Exporting

-----------------------------------------------------------------------------
\* The tree with the entry of one name stored, or removed.
Put(t, n, v) == [m \in DOMAIN t \cup {n} |-> IF m = n THEN v ELSE t[m]]
Erase(t, n) == [m \in DOMAIN t \ {n} |-> t[m]]

\* Mutant: the handler does not call persist().
write_noPersist(s) ==
  /\ up /\ pc[s] = "idle" /\ ver < MaxChanges
  /\ \E n \in Names, e \in Contents : tree' = Put(tree, n, e)
  /\ ver' = ver + 1
  /\ mine' = [mine EXCEPT ![s] = ver + 1]
  /\ UNCHANGED <<up, file, pc, move, snap, failed, half, snapVer, fileVer, ackVer>>

\* The add, the modify or the remove of a handler, under mutex_.
write(s) ==
  /\ up /\ pc[s] = "idle" /\ ver < MaxChanges
  /\ \/ \E n \in Names, e \in Contents : tree' = Put(tree, n, e)
     \/ \E n \in DOMAIN tree : tree' = Erase(tree, n)
  /\ ver' = ver + 1
  /\ mine' = [mine EXCEPT ![s] = ver + 1]
  /\ pc' = [pc EXCEPT ![s] = "persist"]
  /\ UNCHANGED <<up, file, move, snap, failed, half, snapVer, fileVer, ackVer>>

\* handleModifyDn finds the entry, and the new name free or the same.
handleModifyDn(s) ==
  /\ up /\ pc[s] = "idle" /\ ver < MaxChanges
  /\ \E from \in DOMAIN tree : \E to \in (Names \ DOMAIN tree) \cup {from} :
       move' = [move EXCEPT ![s] = <<from, to>>]
  /\ pc' = [pc EXCEPT ![s] = "store"]
  /\ UNCHANGED <<up, tree, file, snap, failed, half, ver, mine, snapVer, fileVer, ackVer>>

\* The entry is stored under its old name, with the attribute of its new RDN.
modifyDnStore(s) ==
  /\ up /\ pc[s] = "store" /\ move[s][1] \in DOMAIN tree
  /\ \E e \in Contents : tree' = Put(tree, move[s][1], e)
  /\ ver' = ver + 1
  /\ mine' = [mine EXCEPT ![s] = ver + 1]
  /\ pc' = [pc EXCEPT ![s] = "rename"]
  /\ UNCHANGED <<up, file, move, snap, failed, half, snapVer, fileVer, ackVer>>

\* Then it is renamed.
modifyDnRename(s) ==
  LET from == move[s][1]
      to   == move[s][2]
  IN  /\ up /\ pc[s] = "rename"
      /\ from \in DOMAIN tree /\ to \notin DOMAIN tree \ {from}
      /\ tree' = Put(Erase(tree, from), to, tree[from])
      /\ ver' = ver + 1
      /\ mine' = [mine EXCEPT ![s] = ver + 1]
      /\ pc' = [pc EXCEPT ![s] = "persist"]
      /\ move' = [move EXCEPT ![s] = NoMove]
      /\ UNCHANGED <<up, file, snap, failed, half, snapVer, fileVer, ackVer>>

\* Another session has removed the entry or taken the new name meanwhile: an
\* error, and no persist() of what may have been stored.
modifyDnFails(s) ==
  LET from == move[s][1]
      to   == move[s][2]
  IN  /\ up
      /\ \/ pc[s] = "store" /\ from \notin DOMAIN tree
         \/ pc[s] = "rename" /\ (from \notin DOMAIN tree \/ to \in DOMAIN tree \ {from})
      /\ half' = (half \/ pc[s] = "rename")
      /\ pc' = [pc EXCEPT ![s] = "idle"]
      /\ move' = [move EXCEPT ![s] = NoMove]
      /\ mine' = [mine EXCEPT ![s] = 0]
      /\ UNCHANGED <<up, tree, file, snap, failed, ver, snapVer, fileVer, ackVer>>

\* Mutant: the error path leaves the handler without an answer.
answer_never(s) ==
  /\ pc' = [pc EXCEPT ![s] = "failed"]
  /\ UNCHANGED <<snap, snapVer, mine, ackVer>>

\* The client is answered Success whether or not the file could be written.
answer(s) ==
  /\ pc' = [pc EXCEPT ![s] = "idle"]
  /\ snap' = [snap EXCEPT ![s] = Empty]
  /\ snapVer' = [snapVer EXCEPT ![s] = 0]
  /\ mine' = [mine EXCEPT ![s] = 0]
  /\ ackVer' = IF mine[s] > ackVer THEN mine[s] ELSE ackVer

\* Mutant: persist() does not take persist_mutex_.
persist_noLock(s) ==
  /\ up /\ pc[s] = "persist"
  /\ file' = << >>
  /\ pc' = [pc EXCEPT ![s] = "opened"]
  /\ UNCHANGED <<up, tree, move, snap, failed, half, ver, mine, snapVer, fileVer, ackVer>>

\* persist() gets persist_mutex_ and opens the file, which truncates it.
persist(s) ==
  /\ up /\ pc[s] = "persist" /\ lockFree
  /\ file' = << >>
  /\ pc' = [pc EXCEPT ![s] = "opened"]
  /\ UNCHANGED <<up, tree, move, snap, failed, half, ver, mine, snapVer, fileVer, ackVer>>

\* It cannot be opened: a warning, nothing else.
persistFails(s) ==
  /\ up /\ pc[s] = "persist" /\ lockFree
  /\ failed' = TRUE
  /\ answer(s)
  /\ UNCHANGED <<up, tree, file, move, half, ver, fileVer>>

\* exportFile's search() copies the tree under mutex_.
exportSearch(s) ==
  /\ up /\ pc[s] = "opened"
  /\ snap' = [snap EXCEPT ![s] = tree]
  /\ snapVer' = [snapVer EXCEPT ![s] = ver]
  /\ half' = FALSE
  /\ pc' = [pc EXCEPT ![s] = "writing"]
  /\ UNCHANGED <<up, tree, file, move, failed, ver, mine, fileVer, ackVer>>

\* All entries are written and the file is closed.
exportFile(s) ==
  /\ up /\ pc[s] = "writing"
  /\ file' = exportText(snap[s])
  /\ fileVer' = snapVer[s]
  /\ failed' = FALSE
  /\ answer(s)
  /\ UNCHANGED <<up, tree, move, half, ver>>

\* The stream fails in the middle (a full disk).
exportFails(s) ==
  /\ up /\ pc[s] = "writing"
  /\ file' \in Partial(exportText(snap[s]))
  /\ failed' = TRUE
  /\ answer(s)
  /\ UNCHANGED <<up, tree, move, half, ver, fileVer>>

\* The process dies.  What an export in progress had handed to the system
\* stays in the file.  The counters start over with the next process.
crash ==
  /\ up
  /\ up' = FALSE
  /\ file' \in IF \E s \in Sessions : pc[s] = "writing"
               THEN UNION {Partial(exportText(snap[s])) : s \in {t \in Sessions : pc[t] = "writing"}}
               ELSE {file}
  /\ tree' = Empty
  /\ pc' = [s \in Sessions |-> "idle"]
  /\ move' = [s \in Sessions |-> NoMove]
  /\ snap' = [s \in Sessions |-> Empty]
  /\ half' = FALSE
  /\ mine' = [s \in Sessions |-> 0]
  /\ snapVer' = [s \in Sessions |-> 0]
  /\ ver' = 0 /\ fileVer' = 0 /\ ackVer' = 0
  /\ UNCHANGED failed

\* LdifBackend::initialize and importFile.  A file that cannot be read is
\* logged by the daemon, which goes on with an empty tree.
initialize ==
  /\ ~up
  /\ up' = TRUE
  /\ \/ tree' = importFile(file) /\ failed' = FALSE
     \/ tree' = Empty /\ failed' = TRUE
  /\ UNCHANGED <<file, pc, move, snap, half, ver, mine, snapVer, fileVer, ackVer>>

Init ==
  /\ up = FALSE
  /\ tree = Empty
  /\ file \in Seeds
  /\ pc = [s \in Sessions |-> "idle"]
  /\ move = [s \in Sessions |-> NoMove]
  /\ snap = [s \in Sessions |-> Empty]
  /\ failed = FALSE /\ half = FALSE
  /\ ver = 0 /\ fileVer = 0 /\ ackVer = 0
  /\ mine = [s \in Sessions |-> 0]
  /\ snapVer = [s \in Sessions |-> 0]

Next ==
  \/ \E s \in Sessions : \/ write(s)
                         \/ handleModifyDn(s) \/ modifyDnStore(s)
                         \/ modifyDnRename(s) \/ modifyDnFails(s)
                         \/ persist(s) \/ persistFails(s)
                         \/ exportSearch(s) \/ exportFile(s) \/ exportFails(s)
  \/ crash
  \/ initialize

Spec == Init /\ [][Next]_vars

-----------------------------------------------------------------------------
\* The tree and every snapshot of exportFile are trees of entries, and a session
\* is idle, about to make one of the two writes of a ModifyDN, about to persist,
\* or in exportFile.
TypeOK ==
  /\ up \in BOOLEAN /\ failed \in BOOLEAN /\ half \in BOOLEAN
  /\ tree \in Trees
  /\ pc \in [Sessions -> {"idle", "store", "rename", "persist"} \cup Exporting]
  /\ move \in [Sessions -> (Names \X Names) \cup {NoMove}]
  /\ \A s \in Sessions : pc[s] \in {"store", "rename"} => move[s] \in Names \X Names
  /\ snap \in [Sessions -> Trees]
  /\ ver \in Nat /\ fileVer \in Nat /\ ackVer \in Nat
  /\ mine \in [Sessions -> Nat] /\ snapVer \in [Sessions -> Nat]

\* When every session has been answered and the last export went through, the
\* file is the one that the tree was imported from or the export of the tree as
\* it is.  It holds again after a crash and a restart.  The exception is a
\* ModifyDN whose rename was refused: until somebody exports, its first write
\* is in the tree and not in the file.
QuietFileCurrent ==
  up /\ ~failed /\ ~half /\ (\A s \in Sessions : pc[s] = "idle") =>
    IF ver = 0 THEN tree = importFile(file) ELSE file = exportText(tree)

\* A client that has been told Success finds its change in the file, even
\* while other sessions have changes that are not yet saved: no export puts
\* an older snapshot over a newer one.
AckedWritesSaved == up /\ ~failed /\ lockFree => ackVer <= fileVer

\* A completed file never includes fewer changes than the one before it.
FileNeverGoesBack == [][up /\ up' => fileVer' >= fileVer]_fileVer

\* Why they hold.  Only one session is in exportFile, and a process that is
\* down has no session.
OneExporter ==
  /\ \A s, t \in Sessions : pc[s] \in Exporting /\ pc[t] \in Exporting => s = t
  /\ ~up => \A s \in Sessions : pc[s] = "idle"

\* No counter is ahead of the tree, and the snapshot being written includes
\* the session's own change, all that the file had and all that was answered.
VersionsOrdered ==
  /\ ~up => ver = 0
  /\ fileVer <= ver /\ ackVer <= ver
  /\ \A s \in Sessions :
       /\ mine[s] <= ver /\ snapVer[s] <= ver
       /\ pc[s] \notin {"idle", "store"} => ver > 0
       /\ pc[s] = "writing" => /\ mine[s] <= snapVer[s]
                               /\ fileVer <= snapVer[s]
                               /\ ackVer <= snapVer[s]

\* Equal counters mean equal contents.
ContentsMatch ==
  /\ \A s \in Sessions : pc[s] = "writing" /\ snapVer[s] = ver => snap[s] = tree
  /\ up /\ ~failed /\ lockFree /\ fileVer = ver =>
       IF ver = 0 THEN tree = importFile(file) ELSE file = exportText(tree)

\* The last change is in the file, or in the snapshot being written, or
\* somebody has yet to take a snapshot, or a ModifyDN left it.
LastChangeUnderWay ==
  up => \/ half
        \/ \E s \in Sessions : pc[s] \in {"rename", "persist", "opened"}
        \/ \E s \in Sessions : pc[s] = "writing" /\ snapVer[s] = ver
        \/ lockFree /\ (failed \/ fileVer = ver)

IInv == /\ TypeOK /\ OneExporter /\ VersionsOrdered
        /\ ContentsMatch /\ LastChangeUnderWay /\ AckedWritesSaved

\* "successful writes persist back to this path", without the proviso that
\* the last export went through.
SuccessfulWritesPersist == up /\ lockFree => ackVer <= fileVer
=============================================================================
