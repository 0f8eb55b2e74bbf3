-------------------------- MODULE LdifBackend_proofs --------------------------
(***************************************************************************)
(* Proofs about LdifBackend, for every set of sessions, names, contents    *)
(* and files to start from: IInv is an inductive invariant and implies the *)
(* three properties.                                                       *)
(***************************************************************************)
EXTENDS LdifBackend, TLAPS

USE ContentsAssumption, BoundAssumption

-----------------------------------------------------------------------------
(* Trees and what an import reads of them.                                 *)

\* A function on a set of names with sets of attributes as values is a tree.
LEMMA TreeIntro ==
  ASSUME NEW N \in SUBSET Names, NEW f \in [N -> SUBSET Attributes]
  PROVE  f \in Trees
BY DEF Trees

\* And every tree is such a function.
LEMMA TreeElim ==
  ASSUME NEW t \in Trees
  PROVE  /\ DOMAIN t \in SUBSET Names
         /\ t \in [DOMAIN t -> SUBSET Attributes]
BY DEF Trees

\* The empty tree is a tree.
LEMMA EmptyTree == Empty \in Trees
<1>1. Empty \in [{} -> SUBSET Attributes]
  BY DEF Empty
<1> QED BY <1>1, TreeIntro

\* Whatever lines the file has, importFile makes a tree of them.
LEMMA ImportTree == ASSUME NEW text PROVE importFile(text) \in Trees
<1> DEFINE f == importFile(text)
<1>1. DOMAIN f \in SUBSET Names /\ f \in [DOMAIN f -> SUBSET Attributes]
  BY DEF importFile
<1> QED BY <1>1, TreeIntro

\* Storing and removing an entry leave a tree.
LEMMA PutTree ==
  ASSUME NEW t \in Trees, NEW n \in Names, NEW e \in SUBSET Attributes
  PROVE  Put(t, n, e) \in Trees
<1>1. DOMAIN t \in SUBSET Names /\ t \in [DOMAIN t -> SUBSET Attributes]
  BY TreeElim
<1>2. Put(t, n, e) \in [DOMAIN t \cup {n} -> SUBSET Attributes]
  BY <1>1 DEF Put
<1> QED BY <1>1, <1>2, TreeIntro

\* The same for remove, and what it removed was an entry under a name.
LEMMA EraseTree ==
  ASSUME NEW t \in Trees, NEW n \in DOMAIN t
  PROVE  Erase(t, n) \in Trees /\ n \in Names /\ t[n] \in SUBSET Attributes
<1>1. DOMAIN t \in SUBSET Names /\ t \in [DOMAIN t -> SUBSET Attributes]
  BY TreeElim
<1>2. Erase(t, n) \in [DOMAIN t \ {n} -> SUBSET Attributes]
  BY <1>1 DEF Erase
<1> QED BY <1>1, <1>2, TreeIntro

-----------------------------------------------------------------------------
(* The type invariant.                                                     *)

\* Every step keeps TypeOK.
LEMMA TypeStep == TypeOK /\ [Next]_vars => TypeOK'
<1> SUFFICES ASSUME TypeOK, [Next]_vars PROVE TypeOK'
  OBVIOUS
<1> USE DEF TypeOK, Exporting
<1>1. ASSUME NEW s \in Sessions, write(s) PROVE TypeOK'
  <2>1. tree' \in Trees
    <3>1. ASSUME NEW n \in Names, NEW e \in Contents, tree' = Put(tree, n, e)
          PROVE  tree' \in Trees
      BY <3>1, PutTree
    <3>2. ASSUME NEW n \in DOMAIN tree, tree' = Erase(tree, n)
          PROVE  tree' \in Trees
      BY <3>2, EraseTree
    <3> QED BY <1>1, <3>1, <3>2 DEF write
  <2> QED BY <1>1, <2>1 DEF write
<1>2. ASSUME NEW s \in Sessions, persist(s) PROVE TypeOK'
  BY <1>2 DEF persist
<1>3. ASSUME NEW s \in Sessions, persistFails(s) PROVE TypeOK'
  BY <1>3, EmptyTree DEF persistFails, answer
<1>4. ASSUME NEW s \in Sessions, exportSearch(s) PROVE TypeOK'
  BY <1>4 DEF exportSearch
<1>5. ASSUME NEW s \in Sessions, exportFile(s) PROVE TypeOK'
  BY <1>5, EmptyTree DEF exportFile, answer
<1>6. ASSUME NEW s \in Sessions, exportFails(s) PROVE TypeOK'
  BY <1>6, EmptyTree DEF exportFails, answer
<1>7. ASSUME crash PROVE TypeOK'
  BY <1>7, EmptyTree DEF crash
<1>8. ASSUME initialize PROVE TypeOK'
  BY <1>8, EmptyTree, ImportTree DEF initialize
<1>9. ASSUME NEW s \in Sessions, handleModifyDn(s) PROVE TypeOK'
  <2>1. PICK from \in DOMAIN tree :
          \E to \in (Names \ DOMAIN tree) \cup {from} : move' = [move EXCEPT ![s] = <<from, to>>]
    BY <1>9 DEF handleModifyDn
  <2>2. PICK to \in (Names \ DOMAIN tree) \cup {from} : move' = [move EXCEPT ![s] = <<from, to>>]
    BY <2>1
  <2>3. <<from, to>> \in Names \X Names
    BY <2>1, <2>2, TreeElim
  <2> QED BY <1>9, <2>2, <2>3 DEF handleModifyDn
<1>10. ASSUME NEW s \in Sessions, modifyDnStore(s) PROVE TypeOK'
  <2>1. tree' \in Trees
    BY <1>10, TreeElim, PutTree DEF modifyDnStore
  <2> QED BY <1>10, <2>1 DEF modifyDnStore
<1>11. ASSUME NEW s \in Sessions, modifyDnRename(s) PROVE TypeOK'
  <2>1. move[s][1] \in DOMAIN tree /\ move[s][2] \in Names
    BY <1>11 DEF modifyDnRename
  <2>2. Put(Erase(tree, move[s][1]), move[s][2], tree[move[s][1]]) \in Trees
    BY <2>1, EraseTree, PutTree
  <2> QED BY <1>11, <2>2 DEF modifyDnRename
<1>12. ASSUME NEW s \in Sessions, modifyDnFails(s) PROVE TypeOK'
  BY <1>12 DEF modifyDnFails
<1>13. CASE UNCHANGED vars
  BY <1>13 DEF vars
<1> QED BY <1>1, <1>2, <1>3, <1>4, <1>5, <1>6, <1>7, <1>8, <1>9, <1>10, <1>11, <1>12, <1>13
        DEF Next

-----------------------------------------------------------------------------
(* The inductive invariant.                                                *)

\* A process that is down, with any file, satisfies it.
LEMMA InitInv == Init => IInv
<1> SUFFICES ASSUME Init PROVE IInv
  OBVIOUS
<1>1. TypeOK
  BY EmptyTree DEF Init, TypeOK
<1> QED
  BY <1>1 DEF Init, IInv, OneExporter, VersionsOrdered, ContentsMatch,
              LastChangeUnderWay, AckedWritesSaved, lockFree, Exporting

\* A change of the tree by a session that will persist, or may: what the
\* exports have and had is then older than the tree.
LEMMA ChangeStep ==
  ASSUME IInv, TypeOK', NEW s \in Sessions, up, pc[s] \notin Exporting,
         ver' = ver + 1, mine' = [mine EXCEPT ![s] = ver + 1],
         NEW next \in {"rename", "persist"}, pc' = [pc EXCEPT ![s] = next],
         UNCHANGED <<up, file, snap, failed, half, snapVer, fileVer, ackVer>>
  PROVE  IInv'
<1> USE DEF IInv, TypeOK, Exporting
<1>1. OneExporter' /\ VersionsOrdered'
  BY DEF OneExporter, VersionsOrdered
<1>2. ContentsMatch'
  BY DEF ContentsMatch, VersionsOrdered, lockFree
<1>3. LastChangeUnderWay' /\ AckedWritesSaved'
  BY DEF LastChangeUnderWay, AckedWritesSaved, lockFree
<1> QED BY <1>1, <1>2, <1>3

\* One step per action; what the action does not touch needs no step.
LEMMA InvStep == IInv /\ [Next]_vars => IInv'
<1> SUFFICES ASSUME IInv, [Next]_vars PROVE IInv'
  OBVIOUS
<1>0. TypeOK'
  BY TypeStep DEF IInv
<1>1. ASSUME NEW s \in Sessions, write(s) PROVE IInv'
  BY <1>0, <1>1, ChangeStep DEF write, Exporting
<1>10. ASSUME NEW s \in Sessions, modifyDnStore(s) PROVE IInv'
  BY <1>0, <1>10, ChangeStep DEF modifyDnStore, Exporting
<1>11. ASSUME NEW s \in Sessions, modifyDnRename(s) PROVE IInv'
  BY <1>0, <1>11, ChangeStep DEF modifyDnRename, Exporting
<1> USE <1>0 DEF IInv, TypeOK, Exporting
<1>2. ASSUME NEW s \in Sessions, persist(s) PROVE IInv'
  <2>1. OneExporter' /\ VersionsOrdered'
    BY <1>2 DEF persist, OneExporter, VersionsOrdered, lockFree
  <2>2. ContentsMatch'
    BY <1>2 DEF persist, ContentsMatch, lockFree
  <2>3. LastChangeUnderWay' /\ AckedWritesSaved'
    BY <1>2 DEF persist, LastChangeUnderWay, AckedWritesSaved, lockFree
  <2> QED BY <2>1, <2>2, <2>3
<1>3. ASSUME NEW s \in Sessions, persistFails(s) PROVE IInv'
  <2>1. OneExporter' /\ VersionsOrdered'
    BY <1>3 DEF persistFails, answer, OneExporter, VersionsOrdered, lockFree
  <2>2. ContentsMatch'
    BY <1>3 DEF persistFails, answer, ContentsMatch, lockFree
  <2>3. LastChangeUnderWay' /\ AckedWritesSaved'
    BY <1>3 DEF persistFails, answer, LastChangeUnderWay, AckedWritesSaved, lockFree
  <2> QED BY <2>1, <2>2, <2>3
<1>4. ASSUME NEW s \in Sessions, exportSearch(s) PROVE IInv'
  <2>1. OneExporter' /\ VersionsOrdered'
    BY <1>4 DEF exportSearch, OneExporter, VersionsOrdered
  <2>2. ContentsMatch'
    BY <1>4 DEF exportSearch, OneExporter, ContentsMatch, lockFree
  <2>3. LastChangeUnderWay' /\ AckedWritesSaved'
    BY <1>4 DEF exportSearch, LastChangeUnderWay, AckedWritesSaved, lockFree
  <2> QED BY <2>1, <2>2, <2>3
<1>5. ASSUME NEW s \in Sessions, exportFile(s) PROVE IInv'
  <2>1. OneExporter' /\ VersionsOrdered' /\ lockFree'
    BY <1>5 DEF exportFile, answer, OneExporter, VersionsOrdered, lockFree
  <2>2. ContentsMatch'
    <3>1. ver > 0 /\ UNCHANGED <<ver, tree>>
      BY <1>5 DEF exportFile, VersionsOrdered
    <3>2. fileVer' = ver' => file' = exportText(tree')
      BY <1>5, <3>1 DEF exportFile, ContentsMatch
    <3>3. \A t \in Sessions : pc'[t] # "writing"
      BY <2>1 DEF lockFree
    <3> QED BY <3>1, <3>2, <3>3 DEF ContentsMatch
  <2>3. LastChangeUnderWay'
    <3>1. CASE snapVer[s] = ver
      BY <1>5, <2>1, <3>1 DEF exportFile, answer, LastChangeUnderWay
    <3>2. CASE half
      BY <1>5, <3>2 DEF exportFile, LastChangeUnderWay
    <3>3. CASE snapVer[s] # ver /\ ~half
      <4>1. PICK t \in Sessions : pc[t] \in {"rename", "persist", "opened"}
        BY <1>5, <3>3 DEF exportFile, LastChangeUnderWay, OneExporter, lockFree
      <4>2. pc'[t] \in {"rename", "persist"}
        BY <1>5, <4>1 DEF exportFile, answer, OneExporter
      <4> QED BY <4>2 DEF LastChangeUnderWay
    <3> QED BY <3>1, <3>2, <3>3
  <2>4. AckedWritesSaved'
    BY <1>5 DEF exportFile, answer, AckedWritesSaved, VersionsOrdered
  <2> QED BY <2>1, <2>2, <2>3, <2>4
<1>6. ASSUME NEW s \in Sessions, exportFails(s) PROVE IInv'
  <2>1. OneExporter' /\ VersionsOrdered' /\ lockFree'
    BY <1>6 DEF exportFails, answer, OneExporter, VersionsOrdered, lockFree
  <2>2. ContentsMatch'
    BY <1>6, <2>1 DEF exportFails, answer, ContentsMatch, lockFree
  <2>3. LastChangeUnderWay' /\ AckedWritesSaved'
    BY <1>6, <2>1 DEF exportFails, answer, LastChangeUnderWay, AckedWritesSaved
  <2> QED BY <2>1, <2>2, <2>3
<1>7. ASSUME crash PROVE IInv'
  <2>1. OneExporter' /\ VersionsOrdered'
    BY <1>7 DEF crash, OneExporter, VersionsOrdered
  <2>2. ContentsMatch' /\ LastChangeUnderWay' /\ AckedWritesSaved'
    BY <1>7 DEF crash, ContentsMatch, LastChangeUnderWay, AckedWritesSaved
  <2> QED BY <2>1, <2>2
<1>8. ASSUME initialize PROVE IInv'
  <2>1. OneExporter' /\ VersionsOrdered'
    BY <1>8 DEF initialize, OneExporter, VersionsOrdered
  <2>2. ContentsMatch'
    <3>1. \A s \in Sessions : pc'[s] = "idle"
      BY <1>8 DEF initialize, OneExporter
    <3>2. ver' = 0 /\ (~failed' => tree' = importFile(file'))
      BY <1>8 DEF initialize, VersionsOrdered
    <3> QED BY <3>1, <3>2 DEF ContentsMatch
  <2>3. LastChangeUnderWay' /\ AckedWritesSaved'
    BY <1>8 DEF initialize, LastChangeUnderWay, AckedWritesSaved, OneExporter,
                VersionsOrdered, lockFree
  <2> QED BY <2>1, <2>2, <2>3
<1>9. ASSUME NEW s \in Sessions, handleModifyDn(s) PROVE IInv'
  <2>1. OneExporter' /\ VersionsOrdered'
    BY <1>9 DEF handleModifyDn, OneExporter, VersionsOrdered
  <2>2. ContentsMatch'
    BY <1>9 DEF handleModifyDn, ContentsMatch, lockFree
  <2>3. LastChangeUnderWay' /\ AckedWritesSaved'
    BY <1>9 DEF handleModifyDn, LastChangeUnderWay, AckedWritesSaved, lockFree
  <2> QED BY <2>1, <2>2, <2>3
<1>12. ASSUME NEW s \in Sessions, modifyDnFails(s) PROVE IInv'
  <2>1. OneExporter' /\ VersionsOrdered'
    BY <1>12 DEF modifyDnFails, OneExporter, VersionsOrdered
  <2>2. ContentsMatch'
    BY <1>12 DEF modifyDnFails, ContentsMatch, lockFree
  <2>3. LastChangeUnderWay' /\ AckedWritesSaved'
    BY <1>12 DEF modifyDnFails, LastChangeUnderWay, AckedWritesSaved, lockFree
  <2> QED BY <2>1, <2>2, <2>3
<1>13. CASE UNCHANGED vars
  BY <1>13 DEF vars, OneExporter, VersionsOrdered, ContentsMatch, LastChangeUnderWay,
               AckedWritesSaved, lockFree
<1> QED BY <1>1, <1>2, <1>3, <1>4, <1>5, <1>6, <1>7, <1>8, <1>9, <1>10, <1>11, <1>12, <1>13
        DEF Next

\* IInv holds in every reachable state.
LEMMA Invariance == Spec => []IInv
BY InitInv, InvStep, PTL DEF Spec

\* Type correctness of the file backend.
THEOREM LdifTypeCorrect == Spec => []TypeOK
<1>1. IInv => TypeOK
  BY DEF IInv
<1> QED BY <1>1, Invariance, PTL

\* When nobody is writing and the last export went through, and no ModifyDN was
\* left half done since, ldif_file is the export of the tree or what it was
\* imported from, for any number of concurrent sessions.
THEOREM QuietFileIsCurrent == Spec => []QuietFileCurrent
<1>1. IInv => QuietFileCurrent
  <2> SUFFICES ASSUME IInv, up, ~failed, ~half, \A s \in Sessions : pc[s] = "idle"
               PROVE  IF ver = 0 THEN tree = importFile(file) ELSE file = exportText(tree)
    BY DEF QuietFileCurrent
  <2>1. fileVer = ver
    BY DEF IInv, LastChangeUnderWay
  <2> QED BY <2>1 DEF IInv, ContentsMatch, lockFree, Exporting
<1> QED BY <1>1, Invariance, PTL

\* A change whose client was told Success is in the file whenever no export is
\* in progress and the last one went through.
THEOREM AckedWritesAreSaved == Spec => []AckedWritesSaved
<1>1. IInv => AckedWritesSaved
  BY DEF IInv
<1> QED BY <1>1, Invariance, PTL

\* No completed export is older than the one it replaces.
THEOREM FileIsMonotone == Spec => FileNeverGoesBack
<1>1. IInv /\ [Next]_vars => [up /\ up' => fileVer' >= fileVer]_fileVer
  <2> SUFFICES ASSUME IInv, [Next]_vars, up, up'
               PROVE  fileVer' >= fileVer
    OBVIOUS
  <2>1. ASSUME NEW s \in Sessions, exportFile(s) PROVE fileVer' >= fileVer
    BY <2>1 DEF exportFile, IInv, TypeOK, VersionsOrdered
  <2>2. CASE ~ \E s \in Sessions : exportFile(s)
    BY <2>2 DEF Next, vars, write, handleModifyDn, modifyDnStore, modifyDnRename,
                modifyDnFails, persist, persistFails, exportSearch, exportFails, crash,
                initialize, IInv, TypeOK
  <2> QED BY <2>1, <2>2
<1> QED BY <1>1, Invariance, PTL DEF Spec, FileNeverGoesBack
=============================================================================
