------------------------------- MODULE Entries -------------------------------
(***************************************************************************)
(* The in-memory directory tree (backend/memory.cpp) and attribute         *)
(* modification (backend/modify.cpp), as operators.                        *)
(*                                                                         *)
(* A tree is a function from the names that have an entry to the           *)
(* attributes of that entry; the attributes are a function from the        *)
(* attribute types the entry has to the sequence of its values.  Every     *)
(* operation of MemoryBackend holds mutex_ from its first read to its last *)
(* write, so a module that uses these operators makes each use one step.   *)
(***************************************************************************)
EXTENDS DistinguishedName, SequencesExt

Success == "Success"
NoName  == RootDse      \* the empty optional of a function that returns a name

-----------------------------------------------------------------------------
\* What a tree becomes when one entry is written or erased.
Put(tree, dn, attrs) ==
  [d \in DOMAIN tree \cup {dn} |-> IF d = dn THEN attrs ELSE tree[d]]
Erase(tree, dn) == [d \in DOMAIN tree \ {dn} |-> tree[d]]

\* lookup returned an entry; the entry is then tree[dn].
found(tree, dn) == dn \in DOMAIN tree

hasChildren(tree, dn) == \E d \in DOMAIN tree : dnIsOneLevelChild(d, dn)

\* Each mutator is a guard (it returns true) and the tree it leaves behind.
addOk(tree, dn) == dn # RootDse /\ dn \notin DOMAIN tree
modifyOk(tree, dn) == dn \in DOMAIN tree
removeOk(tree, dn) == dn \in DOMAIN tree
\* Mutants: an entry at the new name is overwritten; a rename to the same name
\* fails like any other rename to a name that is taken.
renameOk_overwrites(tree, from, to) ==
  from # RootDse /\ to # RootDse /\ from \in DOMAIN tree
renameOk_neverSame(tree, from, to) ==
  /\ from # RootDse /\ to # RootDse
  /\ from \in DOMAIN tree /\ to \notin DOMAIN tree

renameOk(tree, from, to) ==
  /\ from # RootDse /\ to # RootDse
  /\ from \in DOMAIN tree
  /\ from = to \/ to \notin DOMAIN tree

\* The entry moves as it is in the tree now; its children stay where they are.
rename(tree, from, to) ==
  IF from = to THEN tree ELSE Put(Erase(tree, from), to, tree[from])

\* search(base, Subtree, (|(uid=name)(sAMAccountName=name))), the search of
\* SimpleBindAuthenticator::findAccount: a name only when exactly one entry
\* matches.
Accounts(tree, base, name) ==
  {d \in DOMAIN tree :
     /\ dnEndsWith(d, base)
     /\ \E t \in {"uid", "sAMAccountName"} \cap DOMAIN tree[d] :
          Contains(tree[d][t], name)}

findAccount(tree, base, name) ==
  LET hits == Accounts(tree, base, name)
  IN  IF \E d \in hits : hits = {d} THEN CHOOSE d \in hits : TRUE ELSE NoName

\* The end of resolveName: the account whose uid is the name, or the value of
\* its first component.
accountOf(tree, base, name) ==
  IF hasType(name) /\ rdnType(dnRdn(name)) = "" THEN NoName
  ELSE findAccount(tree, base, rdnValue(dnRdn(name)))

-----------------------------------------------------------------------------
\* The attributes without type t, and with type t set to values.
Without(attrs, t) == [u \in DOMAIN attrs \ {t} |-> attrs[u]]
With(attrs, t, values) ==
  [u \in DOMAIN attrs \cup {t} |-> IF u = t THEN values ELSE attrs[u]]

Result(rc, attrs) == [rc |-> rc, attrs |-> attrs]

\* ModifyOp::Add.  A type the entry lacks takes the values as they are; else
\* each value must be new to the entry and to the values before it.
AddValues(attrs, t, values) ==
  IF t \notin DOMAIN attrs THEN Result(Success, With(attrs, t, values))
  ELSE IF \E i \in DOMAIN values :
             Contains(attrs[t] \o SubSeq(values, 1, i - 1), values[i])
       THEN Result("AttributeOrValueExists", attrs)
       ELSE Result(Success, With(attrs, t, attrs[t] \o values))

\* ModifyOp::Delete.  No values: the whole attribute goes.  Otherwise each
\* value in turn loses its first occurrence, and an attribute left without
\* values goes too.
Remaining(had, values) ==
  FoldLeft(LAMBDA acc, v : [rest |-> RemoveFirst(acc.rest, v),
                            ok   |-> acc.ok /\ Contains(acc.rest, v)],
           [rest |-> had, ok |-> TRUE], values)
DeleteValues(attrs, t, values) ==
  LET left == Remaining(attrs[t], values)
  IN  IF t \notin DOMAIN attrs THEN Result("NoSuchAttribute", attrs)
      ELSE IF values = << >>   THEN Result(Success, Without(attrs, t))
      ELSE IF ~left.ok         THEN Result("NoSuchAttribute", attrs)
      ELSE IF left.rest = << >> THEN Result(Success, Without(attrs, t))
      ELSE Result(Success, With(attrs, t, left.rest))

\* ModifyOp::Replace.
ReplaceValues(attrs, t, values) ==
  Result(Success, IF values = << >> THEN Without(attrs, t)
                                    ELSE With(attrs, t, values))

\* decodeModify takes any number for the operation, and one that is none of
\* the three does nothing.
ApplyChange(attrs, c) ==
  IF c.type = "" THEN Result("InvalidAttributeSyntax", attrs)
  ELSE CASE c.op = "add"     -> AddValues(attrs, c.type, c.values)
         [] c.op = "delete"  -> DeleteValues(attrs, c.type, c.values)
         [] c.op = "replace" -> ReplaceValues(attrs, c.type, c.values)
         [] OTHER            -> Result(Success, attrs)

\* The changes in order, stopping at the first that fails.  The code works on
\* a copy of the entry that every caller drops when the result is an error
\* it does not tolerate, so the attributes of a failed result are the ones
\* the successful changes before it left.
ApplyNext(result, c) == IF result.rc = Success THEN ApplyChange(result.attrs, c) ELSE result
applyModifications(attrs, changes) ==
  LET upTo[n \in 0..Len(changes)] ==
        IF n = 0 THEN Result(Success, attrs) ELSE ApplyNext(upTo[n - 1], changes[n])
  IN  upTo[Len(changes)]
=============================================================================
