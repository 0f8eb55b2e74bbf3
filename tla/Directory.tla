------------------------------ MODULE Directory ------------------------------
(***************************************************************************)
(* Sessions that change one shared directory tree (core/session.cpp over   *)
(* backend/memory.cpp and backend/ldif.cpp).                               *)
(*                                                                         *)
(* Every connection has a thread of its own, and a write handler is a      *)
(* sequence of backend calls: look the entry up, look its parent up, store *)
(* the changed copy, persist.  Each call holds the backend's mutex only    *)
(* for its own duration, so the handlers of two sessions interleave        *)
(* between calls.  One action below is one backend call with the local     *)
(* work of the handler that follows it.                                    *)
(*                                                                         *)
(* persist() is one step here: persist_mutex_ serialises it, and it saves  *)
(* the tree it reads after it got the mutex.  What a crash or a failing    *)
(* disk does in the middle of it is the subject of LdifBackend.            *)
(***************************************************************************)
EXTENDS AccessControl, Passwords, Schema

CONSTANTS
  Sessions,      \* the connections served
  Identities,    \* what a connection may be bound as: [bound, dn, secure]
  Requests,      \* the write requests a client may send
  InitialTree,   \* the tree imported at start
  AclLines,      \* config acl
  RootDn,        \* config root_dn
  BaseDn         \* config base_dn

ASSUME ConfigValid == WellFormed(AclLines)

ASSUME RequestOps ==
  \A r \in Requests :
    r.op \in {"add", "modify", "delete", "modifyDn", "passwordModify"}

\* The names of a ModifyDN are names, and so is its new RDN, of any number of
\* components: nothing in the code asks for exactly one.
ASSUME RequestNames ==
  \A r \in Requests :
    r.op = "modifyDn" => {r.dn, r.newRdn, r.newSuperior} \subseteq Seq(Component)

\* The changes of a Modify are a list of changes.
ASSUME RequestChanges ==
  \A r \in Requests :
    r.op = "modify" => /\ Len(r.changes) \in Nat /\ DOMAIN r.changes = 1..Len(r.changes)
                       /\ \A i \in DOMAIN r.changes :
                            DOMAIN r.changes[i] = {"op", "type", "values"}

\* The import has no entry without a name.
ASSUME ImportNames == RootDse \notin DOMAIN InitialTree

VARIABLES
  tree,    \* MemoryBackend::entries_
  saved,   \* the entries ldif_file holds
  sess,    \* the request each session is handling
  half     \* history: a refused request left its first write in the tree, and
           \* nobody has called persist() since

vars == <<tree, saved, sess, half>>

-----------------------------------------------------------------------------
Rules == ToSet(acls(AclLines))

NoRequest == [op |-> "none"]
Idle == [pc |-> "idle", who |-> [bound |-> FALSE, dn |-> RootDse, secure |-> TRUE],
         req |-> NoRequest, target |-> NoName, account |-> NoName,
         entry |-> << >>, rc |-> "none", wrote |-> 0]

\* Session::checkSchema
checkSchema(attrs) == validateEntry(attrs)

\* Session::mayWrite.
allowed(s, dn) ==
  sess[s].who.bound /\ mayWrite(Rules, RootDn, tree, sess[s].who.dn, dn)

-----------------------------------------------------------------------------
\* Session s is at step pc of the handler of op.
At(s, pc, op) == sess[s].pc = pc /\ sess[s].req.op = op

\* The handler goes on to step next, or answers with the code that a check gave.
Proceed(s, rc, next) ==
  sess' = [sess EXCEPT ![s].pc = IF rc = Success THEN next ELSE "done",
                       ![s].rc = IF rc = Success THEN @ ELSE rc]

\* The same, keeping the copy of the entry the handler now works on.
ProceedWith(s, rc, next, attrs) ==
  sess' = [sess EXCEPT ![s].pc = IF rc = Success THEN next ELSE "done",
                       ![s].rc = IF rc = Success THEN @ ELSE rc,
                       ![s].entry = IF rc = Success THEN attrs ELSE @]

\* A mutator of the backend: it changes the tree and the handler goes on to
\* next, or it returns false and the handler answers OperationsError.
Mutate(s, ok, newTree, next) ==
  /\ tree' = IF ok THEN newTree ELSE tree
  /\ sess' = [sess EXCEPT ![s].pc = IF ok THEN next ELSE "done",
                          ![s].rc = IF ok THEN @ ELSE "OperationsError",
                          ![s].wrote = IF ok THEN @ + 1 ELSE @]
  /\ half' = (half \/ (~ok /\ sess[s].wrote > 0))
  /\ UNCHANGED saved

\* Session::serve: the next PDU is read, decoded and dispatched.
serve(s) ==
  /\ sess[s].pc = "idle"
  /\ \E r \in Requests, w \in Identities :
       sess' = [sess EXCEPT ![s] = [Idle EXCEPT !.pc = "start", !.req = r, !.who = w]]
  /\ UNCHANGED <<tree, saved, half>>

\* Mutant: the loop starts over with the last request still in place.
send_keepsRequest(s) ==
  /\ sess[s].pc = "done"
  /\ sess' = [sess EXCEPT ![s].pc = "idle"]
  /\ UNCHANGED <<tree, saved, half>>

\* The response is sent and the loop of serve() starts over.
send(s) ==
  /\ sess[s].pc = "done"
  /\ sess' = [sess EXCEPT ![s] = Idle]
  /\ UNCHANGED <<tree, saved, half>>

\* backend_.persist(), the last call of every successful write.
persist(s) ==
  /\ sess[s].pc = "persist"
  /\ saved' = tree
  /\ half' = FALSE
  /\ sess' = [sess EXCEPT ![s].pc = "done", ![s].rc = Success]
  /\ UNCHANGED tree

-----------------------------------------------------------------------------
\* Session::handleAdd: access, name, and the entry must not exist.
handleAdd(s) ==
  LET dn == sess[s].req.dn
      rc == IF ~allowed(s, dn)        THEN "InsufficientAccessRights"
            ELSE IF dn = RootDse      THEN "InvalidDnSyntax"
            ELSE IF found(tree, dn)   THEN "EntryAlreadyExists"
            ELSE Success
  IN  /\ At(s, "start", "add")
      /\ Proceed(s, rc, "addParent")
      /\ UNCHANGED <<tree, saved, half>>

\* Mutant: the parent is not looked up.
addParent_noParent(s) ==
  LET attrs == encodeUserPasswords(sess[s].req.attrs)
  IN  /\ At(s, "addParent", "add")
      /\ ProceedWith(s, checkSchema(attrs), "addStore", attrs)
      /\ UNCHANGED <<tree, saved, half>>

\* The parent must exist, then the entry to store is built and validated.
addParent(s) ==
  LET parent == dnParent(sess[s].req.dn)
      attrs  == encodeUserPasswords(sess[s].req.attrs)
      rc     == IF parent # RootDse /\ ~found(tree, parent) THEN "NamingViolation"
                ELSE checkSchema(attrs)
  IN  /\ At(s, "addParent", "add")
      /\ ProceedWith(s, rc, "addStore", attrs)
      /\ UNCHANGED <<tree, saved, half>>

addStore(s) ==
  LET dn == sess[s].req.dn
  IN  /\ At(s, "addStore", "add")
      /\ Mutate(s, addOk(tree, dn), Put(tree, dn, sess[s].entry), "persist")

-----------------------------------------------------------------------------
\* Session::handleModify: a copy of the entry is read, changed and validated.
handleModify(s) ==
  LET dn      == sess[s].req.dn
      applied == applyModifications(tree[dn], encodeUserPasswordChanges(sess[s].req.changes))
      rc      == IF ~allowed(s, dn)                THEN "InsufficientAccessRights"
                 ELSE IF ~found(tree, dn)          THEN "NoSuchObject"
                 ELSE IF applied.rc # Success      THEN applied.rc
                 ELSE checkSchema(applied.attrs)
  IN  /\ At(s, "start", "modify")
      /\ ProceedWith(s, rc, "modifyStore", applied.attrs)
      /\ UNCHANGED <<tree, saved, half>>

\* Mutant: the handler answers without persist().
modifyStore_noPersist(s) ==
  LET dn == sess[s].req.dn
  IN  /\ At(s, "modifyStore", "modify") /\ modifyOk(tree, dn)
      /\ tree' = Put(tree, dn, sess[s].entry)
      /\ sess' = [sess EXCEPT ![s].pc = "done", ![s].rc = Success, ![s].wrote = 1]
      /\ UNCHANGED <<saved, half>>

\* backend_.modify of the whole copy.
modifyStore(s) ==
  LET dn == sess[s].req.dn
  IN  /\ At(s, "modifyStore", "modify")
      /\ Mutate(s, modifyOk(tree, dn), Put(tree, dn, sess[s].entry), "persist")

-----------------------------------------------------------------------------
\* Session::handleDelete.
handleDelete(s) ==
  LET dn == sess[s].req.dn
      rc == IF ~allowed(s, dn)        THEN "InsufficientAccessRights"
            ELSE IF ~found(tree, dn)  THEN "NoSuchObject"
            ELSE Success
  IN  /\ At(s, "start", "delete")
      /\ Proceed(s, rc, "deleteChildren")
      /\ UNCHANGED <<tree, saved, half>>

deleteChildren(s) ==
  LET rc == IF hasChildren(tree, sess[s].req.dn) THEN "NotAllowedOnNonLeaf" ELSE Success
  IN  /\ At(s, "deleteChildren", "delete")
      /\ Proceed(s, rc, "deleteRemove")
      /\ UNCHANGED <<tree, saved, half>>

deleteRemove(s) ==
  LET dn == sess[s].req.dn
  IN  /\ At(s, "deleteRemove", "delete")
      /\ Mutate(s, removeOk(tree, dn), Erase(tree, dn), "persist")

-----------------------------------------------------------------------------
newParent(r) == IF r.newSuperior = RootDse THEN dnParent(r.dn) ELSE r.newSuperior
newDn(r) == composeDn(r.newRdn, newParent(r))

\* The RDN values of the copy: the old one goes if the client asked for it and
\* the new one comes; that the old was missing or the new was there already is
\* no error.  An RDN that is no type and value changes nothing.
changeRdn(attrs, op, rdn) ==
  IF rdn.ok THEN applyModifications(attrs, <<[op |-> op, type |-> rdn.type,
                                              values |-> <<rdn.value>>]>>).attrs
            ELSE attrs
renameRdn(attrs, r) ==
  LET kept == IF r.deleteOldRdn THEN changeRdn(attrs, "delete", parseRdn(<<dnRdn(r.dn)>>))
              ELSE attrs
  IN  changeRdn(kept, "add", parseRdn(r.newRdn))

\* Mutant: access to the new name is not checked.
handleModifyDn_oldNameOnly(s) ==
  LET r  == sess[s].req
      rc == IF r.newRdn = << >>          THEN "InvalidDnSyntax"
            ELSE IF ~allowed(s, r.dn)    THEN "InsufficientAccessRights"
            ELSE IF ~found(tree, r.dn)   THEN "NoSuchObject"
            ELSE Success
  IN  /\ At(s, "start", "modifyDn")
      /\ ProceedWith(s, rc, "dnParent", tree[r.dn])
      /\ UNCHANGED <<tree, saved, half>>

\* Session::handleModifyDn: names, access to both, and a copy of the entry.
handleModifyDn(s) ==
  LET r  == sess[s].req
      rc == IF r.newRdn = << >>                              THEN "InvalidDnSyntax"
            ELSE IF ~allowed(s, r.dn) \/ ~allowed(s, newDn(r)) THEN "InsufficientAccessRights"
            ELSE IF ~found(tree, r.dn)                       THEN "NoSuchObject"
            ELSE Success
  IN  /\ At(s, "start", "modifyDn")
      /\ ProceedWith(s, rc, "dnParent", tree[r.dn])
      /\ UNCHANGED <<tree, saved, half>>

modifyDnParent(s) ==
  LET parent == newParent(sess[s].req)
      rc     == IF parent # RootDse /\ ~found(tree, parent) THEN "NamingViolation" ELSE Success
  IN  /\ At(s, "dnParent", "modifyDn")
      /\ Proceed(s, rc, "dnTarget")
      /\ UNCHANGED <<tree, saved, half>>

\* Mutant: the copy is not validated once its RDN values have changed.
modifyDnTarget_noSchema(s) ==
  LET r  == sess[s].req
      rc == IF newDn(r) # r.dn /\ found(tree, newDn(r)) THEN "EntryAlreadyExists" ELSE Success
  IN  /\ At(s, "dnTarget", "modifyDn")
      /\ ProceedWith(s, rc, "dnStore", renameRdn(sess[s].entry, r))
      /\ UNCHANGED <<tree, saved, half>>

\* The target must be free; then the copy's RDN values change and it is validated.
modifyDnTarget(s) ==
  LET r     == sess[s].req
      attrs == renameRdn(sess[s].entry, r)
      rc    == IF newDn(r) # r.dn /\ found(tree, newDn(r)) THEN "EntryAlreadyExists"
               ELSE checkSchema(attrs)
  IN  /\ At(s, "dnTarget", "modifyDn")
      /\ ProceedWith(s, rc, "dnStore", attrs)
      /\ UNCHANGED <<tree, saved, half>>

\* backend_.modify writes the copy under the old name ...
modifyDnStore(s) ==
  LET dn == sess[s].req.dn
  IN  /\ At(s, "dnStore", "modifyDn")
      /\ Mutate(s, modifyOk(tree, dn), Put(tree, dn, sess[s].entry), "dnRename")

\* ... and a second call, backend_.rename, moves whatever is there by then.
modifyDnRename(s) ==
  LET r == sess[s].req
  IN  /\ At(s, "dnRename", "modifyDn")
      /\ Mutate(s, renameOk(tree, r.dn, newDn(r)), rename(tree, r.dn, newDn(r)), "persist")

-----------------------------------------------------------------------------
\* Session::handlePasswordModify.  A request whose value decodes names the
\* account (none: the bound one), the new password, and the old one if the set
\* is not empty.  A name without '=' has the single component <<"", name>>.
pwIdentity(s) == IF sess[s].req.identity = RootDse THEN sess[s].who.dn ELSE sess[s].req.identity

\* What follows once resolveName gave the target: who may set its password.
pwAuthorise(s, target) ==
  LET rc == IF target = NoName                                 THEN "NoSuchObject"
            ELSE IF target = RootDn                            THEN "UnwillingToPerform"
            ELSE IF /\ sess[s].who.dn \notin {RootDn, target}
                    /\ ~allowed(s, target)                     THEN "InsufficientAccessRights"
            ELSE Success
      next == IF sess[s].req.old = {} THEN "pwLookup" ELSE "pwOld"
  IN  sess' = [sess EXCEPT ![s].pc = IF rc = Success THEN next ELSE "done",
                           ![s].rc = IF rc = Success THEN @ ELSE rc,
                           ![s].target = target]

\* The checks on the session, then the first half of resolveName: the root
\* name, or an entry of exactly this name.
handlePasswordModify(s) ==
  LET id == pwIdentity(s)
      rc == IF ~sess[s].who.bound \/ sess[s].who.dn = RootDse THEN "InsufficientAccessRights"
            ELSE IF ~sess[s].who.secure                       THEN "ConfidentialityRequired"
            ELSE IF ~sess[s].req.decodes                      THEN "ProtocolError"
            ELSE IF sess[s].req.new = ""                      THEN "UnwillingToPerform"
            ELSE Success
  IN  /\ At(s, "start", "passwordModify")
      /\ IF rc # Success THEN Proceed(s, rc, "done")
         ELSE IF \/ id = RootDn
                 \/ ~hasType(id) /\ rdnValue(dnRdn(id)) = rdnValue(dnRdn(RootDn))
              THEN pwAuthorise(s, RootDn)
         ELSE IF hasType(id) /\ found(tree, id) THEN pwAuthorise(s, id)
         ELSE Proceed(s, Success, "pwFind")
      /\ UNCHANGED <<tree, saved, half>>

\* The second half of resolveName: the one account of that uid.
pwFind(s) ==
  /\ At(s, "pwFind", "passwordModify")
  /\ pwAuthorise(s, accountOf(tree, BaseDn, pwIdentity(s)))
  /\ UNCHANGED <<tree, saved, half>>

\* authenticator.bind(*target, old) resolves the name a second time ...
pwOld(s) ==
  LET target  == sess[s].target
      account == IF found(tree, target) THEN target ELSE NoName
  IN  /\ At(s, "pwOld", "passwordModify")
      /\ sess' = [sess EXCEPT ![s].pc = IF account = NoName THEN "pwOldFind" ELSE "pwVerify",
                              ![s].account = account]
      /\ UNCHANGED <<tree, saved, half>>

pwOldFind(s) ==
  LET account == accountOf(tree, BaseDn, sess[s].target)
  IN  /\ At(s, "pwOldFind", "passwordModify")
      /\ sess' = [sess EXCEPT ![s].pc = IF account = NoName THEN "done" ELSE "pwVerify",
                              ![s].rc = IF account = NoName THEN "InvalidCredentials" ELSE @,
                              ![s].account = account]
      /\ UNCHANGED <<tree, saved, half>>

\* ... and checks the old password against the entry it then looks up.
pwVerify(s) ==
  LET account == sess[s].account
      ok == /\ found(tree, account)
            /\ ~accountDisabled(tree[account])
            /\ "userPassword" \in DOMAIN tree[account]
            /\ \E i \in DOMAIN tree[account]["userPassword"], old \in sess[s].req.old :
                 verifyUserPassword(tree[account]["userPassword"][i], old)
  IN  /\ At(s, "pwVerify", "passwordModify")
      /\ Proceed(s, IF ok THEN Success ELSE "InvalidCredentials", "pwLookup")
      /\ UNCHANGED <<tree, saved, half>>

\* A copy of the target is read, its userPassword replaced, and validated.
pwLookup(s) ==
  LET target == sess[s].target
      applied == applyModifications(tree[target],
                   <<[op |-> "replace", type |-> "userPassword",
                      values |-> <<encodeUserPassword(sess[s].req.new)>>]>>)
      rc == IF ~found(tree, target) THEN "NoSuchObject" ELSE checkSchema(applied.attrs)
  IN  /\ At(s, "pwLookup", "passwordModify")
      /\ ProceedWith(s, rc, "pwStore", applied.attrs)
      /\ UNCHANGED <<tree, saved, half>>

\* Mutant: the copy is stored under the name the session is bound as.
pwStore_boundName(s) ==
  LET dn == sess[s].who.dn
  IN  /\ At(s, "pwStore", "passwordModify")
      /\ Mutate(s, modifyOk(tree, dn), Put(tree, dn, sess[s].entry), "persist")

pwStore(s) ==
  LET target == sess[s].target
  IN  /\ At(s, "pwStore", "passwordModify")
      /\ Mutate(s, modifyOk(tree, target), Put(tree, target, sess[s].entry), "persist")

-----------------------------------------------------------------------------
Init ==
  /\ tree = InitialTree
  /\ saved = InitialTree
  /\ half = FALSE
  /\ sess = [s \in Sessions |-> Idle]

Step(s) ==
  \/ serve(s) \/ send(s) \/ persist(s)
  \/ handleAdd(s) \/ addParent(s) \/ addStore(s)
  \/ handleModify(s) \/ modifyStore(s)
  \/ handleDelete(s) \/ deleteChildren(s) \/ deleteRemove(s)
  \/ handleModifyDn(s) \/ modifyDnParent(s) \/ modifyDnTarget(s)
  \/ modifyDnStore(s) \/ modifyDnRename(s)
  \/ handlePasswordModify(s) \/ pwFind(s) \/ pwOld(s) \/ pwOldFind(s)
  \/ pwVerify(s) \/ pwLookup(s) \/ pwStore(s)

Next == \E s \in Sessions : Step(s)

Spec == Init /\ [][Next]_vars

-----------------------------------------------------------------------------
\* The steps of each handler; every one of them may end in "done".
Steps(op) ==
  CASE op = "none"           -> {"idle"}
    [] op = "add"            -> {"start", "done", "persist", "addParent", "addStore"}
    [] op = "modify"         -> {"start", "done", "persist", "modifyStore"}
    [] op = "delete"         -> {"start", "done", "persist", "deleteChildren", "deleteRemove"}
    [] op = "modifyDn"       -> {"start", "done", "persist", "dnParent", "dnTarget",
                                 "dnStore", "dnRename"}
    [] op = "passwordModify" -> {"start", "done", "persist", "pwFind", "pwOld", "pwOldFind",
                                 "pwVerify", "pwLookup", "pwStore"}

\* No entry has the empty name, every session is at a step of the handler of
\* its own request, and a handler makes at most two backend writes.
TypeOK ==
  /\ RootDse \notin DOMAIN tree \cup DOMAIN saved
  /\ DOMAIN sess = Sessions /\ half \in BOOLEAN
  /\ \A s \in Sessions :
       /\ sess[s].req \in Requests \cup {NoRequest}
       /\ sess[s].who \in Identities \cup {Idle.who}
       /\ sess[s].pc \in Steps(sess[s].req.op)
       /\ sess[s].wrote \in 0..2

\* Every stored entry satisfies the schema, although a handler validates a
\* copy and stores it only later, and rename moves an entry that another
\* session may have rewritten since it was validated.
SchemaHolds == \A d \in DOMAIN tree : EntryConforms(tree[d])

\* A request that is answered with an error has changed nothing.
FailedWriteHasNoEffect ==
  \A s \in Sessions :
    sess[s].pc = "done" /\ sess[s].rc # Success => sess[s].wrote = 0

\* Once no session is between its write and its persist(), ldif_file holds
\* the tree: no session's export is lost or overwritten by an older one.  The
\* one exception is a ModifyDN refused between its two backend calls: its first
\* write stays in memory until somebody's next persist().
SavedWhenQuiet ==
  (~half /\ \A s \in Sessions : sess[s].pc \notin {"dnRename", "persist"}) => saved = tree

\* The names that a ModifyDN gives without looking their parent up: what it looks
\* for is the superior, and a new RDN of several components puts more between.
UncheckedNames ==
  {newDn(r) : r \in {q \in Requests : q.op = "modifyDn" /\ Len(q.newRdn) > 1}}

\* Every entry but those directly under the root has its parent, unless it has a
\* name that a new RDN of several components makes.
NoOrphans ==
  \A d \in DOMAIN tree \ UncheckedNames : dnParent(d) = RootDse \/ found(tree, dnParent(d))

\* The names whose entry a step changed.
Changed == {d \in DOMAIN tree \cup DOMAIN tree' :
              \/ d \notin DOMAIN tree \/ d \notin DOMAIN tree'
              \/ tree[d] # tree'[d]}

\* A step changes an entry only for a session whose identity may write that
\* name under the (group-free) rules, or that is setting its own password.
\* For a rename that goes for both names.
WritesAuthorised ==
  [][\A s \in Sessions : sess'[s] # sess[s] =>
       \A d \in Changed :
         \/ sess[s].who.bound /\ mayWrite(Rules, RootDn, tree, sess[s].who.dn, d)
         \/ sess[s].pc = "pwStore" /\ sess[s].who.dn = d]_tree

\* Entries vanish only by a delete of that name, or by a rename that leaves
\* the entry, as it was, under a name that was free: two sessions renaming
\* towards one name, or an add racing a rename, lose nothing.
NoEntryLost ==
  [][\A d \in DOMAIN tree \ DOMAIN tree' :
       \E s \in Sessions :
         /\ sess'[s] # sess[s]
         /\ sess[s].req.dn = d
         /\ \/ sess[s].pc = "deleteRemove"
            \/ /\ sess[s].pc = "dnRename"
               /\ newDn(sess[s].req) \notin DOMAIN tree
               /\ tree'[newDn(sess[s].req)] = tree[d]]_tree

\* The attribute types the request of session s is about.
Touches(s) ==
  CASE sess[s].req.op = "modify" ->
         {sess[s].req.changes[i].type : i \in DOMAIN sess[s].req.changes}
    [] sess[s].req.op = "passwordModify" -> {"userPassword"}
    [] OTHER -> {}

\* Modify and Password Modify leave every other attribute of the entry as it
\* is in the tree at that moment.
OnlyNamedAttributesChange ==
  [][\A d \in DOMAIN tree \cap DOMAIN tree', s \in Sessions :
       sess[s].pc \in {"modifyStore", "pwStore"} /\ sess'[s].pc # sess[s].pc =>
         \A t \in (DOMAIN tree[d] \cup DOMAIN tree'[d]) \ Touches(s) :
           /\ t \in DOMAIN tree[d] \cap DOMAIN tree'[d]
           /\ tree[d][t] = tree'[d][t]]_tree

\* ldappasswd changes a password and nothing else: the step that stores the
\* copy of the entry leaves every attribute but userPassword as it finds it.
PasswordModifyChangesOnlyPassword ==
  [][\A s \in Sessions :
       sess[s].pc = "pwStore" /\ sess'[s].pc = "persist" =>
         Without(tree[sess[s].target], "userPassword")
           = Without(tree'[sess[s].target], "userPassword")]_tree
=============================================================================
