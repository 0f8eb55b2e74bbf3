----------------------- MODULE Authentication_proofs -----------------------
(***************************************************************************)
(* Proofs about Authentication.  The inductive invariant IInv holds        *)
(* whatever other sessions do to the directory; SInv adds what is true     *)
(* while the names of the accounts stay where they are.                    *)
(***************************************************************************)
EXTENDS Authentication, TLAPS

BindFields == {"pc", "req", "stage", "name", "dn", "proven", "rc", "keytab"}
SesFields == {"bound", "dn", "tls", "nonce"}

Shape == DOMAIN b = BindFields /\ DOMAIN ses = SesFields

Typed == /\ TypeOK
         /\ tries \in [1..MaxNonces -> Nat]

\* The mechanism, the caller of resolveName and the step belong together.
Path ==
  b.pc # "idle" =>
    \/ /\ b.req.mech = "simple" /\ b.req.name # RootDse
       /\ \/ b.stage = "verify" /\ b.pc \in {"lookup", "find", "verify"}
          \/ b.stage = "canonical" /\ b.pc \in {"lookup", "find"}
    \/ /\ b.req.mech = "plain"
       /\ \/ b.stage = "verify" /\ b.pc \in {"lookup", "find", "verify"}
          \/ b.stage = "plain" /\ b.pc \in {"lookup", "find"}
    \/ /\ b.req.mech = "digest" /\ b.stage = "digest"
       /\ b.pc \in {"lookup", "find", "disabled", "password"}
    \/ /\ b.req.mech = "external" /\ b.stage \in {"cert", "requested"}
       /\ b.pc \in {"lookup", "find", "disabled"}
    \/ /\ b.req.mech = "gssapi" /\ b.stage = "gssapi"
       /\ b.pc \in {"lookup", "find", "disabled"}

\* The nonce of the session has not been answered, unless the answer is being
\* examined; and none that was not issued has.
Nonces ==
  /\ \A n \in 1..MaxNonces : tries[n] <= 1
  /\ \A n \in 1..MaxNonces : n > issued => tries[n] = 0
  /\ ses.nonce # 0 /\ ~(b.pc # "idle" /\ b.req.mech = "digest") => tries[ses.nonce] = 0

\* No identity before the bind has succeeded.
Anonymous == ~(b.pc = "idle" /\ b.rc = Success) => ~ses.bound /\ ses.dn = RootDse

\* What the session may be bound as: a name the directory has had, or root.
Known(d) == d \in (Names \cup {RootDn}) \ {RootDse} /\ hasType(d)
Able == enabled \cup {RootDn}
PlainVerify == b.pc # "idle" /\ b.req.mech = "plain" /\ b.stage = "verify"

Eligible ==
  /\ b.pc # "idle" => EnabledIn(tree) \subseteq enabled
  /\ b.pc \in {"disabled", "password"} => Known(b.dn)
  /\ b.pc # "idle" /\ b.stage = "requested" => Known(b.dn)
  /\ b.pc = "password" => b.dn \in Able
  /\ PlainVerify => Known(b.dn)
  /\ PlainVerify /\ b.pc = "lookup" => b.name = b.dn
  /\ PlainVerify /\ b.pc = "find" => b.name = b.dn /\ b.dn \in Able
  /\ PlainVerify /\ b.pc = "verify" => b.name = b.dn \/ b.dn \in Able
  /\ b.pc = "verify" => Known(b.name)
  /\ b.pc = "idle" /\ ses.bound /\ b.req.mech # "simple" => ses.dn \in Able

\* What was proved, and how.
Confidential == InClear => \/ b.req.mech \in {"digest", "gssapi"}
                           \/ b.req.mech = "simple" /\ b.req.password = ""
Minted ==
  b.req.mech = "gssapi" =>
    LET t == b.req.ticket
    IN  t = mintGssapiTicket(b.keytab, [name |-> t.principal, realm |-> NotSet],
                             t.issued, t.expiry - t.issued)
Evidence ==
  /\ b.pc # "idle" => Confidential /\ Minted
  /\ b.pc = "idle" /\ b.rc = Success /\ ses.bound /\ ses.dn # RootDse =>
       /\ Confidential /\ Minted
       /\ b.req.mech \notin {"simple", "plain"} => ses.dn = b.proven

IInv == Shape /\ Typed /\ Path /\ Nonces /\ Anonymous /\ Eligible /\ Evidence

-----------------------------------------------------------------------------
(* The operators.                                                          *)

\* Every name below a base that has a type has one.
LEMMA BelowTyped ==
  ASSUME NEW d \in Seq(STRING \X STRING), NEW base \in Seq(STRING \X STRING),
         dnEndsWith(d, base), hasType(base)
  PROVE  hasType(d)
<1>1. PICK i \in DOMAIN base : rdnType(base[i]) # ""
  BY DEF hasType
<1>2. i \in 1..Len(base) /\ Len(base) <= Len(d) /\ Len(d) \in Nat /\ Len(base) \in Nat
  BY DEF dnEndsWith
<1>3. base[i] = d[Len(d) - Len(base) + i]
  BY <1>2 DEF dnEndsWith
<1>4. Len(d) - Len(base) + i \in DOMAIN d
  BY <1>2
<1> QED BY <1>1, <1>3, <1>4 DEF hasType

LEMMA AccountKnown ==
  ASSUME NEW t \in Trees, NEW n, accountOf(t, BaseDn, n) # NoName
  PROVE  accountOf(t, BaseDn, n) \in DOMAIN t /\ hasType(accountOf(t, BaseDn, n))
<1> DEFINE hits == Accounts(t, BaseDn, rdnValue(dnRdn(n)))
           d == CHOOSE d \in hits : TRUE
<1>1. accountOf(t, BaseDn, n) = d /\ hits # {}
  BY DEF accountOf, findAccount
<1>2. d \in hits
  BY <1>1
<1>3. d \in DOMAIN t /\ dnEndsWith(d, BaseDn)
  BY <1>2 DEF Accounts
<1> QED BY <1>1, <1>3, BelowTyped, NamesAssumption

\* What resolveName may return.
LEMMA NameKnown ==
  ASSUME NEW t \in Trees, NEW d \in DOMAIN t, hasType(d)
  PROVE  Known(d)
  BY NamesAssumption DEF Known, Names

LEMMA HeadOf ==
  ASSUME NEW S, NEW q \in Seq(S), q # << >>
  PROVE  1 \in DOMAIN q /\ Head(q) = q[1]
  OBVIOUS

LEMMA RootKnown == RootDn # RootDse => Known(RootDn)
<1> SUFFICES ASSUME RootDn # RootDse PROVE hasType(RootDn)
  BY DEF Known
<1>1. 1 \in DOMAIN RootDn /\ dnRdn(RootDn) = RootDn[1]
  BY HeadOf, NamesAssumption DEF dnRdn, RootDse
<1> QED BY <1>1, NamesAssumption DEF hasType

-----------------------------------------------------------------------------
(* The ways a step of a bind ends.                                         *)

Same == UNCHANGED <<tree, changes, enabled>>

\* The bind fails.
LEMMA FailKeeps ==
  ASSUME IInv, Same, NEW rc, rc # Success, Fail(rc),
         b.pc # "idle", b.req.mech # "digest"
  PROVE  IInv'
<1>1. /\ DOMAIN b' = BindFields /\ b'.pc = "idle" /\ b'.rc = rc /\ b'.req = b.req
      /\ UNCHANGED <<ses, issued, tries, tree, changes, enabled>>
  BY DEF Fail, IInv, Shape, BindFields, Same
<1>2. ~ses.bound /\ ses.dn = RootDse
  BY DEF IInv, Anonymous
<1>3. Shape' /\ Typed' /\ Path'
  BY <1>1 DEF IInv, Shape, Typed, TypeOK, Path
<1>4. Nonces'
  BY <1>1 DEF IInv, Nonces
<1>5. Anonymous' /\ Eligible' /\ Evidence'
  BY <1>1, <1>2 DEF Anonymous, Eligible, PlainVerify, Evidence
<1> QED BY <1>3, <1>4, <1>5 DEF IInv

LEMMA FailDigestKeeps ==
  ASSUME IInv, Same, FailDigest, b.pc # "idle"
  PROVE  IInv'
<1>1. /\ DOMAIN b' = BindFields /\ b'.pc = "idle" /\ b'.rc = "InvalidCredentials"
      /\ b'.req = b.req
      /\ DOMAIN ses' = SesFields /\ ses'.bound = ses.bound /\ ses'.dn = ses.dn
      /\ ses'.tls = ses.tls /\ ses'.nonce = 0
      /\ UNCHANGED <<issued, tries, tree, changes, enabled>>
  BY DEF FailDigest, IInv, Shape, BindFields, SesFields, Same
<1>2. ~ses.bound /\ ses.dn = RootDse
  BY DEF IInv, Anonymous
<1>3. Shape' /\ Typed' /\ Path'
  BY <1>1 DEF IInv, Shape, Typed, TypeOK, Path
<1>4. Nonces'
  BY <1>1 DEF IInv, Nonces
<1>5. Anonymous' /\ Eligible' /\ Evidence'
  BY <1>1, <1>2 DEF Anonymous, Eligible, PlainVerify, Evidence, Success
<1> QED BY <1>3, <1>4, <1>5 DEF IInv

\* It succeeds: a digest is used up, and dn may be bound.
LEMMA SucceedKeeps ==
  ASSUME IInv, Same, NEW dn, NEW proven, NEW nonce, Succeed(dn, proven, nonce),
         b.pc # "idle", nonce \in {0, ses.nonce},
         b.req.mech = "digest" => nonce = 0,
         b.req.mech # "simple" => dn \in Able,
         b.req.mech \notin {"simple", "plain"} => dn = proven
  PROVE  IInv'
<1>1. /\ DOMAIN b' = BindFields /\ b'.pc = "idle" /\ b'.rc = Success
      /\ b'.req = b.req /\ b'.proven = proven /\ b'.keytab = b.keytab
      /\ DOMAIN ses' = SesFields /\ ses'.bound = TRUE /\ ses'.dn = dn
      /\ ses'.tls = ses.tls /\ ses'.nonce = nonce
      /\ UNCHANGED <<issued, tries, tree, changes, enabled>>
  BY DEF Succeed, IInv, Shape, BindFields, SesFields, Same
<1>2. nonce \in 0..issued /\ TRUE \in BOOLEAN
  BY AuthenticationAssumption DEF IInv, Typed, TypeOK
<1>3. Shape' /\ Typed' /\ Path'
  <2>1. ses'.bound \in BOOLEAN /\ ses'.tls \in BOOLEAN
    BY <1>1 DEF IInv, Typed, TypeOK
  <2> QED BY <1>1, <1>2, <2>1 DEF IInv, Shape, Typed, TypeOK, Path
<1>4. Nonces'
  BY <1>1 DEF IInv, Nonces
<1>5. Anonymous' /\ Eligible'
  BY <1>1 DEF Anonymous, Eligible, PlainVerify, Able
<1>6. Confidential' /\ Minted'
  <2>1. Confidential /\ Minted
    BY DEF IInv, Evidence
  <2> QED BY <2>1, <1>1 DEF Confidential, Minted, InClear
<1>7. Evidence'
  BY <1>1, <1>6 DEF Evidence
<1> QED BY <1>3, <1>4, <1>5, <1>7 DEF IInv

\* The name is known: the account's flags, or its password, are next.
LEMMA GoesKeeps ==
  ASSUME IInv, Same, NEW pc, NEW dn, Goes(pc, dn), b.pc # "idle", Known(dn),
         \/ pc = "disabled" /\ b.req.mech \in {"digest", "external", "gssapi"}
         \/ pc = "password" /\ b.req.mech = "digest" /\ dn \in Able
  PROVE  IInv'
<1>1. /\ DOMAIN b' = BindFields /\ b'.pc = pc /\ b'.dn = dn /\ b'.rc = b.rc /\ b'.req = b.req
      /\ b'.stage = b.stage /\ b'.name = b.name /\ b'.proven = b.proven /\ b'.keytab = b.keytab
      /\ UNCHANGED <<ses, issued, tries, tree, changes, enabled>>
  BY DEF Goes, IInv, Shape, BindFields, Same
<1>2. ~ses.bound /\ ses.dn = RootDse
  BY DEF IInv, Anonymous
<1>3. Shape' /\ Typed'
  BY <1>1 DEF IInv, Shape, Typed, TypeOK
<1>4. Path'
  BY <1>1 DEF IInv, Path
<1>5. Nonces'
  BY <1>1 DEF IInv, Nonces
<1>6. Anonymous'
  BY <1>1, <1>2 DEF Anonymous
<1>7. Eligible'
  <2>1. EnabledIn(tree)' = EnabledIn(tree) /\ Able' = Able
    BY <1>1 DEF EnabledIn, Able
  <2>2. ~PlainVerify'
    BY <1>1 DEF PlainVerify
  <2> QED BY <1>1, <1>2, <2>1, <2>2 DEF IInv, Eligible
<1>8. Evidence'
  <2>1. Confidential /\ Minted
    BY DEF IInv, Evidence
  <2>2. Confidential' /\ Minted'
    BY <2>1, <1>1 DEF Confidential, Minted, InClear
  <2> QED BY <1>1, <2>2 DEF Evidence
<1> QED BY <1>3, <1>4, <1>5, <1>6, <1>7, <1>8 DEF IInv

\* Another name is to be resolved.
LEMMA ResolveKeeps ==
  ASSUME IInv, Same, NEW stage, NEW name, NEW dn, NEW proven,
         Resolve(b.req, stage, name, dn, proven), UNCHANGED <<ses, issued, tries>>,
         b.pc # "idle", name # RootDse,
         \/ b.req.mech = "simple" /\ stage = "canonical"
         \/ b.req.mech = "plain" /\ stage = "verify" /\ name = dn /\ Known(dn)
         \/ b.req.mech = "external" /\ stage = "requested" /\ Known(dn)
  PROVE  IInv'
<1>1. /\ DOMAIN b' = BindFields /\ b'.pc = "lookup" /\ b'.req = b.req /\ b'.stage = stage
      /\ b'.name = name /\ b'.dn = dn /\ b'.proven = proven
      /\ UNCHANGED <<ses, issued, tries, tree, changes, enabled>>
  BY DEF Resolve, NoBind, BindFields, Same
<1>2. ~ses.bound /\ ses.dn = RootDse
  BY DEF IInv, Anonymous
<1>3. Shape' /\ Typed'
  BY <1>1 DEF IInv, Shape, Typed, TypeOK
<1>4. Path'
  BY <1>1 DEF IInv, Path
<1>5. Nonces'
  BY <1>1 DEF IInv, Nonces
<1>6. Anonymous'
  BY <1>1, <1>2 DEF Anonymous
<1>7. Eligible'
  <2>1. EnabledIn(tree)' = EnabledIn(tree)
    BY <1>1 DEF EnabledIn
  <2> QED BY <1>1, <1>2, <2>1 DEF IInv, Eligible, PlainVerify
<1>8. Evidence'
  <2>1. Confidential
    BY DEF IInv, Evidence
  <2>2. Confidential' /\ Minted'
    BY <2>1, <1>1 DEF Confidential, Minted, InClear
  <2> QED BY <1>1, <2>2 DEF Evidence
<1> QED BY <1>3, <1>4, <1>5, <1>6, <1>7, <1>8 DEF IInv

\* SimpleBindAuthenticator::bind has found the password of dn right.
LEMMA VerifiedKeeps ==
  ASSUME IInv, Same, NEW dn, Verified(dn), b.pc # "idle",
         b.req.mech \in {"simple", "plain"},
         b.req.mech = "plain" => b.dn \in Able
  PROVE  IInv'
<1>1. CASE b.req.mech = "plain"
  <2>1. Succeed(b.dn, dn, ses.nonce)
    BY <1>1 DEF Verified
  <2> QED BY <1>1, <2>1, SucceedKeeps
<1>2. CASE b.req.mech = "simple"
  <2>1. Resolve(b.req, "canonical", b.req.name, NoName, dn) /\ UNCHANGED <<ses, issued, tries>>
    BY <1>2 DEF Verified
  <2>2. b.req.name # RootDse
    BY <1>2 DEF IInv, Path
  <2> QED BY <1>2, <2>1, <2>2, ResolveKeeps
<1> QED BY <1>1, <1>2

\* The entry of dn is to be looked up.
LEMMA ToVerifyKeeps ==
  ASSUME IInv, Same, NEW dn, b' = [b EXCEPT !.pc = "verify", !.name = dn],
         UNCHANGED <<ses, issued, tries>>,
         b.pc # "idle", b.stage = "verify", Known(dn),
         PlainVerify => dn = b.dn \/ b.dn \in Able
  PROVE  IInv'
<1>1. /\ DOMAIN b' = BindFields /\ b'.pc = "verify" /\ b'.dn = b.dn /\ b'.rc = b.rc
      /\ b'.req = b.req /\ b'.stage = b.stage /\ b'.name = dn /\ b'.proven = b.proven
      /\ b'.keytab = b.keytab
      /\ UNCHANGED <<ses, issued, tries, tree, changes, enabled>>
  BY DEF IInv, Shape, BindFields, Same
<1>2. ~ses.bound /\ ses.dn = RootDse
  BY DEF IInv, Anonymous
<1>3. Shape' /\ Typed'
  BY <1>1 DEF IInv, Shape, Typed, TypeOK, Known
<1>4. Path'
  BY <1>1 DEF IInv, Path
<1>5. Nonces'
  BY <1>1 DEF IInv, Nonces
<1>6. Anonymous'
  BY <1>1, <1>2 DEF Anonymous
<1>7. Eligible'
  <2>1. EnabledIn(tree)' = EnabledIn(tree) /\ Able' = Able /\ PlainVerify' = PlainVerify
    BY <1>1 DEF EnabledIn, Able, PlainVerify
  <2> QED BY <1>1, <1>2, <2>1 DEF IInv, Eligible
<1>8. Evidence'
  <2>1. Confidential /\ Minted
    BY DEF IInv, Evidence
  <2>2. Confidential' /\ Minted'
    BY <2>1, <1>1 DEF Confidential, Minted, InClear
  <2> QED BY <1>1, <2>2 DEF Evidence
<1> QED BY <1>3, <1>4, <1>5, <1>6, <1>7, <1>8 DEF IInv

\* resolveName has returned dn.
LEMMA ResolvedKeeps ==
  ASSUME IInv, Same, NEW dn, Resolved(dn), b.pc \in {"lookup", "find"},
         dn # NoName => Known(dn),
         PlainVerify => dn = b.dn \/ b.dn \in Able
  PROVE  IInv'
<1> DEFINE Mech == b.req.mech
<1>0. "InvalidCredentials" # Success /\ "InsufficientAccessRights" # Success
  BY DEF Success
<1>1. CASE b.stage = "verify"
  <2>0. Mech \in {"simple", "plain"} /\ b.pc # "idle"
    BY <1>1 DEF IInv, Path
  <2>1. CASE dn = NoName
    <3>1. Fail("InvalidCredentials")
      BY <1>1, <2>1 DEF Resolved
    <3> QED BY <1>0, <2>0, <3>1, FailKeeps
  <2>2. CASE dn # NoName /\ dn # RootDn
    <3>1. b' = [b EXCEPT !.pc = "verify", !.name = dn] /\ UNCHANGED <<ses, issued, tries>>
      BY <1>1, <2>2 DEF Resolved
    <3> QED BY <1>1, <2>0, <2>2, <3>1, ToVerifyKeeps
  <2>3. CASE dn # NoName /\ dn = RootDn
    <3>1. Verified(dn) \/ Fail("InvalidCredentials")
      BY <1>1, <2>3 DEF Resolved
    <3>2. CASE Fail("InvalidCredentials")
      BY <1>0, <2>0, <3>2, FailKeeps
    <3>3. CASE Verified(dn)
      <4>1. Mech = "plain" => b.dn \in Able
        BY <1>1, <2>0, <2>3 DEF PlainVerify, Able
      <4> QED BY <2>0, <3>3, <4>1, VerifiedKeeps
    <3> QED BY <3>1, <3>2, <3>3
  <2> QED BY <2>1, <2>2, <2>3
<1>2. CASE b.stage = "canonical"
  <2>1. Mech = "simple" /\ b.pc # "idle"
    BY <1>2 DEF IInv, Path
  <2>2. PICK name : Succeed(name, b.proven, 0)
    BY <1>2 DEF Resolved
  <2> QED BY <2>1, <2>2, SucceedKeeps
<1>3. CASE b.stage = "plain"
  <2>1. Mech = "plain" /\ b.pc # "idle"
    BY <1>3 DEF IInv, Path
  <2>2. CASE dn = NoName
    <3>1. Fail("InvalidCredentials")
      BY <1>3, <2>2 DEF Resolved
    <3> QED BY <1>0, <2>1, <3>1, FailKeeps
  <2>3. CASE dn # NoName /\ b.req.authzid \notin {RootDse, b.req.name, dn}
    <3>1. Fail("InsufficientAccessRights")
      BY <1>3, <2>3 DEF Resolved
    <3> QED BY <1>0, <2>1, <3>1, FailKeeps
  <2>4. CASE dn # NoName /\ b.req.authzid \in {RootDse, b.req.name, dn}
    <3>1. Resolve(b.req, "verify", dn, dn, NoName) /\ UNCHANGED <<ses, issued, tries>>
      BY <1>3, <2>4 DEF Resolved
    <3> QED BY <2>1, <2>4, <3>1, ResolveKeeps DEF NoName
  <2> QED BY <2>2, <2>3, <2>4
<1>4. CASE b.stage = "digest"
  <2>1. Mech = "digest" /\ b.pc # "idle"
    BY <1>4 DEF IInv, Path
  <2>2. CASE dn = NoName
    <3>1. FailDigest
      BY <1>4, <2>2 DEF Resolved
    <3> QED BY <2>1, <3>1, FailDigestKeeps
  <2>3. CASE dn # NoName
    <3>1. Goes("disabled", dn)
      BY <1>4, <2>3 DEF Resolved
    <3> QED BY <2>1, <2>3, <3>1, GoesKeeps
  <2> QED BY <2>2, <2>3
<1>5. CASE b.stage = "cert"
  <2>1. Mech = "external" /\ b.pc # "idle"
    BY <1>5 DEF IInv, Path
  <2>2. CASE dn = NoName
    <3>1. Fail("InvalidCredentials")
      BY <1>5, <2>2 DEF Resolved
    <3> QED BY <1>0, <2>1, <3>1, FailKeeps
  <2>3. CASE dn # NoName /\ b.req.name = RootDse
    <3>1. Goes("disabled", dn)
      BY <1>5, <2>3 DEF Resolved
    <3> QED BY <2>1, <2>3, <3>1, GoesKeeps
  <2>4. CASE dn # NoName /\ b.req.name # RootDse
    <3>1. Resolve(b.req, "requested", b.req.name, dn, NoName) /\ UNCHANGED <<ses, issued, tries>>
      BY <1>5, <2>4 DEF Resolved
    <3> QED BY <2>1, <2>4, <3>1, ResolveKeeps
  <2> QED BY <2>2, <2>3, <2>4
<1>6. CASE b.stage = "requested"
  <2>1. Mech = "external" /\ b.pc # "idle"
    BY <1>6 DEF IInv, Path
  <2>2. CASE dn # b.dn
    <3>1. Fail("InvalidCredentials")
      BY <1>6, <2>2 DEF Resolved
    <3> QED BY <1>0, <2>1, <3>1, FailKeeps
  <2>3. CASE dn = b.dn
    <3>1. Goes("disabled", dn)
      BY <1>6, <2>3 DEF Resolved
    <3>2. Known(dn)
      BY <1>6, <2>1, <2>3 DEF IInv, Eligible
    <3> QED BY <2>1, <3>1, <3>2, GoesKeeps
  <2> QED BY <2>2, <2>3
<1>7. CASE b.stage = "gssapi"
  <2>1. Mech = "gssapi" /\ b.pc # "idle"
    BY <1>7 DEF IInv, Path
  <2>2. CASE dn = NoName
    <3>1. Fail("InvalidCredentials")
      BY <1>7, <2>2 DEF Resolved
    <3> QED BY <1>0, <2>1, <3>1, FailKeeps
  <2>3. CASE dn # NoName
    <3>1. Goes("disabled", dn)
      BY <1>7, <2>3 DEF Resolved
    <3> QED BY <2>1, <2>3, <3>1, GoesKeeps
  <2> QED BY <2>2, <2>3
<1> QED BY <1>1, <1>2, <1>3, <1>4, <1>5, <1>6, <1>7 DEF Resolved

-----------------------------------------------------------------------------
(* handleBind.                                                             *)

\* The bind is answered at once, and the session stays anonymous.
LEMMA RefuseKeeps ==
  ASSUME IInv, b.pc = "idle", UNCHANGED <<tree, changes>>, enabled' = EnabledIn(tree),
         NEW r \in Requests, NEW rc, NEW new, Refuse(r, rc, new),
         DOMAIN new = SesFields, new.dn = RootDse, new.tls = ses.tls,
         new.nonce \in {0, ses.nonce},
         \/ new.bound = FALSE
         \/ new.bound = TRUE /\ rc = Success /\ r.mech = "simple"
  PROVE  IInv'
<1>1. /\ DOMAIN b' = BindFields /\ b'.pc = "idle" /\ b'.req = r /\ b'.rc = rc
      /\ ses' = new /\ UNCHANGED <<tree, changes, issued, tries>>
  BY DEF Refuse, NoBind, BindFields
<1>2. new.nonce \in 0..issued
  BY AuthenticationAssumption DEF IInv, Typed, TypeOK
<1>3. Shape' /\ Typed' /\ Path'
  BY <1>1, <1>2 DEF IInv, Shape, Typed, TypeOK, Path
<1>4. Nonces'
  BY <1>1 DEF IInv, Nonces
<1>5. Anonymous' /\ Eligible' /\ Evidence'
  BY <1>1 DEF Anonymous, Eligible, PlainVerify, Evidence
<1> QED BY <1>3, <1>4, <1>5 DEF IInv

\* The bind begins with resolveName(name).
LEMMA BeginKeeps ==
  ASSUME IInv, b.pc = "idle", UNCHANGED <<tree, changes, issued>>, enabled' = EnabledIn(tree),
         NEW r \in Requests, NEW stage, NEW name,
         DOMAIN b' = BindFields, b'.pc = "lookup", b'.req = r, b'.stage = stage, b'.name = name,
         DOMAIN ses' = SesFields, ses'.bound = FALSE, ses'.dn = RootDse,
         ses'.tls = ses.tls, ses'.nonce \in {0, ses.nonce}, name # RootDse,
         \/ /\ tries' = tries
            /\ \/ r.mech = "simple" /\ stage = "verify" /\ r.name # RootDse
               \/ r.mech = "plain" /\ stage = "plain"
               \/ r.mech = "external" /\ stage = "cert"
               \/ r.mech = "gssapi" /\ stage = "gssapi"
         \/ /\ tries' = [tries EXCEPT ![ses.nonce] = @ + 1] /\ ses.nonce # 0
            /\ r.mech = "digest" /\ stage = "digest",
         Confidential', Minted'
  PROVE  IInv'
<1>1. /\ DOMAIN b' = BindFields /\ b'.pc = "lookup" /\ b'.req = r /\ b'.stage = stage
      /\ b'.name = name
  OBVIOUS
<1>2. ses'.nonce \in 0..issued /\ issued \in 0..MaxNonces /\ ses.nonce \in 0..issued
  BY AuthenticationAssumption DEF IInv, Typed, TypeOK
<1>3. tries' \in [1..MaxNonces -> Nat]
  <2>1. tries \in [1..MaxNonces -> Nat]
    BY DEF IInv, Typed
  <2> QED BY <1>2, <2>1
<1>4. Shape' /\ Typed'
  BY <1>1, <1>2, <1>3 DEF IInv, Shape, Typed, TypeOK
<1>5. Path'
  BY <1>1 DEF Path
<1>6. Nonces'
  <2>1. CASE tries' = tries
    BY <1>1, <2>1 DEF IInv, Nonces
  <2>2. CASE tries' = [tries EXCEPT ![ses.nonce] = @ + 1] /\ ses.nonce # 0 /\ r.mech = "digest"
    <3>1. ses.nonce \in 1..MaxNonces /\ ses.nonce <= issued
      BY <1>2, <2>2, AuthenticationAssumption
    <3>2. tries[ses.nonce] = 0
      BY <2>2 DEF IInv, Nonces
    <3>3. \A n \in 1..MaxNonces : tries'[n] = IF n = ses.nonce THEN 1 ELSE tries[n]
      BY <2>2, <3>1, <3>2 DEF IInv, Typed
    <3>4. \A n \in 1..MaxNonces : tries'[n] <= 1 /\ (n > issued => tries'[n] = 0)
      BY <1>2, <3>1, <3>3 DEF IInv, Nonces
    <3> QED BY <1>1, <2>2, <3>4 DEF Nonces
  <2> QED BY <2>1, <2>2
<1>7. Anonymous'
  BY DEF Anonymous
<1>8. Eligible'
  <2>1. EnabledIn(tree)' = EnabledIn(tree)
    BY DEF EnabledIn
  <2>2. ~PlainVerify' /\ stage # "requested"
    BY <1>1 DEF PlainVerify
  <2> QED BY <1>1, <2>1, <2>2 DEF Eligible
<1>9. Evidence'
  BY <1>1 DEF Evidence
<1> QED BY <1>4, <1>5, <1>6, <1>7, <1>8, <1>9 DEF IInv

LEMMA ClearedFields ==
  ASSUME Shape, NEW n
  PROVE  /\ DOMAIN Cleared = SesFields /\ Cleared.bound = FALSE /\ Cleared.dn = RootDse
         /\ Cleared.tls = ses.tls /\ Cleared.nonce = ses.nonce
         /\ LET new == [Cleared EXCEPT !.nonce = n]
            IN  /\ DOMAIN new = SesFields /\ new.bound = FALSE /\ new.dn = RootDse
                /\ new.tls = ses.tls /\ new.nonce = n
  BY DEF Shape, SesFields, Cleared

\* A ticket that verifies was minted by a holder of the key for its principal.
LEMMA VerifiedIsMinted ==
  ASSUME NEW r \in Requests, r.mech = "gssapi", NEW keytab, NEW now,
         verifyGssapiTicket(keytab, r.ticket, now)
  PROVE  r.ticket = mintGssapiTicket(keytab, [name |-> r.ticket.principal, realm |-> NotSet],
                                     r.ticket.issued, r.ticket.expiry - r.ticket.issued)
<1> DEFINE t == r.ticket
           user == [name |-> t.principal, realm |-> NotSet]
           life == t.expiry - t.issued
<1>1. /\ t = [form |-> t.form, realm |-> t.realm, principal |-> t.principal,
              service |-> t.service, issued |-> t.issued, expiry |-> t.expiry, mac |-> t.mac]
      /\ t.issued \in Int /\ t.expiry \in Int
  BY TicketsAssumption
<1>2. /\ t.form = "ticket" /\ t.principal # RootDse /\ complete(keytab)
      /\ t.realm = keytab.realm /\ t.service = keytab.service /\ t.issued < t.expiry
      /\ t.mac = hmacSha256Hex(keytab.key,
                               canonicalTicket(keytab, t.principal, t.issued, t.expiry))
  BY TicketsAssumption DEF verifyGssapiTicket
<1>3. ~(life <= 0) /\ t.issued + life = t.expiry
  BY <1>1, <1>2
<1>4. normalizeKerberosPrincipal(user, keytab.realm) = t.principal
  BY DEF normalizeKerberosPrincipal
<1>5. encodeGssapiTicket(keytab, user, t.issued, t.expiry) =
        [form |-> "ticket", realm |-> keytab.realm, principal |-> t.principal,
         service |-> keytab.service, issued |-> t.issued, expiry |-> t.expiry,
         mac |-> hmacSha256Hex(keytab.key,
                               canonicalTicket(keytab, t.principal, t.issued, t.expiry))]
  BY <1>2, <1>4 DEF encodeGssapiTicket
<1>6. mintGssapiTicket(keytab, user, t.issued, life)
        = encodeGssapiTicket(keytab, user, t.issued, t.expiry)
  BY <1>3 DEF mintGssapiTicket
<1> QED BY <1>1, <1>2, <1>5, <1>6

Starts == b.pc = "idle" /\ UNCHANGED <<tree, changes>> /\ enabled' = EnabledIn(tree)

\* The session's identity is cleared, and its nonce kept, whatever the answer.
LEMMA RefuseCleared ==
  ASSUME IInv, Starts, NEW r \in Requests, NEW rc,
         Refuse(r, rc, Cleared) \/ Refuse(r, rc, [Cleared EXCEPT !.nonce = 0])
  PROVE  IInv'
<1>0. Shape /\ b.pc = "idle" /\ UNCHANGED <<tree, changes>> /\ enabled' = EnabledIn(tree)
  BY DEF IInv, Starts
<1>1. CASE Refuse(r, rc, Cleared)
  <2> DEFINE new == Cleared
  <2>1. /\ DOMAIN new = SesFields /\ new.dn = RootDse /\ new.tls = ses.tls
        /\ new.nonce \in {0, ses.nonce} /\ new.bound = FALSE
    BY <1>0, ClearedFields
  <2> HIDE DEF new
  <2> QED BY <1>0, <1>1, <2>1, RefuseKeeps DEF new
<1>2. CASE Refuse(r, rc, [Cleared EXCEPT !.nonce = 0])
  <2> DEFINE new == [Cleared EXCEPT !.nonce = 0]
  <2>1. /\ DOMAIN new = SesFields /\ new.dn = RootDse /\ new.tls = ses.tls
        /\ new.nonce \in {0, ses.nonce} /\ new.bound = FALSE
    BY <1>0, ClearedFields
  <2>2. Refuse(r, rc, new)
    BY <1>2
  <2> HIDE DEF new
  <2> QED BY <1>0, <2>1, <2>2, RefuseKeeps
<1> QED BY <1>1, <1>2

LEMMA BeginFields ==
  ASSUME NEW r, NEW stage, NEW name, NEW dn, NEW proven, Resolve(r, stage, name, dn, proven)
  PROVE  /\ DOMAIN b' = BindFields /\ b'.pc = "lookup" /\ b'.req = r /\ b'.stage = stage
         /\ b'.name = name /\ b'.dn = dn /\ b'.proven = proven
  BY DEF Resolve, NoBind, BindFields

LEMMA SimpleKeeps ==
  ASSUME IInv, Starts, NEW r \in Requests, bindSimple(r)
  PROVE  IInv'
<1> DEFINE new == [Cleared EXCEPT !.nonce = 0]
           anon == [new EXCEPT !.bound = TRUE]
<1>0. /\ Shape /\ b.pc = "idle" /\ UNCHANGED <<tree, changes>> /\ enabled' = EnabledIn(tree)
      /\ r.mech = "simple"
  BY DEF IInv, Starts, bindSimple
<1>1. /\ DOMAIN new = SesFields /\ new.dn = RootDse /\ new.tls = ses.tls
      /\ new.nonce = 0 /\ new.bound = FALSE
  BY <1>0, ClearedFields
<1>2. /\ DOMAIN anon = SesFields /\ anon.dn = RootDse /\ anon.tls = ses.tls
      /\ anon.nonce \in {0, ses.nonce} /\ anon.bound = TRUE
  BY <1>1 DEF SesFields
<1>3. CASE \E rc : Refuse(r, rc, new)
  BY <1>3, RefuseCleared
<1>4. CASE Refuse(r, Success, anon)
  <2> HIDE DEF anon
  <2> QED BY <1>0, <1>2, <1>4, RefuseKeeps
<1>5. CASE /\ Begin(r, "verify", r.name, new)
           /\ ~(InClear /\ r.password # "") /\ r.name # RootDse
  <2>1. Resolve(r, "verify", r.name, NoName, NoName) /\ ses' = new /\ UNCHANGED <<issued, tries>>
    BY <1>5 DEF Begin
  <2>2. /\ DOMAIN b' = BindFields /\ b'.pc = "lookup" /\ b'.req = r /\ b'.stage = "verify"
        /\ b'.name = r.name
    BY <2>1, BeginFields
  <2>3. Confidential' /\ Minted'
    BY <1>0, <1>1, <1>5, <2>1, <2>2 DEF Confidential, Minted, InClear
  <2> HIDE DEF new
  <2> QED BY <1>0, <1>1, <1>5, <2>1, <2>2, <2>3, BeginKeeps
<1>6. \/ \E rc : Refuse(r, rc, new)
      \/ Refuse(r, Success, anon)
      \/ Begin(r, "verify", r.name, new) /\ ~(InClear /\ r.password # "") /\ r.name # RootDse
  BY DEF bindSimple
<1> QED BY <1>3, <1>4, <1>5, <1>6

LEMMA PlainKeeps ==
  ASSUME IInv, Starts, NEW r \in Requests, bindPlain(r)
  PROVE  IInv'
<1>0. /\ Shape /\ b.pc = "idle" /\ UNCHANGED <<tree, changes>> /\ enabled' = EnabledIn(tree)
      /\ r.mech = "plain"
  BY DEF IInv, Starts, bindPlain
<1>1. /\ DOMAIN Cleared = SesFields /\ Cleared.dn = RootDse /\ Cleared.tls = ses.tls
      /\ Cleared.nonce = ses.nonce /\ Cleared.bound = FALSE
  BY <1>0, ClearedFields
<1>2. \/ \E rc : Refuse(r, rc, Cleared)
      \/ Begin(r, "plain", r.name, Cleared) /\ ~InClear /\ r.name # RootDse
  BY DEF bindPlain, parsePlain
<1>3. CASE \E rc : Refuse(r, rc, Cleared)
  BY <1>3, RefuseCleared
<1>4. CASE Begin(r, "plain", r.name, Cleared) /\ ~InClear /\ r.name # RootDse
  <2>1. Resolve(r, "plain", r.name, NoName, NoName) /\ ses' = Cleared /\ UNCHANGED <<issued, tries>>
    BY <1>4 DEF Begin
  <2>2. /\ DOMAIN b' = BindFields /\ b'.pc = "lookup" /\ b'.req = r /\ b'.stage = "plain"
        /\ b'.name = r.name
    BY <2>1, BeginFields
  <2>3. Confidential' /\ Minted'
    BY <1>0, <1>1, <1>4, <2>1, <2>2 DEF Confidential, Minted, InClear
  <2> QED BY <1>0, <1>1, <1>4, <2>1, <2>2, <2>3, BeginKeeps
<1> QED BY <1>2, <1>3, <1>4

LEMMA ExternalKeeps ==
  ASSUME IInv, Starts, NEW r \in Requests, bindExternal(r)
  PROVE  IInv'
<1>0. /\ Shape /\ b.pc = "idle" /\ UNCHANGED <<tree, changes>> /\ enabled' = EnabledIn(tree)
      /\ r.mech = "external"
  BY DEF IInv, Starts, bindExternal
<1>1. /\ DOMAIN Cleared = SesFields /\ Cleared.dn = RootDse /\ Cleared.tls = ses.tls
      /\ Cleared.nonce = ses.nonce /\ Cleared.bound = FALSE
  BY <1>0, ClearedFields
<1>2. \/ \E rc : Refuse(r, rc, Cleared)
      \/ Begin(r, "cert", CertName, Cleared) /\ ses.tls /\ CertName # RootDse
  BY DEF bindExternal
<1>3. CASE \E rc : Refuse(r, rc, Cleared)
  BY <1>3, RefuseCleared
<1>4. CASE Begin(r, "cert", CertName, Cleared) /\ ses.tls /\ CertName # RootDse
  <2>1. /\ Resolve(r, "cert", CertName, NoName, NoName) /\ ses' = Cleared
        /\ UNCHANGED <<issued, tries>>
    BY <1>4 DEF Begin
  <2>2. /\ DOMAIN b' = BindFields /\ b'.pc = "lookup" /\ b'.req = r /\ b'.stage = "cert"
        /\ b'.name = CertName
    BY <2>1, BeginFields
  <2>3. Confidential' /\ Minted'
    BY <1>0, <1>1, <1>4, <2>1, <2>2 DEF Confidential, Minted, InClear
  <2> QED BY <1>0, <1>1, <1>4, <2>1, <2>2, <2>3, BeginKeeps
<1> QED BY <1>2, <1>3, <1>4

LEMMA GssapiKeeps ==
  ASSUME IInv, Starts, NEW r \in Requests, bindGssapi(r)
  PROVE  IInv'
<1>0. /\ Shape /\ b.pc = "idle" /\ UNCHANGED <<tree, changes>> /\ enabled' = EnabledIn(tree)
      /\ r.mech = "gssapi"
  BY DEF IInv, Starts, bindGssapi
<1>1. /\ DOMAIN Cleared = SesFields /\ Cleared.dn = RootDse /\ Cleared.tls = ses.tls
      /\ Cleared.nonce = ses.nonce /\ Cleared.bound = FALSE
  BY <1>0, ClearedFields
<1>2. \/ \E rc : Refuse(r, rc, Cleared)
      \/ \E keytab, now :
           /\ verifyGssapiTicket(keytab, r.ticket, now)
           /\ b' = [NoBind EXCEPT !.pc = "lookup", !.req = r, !.stage = "gssapi",
                                  !.name = r.ticket.principal, !.keytab = keytab]
           /\ ses' = Cleared /\ UNCHANGED <<issued, tries>>
  BY DEF bindGssapi
<1>3. CASE \E rc : Refuse(r, rc, Cleared)
  BY <1>3, RefuseCleared
<1>4. ASSUME NEW keytab, NEW now, verifyGssapiTicket(keytab, r.ticket, now),
             b' = [NoBind EXCEPT !.pc = "lookup", !.req = r, !.stage = "gssapi",
                                 !.name = r.ticket.principal, !.keytab = keytab],
             ses' = Cleared, UNCHANGED <<issued, tries>>
      PROVE  IInv'
  <2>1. /\ DOMAIN b' = BindFields /\ b'.pc = "lookup" /\ b'.req = r /\ b'.stage = "gssapi"
        /\ b'.name = r.ticket.principal /\ b'.keytab = keytab
    BY <1>4 DEF NoBind, BindFields
  <2>2. r.ticket.principal # RootDse
    BY <1>0, <1>4, TicketsAssumption DEF verifyGssapiTicket
  <2>3. Confidential' /\ Minted'
    BY <1>0, <1>4, <2>1, VerifiedIsMinted DEF Confidential, Minted
  <2> QED BY <1>0, <1>1, <1>4, <2>1, <2>2, <2>3, BeginKeeps
<1> QED BY <1>2, <1>3, <1>4

\* A new nonce has not been answered.
LEMMA ChallengeKeeps ==
  ASSUME IInv, Starts, NEW r \in Requests, issued < MaxNonces, issued' = issued + 1,
         ses' = [Cleared EXCEPT !.nonce = issued + 1],
         b' = [NoBind EXCEPT !.req = r, !.rc = "SaslBindInProgress"], UNCHANGED tries
  PROVE  IInv'
<1> DEFINE n == issued + 1
<1>0. Shape /\ b.pc = "idle" /\ UNCHANGED <<tree, changes, tries>> /\ issued' = n
  BY DEF IInv, Starts
<1>1. n \in 1..MaxNonces /\ n > issued /\ n \in 0..n
  BY AuthenticationAssumption DEF IInv, Typed, TypeOK
<1>2. \A i \in 1..MaxNonces : i > n => i > issued
  BY AuthenticationAssumption DEF IInv, Typed, TypeOK
<1>3. ses' = [Cleared EXCEPT !.nonce = n]
  OBVIOUS
<1> HIDE DEF n
<1>4. /\ DOMAIN ses' = SesFields /\ ses'.bound = FALSE /\ ses'.dn = RootDse
      /\ ses'.tls = ses.tls /\ ses'.nonce = n
  BY <1>0, <1>3, ClearedFields
<1>5. DOMAIN b' = BindFields /\ b'.pc = "idle" /\ b'.req = r /\ b'.rc = "SaslBindInProgress"
  BY DEF NoBind, BindFields
<1>6. n \in 0..MaxNonces
  BY <1>1, AuthenticationAssumption
<1>7. Shape' /\ Typed' /\ Path'
  BY <1>0, <1>1, <1>4, <1>5, <1>6 DEF IInv, Shape, Typed, TypeOK, Path
<1>8. Nonces'
  BY <1>0, <1>1, <1>2, <1>4 DEF IInv, Nonces
<1>9. Anonymous' /\ Eligible' /\ Evidence'
  BY <1>4, <1>5 DEF Anonymous, Eligible, PlainVerify, Evidence
<1> QED BY <1>7, <1>8, <1>9 DEF IInv

LEMMA DigestKeeps ==
  ASSUME IInv, Starts, NEW r \in Requests, bindDigest(r)
  PROVE  IInv'
<1>0. /\ Shape /\ b.pc = "idle" /\ UNCHANGED <<tree, changes>> /\ enabled' = EnabledIn(tree)
      /\ r.mech = "digest"
  BY DEF IInv, Starts, bindDigest
<1>1. /\ DOMAIN Cleared = SesFields /\ Cleared.dn = RootDse /\ Cleared.tls = ses.tls
      /\ Cleared.nonce = ses.nonce /\ Cleared.bound = FALSE
  BY <1>0, ClearedFields
<1>2. \/ /\ issued < MaxNonces /\ issued' = issued + 1
         /\ ses' = [Cleared EXCEPT !.nonce = issued + 1]
         /\ b' = [NoBind EXCEPT !.req = r, !.rc = "SaslBindInProgress"] /\ UNCHANGED tries
      \/ \E rc : Refuse(r, rc, [Cleared EXCEPT !.nonce = 0])
      \/ /\ ses.nonce # 0 /\ r.nonce = ses.nonce /\ r.name # RootDse
         /\ ses' = Cleared /\ Resolve(r, "digest", r.name, NoName, NoName)
         /\ tries' = [tries EXCEPT ![r.nonce] = @ + 1] /\ UNCHANGED issued
  BY DEF bindDigest, parseDigestPairs
<1>3. CASE /\ issued < MaxNonces /\ issued' = issued + 1
           /\ ses' = [Cleared EXCEPT !.nonce = issued + 1]
           /\ b' = [NoBind EXCEPT !.req = r, !.rc = "SaslBindInProgress"] /\ UNCHANGED tries
  BY <1>3, ChallengeKeeps
<1>4. CASE \E rc : Refuse(r, rc, [Cleared EXCEPT !.nonce = 0])
  BY <1>4, RefuseCleared
<1>5. CASE /\ ses.nonce # 0 /\ r.nonce = ses.nonce /\ r.name # RootDse
           /\ ses' = Cleared /\ Resolve(r, "digest", r.name, NoName, NoName)
           /\ tries' = [tries EXCEPT ![r.nonce] = @ + 1] /\ UNCHANGED issued
  <2>1. /\ DOMAIN b' = BindFields /\ b'.pc = "lookup" /\ b'.req = r /\ b'.stage = "digest"
        /\ b'.name = r.name
    BY <1>5, BeginFields
  <2>2. Confidential' /\ Minted'
    BY <1>0, <2>1 DEF Confidential, Minted
  <2>3. tries' = [tries EXCEPT ![ses.nonce] = @ + 1]
    BY <1>5
  <2> QED BY <1>0, <1>1, <1>5, <2>1, <2>2, <2>3, BeginKeeps
<1> QED BY <1>2, <1>3, <1>4, <1>5

LEMMA HandleBindKeeps == ASSUME IInv, handleBind PROVE IInv'
<1>1. Starts
  BY DEF handleBind, Starts
<1>2. PICK r \in Requests :
        \/ bindVersion(r) \/ bindBusy(r) \/ bindUnsupported(r) \/ bindSimple(r)
        \/ bindPlain(r) \/ bindExternal(r) \/ bindGssapi(r) \/ bindDigest(r)
  BY DEF handleBind
<1>3. CASE bindVersion(r) \/ bindBusy(r) \/ bindUnsupported(r)
  <2>1. \E rc : Refuse(r, rc, Cleared)
    BY <1>3 DEF bindVersion, bindBusy, bindUnsupported
  <2> QED BY <1>1, <2>1, RefuseCleared
<1> QED BY <1>1, <1>2, <1>3, SimpleKeeps, PlainKeeps, ExternalKeeps, GssapiKeeps, DigestKeeps

-----------------------------------------------------------------------------
(* The other steps.                                                        *)

LEMMA StartTlsKeeps == ASSUME IInv, startTls PROVE IInv'
<1>1. /\ DOMAIN ses' = SesFields /\ ses'.bound = ses.bound /\ ses'.dn = ses.dn
      /\ ses'.tls = TRUE /\ ses'.nonce = ses.nonce
      /\ UNCHANGED <<tree, changes, b, issued, tries, enabled>> /\ b.pc = "idle"
  BY DEF startTls, IInv, Shape, SesFields
<1>2. ses'.tls \in BOOLEAN
  BY <1>1
<1>3. Shape' /\ Typed' /\ Path'
  BY <1>1, <1>2 DEF IInv, Shape, Typed, TypeOK, Path
<1>4. Nonces' /\ Anonymous'
  BY <1>1 DEF IInv, Nonces, Anonymous
<1>5. Eligible'
  BY <1>1 DEF IInv, Eligible, PlainVerify, Able
<1>6. Evidence'
  BY <1>1 DEF IInv, Evidence, Confidential, Minted, InClear
<1> QED BY <1>3, <1>4, <1>5, <1>6 DEF IInv

LEMMA OtherSessionKeeps == ASSUME IInv, otherSession PROVE IInv'
<1>1. /\ UNCHANGED <<ses, b, issued, tries>> /\ tree' \in Trees
      /\ changes < MaxChanges /\ changes' = changes + 1
      /\ enabled' = enabled \cup EnabledIn(tree') /\ enabled \subseteq enabled'
  BY DEF otherSession
<1>2. changes' \in 0..MaxChanges
  BY <1>1, AuthenticationAssumption DEF IInv, Typed, TypeOK
<1>3. Shape' /\ Typed' /\ Path'
  BY <1>1, <1>2 DEF IInv, Shape, Typed, TypeOK, Path
<1>4. Nonces' /\ Anonymous'
  BY <1>1 DEF IInv, Nonces, Anonymous
<1>5. Eligible'
  <2>1. EnabledIn(tree)' \subseteq enabled' /\ Able \subseteq Able'
    BY <1>1 DEF EnabledIn, Able
  <2> QED BY <1>1, <2>1 DEF IInv, Eligible, PlainVerify
<1>6. Evidence'
  BY <1>1 DEF IInv, Evidence, Confidential, Minted, InClear
<1> QED BY <1>3, <1>4, <1>5, <1>6 DEF IInv

\* The name is neither root's nor found as it is; a name that PLAIN has
\* resolved, and that has gone, is not disabled.
LEMMA ResolveNameKeeps == ASSUME IInv, resolveName PROVE IInv'
<1>0. /\ Same /\ b.pc = "lookup" /\ tree \in Trees
      /\ PlainVerify => b.name = b.dn /\ Known(b.dn)
  BY DEF resolveName, Same, IInv, Typed, TypeOK, Eligible
<1>1. CASE isRootName(b.name)
  <2>1. Resolved(RootDn)
    BY <1>1 DEF resolveName
  <2>2. Known(RootDn)
    BY <1>1, RootKnown DEF isRootName
  <2>3. PlainVerify => RootDn = b.dn
    BY <1>0, <1>1 DEF isRootName, Known
  <2> QED BY <1>0, <2>1, <2>2, <2>3, ResolvedKeeps
<1>2. CASE ~isRootName(b.name) /\ hasType(b.name) /\ found(tree, b.name)
  <2>1. Resolved(b.name)
    BY <1>2 DEF resolveName
  <2>2. Known(b.name)
    BY <1>0, <1>2, NameKnown DEF found
  <2> QED BY <1>0, <2>1, <2>2, ResolvedKeeps
<1>3. CASE ~isRootName(b.name) /\ ~(hasType(b.name) /\ found(tree, b.name))
  <2>1. /\ DOMAIN b' = BindFields /\ b'.pc = "find" /\ b'.dn = b.dn /\ b'.rc = b.rc
        /\ b'.req = b.req /\ b'.stage = b.stage /\ b'.name = b.name /\ b'.proven = b.proven
        /\ b'.keytab = b.keytab
        /\ UNCHANGED <<ses, issued, tries, tree, changes, enabled>>
    BY <1>3 DEF resolveName, IInv, Shape, BindFields
  <2>2. ~ses.bound /\ ses.dn = RootDse
    BY <1>0 DEF IInv, Anonymous
  <2>3. Shape' /\ Typed'
    BY <1>0, <2>1 DEF IInv, Shape, Typed, TypeOK
  <2>4. Path'
    BY <1>0, <2>1 DEF IInv, Path
  <2>5. Nonces' /\ Anonymous'
    BY <1>0, <2>1, <2>2 DEF IInv, Nonces, Anonymous
  <2>6. Eligible'
    <3>1. PlainVerify => b.dn \in Able
      BY <1>0, <1>3 DEF Known, Able, EnabledIn, IInv, Eligible
    <3>2. EnabledIn(tree)' = EnabledIn(tree) /\ Able' = Able /\ PlainVerify' = PlainVerify
      BY <1>0, <2>1 DEF EnabledIn, Able, PlainVerify
    <3> QED BY <1>0, <2>1, <2>2, <3>1, <3>2 DEF IInv, Eligible
  <2>7. Evidence'
    BY <1>0, <2>1 DEF IInv, Evidence, Confidential, Minted, InClear
  <2> QED BY <2>3, <2>4, <2>5, <2>6, <2>7 DEF IInv
<1> QED BY <1>1, <1>2, <1>3

LEMMA FindAccountKeeps == ASSUME IInv, findAccountStep PROVE IInv'
<1> DEFINE dn == accountOf(tree, BaseDn, b.name)
<1>0. /\ Same /\ b.pc = "find" /\ tree \in Trees /\ Resolved(dn)
      /\ PlainVerify => b.dn \in Able
  BY DEF findAccountStep, Same, IInv, Typed, TypeOK, Eligible
<1>1. dn # NoName => Known(dn)
  BY <1>0, AccountKnown, NameKnown
<1> HIDE DEF dn
<1> QED BY <1>0, <1>1, ResolvedKeeps

LEMMA BindVerifyKeeps == ASSUME IInv, bindVerify PROVE IInv'
<1>0. Same /\ b.pc = "verify" /\ b.pc # "idle"
  BY DEF bindVerify, Same
<1>1. b.req.mech \in {"simple", "plain"} /\ b.stage = "verify"
  BY <1>0 DEF IInv, Path
<1>2. CASE Fail("InvalidCredentials")
  BY <1>0, <1>1, <1>2, FailKeeps DEF Success
<1>3. CASE Verified(b.name) /\ found(tree, b.name) /\ ~accountDisabled(tree[b.name])
  <2>1. Known(b.name) /\ EnabledIn(tree) \subseteq enabled
    BY <1>0 DEF IInv, Eligible
  <2>2. b.name \in Able
    BY <1>3, <2>1 DEF Known, Able, EnabledIn
  <2>3. b.req.mech = "plain" => b.dn \in Able
    BY <1>0, <1>1, <2>2 DEF IInv, Eligible, PlainVerify
  <2> QED BY <1>0, <1>1, <1>3, <2>3, VerifiedKeeps
<1>4. Fail("InvalidCredentials") \/ (Verified(b.name) /\ found(tree, b.name) /\ ~accountDisabled(tree[b.name]))
  BY DEF bindVerify
<1> QED BY <1>2, <1>3, <1>4

LEMMA IsAccountDisabledKeeps == ASSUME IInv, isAccountDisabled PROVE IInv'
<1>0. Same /\ b.pc = "disabled" /\ b.pc # "idle"
  BY DEF isAccountDisabled, Same
<1>1. b.req.mech \in {"digest", "external", "gssapi"} /\ Known(b.dn)
  BY <1>0 DEF IInv, Path, Eligible
<1>2. CASE Disabled(b.dn)
  <2>1. IF b.req.mech = "digest" THEN FailDigest ELSE Fail("InvalidCredentials")
    BY <1>2 DEF isAccountDisabled
  <2> QED BY <1>0, <1>1, <2>1, FailKeeps, FailDigestKeeps DEF Success
<1>3. CASE ~Disabled(b.dn)
  <2>1. b.dn \in Able
    BY <1>0, <1>1, <1>3 DEF Disabled, Known, Able, EnabledIn, IInv, Eligible
  <2>2. CASE b.req.mech = "digest"
    <3>1. Goes("password", b.dn)
      BY <1>3, <2>2 DEF isAccountDisabled
    <3> QED BY <1>0, <1>1, <2>1, <2>2, <3>1, GoesKeeps
  <2>3. CASE b.req.mech # "digest"
    <3>1. Succeed(b.dn, b.dn, ses.nonce)
      BY <1>3, <2>3 DEF isAccountDisabled
    <3> QED BY <1>0, <1>1, <2>1, <2>3, <3>1, SucceedKeeps
  <2> QED BY <2>2, <2>3
<1> QED BY <1>2, <1>3

LEMMA PasswordForKeeps == ASSUME IInv, passwordFor PROVE IInv'
<1>0. /\ Same /\ b.pc = "password" /\ b.pc # "idle" /\ b.dn \in Able /\ b.req.mech = "digest"
  BY DEF passwordFor, Same, IInv, Eligible, Path
<1>1. CASE FailDigest
  BY <1>0, <1>1, FailDigestKeeps
<1>2. CASE Succeed(b.dn, b.dn, 0)
  BY <1>0, <1>2, SucceedKeeps
<1> QED BY <1>1, <1>2 DEF passwordFor

LEMMA InitKeeps == Init => IInv
<1> SUFFICES ASSUME Init PROVE IInv
  OBVIOUS
<1>1. /\ DOMAIN b = BindFields /\ b.pc = "idle" /\ b.rc = Success /\ b.req.mech = "v2"
      /\ DOMAIN ses = SesFields /\ ses.bound = FALSE /\ ses.dn = RootDse /\ ses.tls = FALSE
      /\ ses.nonce = 0 /\ issued = 0 /\ changes = 0
      /\ tries = [n \in 1..MaxNonces |-> 0] /\ tree \in Trees
  BY DEF Init, NoBind, BindFields, SesFields
<1>2. ses.bound \in BOOLEAN /\ ses.tls \in BOOLEAN
  BY <1>1
<1>3. 0 \in 0..MaxNonces /\ 0 \in 0..MaxChanges /\ 0 \in 0..0
  BY AuthenticationAssumption
<1>4. Shape /\ Typed /\ Path
  BY <1>1, <1>2, <1>3 DEF Shape, Typed, TypeOK, Path
<1>5. Nonces /\ Anonymous /\ Eligible /\ Evidence
  BY <1>1 DEF Nonces, Anonymous, Eligible, PlainVerify, Evidence
<1> QED BY <1>4, <1>5 DEF IInv

\* IInv is an inductive invariant of the session.
THEOREM AuthenticationInductive == Spec => []IInv
<1>1. IInv /\ [Next]_vars => IInv'
  <2> SUFFICES ASSUME IInv, [Next]_vars PROVE IInv'
    OBVIOUS
  <2>1. CASE Next
    BY <2>1, HandleBindKeeps, StartTlsKeeps, OtherSessionKeeps, ResolveNameKeeps,
       FindAccountKeeps, BindVerifyKeeps, IsAccountDisabledKeeps, PasswordForKeeps DEF Next
  <2>2. CASE UNCHANGED vars
    BY <2>2 DEF vars, IInv, Shape, Typed, TypeOK, Path, Nonces, Anonymous, Eligible,
                PlainVerify, Able, EnabledIn, Evidence, Confidential, Minted, InClear
  <2> QED BY <2>1, <2>2
<1> QED BY InitKeeps, <1>1, PTL DEF Spec

\* Every bind in progress is about a name, and the session is at a step of it.
THEOREM AuthenticationTyped == Spec => []TypeOK
<1>1. IInv => TypeOK
  BY DEF IInv, Typed
<1> QED BY <1>1, AuthenticationInductive, PTL

\* No response to a DIGEST-MD5 challenge is examined after another one: the
\* nonce is used up by every way out of the exchange.
THEOREM NonceAnsweredOnce == Spec => []NonceSingleUse
<1>1. IInv => NonceSingleUse
  BY DEF IInv, Nonces, NonceSingleUse
<1> QED BY <1>1, AuthenticationInductive, PTL

\* A SASL bind never binds an account that was disabled all the time,
\* whatever other sessions add, remove and rename meanwhile.
SaslRefusesDisabled == b.req.mech # "simple" => DisabledAccountsRefused

\* SASL needs no assumption on what other sessions do to names: see Eligible.
THEOREM SaslDisabledRefused == Spec => []SaslRefusesDisabled
<1>1. IInv => SaslRefusesDisabled
  BY DEF IInv, Eligible, Able, SaslRefusesDisabled, DisabledAccountsRefused
<1> QED BY <1>1, AuthenticationInductive, PTL

-----------------------------------------------------------------------------
(* Directories in which names do not move: other sessions change passwords *)
(* and flags, but no entry comes or goes and every uid stays with its      *)
(* account.  A simple bind, which resolves its name twice, and PLAIN,      *)
(* which resolves it before the check, then bind what they have checked.   *)

NamesStay ==
  \A t, u \in Trees : /\ DOMAIN t = DOMAIN u
                      /\ \A n : findAccount(t, BaseDn, n) = findAccount(u, BaseDn, n)

\* What resolveName(n) returns.
resolved(n) ==
  IF isRootName(n) THEN RootDn
  ELSE IF hasType(n) /\ found(tree, n) THEN n
  ELSE accountOf(tree, BaseDn, n)

Simple == b.pc # "idle" /\ b.req.mech = "simple"

SInv ==
  /\ b.pc = "find" => ~isRootName(b.name) /\ ~(hasType(b.name) /\ found(tree, b.name))
  /\ Simple /\ b.pc # "verify" => b.name = b.req.name
  /\ Simple /\ b.pc = "verify" => b.name = resolved(b.req.name)
  /\ Simple /\ b.stage = "canonical" =>
       b.proven = resolved(b.req.name) /\ b.proven \in Able \ {NoName}
  /\ PlainVerify => b.name = b.dn
  /\ b.pc = "idle" /\ b.rc = Success /\ ses.bound /\ ses.dn # RootDse =>
       /\ b.req.mech \in {"simple", "plain"} => ses.dn = b.proven
       /\ b.req.mech = "simple" => ses.dn \in Able

LEMMA ResolvedStays ==
  ASSUME NamesStay, tree \in Trees, tree' \in Trees
  PROVE  \A n : resolved(n)' = resolved(n) /\ found(tree, n)' = found(tree, n)
  BY DEF NamesStay, resolved, found, accountOf, isRootName

\* A name that was resolved resolves to itself.
LEMMA ResolvedTwice ==
  ASSUME NamesStay, tree \in Trees, NEW d, Known(d)
  PROVE  resolved(d) = d
<1>1. d # RootDn => d \in DOMAIN tree
  BY DEF Known, Names, NamesStay
<1> QED BY <1>1 DEF Known, resolved, isRootName, found

\* Nothing is said of a session that is not bound, or of the other mechanisms.
LEMMA SInvUnbound ==
  ASSUME b'.pc = "idle", ~ses'.bound
  PROVE  SInv'
  BY DEF SInv, Simple, PlainVerify

LEMMA SInvOther ==
  ASSUME b'.pc # "find", b'.req.mech \notin {"simple", "plain"}
  PROVE  SInv'
  BY DEF SInv, Simple, PlainVerify

LEMMA FailS ==
  ASSUME IInv, Same, NEW rc, Fail(rc), b.pc # "idle"
  PROVE  SInv'
<1>1. b'.pc = "idle" /\ ses' = ses
  BY DEF Fail, IInv, Shape, BindFields
<1>2. ~ses.bound
  BY DEF IInv, Anonymous
<1> QED BY <1>1, <1>2, SInvUnbound

LEMMA FailDigestS ==
  ASSUME IInv, Same, FailDigest, b.pc # "idle"
  PROVE  SInv'
<1>1. b'.pc = "idle" /\ ses'.bound = ses.bound
  BY DEF FailDigest, IInv, Shape, BindFields, SesFields
<1>2. ~ses.bound
  BY DEF IInv, Anonymous
<1> QED BY <1>1, <1>2, SInvUnbound

LEMMA SucceedS ==
  ASSUME IInv, Same, NEW dn, NEW proven, NEW nonce, Succeed(dn, proven, nonce),
         b.req.mech \in {"simple", "plain"} => dn = proven,
         b.req.mech = "simple" => dn \in Able
  PROVE  SInv'
<1>1. /\ b'.pc = "idle" /\ b'.proven = proven /\ b'.req = b.req /\ ses'.dn = dn
      /\ Able' = Able
  BY DEF Succeed, IInv, Shape, BindFields, SesFields, Same, Able
<1> QED BY <1>1 DEF SInv, Simple, PlainVerify

LEMMA GoesS ==
  ASSUME IInv, NEW pc, NEW dn, Goes(pc, dn), pc # "find",
         b.req.mech \notin {"simple", "plain"}
  PROVE  SInv'
<1>1. b'.pc = pc /\ b'.req = b.req
  BY DEF Goes, IInv, Shape, BindFields
<1> QED BY <1>1, SInvOther

LEMMA VerifiedS ==
  ASSUME NamesStay, IInv, Same, NEW dn, Verified(dn),
         b.req.mech \in {"simple", "plain"},
         b.req.mech = "plain" => b.dn = dn,
         b.req.mech = "simple" => dn = resolved(b.req.name) /\ dn \in Able \ {NoName}
  PROVE  SInv'
<1>1. CASE b.req.mech = "plain"
  <2>1. Succeed(b.dn, dn, ses.nonce)
    BY <1>1 DEF Verified
  <2> QED BY <1>1, <2>1, SucceedS
<1>2. CASE b.req.mech = "simple"
  <2>1. Resolve(b.req, "canonical", b.req.name, NoName, dn)
    BY <1>2 DEF Verified
  <2>2. /\ b'.pc = "lookup" /\ b'.req = b.req /\ b'.stage = "canonical"
        /\ b'.name = b.req.name /\ b'.proven = dn
    BY <2>1, BeginFields
  <2>3. resolved(b.req.name)' = resolved(b.req.name) /\ Able' = Able
    BY <2>2 DEF Same, resolved, found, accountOf, isRootName, Able
  <2> QED BY <1>2, <2>2, <2>3 DEF SInv, Simple, PlainVerify
<1> QED BY <1>1, <1>2

\* resolveName has returned.
LEMMA ResolvedS ==
  ASSUME NamesStay, IInv, SInv, Same, b.pc \in {"lookup", "find"},
         NEW dn, dn = resolved(b.name), dn # NoName => Known(dn), Resolved(dn)
  PROVE  SInv'
<1>0. tree \in Trees /\ b.pc # "idle" /\ ~ses.bound
  BY DEF IInv, Typed, TypeOK, Anonymous
<1>1. CASE b.stage = "verify"
  <2>1. b.req.mech \in {"simple", "plain"}
    BY <1>0, <1>1 DEF IInv, Path
  <2>2. b.req.mech = "plain" => b.name = b.dn /\ dn = b.dn
    <3>1. b.req.mech = "plain" => b.name = b.dn /\ Known(b.dn)
      BY <1>0, <1>1 DEF SInv, PlainVerify, IInv, Eligible
    <3> QED BY <1>0, <3>1, ResolvedTwice
  <2>3. b.req.mech = "simple" => b.name = b.req.name
    BY <1>0 DEF SInv, Simple
  <2>4. CASE Fail("InvalidCredentials")
    BY <1>0, <2>4, FailS
  <2>5. CASE b' = [b EXCEPT !.pc = "verify", !.name = dn] /\ UNCHANGED <<ses, issued, tries>>
    <3>1. /\ b'.pc = "verify" /\ b'.name = dn /\ b'.req = b.req /\ b'.dn = b.dn
          /\ b'.stage = "verify"
      BY <1>1, <2>5 DEF IInv, Shape, BindFields
    <3>2. resolved(b.req.name)' = resolved(b.req.name)
      BY <3>1 DEF Same, resolved, found, accountOf, isRootName
    <3> QED BY <2>2, <2>3, <3>1, <3>2 DEF SInv, Simple, PlainVerify
  <2>6. CASE Verified(dn) /\ dn = RootDn /\ dn # NoName
    <3>1. dn \in Able
      BY <2>6 DEF Able
    <3> QED BY <2>1, <2>2, <2>3, <2>6, <3>1, VerifiedS
  <2> QED BY <1>1, <2>4, <2>5, <2>6 DEF Resolved
<1>2. CASE b.stage = "canonical"
  <2>1. /\ b.req.mech = "simple" /\ b.name = b.req.name /\ b.proven = resolved(b.req.name)
        /\ b.proven \in Able \ {NoName}
    BY <1>0, <1>2 DEF IInv, Path, SInv, Simple
  <2>2. Succeed(dn, b.proven, 0)
    BY <1>2, <2>1 DEF Resolved
  <2> QED BY <2>1, <2>2, SucceedS
<1>3. CASE b.stage = "plain"
  <2>1. b.req.mech = "plain"
    BY <1>0, <1>3 DEF IInv, Path
  <2>2. CASE \E rc : Fail(rc)
    BY <1>0, <2>2, FailS
  <2>3. CASE Resolve(b.req, "verify", dn, dn, NoName)
    <3>1. /\ b'.pc = "lookup" /\ b'.req = b.req /\ b'.name = dn /\ b'.dn = dn
      BY <2>3, BeginFields
    <3> QED BY <2>1, <3>1 DEF SInv, Simple, PlainVerify
  <2> QED BY <1>3, <2>2, <2>3 DEF Resolved
<1>4. CASE b.stage \in {"digest", "cert", "requested", "gssapi"}
  <2>1. b.req.mech \notin {"simple", "plain"}
    BY <1>0, <1>4 DEF IInv, Path
  <2>2. \/ \E rc : Fail(rc)
        \/ FailDigest
        \/ Goes("disabled", dn)
        \/ Resolve(b.req, "requested", b.req.name, dn, NoName)
    BY <1>4 DEF Resolved
  <2>3. CASE Resolve(b.req, "requested", b.req.name, dn, NoName)
    <3>1. b'.pc = "lookup" /\ b'.req = b.req
      BY <2>3, BeginFields
    <3> QED BY <2>1, <3>1, SInvOther
  <2> QED BY <1>0, <2>1, <2>2, <2>3, FailS, FailDigestS, GoesS
<1> QED BY <1>1, <1>2, <1>3, <1>4 DEF Resolved

LEMMA ResolveNameS == ASSUME NamesStay, IInv, SInv, resolveName PROVE SInv'
<1>0. Same /\ b.pc = "lookup" /\ tree \in Trees
  BY DEF resolveName, Same, IInv, Typed, TypeOK
<1>1. CASE isRootName(b.name)
  <2>1. Resolved(RootDn) /\ resolved(b.name) = RootDn
    BY <1>1 DEF resolveName, resolved
  <2>2. Known(RootDn)
    BY <1>1, RootKnown DEF isRootName
  <2> QED BY <1>0, <2>1, <2>2, ResolvedS
<1>2. CASE ~isRootName(b.name) /\ hasType(b.name) /\ found(tree, b.name)
  <2>1. Resolved(b.name) /\ resolved(b.name) = b.name
    BY <1>2 DEF resolveName, resolved
  <2>2. Known(b.name)
    BY <1>0, <1>2, NameKnown DEF found
  <2> QED BY <1>0, <2>1, <2>2, ResolvedS
<1>3. CASE ~isRootName(b.name) /\ ~(hasType(b.name) /\ found(tree, b.name))
  <2>1. /\ b'.pc = "find" /\ b'.dn = b.dn /\ b'.req = b.req /\ b'.stage = b.stage
        /\ b'.name = b.name /\ b'.proven = b.proven /\ UNCHANGED <<ses, tree, enabled>>
    BY <1>3 DEF resolveName, IInv, Shape, BindFields
  <2>2. resolved(b.req.name)' = resolved(b.req.name) /\ Able' = Able
    BY <2>1 DEF resolved, found, accountOf, isRootName, Able
  <2>3. ~isRootName(b.name)' /\ ~(hasType(b.name) /\ found(tree, b.name))'
    BY <1>3, <2>1 DEF isRootName, hasType, found
  <2> QED BY <1>0, <2>1, <2>2, <2>3 DEF SInv, Simple, PlainVerify
<1> QED BY <1>1, <1>2, <1>3

LEMMA FindAccountS == ASSUME NamesStay, IInv, SInv, findAccountStep PROVE SInv'
<1> DEFINE dn == accountOf(tree, BaseDn, b.name)
<1>0. Same /\ b.pc = "find" /\ tree \in Trees /\ Resolved(dn) /\ dn = resolved(b.name)
  BY DEF findAccountStep, Same, IInv, Typed, TypeOK, SInv, resolved
<1>1. dn # NoName => Known(dn)
  BY <1>0, AccountKnown, NameKnown
<1> HIDE DEF dn
<1> QED BY <1>0, <1>1, ResolvedS

LEMMA BindVerifyS == ASSUME NamesStay, IInv, SInv, bindVerify PROVE SInv'
<1>0. /\ Same /\ b.pc = "verify" /\ b.pc # "idle" /\ Known(b.name)
      /\ EnabledIn(tree) \subseteq enabled
  BY DEF bindVerify, Same, IInv, Eligible
<1>1. b.req.mech \in {"simple", "plain"} /\ b.stage = "verify"
  BY <1>0 DEF IInv, Path
<1>2. CASE Fail("InvalidCredentials")
  BY <1>0, <1>2, FailS
<1>3. CASE Verified(b.name) /\ found(tree, b.name) /\ ~accountDisabled(tree[b.name])
  <2>1. b.name \in Able \ {NoName}
    BY <1>0, <1>3 DEF Known, Able, EnabledIn, NoName
  <2>2. /\ b.req.mech = "plain" => b.dn = b.name
        /\ b.req.mech = "simple" => b.name = resolved(b.req.name)
    BY <1>0, <1>1 DEF SInv, Simple, PlainVerify
  <2> QED BY <1>1, <1>0, <1>3, <2>1, <2>2, VerifiedS
<1>4. \/ Fail("InvalidCredentials")
      \/ Verified(b.name) /\ found(tree, b.name) /\ ~accountDisabled(tree[b.name])
  BY DEF bindVerify
<1> QED BY <1>2, <1>3, <1>4

LEMMA DisabledS ==
  ASSUME NamesStay, IInv, SInv, isAccountDisabled \/ passwordFor
  PROVE  SInv'
<1>1. /\ Same /\ b.pc # "idle" /\ b.req.mech \notin {"simple", "plain"}
  BY DEF isAccountDisabled, passwordFor, Same, IInv, Path
<1>2. \/ FailDigest \/ Fail("InvalidCredentials") \/ Goes("password", b.dn)
      \/ \E n : Succeed(b.dn, b.dn, n)
  BY DEF isAccountDisabled, passwordFor
<1> QED BY <1>1, <1>2, FailS, FailDigestS, GoesS, SucceedS

LEMMA HandleBindS == ASSUME IInv, handleBind PROVE SInv'
<1> DEFINE new == [Cleared EXCEPT !.nonce = 0]
<1>0. Shape
  BY DEF IInv
<1>1. PICK r \in Requests :
        \/ bindVersion(r) \/ bindBusy(r) \/ bindUnsupported(r) \/ bindSimple(r)
        \/ bindPlain(r) \/ bindExternal(r) \/ bindGssapi(r) \/ bindDigest(r)
  BY DEF handleBind
<1>2. Cleared.bound = FALSE /\ new.bound = FALSE /\ new.dn = RootDse /\ DOMAIN new = SesFields
  BY <1>0, ClearedFields
<1>3. ASSUME NEW rc, Refuse(r, rc, Cleared) \/ Refuse(r, rc, new)
      PROVE  SInv'
  <2>1. b'.pc = "idle" /\ ses'.bound = FALSE
    BY <1>2, <1>3 DEF Refuse, NoBind
  <2> QED BY <2>1, SInvUnbound
<1>4. ASSUME Refuse(r, Success, [new EXCEPT !.bound = TRUE])
      PROVE  SInv'
  <2>1. b'.pc = "idle" /\ ses'.dn = RootDse
    BY <1>2, <1>4 DEF Refuse, NoBind, SesFields
  <2> QED BY <2>1 DEF SInv, Simple, PlainVerify
<1>5. ASSUME Resolve(r, "verify", r.name, NoName, NoName), r.mech = "simple"
      PROVE  SInv'
  <2>1. b'.pc = "lookup" /\ b'.req = r /\ b'.name = r.name /\ b'.stage = "verify"
    BY <1>5, BeginFields
  <2> QED BY <1>5, <2>1 DEF SInv, Simple, PlainVerify
<1>6. ASSUME Resolve(r, "plain", r.name, NoName, NoName), r.mech = "plain"
      PROVE  SInv'
  <2>1. b'.pc = "lookup" /\ b'.req = r /\ b'.stage = "plain"
    BY <1>6, BeginFields
  <2> QED BY <1>6, <2>1 DEF SInv, Simple, PlainVerify
<1>7. ASSUME b'.pc # "find", b'.req = r, r.mech \notin {"simple", "plain"}
      PROVE  SInv'
  BY <1>7, SInvOther
<1>8. CASE bindVersion(r) \/ bindBusy(r) \/ bindUnsupported(r)
  BY <1>3, <1>8 DEF bindVersion, bindBusy, bindUnsupported
<1>9. CASE bindSimple(r)
  BY <1>3, <1>4, <1>5, <1>9 DEF bindSimple, Begin
<1>10. CASE bindPlain(r)
  BY <1>3, <1>6, <1>10 DEF bindPlain, Begin
<1>11. CASE bindExternal(r)
  BY <1>3, <1>7, <1>11, BeginFields DEF bindExternal, Begin
<1>12. CASE bindGssapi(r)
  <2>1. b'.pc \in {"lookup", "idle"} /\ b'.req = r /\ r.mech = "gssapi"
    BY <1>12 DEF bindGssapi, Refuse, NoBind
  <2> QED BY <1>7, <2>1
<1>13. CASE bindDigest(r)
  <2>1. b'.pc \in {"lookup", "idle"} /\ b'.req = r /\ r.mech = "digest"
    BY <1>13 DEF bindDigest, Refuse, Resolve, NoBind
  <2> QED BY <1>7, <2>1
<1> QED BY <1>1, <1>8, <1>9, <1>10, <1>11, <1>12, <1>13

LEMMA StartTlsS == ASSUME IInv, SInv, startTls PROVE SInv'
<1>1. /\ ses'.bound = ses.bound /\ ses'.dn = ses.dn
      /\ UNCHANGED <<tree, b, enabled>> /\ b.pc = "idle"
  BY DEF startTls, IInv, Shape, SesFields
<1> QED BY <1>1 DEF SInv, Simple, PlainVerify, Able

LEMMA OtherSessionS == ASSUME NamesStay, IInv, SInv, otherSession PROVE SInv'
<1>1. UNCHANGED <<ses, b>> /\ tree \in Trees /\ tree' \in Trees /\ Able \subseteq Able'
  BY DEF otherSession, IInv, Typed, TypeOK, Able
<1>2. \A n : resolved(n)' = resolved(n) /\ found(tree, n)' = found(tree, n)
  BY <1>1, ResolvedStays
<1>3. /\ resolved(b.req.name)' = resolved(b.req.name)
      /\ found(tree, b.name)' = found(tree, b.name)
      /\ isRootName(b.name)' = isRootName(b.name) /\ hasType(b.name)' = hasType(b.name)
  BY <1>1, <1>2 DEF resolved, found, accountOf, isRootName, hasType
<1> QED BY <1>1, <1>3 DEF SInv, Simple, PlainVerify

\* SInv is an invariant too if names do not move.
LEMMA StableInductive ==
  ASSUME NamesStay
  PROVE  Spec => [](IInv /\ SInv)
<1>1. Init => SInv
  BY DEF Init, NoBind, SInv, Simple, PlainVerify
<1>2. IInv /\ SInv /\ [Next]_vars => SInv'
  <2> SUFFICES ASSUME IInv, SInv, [Next]_vars PROVE SInv'
    OBVIOUS
  <2>1. CASE Next
    BY <2>1, HandleBindS, StartTlsS, OtherSessionS, ResolveNameS, FindAccountS,
       BindVerifyS, DisabledS DEF Next
  <2>2. CASE UNCHANGED vars
    BY <2>2 DEF vars, SInv, Simple, PlainVerify, Able, resolved, found, accountOf,
                isRootName, hasType
  <2> QED BY <2>1, <2>2
<1> QED BY <1>1, <1>2, AuthenticationInductive, PTL DEF Spec

\* While names do not move, a session is bound as what its bind has proved:
\* the checked account, no password in clear, a minted ticket; and it is
\* anonymous before that and after a failure.
THEOREM SessionsBoundAsProven ==
  ASSUME NamesStay
  PROVE  Spec => []BoundAsProven
<1>1. IInv /\ SInv => BoundAsProven
  <2> SUFFICES ASSUME IInv, SInv PROVE BoundAsProven
    OBVIOUS
  <2>1. ASSUME b.pc = "idle", b.rc = Success, ses.bound, ses.dn # RootDse
        PROVE  ses.dn = b.proven /\ Confidential /\ Minted
    BY <2>1 DEF IInv, Evidence, SInv
  <2>2. ~(b.pc = "idle" /\ b.rc = Success) => ~ses.bound /\ ses.dn = RootDse
    BY DEF IInv, Anonymous
  <2> QED BY <2>1, <2>2 DEF BoundAsProven, Confidential, Minted
<1> QED BY <1>1, StableInductive, PTL

\* While names do not move, no bind of any kind binds an account that was
\* disabled all the time the bind took.
THEOREM DisabledNeverBound ==
  ASSUME NamesStay
  PROVE  Spec => []DisabledAccountsRefused
<1>1. IInv /\ SInv => DisabledAccountsRefused
  <2> SUFFICES ASSUME IInv, SInv, b.pc = "idle", ses.bound, ses.dn # RootDse
               PROVE  ses.dn \in Able
    BY DEF DisabledAccountsRefused, Able
  <2>1. b.rc = Success
    BY DEF IInv, Anonymous
  <2> QED BY <2>1 DEF IInv, Eligible, SInv
<1> QED BY <1>1, StableInductive, PTL
=============================================================================
