--------------------------- MODULE Authentication ---------------------------
(***************************************************************************)
(* How one session gets its identity: Session::handleBind over             *)
(* auth/bind.cpp and auth/sasl.cpp.                                        *)
(*                                                                         *)
(* A bind is a sequence of backend calls (find the entry of a name, find   *)
(* the account of a uid, read the entry's password), each under the        *)
(* backend's mutex.  Other sessions change the directory between them:     *)
(* here the directory may become any of the constant Trees, at most        *)
(* MaxChanges times in all.                                                *)
(*                                                                         *)
(* The digest of DIGEST-MD5 and the certificate of EXTERNAL are taken for  *)
(* what they prove.  A digest response is made from a name, a password and *)
(* the nonce of some challenge; the certificate names CertName.  The       *)
(* tickets of GSSAPI are those of module Gssapi.  The keytab is read again *)
(* at every bind and may have changed; the system clock may be set.        *)
(***************************************************************************)
EXTENDS Passwords, Gssapi, FiniteSets

CONSTANTS
  Trees,          \* the states of the directory
  Requests,       \* the bind requests of the client
  BaseDn, RootDn, RootPassword,  \* config; RootPassword is "" if not set
  RequireConfidentiality,        \* config require_confidentiality
  CertName,       \* common name of the client's certificate, RootDse if none
  KrbRealm,       \* config krb_realm, NotSet if it is not
  KeytabFiles,    \* what gssapi_keytab may hold; "none" if it is not configured
  Times,          \* what the clock may show
  MaxNonces,      \* bound on the DIGEST-MD5 challenges
  MaxChanges      \* bound on the changes other sessions make

Mechanisms == {"v2", "simple", "unsupported", "plain", "digest", "external", "gssapi"}

ASSUME AuthenticationAssumption ==
  /\ \A r \in Requests : r.mech \in Mechanisms
  /\ \A f \in KeytabFiles : f.state \in {"none", "unreadable", "readable"}
  /\ Times \subseteq Int /\ MaxNonces \in Nat /\ MaxChanges \in Nat
\* A ticket has the fields of one, and a ticket that lacks the principal is bad.
ASSUME TicketsAssumption ==
  \A r \in Requests : r.mech = "gssapi" =>
    LET t == r.ticket
    IN  /\ t = [form |-> t.form, realm |-> t.realm, principal |-> t.principal,
                service |-> t.service, issued |-> t.issued, expiry |-> t.expiry, mac |-> t.mac]
        /\ t.issued \in Int /\ t.expiry \in Int
        /\ t.form = "ticket" => t.principal # RootDse
\* base_dn, root_dn if it is set, and the names of the entries are names.
ASSUME NamesAssumption ==
  /\ BaseDn \in Seq(STRING \X STRING) /\ hasType(BaseDn)
  /\ RootDn \in Seq(STRING \X STRING)
  /\ RootDn # RootDse => rdnType(dnRdn(RootDn)) # ""
  /\ \A t \in Trees : \A d \in DOMAIN t : d \in Seq(STRING \X STRING) \ {RootDse}

VARIABLES
  tree,      \* the directory
  changes,   \* how often other sessions have changed it
  ses,       \* bound_, bind_dn_, tls, and sasl_digest_nonce_ (0 if empty)
  b,         \* the bind being handled
  issued,    \* history: number of challenges sent
  tries,     \* history: how often a response to each nonce was examined
  enabled    \* history: names not disabled at some moment of this bind

vars == <<tree, changes, ses, b, issued, tries, enabled>>

NoBind == [pc |-> "idle", req |-> [mech |-> "v2"], stage |-> "none", name |-> RootDse,
           dn |-> NoName, proven |-> NoName, rc |-> Success,
           keytab |-> [ok |-> FALSE, realm |-> NotSet, service |-> NotSet, key |-> NotSet]]

Names == UNION {DOMAIN t : t \in Trees}
EnabledIn(t) == {d \in Names : ~(found(t, d) /\ accountDisabled(t[d]))}

Init ==
  /\ tree \in Trees /\ changes = 0
  /\ ses = [bound |-> FALSE, dn |-> RootDse, tls |-> FALSE, nonce |-> 0]
  /\ b = NoBind
  /\ issued = 0 /\ tries = [n \in 1..MaxNonces |-> 0]
  /\ enabled = {}

-----------------------------------------------------------------------------
\* The result of the bind, and the identity it leaves the session with.
Fail(rc) ==
  /\ b' = [b EXCEPT !.pc = "idle", !.rc = rc]
  /\ UNCHANGED <<ses, issued, tries>>

\* A DIGEST-MD5 exchange ends: the nonce is used up.
FailDigest ==
  /\ b' = [b EXCEPT !.pc = "idle", !.rc = "InvalidCredentials"]
  /\ ses' = [ses EXCEPT !.nonce = 0]
  /\ UNCHANGED <<issued, tries>>

Succeed(dn, proven, nonce) ==
  /\ b' = [b EXCEPT !.pc = "idle", !.rc = Success, !.proven = proven]
  /\ ses' = [ses EXCEPT !.bound = TRUE, !.dn = dn, !.nonce = nonce]
  /\ UNCHANGED <<issued, tries>>

\* The next call is resolveName(name), whose result is for stage.
Resolve(req, stage, name, dn, proven) ==
  b' = [NoBind EXCEPT !.pc = "lookup", !.req = req, !.stage = stage, !.name = name,
                      !.dn = dn, !.proven = proven]

Goes(pc, dn) ==
  /\ b' = [b EXCEPT !.pc = pc, !.dn = dn]
  /\ UNCHANGED <<ses, issued, tries>>

-----------------------------------------------------------------------------
\* handleBind clears the identity before anything else.
Cleared == [ses EXCEPT !.bound = FALSE, !.dn = RootDse]
InClear == RequireConfidentiality /\ ~ses.tls

\* The answer is known at once, or the first call is resolveName(name).
Refuse(r, rc, new) ==
  /\ b' = [NoBind EXCEPT !.req = r, !.rc = rc]
  /\ ses' = new
  /\ UNCHANGED <<issued, tries>>
Begin(r, stage, name, new) ==
  /\ Resolve(r, stage, name, NoName, NoName)
  /\ ses' = new
  /\ UNCHANGED <<issued, tries>>

\* Only version 3 is supported.
bindVersion(r) == r.mech = "v2" /\ Refuse(r, "ProtocolError", Cleared)

\* The rate limiter may refuse any bind (see RateLimiter).
bindBusy(r) == r.mech # "v2" /\ Refuse(r, "Busy", Cleared)

\* A mechanism that is none, or not enabled, is "unsupported".
parseSaslMechanism(r) == r.mech # "unsupported"
bindUnsupported(r) == ~parseSaslMechanism(r) /\ Refuse(r, "AuthMethodNotSupported", Cleared)

\* A simple bind forgets the nonce of a DIGEST-MD5 exchange.  The empty name
\* with the empty password is the anonymous bind, which succeeds.
bindSimple(r) ==
  LET new == [Cleared EXCEPT !.nonce = 0]
  IN  /\ r.mech = "simple"
      /\ IF InClear /\ r.password # "" THEN Refuse(r, "ConfidentialityRequired", new)
         ELSE IF r.name # RootDse      THEN Begin(r, "verify", r.name, new)
         ELSE IF r.password # ""       THEN Refuse(r, "InvalidCredentials", new)
         ELSE Refuse(r, Success, [new EXCEPT !.bound = TRUE])

\* Credentials without an authentication identity, or without two separators,
\* have the empty name.
parsePlain(r) == r.name # RootDse

\* Mutant: an empty authentication identity is not refused.
bindPlain_emptyName(r) ==
  /\ r.mech = "plain"
  /\ IF InClear THEN Refuse(r, "ConfidentialityRequired", Cleared)
     ELSE Begin(r, "plain", r.name, Cleared)

bindPlain(r) ==
  /\ r.mech = "plain"
  /\ IF InClear               THEN Refuse(r, "ConfidentialityRequired", Cleared)
     ELSE IF ~parsePlain(r)   THEN Refuse(r, "InvalidCredentials", Cleared)
     ELSE Begin(r, "plain", r.name, Cleared)

bindExternal(r) ==
  /\ r.mech = "external"
  /\ IF ~ses.tls                THEN Refuse(r, "ConfidentialityRequired", Cleared)
     ELSE IF CertName = RootDse THEN Refuse(r, "InvalidCredentials", Cleared)
     ELSE Begin(r, "cert", CertName, Cleared)

\* The realm is that of the keytab, else krb_realm, else made from base_dn.
keytabOf(file) ==
  [loadGssapiKeytab(file) EXCEPT !.realm =
     IF @ # NotSet THEN @ ELSE IF KrbRealm # NotSet THEN KrbRealm
     ELSE kerberosRealmFromBase(BaseDn)]

\* No credentials ask for the realm and service; else the ticket must verify.
bindGssapi(r) ==
  /\ r.mech = "gssapi"
  /\ \E file \in KeytabFiles, now \in Times :
       LET keytab == keytabOf(file)
       IN  IF file.state = "none"     THEN Refuse(r, "AuthMethodNotSupported", Cleared)
           ELSE IF ~keytab.ok         THEN Refuse(r, "OperationsError", Cleared)
           ELSE IF r.ticket.form = "none" THEN Refuse(r, "SaslBindInProgress", Cleared)
           ELSE IF ~verifyGssapiTicket(keytab, r.ticket, now)
                                      THEN Refuse(r, "InvalidCredentials", Cleared)
           ELSE /\ b' = [NoBind EXCEPT !.pc = "lookup", !.req = r, !.stage = "gssapi",
                                       !.name = r.ticket.principal, !.keytab = keytab]
                /\ ses' = Cleared
                /\ UNCHANGED <<issued, tries>>

\* A response without username, cnonce or response has the empty name.
parseDigestPairs(r) == r.name # RootDse

\* DIGEST-MD5: a challenge if there is no nonce yet or no response, else the
\* response must be to the nonce of this session.
bindDigest(r) ==
  /\ r.mech = "digest"
  /\ IF ses.nonce = 0 \/ r.nonce = 0
     THEN \/ /\ issued < MaxNonces
             /\ issued' = issued + 1
             /\ ses' = [Cleared EXCEPT !.nonce = issued + 1]
             /\ b' = [NoBind EXCEPT !.req = r, !.rc = "SaslBindInProgress"]
             /\ UNCHANGED tries
          \/ Refuse(r, "OperationsError", [Cleared EXCEPT !.nonce = 0])   \* RAND_bytes failed
     ELSE IF r.nonce # ses.nonce \/ ~parseDigestPairs(r)
     THEN Refuse(r, "InvalidCredentials", [Cleared EXCEPT !.nonce = 0])
     ELSE /\ ses' = Cleared
          /\ Resolve(r, "digest", r.name, NoName, NoName)
          /\ tries' = [tries EXCEPT ![r.nonce] = @ + 1]
          /\ UNCHANGED issued

handleBind ==
  /\ b.pc = "idle"
  /\ \E r \in Requests :
       \/ bindVersion(r) \/ bindBusy(r) \/ bindUnsupported(r) \/ bindSimple(r)
       \/ bindPlain(r) \/ bindExternal(r) \/ bindGssapi(r) \/ bindDigest(r)
  /\ enabled' = EnabledIn(tree)
  /\ UNCHANGED <<tree, changes>>

\* StartTLS, granted and shaken hands on; the identity stays.
startTls ==
  /\ b.pc = "idle" /\ ~ses.tls
  /\ ses' = [ses EXCEPT !.tls = TRUE]
  /\ UNCHANGED <<tree, changes, b, issued, tries, enabled>>

\* Another session's write.
otherSession ==
  /\ changes < MaxChanges
  /\ tree' \in Trees \ {tree}
  /\ changes' = changes + 1
  /\ enabled' = enabled \cup EnabledIn(tree')
  /\ UNCHANGED <<ses, b, issued, tries>>

-----------------------------------------------------------------------------
\* Mutant: a simple bind is bound as the name the client gave.
Verified_asGiven(dn) == Succeed(IF b.req.mech = "plain" THEN b.dn ELSE b.req.name, dn, ses.nonce)

\* SimpleBindAuthenticator::bind has accepted the password for dn.  PLAIN is
\* bound as the name it resolved before; a simple bind resolves the name of
\* the request once more.
Verified(dn) ==
  IF b.req.mech = "plain" THEN Succeed(b.dn, dn, ses.nonce)
  ELSE /\ Resolve(b.req, "canonical", b.req.name, NoName, dn)
       /\ UNCHANGED <<ses, issued, tries>>

\* What each caller of resolveName does with the result.
Resolved(dn) ==
  \/ /\ b.stage = "verify"          \* within SimpleBindAuthenticator::bind
     /\ IF dn = NoName THEN Fail("InvalidCredentials")
        ELSE IF dn # RootDn THEN b' = [b EXCEPT !.pc = "verify", !.name = dn]
                                 /\ UNCHANGED <<ses, issued, tries>>
        ELSE IF RootPassword # "" /\ verifyUserPassword(RootPassword, b.req.password)
        THEN Verified(dn)
        ELSE Fail("InvalidCredentials")
  \/ /\ b.stage = "canonical"
     /\ Succeed(IF dn = NoName THEN b.req.name ELSE dn, b.proven, 0)
  \/ /\ b.stage = "plain"
     /\ IF dn = NoName THEN Fail("InvalidCredentials")
        ELSE IF b.req.authzid \notin {RootDse, b.req.name, dn}
        THEN Fail("InsufficientAccessRights")
        ELSE Resolve(b.req, "verify", dn, dn, NoName) /\ UNCHANGED <<ses, issued, tries>>
  \/ /\ b.stage = "digest"
     /\ IF dn = NoName THEN FailDigest ELSE Goes("disabled", dn)
  \/ /\ b.stage = "cert"
     /\ IF dn = NoName THEN Fail("InvalidCredentials")
        ELSE IF b.req.name = RootDse THEN Goes("disabled", dn)
        ELSE Resolve(b.req, "requested", b.req.name, dn, NoName)
               /\ UNCHANGED <<ses, issued, tries>>
  \/ /\ b.stage = "requested"
     /\ IF dn # b.dn THEN Fail("InvalidCredentials") ELSE Goes("disabled", dn)
  \/ /\ b.stage = "gssapi"
     /\ IF dn = NoName THEN Fail("InvalidCredentials") ELSE Goes("disabled", dn)

\* resolveName: the root name, or the entry of this name ...
isRootName(name) ==
  /\ RootDn # RootDse
  /\ \/ name = RootDn
     \/ ~hasType(name) /\ rdnValue(dnRdn(name)) = rdnValue(dnRdn(RootDn))

resolveName ==
  /\ b.pc = "lookup"
  /\ IF isRootName(b.name) THEN Resolved(RootDn)
     ELSE IF hasType(b.name) /\ found(tree, b.name) THEN Resolved(b.name)
     ELSE b' = [b EXCEPT !.pc = "find"] /\ UNCHANGED <<ses, issued, tries>>
  /\ UNCHANGED <<tree, changes, enabled>>

\* ... else the one account of that uid.
findAccountStep ==
  /\ b.pc = "find"
  /\ Resolved(accountOf(tree, BaseDn, b.name))
  /\ UNCHANGED <<tree, changes, enabled>>

\* bind() looks the resolved entry up: it must be there, enabled, and one of
\* its passwords must match.
passwordsOf(d) == IF "userPassword" \in DOMAIN tree[d] THEN tree[d]["userPassword"] ELSE << >>

bindVerify ==
  LET dn == b.name
      ok == /\ found(tree, dn)
            /\ ~accountDisabled(tree[dn])
            /\ \E i \in DOMAIN passwordsOf(dn) :
                 verifyUserPassword(passwordsOf(dn)[i], b.req.password)
  IN  /\ b.pc = "verify"
      /\ IF ok THEN Verified(dn) ELSE Fail("InvalidCredentials")
      /\ UNCHANGED <<tree, changes, enabled>>

\* isAccountDisabled, the last check of EXTERNAL and GSSAPI.  An entry that is
\* no longer there is not disabled.
Disabled(dn) == dn # RootDn /\ found(tree, dn) /\ accountDisabled(tree[dn])

\* Mutant: the account's flags are not looked at.
isAccountDisabled_never ==
  /\ b.pc = "disabled"
  /\ IF b.req.mech = "digest" THEN Goes("password", b.dn)
     ELSE Succeed(b.dn, b.dn, ses.nonce)
  /\ UNCHANGED <<tree, changes, enabled>>

isAccountDisabled ==
  /\ b.pc = "disabled"
  /\ IF Disabled(b.dn)
     THEN IF b.req.mech = "digest" THEN FailDigest ELSE Fail("InvalidCredentials")
     ELSE IF b.req.mech = "digest" THEN Goes("password", b.dn)
     ELSE Succeed(b.dn, b.dn, ses.nonce)
  /\ UNCHANGED <<tree, changes, enabled>>

\* passwordFor, and the digest made from it: only the first value of an entry
\* counts and it must be recoverable; root_password is used as it is written.
digestOk(dn) ==
  IF dn = RootDn THEN RootPassword # "" /\ RootPassword = b.req.password
  ELSE /\ found(tree, dn) /\ passwordsOf(dn) # << >>
       /\ recoverable(Head(passwordsOf(dn)))
       /\ recoverablePassword(Head(passwordsOf(dn))) = b.req.password

\* Mutant: the nonce outlives a successful bind.
passwordFor_keepsNonce ==
  /\ b.pc = "password"
  /\ IF digestOk(b.dn) THEN Succeed(b.dn, b.dn, ses.nonce) ELSE FailDigest
  /\ UNCHANGED <<tree, changes, enabled>>

passwordFor ==
  /\ b.pc = "password"
  /\ IF digestOk(b.dn) THEN Succeed(b.dn, b.dn, 0) ELSE FailDigest
  /\ UNCHANGED <<tree, changes, enabled>>

Next == \/ handleBind \/ startTls \/ otherSession
        \/ resolveName \/ findAccountStep \/ bindVerify
        \/ isAccountDisabled \/ passwordFor

Spec == Init /\ [][Next]_vars

-----------------------------------------------------------------------------
\* The session is at a step of handleBind or idle, and a bind in progress is
\* about a name that is not empty: an empty one is anonymous or refused before.
TypeOK ==
  /\ tree \in Trees /\ changes \in 0..MaxChanges /\ issued \in 0..MaxNonces
  /\ ses.bound \in BOOLEAN /\ ses.tls \in BOOLEAN /\ ses.nonce \in 0..issued
  /\ b.pc \in {"idle", "lookup", "find", "verify", "disabled", "password"}
  /\ b.pc # "idle" => b.name # RootDse /\ b.req \in Requests

\* While a bind is handled, and after one that did not succeed, the session
\* is anonymous: no earlier identity survives a failed or unfinished bind.
\* After one that did, it is bound as the account whose password, certificate
\* or ticket was checked, although the name is resolved again after (simple)
\* or before (PLAIN) the check; and a ticket was one that the holder of the
\* keytab had made for it.  With require_confidentiality it was no password
\* sent in clear, by whatever mechanism; a simple bind without a password is let
\* through to an account whose password is empty.  For directories in which
\* names do not move.
BoundAsProven ==
  IF b.pc = "idle" /\ b.rc = Success
  THEN ses.bound /\ ses.dn # RootDse =>
         /\ ses.dn = b.proven
         /\ InClear => \/ b.req.mech \in {"digest", "gssapi"}
                       \/ b.req.mech = "simple" /\ b.req.password = ""
         /\ b.req.mech = "gssapi" =>
              LET t == b.req.ticket
              IN  t = mintGssapiTicket(b.keytab, [name |-> t.principal, realm |-> NotSet],
                                       t.issued, t.expiry - t.issued)
  ELSE ~ses.bound /\ ses.dn = RootDse

\* Each challenge is good for one response, right or wrong, whatever binds
\* come in between.
NonceSingleUse == \A n \in 1..MaxNonces : tries[n] <= 1

\* An account that was disabled all the time the bind took is not bound, by
\* any mechanism.
DisabledAccountsRefused ==
  b.pc = "idle" /\ ses.bound => ses.dn \in enabled \cup {RootDse, RootDn}
=============================================================================
