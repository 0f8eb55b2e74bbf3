------------------------------- MODULE Gssapi -------------------------------
(***************************************************************************)
(* auth/gssapi.cpp: tickets for SASL GSSAPI, made by whoever has the       *)
(* keytab and checked by the server with its own copy.                     *)
(*                                                                         *)
(* A realm, a service and a key are sequences of labels, empty if not set; *)
(* krb_realm is taken to be in upper case.  A keytab file is its state and *)
(* its lines, each a key word and a value.  A ticket whose version is not  *)
(* 1, which lacks a field, or whose times are not numbers has form "bad".  *)
(* The HMAC is what it is computed from.                                   *)
(***************************************************************************)
EXTENDS DistinguishedName, Integers

CONSTANT ClockSkew   \* kClockSkewSeconds

ASSUME ClockSkewAssumption == ClockSkew \in Nat

NotSet == << >>

\* The dc components of base_dn, joined.
kerberosRealmFromBase(base) ==
  LET dcs == SelectSeq(base, LAMBDA r : rdnType(r) = "dc")
  IN  IF dcs = << >> THEN <<"SIMPLE-LDAPD">> ELSE [i \in DOMAIN dcs |-> rdnValue(dcs[i])]

\* user@REALM stands for user in its own realm and for nobody in another.
normalizeKerberosPrincipal(principal, realm) ==
  IF principal.realm = NotSet \/ realm = NotSet \/ principal.realm = realm
  THEN principal.name ELSE RootDse

\* The last line for a key word counts.  A keytab needs a key; the service is
\* never empty afterwards, so the caller's default for it is not used.
loadGssapiKeytab(file) ==
  LET last(word) == LET values == SelectSeq(file.lines, LAMBDA l : l.word = word)
                    IN  IF values = << >> THEN NotSet ELSE values[Len(values)].value
      service    == last("service")
  IN  [ok      |-> file.state = "readable" /\ last("key") # NotSet,
       realm   |-> last("realm"),
       service |-> IF service = NotSet THEN <<"ldap", "localhost">> ELSE service,
       key     |-> last("key")]

complete(keytab) == NotSet \notin {keytab.key, keytab.realm, keytab.service}

canonicalTicket(keytab, principal, issued, expiry) ==
  <<keytab.realm, principal, keytab.service, issued, expiry>>
hmacSha256Hex(key, data) == <<key, data>>

NoTicket == [form |-> "none", realm |-> NotSet, principal |-> RootDse, service |-> NotSet,
             issued |-> 0, expiry |-> 0, mac |-> << >>]

encodeGssapiTicket(keytab, principal, issued, expiry) ==
  LET local == normalizeKerberosPrincipal(principal, keytab.realm)
  IN  IF local = RootDse \/ ~complete(keytab) THEN NoTicket
      ELSE [form |-> "ticket", realm |-> keytab.realm, principal |-> local,
            service |-> keytab.service, issued |-> issued, expiry |-> expiry,
            mac |-> hmacSha256Hex(keytab.key, canonicalTicket(keytab, local, issued, expiry))]

mintGssapiTicket(keytab, principal, now, lifetime) ==
  IF lifetime <= 0 THEN NoTicket
  ELSE encodeGssapiTicket(keytab, principal, now, now + lifetime)

\* The ticket is for this realm and service and for about this time, and was
\* made with this key.
verifyGssapiTicket(keytab, t, now) ==
  /\ complete(keytab)
  /\ t.form = "ticket"
  /\ t.realm = keytab.realm /\ t.service = keytab.service
  /\ now - ClockSkew <= t.expiry /\ t.issued <= now + ClockSkew /\ t.issued < t.expiry
  /\ t.mac = hmacSha256Hex(keytab.key, canonicalTicket(keytab, t.principal, t.issued, t.expiry))
=============================================================================
