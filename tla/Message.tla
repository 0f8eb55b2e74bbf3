------------------------------- MODULE Message -------------------------------
(***************************************************************************)
(* protocol/message.cpp: LDAP messages and their encoding.                 *)
(*                                                                         *)
(* A message is [id, op, data, controls]; data has the fields of the       *)
(* operation.  An optional field that is absent is empty, as in the code.  *)
(* A decoder gives {} if the octets are not what it expects, else the set  *)
(* of the one thing it has read.                                           *)
(***************************************************************************)
EXTENDS FilterCodec

CONSTANTS
  PagedResultsOid, PasswordModifyOid, WhoAmIOid, StartTlsOid

Oids == <<PagedResultsOid, PasswordModifyOid, WhoAmIOid, StartTlsOid>>
ASSUME OidAssumption ==
  /\ \A i \in DOMAIN Oids : Oids[i] \in Seq(Octets) \ {<< >>}
  /\ \A i, j \in DOMAIN Oids : Oids[i] = Oids[j] => i = j

OpTag == [BindRequest |-> 96, BindResponse |-> 97, UnbindRequest |-> 66,
          SearchRequest |-> 99, SearchResultEntry |-> 100, SearchResultDone |-> 101,
          ModifyRequest |-> 102, ModifyResponse |-> 103, AddRequest |-> 104, AddResponse |-> 105,
          DelRequest |-> 74, DelResponse |-> 107, ModifyDNRequest |-> 108, ModifyDNResponse |-> 109,
          CompareRequest |-> 110, CompareResponse |-> 111,
          ExtendedRequest |-> 119, ExtendedResponse |-> 120]
FieldTag == [ServerSaslCreds |-> 135, SaslAuth |-> 163, Controls |-> 160,
             ResponseName |-> 138, ResponseValue |-> 139]
ResultOps == {"BindResponse", "SearchResultDone", "ModifyResponse", "AddResponse", "DelResponse",
              "ModifyDNResponse", "CompareResponse", "ExtendedResponse"}

\* A field that is written only if it is not empty.
writeOptional(tag, s) == IF s = << >> THEN << >> ELSE write(tag, s)

\* The decoded value d if the octets had the right form.
Decoded(ok, d) == IF ok THEN {d} ELSE {}

-----------------------------------------------------------------------------
\* LDAPResult.  Only a bind response has credentials and only an extended one
\* a name and a value; a name without a value has an empty one.
encodeResult(op, d) ==
     writeEnumerated(d.result) \o writeOctetString(d.matched) \o writeOctetString(d.diagnostic)
  \o (IF op = "BindResponse" THEN writeOptional(FieldTag.ServerSaslCreds, d.creds) ELSE << >>)
  \o (IF op = "ExtendedResponse" /\ (d.oid # << >> \/ d.value # << >>)
      THEN writeOptional(FieldTag.ResponseName, d.oid) \o write(FieldTag.ResponseValue, d.value)
      ELSE << >>)

decodeResult(r) ==
  Decoded(/\ ReadsAll(r, <<Tag.Enumerated, Tag.OctetString, Tag.OctetString>>)
          /\ r.rest = << >>,
          LET extra == [items |-> SubSeq(r.items, 4, Len(r.items))]
          IN  [result |-> readEnumerated(r, 1) % 256, matched |-> octets(r, 2), diagnostic |-> octets(r, 3),
               creds |-> LastPart(extra, FieldTag.ServerSaslCreds),
               oid |-> LastPart(extra, FieldTag.ResponseName),
               value |-> LastPart(extra, FieldTag.ResponseValue)])

encodeBindRequest(d) ==
     writeInteger(d.version) \o writeOctetString(d.dn)
  \o (IF d.simple THEN write(Tag.SimpleAuth, d.password)
      ELSE write(FieldTag.SaslAuth, writeOctetString(d.mechanism)
                                    \o writeOptional(Tag.OctetString, d.credentials)))

\* An authentication choice that is neither simple nor SASL is skipped.
decodeBindRequest(r) ==
  LET sasl == inner(r, 3)
      d(simple, password, mechanism, credentials) ==
        [version |-> toInt(readInteger(r, 1)), dn |-> octets(r, 2), simple |-> simple,
         password |-> password, mechanism |-> mechanism, credentials |-> credentials]
  IN  IF ~ReadsAll(r, <<Tag.Integer, Tag.OctetString>>) \/ Len(r.items) < 3 THEN {}
      ELSE IF r.items[3].tag = Tag.SimpleAuth THEN {d(TRUE, octets(r, 3), << >>, << >>)}
      ELSE IF r.items[3].tag # FieldTag.SaslAuth THEN {d(FALSE, << >>, << >>, << >>)}
      ELSE IF ~Reads(sasl, 1, Tag.OctetString) THEN {}
      ELSE IF atEnd(sasl, 1) THEN {d(FALSE, << >>, octets(sasl, 1), << >>)}
      ELSE Decoded(Reads(sasl, 2, Tag.OctetString),
                   d(FALSE, << >>, octets(sasl, 1), octets(sasl, 2)))

encodeSearchRequest(d) ==
     writeOctetString(d.base) \o writeEnumerated(d.scope) \o writeEnumerated(0)
  \o writeInteger(d.sizeLimit) \o writeInteger(d.timeLimit) \o writeBoolean(d.typesOnly)
  \o encodeNode(d.filter)
  \o write(Tag.Sequence, writeEach(d.attributes, writeOctetString))

decodeSearchRequest(r) ==
  LET head  == <<Tag.OctetString, Tag.Enumerated, Tag.Enumerated, Tag.Integer, Tag.Integer,
                 Tag.Boolean>>
      names == inner(r, 8)
  IN  IF ~ReadsAll(r, head) \/ ~Reads(r, 8, Tag.Sequence) THEN {}
      ELSE {[base |-> octets(r, 1), scope |-> readEnumerated(r, 2),
             sizeLimit |-> toInt(readInteger(r, 4)), timeLimit |-> toInt(readInteger(r, 5)),
             typesOnly |-> boolean(r, 6), filter |-> f, attributes |-> Contents(names)] :
               f \in {g \in decodeNode[r.items[7]] : ReadsToEnd(names, Tag.OctetString)}}

-----------------------------------------------------------------------------
\* PartialAttribute: a type and its values.
encodePartial(a) ==
  writeOctetString(a.type) \o write(Tag.Set, writeEach(a.values, writeOctetString))
Partial(r) == [type |-> octets(r, 1), values |-> Contents(inner(r, 2))]
IsPartial(r) == /\ ReadsAll(r, <<Tag.OctetString, Tag.Set>>)
                /\ ReadsToEnd(inner(r, 2), Tag.OctetString)

\* Search entries and add requests: a name and its attributes.
encodeAttributes(d) ==
     writeOctetString(d.dn)
  \o write(Tag.Sequence, writeEach(d.attributes, LAMBDA a : write(Tag.Sequence, encodePartial(a))))

decodeAttributes(r) ==
  LET list == inner(r, 2)
  IN  Decoded(/\ ReadsAll(r, <<Tag.OctetString, Tag.Sequence>>)
              /\ ReadsToEnd(list, Tag.Sequence)
              /\ \A i \in DOMAIN list.items : IsPartial(inner(list, i)),
              [dn |-> octets(r, 1),
               attributes |-> [i \in DOMAIN list.items |-> Partial(inner(list, i))]])

encodeModifyRequest(d) ==
     writeOctetString(d.dn)
  \o write(Tag.Sequence, writeEach(d.changes, LAMBDA c :
       write(Tag.Sequence, writeEnumerated(c.op) \o write(Tag.Sequence, encodePartial(c)))))

decodeModifyRequest(r) ==
  LET list    == inner(r, 2)
      item(i) == inner(list, i)
      attr(i) == Partial(inner(item(i), 2))
  IN  Decoded(/\ ReadsAll(r, <<Tag.OctetString, Tag.Sequence>>)
              /\ ReadsToEnd(list, Tag.Sequence)
              /\ \A i \in DOMAIN list.items : /\ ReadsAll(item(i), <<Tag.Enumerated, Tag.Sequence>>)
                                              /\ IsPartial(inner(item(i), 2)),
              [dn |-> octets(r, 1),
               changes |-> [i \in DOMAIN list.items |->
                              [op |-> readEnumerated(item(i), 1),
                               type |-> attr(i).type, values |-> attr(i).values]]])

encodeModifyDnRequest(d) ==
     writeOctetString(d.dn) \o writeOctetString(d.newRdn) \o writeBoolean(d.deleteOldRdn)
  \o writeOptional(Tag.SimpleAuth, d.newSuperior)

decodeModifyDnRequest(r) ==
  Decoded(/\ ReadsAll(r, <<Tag.OctetString, Tag.OctetString, Tag.Boolean>>)
          /\ peekTag(r, 3) = Tag.SimpleAuth => Reads(r, 4, Tag.SimpleAuth),
          [dn |-> octets(r, 1), newRdn |-> octets(r, 2), deleteOldRdn |-> boolean(r, 3),
           newSuperior |-> IF peekTag(r, 3) = Tag.SimpleAuth THEN octets(r, 4) ELSE << >>])

encodeCompareRequest(d) ==
     writeOctetString(d.dn)
  \o write(Tag.Sequence, writeOctetString(d.attribute) \o writeOctetString(d.value))

decodeCompareRequest(r) ==
  LET ava == inner(r, 2)
  IN  Decoded(/\ ReadsAll(r, <<Tag.OctetString, Tag.Sequence>>)
              /\ ReadsAll(ava, <<Tag.OctetString, Tag.OctetString>>),
              [dn |-> octets(r, 1), attribute |-> octets(ava, 1), value |-> octets(ava, 2)])

encodeExtendedRequest(d) == write(Tag.SimpleAuth, d.oid) \o writeOptional(Tag.Context1, d.value)

decodeExtendedRequest(r) ==
  Decoded(/\ Reads(r, 1, Tag.SimpleAuth)
          /\ peekTag(r, 1) = Tag.Context1 => Reads(r, 2, Tag.Context1),
          [oid |-> octets(r, 1),
           value |-> IF peekTag(r, 1) = Tag.Context1 THEN octets(r, 2) ELSE << >>])

-----------------------------------------------------------------------------
encodeControls(controls) ==
  write(FieldTag.Controls, writeEach(controls, LAMBDA c :
    write(Tag.Sequence, writeOctetString(c.oid)
                        \o (IF c.critical THEN writeBoolean(TRUE) ELSE << >>)
                        \o writeOptional(Tag.OctetString, c.value))))

\* criticality may be left out, and so may the value that follows it.
decodeControl(r) ==
  LET marked == peekTag(r, 1) = Tag.Boolean
      n      == IF marked THEN 2 ELSE 1
  IN  Decoded(/\ Reads(r, 1, Tag.OctetString) /\ (marked => Reads(r, 2, Tag.Boolean))
              /\ atEnd(r, n) \/ Reads(r, n + 1, Tag.OctetString),
              [oid |-> octets(r, 1), critical |-> marked /\ boolean(r, 2),
               value |-> IF atEnd(r, n) THEN << >> ELSE octets(r, n + 1)])

decodeControls(r) ==
  LET item(i) == decodeControl(inner(r, i))
  IN  Decoded(ReadsToEnd(r, Tag.Sequence) /\ \A i \in DOMAIN r.items : item(i) # {},
              [i \in DOMAIN r.items |-> CHOOSE c \in item(i) : TRUE])

-----------------------------------------------------------------------------
encodeOp(m) ==
  LET d == m.data
  IN  CASE m.op \in ResultOps       -> encodeResult(m.op, d)
        [] m.op = "BindRequest"     -> encodeBindRequest(d)
        [] m.op = "UnbindRequest"   -> << >>
        [] m.op = "SearchRequest"   -> encodeSearchRequest(d)
        [] m.op \in {"SearchResultEntry", "AddRequest"} -> encodeAttributes(d)
        [] m.op = "ModifyRequest"   -> encodeModifyRequest(d)
        [] m.op = "DelRequest"      -> d
        [] m.op = "ModifyDNRequest" -> encodeModifyDnRequest(d)
        [] m.op = "CompareRequest"  -> encodeCompareRequest(d)
        [] m.op = "ExtendedRequest" -> encodeExtendedRequest(d)

encodeLdapMessage(m) ==
  write(Tag.Sequence,
        writeInteger(m.id) \o write(OpTag[m.op], encodeOp(m))
        \o (IF m.controls = << >> THEN << >> ELSE encodeControls(m.controls)))

\* The operation of element e; one that is not known is skipped.
OpOf(e) == IF \E o \in DOMAIN OpTag : OpTag[o] = e.tag
           THEN CHOOSE o \in DOMAIN OpTag : OpTag[o] = e.tag ELSE "Unknown"
decodeOp[e \in TagAndContent] ==
  LET op == OpOf(e)
  IN  UNION {
        CASE op \in ResultOps       -> decodeResult(r)
          [] op = "BindRequest"     -> decodeBindRequest(r)
          [] op \in {"UnbindRequest", "Unknown"} -> {<< >>}
          [] op = "SearchRequest"   -> decodeSearchRequest(r)
          [] op \in {"SearchResultEntry", "AddRequest"} -> decodeAttributes(r)
          [] op = "ModifyRequest"   -> decodeModifyRequest(r)
          [] op = "DelRequest"      -> {e.content}
          [] op = "ModifyDNRequest" -> decodeModifyDnRequest(r)
          [] op = "CompareRequest"  -> decodeCompareRequest(r)
          [] op = "ExtendedRequest" -> decodeExtendedRequest(r) : r \in {Elements[e.content]}}

\* The message that a reader inside the outer element has.
decodeBody(body) ==
  LET controls == IF peekTag(body, 2) # FieldTag.Controls THEN {<< >>}
                  ELSE IF ~Reads(body, 3, FieldTag.Controls) THEN {}
                  ELSE decodeControls(inner(body, 3))
  IN  IF ~Reads(body, 1, Tag.Integer) \/ Len(body.items) < 2 THEN {}
      ELSE {[id |-> toInt(readInteger(body, 1)), op |-> OpOf(body.items[2]), data |-> d,
             controls |-> cs] : d \in decodeOp[body.items[2]], cs \in controls}

decodeLdapMessage(wire) ==
  UNION {IF Reads(top, 1, Tag.Sequence) THEN decodeBody(inner(top, 1)) ELSE {} :
           top \in {Elements[wire]}}

-----------------------------------------------------------------------------
\* The make... functions: a message and the defaults of the fields they leave.
make(id, op, data) == [id |-> id, op |-> op, data |-> data, controls |-> << >>]
makeBindRequest(id, dn, password) ==
  make(id, "BindRequest", [version |-> 3, dn |-> dn, simple |-> TRUE, password |-> password,
                           mechanism |-> << >>, credentials |-> << >>])
makeSaslBindRequest(id, dn, mechanism, credentials) ==
  make(id, "BindRequest", [version |-> 3, dn |-> dn, simple |-> FALSE, password |-> << >>,
                           mechanism |-> mechanism, credentials |-> credentials])
makeLdapResult(id, op, result) ==
  make(id, op, [result |-> result, matched |-> << >>, diagnostic |-> << >>,
                creds |-> << >>, oid |-> << >>, value |-> << >>])
makeExtendedRequest(id, oid, value) == make(id, "ExtendedRequest", [oid |-> oid, value |-> value])

\* The value of the paged results control is a BER element of its own.
encodePagedResultsValue(size, cookie) ==
  write(Tag.Sequence, writeInteger(size) \o writeOctetString(cookie))
decodePagedResultsValue(value) ==
  LET top == Elements[value]
  IN  IF ~Reads(top, 1, Tag.Sequence) THEN {}
      ELSE Decoded(ReadsAll(inner(top, 1), <<Tag.Integer, Tag.OctetString>>),
                   [size |-> toInt(readInteger(inner(top, 1), 1)),
                    cookie |-> octets(inner(top, 1), 2)])
makePagedResultsControl(size, cookie) ==
  [oid |-> PagedResultsOid, critical |-> FALSE, value |-> encodePagedResultsValue(size, cookie)]

\* So is the value of a password modify request.  old and new are optional: a
\* set with at most one password.
encodePasswordModifyValue(p) ==
  LET field(tag, opt) == IF opt = {} THEN << >> ELSE write(tag, CHOOSE s \in opt : TRUE)
  IN  write(Tag.Sequence, writeOptional(Tag.SimpleAuth, p.identity)
                          \o field(Tag.Context1, p.old) \o field(Tag.Context2, p.new))
decodePasswordModifyValue(value) ==
  LET top == Elements[value]
      seq == inner(top, 1)
      field(tag) == IF \E i \in DOMAIN seq.items : seq.items[i].tag = tag
                    THEN {LastPart(seq, tag)} ELSE {}
  IN  IF value = << >> THEN {[identity |-> << >>, old |-> {}, new |-> {}]}
      ELSE IF ~Reads(top, 1, Tag.Sequence) THEN {}
      ELSE Decoded(seq.rest = << >>,
                   [identity |-> LastPart(seq, Tag.SimpleAuth),
                    old |-> field(Tag.Context1), new |-> field(Tag.Context2)])
=============================================================================
