----------------------------- MODULE MCExchange ------------------------------
(***************************************************************************)
(* Exchange for TLC: every tool, with options, input and filters of every  *)
(* kind, and strings whose BER length is at the edges of its form.         *)
(***************************************************************************)
EXTENDS Exchange

mcPaged == <<1>>
mcPasswordModify == <<2>>
mcWhoAmI == <<3>>
mcStartTls == <<4>>

\* A string of n characters; short names.
Long(n) == [i \in 1..n |-> 120]
a == <<97>>
b == <<98>>
c == <<99>>
secret == <<115, 51>>

Opt(flag, value) == [flag |-> flag, has |-> TRUE, arg |-> value]
Flag(flag) == [flag |-> flag, has |-> FALSE, arg |-> << >>]
Arg(value) == Opt("positional", value)
Uri(scheme, port, base) == [scheme |-> scheme, port |-> port, base |-> base]
Simple == <<Opt("-D", c), Opt("-w", secret)>>

Invocation(name, argv, file, want) ==
  [tool |-> name, argv |-> argv, file |-> file, typed |-> secret,
   new |-> <<Long(3), Long(3)>>, want |-> want]

-----------------------------------------------------------------------------
\* The reference: how a user writes a filter (RFC 4515).
RECURSIVE Text(_)
Text(node) ==
  LET parens(s) == <<Char.open>> \o s \o <<Char.close>>
      item(v)   == node.attribute \o <<Char.equals>> \o v
      all(op)   == <<op>> \o writeEach(node.children, Text)
      star      == <<Char.star>>
  IN  parens(CASE node.type = "And" -> all(Char.and)
               [] node.type = "Or"  -> all(Char.or)
               [] node.type = "Not" -> all(Char.not)
               [] node.type = "Present"   -> item(star)
               [] node.type = "Equality"  -> item(node.value)
               [] node.type = "Substring" ->
                    item(node.initial \o star \o writeEach(node.any, LAMBDA p : p \o star)
                         \o node.final))

-----------------------------------------------------------------------------
\* Filters: each kind of node, nested, escaped, and long ones.
Filters ==
  LET eq  == equality(a, b)
      sub == [Node("Substring") EXCEPT !.attribute = a]
      of(type, kids) == [Node(type) EXCEPT !.children = kids]
  IN  << eq, present(a), [sub EXCEPT !.initial = b],
         [sub EXCEPT !.initial = b, !.any = <<a, c>>, !.final = Long(2)],
         equality(a, <<98, Char.escape, Char.star, 98>>),
         of("And", <<of("Or", <<eq, present(c)>>), of("Not", <<eq>>)>>),
         equality(a, Long(127)), equality(a, Long(128)), equality(a, Long(256)) >>

Search(filter) ==
  [base |-> a, scope |-> Scope.sub, sizeLimit |-> 0, timeLimit |-> 0, typesOnly |-> FALSE,
   filter |-> filter, attributes |-> << >>]
Searching(argv, data) ==
  Invocation("ldapsearch", Simple \o argv, << >>, <<Request("SearchRequest", data)>>)
BaseA == Opt("-b", a)
All == Search(present(ObjectClass))

SearchCalls ==
     [i \in DOMAIN Filters |-> Searching(<<BaseA, Arg(Text(Filters[i]))>>, Search(Filters[i]))]
  \o << Searching(<<BaseA, Arg(<<97, Char.equals, 98>>)>>, Search(equality(a, b))),
        Searching(<<Opt("-H", Uri("ldap", 0, a)), Opt("-s", "one"), Flag("-A"), Arg(AllObjects),
                    Arg(b), Arg(c)>>,
                  [All EXCEPT !.scope = Scope.one, !.typesOnly = TRUE, !.attributes = <<b, c>>]),
        Searching(<<BaseA, Opt("-E", 1)>>, All),
        Searching(<<BaseA, Opt("-E", 2), Opt("-l", 300)>>, [All EXCEPT !.timeLimit = 300]),
        Searching(<<BaseA, Opt("-E", 2), Opt("-z", 2)>>, [All EXCEPT !.sizeLimit = 2]),
        Searching(<<BaseA, Opt("-z", -1)>>, [All EXCEPT !.sizeLimit = -1]),
        Searching(<<BaseA, Opt("-z", 128)>>, [All EXCEPT !.sizeLimit = 128]),
        [Searching(<<BaseA, Arg(<<Char.open, 97>>)>>, All) EXCEPT !.want = << >>],
        [Searching(<<Opt("-s", "none")>>, All) EXCEPT !.want = << >>],
        [Searching(<<Opt("-l", BadNumber)>>, All) EXCEPT !.want = << >>] >>

-----------------------------------------------------------------------------
\* Connecting and binding, with ldapwhoami.
WhoAmI(argv) ==
  Invocation("ldapwhoami", argv, << >>,
             <<Request("ExtendedRequest", [oid |-> WhoAmIOid, value |-> << >>])>>)
Sasl(mechanism, argv) == WhoAmI(<<Opt("-Y", mechanism)>> \o Simple \o argv)
Refused(invocation) == [invocation EXCEPT !.want = << >>]

BindCalls ==
  << WhoAmI(Simple \o <<Flag("unknown"), Flag("-x")>>),
     WhoAmI(<<Opt("-D", c), Flag("-W"), Flag("-Z")>>),
     WhoAmI(Simple \o <<Opt("-H", Uri("ldaps", 0, << >>))>>),
     WhoAmI(Simple \o <<Opt("-H", Uri("ldaps", 0, << >>)), Opt("-p", LdapPort)>>),
     WhoAmI(Simple \o <<Opt("-h", Uri("ldap", LdapsPort, << >>))>>),
     WhoAmI(Simple \o <<Flag("-Z"), Opt("--ca-file", "bad")>>),
     Sasl("PLAIN", <<Flag("-Z"), Opt("-U", Long(128))>>),
     Sasl("PLAIN", << >>),
     Sasl("EXTERNAL", <<Opt("-H", Uri("ldaps", LdapsPort, << >>))>>),
     Sasl("DIGEST", << >>),
     WhoAmI(<<Opt("-Y", "DIGEST")>>),
     Sasl("GSSAPI", <<Opt("--keytab", "good")>>),
     WhoAmI(<<Opt("-Y", "GSSAPI"), Opt("--keytab", "good")>>),
     Sasl("GSSAPI", << >>), Sasl("GSSAPI", <<Opt("--keytab", "no realm")>>),
     Sasl("ANONYMOUS", << >>), Sasl("SCRAM", << >>),
     Refused(WhoAmI(<<Flag("--help")>>)), Refused(WhoAmI(<<Flag("-D")>>)),
     Refused(WhoAmI(<<Opt("-p", 65536)>>)),
     Refused(WhoAmI(<<Opt("-H", Uri("ldap", BadNumber, << >>))>>)) >>

-----------------------------------------------------------------------------
\* Changes: each as LDIF in several styles.
Attr(type, values) == [type |-> type, values |-> values]
Change(op, type, values) == [op |-> ModifyOp[op], type |-> type, values |-> values]
Add(dn, attributes) == Request("AddRequest", [dn |-> dn, attributes |-> attributes])
Modify(dn, changes) == Request("ModifyRequest", [dn |-> dn, changes |-> changes])
Rename(dn, rdn, old, superior) ==
  Request("ModifyDNRequest", [dn |-> dn, newRdn |-> rdn, deleteOldRdn |-> old,
                              newSuperior |-> superior])
Delete(dn) == Request("DelRequest", dn)

Style(type, blank, dash, notes) ==
  [type |-> type, blank |-> blank, dash |-> dash, notes |-> notes]
Usual == Style(TRUE, TRUE, TRUE, FALSE)
Terse == Style(TRUE, FALSE, FALSE, TRUE)
Content == Style(FALSE, TRUE, TRUE, FALSE)

Changes ==
  << Modify(a, <<Change("add", b, <<a, c>>), Change("delete", b, << >>),
                 Change("replace", b, <<Long(127)>>)>>),
     Add(b, <<Attr(c, <<a>>), Attr(a, <<b, b>>)>>),
     Rename(b, c, FALSE, a), Delete(c) >>
Contents2 == << Add(a, <<Attr(b, <<c, a>>)>>), Add(b, <<Attr(a, <<Long(256)>>)>>) >>
Replaced == << Modify(a, <<Change("replace", b, <<c, a>>), Change("replace", c, <<b>>)>>) >>

Changing(name, argv, reqs, style) ==
  Invocation(name, Simple \o argv, File(reqs, style), reqs)

ChangeCalls ==
  << Changing("ldapmodify", <<Opt("-f", << >>)>>, Changes, Usual),
     Changing("ldapmodify", << >>, Changes, Terse),
     Changing("ldapmodify", << >>, <<Rename(b, c, TRUE, << >>)>>, Usual),
     Changing("ldapmodify", << >>, Replaced, Content),
     Changing("ldapmodify", <<Flag("-a")>>, Contents2, Content),
     Changing("ldapadd", << >>, Contents2, Content),
     Changing("ldapadd", << >>, Contents2, Terse),
     [Changing("ldapadd", << >>, <<Delete(a)>>, Usual) EXCEPT !.want = << >>],
     Refused(Changing("ldapadd", << >>, << >>, Usual)),
     [Changing("ldapdelete", <<Arg(a), Opt("-f", << >>)>>, <<Delete(b)>>, Usual) EXCEPT
        !.want = <<Delete(a), Delete(b)>>],
     [Changing("ldapdelete", <<Flag("-Z"), Arg(Long(128))>>, << >>, Usual) EXCEPT
        !.want = <<Delete(Long(128))>>],
     Refused(Changing("ldapdelete", << >>, << >>, Usual)) >>

-----------------------------------------------------------------------------
Assertion(value) == a \o <<Colon>> \o value
Comparing(argv, value) ==
  Invocation("ldapcompare", Simple \o argv, << >>,
    <<Request("CompareRequest", [dn |-> b, attribute |-> a, value |-> value])>>)

Passwd(argv, identity, old, new) ==
  Invocation("ldappasswd", Simple \o argv, << >>,
    <<Request("PasswordModify", {[identity |-> identity, old |-> old, new |-> {new}]})>>)

OtherCalls ==
  << Comparing(<<Arg(b), Arg(Assertion(<<98, Colon>>))>>, <<98, Colon>>),
     Comparing(<<Arg(b), Arg(Assertion(Long(255)))>>, Long(255)),
     Refused(Comparing(<<Arg(b), Arg(Assertion(<< >>))>>, << >>)),
     Refused(Comparing(<<Arg(b)>>, << >>)),
     Passwd(<<Opt("-s", Long(128)), Flag("-Z")>>, << >>, {}, Long(128)),
     Passwd(<<Flag("-S"), Opt("-a", secret), Arg(b)>>, b, {secret}, Long(3)),
     [Refused(Passwd(<<Flag("-S")>>, << >>, {}, << >>)) EXCEPT !.new = <<a, b>>],
     Refused(Passwd(<< >>, << >>, {}, << >>)) >>

mcCalls == SearchCalls \o BindCalls \o ChangeCalls \o OtherCalls

mcServers == { [ldaps |-> TRUE, starttls |-> TRUE, maxPdu |-> 2000],
               [ldaps |-> FALSE, starttls |-> FALSE, maxPdu |-> 200] }

\* Results the handlers give: noSuchObject, insufficientAccessRights,
\* entryAlreadyExists, objectClassViolation, operationsError (a failed save).
mcOutcomes ==
  [SearchRequest |-> {0, 32, 50}, AddRequest |-> {0, 68, 1}, DelRequest |-> {0, 32},
   ModifyRequest |-> {0, 65}, ModifyDNRequest |-> {0, 68}, CompareRequest |-> {5, 6, 32},
   ExtendedRequest |-> {0, 49}]
mcBindOutcomes == {0, 49}

mcFound == << [dn |-> a, attributes |-> <<Attr(b, <<Long(128), c>>)>>],
              [dn |-> b, attributes |-> << >>],
              [dn |-> c, attributes |-> <<Attr(a, << >>), Attr(b, <<Long(256)>>)>>] >>
mcDiagnostic == <<100>>
mcChallenge == <<110>>
mcDigestResponse == <<114>>
mcTicket == <<116>>
mcAuthzid == <<117, 58>>
mcHello == <<22, 3, 1, 0, 2, 1>>
=============================================================================
