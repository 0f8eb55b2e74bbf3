----------------------------- MODULE MCDirectory -----------------------------
(***************************************************************************)
(* Small directories for Directory: dc=x with one account cn=u below it,   *)
(* room for a sibling cn=v and for a child of cn=u.  cn is mandatory, so   *)
(* the RDN value matters to the schema.                                    *)
(***************************************************************************)
EXTENDS Directory

CONSTANTS s1, s2

mcTwo == {s1, s2}
mcOne == {s1}
mcSymmetry == Permutations({s1, s2})

B == <<<<"dc", "x">>>>
U == <<<<"cn", "u">>>> \o B
V == <<<<"cn", "v">>>> \o B
C == <<<<"cn", "c">>>> \o U
Admin == <<<<"cn", "admin">>>> \o B

\* person has a mandatory cn; staff is a kind of person; account adds what
\* an account needs and is auxiliary.
Is(key, arg) == [key |-> key, arg |-> arg]
Class(name, superiors, kind, must, may) ==
  [keyword |-> "objectclass",
   clauses |-> <<Is("name", <<name>>), Is("sup", superiors), Is(kind, << >>), Is("must", must),
                 Is("may", may)>>]
Type(name, clauses) ==
  [keyword |-> "attributetype", clauses |-> <<Is("name", <<name>>), Is("desc", <<"">>)>> \o clauses]

\* uid and name are each other's superior.  The second file breaks off before
\* it defines description, which person allows, and the wrong staff.
mcSchemaFiles ==
  << << Type("flags", <<Is("syntax", <<"integer">>)>>), Type("cn", << >>),
        Type("uid", <<Is("sup", <<"name">>)>>), Type("name", <<Is("sup", <<"uid">>)>>),
        Type("userPassword", << >>),
        [keyword |-> "objectidentifier", clauses |-> << >>],
        Type("userAccountControl", <<Is("sup", <<"flags">>), Is("single-value", << >>)>>),
        Class("account", <<"top">>, "auxiliary", << >>, <<"userAccountControl">>),
        Class("device", <<"top">>, "structural", << >>, <<"uid">>) >>,
     << Class("staff", <<"person">>, "structural", << >>, << >>),
        Type("description", <<Is("equals", <<"caseIgnoreMatch">>)>>),
        Class("staff", <<"top">>, "auxiliary", << >>, << >>) >>,
     << Class("top", << >>, "abstract", <<"objectClass">>, << >>),
        Class("person", <<"top">>, "structural", <<"cn">>, <<"uid", "userPassword", "description">>),
        Class("device", <<"top">>, "structural", << >>, <<"cn">>) >> >>
mcLegal == [integer |-> {"512", "514"}]

mcTree ==
  [d \in {B, U} |->
     IF d = U THEN [objectClass |-> <<"staff", "account">>, cn |-> <<"u">>, uid |-> <<"u">>,
                    userPassword |-> <<"p1">>, userAccountControl |-> <<"512">>]
     ELSE [objectClass |-> <<"person">>, cn |-> <<"x">>]]
mcHash == [p1 |-> "ssha-p1", p2 |-> "ssha-p2"]
Made(name, of) == [name |-> name, of |-> of]
mcScheme ==
  [v \in {"ssha-p1", "ssha-p2", "sha-p1", "clear-p1", "md5-p1"} |->
     CASE v = "ssha-p1"  -> Made("SSHA", "p1")
       [] v = "ssha-p2"  -> Made("SSHA", "p2")
       [] v = "sha-p1"   -> Made("SHA", "p1")
       [] v = "clear-p1" -> Made("CLEARTEXT", "p1")
       [] v = "md5-p1"   -> Made("MD5", "p1")]
Acl(word, dn, permission, target) ==
  [who |-> word, dn |-> dn, permission |-> permission, target |-> target]
\* acl = dn:<U> write <U's subtree>, and a rule that is for reading only.
mcAclLines == << Acl("users", RootDse, "search", RootDse), Acl("dn", U, "write", U) >>

As(dn, secure) == [bound |-> TRUE, dn |-> dn, secure |-> secure]
Unbound == [bound |-> FALSE, dn |-> RootDse, secure |-> TRUE]
mcIdentities == {As(Admin, TRUE), As(U, TRUE)}
mcAllIdentities == mcIdentities \cup {As(U, FALSE), Unbound}
mcRoot == {As(Admin, TRUE)}

Entry(classes, cn) == [objectClass |-> classes, cn |-> <<cn>>, userPassword |-> <<"p1">>]
Add(dn, cn) == [op |-> "add", dn |-> dn, attrs |-> Entry(<<"person">>, cn)]
AddAs(dn, classes) == [op |-> "add", dn |-> dn, attrs |-> [objectClass |-> classes]]
Described(dn) == [op |-> "add", dn |-> dn, attrs |-> [description |-> <<"d">>] @@ Entry(<<"person">>, "v")]
Del(dn) == [op |-> "delete", dn |-> dn]
Mod(dn, op, t, vs) ==
  [op |-> "modify", dn |-> dn, changes |-> <<[op |-> op, type |-> t, values |-> vs]>>]
Ren(dn, rdn, sup, del) ==
  [op |-> "modifyDn", dn |-> dn, newRdn |-> rdn, newSuperior |-> sup, deleteOldRdn |-> del]
\* Without an old password, with one, and a value that does not decode.
PwTo(id, new) == [op |-> "passwordModify", decodes |-> TRUE, identity |-> id, old |-> {}, new |-> new]
Pw(id, old, new) == [PwTo(id, new) EXCEPT !.old = {old}]
PwBad == [PwTo(RootDse, "p2") EXCEPT !.decodes = FALSE]

Disable == Mod(U, "replace", "userAccountControl", <<"514">>)

\* new_rdn = cn=w,ou=g: there is no ou=g.
TwoParts == <<<<"cn", "w">>, <<"ou", "g">>>>

\* Two clients at once: every handler, against the ones that it can disturb.
mcConcurrent ==
  { Add(V, "v"), AddAs(V, <<"staff">>), Del(U),
    Disable, Mod(U, "delete", "cn", << >>),
    Pw(RootDse, "p1", "p2"), PwTo(<<<<"", "u">>>>, "p2"), Described(V),
    Ren(U, TwoParts, RootDse, TRUE), Ren(V, TwoParts, RootDse, TRUE),
    Ren(U, <<<<"uid", "u">>>>, RootDse, TRUE) }

\* One client at a time, with the requests that a check refuses as well; only
\* leaves are renamed, and not below themselves.
mcSerial ==
  { Add(V, "v"), Add(C, "c"), Add(U, "u"), Add(RootDse, "x"), Add(<<<<"cn", "w">>>> \o V, "w"),
    AddAs(V, <<"staff">>), AddAs(V, <<"person", "device">>), Described(V),
    Del(U), Del(C), Del(V),
    Disable, Mod(U, "delete", "cn", << >>), Mod(U, "replace", "userAccountControl", <<"x">>),
    Mod(U, "add", "userAccountControl", <<"514">>), Mod(U, "increment", "uid", <<"1">>),
    Ren(C, <<<<"cn", "w">>>>, RootDse, TRUE), Ren(C, <<<<"cn", "c">>>>, B, FALSE),
    Ren(C, <<<<"uid", "u">>>>, RootDse, TRUE), Ren(C, <<<<"cn", "c">>>>, V, TRUE),
    Ren(U, <<<<"cn", "u">>>>, RootDse, TRUE), Ren(V, << >>, RootDse, TRUE),
    Ren(C, TwoParts, RootDse, FALSE), Ren(C, <<<<"", "w">>>> \o TwoParts, B, FALSE),
    Ren(C, <<<<"", "w">>>>, RootDse, TRUE),
    Pw(RootDse, "p1", "p2"), PwTo(<<<<"", "u">>>>, "p2"), Pw(C, "p1", "p2"),
    PwTo(Admin, "p2"), PwTo(RootDse, ""), PwBad, Pw(RootDse, "", "p2"), Pw(<<<<"cn", "u">>>>, "p2", "p1") }

mcPasswordRace == { Disable, Pw(RootDse, "p1", "p2") }
=============================================================================
