-------------------------- MODULE MCAuthentication --------------------------
(***************************************************************************)
(* An account cn=u with the uid u and a neighbour cn=v; cn=u's password    *)
(* and flags change, and it may have the empty password.                   *)
(***************************************************************************)
EXTENDS Authentication

B == <<<<"dc", "x">>>>
U == <<<<"cn", "u">>>> \o B
V == <<<<"cn", "v">>>> \o B
Admin == <<<<"cn", "admin">>>> \o B
Uid(name) == <<<<"", name>>>>
UidDn(name) == <<<<"uid", name>>>> \o B

Account(uid, password, uac) ==
  [uid |-> <<uid>>, userPassword |-> <<password>>, userAccountControl |-> <<uac>>]
Two(u, v) == [d \in {U, V} |-> IF d = U THEN u ELSE v]

mcHash == [p1 |-> "ssha-p1", p2 |-> "ssha-p2"]
Made(name, of) == [name |-> name, of |-> of]
mcScheme ==
  [v \in {"ssha-p1", "ssha-p2", "sha-p1", "clear-p1", "md5-p1"} |->
     CASE v = "ssha-p1"  -> Made("SSHA", "p1")
       [] v = "ssha-p2"  -> Made("SSHA", "p2")
       [] v = "sha-p1"   -> Made("SHA", "p1")
       [] v = "clear-p1" -> Made("CLEARTEXT", "p1")
       [] v = "md5-p1"   -> Made("MD5", "p1")]
mcV == Account("v", "ssha-p2", "512")
mcStable ==
  { Two(Account("u", "p1", "512"), mcV), Two(Account("u", "clear-p1", "514"), mcV),
    Two(Account("u", "ssha-p2", "512"), mcV), Two(Account("u", "", "512"), mcV) }

Simple(name, pw) == [mech |-> "simple", name |-> name, password |-> pw]
Plain(name, pw, authzid) ==
  [mech |-> "plain", name |-> name, password |-> pw, authzid |-> authzid]
Digest(name, pw, n) == [mech |-> "digest", name |-> name, password |-> pw, nonce |-> n]
External(name) == [mech |-> "external", name |-> name]
Ticket(t) == [mech |-> "gssapi", ticket |-> t]

\* The keytab may be rotated, rewritten without a realm, or broken.
Line(word, value) == [word |-> word, value |-> value]
File(state, lines) == [state |-> state, lines |-> lines]
mcKeytabs ==
  { File("none", << >>), File("unreadable", << >>), File("readable", <<Line("realm", <<"x">>)>>),
    File("readable", <<Line("realm", <<"x">>), Line("key", <<"k1">>)>>),
    File("readable", <<Line("key", <<"k1">>), Line("key", <<"k2">>)>>) }
\* Just within the skew of the tickets of 3 to 4, and just outside.
mcTimes == {1, 2, 5, 6}

\* Tickets of the first key and of another; with another account's name, realm
\* or service put in; not in time order; and not a ticket.
Key(k, realm) == [ok |-> TRUE, realm |-> realm, service |-> <<"ldap", "localhost">>, key |-> <<k>>]
User(name, realm) == [name |-> name, realm |-> realm]
Mine == mintGssapiTicket(Key("k1", <<"x">>), User(Uid("u"), <<"x">>), 3, 1)
mcTickets ==
  { Mine, mintGssapiTicket(Key("k2", <<"x">>), User(Uid("v"), NotSet), 3, 1),
    mintGssapiTicket(Key("k1", <<"x">>), User(Uid("nobody"), NotSet), 3, 1),
    mintGssapiTicket(Key("k1", <<"x">>), User(Uid("u"), <<"y">>), 3, 1),
    mintGssapiTicket(Key("k1", <<"y">>), User(Uid("u"), NotSet), 3, 1),
    [Mine EXCEPT !.principal = Uid("v")], [Mine EXCEPT !.service = <<"host">>],
    [Mine EXCEPT !.form = "bad"],
    encodeGssapiTicket(Key("k1", <<"x">>), User(Uid("u"), NotSet), 4, 4) }

mcRequests ==
  { [mech |-> "v2"], [mech |-> "unsupported"],
    Simple(RootDse, ""), Simple(RootDse, "p1"), Simple(Uid("u"), "p1"), Simple(U, ""),
    Simple(UidDn("v"), "p2"), Simple(Uid("admin"), "p2"), Simple(Uid("nobody"), "p1"),
    Plain(Uid("u"), "p1", RootDse), Plain(UidDn("u"), "p2", U), Plain(Uid("v"), "p2", U),
    Plain(Admin, "p1", RootDse), Plain(RootDse, "p1", RootDse), Plain(Uid("nobody"), "p1", RootDse),
    External(RootDse), External(Uid("u")), External(V),
    Ticket(NoTicket) }
  \cup { Digest(Uid("u"), "p1", n) : n \in 0..2 }
  \cup { Digest(V, "p2", n) : n \in 1..2 }
  \cup { Ticket(t) : t \in mcTickets }
  \cup { Digest(RootDse, "p1", 1), Digest(Uid("nobody"), "p1", 1) }

mcCert == Uid("u")
=============================================================================
