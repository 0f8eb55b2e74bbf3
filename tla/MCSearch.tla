------------------------------ MODULE MCSearch ------------------------------
(***************************************************************************)
(* dc=x with a group and two accounts below it, one of them in the group   *)
(* by one of the four ways there are.  The group may read the accounts,    *)
(* cn=v may read itself, and anonymous may read everything.                *)
(***************************************************************************)
EXTENDS Search

B == <<<<"dc", "x">>>>
G == <<<<"cn", "g">>>> \o B
U == <<<<"uid", "u">>>> \o B
V == <<<<"cn", "v">>>> \o B
W == <<<<"cn", "w">>>> \o V
Admin == <<<<"cn", "admin">>>> \o B

mcOrder == <<G, V, W, B, U>>

User(cn, more) ==
  LET plain == [cn |-> <<cn>>, userPassword |-> <<"ssha-p1">>]
  IN  [t \in DOMAIN plain \cup DOMAIN more |-> IF t \in DOMAIN plain THEN plain[t] ELSE more[t]]
Base == [dc |-> <<"x">>]
Tree(group, u, more) ==
  [d \in {B, G, U} \cup DOMAIN more |->
     CASE d = B -> Base [] d = G -> group [] d = U -> u [] OTHER -> more[d]]
NoMore == [d \in {} |-> 0]
TheV(password) == [d \in {V} |-> [User("abab", NoMore) EXCEPT !.userPassword = <<password>>]]
VandW == [d \in {V, W} |-> IF d = V THEN User("abab", NoMore) ELSE User("ab", NoMore)]

\* In the group by member; by memberUid and the uid attribute; by memberUid
\* and the RDN; by memberOf; not at all; and no group.
mcTrees ==
  { Tree([member |-> <<U>>], User("aba", NoMore), VandW),
    Tree([memberUid |-> <<"a">>], User("aba", [uid |-> <<"a">>]), TheV("sha-p1")),
    Tree([memberUid |-> <<"u">>], User("ba", NoMore), TheV("md5-p1")),
    Tree([cn |-> <<"g">>], User("aba", [memberOf |-> <<G>>]), NoMore),
    Tree([memberUid |-> <<"b">>], User("aba", [uid |-> <<"a">>]), VandW),
    [d \in {B, U} |-> IF d = B THEN Base ELSE User("aba", NoMore)] }

Acl(word, dn, target) == [who |-> word, dn |-> dn, permission |-> "search", target |-> target]
mcAclLines == << Acl("anonymous", RootDse, B), Acl("dn", V, V), Acl("group", G, V),
                 Acl("group", G, U) >>
mcIdentities == {RootDse, U, V, Admin}
mcDse == [objectClass |-> <<"top">>]
mcHash == [p1 |-> "ssha-p1", p2 |-> "ssha-p2"]
Made(name, of) == [name |-> name, of |-> of]
mcScheme ==
  [v \in {"ssha-p1", "ssha-p2", "sha-p1", "clear-p1", "md5-p1"} |->
     CASE v = "ssha-p1"  -> Made("SSHA", "p1")
       [] v = "ssha-p2"  -> Made("SSHA", "p2")
       [] v = "sha-p1"   -> Made("SHA", "p1")
       [] v = "clear-p1" -> Made("CLEARTEXT", "p1")
       [] v = "md5-p1"   -> Made("MD5", "p1")]

mcText == [ab |-> <<"a", "b">>, aba |-> <<"a", "b", "a">>, abab |-> <<"a", "b", "a", "b">>,
          ba |-> <<"b", "a">>, g |-> <<"b">>]

Node(type, attribute, value, children) ==
  [type |-> type, attribute |-> attribute, value |-> value, children |-> children,
   initial |-> << >>, any |-> << >>, final |-> << >>]
Sub(initial, any, final) ==
  [Node("Substring", "cn", "", << >>) EXCEPT !.initial = initial, !.any = any, !.final = final]
mcNodes ==
  << Node("And", "", "", <<2, 4>>),               \* 1: with a password, ab*ab
     Node("Present", "userPassword", "", << >>),   \* 2
     Node("Or", "", "", <<5, 7>>),                 \* 3: anything at all
     Sub(<<"a", "b">>, << >>, <<"a", "b">>),       \* 4
     Node("Not", "", "", <<7>>),                   \* 5
     Sub(<<"a">>, <<<<"b">>>>, <<"a">>),           \* 6: a*b*a
     Node("Equality", "cn", "aba", << >>) >>       \* 7

Control(kind, critical, size) == [kind |-> kind, critical |-> critical, size |-> size]
Page(n) == <<Control("paged", TRUE, n)>>
Find(dn, scope, filter, controls, sizeLimit) ==
  [op |-> "search", dn |-> dn, scope |-> scope, filter |-> filter, attributes |-> {},
   typesOnly |-> FALSE, sizeLimit |-> sizeLimit, timeLimit |-> 0, controls |-> controls,
   cookie |-> 0]
Compare(dn, attribute, value) ==
  [op |-> "compare", dn |-> dn, attribute |-> attribute, value |-> value]

mcRequests ==
  { Find(B, "sub", 3, Page(1), 0), Find(B, "sub", 3, Page(2), 1), Find(B, "sub", 3, Page(2), 2),
    Find(B, "one", 3, << >>, 1), Find(B, "sub", 1, << >>, 0), Find(B, "sub", 6, << >>, 0),
    Find(RootDse, "sub", 3, Page(2), 3), Find(RootDse, "sub", 2, Page(1), 0), Find(RootDse, "base", 5, << >>, 0),
    Find(V, "base", 2, << >>, 0), Find(B, "sub", 3, Page(0), 0),
    [Find(B, "one", 2, Page(1), 0) EXCEPT !.cookie = BadCookie],
    [Find(B, "one", 2, Page(1), 0) EXCEPT !.cookie = 1, !.attributes = {"cn", "userPassword"}],
    [Find(B, "one", 2, Page(1), 0) EXCEPT !.cookie = 3, !.attributes = {"1.1"}],
    [Find(B, "one", 2, Page(2), 0) EXCEPT !.timeLimit = 1, !.typesOnly = TRUE],
    Find(B, "sub", 0, << >>, 0),
    Find(B, "sub", 3, <<Control("other", FALSE, 0), Control("malformed", FALSE, 0)>>, 0),
    Find(B, "sub", 3, <<Control("other", TRUE, 0)>>, 0),
    Compare(RootDse, "cn", "ab"), Compare(U, "cn", "aba"), Compare(V, "userPassword", "p1"),
    Compare(V, "userPassword", "ssha-p1"), Compare(W, "mail", "p1") }

\* The promise of one backend call, on these trees and filters.
ASSUME BackendSearchExact
=============================================================================
