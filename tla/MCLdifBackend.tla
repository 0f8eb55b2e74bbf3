---------------------------- MODULE MCLdifBackend ----------------------------
(***************************************************************************)
(* Three sessions over two names.  Attribute 1 is written as it is, 2 has  *)
(* blanks around its value, 3 has a line break and a dn line in it, and 4  *)
(* a blank line: what follows it falls to the next entry.                  *)
(***************************************************************************)
EXTENDS LdifBackend, TLC

CONSTANTS s1, s2, s3

mcSessions == {s1, s2, s3}
mcSymmetry == Permutations(mcSessions)
mcNames == 1..2
mcAttributes == 1..5
mcLines == << <<Attr(1)>>, <<Attr(1)>>, <<Attr(1), Dn(2), Skip, Attr(5)>>,
              <<Attr(1), Blank, Attr(5)>>, <<Attr(5)>> >>
mcCut ==
  [l \in {Dn(n) : n \in mcNames} \cup {Attr(a) : a \in mcAttributes} \cup {Blank, Skip} |->
     CASE l[1] = "dn"   -> {Skip, Dn(1)}
       [] l[1] = "attr" -> {Skip, Attr(5)}
       [] OTHER         -> {}]
mcContents == {{2}, {3, 4}}
\* No file yet, and one that was made by hand, with a name given twice.
mcSeeds == { << >>, <<Attr(5), Dn(1), Attr(1), Dn(2), Blank, Dn(1), Attr(5)>> }
=============================================================================
