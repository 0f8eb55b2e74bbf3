--------------------------- MODULE MCSqliteBackend ---------------------------
(***************************************************************************)
(* Two names, one of them in two spellings.  An entry may have an          *)
(* attribute without values, which has no row, and a value with a NUL      *)
(* byte, of which only the beginning is read.                              *)
(***************************************************************************)
EXTENDS SqliteBackend

CONSTANTS s1, s2

mcSessions == {s1, s2}
mcNames == {"", "u", "v"}
mcSpellings == {"lower", "upper"}
mcCut == [x |-> "x", y |-> "y", xNul |-> "x"]
Plain == [cn |-> <<"y", "x">>]
Odd == [cn |-> <<"xNul">>, mail |-> << >>]
mcAttrs == {Plain, Odd}

Call(op, dn, to, attrs) == [op |-> op, dn |-> dn, to |-> to, attrs |-> attrs]
U == <<"u", "lower">>
UU == <<"u", "upper">>
V == <<"v", "lower">>
E == <<"", "lower">>
mcCalls ==
  { Call("lookup", U, U, Plain), Call("search", E, E, Plain),
    Call("add", U, U, Plain), Call("add", UU, UU, Odd), Call("add", E, E, Odd),
    Call("modify", UU, UU, Odd), Call("remove", U, U, Plain),
    Call("rename", U, V, Plain), Call("rename", V, UU, Plain), Call("rename", U, UU, Plain),
    Call("rename", U, E, Plain) }
mcSeed == <<[dn |-> V, attrs |-> Plain]>>
=============================================================================
