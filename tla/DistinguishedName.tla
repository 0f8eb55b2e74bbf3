-------------------------- MODULE DistinguishedName --------------------------
(***************************************************************************)
(* Distinguished names, as utils/dn.cpp reads them.                        *)
(*                                                                         *)
(* The code never unescapes a name: it folds ASCII case and splits at      *)
(* every comma.  A name is therefore the sequence of its comma-separated   *)
(* components, leaf first, and two names that dnEquals identifies are the  *)
(* same sequence.  The empty string is the empty sequence.  A component    *)
(* "type=value" is the pair <<type, value>>, one without "=" is            *)
(* <<"", text>>; names with an empty component, as "cn=a,,dc=x", are left  *)
(* out.                                                                    *)
(***************************************************************************)
EXTENDS Naturals, Sequences, SequencesExt

RootDse == << >>
Component == (STRING \X STRING) \ {<<"", "">>}

\* utils/dn.cpp dnEndsWith: base is dn itself or the tail of it that starts
\* after a comma; the empty base covers every name.
dnEndsWith(dn, base) ==
  /\ Len(base) <= Len(dn)
  /\ SubSeq(dn, Len(dn) - Len(base) + 1, Len(dn)) = base

\* dnParent: everything after the first comma, the empty name if there is none.
dnParent(dn) == IF Len(dn) <= 1 THEN RootDse ELSE Tail(dn)

\* dnIsOneLevelChild: exactly one component in front of base.
dnIsOneLevelChild(dn, base) == dn # RootDse /\ Tail(dn) = base

\* composeDn: the two texts with a comma in between, if neither is empty.  The
\* rdn is what the client sent, with as many components as it has commas.
composeDn(rdn, parent) == rdn \o parent

\* dnRdn followed by parseRdn, for one component.
dnRdn(dn) == Head(dn)
rdnType(rdn) == rdn[1]
rdnValue(rdn) == rdn[2]

\* parseRdn of a text that may have commas: it is split at its first "=", and
\* what is on either side, commas included, is the type and the value.
textOf(components) ==
  LET text(c) == IF c[1] = "" THEN c[2] ELSE c[1] \o "=" \o c[2]
  IN  FoldLeft(LAMBDA t, c : t \o "," \o text(c), text(Head(components)), Tail(components))
parseRdn(rdn) ==
  LET first == SelectInSeq(rdn, LAMBDA c : rdnType(c) # "")
      type  == textOf(Append(SubSeq(rdn, 1, first - 1), <<"", rdnType(rdn[first])>>))
      value == textOf(<<<<"", rdnValue(rdn[first])>>>> \o SubSeq(rdn, first + 1, Len(rdn)))
  IN  IF first = 0 THEN [ok |-> FALSE]
                   ELSE [ok |-> value # "", type |-> type, value |-> value]

\* There is a "=" in the name; a name without one is a uid.
hasType(dn) == \E i \in DOMAIN dn : rdnType(dn[i]) # ""
=============================================================================
