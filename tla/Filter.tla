------------------------------- MODULE Filter -------------------------------
(***************************************************************************)
(* Search filters (protocol/filter.cpp), once parsed or decoded: which     *)
(* entries they match.                                                     *)
(*                                                                         *)
(* Nodes is a table of filter nodes; the children of a node are positions  *)
(* in the table after its own, and a filter is the position of its root.   *)
(* The True and False nodes are made inside the server only and are never  *)
(* part of a request.  Text[v] is the text of a value in lower case, a     *)
(* sequence of letters.                                                    *)
(***************************************************************************)
EXTENDS Integers, Sequences, FiniteSetsExt, SequencesExt

CONSTANTS Nodes, Text

IsSeq(q) == q \in Seq(ToSet(q))

\* Not is parsed and decoded with exactly one child.
ASSUME NodesAssumption ==
  /\ IsSeq(Nodes)
  /\ \A n \in DOMAIN Nodes :
       LET node == Nodes[n]
           kids == node.children
       IN  /\ node.type \in {"And", "Or", "Not", "Present", "Equality", "Substring"}
           /\ IsSeq(kids)
           /\ \A i \in DOMAIN kids : kids[i] \in DOMAIN Nodes /\ kids[i] > n
           /\ node.type = "Not" => Len(kids) = 1
           /\ node.type = "Substring" =>
                IsSeq(node.initial) /\ IsSeq(node.final) /\ IsSeq(node.any)
                /\ \A i \in DOMAIN node.any : IsSeq(node.any[i])

\* The values of an entry are lists, and what a substring filter looks into
\* is text.
Legible(attrs) ==
  /\ \A a \in DOMAIN attrs : IsSeq(attrs[a])
  /\ \A n \in DOMAIN Nodes :
       LET node == Nodes[n]
       IN  node.type = "Substring" /\ node.attribute \in DOMAIN attrs =>
             \A v \in ToSet(attrs[node.attribute]) : v \in DOMAIN Text /\ IsSeq(Text[v])

\* The letters of text from pos + 1 on begin with part.
At(text, part, pos) ==
  pos + Len(part) <= Len(text) /\ SubSeq(text, pos + 1, pos + Len(part)) = part

\* hay.find(needle, pos), plus the length of needle; -1 is npos.
Behind(text, part, pos) ==
  LET places == {p \in pos..Len(text) : At(text, part, p)}
  IN  IF pos < 0 \/ places = {} THEN -1 ELSE Min(places) + Len(part)

\* substringMatches: the initial part, then each part at its first place
\* behind the one before, then the final part behind them all.
substringMatches(text, node) ==
  LET pos[i \in 0..Len(node.any)] ==
        IF i = 0 THEN IF At(text, node.initial, 0) THEN Len(node.initial) ELSE -1
                 ELSE Behind(text, node.any[i], pos[i - 1])
      last == pos[Len(node.any)]
  IN  /\ last # -1
      /\ Len(text) >= last + Len(node.final)
      /\ At(text, node.final, Len(text) - Len(node.final))

\* nodeMatches
nodeMatches(attrs) ==
  LET values(node) == IF node.attribute \in DOMAIN attrs THEN ToSet(attrs[node.attribute])
                                                         ELSE {}
      m[n \in DOMAIN Nodes] ==
        LET node == Nodes[n]
            kids == node.children
        IN  CASE node.type = "And"       -> \A i \in DOMAIN kids : m[kids[i]]
              [] node.type = "Or"        -> \E i \in DOMAIN kids : m[kids[i]]
              [] node.type = "Not"       -> Len(kids) = 1 /\ ~m[kids[1]]
              [] node.type = "Present"   -> node.attribute \in DOMAIN attrs
              [] node.type = "Equality"  -> node.value \in values(node)
              [] node.type = "Substring" -> \E v \in values(node) :
                                              substringMatches(Text[v], node)
  IN  m

-----------------------------------------------------------------------------
(* What a filter means (RFC 4511, section 4.5.1.7), said without the       *)
(* algorithm: a value fits a substring filter if its text can be cut so    *)
(* that the parts of the filter appear in order.                           *)

FitsSubstrings(text, node) ==
  LET parts == node.any
  IN  \E cut \in [1..Len(parts) -> 0..Len(text)] :
        LET begin(i) == IF i = Len(parts) + 1 THEN Len(text) - Len(node.final) ELSE cut[i]
            end(i)   == IF i = 0 THEN Len(node.initial) ELSE cut[i] + Len(parts[i])
        IN  /\ At(text, node.initial, 0)
            /\ begin(Len(parts) + 1) >= 0
            /\ At(text, node.final, begin(Len(parts) + 1))
            /\ \A i \in 1..Len(parts) : At(text, parts[i], cut[i])
            /\ \A i \in 1..(Len(parts) + 1) : end(i - 1) <= begin(i)

\* The positions in the table of the filters that the entry satisfies: the
\* set that agrees with itself on every node.
Satisfied(attrs) ==
  CHOOSE S \in SUBSET DOMAIN Nodes :
    \A n \in DOMAIN Nodes :
      LET node == Nodes[n]
          has  == node.attribute \in DOMAIN attrs
          kids == ToSet(node.children)
      IN  n \in S <=>
            CASE node.type = "And"       -> kids \subseteq S
              [] node.type = "Or"        -> kids \cap S # {}
              [] node.type = "Not"       -> kids \cap S = {}
              [] node.type = "Present"   -> has
              [] node.type = "Equality"  -> has /\ Contains(attrs[node.attribute], node.value)
              [] node.type = "Substring" -> has /\ \E i \in DOMAIN attrs[node.attribute] :
                                                     FitsSubstrings(Text[attrs[node.attribute][i]], node)
=============================================================================
