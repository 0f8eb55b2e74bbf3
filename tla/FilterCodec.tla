----------------------------- MODULE FilterCodec -----------------------------
(***************************************************************************)
(* protocol/filter.cpp: search filters as text and on the wire.  What a    *)
(* filter matches is the subject of Filter.                                *)
(*                                                                         *)
(* A parser that fails gives {}; one that succeeds gives the set of its    *)
(* one result, with the text it has not read.                              *)
(***************************************************************************)
EXTENDS Ber, FiniteSets

\* The characters with a meaning.
Char == [open |-> 40, close |-> 41, star |-> 42, equals |-> 61, escape |-> 92,
         and |-> 38, or |-> 124, not |-> 33]
Spaces == (9..13) \cup {32}  \* isspace

FilterTag == [And |-> 160, Or |-> 161, Not |-> 162, Equality |-> 163, Substrings |-> 164,
              Present |-> 135, Initial |-> 128, Any |-> 129, Final |-> 130]

\* FilterNode
Node(type) == [type |-> type, attribute |-> << >>, value |-> << >>,
               initial |-> << >>, any |-> << >>, final |-> << >>, children |-> << >>]
ObjectClass == <<111, 98, 106, 101, 99, 116, 67, 108, 97, 115, 115>>
present(attribute) == [Node("Present") EXCEPT !.attribute = attribute]
equality(attribute, value) ==
  [Node("Equality") EXCEPT !.attribute = attribute, !.value = value]

-----------------------------------------------------------------------------
\* How many characters at the start of text are not in stop, and the two parts.
Span[text \in Seq(Octets), stop \in SUBSET Octets] ==
  CHOOSE n \in 0..Len(text) : /\ \A i \in 1..n : text[i] \notin stop
                              /\ n = Len(text) \/ text[n + 1] \in stop
Take(text, n) == SubSeq(text, 1, n)
Drop(text, n) == SubSeq(text, n + 1, Len(text))
Starts(text, c) == text # << >> /\ text[1] = c

skipSpace[text \in Seq(Octets)] == Drop(text, Span[text, Octets \ Spaces])
trimRight(text) == Reverse(skipSpace[Reverse(text)])

\* The parts between the '*' that no '\' escapes; the '\' stays in its part.
parts[value \in Seq(Octets)] ==
  LET Escapes(n, i) == \A j \in (i - n)..(i - 1) : value[j] = Char.escape
      before(i) == CHOOSE n \in 0..(i - 1) : Escapes(n, i) /\ (n = i - 1 \/ ~Escapes(n + 1, i))
      stars == {i \in DOMAIN value : value[i] = Char.star /\ before(i) % 2 = 0}
      cuts  == <<0>> \o SetToSortSeq(stars, <) \o <<Len(value) + 1>>
  IN  [k \in 1..(Len(cuts) - 1) |-> SubSeq(value, cuts[k] + 1, cuts[k + 1] - 1)]

\* attribute=value up to the next ')'.
parseItem[text \in Seq(Octets)] ==
  LET n     == Span[text, {Char.equals, Char.close, Char.open}]
      name  == trimRight(Take(text, n))
      after == Drop(text, n + 1)
      m     == Span[after, {Char.close}]
      value == Take(after, m)
      node(ps) ==
        IF value = <<Char.star>> THEN present(name)
        ELSE IF Len(ps) = 1 THEN equality(name, value)
        ELSE [Node("Substring") EXCEPT
                !.attribute = name, !.initial = Head(ps), !.final = Last(ps),
                !.any = SelectSeq(SubSeq(ps, 2, Len(ps) - 1), LAMBDA p : p # << >>)]
  IN  IF Starts(Drop(text, n), Char.equals) /\ name # << >>
      THEN {[node |-> node(parts[value]), rest |-> Drop(after, m)]} ELSE {}

\* parseFilter; list is parseList, which takes filters without space between
\* them, at least one.
parseFilter[text \in Seq(Octets)] ==
  LET opened == skipSpace[text]
      body   == skipSpace[Tail(opened)]
      list[t \in Seq(Octets)] ==
        IF ~Starts(t, Char.open) THEN {[children |-> << >>, rest |-> t]}
        ELSE UNION {{[children |-> <<p.node>> \o q.children, rest |-> q.rest] :
                       q \in list[p.rest]} : p \in parseFilter[t]}
      of(op, children) == [Node(op) EXCEPT !.children = children]
      several(op) == {[node |-> of(op, q.children), rest |-> q.rest] :
                        q \in {p \in list[Tail(body)] : p.children # << >>}}
      found  == CASE Starts(body, Char.and) -> several("And")
                  [] Starts(body, Char.or)  -> several("Or")
                  [] Starts(body, Char.not) ->
                       {[node |-> of("Not", <<p.node>>), rest |-> p.rest] :
                          p \in parseFilter[Tail(body)]}
                  [] OTHER -> parseItem[body]
  IN  IF ~Starts(opened, Char.open) \/ body = << >> THEN {}
      ELSE {[node |-> p.node, rest |-> Tail(skipSpace[p.rest])] :
              p \in {q \in found : Starts(skipSpace[q.rest], Char.close)}}

\* SearchFilter::parse: the whole text is one filter.
parse(text) == {p.node : p \in {q \in parseFilter[text] : skipSpace[q.rest] = << >>}}

-----------------------------------------------------------------------------
encodeSubstrings(node) ==
     writeOctetString(node.attribute)
  \o write(Tag.Sequence,
          (IF node.initial = << >> THEN << >> ELSE write(FilterTag.Initial, node.initial))
       \o writeEach(node.any, LAMBDA p : write(FilterTag.Any, p))
       \o (IF node.final = << >> THEN << >> ELSE write(FilterTag.Final, node.final)))

\* True and False have no form on the wire of their own.  The nodes of a filter
\* are reached by their paths: which child, of which child, ...
encodeNode(filter) ==
  LET node(path) == FoldLeft(LAMBDA n, i : n.children[i], filter, path)
      encode(n, kids) ==
        CASE n.type \in {"And", "Or", "Not"} -> write(FilterTag[n.type], kids)
          [] n.type = "Present"   -> write(FilterTag.Present, n.attribute)
          [] n.type = "Equality"  ->
               write(FilterTag.Equality, writeOctetString(n.attribute) \o writeOctetString(n.value))
          [] n.type = "Substring" -> write(FilterTag.Substrings, encodeSubstrings(n))
          [] n.type = "True"      -> write(FilterTag.Present, ObjectClass)
          [] n.type = "False"     -> write(FilterTag.Not, write(FilterTag.Present, ObjectClass))
      from[path \in Seq(Nat)] ==
        encode(node(path),
               FlattenSeq([i \in DOMAIN node(path).children |-> from[Append(path, i)]]))
  IN  from[<< >>]

\* The last part of this tag, empty if there is none.
LastPart(r, tag) ==
  LET of == {i \in DOMAIN r.items : r.items[i].tag = tag}
  IN  IF of = {} THEN << >> ELSE r.items[Max(of)].content

decodeSubstrings(r) ==
  LET ps == inner(r, 2)
  IN  IF ReadsAll(r, <<Tag.OctetString, Tag.Sequence>>) /\ ps.rest = << >>
      THEN {[Node("Substring") EXCEPT
               !.attribute = octets(r, 1),
               !.initial = LastPart(ps, FilterTag.Initial), !.final = LastPart(ps, FilterTag.Final),
               !.any = Contents([items |-> SelectSeq(ps.items, LAMBDA e : e.tag = FilterTag.Any)])]}
      ELSE {}

\* The filter that element e encodes.
decodeNode[e \in TagAndContent] ==
  LET r    == Elements[e.content]
      kids == [i \in DOMAIN r.items |-> decodeNode[r.items[i]]]
      of(n) == [i \in 1..n |-> CHOOSE c \in kids[i] : TRUE]
  IN  CASE e.tag \in {FilterTag.And, FilterTag.Or} ->
             IF r.rest = << >> /\ \A i \in DOMAIN kids : kids[i] # {}
             THEN {[Node(IF e.tag = FilterTag.And THEN "And" ELSE "Or") EXCEPT
                      !.children = of(Len(kids))]}
             ELSE {}
        [] e.tag = FilterTag.Not ->
             IF kids # << >> /\ kids[1] # {}
             THEN {[Node("Not") EXCEPT !.children = of(1)]} ELSE {}
        [] e.tag = FilterTag.Present -> {present(e.content)}
        [] e.tag = FilterTag.Equality ->
             IF ReadsAll(r, <<Tag.OctetString, Tag.OctetString>>)
             THEN {equality(octets(r, 1), octets(r, 2))} ELSE {}
        [] e.tag = FilterTag.Substrings -> decodeSubstrings(r)
        [] OTHER -> {}
=============================================================================
