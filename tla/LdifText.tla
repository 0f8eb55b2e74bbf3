------------------------------ MODULE LdifText -------------------------------
(***************************************************************************)
(* protocol/ldif.cpp: LDIF content and change records, as the tools read   *)
(* them.                                                                   *)
(*                                                                         *)
(* A file is a sequence of lines [kind, name, value]: "blank", "dash" (a   *)
(* lone '-'), "other" (a comment, a version line, a line without a colon), *)
(* or "pair", with the name before the first colon and the value after it, *)
(* both trimmed.  Names that iequals cannot tell apart are equal here.     *)
(***************************************************************************)
EXTENDS Message

\* The words of change records.
Word == [dn |-> <<100, 110>>, changetype |-> <<99, 104, 97>>, newrdn |-> <<110, 114>>,
         deleteoldrdn |-> <<100, 111>>, newsuperior |-> <<110, 115>>,
         add |-> <<97, 100, 100>>, modify |-> <<109, 111, 100>>, delete |-> <<100, 101, 108>>,
         modrdn |-> <<109, 114>>, replace |-> <<114, 101, 112>>, yes |-> <<49>>, no |-> <<48>>]
ModifyOp == [add |-> 0, delete |-> 1, replace |-> 2]

NoChange == [op |-> ModifyOp.replace, type |-> << >>, values |-> << >>]
\* LdifRecord; entry.attributes is a function from names to values.
NoRecord == [dn |-> << >>, changetype |-> "Content", attributes |-> << >>, changes |-> << >>,
             newRdn |-> << >>, deleteOldRdn |-> TRUE, newSuperior |-> << >>]

-----------------------------------------------------------------------------
\* A type that is not known reads as content.
parseChangeType(value) ==
  CASE value = Word.add    -> "Add"    [] value = Word.modify -> "Modify"
    [] value = Word.delete -> "Delete" [] value = Word.modrdn -> "Modrdn"
    [] OTHER -> "Content"

parseModifyOp(name) ==
  CASE name = Word.add -> ModifyOp.add [] name = Word.delete -> ModifyOp.delete
    [] OTHER -> ModifyOp.replace

\* Mutant: the change stays current, and its values are added to the next one.
flushChange_keeps(st) ==
  IF st.haveChange
  THEN [st EXCEPT !.current.changes = Append(@, st.change), !.haveChange = FALSE]
  ELSE st

flushChange(st) ==
  IF st.haveChange
  THEN [st EXCEPT !.current.changes = Append(@, st.change), !.change = NoChange,
                  !.haveChange = FALSE]
  ELSE st

\* The end of a record; one without a name is not a record and goes on.
flush(st) ==
  LET f == flushChange(st)
  IN  IF f.current.dn = << >> THEN f
      ELSE [f EXCEPT !.records = Append(@, f.current), !.current = NoRecord]

\* A value of the entry, and of the change if it is one of its type.
addValue(st, name, value) ==
  LET old == IF name \in DOMAIN st.current.attributes THEN st.current.attributes[name] ELSE << >>
  IN  [st EXCEPT !.current.attributes = (name :> Append(old, value)) @@ @,
                 !.change.values = IF st.haveChange /\ st.change.type = name
                                   THEN Append(@, value) ELSE @]

readPair(st, name, value) ==
  CASE name = Word.dn           -> [flush(st) EXCEPT !.current.dn = value]
    [] name = Word.changetype   -> [st EXCEPT !.current.changetype = parseChangeType(value)]
    [] name = Word.newrdn       -> [st EXCEPT !.current.newRdn = value]
    [] name = Word.deleteoldrdn -> [st EXCEPT !.current.deleteOldRdn = (value = Word.yes)]
    [] name = Word.newsuperior  -> [st EXCEPT !.current.newSuperior = value]
    [] name \in {Word.add, Word.delete, Word.replace} ->
         [flushChange(st) EXCEPT !.change.op = parseModifyOp(name), !.change.type = value,
                                 !.haveChange = TRUE]
    [] OTHER -> addValue(st, name, value)

readLine(st, line) ==
  CASE line.kind = "blank" -> flush(st)
    [] line.kind = "dash"  -> flushChange(st)
    [] line.kind = "other" -> st
    [] line.kind = "pair"  -> readPair(st, line.name, line.value)

\* The state after a loop over s.  The sets hold one state each.
After(step(_, _), init, s) ==
  LET st[i \in 0..Len(s)] == IF i = 0 THEN {init} ELSE {step(x, s[i]) : x \in st[i - 1]}
  IN  CHOOSE x \in st[Len(s)] : TRUE

parseLdifText(lines) ==
  flush(After(readLine, [records |-> << >>, current |-> NoRecord, change |-> NoChange,
                         haveChange |-> FALSE], lines)).records

-----------------------------------------------------------------------------
\* std::map iterates over the names in this order.
Precedes(a, b) ==
  \/ Len(a) < Len(b) /\ Take(b, Len(a)) = a
  \/ \E n \in 1..Len(a) : /\ n <= Len(b) /\ Take(a, n - 1) = Take(b, n - 1)
                          /\ a[n] < b[n]
Ordered(attributes) == SetToSortSeq(DOMAIN attributes, Precedes)

toAddRequest(record) ==
  LET names == Ordered(record.attributes)
  IN  [dn |-> record.dn,
       attributes |-> [i \in DOMAIN names |->
                         [type |-> names[i], values |-> record.attributes[names[i]]]]]

-----------------------------------------------------------------------------
(***************************************************************************)
(* The reference: how a user writes down a request.  style.type says       *)
(* whether the record names its changetype (if not, it is content),        *)
(* style.blank whether an empty line separates the records, style.dash     *)
(* whether a '-' ends a change, and style.notes adds lines without effect. *)
(***************************************************************************)
Pair(name, value) == [kind |-> "pair", name |-> name, value |-> value]
Line(kind) == [kind |-> kind, name |-> << >>, value |-> << >>]
Values(a) == [i \in DOMAIN a.values |-> Pair(a.type, a.values[i])]

Lines(req, style) ==
  LET d == req.data
      typed(word) == IF style.type THEN <<Pair(Word.changetype, word)>> ELSE << >>
      dash == IF style.dash THEN <<Line("dash")>> ELSE << >>
      opWord(op) == CHOOSE w \in {"add", "delete", "replace"} : ModifyOp[w] = op
      name == IF req.op = "DelRequest" THEN d ELSE d.dn
  IN     (IF style.notes THEN <<Line("other")>> ELSE << >>)
      \o <<Pair(Word.dn, name)>>
      \o (CASE req.op = "AddRequest" -> typed(Word.add) \o writeEach(d.attributes, Values)
           [] req.op = "DelRequest" -> typed(Word.delete)
           [] req.op = "ModifyDNRequest" ->
                   typed(Word.modrdn) \o <<Pair(Word.newrdn, d.newRdn)>>
                \o <<Pair(Word.deleteoldrdn, IF d.deleteOldRdn THEN Word.yes ELSE Word.no)>>
                \o (IF d.newSuperior = << >> THEN << >>
                    ELSE <<Pair(Word.newsuperior, d.newSuperior)>>)
           [] req.op = "ModifyRequest" ->
                IF style.type
                THEN typed(Word.modify) \o writeEach(d.changes, LAMBDA c :
                       <<Pair(Word[opWord(c.op)], c.type)>> \o Values(c) \o dash)
                ELSE writeEach(d.changes, Values))
      \o (IF style.blank THEN <<Line("blank")>> ELSE << >>)

File(reqs, style) == writeEach(reqs, LAMBDA r : Lines(r, style))
=============================================================================
