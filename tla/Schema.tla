------------------------------- MODULE Schema -------------------------------
(***************************************************************************)
(* schema/registry.cpp: loading of the definitions in schema_dir, and the  *)
(* validation of entries by them.  Names are in lower case.                *)
(*                                                                         *)
(* A definition is [keyword, clauses], where a clause is [key, arg] and    *)
(* arg the list after the key, empty for a flag.  A clause that is not     *)
(* well formed has a key that is none.                                     *)
(***************************************************************************)
EXTENDS Naturals, Sequences, FiniteSets, FiniteSetsExt, SequencesExt

CONSTANTS
  SchemaFiles,     \* what each *.schema file holds, in the order of their names
  Legal            \* the values that fit each syntax; "" is no syntax

\* The argument of the last clause with this key, and whether there is one.
Given(clauses, key) == \E i \in DOMAIN clauses : clauses[i].key = key
ArgOf(clauses, key) ==
  IF Given(clauses, key) THEN Last(SelectSeq(clauses, LAMBDA c : c.key = key)).arg ELSE << >>
WordOf(clauses, key) == IF ArgOf(clauses, key) = << >> THEN "" ELSE Head(ArgOf(clauses, key))

AttributeKeys == {"name", "desc", "sup", "equality", "ordering", "substr", "usage", "syntax",
                  "single-value", "collective", "no-user-modification", "obsolete"}
Kinds == {"abstract", "structural", "auxiliary"}
ObjectClassKeys == {"name", "desc", "sup", "must", "may", "obsolete"} \cup Kinds

parseAttribute(clauses) ==
  [names |-> ArgOf(clauses, "name"), superior |-> WordOf(clauses, "sup"),
   syntax |-> WordOf(clauses, "syntax"), single |-> Given(clauses, "single-value")]

parseObjectClass(clauses) ==
  LET kinds == SelectSeq(clauses, LAMBDA c : c.key \in Kinds)
  IN  [names |-> ArgOf(clauses, "name"), superiors |-> ToSet(ArgOf(clauses, "sup")),
       kind |-> IF kinds = << >> THEN "structural" ELSE Last(kinds).key,
       must |-> ToSet(ArgOf(clauses, "must")), may |-> ToSet(ArgOf(clauses, "may"))]

\* A definition of another kind is skipped, whatever it says.
Parses(def) ==
  LET keys == CASE def.keyword = "attributetype" -> AttributeKeys
                [] def.keyword = "objectclass"   -> ObjectClassKeys
                [] OTHER -> {def.clauses[i].key : i \in DOMAIN def.clauses}
  IN  /\ \A i \in DOMAIN def.clauses : def.clauses[i].key \in keys
      /\ def.keyword \in {"attributetype", "objectclass"} => ArgOf(def.clauses, "name") # << >>

\* loadFile keeps what comes before the first definition that it cannot parse,
\* and loadDirectory goes on with the next file.
loadFile(file) ==
  SubSeq(file, 1, Max({n \in 0..Len(file) : \A i \in 1..n : Parses(file[i])}))
loadDirectory == FlattenSeq([i \in DOMAIN SchemaFiles |-> loadFile(SchemaFiles[i])])

OfKeyword(keyword, Parse(_)) ==
  LET defs == SelectSeq(loadDirectory, LAMBDA d : d.keyword = keyword)
  IN  [i \in DOMAIN defs |-> Parse(defs[i].clauses)]
Attributes == OfKeyword("attributetype", parseAttribute)        \* attributes_
ObjectClasses == OfKeyword("objectclass", parseObjectClass)     \* object_classes_

\* The index maps a name to the last definition that has it.
Defining(defs, n) == {i \in DOMAIN defs : Contains(defs[i].names, n)}
Named(defs) == UNION {ToSet(defs[i].names) : i \in DOMAIN defs}
Index(defs) == [n \in Named(defs) |-> defs[Max(Defining(defs, n))]]

attribute_index == Index(Attributes)
object_class_index == Index(ObjectClasses)

\* attributeSyntax: up the SUP chain until a definition has a syntax.  Chains
\* may be cyclic or lead nowhere; after 32 steps the walk gives up.
MaxDepth == 32
NoAttribute == [names |-> << >>, superior |-> "", syntax |-> "", single |-> FALSE]

superiorOf(a) ==
  IF a.superior \in DOMAIN attribute_index THEN attribute_index[a.superior] ELSE NoAttribute

walkUp(a) == IF a.syntax = "" /\ a.superior # "" THEN superiorOf(a) ELSE a

attributeSyntax ==
  [n \in DOMAIN attribute_index |->
     LET walk[k \in 0..MaxDepth] ==
           IF k = 0 THEN attribute_index[n] ELSE walkUp(walk[k - 1])
     IN  walk[MaxDepth].syntax]

\* valueMatchesSyntax
valueMatchesSyntax(syntax, v) == syntax = "" \/ v \in Legal[syntax]

\* valuesNamed and hasNonEmpty
hasNonEmpty(attrs, t) == t \in DOMAIN attrs /\ \E i \in DOMAIN attrs[t] : attrs[t][i] # ""

\* collectObjectClasses: the worklist visits every name that can be reached
\* by SUP, each once.  A name without a definition ends it with an error.
superiorsOf(n) ==
  IF n \in DOMAIN object_class_index THEN object_class_index[n].superiors ELSE {}
visit(names) == names \cup UNION {superiorsOf(n) : n \in names}

collectObjectClasses(names) ==
  LET rounds == Cardinality(DOMAIN object_class_index)
      reach[k \in 0..rounds] == IF k = 0 THEN names ELSE visit(reach[k - 1])
  IN  reach[rounds]

Kind(n) == object_class_index[n].kind
Primary(n) == Head(object_class_index[n].names)

\* The structural classes of an entry that are not a direct superior of another.
leaves(classes) ==
  LET structural == {n \in classes : Kind(n) = "structural"}
  IN  {Primary(n) : n \in structural}
        \ {Primary(p) : p \in UNION {{q \in object_class_index[n].superiors :
                                         Kind(q) = "structural"} : n \in structural}}

\* One attribute of the entry.
validateAttribute(attrs, t, allowed) ==
  IF t \notin DOMAIN attribute_index                     THEN "UndefinedAttributeType"
  ELSE IF t \notin allowed                               THEN "ObjectClassViolation"
  ELSE IF attribute_index[t].single /\ Len(attrs[t]) > 1 THEN "ConstraintViolation"
  ELSE IF \E i \in DOMAIN attrs[t] :
            ~valueMatchesSyntax(attributeSyntax[t], attrs[t][i]) THEN "InvalidAttributeSyntax"
  ELSE "Success"

\* validateEntry.  Of several faulty attributes the first in the order of the
\* map is reported; here it is one of them.
validateEntry(attrs) ==
  LET classes  == collectObjectClasses(ToSet(attrs["objectClass"]))
      required == UNION {object_class_index[n].must : n \in classes}
      allowed  == required \cup UNION {object_class_index[n].may : n \in classes}
      results  == {validateAttribute(attrs, t, allowed) : t \in DOMAIN attrs \ {"objectClass"}}
  IN  IF ObjectClasses = << >>                                   THEN "Success"
      ELSE IF "objectClass" \notin DOMAIN attrs \/ attrs["objectClass"] = << >>
                                                                 THEN "ObjectClassViolation"
      ELSE IF ~(classes \subseteq DOMAIN object_class_index)     THEN "ObjectClassViolation"
      ELSE IF Cardinality(leaves(classes)) # 1                   THEN "ObjectClassViolation"
      ELSE IF \E t \in required : ~hasNonEmpty(attrs, t)         THEN "ObjectClassViolation"
      ELSE IF results \subseteq {"Success"}                      THEN "Success"
      ELSE CHOOSE rc \in results : rc # "Success"

-----------------------------------------------------------------------------
(* What a valid entry is, said without the algorithm (RFC 4512).           *)

ClassNames == DOMAIN object_class_index
UpwardClosed(S) == \A n \in S : object_class_index[n].superiors \subseteq S

\* The superclasses of a class, itself included: in every closed set that
\* has the class.
Superclasses ==
  [c \in ClassNames |->
     {d \in ClassNames : \A S \in SUBSET ClassNames : c \in S /\ UpwardClosed(S) => d \in S}]

\* The syntax of a type is that of the nearest superior that has one, at most
\* two steps up.
Inherits(t, u) == \E path \in SeqOf(DOMAIN attribute_index, 3) :
  /\ path # << >> /\ Head(path) = t /\ Last(path) = u
  /\ \A i \in 1..(Len(path) - 1) : /\ attribute_index[path[i]].superior = path[i + 1]
                                   /\ attribute_index[path[i]].syntax = ""
SyntaxesOf == [t \in DOMAIN attribute_index |->
                 {attribute_index[u].syntax :
                    u \in {v \in DOMAIN attribute_index :
                             Inherits(t, v) /\ attribute_index[v].syntax # ""}}]

EntryConforms(attrs) ==
  LET own == ToSet(attrs["objectClass"])
      all == UNION {Superclasses[c] : c \in own}
      structural == {c \in all : Kind(c) = "structural"}
  IN  /\ "objectClass" \in DOMAIN attrs /\ own # {} /\ own \subseteq ClassNames
      \* one structural class, of which all the others are superclasses
      /\ \E c \in structural : structural = {d \in Superclasses[c] : Kind(d) = "structural"}
      /\ \A c \in all : \A t \in object_class_index[c].must :
           t \in DOMAIN attrs /\ attrs[t] # << >>
      /\ \A t \in DOMAIN attrs \ {"objectClass"} :
           /\ t \in DOMAIN attribute_index
           /\ \E c \in all : t \in object_class_index[c].must \cup object_class_index[c].may
           /\ attribute_index[t].single => ~(Len(attrs[t]) > 1)
           /\ \A i \in DOMAIN attrs[t], x \in SyntaxesOf[t] : attrs[t][i] \in Legal[x]
=============================================================================
