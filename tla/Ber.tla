--------------------------------- MODULE Ber ---------------------------------
(***************************************************************************)
(* protocol/ber.cpp: the writer and the reader of BER elements.            *)
(*                                                                         *)
(* A string is its sequence of octets.  The writer's buffer is the         *)
(* sequence it has written, so two writes after each other are \o.  A      *)
(* reader over a sequence is what it can read of it: the elements that are *)
(* complete, and the rest from the first one that is not.                  *)
(***************************************************************************)
EXTENDS Integers, Sequences, SequencesExt

CONSTANTS
  Wide,     \* octets of an int64_t: 8 in the code
  Narrow    \* octets of an int: 4 in the code

ASSUME WidthAssumption == Wide \in 1..127 /\ Narrow \in 1..Wide  \* a length in one octet

Octets == 0..255

\* The universal tags, and the context tags shared by several messages.
Tag == [Boolean |-> 1, Integer |-> 2, OctetString |-> 4, Enumerated |-> 10,
        Sequence |-> 48, Set |-> 49,
        SimpleAuth |-> 128, Context1 |-> 129, Context2 |-> 130]

-----------------------------------------------------------------------------
\* How many values k octets have, and n after k shifts by an octet.
Radix[k \in 0..Wide] == IF k = 0 THEN 1 ELSE 256 * Radix[k - 1]
shifted(n) == LET s[k \in 0..Wide] == IF k = 0 THEN n ELSE s[k - 1] \div 256 IN s

\* The last w octets of n, most significant first, and the number that octets
\* stand for.
BigEndian(n, w) == LET s == shifted(n) IN [i \in 1..w |-> s[w - i] % 256]
Number(s) ==
  LET upto[i \in 0..Len(s)] == IF i = 0 THEN 0 ELSE 256 * upto[i - 1] + s[i] IN upto[Len(s)]

\* static_cast<int> of a wider number.
toInt(n) ==
  LET bits == n % Radix[Narrow]
  IN  IF 2 * bits >= Radix[Narrow] THEN bits - Radix[Narrow] ELSE bits

\* BerWriter::encodeLength: one octet below 128, else their number and the octets.
encodeLength(n) ==
  IF n < 128 THEN <<n>>
  ELSE LET k == CHOOSE k \in 1..Wide : shifted(n)[k] = 0 /\ \A j \in 1..(k - 1) : shifted(n)[j] > 0
       IN  <<128 + k>> \o BigEndian(n, k)

\* BerWriter::encodeInteger: two's complement without leading octets that only
\* repeat the sign.
encodeInteger(v) ==
  LET raw     == BigEndian(v % Radix[Wide], Wide)
      Repeats(i) == \/ raw[i] = 0 /\ raw[i + 1] < 128
                    \/ raw[i] = 255 /\ raw[i + 1] >= 128
      start   == CHOOSE i \in 1..Wide : /\ \A j \in 1..(i - 1) : Repeats(j)
                                        /\ i = Wide \/ ~Repeats(i)
  IN  SubSeq(raw, start, Wide)

\* writeTagLength and the content: writeOctetString, writeConstructed, writeNull.
TagAndContent == [tag : Octets, content : Seq(Octets)]
writeElement[e \in TagAndContent] == <<e.tag>> \o encodeLength(Len(e.content)) \o e.content
write(tag, content) == writeElement[[tag |-> tag, content |-> content]]

writeInteger(v)     == write(Tag.Integer, encodeInteger(v))
writeEnumerated(v)  == write(Tag.Enumerated, encodeInteger(v))
writeBoolean(b)     == write(Tag.Boolean, <<IF b THEN 255 ELSE 0>>)
writeOctetString(s) == write(Tag.OctetString, s)

\* One element for each member of s, after each other.
writeEach(s, Encode(_)) == FlattenSeq([i \in DOMAIN s |-> Encode(s[i])])

-----------------------------------------------------------------------------
\* BerReader::readTagLength: the tag, how long the header is and the content.
NoHeader == [ok |-> FALSE, tag |-> 0, size |-> 0, length |-> 0]
Header(s, count) ==
  IF count < 0 THEN [ok |-> TRUE, tag |-> s[1], size |-> 2, length |-> s[2]]
  ELSE IF count \notin 1..4 \/ Len(s) < 2 + count THEN NoHeader
  ELSE [ok |-> TRUE, tag |-> s[1], size |-> 2 + count, length |-> Number(SubSeq(s, 3, 2 + count))]
readTagLength(s) == IF Len(s) < 2 THEN NoHeader ELSE Header(s, s[2] - 128)

\* A reader over s, whose first element has the header h.
Complete(s, h) == h.ok /\ Len(s) >= h.size + h.length
First(s, h) == [tag |-> h.tag, content |-> SubSeq(s, h.size + 1, h.size + h.length)]
Others(s, h) == SubSeq(s, h.size + h.length + 1, Len(s))

Read[s \in Seq(Octets)] ==
  LET cons(h) == IF Complete(s, h) THEN <<First(s, h)>> \o Read[Others(s, h)] ELSE <<s>>
  IN  cons(readTagLength(s))
Elements[s \in Seq(Octets)] ==
  LET split(all) == [items |-> Front(all), rest |-> Last(all)] IN split(Read[s])

\* Reading element i with this tag succeeds; integers have at most Wide octets
\* and a boolean has one.
Reads(r, i, tag) ==
  /\ i <= Len(r.items) /\ r.items[i].tag = tag
  /\ tag \in {Tag.Integer, Tag.Enumerated} => Len(r.items[i].content) \in 1..Wide
  /\ tag = Tag.Boolean => Len(r.items[i].content) = 1
ReadsAll(r, tags) == \A i \in DOMAIN tags : Reads(r, i, tags[i])

\* BerReader::atEnd and peekTag after n elements.
atEnd(r, n) == Len(r.items) <= n /\ r.rest = << >>
peekTag(r, n) ==
  IF n < Len(r.items) THEN r.items[n + 1].tag ELSE IF r.rest # << >> THEN r.rest[1] ELSE 0

\* A loop to the end that reads elements of this tag only.
ReadsToEnd(r, tag) == r.rest = << >> /\ \A i \in DOMAIN r.items : Reads(r, i, tag)
Contents(r) == [i \in DOMAIN r.items |-> r.items[i].content]

\* readOctetString of an element, readConstructed, readBoolean.
octets(r, i)  == r.items[i].content
inner(r, i)   == Elements[octets(r, i)]
boolean(r, i) == octets(r, i) # <<0>>

\* readInteger extends the sign; readEnumerated does not.
readInteger(r, i) ==
  LET n == Number(octets(r, i))
  IN  IF octets(r, i)[1] >= 128 THEN n - Radix[Len(octets(r, i))] ELSE n
readEnumerated(r, i) == toInt(Number(octets(r, i)))
=============================================================================
