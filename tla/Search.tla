------------------------------- MODULE Search -------------------------------
(***************************************************************************)
(* Search and Compare of core/session.cpp, and the client that pages       *)
(* through a result (main/ldapsearch.cpp), while other sessions change     *)
(* the directory.                                                          *)
(*                                                                         *)
(* A search looks its base up, asks for access to it, takes one snapshot   *)
(* of the matching entries, asks for access to each of them, and sends a   *)
(* page of the visible ones.  Nothing is kept between pages: the cookie is *)
(* an offset into whatever the next request finds.  An access check reads  *)
(* a group and then the user, in two lookups (security/acl.cpp).           *)
(*                                                                         *)
(* A request is [op, dn, ...]:                                             *)
(*   search: base dn, scope, filter (0 if invalid), attributes, typesOnly, *)
(*           sizeLimit, timeLimit, controls, cookie (of the first page);   *)
(*   compare: dn, attribute, value.                                        *)
(* A control is [kind, critical, size]; the empty cookie is 0, which is    *)
(* never the offset of a next page.                                        *)
(***************************************************************************)
EXTENDS Integers, AccessControl, Passwords, Filter

CONSTANTS
  Trees,        \* the trees that other sessions may leave behind
  MapOrder,     \* all names in the order of the backend's map
  RootDn,
  AclLines,     \* config acl
  Requests,
  Identities,   \* bind_dn_ of the session; RootDse is anonymous
  Dse,          \* the attributes that rootDse() returns
  MaxChanges    \* bound: changes by other sessions during one search

ASSUME ConfigValid == WellFormed(AclLines)

Rules == acls(AclLines)

ASSUME RulesAssumption == IsSeq(Rules)
ASSUME TreesAssumption ==
  /\ IsSeq(MapOrder)
  /\ \A t \in Trees : /\ DOMAIN t \subseteq ToSet(MapOrder)
                      /\ \A d \in DOMAIN t : Legible(t[d])
  /\ Legible(Dse)

NoCheck == [dn |-> RootDse, rule |-> 0, group |-> << >>]
BadCookie == -1
\* The largest int: an offset is an int, and the cast of a cookie above it, which
\* gives another number, is left out.
IntMax == 2147483647
NoRequest == [op |-> "none"]

ASSUME RequestsAssumption ==
  /\ \A r \in Requests :
       /\ r.op \in {"search", "compare"}
       /\ r.op = "search" =>
            /\ r.filter \in {0} \cup DOMAIN Nodes
            /\ r.cookie = BadCookie \/ (r.cookie \in Nat /\ r.cookie <= IntMax)
            /\ r.sizeLimit \in Int /\ r.timeLimit \in Int
            /\ IsSeq(r.controls) /\ \A c \in ToSet(r.controls) : c.size \in Int
  /\ MaxChanges \in Nat

VARIABLES
  tree,       \* the backend
  who,        \* bind_dn_
  req,        \* the request in hand
  pc,         \* where its handler or the client is
  cookie,     \* the cookie of the page asked for; after the answer, of the next
  check,      \* the access check: the name, the rule, the group entry read
  matches,    \* entries found that are still to be checked
  visible,    \* those found readable
  sent,       \* the entries of this page, as sent
  result,     \* the result code
  received,   \* all entries of the search that the client has printed
  seen,       \* history: the trees there were since the page was asked for
  changes     \* history: how often the tree changed since the search began

local == <<who, req, cookie>>
work == <<check, matches, visible>>
vars == <<tree, who, req, pc, cookie, check, matches, visible, sent, result,
          received, seen, changes>>

-----------------------------------------------------------------------------
(* What a request asks for.                                                *)

Entry(dn, attrs) == [dn |-> dn, attrs |-> attrs]

\* What a loop over q that copies the members of S has after each turn, and
\* what it has at its end.
kept(q, S) ==
  LET k[n \in 0..Len(q)] == IF n = 0          THEN << >>
                            ELSE IF q[n] \in S THEN Append(k[n - 1], q[n])
                            ELSE k[n - 1]
  IN  k
Among(q, S) == kept(q, S)[Len(q)]

\* page_size: the last paged results control counts; -1 without one.
Paged == Among(req.controls, {c \in ToSet(req.controls) : c.kind = "paged"})
pageSize == IF Paged = << >> THEN -1 ELSE Last(Paged).size

\* The first control that cannot be honoured decides.
fault(c) ==
  CASE c.kind = "malformed" -> IF c.critical THEN "UnavailableCriticalExtension"
                                             ELSE "ProtocolError"
    [] c.kind = "other" /\ c.critical -> "UnavailableCriticalExtension"
    [] OTHER -> Success
controlFault ==
  LET faulty == Among(req.controls, {c \in ToSet(req.controls) : fault(c) # Success})
  IN  IF faulty = << >> THEN Success ELSE fault(Head(faulty))

inScope(r, dn) ==
  CASE r.scope = "base" -> dn = r.dn
    [] r.scope = "one"  -> dnIsOneLevelChild(dn, r.dn)
    [] r.scope = "sub"  -> dnEndsWith(dn, r.dn)

\* backend.search: in the order of the map.
backendSearch(t, r) ==
  LET hits == Among(MapOrder, {d \in DOMAIN t : inScope(r, d) /\ nodeMatches(t[d])[r.filter]})
  IN  [i \in DOMAIN hits |-> Entry(hits[i], t[hits[i]])]

\* The root DSE comes first in a base or subtree search of the empty name,
\* and alone in a base search.
found_entries ==
  IF req.dn # RootDse \/ req.scope = "one" THEN backendSearch(tree, req)
  ELSE (IF nodeMatches(Dse)[req.filter] THEN <<Entry(RootDse, Dse)>> ELSE << >>)
         \o (IF req.scope = "base" THEN << >> ELSE backendSearch(tree, req))

\* toSearchEntry: no attributes for 1.1, all for an empty list or *, and
\* the password for root only.
asked(t) == \/ req.attributes = {} \/ "*" \in req.attributes \/ t \in req.attributes
reveal_password == who # RootDse /\ who = RootDn
toSearchEntry(e) ==
  LET shown == IF req.attributes = {"1.1"} THEN {}
               ELSE {t \in DOMAIN e.attrs : asked(t) /\ (t = "userPassword" => reveal_password)}
  IN  Entry(e.dn, [t \in shown |-> IF req.typesOnly THEN << >> ELSE e.attrs[t]])

-----------------------------------------------------------------------------
(* The client and the end of a request.                                    *)

\* A client begins a search, or sends a compare request.
start ==
  /\ pc = "idle"
  /\ \E r \in Requests, w \in Identities :
       /\ req' = r /\ who' = w
       /\ cookie' = IF r.op = "search" THEN r.cookie ELSE 0
       /\ pc' = r.op
  /\ received' = << >> /\ sent' = << >> /\ result' = ""
  /\ seen' = {tree} /\ changes' = 0
  /\ UNCHANGED <<tree, check, matches, visible>>

\* The answer without a page: errors, and compare.
Answer(rc) ==
  /\ result' = rc
  /\ pc' = "answered"
  /\ cookie' = 0
  /\ check' = NoCheck /\ matches' = << >> /\ visible' = << >>

Checking(dn, next) ==
  /\ check' = [NoCheck EXCEPT !.dn = dn, !.rule = 1]
  /\ pc' = next

\* Mutants: a page too many at the end; the cookie skips an entry.
nextCookie_atEnd(rc) ==
  LET next == cookie + Len(sent)
  IN  IF pageSize > 0 /\ next <= Len(visible) /\ rc # "SizeLimitExceeded" THEN next ELSE 0
nextCookie_skips(rc) ==
  LET next == cookie + Len(sent) + 1
  IN  IF pageSize > 0 /\ next < Len(visible) /\ rc # "SizeLimitExceeded" THEN next ELSE 0

nextCookie(rc) ==
  LET next == cookie + Len(sent)
  IN  IF pageSize > 0 /\ next < Len(visible) /\ rc # "SizeLimitExceeded" THEN next ELSE 0

\* Mutant: the entries of the page are kept for the next one.
done_keepsVisible(rc) ==
  /\ result' = rc
  /\ cookie' = nextCookie(rc)
  /\ pc' = "answered"
  /\ UNCHANGED work

\* SearchResultDone after a page.
done(rc) ==
  /\ result' = rc
  /\ cookie' = nextCookie(rc)
  /\ pc' = "answered"
  /\ check' = NoCheck /\ matches' = << >> /\ visible' = << >>

\* The loop of ldapsearch: on with the next page while there is a cookie and
\* no error.
receiveDone ==
  /\ pc = "answered"
  /\ received' = received \o sent
  /\ IF cookie # 0 /\ result = Success
     THEN pc' = "search" /\ seen' = {tree} /\ sent' = << >>
     ELSE pc' = "finished" /\ UNCHANGED <<seen, sent>>
  /\ UNCHANGED <<tree, local, work, result, changes>>

\* The client has its answer, and the session waits for another request.
finish ==
  /\ pc = "finished"
  /\ pc' = "idle"
  /\ req' = NoRequest /\ who' = RootDse /\ cookie' = 0
  /\ received' = << >> /\ sent' = << >> /\ result' = ""
  /\ seen' = {} /\ changes' = 0
  /\ UNCHANGED <<tree, work>>

-----------------------------------------------------------------------------
(* handleSearch.                                                           *)

handleSearch ==
  /\ pc = "search"
  /\ IF req.filter = 0                  THEN Answer("ProtocolError")
     ELSE IF controlFault # Success     THEN Answer(controlFault)
     ELSE IF req.dn = RootDse           THEN pc' = "find" /\ UNCHANGED <<result, cookie, work>>
     ELSE IF ~found(tree, req.dn)       THEN Answer("NoSuchObject")
     ELSE Checking(req.dn, "base") /\ UNCHANGED <<result, cookie, matches, visible>>
  /\ UNCHANGED <<tree, who, req, sent, received, seen, changes>>

\* The snapshot.
find ==
  /\ pc = "find"
  /\ matches' = found_entries
  /\ visible' = << >>
  /\ IF found_entries = << >> THEN pc' = "page" /\ check' = NoCheck
                              ELSE Checking(Head(found_entries).dn, "entry")
  /\ UNCHANGED <<tree, local, sent, result, received, seen, changes>>

\* The decision on check.dn: what happens next depends on who asked.
Granted ==
  IF pc # "entry"
  THEN /\ pc' = IF pc = "base" THEN "find" ELSE "value"
       /\ check' = NoCheck
       /\ UNCHANGED <<result, cookie, matches, visible>>
  ELSE /\ visible' = Append(visible, Head(matches)) /\ matches' = Tail(matches)
       /\ IF Tail(matches) = << >> THEN pc' = "page" /\ check' = NoCheck
          ELSE Checking(matches[2].dn, "entry")
       /\ UNCHANGED <<result, cookie>>
Denied ==
  IF pc # "entry" THEN Answer("InsufficientAccessRights")
  ELSE /\ matches' = Tail(matches)
       /\ IF Tail(matches) = << >> THEN pc' = "page" /\ check' = NoCheck
          ELSE Checking(matches[2].dn, "entry")
       /\ UNCHANGED <<result, cookie, visible>>

NextRule == /\ check' = [check EXCEPT !.rule = @ + 1, !.group = << >>]
            /\ UNCHANGED <<pc, result, cookie, matches, visible>>

Open == check.dn = RootDse \/ isRoot(RootDn, who) \/ Rules = << >>
rule == Rules[check.rule]

\* maySearch, one rule at a time.  A group rule reads the group here ...
maySearchRule ==
  /\ pc \in {"base", "entry", "compare"} /\ check.rule > 0 /\ check.group = << >>
  /\ IF Open                                   THEN Granted
     ELSE IF check.rule > Len(Rules)           THEN Denied
     ELSE IF rule.who.kind = "group"
          THEN IF who # RootDse /\ found(tree, rule.who.dn)
               THEN /\ check' = [check EXCEPT !.group = <<tree[rule.who.dn]>>]
                    /\ UNCHANGED <<pc, result, cookie, matches, visible>>
               ELSE NextRule
     ELSE IF whoMatches(rule, tree, who) /\ covers(rule, check.dn) THEN Granted
     ELSE NextRule
  /\ UNCHANGED <<tree, who, req, sent, received, seen, changes>>

\* Mutant: the names that a group rule covers are not looked at.
maySearchUser_noTarget ==
  /\ check.group # << >>
  /\ IF whoMatches(rule, Put(tree, rule.who.dn, check.group[1]), who) THEN Granted
     ELSE NextRule
  /\ UNCHANGED <<tree, who, req, sent, received, seen, changes>>

\* ... and the user here.
maySearchUser ==
  /\ check.group # << >>
  /\ IF /\ whoMatches(rule, Put(tree, rule.who.dn, check.group[1]), who)
        /\ covers(rule, check.dn)
     THEN Granted ELSE NextRule
  /\ UNCHANGED <<tree, who, req, sent, received, seen, changes>>

\* The cookie is parsed, and a page of size 0 is empty.
beginPage ==
  /\ pc = "page"
  /\ IF cookie = BadCookie THEN Answer("ProtocolError")
     ELSE IF pageSize = 0  THEN Answer(Success)
     ELSE pc' = "loop" /\ UNCHANGED <<result, cookie, work>>
  /\ UNCHANGED <<tree, who, req, sent, received, seen, changes>>

More == cookie + Len(sent) < Len(visible)
AtSizeLimit == req.sizeLimit > 0 /\ Len(sent) >= req.sizeLimit
AtPageEnd == pageSize > 0 /\ Len(sent) >= pageSize

\* One turn of the loop: the time limit, the size limit, the page, an entry.
timeUp ==
  /\ pc = "loop" /\ More /\ req.timeLimit > 0
  /\ done("TimeLimitExceeded")
  /\ UNCHANGED <<tree, who, req, sent, received, seen, changes>>

endPage ==
  /\ pc = "loop" /\ (~More \/ AtSizeLimit \/ AtPageEnd)
  /\ done(IF More /\ AtSizeLimit THEN "SizeLimitExceeded" ELSE Success)
  /\ UNCHANGED <<tree, who, req, sent, received, seen, changes>>

sendEntry ==
  /\ pc = "loop" /\ More /\ ~AtSizeLimit /\ ~AtPageEnd
  /\ sent' = Append(sent, toSearchEntry(visible[cookie + Len(sent) + 1]))
  /\ UNCHANGED <<tree, local, pc, work, result, received, seen, changes>>

\* The connection breaks: the handler returns, and the client reports that
\* the response was truncated.
sendFails ==
  /\ pc = "loop"
  /\ pc' = "finished" /\ result' = "truncated"
  /\ received' = received \o sent
  /\ check' = NoCheck /\ matches' = << >> /\ visible' = << >>
  /\ UNCHANGED <<tree, local, sent, seen, changes>>

-----------------------------------------------------------------------------
(* handleCompare: access first, then the entry.                            *)

handleCompare ==
  /\ pc = "compare" /\ check.rule = 0
  /\ IF req.dn = RootDse \/ req.attribute = "" THEN Answer("ProtocolError")
     ELSE Checking(req.dn, "compare") /\ UNCHANGED <<result, cookie, matches, visible>>
  /\ UNCHANGED <<tree, who, req, sent, received, seen, changes>>

\* A password is compared as a bind would, any other value as text.
valueMatches(value, given) ==
  IF req.attribute = "userPassword" THEN verifyUserPassword(value, given) ELSE value = given

compareValue ==
  /\ pc = "value"
  /\ Answer(IF ~found(tree, req.dn)                        THEN "NoSuchObject"
            ELSE IF req.attribute \notin DOMAIN tree[req.dn] THEN "NoSuchAttribute"
            ELSE IF \E v \in ToSet(tree[req.dn][req.attribute]) : valueMatches(v, req.value)
                                                           THEN "CompareTrue"
            ELSE "CompareFalse")
  /\ UNCHANGED <<tree, who, req, sent, received, seen, changes>>

-----------------------------------------------------------------------------
\* Other sessions write, any number of times, between two steps.
otherSessions ==
  /\ changes < MaxChanges /\ pc # "idle"
  /\ tree' \in Trees \ {tree}
  /\ seen' = seen \cup {tree'}
  /\ changes' = changes + 1
  /\ UNCHANGED <<local, pc, work, sent, result, received>>

Init ==
  /\ tree \in Trees
  /\ who = RootDse /\ req = NoRequest
  /\ pc = "idle" /\ cookie = 0
  /\ check = NoCheck /\ matches = << >> /\ visible = << >>
  /\ sent = << >> /\ result = "" /\ received = << >>
  /\ seen = {} /\ changes = 0

Step ==
  \/ handleSearch \/ find \/ maySearchRule \/ maySearchUser
  \/ beginPage \/ timeUp \/ endPage \/ sendEntry \/ sendFails
  \/ handleCompare \/ compareValue
  \/ receiveDone \/ finish

Next == start \/ Step \/ otherSessions

\* The session thread and the client go on; nobody has to start a search.
Spec == Init /\ [][Next]_vars /\ WF_vars(Step)
-----------------------------------------------------------------------------
Names == ToSet(MapOrder)

\* The handler is at one of its steps, access is asked for one of the configured
\* rules, and nothing of a page is left when it is answered.
TypeOK ==
  /\ tree \in Trees /\ seen \subseteq Trees /\ changes \in 0..MaxChanges
  /\ pc \in {"idle", "search", "base", "find", "entry", "page", "loop", "compare",
             "value", "answered", "finished"}
  /\ cookie \in {BadCookie} \cup Nat
  /\ pc \in {"idle", "search", "answered", "finished"} =>
       check = NoCheck /\ matches = << >> /\ visible = << >>
  /\ check.rule \in 0..(Len(Rules) + 1)
  /\ \A e \in ToSet(matches \o visible \o sent \o received) : e.dn \in Names \cup {RootDse}

\* The names of entries, and those of the tree that a request means.
Dns(q) == [i \in DOMAIN q |-> q[i].dn]
Meant(t, r) == {d \in DOMAIN t : inScope(r, d) /\ r.filter \in Satisfied(t[d])}

\* backend.search returns exactly the entries that the filter means, in the
\* order of the map and as they are in the tree: what one call promises,
\* whatever the session does with it.
BackendSearchExact ==
  \A t \in Trees, r \in Requests : r.op = "search" /\ r.filter # 0 =>
    /\ IsSeq(backendSearch(t, r))
    /\ Dns(backendSearch(t, r)) = Among(MapOrder, Meant(t, r))
    /\ \A e \in ToSet(backendSearch(t, r)) : e.dn \in Meant(t, r) /\ e.attrs = t[e.dn]

\* What a session may read and what a filter finds, if nothing changes.
Readable(t, dn) == maySearch(ToSet(Rules), RootDn, t, who, dn)
Wanted(t) ==
  LET dse  == req.dn = RootDse /\ req.scope # "one" /\ req.filter \in Satisfied(Dse)
      rest == IF req.dn = RootDse /\ req.scope = "base" THEN {}
              ELSE {d \in Meant(t, req) : Readable(t, d)}
  IN  (IF dse THEN <<RootDse>> ELSE << >>) \o Among(MapOrder, rest)

\* While nobody writes, the pages of a search are together exactly the
\* entries it asked for, from the first cookie on, each once and in order; a
\* limit cuts the list short and says so.
PagesComplete ==
  pc = "finished" /\ changes = 0 /\ req.op = "search" /\ req.filter # 0 =>
    LET wanted == SubSeq(Wanted(tree), req.cookie + 1, Len(Wanted(tree)))
        got    == Dns(received)
    IN  CASE result = Success -> got = IF pageSize = 0 THEN << >> ELSE wanted
          [] result = "SizeLimitExceeded" ->
               IsStrictPrefix(got, wanted) /\ Len(sent) = req.sizeLimit
          [] result = "TimeLimitExceeded" -> IsStrictPrefix(got, wanted) /\ req.timeLimit > 0
          [] result = "truncated" -> IsPrefix(got, wanted)
          [] result = "NoSuchObject" -> got = << >> /\ req.dn \notin DOMAIN tree \cup {RootDse}
          [] result = "InsufficientAccessRights" -> got = << >> /\ ~Readable(tree, req.dn)
          [] OTHER -> got = << >> /\ (controlFault # Success \/ req.cookie = BadCookie)

\* The session could read dn by some rule, with the group as it was at one
\* moment of the request and the user as it was at another.
CouldRead(dn) ==
  \/ who = RootDn \/ Rules = << >>
  \/ \E i \in DOMAIN Rules : \E t, u \in seen :
       /\ covers(Rules[i], dn)
       /\ IF Rules[i].who.kind # "group" THEN whoMatches(Rules[i], t, who)
          ELSE /\ found(t, Rules[i].who.dn)
               /\ inGroup(Put(u, Rules[i].who.dn, t[Rules[i].who.dn]), who, Rules[i].who.dn)

\* Whatever the others write meanwhile: an entry that is sent matched the
\* filter, with the values sent, at a moment of this request; it and an entry
\* that a compare says something about could be read; and the password is
\* sent to root only.
OnlyReadable ==
  /\ \A e \in ToSet(sent) :
       /\ e.dn # RootDse =>
            /\ CouldRead(e.dn)
            /\ \E t \in seen : /\ e.dn \in DOMAIN t /\ req.filter \in Satisfied(t[e.dn])
                               /\ \A a \in DOMAIN e.attrs :
                                    a \in DOMAIN t[e.dn] /\ e.attrs[a] \in {<< >>, t[e.dn][a]}
       /\ "userPassword" \in DOMAIN e.attrs => who = RootDn
  /\ result \in {"CompareTrue", "CompareFalse", "NoSuchAttribute"} => CouldRead(req.dn)

\* A password that a compare accepts is one that a bind would accept at the
\* same moment, and any other value one that a search for it finds.
CompareAgrees ==
  pc = "finished" /\ changes = 0 /\ result \in {"CompareTrue", "CompareFalse"} =>
    LET values == ToSet(tree[req.dn][req.attribute])
        agreed == result = "CompareTrue"
    IN  IF req.attribute = "userPassword"
        THEN agreed <=> \/ /\ req.value \notin DOMAIN Scheme
                           /\ {req.value, encodeUserPassword(req.value)} \cap values # {}
                        \/ \E v \in values \cap DOMAIN Scheme :
                             Scheme[v].name \in {"CLEARTEXT", "SHA"} /\ Scheme[v].of = req.value
        ELSE \A n \in DOMAIN Nodes :
               /\ Nodes[n].type = "Equality"
               /\ Nodes[n].attribute = req.attribute /\ Nodes[n].value = req.value
               => (agreed <=> n \in Satisfied(tree[req.dn]))

\* While nobody writes, what a client is told is what the tree says: the pages
\* of a search, and the answer to a compare.
AnswersExact == PagesComplete /\ CompareAgrees

\* The client's loop comes to an end: every page it asks for brings it
\* further, once the others have stopped writing.
SearchEnds == (pc # "idle") ~> (pc = "idle")
=============================================================================
