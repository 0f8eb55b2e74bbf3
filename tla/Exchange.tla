------------------------------ MODULE Exchange -------------------------------
(***************************************************************************)
(* A command-line tool and the session that serves it, over one TCP        *)
(* connection: cli/client.cpp and the tools' main(), Session::serve at the *)
(* other end, and the octets between them.                                 *)
(*                                                                         *)
(* up and down are what is on its way: octets that one side has sent and   *)
(* the other has not read.  Every message goes through encodeLdapMessage,  *)
(* the stream, recvPdu and decodeLdapMessage.  The connection may be lost  *)
(* at any moment, with any part of what is on its way; the session may end *)
(* between two requests (idle_timeout, stop()).                            *)
(*                                                                         *)
(* What a handler decides is the subject of Directory, Authentication and  *)
(* Search: here it answers with any of the results in Outcomes.  On a TLS  *)
(* connection the streams hold the octets before encryption.               *)
(***************************************************************************)
EXTENDS Tools

CONSTANTS
  Calls,       \* a sequence of invocations: as in Tools, and want, the requests meant
  Servers,     \* what the server may be like: [ldaps, starttls, maxPdu]
  Outcomes,    \* result codes a request may be answered with, by operation
  BindOutcomes, \* the same for a bind that is not a request for a challenge
  Found,       \* what a search finds, in order
  ClientMax,   \* max_pdu_size of a tool
  Diagnostic, Challenge, DigestResponse, Ticket, Authzid, Hello  \* octets

VARIABLES
  call,     \* the invocation
  opt,      \* its options, as parseClientArgs has read them
  server,   \* the server's settings
  tool,     \* the tool: [pc, id, tls, todo, round, cookie, rc, printed, exit]
  session,  \* the session: [pc, tls]
  up, down, \* octets on their way
  lost,     \* the connection is gone
  log,      \* history: requests the session has carried out, with the results
  leaked    \* history: a password went out without TLS

ASSUME FoundAssumption == Len(Found) \in 0..9  \* a cookie is one digit
ASSUME CallsAssumption ==
  \A i \in DOMAIN Calls : LET argv == Calls[i].argv
                          IN  /\ argv \in Seq(ToSet(argv))
                              /\ \A a \in ToSet(argv) : a.flag \in Flags /\ a.has \in BOOLEAN

vars == <<call, opt, server, tool, session, up, down, lost, log, leaked>>

Success == 0
OperationsError == 1
ProtocolError == 2
AuthMethodNotSupported == 7
SaslBindInProgress == 14
SizeLimitExceeded == 4
TimeLimitExceeded == 3
CompareFalse == 5
CompareTrue == 6
NoSuchObject == 32
InvalidCredentials == 49
Unavailable == 52
UnwillingToPerform == 53

Running == -1
Killed == -2

\* What each tool makes of its arguments, and of its input.
Options == [i \in DOMAIN Calls |-> parseClientArgs(Calls[i].argv, Calls[i].tool = "ldappasswd")]
Requests == [i \in DOMAIN Calls |-> requests(Calls[i], Options[i])]

Init ==
  /\ server \in Servers
  /\ \E i \in DOMAIN Calls :
       /\ call = Calls[i] /\ opt = Options[i]
       /\ tool = [pc |-> "main", id |-> 1, tls |-> FALSE, todo |-> Requests[i], round |-> 1,
                  cookie |-> << >>, rc |-> Success, printed |-> << >>, exit |-> Running]
  /\ session = [pc |-> "none", tls |-> FALSE]
  /\ up = << >> /\ down = << >> /\ lost = FALSE
  /\ log = << >> /\ leaked = FALSE

-----------------------------------------------------------------------------
\* Mutant: at the end of the stream recv is tried again.
recvPdu_patient(octs, ended, max) ==
  LET h == readTagLength(octs)
  IN  IF ~h.ok \/ Len(octs) < h.size + h.length THEN [is |-> "waiting"]
      ELSE IF h.length > max THEN [is |-> "failed"]
      ELSE [is |-> "pdu", pdu |-> Take(octs, h.size + h.length),
            rest |-> Drop(octs, h.size + h.length)]

\* recvPdu: the next PDU of a stream.  More octets are waited for, unless none
\* can come; a length that is malformed or too large fails at once.
recvPdu(octs, ended, max) ==
  LET h    == readTagLength(octs)
      bad  == Len(octs) >= 2 /\ octs[2] >= 128 /\ octs[2] - 128 \notin 1..4
      wait == IF ended THEN "failed" ELSE "waiting"
  IN  IF bad THEN [is |-> "failed"]
      ELSE IF ~h.ok THEN [is |-> wait]
      ELSE IF h.length > max THEN [is |-> "failed"]
      ELSE IF Len(octs) < h.size + h.length THEN [is |-> wait]
      ELSE [is |-> "pdu", pdu |-> Take(octs, h.size + h.length),
            rest |-> Drop(octs, h.size + h.length)]

Exited(code) == [tool EXCEPT !.pc = "exited", !.exit = code]
Connected == ~lost /\ session.pc \notin {"ended", "left"}

\* A password, or credentials made of one as they are.
Secret(m) ==
  \/ m.op = "BindRequest" /\ m.data.simple /\ m.data.password # << >>
  \/ m.op = "BindRequest" /\ m.data.mechanism = Mechanism.PLAIN
  \/ m.op = "ExtendedRequest" /\ m.data.oid = PasswordModifyOid

\* sendAll in the tool.  With nobody at the other end the octets may still go
\* into the socket's buffer, send() may fail, or SIGPIPE ends the process.
Sends(m, sent, failed) ==
  /\ \/ /\ tool' = sent
        /\ up' = IF Connected THEN up \o encodeLdapMessage(m) ELSE up
     \/ /\ ~Connected
        /\ tool' \in {failed, Exited(Killed)}
        /\ UNCHANGED up
  /\ leaked' = (leaked \/ (Secret(m) /\ ~tool.tls))
  /\ UNCHANGED <<call, opt, server, session, down, lost, log>>

\* recvPdu and decodeLdapMessage in the tool: no message, or a set of one.
Receives(then(_), failed) ==
  /\ \E got \in {recvPdu(down, ~Connected, ClientMax)} :
       /\ got.is # "waiting"
       /\ down' = IF got.is = "pdu" THEN got.rest ELSE down
       /\ \E ms \in {IF got.is = "pdu" THEN decodeLdapMessage(got.pdu) ELSE {}} :
            IF ms = {} THEN tool' = failed ELSE \E m \in ms : tool' = then(m)
  /\ UNCHANGED <<call, opt, server, session, up, lost, log, leaked>>

-----------------------------------------------------------------------------
\* main() up to the connection: a tool whose arguments or input it cannot use
\* does not connect.  ldapadd looks for a record to add only later.
mayConnect == tool.todo # << >> \/ (call.tool = "ldapadd" /\ parseLdifText(call.file) # << >>)
main ==
  /\ tool.pc = "main"
  /\ tool' = IF opt.parseError THEN Exited(1)
             ELSE IF opt.help THEN Exited(Success)
             ELSE IF ~mayConnect THEN Exited(1)
             ELSE [tool EXCEPT !.pc = "connect"]
  /\ UNCHANGED <<call, opt, server, session, up, down, lost, log, leaked>>

\* connectLdap: TcpConnection::connectTo, and TlsContext::initClient, which
\* reads the files of --ca-file and --cert.
connectFails ==
  /\ tool.pc = "connect"
  /\ tool' = Exited(1)
  /\ UNCHANGED <<call, opt, server, session, up, down, lost, log, leaked>>

connectTo ==
  /\ tool.pc = "connect"
  /\ opt.port = LdapPort \/ (opt.port = LdapsPort /\ server.ldaps)
  /\ session' = [session EXCEPT !.pc = IF opt.port = LdapsPort THEN "handshake" ELSE "serve"]
  /\ tool' = IF (opt.ldaps \/ opt.starttls) /\ opt.badCa THEN Exited(1)
             ELSE [tool EXCEPT !.pc = IF opt.ldaps THEN "hello"
                                      ELSE IF opt.starttls THEN "starttls" ELSE "bind"]
  /\ UNCHANGED <<call, opt, server, up, down, lost, log, leaked>>

starttls ==
  /\ tool.pc = "starttls"
  /\ Sends(makeExtendedRequest(1, StartTlsOid, << >>),
           [tool EXCEPT !.pc = "starttlsWait"], Exited(1))

\* Mutant: whatever the answer, the tool goes on, and without TLS if it must.
starttlsAnswer_ignored ==
  /\ tool.pc = "starttlsWait"
  /\ Receives(LAMBDA m : [tool EXCEPT !.pc = IF m.data.result = Success THEN "hello" ELSE "bind"],
              Exited(1))

starttlsAnswer ==
  /\ tool.pc = "starttlsWait"
  /\ Receives(LAMBDA m : IF m.op = "ExtendedResponse" /\ m.data.result = Success
                         THEN [tool EXCEPT !.pc = "hello"] ELSE Exited(1),
              Exited(1))

\* handshakeTls at the tool's end.  The server's certificate may not be trusted.
handshakeTls ==
  /\ tool.pc = "hello"
  /\ \/ /\ tool' = [tool EXCEPT !.pc = "helloWait"]
        /\ up' = IF Connected THEN up \o Hello ELSE up
     \/ /\ ~Connected
        /\ tool' \in {Exited(1), Exited(Killed)}
        /\ UNCHANGED up
  /\ UNCHANGED <<call, opt, server, session, down, lost, log, leaked>>

handshakeAnswer ==
  /\ tool.pc = "helloWait"
  /\ \/ /\ IsPrefix(Hello, down)
        /\ down' = Drop(down, Len(Hello))
        /\ tool' \in {[tool EXCEPT !.pc = "bind", !.tls = TRUE], Exited(1)}
     \/ /\ ~IsPrefix(Hello, down) /\ ~Connected
        /\ tool' = Exited(1)
        /\ UNCHANGED down
  /\ UNCHANGED <<call, opt, server, session, up, lost, log, leaked>>

-----------------------------------------------------------------------------
\* bindLdap and what its caller does with the code.  LdapClient counts its
\* messages from 1 again; ldapsearch goes on counting.
bound(rc) ==
  IF rc = Success
  THEN [tool EXCEPT !.pc = "request", !.id = IF call.tool = "ldapsearch" THEN @ + 1 ELSE 1]
  ELSE Exited(IF call.tool = "ldapsearch" THEN rc ELSE 1)

password == IF opt.prompt THEN call.typed ELSE opt.password
authcid == IF opt.authcid = << >> THEN opt.bindDn ELSE opt.authcid
TwoSteps == {"DIGEST", "GSSAPI"}

\* What makes bindLdap give up before it sends anything.
bindImpossible ==
  CASE opt.mechanism = ""                           -> Success
    [] opt.mechanism \notin DOMAIN Mechanism \cup {""} -> AuthMethodNotSupported
    [] opt.mechanism = "ANONYMOUS"                  -> AuthMethodNotSupported
    [] opt.mechanism = "GSSAPI" /\ opt.keytab = "none" -> AuthMethodNotSupported
    [] opt.mechanism = "GSSAPI" /\ opt.keytab \in {"unreadable", "no realm"} -> OperationsError
    [] OTHER                                        -> Success

credentials ==
  CASE opt.mechanism = "PLAIN"    -> <<0>> \o authcid \o <<0>> \o password
    [] opt.mechanism = "EXTERNAL" -> authcid
    [] opt.mechanism \in TwoSteps /\ tool.round = 1 -> << >>
    [] opt.mechanism = "DIGEST" /\ tool.round = 2   -> DigestResponse
    [] opt.mechanism = "GSSAPI" /\ tool.round = 2   -> Ticket

bindRequest ==
  IF opt.mechanism = "" THEN makeBindRequest(tool.id, opt.bindDn, password)
  ELSE makeSaslBindRequest(tool.id, opt.bindDn, Mechanism[opt.mechanism], credentials)

bindLdap ==
  /\ tool.pc = "bind"
  /\ IF bindImpossible # Success
     THEN tool' = bound(bindImpossible) /\ UNCHANGED <<call, opt, server, session, up, down, lost, log, leaked>>
     ELSE Sends(bindRequest, [tool EXCEPT !.pc = "bindWait"], bound(Unavailable))

\* The challenge must be one the client can answer: with a nonce, and with a
\* name to answer for.
challenged(m) ==
  CASE m.data.result # SaslBindInProgress -> bound(m.data.result)
    [] m.data.result = SaslBindInProgress /\ opt.mechanism = "DIGEST"
         /\ (m.data.creds = << >> \/ authcid = << >>) -> bound(AuthMethodNotSupported)
    [] m.data.result = SaslBindInProgress /\ opt.mechanism = "GSSAPI" /\ authcid = << >>
         -> bound(InvalidCredentials)
    [] OTHER -> [tool EXCEPT !.pc = "bind", !.round = 2, !.id = @ + 1]

bindAnswer ==
  /\ tool.pc = "bindWait"
  /\ Receives(LAMBDA m : IF m.op # "BindResponse" THEN bound(Unavailable)
                         ELSE IF opt.mechanism \in TwoSteps /\ tool.round = 1 THEN challenged(m)
                         ELSE bound(m.data.result),
              bound(Unavailable))

-----------------------------------------------------------------------------
\* LdapClient::exchange and ldapsearch's sendSearch: the next request, or the
\* next page of the search.
request ==
  LET paged == IF call.tool = "ldapsearch" /\ opt.pageSize > 0
               THEN <<makePagedResultsControl(opt.pageSize, tool.cookie)>> ELSE << >>
      m     == [make(tool.id, tool.todo[1].op, tool.todo[1].data) EXCEPT !.controls = paged]
  IN  /\ tool.pc = "request" /\ tool.todo # << >>
      /\ Sends(m, [tool EXCEPT !.pc = "requestWait", !.id = @ + 1, !.cookie = << >>],
               IF call.tool = "ldapsearch" THEN Exited(1)
               ELSE [tool EXCEPT !.pc = "unbind", !.rc = Unavailable, !.id = @ + 1])

\* No record of the file is one for this tool.
nothingToDo ==
  /\ tool.pc = "request" /\ tool.todo = << >>
  /\ tool' = [tool EXCEPT !.pc = "unbind"]
  /\ UNCHANGED <<call, opt, server, session, up, down, lost, log, leaked>>

\* Mutant: the loop over the records does not stop at one that failed.
finished_goesOn(rc, printed) ==
  [tool EXCEPT !.pc = IF Len(tool.todo) > 1 THEN "request" ELSE "unbind", !.todo = Tail(@),
               !.rc = rc, !.printed = @ \o printed]

\* A request is answered: the loop goes on only after a success.
finished(rc, printed) ==
  [tool EXCEPT !.pc = IF rc = Success /\ Len(tool.todo) > 1 THEN "request" ELSE "unbind",
               !.todo = Tail(@), !.rc = rc, !.printed = @ \o printed]

ResponseTo == [AddRequest |-> "AddResponse", DelRequest |-> "DelResponse",
               ModifyRequest |-> "ModifyResponse", ModifyDNRequest |-> "ModifyDNResponse",
               CompareRequest |-> "CompareResponse", ExtendedRequest |-> "ExtendedResponse"]

requestAnswer ==
  /\ tool.pc = "requestWait" /\ call.tool # "ldapsearch"
  /\ Receives(LAMBDA m : IF m.op # ResponseTo[tool.todo[1].op] THEN finished(Unavailable, << >>)
                         ELSE finished(m.data.result,
                                IF call.tool = "ldapwhoami" /\ m.data.result = Success
                                THEN <<m.data.value>> ELSE << >>),
              finished(Unavailable, << >>))

\* The cookie of the last paged results control that can be read.
cookieOf(m) ==
  LET values == FlattenSeq([i \in DOMAIN m.controls |->
                  IF m.controls[i].oid = PagedResultsOid
                  THEN SetToSeq(decodePagedResultsValue(m.controls[i].value)) ELSE << >>])
  IN  IF values = << >> THEN << >> ELSE Last(values).cookie

searchAnswer ==
  /\ tool.pc = "requestWait" /\ call.tool = "ldapsearch"
  /\ Receives(LAMBDA m :
       CASE m.op = "SearchResultEntry" -> [tool EXCEPT !.printed = Append(@, m.data)]
         [] m.op = "SearchResultDone"  ->
              IF cookieOf(m) # << >> /\ m.data.result = Success
              THEN [tool EXCEPT !.pc = "request", !.cookie = cookieOf(m)]
              ELSE finished(m.data.result, << >>)
         [] OTHER -> Exited(1),
       Exited(1))

\* LdapClient::unbind, or its like in ldapsearch; then main() returns.
unbind ==
  /\ tool.pc = "unbind"
  /\ Sends(make(tool.id, "UnbindRequest", << >>), Exited(tool.rc), Exited(tool.rc))

ToolStep ==
  \/ main \/ connectTo \/ starttls \/ starttlsAnswer \/ handshakeTls \/ handshakeAnswer
  \/ bindLdap \/ bindAnswer \/ request \/ nothingToDo \/ requestAnswer \/ searchAnswer \/ unbind

-----------------------------------------------------------------------------
(***************************************************************************)
(* The session.                                                            *)
(***************************************************************************)
ToolGone == tool.pc = "exited" \/ lost
Ended == [session EXCEPT !.pc = "ended"]

\* Session::send.  With nobody at the other end it may fail, or SIGPIPE ends the
\* daemon: either way the session is over.
Answers(messages, next) ==
  IF ToolGone THEN session' \in {next, Ended} /\ UNCHANGED down
  ELSE session' = next /\ down' = down \o writeEach(messages, encodeLdapMessage)

\* Mutant: the connection does not keep its SSL object.
sessionHandshake_forgets ==
  /\ session.pc = "handshake" /\ IsPrefix(Hello, up)
  /\ up' = Drop(up, Len(Hello)) /\ down' = down \o Hello
  /\ session' = [session EXCEPT !.pc = "serve"]
  /\ UNCHANGED <<call, opt, server, tool, lost, log, leaked>>

\* handshakeTls at the session's end, from serveConnection or after StartTLS.
sessionHandshake ==
  /\ session.pc = "handshake"
  /\ \/ /\ IsPrefix(Hello, up)
        /\ up' = Drop(up, Len(Hello))
        /\ \/ /\ session' = [pc |-> "serve", tls |-> TRUE]
              /\ down' = IF ToolGone THEN down ELSE down \o Hello
           \/ session' = Ended /\ UNCHANGED down
     \/ /\ ~IsPrefix(Hello, up) /\ (up # << >> \/ ToolGone)
        /\ session' = Ended
        /\ UNCHANGED <<up, down>>
  /\ UNCHANGED <<call, opt, server, tool, lost, log, leaked>>

\* serve() ends at the top of its loop: idle_timeout, or running_ is false.
leave ==
  /\ session.pc = "serve"
  /\ session' = [session EXCEPT !.pc = "left"]
  /\ UNCHANGED <<call, opt, server, tool, up, down, lost, log, leaked>>

-----------------------------------------------------------------------------
Answer(m, op, result) ==
  [makeLdapResult(m.id, op, result) EXCEPT
     !.data.diagnostic = IF result \in {Success, CompareFalse, CompareTrue} THEN << >>
                         ELSE Diagnostic]

\* handleBind.  A first step of DIGEST-MD5 or GSSAPI asks for a challenge.
handleBind(m) ==
  LET first == ~m.data.simple /\ m.data.credentials = << >>
               /\ m.data.mechanism \in {Mechanism[n] : n \in TwoSteps}
  IN  IF first
      THEN {[Answer(m, "BindResponse", SaslBindInProgress) EXCEPT !.data.creds = Challenge]}
           \cup {Answer(m, "BindResponse", r) : r \in BindOutcomes \ {Success}}
      ELSE {Answer(m, "BindResponse", r) : r \in BindOutcomes}

\* handlePasswordModify: the value must be readable and have a new password.
passwordOutcomes(m) ==
  LET asked == decodePasswordModifyValue(m.data.value)
  IN  IF asked = {} THEN {ProtocolError}
      ELSE IF \A p \in asked : p.new \subseteq {<< >>} THEN {UnwillingToPerform}
      ELSE Outcomes[m.op]

\* The switch of serve(): what a request that is not a search is answered with.
handle(m) ==
  LET whoAmI(v) == [Answer(m, "ExtendedResponse", Success) EXCEPT
                      !.data.oid = WhoAmIOid, !.data.value = v]
      results   == IF m.op # "ExtendedRequest" THEN Outcomes[m.op]
                   ELSE IF m.data.oid = PasswordModifyOid THEN passwordOutcomes(m)
                   ELSE {UnwillingToPerform}
  IN  CASE m.op = "BindRequest" -> handleBind(m)
        [] m.op = "ExtendedRequest" /\ m.data.oid = WhoAmIOid -> {whoAmI(v) : v \in {<< >>, Authzid}}
        [] m.op \in DOMAIN ResponseTo /\ (m.op = "ExtendedRequest" => m.data.oid # WhoAmIOid) ->
             {Answer(m, ResponseTo[m.op], r) : r \in results}
        [] OTHER -> {Answer(m, "SearchResultDone", ProtocolError)}

\* What a request asks for; a password modify is read as its handler reads it.
Meaning(m) ==
  IF m.op = "ExtendedRequest" /\ m.data.oid = PasswordModifyOid
  THEN Request("PasswordModify", decodePasswordModifyValue(m.data.value))
  ELSE Request(m.op, m.data)

serveRequest(m) ==
  /\ m.op \notin {"SearchRequest", "UnbindRequest"}
  /\ m.op = "ExtendedRequest" => m.data.oid # StartTlsOid
  /\ \E a \in handle(m) :
       /\ Answers(<<a>>, session)
       /\ log' = IF m.op = "BindRequest" THEN log
                 ELSE Append(log, [req |-> Meaning(m), result |-> a.data.result,
                                   said |-> IF a.data.oid = << >> THEN << >> ELSE <<a.data.value>>])

serveStartTls(m) ==
  /\ m.op = "ExtendedRequest" /\ m.data.oid = StartTlsOid
  /\ IF ~server.starttls \/ session.tls
     THEN Answers(<<Answer(m, "ExtendedResponse", UnwillingToPerform)>>, session)
     ELSE Answers(<<Answer(m, "ExtendedResponse", Success)>>,
                  [session EXCEPT !.pc = "handshake"])
  /\ UNCHANGED log

-----------------------------------------------------------------------------
\* handleSearch from the cookie on: how many entries go out, and the result.
\* cookieText is std::to_string of an offset below 10.
cookieText(n) == <<48 + n>>
pages(d, page) ==
  LET offset == IF page.cookie = << >> THEN 0 ELSE page.cookie[1] - 48
      left   == Len(Found) - offset
      n      == Min({left} \cup {k \in {d.sizeLimit, page.size} : k > 0})
      exceeded == n < left /\ d.sizeLimit > 0 /\ n = d.sizeLimit
  IN  {[offset |-> offset, n |-> n, result |-> IF exceeded THEN SizeLimitExceeded ELSE Success]}
      \cup (IF d.timeLimit > 0 /\ left > 0
            THEN {[offset |-> offset, n |-> k, result |-> TimeLimitExceeded] : k \in 0..Min({n, left - 1})}
            ELSE {})

\* The entries and the done message of one page.
pageMessages(m, page, p) ==
  LET next    == p.offset + p.n
      entries == [i \in 1..p.n |-> make(m.id, "SearchResultEntry", Found[p.offset + i])]
      cookie  == IF next < Len(Found) /\ p.result # SizeLimitExceeded
                 THEN cookieText(next) ELSE << >>
      control == IF page.size <= 0 THEN << >>
                 ELSE <<makePagedResultsControl(Len(Found) - next, cookie)>>
      done    == makeLdapResult(m.id, "SearchResultDone", p.result)
  IN  Append(entries, [done EXCEPT !.controls = control])

\* A paged results control must be readable.  The tools ask for pages of one
\* entry at least, and with cookies that the session gave them.
handleSearch(m) ==
  LET paged == {i \in DOMAIN m.controls : m.controls[i].oid = PagedResultsOid}
      asked == UNION {decodePagedResultsValue(m.controls[i].value) : i \in paged}
      page  == IF asked = {} THEN [size |-> -1, cookie |-> << >>]
               ELSE CHOOSE p \in asked : TRUE
      readable == paged = {} \/ asked # {}
  IN  /\ m.op = "SearchRequest"
      /\ \/ \E r \in IF readable THEN Outcomes[m.op] \ {Success} ELSE {ProtocolError} :
              /\ Answers(<<Answer(m, "SearchResultDone", r)>>, session)
              /\ log' = Append(log, [req |-> Meaning(m), result |-> r, said |-> << >>])
         \/ \E p \in IF readable THEN pages(m.data, page) ELSE {} :
              /\ Answers(pageMessages(m, page, p), session)
              /\ log' = Append(log, [req |-> Meaning(m), result |-> p.result,
                                     said |-> SubSeq(Found, p.offset + 1, p.offset + p.n)])

-----------------------------------------------------------------------------
\* serve(): one turn of its loop.  It ends when nothing more can be read, at a
\* PDU that it cannot read, and at an unbind.
serve ==
  /\ session.pc = "serve"
  /\ \E got \in {recvPdu(up, ToolGone, server.maxPdu)} :
       /\ got.is # "waiting"
       /\ up' = IF got.is = "pdu" THEN got.rest ELSE up
       /\ \E ms \in {IF got.is = "pdu" THEN decodeLdapMessage(got.pdu) ELSE {}} :
            \/ /\ \A m \in ms : m.op = "UnbindRequest"
               /\ session' = Ended
               /\ UNCHANGED <<down, log>>
            \/ \E m \in ms : serveRequest(m) \/ serveStartTls(m) \/ handleSearch(m)
  /\ UNCHANGED <<call, opt, server, tool, lost, leaked>>

SessionStep == sessionHandshake \/ serve

-----------------------------------------------------------------------------
\* The connection is lost, with what is on its way from one of these places on.
CutAt(octs) ==
  LET h == readTagLength(octs)
  IN  {0, Len(octs)} \cup {n \in {1, Len(octs) - 1, h.size + h.length} : n \in 0..Len(octs)}
cut ==
  /\ ~lost /\ session.pc # "none" /\ ~(tool.pc = "exited" /\ session.pc \in {"ended", "left"})
  /\ lost' = TRUE
  /\ \E n \in CutAt(up), k \in CutAt(down) : up' = Take(up, n) /\ down' = Take(down, k)
  /\ UNCHANGED <<call, opt, server, tool, session, log, leaked>>

Next == ToolStep \/ SessionStep \/ connectFails \/ leave \/ cut

\* Each process goes on while it can.  A connect may fail and may not.
Spec == Init /\ [][Next]_vars /\ WF_vars(ToolStep \/ connectFails) /\ WF_vars(SessionStep)

-----------------------------------------------------------------------------
\* The type of the state.  What is on its way are octets, the tool waits for an
\* answer only to a request it still has at hand, and it takes the connection for
\* a TLS one only if the session does.
TypeOK ==
  /\ tool.pc \in {"main", "connect", "starttls", "starttlsWait", "hello", "helloWait", "bind",
                  "bindWait", "request", "requestWait", "unbind", "exited"}
  /\ tool.id \in Nat /\ tool.tls \in BOOLEAN /\ tool.round \in 1..2 /\ tool.rc \in Octets
  /\ tool.exit \in Octets \cup {Running, Killed} /\ (tool.exit = Running <=> tool.pc # "exited")
  /\ tool.pc = "requestWait" => tool.todo # << >>
  /\ session.pc \in {"none", "handshake", "serve", "ended", "left"} /\ session.tls \in BOOLEAN
  /\ tool.tls => session.tls
  /\ \A octs \in {up, down, tool.cookie} : ToSet(octs) \subseteq Octets
  /\ lost \in BOOLEAN /\ leaked \in BOOLEAN

\* A list of attributes has no order; changes are made in theirs.
Same(req, meant) ==
  IF meant.op = "AddRequest"
  THEN /\ req.op = meant.op /\ req.data.dn = meant.data.dn
       /\ ToSet(req.data.attributes) = ToSet(meant.data.attributes)
       /\ Len(req.data.attributes) = Len(meant.data.attributes)
  ELSE req = meant

\* Through arguments, LDIF, filter text, BER and the stream, whatever its length
\* and wherever the connection breaks, the session carries out what the user has
\* asked for: the n-th request it acts on is the n-th one meant, every page of a
\* search is of the search meant, and nothing else is acted on.
CarriedOutAsMeant ==
  \A i \in DOMAIN log :
    LET n == IF call.tool = "ldapsearch" THEN 1 ELSE i
    IN  n <= Len(call.want) /\ Same(log[i].req, call.want[n])

\* What may make a tool give up a connection that it has opened.
TooLarge ==
  \E r \in ToSet(requests(call, opt)) :
    Len(encodeLdapMessage(make(1, r.op, r.data))) > server.maxPdu
Broken == lost \/ session.pc = "left" \/ TooLarge

Said == FlattenSeq([i \in DOMAIN log |-> log[i].said])

\* The exit status and the output are true of what the server has done: 0 says
\* that everything asked for was done and all of the answer is printed, another
\* code is the result of the last request (or, in ldapsearch, of the bind), and
\* a tool gives a connection up (52; 1 in ldapsearch) only if it broke.  After a
\* request that failed, no other is carried out.
ExitTellsTruth ==
  /\ \A i \in 1..(Len(log) - 1) : log[i].result = Success
  /\ IsPrefix(tool.printed, Said)
  /\ tool.exit = Success =>
       /\ log # << >> => Last(log).result = Success
       /\ IF call.tool = "ldapsearch" THEN call.want # << >> => tool.printed = Found
          ELSE Len(log) = Len(call.want) /\ tool.printed = Said
  /\ tool.exit \notin {Running, Killed, Success, 1, Unavailable} =>
       IF log = << >> THEN call.tool = "ldapsearch" ELSE Last(log).result = tool.exit
  /\ tool.exit = 1 /\ log # << >> =>
       Last(log).result = OperationsError \/ (call.tool = "ldapsearch" /\ Broken)
  /\ tool.exit = Unavailable => Broken

\* The user asks for TLS: with -Z, or with an ldaps URI that no later -H or -h
\* replaces.
AsksForTls(argv) ==
  \E i \in DOMAIN argv :
    \/ argv[i].flag = "-Z"
    \/ /\ argv[i].flag = "-H" /\ argv[i].has /\ argv[i].arg.scheme = "ldaps"
       /\ \A j \in DOMAIN argv : j > i /\ argv[j].has => argv[j].flag \notin {"-H", "-h"}

\* A user who asks for TLS sends no password in clear, whatever the server
\* answers and however the handshake goes.
SecretsProtected == AsksForTls(call.argv) => ~leaked

\* A tool comes to an end, wherever the connection breaks and whatever cannot be
\* read.
ToolEnds == <>(tool.pc = "exited")
=============================================================================
