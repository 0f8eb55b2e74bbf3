------------------------------- MODULE Daemon -------------------------------
(***************************************************************************)
(* The threads of core/daemon.cpp and the connections they serve.          *)
(*                                                                         *)
(* The main thread starts the listeners and the accept thread, and later   *)
(* stops both.  The accept thread polls the listeners in turn, reaps       *)
(* session threads that are done, and starts one session thread for each   *)
(* connection.  A session waits for input in slices of 200 ms, between     *)
(* which it looks at running_ and at its idle time; once a byte is there   *)
(* it reads the whole PDU, answers, and starts over.  Sockets block:       *)
(* reading the rest of a PDU, sending to a client that does not read, and  *)
(* a TLS handshake take as long as the client likes.                       *)
(*                                                                         *)
(* Nothing turns SIGPIPE off, so a write to a client that has gone may     *)
(* succeed, fail, or end the process.                                      *)
(*                                                                         *)
(* What a request does to the directory is the subject of Directory.       *)
(***************************************************************************)
EXTENDS Naturals, FiniteSets

CONSTANTS
  Clients,       \* connections, each made at most once
  Port,          \* the listener each client connects to: "ldap" or "ldaps"
  EnableLdaps,   \* config enable_ldaps
  MaxSessions,   \* config max_sessions, 0 for no limit
  IdlePolls      \* config idle_timeout in slices of 200 ms, 0 for none

Ports == IF EnableLdaps THEN {"ldap", "ldaps"} ELSE {"ldap"}

ASSUME DaemonAssumption ==
  /\ EnableLdaps \in BOOLEAN
  /\ Port \in [Clients -> Ports]
  /\ MaxSessions \in Nat /\ IdlePolls \in Nat

VARIABLES
  main,       \* the main thread: what it does next
  running,    \* running_
  listening,  \* the ports that have an open listener
  acc,        \* the accept thread: what it does next, and the connection it holds
  workers,    \* workers_, by the client each thread serves
  reaping,    \* the threads reapWorkers moved out of workers_ and joins
  live,       \* the threads joinWorkers moved out of workers_ and joins
  con         \* each connection, with the session thread that serves it

vars == <<main, running, listening, acc, workers, reaping, live, con>>
pool == <<workers, reaping, live>>

\* state   new, pending in the backlog, accepted, open in a session, closed
\* thr     the session thread, "none" before it is started
\* input   what is there to read: nothing, a part of a PDU, all of one
\* gone    the client has closed its end
\* idle    slices since last_activity
Fresh == [state |-> "new", thr |-> "none", tls |-> FALSE, input |-> "nothing",
          gone |-> FALSE, idle |-> 0]
NoConn == "none"

Threads == {c \in Clients : con[c].thr \notin {"none", "joined"}}

-----------------------------------------------------------------------------
(* The main thread.                                                        *)

\* close() of a listener resets what waits in its backlog.
CloseListener(p) ==
  /\ listening' = listening \ {p}
  /\ con' = [c \in Clients |->
               IF Port[c] = p /\ con[c].state = "pending"
               THEN [Fresh EXCEPT !.state = "closed"] ELSE con[c]]

\* start() calls initialize(): a configuration that is not valid, a SQLite file
\* that cannot be opened and certificates that cannot be loaded end main().
initialize ==
  /\ main = "off"
  /\ main' \in {"initialized", "stopped"}
  /\ UNCHANGED <<running, listening, acc, pool, con>>

\* Then the LDAP listener, or the end of main() if it cannot be opened.
start ==
  /\ main = "initialized"
  /\ \/ listening' = {"ldap"} /\ main' = "starting"
     \/ listening' = {} /\ main' = "stopped"
  /\ UNCHANGED <<running, acc, pool, con>>

\* Then the LDAPS listener, and the accept thread.
startAccept ==
  /\ main = "starting"
  /\ listening' = Ports
  /\ running' = TRUE
  /\ acc' = [pc |-> "loop", conn |-> NoConn]
  /\ main' = "up"
  /\ UNCHANGED <<pool, con>>

\* The LDAPS listener cannot be opened.
startFails ==
  /\ main = "starting" /\ EnableLdaps
  /\ CloseListener("ldap")
  /\ main' = "stopped"
  /\ UNCHANGED <<running, acc, pool>>

\* A signal arrived: stop().
stop ==
  /\ main = "up"
  /\ running' = FALSE
  /\ main' = "closeLdap"
  /\ UNCHANGED <<listening, acc, pool, con>>

stopListener ==
  /\ main = "closeLdap" /\ CloseListener("ldap") /\ main' = "closeLdaps"
  /\ UNCHANGED <<running, acc, pool>>

stopLdapsListener ==
  /\ main = "closeLdaps" /\ CloseListener("ldaps") /\ main' = "joinAccept"
  /\ UNCHANGED <<running, acc, pool>>

\* Mutant: the workers are joined before the accept thread is.
joinAccept_skipped ==
  /\ main = "joinAccept"
  /\ main' = "joinWorkers"
  /\ UNCHANGED <<running, listening, acc, pool, con>>

joinAccept ==
  /\ main = "joinAccept" /\ acc.pc = "exited"
  /\ main' = "joinWorkers"
  /\ UNCHANGED <<running, listening, acc, pool, con>>

\* joinWorkers takes the threads out of workers_ under workers_mutex_ ...
joinWorkers ==
  /\ main = "joinWorkers"
  /\ live' = workers /\ workers' = {}
  /\ main' = "joining"
  /\ UNCHANGED <<running, listening, acc, reaping, con>>

\* ... and joins them one after the other.
Joined(S) == [c \in Clients |-> IF c \in S THEN [con[c] EXCEPT !.thr = "joined"] ELSE con[c]]

joinLive ==
  /\ main = "joining"
  /\ \A c \in live : con[c].thr = "finished"
  /\ con' = Joined(live) /\ live' = {}
  /\ main' = "stopped"
  /\ UNCHANGED <<running, listening, acc, workers, reaping>>

-----------------------------------------------------------------------------
(* The accept thread.                                                      *)

\* What acceptLoop does after port p.
After(p) == IF p = "ldap" /\ EnableLdaps THEN "ldaps" ELSE "loop"

\* while (running_.load())
acceptLoop ==
  /\ acc.pc = "loop"
  /\ acc' = [acc EXCEPT !.pc = IF running THEN "ldap" ELSE "exited"]
  /\ UNCHANGED <<main, running, listening, pool, con>>

\* acceptConnection(100): a connection of the backlog ...
acceptConnection(c) ==
  /\ acc.pc = Port[c] /\ Port[c] \in listening
  /\ con[c].state = "pending"
  /\ con' = [con EXCEPT ![c].state = "accepted"]
  /\ acc' = [pc |-> "reap", conn |-> c]
  /\ UNCHANGED <<main, running, listening, pool>>

\* ... or none: it timed out, or the listener has been closed.
acceptNothing ==
  /\ acc.pc \in {"ldap", "ldaps"}
  /\ \A c \in Clients : Port[c] = acc.pc => con[c].state # "pending"
  /\ acc' = [acc EXCEPT !.pc = After(@)]
  /\ UNCHANGED <<main, running, listening, pool, con>>

\* ... or accept() fails, for want of a file descriptor say, and the connection
\* stays in the backlog.
acceptFails(c) ==
  /\ acc.pc = Port[c] /\ Port[c] \in listening
  /\ con[c].state = "pending"
  /\ acc' = [acc EXCEPT !.pc = After(@)]
  /\ UNCHANGED <<main, running, listening, pool, con>>

\* Mutant: every worker is joined, finished or not.
Reapable_all == workers

\* launchSession starts with reapWorkers: the threads whose finished flag is
\* set leave workers_ ...
Reapable == {c \in workers : con[c].thr = "finished"}

\* Mutant: a reaped worker stays in workers_.
reapWorkers_noErase ==
  /\ acc.pc = "reap"
  /\ reaping' = Reapable
  /\ acc' = [acc EXCEPT !.pc = "reapJoin"]
  /\ UNCHANGED <<main, running, listening, workers, live, con>>

reapWorkers ==
  /\ acc.pc = "reap"
  /\ reaping' = Reapable
  /\ workers' = workers \ Reapable
  /\ acc' = [acc EXCEPT !.pc = "reapJoin"]
  /\ UNCHANGED <<main, running, listening, live, con>>

\* ... and are joined outside the lock.
reapJoin ==
  /\ acc.pc = "reapJoin"
  /\ \A c \in reaping : con[c].thr = "finished"
  /\ con' = Joined(reaping) /\ reaping' = {}
  /\ acc' = [acc EXCEPT !.pc = "launch"]
  /\ UNCHANGED <<main, running, listening, workers, live>>

\* Mutant: off by one.
Full_offByOne == MaxSessions > 0 /\ Cardinality(workers) > MaxSessions

Full == MaxSessions > 0 /\ Cardinality(workers) >= MaxSessions

\* The connection is closed at once if max_sessions is reached, else it gets
\* a thread, which is not in workers_ yet.
launchSession ==
  LET c == acc.conn
  IN  /\ acc.pc = "launch"
      /\ con' = [con EXCEPT ![c] = IF Full THEN [Fresh EXCEPT !.state = "closed"]
                                   ELSE [@ EXCEPT !.state = "open", !.thr = "start"]]
      /\ acc' = IF Full THEN [pc |-> After(Port[c]), conn |-> NoConn]
                        ELSE [acc EXCEPT !.pc = "push"]
      /\ UNCHANGED <<main, running, listening, pool>>

\* workers_.push_back
launchPush ==
  /\ acc.pc = "push"
  /\ workers' = workers \cup {acc.conn}
  /\ acc' = [pc |-> After(Port[acc.conn]), conn |-> NoConn]
  /\ UNCHANGED <<main, running, listening, reaping, live, con>>

-----------------------------------------------------------------------------
(* The session threads.                                                    *)

\* A step of the thread that serves c, which leaves everything else alone.
Session(c, new) ==
  /\ con' = [con EXCEPT ![c] = new]
  /\ UNCHANGED <<main, running, listening, acc, pool>>

Goes(c, next) == Session(c, [con[c] EXCEPT !.thr = next])

\* serveConnection
serveConnection(c) ==
  /\ con[c].thr = "start"
  /\ Goes(c, IF Port[c] = "ldaps" THEN "handshake" ELSE "loop")

\* handshakeTls, which needs the client's part of it.
handshakeTls(c) ==
  /\ con[c].thr = "handshake"
  /\ \/ /\ con[c].input = "full"
        /\ \E ok \in BOOLEAN :
             Session(c, [con[c] EXCEPT !.thr = IF ok THEN "loop" ELSE "closing",
                                       !.tls = ok, !.input = "nothing"])
     \/ con[c].gone /\ con[c].input # "full" /\ Goes(c, "closing")

\* Mutant: running_ is not looked at.
serve_always(c) == con[c].thr = "loop" /\ Goes(c, "wait")

\* serve(): while (running_.load())
serve(c) == con[c].thr = "loop" /\ Goes(c, IF running THEN "wait" ELSE "closing")

\* waitReadable(200).  Only a slice without input counts as idle.
Readable(c) == con[c].input # "nothing" \/ con[c].gone
\* Mutants: last_activity is set in every slice; the remaining time is
\* counted down past zero.
waitReadable_refreshes(c) ==
  con[c].thr = "wait" /\ Goes(c, IF Readable(c) THEN "read" ELSE "loop")
waitReadable_countsDown(c) ==
  /\ con[c].thr = "wait"
  /\ IF Readable(c) THEN Goes(c, "read")
     ELSE Session(c, [con[c] EXCEPT !.thr = "loop", !.idle = @ - 1])

waitReadable(c) ==
  /\ con[c].thr = "wait"
  /\ IF Readable(c) THEN Goes(c, "read")
     ELSE IF IdlePolls > 0 /\ con[c].idle + 1 >= IdlePolls THEN Goes(c, "closing")
     ELSE Session(c, [con[c] EXCEPT !.thr = "loop",
                                    !.idle = IF IdlePolls > 0 THEN @ + 1 ELSE 0])

\* Mutant: the end of the stream is not noticed.
recvPdu_ignoresEof(c) ==
  /\ con[c].thr = "read" /\ con[c].input = "full"
  /\ Session(c, [con[c] EXCEPT !.thr = "send", !.input = "nothing", !.idle = 0])

\* recvPdu returns once the PDU is complete or the client has gone.  The
\* session ends on a PDU that is too long, does not decode or is an Unbind;
\* a StartTLS that is granted ends in a handshake; all else is answered.
recvPdu(c) ==
  /\ con[c].thr = "read"
  /\ \/ /\ con[c].input = "full"
        /\ \E next \in {"closing", "send"} \cup (IF con[c].tls THEN {} ELSE {"sendTls"}) :
             Session(c, [con[c] EXCEPT !.thr = next, !.input = "nothing", !.idle = 0])
     \/ con[c].gone /\ con[c].input # "full" /\ Goes(c, "closing")

\* The handler runs and send() writes the answer, which takes the client to
\* read it ...
AfterSend(c) == IF con[c].thr = "send" THEN "loop" ELSE "handshake"
send(c) ==
  /\ con[c].thr \in {"send", "sendTls"} /\ ~con[c].gone
  /\ Goes(c, AfterSend(c))

\* ... or go, which the first write may not notice.
sendFails(c) ==
  /\ con[c].thr \in {"send", "sendTls"} /\ con[c].gone
  /\ Goes(c, AfterSend(c)) \/ Goes(c, "closing")

\* The session is destroyed, which closes the connection; then the flag is set.
closeConnection(c) ==
  /\ con[c].thr = "closing"
  /\ Session(c, [Fresh EXCEPT !.thr = "ended", !.state = "closed"])

finish(c) == con[c].thr = "ended" /\ Goes(c, "finished")

\* The steps that write to the socket: send(), a handshake that has a ClientHello
\* to answer, and SSL_shutdown.
Writing(c) == \/ con[c].thr \in {"send", "sendTls"}
              \/ con[c].thr = "handshake" /\ con[c].input = "full"
              \/ con[c].thr = "closing" /\ con[c].tls

\* SIGPIPE: the process is gone, and every connection with it.
brokenPipe(c) ==
  /\ con[c].gone /\ Writing(c)
  /\ main' = "dead" /\ running' = FALSE /\ listening' = {}
  /\ acc' = [pc |-> "exited", conn |-> NoConn]
  /\ workers' = {} /\ reaping' = {} /\ live' = {}
  /\ con' = [d \in Clients |-> IF con[d].state = "new" THEN con[d]
                               ELSE [Fresh EXCEPT !.state = "closed"]]

-----------------------------------------------------------------------------
(* The clients.                                                            *)

Connected(c) == con[c].state \in {"pending", "accepted", "open"} /\ ~con[c].gone

connect(c) ==
  /\ con[c].state = "new" /\ Port[c] \in listening
  /\ Session(c, [con[c] EXCEPT !.state = "pending"])

sendPart(c) ==
  /\ Connected(c) /\ con[c].input = "nothing"
  /\ Session(c, [con[c] EXCEPT !.input = "partial"])

sendRest(c) ==
  /\ Connected(c) /\ con[c].input # "full"
  /\ Session(c, [con[c] EXCEPT !.input = "full"])

disconnect(c) == Connected(c) /\ Session(c, [con[c] EXCEPT !.gone = TRUE])

-----------------------------------------------------------------------------
Init ==
  /\ main = "off" /\ running = FALSE /\ listening = {}
  /\ acc = [pc |-> "exited", conn |-> NoConn]
  /\ workers = {} /\ reaping = {} /\ live = {}
  /\ con = [c \in Clients |-> Fresh]

MainThread == \/ startAccept \/ stopListener \/ stopLdapsListener
              \/ joinAccept \/ joinWorkers \/ joinLive
AcceptThread == \/ acceptLoop \/ acceptNothing \/ reapWorkers \/ reapJoin
                \/ launchSession \/ launchPush
                \/ \E c \in Clients : acceptConnection(c) \/ acceptFails(c)
SessionThread(c) == \/ serveConnection(c) \/ handshakeTls(c) \/ serve(c)
                    \/ waitReadable(c) \/ recvPdu(c) \/ sendFails(c)
                    \/ closeConnection(c) \/ finish(c)
Client(c) == \/ connect(c) \/ sendPart(c) \/ sendRest(c) \/ disconnect(c)
             \/ send(c)

Next == \/ MainThread \/ initialize \/ start \/ startFails \/ stop
        \/ AcceptThread
        \/ \E c \in Clients : SessionThread(c) \/ brokenPipe(c) \/ Client(c)

\* Every thread that can go on does, in the end.  Nobody has to stop the
\* daemon, and no client has to do anything, which is why send() to a client
\* that stays is not among the steps of the session thread.
ServerFairness ==
  /\ WF_vars(MainThread)
  /\ WF_vars(AcceptThread)
  /\ \A c \in Clients : WF_vars(SessionThread(c))

Spec == Init /\ [][Next]_vars /\ ServerFairness

\* A client that owes the rest of a PDU or of a handshake, or has an answer
\* to read, does its part in the end or hangs up.
Owes(c) == \/ con[c].input = "partial"
           \/ con[c].thr = "handshake" /\ con[c].input = "nothing"
DoesItsPart(c) == send(c) \/ (Owes(c) /\ (sendRest(c) \/ disconnect(c)))

Cooperation == \A c \in Clients : WF_vars(DoesItsPart(c))

\* The system does not go on refusing accept() for ever.
DescriptorsFree == \A c \in Clients : SF_vars(acceptConnection(c))

-----------------------------------------------------------------------------
MainStates == {"off", "initialized", "starting", "up", "closeLdap", "closeLdaps", "joinAccept",
               "joinWorkers", "joining", "stopped", "dead"}
AcceptStates == {"loop", "ldap", "ldaps", "reap", "reapJoin", "launch", "push", "exited"}
SessionStates == {"none", "start", "handshake", "loop", "wait", "read", "send", "sendTls",
                  "closing", "ended", "finished", "joined"}

Connections ==
  [state : {"new", "pending", "accepted", "open", "closed"}, thr : SessionStates,
   tls : BOOLEAN, input : {"nothing", "partial", "full"}, gone : BOOLEAN,
   idle : Nat]

\* Each thread is at one of its steps, the lists of threads hold session
\* threads, and the time since last_activity never runs backwards.
TypeOK ==
  /\ main \in MainStates /\ running \in BOOLEAN /\ listening \subseteq Ports
  /\ acc \in [pc : AcceptStates, conn : Clients \cup {NoConn}]
  /\ workers \subseteq Clients /\ reaping \subseteq Clients /\ live \subseteq Clients
  /\ con \in [Clients -> Connections]

\* max_sessions bounds the session threads that exist, those that are done
\* and not joined and the one not yet in workers_ included.
SessionsBounded == MaxSessions > 0 => Cardinality(Threads) <= MaxSessions

\* Each of them is in exactly one place that will join it: a std::thread
\* that is destroyed unjoined ends the process.
Launching == IF acc.pc = "push" THEN {acc.conn} ELSE {}
Places == [workers |-> workers, reaping |-> reaping, live |-> live, launching |-> Launching]
Owners(c) == {o \in DOMAIN Places : c \in Places[o]}
ThreadsOwned == \A c \in Clients : Cardinality(Owners(c)) = (IF c \in Threads THEN 1 ELSE 0)

\* When stop() has returned, no thread of the daemon runs (the backend, the
\* configuration and the session state may be destroyed) and every
\* connection is closed, also one accepted while stop() was under way.
NothingSurvivesStop ==
  main = "stopped" =>
    /\ acc.pc = "exited" /\ Threads = {}
    /\ \A c \in Clients : con[c].state \in {"new", "closed"}

\* "A stuck client no longer blocks accept of others": a connection in the
\* backlog is given a session or turned away whatever the clients do, unless
\* accept() itself fails for ever.
AcceptNotBlocked ==
  DescriptorsFree =>
    \A c \in Clients :
      (con[c].state \in {"pending", "accepted"}) ~> (con[c].state \in {"open", "closed"})

\* A client that stays silent between requests is disconnected.
Silent(c) == con[c].input = "nothing" /\ ~con[c].gone
IdleSessionsEnd ==
  IdlePolls > 0 =>
    \A c \in Clients :
      (con[c].thr = "wait" /\ Silent(c)) ~> (~Silent(c) \/ con[c].state = "closed")

\* The session of a client that has gone comes to an end, wherever it was.
DisconnectEndsSession ==
  \A c \in Clients : (con[c].state = "open" /\ con[c].gone) ~> (con[c].state = "closed")

\* "`stop()` sets `running_` false and joins workers": it returns.
Stopping == {"closeLdap", "closeLdaps", "joinAccept", "joinWorkers", "joining"}
StopReturns == (main \in Stopping) ~> (main \in {"stopped", "dead"})

\* It does if no client leaves a session waiting for it.
StopReturnsWithCooperation == Cooperation => StopReturns

\* "The process stays in the foreground": it ends by a signal to stop, never
\* because of what a client does.
StaysUp == main # "dead"
=============================================================================
