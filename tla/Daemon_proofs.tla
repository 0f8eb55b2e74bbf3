---------------------------- MODULE Daemon_proofs ----------------------------
(***************************************************************************)
(* Proofs about Daemon, for every set of connections, both settings of     *)
(* enable_ldaps, and every max_sessions and idle_timeout: max_sessions     *)
(* bounds the session threads, each thread has one owner that joins it,    *)
(* and stop() leaves nothing behind.                                       *)
(***************************************************************************)
EXTENDS Daemon, FiniteSetTheorems, TLAPS

-----------------------------------------------------------------------------
(* The inductive invariant.                                                *)

Serving == {"start", "handshake", "loop", "wait", "read", "send", "sendTls", "closing"}

\* A connection has a session thread at work exactly while it is open, and
\* none before it is accepted.
Coherent(k) ==
  /\ k.state = "open" <=> k.thr \in Serving
  /\ k.state \in {"new", "pending", "accepted"} => k.thr = "none"

\* What waits in a backlog waits at an open listener, and the accept thread
\* holds what is accepted and not served yet.
ConnectionsKept ==
  \A c \in Clients :
    /\ Coherent(con[c])
    /\ con[c].state = "pending" => Port[c] \in listening
    /\ con[c].state = "accepted" => acc.pc \in {"reap", "reapJoin", "launch"} /\ acc.conn = c

\* From acceptConnection to the push_back the accept thread holds one
\* connection, which has no thread yet before launchSession.
AcceptHolds ==
  /\ acc.pc \in {"reap", "reapJoin", "launch", "push"} => acc.conn \in Clients
  /\ acc.pc \in {"reap", "reapJoin", "launch"} => con[acc.conn].state = "accepted"

\* The threads are those in workers_, in the two local lists and the one
\* about to be pushed, and these do not meet.
Partition ==
  /\ Threads = workers \cup reaping \cup live \cup Launching
  /\ workers \cap reaping = {} /\ workers \cap live = {} /\ reaping \cap live = {}
  /\ Launching \cap (workers \cup reaping \cup live) = {}

\* The local lists are empty except while they are joined.
ListsLocal ==
  /\ reaping # {} => acc.pc = "reapJoin"
  /\ live # {} => main = "joining"
  /\ \A c \in reaping : con[c].thr = "finished"

\* Only a daemon that is up or stopping has an accept thread, only one that
\* has not joined its workers has session threads, and the listeners open
\* and close in step with the main thread.
Phases ==
  /\ acc.pc # "exited" => main \in {"up", "closeLdap", "closeLdaps", "joinAccept"}
  /\ main = "joining" => workers = {}
  /\ main \in {"off", "initialized", "starting", "stopped", "dead"} => Threads = {}
  /\ main = "starting" => listening = {"ldap"}
  /\ main = "closeLdaps" => "ldap" \notin listening
  /\ main \in {"off", "initialized", "joinAccept", "joinWorkers", "joining", "stopped", "dead"}
       => listening = {}

\* There is room for the connections that have a thread.
Room == MaxSessions > 0 => IsFiniteSet(Threads) /\ Cardinality(Threads) <= MaxSessions

IInv == TypeOK /\ ConnectionsKept /\ AcceptHolds /\ Partition /\ ListsLocal /\ Phases /\ Room

-----------------------------------------------------------------------------
(* Which steps keep it.                                                    *)

\* The initial state has no connection and no thread.
LEMMA InitKeeps ==
  ASSUME Init PROVE IInv
<1> USE DEF Init
<1>1. Threads = {} /\ Launching = {}
  BY DEF Threads, Fresh, Launching
<1>2. TypeOK
  BY DaemonAssumption DEF TypeOK, MainStates, AcceptStates, SessionStates, Connections, Fresh, NoConn
<1>3. Room
  BY <1>1, FS_EmptySet, DaemonAssumption DEF Room
<1> QED
  BY <1>1, <1>2, <1>3
  DEF IInv, ConnectionsKept, Coherent, Serving, Fresh, AcceptHolds, Partition, ListsLocal, Phases

\* Fewer threads need no more room.
LEMMA FewerThreads ==
  ASSUME Room, Threads' \subseteq Threads PROVE Room'
<1> SUFFICES ASSUME MaxSessions > 0
             PROVE  IsFiniteSet(Threads') /\ Cardinality(Threads') <= MaxSessions
  BY DEF Room
<1>1. IsFiniteSet(Threads) /\ Cardinality(Threads) <= MaxSessions
  BY DEF Room
<1>2. IsFiniteSet(Threads') /\ Cardinality(Threads') <= Cardinality(Threads)
  BY <1>1, FS_Subset
<1>3. Cardinality(Threads) \in Nat /\ Cardinality(Threads') \in Nat
  BY <1>1, <1>2, FS_CardinalityType
<1> QED BY <1>1, <1>2, <1>3, DaemonAssumption

\* A step of one connection that neither starts nor joins its thread.
LEMMA SessionKeeps ==
  ASSUME IInv, NEW c \in Clients, NEW new \in Connections, Session(c, new),
         Coherent(new),
         con[c].thr \in {"none", "joined"} <=> new.thr \in {"none", "joined"},
         con[c].thr = "finished" => new.thr = "finished",
         con[c].state = "accepted" <=> new.state = "accepted",
         new.state = "pending" => Port[c] \in listening
  PROVE  IInv'
<1> USE DEF Session, pool
<1>1. con \in [Clients -> Connections] /\ con' = [con EXCEPT ![c] = new]
  BY DEF IInv, TypeOK
<1>2. Threads' = Threads /\ Launching' = Launching
  BY <1>1 DEF Threads, Launching
<1>3. TypeOK'
  BY <1>1 DEF IInv, TypeOK
<1>4. ConnectionsKept'
  BY <1>1 DEF IInv, ConnectionsKept
<1>5. AcceptHolds'
  BY <1>1 DEF IInv, AcceptHolds
<1>6. Partition' /\ Phases' /\ Room'
  BY <1>2 DEF IInv, Partition, Phases, Room
<1>7. ListsLocal'
  BY <1>1 DEF IInv, ListsLocal, TypeOK
<1> QED BY <1>3, <1>4, <1>5, <1>6, <1>7 DEF IInv

\* Such a step that only moves the thread from one place of its loop to another.
LEMMA ServingKeeps ==
  ASSUME IInv, NEW c \in Clients, NEW new \in Connections, Session(c, new),
         con[c].thr \in Serving, new.thr \in Serving, new.state = con[c].state
  PROVE  IInv'
<1>1. Coherent(con[c]) /\ con[c].state = "open"
  BY DEF IInv, ConnectionsKept, Coherent
<1> QED BY <1>1, SessionKeeps DEF Coherent, Serving

\* The session threads.
LEMMA SessionThreadKeeps ==
  ASSUME IInv, NEW c \in Clients, SessionThread(c) \/ send(c)
  PROVE  IInv'
<1>1. con[c] \in Connections /\ Coherent(con[c])
  BY DEF IInv, TypeOK, ConnectionsKept
<1> DEFINE To(next) == [con[c] EXCEPT !.thr = next]
<1>2. ASSUME con[c].thr \in Serving, NEW next \in Serving, Goes(c, next)
      PROVE  IInv'
  <2>1. To(next) \in Connections /\ To(next).thr = next /\ To(next).state = con[c].state
    BY <1>1, <1>2 DEF Connections, SessionStates, Serving
  <2>2. Session(c, To(next))
    BY <1>2 DEF Goes
  <2> HIDE DEF To
  <2> QED BY <1>2, <2>1, <2>2, ServingKeeps
<1>3. CASE serveConnection(c)
  BY <1>2, <1>3 DEF serveConnection, Serving
<1>4. CASE handshakeTls(c)
  <2>1. CASE con[c].gone /\ con[c].input # "full" /\ Goes(c, "closing")
    BY <1>2, <1>4, <2>1 DEF handshakeTls, Serving
  <2>2. ASSUME NEW ok \in BOOLEAN,
               Session(c, [con[c] EXCEPT !.thr = IF ok THEN "loop" ELSE "closing",
                                         !.tls = ok, !.input = "nothing"])
        PROVE  IInv'
    <3> DEFINE new == [con[c] EXCEPT !.thr = IF ok THEN "loop" ELSE "closing",
                                     !.tls = ok, !.input = "nothing"]
    <3>1. new \in Connections /\ new.thr \in Serving /\ new.state = con[c].state
      <4>1. CASE ok = TRUE
        BY <1>1, <4>1 DEF Connections, SessionStates, Serving
      <4>2. CASE ok = FALSE
        BY <1>1, <4>2 DEF Connections, SessionStates, Serving
      <4> QED BY <4>1, <4>2
    <3>2. con[c].thr \in Serving
      BY <1>4 DEF handshakeTls, Serving
    <3>3. Session(c, new)
      BY <2>2
    <3> HIDE DEF new
    <3> QED BY <3>1, <3>2, <3>3, ServingKeeps
  <2> QED BY <1>4, <2>1, <2>2 DEF handshakeTls
<1>5. CASE serve(c)
  BY <1>2, <1>5 DEF serve, Serving
<1>6. CASE waitReadable(c)
  <2> DEFINE new == [con[c] EXCEPT !.thr = "loop", !.idle = IF IdlePolls > 0 THEN @ + 1 ELSE 0]
  <2>1. new \in Connections /\ new.thr \in Serving /\ new.state = con[c].state
    <3> DEFINE n == IF IdlePolls > 0 THEN con[c].idle + 1 ELSE 0
    <3>1. con[c].idle \in Nat
      BY <1>1 DEF Connections
    <3>2. n \in Nat
      BY <3>1
    <3>3. new = [con[c] EXCEPT !.thr = "loop", !.idle = n]
      OBVIOUS
    <3> HIDE DEF n, new
    <3> QED BY <1>1, <3>2, <3>3 DEF Connections, SessionStates, Serving
  <2>2. con[c].thr \in Serving
    BY <1>6 DEF waitReadable, Serving
  <2>3. Goes(c, "read") \/ Goes(c, "closing") \/ Session(c, new)
    BY <1>6 DEF waitReadable
  <2> HIDE DEF new
  <2>4. CASE Session(c, new)
    BY <2>1, <2>2, <2>4, ServingKeeps
  <2> QED BY <1>2, <2>2, <2>3, <2>4 DEF Serving
<1>7. CASE recvPdu(c)
  <2>1. CASE con[c].gone /\ con[c].input # "full" /\ Goes(c, "closing")
    BY <1>2, <1>7, <2>1 DEF recvPdu, Serving
  <2>2. ASSUME NEW next \in {"closing", "send", "sendTls"},
               Session(c, [con[c] EXCEPT !.thr = next, !.input = "nothing", !.idle = 0])
        PROVE  IInv'
    <3> DEFINE new == [con[c] EXCEPT !.thr = next, !.input = "nothing", !.idle = 0]
    <3>1. new \in Connections /\ new.thr \in Serving /\ new.state = con[c].state
      BY <1>1 DEF Connections, SessionStates, Serving
    <3>2. con[c].thr \in Serving
      BY <1>7 DEF recvPdu, Serving
    <3>3. Session(c, new)
      BY <2>2
    <3> HIDE DEF new
    <3> QED BY <3>1, <3>2, <3>3, ServingKeeps
  <2> QED BY <1>7, <2>1, <2>2 DEF recvPdu
<1>8. CASE sendFails(c) \/ send(c)
  BY <1>2, <1>8 DEF sendFails, send, AfterSend, Serving
<1>9. CASE closeConnection(c)
  <2> DEFINE new == [Fresh EXCEPT !.thr = "ended", !.state = "closed"]
  <2>1. /\ new \in Connections /\ Coherent(new)
        /\ new.thr = "ended" /\ new.state = "closed"
    BY DEF Fresh, Connections, SessionStates, Coherent, Serving
  <2>2. con[c].thr = "closing" /\ con[c].state = "open" /\ Session(c, new)
    BY <1>1, <1>9 DEF closeConnection, Coherent, Serving
  <2> HIDE DEF new
  <2> QED BY <2>1, <2>2, SessionKeeps
<1>10. CASE finish(c)
  <2>1. con[c].thr = "ended" /\ Session(c, To("finished"))
    BY <1>10 DEF finish, Goes
  <2>2. /\ To("finished") \in Connections /\ To("finished").thr = "finished"
        /\ To("finished").state = con[c].state
    BY <1>1 DEF Connections, SessionStates
  <2>3. Coherent(To("finished")) /\ con[c].state = "closed"
    BY <1>1, <2>1, <2>2 DEF Coherent, Serving, Connections
  <2> HIDE DEF To
  <2> QED BY <2>1, <2>2, <2>3, SessionKeeps
<1> QED BY <1>3, <1>4, <1>5, <1>6, <1>7, <1>8, <1>9, <1>10 DEF SessionThread

\* The clients.
LEMMA ClientKeeps ==
  ASSUME IInv, NEW c \in Clients, connect(c) \/ sendPart(c) \/ sendRest(c) \/ disconnect(c)
  PROVE  IInv'
<1>1. /\ con[c] \in Connections /\ Coherent(con[c])
      /\ con[c].state = "pending" => Port[c] \in listening
  BY DEF IInv, TypeOK, ConnectionsKept
<1>2. ASSUME NEW new \in Connections, Session(c, new),
             new.thr = con[c].thr, new.state = con[c].state
      PROVE  IInv'
  <2>1. Coherent(new)
    BY <1>1, <1>2 DEF Coherent
  <2> QED BY <1>1, <1>2, <2>1, SessionKeeps
<1>3. CASE connect(c)
  <2> DEFINE new == [con[c] EXCEPT !.state = "pending"]
  <2>1. new \in Connections /\ new.state = "pending" /\ new.thr = con[c].thr
    BY <1>1 DEF Connections
  <2>2. con[c].state = "new" /\ Port[c] \in listening /\ Session(c, new)
    BY <1>3 DEF connect
  <2>3. Coherent(new) /\ con[c].thr = "none"
    BY <1>1, <2>1, <2>2 DEF Coherent, Serving
  <2> HIDE DEF new
  <2> QED BY <2>1, <2>2, <2>3, SessionKeeps
<1>4. CASE sendPart(c)
  <2> DEFINE new == [con[c] EXCEPT !.input = "partial"]
  <2>1. new \in Connections /\ new.state = con[c].state /\ new.thr = con[c].thr
    BY <1>1 DEF Connections
  <2> QED BY <1>2, <1>4, <2>1 DEF sendPart
<1>5. CASE sendRest(c)
  <2> DEFINE new == [con[c] EXCEPT !.input = "full"]
  <2>1. new \in Connections /\ new.state = con[c].state /\ new.thr = con[c].thr
    BY <1>1 DEF Connections
  <2> QED BY <1>2, <1>5, <2>1 DEF sendRest
<1>6. CASE disconnect(c)
  <2> DEFINE new == [con[c] EXCEPT !.gone = TRUE]
  <2>1. new \in Connections /\ new.state = con[c].state /\ new.thr = con[c].thr
    BY <1>1 DEF Connections
  <2> QED BY <1>2, <1>6, <2>1 DEF disconnect
<1> QED BY <1>3, <1>4, <1>5, <1>6

\* SIGPIPE takes every thread along.
LEMMA BrokenPipeKeeps ==
  ASSUME IInv, NEW c \in Clients, brokenPipe(c)
  PROVE  IInv'
<1> USE DEF brokenPipe
<1>1. \A d \in Clients :
        /\ con'[d] \in Connections /\ con'[d].thr = "none"
        /\ con'[d].state \in {"new", "closed"}
  BY DEF IInv, TypeOK, ConnectionsKept, Coherent, Fresh, Connections, SessionStates
<1>2. Threads' = {} /\ Launching' = {}
  BY <1>1 DEF Threads, Launching
<1>3. TypeOK'
  <2>1. con' \in [Clients -> Connections]
    BY <1>1
  <2> QED BY <2>1 DEF TypeOK, MainStates, AcceptStates
<1>4. Room'
  BY <1>2, FewerThreads DEF IInv
<1> QED
  BY <1>1, <1>2, <1>3, <1>4
  DEF IInv, ConnectionsKept, Coherent, Serving, AcceptHolds, Partition, ListsLocal, Phases

\* The main thread before the accept thread exists: there is nothing to keep.
LEMMA StartKeeps ==
  ASSUME IInv, initialize \/ start \/ startAccept \/ stop
  PROVE  IInv'
<1> USE DEF initialize, start, startAccept, stop, pool
<1>1. Threads' = Threads
  BY DEF Threads
<1>2. Room'
  BY <1>1, FewerThreads DEF IInv
<1>3. TypeOK'
  <2>1. running' \in BOOLEAN /\ listening' \subseteq Ports
    BY DEF IInv, TypeOK, Ports
  <2>2. main' \in MainStates /\ acc' \in [pc : AcceptStates, conn : Clients \cup {NoConn}]
    BY DEF IInv, TypeOK, MainStates, AcceptStates
  <2> QED BY <2>1, <2>2 DEF IInv, TypeOK
<1>4. Launching' = Launching /\ Partition'
  BY <1>1 DEF IInv, Phases, Launching, Partition
<1>5. ConnectionsKept'
  BY DEF IInv, Phases, ConnectionsKept, Ports
<1>6. AcceptHolds' /\ ListsLocal'
  BY DEF IInv, Phases, AcceptHolds, ListsLocal
<1>7. Phases'
  BY <1>1 DEF IInv, Phases
<1> QED BY <1>2, <1>3, <1>4, <1>5, <1>6, <1>7 DEF IInv

\* A listener that is closed takes its backlog along.
LEMMA CloseListenerKeeps ==
  ASSUME IInv, startFails \/ stopListener \/ stopLdapsListener
  PROVE  IInv'
<1> USE DEF startFails, stopListener, stopLdapsListener, pool
<1>1. PICK p \in {"ldap", "ldaps"} : CloseListener(p)
  OBVIOUS
<1>2. \A c \in Clients :
        /\ con'[c] \in Connections /\ Coherent(con'[c])
        /\ con'[c].thr = con[c].thr
        /\ con'[c].state = "pending" => Port[c] \in listening'
        /\ con'[c].state = "accepted" <=> con[c].state = "accepted"
  BY <1>1, DaemonAssumption
  DEF CloseListener, IInv, TypeOK, ConnectionsKept, Coherent, Serving, Fresh, Connections, SessionStates
<1>3. Threads' = Threads /\ Launching' = Launching
  BY <1>2 DEF Threads, Launching
<1>4. Room'
  BY <1>3, FewerThreads DEF IInv
<1>5. TypeOK'
  <2>1. con' \in [Clients -> Connections]
    BY <1>1, <1>2 DEF CloseListener
  <2> QED BY <1>1, <2>1 DEF CloseListener, IInv, TypeOK, MainStates
<1>6. ConnectionsKept'
  BY <1>2 DEF IInv, ConnectionsKept
<1>7. AcceptHolds' /\ ListsLocal' /\ Partition'
  BY <1>2, <1>3 DEF IInv, AcceptHolds, ListsLocal, Partition, TypeOK
<1>8. Phases'
  BY <1>1, <1>3 DEF CloseListener, IInv, Phases, TypeOK, Ports
<1> QED BY <1>4, <1>5, <1>6, <1>7, <1>8 DEF IInv

\* Joining threads that are done, which leaves them out of the lists.
LEMMA JoinedThreads ==
  ASSUME IInv, NEW S \in SUBSET Clients, \A c \in S : con[c].thr = "finished",
         con' = Joined(S)
  PROVE  /\ \A c \in Clients : /\ con'[c] \in Connections /\ Coherent(con'[c])
                               /\ con'[c].state = con[c].state
                               /\ c \notin S => con'[c] = con[c]
         /\ con' \in [Clients -> Connections]
         /\ Threads' = Threads \ S
<1>1. \A c \in Clients :
        con'[c] = IF c \in S THEN [con[c] EXCEPT !.thr = "joined"] ELSE con[c]
  BY DEF Joined
<1>2. \A c \in Clients : con[c] \in Connections /\ Coherent(con[c])
  BY DEF IInv, TypeOK, ConnectionsKept
<1>3. \A c \in S : /\ con'[c] \in Connections /\ Coherent(con'[c])
                   /\ con'[c].state = con[c].state /\ con'[c].thr = "joined"
  <2> TAKE c \in S
  <2>1. con'[c] = [con[c] EXCEPT !.thr = "joined"] /\ con[c] \in Connections
    BY <1>1, <1>2
  <2>2. con'[c] \in Connections /\ con'[c].state = con[c].state /\ con'[c].thr = "joined"
    BY <2>1 DEF Connections, SessionStates
  <2>3. con[c].thr = "finished" /\ Coherent(con[c])
    BY <1>2
  <2> QED BY <2>2, <2>3 DEF Coherent, Serving
<1>4. \A c \in Clients : con'[c] \in Connections
  BY <1>1, <1>2, <1>3
<1> QED BY <1>1, <1>2, <1>3, <1>4 DEF Joined, Threads

\* The end of stop().
LEMMA JoinKeeps ==
  ASSUME IInv, joinAccept \/ joinWorkers \/ joinLive
  PROVE  IInv'
<1>1. CASE joinAccept
  <2>1. Threads' = Threads /\ Launching' = Launching
    BY <1>1 DEF joinAccept, Threads, Launching
  <2> QED BY <1>1, <2>1, FewerThreads
          DEF joinAccept, pool, IInv, TypeOK, MainStates, ConnectionsKept, AcceptHolds,
              ListsLocal, Partition, Phases
<1>2. CASE joinWorkers
  <2>1. Threads' = Threads /\ Launching' = Launching
    BY <1>2 DEF joinWorkers, Threads, Launching
  <2>2. live = {} /\ Launching = {}
    BY <1>2 DEF joinWorkers, IInv, ListsLocal, Phases, Launching
  <2> QED BY <1>2, <2>1, <2>2, FewerThreads
          DEF joinWorkers, IInv, TypeOK, MainStates, ConnectionsKept, AcceptHolds,
              ListsLocal, Partition, Phases
<1>3. CASE joinLive
  <2> USE <1>3 DEF joinLive
  <2>1. live \in SUBSET Clients
    BY DEF IInv, TypeOK
  <2>2. acc.pc = "exited" /\ workers = {} /\ reaping = {} /\ Launching = {} /\ Launching' = {}
    BY DEF IInv, Phases, ListsLocal, Launching
  <2>3. Threads' = {}
    BY <2>1, <2>2, JoinedThreads DEF IInv, Partition
  <2>4. Room'
    BY <2>3, FewerThreads DEF IInv
  <2>5. TypeOK' /\ ConnectionsKept'
    BY <2>1, JoinedThreads DEF IInv, TypeOK, MainStates, ConnectionsKept
  <2> QED BY <2>2, <2>3, <2>4, <2>5
          DEF IInv, AcceptHolds, ListsLocal, Partition, Phases
<1> QED BY <1>1, <1>2, <1>3

\* The accept loop between two connections.
LEMMA AcceptLoopKeeps ==
  ASSUME IInv, acceptLoop \/ acceptNothing \/ \E c \in Clients : acceptFails(c)
  PROVE  IInv'
<1> USE DEF acceptLoop, acceptNothing, acceptFails, pool
<1>0. ASSUME NEW c \in Clients, acceptFails(c) PROVE acc.pc \in {"ldap", "ldaps"}
  BY <1>0 DEF IInv, TypeOK, Ports
<1>1. /\ acc' \in [pc : AcceptStates, conn : Clients \cup {NoConn}]
      /\ acc.pc \in {"loop", "ldap", "ldaps"}
      /\ acc'.pc \in {"loop", "ldap", "ldaps", "exited"}
  <2>1. acc \in [pc : AcceptStates, conn : Clients \cup {NoConn}]
    BY DEF IInv, TypeOK
  <2>2. CASE acceptLoop
    BY <2>1, <2>2 DEF AcceptStates
  <2>3. CASE acceptNothing
    BY <2>1, <2>3 DEF AcceptStates, After
  <2>4. ASSUME NEW c \in Clients, acceptFails(c)
        PROVE  /\ acc.pc \in {"ldap", "ldaps"} /\ acc' = [acc EXCEPT !.pc = After(acc.pc)]
    BY <1>0, <2>4
  <2> QED BY <2>1, <2>2, <2>3, <2>4 DEF AcceptStates, After
<1>2. Threads' = Threads /\ Launching' = {} /\ Launching = {}
  BY <1>1 DEF Threads, Launching
<1>3. Room'
  BY <1>2, FewerThreads DEF IInv
<1>4. TypeOK' /\ Phases'
  BY <1>1, <1>2 DEF IInv, TypeOK, Phases
<1> QED BY <1>1, <1>2, <1>3, <1>4 DEF IInv, ConnectionsKept, AcceptHolds, ListsLocal, Partition

\* A connection leaves the backlog for the accept thread.
LEMMA AcceptKeeps ==
  ASSUME IInv, NEW c \in Clients, acceptConnection(c)
  PROVE  IInv'
<1> USE DEF acceptConnection, pool
<1>1. acc.pc \in {"ldap", "ldaps"}
  BY DaemonAssumption DEF Ports
<1>2. /\ con \in [Clients -> Connections] /\ con' \in [Clients -> Connections]
      /\ con'[c].state = "accepted" /\ con'[c].thr = con[c].thr
      /\ \A d \in Clients \ {c} : con'[d] = con[d]
  BY DEF IInv, TypeOK, Connections
<1>3. con[c].thr = "none" /\ Coherent(con'[c])
  BY <1>2 DEF IInv, ConnectionsKept, Coherent, Serving
<1>4. Threads' = Threads /\ Launching' = {} /\ Launching = {}
  BY <1>1, <1>2 DEF Threads, Launching
<1>5. Room'
  BY <1>4, FewerThreads DEF IInv
<1>6. TypeOK' /\ Phases'
  BY <1>1, <1>2, <1>4 DEF IInv, TypeOK, Phases, AcceptStates
<1>7. ConnectionsKept'
  BY <1>1, <1>2, <1>3 DEF IInv, ConnectionsKept
<1>8. ListsLocal' /\ AcceptHolds'
  BY <1>1, <1>2 DEF IInv, AcceptHolds, ListsLocal
<1> QED BY <1>4, <1>5, <1>6, <1>7, <1>8 DEF IInv, Partition

\* reapWorkers moves threads from one list to the other, and joins them.
LEMMA ReapKeeps ==
  ASSUME IInv, reapWorkers \/ reapJoin
  PROVE  IInv'
<1>1. CASE reapWorkers
  <2> USE <1>1 DEF reapWorkers
  <2>1. Threads' = Threads /\ Launching' = {} /\ Launching = {} /\ acc'.pc = "reapJoin"
    BY DEF IInv, TypeOK, Threads, Launching
  <2>2. Room'
    BY <2>1, FewerThreads DEF IInv
  <2>3. TypeOK' /\ Phases'
    BY <2>1 DEF IInv, TypeOK, Phases, AcceptStates, Reapable
  <2>4. ConnectionsKept' /\ AcceptHolds'
    BY DEF IInv, TypeOK, ConnectionsKept, AcceptHolds
  <2>5. reaping = {} /\ live = {}
    BY DEF IInv, ListsLocal, Phases
  <2> QED BY <2>1, <2>2, <2>3, <2>4, <2>5 DEF IInv, ListsLocal, Partition, Reapable
<1>2. CASE reapJoin
  <2> USE <1>2 DEF reapJoin
  <2>1. reaping \in SUBSET Clients /\ acc'.pc = "launch" /\ acc'.conn = acc.conn
    BY DEF IInv, TypeOK
  <2>2. Threads' = Threads \ reaping /\ Launching' = {} /\ Launching = {}
    BY <2>1, JoinedThreads DEF Launching
  <2>3. Room'
    BY <2>2, FewerThreads DEF IInv
  <2>4. TypeOK' /\ Phases'
    BY <2>1, <2>2, JoinedThreads DEF IInv, TypeOK, Phases, AcceptStates
  <2>5. ConnectionsKept' /\ AcceptHolds'
    BY <2>1, JoinedThreads DEF IInv, ConnectionsKept, AcceptHolds
  <2> QED BY <2>2, <2>3, <2>4, <2>5 DEF IInv, ListsLocal, Partition
<1> QED BY <1>1, <1>2

\* launchSession turns the connection away, or gives it the thread there is
\* room for.
LEMMA LaunchKeeps ==
  ASSUME IInv, launchSession
  PROVE  IInv'
<1> DEFINE c == acc.conn
<1>1. /\ acc.pc = "launch" /\ c \in Clients
      /\ con[c].state = "accepted" /\ con[c].thr = "none"
      /\ reaping = {} /\ live = {} /\ Launching = {} /\ Threads = workers
      /\ main \in {"up", "closeLdap", "closeLdaps", "joinAccept"}
  BY DEF launchSession, IInv, AcceptHolds, ConnectionsKept, Coherent, ListsLocal, Phases,
         Partition, Launching
<1>2. UNCHANGED <<main, running, listening, workers, reaping, live>>
  BY DEF launchSession, pool
<1>3. con \in [Clients -> Connections]
  BY DEF IInv, TypeOK
<1>4. After(Port[c]) \in {"loop", "ldaps"}
  BY DEF After
<1>5. CASE Full
  <2> DEFINE new == [Fresh EXCEPT !.state = "closed"]
  <2>1. con' = [con EXCEPT ![c] = new] /\ acc' = [pc |-> After(Port[c]), conn |-> NoConn]
    BY <1>5 DEF launchSession
  <2>2. new \in Connections /\ Coherent(new) /\ new.state = "closed" /\ new.thr = "none"
    BY DEF Fresh, Connections, SessionStates, Coherent, Serving
  <2> HIDE DEF new, c
  <2>3. Threads' = Threads /\ Launching' = {}
    BY <1>1, <1>3, <1>4, <2>1, <2>2 DEF Threads, Launching
  <2>4. Room'
    BY <2>3, FewerThreads DEF IInv
  <2>5. TypeOK' /\ Phases'
    BY <1>1, <1>2, <1>3, <1>4, <2>1, <2>2, <2>3 DEF IInv, TypeOK, Phases, AcceptStates
  <2>6. ConnectionsKept'
    BY <1>1, <1>2, <1>3, <2>1, <2>2 DEF IInv, ConnectionsKept, c
  <2>7. AcceptHolds' /\ ListsLocal' /\ Partition'
    BY <1>1, <1>2, <1>4, <2>1, <2>3 DEF AcceptHolds, ListsLocal, Partition
  <2> QED BY <2>4, <2>5, <2>6, <2>7 DEF IInv
<1>6. CASE ~Full
  <2> DEFINE new == [con[c] EXCEPT !.state = "open", !.thr = "start"]
  <2>1. con' = [con EXCEPT ![c] = new] /\ acc' = [acc EXCEPT !.pc = "push"]
    BY <1>6 DEF launchSession
  <2>2. new \in Connections /\ Coherent(new) /\ new.state = "open" /\ new.thr = "start"
    BY <1>1, <1>3 DEF Connections, SessionStates, Coherent, Serving
  <2> HIDE DEF new
  <2>3. acc' \in [pc : AcceptStates, conn : Clients \cup {NoConn}] /\ acc'.pc = "push" /\ acc'.conn = c
    BY <2>1 DEF IInv, TypeOK, AcceptStates
  <2>4. c \notin Threads /\ Threads' = Threads \cup {c} /\ Launching' = {c}
    BY <1>1, <1>3, <2>1, <2>2, <2>3 DEF Threads, Launching
  <2>5. Room'
    <3> SUFFICES ASSUME MaxSessions > 0
                 PROVE  IsFiniteSet(Threads') /\ Cardinality(Threads') <= MaxSessions
      BY DEF Room
    <3>1. IsFiniteSet(Threads) /\ ~(Cardinality(Threads) >= MaxSessions)
      BY <1>1, <1>6 DEF Full, IInv, Room
    <3>2. Cardinality(Threads) \in Nat
      BY <3>1, FS_CardinalityType
    <3>3. IsFiniteSet(Threads') /\ Cardinality(Threads') = Cardinality(Threads) + 1
      BY <2>4, <3>1, FS_AddElement
    <3> QED BY <3>1, <3>2, <3>3, DaemonAssumption
  <2>6. TypeOK' /\ Phases'
    BY <1>1, <1>2, <1>3, <2>1, <2>2, <2>3 DEF IInv, TypeOK, Phases
  <2>7. ConnectionsKept'
    BY <1>1, <1>2, <1>3, <2>1, <2>2 DEF IInv, ConnectionsKept
  <2>8. AcceptHolds' /\ ListsLocal' /\ Partition'
    BY <1>1, <1>2, <2>3, <2>4 DEF AcceptHolds, ListsLocal, Partition
  <2> QED BY <2>5, <2>6, <2>7, <2>8 DEF IInv
<1> QED BY <1>5, <1>6

\* workers_.push_back
LEMMA PushKeeps ==
  ASSUME IInv, launchPush
  PROVE  IInv'
<1> USE DEF launchPush
<1>1. acc.conn \in Clients /\ Launching = {acc.conn} /\ reaping = {} /\ live = {}
  BY DEF IInv, AcceptHolds, ListsLocal, Phases, Launching
<1>2. acc'.pc \in {"loop", "ldaps"} /\ Threads' = Threads /\ Launching' = {}
  BY DEF After, Threads, Launching
<1>3. Room'
  BY <1>2, FewerThreads DEF IInv
<1>4. TypeOK' /\ Phases'
  BY <1>1, <1>2 DEF IInv, TypeOK, Phases, AcceptStates, After
<1>5. ConnectionsKept' /\ AcceptHolds' /\ ListsLocal' /\ Partition'
  BY <1>1, <1>2 DEF IInv, ConnectionsKept, AcceptHolds, ListsLocal, Partition
<1> QED BY <1>3, <1>4, <1>5 DEF IInv

-----------------------------------------------------------------------------
(* The theorems.                                                           *)

\* The inductive invariant holds in every state.
THEOREM DaemonInductive == Spec => []IInv
<1>1. ASSUME IInv, [Next]_vars PROVE IInv'
  <2>1. CASE Next
    <3>1. CASE MainThread
      BY <1>1, <3>1, StartKeeps, CloseListenerKeeps, JoinKeeps DEF MainThread
    <3>2. CASE initialize \/ start \/ startFails \/ stop
      BY <1>1, <3>2, StartKeeps, CloseListenerKeeps
    <3>3. CASE AcceptThread
      BY <1>1, <3>3, AcceptLoopKeeps, AcceptKeeps, ReapKeeps, LaunchKeeps, PushKeeps DEF AcceptThread
    <3>4. ASSUME NEW c \in Clients, SessionThread(c) \/ brokenPipe(c) \/ Client(c)
          PROVE  IInv'
      BY <1>1, <3>4, SessionThreadKeeps, BrokenPipeKeeps, ClientKeeps DEF Client
    <3> QED BY <2>1, <3>1, <3>2, <3>3, <3>4 DEF Next
  <2>2. CASE UNCHANGED vars
    <3>1. UNCHANGED <<Threads, Launching>>
      BY <2>2 DEF vars, Threads, Launching
    <3> QED BY <1>1, <2>2, <3>1
            DEF vars, IInv, TypeOK, ConnectionsKept, AcceptHolds, Partition, ListsLocal, Phases, Room
  <2> QED BY <1>1, <2>1, <2>2
<1> QED BY <1>1, InitKeeps, PTL DEF Spec

\* Every thread is at one of its steps, and the idle time of a session, which
\* is subtracted from idle_timeout, never runs backwards.
THEOREM DaemonTyped == Spec => []TypeOK
<1>1. IInv => TypeOK
  BY DEF IInv
<1> QED BY <1>1, DaemonInductive, PTL

\* max_sessions bounds the session threads at every instant, those that are
\* done and not joined yet and the one not yet in workers_ included.
THEOREM ThreadsWithinMaxSessions == Spec => []SessionsBounded
<1>1. IInv => SessionsBounded
  BY DEF IInv, Room, SessionsBounded
<1> QED BY <1>1, DaemonInductive, PTL

\* Each std::thread of a session is in exactly one of the places that join it.
THEOREM EveryThreadOwned == Spec => []ThreadsOwned
<1>1. ASSUME IInv PROVE ThreadsOwned
  <2> SUFFICES ASSUME NEW c \in Clients
               PROVE  Cardinality(Owners(c)) = (IF c \in Threads THEN 1 ELSE 0)
    BY DEF ThreadsOwned
  <2>1. Owners(c) = {o \in {"workers", "reaping", "live", "launching"} : c \in Places[o]}
    BY DEF Owners, Places
  <2>2. /\ Places["workers"] = workers /\ Places["reaping"] = reaping
        /\ Places["live"] = live /\ Places["launching"] = Launching
    BY DEF Places
  <2>3. CASE c \in Threads
    <3>1. \E o : Owners(c) = {o}
      <4>1. c \in workers \/ c \in reaping \/ c \in live \/ c \in Launching
        BY <1>1, <2>3 DEF IInv, Partition
      <4>2. CASE c \in workers
        <5>1. c \notin reaping /\ c \notin live /\ c \notin Launching
          BY <1>1, <4>2 DEF IInv, Partition
        <5>2. Owners(c) = {"workers"}
          BY <2>1, <2>2, <4>2, <5>1
        <5> QED BY <5>2
      <4>3. CASE c \in reaping
        <5>1. c \notin workers /\ c \notin live /\ c \notin Launching
          BY <1>1, <4>3 DEF IInv, Partition
        <5>2. Owners(c) = {"reaping"}
          BY <2>1, <2>2, <4>3, <5>1
        <5> QED BY <5>2
      <4>4. CASE c \in live
        <5>1. c \notin workers /\ c \notin reaping /\ c \notin Launching
          BY <1>1, <4>4 DEF IInv, Partition
        <5>2. Owners(c) = {"live"}
          BY <2>1, <2>2, <4>4, <5>1
        <5> QED BY <5>2
      <4>5. CASE c \in Launching
        <5>1. c \notin workers /\ c \notin reaping /\ c \notin live
          BY <1>1, <4>5 DEF IInv, Partition
        <5>2. Owners(c) = {"launching"}
          BY <2>1, <2>2, <4>5, <5>1
        <5> QED BY <5>2
      <4> QED BY <4>1, <4>2, <4>3, <4>4, <4>5
    <3> QED BY <2>3, <3>1, FS_Singleton
  <2>4. CASE c \notin Threads
    <3>1. Owners(c) = {}
      BY <1>1, <2>1, <2>2, <2>4 DEF IInv, Partition
    <3> QED BY <2>4, <3>1, FS_EmptySet
  <2> QED BY <2>3, <2>4
<1>2. IInv => ThreadsOwned
  BY <1>1
<1> QED BY <1>2, DaemonInductive, PTL

\* When stop() has returned the accept thread is over, every session thread
\* has been joined and every connection that was made is closed.
THEOREM StopLeavesNothing == Spec => []NothingSurvivesStop
<1>1. IInv => NothingSurvivesStop
  BY DEF IInv, TypeOK, Connections, NothingSurvivesStop, Phases, ConnectionsKept, Coherent,
         Serving, Threads
<1> QED BY <1>1, DaemonInductive, PTL
=============================================================================
