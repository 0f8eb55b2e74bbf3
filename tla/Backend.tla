------------------------------- MODULE Backend -------------------------------
(***************************************************************************)
(* What backend/backend.hpp promises a session: a directory tree whose     *)
(* operations happen all at once or not at all, in one order for all       *)
(* sessions, and which a durable backend keeps across crashes.             *)
(*                                                                         *)
(* A call may be refused for reasons of its own (the name is taken, or     *)
(* there is none) or of the storage; it then has no effect.  A backend     *)
(* keeps Kept[a] of the attributes a it is given.                          *)
(***************************************************************************)
CONSTANTS
  Sessions,
  Calls,      \* the calls: [op, dn, to, attrs]
  nameOf(_),  \* the name that a spelling of it stands for
  NoName,     \* the empty name
  Kept,       \* what is kept of the attributes of an entry
  Empty,      \* the tree without entries
  Seed        \* the tree that an empty one starts with

VARIABLES
  tree,   \* the directory
  call,   \* the call each session is in, or NoCall
  res     \* its result: "pending", "true", "false"; and what a read returned

vars == <<tree, call, res>>

NoCall == [op |-> "none"]
NoResult == [ok |-> "none", read |-> Empty]
Pending == [NoResult EXCEPT !.ok = "pending"]
Refused == [NoResult EXCEPT !.ok = "false"]
Done == [NoResult EXCEPT !.ok = "true"]

Put(t, n, a) == [m \in DOMAIN t \cup {n} |-> IF m = n THEN a ELSE t[m]]
Erase(t, n) == [m \in DOMAIN t \ {n} |-> t[m]]

\* The call can be carried out, and the tree it leaves behind.
Possible(t, c) ==
  LET n == nameOf(c.dn)
  IN  CASE c.op = "add"    -> n # NoName /\ n \notin DOMAIN t
        [] c.op = "rename" -> /\ n \in DOMAIN t \ {NoName} /\ nameOf(c.to) # NoName
                              /\ nameOf(c.to) \in {n} \/ nameOf(c.to) \notin DOMAIN t
        [] c.op = "search" -> TRUE
        [] OTHER           -> n \in DOMAIN t

Effect(t, c) ==
  LET n == nameOf(c.dn)
      m == nameOf(c.to)
  IN  CASE c.op \in {"add", "modify"} -> Put(t, n, Kept[c.attrs])
        [] c.op = "remove"            -> Erase(t, n)
        [] c.op = "rename"            -> IF n = m THEN t ELSE Put(Erase(t, n), m, t[n])
        [] OTHER                      -> t

Answer(t, c) ==
  CASE c.op = "lookup" -> [Done EXCEPT !.read = t[nameOf(c.dn)]]
    [] c.op = "search" -> [Done EXCEPT !.read = t]
    [] OTHER           -> Done

-----------------------------------------------------------------------------
Invoke(s) ==
  /\ call[s] = NoCall
  /\ \E c \in Calls : call' = [call EXCEPT ![s] = c]
  /\ res' = [res EXCEPT ![s] = Pending]
  /\ UNCHANGED tree

CarryOut(s) ==
  /\ res[s] = Pending
  /\ Possible(tree, call[s])
  /\ tree' = Effect(tree, call[s])
  /\ res' = [res EXCEPT ![s] = Answer(tree, call[s])]
  /\ UNCHANGED call

Refuse(s) ==
  /\ res[s] = Pending
  /\ res' = [res EXCEPT ![s] = Refused]
  /\ UNCHANGED <<tree, call>>

Return(s) ==
  /\ call[s] # NoCall /\ res[s] # Pending
  /\ call' = [call EXCEPT ![s] = NoCall]
  /\ res' = [res EXCEPT ![s] = NoResult]
  /\ UNCHANGED tree

\* The calls in progress are never answered; the tree stays.
Crash ==
  /\ call' = [s \in Sessions |-> NoCall]
  /\ res' = [s \in Sessions |-> NoResult]
  /\ UNCHANGED tree

\* A tree without entries takes the ones of the seed at the next start.
Restart ==
  /\ tree = Empty
  /\ tree' = Seed
  /\ call = [s \in Sessions |-> NoCall]
  /\ UNCHANGED <<call, res>>

Init ==
  /\ tree = Empty
  /\ call = [s \in Sessions |-> NoCall]
  /\ res = [s \in Sessions |-> NoResult]

Next ==
  \/ \E s \in Sessions : Invoke(s) \/ CarryOut(s) \/ Refuse(s) \/ Return(s)
  \/ Crash
  \/ Restart

Spec == Init /\ [][Next]_vars
=============================================================================
