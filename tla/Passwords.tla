----------------------------- MODULE Passwords -----------------------------
(***************************************************************************)
(* Stored passwords (auth/password.cpp).  A clear password is a member of  *)
(* DOMAIN Hash, and Hash gives its {SSHA} form; the salt only serves to    *)
(* make the form different each time, which nothing compares.  The empty   *)
(* password is "" and is stored as it is.  A value that starts with a      *)
(* scheme is a member of DOMAIN Scheme, which gives the scheme's name and  *)
(* the password that it was made of.                                       *)
(***************************************************************************)
EXTENDS Entries

CONSTANTS Hash, Scheme

ASSUME HashAssumption ==
  /\ DOMAIN Scheme \cap DOMAIN Hash = {}
  /\ \A v \in DOMAIN Hash :
       Hash[v] \in DOMAIN Scheme /\ Scheme[Hash[v]] = [name |-> "SSHA", of |-> v]
  /\ \A w \in DOMAIN Scheme :
       Scheme[w].name = "SSHA" => Scheme[w].of \in DOMAIN Hash /\ w = Hash[Scheme[w].of]

\* A value that already has a scheme is kept.
encodeUserPassword(v) == IF v \in DOMAIN Hash THEN Hash[v] ELSE v
encodeAll(vs) == [i \in DOMAIN vs |-> encodeUserPassword(vs[i])]
encodeUserPasswords(attrs) ==
  [t \in DOMAIN attrs |->
     IF t = "userPassword" THEN encodeAll(attrs[t]) ELSE attrs[t]]
encodeUserPasswordChanges(changes) ==
  [i \in DOMAIN changes |->
     IF changes[i].op # "delete" /\ changes[i].type = "userPassword"
     THEN [changes[i] EXCEPT !.values = encodeAll(@)] ELSE changes[i]]

\* A value with a scheme matches the password it was made of, and not itself; one
\* whose scheme the code does not know matches nothing.
verifyUserPassword(stored, given) ==
  IF stored \in DOMAIN Scheme
  THEN Scheme[stored].name \in {"CLEARTEXT", "SSHA", "SHA"} /\ given = Scheme[stored].of
  ELSE given = stored

\* recoverablePassword: the stored value holds the password itself, so that
\* DIGEST-MD5 can use it.
recoverable(stored) == stored \in DOMAIN Scheme => Scheme[stored].name = "CLEARTEXT"
recoverablePassword(stored) == IF stored \in DOMAIN Scheme THEN Scheme[stored].of ELSE stored

\* "514" stands for the values that have the disable bit, 2.
accountDisabled(attrs) ==
  "userAccountControl" \in DOMAIN attrs /\ Contains(attrs["userAccountControl"], "514")
=============================================================================
