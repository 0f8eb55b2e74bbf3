-------------------------------- MODULE Tools --------------------------------
(***************************************************************************)
(* What the command-line tools make of their arguments: cli/common.cpp and *)
(* the first half of each main().                                          *)
(*                                                                         *)
(* An invocation is [tool, argv, file, typed, new]: argv is a sequence of  *)
(* [flag, has, arg], where has says that an argument follows; file is what *)
(* -f (or the standard input) holds; typed is what the user enters when    *)
(* asked for the bind password, and new twice the new password.            *)
(***************************************************************************)
EXTENDS LdifText

Ports == 0..65535
LdapPort == 389
LdapsPort == 636
BadNumber == -1000  \* the text is not a number, or the URI has no valid port

\* The SASL mechanisms parseSaslMechanism knows; -Y gives their names here.
Mechanism == [PLAIN |-> <<80, 76>>, DIGEST |-> <<68, 73>>, EXTERNAL |-> <<69, 88>>,
              GSSAPI |-> <<71, 83>>, ANONYMOUS |-> <<65, 78>>]
Scope == [base |-> 0, one |-> 1, sub |-> 2]
AllObjects == <<Char.open>> \o ObjectClass \o <<Char.equals, Char.star, Char.close>>

DefaultOptions ==
  [uri |-> [scheme |-> "ldap", port |-> LdapPort, base |-> << >>],
   port |-> LdapPort, ldaps |-> FALSE, starttls |-> FALSE, badCa |-> FALSE,
   bindDn |-> << >>, password |-> << >>, base |-> << >>, filter |-> AllObjects,
   attributes |-> << >>, scope |-> Scope.sub, file |-> FALSE, positionals |-> << >>,
   mechanism |-> "", authcid |-> << >>, keytab |-> "none", new |-> << >>, old |-> << >>,
   pageSize |-> 0, sizeLimit |-> 0, timeLimit |-> 0, typesOnly |-> FALSE, prompt |-> FALSE,
   promptNew |-> FALSE, addMode |-> FALSE, help |-> FALSE, parseError |-> FALSE]

-----------------------------------------------------------------------------
\* applyUri: scheme and port, the base if none was given before.  port 0 is a
\* URI without one.
applyUri(o, uri) ==
  LET default == IF uri.scheme = "ldaps" THEN LdapsPort ELSE LdapPort
  IN  [o EXCEPT !.uri = uri, !.ldaps = (uri.scheme = "ldaps"),
                !.base = IF o.base = << >> THEN uri.base ELSE o.base,
                !.port = IF uri.port \in Ports \ {0} THEN uri.port ELSE default,
                !.parseError = o.parseError \/ uri.port \notin Ports]

\* Flags that stand alone.
Switches == {"--help", "--version", "-x", "-Z", "-S", "-W", "-A", "unknown"}
Flags == Switches \cup {"-H", "-h", "-Y", "-U", "--keytab", "--ca-file", "-a", "-D", "-w", "-b", "-s",
                       "-l", "-z", "-E", "-p", "-f", "positional"}

\* A number that std::stoi reads.
Numeric(o, n, set) == IF n = BadNumber THEN [o EXCEPT !.parseError = TRUE] ELSE set

\* A flag that is not known is ignored.
applySwitch(passwd, o, flag) ==
  CASE flag \in {"--help", "--version"} -> [o EXCEPT !.help = TRUE]
    [] flag = "-Z" -> [o EXCEPT !.starttls = TRUE]
    [] flag = "-W" -> [o EXCEPT !.prompt = TRUE]
    [] flag = "-A" -> [o EXCEPT !.typesOnly = TRUE]
    [] flag = "-a" -> [o EXCEPT !.addMode = TRUE]
    [] flag = "-S" -> [o EXCEPT !.promptNew = passwd]
    [] flag \in {"-x", "unknown"} -> o
applyOption(passwd, o, flag, arg) ==
  CASE flag = "-H" -> applyUri(o, arg)
    [] flag = "-h" -> applyUri(o, [arg EXCEPT !.scheme = "ldap"])
    [] flag = "-Y" -> [o EXCEPT !.mechanism = arg]
    [] flag = "-U" -> [o EXCEPT !.authcid = arg]
    [] flag = "--keytab"  -> [o EXCEPT !.keytab = arg]
    [] flag = "--ca-file" -> [o EXCEPT !.badCa = (arg = "bad")]
    [] flag = "-a" -> [o EXCEPT !.old = arg]
    [] flag = "-D" -> [o EXCEPT !.bindDn = arg]
    [] flag = "-w" -> [o EXCEPT !.password = arg]
    [] flag = "-b" -> [o EXCEPT !.base = arg]
    [] flag = "-s" -> IF passwd THEN [o EXCEPT !.new = arg]
                      ELSE IF arg \in DOMAIN Scope THEN [o EXCEPT !.scope = Scope[arg]]
                      ELSE [o EXCEPT !.parseError = TRUE]
    [] flag = "-l" -> Numeric(o, arg, [o EXCEPT !.timeLimit = arg])
    [] flag = "-z" -> Numeric(o, arg, [o EXCEPT !.sizeLimit = arg])
    [] flag = "-E" -> Numeric(o, arg, [o EXCEPT !.pageSize = arg])
    [] flag = "-p" -> IF arg \in Ports THEN o ELSE [o EXCEPT !.parseError = TRUE]
    [] flag = "-f" -> [o EXCEPT !.file = TRUE]
    [] flag = "positional" ->
       [o EXCEPT !.filter = IF o.positionals = << >> THEN arg ELSE @,
                 !.attributes = IF o.positionals = << >> THEN @ ELSE Append(@, arg),
                 !.positionals = Append(@, arg)]

\* One argument of the loop.
applyArg(passwd, o, a) ==
  IF a.flag \in Switches \/ (a.flag = "-a" /\ ~passwd) THEN applySwitch(passwd, o, a.flag)
  ELSE IF ~a.has THEN [o EXCEPT !.parseError = TRUE]
  ELSE applyOption(passwd, o, a.flag, a.arg)

\* parseClientArgs: the last -p wins over the URI, which is applied once more,
\* and a filter gets its parentheses.
parseClientArgs(argv, passwd) ==
  LET o     == After(LAMBDA st, a : applyArg(passwd, st, a), DefaultOptions, argv)
      again == IF o.uri.scheme \in {"ldap", "ldaps"} THEN applyUri(o, o.uri) ELSE o
      ports == SelectSeq(argv, LAMBDA a : a.flag = "-p" /\ a.has /\ a.arg \in Ports)
  IN  [again EXCEPT
         !.port = IF ports = << >> THEN @ ELSE Last(ports).arg,
         !.filter = IF ~passwd /\ @ # << >> /\ Head(@) # Char.open
                    THEN <<Char.open>> \o @ \o <<Char.close>> ELSE @]

-----------------------------------------------------------------------------
\* A request without its message id.
Request(op, data) == [op |-> op, data |-> data]

\* What ldapmodify asks for a record.
modifyRequest(record, addMode) ==
  LET names  == Ordered(record.attributes)
      type   == IF record.changetype # "Content" THEN record.changetype
                ELSE IF addMode THEN "Add" ELSE "Modify"
      replace == [i \in DOMAIN names |->
                   [op |-> ModifyOp.replace, type |-> names[i],
                    values |-> record.attributes[names[i]]]]
  IN  CASE type = "Add"    -> Request("AddRequest", toAddRequest(record))
        [] type = "Delete" -> Request("DelRequest", record.dn)
        [] type = "Modrdn" -> Request("ModifyDNRequest",
                                [dn |-> record.dn, newRdn |-> record.newRdn,
                                 deleteOldRdn |-> record.deleteOldRdn,
                                 newSuperior |-> record.newSuperior])
        [] type = "Modify" -> Request("ModifyRequest",
                                [dn |-> record.dn,
                                 changes |-> IF record.changes = << >> THEN replace
                                             ELSE record.changes])

Map(s, F(_)) == [i \in DOMAIN s |-> F(s[i])]
OfTypes(records, types) == SelectSeq(records, LAMBDA r : r.changetype \in types)

\* attr:value up to the first colon; neither part may be empty.
Colon == 58
compareRequests(ps) ==
  LET n == Span[ps[2], {Colon}]
  IN  IF Len(ps) < 2 THEN << >>
      ELSE IF n = 0 \/ n + 1 >= Len(ps[2]) THEN << >>
      ELSE <<Request("CompareRequest", [dn |-> ps[1], attribute |-> Take(ps[2], n),
                                        value |-> Drop(ps[2], n + 1)])>>

passwordRequests(call, o) ==
  LET new == IF o.promptNew THEN call.new[1] ELSE o.new
      p   == [identity |-> IF o.positionals = << >> THEN << >> ELSE Head(o.positionals),
              old |-> IF o.old = << >> THEN {} ELSE {o.old}, new |-> {new}]
  IN  IF (o.promptNew /\ call.new[1] # call.new[2]) \/ new = << >> THEN << >>
      ELSE <<Request("ExtendedRequest",
               [oid |-> PasswordModifyOid, value |-> encodePasswordModifyValue(p)])>>

searchRequests(o) ==
  IF parse(o.filter) = {} THEN << >>
  ELSE <<Request("SearchRequest",
           [base |-> o.base, scope |-> o.scope, sizeLimit |-> o.sizeLimit,
            timeLimit |-> o.timeLimit, typesOnly |-> o.typesOnly,
            filter |-> CHOOSE f \in parse(o.filter) : TRUE, attributes |-> o.attributes])>>

\* The requests of an invocation, in order; none if the tool refuses it before
\* it connects, or (ldapadd) if no record is one to add.
requests(call, o) ==
  LET records == parseLdifText(call.file)
  IN  CASE call.tool = "ldapsearch"  -> searchRequests(o)
        [] call.tool = "ldapmodify"  -> Map(records, LAMBDA r : modifyRequest(r, o.addMode))
        [] call.tool = "ldapadd"     -> Map(OfTypes(records, {"Content", "Add"}),
                                            LAMBDA r : Request("AddRequest", toAddRequest(r)))
        [] call.tool = "ldapdelete"  ->
             Map(o.positionals \o (IF o.file
                                   THEN Map(OfTypes(records, {"Content", "Delete"}), LAMBDA r : r.dn)
                                   ELSE << >>),
                 LAMBDA dn : Request("DelRequest", dn))
        [] call.tool = "ldapcompare" -> compareRequests(o.positionals)
        [] call.tool = "ldappasswd"  -> passwordRequests(call, o)
        [] call.tool = "ldapwhoami"  -> <<Request("ExtendedRequest", [oid |-> WhoAmIOid,
                                                                      value |-> << >>])>>
=============================================================================
