--------------------------- MODULE Exchange_proofs ---------------------------
(***************************************************************************)
(* Proofs about Exchange.  A user who asks for TLS sends no password in    *)
(* clear, whatever the arguments, the server and the network are like; and *)
(* what one side writes on the stream is what the other reads from it: a   *)
(* PDU is cut off exactly, a part of one is never taken for one, and a     *)
(* message is decoded as it was, whatever its octets and however long its  *)
(* lists are.                                                              *)
(***************************************************************************)
EXTENDS Exchange, SequenceTheorems, NaturalsInduction, WellFoundedInduction, TLAPS

-----------------------------------------------------------------------------
(* Induction over numbers.                                                 *)

\* Every set of numbers that is not empty has a least one.
LEMMA LeastNumber ==
  ASSUME NEW T, T \subseteq Nat, T # {}
  PROVE  \E m \in T : \A n \in T : m <= n
<1> DEFINE R == OpToRel(<, Nat)
<1>1. \A m, n \in Nat : m < n => <<m, n>> \in R
  BY DEF OpToRel
<1>2. IsWellFoundedOn(R, Nat)
  BY NatLessThanWellFounded
<1> HIDE DEF R
<1>3. \E m \in T : \A n \in T : ~(<<n, m>> \in R)
  BY <1>2, WFMin
<1>4. PICK m \in T : \A n \in T : ~(<<n, m>> \in R)
  BY <1>3
<1>5. \A n \in T : ~(n < m)
  BY <1>1, <1>4
<1>6. \A n \in T : m <= n
  BY <1>5
<1> QED BY <1>6

\* Induction up to a number, over a set.
LEMMA CountUp ==
  ASSUME NEW N \in Nat, NEW T, 0 \in T, \A k \in 1..N : k - 1 \in T => k \in T
  PROVE  0..N \subseteq T
<1> DEFINE Bad == {k \in 0..N : k \notin T}
<1> SUFFICES ASSUME Bad # {} PROVE FALSE
  OBVIOUS
<1>0. Bad \subseteq Nat
  OBVIOUS
<1>1. PICK m \in Bad : \A n \in Bad : m <= n
  <2> HIDE DEF Bad
  <2> QED BY <1>0, LeastNumber
<1>2. m \in 1..N /\ m - 1 \in 0..N /\ ~(m <= m - 1)
  BY DEF Bad
<1>3. m - 1 \in T
  BY <1>1, <1>2
<1> QED BY <1>2, <1>3

-----------------------------------------------------------------------------
(* The loop over the arguments.                                            *)

OptionNames == DOMAIN DefaultOptions

\* The options that TLS hangs on are options.
LEMMA TlsOptions == {"starttls", "ldaps", "uri"} \subseteq OptionNames
  BY DEF OptionNames, DefaultOptions

\* applyUri takes scheme and URI over and leaves the other switches alone.
LEMMA UriTaken ==
  ASSUME NEW o, DOMAIN o = OptionNames, NEW uri
  PROVE  /\ DOMAIN applyUri(o, uri) = OptionNames
         /\ applyUri(o, uri).starttls = o.starttls
         /\ applyUri(o, uri).uri = uri
         /\ applyUri(o, uri).ldaps = (uri.scheme = "ldaps")
<1>1. ASSUME NEW l, NEW b, NEW p, NEW e
      PROVE  LET q == [o EXCEPT !.uri = uri, !.ldaps = l, !.base = b, !.port = p, !.parseError = e]
             IN  DOMAIN q = OptionNames /\ q.starttls = o.starttls /\ q.uri = uri /\ q.ldaps = l
  BY TlsOptions
<1> DEFINE l == (uri.scheme = "ldaps")
           b == IF o.base = << >> THEN uri.base ELSE o.base
           p == IF uri.port \in Ports \ {0} THEN uri.port
                ELSE IF uri.scheme = "ldaps" THEN LdapsPort ELSE LdapPort
           e == o.parseError \/ uri.port \notin Ports
<1>2. applyUri(o, uri) = [o EXCEPT !.uri = uri, !.ldaps = l, !.base = b, !.port = p, !.parseError = e]
  BY Zenon DEF applyUri
<1> HIDE DEF l, b, p, e
<1>3. /\ DOMAIN applyUri(o, uri) = OptionNames /\ applyUri(o, uri).starttls = o.starttls
      /\ applyUri(o, uri).uri = uri /\ applyUri(o, uri).ldaps = l
  BY <1>1, <1>2
<1> QED BY <1>3, Zenon DEF l

\* Options that have nothing to do with TLS.
Alike(o, q) ==
  DOMAIN q = OptionNames /\ q.starttls = o.starttls /\ q.ldaps = o.ldaps /\ q.uri = o.uri

\* Any other option may be set.
LEMMA OtherOption ==
  ASSUME NEW o, DOMAIN o = OptionNames, NEW x, x \notin {"starttls", "ldaps", "uri"}, NEW v
  PROVE  Alike(o, [o EXCEPT ![x] = v])
  BY DEF Alike, OptionNames, DefaultOptions

\* A flag that stands alone.
LEMMA SwitchApplied ==
  ASSUME NEW passwd \in BOOLEAN, NEW o, DOMAIN o = OptionNames, NEW flag \in Switches \cup {"-a"}
  PROVE  LET q == applySwitch(passwd, o, flag)
         IN  IF flag = "-Z" THEN q = [o EXCEPT !.starttls = TRUE] ELSE Alike(o, q)
<1> DEFINE q == applySwitch(passwd, o, flag)
<1>1. flag = "-Z" => q = [o EXCEPT !.starttls = TRUE]
  BY DEF applySwitch
<1>2. flag \in {"--help", "--version"} => q = [o EXCEPT !.help = TRUE]
  BY DEF applySwitch
<1>3. flag = "-W" => q = [o EXCEPT !.prompt = TRUE]
  BY DEF applySwitch
<1>4. flag = "-A" => q = [o EXCEPT !.typesOnly = TRUE]
  BY DEF applySwitch
<1>5. flag = "-a" => q = [o EXCEPT !.addMode = TRUE]
  BY DEF applySwitch
<1>6. flag = "-S" => q = [o EXCEPT !.promptNew = passwd]
  BY DEF applySwitch
<1>7. flag \in {"-x", "unknown"} => q = o
  BY DEF applySwitch
<1>8. Alike(o, o)
  BY DEF Alike
<1> HIDE DEF q
<1>9. flag # "-Z" => Alike(o, q)
  BY <1>2, <1>3, <1>4, <1>5, <1>6, <1>7, <1>8, OtherOption DEF Switches
<1> QED BY <1>1, <1>9 DEF q

\* A flag with an argument, other than -H and -h.
LEMMA OptionApplied ==
  ASSUME NEW passwd \in BOOLEAN, NEW o, DOMAIN o = OptionNames, NEW arg,
         NEW flag \in Flags \ (Switches \cup {"-H", "-h"})
  PROVE  Alike(o, applyOption(passwd, o, flag, arg))
<1> DEFINE q == applyOption(passwd, o, flag, arg)
<1>0. Alike(o, o) /\ Alike(o, [o EXCEPT !.parseError = TRUE])
  <2>1. Alike(o, o)
    BY DEF Alike
  <2> QED BY <2>1, OtherOption
<1>1. CASE flag = "-Y"
  <2>1. q = [o EXCEPT !.mechanism = arg]
    BY <1>1 DEF applyOption
  <2> QED BY <2>1, OtherOption
<1>2. CASE flag = "-U"
  <2>1. q = [o EXCEPT !.authcid = arg]
    BY <1>2 DEF applyOption
  <2> QED BY <2>1, OtherOption
<1>3. CASE flag = "--keytab"
  <2>1. q = [o EXCEPT !.keytab = arg]
    BY <1>3 DEF applyOption
  <2> QED BY <2>1, OtherOption
<1>4. CASE flag = "--ca-file"
  <2>1. q = [o EXCEPT !.badCa = (arg = "bad")]
    BY <1>4 DEF applyOption
  <2> QED BY <2>1, OtherOption
<1>5. CASE flag = "-a"
  <2>1. q = [o EXCEPT !.old = arg]
    BY <1>5 DEF applyOption
  <2> QED BY <2>1, OtherOption
<1>6. CASE flag = "-D"
  <2>1. q = [o EXCEPT !.bindDn = arg]
    BY <1>6 DEF applyOption
  <2> QED BY <2>1, OtherOption
<1>7. CASE flag = "-w"
  <2>1. q = [o EXCEPT !.password = arg]
    BY <1>7 DEF applyOption
  <2> QED BY <2>1, OtherOption
<1>8. CASE flag = "-b"
  <2>1. q = [o EXCEPT !.base = arg]
    BY <1>8 DEF applyOption
  <2> QED BY <2>1, OtherOption
<1>9. CASE flag = "-f"
  <2>1. q = [o EXCEPT !.file = TRUE]
    BY <1>9 DEF applyOption
  <2> QED BY <2>1, OtherOption
<1>10. CASE flag = "-l"
  <2>1. q = [o EXCEPT !.timeLimit = arg] \/ q = [o EXCEPT !.parseError = TRUE]
    BY <1>10 DEF applyOption, Numeric
  <2> QED BY <1>0, <2>1, OtherOption
<1>11. CASE flag = "-z"
  <2>1. q = [o EXCEPT !.sizeLimit = arg] \/ q = [o EXCEPT !.parseError = TRUE]
    BY <1>11 DEF applyOption, Numeric
  <2> QED BY <1>0, <2>1, OtherOption
<1>12. CASE flag = "-E"
  <2>1. q = [o EXCEPT !.pageSize = arg] \/ q = [o EXCEPT !.parseError = TRUE]
    BY <1>12 DEF applyOption, Numeric
  <2> QED BY <1>0, <2>1, OtherOption
<1>13. CASE flag = "-s"
  <2>1. \/ q = [o EXCEPT !.new = arg] \/ q = [o EXCEPT !.scope = Scope[arg]]
        \/ q = [o EXCEPT !.parseError = TRUE]
    BY <1>13 DEF applyOption
  <2> QED BY <1>0, <2>1, OtherOption
<1>14. CASE flag = "-p"
  <2>1. CASE arg \in Ports
    <3>1. q = o
      BY <1>14, <2>1 DEF applyOption
    <3> QED BY <1>0, <3>1
  <2>2. CASE arg \notin Ports
    <3>1. q = [o EXCEPT !.parseError = TRUE]
      BY <1>14, <2>2 DEF applyOption
    <3> QED BY <1>0, <3>1
  <2> QED BY <2>1, <2>2
<1>15. CASE flag = "positional"
  <2>1. q = [o EXCEPT !.filter = IF o.positionals = << >> THEN arg ELSE @,
                      !.attributes = IF o.positionals = << >> THEN @ ELSE Append(@, arg),
                      !.positionals = Append(@, arg)]
    BY <1>15 DEF applyOption
  <2> QED BY <2>1 DEF Alike, OptionNames, DefaultOptions
<1> QED BY <1>1, <1>2, <1>3, <1>4, <1>5, <1>6, <1>7, <1>8, <1>9, <1>10, <1>11, <1>12, <1>13, <1>14, <1>15
           DEF Flags, Switches

\* One argument: what it does to the options that ask for TLS.
Obeys(o, a, q) ==
  /\ DOMAIN q = OptionNames
  /\ o.starttls = TRUE \/ a.flag = "-Z" => q.starttls = TRUE
  /\ ~(a.has /\ a.flag \in {"-H", "-h"}) => q.ldaps = o.ldaps /\ q.uri = o.uri
  /\ a.has /\ a.flag = "-H" => q.uri = a.arg /\ (a.arg.scheme = "ldaps" => q.ldaps = TRUE)

\* One round of the loop does so.
LEMMA ArgObeyed ==
  ASSUME NEW passwd \in BOOLEAN, NEW o, DOMAIN o = OptionNames,
         NEW a, a.flag \in Flags, a.has \in BOOLEAN
  PROVE  Obeys(o, a, applyArg(passwd, o, a))
<1> DEFINE q == applyArg(passwd, o, a)
           alone == a.flag \in Switches \/ (a.flag = "-a" /\ ~passwd)
<1>1. ASSUME Alike(o, q), a.flag # "-Z", ~(a.has /\ a.flag \in {"-H", "-h"}) PROVE Obeys(o, a, q)
  BY <1>1 DEF Alike, Obeys
<1>2. CASE alone
  <2>1. q = applySwitch(passwd, o, a.flag)
    BY <1>2 DEF applyArg
  <2>2. a.flag \in Switches \cup {"-a"} /\ a.flag \notin {"-H", "-h"}
    BY <1>2 DEF Switches
  <2>3. CASE a.flag = "-Z"
    <3>1. q = [o EXCEPT !.starttls = TRUE]
      BY <2>1, <2>2, <2>3, SwitchApplied
    <3> HIDE DEF q
    <3>2. ASSUME NEW v PROVE LET r == [o EXCEPT !.starttls = v]
                             IN  /\ DOMAIN r = OptionNames /\ r.starttls = v
                                 /\ r.ldaps = o.ldaps /\ r.uri = o.uri
      BY TlsOptions
    <3>3. DOMAIN q = OptionNames /\ q.starttls = TRUE /\ q.ldaps = o.ldaps /\ q.uri = o.uri
      BY <3>1, <3>2, Zenon
    <3>4. a.flag # "-H"
      BY <2>3
    <3>9. Obeys(o, a, q)
      BY <2>3, <3>3, <3>4, Zenon DEF Obeys
    <3> QED BY <3>9 DEF q
  <2>4. CASE a.flag # "-Z"
    <3>1. Alike(o, q)
      BY <2>1, <2>2, <2>4, SwitchApplied
    <3> QED BY <1>1, <2>2, <2>4, <3>1
  <2> QED BY <2>3, <2>4
<1>3. CASE ~alone /\ ~a.has
  <2>1. q = [o EXCEPT !.parseError = TRUE]
    BY <1>3 DEF applyArg
  <2>2. a.flag # "-Z"
    BY <1>3 DEF Switches
  <2>3. Alike(o, q)
    BY <2>1, OtherOption
  <2> QED BY <1>1, <1>3, <2>2, <2>3
<1>4. CASE ~alone /\ a.has
  <2>1. q = applyOption(passwd, o, a.flag, a.arg)
    BY <1>4 DEF applyArg
  <2>2. CASE a.flag = "-H"
    <3>1. q = applyUri(o, a.arg)
      BY <2>1, <2>2 DEF applyOption
    <3> HIDE DEF q
    <3>2. /\ DOMAIN q = OptionNames /\ q.starttls = o.starttls /\ q.uri = a.arg
          /\ a.arg.scheme = "ldaps" => q.ldaps = TRUE
      BY <3>1, UriTaken, Zenon
    <3>3. a.flag # "-Z" /\ a.flag \in {"-H", "-h"} /\ a.has = TRUE
      BY <1>4, <2>2
    <3>9. Obeys(o, a, q)
      BY <2>2, <3>2, <3>3, Zenon DEF Obeys
    <3> QED BY <3>9 DEF q
  <2>3. CASE a.flag = "-h"
    <3>1. q = applyUri(o, [a.arg EXCEPT !.scheme = "ldap"])
      BY <2>1, <2>3 DEF applyOption
    <3> HIDE DEF q
    <3> DEFINE uri == [a.arg EXCEPT !.scheme = "ldap"]
    <3> HIDE DEF uri
    <3>2. q = applyUri(o, uri)
      BY <3>1 DEF uri
    <3>3. DOMAIN q = OptionNames /\ q.starttls = o.starttls
      BY <3>2, UriTaken
    <3>4. a.flag # "-Z" /\ a.flag # "-H" /\ a.flag \in {"-H", "-h"} /\ a.has = TRUE
      BY <1>4, <2>3
    <3>9. Obeys(o, a, q)
      BY <3>3, <3>4, Zenon DEF Obeys
    <3> QED BY <3>9 DEF q
  <2>4. CASE a.flag \notin {"-H", "-h"}
    <3>1. a.flag \in Flags \ (Switches \cup {"-H", "-h"}) /\ a.flag # "-Z"
      BY <1>4, <2>4 DEF Switches
    <3>2. Alike(o, q)
      BY <2>1, <3>1, OptionApplied
    <3> QED BY <1>1, <2>4, <3>1, <3>2
  <2> QED BY <2>2, <2>3, <2>4
<1> QED BY <1>2, <1>3, <1>4

\* The options after each turn of the loop.
Applied(passwd, X, a) == {applyArg(passwd, x, a) : x \in X}
IsLoop(f, passwd, argv, n) ==
  f = [i \in 0..n |-> IF i = 0 THEN {DefaultOptions} ELSE Applied(passwd, f[i - 1], argv[i])]

\* The recursive function of parseClientArgs exists, for any number of arguments.
LEMMA ArgLoop ==
  ASSUME NEW passwd, NEW argv, NEW N \in Nat
  PROVE  \E f : IsLoop(f, passwd, argv, N)
<1> DEFINE T == {n \in 0..N : \E f : IsLoop(f, passwd, argv, n)}
<1>1. 0 \in T
  <2>1. IsLoop([i \in 0..0 |-> {DefaultOptions}], passwd, argv, 0)
    BY DEF IsLoop
  <2> QED BY <2>1
<1>2. ASSUME NEW n \in 1..N, n - 1 \in T PROVE n \in T
  <2>1. PICK f : IsLoop(f, passwd, argv, n - 1)
    BY <1>2
  <2> DEFINE g == [i \in 0..n |-> IF i = 0 THEN {DefaultOptions} ELSE Applied(passwd, f[i - 1], argv[i])]
  <2>2. ASSUME NEW i \in 0..(n - 1) PROVE g[i] = f[i]
    <3>1. i \in 0..n
      OBVIOUS
    <3>2. f[i] = IF i = 0 THEN {DefaultOptions} ELSE Applied(passwd, f[i - 1], argv[i])
      BY <2>1 DEF IsLoop
    <3> QED BY <3>1, <3>2
  <2>3. ASSUME NEW i \in 0..n, i # 0 PROVE g[i - 1] = f[i - 1]
    <3>1. i - 1 \in 0..(n - 1)
      BY <2>3
    <3> QED BY <2>2, <3>1
  <2>4. g = [i \in 0..n |-> IF i = 0 THEN {DefaultOptions} ELSE Applied(passwd, g[i - 1], argv[i])]
    <3>1. ASSUME NEW i \in 0..n
          PROVE  g[i] = IF i = 0 THEN {DefaultOptions} ELSE Applied(passwd, g[i - 1], argv[i])
      BY <2>3
    <3>2. g = [i \in 0..n |-> g[i]]
      OBVIOUS
    <3> HIDE DEF g
    <3> QED BY <3>1, <3>2
  <2> HIDE DEF g
  <2>5. IsLoop(g, passwd, argv, n)
    BY <2>4 DEF IsLoop
  <2> QED BY <2>5
<1>3. 0..N \subseteq T
  <2> HIDE DEF T
  <2> QED BY <1>1, <1>2, CountUp
<1> QED BY <1>3

\* What the options after some of the arguments say about TLS.
Obeyed(argv, n, o) ==
  /\ DOMAIN o = OptionNames
  /\ (\E i \in 1..n : argv[i].flag = "-Z") => o.starttls = TRUE
  /\ \A i \in 1..n :
       /\ argv[i].flag = "-H" /\ argv[i].has /\ argv[i].arg.scheme = "ldaps"
       /\ \A j \in 1..n : j > i /\ argv[j].has => argv[j].flag \notin {"-H", "-h"}
       => o.uri = argv[i].arg /\ o.ldaps = TRUE

\* The whole loop heeds every -Z and every ldaps URI.
LEMMA ArgsObeyed ==
  ASSUME NEW passwd \in BOOLEAN, NEW argv, argv \in Seq(ToSet(argv)),
         \A a \in ToSet(argv) : a.flag \in Flags /\ a.has \in BOOLEAN,
         NEW f, IsLoop(f, passwd, argv, Len(argv))
  PROVE  f[Len(argv)] # {} /\ \A o \in f[Len(argv)] : Obeyed(argv, Len(argv), o)
<1> DEFINE N == Len(argv)
           T == {n \in 0..N : f[n] # {} /\ \A o \in f[n] : Obeyed(argv, n, o)}
<1>0. N \in Nat /\ \A i \in 1..N : argv[i].flag \in Flags /\ argv[i].has \in BOOLEAN
  BY DEF ToSet
<1> HIDE DEF N
<1>1. ASSUME NEW i \in 0..N
      PROVE  f[i] = IF i = 0 THEN {DefaultOptions} ELSE Applied(passwd, f[i - 1], argv[i])
  BY DEF IsLoop, N
<1>2. 0 \in T
  <2>1. f[0] = {DefaultOptions} /\ 0 \in 0..N /\ 1..0 = {}
    BY <1>0, <1>1
  <2>2. Obeyed(argv, 0, DefaultOptions)
    BY <2>1 DEF Obeyed, OptionNames
  <2> QED BY <2>1, <2>2
<1>3. ASSUME NEW n \in 1..N, n - 1 \in T PROVE n \in T
  <2> DEFINE m == n - 1
  <2>1. /\ n \in 0..N /\ n # 0 /\ m \in 0..N /\ 1..n = 1..m \cup {n} /\ n \notin 1..m
        /\ \A i \in 1..m : n > i
    BY <1>0
  <2>2. f[n] = Applied(passwd, f[m], argv[n]) /\ f[m] # {} /\ \A x \in f[m] : Obeyed(argv, m, x)
    BY <1>1, <1>3, <2>1
  <2> HIDE DEF m
  <2>3. f[n] # {}
    BY <2>2 DEF Applied
  <2>4. ASSUME NEW o \in f[n] PROVE Obeyed(argv, n, o)
    <3> DEFINE a == argv[n]
    <3>1. PICK x \in f[m] : o = applyArg(passwd, x, a)
      BY <2>2, <2>4 DEF Applied
    <3>2. Obeyed(argv, m, x)
      BY <2>2
    <3>3. a.flag \in Flags /\ a.has \in BOOLEAN
      BY <1>0
    <3>4. Obeys(x, a, o)
      <4> HIDE DEF a
      <4> QED BY <3>1, <3>2, <3>3, ArgObeyed DEF Obeyed
    <3>5. DOMAIN o = OptionNames
      BY <3>4 DEF Obeys
    <3>6. ASSUME \E i \in 1..n : argv[i].flag = "-Z" PROVE o.starttls = TRUE
      <4>1. a.flag = "-Z" \/ \E i \in 1..m : argv[i].flag = "-Z"
        BY <2>1, <3>6
      <4>2. a.flag = "-Z" \/ x.starttls = TRUE
        BY <3>2, <4>1, Zenon DEF Obeyed
      <4> QED BY <3>4, <4>2, Zenon DEF Obeys
    <3>7. ASSUME NEW i \in 1..n,
                 argv[i].flag = "-H" /\ argv[i].has /\ argv[i].arg.scheme = "ldaps",
                 \A j \in 1..n : j > i /\ argv[j].has => argv[j].flag \notin {"-H", "-h"}
          PROVE  o.uri = argv[i].arg /\ o.ldaps = TRUE
      <4>1. CASE i = n
        <5>1. a.has /\ a.flag = "-H" /\ argv[i] = a /\ a.arg.scheme = "ldaps"
          BY <3>7, <4>1
        <5> HIDE DEF a
        <5> QED BY <3>4, <5>1, Zenon DEF Obeys
      <4>2. CASE i \in 1..m
        <5>1. ~(a.has /\ a.flag \in {"-H", "-h"})
          BY <2>1, <3>7, <4>2
        <5>2. \A j \in 1..m : j > i /\ argv[j].has => argv[j].flag \notin {"-H", "-h"}
          BY <2>1, <3>7
        <5>3. x.uri = argv[i].arg /\ x.ldaps = TRUE
          BY <3>2, <3>7, <4>2, <5>2, Zenon DEF Obeyed
        <5>4. o.ldaps = x.ldaps /\ o.uri = x.uri
          BY <3>4, <5>1, Zenon DEF Obeys
        <5> QED BY <5>3, <5>4, Zenon
      <4> QED BY <2>1, <4>1, <4>2
    <3> QED BY <3>5, <3>6, <3>7, Zenon DEF Obeyed
  <2> QED BY <2>1, <2>3, <2>4
<1>4. 0..N \subseteq T
  <2> HIDE DEF T
  <2> QED BY <1>0, <1>2, <1>3, CountUp
<1>5. N \in T
  BY <1>0, <1>4
<1> QED BY <1>5 DEF N

\* The options that the tool goes by ask for TLS if its arguments do.
LEMMA ArgumentsHeeded ==
  ASSUME NEW passwd \in BOOLEAN, NEW argv, argv \in Seq(ToSet(argv)),
         \A a \in ToSet(argv) : a.flag \in Flags /\ a.has \in BOOLEAN, AsksForTls(argv)
  PROVE  LET o == parseClientArgs(argv, passwd) IN o.ldaps = TRUE \/ o.starttls = TRUE
<1> DEFINE N == Len(argv)
           f == CHOOSE g : IsLoop(g, passwd, argv, N)
           o == CHOOSE x \in f[N] : TRUE
           again == IF o.uri.scheme \in {"ldap", "ldaps"} THEN applyUri(o, o.uri) ELSE o
           q == parseClientArgs(argv, passwd)
<1>0. N \in Nat /\ DOMAIN argv = 1..N
  OBVIOUS
<1>1. IsLoop(f, passwd, argv, N)
  BY <1>0, ArgLoop
<1>2. o = After(LAMBDA st, a : applyArg(passwd, st, a), DefaultOptions, argv)
  BY DEF After, IsLoop, Applied
<1>3. \E p, r : q = [again EXCEPT !.port = p, !.filter = r]
  BY <1>2 DEF parseClientArgs
<1> HIDE DEF f
<1>4. f[N] # {} /\ \A x \in f[N] : Obeyed(argv, N, x)
  BY <1>1, ArgsObeyed
<1>5. Obeyed(argv, N, o)
  BY <1>4
<1> HIDE DEF o, N
<1>6. DOMAIN o = OptionNames
  BY <1>5 DEF Obeyed
<1>7. DOMAIN again = OptionNames
  BY <1>6, UriTaken
<1>8. again.ldaps = TRUE \/ again.starttls = TRUE
  <2>1. PICK i \in 1..N :
          \/ argv[i].flag = "-Z"
          \/ /\ argv[i].flag = "-H" /\ argv[i].has /\ argv[i].arg.scheme = "ldaps"
             /\ \A j \in 1..N : j > i /\ argv[j].has => argv[j].flag \notin {"-H", "-h"}
    BY <1>0 DEF AsksForTls
  <2>2. CASE argv[i].flag = "-Z"
    <3>1. o.starttls = TRUE
      BY <1>5, <2>2, Zenon DEF Obeyed
    <3>2. again.starttls = o.starttls
      BY <1>6, UriTaken
    <3> QED BY <3>1, <3>2, Zenon
  <2>3. CASE argv[i].flag # "-Z"
    <3>1. o.uri = argv[i].arg /\ argv[i].arg.scheme = "ldaps"
      BY <1>5, <2>1, <2>3, Zenon DEF Obeyed
    <3>2. again = applyUri(o, o.uri) /\ o.uri.scheme = "ldaps"
      BY <3>1
    <3>3. again.ldaps = TRUE
      BY <1>6, <3>2, UriTaken, Zenon
    <3> QED BY <3>3, Zenon
  <2> QED BY <2>2, <2>3
<1> HIDE DEF again, q
<1>9. PICK p, r : q = [again EXCEPT !.port = p, !.filter = r]
  BY <1>3
<1>10. q.ldaps = again.ldaps /\ q.starttls = again.starttls
  BY <1>7, <1>9, TlsOptions
<1>11. q.ldaps = TRUE \/ q.starttls = TRUE
  BY <1>8, <1>10, Zenon
<1> QED BY <1>11 DEF q

-----------------------------------------------------------------------------
(* The tool.                                                               *)

ToolFields == {"pc", "id", "tls", "todo", "round", "cookie", "rc", "printed", "exit"}
TlsAsked == opt.ldaps = TRUE \/ opt.starttls = TRUE

\* A tool that is asked for TLS is past the handshake before it binds.
ToolOk(t) ==
  /\ DOMAIN t = ToolFields /\ t.tls \in BOOLEAN
  /\ TlsAsked /\ t.pc \in {"bind", "bindWait", "request", "requestWait", "unbind"} => t.tls = TRUE

TlsInv ==
  /\ AsksForTls(call.argv) => TlsAsked
  /\ ToolOk(tool)
  /\ leaked \in BOOLEAN /\ (TlsAsked => leaked = FALSE)

\* The steps that go on to another place without a word about TLS.
LEMMA ExitsOk == ASSUME ToolOk(tool), NEW code PROVE ToolOk(Exited(code))
  BY DEF ToolOk, Exited, ToolFields

\* A step that sends nothing keeps the invariant, if the tool may be where it leads.
LEMMA ToolKeeps ==
  ASSUME TlsInv, UNCHANGED <<call, opt, leaked>>, ToolOk(tool')
  PROVE  TlsInv'
<1>1. TlsAsked' <=> TlsAsked
  BY DEF TlsAsked
<1>2. ToolOk(tool)'
  BY <1>1 DEF ToolOk
<1> QED BY <1>1, <1>2 DEF TlsInv

\* A message goes out.
LEMMA SendsKeep ==
  ASSUME TlsInv, NEW m, NEW next, NEW failed, Sends(m, next, failed),
         ToolOk(next), ToolOk(failed), Secret(m) /\ TlsAsked => tool.tls = TRUE
  PROVE  TlsInv'
<1>1. tool' \in {next, failed, Exited(Killed)} /\ UNCHANGED <<call, opt>>
  BY DEF Sends
<1>2. leaked' = (leaked \/ (Secret(m) /\ ~tool.tls))
  BY DEF Sends
<1>3. TlsAsked' <=> TlsAsked
  BY <1>1 DEF TlsAsked
<1>4. ToolOk(tool')
  BY <1>1, ExitsOk DEF TlsInv
<1>5. ToolOk(tool)'
  BY <1>3, <1>4 DEF ToolOk
<1>6. leaked' \in BOOLEAN /\ (TlsAsked => leaked' = FALSE)
  <2> HIDE DEF Secret
  <2> QED BY <1>2 DEF TlsInv
<1> QED BY <1>1, <1>3, <1>5, <1>6 DEF TlsInv

\* Up to the handshake.
LEMMA ConnectKeeps ==
  ASSUME TlsInv, main \/ connectFails \/ connectTo PROVE TlsInv'
<1>1. UNCHANGED <<call, opt, leaked>> /\ ToolOk(tool)
  BY DEF main, connectFails, connectTo, TlsInv
<1>2. CASE main
  <2>1. tool' = [tool EXCEPT !.pc = "connect"] \/ \E code : tool' = Exited(code)
    BY <1>2 DEF main
  <2>2. ToolOk([tool EXCEPT !.pc = "connect"])
    BY <1>1 DEF ToolOk, ToolFields
  <2> QED BY <1>1, <2>1, <2>2, ExitsOk, ToolKeeps
<1>3. CASE connectFails
  <2>1. tool' = Exited(1)
    BY <1>3 DEF connectFails
  <2> QED BY <1>1, <2>1, ExitsOk, ToolKeeps
<1>4. CASE connectTo
  <2>1. \/ tool' = Exited(1)
        \/ tool' = [tool EXCEPT !.pc = "hello"] \/ tool' = [tool EXCEPT !.pc = "starttls"]
        \/ tool' = [tool EXCEPT !.pc = "bind"] /\ ~opt.ldaps /\ ~opt.starttls
    BY <1>4 DEF connectTo
  <2>2. ToolOk([tool EXCEPT !.pc = "hello"]) /\ ToolOk([tool EXCEPT !.pc = "starttls"])
    BY <1>1 DEF ToolOk, ToolFields
  <2>3. ~opt.ldaps /\ ~opt.starttls => ~TlsAsked
    BY Zenon DEF TlsAsked
  <2>4. ~TlsAsked => ToolOk([tool EXCEPT !.pc = "bind"])
    BY <1>1 DEF ToolOk, ToolFields
  <2> QED BY <1>1, <2>1, <2>2, <2>3, <2>4, ExitsOk, ToolKeeps
<1> QED BY <1>2, <1>3, <1>4

\* The request for StartTLS is not a secret.
LEMMA StarttlsKeeps == ASSUME TlsInv, starttls PROVE TlsInv'
<1> DEFINE m == makeExtendedRequest(1, StartTlsOid, << >>)
<1>1. Sends(m, [tool EXCEPT !.pc = "starttlsWait"], Exited(1))
  BY DEF starttls
<1>2. ~Secret(m)
  <2>1. StartTlsOid # PasswordModifyOid
    BY OidAssumption DEF Oids
  <2> QED BY <2>1 DEF Secret, makeExtendedRequest, make
<1>3. ToolOk(tool)
  BY DEF TlsInv
<1>4. ToolOk([tool EXCEPT !.pc = "starttlsWait"])
  BY <1>3 DEF ToolOk, ToolFields
<1> HIDE DEF m
<1> QED BY <1>1, <1>2, <1>3, <1>4, ExitsOk, SendsKeep

\* An answer other than success ends the tool, and so does a handshake that
\* fails.
LEMMA HandshakeKeeps ==
  ASSUME TlsInv, starttlsAnswer \/ handshakeTls \/ handshakeAnswer PROVE TlsInv'
<1>1. UNCHANGED <<call, opt, leaked>> /\ ToolOk(tool)
  BY DEF starttlsAnswer, handshakeTls, handshakeAnswer, Receives, TlsInv
<1>2. \/ \E code : tool' = Exited(code)
      \/ tool' = [tool EXCEPT !.pc = "hello"] \/ tool' = [tool EXCEPT !.pc = "helloWait"]
      \/ tool' = [tool EXCEPT !.pc = "bind", !.tls = TRUE]
  BY DEF starttlsAnswer, handshakeTls, handshakeAnswer, Receives
<1>3. ToolOk([tool EXCEPT !.pc = "hello"]) /\ ToolOk([tool EXCEPT !.pc = "helloWait"])
  BY <1>1 DEF ToolOk, ToolFields
<1>4. ToolOk([tool EXCEPT !.pc = "bind", !.tls = TRUE])
  BY <1>1 DEF ToolOk, ToolFields
<1> QED BY <1>1, <1>2, <1>3, <1>4, ExitsOk, ToolKeeps

\* A tool that has its TLS, or was not asked for it, keeps it so.
LEMMA StaysOk ==
  ASSUME ToolOk(tool), TlsAsked => tool.tls = TRUE, NEW t, DOMAIN t = ToolFields, t.tls = tool.tls
  PROVE  ToolOk(t)
  BY DEF ToolOk

\* After a bind the tool goes on to its work, or exits.
LEMMA BoundOk ==
  ASSUME ToolOk(tool), TlsAsked => tool.tls = TRUE, NEW rc
  PROVE  ToolOk(bound(rc))
<1>1. bound(rc) = Exited(IF call.tool = "ldapsearch" THEN rc ELSE 1)
        \/ \E n : bound(rc) = [tool EXCEPT !.pc = "request", !.id = n]
  BY DEF bound
<1>2. ASSUME NEW n PROVE ToolOk([tool EXCEPT !.pc = "request", !.id = n])
  BY StaysOk DEF ToolOk, ToolFields
<1> QED BY <1>1, <1>2, ExitsOk

\* bindLdap runs under TLS when it was asked for.
LEMMA BindKeeps ==
  ASSUME TlsInv, bindLdap \/ bindAnswer PROVE TlsInv'
<1>1. ToolOk(tool) /\ tool.pc \in {"bind", "bindWait"}
  BY DEF bindLdap, bindAnswer, TlsInv
<1>2. TlsAsked => tool.tls = TRUE
  BY <1>1 DEF ToolOk
<1>3. ASSUME NEW rc PROVE ToolOk(bound(rc))
  BY <1>1, <1>2, BoundOk
<1>4. CASE bindLdap /\ bindImpossible # Success
  <2>1. UNCHANGED <<call, opt, leaked>> /\ tool' = bound(bindImpossible)
    BY <1>4 DEF bindLdap
  <2> QED BY <1>3, <2>1, ToolKeeps
<1>5. CASE bindLdap /\ bindImpossible = Success
  <2>1. Sends(bindRequest, [tool EXCEPT !.pc = "bindWait"], bound(Unavailable))
    BY <1>5 DEF bindLdap
  <2>2. ToolOk([tool EXCEPT !.pc = "bindWait"])
    BY <1>1, <1>2, StaysOk DEF ToolOk, ToolFields
  <2> QED BY <1>2, <1>3, <2>1, <2>2, SendsKeep
<1>6. CASE bindAnswer
  <2>1. /\ UNCHANGED <<call, opt, leaked>>
        /\ \/ \E rc : tool' = bound(rc)
           \/ \E m : tool' = challenged(m)
    BY <1>6 DEF bindAnswer, Receives
  <2>2. ASSUME NEW m PROVE ToolOk(challenged(m))
    <3>1. \/ \E rc : challenged(m) = bound(rc)
          \/ \E n : challenged(m) = [tool EXCEPT !.pc = "bind", !.round = 2, !.id = n]
      BY DEF challenged
    <3>2. ASSUME NEW n PROVE ToolOk([tool EXCEPT !.pc = "bind", !.round = 2, !.id = n])
      BY <1>1, <1>2, StaysOk DEF ToolOk, ToolFields
    <3> QED BY <1>3, <3>1, <3>2
  <2> QED BY <1>3, <2>1, <2>2, ToolKeeps
<1> QED BY <1>4, <1>5, <1>6

\* So do the requests of the tool's work, and the unbind after them.
LEMMA RequestKeeps ==
  ASSUME TlsInv, request \/ nothingToDo \/ requestAnswer \/ searchAnswer \/ unbind
  PROVE  TlsInv'
<1>1. ToolOk(tool) /\ tool.pc \in {"request", "requestWait", "unbind"}
  BY DEF request, nothingToDo, requestAnswer, searchAnswer, unbind, TlsInv
<1>2. TlsAsked => tool.tls = TRUE
  BY <1>1 DEF ToolOk
<1>3. ASSUME NEW rc, NEW out PROVE ToolOk(finished(rc, out))
  <2>1. \E pc, todo, printed :
          finished(rc, out) = [tool EXCEPT !.pc = pc, !.todo = todo, !.rc = rc, !.printed = printed]
    BY DEF finished
  <2>2. DOMAIN finished(rc, out) = ToolFields /\ finished(rc, out).tls = tool.tls
    BY <1>1, <2>1 DEF ToolOk, ToolFields
  <2> QED BY <1>1, <1>2, <2>2, StaysOk
<1>4. CASE request
  <2>1. \E m, n, next, failed :
          /\ Sends(m, next, failed)
          /\ next = [tool EXCEPT !.pc = "requestWait", !.id = n, !.cookie = << >>]
          /\ failed \in {Exited(1), [tool EXCEPT !.pc = "unbind", !.rc = Unavailable, !.id = n]}
    BY <1>4 DEF request
  <2>2. ASSUME NEW n
        PROVE  /\ ToolOk([tool EXCEPT !.pc = "requestWait", !.id = n, !.cookie = << >>])
               /\ ToolOk([tool EXCEPT !.pc = "unbind", !.rc = Unavailable, !.id = n])
    BY <1>1, <1>2, StaysOk DEF ToolOk, ToolFields
  <2>3. PICK m, n, next, failed :
          /\ Sends(m, next, failed)
          /\ next = [tool EXCEPT !.pc = "requestWait", !.id = n, !.cookie = << >>]
          /\ failed \in {Exited(1), [tool EXCEPT !.pc = "unbind", !.rc = Unavailable, !.id = n]}
    BY <2>1
  <2>4. ToolOk(next)
    BY <2>2, <2>3
  <2>5. ToolOk(failed)
    BY <1>1, <2>2, <2>3, ExitsOk
  <2>6. Sends(m, next, failed)
    BY <2>3
  <2> QED BY <1>2, <2>4, <2>5, <2>6, SendsKeep
<1>5. CASE nothingToDo
  <2>1. UNCHANGED <<call, opt, leaked>> /\ tool' = [tool EXCEPT !.pc = "unbind"]
    BY <1>5 DEF nothingToDo
  <2>2. ToolOk([tool EXCEPT !.pc = "unbind"])
    BY <1>1, <1>2, StaysOk DEF ToolOk, ToolFields
  <2> QED BY <2>1, <2>2, ToolKeeps
<1>6. CASE requestAnswer
  <2>1. UNCHANGED <<call, opt, leaked>> /\ \E rc, out : tool' = finished(rc, out)
    BY <1>6 DEF requestAnswer, Receives
  <2> QED BY <1>3, <2>1, ToolKeeps
<1>7. CASE searchAnswer
  <2>1. /\ UNCHANGED <<call, opt, leaked>>
        /\ \/ \E rc : tool' = finished(rc, << >>)
           \/ \E out : tool' = [tool EXCEPT !.printed = out]
           \/ \E c : tool' = [tool EXCEPT !.pc = "request", !.cookie = c]
           \/ tool' = Exited(1)
    BY <1>7 DEF searchAnswer, Receives
  <2>2. ASSUME NEW out PROVE ToolOk([tool EXCEPT !.printed = out])
    BY <1>1, <1>2, StaysOk DEF ToolOk, ToolFields
  <2>3. ASSUME NEW c PROVE ToolOk([tool EXCEPT !.pc = "request", !.cookie = c])
    BY <1>1, <1>2, StaysOk DEF ToolOk, ToolFields
  <2> QED BY <1>1, <1>3, <2>1, <2>2, <2>3, ExitsOk, ToolKeeps
<1>8. CASE unbind
  <2>1. Sends(make(tool.id, "UnbindRequest", << >>), Exited(tool.rc), Exited(tool.rc))
    BY <1>8 DEF unbind
  <2> QED BY <1>1, <1>2, <2>1, ExitsOk, SendsKeep
<1> QED BY <1>4, <1>5, <1>6, <1>7, <1>8

-----------------------------------------------------------------------------
(* The theorem.                                                            *)

\* A user who asks for TLS, with -Z or an ldaps URI, never sends a password
\* in clear, whatever else is among the arguments, whatever the server answers
\* and wherever the connection breaks (parseClientArgs, connectLdap and
\* bindLdap of cli/).
THEOREM SecretsAreProtected == Spec => []SecretsProtected
<1>1. Init => TlsInv
  <2> SUFFICES ASSUME Init PROVE TlsInv
    OBVIOUS
  <2>1. PICK i \in DOMAIN Calls : call = Calls[i] /\ opt = Options[i]
    BY DEF Init
  <2>2. opt = parseClientArgs(call.argv, call.tool = "ldappasswd")
    BY <2>1 DEF Options
  <2>3. AsksForTls(call.argv) => TlsAsked
    <3> DEFINE passwd == call.tool = "ldappasswd"
               argv == call.argv
    <3>1. passwd \in BOOLEAN
      OBVIOUS
    <3>2. argv \in Seq(ToSet(argv)) /\ \A a \in ToSet(argv) : a.flag \in Flags /\ a.has \in BOOLEAN
      BY <2>1, CallsAssumption
    <3> HIDE DEF passwd, argv
    <3>3. opt = parseClientArgs(argv, passwd)
      BY <2>2 DEF passwd, argv
    <3>4. AsksForTls(argv) => TlsAsked
      BY <3>1, <3>2, <3>3, ArgumentsHeeded, Zenon DEF TlsAsked
    <3> QED BY <3>4 DEF argv
  <2>4. ToolOk(tool) /\ leaked = FALSE
    BY DEF Init, ToolOk, ToolFields
  <2> QED BY <2>3, <2>4 DEF TlsInv
<1>2. ASSUME TlsInv, [Next]_vars PROVE TlsInv'
  <2>1. CASE UNCHANGED <<call, opt, tool, leaked>>
    <3>1. ToolOk(tool')
      BY <1>2, <2>1 DEF TlsInv
    <3> QED BY <1>2, <2>1, <3>1, ToolKeeps
  <2>2. CASE SessionStep \/ leave \/ cut \/ UNCHANGED vars
    <3>1. UNCHANGED <<call, opt, tool, leaked>>
      BY <2>2 DEF SessionStep, sessionHandshake, serve, leave, cut, vars
    <3> QED BY <2>1, <3>1
  <2> QED BY <1>2, <2>2, ConnectKeeps, StarttlsKeeps, HandshakeKeeps, BindKeeps, RequestKeeps
      DEF Next, ToolStep
<1>3. TlsInv => SecretsProtected
  BY DEF TlsInv, SecretsProtected
<1> QED BY <1>1, <1>2, <1>3, PTL DEF Spec

-----------------------------------------------------------------------------
(* The octets of numbers.                                                  *)

\* A loop of N turns, each of which makes a value of X of the one before.
Loops(X, x0, G, N) ==
  \E f \in [0..N -> X] : f[0] = x0 /\ \A k \in 1..N : f[k] = G[<<k, f[k - 1]>>]

\* A loop over 1..n has a value after each turn: the recursive function exists.
LEMMA LoopRuns ==
  ASSUME NEW X, NEW x0 \in X, NEW N \in Nat, NEW G \in [(1..N) \X X -> X]
  PROVE  Loops(X, x0, G, N)
<1> DEFINE P(f, n) == f[0] = x0 /\ \A k \in 1..n : f[k] = G[<<k, f[k - 1]>>]
           Ex == {n \in 0..N : \E f \in [0..n -> X] : P(f, n)}
<1>1. 0 \in Ex
  <2> DEFINE g == [k \in 0..0 |-> x0]
  <2>1. g \in [0..0 -> X] /\ P(g, 0)
    OBVIOUS
  <2>2. 0 \in 0..N
    OBVIOUS
  <2> HIDE DEF g, P
  <2> QED BY <2>1, <2>2
<1>2. ASSUME NEW n \in 1..N, n - 1 \in Ex PROVE n \in Ex
  <2>1. PICK f \in [0..(n - 1) -> X] : P(f, n - 1)
    BY <1>2
  <2>2. n \in 0..N /\ n - 1 \in 0..(n - 1)
    OBVIOUS
  <2> DEFINE y == G[<<n, f[n - 1]>>]
             g == [k \in 0..n |-> IF k = n THEN y ELSE f[k]]
  <2>3. y \in X
    BY <2>2
  <2> HIDE DEF y
  <2>4. g \in [0..n -> X]
    <3>1. ASSUME NEW k \in 0..n, k # n PROVE k \in 0..(n - 1)
      BY <3>1
    <3> QED BY <2>3, <3>1
  <2>5. g[0] = x0
    BY <2>1, <2>2
  <2>6. ASSUME NEW k \in 1..n PROVE g[k] = G[<<k, g[k - 1]>>]
    <3>1. CASE k = n
      <4>1. g[k - 1] = f[n - 1] /\ g[k] = y
        BY <2>2, <3>1
      <4> QED BY <3>1, <4>1 DEF y
    <3>2. CASE k # n
      <4>1. k \in 1..(n - 1) /\ k \in 0..n /\ k - 1 \in 0..n /\ k - 1 # n
        BY <2>2, <3>2
      <4>2. g[k - 1] = f[k - 1] /\ g[k] = f[k]
        BY <3>2, <4>1
      <4> QED BY <2>1, <4>1, <4>2
    <3> QED BY <3>1, <3>2
  <2>7. P(g, n)
    BY <2>5, <2>6
  <2> HIDE DEF g, P
  <2> QED BY <2>2, <2>4, <2>7
<1>3. 0..N \subseteq Ex
  <2> HIDE DEF Ex
  <2> QED BY <1>1, <1>2, CountUp
<1>4. N \in Ex
  BY <1>3
<1> QED BY <1>4 DEF Loops

-----------------------------------------------------------------------------
(* Numbers as octets.                                                      *)

\* Radix satisfies its recursive definition.
LEMMA RadixIs ==
  /\ Radix[0] = 1
  /\ \A k \in 1..Wide : Radix[k] = 256 * Radix[k - 1]
  /\ \A k \in 0..Wide : Radix[k] \in Nat \ {0}
<1> DEFINE X == Nat \ {0}
           Is(f) == f = [k \in 0..Wide |-> IF k = 0 THEN 1 ELSE 256 * f[k - 1]]
           r == CHOOSE f : Is(f)
           G == [p \in (1..Wide) \X X |-> 256 * p[2]]
<1>1. Radix = r
  BY DEF Radix
<1>2. Wide \in Nat
  BY WidthAssumption
<1>3. G \in [(1..Wide) \X X -> X] /\ 1 \in X /\ \A n \in 1..Wide, x \in X : G[<<n, x>>] = 256 * x
  OBVIOUS
<1> HIDE DEF X, G
<1>4. PICK f \in [0..Wide -> X] : f[0] = 1 /\ \A n \in 1..Wide : f[n] = G[<<n, f[n - 1]>>]
  <2>1. Loops(X, 1, G, Wide)
    BY <1>2, <1>3, LoopRuns
  <2> QED BY <2>1 DEF Loops
<1>5. ASSUME NEW n \in 1..Wide PROVE f[n] = 256 * f[n - 1]
  <2>1. n - 1 \in 0..Wide
    BY <1>2
  <2>2. f[n - 1] \in X /\ f[n] = G[<<n, f[n - 1]>>]
    BY <1>4, <2>1
  <2>3. G[<<n, f[n - 1]>>] = 256 * f[n - 1]
    BY <1>3, <2>2
  <2> QED BY <2>2, <2>3
<1>6. Is(f)
  <2>1. f = [n \in 0..Wide |-> f[n]]
    BY <1>4
  <2>2. \A n \in 0..Wide : n = 0 \/ n \in 1..Wide
    BY <1>2
  <2> QED BY <1>4, <1>5, <2>1, <2>2
<1>7. Is(r)
  BY <1>6
<1> HIDE DEF r
<1>8. r[0] = 1 /\ \A k \in 1..Wide : r[k] = 256 * r[k - 1]
  <2>1. 0 \in 0..Wide /\ \A k \in 1..Wide : k \in 0..Wide /\ k # 0
    BY <1>2
  <2>2. \A k \in 0..Wide : r[k] = IF k = 0 THEN 1 ELSE 256 * r[k - 1]
    BY <1>7
  <2> QED BY <2>1, <2>2
<1>9. \A k \in 0..Wide : r[k] \in X
  <2> DEFINE T == {k \in 0..Wide : r[k] \in X}
  <2>1. 0 \in T
    BY <1>2, <1>3, <1>8
  <2>2. ASSUME NEW k \in 1..Wide, k - 1 \in T PROVE k \in T
    BY <1>2, <1>8, <2>2 DEF X
  <2> HIDE DEF T
  <2>3. 0..Wide \subseteq T
    BY <1>2, <2>1, <2>2, CountUp
  <2> QED BY <2>3 DEF T
<1> QED BY <1>1, <1>8, <1>9 DEF X

\* So does shifted.
LEMMA ShiftedIs ==
  ASSUME NEW n \in Nat
  PROVE  /\ shifted(n)[0] = n
         /\ \A k \in 1..Wide : shifted(n)[k] = shifted(n)[k - 1] \div 256
         /\ \A k \in 0..Wide : shifted(n)[k] \in Nat
<1> DEFINE Is(f) == f = [k \in 0..Wide |-> IF k = 0 THEN n ELSE f[k - 1] \div 256]
           r == CHOOSE f : Is(f)
           G == [p \in (1..Wide) \X Nat |-> p[2] \div 256]
<1>1. shifted(n) = r
  BY DEF shifted
<1>2. Wide \in Nat
  BY WidthAssumption
<1>3. G \in [(1..Wide) \X Nat -> Nat] /\ \A k \in 1..Wide, x \in Nat : G[<<k, x>>] = x \div 256
  OBVIOUS
<1> HIDE DEF G
<1>4. PICK f \in [0..Wide -> Nat] : f[0] = n /\ \A k \in 1..Wide : f[k] = G[<<k, f[k - 1]>>]
  <2>1. Loops(Nat, n, G, Wide)
    BY <1>2, <1>3, LoopRuns
  <2> QED BY <2>1 DEF Loops
<1>5. ASSUME NEW k \in 1..Wide PROVE f[k] = f[k - 1] \div 256
  <2>1. k - 1 \in 0..Wide
    BY <1>2
  <2>2. f[k - 1] \in Nat /\ f[k] = G[<<k, f[k - 1]>>]
    BY <1>4, <2>1
  <2>3. G[<<k, f[k - 1]>>] = f[k - 1] \div 256
    BY <1>3, <2>2
  <2> QED BY <2>2, <2>3
<1>6. Is(f)
  <2>1. f = [k \in 0..Wide |-> f[k]]
    BY <1>4
  <2>2. \A k \in 0..Wide : k = 0 \/ k \in 1..Wide
    BY <1>2
  <2> QED BY <1>4, <1>5, <2>1, <2>2
<1>7. Is(r)
  BY <1>6
<1> HIDE DEF r
<1>8. r[0] = n /\ \A k \in 1..Wide : r[k] = r[k - 1] \div 256
  <2>1. 0 \in 0..Wide /\ \A k \in 1..Wide : k \in 0..Wide /\ k # 0
    BY <1>2
  <2>2. \A k \in 0..Wide : r[k] = IF k = 0 THEN n ELSE r[k - 1] \div 256
    BY <1>7
  <2> QED BY <2>1, <2>2
<1>9. \A k \in 0..Wide : r[k] \in Nat
  <2> DEFINE T == {k \in 0..Wide : r[k] \in Nat}
  <2>1. 0 \in T
    BY <1>2, <1>8
  <2>2. ASSUME NEW k \in 1..Wide, k - 1 \in T PROVE k \in T
    BY <1>2, <1>8, <2>2
  <2> HIDE DEF T
  <2>3. 0..Wide \subseteq T
    BY <1>2, <2>1, <2>2, CountUp
  <2> QED BY <2>3 DEF T
<1> QED BY <1>1, <1>8, <1>9

\* The number that octets stand for, octet by octet.
Counts(f, s) ==
  /\ f \in [0..Len(s) -> Nat] /\ f[0] = 0
  /\ \A k \in 1..Len(s) : f[k] = 256 * f[k - 1] + s[k]

\* Number is the last of them.
LEMMA NumberIs ==
  ASSUME NEW s \in Seq(Octets)
  PROVE  \E f : Counts(f, s) /\ Number(s) = f[Len(s)]
<1> DEFINE N == Len(s)
           Is(f) == f = [i \in 0..N |-> IF i = 0 THEN 0 ELSE 256 * f[i - 1] + s[i]]
           r == CHOOSE f : Is(f)
           G == [p \in (1..N) \X Nat |-> 256 * p[2] + s[p[1]]]
<1>1. Number(s) = r[N]
  BY DEF Number
<1>2. N \in Nat /\ \A k \in 1..N : s[k] \in Nat
  <2>1. N \in Nat /\ \A k \in 1..N : s[k] \in Octets
    OBVIOUS
  <2>2. Octets \subseteq Nat
    BY DEF Octets
  <2> QED BY <2>1, <2>2
<1>3. G \in [(1..N) \X Nat -> Nat] /\ \A k \in 1..N, x \in Nat : G[<<k, x>>] = 256 * x + s[k]
  <2> HIDE DEF N
  <2> QED BY <1>2
<1> HIDE DEF G
<1> HIDE DEF N
<1>4. PICK f \in [0..N -> Nat] : f[0] = 0 /\ \A k \in 1..N : f[k] = G[<<k, f[k - 1]>>]
  <2>1. Loops(Nat, 0, G, N)
    BY <1>2, <1>3, LoopRuns
  <2> QED BY <2>1 DEF Loops
<1>5. ASSUME NEW k \in 1..N PROVE f[k] = 256 * f[k - 1] + s[k]
  <2>1. k - 1 \in 0..N
    BY <1>2
  <2>2. f[k - 1] \in Nat /\ f[k] = G[<<k, f[k - 1]>>]
    BY <1>4, <2>1
  <2>3. G[<<k, f[k - 1]>>] = 256 * f[k - 1] + s[k]
    BY <1>3, <2>2
  <2> QED BY <2>2, <2>3
<1>6. Is(f)
  <2>1. f = [k \in 0..N |-> f[k]]
    BY <1>4
  <2>2. \A k \in 0..N : k = 0 \/ k \in 1..N
    BY <1>2
  <2> QED BY <1>4, <1>5, <2>1, <2>2
<1>7. Is(r)
  BY <1>6
<1> HIDE DEF r
<1>8. r[0] = 0 /\ \A k \in 1..N : r[k] = 256 * r[k - 1] + s[k]
  <2>1. 0 \in 0..N /\ \A k \in 1..N : k \in 0..N /\ k # 0
    BY <1>2
  <2>2. \A k \in 0..N : r[k] = IF k = 0 THEN 0 ELSE 256 * r[k - 1] + s[k]
    BY <1>7
  <2> QED BY <2>1, <2>2
<1>9. r \in [0..N -> Nat]
  <2> DEFINE T == {k \in 0..N : r[k] \in Nat}
  <2>1. 0 \in T
    BY <1>2, <1>8
  <2>2. ASSUME NEW k \in 1..N, k - 1 \in T PROVE k \in T
    <3>1. r[k - 1] \in Nat /\ s[k] \in Nat /\ r[k] = 256 * r[k - 1] + s[k]
      BY <1>2, <1>8, <2>2
    <3>2. r[k] \in Nat /\ k \in 0..N
      BY <1>2, <3>1
    <3> QED BY <3>2
  <2>3. 0..N \subseteq T
    <3> HIDE DEF T
    <3> QED BY <1>2, <2>1, <2>2, CountUp
  <2>4. r = [k \in 0..N |-> r[k]]
    BY <1>7
  <2> QED BY <2>3, <2>4
<1>10. Counts(r, s)
  BY <1>8, <1>9 DEF Counts, N
<1> QED BY <1>1, <1>10 DEF N

\* A number that is nothing after w shifts is what its last w octets stand for.
LEMMA OctetsOfNumber ==
  ASSUME NEW n \in Nat, NEW w \in 0..Wide
  PROVE  /\ BigEndian(n, w) \in Seq(Octets) /\ Len(BigEndian(n, w)) = w
         /\ \A i \in 1..w : BigEndian(n, w)[i] = shifted(n)[w - i] % 256
         /\ shifted(n)[w] = 0 => Number(BigEndian(n, w)) = n
<1> DEFINE b == BigEndian(n, w)
           s == shifted(n)
<1>0. Wide \in Nat /\ w \in Nat
  BY WidthAssumption
<1>1. /\ s[0] = n /\ \A k \in 1..Wide : s[k] = s[k - 1] \div 256
      /\ \A k \in 0..Wide : s[k] \in Nat
  BY ShiftedIs
<1>2. b = [i \in 1..w |-> s[w - i] % 256]
  BY DEF BigEndian
<1> HIDE DEF b, s
<1>3. ASSUME NEW i \in 1..w PROVE w - i \in 0..Wide /\ s[w - i] % 256 \in Octets
  <2>1. w - i \in 0..Wide
    BY <1>0
  <2>2. s[w - i] \in Nat
    BY <1>1, <2>1
  <2> QED BY <2>1, <2>2 DEF Octets
<1>4. b \in Seq(Octets) /\ Len(b) = w /\ \A i \in 1..w : b[i] = s[w - i] % 256
  BY <1>0, <1>2, <1>3
<1>5. ASSUME s[w] = 0 PROVE Number(b) = n
  <2>1. PICK f : Counts(f, b) /\ Number(b) = f[Len(b)]
    BY <1>4, NumberIs
  <2> DEFINE T == {i \in 0..w : f[i] = s[w - i]}
  <2>2. 0 \in T
    BY <1>0, <1>5, <2>1 DEF Counts
  <2>3. ASSUME NEW i \in 1..w, i - 1 \in T PROVE i \in T
    <3>1. f[i - 1] = s[w - (i - 1)] /\ w - (i - 1) = (w - i) + 1 /\ (w - i) + 1 \in 1..Wide
      BY <1>0, <2>3
    <3>2. f[i - 1] = s[w - i] \div 256
      <4>1. s[(w - i) + 1] = s[((w - i) + 1) - 1] \div 256
        BY <1>1, <3>1
      <4>2. ((w - i) + 1) - 1 = w - i
        BY <1>0
      <4> QED BY <3>1, <4>1, <4>2
    <3>3. f[i] = 256 * f[i - 1] + b[i] /\ b[i] = s[w - i] % 256
      BY <1>4, <2>1 DEF Counts
    <3>4. s[w - i] \in Nat
      BY <1>1, <1>3
    <3>5. f[i] = s[w - i]
      BY <3>2, <3>3, <3>4
    <3> QED BY <1>0, <3>5
  <2>4. 0..w \subseteq T
    <3> HIDE DEF T
    <3> QED BY <1>0, <2>2, <2>3, CountUp
  <2>5. f[w] = s[w - w] /\ w - w = 0
    BY <1>0, <2>4
  <2> QED BY <1>1, <1>4, <2>1, <2>5
<1> QED BY <1>4, <1>5 DEF b, s

-----------------------------------------------------------------------------
(* Lengths, and elements behind each other.                                *)

\* A length that four octets can hold, and that a size_t has room for.
Short(n) == n \in Nat /\ \E k \in 1..Wide : k <= 4 /\ shifted(n)[k] = 0

\* What is shorter is short too.
LEMMA ShiftedGrows ==
  ASSUME NEW m \in Nat, NEW n \in Nat, m <= n, NEW k \in 0..Wide
  PROVE  shifted(m)[k] <= shifted(n)[k]
<1> DEFINE T == {j \in 0..Wide : shifted(m)[j] <= shifted(n)[j]}
<1>0. Wide \in Nat
  BY WidthAssumption
<1>1. 0 \in T
  BY <1>0, ShiftedIs
<1>2. ASSUME NEW j \in 1..Wide, j - 1 \in T PROVE j \in T
  <2>1. /\ shifted(m)[j] = shifted(m)[j - 1] \div 256 /\ shifted(n)[j] = shifted(n)[j - 1] \div 256
        /\ shifted(m)[j - 1] \in Nat /\ shifted(n)[j - 1] \in Nat
    BY <1>0, ShiftedIs
  <2>2. shifted(m)[j - 1] <= shifted(n)[j - 1]
    BY <1>2
  <2>3. shifted(m)[j] <= shifted(n)[j]
    BY <2>1, <2>2
  <2> QED BY <1>0, <2>3
<1> HIDE DEF T
<1>3. 0..Wide \subseteq T
  BY <1>0, <1>1, <1>2, CountUp
<1> QED BY <1>3 DEF T

\* So a length below one that fits, fits.
LEMMA ShorterIsShort ==
  ASSUME NEW n, Short(n), NEW m \in Nat, m <= n
  PROVE  Short(m)
<1>1. PICK k \in 1..Wide : k <= 4 /\ shifted(n)[k] = 0
  BY DEF Short
<1>2. n \in Nat /\ k \in 0..Wide
  BY <1>1, WidthAssumption DEF Short
<1>3. shifted(m)[k] <= 0 /\ shifted(m)[k] \in Nat
  BY <1>1, <1>2, ShiftedGrows, ShiftedIs
<1>4. shifted(m)[k] = 0
  BY <1>3
<1> QED BY <1>1, <1>4 DEF Short

\* encodeLength of a length that is short.
LEMMA LengthIs ==
  ASSUME NEW n, Short(n)
  PROVE  \/ n < 128 /\ encodeLength(n) = <<n>>
         \/ \E k \in 1..4 :
              /\ ~(n < 128) /\ k \in 1..Wide
              /\ encodeLength(n) = <<128 + k>> \o BigEndian(n, k)
              /\ Number(BigEndian(n, k)) = n
<1> DEFINE P(k) == shifted(n)[k] = 0 /\ \A j \in 1..(k - 1) : shifted(n)[j] > 0
           k == CHOOSE k \in 1..Wide : P(k)
<1>0. n \in Nat /\ Wide \in Nat
  BY WidthAssumption DEF Short
<1>1. CASE n < 128
  BY <1>1 DEF encodeLength
<1>2. CASE ~(n < 128)
  <2>1. encodeLength(n) = <<128 + k>> \o BigEndian(n, k)
    BY <1>2 DEF encodeLength
  <2>2. PICK w \in 1..Wide : w <= 4 /\ shifted(n)[w] = 0
    BY DEF Short
  <2> DEFINE Z == {j \in 1..Wide : shifted(n)[j] = 0}
  <2>3. PICK m \in Z : \A j \in Z : m <= j
    <3>1. Z \subseteq Nat /\ Z # {}
      BY <1>0, <2>2
    <3> HIDE DEF Z
    <3> QED BY <3>1, LeastNumber
  <2>4. P(m)
    <3>1. shifted(n)[m] = 0
      BY <2>3
    <3>2. ASSUME NEW j \in 1..(m - 1) PROVE shifted(n)[j] > 0
      <4>1. j \in 1..Wide /\ j \in 0..Wide /\ ~(m <= j)
        BY <1>0
      <4>2. j \notin Z /\ shifted(n)[j] \in Nat
        BY <1>0, <2>3, <4>1, ShiftedIs
      <4> QED BY <4>1, <4>2
    <3> QED BY <3>1, <3>2
  <2>5. k \in 1..Wide /\ P(k)
    BY <2>3, <2>4
  <2>6. k <= 4
    <3>1. ASSUME k > 4 PROVE FALSE
      <4>1. w \in 1..(k - 1)
        BY <1>0, <2>2, <2>5, <3>1
      <4>2. shifted(n)[w] > 0
        BY <2>5, <4>1
      <4> QED BY <2>2, <4>2
    <3> QED BY <1>0, <2>5, <3>1
  <2> HIDE DEF k
  <2>7. k \in 0..Wide /\ k \in 1..4 /\ shifted(n)[k] = 0
    BY <1>0, <2>5, <2>6
  <2>8. Number(BigEndian(n, k)) = n
    BY <1>0, <2>7, OctetsOfNumber
  <2> QED BY <1>2, <2>1, <2>5, <2>7, <2>8
<1> QED BY <1>1, <1>2

\* Tag and length of an element.
Head2(tag, n) == <<tag>> \o encodeLength(n)
\* s begins as head does, as far as it goes.
Begins(s, head) == \A i \in 1..Len(s) : i <= Len(head) => s[i] = head[i]
Malformed(s) == Len(s) >= 2 /\ s[2] >= 128 /\ s[2] - 128 \notin 1..4

\* The header of an element: its tag, and its length in one to five octets.
LEMMA HeadIs ==
  ASSUME NEW tag \in Octets, NEW n, Short(n)
  PROVE  Head2(tag, n) \in Seq(Octets) /\ Len(Head2(tag, n)) \in 2..6 /\ Head2(tag, n)[1] = tag
<1>0. n \in Nat
  BY DEF Short
<1>1. CASE n < 128 /\ encodeLength(n) = <<n>>
  <2>1. n \in Octets
    BY <1>0, <1>1 DEF Octets
  <2> QED BY <1>1, <2>1 DEF Head2
<1>2. ASSUME NEW k \in 1..4, k \in 1..Wide, encodeLength(n) = <<128 + k>> \o BigEndian(n, k)
      PROVE  Head2(tag, n) \in Seq(Octets) /\ Len(Head2(tag, n)) \in 2..6 /\ Head2(tag, n)[1] = tag
  <2> DEFINE b == BigEndian(n, k)
  <2>1. k \in 0..Wide
    BY <1>2, WidthAssumption
  <2>2. b \in Seq(Octets) /\ Len(b) = k
    BY <1>0, <2>1, OctetsOfNumber
  <2>3. 128 + k \in Octets
    BY DEF Octets
  <2> HIDE DEF b
  <2>4. Head2(tag, n) = <<tag>> \o (<<128 + k>> \o b)
    BY <1>2 DEF Head2, b
  <2> QED BY <2>2, <2>3, <2>4
<1> QED BY <1>1, <1>2, LengthIs

\* readTagLength reads what writeTagLength has written, or has to wait.
LEMMA HeaderRead ==
  ASSUME NEW tag \in Octets, NEW n, Short(n), NEW s \in Seq(Octets), Begins(s, Head2(tag, n))
  PROVE  /\ ~Malformed(s)
         /\ IF Len(s) < Len(Head2(tag, n)) THEN readTagLength(s) = NoHeader
            ELSE readTagLength(s) = [ok |-> TRUE, tag |-> tag, size |-> Len(Head2(tag, n)), length |-> n]
<1> DEFINE h == Head2(tag, n)
           Goal == /\ ~Malformed(s)
                   /\ IF Len(s) < Len(h) THEN readTagLength(s) = NoHeader
                      ELSE readTagLength(s) = [ok |-> TRUE, tag |-> tag, size |-> Len(h), length |-> n]
<1>0. n \in Nat /\ Len(s) \in Nat
  BY DEF Short
<1>1. ASSUME n < 128, encodeLength(n) = <<n>> PROVE Goal
  <2>1. h = <<tag>> \o <<n>> /\ n \in Octets
    BY <1>0, <1>1 DEF Head2, Octets
  <2>2. Len(h) = 2 /\ h[1] = tag /\ h[2] = n
    BY <2>1
  <2> HIDE DEF h
  <2>3. Len(s) >= 2 => s[1] = tag /\ s[2] = n
    BY <1>0, <2>2 DEF Begins, h
  <2>4. ~Malformed(s)
    BY <1>0, <1>1, <2>3 DEF Malformed
  <2>5. Len(s) < 2 => readTagLength(s) = NoHeader
    BY DEF readTagLength
  <2>6. ASSUME ~(Len(s) < 2) PROVE readTagLength(s) = [ok |-> TRUE, tag |-> tag, size |-> 2, length |-> n]
    <3>1. readTagLength(s) = Header(s, s[2] - 128) /\ s[1] = tag /\ s[2] = n
      BY <1>0, <2>3, <2>6 DEF readTagLength
    <3>2. n - 128 < 0
      BY <1>0, <1>1
    <3> QED BY <3>1, <3>2 DEF Header
  <2> QED BY <2>2, <2>4, <2>5, <2>6
<1>2. ASSUME NEW k \in 1..4, k \in 1..Wide, encodeLength(n) = <<128 + k>> \o BigEndian(n, k),
             Number(BigEndian(n, k)) = n
      PROVE  Goal
  <2> DEFINE b == BigEndian(n, k)
  <2>1. k \in 0..Wide /\ k \in Nat
    BY <1>2, WidthAssumption
  <2>2. b \in Seq(Octets) /\ Len(b) = k
    BY <1>0, <2>1, OctetsOfNumber
  <2>3. Number(b) = n /\ h = <<tag>> \o (<<128 + k>> \o b)
    BY <1>2 DEF Head2
  <2> HIDE DEF b
  <2>4. Len(h) = 2 + k /\ h[1] = tag /\ h[2] = 128 + k /\ \A i \in 1..k : h[2 + i] = b[i]
    <3>1. h = <<tag, 128 + k>> \o b
      BY <2>2, <2>3
    <3> HIDE DEF h
    <3> QED BY <2>1, <2>2, <3>1
  <2> HIDE DEF h
  <2>5. Len(s) >= 2 => s[1] = tag /\ s[2] = 128 + k
    BY <1>0, <2>1, <2>4 DEF Begins, h
  <2>6. ~Malformed(s)
    BY <1>0, <2>1, <2>5 DEF Malformed
  <2>7. Len(s) < 2 => readTagLength(s) = NoHeader
    BY DEF readTagLength
  <2>8. ASSUME ~(Len(s) < 2)
        PROVE  readTagLength(s) = IF Len(s) < 2 + k THEN NoHeader
                 ELSE [ok |-> TRUE, tag |-> tag, size |-> 2 + k, length |-> Number(SubSeq(s, 3, 2 + k))]
    <3>1. readTagLength(s) = Header(s, s[2] - 128) /\ s[1] = tag /\ s[2] = 128 + k
      BY <1>0, <2>5, <2>8 DEF readTagLength
    <3>2. s[2] - 128 = k /\ ~(k < 0) /\ ~(k \notin 1..4)
      BY <2>1, <3>1
    <3>3. readTagLength(s) = Header(s, k)
      BY <3>1, <3>2
    <3> QED BY <3>1, <3>2, <3>3 DEF Header
  <2>9. ASSUME ~(Len(s) < 2 + k) PROVE SubSeq(s, 3, 2 + k) = b
    <3> DEFINE q == SubSeq(s, 3, 2 + k)
    <3>1. q \in Seq(Octets) /\ Len(q) = k /\ \A i \in 1..k : q[i] = s[2 + i]
      BY <1>0, <2>1, <2>9
    <3>2. ASSUME NEW i \in 1..k PROVE q[i] = b[i]
      <4>1. 2 + i \in 1..Len(s) /\ 2 + i <= Len(h)
        BY <1>0, <2>1, <2>4, <2>9
      <4>2. s[2 + i] = h[2 + i]
        BY <4>1 DEF Begins, h
      <4> QED BY <2>4, <3>1, <4>2
    <3> HIDE DEF q
    <3>3. q = b
      BY <2>2, <3>1, <3>2
    <3> QED BY <3>3 DEF q
  <2>10. Len(s) < 2 + k => readTagLength(s) = NoHeader
    BY <2>7, <2>8
  <2>11. ~(Len(s) < 2 + k) => readTagLength(s) = [ok |-> TRUE, tag |-> tag, size |-> 2 + k, length |-> n]
    <3> SUFFICES ASSUME ~(Len(s) < 2 + k)
                 PROVE  readTagLength(s) = [ok |-> TRUE, tag |-> tag, size |-> 2 + k, length |-> n]
      OBVIOUS
    <3>1. ~(Len(s) < 2)
      BY <1>0, <2>1
    <3>2. SubSeq(s, 3, 2 + k) = b
      BY <2>9
    <3>3. Number(SubSeq(s, 3, 2 + k)) = n
      BY <2>3, <3>2
    <3> QED BY <2>8, <3>1, <3>3
  <2> QED BY <2>4, <2>6, <2>10, <2>11
<1> HIDE DEF Goal
<1>3. Goal
  BY <1>1, <1>2, LengthIs
<1> QED BY <1>3 DEF Goal, h

\* An element as it is written.
LEMMA WriteIs ==
  ASSUME NEW tag \in Octets, NEW c \in Seq(Octets), Short(Len(c))
  PROVE  /\ write(tag, c) = Head2(tag, Len(c)) \o c /\ write(tag, c) \in Seq(Octets)
         /\ Len(write(tag, c)) = Len(Head2(tag, Len(c))) + Len(c)
<1> DEFINE h == Head2(tag, Len(c))
<1>1. h \in Seq(Octets)
  BY HeadIs
<1>2. write(tag, c) = <<tag>> \o encodeLength(Len(c)) \o c
  <2>1. [tag |-> tag, content |-> c] \in TagAndContent
    BY DEF TagAndContent
  <2> QED BY <2>1 DEF write, writeElement
<1>3. write(tag, c) = h \o c
  BY <1>2 DEF Head2
<1> HIDE DEF h
<1>4. h \o c \in Seq(Octets) /\ Len(h \o c) = Len(h) + Len(c)
  BY <1>1
<1> QED BY <1>3, <1>4 DEF h

\* A reader takes the first element off, whatever follows.
LEMMA FirstRead ==
  ASSUME NEW tag \in Octets, NEW c \in Seq(Octets), Short(Len(c)), NEW more \in Seq(Octets)
  PROVE  LET s == write(tag, c) \o more
             h == readTagLength(s)
         IN  /\ s \in Seq(Octets) /\ ~Malformed(s)
             /\ h = [ok |-> TRUE, tag |-> tag, size |-> Len(Head2(tag, Len(c))), length |-> Len(c)]
             /\ Complete(s, h) /\ First(s, h) = [tag |-> tag, content |-> c] /\ Others(s, h) = more
             /\ SubSeq(s, 1, h.size + h.length) = write(tag, c)
<1> DEFINE w == write(tag, c)
           s == w \o more
           h == Head2(tag, Len(c))
           r == readTagLength(s)
<1>1. w = h \o c /\ w \in Seq(Octets) /\ Len(w) = Len(h) + Len(c)
  BY WriteIs
<1>2. h \in Seq(Octets) /\ Len(h) \in 2..6 /\ Len(c) \in Nat
  BY HeadIs
<1> HIDE DEF w, h
<1>3. s \in Seq(Octets) /\ Len(s) = Len(h) + Len(c) + Len(more) /\ Len(more) \in Nat
  BY <1>1, <1>2
<1>4. \A i \in 1..Len(h) : s[i] = h[i]
  <2>1. ASSUME NEW i \in 1..Len(h) PROVE s[i] = h[i]
    <3>1. i \in 1..Len(w)
      BY <1>1, <1>2
    <3>2. s[i] = w[i]
      BY <1>1, <1>2, <3>1
    <3>3. w[i] = h[i]
      BY <1>1, <1>2
    <3> QED BY <3>2, <3>3
  <2> QED BY <2>1
<1>5. ASSUME NEW i \in 1..Len(c) PROVE s[Len(h) + i] = c[i]
  <2>1. Len(h) + i \in 1..Len(w) /\ Len(h) + i \notin 1..Len(h) /\ (Len(h) + i) - Len(h) = i
    BY <1>1, <1>2
  <2>2. s[Len(h) + i] = w[Len(h) + i]
    BY <1>1, <1>2, <2>1
  <2>3. w[Len(h) + i] = c[i]
    BY <1>1, <1>2, <2>1
  <2> QED BY <2>2, <2>3
<1>6. ASSUME NEW i \in 1..Len(more) PROVE s[(Len(h) + Len(c)) + i] = more[i]
  BY <1>1, <1>2, <1>3
<1> HIDE DEF s
<1>7. Begins(s, h)
  BY <1>2, <1>3, <1>4 DEF Begins
<1>8. ~(Len(s) < Len(h))
  BY <1>2, <1>3
<1>9. ~Malformed(s) /\ r = [ok |-> TRUE, tag |-> tag, size |-> Len(h), length |-> Len(c)]
  BY <1>3, <1>7, <1>8, HeaderRead DEF h
<1>10. Complete(s, r)
  BY <1>2, <1>3, <1>9 DEF Complete
<1>11. First(s, r) = [tag |-> tag, content |-> c]
  <2> DEFINE q == SubSeq(s, Len(h) + 1, Len(h) + Len(c))
  <2>1. q \in Seq(Octets) /\ Len(q) = Len(c) /\ \A i \in 1..Len(c) : q[i] = s[Len(h) + i]
    BY <1>2, <1>3
  <2>2. First(s, r) = [tag |-> tag, content |-> q]
    BY <1>9 DEF First
  <2> HIDE DEF q
  <2>3. q = c
    BY <1>5, <2>1
  <2> QED BY <2>2, <2>3
<1>12. Others(s, r) = more
  <2> DEFINE q == SubSeq(s, (Len(h) + Len(c)) + 1, Len(s))
  <2>1. /\ q \in Seq(Octets) /\ Len(q) = Len(more)
        /\ \A i \in 1..Len(more) : q[i] = s[(Len(h) + Len(c)) + i]
    BY <1>2, <1>3
  <2>2. Others(s, r) = q
    BY <1>9 DEF Others
  <2> HIDE DEF q
  <2>3. q = more
    BY <1>6, <2>1
  <2> QED BY <2>2, <2>3
<1>13. SubSeq(s, 1, r.size + r.length) = w
  <2> DEFINE q == SubSeq(s, 1, Len(w))
  <2>1. q \in Seq(Octets) /\ Len(q) = Len(w) /\ \A i \in 1..Len(w) : q[i] = s[i]
    BY <1>1, <1>2, <1>3
  <2>2. \A i \in 1..Len(w) : s[i] = w[i]
    BY <1>1 DEF s
  <2>3. SubSeq(s, 1, r.size + r.length) = q
    BY <1>1, <1>9
  <2> HIDE DEF q
  <2>4. \A i \in 1..Len(w) : q[i] = w[i]
    BY <2>1, <2>2
  <2>5. Len(w) \in Nat
    BY <1>1
  <2>6. q = [i \in 1..Len(w) |-> q[i]]
    BY <2>1, <2>5
  <2>7. w = [i \in 1..Len(w) |-> w[i]]
    <3>1. w \in Seq(Octets)
      BY <1>1
    <3> QED BY <2>5, <3>1
  <2>8. q = w
    BY <2>4, <2>6, <2>7
  <2> QED BY <2>3, <2>8
<1> QED BY <1>3, <1>9, <1>10, <1>11, <1>12, <1>13 DEF s, w, h

-----------------------------------------------------------------------------
(* The stream: recvPdu.                                                    *)

\* recvPdu cuts an element off the stream exactly, whatever follows it; one that
\* is too large fails.
THEOREM PduIsFramed ==
  ASSUME NEW tag \in Octets, NEW c \in Seq(Octets), Short(Len(c)), NEW more \in Seq(Octets),
         NEW ended, NEW max \in Nat
  PROVE  recvPdu(write(tag, c) \o more, ended, max) =
           IF Len(c) > max THEN [is |-> "failed"]
           ELSE [is |-> "pdu", pdu |-> write(tag, c), rest |-> more]
<1> DEFINE w == write(tag, c)
           s == w \o more
           h == readTagLength(s)
<1>1. /\ s \in Seq(Octets) /\ ~Malformed(s)
      /\ h = [ok |-> TRUE, tag |-> tag, size |-> Len(Head2(tag, Len(c))), length |-> Len(c)]
      /\ Complete(s, h) /\ Others(s, h) = more
      /\ SubSeq(s, 1, h.size + h.length) = w
  BY FirstRead
<1>2. Len(Head2(tag, Len(c))) \in Nat /\ Len(c) \in Nat /\ Len(s) \in Nat
  BY <1>1, HeadIs
<1> HIDE DEF w, s, h
<1>3. h.ok /\ h.length = Len(c) /\ ~(Len(s) < h.size + h.length)
  BY <1>1, <1>2 DEF Complete
<1>4. Take(s, h.size + h.length) = w /\ Drop(s, h.size + h.length) = more
  BY <1>1 DEF Take, Drop, Others
<1>5. recvPdu(s, ended, max) = IF Len(c) > max THEN [is |-> "failed"]
                               ELSE [is |-> "pdu", pdu |-> w, rest |-> more]
  BY <1>1, <1>3, <1>4 DEF recvPdu, Malformed, h
<1> QED BY <1>5 DEF s, w

\* A part of an element is never taken for a PDU: recvPdu waits for the rest, and
\* fails if there is none to come.
THEOREM PartIsNoPdu ==
  ASSUME NEW tag \in Octets, NEW c \in Seq(Octets), Short(Len(c)),
         NEW n \in 0..(Len(write(tag, c)) - 1), NEW ended, NEW max \in Nat
  PROVE  /\ recvPdu(Take(write(tag, c), n), ended, max).is \in {"waiting", "failed"}
         /\ Len(c) <= max => recvPdu(Take(write(tag, c), n), ended, max).is
                               = IF ended THEN "failed" ELSE "waiting"
<1> DEFINE w == write(tag, c)
           s == Take(w, n)
           h == Head2(tag, Len(c))
           r == readTagLength(s)
           wait == IF ended THEN "failed" ELSE "waiting"
<1>1. w = h \o c /\ w \in Seq(Octets) /\ Len(w) = Len(h) + Len(c)
  BY WriteIs
<1>2. h \in Seq(Octets) /\ Len(h) \in Nat /\ Len(c) \in Nat
  BY HeadIs
<1> HIDE DEF h
<1>3. n \in 0..(Len(w) - 1)
  OBVIOUS
<1> HIDE DEF w
<1>4. s \in Seq(Octets) /\ Len(s) = n /\ \A i \in 1..n : s[i] = w[i]
  <2>1. w \in Seq(Octets) /\ Len(w) \in Nat
    BY <1>1
  <2> QED BY <1>3, <2>1 DEF Take
<1>5. \A i \in 1..Len(h) : w[i] = h[i]
  BY <1>1, <1>2
<1> HIDE DEF s
<1>6. Begins(s, h)
  BY <1>2, <1>3, <1>4, <1>5 DEF Begins
<1>7. ~Malformed(s) /\ IF Len(s) < Len(h) THEN r = NoHeader
                       ELSE r = [ok |-> TRUE, tag |-> tag, size |-> Len(h), length |-> Len(c)]
  BY <1>4, <1>6, HeaderRead DEF h
<1>8. CASE Len(s) < Len(h)
  <2>1. ~r.ok
    BY <1>7, <1>8 DEF NoHeader
  <2>2. recvPdu(s, ended, max) = [is |-> wait]
    BY <1>7, <2>1 DEF recvPdu, Malformed
  <2> QED BY <2>2 DEF s, w
<1>9. CASE ~(Len(s) < Len(h))
  <2>1. r.ok /\ r.length = Len(c) /\ r.size = Len(h)
    BY <1>7, <1>9
  <2>2. Len(s) < r.size + r.length
    BY <1>1, <1>2, <1>3, <1>4, <2>1
  <2>3. recvPdu(s, ended, max) = IF Len(c) > max THEN [is |-> "failed"] ELSE [is |-> wait]
    BY <1>7, <2>1, <2>2 DEF recvPdu, Malformed
  <2>4. Len(c) <= max => ~(Len(c) > max)
    BY <1>2
  <2> QED BY <2>3, <2>4 DEF s, w
<1> QED BY <1>8, <1>9

-----------------------------------------------------------------------------
(* Recursion over octets.                                                  *)

\* A recursion over octets that goes on with fewer of them has a value for each.
UpTo(n) == {s \in Seq(Octets) : Len(s) <= n}
Unfolds(f, s, D, B, Nxt, G) == f[s] = IF s \in D THEN B[s] ELSE G[<<s, f[Nxt[s]]>>]
Recurs(X, D, B, Nxt, G) == \E f \in [Seq(Octets) -> X] : \A s \in Seq(Octets) : Unfolds(f, s, D, B, Nxt, G)

\* There is such a function.
LEMMA RecursionRuns ==
  ASSUME NEW X, NEW D, NEW B \in [Seq(Octets) -> X], NEW Nxt \in [Seq(Octets) -> Seq(Octets)],
         NEW G \in [Seq(Octets) \X X -> X],
         \A s \in Seq(Octets) \ D : Len(Nxt[s]) < Len(s)
  PROVE  Recurs(X, D, B, Nxt, G)
<1> DEFINE S == Seq(Octets)
           Un(f, s) == Unfolds(f, s, D, B, Nxt, G)
           Is(f, n) == f \in [UpTo(n) -> X] /\ \A s \in UpTo(n) : Un(f, s)
           Ex(n) == \E f : Is(f, n)
<1>0. \A s \in S : Len(s) \in Nat /\ Nxt[s] \in S
  OBVIOUS
<1>1. Ex(0)
  <2> DEFINE g == [s \in UpTo(0) |-> B[s]]
  <2>1. \A s \in UpTo(0) : s \in S /\ s \in D
    BY <1>0 DEF UpTo
  <2>2. g \in [UpTo(0) -> X]
    BY <2>1
  <2>3. \A s \in UpTo(0) : Un(g, s)
    BY <2>1 DEF Unfolds
  <2> HIDE DEF g
  <2> QED BY <2>2, <2>3
<1>2. ASSUME NEW n \in Nat, n # 0, Ex(n - 1) PROVE Ex(n)
  <2>1. PICK f : Is(f, n - 1)
    BY <1>2
  <2> DEFINE step(s) == IF s \in D THEN B[s] ELSE G[<<s, f[Nxt[s]]>>]
             g == [s \in UpTo(n) |-> step(s)]
  <2>2. ASSUME NEW s \in UpTo(n) PROVE s \in S /\ (s \notin D => Nxt[s] \in UpTo(n - 1))
    BY <1>0 DEF UpTo
  <2>3. UpTo(n - 1) \subseteq UpTo(n)
    BY <1>0 DEF UpTo
  <2>4. ASSUME NEW s \in UpTo(n) PROVE step(s) \in X
    <3>1. CASE s \in D
      BY <2>2, <3>1
    <3>2. CASE s \notin D
      <4>1. f[Nxt[s]] \in X
        BY <2>1, <2>2, <3>2
      <4> QED BY <2>2, <3>2, <4>1
    <3> QED BY <3>1, <3>2
  <2>5. ASSUME NEW t \in UpTo(n - 1) PROVE f[t] = step(t)
    BY <2>1 DEF Unfolds
  <2>6. \A s \in UpTo(n) : g[s] = step(s)
    OBVIOUS
  <2>7. g \in [UpTo(n) -> X]
    BY <2>4
  <2> HIDE DEF g
  <2>8. ASSUME NEW s \in UpTo(n) PROVE Un(g, s)
    <3>1. CASE s \in D
      BY <2>6, <3>1 DEF Unfolds
    <3>2. CASE s \notin D
      <4>1. Nxt[s] \in UpTo(n - 1) /\ Nxt[s] \in UpTo(n)
        BY <2>2, <2>3, <3>2
      <4>2. g[Nxt[s]] = f[Nxt[s]]
        <5> HIDE DEF step
        <5>1. g[Nxt[s]] = step(Nxt[s])
          BY <2>6, <4>1
        <5>2. f[Nxt[s]] = step(Nxt[s])
          BY <2>5, <4>1
        <5> QED BY <5>1, <5>2
      <4>3. g[s] = G[<<s, f[Nxt[s]]>>]
        BY <2>6, <3>2
      <4> QED BY <3>2, <4>2, <4>3 DEF Unfolds
    <3> QED BY <3>1, <3>2
  <2> QED BY <2>7, <2>8
<1> HIDE DEF Ex
<1>3. ASSUME NEW n \in Nat PROVE Ex(n)
  <2> DEFINE T == {k \in 0..n : Ex(k)}
  <2>1. 0 \in T
    BY <1>1
  <2>2. ASSUME NEW k \in 1..n, k - 1 \in T PROVE k \in T
    BY <1>2, <2>2
  <2> HIDE DEF T
  <2>3. 0..n \subseteq T
    BY <2>1, <2>2, CountUp
  <2> QED BY <2>3 DEF T
\* Two of them agree where both are defined.
<1>4. ASSUME NEW n \in Nat, NEW m \in Nat, n <= m, NEW f, NEW g, Is(f, n), Is(g, m)
      PROVE  \A s \in UpTo(n) : f[s] = g[s]
  <2> DEFINE T == {k \in 0..n : \A s \in UpTo(k) : f[s] = g[s]}
  <2>0. ASSUME NEW k \in 0..n, NEW s \in UpTo(k)
        PROVE  s \in S /\ s \in UpTo(n) /\ s \in UpTo(m)
    BY <1>0, <1>4 DEF UpTo
  <2>00. ASSUME NEW k \in 0..n, NEW s \in UpTo(k) PROVE Un(f, s) /\ Un(g, s)
    BY <1>4, <2>0
  <2>1. 0 \in T
    <3>1. ASSUME NEW s \in UpTo(0) PROVE s \in D
      BY <1>0 DEF UpTo
    <3>2. ASSUME NEW s \in UpTo(0) PROVE Un(f, s) /\ Un(g, s)
      BY <2>00
    <3>3. ASSUME NEW s \in UpTo(0) PROVE f[s] = g[s]
      <4>1. s \in D /\ Un(f, s) /\ Un(g, s)
        BY <3>1, <3>2
      <4> QED BY <4>1 DEF Unfolds
    <3> QED BY <3>3
  <2>2. ASSUME NEW k \in 1..n, k - 1 \in T PROVE k \in T
    <3>1. ASSUME NEW s \in UpTo(k) PROVE f[s] = g[s]
      <4>1. k \in 0..n /\ k - 1 \in 0..n
        OBVIOUS
      <4>2. s \in S /\ Un(f, s) /\ Un(g, s)
        BY <2>0, <2>00, <4>1
      <4>3. s \notin D => Nxt[s] \in UpTo(k - 1)
        BY <1>0, <4>2 DEF UpTo
      <4>4. s \notin D => f[Nxt[s]] = g[Nxt[s]]
        BY <2>2, <4>3
      <4> QED BY <4>2, <4>4 DEF Unfolds
    <3> QED BY <3>1
  <2> HIDE DEF T
  <2>3. 0..n \subseteq T
    BY <2>1, <2>2, CountUp
  <2> QED BY <2>3 DEF T
<1> DEFINE of == [n \in Nat |-> CHOOSE f : Is(f, n)]
           h == [s \in S |-> of[Len(s)][s]]
<1>5. ASSUME NEW n \in Nat PROVE Is(of[n], n)
  BY <1>3 DEF Ex
<1> HIDE DEF of
<1>6. ASSUME NEW n \in Nat, NEW s \in UpTo(n) PROVE h[s] = of[n][s]
  <2> DEFINE m == Len(s)
  <2>1. s \in S /\ m \in Nat /\ m <= n
    BY <1>0 DEF UpTo
  <2>2. s \in UpTo(m)
    BY <2>1 DEF UpTo
  <2>3. Is(of[m], m) /\ Is(of[n], n)
    BY <1>5, <2>1
  <2>4. h[s] = of[m][s]
    BY <2>1
  <2> HIDE DEF m, h, Is
  <2>5. of[m][s] = of[n][s]
    BY <1>4, <2>1, <2>2, <2>3
  <2> QED BY <2>4, <2>5
<1>7. ASSUME NEW s \in S PROVE s \in UpTo(Len(s)) /\ Len(s) \in Nat
  BY <1>0 DEF UpTo
<1>8. h \in [S -> X]
  <2>1. ASSUME NEW s \in S PROVE of[Len(s)][s] \in X
    BY <1>5, <1>7
  <2> QED BY <2>1
<1> HIDE DEF h
<1>9. ASSUME NEW s \in S PROVE Un(h, s)
  <2> DEFINE n == Len(s)
  <2>1. n \in Nat /\ s \in UpTo(n)
    BY <1>7
  <2>2. Un(of[n], s)
    BY <1>5, <2>1
  <2>3. h[s] = of[n][s]
    BY <1>6, <2>1
  <2>4. s \notin D => Nxt[s] \in UpTo(n)
    BY <1>0 DEF UpTo
  <2>5. s \notin D => h[Nxt[s]] = of[n][Nxt[s]]
    BY <1>6, <2>1, <2>4
  <2> HIDE DEF n
  <2> QED BY <2>2, <2>3, <2>5 DEF Unfolds
<1> QED BY <1>8, <1>9 DEF Recurs

-----------------------------------------------------------------------------
(* Elements: what a reader finds.                                          *)

\* What a reader can make of octets: elements, and then the rest.
Readings == {x \o <<y>> : x \in Seq(TagAndContent), y \in Seq(Octets)}

\* Readings, said with \E.
LEMMA ReadingsAre ==
  ASSUME NEW z
  PROVE  z \in Readings <=> \E x \in Seq(TagAndContent), y \in Seq(Octets) : z = x \o <<y>>
<1>1. z \in {x \o <<y>> : x \in Seq(TagAndContent), y \in Seq(Octets)} <=>
        \E x \in Seq(TagAndContent), y \in Seq(Octets) : z = x \o <<y>>
  OBVIOUS
<1> QED BY <1>1 DEF Readings

\* What a complete header says of the octets behind it.
LEMMA HeaderIs ==
  ASSUME NEW s \in Seq(Octets), Complete(s, readTagLength(s))
  PROVE  LET h == readTagLength(s)
         IN  /\ First(s, h) \in TagAndContent /\ Others(s, h) \in Seq(Octets)
             /\ Len(Others(s, h)) < Len(s)
<1> DEFINE h == readTagLength(s)
           count == s[2] - 128
<1>1. h.ok /\ Len(s) >= h.size + h.length /\ Len(s) \in Nat
  BY DEF Complete
<1>2. ~(Len(s) < 2) /\ h = Header(s, count)
  BY <1>1 DEF readTagLength, NoHeader
<1>3. s[1] \in Octets /\ s[2] \in Octets /\ s[2] \in Nat /\ count \in Int
  <2>1. s[1] \in Octets /\ s[2] \in Octets
    BY <1>1, <1>2
  <2>2. \A x \in Octets : x \in Nat
    BY DEF Octets
  <2> QED BY <2>1, <2>2
<1> HIDE DEF count, h
<1>4. h.tag \in Octets /\ h.size \in Nat /\ h.size >= 2 /\ h.length \in Nat
  <2>1. CASE count < 0
    <3>1. h = [ok |-> TRUE, tag |-> s[1], size |-> 2, length |-> s[2]]
      BY <1>2, <2>1 DEF Header
    <3> QED BY <1>3, <3>1
  <2>2. CASE ~(count < 0)
    <3> DEFINE q == SubSeq(s, 3, 2 + count)
    <3>1. ~(count \notin 1..4 \/ Len(s) < 2 + count)
      BY <1>1, <1>2, <2>2 DEF Header, NoHeader
    <3>2. h = [ok |-> TRUE, tag |-> s[1], size |-> 2 + count, length |-> Number(q)]
      BY <1>2, <2>2, <3>1 DEF Header
    <3>3. q \in Seq(Octets)
      BY <1>1, <1>3, <3>1
    <3> HIDE DEF q
    <3>4. Number(q) \in Nat
      <4>1. PICK f : Counts(f, q) /\ Number(q) = f[Len(q)]
        BY <3>3, NumberIs
      <4>2. Len(q) \in 0..Len(q)
        BY <3>3
      <4> QED BY <4>1, <4>2 DEF Counts
    <3> QED BY <1>3, <2>2, <3>2, <3>4
  <2> QED BY <2>1, <2>2
<1> DEFINE a == h.size
           b == h.size + h.length
<1>5. a \in Nat /\ a >= 2 /\ b \in Nat /\ a <= b /\ b <= Len(s)
  BY <1>1, <1>4
<1> HIDE DEF a, b
<1>6. SubSeq(s, a + 1, b) \in Seq(Octets)
  BY <1>1, <1>5
<1>7. SubSeq(s, b + 1, Len(s)) \in Seq(Octets) /\ Len(SubSeq(s, b + 1, Len(s))) = Len(s) - b
  BY <1>1, <1>5
<1>8. First(s, h) = [tag |-> h.tag, content |-> SubSeq(s, a + 1, b)]
  BY DEF First, a, b
<1>9. Others(s, h) = SubSeq(s, b + 1, Len(s))
  BY DEF Others, b
<1>10. First(s, h) \in TagAndContent
  BY <1>4, <1>6, <1>8 DEF TagAndContent
<1>11. Len(s) - b < Len(s)
  BY <1>1, <1>5
<1> QED BY <1>7, <1>9, <1>10, <1>11 DEF h

\* Read satisfies its recursive definition.
LEMMA ReadIs ==
  ASSUME NEW s \in Seq(Octets)
  PROVE  /\ Read[s] \in Readings
         /\ LET h == readTagLength(s)
            IN  Read[s] = IF Complete(s, h) THEN <<First(s, h)>> \o Read[Others(s, h)] ELSE <<s>>
<1> DEFINE S == Seq(Octets)
           hd(t) == readTagLength(t)
           body(f, t) == IF Complete(t, hd(t)) THEN <<First(t, hd(t))>> \o f[Others(t, hd(t))] ELSE <<t>>
           Is(f) == f = [t \in S |-> body(f, t)]
           r == CHOOSE f : Is(f)
           D == {t \in S : ~Complete(t, hd(t))}
           B == [t \in S |-> <<t>>]
           Nxt == [t \in S |-> IF t \in D THEN t ELSE Others(t, hd(t))]
           G == [p \in S \X Readings |-> IF p[1] \in D THEN <<p[1]>> ELSE <<First(p[1], hd(p[1]))>> \o p[2]]
<1>1. Read = r
  BY DEF Read
<1>2. ASSUME NEW t \in S PROVE <<t>> \in Readings
  <2>1. << >> \in Seq(TagAndContent) /\ << >> \o <<t>> = <<t>>
    OBVIOUS
  <2> QED BY <2>1, ReadingsAre
<1>3. ASSUME NEW t \in S, t \notin D, NEW x \in Readings PROVE <<First(t, hd(t))>> \o x \in Readings
  <2>1. PICK y \in Seq(TagAndContent), z \in Seq(Octets) : x = y \o <<z>>
    BY <1>3, ReadingsAre
  <2> DEFINE e == First(t, hd(t))
  <2>2. e \in TagAndContent
    BY <1>3, HeaderIs
  <2> HIDE DEF e
  <2>3. <<e>> \o y \in Seq(TagAndContent) /\ <<e>> \o x = (<<e>> \o y) \o <<z>>
    BY <2>1, <2>2
  <2>4. <<e>> \o x \in Readings
    BY <2>1, <2>3, ReadingsAre
  <2> QED BY <2>4 DEF e
<1>4. B \in [S -> Readings] /\ \A t \in S : B[t] = <<t>>
  BY <1>2
<1>5. /\ Nxt \in [S -> S] /\ \A t \in S \ D : Len(Nxt[t]) < Len(t) /\ Nxt[t] = Others(t, hd(t))
  <2>1. ASSUME NEW t \in S \ D PROVE Others(t, hd(t)) \in S /\ Len(Others(t, hd(t))) < Len(t)
    BY HeaderIs
  <2> HIDE DEF D
  <2> QED BY <2>1
<1>6. G \in [S \X Readings -> Readings] /\ \A t \in S, x \in Readings : t \notin D => G[<<t, x>>] = <<First(t, hd(t))>> \o x
  <2> HIDE DEF D
  <2> QED BY <1>2, <1>3
<1>7. ASSUME NEW t \in S PROVE t \in D <=> ~Complete(t, hd(t))
  OBVIOUS
<1> HIDE DEF D, B, Nxt, G
<1>8. PICK f \in [S -> Readings] : \A t \in S : Unfolds(f, t, D, B, Nxt, G)
  <2>1. Recurs(Readings, D, B, Nxt, G)
    BY <1>4, <1>5, <1>6, RecursionRuns
  <2> QED BY <2>1 DEF Recurs
<1>9. ASSUME NEW t \in S PROVE f[t] = body(f, t)
  <2>1. Unfolds(f, t, D, B, Nxt, G)
    BY <1>8
  <2>2. CASE t \in D
    <3>1. f[t] = <<t>>
      BY <1>4, <2>1, <2>2 DEF Unfolds
    <3> QED BY <1>7, <2>2, <3>1
  <2>3. CASE t \notin D
    <3>1. Nxt[t] = Others(t, hd(t)) /\ Nxt[t] \in S
      BY <1>5, <2>3
    <3>2. f[Nxt[t]] \in Readings
      BY <1>8, <3>1
    <3>3. f[t] = G[<<t, f[Nxt[t]]>>]
      BY <2>1, <2>3 DEF Unfolds
    <3>4. f[t] = <<First(t, hd(t))>> \o f[Nxt[t]]
      BY <1>6, <2>3, <3>2, <3>3
    <3>5. Complete(t, hd(t))
      BY <1>7, <2>3
    <3> QED BY <3>1, <3>4, <3>5
  <2> QED BY <2>2, <2>3
<1>10. Is(f)
  <2> HIDE DEF body
  <2>1. f = [t \in S |-> f[t]]
    BY <1>8
  <2> QED BY <1>9, <2>1
<1>11. Is(r)
  <2> HIDE DEF Is
  <2> QED BY <1>10
<1> HIDE DEF r
<1>12. \A t \in S : r[t] = body(r, t)
  <2> HIDE DEF body
  <2> QED BY <1>11
\* Every value is a reading: by the length of what is read.
<1>13. ASSUME NEW n \in Nat PROVE \A t \in UpTo(n) : r[t] \in Readings
  <2> DEFINE T == {k \in 0..n : \A t \in UpTo(k) : r[t] \in Readings}
  <2>1. ASSUME NEW t \in S, \A u \in S : Len(u) < Len(t) => r[u] \in Readings PROVE r[t] \in Readings
    <3>1. CASE t \in D
      BY <1>2, <1>7, <1>12, <3>1
    <3>2. CASE t \notin D
      <4>1. Others(t, hd(t)) \in S /\ Len(Others(t, hd(t))) < Len(t)
        BY <1>5, <3>2
      <4>2. r[Others(t, hd(t))] \in Readings
        BY <2>1, <4>1
      <4>3. r[t] = <<First(t, hd(t))>> \o r[Others(t, hd(t))]
        BY <1>7, <1>12, <3>2
      <4> QED BY <1>3, <3>2, <4>2, <4>3
    <3> QED BY <3>1, <3>2
  <2>2. 0 \in T
    <3>1. ASSUME NEW t \in UpTo(0) PROVE r[t] \in Readings
      <4>1. t \in S /\ \A u \in S : ~(Len(u) < Len(t))
        BY DEF UpTo
      <4> QED BY <2>1, <4>1
    <3> QED BY <3>1
  <2>3. ASSUME NEW k \in 1..n, k - 1 \in T PROVE k \in T
    <3>1. ASSUME NEW t \in UpTo(k) PROVE r[t] \in Readings
      <4>1. t \in S /\ Len(t) <= k /\ Len(t) \in Nat
        BY DEF UpTo
      <4>2. ASSUME NEW u \in S, Len(u) < Len(t) PROVE r[u] \in Readings
        <5>1. u \in UpTo(k - 1)
          BY <4>1, <4>2 DEF UpTo
        <5> QED BY <2>3, <5>1
      <4> QED BY <2>1, <4>1, <4>2
    <3> QED BY <3>1
  <2> HIDE DEF T
  <2>4. 0..n \subseteq T
    BY <2>2, <2>3, CountUp
  <2> QED BY <2>4 DEF T
<1>14. r[s] \in Readings
  <2>1. Len(s) \in Nat /\ s \in UpTo(Len(s))
    BY DEF UpTo
  <2> QED BY <1>13, <2>1
<1> QED BY <1>1, <1>12, <1>14

-----------------------------------------------------------------------------
\* What a reader over octets has.
LEMMA ElementsAre ==
  ASSUME NEW s \in Seq(Octets), NEW x \in Seq(TagAndContent), NEW y \in Seq(Octets), Read[s] = x \o <<y>>
  PROVE  Elements[s] = [items |-> x, rest |-> y]
<1>1. Elements[s] = [items |-> Front(Read[s]), rest |-> Last(Read[s])]
  BY DEF Elements
<1> DEFINE z == x \o <<y>>
           any == TagAndContent \cup Seq(Octets)
<1>2. z \in Seq(any) /\ Len(z) = Len(x) + 1 /\ Len(x) \in Nat /\ z[Len(x) + 1] = y
  <2>1. x \in Seq(any) /\ <<y>> \in Seq(any)
    OBVIOUS
  <2> QED BY <2>1
<1>3. \A i \in 1..Len(x) : z[i] = x[i]
  OBVIOUS
<1> HIDE DEF z, any
<1>4. Last(z) = y
  BY <1>2 DEF Last
<1>5. Front(z) = x
  <2> DEFINE q == SubSeq(z, 1, Len(x))
  <2>1. Front(z) = q
    BY <1>2 DEF Front
  <2>2. q \in Seq(any) /\ Len(q) = Len(x) /\ \A i \in 1..Len(x) : q[i] = z[i]
    BY <1>2
  <2> HIDE DEF q
  <2>3. \A i \in 1..Len(x) : q[i] = x[i]
    BY <1>3, <2>2
  <2>4. q = [i \in 1..Len(x) |-> q[i]]
    BY <2>2
  <2>5. x = [i \in 1..Len(x) |-> x[i]]
    OBVIOUS
  <2>6. q = x
    BY <2>3, <2>4, <2>5
  <2> QED BY <2>1, <2>6
<1> QED BY <1>1, <1>4, <1>5 DEF z

\* A reader finds elements, and has octets left.
LEMMA ElementsType ==
  ASSUME NEW s \in Seq(Octets)
  PROVE  /\ Elements[s].items \in Seq(TagAndContent) /\ Elements[s].rest \in Seq(Octets)
         /\ Elements[s] = [items |-> Elements[s].items, rest |-> Elements[s].rest]
<1>1. PICK x \in Seq(TagAndContent), y \in Seq(Octets) : Read[s] = x \o <<y>>
  BY ReadIs, ReadingsAre
<1>2. Elements[s] = [items |-> x, rest |-> y]
  BY <1>1, ElementsAre
<1> QED BY <1>2

\* At the end of the octets there is no element.
LEMMA NoElements == Elements[<< >>] = [items |-> << >>, rest |-> << >>]
<1> DEFINE none == << >>
<1>1. none \in Seq(Octets) /\ Len(none) = 0 /\ none \in Seq(TagAndContent)
  OBVIOUS
<1>2. ~Complete(none, readTagLength(none))
  BY <1>1 DEF Complete, readTagLength, NoHeader
<1>3. Read[none] = <<none>>
  BY <1>1, <1>2, ReadIs
<1>4. Read[none] = none \o <<none>>
  BY <1>3
<1> HIDE DEF none
<1>5. Elements[none] = [items |-> none, rest |-> none]
  BY <1>1, <1>4, ElementsAre
<1> QED BY <1>5 DEF none

\* A reader finds the element that was written first, as it was, and then what
\* follows it.
THEOREM ElementIsReadBack ==
  ASSUME NEW tag \in Octets, NEW c \in Seq(Octets), Short(Len(c)), NEW more \in Seq(Octets)
  PROVE  Elements[write(tag, c) \o more] =
           [items |-> <<[tag |-> tag, content |-> c]>> \o Elements[more].items,
            rest |-> Elements[more].rest]
<1> DEFINE s == write(tag, c) \o more
           h == readTagLength(s)
           e == [tag |-> tag, content |-> c]
<1>1. s \in Seq(Octets) /\ Complete(s, h) /\ First(s, h) = e /\ Others(s, h) = more
  BY FirstRead
<1> HIDE DEF s
<1>2. Read[s] = <<e>> \o Read[more]
  BY <1>1, ReadIs
<1>3. PICK x \in Seq(TagAndContent), y \in Seq(Octets) : Read[more] = x \o <<y>>
  BY ReadIs, ReadingsAre
<1>4. Elements[more] = [items |-> x, rest |-> y]
  BY <1>3, ElementsAre
<1>5. e \in TagAndContent
  BY DEF TagAndContent
<1> HIDE DEF e
<1>6. <<e>> \o x \in Seq(TagAndContent) /\ <<e>> \o (x \o <<y>>) = (<<e>> \o x) \o <<y>>
  BY <1>5
<1>7. Elements[s] = [items |-> <<e>> \o x, rest |-> y]
  <2> DEFINE z == <<e>> \o x
  <2>1. Read[s] = z \o <<y>> /\ z \in Seq(TagAndContent)
    BY <1>2, <1>3, <1>6
  <2> HIDE DEF z
  <2>2. Elements[s] = [items |-> z, rest |-> y]
    BY <1>1, <2>1, ElementsAre
  <2> QED BY <2>2 DEF z
<1> QED BY <1>4, <1>7 DEF s, e

-----------------------------------------------------------------------------
(* Integers.                                                               *)

\* What octets can stand for.
LEMMA NumberBound ==
  ASSUME NEW s \in Seq(Octets), Len(s) \in 0..Wide
  PROVE  Number(s) \in Nat /\ Number(s) < Radix[Len(s)]
<1>0. Wide \in Nat /\ Len(s) \in Nat
  BY WidthAssumption
<1>1. PICK f : Counts(f, s) /\ Number(s) = f[Len(s)]
  BY NumberIs
<1> DEFINE T == {i \in 0..Len(s) : f[i] < Radix[i]}
<1>2. 0 \in T
  BY <1>0, <1>1, RadixIs DEF Counts
<1>3. ASSUME NEW i \in 1..Len(s), i - 1 \in T PROVE i \in T
  <2>1. f[i] = 256 * f[i - 1] + s[i] /\ f[i - 1] < Radix[i - 1] /\ f[i - 1] \in Nat
    BY <1>1, <1>3 DEF Counts
  <2>2. i \in 1..Wide /\ i - 1 \in 0..Wide
    BY <1>0
  <2>3. Radix[i] = 256 * Radix[i - 1] /\ Radix[i - 1] \in Nat
    BY <2>2, RadixIs
  <2>4. s[i] \in Nat /\ s[i] <= 255
    <3>1. s[i] \in Octets
      OBVIOUS
    <3>2. \A x \in Octets : x \in Nat /\ x <= 255
      BY DEF Octets
    <3> QED BY <3>1, <3>2
  <2>5. f[i] < Radix[i]
    <3>1. f[i - 1] + 1 <= Radix[i - 1]
      BY <2>1, <2>3
    <3> QED BY <2>1, <2>3, <2>4, <3>1
  <2> QED BY <1>0, <2>5
<1>4. 0..Len(s) \subseteq T
  <2> HIDE DEF T
  <2> QED BY <1>0, <1>2, <1>3, CountUp
<1>5. Len(s) \in 0..Len(s)
  BY <1>0
<1> QED BY <1>1, <1>4, <1>5 DEF Counts

\* The last w octets of n are n without the multiple of Radix[w] above them.
LEMMA LastOctets ==
  ASSUME NEW n \in Nat, NEW w \in 0..Wide
  PROVE  Number(BigEndian(n, w)) + shifted(n)[w] * Radix[w] = n
<1> DEFINE b == BigEndian(n, w)
           s == shifted(n)
           top == s[w]
<1>0. Wide \in Nat /\ w \in Nat
  BY WidthAssumption
<1>1. /\ s[0] = n /\ \A k \in 1..Wide : s[k] = s[k - 1] \div 256
      /\ \A k \in 0..Wide : s[k] \in Nat
  BY ShiftedIs
<1>2. b \in Seq(Octets) /\ Len(b) = w /\ \A i \in 1..w : b[i] = s[w - i] % 256
  BY OctetsOfNumber
<1> HIDE DEF b, s
<1>3. PICK f : Counts(f, b) /\ Number(b) = f[Len(b)]
  BY <1>2, NumberIs
<1>4. top \in Nat
  BY <1>1
<1> HIDE DEF top
<1> DEFINE T == {i \in 0..w : f[i] + top * Radix[i] = s[w - i]}
<1>5. 0 \in T
  <2>1. f[0] = 0 /\ Radix[0] = 1 /\ w - 0 = w
    BY <1>0, <1>3, RadixIs DEF Counts
  <2>2. f[0] + top * Radix[0] = s[w - 0]
    BY <1>4, <2>1 DEF top
  <2> QED BY <1>0, <2>2
<1>6. ASSUME NEW i \in 1..w, i - 1 \in T PROVE i \in T
  <2>1. (w - i) + 1 \in 1..Wide /\ w - (i - 1) = (w - i) + 1 /\ ((w - i) + 1) - 1 = w - i
        /\ w - i \in 0..Wide /\ i \in 1..Wide /\ i - 1 \in 0..Wide /\ i - 1 \in 0..w
    BY <1>0
  <2>2. f[i - 1] + top * Radix[i - 1] = s[(w - i) + 1]
    BY <1>6, <2>1
  <2>3. s[(w - i) + 1] = s[w - i] \div 256 /\ s[w - i] \in Nat
    BY <1>1, <2>1
  <2>4. f[i] = 256 * f[i - 1] + b[i] /\ b[i] = s[w - i] % 256 /\ f[i - 1] \in Nat
    BY <1>2, <1>3, <2>1 DEF Counts
  <2>5. Radix[i] = 256 * Radix[i - 1] /\ Radix[i - 1] \in Nat
    BY <2>1, RadixIs
  <2> DEFINE p == top * Radix[i - 1]
  <2>6. p \in Nat /\ top * Radix[i] = 256 * p
    BY <1>4, <2>5
  <2>7. f[i - 1] + p = s[w - i] \div 256
    BY <2>2, <2>3
  <2> HIDE DEF p
  <2>8. f[i] + top * Radix[i] = s[w - i]
    BY <2>3, <2>4, <2>6, <2>7
  <2> QED BY <1>0, <2>8
<1>7. 0..w \subseteq T
  <2> HIDE DEF T
  <2> QED BY <1>0, <1>5, <1>6, CountUp
<1>8. f[w] + top * Radix[w] = s[w - w] /\ w - w = 0
  BY <1>0, <1>7
<1>9. Number(b) + top * Radix[w] = n
  BY <1>1, <1>2, <1>3, <1>8
<1> QED BY <1>9 DEF b, top, s

\* Taking one more octet.
LEMMA OneMoreOctet ==
  ASSUME NEW n \in Nat, NEW w \in 1..Wide
  PROVE  Number(BigEndian(n, w)) =
           Number(BigEndian(n, w - 1)) + (shifted(n)[w - 1] % 256) * Radix[w - 1]
<1> DEFINE a == Number(BigEndian(n, w))
           b == Number(BigEndian(n, w - 1))
           x == shifted(n)[w]
           y == shifted(n)[w - 1]
           r == Radix[w - 1]
<1>0. Wide \in Nat /\ w \in 0..Wide /\ w - 1 \in 0..Wide
  BY WidthAssumption
<1>1. x = y \div 256 /\ y \in Nat
  BY <1>0, ShiftedIs
<1>2. Radix[w] = 256 * r /\ r \in Nat
  BY <1>0, RadixIs
<1>3. a + x * Radix[w] = n /\ b + y * r = n
  BY <1>0, LastOctets
<1>4. a \in Nat /\ b \in Nat
  <2>1. /\ BigEndian(n, w) \in Seq(Octets) /\ Len(BigEndian(n, w)) = w
        /\ BigEndian(n, w - 1) \in Seq(Octets) /\ Len(BigEndian(n, w - 1)) = w - 1
    BY <1>0, OctetsOfNumber
  <2> QED BY <1>0, <2>1, NumberBound
<1> HIDE DEF a, b, x, y, r
<1> DEFINE d == y % 256
<1>5. x \in Nat /\ d \in Nat /\ y = 256 * x + d
  BY <1>1
<1> HIDE DEF d
<1> DEFINE p == x * r
           q == d * r
<1>6. p \in Nat /\ q \in Nat /\ x * Radix[w] = 256 * p /\ y * r = 256 * p + q
  BY <1>2, <1>5
<1> HIDE DEF p, q
<1>7. a = b + q
  BY <1>3, <1>4, <1>6
<1> QED BY <1>7 DEF a, b, y, r, q, d

-----------------------------------------------------------------------------
\* The values of an int64_t.
Int64 == {v \in Int : 0 - Radix[Wide] <= 2 * v /\ 2 * v < Radix[Wide]}

\* A value reduced to its width, negative or not.
LEMMA Wrapped ==
  ASSUME NEW R \in Nat \ {0}, NEW v \in Int, 0 - R <= v, v < R
  PROVE  v % R = IF v < 0 THEN v + R ELSE v
<1> DEFINE m == v % R
           q == v \div R
<1>1. q \in Int /\ m \in Int /\ v = R * q + m /\ 0 <= m /\ m < R
  OBVIOUS
<1> HIDE DEF m, q
<1>2. q >= 1 => R * q >= R
  BY <1>1
<1>3. q <= -2 => R * q <= 0 - 2 * R
  BY <1>1
<1>4. q \in {-1, 0}
  BY <1>1, <1>2, <1>3
<1>5. CASE q = 0
  <2>1. R * q = 0
    BY <1>5
  <2>2. v = m
    BY <1>1, <2>1
  <2> QED BY <1>1, <2>2 DEF m
<1>6. CASE q = -1
  <2>1. R * q = 0 - R
    BY <1>6
  <2>2. v = m - R
    BY <1>1, <2>1
  <2>3. v < 0 /\ m = v + R
    BY <1>1, <2>2
  <2> QED BY <2>3 DEF m
<1> QED BY <1>4, <1>5, <1>6

\* encodeInteger leaves out octets that only repeat the sign, and no others.
LEMMA IntegerIs ==
  ASSUME NEW v \in Int64
  PROVE  LET e == encodeInteger(v)
         IN  /\ e \in Seq(Octets) /\ Len(e) \in 1..Wide
             /\ e[1] >= 128 <=> v < 0
             /\ Number(e) = IF v < 0 THEN v + Radix[Len(e)] ELSE v
<1> DEFINE R == Radix[Wide]
           u == v % R
           s == shifted(u)
           raw == BigEndian(u, Wide)
           Repeats(i) == \/ raw[i] = 0 /\ raw[i + 1] < 128
                         \/ raw[i] = 255 /\ raw[i + 1] >= 128
           At(i) == /\ \A j \in 1..(i - 1) : Repeats(j)
                    /\ i = Wide \/ ~Repeats(i)
           start == CHOOSE i \in 1..Wide : At(i)
           N(k) == Number(BigEndian(u, k))
           Val(k) == IF v < 0 THEN v + Radix[k] ELSE v
<1>0. Wide \in Nat /\ Wide >= 1 /\ Wide \in 0..Wide /\ Wide \in 1..Wide
  BY WidthAssumption
<1>1. R \in Nat \ {0} /\ v \in Int /\ 0 - R <= 2 * v /\ 2 * v < R
  BY <1>0, RadixIs DEF Int64
<1> HIDE DEF R
<1>2. u = IF v < 0 THEN v + R ELSE v
  <2>1. 0 - R <= v /\ v < R
    BY <1>1
  <2> QED BY <1>1, <2>1, Wrapped
<1>3. u \in Nat /\ u < R
  BY <1>1, <1>2
<1> HIDE DEF u
<1>4. raw \in Seq(Octets) /\ Len(raw) = Wide /\ \A i \in 1..Wide : raw[i] = s[Wide - i] % 256
  BY <1>0, <1>3, OctetsOfNumber
<1>5. \A i \in 1..Wide : raw[i] \in Nat /\ raw[i] <= 255
  <2>1. \A i \in 1..Wide : raw[i] \in Octets
    BY <1>4
  <2>2. \A x \in Octets : x \in Nat /\ x <= 255
    BY DEF Octets
  <2> QED BY <2>1, <2>2
<1>6. ASSUME NEW k \in 0..Wide PROVE N(k) \in Nat /\ N(k) < Radix[k] /\ Radix[k] \in Nat
  <2>1. BigEndian(u, k) \in Seq(Octets) /\ Len(BigEndian(u, k)) = k
    BY <1>3, OctetsOfNumber
  <2> QED BY <2>1, NumberBound, RadixIs
<1>7. ASSUME NEW i \in 1..Wide
      PROVE  /\ Wide - i \in 0..Wide /\ (Wide - i) + 1 \in 1..Wide
             /\ N((Wide - i) + 1) = N(Wide - i) + raw[i] * Radix[Wide - i]
             /\ Radix[(Wide - i) + 1] = 256 * Radix[Wide - i]
  <2>1. Wide - i \in 0..Wide /\ (Wide - i) + 1 \in 1..Wide /\ ((Wide - i) + 1) - 1 = Wide - i
    BY <1>0
  <2>2. N((Wide - i) + 1) = N(Wide - i) + (s[Wide - i] % 256) * Radix[Wide - i]
    BY <1>3, <2>1, OneMoreOctet
  <2>3. Radix[(Wide - i) + 1] = 256 * Radix[Wide - i]
    BY <2>1, RadixIs
  <2> QED BY <1>4, <2>1, <2>2, <2>3
<1>8. N(Wide) = u
  <2> DEFINE top == s[Wide]
  <2>1. N(Wide) + top * R = u /\ top \in Nat
    BY <1>0, <1>3, LastOctets, ShiftedIs DEF R
  <2>2. N(Wide) \in Nat
    BY <1>0, <1>6
  <2> HIDE DEF top, N
  <2>3. top >= 1 => top * R >= R
    BY <1>1, <2>1
  <2>4. top = 0
    BY <1>1, <1>3, <2>1, <2>2, <2>3
  <2>5. top * R = 0
    BY <1>1, <2>4
  <2> QED BY <1>3, <2>1, <2>2, <2>5
<1> HIDE DEF N, raw, s
<1>9. encodeInteger(v) = SubSeq(raw, start, Wide)
  BY DEF encodeInteger, raw, u, R
<1>10. start \in 1..Wide /\ At(start)
  <2> DEFINE Z == {i \in 1..Wide : i = Wide \/ ~Repeats(i)}
  <2> HIDE DEF Repeats
  <2>1. Z \subseteq Nat /\ Z # {}
    BY <1>0
  <2>2. PICK m \in Z : \A j \in Z : m <= j
    <3> HIDE DEF Z
    <3> QED BY <2>1, LeastNumber
  <2>3. ASSUME NEW j \in 1..(m - 1) PROVE Repeats(j)
    <3>1. j \in 1..Wide /\ ~(m <= j)
      BY <1>0
    <3> QED BY <2>2, <3>1
  <2>4. m \in 1..Wide /\ At(m)
    BY <2>2, <2>3
  <2> HIDE DEF At
  <2> QED BY <2>4
<1> HIDE DEF start
<1> DEFINE T == {i \in 1..start : /\ raw[i] >= 128 <=> v < 0
                                  /\ N((Wide - i) + 1) = Val((Wide - i) + 1)}
<1>11. 1 \in T
  <2> DEFINE r == Radix[Wide - 1]
             n == N(Wide - 1)
             d == raw[1]
             p == d * r
  <2>1. Wide - 1 \in 0..Wide /\ (Wide - 1) + 1 = Wide /\ 1 \in 1..Wide
    BY <1>0
  <2>2. u = n + p /\ R = 256 * r /\ n \in Nat /\ n < r /\ r \in Nat
    <3>1. N((Wide - 1) + 1) = N(Wide - 1) + raw[1] * Radix[Wide - 1]
          /\ Radix[(Wide - 1) + 1] = 256 * Radix[Wide - 1]
      BY <1>7, <2>1
    <3>2. N(Wide) = n + p /\ Radix[Wide] = 256 * r
      BY <2>1, <3>1
    <3>3. n \in Nat /\ n < r /\ r \in Nat
      BY <1>6, <2>1
    <3> QED BY <1>8, <3>2, <3>3 DEF R
  <2>3. d \in Nat /\ d <= 255
    BY <1>5, <2>1
  <2> HIDE DEF r, n, d
  <2>4. p \in Nat /\ (d >= 128 => p >= 128 * r) /\ (d <= 127 => p <= 127 * r)
    BY <2>2, <2>3
  <2> HIDE DEF p
  <2>5. d >= 128 <=> v < 0
    <3>1. CASE d >= 128
      <4>1. u >= 128 * r
        BY <2>2, <2>4, <3>1
      <4> QED BY <1>1, <1>2, <2>2, <3>1, <4>1
    <3>2. CASE ~(d >= 128)
      <4>1. u < 128 * r
        BY <2>2, <2>3, <2>4, <3>2
      <4> QED BY <1>1, <1>2, <2>2, <3>2, <4>1
    <3> QED BY <3>1, <3>2
  <2>6. N(Wide) = Val(Wide)
    BY <1>2, <1>8 DEF R
  <2>7. 1 \in 1..start
    BY <1>0, <1>10
  <2> QED BY <2>1, <2>5, <2>6, <2>7 DEF d
<1>12. ASSUME NEW i \in 2..start, i - 1 \in T PROVE i \in T
  <2>1. i - 1 \in 1..Wide /\ i \in 1..Wide /\ i - 1 \in 1..(start - 1) /\ (i - 1) + 1 = i
        /\ Wide - (i - 1) = (Wide - i) + 1 /\ (Wide - i) + 1 \in 0..Wide
    BY <1>0, <1>10
  <2> DEFINE k == (Wide - i) + 1
             d == raw[i - 1]
             x == raw[i]
  <2>2. Repeats(i - 1)
    BY <1>10, <2>1
  <2>3. \/ d = 0 /\ x < 128
        \/ d = 255 /\ x >= 128
    BY <2>1, <2>2
  <2>4. d \in Nat /\ x \in Nat
    BY <1>5, <2>1
  <2>5. (d >= 128 <=> v < 0) /\ N(k + 1) = Val(k + 1)
    <3>1. i - 1 \in T /\ Wide - (i - 1) = k
      BY <1>12, <2>1
    <3> QED BY <3>1
  <2>6. N(k + 1) = N(k) + d * Radix[k] /\ Radix[k + 1] = 256 * Radix[k]
    <3>1. Wide - (i - 1) = k
      BY <2>1
    <3> QED BY <1>7, <2>1, <3>1
  <2>7. N(k) \in Nat /\ Radix[k] \in Nat
    BY <1>6, <2>1
  <2> HIDE DEF k, d, x
  <2>8. x >= 128 <=> v < 0
    BY <2>3, <2>4, <2>5
  <2>9. N(k) = Val(k)
    <3>1. CASE d = 0
      BY <1>1, <2>3, <2>4, <2>5, <2>6, <2>7, <3>1
    <3>2. CASE d = 255
      BY <1>1, <2>3, <2>4, <2>5, <2>6, <2>7, <3>2
    <3> QED BY <2>3, <3>1, <3>2
  <2>10. i \in 1..start
    BY <1>10
  <2> QED BY <2>8, <2>9, <2>10 DEF k, x
<1>13. start \in T
  <2> DEFINE U == {j \in 0..(start - 1) : j + 1 \in T}
  <2> HIDE DEF T
  <2>1. 0 \in U
    BY <1>0, <1>10, <1>11
  <2>2. ASSUME NEW j \in 1..(start - 1), j - 1 \in U PROVE j \in U
    <3>1. j + 1 \in 2..start /\ (j + 1) - 1 = (j - 1) + 1
      BY <1>0, <1>10
    <3>2. (j + 1) - 1 \in T
      BY <2>2, <3>1
    <3>3. j + 1 \in T
      BY <1>12, <3>1, <3>2
    <3> QED BY <1>0, <1>10, <3>3
  <2>3. start - 1 \in Nat
    BY <1>0, <1>10
  <2> HIDE DEF U
  <2>4. 0..(start - 1) \subseteq U
    BY <2>1, <2>2, <2>3, CountUp
  <2>5. start - 1 \in U /\ (start - 1) + 1 = start
    BY <1>10, <2>3, <2>4
  <2> QED BY <2>5 DEF U
<1> DEFINE L == (Wide - start) + 1
           e == SubSeq(raw, start, Wide)
<1>14. L \in 1..Wide /\ L \in 0..Wide
  BY <1>0, <1>10
<1>15. e \in Seq(Octets) /\ Len(e) = L /\ \A i \in 1..L : e[i] = raw[(start - 1) + i]
  BY <1>0, <1>4, <1>10
<1>16. e[1] = raw[start]
  <2>1. 1 \in 1..L /\ (start - 1) + 1 = start
    BY <1>0, <1>10
  <2> QED BY <1>15, <2>1
<1>17. e = BigEndian(u, L)
  <2> DEFINE b == BigEndian(u, L)
  <2>1. b \in Seq(Octets) /\ Len(b) = L /\ \A i \in 1..L : b[i] = s[L - i] % 256
    BY <1>3, <1>14, OctetsOfNumber DEF s
  <2> HIDE DEF b, e
  <2>2. ASSUME NEW i \in 1..L PROVE e[i] = b[i]
    <3>1. (start - 1) + i \in 1..Wide /\ Wide - ((start - 1) + i) = L - i
      BY <1>0, <1>10, <1>14
    <3>2. raw[(start - 1) + i] = s[L - i] % 256
      BY <1>4, <3>1
    <3> QED BY <1>15, <2>1, <3>2
  <2> HIDE DEF L
  <2>3. e = [i \in 1..L |-> e[i]]
    BY <1>15
  <2>4. b = [i \in 1..L |-> b[i]]
    BY <2>1
  <2>5. e = b
    BY <2>2, <2>3, <2>4
  <2> QED BY <2>5 DEF b
<1>18. (raw[start] >= 128 <=> v < 0) /\ N(L) = Val(L)
  BY <1>13
<1> HIDE DEF e, L
<1>19. Number(e) = IF v < 0 THEN v + Radix[L] ELSE v
  BY <1>17, <1>18 DEF N
<1>20. encodeInteger(v) = e
  BY <1>9 DEF e
<1> QED BY <1>14, <1>15, <1>16, <1>18, <1>19, <1>20

\* The values of an int.
Int32 == {v \in Int : 0 - Radix[Narrow] <= 2 * v /\ 2 * v < Radix[Narrow]}

\* More octets hold more.
LEMMA RadixGrows ==
  ASSUME NEW j \in 0..Wide, NEW k \in j..Wide
  PROVE  Radix[j] <= Radix[k]
<1> DEFINE T == {i \in 0..(Wide - j) : Radix[j] <= Radix[j + i]}
<1>0. Wide \in Nat /\ Wide - j \in Nat
  BY WidthAssumption
<1>1. 0 \in T
  BY <1>0, RadixIs
<1>2. ASSUME NEW i \in 1..(Wide - j), i - 1 \in T PROVE i \in T
  <2>1. j + i \in 1..Wide /\ (j + i) - 1 = j + (i - 1) /\ j + (i - 1) \in 0..Wide
    BY <1>0
  <2>2. Radix[j + i] = 256 * Radix[j + (i - 1)] /\ Radix[j + (i - 1)] \in Nat /\ Radix[j] \in Nat
    BY <2>1, RadixIs
  <2>3. Radix[j] <= Radix[j + (i - 1)]
    BY <1>2
  <2>4. Radix[j] <= Radix[j + i]
    BY <2>2, <2>3
  <2> QED BY <1>0, <2>4
<1>3. 0..(Wide - j) \subseteq T
  <2> HIDE DEF T
  <2> QED BY <1>0, <1>1, <1>2, CountUp
<1>4. k - j \in 0..(Wide - j) /\ j + (k - j) = k
  BY <1>0
<1>5. Radix[j] <= Radix[j + (k - j)]
  BY <1>3, <1>4
<1> QED BY <1>4, <1>5

\* An int is a long.
LEMMA NarrowInWide == Int32 \subseteq Int64
<1>1. Narrow \in 0..Wide /\ Wide \in Narrow..Wide
  BY WidthAssumption
<1>2. Radix[Narrow] <= Radix[Wide]
  BY <1>1, RadixGrows
<1>3. Radix[Narrow] \in Nat /\ Radix[Wide] \in Nat
  <2>1. Wide \in 0..Wide
    BY WidthAssumption
  <2> QED BY <1>1, <2>1, RadixIs
<1> QED BY <1>2, <1>3 DEF Int32, Int64

\* The cast to int leaves a value that fits as it is.
LEMMA CastIs ==
  ASSUME NEW v \in Int32
  PROVE  toInt(v) = v
<1> DEFINE R == Radix[Narrow]
           bits == v % R
<1>1. Narrow \in 0..Wide
  BY WidthAssumption
<1>2. R \in Nat \ {0} /\ v \in Int /\ 0 - R <= 2 * v /\ 2 * v < R
  BY <1>1, RadixIs DEF Int32
<1>3. toInt(v) = IF 2 * bits >= R THEN bits - R ELSE bits
  BY DEF toInt
<1> HIDE DEF R
<1>4. bits = IF v < 0 THEN v + R ELSE v
  <2>1. 0 - R <= v /\ v < R
    BY <1>2
  <2> QED BY <1>2, <2>1, Wrapped
<1> HIDE DEF bits
<1> QED BY <1>2, <1>3, <1>4

\* A length of one octet is short.
LEMMA SmallIsShort ==
  ASSUME NEW n \in 0..255
  PROVE  Short(n)
<1>1. 1 \in 1..Wide
  BY WidthAssumption
<1>2. shifted(n)[1] = n \div 256
  <2>1. shifted(n)[1] = shifted(n)[1 - 1] \div 256 /\ shifted(n)[0] = n
    BY <1>1, ShiftedIs
  <2> QED BY <2>1
<1>3. n \div 256 = 0
  OBVIOUS
<1> QED BY <1>1, <1>2, <1>3 DEF Short

\* What an integer is written as.
LEMMA IntegerContent ==
  ASSUME NEW v \in Int32
  PROVE  /\ encodeInteger(v) \in Seq(Octets) /\ Len(encodeInteger(v)) \in 1..Wide
         /\ Short(Len(encodeInteger(v)))
<1>1. v \in Int64
  BY NarrowInWide
<1>2. encodeInteger(v) \in Seq(Octets) /\ Len(encodeInteger(v)) \in 1..Wide
  BY <1>1, IntegerIs
<1>3. Len(encodeInteger(v)) \in 0..255
  <2>1. \A n \in 1..Wide : n \in 0..255
    BY WidthAssumption
  <2> QED BY <1>2, <2>1
<1> QED BY <1>2, <1>3, SmallIsShort

\* readInteger, toInt and readEnumerated give the value written.
LEMMA IntegerRead ==
  ASSUME NEW r, NEW i, NEW v, octets(r, i) = encodeInteger(v)
  PROVE  /\ v \in Int64 => readInteger(r, i) = v
         /\ v \in Int32 => toInt(readInteger(r, i)) = v
         /\ v \in Int32 /\ v >= 0 => readEnumerated(r, i) = v
<1> DEFINE e == encodeInteger(v)
<1>1. ASSUME v \in Int64 PROVE readInteger(r, i) = v /\ (v >= 0 => Number(e) = v)
  <2>1. /\ Len(e) \in 1..Wide /\ (e[1] >= 128 <=> v < 0)
        /\ Number(e) = IF v < 0 THEN v + Radix[Len(e)] ELSE v
    BY <1>1, IntegerIs
  <2>2. Len(e) \in 0..Wide /\ v \in Int
    BY <1>1, <2>1, WidthAssumption DEF Int64
  <2>3. Radix[Len(e)] \in Nat
    BY <2>2, RadixIs
  <2>4. readInteger(r, i) = IF e[1] >= 128 THEN Number(e) - Radix[Len(e)] ELSE Number(e)
    BY DEF readInteger
  <2> HIDE DEF e
  <2> QED BY <2>1, <2>2, <2>3, <2>4
<1>2. v \in Int32 => v \in Int64
  BY NarrowInWide
<1>3. v \in Int32 => toInt(readInteger(r, i)) = v
  BY <1>1, <1>2, CastIs
<1>4. v \in Int32 /\ v >= 0 => readEnumerated(r, i) = v
  BY <1>1, <1>2, CastIs DEF readEnumerated
<1> QED BY <1>1, <1>3, <1>4

-----------------------------------------------------------------------------
(* Elements after each other.                                              *)

\* A reader over s has the elements x, and nothing after them.
Whole(s, x) ==
  /\ s \in Seq(Octets) /\ x \in Seq(TagAndContent)
  /\ Elements[s] = [items |-> x, rest |-> << >>]
El(tag, c) == [tag |-> tag, content |-> c]
Fit(c) == c \in Seq(Octets) /\ Short(Len(c))

\* Nothing, one element before others, and one alone.
LEMMA WholeNone == Whole(<< >>, << >>)
BY NoElements DEF Whole

\* An element before others.
LEMMA WholeCons ==
  ASSUME NEW tag \in Octets, NEW c, Fit(c), NEW s, NEW x, Whole(s, x)
  PROVE  Whole(write(tag, c) \o s, <<El(tag, c)>> \o x)
<1> DEFINE w == write(tag, c)
           e == El(tag, c)
<1>1. w \in Seq(Octets)
  BY WriteIs DEF Fit
<1>2. e \in TagAndContent
  BY DEF TagAndContent, El, Fit
<1>3. Elements[w \o s] = [items |-> <<e>> \o Elements[s].items, rest |-> Elements[s].rest]
  BY ElementIsReadBack DEF Fit, Whole, El
<1> HIDE DEF w, e
<1>4. w \o s \in Seq(Octets) /\ <<e>> \o x \in Seq(TagAndContent)
  BY <1>1, <1>2 DEF Whole
<1>5. Elements[s].items = x /\ Elements[s].rest = << >>
  BY DEF Whole
<1>6. Whole(w \o s, <<e>> \o x)
  BY <1>3, <1>4, <1>5 DEF Whole
<1> QED BY <1>6 DEF w, e

\* An element alone.
LEMMA WholeOne ==
  ASSUME NEW tag \in Octets, NEW c, Fit(c)
  PROVE  Whole(write(tag, c), <<El(tag, c)>>) /\ write(tag, c) \in Seq(Octets)
<1> DEFINE w == write(tag, c)
           e == El(tag, c)
<1>1. Whole(w \o << >>, <<e>> \o << >>)
  BY WholeCons, WholeNone
<1>2. w \in Seq(Octets)
  BY WriteIs DEF Fit
<1> HIDE DEF w, e
<1>3. w \o << >> = w /\ <<e>> \o << >> = <<e>>
  BY <1>2
<1> QED BY <1>1, <1>2, <1>3 DEF w, e

\* Elements after each other.
LEMMA TwoAre ==
  ASSUME NEW S, NEW a \in S, NEW b \in S
  PROVE  <<a>> \o <<b>> = <<a, b>>
<1> DEFINE q == <<a>> \o <<b>>
<1>1. Len(q) = 2 /\ q \in Seq(S) /\ q[1] = a /\ q[2] = b
  OBVIOUS
<1> HIDE DEF q
<1>2. q = [i \in 1..2 |-> q[i]]
  BY <1>1
<1>3. <<a, b>> = [i \in 1..2 |-> IF i = 1 THEN a ELSE b]
  OBVIOUS
<1>4. q = <<a, b>>
  BY <1>1, <1>2, <1>3
<1> QED BY <1>4 DEF q

\* Three of them.
LEMMA ThreeAre ==
  ASSUME NEW S, NEW a \in S, NEW b \in S, NEW c \in S
  PROVE  <<a, b>> \o <<c>> = <<a, b, c>>
<1> DEFINE q == <<a, b>> \o <<c>>
<1>1. Len(q) = 3 /\ q \in Seq(S) /\ q[1] = a /\ q[2] = b /\ q[3] = c
  OBVIOUS
<1> HIDE DEF q
<1>2. q = [i \in 1..3 |-> q[i]]
  BY <1>1
<1>3. <<a, b, c>> = [i \in 1..3 |-> IF i = 1 THEN a ELSE IF i = 2 THEN b ELSE c]
  OBVIOUS
<1>4. q = <<a, b, c>>
  BY <1>1, <1>2, <1>3
<1> QED BY <1>4 DEF q

\* How sequences are put together does not matter.
LEMMA Associates ==
  ASSUME NEW S, NEW p \in Seq(S), NEW q \in Seq(S), NEW x \in Seq(S)
  PROVE  p \o (q \o x) = p \o q \o x
OBVIOUS

\* The same with two elements, three, and more before what is left.
LEMMA WholeTwo ==
  ASSUME NEW t1 \in Octets, NEW t2 \in Octets, NEW c1, NEW c2, Fit(c1), Fit(c2),
         NEW s, NEW x, Whole(s, x)
  PROVE  /\ Whole(write(t1, c1) \o write(t2, c2) \o s, <<El(t1, c1), El(t2, c2)>> \o x)
         /\ Whole(write(t1, c1) \o write(t2, c2), <<El(t1, c1), El(t2, c2)>>)
<1> DEFINE w1 == write(t1, c1)
           w2 == write(t2, c2)
           a == El(t1, c1)
           b == El(t2, c2)
<1>1. Whole(w1 \o (w2 \o s), <<a>> \o (<<b>> \o x)) /\ Whole(w1 \o w2, <<a>> \o <<b>>)
  BY WholeCons, WholeOne
<1>2. w1 \in Seq(Octets) /\ w2 \in Seq(Octets) /\ s \in Seq(Octets) /\ x \in Seq(TagAndContent)
  BY WholeOne DEF Whole
<1>3. a \in TagAndContent /\ b \in TagAndContent
  BY DEF El, TagAndContent, Fit
<1> HIDE DEF w1, w2, a, b
<1>4. w1 \o (w2 \o s) = w1 \o w2 \o s
  BY <1>2
<1>5. <<a>> \o (<<b>> \o x) = <<a, b>> \o x /\ <<a>> \o <<b>> = <<a, b>>
  <2>1. <<a>> \o <<b>> = <<a, b>>
    BY <1>3, TwoAre
  <2>2. <<a>> \in Seq(TagAndContent) /\ <<b>> \in Seq(TagAndContent)
    BY <1>3
  <2>3. <<a>> \o (<<b>> \o x) = <<a>> \o <<b>> \o x
    BY <1>2, <2>2, Associates
  <2> QED BY <2>1, <2>3
<1> QED BY <1>1, <1>4, <1>5 DEF w1, w2, a, b

\* Three elements.
LEMMA WholeThree ==
  ASSUME NEW t1 \in Octets, NEW t2 \in Octets, NEW t3 \in Octets,
         NEW c1, NEW c2, NEW c3, Fit(c1), Fit(c2), Fit(c3), NEW s, NEW x, Whole(s, x)
  PROVE  /\ Whole(write(t1, c1) \o write(t2, c2) \o write(t3, c3) \o s,
                  <<El(t1, c1), El(t2, c2), El(t3, c3)>> \o x)
         /\ Whole(write(t1, c1) \o write(t2, c2) \o write(t3, c3),
                  <<El(t1, c1), El(t2, c2), El(t3, c3)>>)
<1> DEFINE w1 == write(t1, c1)
           w2 == write(t2, c2)
           w3 == write(t3, c3)
           a == El(t1, c1)
           b == El(t2, c2)
           c == El(t3, c3)
<1>1. Whole(w3 \o s, <<c>> \o x) /\ Whole(w3, <<c>>)
  BY WholeCons, WholeOne
<1>2. Whole(w1 \o w2 \o (w3 \o s), <<a, b>> \o (<<c>> \o x))
  BY <1>1, WholeTwo
<1>3. Whole(w1 \o w2 \o w3, <<a, b>> \o <<c>>)
  BY <1>1, WholeTwo
<1>4. w1 \in Seq(Octets) /\ w2 \in Seq(Octets) /\ w3 \in Seq(Octets) /\ s \in Seq(Octets)
      /\ x \in Seq(TagAndContent)
  BY WholeOne DEF Whole
<1>5. a \in TagAndContent /\ b \in TagAndContent /\ c \in TagAndContent
  BY DEF El, TagAndContent, Fit
<1> HIDE DEF w1, w2, w3, a, b, c
<1>6. w1 \o w2 \o (w3 \o s) = w1 \o w2 \o w3 \o s
  <2> DEFINE p == w1 \o w2
  <2>1. p \in Seq(Octets)
    BY <1>4
  <2> HIDE DEF p
  <2>2. p \o (w3 \o s) = p \o w3 \o s
    BY <1>4, <2>1
  <2> QED BY <2>2 DEF p
<1>7. <<a, b>> \o <<c>> = <<a, b, c>>
  BY <1>5, ThreeAre
<1>8. <<a, b>> \o (<<c>> \o x) = <<a, b, c>> \o x
  <2> DEFINE p == <<a, b>>
             q == <<c>>
  <2>1. p \in Seq(TagAndContent) /\ q \in Seq(TagAndContent)
    BY <1>5
  <2>2. p \o q = <<a, b, c>>
    BY <1>7
  <2> HIDE DEF p, q
  <2>3. p \o (q \o x) = (p \o q) \o x
    BY <1>4, <2>1
  <2> QED BY <2>2, <2>3 DEF p, q
<1> QED BY <1>2, <1>3, <1>6, <1>7, <1>8 DEF w1, w2, w3, a, b, c

-----------------------------------------------------------------------------
\* Each operation has a tag of its own.
LEMMA TagsDiffer ==
  /\ \A o \in DOMAIN OpTag : OpTag[o] \in Octets
  /\ \A o, p \in DOMAIN OpTag : OpTag[o] = OpTag[p] => o = p
<1>1. \A o \in DOMAIN OpTag : OpTag[o] \in Octets
  BY DEF OpTag, Octets
<1>2. \A o, p \in DOMAIN OpTag : OpTag[o] = OpTag[p] => o = p
  BY DEF OpTag
<1> QED BY <1>1, <1>2

\* OpOf finds the operation by its tag.
LEMMA OpOfTag ==
  ASSUME NEW o \in DOMAIN OpTag, NEW c
  PROVE  OpOf(El(OpTag[o], c)) = o
<1> DEFINE e == El(OpTag[o], c)
<1>1. e.tag = OpTag[o]
  BY DEF El
<1> HIDE DEF e
<1>2. OpOf(e) = CHOOSE p \in DOMAIN OpTag : OpTag[p] = e.tag
  BY <1>1 DEF OpOf
<1>3. OpOf(e) = o
  BY <1>1, <1>2, TagsDiffer
<1> QED BY <1>3 DEF e

-----------------------------------------------------------------------------
(* The envelope of a message.                                              *)

\* What follows the operation: nothing, or the controls.
Trailer(tail, x, cs) ==
  /\ Whole(tail, x)
  /\ \/ x = << >> /\ cs = << >>
     \/ \E c : /\ Fit(c) /\ x = <<El(FieldTag.Controls, c)>> /\ decodeControls(Elements[c]) = {cs}

\* The tags in use.
LEMMA TagValues ==
  /\ Tag.Boolean = 1 /\ Tag.Integer = 2 /\ Tag.OctetString = 4 /\ Tag.Enumerated = 10
  /\ Tag.Sequence = 48 /\ Tag.Set = 49
  /\ Tag.SimpleAuth = 128 /\ Tag.Context1 = 129 /\ Tag.Context2 = 130
  /\ FieldTag.ServerSaslCreds = 135 /\ FieldTag.SaslAuth = 163 /\ FieldTag.Controls = 160
  /\ FieldTag.ResponseName = 138 /\ FieldTag.ResponseValue = 139
BY DEF Tag, FieldTag

\* Each of them is an octet.
LEMMA TagOctets ==
  /\ Tag.Boolean \in Octets /\ Tag.Integer \in Octets /\ Tag.OctetString \in Octets
  /\ Tag.Enumerated \in Octets /\ Tag.Sequence \in Octets /\ Tag.Set \in Octets
  /\ Tag.SimpleAuth \in Octets /\ Tag.Context1 \in Octets /\ Tag.Context2 \in Octets
  /\ FieldTag.ServerSaslCreds \in Octets /\ FieldTag.SaslAuth \in Octets /\ FieldTag.Controls \in Octets
  /\ FieldTag.ResponseName \in Octets /\ FieldTag.ResponseValue \in Octets
BY TagValues DEF Octets

\* One way to read the operation and one to read the controls make one message.
LEMMA Singleton ==
  ASSUME NEW A, NEW B, NEW a, NEW b, A = {a}, B = {b}, NEW id, NEW op
  PROVE  {[id |-> id, op |-> op, data |-> d, controls |-> cs] : d \in A, cs \in B}
           = {[id |-> id, op |-> op, data |-> a, controls |-> b]}
OBVIOUS

\* A message with this operation, of this content, and with this behind it.
Envelope(id, op, data, content, tail, x, cs) ==
  /\ id \in Int32 /\ op \in DOMAIN OpTag /\ Fit(content)
  /\ decodeOp[El(OpTag[op], content)] = {data}
  /\ Trailer(tail, x, cs)
  /\ Fit(writeInteger(id) \o write(OpTag[op], content) \o tail)

\* A message whose operation is read back, is read back.
LEMMA Enveloped ==
  ASSUME NEW id, NEW op, NEW data, NEW content, NEW tail, NEW x, NEW cs,
         Envelope(id, op, data, content, tail, x, cs)
  PROVE  decodeLdapMessage(write(Tag.Sequence, writeInteger(id) \o write(OpTag[op], content) \o tail))
           = {[id |-> id, op |-> op, data |-> data, controls |-> cs]}
<1>0. /\ id \in Int32 /\ op \in DOMAIN OpTag /\ Fit(content)
      /\ decodeOp[El(OpTag[op], content)] = {data}
      /\ Trailer(tail, x, cs)
      /\ Fit(writeInteger(id) \o write(OpTag[op], content) \o tail)
  BY DEF Envelope
<1> USE <1>0
<1> DEFINE body == writeInteger(id) \o write(OpTag[op], content) \o tail
           wire == write(Tag.Sequence, body)
           top == Elements[wire]
           a == El(Tag.Integer, encodeInteger(id))
           b == El(OpTag[op], content)
           B == Elements[body]
<1>1. Whole(body, <<a, b>> \o x)
  <2>1. Fit(encodeInteger(id))
    BY IntegerContent DEF Fit
  <2>2. OpTag[op] \in Octets /\ Tag.Integer \in Octets
    BY TagsDiffer, TagOctets
  <2>3. Whole(write(Tag.Integer, encodeInteger(id)) \o write(OpTag[op], content) \o tail, <<a, b>> \o x)
    BY <2>1, <2>2, WholeTwo DEF Trailer
  <2> QED BY <2>3 DEF writeInteger
<1>2. Whole(wire, <<El(Tag.Sequence, body)>>)
  BY TagOctets, WholeOne
<1> HIDE DEF body, wire, B
<1>3. top.items = <<El(Tag.Sequence, body)>> /\ top.rest = << >>
  BY <1>2 DEF Whole
<1>4. Reads(top, 1, Tag.Sequence) /\ octets(top, 1) = body
  <2>1. Len(top.items) = 1 /\ top.items[1].tag = Tag.Sequence /\ top.items[1].content = body
    BY <1>3 DEF El
  <2> QED BY <2>1, TagValues DEF Reads, octets
<1>5. inner(top, 1) = B
  BY <1>4 DEF inner, B
<1>6. decodeLdapMessage(wire) = decodeBody(B)
  <2>1. decodeLdapMessage(wire) =
          UNION {IF Reads(t, 1, Tag.Sequence) THEN decodeBody(inner(t, 1)) ELSE {} : t \in {Elements[wire]}}
    BY DEF decodeLdapMessage
  <2>2. UNION {IF Reads(t, 1, Tag.Sequence) THEN decodeBody(inner(t, 1)) ELSE {} : t \in {Elements[wire]}}
          = IF Reads(top, 1, Tag.Sequence) THEN decodeBody(inner(top, 1)) ELSE {}
    <3> HIDE DEF top
    <3>1. Elements[wire] = top
      BY DEF top
    <3> QED BY <3>1
  <2> QED BY <1>4, <1>5, <2>1, <2>2
<1>7. B.items = <<a, b>> \o x /\ B.rest = << >> /\ x \in Seq(TagAndContent) /\ a \in TagAndContent /\ b \in TagAndContent
  <2>1. Fit(encodeInteger(id)) /\ OpTag[op] \in Octets
    BY IntegerContent, TagsDiffer DEF Fit
  <2> QED BY <1>1, <2>1, TagOctets DEF B, Whole, Trailer, TagAndContent, El, Fit
<1>8. a.tag = Tag.Integer /\ a.content = encodeInteger(id) /\ b.tag = OpTag[op] /\ b.content = content
  BY DEF El
<1>9. OpOf(b) = op /\ decodeOp[b] = {data}
  BY OpOfTag
<1> HIDE DEF a, b, top
<1>10. Len(B.items) = 2 + Len(x) /\ B.items[1] = a /\ B.items[2] = b /\ Len(x) \in Nat
       /\ (Len(x) = 1 => B.items[3] = x[1])
  BY <1>7
<1>11. octets(B, 1) = encodeInteger(id)
  BY <1>8, <1>10 DEF octets
<1>12. toInt(readInteger(B, 1)) = id
  BY <1>11, IntegerRead
<1>13. Reads(B, 1, Tag.Integer)
  <2>1. Len(encodeInteger(id)) \in 1..Wide
    BY IntegerContent
  <2> QED BY <1>8, <1>10, <2>1, TagValues DEF Reads
<1> DEFINE controls == IF peekTag(B, 2) # FieldTag.Controls THEN {<< >>}
                       ELSE IF ~Reads(B, 3, FieldTag.Controls) THEN {}
                       ELSE decodeControls(inner(B, 3))
<1>14. controls = {cs}
  <2>1. CASE x = << >> /\ cs = << >>
    <3>1. Len(B.items) = 2
      BY <1>10, <2>1
    <3>2. peekTag(B, 2) = 0
      BY <1>7, <3>1 DEF peekTag
    <3> QED BY <2>1, <3>2, TagValues
  <2>2. ASSUME NEW c, Fit(c), x = <<El(FieldTag.Controls, c)>>, decodeControls(Elements[c]) = {cs}
        PROVE  controls = {cs}
    <3>1. Len(B.items) = 3 /\ B.items[3] = El(FieldTag.Controls, c)
      BY <1>10, <2>2
    <3>2. B.items[3].tag = FieldTag.Controls /\ B.items[3].content = c
      BY <3>1 DEF El
    <3>3. peekTag(B, 2) = FieldTag.Controls
      BY <3>1, <3>2 DEF peekTag
    <3>4. Reads(B, 3, FieldTag.Controls)
      BY <3>1, <3>2, TagValues DEF Reads
    <3>5. inner(B, 3) = Elements[c]
      BY <3>2 DEF inner, octets
    <3> QED BY <2>2, <3>3, <3>4, <3>5
  <2> QED BY <2>1, <2>2 DEF Trailer
<1> HIDE DEF controls
<1>15. decodeBody(B) = {[id |-> toInt(readInteger(B, 1)), op |-> OpOf(B.items[2]), data |-> d, controls |-> c] :
                          d \in decodeOp[B.items[2]], c \in controls}
  BY <1>10, <1>13 DEF decodeBody, controls
<1>16. decodeBody(B) = {[id |-> id, op |-> op, data |-> d, controls |-> c] : d \in decodeOp[b], c \in controls}
  BY <1>9, <1>10, <1>12, <1>15
<1>17. decodeBody(B) = {[id |-> id, op |-> op, data |-> data, controls |-> cs]}
  BY <1>9, <1>14, <1>16, Singleton
<1> QED BY <1>6, <1>17 DEF wire, body

-----------------------------------------------------------------------------
(* Operations: the fields of each are read back.                           *)

\* Text whose length a header can hold.
Strings == {s \in Seq(Octets) : Short(Len(s))}

\* Text that fits is a string.
LEMMA StringsFit ==
  ASSUME NEW s
  PROVE  s \in Strings <=> Fit(s)
BY DEF Strings, Fit

\* decodeOp takes the branch of the operation.
LEMMA DecodesOp ==
  ASSUME NEW c \in Seq(Octets), NEW op \in DOMAIN OpTag
  PROVE  LET e == El(OpTag[op], c)
             r == Elements[c]
         IN  /\ op \in ResultOps => decodeOp[e] = decodeResult(r)
             /\ op = "BindRequest" => decodeOp[e] = decodeBindRequest(r)
             /\ op = "UnbindRequest" => decodeOp[e] = {<< >>}
             /\ op \in {"SearchResultEntry", "AddRequest"} => decodeOp[e] = decodeAttributes(r)
             /\ op = "ModifyRequest" => decodeOp[e] = decodeModifyRequest(r)
             /\ op = "DelRequest" => decodeOp[e] = {c}
             /\ op = "ModifyDNRequest" => decodeOp[e] = decodeModifyDnRequest(r)
             /\ op = "CompareRequest" => decodeOp[e] = decodeCompareRequest(r)
             /\ op = "ExtendedRequest" => decodeOp[e] = decodeExtendedRequest(r)
<1> DEFINE e == El(OpTag[op], c)
           r == Elements[c]
           Branch(q) ==
             CASE op \in ResultOps       -> decodeResult(q)
               [] op = "BindRequest"     -> decodeBindRequest(q)
               [] op \in {"UnbindRequest", "Unknown"} -> {<< >>}
               [] op = "SearchRequest"   -> decodeSearchRequest(q)
               [] op \in {"SearchResultEntry", "AddRequest"} -> decodeAttributes(q)
               [] op = "ModifyRequest"   -> decodeModifyRequest(q)
               [] op = "DelRequest"      -> {c}
               [] op = "ModifyDNRequest" -> decodeModifyDnRequest(q)
               [] op = "CompareRequest"  -> decodeCompareRequest(q)
               [] op = "ExtendedRequest" -> decodeExtendedRequest(q)
<1>1. e \in TagAndContent /\ e.content = c
  BY TagsDiffer DEF El, TagAndContent
<1>2. OpOf(e) = op
  BY OpOfTag
<1> HIDE DEF e
<1>3. decodeOp[e] = UNION {Branch(q) : q \in {Elements[c]}}
  BY <1>1, <1>2 DEF decodeOp
<1>4. UNION {Branch(q) : q \in {Elements[c]}} = Branch(r)
  <2> HIDE DEF Branch
  <2> QED OBVIOUS
<1>5. decodeOp[e] = Branch(r)
  BY <1>3, <1>4
<1> HIDE DEF r
<1>6. op \in ResultOps => Branch(r) = decodeResult(r)
  BY DEF ResultOps
<1>7. op \notin ResultOps =>
        /\ op = "BindRequest" => Branch(r) = decodeBindRequest(r)
        /\ op = "UnbindRequest" => Branch(r) = {<< >>}
        /\ op \in {"SearchResultEntry", "AddRequest"} => Branch(r) = decodeAttributes(r)
        /\ op = "ModifyRequest" => Branch(r) = decodeModifyRequest(r)
        /\ op = "DelRequest" => Branch(r) = {c}
        /\ op = "ModifyDNRequest" => Branch(r) = decodeModifyDnRequest(r)
        /\ op = "CompareRequest" => Branch(r) = decodeCompareRequest(r)
        /\ op = "ExtendedRequest" => Branch(r) = decodeExtendedRequest(r)
  OBVIOUS
<1>8. op \in {"BindRequest", "UnbindRequest", "SearchResultEntry", "AddRequest", "ModifyRequest", "DelRequest",
              "ModifyDNRequest", "CompareRequest", "ExtendedRequest"} => op \notin ResultOps
  BY DEF ResultOps
<1> HIDE DEF Branch
<1> QED BY <1>5, <1>6, <1>7, <1>8 DEF e, r

\* An optional field is there, or there is nothing.
LEMMA WholeOptional ==
  ASSUME NEW tag \in Octets, NEW s, Fit(s)
  PROVE  Whole(writeOptional(tag, s), IF s = << >> THEN << >> ELSE <<El(tag, s)>>)
<1>1. CASE s = << >>
  BY <1>1, WholeNone DEF writeOptional
<1>2. CASE s # << >>
  BY <1>2, WholeOne DEF writeOptional
<1> QED BY <1>1, <1>2

\* An element that is not an integer, nor a boolean, is read by its tag.
LEMMA ReadsElement ==
  ASSUME NEW r, NEW i \in Nat \ {0}, NEW tag, NEW c, Len(r.items) >= i, Len(r.items) \in Nat, r.items[i] = El(tag, c),
         tag \notin {Tag.Integer, Tag.Enumerated, Tag.Boolean}
  PROVE  Reads(r, i, tag) /\ octets(r, i) = c /\ inner(r, i) = Elements[c] /\ r.items[i].tag = tag
<1>1. r.items[i].tag = tag /\ r.items[i].content = c
  BY DEF El
<1> QED BY <1>1 DEF Reads, octets, inner

\* An extended request, with a value or without.
LEMMA ExtendedReadBack ==
  ASSUME NEW d \in [oid : Strings, value : Strings]
  PROVE  /\ encodeExtendedRequest(d) \in Seq(Octets)
         /\ decodeExtendedRequest(Elements[encodeExtendedRequest(d)]) = {d}
<1> DEFINE c == encodeExtendedRequest(d)
           r == Elements[c]
           x == IF d.value = << >> THEN << >> ELSE <<El(Tag.Context1, d.value)>>
           a == El(Tag.SimpleAuth, d.oid)
<1>1. Fit(d.oid) /\ Fit(d.value)
  BY StringsFit
<1>2. Whole(c, <<a>> \o x)
  <2>1. Whole(writeOptional(Tag.Context1, d.value), x)
    BY <1>1, TagOctets, WholeOptional
  <2> HIDE DEF x
  <2> QED BY <1>1, <2>1, TagOctets, WholeCons DEF encodeExtendedRequest
<1> HIDE DEF c
<1>3. r.items = <<a>> \o x /\ r.rest = << >>
  BY <1>2 DEF Whole
<1> HIDE DEF r
<1>4. CASE d.value = << >>
  <2>1. r.items = <<a>>
    BY <1>3, <1>4
  <2>2. Len(r.items) = 1 /\ r.items[1] = a
    BY <2>1
  <2>3. Reads(r, 1, Tag.SimpleAuth) /\ octets(r, 1) = d.oid
    BY <2>2, ReadsElement, TagValues
  <2>4. peekTag(r, 1) # Tag.Context1
    BY <1>3, <2>2, TagValues DEF peekTag
  <2>5. decodeExtendedRequest(r) = {[oid |-> d.oid, value |-> << >>]}
    BY <2>3, <2>4 DEF decodeExtendedRequest, Decoded
  <2> QED BY <1>2, <1>4, <2>5 DEF Whole, c, r
<1>5. CASE d.value # << >>
  <2> DEFINE b == El(Tag.Context1, d.value)
  <2>1. r.items = <<a>> \o <<b>>
    BY <1>3, <1>5
  <2>2. Len(r.items) = 2 /\ r.items[1] = a /\ r.items[2] = b
    BY <2>1
  <2>3. /\ Reads(r, 1, Tag.SimpleAuth) /\ octets(r, 1) = d.oid
        /\ Reads(r, 2, Tag.Context1) /\ octets(r, 2) = d.value /\ r.items[2].tag = Tag.Context1
    BY <2>2, ReadsElement, TagValues
  <2>4. peekTag(r, 1) = Tag.Context1
    BY <2>2, <2>3 DEF peekTag
  <2>5. decodeExtendedRequest(r) = {[oid |-> d.oid, value |-> d.value]}
    BY <2>3, <2>4 DEF decodeExtendedRequest, Decoded
  <2> QED BY <1>2, <2>5 DEF Whole, c, r
<1> QED BY <1>4, <1>5

\* A compare request.
LEMMA CompareReadBack ==
  ASSUME NEW d \in [dn : Strings, attribute : Strings, value : Strings],
         Fit(writeOctetString(d.attribute) \o writeOctetString(d.value))
  PROVE  /\ encodeCompareRequest(d) \in Seq(Octets)
         /\ decodeCompareRequest(Elements[encodeCompareRequest(d)]) = {d}
<1> DEFINE c == encodeCompareRequest(d)
           r == Elements[c]
           v == writeOctetString(d.attribute) \o writeOctetString(d.value)
           ava == Elements[v]
           str == Tag.OctetString
<1>1. Fit(d.dn) /\ Fit(d.attribute) /\ Fit(d.value) /\ Fit(v)
  BY StringsFit
<1>2. Whole(v, <<El(str, d.attribute), El(str, d.value)>>)
  BY <1>1, TagOctets, WholeTwo, WholeNone DEF writeOctetString
<1>3. c = write(str, d.dn) \o write(Tag.Sequence, v)
  BY DEF encodeCompareRequest, writeOctetString
<1> HIDE DEF v, c
<1>4. Whole(c, <<El(str, d.dn), El(Tag.Sequence, v)>>)
  BY <1>1, <1>3, TagOctets, WholeTwo, WholeNone
<1>5. r.items = <<El(str, d.dn), El(Tag.Sequence, v)>> /\ ava.items = <<El(str, d.attribute), El(str, d.value)>>
  BY <1>2, <1>4 DEF Whole
<1> HIDE DEF r, ava
<1>6. Len(r.items) = 2 /\ r.items[1] = El(str, d.dn) /\ r.items[2] = El(Tag.Sequence, v)
  BY <1>5
<1>7. Len(ava.items) = 2 /\ ava.items[1] = El(str, d.attribute) /\ ava.items[2] = El(str, d.value)
  BY <1>5
<1>8. /\ Reads(r, 1, str) /\ octets(r, 1) = d.dn /\ Reads(r, 2, Tag.Sequence) /\ inner(r, 2) = ava
      /\ Reads(ava, 1, str) /\ octets(ava, 1) = d.attribute /\ Reads(ava, 2, str) /\ octets(ava, 2) = d.value
  <2>0. str \notin {Tag.Integer, Tag.Enumerated, Tag.Boolean}
        /\ Tag.Sequence \notin {Tag.Integer, Tag.Enumerated, Tag.Boolean}
    BY TagValues
  <2> HIDE DEF str
  <2>1. Reads(r, 1, str) /\ octets(r, 1) = d.dn
    BY <1>6, <2>0, ReadsElement
  <2>2. Reads(r, 2, Tag.Sequence) /\ inner(r, 2) = ava
    BY <1>6, <2>0, ReadsElement DEF ava
  <2>3. Reads(ava, 1, str) /\ octets(ava, 1) = d.attribute
    BY <1>7, <2>0, ReadsElement
  <2>4. Reads(ava, 2, str) /\ octets(ava, 2) = d.value
    BY <1>7, <2>0, ReadsElement
  <2> QED BY <2>1, <2>2, <2>3, <2>4
<1>9. ReadsAll(r, <<str, Tag.Sequence>>) /\ ReadsAll(ava, <<str, str>>)
  BY <1>8 DEF ReadsAll
<1>10. decodeCompareRequest(r) = {[dn |-> d.dn, attribute |-> d.attribute, value |-> d.value]}
  BY <1>8, <1>9 DEF decodeCompareRequest, Decoded
<1> QED BY <1>4, <1>10 DEF Whole, c, r

\* Integers and booleans as elements.
LEMMA BooleanContent ==
  ASSUME NEW b \in BOOLEAN
  PROVE  Fit(<<IF b THEN 255 ELSE 0>>)
<1> DEFINE o == IF b THEN 255 ELSE 0
<1>1. o \in Octets
  BY DEF Octets
<1> HIDE DEF o
<1>2. <<o>> \in Seq(Octets) /\ Len(<<o>>) = 1
  BY <1>1
<1>3. Short(1)
  BY SmallIsShort
<1> QED BY <1>2, <1>3 DEF Fit, o

\* A boolean is read as it was written.
LEMMA ReadsBoolean ==
  ASSUME NEW r, NEW i \in Nat \ {0}, NEW b \in BOOLEAN, Len(r.items) >= i,
         r.items[i] = El(Tag.Boolean, <<IF b THEN 255 ELSE 0>>)
  PROVE  Reads(r, i, Tag.Boolean) /\ boolean(r, i) = b
<1>1. r.items[i].tag = Tag.Boolean /\ r.items[i].content = <<IF b THEN 255 ELSE 0>>
  BY DEF El
<1>2. Reads(r, i, Tag.Boolean)
  BY <1>1, TagValues DEF Reads
<1>3. boolean(r, i) = (<<IF b THEN 255 ELSE 0>> # <<0>>)
  BY <1>1 DEF boolean, octets
<1>4. <<255>> # <<0>>
  OBVIOUS
<1>5. (<<IF b THEN 255 ELSE 0>> # <<0>>) = b
  BY <1>4
<1> QED BY <1>2, <1>3, <1>5

\* So is an integer, or an enumerated value.
LEMMA ReadsInteger ==
  ASSUME NEW r, NEW i \in Nat \ {0}, NEW v \in Int32, NEW tag \in {Tag.Integer, Tag.Enumerated},
         Len(r.items) >= i, r.items[i] = El(tag, encodeInteger(v))
  PROVE  /\ Reads(r, i, tag) /\ toInt(readInteger(r, i)) = v
         /\ v >= 0 => readEnumerated(r, i) = v
<1>1. r.items[i].tag = tag /\ r.items[i].content = encodeInteger(v)
  BY DEF El
<1>2. Len(encodeInteger(v)) \in 1..Wide
  BY IntegerContent
<1>3. tag # Tag.Boolean
  BY TagValues
<1>4. Reads(r, i, tag)
  BY <1>1, <1>2, <1>3 DEF Reads
<1>5. octets(r, i) = encodeInteger(v)
  BY <1>1 DEF octets
<1> QED BY <1>4, <1>5, IntegerRead

\* Every long goes through a BER INTEGER unharmed, of either sign and at the edges
\* of every number of octets: encodeInteger writes one octet at least and no more
\* than the type has, readInteger accepts it and gives the value back, and an int
\* survives the cast that the decoders make.
THEOREM IntegerIsReadBack ==
  ASSUME NEW v \in Int64
  PROVE  LET r == Elements[writeInteger(v)]
         IN  /\ Reads(r, 1, Tag.Integer) /\ readInteger(r, 1) = v
             /\ v \in Int32 => toInt(readInteger(r, 1)) = v
<1> DEFINE e == encodeInteger(v)
           r == Elements[writeInteger(v)]
<1>1. e \in Seq(Octets) /\ Len(e) \in 1..Wide
  BY IntegerIs
<1>2. Len(e) \in 0..255
  <2>1. \A n \in 1..Wide : n \in 0..255
    BY WidthAssumption
  <2> QED BY <1>1, <2>1
<1>3. Fit(e)
  BY <1>1, <1>2, SmallIsShort DEF Fit
<1>4. r.items = <<El(Tag.Integer, e)>>
  <2>1. Whole(write(Tag.Integer, e), <<El(Tag.Integer, e)>>)
    BY <1>3, TagOctets, WholeOne
  <2>2. writeInteger(v) = write(Tag.Integer, e)
    BY DEF writeInteger
  <2> QED BY <2>1, <2>2 DEF Whole
<1> HIDE DEF r
<1>5. Len(r.items) = 1 /\ r.items[1].tag = Tag.Integer /\ r.items[1].content = e
  BY <1>4 DEF El
<1>6. Reads(r, 1, Tag.Integer)
  BY <1>1, <1>5, TagValues DEF Reads
<1>7. octets(r, 1) = e
  BY <1>5 DEF octets
<1> QED BY <1>6, <1>7, IntegerRead DEF r

\* A rename, with a new superior or without.
LEMMA ModifyDnReadBack ==
  ASSUME NEW d \in [dn : Strings, newRdn : Strings, deleteOldRdn : BOOLEAN, newSuperior : Strings]
  PROVE  /\ encodeModifyDnRequest(d) \in Seq(Octets)
         /\ decodeModifyDnRequest(Elements[encodeModifyDnRequest(d)]) = {d}
<1> DEFINE c == encodeModifyDnRequest(d)
           r == Elements[c]
           str == Tag.OctetString
           bit == <<IF d.deleteOldRdn THEN 255 ELSE 0>>
           sup == d.newSuperior
           x == IF sup = << >> THEN << >> ELSE <<El(Tag.SimpleAuth, sup)>>
           e1 == El(str, d.dn)
           e2 == El(str, d.newRdn)
           e3 == El(Tag.Boolean, bit)
<1>1. Fit(d.dn) /\ Fit(d.newRdn) /\ Fit(sup) /\ d.deleteOldRdn \in BOOLEAN
  BY StringsFit
<1>2. Fit(bit)
  BY <1>1, BooleanContent
<1>3. Whole(writeOptional(Tag.SimpleAuth, sup), x)
  BY <1>1, TagOctets, WholeOptional
<1>4. c = write(str, d.dn) \o write(str, d.newRdn) \o write(Tag.Boolean, bit) \o writeOptional(Tag.SimpleAuth, sup)
  BY DEF encodeModifyDnRequest, writeOctetString, writeBoolean
<1> HIDE DEF c, x, bit
<1>5. Whole(c, <<e1, e2, e3>> \o x)
  BY <1>1, <1>2, <1>3, <1>4, TagOctets, WholeThree
<1>6. r.items = <<e1, e2, e3>> \o x /\ r.rest = << >> /\ x \in Seq(TagAndContent)
  BY <1>3, <1>5 DEF Whole
<1>7. e1 \in TagAndContent /\ e2 \in TagAndContent /\ e3 \in TagAndContent
  BY <1>1, <1>2, TagOctets DEF El, TagAndContent, Fit
<1> HIDE DEF r, e1, e2, e3
<1>8. /\ Len(r.items) = 3 + Len(x) /\ Len(x) \in Nat
      /\ r.items[1] = e1 /\ r.items[2] = e2 /\ r.items[3] = e3 /\ (Len(x) = 1 => r.items[4] = x[1])
  BY <1>6, <1>7
<1>9. Reads(r, 1, str) /\ octets(r, 1) = d.dn /\ Reads(r, 2, str) /\ octets(r, 2) = d.newRdn
  <2>0. str \notin {Tag.Integer, Tag.Enumerated, Tag.Boolean}
    BY TagValues
  <2> HIDE DEF str
  <2>1. Reads(r, 1, str) /\ octets(r, 1) = d.dn
    BY <1>8, <2>0, ReadsElement DEF e1
  <2>2. Reads(r, 2, str) /\ octets(r, 2) = d.newRdn
    BY <1>8, <2>0, ReadsElement DEF e2
  <2> QED BY <2>1, <2>2
<1>10. Reads(r, 3, Tag.Boolean) /\ boolean(r, 3) = d.deleteOldRdn
  BY <1>1, <1>8, ReadsBoolean DEF e3, bit
<1>11. ReadsAll(r, <<str, str, Tag.Boolean>>)
  BY <1>9, <1>10 DEF ReadsAll
<1>12. /\ peekTag(r, 3) = Tag.SimpleAuth => Reads(r, 4, Tag.SimpleAuth)
       /\ (IF peekTag(r, 3) = Tag.SimpleAuth THEN octets(r, 4) ELSE << >>) = sup
  <2>1. CASE sup = << >>
    <3>1. Len(r.items) = 3
      BY <1>8, <2>1 DEF x
    <3>2. peekTag(r, 3) = 0
      BY <1>6, <3>1 DEF peekTag
    <3> QED BY <2>1, <3>2, TagValues
  <2>2. CASE sup # << >>
    <3>1. Len(r.items) = 4 /\ r.items[4] = El(Tag.SimpleAuth, sup)
      BY <1>8, <2>2 DEF x
    <3>2. Reads(r, 4, Tag.SimpleAuth) /\ octets(r, 4) = sup /\ r.items[4].tag = Tag.SimpleAuth
      BY <3>1, ReadsElement, TagValues
    <3>3. peekTag(r, 3) = Tag.SimpleAuth
      BY <3>1, <3>2 DEF peekTag
    <3> QED BY <3>2, <3>3
  <2> QED BY <2>1, <2>2
<1>13. decodeModifyDnRequest(r) =
         {[dn |-> d.dn, newRdn |-> d.newRdn, deleteOldRdn |-> d.deleteOldRdn, newSuperior |-> sup]}
  BY <1>9, <1>10, <1>11, <1>12 DEF decodeModifyDnRequest, Decoded
<1> QED BY <1>5, <1>13 DEF Whole, c, r

\* The fields of a bind request; those of the other kind are empty.
BindData ==
  {d \in [version : Int32, dn : Strings, simple : BOOLEAN, password : Strings,
          mechanism : Strings, credentials : Strings] :
     IF d.simple THEN d.mechanism = << >> /\ d.credentials = << >> ELSE d.password = << >>}

\* A bind request is read back: simple, or SASL with credentials or without.
LEMMA BindReadBack ==
  ASSUME NEW d \in BindData,
         Fit(writeOctetString(d.mechanism) \o writeOptional(Tag.OctetString, d.credentials))
  PROVE  /\ encodeBindRequest(d) \in Seq(Octets)
         /\ decodeBindRequest(Elements[encodeBindRequest(d)]) = {d}
<1> DEFINE c == encodeBindRequest(d)
           r == Elements[c]
           str == Tag.OctetString
           v == writeOctetString(d.mechanism) \o writeOptional(str, d.credentials)
           t == IF d.simple THEN Tag.SimpleAuth ELSE FieldTag.SaslAuth
           p == IF d.simple THEN d.password ELSE v
           e1 == El(Tag.Integer, encodeInteger(d.version))
           e2 == El(str, d.dn)
           e3 == El(t, p)
           dd(sm, pw, me, cr) ==
             [version |-> toInt(readInteger(r, 1)), dn |-> octets(r, 2), simple |-> sm,
              password |-> pw, mechanism |-> me, credentials |-> cr]
<1>1. /\ Fit(d.dn) /\ Fit(d.password) /\ Fit(d.mechanism) /\ Fit(d.credentials) /\ Fit(v)
      /\ d.version \in Int32 /\ d.simple \in BOOLEAN
      /\ IF d.simple THEN d.mechanism = << >> /\ d.credentials = << >> ELSE d.password = << >>
      /\ d = [version |-> d.version, dn |-> d.dn, simple |-> d.simple, password |-> d.password,
              mechanism |-> d.mechanism, credentials |-> d.credentials]
  BY StringsFit DEF BindData
<1>2. Fit(encodeInteger(d.version)) /\ t \in Octets /\ Fit(p)
  BY <1>1, IntegerContent, TagOctets DEF Fit
<1>3. c = write(Tag.Integer, encodeInteger(d.version)) \o write(str, d.dn) \o write(t, p)
  BY <1>1 DEF encodeBindRequest, writeInteger, writeOctetString
<1> HIDE DEF c
<1>4. Whole(c, <<e1, e2, e3>>)
  <2> HIDE DEF t, p
  <2> QED BY <1>1, <1>2, <1>3, TagOctets, WholeThree, WholeNone
<1>5. r.items = <<e1, e2, e3>>
  BY <1>4 DEF Whole
<1> HIDE DEF r
<1>6. Len(r.items) = 3 /\ r.items[1] = e1 /\ r.items[2] = e2 /\ r.items[3] = e3
  BY <1>5
<1>7. Reads(r, 1, Tag.Integer) /\ toInt(readInteger(r, 1)) = d.version
  BY <1>1, <1>6, ReadsInteger
<1>8. Reads(r, 2, str) /\ octets(r, 2) = d.dn
  <2>0. str \notin {Tag.Integer, Tag.Enumerated, Tag.Boolean}
    BY TagValues
  <2> HIDE DEF str
  <2> QED BY <1>6, <2>0, ReadsElement
<1>9. ReadsAll(r, <<Tag.Integer, str>>)
  BY <1>7, <1>8 DEF ReadsAll
<1>10. r.items[3].tag = t /\ octets(r, 3) = p
  BY <1>6 DEF El, octets
<1>11. ~(~ReadsAll(r, <<Tag.Integer, str>>) \/ Len(r.items) < 3)
  BY <1>6, <1>9
<1>12. CASE d.simple
  <2>1. decodeBindRequest(r) = {dd(TRUE, octets(r, 3), << >>, << >>)}
    BY <1>10, <1>11, <1>12 DEF decodeBindRequest
  <2>2. decodeBindRequest(r) = {d}
    BY <1>1, <1>7, <1>8, <1>10, <1>12, <2>1
  <2> QED BY <1>4, <2>2 DEF Whole, c, r
<1>13. CASE ~d.simple
  <2> DEFINE sasl == Elements[v]
             x == IF d.credentials = << >> THEN << >> ELSE <<El(str, d.credentials)>>
             m == El(str, d.mechanism)
  <2>1. Whole(v, <<m>> \o x)
    <3>1. Whole(writeOptional(str, d.credentials), x)
      BY <1>1, TagOctets, WholeOptional
    <3> HIDE DEF x
    <3> QED BY <1>1, <3>1, TagOctets, WholeCons DEF writeOctetString
  <2>2. inner(r, 3) = sasl
    BY <1>10, <1>13 DEF inner
  <2> HIDE DEF v, sasl
  <2>3. sasl.items = <<m>> \o x /\ sasl.rest = << >>
    BY <2>1 DEF Whole, sasl
  <2>4. r.items[3].tag = FieldTag.SaslAuth /\ FieldTag.SaslAuth # Tag.SimpleAuth
    BY <1>10, <1>13, TagValues
  <2>5. decodeBindRequest(r) =
          IF ~Reads(sasl, 1, str) THEN {}
          ELSE IF atEnd(sasl, 1) THEN {dd(FALSE, << >>, octets(sasl, 1), << >>)}
          ELSE Decoded(Reads(sasl, 2, str), dd(FALSE, << >>, octets(sasl, 1), octets(sasl, 2)))
    BY <1>11, <2>2, <2>4 DEF decodeBindRequest
  <2>6. str \notin {Tag.Integer, Tag.Enumerated, Tag.Boolean}
    BY TagValues
  <2> HIDE DEF str
  <2>7. CASE d.credentials = << >>
    <3>1. sasl.items = <<m>>
      BY <2>3, <2>7
    <3>2. Len(sasl.items) = 1 /\ sasl.items[1] = m
      BY <3>1
    <3>3. Reads(sasl, 1, str) /\ octets(sasl, 1) = d.mechanism
      BY <2>6, <3>2, ReadsElement
    <3>4. atEnd(sasl, 1)
      BY <2>3, <3>2 DEF atEnd
    <3>5. decodeBindRequest(r) = {dd(FALSE, << >>, d.mechanism, << >>)}
      BY <2>5, <3>3, <3>4
    <3>6. decodeBindRequest(r) = {d}
      BY <1>1, <1>7, <1>8, <1>13, <2>7, <3>5
    <3> QED BY <1>4, <3>6 DEF Whole, c, r
  <2>8. CASE d.credentials # << >>
    <3> DEFINE k == El(str, d.credentials)
    <3>1. sasl.items = <<m>> \o <<k>>
      BY <2>3, <2>8
    <3>2. Len(sasl.items) = 2 /\ sasl.items[1] = m /\ sasl.items[2] = k
      BY <3>1
    <3>3. Reads(sasl, 1, str) /\ octets(sasl, 1) = d.mechanism
      BY <2>6, <3>2, ReadsElement
    <3>4. Reads(sasl, 2, str) /\ octets(sasl, 2) = d.credentials
      BY <2>6, <3>2, ReadsElement
    <3>5. ~atEnd(sasl, 1)
      BY <3>2 DEF atEnd
    <3>6. decodeBindRequest(r) = {dd(FALSE, << >>, d.mechanism, d.credentials)}
      BY <2>5, <3>3, <3>4, <3>5 DEF Decoded
    <3>7. decodeBindRequest(r) = {d}
      BY <1>1, <1>7, <1>8, <1>13, <3>6
    <3> QED BY <1>4, <3>7 DEF Whole, c, r
  <2> QED BY <2>7, <2>8
<1> QED BY <1>12, <1>13

-----------------------------------------------------------------------------
\* The last part of a tag, if there is one or none.
LEMMA LastPartIs ==
  ASSUME NEW r, NEW tag
  PROVE  /\ (\A i \in DOMAIN r.items : r.items[i].tag # tag) => LastPart(r, tag) = << >>
         /\ \A k \in DOMAIN r.items :
              /\ k \in Int /\ r.items[k].tag = tag
              /\ \A i \in DOMAIN r.items : r.items[i].tag = tag => i = k
              => LastPart(r, tag) = r.items[k].content
<1> DEFINE of == {i \in DOMAIN r.items : r.items[i].tag = tag}
<1>1. LastPart(r, tag) = IF of = {} THEN << >> ELSE r.items[Max(of)].content
  BY DEF LastPart
<1>2. (\A i \in DOMAIN r.items : r.items[i].tag # tag) => of = {}
  OBVIOUS
<1>3. ASSUME NEW k \in DOMAIN r.items, k \in Int, r.items[k].tag = tag,
             \A i \in DOMAIN r.items : r.items[i].tag = tag => i = k
      PROVE  LastPart(r, tag) = r.items[k].content
  <2>1. of = {k}
    BY <1>3
  <2> HIDE DEF of
  <2>2. Max(of) = k
    BY <1>3, <2>1 DEF Max
  <2> QED BY <1>1, <2>1, <2>2
<1> HIDE DEF of
<1> QED BY <1>1, <1>2, <1>3

\* The fields of a result, by the operation that it answers.
ResultData(op) ==
  {d \in [result : {n \in Int32 : n \in 0..255}, matched : Strings, diagnostic : Strings,
          creds : Strings, oid : Strings, value : Strings] :
     /\ op # "BindResponse" => d.creds = << >>
     /\ op # "ExtendedResponse" => d.oid = << >> /\ d.value = << >>}

\* The optional parts of a result.
PartsOf(op, d) ==
  IF op = "BindResponse" THEN (IF d.creds = << >> THEN << >> ELSE <<El(FieldTag.ServerSaslCreds, d.creds)>>)
  ELSE IF op # "ExtendedResponse" \/ (d.oid = << >> /\ d.value = << >>) THEN << >>
  ELSE IF d.oid = << >> THEN <<El(FieldTag.ResponseValue, d.value)>>
  ELSE <<El(FieldTag.ResponseName, d.oid), El(FieldTag.ResponseValue, d.value)>>
Optional(op, d) ==
     (IF op = "BindResponse" THEN writeOptional(FieldTag.ServerSaslCreds, d.creds) ELSE << >>)
  \o (IF op = "ExtendedResponse" /\ (d.oid # << >> \/ d.value # << >>)
      THEN writeOptional(FieldTag.ResponseName, d.oid) \o write(FieldTag.ResponseValue, d.value)
      ELSE << >>)

\* The empty sequence before and behind another.
LEMMA EmptyBefore ==
  ASSUME NEW S, NEW s \in Seq(S)
  PROVE  << >> \o s = s /\ s \o << >> = s
OBVIOUS

\* The optional parts are written as these elements.
LEMMA OptionalWhole ==
  ASSUME NEW op, NEW d \in ResultData(op)
  PROVE  Whole(Optional(op, d), PartsOf(op, d))
<1>1. Fit(d.creds) /\ Fit(d.oid) /\ Fit(d.value)
  BY StringsFit DEF ResultData
<1>2. CASE op = "BindResponse"
  <2> DEFINE w == writeOptional(FieldTag.ServerSaslCreds, d.creds)
  <2>1. Whole(w, PartsOf(op, d))
    BY <1>1, <1>2, TagOctets, WholeOptional DEF PartsOf
  <2>2. Optional(op, d) = w \o << >>
    BY <1>2 DEF Optional
  <2> HIDE DEF w
  <2>3. w \in Seq(Octets)
    BY <2>1 DEF Whole
  <2>4. w \o << >> = w
    BY <2>3, EmptyBefore
  <2> QED BY <2>1, <2>2, <2>4
<1>3. CASE op # "BindResponse" /\ (op # "ExtendedResponse" \/ (d.oid = << >> /\ d.value = << >>))
  <2>1. Optional(op, d) = << >> \o << >> /\ PartsOf(op, d) = << >>
    BY <1>3 DEF Optional, PartsOf
  <2>2. << >> \o << >> = << >>
    OBVIOUS
  <2> QED BY <2>1, <2>2, WholeNone
<1>4. CASE op = "ExtendedResponse" /\ ~(d.oid = << >> /\ d.value = << >>)
  <2> DEFINE n == writeOptional(FieldTag.ResponseName, d.oid)
             w == write(FieldTag.ResponseValue, d.value)
             a == El(FieldTag.ResponseName, d.oid)
             b == El(FieldTag.ResponseValue, d.value)
  <2>1. Whole(w, <<b>>) /\ w \in Seq(Octets)
    BY <1>1, TagOctets, WholeOne
  <2>2. Optional(op, d) = << >> \o (n \o w)
    BY <1>4 DEF Optional
  <2>3. n \in Seq(Octets)
    BY <1>1, TagOctets, WholeOptional DEF Whole
  <2>4. Optional(op, d) = n \o w
    <3> HIDE DEF n, w
    <3>1. n \o w \in Seq(Octets)
      BY <2>1, <2>3
    <3> QED BY <2>2, <3>1, EmptyBefore
  <2>5. CASE d.oid = << >>
    <3>1. n = << >> /\ PartsOf(op, d) = <<b>>
      BY <1>4, <2>5 DEF writeOptional, PartsOf
    <3>2. n \o w = w
      <4> HIDE DEF w
      <4> QED BY <2>1, <3>1, EmptyBefore
    <3> QED BY <2>1, <2>4, <3>1, <3>2
  <2>6. CASE d.oid # << >>
    <3>1. n = write(FieldTag.ResponseName, d.oid) /\ PartsOf(op, d) = <<a, b>>
      BY <1>4, <2>6 DEF writeOptional, PartsOf
    <3>2. Whole(write(FieldTag.ResponseName, d.oid) \o w, <<a, b>>)
      BY <1>1, TagOctets, WholeTwo, WholeNone
    <3> QED BY <2>4, <3>1, <3>2
  <2> QED BY <2>5, <2>6
<1> QED BY <1>2, <1>3, <1>4

\* The optional parts are found by their tags.
LEMMA PartsFound ==
  ASSUME NEW op, NEW d \in ResultData(op), NEW r, r.items = PartsOf(op, d)
  PROVE  /\ LastPart(r, FieldTag.ServerSaslCreds) = d.creds
         /\ LastPart(r, FieldTag.ResponseName) = d.oid
         /\ LastPart(r, FieldTag.ResponseValue) = d.value
<1> DEFINE A == FieldTag.ServerSaslCreds
           N == FieldTag.ResponseName
           V == FieldTag.ResponseValue
<1>0. A # N /\ A # V /\ N # V
  BY TagValues
<1> HIDE DEF A, N, V
<1>00. /\ op # "BindResponse" => d.creds = << >>
       /\ op # "ExtendedResponse" => d.oid = << >> /\ d.value = << >>
  BY DEF ResultData
<1>1. ASSUME r.items = << >>, NEW tag PROVE LastPart(r, tag) = << >>
  <2>1. DOMAIN r.items = {}
    BY <1>1
  <2> QED BY <2>1, LastPartIs
<1>2. ASSUME NEW t, NEW c, r.items = <<El(t, c)>>
      PROVE  LastPart(r, t) = c /\ \A tag : tag # t => LastPart(r, tag) = << >>
  <2>1. DOMAIN r.items = {1} /\ r.items[1].tag = t /\ r.items[1].content = c
    BY <1>2 DEF El
  <2>2. LastPart(r, t) = c
    BY <2>1, LastPartIs
  <2>3. ASSUME NEW tag, tag # t PROVE LastPart(r, tag) = << >>
    BY <2>1, <2>3, LastPartIs
  <2> QED BY <2>2, <2>3
<1>3. CASE PartsOf(op, d) = << >>
  <2>1. d.creds = << >> /\ d.oid = << >> /\ d.value = << >>
    BY <1>00, <1>3 DEF PartsOf
  <2> QED BY <1>1, <1>3, <2>1
<1>4. CASE op = "BindResponse" /\ d.creds # << >>
  <2>1. r.items = <<El(A, d.creds)>> /\ d.oid = << >> /\ d.value = << >>
    BY <1>00, <1>4 DEF PartsOf, A
  <2>2. LastPart(r, A) = d.creds /\ LastPart(r, N) = << >> /\ LastPart(r, V) = << >>
    BY <1>0, <1>2, <2>1
  <2> QED BY <2>1, <2>2 DEF A, N, V
<1>5. CASE op = "ExtendedResponse" /\ d.oid = << >> /\ d.value # << >>
  <2>1. r.items = <<El(V, d.value)>> /\ d.creds = << >>
    BY <1>00, <1>5 DEF PartsOf, V
  <2>2. LastPart(r, V) = d.value /\ LastPart(r, N) = << >> /\ LastPart(r, A) = << >>
    BY <1>0, <1>2, <2>1
  <2> QED BY <1>5, <2>1, <2>2 DEF A, N, V
<1>6. CASE op = "ExtendedResponse" /\ d.oid # << >>
  <2>1. r.items = <<El(N, d.oid), El(V, d.value)>> /\ d.creds = << >>
    BY <1>00, <1>6 DEF PartsOf, V, N
  <2>2. /\ DOMAIN r.items = {1, 2} /\ r.items[1].tag = N /\ r.items[1].content = d.oid
        /\ r.items[2].tag = V /\ r.items[2].content = d.value
    BY <2>1 DEF El
  <2>3. LastPart(r, A) = << >>
    BY <1>0, <2>2, LastPartIs
  <2>4. LastPart(r, N) = d.oid
    <3>1. 1 \in DOMAIN r.items /\ 1 \in Int /\ \A i \in DOMAIN r.items : r.items[i].tag = N => i = 1
      BY <1>0, <2>2
    <3> QED BY <2>2, <3>1, LastPartIs
  <2>5. LastPart(r, V) = d.value
    <3>1. 2 \in DOMAIN r.items /\ 2 \in Int /\ \A i \in DOMAIN r.items : r.items[i].tag = V => i = 2
      BY <1>0, <2>2
    <3> QED BY <2>2, <3>1, LastPartIs
  <2> QED BY <2>1, <2>3, <2>4, <2>5 DEF A, N, V
<1>7. \/ PartsOf(op, d) = << >>
      \/ op = "BindResponse" /\ d.creds # << >>
      \/ op = "ExtendedResponse" /\ d.oid = << >> /\ d.value # << >>
      \/ op = "ExtendedResponse" /\ d.oid # << >>
  BY DEF PartsOf
<1> QED BY <1>3, <1>4, <1>5, <1>6, <1>7

\* A result is read back, whatever optional parts it has.
LEMMA ResultReadBack ==
  ASSUME NEW op, NEW d \in ResultData(op)
  PROVE  /\ encodeResult(op, d) \in Seq(Octets)
         /\ decodeResult(Elements[encodeResult(op, d)]) = {d}
<1> DEFINE c == encodeResult(op, d)
           r == Elements[c]
           str == Tag.OctetString
           x == PartsOf(op, d)
           opt2 == Optional(op, d)
           v == encodeInteger(d.result)
           e1 == El(Tag.Enumerated, v)
           e2 == El(str, d.matched)
           e3 == El(str, d.diagnostic)
           w == write(Tag.Enumerated, v) \o write(str, d.matched) \o write(str, d.diagnostic)
<1>1. /\ Fit(d.matched) /\ Fit(d.diagnostic) /\ d.result \in Int32 /\ d.result \in 0..255
      /\ d = [result |-> d.result, matched |-> d.matched, diagnostic |-> d.diagnostic,
              creds |-> d.creds, oid |-> d.oid, value |-> d.value]
  BY StringsFit DEF ResultData
<1>2. Fit(v)
  BY <1>1, IntegerContent DEF Fit
<1>3. Whole(opt2, x)
  BY OptionalWhole
<1>4. c = w \o opt2
  <2> DEFINE A == IF op = "BindResponse" THEN writeOptional(FieldTag.ServerSaslCreds, d.creds) ELSE << >>
             B == IF op = "ExtendedResponse" /\ (d.oid # << >> \/ d.value # << >>)
                  THEN writeOptional(FieldTag.ResponseName, d.oid) \o write(FieldTag.ResponseValue, d.value)
                  ELSE << >>
  <2>1. c = w \o A \o B
    BY DEF encodeResult, writeEnumerated, writeOctetString
  <2>2. opt2 = A \o B
    BY DEF Optional
  <2>3. w \in Seq(Octets)
    BY <1>1, <1>2, TagOctets, WholeThree, WholeNone DEF Whole
  <2>4. Fit(d.creds) /\ Fit(d.oid) /\ Fit(d.value)
    BY StringsFit DEF ResultData
  <2>5. << >> \in Seq(Octets)
    OBVIOUS
  <2>6. A \in Seq(Octets)
    <3>1. writeOptional(FieldTag.ServerSaslCreds, d.creds) \in Seq(Octets)
      BY <2>4, TagOctets, WholeOptional DEF Whole
    <3> QED BY <2>5, <3>1
  <2>7. B \in Seq(Octets)
    <3>1. writeOptional(FieldTag.ResponseName, d.oid) \in Seq(Octets)
      BY <2>4, TagOctets, WholeOptional DEF Whole
    <3>2. write(FieldTag.ResponseValue, d.value) \in Seq(Octets)
      BY <2>4, TagOctets, WholeOne
    <3>3. writeOptional(FieldTag.ResponseName, d.oid) \o write(FieldTag.ResponseValue, d.value) \in Seq(Octets)
      BY <3>1, <3>2
    <3> QED BY <2>5, <3>3
  <2> HIDE DEF A, B, w
  <2> QED BY <2>1, <2>2, <2>3, <2>6, <2>7, Associates
<1> HIDE DEF c, opt2, x, v
<1>5. Whole(c, <<e1, e2, e3>> \o x)
  BY <1>1, <1>2, <1>3, <1>4, TagOctets, WholeThree
<1>6. r.items = <<e1, e2, e3>> \o x /\ r.rest = << >> /\ x \in Seq(TagAndContent)
  BY <1>3, <1>5 DEF Whole
<1>7. e1 \in TagAndContent /\ e2 \in TagAndContent /\ e3 \in TagAndContent
  BY <1>1, <1>2, TagOctets DEF El, TagAndContent, Fit
<1> HIDE DEF r, e1, e2, e3, w
<1>8. /\ r.items \in Seq(TagAndContent) /\ Len(r.items) = 3 + Len(x) /\ Len(x) \in Nat
      /\ r.items[1] = e1 /\ r.items[2] = e2 /\ r.items[3] = e3 /\ \A i \in 1..Len(x) : r.items[3 + i] = x[i]
  BY <1>6, <1>7
<1>81. Len(r.items) \in Nat /\ Len(r.items) >= 1 /\ Len(r.items) >= 2 /\ Len(r.items) >= 3
  BY <1>8
<1>82. r.items[1] = e1 /\ r.items[2] = e2 /\ r.items[3] = e3
  BY <1>8
<1>9. Reads(r, 1, Tag.Enumerated) /\ readEnumerated(r, 1) = d.result
  <2>1. d.result >= 0 /\ r.items[1] = El(Tag.Enumerated, encodeInteger(d.result))
    BY <1>1, <1>82 DEF e1, v
  <2> QED BY <1>1, <1>81, <2>1, ReadsInteger
<1>10. Reads(r, 2, str) /\ octets(r, 2) = d.matched /\ Reads(r, 3, str) /\ octets(r, 3) = d.diagnostic
  <2>0. str \notin {Tag.Integer, Tag.Enumerated, Tag.Boolean}
    BY TagValues
  <2> HIDE DEF str
  <2>1. Reads(r, 2, str) /\ octets(r, 2) = d.matched
    BY <1>81, <1>82, <2>0, ReadsElement DEF e2
  <2>2. Reads(r, 3, str) /\ octets(r, 3) = d.diagnostic
    BY <1>81, <1>82, <2>0, ReadsElement DEF e3
  <2> QED BY <2>1, <2>2
<1>11. ReadsAll(r, <<Tag.Enumerated, str, str>>)
  BY <1>9, <1>10 DEF ReadsAll
<1> DEFINE extra == [items |-> SubSeq(r.items, 4, Len(r.items))]
<1>12. extra.items = x
  <2> DEFINE q == SubSeq(r.items, 4, Len(r.items))
  <2>1. q \in Seq(TagAndContent) /\ Len(q) = Len(x) /\ \A i \in 1..Len(x) : q[i] = r.items[3 + i]
    BY <1>8
  <2> HIDE DEF q
  <2>2. \A i \in 1..Len(x) : q[i] = x[i]
    BY <1>8, <2>1
  <2>3. q = [i \in 1..Len(x) |-> q[i]] /\ x = [i \in 1..Len(x) |-> x[i]]
    BY <1>6, <1>8, <2>1
  <2>4. q = x
    BY <2>2, <2>3
  <2> QED BY <2>4 DEF q
<1>13. /\ LastPart(extra, FieldTag.ServerSaslCreds) = d.creds
       /\ LastPart(extra, FieldTag.ResponseName) = d.oid
       /\ LastPart(extra, FieldTag.ResponseValue) = d.value
  <2> HIDE DEF extra
  <2> QED BY <1>12, PartsFound DEF x
<1>14. d.result % 256 = d.result
  BY <1>1
<1>15. decodeResult(r) = {[result |-> d.result, matched |-> d.matched, diagnostic |-> d.diagnostic,
                           creds |-> d.creds, oid |-> d.oid, value |-> d.value]}
  BY <1>6, <1>9, <1>10, <1>11, <1>13, <1>14 DEF decodeResult, Decoded
<1> QED BY <1>1, <1>5, <1>15 DEF Whole, c, r

-----------------------------------------------------------------------------
(* Lists of any length.                                                    *)

\* FlattenSeq, one sequence after the other.
LEMMA FlattenIs ==
  ASSUME NEW ws \in Seq(Seq(Octets))
  PROVE  \E f \in [0..Len(ws) -> Seq(Octets)] :
           /\ f[0] = << >> /\ \A k \in 1..Len(ws) : f[k] = f[k - 1] \o ws[k]
           /\ FlattenSeq(ws) = f[Len(ws)]
<1> DEFINE n == Len(ws)
           X == Seq(Octets)
           G == [p \in (1..n) \X X |-> p[2] \o ws[p[1]]]
           Is(f) == f = [i \in 1..n |-> IF i = 1 THEN ws[i] ELSE f[i - 1] \o ws[i]]
           r == CHOOSE f : Is(f)
<1>1. n \in Nat /\ \A i \in 1..n : ws[i] \in X
  OBVIOUS
<1>2. << >> \in X /\ \A p, q \in X : p \o q \in X
  OBVIOUS
<1>3. \A p \in X : << >> \o p = p
  OBVIOUS
<1>4. FlattenSeq(ws) = IF n = 0 THEN ws ELSE r[n]
  BY DEF FlattenSeq
<1>5. n = 0 => ws = << >>
  OBVIOUS
<1> HIDE DEF n, X
<1>6. G \in [(1..n) \X X -> X] /\ \A k \in 1..n, x \in X : G[<<k, x>>] = x \o ws[k]
  BY <1>1, <1>2
<1> HIDE DEF G
<1>7. PICK f \in [0..n -> X] : f[0] = << >> /\ \A k \in 1..n : f[k] = G[<<k, f[k - 1]>>]
  <2>1. Loops(X, << >>, G, n)
    BY <1>1, <1>2, <1>6, LoopRuns
  <2> QED BY <2>1 DEF Loops
<1>8. ASSUME NEW k \in 1..n PROVE f[k] = f[k - 1] \o ws[k]
  <2>1. k - 1 \in 0..n
    BY <1>1
  <2>2. f[k - 1] \in X /\ f[k] = G[<<k, f[k - 1]>>]
    BY <1>7, <2>1
  <2>3. G[<<k, f[k - 1]>>] = f[k - 1] \o ws[k]
    BY <1>6, <2>2
  <2> QED BY <2>2, <2>3
<1> DEFINE g == [i \in 1..n |-> f[i]]
           body(h, i) == IF i = 1 THEN ws[i] ELSE h[i - 1] \o ws[i]
<1>9. ASSUME NEW i \in 1..n PROVE g[i] = body(g, i)
  <2>1. g[i] = f[i - 1] \o ws[i]
    BY <1>8
  <2>2. CASE i = 1
    <3>1. f[i - 1] = << >>
      BY <1>7, <2>2
    <3> QED BY <1>1, <1>3, <2>1, <2>2, <3>1
  <2>3. CASE i # 1
    <3>1. i - 1 \in 1..n
      BY <1>1, <2>3
    <3>2. g[i - 1] = f[i - 1]
      BY <3>1
    <3> QED BY <2>1, <2>3, <3>2
  <2> QED BY <2>2, <2>3
<1>10. Is(g)
  <2>1. g = [i \in 1..n |-> g[i]]
    OBVIOUS
  <2>2. g = [i \in 1..n |-> body(g, i)]
    <3> HIDE DEF g, body
    <3> QED BY <1>9, <2>1
  <2> QED BY <2>2
<1>11. Is(r)
  <2> HIDE DEF Is
  <2> QED BY <1>10
<1>12. \A i \in 1..n : r[i] = body(r, i)
  <2> HIDE DEF r
  <2> QED BY <1>11
<1> HIDE DEF r, g
<1>13. ASSUME NEW k \in 0..n PROVE k # 0 => r[k] = f[k]
  <2> DEFINE T == {j \in 0..n : j # 0 => r[j] = f[j]}
  <2>1. 0 \in T
    BY <1>1
  <2>2. ASSUME NEW j \in 1..n, j - 1 \in T PROVE j \in T
    <3>1. CASE j = 1
      <4>0. j - 1 = 0 /\ r[j] = body(r, j)
        BY <1>12, <3>1
      <4>1. r[j] = ws[j] /\ f[j] = f[j - 1] \o ws[j] /\ f[j - 1] = << >>
        <5>1. f[j - 1] = << >>
          BY <1>7, <4>0
        <5>2. f[j] = f[j - 1] \o ws[j]
          BY <1>8
        <5> QED BY <3>1, <4>0, <5>1, <5>2
      <4>2. r[j] = f[j]
        BY <1>1, <1>3, <4>1
      <4> QED BY <1>1, <4>2
    <3>2. CASE j # 1
      <4>1. r[j] = r[j - 1] \o ws[j] /\ f[j] = f[j - 1] \o ws[j]
        BY <1>8, <1>12, <3>2
      <4>2. r[j - 1] = f[j - 1]
        BY <2>2, <3>2
      <4>3. r[j] = f[j]
        BY <4>1, <4>2
      <4>4. j \in 0..n
        BY <1>1
      <4> QED BY <4>3, <4>4
    <3> QED BY <3>1, <3>2
  <2> HIDE DEF T
  <2>3. 0..n \subseteq T
    BY <1>1, <2>1, <2>2, CountUp
  <2> QED BY <2>3 DEF T
<1>14. FlattenSeq(ws) = f[n]
  <2>1. n \in 0..n
    BY <1>1
  <2> QED BY <1>4, <1>5, <1>7, <1>13, <2>1
<1> QED BY <1>7, <1>8, <1>14 DEF n, X

\* Elements that are written after each other are read back, each as it was.
LEMMA ListWhole ==
  ASSUME NEW e \in Seq(TagAndContent), \A i \in 1..Len(e) : Short(Len(e[i].content)),
         NEW ws, ws = [i \in DOMAIN e |-> write(e[i].tag, e[i].content)]
  PROVE  Whole(FlattenSeq(ws), e)
<1> DEFINE n == Len(e)
<1>1. n \in Nat /\ DOMAIN e = 1..n /\ \A i \in 1..n : e[i] \in TagAndContent
  OBVIOUS
<1>2. ASSUME NEW i \in 1..n
      PROVE  /\ e[i].tag \in Octets /\ Fit(e[i].content) /\ e[i] = El(e[i].tag, e[i].content)
             /\ ws[i] = write(e[i].tag, e[i].content) /\ ws[i] \in Seq(Octets)
  <2>1. e[i].tag \in Octets /\ e[i].content \in Seq(Octets) /\ e[i] = [tag |-> e[i].tag, content |-> e[i].content]
    BY <1>1 DEF TagAndContent
  <2>2. Fit(e[i].content)
    BY <2>1 DEF Fit
  <2>3. ws[i] = write(e[i].tag, e[i].content)
    BY <1>1
  <2> QED BY <2>1, <2>2, <2>3, WholeOne DEF El
<1>3. ws \in Seq(Seq(Octets)) /\ Len(ws) = n
  <2>1. ws = [i \in 1..n |-> ws[i]]
    BY <1>1
  <2>2. \A i \in 1..n : ws[i] \in Seq(Octets)
    BY <1>2
  <2> HIDE DEF n
  <2> QED BY <1>1, <2>1, <2>2
<1>4. PICK f \in [0..n -> Seq(Octets)] :
        /\ f[0] = << >> /\ \A k \in 1..n : f[k] = f[k - 1] \o ws[k]
        /\ FlattenSeq(ws) = f[n]
  BY <1>3, FlattenIs
<1> DEFINE Cut(k) == SubSeq(e, 1, k)
           T == {k \in 0..n : \A more \in Seq(Octets), x \in Seq(TagAndContent) :
                                Whole(more, x) => Whole(f[k] \o more, Cut(k) \o x)}
<1>5. 0 \in T
  <2>1. Cut(0) = << >>
    OBVIOUS
  <2>2. ASSUME NEW more \in Seq(Octets), NEW x \in Seq(TagAndContent), Whole(more, x)
        PROVE  Whole(f[0] \o more, Cut(0) \o x)
    <3>1. << >> \o more = more /\ << >> \o x = x
      BY EmptyBefore
    <3> QED BY <1>4, <2>1, <2>2, <3>1
  <2> QED BY <1>1, <2>2
<1>6. ASSUME NEW k \in 1..n, k - 1 \in T PROVE k \in T
  <2>0. k - 1 \in 0..n /\ k \in 0..n
    BY <1>1
  <2>1. Cut(k) = Cut(k - 1) \o <<e[k]>> /\ Cut(k - 1) \in Seq(TagAndContent)
    <3> HIDE DEF n
    <3>1. e \in Seq(TagAndContent) /\ Len(e) = n
      BY DEF n
    <3>2. Cut(k) \in Seq(TagAndContent) /\ Len(Cut(k)) = k /\ \A i \in 1..k : Cut(k)[i] = e[i]
      BY <1>1, <3>1
    <3>3. Cut(k - 1) \in Seq(TagAndContent) /\ Len(Cut(k - 1)) = k - 1 /\ \A i \in 1..(k - 1) : Cut(k - 1)[i] = e[i]
      BY <1>1, <3>1
    <3> DEFINE q == Cut(k - 1) \o <<e[k]>>
    <3> HIDE DEF Cut
    <3>4. q \in Seq(TagAndContent) /\ Len(q) = k /\ (\A i \in 1..(k - 1) : q[i] = Cut(k - 1)[i]) /\ q[k] = e[k]
      BY <1>1, <3>3
    <3>5. ASSUME NEW i \in 1..k PROVE q[i] = e[i]
      <4>1. CASE i = k
        BY <3>4, <4>1
      <4>2. CASE i # k
        <5>1. i \in 1..(k - 1)
          BY <4>2
        <5> QED BY <3>3, <3>4, <5>1
      <4> QED BY <4>1, <4>2
    <3> HIDE DEF q
    <3>6. Cut(k) = [i \in 1..k |-> Cut(k)[i]] /\ q = [i \in 1..k |-> q[i]]
      BY <3>2, <3>4
    <3>7. Cut(k) = q
      BY <3>2, <3>5, <3>6
    <3> QED BY <3>3, <3>7 DEF q
  <2> HIDE DEF Cut
  <2>2. ASSUME NEW more \in Seq(Octets), NEW x \in Seq(TagAndContent), Whole(more, x)
        PROVE  Whole(f[k] \o more, Cut(k) \o x)
    <3>1. Whole(ws[k] \o more, <<e[k]>> \o x)
      BY <1>2, <2>2, WholeCons
    <3>2. ws[k] \o more \in Seq(Octets) /\ <<e[k]>> \o x \in Seq(TagAndContent)
      BY <3>1 DEF Whole
    <3>3. Whole(f[k - 1] \o (ws[k] \o more), Cut(k - 1) \o (<<e[k]>> \o x))
      BY <1>6, <3>1, <3>2
    <3>4. f[k - 1] \in Seq(Octets) /\ ws[k] \in Seq(Octets) /\ <<e[k]>> \in Seq(TagAndContent)
      <4>1. f[k - 1] \in Seq(Octets)
        BY <1>4, <2>0
      <4>2. ws[k] \in Seq(Octets) /\ e[k] \in TagAndContent
        BY <1>1, <1>2
      <4> QED BY <4>1, <4>2
    <3>5. f[k - 1] \o (ws[k] \o more) = f[k - 1] \o ws[k] \o more
      <4> DEFINE a == f[k - 1]
                 b == ws[k]
      <4>1. a \in Seq(Octets) /\ b \in Seq(Octets)
        BY <3>4
      <4> HIDE DEF a, b
      <4>2. a \o (b \o more) = a \o b \o more
        BY <4>1
      <4> QED BY <4>2 DEF a, b
    <3>6. Cut(k - 1) \o (<<e[k]>> \o x) = Cut(k - 1) \o <<e[k]>> \o x
      <4> DEFINE a == Cut(k - 1)
                 b == <<e[k]>>
      <4>1. a \in Seq(TagAndContent) /\ b \in Seq(TagAndContent)
        BY <2>1, <3>4
      <4> HIDE DEF a, b
      <4>2. a \o (b \o x) = a \o b \o x
        BY <4>1, Associates
      <4> QED BY <4>2 DEF a, b
    <3>7. f[k] = f[k - 1] \o ws[k]
      BY <1>4
    <3> QED BY <2>1, <3>3, <3>5, <3>6, <3>7
  <2> QED BY <2>0, <2>2
<1>7. 0..n \subseteq T
  <2> HIDE DEF T
  <2> QED BY <1>1, <1>5, <1>6, CountUp
<1>8. n \in T
  BY <1>1, <1>7
<1>9. Whole(f[n] \o << >>, Cut(n) \o << >>)
  <2>1. << >> \in Seq(Octets) /\ << >> \in Seq(TagAndContent)
    OBVIOUS
  <2> HIDE DEF Cut
  <2> QED BY <1>8, <2>1, WholeNone
<1>10. Cut(n) = e
  OBVIOUS
<1>11. f[n] \o << >> = f[n] /\ e \o << >> = e
  <2>1. f[n] \in Seq(Octets)
    <3>1. n \in 0..n
      BY <1>1
    <3> HIDE DEF n
    <3> QED BY <1>4, <3>1
  <2> QED BY <2>1, EmptyBefore
<1> QED BY <1>4, <1>9, <1>10, <1>11

\* The elements of a list whose members are written under one tag.
Els(tag, cs) == [i \in DOMAIN cs |-> El(tag, cs[i])]

\* A reader over such a list has these elements.
LEMMA ElsWhole ==
  ASSUME NEW tag \in Octets, NEW cs \in Seq(Strings), NEW ws, ws = [i \in DOMAIN cs |-> write(tag, cs[i])]
  PROVE  Whole(FlattenSeq(ws), Els(tag, cs))
<1> DEFINE e == Els(tag, cs)
           n == Len(cs)
<1>1. n \in Nat /\ DOMAIN cs = 1..n /\ \A i \in 1..n : cs[i] \in Strings
  OBVIOUS
<1>2. e = [i \in 1..n |-> El(tag, cs[i])]
  BY <1>1 DEF Els
<1>3. ASSUME NEW i \in 1..n PROVE El(tag, cs[i]) \in TagAndContent /\ Short(Len(cs[i])) /\ e[i].tag = tag /\ e[i].content = cs[i]
  BY <1>1, <1>2 DEF TagAndContent, El, Strings
<1> HIDE DEF e, n
<1>4. e \in Seq(TagAndContent) /\ Len(e) = n /\ DOMAIN e = 1..n
  BY <1>1, <1>2, <1>3
<1>5. ws = [i \in DOMAIN e |-> write(e[i].tag, e[i].content)]
  BY <1>1, <1>3, <1>4
<1>6. \A i \in 1..Len(e) : Short(Len(e[i].content))
  BY <1>3, <1>4
<1> QED BY <1>4, <1>5, <1>6, ListWhole DEF e

\* It reads them to the end, each as it is.
LEMMA ListRead ==
  ASSUME NEW r, NEW tag, NEW cs \in Seq(Seq(Octets)), r.items = Els(tag, cs), r.rest = << >>,
         tag \notin {Tag.Integer, Tag.Enumerated, Tag.Boolean}
  PROVE  /\ ReadsToEnd(r, tag) /\ Contents(r) = cs /\ DOMAIN r.items = DOMAIN cs
         /\ \A i \in DOMAIN cs : octets(r, i) = cs[i] /\ inner(r, i) = Elements[cs[i]]
<1> DEFINE n == Len(cs)
<1>1. n \in Nat /\ DOMAIN cs = 1..n /\ cs = [i \in 1..n |-> cs[i]]
  OBVIOUS
<1>2. r.items = [i \in 1..n |-> El(tag, cs[i])] /\ DOMAIN r.items = 1..n
  BY <1>1 DEF Els
<1> HIDE DEF n
<1>3. Len(r.items) = n
  BY <1>1, <1>2
<1>4. ASSUME NEW i \in 1..n
      PROVE  Reads(r, i, tag) /\ octets(r, i) = cs[i] /\ inner(r, i) = Elements[cs[i]] /\ r.items[i].content = cs[i]
  <2>1. r.items[i].tag = tag /\ r.items[i].content = cs[i]
    BY <1>2 DEF El
  <2>2. i <= Len(r.items)
    BY <1>1, <1>3
  <2> QED BY <2>1, <2>2 DEF Reads, octets, inner
<1>5. Contents(r) = [i \in 1..n |-> cs[i]]
  BY <1>2, <1>4 DEF Contents
<1>6. ReadsToEnd(r, tag)
  BY <1>2, <1>4 DEF ReadsToEnd
<1> QED BY <1>1, <1>2, <1>4, <1>5, <1>6

\* The content of a list of strings.
ValueList(vs) == writeEach(vs, writeOctetString)

\* The values are read back, in their order.
LEMMA ValuesReadBack ==
  ASSUME NEW vs \in Seq(Strings)
  PROVE  /\ Whole(ValueList(vs), Els(Tag.OctetString, vs))
         /\ ReadsToEnd(Elements[ValueList(vs)], Tag.OctetString) /\ Contents(Elements[ValueList(vs)]) = vs
<1> DEFINE ws == [i \in DOMAIN vs |-> write(Tag.OctetString, vs[i])]
           r == Elements[ValueList(vs)]
<1>1. ValueList(vs) = FlattenSeq(ws)
  BY DEF ValueList, writeEach, writeOctetString
<1> HIDE DEF ws
<1>2. Whole(ValueList(vs), Els(Tag.OctetString, vs))
  BY <1>1, TagOctets, ElsWhole DEF ws
<1>3. r.items = Els(Tag.OctetString, vs) /\ r.rest = << >>
  BY <1>2 DEF Whole
<1>4. vs \in Seq(Seq(Octets))
  <2>1. Strings \subseteq Seq(Octets)
    BY DEF Strings
  <2> QED BY <2>1
<1> HIDE DEF r
<1>5. ReadsToEnd(r, Tag.OctetString) /\ Contents(r) = vs
  <2>1. Tag.OctetString \notin {Tag.Integer, Tag.Enumerated, Tag.Boolean}
    BY TagValues
  <2> QED BY <1>3, <1>4, <2>1, ListRead
<1> QED BY <1>2, <1>5 DEF r

\* A type and its values.
LEMMA PartialReadBack ==
  ASSUME NEW a, a.type \in Strings, a.values \in Seq(Strings), Fit(ValueList(a.values))
  PROVE  /\ encodePartial(a) \in Seq(Octets)
         /\ IsPartial(Elements[encodePartial(a)])
         /\ Partial(Elements[encodePartial(a)]) = [type |-> a.type, values |-> a.values]
<1> DEFINE c == encodePartial(a)
           r == Elements[c]
           str == Tag.OctetString
           v == ValueList(a.values)
<1>1. c = write(str, a.type) \o write(Tag.Set, v)
  BY DEF encodePartial, writeOctetString, ValueList
<1>2. Fit(a.type) /\ Fit(v)
  BY StringsFit
<1> HIDE DEF v, c
<1>3. Whole(c, <<El(str, a.type), El(Tag.Set, v)>>)
  BY <1>1, <1>2, TagOctets, WholeTwo, WholeNone
<1>4. r.items = <<El(str, a.type), El(Tag.Set, v)>>
  BY <1>3 DEF Whole
<1> HIDE DEF r
<1>5. Len(r.items) = 2 /\ r.items[1] = El(str, a.type) /\ r.items[2] = El(Tag.Set, v)
  BY <1>4
<1>6. str \notin {Tag.Integer, Tag.Enumerated, Tag.Boolean} /\ Tag.Set \notin {Tag.Integer, Tag.Enumerated, Tag.Boolean}
  BY TagValues
<1>7. Reads(r, 1, str) /\ octets(r, 1) = a.type
  <2> HIDE DEF str
  <2> QED BY <1>5, <1>6, ReadsElement
<1>8. Reads(r, 2, Tag.Set) /\ inner(r, 2) = Elements[v]
  BY <1>5, <1>6, ReadsElement
<1>9. ReadsToEnd(Elements[v], str) /\ Contents(Elements[v]) = a.values
  BY ValuesReadBack DEF v
<1>10. ReadsAll(r, <<str, Tag.Set>>)
  BY <1>7, <1>8 DEF ReadsAll
<1>11. IsPartial(r)
  BY <1>8, <1>9, <1>10 DEF IsPartial
<1>12. Partial(r) = [type |-> a.type, values |-> a.values]
  BY <1>7, <1>8, <1>9 DEF Partial
<1> QED BY <1>3, <1>11, <1>12 DEF Whole, c, r

\* Attributes whose parts fit into their elements.
Attributes == {a \in [type : Strings, values : Seq(Strings)] : Fit(ValueList(a.values)) /\ Fit(encodePartial(a))}
ListOf(as) == writeEach(as, LAMBDA a : write(Tag.Sequence, encodePartial(a)))

\* A search entry and an add request, with any number of attributes and values.
LEMMA AttributesReadBack ==
  ASSUME NEW d \in [dn : Strings, attributes : Seq(Attributes)], Fit(ListOf(d.attributes))
  PROVE  /\ encodeAttributes(d) \in Seq(Octets)
         /\ decodeAttributes(Elements[encodeAttributes(d)]) = {d}
<1> DEFINE c == encodeAttributes(d)
           r == Elements[c]
           str == Tag.OctetString
           sqn == Tag.Sequence
           as == d.attributes
           v == ListOf(as)
           list == Elements[v]
           n == Len(as)
           cs == [i \in 1..n |-> encodePartial(as[i])]
           ws == [i \in DOMAIN cs |-> write(sqn, cs[i])]
<1>1. n \in Nat /\ DOMAIN as = 1..n /\ as = [i \in 1..n |-> as[i]] /\ \A i \in 1..n : as[i] \in Attributes
  OBVIOUS
<1>2. v = FlattenSeq([i \in DOMAIN as |-> write(sqn, encodePartial(as[i]))])
  BY DEF ListOf, writeEach
<1>3. Fit(d.dn) /\ Fit(v) /\ d = [dn |-> d.dn, attributes |-> as]
  BY StringsFit
<1>4. c = write(str, d.dn) \o write(sqn, v)
  BY DEF encodeAttributes, writeOctetString, ListOf
<1> HIDE DEF n, v, c, as
<1>5. ASSUME NEW i \in 1..n
      PROVE  /\ cs[i] = encodePartial(as[i]) /\ cs[i] \in Strings
             /\ IsPartial(Elements[cs[i]]) /\ Partial(Elements[cs[i]]) = as[i]
  <2>1. /\ as[i].type \in Strings /\ as[i].values \in Seq(Strings) /\ Fit(ValueList(as[i].values))
        /\ Fit(encodePartial(as[i])) /\ as[i] = [type |-> as[i].type, values |-> as[i].values]
    BY <1>1 DEF Attributes
  <2>2. cs[i] = encodePartial(as[i])
    OBVIOUS
  <2> HIDE DEF cs
  <2>3. IsPartial(Elements[encodePartial(as[i])]) /\ Partial(Elements[encodePartial(as[i])]) = [type |-> as[i].type, values |-> as[i].values]
    BY <2>1, PartialReadBack
  <2> QED BY <2>1, <2>2, <2>3, StringsFit
<1>6. cs \in Seq(Strings) /\ cs \in Seq(Seq(Octets)) /\ DOMAIN cs = 1..n
  <2>1. Strings \subseteq Seq(Octets)
    BY DEF Strings
  <2>2. cs = [i \in 1..n |-> cs[i]] /\ DOMAIN cs = 1..n
    OBVIOUS
  <2>3. \A i \in 1..n : cs[i] \in Strings
    BY <1>5
  <2> HIDE DEF cs
  <2>4. cs \in Seq(Strings)
    BY <1>1, <2>2, <2>3
  <2>5. \A i \in 1..n : cs[i] \in Seq(Octets)
    BY <2>1, <2>3
  <2>6. cs \in Seq(Seq(Octets))
    BY <1>1, <2>2, <2>5
  <2> QED BY <2>2, <2>4, <2>6
<1>7. v = FlattenSeq(ws)
  <2>1. ws = [i \in DOMAIN as |-> write(sqn, encodePartial(as[i]))]
    BY <1>1
  <2> QED BY <1>2, <2>1
<1> HIDE DEF cs
<1>8. Whole(v, Els(sqn, cs))
  BY <1>6, <1>7, TagOctets, ElsWhole
<1>9. Whole(c, <<El(str, d.dn), El(sqn, v)>>)
  BY <1>3, <1>4, TagOctets, WholeTwo, WholeNone
<1>10. r.items = <<El(str, d.dn), El(sqn, v)>> /\ list.items = Els(sqn, cs) /\ list.rest = << >>
  BY <1>8, <1>9 DEF Whole
<1>11. str \notin {Tag.Integer, Tag.Enumerated, Tag.Boolean} /\ sqn \notin {Tag.Integer, Tag.Enumerated, Tag.Boolean}
  BY TagValues
<1> HIDE DEF r, list, ws
<1>12. Len(r.items) = 2 /\ r.items[1] = El(str, d.dn) /\ r.items[2] = El(sqn, v)
  BY <1>10
<1>13. Reads(r, 1, str) /\ octets(r, 1) = d.dn
  <2> HIDE DEF str
  <2> QED BY <1>11, <1>12, ReadsElement
<1>14. Reads(r, 2, sqn) /\ inner(r, 2) = list
  <2> HIDE DEF sqn
  <2> QED BY <1>11, <1>12, ReadsElement DEF list
<1>15. ReadsAll(r, <<str, sqn>>)
  BY <1>13, <1>14 DEF ReadsAll
<1>16. /\ ReadsToEnd(list, sqn) /\ DOMAIN list.items = 1..n
       /\ \A i \in 1..n : inner(list, i) = Elements[cs[i]]
  <2> HIDE DEF sqn
  <2>1. /\ ReadsToEnd(list, sqn) /\ DOMAIN list.items = DOMAIN cs
        /\ \A i \in DOMAIN cs : inner(list, i) = Elements[cs[i]]
    <3>1. cs \in Seq(Seq(Octets)) /\ sqn \notin {Tag.Integer, Tag.Enumerated, Tag.Boolean}
      BY <1>6, <1>11
    <3>2. list.items = Els(sqn, cs) /\ list.rest = << >>
      BY <1>10
    <3>3. /\ ReadsToEnd(list, sqn) /\ Contents(list) = cs /\ DOMAIN list.items = DOMAIN cs
          /\ \A i \in DOMAIN cs : octets(list, i) = cs[i] /\ inner(list, i) = Elements[cs[i]]
      BY <3>1, <3>2, ListRead, Zenon
    <3> QED BY <3>3
  <2> QED BY <1>6, <2>1
<1>17. \A i \in 1..n : IsPartial(inner(list, i)) /\ Partial(inner(list, i)) = as[i]
  BY <1>5, <1>16
<1>18. [i \in DOMAIN list.items |-> Partial(inner(list, i))] = as
  BY <1>1, <1>16, <1>17
<1>19. decodeAttributes(r) = {[dn |-> d.dn, attributes |-> as]}
  BY <1>13, <1>14, <1>15, <1>16, <1>17, <1>18 DEF decodeAttributes, Decoded
<1> QED BY <1>3, <1>9, <1>19 DEF Whole, c, r

\* A reader over a list written under one tag, and each of its members.
LEMMA ListReadBack ==
  ASSUME NEW cs \in Seq(Strings), NEW tag \in Octets, NEW v, v = FlattenSeq([i \in DOMAIN cs |-> write(tag, cs[i])]),
         tag \notin {Tag.Integer, Tag.Enumerated, Tag.Boolean}
  PROVE  /\ v \in Seq(Octets) /\ ReadsToEnd(Elements[v], tag) /\ DOMAIN Elements[v].items = DOMAIN cs
         /\ \A i \in DOMAIN cs : inner(Elements[v], i) = Elements[cs[i]]
<1> DEFINE list == Elements[v]
<1>1. Whole(v, Els(tag, cs))
  BY ElsWhole
<1>2. list.items = Els(tag, cs) /\ list.rest = << >> /\ v \in Seq(Octets)
  BY <1>1 DEF Whole
<1>3. cs \in Seq(Seq(Octets))
  <2>1. Strings \subseteq Seq(Octets)
    BY DEF Strings
  <2> QED BY <2>1
<1> HIDE DEF list
<1>4. /\ ReadsToEnd(list, tag) /\ Contents(list) = cs /\ DOMAIN list.items = DOMAIN cs
      /\ \A i \in DOMAIN cs : octets(list, i) = cs[i] /\ inner(list, i) = Elements[cs[i]]
  BY <1>2, <1>3, ListRead, Zenon
<1> QED BY <1>2, <1>4 DEF list

\* A change of a modify request.
ChangeOf(c) == writeEnumerated(c.op) \o write(Tag.Sequence, encodePartial(c))
ChangeSet ==
  {c \in [op : {n \in Int32 : n >= 0}, type : Strings, values : Seq(Strings)] :
     Fit(ValueList(c.values)) /\ Fit(encodePartial(c)) /\ Fit(ChangeOf(c))}
ChangeList(cs) == writeEach(cs, LAMBDA c : write(Tag.Sequence, writeEnumerated(c.op) \o write(Tag.Sequence, encodePartial(c))))

\* A change is read back.
LEMMA ChangeReadBack ==
  ASSUME NEW c \in ChangeSet
  PROVE  LET r == Elements[ChangeOf(c)]
         IN  /\ ReadsAll(r, <<Tag.Enumerated, Tag.Sequence>>) /\ IsPartial(inner(r, 2))
             /\ [op |-> readEnumerated(r, 1), type |-> Partial(inner(r, 2)).type, values |-> Partial(inner(r, 2)).values] = c
<1> DEFINE k == ChangeOf(c)
           r == Elements[k]
           p == encodePartial(c)
           v == encodeInteger(c.op)
<1>1. /\ c.op \in Int32 /\ c.op >= 0 /\ c.type \in Strings /\ c.values \in Seq(Strings) /\ Fit(ValueList(c.values)) /\ Fit(p)
      /\ c = [op |-> c.op, type |-> c.type, values |-> c.values]
  BY DEF ChangeSet
<1>2. k = write(Tag.Enumerated, v) \o write(Tag.Sequence, p)
  BY DEF ChangeOf, writeEnumerated
<1>3. Fit(v)
  BY <1>1, IntegerContent DEF Fit
<1>4. IsPartial(Elements[p]) /\ Partial(Elements[p]) = [type |-> c.type, values |-> c.values]
  BY <1>1, PartialReadBack
<1> HIDE DEF k, p
<1>5. Whole(k, <<El(Tag.Enumerated, v), El(Tag.Sequence, p)>>)
  BY <1>1, <1>2, <1>3, TagOctets, WholeTwo, WholeNone
<1>6. r.items = <<El(Tag.Enumerated, v), El(Tag.Sequence, p)>>
  BY <1>5 DEF Whole
<1> HIDE DEF r
<1>7. Len(r.items) = 2 /\ r.items[1] = El(Tag.Enumerated, v) /\ r.items[2] = El(Tag.Sequence, p)
  BY <1>6
<1>8. Reads(r, 1, Tag.Enumerated) /\ readEnumerated(r, 1) = c.op
  BY <1>1, <1>7, ReadsInteger
<1>9. Reads(r, 2, Tag.Sequence) /\ inner(r, 2) = Elements[p]
  <2>1. Tag.Sequence \notin {Tag.Integer, Tag.Enumerated, Tag.Boolean}
    BY TagValues
  <2> QED BY <1>7, <2>1, ReadsElement
<1>10. ReadsAll(r, <<Tag.Enumerated, Tag.Sequence>>)
  BY <1>8, <1>9 DEF ReadsAll
<1> QED BY <1>1, <1>4, <1>8, <1>9, <1>10 DEF r, k

\* A modify request, with any number of changes.
LEMMA ModifyReadBack ==
  ASSUME NEW d \in [dn : Strings, changes : Seq(ChangeSet)], Fit(ChangeList(d.changes))
  PROVE  /\ encodeModifyRequest(d) \in Seq(Octets)
         /\ decodeModifyRequest(Elements[encodeModifyRequest(d)]) = {d}
<1> DEFINE c == encodeModifyRequest(d)
           r == Elements[c]
           str == Tag.OctetString
           sqn == Tag.Sequence
           as == d.changes
           v == ChangeList(as)
           list == Elements[v]
           n == Len(as)
           cs == [i \in 1..n |-> ChangeOf(as[i])]
<1>1. n \in Nat /\ DOMAIN as = 1..n /\ as = [i \in 1..n |-> as[i]] /\ \A i \in 1..n : as[i] \in ChangeSet
  OBVIOUS
<1>2. v = FlattenSeq([i \in DOMAIN as |-> write(sqn, ChangeOf(as[i]))])
  BY DEF ChangeList, writeEach, ChangeOf
<1>3. Fit(d.dn) /\ Fit(v) /\ d = [dn |-> d.dn, changes |-> as]
  BY StringsFit
<1>4. c = write(str, d.dn) \o write(sqn, v)
  BY DEF encodeModifyRequest, writeOctetString, ChangeList
<1> HIDE DEF n, v, c, as
<1>5. ASSUME NEW i \in 1..n PROVE cs[i] = ChangeOf(as[i]) /\ cs[i] \in Strings
  BY <1>1, StringsFit DEF ChangeSet
<1>6. cs \in Seq(Strings) /\ DOMAIN cs = 1..n
  <2>1. cs = [i \in 1..n |-> cs[i]] /\ DOMAIN cs = 1..n
    OBVIOUS
  <2>2. \A i \in 1..n : cs[i] \in Strings
    BY <1>5
  <2> HIDE DEF cs
  <2> QED BY <1>1, <2>1, <2>2
<1>7. v = FlattenSeq([i \in DOMAIN cs |-> write(sqn, cs[i])])
  <2>1. [i \in DOMAIN cs |-> write(sqn, cs[i])] = [i \in DOMAIN as |-> write(sqn, ChangeOf(as[i]))]
    BY <1>1
  <2> QED BY <1>2, <2>1
<1>8. ASSUME NEW i \in 1..n
      PROVE  LET q == Elements[cs[i]]
             IN  /\ ReadsAll(q, <<Tag.Enumerated, Tag.Sequence>>) /\ IsPartial(inner(q, 2))
                 /\ [op |-> readEnumerated(q, 1), type |-> Partial(inner(q, 2)).type, values |-> Partial(inner(q, 2)).values] = as[i]
  BY <1>1, <1>5, ChangeReadBack
<1> HIDE DEF cs
<1>9. Whole(c, <<El(str, d.dn), El(sqn, v)>>)
  BY <1>3, <1>4, TagOctets, WholeTwo, WholeNone
<1>10. r.items = <<El(str, d.dn), El(sqn, v)>>
  BY <1>9 DEF Whole
<1>11. str \notin {Tag.Integer, Tag.Enumerated, Tag.Boolean} /\ sqn \notin {Tag.Integer, Tag.Enumerated, Tag.Boolean}
       /\ sqn \in Octets
  BY TagValues, TagOctets
<1>12. /\ ReadsToEnd(list, sqn) /\ DOMAIN list.items = 1..n
       /\ \A i \in 1..n : inner(list, i) = Elements[cs[i]]
  <2> HIDE DEF sqn
  <2>1. /\ ReadsToEnd(Elements[v], sqn) /\ DOMAIN Elements[v].items = DOMAIN cs
        /\ \A i \in DOMAIN cs : inner(Elements[v], i) = Elements[cs[i]]
    BY <1>6, <1>7, <1>11, ListReadBack
  <2> QED BY <1>6, <2>1
<1> HIDE DEF r, list
<1>13. Len(r.items) = 2 /\ r.items[1] = El(str, d.dn) /\ r.items[2] = El(sqn, v)
  BY <1>10
<1>14. Reads(r, 1, str) /\ octets(r, 1) = d.dn
  <2> HIDE DEF str
  <2> QED BY <1>11, <1>13, ReadsElement
<1>15. Reads(r, 2, sqn) /\ inner(r, 2) = list
  <2> HIDE DEF sqn
  <2> QED BY <1>11, <1>13, ReadsElement DEF list
<1>16. ReadsAll(r, <<str, sqn>>)
  BY <1>14, <1>15 DEF ReadsAll
<1> DEFINE item(i) == inner(list, i)
           made(i) == [op |-> readEnumerated(item(i), 1), type |-> Partial(inner(item(i), 2)).type,
                       values |-> Partial(inner(item(i), 2)).values]
<1>17. \A i \in 1..n : ReadsAll(item(i), <<Tag.Enumerated, Tag.Sequence>>) /\ IsPartial(inner(item(i), 2)) /\ made(i) = as[i]
  BY <1>8, <1>12
<1>18. [i \in DOMAIN list.items |-> made(i)] = as
  <2> HIDE DEF made
  <2> QED BY <1>1, <1>12, <1>17
<1>19. decodeModifyRequest(r) = {[dn |-> d.dn, changes |-> [i \in DOMAIN list.items |-> made(i)]]}
  <2>1. \A i \in DOMAIN list.items : ReadsAll(item(i), <<Tag.Enumerated, Tag.Sequence>>) /\ IsPartial(inner(item(i), 2))
    BY <1>12, <1>17
  <2> QED BY <1>12, <1>14, <1>15, <1>16, <2>1 DEF decodeModifyRequest, Decoded
<1> QED BY <1>3, <1>9, <1>18, <1>19 DEF Whole, c, r

-----------------------------------------------------------------------------
(* Controls.                                                               *)

\* A control: an object identifier, whether it is critical, a value.
ControlOf(c) ==
     writeOctetString(c.oid) \o (IF c.critical THEN writeBoolean(TRUE) ELSE << >>)
  \o writeOptional(Tag.OctetString, c.value)
ControlSet == {c \in [oid : Strings, critical : BOOLEAN, value : Strings] : Fit(ControlOf(c))}
ControlList(cs) == writeEach(cs, LAMBDA c :
    write(Tag.Sequence, writeOctetString(c.oid)
                        \o (IF c.critical THEN writeBoolean(TRUE) ELSE << >>)
                        \o writeOptional(Tag.OctetString, c.value)))

\* A control is read back, marked critical or not, with a value or without.
LEMMA ControlReadBack ==
  ASSUME NEW c \in ControlSet
  PROVE  decodeControl(Elements[ControlOf(c)]) = {c}
<1> DEFINE k == ControlOf(c)
           r == Elements[k]
           str == Tag.OctetString
           bit == <<IF c.critical THEN 255 ELSE 0>>
           x == IF c.value = << >> THEN << >> ELSE <<El(str, c.value)>>
           wv == writeOptional(str, c.value)
           e1 == El(str, c.oid)
           e2 == El(Tag.Boolean, bit)
           made(critical) == [oid |-> c.oid, critical |-> critical, value |-> c.value]
<1>1. Fit(c.oid) /\ Fit(c.value) /\ c.critical \in BOOLEAN /\ c = made(c.critical)
  BY StringsFit DEF ControlSet
<1>2. Fit(bit)
  BY <1>1, BooleanContent
<1>3. Whole(wv, x) /\ wv \in Seq(Octets) /\ x \in Seq(TagAndContent)
  <2>1. Whole(wv, x)
    BY <1>1, TagOctets, WholeOptional
  <2> QED BY <2>1 DEF Whole
<1>4. str \notin {Tag.Integer, Tag.Enumerated, Tag.Boolean} /\ str # 0 /\ Tag.Boolean # 0 /\ Tag.Boolean # str
  BY TagValues
<1>5. write(str, c.oid) \in Seq(Octets)
  BY <1>1, TagOctets, WholeOne
<1>6. e1 \in TagAndContent /\ e2 \in TagAndContent
  BY <1>1, <1>2, TagOctets DEF El, TagAndContent, Fit
<1>7. x = << >> \/ x = <<El(str, c.value)>>
  OBVIOUS
<1>8. (x = << >>) <=> (c.value = << >>)
  OBVIOUS
<1> DEFINE V(q, n) == \/ x = << >> /\ Len(q.items) = n
                      \/ x = <<El(str, c.value)>> /\ Len(q.items) = n + 1 /\ q.items[n + 1] = El(str, c.value)
\* What is read after the n elements before the value.
<1>9. ASSUME NEW q, NEW n \in 1..2, q.rest = << >>, V(q, n)
      PROVE  /\ atEnd(q, n) \/ Reads(q, n + 1, str)
             /\ (IF atEnd(q, n) THEN << >> ELSE octets(q, n + 1)) = c.value
             /\ n = 1 => peekTag(q, 1) # Tag.Boolean
  <2>1. CASE x = << >> /\ Len(q.items) = n
    <3>1. atEnd(q, n)
      BY <1>9, <2>1 DEF atEnd
    <3>2. n = 1 => peekTag(q, 1) = 0
      BY <1>9, <2>1 DEF peekTag
    <3> QED BY <1>4, <1>8, <2>1, <3>1, <3>2
  <2>2. CASE x = <<El(str, c.value)>> /\ Len(q.items) = n + 1 /\ q.items[n + 1] = El(str, c.value)
    <3>1. ~atEnd(q, n)
      BY <1>9, <2>2 DEF atEnd
    <3> HIDE DEF str
    <3>2. n + 1 \in Nat \ {0} /\ Len(q.items) >= n + 1 /\ Len(q.items) \in Nat
      BY <2>2
    <3>3. Reads(q, n + 1, str) /\ octets(q, n + 1) = c.value /\ q.items[n + 1].tag = str
      BY <1>4, <2>2, <3>2, ReadsElement
    <3>4. n = 1 => peekTag(q, 1) = str
      BY <2>2, <3>3 DEF peekTag
    <3> QED BY <1>4, <3>1, <3>3, <3>4
  <2> QED BY <1>9, <2>1, <2>2
<1>10. CASE c.critical = TRUE
  <2>1. k = write(str, c.oid) \o write(Tag.Boolean, bit) \o wv
    BY <1>10 DEF ControlOf, writeOctetString, writeBoolean
  <2> HIDE DEF k, x, bit, wv, V
  <2>2. Whole(k, <<e1, e2>> \o x)
    <3>1. str \in Octets /\ Tag.Boolean \in Octets
      BY TagOctets
    <3> HIDE DEF str
    <3>2. Whole(write(str, c.oid) \o write(Tag.Boolean, bit) \o wv, <<El(str, c.oid), El(Tag.Boolean, bit)>> \o x)
      BY <1>1, <1>2, <1>3, <3>1, WholeTwo
    <3> QED BY <2>1, <3>2
  <2>3. r.items = <<e1, e2>> \o x /\ r.rest = << >>
    BY <2>2 DEF Whole
  <2> HIDE DEF r, e1, e2
  <2>4. /\ Len(r.items) = 2 + Len(x) /\ r.items[1] = e1 /\ r.items[2] = e2 /\ Len(x) \in Nat
        /\ (Len(x) = 1 => r.items[3] = x[1])
    BY <1>3, <1>6, <2>3
  <2>5. V(r, 2)
    <3>1. CASE x = << >>
      BY <2>4, <3>1 DEF V
    <3>2. CASE x = <<El(str, c.value)>>
      <4>1. Len(x) = 1 /\ x[1] = El(str, c.value)
        BY <3>2
      <4> QED BY <2>4, <3>2, <4>1 DEF V
    <3> QED BY <1>7, <3>1, <3>2
  <2>6. /\ atEnd(r, 2) \/ Reads(r, 3, str)
        /\ (IF atEnd(r, 2) THEN << >> ELSE octets(r, 3)) = c.value
    BY <1>9, <2>3, <2>5
  <2>7. Reads(r, 1, str) /\ octets(r, 1) = c.oid
    <3>1. Len(r.items) >= 1 /\ Len(r.items) \in Nat
      BY <2>4
    <3> HIDE DEF str
    <3> QED BY <1>4, <2>4, <3>1, ReadsElement DEF e1
  <2>8. Reads(r, 2, Tag.Boolean) /\ boolean(r, 2) = c.critical
    <3>1. Len(r.items) >= 2
      BY <2>4
    <3>2. r.items[2] = El(Tag.Boolean, <<IF c.critical THEN 255 ELSE 0>>)
      BY <2>4 DEF e2, bit
    <3> QED BY <1>1, <3>1, <3>2, ReadsBoolean
  <2>9. peekTag(r, 1) = Tag.Boolean
    BY <2>4 DEF peekTag, e2, El
  <2>10. decodeControl(r) = {[oid |-> c.oid, critical |-> TRUE, value |-> c.value]}
    <3>1. ((peekTag(r, 1) = Tag.Boolean) /\ boolean(r, 2)) = TRUE
      BY <1>10, <2>8, <2>9
    <3>2. decodeControl(r) =
            Decoded(/\ Reads(r, 1, str) /\ (peekTag(r, 1) = Tag.Boolean => Reads(r, 2, Tag.Boolean))
                    /\ atEnd(r, 2) \/ Reads(r, 3, str),
                    [oid |-> octets(r, 1), critical |-> (peekTag(r, 1) = Tag.Boolean) /\ boolean(r, 2),
                     value |-> IF atEnd(r, 2) THEN << >> ELSE octets(r, 3)])
      BY <2>9 DEF decodeControl
    <3> QED BY <2>6, <2>7, <2>8, <3>1, <3>2 DEF Decoded
  <2> QED BY <1>1, <1>10, <2>10 DEF r, k
<1>11. CASE c.critical = FALSE
  <2>1. k = write(str, c.oid) \o wv
    <3>1. k = write(str, c.oid) \o << >> \o wv
      BY <1>11 DEF ControlOf, writeOctetString
    <3>2. write(str, c.oid) \o << >> = write(str, c.oid)
      BY <1>5, EmptyBefore
    <3> QED BY <3>1, <3>2
  <2> HIDE DEF k, x, wv, V
  <2>2. Whole(k, <<e1>> \o x)
    BY <1>1, <1>3, <2>1, TagOctets, WholeCons
  <2>3. r.items = <<e1>> \o x /\ r.rest = << >>
    BY <2>2 DEF Whole
  <2> HIDE DEF r, e1
  <2>4. /\ Len(r.items) = 1 + Len(x) /\ r.items[1] = e1 /\ Len(x) \in Nat
        /\ (Len(x) = 1 => r.items[2] = x[1])
    BY <1>3, <1>6, <2>3
  <2>5. V(r, 1)
    <3>1. CASE x = << >>
      BY <2>4, <3>1 DEF V
    <3>2. CASE x = <<El(str, c.value)>>
      <4>1. Len(x) = 1 /\ x[1] = El(str, c.value)
        BY <3>2
      <4> QED BY <2>4, <3>2, <4>1 DEF V
    <3> QED BY <1>7, <3>1, <3>2
  <2>6. /\ atEnd(r, 1) \/ Reads(r, 2, str)
        /\ (IF atEnd(r, 1) THEN << >> ELSE octets(r, 2)) = c.value
        /\ peekTag(r, 1) # Tag.Boolean
    BY <1>9, <2>3, <2>5
  <2>7. Reads(r, 1, str) /\ octets(r, 1) = c.oid
    <3>1. Len(r.items) >= 1 /\ Len(r.items) \in Nat
      BY <2>4
    <3> HIDE DEF str
    <3> QED BY <1>4, <2>4, <3>1, ReadsElement DEF e1
  <2>8. decodeControl(r) = {[oid |-> c.oid, critical |-> FALSE, value |-> c.value]}
    <3>1. ((peekTag(r, 1) = Tag.Boolean) /\ boolean(r, 2)) = FALSE
      BY <2>6
    <3>2. decodeControl(r) =
            Decoded(/\ Reads(r, 1, str) /\ (peekTag(r, 1) = Tag.Boolean => Reads(r, 2, Tag.Boolean))
                    /\ atEnd(r, 1) \/ Reads(r, 2, str),
                    [oid |-> octets(r, 1), critical |-> (peekTag(r, 1) = Tag.Boolean) /\ boolean(r, 2),
                     value |-> IF atEnd(r, 1) THEN << >> ELSE octets(r, 2)])
      BY <2>6 DEF decodeControl
    <3> QED BY <2>6, <2>7, <3>1, <3>2 DEF Decoded
  <2> QED BY <1>1, <1>11, <2>8 DEF r, k
<1> QED BY <1>1, <1>10, <1>11

\* The controls of a message are read back, each in its place.
LEMMA ControlsReadBack ==
  ASSUME NEW cs \in Seq(ControlSet)
  PROVE  decodeControls(Elements[ControlList(cs)]) = {cs}
<1> DEFINE n == Len(cs)
           ks == [i \in 1..n |-> ControlOf(cs[i])]
           v == ControlList(cs)
           r == Elements[v]
           sqn == Tag.Sequence
           item(i) == decodeControl(inner(r, i))
<1>1. n \in Nat /\ DOMAIN cs = 1..n /\ cs = [i \in 1..n |-> cs[i]] /\ \A i \in 1..n : cs[i] \in ControlSet
  OBVIOUS
<1>2. v = FlattenSeq([i \in DOMAIN cs |-> write(sqn, ControlOf(cs[i]))])
  BY DEF ControlList, writeEach, ControlOf
<1> HIDE DEF n, v
<1>3. ASSUME NEW i \in 1..n PROVE ks[i] = ControlOf(cs[i]) /\ ks[i] \in Strings
  BY <1>1, StringsFit DEF ControlSet
<1>4. ks \in Seq(Strings) /\ DOMAIN ks = 1..n
  <2>1. ks = [i \in 1..n |-> ks[i]] /\ DOMAIN ks = 1..n
    OBVIOUS
  <2>2. \A i \in 1..n : ks[i] \in Strings
    BY <1>3
  <2> HIDE DEF ks
  <2> QED BY <1>1, <2>1, <2>2
<1>5. v = FlattenSeq([i \in DOMAIN ks |-> write(sqn, ks[i])])
  <2>1. [i \in DOMAIN ks |-> write(sqn, ks[i])] = [i \in DOMAIN cs |-> write(sqn, ControlOf(cs[i]))]
    BY <1>1
  <2> QED BY <1>2, <2>1
<1>6. \A i \in 1..n : decodeControl(Elements[ks[i]]) = {cs[i]}
  BY <1>1, <1>3, ControlReadBack
<1> HIDE DEF ks
<1>7. /\ ReadsToEnd(r, sqn) /\ DOMAIN r.items = 1..n
      /\ \A i \in 1..n : inner(r, i) = Elements[ks[i]]
  <2>1. sqn \notin {Tag.Integer, Tag.Enumerated, Tag.Boolean} /\ sqn \in Octets
    BY TagValues, TagOctets
  <2> HIDE DEF sqn
  <2>2. /\ ReadsToEnd(Elements[v], sqn) /\ DOMAIN Elements[v].items = DOMAIN ks
        /\ \A i \in DOMAIN ks : inner(Elements[v], i) = Elements[ks[i]]
    BY <1>4, <1>5, <2>1, ListReadBack
  <2> QED BY <1>4, <2>2
<1> HIDE DEF r
<1>8. \A i \in 1..n : item(i) = {cs[i]}
  BY <1>6, <1>7
<1>9. decodeControls(r) = {[i \in DOMAIN r.items |-> CHOOSE c \in item(i) : TRUE]}
  <2>1. \A i \in DOMAIN r.items : item(i) # {}
    BY <1>7, <1>8
  <2> QED BY <1>7, <2>1 DEF decodeControls, Decoded
<1>10. \A i \in 1..n : (CHOOSE c \in item(i) : TRUE) = cs[i]
  <2> HIDE DEF item
  <2> QED BY <1>8
<1>11. [i \in DOMAIN r.items |-> CHOOSE c \in item(i) : TRUE] = cs
  <2> DEFINE ch(i) == CHOOSE c \in item(i) : TRUE
  <2>1. \A i \in 1..n : ch(i) = cs[i]
    BY <1>10
  <2> HIDE DEF ch
  <2>2. [i \in DOMAIN r.items |-> ch(i)] = cs
    BY <1>1, <1>7, <2>1
  <2> QED BY <2>2 DEF ch
<1> QED BY <1>9, <1>11 DEF r, v

-----------------------------------------------------------------------------
(* Messages.                                                               *)

\* What the fields of an operation may hold: text, integers of the C++ type int,
\* lists of any length, each part with a length that a header can hold.
HasData(op, d) ==
  /\ op \in ResultOps => d \in ResultData(op)
  /\ op = "BindRequest" =>
       /\ d \in BindData
       /\ Fit(writeOctetString(d.mechanism) \o writeOptional(Tag.OctetString, d.credentials))
  /\ op = "UnbindRequest" => d = << >>
  /\ op \in {"SearchResultEntry", "AddRequest"} =>
       d \in [dn : Strings, attributes : Seq(Attributes)] /\ Fit(ListOf(d.attributes))
  /\ op = "ModifyRequest" =>
       d \in [dn : Strings, changes : Seq(ChangeSet)] /\ Fit(ChangeList(d.changes))
  /\ op = "DelRequest" => d \in Strings
  /\ op = "ModifyDNRequest" =>
       d \in [dn : Strings, newRdn : Strings, deleteOldRdn : BOOLEAN, newSuperior : Strings]
  /\ op = "CompareRequest" =>
       /\ d \in [dn : Strings, attribute : Strings, value : Strings]
       /\ Fit(writeOctetString(d.attribute) \o writeOctetString(d.value))
  /\ op = "ExtendedRequest" => d \in [oid : Strings, value : Strings]
Operations == DOMAIN OpTag \ {"SearchRequest"}

\* encodeOp takes the branch of the operation.
LEMMA EncodesOp ==
  ASSUME NEW m, m.op \in Operations
  PROVE  LET op == m.op
             d == m.data
         IN  /\ op \in ResultOps => encodeOp(m) = encodeResult(op, d)
             /\ op = "BindRequest" => encodeOp(m) = encodeBindRequest(d)
             /\ op = "UnbindRequest" => encodeOp(m) = << >>
             /\ op \in {"SearchResultEntry", "AddRequest"} => encodeOp(m) = encodeAttributes(d)
             /\ op = "ModifyRequest" => encodeOp(m) = encodeModifyRequest(d)
             /\ op = "DelRequest" => encodeOp(m) = d
             /\ op = "ModifyDNRequest" => encodeOp(m) = encodeModifyDnRequest(d)
             /\ op = "CompareRequest" => encodeOp(m) = encodeCompareRequest(d)
             /\ op = "ExtendedRequest" => encodeOp(m) = encodeExtendedRequest(d)
<1> DEFINE op == m.op
           d == m.data
<1>1. op \in ResultOps => encodeOp(m) = encodeResult(op, d)
  BY DEF encodeOp, ResultOps
<1>2. op \notin ResultOps =>
        /\ op = "BindRequest" => encodeOp(m) = encodeBindRequest(d)
        /\ op = "UnbindRequest" => encodeOp(m) = << >>
        /\ op \in {"SearchResultEntry", "AddRequest"} => encodeOp(m) = encodeAttributes(d)
        /\ op = "ModifyRequest" => encodeOp(m) = encodeModifyRequest(d)
        /\ op = "DelRequest" => encodeOp(m) = d
        /\ op = "ModifyDNRequest" => encodeOp(m) = encodeModifyDnRequest(d)
        /\ op = "CompareRequest" => encodeOp(m) = encodeCompareRequest(d)
        /\ op = "ExtendedRequest" => encodeOp(m) = encodeExtendedRequest(d)
  BY DEF encodeOp
<1>3. op \in {"BindRequest", "UnbindRequest", "SearchResultEntry", "AddRequest", "ModifyRequest", "DelRequest",
              "ModifyDNRequest", "CompareRequest", "ExtendedRequest"} => op \notin ResultOps
  BY DEF ResultOps
<1> QED BY <1>1, <1>2, <1>3

\* The operations, one by one.
LEMMA OperationsAre ==
  ASSUME NEW op \in Operations
  PROVE  op \in ResultOps
         \/ op \in {"BindRequest", "UnbindRequest", "SearchResultEntry", "AddRequest", "ModifyRequest",
                    "DelRequest", "ModifyDNRequest", "CompareRequest", "ExtendedRequest"}
BY DEF Operations, OpTag, ResultOps

\* The fields of each operation are read back.
LEMMA OperationReadBack ==
  ASSUME NEW m, m.op \in Operations, HasData(m.op, m.data)
  PROVE  encodeOp(m) \in Seq(Octets) /\ decodeOp[El(OpTag[m.op], encodeOp(m))] = {m.data}
<1> DEFINE op == m.op
           d == m.data
           c == encodeOp(m)
           e == El(OpTag[op], c)
           r == Elements[c]
           Goal == c \in Seq(Octets) /\ decodeOp[e] = {d}
<1>0. op \in DOMAIN OpTag
  BY DEF Operations
<1>1. CASE op \in ResultOps
  <2>1. c = encodeResult(op, d) /\ d \in ResultData(op)
    BY <1>1, EncodesOp DEF HasData
  <2> HIDE DEF op, d, c
  <2>2. c \in Seq(Octets) /\ decodeResult(r) = {d}
    BY <2>1, ResultReadBack
  <2>3. decodeOp[e] = decodeResult(r)
    BY <1>0, <1>1, <2>2, DecodesOp
  <2> QED BY <2>2, <2>3 DEF op, d, c
<1>2. CASE op = "BindRequest"
  <2>1. c = encodeBindRequest(d)
    BY <1>2, EncodesOp
  <2>2. d \in BindData /\ Fit(writeOctetString(d.mechanism) \o writeOptional(Tag.OctetString, d.credentials))
    BY <1>2 DEF HasData
  <2>3. c \in Seq(Octets) /\ decodeBindRequest(r) = {d}
    BY <2>1, <2>2, BindReadBack
  <2> QED BY <1>0, <1>2, <2>3, DecodesOp
<1>3. CASE op = "UnbindRequest"
  <2>1. c = << >> /\ d = << >>
    BY <1>3, EncodesOp DEF HasData
  <2>2. c \in Seq(Octets)
    BY <2>1
  <2> HIDE DEF op, d, c
  <2>3. decodeOp[e] = {<< >>}
    BY <1>0, <1>3, <2>2, DecodesOp
  <2> QED BY <2>1, <2>2, <2>3 DEF op, d, c
<1>4. CASE op \in {"SearchResultEntry", "AddRequest"}
  <2>1. c = encodeAttributes(d)
    BY <1>4, EncodesOp
  <2>2. d \in [dn : Strings, attributes : Seq(Attributes)] /\ Fit(ListOf(d.attributes))
    BY <1>4 DEF HasData
  <2>3. c \in Seq(Octets) /\ decodeAttributes(r) = {d}
    BY <2>1, <2>2, AttributesReadBack
  <2> QED BY <1>0, <1>4, <2>3, DecodesOp
<1>5. CASE op = "ModifyRequest"
  <2>1. c = encodeModifyRequest(d)
    BY <1>5, EncodesOp
  <2>2. d \in [dn : Strings, changes : Seq(ChangeSet)] /\ Fit(ChangeList(d.changes))
    BY <1>5 DEF HasData
  <2>3. c \in Seq(Octets) /\ decodeModifyRequest(r) = {d}
    BY <2>1, <2>2, ModifyReadBack
  <2> QED BY <1>0, <1>5, <2>3, DecodesOp
<1>6. CASE op = "DelRequest"
  <2>1. c = d /\ d \in Strings
    BY <1>6, EncodesOp DEF HasData
  <2>2. c \in Seq(Octets)
    BY <2>1 DEF Strings
  <2> QED BY <1>0, <1>6, <2>1, <2>2, DecodesOp
<1>7. CASE op = "ModifyDNRequest"
  <2>1. c = encodeModifyDnRequest(d)
    BY <1>7, EncodesOp
  <2>2. d \in [dn : Strings, newRdn : Strings, deleteOldRdn : BOOLEAN, newSuperior : Strings]
    BY <1>7 DEF HasData
  <2>3. c \in Seq(Octets) /\ decodeModifyDnRequest(r) = {d}
    BY <2>1, <2>2, ModifyDnReadBack
  <2> QED BY <1>0, <1>7, <2>3, DecodesOp
<1>8. CASE op = "CompareRequest"
  <2>1. c = encodeCompareRequest(d)
    BY <1>8, EncodesOp
  <2>2. /\ d \in [dn : Strings, attribute : Strings, value : Strings]
        /\ Fit(writeOctetString(d.attribute) \o writeOctetString(d.value))
    BY <1>8 DEF HasData
  <2>3. c \in Seq(Octets) /\ decodeCompareRequest(r) = {d}
    BY <2>1, <2>2, CompareReadBack
  <2> QED BY <1>0, <1>8, <2>3, DecodesOp
<1>9. CASE op = "ExtendedRequest"
  <2>1. c = encodeExtendedRequest(d) /\ d \in [oid : Strings, value : Strings]
    BY <1>9, EncodesOp DEF HasData
  <2>2. c \in Seq(Octets) /\ decodeExtendedRequest(r) = {d}
    BY <2>1, ExtendedReadBack
  <2> QED BY <1>0, <1>9, <2>2, DecodesOp
<1>10. op \in ResultOps
       \/ op \in {"BindRequest", "UnbindRequest", "SearchResultEntry", "AddRequest", "ModifyRequest",
                  "DelRequest", "ModifyDNRequest", "CompareRequest", "ExtendedRequest"}
  BY OperationsAre
<1> HIDE DEF op
<1> QED BY <1>1, <1>2, <1>3, <1>4, <1>5, <1>6, <1>7, <1>8, <1>9, <1>10 DEF op

\* A message: what it says, and that none of its lengths is too long for a header.
Controls(m) == IF m.controls = << >> THEN << >> ELSE encodeControls(m.controls)
BodyOf(m) == writeInteger(m.id) \o write(OpTag[m.op], encodeOp(m)) \o Controls(m)
IsMessage(m) ==
  /\ m = [id |-> m.id, op |-> m.op, data |-> m.data, controls |-> m.controls]
  /\ m.id \in Int32 /\ m.op \in Operations /\ HasData(m.op, m.data)
  /\ m.controls \in Seq(ControlSet) /\ Fit(ControlList(m.controls))
  /\ Short(Len(encodeOp(m))) /\ Short(Len(BodyOf(m)))

\* The controls follow the operation, if there are any.
LEMMA ControlsFollow ==
  ASSUME NEW m, IsMessage(m)
  PROVE  \E x : Trailer(Controls(m), x, m.controls)
<1> DEFINE cs == m.controls
           c == ControlList(cs)
<1>1. cs \in Seq(ControlSet) /\ Fit(c)
  BY DEF IsMessage
<1>2. CASE cs = << >>
  <2>1. Controls(m) = << >>
    BY <1>2 DEF Controls
  <2>2. Trailer(Controls(m), << >>, cs)
    BY <1>2, <2>1, WholeNone DEF Trailer
  <2> QED BY <2>2
<1>3. CASE cs # << >>
  <2>1. Controls(m) = write(FieldTag.Controls, c)
    BY <1>3 DEF Controls, encodeControls, ControlList
  <2>2. decodeControls(Elements[c]) = {cs}
    BY <1>1, ControlsReadBack
  <2> HIDE DEF c
  <2>3. Whole(Controls(m), <<El(FieldTag.Controls, c)>>)
    BY <1>1, <2>1, TagOctets, WholeOne
  <2>4. Trailer(Controls(m), <<El(FieldTag.Controls, c)>>, cs)
    BY <1>1, <2>2, <2>3 DEF Trailer
  <2> QED BY <2>4
<1> QED BY <1>2, <1>3

\* Every message but a search is what the other side reads, whatever its octets,
\* the number of its attributes, values, changes and controls, and whatever comes
\* behind it on the stream: encodeLdapMessage writes one PDU, recvPdu gives that
\* PDU and leaves the rest, or refuses it for its size, and decodeLdapMessage gives
\* the message back.
THEOREM MessageIsReadBack ==
  ASSUME NEW m, IsMessage(m), NEW more \in Seq(Octets), NEW ended, NEW max \in Nat
  PROVE  /\ encodeLdapMessage(m) \in Seq(Octets)
         /\ recvPdu(encodeLdapMessage(m) \o more, ended, max) =
              IF Len(BodyOf(m)) > max THEN [is |-> "failed"]
              ELSE [is |-> "pdu", pdu |-> encodeLdapMessage(m), rest |-> more]
         /\ decodeLdapMessage(encodeLdapMessage(m)) = {m}
<1> DEFINE c == encodeOp(m)
           tail == Controls(m)
           body == BodyOf(m)
<1>1. encodeLdapMessage(m) = write(Tag.Sequence, body)
  BY DEF encodeLdapMessage, BodyOf, Controls
<1>2. c \in Seq(Octets) /\ decodeOp[El(OpTag[m.op], c)] = {m.data}
  BY OperationReadBack DEF IsMessage
<1>3. Fit(c)
  BY <1>2 DEF IsMessage, Fit
<1>4. PICK x : Trailer(tail, x, m.controls)
  BY ControlsFollow
<1>5. m.id \in Int32 /\ m.op \in DOMAIN OpTag
  BY DEF IsMessage, Operations
<1>6. Fit(body)
  <2>1. writeInteger(m.id) \in Seq(Octets)
    <3>1. Fit(encodeInteger(m.id))
      BY <1>5, IntegerContent DEF Fit
    <3> QED BY <3>1, TagOctets, WholeOne DEF writeInteger
  <2>2. write(OpTag[m.op], c) \in Seq(Octets)
    BY <1>3, <1>5, TagsDiffer, WholeOne
  <2>3. tail \in Seq(Octets)
    BY <1>4 DEF Trailer, Whole
  <2> HIDE DEF tail, c
  <2>4. writeInteger(m.id) \o write(OpTag[m.op], c) \o tail \in Seq(Octets)
    BY <2>1, <2>2, <2>3
  <2>5. body \in Seq(Octets)
    BY <2>4 DEF BodyOf, c, tail
  <2> QED BY <2>5 DEF IsMessage, Fit
<1>7. body = writeInteger(m.id) \o write(OpTag[m.op], c) \o tail
  BY DEF BodyOf
<1> HIDE DEF body, c, tail
<1>8. decodeLdapMessage(write(Tag.Sequence, body))
        = {[id |-> m.id, op |-> m.op, data |-> m.data, controls |-> m.controls]}
  <2>1. Envelope(m.id, m.op, m.data, c, tail, x, m.controls)
    BY <1>2, <1>3, <1>4, <1>5, <1>6, <1>7 DEF Envelope
  <2> QED BY <1>7, <2>1, Enveloped
<1>9. m = [id |-> m.id, op |-> m.op, data |-> m.data, controls |-> m.controls]
  BY DEF IsMessage
<1>10. write(Tag.Sequence, body) \in Seq(Octets)
  BY <1>6, TagOctets, WholeOne
<1>11. recvPdu(write(Tag.Sequence, body) \o more, ended, max) =
         IF Len(body) > max THEN [is |-> "failed"]
         ELSE [is |-> "pdu", pdu |-> write(Tag.Sequence, body), rest |-> more]
  BY <1>6, TagOctets, PduIsFramed DEF Fit
<1> QED BY <1>1, <1>8, <1>9, <1>10, <1>11 DEF body
=============================================================================
