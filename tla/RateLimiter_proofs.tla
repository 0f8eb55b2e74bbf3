------------------------- MODULE RateLimiter_proofs -------------------------
(***************************************************************************)
(* Proofs about RateLimiter, for any number of threads and clients: no     *)
(* bucket counts beyond the limit, a refusal is always backed by as many   *)
(* grants as the limit asks for, and a stretch as long as a window meets   *)
(* at most three windows if no thread is held up for more than half of     *)
(* one.                                                                    *)
(*                                                                         *)
(* The invariant ties the buckets to the history of grants: what a bucket  *)
(* counts was granted (Counted), and the windows of a client follow each   *)
(* other (Windows), even where a bucket was pruned in between.             *)
(***************************************************************************)
EXTENDS RateLimiter, FiniteSetTheorems, TLAPS

\* The grants of a client, the window each belongs to and its place there.
Of(k) == {g \in granted : g.key = k}
Start(g) == g.bucket.window_start
Place(g) == g.bucket.count

\* The threads are in calls, with readings of the clock that are not too old.
Reading(c) ==
  c # NoCall => c.key \in Keys /\ c.now \in 1..clock /\ clock <= c.now + MaxStall

BucketOk(u) ==
  /\ DOMAIN u = {"window_start", "count"}
  /\ u \in Bucket
  /\ u.window_start \in 1..clock /\ u.count \in 1..MaxPerMinute

GrantOk(g) ==
  /\ g.key \in Keys /\ g.nth \in Nat /\ g.at \in 1..clock
  /\ g.bucket \in Bucket
  /\ Start(g) \in 1..g.at /\ Place(g) \in 1..MaxPerMinute

\* The grants of a client are numbered, so that each one is a new one.
Numbered ==
  /\ IsFiniteSet(granted)
  /\ \A g \in granted : g.nth <= Cardinality(Of(g.key))

\* Each of the binds that a bucket counts was let through.
Counted ==
  \A k \in DOMAIN buckets : \A n \in 1..buckets[k].count :
    \E g \in granted : g.key = k /\ Start(g) = buckets[k].window_start /\ Place(g) = n

\* No two grants have the same place in a window.
OnePerPlace ==
  \A g, h \in granted :
    g.key = h.key /\ Start(g) = Start(h) /\ Place(g) = Place(h) => g = h

\* A window's first grant comes soon after its start.
OpensSoon ==
  \A g \in granted : \E h \in granted :
    h.key = g.key /\ Start(h) = Start(g) /\ h.at <= Start(h) + MaxStall

\* Of two windows of a client, the later one is used only when the other is over.
OneAfterTheOther ==
  \A g, h \in granted :
    g.key = h.key /\ Start(g) < Start(h) => g.at <= h.at /\ Start(g) + Window <= h.at

\* A bucket is the client's last window, and counts at least what was let through.
LastWindow ==
  \A g \in granted :
    IF g.key \in DOMAIN buckets
    THEN /\ Start(g) <= buckets[g.key].window_start
         /\ Start(g) = buckets[g.key].window_start => Place(g) <= buckets[g.key].count
    ELSE Start(g) + Window <= clock

Windows == OnePerPlace /\ OpensSoon /\ OneAfterTheOther /\ LastWindow

IInv ==
  /\ TypeOK
  /\ \A t \in Threads : Reading(call[t])
  /\ \A k \in DOMAIN buckets : BucketOk(buckets[k])
  /\ \A g \in granted : GrantOk(g)
  /\ Numbered
  /\ Counted
  /\ StallsShort => Windows

-----------------------------------------------------------------------------
\* What allow() does for the client of thread t, and to the other clients.
NewGrant(g, k) ==
  /\ g.key = k /\ g.nth = Cardinality(Of(k)) + 1 /\ g.at = clock
  /\ g.bucket = buckets'[k]
  /\ g \in [key : Keys, nth : Nat, at : 1..clock, bucket : Bucket]
  /\ granted' = granted \cup {g}

InWindow(k, r) == k \in DOMAIN buckets /\ r < buckets[k].window_start + Window

Refused(k, r) ==
  /\ InWindow(k, r) /\ buckets[k].count = MaxPerMinute
  /\ buckets'[k] = buckets[k] /\ granted' = granted

Opened(k, r, g) ==
  /\ ~InWindow(k, r)
  /\ buckets'[k].window_start = r /\ buckets'[k].count = 1
  /\ NewGrant(g, k)

Continued(k, r, g) ==
  /\ InWindow(k, r)
  /\ buckets'[k].window_start = buckets[k].window_start
  /\ buckets'[k].count = buckets[k].count + 1
  /\ NewGrant(g, k)

\* Only buckets whose window is over are forgotten.
OthersKept(k, r) ==
  /\ k \in DOMAIN buckets'
  /\ \A j \in DOMAIN buckets' \ {k} : j \in DOMAIN buckets /\ buckets'[j] = buckets[j]
  /\ \A j \in DOMAIN buckets \ DOMAIN buckets' : buckets[j].window_start + Window <= r

\* pruneLocked forgets only buckets whose window is over.
LEMMA PruneForgets ==
  ASSUME NEW u, NEW now
  PROVE  /\ DOMAIN pruneLocked(u, now) \subseteq DOMAIN u
         /\ \A k \in DOMAIN pruneLocked(u, now) : pruneLocked(u, now)[k] = u[k]
         /\ \A k \in DOMAIN u \ DOMAIN pruneLocked(u, now) : Over(now, u[k].window_start)
  BY DEF pruneLocked

\* The bucket that allow() counts in: the client's own while its window lasts,
\* a fresh one otherwise, whether the old one was pruned or not.
LEMMA CurrentIs ==
  ASSUME NEW u, NEW k, NEW now
  PROVE  LET b == pruneLocked(u, now)
         IN  \/ k \in DOMAIN u /\ ~Over(now, u[k].window_start) /\ current(b, k, now) = u[k]
             \/ /\ ~(k \in DOMAIN u /\ ~Over(now, u[k].window_start))
                /\ current(b, k, now) = [window_start |-> now, count |-> 0]
<1> DEFINE b == pruneLocked(u, now)
<1>1. /\ DOMAIN b \subseteq DOMAIN u /\ \A j \in DOMAIN b : b[j] = u[j]
      /\ \A j \in DOMAIN u \ DOMAIN b : Over(now, u[j].window_start)
  BY PruneForgets
<1> HIDE DEF b
<1>2. \/ k \in DOMAIN u /\ ~Over(now, u[k].window_start) /\ current(b, k, now) = u[k]
      \/ /\ ~(k \in DOMAIN u /\ ~Over(now, u[k].window_start))
         /\ current(b, k, now) = [window_start |-> now, count |-> 0]
  BY <1>1 DEF current
<1> QED BY <1>2 DEF b

LEMMA AllowDoes ==
  ASSUME IInv, NEW t \in Threads, allow(t)
  PROVE  /\ call[t] # NoCall /\ clock' = clock /\ call' = [call EXCEPT ![t] = NoCall]
         /\ OthersKept(call[t].key, call[t].now)
         /\ BucketOk(buckets'[call[t].key])
         /\ \/ Refused(call[t].key, call[t].now)
            \/ \E g : Opened(call[t].key, call[t].now, g)
            \/ \E g : Continued(call[t].key, call[t].now, g)
<1> DEFINE k == call[t].key
           r == call[t].now
           u == pruneLocked(buckets, r)
           cur == current(u, k, r)
           ok == cur.count < MaxPerMinute
           new == IF ok THEN [cur EXCEPT !.count = @ + 1] ELSE cur
           g == Grant(k, new)
<1>0. clock \in Nat /\ DOMAIN buckets \subseteq Keys
  BY LimiterAssumption DEF IInv, TypeOK
<1>1. /\ call[t] # NoCall /\ UNCHANGED clock
      /\ buckets' = [j \in DOMAIN u \cup {k} |-> IF j = k THEN new ELSE u[j]]
      /\ granted' = IF ok THEN granted \cup {g} ELSE granted
      /\ call' = [call EXCEPT ![t] = NoCall]
  BY DEF allow
<1>2. k \in Keys /\ r \in 1..clock
  BY <1>1 DEF IInv, Reading
<1>3. /\ DOMAIN u \subseteq DOMAIN buckets /\ \A j \in DOMAIN u : u[j] = buckets[j]
      /\ \A j \in DOMAIN buckets \ DOMAIN u : Over(r, buckets[j].window_start)
  BY PruneForgets
<1>4. \A j \in DOMAIN buckets : BucketOk(buckets[j])
  BY DEF IInv
<1>5. \/ /\ k \in DOMAIN buckets /\ ~Over(r, buckets[k].window_start) /\ cur = buckets[k]
      \/ /\ ~(k \in DOMAIN buckets /\ ~Over(r, buckets[k].window_start))
         /\ cur = [window_start |-> r, count |-> 0]
  BY CurrentIs
<1>7. /\ DOMAIN buckets' = DOMAIN u \cup {k} /\ buckets'[k] = new
      /\ \A j \in DOMAIN u \ {k} : buckets'[j] = u[j]
  BY <1>1
<1>8. g.key = k /\ g.nth = Cardinality(Of(k)) + 1 /\ g.at = clock /\ g.bucket = new
  BY DEF Grant, Of
<1>9. g = [key |-> k, nth |-> Cardinality(Of(k)) + 1, at |-> clock, bucket |-> new]
  BY DEF Grant, Of
<1>10. Cardinality(Of(k)) + 1 \in Nat
  <2>1. IsFiniteSet(Of(k))
    BY FS_Subset DEF IInv, Numbered, Of
  <2> QED BY <2>1, FS_CardinalityType
<1> HIDE DEF k, r, u, cur, new, g
<1>11. OthersKept(k, r)
  BY <1>0, <1>2, <1>3, <1>4, <1>7 DEF OthersKept, Over, BucketOk
<1>12. ASSUME ok, cur.window_start \in 1..clock, cur.count \in Nat,
              DOMAIN cur = {"window_start", "count"}, cur \in Bucket
       PROVE  /\ BucketOk(new) /\ new \in Bucket
              /\ new.window_start = cur.window_start /\ new.count = cur.count + 1
              /\ NewGrant(g, k)
  <2> DEFINE n == cur.count + 1
  <2>1. n \in Nat /\ n \in 1..MaxPerMinute
    BY <1>12, LimiterAssumption
  <2>2. new = [cur EXCEPT !.count = n]
    BY <1>12 DEF new
  <2> HIDE DEF n
  <2>3. DOMAIN new = {"window_start", "count"} /\ new.count = n /\ new.window_start = cur.window_start
    BY <1>12, <2>2
  <2>4. new \in Bucket
    BY <1>12, <2>1, <2>2 DEF Bucket
  <2>5. BucketOk(new)
    BY <1>12, <2>1, <2>3, <2>4 DEF BucketOk
  <2>6. g \in [key : Keys, nth : Nat, at : 1..clock, bucket : Bucket]
    BY <1>0, <1>2, <1>9, <1>10, <2>4
  <2>7. NewGrant(g, k)
    BY <1>1, <1>7, <1>8, <1>12, <2>6 DEF NewGrant
  <2> QED BY <2>3, <2>4, <2>5, <2>7 DEF n
<1>13. CASE k \in DOMAIN buckets /\ ~Over(r, buckets[k].window_start) /\ cur = buckets[k]
  <2>1. BucketOk(cur)
    BY <1>4, <1>13
  <2>2. InWindow(k, r)
    BY <1>0, <1>2, <1>13, <2>1, LimiterAssumption DEF InWindow, Over, BucketOk
  <2>3. CASE ok
    <3>1. cur.window_start \in 1..clock /\ cur.count \in Nat
          /\ DOMAIN cur = {"window_start", "count"} /\ cur \in Bucket
      BY <2>1, LimiterAssumption DEF BucketOk
    <3>2. BucketOk(new) /\ Continued(k, r, g)
      BY <1>7, <1>12, <1>13, <2>2, <2>3, <3>1 DEF Continued
    <3> QED BY <1>1, <1>7, <1>11, <3>2 DEF k, r
  <2>4. CASE ~ok
    <3>1. new = cur /\ granted' = granted
      BY <1>1, <2>4 DEF new
    <3>2. cur.count = MaxPerMinute
      BY <2>1, <2>4, LimiterAssumption DEF BucketOk
    <3>3. Refused(k, r)
      BY <1>7, <1>13, <2>2, <3>1, <3>2 DEF Refused
    <3>4. BucketOk(buckets'[k])
      BY <1>7, <2>1, <3>1
    <3> QED BY <1>1, <1>11, <3>3, <3>4 DEF k, r
  <2> QED BY <2>3, <2>4
<1>14. CASE /\ ~(k \in DOMAIN buckets /\ ~Over(r, buckets[k].window_start))
            /\ cur = [window_start |-> r, count |-> 0]
  <2>1. /\ ok /\ cur.window_start = r /\ cur.count = 0
        /\ DOMAIN cur = {"window_start", "count"} /\ cur \in Bucket
    BY <1>0, <1>2, <1>14, LimiterAssumption DEF Bucket
  <2>2. ~InWindow(k, r)
    BY <1>0, <1>2, <1>4, <1>14, LimiterAssumption DEF InWindow, Over, BucketOk
  <2>3. BucketOk(new) /\ Opened(k, r, g)
    BY <1>2, <1>7, <1>12, <2>1, <2>2 DEF Opened
  <2> QED BY <1>1, <1>7, <1>11, <2>3 DEF k, r
<1> QED BY <1>5, <1>13, <1>14

-----------------------------------------------------------------------------
\* The new grant is not among the earlier ones, and the numbering goes on.
LEMMA GrantIsNew ==
  ASSUME IInv, NEW k, NEW g, NewGrant(g, k)
  PROVE  g \notin granted /\ Numbered'
<1>0. IsFiniteSet(granted) /\ \A h \in granted : h.nth <= Cardinality(Of(h.key)) /\ h.nth \in Nat
  BY DEF IInv, Numbered, GrantOk
<1>1. ASSUME NEW j PROVE IsFiniteSet(Of(j)) /\ Cardinality(Of(j)) \in Nat
  <2>1. IsFiniteSet(Of(j))
    BY <1>0, FS_Subset DEF Of
  <2> QED BY <2>1, FS_CardinalityType
<1>2. g.key = k /\ g.nth = Cardinality(Of(k)) + 1 /\ granted' = granted \cup {g}
  BY DEF NewGrant
<1>3. g \notin granted
  BY <1>0, <1>1, <1>2
<1>4. IsFiniteSet(granted')
  BY <1>0, <1>2, FS_AddElement
<1>5. Of(k)' = Of(k) \cup {g} /\ g \notin Of(k)
  BY <1>2, <1>3 DEF Of
<1>6. Cardinality(Of(k)') = Cardinality(Of(k)) + 1
  BY <1>1, <1>5, FS_AddElement
<1>7. \A j : j # k => Of(j)' = Of(j)
  BY <1>2 DEF Of
<1>8. ASSUME NEW h \in granted' PROVE h.nth <= Cardinality(Of(h.key)')
  <2>1. CASE h = g
    BY <1>1, <1>2, <1>6, <2>1
  <2>2. CASE h \in granted /\ h.key = k
    BY <1>0, <1>1, <1>6, <2>2
  <2>3. CASE h \in granted /\ h.key # k
    BY <1>0, <1>7, <2>3
  <2> QED BY <1>2, <2>1, <2>2, <2>3
<1> QED BY <1>3, <1>4, <1>8 DEF Numbered

\* A grant that opens or continues a window keeps what is known of the grants,
\* the buckets and their counts.
LEMMA GrantKeeps ==
  ASSUME IInv, NEW k \in Keys, NEW r \in 1..clock, NEW g, clock' = clock,
         OthersKept(k, r), BucketOk(buckets'[k]),
         Opened(k, r, g) \/ Continued(k, r, g)
  PROVE  /\ granted' = granted \cup {g}
         /\ GrantOk(g)
         /\ Start(g) = buckets'[k].window_start /\ Place(g) = buckets'[k].count
         /\ Counted'
<1>0. clock \in Nat /\ \A j \in DOMAIN buckets : BucketOk(buckets[j])
  BY LimiterAssumption DEF IInv, TypeOK
<1>1. NewGrant(g, k)
  BY DEF Opened, Continued
<1>2. /\ granted' = granted \cup {g} /\ g.key = k /\ g.at = clock /\ g.bucket = buckets'[k]
      /\ g.nth \in Nat /\ g.bucket \in Bucket
  BY <1>1 DEF NewGrant
<1>3. Start(g) = buckets'[k].window_start /\ Place(g) = buckets'[k].count
  BY <1>2 DEF Start, Place
<1>4. GrantOk(g)
  <2>1. clock \in 1..clock /\ Start(g) \in 1..clock /\ Place(g) \in 1..MaxPerMinute
    BY <1>0, <1>3 DEF BucketOk
  <2> QED BY <1>2, <2>1 DEF GrantOk
<1>5. ASSUME NEW j \in DOMAIN buckets', NEW n \in 1..buckets'[j].count
      PROVE  \E h \in granted' :
               h.key = j /\ Start(h) = buckets'[j].window_start /\ Place(h) = n
  <2>1. CASE j # k
    <3>1. j \in DOMAIN buckets /\ buckets'[j] = buckets[j]
      BY <2>1 DEF OthersKept
    <3> QED BY <1>2, <3>1 DEF IInv, Counted
  <2>2. CASE j = k /\ n = buckets'[k].count
    BY <1>2, <1>3, <2>2
  <2>3. CASE j = k /\ n # buckets'[k].count
    <3>1. buckets'[k].count \in Nat /\ buckets'[k].count # 1 /\ n < buckets'[k].count
      BY <2>3 DEF BucketOk
    <3>2. Continued(k, r, g)
      BY <3>1 DEF Opened
    <3>3. /\ k \in DOMAIN buckets /\ buckets'[k].window_start = buckets[k].window_start
          /\ buckets'[k].count = buckets[k].count + 1 /\ buckets[k].count \in Nat
      BY <1>0, <3>2, LimiterAssumption DEF Continued, InWindow, BucketOk
    <3>4. n \in 1..buckets[k].count
      BY <3>1, <3>3
    <3>5. PICK h \in granted : h.key = k /\ Start(h) = buckets[k].window_start /\ Place(h) = n
      BY <3>3, <3>4 DEF IInv, Counted
    <3> QED BY <1>2, <2>3, <3>3, <3>5
  <2> QED BY <2>1, <2>2, <2>3
<1> QED BY <1>2, <1>3, <1>4, <1>5 DEF Counted

\* The grants that there are when a window is opened are of windows that are
\* over, whether their bucket is still there or was pruned.
LEMMA OpenedIsLast ==
  ASSUME IInv, Windows, StallsShort, NEW k \in Keys, NEW r \in 1..clock,
         clock <= r + MaxStall, ~InWindow(k, r), NEW h \in granted, h.key = k
  PROVE  Start(h) < r /\ Start(h) + Window <= clock
<1>1. clock \in Nat /\ GrantOk(h)
  BY LimiterAssumption DEF IInv, TypeOK
<1>2. Start(h) \in Nat
  BY <1>1, LimiterAssumption DEF GrantOk
<1>3. MaxStall < Window
  BY LimiterAssumption DEF StallsShort
<1>4. CASE k \notin DOMAIN buckets
  <2>1. Start(h) + Window <= clock
    BY <1>4 DEF Windows, LastWindow
  <2> QED BY <1>1, <1>2, <1>3, <2>1, LimiterAssumption
<1>5. CASE k \in DOMAIN buckets
  <2>1. BucketOk(buckets[k])
    BY <1>5 DEF IInv
  <2>2. Start(h) <= buckets[k].window_start
    BY <1>5 DEF Windows, LastWindow
  <2>3. buckets[k].window_start + Window <= r
    BY <1>1, <1>5, <2>1, LimiterAssumption DEF InWindow, BucketOk
  <2> QED BY <1>1, <1>2, <2>1, <2>2, <2>3, LimiterAssumption DEF BucketOk
<1> QED BY <1>4, <1>5

\* Where the new grant stands among those of its client.
LEMMA GrantPlaced ==
  ASSUME IInv, Windows, StallsShort, NEW k \in Keys, NEW r \in 1..clock,
         clock <= r + MaxStall, NEW g,
         OthersKept(k, r), BucketOk(buckets'[k]), clock' = clock,
         Opened(k, r, g) \/ Continued(k, r, g)
  PROVE  /\ \A h \in granted : h.key = k =>
              /\ Start(h) <= Start(g)
              /\ Start(h) = Start(g) => Place(h) < Place(g)
              /\ Start(h) < Start(g) => Start(h) + Window <= clock
         /\ \/ clock <= Start(g) + MaxStall
            \/ \E h \in granted : h.key = k /\ Start(h) = Start(g)
<1>0. Start(g) = buckets'[k].window_start /\ Place(g) = buckets'[k].count
  BY GrantKeeps
<1>1. CASE Opened(k, r, g)
  <2>1. Start(g) = r /\ ~InWindow(k, r)
    BY <1>0, <1>1 DEF Opened
  <2>2. \A h \in granted : h.key = k => Start(h) < r /\ Start(h) + Window <= clock
    BY <2>1, OpenedIsLast
  <2>3. \A h \in granted : Start(h) \in Nat
    <3> TAKE h \in granted
    <3>1. GrantOk(h) /\ clock \in Nat
      BY LimiterAssumption DEF IInv, TypeOK
    <3> QED BY <3>1 DEF GrantOk
  <2> QED BY <2>1, <2>2, <2>3
<1>2. CASE Continued(k, r, g)
  <2>1. /\ k \in DOMAIN buckets /\ Start(g) = buckets[k].window_start
        /\ Place(g) = buckets[k].count + 1
    BY <1>0, <1>2 DEF Continued, InWindow
  <2>2. BucketOk(buckets[k]) /\ clock \in Nat
    BY <2>1, LimiterAssumption DEF IInv, TypeOK
  <2>3. 1 \in 1..buckets[k].count
    BY <2>2, LimiterAssumption DEF BucketOk
  <2>4. PICK f \in granted : f.key = k /\ Start(f) = buckets[k].window_start
    BY <2>1, <2>3 DEF IInv, Counted
  <2>5. f.at <= clock /\ f.at \in Nat
    <3>1. GrantOk(f)
      BY DEF IInv
    <3> QED BY <2>2, <3>1 DEF GrantOk
  <2>6. ASSUME NEW h \in granted, h.key = k
        PROVE  /\ Start(h) <= Start(g)
               /\ Start(h) = Start(g) => Place(h) < Place(g)
               /\ Start(h) < Start(g) => Start(h) + Window <= clock
    <3>1. /\ Start(h) <= buckets[k].window_start
          /\ Start(h) = buckets[k].window_start => Place(h) <= buckets[k].count
      BY <2>1, <2>6 DEF Windows, LastWindow
    <3>2. Start(h) < Start(f) => Start(h) + Window <= f.at
      BY <2>4, <2>6 DEF Windows, OneAfterTheOther
    <3>3. Start(h) \in Nat /\ Place(h) \in Nat
      <4>1. GrantOk(h)
        BY DEF IInv
      <4> QED BY <2>2, <4>1, LimiterAssumption DEF GrantOk
    <3> QED BY <2>1, <2>2, <2>4, <2>5, <3>1, <3>2, <3>3, LimiterAssumption DEF BucketOk
  <2> QED BY <2>1, <2>4, <2>6
<1> QED BY <1>1, <1>2

\* The windows of a client follow each other after the grant too.
LEMMA GrantKeepsWindows ==
  ASSUME IInv, Windows, StallsShort, NEW k \in Keys, NEW r \in 1..clock,
         clock <= r + MaxStall, NEW g,
         OthersKept(k, r), BucketOk(buckets'[k]), clock' = clock,
         Opened(k, r, g) \/ Continued(k, r, g)
  PROVE  Windows'
<1>0. clock \in Nat /\ \A h \in granted : GrantOk(h)
  BY LimiterAssumption DEF IInv, TypeOK
<1>1. /\ granted' = granted \cup {g} /\ GrantOk(g)
      /\ Start(g) = buckets'[k].window_start /\ Place(g) = buckets'[k].count
  BY GrantKeeps
<1>2. g.key = k /\ g.at = clock
  BY DEF Opened, Continued, NewGrant
<1>3. /\ \A h \in granted : h.key = k =>
           /\ Start(h) <= Start(g)
           /\ Start(h) = Start(g) => Place(h) < Place(g)
           /\ Start(h) < Start(g) => Start(h) + Window <= clock
      /\ \/ clock <= Start(g) + MaxStall
         \/ \E h \in granted : h.key = k /\ Start(h) = Start(g)
  BY GrantPlaced
<1>4. \A h \in granted' : /\ Start(h) \in Nat /\ Place(h) \in Nat
                          /\ h.at \in Nat /\ h.at <= clock
  BY <1>0, <1>1, LimiterAssumption DEF GrantOk
<1>5. OnePerPlace'
  <2> SUFFICES ASSUME NEW f \in granted', NEW h \in granted', f.key = h.key,
                      Start(f) = Start(h), Place(f) = Place(h)
               PROVE  f = h
    BY DEF OnePerPlace, Start, Place
  <2>1. CASE f \in granted /\ h \in granted
    BY <2>1 DEF Windows, OnePerPlace
  <2>2. CASE f = g /\ h \in granted
    BY <1>2, <1>3, <1>4, <2>2
  <2>3. CASE h = g /\ f \in granted
    BY <1>2, <1>3, <1>4, <2>3
  <2> QED BY <1>1, <2>1, <2>2, <2>3
<1>6. OpensSoon'
  <2> SUFFICES ASSUME NEW f \in granted'
               PROVE  \E h \in granted' :
                        h.key = f.key /\ Start(h) = Start(f) /\ h.at <= Start(h) + MaxStall
    BY DEF OpensSoon, Start
  <2>1. CASE f \in granted
    BY <1>1, <2>1 DEF Windows, OpensSoon
  <2>2. CASE f = g /\ clock <= Start(g) + MaxStall
    BY <1>1, <1>2, <2>2
  <2>3. CASE f = g /\ \E h \in granted : h.key = k /\ Start(h) = Start(g)
    <3>1. PICK h \in granted : h.key = k /\ Start(h) = Start(g)
      BY <2>3
    <3> QED BY <1>1, <1>2, <2>3, <3>1 DEF Windows, OpensSoon
  <2> QED BY <1>1, <1>3, <2>1, <2>2, <2>3
<1>7. OneAfterTheOther'
  <2> SUFFICES ASSUME NEW f \in granted', NEW h \in granted', f.key = h.key,
                      Start(f) < Start(h)
               PROVE  f.at <= h.at /\ Start(f) + Window <= h.at
    BY DEF OneAfterTheOther, Start
  <2>1. CASE f \in granted /\ h \in granted
    BY <2>1 DEF Windows, OneAfterTheOther
  <2>2. CASE f = g /\ h \in granted
    BY <1>2, <1>3, <1>4, <2>2
  <2>3. CASE h = g /\ f \in granted
    BY <1>2, <1>3, <1>4, <2>3
  <2>4. CASE f = g /\ h = g
    BY <1>4, <2>4
  <2> QED BY <1>1, <2>1, <2>2, <2>3, <2>4
<1>8. LastWindow'
  <2> SUFFICES ASSUME NEW h \in granted'
               PROVE  IF h.key \in DOMAIN buckets'
                      THEN /\ Start(h) <= buckets'[h.key].window_start
                           /\ Start(h) = buckets'[h.key].window_start
                                => Place(h) <= buckets'[h.key].count
                      ELSE Start(h) + Window <= clock'
    BY DEF LastWindow, Start, Place
  <2>1. k \in DOMAIN buckets'
    BY DEF OthersKept
  <2>2. CASE h.key = k
    BY <1>1, <1>2, <1>3, <1>4, <2>1, <2>2
  <2>3. CASE h.key # k /\ h.key \in DOMAIN buckets'
    <3>1. h \in granted /\ h.key \in DOMAIN buckets /\ buckets'[h.key] = buckets[h.key]
      BY <1>1, <1>2, <2>3 DEF OthersKept
    <3> QED BY <2>3, <3>1 DEF Windows, LastWindow
  <2>4. CASE h.key # k /\ h.key \in DOMAIN buckets \ DOMAIN buckets'
    <3>1. h \in granted /\ buckets[h.key].window_start + Window <= r
      BY <1>1, <1>2, <2>4 DEF OthersKept
    <3>2. Start(h) <= buckets[h.key].window_start /\ BucketOk(buckets[h.key])
      BY <2>4, <3>1 DEF IInv, Windows, LastWindow
    <3> QED BY <1>0, <1>4, <2>4, <3>1, <3>2, LimiterAssumption DEF BucketOk
  <2>5. CASE h.key # k /\ h.key \notin DOMAIN buckets /\ h.key \notin DOMAIN buckets'
    BY <1>1, <1>2, <2>5 DEF Windows, LastWindow
  <2> QED BY <2>2, <2>3, <2>4, <2>5
<1> QED BY <1>5, <1>6, <1>7, <1>8 DEF Windows

\* A refusal changes no bucket but those it prunes.
LEMMA RefusalKeepsWindows ==
  ASSUME IInv, Windows, NEW k \in Keys, NEW r \in 1..clock, clock' = clock,
         OthersKept(k, r), Refused(k, r)
  PROVE  Windows'
<1>0. clock \in Nat /\ granted' = granted /\ \A h \in granted : GrantOk(h)
  BY LimiterAssumption DEF IInv, TypeOK, Refused
<1>1. OnePerPlace' /\ OpensSoon' /\ OneAfterTheOther'
  BY <1>0 DEF Windows, OnePerPlace, OpensSoon, OneAfterTheOther, Start, Place
<1>2. \A j \in DOMAIN buckets' : j \in DOMAIN buckets /\ buckets'[j] = buckets[j]
  BY DEF OthersKept, Refused, InWindow
<1>3. LastWindow'
  <2> SUFFICES ASSUME NEW h \in granted
               PROVE  IF h.key \in DOMAIN buckets'
                      THEN /\ Start(h) <= buckets'[h.key].window_start
                           /\ Start(h) = buckets'[h.key].window_start
                                => Place(h) <= buckets'[h.key].count
                      ELSE Start(h) + Window <= clock'
    BY <1>0 DEF LastWindow, Start, Place
  <2>1. CASE h.key \in DOMAIN buckets \ DOMAIN buckets'
    <3>1. buckets[h.key].window_start + Window <= r
      BY <2>1 DEF OthersKept
    <3>2. Start(h) <= buckets[h.key].window_start /\ BucketOk(buckets[h.key])
      BY <2>1 DEF IInv, Windows, LastWindow
    <3>3. Start(h) \in Nat
      BY <1>0 DEF GrantOk
    <3> QED BY <1>0, <2>1, <3>1, <3>2, <3>3, LimiterAssumption DEF BucketOk
  <2>2. CASE h.key \in DOMAIN buckets' \/ h.key \notin DOMAIN buckets
    BY <1>2, <2>2 DEF Windows, LastWindow
  <2> QED BY <2>1, <2>2
<1> QED BY <1>1, <1>3 DEF Windows

LEMMA AllowKeeps ==
  ASSUME IInv, NEW t \in Threads, allow(t)
  PROVE  IInv'
<1> DEFINE k == call[t].key
           r == call[t].now
<1>0. /\ clock \in 1..MaxTime /\ clock \in Nat /\ DOMAIN buckets \subseteq Keys
      /\ call \in [Threads -> Calls \cup {NoCall}]
      /\ granted \subseteq [key : Keys, nth : Nat, at : 1..clock, bucket : Bucket]
      /\ \A j \in DOMAIN buckets : BucketOk(buckets[j])
      /\ \A h \in granted : GrantOk(h)
  BY LimiterAssumption DEF IInv, TypeOK
<1>1. /\ call[t] # NoCall /\ clock' = clock /\ call' = [call EXCEPT ![t] = NoCall]
      /\ OthersKept(k, r) /\ BucketOk(buckets'[k])
  BY AllowDoes
<1>2. \/ Refused(k, r)
      \/ \E g : Opened(k, r, g)
      \/ \E g : Continued(k, r, g)
  BY AllowDoes
<1>3. k \in Keys /\ r \in 1..clock /\ clock <= r + MaxStall
  BY <1>1 DEF IInv, Reading
<1> HIDE DEF k, r
<1>4. /\ DOMAIN buckets' \subseteq Keys
      /\ \A j \in DOMAIN buckets' : BucketOk(buckets'[j])
  BY <1>0, <1>1, <1>3 DEF OthersKept
<1>5. \A j \in DOMAIN buckets' : BucketOk(buckets[j])'
  BY <1>1, <1>4 DEF BucketOk
<1>6. call' \in [Threads -> Calls \cup {NoCall}] /\ \A s \in Threads : Reading(call[s])'
  <2>1. call' \in [Threads -> Calls \cup {NoCall}]
    BY <1>0, <1>1
  <2>2. \A s \in Threads : call'[s] = NoCall \/ call'[s] = call[s]
    BY <1>0, <1>1
  <2>3. ASSUME NEW s \in Threads PROVE Reading(call[s])'
    <3>1. Reading(call[s])
      BY DEF IInv
    <3> QED BY <1>1, <2>2, <3>1 DEF Reading
  <2> QED BY <2>1, <2>3
<1>7. /\ granted' \subseteq [key : Keys, nth : Nat, at : 1..clock, bucket : Bucket]
      /\ \A h \in granted' : GrantOk(h)
      /\ Numbered' /\ Counted' /\ (StallsShort => Windows')
  <2>1. CASE Refused(k, r)
    <3>1. granted' = granted
      BY <2>1 DEF Refused
    <3>2. Numbered'
      BY <3>1 DEF IInv, Numbered, Of
    <3>3. \A j \in DOMAIN buckets' : j \in DOMAIN buckets /\ buckets'[j] = buckets[j]
      BY <1>1, <2>1 DEF OthersKept, Refused, InWindow
    <3>4. Counted'
      BY <3>1, <3>3 DEF IInv, Counted, Start, Place
    <3>5. StallsShort => Windows'
      BY <1>1, <1>3, <2>1, RefusalKeepsWindows DEF IInv
    <3> QED BY <1>0, <3>1, <3>2, <3>4, <3>5
  <2>2. ASSUME NEW g, Opened(k, r, g) \/ Continued(k, r, g)
        PROVE  /\ granted' \subseteq [key : Keys, nth : Nat, at : 1..clock, bucket : Bucket]
               /\ \A h \in granted' : GrantOk(h)
               /\ Numbered' /\ Counted' /\ (StallsShort => Windows')
    <3>1. granted' = granted \cup {g} /\ GrantOk(g) /\ Counted'
      BY <1>1, <1>3, <2>2, GrantKeeps
    <3>2. NewGrant(g, k)
      BY <2>2 DEF Opened, Continued
    <3>3. Numbered'
      BY <3>2, GrantIsNew
    <3>4. StallsShort => Windows'
      BY <1>1, <1>3, <2>2, GrantKeepsWindows DEF IInv
    <3>5. g \in [key : Keys, nth : Nat, at : 1..clock, bucket : Bucket]
      BY <3>2 DEF NewGrant
    <3> QED BY <1>0, <3>1, <3>3, <3>4, <3>5
  <2> QED BY <1>2, <2>1, <2>2
<1>8. \A h \in granted' : GrantOk(h)'
  BY <1>1, <1>7 DEF GrantOk, Start, Place
<1>9. TypeOK'
  <2>1. granted' \subseteq [key : Keys, nth : Nat, at : 1..clock', bucket : Bucket]
    BY <1>1, <1>7
  <2>2. \A j \in DOMAIN buckets' : /\ buckets'[j] \in Bucket
                                   /\ buckets'[j].window_start \in 1..clock'
                                   /\ buckets'[j].count \in 0..MaxPerMinute
    BY <1>1, <1>4, LimiterAssumption DEF BucketOk
  <2> QED BY <1>0, <1>1, <1>4, <1>6, <2>1, <2>2 DEF TypeOK
<1> QED BY <1>5, <1>6, <1>7, <1>8, <1>9 DEF IInv, StallsShort

LEMMA ReadClockKeeps ==
  ASSUME IInv, NEW t \in Threads, allowReadClock(t)
  PROVE  IInv'
<1>1. PICK k \in Keys : call' = [call EXCEPT ![t] = [key |-> k, now |-> clock]]
  BY DEF allowReadClock
<1>2. clock \in 1..MaxTime /\ call \in [Threads -> Calls \cup {NoCall}]
  BY DEF IInv, TypeOK
<1>3. clock' = clock /\ buckets' = buckets /\ granted' = granted
  BY DEF allowReadClock
<1>4. [key |-> k, now |-> clock] \in Calls /\ clock \in 1..clock /\ clock <= clock + MaxStall
  BY <1>2, LimiterAssumption DEF Calls
<1>5. call' \in [Threads -> Calls \cup {NoCall}]
  BY <1>1, <1>2, <1>4
<1>6. \A s \in Threads : Reading(call[s])'
  BY <1>1, <1>2, <1>3, <1>4 DEF IInv, Reading
<1>7. TypeOK'
  BY <1>3, <1>5 DEF IInv, TypeOK
<1>8. /\ \A j \in DOMAIN buckets' : BucketOk(buckets[j])'
      /\ \A g \in granted' : GrantOk(g)'
      /\ Numbered' /\ Counted'
  BY <1>3 DEF IInv, BucketOk, GrantOk, Numbered, Of, Counted, Start, Place
<1>9. Windows => Windows'
  BY <1>3 DEF Windows, OnePerPlace, OpensSoon, OneAfterTheOther, LastWindow, Start, Place
<1> QED BY <1>6, <1>7, <1>8, <1>9 DEF IInv, StallsShort

LEMMA TickKeeps == ASSUME IInv, tick PROVE IInv'
<1>1. /\ clock \in 1..MaxTime /\ clock < MaxTime /\ clock' = clock + 1
      /\ buckets' = buckets /\ call' = call /\ granted' = granted
      /\ \A s \in Threads : call[s] # NoCall => clock < call[s].now + MaxStall
  BY DEF IInv, TypeOK, tick
<1>2. clock \in Nat /\ clock' \in 1..MaxTime /\ 1..clock \subseteq 1..clock'
  BY <1>1, LimiterAssumption
<1>3. \A s \in Threads : Reading(call[s])'
  <2> SUFFICES ASSUME NEW s \in Threads, call[s] # NoCall
               PROVE  /\ call[s].key \in Keys /\ call[s].now \in 1..clock'
                      /\ clock' <= call[s].now + MaxStall
    BY <1>1 DEF Reading
  <2>1. call[s].key \in Keys /\ call[s].now \in 1..clock
    BY DEF IInv, Reading
  <2> QED BY <1>1, <1>2, <2>1, LimiterAssumption
<1>4. \A k \in DOMAIN buckets : BucketOk(buckets[k])'
  BY <1>1, <1>2 DEF IInv, BucketOk
<1>5. \A g \in granted : GrantOk(g)'
  BY <1>1, <1>2 DEF IInv, GrantOk, Start, Place
<1>6. TypeOK'
  <2>1. granted \subseteq [key : Keys, nth : Nat, at : 1..clock', bucket : Bucket]
    BY <1>2 DEF IInv, TypeOK
  <2> QED BY <1>1, <1>2, <1>4, <2>1 DEF IInv, TypeOK, BucketOk
<1>7. Numbered' /\ Counted'
  BY <1>1 DEF IInv, Numbered, Of, Counted, Start, Place
<1>8. Windows => Windows'
  <2>1. OnePerPlace /\ OpensSoon /\ OneAfterTheOther
          => OnePerPlace' /\ OpensSoon' /\ OneAfterTheOther'
    BY <1>1 DEF OnePerPlace, OpensSoon, OneAfterTheOther, Start, Place
  <2>2. ASSUME LastWindow PROVE LastWindow'
    <3>1. \A g \in granted : Start(g) \in Nat
      <4> TAKE g \in granted
      <4>1. GrantOk(g)
        BY DEF IInv
      <4> QED BY <1>2, <4>1 DEF GrantOk
    <3>2. \A g \in granted : Start(g) + Window <= clock => Start(g) + Window <= clock'
      BY <1>1, <1>2, <3>1, LimiterAssumption
    <3> QED BY <1>1, <2>2, <3>2 DEF LastWindow, Start, Place
  <2> QED BY <2>1, <2>2 DEF Windows
<1> QED BY <1>1, <1>3, <1>4, <1>5, <1>6, <1>7, <1>8 DEF IInv, StallsShort

LEMMA InitKeeps == Init => IInv
<1> SUFFICES ASSUME Init PROVE IInv
  OBVIOUS
<1>1. 1 \in 1..MaxTime
  BY LimiterAssumption
<1>2. call = [t \in Threads |-> NoCall]
  BY DEF Init
<1>3. call \in [Threads -> Calls \cup {NoCall}]
  BY <1>2
<1>4. \A t \in Threads : Reading(call[t])
  BY <1>2 DEF Reading
<1>5. granted = {} /\ buckets = [k \in {} |-> 0] /\ clock = 1
  BY DEF Init
<1>6. Numbered
  BY <1>5, FS_EmptySet DEF Numbered
<1>7. Counted /\ Windows
  BY <1>5 DEF Counted, Windows, OnePerPlace, OpensSoon, OneAfterTheOther, LastWindow
<1> QED BY <1>1, <1>3, <1>4, <1>5, <1>6, <1>7 DEF IInv, TypeOK

LEMMA StepKeeps == IInv /\ [Next]_vars => IInv'
<1> SUFFICES ASSUME IInv, [Next]_vars PROVE IInv'
  OBVIOUS
<1>1. CASE Next
  BY <1>1, AllowKeeps, ReadClockKeeps, TickKeeps DEF Next
<1>2. CASE UNCHANGED vars
  BY <1>2 DEF vars, IInv, TypeOK, Reading, BucketOk, GrantOk, Numbered, Of, Counted, Start,
              Place, StallsShort, Windows, OnePerPlace, OpensSoon, OneAfterTheOther, LastWindow
<1> QED BY <1>1, <1>2

\* The invariant: the buckets account for the grants, and the windows of each
\* client follow each other.
THEOREM LimiterInductive == Spec => []IInv
<1> QED BY InitKeeps, StepKeeps, PTL DEF Spec

\* However late a session thread gets to the mutex, the bucket of its client
\* never counts more than bind_rate_limit binds and never lies in the future.
THEOREM BucketsWithinLimit == Spec => []TypeOK
<1>1. IInv => TypeOK
  BY DEF IInv
<1> QED BY <1>1, LimiterInductive, PTL

-----------------------------------------------------------------------------
\* Grants that are told apart by their place in one window are at most as many
\* as the limit.
LEMMA WindowHoldsLimit ==
  ASSUME NEW G, NEW x,
         \A g \in G : Start(g) = x /\ Place(g) \in 1..MaxPerMinute,
         \A g, h \in G : Place(g) = Place(h) => g = h
  PROVE  IsFiniteSet(G) /\ Cardinality(G) \in Nat /\ Cardinality(G) <= MaxPerMinute
<1> DEFINE f == [g \in G |-> Place(g)]
<1>1. f \in Injection(G, 1..MaxPerMinute)
  BY DEF Injection, IsInjective
<1>2. IsFiniteSet(1..MaxPerMinute) /\ Cardinality(1..MaxPerMinute) = MaxPerMinute
  BY FS_Interval, LimiterAssumption
<1>3. IsFiniteSet(G) /\ Cardinality(G) <= MaxPerMinute
  BY <1>1, <1>2, FS_Injection
<1> QED BY <1>3, FS_CardinalityType

\* In a stretch as long as a window a client is let through in at most three
\* windows.
LEMMA NoFourWindows ==
  ASSUME IInv, Windows, StallsShort, NEW k \in Keys, NEW a \in 1..clock,
         NEW g1 \in granted, NEW g2 \in granted, NEW g3 \in granted, NEW g4 \in granted,
         g1.key = k, g2.key = k, g3.key = k, g4.key = k,
         a <= g1.at, g4.at <= a + Window - 1,
         Start(g1) < Start(g2), Start(g2) < Start(g3), Start(g3) < Start(g4)
  PROVE  FALSE
<1>0. clock \in Nat /\ \A g \in granted : Start(g) \in Nat /\ g.at \in Nat
  <2>1. clock \in Nat /\ \A g \in granted : GrantOk(g)
    BY LimiterAssumption DEF IInv, TypeOK
  <2> QED BY <2>1 DEF GrantOk
<1>1. PICK h2 \in granted : h2.key = k /\ Start(h2) = Start(g2) /\ h2.at <= Start(g2) + MaxStall
  BY DEF Windows, OpensSoon
<1>2. PICK h3 \in granted : h3.key = k /\ Start(h3) = Start(g3) /\ h3.at <= Start(g3) + MaxStall
  BY DEF Windows, OpensSoon
<1>3. g1.at <= h2.at
  BY <1>1 DEF Windows, OneAfterTheOther
<1>4. Start(g2) + Window <= h3.at
  BY <1>2 DEF Windows, OneAfterTheOther
<1>5. Start(g3) + Window <= g4.at
  BY DEF Windows, OneAfterTheOther
<1> QED BY <1>0, <1>1, <1>2, <1>3, <1>4, <1>5, LimiterAssumption DEF StallsShort

\* For any number of clients and threads: if no thread waits for more than half
\* a window between its reading of the clock and the mutex, no client is let
\* through more than three times bind_rate_limit in any stretch as long as a
\* window, old readings and pruned buckets included.
THEOREM BurstsWithinThreeLimits == Spec => []BurstBounded
<1>1. IInv => BurstBounded
  <2> SUFFICES ASSUME IInv, StallsShort, NEW k \in Keys, NEW a \in 1..clock
               PROVE  Passed(k, a, a + Window - 1) <= 3 * MaxPerMinute
    BY DEF BurstBounded
  <2> DEFINE G == {g \in granted : g.key = k /\ g.at \in a..(a + Window - 1)}
             In(x) == {g \in G : Start(g) = x}
  <2>0. Windows /\ clock \in Nat /\ a \in Nat /\ \A g \in granted : GrantOk(g)
    BY LimiterAssumption DEF IInv, TypeOK
  <2>1. \A g \in G : /\ Start(g) \in Nat /\ g.at \in Nat
                     /\ a <= g.at /\ g.at <= a + Window - 1
    BY <2>0, LimiterAssumption DEF GrantOk
  <2>2. ASSUME NEW x
        PROVE  IsFiniteSet(In(x)) /\ Cardinality(In(x)) \in Nat /\ Cardinality(In(x)) <= MaxPerMinute
    <3>1. \A g \in In(x) : Start(g) = x /\ Place(g) \in 1..MaxPerMinute
      BY <2>0 DEF GrantOk
    <3>2. \A g, h \in In(x) : Place(g) = Place(h) => g = h
      BY <2>0 DEF Windows, OnePerPlace
    <3> HIDE DEF In, G
    <3> QED BY <3>1, <3>2, WindowHoldsLimit
  <2>3. \A g1, g2, g3, g4 \in G :
          ~(Start(g1) < Start(g2) /\ Start(g2) < Start(g3) /\ Start(g3) < Start(g4))
    BY <2>0, <2>1, NoFourWindows
  <2>4. Passed(k, a, a + Window - 1) = Cardinality(G)
    BY DEF Passed
  <2>5. \E x, y, z : G \subseteq In(x) \cup In(y) \cup In(z)
    <3> SUFFICES ASSUME \A x, y, z : ~(G \subseteq In(x) \cup In(y) \cup In(z)) PROVE FALSE
      OBVIOUS
    <3>1. \A x, y, z : \E g \in G : Start(g) # x /\ Start(g) # y /\ Start(g) # z
      BY DEF In
    <3> HIDE DEF G, In
    <3>2. PICK g1 \in G : TRUE
      BY <3>1
    <3>3. PICK g2 \in G : Start(g2) # Start(g1)
      BY <3>1
    <3>4. PICK g3 \in G : Start(g3) # Start(g1) /\ Start(g3) # Start(g2)
      BY <3>1
    <3>5. PICK g4 \in G : Start(g4) # Start(g1) /\ Start(g4) # Start(g2) /\ Start(g4) # Start(g3)
      BY <3>1
    <3> QED BY <2>1, <2>3, <3>3, <3>4, <3>5
  <2>6. PICK x, y, z : G \subseteq In(x) \cup In(y) \cup In(z)
    BY <2>5
  <2> DEFINE X == In(x)
             Y == In(y)
             Z == In(z)
  <2>7. /\ IsFiniteSet(X) /\ Cardinality(X) \in Nat /\ Cardinality(X) <= MaxPerMinute
        /\ IsFiniteSet(Y) /\ Cardinality(Y) \in Nat /\ Cardinality(Y) <= MaxPerMinute
        /\ IsFiniteSet(Z) /\ Cardinality(Z) \in Nat /\ Cardinality(Z) <= MaxPerMinute
    BY <2>2
  <2> HIDE DEF X, Y, Z, In
  <2>8. IsFiniteSet(X \cup Y) /\ Cardinality(X \cup Y) \in Nat /\ Cardinality(X \cup Y) <= 2 * MaxPerMinute
    <3>1. /\ IsFiniteSet(X \cup Y)
          /\ Cardinality(X \cup Y) = Cardinality(X) + Cardinality(Y) - Cardinality(X \cap Y)
      BY <2>7, FS_Union
    <3>2. IsFiniteSet(X \cap Y) /\ Cardinality(X \cap Y) \in Nat
      BY <2>7, FS_Intersection, FS_CardinalityType
    <3> QED BY <2>7, <3>1, <3>2, FS_CardinalityType, LimiterAssumption
  <2>9. /\ IsFiniteSet((X \cup Y) \cup Z) /\ Cardinality((X \cup Y) \cup Z) \in Nat
        /\ Cardinality((X \cup Y) \cup Z) <= 3 * MaxPerMinute
    <3> DEFINE U == X \cup Y
    <3>0. IsFiniteSet(U) /\ Cardinality(U) \in Nat /\ Cardinality(U) <= 2 * MaxPerMinute
      BY <2>8
    <3> HIDE DEF U
    <3>1. /\ IsFiniteSet(U \cup Z)
          /\ Cardinality(U \cup Z) = Cardinality(U) + Cardinality(Z) - Cardinality(U \cap Z)
      BY <2>7, <3>0, FS_Union
    <3>2. IsFiniteSet(U \cap Z) /\ Cardinality(U \cap Z) \in Nat
      BY <3>0, FS_Intersection, FS_CardinalityType
    <3>3. /\ IsFiniteSet(U \cup Z) /\ Cardinality(U \cup Z) \in Nat
          /\ Cardinality(U \cup Z) <= 3 * MaxPerMinute
      BY <2>7, <3>0, <3>1, <3>2, FS_CardinalityType, LimiterAssumption
    <3> QED BY <3>3 DEF U
  <2>10. G \subseteq (X \cup Y) \cup Z
    BY <2>6 DEF X, Y, Z
  <2> HIDE DEF G
  <2>11. IsFiniteSet(G) /\ Cardinality(G) <= Cardinality((X \cup Y) \cup Z)
    BY <2>9, <2>10, FS_Subset
  <2>12. Cardinality(G) \in Nat
    BY <2>11, FS_CardinalityType
  <2> QED BY <2>4, <2>9, <2>11, <2>12, LimiterAssumption
<1> QED BY <1>1, LimiterInductive, PTL

\* A call that ends without a grant was refused.
LEMMA EndsWithoutGrant ==
  ASSUME IInv, Next, NEW t \in Threads, call[t] # NoCall, call'[t] = NoCall,
         granted' = granted
  PROVE  Refused(call[t].key, call[t].now)
<1>0. call \in [Threads -> Calls \cup {NoCall}]
  BY DEF IInv, TypeOK
<1>1. ~tick
  BY DEF tick
<1>2. ASSUME NEW s \in Threads PROVE ~allowReadClock(s)
  <2> SUFFICES ASSUME allowReadClock(s) PROVE FALSE
    OBVIOUS
  <2>1. call[s] = NoCall /\ \E k \in Keys : call' = [call EXCEPT ![s] = [key |-> k, now |-> clock]]
    BY DEF allowReadClock
  <2>2. s # t
    BY <2>1
  <2> QED BY <1>0, <2>1, <2>2
<1>3. ASSUME NEW s \in Threads, s # t PROVE ~allow(s)
  <2> SUFFICES ASSUME allow(s) PROVE FALSE
    OBVIOUS
  <2>1. call' = [call EXCEPT ![s] = NoCall]
    BY DEF allow
  <2> QED BY <1>0, <1>3, <2>1
<1>4. allow(t)
  BY <1>1, <1>2, <1>3 DEF Next
<1>5. \/ Refused(call[t].key, call[t].now)
      \/ \E g : Opened(call[t].key, call[t].now, g)
      \/ \E g : Continued(call[t].key, call[t].now, g)
  BY <1>4, AllowDoes
<1>6. ASSUME NEW g PROVE ~NewGrant(g, call[t].key)
  <2> SUFFICES ASSUME NewGrant(g, call[t].key) PROVE FALSE
    OBVIOUS
  <2>1. g \notin granted
    BY GrantIsNew
  <2> QED BY <2>1 DEF NewGrant
<1> QED BY <1>5, <1>6 DEF Opened, Continued

\* For any number of clients and threads, and however long they are held up:
\* a client is turned away only if it was let through bind_rate_limit times in
\* the last window, give or take the age of a reading of the clock.
THEOREM RefusalsAreJustified == Spec => RefusalJustified
<1>1. ASSUME IInv, [Next]_vars
      PROVE  [\A t \in Threads :
                call[t] # NoCall /\ call'[t] = NoCall /\ granted' = granted =>
                  Passed(call[t].key, clock + 1 - (Window + MaxStall), clock) >= MaxPerMinute]_vars
  <2> SUFFICES ASSUME Next, NEW t \in Threads, call[t] # NoCall, call'[t] = NoCall,
                      granted' = granted
               PROVE  Passed(call[t].key, clock + 1 - (Window + MaxStall), clock) >= MaxPerMinute
    BY <1>1
  <2> DEFINE k == call[t].key
             r == call[t].now
             x == buckets[k].window_start
             P == {g \in granted : g.key = k /\ g.at \in (clock + 1 - (Window + MaxStall))..clock}
  <2>1. Refused(k, r)
    BY <1>1, EndsWithoutGrant
  <2>2. k \in DOMAIN buckets /\ r < x + Window /\ buckets[k].count = MaxPerMinute
    BY <2>1 DEF Refused, InWindow
  <2>3. r \in 1..clock /\ clock <= r + MaxStall /\ clock \in Nat
    BY <1>1, LimiterAssumption DEF IInv, Reading, TypeOK
  <2>4. x \in Nat /\ clock + 1 - (Window + MaxStall) <= x
    <3>1. x \in Nat
      BY <1>1, <2>2, <2>3 DEF IInv, BucketOk
    <3> HIDE DEF x, r
    <3> QED BY <2>2, <2>3, <3>1, LimiterAssumption
  <2>5. IsFiniteSet(P)
    <3>1. IsFiniteSet(granted) /\ P \subseteq granted
      BY <1>1 DEF IInv, Numbered
    <3> HIDE DEF P
    <3> QED BY <3>1, FS_Subset
  <2>6. \A n \in 1..MaxPerMinute : \E g \in P : Start(g) = x /\ Place(g) = n
    <3> TAKE n \in 1..MaxPerMinute
    <3>1. PICK g \in granted : g.key = k /\ Start(g) = x /\ Place(g) = n
      BY <1>1, <2>2 DEF IInv, Counted
    <3>2. GrantOk(g)
      BY <1>1 DEF IInv
    <3>3. g.at \in Nat /\ g.at <= clock /\ x <= g.at
      BY <2>3, <3>1, <3>2 DEF GrantOk
    <3> HIDE DEF x, k
    <3>4. g.at \in (clock + 1 - (Window + MaxStall))..clock
      BY <2>3, <2>4, <3>3, LimiterAssumption
    <3> QED BY <3>1, <3>4
  <2> HIDE DEF P, x, k, r
  <2> DEFINE f == [n \in 1..MaxPerMinute |-> CHOOSE g \in P : Start(g) = x /\ Place(g) = n]
  <2>7. \A n \in 1..MaxPerMinute : f[n] \in P /\ Place(f[n]) = n
    BY <2>6
  <2>8. f \in Injection(1..MaxPerMinute, P)
    <3>1. f \in [1..MaxPerMinute -> P]
      BY <2>7
    <3>2. \A m, n \in 1..MaxPerMinute : f[m] = f[n] => m = n
      BY <2>7
    <3> HIDE DEF f
    <3> QED BY <3>1, <3>2 DEF Injection, IsInjective
  <2> HIDE DEF f
  <2>9. Cardinality(1..MaxPerMinute) <= Cardinality(P)
    BY <2>5, <2>8, FS_Injection
  <2>10. Cardinality(1..MaxPerMinute) = MaxPerMinute
    BY FS_Interval, LimiterAssumption
  <2>11. Cardinality(P) \in Nat
    BY <2>5, FS_CardinalityType
  <2>12. Passed(k, clock + 1 - (Window + MaxStall), clock) = Cardinality(P)
    BY DEF Passed, P
  <2>13. Passed(k, clock + 1 - (Window + MaxStall), clock) >= MaxPerMinute
    BY <2>9, <2>10, <2>11, <2>12, LimiterAssumption
  <2> QED BY <2>13 DEF k
<1> QED BY <1>1, LimiterInductive, PTL DEF Spec, RefusalJustified
=============================================================================
