# TLA+ models of simple-ldapd

simple-ldapd is a small LDAPv3 server in C++: one process, one thread per
connection, a directory tree in memory that may be written back to an LDIF
file or kept in SQLite. This directory holds TLA+ models of its stateful parts,
TLC configurations that check them on small instances, and proofs that TLAPS
checks. `PROJECT.json` maps every definition to the lines it models.

Paths below are relative to the repository's `src/simple-ldapd/`.

## The system

| Part | State it keeps | Operations | Uses / is used by |
|---|---|---|---|
| Daemon (`core/daemon.cpp`, `core/listener.cpp`, `core/connection.cpp`, `utils/net.cpp`, `main/`) | `running_`, `workers_`, listeners, sockets | start, stop, accept, launch, reap, join; poll, recv, send, handshake | starts a Session per connection |
| Session (`core/session.cpp`) | `bound_`, `bind_dn_`, nonce, last activity | serve; Bind, Search, Compare, Add, Modify, Delete, ModifyDN, StartTLS, Password Modify, Who am I | Backend, authenticators, ACL, schema, rate limiter |
| Authentication (`auth/bind.cpp`, `auth/sasl.cpp`, `auth/gssapi.cpp`) | none; the nonce lives in the session | simple bind, PLAIN, DIGEST-MD5, EXTERNAL, GSSAPI, resolveName | Backend lookups |
| Passwords (`auth/password.cpp`) | none | encode, verify, disabled flag | Session, authentication |
| Access control (`security/acl.cpp`) | the rules, fixed after start | parseAclLine, mayWrite, maySearch | reads the Backend for group rules |
| Schema (`schema/registry.cpp`) | classes and attribute types, fixed after start | loadDirectory, validateEntry | Session |
| Memory backend (`backend/memory.cpp`, `backend/modify.cpp`) | `entries_` under `mutex_` | lookup, search, add, modify, remove, rename, hasChildren | shared by all sessions |
| LDIF backend (`backend/ldif.cpp`) | the file, `persist_mutex_` | import, export, persist | is a memory backend |
| SQLite backend (`backend/sqlite.cpp`) | the database | the same, in transactions | alternative backend |
| Rate limiter (`security/rate_limiter.cpp`) | buckets per client address | allow, prune | called at every bind |
| Names (`utils/dn.cpp`) | none | parent, suffix, compose | everybody |
| Codec (`protocol/ber.cpp`, `protocol/message.cpp`, `protocol/filter.cpp`) | none | BER, messages, filters | Session, tools |
| Client (`cli/client.cpp`) | the connection, whether it is under TLS, the next message id | connect, StartTLS, bind by each mechanism, one call per request | the tools; talks to a Session |
| Tools (`cli/common.cpp`, `main/ldap*.cpp`, `protocol/ldif.cpp`) | options, records to send, the cookie of the next page | parse arguments and LDIF, loop over requests or pages, exit status | Client |
| Configuration, logger, TLS wrapper | the settings | read a file, write a log | everybody |

What is hard in it:

* **Concurrency.** A write handler makes several calls to the backend, and
  only each call on its own is under a lock: what a handler looked up and
  checked may be stale when it stores its copy.
* **Persistence.** Every write rewrites the whole LDIF file. Exports of
  several sessions, changes during an export, failing disks and crashes in the
  middle meet here.
* **Threads.** Session threads are started by the accept thread, counted,
  reaped and joined under a mutex that is not held across the whole of it;
  shutdown races with an accept; sockets block.
* **Authentication** spans several lookups, between which accounts change, and
  DIGEST-MD5 spans two requests.
* **Time.** The rate limiter reads its clock before it has its lock.
* **The wire.** Lengths change their form at 127 and 256, nested several deep;
  a PDU arrives in parts, is over the limit or never ends; the connection may
  break between a request and its answer. A tool must then neither hang nor
  report what it cannot know.

The hazards in `PROJECT.json` list the places.

## The modules

| Module | Models | State and actions |
|---|---|---|
| `DistinguishedName` | `utils/dn.cpp` | operators on names: sequences of `<<type, value>>`, the entry's own RDN first; `parseRdn` of what a client sends, which may have commas |
| `Entries` | `backend/memory.cpp`, `backend/modify.cpp` | operators on trees: a guard and a result for every backend call; `applyModifications` |
| `AccessControl` | `security/acl.cpp` | the acl lines and the rules they give; `mayWrite`, `maySearch` |
| `Passwords` | `auth/password.cpp` | hashing as an injective constant function, verification by scheme, the disabled flag |
| `Schema` | `schema/registry.cpp` | loading of the files, clause by clause; the indexes, SUP chains and `validateEntry`; `EntryConforms` is the reference definition |
| `Filter` | `matches` of `protocol/filter.cpp` | filters as nodes of a table, so that no operator is recursive; `Satisfied` is the reference definition |
| `Directory` | the write handlers of `core/session.cpp` | `tree`, `saved`, and per session the step, request and copy of the entry; one action per backend call with the local work that follows |
| `LdifBackend` | `backend/ldif.cpp` | the tree, the lines of the file, per session its place in a ModifyDN or in `persist()`; open, snapshot, write, fail, crash, import |
| `Backend` | `include/simple-ldapd/backend/backend.hpp` | abstract: what a session may rely on. A call is carried out at once or refused, in one order for all, and kept across crashes |
| `SqliteBackend` | `backend/sqlite.cpp` | the committed tables, those the open transaction sees, the mutex, each session's place in its call; any statement that writes may fail, the process may crash |
| `Search` | Search and Compare of `core/session.cpp`, the group lookups of `security/acl.cpp`, the paging loop of `main/ldapsearch.cpp` | one session and its client; one action per backend call and per entry sent; the directory changes between them |
| `Gssapi` | `auth/gssapi.cpp` | operators on tickets: load a keytab, mint, verify |
| `Authentication` | Bind of `core/session.cpp`, `auth/bind.cpp`, `auth/sasl.cpp` | one session; one action per backend call; the directory changes between them |
| `RateLimiter` | `security/rate_limiter.cpp` | the clock, the buckets, per thread the reading it holds |
| `Daemon` | `core/daemon.cpp`, `utils/net.cpp`, the loop of `Session::serve` | main, accept and session threads, the thread lists, and each connection |
| `Ber` | `protocol/ber.cpp` | the writer as operators that give octets, the reader as what it can read of a sequence of them; the width of integers is a constant |
| `FilterCodec` | parsing and wire form of `protocol/filter.cpp` | text to filter, filter to octets and back |
| `Message` | `protocol/message.cpp` | encoder and decoder of every message, control and extended value |
| `LdifText` | `protocol/ldif.cpp` | content and change records from the lines of a file; `File` writes the lines of given requests |
| `Tools` | `cli/common.cpp`, the first half of each `main()` | options from arguments, requests from options and input |
| `Exchange` | `cli/client.cpp`, the rest of each `main()`, `Session::serve`, `recvPdu` | one tool and one session, the octets on their way in each direction; the connection may break at any step |
| `Daemon_proofs`, `Directory_proofs` (with `Schema`), `Authentication_proofs`, `Search_proofs` (with `Filter`), `RateLimiter_proofs`, `LdifBackend_proofs`, `SqliteBackend_proofs`, `Exchange_proofs` | | theorems about these modules |
| `MC*` | | constants for TLC |

`Directory` composes `AccessControl`, `Entries`, `DistinguishedName`,
`Passwords` and `Schema`; `Authentication` composes `Passwords`, `Entries` and `Gssapi`;
`Search` composes `AccessControl`, `Passwords` and `Filter`. `SqliteBackend`
implements `Backend`: `Abstract` is an INSTANCE of it whose tree is what
`allEntries` reads from the committed tables. `Directory`
takes `persist()` as one step, `LdifBackend` opens it and takes the
handlers as one step each, but for ModifyDN, of which it has the lookup and
the two writes. `Exchange` composes `Ber`, `FilterCodec`,
`Message`, `LdifText` and `Tools` with a session: it has how a request is made,
arrives and is answered, and leaves what a handler decides to `Directory`,
`Authentication` and `Search` (it answers with any result of `Outcomes`).
`Daemon` leaves out what a request does altogether.

Definitions whose name has a suffix after an underscore (`write_noPersist`) and
whose comment begins with "Mutant" are deliberately wrong versions of the
definition next to them. No specification uses them; they show that the
properties can fail.

### What is abstracted

* Names are compared case-insensitively by the code; here equal names are
  equal values. `utils/dn.cpp` knows no escaping, so a component is a pair. A
  new RDN is a sequence of components, since the code takes any text for it.
  Names with an empty component (`cn=a,,dc=x`) are left out.
* A stored password has a scheme or none. `Scheme` gives the scheme's name and
  the password the value was made of: `{CLEARTEXT}`, `{SSHA}`, `{SHA}`, and
  others, which match nothing.
* Attribute types are strings, values are strings or names.
* A schema file is a sequence of definitions, a definition a keyword and its
  clauses; white space, comments and quotes are left out, and a clause that
  cannot be read has a key that is none. SUP chains may be cyclic and classes
  may name types without a definition, as the code allows.
* An acl line is its words: who, the name after the colon, permission, target.
* A group rule reads the group and the user in two lookups. `Search` has both,
  and writes may come between them; `Directory` takes them as one.
* In `Search` a filter is a node of the constant `Nodes`; how it is parsed and
  sent is in `FilterCodec`. Substring values are letters (`Text`), so that overlaps of the parts show.
* `SqliteBackend` writes a name as `<<name, spelling>>`, because the tables
  keep the spelling while lookups ignore it. `Cut` is what a value becomes when
  it is read back: `columnText` ends at a NUL byte. Statements that read are
  taken to succeed, and the seed file to name nobody twice.
* Digests, certificates and HMACs are what they are computed from. A response
  to a challenge is made of a name, a password and a nonce. `krb_realm` is
  taken to be in upper case.
* The LDIF file of the server is the sequence of its lines, each of them what
  `importFile` takes it for: the start of an entry, an attribute, the end of an
  entry, or nothing. Export writes values as they are, so one with a line break
  becomes several lines (`Lines`), which may start or end an entry; import trims
  what it reads, so an attribute may come back as another. An interrupted write
  leaves a beginning of the lines, the last one cut anywhere (`Cut`).
* Input of a connection is nothing, a part of a PDU, or all of one. What the
  client sends during a handshake counts as input as well.
* In `Exchange` a string is its octets. Object identifiers and the words of
  change records are short stand-ins that differ where the real ones do. TLS
  is a flag on each side: the streams hold what is encrypted. A certificate
  that does not verify, and a client key that cannot be loaded, are both
  `--ca-file bad`. Arguments are already split into an option and its value,
  LDIF lines into name and value.
* The clock is in ticks; the 200 ms slices of the idle timeout are counted.

## What the runs check

| Run | Expect | Shows |
|---|---|---|
| `directory_writes` | pass | Two sessions add, modify, delete, rename and set passwords at once. Every stored entry satisfies the schema (`SchemaHolds`, also with a schema file that breaks off), a write changes only what its identity may write (`WritesAuthorised`), no entry is lost to a rename (`NoEntryLost`), although the handlers' own checks are stale by then, and once every write is followed by its persist the file is the tree (`SavedWhenQuiet`). |
| `directory_serial` | pass | One session under every identity, with renames of leaves: no entry loses its parent, unless a new RDN of several components gave it its name (`NoOrphans`), an error answer means no effect, also for ModifyDN with its two writes (`FailedWriteHasNoEffect`), only the attributes named change (`OnlyNamedAttributesChange`). |
| `password_modify_race` | violation | Password Modify stores a whole copy of the entry. If the account is disabled between its lookup and its store, the disabling is undone. |
| `authentication` | pass | Every mechanism in any order, while other sessions change the directory: a failed bind is anonymous, a session is bound as the account whose proof was checked (with a ticket, one that the holder of the keytab made), and not by a non-empty password in clear when that is forbidden (`BoundAsProven`); a nonce serves one response; disabled accounts are refused. |
| `search` | pass | A paged search or a compare while another session writes. Without writes the answer is exact (`AnswersExact`): the pages are together what was asked for, by the reference definition of the filter, and compare agrees with bind and search. With them every entry sent could be read and matched at a moment of the request (`OnlyReadable`). The client's loop ends (`SearchEnds`). |
| `ldif_backend` | pass | Three sessions write, rename and export, disks fail, the process crashes and restarts. When nobody is writing the file is the export of the tree, or the one it was imported from, unless a ModifyDN was refused half way (`QuietFileCurrent`); acknowledged changes are in the file (`AckedWritesSaved`); a complete export never replaces a newer one (`FileNeverGoesBack`). |
| `ldif_persist_failure` | violation | The same without "the last export went through": Success was answered for a change that is in no file. |
| `sqlite_backend` | pass | Two sessions on one connection, statements that fail, crashes and restarts: no transaction is left open (`NoTransactionLeft`), names and rows stay consistent (`TablesConsistent`), and every call is one step of `Backend` or none (`ImplementsBackend`). |
| `rate_limiter` | pass | Threads with late clock readings, pruning at its limit: at most three times the limit in any stretch as long as a window (`BurstBounded`), and nobody is refused who was not let through that often before (`RefusalJustified`). |
| `daemon` | pass | max_sessions is never exceeded; every thread is in exactly one list that will join it; nothing survives `stop()`; and, for any behaviour of the clients, the accept thread is never held up (as long as accept() does not fail for ever), idle sessions end and the sessions of clients that left end. `stop()` returns if the clients do their part. |
| `client_exchange` | pass | 60 invocations of the seven tools against two servers, octet by octet. The session carries out what the user meant, no more and in the order given (`CarriedOutAsMeant`: arguments, LDIF, filters, encoding, stream and decoding together). The exit status and the output are true of what the server did, wherever the connection broke (`ExitTellsTruth`). Who asked for TLS sends no password in clear, whatever the server answers (`SecretsProtected`). The tool ends (`ToolEnds`). |
| `daemon_stays_up` | violation | A client on the plain port sends a request and hangs up before its answer is written: `send()` ends the process by SIGPIPE. |

### Bounds

* `Directory`: a base, one account and room for a sibling and a child suffice
  for every check of the handlers to pass and to fail; two sessions, because
  every hazard is one handler's check against another's write. The number of
  requests is not bounded: the tree is finite.
* `LdifBackend`: two names, and entries of a value with blanks around it or of
  two values with line breaks, one with a dn line and one with a blank line in
  it, so that an entry can be cut, lost, stale, or come back as others; no
  file or one made by hand at the first start; three sessions, so that one can wait for
  the lock while another writes and a third changes the tree. A handler starts
  while fewer than `MaxChanges` (2) changes were made in this life of the
  process, so that there are up to seven; any number of crashes.
* `RateLimiter`: two keys and a prune limit of two, so that pruning meets live
  and dead buckets; a limit of two, windows of two ticks and readings that are
  up to one tick late; five ticks, so that three windows meet one stretch: the
  bound of three is reached.
* `Authentication`: one account that is enabled, disabled, changed, kept with a
  `{CLEARTEXT}` password or missing
  (`Trees`), `MaxNonces` challenges, `MaxChanges` changes during a run, enough
  to change the account between any two lookups of a bind. The clock shows the
  last and the first second on either side of a ticket's lifetime and skew; the
  keytab is any of five files at each bind.
* `Search`: one group, two or three accounts, one of them in the group by
  `member`, by `memberUid` and `uid`, by `memberUid` and the RDN, by
  `memberOf`, or not at all: six trees, with passwords of every kind of scheme. `MaxChanges` is one change by the
  others per request: a search may then meet any two of the trees, and the
  change may come between any two of its lookups.
* `SqliteBackend`: two names, one in two spellings, and two sessions, so that
  one waits for the mutex or finds what the other left. The number of calls,
  failures and crashes is not bounded.
* `Exchange`: values of 127, 128, 255 and 256 octets, limits of 128, 300 and
  -1, so that lengths and integers are on both sides of each change of form;
  filters of every kind, nested and escaped; LDIF in three styles, with several
  changes in a record and several records; results of three pages. `Wide` and
  `Narrow` are 3 and 2 octets where the code has 8 and 4: the same comparisons,
  with numbers that TLC can hold. One server takes TLS, the other refuses it
  and has a limit of 200 octets, which some of the requests are over.
  Each connection may break once, at any step.
* The schema of `Directory`'s runs has three files, the second of which breaks off at a
  definition that cannot be parsed, a type without definition that a class
  allows, and a cyclic SUP chain.
* `Daemon`: two clients, one on each port, `MaxSessions` 1 so that the limit
  is met, and a timeout of two slices. `daemon_stays_up` has the plain port
  only, so that the trace is about `send()`.

Deadlock is not checked where the model may end: `MaxChanges` or `MaxTime` is
used up, or the daemon has stopped.

### Fairness

`Search` assumes that the session thread goes on if it can, and so does the
client, which reads what it is sent or hangs up (`sendFails`). `Exchange` assumes it of the tool
and of the session thread, each a process that nothing but the other's octets
can hold up, and that connect() comes back; the connection need not break, and the session need not leave. In `Daemon`,
`ServerFairness` says that each thread
of the server that can take a step takes one in the end: the threads are the
operating system's, and no step of them waits for a lock that is held across a
blocking call (workers_mutex_ is released before the joins). A send to a
client that stays but does not read is not among these steps, nor is anything a client
does, nor is a signal. `AcceptNotBlocked` has one more hypothesis,
`DescriptorsFree`: accept() may fail any number of times (`acceptFails`), but
not for ever while it is tried again. `Cooperation` adds that a client which owes the rest of
a PDU or of a handshake sends it or hangs up, and that an answer is read. The
code guarantees nothing of the kind, and without it `stop()` may wait
forever; it is a hypothesis of `StopReturnsWithCooperation` only.

## What does not hold

Met while modelling; the runs above do not claim them.

* *Orphans.* `handleDelete` looks for children, then removes; `handleAdd`
  looks for the parent, then adds. Between the two, another session can take
  the parent away. A ModifyDN of an entry with children leaves them behind
  even with one session: `rename` moves one entry. And a new RDN is any text:
  with `cn=a,ou=g` only the superior is looked up, and the entry is put under
  an `ou=g` that need not be there. `NoOrphans` is for one session and renames of
  leaves, and leaves out the names that new RDNs of several components make
  (`UncheckedNames`); such requests are among those of the run, and what is
  added below these names is covered again.
* *Half a ModifyDN.* The RDN values are stored first, then the entry is
  renamed. If another session takes the new name in between, the client gets
  an error, yet the values have changed, and nobody persists them until
  the next write. `FailedWriteHasNoEffect` is for one session; `half` marks it
  in `Directory` and in `LdifBackend`, and `SavedWhenQuiet` and
  `QuietFileCurrent` except it.
* *Values with line breaks.* The LDIF backend writes a value as it is. After a
  restart the part behind a line break is another attribute, the start of
  another entry, or gone, and blanks at the ends of a value are gone. A blank
  line in a value leaves what follows to the next entry of the file. The
  properties of `LdifBackend` are about what the file says, not about the tree
  before and after a restart.
* *Lost updates.* Modify reads an entry and stores a changed copy; of two at
  once, the later store wins. `OnlyNamedAttributesChange` is for one session;
  `password_modify_race` is the case that matters most.
* *A crash during an export* leaves a truncated file, and the next start
  imports what is there. An *unreadable file* at start is only logged, and the
  first write replaces it. Both are steps of `LdifBackend`; `failed` marks the
  second.
* *Shutdown.* `stop()` waits forever for a session in the middle of a PDU, of
  a handshake, or of sending, if its client neither goes on nor hangs up:
  those reads have no timeout.
* *Threads.* If a thread cannot be started, the constructor of std::thread
  throws in `launchSession`, and nobody catches it: the process ends. This is
  not modelled.
* *Name of a bound session.* A simple bind resolves the name a second time
  after the password was checked. If the account has gone by then, the session
  is bound to the text the client sent.
* *GSSAPI settings.* `gssapi_service` is never used: `loadGssapiKeytab` sets a
  default itself before the setting is looked at. A `krb_realm` in lower case
  passes the comparison with the ticket's realm, but not the HMAC. A ticket may
  be used again until it expires.
* *Pages under writes.* The cookie is an offset into what the next request
  finds. If an entry before it comes or goes between two pages, one entry is
  returned twice or not at all. The size limit counts per page.
* *Access at no single moment.* A group rule reads the group, then the user.
  If both change in between, a rule may match although it did not before and
  does not after; `OnlyReadable` allows two moments for this reason.
* *Existence.* Search answers NoSuchObject for a missing base before it asks
  for access, so the answer tells missing from unreadable.
* *SQLite reads.* A read that fails is taken as "no such row". A seed file
  with two spellings of a name is stored with both.
* *Schema files.* A definition that cannot be parsed ends its file with no more
  than a return value that `initialize()` does not look at: the daemon serves
  with what was read so far. Without any class, every entry is valid.
* *Arguments of the tools.* An option that is not known is skipped
  (`cli/common.cpp:233`): with `-ZZ` the bind goes out in clear. With `-W` and LDIF
  from standard input the password is read after the end of the LDIF, and is
  empty. `SecretsProtected` is about `-Z` and `ldaps`.
* *LDIF of the tools.* A stanza without a dn leaves its attributes and its
  changetype to the next record; folded lines and base64 values are not read as
  such; an attribute called add, delete, replace or newrdn is taken for the
  directive. ldapadd and ldapdelete skip records of other types and exit with
  0. The files of `client_exchange` have a dn in every record and names that are not
  directives; a skipped record is among its calls.
* *Exit status.* 1 is operationsError, a usage error, or a connection that
  broke in ldapsearch; `ExitTellsTruth` says no more of it.
* *Waiting.* The tools have no timeout: `ToolEnds` needs a session that goes on or hangs up.
  Message ids of answers are never compared with those of the requests.
* *Modify operations.* An operation that is none of add, delete and replace is
  carried out as one that does nothing, and answered Success.
* *Codec.* Escapes in a filter are never decoded. An Add that names a type
  twice keeps the values of the last. An enumerated with the sign bit set is
  read as a positive number. The filters that are always true or false are sent
  as objectClass present or not present.
* *Cookies.* A cookie is read as a long and cast to int, so one that does not
  fit becomes another offset, and one of 2^31 or more a negative index into
  the result. `RequestsAssumption` leaves these out: the cookies of `Search` are
  those up to `IntMax` and malformed ones.
* *Bind rate.* Twice the limit passes within one window's length
  across a boundary of fixed windows, three times with late clock readings.
  More passes if threads are held up for longer than half a window and buckets
  are pruned meanwhile, since a late reading then opens a window in the past;
  `BurstBounded` is about shorter delays (`StallsShort`).
* *Empty passwords.* An account whose stored password is empty is bound by an
  empty one, also in clear where that is forbidden: the test is whether the
  request has a password. `BoundAsProven` says "non-empty".
* *Odd schemas.* If classes are each other's superiors, none of them is a leaf,
  and `validateEntry` accepts an entry of one more structural chain besides;
  two classes that share their first name, and are found by another, count as
  one. The shipped schema files have neither; `EntriesConform` excludes both
  (`ClassesSane`).

## What is proved

Every invariant that a passing run checks is a theorem of its specification for
every value of the constants, except for `TypeOK`, `CarriedOutAsMeant` and
`ExitTellsTruth` of `Exchange`. So are the action properties of `Directory`
and `LdifBackend`, and that `SqliteBackend` implements `Backend`. The assumptions are the `ASSUME`s of the
modules, which TLC evaluates in every run: they say what constants are, that the
acl lines could be parsed, that hashing is injective, and so on. A theorem that
needs more has it as a hypothesis with a name, given below.

The invariants of the runs are not inductive. Each proof module has an `IInv`
that is, with one lemma per action that it is kept.

### `Daemon_proofs`

`DaemonTyped`, `ThreadsWithinMaxSessions`, `EveryThreadOwned`,
`StopLeavesNothing`, for any number of clients and any limits.

A thread may be in `workers_`, in the list that `reapWorkers` or `stop()` has
moved out of it, or about to be pushed by the accept thread. `Partition` says
that it is in exactly one of these. What makes it inductive is who may hold what
and when: the accept thread holds the connection it accepted until the
`push_back` (`AcceptHolds`), the local lists are empty except while they are
joined (`ListsLocal`), and the main thread has waited for the accept thread
before it takes the workers, so that no thread is added afterwards
(`Phases`). The limit (`Room`) needs that only the accept thread adds a
thread, between its count and its push.

### `Directory_proofs`

For any number of sessions, requests, identities and rules:

* `DirectoryTyped`; `NothingUnvalidated`: every entry passed `validateEntry` as
  it is, or was imported; `QuietDirectoryIsSaved`;
* `EntriesConform` (`SchemaHolds`), if what is imported conforms
  (`ImportConforms`) and for schemas with `ClassesSane`, from
  `ValidEntriesConform`;
* `EntriesAreNotLost` (`NoEntryLost`), for every interleaving;
* `OnlyAuthorisedWrites` (`WritesAuthorised`), if there are no rules about groups
  (`GroupFree`). With them the decision rests on a lookup that may be stale
  when the write comes; TLC has no group rule in this run either;
* `RefusedLeavesNoTrace` (`FailedWriteHasNoEffect`), for one session
  at a time (`OneSession`): see *Half a ModifyDN*;
* `NobodyOrphaned` (`NoOrphans`), for one session, renames that change
  only names with nothing below (`LeafRenames`), and an import without orphans
  (`RootedImport`); the names that new RDNs of several components make are
  excepted by the property: see *Orphans*. The instance of `directory_serial` satisfies
  the three;
* `OtherAttributesStay` (`OnlyNamedAttributesChange`), for one session and
  lists of any number of changes: see *Lost updates*.

A session's step says which checks it has passed. `SessionOK`: what it is about
to store was validated, and it has not written before its store; `Checked`: its
identity may write the names that it is going to change; `Serial`: while it is
alone, the entry is as the handler looked it up; `Rooted`: the parent it
found is there, the children it did not find are not; `Copied`: its copy
differs from the entry only in what the request names. The last rests on
`ModificationsKeep`, an induction over the list of changes.

The first part of the module is about `Schema`. `ValidEntriesConform`: what `validateEntry` accepts, conforms to the schema by a
definition that does not know the algorithm (`EntryConforms`). The hypothesis
`ClassesSane`: there are classes, finitely many, each with one name, and
their SUPs are well-founded; no attribute type has the empty name. The SUPs of
attribute types may be cyclic.

The work list of `collectObjectClasses` collects the superclasses of
the entry's classes: a round that adds nothing has reached them all, and one
that adds something cannot happen more often than there are classes (`RoundsStrict`,
`CollectCloses`). If one structural class is left that is no superior of
another, the others are its superclasses: one that were not would be a superior
of another such, and so on upwards for ever (`OneLeaf`). The walk of 32 steps ends
at the nearest superior with a syntax (`WalkEndsAtSyntax`). The library's
induction theorems cannot be used here; `LeastNumber` and `CountUp`
take their place, with the property as a set.

### `Authentication_proofs`

For any requests, keytabs and directories, changed by others at any moment:

* `AuthenticationTyped`, `NonceAnsweredOnce`;
* `SaslDisabledRefused`: no SASL mechanism binds an account that was disabled
  all the time the bind took;
* `SessionsBoundAsProven` and `DisabledNeverBound` (`BoundAsProven`,
  `DisabledAccountsRefused`), while names do not move (`NamesStay`: entries
  come and go nowhere and a uid stays with its account; passwords and flags
  change): see *Name of a bound session*. The simple bind resolves its name
  twice, and only then are the two answers the same.

`Path` ties the step to the mechanism and its stage, `Nonces` that a nonce that
was used is no longer the session's, `Eligible` and `Evidence` carry what an earlier lookup
found (the account was enabled at some moment of the bind; the proof is
of this name) to the step that binds, `Anonymous` that the session has lost
its old identity meanwhile.

### `Search_proofs`

For any trees, filters, requests, rules and identities:

* `SearchTyped`, and `OnlyReadableSent` (`OnlyReadable`): whatever others
  write between its steps, a request sends only entries that could be read and
  matched with the values sent at a moment of it, and the password to root only;
* `SearchFindsMeant` (`BackendSearchExact`): one backend call finds exactly
  what the filter means, in the order of the map;
* `AnswersAreExact` (`AnswersExact`): while nobody writes, the pages of the
  client's loop are together exactly what was asked for, and compare agrees
  with bind and search.

The assumptions: `Nodes` are filters as the parser and the decoder make them,
a child behind its parent in the table, a Not with one child
(`NodesAssumption`); `MapOrder` has the names of every tree, and values that a
substring filter looks at are text (`TreesAssumption`); limits and page
sizes are integers, and a cookie fits an int (`RequestsAssumption`).

`matches` goes from the end of the table to its beginning, so that
the induction over filters of any depth is one over positions (`CountUp`); the
substrings are looked for from the left, and where a value can be cut into
the parts at all, each is found no later than it has to be (`PlacesCut`,
`CutPlaces`).

`seen` has the trees since the request began; `Reads`
says that what is in `matches`, `visible` and `sent` was found in one of
these, `Checks` that the rule being evaluated has not been passed over, and
that the group it holds is one that was read. For `AnswersExact`, `Exact` is
about a request during which nobody has written. The result is put together in
three loops, and `Exact` says how far each has got: no rule before the one in hand
grants the name (`Tried`); what is visible is what the rules let through of
the part of the snapshot that is behind (`Scanned`, with `kept`, the list after
each turn of the loop); what the client has, with the page under way, is the
part of the answer from its first cookie on (`Follows`), and the cookie is
where it ends (`Paging`). `Told` has what each result code says about the rest,
`CompareTold` what a compare has said.

### `RateLimiter_proofs`

For any number of threads and clients, and any limits:

* `BucketsWithinLimit` (`TypeOK`) and `RefusalsAreJustified`, however late
  the threads are;
* `BurstsWithinThreeLimits` (`BurstBounded`), if no thread is held up for more
  than half a window (`StallsShort`).

The buckets forget; the proof is about the history of grants. Each grant has a
place in a window, no two the same (`OnePerPlace`, `Numbered`); a bucket that
counts n stands for n grants (`Counted`), which is what a refusal needs. The windows of a
client follow one another, even where a bucket was pruned in between
(`OneAfterTheOther`, `LastWindow`), and a window's first grant comes soon after it
starts (`OpensSoon`). So the starts of four windows are too far apart for one
stretch to meet all of them, and three windows have at most three times the
limit.

### `LdifBackend_proofs`

For every set of sessions, names and attributes, every way in which attributes
are written to lines and lines are cut (`Lines`, `Cut`), every file at the first start
and any number of changes: `LdifTypeCorrect`, `QuietFileIsCurrent`, `AckedWritesAreSaved`, and the action
property `FileNeverGoesBack` (`FileIsMonotone`). The only assumptions are that
clients store sets of `Attributes` and that `MaxChanges` is a number.

That the file is current when all is quiet depends on the last writer having
exported after its change, which depends on
who is between the change and the snapshot. `IInv` says it with version
numbers: no two sessions are in `exportFile` (`OneExporter`); the snapshot
being written is at least as new as its own session's change, the file and all
that was acknowledged (`VersionsOrdered`); equal versions mean equal contents
(`ContentsMatch`); and the last change is in the file, in the snapshot being
written, somebody has yet to take a snapshot, or it is the first write of a ModifyDN that
was refused (`LastChangeUnderWay`). A restart is quiet because the tree is then what
the import gives, whatever the file holds; that this is a tree of the right type
is all that the proof needs to know of `importFile`.

### `SqliteBackend_proofs`

For every set of sessions, names, spellings and attributes, and every sequence
of failures and crashes: `SqliteTypeCorrect`, `NoTransactionIsLeft`,
`TablesAreConsistent`, and `SqliteImplementsBackend`. Calls and seed are made of the
names and attributes given, no session is called `Nobody`, the seed names
nobody twice, and what is read back is read back unchanged the next time
(`CutAssumption`).

`NoTransactionLeft` gives that the session with the mutex works alone. The
tables that a commit makes visible are consistent only if what `check` found
(the name is free, or it is stored) is still so when the statements run;
`Prepared` says it: at `begin` and `work` the call `Fits` the committed tables,
a transaction that begins holds exactly these, and at `commit` what it holds
is consistent. The lemmas `InsertEntry`, `WriteSome`, `DeleteEntry` and
`UpdateEntry` say that each statement keeps this, and `WorkKeeps` puts them
together for a call.

For the refinement, `Answered` adds that at `commit` the transaction holds
the `Outcome` of the call: the abstract backend could carry it out on the tree that
the committed tables hold, and its effect is the tree that the transaction's
tables hold (one lemma for each of add, modify, remove and rename). A row is
known by its entry, type and position (`Keyed`), so what is loaded from the
rows just written is what was to be written, up to `Cut`. Then every
step is one of `Backend`'s or changes nothing that it sees: COMMIT is
`Backend`'s step of the call, a failing statement a refusal, a crash a crash.

### `Exchange_proofs`

`SecretsAreProtected` (`SecretsProtected`): for any invocation whose arguments
ask for TLS, any server, any answers and any break of the connection, no
password goes out in clear. It assumes of the invocations that they are lists of known
or unknown flags (`CallsAssumption`) and that the extended operations have
different identifiers (`OidAssumption`: a StartTLS request is not taken for a
password change).

The first half is about the loop of `parseClientArgs`, for any number of
arguments in any order: whatever comes before and after, a `-Z` and the
last `ldaps` URI leave their mark on the options (`ArgObeyed` for one argument,
`ArgsObeyed` by `CountUp`, `ArgumentsHeeded` for the URI that is applied once
more at the end). The second is the invariant `TlsInv`: a tool whose options ask for TLS is past
the handshake at every step from the bind on, so that none
of the ways out of a failed StartTLS or handshake leads to a bind.

The rest is about the codec, for every value of `Wide` and `Narrow` (the code's
8 and 4 among them) and octets of any number:

* `PduIsFramed`: `recvPdu` cuts an element off the stream exactly, whatever its
  octets and whatever follows; one over the limit fails. `PartIsNoPdu`: a part
  of an element, cut anywhere, in its header too, is never taken for a PDU.
* `ElementIsReadBack`: a reader over an element and what follows finds it, and
  then what a reader over the rest finds.
* `IntegerIsReadBack`: every int64_t is read back from the encoding that leaves
  out the octets that only repeat the sign; an int survives the decoders' cast.
* `MessageIsReadBack`: a message, of any operation but a search, with any number
  of attributes, values, changes and controls, is one PDU, and
  `decodeLdapMessage` reads it back as it was.

Their hypothesis is that no length needs more than four octets (`Short`, which
is what `readLength` accepts), in the message and in each part of it, and that the
fields are what the code writes (`IsMessage`): a result code of one octet, an
operation of a change that is not negative (one that is would be read as another
number), credentials in a bind response only. Every request that the tools make
in the run, other than a search, is such a message.

The argument goes from the inside out. That a recursive function is what its
definition says has to be shown, since the prover takes no recursion for
granted: `LoopRuns` and `RecursionRuns` build it step by step, over numbers and
over octets that get fewer. With it the octets of a length are the number that
was written (`OctetsOfNumber`, `LengthIs`), so a header is read back, whatever
is behind it (`HeaderRead`), and an element after it (`FirstRead`). `Whole`
says which elements a reader has over octets; it is kept by writing one more in
front (`WholeCons`) and by `writeEach` (`ListWhole`). Each decoder is then
computed on those elements (the lemmas `...ReadBack`), and `Enveloped` puts the
operation, the id and the controls together.

### Only model-checked

* Liveness: `SearchEnds`, `ToolEnds` and the four of `Daemon`. The prover
  handles neither fairness nor ENABLED.
* The wire form of a search. `encodeNode` goes down a filter by paths, and its
  recursion is only sound on paths that the filter has; a proof would need an
  induction over trees. Nor is the text of a filter or of LDIF in a theorem.
* `TypeOK`, `CarriedOutAsMeant` and `ExitTellsTruth` of `Exchange` are about
  every message, searches too, and about what the user meant, which is an
  enumeration in `MCExchange`.

## Not modelled

* `security/tls.cpp`, logging, platform code: wrappers without own state.
* `config/config.cpp`: a file read once, line by line, into settings that are
  constants of the modules; its acl lines are in `AccessControl`, and that an
  invalid configuration ends the start is `initialize` of `Daemon`. (Numbers
  are cast to the width of their field, and text that is not a number ends the
  process with an exception.)
* Printing: `formatLdif`, the tools' output, usage and error texts.
* Matching rules: `EQUALITY` of an attribute type is read and never used.
* Failing reads of SQLite (`backend/sqlite.cpp:98`). `storedDn` takes a read
  error for "no such name"; an Add could then store a second spelling, which
  `TablesConsistent` excludes on the assumption that reads succeed.

## Plan

Done, in this order: names and trees; `Directory`; `LdifBackend` and its
proofs; `RateLimiter`; `Daemon`; `Authentication`; `Schema`; `Filter` and
`Search`; `Backend`, `SqliteBackend` and the proofs about it; `Ber`,
`FilterCodec`, `Message`, `LdifText`, `Tools` and `Exchange`; loading of the
schema, acl lines, the start of the daemon.

Proofs, in this order: the two backends; `Daemon`; `Directory`;
`Authentication`; `Search`; the refinement of `Backend`; `RateLimiter`;
`Schema` and with it `SchemaHolds`; `OnlyNamedAttributesChange`; filters and
`AnswersExact`; `SecretsProtected`; the codec.

Next, most important first:

1. The wire form of filters, with `encodeNode` by depth, so that
   `MessageIsReadBack` takes in the search; then `TypeOK` of `Exchange`.
2. `LdifBackend` as an implementation of `Backend` without its durability.
3. `WritesAuthorised` with group rules: stated over the trees since the check,
   as `OnlyReadable` is.
