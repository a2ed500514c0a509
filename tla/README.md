# A TLA+ verification of behh

behh is a C++ library of helpers and thin interfaces to databases, mail and
cryptography.  Its own code is `src/src` (28 files, about 6700 lines) with its
tests in `src/tests`; everything under `src/vendors` is third-party, about a
million lines that are not the subject here.  This directory holds TLA+ models of the
parts that keep state or do their work in several steps, TLC configurations that
check them on small instances, and proofs for TLAPS.  File names below are
relative to `src/src`.

The library has no lock anywhere.  What makes it hard is therefore not a
protocol of its own but what it does with the concurrency and the failures of
others: driver and event-loop threads, servers that answer late or not, streams
whose last write happens in a destructor, and status codes that have to be true
in all of that.  Almost every function returns an `int32_t` documented as "1
mean ok"; most of the properties here say what a returned 1 does mean.

## Inventory

### File encryption (`utility.cc` 1035-1191, ciphers in `cryptography.cc` 274-567)
*State*: the files, the output stream and its buffer, the offset in the input.
*Operations*: `encrypt`, `decrypt`; each reads windows of `chunk_size` bytes,
calls the buffer cipher once per window with the same iv and key, and appends
what it returns.  *Interaction*: `string::to_buffer` for the key, the CBC and
GCM functions of `cryptography.cc`, the file system.  *Hard*: a failure in the
middle of the file; the flush in the destructor; windows that do not match the
segments on disk; a key shorter than AES-256 reads; an output that is the input.
*Correct when*: 1 from `encrypt` means the whole input, once and in order;
`decrypt` with matching arguments gives it back; nothing is ever garbled
silently under GCM.

### ScyllaDB interface (`iscylladb_core_interface.cc/.hh`)
*State*: per object a cluster, a session, a connect future; one static
`m_connection` shared by all objects.  *Operations*: `initialize_constructor`,
`execute_cqlsh`, getters, the destructor, and `OnAuth::initialize`, which the
driver's IO threads call on every connect and reconnect.  *Hard*: two threads
initialising objects; reconnects long after; a second initialisation of the
same object; the mode that connects nothing; what a failed query leaves behind.
*Correct when*: 1 means connected to what was asked for with the credentials
given; sessions come back; the destructor frees everything.

### Couchbase interface (`icouchbase_core_interface.cc/.hh`)
*State*: per object the connection names, a cluster, three existence flags; on
the server buckets, scopes and collections.  *Operations*:
`initialize_constructor` (connect, list, create, one request after the other),
`execute_sqlpp`, `execute_sqlpp_future`, getters.  *Hard*: list-then-create
against another client; dropped answers of requests; early returns between the
assignment of the names and that of the flags; arguments that are moved from;
an index that lags behind the data.  *Correct when*: 1 means the collection is
there, the flags tell the truth, a consistent select sees what was written.

### PostgreSQL interface (`ipostgresql_core_interface.cc/.hh`)
*State*: one `PGconn` per object and one static connection record that is written
and never read.  *Operations*: `initialize_database` with or without `create_db`,
two uuid queries, the destructor.  *Interaction*: libpq, whose `PQstatus` knows of a
lost session only once a request has failed.  *Hard*: a second initialisation,
`create_db = false`, a session that the server ends, a query without a row, a
refused connection that aborts the process, two threads in the static.
*Correct when*: every object queries its own session, sessions are released, and
a uuid comes back empty only for want of a connection.

### Mail (`communication.cc`)
*State*: a promise and the future made of it, per call.  *Operations*:
`smtps_send_mail_by_template_future` (runs curl and waits),
`send_mail_by_template_future` (drogon's event loop and a callback).  Both fill
a template by `find::and_replace_all`.  *Hard*: the life of the promise the
callback captures; calls from the event loop's own thread; a server that does
not answer; a template that is only half filled in; values that look like
placeholders; a shell that reads the mail before curl does.  *Correct when*: the future holds
the one true answer, and the mail is the filled template, as the shell leaves it.

### Files (`utility.cc` 606-1033)
*State*: files, streams, descriptors, the caller's `buffer_data`.  *Operations*: `save_to_csv`,
`save_to_json`, `from_csv_file`, `from_json_file` of jsoncpp and of jsontao, `file_to_buffer`, `file_from_buffer`.
*Hard*: the output is emptied before the input is looked at and written in place;
two saves of one path; a load that overlaps a save; a read that fails; a full disk; a process that ends in a save; gates on the
name that misread the answer of `input_ends_with`; what of a table a CSV file cannot hold.
*Correct when*: a file holds the value of the last save that returned 1, and a load gives it back.

### Port check (`system.cc`)
*State*: sockets, in the same descriptor table as the files.  *Operations*: `is_port_available`.
*Hard*: a check holds the port it asks about; `bind` is refused for more than a port that is served; one early return keeps the socket.
*Correct when*: a port said to be available was so at some moment of the check, a refusal has a reason, and nothing stays open.

### Text (`utility.cc` 116-285, `cryptography.cc` 36-88, 196-459)
Base64, the base36 form of ciphertexts, the string ciphers that use it, find and
replace.  *Hard*: the last group of an encoding, a register that overflows, a text that
was cut or mistyped on its way, a secret shorter than the cipher reads, a search that
runs into its own replacement, a query that is empty.  *Correct when*: what was
encrypted comes back, GCM lets nothing else through, every occurrence is replaced once.

### Date and time (`date_and_time.cc`)
*State*: none of its own, but the C library's static `tm`.  *Operations*: about
forty of one shape (limit an offset, read the clock once, break the time down,
format a field); counts since the epoch; `to_millis_string` and `to_millis`, which
turn counts into texts and back.  *Hard*: the static buffer under two threads, two ways
to limit an offset, local time and daylight saving, times before 1970, turns of day and year.
*Correct when*: a text or a count names the instant it was made from.

### The rest
Images and barcodes (`generate.cc`), hashes, random values and uuids, numeric
predicates and letter case, configuration headers: see "Not modelled".

## Modules

| Module | Models | Composed with |
|---|---|---|
| `FileCrypt` | `file::encrypt`, `file::decrypt` and the ciphers' failures | - |
| `ScyllaCore` | all objects of the ScyllaDB interface, the static, the driver's threads | - |
| `CouchbaseCore` | `initialize_constructor` of several objects against one server | - |
| `CouchbaseQuery` | the two query functions against a lagging index | - |
| `PostgresCore` | all objects of the PostgreSQL interface against one server | - |
| `MailFuture` | abstract: what a mail function promises | - |
| `MailCall` | what the calls of both mail functions have | extended by the next and `SparkpostMail` |
| `CurlMail` | the curl function from its template to its answer | refines `MailFuture` |
| `FindReplace` | `find::and_replace_all` round by round | instantiated by `TemplatedMail` |
| `TemplatedMail` | the curl function with the texts it fills in | extends and refines `CurlMail` |
| `SparkpostMail` | the event-loop function | extends `MailCall`, fails to refine `MailFuture` |
| `Csv` | the text of a table and the table of a text | extended by `SaveFiles` |
| `Descriptors` | the descriptor table of the process | extended by the next two |
| `SaveFiles` | the saving and loading functions on shared files | `Csv`, `Descriptors` |
| `PortCheck` | `is_port_available` against servers and other checks | `Descriptors` |
| `ProcessFiles` | one process: files and port checks on one table, its end | extends `SaveFiles`, `PortCheck` |
| `Codecs` | base64, base36 | extended by `StringCipher` |
| `StringCipher` | the string ciphers, with a text that changes on the way | `Codecs` |
| `DateAndTime` | all of `date_and_time.cc` for several threads | - |

`XProofs` holds the theorems of `X` (`CouchbaseProofs` those of `CouchbaseCore` and `CouchbaseQuery`, `MailProofs` those of the three mail modules); there are eight such modules.  An `MC` module
gives each machine its instance, a `.cfg` per run its bounds and
properties.  Definitions named `X_Something` next to `X` are deliberately
wrong variants of `X`; each is what a plausible slip in the code would make of
it, and `PROJECT.json` "mutants" says which property notices.

### How state and actions correspond to the code

**FileCrypt.** A file is a sequence of pieces: an interval of input bytes in
the clear, its CBC or GCM segment under a key, or junk, at a byte offset.  Lengths are the true
ones (CBC pads up to 16 bytes, GCM appends 16), because whether a window of
`decrypt` is exactly one segment is arithmetic on them.  `pc` walks through
open input, create output, and the loop's read and write; `ReadWindow` is one
`file_in.read` with the cipher call on what it got, `Write` the
`file_out.write` with the test after it, `CloseOutput` the destructor and the
return.  The stream may hand data to the system or keep it at every write.
Faults (bounded by `MaxFaults`): the open of the output, a read, a cipher call, a
write that leaves a prefix and possibly a torn segment, the close, the death of
the process.  A window that is not a whole segment of this key is refused by
GCM; CBC refuses it, or accepts by chance and gives junk - both are choices of
`Garbled`.  `to_buffer(ik, 16)` keeps the bytes of a short `ik` but AES-256
reads 32: `EffectiveKeys` lets each call read any key then, which is what the
heap behind the buffer makes of it.

**ScyllaCore.** `Call`, `CopyRest` and `CopyMode` are the field by field copy
into the static, then `Dispatch`'s switch reads back `m_connection`, not the argument;
`Await` looks at the future.  `Driver` is what the IO threads do: read user
name and password (two steps, each able to see another thread's assignment
under way), connect, be refused.  A string read while another thread is between its first and last
assignment may be the old, the new or `Garbage`: that is undefined behaviour
of the code and a choice of the model.  A null future given to the driver ends the process
(`died`); nothing happens after.  `contact` is a set because
`cass_cluster_set_contact_points` adds.

**CouchbaseCore.** One action per request: `Connect`, `ListBuckets`,
`CreateBucket`, `ListScopes`, `CreateScope`, `CreateCollection`, each of which may fail as
its line in the code allows.  The server is a set of paths, and clients delete
collections through the manager the object hands out.  `Fill` is the
caller setting up its connection variable, which a call leaves with empty strings (`std::forward`).
`Debug` lists the objects built with `BEHH_IS_DEBUG`, which replace an empty bucket name by a default
where a release build returns an error.

**CouchbaseQuery.** A slot is a thread and a function; `execute_sqlpp` keeps its
thread, a future does not.  A request is on its way for a while: with `Arrive` it reaches the service, which
for `request_plus` takes note of what is written at that moment (`target`), and with `Serve` it is answered, from the index as it is, or
once the index has come to the target.  An insert that fails may have been made.  `RequestPlus` is the test of the `consistent` argument, which
the two functions make in opposite senses.  What a caller knew when it asked (`must`) is in no guard.

**PostgresCore.** `Initialize`, `Copied` are the five assignments to the static and what
`create_db` makes of the call; `Connect` or `Refuse` are `PQconnectdb` with the test
after it, `CreateDatabase` the `PQexec` whose failure is only printed, `Throw` the
exceptions caught around it.  `dropped` is what the server
has ended, `bad` what libpq has noticed: a query starts if the handle is not `bad` and
gets no row if the session is gone, `uuid-ossp` is missing or the query fails, which
assigns a null pointer to a string and ends the process.  `CopyRace` is two threads assigning one
static string, undefined and therefore free to end the process; what the static holds is read by nobody and left out.

**DateAndTime.** A call that keeps its data to itself is one step, the moment it
reads the clock; `to_millis_string` takes four, as `std::gmtime` fills a buffer that
others fill too.  Date and time of day stand for the fields a race can tear apart.
A text is its fields and separator, a count the instant it stands for, so that
a thread can hand what one call returned to the next.  Calendar and zone are external, the calendar once
as day to date (`gmtime`) and once as date to day (`mktime`), from different algorithms.
`from` remembers the instant a value was made from and how far calls were asked to shift it.

**MailFuture, MailCall, CurlMail, SparkpostMail.** The abstract state is one answer per
call: not asked, pending, thrown, or the status.  1 may only be said of a mail
the server took, -1 only of one never sent, and no mail is sent after the answer.
`CurlMail` models the template, `std::async` (whose thread may not start), the
process and its exit status.  `SparkpostMail` models the event loop, the
request, the callback and the frame whose promise it points to; a use of that
promise after the frame is gone stops the model (`undefined`), as nothing can
be said of the program then.

**FindReplace, TemplatedMail.** `FindReplace` is the loop of `and_replace_all` with its
three ends of a round: replace the next occurrence, find none (1), run out of space (-1,
with `source` half replaced).  `TemplatedMail` runs it for each of the caller's pairs over the
template and then for the pairs of the curl command, and drops its status as the code does.
A placeholder is one character; the command is reduced to two of them, a value like the recipient's name,
filled in before, and the content, filled in last.  The caller's texts are any texts,
so that a value may look like a placeholder of the template or of the command.  The mail is not what was filled in but what the
shell makes of it (`Shell`): the here-document of the command is unquoted, so that a dollar, a backtick or a backslash in a
template or a value is expanded, to any text, before curl reads it.  Each of these stands for what it begins, as one character.

**Csv, SaveFiles.** A text has one character for each kind the code tells apart: a digit, the point, the letter e of either size, the minus,
a blank, CR, the separators, any other letter, and one for the words true and false.  `Numbers` is the code's choice between `std::stod`, for a cell with
a point or an e anywhere, and `std::stoll`; both take the number the cell begins with (`Numeral`) and leave it a string if that does not
fit.  What fits, and how it prints, are constants (`Longs`, `Doubles`).  The parser and the writer are operators; `Rank` is the
order in which the map of an object has its keys.  A table may have rows that are no objects, rows with other keys than the first, keys that
are empty or that no file gives back.

In `SaveFiles` a save is gates, open (which empties), any number of flushes of any length from the stream's own
position, close.  A load is gates, open, any number of reads of any length from the stream's own position, of the file as it is at each of them, and a
last read that finds nothing (`EndOfFile`) or fails (`ReadError`).  A read that fails ends the loops as the end of the file does: `Kept` is what is left, whole chunks for
`file_to_buffer`, whole lines for `getline`; jsontao's JSON parser throws.  `Refused` is
what each caller makes of the answer of `input_ends_with`: those of jsoncpp that test for 0 refuse every path, so
that nothing behind their gate is reached.  Two saves of one path overlay each other.  JSON text is one value between its
brackets, which is what decides whether a beginning of it parses.  Histories name the saves that have to do with a text: `opened` the last one that
opened a file, `saved` the one whose whole value it holds, `source` the one whose text a load reads; `NoCall` where several were at it.

**Descriptors, PortCheck, ProcessFiles.** Every open and every socket takes a descriptor, of which the rest of the program leaves `limit`, a
number that changes as it opens and closes files of its own (`OthersOpen`); an open
without one is refused as the code refuses it.  A check is `Check` (socket, and the test of the
port), `Bind`, `CloseSocket`; `Listen` and `Stop` are other processes, whose connections may stay on their port until
`Expire`; those on ports that the process may not bind change no answer and are left out.  `bind` is refused for a port that is served, on which connections linger (the socket has no `SO_REUSEADDR`), which another check has
bound, or which the process has no right to (`Denied`).  `htons` keeps the low bits of the port and
port 0 is any free one.  `Crash` ends all threads, loses what streams held, closes every descriptor and leaves the files.

**Codecs, StringCipher.** A character is its index in the alphabet.  The references the codecs are
checked against are written from RFC 4648, not from the code.
`Register` stands for the number of values of the codec's `unsigned int`, 2^32 in the code: at most 12 low bits of it
are ever read, which is why `RegisterAssumption` asks for a multiple of 4096 and no more; the run has 16 bits, TLC's own integers 32.
AES is ideal: a ciphertext is any bytes of the right length, and bytes nobody made have no tag that fits, or under
CBC pass the padding check by chance as `Junk`.  A `Short` secret is completed by whatever stands behind it, perhaps differently in each call.
Between calls one character of the text may be lost, replaced or added, or its end cut off.

## Runs

| Run | Shows | Bounds |
|---|---|---|
| `file_crypt` | six properties of any two calls with one fault | a file of 0 or 40 bytes, chunks 0, 16, 32 (three windows; segments of 16 make CBC windows of 32; misaligned and oversized windows), two keys and a short one |
| `file_crypt_same_chunk` | counterexample: same `chunk_size` for both calls loses the file behind a 1 | as above |
| `scylla_core` | status, host, credentials, freeing, and that lost sessions return | two objects, two initialisations, four connections, one fault |
| `couchbase_core` | collection and flags behind a 1 | a release and a debug object, three calls, one failed request |
| `couchbase_query` | what selects see by function and argument, termination | two threads, one future, two inserts, one failed query |
| `postgres_core` | own sessions, leaks, the cause of an empty uuid, termination | two objects, three connections, with and without the extension |
| `curl_mail` | each occurrence replaced once, the mail filled, both refinements, an answer | one call, three letters (the placeholders and one that the shell expands, to both of them), template to 3, queries to 2 and empty, replacements to 2, one pair, texts beyond 6 throw |
| `sparkpost_mail` | what holds although the promise does not | a call from a thread and one from a loop handler |
| `sparkpost_promise` | counterexample to the refinement | same |
| `process_files` | what files hold, what loads see, which tables CSV holds, answers of checks, descriptors | two threads, two checkers, two calls, a limit of 0 to 2 descriptors, one failed write or read, one crash; tables of up to three rows and two columns with every text of up to two characters; ports 1, which may not be bound, 2, -1, which `htons` takes for 2, and 3, which is too large |
| `string_cipher` | round trip, GCM, base64 | messages of 0 to 2 bytes, blocks of 2, ciphertext bytes of 2 values, one secret and a short one, one encryption, one change |
| `date_and_time` | what texts, counts and zones name, across conversions and threads | two threads, three calls, clock readings at a turn of the year and on a leap day, offsets beyond both limits, a zone with and one without daylight saving, an instant before 1970 |

Two calls are enough in `file_crypt`: an `encrypt` and a `decrypt` of what it
made are the longest chain the files record, and overwriting what another call
made takes two as well.  Two initialisations in
`scylla_core` give both interesting overlaps, two objects at once and one object
twice; with three the same properties hold, over 1.4 million states, too many
to repeat on every check.  Three calls in `date_and_time` are a reading, its text
and the count of that text, or two texts that race and what is made of one of them.
In `process_files` a file may exist from an earlier process, so two calls are a save and a load in either
order and with any overlap, two saves of one path, two checks, or a check that keeps its socket and an open; the longest text has six characters, so that a load reads in up to six pieces.
The limit is any of 0 to 2 and changes at any moment, so that the table is full for the first call, for the second while the first runs, or
because a check of a large port has kept what there was: opens to save, opens to load and checks are all refused for want of a descriptor in some behaviour.
The threads are symmetric, and so are the checkers.
Three connections in `postgres_core` let one object initialise twice while the other
holds one.  In `string_cipher` ciphertexts of 2 and 4 bytes leave 1 and 3 bits for the last base36 digit, a
changed text loses, gains or garbles a digit, a character with a sixth bit and one that is no digit among them.
In `curl_mail` the template is long enough for an occurrence that overlaps itself and for one that a
replacement makes with what stands behind it.  The proofs need none of these bounds.

Deadlock is checked except where the modelled calls are finite and nothing
remains to do, or the process may have ended (mail, files, PostgreSQL).

### Fairness
- `FileCrypt`: the calling thread goes on.  Faults and crashes are not fair.
- `ScyllaCore`: a call goes on in its thread, the driver's IO threads run.  Whether
  the credentials in the static are good is not assumed: `LostComesBack` has it as its premise.
- `PostgresCore`: the thread of a call runs and the server answers it, well or badly.  Exceptions are not fair.
- `TemplatedMail`: the calling thread runs, the curl process ends.
- `SparkpostMail`: the threads and the event loop run.  No answer of the server is assumed, as
  `sendRequest` is given no timeout.
- `CouchbaseQuery`: a caller inside `execute_sqlpp`, the service and the index run.

### What the properties say, by hazard
- *What a 1 hides*: `EncryptComplete`, `RoundTrip`, `OnlyTailMissing` (the close
  nobody looks at can cost the tail and at most one torn segment, nothing else),
  `OkMeansCollection`, `OkFlagsRight`, `OkMeansConnected`, `AnswerTrue`, `SavedWhole`.
- *Whatever fails*: `OutputOrdered` (no byte of input twice or out of order in any
  file, in a crash or in a call whose output is its input), `GcmNeverGarbles` (of files and
  of strings), `HoldsBeginning` (a file never holds anything but a beginning of what the last save wanted, whose refusal has emptied it), `EmptyHasCause`, `MailIsFilled`.
- *Sharing without a lock*: `OwnConnection` holds for objects
  initialised one after the other; the run shows that the restriction is needed.  `OwnHandle` needs none.  `ShowsItsInstant` and
  `CountsItsInstant` hold of every text no other thread formatted into, its fraction of every text.  `LoadsWhatWasSaved`
  says what a load reads, piece by piece, of a save that is under way.  `AnswerHasReason` says what a check can be told because of another check.
- *What does not survive*: `CsvHoldsPlain` describes exactly the tables that load as they were saved;
  `Base64AllButTheLast` exactly what the encoder does to the last group; `Restores` that base36 loses nothing.
- *Limits and zones*: `ZoneNamesNow`, `LocalIsWall` (whole hours and no daylight saving:
  without these restrictions it fails).
- *Ownership*: `DestroyFreesAll`, for an object initialised once with no failed query; `HandlesAccounted`
  (only sessions that a second initialisation overwrote stay); `DescriptorsReturned` (only checks of a port above 65535 keep one).
- *Order*: `ReplacesEachOnce`, `ReadsWhatWasWritten`, `BufferGetsFile`.
- *Ends*: `CallReturns` (two modules), `QueryReturns`, `GetEnds`, `MailAnswered`, `LostComesBack`.  `chunk_size` 0 and an empty query
  are excluded because they loop.
- *Promises*: `ImplementsCurlMail`, `KeepsPromise`.

## Proofs

Each theorem holds for every value of the constants that satisfies the named assumptions, which TLC evaluates in
the module's run.  Types are proved, not run: `TypeOK` and the like appear inside the inductive invariants.

`FileCryptProofs` (`SizesAssumption`: sizes are naturals; `TornAssumption`: a torn
piece is not empty; `KeysAssumption`: a short key and no key are not keys, there
is a key; `BoundsAssumption`):

- `TypeCorrect`: `Spec => []TypeOK`;
- `OutputAlwaysOrdered`: `Spec => []OutputOrdered`;
- `EncryptIsComplete`: `Spec => []EncryptComplete`;
- `RoundTripRestores`: `Spec => []RoundTrip`;
- `GcmWritesPlain`: `Spec => []GcmNeverGarbles`;
- `ClosingCutsTheTail`: `Spec => []OnlyTailMissing`.

`TypeOK` says nothing of what goes with which `pc`: an empty
`chunk` outside the write, a position within the input, a stream that is empty
once it failed, a call whose output is its input and which therefore reads
nothing.  Every later step needs this, so `TypeInv` is `TypeOK` with `PhaseInv`.  `OutputOrdered` speaks of the disk; the next write
moves the stream buffer and the chunk there, so `OrderInv` states order for
`disk \o buf \o chunk` and bounds it by what has been read, while `LayoutInv`
says that offsets are where pieces end (this is what makes "a window is one
segment" meaningful).  `EncryptInv` says that as long as nothing was lost the
three together tile the input up to `pos` in segments of `chunk_size`, the last
one shorter only at `eof`; at the return this is `EncryptComplete`.
`DecryptInv` says that if the input is uniform with segments as long as the window, the output
tiles what the windows so far held: `NextSegment` shows by the arithmetic of `SegLen`
that the window at `pos` is the next segment.  `GcmInv` says of a running gcm decrypt that every piece on the disk, in the buffer and
in the chunk is plain; a step that would add another ends the call instead.
`OnlyTailMissing` needs `EncryptInv` at the close, where what a failed one leaves is a cut of what was tiled
(`CutTiles`) with at most one torn piece behind it (`TailOnly`), and in `TailInv` that a call whose output went
bad unnoticed has not come past its first window.
Each invariant has one lemma for
its steps with a case per action; `OutFacts`, `ReadFacts`, `WriteFacts` and `CloseFacts` say
once what those actions do to `disk \o buf \o chunk`, `CutKeeps` and `RemainsCut` that a failed write
keeps order and layout, `CipheredFacts` what a cipher call may return.

`ScyllaCoreProofs` (`NamesAssumption`: a torn string is not one of the fields' names;
`ConnsAssumption`: there is a connection to ask for; `BoundsAssumption`):

- `TypeCorrect`: `Spec => []TypeOK`;
- `OkIsConnected`: `Spec => []OkMeansConnected`;
- `DestroyedOwnsNothing`: `Spec => []DestroyFreesAll`;
- `RefusalsAreTrue`: `Spec => []UnsupportedRefused`;
- `ConnectionsAreOwn`: `Spec => []OwnConnection`.

`Shape` ties the driver objects to `pc`: a session exists from the
password on, it is connecting only while its own future is pending and the call
waits for it, the future is ok only of a session that was let in.  With it `Connected`
(1 only of such a session) and `Counted` (what is owned is
cluster, session and the one future) are inductive.  The other two theorems are
about the static: `Alone` says that an initialisation no other overlapped reads back what it
assigned, because every other object is `Quiet` and only a call in progress
assigns.  `Answered` carries the mode from there to the status.  `Own` carries host, user and password
from the cluster over the driver's two reads in `AuthUser` and `AuthPass` to the session;
`SeesOwn` says that those reads then cannot be torn.

`PostgresCoreProofs` (`HandleAssumption`: no handle is the null pointer):

- `TypeCorrect`: `Spec => []TypeOK`;
- `HandlesAreOwn`: `Spec => []OwnHandle`;
- `SessionsAreAccounted`: `Spec => []HandlesAccounted`;
- `EmptiesHaveCause`: `Spec => EmptyHasCause`, an action property.

`Owned` adds to `OwnHandle` that destroyed objects keep their handle too and that only theirs are released; `Accounted` is
`HandlesAccounted` handle by handle; `Seen` says that while the process runs libpq takes for bad only what the server has ended, which
`EmptyHasCause` needs in the state before the step, and that a query goes through a handle that is not.

`MailProofs`, by curl (`CallsAssumption` and the other assumptions of `TemplatedMail`):

- `TextsAreInvisible`: `MailSpec => ImplementsCurlMail`;
- `CurlKeepsPromise`: `CurlMail`'s `Spec => KeepsPromise`;
- `RoundsReplace`: `MailSpec => []ReplacesEachOnce`;
- `CommandIsFilled`: `MailSpec => []MailIsFilled`.

The first two are simulations, step by step: filling in, however often and with whatever failures, is a stutter of `CurlMail`
but for the last round, which is its `OpenTemplate`; and `CurlMail`'s steps are `MailFuture`'s `Ask`, `Take`, `Answer` or stutters, by
`CurlInv`, which ties process, exit status and mail to `pc` (no mail without a process, no answer while it runs, status 0 only of a mail that was taken).

The other two are about texts of any length over any characters.  The reference, `Scan`, goes through the text once and takes an occurrence of the query when it
ends behind the last one taken; `ScanExists` shows that its recursion has a solution, `ScanOfBeginning` that a beginning of the text is scanned
alike.  The invariant is `ReadTo`: the text is read to `d` when the scan of its first `d` characters has finished what stands before
`position`, and its rest is what stands behind.  `find` returns the first query in the rest (`FindIs`); up to its end the scan takes nothing
(`Between`, `Stays`), there it takes it, so that the round reads on to that end (`RoundReads`); without a hit it takes nothing to the end of the text
(`ReadOut`).  `Filling` says of the command which of the two pairs is being replaced, in what: the sender's name first, the template
last, so that nothing searches what the template brings in; `FirstFilled` and `SecondFilled` are what the scan makes of the two,
or the placeholder where the value did not fit; `Given` takes it through the shell.

By sparkpost (no assumption), `ValuesAreTrue`: `SparkpostSpec => []AnswerTrue`.  `SparkKnown` says that an outcome is final and what it takes for each value.

`CouchbaseProofs` (both interfaces; `NamesAssumption`, `ConnsAssumption`): `CollectionsAreThere`, `Spec => []OkMeansCollection`.  The invariant `Sure`
says request by request what a call none of whose requests failed has made sure of: the bucket when it lists scopes, the scope when it creates
the collection; `PathFacts` that collections are neither scopes nor buckets, so that dropping one takes no parent away.
`FlagsAreRight`, `Spec => []OkFlagsRight`: `FlagInv` says that from its successful connect on every flag of a call is right, failed
requests included, and that a call in progress has status 0; `OnlyOne` says what a step of one object leaves alone in the others.

Of the queries, with no assumption, `SelectsAreConsistent`, `QuerySpec => []ReadsWhatWasWritten`.  `Known` says that nobody knows of an insert that is not
written, `Carries` follows what a select must see from the caller to the service and back: what the caller knew of is written when the request arrives, hence
behind the target, hence in the index when the service answers.  `RequestPlus` is where the argument enters.

`ProcessFilesProofs` (`ThreadsAssumption`: finitely many threads; `PortAssumption`):

- `NothingElseLeaks`: `Spec => []DescriptorsReturned`.  Every step opens one file or socket and takes one descriptor, closes one and drops it, or does
  neither; the cardinalities of the sets of open ones follow.
- `AnswersHaveReasons`: `Spec => []AnswerHasReason`.  `Stage` says for each place of a check what `free` and `clear` remember:
  a bound port was free when it was bound, and the process may bind it; a clear one can be bound unless it is denied.
- `SavesAreWhole`: `Spec => []SavedWhole` (`TextsAssumption`: what is saved is a text, a sequence of characters).  `Saving` says of a save that is
  alone in its file and lost no write that the file is the beginning of its text up to `offset` and `pending` the rest, which `OverlayGrows` shows to
  survive a piece of any size; at the close nothing is pending, so that the file is the text.  Another save of the path takes `alone` away.
- `FilesHoldBeginnings`: `Spec => []HoldsBeginning`.  `Begun` says of a save alone in its file that the file is a beginning of its text, a failed write
  included (`Stuck`: nothing is written after it); `HoldInv` carries that over the close and the crash, with the save that opened the file still known or several
  in it, and says which calls may be meant by `opened`.
- `BuffersAreFull`: `Spec => BufferGetsFile`, of steps.  `Reading` says of a read no save was in that what it has read is the file up to
  `offset`, and the buffer what it was at the call; the step that returns is the read's own, found nothing more and so is at the end, or keeps whole chunks.
- `CsvHoldsPlainTables`: `Spec => []CsvHoldsPlain` (`RankAssumption`: no two keys have one rank; `NumbersAssumption`: a number prints as a number;
  `CsvTablesAssumption`: the tables are tables that `save_to_csv` accepts).  It says nothing of the state: it is `CsvReturns`, that `from_csv(to_csv(table)) = table` if and only if
  `Plain(table)`, whatever the table.
- `WhatIsLoadedWasSaved`: `Spec => []LoadsWhatWasSaved` (`DocsAssumption`: what is saved is a table, and the one token a document stands for is no bracket).
  `Loading` says of a load whose `source` is known that what it has read so far is the beginning of that text up to `offset`, whatever else
  the save has added meanwhile, because a save writes behind what it has written and nobody else does; `Returned` what is left of that at the end of the file or at a read that failed.  A
  beginning of a JSON text that is JSON is the whole (`JsonHasNoBeginning`: its closing bracket is its last character and no other), whether
  what follows the value is minded or not.  Of a CSV text `RowsOfBeginning` says what a beginning of it is loaded as.

Under both lie facts about cutting a text.  The elements of a finite set of positions are counted in their order (`PlaceGrows`, `EveryPlace`), so that
the ends of the pieces are known one by one (`EndFacts`) and positions behind all others change no piece before them (`EarlyEnds`, `CutAgrees`,
`PiecesOfBeginning`).  `Consists` says that a text is cut into given pieces; it holds of one piece without a separator and survives a separator and
one more (`NextPiece`), hence, by induction over the parts of `FlattenSeq` (`FlattenFacts`), cells come back from the line they are joined to but for an empty last one
(`CellsReturn`) and lines from a text (`LinesReturn`).  `TableLoads` puts the two together for a table with `Printable` keys and texts: each row is loaded as the values
that its texts are parsed to, under as many of the first row's keys as header and line show (`Widths`).  `ValueReturns` says that a value is
parsed from its text if and only if it is plain.  A plain table is printable (`PlainPrints`); so is one that comes back, because whatever was cut out of a
text has no separator in it (`LoadedPrints`).

`DateAndTimeProofs` (`ClockAssumption`: the clock has passed noon of the first day of 1970, so that no offset shows a moment before; `ZoneAssumption`:
zones are at most twelve hours behind UTC and fourteen ahead of it, as all on Earth are; `GivenAssumption`, `ArgumentsAssumption`: types):

- `TimegmOfGmtime`: `timegm(gmtime(sec)) = sec` for every integer, and `gmtime(sec)` is a date and a time of day.  The day is taken into its era,
  year of the era and day of the year (`YearOfDay`, the only place where the four-year, hundred-year and four-hundred-year terms meet), and put together
  again by `LeapsOfEra` and, for January and February, `LeapsStep`;
- `ShowsItsInstantHolds`: `Spec => []ShowsItsInstant`;
- `CountsItsInstantHolds`: `Spec => []CountsItsInstant`;
- `ZoneNamesNowHolds`: `Spec => []ZoneNamesNow`;
- `LocalIsWallHolds`: `Spec => []LocalIsWall`.

`Inv` says of a thread outside `to_millis_string` that what it holds is `Right`, which is the four properties value by value, and more of counts: their
instants and those they come from are not `Early`, and cut to the count's precision alike, without which the text of a count would not show its
fraction.  Of a thread inside it says that unless it is `mixed` nobody else is inside and `tm` holds, as far as the call has come, what `gmtime` made of
its instant.  `ReadingKept` is why one thread's steps cannot disturb another's reading; `EnteredStep` serves both ways in.

`StringCipherProofs` (`RegisterAssumption`, and the assumptions of `StringCipher`: messages are strings of bytes, letters are characters):

- `Base36LosesNothing`: `string_from_custom_base36(string_to_custom_base36(s)) = s` for every string of bytes;
- `RestoresHolds`: `Spec => []Restores`;
- `GcmNeverGarblesHolds`: `Spec => []GcmNeverGarbles`;
- `Base64Holds`: `Spec => []Base64AllButTheLast`, by `Base64OfAnySeq`, which says it of every string of bytes.

`FoldLeft` is defined by a recursion of which nothing is known until it is shown to have a solution: `FoldSolution` does, and `EncodeAppend` and `DecodeAppend` say
what one byte or digit more does.  Of the accumulators only the value modulo 4096 matters (`Codes0` to `Codes4`, `Step0` to `Step4`), which a register
keeps.  Then the decoder is led behind the encoder: `Follows` says that after the digits of a prefix it has the prefix, or all of it but a byte of which
it holds the upper bits and the encoder the lower ones.  `Follow0` to `Follow4` take one byte more, by the number of bits the encoder holds, `Last1` to
`Last4` the digit at the end.  `DecodedLen` says how many bytes the digits of any text make.  Of the system, `OneInput` says that no two inputs
have the same ciphertext under one secret, `LengthsFit` that ciphertexts have their length, `Answered` that the last answer is one `Opened` allows for
the text still there; the three are inductive with the types, and the properties follow with the theorem about base36.

For base64, `FlattenIsRow` shows that parts of the same length, of which only the last may be shorter, flatten to `Row`, which has no recursion: the
induction is made there, once.  The code's text and RFC 4648's are then both rows of the same groups of four digits, `Quads`, and differ in how many of
the last four they keep (`EncodeIs` keeps three whatever the length, `Base64Is` one more than the bytes that are left).  `DigitIs` is why the
digits are the same: six bits of the string against the sums the code shifts.  `ReadBack` says what the decoder makes of such a row, and the three
lengths modulo 3 give the bytes themselves, a zero more or the last one less.

*Only model-checked*: liveness (`CallReturns`, `QueryReturns`, `GetEnds`, `MailAnswered`, `LostComesBack`: fairness and ENABLED are out of the prover's
reach).  Induction over data is out of reach as the library states it, with an operator as parameter; where this project needs it, it goes over a
set of naturals instead (`Induct`).

## Disagreements between the code and what is said of it

Two have a run that shows the counterexample (`PROJECT.json` "findings"):
`decrypt` with `encrypt`'s `chunk_size` (`utility.cc:1136`); the promise gone before its callback
(`communication.cc:141`).  The models contain these too, without a run of their own:

- The last group of base64 is padded wrongly unless the length is 2 modulo 3 (`utility.cc:131`); `tests/test_base64.cc:11` uses such
  a length.  `Base64AllButTheLast` says exactly what is wrong.
- `execute_sqlpp_future` asks for `request_plus` when `consistent` is false
  (`icouchbase_core_interface.cc:213`), against `icouchbase_core_interface.hh:216` and against
  `execute_sqlpp`: with true a select misses inserts that were acknowledged, with false it sees them all, as `ReadsWhatWasWritten` says.
- `file_to_buffer` returns 1 behind a read that failed, of a bad disk or of a directory, with part of the file in the buffer (`utility.cc:996-1007`),
  where `utility.hh:426` says "1 mean ok"; `BufferGetsFile` says which part.  Nor do `from_csv_file`'s callers learn of it: rows are missing.
- `initialize_database` returns 1 without `create_db`, though it has connected nothing, and after a database that could not be created
  (`ipostgresql_core_interface.cc:40, 60`); its header says "1 mean ok".  A second call loses the first session (`:32`).  A query without a row ends the process (`:70`).
- The gates of jsoncpp's `save_to_csv`, `save_to_json` and `from_csv_file` refuse every path, those of jsontao none
  (`utility.cc:668`).  A save to a full disk returns 1 (`utility.cc:949`); `save_to_csv` that refuses its input with -3 or -4 has emptied the output (`utility.cc:897`).
- `is_port_available` keeps its socket when the port is too large (`system.cc:17`).
- `and_replace_all` may fail half way, and the mail goes out as it is (`communication.cc:45`).
- The shell expands dollars, backticks and backslashes of the mail, which stands in an unquoted here-document (`communication.cc:26`);
  a line that is only `EOF` would end it there.
- `is_port_available` says false of a port that a server with `SO_REUSEADDR` could have, and of every port the process may not bind (`system.cc:31`).
- `to_millis` throws for the digits `to_string` gives (`date_and_time.cc:949`), though its parameter is called
  `YYYYMMDDhhmmss` and the header says it converts that; of a text with a zone it drops the zone.
- `local_timezone` does not see daylight saving and cuts half hours (`date_and_time.cc:24`).
- Before 1970 a text of `to_millis_string` has a negative number behind its point (`date_and_time.cc:1154`).
- `decrypt` in GCM mode returns 1 with an empty output for a wrong key
  (`utility.cc:1167`), where `README.md:37` says gcm rejects it: the cipher does, the caller does not look.
- The answers of the create requests are dropped (`icouchbase_core_interface.cc:144, 175, 180`);
  the flag of a collection just created stays 0; after a connect that failed, names and flags are of two connections (`:97`).
- `allow_all` mode never connects: the first initialisation awaits a null
  future, a second one the future of an earlier connect (`iscylladb_core_interface.cc:105-129`).  `get_keyspace` answers for
  the object initialised last.
- `tests/test_communication_smtps.cc:44` expects 0, the code says 1.
- `and_replace_all` with an empty query and an empty replacement never ends (`utility.cc:245`); neither does `file_to_buffer` with a `chunk_size` of 0 (`utility.cc:996`).

Met while reading parts that are not modelled: `sha224` to `sha512` call `SHA1` (`cryptography.cc:102-134`); `string_to_hex_openssl`
masks with 5 bits (`cryptography.cc:30`); `to_buffer` reserves where it should cut (`utility.cc:451`); `random_alphanumeric` returns twice
the length, the first half zeros (`utility.cc:349`); `buffer_to_jpg` refuses every name, as it wants both extensions at once (`generate.cc:75`); the barcode writer
sizes its pixels by `_channels` and fills four bytes for each (`generate.cc:169-187`).  A copy of `_IPostgreSQL` releases its connection twice; the models have no copies.

## Plan

Done in this order: `FileCrypt` with its proofs (the most state and the most ways to
fail), `ScyllaCore` and `CouchbaseCore` (concurrency), mail (refinement), queries, dates; then files, CSV and ports in one process,
PostgreSQL, the string ciphers, and the proofs of all of these; the calendar and the proofs of `DateAndTime`; last base36, base64, the texts of the mail and the
proofs about them, which also found five `CASE`s whose guards overlapped: TLC takes the first, TLA+ any.  The CSV of
`SaveFiles` came at the end: proving it showed that `Plain` asked too much of keys, as only the last column may not be called by the empty one.  Nothing a run checks is left but liveness.

## Not modelled, and why
- *Hashes*: SHA digests and argon2id are one library call each without state.
- *Images and barcodes*: single-threaded pixel arithmetic between ZXing, stb and nanosvg on buffers that do not outlive a call; a
  model would restate the arithmetic.
- *Random values and uuids*: their content is random and nothing is kept.
- *Numeric predicates, letter case, `keyword_before`, `keyword_after`, `each_keywords`, the hex encodings*: pure one-pass functions for which
  a reference definition would be the definition.
- *The bodies behind jsoncpp's gates*: no path reaches them.  `to_string` and `from_string` of JSON are one library call.
- *Configuration*: no behaviour; `BEHH_IS_DEBUG` is a constant of `CouchbaseCore` and `SparkpostMail`.
- Library internals (OpenSSL, the database drivers, curl, drogon, ZXing, stb), all of `src/vendors`:
  modelled by what the code here can see of them, and marked external in the map.  As they make up almost all lines of the
  repository, the mapped share of all its lines is small by necessity.
- Lines: a line that is only `EOF` in a mail.  Other spellings of numbers in a CSV cell: a plus, `inf`, `nan`, hexadecimal digits.
- A save that opens a file in the middle of a load of it, or of another save: both happen in the models, but what the load or the file then has is a mixture of two values, with which nothing
  is compared.
- Wording and logging: no property depends on it.  Memory exhaustion other than where a module says so.
