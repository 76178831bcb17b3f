# A verification project for librestserver

librestserver is a small C library for HTTP/REST services (Windows and z/OS). This directory
holds TLA+ modules translated from its source, the TLC configurations that model-check them,
and TLAPS proofs of the safety properties for every value of the constants.
`PROJECT.json` lists the components, the runs, the source lines behind every definition, the
hazards and the findings.

The code is modelled as it is built: `tcpserver.c` defines `THREAD_FOR_HANDLER` (lines 80-246
are compiled, 249-367 are not), `rstclient.c` defines `NO_THREADING` (handlers run inside the
loop), `USE_THREAD_POOL` and `RST_USE_HTTP_PARSER` are undefined, and assertions are active.

## The system

| Component | State | Operations | Hard part |
|---|---|---|---|
| Select loop (`tcpserver.c`) | `clients`, `finished_clients`, `writing_sockets`, `writers_data`, the fd sets | start, select, accept, read, write, release | peers move the sockets between any two system calls; fd sets are a stale snapshot; descriptors are reused; partial sends |
| Service (`service.c`) | `clients` map: socket to `RST_Client` | `on_client_accepted`, `on_data_received`, `on_data_sent`, publish, find | must agree with the loop's registries: lookups are not checked |
| Client, request (`rstclient.c`, `request.c`) | header field/value under construction, request, response buffer | parser callbacks, message complete, release | headers are saved a line late |
| Request parser (`requestparser.c`) | `state`, `buf`, `last_pos`, `content_length`, `body_read` | execute, one chunk at a time | data cut anywhere; termination of the loop; end of the body |
| Thread pool (`thpool.c`) | queue, semaphore, `readyThreadsN`, keepalive | add work, worker thread, destroy | concurrency; creation on demand by a count; destroy racing the workers |
| Memory pool (`rstutil.c` 475-613) | one buffer, three tables | alloc, realloc, free | never reuses anything; tables of different lengths |
| Containers, strings (`rstutil.c`) | vector, set, map, string builder | insert, erase, find, append, slice | erase while iterating, ownership |
| Response, resources, query string (`response.c`, `resource.c`, `request.c`) | headers, body, status; published resources; parameters | set body, header, status; find; parse; release | null keys and messages run into assertions far from where they come from; `Content-Length` is kept from the first call |
| http_parser (`http_parser.c`), the parser of builds with `RST_USE_HTTP_PARSER` | `struct http_parser`, five marks | execute, pause, EOF, parse url | about 60 states, fed in chunks cut anywhere, bytes looked at twice, callbacks that fail or pause |
| Multipart parser (`multipart_parser.c`) | state, index, lookbehind | execute | the end of a part is recognised bytes, and chunks, after it began |
| JSON, WebSocket stub, sample applications | - | - | not compiled, stubs, examples |

One thread runs everything: `select()` says which sockets are ready; a new connection is accepted
and the service gives it a client; data read from a client goes through the service to its parser,
whose callbacks fill the request; at the end of the message the handler runs and its response is
handed to the loop, which sends what the kernel takes and puts the rest into `writers_data`; later
turns send more, and when nothing is left the service drops the client and the loop closes the
socket at the end of the iteration.

What makes each part correct:

- loop and service: the registries agree at every point where an entry is followed unchecked; no
  part of a response is skipped, repeated or cut off; the closing list never names a live
  connection; a complete request is answered in the end;
- parser: the result does not depend on how TCP cuts the stream; every call returns; the body is
  exactly what was announced;
- thread pool: every permit finds a job, jobs are taken in order and once, every job is run,
  destroy ends;
- memory pool: blocks do not overlap, pointers in use are found;
- service: parameters, method and path reach the handler as the url has them; every request goes to
  the right handler, is answered once, and the answer never promises more body than it has;
- http_parser and multipart parser: the callbacks carry exactly what the stream says, wherever it is
  cut and whichever callback pauses; sizes stay bounded, every call returns;
- containers: the arrays behave as the sets and maps they stand for, through growth, erasure and
  iteration; destructors run once.

## Modules

| Module | Models |
|---|---|
| `TcpServer` | the select loop with the service's callbacks, the kernel's sockets and the peers |
| `ServerContract` | what the server promises of one connection: the abstract specification |
| `TcpServerProofs` | invariants and refinement of `TcpServer` |
| `RequestParser` | `RST_requestparser_execute` and the client callbacks |
| `RestService` | one request from first byte to release: `RequestParser` composed with url and query string, resource search, handler calls, response and release |
| `RestServiceProofs` | invariants of `RequestParser` and of `RestService` |
| `HttpUrl`, `HttpParser` | `http_parser.c`: character classes and url parser; `http_parser_execute` |
| `HttpParserProofs` | invariants of `HttpParser` |
| `MultipartParser`, `MultipartParserProofs` | `multipart_parser.c`, and its invariants |
| `ThreadPool`, `ThreadPoolProofs` | `thpool.c`, and its invariants |
| `GarbagePool`, `GarbagePoolProofs` | the memory pool, and its invariants |
| `RstVector` | `RST_Vector`: operators on an array with size and capacity |
| `RstMap`, `MapContract` | `RST_Map` over such an array, and the abstract map it implements |
| `RstMapProofs` | invariants and refinement of `RstMap` |
| `ClientRegistry`, `ClientRegistryProofs` | `RST_Set clients` and `RST_Vector finished_clients` inside the select loop, and their invariants |
| `MC*` | constants for TLC |

Operators whose comment says *mutant* are wrong versions of the definition that follows them.
No specification uses them; each shows that some property notices that bug.

### TcpServer

A program counter says where the loop is: at `select()`, at `accept()`, in the scan over the
clients, in the handler (`respond`), or at the writing turn of the client just read from. One
action is the code between two system calls, because that is where peers can act: they connect,
abort, send, take data, close or reset at any moment. `RST_Set` and `RST_Vector` are sets.
`WriterData` is an offset and a remaining length, and both may be driven by `send()`'s -1, as in
the code. The process can end in five ways, each a value of the program counter: the loop
returned (select error *or timeout*, accept error), the parser never returns, the assertion behind
`recv()` failed, the process died otherwise (`crashed`), or the exit byte 0x7C arrived. `crashed`
is a null pointer followed or an assertion failing while a chunk is handled (`ReadCrashes`) or when
the service drops the client (`WriteDoneCrashes`), and SIGPIPE, which nothing ignores, when `send()`
meets a connection whose reset was already reported (`SendKilled`). What one chunk makes the parser
do, and whether dropping the client fails, are free choices; `RequestParser` and `RestService` say
when each happens.

The refinement mapping to `ServerContract` reads the phase of a connection off `net` and
`response_len`, and what was sent off `delivered`. The contract: one answer per connection, sent in
order, and never closed by the server before all of it is out.

### RequestParser

The stream is a sequence of tokens - words, `COLON`, `CR`, `LF` - which is all the code tells
apart; blanks only separate. `Execute(k)` appends the next `k` tokens, so a chunk may end between
CR and LF; every turn of the loop is an action. A turn that changes nothing is no action: a loop
that cannot move on is a behaviour that stays in `exec`. `ReturnsUnlessStarved` says when
that happens: only while part of the body is missing, or in a call after the end of the message. `RST_min` works on ints, so lengths wrap at `2 * (IntMax + 1)`.

The reference for the headers (`Reference`) splits the *stream* at its line ends and feeds whole
lines to the header operator. It shares that operator with the model on purpose: what is compared is
buffering, slicing and positions. `RequestExact` compares headers and body with the stream itself,
and says when the handler gets half a body (see below).

### RestService

`RestService` extends `RequestParser`: its `Parse` is a turn of the parser's loop, and what
`on_message_complete` does is broken into the url, the query string character by character, the
search for a resource, the calls of the handler and its return. As `NO_THREADING` is defined, all of
it happens inside the call of the parser; the calls of a handler are steps because their order is
what matters. `phase` says how far the request is. Words that are urls have characters (`UrlChars`);
a body has a length. The process ends

- `aborted`: by a parameter without `=`, whose null key the next look-up or the release of the client
  meets; by a response without a status message, which `RST_free` meets; or by the call of a generic
  handler nobody published (`rstclient.c:177` does not ask, and `RST_service_init` leaves the field at
  the zero of fresh memory; the streams of `Unpublished` are sent to a service in which nobody did);
- `crashed` (a value of `pc`): inside the parser, by a first header line without a colon or a body
  longer than an `int` can say (`CrashExplained`);
- `exited`: by a chunk that begins with 0x7C (`ExitByte`; a word of `ExitWords` holds that byte, and
  the chunk may begin inside it).

`AbortsExact` says that nothing else ends it, and that a released client met none of the first group.
`QueryParamsExact` holds for a reference that splits at `&` and `=`, with one correction: the case
of `&` falls through into the default, so every key but the first has the `=` behind it. The text of
a response is kept as its parts; `TcpServer` sends it as units.

### HttpUrl, HttpParser

One action per state, or group of states, of `http_parser_execute`. A byte is a one-character string, or a name (`"CR"`, `"SP"`);
where the code only compares a run of letters with a constant, the run is one symbol (`"hunked"`),
which shortens the streams and not the code: matchers go symbol by symbol. `q` is the parser with the
current byte counted, `At(S)` the head of the loop. The inner loops over names and values are stepped
byte by byte, with `start` remembering where they began, because they count the header size when they
end. `flags` is a set of names, cut to the six bits the struct has: `F_SKIPBODY` is the seventh, so
the answer 1 of `on_headers_complete` ("no body") changes nothing, against the comment at
`http_parser.h:73-77`. `attrs` remembers the answer; `Delivered` and `ParsedToTheEnd` say nothing of a
stream once a message with a body was answered 1, as whoever answers so expects no body, and
`NoBodyAfterOne`, what the comment promises of such a message, is violated (run `skipbody`).
A callback answers 0, fails or pauses (`Call`); after a pause the caller goes on with the rest of
the chunk, after another error it stops. The build is the strict one.

`http_parser_parse_url` is two loops over the url, recursive functions of the number of bytes read
(`UrlRead`, `HostRead`), that fill a structure which starts with junk (`Junk`), as `rstclient.c:200`
leaves it. Offsets and lengths are 16 bits wide: `Extend` counts modulo `UINT16_MAX + 1`, which is
also the largest port. `UrlTakenApart` excepts what the code gets wrong or leaves open: a url longer
than 16 bits can say, which fits in the headers, so that its offsets wrap; and a schema without a
host. `http_parser_parse_url` looks for a host whenever there is a schema, at the offset and length the
structure holds: that "host must be present if there is a schema" (`http_parser.c:2358`) is true of a
structure that was cleared, which `UrlTakenApart` says; in the one of `rstclient.c:200` the junk may
point at bytes that look like a host.

`MCHttpParser` describes messages by their meaning and derives both their bytes and the callbacks
they deserve, so `Delivered` and `ParsedToTheEnd` compare the parser with an encoder, not with
itself. Broken streams are checked for order, assertions, bounds and termination.
Two of those properties have an exception that the code makes and the proofs brought out: a response
parser calls `on_message_begin` for every blank line before a message (`s_start_res` skips CR and LF
but makes the callback), so `CallbackOrder` lets it repeat unless the parser is one of requests; and a bad
digit in `Content-Length` leaves `execute` before the digits in front of it are counted
(`goto error` inside the inner loop), so `HeaderSizeBounded` says nothing of `nread` then. The runs
have a stream for each.

### MultipartParser

One action per state of `multipart_parser_execute`, one byte per step. `lookbehind` is the buffer of
the bytes that may be a boundary; `LookbehindFaithful` compares it with the stream. The parser hands
names and values over at the end of a chunk. It loses the part of a name that ends with a hyphen
there, and hands a value over twice when its CR is the last byte; `HeadersExact` says that nothing
else goes wrong.

What a body means does not come from the parser. Of an input that is `known`, `calls` are the
callbacks its reader deserves and `spans` where in the body the data of each lies; `WellFormed` says
what stands in between (boundaries, colons, blanks, line ends), that no boundary begins inside the
data of a part, and what names and values are made of. `KnownAssumption` requires it of every known
input, and TLC evaluates it on all that the encoder in `MCMultipartParser` writes. Properties about
meaning speak of known inputs; the others also of broken ones.

### ThreadPool

Workers, each with a program counter, and one caller, which adds jobs and may at last destroy the
pool. A section between a lock and its unlock is one action. `sem_wait` on a destroyed semaphore is
undefined; it works as before or fails, and the code answers a failure by `exit(1)`. The server itself is
built without `USE_THREAD_POOL`; the pool is used by the threaded build and by the pool's own
`main.c`.

### GarbagePool

An address is an offset in `gpool.buf`. `held` is what the program wrote into each block it holds.
`Spec` is the pool with tables that are long enough; `FullSpec` adds what the compiled code does
when `allocations_sizes` and `allocations_is_free` are full: the next store goes to the field behind
the array, in the layout of `RST_GarbagePool`. Callers of realloc only grow blocks, as string builders and vectors do.

### RstVector, RstMap, ClientRegistry

`TcpServer` takes the loop's registries for sets and `RST_Map` for a function. These modules go down
to the arrays. `RstVector` has the operators: growth by doubling, erase by shifting, clear. `RstMap`
steps through the loops of erase, iteration and release one turn at a time: what matters is the
index a turn leaves behind. Objects handed to the map have identities, and `destroyed` lists the
arguments of the destructor calls. A map with a key destructor is never erased from (`RST_map_erase`
would hand it the address of the slot, `rstutil.c:278`); no other combination occurs in the library.
`MapContract` is the map seen from outside; the mapping reads the pairs off the array.
`ClientRegistry` is the select loop reduced to what it does with `clients` and `finished_clients`;
whether a turn ends with a release is free. `opened` is the kernel's table of descriptors, so that
"the array is the set of open connections" can be said at all.

## Runs

| Run | Checks | Instance |
|---|---|---|
| `server` | `RegistriesAgree`, `WritersRegistered`, `ScanOrder`, `ResponseIntegrity`, `AbandonedForever`, `ImplementsContract`, `AnsweredEventually` | descriptors 2 and 4 around the listening 3, 3 connections, responses of 1-2 units, send buffer of 1, 1 chunk per connection: 0.3 million states |
| `recv_assert` | `RecvAssertion`, violated | 1 descriptor |
| `service` | `ChunkIndependence`, `RequestExact`, `ReturnsUnlessStarved`, `QueryParamsExact`, `RoutedExact`, `AbortsExact`, `ContentLengthHonest`, `AnsweredOrDown` | all requests with 0, 2 or 3 headers out of nine kinds, malformed ones, bodies of 0-3 units against lengths 1, 2 or none, every cut; every query string of up to four characters out of `a`, `=`, `&`, and longer ones; handlers of up to three calls; words with the exit byte; five requests to a service without a generic handler, with and without a resource: 0.2 million states |
| `pool` | `JobsInOrder`, `PermitsMatchJobs`, `JobsRun`, `DestroyEnds` | 2 initial threads, 2 more on demand, 2 jobs |
| `pool_exit` | `ActiveJobsFinish`, violated | the same |
| `memory` | `BlocksIntact`, `PointersFound` | 4 rows, sizes 0-2 |
| `memory_full` | `FreeAssertion`, violated | 3 rows |
| `registry` | `ClientsAreOpen`, `SelectSeesAll`, `EachHadItsTurn`, `ClosedOnce` | 3 descriptors around the listening one |
| `map` | `PairsAligned`, `DestroyedOnce`, `ImplementsMap` | 3 keys, 4 insertions, with and without a key destructor: 0.5 million states |
| `http_parser` | `Delivered`, `ParsedToTheEnd`, `AssertionsHold`, `HeaderSizeBounded`, `CallbackOrder`, `UrlTakenApart`, `ExecuteReturns` | every kind of header with one cut anywhere and one callback failing or pausing, all pairs of headers, all methods and all mixtures of two, responses, urls of up to 8 bytes and of lengths around the largest (`UINT16_MAX` is 12), into four kinds of junk, headers around the largest size (160), one wrong byte anywhere: 0.4 million states |
| `skipbody` | `NoBodyAfterOne`, violated | a response of two bytes, by length and in chunks |
| `multipart` | `LookbehindFaithful`, `PartsExact`, `HeadersExact`, `ParsedToTheEnd`, `CallbackOrder` | data of up to four bytes out of CR, LF, `-`, `b`, `x` with the boundary `-b`, one or two cuts anywhere, two parts, a failing callback, one wrong byte anywhere: 1.4 million states |

The type invariants of `ClientRegistry`, `RstMap`, `RestService`, `HttpParser` and `MultipartParser` are conjuncts of
`SelectSeesAll`, `PairsAligned`, `RoutedExact`, `AssertionsHold` and `LookbehindFaithful`; those of
`TcpServer`, `ThreadPool` and `GarbagePool`, and `ReadyCount`, are proved for all instances.

Why these bounds: two descriptors on both sides of the listening one exercise `mx`; the third
connection reuses a descriptor; a response twice the send buffer needs a second writing turn and a
wait. Three header lines are enough for a
dangling field, the name glued to it and the line after. Four threads are one for every thread
that `add_work` can create for two jobs, and the safety properties of the pool are proved for any number. Four rows allow a block to be reallocated twice between
two others. Three clients and three pairs are one more than the arrays start with room for, so that
they grow, and erasing has an element before and behind it. One cut puts a chunk end between any two
bytes of any message; the second lets a chunk lie inside a name, a number or a boundary. Pairs of headers are enough for flags that must not leak from one header to the next,
the second request for those that must not leak between messages. The largest length, 60, is reached
by two digits in both bases. Four characters give a query string two parameters with a boundary case
on either side. Deadlock is not checked except in `registry`, whose loop never
stops: the server stops in the ways listed above, a peer may send nothing more, the
pool may be idle or freed, the tables full, the map released.

Fairness. The loop and the parser are sequential code: weak fairness of the next step. A peer that has not given up takes
what was sent (`PeerReads`); it owes nothing else: connecting, sending and closing are not fair. Every pool thread is
scheduled and jobs return; a call of the pool that was entered goes on, but nobody need call again.
`RestService` adds that its own steps are taken and that a handler returns; more data need not come.
`http_parser_execute` is sequential code: weak fairness of its loop, none of its caller.

### What the violations show

- `recv_assert`: a peer that resets its connection makes `recv()` return -1, and
  `assert(bytes_read >= 0)` (`tcpserver.c:108`) ends the server.
- `pool_exit`: `thpool_destroy` destroys the semaphore before joining; a thread on its way to
  `sem_wait` calls `exit(1)` while others are inside their jobs, against the promise of `thpool.h:174`.
- `memory_full`: the tables of sizes and states are ten times shorter than the table of addresses;
  allocation 500001 overwrites `allocations_count`, and the assertion in free fails for a block in use.
- `skipbody`: `on_headers_complete` answers 1 for a response whose headers announce a body, as the answer
  to a HEAD request has; bit 6 does not fit into `flags` (`http_parser.h:207`), the parser waits for the
  body and takes what follows for it. With a seventh bit the same run passes.

Some properties hold and say something unpleasant. `AbandonedForever`: nothing releases a connection
whose peer closed it early (`tcpserver.c:109`). `ReturnsUnlessStarved`, by its exception: part of a
body without the rest leaves `RST_requestparser_execute` in its loop for ever, and the rest is never
read; so does a call after the end of a message. `RequestExact`: the end-of-body test
(`requestparser.c:181`) runs after `body_read` was advanced and also holds when exactly half of the
body has arrived, so the handler runs on half a body. `AbortsExact`: see the list under RestService.

## Proofs

All theorems hold for every value of the constants under the named assumptions only
(`SocketAssumption`, `BoundAssumption`, `RegistryAssumption`, `MapAssumption`, `ParserAssumption`,
`ServiceAssumption`, `MultipartAssumption`, `HttpAssumption`, `UrlAssumption`, and the `PoolAssumption` of each pool). They fix the
types of the constants, and little else: a boundary is not empty, the largest length has room for a digit (26), `Content-Length` is not a header a
handler adds by itself, "no value" differs from every value. `KnownAssumption` is of another kind: it
defines what it is for a multipart body to mean a list of callbacks. It does not restrict the inputs,
only those that claim a meaning; the bodies of the run `multipart` satisfy it.

**TcpServer** (`TypeCorrect`, `RegistriesAlwaysAgree`, `WritersAlwaysRegistered`,
`ScanAlwaysInOrder`, `ResponsesIntact`, `AbandonedStays`, `LoopImplementsContract`). The inductive
invariant is the conjunction of the checked invariants; they need each other. That the closing list
names no live connection when `accept()` runs (`ScanOrder`) is what lets a reused descriptor start
with empty registries; that in turn makes `RST_map_insert`, which never overwrites, insert
(`RegistriesAgree`, `WritersRegistered`); the offset arithmetic of a second send
(`ResponseIntegrity`) needs that a socket select() found writable still has room when its turn
comes, which is the last conjunct of `ScanOrder`. There is a lemma for every group of actions. The
refinement is proved step by step from the same invariant: each action of the loop is a step of
`ServerContract` or changes nothing there.

**ThreadPool** (`PoolTypeCorrect`, `JobsAlwaysInOrder`, `PermitsAlwaysMatch`, `ReadyAlwaysCounted`).
The invariant adds that keepalive is cleared exactly inside `thpool_destroy`, and that a caller about
to enqueue is below the bound. Counting arguments go through one lemma, `MoveCounts`: moving one
thread changes the number of threads at a set of places by one or not at all. A permit is never lost because each action
that changes the semaphore moves one thread the other way.

**GarbagePool** (`PoolTypeCorrect`, `BlocksAlwaysIntact`, `PointersAlwaysFound`). The invariant adds
that the rows in use lie one after the other with a guard between them (`RowsApart`), that every
block held has a row (`HeldRows`), and that guards precede the next block (`LastGuard`). Rows apart
by at least four bytes have different addresses, so the search finds one row - also for blocks of
size zero, which is why the guards matter. `NewBlock` is the common step of alloc and realloc.

**ClientRegistry** (`ClientsAlwaysOpen`, `SelectAlwaysSeesAll`, `EachAlwaysHadItsTurn`,
`AlwaysClosedOnce`, from `RegistryAssumption`). Lemmas say what push_back and erase do to an array, then what insert and
erase do to the set in it; erase needs that no element is there twice, for it stops at the first
match. The invariant adds that what the iterators have passed is what the loops have dealt with
(`Progress`). A client enters the closing list in its own turn, which comes once, so the list has no
repeats; it is empty when a scan starts, so a reused descriptor is not in it. `MaxElementIs` shows
that the loop of `RST_set_max_element`, a recursive function, returns the maximum: the function of
the maxima of the prefixes solves its equation, and any solution agrees with it, for there is no
least index where it does not.

**RequestParser** (`ParserGivesRequest`, `ChunksDoNotMatter`). The reference in `RequestExact` looks at what has
arrived; the proof looks at the stream as a whole, with operators (`LineEnd`, `LineOf`, `HeadersTo`)
that more data does not change. The invariant: the buffer is the rest of the stream behind the last
line end taken (`Position`); the headers, with the pair that still waits for the next line, are those
of the lines that end before it (`HeadersTaken`); the body is what follows the empty line
(`BodyTaken`, which also has the half of a body). A chunk changes nothing in these but the end of the
buffer, which is why cuts do not matter. The steps come down to one lemma: the first line end in the
buffer is the next one in the stream. `ChunksDoNotMatter` concerns lines of every form, pairs or not: its
reference is a recursive function, about which the proof needs only that it has a solution
(`RecursionExists`) and its equations. `LinesKept` says that the client, without url and body, is
what the recursion has at the last line end taken, and that no line is left in the buffer on return.

**RestService** (`ServiceKeepsParser`, `ServiceGivesRequest`, `RequestsRouted`, `ParametersExact`,
`AbortsExplained`, `LengthNeverExceedsBody`). Every step of the service is a step of the parser or
leaves it alone, so the parser's invariant is kept. On top of it: where the loop of
`RST_request_parse_query_string` is in the url and what its locals hold there (`QueryState`); that
the parameters stored are those that end before that place (`ParamsRead`); why a query was refused
(`RefusedQuery`); what a sequence of calls of a handler can have made of the response
(`Responding`), whose `Content-Length` is the length of the first body set; and why the
process ended: `Aborting` for the aborts and the exit, `Deaths` for the parser, which traces a null
header field to the first line behind the request line (a huge body shows in the announced length).

**RstMap** (`PairsStayAligned`, `NoDestructorTwice`, `MapRefinement`). The invariant adds that an
object carries the number of its insertion, so that objects of different insertions differ
(`Numbered`), that what was destroyed is no longer in the map (`Destruction`), and where the index
of a loop can be (`Progress`). Erasing a pair is two erasures in the array; lemmas say what the two
together do. In the refinement the turns of the search are stutters and the turn that finds
the key is the abstract erase.

**MultipartParser** (`LookbehindIsFaithful`, `CallbacksInOrder`; `WellFormedTracked`,
`PartsAreExact`, `HeadersAreExact`, `WholeBodyParsed`). The invariant `IInv` says for each state
what `index` counts and which bytes of the stream `lookbehind` copies (`Lookbehind`), and which
callback can have been the last (`LastIn`). It holds for bodies that are not well formed, for every
cut and every answer of the callbacks.
For a well formed body, of any length and with any number of parts, headers and cuts, `Tracked` adds
where the parser is relative to the callbacks deserved. `Delivered`: those made are the first of them,
all but the last with all their data, the last with a piece from its beginning. `Place`, a table over
the states: `i` is inside the string being read (`Within`), or behind a CR, LF and part of the
boundary that are withheld and that the body has at that place (`Withheld`, `Matching`), or a fixed
number of bytes behind the last callback (`After`), in the blanks of a value (`Blanks`), behind its CR
(`LineEnd`), behind the last boundary (`Epilogue`). The step that matters is in `DataBoundary`: the
boundary is complete exactly where the data of the part ends, not earlier because `WellFormed` has no
boundary in the data, and not later because there is no CR in a boundary, so a false start cannot
hide the true one. `Due` leaves out the headers of bodies where a chunk ended at a fragile position.
`WholeBodyParsed` follows because every other state expects bytes that a well formed body still has
(`MoreToCome`), and no byte of it is rejected.

**HttpParser** (`Invariance`, `AssertionsSafe`, `HeaderSizeSafe`, `CallbacksOrdered`, `UrlsTakenApart`,
`GivenInOrder`). The invariant `IInv` has five parts. `State` is a table over the sixty states: which callback was the last, whether
a message is open (its `headers_complete` came and its `message_complete` did not), what the length
and the flags are; it is claimed only while the parser can go on, for after an error `state` means
nothing. `Marks`: a mark is set only in the states that collect its string, and, except for the body,
always there, so at the end of a chunk at most one is left. `Ordered` is `CallbackOrder` in a form
that a further call extends. `Size` bounds `nread` from both sides, state by state: a byte that is
read again in another state is counted twice, so the upper bound of a state depends on how many of
those lie before it, and inside the loop over a name or value only the bytes before it are counted.
`AssertionsHold` needs the first three together: that a chunk is chunked, a body has bytes missing
and a size is counted from 1 are facts about the state before, and a pause or a cut must not lose
them. There is a lemma for every action, and lemmas for the ways to leave a byte (`Stays`, `Breaks`,
`Pauses`, `Returns`). The matchers and character classes enter only through the states they lead to.

`UrlsTakenApart` joins that machine with the two loops of `http_parser_parse_url`. The first half is
about the loops alone, for any sequence of bytes (`UrlComesApart`): after every byte the fields of the
bit set are laid out in the bytes read (`Laid`), without overlap and missing delimiters only, and a
state says which fields it can have met (`Reach`), so a byte that is no delimiter extends the last
field or begins one that is new; the loop over the host then cuts `HOST` into parts that are laid out
in it. For a url that begins with its path (`RootedComesApart`) the state after every byte is a
function of where the first `?` or `#` is (`Rooted`), provided no byte is a blank. That is what the
second half adds, as an invariant of the machine (`UrlsClean`): the pieces of a url handed over, and
the bytes behind its mark, have no blank in them, and a url is never empty, not even when a chunk
ends at its first byte. `LoopAway` shows that no other step touches a url.

`GivenInOrder` is the half of `Delivered` that needs no grammar, for every stream, cut and failing
callback: what the callbacks get are bytes of the stream in their order, none twice. (Which of them,
and to which callback, is left to the runs and to `CallbacksOrdered`.) The invariant `Handed` says up
to where bytes were given: not beyond the parser, nor beyond any mark, or the bytes between would be
given again. The last byte of a counted body breaks the first of these, as it is given while the
parser goes back to read it again; `Reached` counts it in `s_message_done`. `GoesOn` is what a step
may do for `Handed` to last, and `LoopGoesOn` shows that every action does no more.

Only model-checked, and why: the liveness properties (`AnsweredEventually`, `ReturnsUnlessStarved`,
`AnsweredOrDown`, `JobsRun`, `DestroyEnds`, `ExecuteReturns`), because fairness is out of the
prover's reach; and `Delivered` and `ParsedToTheEnd` of `HttpParser`, which compare the code with
what an encoder made the input from. The library's induction theorems cannot be instantiated here. Where a proof follows a
recursion along an array, a stream or a url (`MaxElementIs`, `ChunksDoNotMatter`, `UrlReadLaid`) it goes by the least index
that would fail, and in `MultipartParser` the meaning of an input is stated without the encoder. The
same was not done for http messages, whose grammar is far larger.

## Not modelled

The JSON parser (does not compile as committed), the WebSocket stub (`upgrade_websocket` is never
set), code page conversion, logging, and the sample applications with `RST_str_replace`, which only
they call. The failures of `RST_selecttcpserver_start`, after which nothing runs. The control handler
of `testapp` releases the service from another thread while the loop uses it; no order is defined
there, so there is nothing to check. `RST_service_release` is called from nowhere else. The service
of a build with `RST_USE_HTTP_PARSER` ignores what `http_parser_execute` returns (`service.c:58`); no build file defines it, and the parser is modelled by itself.
Memory after the end of `gpool.buf` is not modelled either: `BufLen` is a bound.

## Plan

1. *Done*: `TcpServer` with its contract and proofs, `RequestParser`, `ThreadPool` and
   `GarbagePool` with proofs, `RstVector`, `RstMap`, `ClientRegistry` with proofs.
2. *Done*: `RestService`, the composition from the first byte to the release; `HttpUrl`, `HttpParser`,
   `MultipartParser`.
3. *Done*: proofs of `RequestParser`, `RestService`, `RstMap` with its refinement,
   `MultipartParser` (also that well formed bodies are delivered exactly) and `HttpParser` (also
   that urls come apart and that no byte is given twice).
4. Open: the same exactness for `HttpParser`: a definition of well formed messages beside the parser,
   the place of the parser in them as an invariant, and `Delivered` and `ParsedToTheEnd` from it.
