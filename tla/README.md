# facows: TLA+ models, checks and proofs

facows is a small HTTPS server in C for Linux: a privileged parent process that
owns the nftables rules and the log file, and one unprivileged, single-threaded
worker (the child) that serves files with OpenSSL over non-blocking sockets and
epoll. This directory holds TLA+ models of it, the TLC configurations that
check them and TLAPS proofs of the main results. `PROJECT.json` lists every run,
the source lines each definition stands for, the hazards and the findings.

    tlc -config EventLoop.cfg EventLoop       # model-check one run
    tlapm NftTablesProofs.tla                 # check proofs

## Inventory

| part | source | state | operations | talks to | module |
|---|---|---|---|---|---|
| life cycle | `facows.c`, `fws.c` | process positions, `sig_flag`, tables | configuration, tables, pipe, fork, loops, signal handler, reaping, clean-up | kernel, nft | `Lifecycle` |
| worker loop | `fws.c` `fws_child_run` | epoll set, listeners, timer, contexts | accept, timer, dispatch of batches of 32 events | connections, limiter | `EventLoop` |
| HTTPS connection | `fws.c` `_fws_443_run`, `net_443.c` | `fws_data_ctx`; epoll interest | handshake, read, head, error page, file transfer, close | OpenSSL, limiter, file lookup, pipe | `Conn443`, `HttpStream` |
| port 80 | `fws.c` `_fws_80_run`, `net_80.c` | `recv_buf` | receive, redirect, close | worker loop | `EventLoop`, `Site` |
| request limiter | `fws.c` | `nft_arr[1024]` | look-up and charge, two 429 tests, ban report, reset by the timer | connection, pipe | `RateLimit`, `Quota` |
| ban and log pipe | `fws.c` `fws_parent_run` | pipe, `read_buf`, `read_acc` | write, drain, dispatch | worker to parent | `LogPipe` |
| nft tables | `net_nft.c` | tables `facows`, `facows_test` | create, open and close test ports, delete, ban | all instances on the host | `NftTables` |
| path resolution | `file.c` | none | decoding, redirects, index and extension fallbacks | connection | `UrlPath`, `Site` |
| request parsing, response data | `net_http.c` | none | request line, headers, ETag, MIME, origin | connection | `Site`, `MimeList`, `Conn443` (in part) |
| configuration | `file_conf.c` | `fws_conf` | read and convert | life cycle | `MimeList` (in part) |

What is hard here:

* **One handler, many interruptions.** `_fws_443_run` returns whenever OpenSSL
  wants an event and finds its way back from four fields. Client, file system and
  send buffer change between any two calls.
* **Batches of events.** Handlers free contexts and `accept4` reuses descriptors
  while the rest of the batch still holds pointers; a failing call breaks the batch
  off.
* **Two processes and signals.** `sig_flag` is process-local, it is looked at only
  after `epoll_wait`, and every early error exit skips the clean-up.
* **Several instances, one firewall.** Main and test instance edit each other's
  tables with commands whose results nobody reads, and may be killed between them.
* **A shared bounded table** with 16-bit counters, cleared by a timer in the middle
  of everybody's requests.
* **A byte pipe** drained in chunks into one buffer.
* **Redirects on two ports** that are computed before decoding, while files are
  looked up after it.

What makes each part correct: bodies in order and responses that do not overlap,
requests that are answered or closed (connection); no stale pointer, no leaked
descriptor, nobody forgotten (loop); nobody over quota, nobody punished for others
(limiter); records executed once, unchanged, in order (pipe); both processes end and
tables live exactly as long as the service (life cycle, tables); redirects that end,
at the site and the file that were asked for, with the configured type (site).

## Modules

### Quota, RateLimit, MCRateLimit, RateLimitProofs, RateLimitQuotaProofs

`RateLimit` is `nft_arr` and everything that touches it. The worker is one thread,
so the look-up, the charge and the verdict of one request are one step: `Serve`,
`RefuseFirst` ("check 429": the charge takes the slot over the limit) and
`RefuseAgain` ("check dos at 429": already over; counts the refusal and beyond
`ban_lim` sends the address to the parent). `nft_i` is the look-up with its three
ends: own slot, first free slot, last slot. `Timer` is the `memset`. Counters are
`% CntMod`. `served_page`, `served_res`, `refused` and `ban_sent` are history.
`Quota` is the promise without a table: a per-client quota per window; while the
last slot is shared (`crowded`) a client may be refused and reported early, never
served more.

| run | instance | result |
|---|---|---|
| `RateLimit_shared` | 3 clients, 2 slots, two-bit counters, symmetric clients | `SlotsWellFormed`, `ServedBound`, `Accounted`, `SlotStable` hold; the table implements `Quota` (`RefinesQuota`) |
| `RateLimit_fullban` | 2 clients, 1 slot | `BanJustified` fails: see findings |

Three clients on two slots is the smallest instance with an exclusive and a shared
slot; `CntMod = 4` with limits 2 and 1 is the smallest where the counters reach
their largest value and `dos_cnt` wraps. `MaxReq` bounds the requests of one client
in a window; it is no smaller than both limits and the ban limit together.

**Proved**, for all sets of clients, table sizes and limits with
`LimitsFit` (`lim + 1 < CntMod`):

* `QuotaKept`: `TypeOK /\ SlotsWellFormed /\ Accounted /\ ServedBound` always holds.
  `ServedBound` alone is not inductive: it speaks of history only, while the
  decision looks at a slot. `Accounted` ties the two (the counters of the slot the
  client's *next* request goes to cover what the client got), and to keep it while
  another client claims a slot one needs `SlotsWellFormed` (no hole in front of a
  used slot, so a claim moves nobody's look-up). That the look-up's least matching
  slot exists comes from the well-foundedness of `<` on `Nat`; the rest is one lemma
  per fact about `nft_i` and one step per action.
* `ServedBoundHolds`, the bound itself, and `SlotStableHolds`, the action property,
  from the same invariant.
* `TableKept` and `TableTyped`: `SlotsWellFormed` and `TypeOK`, without `LimitsFit`:
  a counter that wraps does not touch the owners.
* `QuotaImplemented` (module `RateLimitQuotaProofs`): `Spec => RefinesQuota`, the
  refinement itself, under `CountersFit`: `LimitsFit`, the same for `ban_lim`,
  and `2 < CntMod`. In a window that is not crowded a client is served exactly up to its
  limits and reported only after more refusals than `ban_lim`; in a crowded one it is
  never served beyond its limits but may be refused or reported early, as
  `RateLimit_fullban` shows. The invariant `QInv` adds what each verdict needs to be one of `Quota`'s:
  a free slot has empty counters (`FreeIsClear`), an owner has asked in this window
  (`OwnersAsked`), a client that was refused is over a limit (`RefusedOver`), and as
  long as no more clients asked than there are slots, everybody who asked has a slot
  of his own whose counters are exactly his history (`OwnSlots`, `Exact`). The last
  one counts the clients that asked against the slots (`FiniteSetTheorems`); they are
  finitely many in every state, which is part of the invariant.

`LimitsFit` is needed: the counters are `u16` and the limits `u32`, so a limit of
65535 or more is never exceeded. With `lim_page = CntMod - 1` in
`RateLimit_shared.cfg` TLC finds `ServedBound` violated. `MaxReq` occurs in the
proofs only as an arbitrary natural number.

### LogPipe, LogPipeProofs

Cells stand for bytes: a record is a run of cells ending in `Nul`. `Write` is the
worker's `write` (all or nothing, dropped when the pipe is full), `Wait`,
`ReadChunk`, `ReadEof`, `ReadFails`, `ReadAgain` are the parent's drain,
`Dispatch`, `Unknown`, `Drained` the loop over the records. `ReadInto` keeps the
code's behaviour of storing every chunk at the start of `read_buf`; a NUL stored
outside the buffer leads to `pc = "undef"`, after which nothing is claimed. The
first character of a record that is cut is any character (`Headers`).

| run | instance | result |
|---|---|---|
| `LogPipe_drain` | buffer 6, pipe 8 cells, 4 records, one failing read, weak fairness of the parent | `Conservation`, `AtMostOnce`, `ChildGoneNoticed` hold |
| `LogPipe_bans` | buffer 13, pipe 8, 3 records | `BansExecuted` fails: see findings |

In the first run the buffer is smaller than the pipe, so drains of several chunks,
cut records and the overrun all occur, as with 8192 bytes against a 64 KiB pipe. In
the second it holds all records: no overrun is needed to lose a ban. Fairness: only
that the parent process keeps running; the worker may do anything, and a read that
fails is never forced.

**Proved**, for every set of record kinds and lengths and every size of buffer and
pipe, with `ConstantsType` and `NulAssumption` (the terminator is no character of a
record):

* `ConservationHolds`. The invariant adds that what was sent is whole records
  (`Framed`: a record begins exactly behind a `Nul`), that a drain that is not
  `spoiled` has taken at most one chunk (`OneChunk`), and that the part of it still in
  `read_buf` ends with a `Nul` and begins with the beginning of a record (`Whole`), so
  that `strnlen` stops at the end of that record and not at the end of the data.
* `AtMostOnceHolds`, without any condition on the drains. A record is executed from the
  cell it begins with; `Fresh` says that each such cell is in one place only (pipe, live
  part of `read_buf`, or executed). A chunk that overwrites an earlier one destroys
  beginnings and never doubles one.
* `TypeOKHolds`; the dispatch stays inside the drained cells (`InBuf`).

The facts about `Cells`, `ReadInto`, `strnlen` and `SubSeq` are lemmas of their own.

### Lifecycle, LifecycleProofs

The positions of both processes from `main` to exit, `sig_flag` of each, whether
the tables exist. Every failing call of start-up is a branch that exits with 1.
`asleep` is the inside of `epoll_wait`: a signal moves a sleeping process to
`eintr` and otherwise only sets the flag. `Eof` is the end of the pipe once the
child is gone. `Resumed` is an `EINTR` without a termination signal. Results of
nft commands are not tested by the code; `nft_failed` records that one failed.

| run | instance | result |
|---|---|---|
| `Lifecycle_ctrlc` | two signals to both processes, timer armed or not | all five properties hold |
| `Lifecycle_kill` | one signal to the parent alone | `KillExits` fails: see findings |

Two signals reach every combination of a first one that is missed and a second one
that interrupts. Fairness: each process is scheduled, and the armed timer fires
(`ChildTimer` is part of `ChildStep`). Clients (`Traffic`) and operators are not
fair: liveness may not depend on somebody connecting. The timer is needed: with
`lim_swap_time = 0`, which disarms it, a ctrl + c that arrives outside `epoll_wait` is
`Missed`, and that is the one state `GroupSignalExits` excepts.

**Proved**, for any number of signals: `ExitZeroCleanHolds` and `TypeOKHolds`,
whichever of the two processes the signals reach (with `Order`, that tables exist
only where nft is used and that there is no child before `fork`); and, if signals go
to the process group (`GroupOnly`), `LifecycleSafe`: `ServingProtected` always
holds. Its invariant adds that `main` holds the tables between `net_nft_init` and `fork`
unless a command failed (`Installed`), that a living child knows of every signal the parent knows of (`Told`, through the copy
made by `fork`), that a parent on its way out got a signal or has seen its child
exit (`Leaving`), and `Protected`, which is `ServingProtected` for every point of the
child's life. `GroupOnly` is needed: `Lifecycle_kill`.

### Conn443, HttpStream, Conn443Proofs

One connection: `pc` is the place in `_fws_443_run` and its callees, `idle` between
two calls. The fields of `fws_data_ctx` keep their names. OpenSSL, client, socket
and web root are external and modelled from their use: TLS records in `inq` (one may
end a request and carry a second one), a send buffer of `SndCap` records, a
four-flight handshake, a reply that `SSL_read` has to send first (`rekey`), a blocked
record that may only be retried from the same buffer (`wpend`), a file that may be
removed, come back or change size at any time, or that is a directory. Files are
counted in 4096-byte chunks. `file_len` is an `s32` filled from a `u64` (`S32`, in units
of chunks: from `Int32Chunks` on a position turns negative, and `FileOpen` starts from
the beginning). The limiter's verdict and the file look-up are
nondeterministic inputs of `Request`.

`HttpStream` says what a client of HTTP/1.1 relies on: every head answers a request
of its own, and no head comes before the announced body of the one before is
complete. `Conn443` implements it with the mapping `Stream` (property
`AnswersInTurn`).

| run | instance | result |
|---|---|---|
| `Conn443` | files up to 3 chunks, all of whose positions fit `file_len` (`Int32Chunks = 3`), send buffer 1, 5 records from the client, 1 edit, fair handler, epoll and reader | `BodyInOrder`, `RightInterest`, `RequestsAnswered` hold; the handler implements `HttpStream` |

Five records are a handshake and up to three records of requests, each of one or
two; a file of three chunks blocks and resumes more than once on a buffer of one
record. Fairness: the worker runs a handler to its end and gets back to a ready
connection, and the client reads what it is sent; a client that stops reading is
owed nothing.

What the run brings out: after a failed resume `file_len` is stale, and what keeps
it out of the next response is only that OpenSSL refuses the next head while the
blocked record is pending; a file that is edited during its transfer, and a
directory without a trailing `/` (announced with its size and without a body), leave
an incomplete body in front of the next head, which is why `HttpStream` allows that
for a `disturbed` transfer; and a second request in the record that ended the first
is dropped (`Drop`), never answered out of turn.

**Proved**, for any capacity of the send buffer and of the request buffer and any number
of records and edits: `RightInterestHolds` and `TypeOKHolds` for files of any size, and
for files whose positions fit `file_len` (`FilesFit`, up to 2 GiB) `BodyInOrderHolds` and
`StreamImplemented`, `Spec => AnswersInTurn`. `FilesFit` is needed: with `MaxChunks = 4`
and `Int32Chunks = 3` TLC finds `BodyInOrder` violated, by a transfer that is interrupted
beyond the limit and starts over. The invariant:

* `Phase`: handshake before requests, and `want_write` only between two events;
* `Position`: the three places that remember how far a transfer is (`file_len`, the
  handler's `off`, OpenSSL's pending record) agree with what the client has. This is
  where the stale `file_len` shows: it is 0 again only when no record is pending;
* `Announced` and `Settled`: what was announced is the size of the file unless that
  changed, and between two responses the last body is complete, or was disturbed, or
  the client is gone;
* `Counted` and `Asked`: requests answered, lost, in hand and in the records still
  unread never exceed those the client sent. `Asked` says so with a function that adds
  up the unread records; it is what makes `Respond` and `Drop` steps of `HttpStream`
  (`Outstanding`).

`NextCore` has a step for every action and under it one for the types, one for the
control (`Control`) and one for the transfer (`Transfer`); `StepStream` maps every
action to a step of `HttpStream` or a stutter.

### EventLoop, EventLoopProofs

`fws_child_run` with everything in it that may fail. `batch` is the part of
`fws_event` that is still to be handled, each event with the generation of the
context its pointer stood for; `ready` is epoll's ready list (external): level
triggered, reported from its head, and what was reported goes to its tail.
`NextEvent` is `continue`, `DropBatch` is `break`. `Accept`, `AcceptFull`,
`AcceptFails`, `AddFails` and `AllocFails` are the branches behind `accept4`,
`TimerRead` the timer, `Handle443` a call of `_fws_443_run` seen from outside: it closes
the connection, or keeps it when everything was read, or returns on a blocked write
(`out = "full"`) with any part of the input unread and waits for room instead, which
`Drain`, the client's reading, makes. `Redir80`, `RecvPart`,
`RecvEnd`, `RecvNothing` are `net_80_443_redir`, whose `recv` always stores at the
start of `recv_buf`; clients cut requests in two. What the parser is then given is the
question here (`WholeRequest`: not a mix, not a part of a request that came whole);
which address it makes of the text is that of `Site`.

| run | instance | result |
|---|---|---|
| `EventLoop` | 3 clients, 2 descriptors, batches of 2, 2 segments per connection, one failing call | `NoStale`, `Watched`, `WholeRequest`, `Attended` hold |
| `EventLoop_full` | the same without other failures | `TickHandled` fails: see findings |

With two descriptors and three clients a descriptor is freed and given away again
inside one batch, and all of them can be in use while a client waits; batches of
two over five sources leave something outside most batches. Fairness: the worker
keeps running; nothing is asked of clients or the clock, except that their number
of actions is bounded, so that they pause; a connection that waits for room is owed
nothing until its client reads. Signals and `epoll_wait` failing are in
`Lifecycle`.

**Proved**, for any number of descriptors, clients and failing calls and any length of
a batch:

* `WatchedHolds`, inductive with the types of `ctx` and `open` (`CtxType`): `accept4`
  gives a descriptor that is not in use, and each handler either leaves the three of
  them alone or ends them together (`ReleaseStep`).
* `NoStaleHolds`. `Live` says it of every event of the batch and not only of the next
  one. It survives a descriptor that is closed and given away again inside a batch
  because the items of a batch are distinct (`Batch`, from `List`: epoll's list names
  nothing twice), so the events behind the current one are about other descriptors.
* `WholeRequestHolds`: the end of a stream comes last and nothing but whole requests
  follows a whole first one (`Streams`, `Heads`), so the first receive takes the empty
  line with it and what `recv_buf` keeps from an earlier receive (`Received`) is never
  mixed with a request that came in one piece.
* `TypeOKHolds`; that a listener's event still finds a connection waiting is `Waiting`.

`epoll_wait` scans its list from the head: `EpollDrop` takes an item off that is not
ready any more, `EpollWait` reports the first `n_event` once all of them are ready. The
two together are what one scan does, written without `SelectSeq`, whose recursive
definition the prover cannot unfold.

### NftTables, NftTablesProofs

The firewall that all instances on a host share. Each buffer given to
`nft_run_cmd_from_buffer` is one transaction, all or nothing, and its result is
ignored. Two main instances and a test instance run `net_nft_init`
(`OpenPorts`, `Start`), try to listen, serve, stop and run `net_nft_fini`
(`ClosePorts`, `Fini`); `Crash` ends an instance between any two of them, and what
ended is started again (`Restart=always`). `Ban` is `net_nft_dos_ban`, `Flood` the
ban by the rules themselves, `Expire` its end. `doubled`, `dirty` and `forgot` record
the three situations in which less can be promised.

| run | instance | result |
|---|---|---|
| `NftTables` | one address per family, ports of both configurations, port 22 allowed in both | `KeepsItsTables`, `NothingLeft`, `TestReachable`, `BanEffective` hold |
| `NftTables_test` | the same | `TestPortsOpen` fails: see findings |

Nothing is bounded but the set of instances: two with the same tables and one with
the other are the smallest set in which every pair of commands can meet.

**Proved**, for all sets of addresses and ports (`ConstantsType`: the families are
disjoint, and the ports of test mode are not ports of the main configuration;
without the latter, leaving test mode closes a port of the main one):
`TablesInvariant`, and from it `TablesKept`, `TablesRemoved`, `TestReachableHolds`
and `BanEffectiveHolds`. The inductive invariant needs, besides the types (a table
that does not exist is empty): `Own`, an existing table has its own ports, which
closing the test ports does not disturb; `Single`, without `doubled` only one user of
a table is there, so nobody else's `Fini` deletes it; `Present`, an instance has its
tables at every point between creation and deletion, not only while it serves;
`Whole`, the two test ports are in the main set together or not at all, because
deleting an element that is missing makes the whole command fail; `Shut` and `Opens`,
where they are absent and present along the life of the test instance, for
`NothingLeft` and `TestReachable`; and `Held`, which says in *which set* a reported
address is. One lemma per action, one step per conjunct.

### UrlPath, MimeList, Site, MCSite, SiteProofs

`UrlPath` is `file.c` as operators over sequences of tokens: `Decoded`
(`_raw_path_build`) against the reference `DecodedRef`, `UriPathBuild` (redirects to
clean URLs) and `PathBuild` (directory, file, `.html`). `MimeList` is
`_type_mime_parse` with the window it keeps beside its pointers, the normalised text
it produces, and the look-up of `net_http_res_build` in that text, against the
reference `TypeRef`. `mime_cap` is the size the list has to fit, in tokens; the token
`long` stands for an extension of 32 bytes or a type of 64 and more, at which the
look-up fails and the type is left empty. `Site` composes them: a configuration is read or refused, a
visitor asks either port for a URI of a host and follows redirects (`Redir80`,
`PathRedir`) to the `Answer`. `Begins` is the compare of a host with the domain over the
domain's length: `LabelPrefixes` says which labels begin with which, so that
`example.community` begins with `example.com`. Of the hexadecimal digits `UrlPath`
has six and of the characters they spell `.`, `/` and two letters, enough for encoded
names, suffixes and separators; `%00`, which ends the path, is left out.

| run | instance | result |
|---|---|---|
| `Site` | two sites, five hosts (one with capitals, one foreign that begins with the domain), every subset of six files, 7 MIME lists of up to five entries with the next quote 1 to 4 bytes behind, 72 page URLs and all strings of up to four of `%`, `6`, `1` | `DecodeRight`, `CleanUrls`, `SiteKept`, `ContentTypeRight`, `RedirectsShorten`, `RedirectsEnd` hold |

The six files of one site contain each conflict between a name, its clean name and a
directory, those of the other an `index` beside `index.html` on two levels;
the strings contain every complete, broken and cut escape next to another one; lists
of four entries with every gap are on both sides of the limit at which the parser's
window reaches the text behind the list. The list of four entries fills `mime_cap`
exactly, the one of five is too long, another has an extension and a type that do not
fit the look-up. Fairness: the server answers and the visitor
follows. Hosts have at least two labels and URIs begin with `/`; dot segments,
symbolic links (`realpath` and the prefix test) and a missing `Host` line are left out.

**Proved**, for every domain, every set of hosts and of URIs of any length and every set
of web roots, from `TokenType` (the words of the model are tokens), `ConstantsType`,
`SetupsType` (a file is in a directory that is there) and `HostsLower` (with a host its
spelling in lower case is one):

* `PathsDecoded`: `DecodeRight`. `Decoded` is the loop of `_raw_path_build`, which skips
  three characters at an escape; `DecodedRef` looks at every position by itself. That the
  two agree (`DecodedIsRef`) is shown by descent: the set of positions from which they
  agree, or which lie inside an escape, holds the end and with a position the one before
  it, so it holds the first. `LeastNat` (a set of numbers has a least element, from
  `NatLessThanWellFounded`) takes the place of an induction rule; `LoopDefined` shows
  from it that the loop has the values its recursive definition asks for.
* `FilesFound`: `CleanUrls`, which speaks of the first request and of the answer only.
  `CleanInv` adds what holds in between: the path of the request under way *reaches*
  (`Reaches`) each file the first one names, as the file's own name, as its directory, or
  as its name without `.html`. `NamesReach`, `RedirectReaches` and `ReachedServed` are the
  beginning, the middle and the end of a request; they rest on what decoding does to a
  path that is put together from two (`DecodedConcat`), because the code cuts the
  suffix off the path as it was sent and looks the file up by the decoded one.
* `SameSite`: `SiteKept`. `SiteInv` says that the request under way still leads to the
  site asked for; `HostSite` and `BuiltSite` say what `Subdomain` makes of a host that
  was sent and of one that `net_host_build` made. It covers every host a client may send,
  the foreign ones that begin with the domain too (they count as the domain, and reach
  www through both ports), except that capitals are covered on the HTTPS port only. Its
  hypothesis `DomainApart` is about the configured domain: for `community.com` the site
  `community.community.com` begins with the domain and is taken for it.
* `NoRedirectLoop`: `RedirectsShorten`, from `RedirectShorter`. With it the liveness
  property `RedirectsEnd` is only a matter of the server going on.
* `TypeCorrect`: `TypeOK`.

What the proof found: `CleanUrls` used to promise that `index.html` is always found under
its own name. For a path whose last `/` is encoded, such as `/d%2findex.html`, the
attempt failed: `_uri_path_build` sees no `/index.html` at the end, cuts `.html` off, and
what is looked up next is `/d/index`, which may be another file. The property now says
so (`Hidden`), and the web roots of the run contain the case.

## Findings

1. `RateLimit_fullban`: with more clients than slots in a window, the last slot's
   `dos_cnt` counts for all who share it, and a client is reported for a ban it did
   not earn (`fws.c:711`; `facows.conf:73`).
2. `LogPipe_bans`: a record arriving between two reads of a drain overwrites the
   one before it (`fws.c:385`; `README.md:17`).
3. `Lifecycle_kill`: `kill PID` ends the parent and removes the tables; the child
   goes on serving (`fws.c:451`; `README.md:102`).
4. `EventLoop_full`: with no descriptor left and a client waiting, the failing
   `accept4` breaks off every batch in front of whatever is behind the listener; the
   timer is not handled and the limiter's counts are not reset (`fws.c:181`;
   `facows.conf:22`).
5. `NftTables_test`: a main instance that is (re)started under a running test
   instance makes its tables without the test ports, which are closed from then on
   (`net_nft.c:108`; `README.md:94`).

Smaller observations, without a run of their own:

* Limits of 65535 and more are never exceeded by a `u16` counter (`LimitsFit`).
* Errors between `net_nft_init` and the main loop (`facows.c:93`, `facows.c:102`,
  `fws.c:354`) leave the tables behind; `ExitZeroClean` says that such an exit does not
  report success, `NothingLeft` that the next clean exit removes them.
* `LIM_SWAP_TIME 0` loses a ctrl + c outside `epoll_wait` until a client comes.
* A second main instance replaces the tables of the running one, fails to listen and
  deletes them on its way out (`doubled`). While test mode runs, the policy of its
  table also closes the main ports unless they are in its `ALLOW_PORTS`, and its bans
  apply to the main instance, too.
* The parser of the MIME list takes the closing quote of a type off its pointer but
  not off `mime_n`: with n entries it looks up to n bytes behind the `}`, and a quote
  there (a short `MIME_DEFAULT` line after a long list) makes it refuse a well-formed
  list.
* The HTTP port compares the host as it was sent: `Example.com` is redirected to a site
  called `Example`. The redirect to a clean URL drops the query.
* A host that begins with the domain and goes on (`example.com.other`,
  `example.community`) is taken for the domain, because only the domain's length is
  compared (`Begins`).
* A transfer that is interrupted beyond 2 GiB starts over at the beginning of the file
  in the middle of the body: `file_len` is an `s32` (`net_443.c:192`, `FilesFit`).
* An extension of 32 bytes in the MIME list leaves every file that is looked up past it
  without a Content-Type; the caller does not look at the error (`fws.c:759`).
* `index.html` is not found under `/d%2findex.html` if an `index` is beside it.
* A request to port 80 that arrives in two segments is redirected by what its first
  segment says, or by its second written over the first; `WholeRequest` is about
  requests in one piece.
* A ban whose record does not fit the pipe is dropped; the client's next refused request
  reports it again.

## Only model-checked

Liveness (`ChildGoneNoticed`, `GroupSignalExits`, `ChildExitEndsParent`,
`RequestsAnswered`, `Attended`, `RedirectsEnd`) is out of the prover's reach, as is
anything with `ENABLED`. Two of them have a proved counterpart: `RedirectsShorten` bounds
what `RedirectsEnd` waits for, and `RightInterest` is what `RequestsAnswered` rests on.

One invariant is checked by TLC only: `ContentTypeRight`, that parsing a MIME list and
looking an extension up in the normalised text is the look-up in the list. Both are loops
over windows inside loops over windows, whose positions depend on the lengths of all
entries before. A proof would need an induction over the list for each of the three
loops and for the text they run over; the library's rules for that cannot be used here,
and the descent by which `DecodedIsRef` does without one works on a single position. It
has not been done. Every other safety property and both refinements are proved.

## How the proofs were checked

`tlapm` checks all eight proof modules. Its SMT translation of `Len` takes every value
for a sequence (`Len(s) = n <=> DOMAIN s = 1 .. n`, for all `s`), which is inconsistent
as soon as an obligation mentions `Len` together with a function on some other domain.
No proof here rests on that: functions that occur next to `Len` have a domain `1 .. n`
(`Asked` is indexed from 1 for this reason), and every obligation was also checked
with the axiom restricted to what holds of sequences, `DOMAIN s = 1 .. n => Len(s) = n`
(`tlapm --solver` with a script that rewrites it before it calls Z3).

## Not modelled

* The line loop of the configuration reader and its conversions of numbers, booleans
  and strings; the other headers of a request and their buffers; the origin check;
  the search for the name of the network interface: text processing without state
  that another step depends on. Their results are constants or inputs here.
* Formatting of headers, pages, log lines and nft rules; `gmtime` failing.
* An epoll event on the pipe that is neither input nor hang-up: a pipe's read end
  reports no other.
* The TLS context and `net_server_init` beyond failing: straight-line calls; that they
  fail is a branch of `ChildSetup` and of `Listen`.
* A child that survives `kill -9` of its parent: `Crash` ends an instance as a whole.
* Reading the timer fails only if somebody else read it; nobody does.

## Plan

1. Done: every part that keeps state, and path resolution, redirects and the MIME
   list; proofs of every safety property but `ContentTypeRight`, and of both refinements.
2. Next, `Worker`: `EventLoop`, `RateLimit` and the writer's side of `LogPipe` composed,
   for "a client that goes on is banned in the end", which today stops at the pipe.
3. The request line and headers as tokens, and the line loop of the configuration.
4. `ContentTypeRight` in two halves, each with a reference of its own: the parser against
   a definition of the normalised text, and the look-up in such a text.
