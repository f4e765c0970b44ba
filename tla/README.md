# dhttp in TLA+

Specifications of the concurrent and stateful parts of dhttp, an HTTP/3
implementation over a peer-to-peer QUIC stack, with its SDK, its access-rule
store, its identity directory and its log lines.  TLC checks them on small
instances; TLAPS proves the safety of all the state machines, that every body
keeps the promise of a body stream, and most of what two of the algorithms
compute, for every number of participants and every bound.

Paths are relative to the root of the repository.

## 1. The system

| Part | State it keeps | Operations | Talks to |
|---|---|---|---|
| Interface manager, `dhttp/src/network/interfaces.rs` | one mutex around the tracked bindings, the last enumeration and its watcher; a maintenance task | poll, scan, bind and withdraw, `resume`, shutdown | Dock, QuicProtocol and AddressBook, shared with other owners; the operating system |
| NAT probing, `interfaces/nat.rs` | per binding a probe phase, the NAT type and the applied outer mappings | discover, classify, heartbeat, `apply_outer_mappings` with roll back | STUN servers; the same registries |
| Listeners and connections, `dhttp/src/network.rs`, `network/connection.rs` | the listener map, a registration per name, the pool | `listen` and the drop of its future, accept, connect, `replace_staple`, serve | ServerRegistry, h3x Pool, application services |
| Request API, `dhttp/src/endpoint/request.rs` | a window buffer, trailers, an upload task | write, set trailer, shutdown, cancel, drop, await the response | h3x `write_request` |
| SDK lifecycle, `api/src/lifecycle.rs`, `server.rs`, `client.rs` | a Scope (task tracker and cancellation token) per client and per listener | request, listen, reload, close, `Listener::close`, drops | the endpoint; the exchange |
| SDK exchange, `api/src/client.rs`, `stream.rs` | OperationState, a oneshot for the response, a command channel with reply oneshots, a watched completion | the spawned task, `BodyReader::next`, cancel, deadline, drops | the upload bridge; the peer |
| SDK upload bridge, `api/src/stream.rs` | a bounded queue, a sender mutex, the operation's state | `send`, `finish`, `fail`, `poll_frame`, drops | language producers; the exchange |
| Language SDKs, `api/js/index.js`, `api/python/dhttpy/endpoint.py` over `api/src/binding.rs`, `napi.rs`, `python.rs` | sets of running pumps, handlers and listeners; a closed flag; promises and tasks of the event loop | `fetch` with redirects and aborts, `_request`, `pump`, `listen`, `respond`, `close` | the SDK, whose calls run on another runtime |
| Request service, `dhttp/src/endpoint.rs` `handle_request`, `uri.rs`, `api/src/server.rs` `OwnedBody` | the phase of one request, a guard around the stream | read, compare names, call the service, write the response, reset | the listener's scope; the peer |
| Identity material, `home/src/identity/management.rs`, `ssl.rs`, `home/src/ocsp.rs` | files and directories | `save_identity`, `load_profile`, `load_identity`, `load_or_refresh` | other processes, crashes |
| Home directory, `home/src/dhttp_home.rs`, `identity.rs`, `identity/ssl.rs`, `identity/settings.rs` | directories named after identities; the settings file | list, resolve exactly or by wildcard, save and load the default identity | the same |
| Access rules, `access/src` | SQLite tables of locations and rules; in memory a matcher | append, replace, remove, migrate, evaluate; parse, store and load an expression; reject an unreachable pattern | every request |
| Log lines, `log/src` | the bytes of the record under construction | builder and element writer, two formatters | request headers, certificates |

What is hard in it:

* futures are dropped at any await, and what happens then is decided by the
  order of destructors (upload bridge, exchange, request writer, `Listener::close`);
* owners of process-wide registries that remove by key and not by identity
  (interfaces, listener registry, pool);
* a lock that protects the manager's state while the operating system, the
  receive loops and other owners go on, also between two calls of one mapping
  update and of its roll back (interfaces);
* a service looked up for a request that reaches it some awaits later (listeners);
* work admitted while its owner is closing (SDK scopes);
* two runtimes, the native one and an event loop, that hear of each other late
  (language SDKs);
* names that client and server bring to a normal form apart from each other
  (`uri.rs`, the home directory);
* files replaced by renames or overwritten in place with no lock, by several
  processes that may die and leave a mixture that still parses (identity
  material, settings);
* decisions that combine two queries, or that depend on the wall clock (rule store);
* a stack machine, two grammars and a product search that have to agree with a
  simple meaning (access expressions and patterns).

`PROJECT.json` lists each hazard at its line with the properties about it.

## 2. Modules

| Module | Models | Kind |
|---|---|---|
| `BodyStream` | what every body promises | abstract specification |
| `Registries` | Dock, QuicProtocol, AddressBook as interfaces.rs and its tests use them (external) | operators |
| `Interfaces` | interfaces.rs, nat.rs | state machine, EXTENDS `Registries` |
| `Network` | network.rs, connection.rs | state machine |
| `RequestWriter` | endpoint/request.rs, the upload half | state machine |
| `SdkLifecycle` | lifecycle.rs, server.rs, the control paths of client.rs | state machine |
| `SdkExchange` | one exchange of client.rs with stream.rs's reader | state machine |
| `UploadBridge` | stream.rs's writer and body | state machine |
| `UploadPath` | the pumping half of `exchange` in client.rs | composition of `UploadBridge` and `RequestWriter` |
| `LanguagePump` | `pump` of index.js and `_pump` of endpoint.py, `UploadWriter::closed` | state machine over `UploadBridge` |
| `LanguageFetch` | `fetch` and `_fetch` of index.js, `_request` of endpoint.py, `Endpoint.close` | state machine |
| `LanguageServe` | `listen` and `Listener.close` of both, the native callbacks, `Incoming::respond` | state machine |
| `ServeRequest` | `handle_request`, uri.rs, `Service` and `OwnedBody` of server.rs, `map_stream_error` | state machine |
| `IdentityStore` | management.rs, ocsp.rs, the loads of ssl.rs and endpoint.rs | state machine |
| `HomeDirectory` | dhttp_home.rs, identity.rs, ssl.rs, settings.rs, the default identity of management.rs | state machine |
| `AccessStore` | db.rs, db/, matcher.rs, migrations | state machine |
| `RuleExpr` | expr/eval.rs, `validate_arity` and `try_eval` of exprs.rs | algorithm, against a right-to-left reading of the expression (`Meaning`) |
| `RuleGrammar` | expr/parse.rs, atomics.rs, serialization in exprs.rs, name shorthand of pattern.rs | algorithm, round trip |
| `Reachability` | pattern/reachability.rs | algorithm, against the set of matching inputs (`Matches`) |
| `LogRecord` | log/src | algorithm, against a reader of log lines (`ReadLine`) |
| `InterfacesProofs`, `NetworkProofs`, `SdkLifecycleProofs` | the theorems about these modules | proofs |
| `HomeProofs` | the theorems about `IdentityStore`, `HomeDirectory` and their composition `MCHome` | proofs |
| `AccessProofs` | the theorems about `AccessStore`, `RuleExpr`, `Reachability` and their composition `MCAccess` | proofs |
| `UploadProofs` | the theorems about `UploadBridge` and `LanguagePump` | proofs |
| `RequestProofs` | the theorems about `RequestWriter`, `UploadPath`, `ServeRequest` and their composition `MCRequest` | proofs |
| `SdkProofs` | the theorems about `SdkExchange`, `LanguageFetch`, `LanguageServe` and their composition `MCSdk` | proofs |
| `MCInterfaces`, `MCNetwork`, `MCUpload`, `MCSdk`, `MCHome`, `MCAccess`, `MCRequest` | instances for TLC | |

Most modules of the runs that expect a violation are checked as they are; their `.cfg`
gives the constants.  `MCInterfaces` names the instances of `Interfaces`; `MCNetwork`
explores two scenes of `Network` apart.  The other MC modules put
components that share no state side by side.  In either case `part` picks one at the start,
and what does not belong to it stays where it began, so that the state space is a sum and
not a product.  Definitions whose name says what is wrong with them
(`ScanCollectIgnoresDead`, `TaskForgetsToken`, `PumpTakesErrorAsEnd`, ...) are not part of any
specification: each is the form a plausible mistake would give the definition
after it, kept to confirm that the property named with it in `PROJECT.json`
notices the mistake.

### Interfaces, Registries

A key is an `InterfaceAddress`, a socket an identity with a fixed local address.
`bindings`, `probe`, `snapshot` and `notified` are the `InterfacesCtx`; `holder`, `stage`,
`todo` and `polling` say who holds the mutex and how far it has come.  A poll is `PollBegin`, one `Scan...` step per binding
removed and per key bound, one `NatStep` per binding, `PollEnd`; `resume` is
`ResumeCall` (the enumeration outside the lock), `ResumeLock`, scans, `ResumeEnd`.
Between any two of them the OS changes its interfaces, a receive loop ends
(`ReceiverExit`) or another owner adds and removes its own entries (`Foreign...`).
`apply_outer_mappings` has no await between its calls, and it holds the manager's
mutex, but the registries are process-wide: other owners and receive loops run on other
threads.  It is therefore a sequence of steps, one per registry call that others can see:
`MeasurementReady` (the early return included), `CheckEndpoint` or `MappingConflict`, `UnregisterAll`, then
`RegisterEndpoint`, `PublishEndpoint`, `WithdrawEndpoint`; when a call is refused `UpdateFails...` begins the
roll back, whose registrations are tried one by one and whose failures are ignored
(`RestoreFails`), and `ApplyEnd` ends either way.  `work` is what is still
to be done; `lost` is a history variable of what a roll back could not register again;
`torn` holds the sockets whose receive loop ended in the middle of an update: the Dock
dropped them and their registrations, and the update goes on and registers them again.
STUN answers are chosen by the
environment, and so are bind results.  Address filtering, packet formats and
timer values are left out; a timer may always fire.

### Network

One listener generation per `listen`, so that a stale callback or reload can be
told from the present one.  `DropListening` is the destructor of the listening
future.  A request is taken from its connection (`StreamAccepted`), looks its service up
(`LookUp`, `connection.rs:65`) and is handed over in a later step (`HandOver`), since the spawned
`handle_request` awaits the request head and `poll_ready` before it calls the
service; the listening future may be dropped, and the name listened to again, anywhere between.
`ServerRegistry` and the h3x pool are external: the pool holds at most
one connection per key, does not store a connection that is already unreusable,
and drops one that is reported so.  One peer is enough, since every table is
keyed by name and peers are never related.

### RequestWriter

Bytes and trailers are counted.  The window (h3x `WndBuf`) is open, ended or
cancelled, and closes when the task that reads it ends.  The peer may stop
reading for ever: `TaskSends` has no fairness.  `TaskReadsEnd` and
`TaskFinishes` are separate because `write_request` reads the trailers after
the window reports its end.

### SdkLifecycle

A token of a `TaskTracker` is represented by the place of the process that holds
it: `ClientTokens` and `ListenerTokens(l)` are what `close().await` waits for.  The
listener task unregisters its service, closes its scope, cancels it, waits for
its tokens and ends, one step each; `handle` follows the `JoinHandle` through
`Listener::close` (available, taken, joined, lost with a dropped close, dropped).
`DropCall` drops the future of any pending call.  Handlers go through lookup
(`Route`), `poll_ready`, registration of the handler and of its body reader, the frames of
the response, and the end; cancellation may overtake each.  A handler that writes a frame
(`"writing"`) waits for the peer: `OwnedBody` looks at its token only when it is polled for the next frame
(`server.rs:114`), so a cancelled handler stays there until the peer takes the frame or
resets the stream (`FrameTaken`, `FrameWritten`).

### SdkExchange, UploadBridge

`SdkExchange` is one exchange with its three parties.  When it fails, its future
is destroyed first (reply channel, command receiver) and the error stored after
that: `task = "failed"` is the time between.  The upload bridge is reduced there to
"still running, finished, failed".  `UploadBridge` is the bridge itself.  A call is a
future that waits for the mutex, reserves one queue slot per chunk, and may be
dropped: `DropCall` releases the mutex, `DropGuard` is the destructor of
`CancelWriteOnDrop` after it.  `DropsRace` says whether a call may be dropped while
another one is pending; section 5 explains why both cases are checked.  A poll
of the body looks at the cancellation and receives in one step: the poll does
not yield in between, and a failure stored by another thread in that window is
the same as one stored just after it.

### BodyStream and what implements it

A body is a growing sequence of units with trailers; the consumer is given a
growing prefix, and is told of the end only after the producer asked for it and
everything was delivered.  Any other stop is a failure.  Five modules implement
it, each by its own refinement mapping (`Promise`, `PathPromise`, `Response`):

| Implementation | units | `ending` | `outcome` |
|---|---|---|---|
| `UploadBridge` | chunks with their send | Finish was queued | what `poll_frame` answered |
| `RequestWriter` | bytes, counted | shutdown ended the window | how the upload task ended |
| `SdkExchange` | DATA frames of a response of fixed length | from the start | what `BodyReader::next` answered |
| `UploadPath` | bytes of chunks | `finish()` was accepted | how the upload task ended |
| `ServeRequest` | frames of the response | the handler's body ended | what the peer has seen |

So a partial write, a cancelled window, a dropped future, a failing body or a
closed listener may end a body early only as a failure, at each hop and from
end to end.

### UploadPath

`UploadBridge` and `RequestWriter` joined by the loop of `pumping`: take a frame, write
all of it through a window that may accept less, append the trailers, shut
down.  `PumpDrops` is the end of the future, with the destructors of body and
writer; it happens when the exchange fails, expires or is cancelled.

### LanguagePump, LanguageFetch, LanguageServe

A native call ends in the runtime and its result reaches the event loop later, in
a step of its own (`CallReturns`, `StartReturns`, `NativeResumes`).  JavaScript races
`closed()` with the read of the application's body; Python writes in a task and
cancels it, which destroys the native call (`CallDestroyed`).  The Python pump is a task
that `create_task` only schedules (`endpoint.py:139`): cancelled before its first step it never
enters its `try`, so neither `finish` nor `fail` is called (`UnstartedCancelled`); the consumer hears of it because
the task's reference to the writer goes away with it (`WriterReleased`).  The JavaScript pump
awaits `options.trailers` without a look at `closed()` or the signal (`index.js:208`), so it stays for as long as
the application owes them (`"trailers"`).  `LanguageFetch` follows
redirects hop by hop, with one exchange and one upload each; the pump, the
exchange and the native close are reduced to "running, cancelled, ended" there,
as `LanguagePump`, `SdkExchange` and `SdkLifecycle` have them in detail.
`LanguageServe` is the callback, its response and its pump while the listener
closes; a native handler may be stuck in a write as in `SdkLifecycle`.  `Endpoint.close()` may return before the pump of a request whose `start()`
was in flight has begun; that pump settles then (`LanguageCallsSettle`).

### ServeRequest

A host is a sequence of parts.  `ExpandWithBase` and `RemoteName` are what the client
does with it, `IsOwn` what the server does with what the client sent.  The rest
is `handle_request` in order, with the cancellation of the scope and the
peer's reset between any two steps.  h3x's `write_response` is modelled from its
use.

### IdentityStore

Each file operation is a step that may succeed or fail, and the process may die
after any of them.  Material is the generation that wrote it; a directory maps
`cert`, `key` and `ocsp` to generations.  Three savers and a loader work on the
same profile; the loader may refresh the OCSP response first, and reads each
file by the path as it is then.  Two consequences of that order are not in the
properties, because nothing in the repository promises otherwise: a refresh can
persist the staple of an old certificate in a directory a save has just
installed, and `load_identity` returns a key and certificates without
comparing them (only `load_profile` builds an endpoint, which does).

### HomeDirectory

A name is a sequence of labels with an optional `*.` and `~`.  An entry of the home
is missing, a file, a link or a directory, and so is the `ssl` in it.  The
settings file is a header and a line whose length depends on the name; a save
truncates it and writes from the beginning, as `fs::write` does, so that two
saves can leave a mixture.  What such a text is read as is a set (`Parses`): toml and `DhttpName`
accept a line that begins as one name and ends as another, so a mixture of two is an
error (`Broken`), a default, or a name spliced from two that nobody chose (`Spliced`); a
line that is cut off, or has the rest of another behind it, is an error or its own name.  A name such as `x.dhttp.net~` is given a second suffix by
`normalize_name`, as in the code.

### AccessStore, RuleExpr, RuleGrammar, Reachability, MCAccess

Each service operation is one transaction, so one step; the clock of an append
is any value (`Clock`), as the wall clock may stand still or step back.  The live
evaluator reads locations and rules in two steps.  `RuleExpr` runs the VM part by
part over every sequence up to `MaxParts`, in both modes (arity, evaluation).
`Reachability` explores every automaton over `RegexState` against each input
language; the dense DFA of regex-automata is external (a match is reported one
byte late, dead states are final).  `RuleGrammar` writes out the PEG of parse.rs in
ordered choice; the rules that refer to each other are one recursive function of
rule and position (`CompositeRule`).

Locations are a map ordered by kind and creation time (`Before`).  Two of equal kind and
time have different patterns and both stay, the earlier row first: the `BTreeMap` is
collected with the derived `PartialEq`, which compares the pattern too.

### LogRecord

A byte is named for what the builder tells apart: harmless letters, space, quote,
backslash, the controls and bytes above ASCII, the last two with their
hexadecimal digits.  A formatter is the sequence of calls it makes
on the builder; the builder executes one per step with its size check.

Two fields are written as they are, outside quotes: the client of an access line, any
text its caller gives, and the chain of a certificate line, `client and server:0` for
instance (`CertificateChainKey`).  A line cannot be split at its spaces from the left, therefore; the reader of
the specification (`ReadLine`) starts at the end, where all fields are quoted, in brackets or
without spaces, and takes what is left of the eighth space as the client, and the words
between the fourth field and the last two as the chain.

## 3. Runs

State counts are distinct states.

| Run | Instance | What it shows |
|---|---|---|
| `MCInterfaces` | 2 keys, 2 sockets, a local and a link-local address, 2 outer addresses that another owner takes as well, 1 STUN server, 1 OS change; 675 k | `RegistriesExact`: the registries hold exactly what the bindings' mappings call for, after every success, refusal, roll back, withdrawal and receiver death between any two of their calls, and withdrawal leaves nothing; a mapping that moves to an address which somebody else takes meanwhile misses exactly what a roll back could not register again.  `ForeignPreserved`: no entry of another owner is taken. |
| `MCInterfacesRollback` | 1 key, 2 local and 2 outer addresses, another owner that may take either outer one | violated: section 5 |
| `MCInterfacesResume` | 1 key, 2 sockets, 2 concurrent resumes, 2 OS changes, with fairness; 121 k | `ResumeIsFresh`: a successful resume used an enumeration made after its call, and no change is lost between snapshot and watcher.  `MaintenanceCatchesUp`: changes are observed and dead bindings withdrawn, eventually. |
| `MCUpload` | 2 producers, queue of 2, sends of up to 3 chunks, 2 sends; the pump of either language; window of 2 and 4 bytes, 2 trailers; 104 k | `IsBodyStream`, `RequestIsBodyStream`: both carriers implement `BodyStream`.  `PumpSettles`: a pump that began never ends without a word, and one that did not holds nothing of the writer.  `NobodyWaits`: a call returns, and an upload that one side gave up ends. |
| `MCUploadDrop` | the channel, smaller, with racing drops | violated: section 5 |
| `MCSdk` | 1 request, 1 listener, 1 stream, 2 callers; 2 DATA frames; 2 redirects, 2 origins; 2 requests of a language listener; 101 k | `ClosedIsQuiescent`, `ShutIsQuiescent`: a close that returned left nothing running.  `UnregisteredFirst`: what can be looked up still admits.  `CallsReturn`, `DropCleansUp`: unless a peer stalls a cancelled response for ever.  `IsBodyStream`, `EofKeepsUpload`, `CancelledExchangeEnds` of the exchange.  `RedirectsAreSafe`, `NothingLeftBehind`, `LanguageCallsSettle` of the language SDKs. |
| `MCExchangeCause` | 1 DATA frame | violated: section 5 |
| `MCHome` | 3 savers, 1 loader; every home with 5 names; 2 writers and 1 reader of the settings; symmetry; 648 k | `EndpointIsWhole`: no endpoint with a key of another certificate, or with material of a save in progress.  `NoMaterialDestroyed`: only a successful save destroys material.  `ResultIsTruthful`.  `DefaultIdentityHolds`, `ListingsAgree`. |
| `MCAccess` | 2 patterns, 1 path, 3 rules, 2 clock values, symmetry; 5 parts; automata of 2 states, labels of 2 and names of 4 bytes; 373 k | `MemoryAgrees`, `LatestAppendDecides`, `AllowWasPossible`, `MigrationPreserves`; `StoredRulesRun`: what `validate_arity` accepts runs.  `WrittenRulesDecide`: what the parser wrote is accepted, and without an operator in a right operand decides as it reads.  `VerdictIsRight`: a pattern is refused exactly if it can match nothing. |
| `MCRuleNested` | 5 parts | violated: section 5 |
| `MCRequest` | 2 chunks of 2 bytes, window of 2, 1 trailer; hosts of 4 parts, 2 bases, 2 frames; bodies of 6 tokens; texts of 2 bytes in a log line, limit 36; 800 k | `PathIsBodyStream`: from the producer to the stream.  `ResponseIsBodyStream`: a cut response never looks complete.  `RequestIsAnswered`: what the client routed to a server is not refused by it, and neither the peer nor the operation is left behind.  `StoredRuleReadsBack`.  `RecordIsReadable`: a line is one printable line within the limit that gives its fields back, and nothing that fits is refused. |
| `MCNetwork` | 2 names; 1 reload handle, 1 connection, 3 listens, 2 staples, or 2 connections, 2 listens; 1 request, with fairness; 388 k | `RegistriesAgree`: registrations and listeners match.  `ServiceOfArrival`: a request reaches only a service of its connection's name that was not yet dropped when its stream was accepted.  `LiveNotEvicted`, `ClosedLeavesPool`: a connection leaves the pool when it has closed, and not before. |

Why the bounds are enough.  The interesting cases need two of what competes:
two resumes, two producers, two callers, two connections for one place in the
pool, two interface addresses for one socket address; three savers, because a
roll back can only meet a second replacement with a third party.  A queue of
two with sends of three chunks makes a send block in its middle; a window of
two with four bytes fills twice, and chunks of two bytes can be cut by it.  Two
redirects over two origins lead away and back.  Hosts of four parts hold a name
with suffix and root label, with shorthand in the middle, and the malformed
ones.  The five names of a home are one identity under three spellings, a
second one and the wildcard of both.  Five parts hold an operator inside a right
operand together with an operator around it.  Six tokens hold a bracketed
conjunction.  A limit of 36 bytes lies among the lengths of the records, so that
both answers occur on either side of it.  One STUN server is used: mappings of
different servers are kept in separate entries and each is applied by the same
code, and with two the instance has more states than can be searched in minutes.
Name limits of 2 and 4 stand for 63 and 253; both limits are met by names of the
instance.

Deadlock is checked for `Interfaces`, whose maintenance never stops by itself.  The
other systems may come to rest (an upload ends, a client is closed, a parse is done).

Expectations narrowed on purpose, so that the statement is true of the code:

* `ShutIsQuiescent` excludes a listener whose earlier close was dropped while it
  waited: it took the `JoinHandle` with it, and a second close returns at once
  (`api/src/server.rs:146`);
* `AllowWasPossible` is stated for an evaluation that overlaps at most one commit;
  with two, an evaluation can combine locations and rules that never coexisted;
* `MemoryAgrees` is stated for migrated stores: a store opened by
  `open_existing_access_database` without the second migration may hold
  duplicates, which the matcher and the evaluator order differently
  (`access/src/db/service/location_service.rs:317`);
* `WrittenRulesDecide` asks for the right value only of rules without an operator in a right operand
  and for conjunctions (section 5 has the others);
* `DefaultIdentityHolds` asks that settings are read back only if no other save
  overlapped and no process died while it wrote: `fs::write` gives no more.  At any
  time a resolution uses a name somebody chose or fails, except where saves overlapped *and* one
  of them stopped partway: the file may then spell a name that nobody chose
  (`home/src/identity/settings.rs:170`);
* `RegistriesExact` excuses what a roll back could not register again (`lost`; section 5),
  and sockets whose receive loop ended in the middle of an update: the Dock has dropped such a
  socket, the QUIC table may hold it until it is withdrawn or forgotten;
* `ServiceOfArrival` allows a request whose stream was accepted before the listening future was
  dropped to reach the service afterwards: the spawned task has a clone of it
  (`network/connection.rs:65`);
* `PumpSettles` allows a Python pump that was cancelled before its first step to call neither
  `finish` nor `fail`; `NobodyWaits` has that the consumer hears of it;
* `CallsReturn`, `DropCleansUp` and `LanguageCallsSettle` hold if no response that was cancelled stays in a
  write for ever (`Stalled`), the last also if no trailers of the application stay
  pending for ever.  `close` has no deadline of its own, so a peer that neither reads nor
  resets a stream can hold it up, as can a Python coroutine that swallows its cancellation.

## 4. Fairness

A runtime that polls every woken task, and that runs destructors, gives weak
fairness of internal steps.  Nothing is assumed of the network, of peers, of the
application or of other processes; where a liveness property depends on one of them it
names that as its premise (`[]<>~Stalled(h)`, `[]<>~TrailersPending`), and the premise is met by
behaviours in which a response or a trailer is waited for, if not for ever.

The assumptions are `Fairness` of `Interfaces` and of `Network`, and `MCFairness` of `MCUpload`
and `MCSdk`, by component:

* `Interfaces`: polls begin (the maintenance interval fires), the lock holder
  proceeds, resumes get the lock.  No fairness for OS changes, STUN answers beyond
  the probe's time-out, or shutdown.
* `UploadBridge`: weak fairness of `Poll`: the exchange polls its body until it ends
  or is dropped, so `NobodyWaits` speaks of a peer that keeps consuming or of
  an exchange that ends.  Strong fairness of each call's steps: tokio's mutex
  and semaphore are first-in first-out, so a waiter is served although others
  keep taking its turn.
* `SdkLifecycle`: weak fairness of task starts, of the listener task, of admission,
  and of the end of a request or handler *once it is cancelled* and polled: a handler
  that calls the service or is asked for the next frame selects on its token, one that
  is writing a frame does not (`server.rs:114`) and has no fairness.  Strong fairness of
  callers, again for fair mutexes.  A handler that is not cancelled may run for ever.
* `SdkExchange`: weak fairness of the cancelled branch of the select, of the
  bookkeeping after the exchange's end, and of the consumer's pending calls.  Not
  of the transport.
* `RequestWriter`: weak fairness of the task's abort and of the calls' returns.  Not
  of sending.
* `LanguagePump`: the loop resumes what is ready, a task that has ended gives up its references
  and the runtime polls `closed()`; strong fairness where the writer's mutex is
  awaited.  The application's body and its trailers may stall for ever, and so may the consumer.
* `LanguageFetch`, `LanguageServe`: the loop resumes what is ready; native starts and
  closes end; an exchange ends *once it is cancelled*, and a pump that does not await
  trailers *once its body was released*, which `MCSdk` and `MCUpload` check of the exchange and
  of the pump.  Handlers, responses, trailers and peers owe nothing.
* `Network`: a connection's serve task starts, and ends after its connection closed.

## 5. Where code and expectation differ

* **A dropped send can be followed by EOF** (`MCUploadDrop`, `api/src/stream.rs:60`).
  Locals are dropped in reverse order: the inner future and its mutex guard
  first, then `CancelWriteOnDrop`.  A `finish` waiting for the mutex on another thread
  can enqueue its Finish in between, and the body ends cleanly with a part of the
  send.  The comment on line 58 promises that cancellation fails the whole
  upload.  With `DropsRace = FALSE` (no other call pending when one is dropped),
  `EofIsComplete` holds.
* **A pending read reports Cancelled for the producer's error**
  (`MCExchangeCause`, `api/src/client.rs:133`).  The exchange future is dropped
  before the cause is stored; a reader woken by the closed reply channel finds
  none.  `api/tests/test_python_sdk.py:61` expects `ERR_PRODUCER`.
* **An operator inside a right operand takes a value that is not its own**
  (`MCRuleNested`, `access/src/expr/eval.rs:158`).  The machine compares the number
  of *all* values with the operand count of the last operator.
  `and T or T F` evaluates to F.  `access/tests/unit/parsing.rs:68` writes a rule
  of that form, `"*.remote" with method ( GET or POST )`.
* **A roll back can lose a mapping** (`MCInterfacesRollback`, `dhttp/src/network/interfaces/nat.rs:373`).
  Between `quic.unregister` (357) and the registrations of the roll back the endpoints of the
  socket belong to nobody, other users of the process-wide table may take one, and
  `let _ = quic.register(...)` ignores the refusal.  The comment on line 298 says that rollback must
  restore the direct binding and every previous mapped endpoint.  The previous mapping is
  still what the probe remembers and the address book publishes, and a later measurement
  equal to it returns early (311), so nothing registers it again until the mapping changes.

Noticed beside the models: `README.md:64` of the repository names `ssl/ocsp.der`,
the code reads and writes `ssl/stapling.ocsp`.
`closed()` waits on a clone of the sender (`api/src/stream.rs:109`); when `finish` has taken the sender
there is none and it returns at once, although the comment on line 108 says that it tells producers
"when the native consumer has released its body".  The Python pump then cancels its task,
whose handler fails an upload that was finished; `PumpSettles` holds all the same, since the upload is settled
either way.

## 6. Proofs

Eight modules hold theorems, each for every value of its constants.  Every
inductive invariant below was first checked by TLC as an invariant of the run's
instance (`MCInterfaces` and `MCInterfacesResume`, `MCNetwork`, `MCHome`, `MCAccess`,
`MCUpload`, `MCSdk`, `MCRequest`) and then proved; one lemma per conjunct (`...Step`) shows that every action
preserves it.  No property is inductive alone; what had to be added is the
argument why the code is right.

| Module | Theorems | Property |
|---|---|---|
| `SdkLifecycleProofs` | `Inductive`, `TypeCorrect` | |
| | `ClosedCorrect`, `ShutCorrect`, `UnregisterCorrect` | `ClosedIsQuiescent`, `ShutIsQuiescent`, `UnregisteredFirst` |
| `InterfacesProofs` | `Inductive`, `TypeCorrect` | |
| | `RegistriesCorrect`, `ResumeCorrect`, `ForeignCorrect` | `RegistriesExact`, `ResumeIsFresh`, `ForeignPreserved` |
| `NetworkProofs` | `Inductive`, `TypeCorrect` | |
| | `RegistriesCorrect`, `DispatchCorrect`, `PoolCorrect` | `RegistriesAgree`, `ServiceOfArrival`, `LiveNotEvicted` |
| `HomeProofs` | `Inductive`, `TypeCorrect` | |
| | `EndpointCorrect`, `MaterialCorrect`, `ResultCorrect` | `EndpointIsWhole`, `NoMaterialDestroyed`, `ResultIsTruthful` |
| | `DefaultCorrect`, `ListingCorrect` | `DefaultIdentityHolds`, `ListingsAgree` |
| | `HomeCorrect` | the five above, of the composition `MCHome` |
| `AccessProofs` | `Inductive`, `TypeCorrect` | |
| | `MemoryCorrect`, `LatestCorrect`, `AllowCorrect`, `MigrationCorrect` | `MemoryAgrees`, `LatestAppendDecides`, `AllowWasPossible`, `MigrationPreserves` |
| | `RulesCorrect`, `RulesLoad` | `StoredRulesRun`; the arity check, stated by counting (`Prefix`) |
| | `WrittenCorrect` | `WrittenRulesDecide` |
| | `VerdictCorrect`, `VerdictMatchesReference` | the verdict on words of any length; `VerdictIsRight` |
| | `AccessCorrect` | the above, of the composition `MCAccess` |
| `UploadProofs` | `TypeCorrect`, `Inductive`, `EofCorrect` | `EofIsComplete` |
| | `ChannelImplements`, `PumpUsesChannel`, `PumpImplements` | `IsBodyStream` of the channel and of the pump |
| | `PumpCorrect` | `PumpSettles` |
| `RequestProofs` | `WriterImplements` | `IsBodyStream` of the request writer (`RequestIsBodyStream` of `MCUpload`) |
| | `PathImplements` | `PathIsBodyStream`: from the producer to the stream |
| | `ResponseImplements`, `RequestAnswered` | `ResponseIsBodyStream`, `RequestIsAnswered` |
| | `RequestCorrect` | the last three, of the composition `MCRequest` |
| `SdkProofs` | `RedirectsCorrect`, `FetchCorrect`, `ListenerCorrect`, `NothingLeft` | `RedirectsAreSafe`, `NothingLeftBehind` |
| | `UploadCorrect`, `ReaderImplements` | `EofKeepsUpload`, `IsBodyStream` of the reader |
| | `PartsCompose`, `SdkCorrect` | the four above, of the composition `MCSdk` |

**SdkLifecycle.**  That `Listener::close` returned says something of
the handlers only because the listener task ended after its scope was closed
*and* empty, and because the caller joined that very task.  `IndInv` adds:

* `ClientInv`: whoever is past the closing flag finds the client's scope closed; a
  closed scope only loses tokens, so one that was found empty stays empty;
* `ScopeInv`: a listener's scope is closed exactly when its task is past that step,
  and only a listener that is up is registered;
* `HandlerInv`: a live handler belongs to a listener that was started, and a
  finished task left no token;
* `HandleInv`: where the `JoinHandle` is, and that at most one caller waits on it.

`ClosedCorrect` follows since a listener holds a token of the client until its
task has finished, and a finished task left nothing.

**Interfaces.**  Removal from the registries goes by address and by endpoint, not
by owner.  It takes nothing from others because a socket has one owner and the
operating system gives out an address once (`OwnersInv`), the Dock files a socket
under its own address (`DockInv`), and mappings exist under a heartbeat only
(`ProbeInv`).  What the registries hold is said of every moment, also in the middle of an update, by `TablesInv`:
the QUIC table what has been registered so far, the address book what is published and not yet
withdrawn (`BookOf`, `QuicOf`), less what a roll back lost.  `WorkInv` says what remains to be done: a part of
what was planned, nothing withdrawn before everything is published, and no update outside a
heartbeat.  Together they give `RegistriesExact` whenever the work is done, whoever acted
in between: another owner can only take an endpoint that is not registered at that
moment, and its refusal is either a failed update or an entry in `lost`.  `StageInv` says that the list of work a scan goes through stays true to
the bindings between its steps, and `FreshInv` that nobody has seen a later
version of the interfaces than there is, and that a `resume` which holds the mutex
says so.  A first group of lemmas says what the operators of `Registries` do to the
endpoints of an owner (`InsertOne`, `RemoveOne` and the lemmas beside them): applying, rolling back and withdrawing
mappings are reasoned about through them alone.

**Network.**  `ListenersInv`: who listens is alive, and a service has one name, for good (`under`).
`RequestInv`: the services that had been dropped when a stream was accepted stay dropped, so the
one that its lookup finds later is none of them, and the clone it carries to the
hand-over is of the connection's name.
`PoolInv`: a pooled connection is pooled under its own name and its serve task has
not ended, so the task that ends removes itself and no successor.

**IdentityStore, HomeDirectory.**  `FilesInv`: the directory in use and each backup hold a
certificate with its own key that was committed, or nothing.  `SaverInv` says
for each step of a save what it has staged and set aside and whether it is
committed; `LoaderInv` that a key which was read had been installed.  The loader's
certificate then matches the key because the endpoint is built from the pair only
if they agree.

`Normalized` says what the second normalization of a name changes, for names of any
length: nothing, if the first one left no tilde.  `Listing` follows, that a directory which is listed has one
name and that the name leads back to it.  `SettingsInv`: the file consists of what saves have written, and if the history says what it should
hold, then either nobody writes and it reads as that, or the one save under way is about to write
just that into an emptied file; unless saves overlapped and one of them stopped, the file is
one chosen name as far as that goes, cut off or with the rest of a longer line behind it (`Begun`).  `ParsesBegun` and `ParsesText` say
what such a file can be read as: nothing, or that name.  `ResolverInv`: the profiles that a resolution could find when it
began are still there, so one that missed the exact profile and goes on to the
wildcard could not have found it.

**AccessStore, RuleExpr, Reachability.**  `StoreInv`: keys, references and, once indexed, uniqueness.
`LatestInv`: the rule appended last is in the store, later than all others.
`EvalInv` is about an evaluation between its two queries: before a commit it knows the
location the store would give; after one, what its second query will answer was
possible before or after the commit, or does not allow.

That conditions of any length run is proved by counting: `Counts` is the number of
values that are missing before each part, and `Balanced`
says that what the machine has on its stacks, and what it is still to pass over,
adds up to that number.  `MachineInv` says when operands are passed over and that nothing is
left to be reduced once a value was read.  The arity check ends well only if no value
is missing at the end, and that is a fact about the parts, so it holds of the
evaluation too, whatever that short-circuits (`CountInv`, `RulesCorrect`).
`RulesLoad` states "written properly" by the count as well: in a `Prefix` values are
missing until it ends and none then.

What a condition means is another computation, which reads the parts from the right.
`Read` is a recursive function, and `Recursion`, proved from the least number, is what
gives it a value; `ReadsTo` has its stack before each part.  The lengths of those stacks are
a count, so what `Read` finds well formed is a `Prefix` (`WellFormedIsPrefix`) and loads.  The machine
reads from the left, and where it stands nothing of the meaning is known yet.
`FlatInv` therefore says that both halves fit: put the machine's values and
operators back on what the reference has where the machine reads, less the operands to be
passed over, and it makes up what the reference has at the beginning.  With no binary operator in a right
operand at most one operator waits with a left operand, only `not` comes after it, and each step
of `try_run` keeps the whole (`FlatOperate`, `FlatCut`, `FlatSkipPart`); at the end one value is left
and is the meaning.  In a conjunction operands may nest, so `ConjunctionInv` follows the code's
own order instead: the value on top is the first that was not true, or true (`Sofar`), and the
reference's is as well (`ConjunctionMeans`).  `WrittenInv` has both, `WrittenCorrect` follows.

`VerdictCorrect` is about the product of the pattern's automaton and the domain.
What the search has seen is reached by some word; what it has seen and not
found matches nowhere (`SearchInv`), so an exhausted search has a set that is
closed under reading a byte, holds the beginning and avoids every match
(`Refuted`).  Two things in the code make that less than obvious.  The automaton
reports a match one byte late, so a match may be unreported where the word ends;
and a dead state is not searched further although a match was reported before
it.  Both are harmless because a domain that accepts neither now nor within the next two
bytes accepts nothing any more (`TwoBytes`, `LateMatch`).  A word of any length stands for what all closed sets
contain (`MatchIs`), which is proved by the least counterexample.
The run looks words up to `Bytes` bytes up: `VerdictMatchesReference` assumes that they reach
every state of the product (`BytesSuffice`), which TLC confirms for all 6228 automata of the instance.

**UploadBridge, LanguagePump.**  `LockInv` and `CallInv` say who is inside the
mutex and how far its send has come; `QueueInv` and `RestInv` that what was accepted is
delivered, or in the queue in order, or about to be pushed by the one call
inside; so a Finish at the end of the queue follows everything (`EofInv`).
`DropInv` is what the finding of `MCUploadDrop` shows to be needed:
`Inductive`, `EofCorrect`, `ChannelImplements` and `PumpImplements` assume `~DropsRace`,
`TypeCorrect`, `PumpUsesChannel` and `PumpCorrect` assume nothing of drops.  `PumpInv` ties
the end of a pump to what it has told the channel; a Python task that has not begun, or was
cancelled before it began, has no call and no `closed()` under way, so it can say nothing and
keeps nothing.  The assumption is one
the repository's own producers meet, since each has one call at a time (`LanguagePump`
has the two of them), but the API does not enforce it.

**RequestWriter, UploadPath, ServeRequest.**  Bytes sent and buffered make up the bytes written, the end is
asked for once and closes window and trailers, and a task that has read the end
has sent everything (`WriterInv`).

`UploadPath` takes the channel's invariant over by instantiating `UploadProofs` with
`DropsRace = FALSE`, and the writer's as it is: each step of the path is a
step of either, of both, or of neither (`PathStepsChannel`, `PathStepsWriter`).
`GlueInv` joins them: the bytes of the chunks taken from the channel are those
written and the rest of the frame, and the writer is shut down only after the
channel reported its end, with nothing left and the trailers set.  What the stream was given is then a beginning
of what the producer was told is accepted (`SentIsDelivered`).

`RoutedIsOwn` is proved for hosts of any number of labels: the name the client looked
up, lower-cased, with or without the suffix and the root label, is the name
that the server compares with its own, so a request that was routed is refused only for a user part.
`ServeInv` says that until `handle_request` is done the peer sees an open stream unless it
declined the response itself, that afterwards it was told how the response ended and
the operation is released, and that the body ends only once there is a response.

**SdkExchange, LanguageFetch, LanguageServe.**  `RedirectInv`: a hop has sent one
request, and one with credentials has seen the first origin only.  `HopInv`: what a hop
holds follows from where the call is; those that are over have nothing.
`QuietInv`: when the native close has returned there is no native handler, so
no callback that comes late can start a pump, and close waits for the pumps there
are.  `CauseInv`: whoever cancels stores an error first, and a task about to store
"cancelled" does so because somebody gave up or too late to matter.  `ServingInv`: unless
somebody cancelled, the call that is served is still waiting, and the end of the body is published before anybody hears of
it.  `CountInv`: frames received, in flight and to come add up.  `PartsCompose` carries this, and what
`SdkLifecycleProofs` proves, to the composition that TLC explores.

Assumptions on constants are the named `ASSUME`s of the modules and say only that
sets the models keep apart are disjoint (`LifecycleAssumption`, `StoreAssumption`, parts of the others),
that tables have their types, and that limits are natural numbers, those of queue,
window, chunk and staple positive.  Beside these: some producer exists
(`Writer # {}`); the automaton of a pattern starts in a state that is not the
dead one (`AccessAssumption`; an automaton that is dead from the start matches nothing, as one
that leads nowhere does); names are sequences of labels, a default identity is a `DhttpName`,
which is normal, and its line is not empty (`HomeAssumption`); hosts and bases are
sequences of labels (`RequestAssumption`).  TLC evaluates each of them.  `MaxSends`, `MaxData`, `MaxRules`
and their like are bounds of the models; the theorems hold for any value of them.

Only model-checked:

* all liveness properties (`MaintenanceCatchesUp`, `NobodyWaits`, `CallsReturn`,
  `DropCleansUp`, `CancelledExchangeEnds`, `LanguageCallsSettle`, `ClosedLeavesPool`):
  fairness and ENABLED are beyond the prover;
* `StoredRuleReadsBack` and `RecordIsReadable`: a parser that calls itself, and a reader of
  bytes, whose results on every input need induction over the data.

## 7. Not modelled

* `dhttp/src/transport.rs` beyond its errors: adapts QUIC streams to h3x traits call
  by call.
* The builders and buffered helpers of the request API (sequential, no state of
  their own), `trust.rs`, error types: pure data.
* In the language SDKs: authorities and signatures, the conversion of headers and
  errors, and the read buffer of `response.py`, which has one reader.
* `home`: X.509 parsing and the rules on certificates, the search for the home
  directory in the environment, positions of errors in the settings file.
* Address filtering and enumeration in `interfaces.rs`, `AccessRequestTarget::from_str`.
* `access/src/pattern/parsing.rs`: it translates globs character by character to the
  syntax of the regex crate, and what a pattern matches is decided there.
* The QUIC handshake, STUN packets, SQLite, TLS: other projects.

## 8. Plan

1. An atomically replaced credential as an abstract specification of
   `IdentityStore`; a composition of `UploadBridge` with `SdkExchange` that follows the
   cause of a failed upload to the reader.
2. A reference meaning for the infix grammar (precedence and brackets as
   written) beside the round trip.
3. A theorem that the reference of `Reachability` is complete for every instance, by the
   number of states of the product.
