# Verification of STNC Core

STNC Core is the Windows desktop client of STN Chain: one process that keeps a
connection to a configured Chain service, compares its accepted state with a
selected P2P peer, mines through a Stratum provider, and holds the keys of the
operator. This directory has TLA+ models of it, the TLC configurations that
check them on small instances, and TLAPS proofs of what holds for every
instance. `PROJECT.json` maps each definition to the lines of source it models.

Run everything from this directory: `tlc -config RpcSession.cfg MCRpcSession`
checks a configuration, `tlapm RpcSessionProofs.tla` checks a proof module.

## The system

| component | source | state | operations |
|---|---|---|---|
| STNC RPC session | `stnc_network.c`, the calls in `stnc_core.c` | connection record (socket, recursive lock, exchange active, bytes of payload expected), byte stream, `chain_state` | connect, INFO, 16 kinds of call, fail, disconnect |
| Core runtime | `stnc_core.c`, `main.c`, `platform_windows.c` | `core_state`, five elapsed counters, Chain connection, P2P session, remembered tip of the last comparison | init with unwinding, tick, run, request_stop, shutdown |
| Background mining | `stnc_background_mining.c`, `stnc_stratum_client.c`, `stnc_mining_service.c`, `stnc_mining.c`, `stnc_compensation.c` | Stratum session, job, block buffer, next nonce, three waits, registration flag | tick, apply settings, ensure registration, poll, search, submit, shutdown |
| Evidence synchronization | `stnc_core.c:55-330` | a stage on Chain, blocks in transit, two views of two histories | single blocks, common prefix, suffix in one message, staged transfer, abort |
| P2P discovery, selection | `stnc_peers.c`, `stnc_peer_select.c`, `stnc_directory.c`, `stnc_core.c:479-1174` | sorted set of at most 64 candidates, qualified peers, standing of the root peer, session | admit an answer, qualify, select by latency, open, lose |
| Configuration store | `stnc_config.c` | settings in memory of each process, `config.json` and its temporary file | first start, load, reload, three setters that save, stop |
| Custody | `stnc_profile.c`, `stnc_wallet_store.c`, `stnc_identity.c` | key files per profile, `active.profile`, `profiles.list` | create, select, load, three readers of the selection |
| Transfers | `stnc_transfer.c`, `stnc_transaction_status.c` | the private key while it signs; the transaction the window tracks | send, query acceptance |
| Commands, one-shot mining | `main.c`, `stnc_command.c`, `stnc_command_balance.c`, `stnc_mining.c` | template, work and buffers of one command, its exit code | some twenty commands, the search over a range of nonces |
| Contracts | `stnc_contract*.c` | draft file, list of the identity | create, submit, query, list, track |
| Client boundary, window | `stnc_client.c`, `gui_windows.c`, `gui_btc.c` | one pending request, busy and ready flags, copied snapshot, contract tracker, display cache | queue, worker loop, publish, track, prompt, close |
| Codecs | `stnc_stnc.c`, `stnc_stnp.c`, `stnc_contract_list.c` | none | an encoder or a decoder per message |
| Log, HTTP, platform, Ed25519 | the other files of `src/src` and `platforms` | per call | system calls, parsing, a pure function |

`PROJECT.json` lists all of them with what is modelled of each.

How they interact. In the console `main.c` calls `stnc_core_init`, `_run`,
`_shutdown` on one thread, and Windows calls the console handler on a thread of
its own. In the window one worker thread does the same, takes a request from the
UI thread between two ticks, and gives back a copy of a snapshot; the UI thread
creates and selects profiles itself, on the files the worker reads. The tick
calls background mining, which calls the RPC session to register the wallet that
is to be paid and keeps a Stratum session of its own. Every call to Chain goes
through one socket, whose reads last up to 60 s (`stnc_network.c:79`; 30 s on P2P and
Stratum sockets, `STNC_SOCKET_IO_TIMEOUT_MS`).

What is hard:

- a stream that outlives a call: an answer left half read is met by the next;
- a recursive lock taken in one function and released in several others;
- accepted state written piecewise (INFO names the network, evidence does not);
- stages of initialization that unwind by hand, with a handler already installed;
- five counters of one tick that reset each other in different branches;
- a provider that pushes JOBs while a RESULT is awaited;
- settings and profiles that change between two steps of mining;
- evidence transferred in many calls while both chains move on;
- files written one after another with a crash in between, and by two processes
  at once (the window and a command);
- message loops that run inside one another and dispatch each other's messages;
- a submission whose answer is lost, of which nothing may be told but that;
- lengths and counts at the limit of a buffer, in some forty message formats.

What makes each component correct: a session never mixes up answers and never
blocks itself; the runtime presents only what a Chain reported, ends when asked,
and starves none of its timers; mining hashes each nonce of a job once, gives
shares to whoever sent the work, and loses a session only for a reason; a
transfer of evidence ends with no stage open; a save or a creation that is
interrupted leaves the old or the new state; an answer of the network is admitted
whole or not at all, and the best peer that works gets the session. A command
ends with 0 only when its work is done, tells of a submission what Chain judged, if it
has heard of it, and keeps no key; a request the window took is executed; a frame says one thing, and
a decoder accepts exactly the frames of values the protocol allows.

## Modules

| module | role |
|---|---|
| `RpcChannel` | abstract: a link to Chain that is down, clean or poisoned, and the accepted state learned over it |
| `RpcSession` | the connection record, the calls, the byte stream, an external Chain service |
| `RpcSessionProofs` | its theorems |
| `CoreRuntime` | owner thread from init to exit, connections, peer, timers, stopping threads |
| `CoreRuntimeProofs` | its theorems |
| `BackgroundMining` | the mining tick against provider, settings and profile |
| `BackgroundMiningProofs` | its theorems |
| `ConfigStore` | any number of processes on `config.json` and `config.json.tmp`, one file call a step |
| `PeerSet` | candidate set, admission, qualification, choice, session |
| `PeerSetProofs` | its theorems |
| `PeerSync` | two histories that move, the search for their common prefix, blocks, suffix and stage |
| `PeerSyncProofs` | its theorems |
| `ProfileStore` | key files, list and selection, one file call a step, window and workers |
| `ProfileStoreProofs` | its theorems, and those of `ClientWindow` |
| `Command` | one command or request at a time, exchange by exchange |
| `CommandProofs` | its theorems, and those of `ConfigStore` |
| `ClientWindow` | window thread and worker thread, request, snapshot, messages, tracker |
| `Wire` | numbers of bytes and layouts, for both codecs |
| `StncCodec`, `StnpCodec` | the encoders and decoders of the two protocols and of the contract list |
| `Codec` | calls of the encoders, and answers that are read whole or damaged |
| `CodecProofs` | its theorems |
| `MC...` | one for each of the ten: finite values of the constants |

`RpcSession` and `CoreRuntime` both implement `RpcChannel`: the session because
its poisoned streams teach nothing and are only dropped, the runtime because it
uses the link as the channel allows. So the runtime can have a call on Chain as
one step with the outcomes of the channel (`Informed`, `InfoFailed`,
`AfterFailure`), and the session's properties carry over. `BackgroundMining` is
the step `Jobs` of `CoreRuntime` in detail, and `PeerSet` its steps for the root
peer, the directory and the selection. Its time is counted in waits of the
runtime's loop (`STNC_RUNTIME_WAIT_MS`), in which a tick may find any number up
to `MaxElapsed` gone by, and its fairness says what the runtime grants: ticks go
on while Chain is connected. `PeerSync` is the comparison of `CoreRuntime` in detail; its
exchanges have the outcomes of the channel (answered, answer lost with the
session dirty or down, not reached). `Command` starts from the same channel and reads
keys and settings as `ProfileStore` and `ConfigStore` leave them, and `ClientWindow` has a
request of the window as the one step `Execute`, which `Command` takes apart.
`Wire`, `StncCodec` and `StnpCodec` say what is below a call of `RpcSession`.

### RpcSession

`conn` is `stnc_network_connection`; `holds` counts acquisitions of the recursive
critical section, which the code never counts itself. `inbound` is the TCP
stream, as header and payload segments that name the call they answer; lengths
are classes (none, the expected one, another). A call of `stnc_core.c` is a record
of what distinguishes it: accepted lengths, codes that are results with an empty
payload, whether a buffer is allocated between header and payload, what an error
does to the session, what a payload teaches. `SendRequest`, `ReadHeader`,
`ReadPayload`, `ReadFails`, `SendFails` follow `stnc_network_send`, `_receive`,
`_fail` and the check chain of the callers in their order. Chain is external: it
answers with any header of `Shapes`, late or never, and advances on its own.

### CoreRuntime

`pc` is where the owner thread is, `state` is `core_state`, `up` the subsystems
initialized, `timers` the five counters in ticks. `stopper` are the threads that
Windows runs the console handler on; `stnc_core_request_stop` reads `core_state`
(`StopRead`) and writes it (`StopWrite`) in two steps, because nothing protects it.
`link`, `at`, `known` are the channel; `p2p` is the open session with the selected
peer and the tip of its last STATE, `compared` the tip remembered from the last
probe. The peer's choice and the transfer of evidence are steps with every outcome
the code has for them.

### BackgroundMining

`pc` is the call the tick is in: `ensure` (registration), `connect`, `poll`,
`search`, `submit`, `result`. `wire` holds the frames the provider has sent, `owed`
the answer it still owes. `job`, `next`, `block` are the static variables of the
C file, `block` apart from `job` because a failed poll may overwrite one and not
the other; `tried` records which nonces were hashed. `applied` are the settings
`apply_runtime_config` last saw. `identity` is the active profile's, `miner` the one this
tick has read. `ConfigChanges` happens between ticks (same thread,
or the reload of the tick), `ProfileChanges` at any time (UI thread). `registered` and
`settled` are history: the identities whose registration Chain took, and for how long neither
the profile has been switched nor a recheck has failed.

### ConfigStore

`path` and `tmp` are the two files, each absent, torn (a writer has not closed it) or a
whole document; a document is a record of the settings that something tells apart.
For each process, `doing` is the file call it is about to make, `mem` is `active_config`,
`previous` what a setter puts back when its save fails. `BeginSave`, `CloseTmp`,
`RemoveOld`, `Rename` are the calls of `stnc_config_write_active` in order, `Probe` to
`Load` those of `stnc_config_init`. Between two calls any other process may act, crash,
or be refused a call (at most `MaxFaults` times). The C runtime is external, as
Windows has it: an open file can be opened again but not removed or renamed, and
`rename` fails when the target exists. `alone` and `found` are history: the saves nobody
overlapped, and the file as a save found it.

### PeerSet

`stage` is how far initialization has asked (root peer, directory, selection), or
`running`, where the tick asks on. A peer is a number in the order of
`stnc_peers_compare`. `staged`, `batch` are the copy and the answer of
`stnc_peers_add_stnp` and `stnc_directory_decode`, one entry a step; `qualified`, `best`
the pass of `stnc_core_select_peer` and `stnc_peer_select_best`, one peer a step.
What the network answers is free, except that a `Healthy` peer always qualifies and opens.

### PeerSync

`chain` and `peer` are the two histories, sequences of blocks whose equality means
equal pasts, as hashes do; either may become any history of more work between two
exchanges. `known` is `chain_state`, `told` the peer's
STATE; `pc` is the loop the owner thread is in: `headers` and `blocks` (single blocks that
extend the accepted state), `search` (`stnc_core_common_prefix`, with `low` and `high`),
`collect` (one frame), `begin`, `append`, `abort` (the stage). `stage` is what is open on Chain
and in which session it was opened. Chain is external: it takes a suffix that extends
a prefix of its history and has more work, and keeps or refuses any other.
`steady` is history: neither side has changed since the search began.

### ProfileStore

`file` has, for each wallet and identity file, whether it is absent, torn or which
key it holds; a key is a number never given twice. `active` is `active.profile`, which may
be absent, empty or hold a name, also the beginning of the name that was being written.
`uiPc` is the file call the window's thread is about to make in `stnc_profile_create` or
`_select`, with the removals of a creation that fails; `wkPc` the same for each
worker and command, which resolve the selection by the rules of
`stnc_wallet_store.c` and `stnc_identity.c`. A file that is held open refuses to be
removed, a file being created refuses to be opened. `Crash` ends every process at any step.
`answer` is the last creation or selection that succeeded, until the next begins, and a crash
does not take it back. `unfinished` is history: the files whose last writing failed or was cut
off, and `active.profile` when its removal was refused.

### Command

`op` is the command, `pc` the exchange or check it is at, in the order of the source; `next`
is Chain's next block, which `NextBlockChanges` changes at any time. `work` and `out` are the template
and what the search of `stnc_mining.c` returned: the least nonce that solves, the end of the
attempts, or the end of the nonces. `held` are the keys and buffers that must go,
`rc` the exit code, `told` the statement made of a submission. `mined`, `admitted`, `included` are
what Chain did, told apart from what was heard of it: a submission is `sent`, Chain
judges it (`Judge`: a `verdict`) now, later or never, also when nobody waits for the answer any
more, and the command reads the answer (`ReadWorkAnswer`, `ReadTransactionAnswer`: it has
`heard` it) or loses it. `lasted` is history: the work was still current after the search.

### ClientWindow

`prompt`, `boxes` and `quit` are the loops that run and the message that ends them: each loop
dispatches the window's messages, so `Track` and `Stopped` run in any of them, a message box inside
a message box too. `pc` is where the worker is in its loop (the tick is the end of `TakeRequest` and
of `Execute`), `s` the snapshot it is reading, `display` the cache of
`stnc_client_read`, and `snap` the one it shares. `selected` is changed by the window and read by
the worker twice, once for the identity and once for the wallet; `ReadFails` is a read that fails,
after which nothing is published.

The tracker walks through the shared list without its lock. `Track` begins a walk, `VisitEntry` is
one `stnc_contract_was_seen`, `RecordEntry` the `snprintf` that reads the entry a second time,
`EndWalk` the message box. While the worker is in `Publish` each read finds the old text, the
new one or a mixture (`Found`, `Entry`, `Garbled`), so that one contract may be announced and
another recorded. `told`, `missed` and `again` are history: what was counted as new, what of it
the tracker could not remember or recorded as another, and whether one was counted again.

### Wire, StncCodec, StnpCodec, Codec

A byte has `Base` values and an integer `W16`, `W32` or `W64` bytes, so that small numbers
already exceed their width. Each encoder returns the bytes it writes or `Refused`;
each decoder returns the numbers it read or `Rejected`, in the order of checks of the source;
`StncValid` and `StnpValid` say which values the protocol allows (`Headed` is the header of a
frame of theirs), and `Written` how a
service writes them, by a layout that the decoders do not use. `Shifted` is a number after each
shift of the writers, and a number `Fits` a width if nothing is left at the end.
`Codec` encodes two calls
into one buffer, or has an answer written, damaged by one fault, and read in one step or two.
`Arguments` is what an encoder reads of a call, and two calls that agree in it `SaysTheSame`.

## Runs

| run | instance | states | what it shows |
|---|---|---|---|
| `rpc_session` | two Chains, every reply header, two accepted states each | 42 000 | a call takes its own answer, the lock covers the exchange, every call returns, a contaminated stream is dropped, the session implements the channel |
| `core_runtime` | two Chains, one stopping thread, two tips | 352 000 | what "current" claims of the peer, releases on every way out, implements the channel; stop, reconnect and peer retries are never starved |
| `background_mining` | one work, two providers, two identities, nonces 0..2, one frame on the wire | 349 000 | whose work is mined, nonces in order, a session follows the settings and is opened for an identity Chain has registered, but for a switch of profile; searching and registering repeat |
| `config_store` | a runtime and a command, one crash or refused call | 1.2 million | the file is never half written, a save nobody overlapped stores or changes nothing, the runtime comes to use what is stored |
| `config_lost` | one process | violation | a crash inside a save loses the operator's network settings |
| `peer_set` | four peers for three places, answers of three entries, two latencies, two healthy peers | 86 000 | an answer is taken whole or not at all, healthy peers serve again |
| `peer_sync` | eight histories on a trunk and two forks, frames of one block, transfers of two, two failed exchanges | 301 000 | what is offered is the peer's blocks behind the last common one, no stage is left where Core could close it, Chain follows a longer history of more work |
| `codec` | five byte values, limits of 1 to 9 | 81 000 | no frame exceeds its buffer, is that of a call that says something else or begins one, decoders accept exactly what the protocol allows |
| `profile_store` | two profiles, the name of one a beginning of the other's, a worker and a command, two keys | 3.1 million | a key that was reported stays, a profile that was reported is what all readers serve, Default too, but for two promises the code does not keep |
| `client_window` | two profiles, two contracts, two places to remember, two nested boxes, six budgets | 197 000 | no request is lost, no contract is announced twice but in three named cases, the snapshot settles on one profile, closing ends the program |
| `client_window_close` | the same with one budget | violation | a worker that ended first leaves a window that never closes |
| `command` | two tips, two targets, four nonces, two operations | 3.1 million | exit code 0 means done, a submission is told as Chain judged it, but for two texts told of a lost answer, keys and buffers go on every way out |

Bounds. Two Chains are enough to confuse one with the other, and a call refers to
one at a time; `MaxTip` 1 or 2 lets a tip go forward, and back if the code let it.
Serials are reused modulo three, which tells the current call from the two
before it, and no more are ever on the stream. Timers in `CoreRuntime` keep the
order and the coincidences of the real ones (refresh and peer due together, reload
every tick) at two or three ticks; the proofs hold for every length. Three nonces
allow a first, a middle and a last one; one frame on the wire is enough, because a tick
reads at most one and a second that waits is like one that is sent later; waits of two ticks
with up to two gone by reach "just due", "overdue" and
"not yet". Two identities are needed to tell a registration of this profile from one of
another. Larger instances have been checked as well and hold: the runtime with two stopping threads (705 000 states, with liveness) and
with three tips (2.5 million, safety). Two processes are all the configuration file
ever has at once in practice, and one fault is enough to end a save at any call; one
backend, because the setters differ only in the field they write. Four peers for
three places reach a full set, a repeated peer in a full set, an insertion at either end
and in the middle; two latencies reach ties. The eight
histories let the common prefix be one block, two or all, let a history become
shorter and the suffix fit, need a stage, or be too long; two
failures are an answer lost and then its abort. Two keys are one profile or two half ones,
and three actors (window, worker, command) are all that share a selection; the half-written
name is the case that needs two names. Two places to remember let a contract be announced
while there is room and again when there might be none; two message boxes are one inside the other. A
budget of `client_window` says how many requests, selections and changed answers of Chain a
behaviour may have, and whether it is interrupted by prompt, close and failing
calls: two requests; a request and a selection; two selections, which is the profile and back, so
that the cache may hold the identity of one and the wallet of the other; one changed answer with
interruptions and three without; a selection and a changed answer. Four nonces let a range end before, at and past the last nonce, and
two operations let a second one meet what the first has left. In `codec` the lengths of
two bytes end at 24, which lists of small blocks exceed, and each limit has values
below, at and above it. `CHECK_DEADLOCK
FALSE` is used where the program ends: `exited` in `CoreRuntime`, `off` in
`BackgroundMining`, all processes down in `ConfigStore`, `exited` (or a window that cannot close)
in `ClientWindow`, and the last operation of `Command`.

Fairness. `RpcSession`: a read ends (socket timeouts are set before every request),
INFO follows a connect, the tick sends INFO again. `CoreRuntime`: the owner thread
and a handler that has begun go on, because each call they make returns
(`CallReturns` above); nothing is assumed of when Windows calls the handler or of
Chain. `BackgroundMining`: the tick goes on; nothing is assumed of the provider, of
settings or of the profile. `ConfigStore`: a file call that has been entered returns,
and a runtime comes back to its reload every second; nobody need save, start or
crash. `PeerSet`: initialization and a loop that has begun go on, every network call
having a timeout, and the selection comes again as long as no session is open
(strongly fair: the retries of root peer and selection are counted apart in one tick, so
neither keeps the other away); Chain is taken to stay connected. `PeerSync`: a comparison
that has begun goes on; peer and INFO come due again and again (strongly fair: a
connection that fails between two ticks does not keep the next from coming); the histories
and the faults end, because the property is about what happens after them.
`ClientWindow`: every call of the worker returns (`CallReturns`), a posted message is
dispatched by the loop that runs and the tracker walks on, and the display cache becomes ten
seconds old (`stnc_client.c:25`), without which a mixed snapshot could be served for ever;
nothing is assumed of the user, who may leave a
message box open, or of Chain. `SnapshotSettles` excludes reads that fail again and again,
after which nothing is published.

## Proofs

Proved for every value of the constants that satisfies the assumptions named in the
modules: every safety property of every passing run, both refinements of `RpcChannel`, and
type correctness of all ten state machines, which
therefore needs no run of its own where a run does not name it. Some theorems state more
than the runs do (that a
presented state was accepted by its Chain, that a session is kept, that the best peer is
selected, that every request is accounted for, that the window outlives the core).

The assumptions are that null values are none of the real ones and that
bounds and intervals are (positive) naturals; in `PeerSet`, that an answer has at most
as many entries as there are places, as the decoders make sure; in `PeerSync`, that
equal blocks at one height have equal pasts, as a hash of the parent makes sure, and
that all histories begin with one block, since both sides have compared the network. In the
codecs they are what the C types and headers say: the two magic numbers differ and take
four bytes, each method and message type has a number of its own of 16 bits, an argument has the
type of its parameter (`CallsAssumption`), a service writes what the structures
can hold (`AnswersAssumption`), and a byte stays a byte when it is altered
(`BufferAssumption`).

- `SessionInv` (`RpcSession`) says, for each place of a call, what the stream holds:
  at most one left-over payload first, then exactly the answer to this call. The
  property "a call succeeds on its own answer" is not inductive without the count
  of segments and the lock that tells whether bytes are left over.
- `RuntimeInv` (`CoreRuntimeProofs`) says, for each place of the owner thread, which
  stages are up (`UpInv`), whether the core has begun (`StateInv`: a handler that has
  read RUNNING stays entitled to write), that the refresh counter runs ahead of the
  age of `chain_state` (`FreshInv`), and that a clean link was qualified (`LinkInv`).
- `MiningInv` (`BackgroundMiningProofs`) says what a tick may rely on at each call
  (`TickInv`), which nonces of the held work are done (`WorkInv`), and that at most one
  answer is on the wire, only while the tick waits for it (`NetInv`). `RegistrationInv` counts
  time: while `compensation_ready` stands, the active identity is registered, or what is left
  of the wait and the time since the switch together are within the recheck interval.
- `ConfigInv` (in `CommandProofs`) says what each process has in memory at each call
  (`MemoryOK`), that the temporary file is half a document only while somebody writes it,
  or after a crash or a refused call (`TmpWhole`), and what a save nobody
  overlapped knows of both files (`AloneIsAlone`, `AloneFiles`); "a save that succeeds has
  stored" rests on the last.
- `IInv` (`PeerSetProofs`) says that the staged copy holds the old candidates and exactly
  the entries read so far (`StagedOK`), and what the two loops of a selection have seen
  (`QualifyingOK`, `ScanningOK`). Below it are lemmas on the operators: the search of
  `stnc_peers_add` finds its place (from the least element of a set of naturals), the
  insertion keeps the order and adds one peer, an ordered sequence has as many members
  as places.
- `Inv` (`PeerSyncProofs`) says for each loop what the search may rely on. `StageInv` follows
  an open stage from BEGIN to its end, by session. `SearchExact` says that, while nothing
  moves, the histories have the same block at `low` and different ones behind `high`, unless
  one of them ends there; `Copied` that what was collected or staged is the peer's history from there on. Only
  the assumption on histories turns "the blocks at this height are equal" into "so are all
  below", which is what makes a binary search sound.
- `Inv` (`ProfileStoreProofs`) is ownership: a file that is being created, or that a clean-up
  may remove, is one its creator made itself in this operation (`UiOwns`, `WkOwns`), no two
  own the same (`Owners`), and none owns a reported key (`Kept`). `KeysKept` alone says nothing
  of what a pending clean-up will remove. `ServedInv` adds the selection: an
  operation takes the last answer back before anything else, and until it has, nobody
  writes the selection or empties a file that holds a key; a torn file is always
  `unfinished` (`TornUnfinished`), which is what the exception of a selected wallet rests on.
- `WindowInv` (in `ProfileStoreProofs`) is the type of each part (`LoopType`, `TrackType`, `SharedType`,
  `WorkerType`, `OutsideType`) and, across the two threads, where a request is
  (`RequestInv`: pending, running or done, never two of them), that the end is announced and the
  window gone only after the worker has ended (`EndInv`), and that at each step of a walk what was
  counted and not missed is remembered or about to be recorded (`AnnounceInv`).
- `Inv` (`CommandProofs`) says for each place of a command which keys and buffers it may hold
  (`HeldWhere`), which operations come there (`OpWhere`), where a submission is (`SentWhere`: one
  in an operation, `SentOnce`, judged once, `JudgedOnce`, and heard only as it was judged), what a search has established (`SearchedWhere`) and which file was checked (`WalletWhere`).
- `CodecInv` (`CodecProofs`) is small: what was sent is what the encoders make, what was
  decoded is what the bytes decode to, and an exchange fails only on damage. The work is in
  the functions. From the bottom: a number that fits is
  read from the bytes it is written as, and bytes are those of the number they read as
  (`NumberOfBytes`, `BytesOfNumber`; as no rule of induction can be
  cited, by the least place where they would differ, `Upwards`); parts one behind the other are found again
  (`FlattenParts`, `PackedRead`); so are whole layouts with their rows, in both directions
  (`ReadingWritten`, `WrittenReading`). Each of the eighteen decoders is then shown sound and
  complete for its layout (`Decoders`), and a header to announce exactly what follows an accepted
  frame (`FollowsAccepted`). For the encoders, a frame that begins another has the
  same magic number and method or type (`EncodeSame`, `FramesSame`), so the same widths, so the
  same numbers and the same length of what is behind them (`PartsSame`); a list is then compared
  block by block (`ListSame`) and a payload call by call (`PayloadSame`).

In each module a lemma per action proves that it preserves the invariant, and each
theorem of `PROJECT.json` follows from it.

Only model-checked: liveness (it rests on fairness and ENABLED, which the prover does
not handle): `CallReturns`, `ContaminationRetired`, `StopHonoured`, `ReconnectTried`,
`PeersNeverStarve`, `RegistrationRechecked`, `SearchRepeats`, `StoredIsApplied`,
`HealthySetServes`, `Synced`, `RequestsExecuted`, `SnapshotSettles`, `ClosingEnds`. No safety
property of a passing run is left to TLC alone.

## Findings

Two disagreements between the code and what the repository says of it have a run
that exhibits them; the lines they contradict are quoted in `PROJECT.json`:

1. a process that ends between the remove and the rename of a save leaves no
   configuration, and the next start writes the built-in one (`config_lost`);
2. a worker that ended before the window was asked to close has sent its only
   `STOPPED` already, and the window never closes (`client_window_close`).

### Found while modelling

What the models do because the code does, although a line of the repository says
or suggests otherwise; the passing runs contain these behaviours.

- A call that ends between header and payload (an answer that was not expected, a `malloc`
  that fails) keeps the RPC lock; the next one takes it a second time, fails on the bytes left over,
  and releases it once, so the lock is still held when the session is down.
  `tests/test_stnc_rpc_timeout.c:41` asserts `locks==0` after a failed receive, and `docs/CHANGELOG.md:18` has
  "Release the prior RPC mutex on reconnect, including after transport failure".
  `LockFollowsExchange` speaks of sessions that are open and not contaminated.
- A Ctrl+C between the installation of the handler and the first tick is dropped:
  `stnc_core_request_stop` only acts while the core runs; `docs/CHANGELOG.md:55` has
  "Operator-requested shutdown using `Ctrl+C`".
- A refused reconnect leaves the accepted state of the lost Chain presented;
  `docs/OPERATOR_GUIDE.md:41` has "Unavailable accepted state is displayed as unavailable, not zero".
- A JOB that comes before the RESULT of a share ends a healthy mining session;
  `stnc_background_mining.c:175-176` calls a new JOB "a protocol event, not a transport
  lifecycle event".
- After a switch of profile `compensation_ready` stands until the registration is next due: an open
  session stays, and one may be opened for an identity nobody registered;
  `stnc_background_mining.h:7-8` has that the tick "always maintains
  the persisted ... compensation registration". `OpensRegistered` allows it in two cases, a
  switch inside the tick and one within the recheck interval, and in no other.
- When the best qualified peer does not open, no other is tried, and the next selection may
  choose the same one for ever; `docs/ROADMAP.md:280` has "Other valid candidates remain
  available for failover". `HealthySetServes` therefore asks that all healthy peers open.
- A command whose submission was not answered says "Solved mining work was not accepted by
  Chain." (`stnc_command.c:284`), and the window "Contract creation failed before Chain
  admission." (`stnc_client.c:26`), although Chain may have taken it;
  `docs/OPERATOR_GUIDE.md:16-17` has "A failed transport can leave submission outcome unknown".
  `ToldTruth` excepts these two texts, for a submission that was not heard of, and no other.
- `profile select` prints "Both wallet and identity must exist and be valid." (`main.c:17`), but
  `profile_usable` only opens the wallet file; `SuccessIsServed` lets a selected profile have a
  wallet that is not valid when its last writing failed or was cut off, and in no other case.
  The command runs before the platform is initialized (`main.c:23`).
- A selection of Default reports success without a look at whether `remove` was refused
  (`stnc_profile.c:77`), so that another profile stays the selected one: the second exception
  of `SuccessIsServed`.
- The tracker reads each entry twice without the lock under which the worker replaces the list
  (`gui_windows.c:118-120`, `gui_btc.c:34`): it may announce one contract and record another,
  and announce it again. `AnnouncedOnce` names this and the two other ways to a second
  announcement.

Seen while modelling: `peer_status` is only ever zeroed
(`stnc_core.c:694,1151,1169,1221,1792`), so `status` and `peers` never print the peer
that `OPERATOR_GUIDE.md:30` lists; `CHANGELOG.md:15` says that P2P and Stratum retain
a five-second default where `platform_windows.c:23` has 30 s; profile operations run on
the UI thread although `OPERATOR_GUIDE.md:37-40` has cryptographic operations on the
owner thread. Every JOB resets the wait between two searches (`stnc_background_mining.c:177`).
A setter writes the whole memory of its process, so it undoes what another process
saved since the last reload (`stnc_config.c:564`). The directory is asked only by an
initialization that reached Chain (`stnc_core.c:1287`). Mining that was disabled while
Chain is away keeps its session until Chain is back (`stnc_core.c:1688`).

A peer with fewer blocks but more work is never evaluated, and one that forks off more
than 4096 blocks back is never followed; `Synced` names both. A failed write of
`active.profile` loses the selection before it; a crash inside a creation, or a clean-up that is
refused, leaves a name that can neither be created nor selected. A contract list longer
than the tracker's 16 places is announced on every update, and a list read
while it is replaced may announce contracts of the identity before. A cache with the identity
of one profile and the wallet of another is served when the first is selected again, until it is
ten seconds old. A transfer the user has confirmed waits in the pending request while
he may still select another profile, whose wallet then signs it. Only one transaction is tracked.
A retry of a transfer cannot be a DUPLICATE, because each takes a fresh nonce. The
overflow check inside the loop of `stnc_mining_search` is not reached by its caller, which
bounds the attempts.

## Not modelled

Within the modelled parts: the bytes of directory JSON, of the Stratum frames and of the
configuration (a document is whole or torn), and of key files (valid or not); what hashes
and difficulties compute (values that decide nothing but equality, or a set of nonces that
solve); the percentage of the CPU limit (the time of one search is not counted);
`usb-asic`, which the code treats as it treats `gpu`; counters and wording of status
pages and logs; the reading of edit fields and arguments; the wallet menu, which shows names
that it reads before the platform is initialized; drawing.

Not modelled at all, with the reason in `components` of `PROJECT.json`: the HTTP transport of
the directory, one request over a system library; the log, an append-only file and a ring
of five lines that decides nothing; the layout of a signed contract payload;
`stnc_contract_response.c`, which only its test calls; the vendored Ed25519, a
pure function; and the front ends that no file of the build includes.

## Plan

Done: the ten state machines above with a passing run each, and proofs of every safety
property of these runs. What is left, in this order:

1. `PeerSet` as the detail of `CoreRuntime`'s peer steps, by a refinement mapping; the same for
   `ConfigStore` against a store whose saves are atomic but for a crash, and for `ClientWindow`
   over `Command`.
2. The Stratum frames and the directory's JSON as codecs beside the two there are.
3. The ring of the log, with the window reading it while the worker writes.
