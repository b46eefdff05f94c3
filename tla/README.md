# EdgeSSH in TLA+

EdgeSSH is an SSH client that runs on Cloudflare: a browser terminal talks over
a WebSocket to a Durable Object, which holds the SSH session (russh compiled to
WebAssembly) and a TCP socket to the server. This directory models the parts of
it where interleaving, failure and ordering decide whether it is correct, checks
them with TLC and proves the central properties with TLAPS. Paths below are
relative to the repository root (`src/` in `PROJECT.json`).

- `X.tla` models one component; `MCX.tla` gives its small instances; the `.cfg`
  files are the runs; `X_proofs.tla` holds theorems about `X`.
- `PROJECT.json` lists the components, the runs, the source lines behind every
  definition, the hazards, the theorems, and for each checked property at least
  one mutant: a plausible bug, an operator of the module marked as a mutant, under
  which TLC finds the property violated.
- A property in a cfg is often the conjunction of named parts that are about the
  same thing (`VerdictIsTrue` is `OnlyExpectedKey`, `MismatchIsReal` and
  `ReplyIsPresented`); where a module has no proofs one of them includes its types.

## The system

| Part | State | Operations | Talks to |
|---|---|---|---|
| Session object, `worker/src/session-do.ts`, `crates/zerossh-do` | SSH session, TCP socket, clients, output buffer, meta (memory and storage), alarm | connect, pump, onData, WebSocket open/message/close, alarm, terminate | routes, browsers, KV, russh |
| Session list, `worker/src/sessions.ts` | one KV document per user | POST, GET, DELETE, accept-host-key, WebSocket forward | session object, KV |
| Host keys, `sessions.ts`, `zerossh-do/src/handler.rs`, `web/src/main.ts` | `known_hosts` document, two WASM thread-locals, dialogs | expect, check, take, persist, confirm | session object, KV, browser |
| Channel write path, `russh/src/channels`, `session.rs` | shared window and its notifier, queue, pending data, per-channel parameters | write, poll, data, eof, close, window adjust, flush | application tasks, session task, server |
| Key exchange, `russh/src/{client,server}/kex.rs` and loops | exchange state, keys, sequence numbers | KEXINIT, group exchange, DH, NEWKEYS, re-exchange | session loop |
| User authentication, `russh/src/{client,server}/encrypted.rs`, `auth.rs` | auth state machines of both sides, queues between caller and session task | authenticate_*, sign, respond; methods, partial success, keyboard-interactive | session loop, the server's Handler |
| Session loop, keepalive, global requests, `russh/src/{client,server}` | timers, counters, queue of open requests, state of the end | select loop, timers, forwards, pings, disconnect, drain | everything in russh |
| Receive path and channel table, `russh/src/session.rs`, `{client,server}/encrypted.rs`, `channels` | two tables by channel id on each side, receive window, queue per channel | open, confirm, refuse, data, requests and replies, eof, close | session loop, applications |
| Negotiation, `russh/src/negotiation.rs` | none | read and write KEXINIT, select algorithms | key exchange |
| SSH agent, `russh/src/keys/agent` | key store, lock, one task per connection | add, remove, sign, list, lock, unlock, lifetimes | applications, other agents |
| Packet framing, `russh/src/{ssh_read,sshbuffer}.rs`, `cipher/` | read buffers, sequence numbers | identification line, packet read | session loop |
| Owner authentication, `worker/src/{auth,jwt,middleware}.ts` | owner and challenge records in KV, cookie | register, login, demo, logout | KV, browser |
| Server list, `worker/src/{servers,crypto}.ts` | encrypted KV document | list, add, delete | KV |
| WebSocket proxy (legacy), `worker/src/proxy.ts`, `web/src/transport/ws-proxy.ts`, `crates/zerossh-wasm` | two streams | relay, half-close | browser, TCP |
| Frontend, `web/src/main.ts`, `do-session.ts` | screens, current connection | connect, reattach, confirm | routes, session object |

How the parts meet: a POST makes a session object and asks it to connect; the
object sets the expected host key, runs the russh client over a transport made
of JavaScript callbacks, and answers with the key it saw. Output of the SSH
channel goes to the buffer and to every client; input of a client becomes one
write on the channel. A DELETE, or the alarm that is armed whenever no client is
left, runs `terminate()`. Inside russh the application's tasks, the session task
and the server share one channel through a queue, a window kept in two places
and a notifier, and all of it is suspended and resumed around key exchanges.

What is hard, and so what the properties are about: handlers that interleave at
every await (two `terminate()` calls, an attach during a termination, a TCP end
during the handshake); objects evicted with their memory; documents in KV read,
changed and written back without a transaction; state shared between objects by
accident of placement; wake-ups, windows and pending data under concurrent
writers; messages in flight while keys change; replies matched to requests by
their order alone; calls dropped while their answer is under way; a page's cache
that outlives what it was loaded from. `PROJECT.json` lists each of
these hazards at its line.

What makes each part correct: the session object replays output without a gap,
closes whom it drops and is cleaned up in the end; the list is right about a session
nobody is working on; no session is set up with a key other than the expected one and no
key is stored that the user did not agree to, attempts that share an isolate at one
time apart; the write path keeps the server's window, the
order of bytes and ends, and wakes whom it should; the exchange leaves the two
sides with the same names, keys and numbers. Authentication grants what the Handler
authorised and tells the call that asked; a message reaches the channel it was sent
on; an answer reaches its caller and every caller gets one; the agent does what it
says and keeps a key no longer than it may; there is one owner, and his list is what
he saved.

## Modules

**`SshSessionDO`** is one Durable Object. JavaScript runs a handler to its next
await, so an action is the code between two awaits; awaits on `ctx.storage` do
not break a handler (the input gate holds other events back). `connect`,
`pump`, `task` and `term` are the program counters of `handleConnect`, the TCP
pump, the russh task and each `terminate()` call; the rest are the object's
fields and its two persistent traces. `session = "freed"` is a wasm-bindgen
wrapper whose object is gone: `free()` throws while another call borrows the
object, and `terminate()` then ends half-way. `ApiRecordsSession` and
`DeleteRouteRemoves` are what the routes add to the KV record of this session.
The idle timeout (30 minutes) is assumed longer than the time the route needs
to record a session that has answered ok. An output chunk is its length; `output` and
`recv` are history variables. `Evict` is the platform dropping an idle object, which it
may do or not. An alarm handler that throws is scheduled again `MaxTries` times (6 on
the platform) and then given up (`Rescheduled`, `tries`). Of two `terminate()` calls whose
`disconnect()` both have returned the first may free the session and the second throws
(`AfterDisconnect`).

**`SessionRegistry`** is the session list with many sessions: the get and the put
of each of the three writers are separate steps, any number of which overlap; the object
is only up or terminated. `raced` is a history variable: the sessions whose last write
another writer was about to overwrite.

**`HostKeys`** is trust on first use across route, WASM handler and dialog. The
thread-locals `EXPECTED_HOST_KEY` and `ACCEPTED_HOST_KEY` are indexed by isolate,
and `isolateOf`, chosen by Init, says which objects share one. Nothing keeps the attempts
of an isolate apart, and a handshake that timed out goes on in it (`timedOut`). `met` is a
history variable: the attempts whose handshakes ran in the isolate while this one's did;
so are `presented` and `approved`.

**`ChannelFlow`** is one channel of the client from the writers to the wire. Each
`send_data()` is a writer with `poll_writable` cut where the window's lock is
released; `Notify` is `tokio::sync::Notify` (one stored permit, a line of
registered futures, a dropped future passing its notification on). `windowRef`
is the writers' window, `rwin` the session task's. A byte carries its writer, its
position and its offset in its message, so that order, loss and the arithmetic on
`from` can be seen. `SubSeq` of a byte sequence replaces packetisation.

**`Negotiation`** holds the operators of `negotiation.rs`: what a side writes into its
KEXINIT (`write_kex`, with the host key filter of the server) and what it reads out
of the other's (`read_kex`, with `ServerSelect` and `ClientSelect`, whose loops
differ). Algorithms are names; extension names are filtered as in the code. A list is
a function from positions to names and a filter leaves gaps, since only the order of
names is ever used.

**`KeyExchange`** is both sides with a FIFO of sealed packets in each direction, one
definition per side and state of `ServerKex` and `ClientKex`. A key is the exchange
that made it, its letter and the cipher and MAC negotiated for it; a packet carries
the key and the sequence number it was sealed with, and opens only with the same.
Init chooses a setup: what each side prefers, the server's host keys, whether the
client guesses, whether something precedes the server's KEXINIT, whether there are
keepalive timers, which fire in re-exchanges too. `late` is a history variable: the
sides that wrote something between their NEWKEYS and their new keys. A check that needs an exchange to be strict already and the
session not yet encrypted is never reached, and is left out. So are the `none`
method (`skip_exchange`), which EdgeSSH does not offer, and compression.

**`UserAuth`** is one authentication: the task that calls `Handle::authenticate_*`, the
client's session task, the server's with its Handler. A credential is a record that
says what the Handler thinks of it. The waits inside `process_packet` are
`WaitInPlace`: the session throws away what it does not wait for (`ignored`). The
server also meets a client that is not russh and sends the messages in any order.
**`AuthService`** is what all this promises: one decision, for a credential that is
authorised, told and acted on only afterwards. `UserAuth` implements it with
`decided` mapped to the granted request, `told` to the outcome of the calls and
`served` to the server's state after success (`ImplementsService`).

**`ChannelTable`** is all the channels of a connection on both sides: `chans` is
`enc.channels`, `refs` is `Session::channels`, `buf` the queue to each application
channel and `inbox` the queue into a session. A session that finds a queue full is
`blocked`. Data is a number of units, since order and wake-ups are `ChannelFlow`'s.
`Handler::adjust_window` is taken as it comes, keeping the target of a window at
`Window`; only the server's could be changed by it. A channel request is asked for by its
kind. `auth-agent-req@openssh.com` (`agent`) gets the channel reply that the documentation
of `Handler::agent_request` asks its Handler for; the global reply that the code adds by
itself is in `GlobalRequests` (`agent_forward`, `request_result`).
A conversation number, unknown to the program, tells which messages belong
together.

**`GlobalRequests`** is the two session loops beside channels: global requests and
their queue, keepalive and inactivity timers, disconnect, the server's drain, a
connection that dies, calls that are dropped. A setup names the calls of both sides,
the timers, and whether the server is russh's or one that answers only what asks
for an answer. Time is abstract, except that in a `fast` setup timers fire on a
quiet line only.

**`Agent`** is the agent's tasks, one per connection, with the store and the lock they
share, and the clients that read replies in order. A setup is a program of requests
per connection. `confirm_request` is a step of its own, since the task awaits it
between reading the lock and acting. A message written without its length leaves the
task `swallowing` what follows. The clock may stand still or go back between two
additions of a key (`at`), so that two of them may carry one time; `of` numbers them for
the properties.

**`OwnerAuth`** is who is let in and what his server list holds: the ceremonies of
`auth.ts` cut at their KV calls, demo logins, cookies that expire, and the pages
with their cached list. A credential is named by the challenge it was made for.
A challenge is named by one page only, so its get and its delete are one step: the same
answer sent twice at once is left out. A save is cut at its await (`Send`, `PutServers`,
`ServersSaved`): the cards stay in use meanwhile, so that saves of one page overlap. The
cards on the screen are taken to show the cached list; they differ from it only between
overlapping saves of one page, and what a third save pushes onto an array that a second
has replaced is left out. `overlapped` and `spoiled` are history variables: the
challenges whose verification overlapped another, and the users whose saves overlapped,
failed, were abandoned or were made from a list that could not be loaded. KV
is taken as consistent, here and in the other modules; only the gaps between its
calls are modelled.

## Runs

`CHECK_DEADLOCK FALSE` everywhere: each instance has a bounded number of
requests, messages and failures, and stops once they are used up.

| Run (cfg) | Instance | Shows |
|---|---|---|
| session_do (`SessionDO_core`) | 2 sockets, 1 DELETE, alarm with 1 retry, 3 chunks of length 1 or 3, budget 2, 1 eviction | types, gapless replay, clients = open sockets, exact byte account, clean-up armed, no orphan record |
| session_do_cleanup (`SessionDO_live`) | 1 socket, 2 DELETEs, alarm with 2 retries, 1 eviction, KV calls may be rejected, fair | a stored session is eventually deleted, or its alarm given up |
| registry (`Registry_serial`) | 3 sessions, operations overlapping in every way | `ListIsTrue`: the list is right about a session that nobody works on and whose last write was not overtaken |
| host_keys (`HostKeys_core`) | 2 hosts, 2 keys, 3 attempts, 1 key change, objects in isolates in every way, attempts overlapping in every way | `VerdictIsTrue` (the expected key only, mismatch real, reply is the presented key, of this attempt or of one it met), `KnownIsApproved` |
| channel_flow (`Flow_core`) | writers of 3 and 2 bytes, packets of 2, queue of 2, window 2, two adjustments of 1 or 3, largest u32 3, a re-exchange, eof, close, server close, session end | types, flow control, pending only at zero, ends after data, no lost wake-up, bytes in order and once |
| channel_delivery (`Flow_live`) | 2 bytes each, four adjustments, a re-exchange, fair | every started write is delivered |
| key_exchange (`Kex_core`) | 3 re-exchanges by both methods, strict or not, 2 data messages, and 2 with timers; first exchanges between sides that prefer different things, with timers; a message before KEXINIT; right and wrong guesses; fair | `AlwaysOpens`, `AlwaysExpected`, `HostKeyFirst`, `SidesAgree` (in step, same names), `ExchangeEnds` |
| user_auth (`Auth_core`) | 4 calls of the russh client with 1 dropped, or 4 messages of another client; 2 users, 1 prompt, any verdicts, also at the first keyboard-interactive call; fair | `SameUser` and `RepliesAreOwn` (both sides agree on what was asked, offered and granted), `CallReturns`, `ImplementsService` |
| channel_table (`Table_core`) | 8 setups: streams past the window each way, reopening, opens from both sides, drops, requests of 4 kinds answered at once or later; queues of 1; fair | `RoutedRight`, `WindowsAgree`, `NoSessionEnds` (assertions hold), `ReplyForEach`, `ChannelsSettle` (opens settle, closes release) |
| global_requests (`Global_core`) | 11 setups of 3 calls of either side, timers, cuts, disconnects; keepalive_max 1; fair | `RepliesMatched` (callers get their own answer, queue in step), `NoFalseTimeout`, `NobodyWaits` (calls return, both ends end) |
| agent (`Agent_core`) | 6 programs of up to 4 requests for 2 connections, times that may be equal; fair | `OutcomeIsTrue`, `Lifetimes` (keys leave by their own timer), `CallsReturn` |
| owner_auth (`Owner_core`) | 2 pages in one or two browsers, 3 ids, 2 servers, 2 saves at a time, 2 ticks, both modes, loads and saves that fail; 4 challenges, demo users and saves together in two browsers, 3 in one | `SoleOwner`, `NotLockedOut`, `ListsAreTrue` (lists as saved, demo data gone) |

Why the bounds are enough. Session object: a replay can only go wrong between a
joining client, another client and the output; three chunks with a budget of two
reach the three cases of the buffer (fits, evicts, one chunk over the budget).
A `terminate()` can overlap one other kind of call, which the alarm and a DELETE
give, and two DELETEs in the liveness run. How often a throwing alarm is retried does
not matter but for none and some. Lists and documents: a lost update
needs two writers and a third entry to lose. Write path: two writers suffice for
a missed or misdirected wake-up, two bytes through windows of 0 to 3 split
every message, and a third byte lets a second message of one writer meet pending
data of the first; the theorems lift flow control and wake-ups to any number. In
`channel_flow` the largest u32 is scaled to 3, so that the window saturates and
the sum of line 385 of `session.rs` overflows; in `channel_delivery` to 9, which the
granted windows cannot reach. Key exchange: two crossing re-exchanges and one
more after them, with messages of the old keys still under way. Authentication: a
challenge, an attempt in the middle of it, the answer, and one call more; the
messages of another client need four to open a conversation as one user, change
it, and use it. Channel table: a message late for a closed channel needs one channel
to follow another; six units pass a window of four twice. Global requests: a
misplaced answer needs one request too many and one caller behind it. Agent: a stale
timer needs a key added twice. Owner: a lost registration or counter needs two
pages, an expired cookie or list two ticks, a lost server two saves of one page at a time
after a first; the theorems lift all three to any number. Symmetry is used only in runs without
temporal properties.

Fairness, and what justifies it:

- `SshSessionDO!Fairness`: the runtime delivers close events and alarms, resumes handlers
  whose await is over and sends the Worker's answer; browsers are eventually closed. A
  throwing alarm handler is retried `MaxTries` times, not for ever, and the property says
  so. No fairness is assumed of a server, of output, of evictions, nor of input that
  waits for a window.
- `ChannelFlow!Fairness`: a woken task is polled, the session task takes its
  messages while no exchange is active, and the server answers the open request,
  finishes an exchange and goes on granting window. The last is the server's
  choice, so `Delivered` is conditional on it.
- `KeyExchange!FairSpec`: a session task reads what arrives.
- `UserAuth!FairSpec`: the session tasks and the transport run, the caller takes the
  replies of its call and its signer returns. A caller need not answer a challenge.
- `ChannelTable!FairSpec`: the session tasks run and the applications go on reading
  the channels they keep; they need not write, close or drop anything.
- `GlobalRequests!FairSpec`: the session tasks are polled, `select!` picks among its
  ready arms at random, and an armed keepalive timer fires. Inactivity timers,
  cuts and disconnects happen or not.
- `Agent!FairSpec`: clients read the reply they wait for and the agent's tasks are
  polled. Lifetimes may end at any time or never.

## Claims that do not hold

Each claim is a property of its module that says what a doc comment, a document or
the obvious reading of the code promises, and that TLC refutes. Either the
run leaves out the circumstance that breaks it, which the second column changes, or the run
has it and checks what is left of the claim; both name the exception. To see a trace, name the
property in the cfg and change what is said.

| Claim | Where | Why it fails |
|---|---|---|
| `CleanedUpAfterTcpClosed` | `SessionDO_core` with `MaxEvictions = 0`, `MaxOutput = 2` | if TCP ends between the last handshake bytes and the resumption of `handleConnect`, a session without transport is installed (`session-do.ts:142`); the idle alarm still removes it (`CleanupArmed`) |
| `NothingMissed` | `SessionDO_core` | output beyond the 100 KB budget is not replayed, against "you won't miss anything" of the project's README |
| `NoOrphanRecord` | `SessionDO_core` with `KvMayFail = TRUE` | a rejected KV call is logged and the meta deleted all the same |
| `AttachedHasSession` | `SessionDO_core` | attaching does not ask for a session (`session-do.ts:180`): a browser that comes while `terminate()` awaits KV, or after it, stays open with nothing behind it |
| `NeverGivenUp` | `SessionDO_core`, `SessionDO_live` | `free()` throws while input is in flight, and a freed wrapper makes every retry of the alarm throw again (`session-do.ts:287`) |
| `OwnExpectedKey`, `OwnReply` | `HostKeys_core` | the host key thread-locals are shared by the objects of an isolate (`handler.rs:10`): one attempt is checked against the expectation of another and answers with its key |
| `OnlyApproved` | `HostKeys_core` | such an answer is stored for a known host without asking |
| `KeysNotForgotten` | `HostKeys_core` without symmetry | `known_hosts` is written back whole, like the session list |
| `ListAlwaysTrue` | `Registry_serial` | whole-document writes to KV lose updates: a live session drops out of the list, a terminated one comes back |
| `CloseAnswered` | `Flow_live` with `ServerMayClose = TRUE` | russh answers a server's close only after pending data, which no window can release any more (`session.rs:248`) |
| `EofSentOnce` | `Flow_core` with `MaxAdjusts = 3` | `pending_eof` is never reset, and every later flush sends another CHANNEL_EOF (`session.rs:326`) |
| `WindowNotOverstated` | `Flow_core` | an adjustment credits the writers for data still in the queue; harmless by `FlowControl` |
| `QuietDuringRekey` | `Flow_core` | an adjustment during an exchange flushes pending data; order survives (`InOrder`) |
| `SlicesInBounds` | `Flow_core` | `from as u32 + recipient_window_size` passes the largest u32 |
| `WaitingIsServed` | `Flow_live` with `EarlyAdjust = TRUE` and one adjustment | the initial window overwrites an earlier adjustment |
| `NothingUnopened` | `Kex_core` | a keepalive, or the answer to one, after a side's own NEWKEYS is sealed with the old keys (`client/mod.rs:1284`) |
| `AlwaysExpected` | `Kex_core` with `Setups <- WrongGuess` | only the DH state drops a guessed packet, not the group exchange (`server/kex.rs:209`); and methods the server does not know are taken out before the guess is judged (`negotiation.rs:252`) |
| `AttemptsBounded` | `Auth_core` with `Clients = {"russh"}`, `MaxCalls = 3` | attempts are counted and never compared, against "Maximal number of allowed authentication attempts." (`server/mod.rs:90`) |
| `ReplyReachesAsker` | `Table_core` with `Setups <- LaterOnly` | one `wants_reply` per channel: a second request overwrites the first's, and `channel_success`, "it checks whether the client expects an answer" (`server/session.rs:831`), then answers wrongly |
| `WaitEnds` | `Table_core` with `Setups <- ClientEnds` | the server does not answer a client's close, so `wait` does not return "`None` if the channel has been closed" (`channels/mod.rs:154`) |
| `AnswersAreOwn` | `Global_core` with `Setups <- Mixed` | the russh server answers requests that want no reply, and `auth-agent-req` with a global reply; a silent keepalive leaves an entry no other server answers. "returns the server's response via the channel" (`client/session.rs:300`) is then another request's |
| `OwnTimerOnly` | `Agent_core` | the timer compares times only (`agent/server.rs:290`): with a clock that gives two additions of a key one time, the first one's timer removes the second |
| `LockStopsSigning` | `Agent_core` with `Setups <- Locking` | the lock is read before `confirm_request` and not again, against "making it refuse to sign until unlocked" (`agent/client.rs:232`) |
| `OnlyOwner` | `Owner_core` | two registrations verified at once both succeed, and the second owner replaces the first; the project's README says "No other users can register" |
| `CounterNeverBack` | `Owner_core` without symmetry | overlapping logins write back the record each of them read |
| `EverySaveChangesOne` | `Owner_core` | a failed load is cached as an empty list, which the next save stores; a click during a save sends a list without it (`main.ts:324`), so that a removed server comes back |
| `EveryPageChangesOne` | `Owner_core` | two pages each save the list they loaded |
| `DemoDataGoneInTime` | `Owner_core` | each save gives a demo list its full time anew, against "User data expires after 24 hours" of the project's README |

Some properties make an exception for such a case by name, so that they hold and
still say something about all others: `CleanupArmed` and `StoredEventuallyDeleted` (an alarm
given up), `VerdictIsTrue` and `KnownIsApproved` (attempts that met in an isolate),
`ListIsTrue` (a write that was overtaken), `AlwaysOpens` (a side that wrote late),
`ReplyForEach` (a reply lost to a later request), `Lifetimes` (two additions at one time),
`SoleOwner` (overlapping registrations), `ServersAsSaved` (saves that overlapped or failed, two
pages), `UserAuth!CallReturns` (an answer other than
the one the session waits for is thrown away), `RepliesAreOwn` (a call dropped
before), `SessionSurvives` (a refusal whose open call was dropped ends the server),
`CloseReleases` (a close that waits behind pending data), `GlobalRequests!CallsReturn`
(the server's drain has no timer), `Agent!OutcomeIsTrue` (an addition with an unknown
constraint reports success) and `Agent!CallsReturn` (messages without a length).

## Proofs

The theorems hold for all values of the constants that satisfy the named assumption
of the module (`DOAssumption`, `FlowAssumption`, `HostKeysAssumption` and so on:
bounds are natural numbers, windows u32 values, setups well formed), and for the
hypotheses a theorem states itself. A hypothesis is there only where the property
fails without it, and the table above then has the counterexample: `KvMayFail = FALSE`
(`RecordNotOrphaned`) and `NoGuesses` (the theorems about re-exchanges). Each proof is Init,
step and temporal conclusion, the step proved action by action. Where a fact about sequences needs an induction, the proof takes the
least index that violates it (`LeastNatural`, `LeastNumber`, from
`WellFoundedInduction`). Sums over sequences (bytes of a buffer, data on a line) are
recursive functions on 0..n; that such a function exists and adds up over `\o`,
`Append` and `Tail` is proved the same
way, as membership of every number in a set.

`SshSessionDO_proofs`:

- `TypeCorrect`: types; every other proof uses it.
- `ClientsCorrect`: `OpenMeansAttached` together with `ClientsConnected` (the
  object only sends to sockets whose close event is still to come).
- `CleanupNeverForgotten`: `CleanupArmed` is inductive with types and `ClientsInv`. The
  interesting steps are those that clear the alarm (an attach, the alarm itself)
  and those that end a `terminate()`, which must have deleted `meta`, re-armed or run out
  of retries.
- `ReplayGapless`: `NoGapAfterAttach` needs `BufferIsLast`: the buffer is a run
  of the last chunks. `ReplayStep` reduces the actions to four effects; two
  lemmas on such runs (append, drop a prefix) do the rest.
- `RecordNotOrphaned`: with `KvMayFail = FALSE`, `NoOrphanRecord` needs
  `UnlistedIsFresh` (before the route has recorded the session, no `terminate()`
  has begun and a connected object still has its meta).
- `AccountExact`: `BufferAccount`, for chunks of any length. Each of the effects of
  `ReplayStep` moves the account by the bytes it moves the buffer by; `SumNext` and
  `SumSplit` say what a sum gains and loses.
- `ListCorrect`, about `SessionRegistry` with any overlap of operations. `RegistryInv` follows
  each session by itself: as long as it is not raced it is in the list from its POST's put to
  its `terminate()`'s (`ListFollows`), and what any writer has read is stale about raced
  sessions only (`StaleOnlyOfRaced`), so that no put can disturb the others.

`ChannelFlow_proofs`:

- `TypeCorrect`: in particular neither window leaves 0..MaxU32.
- `FlowControl` and `PendingOnlyAtZero` from `FlowInv`, which adds that nothing
  is pending or sent while the channel is opening. `CutProperties`,
  `DataProperties` and `FlushProperties` say what `data()` and `flush_channel()`
  do to lengths.
- `WakeupNeverLost`: `NoLostWakeup` is not inductive. `WakeInv` adds that a
  stored permit means nobody is registered (else a `notify_one` could have
  been stored while a writer waits), that a writer about to look has bytes left
  (else it would look, take nothing and pass nothing on), and that left window
  is announced: someone is awake or the permit is stored.
- `EndsComeLast` and `BytesInOrder` both speak of `Accepted`, the data sent and
  pending together. `AcceptedStep` shows that a flush does not change it and that
  `data()` appends the message to it, which is where `PendingMeansNoWindow` is needed.
  `EndsAfterData` then adds `EofOnce` (while an end-of-file is in the queue none was
  handled, so no earlier one has to meet its count) and `EndInv` (a closed channel has
  nothing pending). `InOrder` needs `StreamInv`: positions of the writers exist, one per
  message of the queue, that lead from the accepted bytes through the messages to
  what each writer holds (`Chained`, `HandInv`), as long as the session still takes data
  for the channel; `RunAppended` is the step from one position to the next.

`UserAuth_proofs`:

- `ConversationIsOfOneUser`: `SameUser` follows from what each request leaves behind
  (`Ours`: a challenge is of the user in `auth_user`, an offer of the key it names).
- `AuthRefinement`: every step of client, server and caller is a step of `AuthService`
  or a stutter. It needs that no success is on its way or told before the decision
  (`Unheard`, `ToldAtTheEnd`); `ServerOutcome` reduces the server's handlers to
  refusing, granting, or deciding nothing.
- `RepliesReachTheirCall`: replies carry no name, so `RepliesAreOwn` rests on where the
  one call stands. `OwnInv` says it for every stage of a call: which one packet is under
  way in which queue, what the client waits for and what the server makes of it. It
  holds while no call has been dropped; `Says` sums up what any handler of the server
  answers (a verdict, the question of the method, or its end).

`OwnerAuth_proofs`:

- `NobodyLockedOut`: `CeremonyInv` follows a challenge from the options to the stored
  record: challenges differ, an unused one has no credential, an answer's counter is
  one the authenticator has reached, and so is that of every record read and about
  to be written back.
- `OneOwner`: two credentials are `Contested` if their registrations overlapped. While a page
  registers, an owner that is there already is contested with it (`RegistersFirst`), a record
  that was read is the owner's or contested with it (`ReadIsOwner`), and a cookie goes only to a
  browser with such a credential (`StoredIsOwner`, `CookieIsOwner`).
- `TrueLists`: in addition no two demo users are alike (`CookiesDiffer`), cookies and lists end in
  time (`DemoInv`), what is stored, cached or being saved is of one user (`OwnStored`,
  `OwnCached`, `OwnSaved`), and for an orderly user the page and the stored list differ by the
  one save under way (`InStep`) or not at all (`Settled`), which reloads, logouts, failures and
  expiring cookies must not disturb.
- `VerdictCorrect`, about `HostKeys` with any overlap: attempts whose handshakes run in an isolate
  at the same time have met (`Acquainted`), and the thread-locals hold what one of those met
  has set or left there (`AttemptInv`).
- `StoredKeysApproved`, about `HostKeys`: `KnownIsApproved` is about the stored document
  only; routes hold copies of it for a long time, so `ApprovedInv` says of every copy
  that may still be written back that the user has agreed to all of it.

`Agent_proofs`:

- `KeysLiveTheirTime`: `Lifetimes` with `TimersAreOwn`: a timer whose addition is the one
  that stored the key belongs to a key with a lifetime, so that any other timer that removes the
  key carries the time of another addition.
- `OutcomesAreTrue`: `TalkInv` says where the one request of a connection in step is:
  on its way, being served, answered, or nowhere; the answer then names what was done.

`KeyExchange_proofs`:

- `HostKeyBeforeData` holds for every setup, guesses and timers included. `HostKeyInv`
  adds that an unaccepted client reads in the clear and that nothing comes to it in
  the clear that it would answer.
- `EveryPacketOpens`, `EveryMessageExpected`, `SidesInStep` under `NoGuesses`
  (russh never guesses), with timers in every exchange. None of the three properties is inductive: they say nothing of
  the packets between the sides. `StepInv` does. A *position* counts what a
  side has written: NEWKEYS, messages of the exchange after it, the sequence number.
  `Run` says that a line of packets leads from one position to another, each packet
  allowed where it stands and sealed with the key and number of its position, and
  `Line` that what is on its way to a side leads from what it has read to what the
  other has written, both given by the local state alone. A side that is `late` has written
  past the point where it should have had its new keys; `Tails` says that the first such packet
  carries the old ones, so that the other side stops there. So whatever a
  side reads next is what its state waits for, sealed with the key it holds;
  crossing KEXINITs need no case of their own. `SameNames` shows that the two
  `read_kex`, which search different lists in different orders, return the same
  names, and `RunCounts` that a line ends further on only if a NEWKEYS is in it.

`GlobalRequests_proofs`:

- `RepliesAreMatched`: `RepliesMatched` speaks of a queue and of a reply that has
  arrived; what makes it true is on the line between. `LineInv` says that each call and
  each keepalive is in one place only. `MatchInv` says, where both sides count the same
  requests, that the entries of `open_global_requests` are, in order, those of the
  replies on the line followed by those of the requests on the line (`QueueFits`), and
  that each reply is the right one for the entry it will meet. The two sides'
  steps then are: append a request, turn a request into a reply, take a reply off.
- `NoPeerGivenUp`: `NoFalseTimeout` with `SilenceSeen` (a side that counts silence has a
  keepalive or an answer on the line) and `EndSeen` (the end of a session that has ended
  is still to be read), for every `keepalive_max`.

`ChannelTable_proofs`: `NoSurprise`, `Routing`, `WindowsMatch` and `OneReplyEach` follow from
one invariant, `Rule`. The four properties need each other's parts: a window is right only
if a message finds its own channel, and a message finds it only if ids are not given out
twice. It is stated about the *line* to a side, the packets on the connection together with
those that the other session holds back while it waits on a full queue (`Line`), and says

- `CoreInv`: how many ids a side has given out (`CountInv`) and to which conversation each
  belongs, in both tables (`OwnInv`, `PeerInv`); that every message on a line
  carries the id of its conversation, an opening comes first (`LineInv`, `FirstInv`), and
  the answer to an open call that was read is on its way (`AnswerComes`);
- `WindowInv`: a side's `swin` is the sum of what the other may still send, the data on
  the line and the adjustments on the way back (`Flow`), and never exceeds the window;
- `AppInv`: what the applications ask for is about channels that were confirmed
  (`Settled`), which is the assertion of `Encrypted::data`;
- `PendInv`: pending and waiting data never exceed what was written;
- `ReplyInv`: requests counted, on the line, and answered add up.

Nearly every handler reads one message about one conversation, changes that conversation's
entry and answers on it. `Works` and `Worked` say so once, `Accounts` what the step did to
windows and pending data, and each part of `Rule` is shown to survive any such step
(`WorkCore`, `WorkWindow`, ...); a handler's own proof then only shows that it is one. The
steps that give a conversation its id (`EnterStep`) and the applications' (`AppStep`) are the
other two kinds. The assumption that there are more ids than open calls (2^32 of them in
the code) is what keeps `new_channel_id` from reusing one.

Model-checked only: `LateReplies`, the part of `ReplyForEach` about Handlers that leave their
answers to the application; liveness (`StoredEventuallyDeleted`, `Delivered`, `ExchangeEnds`,
`CallReturns`, `ChannelsSettle`, `NobodyWaits`, `Agent!CallsReturn`) is outside the
prover's reach. The guesses that the key exchange's run covers are outside
`NoGuesses`. Every other safety invariant of a run is stated by a theorem.

## Not modelled, and plan

Left out for good: ciphers, MACs and key formats and `russh-cryptovec` (computation
and memory behind a value interface, no protocol state); HTML, styling and terminal
rendering; build files. Inside modelled parts: compression, the `none` key exchange,
the delays before a rejection, the text of prompts and messages.

Next, in this order:

1. Proofs: the key exchange with guesses.
2. `PacketFraming`: identification line, length and padding bounds, partial reads.
3. `TerminalClient` and `WsProxy`: reattach in the browser; relay and half-close;
   `JsCallbackTransport` with its end of file under `GlobalRequests`' client loop.
4. `SessionRoutes`: the POST route runs through `known_hosts` and the session list
   in one request, so `HostKeys` and `SessionRegistry` become one module; and
   `SshSessionDO` is shown to implement the object it assumes ("up, then
   terminated") by refinement.
