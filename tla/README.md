# A TLA+ verification project for afb-daemon

afb-daemon (app-framework-binder) is a daemon that gives applications access
to the services of *bindings*: shared objects whose *verbs* are called over
HTTP, websockets or D-Bus, from other bindings (subcalls) and from services.
This directory holds TLA+ models of its core, the TLC configurations that check
them on small instances, and proofs checked by TLAPS. All paths below are
relative to the directory that holds `src/`; `file.c:n` without a path is in
`src/src/`.

## 1. Inventory

| Component (source) | State it keeps | Operations | What makes it correct |
|---|---|---|---|
| Thread pool (`afb-thread.c`) | queue `first_job`, flags `blocked`, counters `allowed started running remains`, flags `stop ended` of the threads, a mutex and a condition | submit, run, end of job, init, terminate | accepted requests are run or cancelled, in order inside a binding; no place, wake-up or request is lost; termination ends |
| Signal guard (`afb-sig-handler.c`) | a jump buffer per thread | run guarded, interrupt | one answer per request, the thread survives |
| Events (`afb-evt.c`) | lists of events, of listeners, watches linked in two lists, a counter of ids | create, drop, push, broadcast, watch, unwatch, listener create and unref | no link to freed memory; unique ids; a remote client knows exactly its events |
| Sessions (`session.c`) | array of sessions: uuid, token, LOA, expiration, references, values, cookies | get, create, close, unref, clean up, token check and renewal, values | freed exactly once, when closed and unused; unique uuids; no expired session given |
| Contexts (`afb-context.c`) | flags of a request on its session | connect, check, refresh, change LOA, close, disconnect | only a valid token gives rights; what a verb asks for reaches the session and the client |
| Loaded bindings (`afb-api-so.c`) | list of bindings and their verbs | check of a verb's session flags, call | flags enforced in order |
| Subcalls (`afb-subcall.c`) | a copied context, the request it belongs to | call, reply, unref | no more rights than the request, same effects |
| Apis (`afb-apis.c`) | sorted table of apis | add, call, start | dispatch to the right api |
| HTTP (`afb-hreq.c`, `afb-hsrv.c`, `afb-hswitch.c`) | requests, suspended connections, handlers | accept, post data, reply, suspend and resume, end | one reply, a suspended connection is resumed, everything released |
| Websocket clients (`afb-ws-json1.c`, `afb-websock.c`) | connections, with their session and their listener | upgrade, call, reply, event, hangup | alive until the last call ends, rights of the session |
| Websocket protocol (`websock.c`, `afb-ws.c`, `afb-wsj1.c`) | state of frame, message being assembled, pending calls | receive, send, call, reply, close | frames assembled in order, replies paired with calls |
| Remote apis (`afb-api-ws.c`, `afb-api-dbus.c`) | memos of pending calls, known events, clients | call, reply, event create/push/remove, hangup | each call answered once, events known exactly |
| Services (`afb-svc.c`) | a session, a listener | start, call, event | balanced references |
| Hooks (`afb-hook.c`) | list of hooks, traced requests | install, trace, remove | transparent for the requests |
| Localised files (`locale-root.c`) | tree of containers, cache | create, search | best locale chosen |
| Others (`main.c`, `afb-common.c`, `verbose.c`, `afb-msg-json.c`, clients, `bindings/`) | - | start-up, logs, text of messages, programs | input and output |

Interactions. The main thread runs the event loop of systemd: HTTP, websocket
and D-Bus handlers connect a *context* to a *session*, `afb_apis_call` finds
the api, `call_check` compares the flags of the verb with the context, and
`afb_thread_call` queues the callback for a thread of the pool, where the
signal guard runs it. The callback answers through the interface of its
request, makes subcalls (which come back to `afb_apis_call` with a copied
context), subscribes the client's listener to events, stores values in the
session. When the last reference on the request goes, its context is
disconnected, which applies to the session what was asked for on the way.

What is hard: the pool is shared by the main thread and the callbacks, which
submit too; a callback is cut by `longjmp`; several requests share a session
and each one applies its changes late; the last of several holders frees;
watches live in two lists; subcalls act on a copy; counters wrap; a link is
lost between a call and its reply, or a server restarts under its clients;
bytes come in pieces of any size; a worker replies while the main loop decides
to suspend the connection; a cached search is evicted while it is used.
`hazards` in `PROJECT.json` lists these, each at its line.

## 2. Modules

| Module | Models | Used by |
|---|---|---|
| `RequestPool` | abstract: what the pool promises to those who submit | `AfbThread` (`Pool == INSTANCE RequestPool`) |
| `AfbThread` | `afb-thread.c` with the guard of `afb-sig-handler.c` | `MCAfbThread`, `AfbThreadProofs` |
| `AfbEvt` | `afb-evt.c` | `MCAfbEvt`, `AfbEvtProofs` |
| `Session` | the store of `session.c`, operations as functions of the store | `AfbContext`, `Services` |
| `AfbContext` | `afb-context.c` and its callers: HTTP requests, websockets, verbs, subcalls | `MCAfbContext`, `SessionProofs` |
| `Hook` | `afb-hook.c`: proxies of traced requests, as functions | `Services` |
| `Services` | start up (`main.c`, `afb-api-so.c`, `afb-apis.c`), services (`afb-svc.c`), with `Session` and `Hook` | `MCServices`, `SessionProofs` |
| `ApiWs` | `afb-api-ws.c`: both ends of an api over a websocket | `MCApiWs`, `ApiWsProofs` |
| `ApiDbus` | `afb-api-dbus.c`: both ends of an api over D-Bus | `MCApiDbus`, `ApiDbusProofs` |
| `Websock` | `websock.c`, `afb-ws.c`: frames and messages | `MCWebsock`, `WebsockProofs` |
| `Wsj1` | `afb-wsj1.c`, `afb-ws-json1.c`: calls, replies, events of websocket clients | `MCWsj1`, `Wsj1Proofs` |
| `Http` | `afb-hsrv.c`, `afb-hreq.c`: connections between the threads | `MCHttp`, `HttpProofs` |
| `LocaleRoot` | `locale-root.c`, as functions | `HRoute` |
| `HreqData` | arguments and posted data of `afb-hreq.c`, as functions | `HRoute` |
| `HRoute` | handlers, aliases, files, posts and upgrades: `afb-hsrv.c`, `afb-hswitch.c`, `afb-hreq.c`, `afb-websock.c` | `MCHRoute` |
| `TicTacToe` | `bindings/samples/tic-tac-toe.c` | `MCTicTacToe`, `SessionProofs` |
| `MC...` | the instances for TLC | the runs |
| `...Proofs` | theorems | TLAPS |

Definitions whose name starts with `Mut` are deliberately wrong variants of the
definition that follows them. They are used by nothing: putting one in the
place of the right definition must break the property `PROJECT.json` names.

### AfbThread

Every section under the mutex is one step, and so is `pthread_cond_signal`,
which comes after the unlock (`afb-thread.c:303`). `tpc[t]` says where a
thread is: `loop` (about to test `stop`; it may hold the mutex since the end of
its last job), `wait`, `callback`, `call` (inside `afb_thread_call`, the mutex
held), `signal`, `relock` (after the callback, before `pthread_mutex_lock` at
line 229), `ended`, `joined`. `mpc` is the main thread. `mutex` is only needed
between steps. Jobs are requests submitted once; `Group[j]` is the binding.
`refs` and `replies` record the references and answers of each request.

| Action | Code |
|---|---|
| `afb_thread_init` | 315-337, creation failures included; `main.c` exits on failure |
| `MainCall`, `WorkerCallLock`/`WorkerCallBody` (`Enqueue`, `Refuse`) | `afb_thread_call` up to the unlock, `start_one_thread`, `job_add` |
| `MainSignal`, `WorkerSignal` | line 303 |
| `LoopRun`, `LoopWait`, `LoopStop` | `thread_main_loop`, `job_get`, the "sad situation" |
| `CallbackReply`, `CallbackReturn`, `CallbackSignal` | the callback under `afb_sig_req` |
| `JobEnd` | lines 229-233, `job_unblock` |
| `Terminate...` | `afb_thread_terminate` |
| `SpuriousWakeup` | POSIX lets `pthread_cond_wait` return at any time |

`SignalInCall` says whether a signal may strike inside `afb_thread_call`. It is
FALSE in the run `thread`, because the run `thread_signal` shows that
the pool is then lost. The safety theorems hold for both values.
`afb_thread_terminate` is called by the test of the pool, not by `main.c`.

Left out: failures of `malloc` and `calloc` (the request is refused before the
mutex is touched), the arming of the timers (a signal may come at any moment
of a callback), the field `works` (never read).

### AfbEvt

Events and listeners are addresses, reused after a free. A watch is a pair in
`by_event` and in `by_listener`, the two lists, which the code maintains
separately and the model too. `known` is what a listener with `add` and
`remove` callbacks (an exported api) has been told. The ids are bounded by
`MaxId`, with the wrap of `afb-evt.c:251` as compiled: the test of the sign of
the incremented counter. `last` is the result of the last push or broadcast: the
callbacks called and the count returned. Operations are called one at a time.

### Session and AfbContext

`Session` gives the functions of `session.c` on a store (a function from slots
to sessions), because the handlers chain several of them. A token is a number,
0 the empty token that accepts everything; `Empty` is the uuid of closed
sessions; `LongUuid` does not fit; `Never` the greatest time.

`AfbContext` has one record per context, with its phase: `free`, `running` (in
the callback), `replied`, `answered` (answered without a callback: a verb
refused, or a websocket upgrade). `root` is the request that a context belongs
to, `parent` the context a subcall has copied. `HttpRequest` and
`WebsocketCall` connect, check the verb and either run it or refuse it;
`WebsocketSwitch` is the upgrade; `RequestReply` and `HttpSend` answer, with and
without token; `SetLOA`, `SessionClose`, `ContextSet` and `Subcall` are what a
callback may do, after its reply too, as long as it holds the request;
`RequestEnd` is the last unref, with `afb_context_disconnect`.

Left out: cookies (they are in `ApiDbus`), the fields never read
(`access`, `count`, `closed`, `loa_changed`), failures of `malloc`, and
interleavings inside one of these operations: the store's mutex covers search,
insertion and removal only, see the hazards.

### Hook and Services

`Services` follows `main`: the bindings of a directory and of its
subdirectory, in any order, each with one of the outcomes of the loader
(`added`, `skipped`, `refused`); the remote apis of the options; the services
of the registered apis, one after another, each with the session it shares or
creates; the HTTP server. An error that `main.c` does not accept leads to
`exited`. Then services call verbs (`svc_call`), subscribe, close their
session; clients connect and leave; time passes. A client asks no uuid, one that
does not fit, the empty one, or any other but those of the open sessions of the
services (`AskedUuids`): these are drawn by `uuid_generate`, once, and sent to
nobody. `ctxStoreSearch` compares closed sessions too, so that the empty uuid
may give a client the closed session of a service: it shares it until it leaves.
 A call that hooks trace goes
through a proxy (`Hook`), whose count is modelled with its users: the job of
the verb, a reference it holds, its subcall, and the reply to come. `Interrupt`
is the signal guard, which fails a request already answered. When that takes the
last reference of a request still used, `phase` becomes `undefined` and the
behaviour ends.

### ApiWs and ApiDbus

Both have the two ends and the messages under way. The importing end keeps a
*memo* per call and the events it was told of, the exporting end one structure
per client, the requests and the watches. A message is read by one step.
`Lose` cuts the link with any end of what was sent. In `ApiWs` ids of calls are
modulo `IdMod` and skip those in use. In `ApiDbus` the listener of a client is
kept in a cookie of each session, a session may be closed while it has
requests, and `Crash` stops the server, which may come back; the bus (external)
answers the calls it had. `dbus_req_reply_failed` is the failure of
`sd_bus_reply_method_return`: nothing is sent. The bindings of the server are the environment: they
reply once, subscribe before they reply, and unsubscribe what they subscribed.
In `ApiDbus` a request whose listener was freed by the close of its session
(`Stale`) subscribes nothing more: in the code it would use freed memory.

### Websock and Wsj1

`Websock` sends frames as cells, one per byte, each with its place in its
frame; a read of the header takes any number of the bytes asked, a read of the
payload any number of what is left, and the automaton of `websock_dispatch`
(`INIT`, `START`, `LENGTH`, `DATA`) is followed literally, the turn of the mask
included. `received` is what
the user gets, `sent` what the peer sent. A `writev` may take the start of a
frame only, and the payload of a ping may not be there when `websock_drop`
reads it: `faults` remembers that it happened. After it, reads may leave the
bounds of the frames (`pc = "astray"`); an empty message writes through a null
pointer (`pc = "crashed"`).

`Wsj1` is a program that calls, the connection, and the service of the binder:
the references on `wsj1`, `aws`, the message and the websocket are counted as
the code does, hangup and replies in any order. The program may send what the
service does not understand, or an event, for which the service has no callback
(`wsj1_on_text_event`): the process ends.

### Http

Threads are the main loop and the workers. Each access to a field shared
without a lock (`in_run`, `suspended`, `replied`, the count of the request) is
a step; a decrement is a read and a write. MHD (external) is a set of
connections that are open, suspended, resumed. Two threads inside MHD is a
`Clash`, from which nothing is said. A connection may be refused without any
request (`access_handler_refuse`), which `end_handler` does not expect
(`end_handler_null`): in the main loop the program ends, in a worker the signal
guard stops the verb. A signal may stop a verb at any of its steps (`Abort`),
between the response and its mark and inside `run_micro_httpd` too, with
`in_run` left as it is; the guard then replies an error (`Stop`), and `cut`
remembers where it was.

### LocaleRoot, HreqData and HRoute

`LocaleRoot` and `HreqData` are functions on a root and on the list of data.
`HRoute` has one request at a time, as the main loop has for these handlers:
the handlers sorted by `new_handler`, the aliases, the upgrade to a websocket,
the body received part by part (`PostPart`), its end, a session that fails to be
given (`Error(500)`), and the files served from
the roots with the search cached for the languages. `rootdir_open` and
`rootdir_open_locale` are the files that bindings open.

### TicTacToe

The boards, with their players and their waiting requests, as the context of
sessions; moves of a client, of the computer (with the search of the best
move), undo, new, join, level, wait, and the end of a session. A verb is one
step.

## 3. Runs

All runs finish within three minutes with two workers.

| Run | Instance | Checks |
|---|---|---|
| `thread` | 4 requests (3 of one binding, 1 without group), 1 to 2 threads, 2 places | `NoSadSituation`, `RemainsIsFreePlaces`, `NoLostWakeup`, `CancelIsAlone`, `NothingLeftBehind`, `StartsInGroupOrder`, `EveryJobEnds`, `TerminateReturns`, `ImplementsPool` |
| `thread_signal` | 3 requests, signals in submissions | `InterruptedThreadComesBack`: **violated** |
| `evt` | 2 events, 3 listeners, 4 ids | `WatchesAreLinkedTwice`, `RemoteKnowsItsEvents` |
| `context` | 2 contexts, 1 websocket, 1 session, timeout 1, clock 0..2, verbs of every flag | `RefcountIsHolders`, `ClosedSessionsAreHeld`, `OnlyValidatedChange` |
| `services` | 3 libraries, 1 remote api, 2 hooks, 1 call, 1 client, 2 slots | `ServicesKeepTheirSession`, `TracedRequestsAreHeld`, `FoundSessionIsAlive` |
| `apiws` | 2 calls of 2 clients, 1 event, 3 ids | `UsersAreHeld`, `RepliesMatch`, `EventsAreMirrored`, `CallsAreAnswered` |
| `dbus` | 3 calls of 2 sessions, one whose reply may fail, 1 event, 1 crash | `DestinationsAreHeld`, `EventsAreMirrored`, `CallsAreAnswered` |
| `websock` | up to 4 frames of 16 kinds | `SentIsReceived`, `NeverAstray`, `ClosedForAReason` |
| `wsj1` | 2 calls, 2 ids, a slow verb | `UsersAreHeld`, `RepliesMatch`, `CallsAreReplied` |
| `http` | 2 connections, 2 workers and the main loop, a signal for each verb | `RequestsAreHeld`, `ResumesTheSuspended`, `OneResponse`, `ReplyIsResumed` |
| `files` | 4 roots, 6 folders of languages, 2 searches cached, 18 urls, bodies of up to 3 parts | `SearchesAreCounted`, `ServedForItsLanguages`, `RoutedByPrefix`, `ArgumentsAreComplete` |
| `tictactoe` | 2 sessions, 3 boards, 1 waiting request, 3 cells and a bad one played by clients | `BoardsAreCounted`, `BoardIsItsHistory` |

Type invariants are conjuncts of one property of their module (`TypeOK` of the
module is in `RefcountIsHolders`, `UsersAreHeld`, and so on).

Why the bounds are enough. In `thread` three jobs of one group make a chain of
blocked jobs, the fourth overtakes it, the queue can be full and empty and
the second thread is started, or fails to be, on demand. The bounds of the
binder are 3 threads, 1 started, 20 places (`main.c:682`); the safety
properties are proved for any. In the events, 4 ids restarting at 3 make the
counter wrap after four creations with an event still alive; the three
listeners are the three interfaces of the binder: with `add` and `remove`
(`afb-api-ws.c`), with `push` and `broadcast` (websocket clients), with
`broadcast` only (D-Bus). In the contexts, two contexts are two concurrent
requests of a session or a request and its subcall; one slot makes the store
full; `MaxToken` lets one renewal happen; with a timeout of 1 and a clock to 2 a
session expires while held. In `services` two libraries have the same name, in
and out of the subdirectory; the shared session and one of a client fill the
store. In `apiws` two calls over three ids reuse an id while the other call
waits. In `dbus` one reply that may fail (`Failing`) leaves the other calls to be
answered around it. `MaxDown` bounds the messages queued by events in `apiws`, `dbus` and
`wsj1`: replies and removals are never bounded. In `websock` four frames make a
message of fragments with a ping between them, and the lengths are around the
three limits of the format, scaled down. In `files` two cached searches are
evicted by the third list of languages, a folder's name is the beginning of
another's, and the bindings have a folder of the default language that two of
the lists do not name. In `http` each verb is stopped once at most, by the timer
that is armed once.

Deadlock is not checked where the system stops: a terminated pool, a binder
that failed to start, a closed connection (`AfbThread`, `Services`, `Websock`,
`Wsj1`, `Http`). It is checked in the others.

Fairness. `AfbThread`: weak fairness per thread, because the scheduler runs
every thread that can run; a callback is assumed to return, or to be cut, and
the main thread to go on with what it began. Nothing is assumed of new
submissions, answers, signals, spurious wake-ups or the call of
`afb_thread_terminate`. Weak fairness is enough for the mutex because only
finitely many jobs compete for it. The timer counts CPU time
(`afb-thread.c:96`): it does not cut a callback that sleeps, so that the return
of callbacks is an assumption on the bindings. `ApiWs`, `ApiDbus` and `Wsj1`:
the event loops read what has come, and the bindings reply to the requests
given to them; nothing is assumed of calls, events, losses or crashes.

### Where the code and its documents disagree

The models follow the code. `thread_signal` is a run: its property says what
the document says, and TLC finds it violated. For items 2 to 14 the module has
a definition that says what the document says, named below, which TLC refutes on
the instance of the module when it is put in its cfg. It is in no cfg: the run
of the module checks what does hold, with that case as the only exception
(`cut`, `unsent`, `faults`, `Empty`, `RefusedConn`, and so on).

1. `thread_signal`: cut inside `afb_thread_call`, a callback leaves the mutex
   locked (`afb-sig-handler.c:49`); its thread waits for itself at
   `afb-thread.c:229`, then all do. `README.md:94`: "API plugins can be
   protected from timeout and other errors."
2. `Http!OnceAndOnlyOnce`: a second answer is given when a signal cuts a verb
   that has answered (`afb-sig-handler.c:86`; `doc/afb-bindings-writing.md:463`:
   "once and only once"). HTTP requests ignore it, except between the response
   and its mark (`afb-hreq.c:180`, 183); a traced request loses a reference (the
   exception of `TracedRequestsAreHeld`).
3. `AfbEvt!UnsubscribeIsEffective`: subscriptions are counted, one
   unsubscription of two does nothing (`afb-evt.c:432`;
   `doc/afb-events-guide.md:126`).
4. `AfbEvt!ResultIsReceivers`: a push counts the watches that are not active in
   its result (`afb-evt.c:167`), which its comment (line 151) and
   `afb-event-itf.h:79` call the listeners that received the event.
5. `Services!FoundIsNotTooOld`: an empty uuid finds a closed session that is
   still used, of a service too, and too old (`session.c:297`; comment of line
   295: "not too old").
6. `ApiDbus!RepliesAreSent`: a reply that could not be sent leaves its caller
   waiting (`afb-api-dbus.c:821`; `afb-req-itf.h:146`).
7. `Websock!SuccessIsReceived`: a frame that `writev` takes in part is a success
   (`websock.c:153`; `afb-ws.c:247`).
8. `Websock!HeadersAreHeaders`: the payload of a ping that is not there with its
   header is not waited for, and read as a header (`websock.c:446`; line 353).
9. `Websock!AnySizeIsRead`: an empty message has no buffer, and is ended by a
   write in it (`afb-ws.c:465`; line 452).
10. `Wsj1!EventsAreCalledBack`: an event received by the service of the binder
    calls NULL (`afb-wsj1.c:320`, `afb-ws-json1.c:90`; `afb-wsj1.h:45`).
11. `Http!EndsHaveARequest`: a connection refused without a request is ended as
    if it had one (`afb-hsrv.c:120`, 127, 233; comment of line 226).
12. `Http!ReplyIsResumed`, without its last disjunct: a reply that comes between
    the test of `replied` and the mark of the suspension (`afb-hsrv.c:209`-211,
    `afb-hreq.c:184`) resumes nothing: the connection is suspended for ever with
    its response.
13. `HRoute!DefaultIsFallback`: the default language is a fallback only if a
    language asked has a folder (`locale-root.c:609`; comment of line 571).
14. `HRoute!RedirectsToThePage`: the page `/opa` is redirected to itself
    (`afb-hswitch.c:70`; comment of line 66).

No definition is about the others, met while modelling:

15. A token renewed at the end of a request is not sent (`afb-context.c:70`;
    `doc/afb-daemon-vocabulary.md:69`).
16. A value stored in a closed session is never released (`session.c:322`;
    `doc/afb-bindings-writing.md:442`).
17. Calls without token stay valid on a websocket whose session is closed
    (`afb-ws-json1.c:207`; `doc/afb-application-writing.md:152`).
18. `AFB_SESSION_CLOSE` has no effect through a subcall (`afb-subcall.c:188`;
    `doc/afb-bindings-writing.md:837`).
19. A traced request answered by `send` is never released (`afb-hook.c:365`).
20. A request whose session is closed keeps a freed listener
    (`afb-api-dbus.c:775`).
21. A worker that replies between the test of `in_run` and its reset is not
    followed by a run of MHD (`afb-hsrv.c:240`): the reply waits for the next
    event on the server.
22. `tic-tac-toe.c:192` compares with the letter O what `color` plays as a
    zero: the computer does not see the wins of the second player.

Callers may wait for ever in three more places that no document rules out, which
the liveness properties exempt: the memos of a lost link (`afb-api-ws.c:496`),
a call dropped for lack of memory (`afb-api-ws.c:984`) and the pending calls of
a websocket that hangs up (`afb-wsj1.c:130`).

## 4. Proofs

The theorems hold for every value of the constants that the `ASSUME`s of the
modules allow; TLC evaluates those on its instances. Each component has an
inductive invariant, `IInv` (`ServicesIInv` in `Services`), in its module, that
TLC checked before it was proved. The proofs have one lemma per action and one step per conjunct that the
action can disturb.

| Module | Theorem | States |
|---|---|---|
| `AfbThreadProofs` | `TypeCorrect` | `TypeOK` |
| | `SadNeverHappens`, `PlacesAreKept`, `CancellationIsAlone`, `NothingIsLeftBehind`, `GroupOrder` | `NoSadSituation`, `RemainsIsFreePlaces`, `CancelIsAlone`, `NothingLeftBehind`, `StartsInGroupOrder` |
| | `RefinesPool` | `Pool!PoolSafety`, the safety of `ImplementsPool` |
| | `WakeupsAreNotLost` | `NoLostWakeup`, if `~SignalInCall` |
| `AfbEvtProofs` | `LinkedTwice`, `PushNeverAsserts`, `RemoteKnows` | `WatchesAreLinkedTwice`, `WatchersHavePush`, `RemoteKnowsItsEvents` |
| `SessionProofs` | `SessionsAreCounted`, `ClosedAreHeld`, `ValidatedChange` | `RefcountIsHolders`, `ClosedSessionsAreHeld`, `OnlyValidatedChange`, of `AfbContext` |
| | `ServicesKeepSessions`, `TracedAreHeld`, `FoundAreAlive` | `ServicesKeepTheirSession`, `TracedRequestsAreHeld`, `FoundSessionIsAlive`, of `Services` |
| | `BoardsCounted`, `BoardsAreHistories` | `BoardsAreCounted`, `BoardIsItsHistory`, of `TicTacToe` |
| `HttpProofs` | `RequestsHeld`, `ResumesSuspended`, `OneResponseEach`, `RepliesResumed` | `RequestsAreHeld`, `ResumesTheSuspended`, `OneResponse`, `ReplyIsResumed` |
| `Wsj1Proofs` | `UsersHeld`, `RepliesAreMatched` | `UsersAreHeld`, `RepliesMatch` |
| `ApiWsProofs` | `UsersHeld`, `RepliesAreMatched`, `EventsMirrored` | `UsersAreHeld`, `RepliesMatch`, `EventsAreMirrored` |
| `ApiDbusProofs` | `DestinationsHeld`, `EventsMirrored` | `DestinationsAreHeld`, `EventsAreMirrored` |
| `WebsockProofs` | `MessagesAreReceived`, `ReadsStayOnFrames`, `ClosesForAReason` | `SentIsReceived`, `NeverAstray`, `ClosedForAReason` |

**The pool.** `IInv` of `AfbThread` is needed because none of the properties is
inductive:

- `PhaseInv`: what the phase of the main thread says of counters and threads;
- `MutexInv`: who may hold the mutex between two steps;
- `PlaceInv`: each request is in one place (submitted, queued, run);
- `LifeInv`: references and answers follow the life of the request;
- `CountInv`: `running` and `started` are cardinalities of sets of threads;
- `RemainsIsFreePlaces`;
- `GroupInv`: of the queued jobs of a group only the first may be unblocked,
  and when it is blocked a thread runs a job of the group. This is why the sad
  situation does not happen: with every queued job blocked, the first has no
  job of its group before it, so a thread runs, so `running` is not 0.

`GroupOrder` is an action property: the job taken is unblocked, hence the first
of its group. `RefinesPool` maps each step to a step of `RequestPool` or to a
stutter: a submission, a start, an end, a refusal, a cancellation are seen, the
waits, signals and locks are not. `WakeupsAreNotLost` follows the number of jobs
that may run against the threads about to test the queue and the signals about
to be sent: the thread that ends a job, and unblocks at most one other, goes
back to the queue itself. A signal that cuts a submission takes away the wake-up
that was to follow, hence the hypothesis.

**Events.** Beside the two lists, `IInv` says that the ids below the counter are
the only ones given until it wraps (`IdsInv`), that what is subscribed is linked
(`ActiveInv`) and what a remote client was told (`KnownInv`). The search of a
free id finds one because there are fewer events than ids.

**Sessions and contexts.** `Sound(store, Holders)` (module `Session`) says that
each session is counted by its holders, the requests and the websockets. Every
function of `session.c` has its lemma: it keeps a store sound, for holders that
it changes by one at most. Subcalls hold no session: `RootInv` and `ParentInv`
say that the calls of a request form a tree, whose root holds the session and
outlives them; that no chain of calls bites its tail is what makes a request
without subcall exist when contexts end. `ValidatedInv` gives the rights of a
subcall back to its root.

**Services.** The services are the other users of `session.c`, hence the same
module of proofs: `Sound(store, AllUsers)`, where the users of a session are the
common session of `afb-svc.c`, the services, their calls and the clients, and
the same lemmas about the store. Three facts have to be carried beside it.
`UniqueUuids`: an open session is the only one of its uuid, which every function
of `session.c` keeps because a uuid that is drawn is taken to be one that no
session has (`uuid_generate`, called once, `session.c:233`); a client that gives
any uuid but one of a service is then never given the open session of a service.
The empty uuid may give it the closed one, which it holds with the service:
`ServicesInv` says that a client has the slot of a service only if the session
is closed, and counts it with the users. `CallInv`: a traced request has as many
references on its proxy as users and replies to come, an untraced one is used
by somebody, and the session of a call is held until the call ends; a request
answered twice is exempted (`Twice`), and `TwiceInv` says that there is one
whenever a freed request may be used. `HooksInv`: a hook is referenced by the
proxies it observes. `NamesInv` is what the check of `afb_apis_add` keeps, along
every order of the scan and with every failure in it. `FoundAreAlive` is an
action property: it follows from `UniqueUuids` and from the clean up that comes
before the search; what the empty uuid gives is closed, since no session is open
with an empty uuid. TLC checked `ServicesIInv` on the instance of `services`, with
a shared session and without.

**HTTP.** `HandlerInv` (one thread at most inside a handler), `JobInv` (a
request has one job at most), `ReplyInv` (the response is counted, then marked,
unless a signal came between: `cut`), `SuspendInv` (what is marked suspended is
so until its worker resumes it) and `RefInv`: MHD and the job have a reference
each, and a count that was read before a decrement is the one of both as long as
both have theirs. That last part is why the decrement in two steps does not free
a request in use, and it survives signals, which only leave counts too high. A
connection without request is one that was refused (`RefusedConn`).
`RepliesResumed` is an action property: as long as no signal came, `MarkInv` says
that a suspended connection that nobody resumed is marked, or its mark is the
next step of the thread in its handler, so that the worker that finds no mark is
in that window.

**Links.** In `Wsj1` and `ApiWs` a call is in one place at most: under way,
served, or answered (`UpInv`, `ServedInv`, `DownInv`), there with the id it waits
for, and the calls that wait have different ids (`CallsInv`, `MemosInv`). That a
free id is found when the counter wraps is the pigeonhole principle: there are
no more calls than ids. The references are cardinalities of the requests in use
(`CountsInv`). In `ApiDbus` the destination and the listener are counted by the
cookies, a request whose session was not closed since its call still has its
cookie (`ListenerInv`), and a watch counts the sessions subscribed, of which one
has a cookie (`WatchInv`): the close of a session takes the watches away with
the last cookie.

**Mirrored events.** `EventsAreMirrored` compares the two ends of a link when
nothing is under way between them. What is inductive is `EventsInv`, stated in
the proof modules: for each name there is a sequence of views (the id of the
event, the subscriptions of each client), one before and after each message of
the queue. The first view is what the client knows, each message leads from its
view to the next, in a way that the client can apply, and the last view is what
the server has (`MirrorInv`). A handler of the server then adds the view of what
it sends, the reading of a message takes the first view away, and nobody has to
know what the rest of the queue holds. `SubsInv` (a message about a subscription
comes before the answer to its request) gives the call that the message is
about, `LinkInv` says that before the server accepts the link nothing is known
nor sent. In `ApiDbus`, where the calls have no msgid of their own, `AnswersInv`,
`CallsInv` and `RequestsInv` say that a call is under way, served, or answered
once. A crash of the server forgets the watches without a message, so its mirror
is stated until the first crash. TLC checked these invariants, with the views
computed by recursion along the queue, on the instances of the runs and on a
larger one of `ApiDbus` (two names, two ids, 6148109 states) before they were
proved.

**Websocket frames.** What is sent is compared with what the user gets frame by
frame, so `IInv` of `Websock` follows one frame, the last one sent, through the
automaton. `WireInv`: the bytes on the wire are the unread end of that frame,
each at its place, since the peer sends a frame when the former was read whole.
`HeaderInv`: what `websock_dispatch` has kept of the header (`lenhead`, `szhead`,
`length`) is what the state of the automaton says, and the mask is turned by the
number of payload bytes read so far modulo 4, wherever the reads were cut.
`MessageInv`: the bytes in the buffer of `afb-ws.c`, followed by the rest of the
frame, are the message that the sender has completed or is about to; the
fragments received follow the fragments sent, even with a ping between them.
`HandledInv` counts the pongs and the reasons to close over the frames handled.
All this is `ReadInv`, and `IInv` says it as long as
`faults` is empty: after a `writev` that takes a part of a frame the wire does
not hold the end of one frame, and a ping whose payload comes after its header
is left half on the wire. The three theorems say what holds until then, for
every behaviour of the code; what the documents say of the rest is not kept
(`SuccessIsReceived`, `HeadersAreHeaders`, section 3).

**Boards.** The two properties of `TicTacToe` are inductive together
(`TicTacToeInv`): the counts say which boards are in use, and the history is
what makes the next move good. The count of a board is a cardinality of
sessions, and a step changes the context of one of them (`PlayersMove`), so each
operation has to change the counts of the board left and of the one taken
(`KeptBoard`, `LeaveKeeps`). The cells after `n` moves are stated by the last
move on each cell (`After`) rather than by recursion, which lets `MovedGame` and
`UndoneGame` follow them without an induction. The computer plays a free cell
(`MoveFree`) whatever `score_position` computes: a game that is not full has one,
by the pigeonhole principle (`FreeCell`), and `get_random_move` stops at the
first one after the cell that rand gives (`RandomFree`).

Assumptions: the sets of requests, calls, contexts, websockets, workers,
sessions, clients, names and bindings are finite; a mark of absence (`NoJob`, `None`,
`NoSession`, `NoContext`, `NoBoard`) is not an element of the set it marks; counts are
positive and a start count is within the allowed one; interfaces are subsets of
the listeners; there are ids enough for what lives at one time: for the events
(31 bits in the code), for the boards (what `rand` gives), for the calls that wait (999999 in `afb-wsj1.c`, 32 bits
in `afb-api-ws.c`); the greatest length that `websock.c` accepts lies between
the limits of the two shorter formats of length (`Max7 < maxlength < Max16`: 125,
65000 and 65535 in the code).

Only model-checked:

- liveness and fairness, out of the prover's reach: `EveryJobEnds`,
  `TerminateReturns`, `CallsAreAnswered`, `CallsAreReplied`, and the liveness of
  `ImplementsPool`;
- the properties of `HRoute`: what they say is computed along paths, handlers
  and lists of languages, by folds and recursive definitions, about which these
  provers cannot reason by induction.

## 5. Plan

Done: the modules of section 2, with the proofs of section 4. Every safety
property of the runs is proved but those of `HRoute`.

Left: a finer grain for `session.c` and for the walks of `afb-evt.c`, with their
accesses without a lock (section 6), and the bindings over other services.

## 6. Not modelled

- `afb-msg-json.c`, `verbose.c`, `afb-common.c` but for the files of the
  bindings: text, logs, access to the event loops.
- The command line of `main.c`, the fork and the environment of its children.
- The encodings: fields of the messages of `afb-api-ws.c` and
  `afb-api-dbus.c`, texts of `afb-wsj1.c` (a message is well formed or bad),
  the digest of the handshake, HTTP headers, percent encoding of redirections.
- The client programs (`afb-client-demo.c`, `afb-ws-client.c`).
- The bindings over hardware or other services (`media`, `audio`, `radio`,
  `afb-dbus-binding.c`): they translate requests to libraries that are not in
  the repository; the other samples keep no state.
- What happens inside a walk of the lists of `afb-evt.c` or an operation of
  `session.c` when another thread changes them: the code has no lock there, and
  the models take these operations as atomic.
- The two halves of a change of a count without a lock in `afb-api-ws.c` (938,
  953, 1099, 1110), `afb-ws-json1.c` (170, 176, 242, 247) and `afb-wsj1.c` (118,
  123, 336, 341): the main loop and the threads of the jobs change them, `ApiWs`
  and `Wsj1` take each change as one step. `Http` has the decrements of
  `afb-hreq.c:311` in two steps.
- Failures of `malloc`, except where they leave a request in progress.
