# Verification of webrtc_snippets

TLA+ specifications, TLC model-checking runs and TLAPS proofs for the programs
of this repository that carry control logic of their own. Paths are relative
to the repository root; line numbers of every modelled definition are in
`PROJECT.json` under `map`.

## 1. Inventory

The repository is a collection of small programs about real-time
communication, beside an excerpt of the WebRTC sources under `webrtc_src`.
These parts have state and rules that are modelled or planned:

| part | source | state | operations | what is hard | what makes it correct |
|---|---|---|---|---|---|
| chat server | `text_chat/chat_server.cpp`, `chat_message.hpp` | participants and recent messages of the room; a socket, a write queue, at most one read and one write per session | accept, header read, body read, write done; join, leave, deliver | completions of several sessions interleave; a session fails in the middle of a broadcast, and its other operation completes later | one write at a time; every participant gets one gap-free window of the room's messages; a session that left stays out |
| chat client | `text_chat/chat_client.cpp` | write queue, socket, closures posted by the input thread | connect, write, read, close | input thread against I/O thread; close drops what is queued | messages leave in the order they were typed |
| test runner | `basic/src/test_runner.cpp` | a mutex, one child process, its pipe, the kept output | run, run_solution, run_command | two requests share a build directory; the time-out races the child's exit; six early returns | no child outlives its request; each request tests its own build; the verdict follows from the exit codes; every request is answered |
| practice web server | `basic/src/web_server.cpp` | none besides the runner | GET and POST routes | worker threads call the runner concurrently | unknown days are refused |
| practice page | `basic/web/app.js` | current exercise, tab, marks and their copy in localStorage, disabled buttons, requests under way | click a day, a tab, an action, the mark; answers; reload | answers come in any order while the user clicks on | all parts of the page are of one exercise; a refused mark leaves at most itself out of date; buttons come back |
| HTTP server | `signal_server/server.cpp`, `connection.cpp`, `connection_manager.cpp` | acceptor, set of connections, one operation per connection | accept, read, write, stop | completions that are queued when the stop handler runs | stop_all reaches all connections, none starts after it, `run()` returns |
| request parser | `signal_server/request_parser.cpp` | one of 20 states, the request so far | consume | input cut anywhere, folded header lines | accepts exactly the requests and keeps their fields |
| request handler | `signal_server/request_handler.cpp` | none | url_decode, handle_request | several encodings of one path | what is opened lies in doc_root |
| SIP grouping | `basic/exercises/03_sip_transaction/starter.cpp` | groups, order of first sight | find_transactions | ACK and CANCEL are judged by the groups made so far | groups are the transactions of the trace |
| peer connection server | `webrtc_src/examples/peerconnection/server/` | members with a queue and a waiting socket each; the sockets of the select loop | sign in, wait, message, sign out; select pass, close, time-out, accept, failing accept or select, /quit | containers changed inside loops over them; a response queued while the hanging get is away | no dangling waiting socket; every response delivered once, in order; peer lists converge |
| peer connection client | `webrtc_src/examples/peerconnection/client/peer_connection_client.cc`, calls of `conductor.cc` | two sockets, state, peers, a pending request | log in, send, hang up, sign out; connect, read and close callbacks, retry | callbacks of both sockets in any order; the hanging get must come back after every answer | a connected client always has a hanging get the server knows |
| transport feedback, receiver | `webrtc_src/modules/remote_bitrate_estimator/remote_estimator_proxy.cc`, `packet_arrival_map.cc` | arrival times, window start, mode | packet arrives, periodic feedback, feedback on request, mode | late and duplicate packets, wraps, a map at its limit | every packet that arrived is reported while the map has it |
| transport feedback, message | `webrtc_src/modules/rtp_rtcp/source/rtcp_packet/transport_feedback.cc` | symbols not in a chunk yet | build, parse | three chunk formats, deltas that do not fit, wraps of two clocks | what is parsed is what was built |
| transport feedback, sender | `webrtc_src/modules/congestion_controller/rtp/transport_feedback_adapter.cc`, `transport_feedback_demuxer.cc` | history of packets, bytes in flight per route, clock offset | packet added, sent notice, feedback, route | lost, duplicated, reordered feedback; notices after feedback | exact bytes in flight; one report of receipt; receive times that keep their distances |
| jitter buffer | `audio/jitter_buffer_example.cpp` | packets by sequence number | add, take | two threads without a lock, loss, reordering | playout in order |
| H.264 utilities | `video/MediaUtil.cpp` | fragments of a NAL unit | handle packet | lost fragments | only whole units come out |

Interactions: the page calls the web server, whose POST handlers call the test
runner; the runner's mutex serialises them. The HTTP server gives each chunk
it reads to the parser and a complete request to the handler. Chat clients
talk to the chat server over TCP. Peer connection clients sign in at their
server, exchange messages through it and learn of each other by its
notifications. The packets of a media sender are numbered by the packet router,
entered in the demuxer and the adapter, timed by the receiver's proxy and
reported back in feedback messages. The other parts are independent programs.

The full list of parts, with the reason for each one that is not modelled, is
under `components` in `PROJECT.json`; what is hard to test, line by line, is
under `hazards`.

## 2. Modules

| module | models | remarks |
|---|---|---|
| `OrderedBroadcast` | what a chat room promises | abstract: a log and, per reader, a window of it |
| `ChatServer` | the chat server | one action per completion handler; `ImplementsBroadcast` is its refinement of `OrderedBroadcast` |
| `ChatServerProofs` | | theorems about `ChatServer` |
| `TestRunner` | test runner and POST routes | the polling loop of `run_command` is split at every system call |
| `TestRunnerProofs` | | theorems about `TestRunner` |
| `HttpServer` | the HTTP server | what the parser says of a chunk is arbitrary |
| `HttpServerProofs` | | theorems about `HttpServer` |
| `RequestParser` | `consume` and `parse` | one character per step |
| `RequestGrammar` | | reference: what a request is, without a state machine |
| `RequestParserProofs` | | theorems about `RequestParser` |
| `RequestHandler` | `handle_request`, `url_decode` | one step per URI |
| `SipTransactions` | `find_transactions` | one message per step, reference definition on the whole trace |
| `SipTransactionsProofs` | | theorems about `SipTransactions` |
| `PracticePage` | `app.js` | every handler, split at its await |
| `PracticePageProofs` | | theorems about `PracticePage` |
| `PeerNet` | TCP connections of the peer connection example | external: backlog, segments, reset |
| `PeerChannel` | the peer connection server | one action per pass of the select loop |
| `PeerConnectionClient` | the clients | one action per callback and per call of the conductor |
| `PeerSignalling` | | composes the three above |
| `PeerSignallingProofs` | | theorems about the four modules above |
| `SequenceNumbers` | `IsNewer`, `Unwrapper` | operators |
| `FeedbackPacket` | the feedback message | operators: chunks, deltas, building and parsing |
| `PacketArrivalTimeMap` | the map of arrival times | operators on a record |
| `RemoteEstimatorProxy` | the receiver | uses the three above |
| `TransportFeedbackAdapter`, `TransportFeedbackDemuxer` | the sender | |
| `TransportFeedback` | | composes receiver, sender and a network |
| `TransportFeedbackProofs` | | theorems about the six modules above |
| `MC...` | | instances for TLC |

### State and actions against the code

**ChatServer.** `participants` and `recent_msgs` are the members of
`chat_room`, `write_msgs` that of `chat_session`. `reading[s]` and
`writing[s]` are the outstanding `async_read` and `async_write` with the
result a queued handler will get; `read_len` is `body_length_` after
`decode_header`. `OnHeader`, `OnBody` and `OnWrite` are the three lambdas, each
with everything it calls (`leave`, `deliver` and the `deliver` of every
participant, the next operation). `CompleteRead`, `CompleteWrite`,
`PeerShutsDown` and `PeerResets` are the network, external to the code.
`decode_header` keeps the conversion of a negative `atoi` result to `size_t`
(`SizeModulus`). `log`, `first`, `last` and `sent` are history: what was posted,
where a session's window begins and ends, and what was written to its socket.

**TestRunner.** `pc` is where a request's thread is: before the lock, setting
up the pipe and the child, reading, at `waitpid`, at the clock, in the last
`read_available`, done. `stage` tells the build from the test. `child`,
`status`, `descendant`, `pipe` and `late` belong to the world: a child may exit
at any time with any code, fork processes that keep the pipe open, and write.
`killed`, `output` are the locals. An answer carries what its text is: all that
the command wrote, that cut and marked, or a message of the server alone (the
path where `waitpid` fails drops the output). `lastBuild`, `exits`, `lost` are
history.
`configured` is which of the cmake and ctest paths the constructor found.

**HttpServer.** `accept`, `op[c]` and `done[c]` are the asynchronous operations
and the results of completed ones whose handlers are queued. `connections` is
the manager's set. The handlers are `OnAccept`, `OnSignal`, `OnReadOk`,
`OnReadError` and `OnWrite`. That an operation on a closed socket completes
with an error, and that closing aborts only operations that have not completed,
is Boost.Asio's contract.

**RequestParser.** `state` is `state_`; `consume(c)` has one disjunct per
group of states with the same shape. Characters are classes: those the code
tells apart. `Take` is one turn of the loop in `parse`. The version numbers are
ints: once `n * 10 + input - '0'` leaves them, which long digit strings make it
do, the behaviour is undefined and any int may be the result (`Number`).

**RequestHandler.** A URI is a sequence of characters; `url_decode` is the
loop of the code, including that the stream extraction takes a sign and a
single hexadecimal digit; the minus sign and the prefix `0x`, which give no slash,
dot or NUL that the other forms do not, are left out. `CString`
cuts at a NUL as `c_str()` does.

**SipTransactions.** A message is what `parse_via`, `parse_cseq` and the start
line yield; `groups` and `order` are `transactions` and `first_seen_order`.

**PracticePage.** `pending` are the calls of `fetch` under way, at most one per
`Slot`. Each handler is one action up to its `await` and one for each outcome
after it. `stored` is localStorage and survives `Reload`; `setItem` may throw,
which ends `toggleCompletion` between its change and its drawing
(`ToggleThrows`); `unsaved` remembers that. The status line,
which every handler overwrites, is left out.

**PeerSignalling.** `members`, `s_member_id`, `sockets` and `quit` are the
variables of the server; `Pass` is one turn of `while (!quit)`: it serves the
sockets that were readable at `select`, with the closing, erasing and
broadcasting each request causes, then `CheckForTimeout`, then one `accept`.
`AcceptFails` is a pass whose `accept` fails: `ListeningSocket::Accept` returns
NULL, which is deleted over the limit and pushed below it, where the loop
dereferences it as it fills its `fd_set` and the process dies. `SelectFails` leaves the
loop. The server is not started again: the ids would start from 1, and the
properties speak of one life of the server. A retry of a client is therefore
refused like the attempt before it (section 4 says what a successful one does).
The iterators keep their habit of stepping over the element after an erased
one: turn `i` of a `Loop` looks at position `i`, whatever was erased before.
`cl[c]` holds the members of a `PeerConnectionClient`; every callback is
an action. `retry` counts the retries posted (each two seconds old at some point,
whatever has happened since), `resolving` is a resolver that will report in
whatever state the client is by then. A request arrives in one or two segments, a
response whole. `log` of
a member and `got` of a client are history. Sockets are numbered anew from the
lowest free number, as descriptors are, so that a stale pointer would point to
another connection.

**TransportFeedback.** `rmap`, `rlast`, `wstart`, `periodic` are the members
of `RemoteEstimatorProxy`; `history`, `last_ack`, `ulast`, `in_flight`, `route`,
`offset`, `last_timestamp` those of the adapter, `dhistory` and `dlast` those of
the demuxer. Each method is one action, as each runs under a lock or on one task
queue. `feedback` is the set of messages sent; any of them may be delivered any
number of times, in any order, or never, and so may packets. The numbers, the
limits of the map and of the histories, the period of the reference time, the
range of a delta and the capacities of the chunks are constants, scaled down
together. Arrival times are whole milliseconds in the code, which makes its
roundings exact. The two ends have clocks of their own, with different origins
(`StartTime`, `SenderStart`) and the same pace; `Rebased` is the choice of a time
base at the first message and again when an older one would make the offset
negative. `halted` is the receiver after it gave `feedback_sender_` a null
message. `told`, `heard`, `skews`, `allSkews` and `owed` are history. The
transport controller that calls these classes is not part of the repository; its
order of calls (both histories before the packet leaves; demuxer before adapter)
is an assumption of `TransportFeedback`. `SendFeedback` is the process thread
calling `Process`, `ChangeMode` the receive-side controller.

## 3. Runs

| run | bounds | shows |
|---|---|---|
| `chat` | 2 connections, one that never reads, history of 1, 2 posted messages, headers of every kind with a limit of 1 | lengths fit the buffer, one write at a time, streams are windows; refinement of `OrderedBroadcast`; leaving is final; readers get every message; reset sessions are released |
| `runner` | a check and an example run, days known or not; pipe 1, kept output 1, 2 and 1 writes per command | one child and none left behind, own build tested, sound verdicts, losses marked; every request is answered, whether or not the commands exit |
| `runner_chatty` | the same, one command never stops writing | violation: see section 4 |
| `http_server` | 2 connections, one that never reads, 2 chunks each, a signal at any time | always accepting, manager and sockets agree, stopped stays stopped; `run()` returns, replies and vanished peers end their connections |
| `parser_language` | all inputs the limits on field lengths allow, up to 26 characters with 3 digits, the largest int 1 | the parser accepts exactly the grammar of `RequestGrammar`, keeps its fields, never calls `back()` on nothing |
| `handler_paths` | all URIs of up to 6 characters of 8 | opened paths stay below doc_root |
| `sip_groups` | all traces of 4 messages, 2 branches, 2 numbers | the groups are the transactions, in the order of their first messages |
| `page_events` | 2 days, 3 requests under way, a storage that may refuse | consistent page, buttons come back |
| `peer_signalling` | 2 clients, 3 connections, 3 acts (logins, messages, hang-ups, crashes, time-outs, failures of accept and select, browser requests, /quit), 2 posted retries | waiting sockets are open, delivery in order, lists converge, no hanging get is lost |
| `peer_listed` | the same | violation: see section 4 |
| `feedback_loop` | 2 to 4 packets over a wrap of 8 numbers, 2 or 3 arrivals, 1 or 2 deliveries of feedback, up to 2 ms, a sender whose clock starts at 0, one change of route or mode, map of 3 | bytes in flight are exact, receipt is reported once and reaches the streams, receive times agree, no packet is passed over, parsing inverts building |
| `feedback_times` | 3 packets, 3 arrivals, 2 deliveries, sent notices before arrivals, equal clocks | violation: see section 4 |

Why the bounds are enough. Two sessions show every interleaving of a sender
with a receiver and of a joiner with a room that has history; a third would
act on the same shared state, the room, in the same way. Two messages
overflow a history of one while the first is still queued. Two requests
are needed for the mutex to matter; a pipe, an output limit of one chunk and
two writes reach the full pipe, the output at its limit and a loss. Two
connections give a stop with one connection open and another just accepted.
An ACK or CANCEL looks back at any number of earlier messages, but what it
finds depends on one INVITE and one failure response: with a stray message,
four. An escape `%2e` is three characters; six are two of them, and a single
digit or sign needs fewer. With a largest int of 1 a version overflows at its
second digit, and three digits leave one number that does and one that does not.
Two days are a page and another one to change to. Two clients and a third connection reach the limit
of the server with both hanging gets open; each act is followed by every
interleaving of the callbacks it causes, and three of them are a sign-in of each
and one thing that goes wrong. A user who signs out while the server is away posts a
retry each time, hence the bound on those. Three arrivals are two packets and a duplicate, or
three packets in any order, and two messages can overlap; the bounds are chosen
per behaviour (`bound`), so that late notices, clock, requests and changes are
each combined with reordering without multiplying all of them. A sender's clock
that starts at 0 reaches the new time base (an older message after the first) as
well as the case without. A map of three
evicts the first of four packets. The theorems of
section 5 hold for every value of these bounds; they also show the type
correctness of `HttpServer`, `RequestParser` and `PracticePage`, which the runs do
not repeat.

Deadlock is not checked where the program may come to rest: all connections
used up, all requests answered, the input consumed, all acts done. Symmetry is used only in
runs without liveness, over values that are merely compared.

### Fairness

- Chat server and HTTP server: a handler in the queue of the `io_context` runs
  (the one thread loops in `run()`), operations on a socket that has failed or
  was closed complete, and a write to a peer that reads completes. Peers need
  not send, and `Stalled` peers (or those not in `Readers`) never read.
- Test runner: worker threads go on, time passes, and `waitpid` is not
  interrupted for ever (strong fairness of `Wait`, since `WaitFails` with EINTR
  competes with it). Nothing is assumed of the commands: they need not exit.
- The other modules state no liveness.

## 4. Findings

1. `runner_chatty`: `read_available` returns only when the pipe is empty, and
   the time-out is tested after it. A command that keeps the pipe filled is
   never timed out, holds the mutex, and no request is answered any more.
2. `peer_listed`: `/sign_out` only clears `connected_`; the member goes when the
   next socket closes. A peer that signs in before that is given the member that
   signed out, against `RTC_DCHECK((*i)->connected())` in
   `BuildResponseForNewMember`. `RosterIsMembers` states what does hold: lists
   agree with `members_`, signed-out members included.
3. `feedback_times`: the adapter adds the delta of a received packet to the
   running time only after it has found the packet in its history. A message
   that repeats a packet reported before, which a duplicate or late arrival
   causes, so gives the packets after it a wrong receive time. `TimesAgree` of
   `feedback_loop` states what does hold: times agree up to the first packet of
   a message that is not found. The adapter's unit test says "the difference
   must be the same for all x".

Observations without a run:

- `loadExercise` applies whichever answer comes last: after two clicks the page
  may end on the day that was clicked first. `PageIsConsistent` states what does
  hold, that all of the page is then of that day.
- `toggleCompletion` changes the set of marks before `setItem`, which throws when
  the storage is full or not allowed. Nothing catches it; the click seems to do
  nothing, the next exercise that is loaded draws the mark, and a reload takes it
  away again (`ToggleThrows`, then `LoadComes`, then `Reload`).
- The retry after a refused connection calls `DoConnect`, which keeps `my_id_`. If
  a client was refused while it was signed in and the server is back two seconds
  later, the client signs in with an old id stored; since `my_id_` is not -1,
  `OnRead` does not take the answer as the "First response", the new id and the
  peers are dropped, and the client uses an id of the server before.
- The version numbers of a request overflow their `int` after ten digits
  (`Number`); nothing in the server reads them.
- `find_transactions` applies the rule that a CANCEL group needs a matching INVITE
  to requests only, so a response with CSeq method CANCEL opens such a group by
  itself, which `tips.md` of the exercise does not say; `Belongs` of
  `SipTransactions` states what the code does.
- A feedback request on a packet that is too old for the full map of arrival times
  is served with a null message, against the `RTC_DCHECK` in
  `SendFeedbackOnRequest`: the model reaches this state as `halted`.

## 5. Proofs

Each theorem holds for every value of the constants allowed by the named
assumption of the module (`ChatAssumption`, `RunnerAssumption`, `HttpAssumption`,
`ParserAssumption`, `PageAssumption`, `SipAssumption`, `ServerAssumption` with
`ClientAssumption`; seven for the transport feedback, see there). Every invariant
is proved from an inductive one: it holds initially, each action keeps it, and it
implies the property.

**ChatServerProofs.** `IInv` adds to `TypeOK` and `WriteMatchesQueue` that a
connection never accepted has left no trace, that `recent_msgs` is the newest
part of the log, and that written and queued messages are, index by index, a
window of the log. The second is what a join needs (the replay must continue
into the live messages), the index form is what the provers can use in place of
`SubSeq`. Results: `TypeCorrect`, `OneWriteAtATime`, `StreamsAreWindows`,
`LeavingIsFinal` (an action property) and `Refinement` (every step is a step of
`OrderedBroadcast` or leaves its variables alone). The lemmas say what
`PushRecent`, `decode_header`, `leave` and a broadcast do.

**TestRunnerProofs.** `IInv` adds: the mutex is held exactly between lock and
return; a child exists only while its thread polls it; whoever is past the
start of its build started the last one; and what the collected exit codes are
at each place, without which a verdict says nothing of the first command.
`LossInv` says that output is lost only at its limit, where it carries the mark.
Results: `TypeCorrect`, `ChildrenAreOwned`, `BuildsAreOwned`, `VerdictsAreSound`,
`LossesAreMarked`.

**RequestParserProofs.** `IInv` is `TypeOK` and `BackIsDefined`: the states that
touch the last header are reached only after one was pushed. Results:
`TypeCorrect` (the version numbers are ints whatever the overflow gives),
`BackIsAlwaysDefined`, for inputs of any length.

**HttpServerProofs.** `IInv` is `TypeOK`, `AlwaysAccepting`, `ManagedIsOpen` and
`StoppedStaysStopped` with three facts they need: an accept is pending only while
the acceptor is open, and holds an open, idle socket exactly when it succeeded; a
connection nobody opened has no socket and no operation; only closing a socket
aborts its operation, so the handlers that end silently belong to connections the
manager has already dropped. Results: `TypeCorrect`, `AcceptsAlways`,
`ManagerIsExact`, `StopIsFinal`.

**PracticePageProofs.** `IInv` adds to `TypeOK` and `PageIsConsistent` that a disabled action button waits for an answer to its own
action or to a load; `ButtonsComeBack` alone is not inductive, since it says
nothing while requests are under way. `PageIsConsistent` exempts the mark of the
current exercise while `setItem` has thrown since the list was drawn, and no
other. Results: `TypeCorrect`, `PageStaysConsistent`, `ButtonsAlwaysComeBack`.

**SipTransactionsProofs.** `IInv` is the two properties with the types of the
three variables. The argument is that a longer trace does not change to which
transaction an earlier message belongs (`BelongsIsStable`) and that the INVITE
group, the only thing `has_failure_response` and `has_matching_invite` look at,
tells all the trace has to say (`GroupTellsTrace`). Results: `GroupsAreExact`,
`OrderIsExact`, for traces of any length.

**PeerSignallingProofs.** `IInv` is `Serving`, about the server, and `Clients`.
`Serving` says that `sockets` and the backlog hold different, existing
connections, the ones accepted and the others not yet; that the ids of the
members are different and from the counter; and that a member waits only on a
socket of the vector whose request was a `/wait` with its id. `Clients` says that
each of a client's two sockets is closed or open at the client's end and its own.
A step of the server leaves the clients' ends alone (`ServerNet`), a step of a
client leaves alone what the server holds (`ClientNet`), so each side's part can
be proved by itself. The crux is `OnClosing`: it steps over the member behind one
it erases, and that member may wait on the closing socket as far as the loop
knows. But erasing announces the member that has left to all others, which answers
every waiting socket, so after it nobody waits (`EraseFacts`, `ClosingTurnFacts`).
Results: `WaitingSocketIsAlive`, `TypesAreRight`, for any number of clients,
connections and requests, failing `accept` and `select` calls included. The pass
that a failed `accept` ends never gets back to `select`, so that every socket the
loop waits on exists.

The other three invariants relate what a client has read to what its member was
given, across every request under way; none is inductive. `DInv` is
`Tidy(Server)`, `Clients` and `Users`:

- `Tidy` is the server between two requests. Over `Serving` it says that a
  connection still to be read has had no response (`Links`), that nobody waits on
  a connection whose request is still coming (`Idle`), that every accepted
  connection is in the vector (`Complete`), and that a sign-in answered and not
  yet read (`Welcomes`) was given an id of its own, with a list of peers that the
  responses queued since bring up to date.
- `Users` says for each client what its sockets carry in each of its states
  (`Local`), that its id is not the one in somebody's unread sign-in (`Unique`)
  nor that of another client and, once it is signed in, that its stream is exact
  (`Tracks`): what it has read, what is on the wire and `queue_` make up all its
  member was given; the notifications among them turn its list into the members;
  its hanging get has at most one response and, while one is owed, the member
  waits on it; and no other request under way would make the member wait or sign
  it out.

The stream of a client that has not read its sign-in yet starts in `Welcomes` with
nothing read and no hanging get, and becomes its `Tracks` when it reads the answer
(`OnReadKeeps`): the window between the sign-in and the first hanging get, in
which notifications can only be queued. The loops of the server (announce to all,
erase the gone, read every ready socket) do not keep `Tracks` in the middle: the
member does not wait on the socket being served until the request is handled, so
`Carries` exempts that socket. Each request is shown to take a tidy server to a
tidy server and every stream to one as good (`Step`), and the whole pass follows
by induction over the turns. A step of a client that sends
nothing leaves the server's part alone (`Quiet`, `Lands`); one that sends a request
changes one connection that nobody has read (`Posted`). Results:
`ResponsesAreDeliveredInOrder`, `RosterIsTheChannel`, `HangingGetIsNeverLost`.

**TransportFeedbackProofs.** The assumptions are those of the code's constants:
`SpanAssumption` (an even span of numbers), `MapAssumption`, `ProxyAssumption`
(the map has no more places than there are numbers: 2^15 against 2^16),
`PacketAssumption`
(a run length holds at least as many symbols as a one-bit chunk, this twice as
many as a two-bit chunk; a reference time step is at most one more than the
largest delta), `AdapterAssumption` (there is a route; packets have sizes),
`DemuxerAssumption` (`kMaxPacketsInHistory` is less than half the span: 5000
against 32768) and `FeedbackAssumption`. The loops of the code are functions on
`0..n`, and sums go over finite sets; what they compute is proved by induction
over the set of numbers (`IntervalInduction`) or subsets (`SubsetInduction`) for
which the claim holds, since the provers cannot instantiate an operator.

- `WindowMissesNothing`: every packet owed is in the window. `ProxyInv` adds the
  types and that every message lists packets of the map in ascending order
  (`IsMessage`), from what each of the map's methods does to the times it keeps.
- `ChunksRoundTrip`: any sequence of symbols is decoded from the chunks it was
  packed into. `Waiting` is the state of `LastChunk` between two symbols and
  `PackedTo` says that the chunks written and the symbols waiting together are
  the symbols so far. `MessagesReadBack` builds on it: what is parsed of a
  message is what was built, entry by entry.
- `NothingIsToldTwice`: `Told` says that a packet is in the history at most once,
  under one number, and only while it was not told as received.
- `FlightIsExact`: `CountedInv` says that `in_flight` is the sum over the history
  of what was sent, is newer than the last acknowledged number and has the route;
  the lemmas `Bytes...` say how that sum changes by one packet or by a range.
- `StreamsHearOfAcks`: `StreamInv` says that the demuxer's history holds the newest
  packets under the numbers `Num(n)` that never wrap, so that its own unwrapper
  finds each of them (`UnwrapNear`), and that the number a packet has in the
  adapter's history has the bits that went over the wire (`Bits`). The two
  unwrappers may disagree on a number, yet not on the packet.
- `TimesAreSteady`: `TimesAgree`, under the hypothesis `ShortSessions` that a
  session ends before half of the wrap of the reference time has passed (about six
  days for the code's 24 bits of 64 ms). `DatedInv` says that the map and every
  message have times between the start and now only, in a map that keeps to its
  limit (`Filled`), so that no two packets of a message have the same number on
  the wire. Then the deltas (`DeltasAreExact`) and the differences of the
  reference times (`BaseDeltaIsExact`) are exact, though both clocks wrap, and
  `Steady` holds: the offset and the last reference time stay at one distance,
  which every skew since the last choice of a time base is. Nothing is assumed of
  the two clocks but their pace. The hypothesis is needed and no larger than it must be: the
  run's constants allow 2 ticks (TLC evaluates the hypothesis, `SessionsAssumption`
  of `MCTransportFeedback`), and with 3 (two messages exactly half a wrap
  apart, in either order) TLC finds `TimesAgree` violated. What a session longer
  than that has is not claimed.

Only model-checked:

- all liveness (`Delivered`, `ResetIsReleased`, `Answered`, `StopEnds`,
  `ReplyEnds`, `GoneIsReleased`), which needs ENABLED and fairness;
- that the parser accepts exactly the grammar (`GoodIsRequest`, `FieldsAreRight`)
  and that `url_decode` is safe (`StaysInRoot`): both compare with a definition
  that is recursive over the input;
- `TypeOK` of `TransportFeedback`, whose bounds on the unwrapped numbers hold only
  for the bounded sessions of the run.

## 6. Not modelled

Most of the implementation lines of the repository are under `webrtc_src`: an
excerpt of another project, a good part of it unit tests, and numerical code
(filters, estimators, codecs) whose state is real-valued. Of it the peer
connection example and the transport feedback path are modelled, the two parts
whose correctness is a matter of order, loss and shared state; pacing, the rate
controllers, RTP sending and receiving, the RTCP transceivers and FEC are not.
Untracked bytes in the adapter, the registration of observers in the demuxer, the
network state estimator and the length of the feedback interval in the proxy, and
messages that no sender of this code builds are left out; so is the negative
base number of a request for more packets than were sent.

Also not modelled: text parsing and tables without state (`sip_message.cpp`,
`catalog.cpp`, `reply.cpp`, `mime_types.cpp`); exercises 04 to 30, whose bodies
are left to the learner; demos that are straight-line calls into GStreamer,
FFmpeg, OpenSSL or WebRTC; relay scripts of a dozen lines; notebooks and analysis
scripts. Of the modelled parts: the status line of the page, a second browser
tab (which could change the storage under this one; nothing in `app.js` listens to
that), the buffers in which a request reaches the parser, file contents, the text of test reports beyond whether it mentions
"skipped", processes a killed command leaves behind, and the peer connection
inside the conductor.

## 7. Plan

1. `RtpPacketHistory` of `webrtc_src/modules/rtp_rtcp`: retransmission requests
   against packets that are being sent, and its limits in packets and time.
2. `ChatClient`: the input thread, posted closures, write queue and close of
   `chat_client.cpp`, composed with `ChatServer` in the run `chat`.
3. `JitterBuffer` and `NaluAssembler`: the two threads of
   `jitter_buffer_example.cpp` and the fragmentation units of
   `video/MediaUtil.cpp`.
