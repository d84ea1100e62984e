# A TLA+ model of node-coap

node-coap is a CoAP client and server library for Node.js (`src/index.ts`,
`src/lib/`). This directory holds TLA+ specifications of its protocol engines,
the TLC configurations that model-check them on small instances, and TLAPS
proofs of the properties that hold for every instance. All definitions are
translated from the code in `src/lib/`; `PROJECT.json` maps each of them to the
lines it stands for.

## The system

Everything runs in one Node.js event loop: a callback (a datagram, a timer, a
`sent` notification of the socket, a call of the application) runs to
completion. What makes the library hard is the order of callbacks: answers are
lost, duplicated, delayed and reordered, timers race with answers, listeners
call back into the library, and several counters and maps have to agree on
what is still going on.

| component | state | operations | where |
|---|---|---|---|
| Protocol parameters | the defaults and the timings derived from them | `createParameters`, `deriveTimings`, `refreshTiming` | `parameters.ts` |
| Retransmitting sender | message, attempt counter, current delay, two timer handles | `send`, `reset`, `_bOff`, the time-out | `retry_send.ts` |
| Agent (client) | the socket, `_msgIdToReq`, `_tkToReq`, `_requests`, `_msgInFlight`, `_closing`, `_lastMessageId`; each request's sender, multicast timer and response | `request`, `end`, `_handle`, `abort`, `_cleanUp`, `_doClose`, `close` | `agent.ts`, `outgoing_message.ts` |
| Server | the socket, the LRU cache of responses, two block caches; each response's packet, sender and piggyback timer | `listen`, `_handle`, `OutMessage.end`, `_finishSendResponse`, `close` | `server.ts`, `outgoing_message.ts`, `observe_write_stream.ts` |
| Observation | the writer's counter; the reader's last number and the time it came | `_write`, `append`, `close` | `observe_write_stream.ts`, `observe_read_stream.ts` |
| Block options | none: bytes to numbers and back | `generateBlockOption`, `parseBlockOption`, `createBlock2`, `parseBlock2` | `block.ts`, `helpers.ts` |
| Block-wise upload | the client's position and pending block; the server's cache of received blocks | `SegmentedTransmission`, the Block1 half of `_handle` | `segmentation.ts`, `cache.ts`, `server.ts` |
| Block-wise download | the server's cache of whole responses; the client's `_totalPayload` | `OutMessage.end`, the Block2 half of both `_handle` | `server.ts`, `agent.ts`, `cache.ts` |
| OSCORE contexts | contexts, token bindings, pending Echo nonces with expiry | `SecurityContextManager` | `oscore.ts` |
| Middlewares, proxy | the map of proxied requests | `proxyRequest`, `handleProxyResponse`, `oscoreDecryptRequest`, ... | `middlewares.ts`, `server.ts` |
| Messages, options | one packet | conversions | `incoming_message.ts`, `option_converter.ts`, `helpers.ts` |

How they interact: a request owns a sender, which calls the agent's socket;
the agent finds the request of a datagram by message id, then by token, and
resets its sender. The server looks a datagram up in its cache, keyed by client,
message id and (for requests) token; the cache owns the senders of the responses
and resets them when an entry is overwritten, evicted, acknowledged or cleared.
Agents and servers meet only over the network. Streams of notifications hang
from both ends. Block-wise transfer takes one exchange apart into several, each
with a message id of its own and all with one token, by which both ends keep their
state. OSCORE puts a promise between the socket and `_handle`, and another between
the response and the socket. A proxy is a server that sends what it receives on under
the same message id and token, and finds the way back in a map of tokens.

What makes each part correct:

- **Sender**: copies are bounded, however it is reused; every retransmission lies inside
  the exchange; the exchange ends.
- **Agent**: a unicast request gets one response or one time-out; it is never
  forgotten; `_requests` counts what is unfinished, so that the socket closes
  when nothing is under way and never before.
- **Server**: a request runs its listeners once, is acknowledged once, and its
  duplicates get its own response; responses are retransmitted until they are
  answered and no longer; nothing is sent after `close()`.
- **Observation**: notifications are shown in order, none twice, and no news is
  dropped, across the wrap-around of their numbers.
- **Block-wise transfer**: what the server's application is handed is what was sent, however
  blocks are lost, repeated and reordered; what the client's is handed is one representation
  without gaps; a request is executed once; the client never waits with nothing under way; a
  new transfer does not see blocks of an old one.
- **OSCORE contexts**: a response is protected with the context of its request, and never
  for another client; an Echo nonce is accepted once, for its context and before it expires;
  no datagram runs twice; a binding goes when what it is for has left.
- **Proxy**: every proxied request gets an answer, whatever is repeated, unless its last
  datagrams are lost.

The hazards behind these properties are listed in `PROJECT.json`, each with its line.

## The modules

| module | what it is |
|---|---|
| `Parameters` | timings of `parameters.ts` in whole ticks |
| `RetrySend` | the sender with its timers and clock; `Sender` is its timer-free abstract specification, which it implements |
| `Agent` | the client |
| `Server` | the server |
| `Observation` | numbering and filtering of notifications, with the clock |
| `BlockOption` | the encoders and decoders of Block1 and Block2 |
| `Blockwise` | client and server in a block-wise transfer, over `BlockOption`; `Transfer` is what it promises of an upload, which it implements |
| `SecurityContextManager` | the maps of `oscore.ts`, as operators on functions |
| `Oscore` | clients, middlewares and server under OSCORE, over `SecurityContextManager` |
| `Proxy` | clients, a proxying server and the target |
| `MC...` | constants for TLC |
| `..._proofs` | theorems about the module of that name and their proofs |

Definitions whose comment begins with `Faulty:` are deliberately wrong variants
of the definition that follows them. They are not used by any specification; each
property was seen to fail when one is put in place of the original.

### RetrySend

A timer is its remaining time or `Off`. `bOffTimer` and `timer` are what the
object's two handles refer to. The actions are `Send` (`send()`, which clears both timers, transmits
through `_send` and arms the time-out), `BOff` (a retransmission), `GiveUp`
(the time-out; an agent resets the sender in response, a server does not),
`Reset` and `Tick`. The random factor of the first delay is a choice from
`FirstDelays`. Timers that are due fire in either order before time goes on.
Errors of the socket are passed on without a change of state and are left out.

### Agent

`agent` is the Agent object as one record; each method is a function on it
(`CleanUp`, `DoClose`, `HasSent`, `Abort`, `Opened`, `Submit`), so that a handler
is a composition of the methods it calls, in the order it calls them. `req` holds
each request with the state of its sender and response. An action is one callback,
with one exception: listeners of `'response'` and `'timeout'` are application code,
so `turn` stops the handler there, the application may call the agent, and
`ListenersReturn` or `AbortTimedOut` is the rest of the handler. Answers are drawn
from what a peer can send to a request it was sent: an ACK, RST, piggybacked
response, or CON or NON response with a message id of the peer's, any number of
times, in any order. The abstract clock of the sender is: retransmit at most
`Retries` times, then time out, once all callbacks of the socket have come.
`answers`, `told`, `confirmed` and `asked` are history.

Not modelled: a socket passed in by the application, sockets shared with a server,
DNS failures, and `multicast` requests converted to unicast ones. Block-wise transfer and the
Echo retry are in `Blockwise` and `Oscore`. `thrown` is absorbing: an exception that nobody catches
ends the process.

### Server

`execs` holds the response object of each `'request'` event: its packet
(`mid`, `confirmable`, `ack`), piggyback timer, counter of notifications. `msgs`
holds every buffer generated, with its cache key; `lru` and `armed` are the buffers
the cache holds and those whose sender runs. `SendResponse` is
`_finishSendResponse`: generate (which assigns a message id to a packet without
one), cache (which disposes of the entry of the same key, else of the oldest if
the cache is full), hand to a new sender. `ReceiveRequest`, `ReceiveDuplicate`,
`ReceiveAck`, `IgnoreAck` (nothing is cached under its key), `ReceiveReset` and
`ReceiveUnknownReset` are the branches of `_handle`; `End`, `Write` and `Finish` are what an application does with a
response; `AckTimer` and `TimeOut` are the timers. Keys are what `_toKey` makes:
the digits of the message id followed by those of the token with nothing between.
Message ids are sequences of digits for that reason.

Not modelled: entries that expire, `response.reset()`, requests that are refused without
keeping state, a socket passed in by the application. Capacity counts buffers instead of
bytes. Block-wise transfer, OSCORE and the proxy are in modules of their own.

### Observation

Each notification carries an index that only the model knows and the number the
writer gives it. The network loses, repeats and reorders what is not older than
`MaxAge`. The reader accepts a number that is less than `Window` ahead of the last
one modulo `Modulus`, or any number after a silence of `FreshAfter` (2^23, 2^24 and
128 s in the code). The writer goes from `LastCounter` to 2, since the counter is set
to 1 and incremented before it is used.

Two assumptions limit what is shown, both part of `Proportions`: fewer than `Window`
notifications are written while an old one is under way (at most one per tick), and
`MaxAge <= FreshAfter`. The code sees to neither. A confirmable notification is retransmitted
for up to 45 s and a datagram may take up to 100 s, together more than the 128 s after which
any number is new: one that is delayed as long as that may be accepted after a newer one.

### What the next modules have in common

`Blockwise` and `Oscore` are about exchanges between both ends, so they contain the network: a set of
datagrams to which each `send` adds one and from which nothing is removed. Any datagram
that was sent may arrive next, again, much later or never, which is loss, duplication
and reordering at once. A retransmission, whether by a sender or from the server's
cache, puts the same datagram out again; it is therefore no step of its own, and the
senders of `RetrySend` need not be repeated. What remains of a sender is whether it runs.

### BlockOption and Blockwise

`BlockOption` has the options as sequences of bytes, with the bounds and quirks of each of
the four functions: `block.ts` keeps the exponent and accepts 7, `helpers.ts` keeps the
size and reads an empty option as blocks of no bytes.

`client` is each request with its `SegmentedTransmission`; `byMid` and `byToken` are the
agent's maps, here for the one thing they decide, whether a reply finds its request.
`Request` is `end()`, `ReceiveContinue`, `ReceiveStale`, `ReceiveBlock`,
`ReceiveResponse` and `ReceiveEmpty` are the branches of the agent's `_handle`, `Timeout`
the sender's. On the server `Store`, `Refuse`, `Execute` and `Serve` are the branches of
`_handle` (store a block, answer an incomplete upload with 5.00, emit `'request'`, serve
a later block from the cache); `Answer` is an application that answers later, `AckTimer` the
piggyback timer, `Expire` the cache's timer, `Change` another state of the resource. `End` is
what `OutMessage.end` makes of a representation. A payload is named by whose it is and which
bytes of it these are, so that `BodiesIntact` compares byte ranges, not bytes.

Requests are confirmable; a message id is not used twice; a datagram is not older than what
the server's cache of responses keeps, and that cache has room. A peer that changes the
block size of an upload is left out, because this server never does; so are
notifications in blocks and block-wise responses to multicast requests.

### SecurityContextManager and Oscore

A JavaScript `Map` is a function on its keys. The manager makes room by deleting the entry
that was inserted first, so that each entry also says which keys are older: those that
were there when it came and still are. `TokenKey`, `BindToken`, `StorePendingEcho`
and the others are the manager's methods.

`decoding` and `encoding` are promises that have not been settled: everything else may
happen before they are. `Decode` is the middleware's call of `decode()`; `Decoded`,
`Recover` and `Challenge` are its continuations (a request that was decoded, the nonce
that comes back, one more challenge). `open` are the response objects, one for each datagram
that is handed over; `Answer` writes a response, whose context is looked
up at that moment; `Encoded` is its departure. `CloseStream` closes a stream, which releases the token only if a
notification was written under a context before (`hooked`): what is destroyed before that is
`abandoned`. A request without protection is handed over as often as it arrives, since the
cache of responses that may stop it is in `Server`. `ReceiveChallenge` is the agent's one retry
with the nonce, `ReceiveResponse` everything that goes to the application. `Change` adds and
removes a context, `Restart` is a crash after which all maps are empty and contexts refuse
what they get until a nonce has come back, `Tick` lets nonces expire.

The contexts of `coap-oscore` are external: they number what they encode, decode no number
twice, protect responses to requests they know. `RegistersRefused` and `ClearsRecovery` say
what they do with a request refused after a restart. If they do not keep such a request,
no challenge can be protected and none leaves; the run shows the other case, in which
the mechanism works.

### Proxy

`proxiedRequests` is `_proxiedRequests`. `Forward` is `proxyRequest` with `_sendProxied`,
`ForwardFails` the same when the socket fails, `Return` `handleProxyResponse` with
`_sendReverseProxied` and `Ignore` its other branch; `Serve` is a request without Proxy-Uri,
which passes the same middleware. An entry goes with the first answer without Observe and
comes back with the next copy of the request. The target is a node-coap server that answers
duplicates from its cache by message id and token; all it sees comes from the proxy, so
that clients that use equal ids meet there. It notifies at any time and may answer a request
to observe without Observe.

Here the network is the datagrams under way. One that arrives may stay, as a copy of it may be
under way; `Lose` takes one away, and `lost` notes whose it was until its client sends again.

## What is checked

Runs with `expect: pass` explore all reachable states of their instance.

| run | instance | what it shows |
|---|---|---|
| `retry_send` | two message ids, three sends, limit 2, delays 2..3 | the sender's invariants, `EndsExchange`, and that it implements `Sender` |
| `agent` | two CON, NON or observe requests, ids wrapping around after the first, streams closed by the application | one socket under two requests: counts, maps, life of the socket, and that requests end and the socket closes (`Resolves`, `AutoCloses`) |
| `agent_all` | all kinds of request and call, 4.04 and unencodable packets, calls from listeners, ids shared with the peer | what holds under every use: at most one response, one outcome |
| `server_prompt` | two clients using equal message ids and tokens, four requests | listeners that answer at once: run once, duplicates get the right response |
| `server_separate` | a confirmable observation with two notifications and a CON request answered at any time, a message id that client and server both use, RSTs, duplicates, the piggyback timer, close and listen at any time | a response of a key of its own is retransmitted until it is acknowledged, rejected, given up or closed; a RST to a notification ends its stream; requests are acknowledged, once |
| `observation` | numbers 1..31 modulo 32, 36 writes | order and completeness across the wrap-around |
| `blockwise` | an upload of 40 bytes in blocks of 16, answered at any time with a representation of three blocks that changes under way, uploads expiring from the cache | an upload is handed over whole, and only when its blocks were acknowledged; a response lacks nothing and is of one version, though a repeated block may be in it again; the client never waits in vain; and that it implements `Transfer` |
| `blockwise_prompt` | two requests, one of 24 bytes, one without payload that asks for blocks of 32 bytes, answered at once | executed once, and options kept in every block |
| `oscore` | two protected clients with one token and an unprotected one, an observation, maps for two bindings and one nonce, nonces that live one tick, one restart, a context that is removed and added | responses leave under their own context, nonces are accepted once, protected requests executed once, bindings released |
| `proxy` | an observation and a request through the proxy, under one message id, and a request of the proxy's own, each sent up to twice, two datagrams under way | every proxied request gets an answer unless the network loses a datagram after its last copy was sent |

Why the bounds are enough. Two requests suffice for the agent's properties, which
relate one request to the shared socket, counters and maps or to one other request;
`MaxMessageId = 4` with a start at 2 makes the second request wrap around to 0,
and the wrap-around is the only use of the number. One retransmission shows both a
datagram in the air and one that has left; one ACK next to two answers shows one that
outlives the response. Five executions in
`server_prompt` are one more than its requests, so that a repeated one would show; the
two of `server_separate` are two requests, or one and its duplicate that runs the
listeners again. A full cache of responses is covered by the theorem `SendersStop`, for
every capacity. `Observation` scales the modulus down from 2^24 to 32
and keeps the proportions (window one half, freshness between): the arithmetic does
not depend on the size, and 36 writes pass the wrap-around. The timers of `RetrySend`
with 2, 3 and 2 retransmissions give a span of 9 and a lifetime of 13 ticks, so that
every order of time-out, retransmission and reuse occurs. The run is a server's sender; a request's own
limit above `maxRetransmit` (`RetryLimit`, `AbortOnTimeout`) is covered by the theorems,
which hold for every limit.

Three blocks are a first, a middle and a last one. `MaxMids` bounds the datagrams that
carry a new message id: seven are the three blocks of the upload, two requests for later
blocks of the response and two to spare, so that a block of the response arrives again and is
taken again (with one to spare that does not happen); five are the same for the shorter
transfers of `blockwise_prompt`. Two executions show a repeated one. That block sizes and lengths are
small costs nothing: `BodiesIntact` is a theorem for all of them. In `oscore` the map of
nonces has room for one, so that the nonce of the other context is evicted; that of bindings
has room for both protected clients and never evicts (with less, `UnderOwnContext` fails,
see below; that it keeps to its limit and what it does to tokens is proved for every size);
two nonces are a challenge and the one that replaces it; one restart separates two lives of
the server. In `proxy`, two copies are a request and one that comes when the
entry is gone; with two datagrams under way, a copy of a request meets the answer to it or
a datagram of another request. Each may arrive any number of times.

`CHECK_DEADLOCK FALSE` stands in the runs of systems that may really stop: a sender
that is idle after its last send, an agent whose requests are over, a server whose
clients are silent, a process ended by an exception. `MCAgent...`, `MCServer...`, `MCBlockwise...`
and `MCOscore` stop where their bounds are exhausted, too, and the transfers when every datagram
has had its effect, the proxy when nothing is under way.

Fairness. `RetrySend` assumes that time passes and due timers fire; `Agent` that
timers fire, that the socket calls back for what it was handed (`Sent`, `AckSent`,
`SocketClosed`) and that listeners return (`ListenersReturn`, `AbortTimedOut`);
`Server` that the piggyback timer fires and listeners return. Node's event loop
guarantees the first two; the third is asked of every program that runs in one.
Weak fairness is enough: each of these stays enabled until it happens or is made
irrelevant by a later event. Nothing is assumed of the
application but that it returns. Nothing is assumed of the network either, with one
exception: in `Proxy` no datagram is under way for ever, it arrives or is lost. Which of the two is
left open, and UDP gives no more; `Relayed` speaks of losses instead. `Blockwise`
and `Oscore` are checked for safety only; `NeverStalls` is the part of the liveness of a
transfer that is one. `AutoCloses` and `CloseCompletes` are stated for
behaviours in which the peer falls silent: every datagram that arrives, even one
nobody waits for, is refused with one that the agent waits to see sent.

### Where the code does not do what is said of it

Runs with `expect: violation` check one property each and show a behaviour in which
the code breaks it; `PROJECT.json` quotes the sentence under "findings".

| run | what happens |
|---|---|
| `server_phantom` | `packet.ack ?? packet.reset` is `false` for a RST that matches nothing, which becomes a request |
| `server_omit_acks` | `sendAcksForNonConfirmablePackets: false` omits acknowledgements of confirmable requests, too |

The passing runs state what holds where such cases are excluded, by the choice of
constants or by a condition that is part of the property. The following constants, in
place of those of the run, make TLC show what is excluded:

| run | constants | property | what happens |
|---|---|---|---|
| `agent` | `CallsInListener = TRUE` | `NeverThrows` | `_cleanUp`, registered first (agent.ts:723), starts closing the socket; the application's listener makes the next request on it, which throws |
| `agent` | `PeerMids = {0}` | `AcknowledgedIsDelivered` | a separate response whose message id, the peer's, is that of another pending request is acknowledged and dropped (agent.ts:266, 316) |
| `agent` | `Unencodable = {r1}` | `AutoCloses` | a request that fails in `generate()` (agent.ts:619) is never counted as finished |
| `agent` | `Kinds = {"observe"}`, `Codes = {"notFound"}` | `AutoCloses` | an observe request answered with 4.04 has no listener that counts it as finished (agent.ts:499) |
| `agent` | `ClosesStreams = {"close", "consume"}` | `ClosesOnlyWhenIdle` | a closed stream that is read to its end emits `'close'` again and is counted as finished twice (agent.ts:506) |
| `agent` | `ClosesStreams = {"deregister"}` | `NeverThrows` | `close(true)` of the only observation closes the socket and then deregisters on it (agent.ts:515) |
| `agent` | `Kinds = {"multicast", "con"}` | `ClosesOnlyWhenIdle` | every response of a multicast request counts as a finished request (agent.ts:723), so the socket closes under another one |
| `agent` | `UserCloses = TRUE` | `CloseCompletes` | `abort()` takes back a datagram that was counted as sent (agent.ts:750); `close()` then finds -1 in flight and does nothing (agent.ts:210) |
| `server_prompt` | `Slow = TRUE` | `ExecutedOnce` | the keys of empty ACKs and separate responses lack the token that duplicates are looked up with: the listener runs again (server.ts:450, 682) |
| `server_separate` | a NON observe request (`ConAndObserveNon`), `OwnMids` | `RejectionEndsStream`, stated of NON notifications too | the RST to a NON notification is looked up without its token and does not end the observation (server.ts:680) |
| `server_separate` | a request without a token whose message id the server also assigns | `RepliesMatch` | it is answered with the confirmable response in flight under that id (server.ts:753) |
| `server_separate` | as they are | `RetransmitsUntilAnswered`, stated without `Alone` | a message id of the server's is that of a request, too: the empty acknowledgement of that request, repeated, takes the place of the response in flight under the id, which is retransmitted no more (server.ts:452, 753) |
| `server_separate` | `Capacity = 2` | `RetransmitsUntilAnswered` | evicting a response resets its sender (server.ts:192) |
| `server_prompt` | `ClientsReset = TRUE` | `ExecutedOnce` | a RST takes the response out of the cache, and a late copy of the request runs the listeners again |
| `server_prompt` | `ServerCloses = TRUE` | `ExecutedOnce` | `close()` empties the cache of responses, with the same effect after the next `listen()` |
| `server_separate` | as they are | `~thrown` | the piggyback timer survives `close()` and sends on the closed socket (outgoing_message.ts:53) |
| `blockwise` | as they are | `FinalIsFinal` | the 2.31 to an earlier block, repeated when the last block has been sent, ends the upload and is delivered as its response (agent.ts:341) |
| `blockwise` | `MaxMids = 9` | `~thrown` | each late acknowledgement of an earlier block sends the current one again; the sixth throws out of the socket's listener (segmentation.ts:73) |
| `blockwise` | as they are | `PayloadWhole`, stated with no piece twice in a body | a block that arrives again is appended again, since neither its number nor its ETag is looked at (agent.ts:393): the payload has bytes of it twice |
| `blockwise` | no upload, `MaxMids = 4` | `PayloadWhole`, stated of requests executed twice too | the listener that answers late is run again for a duplicate, when the resource has changed: the payload is of two versions |
| `blockwise` | an early Block2 option that is empty | `PayloadWhole` | a first block of no bytes is followed by a request for the second, which is served in blocks of another size |
| `blockwise_prompt` | `Slow = {r1, r2}` | `OptionsKept`, stated of slow tokens too | the options of a response are saved when the listener returns; if the answer comes later, no block after the first has them (server.ts:726) |
| `oscore` | `MaxTokenBindings = 1` | `UnderOwnContext` | the binding of a request that still runs is evicted, and its response leaves unprotected |
| `oscore` | two clients with one sender id under different ID contexts, and one token | `UnderOwnContext` | the key of a binding leaves the ID context out (oscore.ts:77): the response is protected for the other client |
| `oscore` | two requests of one client, with different tokens | `ExecutedOnce` | a copy of the second one arrives after the first has echoed its nonce and is executed as it is; the one made again in answer to the challenge it also got is a datagram of its own, and is executed as well |
| `oscore` | a client's second request with the token of its stream | `UnderOwnContext` | the response releases the binding, and the next notification leaves unprotected |
| `proxy` | two requests with one token | `ToTheAsker`, `Relayed` | the map has tokens for keys, whoever sent them: the answer goes to the later asker, and the other client may get none (middlewares.ts:100) |

`BodiesIntact` needs distinct tokens as well: the blocks of two clients' uploads are kept apart
by address and token, those of one client's by token alone.

Also seen while modelling, with no property of their own: an observation that is destroyed
before its first notification leaves its token bound (server.ts:526), which
`BindingsAreOwed` excludes by name (`abandoned`); a client whose first datagram was duplicated while the server
recovers is challenged twice, and its application gets the second challenge as the
response; the time-out of an Echo retry is not forwarded to the request
(agent.ts:464); a reply that cannot be decrypted is an `'error'` although the request stays
open (agent.ts:126); entries of `_proxiedRequests` stay for good if the target does not answer;
an empty Block2 option is served with empty blocks, of which there is no last.

## What is proved

The theorems hold for every value of the constants that satisfies the `ASSUME`s:
`ParametersAssumption` (the parameters are natural numbers, the first positive),
`PowersOfTwo` (facts about exponentiation that the provers do not know; TLC evaluates
them for its instances), `SenderAssumption`, `LimitAssumption` (only an agent overrides
the limit of retransmissions, and it resets the sender on `'timeout'`),
`AgentAssumption` (finitely many requests; ids, kinds and codes from their ranges),
`ServerAssumption` (message ids and tokens are sequences of digits; the cache has room
for one response), `ObservationAssumption` and `Proportions` (numbers wrap around after twice
the window; nothing is under way for longer than a silence lasts or than half the numbers
take), `BlockwiseAssumption` (payloads of up to 2^20 - 1 blocks, any block size of
the protocol, early Block2 options that ask for the first block or cannot be parsed),
`NoneIsNoRecord`, `ManagerAssumption` (both maps have room for an entry) and
`OscoreAssumption` (`None` is no context and no nonce; contexts and bounds from their ranges).

Some theorems assume more, by name; the instances of the runs that check their properties
satisfy it, and the table above shows what happens without:

- `DistinctTokens`, no two requests share a token, for most theorems about `Blockwise`;
  `NoEmptyOption`, no early Block2 option is empty, for `ResponsesWhole`;
- `KeysTellApart`, a key of the server's cache belongs to one request and is never that of a
  bare message id, for `DuplicatesGetTheirReply` and `RunsOnce`. The code does not guarantee
  it: the ids of a client and of the server are counted up from random starts and may meet.
  `RunsOnce` is also about servers that are not closed, with listeners that answer before they
  return and clients that do not reject (`~Slow`, `~ServerCloses`, `~ClientsReset`);
- `PlainUse`, an agent used for unicast requests by an application that does not call it from
  listeners, closes its streams with `close()` and leaves the socket to the agent, for the
  theorems about the agent's counters; and for `RequestsAreCounted` also that every packet can
  be encoded and that no observe request is answered with a plain response (either is counted
  for good);
- conditions on the whole behaviour, as in `Spec /\ []Uncrowded => []ExecutedOnce`: the
  cache of responses always has room for one more (`Uncrowded`), and the agent's next message
  id is not that of a request it still retransmits (`NextIdFree`: there would have to be 65535
  requests within the 93 seconds in between).

Some properties state such a condition themselves: `RetransmitsUntilAnswered` and
`RejectionEndsStream` speak of messages that fall together with no other in the cache
(`Alone`), `PayloadWhole` of requests that were executed once, which `ServedFromCache` gives
for applications that answer at once.

| theorem | statement |
|---|---|
| `RetrySend_proofs!TypeCorrect`, `CopiesAreBounded`, `SpanRespected`, `OpenWhileRetransmitting` | the sender's invariants |
| `RetrySend_proofs!Refinement` | every behaviour of `RetrySend` is one of `Sender` |
| `Agent_proofs!TypeCorrect`, `RespondsOnce`, `EndsInOneWay` | one response per unicast request, and none for one that timed out |
| `Agent_proofs!RequestsAreCounted`, `ClosesWhenIdle`, `EverythingIsSent`, `NoThrow` | under plain use, `_requests` counts the unfinished exchanges, the socket is never closed under one of them or under a datagram, and a closed socket is never used |
| `Agent_proofs!WaitsAreRetried` | under plain use, a request that was told nothing is retransmitted, and its answer will be found |
| `Server_proofs!TypeCorrect`, `SendersStop`, `AcknowledgedOnce` | a closed server sends no more; a confirmable request is acknowledged at most once |
| `Server_proofs!DuplicatesGetTheirReply` | a duplicate is answered with a message made for that request |
| `Server_proofs!Retransmits`, `RejectionEnds` | a response is retransmitted until it is answered; the RST to a confirmable notification ends its observation |
| `Server_proofs!RunsOnce` | if listeners answer before they return, they run once for each request |
| `Observation_proofs!TypeCorrect`, `DropsNoNews`, `PushesInOrder` | no notification newer than all delivered ones is filtered out, and they are delivered in the order in which they were written, across any number of wrap-arounds |
| `BlockOption_proofs!Block1RoundTrip`, `Block2RoundTrip` | each decoder reads what its encoder wrote |
| `BlockOption_proofs!DecodersAgree` | both decoders read the same block from an option, except for the exponent 7 |
| `Blockwise_proofs!TypeCorrect`, `PayloadsIntact` | an application is handed whole payloads only, for every length, block size and number of requests |
| `Blockwise_proofs!BlocksConfirmed`, `SenderKeepsOn` | a block is sent only when every block before it was acknowledged, and a payload is handed over only when all but its last block were; a waiting client has a running sender |
| `Blockwise_proofs!ServedFromCache`, `OptionsStay`, `ResponsesWhole` | prompt requests are executed once; every block has the options of the first; what a client delivers is of one version and lacks nothing, and nothing but the repetition of a block can be wrong with it |
| `Blockwise_proofs!Refinement` | every behaviour of `Blockwise` is one of `Transfer` |
| `Oscore_proofs!TypeCorrect`, `NoncesAreUsedOnce` | the maps keep to their limits; an Echo nonce is accepted once, for its context, in time and by the server that made it |
| `Oscore_proofs!BindingsReleased` | what is answered or closed does not stay bound, but for streams that were destroyed before they wrote |
| `Oscore_proofs!DatagramsRunOnce` (`NoReplay`) | no protected datagram is handed over twice by a life of the server, whatever its client requests besides and whatever is evicted or removed |
| `Oscore_proofs!NobodyElseReads` (`NeverForAnother`) | no reply is protected for a client of another sender id, whatever tokens are shared, bound again or evicted |

**RetrySend.** That no retransmission comes after the exchange is over needs to be
known of the whole history of the sender: `IInv` says that a running retransmission
timer was armed at attempt `sendAttemp`, that it is due by
`AckTimeoutMax * (2^sendAttemp - 1)` (`BackoffBounded`), that copies do not exceed
attempts, and that the time-out comes exactly one time-out after the last `send()`
(`TimeoutFixed`). With the default limit the first bound stays below
`maxTransmitSpan`, which is below `exchangeLifetime`, so the time-out comes last; with
an overridden limit the owner's reset does the same.

**Agent.** `AtMostOneResponse` is not inductive: a request could be found again. `IInv`
adds that both maps lead only to requests submitted under that id and token
(`MapsSound`), that a request whose sender runs has no response yet, and that a
request that was given up is in neither map once `abort()` has run (`Outcome`), before
which no datagram is handled. Most methods only shrink: they start no sender and enter
nothing into the maps (`Shrinks`, which is transitive, so that a handler composed of
several methods shrinks as well). `Submit` is the one that enters a request, under an
id and token it did not have before.

The counters need `PInv`. It counts the exchanges from the requests themselves (`Counted`,
`Exchanges`: a request that timed out is one until `abort()` has run) and says how the
counters of the agent relate to that number (`Account`): `_requests` is that number while the socket is
open, and the number is zero once it is not; `_closing` is only set when it is zero; and
`_msgInFlight` is the number of datagrams and acknowledgements handed to the socket, until the
first `abort()` takes one too many off. Each method of the agent has a lemma about `Account`,
and each handler one that says how the number changes (`OneLess`). That the sender of a
request runs only while the request is counted (`Pursued`) closes the circle: no timer fires on a closed socket, since
while a request is counted the socket is open, and a stream's listener finds its own socket (`Plain`,
`FoundAlive`). `Follows` says what a method leaves to the other requests. Message ids
matter for `NeverForgotten` only, so that `PInv(free)` takes as a parameter whether they are
free; the counters are right even when ids are reused.

**Server.** `SendersStop` rests on `SendersCached`: a running sender is in the cache,
because whatever removes an entry resets its sender, and a closed server's response
objects have dead sockets. `AcknowledgedOnce` rests on `MayAcknowledge`: an execution
whose packet is still an acknowledgement has not made one, and the piggyback timer only
runs while that is so; each of `end()`, `write()` and the timer takes that right away.

`RepliesMatch` is about the keys of the cache. `RInv` says what the packet of a response
may be (`PacketsSound`) and under which kind of key each buffer is cached, the request's, that
of a bare id or that of a later response (`BuffersSound`). A request's key is of the first kind
only, so that what is found under it was made for the request. This needs neither room in the
cache nor an open server.

`SInv` follows a confirmable response. It is cached under the key that its answer is looked up
with, made a second time from another datagram (`AnswerFinds`; a response cached with its token would
never be found). If no other message has that key or is answered under it (`Alone`), an
acknowledgement finds it exactly if it is meant for it (`FindsItself`), and nothing replaces
it. So what is neither answered nor given up is still in the cache (`Remembered`), and its
sender with it; a RST that comes while it is there ends the stream. `OInv`, for
`RunsOnce`, says that every execution is answered before the next callback and that its
answer is cached under the key its duplicates have.

**Observation.** Numbers are compared modulo `Modulus`, so that the invariant has to bound
how far apart the compared notifications are. `IInv` says that what is under way was
written within `MaxAge` and bears its number (`FlightSound`), that the reader's last number is that
of the last notification shown, and how many were written since (`ReaderSound`), and that what
is older than that one has been under way for at least as long as the reader has heard nothing
(`OlderThanSilence`), so that it is gone when the silence makes any number new. Within the window, being ahead modulo `Modulus` is then the
same as being newer.

**BlockOption.** An encoded block is split by its length; in each case the bytes are digits to
the base 256 of `16 * num + 8 * more + size`, from which division gives the parts back.

**Blockwise.** `BodiesIntact` speaks of what was handed over; what makes it so is where each
block comes from. `IInv` adds to the types that a client's position is a block boundary of its
own payload (`ClientsSegment`), that every datagram carries the block its option names, with
the "more" flag set except on the last (`DatagramsSound`), that an acknowledgement repeats an option
some client wrote (`RepliesSound`), and that the cache holds, at each byte index, that block
of that token's payload (`CacheSound`). A datagram therefore never needs to be recent, only
sound, and repetition and expiry take nothing from the invariant. The step that matters is
`Execute`. The code checks that the blocks it has are in line and end with this one
(`Contiguous`, `EndsWith`). The lemma `AllBlocks` shows that these are then all the blocks: if
some were missing, take the least that is above the first; the next one that is there would
have to begin where the one before it ends, which is the missing one.

The other properties of a transfer need to know more of what was sent, in three
invariants on top of this one. `JInv` is about
uploads: the n-th message id of a request carries its n-th block for as long as the
request is not executed (`Linked`, `Sorted`), which follows from a client that moves on
only when the block in hand is acknowledged (`Progressing`); what the
cache holds, acknowledgements and executions trace back to those blocks
(`CacheLinked`, `ContentSound`, `ExecutedSound`), so that whatever was executed had its earlier
blocks acknowledged (`Confirmed`). The refinement of `Transfer` needs
`OnceEach` of it as well. `ConfirmedBefore` adds to it that every datagram was sent when the
blocks before its own had been acknowledged (`InOrder`): the client moves on by one block, and
only for an acknowledgement that repeats the option of the block in hand, which the server
gives for a datagram with that block and no other. `LInv` says of a prompt token that what is being served stays in
the cache once it is there. `KInv` tells the story of a response: one version and one block
size, datagrams that carry blocks of these only, and a client that has asked for a block only
when it had the one before (`Collected`). Whatever block arrives, however late, therefore
continues one that the client has (`InLine`); when the last one comes, nothing is missing. A
second execution may tell another story under the same token, which is why the property is
about requests that are executed once.

**Oscore.** Everything rests on what the manager's methods do to a map. `Orderly` says of a map
that "older" orders its keys, so that a map that is not empty has a first one; lemmas say of each
method which entries it adds, keeps and takes away, and that at most `MaxTokenBindings` and
`MaxPendingEchos` remain (`BindTokenSound`, `UnboundSound`, `StoredSound`).

A nonce is accepted once because the nonces of a context rise: `EInv` says that a pending one was
made by this life of the server (`PendingMade`), later than every one accepted from that
context (`PendingIsYounger`), so that a life that begins with an empty map cannot accept an old one.
`BInv` says that a context that is bound to a token can protect the response
(`BindingsAnswerable`, `EncodingAnswerable`), so that no encoding fails that would have released a
binding. For what was refused at first this depends on `RegistersRefused`; if that is false, no
challenge of this life leaves (`NInv`), so that nobody gets to the binding.

A context that refuses requests decodes the same datagram as often as it comes, and promises
that ask for an Echo outlive the recovery. That no datagram runs twice in spite of this is
`PInv`: what has run is decoded, or the nonce it echoed is spent (`RanSound`); of a promise that
decoded its datagram, the datagram has not run and is decoded; of one that asks for an Echo,
the context still refuses or the nonce is spent (`PromisesSound`). A nonce that is spent stays
so, since those that are made later are others (`NoncesMade`).

`OInv` says that what is bound to a token of a sender is a context of that sender, so that a
reply is protected for its own client or, if the binding is lost, not at all. Two clients that
have one sender id under different ID contexts are not told apart, as the table above shows.

Only model-checked are the liveness properties (`EndsExchange`, `Resolves`, `AutoCloses`,
`AcknowledgesRequests`, `Relayed`), which are out of the prover's reach, and `UnderOwnContext` and
`ExecutedOnce` of `Oscore`, which hold for the clients of the run and not for all: a client's second
request breaks either. What holds of any number of requests is proved instead
(`NobodyElseReads`, `DatagramsRunOnce`).

## Not modelled, and what is left

What each component leaves out is said under "The modules". Of whole parts,
`option_converter.ts`, the rest of `helpers.ts` and `incoming_message.ts` are not modelled:
they are pure conversions of one packet; nor are `index.ts` and `models.ts`, which only
declare and re-export. Parsing and generation of datagrams and OSCORE's cryptography are in
other packages.

Worth doing next, in this order:

1. `Exchange`: an agent's request and a server's response joined by one lossy channel, with
   an abstract request/response specification as its promise; both modules exist, their
   datagrams do not meet yet.
2. `Server`: expiry of cache entries, `response.reset()`. `Observation`: the content of
   notifications, streams with filtering disabled, notifications in blocks.
3. `Agent`: a socket passed in by the application; multicast requests converted to unicast.
4. Proofs: `UnderOwnContext` for a client that makes its next request when the last one has been
   answered.
