# TLA+ models of the OpenVPN 3 core

This directory holds specifications of the parts of OpenVPN 3 (`src/openvpn`)
whose correctness depends on the order in which things happen: the reliability
layer of the control channel, the negotiation of a key, the replay protection
of both channels, the life of the keys of a session, the data limit of a key,
the sessions of a client and of a server and what they say to each other, and
the connection manager of a client. Each part is a module and is model-checked
with TLC on a small instance; for every part but the negotiation of a key the
safety properties are also proved with TLAPS for every value of the constants.

The modules are written from the source. `PROJECT.json` maps every definition
to the lines it models.

## 1. Inventory

### 1.1 The session core (modelled)

| Component | Source | State it keeps | Operations |
|---|---|---|---|
| Reliability layer | `reliable/*.hpp`, `common/msgwin.hpp`, `ssl/protostack.hpp` | a send window and a receive window (`MessageWindow`), the ids to acknowledge and to acknowledge again (`ReliableAck`), two write queues, `ssl_started_`, `invalidated_` | `raw_send`, `app_send`, `start_handshake`, `net_recv`, `flush`, `retransmit`, `invalidate` |
| Packet ids | `crypto/packet_id.hpp`, called from `crypto_aead.hpp` and `proto.hpp` | the sender's `pid_`; the receiver's ring buffer of bits with `base`, `extent`, `id_high`, `time_high`, `id_floor`, `expire` | `next`, `test_add` with and without `mod` |
| Data limit | `ssl/datalimit.hpp` | a byte counter and a state for each direction, the reports already made | `add`, `update_state` |
| Key schedule | `ssl/proto.hpp` (`KeyContext`, `ProtoContext`) | a primary and a secondary key, each with a current event, a next event and its time, `key_limit_renegotiation_fired`; `upcoming_key_id` | `process_events`, `active`, `schedule_key_limit_renegotiation`, `renegotiate_request`, `promote_secondary_to_primary`, `disconnect` |
| Key handshake | `ssl/proto.hpp` (`KeyContext`: `start`, `net_recv`, `raw_recv`, `app_recv`, `post_ack_action`, `active`, `app_send`), `ssl/psid_cookie_impl.hpp` | the state from `C_INITIAL`/`S_INITIAL` to `ACTIVE`, whether TLS has begun, `app_pre_write_queue`, `app_recv_buf` | `start` (also after a cookie), `net_recv`, `app_send`; each followed by `flush` |
| Server session | `server/servproto.hpp`, `server/manage.hpp`, `server/servhalt.hpp`, `time/coarsetime.hpp` | `disconnect_type`, `disconnect_at`, `preserve_session_id`, the housekeeping timer and the schedule behind it, `halt`, the tun | `push_reply`, `push_halt_restart_msg`, `relay`, `schedule_disconnect`, `schedule_auth_pending_timeout`, `post_cc_msg`, `control_recv`, `transport_recv`, `data_limit_notify`, `housekeeping_callback`, `stop` |
| Client session | `client/cliproto.hpp`, `client/clihalt.hpp`, `client/clicreds.hpp`, `options/continuation.hpp` | `halt`, the options received so far, `fatal_`, the tun, three timers, `info_hold`, the credentials | `control_recv` of every message, the timers for push requests, held INFO events and inactivity, `stop` |
| Client connection manager | `client/cliconnect.hpp` | `generation`, `halt`, `paused`, `dont_restart_`, the session and whether it is finalized, three timers, `conn_timer_pending`, `asio_work`, `bulk_resolve`, the relayed transport, the position in the remote list | `start`, `stop`, `pause`, `resume`, `reconnect`, the timer handlers, `bulk_resolve_done`, the `client_proto_*` callbacks |

How they interact. `ClientConnect` creates one `ClientProto::Session` after the
other. A session, of a client or of a server, owns a `ProtoContext`, which owns
at most two `KeyContext`s. A `KeyContext` is a `ProtoStackBase`: control packets
reach it through `net_recv`, and every handler ends in `flush`, which lets the
negotiation go on (`post_ack_action`), sends what the window admits, raises the
`KEV_*` events that are due and lets `process_events` answer them. Once a key is
ACTIVE, `app_send` and `control_recv` carry the messages of the two sessions:
PUSH_REQUEST one way, PUSH_REPLY, AUTH_PENDING, INFO, RELAY and the messages
that end a session the other. On the server most of them come from the
management layer, which is not in the repository and may call the session at any
moment. Data packets pass through `encrypt` and `decrypt` of a key, which test
packet ids and count bytes; both may ask for a new key with
`schedule_key_limit_renegotiation`. A client session that fails calls
`client_proto_terminate` of its parent, which decides between another session
and the end.

Everything of one client runs in one thread. What makes it hard is not
preemption but the order of handlers: packets that are lost, repeated and late,
or come several at once; ACKs that come without what they were sent for;
handlers of timers that were queued before the timer was cancelled; a timer of
housekeeping that is late; two keys that reschedule each other's events; calls
of the user and of the management layer that come at any moment.

### 1.2 Parts that are planned

| Component | Source | What makes it correct |
|---|---|---|
| Control channel wrapping | `ssl/proto.hpp` (`decapsulate_*`), `crypto/tls_crypt*.hpp` | the replay check and the receive window together lose no message |
| Keepalive | `ssl/proto.hpp` | a dead peer is noticed, a live one is not given up |
| Remote list | `client/remotelist.hpp` | the index always names an item, pruning and resolving while a session uses the list |
| Session id cookie | `ssl/psid_cookie_impl.hpp` | a cookie is good for its interval and the next, and for no other |
| Stream framing | `transport/pktstream.hpp` | the packets come out as they went in, however the stream is cut |
| Stop scopes, address pool | `common/stop.hpp`, `addr/pool.hpp` | a callback runs once; an address is given to one client |

### 1.3 Parts that are left out

Wrappers of TLS and crypto libraries, ciphers and compression, tunnel setup,
kernel offload, platform services, the HTTP and websocket library, the
management front ends, option parsing, addresses and routes, buffers. They
either call something that is not in the repository or compute on data without
control of their own; `PROJECT.json` lists each with its reason.

## 2. Modules

| Module | Models | Used by |
|---|---|---|
| `MsgWindow` | `MessageWindow`: window, store, erase, purge | `Reliable` |
| `Reliable` | both ends of the control channel of one key and the network between them | `MCReliable`, `ReliableProof` |
| `FifoChannel` | abstract: two FIFO channels | refined by `Reliable` (`ChannelSpec`) |
| `ReliableProof` | proofs about `Reliable` | |
| `KeyAgreement` | abstract: what a negotiation promises its owners | refined by `Handshake` (`AgreementSpec`) |
| `Handshake` | both ends of the negotiation of one key, on top of what `Reliable` provides | `MCHandshake` |
| `PacketId` | a sender of packet ids, a receiver and the network between them | `DataChannel`, `PacketIdProof` |
| `PacketIdProof` | proofs about `PacketId` | |
| `DataLimit` | the class `DataLimit` | `DataChannel`, `KeyDataLimit`, `DataLimitProof` |
| `DataLimitProof` | proofs about `DataLimit` | |
| `DataChannel` | what a key of the data channel counts: `PacketId` and `DataLimit` side by side | `MCDataChannel` |
| `KeyDataLimit` | the class as `KeyContext` calls it | `MCKeyDataLimit` |
| `KeySchedule` | the events of the two keys of a `ProtoContext` | `KeyScheduleProof` |
| `KeyScheduleProof` | proofs about `KeySchedule` | |
| `ControlMessages` | the messages of the two sessions and the channel between them | the next four |
| `PushServer` | abstract: what a client may expect of a server | refined by `ServerSession` (`ContractSpec`), used by `Session` |
| `ServerSession` | `ServerProto::Session` under any management layer and any client | `MCServerSession`, `ServerSessionProof` |
| `ServerSessionProof` | proofs about `ServerSession` | |
| `ClientSession` | `ClientProto::Session` with its credentials | `Session` |
| `Session` | the sessions of one client, one after the other, with any server that `PushServer` allows | `MCSession`, `SessionProof` |
| `SessionProof` | proofs about `Session` and the methods of `ClientSession` | |
| `ClientConnect` | the connection manager of a client | `ClientConnectProof` |
| `ClientConnectProof` | proofs about `ClientConnect` | |

Operators whose comment begins with "Mutant" are changed forms of the operator
they precede, as a plausible mistake would make it. No specification uses them;
`PROJECT.json` names, for every checked property, one that breaks it.

### 2.1 Reliable

One action is one handler run to its end. The callers follow every
`net_recv`, `app_send`, `raw_send` and `start_handshake` by `flush(true)`, so
an action ends with `Flush`: raw packets first, then cleartext if the handshake
has started, as far as the window has room, then a standalone ACK if no control
packet carried it. `net` is a set of packets; a packet that is received may stay
in it (a repetition), and `Lose` takes one out. A payload is a model value; the
SSL object turns one cleartext message into one TLS packet.

Two things are wider than in the code. Any set of unacknowledged messages may be
due for retransmission, since the timers run from each message's own last
transmission. And `StartHandshake` may come at any time, while
`KeyContext::post_ack_action` calls it when the resets have been acknowledged;
every behaviour of the code is one of the model.

The history variables `sent` and `rcvd` are what the abstract `FifoChannel`
sees.

### 2.2 Handshake and KeyAgreement

`Handshake` has one key id, with the `KeyContext` of each end. It stands on
`Reliable` as on a layer that is already shown to be right: the packets of an
end reach the other in order and once. Two properties of the real layer stay
visible because the state machine depends on them. Several packets may be
passed up by one handler, when one that was missing arrives. And the ACKs of a
packet come with any later packet, at most `ControlAcks` on each, or alone, so
that `n_unacked()` may be anything from nothing to all that was sent. TLS is
external and takes three flights. `boot` and `initiators` choose how the
negotiation begins: with the hard resets of a first key, with the cookie of
`psid_cookie_impl.hpp`, or with the soft reset of the client, the server or
both.

`KeyAgreement` is the promise in four variables: who has contributed key
material, who is ACTIVE, what each owner said and what each owner was passed.
What an owner is passed is what `control_recv` is given, joined or not (see
section 5).

### 2.3 PacketId

`long_form` chooses between the control channel (ids with a time, tested
without `mod` before the packet is looked at and added afterwards) and the data
channel (tested and added at once). The ring buffer keeps its shape: `base`,
`extent`, the bits and how they are cleared. The clock may be set to any time,
also back. A short id that wraps throws `packet_id_wrap`, which ends the
session; a long one takes a new time, which is assumed to be later than that of
the wrap before (2^32 control packets take longer than a second).

### 2.4 DataLimit, KeyDataLimit and DataChannel

`DataLimit` has the class as it is, with counters that wrap at `Modulus`.
`KeyDataLimit` puts `data_limit_add` in front of it, as `do_encrypt` and
`decrypt` call it. `DataChannel` puts the packet ids and the bytes of a key
side by side; they share no state, so the steps of one are followed while the
other is at rest.

### 2.5 KeySchedule

A key has the time that is left until its next event, so that clock values do
not grow. `Tick` may step past an event's time, as happens when the timer of
housekeeping is late, and any other handler may come before it. One pass of
`process_events` is one step; `pass` counts the passes of one `flush`, so that
termination of its loop is the invariant `FlushTerminates` rather than a
liveness property. `server`, `limited`, `healthy` and `errors` are chosen at the
start: which end this is, whether the cipher has a data limit, whether the
environment completes every negotiation in its window, and whether SSL and
decryption errors invalidate keys.

The messages of a negotiation are abstracted: a key that was created becomes
ACTIVE, is invalidated or times out. The end of a session is an invalidated
primary, which its owner answers with `stop`.

The times are options: by default 60 s of handshake window and become-primary,
an hour to renegotiate and as much again to expire, with the handshake window
added to the renegotiation time of a server. `TimeAssumption` asks only that the
handshake window is no longer than the renegotiation time, and that the expiry
does not come before it. Nothing in `load_common` enforces this of a profile
that sets `reneg-sec`, `tran-window` and `hand-window` against each other.

### 2.6 ServerSession, ClientSession and the contract between them

`ServerSession` follows one client's session under every call the management
layer can make (`ManClientInstance::Recv`), the packets of any client, and the
timer. Times are relative to now, in half seconds. The methods are functions of
the session; `out` collects what a handler sends, `k` is `next_housekeeping` of
the keys, which may be any of `KeyTimes`. `timer` is the asio timer, `schedule`
what `CoarseTime` remembers of it, and `queued` a handler that was queued before
the timer was set anew. Calls of the management layer are bounded by `MaxCalls`,
the lateness of the event loop by `MaxLate`.

`ClientSession` is a session from ACTIVE to `stop()`. A packet may bring several
messages and each of them is processed, also after one that stopped the session,
as in the code. One message is one step: `receiving` says that more of the same
packet follow, and until it is over no other handler of the client runs
(`Idle`). What survives a session are the credentials (`creds`): the session id
or token, the password, and whether a web authentication has involved the user.
`fatal` is the error the session records, `ended` the one `ClientConnect` finds
when `stop()` calls it; a later message of the packet may change the first and
not the second. ACC messages, echo and the client's housekeeping timer are left
out.

Timers have no times: the handler of one that is set may be called at any moment
and need not be. `stop()` cancels the timers, and `timers` keeps them: `cancel`
does not take back the handler of a timer that has expired, and the handler of
one that has not is called with an error and returns, which is the same as not
being called. So every handler that may be queued when a session stops runs
after the stop in some behaviour, before the next session begins; the ones that
`reset_inactive_timer` has posted as well, which set a timer again.

The two are not run against each other. `PushServer` says what a client can see
of a server in three Booleans (`over`: it has sent a message that ends the
session; `keep`: it still preserves the session id; `gone`: it sends nothing
more). `ServerSession` is shown to implement it (`ContractSpec`, checked and
proved), and `Session` composes `ClientSession` with `PushServer` in its place.
So the client is checked against every server the contract allows, with three
sessions in a row, and the server against every client. `Reconnect` is what
`ClientConnect` does after a session that ended with an error of `Restarts`,
which has all cases of `client_proto_terminate` that queue a restart: with
`retry_on_auth_failed` also AUTH_FAILED and SESSION_EXPIRED (but for a dynamic
challenge, after which the client stops; whether there is a next session is left
open here anyway).

`over` is set by HALT, AUTH_FAILED and the RESTART messages that the server means
to end the session with. A RESTART_PASSIVE is sent as the same `RESTART,[P]`
text (`server/servproto.hpp:491`) and ends nothing on the server, nor does RELAY:
options may follow both (`Announce`).

### 2.7 ClientConnect

One handler is one step. A timer that expires puts its handler into `ready`;
after that a `cancel` does not help, which is how asio timers behave. A handler
carries the generation it was armed in, and since that is only compared with
the present one, `fresh` says whether they agree. The options that decide the
course (`conf`) are chosen at the start.

Of a session the model has what the manager sees: whether it runs, has heard a
packet, has brought the tun device up, has reported itself connected, and the
error it ends with. All errors that `client_proto_terminate` treats alike are
alike here; an error in none of its cases is thrown and reaches `connect()`,
which stops the client. Not modelled: `test_network` failing in `start`, the
lengths of the delays, and the client life cycle object, which is a source of
pause, resume and reconnect calls like the user.

## 3. Runs

| Run | Bounds | States | Checks |
|---|---|---|---|
| `reliable` | windows of 2, 3 messages from the client and 1 from the server, 2 packets in flight, one ACK per packet, 2 re-ACKs, symmetric TLS payloads | 1.2 million | safety of the control channel and that it implements two FIFO channels |
| `reliable_live` | windows of 1, 2 and 1 messages | 34 thousand | every message is delivered |
| `data_channel` | 6 ids, a window of 4, 2 clock values, an expiry of 1; limit 4, packets of up to 2, counters that wrap at 7 | 104 thousand | replay protection and the reports of the data limit |
| `keys` | handshake window 2, become-primary 2, renegotiate 5, expire 10, key ids up to 3, clock steps of up to 2 | 6.7 million | the life of the keys |
| `client` | 2 remotes, 2 calls of the user besides stop, 2 queued handlers | 380 thousand | the connection manager |
| `handshake` | 2 ACKs on a packet, an auth message of 3 packets from the client and 1 from the server, 1 message of the client's owner and 2 of the server's | 6.6 thousand | the negotiation implements `KeyAgreement` and completes |
| `server` | CoarseTime 1 before and 2 after, delays 1, 2, 4 and 6, keys that want housekeeping at once, soon or never, 3 calls of the management layer, a timer that is 1 late | 108 thousand | the disconnect is armed, the contract is kept |
| `session` | 3 sessions, 6 kinds of answer, 3 INFO messages, 4 profiles (two with `retry_on_auth_failed`), 1 error of the tun, 1 request and 1 message on the way besides the parts of an answer | 681 thousand | the client with any server of the contract |
| `key_data_limit`, `key_limit`, `handshake_server`, `client_paused` | as above | | disagreements, section 5 |

Why the bounds are enough for what they are about:

* `reliable`: three messages through a window of two make the window move, wrap
  its slots and refuse a message; with two packets in flight one can be
  overtaken and repeated; a list of two re-ACKs with room for one in a packet
  makes both limits bind. The proofs cover every other size.
* `data_channel`: six ids and a window of four let an id leap over the whole
  window, fall out behind it and come back within it, and the window be
  restarted by a new time with old bits in it; a counter that wraps at 7 is just
  wide enough for a limit of 4 and packets of 2. The proofs cover the rest.
* `keys`: the times keep the order of the defaults in the code (handshake window
  and become-primary together before renegotiate, that before expire) and let
  every pair of events of the two keys fall into one moment or one late step.
  Three key ids make the ids recycle. The proofs cover other times.
* `client`: two calls of the user allow pause with resume, a pause during a
  reconnect and a reconnect while paused; two queued handlers allow one that is
  stale behind one that is fresh. The proofs cover the rest.
* `handshake`: the client's auth message takes more packets than one packet
  carries ACKs, so that a state that waits for all of them is reached and left
  at different times; two messages of the server's owner let one overtake the
  client's way to ACTIVE and one follow it.
* `server`: the delays lie on both sides of the range of CoarseTime, so that a
  new time is similar to the old one, earlier or later; three calls allow a
  pending authentication, options and a halt in every order. The proofs cover
  the rest.
* `session`: a credential that a session was given is refused in the second, and
  the third comes after that refusal, or after a fatal one that
  `retry_on_auth_failed` passes over. The parts of an answer arrive in one packet
  with each other and after any one other message; other pairs of messages do
  not meet in a packet here. Of the errors that end a session alike one is
  chosen. The proofs cover every number of messages in a packet, every error and
  every number of sessions.

Every run but the ones with liveness is without fairness. Deadlock is not
checked since every system here may come to rest: all messages delivered, all
ids used up, the session or the client ended.

### 3.1 What the properties say

* `DeliveredPrefix`, `ChannelSpec`: what is passed up is what was sent, each
  message once, in order. `AckedOnlyIfArrived`: a message is forgotten by its
  sender only when the other end has it. `NeverBeyondWindow`: nothing in flight
  would be dropped as lying after the window. `QueuedOnlyIfFull`: a message
  waits only while it must. `InvalidatedIsFinal`: nothing happens after
  invalidation. `EventuallyDelivered`: and everything arrives.
* `AcceptedOnce`: no id is accepted twice. `HistoryExact`: the ring buffer says
  exactly which ids were. `ProbeDecides`: the second `test_add`, whose result
  is ignored, agrees with the first. `NewestAccepted`: the newest id is never
  refused. `SentOnce`: no id is sent twice.
* `AgreementSpec`: an end that is ACTIVE has both halves of the key material,
  and the owners' messages arrive once, in order and only after the negotiation.
  `ClientRequestCompletes`: a negotiation the client asked for, alone or in
  collision with the server, leads both ends to ACTIVE.
* `RedNeedsPeer`, `NoRedLost`, `LimitNoticed`: Encrypt-Red waits for
  Decrypt-Green, is then reported, and the wrapping counter cannot miss it.
* `KeyLifetime`: no key outlives its expiry by more than `Overrun`, the time two
  other events ahead of it may take. `RekeyUnderway`: a primary past its
  renegotiation time has a successor that negotiates or waits to become primary,
  unless an SSL or decryption error has invalidated that one (section 5).
  `PromotedReady`: a primary is replaced only by a key that has been ACTIVE
  for the become-primary time. `StaysUp`: a session whose negotiations succeed
  is not ended by a key's timers. `FlushTerminates`: the loop of `flush` ends
  within five passes.
* `DisconnectArmed`: as long as something is to end a server session the one
  timer runs, and early enough. `ContractSpec`: after HALT, AUTH_FAILED or a
  RESTART that is not only announced neither options nor another such message
  follow, also when the timer sent it, and `preserve_session_id` is what the
  client was told.
* `HaltIsFinal`: nothing is seen of a client session once the handler that
  stopped it has returned, whatever handlers are still queued; and within that
  handler no tun is started or stopped, unless the session was restarted or met
  an unexpected RELAY (section 5). `InfoInOrder`: INFO messages are shown once,
  in order, after CONNECTED. `NoAuthLoop`: for every token a client is given one
  refusal at most leads to another session without an error, and the id that was
  refused is gone then. It says nothing of AUTH_FAILED,TEMP and of the refusals
  the application is told of, after which `retry_on_auth_failed` starts
  sessions without end, as it is meant to.
  `PreservedIdIsKept`: it keeps the id as long as the server does.
  `SessionResolves`: it gets its options or the session ends.
* `NeverRunsDry`: the event loop does not end before `stop`. `StopDrains`:
  nothing but queued handlers is left after it. `ConnTimerGuards`: an attempt
  to connect is never without its timeout. `FinalizedWhenEnded`: the tun device
  is finalized exactly when the session has ended. `Retries`: a session that
  ended is replaced. `SilentServerLeft`: a server that is silent is left.

Two properties leave a client with a data limit out (`RekeyUnderway`,
`StaysUp`): such a client waits for Decrypt-Green, which never comes, because
nothing is counted (section 5). Its keys become primary by the expiry of the key before.

### 3.2 Fairness

* `Reliable!FairSpec`: weak fairness of `StartHandshake`; strong fairness of
  retransmitting the oldest message, of receiving a packet with the peer's
  oldest message and of receiving an ACK of one's own oldest message. The first
  two are what the timer of housekeeping and the state machine of the key give;
  the others are the usual assumption of a network that does not lose the
  same message for ever. Weak fairness of `Lose` says only that old packets do
  not fill the bounded network of the model.
* `Handshake!FairSpec`: weak fairness of `Start`, of receiving the next packet
  and of receiving an ACK that is missing. This is what `EventuallyDelivered` of
  `Reliable` gives: what was sent arrives, and what arrived is acknowledged
  again until the ACK arrives. The timeout of a negotiation is left to
  `KeySchedule`.
* `Session!Fairness`: packets are received (weak fairness of `ClientRecv`) and
  the timer of push requests fires (strong fairness of `PushRequestTimer`, which
  is not enabled within a packet: the queue of asio is first in, first out, so
  that packets do not keep a handler out of it). The management layer
  may drop any request, but not every one of an endless row of them, and answers
  what it has heard (strong fairness of `Ask` and `Answers`); this is the one
  assumption about code outside the repository. A server that is gone is noticed
  by keepalive, which ends the session (weak fairness of `Breaks` while the
  server is gone).
* `ClientConnect!Spec`: the event loop runs handlers that are ready, and a timer
  that is neither cancelled nor restarted expires. No fairness is assumed of the
  server, the resolver or the user; `Retries` and `SilentServerLeft` allow for
  `paused` and `halt`, which are the user's. The number of calls is bounded,
  without which a user who reconnects for ever would restart the timer for ever.

## 4. Proofs

The proof modules follow the same plan: an inductive invariant `IInv`, lemmas
about the operators, one step per action, and theorems that read the properties
off `IInv`. The invariants were checked with TLC before they were proved.

**ReliableProof.** Assumptions: two ends, spans and list lengths that are
positive, `SendSpan <= RecvSpan` (6 and 8 in the code). `DeliveredPrefix` alone
is not inductive: it says nothing of what is in flight. `IInv` adds what each
slot of a send window holds (the message with that id, or a mark that it was
erased), what each slot of a receive window holds, that every id in a re-ACK
list, in a packet or erased from a send window has arrived at the other end, and
that a packet in flight carries the message its id stands for. `FlushStep` and
`UpSequencedStep` describe the two halves of every handler once;
`HandlerStep` combines them, and shows at the same time that the step is one of
`FifoChannel`. `QueuesDrained` and `InvalidatedFinal` read a second
pair of facts off the same description of a handler: that `flush` empties the
queues as far as the window has room, and that no handler of an invalidated end
touches it. Theorems: `TypeCorrect`, `Delivery`, `AckSafety`, `WindowsAgree`,
`Refinement`, `QueuesDrained`, `InvalidatedFinal`.

**PacketIdProof.** Assumptions: a window of at least two ids, positive expiry.
The heart is `Describes(r, accepts)`: the window describes the ids accepted so
far, none above its high id, exactly by its bits within its extent. It is shown
to survive each of the ways `do_test_add` changes the window (`Tested`,
`Restarted`, `Forward`, `Marked`), on lemmas about indices modulo the window
size. `HighSeen` and `SentInv` tie it to what was sent. Theorems: `TypeCorrect`,
`NoReplay`, `ExactHistory`, `ProbeAgrees`, `NoLockout`, `NoReuse`.

**DataLimitProof.** Assumptions: a counter has room for one packet beyond the
limit and for two packets (a 32-bit counter, limits of 48 MB and packets of less
than 64 KB). `IInv` says that a direction with a limit that is not Red yet has a
counter that has not wrapped and is below the limit unless a single first packet
was above it (`CounterInv`), that the flags are the reports the states imply
(`FlagInv`), and that Red was returned when the last of the reports it waits for
came (`ReportInv`); `NoRedLost` alone does not remember which reports were made.
Theorems: `RedAfterPeer`, `RedReturned`, `CounterNotices`.

**ServerSessionProof.** Assumptions: delays and times of the keys below
`Infinite` by more than the range of CoarseTime, lists of PUSH_REPLY messages.
`DisconnectArmed` is not inductive, since `set_housekeeping_timer` looks at the
schedule and leaves the timer alone: the invariant `SInv` adds that the schedule
of a session that has not stopped is either unset or the time of the timer
(`Sound`), which is what a stale handler must not break. `TimerSet` shows once
that the timer arms whatever `disconnect_at` says; then there is one lemma per
method, and one per action which shows that the invariant survives and that the
step is one of `PushServer` or a stutter, together (`NextOK`). Theorems:
`DisconnectIsArmed`, `ContractKept`. The second is the assumption under which
`Session` is checked, for every delay and every order of calls.

**KeyScheduleProof.** Assumptions: positive times with the handshake window no
longer than renegotiate and renegotiate no longer than expire (section 2.5); the
clock may be late by any amount, the order and number of requests is free.
`IInv` is `TypeOK` with `PairInv`, what holds of the two keys:

* `KeyInv`, what the scheduled event says of a key (a key that waits for
  `KEV_BECOME_PRIMARY` is ACTIVE and has been for the rest of that time; one that
  waits for `KEV_NEGOTIATE` is younger than its window, and so on);
* `LifeInv` and `ForcedInv`, the age at which that event is due. `KeyLifetime`
  alone says nothing of a key before its last event;
* `SuccessorInv`, that a primary on its way out has a secondary that negotiates
  or waits to become primary, or, if there are such errors, one that an error
  has invalidated. This is why `StaysUp` and `RekeyUnderway` hold: `KEV_EXPIRE`
  of the primary finds a key to promote;
* `QueueInv`, `RaisedInv` and `IdleInv`, in which situations an event crosses
  from one key to the other.

A pass of `process_events` answers first the primary, then the secondary, and
what it computes is nested four operators deep. `FirstHalf` and `SecondHalf`
reduce each half to a list of cases, and the invariant is carried over `Midway`,
what holds between the halves, to the state after the pass. `FlushEnds` needs
more: `Rank` bounds the passes that are left, from what a key would do alone and
how the two disturb each other, and `PassLowers` shows that each pass lowers it;
`FlushTerminates` itself only counts. It is proved under the condition
`Punctual`, that the clock is never late by the time from the handshake window
to the expiry (two hours less a minute with the defaults); section 5 says what happens
otherwise. Theorems: `TypeCorrect`, `Up`, `Rekeying`, `Lifetime`, `Promoted`,
`FlushEnds`. Two bounds changed with the proof: the one of `KeyLifetime`, which
TLC refuted for a late clock and a long become-primary, and the number of passes,
of which the checked instance never takes more than four.

**SessionProof.** Assumptions: profiles of the five options modelled, lists of
PUSH_REPLY messages; sessions, requests, INFO messages and messages on the way
are bounded by constants of any value. `SInv` has three parts: `ClientInv` of
the session (its types, INFO messages held back as long as `holding` says, a
refused session id that is gone), `ChannelInv` of the channel, and `KeepInv`,
which `PreservedIdIsKept` lacks: while the server keeps the session id, no
message on its way to the client is one that purges it. There is a lemma for
each method, and `ControlRecv` is put together from them, message by message.
The theorem about stopped sessions needs another invariant, `PacketInv`, of what
is left in a packet: no options come after a HALT or an AUTH_FAILED
(`OrderInv`), and options are left for a session that has stopped only if
its error allows them or it expects a relay, which refuses them (`LeftInv`).
`Follows` says of each method what it does to a session that has stopped or
stops in it. Theorems: `TypeCorrect`, `InfoOrdered`, `NoLoop`, `IdPreserved`, `HaltFinal`.
What they assume of the server is `PushServer`, which `ContractKept` proves of
`ServerSession`.

**ClientConnectProof.** Assumptions: at least one remote and room for one queued
handler. `NeverRunsDry` is not inductive, because a queued handler is work and
may still be ignored when it runs. `Alive` says what keeps the client going
without it: a session, the first resolution, the work object of a pause, or a
restart timer or handler that is not stale. `ConnPending` ties
`conn_timer_pending` to the timer, which `conn_timer_start` relies on when it
leaves a timer alone, and `NothingBegun` covers the time before `start`.
Theorems: `TypeCorrect`, `NeverDry`, `StopIsFinal`, `TimeoutGuards`,
`Finalized`.

**Only model-checked.** `EventuallyDelivered`, `ClientRequestCompletes`,
`SessionResolves`, `Retries` and `SilentServerLeft`, because liveness under
fairness is out of reach of the prover. `AgreementSpec` of `Handshake`, whose
handlers fold over a list of packets: what a fold computes for every list needs
induction over data, which the prover does not have. The bounds of the models
(`MaxMsgs`, `MaxNet`, `MaxId`, `MaxTime`, `MaxCalls`, `MaxLate`, `MaxLeap`,
`MaxReady`, `MaxPosts`) are constants in the proofs and may have any value.

## 5. Disagreements found

* `key_data_limit`: `data_limit_add` (`ssl/proto.hpp:2561`) tests
  `is_safe_conversion` the wrong way round. It returns before it counts for
  every size that fits, so the data limit of a 64-bit block cipher never
  triggers; `do_encrypt` returns early with it, and `decrypt` drops the packet
  and over TCP invalidates the key.
* `key_limit`: `schedule_key_limit_renegotiation` recognises a secondary
  by `next_event == KEV_BECOME_PRIMARY`, which the first primary has as well
  until `become_primary` has passed. The request goes to
  `KEV_RENEGOTIATE_QUEUE`, which a primary ignores, and is not made again. The
  property fails in a second way that the shorter counterexample hides: the
  request that a secondary queues on the primary is overwritten by
  `prepare_expire` when the secondary is promoted.
* `handshake_server`: a renegotiation that only the server asks for does not
  complete. The client answers the server's soft reset by going on to TLS
  (`raw_recv`), without a reset of its own; the server waits for one in
  `S_WAIT_RESET` and holds the client's TLS packets back. The negotiation ends
  by its timeout; it is the client's own request, which comes at the same age of
  the key, that renews the keys.
* `client_paused`: a client that is paused during its first name resolution
  starts a session when the resolution is done.

Other behaviour that the models show and no run calls wrong:

* Key ids recycle, so that after enough failed negotiations in a row a secondary
  has the id of the primary. A soft reset before the first key is ACTIVE lets
  the secondary overwrite the handshake deadline of the primary.
* If the clock leaps over the rest of a key's life while the first key is still
  in its handshake and a secondary becomes ACTIVE before housekeeping runs,
  `flush` never returns: `KEV_NEGOTIATE` of the primary invalidates both keys,
  `KEV_ACTIVE` of the secondary then gives the invalidated primary an expiry that
  is past (`prepare_expire`, `ssl/proto.hpp:1945`), and since `kev_error` clears
  the next event only when it is the one to invalidate the key, an event is
  pending for ever. `FlushEnds` shows that nothing less leads there.
* `S_WAIT_RESET_ACK` and `S_WAIT_AUTH_ACK` are left without waiting when what was
  sent earlier is acknowledged: `post_ack_action` runs before the new packet is
  in the send window.
* A message that comes in `C_WAIT_AUTH_ACK` stays in `app_recv_buf` and is given
  to `control_recv` joined to the next one. Each ends in a NUL, so the joined
  text has one in the middle and `control_recv` of the client refuses both.
* A secondary that an SSL or decryption error has invalidated has no event left
  (`invalidate_callback`, `ssl/proto.hpp:2524`) and stays where it is. Only a
  soft reset of the peer or a key limit of the primary replaces it; otherwise
  KEV_EXPIRE of the primary finds no key to promote and ends the session
  (`ssl/proto.hpp:4528`).
* `control_recv` does not look at `halt`: the messages that come in one packet
  after one that stops the session are still processed. Options that come after a
  RESTART that the server has only announced (or after an option the client
  rejects, or a RELAY it does not expect) start a tun in a session that has
  stopped. Since `stop` does nothing the second time, that tun runs until the
  session object is destroyed, which is when the next session replaces it.
* `schedule_disconnect` is forgotten when `push_reply` ends an AUTH_PENDING,
  although `server/manage.hpp:156` calls it "schedule a low-level connection
  disconnect in seconds".
* After AUTH_FAILED,TEMP the client keeps a session id that the server has given
  up (`preserve_session_id`), and is refused once when it comes back.
* `conn_timer_callback` does not look at its generation and may end a session
  that has just connected; a relayed transport that no session has taken over is
  not stopped by `stop`.

## 6. Plan

1. `ControlWrap`: `PacketId` and `Reliable` composed as
   `decapsulate_post_process` does, where a packet that fails the replay check
   is acknowledged.
2. `RemoteList`: index, pruning, caching, bulk resolution, as a refinement of
   the position in `ClientConnect`.
3. Two keys of `Handshake` under `KeySchedule`, with timeouts and recycled key
   ids; keepalive.
4. `PsidCookie`, `PktStream` (framing against a reference definition),
   `StopScope`.
5. Proofs: `AgreementSpec` of `Handshake`, with the packets of one handler as
   steps of their own so that no fold is left; the new modules above.
