# EmperorLauncher in TLA+

EmperorLauncher makes *Emperor: Battle for Dune* (2001) run on modern Windows.
A launcher starts the game with a DLL of hooks in it; the DLL replaces the
dead Westwood Online service by a lobby server and a UDP proxy that run inside
the game process of whoever hosts. This directory holds TLA+ models of that
program, the TLC runs that check them, and proofs checked by TLAPS.

    tlc -workers 2 -config MCServerTwo.cfg MCWolIrcServer
    tlc -workers 2 -config MCProxy.cfg MCWolProxy
    tlapm WolIrcServerProofs.tla
    tlapm WolLobbyProofs.tla

## 1. The system

| Part | State it keeps | Operations |
|---|---|---|
| Lobby server, `EmperorHooks/WolIrcServer.*` | vector of connections; per connection: nick, codepage, locale, the game it hosts (name, topic, vector of member pointers), pointer to the game it is in; one mutex | accept, receive, 24 commands, teardown |
| UDP proxy of the host, `WolProxyServer.*` | table of clients (address, port range, time of the last packet), received packets per port | receive and route, keepalive and eviction, send |
| UDP proxy of a client, `WolProxyClient.*` | address of the server, game speed of the host, received packets per port | receive, keepalive, send |
| Socket hooks, `WolProxyBase.*`, `WolCommon.hpp` | per hooked socket: peer, window and message for events | connect, send, recv, recvfrom, WSAAsyncSelect, gethostbyname |
| Frame limit and hook installation, `PatchWol.cpp` | port range, frame limit, the proxy in use | setFrameLimit, set port range, init |
| Launcher handshake, `EmperorLauncher.cpp` | named mutex, shared mapping, event, thread message | start the game, hand it the decrypted data, wait |
| Settings, `EmperorLauncher.cpp`, `Settings.hpp` | six registry values, a dialog that shows them | read, write, click, Play |
| Installer, `Installer.cpp`, `wmain` | the installed files, a temporary registry key | copy discs, unpack, patch, write resource.cfg; decide whether to install |
| Network test, `NetworkTest.cpp` | two sockets | 15 UDP probes, one TCP exchange |
| CD check, `DoCdCheck.cpp` | none | look for a disc or a folder, and again |
| Direct3D hooks, `HookD3D7.cpp` | which functions are detoured, time of the last frame | create objects and devices, limit a frame |
| Registry redirection, `PatchRegistry.cpp` | none | rewrite a key path |
| Window management, `PatchWindowManagement.cpp` | handles | resize, pass messages on |

How they interact. The launcher writes the settings, starts `Game.exe` with the
DLL and hands it a shared mapping. In the game, `dllmain.cpp` installs the
hooks: as a host it starts the lobby server and the proxy server, as a client
the proxy client. The game's WOLAPI talks to the lobby over TCP port 4005
(found through the hooked `gethostbyname`): it hosts, joins, chats, and STARTG
starts the match. The match then runs over hooked UDP sockets: each packet is
wrapped in a header and sent to the host, which delivers it locally or forwards
it to another client. The host's game speed travels in that header and bounds
the frame rate of the clients.

Hard behaviours:

* **Lobby.** One thread per connection; the order of chunks of different
  clients is arbitrary; a client may vanish at any time; connections point at
  each other with raw pointers, in vectors where a connection may be listed
  after it left, twice, or in two games. Almost every command asserts what it
  expects, and a failed assertion ends the host's whole game process.
* **Proxy.** UDP loses, repeats and reorders. Clients are known by their source
  address and by a port range they announce in each packet; they are evicted
  after a minute of silence; a restarted client appears a second time.
* **Socket hooks.** The game, the receiving thread and the keepalive thread
  share the sockets and the queues; events must be posted so that the game
  neither misses a packet nor is flooded.
* **Accept loop.** A new thread reads the accept loop's local variable when it
  starts to run, not when it is made.
* **Launcher, settings and installer.** Two processes that meet through an event
  and a message, each of which can time out or die; several launchers at once
  on one mutex, one set of registry values, one temporary key and perhaps one
  directory; an installation that can be interrupted anywhere.
* **Retries.** The network test and the CD check look again and again at
  something that changes meanwhile.

What correct means, part by part. *Lobby*: pointers between connections are
good whenever they are followed; members and games agree; what is said in a
game reaches its members and no others; everyone in a game learns that it
starts; dead connections go away. *Proxy*: a packet is delivered to the client
it was addressed to, with the source it came from, or not at all; live clients
are never evicted; the frame limit is never above the host's speed. *Socket
hooks*: a packet that has arrived is eventually read, in order per port.
*Launcher*: the game gets its data or both sides give up; the game runs with
what the dialog showed. *Installer*: what is taken for installed is complete.
*Network test*: what it says of the host is true. *CD check*: the right disc is
taken as soon as it is in. *Frame limiter*: frames take their time, and no longer.

## 2. Plan

| # | Module | Content | State |
|---|---|---|---|
| 1 | `PointerVectors`, `VectorLoops` | the loops over member vectors | done, proved |
| 2 | `WolIrcServer` | the lobby server | done, proved |
| 3 | `WolLobby` | `WolIrcServer` composed with the players' games and TCP streams in both directions: lines that cross a PART or a KICK; sends that block | done, proved |
| 4 | `WolProxy`, `Datagrams` | host and client proxies over a lossy network, the UDP part of the network test, the frame limit; abstract specification: datagrams between games | done, proved |
| 5 | `SocketHooks` | entries, queues and events of `WolProxyBase` | done, proved |
| 6 | `AcceptLoop` | the accept loop and the start of its threads | done, proved |
| 7 | `LaunchHandshake` | two processes and the kernel objects between them | done, proved |
| 8 | `Installer` | launchers that install, patch, check and are killed | done, proved |
| 9 | `Settings`, `NetworkTest`, `CdCheck`, `FrameLimiter` | small modules, checked side by side in `MCParts` | done, proved |

`WolLobby` EXTENDS `WolIrcServer` and lets each of its handlers act on the head
of a stream. The other modules stand alone: the parts they model meet only
through the game.

Every invariant and every action property of the passing runs is a theorem. What
is left is the liveness, which stays with TLC, and `HostRules` of `WolProxy` for
a single client, with which it would hold.

## 3. What is modelled

### PointerVectors and VectorLoops

The server keeps the members of a game in a `std::vector<Connection*>` and
walks over it with index loops. Three of them matter:

* a search loop that stops at the first match (`Select`, `FirstPosition`,
  `Scanned`: the entries it has read, and so dereferenced, by then);
* `erase(begin() + i); break;` in KICK (`DropFirst`);
* the loop of the teardown, which erases and goes on with the next index, and
  so steps over the entry that slid into the erased place
  (`WolIrcServer.cpp:240-244`). Of a run of equal entries it erases the first,
  the third and so on. `Erased` says so in closed form, `EraseSkipping` is the
  result.

These are functions, not recursive operators, so that they can be proved about.
`VectorLoops` is the same two loops one iteration per step; its run compares
the results with the closed forms for every vector of up to five pointers out
of three, which contains runs of every length and every position.

### WolIrcServer

| Code | Model |
|---|---|
| `connections`, `nextGameId`, `connectionsMutex` | `connections`, `nextGameId`, `mutex` (the connection whose thread holds it) |
| fields of `Connection` | functions on `Conn`: `nick`, `codepage`, `locale`, `hosting`, `channelName`, `topic`, `members`, `channel`, `connected`, `gameId` |
| `run` | `Accept` |
| `clientLoop`: `recv` returned data; it failed; the chunk is done; after the loop | `RecvChunk`, `RecvFail`, `EndChunk`, `Teardown` |
| one line of a chunk, `handle_X` | `HandleX` (JOINGAME is `HandleHost` with 9 tokens and `HandleJoin` with 3; the forms of GAMEOPT, PRIVMSG and PAGE to a game and to a nick are actions of their own) |
| `wolcommand_assert`, null and freed pointers | `Run(asserted, touched, effect)`: if the assertion fails, or a pointer the handler follows is null or dangling, the process dies (`fault`), otherwise the effect happens |
| `send` | `sent`: per connection the lines the last step wrote to it, in order |

`RecvChunk` takes the mutex and each command is a step of its own while the
mutex is held, because a chunk is a sequence of lines of any length, handled
under one lock; `RecvFail` may happen in between, as `connected` is cleared
before the lock is taken. A connection that has said QUIT still handles the
rest of its chunk, as the code does.

`movers` is a history variable: the connections that have left a game with a
guest's PART or entered a game while in another one. No action reads it except
to add to it. It names the cause of every stale pointer, and the properties
say that there is no other.

Abstractions, each of them a decision about data:

* Nicks, game names and topics are values; `"#" + name` is the name. Payloads,
  addresses, times and the fixed fields of replies are left out, and a reply
  is its command or numeric with the nick and game it names.
* Commands with the wrong number or form of arguments, and unknown commands,
  are `HandleBadLine`: the assertion that ends the process. Handlers that do
  nothing are `HandleIgnored`; those that answer with fixed text
  `HandleFixed`.
* A value of `Conn` is accepted at most once, so a pointer to a destroyed
  connection stays distinguishable from a new one. (In the program the memory
  may be reused; then the pointer leads to a wrong connection, which is no
  better.)
* A handler that dies part of the way has already written some lines; they
  are dropped, as nobody can act on them inside the model.
* A thread starts when its connection is accepted, and `send` returns.
* `MaxMembers` bounds the entries of one vector, in the guards of `HandleHost`
  and `HandleJoin`.

### WolProxy and Datagrams

`Datagrams` is what the games are promised: datagrams between game addresses
(ip and port) that may be lost, repeated or overtaken, but that arrive as sent,
at a process with that ip that has claimed that port, and that name their
sender truly. `WolProxy` is what the code does instead, and its property
`CarriesDatagrams` says that it implements `Datagrams` when the packets under
way are read without their wrapping (`Logical`).

| Code | Model |
|---|---|
| `WolProxyServer::clients` (`realReplyAddr`, port range, `lastReceiveTime`) | `clients`: a sequence of entries with `addr`, `range` and `age`, the time since the last packet |
| `receivedPacketsByPort` of a process | `inbox[p][q]` |
| `portRange` and `gameSpeedFromHost` of a client, `frameLimit` of the game | `portRange`, `speedFromHost`, `frameLimit` |
| the game speed in the host's options | `hostSpeed` |
| `WolProxyServer::run`, one packet | `HostRecvKeepAlive`, `HostRecvTest`, `HostRecvGame` |
| `WolProxyServer::sendto_override` with `forwardSend`, `sendKeepaliveLoop` | `HostSend`, `HostKeepAlive` |
| `WolProxyClient::run`, `sendto_override`, `sendKeepaliveLoop` | `ClientRecv`, `ClientSend`, `ClientKeepAlive` |
| `recvfrom_override` | `Read` |
| the patched `Set_Port_Range` and `setFrameLimit` | `SetPortRange`, `SetFrameLimit` |
| the probes of `testNetwork` | `SendProbe`, `RecvProbe`, `EndProbes` |
| `sendto` on a real socket | `Transmit`: the packet is lost, or one or more copies of it are under way, to arrive in any order |

An action is what runs under one lock of `mutex`; host and clients interleave.
A value of `Addr` is one run of a game or of the network test on a machine: the
socket of a new run has a new port, so a client that restarts is a second value
with the same ip.

Abstractions and bounds:

* A packet that arrives damaged fails its checksum and is dropped by every
  receiver; to the model it is a lost packet. Short packets are of nobody.
* Time goes by in units of the 10 s between two keepalives, at any pace against
  the steps of the loops. Ages saturate above `Timeout` (in the program the
  limit is six units), where they are alike.
* No client has the ip 127.0.0.1: the host is known by it (`servservAddr` of
  the server), so a client on the host's own machine could not be told from
  it. Only the host sends to a client's socket, so that the address of the
  server never changes. A game sends to other games, not to itself. A packet
  for an address nobody has is dropped by the host; it is a lost packet.
* The header of a packet from the host carries the host's own port range, which
  no client looks at; it is left out. `UINT_MAX` is the largest integer of TLC,
  2147483647: it is only compared.
* `setFrameLimit` of the host bounds by `hostSpeed`, of a client by what the
  last packet said; the limits of the seven speeds are those of the code.
* `MaxInFlight` and `Copies` bound the network, `MaxQueue` a queue in the guard
  of `Deposit` (a receiver then waits, and the packet may as well be lost).

`silence`, `announced`, `hostSaid` and `claimed` are history: what the host has
heard from an address and when, and what a client has heard from the host and
set. No other variable depends on them.

### WolLobby

The server of `WolIrcServer`, unchanged, with the games of the players and the
streams between them. `up[c]` and `down[c]` are the lines under way; a send to
a full `down` blocks, with the mutex held. `Received` is what `recv` returns:
any number of the lines that have arrived, whole (a command cut in two by the
stream is not modelled). `Dispatch` hands the first of them to its handler, of
every command the server knows (`Ignored` and `Answered` are those it does not
look into), and `Handle` writes what the handler sent to the streams.

The game itself is not in the repository. What a player may send follows the
readme's "How to play multiplayer" and the example sessions in
`WolIrcServer.cpp`: what fits the screen it shows (`Fits`: `LobbyScreen`,
`GameScreen`, `AnyScreen`); the screen changes with the line that is sent
(`Shows`) or read (`Read`). A player names whoever has logged in, gone or not
(`Known`), and one player in a line: a look-up of several nicks fails for the
one that is missing. Players have different nicks, as the readme asks for
(`OwnNickAssumption`: a nick stands for its player). These definitions are
marked external.

`Uses`, the kinds of lines that are sent, bounds a run, and so do `Last`, kinds
that a player sends as its last line, `Talkers`, who sends those, and `MayLeave`,
who may go without a QUIT. In the proofs they are any sets.

`ended` and `strayed` are history: somebody has sent a line that ends a stay, or
has left; a host has been in no game, or in another's (`Astray`).

### SocketHooks

| Code | Model |
|---|---|
| `socketData` (window, message, peer, `readEventSent`) | `sockets`, an entry per handle |
| `receivedPacketsByPort` | `queue`, per port |
| messages in a window's queue | `events` |
| `WSAAsyncSelect_override`, `connect_override`, `send_override`, `recvfrom_override`, `recv_override` | `WSAAsyncSelect`, `Connect`, `Send`, `Recvfrom`, `Poll`, `RecvWithoutEntry` |
| the end of `WolProxyServer::run` and `WolProxyClient::run` | `Arrive`, `Woken` |
| `bind`, `closesocket`, the window procedure | `OpenSocket`, `CloseSocket`, `HandleEvent` (external) |

`IsServer` chooses between the two proxies, which differ in whom they wake.
Neither `closesocket` nor `bind` is hooked: an entry outlives its socket, and
the system may give its handle to another one. Of `send_override` only what it
looks up before it sends is left: it follows the entry's peer, and fails if
there is none. `asked`, `dialled`, `reused` and `owed` are history.

### AcceptLoop

`slot` is the stack slot of the local variable of `WolIrcServer::run` that the
lambda captures by reference. `Accept`, `EmplaceBack` and `Detach` are the loop,
`Start` the moment a thread reads the slot: at any time after `Detach`, with
whatever is in it. `WolIrcServer` takes the thread to start at once; this module
shows what else can happen, and that nothing does unless a thread is `late`.

### LaunchHandshake

A value of `Launcher` is one run of the launcher after Play with the game it may
start. `mutex`, `event` and `opened` are the open handles of the kernel objects,
which live as long as one is open; `message` is the thread message, lost if the
game's thread has no queue yet. Either process may be killed at any step; a
failed assertion shows a message box, with all handles open, before it aborts.
The game's side is that of `CommsDataDumper.cpp`, which repeats it.

### Installer

A value of `Launcher` is one run on the directory it was given, of which several
may be on one. `step` counts the steps of `installEmperor` and `patch`; those
that take long have a start and an end (`busy`), and a kill in between leaves a
part `torn`. `key`, `path` and `override` are the temporary key that all
launchers share: a deleted and newly made key has another number, so that a
handle of the old one is told from it. `std::filesystem::copy` throws on what
exists; the cabinet and `resource.cfg` are written over it. `RTPatchApply32`
looks for the game where the registry, seen through the override, says. It may
fail for reasons of its own, before it has changed anything or in the middle
(`FailPatch`); the code ignores its result, so the installation goes on to the
MD5 check. The user may delete a directory that no living launcher was given.

"EXE" stands for the other files from the first disc and those written after
them. `overlap`, `spoilt` (whose patch failed) and `cut` are history.

### Settings

`reg` are the six values, read and written one by one (`Step`) by any number of
launchers and the games they start. Opening the dialog ends with a write: setting
the text of the address box calls the handler of a change of it. The radio
buttons for host and client are taken to exclude each other, which is Windows'
doing.

### NetworkTest

`testNetwork` step by step against a host that may start, stop or stall at any
moment, over a network that loses and reorders. `rx` is what `recvfrom` will
return: answers, the errors of earlier probes that found no socket, a keepalive.
A host has several addresses, and answers from any of them.

### CdCheck

`doCdCheckPatched` for every CD number the code tells apart, with a drive whose disc the user changes
at any moment, or with the folders that `resource.cfg` names. Nothing is known
of the strings in Game.exe but the labels' names. `seen` and `taken` are
history: the discs that were in at the looks of the check, and how many it took.

### FrameLimiter

The three Direct3D hooks and the limiter. Time is counted in ticks of the
performance counter. The functions of all devices are the same (one vtable); a
`Sleep` takes at least as long as asked.

## 4. The runs

| Run | Instance | Checks |
|---|---|---|
| `server_two` | 2 connections, 2 nicks, vectors of up to 3 | the safety invariants and the action properties of `WolIrcServer` |
| `lobby` | 2 players, 3 lines each: LIST, HOST, JOINGAME, PART, KICK, STARTG, TOPIC, and GAMEOPT, PAGE, GETCODEPAGE and GETLOCALE, in their forms to a nick too | what a calm lobby survives, which lines fail, whether views meet |
| `lobby_ends` | 2 players, 2 lines each: QUIT, PRIVMSG, the settings and the lines without effect; streams of 3 lines, one player may stall, fairness | `LinesAreHandled`, `LeaversAreRemoved` |
| `proxy` | 2 runs on one ip, one after the other or at once, 2 packets under way | one entry per address, routing, ports claimed, eviction, the refinement of `Datagrams` |
| `proxy_ends` | a game and a network test on one ip, packets repeated, no game packets, fairness | `GoneClientsLeave` |
| `launch` | 2 launchers with their games, fairness | `OneGame`, `LostHasCause`, `DataArrives`, `LauncherEnds` |
| `sockets` | 1 handle, used again and again, 2 windows, 2 peers, bursts of 3 packets, host, fairness | `EntryIsItsOwn`, `WakeUpPending`, `BurstIsRead` |
| `installer` | `MCInstaller`: 3 launchers, 2 directories | the invariants of `Installer` |
| `parts` | `MCParts`: the small modules side by side | their properties |
| `part_is_heard`, `teardown_removes` | as `server_two` | violated: see findings |
| `proxy_frame_limit` | 2 clients on 2 ips, a frame limit | violated: see findings |

`MCParts` puts `AcceptLoop`, `VectorLoops`, `Settings`, `NetworkTest`,
`FrameLimiter` and `CdCheck` together. They share no state, so their product
would show nothing that one of them does not: `part` is chosen at first, and in
each behaviour that part runs while the others rest in an initial state.

The type invariants are theorems too; those of the small modules are also a
property of `parts`, `PartsTypeOK`.

What the properties say:

* `RosterCoversMembers`: the game pointer of a live connection is null, or
  leads to a live host whose vector lists it. GAMEOPT, PRIVMSG, PAGE, KICK and
  PART follow that pointer unchecked, across every kick, PART and teardown.
* `HostOwnsGame`: a host is listed in its own game, even if someone else has
  its nick; what is not a host has no members, name or topic left.
* `StaleHasCause`, `DoubleHasCause`: a stale or double entry belongs to a
  connection that left or changed game by itself.
* `FaultHasCause`: before anyone does, no null or dangling pointer is
  followed, whatever is sent in whatever order.
* `ChannelChangedByRight`: the game of a connection changes only in its own
  command, by the host that lists it, or when the thread of its host ends.
* `StartReachesGame`: a STARTG is heard by everyone in the game and names as many
  players as are in it (but for movers).
* `GameStaysPrivate`: what is said in a game is heard by no one outside (but for
  movers).

* `OneEntryPerAddress`: the host lists no address twice, across evictions and
  packets that arrive late or again.
* `RouteFindsOwner`: a port that a client announced in the last packet the host
  heard from it leads to this client, unless another one with the same ip
  announced it too. The exception is real: after a restart with the same ports
  the old entry gets the packets until it is evicted.
* `NothingUnclaimed`: the ranges that a client has set, that its packets under
  way announce and that the host has heard hold only ports the client has
  claimed, and the host sends to no other, whatever packet set the table last.
* `EvictedOnlyWhenSilent`: nobody is evicted whose packets arrive, whatever the
  order of packets, ticks and rounds of the loop.
* `CarriesDatagrams`: the refinement of `Datagrams`.
* `HostRules` (violated): a client's frame limit is never above that of the speed
  the host last told it.
* `GoneClientsLeave`: who is gone leaves the table for good.

* `CalmLobbyRuns`: as long as nobody parts, kicks or leaves, no order of the
  players' lines makes the server fail.
* `OnlyCrossedLinesFail`: after that, only three kinds of lines that crossed an
  ending fail an assertion: what is said in a game by a player that has been put
  out of it (GAMEOPT; PRIVMSG and PAGE to the game), a line that names a player
  that is gone (PRIVMSG, PAGE, GETCODEPAGE, GETLOCALE), and the JOINGAME of a game
  that is over. A KICK, a STARTG, a TOPIC or a PART never does, a HOST only once a
  host has strayed. Excepted are movers, who may fail over any line.
* `ViewsMeet`: when the streams are empty, each game shows what the server has,
  but for movers and for guests of a host whose connection is gone, and until a
  host strays.
* `LinesAreHandled`: what is sent is handled, unless somebody stops reading:
  then `send` blocks with the mutex held. That one player can stop all others so
  is what the exception says; the property does not rule it out.
* `LeaversAreRemoved`: a connection that quit or failed is removed, unless the
  process has died or somebody stopped reading.

* `WakeUpPending`, `BurstIsRead`: of several packets that have arrived, the
  reader of one is told of the next, until all are read. (For a host the first
  packet of a burst wakes nobody, as `bindAddr` is never set: a game that does
  not poll may not read it. So the properties start from the first read, and
  leave that case out.)
* `EntryIsItsOwn`: window and peer of a socket are its own, unless its handle was
  used before and it has set none itself. Nothing is said of a `send` on a socket
  that was never connected, which takes the peer of an earlier socket or fails.

* `OwnUnlessLate`, `FaultHasCause` (`AcceptLoop`): a thread that starts before the
  next accept serves its own connection; a late one serves a later one, which
  then has two threads, or a null pointer; without late threads nothing of this
  happens. The late thread itself is the exception. (Proved in addition: `NeverEarlier`.)

* `OneGame`: two games run at once only if a launcher has ended before its game.
* `LostHasCause`, `DataArrives`, `LauncherEnds`: the message is lost, and a game
  left waiting, only after a timeout or because some launcher ended before its
  game; a launcher whose game has ended ends. (Proved in addition: `OneLauncher`,
  the mutex lets one launcher through, and `MapsWhatIsWritten`, a game maps what
  has been written.)

* `SuccessIsComplete`, `BrokenIsLeft`: success is reported of complete directories
  only; nobody installs over what a broken installation left, since the first
  copy throws.
* `PlayHasCause`: who sees the settings of an incomplete game does so after a
  broken installation or during another one. That broken installations are taken
  for whole ones is its exception, and true of the code.
* `PatchesOwnGame`: a patch goes elsewhere only when two launchers were patching
  at once. (Proved in addition: `OneInstalls`, never two into one directory.)
* `FailureHasCause`: "Installation failed!" comes of the launcher's own patch
  having failed, or of two launchers patching at once; of nothing that was killed,
  deleted or left behind before.

* `GameRunsAsShown`, `OpensAsLeft`: the game runs with what the dialog showed, and
  a dialog opens with what was written last, unless another launcher wrote
  meanwhile, for which it need only be opened. What the game runs with when two
  launchers' writes and reads cross, a mix of both, is left open.

* `Verdicts`: a UDP answer counts if and only if a read is left for it, and the
  TCP half is fine only if a lobby server handled the QUIT.

* `CheckIsRight`: the CD check ends at the first look that finds the right disc
  in, also if it came in just before the last look, and passes. It fails only when
  all the looks of this check are taken (any CD, a patient one, an impatient one)
  and the right disc was in at none; with a whole installation none fails.

* `FramesTakeTheirTime`: every frame of every device is limited, however often
  devices are created or refused; it is short of its time by less than a
  millisecond, and the limiter never sleeps beyond it.
* `LoopsMeetClosedForm`: the loops compute what `PointerVectors` says, with the
  entry that an erasing loop skips: it is part of the closed form, and what comes
  of it is the subject of `teardown_removes`.

Why the bounds are enough. In the lobby the hazards need a guest and a host (parting,
joining again, quitting, two hosts in each other's games, equal nicks), and a
vector of three entries: the host and the same guest twice. Two connections
with two nicks have all of these. `CodePage` and `Locale` have one value, since
nothing reads them back but GETCODEPAGE and GETLOCALE, and topics are never
compared. Third parties, and every other size, are the subject of the proofs in
section 5, which covers every property of `WolIrcServer` that a run checks.

For the proxies: two runs on one ip are the ones that can be mistaken for each
other; they also send to each other through the host. Two packets under way are
enough for one to overtake another and for an old packet to arrive after an
eviction. A client has announced no range before it sets one, and an older
packet can take the range away again. A timeout of one unit lets evictions
happen before, between and after the packets of a client. Clients on different
machines are easier to tell apart; they are in `proxy_frame_limit` and in the
proofs. `proxy` uses the view `WithoutLimits`, as no game sets a frame limit in
it and nothing else depends on the variables left out. Copies of a packet are in
`proxy_ends` and in the proofs. The proxies never stop, and no run of theirs
switches the deadlock check off.

In `WolLobby` a line can cross another one only if both players have said
something before: three lines each are a LIST, a HOST or JOINGAME, and one more.
What is only said or asked (`Last`) changes nothing a later line could meet, so it
is enough as a player's last line; PRIVMSG, which shares the code of PAGE but for
the word, is in `lobby_ends`, with the commands that look at nothing.
Under fairness two lines and streams of three are enough: the answer of a
JOINGAME just fits, and the stream of a player that has stalled is soon full.

`MaxConn` is four, as three threads can be late for the fourth connection;
vectors of up to five pointers out of three have runs of every length at every
position. Two launchers are an orphan's and the next one; in the installer a
third finds what two others left in key or directory. One handle that is closed
and opened again is two sockets; three packets are a first, a middle and a last
one; `MaxEvents` bounds a window's messages in the guard of the calls that post
(`Room`). Two probes are a first and a last one. `Editable` and
`MaxClicks` bound what users do with the settings: the code treats the four check
boxes alike. The frame of 12 ticks with 5 to a millisecond is no whole number of
milliseconds, as a sixtieth of a second is none; `MaxTime` is a third longer than
a frame, and the time since the last frame stops there. A single keepalive can
arrive during a network test, which takes three seconds at most before the TCP
half, of the ten between two keepalives. The looks of the CD check are the
code's, ten of a patient check, and two of one for any CD, whose number is in
Game.exe.

`Conn` and `Nick` are symmetric where no liveness is checked, and so are the
launchers of `installer` (not the directories, of which `RealPath` is one). The view
`StateOfServer` leaves out `sent`, which no action reads; TLC evaluates action
properties on every step it generates, also on one that leads to a known state,
so the properties about what is sent lose nothing.

`CHECK_DEADLOCK FALSE`: the lobby's process may die (`fault`), and with each
connection accepted at most once the system may come to its end. The same holds
of players that have sent all their lines, launchers, games and installations
that have ended, sockets of a process that has failed, and in `parts` of the
network test that is over and of loops that are done.

Fairness. `lobby_ends`: `WF` of a thread with the mutex: `recv` returned a finite
number of bytes, so a chunk has a last line, and `send` returns once there is
room; `WF` of players that have not stalled and read; `WF` of `recv` failing on a
connection that is closed; `SF` of a thread that waits for a `std::mutex`, which
others take and release, before a chunk and before the teardown: it is not passed
over for ever. Nobody need send, connect or leave.

`proxy_ends`: `WF(Tick)`: time passes. `WF(HostKeepAlive)`: a loop without exit
around a `Sleep`. `WF` of receiving from each address: the receiving loop has no
exit either, and a packet that the network has not lost arrives; it does not stay
under way for ever. Nothing is assumed of the clients.

`sockets`: windows handle their messages (`WF(HandleEvent)`); the game need not
poll. `launch`: processes that are not killed go on, and a wait with a timeout
ends; users need not click or close message boxes, and games need not end.

### Findings

* `part_is_heard`. When a guest parts, `handle_PART` tells the members of the
  guest's own vector, which is empty. The comment above it says other clients
  receive the message. The host keeps listing the guest.
* `teardown_removes`. A guest that joins, parts, joins again and quits leaves
  two adjacent entries; the loop under the comment "remove from any game
  channels this connection was in" erases one. The host then follows a pointer
  to a destroyed connection with its next STARTG or GAMEOPT.

* `proxy_frame_limit`. A client takes the game speed from every game packet
  (`WolProxyClient.cpp:83`). What another client sends through the host carries
  `UINT_MAX`, the default of `forwardSend`, for which `setFrameLimit` has no
  limit; the comment above it promises that the limit is never above the
  current speed setting.

What the exceptions in passing properties stand for is as real, though no comment
promises otherwise. Assertions fail on lines that were right when they were sent.
Those of `handle_GAMEOPT` (line 736), `handle_PRIVMSG` (841), `handle_PAGE` (907) and
`handle_JOINGAME` (462) do when the line crossed the end of a stay or of the game, those that
look a nick up (`handle_GETCODEPAGE` 587, `handle_GETLOCALE` 636, `handle_PRIVMSG` 865,
`handle_PAGE` 932) when it crossed the departure of the player it names; they end
the host's whole process (`OnlyCrossedLinesFail`). Two more were met in the proof of this property, as it
takes more players and lines than TLC can be given: a guest that parted stays
listed, so that when it hosts a game itself, the next KICK or PART of its old host
takes it out of its own game; its game goes on without it, what it says there
concerns the game it hosts, and its guests show what the server does not have
(`strayed`). And a player that entered a game while it was still listed hears
twice that it did. The check behind "Game data not found or invalid" looks
at Game.exe alone, which is patched before the house discs are copied; an
installation that is broken off in between is never completed (`PlayHasCause`). A patch that fails
(`Installer.cpp:107`, result unused) shows only as "Installation failed!" at the
end, and a second installation into that directory throws (`FailureHasCause`).
`recvfrom` overwrites the address that the TCP half of the network test connects
to, so its verdict may tell of another address of the host than the one that was
typed. "Limit FPS to 60" rounds the rest of a frame down to milliseconds, so frames
may be shorter than a sixtieth of a second (`FramesTakeTheirTime`).

`part_is_heard` and `teardown_removes` are one cause away from `StaleHasCause` and `FaultHasCause`, which say that
there are no other ways to get there.

## 5. What is proved

TLAPS proves these for all values of the constants. For the lobby server, from the assumptions in
`WolIrcServer` alone (`NoConn \notin Conn`, `MaxMembers \in Nat`, 0 is a
codepage and a locale); `Conn` may be infinite.

`PointerVectorProofs`: what the operators on vectors return, in particular
`EraseSkippingProperties`: the result has no entry that was not there, keeps
every other entry, keeps a single entry single, and has none of the erased
pointer if it occurred at most once. The
closed form of an order-preserving filter is a function with a `CHOOSE` on
cardinalities; `NthPosition` (by induction on the naturals, for one fixed
predicate) shows the choice exists. For the loops, one iteration at a time,
`KeepNth` says which entry a filter puts where, `KeptFrom` that an erased entry
shifts those behind it, and `ErasedInTurn` which entries of a run `Erased` has.

`WolIrcServerProofs`:

* `TypeCorrect`: `Spec => []TypeOK`, with the types of the lines written.
* `RosterCorrect`, `HostCorrect`, `EntriesCorrect`, `DoublesCorrect`,
  `FaultCorrect`: the safety invariants of section 4.
* `ByRightCorrect`: `Spec => ChannelChangedByRight`.
* `PrivateCorrect`, `StartCorrect`: `GameStaysPrivate` and `StartReachesGame`, the
  action properties about what is heard.

The argument. None of the safety invariants is inductive by itself: that a
KICK follows good pointers needs the entries of the vector to be live, that
needs the teardown to have erased them, and that a teardown erases all entries
needs them to be single, which holds for those who have not moved. So they are
proved together, as `IInv`:

* `StateOK`, the types;
* `Ordered`: no connection is twice in `connections`;
* `Fresh`: a connection not yet accepted has no part in anything;
* `MutexLive`: the mutex is free or held by a live connection;
* `Games`: `RosterCoversMembers`, `HostOwnsGame`, `StaleHasCause` and
  `DoubleHasCause`.

`InvStep` has one lemma per action. Handlers are split once, by `Run`, into the
three ways to die, which change only `fault`, and the effect; `FaultHasCause`
follows in each handler from `IInv` in the state before it.

The two properties about what is heard follow from `IInv` in the state before a step.
`Sent` sums up what each command writes and to whom: lines that belong to a game
go to the vector of its host and nowhere else, and `StaleHasCause` says who is in
it. A vector without movers lists each member once (`DoubleHasCause`) and every
member (`RosterCoversMembers`), so it is as long as the game has members
(`SingleEntries`), which is what a STARTG names.

`WolLobbyProofs`, for any number of players, of lines they send and of lines
under way, and from `OwnNickAssumption` in addition:

* `LobbyServes`: whatever the players do, the lobby behaves as `WolIrcServer`
  (`LobbySpec => Spec`). So `IInv` and every theorem of the server holds in it.
* `LobbyTypeCorrect`: the types of the streams.
* `ViewsCorrect`, `CrossedCorrect`, `CalmCorrect`: the three safety properties.

The argument. The first two rest on `LInv`, which relates whole streams to the
server's state, and is split by who is concerned. Of everyone: `OwnName`, what a
player has under way names itself, and `Begins`. Of a player that has not moved
(`Steady`): `Player`, which says that nothing is sent behind a line that asks for
a game but is read before it was answered (`Stream`), that exactly who waits has such a
line, or one answer to it, under way (`Asking`), and that the server has it in
the game it shows, or is about to show, or in none, and lets it speak as host
only of its own (`Staying`). As long as no host has strayed also `Viewing`: who shows the
lobby is in no game or has a PART under way, and who is in none any more has been sent so, behind the
line that let it in. With empty streams this is `ViewsMeet`. A handler's
assertion is then settled case by case from what its line shows of its sender,
and of whom it names: who is named has logged in (`KnownOK`), so it is connected
and found, or gone. That is `CrossedCorrect`. `CalmCorrect` needs one more invariant, `Calm`: without a line
that ends a stay nobody has moved or left, every game that was listed or asked
for is still hosted, and who talks in a game is in it. What the streams of a
player become when a line is taken or added is stated once, in `TailFacts`,
`AppendFacts` and the lemmas on what each handler sends.

For the proxies the assumptions are those in `WolProxy`: no client has the ip
of the host or none, ports are positive, the bounds are numbers (`NoRange`, 0 to 0, would
otherwise hold a port). `Addr`, the payloads and the copies of a packet may be
infinite.

`WolProxyProofs`: `ProxyTypeCorrect`, `OneEntryCorrect`, `RouteCorrect`,
`EvictionCorrect`. Single entries alone are not inductive with what the table
is used for; the invariant is `TypeOK /\ Table`, where `Table` says that
entries are single, that each entry's age and range are what the host has heard
from its address (`silence`, `announced`), and that it has heard no range of an
address it does not list. `TouchedProperties`, `AnnouncedProperties` and
`SurvivorsProperties` say what the three changes of the table do; the last
comes from the filter of `PointerVectors` (`Keep`), of which `Survivors` is a
case. Then routing is a search among single entries with known ranges, and who
is erased has an age, hence a silence, above the timeout.

In the second half of the module, `UnclaimedCorrect` and `CarriesCorrect`: the
proxies implement `Datagrams`. That a delivery is
allowed by `Datagrams` needs the port to be claimed when the packet arrives; the
packet was routed by a range that came from another packet. `NothingUnclaimed` carries the
claim along: own range, packet, table, packet. It is stated until the client
ends, when its claims end and packets for it vanish; while it lives, claims only grow
(`Grows`). With it `StepMaps` maps every step: what a client or the host's game sends is a `Send`,
a deposit a `Deliver`, forwarding leaves the datagram as it was or loses it,
and all else is a loss or nothing.

Of `WolProxy` only `HostRules`, which fails with two clients, and
`GoneClientsLeave`, a liveness property, are left to TLC.

`LaunchHandshakeProofs`: all safety invariants of `LaunchHandshake`, for any
number of launchers. The types carry which handles are open at which step
(`Handles`); to them the invariant adds who has written, whose games have what
open, and that an event without orphans is that of the one launcher in its turn.

`SocketHooksProofs`: `HooksTypeCorrect`, `WakeUpCorrect`, `EntryCorrect`. That a
wake-up is pending needs that the promised event is still in the window's queue,
and that the reader still has the port.

`PartsProofs`: the small modules, through `MCParts` (`EachPart`: a step of the
whole is one of one part, and leaves the others as they are). The constants are
bound by `PartsAssumption` alone: any numbers of connections, launchers, probes and looks,
any frame rate and clock, vectors of any length. One invariant per part:

* the accept loop: `AcceptTypeCorrect`, `OwnCorrect`, `NeverEarlierCorrect`,
  `FaultCorrect`. The slot is the last accepted connection, or the one before it
  while the loop is between accept and append; a thread that is not late reads
  its own;
* `VerdictsCorrect`, from `NetworkInv`: while the test is probing, an answer has
  come in time exactly if one is among the first entries of `rx`, as many as
  there are reads left;
* `CheckCorrect`, from `DiscInv`: the looks taken are those that were counted, and
  none before the last has seen the right disc;
* `FramesCorrect`, from `FrameInv`. The arithmetic is in `DivisionFacts` and
  `SleepFacts`: a remainder that is rounded down to milliseconds loses less than
  one;
* `ShownCorrect` and `LeftCorrect`, from `SettingsInv`: where nobody else
  has written meanwhile (`crossed`, `alone`), the values read or written so far
  (`Before`) are on both sides, what was read and the last write, what was
  written and the registry, what the game read and the dialog, and the others are
  still as they were (`From`); `LastWritten` says so of what a whole write has left;
* `LoopsCorrect`, from `VectorInv`: in the middle of a loop the vector is
  what the closed form keeps of the part already walked over, and then the rest
  as it was (`KeptBefore`, `Seen`). No induction over data is needed, since the
  loop itself goes through the vector one entry per step;
* `PartsTypeCorrect`, the types.

`InstallerProofs`: all invariants of `Installer`, for any number of launchers and
directories. The invariant has three parts. `DirInv`: who is past a step has its
part (`DoneThere`); no two such launchers have one directory (`OneHolds`), since
each directory somebody works in has at least a part of DATA (`HeldHas`), which
makes the next launcher's first copy throw; a directory with a Game.exe is whole,
or cut, or being installed (`ExeHasCause`). `KeyInv`: without overlap, the
launcher that patches has the key, and the path in it is its own. `Chain`:
without overlap, Game.exe goes from v1.00 to v1.09 in the steps of the launcher
that installs it, unless its patch failed (`spoilt`). One lemma per action keeps all three.

Only model-checked is the liveness, under the fairness of section 4, which the
provers cannot handle: `LinesAreHandled`, `LeaversAreRemoved`, `GoneClientsLeave`,
`DataArrives`, `LauncherEnds` and `BurstIsRead`.

## 6. What is not modelled

Left out for good: the registry redirection, a prefix replaced in four wrappers
(what it means depends on the paths Game.exe opens); window management, whose
outcome is decided by the window procedures of Game.exe and Windows; the order of
the hooks in `dllmain.cpp` and `PatchWol.cpp`, a straight line on the only thread
there is; `WrapWinsock.cpp` and `WinsockApi.cpp` (logging, not installed),
`PatchDebugLog.cpp` and `PatchD3D7ResolutionLimit.cpp` (tables of addresses and
constants), the standalone server's `main`, and third-party code: Detours, the
DirectX 7 headers, `CRC.hpp` and `md5.c`, most of the repository's lines.

Of Game.exe, WOLAPI, the discs, the cabinet, the patch DLL and the operating
system the models have what the code relies on; such definitions are external in
`PROJECT.json`. Of the modelled parts the following is taken for granted:
datagrams come to a client only from its host; commands are not cut in two by
the stream; the sizes of the game's buffers. In the program
`recvfrom` writes the address of the server without the lock while others send to
it, which shows only if a datagram comes from elsewhere.
