# Verification of Online Subsystem Python

TLA+ models of the self-hosted online subsystem: the Python master server that
keeps the server browser (`src/Server`) and the Unreal Engine plugin with which
games create, find and join sessions through it (`src/Plugin`). The copy of the
plugin under `src/Example` is the same code but for how it reads the game port; the
other two plugins there are third-party, and the session nodes of one of them are
modelled as the game's side of the session interface.

Paths below are relative to `src/`; `S.cpp` stands for
`Plugin/OnlineSubsystemPython/Source/Private/OnlineSessionInterfacePython.cpp`,
`I.cpp` for `OnlineIdentityPython.cpp` beside it, `A/` for
`Example/OnlineSubsystemPython/Plugins/AdvancedSessions/Source/AdvancedSessions`, and `server.py` for
`Server/OnlineSubsystemPythonServer.py`.

## 1. The system

| Component | State | Operations | Talks to |
|---|---|---|---|
| Master server (`server.py`) | `serverlist` of `Server` objects, `returnlist` | `register_server`, `update_server`, `unregister_server`, `perform_heartbeat`, `get_serverlist` on 100 worker threads; the sweeper thread `heartbeat` | HTTP with game processes; probes the game port of a server that registers |
| Session interface (`S.cpp`) | `Sessions`, `CreateSessionName`, the LAN beacon, HTTP requests in flight, `PerformHeartbeat_Handle` | `CreateSession`, `StartSession`, `UpdateSession`, `EndSession`, `DestroySession`, `JoinSession`, three response handlers, the timer | the game (delegates), the master server (HTTP), the LAN (beacon) |
| Players of a session (`S.cpp:1121-1214`) | `RegisteredPlayers`, open public and private connections | `RegisterPlayers`, `UnregisterPlayers`; resized by `UpdateSession` | identity interface, voice interface |
| Search (`S.cpp:672-843, 1418-1472`) | `CurrentSessionSearch`, the beacon while searching | `FindSessions`, `CancelFindSessions`, `FindFriendSession`, the response handler, the LAN timeout | master server, LAN, the game |
| LAN packets (`S.cpp:1227-1416`, `NboSerializerPython.h`) | none | answer a query with a session, read it back | beacon |
| Identity interface (`I.cpp`) | `UserIds`, `UserAccounts` | `Login`, `Logout`, `SetUserAttribute`, queries | the game, `CreateSession`, `IsHost` |
| Subsystem, module, configuration, voice, task manager | pointers to the interfaces | `Init`, `Shutdown`, `Tick` | the engine |
| Blueprint nodes (`A/`, third-party) | delegate handles, search results | create-and-start, find in one or two searches, end, cancel, update, find a friend's session, log in and out | session interface |

**How they interact.** A listen server or dedicated server calls `CreateSession`;
unless it is a LAN match, that sends `register_server`. The answer sets the state
of the session, is broadcast to the game, and starts a timer that sends
`perform_heartbeat`. The master server's sweeper evicts entries whose last
heartbeat is more than 30 s old. Clients get the list with `get_serverlist` and
join what they find. LAN matches are advertised by a beacon, which all named
sessions of the process share with the search. A Blueprint game does all this through
nodes that bind a delegate, call, and report when the delegate is called.

**What is hard.**

* The master server shares its lists between threads and takes no lock. Python
  iterates a list by index, so removing an entry moves the others under every
  loop that is on its way; `list.remove` removes the first *equal* entry, equality
  ignores the address, and it is Python code (`Server.__eq__`) between whose reads
  another thread may rename an entry. `register_server` checks at the start and appends
  at the end of a probe of up to two seconds.
* The list is in memory only, a heartbeat is not answered, and requests may be late: a
  host cannot tell that it is gone from the list, nor the server that a host is gone.
* The session interface is single-threaded but asynchronous: answers carry no
  session name and meet a session in any state, or none; the game may call the
  interface from inside a broadcast; requests get lost or answered with an error
  page; the timer has a life of its own.
* Delegates carry no request either: a node is called for what other nodes asked,
  broadcasts nest, and one search may be announced twice.
* Several call sites refresh the shared beacon, some operations that change what it
  depends on do not, and a search takes it away.
* The number of open connections is kept apart from the players it counts, the
  talkers of the voice interface apart from both, and who is local changes meanwhile.
* The two maps of the identity interface must agree, with ids that in the first
  instance on a machine are all the same.
* LAN answers are datagrams that may be lost, late, duplicated or broken off, while
  the host goes on changing what they speak of.

**What makes each component correct.**

* *Master server*: the threads act like single steps on one list; the sweeper
  survives; nobody's entry outlives its heartbeats; an undisturbed registration adds no
  twin; an undisturbed heartbeat renews every entry of the caller; an undisturbed
  listing is exact; unless a rename comes in between, the first namesake is removed.
* *With hosts and network*: a host that is gone for good leaves the list for good, and its
  entries only grow old on the way.
* *Sessions*: every creation is answered once; the session created last is not stuck
  in creation; a match starts once; the beacon is on the air exactly if needed.
* *Players*: open connections, registered players and talkers agree.
* *Identity*: the maps agree, one player's login or logout leaves the others alone, as
  long as no two players have the same id.
* *Search*: the beacon searches exactly while a LAN search is current; a listing
  that arrives finds the search that asked for it.
* *Nodes*: each reports at most once, and none waits for an answer that cannot come.
* *LAN packets*: a result is the truth of one moment of this search, with all of the
  settings or none, and tells nothing private.

## 2. The modules

| Module | Models | Extends |
|---|---|---|
| `ServerBrowser` | abstract: the server browser as one list that changes in single complete steps | |
| `MasterServer` | `server.py`: one action per loop iteration or per piece of straight-line code between two accesses to shared state; its refinement of `ServerBrowser` | |
| `MasterServerHistory` | history of a call: was it disturbed, how long has it run | `MasterServer` |
| `HostLease` | hosts, a lossy network and a master server that restarts | `ServerBrowser` |
| `SessionInterface` | the named sessions of `FOnlineSessionPython` in one process, the master server external | |
| `SessionHistory` | unanswered creations, running matches; the properties | `SessionInterface` |
| `SessionSearch` | the search next to the named sessions | `SessionInterface` |
| `SessionNodes` | Blueprint nodes on the session interface with its search | `SessionSearch` |
| `PlayerSlots` | registered players and open connections of one session | |
| `Identity` | `FOnlineIdentityPython` | |
| `SessionPlayers` | the players of a session with identity and voice | `Identity`, `PlayerSlots` |
| `LanListing` | settings, packet and result of a session on the LAN | |
| `MasterServerProofs` | proofs about the threads and their refinement of the browser | `MasterServer` |
| `MasterServerHistoryProofs` | proofs about undisturbed calls | `MasterServerHistory`, `MasterServerProofs` |
| `HostLeaseProofs` | proofs about hosts, network and browser together | `HostLease` |
| `SessionInterfaceProofs` | lemmas about the steps of the session interface, which the next two share | `SessionInterface` |
| `SessionProofs` | proofs about the named sessions | `SessionHistory`, `SessionInterfaceProofs` |
| `SessionNodesProofs` | proofs about the search and the nodes | `SessionNodes`, `SessionInterfaceProofs` |
| `SessionPlayersProofs` | proofs about connections, identity, and the players of a session | `SessionPlayers` |
| `LanListingProofs` | proofs about LAN listings | `LanListing` |
| `MCMasterServer`, `MCMasterServerHistory`, `MCHostLease`, `MCSession`, `MCSessionNodes`, `MCLanListing` | constants and symmetry for TLC | the module they are named after (`MCSession`: `SessionHistory`) |

### MasterServer and ServerBrowser

`heap` holds the `Server` objects by identity, since two threads may hold the same
object and `list.remove` tells identity from equality; an object that nothing
refers to is freed (`Reclaim`), as CPython does. `serverlist` and `returnlist` are
the shared lists. A worker has a program counter `pc`, the request it serves, the
index `at` of its loop and the local variables `server` and `jsonstring`; `sweeper` is the
same for the sweeper. `Call` is the arrival of a request, `Skip`, `Exists` and `Build` the
look-up of `register_server`, `ProbeFails` and `AppendServer` its end after the
probe, `Assign`, `Stamp` and `UpdateMissed` `internal_update_server`, `Find` and `Beat` the
loop of `perform_heartbeat`, `Unregister` that of `unregister_server`, `Take`, `Copy`,
`AppendListing` and `SendList` `get_serverlist`. `SweepVisit` tests an entry;
`list.remove` is a loop of its own: for each slot `SweepRead` reads the key (name and
port) of the entry there, `SweepCompare` that of the entry to remove, and `SweepDelete`
takes out what is in the slot by then, with other threads between any two of these.
`RaiseValueError` is what happens at the end of the list. The list only grows meanwhile, so slots keep their
entries, but their names change. Ports never do, so it does not matter at which of the
two reads they are read. `Unregister` calls `list.remove` as well, but never gets there
(`Unowned`, below), so there it is one step.

Time is the age of an entry in clock seconds, counted up to
`TimeBetweenHeartbeats + 1`; beyond that the code makes no difference. `Tick` may
happen between any two steps, so nothing is assumed about the speed of threads. The
clock is read before the stamp is written: `delay` counts the seconds since a worker
found the entry, and the stamp may be that old.
The descriptive fields of an entry are represented by `name`, the only one the
code ever compares; their assignments are one step.

`ServerBrowser` has no threads: an entry is listed, renamed or stamped only for a
request that is being served and that came from its endpoint, and what is evicted is
one entry, of the same port as an entry that was found expired and not after it in the
list. More cannot be promised: a rename in the middle of the scan makes `list.remove`
take an entry that was, or was not yet, a namesake when it was compared.
`RemovesNamesake` in `MasterServerHistory` says that it takes a rename: otherwise the
first namesake goes. `Browser` in `MasterServer`
instantiates the abstract module: `browser` is the list with the fields of its objects,
`condemned` the position at which the sweeper stands with an expired entry in hand,
`pending` the requests of the workers. `ImplementsBrowser` says that every step of a
thread is one of these steps or none.

### HostLease

A host boots, registers, waits, beats and updates, and may crash at any moment with
requests still under way (`SessionInterface` decides when a process does this;
`HostLease` keeps only which requests it can send). `net` holds the requests; `Deliver`
takes them in any order, `Lose` drops them. The answer to a registration may arrive
or not (`accepted`, `GiveUp`), so the server may list a host that has given up. `Restart`
empties the list. Nothing makes a host register again after an eviction or a
restart, because nothing in the code does. The master server is `ServerBrowser`, which the
refinement justifies.

### SessionInterface, SessionSearch and SessionNodes

`sessions` maps names to sessions with their state, the four settings that the
code tests, whether there is an open public connection (`space`), and whose the
`OwningUserId` is. `dedicated` is the mode of the process, fixed when it starts. An
entry point is one action, with everything it calls: the refresh of the beacon, the
removal of the session, the broadcast. Only the handlers that go on after a broadcast are
cut in two there: `resume` (`StartHeartbeat`, `DestroyFailed`) and `again`
(`FindEnds`) hold what is still to be done, and the game's calls from inside its
delegate come in between. `Serve` and `ChangeListing` are the master server,
reduced to whether it lists this process; an answer may be lost before or after it
was served. `FaultyServer` lets it answer with an error page, which the
handlers of a creation and of an update cannot parse and ignore. `owner` says whether
`OwningUserId` is that of the player who hosts and is logged in: `IsHost` asks the identity
interface each time, and `ChangePlayer` is that player's logout or login. `crashed` records which null pointer was dereferenced.
The heartbeat request itself is fire and forget and changes nothing here.

`search` is `CurrentSessionSearch` with its state, `find` the requests for the list. When
a LAN search ends the beacon goes back to hosting (`HandBack`).

A node in `SessionNodes` is activated once, is `bound` to the event of a delegate, and counts
its `reports`. `stack` holds the broadcasts that are not over: each with the nodes that
were bound when it began, less those called or unbound since; a handler that calls the
interface pushes another on top. `Deliver` calls one delegate: a created session is
started, the first of two searches is followed by the second, everything else
reports. `LoseController` is the end of the player controller by which some nodes
unbind. `left` remembers nodes whose question the code drops: a cancelled search is
announced to those who cancel only, an error page in answer to a creation or an
update to nobody.

### Players

`PlayerSlots` treats one player per step, as the loops do; `overbooked` and `resized`
are history. `Identity` has the two maps and the outcome of the one assertion.
`stable` says whether `GenerateRandomUserId` returns the stable id, as it does in the
first instance of a packaged game on a machine, or a random one, which nobody has;
either may be the case from the start and stays so. `shared` (history) are the ids that
two local players have had at once. `SessionPlayers` joins them: each registration asks for the voice
interface, which comes up or not the first time, and registers a remote talker unless
the player is local at that moment; `switched` (history) are players that logged in or
out while registered.

### LanListing

One host and one client. `session` has the settings with their advertisement type,
the state and the open connections; `UpdateSession`, `UpdateNode` and `Play` change it.
A query is answered with the fields of the session (`AppendSessionToPacket`) if it can be joined and
fits. The bytes of the serialisation are not modelled, what it leaves out is. `nonce`
and `searching` decide whether the client takes an answer. An answer may arrive broken
off at any field: `ReadSessionFromPacket` then leaves the rest at the defaults,
`ReadSettingsFromPacket` empties the settings it has read so far, and the result stays in
the list, which has one for each answer accepted, duplicates included. `of`, `round` and
`whole` are history.

## 3. What TLC checks

All runs use two workers. Deadlock is not checked: clients, hosts and games need not
call, and a crashed process stops.

| Run | Question | Bounds | States |
|---|---|---|---|
| `registry_calls` | Do undisturbed registrations and heartbeats keep their promise beside updates and evictions, does `list.remove` take the first namesake but for renames, and do the threads implement `ServerBrowser`? | 2 hosts, 2 names, 2 objects, 2 workers, period 0 | 502 222 |
| `registry_listing` | Is an undisturbed listing exact, and does the sweeper survive registrations and unregistrations? | 2 hosts, 2 objects, 2 workers, period 0 | 1 677 796 |
| `registry_liveness` | Do entries without heartbeats leave? | 2 hosts, 2 objects, 1 worker with all five methods, period 1 | 181 648 |
| `host_lease` | Does a host that is gone leave for good, in spite of late requests, namesakes and restarts, and do its entries only age once nothing of it is under way? | 2 hosts, 2 entries, 1 request under way per host, 1 worker, period 1 | 185 856 |
| `session_overlap` | Is each creation answered once, the last never stuck, the shared beacon right and a match started once when two creations overlap? | 2 names, a closed LAN and an online match, 2 requests | 437 302 |
| `session_modes` | The same for one session with every call, in a client and on a dedicated server, error pages and logouts of the host included | 1 name, three kinds of settings, 2 requests | 695 452 |
| `session_nodes` | Does each node report at most once, and does none wait in vain? | 3 nodes of nine kinds, 1 name, 2 requests, error pages, with and without Steam | 1 357 860 |
| `session_players` | Do accounts, connections and talkers agree, with random ids and with the stable one? | 3 local ids, 3 players of which two may be local, 1 + 1 connections | 575 258 |
| `lan_listing` | Is a result true, with all settings or none, of this search and free of private settings? | 3 keys of which 2 fit, 2 values, 3 changes, 2 searches, 1 answer under way, 2 results | 303 640 |

Why the bounds are enough: two workers and the sweeper show every race of two
calls and a removal; two hosts with one port and one name make the namesakes that
`list.remove` mixes up, and a second name lets a rename separate or join them. A
period of 0 or 1 makes eviction possible at once or after one renewal; no run depends on
its size otherwise, since ages saturate. In `host_lease` one request per host is enough
for a late one to arrive after the crash, and it is sent again after the next.
Two session names show every confusion of one session with another, two requests every
reordering of two answers. The kinds of settings are those that `NeedsToAdvertise` tells apart: a
LAN match that may or may not be joined in progress, an internet match, one that is also
advertised by presence. Three nodes have one that asks, one whose broadcast it
receives, and one activated inside that broadcast. Three local ids and two remote players let a
player leave and another come, and a session of 1 + 1 connections is full and
overbooked. Two searches are needed for a late answer, three changes to add a setting,
change it and start the match while an answer is under way.

Three further runs show where the code departs from what its comments say; each has one
property and ends in a counterexample:

| Run | What the code says | What it does |
|---|---|---|
| `session_start_beacon` | "If this lan match has join in progress disabled, shut down the beacon" (`S.cpp:435`) | refreshes the beacon before it sets the state |
| `session_removed` | "The session info is no longer needed" (`S.cpp:595`) | the timer goes on and uses it |
| `find_wedged` | "OnQueryCompleted will get called, nothing more to do now" (`A/Private/FindSessionsCallbackProxyAdvanced.cpp:144`) | a lost answer leaves `CurrentSessionSearch` set (`S.cpp:738-741`); the next search, at once from the announcement or later, is ignored (`S.cpp:716`) and nobody is told |

`QueryCompletes` is stated for games that search the master server only, so that the
search that is never reset is one whose answer was lost; a LAN search that cannot be sent
stays current in the same way (`S.cpp:805-814`).

The models have more behaviour of this kind, which the properties of the passing
runs are worded around and no run is spent on: "Sucessfully updated your server" is
answered although the entry may have been evicted in between (`server.py:61`); "updated" carries no
period, which the client reads as 0 and beats 100 times a second (`server.py:42` speaks
of keeping it in sync); `EndSession` sets the
state to Ended even if it answers "Can't end a match that isn't in progress"
(`S.cpp:537, 562`); a late answer puts a running match back to Pending, so that it
can be started a second time (`S.cpp:321, 431`; `StartedOnce` counts this as a
reset); an answer that is no JSON leaves a creation unanswered and its session in
creation, and an update unanswered (`S.cpp:312, 511`; excepted from `CreateAnsweredOnce` and
`RequestOwed`, and `LastNotStuck` is checked without it); success is announced for a session that is gone
(`S.cpp:325`); a listing that arrives is announced as a success and then as a failure
(`S.cpp:790`); two overlapping registrations of one endpoint list it twice
(`server.py:59`); with the stable id, the default of a packaged game (`I.cpp:70`), the
logout of one local player removes the account of the others, and the assertion in `Login`
fails when one of these logs in again (`I.cpp:115`): `AccountFound`, `MapsAgree` and
`PlayersIndependent` say that this takes two local players with the same id at once, and
nothing less; a late registration answer, an open slot or a logout changes what the
beacon should do and nothing refreshes it (`BeaconInStep` speaks of the operations that do).

Each property of a passing run has at least one mutant of a mapped definition that
breaks it, of the kind a slip in the code would be: the registration
that gives up at the first entry that does not match, a listing that is not reset, a
beacon refreshed too early, an error page that is only logged, a nonce that is used
twice. Mutants stand beside the definition that they replace.

**Fairness.** `registry_liveness` assumes weak fairness of each worker once it has a
request, of the sweeper and of time: the operating system schedules runnable
threads, the sweeper sleeps for one second, and the clock advances. `host_lease`
assumes that a request under way arrives or is lost, a call ends, time passes and an
eviction that was begun is completed (weak), and strong fairness of the sweeper at each
position of the list: it visits every position again and again, so an entry that is
expired time and again when nothing else is being removed is found at last.
Hosts and clients are not fair: they need not call. `find_wedged` assumes that the game thread runs and
the master server answers or the request fails. No other run assumes fairness.

## 4. What is proved

All theorems hold for every value of the constants that satisfies the named assumptions
of the modules; further hypotheses are given here.

**The master server** (any number of hosts, ports, names, entries and workers, any period).
`MasterServerProofs` proves `TypeCorrect` and `SweeperAlwaysSurvives`. Its invariant
`Inv` adds: what the lists and locals refer to is alive (`Alive`), the request of a worker fits its
program counter (`Consistent`), the sweeper's victim is listed (`VictimListed`) and no
entry has an owner (`Unowned`). The last two carry the argument: the only
other remover is `unregister_server`, which removes entries whose `registeredby` is
the caller, and that field is never assigned. Whoever repairs `registeredby` breaks the
sweeper: the mutant `NewServerOwned` shows it.

The second half of the module proves the refinement, `ThreadsImplementBrowser`. A step of a thread
is a step of the abstract browser only if what the thread has in hand is still what it
looked up. `RInv` says so: an entry is listed once (`Distinct`); an idle worker
serves nothing; the entry a registration is about to append is new, nobody else's and says
what the request says (`Fresh`); the entry an update is about to stamp is its caller's,
listed or not (`OwnInHand`); the sweeper's victim stands where the sweeper found it, and
what `list.remove` takes for its equal has its port, however names change meanwhile
(`VictimInPlace`). One lemma per action then maps it to its abstract step or to a stutter.

`MasterServerHistoryProofs` proves `AlwaysRemovesNamesake`, `AlwaysRegistersOnce`,
`HeartbeatAlwaysReachesAll` and `ListingAlwaysExact`. For the first the invariant adds that
without a rename no entry that `list.remove` has passed is a namesake, and what it has read still
holds (`Scanned`). For the others `HInv` adds to `RInv`, for every undisturbed call: no
conflicting call is being served (`Clear`), its index is within the list (`Within`), a
registration has not passed its own endpoint (`Looked`), a heartbeat has renewed what it has
passed (`Renewed`), and whoever is about to stamp an entry of its endpoint read the clock no earlier than it
began (`Prompt`), a listing has copied what it has passed (`Copied`).

**Hosts, network and browser** (any hosts, ports, names, workers, bounds and period).
`HostLeaseProofs` proves `LeaseTypeCorrect`, through crashes and restarts; `LTypeOK`
also says that what the sweeper holds is on the list and that only a host that waits gets an answer, and
is inductive as it stands. `SilentHostsAlwaysFade` is the safety half of
`GhostsLeave`: once nothing of a dead host is under way or being served, its
entries only age and move up, whatever the others do. Three lemmas say what a call, the sweeper and time do to
the list: a call writes only entries of its own endpoint, the sweeper writes none. That the entries then
go is liveness, and TLC's.

**The named sessions** (any names, settings, finite set of requests, client and dedicated server).
The lemmas of `SessionInterfaceProofs` say of each operation what it does to the types, the beacon,
the requests and the answers; they speak of `Step`, a step of the named sessions by
themselves or below the search.
`SessionProofs` proves `SessionTypeCorrect`, `CreateAlwaysAnsweredOnce`, `BeaconAlwaysInStep`,
`AlwaysStartedOnce` and `LastNeverStuck`, the last under `~FaultyServer` and `TRUE \notin
Modes`. `SInv` adds to the types that while a registration is in flight some
session has been created (`NameKnown`: the handler looks the name up) and which replies
fit which request (`Replies`). The beacon needs that named sessions alone never search
(`NoSearch`), `StartedOnce` that a match in `played` is still in progress (`Playing`).

**Search and nodes** (any sessions and settings, finite set of requests, any nodes of any of the kinds,
broadcasts nested to any depth, error pages or not). `SessionNodesProofs` proves `SearchAlwaysHoldsBeacon`
and `AnswerAlwaysHasSearch` for the search alone and under the nodes, and for the nodes
`NodesTypeCorrect`, `NodesAlwaysReportOnce`, `FindAlwaysOwed`, `RequestAlwaysOwed` and
`NeverLeftWaiting`. `SearchInv` is the inductive invariant of the search: types, `NameKnown`,
and that at most one request for the list is in flight (`AskedOnce`), none while the second
announcement of a listing is due, and a search of the master server is current meanwhile. `NInv` adds
for the nodes: only nodes that are bound to its event are still to be called by a
broadcast (`Turns`), a bound node has not reported (`OneReport`), a node that was
never activated is not bound (`Fresh`), and each node that waits is owed something
(`Owed`: the three properties about waiting, node by node). `Turns` is what
`NodesReportOnce` needs: a node that reports unbinds itself, and every broadcast that is not over
drops it. `Owed` rests on two facts about operators: `LeftFacts`, that ending the
broadcasts that have nobody left to call loses no node whose turn is coming, and
`RequestMoves`, that a request that leaves the interface is answered by a broadcast or an error page.
TLC had checked `NInv` on the instance of `session_nodes` before it was proved.

**Players.** `SessionPlayersProofs` first proves `SlotsAlwaysExact` for the connections alone. Types and `SlotsExact`
together are inductive; the case that matters is a player who leaves while no connection
counts as taken: then the session has been overbooked. It then proves of the identity interface alone
`MapsAlwaysAgree`, `AccountAlwaysFound` and `PlayersAlwaysIndependent`, for random ids and for the
stable id alike. What the three say of a player is said of ids that no two players have had
at once (`shared` remembers the others). `Inv` says that such an id belongs to one player only
(`Distinct`) and has an account, and that every account belongs to somebody (`Linked`); while ids are random
none is ever shared (`RandomUnshared`), so that all players are spoken of. Last, the module
carries the three over to the composition, and proves `TalkersAlwaysMatch`.

**LAN listings.** `LanListingProofs` proves all four properties of its run for any keys,
values and bounds. `Inv` says of every packet under way and of every result what
is claimed of results (`Truthful`): the packet shows what the host advertised, the result all of it, or no
settings if the packet broke off. Further, that nonces are numbers of searches (`Rounds`) and that
what the session advertises the game has chosen (`Chosen`).

Every invariant, action property and refinement that a passing run checks is a theorem. What is
model-checked only is liveness under fairness, which is out of the prover's reach:
`StaleEntriesLeave` and `GhostsLeave`. The three counterexamples are TLC's, too.

The assumptions on constants say that bounds and periods are numbers, that sets of
choices are made of what the code knows, that the set of requests is finite, and that `None`, which
stands for a null pointer or an empty slot, is none of the values it is told apart from
(`SearchAssumption`, `NodeAssumption` and the like). TLC evaluates them in every run.

## 5. Not modelled

* Subsystem, module, configuration and task manager: construction in a fixed
  order, empty ticks, constants and getters of interfaces that are not there. That HTTP requests and the timer are bound raw to
  the session interface and outlive its destruction at `Shutdown` is listed as a hazard;
  whether anything then happens is up to the engine.
* `FOnlineAsyncTaskPythonEndSession` and `...DestroySession` (`S.cpp:62-193`): never created.
* `StartMatchmaking`, `CancelMatchmaking`, `FindSessionById` and the like: they answer without changing anything.
* Of AdvancedSessions the function libraries, which read and set single fields, the game
  instance, which forwards events, and nodes for what the subsystem does not offer (invites,
  privileges, recent players); AdvancedSteamSessions: wrappers of Steam calls that have nothing to do with
  the master server.
* The result filter of the find nodes (`A/Private/FindSessionsCallbackProxyAdvanced.cpp:245-421`): a
  comparison of values, type by type, that keeps no state; a result without the key passes.
* The copy of the plugin in `src/Example`: the models of the plugin are models of it,
  apart from the port it reads.
* In the models above: the contents of the descriptive fields, wording, logging,
  bytes, ports read from the net driver, nicknames, the uninitialised
  reads at `S.cpp:270` and `S.cpp:484`, the seven assignments of
  `internal_update_server` one by one.

For these reasons a large part of the repository's lines stands behind no definition: the
copy, the headers and the wrappers outnumber the code that decides anything.

## 6. What is left

1. The registration path of a host in `HostLease` shown to be one of `SessionInterface`.
2. The round trip of the internet listing, field by field (the reader looks for `mapname`, the
   server writes `map`, `S.cpp:768`).
3. The seven assignments of an update as steps of their own.
