---------------------------- MODULE MasterServer ----------------------------
(***************************************************************************)
(* The master server (Server/OnlineSubsystemPythonServer.py): the registry *)
(* of game servers behind the server browser.                              *)
(*                                                                         *)
(* CherryPy runs the exposed methods on a pool of worker threads; a        *)
(* "sweeper" thread (the method heartbeat) evicts entries whose last       *)
(* heartbeat is too old.  All of them share self.serverlist and            *)
(* self.returnlist without a lock.  An action is one iteration of a loop   *)
(* over self.serverlist (Python iterates by index over the live list) or   *)
(* one piece of straight-line code between two accesses to shared state    *)
(* that another thread can separate.  The scan of list.remove is such a    *)
(* loop, too: it calls Server.__eq__, which is Python code and reads the   *)
(* name of each of the two entries on its own.                             *)
(*                                                                         *)
(* Time: the code compares int(time.time()) with the stamp of an entry, so *)
(* all that matters of a stamp is how many clock seconds old it is.  The   *)
(* heap keeps that age; it stops counting at TimeBetweenHeartbeats + 1,    *)
(* beyond which the code tells no two ages apart.                          *)
(*                                                                         *)
(* The field name of an entry stands for all the descriptive fields (name, *)
(* map, player counts, password flag, game mode), of which only the name   *)
(* is ever tested, by Server.__eq__.                                       *)
(***************************************************************************)
EXTENDS Integers, SequencesExt

CONSTANTS
  Hosts,      \* remote addresses that call the server
  Loopback,   \* the address 127.0.0.1, exempt from the reachability probe
  Ports,      \* game ports
  Names,      \* server names
  Objs,       \* identities of Server objects; bounds how many are alive at once
  Workers,    \* CherryPy worker threads (server.thread_pool, 100 in the code)
  Handlers,   \* the exposed methods that clients call
  TimeBetweenHeartbeats, \* self.time_between_heartbeats, 30 in the code
  Unset,      \* the empty string Server.registeredby starts as
  None        \* no object, no request, no reply

Methods == {"register_server", "update_server", "perform_heartbeat",
            "unregister_server", "get_serverlist"}

ASSUME HandlersAssumption == Handlers \subseteq Methods
ASSUME PeriodAssumption   == TimeBetweenHeartbeats \in Nat
\* The address of a caller is never the empty string.
ASSUME UnsetAssumption    == Unset \notin Hosts

Ages == 0 .. (TimeBetweenHeartbeats + 1)

Server == [ip : Hosts, port : Ports, name : Names,
           registeredby : Hosts \cup {Unset}, age : Ages]

ASSUME NoneAssumption == None \notin Objs \cup Server

VARIABLES
  heap,        \* the Server objects: identity -> fields
  serverlist,  \* self.serverlist, a list of object identities
  returnlist,  \* self.returnlist, shared by all calls of get_serverlist
  pc,          \* where each worker thread is in its handler
  req,         \* the request each worker serves
  at,          \* index the worker's loop over self.serverlist reads next
  server,      \* the local variable server of each worker, while it matters
  delay,       \* seconds since a worker found the entry that it will stamp
  jsonstring,  \* the copy of an entry that a worker is about to list
  sweeper,     \* the sweeper thread: where it is, its loop index, the entry to remove
               \* and, in list.remove, the slot compared and what was read of it
  reply        \* the reply sent by the last step, None if it sent none

vars == <<heap, serverlist, returnlist, pc, req, at, server, delay, jsonstring,
          sweeper, reply>>

Requests ==
  [op : {"register_server", "update_server"}, ip : Hosts, port : Ports, name : Names]
    \cup [op : {"perform_heartbeat", "unregister_server"}, ip : Hosts, port : Ports]
    \cup [op : {"get_serverlist"}]

ASSUME RequestAssumption == None \notin Requests

\* What Server.__eq__ compares of an entry: not the address.
Key(s) == [name |-> s.name, port |-> s.port]
Keys   == [name : Names, port : Ports]

\* What get_serverlist copies of an entry into its answer.
Listing(s) == [ip |-> s.ip, port |-> s.port, name |-> s.name]
Listings   == [ip : Hosts, port : Ports, name : Names]

Statuses == {"added", "updated", "unreachable", "not_registered", "empty",
             "listing", "http500"}

Labels == {"idle", "exists", "probe", "update", "stamp", "heartbeat", "beat",
           "unregister", "list", "copy", "append"}

\* The sweeper is inside list.remove.
Removing == {"remove", "compare", "delete"}

Sweepers == [pc : Removing \cup {"next", "sleep", "dead"},
             at : Nat \ {0}, server : Objs \cup {None},
             scan : Nat \ {0}, seen : Keys \cup {None}]

TypeOK ==
  /\ heap \in [Objs -> Server \cup {None}]
  /\ serverlist \in Seq(Objs)
  /\ returnlist \in Seq(Listings)
  /\ pc \in [Workers -> Labels]
  /\ req \in [Workers -> Requests \cup {None}]
  /\ at \in [Workers -> Nat \ {0}]
  /\ server \in [Workers -> Objs \cup {None}]
  /\ delay \in [Workers -> Ages]
  /\ jsonstring \in [Workers -> Listings \cup {None}]
  /\ sweeper \in Sweepers
  /\ reply \in [req : Requests, status : Statuses] \cup {None}

Init ==
  /\ heap = [o \in Objs |-> None]
  /\ serverlist = <<>>
  /\ returnlist = <<>>
  /\ pc = [w \in Workers |-> "idle"]
  /\ req = [w \in Workers |-> None]
  /\ at = [w \in Workers |-> 1]
  /\ server = [w \in Workers |-> None]
  /\ delay = [w \in Workers |-> 0]
  /\ jsonstring = [w \in Workers |-> None]
  /\ sweeper = [pc |-> "next", at |-> 1, server |-> None, scan |-> 1, seen |-> None]
  /\ reply = None

-----------------------------------------------------------------------------
(* Objects, lists and threads *)

\* CPython frees an object when the last reference to it goes.
Reclaim(objects, references) ==
  [o \in Objs |-> IF o \in references THEN objects[o] ELSE None]

References(list, locals, victim) == Range(list) \cup Range(locals) \cup {victim}

Unused == {o \in Objs : heap[o] = None}

IsEndpoint(s, r) == s.ip = r.ip /\ s.port = r.port

\* list.remove(x) without another thread in between.
Equals(x) == {i \in DOMAIN serverlist :
                serverlist[i] = x \/ Key(heap[serverlist[i]]) = Key(heap[x])}
RemoveFirstEqual(x) ==
  \E i \in Equals(x) :
    /\ \A j \in Equals(x) : i <= j
    /\ serverlist' = RemoveAt(serverlist, i)

HasNext(w) == at[w] <= Len(serverlist)
Current(w) == serverlist[at[w]]

\* Mutant: the entry is looked up by registeredby, as unregister_server does.
MatchesRegistrant(w) == HasNext(w) /\ heap[Current(w)].registeredby = req[w].ip

\* Mutant: only the port is compared.
MatchesPort(w) == HasNext(w) /\ heap[Current(w)].port = req[w].port

\* The loop is at an entry of the caller's endpoint ...
Matches(w) == HasNext(w) /\ IsEndpoint(heap[Current(w)], req[w])

\* ... or has looked at every entry in vain.
NotFound(w) == ~HasNext(w)

Goto(w, label) == pc' = [pc EXCEPT ![w] = label]
Advance(w)     == at' = [at EXCEPT ![w] = @ + 1]
Rewind(w)      == at' = [at EXCEPT ![w] = 1]
Quiet          == reply' = None

\* The handler returns: its locals go, and with them what only they referred to.
Return(w, status, objects, list) ==
  /\ reply' = [req |-> req[w], status |-> status]
  /\ Goto(w, "idle")
  /\ Rewind(w)
  /\ req' = [req EXCEPT ![w] = None]
  /\ server' = [server EXCEPT ![w] = None]
  /\ delay' = [delay EXCEPT ![w] = 0]
  /\ heap' = Reclaim(objects, References(list, server', sweeper.server))

-----------------------------------------------------------------------------
(* The exposed methods *)

FirstLabel == [register_server   |-> "exists",
               update_server     |-> "update",
               perform_heartbeat |-> "heartbeat",
               unregister_server |-> "unregister",
               get_serverlist    |-> "list"]

\* Mutant: get_serverlist appends to what the previous call left.
KeepList(r) == returnlist

\* get_serverlist starts by resetting the list that all its calls share.
ResetList(r) == IF r.op = "get_serverlist" THEN <<>> ELSE returnlist

\* A request reaches an idle worker.
Call(w) ==
  \E r \in Requests :
    /\ r.op \in Handlers
    /\ pc[w] = "idle"
    /\ req' = [req EXCEPT ![w] = r]
    /\ Goto(w, FirstLabel[r.op])
    /\ returnlist' = ResetList(r)
    /\ Quiet
    /\ UNCHANGED <<heap, serverlist, at, server, delay, jsonstring, sweeper>>

\* A loop that looks for the caller's endpoint passes over another entry.
Skip(w) ==
  /\ pc[w] \in {"exists", "update", "heartbeat"}
  /\ HasNext(w)
  /\ ~Matches(w)
  /\ Advance(w)
  /\ Quiet
  /\ UNCHANGED <<heap, serverlist, returnlist, pc, req, server, delay, jsonstring, sweeper>>

\* server_exists returns True: register_server goes on to update the entry.
Exists(w) ==
  /\ pc[w] = "exists"
  /\ Matches(w)
  /\ Goto(w, "update")
  /\ Rewind(w)
  /\ Quiet
  /\ UNCHANGED <<heap, serverlist, returnlist, req, server, delay, jsonstring, sweeper>>

\* Mutant: the constructor does not initialise registeredby.
NewServerBare(r) == [ip |-> r.ip, port |-> r.port, name |-> r.name, age |-> 0]

\* Mutant: register_server records who registered the entry.
NewServerOwned(r) == [ip |-> r.ip, port |-> r.port, name |-> r.name,
                      registeredby |-> r.ip, age |-> 0]

NewServer(r) == [ip |-> r.ip, port |-> r.port, name |-> r.name,
                 registeredby |-> Unset, age |-> 0]

\* server_exists returns False: register_server builds the entry, stamped
\* now, and starts to probe the game port.
Build(w) ==
  /\ pc[w] = "exists"
  /\ NotFound(w)
  /\ \E o \in Unused :
       /\ heap' = [heap EXCEPT ![o] = NewServer(req[w])]
       /\ server' = [server EXCEPT ![w] = o]
  /\ Goto(w, "probe")
  /\ Rewind(w)
  /\ Quiet
  /\ UNCHANGED <<serverlist, returnlist, req, delay, jsonstring, sweeper>>

\* What requests.get with timeout=2 does to the handler.  A read timeout is
\* no ConnectionError, nobody catches it, and CherryPy answers with status 500.
ProbeOutcomes == {"answered", "connection_error", "connect_timeout", "read_timeout"}

ProbeFails(w) ==
  /\ pc[w] = "probe"
  /\ \E outcome \in ProbeOutcomes :
       \/ /\ outcome = "connect_timeout"
          /\ req[w].ip # Loopback
          /\ Return(w, "unreachable", heap, serverlist)
       \/ /\ outcome = "read_timeout"
          /\ Return(w, "http500", heap, serverlist)
  /\ UNCHANGED <<serverlist, returnlist, jsonstring, sweeper>>

AppendServer(w) ==
  /\ pc[w] = "probe"
  /\ \E outcome \in ProbeOutcomes :
       \/ outcome \in {"answered", "connection_error"}
       \/ outcome = "connect_timeout" /\ req[w].ip = Loopback
  /\ serverlist' = Append(serverlist, server[w])
  /\ Return(w, "added", heap, serverlist')
  /\ UNCHANGED <<returnlist, jsonstring, sweeper>>

\* internal_update_server finds the entry and writes its descriptive fields ...
Assign(w) ==
  /\ pc[w] = "update"
  /\ Matches(w)
  /\ heap' = [heap EXCEPT ![Current(w)].name = req[w].name]
  /\ server' = [server EXCEPT ![w] = Current(w)]
  /\ Goto(w, "stamp")
  /\ Rewind(w)
  /\ Quiet
  /\ UNCHANGED <<serverlist, returnlist, req, delay, jsonstring, sweeper>>

\* A stamp is the clock as it was at some moment since the entry was found.
Stamped(w, age) == [heap EXCEPT ![server[w]].age = age]

\* ... and then its stamp.
Stamp(w) ==
  /\ pc[w] = "stamp"
  /\ \E age \in 0 .. delay[w] : Return(w, "updated", Stamped(w, age), serverlist)
  /\ UNCHANGED <<serverlist, returnlist, jsonstring, sweeper>>

\* internal_update_server returns False: update_server reports it,
\* register_server does not look at the result.
UpdateMissed(w) ==
  /\ pc[w] = "update"
  /\ NotFound(w)
  /\ LET status == IF req[w].op = "register_server" THEN "updated" ELSE "not_registered"
     IN  Return(w, status, heap, serverlist)
  /\ UNCHANGED <<serverlist, returnlist, jsonstring, sweeper>>

\* perform_heartbeat finds an entry of the caller ...
Find(w) ==
  /\ pc[w] = "heartbeat"
  /\ Matches(w)
  /\ server' = [server EXCEPT ![w] = Current(w)]
  /\ Advance(w)
  /\ Goto(w, "beat")
  /\ Quiet
  /\ UNCHANGED <<heap, serverlist, returnlist, req, delay, jsonstring, sweeper>>

\* ... stamps it and goes on to the next.
Beat(w) ==
  /\ pc[w] = "beat"
  /\ server' = [server EXCEPT ![w] = None]
  /\ \E age \in 0 .. delay[w] :
       heap' = Reclaim(Stamped(w, age), References(serverlist, server', sweeper.server))
  /\ delay' = [delay EXCEPT ![w] = 0]
  /\ Goto(w, "heartbeat")
  /\ Quiet
  /\ UNCHANGED <<serverlist, returnlist, jsonstring, req, at, sweeper>>

\* unregister_server looks for entries whose registeredby is the caller.
Owned(w) ==
  LET s == heap[Current(w)]
  IN  s.registeredby = req[w].ip /\ s.port = req[w].port

\* Nothing ever assigns registeredby, so no entry is owned and list.remove is not
\* reached from here (Unowned in MasterServerProofs); it is one step.
Unregister(w) ==
  /\ pc[w] = "unregister"
  /\ HasNext(w)
  /\ IF Owned(w) THEN RemoveFirstEqual(Current(w)) ELSE UNCHANGED serverlist
  /\ heap' = Reclaim(heap, References(serverlist', server, sweeper.server))
  /\ Advance(w)
  /\ Quiet
  /\ UNCHANGED <<returnlist, pc, req, server, delay, jsonstring, sweeper>>

\* perform_heartbeat and unregister_server end without a result.
EndOfLoop(w) ==
  /\ pc[w] \in {"heartbeat", "unregister"}
  /\ ~HasNext(w)
  /\ Return(w, "empty", heap, serverlist)
  /\ UNCHANGED <<serverlist, returnlist, jsonstring, sweeper>>

\* get_serverlist takes the next entry, ...
Take(w) ==
  /\ pc[w] = "list"
  /\ HasNext(w)
  /\ server' = [server EXCEPT ![w] = Current(w)]
  /\ Advance(w)
  /\ Goto(w, "copy")
  /\ Quiet
  /\ UNCHANGED <<heap, serverlist, returnlist, req, delay, jsonstring, sweeper>>

\* ... makes a copy of it ...
Copy(w) ==
  /\ pc[w] = "copy"
  /\ jsonstring' = [jsonstring EXCEPT ![w] = Listing(heap[server[w]])]
  /\ Goto(w, "append")
  /\ Quiet
  /\ UNCHANGED <<heap, serverlist, returnlist, req, at, server, delay, sweeper>>

\* ... and appends the copy to the shared list.
AppendListing(w) ==
  /\ pc[w] = "append"
  /\ returnlist' = Append(returnlist, jsonstring[w])
  /\ jsonstring' = [jsonstring EXCEPT ![w] = None]
  /\ server' = [server EXCEPT ![w] = None]
  /\ heap' = Reclaim(heap, References(serverlist, server', sweeper.server))
  /\ Goto(w, "list")
  /\ Quiet
  /\ UNCHANGED <<serverlist, req, at, delay, sweeper>>

\* get_serverlist answers with self.returnlist as it is now.
SendList(w) ==
  /\ pc[w] = "list"
  /\ ~HasNext(w)
  /\ Return(w, "listing", heap, serverlist)
  /\ UNCHANGED <<serverlist, returnlist, jsonstring, sweeper>>

WorkerStep(w) ==
  \/ Skip(w)
  \/ Exists(w)
  \/ Build(w)
  \/ ProbeFails(w)
  \/ AppendServer(w)
  \/ Assign(w)
  \/ Stamp(w)
  \/ UpdateMissed(w)
  \/ Find(w)
  \/ Beat(w)
  \/ Unregister(w)
  \/ EndOfLoop(w)
  \/ Take(w)
  \/ Copy(w)
  \/ AppendListing(w)
  \/ SendList(w)

-----------------------------------------------------------------------------
(* The sweeper thread and the clock *)

\* The sweeper reads the age of the next entry.
SweepVisit ==
  /\ sweeper.pc = "next"
  /\ sweeper.at <= Len(serverlist)
  /\ LET o == serverlist[sweeper.at]
     IN  sweeper' = IF heap[o].age > TimeBetweenHeartbeats
                    THEN [pc |-> "remove", at |-> sweeper.at + 1, server |-> o,
                          scan |-> 1, seen |-> None]
                    ELSE [sweeper EXCEPT !.at = @ + 1]
  /\ Quiet
  /\ UNCHANGED <<heap, serverlist, returnlist, pc, req, at, server, delay, jsonstring>>

\* list.remove takes out what is in the slot by now; the sweeper goes on.
DeleteSlot ==
  /\ serverlist' = IF sweeper.scan \in DOMAIN serverlist
                   THEN RemoveAt(serverlist, sweeper.scan) ELSE serverlist
  /\ sweeper' = [pc |-> "next", at |-> sweeper.at, server |-> None,
                 scan |-> 1, seen |-> None]
  /\ heap' = Reclaim(heap, References(serverlist', server, None))

\* No element was equal: the ValueError ends the thread.
RaiseValueError ==
  /\ sweeper' = [pc |-> "dead", at |-> sweeper.at, server |-> None,
                 scan |-> 1, seen |-> None]
  /\ heap' = Reclaim(heap, References(serverlist, server, None))
  /\ UNCHANGED serverlist

\* list.remove looks at a slot: the entry itself is deleted without a comparison, of
\* any other __eq__ reads the key ...
ReadSlot ==
  LET o == serverlist[sweeper.scan]
  IN  IF o = sweeper.server
      THEN DeleteSlot
      ELSE /\ sweeper' = [pc |-> "compare", at |-> sweeper.at, server |-> sweeper.server,
                          scan |-> sweeper.scan, seen |-> Key(heap[o])]
           /\ UNCHANGED <<heap, serverlist>>

\* self.serverlist.remove(server) goes on to the next slot, if there is one.
SweepRead ==
  /\ sweeper.pc = "remove"
  /\ IF sweeper.scan <= Len(serverlist) THEN ReadSlot ELSE RaiseValueError
  /\ Quiet
  /\ UNCHANGED <<returnlist, pc, req, at, server, delay, jsonstring>>

\* Mutant: __eq__ is satisfied when one of the two fields is the same.
SweepCompareEither ==
  /\ sweeper.pc = "compare"
  /\ LET key == Key(heap[sweeper.server])
     IN  sweeper' = IF sweeper.seen.name = key.name \/ sweeper.seen.port = key.port
                    THEN [sweeper EXCEPT !.pc = "delete", !.seen = None]
                    ELSE [sweeper EXCEPT !.pc = "remove", !.seen = None, !.scan = @ + 1]
  /\ Quiet
  /\ UNCHANGED <<heap, serverlist, returnlist, pc, req, at, server, delay, jsonstring>>

\* ... and then that of the entry to remove, which may have got a new name.
SweepCompare ==
  /\ sweeper.pc = "compare"
  /\ sweeper' = IF sweeper.seen = Key(heap[sweeper.server])
                THEN [pc |-> "delete", at |-> sweeper.at, server |-> sweeper.server,
                      scan |-> sweeper.scan, seen |-> None]
                ELSE [pc |-> "remove", at |-> sweeper.at, server |-> sweeper.server,
                      scan |-> sweeper.scan + 1, seen |-> None]
  /\ Quiet
  /\ UNCHANGED <<heap, serverlist, returnlist, pc, req, at, server, delay, jsonstring>>

SweepDelete ==
  /\ sweeper.pc = "delete"
  /\ DeleteSlot
  /\ Quiet
  /\ UNCHANGED <<returnlist, pc, req, at, server, delay, jsonstring>>

SweepSleep ==
  /\ sweeper.pc = "next"
  /\ sweeper.at > Len(serverlist)
  /\ sweeper' = [pc |-> "sleep", at |-> 1, server |-> None, scan |-> 1, seen |-> None]
  /\ Quiet
  /\ UNCHANGED <<heap, serverlist, returnlist, pc, req, at, server, delay, jsonstring>>

SweepWake ==
  /\ sweeper.pc = "sleep"
  /\ sweeper' = [sweeper EXCEPT !.pc = "next"]
  /\ Quiet
  /\ UNCHANGED <<heap, serverlist, returnlist, pc, req, at, server, delay, jsonstring>>

SweepRemove == SweepRead \/ SweepCompare \/ SweepDelete

\* Mutant: the sweeper goes through the list only once.
SweepOnce == SweepVisit \/ SweepRemove \/ SweepSleep

Sweep == SweepVisit \/ SweepRemove \/ SweepSleep \/ SweepWake

Older(age) == IF age > TimeBetweenHeartbeats THEN age ELSE age + 1

\* The clock passes to the next second.
Tick ==
  /\ heap' = [o \in Objs |-> IF heap[o] = None THEN None
                             ELSE [heap[o] EXCEPT !.age = Older(@)]]
  /\ delay' = [w \in Workers |-> IF pc[w] \in {"stamp", "beat"} THEN Older(delay[w]) ELSE 0]
  /\ Quiet
  /\ UNCHANGED <<serverlist, returnlist, pc, req, at, server, jsonstring, sweeper>>

-----------------------------------------------------------------------------
Next ==
  \/ \E w \in Workers : Call(w) \/ WorkerStep(w)
  \/ Sweep
  \/ Tick

Spec == Init /\ [][Next]_vars

\* Threads that can run do run, and time passes; clients need not call.
Fairness ==
  /\ \A w \in Workers : WF_vars(WorkerStep(w))
  /\ WF_vars(Sweep)
  /\ WF_vars(Tick)

FairSpec == Spec /\ Fairness

-----------------------------------------------------------------------------
(* Properties *)

Listed(r) == \E i \in DOMAIN serverlist : IsEndpoint(heap[serverlist[i]], r)

\* The sweeper never dies of a ValueError: the entry it is about to remove is
\* still in the list when it calls list.remove, although the list changed since
\* it looked, and although unregister_server also removes entries.
SweeperSurvives == sweeper.pc # "dead"

\* An expired entry does not stay: a game server that stopped its heartbeats leaves
\* the server browser unless it comes back, whatever entries the index-based loop of
\* the sweeper skips and whichever namesake list.remove takes instead.
Expired(o) == o \in Range(serverlist) /\ heap[o].age > TimeBetweenHeartbeats

StaleEntriesLeave == \A o \in Objs : Expired(o) ~> ~Expired(o)

-----------------------------------------------------------------------------
(* The server browser that the threads implement *)

\* What can be told of an entry from outside.
Shown(o) == [ip |-> heap[o].ip, port |-> heap[o].port,
             name |-> heap[o].name, age |-> heap[o].age]

Browser == INSTANCE ServerBrowser WITH
  browser   <- [i \in DOMAIN serverlist |-> Shown(serverlist[i])],
  condemned <- IF sweeper.pc \in Removing THEN sweeper.at - 1 ELSE 0,
  pending   <- req

\* Loops, look-ups that go stale, copies in other threads' hands, the index of the
\* sweeper and comparisons that other threads' renames slip into come to single steps
\* on the list: an entry is added, renamed or renewed only for a request of its own
\* endpoint that is being served, and what is evicted is one entry, of the port of an
\* entry that was expired when the sweeper read it and not after it in the list.
ImplementsBrowser == Browser!BSpec
=============================================================================
