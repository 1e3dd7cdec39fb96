------------------------ MODULE MasterServerHistory ------------------------
(***************************************************************************)
(* The master server with history variables.  The methods take no lock, so *)
(* what a call promises depends on what other threads did while it ran;    *)
(* the history records just that, and changes nothing of the behaviour.    *)
(***************************************************************************)
EXTENDS MasterServer

VARIABLES
  disturbed,  \* worker -> did another thread get in the way of its call?
  elapsed,    \* worker -> clock seconds since its perform_heartbeat began
  renamed     \* has an entry got another name since list.remove began?

hvars == <<vars, disturbed, elapsed, renamed>>

\* Two calls that get in each other's way: registrations of one endpoint race
\* between the look-up and the append, listings share self.returnlist.
Conflict(q, r) ==
  /\ q # None /\ r # None
  /\ \/ /\ q.op = "register_server" /\ r.op = "register_server"
        /\ IsEndpoint(q, r)
     \/ q.op = "get_serverlist" /\ r.op = "get_serverlist"

\* A heartbeat starts while another call may hold a reading of the clock from
\* before, with which it will stamp an entry of the same endpoint.
Outdates(v, w) ==
  /\ pc[v] \in {"stamp", "beat"}
  /\ pc[w] = "idle" /\ pc'[w] = "heartbeat"
  /\ IsEndpoint(req[v], req'[w])

HTypeOK ==
  /\ TypeOK
  /\ disturbed \in [Workers -> BOOLEAN]
  /\ elapsed \in [Workers -> Ages]
  /\ renamed \in BOOLEAN

HInit ==
  /\ Init
  /\ disturbed = [w \in Workers |-> FALSE]
  /\ elapsed = [w \in Workers |-> 0]
  /\ renamed = FALSE

\* A call is disturbed by a conflicting one and by any removal, which shifts
\* the entries under the index of its loop.
Watch ==
  disturbed' = [w \in Workers |->
                  /\ pc'[w] # "idle"
                  /\ \/ disturbed[w]
                     \/ Len(serverlist') < Len(serverlist)
                     \/ \E v \in Workers \ {w} : Conflict(req'[w], req'[v])
                     \/ \E v \in Workers : Outdates(v, w)]

Renaming == \E o \in Objs : heap[o] # None /\ heap'[o] # None /\ heap'[o].name # heap[o].name

WatchNames == renamed' = (sweeper'.pc \in Removing /\ (renamed \/ Renaming))

Timed(w) == {pc[w], pc'[w]} \subseteq {"heartbeat", "beat"}

HNext ==
  \/ /\ (\E w \in Workers : Call(w) \/ WorkerStep(w)) \/ Sweep
     /\ Watch
     /\ WatchNames
     /\ elapsed' = [w \in Workers |-> IF Timed(w) THEN elapsed[w] ELSE 0]
  \/ /\ Tick
     /\ Watch
     /\ WatchNames
     /\ elapsed' = [w \in Workers |-> IF Timed(w) THEN Older(elapsed[w]) ELSE 0]

HSpec == HInit /\ [][HNext]_hvars

-----------------------------------------------------------------------------
(* Properties *)

\* register_server does not list an endpoint twice when it runs undisturbed: once
\* it has decided to build a new entry, no entry of that endpoint is on the list
\* and none appears, for as long as the probe takes (the check at the start and
\* the append at the end are up to two seconds apart).
RegistersOnce ==
  \A w \in Workers :
    pc[w] = "probe" /\ ~disturbed[w] => ~Listed(req[w])

\* perform_heartbeat reaches every entry of the caller when it runs undisturbed,
\* twins included: when its loop ends, none of them is older than the call.
HeartbeatReachesAll ==
  \A w \in Workers :
    pc[w] = "heartbeat" /\ ~HasNext(w) /\ ~disturbed[w] =>
      \A i \in DOMAIN serverlist :
        LET s == heap[serverlist[i]]
        IN  IsEndpoint(s, req[w]) => s.age <= elapsed[w]

\* An undisturbed get_serverlist answers with the list as it is when it answers:
\* every entry once, in order, those appended while it ran included, and nothing
\* left over from another call in the shared self.returnlist.
ListingExact ==
  \A w \in Workers :
    pc[w] = "list" /\ ~HasNext(w) /\ ~disturbed[w] =>
      /\ Len(returnlist) = Len(serverlist)
      /\ \A i \in DOMAIN serverlist : IsEndpoint(heap[serverlist[i]], returnlist[i])

\* While names stay as they are, list.remove takes out the first entry of the name
\* and port of the one the sweeper has condemned, whatever is appended or read
\* meanwhile, and never another.
RemovesNamesake ==
  [][Len(serverlist') < Len(serverlist) /\ ~renamed =>
       \E i \in DOMAIN serverlist :
         /\ Key(heap[serverlist[i]]) = Key(heap[sweeper.server])
         /\ \A j \in 1 .. i - 1 : Key(heap[serverlist[j]]) # Key(heap[sweeper.server])
         /\ serverlist' = RemoveAt(serverlist, i)]_hvars
=============================================================================
