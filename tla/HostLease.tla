----------------------------- MODULE HostLease -----------------------------
(***************************************************************************)
(* Game hosts, the network and the server browser together: hosts register *)
(* and send heartbeats, requests are delayed, reordered or lost, hosts     *)
(* crash with requests still on their way, and the master server, which    *)
(* keeps everything in memory, restarts.                                   *)
(*                                                                         *)
(* The master server is its abstract specification, ServerBrowser; of a    *)
(* host only that part of FOnlineSessionPython is left that decides which  *)
(* requests it sends (SessionInterface has all of it).                     *)
(***************************************************************************)
EXTENDS ServerBrowser, FiniteSets

CONSTANTS
  MaxEntries,    \* bounds the length of the browser
  MaxInFlight    \* bounds the requests of a host that are on their way

ASSUME BoundsAssumption == MaxEntries \in Nat /\ MaxInFlight \in Nat

VARIABLES
  host,     \* what each host is doing
  net,      \* requests on their way to the master server
  accepted  \* hosts whose registration has been answered, answer on its way

lvars == <<bvars, host, net, accepted>>

\* Every variable has its type; the position the sweeper holds is on the list, and an
\* answer is on its way only to a host that waits for one.
LTypeOK ==
  /\ BTypeOK
  /\ Len(browser) <= MaxEntries
  /\ host \in [Hosts -> {"down", "up", "registering", "beating"}]
  /\ net \in SUBSET Requests
  /\ accepted \in SUBSET {h \in Hosts : host[h] = "registering"}

LInit ==
  /\ BInit
  /\ host = [h \in Hosts |-> "down"]
  /\ net = {}
  /\ accepted = {}

Of(h) == {r \in net : r.ip = h}

Send(r) ==
  /\ Cardinality(Of(r.ip)) < MaxInFlight
  /\ net' = net \cup {r}

Goes(h, from, to) == host[h] \in from /\ host' = [host EXCEPT ![h] = to]

Boot(h) ==
  /\ Goes(h, {"down"}, "up")
  /\ UNCHANGED <<bvars, net, accepted>>

\* CreateSession.
Register(h) ==
  /\ Goes(h, {"up"}, "registering")
  /\ \E port \in Ports, name \in Names :
       Send([op |-> "register_server", ip |-> h, port |-> port, name |-> name])
  /\ UNCHANGED <<bvars, accepted>>

\* CreateSession_ResponseReceived, with the answer that the server accepted.
StartBeating(h) ==
  /\ h \in accepted
  /\ Goes(h, {"registering"}, "beating")
  /\ accepted' = accepted \ {h}
  /\ UNCHANGED <<bvars, net>>

\* CreateSession_ResponseReceived, with a refusal or no answer: the session is
\* destroyed, although the server may have listed the host.
GiveUp(h) ==
  /\ Goes(h, {"registering"}, "up")
  /\ accepted' = accepted \ {h}
  /\ UNCHANGED <<bvars, net>>

\* PerformHeartbeat: whatever has become of the entry, only a heartbeat is sent.
Beat(h) ==
  /\ host[h] = "beating"
  /\ \E port \in Ports : Send([op |-> "perform_heartbeat", ip |-> h, port |-> port])
  /\ UNCHANGED <<bvars, host, accepted>>

\* UpdateSession.
Update(h) ==
  /\ host[h] = "beating"
  /\ \E port \in Ports, name \in Names :
       Send([op |-> "update_server", ip |-> h, port |-> port, name |-> name])
  /\ UNCHANGED <<bvars, host, accepted>>

\* The process ends; what it has sent stays on its way.
Crash(h) ==
  /\ Goes(h, {"up", "registering", "beating"}, "down")
  /\ accepted' = accepted \ {h}
  /\ UNCHANGED <<bvars, net>>

HostStep(h) == Register(h) \/ StartBeating(h) \/ GiveUp(h) \/ Beat(h) \/ Update(h)

-----------------------------------------------------------------------------
(* The network *)

Deliver(r) ==
  /\ \E w \in Workers : Receive(w, r)
  /\ net' = net \ {r}
  /\ UNCHANGED <<host, accepted>>

Lose(r) ==
  /\ net' = net \ {r}
  /\ UNCHANGED <<bvars, host, accepted>>

-----------------------------------------------------------------------------
(* The master server *)

\* The answer to a registration reaches the process that waits for it.
Reply(w) ==
  LET r == pending[w]
  IN  accepted' = IF r.op = "register_server" /\ pending'[w] = None /\ host[r.ip] = "registering"
                  THEN accepted \cup {r.ip} ELSE accepted

Work(w) ==
  /\ Serve(w)
  /\ Len(browser') <= MaxEntries
  /\ Reply(w)
  /\ UNCHANGED <<host, net>>

Sweep ==
  /\ (\E i \in DOMAIN browser : Condemn(i)) \/ Evict
  /\ UNCHANGED <<host, net, accepted>>

TimePasses == Age /\ UNCHANGED <<host, net, accepted>>

\* self.serverlist is empty after a restart, and calls that were running are lost.
Restart ==
  /\ browser' = <<>>
  /\ condemned' = 0
  /\ pending' = [w \in Workers |-> None]
  /\ UNCHANGED <<host, net, accepted>>

-----------------------------------------------------------------------------
LNext ==
  \/ \E h \in Hosts : Boot(h) \/ HostStep(h) \/ Crash(h)
  \/ \E r \in net : Deliver(r) \/ Lose(r)
  \/ \E w \in Workers : Work(w)
  \/ Sweep
  \/ TimePasses
  \/ Restart

LSpec == LInit /\ [][LNext]_lvars

\* A request on its way arrives or is lost, a call ends, time passes and the sweeper
\* visits every position of the list time and again.  Hosts need not do anything.
Condemned(i) == Condemn(i) /\ UNCHANGED <<host, net, accepted>>
Evicted      == Evict /\ UNCHANGED <<host, net, accepted>>
Ends(w)      == Work(w) /\ pending'[w] = None

LFairness ==
  /\ \A r \in Requests : WF_lvars(r \in net /\ (Deliver(r) \/ Lose(r)))
  /\ \A w \in Workers : WF_lvars(Ends(w))
  /\ \A i \in 1 .. MaxEntries : SF_lvars(Condemned(i))
  /\ WF_lvars(Evicted)
  /\ WF_lvars(TimePasses)

LFairSpec == LSpec /\ LFairness

-----------------------------------------------------------------------------
(* Properties *)

\* The process of a host is gone, and so is everything it has sent.
Silent(h) ==
  /\ host[h] = "down"
  /\ Of(h) = {}
  /\ \A w \in Workers : pending[w] # None => pending[w].ip # h

\* What is listed of a silent host only fades, until its process is started again:
\* no entry of it appears, none gets younger or changes its name, whatever the
\* other hosts send and whatever entries the sweeper removes in the meantime.
SilentHostsFade ==
  [][\A h \in Hosts :
       Silent(h) /\ host'[h] = "down" =>
         /\ Silent(h)'
         /\ \A i \in DOMAIN browser' : browser'[i].ip = h =>
              \E j \in {i, i + 1} \cap DOMAIN browser :
                /\ browser[j].ip = h
                /\ browser[j].port = browser'[i].port
                /\ browser[j].name = browser'[i].name
                /\ browser[j].age <= browser'[i].age]_lvars

ListedHost(h) == \E i \in DOMAIN browser : browser[i].ip = h

\* A game server that is gone for good leaves the server browser for good: although
\* requests it sent before may still arrive and list it or renew it, although the
\* sweeper removes namesakes in its place, and whatever the other hosts do.
GhostsLeave ==
  \A h \in Hosts : <>[](host[h] = "down") => <>[](~ListedHost(h))
=============================================================================
