--------------------------- MODULE ServerBrowser ---------------------------
(***************************************************************************)
(* What the master server promises: the server browser as one list that    *)
(* only changes in single, complete steps.  No thread has a program        *)
(* counter, a loop or a local variable here: an entry appears, is renamed  *)
(* or renewed only for a request that is being served and that came from   *)
(* the entry's own endpoint, and it disappears only when the sweeper has   *)
(* found an expired entry of the same name and port.                       *)
(*                                                                         *)
(* MasterServer shows that its threads implement this specification.       *)
(***************************************************************************)
EXTENDS Integers, SequencesExt

CONSTANTS
  Hosts, Ports, Names,   \* as in MasterServer
  Workers,               \* bounds the requests being served at once
  Handlers,              \* the methods that clients call
  TimeBetweenHeartbeats, \* the age beyond which an entry is stale
  None                   \* no request

ASSUME PeriodAssumption == TimeBetweenHeartbeats \in Nat

Ages  == 0 .. (TimeBetweenHeartbeats + 1)
Entry == [ip : Hosts, port : Ports, name : Names, age : Ages]

Requests ==
  [op : {"register_server", "update_server"}, ip : Hosts, port : Ports, name : Names]
    \cup [op : {"perform_heartbeat", "unregister_server"}, ip : Hosts, port : Ports]
    \cup [op : {"get_serverlist"}]

VARIABLES
  browser,    \* the entries, in the order they are shown
  condemned,  \* position of the entry the sweeper has found expired, 0 if none
  pending     \* the requests being served

bvars == <<browser, condemned, pending>>

BTypeOK ==
  /\ browser \in Seq(Entry)
  /\ condemned \in 0 .. Len(browser)
  /\ pending \in [Workers -> Requests \cup {None}]

BInit ==
  /\ browser = <<>>
  /\ condemned = 0
  /\ pending = [w \in Workers |-> None]

-----------------------------------------------------------------------------
Stale(s) == s.age > TimeBetweenHeartbeats

\* Mutant: an entry is anybody's who uses its port.
OwnPort(r) == {i \in DOMAIN browser : browser[i].port = r.port}

Own(r) == {i \in DOMAIN browser : browser[i].ip = r.ip /\ browser[i].port = r.port}

Receive(w, r) ==
  /\ pending[w] = None
  /\ pending' = [pending EXCEPT ![w] = r]
  /\ UNCHANGED <<browser, condemned>>

Answered(w) == pending' = [pending EXCEPT ![w] = None]

Serving(w, ops) == pending[w] # None /\ pending[w].op \in ops

\* Mutant: the new entry has no name.
EnlistBare(w) ==
  /\ Serving(w, {"register_server"})
  /\ browser' = Append(browser, [ip |-> pending[w].ip, port |-> pending[w].port, age |-> 0])
  /\ Answered(w)
  /\ UNCHANGED condemned

\* A registration ends with a new entry; how old it already is depends on how long
\* the probe took.
Enlist(w) ==
  /\ Serving(w, {"register_server"})
  /\ \E age \in Ages :
       browser' = Append(browser, [ip |-> pending[w].ip, port |-> pending[w].port,
                                   name |-> pending[w].name, age |-> age])
  /\ Answered(w)
  /\ UNCHANGED condemned

\* An entry of the caller gets the name the caller gives ...
Rename(w) ==
  /\ Serving(w, {"register_server", "update_server"})
  /\ \E i \in Own(pending[w]) : browser' = [browser EXCEPT ![i].name = pending[w].name]
  /\ UNCHANGED <<condemned, pending>>

\* ... or a new stamp, from a reading of the clock that may be old by then.
Renew(w) ==
  /\ Serving(w, {"register_server", "update_server", "perform_heartbeat"})
  /\ \E i \in Own(pending[w]), age \in Ages : browser' = [browser EXCEPT ![i].age = age]
  /\ Answered(w) \/ UNCHANGED pending
  /\ UNCHANGED condemned

\* A request may also be answered without effect.
Answer(w) ==
  /\ pending[w] # None
  /\ Answered(w)
  /\ UNCHANGED <<browser, condemned>>

\* The sweeper finds an expired entry ...
Condemn(i) ==
  /\ condemned = 0
  /\ i \in DOMAIN browser
  /\ Stale(browser[i])
  /\ condemned' = i
  /\ UNCHANGED <<browser, pending>>

\* ... and removes it, or an entry of the same port that stands before it: while it
\* looks for the first of the same name and port, names change.
Evict ==
  /\ condemned # 0
  /\ \E i \in 1 .. condemned :
       /\ browser[i].port = browser[condemned].port
       /\ browser' = RemoveAt(browser, i)
  /\ condemned' = 0
  /\ UNCHANGED pending

Age ==
  /\ browser' = [i \in DOMAIN browser |->
                   [browser[i] EXCEPT !.age = IF Stale(browser[i]) THEN @ ELSE @ + 1]]
  /\ UNCHANGED <<condemned, pending>>

Serve(w) == Enlist(w) \/ Rename(w) \/ Renew(w) \/ Answer(w)

BNext ==
  \/ \E w \in Workers :
       \/ \E r \in Requests : r.op \in Handlers /\ Receive(w, r)
       \/ Serve(w)
  \/ \E i \in DOMAIN browser : Condemn(i)
  \/ Evict
  \/ Age

BSpec == BInit /\ [][BNext]_bvars
=============================================================================
