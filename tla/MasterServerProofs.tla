------------------------ MODULE MasterServerProofs ------------------------
(***************************************************************************)
(* Proofs about the master server, for any number of hosts, ports, names,  *)
(* entries and worker threads and any heartbeat period: first what always  *)
(* holds of the list and its entries, then that the threads of the server  *)
(* implement the server browser.                                           *)
(***************************************************************************)
EXTENDS MasterServer, SequenceTheorems, TLAPS

-----------------------------------------------------------------------------
(* The inductive invariant of the server without history *)

\* Nothing that is referred to is freed.
Alive ==
  /\ \A i \in DOMAIN serverlist : heap[serverlist[i]] # None
  /\ \A w \in Workers : server[w] # None => heap[server[w]] # None

\* A worker serves a request that its program counter fits, with an entry in
\* hand where it needs one.
Consistent ==
  \A w \in Workers :
    /\ pc[w] \in {"probe", "stamp", "beat", "copy"} => server[w] # None
    /\ pc[w] = "append" => jsonstring[w] \in Listings
    /\ pc[w] # "idle" => req[w] \in Requests
    /\ pc[w] \in {"exists", "probe"} => req[w].op = "register_server"
    /\ pc[w] \in {"update", "stamp"} => req[w].op \in {"register_server", "update_server"}
    /\ pc[w] \in {"heartbeat", "beat"} => req[w].op = "perform_heartbeat"
    /\ pc[w] = "unregister" => req[w].op = "unregister_server"
    /\ pc[w] \in {"list", "copy", "append"} => req[w].op = "get_serverlist"

\* The entry that the sweeper removes is on the list, ahead of the slot that
\* list.remove compares or in it: nobody else removes, since no entry has an owner for
\* unregister_server to match.
VictimListed ==
  sweeper.pc \in Removing =>
    \E i \in DOMAIN serverlist :
      /\ serverlist[i] = sweeper.server
      /\ sweeper.scan <= i
      /\ sweeper.pc # "remove" => sweeper.scan < i
Unowned == \A o \in Objs : heap[o] # None => heap[o].registeredby = Unset

Inv == TypeOK /\ Alive /\ Consistent /\ VictimListed /\ Unowned /\ SweeperSurvives

-----------------------------------------------------------------------------
(* Lists *)

\* What removing one element leaves of a list: it is one shorter, and each
\* element left was on it.
LEMMA RemoveAtFacts ==
  ASSUME NEW S, NEW s \in Seq(S), NEW i \in 1 .. Len(s)
  PROVE  /\ RemoveAt(s, i) \in Seq(S)
         /\ Len(RemoveAt(s, i)) = Len(s) - 1
         /\ \A k \in 1 .. Len(s) - 1 :
              RemoveAt(s, i)[k] = IF k < i THEN s[k] ELSE s[k + 1]
<1> DEFINE l == SubSeq(s, 1, i - 1)
           r == SubSeq(s, i + 1, Len(s))
<1>1. /\ l \in Seq(S) /\ Len(l) = i - 1
      /\ \A k \in 1 .. i - 1 : l[k] = s[k]
  BY SubSeqProperties
<1>2. /\ r \in Seq(S) /\ Len(r) = Len(s) - i
      /\ \A k \in 1 .. Len(s) - i : r[k] = s[i + k]
  BY SubSeqProperties
<1>3. RemoveAt(s, i) = l \o r
  BY DEF RemoveAt
<1>4. /\ l \o r \in Seq(S)
      /\ Len(l \o r) = Len(l) + Len(r)
      /\ \A k \in 1 .. Len(l) + Len(r) :
           (l \o r)[k] = IF k <= Len(l) THEN l[k] ELSE r[k - Len(l)]
  BY <1>1, <1>2, ConcatProperties
<1> HIDE DEF l, r
<1>5. Len(s) \in Nat /\ Len(l) + Len(r) = Len(s) - 1
  BY <1>1, <1>2
<1>6. ASSUME NEW k \in 1 .. Len(s) - 1
      PROVE  (l \o r)[k] = IF k < i THEN s[k] ELSE s[k + 1]
  <2>1. CASE k < i
    BY <2>1, <1>1, <1>4, <1>5
  <2>2. CASE ~(k < i)
    <3>1. /\ k - Len(l) \in 1 .. Len(s) - i
          /\ i + (k - Len(l)) = k + 1
      BY <2>2, <1>1, <1>5
    <3> QED BY <2>2, <3>1, <1>1, <1>2, <1>4, <1>5
  <2> QED BY <2>1, <2>2
<1> QED BY <1>3, <1>4, <1>5, <1>6

\* Appending keeps what was on the list where it was.
LEMMA AppendFacts ==
  ASSUME NEW S, NEW s \in Seq(S), NEW x \in S
  PROVE  /\ Append(s, x) \in Seq(S)
         /\ Len(Append(s, x)) = Len(s) + 1
         /\ Append(s, x)[Len(s) + 1] = x
         /\ \A k \in 1 .. Len(s) : Append(s, x)[k] = s[k]
  BY AppendProperties

-----------------------------------------------------------------------------
(* Steps *)

\* Reclaiming keeps every object that is referred to as it is.
LEMMA ReclaimFacts ==
  ASSUME NEW objects \in [Objs -> Server \cup {None}], NEW references
  PROVE  /\ Reclaim(objects, references) \in [Objs -> Server \cup {None}]
         /\ \A o \in Objs : o \in references => Reclaim(objects, references)[o] = objects[o]
         /\ \A o \in Objs : Reclaim(objects, references)[o] # None
                              => Reclaim(objects, references)[o] = objects[o]
  BY DEF Reclaim

\* A state of the sweeper, field by field.
LEMMA SweeperIn ==
  ASSUME NEW p \in Removing \cup {"next", "sleep", "dead"}, NEW i \in Nat \ {0},
         NEW o \in Objs \cup {None}, NEW n \in Nat \ {0}, NEW k \in Keys \cup {None}
  PROVE  [pc |-> p, at |-> i, server |-> o, scan |-> n, seen |-> k] \in Sweepers
  BY DEF Sweepers

LEMMA SweeperFields ==
  ASSUME NEW s \in Sweepers
  PROVE  /\ s = [pc |-> s.pc, at |-> s.at, server |-> s.server,
                 scan |-> s.scan, seen |-> s.seen]
         /\ s.pc \in Removing \cup {"next", "sleep", "dead"} /\ s.at \in Nat \ {0}
         /\ s.server \in Objs \cup {None} /\ s.scan \in Nat \ {0}
         /\ s.seen \in Keys \cup {None}
  BY DEF Sweepers

\* The server starts with empty lists, idle workers and a living sweeper.
LEMMA InitInv == Init => Inv
<1> SUFFICES ASSUME Init PROVE Inv
  OBVIOUS
<1>1. sweeper \in Sweepers
  BY SweeperIn DEF Init, Removing
<1>2. 0 \in Ages
  BY PeriodAssumption DEF Ages
<1>3. TypeOK
  BY <1>1, <1>2 DEF Init, TypeOK, Labels
<1>4. Alive /\ Consistent /\ VictimListed /\ Unowned /\ SweeperSurvives
  BY DEF Init, Alive, Consistent, VictimListed, Unowned, SweeperSurvives, Removing
<1> QED BY <1>3, <1>4 DEF Inv

\* A handler that returns, having appended its own entry at most, drops no entry
\* that is still on the list or in another worker's hand.
LEMMA ReturnStep ==
  ASSUME Inv,
         NEW w \in Workers, NEW status \in Statuses,
         NEW objects \in [Objs -> Server \cup {None}], NEW list \in Seq(Objs),
         pc[w] # "idle",
         \A o \in Objs : heap[o] # None => objects[o] # None,
         \A o \in Objs : objects[o] # None => objects[o].registeredby = Unset,
         \A i \in DOMAIN serverlist : i \in DOMAIN list /\ list[i] = serverlist[i],
         Range(list) \subseteq Range(serverlist) \cup ({server[w]} \ {None}),
         Return(w, status, objects, list),
         serverlist' = list,
         UNCHANGED <<returnlist, jsonstring, sweeper>>
  PROVE  Inv'
<1>1. heap' = Reclaim(objects, References(serverlist', server', sweeper'.server))
  BY DEF Return
<1>2. TypeOK'
  <2>1. heap' \in [Objs -> Server \cup {None}]
    BY <1>1, ReclaimFacts
  <2>2. serverlist' \in Seq(Objs) /\ returnlist' \in Seq(Listings)
    BY DEF Inv, TypeOK
  <2>3. pc' \in [Workers -> Labels]
    BY DEF Inv, TypeOK, Return, Goto, Labels
  <2>4. req' \in [Workers -> Requests \cup {None}]
    BY DEF Inv, TypeOK, Return
  <2>5. at' \in [Workers -> Nat \ {0}]
    BY DEF Inv, TypeOK, Return, Rewind
  <2>6. server' \in [Workers -> Objs \cup {None}]
    BY DEF Inv, TypeOK, Return
  <2>7. sweeper' \in Sweepers /\ jsonstring' \in [Workers -> Listings \cup {None}]
    BY DEF Inv, TypeOK
  <2>9. delay' \in [Workers -> Ages]
    BY PeriodAssumption DEF Inv, TypeOK, Return, Ages
  <2>8. reply' \in [req : Requests, status : Statuses] \cup {None}
    BY DEF Inv, TypeOK, Return, Consistent
  <2> QED BY <2>1, <2>2, <2>3, <2>4, <2>5, <2>6, <2>7, <2>8, <2>9 DEF TypeOK
<1>3. Alive'
  <2>1. \A i \in DOMAIN serverlist' : /\ serverlist'[i] \in Objs
                                      /\ serverlist'[i] \in Range(serverlist')
                                      /\ heap[serverlist'[i]] # None
    <3>1. ASSUME NEW i \in DOMAIN serverlist'
          PROVE  serverlist'[i] \in Range(serverlist') /\ serverlist'[i] \in Objs
      BY <3>1 DEF Range
    <3>2. \A o \in Range(serverlist) : heap[o] # None
      BY DEF Inv, Alive, Range
    <3>3. server[w] # None => heap[server[w]] # None
      BY DEF Inv, Alive
    <3>4. Range(serverlist') \subseteq Range(serverlist) \cup ({server[w]} \ {None})
      OBVIOUS
    <3> QED BY <3>1, <3>2, <3>3, <3>4
  <2>2. \A i \in DOMAIN serverlist' : heap'[serverlist'[i]] # None
    BY <1>1, <2>1, ReclaimFacts DEF References
  <2>3. ASSUME NEW v \in Workers, server'[v] # None
        PROVE  heap'[server'[v]] # None
    <3>1. server'[v] = server[v] /\ server[v] \in Objs /\ heap[server[v]] # None
      BY <2>3 DEF Inv, TypeOK, Alive, Return
    <3>2. server'[v] \in Range(server')
      BY DEF Inv, TypeOK, Return, Range
    <3> QED BY <1>1, <3>1, <3>2, ReclaimFacts DEF References
  <2> QED BY <2>2, <2>3 DEF Alive
<1>4. Consistent'
  BY DEF Inv, TypeOK, Consistent, Return, Goto
<1>5. VictimListed'
  BY DEF Inv, VictimListed
<1>6. Unowned'
  BY <1>1, ReclaimFacts DEF Unowned
<1>7. SweeperSurvives'
  BY DEF Inv, SweeperSurvives
<1> QED BY <1>2, <1>3, <1>4, <1>5, <1>6, <1>7 DEF Inv

\* A request that arrives fits the place where its handler begins.
LEMMA CallStep ==
  ASSUME Inv, NEW w \in Workers, Call(w)
  PROVE  Inv'
<1>1. TypeOK'
  BY DEF Inv, TypeOK, Call, Goto, ResetList, Quiet, FirstLabel, Requests, Labels
<1>2. Alive' /\ VictimListed' /\ Unowned' /\ SweeperSurvives'
  BY DEF Inv, Alive, VictimListed, Unowned, SweeperSurvives, Call
<1>3. Consistent'
  BY DEF Inv, TypeOK, Consistent, Call, Goto, FirstLabel, Requests
<1> QED BY <1>1, <1>2, <1>3 DEF Inv

\* Passing over an entry moves nothing but the index of the loop.
LEMMA SkipStep ==
  ASSUME Inv, NEW w \in Workers, Skip(w)
  PROVE  Inv'
<1>1. TypeOK'
  BY DEF Inv, TypeOK, Skip, Advance, Quiet
<1>2. Alive' /\ Consistent' /\ VictimListed' /\ Unowned' /\ SweeperSurvives'
  BY DEF Inv, Alive, Consistent, VictimListed, Unowned, SweeperSurvives, Skip
<1> QED BY <1>1, <1>2 DEF Inv

\* register_server goes from the look-up to the update with its request.
LEMMA ExistsStep ==
  ASSUME Inv, NEW w \in Workers, Exists(w)
  PROVE  Inv'
<1>1. TypeOK'
  BY DEF Inv, TypeOK, Exists, Goto, Rewind, Quiet, Labels
<1>2. Consistent'
  BY DEF Inv, TypeOK, Consistent, Exists, Goto
<1>3. Alive' /\ VictimListed' /\ Unowned' /\ SweeperSurvives'
  BY DEF Inv, Alive, VictimListed, Unowned, SweeperSurvives, Exists
<1> QED BY <1>1, <1>2, <1>3 DEF Inv

\* The fields of a request that an entry is made of.
LEMMA RequestFields ==
  ASSUME NEW r \in Requests, r.op \in {"register_server", "update_server"}
  PROVE  r.ip \in Hosts /\ r.port \in Ports /\ r.name \in Names
  BY DEF Requests

\* When only fields of entries change, what was alive stays alive.
LEMMA SameObjects ==
  ASSUME Inv, serverlist' = serverlist,
         \A o \in Objs : heap[o] # None => heap'[o] # None,
         \A w \in Workers : \/ server'[w] = server[w]
                            \/ server'[w] \in Objs /\ heap'[server'[w]] # None
  PROVE  Alive'
<1>1. ASSUME NEW i \in DOMAIN serverlist'
      PROVE  heap'[serverlist'[i]] # None
  BY DEF Inv, TypeOK, Alive
<1>2. ASSUME NEW w \in Workers, server'[w] # None
      PROVE  heap'[server'[w]] # None
  <2>1. CASE server'[w] = server[w]
    BY <1>2, <2>1 DEF Inv, TypeOK, Alive
  <2> QED BY <1>2, <2>1
<1> QED BY <1>1, <1>2 DEF Alive

\* register_server takes a free object for the new entry; it has no owner.
LEMMA BuildStep ==
  ASSUME Inv, NEW w \in Workers, Build(w)
  PROVE  Inv'
<1>1. PICK o \in Objs : /\ heap[o] = None
                        /\ heap' = [heap EXCEPT ![o] = NewServer(req[w])]
                        /\ server' = [server EXCEPT ![w] = o]
  BY DEF Build, Unused
<1>2. NewServer(req[w]) \in Server /\ NewServer(req[w]).registeredby = Unset
  <2>1. req[w] \in Requests /\ req[w].op = "register_server"
    BY DEF Inv, Consistent, Build
  <2>2. 0 \in Ages
    BY PeriodAssumption DEF Ages
  <2> QED BY <2>1, <2>2, RequestFields DEF NewServer, Server
<1>3. heap' \in [Objs -> Server \cup {None}] /\ heap'[o] # None
  BY <1>1, <1>2, NoneAssumption DEF Inv, TypeOK
<1>4. TypeOK'
  <2>1. server' \in [Workers -> Objs \cup {None}]
    BY <1>1 DEF Inv, TypeOK
  <2> QED BY <1>3, <2>1 DEF Inv, TypeOK, Build, Goto, Rewind, Quiet, Labels
<1>5. Alive'
  BY <1>1, <1>3, SameObjects DEF Inv, TypeOK, Build
<1>6. Consistent'
  <2>1. server'[w] # None /\ \A v \in Workers \ {w} : server'[v] = server[v]
    BY <1>1, NoneAssumption DEF Inv, TypeOK
  <2> QED BY <2>1 DEF Inv, TypeOK, Consistent, Build, Goto
<1>7. VictimListed'
  BY DEF Inv, VictimListed, Build
<1>8. Unowned'
  BY <1>1, <1>2 DEF Inv, TypeOK, Unowned
<1>9. SweeperSurvives'
  BY DEF Inv, SweeperSurvives, Build
<1> QED BY <1>4, <1>5, <1>6, <1>7, <1>8, <1>9 DEF Inv

\* Writing the name of an entry that is alive.
LEMMA WriteName ==
  ASSUME Inv, NEW o \in Objs, heap[o] # None, NEW name \in Names,
         heap' = [heap EXCEPT ![o].name = name]
  PROVE  /\ heap' \in [Objs -> Server \cup {None}]
         /\ \A q \in Objs : heap[q] # None => heap'[q] # None
         /\ \A q \in Objs : heap'[q] # None => heap'[q].registeredby = Unset
<1>1. heap \in [Objs -> Server \cup {None}] /\ heap[o] \in Server
  BY DEF Inv, TypeOK
<1>2. heap[o].registeredby = Unset
  BY DEF Inv, Unowned
<1>4. \A q \in Objs : q # o => heap'[q] = heap[q]
  BY <1>1
<1>5. heap' \in [Objs -> Server \cup {None}] /\ heap'[o] \in Server
  BY <1>1 DEF Server
<1>6. heap'[o].registeredby = Unset
  BY <1>1, <1>2 DEF Server
<1> QED BY <1>4, <1>5, <1>6, NoneAssumption DEF Inv, Unowned

\* A stamp changes the age of the entry that the worker has in hand, and nothing else.
LEMMA StampedFacts ==
  ASSUME Inv, NEW w \in Workers, pc[w] \in {"stamp", "beat"}, NEW age \in 0 .. delay[w]
  PROVE  /\ server[w] \in Objs /\ heap[server[w]] \in Server /\ age \in Ages
         /\ Stamped(w, age) \in [Objs -> Server \cup {None}]
         /\ Stamped(w, age)[server[w]] = [heap[server[w]] EXCEPT !.age = age]
         /\ \A o \in Objs \ {server[w]} : Stamped(w, age)[o] = heap[o]
         /\ \A o \in Objs : heap[o] # None => Stamped(w, age)[o] # None
         /\ \A o \in Objs : Stamped(w, age)[o] # None => Stamped(w, age)[o].registeredby = Unset
         /\ \A o \in Objs : heap[o] # None =>
              /\ Stamped(w, age)[o].ip = heap[o].ip
              /\ Stamped(w, age)[o].port = heap[o].port
              /\ Stamped(w, age)[o].name = heap[o].name
<1> DEFINE objects == [heap EXCEPT ![server[w]].age = age]
<1>1. /\ heap \in [Objs -> Server \cup {None}] /\ server[w] \in Objs
      /\ heap[server[w]] \in Server
      /\ \A o \in Objs : heap[o] # None => heap[o].registeredby = Unset
  BY DEF Inv, TypeOK, Alive, Consistent, Unowned
<1>2. age \in Ages
  BY PeriodAssumption DEF Inv, TypeOK, Ages
<1>3. /\ objects[server[w]] = [heap[server[w]] EXCEPT !.age = age]
      /\ \A o \in Objs \ {server[w]} : objects[o] = heap[o]
  BY <1>1
<1>4. /\ objects[server[w]] \in Server
      /\ objects[server[w]].registeredby = heap[server[w]].registeredby
      /\ objects[server[w]].ip = heap[server[w]].ip
      /\ objects[server[w]].port = heap[server[w]].port
      /\ objects[server[w]].name = heap[server[w]].name
  BY <1>1, <1>2, <1>3 DEF Server
<1>5. objects \in [Objs -> Server \cup {None}]
  BY <1>1, <1>2 DEF Server
<1> HIDE DEF objects
<1>6. \A o \in Objs : heap[o] # None => objects[o] # None
  BY <1>1, <1>3, <1>4, NoneAssumption
<1>7. \A o \in Objs : objects[o] # None => objects[o].registeredby = Unset
  BY <1>1, <1>3, <1>4, NoneAssumption
<1>8. \A o \in Objs : heap[o] # None =>
        /\ objects[o].ip = heap[o].ip /\ objects[o].port = heap[o].port
        /\ objects[o].name = heap[o].name
  BY <1>1, <1>3, <1>4
<1>9. Stamped(w, age) = objects
  BY DEF Stamped, objects
<1> QED BY <1>1, <1>2, <1>3, <1>5, <1>6, <1>7, <1>8, <1>9

\* The entry a worker's loop is at.
LEMMA CurrentFacts ==
  ASSUME Inv, NEW w \in Workers, HasNext(w)
  PROVE  /\ Current(w) \in Objs
         /\ Current(w) \in Range(serverlist)
         /\ heap[Current(w)] # None
<1>1. at[w] \in DOMAIN serverlist
  BY DEF Inv, TypeOK, HasNext
<1> QED BY <1>1 DEF Inv, TypeOK, Alive, Current, Range

\* internal_update_server writes the name of an entry that is on the list.
LEMMA AssignStep ==
  ASSUME Inv, NEW w \in Workers, Assign(w)
  PROVE  Inv'
<1>1. Current(w) \in Objs /\ heap[Current(w)] # None
  BY CurrentFacts DEF Assign, Matches
<1>2. req[w].name \in Names
  BY RequestFields DEF Inv, Consistent, Assign
<1>3. /\ heap' \in [Objs -> Server \cup {None}]
      /\ \A q \in Objs : heap[q] # None => heap'[q] # None
      /\ \A q \in Objs : heap'[q] # None => heap'[q].registeredby = Unset
  BY <1>1, <1>2, WriteName DEF Assign
<1>4. server' = [server EXCEPT ![w] = Current(w)]
  BY DEF Assign
<1>5. TypeOK'
  <2>1. server' \in [Workers -> Objs \cup {None}]
    BY <1>1, <1>4 DEF Inv, TypeOK
  <2> QED BY <1>3, <2>1 DEF Inv, TypeOK, Assign, Goto, Rewind, Quiet, Labels
<1>6. Alive'
  BY <1>1, <1>3, <1>4, SameObjects DEF Inv, TypeOK, Assign
<1>7. Consistent'
  <2>1. server'[w] # None /\ \A v \in Workers \ {w} : server'[v] = server[v]
    BY <1>1, <1>4, NoneAssumption DEF Inv, TypeOK
  <2> QED BY <2>1 DEF Inv, TypeOK, Consistent, Assign, Goto
<1>8. VictimListed'
  BY DEF Inv, VictimListed, Assign
<1>9. Unowned'
  BY <1>3 DEF Unowned
<1>10. SweeperSurvives'
  BY DEF Inv, SweeperSurvives, Assign
<1> QED BY <1>5, <1>6, <1>7, <1>8, <1>9, <1>10 DEF Inv

\* get_serverlist and perform_heartbeat take an entry in hand that is on the list.
LEMMA TakeStep ==
  ASSUME Inv, NEW w \in Workers, Take(w) \/ Find(w)
  PROVE  Inv'
<1>1. /\ Current(w) \in Objs /\ heap[Current(w)] # None
      /\ server' = [server EXCEPT ![w] = Current(w)]
  BY CurrentFacts DEF Take, Find, Matches
<1>2. TypeOK'
  <2>1. server' \in [Workers -> Objs \cup {None}]
    BY <1>1 DEF Inv, TypeOK
  <2>2. at' \in [Workers -> Nat \ {0}]
    <3>1. at \in [Workers -> Nat \ {0}] /\ at' = [at EXCEPT ![w] = at[w] + 1]
      BY DEF Inv, TypeOK, Take, Find, Advance
    <3>2. at[w] + 1 \in Nat \ {0}
      BY <3>1
    <3> QED BY <3>1, <3>2
  <2>3. pc' \in [Workers -> Labels]
    BY DEF Inv, TypeOK, Take, Find, Goto, Labels
  <2> QED BY <2>1, <2>2, <2>3 DEF Inv, TypeOK, Take, Find, Quiet
<1>3. Alive'
  BY <1>1, SameObjects DEF Inv, TypeOK, Take, Find
<1>4. Consistent'
  <2>1. server'[w] # None /\ \A v \in Workers \ {w} : server'[v] = server[v]
    BY <1>1, NoneAssumption DEF Inv, TypeOK
  <2> QED BY <2>1 DEF Inv, TypeOK, Consistent, Take, Find, Goto
<1>5. VictimListed' /\ Unowned' /\ SweeperSurvives'
  BY DEF Inv, VictimListed, Unowned, SweeperSurvives, Take, Find
<1> QED BY <1>2, <1>3, <1>4, <1>5 DEF Inv

\* get_serverlist copies the entry it has in hand.
LEMMA CopyStep ==
  ASSUME Inv, NEW w \in Workers, Copy(w)
  PROVE  Inv'
<1>1. Listing(heap[server[w]]) \in Listings
  <2>1. heap[server[w]] \in Server
    BY DEF Inv, TypeOK, Alive, Consistent, Copy
  <2> QED BY <2>1 DEF Listing, Listings, Server
<1>2. TypeOK'
  BY <1>1 DEF Inv, TypeOK, Copy, Goto, Quiet, Labels
<1>3. Consistent'
  BY <1>1 DEF Inv, TypeOK, Consistent, Copy, Goto
<1>4. Alive' /\ VictimListed' /\ Unowned' /\ SweeperSurvives'
  BY DEF Inv, Alive, VictimListed, Unowned, SweeperSurvives, Copy
<1> QED BY <1>2, <1>3, <1>4 DEF Inv

\* An entry that the sweeper picks for removal is on the list at that moment.
LEMMA SweepVisitStep ==
  ASSUME Inv, SweepVisit
  PROVE  Inv'
<1> DEFINE o == serverlist[sweeper.at]
<1>1. o \in Objs /\ sweeper.at \in DOMAIN serverlist /\ sweeper.at \in Nat \ {0}
  BY DEF Inv, TypeOK, SweepVisit, Sweepers
<1>2. sweeper.pc = "next" /\ sweeper \in Sweepers
  BY DEF Inv, TypeOK, SweepVisit
<1>3. /\ sweeper' \in Sweepers /\ sweeper'.pc \in {"next", "remove"}
      /\ sweeper'.pc = "remove" => sweeper'.server = o /\ sweeper'.scan = 1
  <2>1. CASE sweeper' = [pc |-> "remove", at |-> sweeper.at + 1, server |-> o,
                             scan |-> 1, seen |-> None]
    <3>1. sweeper.at + 1 \in Nat \ {0} /\ 1 \in Nat \ {0}
      BY <1>1
    <3> QED BY <1>1, <2>1, <3>1, SweeperIn DEF Removing
  <2>2. CASE sweeper' = [sweeper EXCEPT !.at = sweeper.at + 1]
    BY <1>2, <2>2 DEF Sweepers, Removing
  <2> QED BY <2>1, <2>2 DEF SweepVisit
<1>4. TypeOK'
  BY <1>3 DEF Inv, TypeOK, SweepVisit, Quiet
<1>5. Alive' /\ Consistent' /\ Unowned'
  BY DEF Inv, Alive, Consistent, Unowned, SweepVisit
<1>6. serverlist' = serverlist
  BY DEF SweepVisit
<1>7. VictimListed' /\ SweeperSurvives'
  BY <1>1, <1>3, <1>6 DEF VictimListed, SweeperSurvives, Removing
<1> QED BY <1>4, <1>5, <1>7 DEF Inv

\* The sweeper goes to sleep and wakes up without an entry to remove.
LEMMA SweepSleepStep ==
  ASSUME Inv, SweepSleep \/ SweepWake
  PROVE  Inv'
<1>1. /\ sweeper' \in Sweepers
      /\ sweeper'.pc \in {"next", "sleep"}
  <2>1. sweeper \in Sweepers
    BY DEF Inv, TypeOK
  <2>2. CASE SweepSleep
    <3>1. sweeper' = [pc |-> "sleep", at |-> 1, server |-> None, scan |-> 1, seen |-> None]
      BY <2>2 DEF SweepSleep
    <3> QED BY <3>1, SweeperIn
  <2>3. CASE SweepWake
    <3>1. sweeper' = [pc |-> "next", at |-> sweeper.at, server |-> sweeper.server,
                      scan |-> sweeper.scan, seen |-> sweeper.seen]
      BY <2>1, <2>3, SweeperFields DEF SweepWake
    <3> QED BY <2>1, <3>1, SweeperFields, SweeperIn
  <2> QED BY <2>2, <2>3
<1>2. TypeOK'
  BY <1>1 DEF Inv, TypeOK, SweepSleep, SweepWake, Quiet
<1>3. Alive' /\ Consistent' /\ Unowned'
  BY DEF Inv, Alive, Consistent, Unowned, SweepSleep, SweepWake
<1>4. VictimListed' /\ SweeperSurvives'
  BY <1>1 DEF VictimListed, SweeperSurvives, Removing
<1> QED BY <1>2, <1>3, <1>4 DEF Inv

\* Time changes ages only, and they stay within their bound.
LEMMA TickStep ==
  ASSUME Inv, Tick
  PROVE  Inv'
<1>1. \A age \in Ages : Older(age) \in Ages
  BY PeriodAssumption DEF Ages, Older
<1>2. ASSUME NEW o \in Objs
      PROVE  /\ heap[o] = None => heap'[o] = None
             /\ heap[o] # None => /\ heap'[o] \in Server
                                  /\ heap'[o].registeredby = Unset
  <2>1. heap[o] # None => heap[o] \in Server
    BY DEF Inv, TypeOK
  <2>2. heap[o] # None => heap'[o] = [heap[o] EXCEPT !.age = Older(@)]
    BY DEF Tick
  <2> QED BY <1>1, <2>1, <2>2 DEF Tick, Server, Inv, Unowned
<1>3. heap' \in [Objs -> Server \cup {None}]
  <2>1. heap' = [o \in Objs |-> heap'[o]]
    BY DEF Tick
  <2> QED BY <1>2, <2>1
<1>4. TypeOK'
  <2>1. delay' \in [Workers -> Ages]
    BY <1>1, PeriodAssumption DEF Inv, TypeOK, Tick, Ages
  <2> QED BY <1>3, <2>1 DEF Inv, TypeOK, Tick, Quiet
<1>5. Alive'
  <2>1. \A o \in Objs : heap[o] # None => heap'[o] # None
    BY <1>2, NoneAssumption
  <2> QED BY <2>1, SameObjects DEF Tick
<1>6. Unowned'
  BY <1>2 DEF Unowned
<1>7. Consistent' /\ VictimListed' /\ SweeperSurvives'
  BY DEF Inv, Consistent, VictimListed, SweeperSurvives, Tick
<1> QED BY <1>4, <1>5, <1>6, <1>7 DEF Inv

\* The handlers that return without a change to self.serverlist.
LEMMA PlainReturnStep ==
  ASSUME Inv, NEW w \in Workers,
         ProbeFails(w) \/ UpdateMissed(w) \/ EndOfLoop(w) \/ SendList(w)
  PROVE  Inv'
<1>1. PICK status \in Statuses : Return(w, status, heap, serverlist)
  BY DEF ProbeFails, UpdateMissed, EndOfLoop, SendList, Statuses
<1>2. pc[w] # "idle" /\ UNCHANGED <<serverlist, returnlist, jsonstring, sweeper>>
  BY DEF ProbeFails, UpdateMissed, EndOfLoop, SendList
<1>3. /\ heap \in [Objs -> Server \cup {None}] /\ serverlist \in Seq(Objs)
      /\ \A o \in Objs : heap[o] # None => heap[o].registeredby = Unset
  BY DEF Inv, TypeOK, Unowned
<1> QED BY <1>1, <1>2, <1>3, ReturnStep

\* register_server appends the entry it has in hand.
LEMMA AppendServerStep ==
  ASSUME Inv, NEW w \in Workers, AppendServer(w)
  PROVE  Inv'
<1> DEFINE list == Append(serverlist, server[w])
<1>1. server[w] \in Objs /\ server[w] # None
  BY DEF Inv, TypeOK, Consistent, AppendServer
<1>2. /\ heap \in [Objs -> Server \cup {None}] /\ serverlist \in Seq(Objs)
      /\ \A o \in Objs : heap[o] # None => heap[o].registeredby = Unset
  BY DEF Inv, TypeOK, Unowned
<1>3. /\ list \in Seq(Objs) /\ DOMAIN list = 1 .. Len(serverlist) + 1
      /\ list[Len(serverlist) + 1] = server[w]
      /\ \A k \in 1 .. Len(serverlist) : list[k] = serverlist[k]
  BY <1>1, <1>2, AppendFacts
<1>4. /\ \A i \in DOMAIN serverlist : i \in DOMAIN list /\ list[i] = serverlist[i]
      /\ Range(list) \subseteq Range(serverlist) \cup ({server[w]} \ {None})
  BY <1>1, <1>2, <1>3 DEF Range
<1>5. /\ serverlist' = list /\ Return(w, "added", heap, list)
      /\ pc[w] # "idle" /\ UNCHANGED <<returnlist, jsonstring, sweeper>>
  BY DEF AppendServer
<1> HIDE DEF list
<1> QED BY <1>2, <1>3, <1>4, <1>5, ReturnStep DEF Statuses

\* internal_update_server stamps the entry it has in hand, listed or not.
LEMMA StampStep ==
  ASSUME Inv, NEW w \in Workers, Stamp(w)
  PROVE  Inv'
<1>1. PICK age \in 0 .. delay[w] : Return(w, "updated", Stamped(w, age), serverlist)
  BY DEF Stamp
<1>2. /\ pc[w] = "stamp" /\ UNCHANGED <<serverlist, returnlist, jsonstring, sweeper>>
      /\ serverlist \in Seq(Objs)
  BY DEF Stamp, Inv, TypeOK
<1>3. /\ Stamped(w, age) \in [Objs -> Server \cup {None}]
      /\ \A o \in Objs : heap[o] # None => Stamped(w, age)[o] # None
      /\ \A o \in Objs : Stamped(w, age)[o] # None => Stamped(w, age)[o].registeredby = Unset
  BY <1>2, StampedFacts
<1> QED BY <1>1, <1>2, <1>3, ReturnStep DEF Statuses

\* A step that takes entries off the list or drops a local variable, and then
\* reclaims what nothing refers to any more.
LEMMA ReclaimStep ==
  ASSUME Inv,
         serverlist' \in Seq(Objs), Range(serverlist') \subseteq Range(serverlist),
         server' \in [Workers -> Objs \cup {None}],
         \A w \in Workers : server'[w] \in {server[w], None},
         NEW objects \in [Objs -> Server \cup {None}],
         \A o \in Objs : heap[o] # None => objects[o] # None,
         \A o \in Objs : objects[o] # None => objects[o].registeredby = Unset,
         NEW victim,
         heap' = Reclaim(objects, References(serverlist', server', victim))
  PROVE  Alive' /\ Unowned' /\ heap' \in [Objs -> Server \cup {None}]
<1>2. ASSUME NEW i \in DOMAIN serverlist'
      PROVE  heap'[serverlist'[i]] # None
  <2>1. serverlist'[i] \in Range(serverlist') /\ serverlist'[i] \in Objs
    BY <1>2 DEF Range
  <2>2. heap[serverlist'[i]] # None
    BY <2>1 DEF Inv, Alive, Range
  <2> QED BY <2>1, <2>2, ReclaimFacts DEF References
<1>3. ASSUME NEW w \in Workers, server'[w] # None
      PROVE  heap'[server'[w]] # None
  <2>1. server'[w] \in Range(server') /\ server'[w] \in Objs
    BY <1>3 DEF Range
  <2>2. heap[server'[w]] # None
    BY <1>3 DEF Inv, Alive
  <2> QED BY <2>1, <2>2, ReclaimFacts DEF References
<1>4. Unowned'
  BY ReclaimFacts DEF Unowned
<1> QED BY <1>2, <1>3, <1>4, ReclaimFacts DEF Alive

\* What ReclaimStep asks of the objects holds of the heap as it is.
LEMMA HeapFacts ==
  ASSUME Inv
  PROVE  /\ heap \in [Objs -> Server \cup {None}]
         /\ \A o \in Objs : heap[o] # None => heap[o].registeredby = Unset
  BY DEF Inv, TypeOK, Unowned

\* perform_heartbeat stamps the entry it has in hand and lets go of it.
LEMMA BeatStep ==
  ASSUME Inv, NEW w \in Workers, Beat(w)
  PROVE  Inv'
<1>1. PICK age \in 0 .. delay[w] :
        heap' = Reclaim(Stamped(w, age), References(serverlist, server', sweeper.server))
  BY DEF Beat
<1>2. /\ server' = [server EXCEPT ![w] = None] /\ pc[w] = "beat"
      /\ UNCHANGED <<serverlist, sweeper>>
      /\ server' \in [Workers -> Objs \cup {None}] /\ serverlist' \in Seq(Objs)
      /\ \A v \in Workers : server'[v] \in {server[v], None}
  BY DEF Inv, TypeOK, Beat
<1>3. /\ Stamped(w, age) \in [Objs -> Server \cup {None}]
      /\ \A o \in Objs : heap[o] # None => Stamped(w, age)[o] # None
      /\ \A o \in Objs : Stamped(w, age)[o] # None => Stamped(w, age)[o].registeredby = Unset
  BY <1>2, StampedFacts
<1>4. Alive' /\ Unowned' /\ heap' \in [Objs -> Server \cup {None}]
  BY <1>1, <1>2, <1>3, ReclaimStep
<1>5. TypeOK'
  <2>1. delay' \in [Workers -> Ages]
    BY PeriodAssumption DEF Inv, TypeOK, Beat, Ages
  <2> QED BY <1>2, <1>4, <2>1 DEF Inv, TypeOK, Beat, Goto, Quiet, Labels
<1>6. Consistent'
  BY <1>2 DEF Inv, TypeOK, Consistent, Beat, Goto
<1>7. VictimListed' /\ SweeperSurvives'
  BY <1>2 DEF Inv, VictimListed, SweeperSurvives
<1> QED BY <1>4, <1>5, <1>6, <1>7 DEF Inv

\* unregister_server finds no entry of the caller's: registeredby is never set.
LEMMA UnregisterStep ==
  ASSUME Inv, NEW w \in Workers, Unregister(w)
  PROVE  Inv'
<1>1. ~Owned(w)
  <2>1. heap[Current(w)].registeredby = Unset
    BY CurrentFacts DEF Inv, Unowned, Unregister
  <2>2. req[w] \in Requests /\ req[w].op = "unregister_server"
    BY DEF Inv, Consistent, Unregister
  <2>3. req[w].ip \in Hosts
    BY <2>2 DEF Requests
  <2> QED BY <2>1, <2>3, UnsetAssumption DEF Owned
<1>2. serverlist' = serverlist
  BY <1>1 DEF Unregister
<1>3. Alive' /\ Unowned' /\ heap' \in [Objs -> Server \cup {None}]
  BY <1>2, ReclaimStep, HeapFacts DEF Inv, TypeOK, Unregister
<1>4. TypeOK'
  BY <1>2, <1>3 DEF Inv, TypeOK, Unregister, Advance, Quiet
<1>5. Consistent' /\ VictimListed' /\ SweeperSurvives'
  BY <1>2 DEF Inv, Consistent, VictimListed, SweeperSurvives, Unregister
<1> QED BY <1>3, <1>4, <1>5 DEF Inv

\* get_serverlist lists the copy and lets go of the entry.
LEMMA AppendListingStep ==
  ASSUME Inv, NEW w \in Workers, AppendListing(w)
  PROVE  Inv'
<1>1. /\ server' = [server EXCEPT ![w] = None]
      /\ server' \in [Workers -> Objs \cup {None}]
      /\ \A v \in Workers : server'[v] \in {server[v], None}
  BY DEF Inv, TypeOK, AppendListing
<1>2. Alive' /\ Unowned' /\ heap' \in [Objs -> Server \cup {None}]
  BY <1>1, ReclaimStep, HeapFacts DEF Inv, TypeOK, AppendListing
<1>3. returnlist' \in Seq(Listings) /\ jsonstring' \in [Workers -> Listings \cup {None}]
  BY DEF Inv, TypeOK, Consistent, AppendListing
<1>4. TypeOK'
  BY <1>1, <1>2, <1>3 DEF Inv, TypeOK, AppendListing, Goto, Quiet, Labels
<1>5. Consistent'
  BY <1>1 DEF Inv, TypeOK, Consistent, AppendListing, Goto
<1>6. VictimListed' /\ SweeperSurvives'
  BY DEF Inv, VictimListed, SweeperSurvives, AppendListing
<1> QED BY <1>2, <1>4, <1>5, <1>6 DEF Inv

\* list.remove does not come to the end of the list.
LEMMA SweepReadInside ==
  ASSUME Inv, SweepRead
  PROVE  sweeper.scan \in DOMAIN serverlist /\ ReadSlot
<1>1. sweeper.pc = "remove" /\ sweeper.scan \in Nat \ {0} /\ serverlist \in Seq(Objs)
  BY DEF Inv, TypeOK, Sweepers, SweepRead
<1>2. PICK i \in DOMAIN serverlist : sweeper.scan <= i
  BY <1>1 DEF Inv, VictimListed, Removing
<1>3. sweeper.scan \in DOMAIN serverlist /\ sweeper.scan <= Len(serverlist)
  BY <1>1, <1>2
<1> QED BY <1>3 DEF SweepRead

\* list.remove moves towards the entry to remove, which it cannot miss.
LEMMA SweepScanStep ==
  ASSUME Inv,
         \/ SweepRead /\ serverlist[sweeper.scan] # sweeper.server
         \/ SweepCompare
  PROVE  Inv' /\ UNCHANGED <<heap, serverlist>> /\ sweeper'.pc \in Removing
<1>1. /\ sweeper \in Sweepers /\ sweeper.pc \in Removing
      /\ UNCHANGED <<heap, serverlist, pc, req, server, at, delay, jsonstring, returnlist>>
      /\ reply' = None
  BY SweepReadInside DEF Inv, TypeOK, SweepRead, ReadSlot, SweepCompare, Quiet, Removing
<1>2. PICK i \in DOMAIN serverlist : /\ serverlist[i] = sweeper.server
                                     /\ sweeper.scan <= i
                                     /\ sweeper.pc # "remove" => sweeper.scan < i
  BY <1>1 DEF Inv, VictimListed
<1>3. i \in Nat /\ sweeper.scan \in Nat \ {0} /\ serverlist \in Seq(Objs)
  BY <1>1 DEF Inv, TypeOK, Sweepers
<1>4. /\ sweeper' \in Sweepers /\ sweeper'.server = sweeper.server
      /\ sweeper'.pc \in Removing /\ sweeper'.scan <= i
      /\ sweeper'.pc # "remove" => sweeper'.scan < i
  <2>1. CASE SweepRead
    <3>1. sweeper.scan \in DOMAIN serverlist
      BY <2>1, SweepReadInside
    <3>2. serverlist[sweeper.scan] \in Objs /\ heap[serverlist[sweeper.scan]] \in Server
      BY <1>3, <3>1 DEF Inv, TypeOK, Alive
    <3>3. Key(heap[serverlist[sweeper.scan]]) \in Keys
      BY <3>2 DEF Key, Keys, Server
    <3>4. serverlist[sweeper.scan] # sweeper.server
      BY <2>1 DEF SweepRead, SweepCompare
    <3>5. sweeper' = [pc |-> "compare", at |-> sweeper.at, server |-> sweeper.server,
                      scan |-> sweeper.scan, seen |-> Key(heap[serverlist[sweeper.scan]])]
      BY <2>1, <3>4, SweepReadInside DEF ReadSlot
    <3>6. sweeper.scan < i
      BY <1>2, <1>3, <3>4
    <3>7. sweeper' \in Sweepers
      BY <1>1, <3>3, <3>5, SweeperFields, SweeperIn DEF Removing
    <3> QED BY <1>3, <3>5, <3>6, <3>7 DEF Removing
  <2>2. CASE SweepCompare
    <3>1. sweeper.scan < i
      BY <1>2, <2>2 DEF SweepCompare
    <3>2. \/ sweeper' = [pc |-> "delete", at |-> sweeper.at, server |-> sweeper.server,
                         scan |-> sweeper.scan, seen |-> None]
          \/ sweeper' = [pc |-> "remove", at |-> sweeper.at, server |-> sweeper.server,
                         scan |-> sweeper.scan + 1, seen |-> None]
      BY <2>2 DEF SweepCompare
    <3>3. sweeper.scan + 1 \in Nat \ {0} /\ sweeper.scan + 1 <= i
      BY <1>3, <3>1
    <3>4. CASE sweeper'.pc = "delete"
      BY <1>1, <3>1, <1>3, <3>2, <3>4, SweeperFields, SweeperIn DEF Removing
    <3>5. CASE sweeper'.pc = "remove"
      BY <1>1, <3>3, <3>2, <3>5, SweeperFields, SweeperIn DEF Removing
    <3> QED BY <3>2, <3>4, <3>5
  <2> QED BY <2>1, <2>2
<1>5. TypeOK'
  BY <1>1, <1>4 DEF Inv, TypeOK
<1>6. Alive' /\ Consistent' /\ Unowned'
  BY <1>1 DEF Inv, Alive, Consistent, Unowned
<1>7. VictimListed' /\ SweeperSurvives'
  BY <1>1, <1>2, <1>4 DEF VictimListed, SweeperSurvives, Removing
<1> QED BY <1>1, <1>4, <1>5, <1>6, <1>7 DEF Inv

\* A slot that list.remove deletes is on the list.
LEMMA DeleteFacts ==
  ASSUME Inv,
         \/ SweepRead /\ serverlist[sweeper.scan] = sweeper.server
         \/ SweepDelete
  PROVE  /\ sweeper.pc \in {"remove", "delete"} /\ sweeper.scan \in 1 .. Len(serverlist)
         /\ serverlist' = RemoveAt(serverlist, sweeper.scan)
         /\ sweeper' = [pc |-> "next", at |-> sweeper.at, server |-> None,
                        scan |-> 1, seen |-> None]
         /\ heap' = Reclaim(heap, References(serverlist', server', None))
         /\ UNCHANGED <<pc, req, server, at, delay, jsonstring, returnlist>>
         /\ reply' = None
<1>1. /\ DeleteSlot /\ sweeper.pc \in {"remove", "delete"} /\ reply' = None
      /\ UNCHANGED <<pc, req, server, at, delay, jsonstring, returnlist>>
  BY SweepReadInside DEF SweepRead, ReadSlot, SweepDelete, Quiet
<1>2. sweeper.scan \in Nat \ {0} /\ serverlist \in Seq(Objs)
  BY DEF Inv, TypeOK, Sweepers
<1>3. PICK i \in DOMAIN serverlist : sweeper.scan <= i
  BY <1>1 DEF Inv, VictimListed, Removing
<1>4. sweeper.scan \in DOMAIN serverlist
  BY <1>2, <1>3
<1> QED BY <1>1, <1>2, <1>4 DEF DeleteSlot

\* What list.remove leaves is alive.
LEMMA SweepDeleteStep ==
  ASSUME Inv,
         \/ SweepRead /\ serverlist[sweeper.scan] = sweeper.server
         \/ SweepDelete
  PROVE  Inv'
<1>1. /\ sweeper.scan \in 1 .. Len(serverlist)
      /\ serverlist' = RemoveAt(serverlist, sweeper.scan)
      /\ sweeper' = [pc |-> "next", at |-> sweeper.at, server |-> None,
                     scan |-> 1, seen |-> None]
      /\ heap' = Reclaim(heap, References(serverlist', server', None))
      /\ UNCHANGED <<pc, req, server, at, delay, jsonstring, returnlist>>
      /\ reply' = None
  BY DeleteFacts
<1>2. serverlist' \in Seq(Objs) /\ Range(serverlist') \subseteq Range(serverlist)
  <2>1. serverlist \in Seq(Objs)
    BY DEF Inv, TypeOK
  <2>2. /\ serverlist' \in Seq(Objs) /\ Len(serverlist') = Len(serverlist) - 1
        /\ \A k \in 1 .. Len(serverlist) - 1 :
             serverlist'[k] = IF k < sweeper.scan THEN serverlist[k] ELSE serverlist[k + 1]
    BY <1>1, <2>1, RemoveAtFacts
  <2>3. \A k \in DOMAIN serverlist' : serverlist'[k] \in Range(serverlist)
    BY <2>1, <2>2 DEF Range
  <2> QED BY <2>2, <2>3 DEF Range
<1>3. Alive' /\ Unowned' /\ heap' \in [Objs -> Server \cup {None}]
  BY <1>1, <1>2, ReclaimStep, HeapFacts DEF Inv, TypeOK
<1>4. sweeper' \in Sweepers /\ sweeper'.pc = "next"
  <2>1. sweeper \in Sweepers
    BY DEF Inv, TypeOK
  <2>2. sweeper.at \in Nat \ {0} /\ 1 \in Nat \ {0}
    BY <2>1, SweeperFields
  <2> QED BY <1>1, <2>2, SweeperIn
<1>5. TypeOK'
  BY <1>1, <1>2, <1>3, <1>4 DEF Inv, TypeOK
<1>6. Consistent'
  BY <1>1 DEF Inv, Consistent
<1>7. VictimListed' /\ SweeperSurvives'
  BY <1>4 DEF VictimListed, SweeperSurvives, Removing
<1> QED BY <1>3, <1>5, <1>6, <1>7 DEF Inv

\* The steps of list.remove.
LEMMA SweepRemoveStep ==
  ASSUME Inv, SweepRemove
  PROVE  Inv'
  BY SweepScanStep, SweepDeleteStep DEF SweepRemove

\* Every step keeps the invariant: one case per action.
LEMMA NextInv == Inv /\ [Next]_vars => Inv'
<1> SUFFICES ASSUME Inv, [Next]_vars PROVE Inv'
  OBVIOUS
<1>1. ASSUME NEW w \in Workers, Call(w)
      PROVE  Inv'
  BY <1>1, CallStep
<1>2. ASSUME NEW w \in Workers, WorkerStep(w)
      PROVE  Inv'
  BY <1>2, SkipStep, ExistsStep, BuildStep, AppendServerStep, AssignStep, StampStep,
     BeatStep, UnregisterStep, TakeStep, CopyStep, AppendListingStep, PlainReturnStep DEF WorkerStep
<1>3. CASE Sweep
  BY <1>3, SweepVisitStep, SweepRemoveStep, SweepSleepStep DEF Sweep
<1>4. CASE Tick
  BY <1>4, TickStep
<1>5. CASE UNCHANGED vars
  BY <1>5 DEF vars, Inv, TypeOK, Alive, Consistent, VictimListed, Unowned, SweeperSurvives
<1> QED BY <1>1, <1>2, <1>3, <1>4, <1>5 DEF Next

\* The invariant holds in every state the server reaches.
THEOREM Invariance == Spec => []Inv
<1> QED BY InitInv, NextInv, PTL DEF Spec

\* The state is well-typed: lists hold entries, handlers have what they need.
THEOREM TypeCorrect == Spec => []TypeOK
<1>1. Inv => TypeOK
  BY DEF Inv
<1> QED BY <1>1, Invariance, PTL

\* The sweeper thread survives whatever the worker threads do: list.remove always
\* finds the entry, for any number of workers, entries and namesakes.
THEOREM SweeperAlwaysSurvives == Spec => []SweeperSurvives
<1>1. Inv => SweeperSurvives
  BY DEF Inv
<1> QED BY <1>1, Invariance, PTL

-----------------------------------------------------------------------------
(* The invariant that the refinement rests on *)

\* An entry is on the list once.
Distinct == \A i, j \in DOMAIN serverlist : serverlist[i] = serverlist[j] => i = j

\* An idle worker serves nothing.
IdleServesNothing == \A w \in Workers : pc[w] = "idle" => req[w] = None

\* The entry that a registration has in hand while it probes is not on the list,
\* nobody else has it, and it says what the request says.
Fresh ==
  \A w \in Workers : pc[w] = "probe" =>
    /\ \A i \in DOMAIN serverlist : serverlist[i] # server[w]
    /\ \A v \in Workers : v # w => server[v] # server[w]
    /\ IsEndpoint(heap[server[w]], req[w])
    /\ heap[server[w]].name = req[w].name

\* The entry that a worker is about to stamp is the caller's, listed or not.
OwnInHand ==
  \A w \in Workers : pc[w] \in {"stamp", "beat"} => IsEndpoint(heap[server[w]], req[w])

\* The entry that the sweeper removes is where the sweeper found it, and what
\* list.remove takes for its equal has its port, whatever the names have become.
VictimInPlace ==
  sweeper.pc \in Removing =>
    /\ sweeper.at - 1 \in DOMAIN serverlist
    /\ serverlist[sweeper.at - 1] = sweeper.server
    /\ sweeper.pc = "compare" => sweeper.seen.port = heap[serverlist[sweeper.scan]].port
    /\ sweeper.pc = "delete" =>
         heap[serverlist[sweeper.scan]].port = heap[sweeper.server].port

RInv == Inv /\ Distinct /\ IdleServesNothing /\ Fresh /\ OwnInHand /\ VictimInPlace

-----------------------------------------------------------------------------
(* The browser of a state *)

View == [i \in DOMAIN serverlist |-> Shown(serverlist[i])]
Mark == IF sweeper.pc \in Removing THEN sweeper.at - 1 ELSE 0

\* The slot that list.remove looks at is on the list.
LEMMA SlotFacts ==
  ASSUME Inv, sweeper.pc \in Removing
  PROVE  sweeper.scan \in DOMAIN serverlist /\ sweeper.scan \in Nat \ {0}
<1>1. sweeper.scan \in Nat \ {0} /\ serverlist \in Seq(Objs)
  BY DEF Inv, TypeOK, Sweepers
<1>2. PICK i \in DOMAIN serverlist : sweeper.scan <= i
  BY DEF Inv, VictimListed
<1> QED BY <1>1, <1>2

\* Objects that are alive before and after a step keep their endpoint.
KeepEndpoints ==
  \A o \in Objs : heap[o] # None /\ heap'[o] # None
    => heap'[o].ip = heap[o].ip /\ heap'[o].port = heap[o].port

\* ... and their name.
KeepNames == \A o \in Objs : heap[o] # None /\ heap'[o] # None => heap'[o].name = heap[o].name

\* What is reclaimed keeps endpoints and names as they were in objects.
LEMMA ReclaimKeeps ==
  ASSUME NEW objects \in [Objs -> Server \cup {None}], NEW references,
         heap' = Reclaim(objects, references),
         \A o \in Objs : heap[o] # None =>
           /\ objects[o].ip = heap[o].ip /\ objects[o].port = heap[o].port
           /\ objects[o].name = heap[o].name
  PROVE  KeepEndpoints /\ KeepNames
  BY ReclaimFacts DEF KeepEndpoints, KeepNames

\* What a step has to keep for the invariant to hold after it, other than one that
\* creates an entry.
LEMMA KeptStep ==
  ASSUME RInv, Inv', KeepEndpoints, Distinct', VictimInPlace',
         \A v \in Workers : pc'[v] = "probe" =>
           /\ pc[v] = "probe" /\ server'[v] = server[v] /\ req'[v] = req[v]
           /\ server[v] \notin Range(serverlist')
           /\ heap'[server[v]].name = heap[server[v]].name,
         \A v \in Workers : pc'[v] \in {"stamp", "beat"} =>
           heap[server'[v]] # None /\ IsEndpoint(heap[server'[v]], req'[v]),
         \A v \in Workers : server'[v] \in {server[v], None} \cup Range(serverlist),
         \A v \in Workers : pc'[v] = "idle" => req'[v] = None
  PROVE  RInv'
<1>1. IdleServesNothing'
  BY DEF IdleServesNothing
<1>2. ASSUME NEW w \in Workers, pc'[w] \in {"probe", "stamp", "beat"}
      PROVE  /\ server'[w] \in Objs /\ server'[w] # None /\ heap'[server'[w]] # None
  BY <1>2 DEF Inv, TypeOK, Consistent, Alive
<1>3. OwnInHand'
  BY <1>2 DEF OwnInHand, KeepEndpoints, IsEndpoint
<1>4. Fresh'
  <2> SUFFICES ASSUME NEW w \in Workers, pc'[w] = "probe"
               PROVE  /\ \A i \in DOMAIN serverlist' : serverlist'[i] # server'[w]
                      /\ \A v \in Workers : v # w => server'[v] # server'[w]
                      /\ IsEndpoint(heap'[server'[w]], req'[w])
                      /\ heap'[server'[w]].name = req'[w].name
    BY DEF Fresh
  <2>1. /\ pc[w] = "probe" /\ server'[w] = server[w] /\ req'[w] = req[w]
        /\ server[w] \notin Range(serverlist')
        /\ heap'[server[w]].name = heap[server[w]].name
    OBVIOUS
  <2>2. /\ server[w] \in Objs /\ server[w] # None
        /\ heap[server[w]] # None /\ heap'[server[w]] # None
    BY <1>2, <2>1 DEF RInv, Inv, TypeOK, Consistent, Alive
  <2>3. /\ \A i \in DOMAIN serverlist : serverlist[i] # server[w]
        /\ \A v \in Workers : v # w => server[v] # server[w]
        /\ IsEndpoint(heap[server[w]], req[w])
        /\ heap[server[w]].name = req[w].name
    BY <2>1 DEF RInv, Fresh
  <2>4. \A i \in DOMAIN serverlist' : serverlist'[i] # server'[w]
    BY <2>1 DEF Range
  <2>5. \A v \in Workers : v # w => server'[v] # server'[w]
    BY <2>1, <2>2, <2>3 DEF Range
  <2>6. IsEndpoint(heap'[server'[w]], req'[w]) /\ heap'[server'[w]].name = req'[w].name
    BY <2>1, <2>2, <2>3 DEF KeepEndpoints, IsEndpoint
  <2> QED BY <2>4, <2>5, <2>6
<1> QED BY <1>1, <1>3, <1>4 DEF RInv

\* In particular one that leaves the list alone, gives no worker anything new and
\* changes no entry but for its age.
LEMMA PlainStep ==
  ASSUME RInv, Inv', KeepEndpoints, KeepNames, serverlist' = serverlist, VictimInPlace',
         \A v \in Workers :
           /\ pc'[v] \in {"probe", "stamp", "beat"} =>
                pc[v] = pc'[v] /\ server'[v] = server[v] /\ req'[v] = req[v]
           /\ server'[v] \in {server[v], None} \cup Range(serverlist)
           /\ pc'[v] = "idle" => req'[v] = None
  PROVE  RInv'
<1>1. Distinct'
  BY DEF RInv, Distinct
<1>2. ASSUME NEW v \in Workers, pc'[v] = "probe"
      PROVE  /\ pc[v] = "probe" /\ server'[v] = server[v] /\ req'[v] = req[v]
             /\ server[v] \notin Range(serverlist')
             /\ heap'[server[v]].name = heap[server[v]].name
  <2>1. pc[v] = "probe" /\ server'[v] = server[v] /\ req'[v] = req[v]
    BY <1>2
  <2>2. /\ server[v] \in Objs /\ server[v] # None
        /\ heap[server[v]] # None /\ heap'[server'[v]] # None
    BY <1>2, <2>1 DEF RInv, Inv, TypeOK, Consistent, Alive
  <2>3. server[v] \notin Range(serverlist')
    BY <2>1 DEF RInv, Fresh, Range
  <2> QED BY <2>1, <2>2, <2>3 DEF KeepNames
<1>3. ASSUME NEW v \in Workers, pc'[v] \in {"stamp", "beat"}
      PROVE  heap[server'[v]] # None /\ IsEndpoint(heap[server'[v]], req'[v])
  <2>1. pc[v] \in {"stamp", "beat"} /\ server'[v] = server[v] /\ req'[v] = req[v]
    BY <1>3
  <2> QED BY <2>1 DEF RInv, Inv, Consistent, Alive, OwnInHand
<1> QED BY <1>1, <1>2, <1>3, KeptStep

\* What list.remove knows of its slots stays true while it stands still: the list
\* grows at its end only.
LEMMA VictimStays ==
  ASSUME RInv, Inv', KeepEndpoints, sweeper' = sweeper,
         \A i \in DOMAIN serverlist : i \in DOMAIN serverlist' /\ serverlist'[i] = serverlist[i]
  PROVE  VictimInPlace'
<1> SUFFICES ASSUME sweeper.pc \in Removing PROVE VictimInPlace'
  BY DEF VictimInPlace
<1>1. /\ sweeper.at - 1 \in DOMAIN serverlist
      /\ serverlist[sweeper.at - 1] = sweeper.server
      /\ sweeper.pc = "compare" => sweeper.seen.port = heap[serverlist[sweeper.scan]].port
      /\ sweeper.pc = "delete" =>
           heap[serverlist[sweeper.scan]].port = heap[sweeper.server].port
  BY DEF RInv, VictimInPlace
<1>2. sweeper.scan \in DOMAIN serverlist
  BY SlotFacts DEF RInv
<1>3. ASSUME NEW i \in DOMAIN serverlist
      PROVE  heap'[serverlist[i]].port = heap[serverlist[i]].port
  <2>1. serverlist[i] \in Objs /\ heap[serverlist[i]] # None
    BY DEF RInv, Inv, TypeOK, Alive
  <2>2. heap'[serverlist[i]] # None
    BY DEF Inv, Alive
  <2> QED BY <2>1, <2>2 DEF KeepEndpoints
<1> QED BY <1>1, <1>2, <1>3 DEF VictimInPlace

-----------------------------------------------------------------------------
(* The invariant holds *)

\* It holds when the server starts.
LEMMA InitRInv == Init => RInv
<1> SUFFICES ASSUME Init PROVE RInv
  OBVIOUS
<1>1. Inv
  BY InitInv
<1>2. Distinct /\ IdleServesNothing /\ Fresh /\ OwnInHand /\ VictimInPlace
  BY DEF Init, Distinct, IdleServesNothing, Fresh, OwnInHand, VictimInPlace, Removing
<1> QED BY <1>1, <1>2 DEF RInv

\* A request that arrives and a loop that moves on change no entry.
LEMMA ThreadStep ==
  ASSUME RInv, Inv', NEW w \in Workers,
         Call(w) \/ Skip(w) \/ Exists(w) \/ Take(w) \/ Copy(w)
  PROVE  RInv'
<1>1. heap' = heap /\ serverlist' = serverlist /\ sweeper' = sweeper
  BY DEF Call, Skip, Exists, Take, Copy
<1>2. KeepEndpoints /\ KeepNames /\ VictimInPlace'
  BY <1>1 DEF KeepEndpoints, KeepNames, RInv, VictimInPlace
<1>3. ASSUME NEW v \in Workers
      PROVE  /\ pc'[v] \in {"probe", "stamp", "beat"} =>
                  pc[v] = pc'[v] /\ server'[v] = server[v] /\ req'[v] = req[v]
             /\ server'[v] \in {server[v], None} \cup Range(serverlist)
             /\ pc'[v] = "idle" => req'[v] = None
  <2>1. CASE Call(w)
    <3>1. PICK r \in Requests : /\ req' = [req EXCEPT ![w] = r]
                                /\ pc' = [pc EXCEPT ![w] = FirstLabel[r.op]]
                                /\ server' = server
      BY <2>1 DEF Call, Goto
    <3>2. FirstLabel[r.op] \notin {"probe", "stamp", "beat", "idle"}
      BY DEF FirstLabel, Requests
    <3>3. pc \in [Workers -> Labels]
          /\ req \in [Workers -> Requests \cup {None}]
      BY DEF RInv, Inv, TypeOK
    <3> QED BY <3>1, <3>2, <3>3 DEF RInv, IdleServesNothing
  <2>2. CASE Skip(w) \/ Exists(w) \/ Copy(w)
    BY <2>2 DEF Skip, Exists, Copy, Goto, RInv, Inv, TypeOK, IdleServesNothing
  <2>3. CASE Take(w)
    <3>1. Current(w) \in Range(serverlist)
      BY <2>3, CurrentFacts DEF Take, RInv
    <3> QED BY <2>3, <3>1 DEF Take, Goto, RInv, Inv, TypeOK, IdleServesNothing
  <2> QED BY <2>1, <2>2, <2>3
<1> QED BY <1>1, <1>2, <1>3, PlainStep

\* A heartbeat takes an entry of its caller in hand.
LEMMA FindKeeps ==
  ASSUME RInv, Inv', NEW w \in Workers, Find(w)
  PROVE  RInv'
<1>1. /\ Current(w) \in Range(serverlist) /\ heap[Current(w)] # None
      /\ IsEndpoint(heap[Current(w)], req[w])
  BY CurrentFacts DEF RInv, Find, Matches
<1>2. /\ server' = [server EXCEPT ![w] = Current(w)] /\ pc' = [pc EXCEPT ![w] = "beat"]
      /\ UNCHANGED <<heap, serverlist, req, sweeper>>
      /\ server \in [Workers -> Objs \cup {None}] /\ pc \in [Workers -> Labels]
  BY DEF RInv, Inv, TypeOK, Find, Goto
<1>3. KeepEndpoints /\ Distinct' /\ VictimInPlace'
  BY <1>2 DEF KeepEndpoints, RInv, Distinct, VictimInPlace
<1>4. ASSUME NEW v \in Workers, pc'[v] = "probe"
      PROVE  /\ pc[v] = "probe" /\ server'[v] = server[v] /\ req'[v] = req[v]
             /\ server[v] \notin Range(serverlist')
             /\ heap'[server[v]].name = heap[server[v]].name
  <2>1. v # w /\ pc[v] = "probe"
    BY <1>2, <1>4
  <2>2. server[v] \notin Range(serverlist)
    BY <2>1 DEF RInv, Fresh, Range
  <2> QED BY <1>2, <2>1, <2>2
<1>5. ASSUME NEW v \in Workers, pc'[v] \in {"stamp", "beat"}
      PROVE  heap[server'[v]] # None /\ IsEndpoint(heap[server'[v]], req'[v])
  <2>1. CASE v = w
    BY <1>1, <1>2, <2>1
  <2>2. CASE v # w
    <3>1. pc[v] \in {"stamp", "beat"} /\ server'[v] = server[v] /\ req'[v] = req[v]
      BY <1>2, <1>5, <2>2
    <3> QED BY <3>1 DEF RInv, Inv, Consistent, Alive, OwnInHand
  <2> QED BY <2>1, <2>2
<1>6. \A v \in Workers : /\ server'[v] \in {server[v], None} \cup Range(serverlist)
                         /\ pc'[v] = "idle" => req'[v] = None
  BY <1>1, <1>2 DEF RInv, IdleServesNothing
<1> QED BY <1>3, <1>4, <1>5, <1>6, KeptStep

\* The handler of the worker returns, with no entry changed but for its age.
LEMMA ReturnKeeps ==
  ASSUME RInv, Inv', NEW w \in Workers, NEW status,
         NEW objects \in [Objs -> Server \cup {None}],
         \A o \in Objs : heap[o] # None =>
           /\ objects[o].ip = heap[o].ip /\ objects[o].port = heap[o].port
           /\ objects[o].name = heap[o].name,
         Return(w, status, objects, serverlist),
         UNCHANGED <<serverlist, sweeper>>
  PROVE  RInv'
<1>1. KeepEndpoints /\ KeepNames
  BY ReclaimKeeps DEF Return
<1>2. VictimInPlace'
  BY <1>1, VictimStays
<1>3. ASSUME NEW v \in Workers
      PROVE  /\ pc'[v] \in {"probe", "stamp", "beat"} =>
                  pc[v] = pc'[v] /\ server'[v] = server[v] /\ req'[v] = req[v]
             /\ server'[v] \in {server[v], None} \cup Range(serverlist)
             /\ pc'[v] = "idle" => req'[v] = None
  BY DEF Return, Goto, RInv, Inv, TypeOK, IdleServesNothing
<1> QED BY <1>1, <1>2, <1>3, PlainStep

\* Handlers that return without having changed an entry.
LEMMA AnswerKeeps ==
  ASSUME RInv, Inv', NEW w \in Workers,
         ProbeFails(w) \/ UpdateMissed(w) \/ EndOfLoop(w) \/ SendList(w)
  PROVE  RInv'
<1>1. PICK status : Return(w, status, heap, serverlist)
  BY DEF ProbeFails, UpdateMissed, EndOfLoop, SendList
<1>2. UNCHANGED <<serverlist, sweeper>>
  BY DEF ProbeFails, UpdateMissed, EndOfLoop, SendList
<1>3. heap \in [Objs -> Server \cup {None}]
  BY DEF RInv, Inv, TypeOK
<1> QED BY <1>1, <1>2, <1>3, ReturnKeeps

\* Stamping changes the age of an entry only.
LEMMA StampKeeps ==
  ASSUME RInv, Inv', NEW w \in Workers, Stamp(w)
  PROVE  RInv'
<1>1. PICK age \in 0 .. delay[w] : Return(w, "updated", Stamped(w, age), serverlist)
  BY DEF Stamp
<1>2. pc[w] = "stamp" /\ UNCHANGED <<serverlist, sweeper>>
  BY DEF Stamp
<1>3. /\ Stamped(w, age) \in [Objs -> Server \cup {None}]
      /\ \A o \in Objs : heap[o] # None =>
           /\ Stamped(w, age)[o].ip = heap[o].ip
           /\ Stamped(w, age)[o].port = heap[o].port
           /\ Stamped(w, age)[o].name = heap[o].name
  BY <1>2, StampedFacts DEF RInv
<1> QED BY <1>1, <1>2, <1>3, ReturnKeeps

\* So does a heartbeat.
LEMMA BeatKeeps ==
  ASSUME RInv, Inv', NEW w \in Workers, Beat(w)
  PROVE  RInv'
<1>1. PICK age \in 0 .. delay[w] :
        heap' = Reclaim(Stamped(w, age), References(serverlist, server', sweeper.server))
  BY DEF Beat
<1>2. /\ pc[w] = "beat" /\ UNCHANGED <<serverlist, sweeper, req>>
      /\ server' = [server EXCEPT ![w] = None] /\ pc' = [pc EXCEPT ![w] = "heartbeat"]
      /\ server \in [Workers -> Objs \cup {None}] /\ pc \in [Workers -> Labels]
  BY DEF Beat, Goto, RInv, Inv, TypeOK
<1>3. /\ Stamped(w, age) \in [Objs -> Server \cup {None}]
      /\ \A o \in Objs : heap[o] # None =>
           /\ Stamped(w, age)[o].ip = heap[o].ip
           /\ Stamped(w, age)[o].port = heap[o].port
           /\ Stamped(w, age)[o].name = heap[o].name
  BY <1>2, StampedFacts DEF RInv
<1>4. KeepEndpoints /\ KeepNames
  BY <1>1, <1>3, ReclaimKeeps
<1>5. VictimInPlace'
  BY <1>2, <1>4, VictimStays
<1>6. ASSUME NEW v \in Workers
      PROVE  /\ pc'[v] \in {"probe", "stamp", "beat"} =>
                  pc[v] = pc'[v] /\ server'[v] = server[v] /\ req'[v] = req[v]
             /\ server'[v] \in {server[v], None} \cup Range(serverlist)
             /\ pc'[v] = "idle" => req'[v] = None
  BY <1>2 DEF RInv, IdleServesNothing
<1> QED BY <1>2, <1>4, <1>5, <1>6, PlainStep

\* An entry is looked at for unregistering, or copied into a listing.
LEMMA ReadKeeps ==
  ASSUME RInv, Inv', NEW w \in Workers, Unregister(w) \/ AppendListing(w),
         serverlist' = serverlist
  PROVE  RInv'
<1>1. /\ heap \in [Objs -> Server \cup {None}]
      /\ \E references : heap' = Reclaim(heap, references)
  BY DEF RInv, Inv, TypeOK, Unregister, AppendListing
<1>2. KeepEndpoints /\ KeepNames
  BY <1>1, ReclaimKeeps
<1>3. UNCHANGED <<sweeper, req>>
  BY DEF Unregister, AppendListing
<1>4. VictimInPlace'
  BY <1>2, <1>3, VictimStays
<1>5. ASSUME NEW v \in Workers
      PROVE  /\ pc'[v] \in {"probe", "stamp", "beat"} =>
                  pc[v] = pc'[v] /\ server'[v] = server[v] /\ req'[v] = req[v]
             /\ server'[v] \in {server[v], None} \cup Range(serverlist)
             /\ pc'[v] = "idle" => req'[v] = None
  BY <1>3 DEF Unregister, AppendListing, Goto, RInv, Inv, TypeOK, IdleServesNothing
<1> QED BY <1>2, <1>4, <1>5, PlainStep

\* unregister_server removes nothing: no entry has an owner.
LEMMA UnregisterRemovesNothing ==
  ASSUME Inv, NEW w \in Workers, Unregister(w)
  PROVE  serverlist' = serverlist
<1>1. heap[Current(w)].registeredby = Unset
  BY CurrentFacts DEF Inv, Unowned, Unregister
<1>2. req[w] \in Requests /\ req[w].op = "unregister_server"
  BY DEF Inv, Consistent, Unregister
<1>3. req[w].ip \in Hosts
  BY <1>2 DEF Requests
<1> QED BY <1>1, <1>3, UnsetAssumption DEF Owned, Unregister

\* The sweeper moves on, or finds an entry and remembers where.
LEMMA SweeperKeeps ==
  ASSUME RInv, Inv', SweepVisit \/ SweepSleep \/ SweepWake
  PROVE  RInv'
<1>1. UNCHANGED <<heap, serverlist, pc, req, server>>
  BY DEF SweepVisit, SweepSleep, SweepWake
<1>2. KeepEndpoints /\ KeepNames
  BY <1>1 DEF KeepEndpoints, KeepNames
<1>3. VictimInPlace'
  <2>1. sweeper \in Sweepers
    BY DEF RInv, Inv, TypeOK
  <2>2. CASE SweepVisit
    <3>1. sweeper.at \in DOMAIN serverlist /\ sweeper.pc = "next"
      BY <2>1, <2>2 DEF RInv, Inv, TypeOK, SweepVisit, Sweepers
    <3>2. \/ sweeper' = [pc |-> "remove", at |-> sweeper.at + 1,
                         server |-> serverlist[sweeper.at], scan |-> 1, seen |-> None]
          \/ sweeper' = [sweeper EXCEPT !.at = sweeper.at + 1]
      BY <2>2 DEF SweepVisit
    <3>3. sweeper.at \in Nat
      BY <2>1 DEF Sweepers
    <3>4. CASE sweeper' = [sweeper EXCEPT !.at = sweeper.at + 1]
      <4>1. sweeper'.pc = "next"
        BY <2>1, <3>1, <3>4 DEF Sweepers
      <4> QED BY <4>1 DEF VictimInPlace, Removing
    <3>5. CASE sweeper' = [pc |-> "remove", at |-> sweeper.at + 1,
                               server |-> serverlist[sweeper.at],
                               scan |-> 1, seen |-> None]
      <4>1. sweeper'.at - 1 = sweeper.at
        BY <3>3, <3>5
      <4> QED BY <1>1, <3>1, <3>5, <4>1 DEF VictimInPlace, Removing
    <3> QED BY <3>2, <3>4, <3>5
  <2>3. CASE SweepSleep \/ SweepWake
    <3>1. sweeper'.pc \notin Removing
      BY <2>1, <2>3 DEF SweepSleep, SweepWake, Sweepers, Removing
    <3> QED BY <3>1 DEF VictimInPlace
  <2> QED BY <2>2, <2>3
<1> QED BY <1>1, <1>2, <1>3, PlainStep DEF RInv, IdleServesNothing

\* While list.remove compares, nothing but the sweeper moves; it takes an entry for
\* equal only when the ports are.
LEMMA SweepScanKeeps ==
  ASSUME RInv, Inv',
         \/ SweepRead /\ serverlist[sweeper.scan] # sweeper.server
         \/ SweepCompare
  PROVE  RInv'
<1>1. UNCHANGED <<heap, serverlist, pc, req, server>>
  BY SweepScanStep DEF RInv, SweepRead, SweepCompare
<1>2. KeepEndpoints /\ KeepNames
  BY <1>1 DEF KeepEndpoints, KeepNames
<1>3. /\ sweeper \in Sweepers /\ sweeper.pc \in Removing
      /\ sweeper.at - 1 \in DOMAIN serverlist
      /\ serverlist[sweeper.at - 1] = sweeper.server
      /\ sweeper.pc = "compare" => sweeper.seen.port = heap[serverlist[sweeper.scan]].port
  BY DEF RInv, Inv, TypeOK, VictimInPlace, SweepRead, SweepCompare, Removing
<1>4. VictimInPlace'
  <2>1. CASE SweepRead /\ serverlist[sweeper.scan] # sweeper.server
    <3>1. sweeper' = [pc |-> "compare", at |-> sweeper.at, server |-> sweeper.server,
                      scan |-> sweeper.scan, seen |-> Key(heap[serverlist[sweeper.scan]])]
      BY <2>1, SweepReadInside DEF RInv, ReadSlot
    <3> QED BY <1>1, <1>3, <3>1 DEF VictimInPlace, Sweepers, Removing, Key
  <2>2. CASE SweepCompare
    <3>1. sweeper.pc = "compare"
      BY <2>2 DEF SweepCompare
    <3>2. CASE sweeper.seen = Key(heap[sweeper.server])
      <4>1. sweeper' = [pc |-> "delete", at |-> sweeper.at, server |-> sweeper.server,
                        scan |-> sweeper.scan, seen |-> None]
        BY <2>2, <3>2 DEF SweepCompare
      <4>2. sweeper.seen.port = heap[sweeper.server].port
        BY <3>2 DEF Key
      <4> QED BY <1>1, <1>3, <3>1, <4>1, <4>2 DEF VictimInPlace, Sweepers, Removing
    <3>3. CASE sweeper.seen # Key(heap[sweeper.server])
      <4>1. sweeper' = [pc |-> "remove", at |-> sweeper.at, server |-> sweeper.server,
                        scan |-> sweeper.scan + 1, seen |-> None]
        BY <2>2, <3>3 DEF SweepCompare
      <4> QED BY <1>1, <1>3, <4>1 DEF VictimInPlace, Sweepers, Removing
    <3> QED BY <3>2, <3>3
  <2> QED BY <2>1, <2>2
<1> QED BY <1>1, <1>2, <1>4, PlainStep DEF RInv, IdleServesNothing

\* So does the clock.
LEMMA TickKeeps ==
  ASSUME RInv, Inv', Tick
  PROVE  RInv'
<1>1. KeepEndpoints /\ KeepNames
  <2>1. ASSUME NEW o \in Objs, heap[o] # None
        PROVE  heap[o] \in Server /\ heap'[o] = [heap[o] EXCEPT !.age = Older(@)]
    BY <2>1 DEF RInv, Inv, TypeOK, Tick
  <2> QED BY <2>1 DEF KeepEndpoints, KeepNames, Server
<1>2. UNCHANGED <<serverlist, pc, req, server, sweeper>>
  BY DEF Tick
<1>3. VictimInPlace'
  BY <1>1, <1>2, VictimStays
<1> QED BY <1>1, <1>2, <1>3, PlainStep DEF RInv, IdleServesNothing

\* With the eviction the rest of the list stays in order and without repetition.
LEMMA SweepDeleteKeeps ==
  ASSUME RInv, Inv',
         \/ SweepRead /\ serverlist[sweeper.scan] = sweeper.server
         \/ SweepDelete
  PROVE  RInv'
<1>2. serverlist \in Seq(Objs)
  BY DEF RInv, Inv, TypeOK
<1>0. /\ sweeper.scan \in 1 .. Len(serverlist)
      /\ serverlist' = RemoveAt(serverlist, sweeper.scan)
      /\ sweeper' = [pc |-> "next", at |-> sweeper.at, server |-> None,
                     scan |-> 1, seen |-> None]
      /\ heap' = Reclaim(heap, References(serverlist', server', None))
      /\ UNCHANGED <<pc, req, server>>
  BY DeleteFacts DEF RInv
<1>1. PICK i \in 1 .. Len(serverlist) : serverlist' = RemoveAt(serverlist, i)
  BY <1>0
<1>3. /\ serverlist' \in Seq(Objs) /\ Len(serverlist') = Len(serverlist) - 1
      /\ \A k \in 1 .. Len(serverlist) - 1 :
           serverlist'[k] = IF k < i THEN serverlist[k] ELSE serverlist[k + 1]
  BY <1>1, <1>2, RemoveAtFacts
<1>4. Len(serverlist) \in Nat
  BY <1>2
<1>5. Distinct'
  <2> SUFFICES ASSUME NEW j \in 1 .. Len(serverlist) - 1, NEW k \in 1 .. Len(serverlist) - 1,
                      serverlist'[j] = serverlist'[k]
               PROVE  j = k
    BY <1>3, <1>4 DEF Distinct
  <2>1. \A m, n \in 1 .. Len(serverlist) : serverlist[m] = serverlist[n] => m = n
    BY <1>2 DEF RInv, Distinct
  <2> QED BY <1>3, <1>4, <2>1
<1>6. ASSUME NEW k \in DOMAIN serverlist'
      PROVE  serverlist'[k] \in Range(serverlist)
  <2>1. /\ k \in 1 .. Len(serverlist) - 1 /\ k \in DOMAIN serverlist
        /\ k + 1 \in DOMAIN serverlist
    BY <1>2, <1>3, <1>4
  <2>2. serverlist'[k] = serverlist[k] \/ serverlist'[k] = serverlist[k + 1]
    BY <1>3, <2>1
  <2> QED BY <2>1, <2>2 DEF Range
<1>7. VictimInPlace'
  <2>1. sweeper'.pc = "next"
    BY <1>0 DEF RInv, Inv, TypeOK, Sweepers
  <2> QED BY <2>1 DEF VictimInPlace, Removing
<1>8. KeepEndpoints /\ KeepNames
  BY <1>0, ReclaimKeeps DEF RInv, Inv, TypeOK
<1>10. ASSUME NEW v \in Workers, pc'[v] = "probe"
       PROVE  /\ pc[v] = "probe" /\ server'[v] = server[v] /\ req'[v] = req[v]
              /\ server[v] \notin Range(serverlist')
              /\ heap'[server[v]].name = heap[server[v]].name
  <2>1. server[v] \notin Range(serverlist')
    BY <1>0, <1>6, <1>10 DEF RInv, Fresh, Range
  <2>2. /\ server[v] \in Objs /\ heap[server[v]] # None /\ heap'[server[v]] # None
    BY <1>0, <1>10 DEF RInv, Inv, TypeOK, Consistent, Alive
  <2> QED BY <1>0, <1>8, <1>10, <2>1, <2>2 DEF KeepNames
<1>11. ASSUME NEW v \in Workers, pc'[v] \in {"stamp", "beat"}
       PROVE  heap[server'[v]] # None /\ IsEndpoint(heap[server'[v]], req'[v])
  BY <1>0, <1>11 DEF RInv, Inv, Consistent, Alive, OwnInHand
<1> QED BY <1>0, <1>5, <1>7, <1>8, <1>10, <1>11, KeptStep DEF RInv, IdleServesNothing

\* The entry that a registration builds is new: nothing else refers to it.
LEMMA BuildKeeps ==
  ASSUME RInv, Inv', NEW w \in Workers, Build(w)
  PROVE  RInv'
<1>1. PICK o \in Objs : /\ heap[o] = None
                        /\ heap' = [heap EXCEPT ![o] = NewServer(req[w])]
                        /\ server' = [server EXCEPT ![w] = o]
  BY DEF Build, Unused
<1>2. /\ UNCHANGED <<serverlist, req, sweeper>>
      /\ pc' = [pc EXCEPT ![w] = "probe"]
      /\ heap \in [Objs -> Server \cup {None}] /\ server \in [Workers -> Objs \cup {None}]
      /\ pc \in [Workers -> Labels]
  BY DEF RInv, Inv, TypeOK, Build, Goto
<1>3. /\ server'[w] = o /\ heap'[o] = NewServer(req[w]) /\ pc'[w] = "probe"
      /\ \A v \in Workers \ {w} : server'[v] = server[v] /\ pc'[v] = pc[v]
      /\ \A q \in Objs \ {o} : heap'[q] = heap[q]
  BY <1>1, <1>2
<1>4. /\ \A i \in DOMAIN serverlist : serverlist[i] # o
      /\ \A v \in Workers : server[v] # o
  BY <1>1, NoneAssumption DEF RInv, Inv, Alive
<1>5. Distinct' /\ VictimInPlace'
  <2>1. KeepEndpoints
    BY <1>1, <1>3 DEF KeepEndpoints
  <2> QED BY <1>2, <2>1, VictimStays DEF RInv, Distinct
<1>6. IdleServesNothing'
  BY <1>2, <1>3 DEF RInv, IdleServesNothing
<1>7. ASSUME NEW v \in Workers \ {w}, pc[v] \in {"probe", "stamp", "beat"}
      PROVE  server[v] \in Objs \ {o}
  BY <1>4, <1>7 DEF RInv, Inv, TypeOK, Consistent
<1>8. OwnInHand'
  BY <1>2, <1>3, <1>7 DEF RInv, OwnInHand
<1>9. Fresh'
  <2> SUFFICES ASSUME NEW v \in Workers, pc'[v] = "probe"
               PROVE  /\ \A i \in DOMAIN serverlist' : serverlist'[i] # server'[v]
                      /\ \A u \in Workers : u # v => server'[u] # server'[v]
                      /\ IsEndpoint(heap'[server'[v]], req'[v])
                      /\ heap'[server'[v]].name = req'[v].name
    BY DEF Fresh
  <2>1. CASE v = w
    BY <1>2, <1>3, <1>4, <2>1 DEF NewServer, IsEndpoint
  <2>2. CASE v # w
    <3>1. pc[v] = "probe" /\ server'[v] = server[v] /\ server[v] \in Objs \ {o}
      BY <1>3, <1>7, <2>2
    <3>2. /\ \A i \in DOMAIN serverlist : serverlist[i] # server[v]
          /\ \A u \in Workers : u # v => server[u] # server[v]
          /\ IsEndpoint(heap[server[v]], req[v])
          /\ heap[server[v]].name = req[v].name
      BY <3>1 DEF RInv, Fresh
    <3>3. \A u \in Workers : u # v => server'[u] # server'[v]
      BY <1>3, <3>1, <3>2
    <3> QED BY <1>2, <1>3, <3>1, <3>2, <3>3
  <2> QED BY <2>1, <2>2
<1> QED BY <1>5, <1>6, <1>8, <1>9 DEF RInv

\* When the new entry is appended, it was on the list nowhere else.
LEMMA AppendServerKeeps ==
  ASSUME RInv, Inv', NEW w \in Workers, AppendServer(w)
  PROVE  RInv'
<1>1. /\ server[w] \in Objs /\ serverlist \in Seq(Objs) /\ Len(serverlist) \in Nat
      /\ heap \in [Objs -> Server \cup {None}]
  BY DEF RInv, Inv, TypeOK, Consistent, AppendServer
<1>2. /\ serverlist' = Append(serverlist, server[w])
      /\ Len(serverlist') = Len(serverlist) + 1 /\ serverlist' \in Seq(Objs)
      /\ serverlist'[Len(serverlist) + 1] = server[w]
      /\ \A k \in 1 .. Len(serverlist) : serverlist'[k] = serverlist[k]
  BY <1>1, AppendFacts DEF AppendServer
<1>3. /\ \A i \in 1 .. Len(serverlist) : serverlist[i] # server[w]
      /\ \A v \in Workers : v # w => server[v] # server[w]
  BY <1>1 DEF RInv, Fresh, AppendServer
<1>4. /\ Return(w, "added", heap, serverlist') /\ sweeper' = sweeper /\ pc[w] = "probe"
  BY DEF AppendServer
<1>5. KeepEndpoints /\ KeepNames
  BY <1>1, <1>4, ReclaimKeeps DEF Return
<1>6. Distinct'
  <2> SUFFICES ASSUME NEW j \in 1 .. Len(serverlist) + 1, NEW k \in 1 .. Len(serverlist) + 1,
                      serverlist'[j] = serverlist'[k]
               PROVE  j = k
    BY <1>1, <1>2 DEF Distinct
  <2>1. \A m, n \in 1 .. Len(serverlist) : serverlist[m] = serverlist[n] => m = n
    BY <1>1 DEF RInv, Distinct
  <2> QED BY <1>1, <1>2, <1>3, <2>1
<1>7. VictimInPlace'
  BY <1>1, <1>2, <1>4, <1>5, VictimStays
<1>8. /\ pc' = [pc EXCEPT ![w] = "idle"] /\ req' = [req EXCEPT ![w] = None]
      /\ server' = [server EXCEPT ![w] = None]
      /\ server \in [Workers -> Objs \cup {None}] /\ req \in [Workers -> Requests \cup {None}]
      /\ pc \in [Workers -> Labels]
  BY <1>4 DEF Return, Goto, RInv, Inv, TypeOK
<1>9. ASSUME NEW v \in Workers, pc'[v] = "probe"
      PROVE  /\ pc[v] = "probe" /\ server'[v] = server[v] /\ req'[v] = req[v]
             /\ server[v] \notin Range(serverlist')
             /\ heap'[server[v]].name = heap[server[v]].name
  <2>1. v # w /\ pc[v] = "probe" /\ server'[v] = server[v] /\ req'[v] = req[v]
    BY <1>8, <1>9
  <2>2. \A i \in 1 .. Len(serverlist) : serverlist[i] # server[v]
    BY <1>1, <2>1 DEF RInv, Fresh
  <2>3. \A i \in 1 .. Len(serverlist) + 1 : serverlist'[i] # server[v]
    BY <1>1, <1>2, <1>3, <2>1, <2>2
  <2>4. server[v] \notin Range(serverlist')
    BY <1>1, <1>2, <2>3 DEF Range
  <2>5. /\ server[v] \in Objs /\ server[v] # None /\ heap[server[v]] # None
        /\ heap'[server[v]] # None
    BY <1>9, <2>1 DEF RInv, Inv, TypeOK, Consistent, Alive
  <2> QED BY <1>5, <2>1, <2>4, <2>5 DEF KeepNames
<1>10. ASSUME NEW v \in Workers, pc'[v] \in {"stamp", "beat"}
       PROVE  heap[server'[v]] # None /\ IsEndpoint(heap[server'[v]], req'[v])
  <2>1. v # w /\ pc[v] \in {"stamp", "beat"} /\ server'[v] = server[v] /\ req'[v] = req[v]
    BY <1>8, <1>10
  <2> QED BY <2>1 DEF RInv, Inv, Consistent, Alive, OwnInHand
<1>11. \A v \in Workers : /\ server'[v] \in {server[v], None} \cup Range(serverlist)
                          /\ pc'[v] = "idle" => req'[v] = None
  BY <1>8 DEF RInv, IdleServesNothing
<1> QED BY <1>5, <1>6, <1>7, <1>9, <1>10, <1>11, KeptStep

\* An update renames an entry of its caller that is on the list.
LEMMA AssignKeeps ==
  ASSUME RInv, Inv', NEW w \in Workers, Assign(w)
  PROVE  RInv'
<1>1. /\ Current(w) \in Objs /\ Current(w) \in Range(serverlist)
      /\ heap[Current(w)] \in Server /\ heap[Current(w)] # None
      /\ IsEndpoint(heap[Current(w)], req[w])
  BY CurrentFacts DEF RInv, Inv, TypeOK, Assign, Matches
<1>2. /\ heap' = [heap EXCEPT ![Current(w)].name = req[w].name]
      /\ server' = [server EXCEPT ![w] = Current(w)] /\ pc' = [pc EXCEPT ![w] = "stamp"]
      /\ UNCHANGED <<serverlist, req, sweeper>>
      /\ heap \in [Objs -> Server \cup {None}] /\ server \in [Workers -> Objs \cup {None}]
      /\ pc \in [Workers -> Labels]
  BY DEF RInv, Inv, TypeOK, Assign, Goto
<1>3. KeepEndpoints
  BY <1>1, <1>2 DEF KeepEndpoints, Server
<1>4. Distinct' /\ VictimInPlace'
  BY <1>2, <1>3, VictimStays DEF RInv, Distinct
<1>5. ASSUME NEW v \in Workers, pc'[v] = "probe"
      PROVE  /\ pc[v] = "probe" /\ server'[v] = server[v] /\ req'[v] = req[v]
             /\ server[v] \notin Range(serverlist')
             /\ heap'[server[v]].name = heap[server[v]].name
  <2>1. v # w /\ pc[v] = "probe" /\ server'[v] = server[v] /\ req'[v] = req[v]
    BY <1>2, <1>5
  <2>2. server[v] \notin Range(serverlist) /\ server[v] \in Objs
    BY <2>1 DEF RInv, Fresh, Range, Inv, TypeOK, Consistent
  <2> QED BY <1>1, <1>2, <2>1, <2>2
<1>6. ASSUME NEW v \in Workers, pc'[v] \in {"stamp", "beat"}
      PROVE  heap[server'[v]] # None /\ IsEndpoint(heap[server'[v]], req'[v])
  <2>1. CASE v = w
    BY <1>1, <1>2, <2>1
  <2>2. CASE v # w
    <3>1. pc[v] \in {"stamp", "beat"} /\ server'[v] = server[v] /\ req'[v] = req[v]
      BY <1>2, <1>6, <2>2
    <3> QED BY <3>1 DEF RInv, Inv, Consistent, Alive, OwnInHand
  <2> QED BY <2>1, <2>2
<1>7. \A v \in Workers : /\ server'[v] \in {server[v], None} \cup Range(serverlist)
                         /\ pc'[v] = "idle" => req'[v] = None
  BY <1>1, <1>2 DEF RInv, IdleServesNothing
<1> QED BY <1>3, <1>4, <1>5, <1>6, <1>7, KeptStep

\* Every step keeps the invariant.
LEMMA NextRInv == RInv /\ [Next]_vars => RInv'
<1> SUFFICES ASSUME RInv, [Next]_vars PROVE RInv'
  OBVIOUS
<1>1. Inv'
  BY NextInv DEF RInv
<1>2. ASSUME NEW w \in Workers, Call(w)
      PROVE  RInv'
  BY <1>1, <1>2, ThreadStep
<1>3. ASSUME NEW w \in Workers, WorkerStep(w)
      PROVE  RInv'
  <2>1. CASE Unregister(w) \/ AppendListing(w)
    <3>1. serverlist' = serverlist
      BY <2>1, UnregisterRemovesNothing DEF RInv, AppendListing
    <3> QED BY <1>1, <2>1, <3>1, ReadKeeps
  <2> QED BY <1>1, <1>3, <2>1, ThreadStep, FindKeeps, AnswerKeeps, StampKeeps, BeatKeeps, BuildKeeps,
             AppendServerKeeps, AssignKeeps DEF WorkerStep
<1>4. CASE Sweep
  BY <1>1, <1>4, SweeperKeeps, SweepScanKeeps, SweepDeleteKeeps
     DEF Sweep, SweepRemove, RInv
<1>5. CASE Tick
  BY <1>1, <1>5, TickKeeps
<1>6. CASE UNCHANGED vars
  BY <1>1, <1>6 DEF vars, RInv, Distinct, IdleServesNothing, Fresh, OwnInHand, VictimInPlace
<1> QED BY <1>2, <1>3, <1>4, <1>5, <1>6 DEF Next

-----------------------------------------------------------------------------
(* Every step of a thread is a step of the browser or no step at all *)

\* What the browser of a state is made of.
LEMMA ViewFacts ==
  ASSUME Inv
  PROVE  /\ serverlist \in Seq(Objs) /\ Len(serverlist) \in Nat
         /\ View \in Seq(Browser!Entry) /\ Len(View) = Len(serverlist)
         /\ DOMAIN View = 1 .. Len(serverlist)
         /\ \A i \in 1 .. Len(serverlist) :
              /\ serverlist[i] \in Objs /\ heap[serverlist[i]] \in Server
              /\ View[i] = Shown(serverlist[i])
<1>1. serverlist \in Seq(Objs) /\ Len(serverlist) \in Nat
  BY DEF Inv, TypeOK
<1>2. \A i \in 1 .. Len(serverlist) :
        serverlist[i] \in Objs /\ heap[serverlist[i]] \in Server
  BY <1>1 DEF Inv, TypeOK, Alive
<1>3. \A i \in 1 .. Len(serverlist) : Shown(serverlist[i]) \in Browser!Entry
  BY <1>2 DEF Shown, Server, Browser!Entry, Ages, Browser!Ages
<1> QED BY <1>1, <1>2, <1>3 DEF View

\* The browser looks the same when the list and the entries on it do.
LEMMA SameView ==
  ASSUME Inv, serverlist' = serverlist,
         \A i \in DOMAIN serverlist : heap'[serverlist[i]] = heap[serverlist[i]]
  PROVE  View' = View
  BY DEF View, Shown

\* Reclaiming takes nothing away that the browser shows.
LEMMA ReclaimedView ==
  ASSUME Inv, Inv', serverlist' = serverlist, NEW references,
         heap' = Reclaim(heap, references)
  PROVE  View' = View
<1>1. heap \in [Objs -> Server \cup {None}]
  BY DEF Inv, TypeOK
<1>2. \A i \in DOMAIN serverlist : serverlist[i] \in Objs /\ heap'[serverlist[i]] # None
  BY DEF Inv, TypeOK, Alive
<1>3. \A i \in DOMAIN serverlist : heap'[serverlist[i]] = heap[serverlist[i]]
  BY <1>1, <1>2, ReclaimFacts
<1> QED BY <1>3, SameView

Stutter == UNCHANGED Browser!bvars

\* Nothing of what the browser is made of has changed.
LEMMA StutterStep ==
  ASSUME View' = View, Mark' = Mark, req' = req
  PROVE  Stutter
  BY DEF Stutter, Browser!bvars, View, Mark

\* The mark is the sweeper's.
LEMMA SameMark == ASSUME sweeper' = sweeper PROVE Mark' = Mark
  BY DEF Mark

\* A request that arrives is received by the browser.
LEMMA CallImplements ==
  ASSUME RInv, NEW w \in Workers, Call(w)
  PROVE  \E r \in Browser!Requests : r.op \in Handlers /\ Browser!Receive(w, r)
<1>1. PICK r \in Requests : /\ r.op \in Handlers
                            /\ pc[w] = "idle"
                            /\ req' = [req EXCEPT ![w] = r]
                            /\ UNCHANGED <<heap, serverlist, sweeper>>
  BY DEF Call
<1>2. View' = View /\ Mark' = Mark
  BY <1>1, SameView, SameMark DEF RInv
<1>3. req[w] = None
  BY <1>1 DEF RInv, IdleServesNothing
<1>4. Browser!Receive(w, r)
  BY <1>1, <1>2, <1>3 DEF Browser!Receive, View, Mark
<1>5. r \in Browser!Requests
  BY DEF Requests, Browser!Requests
<1> QED BY <1>1, <1>4, <1>5

\* Loops that move on, look-ups and copies do nothing that shows.
LEMMA ReadImplements ==
  ASSUME RInv, Inv', NEW w \in Workers,
         \/ Skip(w) \/ Exists(w) \/ Find(w) \/ Take(w) \/ Copy(w)
         \/ Unregister(w) \/ AppendListing(w)
  PROVE  Stutter
<1>1. serverlist' = serverlist /\ sweeper' = sweeper /\ req' = req
  BY UnregisterRemovesNothing
     DEF RInv, Skip, Exists, Find, Take, Copy, Unregister, AppendListing
<1>2. View' = View
  <2>1. CASE Skip(w) \/ Exists(w) \/ Find(w) \/ Take(w) \/ Copy(w)
    <3>1. heap' = heap
      BY <2>1 DEF Skip, Exists, Find, Take, Copy
    <3> QED BY <1>1, <3>1, SameView DEF RInv
  <2>2. CASE Unregister(w) \/ AppendListing(w)
    <3>1. \E references : heap' = Reclaim(heap, references)
      BY <2>2 DEF Unregister, AppendListing
    <3> QED BY <1>1, <3>1, ReclaimedView DEF RInv
  <2> QED BY <2>1, <2>2
<1> QED BY <1>1, <1>2, SameMark, StutterStep

\* So does the registration that takes an unused object for its entry.
LEMMA BuildImplements ==
  ASSUME RInv, NEW w \in Workers, Build(w)
  PROVE  Stutter
<1>1. PICK o \in Objs : heap[o] = None /\ heap' = [heap EXCEPT ![o] = NewServer(req[w])]
  BY DEF Build, Unused
<1>2. UNCHANGED <<serverlist, sweeper, req>>
  BY DEF Build
<1>3. \A i \in DOMAIN serverlist : heap'[serverlist[i]] = heap[serverlist[i]]
  BY <1>1 DEF RInv, Inv, TypeOK, Alive
<1> QED BY <1>2, <1>3, SameView, SameMark, StutterStep DEF RInv

\* A worker that is not idle serves a request.
LEMMA Serves ==
  ASSUME RInv, NEW w \in Workers, pc[w] # "idle"
  PROVE  req[w] # None /\ req[w] \in Requests
  BY RequestAssumption DEF RInv, Inv, Consistent

\* A handler that returns without having changed an entry only answers.
LEMMA AnswerImplements ==
  ASSUME RInv, Inv', NEW w \in Workers,
         ProbeFails(w) \/ UpdateMissed(w) \/ EndOfLoop(w) \/ SendList(w)
  PROVE  Browser!Answer(w)
<1>1. /\ pc[w] # "idle"
      /\ UNCHANGED <<serverlist, sweeper>>
      /\ \E status : Return(w, status, heap, serverlist)
  BY DEF ProbeFails, UpdateMissed, EndOfLoop, SendList
<1>2. /\ req' = [req EXCEPT ![w] = None]
      /\ \E references : heap' = Reclaim(heap, references)
  BY <1>1 DEF Return
<1>3. View' = View /\ Mark' = Mark
  BY <1>1, <1>2, ReclaimedView, SameMark DEF RInv
<1>4. req[w] # None
  BY <1>1, Serves
<1> QED BY <1>2, <1>3, <1>4 DEF Browser!Answer, Browser!Answered, View, Mark

\* ViewFacts after a step.
LEMMA NextViewFacts ==
  ASSUME Inv'
  PROVE  /\ serverlist' \in Seq(Objs) /\ Len(serverlist') \in Nat
         /\ View' \in Seq(Browser!Entry) /\ Len(View') = Len(serverlist')
         /\ \A i \in 1 .. Len(serverlist') :
              /\ serverlist'[i] \in Objs /\ heap'[serverlist'[i]] \in Server
              /\ View'[i] = Shown(serverlist[i])'
<1>1. serverlist' \in Seq(Objs) /\ Len(serverlist') \in Nat
  BY DEF Inv, TypeOK
<1>2. \A i \in 1 .. Len(serverlist') :
        serverlist'[i] \in Objs /\ heap'[serverlist'[i]] \in Server
  BY <1>1 DEF Inv, TypeOK, Alive
<1>3. \A i \in 1 .. Len(serverlist') : Shown(serverlist[i])' \in Browser!Entry
  BY <1>2 DEF Shown, Server, Browser!Entry, Ages, Browser!Ages
<1> QED BY <1>1, <1>2, <1>3 DEF View

\* The registration that appends its entry adds just that to the browser.
LEMMA AppendServerImplements ==
  ASSUME RInv, Inv', NEW w \in Workers, AppendServer(w)
  PROVE  Browser!Enlist(w)
<1> DEFINE s == heap[server[w]]
           e == [ip |-> req[w].ip, port |-> req[w].port, name |-> req[w].name,
                 age |-> s.age]
<1>1. /\ pc[w] = "probe" /\ sweeper' = sweeper
      /\ serverlist' = Append(serverlist, server[w])
      /\ req' = [req EXCEPT ![w] = None]
      /\ \E references : heap' = Reclaim(heap, references)
  BY DEF AppendServer, Return
<1>2. /\ req[w] # None /\ req[w] \in Requests /\ req[w].op = "register_server"
      /\ req[w].ip \in Hosts /\ req[w].port \in Ports /\ req[w].name \in Names
  BY <1>1, Serves, RequestFields DEF RInv, Inv, Consistent
<1>3. /\ server[w] \in Objs /\ s \in Server
      /\ s.ip = req[w].ip /\ s.port = req[w].port /\ s.name = req[w].name
  BY <1>1 DEF RInv, Inv, TypeOK, Consistent, Alive, Fresh, IsEndpoint
<1>4. s.age \in Browser!Ages /\ e \in Browser!Entry
  BY <1>2, <1>3 DEF Server, Ages, Browser!Ages, Browser!Entry
<1>5. /\ Len(serverlist) \in Nat /\ Len(serverlist') = Len(serverlist) + 1
      /\ serverlist'[Len(serverlist) + 1] = server[w]
      /\ \A k \in 1 .. Len(serverlist) : serverlist'[k] = serverlist[k]
  BY <1>1, <1>3, ViewFacts, AppendFacts DEF RInv
<1>6. \A i \in 1 .. Len(serverlist') : heap'[serverlist'[i]] = heap[serverlist'[i]]
  <2>1. heap \in [Objs -> Server \cup {None}]
    BY DEF RInv, Inv, TypeOK
  <2>2. \A i \in 1 .. Len(serverlist') :
          serverlist'[i] \in Objs /\ heap'[serverlist'[i]] # None
    BY NextViewFacts, NoneAssumption
  <2> QED BY <1>1, <2>1, <2>2, ReclaimFacts
<1>7. View' = Append(View, e)
  <2>1. /\ View' \in Seq(Browser!Entry) /\ Len(View') = Len(serverlist) + 1
        /\ View \in Seq(Browser!Entry) /\ Len(View) = Len(serverlist)
    BY <1>5, NextViewFacts, ViewFacts DEF RInv
  <2>2. /\ Append(View, e) \in Seq(Browser!Entry)
        /\ Len(Append(View, e)) = Len(serverlist) + 1
        /\ Append(View, e)[Len(serverlist) + 1] = e
        /\ \A k \in 1 .. Len(serverlist) : Append(View, e)[k] = View[k]
    BY <1>4, <2>1, AppendFacts
  <2>3. \A k \in 1 .. Len(serverlist) : View'[k] = View[k]
    BY <1>5, <1>6, NextViewFacts, ViewFacts DEF RInv, Shown
  <2>4. View'[Len(serverlist) + 1] = e
    BY <1>3, <1>5, <1>6, NextViewFacts DEF Shown
  <2>5. \A k \in 1 .. Len(serverlist) + 1 : View'[k] = Append(View, e)[k]
    BY <1>5, <2>2, <2>3, <2>4
  <2> HIDE DEF e
  <2> QED BY <2>1, <2>2, <2>5, SeqEqual
<1>8. Mark' = Mark
  BY <1>1, SameMark
<1> QED BY <1>1, <1>2, <1>4, <1>7, <1>8
    DEF Browser!Enlist, Browser!Serving, Browser!Answered, View, Mark

\* A write to one entry changes the browser at the one place where it is listed.
LEMMA WriteView ==
  ASSUME RInv, Inv', serverlist' = serverlist, NEW i \in DOMAIN serverlist,
         \A j \in DOMAIN serverlist : serverlist[j] # serverlist[i] =>
           heap'[serverlist[j]] = heap[serverlist[j]]
  PROVE  View' = [View EXCEPT ![i] = Shown(serverlist[i])']
<1> DEFINE e == Shown(serverlist[i])'
<1>1. i \in 1 .. Len(serverlist) /\ Len(serverlist) \in Nat
  BY ViewFacts DEF RInv
<1>2. /\ View' \in Seq(Browser!Entry) /\ Len(View') = Len(serverlist)
      /\ \A j \in 1 .. Len(serverlist) : View'[j] = Shown(serverlist[j])'
      /\ e \in Browser!Entry
  <2>1. /\ View' \in Seq(Browser!Entry) /\ Len(View') = Len(serverlist)
        /\ \A j \in 1 .. Len(serverlist) : View'[j] = Shown(serverlist[j])'
    BY NextViewFacts DEF Shown
  <2>2. View'[i] = e
    BY <1>1, <2>1
  <2> HIDE DEF e
  <2>3. e \in Browser!Entry
    BY <1>1, <2>1, <2>2, ElementOfSeq
  <2> QED BY <2>1, <2>3
<1>3. View \in Seq(Browser!Entry) /\ Len(View) = Len(serverlist)
  BY ViewFacts DEF RInv
<1>4. \A j \in 1 .. Len(serverlist) : j # i => View'[j] = View[j]
  <2> SUFFICES ASSUME NEW j \in 1 .. Len(serverlist), j # i
               PROVE  View'[j] = View[j]
    OBVIOUS
  <2>1. serverlist[j] # serverlist[i] /\ j \in DOMAIN serverlist
    BY ViewFacts DEF RInv, Distinct
  <2>2. heap'[serverlist[j]] = heap[serverlist[j]]
    BY <2>1
  <2>3. View'[j] = Shown(serverlist[j])' /\ View[j] = Shown(serverlist[j])
    BY <1>2, ViewFacts DEF RInv
  <2> QED BY <2>2, <2>3 DEF Shown
<1>5. View'[i] = e
  BY <1>1, <1>2
<1> HIDE DEF e
<1>6. /\ [View EXCEPT ![i] = e] \in Seq(Browser!Entry)
      /\ Len([View EXCEPT ![i] = e]) = Len(serverlist)
      /\ \A j \in 1 .. Len(serverlist) :
           [View EXCEPT ![i] = e][j] = IF j = i THEN e ELSE View[j]
  BY <1>1, <1>2, <1>3, ExceptSeq
<1>7. View' = [View EXCEPT ![i] = e]
  BY <1>1, <1>2, <1>4, <1>5, <1>6, SeqEqual
<1> QED BY <1>7 DEF e

\* The update of an entry's descriptive fields renames it in the browser.
LEMMA AssignImplements ==
  ASSUME RInv, Inv', NEW w \in Workers, Assign(w)
  PROVE  Browser!Rename(w)
<1>0. PICK i : i = at[w]
  OBVIOUS
<1>1. /\ pc[w] = "update" /\ UNCHANGED <<serverlist, req, sweeper>>
      /\ heap' = [heap EXCEPT ![serverlist[i]].name = req[w].name]
      /\ i \in DOMAIN serverlist /\ IsEndpoint(heap[serverlist[i]], req[w])
  BY <1>0 DEF Assign, Matches, HasNext, Current, RInv, Inv, TypeOK
<1>2. /\ req[w] # None /\ req[w].op \in {"register_server", "update_server"}
  BY <1>1, Serves DEF RInv, Inv, Consistent
<1>3. serverlist[i] \in Objs /\ heap[serverlist[i]] \in Server /\ i \in DOMAIN View
      /\ View[i] = Shown(serverlist[i])
  BY <1>1, ViewFacts DEF RInv
<1>4. heap \in [Objs -> Server \cup {None}]
  BY DEF RInv, Inv, TypeOK
<1>5. Shown(serverlist[i])' = [Shown(serverlist[i]) EXCEPT !.name = req[w].name]
  BY <1>1, <1>3, <1>4 DEF Shown, Server
<1>6. \A j \in DOMAIN serverlist : serverlist[j] # serverlist[i] =>
        heap'[serverlist[j]] = heap[serverlist[j]]
  BY <1>1, <1>3, <1>4
<1>7. View' = [View EXCEPT ![i].name = req[w].name]
  BY <1>1, <1>3, <1>5, <1>6, WriteView
<1>8. View[i].ip = req[w].ip /\ View[i].port = req[w].port
  BY <1>1, <1>3 DEF Shown, IsEndpoint
<1>9. Mark' = Mark
  BY <1>1, SameMark
<1> QED BY <1>1, <1>2, <1>3, <1>7, <1>8, <1>9
    DEF Browser!Rename, Browser!Serving, Browser!Own, View, Mark

\* A stamp renews the entry that it is written to, if that is still listed.
LEMMA StampedView ==
  ASSUME RInv, Inv', NEW w \in Workers, pc[w] \in {"stamp", "beat"},
         NEW age \in 0 .. delay[w], NEW references,
         heap' = Reclaim(Stamped(w, age), references), UNCHANGED serverlist
  PROVE  \/ View' = View
         \/ \E i \in DOMAIN View :
              /\ View[i].ip = req[w].ip /\ View[i].port = req[w].port
              /\ age \in Browser!Ages
              /\ View' = [View EXCEPT ![i].age = age]
<1>1. /\ server[w] \in Objs /\ heap[server[w]] \in Server /\ age \in Ages
      /\ Stamped(w, age) \in [Objs -> Server \cup {None}]
      /\ Stamped(w, age)[server[w]] = [heap[server[w]] EXCEPT !.age = age]
      /\ \A o \in Objs \ {server[w]} : Stamped(w, age)[o] = heap[o]
  BY StampedFacts DEF RInv
<1>2. IsEndpoint(heap[server[w]], req[w])
  BY DEF RInv, OwnInHand
<1>5. \A j \in DOMAIN serverlist : serverlist[j] \in Objs /\ heap'[serverlist[j]] # None
  BY DEF Inv, TypeOK, Alive
<1>6. \A j \in DOMAIN serverlist : heap'[serverlist[j]] = Stamped(w, age)[serverlist[j]]
  BY <1>1, <1>5, ReclaimFacts
<1>7. \A j \in DOMAIN serverlist : serverlist[j] # server[w] =>
        heap'[serverlist[j]] = heap[serverlist[j]]
  BY <1>1, <1>5, <1>6
<1>8. CASE server[w] \in Range(serverlist)
  <2>1. PICK i \in DOMAIN serverlist : serverlist[i] = server[w]
    BY <1>8 DEF Range
  <2>2. i \in DOMAIN View /\ View[i] = Shown(serverlist[i])
    BY <2>1, ViewFacts DEF RInv
  <2>3. heap'[serverlist[i]] = [heap[serverlist[i]] EXCEPT !.age = age]
    BY <1>1, <1>6, <2>1
  <2>4. Shown(serverlist[i])' = [Shown(serverlist[i]) EXCEPT !.age = age]
    BY <1>1, <2>1, <2>3 DEF Shown, Server
  <2>5. View' = [View EXCEPT ![i].age = age]
    BY <1>7, <2>1, <2>2, <2>4, WriteView
  <2>6. View[i].ip = req[w].ip /\ View[i].port = req[w].port
    BY <1>2, <2>1, <2>2 DEF Shown, IsEndpoint
  <2>7. age \in Browser!Ages
    BY <1>1 DEF Ages, Browser!Ages
  <2> QED BY <2>2, <2>5, <2>6, <2>7
<1>9. CASE server[w] \notin Range(serverlist)
  BY <1>7, <1>9, SameView DEF RInv, Range
<1> QED BY <1>8, <1>9

\* The stamp of an update ends the call.
LEMMA StampImplements ==
  ASSUME RInv, Inv', NEW w \in Workers, Stamp(w)
  PROVE  Browser!Renew(w) \/ Browser!Answer(w)
<1>1. /\ pc[w] = "stamp" /\ UNCHANGED <<serverlist, sweeper>>
      /\ req' = [req EXCEPT ![w] = None]
      /\ \E age \in 0 .. delay[w] : \E references : heap' = Reclaim(Stamped(w, age), references)
  BY DEF Stamp, Return
<1>2. req[w] # None /\ req[w].op \in {"register_server", "update_server"}
  BY <1>1, Serves DEF RInv, Inv, Consistent
<1>3. Mark' = Mark
  BY <1>1, SameMark
<1>4. \/ View' = View
      \/ \E i \in DOMAIN View, age \in Browser!Ages :
           /\ View[i].ip = req[w].ip /\ View[i].port = req[w].port
           /\ View' = [View EXCEPT ![i].age = age]
  BY <1>1, StampedView
<1>5. /\ Browser!Serving(w, {"register_server", "update_server", "perform_heartbeat"})
      /\ Browser!Answered(w)
  BY <1>1, <1>2 DEF Browser!Serving, Browser!Answered
<1>6. CASE View' = View
  BY <1>2, <1>3, <1>5, <1>6 DEF Browser!Answer, View, Mark
<1>7. CASE View' # View
  <2>1. PICK i \in DOMAIN View, age \in Browser!Ages :
           /\ View[i].ip = req[w].ip /\ View[i].port = req[w].port
           /\ View' = [View EXCEPT ![i].age = age]
    BY <1>4, <1>7
  <2>2. i \in Browser!Own(req[w])
    BY <2>1 DEF Browser!Own, View
  <2> QED BY <1>2, <1>3, <1>5, <2>1, <2>2 DEF Browser!Renew, View, Mark
<1> QED BY <1>6, <1>7

\* A heartbeat renews an entry and is not over yet.
LEMMA BeatImplements ==
  ASSUME RInv, Inv', NEW w \in Workers, Beat(w)
  PROVE  Browser!Renew(w) \/ Stutter
<1>1. /\ pc[w] = "beat" /\ UNCHANGED <<serverlist, sweeper, req>>
      /\ \E age \in 0 .. delay[w] : \E references : heap' = Reclaim(Stamped(w, age), references)
  BY DEF Beat
<1>2. req[w] # None /\ req[w].op = "perform_heartbeat"
  BY <1>1, Serves DEF RInv, Inv, Consistent
<1>3. Mark' = Mark
  BY <1>1, SameMark
<1>4. \/ View' = View
      \/ \E i \in DOMAIN View, age \in Browser!Ages :
           /\ View[i].ip = req[w].ip /\ View[i].port = req[w].port
           /\ View' = [View EXCEPT ![i].age = age]
  BY <1>1, StampedView
<1>5. CASE View' = View
  BY <1>1, <1>3, <1>5, StutterStep
<1>6. CASE View' # View
  <2>1. PICK i \in DOMAIN View, age \in Browser!Ages :
           /\ View[i].ip = req[w].ip /\ View[i].port = req[w].port
           /\ View' = [View EXCEPT ![i].age = age]
    BY <1>4, <1>6
  <2>2. /\ i \in Browser!Own(req[w])
        /\ Browser!Serving(w, {"register_server", "update_server", "perform_heartbeat"})
    BY <1>2, <2>1 DEF Browser!Own, Browser!Serving, View
  <2> QED BY <1>1, <1>2, <1>3, <2>1, <2>2 DEF Browser!Renew, View, Mark
<1> QED BY <1>5, <1>6

\* The sweeper that finds an expired entry condemns it.
LEMMA SweepVisitImplements ==
  ASSUME RInv, SweepVisit
  PROVE  (\E i \in DOMAIN View : Browser!Condemn(i)) \/ Stutter
<1>1. PICK i : i = sweeper.at
  OBVIOUS
<1>2. /\ sweeper \in Sweepers
      /\ sweeper.pc = "next" /\ i \in 1 .. Len(serverlist) /\ i \in Nat \ {0}
      /\ UNCHANGED <<heap, serverlist, req>>
  BY <1>1 DEF RInv, Inv, TypeOK, SweepVisit, Sweepers
<1>3. View' = View
  BY <1>2, SameView DEF RInv
<1>4. View[i] = Shown(serverlist[i]) /\ i \in DOMAIN View
  BY <1>2, ViewFacts DEF RInv
<1>5. Mark = 0
  BY <1>2 DEF Mark, Removing
<1>6. CASE heap[serverlist[i]].age > TimeBetweenHeartbeats
  <2>1. sweeper' = [pc |-> "remove", at |-> i + 1, server |-> serverlist[i],
                    scan |-> 1, seen |-> None]
    BY <1>1, <1>6 DEF SweepVisit
  <2>2. Mark' = i
    BY <1>2, <2>1 DEF Mark, Sweepers, Removing
  <2>3. View[i].age > TimeBetweenHeartbeats
    BY <1>4, <1>6 DEF Shown
  <2>4. Browser!Condemn(i)
    BY <1>2, <1>3, <1>4, <1>5, <2>2, <2>3 DEF Browser!Condemn, Browser!Stale, View, Mark
  <2> QED BY <1>4, <2>4
<1>7. CASE ~(heap[serverlist[i]].age > TimeBetweenHeartbeats)
  <2>1. sweeper' = [sweeper EXCEPT !.at = @ + 1]
    BY <1>1, <1>7 DEF SweepVisit
  <2>2. Mark' = 0
    BY <1>2, <2>1 DEF Mark, Sweepers, Removing
  <2> QED BY <1>2, <1>3, <1>5, <2>2, StutterStep
<1> QED BY <1>6, <1>7

\* Going to sleep, waking up and comparing do not show.
LEMMA SweepRestImplements ==
  ASSUME RInv,
         \/ SweepSleep \/ SweepWake
         \/ SweepRead /\ serverlist[sweeper.scan] # sweeper.server
         \/ SweepCompare
  PROVE  Stutter
<1>1. sweeper \in Sweepers /\ UNCHANGED <<heap, serverlist, req>>
  BY SweepScanStep DEF RInv, Inv, TypeOK, SweepSleep, SweepWake, SweepRead, SweepCompare
<1>2. Mark' = Mark
  <2>1. CASE SweepSleep \/ SweepWake
    BY <1>1, <2>1 DEF SweepSleep, SweepWake, Mark, Sweepers, Removing
  <2>2. CASE SweepRead /\ serverlist[sweeper.scan] # sweeper.server
    BY <1>1, <2>2, SweepReadInside DEF RInv, SweepRead, ReadSlot, Mark, Sweepers, Removing
  <2>3. CASE SweepCompare
    BY <1>1, <2>3 DEF SweepCompare, Mark, Sweepers, Removing
  <2> QED BY <2>1, <2>2, <2>3
<1> QED BY <1>1, <1>2, SameView, StutterStep DEF RInv

\* list.remove evicts the condemned entry, or one of its port that stands before it.
LEMMA SweepDeleteImplements ==
  ASSUME RInv, Inv',
         \/ SweepRead /\ serverlist[sweeper.scan] = sweeper.server
         \/ SweepDelete
  PROVE  Browser!Evict
<1> DEFINE m == sweeper.at - 1
<1>0. PICK i : i = sweeper.scan
  OBVIOUS
<1>1. /\ sweeper \in Sweepers /\ sweeper.pc \in {"remove", "delete"}
      /\ i \in 1 .. Len(serverlist) /\ serverlist' = RemoveAt(serverlist, i)
      /\ sweeper' = [pc |-> "next", at |-> sweeper.at, server |-> None,
                     scan |-> 1, seen |-> None]
      /\ heap' = Reclaim(heap, References(serverlist', server', None))
      /\ UNCHANGED req
  BY <1>0, DeleteFacts DEF RInv, Inv, TypeOK
<1>2. /\ m \in DOMAIN serverlist /\ serverlist[m] = sweeper.server
      /\ sweeper.pc = "delete" => heap[serverlist[i]].port = heap[sweeper.server].port
  BY <1>0, <1>1 DEF RInv, VictimInPlace, Removing
<1>3. i <= m
  <2>1. PICK k \in DOMAIN serverlist : serverlist[k] = sweeper.server /\ sweeper.scan <= k
    BY <1>1 DEF RInv, Inv, VictimListed, Removing
  <2> HIDE DEF m
  <2>2. k = m
    BY <1>2, <2>1 DEF RInv, Distinct
  <2> QED BY <1>0, <2>1, <2>2
<1>4. Mark = m /\ Mark' = 0 /\ m \in 1 .. Len(serverlist) /\ Mark # 0
  BY <1>1, <1>2, ViewFacts DEF RInv, Mark, Sweepers, Removing
<1>5. View[i].port = View[m].port
  <2> HIDE DEF m
  <2>1. heap[serverlist[i]].port = heap[serverlist[m]].port
    <3>1. CASE SweepDelete
      BY <1>2, <3>1 DEF SweepDelete
    <3>2. CASE serverlist[sweeper.scan] = sweeper.server
      BY <1>0, <1>2, <3>2
    <3> QED BY <3>1, <3>2
  <2> QED BY <1>1, <1>4, <2>1, ViewFacts DEF RInv, Shown
<1>6. /\ serverlist \in Seq(Objs) /\ Len(serverlist) \in Nat
      /\ Len(serverlist') = Len(serverlist) - 1
      /\ \A k \in 1 .. Len(serverlist) - 1 :
           serverlist'[k] = IF k < i THEN serverlist[k] ELSE serverlist[k + 1]
  <2>1. serverlist \in Seq(Objs) /\ Len(serverlist) \in Nat
    BY ViewFacts DEF RInv
  <2> QED BY <1>1, <2>1, RemoveAtFacts
<1> HIDE DEF m
<1>7. View' = RemoveAt(View, i)
  <2>1. /\ View \in Seq(Browser!Entry) /\ Len(View) = Len(serverlist)
        /\ View' \in Seq(Browser!Entry) /\ Len(View') = Len(serverlist) - 1
        /\ \A k \in 1 .. Len(serverlist) - 1 : View'[k] = Shown(serverlist[k])'
        /\ \A k \in 1 .. Len(serverlist) : View[k] = Shown(serverlist[k])
    BY <1>6, ViewFacts, NextViewFacts DEF RInv
  <2>2. /\ RemoveAt(View, i) \in Seq(Browser!Entry)
        /\ Len(RemoveAt(View, i)) = Len(serverlist) - 1
        /\ \A k \in 1 .. Len(serverlist) - 1 :
             RemoveAt(View, i)[k] = IF k < i THEN View[k] ELSE View[k + 1]
    <3>1. View \in Seq(Browser!Entry) /\ i \in 1 .. Len(View)
      BY <1>1, <2>1
    <3>2. /\ RemoveAt(View, i) \in Seq(Browser!Entry)
          /\ Len(RemoveAt(View, i)) = Len(View) - 1
          /\ \A k \in 1 .. Len(View) - 1 :
               RemoveAt(View, i)[k] = IF k < i THEN View[k] ELSE View[k + 1]
      <4> HIDE DEF View
      <4> QED BY <3>1, RemoveAtFacts
    <3> QED BY <2>1, <3>2
  <2>3. \A k \in 1 .. Len(serverlist) - 1 : heap'[serverlist'[k]] = heap[serverlist'[k]]
    <3>1. heap \in [Objs -> Server \cup {None}]
      BY DEF RInv, Inv, TypeOK
    <3>2. \A k \in 1 .. Len(serverlist) - 1 :
            serverlist'[k] \in Objs /\ heap'[serverlist'[k]] # None
      BY <1>6, NextViewFacts, NoneAssumption
    <3> QED BY <1>1, <3>1, <3>2, ReclaimFacts
  <2>4. ASSUME NEW k \in 1 .. Len(serverlist) - 1
        PROVE  View'[k] = RemoveAt(View, i)[k]
    <3>1. View'[k] = [ip |-> heap[serverlist'[k]].ip, port |-> heap[serverlist'[k]].port,
                      name |-> heap[serverlist'[k]].name, age |-> heap[serverlist'[k]].age]
      BY <2>1, <2>3 DEF Shown
    <3>2. CASE k < i
      <4>1. serverlist'[k] = serverlist[k] /\ RemoveAt(View, i)[k] = View[k]
            /\ View[k] = Shown(serverlist[k])
        BY <1>6, <2>1, <2>2, <3>2
      <4> QED BY <3>1, <4>1 DEF Shown
    <3>3. CASE ~(k < i)
      <4>1. k + 1 \in 1 .. Len(serverlist)
        BY <1>6
      <4>2. serverlist'[k] = serverlist[k + 1] /\ RemoveAt(View, i)[k] = View[k + 1]
        BY <1>6, <2>2, <3>3
      <4>3. View[k + 1] = Shown(serverlist[k + 1])
        BY <2>1, <4>1
      <4> QED BY <3>1, <4>2, <4>3 DEF Shown
    <3> QED BY <3>2, <3>3
  <2> QED BY <2>1, <2>2, <2>4, SeqEqual
<1>8. i \in 1 .. Mark /\ View[i].port = View[Mark].port
  BY <1>1, <1>3, <1>4, <1>5
<1>11. \A k : Browser!RemoveAt(View, k) = RemoveAt(View, k)
  BY DEF Browser!RemoveAt, RemoveAt
<1> QED BY <1>1, <1>4, <1>7, <1>8, <1>11 DEF Browser!Evict, View, Mark

\* A second of the clock ages every entry of the browser.
LEMMA TickImplements ==
  ASSUME RInv, Tick
  PROVE  Browser!Age
<1>1. /\ heap \in [Objs -> Server \cup {None}] /\ UNCHANGED <<serverlist, req, sweeper>>
      /\ \A o \in Objs : heap[o] # None => heap'[o] = [heap[o] EXCEPT !.age = Older(@)]
  BY DEF RInv, Inv, TypeOK, Tick
<1>2. Mark' = Mark
  BY <1>1, SameMark
<1>3. \A i \in 1 .. Len(serverlist) :
        Shown(serverlist[i])' =
          [View[i] EXCEPT !.age = IF View[i].age > TimeBetweenHeartbeats THEN @ ELSE @ + 1]
  <2> SUFFICES ASSUME NEW i \in 1 .. Len(serverlist)
               PROVE  Shown(serverlist[i])' =
                        [View[i] EXCEPT !.age =
                           IF View[i].age > TimeBetweenHeartbeats THEN @ ELSE @ + 1]
    OBVIOUS
  <2>1. PICK o : o = serverlist[i] /\ o = serverlist'[i]
    BY <1>1
  <2>2. o \in Objs /\ heap[o] \in Server /\ View[i] = Shown(o)
    BY <2>1, ViewFacts DEF RInv
  <2>3. heap'[o] = [heap[o] EXCEPT !.age = Older(@)]
    BY <1>1, <2>2, NoneAssumption
  <2>4. Shown(serverlist[i])' = [ip |-> heap[o].ip, port |-> heap[o].port,
                                 name |-> heap[o].name, age |-> Older(heap[o].age)]
    BY <2>1, <2>2, <2>3 DEF Shown, Server
  <2>5. View[i] = [ip |-> heap[o].ip, port |-> heap[o].port,
                   name |-> heap[o].name, age |-> heap[o].age]
    BY <2>2 DEF Shown
  <2> QED BY <2>4, <2>5 DEF Older
<1>4. DOMAIN View = DOMAIN serverlist /\ DOMAIN serverlist = 1 .. Len(serverlist)
  BY ViewFacts DEF RInv, View
<1>5. View' = [i \in DOMAIN serverlist |-> Shown(serverlist[i])']
  BY <1>1 DEF View
<1>6. View' = [i \in DOMAIN View |->
                 [View[i] EXCEPT !.age =
                    IF View[i].age > TimeBetweenHeartbeats THEN @ ELSE @ + 1]]
  BY <1>3, <1>4, <1>5
<1> QED BY <1>1, <1>2, <1>6 DEF Browser!Age, Browser!Stale, View, Mark

-----------------------------------------------------------------------------
(* The theorems *)

\* The server starts with an empty browser.
LEMMA InitImplements == Init => Browser!BInit
<1> SUFFICES ASSUME Init PROVE Browser!BInit
  OBVIOUS
<1>1. serverlist = <<>> /\ req = [w \in Workers |-> None] /\ sweeper.pc = "next"
  BY DEF Init
<1> QED BY <1>1 DEF Browser!BInit, Removing

\* Every step of the server is a step of the browser, or does not show.
LEMMA StepImplements == RInv /\ [Next]_vars => [Browser!BNext]_(Browser!bvars)
<1> SUFFICES ASSUME RInv, [Next]_vars PROVE Browser!BNext \/ Stutter
  BY DEF Stutter
<1>1. Inv'
  BY NextInv DEF RInv
<1>2. ASSUME NEW w \in Workers, Call(w)
      PROVE  Browser!BNext
  BY <1>2, CallImplements DEF Browser!BNext
<1>3. ASSUME NEW w \in Workers, WorkerStep(w)
      PROVE  Browser!BNext \/ Stutter
  <2>1. Browser!Serve(w) \/ Stutter
    BY <1>1, <1>3, ReadImplements, BuildImplements, AnswerImplements,
       AppendServerImplements, AssignImplements, StampImplements, BeatImplements
       DEF WorkerStep, Browser!Serve
  <2> QED BY <2>1 DEF Browser!BNext
<1>4. CASE Sweep
  <2>1. CASE SweepVisit
    BY <2>1, SweepVisitImplements DEF Browser!BNext, View
  <2>2. CASE SweepRead \/ SweepDelete
    BY <1>1, <2>2, SweepDeleteImplements, SweepRestImplements DEF Browser!BNext
  <2> QED BY <1>4, <2>1, <2>2, SweepRestImplements
          DEF Sweep, SweepRemove, RInv
<1>5. CASE Tick
  BY <1>5, TickImplements DEF Browser!BNext
<1>6. CASE UNCHANGED vars
  <2>1. UNCHANGED <<heap, serverlist, req, sweeper>>
    BY <1>6 DEF vars
  <2> QED BY <2>1, SameView, SameMark, StutterStep DEF RInv
<1> QED BY <1>2, <1>3, <1>4, <1>5, <1>6 DEF Next

\* In every behaviour of the server an entry is on the list once, what a registration
\* is about to append is its own and new, what an update is about to stamp belongs to
\* its caller, and the entry that the sweeper is about to remove is where it was.
THEOREM RInvariance == Spec => []RInv
<1> QED BY InitRInv, NextRInv, PTL DEF Spec

\* The threads of the master server implement the server browser.
THEOREM ThreadsImplementBrowser == Spec => ImplementsBrowser
<1>1. Spec => []RInv
  BY RInvariance
<1> QED BY <1>1, InitImplements, StepImplements, PTL
        DEF Spec, ImplementsBrowser, Browser!BSpec
=============================================================================
