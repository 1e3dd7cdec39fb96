---------------------- MODULE MasterServerHistoryProofs ----------------------
(***************************************************************************)
(* What an undisturbed call of the master server does, for any number of   *)
(* hosts, ports, names, entries and worker threads and any period.         *)
(***************************************************************************)
EXTENDS MasterServerHistory, MasterServerProofs

-----------------------------------------------------------------------------
(* What a step does to the list, to the entries and to other threads *)

Thread(v) == Call(v) \/ WorkerStep(v)

\* A step of another thread leaves a worker where it is.
LEMMA OtherThread ==
  ASSUME RInv, NEW w \in Workers,
         Sweep \/ Tick \/ \E v \in Workers \ {w} : Thread(v)
  PROVE  /\ pc'[w] = pc[w] /\ req'[w] = req[w] /\ at'[w] = at[w] /\ server'[w] = server[w]
         /\ jsonstring'[w] = jsonstring[w]
<1>0. /\ pc \in [Workers -> Labels]
      /\ req \in [Workers -> Requests \cup {None}]
      /\ at \in [Workers -> Nat \ {0}]
      /\ server \in [Workers -> Objs \cup {None}]
      /\ delay \in [Workers -> Ages]
      /\ jsonstring \in [Workers -> Listings \cup {None}]
  BY DEF RInv, Inv, TypeOK
<1>1. CASE Sweep \/ Tick
  BY <1>1 DEF Sweep, SweepVisit, SweepRemove, SweepRead, SweepCompare, SweepDelete,
       ReadSlot, RaiseValueError, DeleteSlot, SweepSleep, SweepWake, Tick
<1>2. ASSUME NEW v \in Workers \ {w}, Thread(v)
      PROVE  /\ pc'[w] = pc[w] /\ req'[w] = req[w] /\ at'[w] = at[w] /\ server'[w] = server[w]
             /\ jsonstring'[w] = jsonstring[w]
  <2>1. CASE Call(v)
    BY <1>0, <1>2, <2>1 DEF Call, Goto
  <2>2. CASE WorkerStep(v)
    BY <1>0, <1>2, <2>2 DEF WorkerStep, Skip, Exists, Build, ProbeFails, AppendServer, Assign,
         Stamp, UpdateMissed, Find, Beat, Unregister, EndOfLoop, Take, Copy,
         AppendListing, SendList, Return, Goto, Advance, Rewind
  <2> QED BY <1>2, <2>1, <2>2 DEF Thread
<1> QED BY <1>1, <1>2

\* Only the clock counts for another worker's delay.
LEMMA OtherDelay ==
  ASSUME RInv, NEW w \in Workers,
         Sweep \/ \E v \in Workers \ {w} : Thread(v)
  PROVE  delay'[w] = delay[w]
<1>0. delay \in [Workers -> Ages]
  BY DEF RInv, Inv, TypeOK
<1>1. CASE Sweep
  BY <1>1 DEF Sweep, SweepVisit, SweepRemove, SweepRead, SweepCompare, SweepDelete,
       SweepSleep, SweepWake
<1>2. ASSUME NEW v \in Workers \ {w}, Thread(v)
      PROVE  delay'[w] = delay[w]
  BY <1>0, <1>2 DEF Thread, Call, WorkerStep, Skip, Exists, Build, ProbeFails, AppendServer,
       Assign, Stamp, UpdateMissed, Find, Beat, Unregister, EndOfLoop, Take, Copy,
       AppendListing, SendList, Return
<1> QED BY <1>1, <1>2

\* The two kinds of steps of list.remove.
Scanning == (SweepRead /\ serverlist[sweeper.scan] # sweeper.server) \/ SweepCompare
Deleting == (SweepRead /\ serverlist[sweeper.scan] = sweeper.server) \/ SweepDelete

\* The list stays, gets one entry of a registration, or gets shorter.
LEMMA ListMoves ==
  ASSUME RInv, Next
  PROVE  \/ serverlist' = serverlist
         \/ \E v \in Workers : AppendServer(v)
         \/ Deleting /\ Len(serverlist') < Len(serverlist)
<1>1. ASSUME NEW v \in Workers, Unregister(v)
      PROVE  serverlist' = serverlist
  BY <1>1, UnregisterRemovesNothing DEF RInv
<1>2. CASE SweepRemove
  <2>1. serverlist \in Seq(Objs)
    BY DEF RInv, Inv, TypeOK
  <2>2. CASE Scanning
    BY <2>2, SweepScanStep DEF RInv, Scanning
  <2>3. CASE Deleting
    <3>1. /\ sweeper.scan \in 1 .. Len(serverlist)
          /\ serverlist' = RemoveAt(serverlist, sweeper.scan)
      BY <2>3, DeleteFacts DEF RInv, Deleting
    <3>2. Len(serverlist') = Len(serverlist) - 1 /\ Len(serverlist) \in Nat
      BY <2>1, <3>1, RemoveAtFacts
    <3> QED BY <2>3, <3>2
  <2> QED BY <1>2, <2>2, <2>3 DEF SweepRemove, Scanning, Deleting
<1>3. ASSUME NEW v \in Workers, Thread(v)
      PROVE  serverlist' = serverlist \/ AppendServer(v)
  BY <1>1, <1>3 DEF Thread, Call, WorkerStep, Skip, Exists, Build, ProbeFails, Assign, Stamp,
       UpdateMissed, Find, Beat, EndOfLoop, Take, Copy, AppendListing, SendList
<1>4. CASE SweepVisit \/ SweepSleep \/ SweepWake \/ Tick
  BY <1>4 DEF SweepVisit, SweepSleep, SweepWake, Tick
<1> QED BY <1>2, <1>3, <1>4 DEF Next, Thread, Sweep

\* No entry changes its age but by the clock and by who has it in hand to stamp it.
StampedBy(o, v) ==
  /\ pc[v] \in {"stamp", "beat"} /\ server[v] = o
  /\ heap'[o].age \in 0 .. delay[v]

Younger == \A o \in Objs : heap[o] # None /\ heap'[o] # None
                             => \/ heap'[o].age = heap[o].age
                                \/ \E v \in Workers : StampedBy(o, v)

LEMMA ReclaimYounger ==
  ASSUME heap \in [Objs -> Server \cup {None}], NEW references,
         heap' = Reclaim(heap, references)
  PROVE  KeepEndpoints /\ Younger
  BY ReclaimFacts DEF KeepEndpoints, Younger

LEMMA HeapMoves ==
  ASSUME RInv, Next
  PROVE  /\ KeepEndpoints
         /\ (\E w \in Workers : Thread(w)) \/ Sweep => Younger
<1>0. heap \in [Objs -> Server \cup {None}]
  BY DEF RInv, Inv, TypeOK
<1>3. ASSUME NEW w \in Workers, Build(w)
      PROVE  KeepEndpoints /\ Younger
  <2>1. PICK o \in Objs : heap[o] = None /\ heap' = [heap EXCEPT ![o] = NewServer(req[w])]
    BY <1>3 DEF Build, Unused
  <2> QED BY <1>0, <2>1 DEF KeepEndpoints, Younger
<1>4. ASSUME NEW w \in Workers, Stamp(w) \/ Beat(w)
      PROVE  KeepEndpoints /\ Younger
  <2>1. PICK age \in 0 .. delay[w] :
          \E references : heap' = Reclaim(Stamped(w, age), references)
    BY <1>4 DEF Stamp, Beat, Return
  <2>2. /\ pc[w] \in {"stamp", "beat"} /\ Inv
    BY <1>4 DEF Stamp, Beat, RInv
  <2>3. /\ server[w] \in Objs /\ heap[server[w]] \in Server
        /\ Stamped(w, age) \in [Objs -> Server \cup {None}]
        /\ Stamped(w, age)[server[w]] = [heap[server[w]] EXCEPT !.age = age]
        /\ \A o \in Objs \ {server[w]} : Stamped(w, age)[o] = heap[o]
        /\ \A o \in Objs : heap[o] # None =>
             /\ Stamped(w, age)[o].ip = heap[o].ip
             /\ Stamped(w, age)[o].port = heap[o].port
    BY <2>2, StampedFacts
  <2>4. \A o \in Objs : heap'[o] # None => heap'[o] = Stamped(w, age)[o]
    BY <2>1, <2>3, ReclaimFacts
  <2>5. Stamped(w, age)[server[w]].age = age
    BY <2>3 DEF Server
  <2>6. KeepEndpoints
    BY <2>3, <2>4 DEF KeepEndpoints
  <2>7. ASSUME NEW o \in Objs, heap[o] # None, heap'[o] # None
        PROVE  heap'[o].age = heap[o].age \/ StampedBy(o, w)
    <3>1. CASE o = server[w]
      BY <2>2, <2>4, <2>5, <2>7, <3>1 DEF StampedBy
    <3>2. CASE o # server[w]
      BY <2>3, <2>4, <2>7, <3>2
    <3> QED BY <3>1, <3>2
  <2> QED BY <2>6, <2>7 DEF Younger
<1>5. ASSUME NEW w \in Workers, Assign(w)
      PROVE  KeepEndpoints /\ Younger
  <2>1. Current(w) \in Objs /\ heap[Current(w)] \in Server
    BY <1>5, CurrentFacts DEF RInv, Inv, TypeOK, Assign, Matches
  <2>2. heap' = [heap EXCEPT ![Current(w)].name = req[w].name]
    BY <1>5 DEF Assign
  <2> QED BY <1>0, <2>1, <2>2 DEF KeepEndpoints, Younger, Server
<1>6. ASSUME Tick
      PROVE  KeepEndpoints
  <2>1. ASSUME NEW o \in Objs, heap[o] # None
        PROVE  heap[o] \in Server /\ heap'[o] = [heap[o] EXCEPT !.age = Older(@)]
    BY <1>0, <1>6, <2>1 DEF Tick
  <2> QED BY <2>1 DEF KeepEndpoints, Server
<1>7. ASSUME NEW w \in Workers, Thread(w)
      PROVE  KeepEndpoints /\ Younger
  <2>1. \/ heap' = heap \/ \E references : heap' = Reclaim(heap, references)
        \/ Build(w) \/ Stamp(w) \/ Assign(w) \/ Beat(w)
    BY <1>7 DEF Thread, Call, WorkerStep, Skip, Exists, ProbeFails, AppendServer, UpdateMissed,
         Find, Unregister, EndOfLoop, Take, Copy, AppendListing, SendList, Return
  <2>2. CASE heap' = heap
    BY <2>2 DEF KeepEndpoints, Younger
  <2>3. CASE \E references : heap' = Reclaim(heap, references)
    BY <1>0, <2>3, ReclaimYounger
  <2> QED BY <1>3, <1>4, <1>5, <2>1, <2>2, <2>3
<1>8. ASSUME Sweep
      PROVE  KeepEndpoints /\ Younger
  <2>1. heap' = heap \/ \E references : heap' = Reclaim(heap, references)
    BY <1>8 DEF Sweep, SweepVisit, SweepRemove, SweepRead, SweepCompare, SweepDelete,
         ReadSlot, RaiseValueError, DeleteSlot, SweepSleep, SweepWake
  <2>2. CASE heap' = heap
    BY <2>2 DEF KeepEndpoints, Younger
  <2> QED BY <1>0, <2>1, <2>2, ReclaimYounger
<1> QED BY <1>6, <1>7, <1>8 DEF Next, Thread

\* While nothing is removed, what is on the list stays where it is with its endpoint.
LEMMA OldEntries ==
  ASSUME RInv, RInv', Next, ~(Len(serverlist') < Len(serverlist)),
         NEW i \in 1 .. Len(serverlist)
  PROVE  /\ i \in 1 .. Len(serverlist') /\ serverlist'[i] = serverlist[i]
         /\ serverlist[i] \in Objs
         /\ heap[serverlist[i]] \in Server /\ heap'[serverlist[i]] \in Server
         /\ heap'[serverlist[i]].ip = heap[serverlist[i]].ip
         /\ heap'[serverlist[i]].port = heap[serverlist[i]].port
<1>0. /\ serverlist \in Seq(Objs) /\ Len(serverlist) \in Nat /\ serverlist[i] \in Objs
      /\ heap[serverlist[i]] \in Server
  BY ViewFacts DEF RInv
<1>1. i \in 1 .. Len(serverlist') /\ serverlist'[i] = serverlist[i]
  <2>1. CASE serverlist' = serverlist
    BY <2>1
  <2>2. ASSUME NEW v \in Workers, AppendServer(v)
        PROVE  i \in 1 .. Len(serverlist') /\ serverlist'[i] = serverlist[i]
    <3>1. serverlist' = Append(serverlist, server[v]) /\ server[v] \in Objs
      BY <2>2 DEF AppendServer, RInv, Inv, TypeOK, Consistent
    <3>2. Len(serverlist') = Len(serverlist) + 1 /\ serverlist'[i] = serverlist[i]
      BY <1>0, <3>1, AppendFacts
    <3> QED BY <1>0, <3>2
  <2> QED BY <2>1, <2>2, ListMoves
<1>2. heap'[serverlist'[i]] \in Server
  BY <1>1, NextViewFacts DEF RInv
<1>3. heap[serverlist[i]] # None /\ heap'[serverlist[i]] # None
  BY <1>0, <1>1, <1>2, NoneAssumption
<1> QED BY <1>0, <1>1, <1>2, <1>3, HeapMoves DEF KeepEndpoints

\* ... and what is new on it is at the end, for a registration that is through.
LEMMA NewEntries ==
  ASSUME RInv, RInv', Next, ~(Len(serverlist') < Len(serverlist)),
         NEW i \in 1 .. Len(serverlist'), i \notin 1 .. Len(serverlist)
  PROVE  /\ i = Len(serverlist) + 1
         /\ \E v \in Workers :
              /\ AppendServer(v)
              /\ req[v] # None /\ req[v].op = "register_server"
              /\ heap'[serverlist'[i]].ip = req[v].ip
              /\ heap'[serverlist'[i]].port = req[v].port
<1>1. PICK v \in Workers : AppendServer(v)
  BY ListMoves
<1>2. /\ serverlist \in Seq(Objs) /\ Len(serverlist) \in Nat
      /\ serverlist' = Append(serverlist, server[v]) /\ server[v] \in Objs
      /\ heap[server[v]] # None /\ IsEndpoint(heap[server[v]], req[v])
      /\ pc[v] = "probe"
  BY <1>1 DEF AppendServer, RInv, Inv, TypeOK, Consistent, Alive, Fresh
<1>3. i = Len(serverlist) + 1 /\ serverlist'[i] = server[v]
  BY <1>2, AppendFacts
<1>4. heap'[server[v]] # None
  BY <1>3, NextViewFacts, NoneAssumption DEF RInv
<1>5. heap'[server[v]].ip = req[v].ip /\ heap'[server[v]].port = req[v].port
  BY <1>2, <1>4, HeapMoves DEF KeepEndpoints, IsEndpoint
<1>6. req[v] # None /\ req[v].op = "register_server"
  BY <1>2, Serves DEF RInv, Inv, Consistent
<1> QED BY <1>1, <1>3, <1>5, <1>6

-----------------------------------------------------------------------------
(* What an undisturbed call has done so far *)

Undisturbed(w) == pc[w] # "idle" /\ ~disturbed[w]

\* It is in nobody's way, and its loop is within the list.
Clear(w) == \A v \in Workers \ {w} : ~Conflict(req[w], req[v])
Within(w) == at[w] <= Len(serverlist) + 1

\* A registration has not come across its endpoint.
Looked(w) ==
  /\ pc[w] = "exists" => \A i \in DOMAIN serverlist :
                           i < at[w] => ~IsEndpoint(heap[serverlist[i]], req[w])
  /\ pc[w] = "probe"  => \A i \in DOMAIN serverlist : ~IsEndpoint(heap[serverlist[i]], req[w])

\* The entry in the hand of a worker is the one its loop has passed last.
InHand(w) == at[w] - 1 \in DOMAIN serverlist /\ server[w] = serverlist[at[w] - 1]

\* A heartbeat has renewed what it has passed, but for the entry in hand, and who
\* will stamp an entry of its endpoint found it no earlier than the heartbeat began.
Renewed(w) ==
  /\ pc[w] = "beat" => InHand(w)
  /\ pc[w] \in {"heartbeat", "beat"} =>
       \A i \in DOMAIN serverlist :
         i < at[w] /\ IsEndpoint(heap[serverlist[i]], req[w])
           => \/ heap[serverlist[i]].age <= elapsed[w]
              \/ pc[w] = "beat" /\ i = at[w] - 1

Prompt(w) ==
  pc[w] \in {"heartbeat", "beat"} =>
    \A v \in Workers : pc[v] \in {"stamp", "beat"} /\ IsEndpoint(req[v], req[w])
                         => delay[v] <= elapsed[w]

\* A listing has copied what it has passed, but for the entry in hand.
Copied(w) ==
  /\ pc[w] = "list"   => Len(returnlist) = at[w] - 1
  /\ pc[w] \in {"copy", "append"} => Len(returnlist) = at[w] - 2
                                     /\ at[w] - 1 \in DOMAIN serverlist
  /\ pc[w] = "copy"   => InHand(w)
  /\ pc[w] = "append" => IsEndpoint(heap[serverlist[at[w] - 1]], jsonstring[w])
  /\ pc[w] \in {"list", "copy", "append"} =>
       \A i \in 1 .. Len(returnlist) : i \in DOMAIN serverlist
                                         => IsEndpoint(heap[serverlist[i]], returnlist[i])

\* Who has no entry to stamp counts no delay.
NoDelay == \A w \in Workers : pc[w] \notin {"stamp", "beat"} => delay[w] = 0

\* An idle worker's next loop starts at the first entry.
AtStart == \A w \in Workers : pc[w] = "idle" => at[w] = 1

HInv ==
  /\ RInv /\ HTypeOK /\ AtStart /\ NoDelay
  /\ \A w \in Workers : Undisturbed(w) =>
       Clear(w) /\ Within(w) /\ Looked(w) /\ Renewed(w) /\ Prompt(w) /\ Copied(w)

\* Who is undisturbed after a step was not disturbed before and had nothing removed.
LEMMA WatchFacts ==
  ASSUME HNext, NEW w \in Workers, Undisturbed(w)'
  PROVE  /\ ~(Len(serverlist') < Len(serverlist))
         /\ pc[w] # "idle" => Undisturbed(w)
         /\ Clear(w)'
         /\ \A v \in Workers : ~Outdates(v, w)
<1>1. Watch
  BY DEF HNext
<1>2. /\ ~disturbed[w]
      /\ ~(Len(serverlist') < Len(serverlist))
      /\ ~\E v \in Workers \ {w} : Conflict(req'[w], req'[v])
      /\ ~\E v \in Workers : Outdates(v, w)
  BY <1>1 DEF Watch, Undisturbed
<1> QED BY <1>2 DEF Undisturbed, Clear, Conflict, IsEndpoint

LEMMA HNextNext == HNext => Next
BY DEF HNext, Next

LEMMA AtStartStep ==
  ASSUME RInv, AtStart, Next
  PROVE  AtStart'
<1>0. /\ pc \in [Workers -> Labels]
      /\ at \in [Workers -> Nat \ {0}]
  BY DEF RInv, Inv, TypeOK
<1>1. CASE Sweep \/ Tick
  BY <1>1, OtherThread DEF AtStart
<1>2. ASSUME NEW v \in Workers, Thread(v)
      PROVE  AtStart'
  <2>1. \A w \in Workers \ {v} : pc'[w] = pc[w] /\ at'[w] = at[w]
    BY <1>2, OtherThread
  <2>2. pc'[v] = "idle" => at'[v] = 1
    <3>1. CASE Call(v)
      BY <1>0, <3>1 DEF Call, Goto, FirstLabel, AtStart, Requests
    <3>2. CASE WorkerStep(v)
      BY <1>0, <3>2 DEF WorkerStep, Skip, Exists, Build, ProbeFails, AppendServer, Assign,
         Stamp, UpdateMissed, Find, Beat, Unregister, EndOfLoop, Take, Copy,
         AppendListing, SendList, Return, Goto, Advance, Rewind
    <3> QED BY <1>2, <3>1, <3>2 DEF Thread
  <2> QED BY <2>1, <2>2 DEF AtStart
<1> QED BY <1>1, <1>2 DEF Next, Thread

\* How the loops and the program counter of a worker move.
LEMMA OwnThread ==
  ASSUME RInv, NEW w \in Workers, WorkerStep(w), pc'[w] # "idle"
  PROVE  /\ req'[w] = req[w] /\ serverlist' = serverlist
         /\ \/ at'[w] = 1
            \/ at'[w] = at[w]
            \/ HasNext(w) /\ at'[w] = at[w] + 1
         /\ pc[w] # "idle"
<1>0. /\ pc \in [Workers -> Labels]
      /\ at \in [Workers -> Nat \ {0}]
  BY DEF RInv, Inv, TypeOK
<1>1. ~\E status, objects, list : Return(w, status, objects, list)
  BY <1>0 DEF Return, Goto
<1>2. \/ Skip(w) \/ Exists(w) \/ Build(w) \/ Assign(w) \/ Find(w) \/ Beat(w)
      \/ Unregister(w) \/ Take(w) \/ Copy(w) \/ AppendListing(w)
  BY <1>1 DEF WorkerStep, ProbeFails, AppendServer, Stamp, UpdateMissed, EndOfLoop, SendList
<1>3. Unregister(w) => serverlist' = serverlist
  BY UnregisterRemovesNothing DEF RInv
<1>4. req'[w] = req[w] /\ serverlist' = serverlist
  BY <1>2, <1>3 DEF Skip, Exists, Build, Assign, Find, Beat, Unregister, Take, Copy,
       AppendListing
<1>5. CASE Skip(w) \/ Find(w) \/ Unregister(w) \/ Take(w)
  <2>1. HasNext(w) /\ at' = [at EXCEPT ![w] = @ + 1] /\ pc[w] # "idle"
    <3>1. HasNext(w) /\ Advance(w)
      BY <1>5 DEF Skip, Find, Unregister, Take, Matches
    <3>2. pc[w] \in {"exists", "update", "heartbeat", "unregister", "list"}
      BY <1>5 DEF Skip, Find, Unregister, Take
    <3> QED BY <3>1, <3>2 DEF Advance
  <2> QED BY <1>0, <1>4, <2>1
<1>6. CASE Exists(w) \/ Build(w) \/ Assign(w)
  <2>1. at' = [at EXCEPT ![w] = 1] /\ pc[w] # "idle"
    BY <1>6 DEF Exists, Build, Assign, Rewind
  <2> QED BY <1>0, <1>4, <2>1
<1>7. CASE Beat(w) \/ Copy(w) \/ AppendListing(w)
  BY <1>4, <1>7 DEF Beat, Copy, AppendListing
<1> QED BY <1>2, <1>5, <1>6, <1>7

\* Types and what goes with them.
LEMMA HFacts ==
  ASSUME HInv
  PROVE  /\ RInv /\ Inv /\ AtStart
         /\ serverlist \in Seq(Objs) /\ Len(serverlist) \in Nat
         /\ DOMAIN serverlist = 1 .. Len(serverlist)
         /\ returnlist \in Seq(Listings) /\ Len(returnlist) \in Nat
         /\ pc \in [Workers -> Labels]
         /\ req \in [Workers -> Requests \cup {None}]
         /\ at \in [Workers -> Nat \ {0}]
         /\ server \in [Workers -> Objs \cup {None}]
         /\ delay \in [Workers -> Ages]
         /\ jsonstring \in [Workers -> Listings \cup {None}]
         /\ NoDelay
         /\ elapsed \in [Workers -> Ages]
         /\ \A w \in Workers : Undisturbed(w) =>
              Clear(w) /\ Within(w) /\ Looked(w) /\ Renewed(w) /\ Prompt(w) /\ Copied(w)
  BY DEF HInv, RInv, Inv, TypeOK, HTypeOK

Others(w) == Sweep \/ Tick \/ \E v \in Workers \ {w} : Thread(v)

LEMMA WhoMoves ==
  ASSUME HNext, NEW w \in Workers
  PROVE  Call(w) \/ WorkerStep(w) \/ Others(w)
  BY DEF HNext, Others, Thread

LEMMA NextListFacts ==
  ASSUME RInv'
  PROVE  /\ DOMAIN serverlist' = 1 .. Len(serverlist') /\ Len(serverlist') \in Nat
         /\ returnlist' \in Seq(Listings)
  BY DEF RInv, Inv, TypeOK

LEMMA WithinStep ==
  ASSUME HInv, RInv', HNext, NEW w \in Workers, Undisturbed(w)'
  PROVE  Within(w)'
<1> USE HFacts, NextListFacts
<1>1. ~(Len(serverlist') < Len(serverlist)) /\ (pc[w] # "idle" => Undisturbed(w))
  BY WatchFacts
<1>2. at[w] \in Nat \ {0} /\ at[w] <= Len(serverlist) + 1
  BY <1>1 DEF AtStart, Within
<1>3. CASE Call(w)
  BY <1>1, <1>2, <1>3 DEF Call, Within
<1>4. CASE WorkerStep(w)
  <2>1. at'[w] = 1 \/ at'[w] = at[w] \/ (HasNext(w) /\ at'[w] = at[w] + 1)
    BY <1>4, OwnThread DEF Undisturbed
  <2> QED BY <1>1, <1>2, <2>1, OwnThread, <1>4 DEF Within, HasNext, Undisturbed
<1>5. CASE Others(w)
  <2>1. at'[w] = at[w]
    BY <1>5, OtherThread DEF Others
  <2> QED BY <1>1, <1>2, <2>1 DEF Within
<1> QED BY <1>3, <1>4, <1>5, WhoMoves

\* A request that has just arrived has passed nothing.
LEMMA CallFacts ==
  ASSUME HInv, NEW w \in Workers, Call(w)
  PROVE  /\ at'[w] = 1 /\ pc'[w] \in {"exists", "update", "heartbeat", "unregister", "list"}
         /\ pc'[w] = "list" => returnlist' = <<>>
<1> USE HFacts
<1>1. PICK r \in Requests : /\ pc[w] = "idle" /\ pc' = [pc EXCEPT ![w] = FirstLabel[r.op]]
                            /\ returnlist' = ResetList(r) /\ at' = at
  BY DEF Call, Goto
<1>2. r.op \in Methods
  BY DEF Requests, Methods
<1> QED BY <1>1, <1>2 DEF Methods, FirstLabel, ResetList, AtStart

LEMMA LookedStep ==
  ASSUME HInv, RInv', HNext, NEW w \in Workers, Undisturbed(w)'
  PROVE  Looked(w)'
<1> USE HFacts, NextListFacts
<1>1. ~(Len(serverlist') < Len(serverlist)) /\ (pc[w] # "idle" => Undisturbed(w))
  BY WatchFacts
<1>2. CASE Call(w)
  <2>1. at'[w] = 1 /\ pc'[w] # "probe"
    BY <1>2, CallFacts
  <2>2. \A i \in DOMAIN serverlist' : ~(i < 1)
    OBVIOUS
  <2> QED BY <2>1, <2>2 DEF Looked
<1>3. CASE WorkerStep(w)
  <2>1. req'[w] = req[w] /\ serverlist' = serverlist /\ Undisturbed(w)
    BY <1>1, <1>3, OwnThread DEF Undisturbed
  <2>2. \A i \in 1 .. Len(serverlist) :
          IsEndpoint(heap'[serverlist'[i]], req'[w]) <=> IsEndpoint(heap[serverlist[i]], req[w])
    BY <1>1, <2>1, HNextNext, OldEntries DEF IsEndpoint
  <2>3. CASE pc'[w] = "exists"
    <3>1. Skip(w) /\ pc[w] = "exists"
      BY <1>3, <2>3 DEF WorkerStep, Skip, Exists, Build, ProbeFails, AppendServer, Assign,
         Stamp, UpdateMissed, Find, Beat, Unregister, EndOfLoop, Take, Copy,
         AppendListing, SendList, Return, Goto
    <3>2. /\ at'[w] = at[w] + 1 /\ ~IsEndpoint(heap[serverlist[at[w]]], req[w])
      BY <3>1 DEF Skip, Advance, Matches, HasNext, Current
    <3>3. \A i \in DOMAIN serverlist : i < at[w] => ~IsEndpoint(heap[serverlist[i]], req[w])
      BY <2>1, <3>1 DEF Looked
    <3>4. \A i \in DOMAIN serverlist : i < at[w] + 1 => ~IsEndpoint(heap[serverlist[i]], req[w])
      BY <3>2, <3>3
    <3> QED BY <2>1, <2>2, <2>3, <3>2, <3>4 DEF Looked
  <2>4. CASE pc'[w] = "probe"
    <3>1. Build(w) /\ pc[w] = "exists"
      BY <1>3, <2>4 DEF WorkerStep, Skip, Exists, Build, ProbeFails, AppendServer, Assign,
         Stamp, UpdateMissed, Find, Beat, Unregister, EndOfLoop, Take, Copy,
         AppendListing, SendList, Return, Goto
    <3>2. ~(at[w] <= Len(serverlist))
      BY <3>1 DEF Build, NotFound, HasNext
    <3>3. \A i \in DOMAIN serverlist : i < at[w]
      BY <3>2
    <3>4. \A i \in DOMAIN serverlist : ~IsEndpoint(heap[serverlist[i]], req[w])
      BY <2>1, <3>1, <3>3 DEF Looked
    <3> QED BY <2>1, <2>2, <2>4, <3>4 DEF Looked
  <2> QED BY <2>3, <2>4 DEF Looked
<1>4. CASE Others(w)
  <2>1. pc'[w] = pc[w] /\ req'[w] = req[w] /\ at'[w] = at[w]
    BY <1>4, OtherThread DEF Others
  <2>2. Undisturbed(w)
    BY <1>1, <2>1 DEF Undisturbed
  <2>3. \A i \in 1 .. Len(serverlist) :
          IsEndpoint(heap'[serverlist'[i]], req'[w]) <=> IsEndpoint(heap[serverlist[i]], req[w])
    BY <1>1, <2>1, HNextNext, OldEntries DEF IsEndpoint
  <2>4. CASE pc[w] = "exists"
    <3>1. \A i \in 1 .. Len(serverlist') : i < at[w] => i \in 1 .. Len(serverlist)
      BY <2>2 DEF Within
    <3> QED BY <2>1, <2>2, <2>3, <2>4, <3>1 DEF Looked
  <2>5. CASE pc[w] = "probe"
    <3>1. req[w] # None /\ req[w].op = "register_server"
      BY <2>5, Serves DEF Inv, Consistent
    <3>2. ASSUME NEW i \in 1 .. Len(serverlist'), i \notin 1 .. Len(serverlist)
          PROVE  ~IsEndpoint(heap'[serverlist'[i]], req'[w])
      <4>1. PICK v \in Workers :
              /\ AppendServer(v)
              /\ req[v] # None /\ req[v].op = "register_server"
              /\ heap'[serverlist'[i]].ip = req[v].ip
              /\ heap'[serverlist'[i]].port = req[v].port
        BY <1>1, <3>2, HNextNext, NewEntries
      <4>2. v # w
        BY <2>1, <2>5, <4>1 DEF AppendServer, Return, Goto
      <4>3. ~IsEndpoint(req[w], req[v])
        BY <2>2, <3>1, <4>1, <4>2 DEF Clear, Conflict
      <4> QED BY <2>1, <4>1, <4>3 DEF IsEndpoint
    <3> QED BY <2>1, <2>2, <2>3, <2>5, <3>2 DEF Looked
  <2> QED BY <2>1, <2>4, <2>5 DEF Looked
<1> QED BY <1>2, <1>3, <1>4, WhoMoves

\* Who has no entry to stamp counts no delay, whatever happens.
LEMMA NoDelayStep ==
  ASSUME RInv, NoDelay, Next
  PROVE  NoDelay'
<1>0. /\ pc \in [Workers -> Labels] /\ delay \in [Workers -> Ages]
  BY DEF RInv, Inv, TypeOK
<1>1. CASE Tick
  <2>1. pc' = pc /\ \A w \in Workers : pc[w] \notin {"stamp", "beat"} => delay'[w] = 0
    BY <1>1 DEF Tick
  <2> QED BY <2>1 DEF NoDelay
<1>2. CASE Sweep
  BY <1>2, OtherThread, OtherDelay DEF NoDelay
<1>3. ASSUME NEW v \in Workers, Thread(v)
      PROVE  NoDelay'
  <2>1. \A w \in Workers \ {v} : pc'[w] = pc[w] /\ delay'[w] = delay[w]
    BY <1>3, OtherThread, OtherDelay
  <2>2. ASSUME pc'[v] \notin {"stamp", "beat"}
        PROVE  delay'[v] = 0
    <3>1. CASE \E status, objects, list : Return(v, status, objects, list)
      BY <1>0, <3>1 DEF Return
    <3>2. CASE Beat(v)
      BY <1>0, <3>2 DEF Beat
    <3>3. CASE \/ Call(v) \/ Skip(v) \/ Exists(v) \/ Build(v) \/ Unregister(v) \/ Take(v)
               \/ Copy(v) \/ AppendListing(v)
      <4>1. pc[v] \notin {"stamp", "beat"} /\ delay' = delay
        BY <3>3 DEF Call, Skip, Exists, Build, Unregister, Take, Copy, AppendListing
      <4> QED BY <4>1 DEF NoDelay
    <3>4. ~Assign(v) /\ ~Find(v)
      BY <1>0, <2>2 DEF Assign, Find, Goto
    <3> QED BY <1>3, <3>1, <3>2, <3>3, <3>4
            DEF Thread, WorkerStep, ProbeFails, AppendServer, Stamp, UpdateMissed, EndOfLoop,
                SendList
  <2> QED BY <2>1, <2>2 DEF NoDelay
<1> QED BY <1>1, <1>2, <1>3 DEF Next, Thread

LEMMA AgeFacts ==
  /\ \A age \in Ages : age \in Nat /\ Older(age) \in Ages
  /\ \A a, b \in Ages : a <= b => Older(a) <= Older(b)
  BY PeriodAssumption DEF Ages, Older

\* While a heartbeat is under way, its time passes with the clock.
LEMMA ElapsedFacts ==
  ASSUME HInv, HNext, NEW w \in Workers, {pc[w], pc'[w]} \subseteq {"heartbeat", "beat"}
  PROVE  \/ /\ (\E v \in Workers : Thread(v)) \/ Sweep
            /\ elapsed'[w] = elapsed[w]
         \/ /\ Tick
            /\ elapsed'[w] = Older(elapsed[w])
  BY DEF HNext, Timed, Thread

\* A heartbeat loop is begun by a call only.
LEMMA HeartbeatMoves ==
  ASSUME RInv, NEW w \in Workers, WorkerStep(w), pc'[w] \in {"heartbeat", "beat"}
  PROVE  \/ Find(w) /\ pc'[w] = "beat"
         \/ (Beat(w) \/ (Skip(w) /\ pc[w] = "heartbeat")) /\ pc'[w] = "heartbeat"
<1>0. pc \in [Workers -> Labels]
  BY DEF RInv, Inv, TypeOK
<1> QED BY <1>0 DEF WorkerStep, Skip, Exists, Build, ProbeFails, AppendServer, Assign,
         Stamp, UpdateMissed, Find, Beat, Unregister, EndOfLoop, Take, Copy, AppendListing,
         SendList, Return, Goto

LEMMA PromptStep ==
  ASSUME HInv, RInv', HNext, NEW w \in Workers, Undisturbed(w)'
  PROVE  Prompt(w)'
<1> USE HFacts
<1> SUFFICES ASSUME pc'[w] \in {"heartbeat", "beat"}, NEW v \in Workers,
                    pc'[v] \in {"stamp", "beat"}, IsEndpoint(req'[v], req'[w])
             PROVE  delay'[v] <= elapsed'[w]
  BY DEF Prompt
<1>1. (pc[w] # "idle" => Undisturbed(w)) /\ ~Outdates(v, w)
  BY WatchFacts
<1>2. CASE Call(w)
  <2>1. pc[w] = "idle" /\ pc'[w] = "heartbeat" /\ v # w
    BY <1>2, CallFacts DEF Call
  <2>2. pc'[v] = pc[v] /\ req'[v] = req[v]
    BY <1>2, <2>1, OtherThread DEF Thread
  <2> QED BY <1>1, <2>1, <2>2 DEF Outdates
<1>3. CASE ~Call(w)
  <2>1. pc[w] \in {"heartbeat", "beat"} /\ req'[w] = req[w]
    <3>1. CASE WorkerStep(w)
      <4>1. pc[w] \in {"heartbeat", "beat"}
        BY <3>1, HeartbeatMoves DEF Find, Beat
      <4> QED BY <3>1, <4>1, OwnThread
    <3>2. CASE Others(w)
      BY <3>2, OtherThread DEF Others
    <3> QED BY <1>3, <3>1, <3>2, WhoMoves
  <2>2. Prompt(w) /\ elapsed[w] \in Ages /\ delay[v] \in Ages
    BY <1>1, <2>1
  <2>3. CASE Tick /\ elapsed'[w] = Older(elapsed[w])
    <3>1. pc'[v] = pc[v] /\ req'[v] = req[v] /\ delay'[v] = Older(delay[v])
      BY <2>3 DEF Tick
    <3>2. delay[v] <= elapsed[w]
      BY <2>1, <2>2, <3>1 DEF Prompt
    <3> QED BY <2>2, <2>3, <3>1, <3>2, AgeFacts
  <2>4. CASE Thread(v) /\ elapsed'[w] = elapsed[w]
    <3>1. Assign(v) \/ Find(v)
      <4>1. ~Call(v)
        BY CallFacts
      <4>2. WorkerStep(v)
        BY <2>4, <4>1 DEF Thread
      <4> QED BY <4>2 DEF WorkerStep, Skip, Exists, Build, ProbeFails, AppendServer, Assign,
         Stamp, UpdateMissed, Find, Beat, Unregister, EndOfLoop, Take, Copy, AppendListing,
         SendList, Return, Goto
    <3>2. pc[v] \notin {"stamp", "beat"} /\ delay' = delay
      BY <3>1 DEF Assign, Find
    <3>3. delay'[v] = 0
      BY <3>2 DEF NoDelay
    <3> QED BY <2>2, <2>4, <3>3, AgeFacts
  <2>5. CASE /\ Sweep \/ \E u \in Workers \ {v} : Thread(u)
             /\ elapsed'[w] = elapsed[w]
    <3>1. pc'[v] = pc[v] /\ req'[v] = req[v] /\ delay'[v] = delay[v]
      BY <2>5, OtherThread, OtherDelay
    <3> QED BY <2>1, <2>2, <2>5, <3>1 DEF Prompt
  <2> QED BY <2>1, <2>3, <2>4, <2>5, ElapsedFacts
<1> QED BY <1>2, <1>3

\* An entry that is not older than the heartbeat does not become so.
LEMMA StillRenewed ==
  ASSUME HInv, NEW w \in Workers, Undisturbed(w), pc[w] \in {"heartbeat", "beat"},
         Younger, NEW o \in Objs, heap[o] # None, heap'[o] # None,
         IsEndpoint(heap[o], req[w]), heap[o].age <= elapsed[w]
  PROVE  heap'[o].age <= elapsed[w]
<1>1. CASE heap'[o].age = heap[o].age
  BY <1>1
<1>2. ASSUME NEW v \in Workers, StampedBy(o, v)
      PROVE  heap'[o].age <= elapsed[w]
  <2>1. IsEndpoint(heap[o], req[v])
    BY <1>2, HFacts DEF StampedBy, RInv, OwnInHand
  <2>2. delay[v] <= elapsed[w]
    BY <1>2, <2>1, HFacts DEF StampedBy, Prompt, IsEndpoint
  <2> QED BY <1>2, <2>2, HFacts, AgeFacts DEF StampedBy
<1> QED BY <1>1, <1>2 DEF Younger

\* What a heartbeat stamps gets a time of its own.
LEMMA BeatStamps ==
  ASSUME RInv, NEW w \in Workers, Beat(w), heap'[server[w]] # None
  PROVE  heap'[server[w]].age \in 0 .. delay[w]
<1>1. PICK age \in 0 .. delay[w] :
        heap' = Reclaim(Stamped(w, age), References(serverlist, server', sweeper.server))
  BY DEF Beat
<1>2. Inv /\ pc[w] = "beat"
  BY DEF RInv, Beat
<1>3. /\ server[w] \in Objs /\ heap[server[w]] \in Server
      /\ Stamped(w, age) \in [Objs -> Server \cup {None}]
      /\ Stamped(w, age)[server[w]] = [heap[server[w]] EXCEPT !.age = age]
  BY <1>2, StampedFacts
<1>4. heap'[server[w]] = Stamped(w, age)[server[w]]
  BY <1>1, <1>3, ReclaimFacts
<1> QED BY <1>3, <1>4 DEF Server

LEMMA RenewedStep ==
  ASSUME HInv, RInv', HNext, NEW w \in Workers, Undisturbed(w)'
  PROVE  Renewed(w)'
<1> USE HFacts, NextListFacts
<1>1. ~(Len(serverlist') < Len(serverlist)) /\ (pc[w] # "idle" => Undisturbed(w))
  BY WatchFacts
<1>2. CASE Call(w)
  <2>1. at'[w] = 1 /\ pc'[w] # "beat"
    BY <1>2, CallFacts
  <2>2. \A i \in DOMAIN serverlist' : ~(i < 1)
    OBVIOUS
  <2> QED BY <2>1, <2>2 DEF Renewed
<1>3. at[w] \in Nat \ {0} /\ elapsed[w] \in Nat
  BY AgeFacts
<1>4. CASE WorkerStep(w)
  <2> SUFFICES ASSUME pc'[w] \in {"heartbeat", "beat"}
               PROVE  Renewed(w)'
    BY DEF Renewed
  <2>1. req'[w] = req[w] /\ serverlist' = serverlist /\ Undisturbed(w)
    BY <1>1, <1>4, OwnThread DEF Undisturbed
  <2>2. pc[w] \in {"heartbeat", "beat"} /\ ~Tick
    BY <1>4, HeartbeatMoves DEF Find, Beat, Skip, Tick, Goto, Advance
  <2>3. elapsed'[w] = elapsed[w]
    BY <2>2, ElapsedFacts
  <2>4. ASSUME NEW i \in 1 .. Len(serverlist), IsEndpoint(heap'[serverlist[i]], req[w])
        PROVE  /\ serverlist[i] \in Objs /\ heap[serverlist[i]] # None
               /\ heap'[serverlist[i]] # None /\ IsEndpoint(heap[serverlist[i]], req[w])
    BY <1>1, <2>1, <2>4, HNextNext, OldEntries, NoneAssumption DEF IsEndpoint
  <2>5. Younger
    BY <1>4, HNextNext, HeapMoves DEF Thread
  <2>6. CASE Find(w)
    <3>1. /\ heap' = heap /\ at'[w] = at[w] + 1 /\ pc[w] = "heartbeat" /\ pc'[w] = "beat"
          /\ at[w] <= Len(serverlist) /\ server'[w] = serverlist[at[w]]
      BY <2>6 DEF Find, Advance, Goto, Matches, HasNext, Current
    <3>2. InHand(w)'
      <4>1. at[w] \in 1 .. Len(serverlist) /\ at'[w] - 1 = at[w]
        BY <1>3, <3>1
      <4> QED BY <2>1, <3>1, <4>1 DEF InHand
    <3>3. ASSUME NEW i \in 1 .. Len(serverlist), i < at[w] + 1,
                 IsEndpoint(heap[serverlist[i]], req[w])
          PROVE  heap[serverlist[i]].age <= elapsed[w] \/ i = at[w]
      <4>1. i < at[w] \/ i = at[w]
        BY <1>3, <3>3
      <4> QED BY <2>1, <3>1, <3>3, <4>1 DEF Renewed
    <3> QED BY <1>3, <2>1, <2>3, <3>1, <3>2, <3>3 DEF Renewed
  <2>7. CASE Skip(w) /\ pc[w] = "heartbeat"
    <3>1. /\ heap' = heap /\ at'[w] = at[w] + 1 /\ pc'[w] = "heartbeat"
          /\ ~IsEndpoint(heap[serverlist[at[w]]], req[w])
      BY <2>7 DEF Skip, Advance, Matches, HasNext, Current
    <3>2. ASSUME NEW i \in 1 .. Len(serverlist), i < at[w] + 1,
                 IsEndpoint(heap[serverlist[i]], req[w])
          PROVE  heap[serverlist[i]].age <= elapsed[w]
      <4>1. i < at[w]
        <5>1. i # at[w]
          BY <3>1, <3>2
        <5> QED BY <1>3, <3>2, <5>1
      <4> QED BY <2>1, <2>7, <3>2, <4>1 DEF Renewed
    <3> QED BY <2>1, <2>3, <3>1, <3>2 DEF Renewed
  <2>8. CASE Beat(w)
    <3>1. at' = at /\ pc[w] = "beat" /\ pc'[w] = "heartbeat"
      BY <2>8 DEF Beat, Goto
    <3>2. server[w] = serverlist[at[w] - 1] /\ delay[w] <= elapsed[w] /\ delay[w] \in Nat
      BY <2>1, <3>1, AgeFacts DEF Renewed, InHand, Prompt, IsEndpoint
    <3>3. ASSUME NEW i \in 1 .. Len(serverlist), i < at[w],
                 IsEndpoint(heap'[serverlist[i]], req[w])
          PROVE  heap'[serverlist[i]].age <= elapsed[w]
      <4>1. CASE i = at[w] - 1
        BY <1>3, <2>4, <2>8, <3>2, <3>3, <4>1, BeatStamps
      <4>2. CASE i # at[w] - 1
        <5>1. heap[serverlist[i]].age <= elapsed[w]
          BY <2>1, <2>4, <3>1, <3>3, <4>2 DEF Renewed
        <5> QED BY <2>1, <2>2, <2>4, <2>5, <3>3, <5>1, StillRenewed
      <4> QED BY <4>1, <4>2
    <3> QED BY <2>1, <2>3, <3>1, <3>3 DEF Renewed
  <2> QED BY <1>4, <2>6, <2>7, <2>8, HeartbeatMoves
<1>5. CASE Others(w)
  <2>1. pc'[w] = pc[w] /\ req'[w] = req[w] /\ at'[w] = at[w] /\ server'[w] = server[w]
    BY <1>5, OtherThread DEF Others
  <2>2. Undisturbed(w)
    BY <1>1, <2>1 DEF Undisturbed
  <2> SUFFICES ASSUME pc[w] \in {"heartbeat", "beat"}
               PROVE  Renewed(w)'
    BY <2>1 DEF Renewed
  <2>3. pc[w] = "beat" => InHand(w)'
    BY <1>1, <2>1, <2>2, HNextNext, OldEntries DEF Renewed, InHand
  <2>4. ASSUME NEW i \in 1 .. Len(serverlist'), i < at[w],
               IsEndpoint(heap'[serverlist'[i]], req[w]), ~(pc[w] = "beat" /\ i = at[w] - 1)
        PROVE  heap'[serverlist'[i]].age <= elapsed'[w]
    <3>1. i \in 1 .. Len(serverlist)
      BY <2>2, <2>4 DEF Within
    <3>2. /\ serverlist'[i] = serverlist[i]
          /\ serverlist[i] \in Objs /\ heap[serverlist[i]] \in Server
          /\ IsEndpoint(heap[serverlist[i]], req[w])
          /\ heap[serverlist[i]] # None /\ heap'[serverlist[i]] # None
      BY <1>1, <2>4, <3>1, HNextNext, OldEntries, NoneAssumption DEF IsEndpoint
    <3>3. heap[serverlist[i]].age <= elapsed[w] /\ heap[serverlist[i]].age \in Ages
      BY <2>2, <2>4, <3>1, <3>2 DEF Renewed, Server
    <3>4. CASE Tick /\ elapsed'[w] = Older(elapsed[w])
      <4>1. heap'[serverlist[i]] = [heap[serverlist[i]] EXCEPT !.age = Older(@)]
        BY <3>2, <3>4 DEF Tick
      <4>2. heap'[serverlist[i]].age = Older(heap[serverlist[i]].age)
        BY <3>2, <4>1 DEF Server
      <4> QED BY <3>2, <3>3, <3>4, <4>2, AgeFacts
    <3>5. CASE ((\E v \in Workers : Thread(v)) \/ Sweep) /\ elapsed'[w] = elapsed[w]
      <4>1. Younger
        BY <3>5, HNextNext, HeapMoves
      <4> QED BY <2>2, <3>2, <3>3, <3>5, <4>1, StillRenewed
    <3> QED BY <2>1, <3>4, <3>5, ElapsedFacts
  <2> QED BY <2>1, <2>3, <2>4 DEF Renewed
<1> QED BY <1>2, <1>4, <1>5, WhoMoves

\* Nobody else touches the shared list while an undisturbed listing is under way.
LEMMA ReturnlistKept ==
  ASSUME HInv, RInv', HNext, NEW w \in Workers, Undisturbed(w)', Undisturbed(w),
         Others(w), pc[w] \in {"list", "copy", "append"}
  PROVE  returnlist' = returnlist
<1> USE HFacts
<1>1. req[w] # None /\ req[w].op = "get_serverlist" /\ req'[w] = req[w]
  BY Serves, OtherThread DEF Inv, Consistent, Others
<1>2. \A v \in Workers \ {w} : ~Conflict(req[w], req[v]) /\ ~Conflict(req'[w], req'[v])
  BY WatchFacts DEF Clear
<1>3. ASSUME NEW v \in Workers \ {w}, Call(v)
      PROVE  returnlist' = returnlist
  <2>1. PICK r \in Requests : req' = [req EXCEPT ![v] = r] /\ returnlist' = ResetList(r)
    BY <1>3 DEF Call
  <2>2. req'[v] = r /\ r # None
    BY <2>1, RequestAssumption
  <2>3. r.op # "get_serverlist"
    BY <1>1, <1>2, <2>2 DEF Conflict
  <2> QED BY <2>1, <2>3 DEF ResetList
<1>4. ASSUME NEW v \in Workers \ {w}, WorkerStep(v)
      PROVE  returnlist' = returnlist
  <2>1. ~AppendListing(v)
    <3>1. AppendListing(v) => req[v] # None /\ req[v].op = "get_serverlist"
      BY Serves DEF AppendListing, Inv, Consistent
    <3> QED BY <1>1, <1>2, <3>1 DEF Conflict
  <2> QED BY <1>4, <2>1 DEF WorkerStep, Skip, Exists, Build, ProbeFails, AppendServer, Assign,
         Stamp, UpdateMissed, Find, Beat, Unregister, EndOfLoop, Take, Copy, SendList
<1>5. CASE Sweep \/ Tick
  BY <1>5 DEF Sweep, SweepVisit, SweepRemove, SweepRead, SweepCompare, SweepDelete,
       ReadSlot, RaiseValueError, DeleteSlot, SweepSleep, SweepWake, Tick
<1> QED BY <1>3, <1>4, <1>5 DEF Others, Thread

LEMMA CopiedStep ==
  ASSUME HInv, RInv', HNext, NEW w \in Workers, Undisturbed(w)'
  PROVE  Copied(w)'
<1> USE HFacts, NextListFacts
<1>1. ~(Len(serverlist') < Len(serverlist)) /\ (pc[w] # "idle" => Undisturbed(w))
  BY WatchFacts
<1>2. at[w] \in Nat \ {0}
  OBVIOUS
<1>3. \A i \in 1 .. Len(serverlist) : \A r :
        IsEndpoint(heap'[serverlist'[i]], r) <=> IsEndpoint(heap[serverlist[i]], r)
  BY <1>1, HNextNext, OldEntries DEF IsEndpoint
<1>4. CASE Call(w)
  <2>1. at'[w] = 1 /\ pc'[w] \notin {"copy", "append"} /\ (pc'[w] = "list" => returnlist' = <<>>)
    BY <1>4, CallFacts
  <2> QED BY <2>1 DEF Copied
<1>5. CASE WorkerStep(w)
  <2> SUFFICES ASSUME pc'[w] \in {"list", "copy", "append"}
               PROVE  Copied(w)'
    BY DEF Copied
  <2>1. req'[w] = req[w] /\ serverlist' = serverlist /\ Undisturbed(w)
    BY <1>1, <1>5, OwnThread DEF Undisturbed
  <2>2. Take(w) \/ Copy(w) \/ AppendListing(w)
    BY <1>5 DEF WorkerStep, Skip, Exists, Build, ProbeFails, AppendServer, Assign,
         Stamp, UpdateMissed, Find, Beat, Unregister, EndOfLoop, Take, Copy, AppendListing,
         SendList, Return, Goto
  <2>3. CASE Take(w)
    <3>1. /\ pc[w] = "list" /\ pc'[w] = "copy" /\ at'[w] = at[w] + 1
          /\ at[w] <= Len(serverlist) /\ server'[w] = serverlist[at[w]]
          /\ returnlist' = returnlist
      BY <2>3 DEF Take, Goto, Advance, HasNext, Current
    <3>2. /\ Len(returnlist) = at[w] - 1
          /\ \A i \in 1 .. Len(returnlist) : i \in DOMAIN serverlist
                                               => IsEndpoint(heap[serverlist[i]], returnlist[i])
      BY <2>1, <3>1 DEF Copied
    <3>3. /\ Len(returnlist') = at'[w] - 2 /\ at'[w] - 1 = at[w] /\ at[w] \in 1 .. Len(serverlist)
      BY <1>2, <3>1, <3>2
    <3> QED BY <1>3, <2>1, <3>1, <3>2, <3>3 DEF Copied, InHand
  <2>4. CASE Copy(w)
    <3>1. /\ pc[w] = "copy" /\ pc'[w] = "append" /\ at' = at
          /\ returnlist' = returnlist /\ jsonstring'[w] = Listing(heap[server[w]])
      BY <2>4 DEF Copy, Goto
    <3>2. /\ Len(returnlist) = at[w] - 2 /\ InHand(w)
          /\ \A i \in 1 .. Len(returnlist) : i \in DOMAIN serverlist
                                               => IsEndpoint(heap[serverlist[i]], returnlist[i])
      BY <2>1, <3>1 DEF Copied
    <3>3. IsEndpoint(heap[serverlist[at[w] - 1]], jsonstring'[w])
      BY <3>1, <3>2 DEF InHand, IsEndpoint, Listing
    <3> QED BY <1>3, <2>1, <3>1, <3>2, <3>3 DEF Copied, InHand
  <2>5. CASE AppendListing(w)
    <3>1. /\ pc[w] = "append" /\ pc'[w] = "list" /\ at' = at
          /\ returnlist' = Append(returnlist, jsonstring[w])
      BY <2>5 DEF AppendListing, Goto
    <3>2. /\ Len(returnlist) = at[w] - 2 /\ at[w] - 1 \in DOMAIN serverlist
          /\ IsEndpoint(heap[serverlist[at[w] - 1]], jsonstring[w])
          /\ \A i \in 1 .. Len(returnlist) : i \in DOMAIN serverlist
                                               => IsEndpoint(heap[serverlist[i]], returnlist[i])
      BY <2>1, <3>1 DEF Copied
    <3>3. jsonstring[w] \in Listings
      BY <3>1 DEF Inv, Consistent
    <3>4. /\ Len(returnlist') = Len(returnlist) + 1
          /\ returnlist'[Len(returnlist) + 1] = jsonstring[w]
          /\ \A i \in 1 .. Len(returnlist) : returnlist'[i] = returnlist[i]
      BY <3>1, <3>3, AppendFacts
    <3>5. Len(returnlist) + 1 = at[w] - 1
      BY <1>2, <3>2
    <3>6. \A i \in 1 .. Len(returnlist') : i \in DOMAIN serverlist
                                             => IsEndpoint(heap[serverlist[i]], returnlist'[i])
      <4> SUFFICES ASSUME NEW i \in 1 .. Len(returnlist'), i \in DOMAIN serverlist
                   PROVE  IsEndpoint(heap[serverlist[i]], returnlist'[i])
        OBVIOUS
      <4>1. i \in 1 .. Len(returnlist) \/ i = Len(returnlist) + 1
        BY <3>4
      <4> QED BY <3>2, <3>4, <3>5, <4>1
    <3> QED BY <1>3, <2>1, <3>1, <3>4, <3>5, <3>6 DEF Copied
  <2> QED BY <2>2, <2>3, <2>4, <2>5
<1>6. CASE Others(w)
  <2>1. /\ pc'[w] = pc[w] /\ req'[w] = req[w] /\ at'[w] = at[w] /\ server'[w] = server[w]
        /\ jsonstring'[w] = jsonstring[w]
    BY <1>6, OtherThread DEF Others
  <2>2. Undisturbed(w)
    BY <1>1, <2>1 DEF Undisturbed
  <2> SUFFICES ASSUME pc[w] \in {"list", "copy", "append"}
               PROVE  Copied(w)'
    BY <2>1 DEF Copied
  <2>3. returnlist' = returnlist
    BY <1>6, <2>2, ReturnlistKept
  <2>4. /\ pc[w] = "list" => Len(returnlist) = at[w] - 1
        /\ pc[w] \in {"copy", "append"} => /\ Len(returnlist) = at[w] - 2
                                           /\ at[w] - 1 \in 1 .. Len(serverlist)
        /\ pc[w] = "copy" => server[w] = serverlist[at[w] - 1]
        /\ pc[w] = "append" => IsEndpoint(heap[serverlist[at[w] - 1]], jsonstring[w])
        /\ \A i \in 1 .. Len(returnlist) : i \in 1 .. Len(serverlist)
                                             => IsEndpoint(heap[serverlist[i]], returnlist[i])
        /\ at[w] <= Len(serverlist) + 1
    BY <2>2 DEF Copied, Within, InHand
  <2>5. \A i \in 1 .. Len(returnlist) : i \in 1 .. Len(serverlist)
    BY <1>2, <2>4
  <2>6. \A i \in 1 .. Len(returnlist) : IsEndpoint(heap'[serverlist'[i]], returnlist[i])
    BY <1>3, <2>4, <2>5
  <2>7. pc[w] \in {"copy", "append"} => /\ at[w] - 1 \in 1 .. Len(serverlist')
                                       /\ serverlist'[at[w] - 1] = serverlist[at[w] - 1]
    BY <1>1, <2>4, HNextNext, OldEntries
  <2>8. pc[w] = "append" => IsEndpoint(heap'[serverlist'[at[w] - 1]], jsonstring[w])
    BY <1>3, <2>4
  <2> QED BY <2>1, <2>3, <2>4, <2>6, <2>7, <2>8 DEF Copied, InHand
<1> QED BY <1>4, <1>5, <1>6, WhoMoves

-----------------------------------------------------------------------------
(* What list.remove has seen *)

\* While names stay, no entry that list.remove has passed is a namesake of the one
\* to remove, and what it has read is still so.
Scanned ==
  sweeper.pc \in Removing /\ ~renamed =>
    /\ \A j \in 1 .. sweeper.scan - 1 :
         Key(heap[serverlist[j]]) # Key(heap[sweeper.server])
    /\ sweeper.pc = "compare" => sweeper.seen = Key(heap[serverlist[sweeper.scan]])
    /\ sweeper.pc = "delete" =>
         Key(heap[serverlist[sweeper.scan]]) = Key(heap[sweeper.server])

\* A step of another thread, or of the clock, leaves the sweeper where it is.
LEMMA SweeperUnmoved ==
  ASSUME Next, ~Sweep
  PROVE  sweeper' = sweeper
  BY DEF Next, Tick, Call, WorkerStep, Skip, Exists, Build, ProbeFails, AppendServer, Assign,
         Stamp, UpdateMissed, Find, Beat, Unregister, EndOfLoop, Take, Copy, AppendListing,
         SendList

LEMMA ScannedStep ==
  ASSUME RInv, RInv', Scanned, HNext
  PROVE  Scanned'
<1> SUFFICES ASSUME sweeper'.pc \in Removing, ~renamed'
             PROVE  Scanned'
  BY DEF Scanned
<1>1. Next /\ ~renamed /\ ~Renaming
  BY HNextNext DEF HNext, WatchNames
<1>2. /\ sweeper \in Sweepers /\ serverlist \in Seq(Objs)
      /\ sweeper.scan \in Nat \ {0} /\ Len(serverlist) \in Nat
  BY DEF RInv, Inv, TypeOK, Sweepers
<1>3. ~Deleting /\ ~SweepSleep /\ ~SweepWake
  <2>1. ~Deleting
    BY DeleteFacts DEF RInv, Deleting, Removing
  <2>2. ~SweepSleep /\ ~SweepWake
    BY <1>2 DEF SweepSleep, SweepWake, Sweepers, Removing
  <2> QED BY <2>1, <2>2
<1>4. CASE Sweep
  <2>1. SweepVisit \/ Scanning
    BY <1>3, <1>4 DEF Sweep, SweepRemove, Scanning, Deleting
  <2>2. CASE SweepVisit
    <3>1. sweeper.pc = "next" /\ heap' = heap
      BY <2>2 DEF SweepVisit
    <3>2. sweeper'.pc = "remove" /\ sweeper'.scan = 1
      BY <1>2, <2>2, <3>1 DEF SweepVisit, Sweepers, Removing
    <3> QED BY <3>2 DEF Scanned
  <2>3. CASE SweepRead /\ serverlist[sweeper.scan] # sweeper.server
    <3>1. /\ sweeper.pc = "remove" /\ UNCHANGED <<heap, serverlist>>
          /\ sweeper' = [pc |-> "compare", at |-> sweeper.at, server |-> sweeper.server,
                         scan |-> sweeper.scan, seen |-> Key(heap[serverlist[sweeper.scan]])]
      BY <2>3, SweepReadInside DEF RInv, SweepRead, ReadSlot
    <3> QED BY <1>1, <3>1 DEF Scanned, Removing
  <2>4. CASE SweepCompare
    <3>1. sweeper.pc = "compare" /\ UNCHANGED <<heap, serverlist>>
      BY <2>4 DEF SweepCompare
    <3>2. /\ \A j \in 1 .. sweeper.scan - 1 :
                Key(heap[serverlist[j]]) # Key(heap[sweeper.server])
          /\ sweeper.seen = Key(heap[serverlist[sweeper.scan]])
      BY <1>1, <3>1 DEF Scanned, Removing
    <3>3. CASE sweeper.seen = Key(heap[sweeper.server])
      <4>1. sweeper' = [pc |-> "delete", at |-> sweeper.at, server |-> sweeper.server,
                        scan |-> sweeper.scan, seen |-> None]
        BY <2>4, <3>3 DEF SweepCompare
      <4> QED BY <3>1, <3>2, <3>3, <4>1 DEF Scanned
    <3>4. CASE sweeper.seen # Key(heap[sweeper.server])
      <4>1. sweeper' = [pc |-> "remove", at |-> sweeper.at, server |-> sweeper.server,
                        scan |-> sweeper.scan + 1, seen |-> None]
        BY <2>4, <3>4 DEF SweepCompare
      <4>2. \A j \in 1 .. sweeper.scan :
              Key(heap[serverlist[j]]) # Key(heap[sweeper.server])
        <5>1. \A j \in 1 .. sweeper.scan : j \in 1 .. sweeper.scan - 1 \/ j = sweeper.scan
          BY <1>2
        <5> QED BY <3>2, <3>4, <5>1
      <4>3. sweeper'.scan - 1 = sweeper.scan /\ sweeper'.server = sweeper.server
        BY <1>2, <4>1
      <4> QED BY <3>1, <4>1, <4>2, <4>3 DEF Scanned
    <3> QED BY <3>3, <3>4
  <2> QED BY <2>1, <2>2, <2>3, <2>4 DEF Scanning
<1>5. CASE ~Sweep
  <2>1. sweeper' = sweeper /\ ~(Len(serverlist') < Len(serverlist))
    <3>1. ~(Deleting /\ Len(serverlist') < Len(serverlist))
      BY <1>3
    <3>2. ASSUME NEW v \in Workers, AppendServer(v)
          PROVE  ~(Len(serverlist') < Len(serverlist))
      <4>1. serverlist' = Append(serverlist, server[v]) /\ server[v] \in Objs
        BY <3>2 DEF AppendServer, RInv, Inv, TypeOK, Consistent
      <4> QED BY <1>2, <4>1, AppendFacts
    <3> QED BY <1>1, <1>2, <1>5, <3>1, <3>2, ListMoves, SweeperUnmoved
  <2>2. ASSUME NEW k \in 1 .. Len(serverlist)
        PROVE  serverlist'[k] = serverlist[k] /\ Key(heap'[serverlist[k]]) = Key(heap[serverlist[k]])
    <3>1. /\ serverlist'[k] = serverlist[k] /\ serverlist[k] \in Objs
          /\ heap[serverlist[k]] # None /\ heap'[serverlist[k]] # None
          /\ heap'[serverlist[k]].port = heap[serverlist[k]].port
      BY <1>1, <2>1, OldEntries, NoneAssumption
    <3>2. heap'[serverlist[k]].name = heap[serverlist[k]].name
      BY <1>1, <3>1 DEF Renaming
    <3> QED BY <3>1, <3>2 DEF Key
  <2>3. PICK i \in 1 .. Len(serverlist) : serverlist[i] = sweeper.server /\ sweeper.scan <= i
    BY <1>2, <2>1 DEF RInv, Inv, VictimListed
  <2>4. /\ Key(heap'[sweeper.server]) = Key(heap[sweeper.server])
        /\ sweeper.scan \in 1 .. Len(serverlist)
        /\ \A j \in 1 .. sweeper.scan - 1 : j \in 1 .. Len(serverlist)
    BY <1>2, <2>2, <2>3
  <2>5. /\ \A j \in 1 .. sweeper.scan - 1 :
               Key(heap'[serverlist'[j]]) # Key(heap'[sweeper.server])
        /\ sweeper.pc = "compare" => sweeper.seen = Key(heap'[serverlist'[sweeper.scan]])
        /\ sweeper.pc = "delete" =>
               Key(heap'[serverlist'[sweeper.scan]]) = Key(heap'[sweeper.server])
    BY <1>1, <2>1, <2>2, <2>4 DEF Scanned
  <2> QED BY <2>1, <2>5 DEF Scanned
<1> QED BY <1>4, <1>5

-----------------------------------------------------------------------------
(* Theorems *)

LEMMA HInitInv == HInit => HInv
<1> SUFFICES ASSUME HInit
             PROVE  HInv
  OBVIOUS
<1>1. RInv
  BY InitRInv DEF HInit
<1>2. HTypeOK
  <2>1. 0 \in Ages
    BY PeriodAssumption DEF Ages
  <2> QED BY <1>1, <2>1 DEF RInv, Inv, HTypeOK, HInit
<1>3. AtStart /\ NoDelay /\ \A w \in Workers : ~Undisturbed(w)
  BY DEF HInit, Init, AtStart, NoDelay, Undisturbed
<1> QED BY <1>1, <1>2, <1>3 DEF HInv

LEMMA HNextInv == HInv /\ [HNext]_hvars => HInv'
<1> SUFFICES ASSUME HInv, [HNext]_hvars
             PROVE  HInv'
  OBVIOUS
<1>1. CASE UNCHANGED hvars
  <2>1. UNCHANGED vars /\ disturbed' = disturbed /\ elapsed' = elapsed /\ renamed' = renamed
    BY <1>1 DEF hvars
  <2>2. RInv'
    BY <2>1, NextRInv DEF HInv
  <2>3. HTypeOK' /\ AtStart' /\ NoDelay'
    BY <2>1 DEF vars, HInv, HTypeOK, TypeOK, AtStart, NoDelay
  <2>4. ASSUME NEW w \in Workers, Undisturbed(w)'
        PROVE  Clear(w)' /\ Within(w)' /\ Looked(w)' /\ Renewed(w)' /\ Prompt(w)' /\ Copied(w)'
    <3>1. Clear(w) /\ Within(w) /\ Looked(w) /\ Renewed(w) /\ Prompt(w) /\ Copied(w)
      BY <2>1, <2>4 DEF vars, HInv, Undisturbed
    <3> QED BY <2>1, <3>1 DEF vars, Clear, Conflict, Within, Looked, Renewed, Prompt, Copied,
            InHand, IsEndpoint
  <2> QED BY <2>2, <2>3, <2>4 DEF HInv
<1>2. CASE HNext
  <2>1. RInv'
    BY <1>2, HNextNext, NextRInv DEF HInv
  <2>2. AtStart' /\ NoDelay'
    BY <1>2, HNextNext, AtStartStep, NoDelayStep DEF HInv
  <2>3. HTypeOK'
    <3>1. disturbed' \in [Workers -> BOOLEAN]
      BY <1>2 DEF HNext, Watch
    <3>2. 0 \in Ages /\ \A age \in Ages : Older(age) \in Ages
      BY PeriodAssumption DEF Ages, Older
    <3>3. elapsed' \in [Workers -> Ages]
      <4>1. elapsed \in [Workers -> Ages]
        BY DEF HInv, HTypeOK
      <4>2. CASE elapsed' = [w \in Workers |-> IF Timed(w) THEN elapsed[w] ELSE 0]
        BY <3>2, <4>1, <4>2
      <4>3. CASE elapsed' = [w \in Workers |-> IF Timed(w) THEN Older(elapsed[w]) ELSE 0]
        BY <3>2, <4>1, <4>3
      <4> QED BY <1>2, <4>2, <4>3 DEF HNext
    <3>4. renamed' \in BOOLEAN
      BY <1>2 DEF HNext, WatchNames
    <3>5. TypeOK'
      BY <2>1 DEF RInv, Inv
    <3> QED BY <3>1, <3>3, <3>4, <3>5 DEF HTypeOK
  <2>4. \A w \in Workers : Undisturbed(w)' =>
          Clear(w)' /\ Within(w)' /\ Looked(w)' /\ Renewed(w)' /\ Prompt(w)' /\ Copied(w)'
    BY <1>2, <2>1, WatchFacts, WithinStep, LookedStep, RenewedStep, PromptStep, CopiedStep
  <2> QED BY <2>1, <2>2, <2>3, <2>4 DEF HInv
<1> QED BY <1>1, <1>2

\* The invariant of the calls holds in every state.
THEOREM HistoryInvariance == HSpec => []HInv
<1> QED BY HInitInv, HNextInv, PTL DEF HSpec

\* The server and its history are well-typed in every state.
THEOREM HistoryTypeCorrect == HSpec => []HTypeOK
<1>1. HInv => HTypeOK
  BY DEF HInv
<1> QED BY <1>1, HistoryInvariance, PTL

\* While an undisturbed registration probes, its endpoint is not on the list.
THEOREM AlwaysRegistersOnce == HSpec => []RegistersOnce
<1>1. HInv => RegistersOnce
  BY DEF HInv, RegistersOnce, Undisturbed, Looked, Listed
<1> QED BY <1>1, HistoryInvariance, PTL

\* When the loop of an undisturbed heartbeat ends, no entry of the caller is older
\* than the call.
THEOREM HeartbeatAlwaysReachesAll == HSpec => []HeartbeatReachesAll
<1>1. HInv => HeartbeatReachesAll
  <2> SUFFICES ASSUME HInv, NEW w \in Workers,
                      pc[w] = "heartbeat", ~HasNext(w), ~disturbed[w],
                      NEW i \in DOMAIN serverlist, IsEndpoint(heap[serverlist[i]], req[w])
               PROVE  heap[serverlist[i]].age <= elapsed[w]
    BY DEF HeartbeatReachesAll
  <2>1. i < at[w]
    BY HFacts DEF HasNext
  <2> QED BY <2>1 DEF HInv, Undisturbed, Renewed
<1> QED BY <1>1, HistoryInvariance, PTL

\* What an undisturbed listing answers is the list as it is then.
THEOREM ListingAlwaysExact == HSpec => []ListingExact
<1>1. HInv => ListingExact
  <2> SUFFICES ASSUME HInv, NEW w \in Workers,
                      pc[w] = "list", ~HasNext(w), ~disturbed[w]
               PROVE  /\ Len(returnlist) = Len(serverlist)
                      /\ \A i \in DOMAIN serverlist :
                           IsEndpoint(heap[serverlist[i]], returnlist[i])
    BY DEF ListingExact
  <2>1. Within(w) /\ Copied(w)
    BY DEF HInv, Undisturbed
  <2>2. at[w] = Len(serverlist) + 1
    BY <2>1, HFacts DEF Within, HasNext
  <2>3. Len(returnlist) = Len(serverlist)
    BY <2>1, <2>2, HFacts DEF Copied
  <2> QED BY <2>1, <2>3, HFacts DEF Copied
<1> QED BY <1>1, HistoryInvariance, PTL

\* While names stay as they are, what list.remove takes out is the first namesake of
\* the entry that the sweeper has condemned.
THEOREM AlwaysRemovesNamesake == HSpec => RemovesNamesake
<1>1. HInit => HInv /\ Scanned
  <2>1. HInit => Scanned
    BY DEF HInit, Init, Scanned, Removing
  <2> QED BY <2>1, HInitInv
<1>2. HInv /\ Scanned /\ [HNext]_hvars => (HInv /\ Scanned)'
  <2>1. ASSUME Scanned, UNCHANGED hvars
        PROVE  Scanned'
    BY <2>1 DEF hvars, vars, Scanned
  <2>2. ASSUME HInv, HInv', Scanned, HNext
        PROVE  Scanned'
    BY <2>2, ScannedStep DEF HInv
  <2> QED BY <2>1, <2>2, HNextInv
<1>3. ASSUME HInv, Scanned, [HNext]_hvars, Len(serverlist') < Len(serverlist), ~renamed
      PROVE  \E i \in DOMAIN serverlist :
               /\ Key(heap[serverlist[i]]) = Key(heap[sweeper.server])
               /\ \A j \in 1 .. i - 1 : Key(heap[serverlist[j]]) # Key(heap[sweeper.server])
               /\ serverlist' = RemoveAt(serverlist, i)
  <2>1. Inv /\ RInv /\ serverlist \in Seq(Objs) /\ Len(serverlist) \in Nat
    BY <1>3, HFacts
  <2>2. HNext
    BY <1>3, <2>1 DEF hvars, vars
  <2>3. Deleting
    <3>1. ASSUME NEW v \in Workers, AppendServer(v)
          PROVE  FALSE
      <4>1. serverlist' = Append(serverlist, server[v]) /\ server[v] \in Objs
        BY <2>1, <3>1 DEF AppendServer, Inv, TypeOK, Consistent
      <4> QED BY <1>3, <2>1, <4>1, AppendFacts
    <3> QED BY <1>3, <2>1, <2>2, <3>1, ListMoves, HNextNext
  <2>4. /\ sweeper.pc \in {"remove", "delete"} /\ sweeper.scan \in 1 .. Len(serverlist)
        /\ serverlist' = RemoveAt(serverlist, sweeper.scan)
    BY <2>1, <2>3, DeleteFacts DEF Deleting
  <2>5. Key(heap[serverlist[sweeper.scan]]) = Key(heap[sweeper.server])
    BY <1>3, <2>3, <2>4 DEF Deleting, Scanned, SweepDelete, Removing
  <2>6. \A j \in 1 .. sweeper.scan - 1 : Key(heap[serverlist[j]]) # Key(heap[sweeper.server])
    BY <1>3, <2>4 DEF Scanned, Removing
  <2> QED BY <2>1, <2>4, <2>5, <2>6
<1> QED BY <1>1, <1>2, <1>3, PTL DEF HSpec, RemovesNamesake
=============================================================================
