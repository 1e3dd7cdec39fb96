--------------------------- MODULE HostLeaseProofs ---------------------------
(***************************************************************************)
(* Proofs about hosts, network and server browser together, for any number *)
(* of hosts, ports, names, entries and requests on their way.              *)
(***************************************************************************)
EXTENDS HostLease, SequenceTheorems, TLAPS

-----------------------------------------------------------------------------
(* The browser *)

\* What removing one element leaves of a list: it is one shorter, and each
\* element left was on it.
LEMMA RemoveAtFacts ==
  ASSUME NEW S, NEW s \in Seq(S), NEW i \in 1 .. Len(s)
  PROVE  /\ RemoveAt(s, i) \in Seq(S)
         /\ Len(RemoveAt(s, i)) = Len(s) - 1
         /\ \A k \in 1 .. Len(s) - 1 :
              RemoveAt(s, i)[k] = IF k < i THEN s[k] ELSE s[k + 1]
<1> DEFINE l == SubSeq(s, 1, i - 1)
           r == SubSeq(s, i + 1, Len(s))
<1>1. /\ l \in Seq(S) /\ Len(l) = i - 1
      /\ \A k \in 1 .. i - 1 : l[k] = s[k]
  BY SubSeqProperties
<1>2. /\ r \in Seq(S) /\ Len(r) = Len(s) - i
      /\ \A k \in 1 .. Len(s) - i : r[k] = s[i + k]
  BY SubSeqProperties
<1>3. RemoveAt(s, i) = l \o r
  BY DEF RemoveAt
<1>4. /\ l \o r \in Seq(S)
      /\ Len(l \o r) = Len(l) + Len(r)
      /\ \A k \in 1 .. Len(l) + Len(r) :
           (l \o r)[k] = IF k <= Len(l) THEN l[k] ELSE r[k - Len(l)]
  BY <1>1, <1>2, ConcatProperties
<1> HIDE DEF l, r
<1>5. Len(s) \in Nat /\ Len(l) + Len(r) = Len(s) - 1
  BY <1>1, <1>2
<1>6. ASSUME NEW k \in 1 .. Len(s) - 1
      PROVE  (l \o r)[k] = IF k < i THEN s[k] ELSE s[k + 1]
  <2>1. CASE k < i
    BY <2>1, <1>1, <1>4, <1>5
  <2>2. CASE ~(k < i)
    <3>1. /\ k - Len(l) \in 1 .. Len(s) - i
          /\ i + (k - Len(l)) = k + 1
      BY <2>2, <1>1, <1>5
    <3> QED BY <2>2, <3>1, <1>1, <1>2, <1>4, <1>5
  <2> QED BY <2>1, <2>2
<1> QED BY <1>3, <1>4, <1>5, <1>6

\* An entry that is written in place stays in place.
LEMMA WriteFacts ==
  ASSUME BTypeOK, NEW i \in DOMAIN browser, NEW e \in Entry
  PROVE  /\ [browser EXCEPT ![i] = e] \in Seq(Entry)
         /\ Len([browser EXCEPT ![i] = e]) = Len(browser)
         /\ \A j \in DOMAIN [browser EXCEPT ![i] = e] :
              /\ j \in DOMAIN browser
              /\ [browser EXCEPT ![i] = e][j] = IF j = i THEN e ELSE browser[j]
<1>1. browser \in Seq(Entry) /\ i \in 1 .. Len(browser)
  BY LenProperties DEF BTypeOK
<1> QED BY <1>1, ExceptSeq, LenProperties

\* Serving a request writes only entries of the endpoint it came from, and ends or
\* stays as it was.
LEMMA ServeMoves ==
  ASSUME BTypeOK, NEW w \in Workers, Serve(w)
  PROVE  /\ browser' \in Seq(Entry)
         /\ Len(browser) <= Len(browser')
         /\ condemned' = condemned
         /\ pending[w] # None
         /\ pending' = pending \/ pending' = [pending EXCEPT ![w] = None]
         /\ \A i \in DOMAIN browser' :
              \/ i \in DOMAIN browser /\ browser'[i] = browser[i]
              \/ browser'[i].ip = pending[w].ip
<1>0. /\ browser \in Seq(Entry) /\ Len(browser) \in Nat /\ DOMAIN browser = 1 .. Len(browser)
      /\ pending \in [Workers -> Requests \cup {None}]
  BY LenProperties DEF BTypeOK
<1>1. CASE Enlist(w)
  <2>1. PICK age \in Ages :
          browser' = Append(browser, [ip |-> pending[w].ip, port |-> pending[w].port,
                                      name |-> pending[w].name, age |-> age])
    BY <1>1 DEF Enlist
  <2> DEFINE e == [ip |-> pending[w].ip, port |-> pending[w].port,
                   name |-> pending[w].name, age |-> age]
  <2>2. e \in Entry
    BY <1>0, <1>1 DEF Enlist, Serving, Requests, Entry
  <2>3. /\ Append(browser, e) \in Seq(Entry)
        /\ Len(Append(browser, e)) = Len(browser) + 1
        /\ \A i \in 1 .. Len(browser) : Append(browser, e)[i] = browser[i]
        /\ Append(browser, e)[Len(browser) + 1] = e
    BY <1>0, <2>2, AppendProperties
  <2>4. browser' = Append(browser, e) /\ e.ip = pending[w].ip
    BY <2>1
  <2> HIDE DEF e
  <2>5. DOMAIN browser' = 1 .. Len(browser) + 1
    BY <2>3, <2>4, LenProperties
  <2>6. \A i \in DOMAIN browser' : i \in 1 .. Len(browser) \/ i = Len(browser) + 1
    BY <1>0, <2>5
  <2> QED BY <1>0, <1>1, <2>3, <2>4, <2>6 DEF Enlist, Serving, Answered
<1>2. ASSUME NEW i \in Own(pending[w]), NEW e \in Entry, pending[w] # None,
             browser' = [browser EXCEPT ![i] = e], e.ip = browser[i].ip
      PROVE  /\ browser' \in Seq(Entry)
             /\ Len(browser) <= Len(browser')
             /\ \A j \in DOMAIN browser' :
                  \/ j \in DOMAIN browser /\ browser'[j] = browser[j]
                  \/ browser'[j].ip = pending[w].ip
  <2>1. i \in DOMAIN browser /\ browser[i].ip = pending[w].ip
    BY DEF Own
  <2> QED BY <1>0, <1>2, <2>1, WriteFacts
<1>3. CASE Rename(w)
  <2>1. PICK i \in Own(pending[w]) : browser' = [browser EXCEPT ![i].name = pending[w].name]
    BY <1>3 DEF Rename
  <2>2. browser[i] \in Entry /\ pending[w].name \in Names
    BY <1>0, <1>3 DEF Rename, Serving, Requests, Own
  <2>3. /\ [browser[i] EXCEPT !.name = pending[w].name] \in Entry
        /\ [browser[i] EXCEPT !.name = pending[w].name].ip = browser[i].ip
        /\ browser' = [browser EXCEPT ![i] = [browser[i] EXCEPT !.name = pending[w].name]]
    BY <2>1, <2>2 DEF Entry
  <2> QED BY <1>2, <1>3, <2>3 DEF Rename, Serving
<1>4. CASE Renew(w)
  <2>1. PICK i \in Own(pending[w]), age \in Ages : browser' = [browser EXCEPT ![i].age = age]
    BY <1>4 DEF Renew
  <2>2. browser[i] \in Entry
    BY <1>0 DEF Own
  <2>3. /\ [browser[i] EXCEPT !.age = age] \in Entry
        /\ [browser[i] EXCEPT !.age = age].ip = browser[i].ip
        /\ browser' = [browser EXCEPT ![i] = [browser[i] EXCEPT !.age = age]]
    BY <2>1, <2>2 DEF Entry
  <2> QED BY <1>2, <1>4, <2>3 DEF Renew, Serving, Answered
<1>5. CASE Answer(w)
  BY <1>0, <1>5 DEF Answer, Answered
<1> QED BY <1>1, <1>3, <1>4, <1>5 DEF Serve

\* The sweeper moves entries up by one place at most and writes none.
LEMMA SweepMoves ==
  ASSUME BTypeOK, (\E i \in DOMAIN browser : Condemn(i)) \/ Evict
  PROVE  /\ browser' \in Seq(Entry)
         /\ Len(browser') <= Len(browser)
         /\ condemned' \in 0 .. Len(browser')
         /\ pending' = pending
         /\ \A i \in DOMAIN browser' :
              \E j \in {i, i + 1} \cap DOMAIN browser : browser'[i] = browser[j]
<1>0. /\ browser \in Seq(Entry) /\ Len(browser) \in Nat /\ DOMAIN browser = 1 .. Len(browser)
  BY LenProperties DEF BTypeOK
<1>1. CASE \E i \in DOMAIN browser : Condemn(i)
  BY <1>0, <1>1 DEF Condemn
<1>2. CASE Evict
  <2>1. PICK i \in 1 .. Len(browser) : browser' = RemoveAt(browser, i)
    BY <1>0, <1>2 DEF Evict, BTypeOK
  <2>2. /\ browser' \in Seq(Entry) /\ Len(browser') = Len(browser) - 1
        /\ \A k \in 1 .. Len(browser) - 1 :
             browser'[k] = IF k < i THEN browser[k] ELSE browser[k + 1]
    BY <1>0, <2>1, RemoveAtFacts
  <2>3. DOMAIN browser' = 1 .. Len(browser) - 1
    BY <2>2, LenProperties
  <2>4. ASSUME NEW k \in DOMAIN browser'
        PROVE  \E j \in {k, k + 1} \cap DOMAIN browser : browser'[k] = browser[j]
    <3>1. k \in DOMAIN browser /\ k + 1 \in DOMAIN browser
      BY <1>0, <2>3
    <3> QED BY <2>2, <2>3, <3>1
  <2>5. condemned' = 0 /\ pending' = pending
    BY <1>2 DEF Evict
  <2>6. condemned' \in 0 .. Len(browser')
    BY <1>0, <2>1, <2>2, <2>5
  <2> QED BY <1>0, <2>2, <2>4, <2>5, <2>6
<1> QED BY <1>1, <1>2

\* Time makes entries older and does nothing else.
LEMMA AgeMoves ==
  ASSUME BTypeOK, Age
  PROVE  /\ browser' \in Seq(Entry)
         /\ Len(browser') = Len(browser)
         /\ condemned' = condemned /\ pending' = pending
         /\ \A i \in DOMAIN browser' :
              /\ i \in DOMAIN browser
              /\ browser'[i].ip = browser[i].ip
              /\ browser'[i].port = browser[i].port
              /\ browser'[i].name = browser[i].name
              /\ browser[i].age <= browser'[i].age
<1>0. /\ browser \in Seq(Entry) /\ Len(browser) \in Nat /\ DOMAIN browser = 1 .. Len(browser)
  BY LenProperties DEF BTypeOK
<1> DEFINE Older(s) == [s EXCEPT !.age = IF Stale(s) THEN s.age ELSE s.age + 1]
<1>1. ASSUME NEW s \in Entry
      PROVE  /\ Older(s) \in Entry
             /\ Older(s).ip = s.ip /\ Older(s).port = s.port /\ Older(s).name = s.name
             /\ s.age <= Older(s).age
  BY PeriodAssumption DEF Entry, Ages, Stale
<1>2. browser' = [i \in 1 .. Len(browser) |-> Older(browser[i])]
  BY <1>0 DEF Age
<1> HIDE DEF Older
<1>3. \A i \in 1 .. Len(browser) : browser[i] \in Entry
  BY <1>0
<1>4. browser' \in Seq(Entry) /\ Len(browser') = Len(browser)
  BY <1>0, <1>1, <1>2, <1>3
<1>5. \A i \in DOMAIN browser' : i \in 1 .. Len(browser) /\ browser'[i] = Older(browser[i])
  BY <1>2
<1>6. condemned' = condemned /\ pending' = pending
  BY DEF Age
<1>7. ASSUME NEW i \in DOMAIN browser'
      PROVE  /\ i \in DOMAIN browser
             /\ browser'[i].ip = browser[i].ip
             /\ browser'[i].port = browser[i].port
             /\ browser'[i].name = browser[i].name
             /\ browser[i].age <= browser'[i].age
  BY <1>0, <1>1, <1>3, <1>5
<1> QED BY <1>4, <1>6, <1>7

-----------------------------------------------------------------------------
(* Types *)

\* A step of the browser that is no restart keeps it well-typed.
LEMMA BrowserTyped ==
  ASSUME BTypeOK, browser' \in Seq(Entry), Len(browser) <= Len(browser'),
         condemned' = condemned, pending' \in [Workers -> Requests \cup {None}]
  PROVE  BTypeOK'
<1>1. condemned \in 0 .. Len(browser) /\ Len(browser) \in Nat /\ Len(browser') \in Nat
  BY LenProperties DEF BTypeOK
<1> QED BY <1>1 DEF BTypeOK

\* The type invariant holds when everything is down.
LEMMA InitTyped == LInit => LTypeOK
<1> SUFFICES ASSUME LInit PROVE LTypeOK
  OBVIOUS
<1>1. /\ browser \in Seq(Entry) /\ Len(browser) = 0
  BY EmptySeq DEF LInit, BInit
<1>2. BTypeOK
  BY <1>1 DEF LInit, BInit, BTypeOK
<1>3. Len(browser) <= MaxEntries
  BY <1>1, BoundsAssumption
<1> QED BY <1>2, <1>3 DEF LInit, LTypeOK

\* What a host does leaves the browser alone and puts only requests on their way.
LEMMA HostTyped ==
  ASSUME LTypeOK, NEW h \in Hosts, Boot(h) \/ HostStep(h) \/ Crash(h)
  PROVE  LTypeOK' /\ UNCHANGED bvars
<1>1. UNCHANGED bvars
  BY DEF Boot, HostStep, Register, StartBeating, GiveUp, Beat, Update, Crash
<1>2. BTypeOK' /\ Len(browser') <= MaxEntries
  BY <1>1 DEF LTypeOK, BTypeOK, bvars
<1>3. net' \in SUBSET Requests
  <2>1. \A port \in Ports :
          /\ [op |-> "perform_heartbeat", ip |-> h, port |-> port] \in Requests
          /\ \A name \in Names :
               /\ [op |-> "register_server", ip |-> h, port |-> port, name |-> name] \in Requests
               /\ [op |-> "update_server", ip |-> h, port |-> port, name |-> name] \in Requests
    BY DEF Requests
  <2>2. CASE net' = net
    BY <2>2 DEF LTypeOK
  <2>3. ASSUME NEW r \in Requests, Send(r)
        PROVE  net' \in SUBSET Requests
    BY <2>3 DEF LTypeOK, Send
  <2>4. CASE Register(h) \/ Beat(h) \/ Update(h)
    <3>1. \E r \in Requests : Send(r)
      BY <2>1, <2>4 DEF Register, Beat, Update
    <3> QED BY <2>3, <3>1
  <2>5. CASE ~(Register(h) \/ Beat(h) \/ Update(h))
    BY <2>2, <2>5 DEF Boot, HostStep, StartBeating, GiveUp, Crash
  <2> QED BY <2>4, <2>5
<1>4. /\ host' \in [Hosts -> {"down", "up", "registering", "beating"}]
      /\ accepted' \in SUBSET {k \in Hosts : host'[k] = "registering"}
  BY DEF LTypeOK, Boot, HostStep, Register, StartBeating, GiveUp, Beat, Update, Crash, Goes
<1> QED BY <1>1, <1>2, <1>3, <1>4 DEF LTypeOK

\* The inductive step.
LEMMA NextTyped == LTypeOK /\ [LNext]_lvars => LTypeOK'
<1> SUFFICES ASSUME LTypeOK, [LNext]_lvars PROVE LTypeOK'
  OBVIOUS
<1> USE DEF LTypeOK
<1>0. /\ BTypeOK /\ pending \in [Workers -> Requests \cup {None}]
      /\ Len(browser) \in Nat /\ Len(browser) <= MaxEntries
  BY LenProperties DEF BTypeOK
<1>1. ASSUME NEW h \in Hosts, Boot(h) \/ HostStep(h) \/ Crash(h)
      PROVE  LTypeOK'
  BY <1>1, HostTyped
<1>2. ASSUME NEW r \in net, Deliver(r)
      PROVE  LTypeOK'
  <2>1. PICK w \in Workers : Receive(w, r)
    BY <1>2 DEF Deliver
  <2>2. BTypeOK' /\ browser' = browser
    BY <1>0, <2>1 DEF BTypeOK, Receive
  <2> QED BY <1>0, <1>2, <2>2 DEF Deliver
<1>3. ASSUME NEW r \in net, Lose(r)
      PROVE  LTypeOK'
  BY <1>3 DEF Lose, BTypeOK, bvars
<1>4. ASSUME NEW w \in Workers, Work(w)
      PROVE  LTypeOK'
  <2>1. /\ browser' \in Seq(Entry) /\ Len(browser) <= Len(browser')
        /\ condemned' = condemned /\ pending[w] # None
        /\ pending' = pending \/ pending' = [pending EXCEPT ![w] = None]
    BY <1>0, <1>4, ServeMoves DEF Work
  <2>2. BTypeOK'
    BY <1>0, <2>1, BrowserTyped
  <2>3. accepted' \in SUBSET {h \in Hosts : host'[h] = "registering"}
    <3>1. pending[w] \in Requests
      BY <1>0, <2>1
    <3>2. pending[w].op = "register_server" => pending[w].ip \in Hosts
      BY <3>1 DEF Requests
    <3> QED BY <1>4, <3>2 DEF Work, Reply
  <2> QED BY <1>4, <2>2, <2>3 DEF Work
<1>5. CASE Sweep
  <2>1. /\ browser' \in Seq(Entry) /\ Len(browser') <= Len(browser)
        /\ condemned' \in 0 .. Len(browser') /\ pending' = pending
    BY <1>0, <1>5, SweepMoves DEF Sweep
  <2>2. Len(browser') \in Nat
    BY <2>1, LenProperties
  <2>3. BTypeOK' /\ Len(browser') <= MaxEntries
    BY <1>0, <2>1, <2>2, BoundsAssumption DEF BTypeOK
  <2> QED BY <1>5, <2>3 DEF Sweep
<1>6. CASE TimePasses
  <2>1. /\ browser' \in Seq(Entry) /\ Len(browser') = Len(browser)
        /\ condemned' = condemned /\ pending' = pending
    BY <1>0, <1>6, AgeMoves DEF TimePasses
  <2>2. BTypeOK'
    BY <1>0, <2>1 DEF BTypeOK
  <2> QED BY <1>0, <1>6, <2>1, <2>2 DEF TimePasses
<1>7. CASE Restart
  <2>1. browser' \in Seq(Entry) /\ Len(browser') = 0
    BY <1>7, EmptySeq DEF Restart
  <2>2. BTypeOK' /\ Len(browser') <= MaxEntries
    BY <1>7, <2>1, BoundsAssumption DEF Restart, BTypeOK
  <2> QED BY <1>7, <2>2 DEF Restart
<1>8. CASE UNCHANGED lvars
  BY <1>8 DEF lvars, bvars, BTypeOK
<1> QED BY <1>1, <1>2, <1>3, <1>4, <1>5, <1>6, <1>7, <1>8 DEF LNext

\* Hosts, network and browser together are well-typed: through restarts too, the entry
\* that the sweeper is about to look up is on the list, and only a host that waits for
\* an answer is about to get one.
THEOREM LeaseTypeCorrect == LSpec => []LTypeOK
<1> QED BY InitTyped, NextTyped, PTL DEF LSpec

-----------------------------------------------------------------------------
(* Hosts that are gone *)

\* The step relates the entries of a host before and after it.
Fades(h) ==
  \A i \in DOMAIN browser' : browser'[i].ip = h =>
    \E j \in {i, i + 1} \cap DOMAIN browser :
      /\ browser[j].ip = h
      /\ browser[j].port = browser'[i].port
      /\ browser[j].name = browser'[i].name
      /\ browser[j].age <= browser'[i].age

\* Entries that only move up, by a place at most, fade.
LEMMA MovedFades ==
  ASSUME browser \in Seq(Entry), browser' \in Seq(Entry), NEW h \in Hosts,
         \A i \in DOMAIN browser' : browser'[i].ip = h =>
           \E j \in {i, i + 1} \cap DOMAIN browser : browser'[i] = browser[j]
  PROVE  Fades(h)
<1> SUFFICES ASSUME NEW i \in DOMAIN browser', browser'[i].ip = h
             PROVE  \E j \in {i, i + 1} \cap DOMAIN browser :
                      /\ browser[j].ip = h
                      /\ browser[j].port = browser'[i].port
                      /\ browser[j].name = browser'[i].name
                      /\ browser[j].age <= browser'[i].age
  BY DEF Fades
<1>1. PICK j \in {i, i + 1} \cap DOMAIN browser : browser'[i] = browser[j]
  OBVIOUS
<1>2. browser[j] \in Entry
  BY LenProperties
<1>3. browser[j].age <= browser'[i].age
  BY <1>1, <1>2, PeriodAssumption DEF Entry, Ages
<1> QED BY <1>1, <1>3

\* What another host sends is not a silent host's, and a silent host sends nothing.
LEMMA HostSilent ==
  ASSUME LTypeOK, NEW h \in Hosts, Silent(h), host'[h] = "down",
         NEW k \in Hosts, Boot(k) \/ HostStep(k) \/ Crash(k)
  PROVE  Of(h)' = {}
<1>1. ASSUME NEW r, r.ip = k, net' = net \cup {r}, k # h
      PROVE  Of(h)' = {}
  BY <1>1 DEF Of, Silent
<1>2. k # h \/ net' = net
  BY DEF LTypeOK, Silent, Boot, HostStep, Register, StartBeating, GiveUp, Beat, Update, Crash, Goes
<1>3. CASE net' = net
  BY <1>3 DEF Of, Silent
<1> QED BY <1>1, <1>2, <1>3 DEF Boot, HostStep, Register, StartBeating, GiveUp, Beat, Update, Crash, Send

\* A step keeps a silent host silent and fades its entries.
LEMMA SilentStep ==
  ASSUME LTypeOK, LNext, NEW h \in Hosts, Silent(h), host'[h] = "down"
  PROVE  Silent(h)' /\ Fades(h)
<1>0. /\ BTypeOK /\ browser \in Seq(Entry) /\ pending \in [Workers -> Requests \cup {None}]
      /\ LTypeOK' /\ browser' \in Seq(Entry)
  BY NextTyped DEF LTypeOK, BTypeOK
<1>1. ASSUME UNCHANGED bvars
      PROVE  Fades(h) /\ (Of(h)' = {} => Silent(h)')
  <2>1. browser' = browser /\ pending' = pending
    BY <1>1 DEF bvars
  <2> QED BY <1>0, <2>1, MovedFades DEF Silent
<1>2. ASSUME NEW k \in Hosts, Boot(k) \/ HostStep(k) \/ Crash(k)
      PROVE  Silent(h)' /\ Fades(h)
  BY <1>1, <1>2, HostSilent, HostTyped
<1>3. ASSUME NEW r \in net, Deliver(r)
      PROVE  Silent(h)' /\ Fades(h)
  <2>1. PICK w \in Workers : Receive(w, r)
    BY <1>3 DEF Deliver
  <2>2. r.ip # h
    BY DEF Silent, Of
  <2>3. Silent(h)'
    BY <1>0, <1>3, <2>1, <2>2 DEF Silent, Of, Deliver, Receive
  <2> QED BY <1>0, <2>1, <2>3, MovedFades DEF Receive
<1>4. ASSUME NEW r \in net, Lose(r)
      PROVE  Silent(h)' /\ Fades(h)
  BY <1>1, <1>4 DEF Lose, Silent, Of
<1>5. ASSUME NEW w \in Workers, Work(w)
      PROVE  Silent(h)' /\ Fades(h)
  <2>1. /\ pending[w] # None
        /\ pending' = pending \/ pending' = [pending EXCEPT ![w] = None]
        /\ \A i \in DOMAIN browser' :
             \/ i \in DOMAIN browser /\ browser'[i] = browser[i]
             \/ browser'[i].ip = pending[w].ip
    BY <1>0, <1>5, ServeMoves DEF Work
  <2>2. pending[w].ip # h
    BY <2>1 DEF Silent
  <2>3. Fades(h)
    BY <1>0, <2>1, <2>2, MovedFades
  <2>4. Silent(h)'
    BY <1>0, <1>5, <2>1 DEF Silent, Of, Work
  <2> QED BY <2>3, <2>4
<1>6. CASE Sweep
  <2>1. Fades(h) /\ pending' = pending
    BY <1>0, <1>6, SweepMoves, MovedFades DEF Sweep
  <2> QED BY <1>6, <2>1 DEF Sweep, Silent, Of
<1>7. CASE TimePasses
  <2>1. /\ pending' = pending
        /\ \A i \in DOMAIN browser' :
             /\ i \in DOMAIN browser
             /\ browser'[i].ip = browser[i].ip
             /\ browser'[i].port = browser[i].port
             /\ browser'[i].name = browser[i].name
             /\ browser[i].age <= browser'[i].age
    BY <1>0, <1>7, AgeMoves DEF TimePasses
  <2>2. Fades(h)
    BY <2>1 DEF Fades
  <2> QED BY <1>7, <2>1, <2>2 DEF TimePasses, Silent, Of
<1>8. CASE Restart
  <2>1. DOMAIN browser' = {}
    BY <1>0, <1>8, EmptySeq, LenProperties DEF Restart
  <2>2. Silent(h)'
    BY <1>8 DEF Restart, Silent, Of
  <2> QED BY <2>1, <2>2 DEF Fades
<1> QED BY <1>2, <1>3, <1>4, <1>5, <1>6, <1>7, <1>8 DEF LNext

\* A host that is gone and has nothing on its way never comes back by itself: for any
\* number of hosts that share its name and port, of calls that are being served and of
\* requests that are delayed, lost or reordered, its entries only grow old.
THEOREM SilentHostsAlwaysFade == LSpec => SilentHostsFade
<1>1. ASSUME LTypeOK, [LNext]_lvars
      PROVE  [\A h \in Hosts :
                Silent(h) /\ host'[h] = "down" =>
                  /\ Silent(h)'
                  /\ \A i \in DOMAIN browser' : browser'[i].ip = h =>
                       \E j \in {i, i + 1} \cap DOMAIN browser :
                         /\ browser[j].ip = h
                         /\ browser[j].port = browser'[i].port
                         /\ browser[j].name = browser'[i].name
                         /\ browser[j].age <= browser'[i].age]_lvars
  BY <1>1, SilentStep DEF Fades
<1> QED BY <1>1, LeaseTypeCorrect, PTL DEF LSpec, SilentHostsFade
=============================================================================
