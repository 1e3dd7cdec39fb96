-------------------------- MODULE LanListingProofs --------------------------
(***************************************************************************)
(* What a search on the LAN learns of a session is true, of this search,   *)
(* and nothing that the host's game kept to itself, for any settings and   *)
(* any number of changes, searches and answers on their way.               *)
(***************************************************************************)
EXTENDS LanListing, SequenceTheorems, FiniteSetTheorems, TLAPS

-----------------------------------------------------------------------------
(* The inductive invariant *)

\* What a session says of itself when it answers.
Joinable(s) ==
  /\ s.open > 0 /\ s.visible
  /\ s.state = "InProgress" => s.joinInProgress
  /\ Cardinality(Appended(s)) <= MaxSettings

Shown(s) == [k \in Keys |-> IF k \in Appended(s) THEN s.settings[k].data ELSE None]

\* The packet is what the host said of a session that could be joined, the result all
\* of it or, if the end of the packet was missing, a part that claims nothing.
PacketTrue(p) == Joinable(p.of) /\ p.open = p.of.open /\ p.data = Shown(p.of)

ResultTrue(r) ==
  /\ Joinable(r.of)
  /\ r.open = r.of.open \/ (r.open = 0 /\ ~r.whole)
  /\ r.data = Shown(r.of) \/ (r.data = NoSettings /\ ~r.whole)

Truthful ==
  /\ \A p \in packets : PacketTrue(p)
  /\ \A i \in DOMAIN results : ResultTrue(results[i])

\* Everything on its way has the nonce of the search that it belongs to.
Rounds ==
  /\ nonce = round
  /\ query # None => query.nonce = query.round
  /\ \A p \in packets : p.nonce = p.round
  /\ \A i \in DOMAIN results : results[i].round = round

\* What the session advertises, or ever has, the game chose to advertise.
Chosen ==
  /\ Appended(session) \subseteq public
  /\ NothingPrivate

Inv == ListingTypeOK /\ Truthful /\ Rounds /\ Chosen

-----------------------------------------------------------------------------
(* Lemmas *)

\* The settings of a session that go into a packet.
LEMMA AppendedFacts ==
  ASSUME NEW s \in Session
  PROVE  /\ Cardinality(Appended(s)) \in Nat
         /\ \A k \in Keys : k \in Appended(s) <=> s.settings[k] # None /\ s.settings[k].ad \in {2, 3}
         /\ \A k \in Appended(s) : s.settings[k].data \in Data /\ s.settings[k].data # None
<1>1. \A k \in Keys : s.settings[k] # None => s.settings[k] \in Setting
  BY DEF Session
<1>2. \A k \in Keys : s.settings[k] # None =>
        s.settings[k].data \in Data /\ s.settings[k].ad \in 0 .. 3
  <2>1. ASSUME NEW x \in Setting PROVE x.data \in Data /\ x.ad \in 0 .. 3
    <3>1. x.data \in Data /\ x.ad \in Ads \cup {ViaOnlineService}
      BY DEF Setting
    <3>2. ViaOnlineService \in 0 .. 3
      BY DEF ViaOnlineService
    <3> QED BY <3>1, <3>2, AdsAssumption
  <2> QED BY <1>1, <2>1
<1>3. IsFiniteSet(Appended(s))
  BY KeysAssumption, FS_Subset DEF Appended
<1> QED BY <1>2, <1>3, FS_CardinalityType, NoneAssumption DEF Appended, ViaOnlineService

\* A packet that fits tells the truth about a session that can be joined.
LEMMA PacketFacts ==
  ASSUME NEW s \in Session, NEW q, q.nonce \in 0 .. MaxSearches, q.round \in 0 .. MaxSearches,
         IsSessionJoinable(s), ~Overflow(s)
  PROVE  /\ AppendSessionToPacket(s, q) \in Answer
         /\ PacketTrue(AppendSessionToPacket(s, q))
         /\ \A k \in Keys : AppendSessionToPacket(s, q).data[k] # None => k \in Appended(s)
<1> DEFINE p == AppendSessionToPacket(s, q)
<1>1. /\ p.nonce = q.nonce /\ p.round = q.round /\ p.open = s.open /\ p.of = s
      /\ p.data = Shown(s)
  BY DEF AppendSessionToPacket, Shown
<1>2. Shown(s) \in Listed
  BY AppendedFacts DEF Listed, Shown
<1>3. p \in Answer
  <2>1. s.open \in 0 .. MaxOpen
    BY DEF Session
  <2> QED BY <1>1, <1>2, <2>1 DEF Answer, AppendSessionToPacket
<1>4. Joinable(s)
  <2>1. Cardinality(Appended(s)) <= MaxSettings
    BY AppendedFacts, BoundAssumption DEF Overflow
  <2> QED BY <2>1 DEF IsSessionJoinable, Joinable
<1>5. \A k \in Keys : p.data[k] # None => k \in Appended(s)
  BY <1>1 DEF Shown
<1> HIDE DEF p
<1>6. PacketTrue(p)
  BY <1>1, <1>4 DEF PacketTrue
<1> QED BY <1>3, <1>5, <1>6 DEF p

\* What is read from a true packet is true, and shows nothing that the packet does not.
LEMMA ReadFacts ==
  ASSUME NEW p \in Answer, PacketTrue(p), NEW head \in BOOLEAN, NEW arrive \in SUBSET Sent(p)
  PROVE  /\ ReadSessionFromPacket(p, head, arrive) \in Result
         /\ ResultTrue(ReadSessionFromPacket(p, head, arrive))
         /\ ReadSessionFromPacket(p, head, arrive).round = p.round
         /\ \A k \in Keys : ReadSessionFromPacket(p, head, arrive).data[k] # None
                              => p.data[k] # None
<1> DEFINE r == ReadSessionFromPacket(p, head, arrive)
           got == IF head THEN arrive ELSE {}
<1>1. /\ r.open = IF head THEN p.open ELSE 0
      /\ r.data = ReadSettingsFromPacket(p, got)
      /\ r.whole = (head /\ arrive = Sent(p)) /\ r.of = p.of /\ r.round = p.round
  BY DEF ReadSessionFromPacket
<1>2. /\ p.open \in 0 .. MaxOpen /\ p.data \in Listed
      /\ p.of \in Session /\ p.round \in 0 .. MaxSearches
  BY DEF Answer
<1>3. Read(p, Sent(p)) = p.data
  BY <1>2 DEF Read, Sent, Listed
<1>4. r.data = p.data \/ (r.data = NoSettings /\ ~r.whole)
  BY <1>1, <1>3 DEF ReadSettingsFromPacket
<1>5. r \in Result
  <2>1. NoSettings \in Listed
    BY DEF NoSettings, Listed
  <2>2. r.data \in Listed
    BY <1>2, <1>4, <2>1
  <2>3. 0 \in 0 .. MaxOpen
    BY BoundAssumption
  <2>4. r.open \in 0 .. MaxOpen
    BY <1>1, <1>2, <2>3
  <2>5. r = [open |-> r.open, data |-> r.data, whole |-> r.whole, of |-> r.of,
             round |-> r.round]
    BY DEF ReadSessionFromPacket
  <2>6. r.whole \in BOOLEAN
    BY <1>1
  <2> HIDE DEF r
  <2> QED BY <1>1, <1>2, <2>2, <2>4, <2>5, <2>6 DEF Result
<1> HIDE DEF r
<1>6. ResultTrue(r)
  BY <1>1, <1>4 DEF PacketTrue, ResultTrue
<1>7. \A k \in Keys : r.data[k] # None => p.data[k] # None
  BY <1>4 DEF NoSettings
<1> QED BY <1>1, <1>5, <1>6, <1>7 DEF r

\* The search starts with an empty host and nothing on its way.
LEMMA InitInv == Init => Inv
<1> SUFFICES ASSUME Init PROVE Inv
  OBVIOUS
<1>1. session \in Session /\ \A k \in Keys : session.settings[k] = None
  BY DEF Init
<1>2. ListingTypeOK
  <2>1. MaxSearches \in Nat /\ MaxChanges \in Nat
    BY BoundAssumption
  <2>2. 0 \in 0 .. MaxSearches /\ 0 \in 0 .. MaxChanges
    BY <2>1
  <2>3. results \in Seq(Result) /\ session \in Session
    BY <1>1, EmptySeq DEF Init
  <2> QED BY <2>2, <2>3 DEF Init, ListingTypeOK
<1>3. Appended(session) = {}
  BY <1>1 DEF Appended
<1> QED BY <1>2, <1>3 DEF Init, Inv, Truthful, Rounds, Chosen, NothingPrivate

\* A change of the host that takes nothing back of what the game chose.
LEMMA ChangeInv ==
  ASSUME Inv, NEW to \in Session, Change(to),
         public \subseteq public', public' \subseteq Keys, Appended(to) \subseteq public'
  PROVE  Inv'
<1>1. /\ session' = to /\ changes' = changes + 1 /\ changes < MaxChanges
      /\ UNCHANGED <<query, packets, nonce, searching, results, round>>
  BY DEF Change
<1>2. ListingTypeOK'
  BY <1>1, BoundAssumption DEF Inv, ListingTypeOK
<1>3. Truthful' /\ Rounds'
  BY <1>1 DEF Inv, Truthful, Rounds
<1>4. Chosen'
  BY <1>1 DEF Inv, Chosen, NothingPrivate, Appended
<1> QED BY <1>2, <1>3, <1>4 DEF Inv

\* The game's own settings.
LEMMA UpdateSessionInv ==
  ASSUME Inv, NEW k \in Keys, NEW d \in Data, NEW ad \in Ads \cup {ViaOnlineService},
         UpdateSession(k, d, ad)
  PROVE  Inv'
<1> DEFINE to == [session EXCEPT !.settings[k] = [data |-> d, ad |-> ad]]
<1>1. session \in Session /\ public \subseteq Keys /\ Appended(session) \subseteq public
  BY DEF Inv, ListingTypeOK, Chosen
<1>2. /\ to.settings = [session.settings EXCEPT ![k] = [data |-> d, ad |-> ad]]
      /\ [data |-> d, ad |-> ad] \in Setting
  BY <1>1 DEF Session, Setting
<1>3. to \in Session
  <2>1. to.settings \in [Keys -> Setting \cup {None}]
    BY <1>1, <1>2 DEF Session
  <2> QED BY <1>1, <2>1 DEF Session
<1>4. public' = IF ad >= ViaOnlineService THEN public \cup {k} ELSE public
  BY DEF UpdateSession
<1>5. Appended(to) \subseteq public'
  <2>1. \A j \in Keys : j # k => to.settings[j] = session.settings[j]
    BY <1>1, <1>2 DEF Session
  <2>2. to.settings[k] = [data |-> d, ad |-> ad]
    BY <1>1, <1>2 DEF Session
  <2> HIDE DEF to
  <2> QED BY <1>1, <1>4, <2>1, <2>2 DEF Appended
<1>6. Change(to)
  BY DEF UpdateSession
<1> HIDE DEF to
<1> QED BY <1>1, <1>3, <1>4, <1>5, <1>6, ChangeInv

\* The Blueprint node keeps the advertisement type of a setting that is there.
LEMMA UpdateNodeInv ==
  ASSUME Inv, NEW k \in Keys, NEW d \in Data, UpdateNode(k, d)
  PROVE  Inv'
<1>1. CASE session.settings[k] = None
  BY <1>1, UpdateSessionInv DEF UpdateNode
<1>2. CASE session.settings[k] # None
  <2> DEFINE to == [session EXCEPT !.settings[k].data = d]
  <2>1. session \in Session /\ public \subseteq Keys /\ Appended(session) \subseteq public
    BY DEF Inv, ListingTypeOK, Chosen
  <2>2. session.settings[k] \in Setting
    BY <1>2, <2>1 DEF Session
  <2>3. /\ to.settings = [session.settings EXCEPT ![k].data = d]
        /\ to.settings[k] = [session.settings[k] EXCEPT !.data = d]
        /\ \A j \in Keys : j # k => to.settings[j] = session.settings[j]
    BY <2>1 DEF Session
  <2>4. to.settings[k] \in Setting /\ to.settings[k].ad = session.settings[k].ad
    BY <2>2, <2>3 DEF Setting
  <2>5. to \in Session
    <3>1. to.settings \in [Keys -> Setting \cup {None}]
      BY <2>1, <2>3, <2>4 DEF Session
    <3> QED BY <2>1, <3>1 DEF Session
  <2>6. Change(to) /\ public' = public
    BY <1>2 DEF UpdateNode
  <2>7. Appended(to) \subseteq public'
    <3> HIDE DEF to
    <3> QED BY <1>2, <2>1, <2>3, <2>4, <2>6 DEF Appended
  <2> HIDE DEF to
  <2> QED BY <2>1, <2>5, <2>6, <2>7, ChangeInv
<1> QED BY <1>1, <1>2

\* Players that come and go, and the match, change no setting.
LEMMA PlayInv ==
  ASSUME Inv, Play
  PROVE  Inv'
<1>1. session \in Session /\ public \subseteq Keys /\ Appended(session) \subseteq public
  BY DEF Inv, ListingTypeOK, Chosen
<1>2. PICK to : /\ Change(to)
                /\ \/ \E open \in 0 .. MaxOpen : to = [session EXCEPT !.open = open]
                   \/ to = [session EXCEPT !.state = IF @ = "Pending" THEN "InProgress"
                                                     ELSE "Pending"]
  BY DEF Play
<1>3. to \in Session /\ to.settings = session.settings
  BY <1>1, <1>2 DEF Session
<1>4. Appended(to) = Appended(session)
  BY <1>3 DEF Appended
<1>5. public' = public
  BY DEF Play
<1> QED BY <1>1, <1>2, <1>3, <1>4, <1>5, ChangeInv

\* The host answers with a packet that tells the truth, or not at all.
LEMMA AnswerInv ==
  ASSUME Inv, OnValidQueryPacketReceived
  PROVE  Inv'
<1> DEFINE p == AppendSessionToPacket(session, query)
<1>1. /\ query # None /\ query' \in {query, None}
      /\ \/ packets' = packets
         \/ packets' = packets \cup {p} /\ IsSessionJoinable(session) /\ ~Overflow(session)
      /\ UNCHANGED <<session, nonce, searching, results, public, round, changes>>
  BY DEF OnValidQueryPacketReceived
<1>2. /\ session \in Session /\ Appended(session) \subseteq public
      /\ query \in [nonce : 1 .. MaxSearches, round : 1 .. MaxSearches]
      /\ query.nonce \in 0 .. MaxSearches /\ query.round \in 0 .. MaxSearches
      /\ query.nonce = query.round
  BY <1>1, BoundAssumption DEF Inv, ListingTypeOK, Chosen, Rounds
<1>3. p.nonce = query.nonce /\ p.round = query.round
  BY DEF AppendSessionToPacket
<1>4. packets' = packets \cup {p} =>
        /\ p \in Answer /\ PacketTrue(p) /\ \A k \in Keys : p.data[k] # None => k \in public
        \/ packets' = packets
  BY <1>1, <1>2, PacketFacts
<1> HIDE DEF p
<1>5. ListingTypeOK'
  BY <1>1, <1>2, <1>4 DEF Inv, ListingTypeOK
<1>6. Truthful'
  BY <1>1, <1>4 DEF Inv, Truthful
<1>7. Rounds'
  BY <1>1, <1>2, <1>3 DEF Inv, Rounds
<1>8. Chosen'
  BY <1>1, <1>4 DEF Inv, Chosen, NothingPrivate, Appended
<1> QED BY <1>5, <1>6, <1>7, <1>8 DEF Inv

\* An accepted answer adds a true result of this search.
LEMMA ResponseInv ==
  ASSUME Inv, NEW p \in packets, NEW head \in BOOLEAN, NEW arrive \in SUBSET Sent(p),
         OnValidResponsePacketReceived(p, head, arrive)
  PROVE  Inv'
<1> DEFINE r == ReadSessionFromPacket(p, head, arrive)
<1>1. /\ packets' \subseteq packets /\ p.nonce = nonce /\ results' = Append(results, r)
      /\ UNCHANGED <<session, query, nonce, searching, public, round, changes>>
  BY DEF OnValidResponsePacketReceived
<1>2. /\ p \in Answer /\ PacketTrue(p) /\ p.round = round
      /\ results \in Seq(Result)
      /\ \A k \in Keys : p.data[k] # None => k \in public
  BY <1>1 DEF Inv, ListingTypeOK, Truthful, Rounds, Chosen, NothingPrivate
<1>3. /\ r \in Result /\ ResultTrue(r) /\ r.round = round
      /\ \A k \in Keys : r.data[k] # None => k \in public
  BY <1>2, ReadFacts
<1> HIDE DEF r
<1>4. /\ results' \in Seq(Result)
      /\ \A i \in DOMAIN results' :
           results'[i] = r \/ (i \in DOMAIN results /\ results'[i] = results[i])
  BY <1>1, <1>2, <1>3, AppendProperties
<1>5. ListingTypeOK'
  BY <1>1, <1>4 DEF Inv, ListingTypeOK
<1>6. Truthful'
  <2>1. \A i \in DOMAIN results' : ResultTrue(results'[i])
    BY <1>3, <1>4 DEF Inv, Truthful
  <2>2. \A q \in packets' : PacketTrue(q)
    BY <1>1 DEF Inv, Truthful
  <2> QED BY <2>1, <2>2 DEF Truthful
<1>7. Rounds'
  BY <1>1, <1>3, <1>4 DEF Inv, Rounds
<1>8. Chosen'
  BY <1>1, <1>3, <1>4 DEF Inv, Chosen, NothingPrivate, Appended
<1> QED BY <1>5, <1>6, <1>7, <1>8 DEF Inv

\* A search that begins or ends and a datagram that is lost invent nothing.
LEMMA ClientInv ==
  ASSUME Inv, FindLANSession \/ SearchEnds \/ Lose \/ UNCHANGED vars
  PROVE  Inv'
<1>1. UNCHANGED <<session, public, changes>>
  BY DEF FindLANSession, SearchEnds, Lose, vars
<1>2. packets' \subseteq packets /\ (results' = results \/ results' = <<>>)
  BY DEF FindLANSession, SearchEnds, Lose, vars
<1>3. Truthful'
  BY <1>2 DEF Inv, Truthful
<1>4. Chosen'
  BY <1>1, <1>2 DEF Inv, Chosen, NothingPrivate, Appended
<1>5. Rounds' /\ ListingTypeOK'
  <2>1. CASE FindLANSession
    <3>1. /\ round' = round + 1 /\ round < MaxSearches /\ nonce' = round'
          /\ query' = [nonce |-> nonce', round |-> round']
          /\ searching' = TRUE /\ results' = <<>>
      BY <2>1 DEF FindLANSession
    <3>2. round' \in 1 .. MaxSearches
      BY <3>1, BoundAssumption DEF Inv, ListingTypeOK
    <3> QED BY <1>1, <1>2, <3>1, <3>2 DEF Inv, Rounds, ListingTypeOK
  <2>2. CASE SearchEnds \/ Lose \/ UNCHANGED vars
    BY <1>1, <1>2, <2>2 DEF SearchEnds, Lose, vars, Inv, Rounds, ListingTypeOK
  <2> QED BY <2>1, <2>2
<1> QED BY <1>3, <1>4, <1>5 DEF Inv

\* Every step keeps the invariant.
LEMMA NextInv == Inv /\ [Next]_vars => Inv'
<1> SUFFICES ASSUME Inv, [Next]_vars PROVE Inv'
  OBVIOUS
<1>1. ASSUME NEW k \in Keys, NEW d \in Data, NEW ad \in Ads, UpdateSession(k, d, ad)
      PROVE  Inv'
  BY <1>1, UpdateSessionInv
<1>2. ASSUME NEW k \in Keys, NEW d \in Data, UpdateNode(k, d)
      PROVE  Inv'
  BY <1>2, UpdateNodeInv
<1>3. ASSUME NEW p \in packets, NEW head \in BOOLEAN, NEW arrive \in SUBSET Sent(p),
             OnValidResponsePacketReceived(p, head, arrive)
      PROVE  Inv'
  BY <1>3, ResponseInv
<1> QED BY <1>1, <1>2, <1>3, PlayInv, AnswerInv, ClientInv DEF Next

-----------------------------------------------------------------------------
(* The theorems *)

\* The inductive invariant holds in every reachable state.
THEOREM Invariance == Spec => []Inv
<1> QED BY InitInv, NextInv, PTL DEF Spec

\* Settings, packets and results are well-typed.
THEOREM TypeCorrect == Spec => []ListingTypeOK
<1>1. Inv => ListingTypeOK
  BY DEF Inv
<1> QED BY Invariance, <1>1, PTL

\* A search result is all that the host said of its session when it answered, or no
\* setting at all, for any settings and wherever an answer is broken off.
THEOREM ResultsAlwaysTrue == Spec => []ResultsTrue
<1>1. Inv => ResultsTrue
  <2> SUFFICES ASSUME Inv, NEW i \in DOMAIN results
               PROVE  LET r         == results[i]
                          Public(k) == r.of.settings[k] # None /\ r.of.settings[k].ad \in {2, 3}
                      IN  /\ r.of.open > 0 /\ r.of.visible
                          /\ r.of.state = "InProgress" => r.of.joinInProgress
                          /\ r.open = r.of.open \/ (r.open = 0 /\ ~r.whole)
                          /\ \/ \A k \in Keys :
                                  r.data[k] = IF Public(k) THEN r.of.settings[k].data ELSE None
                             \/ ~r.whole /\ \A k \in Keys : r.data[k] = None
                          /\ Cardinality({k \in Keys : Public(k)}) <= MaxSettings
    BY DEF ResultsTrue
  <2> DEFINE r         == results[i]
             Public(k) == r.of.settings[k] # None /\ r.of.settings[k].ad \in {2, 3}
  <2>1. r \in Result /\ ResultTrue(r)
    BY DEF Inv, ListingTypeOK, Truthful
  <2> HIDE DEF r
  <2>2. r.of \in Session
    BY <2>1 DEF Result
  <2>3. \A k \in Keys : k \in Appended(r.of) <=> Public(k)
    BY <2>2, AppendedFacts
  <2>4. Appended(r.of) = {k \in Keys : Public(k)}
    BY <2>3 DEF Appended
  <2>5. \/ \A k \in Keys : r.data[k] = IF Public(k) THEN r.of.settings[k].data ELSE None
        \/ ~r.whole /\ \A k \in Keys : r.data[k] = None
    BY <2>1, <2>3 DEF ResultTrue, Shown, NoSettings
  <2> HIDE DEF Public
  <2> QED BY <2>1, <2>4, <2>5 DEF r, Public, ResultTrue, Joinable
<1> QED BY Invariance, <1>1, PTL

\* No answer to an earlier search is among the results.
THEOREM ResultsAlwaysOfThisSearch == Spec => []ResultsOfThisSearch
<1>1. Inv => ResultsOfThisSearch
  BY DEF Inv, Rounds, ResultsOfThisSearch
<1> QED BY Invariance, <1>1, PTL

\* A setting that the game kept to itself is never on the air.
THEOREM NothingPrivateEver == Spec => []NothingPrivate
<1>1. Inv => NothingPrivate
  BY DEF Inv, Chosen
<1> QED BY Invariance, <1>1, PTL
=============================================================================
